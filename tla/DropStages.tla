----------------------------- MODULE DropStages -----------------------------
(***************************************************************************)
(* What a drop test looks like to the rest of the payload: the stage of the *)
(* test and the two observations the guided controller waits for.  This is  *)
(* the abstract specification of DropTest, and the environment of           *)
(* GuidedDrop.                                                              *)
(***************************************************************************)
VARIABLES
  stage,     \* "idle", "armed", "released", or "landed"
  canopy,    \* a canopy signature was observed
  stable     \* a stable descent was observed

stageVars == <<stage, canopy, stable>>

StagesInit == stage = "idle" /\ canopy = FALSE /\ stable = FALSE

ArmTest ==
  /\ stage = "idle"
  /\ stage' = "armed" /\ canopy' = FALSE /\ stable' = FALSE

\* A release is confirmed; nothing has been observed since.
ReleaseTest ==
  /\ stage = "armed"
  /\ stage' = "released" /\ canopy' = FALSE /\ stable' = FALSE

\* Observations are made in the air, are kept, and may be the last before the
\* landing.
Observe ==
  /\ stage = "released"
  /\ stage' \in {"released", "landed"}
  /\ canopy' \in {canopy, TRUE} /\ stable' \in {stable, TRUE}

\* Landing, timeout and abort end the recording from any stage.
EndTest ==
  /\ stage # "idle"
  /\ stage' = "idle" /\ canopy' = FALSE /\ stable' = FALSE

StagesNext == ArmTest \/ ReleaseTest \/ Observe \/ EndTest

StagesSpec == StagesInit /\ [][StagesNext]_stageVars
=============================================================================
