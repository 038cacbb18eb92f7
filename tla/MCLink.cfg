SPECIFICATION LinkSpec
CONSTANTS
  AgeCap = 15
  Interval = 1
  IdleInterval = 2
  SlotWait = 3
  Repeat = 1
  Hold <- MCHold
  Timeout <- MCTimeout
  Late = 1
  MaxOrders = 2
INVARIANTS
  MovementsHaveAnOperator
  RecordingStopsMoves
  SendsReturn
