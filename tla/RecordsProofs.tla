---------------------------- MODULE RecordsProofs ----------------------------
(***************************************************************************)
(* Theorems about the two records of a drop test, for every number of slots, *)
(* entries, rows, frames and restarts, and every failure of the storages,     *)
(* formats of one that does not mount included.                              *)
(***************************************************************************)
EXTENDS Records, FiniteSetTheorems, SequenceTheorems, NaturalsInduction,
        WellFoundedInduction, TLAPS

-----------------------------------------------------------------------------
(* Directories.                                                             *)

\* A partial function with names in N and files in V.
Directory(N, V) == UNION {[D -> V] : D \in SUBSET N}

LEMMA DirectoryFacts ==
  ASSUME NEW N, NEW V, NEW f \in Directory(N, V)
  PROVE  /\ f \in [DOMAIN f -> V] /\ DOMAIN f \subseteq N
         /\ \A n \in DOMAIN f : f[n] \in V
BY DEF Directory

LEMMA AddedDomain ==
  ASSUME NEW f, NEW name, NEW file
  PROVE  DOMAIN Added(f, name, file) = DOMAIN f \cup {name}
BY DEF Added

LEMMA AddedAt ==
  ASSUME NEW f, NEW name, NEW file
  PROVE  Added(f, name, file)[name] = file
BY DEF Added

LEMMA AddedElsewhere ==
  ASSUME NEW f, NEW name, NEW file, NEW n \in DOMAIN f, n # name
  PROVE  Added(f, name, file)[n] = f[n]
BY DEF Added

LEMMA AddedIsDirectory ==
  ASSUME NEW N, NEW V, NEW f \in Directory(N, V), NEW name \in N, NEW file \in V
  PROVE  Added(f, name, file) \in Directory(N, V)
<1> DEFINE g == Added(f, name, file)
           D == DOMAIN f \cup {name}
<1>1. g = [n \in D |-> IF n = name THEN file ELSE f[n]]
  BY DEF Added
<1>2. f \in [DOMAIN f -> V] /\ DOMAIN f \subseteq N
  BY DirectoryFacts
<1>3. D \in SUBSET N
  BY <1>2
<1>4. \A n \in D : (IF n = name THEN file ELSE f[n]) \in V
  BY <1>2
<1> HIDE DEF D
<1>5. g \in [D -> V]
  BY <1>1, <1>4
<1> QED
  BY <1>3, <1>5 DEF Directory

LEMMA ChangedFacts ==
  ASSUME NEW N, NEW V, NEW f \in Directory(N, V), NEW name \in DOMAIN f, NEW file \in V
  PROVE  /\ [f EXCEPT ![name] = file] \in Directory(N, V)
         /\ DOMAIN [f EXCEPT ![name] = file] = DOMAIN f
         /\ [f EXCEPT ![name] = file][name] = file
         /\ \A n \in DOMAIN f : n # name => [f EXCEPT ![name] = file][n] = f[n]
<1>1. f \in [DOMAIN f -> V] /\ DOMAIN f \in SUBSET N
  BY DirectoryFacts
<1>2. [f EXCEPT ![name] = file] \in [DOMAIN f -> V]
  BY <1>1
<1>3. [f EXCEPT ![name] = file] \in Directory(N, V)
  BY <1>1, <1>2 DEF Directory
<1> QED
  BY <1>3

\* The directory of a storage that was formatted.
LEMMA NothingIsDirectory ==
  ASSUME NEW N, NEW V
  PROVE  <<>> \in Directory(N, V) /\ DOMAIN <<>> = {}
<1>1. DOMAIN <<>> = {}
  BY EmptySeq
<1>2. <<>> \in [{} -> V]
  <2>1. <<>> = [i \in {} |-> 0]
    BY <1>1
  <2> QED
    BY <2>1
<1> QED
  BY <1>1, <1>2 DEF Directory

\* A set of numbers that is not empty has a smallest one.
LEMMA SmallestExists ==
  ASSUME NEW T, T \subseteq Nat, T # {}
  PROVE  \E s \in T : \A t \in T : s <= t
<1>1. PICK s \in T : \A t \in T : ~(<<t, s>> \in OpToRel(<, Nat))
  BY NatLessThanWellFounded, WFMin
<1>2. \A t \in T : ~(t < s)
  BY <1>1 DEF OpToRel
<1>3. \A t \in T : s <= t
  BY <1>2
<1> QED
  BY <1>3

-----------------------------------------------------------------------------
(* The payload's log.                                                       *)

Files  == Directory(Slots, LogFile(Run))
Logger == [files : Files, mounted : BOOLEAN, active : BOOLEAN, slot : Slots,
           count : 0 .. MaxEntries]

\* An open log has a file, and the file is not sealed.
Good(l) ==
  /\ l \in Logger
  /\ l.active => l.mounted /\ l.slot \in DOMAIN l.files /\ ~l.files[l.slot].sealed

\* What was in flash stays there: only the open log changes, no log changes its
\* run, and a log that is open afterwards was open before or is new.
Keeps(a, b) ==
  /\ \A s \in DOMAIN a.files :
       /\ s \in DOMAIN b.files
       /\ b.files[s].run = a.files[s].run
       /\ b.files[s] # a.files[s] => a.active /\ s = a.slot /\ ~a.files[s].sealed
  /\ b.active => (a.active /\ b.slot = a.slot) \/ b.slot \notin DOMAIN a.files

LEMMA KeepsIsTransitive ==
  ASSUME NEW a, NEW b, NEW c, Keeps(a, b), Keeps(b, c)
  PROVE  Keeps(a, c)
BY DEF Keeps

LEMMA ClosedIsGood ==
  ASSUME NEW l, Good(l)
  PROVE  Good([l EXCEPT !.active = FALSE]) /\ Keeps(l, [l EXCEPT !.active = FALSE])
         /\ Keeps(l, l) /\ ~[l EXCEPT !.active = FALSE].active
<1>1. l \in Logger
  BY DEF Good
<1>2. Good([l EXCEPT !.active = FALSE])
  BY <1>1 DEF Good, Logger
<1> QED
  BY <1>1, <1>2 DEF Keeps, Logger

LEMMA BeganIsGood ==
  ASSUME NEW f \in Files, NEW mounted \in BOOLEAN, NEW formatted \in BOOLEAN
  PROVE  LET began == Began(f, mounted, formatted) IN
         /\ Good(began) /\ ~began.active /\ began.active = FALSE
         /\ began.files = IF formatted THEN <<>> ELSE f
<1>1. 0 \in Slots /\ 0 \in 0 .. MaxEntries
  BY FlashLogAssumption DEF Slots
<1>2. (IF formatted THEN <<>> ELSE f) \in Files
  BY NothingIsDirectory DEF Files
<1> QED
  BY <1>1, <1>2 DEF Began, Good, Logger

\* startFlightLog
LEMMA StartIsGood ==
  ASSUME NEW l, Good(l), NEW run \in Run, NEW outcome
  PROVE  LET n == StartFlightLog(l, run, outcome) IN
         /\ Good(n) /\ Keeps(l, n)
         /\ n.active => (l.active /\ n = l) \/ n.files[n.slot].run = run
         /\ l.mounted /\ n.active => n.files[n.slot].run = run
<1> DEFINE n == StartFlightLog(l, run, outcome)
           slot == FirstUnused(l)
           new == [run |-> run, entries |-> 0, counted |-> 0, sealed |-> FALSE]
           f == Added(l.files, slot, new)
           started == [l EXCEPT !.files = f, !.active = TRUE, !.slot = slot, !.count = 0]
<1>1. l \in Logger /\ l.files \in Files
  BY DEF Good, Logger
<1>2. CASE ~l.mounted
  <2>1. n = l
    BY <1>2 DEF StartFlightLog
  <2> QED
    BY <1>2, <2>1, ClosedIsGood DEF Good
<1>3. CASE l.mounted /\ (Unused(l) = {} \/ outcome # "ok")
  <2>1. n = [l EXCEPT !.active = FALSE]
    BY <1>3 DEF StartFlightLog
  <2> QED
    BY <2>1, ClosedIsGood
<1>4. CASE l.mounted /\ Unused(l) # {} /\ outcome = "ok"
  <2>1. Unused(l) \subseteq Nat
    BY FlashLogAssumption DEF Unused, Slots
  <2>2. slot \in Unused(l)
    BY <1>4, <2>1, SmallestExists DEF FirstUnused
  <2>3. slot \in Slots /\ slot \notin DOMAIN l.files
    BY <2>2 DEF Unused
  <2>4. n = started
    BY <1>4 DEF StartFlightLog
  <2>5. new \in LogFile(Run) /\ new.run = run /\ ~new.sealed
    BY DEF LogFile
  <2> HIDE DEF slot, new
  <2>6. /\ f \in Files /\ DOMAIN f = DOMAIN l.files \cup {slot} /\ f[slot] = new
        /\ \A s \in DOMAIN l.files : s # slot => f[s] = l.files[s]
    <3>1. f \in Files
      BY <1>1, <2>3, <2>5, AddedIsDirectory DEF Files
    <3>2. DOMAIN f = DOMAIN l.files \cup {slot}
      BY AddedDomain
    <3>3. f[slot] = new
      BY AddedAt
    <3>4. \A s \in DOMAIN l.files : s # slot => f[s] = l.files[s]
      BY AddedElsewhere
    <3> QED
      BY <3>1, <3>2, <3>3, <3>4
  <2> HIDE DEF f, n
  <2>7. 0 \in 0 .. MaxEntries
    BY FlashLogAssumption
  <2>8. /\ n \in Logger /\ n.files = f /\ n.mounted = l.mounted /\ n.active /\ n.slot = slot
    BY <1>1, <2>3, <2>4, <2>6, <2>7 DEF Logger
  <2>9. Good(n) /\ n.files[n.slot].run = run
    BY <1>4, <2>5, <2>6, <2>8 DEF Good
  <2>10. Keeps(l, n)
    BY <2>3, <2>6, <2>8 DEF Keeps
  <2> QED
    BY <2>9, <2>10 DEF n
<1> QED
  BY <1>2, <1>3, <1>4

\* log and what packs for it.
LEMMA EntryIsGood ==
  ASSUME NEW l, Good(l), NEW outcome
  PROVE  LET n == LogEntry(l, outcome) IN
         Good(n) /\ Keeps(l, n) /\ (n.active => l.active /\ n.slot = l.slot) /\ n.mounted = l.mounted
<1> DEFINE n == LogEntry(l, outcome)
           file == WriteEntry(l.files[l.slot], outcome)
           f == [l.files EXCEPT ![l.slot] = file]
           k == l.count + 1
           logged == [l EXCEPT !.count = k, !.files = f]
<1>1. l \in Logger /\ l.files \in Files /\ l.slot \in Slots /\ l.count \in 0 .. MaxEntries
  BY DEF Good, Logger
<1>2. CASE n = l
  BY <1>1, <1>2, ClosedIsGood
<1>3. CASE n = [l EXCEPT !.active = FALSE]
  BY <1>1, <1>3, ClosedIsGood DEF Logger
<1>4. CASE l.active /\ ~(l.count >= MaxEntries \/ outcome = "refused")
  <2>1. l.slot \in DOMAIN l.files /\ ~l.files[l.slot].sealed /\ l.mounted
    BY <1>4 DEF Good
  <2>2. n = [l EXCEPT !.count = @ + 1, !.files[l.slot] = WriteEntry(@, outcome)]
    BY <1>4 DEF LogEntry
  <2>3. n = logged
    BY <1>1, <2>1, <2>2 DEF Logger
  <2>4. l.files[l.slot] \in LogFile(Run)
    BY <1>1, <2>1, DirectoryFacts DEF Files
  <2>5. file \in LogFile(Run) /\ file.run = l.files[l.slot].run /\ ~file.sealed
    BY <2>1, <2>4 DEF WriteEntry, LogFile
  <2>6. k \in 0 .. MaxEntries
    BY <1>1, <1>4, FlashLogAssumption
  <2> HIDE DEF file, n, k
  <2>7. /\ f \in Files /\ DOMAIN f = DOMAIN l.files /\ f[l.slot] = file
        /\ \A s \in DOMAIN l.files : s # l.slot => f[s] = l.files[s]
    BY <1>1, <2>1, <2>5, ChangedFacts DEF Files
  <2> HIDE DEF f
  <2>8. /\ n \in Logger /\ n.files = f /\ n.mounted = l.mounted /\ n.active = l.active
        /\ n.slot = l.slot
    BY <1>1, <2>3, <2>6, <2>7 DEF Logger
  <2>9. Good(n)
    BY <2>1, <2>5, <2>7, <2>8 DEF Good
  <2>10. Keeps(l, n)
    BY <1>4, <2>1, <2>5, <2>7, <2>8 DEF Keeps
  <2> QED
    BY <1>4, <2>8, <2>9, <2>10 DEF n
<1> QED
  BY <1>2, <1>3, <1>4 DEF LogEntry

\* endFlightLog
LEMMA EndIsGood ==
  ASSUME NEW l, Good(l), NEW outcome
  PROVE  LET n == EndFlightLog(l, outcome) IN
         Good(n) /\ Keeps(l, n) /\ ~n.active /\ n.mounted = l.mounted
<1> DEFINE n == EndFlightLog(l, outcome)
           file == [l.files[l.slot] EXCEPT !.counted = l.count, !.sealed = TRUE]
           f == [l.files EXCEPT ![l.slot] = file]
           ended == [l EXCEPT !.active = FALSE, !.files = f]
<1>1. l \in Logger /\ l.files \in Files /\ l.slot \in Slots /\ l.count \in Nat
  BY FlashLogAssumption DEF Good, Logger
<1>2. CASE ~l.active
  <2>1. n = l
    BY <1>2 DEF EndFlightLog
  <2> QED
    BY <1>2, <2>1, ClosedIsGood
<1>3. CASE l.active /\ outcome # "ok"
  <2>1. n = [l EXCEPT !.active = FALSE]
    BY <1>3 DEF EndFlightLog
  <2> QED
    BY <1>1, <2>1, ClosedIsGood DEF Logger
<1>4. CASE l.active /\ outcome = "ok"
  <2>1. l.slot \in DOMAIN l.files /\ ~l.files[l.slot].sealed
    BY <1>4 DEF Good
  <2>2. n = [l EXCEPT !.active = FALSE, !.files[l.slot].counted = l.count,
                      !.files[l.slot].sealed = TRUE]
    BY <1>4 DEF EndFlightLog
  <2>3. n = ended
    BY <1>1, <2>1, <2>2 DEF Logger
  <2>4. l.files[l.slot] \in LogFile(Run)
    BY <1>1, <2>1, DirectoryFacts DEF Files
  <2>5. file \in LogFile(Run) /\ file.run = l.files[l.slot].run
    BY <1>1, <2>4 DEF LogFile
  <2> HIDE DEF file, n
  <2>6. /\ f \in Files /\ DOMAIN f = DOMAIN l.files /\ f[l.slot] = file
        /\ \A s \in DOMAIN l.files : s # l.slot => f[s] = l.files[s]
    BY <1>1, <2>1, <2>5, ChangedFacts DEF Files
  <2> HIDE DEF f
  <2>7. n \in Logger /\ n.files = f /\ n.mounted = l.mounted /\ ~n.active
    BY <1>1, <2>3, <2>6 DEF Logger
  <2>8. Good(n)
    BY <2>7 DEF Good
  <2>9. Keeps(l, n)
    BY <1>4, <2>1, <2>5, <2>6, <2>7 DEF Keeps
  <2> QED
    BY <2>7, <2>8, <2>9 DEF n
<1> QED
  BY <1>2, <1>3, <1>4

-----------------------------------------------------------------------------
(* The rows of a CSV file.                                                  *)

\* Rows of one test, in the order they were sent.
Ordered(rows, id) ==
  /\ \A i, j \in DOMAIN rows : i < j => rows[i].stamp < rows[j].stamp
  /\ \A i \in DOMAIN rows : rows[i].id = id

LEMMA AppendedRows ==
  ASSUME NEW rows \in Seq(Frame), NEW frame \in Frame
  PROVE  /\ Append(rows, frame) \in Seq(Frame)
         /\ Len(Append(rows, frame)) = Len(rows) + 1
         /\ DOMAIN Append(rows, frame) = DOMAIN rows \cup {Len(rows) + 1}
         /\ Append(rows, frame)[Len(rows) + 1] = frame
         /\ \A i \in DOMAIN rows : Append(rows, frame)[i] = rows[i]
         /\ Len(rows) \in Nat /\ DOMAIN rows = 1 .. Len(rows)
<1>1. /\ Append(rows, frame) \in Seq(Frame)
      /\ Len(Append(rows, frame)) = Len(rows) + 1
      /\ \A i \in 1 .. Len(rows) : Append(rows, frame)[i] = rows[i]
      /\ Append(rows, frame)[Len(rows) + 1] = frame
  BY AppendProperties
<1>2. Len(rows) \in Nat /\ DOMAIN rows = 1 .. Len(rows)
  BY LenProperties
<1>3. DOMAIN Append(rows, frame) = 1 .. Len(rows) + 1
  BY <1>1, LenProperties
<1>4. 1 .. Len(rows) + 1 = (1 .. Len(rows)) \cup {Len(rows) + 1}
  BY <1>2
<1> QED
  BY <1>1, <1>2, <1>3, <1>4

LEMMA AppendedIsOrdered ==
  ASSUME NEW rows \in Seq(Frame), NEW frame \in Frame, Ordered(rows, frame.id),
         \A i \in DOMAIN rows : rows[i].stamp < frame.stamp
  PROVE  /\ Ordered(Append(rows, frame), frame.id)
         /\ \A i \in DOMAIN Append(rows, frame) : Append(rows, frame)[i].stamp <= frame.stamp
<1> DEFINE more == Append(rows, frame)
           last == Len(rows) + 1
<1>1. /\ DOMAIN more = DOMAIN rows \cup {last} /\ more[last] = frame
      /\ \A i \in DOMAIN rows : more[i] = rows[i]
      /\ DOMAIN rows = 1 .. Len(rows) /\ Len(rows) \in Nat
  BY AppendedRows
<1>2. \A i \in DOMAIN rows : rows[i] \in Frame
  BY ElementOfSeq, <1>1
<1>3. \A i \in DOMAIN rows : rows[i].stamp \in Int
  BY <1>2 DEF Frame
<1>4. frame.stamp \in Int
  BY DEF Frame
<1> HIDE DEF more
<1>5. ASSUME NEW i \in DOMAIN more, NEW j \in DOMAIN more, i < j
      PROVE  more[i].stamp < more[j].stamp
  <2>1. i \in DOMAIN rows
    BY <1>1, <1>5
  <2>2. CASE j \in DOMAIN rows
    BY <1>1, <1>5, <2>1, <2>2 DEF Ordered
  <2>3. CASE j = last
    BY <1>1, <2>1, <2>3
  <2> QED
    BY <1>1, <2>2, <2>3
<1>6. \A i \in DOMAIN more : more[i].id = frame.id
  BY <1>1 DEF Ordered
<1>7. \A i \in DOMAIN more : more[i].stamp <= frame.stamp
  BY <1>1, <1>3, <1>4
<1> QED
  BY <1>5, <1>6, <1>7 DEF Ordered, more

-----------------------------------------------------------------------------
(* The ground's files.                                                      *)

Names    == CsvSlots \X Id
CsvType  == [mounted : BOOLEAN, active : BOOLEAN, file : Names \cup {NoCsv}]
SheetDir == Directory(Names, Seq(Frame))

SheetsGood(sh) ==
  sh \in SheetDir /\ \A f \in DOMAIN sh : Ordered(sh[f], f[2]) /\ Len(sh[f]) <= MaxRows

\* The open file is of the session's test, and ends with its last sample.
CsvFits(ses, c, sh) ==
  c.active =>
    /\ c.file \in DOMAIN sh /\ ses.active /\ c.file[2] = ses.test
    /\ \A i \in DOMAIN sh[c.file] : sh[c.file][i].stamp <= ses.sample

HasRow(sh, frame) == \E f \in DOMAIN sh : \E i \in DOMAIN sh[f] : sh[f][i] = frame

\* Files only grow, by this frame and by empty files.
SheetsGrow(a, b, frame) ==
  /\ \A f \in DOMAIN a : f \in DOMAIN b /\ b[f] \in {a[f], Append(a[f], frame)}
  /\ \A f \in DOMAIN b : f \in DOMAIN a \/ b[f] = <<>>

LEMMA SheetFacts ==
  ASSUME NEW sh \in SheetDir
  PROVE  DOMAIN sh \subseteq Names /\ \A f \in DOMAIN sh : sh[f] \in Seq(Frame)
BY DirectoryFacts DEF SheetDir

\* startGroundDropLog
LEMMA CsvStartedFits ==
  ASSUME SheetsGood(sheets), NEW c \in CsvType, ~c.active, NEW id \in Id, NEW outcome,
         NEW ses, ses.active, ses.test = id, ses.sample = None
  PROVE  LET n == CsvStarted(c, id, outcome) IN
         /\ n.csv \in CsvType /\ SheetsGood(n.sheets) /\ CsvFits(ses, n.csv, n.sheets)
         /\ SheetsGrow(sheets, n.sheets, air)
         /\ \A f \in DOMAIN sheets : n.sheets[f] = sheets[f]
         /\ ~n.csv.active => NoFileOpens(id, outcome)
<1> DEFINE n == CsvStarted(c, id, outcome)
           k == CHOOSE k \in UnusedNumbers(id) : \A l \in UnusedNumbers(id) : k <= l
           name == <<k, id>>
           d == [c EXCEPT !.active = TRUE, !.file = name]
           more == Added(sheets, name, <<>>)
<1>1. sheets \in SheetDir
  BY DEF SheetsGood
<1>2. CASE NoFileOpens(id, outcome)
  <2>1. n = [csv |-> c, sheets |-> sheets]
    BY <1>2 DEF CsvStarted
  <2>2. CsvFits(ses, c, sheets) /\ SheetsGrow(sheets, sheets, air)
    BY DEF CsvFits, SheetsGrow
  <2> QED
    BY <1>2, <2>1, <2>2
<1>3. CASE ~NoFileOpens(id, outcome)
  <2>1. UnusedNumbers(id) \subseteq Nat /\ UnusedNumbers(id) # {}
    BY <1>3, RecordsAssumption DEF UnusedNumbers, NoFileOpens
  <2>2. \E l \in UnusedNumbers(id) : \A q \in UnusedNumbers(id) : l <= q
    BY <2>1, SmallestExists
  <2>3. k \in UnusedNumbers(id)
    BY <2>2
  <2>4. n = [csv |-> d, sheets |-> more]
    BY <1>3 DEF CsvStarted
  <2> HIDE DEF k, n
  <2>5. name \in Names /\ name \notin DOMAIN sheets /\ name[2] = id
    BY <2>3 DEF UnusedNumbers, Names
  <2> HIDE DEF name
  <2>6. <<>> \in Seq(Frame) /\ Len(<<>>) = 0 /\ DOMAIN <<>> = {}
    BY EmptySeq
  <2>7. more \in SheetDir
    BY <1>1, <2>5, <2>6, AddedIsDirectory DEF SheetDir
  <2>8. DOMAIN more = DOMAIN sheets \cup {name}
    BY AddedDomain
  <2>9. more[name] = <<>>
    BY AddedAt
  <2>10. \A f \in DOMAIN sheets : f # name => more[f] = sheets[f]
    BY AddedElsewhere
  <2> HIDE DEF more
  <2>11. Ordered(<<>>, id)
    BY <2>6 DEF Ordered
  <2>12. SheetsGood(more)
    BY <2>5, <2>6, <2>7, <2>8, <2>9, <2>10, <2>11, RecordsAssumption DEF SheetsGood
  <2>13. d \in CsvType /\ d.active /\ d.file = name
    BY <2>5 DEF CsvType
  <2> HIDE DEF d
  <2>14. CsvFits(ses, d, more)
    BY <2>5, <2>6, <2>8, <2>9, <2>13 DEF CsvFits
  <2>15. \A f \in DOMAIN sheets : f \in DOMAIN more /\ more[f] = sheets[f]
    BY <2>5, <2>8, <2>10
  <2>16. SheetsGrow(sheets, more, air)
    BY <2>8, <2>9, <2>15 DEF SheetsGrow
  <2>17. n.csv = d /\ n.sheets = more
    BY <2>4
  <2> QED
    BY <2>12, <2>13, <2>14, <2>15, <2>16, <2>17 DEF n
<1> QED
  BY <1>2, <1>3

\* appendGroundDropTelemetry
LEMMA CsvAppendedFits ==
  ASSUME NEW sh, SheetsGood(sh), NEW c \in CsvType, NEW ses, CsvFits(ses, c, sh),
         NEW frame \in Frame, ses.test = frame.id, ses.sample \in Int,
         ses.sample < frame.stamp, NEW outcome,
         NEW s, s = [csv |-> c, sheets |-> sh]
  PROVE  LET n == CsvAppended(s, frame, outcome) IN
         /\ n.csv \in CsvType /\ SheetsGood(n.sheets) /\ SheetsGrow(sh, n.sheets, frame)
         /\ n.csv.active =>
              /\ c.active /\ HasRow(n.sheets, frame)
              /\ n.csv.file \in DOMAIN n.sheets /\ n.csv.file[2] = frame.id
              /\ \A i \in DOMAIN n.sheets[n.csv.file] : n.sheets[n.csv.file][i].stamp <= frame.stamp
         /\ c.active /\ ~n.csv.active => NoRowFits(sh[c.file], outcome)
<1> DEFINE n == CsvAppended(s, frame, outcome)
           rows == Append(sh[c.file], frame)
           more == [sh EXCEPT ![c.file] = rows]
<1>1. s.csv = c /\ s.sheets = sh
  OBVIOUS
<1>2. SheetsGrow(sh, sh, frame)
  BY DEF SheetsGrow
<1>3. CASE ~c.active
  <2>1. n = s
    BY <1>1, <1>3 DEF CsvAppended
  <2> QED
    BY <1>1, <1>2, <1>3, <2>1
<1>4. CASE c.active /\ NoRowFits(sh[c.file], outcome)
  <2>1. n = [s EXCEPT !.csv.active = FALSE]
    BY <1>1, <1>4 DEF CsvAppended
  <2>2. n.csv = [c EXCEPT !.active = FALSE] /\ n.sheets = sh
    BY <1>1, <2>1
  <2> HIDE DEF n
  <2>3. n.csv \in CsvType /\ ~n.csv.active
    BY <2>2 DEF CsvType
  <2> QED
    BY <1>2, <1>4, <2>2, <2>3 DEF n
<1>5. CASE c.active /\ ~NoRowFits(sh[c.file], outcome)
  <2>1. n = [s EXCEPT !.sheets[c.file] = Append(@, frame)]
    BY <1>1, <1>5 DEF CsvAppended
  <2>2. n.csv = c /\ n.sheets = more
    BY <1>1, <2>1
  <2>3. /\ c.file \in DOMAIN sh /\ ses.active /\ c.file[2] = frame.id
        /\ \A i \in DOMAIN sh[c.file] : sh[c.file][i].stamp <= ses.sample
    BY <1>5 DEF CsvFits
  <2>4. sh \in SheetDir /\ sh[c.file] \in Seq(Frame) /\ Ordered(sh[c.file], frame.id)
    BY <2>3, SheetFacts DEF SheetsGood
  <2>5. \A i \in DOMAIN sh[c.file] : sh[c.file][i].stamp < frame.stamp
    <3> DEFINE r == sh[c.file]
    <3>1. \A i \in DOMAIN r : r[i] \in Frame
      BY <2>4, AppendedRows, ElementOfSeq
    <3>2. \A i \in DOMAIN r : r[i].stamp \in Int
      BY <3>1 DEF Frame
    <3>3. frame.stamp \in Int
      BY DEF Frame
    <3>4. \A i \in DOMAIN r : r[i].stamp <= ses.sample
      BY <2>3
    <3> HIDE DEF r
    <3>5. \A i \in DOMAIN r : r[i].stamp < frame.stamp
      BY <3>2, <3>3, <3>4
    <3> QED
      BY <3>5 DEF r
  <2>6. /\ Ordered(rows, frame.id)
        /\ \A i \in DOMAIN rows : rows[i].stamp <= frame.stamp
    BY <2>4, <2>5, AppendedIsOrdered
  <2>7. /\ rows \in Seq(Frame) /\ Len(rows) = Len(sh[c.file]) + 1
        /\ rows[Len(sh[c.file]) + 1] = frame /\ Len(sh[c.file]) + 1 \in DOMAIN rows
        /\ Len(sh[c.file]) \in Nat
    BY <2>4, AppendedRows
  <2>8. Len(rows) <= MaxRows
    BY <1>5, <2>7, RecordsAssumption DEF NoRowFits
  <2>9. \E i \in DOMAIN rows : rows[i] = frame
    BY <2>7
  <2>10. rows = Append(sh[c.file], frame)
    OBVIOUS
  <2> HIDE DEF rows, n
  <2>11. /\ more \in SheetDir /\ DOMAIN more = DOMAIN sh /\ more[c.file] = rows
         /\ \A f \in DOMAIN sh : f # c.file => more[f] = sh[f]
    BY <2>3, <2>4, <2>7, ChangedFacts DEF SheetDir
  <2> HIDE DEF more
  <2>12. SheetsGood(more)
    BY <2>3, <2>6, <2>8, <2>11 DEF SheetsGood
  <2>13. SheetsGrow(sh, more, frame)
    BY <2>10, <2>11 DEF SheetsGrow
  <2>14. HasRow(more, frame)
    BY <2>3, <2>9, <2>11 DEF HasRow
  <2> QED
    BY <1>5, <2>2, <2>3, <2>6, <2>11, <2>12, <2>13, <2>14 DEF n
<1> QED
  BY <1>3, <1>4, <1>5

LEMMA GrownRows ==
  ASSUME NEW a, NEW b, SheetsGood(a), NEW frame \in Frame, SheetsGrow(a, b, frame)
  PROVE  /\ \A x : HasRow(a, x) => HasRow(b, x)
         /\ \A f \in DOMAIN b : \A i \in DOMAIN b[f] : b[f][i] = frame \/ HasRow(a, b[f][i])
<1>1. ASSUME NEW x, HasRow(a, x)
      PROVE  HasRow(b, x)
  <2>1. PICK f \in DOMAIN a : \E i \in DOMAIN a[f] : a[f][i] = x
    BY <1>1 DEF HasRow
  <2>2. PICK i \in DOMAIN a[f] : a[f][i] = x
    BY <2>1
  <2>3. a[f] \in Seq(Frame)
    BY SheetFacts DEF SheetsGood
  <2>4. i \in DOMAIN Append(a[f], frame) /\ Append(a[f], frame)[i] = x
    BY <2>2, <2>3, AppendedRows
  <2>5. f \in DOMAIN b /\ (b[f] = a[f] \/ b[f] = Append(a[f], frame))
    BY DEF SheetsGrow
  <2>6. \E j \in DOMAIN b[f] : b[f][j] = x
    BY <2>2, <2>4, <2>5
  <2> QED
    BY <2>5, <2>6 DEF HasRow
<1>2. ASSUME NEW f \in DOMAIN b, NEW i \in DOMAIN b[f]
      PROVE  b[f][i] = frame \/ HasRow(a, b[f][i])
  <2>1. CASE f \in DOMAIN a
    <3>1. a[f] \in Seq(Frame)
      BY <2>1, SheetFacts DEF SheetsGood
    <3>2. b[f] = a[f] \/ b[f] = Append(a[f], frame)
      BY <2>1 DEF SheetsGrow
    <3>3. \A j \in DOMAIN Append(a[f], frame) :
            Append(a[f], frame)[j] = frame \/ (j \in DOMAIN a[f] /\ Append(a[f], frame)[j] = a[f][j])
      BY <3>1, AppendedRows
    <3>4. b[f][i] = frame \/ (i \in DOMAIN a[f] /\ b[f][i] = a[f][i])
      BY <3>2, <3>3
    <3> QED
      BY <2>1, <3>4 DEF HasRow
  <2>2. CASE f \notin DOMAIN a
    <3>1. b[f] = <<>>
      BY <2>2 DEF SheetsGrow
    <3>2. DOMAIN b[f] = {}
      BY <3>1, EmptySeq
    <3> QED
      BY <3>2
  <2> QED
    BY <2>1, <2>2
<1> QED
  BY <1>1, <1>2

-----------------------------------------------------------------------------
(* The session.                                                             *)

SessionType ==
  [active : BOOLEAN, test : Id, sample : 0 .. MaxFrames, terminal : 0 .. MaxFrames]

\* The session knows no frame that is newer than the one in the radio.
SessionGood(ses, stamp) ==
  /\ ses \in SessionType
  /\ ses.sample <= stamp /\ ses.terminal <= stamp
  /\ ses.active => ses.test # None

LEMMA OpenedIsGood ==
  ASSUME NEW ses, NEW frame \in Frame, SessionGood(ses, frame.stamp)
  PROVE  LET open == Opened(ses, frame) IN
         /\ SessionGood(open, frame.stamp) /\ open.terminal = ses.terminal
         /\ StartNew(ses, frame) =>
              /\ open.active /\ open.test = frame.id /\ open.sample = None /\ frame.id # None
              /\ ~ses.active \/ ClosePrevious(ses, frame)
         /\ ~StartNew(ses, frame) /\ ClosePrevious(ses, frame) =>
              ~open.active /\ frame.stamp = ses.terminal
         /\ ~StartNew(ses, frame) /\ ~ClosePrevious(ses, frame) => open = ses
<1> DEFINE open == Opened(ses, frame)
           a == [ses EXCEPT !.active = TRUE, !.test = frame.id, !.sample = None]
           b == [ses EXCEPT !.active = FALSE, !.sample = None]
<1>1. /\ frame.id \in Id /\ frame.stamp \in 0 .. MaxFrames /\ ses \in SessionType
      /\ None \in 0 .. MaxFrames /\ None = 0
  BY RecordsAssumption DEF Frame, SessionGood, None
<1>2. CASE StartNew(ses, frame)
  <2>1. open = a
    BY <1>2 DEF Opened
  <2>2. frame.id # None /\ (~ses.active \/ ClosePrevious(ses, frame))
    BY <1>2 DEF StartNew, Identified
  <2>3. /\ a \in SessionType /\ a.active /\ a.test = frame.id /\ a.sample = None
        /\ a.terminal = ses.terminal
    BY <1>1 DEF SessionType
  <2> HIDE DEF open, a
  <2>4. SessionGood(open, frame.stamp)
    BY <1>1, <2>1, <2>2, <2>3 DEF SessionGood
  <2> QED
    BY <1>2, <2>1, <2>2, <2>3, <2>4 DEF open
<1>3. CASE ~StartNew(ses, frame) /\ ClosePrevious(ses, frame)
  <2>1. open = b
    BY <1>3 DEF Opened
  <2>2. frame.stamp = ses.terminal
    BY <1>3 DEF StartNew, ClosePrevious
  <2>3. /\ b \in SessionType /\ ~b.active /\ b.sample = None
        /\ b.terminal = ses.terminal
    BY <1>1 DEF SessionType
  <2> HIDE DEF open, b
  <2>4. SessionGood(open, frame.stamp)
    BY <1>1, <2>1, <2>3 DEF SessionGood
  <2> QED
    BY <1>3, <2>1, <2>2, <2>3, <2>4 DEF open
<1>4. CASE ~StartNew(ses, frame) /\ ~ClosePrevious(ses, frame)
  <2>1. open = ses
    BY <1>4 DEF Opened
  <2> QED
    BY <1>4, <2>1
<1> QED
  BY <1>2, <1>3, <1>4

-----------------------------------------------------------------------------
(* What the ground keeps.                                                   *)

\* A frame in the radio that the session has seen was kept, unless the session met
\* a fault, and a session without an open file has met one.
MirrorGood ==
  /\ faulty \in BOOLEAN
  /\ session.active /\ session.sample # None /\ session.sample = air.stamp =>
       air \in kept \/ faulty
  /\ session.terminal # None /\ session.terminal = air.stamp => air \in kept \/ faulty
  /\ session.active /\ ~csv.active => faulty
  /\ ReceivedIsKept

\* Frames of a test are of its progress or its end.
AirGood ==
  /\ air \in Frame
  /\ air.id # None => air.recording \/ IsTerminal(air)

GroundInv ==
  /\ AirGood /\ SessionGood(session, air.stamp)
  /\ csv \in CsvType /\ SheetsGood(sheets) /\ CsvFits(session, csv, sheets)
  /\ MirrorGood

LEMMA PollKeeps ==
  ASSUME GroundInv, NEW o, PollTelemetry(o)
  PROVE  /\ GroundInv'
         /\ SheetsGood(sheets)
         /\ \A f \in DOMAIN sheets : f \in DOMAIN sheets' /\ sheets'[f] \in {sheets[f], Append(sheets[f], air)}
         /\ \A f \in DOMAIN sheets' : \A i \in DOMAIN sheets'[f] :
              (sheets'[f][i] = air /\ air.id # None) \/ HasRow(sheets, sheets'[f][i])
<1> DEFINE open == Opened(session, air)
           own == open.active /\ open.test = air.id
           append == own /\ NewSample(open, air)
           close == own /\ IsTerminal(air)
           start == StartNew(session, air)
           shut == ClosePrevious(session, air)
           c1 == IF shut THEN [csv EXCEPT !.active = FALSE] ELSE csv
           s1 == IF start THEN CsvStarted(c1, air.id, o[1]) ELSE [csv |-> c1, sheets |-> sheets]
           s2 == IF append THEN CsvAppended(s1, air, o[2]) ELSE s1
           after == IF close THEN [open EXCEPT !.active = FALSE, !.sample = None, !.terminal = air.stamp]
                    ELSE IF append THEN [open EXCEPT !.sample = air.stamp] ELSE open
<1>1. /\ air \in Frame /\ SessionGood(session, air.stamp) /\ csv \in CsvType
      /\ SheetsGood(sheets) /\ CsvFits(session, csv, sheets) /\ MirrorGood
      /\ air.id # None => air.recording \/ IsTerminal(air)
      /\ air.id \in Id /\ air.stamp \in 0 .. MaxFrames
  BY DEF GroundInv, AirGood, Frame
<1>2. /\ air' = air /\ air.stamp # None /\ session' = after
      /\ csv' = IF close THEN [s2.csv EXCEPT !.active = FALSE] ELSE s2.csv
      /\ sheets' = s2.sheets
      /\ kept' = IF Identified(air) /\ (air.recording \/ IsTerminal(air)) /\ ~faulty'
                 THEN kept \cup {air} ELSE kept
      /\ faulty' = \/ IF start THEN NoFileOpens(air.id, o[1]) ELSE faulty
                   \/ append /\ s1.csv.active /\ NoRowFits(s1.sheets[s1.csv.file], o[2])
  BY DEF PollTelemetry, Observe
<1> HIDE DEF start, shut
<1>3. /\ SessionGood(open, air.stamp) /\ open.terminal = session.terminal
      /\ start => /\ open.active /\ open.test = air.id /\ open.sample = None /\ air.id # None
                  /\ ~session.active \/ shut
      /\ ~start /\ shut => ~open.active /\ air.stamp = session.terminal
      /\ ~start /\ ~shut => open = session
  BY <1>1, OpenedIsGood DEF start, shut
<1> HIDE DEF open
<1>4. /\ c1 \in CsvType /\ (c1.active => csv.active /\ ~shut /\ c1 = csv)
      /\ (~shut => c1 = csv)
  BY <1>1 DEF CsvType
<1> HIDE DEF c1
\* Once the session is open.
<1>5. /\ s1 = [csv |-> s1.csv, sheets |-> s1.sheets]
      /\ s1.csv \in CsvType /\ SheetsGood(s1.sheets) /\ CsvFits(open, s1.csv, s1.sheets)
      /\ SheetsGrow(sheets, s1.sheets, air)
      /\ \A f \in DOMAIN sheets : s1.sheets[f] = sheets[f]
      /\ ~start => s1.csv = c1 /\ s1.sheets = sheets
      /\ start /\ ~s1.csv.active => NoFileOpens(air.id, o[1])
  <2>1. CASE start
    <3>1. ~c1.active
      BY <1>1, <1>3, <1>4, <2>1 DEF CsvFits
    <3>2. s1 = CsvStarted(c1, air.id, o[1])
      BY <2>1
    <3>3. s1 = [csv |-> s1.csv, sheets |-> s1.sheets]
      BY <3>2 DEF CsvStarted
    <3> HIDE DEF s1
    <3>4. /\ s1.csv \in CsvType /\ SheetsGood(s1.sheets) /\ CsvFits(open, s1.csv, s1.sheets)
          /\ SheetsGrow(sheets, s1.sheets, air)
          /\ \A f \in DOMAIN sheets : s1.sheets[f] = sheets[f]
          /\ ~s1.csv.active => NoFileOpens(air.id, o[1])
      BY <1>1, <1>3, <1>4, <2>1, <3>1, <3>2, CsvStartedFits
    <3> QED
      BY <2>1, <3>3, <3>4
  <2>2. CASE ~start
    <3>1. s1 = [csv |-> c1, sheets |-> sheets]
      BY <2>2
    <3>2. s1.csv = c1 /\ s1.sheets = sheets
      BY <3>1
    <3> HIDE DEF s1
    <3>3. SheetsGrow(sheets, sheets, air)
      BY DEF SheetsGrow
    <3>4. CsvFits(open, c1, sheets)
      BY <1>1, <1>3, <1>4, <2>2 DEF CsvFits
    <3> QED
      BY <1>1, <1>4, <2>2, <3>1, <3>2, <3>3, <3>4
  <2> QED
    BY <2>1, <2>2
<1> HIDE DEF s1
<1>6. /\ own <=> open.active /\ open.test = air.id
      /\ append => own /\ open.sample # air.stamp
      /\ own /\ ~append => open.sample = air.stamp
      /\ close <=> own /\ IsTerminal(air)
      /\ own => air.id # None
      /\ open \in SessionType /\ open.sample <= air.stamp
  BY <1>3 DEF NewSample, SessionGood
<1> HIDE DEF own, append, close
\* Once the row is written.
<1>7. /\ s2.csv \in CsvType /\ SheetsGood(s2.sheets)
      /\ SheetsGrow(s1.sheets, s2.sheets, air)
      /\ ~append => s2.csv = s1.csv /\ s2.sheets = s1.sheets
      /\ append /\ s2.csv.active =>
           /\ s1.csv.active /\ HasRow(s2.sheets, air)
           /\ s2.csv.file \in DOMAIN s2.sheets /\ s2.csv.file[2] = air.id
           /\ \A i \in DOMAIN s2.sheets[s2.csv.file] :
                s2.sheets[s2.csv.file][i].stamp <= air.stamp
      /\ append /\ s1.csv.active /\ ~s2.csv.active =>
           NoRowFits(s1.sheets[s1.csv.file], o[2])
  <2>1. CASE append
    <3>1. s2 = CsvAppended(s1, air, o[2])
      BY <2>1
    <3>2. open.test = air.id /\ open.sample \in Int /\ open.sample < air.stamp
      BY <1>1, <1>6, <2>1 DEF SessionType
    <3> HIDE DEF s2
    <3>3. LET n == s2 IN
          /\ n.csv \in CsvType /\ SheetsGood(n.sheets) /\ SheetsGrow(s1.sheets, n.sheets, air)
          /\ n.csv.active =>
              /\ s1.csv.active /\ HasRow(n.sheets, air)
              /\ n.csv.file \in DOMAIN n.sheets /\ n.csv.file[2] = air.id
              /\ \A i \in DOMAIN n.sheets[n.csv.file] : n.sheets[n.csv.file][i].stamp <= air.stamp
          /\ s1.csv.active /\ ~n.csv.active => NoRowFits(s1.sheets[s1.csv.file], o[2])
      BY <1>1, <1>5, <3>1, <3>2, CsvAppendedFits
    <3> QED
      BY <2>1, <3>3
  <2>2. CASE ~append
    <3>1. s2 = s1
      BY <2>2
    <3> HIDE DEF s2
    <3>2. SheetsGrow(s1.sheets, s1.sheets, air)
      BY DEF SheetsGrow
    <3> QED
      BY <1>5, <2>2, <3>1, <3>2
  <2> QED
    BY <2>1, <2>2
<1> HIDE DEF s2
\* The session afterwards.
<1>8. /\ SessionGood(after, air.stamp)
      /\ close => ~after.active /\ after.terminal = air.stamp
      /\ ~close => after.active = open.active /\ after.test = open.test
                   /\ after.terminal = open.terminal
      /\ ~close /\ append => after.sample = air.stamp
      /\ ~close /\ ~append => after = open
  <2>1. None \in 0 .. MaxFrames /\ None <= air.stamp /\ air.stamp <= air.stamp
    BY <1>1, RecordsAssumption DEF None
  <2>2. SessionGood(open, air.stamp)
    BY <1>3
  <2>3. CASE close
    <3>1. after = [open EXCEPT !.active = FALSE, !.sample = None, !.terminal = air.stamp]
      BY <2>3
    <3>2. after \in SessionType /\ ~after.active /\ after.sample = None
          /\ after.terminal = air.stamp
      BY <1>1, <1>6, <2>1, <3>1 DEF SessionType
    <3> HIDE DEF after
    <3> QED
      BY <2>1, <2>3, <3>2 DEF SessionGood
  <2>4. CASE ~close /\ append
    <3>1. after = [open EXCEPT !.sample = air.stamp]
      BY <2>4
    <3>2. after \in SessionType /\ after.active = open.active /\ after.sample = air.stamp
          /\ after.terminal = open.terminal /\ after.test = open.test
      BY <1>1, <1>6, <2>1, <3>1 DEF SessionType
    <3> HIDE DEF after
    <3> QED
      BY <2>1, <2>2, <2>4, <3>2 DEF SessionGood
  <2>5. CASE ~close /\ ~append
    <3>1. after = open
      BY <2>5
    <3> QED
      BY <2>2, <2>5, <3>1
  <2> QED
    BY <2>3, <2>4, <2>5
<1> HIDE DEF after
<1>9. /\ csv' \in CsvType /\ (close => ~csv'.active) /\ (~close => csv' = s2.csv)
  BY <1>2, <1>7 DEF CsvType
<1>10. CsvFits(session, csv, sheets)'
  <2>1. CASE close
    BY <1>9, <2>1 DEF CsvFits
  <2>2. CASE ~close /\ append
    BY <1>2, <1>6, <1>7, <1>8, <1>9, <2>2 DEF CsvFits
  <2>3. CASE ~close /\ ~append
    BY <1>2, <1>5, <1>7, <1>8, <1>9, <2>3 DEF CsvFits
  <2> QED
    BY <2>1, <2>2, <2>3
<1>11. /\ kept \subseteq kept' /\ kept' \subseteq kept \cup {air}
       /\ (air.id # None /\ ~faulty' => air \in kept')
       /\ air \in kept \/ air \notin kept' \/
            (Identified(air) /\ (air.recording \/ IsTerminal(air)) /\ ~faulty')
  BY <1>1, <1>2 DEF Identified
\* A session meets a fault, and has met it until the next one starts.
<1>24. /\ faulty' \in BOOLEAN
       /\ ~start /\ faulty => faulty'
       /\ start /\ ~s1.csv.active => faulty'
       /\ append /\ s1.csv.active /\ ~s2.csv.active => faulty'
  <2>1. faulty \in BOOLEAN
    BY <1>1 DEF MirrorGood
  <2>2. NoFileOpens(air.id, o[1]) \in BOOLEAN
        /\ NoRowFits(s1.sheets[s1.csv.file], o[2]) \in BOOLEAN
    BY DEF NoFileOpens, NoRowFits
  <2>3. start /\ ~s1.csv.active => NoFileOpens(air.id, o[1])
    BY <1>5
  <2>4. append /\ s1.csv.active /\ ~s2.csv.active => NoRowFits(s1.sheets[s1.csv.file], o[2])
    BY <1>7
  <2> QED
    BY <1>2, <2>1, <2>2, <2>3, <2>4
\* Which rows there are.
<1>12. /\ \A x : HasRow(sheets, x) => HasRow(sheets', x)
       /\ \A f \in DOMAIN sheets' : \A i \in DOMAIN sheets'[f] :
            sheets'[f][i] = air \/ HasRow(sheets, sheets'[f][i])
  <2>1. /\ \A x : HasRow(sheets, x) => HasRow(s1.sheets, x)
        /\ \A f \in DOMAIN s1.sheets : \A i \in DOMAIN s1.sheets[f] :
             s1.sheets[f][i] = air \/ HasRow(sheets, s1.sheets[f][i])
    BY <1>1, <1>5, GrownRows
  <2>2. /\ \A x : HasRow(s1.sheets, x) => HasRow(s2.sheets, x)
        /\ \A f \in DOMAIN s2.sheets : \A i \in DOMAIN s2.sheets[f] :
             s2.sheets[f][i] = air \/ HasRow(s1.sheets, s2.sheets[f][i])
    BY <1>1, <1>5, <1>7, GrownRows
  <2>3. \A x : HasRow(s1.sheets, x) => x = air \/ HasRow(sheets, x)
    BY <2>1 DEF HasRow
  <2> QED
    BY <1>2, <2>1, <2>2, <2>3
<1>13. \A f \in DOMAIN sheets :
          f \in DOMAIN sheets' /\ sheets'[f] \in {sheets[f], Append(sheets[f], air)}
  <2>1. \A f \in DOMAIN sheets : f \in DOMAIN s1.sheets /\ s1.sheets[f] = sheets[f]
    BY <1>5 DEF SheetsGrow
  <2>2. \A f \in DOMAIN s1.sheets :
          f \in DOMAIN s2.sheets /\ s2.sheets[f] \in {s1.sheets[f], Append(s1.sheets[f], air)}
    BY <1>7 DEF SheetsGrow
  <2> QED
    BY <1>2, <2>1, <2>2
\* Without an id in the frame no file changes.
<1>14. ASSUME air.id = None
       PROVE  sheets' = sheets
  <2>1. ~start /\ ~own
    BY <1>3, <1>6, <1>14
  <2> QED
    BY <1>2, <1>5, <1>6, <1>7, <2>1
<1>15. \A f \in DOMAIN sheets' : \A i \in DOMAIN sheets'[f] :
         (sheets'[f][i] = air /\ air.id # None) \/ HasRow(sheets, sheets'[f][i])
  <2>1. CASE air.id = None
    BY <1>14, <2>1 DEF HasRow
  <2>2. CASE air.id # None
    BY <1>12, <2>2
  <2> QED
    BY <2>1, <2>2
\* What the session has seen was kept.
<1>16. session'.active /\ session'.sample # None /\ session'.sample = air'.stamp =>
         air' \in kept' \/ faulty'
  <2> SUFFICES ASSUME session'.active, session'.sample # None, session'.sample = air'.stamp
               PROVE  air' \in kept' \/ faulty'
    OBVIOUS
  <2>1. ~close /\ open.active
    BY <1>2, <1>8
  <2>2. CASE append
    BY <1>2, <1>6, <1>11, <2>2
  <2>3. CASE ~append
    <3>1. after = open
      BY <1>8, <2>1, <2>3
    <3>2. ~start /\ ~shut
      BY <1>2, <1>3, <2>1, <3>1
    <3> QED
      BY <1>1, <1>2, <1>3, <1>11, <1>24, <3>1, <3>2 DEF MirrorGood
  <2> QED
    BY <2>2, <2>3
<1>17. session'.terminal # None /\ session'.terminal = air'.stamp => air' \in kept' \/ faulty'
  <2>1. CASE close
    BY <1>2, <1>6, <1>11, <2>1
  <2>2. CASE ~close /\ start
    BY <1>2, <1>3, <1>11, <2>2
  <2>3. CASE ~close /\ ~start
    BY <1>1, <1>2, <1>3, <1>8, <1>11, <1>24, <2>3 DEF MirrorGood
  <2> QED
    BY <2>1, <2>2, <2>3
<1>18. session'.active /\ ~csv'.active => faulty'
  <2> SUFFICES ASSUME session'.active, ~csv'.active
               PROVE  faulty'
    OBVIOUS
  <2>1. ~close /\ open.active /\ session'.test = open.test /\ ~s2.csv.active
    BY <1>2, <1>8, <1>9
  <2>2. CASE s1.csv.active
    <3>1. append
      BY <1>7, <2>1, <2>2
    <3> QED
      BY <1>24, <2>1, <2>2, <3>1
  <2>3. CASE ~s1.csv.active /\ start
    BY <1>24, <2>3
  <2>4. CASE ~s1.csv.active /\ ~start
    <3>1. ~shut /\ open = session
      BY <1>3, <2>1, <2>4
    <3>2. s1.csv = csv
      BY <1>4, <1>5, <2>4, <3>1
    <3> QED
      BY <1>1, <1>24, <2>1, <2>4, <3>1, <3>2 DEF MirrorGood
  <2> QED
    BY <2>2, <2>3, <2>4
<1>19. ASSUME air \in kept', air \notin kept
       PROVE  HasRow(sheets', air)
  <2>1. Identified(air) /\ (air.recording \/ IsTerminal(air)) /\ air.id # None /\ ~faulty'
    BY <1>11, <1>19 DEF Identified
  <2>2. ~start => /\ ~(session.active /\ session.sample # None /\ session.sample = air.stamp)
                  /\ session.terminal # air.stamp
    BY <1>1, <1>2, <1>19, <1>24, <2>1 DEF MirrorGood
  <2>3. CASE append /\ s2.csv.active
    BY <1>2, <1>7, <2>3
  <2>4. CASE append /\ ~s2.csv.active
    <3>1. CASE s1.csv.active \/ start
      BY <1>24, <2>1, <2>4, <3>1
    <3>2. CASE ~s1.csv.active /\ ~start
      <4>1. open.active /\ open.test = air.id
        BY <1>6, <2>4
      <4>2. ~shut /\ open = session
        BY <1>3, <3>2, <4>1
      <4>3. s1.csv = csv
        BY <1>4, <1>5, <3>2, <4>2
      <4> QED
        BY <1>1, <1>24, <2>1, <3>2, <4>1, <4>2, <4>3 DEF MirrorGood
    <3> QED
      BY <3>1, <3>2
  <2>5. CASE own /\ ~append
    <3>1. open.active /\ open.sample = air.stamp
      BY <1>6, <2>5
    <3>2. ~start /\ ~shut
      BY <1>2, <1>3, <3>1
    <3> QED
      BY <1>2, <1>3, <2>2, <3>1, <3>2
  <2>6. CASE ~own
    <3>1. ~start
      BY <1>3, <1>6, <2>6
    <3>2. ~shut
      BY <1>3, <2>2, <3>1
    <3>3. open = session
      BY <1>3, <3>1, <3>2
    <3>4. ~session.active
      BY <1>6, <2>1, <2>6, <3>2, <3>3 DEF shut, ClosePrevious
    <3> QED
      BY <2>1, <2>2, <3>1, <3>4 DEF start, StartNew
  <2> QED
    BY <1>6, <2>3, <2>4, <2>5, <2>6
<1>20. ReceivedIsKept'
  <2>1. ASSUME NEW frame \in kept'
        PROVE  HasRow(sheets', frame)
    <3>1. CASE frame \in kept
      <4>1. HasRow(sheets, frame)
        BY <1>1, <3>1 DEF MirrorGood, ReceivedIsKept, HasRow
      <4> QED
        BY <1>12, <4>1
    <3>2. CASE frame \notin kept
      <4>1. frame = air
        BY <1>11, <3>2
      <4> QED
        BY <1>19, <3>2, <4>1
    <3> QED
      BY <3>1, <3>2
  <2> QED
    BY <2>1 DEF ReceivedIsKept, HasRow
<1>21. MirrorGood'
  BY <1>16, <1>17, <1>18, <1>20, <1>24 DEF MirrorGood
<1>22. AirGood' /\ SessionGood(session, air.stamp)'
  BY <1>1, <1>2, <1>8 DEF AirGood, IsTerminal
<1>23. SheetsGood(sheets)'
  BY <1>2, <1>7
<1> QED
  BY <1>1, <1>9, <1>10, <1>13, <1>15, <1>21, <1>22, <1>23 DEF GroundInv

-----------------------------------------------------------------------------
(* The payload's tests.                                                     *)

Logged(run, files) == \E s \in DOMAIN files : files[s].run = run

\* Ids are counted from each boot, runs from the first: there are never more ids.
TestGood ==
  /\ test \in [id : Nat, state : {"IDLE", "RECORDING", "ENDED"}, next : Nat, run : Run]
  /\ test.id < test.next /\ test.next <= test.run + 1
  /\ test.id # None => test.state # "IDLE"

PayloadInv ==
  /\ Good(flash) /\ TestGood
  /\ test.id # None => Logged(test.run, flash.files)
  /\ test.state = "RECORDING" =>
       test.id # None /\ (flash.active => flash.files[flash.slot].run = test.run)

\* No frame is newer than the count of frames.
BoundsGood ==
  /\ bounds \in [troubles : Nat, frames : 0 .. MaxFrames]
  /\ air.stamp <= bounds.frames

\* A test with a log, or from before the last format of the flash.
Accounted(run) == run <= test.run /\ (Logged(run, flash.files) \/ run <= formats.run)

\* The tests the ground knows of are accounted for.
RowsLogged ==
  /\ air.id # None => Accounted(air.run)
  /\ \A f \in DOMAIN sheets : \A i \in DOMAIN sheets[f] : Accounted(sheets[f][i].run)

FormatsGood == formats \in [flash : Nat, sheets : Nat, run : Run]

RecordsInv == GroundInv /\ PayloadInv /\ BoundsGood /\ RowsLogged /\ FormatsGood

\* What a step may do to the records.
EvidenceStep ==
  /\ formats'.flash = formats.flash =>
       \A s \in DOMAIN flash.files :
         /\ s \in DOMAIN flash'.files
         /\ flash'.files[s] # flash.files[s] =>
              flash.active /\ s = flash.slot /\ ~flash.files[s].sealed
  /\ formats'.sheets = formats.sheets =>
       \A f \in DOMAIN sheets :
         f \in DOMAIN sheets' /\ sheets'[f] \in {sheets[f], Append(sheets[f], air)}

LEMMA LoggedStays ==
  ASSUME NEW a, NEW b, Keeps(a, b)
  PROVE  \A run : Logged(run, a.files) => Logged(run, b.files)
BY DEF Keeps, Logged

LEMMA CountedIsGood ==
  ASSUME BoundsGood, NEW n \in Nat, NEW o \in Outcomes(n)
  PROVE  /\ Counted(o) \in [troubles : Nat, frames : 0 .. MaxFrames]
         /\ Counted(o).frames = bounds.frames
<1> DEFINE failed == {i \in DOMAIN o : o[i] # "ok"}
<1>1. o \in [1 .. n -> Outcome]
  BY DEF Outcomes
<1>2. failed \subseteq 1 .. n
  BY <1>1
<1>3. IsFiniteSet(1 .. n)
  BY FS_Interval
<1>4. IsFiniteSet(failed)
  BY <1>2, <1>3, FS_Subset
<1>5. Cardinality(failed) \in Nat
  BY <1>4, FS_CardinalityType
<1>6. Failures(o) \in Nat
  BY <1>5 DEF Failures
<1> QED
  BY <1>6 DEF Counted, BoundsGood

\* The runs of the frame in the radio and of the rows.
LEMMA RunsKnown ==
  ASSUME GroundInv
  PROVE  /\ air.run \in Run
         /\ \A f \in DOMAIN sheets : \A i \in DOMAIN sheets[f] : sheets[f][i].run \in Run
<1>1. air \in Frame /\ sheets \in SheetDir
  BY DEF GroundInv, AirGood, SheetsGood
<1>2. ASSUME NEW f \in DOMAIN sheets, NEW i \in DOMAIN sheets[f]
      PROVE  sheets[f][i] \in Frame
  <2>1. sheets[f] \in Seq(Frame)
    BY <1>1, SheetFacts
  <2> QED
    BY <2>1, LenProperties, ElementOfSeq
<1> QED
  BY <1>1, <1>2 DEF Frame

\* A step of the payload that leaves the radio and the ground alone.
LEMMA PayloadStepKeeps ==
  ASSUME RecordsInv, UNCHANGED <<air, groundVars, formats>>, Keeps(flash, flash'), PayloadInv',
         test'.run \in Nat, test.run <= test'.run,
         bounds' \in [troubles : Nat, frames : 0 .. MaxFrames], bounds'.frames = bounds.frames
  PROVE  RecordsInv' /\ EvidenceStep
<1>1. /\ air' = air /\ session' = session /\ csv' = csv /\ sheets' = sheets
      /\ kept' = kept /\ faulty' = faulty /\ formats' = formats
  BY DEF groundVars
<1>2. GroundInv'
  BY <1>1 DEF RecordsInv, GroundInv, AirGood, MirrorGood, ReceivedIsKept, IsTerminal
<1>3. BoundsGood'
  BY <1>1 DEF RecordsInv, BoundsGood
<1>4. \A run : Logged(run, flash.files) => Logged(run, flash'.files)
  BY LoggedStays
<1>5. \A run \in Run : Accounted(run) => Accounted(run)'
  <2>1. test.run \in Nat
    BY RecordsAssumption DEF RecordsInv, PayloadInv, TestGood, Run
  <2>2. \A run \in Run : run \in Nat
    BY DEF Run
  <2>3. \A run \in Run : run <= test.run => run <= test'.run
    BY <2>1, <2>2
  <2> QED
    BY <1>1, <1>4, <2>3 DEF Accounted
<1>6. RowsLogged'
  BY <1>1, <1>5, RunsKnown DEF RecordsInv, RowsLogged
<1>7. EvidenceStep
  BY <1>1 DEF EvidenceStep, Keeps
<1>8. FormatsGood'
  BY <1>1 DEF RecordsInv, FormatsGood
<1> QED
  BY <1>2, <1>3, <1>6, <1>7, <1>8 DEF RecordsInv

LEMMA BootedIsGood ==
  ASSUME NEW l, Good(l), NEW mounted \in BOOLEAN, NEW formatted \in BOOLEAN, NEW o
  PROVE  LET n == Booted(l.files, mounted, formatted, o) IN
         Good(n) /\ (~formatted => Keeps(l, n))
<1> DEFINE began == Began(l.files, mounted, formatted)
           opened == StartFlightLog(began, 0, o[1])
           n == LogEntry(opened, o[2])
<1>1. l.files \in Files
  BY DEF Good, Logger
<1>2. Good(began) /\ (~formatted => began.files = l.files) /\ ~began.active
  BY <1>1, BeganIsGood
<1> HIDE DEF began
<1>3. ~formatted => Keeps(l, began)
  BY <1>2 DEF Keeps
<1>4. 0 \in Run
  BY RecordsAssumption DEF Run
<1>5. Good(opened) /\ Keeps(began, opened)
  BY <1>2, <1>4, StartIsGood
<1> HIDE DEF opened
<1>6. Good(n) /\ Keeps(opened, n)
  BY <1>5, EntryIsGood
<1>7. n = Booted(l.files, mounted, formatted, o)
  BY DEF Booted, n, opened, began
<1> HIDE DEF n
<1>8. ~formatted => Keeps(l, n)
  BY <1>3, <1>5, <1>6, KeepsIsTransitive
<1> QED
  BY <1>6, <1>7, <1>8

\* A last entry, then endFlightLog.
LEMMA ClosingIsGood ==
  ASSUME NEW l, Good(l), NEW a, NEW b
  PROVE  LET n == EndFlightLog(LogEntry(l, a), b) IN
         Good(n) /\ Keeps(l, n) /\ ~n.active
<1> DEFINE e == LogEntry(l, a)
           n == EndFlightLog(e, b)
<1>1. Good(e) /\ Keeps(l, e)
  BY EntryIsGood
<1> HIDE DEF e
<1>2. Good(n) /\ Keeps(e, n) /\ ~n.active
  BY <1>1, EndIsGood
<1> HIDE DEF n
<1>3. Keeps(l, n)
  BY <1>1, <1>2, KeepsIsTransitive
<1> QED
  BY <1>2, <1>3 DEF n, e

-----------------------------------------------------------------------------
(* Each step keeps the invariant.                                           *)

LEMMA RestartStep ==
  ASSUME RecordsInv, NEW mounted \in BOOLEAN, NEW formatted \in BOOLEAN,
         NEW o \in Outcomes(2), PayloadRestart(mounted, formatted, o)
  PROVE  RecordsInv' /\ EvidenceStep
<1>1. /\ Good(flash) /\ TestGood /\ BoundsGood
      /\ flash' = Booted(flash.files, mounted, formatted, o)
      /\ formats' = IF formatted THEN [formats EXCEPT !.flash = @ + 1, !.run = test.run]
                    ELSE formats
      /\ test' = [NoTest EXCEPT !.run = test.run]
      /\ bounds' = [Counted(o) EXCEPT !.troubles = @ + Restarted(mounted)]
      /\ UNCHANGED <<air, groundVars>>
  BY DEF RecordsInv, PayloadInv, PayloadRestart
<1>2. Good(flash') /\ (~formatted => Keeps(flash, flash'))
  BY <1>1, BootedIsGood
<1>3. test' = [id |-> 0, state |-> "IDLE", next |-> 1, run |-> test.run]
  BY <1>1 DEF NoTest
<1>4. test.run \in Run /\ test.run \in Nat
  BY <1>1, RecordsAssumption DEF TestGood, Run
<1>5. TestGood' /\ test'.id = None /\ test'.state # "RECORDING" /\ test'.run = test.run
  BY <1>3, <1>4 DEF TestGood, None
<1>6. PayloadInv'
  BY <1>2, <1>5 DEF PayloadInv
<1>7. /\ bounds' \in [troubles : Nat, frames : 0 .. MaxFrames]
      /\ bounds'.frames = bounds.frames
  BY <1>1, CountedIsGood DEF Restarted
<1>8. CASE ~formatted
  <2>1. UNCHANGED <<air, groundVars, formats>> /\ Keeps(flash, flash')
    BY <1>1, <1>2, <1>8
  <2>2. test'.run \in Nat /\ test.run <= test'.run
    BY <1>4, <1>5
  <2> QED
    BY <1>6, <1>7, <2>1, <2>2, PayloadStepKeeps
<1>9. CASE formatted
  <2>1. /\ air' = air /\ session' = session /\ csv' = csv /\ sheets' = sheets
        /\ kept' = kept /\ faulty' = faulty
    BY <1>1 DEF groundVars
  <2>2. GroundInv'
    BY <2>1 DEF RecordsInv, GroundInv, AirGood, MirrorGood, ReceivedIsKept, IsTerminal
  <2>3. BoundsGood'
    BY <1>1, <1>7, <2>1 DEF BoundsGood
  <2> DEFINE after == [formats EXCEPT !.flash = @ + 1, !.run = test.run]
  <2>4. /\ after \in [flash : Nat, sheets : Nat, run : Run] /\ after.run = test.run
        /\ after.flash # formats.flash /\ after.sheets = formats.sheets
    <3>1. formats \in [flash : Nat, sheets : Nat, run : Run]
      BY DEF RecordsInv, FormatsGood
    <3> DEFINE more == formats.flash + 1
    <3>2. more \in Nat /\ more # formats.flash
      BY <3>1
    <3>3. after = [formats EXCEPT !.flash = more, !.run = test.run]
      OBVIOUS
    <3> HIDE DEF more, after
    <3> QED
      BY <1>4, <3>1, <3>2, <3>3
  <2>9. formats' = after
    BY <1>1, <1>9
  <2> HIDE DEF after
  <2>5. /\ FormatsGood' /\ formats'.run = test.run
        /\ formats'.flash # formats.flash /\ formats'.sheets = formats.sheets
    BY <2>4, <2>9 DEF FormatsGood
  <2>6. \A run : Accounted(run) => Accounted(run)'
    BY <1>5, <2>5 DEF Accounted
  <2>7. RowsLogged'
    BY <2>1, <2>6 DEF RecordsInv, RowsLogged
  <2>8. EvidenceStep
    BY <2>1, <2>5 DEF EvidenceStep
  <2> QED
    BY <1>6, <2>2, <2>3, <2>5, <2>7, <2>8 DEF RecordsInv
<1> QED
  BY <1>8, <1>9

LEMMA ArmStep ==
  ASSUME RecordsInv, NEW o \in Outcomes(4), ArmDropTest(o)
  PROVE  RecordsInv' /\ EvidenceStep
<1> DEFINE ended == EndFlightLog(LogEntry(flash, o[1]), o[2])
           opened == StartFlightLog(ended, test.run + 1, o[3])
           final == LogEntry(opened, o[4])
<1>1. /\ Good(flash) /\ TestGood /\ BoundsGood /\ PayloadInv
      /\ test.state # "RECORDING" /\ test.run < MaxRuns
      /\ IF opened.active
         THEN /\ test' = [id |-> test.next, state |-> "RECORDING", next |-> test.next + 1,
                          run |-> test.run + 1]
              /\ flash' = final
         ELSE flash' = opened /\ test' = test
      /\ bounds' = Counted(o) /\ UNCHANGED <<air, groundVars, formats>>
  BY DEF RecordsInv, PayloadInv, ArmDropTest, LogOpened
<1>2. Good(ended) /\ Keeps(flash, ended) /\ ~ended.active
  BY <1>1, ClosingIsGood
<1> HIDE DEF ended
<1>3. test.run \in Nat /\ test.run + 1 \in Run
  BY <1>1, RecordsAssumption DEF TestGood, Run
<1>4. /\ Good(opened) /\ Keeps(ended, opened)
      /\ opened.active => opened.files[opened.slot].run = test.run + 1
  BY <1>2, <1>3, StartIsGood
<1> HIDE DEF opened
<1>5. /\ Good(final) /\ Keeps(opened, final)
      /\ final.active => opened.active /\ final.slot = opened.slot
  BY <1>4, EntryIsGood
<1> HIDE DEF final
<1>6. Keeps(flash, opened)
  BY <1>2, <1>4, KeepsIsTransitive
<1>7. Keeps(flash, final)
  BY <1>5, <1>6, KeepsIsTransitive
<1>8. CASE opened.active
  <2>1. opened.slot \in DOMAIN opened.files
    BY <1>4, <1>8 DEF Good
  <2>2. /\ opened.slot \in DOMAIN final.files
        /\ final.files[opened.slot].run = test.run + 1
    BY <1>4, <1>5, <1>8, <2>1 DEF Keeps
  <2>3. /\ test' = [id |-> test.next, state |-> "RECORDING", next |-> test.next + 1,
                    run |-> test.run + 1]
        /\ flash' = final
    BY <1>1, <1>8
  <2>4. /\ test.next \in Nat /\ test.next # 0 /\ test.next <= test.run + 1
    BY <1>1 DEF TestGood
  <2>5. TestGood' /\ test'.id # None /\ test'.run = test.run + 1
    BY <1>3, <2>3, <2>4 DEF TestGood, None
  <2>6. PayloadInv'
    BY <1>5, <2>2, <2>3, <2>5 DEF PayloadInv, Logged
  <2>7. Keeps(flash, flash')
    BY <1>7, <2>3
  <2>8. /\ bounds' \in [troubles : Nat, frames : 0 .. MaxFrames]
        /\ bounds'.frames = bounds.frames
    BY <1>1, CountedIsGood
  <2>9. test'.run \in Nat /\ test.run <= test'.run
    BY <1>3, <2>5
  <2> QED
    BY <1>1, <2>6, <2>7, <2>8, <2>9, PayloadStepKeeps
<1>9. CASE ~opened.active
  <2>1. flash' = opened /\ test' = test
    BY <1>1, <1>9
  <2>2. \A run : Logged(run, flash.files) => Logged(run, opened.files)
    BY <1>6, LoggedStays
  <2>3. TestGood'
    BY <1>1, <2>1 DEF TestGood
  <2>4. PayloadInv'
    BY <1>1, <1>4, <2>1, <2>2, <2>3 DEF PayloadInv
  <2>5. Keeps(flash, flash')
    BY <1>6, <2>1
  <2>6. /\ bounds' \in [troubles : Nat, frames : 0 .. MaxFrames]
        /\ bounds'.frames = bounds.frames
    BY <1>1, CountedIsGood
  <2>7. test'.run \in Nat /\ test.run <= test'.run
    BY <1>3, <2>1
  <2> QED
    BY <1>1, <2>4, <2>5, <2>6, <2>7, PayloadStepKeeps
<1> QED
  BY <1>8, <1>9

\* endFlightLog after a last entry: the end of a test and the landing.
LEMMA ClosingStep ==
  ASSUME RecordsInv, NEW o \in Outcomes(2),
         flash' = EndFlightLog(LogEntry(flash, o[1]), o[2]), bounds' = Counted(o),
         test' = test \/ (test.state = "RECORDING" /\ test' = [test EXCEPT !.state = "ENDED"]),
         UNCHANGED <<air, groundVars, formats>>
  PROVE  RecordsInv' /\ EvidenceStep
<1>1. Good(flash) /\ TestGood /\ BoundsGood /\ PayloadInv
  BY DEF RecordsInv, PayloadInv
<1>2. Good(flash') /\ Keeps(flash, flash') /\ ~flash'.active
  BY <1>1, ClosingIsGood
<1>3. \A run : Logged(run, flash.files) => Logged(run, flash'.files)
  BY <1>2, LoggedStays
<1>4. /\ TestGood' /\ test'.id = test.id /\ test'.run = test.run
      /\ test'.state = "RECORDING" => test.state = "RECORDING"
  BY <1>1 DEF TestGood
<1>5. PayloadInv'
  BY <1>1, <1>2, <1>3, <1>4 DEF PayloadInv
<1>6. /\ bounds' \in [troubles : Nat, frames : 0 .. MaxFrames]
      /\ bounds'.frames = bounds.frames
  BY <1>1, CountedIsGood
<1>7. test'.run \in Nat /\ test.run <= test'.run
  BY <1>1, <1>4, RecordsAssumption DEF TestGood, Run
<1> QED
  BY <1>2, <1>5, <1>6, <1>7, PayloadStepKeeps

LEMMA EntryStep ==
  ASSUME RecordsInv, NEW o \in Outcomes(1), LogFlightData(o)
  PROVE  RecordsInv' /\ EvidenceStep
<1>1. /\ Good(flash) /\ TestGood /\ BoundsGood /\ PayloadInv
      /\ flash' = LogEntry(flash, o[1]) /\ test' = test /\ bounds' = Counted(o)
      /\ UNCHANGED <<air, groundVars, formats>>
  BY DEF RecordsInv, PayloadInv, LogFlightData
<1>2. /\ Good(flash') /\ Keeps(flash, flash')
      /\ flash'.active => flash.active /\ flash'.slot = flash.slot
  BY <1>1, EntryIsGood
<1>3. \A run : Logged(run, flash.files) => Logged(run, flash'.files)
  BY <1>2, LoggedStays
<1>4. flash'.active => flash'.files[flash'.slot].run = flash.files[flash.slot].run
  BY <1>1, <1>2 DEF Good, Keeps
<1>5. PayloadInv'
  BY <1>1, <1>2, <1>3, <1>4 DEF PayloadInv, TestGood
<1>6. /\ bounds' \in [troubles : Nat, frames : 0 .. MaxFrames]
      /\ bounds'.frames = bounds.frames
  BY <1>1, CountedIsGood
<1>7. test'.run \in Nat /\ test.run <= test'.run
  BY <1>1, RecordsAssumption DEF TestGood, Run
<1> QED
  BY <1>1, <1>2, <1>5, <1>6, <1>7, PayloadStepKeeps

\* A step that leaves both the logs and the files alone.
LEMMA NoEvidenceTouched ==
  ASSUME flash' = flash, sheets' = sheets
  PROVE  EvidenceStep
BY DEF EvidenceStep

LEMMA SendStep ==
  ASSUME RecordsInv, SendTelemetry
  PROVE  RecordsInv' /\ EvidenceStep
<1>1. /\ GroundInv /\ PayloadInv /\ BoundsGood /\ RowsLogged
      /\ bounds.frames < MaxFrames
      /\ bounds' = [bounds EXCEPT !.frames = @ + 1]
      /\ air' = [stamp |-> bounds.frames + 1, id |-> test.id, run |-> test.run,
                 state |-> test.state, recording |-> test.state = "RECORDING"]
  BY DEF RecordsInv, SendTelemetry
<1>2. /\ flash' = flash /\ test' = test /\ session' = session /\ csv' = csv
      /\ sheets' = sheets /\ kept' = kept /\ faulty' = faulty /\ formats' = formats
  BY DEF SendTelemetry, payloadVars, groundVars
<1>3. /\ bounds \in [troubles : Nat, frames : 0 .. MaxFrames] /\ air.stamp <= bounds.frames
      /\ bounds.frames \in Nat /\ MaxFrames \in Nat /\ MaxRuns \in Nat
  BY <1>1, RecordsAssumption DEF BoundsGood
<1>4. /\ test.id \in Nat /\ test.run \in 0 .. MaxRuns /\ test.id <= test.run
      /\ test.state \in {"IDLE", "RECORDING", "ENDED"} /\ (test.id # None => test.state # "IDLE")
  BY <1>1 DEF PayloadInv, TestGood, Run
<1>5. test.id \in Id /\ test.run \in Run /\ bounds.frames + 1 \in 0 .. MaxFrames
  BY <1>1, <1>3, <1>4 DEF Id, Run
<1>6. (test.state = "RECORDING") \in BOOLEAN
  OBVIOUS
<1>7. /\ air' \in Frame /\ air'.stamp = bounds.frames + 1 /\ air'.id = test.id
      /\ air'.run = test.run /\ air'.state = test.state
      /\ air'.recording = (test.state = "RECORDING")
  BY <1>1, <1>4, <1>5, <1>6 DEF Frame
<1>8. air.stamp \in Int /\ air.stamp < air'.stamp
  <2>1. air \in Frame
    BY <1>1 DEF GroundInv, AirGood
  <2>2. air.stamp \in 0 .. MaxFrames
    BY <2>1 DEF Frame
  <2> QED
    BY <1>3, <1>7, <2>2
<1>9. AirGood'
  BY <1>4, <1>7 DEF AirGood, IsTerminal
<1>10. /\ session \in SessionType /\ session.sample < air'.stamp /\ session.terminal < air'.stamp
       /\ session.sample <= air'.stamp /\ session.terminal <= air'.stamp
  <2>1. /\ session \in SessionType /\ session.sample <= air.stamp
        /\ session.terminal <= air.stamp
    BY <1>1 DEF GroundInv, SessionGood
  <2>2. session.sample \in Int /\ session.terminal \in Int /\ air'.stamp \in Int
    BY <1>3, <1>7, <2>1 DEF SessionType
  <2> QED
    BY <1>8, <2>1, <2>2
<1>11. SessionGood(session, air.stamp)'
  BY <1>1, <1>2, <1>10 DEF GroundInv, SessionGood
<1>12. MirrorGood'
  <2>1. session.sample # air'.stamp /\ session.terminal # air'.stamp
    BY <1>3, <1>7, <1>10 DEF SessionType
  <2> QED
    BY <1>1, <1>2, <2>1 DEF GroundInv, MirrorGood, ReceivedIsKept
<1>13. GroundInv'
  BY <1>1, <1>2, <1>9, <1>11, <1>12 DEF GroundInv
<1>14. PayloadInv'
  BY <1>1, <1>2 DEF PayloadInv, TestGood
<1>15. BoundsGood'
  BY <1>1, <1>3, <1>5, <1>7 DEF BoundsGood
<1>16. RowsLogged'
  <2>1. \A run : Accounted(run) => Accounted(run)'
    BY <1>2 DEF Accounted
  <2>2. air'.id # None => Accounted(test.run)
    BY <1>1, <1>4, <1>7 DEF PayloadInv, Accounted
  <2>3. (air.id # None => Accounted(air.run))'
    BY <1>7, <2>1, <2>2
  <2> QED
    BY <1>1, <1>2, <2>1, <2>3 DEF RowsLogged
<1>17. FormatsGood'
  BY <1>2 DEF RecordsInv, FormatsGood
<1> QED
  BY <1>2, <1>13, <1>14, <1>15, <1>16, <1>17, NoEvidenceTouched DEF RecordsInv

LEMMA PollStep ==
  ASSUME RecordsInv, NEW o \in Outcomes(2), PollTelemetry(o)
  PROVE  RecordsInv' /\ EvidenceStep
<1>1. GroundInv /\ PayloadInv /\ BoundsGood /\ RowsLogged
  BY DEF RecordsInv
<1>2. flash' = flash /\ test' = test /\ air' = air /\ bounds' = Counted(o) /\ formats' = formats
  BY DEF PollTelemetry, payloadVars
<1>3. /\ GroundInv'
      /\ \A f \in DOMAIN sheets :
           f \in DOMAIN sheets' /\ sheets'[f] \in {sheets[f], Append(sheets[f], air)}
      /\ \A f \in DOMAIN sheets' : \A i \in DOMAIN sheets'[f] :
           (sheets'[f][i] = air /\ air.id # None) \/ HasRow(sheets, sheets'[f][i])
  BY <1>1, PollKeeps
<1>4. PayloadInv'
  BY <1>1, <1>2 DEF PayloadInv, TestGood
<1>5. BoundsGood'
  <2>1. /\ Counted(o) \in [troubles : Nat, frames : 0 .. MaxFrames]
        /\ Counted(o).frames = bounds.frames
    BY <1>1, CountedIsGood
  <2> QED
    BY <1>1, <1>2, <2>1 DEF BoundsGood
<1>6. \A x : HasRow(sheets, x) => Accounted(x.run)
  BY <1>1 DEF RowsLogged, HasRow
<1>7. RowsLogged'
  <2>1. \A run : Accounted(run) => Accounted(run)'
    BY <1>2 DEF Accounted
  <2> QED
    BY <1>1, <1>2, <1>3, <1>6, <2>1 DEF RowsLogged
<1>9. FormatsGood'
  BY <1>2 DEF RecordsInv, FormatsGood
<1>8. EvidenceStep
  BY <1>2, <1>3 DEF EvidenceStep
<1> QED
  BY <1>3, <1>4, <1>5, <1>7, <1>8, <1>9 DEF RecordsInv

LEMMA GroundRestartStep ==
  ASSUME RecordsInv, NEW mounted \in BOOLEAN, NEW formatted \in BOOLEAN,
         GroundRestart(mounted, formatted)
  PROVE  RecordsInv' /\ EvidenceStep
<1>1. /\ GroundInv /\ PayloadInv /\ BoundsGood /\ RowsLogged
      /\ bounds' = [bounds EXCEPT !.troubles = @ + Restarted(mounted)]
      /\ session' = NoSession /\ air' = NoFrame
      /\ csv' = [mounted |-> mounted, active |-> FALSE, file |-> NoCsv]
  BY DEF RecordsInv, GroundRestart
<1>2. /\ flash' = flash /\ test' = test /\ faulty' = FALSE
      /\ IF formatted
         THEN sheets' = <<>> /\ kept' = {} /\ formats' = [formats EXCEPT !.sheets = @ + 1]
         ELSE sheets' = sheets /\ kept' = kept /\ formats' = formats
  BY DEF GroundRestart, payloadVars
<1>3. 0 \in 0 .. MaxFrames /\ 0 \in Run /\ 0 \in Id /\ 0 <= 0
  BY RecordsAssumption DEF Run, Id
<1>4. AirGood' /\ air'.stamp = 0 /\ air'.id = 0
  BY <1>1, <1>3 DEF AirGood, NoFrame, Frame, None, IsTerminal
<1>5. SessionGood(session, air.stamp)' /\ ~session'.active
      /\ session'.sample = None /\ session'.terminal = None
  BY <1>1, <1>3, <1>4 DEF SessionGood, SessionType, NoSession, None
<1>6. csv' \in CsvType /\ ~csv'.active
  BY <1>1 DEF CsvType
<1>7. MirrorGood'
  <2>1. ReceivedIsKept
    BY <1>1 DEF GroundInv, MirrorGood
  <2>2. CASE formatted
    BY <1>2, <1>5, <2>2 DEF MirrorGood, ReceivedIsKept
  <2>3. CASE ~formatted
    <3>1. sheets' = sheets /\ kept' = kept
      BY <1>2, <2>3
    <3>2. ReceivedIsKept'
      BY <2>1, <3>1 DEF ReceivedIsKept
    <3> QED
      BY <1>2, <1>5, <3>2 DEF MirrorGood
  <2> QED
    BY <2>2, <2>3
<1>8. SheetsGood(sheets)'
  <2>1. <<>> \in SheetDir /\ DOMAIN <<>> = {}
    BY NothingIsDirectory DEF SheetDir
  <2>2. SheetsGood(<<>>)
    BY <2>1 DEF SheetsGood
  <2> QED
    BY <1>1, <1>2, <2>2 DEF GroundInv, SheetsGood
<1>9. GroundInv'
  BY <1>4, <1>5, <1>6, <1>7, <1>8 DEF GroundInv, CsvFits
<1>10. PayloadInv'
  BY <1>1, <1>2 DEF PayloadInv, TestGood
<1>11. BoundsGood'
  BY <1>1, <1>4 DEF BoundsGood, Restarted
<1>12. /\ FormatsGood' /\ formats'.run = formats.run /\ formats'.flash = formats.flash
       /\ formatted => formats'.sheets # formats.sheets
  <2> DEFINE after == IF formatted THEN [formats EXCEPT !.sheets = @ + 1] ELSE formats
  <2>1. /\ after \in [flash : Nat, sheets : Nat, run : Run] /\ after.run = formats.run
        /\ after.flash = formats.flash /\ (formatted => after.sheets # formats.sheets)
    BY DEF RecordsInv, FormatsGood
  <2>2. formats' = after
    BY <1>2
  <2> HIDE DEF after
  <2> QED
    BY <2>1, <2>2 DEF FormatsGood
<1>13. RowsLogged'
  <2>1. \A run : Accounted(run) => Accounted(run)'
    BY <1>2, <1>12 DEF Accounted
  <2>2. CASE formatted
    <3>1. DOMAIN sheets' = {}
      BY <1>2, <2>2, EmptySeq
    <3> QED
      BY <1>4, <3>1 DEF RowsLogged, None
  <2>3. CASE ~formatted
    BY <1>1, <1>2, <1>4, <2>1, <2>3 DEF RowsLogged, None
  <2> QED
    BY <2>2, <2>3
<1>14. EvidenceStep
  BY <1>2, <1>12 DEF EvidenceStep
<1> QED
  BY <1>9, <1>10, <1>11, <1>12, <1>13, <1>14 DEF RecordsInv

LEMMA InitHolds ==
  ASSUME RecordsInit
  PROVE  RecordsInv
<1> DEFINE empty == Began(<<>>, TRUE, FALSE)
<1>1. /\ bounds = [troubles |-> 0, frames |-> 0]
      /\ flash = Booted(<<>>, TRUE, FALSE, <<"ok", "ok">>) /\ test = NoTest
      /\ air = NoFrame /\ session = NoSession
      /\ csv = [mounted |-> TRUE, active |-> FALSE, file |-> NoCsv] /\ sheets = <<>>
      /\ kept = {} /\ faulty = FALSE /\ formats = [flash |-> 0, sheets |-> 0, run |-> 0]
  BY DEF RecordsInit
<1>2. <<>> \in Files /\ <<>> \in SheetDir /\ DOMAIN <<>> = {}
  BY NothingIsDirectory DEF Files, SheetDir
<1>3. Good(empty) /\ empty.files = <<>>
  BY <1>2, BeganIsGood
<1> HIDE DEF empty
<1>4. Good(flash)
  BY <1>1, <1>3, BootedIsGood
<1>5. 0 \in 0 .. MaxFrames /\ 0 \in Run /\ 0 \in Id /\ 0 <= 0 /\ 0 < 1 /\ 1 <= 0 + 1 /\ 0 \in Nat /\ 1 \in Nat
  BY RecordsAssumption DEF Run, Id
<1>6. TestGood /\ test.id = None /\ test.state # "RECORDING"
  BY <1>1, <1>5 DEF TestGood, NoTest, None
<1>7. PayloadInv
  BY <1>4, <1>6 DEF PayloadInv
<1>8. AirGood /\ air.stamp = 0 /\ air.id = None
  BY <1>1, <1>5 DEF AirGood, NoFrame, Frame, None
<1>9. SessionGood(session, air.stamp) /\ ~session.active
      /\ session.sample = None /\ session.terminal = None
  BY <1>1, <1>5, <1>8 DEF SessionGood, SessionType, NoSession, None
<1>10. csv \in CsvType /\ ~csv.active
  BY <1>1 DEF CsvType
<1>11. MirrorGood
  BY <1>1, <1>9 DEF MirrorGood, ReceivedIsKept
<1>12. SheetsGood(sheets) /\ CsvFits(session, csv, sheets)
  BY <1>1, <1>2, <1>10 DEF SheetsGood, CsvFits
<1>13. GroundInv
  BY <1>8, <1>9, <1>10, <1>11, <1>12 DEF GroundInv
<1>14. BoundsGood
  BY <1>1, <1>5, <1>8 DEF BoundsGood
<1>15. RowsLogged
  BY <1>1, <1>2, <1>8 DEF RowsLogged
<1>16. FormatsGood
  BY <1>1, <1>5 DEF FormatsGood
<1> QED
  BY <1>7, <1>13, <1>14, <1>15, <1>16 DEF RecordsInv

LEMMA StepHolds ==
  ASSUME RecordsInv, [RecordsNext]_recordsVars
  PROVE  RecordsInv' /\ EvidenceStep
<1>1. CASE \E mounted, formatted \in BOOLEAN, o \in Outcomes(2) :
             PayloadRestart(mounted, formatted, o)
  BY <1>1, RestartStep
<1>2. CASE \E o \in Outcomes(4) : ArmDropTest(o)
  BY <1>2, ArmStep
<1>3. CASE \E o \in Outcomes(2) : EndDropTest(o)
  BY <1>3, ClosingStep DEF EndDropTest
<1>4. CASE \E o \in Outcomes(2) : Land(o)
  BY <1>4, ClosingStep DEF Land
<1>5. CASE \E o \in Outcomes(1) : LogFlightData(o)
  BY <1>5, EntryStep
<1>6. CASE SendTelemetry
  BY <1>6, SendStep
<1>7. CASE \E o \in Outcomes(2) : PollTelemetry(o)
  BY <1>7, PollStep
<1>8. CASE \E mounted, formatted \in BOOLEAN : GroundRestart(mounted, formatted)
  BY <1>8, GroundRestartStep
<1>9. CASE UNCHANGED recordsVars
  <2>1. /\ flash' = flash /\ test' = test /\ air' = air /\ session' = session /\ csv' = csv
        /\ sheets' = sheets /\ kept' = kept /\ faulty' = faulty /\ formats' = formats
        /\ bounds' = bounds
    BY <1>9 DEF recordsVars
  <2>2. RecordsInv'
    BY <2>1 DEF RecordsInv, GroundInv, AirGood, MirrorGood, ReceivedIsKept, IsTerminal,
               PayloadInv, TestGood, BoundsGood, RowsLogged, Accounted, FormatsGood
  <2> QED
    BY <2>1, <2>2, NoEvidenceTouched
<1> QED
  BY <1>1, <1>2, <1>3, <1>4, <1>5, <1>6, <1>7, <1>8, <1>9 DEF RecordsNext

-----------------------------------------------------------------------------
(* What an incomplete log costs.  A log that was given up, and each entry of   *)
(* the open one that was counted and not written, has had its trouble.       *)

Unsealed(l) ==
  {s \in DOMAIN l.files :
     ~l.files[s].sealed /\ l.files[s].entries < MaxEntries /\ ~(l.active /\ s = l.slot)}

Missing(l) == IF l.active THEN l.count - l.files[l.slot].entries ELSE 0

Cost(l) == Cardinality(Unsealed(l)) + Missing(l)

\* A header counts at least what is in the file, or nothing yet.
Honest(l) ==
  /\ \A s \in DOMAIN l.files :
       IF l.files[s].sealed THEN l.files[s].counted >= l.files[s].entries
       ELSE l.files[s].counted = 0
  /\ l.active => l.count >= l.files[l.slot].entries

Failed(outcome) == IF outcome = "ok" THEN 0 ELSE 1

LEMMA LoggerFacts ==
  ASSUME NEW l, Good(l)
  PROVE  /\ l \in Logger /\ l.files \in Files /\ DOMAIN l.files \subseteq Slots
         /\ \A s \in DOMAIN l.files :
              l.files[s] \in LogFile(Run) /\ l.files[s].entries \in Nat
              /\ l.files[s].sealed \in BOOLEAN
         /\ l.count \in Nat /\ l.count <= MaxEntries /\ MaxEntries \in Nat
         /\ l.active => l.slot \in DOMAIN l.files /\ ~l.files[l.slot].sealed
<1>1. l \in Logger /\ l.files \in Files /\ l.count \in 0 .. MaxEntries
  BY DEF Good, Logger
<1>2. DOMAIN l.files \subseteq Slots /\ \A s \in DOMAIN l.files : l.files[s] \in LogFile(Run)
  BY <1>1, DirectoryFacts DEF Files
<1>3. \A s \in DOMAIN l.files : l.files[s].entries \in Nat /\ l.files[s].sealed \in BOOLEAN
  BY <1>2 DEF LogFile
<1> QED
  BY <1>1, <1>2, <1>3, FlashLogAssumption DEF Good

LEMMA UnsealedCounts ==
  ASSUME NEW l, Good(l)
  PROVE  /\ Cardinality(Unsealed(l)) \in Nat
         /\ \A T : T \subseteq Unsealed(l) =>
              Cardinality(T) \in Nat /\ Cardinality(T) <= Cardinality(Unsealed(l))
         /\ \A T, x : T \subseteq Unsealed(l) \cup {x} =>
              Cardinality(T) \in Nat /\ Cardinality(T) <= Cardinality(Unsealed(l)) + 1
<1> DEFINE U == Unsealed(l)
<1>1. U \subseteq Slots
  BY LoggerFacts DEF Unsealed
<1>2. IsFiniteSet(Slots)
  BY FlashLogAssumption, FS_Interval DEF Slots
<1>3. IsFiniteSet(U)
  BY <1>1, <1>2, FS_Subset
<1> HIDE DEF U
<1>4. Cardinality(U) \in Nat
  BY <1>3, FS_CardinalityType
<1>5. ASSUME NEW T, T \subseteq U
      PROVE  Cardinality(T) \in Nat /\ Cardinality(T) <= Cardinality(U)
  BY <1>3, <1>5, FS_Subset, FS_CardinalityType
<1>6. ASSUME NEW T, NEW x, T \subseteq U \cup {x}
      PROVE  Cardinality(T) \in Nat /\ Cardinality(T) <= Cardinality(U) + 1
  <2>1. IsFiniteSet(U \cup {x}) /\ Cardinality(U \cup {x}) <= Cardinality(U) + 1
    <3>1. /\ IsFiniteSet(U \cup {x})
          /\ Cardinality(U \cup {x}) =
               IF x \in U THEN Cardinality(U) ELSE Cardinality(U) + 1
      BY <1>3, FS_AddElement
    <3> QED
      BY <1>4, <3>1
  <2>2. Cardinality(U \cup {x}) \in Nat
    BY <2>1, FS_CardinalityType
  <2>3. IsFiniteSet(T) /\ Cardinality(T) <= Cardinality(U \cup {x})
    BY <1>6, <2>1, FS_Subset
  <2>4. Cardinality(T) \in Nat
    BY <2>3, FS_CardinalityType
  <2> QED
    BY <1>4, <2>1, <2>2, <2>3, <2>4
<1> QED
  BY <1>4, <1>5, <1>6 DEF U

LEMMA MissingCounts ==
  ASSUME NEW l, Good(l), Honest(l)
  PROVE  Missing(l) \in Nat /\ Cost(l) \in Nat
<1>1. Missing(l) \in Nat
  BY LoggerFacts DEF Missing, Honest
<1>2. Cardinality(Unsealed(l)) \in Nat
  BY UnsealedCounts
<1> QED
  BY <1>1, <1>2 DEF Cost

\* A logger that stops, or loses power, gives up at most the open log.
LEMMA GivenUpCosts ==
  ASSUME NEW l, Good(l), Honest(l), NEW n, n.files = l.files, n.active = FALSE
  PROVE  Honest(n) /\ Cost(n) <= Cost(l) + 1 /\ (~l.active => Cost(n) <= Cost(l))
         /\ (l.active /\ l.files[l.slot].entries >= MaxEntries => Cost(n) <= Cost(l))
         /\ (l.active /\ Missing(l) >= 1 => Cost(n) <= Cost(l))
<1>1. Honest(n) /\ Missing(n) = 0
  BY DEF Honest, Missing
<1>2. Unsealed(n) \subseteq Unsealed(l) \cup {l.slot}
  BY DEF Unsealed
<1>3. ~l.active => Unsealed(n) \subseteq Unsealed(l)
  BY DEF Unsealed
<1>4. l.active /\ l.files[l.slot].entries >= MaxEntries => Unsealed(n) \subseteq Unsealed(l)
  BY LoggerFacts DEF Unsealed
<1>5. /\ Cardinality(Unsealed(n)) \in Nat /\ Cardinality(Unsealed(l)) \in Nat
      /\ Cardinality(Unsealed(n)) <= Cardinality(Unsealed(l)) + 1
      /\ (Unsealed(n) \subseteq Unsealed(l) =>
            Cardinality(Unsealed(n)) <= Cardinality(Unsealed(l)))
  BY <1>2, UnsealedCounts
<1>6. Missing(l) \in Nat
  BY MissingCounts
<1> QED
  BY <1>1, <1>3, <1>4, <1>5, <1>6 DEF Cost

LEMMA EntryCosts ==
  ASSUME NEW l, Good(l), Honest(l), NEW outcome \in Outcome
  PROVE  LET n == LogEntry(l, outcome) IN
         Honest(n) /\ Cost(n) <= Cost(l) + Failed(outcome)
<1> DEFINE n == LogEntry(l, outcome)
           file == WriteEntry(l.files[l.slot], outcome)
           f == [l.files EXCEPT ![l.slot] = file]
<1>1. /\ l \in Logger /\ l.files \in Files /\ l.count \in Nat /\ MaxEntries \in Nat
      /\ l.count <= MaxEntries
      /\ \A s \in DOMAIN l.files : l.files[s] \in LogFile(Run) /\ l.files[s].entries \in Nat
      /\ l.active => l.slot \in DOMAIN l.files /\ ~l.files[l.slot].sealed
      /\ Missing(l) \in Nat /\ Cost(l) \in Nat
  BY LoggerFacts, MissingCounts
<1>2. CASE ~l.active
  <2>1. n = l
    BY <1>2 DEF LogEntry
  <2> QED
    BY <1>1, <2>1 DEF Failed
<1>3. CASE l.active /\ (l.count >= MaxEntries \/ outcome = "refused")
  <2>1. n = [l EXCEPT !.active = FALSE]
    BY <1>3 DEF LogEntry
  <2>2. n.files = l.files /\ n.active = FALSE
    BY <1>1, <2>1 DEF Logger
  <2> HIDE DEF n
  <2>3. /\ Honest(n) /\ Cost(n) <= Cost(l) + 1
        /\ l.files[l.slot].entries >= MaxEntries => Cost(n) <= Cost(l)
        /\ Missing(l) >= 1 => Cost(n) <= Cost(l)
    BY <1>3, <2>2, GivenUpCosts
  <2>4. CASE outcome = "ok"
    <3>1. l.count >= MaxEntries /\ l.slot \in DOMAIN l.files
      BY <1>1, <1>3, <2>4
    <3>2. l.files[l.slot].entries >= MaxEntries \/ Missing(l) >= 1
      BY <1>1, <1>3, <3>1 DEF Missing
    <3> QED
      BY <2>3, <2>4, <3>2, <1>1 DEF Failed, n, Cost
  <2> QED
    BY <2>3, <2>4 DEF Failed, n
<1>4. CASE l.active /\ l.count < MaxEntries /\ outcome # "refused"
  <2>1. l.slot \in DOMAIN l.files /\ outcome \in {"ok", "short"}
    BY <1>1, <1>4 DEF Outcome
  <2>2. n = [l EXCEPT !.count = l.count + 1, !.files = f]
    BY <1>1, <1>4, <2>1 DEF LogEntry, Logger
  <2>3. /\ file \in LogFile(Run) /\ file.sealed = l.files[l.slot].sealed
        /\ file.counted = l.files[l.slot].counted
        /\ file.entries = l.files[l.slot].entries + (1 - Failed(outcome))
    BY <1>1, <2>1 DEF WriteEntry, LogFile, Failed
  <2> HIDE DEF file, n
  <2>4. /\ DOMAIN f = DOMAIN l.files /\ f[l.slot] = file
        /\ \A s \in DOMAIN l.files : s # l.slot => f[s] = l.files[s]
    BY <1>1, <2>1, <2>3, ChangedFacts DEF Files
  <2> HIDE DEF f
  <2>5. n.files = f /\ n.active = l.active /\ n.slot = l.slot /\ n.count = l.count + 1
    BY <1>1, <2>2 DEF Logger
  <2>6. Failed(outcome) \in {0, 1}
    BY DEF Failed
  <2>7. l.count >= l.files[l.slot].entries /\ l.files[l.slot].entries \in Nat
    BY <1>1, <1>4, <2>1 DEF Honest
  <2>8. Honest(n)
    <3>1. n.count >= n.files[n.slot].entries
      BY <1>1, <2>3, <2>4, <2>5, <2>6, <2>7
    <3>2. \A s \in DOMAIN n.files :
            IF n.files[s].sealed THEN n.files[s].counted >= n.files[s].entries
            ELSE n.files[s].counted = 0
      <4> TAKE s \in DOMAIN n.files
      <4>1. CASE s = l.slot
        BY <1>1, <1>4, <2>1, <2>3, <2>4, <2>5, <4>1 DEF Honest
      <4>2. CASE s # l.slot
        BY <2>4, <2>5, <4>2 DEF Honest
      <4> QED
        BY <4>1, <4>2
    <3> QED
      BY <3>1, <3>2 DEF Honest
  <2>9. Unsealed(n) \subseteq Unsealed(l)
    BY <1>4, <2>4, <2>5 DEF Unsealed
  <2>10. /\ Cardinality(Unsealed(n)) \in Nat /\ Cardinality(Unsealed(l)) \in Nat
         /\ Cardinality(Unsealed(n)) <= Cardinality(Unsealed(l))
    BY <2>9, UnsealedCounts
  <2>11. Missing(n) = Missing(l) + Failed(outcome)
    <3>1. Missing(n) = (l.count + 1) - (l.files[l.slot].entries + (1 - Failed(outcome)))
      BY <1>4, <2>3, <2>4, <2>5 DEF Missing
    <3>2. Missing(l) = l.count - l.files[l.slot].entries
      BY <1>4 DEF Missing
    <3> QED
      BY <1>1, <2>6, <2>7, <3>1, <3>2
  <2> QED
    BY <1>1, <2>6, <2>8, <2>10, <2>11 DEF Cost, n
<1> QED
  BY <1>1, <1>2, <1>3, <1>4

LEMMA EndCosts ==
  ASSUME NEW l, Good(l), Honest(l), NEW outcome \in Outcome
  PROVE  LET n == EndFlightLog(l, outcome) IN
         Honest(n) /\ Cost(n) <= Cost(l) + Failed(outcome)
<1> DEFINE n == EndFlightLog(l, outcome)
           file == [l.files[l.slot] EXCEPT !.counted = l.count, !.sealed = TRUE]
           f == [l.files EXCEPT ![l.slot] = file]
<1>1. /\ l \in Logger /\ l.files \in Files /\ l.count \in Nat
      /\ \A s \in DOMAIN l.files : l.files[s] \in LogFile(Run) /\ l.files[s].entries \in Nat
      /\ l.active => l.slot \in DOMAIN l.files /\ ~l.files[l.slot].sealed
      /\ Missing(l) \in Nat /\ Cost(l) \in Nat
  BY LoggerFacts, MissingCounts
<1>2. CASE ~l.active
  <2>1. n = l
    BY <1>2 DEF EndFlightLog
  <2> QED
    BY <1>1, <2>1 DEF Failed
<1>3. CASE l.active /\ outcome # "ok"
  <2>1. n = [l EXCEPT !.active = FALSE]
    BY <1>3 DEF EndFlightLog
  <2>2. n.files = l.files /\ n.active = FALSE
    BY <1>1, <2>1 DEF Logger
  <2> HIDE DEF n
  <2>3. Honest(n) /\ Cost(n) <= Cost(l) + 1
    BY <2>2, GivenUpCosts
  <2> QED
    BY <1>3, <2>3 DEF Failed, n
<1>4. CASE l.active /\ outcome = "ok"
  <2>1. l.slot \in DOMAIN l.files
    BY <1>1, <1>4
  <2>2. n = [l EXCEPT !.active = FALSE, !.files[l.slot].counted = l.count,
                      !.files[l.slot].sealed = TRUE]
    BY <1>4 DEF EndFlightLog
  <2>3. n = [l EXCEPT !.active = FALSE, !.files = f]
    BY <1>1, <2>1, <2>2 DEF Logger
  <2>4. /\ file \in LogFile(Run) /\ file.sealed /\ file.counted = l.count
        /\ file.entries = l.files[l.slot].entries
    BY <1>1, <2>1 DEF LogFile
  <2> HIDE DEF file, n
  <2>5. /\ DOMAIN f = DOMAIN l.files /\ f[l.slot] = file
        /\ \A s \in DOMAIN l.files : s # l.slot => f[s] = l.files[s]
    BY <1>1, <2>1, <2>4, ChangedFacts DEF Files
  <2> HIDE DEF f
  <2>6. n.files = f /\ n.active = FALSE
    BY <1>1, <2>3 DEF Logger
  <2>7. Honest(n) /\ Missing(n) = 0
    BY <1>4, <2>4, <2>5, <2>6 DEF Honest, Missing
  <2>8. Unsealed(n) \subseteq Unsealed(l)
    BY <2>4, <2>5, <2>6 DEF Unsealed
  <2>9. /\ Cardinality(Unsealed(n)) \in Nat /\ Cardinality(Unsealed(l)) \in Nat
        /\ Cardinality(Unsealed(n)) <= Cardinality(Unsealed(l))
    BY <2>8, UnsealedCounts
  <2>10. Failed(outcome) = 0
    BY <1>4 DEF Failed
  <2> QED
    BY <1>1, <2>7, <2>9, <2>10 DEF Cost, n
<1> QED
  BY <1>2, <1>3, <1>4

LEMMA StartCosts ==
  ASSUME NEW l, Good(l), Honest(l), ~l.active, NEW run \in Run, NEW outcome
  PROVE  LET n == StartFlightLog(l, run, outcome) IN Honest(n) /\ Cost(n) <= Cost(l)
<1> DEFINE n == StartFlightLog(l, run, outcome)
           slot == FirstUnused(l)
           new == [run |-> run, entries |-> 0, counted |-> 0, sealed |-> FALSE]
           f == Added(l.files, slot, new)
<1>1. /\ l \in Logger /\ l.files \in Files /\ Missing(l) \in Nat /\ Cost(l) \in Nat
      /\ l.active = FALSE
  BY LoggerFacts, MissingCounts DEF Logger
<1>2. CASE ~l.mounted
  <2>1. n = l
    BY <1>2 DEF StartFlightLog
  <2> QED
    BY <1>1, <2>1
<1>3. CASE l.mounted /\ (Unused(l) = {} \/ outcome # "ok")
  <2>1. n = [l EXCEPT !.active = FALSE]
    BY <1>3 DEF StartFlightLog
  <2>2. n = l
    BY <1>1, <2>1 DEF Logger
  <2> QED
    BY <1>1, <2>2
<1>4. CASE l.mounted /\ Unused(l) # {} /\ outcome = "ok"
  <2>1. Unused(l) \subseteq Nat
    BY FlashLogAssumption DEF Unused, Slots
  <2>2. slot \in Unused(l)
    BY <1>4, <2>1, SmallestExists DEF FirstUnused
  <2>3. slot \notin DOMAIN l.files
    BY <2>2 DEF Unused
  <2>4. n = [l EXCEPT !.files = f, !.active = TRUE, !.slot = slot, !.count = 0]
    BY <1>4 DEF StartFlightLog
  <2>5. ~new.sealed /\ new.entries = 0 /\ new.counted = 0
    OBVIOUS
  <2> HIDE DEF slot, new, n
  <2>6. DOMAIN f = DOMAIN l.files \cup {slot}
    BY AddedDomain
  <2>7. f[slot] = new
    BY AddedAt
  <2>8. \A s \in DOMAIN l.files : s # slot => f[s] = l.files[s]
    BY AddedElsewhere
  <2> HIDE DEF f
  <2>9. n.files = f /\ n.active = TRUE /\ n.slot = slot /\ n.count = 0
    BY <1>1, <2>4 DEF Logger
  <2>10. Honest(n) /\ Missing(n) = 0
    BY <2>3, <2>5, <2>6, <2>7, <2>8, <2>9 DEF Honest, Missing
  <2>11. Unsealed(n) \subseteq Unsealed(l)
    BY <1>1, <2>3, <2>6, <2>8, <2>9 DEF Unsealed
  <2>12. /\ Cardinality(Unsealed(n)) \in Nat /\ Cardinality(Unsealed(l)) \in Nat
         /\ Cardinality(Unsealed(n)) <= Cardinality(Unsealed(l))
    BY <2>11, UnsealedCounts
  <2> QED
    BY <1>1, <2>10, <2>12 DEF Cost, n
<1> QED
  BY <1>2, <1>3, <1>4

\* The failures among the first k outcomes.
FailedUpTo(o, k) == {i \in 1 .. k : o[i] # "ok"}

LEMMA OneMoreOutcome ==
  ASSUME NEW o, NEW k \in Nat
  PROVE  /\ Cardinality(FailedUpTo(o, k)) \in Nat
         /\ Cardinality(FailedUpTo(o, k + 1)) = Cardinality(FailedUpTo(o, k)) + Failed(o[k + 1])
<1>1. IsFiniteSet(1 .. k) /\ FailedUpTo(o, k) \subseteq 1 .. k
  BY FS_Interval DEF FailedUpTo
<1>2. IsFiniteSet(FailedUpTo(o, k))
  BY <1>1, FS_Subset
<1>3. Cardinality(FailedUpTo(o, k)) \in Nat
  BY <1>2, FS_CardinalityType
<1>4. CASE o[k + 1] = "ok"
  <2>1. \A i : i \in 1 .. (k + 1) /\ o[i] # "ok" <=> i \in 1 .. k /\ o[i] # "ok"
    BY <1>4
  <2>2. FailedUpTo(o, k + 1) = FailedUpTo(o, k)
    BY <2>1 DEF FailedUpTo
  <2> QED
    BY <1>3, <1>4, <2>2 DEF Failed
<1>5. CASE o[k + 1] # "ok"
  <2>1. \A i : i \in 1 .. (k + 1) /\ o[i] # "ok" <=> (i \in 1 .. k /\ o[i] # "ok") \/ i = k + 1
    BY <1>5
  <2>2. FailedUpTo(o, k + 1) = FailedUpTo(o, k) \cup {k + 1}
    BY <2>1 DEF FailedUpTo
  <2>3. k + 1 \notin FailedUpTo(o, k)
    BY DEF FailedUpTo
  <2>4. Cardinality(FailedUpTo(o, k) \cup {k + 1}) = Cardinality(FailedUpTo(o, k)) + 1
    BY <1>2, <2>3, FS_AddElement
  <2> QED
    BY <1>3, <1>5, <2>2, <2>4 DEF Failed
<1> QED
  BY <1>3, <1>4, <1>5

LEMMA FailuresAdd ==
  ASSUME NEW n \in Nat, NEW o \in Outcomes(n)
  PROVE  /\ Failures(o) \in Nat /\ \A i \in 1 .. n : o[i] \in Outcome /\ Failed(o[i]) \in Nat
         /\ n = 1 => Failures(o) = Failed(o[1])
         /\ n = 2 => Failures(o) = Failed(o[1]) + Failed(o[2])
         /\ n = 4 => Failures(o) = Failed(o[1]) + Failed(o[2]) + Failed(o[3]) + Failed(o[4])
<1> DEFINE C(k) == Cardinality(FailedUpTo(o, k))
<1>1. o \in [1 .. n -> Outcome]
  BY DEF Outcomes
<1>2. Failures(o) = C(n)
  BY <1>1 DEF Failures, FailedUpTo
<1>3. \A k \in Nat : C(k) \in Nat /\ C(k + 1) = C(k) + Failed(o[k + 1])
  BY OneMoreOutcome
<1>4. C(0) = 0
  <2>1. FailedUpTo(o, 0) = {}
    BY DEF FailedUpTo
  <2> QED
    BY <2>1, FS_EmptySet
<1>5. \A i : Failed(o[i]) \in Nat
  BY DEF Failed
<1> HIDE DEF C
<1>6. C(1) = Failed(o[1]) /\ C(2) = Failed(o[1]) + Failed(o[2])
  <2>1. C(0 + 1) = C(0) + Failed(o[0 + 1]) /\ C(1 + 1) = C(1) + Failed(o[1 + 1])
    BY <1>3
  <2> QED
    BY <1>4, <1>5, <2>1
<1>7. C(4) = Failed(o[1]) + Failed(o[2]) + Failed(o[3]) + Failed(o[4])
  <2>1. C(2 + 1) = C(2) + Failed(o[2 + 1]) /\ C(3 + 1) = C(3) + Failed(o[3 + 1])
    BY <1>3
  <2> QED
    BY <1>5, <1>6, <2>1
<1> QED
  BY <1>1, <1>2, <1>3, <1>5, <1>6, <1>7

\* Each trouble so far has cost at most one.
CostsInv == Honest(flash) /\ Cost(flash) <= bounds.troubles

\* A last entry, then endFlightLog.
LEMMA ClosingCosts ==
  ASSUME NEW l, Good(l), Honest(l), NEW a \in Outcome, NEW b \in Outcome
  PROVE  LET n == EndFlightLog(LogEntry(l, a), b) IN
         Honest(n) /\ Cost(n) <= Cost(l) + Failed(a) + Failed(b)
<1> DEFINE e == LogEntry(l, a)
           n == EndFlightLog(e, b)
<1>1. Good(e) /\ Honest(e) /\ Cost(e) <= Cost(l) + Failed(a)
  BY EntryIsGood, EntryCosts
<1> HIDE DEF e
<1>2. Good(n) /\ Honest(n) /\ Cost(n) <= Cost(e) + Failed(b)
  BY <1>1, EndIsGood, EndCosts
<1> HIDE DEF n
<1>3. Cost(l) \in Nat /\ Cost(e) \in Nat /\ Cost(n) \in Nat
  BY <1>1, <1>2, MissingCounts
<1>4. Failed(a) \in Nat /\ Failed(b) \in Nat
  BY DEF Failed
<1> QED
  BY <1>1, <1>2, <1>3, <1>4 DEF n, e

\* The log of a boot: the loss of power gives up the open one.
LEMMA BootedCosts ==
  ASSUME NEW l, Good(l), Honest(l), NEW mounted \in BOOLEAN, NEW formatted \in BOOLEAN,
         NEW o, o[2] \in Outcome
  PROVE  LET n == Booted(l.files, mounted, formatted, o) IN
         Honest(n) /\ Cost(n) <= Cost(l) + 1 + Failed(o[2])
<1> DEFINE began == Began(l.files, mounted, formatted)
           opened == StartFlightLog(began, 0, o[1])
           n == LogEntry(opened, o[2])
<1>1. l.files \in Files /\ 0 \in Run
  BY RecordsAssumption DEF Good, Logger, Run
<1>2. /\ Good(began) /\ ~began.active /\ began.active = FALSE
      /\ began.files = IF formatted THEN <<>> ELSE l.files
  BY <1>1, BeganIsGood
<1> HIDE DEF began
<1>3. Honest(began) /\ Cost(began) <= Cost(l) + 1
  <2>1. CASE ~formatted
    BY <1>2, <2>1, GivenUpCosts
  <2>2. CASE formatted
    <3>1. began.files = <<>> /\ DOMAIN <<>> = {}
      BY <1>2, <2>2, EmptySeq
    <3>2. Unsealed(began) = {} /\ Honest(began) /\ Missing(began) = 0
      BY <1>2, <3>1 DEF Unsealed, Honest, Missing
    <3>3. Cost(began) = 0 /\ Cost(l) \in Nat
      BY <3>2, FS_EmptySet, MissingCounts DEF Cost
    <3> QED
      BY <3>2, <3>3
  <2> QED
    BY <2>1, <2>2
<1>4. Good(opened) /\ Honest(opened) /\ Cost(opened) <= Cost(began)
  BY <1>1, <1>2, <1>3, StartIsGood, StartCosts
<1> HIDE DEF opened
<1>5. Good(n) /\ Honest(n) /\ Cost(n) <= Cost(opened) + Failed(o[2])
  BY <1>4, EntryIsGood, EntryCosts
<1> HIDE DEF n
<1>6. Cost(l) \in Nat /\ Cost(began) \in Nat /\ Cost(opened) \in Nat /\ Cost(n) \in Nat
  BY <1>2, <1>3, <1>4, <1>5, MissingCounts
<1>7. Failed(o[2]) \in Nat
  BY DEF Failed
<1>8. n = Booted(l.files, mounted, formatted, o)
  BY DEF Booted, n, opened, began
<1> QED
  BY <1>3, <1>4, <1>5, <1>6, <1>7, <1>8

\* The log of a test: the running one is closed first.
LEMMA ArmedCosts ==
  ASSUME RecordsInv, CostsInv, NEW o \in Outcomes(4), ArmDropTest(o)
  PROVE  CostsInv'
<1> DEFINE ended == EndFlightLog(LogEntry(flash, o[1]), o[2])
           opened == StartFlightLog(ended, test.run + 1, o[3])
           final == LogEntry(opened, o[4])
<1>1. /\ Good(flash) /\ Honest(flash) /\ Cost(flash) <= bounds.troubles /\ bounds.troubles \in Nat
      /\ test.run \in Run /\ test.run < MaxRuns
      /\ flash' = final \/ flash' = opened
      /\ bounds' = Counted(o)
  BY DEF RecordsInv, PayloadInv, TestGood, BoundsGood, CostsInv, ArmDropTest
<1>2. /\ Failures(o) = Failed(o[1]) + Failed(o[2]) + Failed(o[3]) + Failed(o[4])
      /\ {o[1], o[2], o[3], o[4]} \subseteq Outcome
      /\ {Failed(o[1]), Failed(o[2]), Failed(o[3]), Failed(o[4])} \subseteq Nat
  BY FailuresAdd
<1>3. bounds'.troubles = bounds.troubles + Failures(o)
  BY <1>1 DEF Counted, RecordsInv, BoundsGood
<1>4. /\ Good(ended) /\ ~ended.active /\ Honest(ended)
      /\ Cost(ended) <= Cost(flash) + Failed(o[1]) + Failed(o[2])
  BY <1>1, <1>2, ClosingIsGood, ClosingCosts
<1> HIDE DEF ended
<1>5. test.run + 1 \in Run
  BY <1>1, RecordsAssumption DEF Run
<1>6. Good(opened) /\ Honest(opened) /\ Cost(opened) <= Cost(ended)
  BY <1>4, <1>5, StartIsGood, StartCosts
<1> HIDE DEF opened
<1>7. Good(final) /\ Honest(final) /\ Cost(final) <= Cost(opened) + Failed(o[4])
  BY <1>2, <1>6, EntryIsGood, EntryCosts
<1> HIDE DEF final
<1>8. {Cost(flash), Cost(ended), Cost(opened), Cost(final)} \subseteq Nat
  BY <1>1, <1>4, <1>6, <1>7, MissingCounts
<1>9. Cost(opened) <= bounds'.troubles /\ Cost(final) <= bounds'.troubles
  BY <1>1, <1>2, <1>3, <1>4, <1>6, <1>7, <1>8
<1> QED
  BY <1>1, <1>6, <1>7, <1>9 DEF CostsInv

LEMMA CostsStep ==
  ASSUME RecordsInv, CostsInv, [RecordsNext]_recordsVars
  PROVE  CostsInv'
<1>1. /\ Good(flash) /\ Honest(flash) /\ Cost(flash) <= bounds.troubles
      /\ bounds \in [troubles : Nat, frames : 0 .. MaxFrames] /\ bounds.troubles \in Nat
  BY DEF RecordsInv, PayloadInv, BoundsGood, CostsInv
<1>2. Cost(flash) \in Nat
  BY <1>1, MissingCounts
<1>3. \A n \in Nat : \A o \in Outcomes(n) :
        Failures(o) \in Nat /\ Counted(o).troubles = bounds.troubles + Failures(o)
        /\ Counted(o) \in [troubles : Nat, frames : 0 .. MaxFrames]
  <2> SUFFICES ASSUME NEW n \in Nat, NEW o \in Outcomes(n)
               PROVE  Failures(o) \in Nat /\ Counted(o).troubles = bounds.troubles + Failures(o)
                      /\ Counted(o) \in [troubles : Nat, frames : 0 .. MaxFrames]
    OBVIOUS
  <2>1. Failures(o) \in Nat
    BY FailuresAdd
  <2> QED
    BY <1>1, <2>1 DEF Counted
<1>4. ASSUME NEW mounted \in BOOLEAN, NEW formatted \in BOOLEAN, NEW o \in Outcomes(2),
             PayloadRestart(mounted, formatted, o)
      PROVE  CostsInv'
  <2>1. /\ flash' = Booted(flash.files, mounted, formatted, o)
        /\ bounds' = [Counted(o) EXCEPT !.troubles = @ + Restarted(mounted)]
    BY <1>4 DEF PayloadRestart
  <2>2. /\ Failures(o) = Failed(o[1]) + Failed(o[2]) /\ o[2] \in Outcome
        /\ {Failed(o[1]), Failed(o[2])} \subseteq Nat
    BY FailuresAdd
  <2>3. bounds'.troubles \in Nat /\ bounds'.troubles >= bounds.troubles + Failures(o) + 1
    BY <1>1, <1>3, <2>1, <2>2 DEF Restarted
  <2>4. Good(flash') /\ Honest(flash') /\ Cost(flash') <= Cost(flash) + 1 + Failed(o[2])
    BY <1>1, <2>1, <2>2, BootedIsGood, BootedCosts
  <2>5. Cost(flash') \in Nat
    BY <2>4, MissingCounts
  <2>6. Cost(flash') <= bounds'.troubles
    BY <1>1, <1>2, <2>2, <2>3, <2>4, <2>5
  <2> QED
    BY <2>4, <2>6 DEF CostsInv
<1>5. ASSUME NEW o \in Outcomes(4), ArmDropTest(o)
      PROVE  CostsInv'
  BY <1>5, ArmedCosts
<1>6. ASSUME NEW o \in Outcomes(2), EndDropTest(o) \/ Land(o)
      PROVE  CostsInv'
  <2>1. flash' = EndFlightLog(LogEntry(flash, o[1]), o[2]) /\ bounds' = Counted(o)
    BY <1>6 DEF EndDropTest, Land
  <2>2. /\ Failures(o) = Failed(o[1]) + Failed(o[2]) /\ {o[1], o[2]} \subseteq Outcome
        /\ {Failed(o[1]), Failed(o[2])} \subseteq Nat
    BY FailuresAdd
  <2>3. /\ Good(flash') /\ Honest(flash')
        /\ Cost(flash') <= Cost(flash) + Failed(o[1]) + Failed(o[2])
    BY <1>1, <2>1, <2>2, ClosingIsGood, ClosingCosts
  <2>4. Cost(flash') \in Nat /\ bounds'.troubles = bounds.troubles + Failures(o)
    BY <1>3, <2>1, <2>3, MissingCounts
  <2>5. Cost(flash') <= bounds'.troubles
    BY <1>1, <1>2, <2>2, <2>3, <2>4
  <2> QED
    BY <2>3, <2>5 DEF CostsInv
<1>7. ASSUME NEW o \in Outcomes(1), LogFlightData(o)
      PROVE  CostsInv'
  <2>1. flash' = LogEntry(flash, o[1]) /\ bounds' = Counted(o)
    BY <1>7 DEF LogFlightData
  <2>2. Failures(o) = Failed(o[1]) /\ o[1] \in Outcome /\ Failed(o[1]) \in Nat
    BY FailuresAdd
  <2>3. Good(flash') /\ Honest(flash') /\ Cost(flash') <= Cost(flash) + Failed(o[1])
    BY <1>1, <2>1, <2>2, EntryIsGood, EntryCosts
  <2>4. Cost(flash') \in Nat /\ bounds'.troubles = bounds.troubles + Failures(o)
    BY <1>3, <2>1, <2>3, MissingCounts
  <2>5. Cost(flash') <= bounds'.troubles
    BY <1>1, <1>2, <2>2, <2>3, <2>4
  <2> QED
    BY <2>3, <2>5 DEF CostsInv
<1>8. ASSUME flash' = flash, bounds'.troubles \in Nat, bounds.troubles <= bounds'.troubles
      PROVE  CostsInv'
  BY <1>1, <1>2, <1>8 DEF CostsInv
<1>9. CASE SendTelemetry
  <2>1. flash' = flash /\ bounds' = [bounds EXCEPT !.frames = @ + 1]
    BY <1>9 DEF SendTelemetry, payloadVars
  <2>2. bounds'.troubles = bounds.troubles
    BY <1>1, <2>1
  <2> QED
    BY <1>1, <1>8, <2>1, <2>2
<1>10. ASSUME NEW o \in Outcomes(2), PollTelemetry(o)
       PROVE  CostsInv'
  <2>1. flash' = flash /\ bounds' = Counted(o)
    BY <1>10 DEF PollTelemetry, payloadVars
  <2>2. Failures(o) \in Nat /\ bounds'.troubles = bounds.troubles + Failures(o)
    BY <1>3, <2>1
  <2> QED
    BY <1>1, <1>8, <2>1, <2>2
<1>11. ASSUME NEW mounted \in BOOLEAN, NEW formatted \in BOOLEAN,
              GroundRestart(mounted, formatted)
       PROVE  CostsInv'
  <2>1. flash' = flash /\ bounds' = [bounds EXCEPT !.troubles = @ + Restarted(mounted)]
    BY <1>11 DEF GroundRestart, payloadVars
  <2>2. bounds'.troubles \in Nat /\ bounds.troubles <= bounds'.troubles
    BY <1>1, <2>1 DEF Restarted
  <2> QED
    BY <1>1, <1>8, <2>1, <2>2
<1>12. CASE UNCHANGED recordsVars
  <2>1. flash' = flash /\ bounds' = bounds
    BY <1>12 DEF recordsVars
  <2> QED
    BY <1>1, <1>8, <2>1
<1> QED
  BY <1>4, <1>5, <1>6, <1>7, <1>9, <1>10, <1>11, <1>12 DEF RecordsNext

LEMMA CostsStart ==
  ASSUME RecordsInit
  PROVE  CostsInv
<1> DEFINE opened == StartFlightLog(Began(<<>>, TRUE, FALSE), 0, "ok")
<1>1. /\ flash = LogEntry(opened, "ok") /\ bounds.troubles = 0 /\ "ok" \in Outcome
  BY DEF RecordsInit, Booted, Outcome
<1>2. <<>> \in Files /\ DOMAIN <<>> = {}
  BY NothingIsDirectory DEF Files
<1> DEFINE began == Began(<<>>, TRUE, FALSE)
<1>3. Good(began) /\ began.files = <<>> /\ ~began.active
  BY <1>2, BeganIsGood
<1>4. opened = StartFlightLog(began, 0, "ok")
  OBVIOUS
<1> HIDE DEF began, opened
<1>5. Unsealed(began) = {} /\ Honest(began) /\ Missing(began) = 0
  BY <1>2, <1>3 DEF Unsealed, Honest, Missing
<1>6. Cost(began) = 0
  BY <1>5, FS_EmptySet DEF Cost
<1>7. 0 \in Run
  BY RecordsAssumption DEF Run
<1>8. Good(opened) /\ Honest(opened) /\ Cost(opened) <= Cost(began)
  BY <1>3, <1>4, <1>5, <1>7, StartIsGood, StartCosts
<1>9. Good(flash) /\ Honest(flash) /\ Cost(flash) <= Cost(opened) + Failed("ok")
  BY <1>1, <1>8, EntryIsGood, EntryCosts
<1>10. Cost(opened) \in Nat /\ Cost(flash) \in Nat /\ Failed("ok") = 0
  BY <1>8, <1>9, MissingCounts DEF Failed
<1>11. Cost(flash) <= bounds.troubles
  BY <1>1, <1>6, <1>8, <1>9, <1>10
<1> QED
  BY <1>9, <1>11 DEF CostsInv

-----------------------------------------------------------------------------
(* The theorems.                                                            *)

\* The inductive invariant of the two records.
THEOREM Invariance == RecordsSpec => []RecordsInv
<1>1. RecordsInit => RecordsInv
  BY InitHolds
<1>2. RecordsInv /\ [RecordsNext]_recordsVars => RecordsInv'
  BY StepHolds
<1> QED
  BY <1>1, <1>2, PTL DEF RecordsSpec

\* The records are what their declarations say.
THEOREM TypeCorrect == RecordsSpec => []RecordsTypeOK
<1>1. RecordsInv => RecordsTypeOK
  <2> SUFFICES ASSUME RecordsInv
               PROVE  RecordsTypeOK
    OBVIOUS
  <2>1. Good(flash) /\ flash \in Logger /\ flash.files \in Files
    BY DEF RecordsInv, PayloadInv, Good, Logger
  <2>2. flash.files \in [DOMAIN flash.files -> LogFile(Run)] /\ DOMAIN flash.files \subseteq Slots
    BY <2>1, DirectoryFacts DEF Files
  <2>3. (flash.active => flash.slot \in DOMAIN flash.files /\ flash.mounted)
        /\ flash.count \in 0 .. MaxEntries
    BY <2>1 DEF Good, Logger
  <2>4. test.run \in Run /\ test.id \in Id
    BY RecordsAssumption DEF RecordsInv, PayloadInv, TestGood, Run, Id
  <2>5. air \in Frame /\ session \in SessionType
    BY DEF RecordsInv, GroundInv, AirGood, SessionGood
  <2>6. session.test \in Id /\ {session.sample, session.terminal} \subseteq 0 .. MaxFrames
    BY <2>5 DEF SessionType
  <2>7. csv.active => csv.file \in DOMAIN sheets /\ session.active /\ csv.file[2] = session.test
    BY DEF RecordsInv, GroundInv, CsvFits
  <2>8. \A f \in DOMAIN sheets : Len(sheets[f]) <= MaxRows
    BY DEF RecordsInv, GroundInv, SheetsGood
  <2> QED
    BY <2>2, <2>3, <2>4, <2>5, <2>6, <2>7, <2>8 DEF RecordsTypeOK
<1> QED
  BY <1>1, Invariance, PTL

\* No log and no file of the ground is ever overwritten, or lost except by a format
\* of its own storage.
THEOREM EvidenceKept == RecordsSpec => EvidenceStays
<1>1. RecordsInv /\ [RecordsNext]_recordsVars =>
        [/\ formats'.flash = formats.flash =>
              \A s \in DOMAIN flash.files :
                /\ s \in DOMAIN flash.files'
                /\ flash'.files[s] # flash.files[s] =>
                     flash.active /\ s = flash.slot /\ ~flash.files[s].sealed
         /\ formats'.sheets = formats.sheets =>
              \A f \in DOMAIN sheets :
                f \in DOMAIN sheets' /\ sheets'[f] \in {sheets[f], Append(sheets[f], air)}]_recordsVars
  BY StepHolds DEF EvidenceStep
<1> QED
  BY <1>1, Invariance, PTL DEF RecordsSpec, EvidenceStays

\* Each frame is at most one row of a file, in the order of sending.
THEOREM Rows == RecordsSpec => []RowsAreOnce
<1>1. RecordsInv => RowsAreOnce
  BY DEF RecordsInv, GroundInv, SheetsGood, Ordered, RowsAreOnce
<1> QED
  BY <1>1, Invariance, PTL

\* What a session without a fault received of a test stays in a file of the ground
\* until its storage is formatted, whatever later sessions and restarts meet.
THEOREM Received == RecordsSpec => []ReceivedIsKept
<1>1. RecordsInv => ReceivedIsKept
  BY DEF RecordsInv, GroundInv, MirrorGood
<1> QED
  BY <1>1, Invariance, PTL

\* Each test, and each test the ground has rows of that began after the last format
\* of the flash, has a log of its own.
THEOREM EachLogged == RecordsSpec => []TestsAreLogged
<1>1. RecordsInv => TestsAreLogged
  BY DEF RecordsInv, PayloadInv, RowsLogged, Accounted, Logged, TestsAreLogged
<1> QED
  BY <1>1, Invariance, PTL

\* A log lacks its final header only for a loss of power or a failure.
THEOREM ForCause == RecordsSpec => []UnsealedForCause
<1>1. RecordsInit => CostsInv
  BY CostsStart
<1>2. RecordsInv /\ CostsInv /\ [RecordsNext]_recordsVars => CostsInv'
  BY CostsStep
<1>3. RecordsInv /\ CostsInv => UnsealedForCause
  <2> SUFFICES ASSUME RecordsInv, CostsInv
               PROVE  UnsealedForCause
    OBVIOUS
  <2>1. Good(flash) /\ Honest(flash) /\ Cost(flash) <= bounds.troubles /\ bounds.troubles \in Nat
    BY DEF RecordsInv, PayloadInv, BoundsGood, CostsInv
  <2>2. Cardinality(Unsealed(flash)) \in Nat /\ Missing(flash) \in Nat
    BY <2>1, UnsealedCounts, MissingCounts
  <2>3. Cardinality(Unsealed(flash)) <= bounds.troubles
    BY <2>1, <2>2 DEF Cost
  <2> QED
    BY <2>1, <2>3 DEF UnsealedForCause, Unsealed, Honest
<1> QED
  BY <1>1, <1>2, <1>3, Invariance, PTL DEF RecordsSpec
=============================================================================
