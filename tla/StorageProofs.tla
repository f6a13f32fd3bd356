---------------------------- MODULE StorageProofs ---------------------------
(***************************************************************************)
(* Theorems about Storage, for any messages, days and failing calls.       *)
(*                                                                         *)
(* A failed rotation leaves no file at all, so that the next write opens   *)
(* one; and it is decided before Stop returns whether there is one         *)
(* (Current).  The day that is archived was over when it was computed,     *)
(* and the clock does not go back (Late).                                  *)
(***************************************************************************)
EXTENDS Storage, TLAPS

Archiving == {"compress", "gzip", "remove"}
Reopening == Archiving \cup {"open"}

\* When s.file is nil, and what is open.
Current ==
    /\ opened \in Nat
    /\ NoFile \notin openFiles /\ openFiles \subseteq {file}
    /\ file = NoFile \/ file \in linked \/ timer = "close"
    /\ stopper = "new" \/ timer \in Reopening => file = NoFile
    /\ faults = 0 /\ stopper # "new" /\ timer \notin Reopening => file # NoFile
    /\ stopper \in {"new", "lock", "returned"} => timer = "off"
    /\ stopper = "returned" /\ faults = 0 => openFiles = {}

\* Midnight has passed before the rotation computes yesterday.
Late ==
    /\ timer = "wait" => midnight >= 1
    /\ timer \in {"lock", "close"} => today >= 1
    /\ timer \in Archiving => yesterday < today

IInv == TypeOK /\ Current /\ Late /\ OnlyPastDaysArchived

\* rotateFile opens a file of its own.
LEMMA RotateFileOpens ==
    ASSUME IInv, RotateFile, file = NoFile
    PROVE  /\ opened' \in Nat /\ file' # NoFile /\ file' \in linked'
           /\ openFiles' = {file'}
<1> DEFINE f == [id |-> opened + 1, date |-> today]
<1>1. opened' = opened + 1 /\ file' = f /\ openFiles' = openFiles \cup {f} /\ linked' = linked \cup {f}
  BY DEF RotateFile
<1>2. opened \in Nat /\ openFiles = {}
  BY DEF IInv, Current
<1>3. f.id # NoFile.id
  BY <1>2 DEF NoFile
<1>4. f # NoFile
  BY <1>3
<1> QED BY <1>1, <1>2, <1>4

LEMMA Initially == Init => IInv
<1> SUFFICES ASSUME Init PROVE IInv
  OBVIOUS
<1>1. TypeOK
  <2>1. 0 \in Days /\ 0 \in 0 .. MaxDay + 1 /\ 0 \in 0 .. MaxFaults
    BY StorageAssumption DEF Days
  <2> QED BY <2>1 DEF Init, TypeOK
<1>2. Current
  BY DEF Init, Current, Reopening, Archiving
<1>3. Late /\ OnlyPastDaysArchived
  BY DEF Init, Late, OnlyPastDaysArchived, Archiving
<1> QED BY <1>1, <1>2, <1>3 DEF IInv

\* Start, and messages from any goroutine.
LEMMA WritesKeep ==
    ASSUME IInv, Start \/ StartFails \/ (\E m \in Messages : WriteMessage(m)) \/ WriteMessageFails
    PROVE  IInv'
<1>1. /\ UNCHANGED <<today, midnight, yesterday, stopChan, gz, archived>>
      /\ OnlyPastDaysArchived'
  BY DEF IInv, OnlyPastDaysArchived, Start, StartFails, WriteMessage, WriteMessageFails, archives, stop
<1>2. CASE Start
  <2>1. /\ stopper = "new" /\ RotateFile /\ timer' = "arm" /\ stopper' = "before"
        /\ UNCHANGED <<log, faults>>
    BY <1>2 DEF Start
  <2>2. TypeOK'
    BY <1>1, <2>1 DEF IInv, TypeOK
  <2>3. Current'
    BY <2>1, RotateFileOpens DEF IInv, Current, Reopening, Archiving
  <2>4. Late'
    BY <2>1 DEF Late, Archiving
  <2> QED BY <1>1, <2>2, <2>3, <2>4 DEF IInv
<1>3. CASE \E m \in Messages : WriteMessage(m)
  <2>1. PICK m \in Messages : WriteMessage(m)
    BY <1>3
  <2>2. /\ stopper # "new" /\ ~Locked /\ UNCHANGED <<timer, stopper, faults>>
        /\ (file = NoFile /\ RotateFile) \/ (file \in openFiles /\ UNCHANGED files)
        /\ Append(file', m)
    BY <2>1 DEF WriteMessage, stop
  <2>3. log' \in [Days -> SUBSET Messages]
    BY <2>2 DEF Append, IInv, TypeOK
  <2>4. TypeOK'
    BY <1>1, <2>2, <2>3 DEF IInv, TypeOK
  <2>5. timer \notin Reopening /\ timer # "close"
    BY <2>2 DEF Locked, Rotating, Reopening, Archiving
  <2>6. Current'
    <3>1. CASE file = NoFile /\ RotateFile
      <4>1. faults # 0 \/ stopper # "returned"
        BY <2>2, <2>5, <3>1 DEF IInv, Current
      <4> QED BY <2>2, <2>5, <3>1, <4>1, RotateFileOpens DEF IInv, Current
    <3>2. CASE file \in openFiles /\ UNCHANGED files
      BY <2>2, <3>2 DEF IInv, Current, files
    <3> QED BY <2>2, <3>1, <3>2
  <2>7. Late'
    BY <1>1, <2>2 DEF IInv, Late
  <2> QED BY <1>1, <2>4, <2>6, <2>7 DEF IInv
<1>4. CASE WriteMessageFails
  <2>1. /\ stopper # "new" /\ ~Locked /\ UNCHANGED <<timer, stopper, log>>
        /\ UNCHANGED files \/ (file = NoFile /\ RotateFile)
        /\ faults < MaxFaults /\ faults' = faults + 1
    BY <1>4 DEF WriteMessageFails, Fault, stop
  <2>2. faults' \in 0 .. MaxFaults /\ faults' # 0
    BY <2>1, StorageAssumption DEF IInv, TypeOK
  <2>3. TypeOK'
    BY <1>1, <2>1, <2>2 DEF IInv, TypeOK
  <2>4. timer \notin Reopening /\ timer # "close"
    BY <2>1 DEF Locked, Rotating, Reopening, Archiving
  <2>5. Current'
    <3>1. CASE file = NoFile /\ RotateFile
      BY <2>1, <2>2, <2>4, <3>1, RotateFileOpens DEF IInv, Current
    <3>2. CASE UNCHANGED files
      BY <2>1, <2>2, <3>2 DEF IInv, Current, files
    <3> QED BY <2>1, <3>1, <3>2
  <2>6. Late'
    BY <1>1, <2>1 DEF IInv, Late
  <2> QED BY <1>1, <2>3, <2>5, <2>6 DEF IInv
<1>5. CASE StartFails
  <2>1. /\ stopper = "new" /\ stopper' = "before" /\ faults < MaxFaults /\ faults' = faults + 1
        /\ UNCHANGED <<file, openFiles, linked, opened, timer, log>>
    BY <1>5 DEF StartFails, Fault, files
  <2>2. faults' \in 0 .. MaxFaults /\ faults' # 0
    BY <2>1, StorageAssumption DEF IInv, TypeOK
  <2>3. TypeOK' /\ Late'
    BY <1>1, <2>1, <2>2 DEF IInv, TypeOK, Late
  <2>4. Current'
    BY <2>1, <2>2 DEF IInv, Current
  <2> QED BY <1>1, <2>3, <2>4 DEF IInv
<1> QED BY <1>2, <1>3, <1>4, <1>5

\* Stop waits for the timer before it takes the mutex.
LEMMA StopKeeps ==
    ASSUME IInv, StopBegins \/ Stop
    PROVE  IInv'
<1>1. UNCHANGED <<today, linked, file, opened, timer, midnight, yesterday, log, gz, archived, faults>>
  BY DEF StopBegins, Stop, StopLocks, StopClose, files, archives
<1>2. TypeOK' /\ Late' /\ OnlyPastDaysArchived'
  BY <1>1 DEF IInv, TypeOK, Late, OnlyPastDaysArchived, StopBegins, Stop, StopLocks, StopClose
<1>3. Current'
  <2>1. CASE StopBegins \/ StopLocks
    <3>1. /\ openFiles' = openFiles /\ stopper \in {"before", "wait"} /\ stopper' \in {"wait", "lock"}
          /\ stopper' = "lock" => timer = "off"
      BY <2>1 DEF StopBegins, StopLocks, files
    <3> QED BY <1>1, <3>1 DEF IInv, Current
  <2>2. CASE StopClose
    <3>1. stopper = "lock" /\ openFiles' = openFiles \ {file} /\ stopper' = "returned"
      BY <2>2 DEF StopClose
    <3> QED BY <1>1, <3>1 DEF IInv, Current
  <2> QED BY <2>1, <2>2 DEF Stop
<1> QED BY <1>2, <1>3 DEF IInv

\* The timer arms, fires or ends.
LEMMA TimerKeeps ==
    ASSUME IInv, Arm \/ TimerExits \/ Fire \/ Lock
    PROVE  IInv'
<1>1. UNCHANGED <<today, file, openFiles, linked, opened, yesterday, stopChan, stopper, log, gz,
                  archived, faults>>
  BY DEF Arm, TimerExits, Fire, Lock, files, archives, stop
<1>2. midnight' \in 0 .. MaxDay + 1
  BY StorageAssumption DEF IInv, TypeOK, Days, Arm, TimerExits, Fire, Lock
<1>3. TypeOK' /\ OnlyPastDaysArchived'
  BY <1>1, <1>2 DEF IInv, TypeOK, OnlyPastDaysArchived, Arm, TimerExits, Fire, Lock
<1>4. Late'
  <2>1. today \in Nat /\ midnight \in Nat
    BY StorageAssumption DEF IInv, TypeOK, Days
  <2> QED BY <1>1, <2>1 DEF IInv, Late, Arm, TimerExits, Fire, Lock, Archiving
<1>5. Current'
  <2>1. timer \in {"arm", "wait", "lock"} /\ timer' \in {"wait", "off", "lock", "close"}
    BY DEF Arm, TimerExits, Fire, Lock
  <2>2. timer # "close" /\ timer \notin Reopening /\ timer' \notin Reopening
    BY <2>1 DEF Reopening, Archiving
  <2>3. stopper \notin {"new", "lock", "returned"}
    BY <2>1 DEF IInv, Current
  <2> QED BY <1>1, <2>2, <2>3 DEF IInv, Current
<1> QED BY <1>3, <1>4, <1>5 DEF IInv

\* A rotation, under the mutex.
LEMMA RotationKeeps ==
    ASSUME IInv, Close \/ StatFails \/ Compress \/ WriteArchive \/ Remove \/ Open \/ RotationFails
    PROVE  IInv'
<1>1. /\ UNCHANGED <<today, midnight, stopChan, stopper>> /\ today \in Nat /\ yesterday \in Nat
      /\ stopper \notin {"new", "lock", "returned"}
  BY StorageAssumption
  DEF IInv, TypeOK, Days, Current, Close, StatFails, Compress, WriteArchive, Remove, Open, RotationFails, stop
<1>2. CASE Close
  <2>1. /\ timer = "close" /\ openFiles' = openFiles \ {file} /\ file' = NoFile /\ yesterday' = today - 1
        /\ timer' \in {"compress", "open"} /\ UNCHANGED <<linked, opened, log, gz, archived, faults>>
    BY <1>2 DEF Close, archives
  <2>2. yesterday' \in Days /\ yesterday' < today
    BY <1>1, <2>1, StorageAssumption DEF IInv, TypeOK, Late, Days
  <2>3. TypeOK' /\ Late' /\ OnlyPastDaysArchived'
    BY <1>1, <2>1, <2>2 DEF IInv, TypeOK, Late, OnlyPastDaysArchived, Archiving
  <2>4. Current'
    BY <1>1, <2>1 DEF IInv, Current, Reopening, Archiving
  <2> QED BY <2>3, <2>4 DEF IInv
<1>3. CASE Compress
  <2>1. /\ timer = "compress" /\ timer' = "gzip"
        /\ gz' = [gz EXCEPT ![yesterday] = {}] /\ archived' = [archived EXCEPT ![yesterday] = today]
        /\ UNCHANGED <<file, openFiles, linked, opened, yesterday, log, faults>>
    BY <1>3 DEF Compress, files
  <2>2. yesterday < today
    BY <2>1 DEF IInv, Late, Archiving
  <2>3. TypeOK' /\ Late'
    BY <1>1, <2>1, <2>2 DEF IInv, TypeOK, Late, Archiving
  <2>4. OnlyPastDaysArchived'
    BY <1>1, <2>1, <2>2 DEF IInv, TypeOK, OnlyPastDaysArchived
  <2>5. Current'
    BY <1>1, <2>1 DEF IInv, Current, Reopening, Archiving
  <2> QED BY <2>3, <2>4, <2>5 DEF IInv
<1>4. CASE WriteArchive
  <2>1. /\ timer = "gzip" /\ timer' = "remove" /\ gz' = [gz EXCEPT ![yesterday] = {}]
        /\ UNCHANGED <<file, openFiles, linked, opened, yesterday, log, archived, faults>>
    BY <1>4 DEF WriteArchive, files
  <2>2. TypeOK' /\ Late' /\ OnlyPastDaysArchived'
    BY <1>1, <2>1 DEF IInv, TypeOK, Late, OnlyPastDaysArchived, Archiving
  <2>3. Current'
    BY <1>1, <2>1 DEF IInv, Current, Reopening, Archiving
  <2> QED BY <2>2, <2>3 DEF IInv
<1>5. CASE Remove
  <2>1. /\ timer = "remove" /\ timer' = "open" /\ log' = [log EXCEPT ![yesterday] = {}]
        /\ UNCHANGED <<file, openFiles, opened, yesterday, gz, archived, faults>>
    BY <1>5 DEF Remove, archives
  <2>2. TypeOK' /\ Late' /\ OnlyPastDaysArchived'
    BY <1>1, <2>1 DEF IInv, TypeOK, Late, OnlyPastDaysArchived, Archiving
  <2>3. Current'
    BY <1>1, <2>1 DEF IInv, Current, Reopening, Archiving
  <2> QED BY <2>2, <2>3 DEF IInv
<1>6. CASE Open
  <2>1. timer = "open" /\ timer' = "arm" /\ RotateFile /\ UNCHANGED <<yesterday, log, gz, archived, faults>>
    BY <1>6 DEF Open, archives
  <2>2. TypeOK' /\ Late' /\ OnlyPastDaysArchived'
    BY <1>1, <2>1 DEF IInv, TypeOK, Late, OnlyPastDaysArchived, Archiving
  <2>3. file = NoFile
    BY <2>1 DEF IInv, Current, Reopening
  <2>4. Current'
    BY <1>1, <2>1, <2>3, RotateFileOpens DEF Current, Reopening, Archiving
  <2> QED BY <2>2, <2>4 DEF IInv
<1>7. CASE RotationFails
  <2>1. /\ timer \in Reopening /\ timer' = "arm" /\ faults < MaxFaults /\ faults' = faults + 1
        /\ UNCHANGED <<file, openFiles, linked, opened, yesterday, log, gz, archived>>
    BY <1>7 DEF RotationFails, Fault, files, archives, Reopening, Archiving
  <2>2. faults' \in 0 .. MaxFaults /\ faults' # 0
    BY <2>1, StorageAssumption DEF IInv, TypeOK
  <2>3. TypeOK' /\ Late' /\ OnlyPastDaysArchived'
    BY <1>1, <2>1, <2>2 DEF IInv, TypeOK, Late, OnlyPastDaysArchived, Archiving
  <2>4. Current'
    BY <1>1, <2>1, <2>2 DEF IInv, Current, Reopening, Archiving
  <2> QED BY <2>3, <2>4 DEF IInv
<1>8. CASE StatFails
  <2>1. /\ timer = "close" /\ openFiles' = openFiles \ {file} /\ file' = NoFile /\ yesterday' = today - 1
        /\ timer' = "open" /\ faults < MaxFaults /\ faults' = faults + 1
        /\ UNCHANGED <<linked, opened, log, gz, archived>>
    BY <1>8 DEF StatFails, Fault, archives
  <2>2. yesterday' \in Days /\ faults' \in 0 .. MaxFaults /\ faults' # 0
    BY <1>1, <2>1, StorageAssumption DEF IInv, TypeOK, Late, Days
  <2>3. TypeOK' /\ Late' /\ OnlyPastDaysArchived'
    BY <1>1, <2>1, <2>2 DEF IInv, TypeOK, Late, OnlyPastDaysArchived, Archiving
  <2>4. Current'
    BY <1>1, <2>1, <2>2 DEF IInv, Current, Reopening, Archiving
  <2> QED BY <2>3, <2>4 DEF IInv
<1> QED BY <1>2, <1>3, <1>4, <1>5, <1>6, <1>7, <1>8

\* The clock goes on, or nothing happens.
LEMMA TickKeeps ==
    ASSUME IInv, Tick \/ UNCHANGED vars
    PROVE  IInv'
<1>1. /\ UNCHANGED <<file, openFiles, linked, opened, timer, midnight, yesterday, stopChan, stopper,
                     log, gz, archived, faults>>
      /\ today' \in Days /\ today' >= today
  BY StorageAssumption DEF IInv, TypeOK, Days, Tick, vars, files, archives, stop
<1>2. TypeOK' /\ OnlyPastDaysArchived'
  BY <1>1 DEF IInv, TypeOK, OnlyPastDaysArchived
<1>3. Current'
  BY <1>1 DEF IInv, Current
<1>4. Late'
  <2>1. today \in Nat /\ today' \in Nat /\ yesterday \in Nat
    BY <1>1, StorageAssumption DEF IInv, TypeOK, Days
  <2> QED BY <1>1, <2>1 DEF IInv, Late
<1> QED BY <1>2, <1>3, <1>4 DEF IInv

\* The invariant holds throughout.
THEOREM Invariance == Spec => []IInv
<1>1. IInv /\ [Next]_vars => IInv'
  BY WritesKeep, StopKeeps, TimerKeeps, RotationKeeps, TickKeeps DEF Next, Timer
<1> QED BY Initially, <1>1, PTL DEF Spec

(***************************************************************************)
(* What follows.                                                           *)
(***************************************************************************)
\* Every variable keeps its type; the day to archive is one there was.
THEOREM TypeCorrect == Spec => []TypeOK
<1>1. IInv => TypeOK
  BY DEF IInv
<1> QED BY <1>1, Invariance, PTL

\* However a rotation (storage.go 100-124) fails, no handle but s.file is open, and a message
\* is written to no file that has been removed.
THEOREM OpenIsLinked == Spec => []OnlyLinkedFileOpen
<1>1. IInv => OnlyLinkedFileOpen
  BY DEF IInv, Current, OnlyLinkedFileOpen, Rotating
<1> QED BY <1>1, Invariance, PTL

\* However late a rotation runs, it archives no day that is not over.
THEOREM PastDays == Spec => []OnlyPastDaysArchived
<1>1. IInv => OnlyPastDaysArchived
  BY DEF IInv
<1> QED BY <1>1, Invariance, PTL

\* When Stop (storage.go 43-57) has returned, no file is open, unless a call failed.
THEOREM NothingOpen == Spec => []NothingOpenAfterStop
<1>1. IInv => NothingOpenAfterStop
  BY DEF IInv, Current, NothingOpenAfterStop
<1> QED BY <1>1, Invariance, PTL

=============================================================================
