------------------------------- MODULE Storage ------------------------------
(***************************************************************************)
(* internal/storage: a log file per day, written by any goroutine and      *)
(* rotated by a timer goroutine at midnight UTC.  One mutex covers a whole *)
(* WriteMessage and a whole rotation; but the clock goes on during a       *)
(* rotation, which reads it twice, every system call may fail, and Stop    *)
(* must end a timer that may be waiting for the mutex.                     *)
(*                                                                         *)
(* A day is a number, a file or an archive the set of messages in it, a    *)
(* handle the record [id, date] of the day in its file name.  Start is     *)
(* called before everything else, Stop once.                               *)
(***************************************************************************)
EXTENDS Integers, FiniteSets

CONSTANTS
    Messages,
    MaxDay,     \* bound: the clock goes from day 0 to day MaxDay
    MaxFaults   \* bound: system calls that fail

ASSUME StorageAssumption == MaxDay \in Nat /\ MaxFaults \in Nat

Days   == 0 .. MaxDay
NoFile == [id |-> 0, date |-> -1]     \* file == nil

VARIABLES
    today,
    file,       \* s.file
    openFiles,  \* handles that are not closed
    linked,     \* handles whose file still has its name
    opened,     \* number of files opened
    timer,      \* the timer goroutine and its place in a rotation
    midnight,   \* the day that ends its wait
    yesterday,  \* the local of rotateAndCompress
    stopChan,   \* TRUE when closed
    stopper,    \* the caller of Stop
    log, gz,    \* contents of sbs_<day>.log and of its archive
    accepted,   \* history: <<m, d>> when WriteMessage(m) returned nil, file of day d
    archived,   \* history: day on which the archive of a day was made, -1: none
    faults

vars == <<today, file, openFiles, linked, opened, timer, midnight, yesterday, stopChan, stopper,
          log, gz, accepted, archived, faults>>

files    == <<file, openFiles, linked, opened>>
archives == <<gz, archived>>
stop     == <<stopChan, stopper>>

Init ==
    /\ today = 0
    /\ file = NoFile
    /\ openFiles = {} /\ linked = {}
    /\ opened = 0
    /\ timer = "off"
    /\ midnight = 0
    /\ yesterday = 0
    /\ stopChan = FALSE
    /\ stopper = "new"
    /\ log = [d \in Days |-> {}] /\ gz = [d \in Days |-> {}]
    /\ accepted = {}
    /\ archived = [d \in Days |-> -1]
    /\ faults = 0

Fault  == faults < MaxFaults /\ faults' = faults + 1

\* The rotation holds the mutex; so does Stop, after the timer has gone.
Rotating == timer \in {"close", "compress", "gzip", "remove", "open"}
Locked   == Rotating \/ stopper = "lock"

\* rotateFile: today's file, opened for appending, becomes the current one.
RotateFile ==
    LET f == [id |-> opened + 1, date |-> today] IN
    /\ opened' = opened + 1
    /\ file' = f
    /\ openFiles' = openFiles \cup {f}
    /\ linked' = linked \cup {f}

(***************************************************************************)
(* Start, WriteMessage, Stop.                                              *)
(***************************************************************************)
Start ==
    /\ stopper = "new"
    /\ RotateFile
    /\ timer' = "arm"
    /\ stopper' = "before"
    /\ UNCHANGED <<today, midnight, yesterday, stopChan, log, archives, accepted, faults>>

\* No file can be opened: an error, and no timer.
StartFails ==
    /\ stopper = "new"
    /\ Fault
    /\ stopper' = "before"
    /\ UNCHANGED <<today, files, timer, midnight, yesterday, stopChan, log, archives, accepted>>

\* The file receives m under its name, if it still has it.
Append(f, m) ==
    /\ log' = IF f \in linked' THEN [log EXCEPT ![f.date] = @ \cup {m}] ELSE log
    /\ accepted' = accepted \cup {<<m, f.date>>}

WriteMessage(m) ==
    /\ stopper # "new" /\ ~Locked
    /\ \A d \in Days : <<m, d>> \notin accepted
    /\ IF file = NoFile
       THEN RotateFile
       ELSE file \in openFiles /\ UNCHANGED files
    /\ Append(file', m)
    /\ UNCHANGED <<today, timer, midnight, yesterday, stop, archives, faults>>

\* No file and none can be opened, or the write fails; the error is returned.  A
\* write to the file that Stop has closed changes nothing.
WriteMessageFails ==
    /\ stopper # "new" /\ ~Locked
    /\ Fault
    /\ UNCHANGED files \/ (file = NoFile /\ RotateFile)
    /\ UNCHANGED <<today, timer, midnight, yesterday, stop, log, archives, accepted>>

StopBegins ==
    /\ stopper = "before"
    /\ stopChan' = TRUE
    /\ stopper' = "wait"
    /\ UNCHANGED <<today, files, timer, midnight, yesterday, log, archives, accepted, faults>>

\* Mutant: the mutex is taken before the wait.
StopLocksFirst ==
    /\ stopper = "wait" /\ ~Rotating
    /\ stopper' = "lock"
    /\ UNCHANGED <<today, files, timer, midnight, yesterday, stopChan, log, archives, accepted,
                   faults>>

\* wg.Wait, then the mutex.
StopLocks ==
    /\ stopper = "wait"
    /\ timer = "off"
    /\ stopper' = "lock"
    /\ UNCHANGED <<today, files, timer, midnight, yesterday, stopChan, log, archives, accepted,
                   faults>>

\* Mutant: s.file is cleared, so that the next message opens a file again.
StopCloseClears ==
    /\ stopper = "lock" /\ timer = "off"
    /\ openFiles' = openFiles \ {file}
    /\ file' = NoFile
    /\ stopper' = "returned"
    /\ UNCHANGED <<today, linked, opened, timer, midnight, yesterday, stopChan, log, archives,
                   accepted, faults>>

\* Closes the file if there is one, and leaves s.file as it is.
StopClose ==
    /\ stopper = "lock" /\ timer = "off"
    /\ openFiles' = openFiles \ {file}
    /\ stopper' = "returned"
    /\ UNCHANGED <<today, file, linked, opened, timer, midnight, yesterday, stopChan, log,
                   archives, accepted, faults>>

(***************************************************************************)
(* rotationTimer, rotateAndCompress and compressFile.                      *)
(***************************************************************************)
\* Mutant: one day too late.
ArmSkipsADay ==
    /\ timer = "arm"
    /\ midnight' = today + 2
    /\ timer' = "wait"
    /\ UNCHANGED <<today, files, yesterday, stop, log, archives, accepted, faults>>

Arm ==
    /\ timer = "arm"
    /\ midnight' = today + 1
    /\ timer' = "wait"
    /\ UNCHANGED <<today, files, yesterday, stop, log, archives, accepted, faults>>

TimerExits ==
    /\ timer = "wait"
    /\ stopChan
    /\ timer' = "off"
    /\ UNCHANGED <<today, files, midnight, yesterday, stop, log, archives, accepted, faults>>

\* With stopChan closed too, the select may choose either.
Fire ==
    /\ timer = "wait"
    /\ today >= midnight
    /\ timer' = "lock"
    /\ UNCHANGED <<today, files, midnight, yesterday, stop, log, archives, accepted, faults>>

Lock ==
    /\ timer = "lock" /\ ~Locked
    /\ timer' = "close"
    /\ UNCHANGED <<today, files, midnight, yesterday, stop, log, archives, accepted, faults>>

\* Mutant: the file stays open while its day is archived.
CloseForgotten ==
    /\ timer = "close"
    /\ yesterday' = today - 1
    /\ timer' = IF log[today - 1] = {} THEN "open" ELSE "compress"
    /\ UNCHANGED <<today, files, midnight, stop, log, archives, accepted, faults>>

\* Mutant: the day archived is the one before the next midnight.
CloseTakesToday ==
    /\ timer = "close"
    /\ openFiles' = openFiles \ {file}
    /\ file' = NoFile
    /\ yesterday' = today
    /\ timer' = "compress"
    /\ UNCHANGED <<today, linked, opened, midnight, stop, log, archives, accepted, faults>>

\* Close, whose error is only reported, and the date of yesterday; then Stat.  An
\* empty file is archived too, with nothing to lose.
Close ==
    /\ timer = "close"
    /\ openFiles' = openFiles \ {file}
    /\ file' = NoFile
    /\ yesterday' = today - 1
    /\ \E next \in {"compress", "open"} :
         /\ log[today - 1] # {} => next = "compress"
         /\ timer' = next
    /\ UNCHANGED <<today, linked, opened, midnight, stop, log, archives, accepted, faults>>

\* Stat fails, which is taken for a file that is not there.
StatFails ==
    /\ timer = "close"
    /\ Fault
    /\ openFiles' = openFiles \ {file}
    /\ file' = NoFile
    /\ yesterday' = today - 1
    /\ timer' = "open"
    /\ UNCHANGED <<today, linked, opened, midnight, stop, log, archives, accepted>>

\* os.Create of the archive.
Compress ==
    /\ timer = "compress"
    /\ gz' = [gz EXCEPT ![yesterday] = {}]
    /\ archived' = [archived EXCEPT ![yesterday] = today]
    /\ timer' = "gzip"
    /\ UNCHANGED <<today, files, midnight, yesterday, stop, log, accepted, faults>>

\* gzipWriter.Write([]byte{}): what is written is empty, whatever the file holds.
WriteArchive ==
    /\ timer = "gzip"
    /\ gz' = [gz EXCEPT ![yesterday] = {}]
    /\ timer' = "remove"
    /\ UNCHANGED <<today, files, midnight, yesterday, stop, log, archived, accepted, faults>>

Remove ==
    /\ timer = "remove"
    /\ log' = [log EXCEPT ![yesterday] = {}]
    /\ linked' = {f \in linked : f.date # yesterday}
    /\ timer' = "open"
    /\ UNCHANGED <<today, file, openFiles, opened, midnight, yesterday, stop, archives, accepted,
                   faults>>

Open ==
    /\ timer = "open"
    /\ RotateFile
    /\ timer' = "arm"
    /\ UNCHANGED <<today, midnight, yesterday, stop, log, archives, accepted, faults>>

\* Any of these calls fails: the rotation ends there, without a file, and the
\* timer waits for the next midnight.
RotationFails ==
    /\ timer \in {"compress", "gzip", "remove", "open"}
    /\ Fault
    /\ timer' = "arm"
    /\ UNCHANGED <<today, files, midnight, yesterday, stop, log, archives, accepted>>

Tick ==
    /\ today < MaxDay
    /\ today' = today + 1
    /\ UNCHANGED <<files, timer, midnight, yesterday, stop, log, archives, accepted, faults>>

Timer == \/ Arm \/ TimerExits \/ Fire \/ Lock \/ Close \/ Compress \/ WriteArchive \/ Remove
         \/ Open \/ StatFails \/ RotationFails
Stop  == StopLocks \/ StopClose

Next == Start \/ StartFails \/ (\E m \in Messages : WriteMessage(m)) \/ WriteMessageFails
        \/ StopBegins \/ Stop \/ Timer \/ Tick

Spec == Init /\ [][Next]_vars

\* Goroutines that can run do, and the mutex is granted in the end.
FairSpec == Spec /\ WF_vars(Timer) /\ WF_vars(Stop)

(***************************************************************************)
(* Safety.                                                                 *)
(***************************************************************************)
TypeOK ==
    /\ today \in Days /\ midnight \in 0 .. MaxDay + 1 /\ yesterday \in Days
    /\ timer \in {"off", "arm", "wait", "lock", "close", "compress", "gzip", "remove", "open"}
    /\ stopChan \in BOOLEAN
    /\ stopper \in {"new", "before", "wait", "lock", "returned"}
    /\ log \in [Days -> SUBSET Messages] /\ gz \in [Days -> SUBSET Messages]
    /\ archived \in [Days -> Days \cup {-1}]
    /\ faults \in 0 .. MaxFaults

\* Whichever step of a rotation failed before, no handle but s.file is open, and
\* outside a rotation s.file has its name: a message is never written to a file
\* that is gone (storage.go 100-124).
OnlyLinkedFileOpen ==
    /\ openFiles \subseteq {file}
    /\ ~Rotating /\ file # NoFile => file \in linked

\* A rotation touches only files of days that are over, however late it runs and
\* although the clock goes on while it does.
OnlyPastDaysArchived == \A d \in Days : archived[d] # -1 => archived[d] > d

\* While no call failed, no file is open once Stop has returned, whoever writes
\* afterwards.
NothingOpenAfterStop == stopper = "returned" /\ faults = 0 => openFiles = {}

\* The comment "Copy the contents" in compressFile (storage.go 191): a message in
\* the file of a day that was archived is in the archive or still in the file.
ArchiveHasContents == \A a \in accepted : a[1] \in log[a[2]] \cup gz[a[2]]

\* "Previous day's logs are automatically compressed" (README.md 383): when the timer
\* waits for the end of a day, no earlier day has a log left.  A rotation looks at one
\* day only, that before the clock's.
PastDaysLeaveNoLog ==
    timer = "wait" /\ faults = 0 => \A d \in Days : d < midnight - 1 => log[d] = {}

\* "Stop closes the current file" (storage.go 42): none is open from then on.  After a
\* rotation that failed there is none to close, and the next message opens one.
StopClosesForGood == stopper = "returned" => openFiles = {}

(***************************************************************************)
(* Liveness.                                                               *)
(***************************************************************************)
\* Stop returns, although the timer may need the mutex before it can see that it
\* has to end.
StopEnds == stopChan ~> stopper = "returned"
=============================================================================
