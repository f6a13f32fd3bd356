------------------------------- MODULE Logger -------------------------------
(***************************************************************************)
(* The daily log of cmd/logger/main.go.                                    *)
(*                                                                         *)
(* Three kinds of goroutine share a Logger: Start, which opens the first   *)
(* file; the NATS callbacks, which call WriteMessage; and rotationTimer,   *)
(* which takes a token from rotationChan, closes the file, archives it and *)
(* opens the next one.  WriteMessage reads currentFile and currentDate     *)
(* under the read lock and uses both after it has released the lock, so    *)
(* every step of a rotation may fall between that read and the write.      *)
(*                                                                         *)
(* A day is a number, a log file or an archive is the set of messages in   *)
(* it, and a *os.File is the record [id, date] of the handle and of the    *)
(* day in its file name.                                                   *)
(***************************************************************************)
EXTENDS Naturals, Integers, FiniteSets

CONSTANTS
    Messages,     \* what JetStream holds for the logger
    Writers,      \* goroutines inside WriteMessage; the program has one
    NoMessage,    \* the message of a writer that is idle
    MaxDay,       \* bound: the clock goes from day 0 to day MaxDay
    MaxFaults,    \* bound: system calls that fail
    MaxRestarts   \* bound: restarts of the process

ASSUME LoggerAssumption ==
    /\ MaxDay \in Nat
    /\ MaxFaults \in Nat
    /\ MaxRestarts \in Nat
    /\ NoMessage \notin Messages

Days   == 0 .. MaxDay
NoDate == -1
Files  == [id : Nat, date : Days \union {NoDate}]
NoFile == [id |-> 0, date |-> NoDate]
Calls  == [pc : {"idle", "check", "signal", "write", "land"},
           msg : Messages \union {NoMessage}, file : Files]
Idle   == [pc |-> "idle", msg |-> NoMessage, file |-> NoFile]

VARIABLES
    today,         \* time.Now().UTC() as a day
    proc,          \* "running", or "stopping" once a signal arrived
    start,         \* the Start goroutine: "pending", "ok" or "failed"
    timer,         \* the rotationTimer goroutine and its place in a rotation
    rotationChan,  \* tokens in the channel, 0 or 1
    current,       \* currentFile and currentDate, which are assigned together
    openFiles,     \* handles that have not been closed
    linked,        \* handles whose file still has its name in the directory
    opened,        \* number of files this process opened
    call,          \* each writer's place in WriteMessage and its locals
    delivered,     \* messages handed to the callback since the process started
    log,           \* content of sbs_<day>.log
    gz,            \* content of sbs_<day>.log.gz
    archived,      \* history: number of times sbs_<day>.log.gz was created
    data,          \* what compressFile read
    accepted,      \* history: <<m, d>> when WriteMessage(m) returned nil, file of day d
    overtaken,     \* history: writes in progress when their handle was closed
    faults, restarts

vars == <<today, proc, start, timer, rotationChan, current, openFiles, linked,
          opened, call, delivered, log, gz, archived, data, accepted, overtaken,
          faults, restarts>>

disk    == <<log, gz, archived>>
history == <<accepted, overtaken>>
files   == <<current, openFiles, linked, opened>>
ghosts  == <<faults, restarts>>

Init ==
    /\ today = 0
    /\ proc = "running"
    /\ start = "pending"
    /\ timer = "off"
    /\ rotationChan = 0
    /\ current = NoFile
    /\ openFiles = {}
    /\ linked = {}
    /\ opened = 0
    /\ call = [w \in Writers |-> Idle]
    /\ delivered = {}
    /\ log = [d \in Days |-> {}]
    /\ gz = [d \in Days |-> {}]
    /\ archived = [d \in Days |-> 0]
    /\ data = {}
    /\ accepted = {}
    /\ overtaken = {}
    /\ faults = 0
    /\ restarts = 0

(***************************************************************************)
(* Helpers.                                                                *)
(***************************************************************************)
\* rotateAndCompress holds the write lock from its first line to its return.
Locked == timer \in {"close", "compress", "gzip", "remove", "open"}

\* A system call that fails spends one of the MaxFaults faults.
Fault ==
    /\ faults < MaxFaults
    /\ faults' = faults + 1

\* Mutant: nothing to do when the day has not changed.
RotateFileSkipsSameDay ==
    LET f == [id |-> opened + 1, date |-> today] IN
    IF today = current.date
    THEN UNCHANGED files
    ELSE /\ opened' = opened + 1
         /\ current' = f
         /\ openFiles' = openFiles \union {f}
         /\ linked' = linked \union {f}

\* Mutant: the name is built from the date of the file before, when there is one.
RotateFileKeepsDate ==
    LET f == [id |-> opened + 1, date |-> IF current = NoFile THEN today ELSE current.date] IN
    /\ opened' = opened + 1
    /\ current' = f
    /\ openFiles' = openFiles \union {f}
    /\ linked' = linked \union {f}

\* rotateFile, when os.OpenFile succeeds: O_APPEND|O_CREATE leaves the content
\* of a file that is already there as it is.
RotateFile ==
    LET f == [id |-> opened + 1, date |-> today] IN
    /\ opened' = opened + 1
    /\ current' = f
    /\ openFiles' = openFiles \union {f}
    /\ linked' = linked \union {f}

(***************************************************************************)
(* Start, a goroutine of its own beside the subscription.                  *)
(***************************************************************************)
\* Mutant: the rotation timer is not started.
StartWithoutTimer ==
    /\ start = "pending"
    /\ start' = "ok"
    /\ timer' = "off"
    /\ RotateFile
    /\ UNCHANGED <<today, proc, rotationChan, call, delivered, disk, data, history, ghosts>>


StartOk ==
    /\ start = "pending"
    /\ start' = "ok"
    /\ timer' = "wait"
    /\ RotateFile
    /\ UNCHANGED <<today, proc, rotationChan, call, delivered, disk, data, history, ghosts>>

\* Without a first file Start returns and never starts the rotation timer.
StartFails ==
    /\ start = "pending"
    /\ start' = "failed"
    /\ Fault
    /\ UNCHANGED <<today, proc, timer, rotationChan, files, call, delivered, disk, data,
                   history, restarts>>

(***************************************************************************)
(* WriteMessage, called by the subscription callback.                      *)
(***************************************************************************)
\* The callback gets a message and reads the file and its date under RLock.
Deliver(w, m) ==
    /\ proc = "running"
    /\ call[w].pc = "idle"
    /\ m \in Messages \ delivered
    /\ ~Locked
    /\ delivered' = delivered \union {m}
    /\ call' = [call EXCEPT ![w] = [pc |-> "check", msg |-> m, file |-> current]]
    /\ UNCHANGED <<today, proc, start, timer, rotationChan, files, disk, data, history, ghosts>>

\* The date it read against the clock as it is now, after RUnlock.
Check(w) ==
    /\ call[w].pc = "check"
    /\ call' = [call EXCEPT ![w].pc = IF call[w].file.date # today
                                        THEN "signal" ELSE "write"]
    /\ UNCHANGED <<today, proc, start, timer, rotationChan, files, delivered, disk, data,
                   history, ghosts>>

\* Mutant: a channel whose capacity grows with the tokens.
SignalUnbounded(w) ==
    /\ call[w].pc = "signal"
    /\ rotationChan' = rotationChan + 1
    /\ call' = [call EXCEPT ![w].pc = "write"]
    /\ UNCHANGED <<today, proc, start, timer, files, delivered, disk, data, history, ghosts>>

\* rotationChan <- struct{}{}: the channel holds one token, a second one waits.
Signal(w) ==
    /\ call[w].pc = "signal"
    /\ rotationChan = 0
    /\ rotationChan' = 1
    /\ call' = [call EXCEPT ![w].pc = "write"]
    /\ UNCHANGED <<today, proc, start, timer, files, delivered, disk, data, history, ghosts>>

\* WriteString on the handle read earlier: the runtime pins an open handle...
BeginWrite(w) ==
    /\ call[w].pc = "write"
    /\ call[w].file \in openFiles
    /\ call' = [call EXCEPT ![w].pc = "land"]
    /\ UNCHANGED <<today, proc, start, timer, rotationChan, files, delivered, disk, data,
                   history, ghosts>>

\* ...and refuses a nil file (os.ErrInvalid) and a closed one (os.ErrClosed):
\* the message is dropped and only the error is logged.
WriteRefused(w) ==
    /\ call[w].pc = "write"
    /\ call[w].file \notin openFiles
    /\ call' = [call EXCEPT ![w] = Idle]
    /\ UNCHANGED <<today, proc, start, timer, rotationChan, files, delivered, disk, data,
                   history, ghosts>>

\* The bytes arrive.  Close of a regular file does not wait for a pinned write,
\* so this may come after the archive was read or after the file was removed.
Land(w) ==
    LET m == call[w].msg
        f == call[w].file IN
    /\ call[w].pc = "land"
    /\ log' = IF f \in linked THEN [log EXCEPT ![f.date] = @ \union {m}] ELSE log
    /\ accepted' = accepted \union {<<m, f.date>>}
    /\ call' = [call EXCEPT ![w] = Idle]
    /\ UNCHANGED <<today, proc, start, timer, rotationChan, files, delivered, gz, archived,
                   data, overtaken, ghosts>>

LandFails(w) ==
    /\ call[w].pc = "land"
    /\ Fault
    /\ call' = [call EXCEPT ![w] = Idle]
    /\ UNCHANGED <<today, proc, start, timer, rotationChan, files, delivered, disk, data,
                   history, restarts>>

(***************************************************************************)
(* rotationTimer, rotateAndCompress and compressFile.                      *)
(***************************************************************************)
TakeToken ==
    /\ timer = "wait"
    /\ rotationChan = 1
    /\ rotationChan' = 0
    /\ timer' = "close"
    /\ UNCHANGED <<today, proc, start, files, call, delivered, disk, data, history, ghosts>>

\* Writes that have pinned the handle outlive its Close.
InProgress ==
    {<<call[w].msg, call[w].file.date>> :
        w \in {v \in Writers : call[v].pc = "land" /\ call[v].file = current}}

\* Mutant: the rotation forgets to close the file.
CloseForgotten ==
    /\ timer = "close"
    /\ current \in openFiles
    /\ timer' = "compress"
    /\ UNCHANGED <<today, proc, start, rotationChan, files, call, delivered, disk, data,
                   history, ghosts>>


CloseCurrent ==
    /\ timer = "close"
    /\ current \in openFiles
    /\ openFiles' = openFiles \ {current}
    /\ overtaken' = overtaken \union InProgress
    /\ timer' = "compress"
    /\ UNCHANGED <<today, proc, start, rotationChan, current, linked, opened, call,
                   delivered, disk, data, accepted, ghosts>>

\* Close fails on a handle closed before, and the rotation ends there; it also
\* ends when close(2) reports an error, which closes the handle all the same.
CloseFails ==
    /\ timer = "close"
    /\ \/ /\ current \notin openFiles
          /\ UNCHANGED <<openFiles, overtaken, faults>>
       \/ /\ current \in openFiles
          /\ Fault
          /\ openFiles' = openFiles \ {current}
          /\ overtaken' = overtaken \union InProgress
    /\ timer' = "wait"
    /\ UNCHANGED <<today, proc, start, rotationChan, current, linked, opened, call,
                   delivered, disk, data, accepted, restarts>>

\* os.ReadFile of the log, then os.Create of the archive, which truncates an
\* archive of that day.
Compress ==
    /\ timer = "compress"
    /\ data' = log[current.date]
    /\ gz' = [gz EXCEPT ![current.date] = {}]
    /\ archived' = [archived EXCEPT ![current.date] = @ + 1]
    /\ timer' = "gzip"
    /\ UNCHANGED <<today, proc, start, rotationChan, files, call, delivered, log, history, ghosts>>

\* A failed ReadFile or Create only ends compressFile: the rotation goes on.
CompressFails ==
    /\ timer = "compress"
    /\ Fault
    /\ timer' = "open"
    /\ UNCHANGED <<today, proc, start, rotationChan, files, call, delivered, disk, data,
                   history, restarts>>

WriteArchive ==
    /\ timer = "gzip"
    /\ gz' = [gz EXCEPT ![current.date] = data]
    /\ data' = {}
    /\ timer' = "remove"
    /\ UNCHANGED <<today, proc, start, rotationChan, files, call, delivered, log, archived,
                   history, ghosts>>

\* Mutant: the error of the write is not looked at.
WriteArchiveErrorIgnored ==
    /\ timer = "gzip"
    /\ Fault
    /\ \E part \in SUBSET data : gz' = [gz EXCEPT ![current.date] = part]
    /\ data' = {}
    /\ timer' = "remove"
    /\ UNCHANGED <<today, proc, start, rotationChan, files, call, delivered, log, archived,
                   history, restarts>>

\* A short write leaves a part of the data and keeps the original.
WriteArchiveFails ==
    /\ timer = "gzip"
    /\ Fault
    /\ \E part \in SUBSET data : gz' = [gz EXCEPT ![current.date] = part]
    /\ data' = {}
    /\ timer' = "open"
    /\ UNCHANGED <<today, proc, start, rotationChan, files, call, delivered, log, archived,
                   history, restarts>>

RemoveOriginal ==
    /\ timer = "remove"
    /\ log' = [log EXCEPT ![current.date] = {}]
    /\ linked' = {f \in linked : f.date # current.date}
    /\ timer' = "open"
    /\ UNCHANGED <<today, proc, start, rotationChan, current, openFiles, opened, call,
                   delivered, gz, archived, data, history, ghosts>>

RemoveFails ==
    /\ timer = "remove"
    /\ Fault
    /\ timer' = "open"
    /\ UNCHANGED <<today, proc, start, rotationChan, files, call, delivered, disk, data,
                   history, restarts>>

Reopen ==
    /\ timer = "open"
    /\ RotateFile
    /\ timer' = "wait"
    /\ UNCHANGED <<today, proc, start, rotationChan, call, delivered, disk, data, history, ghosts>>

\* currentFile keeps the closed handle.
ReopenFails ==
    /\ timer = "open"
    /\ Fault
    /\ timer' = "wait"
    /\ UNCHANGED <<today, proc, start, rotationChan, files, call, delivered, disk, data,
                   history, restarts>>

(***************************************************************************)
(* The process and the clock.                                              *)
(***************************************************************************)
\* SIGTERM: the client is closed, so no callback starts, and the context is
\* cancelled; goroutines that are running go on until the process exits.
Shutdown ==
    /\ proc = "running"
    /\ proc' = "stopping"
    /\ UNCHANGED <<today, start, timer, rotationChan, files, call, delivered, disk, data,
                   history, ghosts>>

\* ctx.Done() in the select; with a token waiting too, either may be chosen.
TimerExit ==
    /\ proc = "stopping"
    /\ timer = "wait"
    /\ timer' = "off"
    /\ UNCHANGED <<today, proc, start, rotationChan, files, call, delivered, disk, data,
                   history, ghosts>>

\* The process ends, killed or after its last second, and a new one starts: the
\* files stay; its new ephemeral consumer is handed the stream from the start.
Restart ==
    /\ restarts < MaxRestarts
    /\ restarts' = restarts + 1
    /\ proc' = "running"
    /\ start' = "pending"
    /\ timer' = "off"
    /\ rotationChan' = 0
    /\ current' = NoFile
    /\ openFiles' = {}
    /\ linked' = {}
    /\ opened' = 0
    /\ call' = [w \in Writers |-> Idle]
    /\ delivered' = {}
    /\ data' = {}
    /\ UNCHANGED <<today, disk, history, faults>>

Tick ==
    /\ today < MaxDay
    /\ today' = today + 1
    /\ UNCHANGED <<proc, start, timer, rotationChan, files, call, delivered, disk, data,
                   history, ghosts>>

(***************************************************************************)
(* The specification.                                                      *)
(***************************************************************************)
Starting   == StartOk \/ StartFails
Writing(w) == \/ Check(w) \/ Signal(w) \/ BeginWrite(w) \/ WriteRefused(w)
              \/ Land(w) \/ LandFails(w)
Rotating   == \/ TakeToken \/ CloseCurrent \/ CloseFails \/ Compress \/ CompressFails
              \/ WriteArchive \/ WriteArchiveFails \/ RemoveOriginal \/ RemoveFails
              \/ Reopen \/ ReopenFails

Next ==
    \/ Starting
    \/ \E w \in Writers : Writing(w) \/ (\E m \in Messages : Deliver(w, m))
    \/ Rotating
    \/ Shutdown \/ TimerExit \/ Restart \/ Tick

Spec == Init /\ [][Next]_vars

\* Goroutines that can run do run.  Nothing obliges a message to arrive, the
\* clock to reach the next day or the process to stop.
FairSpec ==
    /\ Spec
    /\ WF_vars(Starting)
    /\ WF_vars(Rotating)
    /\ \A w \in Writers : WF_vars(Writing(w))

(***************************************************************************)
(* Safety.                                                                 *)
(***************************************************************************)
\* Every variable keeps its type; rotationChan is the only one with a capacity
\* in the code (NewLogger's make(chan struct{}, 1)).
TypeOK ==
    /\ today \in Days
    /\ proc \in {"running", "stopping"}
    /\ start \in {"pending", "ok", "failed"}
    /\ timer \in {"off", "wait", "close", "compress", "gzip", "remove", "open"}
    /\ rotationChan \in 0 .. 1
    /\ current \in Files
    /\ openFiles \in SUBSET Files
    /\ linked \in SUBSET Files
    /\ opened \in Nat
    /\ call \in [Writers -> Calls]
    /\ delivered \in SUBSET Messages
    /\ log \in [Days -> SUBSET Messages]
    /\ gz \in [Days -> SUBSET Messages]
    /\ archived \in [Days -> Nat]
    /\ data \in SUBSET Messages
    /\ accepted \in SUBSET (Messages \X Days)
    /\ overtaken \in SUBSET (Messages \X Days)
    /\ faults \in Nat
    /\ restarts \in Nat

\* The log of day d or its archive holds message m.
Kept(m, d) == m \in log[d] \/ m \in gz[d]

\* A message for which WriteMessage returned nil is in that day's log or in
\* its archive, whatever call failed and wherever the process was killed in
\* closing, archiving, removing and reopening (main.go 157-231) - unless the
\* day's archive was created a second time, or the write was overtaken by the
\* Close of its own handle.
AcceptedSurvivesOneArchive ==
    \A a \in accepted : Kept(a[1], a[2]) \/ archived[a[2]] >= 2 \/ a \in overtaken

\* Rotation never leaks a handle: whatever failed, the only file that can be
\* open is the one currentFile points to (main.go 162-166 and 193).
OpenFilesOnlyCurrent == openFiles \subseteq {current}

\* While no call has failed, the file that WriteMessage reads under the lock is
\* open and has its name in the directory: nothing shows a writer the handle of
\* a rotation that is half done (the write lock of main.go 158-159).
CurrentFileWritable ==
    faults = 0 /\ start = "ok" /\ ~Locked => current \in openFiles /\ current \in linked

(***************************************************************************)
(* What comments of the code say of rotation and does not hold.            *)
(***************************************************************************)
\* main.go 155: a rotation "compresses the previous day's log".
OnlyPastDaysArchived == \A d \in Days : archived[d] > 0 => d < today

\* README.md 383: "Previous day's logs are automatically compressed".  A message
\* in a log, whose write was not overtaken, is not destroyed by archiving.
ArchivingKeepsMessages ==
    \A a \in accepted \ overtaken : Kept(a[1], a[2])

\* main.go 121: WriteMessage "writes a message to the current log file".  A
\* message handed over once Start opened a file is not refused unless some
\* call failed.
DeliveredIsLogged ==
    [][ \A w \in Writers :
          call[w].pc = "write" /\ call[w].file # NoFile /\ faults = 0
          /\ restarts' = restarts
            => call'[w].pc # "idle" ]_vars

\* main.go 155-156: rotateAndCompress "closes the current file, [...] and
\* creates a new log file".  A rotation that gives up does so for a call that
\* failed in it, not for one that failed on an earlier day.
AbandonedOnlyOnFault ==
    [][ Locked /\ timer' = "wait" /\ current' = current => faults' # faults ]_vars

(***************************************************************************)
(* Liveness.                                                               *)
(***************************************************************************)
\* WriteMessage returns, so the subscription goes on to the next message,
\* although it may wait for a rotation in between - unless Start failed and
\* left nobody to take tokens, or the process is stopping.
CallsReturn ==
    \A w \in Writers :
        call[w].pc # "idle" ~> call[w].pc = "idle" \/ start = "failed" \/ proc = "stopping"

\* Once a token was sent after the end of the current file's day, the timer takes it
\* and the logger moves on to a newer file - unless a call fails, or the process ends.
RotationHappens ==
    \A d \in Days :
        rotationChan = 1 /\ current.date = d /\ d < today /\ start = "ok"
            ~> current.date > d \/ faults > 0 \/ proc = "stopping" \/ start = "pending"

=============================================================================
