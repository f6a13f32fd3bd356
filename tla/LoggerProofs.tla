---------------------------- MODULE LoggerProofs ----------------------------
(***************************************************************************)
(* What holds of the logger for any set of messages, number of writers,    *)
(* days, failed calls and restarts.                                        *)
(*                                                                         *)
(* IInv is the inductive invariant.  Beside the types it says which        *)
(* handles can be open at each place of a rotation (Handles), that a       *)
(* pinned write is either into the open file or was recorded as overtaken  *)
(* (Pinned), that a day whose archive was never created has none           *)
(* (Untouched), and where a message of the file being archived is found    *)
(* between two steps of the rotation (Secured).                            *)
(***************************************************************************)
EXTENDS Logger, TLAPS

\* Places of a rotation between the Close of the old file and the next one.
Closed == timer \in {"compress", "gzip", "remove", "open"}

Handles ==
    /\ openFiles \subseteq {current}
    /\ openFiles \subseteq linked
    /\ \A f \in openFiles : f.date \in Days
    /\ start = "pending" => timer = "off" /\ openFiles = {}
    /\ timer # "off" => current.date \in Days
    /\ Closed => openFiles = {}

Usable == faults = 0 /\ start = "ok" /\ ~Closed => current \in openFiles

Pinned ==
    \A w \in Writers :
        /\ call[w].pc # "idle" => call[w].msg \in Messages
        /\ call[w].pc = "land" =>
              /\ call[w].file.date \in Days
              /\ \/ call[w].file \in openFiles
                 \/ <<call[w].msg, call[w].file.date>> \in overtaken

Untouched == \A d \in Days : archived[d] = 0 => gz[d] = {}

\* Lost in one of the two ways that AcceptedSurvivesOneArchive excepts.
Excepted(a) == archived[a[2]] >= 2 \/ a \in overtaken

Secured ==
    /\ timer = "gzip" =>
          /\ archived[current.date] # 0
          /\ data \subseteq log[current.date]
          /\ \A a \in accepted : a[2] = current.date => a[1] \in data \/ Excepted(a)
    /\ timer = "remove" =>
          \A a \in accepted : a[2] = current.date => a[1] \in gz[current.date] \/ Excepted(a)

IInv ==
    /\ TypeOK
    /\ Handles
    /\ Usable
    /\ Pinned
    /\ Untouched
    /\ AcceptedSurvivesOneArchive
    /\ Secured

\* The writes in progress are of messages, into files of days.
LEMMA InProgressType == Pinned => InProgress \subseteq Messages \X Days
BY DEF Pinned, InProgress

\* Every step keeps the types.
LEMMA TypeStep ==
    LoggerAssumption /\ TypeOK /\ Handles /\ Pinned /\ [Next]_vars => TypeOK'
<1> SUFFICES ASSUME LoggerAssumption, TypeOK, Handles, Pinned, [Next]_vars PROVE TypeOK'
    OBVIOUS
<1> USE DEF TypeOK, disk, history, files, ghosts, Fault, RotateFile, Files, Calls, Idle,
   NoFile, LoggerAssumption
<1>1. CASE StartOk
    BY <1>1 DEF StartOk
<1>2. CASE StartFails
    BY <1>2 DEF StartFails
<1>3. CASE Tick
  <2>1. today' \in Days
      BY <1>3 DEF Tick, Days
  <2> QED
      BY <2>1, <1>3 DEF Tick
<1>4. CASE TakeToken
    BY <1>4 DEF TakeToken
<1>5. CASE CloseCurrent
    BY <1>5, InProgressType DEF CloseCurrent
<1>6. CASE CloseFails
  <2>1. overtaken' \in SUBSET (Messages \X Days)
      BY <1>6, InProgressType DEF CloseFails
  <2>2. openFiles' \in SUBSET Files /\ faults' \in Nat
      BY <1>6 DEF CloseFails
  <2> QED
      BY <2>1, <2>2, <1>6 DEF CloseFails
<1>7. CASE Compress
  <2>0. current.date \in Days
      BY <1>7 DEF Compress, Handles
  <2>1. archived' \in [Days -> Nat]
      BY <2>0, <1>7 DEF Compress
  <2>2. gz' \in [Days -> SUBSET Messages]
      BY <1>7 DEF Compress
  <2>3. data' \in SUBSET Messages
      BY <2>0, <1>7 DEF Compress
  <2> QED
      BY <2>1, <2>2, <2>3, <1>7 DEF Compress
<1>8. CASE CompressFails
    BY <1>8 DEF CompressFails
<1>9. CASE WriteArchive
    BY <1>9 DEF WriteArchive
<1>10. CASE WriteArchiveFails
  <2>1. PICK part \in SUBSET data : gz' = [gz EXCEPT ![current.date] = part]
      BY <1>10 DEF WriteArchiveFails
  <2>2. gz' \in [Days -> SUBSET Messages]
      BY <2>1
  <2> QED
      BY <2>2, <1>10 DEF WriteArchiveFails
<1>11. CASE RemoveOriginal
    BY <1>11 DEF RemoveOriginal
<1>12. CASE RemoveFails
    BY <1>12 DEF RemoveFails
<1>13. CASE Reopen
    BY <1>13 DEF Reopen
<1>14. CASE ReopenFails
    BY <1>14 DEF ReopenFails
<1>15. CASE Shutdown
    BY <1>15 DEF Shutdown
<1>16. CASE TimerExit
    BY <1>16 DEF TimerExit
<1>17. CASE Restart
    BY <1>17 DEF Restart
<1>18. ASSUME NEW w \in Writers, NEW m \in Messages, Deliver(w, m) PROVE TypeOK'
    BY <1>18 DEF Deliver
<1>19. ASSUME NEW w \in Writers, Check(w) PROVE TypeOK'
  <2>1. call' \in [Writers -> Calls]
      BY <1>19 DEF Check
  <2> QED
      BY <2>1, <1>19 DEF Check
<1>20. ASSUME NEW w \in Writers, Signal(w) PROVE TypeOK'
  <2>1. call' \in [Writers -> Calls]
      BY <1>20, SMTT(30) DEF Signal
  <2> QED
      BY <2>1, <1>20 DEF Signal
<1>21. ASSUME NEW w \in Writers, BeginWrite(w) PROVE TypeOK'
  <2>1. call' \in [Writers -> Calls]
      BY <1>21 DEF BeginWrite
  <2> QED
      BY <2>1, <1>21 DEF BeginWrite
<1>22. ASSUME NEW w \in Writers, WriteRefused(w) PROVE TypeOK'
    BY <1>22 DEF WriteRefused
<1>23. ASSUME NEW w \in Writers, Land(w) PROVE TypeOK'
  <2>1. call[w].msg \in Messages /\ call[w].file.date \in Days
      BY <1>23 DEF Land, Pinned
  <2>2. log' \in [Days -> SUBSET Messages]
      BY <2>1, <1>23 DEF Land
  <2>3. accepted' \in SUBSET (Messages \X Days)
      BY <2>1, <1>23 DEF Land
  <2>4. call' \in [Writers -> Calls]
      BY <1>23 DEF Land
  <2> QED
      BY <2>2, <2>3, <2>4, <1>23 DEF Land
<1>24. ASSUME NEW w \in Writers, LandFails(w) PROVE TypeOK'
    BY <1>24 DEF LandFails
<1>25. CASE UNCHANGED vars
    BY <1>25 DEF vars
<1> QED
    BY <1>1, <1>2, <1>3, <1>4, <1>5, <1>6, <1>7, <1>8, <1>9, <1>10, <1>11, <1>12, <1>13,
       <1>14, <1>15, <1>16, <1>17, <1>18, <1>19, <1>20, <1>21, <1>22, <1>23, <1>24, <1>25
       DEF Next, Starting, Writing, Rotating

\* Every step keeps the claims about handles.
LEMMA HandlesStep ==
    LoggerAssumption /\ TypeOK /\ Handles /\ [Next]_vars => Handles'
<1> SUFFICES ASSUME LoggerAssumption, TypeOK, Handles, [Next]_vars PROVE Handles'
    OBVIOUS
<1> USE DEF TypeOK, Handles, Closed, disk, history, files, ghosts, RotateFile, Files, NoFile
<1>1. CASE StartOk
    BY <1>1 DEF StartOk
<1>2. CASE StartFails
    BY <1>2 DEF StartFails
<1>3. CASE Tick
    BY <1>3 DEF Tick
<1>4. CASE TakeToken
    BY <1>4 DEF TakeToken
<1>5. CASE CloseCurrent
    BY <1>5 DEF CloseCurrent
<1>6. CASE CloseFails
    BY <1>6 DEF CloseFails
<1>7. CASE Compress
    BY <1>7 DEF Compress
<1>8. CASE CompressFails
    BY <1>8 DEF CompressFails
<1>9. CASE WriteArchive
    BY <1>9 DEF WriteArchive
<1>10. CASE WriteArchiveFails
    BY <1>10 DEF WriteArchiveFails
<1>11. CASE RemoveOriginal
    BY <1>11 DEF RemoveOriginal
<1>12. CASE RemoveFails
    BY <1>12 DEF RemoveFails
<1>13. CASE Reopen
    BY <1>13 DEF Reopen
<1>14. CASE ReopenFails
    BY <1>14 DEF ReopenFails
<1>15. CASE Shutdown
    BY <1>15 DEF Shutdown
<1>16. CASE TimerExit
    BY <1>16 DEF TimerExit
<1>17. CASE Restart
    BY <1>17 DEF Restart
<1>18. ASSUME NEW w \in Writers, NEW m \in Messages, Deliver(w, m) PROVE Handles'
    BY <1>18 DEF Deliver
<1>19. ASSUME NEW w \in Writers, Check(w) PROVE Handles'
    BY <1>19 DEF Check
<1>20. ASSUME NEW w \in Writers, Signal(w) PROVE Handles'
    BY <1>20 DEF Signal
<1>21. ASSUME NEW w \in Writers, BeginWrite(w) PROVE Handles'
    BY <1>21 DEF BeginWrite
<1>22. ASSUME NEW w \in Writers, WriteRefused(w) PROVE Handles'
    BY <1>22 DEF WriteRefused
<1>23. ASSUME NEW w \in Writers, Land(w) PROVE Handles'
    BY <1>23 DEF Land
<1>24. ASSUME NEW w \in Writers, LandFails(w) PROVE Handles'
    BY <1>24 DEF LandFails
<1>25. CASE UNCHANGED vars
    BY <1>25 DEF vars
<1> QED
    BY <1>1, <1>2, <1>3, <1>4, <1>5, <1>6, <1>7, <1>8, <1>9, <1>10, <1>11, <1>12, <1>13,
       <1>14, <1>15, <1>16, <1>17, <1>18, <1>19, <1>20, <1>21, <1>22, <1>23, <1>24, <1>25
       DEF Next, Starting, Writing, Rotating

\* While nothing failed, the current file is open outside of a rotation.
LEMMA UsableStep ==
    LoggerAssumption /\ TypeOK /\ Handles /\ Usable /\ [Next]_vars => Usable'
<1> SUFFICES ASSUME LoggerAssumption, TypeOK, Handles, Usable, [Next]_vars PROVE Usable'
    OBVIOUS
<1> USE DEF TypeOK, Usable, Closed, Fault, RotateFile, Handles, disk, history, files, ghosts
<1>1. CASE StartOk
    BY <1>1 DEF StartOk
<1>2. CASE StartFails
    BY <1>2 DEF StartFails
<1>3. CASE Tick
    BY <1>3 DEF Tick
<1>4. CASE TakeToken
    BY <1>4 DEF TakeToken
<1>5. CASE CloseCurrent
    BY <1>5 DEF CloseCurrent
<1>6. CASE CloseFails
    BY <1>6 DEF CloseFails
<1>7. CASE Compress
    BY <1>7 DEF Compress
<1>8. CASE CompressFails
    BY <1>8 DEF CompressFails
<1>9. CASE WriteArchive
    BY <1>9 DEF WriteArchive
<1>10. CASE WriteArchiveFails
    BY <1>10 DEF WriteArchiveFails
<1>11. CASE RemoveOriginal
    BY <1>11 DEF RemoveOriginal
<1>12. CASE RemoveFails
    BY <1>12 DEF RemoveFails
<1>13. CASE Reopen
    BY <1>13 DEF Reopen
<1>14. CASE ReopenFails
    BY <1>14 DEF ReopenFails
<1>15. CASE Shutdown
    BY <1>15 DEF Shutdown
<1>16. CASE TimerExit
    BY <1>16 DEF TimerExit
<1>17. CASE Restart
    BY <1>17 DEF Restart
<1>18. ASSUME NEW w \in Writers, NEW m \in Messages, Deliver(w, m) PROVE Usable'
    BY <1>18 DEF Deliver
<1>19. ASSUME NEW w \in Writers, Check(w) PROVE Usable'
    BY <1>19 DEF Check
<1>20. ASSUME NEW w \in Writers, Signal(w) PROVE Usable'
    BY <1>20 DEF Signal
<1>21. ASSUME NEW w \in Writers, BeginWrite(w) PROVE Usable'
    BY <1>21 DEF BeginWrite
<1>22. ASSUME NEW w \in Writers, WriteRefused(w) PROVE Usable'
    BY <1>22 DEF WriteRefused
<1>23. ASSUME NEW w \in Writers, Land(w) PROVE Usable'
    BY <1>23 DEF Land
<1>24. ASSUME NEW w \in Writers, LandFails(w) PROVE Usable'
    BY <1>24 DEF LandFails
<1>25. CASE UNCHANGED vars
    BY <1>25 DEF vars
<1> QED
    BY <1>1, <1>2, <1>3, <1>4, <1>5, <1>6, <1>7, <1>8, <1>9, <1>10, <1>11, <1>12, <1>13,
       <1>14, <1>15, <1>16, <1>17, <1>18, <1>19, <1>20, <1>21, <1>22, <1>23, <1>24, <1>25
       DEF Next, Starting, Writing, Rotating

\* A pinned write goes to the open file or is recorded as overtaken.
LEMMA PinnedStep ==
    LoggerAssumption /\ TypeOK /\ Handles /\ Pinned /\ [Next]_vars => Pinned'
<1> SUFFICES ASSUME LoggerAssumption, TypeOK, Handles, Pinned, [Next]_vars PROVE Pinned'
    OBVIOUS
<1> USE DEF TypeOK, Pinned, Handles, Closed, RotateFile, InProgress, Idle, disk, history,
   files, ghosts
<1>1. CASE StartOk
    BY <1>1 DEF StartOk
<1>2. CASE StartFails
    BY <1>2 DEF StartFails
<1>3. CASE Tick
    BY <1>3 DEF Tick
<1>4. CASE TakeToken
    BY <1>4 DEF TakeToken
<1>5. CASE CloseCurrent
    BY <1>5 DEF CloseCurrent
<1>6. CASE CloseFails
    BY <1>6 DEF CloseFails
<1>7. CASE Compress
    BY <1>7 DEF Compress
<1>8. CASE CompressFails
    BY <1>8 DEF CompressFails
<1>9. CASE WriteArchive
    BY <1>9 DEF WriteArchive
<1>10. CASE WriteArchiveFails
    BY <1>10 DEF WriteArchiveFails
<1>11. CASE RemoveOriginal
    BY <1>11 DEF RemoveOriginal
<1>12. CASE RemoveFails
    BY <1>12 DEF RemoveFails
<1>13. CASE Reopen
    BY <1>13 DEF Reopen
<1>14. CASE ReopenFails
    BY <1>14 DEF ReopenFails
<1>15. CASE Shutdown
    BY <1>15 DEF Shutdown
<1>16. CASE TimerExit
    BY <1>16 DEF TimerExit
<1>17. CASE Restart
    BY <1>17 DEF Restart
<1>18. ASSUME NEW w \in Writers, NEW m \in Messages, Deliver(w, m) PROVE Pinned'
    BY <1>18 DEF Deliver
<1>19. ASSUME NEW w \in Writers, Check(w) PROVE Pinned'
    BY <1>19 DEF Check
<1>20. ASSUME NEW w \in Writers, Signal(w) PROVE Pinned'
    BY <1>20 DEF Signal
<1>21. ASSUME NEW w \in Writers, BeginWrite(w) PROVE Pinned'
    BY <1>21 DEF BeginWrite
<1>22. ASSUME NEW w \in Writers, WriteRefused(w) PROVE Pinned'
    BY <1>22 DEF WriteRefused
<1>23. ASSUME NEW w \in Writers, Land(w) PROVE Pinned'
    BY <1>23 DEF Land
<1>24. ASSUME NEW w \in Writers, LandFails(w) PROVE Pinned'
    BY <1>24 DEF LandFails
<1>25. CASE UNCHANGED vars
    BY <1>25 DEF vars
<1> QED
    BY <1>1, <1>2, <1>3, <1>4, <1>5, <1>6, <1>7, <1>8, <1>9, <1>10, <1>11, <1>12, <1>13,
       <1>14, <1>15, <1>16, <1>17, <1>18, <1>19, <1>20, <1>21, <1>22, <1>23, <1>24, <1>25
       DEF Next, Starting, Writing, Rotating

\* A day whose archive was never created has none.
LEMMA UntouchedStep ==
    LoggerAssumption /\ TypeOK /\ Untouched /\ Secured /\ [Next]_vars => Untouched'
<1> SUFFICES ASSUME LoggerAssumption, TypeOK, Untouched, Secured, [Next]_vars PROVE Untouched'
    OBVIOUS
<1> USE DEF TypeOK, Untouched, Secured, disk, history, files, ghosts
<1>1. CASE StartOk
    BY <1>1 DEF StartOk
<1>2. CASE StartFails
    BY <1>2 DEF StartFails
<1>3. CASE Tick
    BY <1>3 DEF Tick
<1>4. CASE TakeToken
    BY <1>4 DEF TakeToken
<1>5. CASE CloseCurrent
    BY <1>5 DEF CloseCurrent
<1>6. CASE CloseFails
    BY <1>6 DEF CloseFails
<1>7. CASE Compress
    BY <1>7 DEF Compress
<1>8. CASE CompressFails
    BY <1>8 DEF CompressFails
<1>9. CASE WriteArchive
    BY <1>9 DEF WriteArchive
<1>10. CASE WriteArchiveFails
    BY <1>10 DEF WriteArchiveFails
<1>11. CASE RemoveOriginal
    BY <1>11 DEF RemoveOriginal
<1>12. CASE RemoveFails
    BY <1>12 DEF RemoveFails
<1>13. CASE Reopen
    BY <1>13 DEF Reopen
<1>14. CASE ReopenFails
    BY <1>14 DEF ReopenFails
<1>15. CASE Shutdown
    BY <1>15 DEF Shutdown
<1>16. CASE TimerExit
    BY <1>16 DEF TimerExit
<1>17. CASE Restart
    BY <1>17 DEF Restart
<1>18. ASSUME NEW w \in Writers, NEW m \in Messages, Deliver(w, m) PROVE Untouched'
    BY <1>18 DEF Deliver
<1>19. ASSUME NEW w \in Writers, Check(w) PROVE Untouched'
    BY <1>19 DEF Check
<1>20. ASSUME NEW w \in Writers, Signal(w) PROVE Untouched'
    BY <1>20 DEF Signal
<1>21. ASSUME NEW w \in Writers, BeginWrite(w) PROVE Untouched'
    BY <1>21 DEF BeginWrite
<1>22. ASSUME NEW w \in Writers, WriteRefused(w) PROVE Untouched'
    BY <1>22 DEF WriteRefused
<1>23. ASSUME NEW w \in Writers, Land(w) PROVE Untouched'
    BY <1>23 DEF Land
<1>24. ASSUME NEW w \in Writers, LandFails(w) PROVE Untouched'
    BY <1>24 DEF LandFails
<1>25. CASE UNCHANGED vars
    BY <1>25 DEF vars
<1> QED
    BY <1>1, <1>2, <1>3, <1>4, <1>5, <1>6, <1>7, <1>8, <1>9, <1>10, <1>11, <1>12, <1>13,
       <1>14, <1>15, <1>16, <1>17, <1>18, <1>19, <1>20, <1>21, <1>22, <1>23, <1>24, <1>25
       DEF Next, Starting, Writing, Rotating

\* No step loses an accepted message but in the two excepted ways.
LEMMA SurvivesStep ==
    LoggerAssumption /\ TypeOK /\ Handles /\ Pinned /\ Untouched /\ Secured /\
       AcceptedSurvivesOneArchive /\ [Next]_vars => AcceptedSurvivesOneArchive'
<1> SUFFICES ASSUME LoggerAssumption, TypeOK, Handles, Pinned, Untouched, Secured,
   AcceptedSurvivesOneArchive, [Next]_vars PROVE AcceptedSurvivesOneArchive'
    OBVIOUS
<1> USE DEF TypeOK, AcceptedSurvivesOneArchive, Kept, disk, history, files, ghosts
<1>1. CASE StartOk
    BY <1>1 DEF StartOk
<1>2. CASE StartFails
    BY <1>2 DEF StartFails
<1>3. CASE Tick
    BY <1>3 DEF Tick
<1>4. CASE TakeToken
    BY <1>4 DEF TakeToken
<1>5. CASE CloseCurrent
    BY <1>5 DEF CloseCurrent
<1>6. CASE CloseFails
    BY <1>6 DEF CloseFails
<1>7. CASE Compress
  <2> SUFFICES ASSUME NEW a \in accepted
               PROVE  Kept(a[1], a[2])' \/ archived'[a[2]] >= 2 \/ a \in overtaken'
      BY <1>7 DEF Compress
  <2>0. a[2] \in Days /\ archived[a[2]] \in Nat /\ current.date \in Days
      BY <1>7 DEF Compress, Handles
  <2>1. CASE a[2] # current.date
      BY <2>0, <2>1, <1>7 DEF Compress
  <2>2. CASE a[2] = current.date /\ archived[a[2]] = 0
      BY <2>0, <2>2, <1>7 DEF Compress, Untouched
  <2>3. CASE a[2] = current.date /\ archived[a[2]] # 0
  <3>1. archived'[a[2]] = archived[a[2]] + 1
    BY <2>0, <2>3, <1>7 DEF Compress
  <3> QED
    BY <2>0, <2>3, <3>1
  <2> QED
      BY <2>1, <2>2, <2>3
<1>8. CASE CompressFails
    BY <1>8 DEF CompressFails
<1>9. CASE WriteArchive
  <2> SUFFICES ASSUME NEW a \in accepted
               PROVE  Kept(a[1], a[2])' \/ archived'[a[2]] >= 2 \/ a \in overtaken'
      BY <1>9 DEF WriteArchive
  <2>0. a[2] \in Days /\ current.date \in Days
      BY <1>9 DEF WriteArchive, Handles
  <2>1. CASE a[2] # current.date
      BY <2>0, <2>1, <1>9 DEF WriteArchive
  <2>2. CASE a[2] = current.date
      BY <2>0, <2>2, <1>9 DEF WriteArchive, Secured, Excepted
  <2> QED
      BY <2>1, <2>2
<1>10. CASE WriteArchiveFails
  <2> SUFFICES ASSUME NEW a \in accepted
               PROVE  Kept(a[1], a[2])' \/ archived'[a[2]] >= 2 \/ a \in overtaken'
      BY <1>10 DEF WriteArchiveFails
  <2>0. a[2] \in Days /\ current.date \in Days
      BY <1>10 DEF WriteArchiveFails, Handles
  <2>1. PICK part \in SUBSET data : gz' = [gz EXCEPT ![current.date] = part]
      BY <1>10 DEF WriteArchiveFails
  <2>2. CASE a[2] # current.date
      BY <2>0, <2>1, <2>2, <1>10 DEF WriteArchiveFails
  <2>3. CASE a[2] = current.date /\ a[1] \in log[a[2]]
      BY <2>3, <1>10 DEF WriteArchiveFails
  <2>4. CASE a[2] = current.date /\ a[1] \notin log[a[2]]
      BY <2>0, <2>4, <1>10 DEF WriteArchiveFails, Secured, Excepted
  <2> QED
      BY <2>2, <2>3, <2>4
<1>11. CASE RemoveOriginal
  <2> SUFFICES ASSUME NEW a \in accepted
               PROVE  Kept(a[1], a[2])' \/ archived'[a[2]] >= 2 \/ a \in overtaken'
      BY <1>11 DEF RemoveOriginal
  <2>0. a[2] \in Days /\ current.date \in Days
      BY <1>11 DEF RemoveOriginal, Handles
  <2>1. CASE a[2] # current.date
      BY <2>0, <2>1, <1>11 DEF RemoveOriginal
  <2>2. CASE a[2] = current.date
      BY <2>0, <2>2, <1>11 DEF RemoveOriginal, Secured, Excepted
  <2> QED
      BY <2>1, <2>2
<1>12. CASE RemoveFails
    BY <1>12 DEF RemoveFails
<1>13. CASE Reopen
    BY <1>13 DEF Reopen
<1>14. CASE ReopenFails
    BY <1>14 DEF ReopenFails
<1>15. CASE Shutdown
    BY <1>15 DEF Shutdown
<1>16. CASE TimerExit
    BY <1>16 DEF TimerExit
<1>17. CASE Restart
    BY <1>17 DEF Restart
<1>18. ASSUME NEW w \in Writers, NEW m \in Messages, Deliver(w, m) PROVE
   AcceptedSurvivesOneArchive'
    BY <1>18 DEF Deliver
<1>19. ASSUME NEW w \in Writers, Check(w) PROVE AcceptedSurvivesOneArchive'
    BY <1>19 DEF Check
<1>20. ASSUME NEW w \in Writers, Signal(w) PROVE AcceptedSurvivesOneArchive'
    BY <1>20 DEF Signal
<1>21. ASSUME NEW w \in Writers, BeginWrite(w) PROVE AcceptedSurvivesOneArchive'
    BY <1>21 DEF BeginWrite
<1>22. ASSUME NEW w \in Writers, WriteRefused(w) PROVE AcceptedSurvivesOneArchive'
    BY <1>22 DEF WriteRefused
<1>23. ASSUME NEW w \in Writers, Land(w) PROVE AcceptedSurvivesOneArchive'
  <2> DEFINE m == call[w].msg
             f == call[w].file
  <2>0. m \in Messages /\ f.date \in Days /\ (f \in openFiles \/ <<m, f.date>> \in overtaken)
      BY <1>23 DEF Land, Pinned
  <2> SUFFICES ASSUME NEW a \in accepted \union {<<m, f.date>>}
               PROVE  Kept(a[1], a[2])' \/ archived'[a[2]] >= 2 \/ a \in overtaken'
      BY <1>23 DEF Land
  <2>1. \A d \in Days : log[d] \subseteq log'[d]
      BY <2>0, <1>23 DEF Land
  <2>2. CASE a \in accepted
      BY <2>1, <2>2, <1>23 DEF Land
  <2>3. CASE a = <<m, f.date>>
  <3>1. CASE f \in openFiles
    BY <2>0, <2>3, <3>1, <1>23 DEF Land, Handles
  <3>2. CASE <<m, f.date>> \in overtaken
    BY <2>3, <3>2, <1>23 DEF Land
  <3> QED
    BY <2>0, <3>1, <3>2
  <2> QED
      BY <2>2, <2>3
<1>24. ASSUME NEW w \in Writers, LandFails(w) PROVE AcceptedSurvivesOneArchive'
    BY <1>24 DEF LandFails
<1>25. CASE UNCHANGED vars
    BY <1>25 DEF vars
<1> QED
    BY <1>1, <1>2, <1>3, <1>4, <1>5, <1>6, <1>7, <1>8, <1>9, <1>10, <1>11, <1>12, <1>13,
       <1>14, <1>15, <1>16, <1>17, <1>18, <1>19, <1>20, <1>21, <1>22, <1>23, <1>24, <1>25
       DEF Next, Starting, Writing, Rotating

\* Between two steps of a rotation the messages are where Secured says.
LEMMA SecuredStep ==
    LoggerAssumption /\ TypeOK /\ Handles /\ Pinned /\ Untouched /\ Secured /\
       AcceptedSurvivesOneArchive /\ [Next]_vars => Secured'
<1> SUFFICES ASSUME LoggerAssumption, TypeOK, Handles, Pinned, Untouched, Secured,
   AcceptedSurvivesOneArchive, [Next]_vars PROVE Secured'
    OBVIOUS
<1> USE DEF TypeOK, Secured, Excepted, disk, history, files, ghosts
<1>1. CASE StartOk
    BY <1>1 DEF StartOk
<1>2. CASE StartFails
    BY <1>2 DEF StartFails
<1>3. CASE Tick
    BY <1>3 DEF Tick
<1>4. CASE TakeToken
    BY <1>4 DEF TakeToken
<1>5. CASE CloseCurrent
    BY <1>5 DEF CloseCurrent
<1>6. CASE CloseFails
    BY <1>6 DEF CloseFails
<1>7. CASE Compress
  <2>0. current.date \in Days /\ archived[current.date] \in Nat
      BY <1>7 DEF Compress, Handles
  <2>1. archived'[current.date] = archived[current.date] + 1
      BY <2>0, <1>7 DEF Compress
  <2>2. ASSUME NEW a \in accepted, a[2] = current.date
        PROVE  a[1] \in data' \/ Excepted(a)'
  <3>1. CASE archived[a[2]] = 0
    BY <2>0, <2>2, <3>1, <1>7 DEF Compress, Untouched, AcceptedSurvivesOneArchive, Kept
  <3>2. CASE archived[a[2]] # 0
    BY <2>0, <2>1, <2>2, <3>2, <1>7 DEF Compress
  <3> QED
    BY <3>1, <3>2
  <2> QED
      BY <2>0, <2>1, <2>2, <1>7 DEF Compress
<1>8. CASE CompressFails
    BY <1>8 DEF CompressFails
<1>9. CASE WriteArchive
    BY <1>9 DEF WriteArchive
<1>10. CASE WriteArchiveFails
    BY <1>10 DEF WriteArchiveFails
<1>11. CASE RemoveOriginal
    BY <1>11 DEF RemoveOriginal
<1>12. CASE RemoveFails
    BY <1>12 DEF RemoveFails
<1>13. CASE Reopen
    BY <1>13 DEF Reopen
<1>14. CASE ReopenFails
    BY <1>14 DEF ReopenFails
<1>15. CASE Shutdown
    BY <1>15 DEF Shutdown
<1>16. CASE TimerExit
    BY <1>16 DEF TimerExit
<1>17. CASE Restart
    BY <1>17 DEF Restart
<1>18. ASSUME NEW w \in Writers, NEW m \in Messages, Deliver(w, m) PROVE Secured'
    BY <1>18 DEF Deliver
<1>19. ASSUME NEW w \in Writers, Check(w) PROVE Secured'
    BY <1>19 DEF Check
<1>20. ASSUME NEW w \in Writers, Signal(w) PROVE Secured'
    BY <1>20 DEF Signal
<1>21. ASSUME NEW w \in Writers, BeginWrite(w) PROVE Secured'
    BY <1>21 DEF BeginWrite
<1>22. ASSUME NEW w \in Writers, WriteRefused(w) PROVE Secured'
    BY <1>22 DEF WriteRefused
<1>23. ASSUME NEW w \in Writers, Land(w) PROVE Secured'
  <2>1. Closed => <<call[w].msg, call[w].file.date>> \in overtaken
      BY <1>23 DEF Land, Pinned, Handles, Closed
  <2>2. \A a \in accepted' : a \in accepted \/ (Closed => Excepted(a)')
      BY <2>1, <1>23 DEF Land
  <2> QED
      BY <2>2, <1>23 DEF Land, Closed
<1>24. ASSUME NEW w \in Writers, LandFails(w) PROVE Secured'
    BY <1>24 DEF LandFails
<1>25. CASE UNCHANGED vars
    BY <1>25 DEF vars
<1> QED
    BY <1>1, <1>2, <1>3, <1>4, <1>5, <1>6, <1>7, <1>8, <1>9, <1>10, <1>11, <1>12, <1>13,
       <1>14, <1>15, <1>16, <1>17, <1>18, <1>19, <1>20, <1>21, <1>22, <1>23, <1>24, <1>25
       DEF Next, Starting, Writing, Rotating

\* The invariant holds at the start...
LEMMA InvInit == LoggerAssumption /\ Init => IInv
BY DEF LoggerAssumption, Init, IInv, TypeOK, Handles, Usable, Closed, Pinned, Untouched,
       AcceptedSurvivesOneArchive, Secured, Days, Files, Calls, NoFile, Idle

\* ...and every step keeps it.
LEMMA InvStep == LoggerAssumption /\ IInv /\ [Next]_vars => IInv'
BY TypeStep, HandlesStep, UsableStep, PinnedStep, UntouchedStep, SurvivesStep, SecuredStep
   DEF IInv

THEOREM Invariance == Spec => []IInv
<1>1. Init => IInv
    BY InvInit, LoggerAssumption
<1>2. IInv /\ [Next]_vars => IInv'
    BY InvStep, LoggerAssumption
<1> QED
    BY <1>1, <1>2, PTL DEF Spec

\* The variables keep their types; rotationChan never holds two tokens.
THEOREM TypeCorrect == Spec => []TypeOK
BY Invariance, PTL DEF IInv

\* A message for which WriteMessage returned nil is never lost by closing,
\* archiving, removing or reopening files, with any of these failing and the
\* process killed anywhere, but by a second archive of its day or when its own
\* write was overtaken by Close.
THEOREM NoLoss == Spec => []AcceptedSurvivesOneArchive
BY Invariance, PTL DEF IInv

\* No rotation leaks a handle.
THEOREM NoLeak == Spec => []OpenFilesOnlyCurrent
<1>1. IInv => OpenFilesOnlyCurrent
    BY DEF IInv, Handles, OpenFilesOnlyCurrent
<1> QED
    BY <1>1, Invariance, PTL

\* Until a call fails, what WriteMessage reads under the lock is an open file.
THEOREM Writable == Spec => []CurrentFileWritable
<1>1. IInv => CurrentFileWritable
    BY DEF IInv, Handles, Usable, Closed, CurrentFileWritable, Locked
<1> QED
    BY <1>1, Invariance, PTL

=============================================================================
