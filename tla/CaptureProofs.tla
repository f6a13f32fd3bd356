---------------------------- MODULE CaptureProofs ---------------------------
(***************************************************************************)
(* Theorems about Capture, for any sources, any capacity of the channel    *)
(* and any number of reads.                                                *)
(*                                                                         *)
(* Stop closes what is in the map and a goroutine closes what it dialled;  *)
(* which of them comes first does not matter, since a connection that is   *)
(* open or registered has a goroutine that has still to leave it (Owned),  *)
(* and Stop waits for the goroutines (Ended).                              *)
(*                                                                         *)
(* Of the messages, AInv says that those of a source are numbered without  *)
(* a gap (Complete): the only one that can be missing is the last, which   *)
(* is being sent or was given up for Stop, and after that the goroutine    *)
(* has no way back to a read.                                              *)
(***************************************************************************)
EXTENDS Capture, SequenceTheorems, TLAPS

Message == [Source : Sources, Data : Nat]

\* Who has a connection, and who has entered it in the map.
Owned ==
    /\ \A s \in open : pc[s] \in {"register", "select", "read", "send", "leave"}
    /\ \A s \in conns : pc[s] \in {"select", "read", "send", "leave", "remove"}

\* Stop returns, and the channel is closed, after the last goroutine.
Ended ==
    /\ chanClosed => stopper = "returned"
    /\ stopper = "returned" => \A s \in Sources : pc[s] = "done"

IInv == TypeOK /\ msgChan \in Seq(Message) /\ Owned /\ Ended

\* One goroutine goes on and the others stay where they are.
LEMMA StepKeeps ==
    ASSUME IInv, NEW s \in Sources, NEW label \in Labels, pc[s] # "done",
           pc' = [pc EXCEPT ![s] = label], TypeOK', msgChan' \in Seq(Message),
           UNCHANGED <<stopper, chanClosed>>,
           \/ open' = open /\ (label \in {"register", "select", "read", "send", "leave"} \/ s \notin open)
           \/ open' = open \cup {s} /\ label \in {"register", "select", "read", "send", "leave"}
           \/ open' = open \ {s},
           \/ conns' = conns /\ (label \in {"select", "read", "send", "leave", "remove"} \/ s \notin conns)
           \/ conns' = conns \cup {s} /\ label \in {"select", "read", "send", "leave", "remove"}
           \/ conns' = conns \ {s}
    PROVE  IInv'
<1>1. pc'[s] = label /\ \A r \in Sources \ {s} : pc'[r] = pc[r]
  BY DEF IInv, TypeOK
<1>2. open \subseteq Sources /\ conns \subseteq Sources
  BY DEF IInv, TypeOK
<1>3. \A r \in open' : pc'[r] \in {"register", "select", "read", "send", "leave"}
  BY <1>1, <1>2 DEF IInv, Owned
<1>4. \A r \in conns' : pc'[r] \in {"select", "read", "send", "leave", "remove"}
  BY <1>1, <1>2 DEF IInv, Owned
<1>5. stopper # "returned" /\ ~chanClosed
  BY DEF IInv, Ended
<1> QED BY <1>3, <1>4, <1>5 DEF IInv, Owned, Ended

\* connectToSource and handleConnection: every step of a goroutine.
LEMMA CapturingKeeps ==
    ASSUME IInv, NEW s \in Sources, Capturing(s)
    PROVE  IInv'
<1> USE DEF Goto, Goroutine
<1>1. /\ s \in open => pc[s] \in {"register", "select", "read", "send", "leave"}
      /\ s \in conns => pc[s] \in {"select", "read", "send", "leave", "remove"}
      /\ msgChan \in Seq(Message)
  BY DEF IInv, Owned
<1>2. CASE Loop(s) \/ Wake(s)
  <2>1. PICK label \in {"loop", "dial", "done"} : pc' = [pc EXCEPT ![s] = label]
    BY <1>2 DEF Loop, Wake
  <2>2. pc[s] \in {"loop", "sleep"} /\ label \in Labels
        /\ UNCHANGED <<stopped, stopper, connected, dropped, silent, reads, conns, open, msgChan, chanClosed>>
    BY <1>2 DEF Loop, Wake, Labels
  <2>3. TypeOK'
    BY <2>1, <2>2 DEF IInv, TypeOK
  <2> QED BY <1>1, <2>1, <2>2, <2>3, StepKeeps
<1>3. CASE DialOk(s)
  <2>1. /\ pc[s] = "dial" /\ pc' = [pc EXCEPT ![s] = "register"] /\ open' = open \cup {s}
        /\ UNCHANGED <<stopped, stopper, conns, silent, reads, msgChan, chanClosed>>
    BY <1>3 DEF DialOk
  <2>2. TypeOK'
    BY <1>3, <2>1 DEF DialOk, IInv, TypeOK, Labels
  <2> QED BY <1>1, <2>1, <2>2, StepKeeps DEF Labels
<1>4. CASE DialFails(s)
  <2>1. PICK label \in {"sleep", "loop"} : pc' = [pc EXCEPT ![s] = label]
    BY <1>4 DEF DialFails
  <2>2. /\ pc[s] = "dial" /\ label \in Labels
        /\ UNCHANGED <<stopped, stopper, conns, open, silent, reads, msgChan, chanClosed>>
    BY <1>4 DEF DialFails, Labels
  <2>3. connected' \in [Sources -> BOOLEAN] /\ dropped' \in [Sources -> BOOLEAN]
    BY <1>4 DEF DialFails, IInv, TypeOK
  <2>4. TypeOK'
    BY <2>1, <2>2, <2>3 DEF IInv, TypeOK
  <2> QED BY <1>1, <2>1, <2>2, <2>4, StepKeeps
<1>5. CASE Register(s)
  <2>1. /\ pc[s] = "register" /\ pc' = [pc EXCEPT ![s] = "select"] /\ conns' = conns \cup {s}
        /\ silent' = [silent EXCEPT ![s] = 0]
        /\ UNCHANGED <<stopped, stopper, connected, dropped, open, reads, msgChan, chanClosed>>
    BY <1>5 DEF Register
  <2>2. TypeOK'
    BY <2>1 DEF IInv, TypeOK, Labels
  <2> QED BY <1>1, <2>1, <2>2, StepKeeps DEF Labels
<1>6. CASE Leave(s)
  <2>1. /\ pc[s] = "leave" /\ pc' = [pc EXCEPT ![s] = "remove"] /\ open' = open \ {s}
        /\ UNCHANGED <<stopped, stopper, connected, dropped, conns, silent, reads, msgChan, chanClosed>>
    BY <1>6 DEF Leave
  <2>2. TypeOK'
    BY <2>1 DEF IInv, TypeOK, Labels
  <2> QED BY <1>1, <2>1, <2>2, StepKeeps DEF Labels
<1>7. CASE Select(s) \/ ReadFails(s) \/ SendStopped(s)
  <2>1. PICK label \in {"leave", "read"} : pc' = [pc EXCEPT ![s] = label]
    BY <1>7 DEF Select, ReadFails, SendStopped
  <2>2. pc[s] \in {"select", "read", "send"} /\ label \in Labels
        /\ UNCHANGED <<stopped, stopper, connected, dropped, silent, reads, conns, open, msgChan, chanClosed>>
    BY <1>7 DEF Select, ReadFails, SendStopped, Labels
  <2>3. TypeOK'
    BY <2>1, <2>2 DEF IInv, TypeOK
  <2> QED BY <1>1, <2>1, <2>2, <2>3, StepKeeps
<1>8. CASE Read(s)
  <2>1. /\ pc[s] = "read" /\ pc' = [pc EXCEPT ![s] = "send"] /\ reads[s] < MaxReads
        /\ reads' = [reads EXCEPT ![s] = @ + 1] /\ silent' = [silent EXCEPT ![s] = 0]
        /\ UNCHANGED <<stopped, stopper, connected, dropped, conns, open, msgChan, chanClosed>>
    BY <1>8 DEF Read
  <2>2. reads[s] + 1 \in 0 .. MaxReads
    BY <2>1, CaptureAssumption DEF IInv, TypeOK
  <2>3. TypeOK'
    BY <2>1, <2>2 DEF IInv, TypeOK, Labels
  <2> QED BY <1>1, <2>1, <2>3, StepKeeps DEF Labels
<1>9. CASE ReadTimesOut(s)
  <2>1. PICK label \in {"leave", "select"} : pc' = [pc EXCEPT ![s] = label]
    BY <1>9 DEF ReadTimesOut
  <2>2. /\ pc[s] = "read" /\ label \in Labels /\ silent' = [silent EXCEPT ![s] = 1]
        /\ UNCHANGED <<stopped, stopper, connected, dropped, conns, open, reads, msgChan, chanClosed>>
    BY <1>9 DEF ReadTimesOut, Labels
  <2>3. TypeOK'
    BY <2>1, <2>2 DEF IInv, TypeOK
  <2> QED BY <1>1, <2>1, <2>2, <2>3, StepKeeps
<1>10. CASE Send(s)
  <2>1. PICK late \in 0 .. 1 : silent' = [silent EXCEPT ![s] = late]
    BY <1>10 DEF Send
  <2>2. PICK m : m = [Source |-> s, Data |-> reads[s]]
    OBVIOUS
  <2>3. /\ pc[s] = "send" /\ pc' = [pc EXCEPT ![s] = "select"] /\ Len(msgChan) < Capacity
        /\ msgChan' = Append(msgChan, m)
        /\ UNCHANGED <<stopped, stopper, connected, dropped, reads, conns, open, chanClosed>>
    BY <1>10, <2>2 DEF Send
  <2>4. m \in Message
    BY <2>2, CaptureAssumption DEF IInv, TypeOK, Message
  <2>5. msgChan' \in Seq(Message) /\ Len(msgChan') = Len(msgChan) + 1
    BY <1>1, <2>3, <2>4, AppendProperties
  <2>6. Len(msgChan') <= Capacity
    BY <1>1, <2>3, <2>5, LenProperties, CaptureAssumption
  <2>7. TypeOK'
    BY <2>1, <2>3, <2>6 DEF IInv, TypeOK, Labels
  <2> QED BY <1>1, <2>3, <2>5, <2>7, StepKeeps DEF Labels
<1>11. CASE Remove(s)
  <2>1. /\ pc[s] = "remove" /\ pc' = [pc EXCEPT ![s] = "loop"] /\ conns' = conns \ {s}
        /\ s \notin open /\ UNCHANGED <<stopped, stopper, open, silent, reads, msgChan, chanClosed>>
    BY <1>1, <1>11 DEF Remove
  <2>2. connected' \in [Sources -> BOOLEAN] /\ dropped' \in [Sources -> BOOLEAN]
    BY <1>11 DEF Remove, IInv, TypeOK
  <2>3. TypeOK'
    BY <2>1, <2>2 DEF IInv, TypeOK, Labels
  <2> QED BY <1>1, <2>1, <2>3, StepKeeps DEF Labels
<1> QED BY <1>2, <1>3, <1>4, <1>5, <1>6, <1>7, <1>8, <1>9, <1>10, <1>11 DEF Capturing

\* Stop and the consumer.
LEMMA StopKeeps ==
    ASSUME IInv, StopBegins \/ Stopping \/ Consume
    PROVE  IInv'
<1>1. CASE StopBegins \/ Stopping
  <2>1. UNCHANGED <<pc, connected, dropped, silent, reads, conns, msgChan>> /\ open' \subseteq open
    BY <1>1 DEF StopBegins, Stopping, StopCloses, StopReturns, Goroutine
  <2>2. stopped' \in BOOLEAN /\ chanClosed' \in BOOLEAN /\ stopper' \in {"before", "close", "wait", "returned"}
    BY <1>1 DEF StopBegins, Stopping, StopCloses, StopReturns, IInv, TypeOK
  <2>3. TypeOK'
    BY <2>1, <2>2 DEF IInv, TypeOK
  <2>4. Owned'
    BY <2>1 DEF IInv, Owned
  <2>5. Ended'
    <3>1. CASE StopBegins \/ StopCloses
      BY <2>1, <3>1 DEF IInv, Ended, StopBegins, StopCloses
    <3>2. CASE StopReturns
      BY <2>1, <3>2 DEF Ended, StopReturns
    <3> QED BY <1>1, <3>1, <3>2 DEF Stopping
  <2> QED BY <2>1, <2>3, <2>4, <2>5 DEF IInv
<1>2. CASE Consume
  <2>1. /\ msgChan # <<>> /\ msgChan' = Tail(msgChan) /\ msgChan \in Seq(Message)
        /\ UNCHANGED <<stopped, stopper, pc, connected, dropped, silent, reads, conns, open, chanClosed>>
    BY <1>2 DEF Consume, IInv, Goroutine
  <2>2. msgChan' \in Seq(Message) /\ Len(msgChan') = Len(msgChan) - 1 /\ Len(msgChan) \in Nat
    BY <2>1, HeadTailProperties, LenProperties
  <2>3. Len(msgChan') <= Capacity
    BY <2>2, CaptureAssumption DEF IInv, TypeOK
  <2> QED BY <2>1, <2>2, <2>3 DEF IInv, TypeOK, Owned, Ended
<1> QED BY <1>1, <1>2

\* The invariant holds throughout.
THEOREM Invariance == Spec => []IInv
<1>1. Init => IInv
  <2> SUFFICES ASSUME Init PROVE IInv
    OBVIOUS
  <2>1. msgChan \in Seq(Message) /\ Len(msgChan) = 0
    BY DEF Init
  <2>2. TypeOK
    <3>1. 0 \in 0 .. MaxReads /\ Len(msgChan) <= Capacity
      BY <2>1, CaptureAssumption
    <3>2. /\ pc \in [Sources -> Labels] /\ silent \in [Sources -> 0 .. 1]
          /\ reads \in [Sources -> 0 .. MaxReads]
          /\ connected \in [Sources -> BOOLEAN] /\ dropped \in [Sources -> BOOLEAN]
      BY <3>1 DEF Init, Labels
    <3>3. /\ stopped \in BOOLEAN /\ chanClosed \in BOOLEAN /\ conns \subseteq Sources /\ open \subseteq Sources
          /\ stopper \in {"before", "close", "wait", "returned"}
      BY DEF Init
    <3> QED BY <3>1, <3>2, <3>3 DEF TypeOK
  <2> QED BY <2>1, <2>2 DEF IInv, Init, Owned, Ended
<1>2. IInv /\ [Next]_vars => IInv'
  <2>1. IInv /\ UNCHANGED vars => IInv'
    BY DEF IInv, TypeOK, Owned, Ended, vars, Goroutine
  <2> QED BY <2>1, CapturingKeeps, StopKeeps DEF Next
<1> QED BY <1>1, <1>2, PTL DEF Spec

(***************************************************************************)
(* The messages.                                                           *)
(***************************************************************************)
Ordered ==
    \A i, j \in DOMAIN Through :
        i < j /\ Through[i].Source = Through[j].Source => Through[i].Data < Through[j].Data

Complete(s) ==
    \/ pc[s] = "send" /\ reads[s] > 0 /\ NumbersOf(s) = 1 .. reads[s] - 1
    \/ pc[s] # "send" /\ NumbersOf(s) = 1 .. reads[s]
    \/ stopped /\ pc[s] \in {"leave", "remove", "loop", "done"} /\ NumbersOf(s) = 1 .. reads[s] - 1

AInv == consumed \in Seq(Message) /\ Ordered /\ \A s \in Sources : Complete(s)

\* What left the channel and what is in it, when neither changes.
LEMMA SameThrough ==
    ASSUME UNCHANGED <<consumed, msgChan>>
    PROVE  Through' = Through /\ \A s : NumbersOf(s)' = NumbersOf(s)
BY DEF Through, NumbersOf

LEMMA ThroughIs ==
    ASSUME IInv, AInv
    PROVE  Through \in Seq(Message) /\ DOMAIN Through = 1 .. Len(Through) /\ Len(Through) \in Nat
<1>1. Through \in Seq(Message)
  BY ConcatProperties DEF IInv, AInv, Through
<1> QED BY <1>1, LenProperties

\* Every step of a goroutine but the send.
LEMMA NotSent ==
    ASSUME IInv, AInv, NEW s \in Sources, Capturing(s), ~ Send(s)
    PROVE  AInv'
<1> USE DEF Goto, Goroutine
<1>1. /\ UNCHANGED <<consumed, msgChan, stopped>>
      /\ \A r \in Sources \ {s} : pc'[r] = pc[r] /\ reads'[r] = reads[r]
  BY DEF IInv, TypeOK, Capturing, Loop, DialOk, DialFails, Wake, Register, Leave, Remove, Select, Read,
         ReadTimesOut, ReadFails, SendStopped
<1>2. Through' = Through /\ \A r : NumbersOf(r)' = NumbersOf(r)
  BY <1>1, SameThrough
<1>3. Ordered'
  BY <1>2 DEF AInv, Ordered
<1>4. Complete(s) /\ reads[s] \in Nat
  BY CaptureAssumption DEF AInv, IInv, TypeOK
<1>5. Complete(s)'
  <2>1. CASE Loop(s) \/ Leave(s) \/ Remove(s) \/ SendStopped(s)
    BY <1>1, <1>2, <1>4, <2>1 DEF IInv, TypeOK, Complete, Loop, Leave, Remove, SendStopped
  <2>2. CASE Read(s)
    <3>1. pc[s] = "read" /\ pc'[s] = "send" /\ reads'[s] = reads[s] + 1
      BY <2>2 DEF IInv, TypeOK, Read
    <3>2. NumbersOf(s)' = 1 .. reads[s] /\ reads'[s] - 1 = reads[s] /\ reads'[s] > 0
      BY <1>2, <1>4, <3>1 DEF Complete
    <3> QED BY <3>1, <3>2 DEF Complete
  <2>3. CASE DialOk(s) \/ DialFails(s) \/ Wake(s) \/ Register(s) \/ Select(s) \/ ReadTimesOut(s) \/ ReadFails(s)
    <3>1. /\ pc[s] \in {"dial", "sleep", "register", "select", "read"} /\ pc'[s] # "send" /\ reads'[s] = reads[s]
      BY <2>3 DEF IInv, TypeOK, DialOk, DialFails, Wake, Register, Select, ReadTimesOut, ReadFails
    <3> QED BY <1>2, <1>4, <3>1 DEF Complete
  <2> QED BY <2>1, <2>2, <2>3 DEF Capturing
<1>6. ASSUME NEW r \in Sources \ {s} PROVE Complete(r)'
  BY <1>1, <1>2 DEF AInv, Complete
<1> QED BY <1>1, <1>3, <1>5, <1>6 DEF AInv

\* The send puts the next number behind all those of its source.
LEMMA Sent == ASSUME IInv, AInv, NEW s \in Sources, Send(s) PROVE AInv'
<1> PICK m : m = [Source |-> s, Data |-> reads[s]]
  OBVIOUS
<1> DEFINE n == Len(Through)
<1>1. /\ pc[s] = "send" /\ pc' = [pc EXCEPT ![s] = "select"] /\ msgChan' = Append(msgChan, m)
      /\ UNCHANGED <<consumed, stopped, reads>>
  BY DEF Send, Goto
<1>2. /\ reads[s] \in Nat /\ reads[s] > 0 /\ NumbersOf(s) = 1 .. reads[s] - 1
  <2>1. reads[s] \in Nat /\ Complete(s)
    BY CaptureAssumption DEF IInv, TypeOK, AInv
  <2> QED BY <1>1, <2>1 DEF Complete
<1>3. m \in Message /\ m.Source = s /\ m.Data = reads[s]
  BY <1>2 DEF Message
<1>4. Through \in Seq(Message) /\ DOMAIN Through = 1 .. n /\ n \in Nat
  BY ThroughIs
<1>5. Through' = Append(Through, m)
  <2>1. consumed \in Seq(Message) /\ msgChan \in Seq(Message)
    BY DEF IInv, AInv
  <2>2. consumed \o Append(msgChan, m) = Append(consumed \o msgChan, m)
    BY <1>3, <2>1
  <2> QED BY <1>1, <2>2 DEF Through
<1> HIDE DEF n
<1>6. /\ DOMAIN Through' = 1 .. n + 1 /\ Through'[n + 1] = m
      /\ \A i \in 1 .. n : Through'[i] = Through[i]
  BY <1>3, <1>4, <1>5, AppendProperties, LenProperties DEF n
<1>7. \A i \in 1 .. n + 1 : i \in 1 .. n \/ i = n + 1
  BY <1>4
<1>8. NumbersOf(s)' = NumbersOf(s) \cup {reads[s]}
  BY <1>3, <1>4, <1>6, <1>7 DEF NumbersOf
<1>9. ASSUME NEW r \in Sources \ {s} PROVE NumbersOf(r)' = NumbersOf(r)
  BY <1>3, <1>4, <1>6, <1>7 DEF NumbersOf
<1>10. Complete(s)'
  <2>1. NumbersOf(s)' = 1 .. reads[s]
    BY <1>2, <1>8
  <2> QED BY <1>1, <2>1 DEF IInv, TypeOK, Complete
<1>11. ASSUME NEW r \in Sources \ {s} PROVE Complete(r)'
  <2>1. pc'[r] = pc[r] /\ reads'[r] = reads[r] /\ stopped' = stopped
    BY <1>1 DEF IInv, TypeOK
  <2> QED BY <1>9, <2>1 DEF AInv, Complete
<1>12. Ordered'
  <2>1. ASSUME NEW i \in DOMAIN Through', NEW j \in DOMAIN Through', i < j,
               Through'[i].Source = Through'[j].Source
        PROVE  Through'[i].Data < Through'[j].Data
    <3>1. i \in 1 .. n /\ Through'[i] = Through[i]
      BY <1>4, <1>6, <2>1
    <3>2. CASE j \in 1 .. n
      BY <1>4, <1>6, <2>1, <3>1, <3>2 DEF AInv, Ordered
    <3>3. CASE j = n + 1
      <4>1. Through[i].Source = s
        BY <1>3, <1>6, <2>1, <3>1, <3>3
      <4>2. Through[i].Data \in NumbersOf(s)
        BY <1>4, <3>1, <4>1 DEF NumbersOf
      <4>3. Through[i].Data < reads[s]
        BY <1>2, <4>2
      <4> QED BY <1>3, <1>6, <3>1, <3>3, <4>3
    <3> QED BY <1>6, <1>7, <3>2, <3>3
  <2> QED BY <2>1 DEF Ordered
<1> QED BY <1>1, <1>10, <1>11, <1>12 DEF AInv

\* Stop takes no message away, and the consumer none out of turn.
LEMMA StopLoses == ASSUME IInv, AInv, StopBegins \/ Stopping \/ Consume PROVE AInv'
<1>1. UNCHANGED <<pc, reads>> /\ (stopped => stopped')
  BY DEF StopBegins, Stopping, StopCloses, StopReturns, Consume, Goroutine
<1>2. Through' = Through /\ consumed' \in Seq(Message)
  <2>1. CASE StopBegins \/ Stopping
    BY <2>1 DEF StopBegins, Stopping, StopCloses, StopReturns, Through, AInv
  <2>2. CASE Consume
    <3>1. /\ msgChan # <<>> /\ msgChan \in Seq(Message) /\ consumed \in Seq(Message)
          /\ consumed' = Append(consumed, Head(msgChan)) /\ msgChan' = Tail(msgChan)
      BY <2>2 DEF Consume, IInv, AInv
    <3>2. Append(consumed, Head(msgChan)) \o Tail(msgChan) = consumed \o msgChan
      BY <3>1
    <3>3. consumed' \in Seq(Message)
      BY <3>1, HeadTailProperties, AppendProperties
    <3> QED BY <3>1, <3>2, <3>3 DEF Through
  <2> QED BY <2>1, <2>2
<1>3. \A s : NumbersOf(s)' = NumbersOf(s)
  BY <1>2 DEF NumbersOf
<1>4. Ordered'
  BY <1>2 DEF AInv, Ordered
<1>5. \A s \in Sources : Complete(s)'
  BY <1>1, <1>3 DEF AInv, Complete
<1> QED BY <1>2, <1>4, <1>5 DEF AInv

\* The messages of every source are complete and in order throughout.
THEOREM Arrival == Spec => []AInv
<1>1. Init => AInv
  <2> SUFFICES ASSUME Init PROVE AInv
    OBVIOUS
  <2>1. consumed \in Seq(Message) /\ Through = <<>>
    BY DEF Init, Through
  <2>2. \A s : NumbersOf(s) = {}
    BY <2>1 DEF NumbersOf
  <2>3. 1 .. 0 = {}
    OBVIOUS
  <2> QED BY <2>1, <2>2, <2>3 DEF Init, AInv, Ordered, Complete
<1>2. IInv /\ AInv /\ [Next]_vars => AInv'
  <2>1. IInv /\ AInv /\ UNCHANGED vars => AInv'
    <3> SUFFICES ASSUME AInv, UNCHANGED vars PROVE AInv'
      OBVIOUS
    <3>1. UNCHANGED <<consumed, msgChan, pc, reads, stopped>>
      BY DEF vars
    <3> QED BY <3>1, SameThrough DEF AInv, Ordered, Complete
  <2> QED BY <2>1, NotSent, Sent, StopLoses DEF Next
<1> QED BY <1>1, <1>2, Invariance, PTL DEF Spec

(***************************************************************************)
(* What follows.                                                           *)
(***************************************************************************)
\* Every variable keeps its type, and the channel its capacity.
THEOREM TypeCorrect == Spec => []TypeOK
<1>1. IInv => TypeOK
  BY DEF IInv
<1> QED BY <1>1, Invariance, PTL

\* Stop (capture.go 97-109) closes the channel when nobody is left who could send on it.
THEOREM NoPanic == Spec => []NoSendOnClosedChannel
<1>1. IInv => NoSendOnClosedChannel
  BY DEF IInv, Ended, NoSendOnClosedChannel
<1> QED BY <1>1, Invariance, PTL

\* When Stop has returned every connection is closed and out of the map, those included that
\* were dialled or registered (capture.go 115-161) after Stop had closed what it found.
THEOREM NothingOpen == Spec => []NothingOpenAfterStop
<1>1. IInv => NothingOpenAfterStop
  <2> SUFFICES ASSUME IInv, stopper = "returned" PROVE open = {} /\ conns = {}
    BY DEF NothingOpenAfterStop
  <2>1. open \subseteq Sources /\ conns \subseteq Sources
    BY DEF IInv, TypeOK
  <2>2. \A s \in Sources : pc[s] = "done"
    BY DEF IInv, Ended
  <2> QED BY <2>1, <2>2 DEF IInv, Owned
<1> QED BY <1>1, Invariance, PTL

\* Nothing that was read is lost, doubled or overtaken on its way through the channel,
\* but for the last message of a source when Stop comes (capture.go 163-223).
THEOREM InOrder == Spec => []CapturedInOrder
<1>1. AInv => CapturedInOrder
  BY DEF AInv, Ordered, Complete, CapturedInOrder
<1> QED BY <1>1, Arrival, PTL

=============================================================================
