------------------------------- MODULE Capture ------------------------------
(***************************************************************************)
(* internal/capture: one goroutine per source dials it and passes what it  *)
(* reads through a bounded channel, which all goroutines share, to a       *)
(* consumer that may be slow or gone.  Stop closes stopChan, the           *)
(* connections it finds in the map, waits for the goroutines and closes    *)
(* the channel.                                                            *)
(*                                                                         *)
(* A read yields the next number of its source.  A message holds a copy of *)
(* the read buffer, made before the buffer is used again.                  *)
(***************************************************************************)
EXTENDS Integers, Sequences

CONSTANTS
    Sources,   \* addresses, all different
    Capacity,  \* messages the channel holds, 1000 in New
    MaxReads   \* bound: successful reads of a source

ASSUME CaptureAssumption == Capacity \in Nat \ {0} /\ MaxReads \in Nat

VARIABLES
    stopped,    \* stopChan is closed
    stopper,    \* where the caller of Stop is
    pc,         \* where the goroutine of a source is
    connected,  \* its variable connected
    dropped,    \* its variable disconnectTime is not zero
    conns,      \* sources with an entry in the map
    open,       \* sources whose connection this side has not closed
    silent,     \* 1 when the next deadline is more than three seconds after the
                \* last message, 0 otherwise
    reads,      \* successful reads of a source
    msgChan,
    chanClosed,
    consumed    \* history: what the consumer took

vars == <<stopped, stopper, pc, connected, dropped, conns, open, silent, reads, msgChan,
          chanClosed, consumed>>

Goroutine == <<connected, dropped, silent, reads>>

Init ==
    /\ stopped = FALSE
    /\ stopper = "before"
    /\ pc = [s \in Sources |-> "loop"]
    /\ connected = [s \in Sources |-> FALSE]
    /\ dropped = [s \in Sources |-> FALSE]
    /\ conns = {} /\ open = {}
    /\ silent = [s \in Sources |-> 0]
    /\ reads = [s \in Sources |-> 0]
    /\ msgChan = <<>>
    /\ chanClosed = FALSE
    /\ consumed = <<>>

Goto(s, where) == pc' = [pc EXCEPT ![s] = where]

(***************************************************************************)
(* connectToSource.                                                        *)
(***************************************************************************)
Loop(s) ==
    /\ pc[s] = "loop"
    /\ Goto(s, IF stopped THEN "done" ELSE "dial")
    /\ UNCHANGED <<stopped, stopper, Goroutine, conns, open, msgChan, chanClosed, consumed>>

\* Keepalive is configured, the time of the disconnect forgotten.
DialOk(s) ==
    /\ pc[s] = "dial"
    /\ open' = open \cup {s}
    /\ connected' = [connected EXCEPT ![s] = TRUE]
    /\ dropped' = [dropped EXCEPT ![s] = FALSE]
    /\ Goto(s, "register")
    /\ UNCHANGED <<stopped, stopper, conns, silent, reads, msgChan, chanClosed, consumed>>

\* handleConnectionError sleeps for five seconds, but only after a disconnect.
DialFails(s) ==
    /\ pc[s] = "dial"
    /\ dropped' = [dropped EXCEPT ![s] = @ \/ connected[s]]
    /\ connected' = [connected EXCEPT ![s] = FALSE]
    /\ Goto(s, IF dropped'[s] THEN "sleep" ELSE "loop")
    /\ UNCHANGED <<stopped, stopper, conns, open, silent, reads, msgChan, chanClosed, consumed>>

Wake(s) ==
    /\ pc[s] = "sleep"
    /\ Goto(s, "loop")
    /\ UNCHANGED <<stopped, stopper, Goroutine, conns, open, msgChan, chanClosed, consumed>>

\* The map is written under the mutex, which Stop holds while it closes.
Register(s) ==
    /\ pc[s] = "register"
    /\ conns' = conns \cup {s}
    /\ silent' = [silent EXCEPT ![s] = 0]
    /\ Goto(s, "select")
    /\ UNCHANGED <<stopped, stopper, connected, dropped, open, reads, msgChan, chanClosed,
                   consumed>>

\* Mutant: the connection is left to Stop.
LeaveKeepsOpen(s) ==
    /\ pc[s] = "leave"
    /\ Goto(s, "remove")
    /\ UNCHANGED <<stopped, stopper, Goroutine, conns, open, msgChan, chanClosed, consumed>>

\* handleConnection returns and closes its connection, which Stop may have closed.
Leave(s) ==
    /\ pc[s] = "leave"
    /\ open' = open \ {s}
    /\ Goto(s, "remove")
    /\ UNCHANGED <<stopped, stopper, Goroutine, conns, msgChan, chanClosed, consumed>>

\* The entry in the map goes, under the mutex.
Remove(s) ==
    /\ pc[s] = "remove"
    /\ conns' = conns \ {s}
    /\ dropped' = [dropped EXCEPT ![s] = @ \/ connected[s]]
    /\ connected' = [connected EXCEPT ![s] = FALSE]
    /\ Goto(s, "loop")
    /\ UNCHANGED <<stopped, stopper, open, silent, reads, msgChan, chanClosed, consumed>>

(***************************************************************************)
(* handleConnection.                                                       *)
(***************************************************************************)
Select(s) ==
    /\ pc[s] = "select"
    /\ Goto(s, IF stopped THEN "leave" ELSE "read")
    /\ UNCHANGED <<stopped, stopper, Goroutine, conns, open, msgChan, chanClosed, consumed>>

Read(s) ==
    /\ pc[s] = "read"
    /\ s \in open
    /\ reads[s] < MaxReads
    /\ reads' = [reads EXCEPT ![s] = @ + 1]
    /\ silent' = [silent EXCEPT ![s] = 0]
    /\ Goto(s, "send")
    /\ UNCHANGED <<stopped, stopper, connected, dropped, conns, open, msgChan, chanClosed,
                   consumed>>

\* Mutant: the source is never given up.
ReadTimesOutAgain(s) ==
    /\ pc[s] = "read"
    /\ s \in open
    /\ silent' = [silent EXCEPT ![s] = @ + 1]
    /\ Goto(s, "select")
    /\ UNCHANGED <<stopped, stopper, connected, dropped, conns, open, reads, msgChan,
                   chanClosed, consumed>>

\* Two seconds without data; when three have passed since the last message the
\* source is given up.
ReadTimesOut(s) ==
    /\ pc[s] = "read"
    /\ s \in open
    /\ silent' = [silent EXCEPT ![s] = 1]
    /\ Goto(s, IF silent[s] = 1 THEN "leave" ELSE "select")
    /\ UNCHANGED <<stopped, stopper, connected, dropped, conns, open, reads, msgChan,
                   chanClosed, consumed>>

\* The peer closed or broke the connection, or Stop closed it.
ReadFails(s) ==
    /\ pc[s] = "read"
    /\ Goto(s, "leave")
    /\ UNCHANGED <<stopped, stopper, Goroutine, conns, open, msgChan, chanClosed, consumed>>

\* Mutant: a full channel loses its oldest message.
SendDropsOldest(s) ==
    /\ pc[s] = "send"
    /\ LET rest == IF Len(msgChan) = Capacity THEN Tail(msgChan) ELSE msgChan IN
       msgChan' = Append(rest, [Source |-> s, Data |-> reads[s]])
    /\ Goto(s, "select")
    /\ UNCHANGED <<stopped, stopper, Goroutine, conns, open, chanClosed, consumed>>

\* lastMessageTime was taken before the send: the send may have waited so long
\* that the next deadline is the last.
Send(s) ==
    /\ pc[s] = "send"
    /\ Len(msgChan) < Capacity
    /\ msgChan' = Append(msgChan, [Source |-> s, Data |-> reads[s]])
    /\ \E late \in 0 .. 1 : silent' = [silent EXCEPT ![s] = late]
    /\ Goto(s, "select")
    /\ UNCHANGED <<stopped, stopper, connected, dropped, reads, conns, open, chanClosed,
                   consumed>>

\* Mutant: the send does not look at stopChan.
SendWaits(s) == FALSE

\* The other case of the send: the message is dropped.
SendStopped(s) ==
    /\ pc[s] = "send"
    /\ stopped
    /\ Goto(s, "leave")
    /\ UNCHANGED <<stopped, stopper, Goroutine, conns, open, msgChan, chanClosed, consumed>>

(***************************************************************************)
(* Stop, called once, and the consumer.                                    *)
(***************************************************************************)
StopBegins ==
    /\ stopper = "before"
    /\ stopped' = TRUE
    /\ stopper' = "close"
    /\ UNCHANGED <<pc, Goroutine, conns, open, msgChan, chanClosed, consumed>>

\* Under the mutex: every connection in the map.
StopCloses ==
    /\ stopper = "close"
    /\ open' = open \ conns
    /\ stopper' = "wait"
    /\ UNCHANGED <<stopped, pc, Goroutine, conns, msgChan, chanClosed, consumed>>

\* Mutant: the channel is closed without waiting for the goroutines.
StopReturnsAtOnce ==
    /\ stopper = "wait"
    /\ chanClosed' = TRUE
    /\ stopper' = "returned"
    /\ UNCHANGED <<stopped, pc, Goroutine, conns, open, msgChan, consumed>>

StopReturns ==
    /\ stopper = "wait"
    /\ \A s \in Sources : pc[s] = "done"
    /\ chanClosed' = TRUE
    /\ stopper' = "returned"
    /\ UNCHANGED <<stopped, pc, Goroutine, conns, open, msgChan, consumed>>

Consume ==
    /\ msgChan # <<>>
    /\ consumed' = Append(consumed, Head(msgChan))
    /\ msgChan' = Tail(msgChan)
    /\ UNCHANGED <<stopped, stopper, pc, Goroutine, conns, open, chanClosed>>

Capturing(s) ==
    \/ Loop(s) \/ DialOk(s) \/ DialFails(s) \/ Wake(s) \/ Register(s) \/ Leave(s)
    \/ Remove(s) \/ Select(s) \/ Read(s) \/ ReadTimesOut(s) \/ ReadFails(s) \/ Send(s) \/ SendStopped(s)

Stopping == StopCloses \/ StopReturns

Next == (\E s \in Sources : Capturing(s)) \/ StopBegins \/ Stopping \/ Consume

Spec == Init /\ [][Next]_vars

\* A goroutine that can go on does: a dial ends, a read has a deadline.  Nobody
\* has to call Stop or to consume.
FairSpec == Spec /\ WF_vars(Stopping) /\ \A s \in Sources : WF_vars(Capturing(s))

(***************************************************************************)
(* Safety.                                                                 *)
(***************************************************************************)
Labels == {"loop", "dial", "sleep", "register", "select", "read", "send", "leave", "remove", "done"}

TypeOK ==
    /\ stopped \in BOOLEAN /\ chanClosed \in BOOLEAN
    /\ stopper \in {"before", "close", "wait", "returned"}
    /\ pc \in [Sources -> Labels]
    /\ connected \in [Sources -> BOOLEAN] /\ dropped \in [Sources -> BOOLEAN]
    /\ conns \subseteq Sources /\ open \subseteq Sources
    /\ silent \in [Sources -> 0 .. 1]
    /\ reads \in [Sources -> 0 .. MaxReads]
    /\ Len(msgChan) <= Capacity

\* A send on a closed channel panics: when Stop closes it no goroutine is left
\* that could still send, however late it dialled or read.
NoSendOnClosedChannel == chanClosed => \A s \in Sources : pc[s] = "done"

\* When Stop has returned no connection is open, not even one dialled after Stop
\* had gone through the map.
NothingOpenAfterStop == stopper = "returned" => open = {} /\ conns = {}

Through == consumed \o msgChan
NumbersOf(s) == {Through[i].Data : i \in {j \in DOMAIN Through : Through[j].Source = s}}

\* What was read from a source is or was in the channel, once, in order and as it was
\* read, save what is being sent; Stop costs a source its last message at most.
CapturedInOrder ==
    /\ \A i, j \in DOMAIN Through :
           i < j /\ Through[i].Source = Through[j].Source => Through[i].Data < Through[j].Data
    /\ \A s \in Sources :
           \/ NumbersOf(s) = 1 .. (IF pc[s] = "send" THEN reads[s] - 1 ELSE reads[s])
           \/ stopped /\ NumbersOf(s) = 1 .. reads[s] - 1

(***************************************************************************)
(* Liveness.                                                               *)
(***************************************************************************)
\* Stop returns, although the channel is full and nobody consumes it, a dial is
\* under way or a source keeps sending.
StopEnds == stopped ~> stopper = "returned"
=============================================================================
