------------------------------ MODULE Pipeline ------------------------------
(***************************************************************************)
(* The way of a line from a source to the programs that use it: Ingestor,  *)
(* the JetStream stream SBS_RAW, and the subscriptions of logger and       *)
(* tracker (internal/nats/client.go).                                      *)
(*                                                                         *)
(* SubscribeSBSRaw calls js.Subscribe with a subject and a callback and no *)
(* options.  That makes an ephemeral push consumer which starts with the   *)
(* oldest message the stream keeps, and acknowledges a message when the    *)
(* callback returns, whatever the program's handler made of it: the        *)
(* callback has no result.  Messages are known by their place in stream.   *)
(***************************************************************************)
EXTENDS Ingestor, FiniteSets

CONSTANTS
    Consumers,     \* the programs: logger, tracker
    MaxAckPending  \* messages a consumer may have that are not acknowledged

ASSUME PipelineAssumption == MaxAckPending \in Nat \ {0}

VARIABLES
    expired,   \* messages that got older than MaxAge, 24 hours
    sub,       \* a program: "down", "up", or "orphan" without a server's consumer
    cursor,    \* the last message the server pushed
    pending,   \* pushed and not acknowledged, as the server sees it
    queue,     \* messages that arrived and wait for the callback
    inHand,    \* the message its callback is running for, or Nothing
    handled,   \* history: messages of this subscription whose callback has returned
    lost       \* history: messages of this subscription that were pushed in vain

streaming == <<expired>>
serving   == <<sub, cursor, pending>>
calling   == <<queue, inHand>>
logs      == <<handled, lost>>
pipeVars  == <<vars, streaming, serving, calling, logs>>

Nothing   == 0
MaxStored == MaxLines * Cardinality(Sources)
Places  == 1 .. Len(stream)

PipeInit ==
    /\ Init
    /\ expired = 0
    /\ sub = [c \in Consumers |-> "down"]
    /\ cursor = [c \in Consumers |-> 0]
    /\ pending = [c \in Consumers |-> {}]
    /\ queue = [c \in Consumers |-> <<>>]
    /\ inHand = [c \in Consumers |-> Nothing]
    /\ handled = [c \in Consumers |-> {}]
    /\ lost = [c \in Consumers |-> {}]

ButFaults == <<ctx, conn, wire, alive, sent, buffer, batch, stream, received, handed>>

(***************************************************************************)
(* The server's side of a subscription.                                    *)
(***************************************************************************)
\* A message that a subscription has no part in any more.
Gone == 1 .. expired

\* The next message is the next one the stream still has.
NextPlace(c) == Max({cursor[c], expired}) + 1

CanPush(c) ==
    /\ sub[c] = "up"
    /\ NextPlace(c) \in Places
    /\ Cardinality(pending[c] \ Gone) < MaxAckPending

\* Mutant: the consumer needs no acknowledgements.
PushUnacked(c) ==
    /\ cursor' = [cursor EXCEPT ![c] = NextPlace(c)]
    /\ pending' = pending

Pushed(c) ==
    /\ cursor' = [cursor EXCEPT ![c] = NextPlace(c)]
    /\ pending' = [pending EXCEPT ![c] = @ \union {NextPlace(c)}]

Push(c) ==
    /\ CanPush(c)
    /\ Pushed(c)
    /\ queue' = [queue EXCEPT ![c] = Append(@, NextPlace(c))]
    /\ UNCHANGED <<vars, streaming, sub, inHand, logs>>

\* The connection breaks for a moment, and what was on its way is lost.
PushIsLost(c) ==
    /\ CanPush(c)
    /\ Fault
    /\ Pushed(c)
    /\ lost' = [lost EXCEPT ![c] = @ \union {NextPlace(c)}]
    /\ UNCHANGED <<ButFaults, streaming, sub, calling, handled>>

\* AckWait, 30 seconds, has passed.  For a message that has in fact arrived that
\* takes callbacks slow enough to be counted as a fault.
Redeliver(c) ==
    /\ sub[c] = "up"
    /\ \E i \in pending[c] \ Gone :
         /\ IF i = inHand[c] \/ i \in ToSet(queue[c]) THEN Fault ELSE UNCHANGED faults
         /\ queue' = [queue EXCEPT ![c] = Append(@, i)]
    /\ UNCHANGED <<ButFaults, streaming, serving, inHand, logs>>

\* The stream drops its oldest message.
Expire ==
    /\ expired < Len(stream)
    /\ expired' = expired + 1
    /\ UNCHANGED <<vars, serving, calling, logs>>

(***************************************************************************)
(* The program's side.                                                     *)
(***************************************************************************)
Fresh(c) ==
    /\ pending' = [pending EXCEPT ![c] = {}]
    /\ queue' = [queue EXCEPT ![c] = <<>>]
    /\ inHand' = [inHand EXCEPT ![c] = Nothing]
    /\ handled' = [handled EXCEPT ![c] = {}]
    /\ lost' = [lost EXCEPT ![c] = {}]

\* Mutant: only messages from now on, as a subscription without a stream would get.
SubscribeNew(c) ==
    /\ sub[c] = "down"
    /\ sub' = [sub EXCEPT ![c] = "up"]
    /\ cursor' = [cursor EXCEPT ![c] = Len(stream)]
    /\ Fresh(c)
    /\ UNCHANGED <<vars, streaming>>

\* nats.New and SubscribeSBSRaw succeed; until then the program exits and compose
\* starts it again.
Subscribe(c) ==
    /\ sub[c] = "down"
    /\ sub' = [sub EXCEPT ![c] = "up"]
    /\ cursor' = [cursor EXCEPT ![c] = 0]
    /\ Fresh(c)
    /\ UNCHANGED <<vars, streaming>>

\* Mutant: a goroutine per message, so that any of them may be first.
BeginAny(c) ==
    /\ inHand[c] = Nothing
    /\ \E k \in DOMAIN queue[c] :
         /\ inHand' = [inHand EXCEPT ![c] = queue[c][k]]
         /\ queue' = [queue EXCEPT ![c] = RemoveAt(@, k)]
    /\ UNCHANGED <<vars, streaming, serving, logs>>

\* One goroutine per subscription calls the callback.
Begin(c) ==
    /\ inHand[c] = Nothing
    /\ queue[c] # <<>>
    /\ inHand' = [inHand EXCEPT ![c] = Head(queue[c])]
    /\ queue' = [queue EXCEPT ![c] = Tail(@)]
    /\ UNCHANGED <<vars, streaming, serving, logs>>

\* The callback returns and the message is acknowledged.  The acknowledgement is
\* a message of its own and may be lost.
Return(c) ==
    /\ inHand[c] # Nothing
    /\ inHand' = [inHand EXCEPT ![c] = Nothing]
    /\ handled' = [handled EXCEPT ![c] = @ \union {inHand[c]}]
    /\ \/ pending' = [pending EXCEPT ![c] = @ \ {inHand[c]}] /\ UNCHANGED faults
       \/ pending' = pending /\ Fault
    /\ UNCHANGED <<ButFaults, streaming, sub, cursor, queue, lost>>

\* The program ends or is killed.
Exit(c) ==
    /\ sub[c] # "down"
    /\ Fault
    /\ sub' = [sub EXCEPT ![c] = "down"]
    /\ cursor' = [cursor EXCEPT ![c] = 0]
    /\ Fresh(c)
    /\ UNCHANGED <<ButFaults, streaming>>

\* The connection is away for longer than an ephemeral consumer lives without its
\* subscriber, 5 seconds.  The client reconnects, but no consumer sends to it.
Orphaned(c) ==
    /\ sub[c] = "up"
    /\ Fault
    /\ sub' = [sub EXCEPT ![c] = "orphan"]
    /\ pending' = [pending EXCEPT ![c] = {}]
    /\ UNCHANGED <<ButFaults, streaming, cursor, calling, logs>>

Consuming(c) ==
    Subscribe(c) \/ Push(c) \/ PushIsLost(c) \/ Redeliver(c) \/ Begin(c) \/ Return(c)

PipeNext ==
    \/ Next /\ UNCHANGED <<streaming, serving, calling, logs>>
    \/ Expire
    \/ \E c \in Consumers : Consuming(c) \/ Exit(c) \/ Orphaned(c)

PipeSpec == PipeInit /\ [][PipeNext]_pipeVars

\* Server and programs go on, and compose starts a program that has ended.
FairPipeSpec ==
    /\ PipeSpec
    /\ \A s \in Sources : WF_vars(Ingesting(s))
    /\ \A c \in Consumers : WF_pipeVars(Consuming(c))

(***************************************************************************)
(* Safety.                                                                 *)
(***************************************************************************)
PipeTypeOK ==
    /\ TypeOK
    /\ expired \in 0 .. Len(stream)
    /\ sub \in [Consumers -> {"down", "up", "orphan"}]
    /\ \A c \in Consumers :
         /\ cursor[c] \in 0 .. Len(stream)
         /\ pending[c] \subseteq 1 .. cursor[c]
         /\ Cardinality(pending[c] \ Gone) <= MaxAckPending
         /\ ToSet(queue[c]) \union handled[c] \union lost[c] \subseteq 1 .. cursor[c]
         /\ inHand[c] \in 0 .. cursor[c]

\* A program gets the messages of the stream in order.  One is overtaken by a later
\* one only if it had expired, or was pushed and lost on the way (client.go 70-84).
OvertakenOnlyIfLost ==
    \A c \in Consumers : \A j \in handled[c] : \A i \in 1 .. j :
        i \in handled[c] \/ i \in lost[c] \/ i <= expired

\* The server forgets a message only after a callback was given it and returned.
ForgottenOnlyIfHandled ==
    \A c \in Consumers : sub[c] = "up" =>
        1 .. cursor[c] \subseteq pending[c] \union handled[c] \union Gone

(***************************************************************************)
(* What the system promises as a whole: see Delivery.                      *)
(***************************************************************************)
\* The line a source sent that this is, or 0 for what is no line.
Number(raw) == IF raw \in Bodies THEN raw[1][2] ELSE 0

StoredLines ==
    [i \in DOMAIN stream |-> [source |-> stream[i].source, line |-> Number(stream[i].raw)]]

Whole == INSTANCE Delivery WITH stored <- StoredLines

\* Ingestor, stream and subscriptions implement Delivery: from the source to the
\* callback no line is invented, glued, doubled in the stream or put before an
\* earlier one, and no restart takes back what was stored (main.go 75-150 of the
\* ingestor, client.go 30-84).
DeliverySpec == Whole!Spec

(***************************************************************************)
(* Liveness.                                                               *)
(***************************************************************************)
\* Every line that was stored reaches every program although pushes and
\* acknowledgements are lost and programs are started again, unless the day is
\* over first or the program has lost its consumer.
StoredIsHandled ==
    \A c \in Consumers : \A i \in 1 .. MaxStored :
        Len(stream) >= i ~> i \in handled[c] \/ i <= expired \/ sub[c] = "orphan"

(***************************************************************************)
(* What the code does not do.                                              *)
(***************************************************************************)
\* A program that runs has a consumer.
NeverOrphaned == \A c \in Consumers : sub[c] # "orphan"

=============================================================================
