--------------------------- MODULE PipelineProofs ---------------------------
(***************************************************************************)
(* What holds of the way of a line to the programs, for any number of      *)
(* sources and programs, lines, faults and unacknowledged messages.        *)
(*                                                                         *)
(* PipeIInv is the inductive invariant.  Beside the ingestor's, which a    *)
(* step of the pipeline leaves alone, it says of each program that no      *)
(* message up to the cursor is unaccounted for (Accounted), and that when  *)
(* the turn of a message comes every smaller one is settled (InTurn).  The *)
(* second is what keeps a redelivered message from mattering: its place in *)
(* the queue is behind the one it had, or its first push was lost.         *)
(***************************************************************************)
EXTENDS Pipeline, IngestorProofs

\* A message whose being late can overtake nothing any more.
Settled(c, i) == i \in handled[c] \/ i \in lost[c] \/ i <= expired

\* It is somewhere between the server and the callback.
Waiting(c, i) == i = inHand[c] \/ \E k \in DOMAIN queue[c] : queue[c][k] = i

Accounted(c) == \A i \in 1 .. cursor[c] : Settled(c, i) \/ Waiting(c, i)

InTurn(c) ==
    /\ inHand[c] # Nothing => \A i \in 1 .. inHand[c] - 1 : Settled(c, i)
    /\ \A k \in DOMAIN queue[c] : \A i \in 1 .. queue[c][k] - 1 :
          Settled(c, i) \/ i = inHand[c] \/ \E m \in 1 .. k - 1 : queue[c][m] = i

\* The conjuncts of PipeTypeOK, ForgottenOnlyIfHandled and OvertakenOnlyIfLost for one program.
Bounds(c) ==
    /\ cursor[c] \in 0 .. Len(stream)
    /\ pending[c] \subseteq 1 .. cursor[c]
    /\ Cardinality(pending[c] \ Gone) <= MaxAckPending
    /\ \A k \in DOMAIN queue[c] : queue[c][k] \in 1 .. cursor[c]
    /\ handled[c] \subseteq 1 .. cursor[c]
    /\ lost[c] \subseteq 1 .. cursor[c]
    /\ inHand[c] \in 0 .. cursor[c]

Unforgotten(c) == sub[c] = "up" => \A i \in 1 .. cursor[c] : i \in pending[c] \/ i \in handled[c] \/ i <= expired

Followed(c) == \A j \in handled[c] : \A i \in 1 .. j : Settled(c, i)

Program(c) == Bounds(c) /\ Unforgotten(c) /\ Accounted(c) /\ InTurn(c) /\ Followed(c)

Programs ==
    /\ expired \in 0 .. Len(stream)
    /\ sub \in [Consumers -> {"down", "up", "orphan"}]
    /\ cursor \in [Consumers -> Nat]
    /\ pending \in [Consumers -> SUBSET Nat]
    /\ queue \in [Consumers -> Seq(Nat)]
    /\ inHand \in [Consumers -> Nat]
    /\ handled \in [Consumers -> SUBSET Nat]
    /\ lost \in [Consumers -> SUBSET Nat]

PipeIInv == IInv /\ Programs /\ \A c \in Consumers : Program(c)

(***************************************************************************)
(* Steps that are not a program's own.                                     *)
(***************************************************************************)
\* A broken connection or a late answer, as far as the ingestor knows.
LEMMA FaultKeeps == ASSUME IInv, UNCHANGED ButFaults, UNCHANGED faults \/ Fault PROVE IInv'
<1> USE DEF ButFaults
<1>1. TypeOK'
  BY IngestorAssumption DEF IInv, TypeOK, Fault
<1>2. Shapes'
  BY DEF IInv, Shapes
<1>3. \A s \in Sources : Connection(s)'
  BY Undisturbed DEF IInv, Attached
<1>4. Known' /\ InOrderAtMostOnce'
  BY SameStream DEF IInv
<1> QED BY <1>1, <1>2, <1>3, <1>4 DEF IInv

\* The stream only grows.
LEMMA StreamGrows == ASSUME IInv, [Next]_vars PROVE Len(stream) \in Nat /\ Len(stream') \in Nat /\ Len(stream) <= Len(stream')
<1>1. stream \in Seq([source : Sources, raw : Bodies]) /\ stream' \in Seq([source : Sources, raw : Bodies])
  BY Step DEF IInv, Shapes
<1>2. stream' = stream \/ \E e : stream' = Append(stream, e)
  BY DEF Next, Ingesting, Connect, ResolveFails, Select, Read, ReadFails, Publish, PublishFails, Resume,
         SendLine, Heartbeat, PeerVanishes, Cancel, Restart, Stored, vars
<1>3. ASSUME NEW e, stream' = Append(stream, e) PROVE Len(stream') = Len(stream) + 1
  BY <1>1, <1>3
<1> QED BY <1>1, <1>2, <1>3, LenProperties

\* A program is left as it was by the steps of the others.
LEMMA Aside ==
    ASSUME NEW c \in Consumers, Program(c), Programs,
           UNCHANGED <<sub[c], cursor[c], pending[c], queue[c], inHand[c], handled[c], lost[c]>>,
           Len(stream) \in Nat, Len(stream') \in Nat, Len(stream) <= Len(stream'), expired' = expired
    PROVE  Program(c)'
<1>1. cursor[c] \in Nat
  BY DEF Programs
<1>2. Bounds(c)'
  BY <1>1 DEF Program, Bounds, Gone
<1>3. Unforgotten(c)' /\ Accounted(c)' /\ InTurn(c)' /\ Followed(c)'
  BY DEF Program, Unforgotten, Accounted, InTurn, Followed, Settled, Waiting
<1> QED BY <1>2, <1>3 DEF Program

\* The number of messages that are waited for does not grow with fewer of them.
LEMMA FewerPending ==
    ASSUME NEW n \in Nat, NEW A \in SUBSET (1 .. n), NEW B \in SUBSET A
    PROVE  IsFiniteSet(A) /\ Cardinality(A) \in Nat /\ Cardinality(B) \in Nat /\ Cardinality(B) <= Cardinality(A)
<1>1. IsFiniteSet(1 .. n)
  BY FS_Interval
<1>2. IsFiniteSet(A)
  BY <1>1, FS_Subset
<1>3. IsFiniteSet(B) /\ Cardinality(B) <= Cardinality(A)
  BY <1>2, FS_Subset
<1> QED BY <1>2, <1>3, FS_CardinalityType

LEMMA ExpireKeeps == ASSUME PipeIInv, Expire PROVE PipeIInv'
<1>1. /\ UNCHANGED <<sub, cursor, pending, queue, inHand, handled, lost>> /\ stream' = stream
      /\ expired \in Nat /\ expired' = expired + 1 /\ expired' \in 0 .. Len(stream)
      /\ IInv'
  <2>1. Len(stream) \in Nat
    BY LenProperties DEF PipeIInv, IInv, Shapes
  <2>2. UNCHANGED vars
    BY DEF Expire
  <2>3. IInv'
    BY <2>2, Step DEF PipeIInv
  <2> QED BY <2>1, <2>2, <2>3 DEF PipeIInv, Programs, Expire, serving, calling, logs, vars
<1>2. Programs'
  BY <1>1 DEF PipeIInv, Programs
<1>3. ASSUME NEW c \in Consumers PROVE Program(c)'
  <2>1. Program(c) /\ cursor[c] \in Nat /\ MaxAckPending \in Nat
    BY PipelineAssumption DEF PipeIInv, Programs
  <2>2. Cardinality(pending[c] \ Gone') <= MaxAckPending
    <3>1. pending[c] \ Gone' \subseteq pending[c] \ Gone /\ pending[c] \ Gone \subseteq 1 .. cursor[c]
      BY <1>1, <2>1 DEF Program, Bounds, Gone
    <3>2. /\ Cardinality(pending[c] \ Gone') \in Nat /\ Cardinality(pending[c] \ Gone) \in Nat
          /\ Cardinality(pending[c] \ Gone') <= Cardinality(pending[c] \ Gone)
      BY <2>1, <3>1, FewerPending
    <3>3. Cardinality(pending[c] \ Gone) <= MaxAckPending
      BY <2>1 DEF Program, Bounds
    <3> QED BY <2>1, <3>2, <3>3
  <2>3. Bounds(c)'
    BY <1>1, <2>1, <2>2 DEF Program, Bounds
  <2>4. ASSUME NEW i \in Nat, Settled(c, i) PROVE Settled(c, i)'
    BY <1>1, <2>4 DEF Settled
  <2>5. Unforgotten(c)'
    BY <1>1, <2>1 DEF Program, Unforgotten
  <2>6. Accounted(c)'
    BY <1>1, <2>1, <2>4 DEF Program, Accounted, Waiting
  <2>7. InTurn(c)'
    BY <1>1, <2>1, <2>4 DEF Program, InTurn
  <2>8. Followed(c)'
    BY <1>1, <2>1, <2>4 DEF Program, Followed, Bounds
  <2> QED BY <2>3, <2>5, <2>6, <2>7, <2>8 DEF Program
<1> QED BY <1>1, <1>2, <1>3 DEF PipeIInv

(***************************************************************************)
(* The steps of a subscription.                                            *)
(***************************************************************************)
\* A step of one subscription leaves everything but that subscription alone.
LEMMA OnlyOne ==
    ASSUME PipeIInv, NEW c \in Consumers,
           UNCHANGED ButFaults, UNCHANGED faults \/ Fault, expired' = expired,
           \A r \in Consumers \ {c} :
               UNCHANGED <<sub[r], cursor[r], pending[r], queue[r], inHand[r], handled[r], lost[r]>>,
           Programs', Program(c)'
    PROVE  PipeIInv'
<1>1. IInv'
  BY FaultKeeps DEF PipeIInv
<1>2. Len(stream) \in Nat /\ stream' = stream
  BY LenProperties DEF PipeIInv, IInv, Shapes, ButFaults
<1>3. ASSUME NEW r \in Consumers PROVE Program(r)'
  <2>1. CASE r = c
    BY <2>1
  <2>2. CASE r # c
    BY <1>2, <2>2, Aside DEF PipeIInv
  <2> QED BY <2>1, <2>2
<1> QED BY <1>1, <1>3 DEF PipeIInv

LEMMA NextPlaceIs ==
    ASSUME PipeIInv, NEW c \in Consumers, CanPush(c)
    PROVE  /\ NextPlace(c) \in Nat /\ cursor[c] \in Nat /\ expired \in Nat /\ Len(stream) \in Nat
           /\ cursor[c] < NextPlace(c) /\ expired < NextPlace(c) /\ NextPlace(c) <= Len(stream)
           /\ \A i \in 1 .. NextPlace(c) : i <= cursor[c] \/ i <= expired \/ i = NextPlace(c)
<1>1. Len(stream) \in Nat /\ cursor[c] \in Nat /\ expired \in Nat
  BY LenProperties DEF PipeIInv, IInv, Shapes, Programs
<1> DEFINE m == Max({cursor[c], expired})
<1>2. m \in {cursor[c], expired} /\ m >= cursor[c] /\ m >= expired
  <2>1. \E x \in {cursor[c], expired} : \A y \in {cursor[c], expired} : x >= y
    BY <1>1
  <2> QED BY <2>1 DEF Max
<1>3. NextPlace(c) = m + 1 /\ NextPlace(c) <= Len(stream)
  BY <1>1 DEF CanPush, NextPlace, Places
<1> HIDE DEF m
<1> QED BY <1>1, <1>2, <1>3

\* The message that is pushed is one more that is not acknowledged.
LEMMA OneMorePending ==
    ASSUME PipeIInv, NEW c \in Consumers, CanPush(c)
    PROVE  Cardinality((pending[c] \union {NextPlace(c)}) \ Gone) <= MaxAckPending
<1> DEFINE A == pending[c] \ Gone
           p == NextPlace(c)
<1>1. p \in Nat /\ cursor[c] \in Nat /\ expired \in Nat /\ expired < p /\ MaxAckPending \in Nat
      /\ cursor[c] < p
  BY NextPlaceIs, PipelineAssumption
<1>2. A \subseteq 1 .. cursor[c] /\ Cardinality(A) < MaxAckPending
  BY DEF PipeIInv, Program, Bounds, CanPush
<1>3. (pending[c] \union {p}) \ Gone = A \union {p} /\ p \notin A
  BY <1>1, <1>2 DEF Gone
<1> HIDE DEF A, p
<1>4. IsFiniteSet(A) /\ Cardinality(A) \in Nat
  BY <1>1, <1>2, FewerPending
<1>5. Cardinality(A \union {p}) = Cardinality(A) + 1
  BY <1>3, <1>4, FS_AddElement
<1>6. Cardinality(A \union {p}) <= MaxAckPending
  BY <1>1, <1>2, <1>4, <1>5
<1> QED BY <1>3, <1>6 DEF p

\* What a queue is after a message came to its end.
LEMMA QueueGrows ==
    ASSUME NEW q \in Seq(Nat), NEW i \in Nat
    PROVE  /\ Append(q, i) \in Seq(Nat) /\ Len(q) \in Nat /\ DOMAIN q = 1 .. Len(q)
           /\ DOMAIN Append(q, i) = 1 .. Len(q) + 1
           /\ \A k \in DOMAIN q : k \in DOMAIN Append(q, i) /\ Append(q, i)[k] = q[k]
           /\ \A k \in DOMAIN Append(q, i) : k \in DOMAIN q \/ k = Len(q) + 1
           /\ Append(q, i)[Len(q) + 1] = i
BY AppendProperties, LenProperties

LEMMA PushKeeps == ASSUME PipeIInv, NEW c \in Consumers, Push(c) PROVE PipeIInv'
<1> DEFINE p == NextPlace(c)
           q == queue[c]
<1>1. /\ cursor' = [cursor EXCEPT ![c] = p] /\ pending' = [pending EXCEPT ![c] = @ \union {p}]
      /\ queue' = [queue EXCEPT ![c] = Append(q, p)]
      /\ UNCHANGED <<vars, expired, sub, inHand, handled, lost>>
  BY DEF Push, Pushed, streaming, logs
<1>2. /\ p \in Nat /\ cursor[c] \in Nat /\ expired \in Nat /\ Len(stream) \in Nat
      /\ cursor[c] < p /\ expired < p /\ p <= Len(stream)
      /\ \A i \in 1 .. p : i <= cursor[c] \/ i <= expired \/ i = p
  BY NextPlaceIs DEF Push
<1>3. Cardinality((pending[c] \union {p}) \ Gone) <= MaxAckPending
  BY OneMorePending DEF Push
<1>4. /\ q \in Seq(Nat) /\ inHand[c] \in Nat /\ Program(c)
  BY DEF PipeIInv, Programs
<1> HIDE DEF p, q
<1>5. /\ Append(q, p) \in Seq(Nat) /\ Len(q) \in Nat /\ DOMAIN q = 1 .. Len(q)
      /\ DOMAIN Append(q, p) = 1 .. Len(q) + 1
      /\ \A k \in DOMAIN q : k \in DOMAIN Append(q, p) /\ Append(q, p)[k] = q[k]
      /\ \A k \in DOMAIN Append(q, p) : k \in DOMAIN q \/ k = Len(q) + 1
      /\ Append(q, p)[Len(q) + 1] = p
  BY <1>2, <1>4, QueueGrows
<1>6. Programs'
  BY <1>1, <1>2, <1>5 DEF PipeIInv, Programs, vars
<1>7. /\ cursor'[c] = p /\ pending'[c] = pending[c] \union {p} /\ queue'[c] = Append(q, p)
      /\ inHand'[c] = inHand[c] /\ handled'[c] = handled[c] /\ lost'[c] = lost[c] /\ sub'[c] = sub[c]
      /\ stream' = stream /\ expired' = expired /\ Gone' = Gone
  BY <1>1 DEF PipeIInv, Programs, vars, Gone
<1>8. Bounds(c)'
  BY SMTT(30), <1>2, <1>3, <1>4, <1>5, <1>7 DEF Program, Bounds, q
<1>9. Unforgotten(c)'
  BY <1>2, <1>4, <1>7 DEF Program, Unforgotten
<1>10. Accounted(c)'
  <2>1. ASSUME NEW i \in 1 .. p PROVE Settled(c, i)' \/ Waiting(c, i)'
    <3>1. CASE i <= cursor[c]
      <4>1. Settled(c, i) \/ i = inHand[c] \/ \E k \in DOMAIN q : q[k] = i
        BY <1>2, <1>4, <3>1 DEF Program, Accounted, Waiting, q
      <4>2. (\E k \in DOMAIN q : q[k] = i) => \E k \in DOMAIN Append(q, p) : Append(q, p)[k] = i
        BY <1>5
      <4>3. Settled(c, i) => Settled(c, i)'
        BY <1>7 DEF Settled
      <4> QED BY <1>7, <4>1, <4>2, <4>3 DEF Waiting
    <3>2. CASE i <= expired
      BY <1>7, <3>2 DEF Settled
    <3>3. CASE i = p
      BY <1>5, <1>7, <3>3 DEF Waiting
    <3> QED BY <1>2, <3>1, <3>2, <3>3
  <2> QED BY <1>7, <2>1 DEF Accounted
<1>11. InTurn(c)'
  <2>1. ASSUME inHand'[c] # Nothing, NEW i \in 1 .. inHand'[c] - 1 PROVE Settled(c, i)'
    BY <1>4, <1>7, <2>1 DEF Program, InTurn, Settled
  <2>2. ASSUME NEW k \in DOMAIN Append(q, p), NEW i \in 1 .. Append(q, p)[k] - 1
        PROVE  Settled(c, i)' \/ i = inHand[c] \/ \E m \in 1 .. k - 1 : Append(q, p)[m] = i
    <3>1. CASE k \in DOMAIN q
      <4>1. Settled(c, i) \/ i = inHand[c] \/ \E m \in 1 .. k - 1 : q[m] = i
        BY <1>4, <1>5, <2>2, <3>1 DEF Program, InTurn, q
      <4>2. \A m \in 1 .. k - 1 : Append(q, p)[m] = q[m]
        BY <1>5, <3>1
      <4> QED BY <1>7, <4>1, <4>2 DEF Settled
    <3>2. CASE k = Len(q) + 1
      <4>1. i \in 1 .. p /\ i # p
        BY <1>2, <1>5, <2>2, <3>2
      <4>2. CASE i <= expired
        BY <1>7, <4>2 DEF Settled
      <4>3. CASE i <= cursor[c]
        <5>1. Settled(c, i) \/ i = inHand[c] \/ \E m \in DOMAIN q : q[m] = i
          BY <1>2, <1>4, <4>1, <4>3 DEF Program, Accounted, Waiting, q
        <5>2. \A m \in DOMAIN q : m \in 1 .. k - 1 /\ Append(q, p)[m] = q[m]
          BY <1>5, <3>2
        <5> QED BY <1>7, <5>1, <5>2 DEF Settled
      <4> QED BY <1>2, <4>1, <4>2, <4>3
    <3> QED BY <1>5, <3>1, <3>2
  <2> QED BY <1>7, <2>1, <2>2 DEF InTurn
<1>12. Followed(c)'
  BY <1>4, <1>7 DEF Program, Followed, Settled
<1>13. Program(c)'
  BY <1>8, <1>9, <1>10, <1>11, <1>12 DEF Program
<1>14. \A r \in Consumers \ {c} :
          UNCHANGED <<sub[r], cursor[r], pending[r], queue[r], inHand[r], handled[r], lost[r]>>
  BY <1>1 DEF PipeIInv, Programs
<1> QED BY <1>1, <1>6, <1>13, <1>14, OnlyOne DEF vars, ButFaults

LEMMA PushIsLostKeeps == ASSUME PipeIInv, NEW c \in Consumers, PushIsLost(c) PROVE PipeIInv'
<1> DEFINE p == NextPlace(c)
<1>1. /\ cursor' = [cursor EXCEPT ![c] = p] /\ pending' = [pending EXCEPT ![c] = @ \union {p}]
      /\ lost' = [lost EXCEPT ![c] = @ \union {p}] /\ Fault
      /\ UNCHANGED <<ButFaults, expired, sub, queue, inHand, handled>>
  BY DEF PushIsLost, Pushed, streaming, calling
<1>2. /\ p \in Nat /\ cursor[c] \in Nat /\ expired \in Nat /\ Len(stream) \in Nat
      /\ cursor[c] < p /\ expired < p /\ p <= Len(stream)
      /\ \A i \in 1 .. p : i <= cursor[c] \/ i <= expired \/ i = p
  BY NextPlaceIs DEF PushIsLost
<1>3. Cardinality((pending[c] \union {p}) \ Gone) <= MaxAckPending
  BY OneMorePending DEF PushIsLost
<1>4. Program(c)
  BY DEF PipeIInv
<1> HIDE DEF p
<1>5. Programs'
  BY <1>1, <1>2 DEF PipeIInv, Programs, ButFaults
<1>6. /\ cursor'[c] = p /\ pending'[c] = pending[c] \union {p} /\ queue'[c] = queue[c]
      /\ inHand'[c] = inHand[c] /\ handled'[c] = handled[c] /\ lost'[c] = lost[c] \union {p} /\ sub'[c] = sub[c]
      /\ stream' = stream /\ expired' = expired /\ Gone' = Gone
  BY <1>1 DEF PipeIInv, Programs, ButFaults, Gone
<1>7. Bounds(c)'
  BY <1>2, <1>3, <1>4, <1>6 DEF Program, Bounds
<1>8. Unforgotten(c)'
  BY <1>2, <1>4, <1>6 DEF Program, Unforgotten
<1>9. Accounted(c)'
  BY <1>2, <1>4, <1>6 DEF Program, Accounted, Settled, Waiting
<1>10. InTurn(c)' /\ Followed(c)'
  BY <1>4, <1>6 DEF Program, InTurn, Followed, Settled
<1>11. Program(c)'
  BY <1>7, <1>8, <1>9, <1>10 DEF Program
<1>12. \A r \in Consumers \ {c} :
          UNCHANGED <<sub[r], cursor[r], pending[r], queue[r], inHand[r], handled[r], lost[r]>>
  BY <1>1 DEF PipeIInv, Programs
<1> QED BY <1>1, <1>5, <1>11, <1>12, OnlyOne

\* A message comes again, behind all the others.
LEMMA RedeliverKeeps == ASSUME PipeIInv, NEW c \in Consumers, Redeliver(c) PROVE PipeIInv'
<1> DEFINE q == queue[c]
<1>1. PICK p \in pending[c] : queue' = [queue EXCEPT ![c] = Append(q, p)]
  BY DEF Redeliver
<1>2. /\ UNCHANGED <<ButFaults, expired, sub, cursor, pending, inHand, handled, lost>>
      /\ UNCHANGED faults \/ Fault
  BY DEF Redeliver, streaming, serving, logs
<1>3. q \in Seq(Nat) /\ inHand[c] \in Nat /\ cursor[c] \in Nat /\ Program(c)
  BY DEF PipeIInv, Programs
<1>4. p \in 1 .. cursor[c]
  BY <1>1, <1>3 DEF Program, Bounds
<1> HIDE DEF q
<1>5. /\ Append(q, p) \in Seq(Nat) /\ Len(q) \in Nat /\ DOMAIN q = 1 .. Len(q)
      /\ DOMAIN Append(q, p) = 1 .. Len(q) + 1
      /\ \A k \in DOMAIN q : k \in DOMAIN Append(q, p) /\ Append(q, p)[k] = q[k]
      /\ \A k \in DOMAIN Append(q, p) : k \in DOMAIN q \/ k = Len(q) + 1
      /\ Append(q, p)[Len(q) + 1] = p
  <2>1. p \in Nat
    BY <1>3, <1>4
  <2> QED BY <1>3, <2>1, QueueGrows
<1>6. Programs'
  BY <1>1, <1>2, <1>5 DEF PipeIInv, Programs, ButFaults
<1>7. /\ cursor'[c] = cursor[c] /\ pending'[c] = pending[c] /\ queue'[c] = Append(q, p)
      /\ inHand'[c] = inHand[c] /\ handled'[c] = handled[c] /\ lost'[c] = lost[c] /\ sub'[c] = sub[c]
      /\ stream' = stream /\ expired' = expired /\ Gone' = Gone
  BY <1>1, <1>2 DEF PipeIInv, Programs, ButFaults, Gone
<1>8. Bounds(c)'
  BY <1>3, <1>4, <1>5, <1>7 DEF Program, Bounds, q
<1>9. Unforgotten(c)' /\ Followed(c)'
  BY <1>3, <1>7 DEF Program, Unforgotten, Followed, Settled
<1>10. Accounted(c)'
  <2>1. ASSUME NEW i \in 1 .. cursor[c] PROVE Settled(c, i)' \/ Waiting(c, i)'
    <3>1. Settled(c, i) \/ i = inHand[c] \/ \E k \in DOMAIN q : q[k] = i
      BY <1>3 DEF Program, Accounted, Waiting, q
    <3>2. (\E k \in DOMAIN q : q[k] = i) => \E k \in DOMAIN Append(q, p) : Append(q, p)[k] = i
      BY <1>5
    <3>3. Settled(c, i) => Settled(c, i)'
      BY <1>7 DEF Settled
    <3> QED BY <1>7, <3>1, <3>2, <3>3 DEF Waiting
  <2> QED BY <1>7, <2>1 DEF Accounted
<1>11. InTurn(c)'
  <2>1. ASSUME inHand'[c] # Nothing, NEW i \in 1 .. inHand'[c] - 1 PROVE Settled(c, i)'
    BY <1>3, <1>7, <2>1 DEF Program, InTurn, Settled
  <2>2. ASSUME NEW k \in DOMAIN Append(q, p), NEW i \in 1 .. Append(q, p)[k] - 1
        PROVE  Settled(c, i)' \/ i = inHand[c] \/ \E m \in 1 .. k - 1 : Append(q, p)[m] = i
    <3>1. CASE k \in DOMAIN q
      <4>1. Settled(c, i) \/ i = inHand[c] \/ \E m \in 1 .. k - 1 : q[m] = i
        BY <1>3, <1>5, <2>2, <3>1 DEF Program, InTurn, q
      <4>2. \A m \in 1 .. k - 1 : Append(q, p)[m] = q[m]
        BY <1>5, <3>1
      <4> QED BY <1>7, <4>1, <4>2 DEF Settled
    <3>2. CASE k = Len(q) + 1
      <4>1. i \in 1 .. cursor[c]
        BY <1>3, <1>4, <1>5, <2>2, <3>2
      <4>2. Settled(c, i) \/ i = inHand[c] \/ \E m \in DOMAIN q : q[m] = i
        BY <1>3, <4>1 DEF Program, Accounted, Waiting, q
      <4>3. \A m \in DOMAIN q : m \in 1 .. k - 1 /\ Append(q, p)[m] = q[m]
        BY <1>5, <3>2
      <4> QED BY <1>7, <4>2, <4>3 DEF Settled
    <3> QED BY <1>5, <3>1, <3>2
  <2> QED BY <1>7, <2>1, <2>2 DEF InTurn
<1>12. Program(c)'
  BY <1>8, <1>9, <1>10, <1>11 DEF Program
<1>13. \A r \in Consumers \ {c} :
          UNCHANGED <<sub[r], cursor[r], pending[r], queue[r], inHand[r], handled[r], lost[r]>>
  BY <1>1, <1>2 DEF PipeIInv, Programs
<1> QED BY <1>2, <1>6, <1>12, <1>13, OnlyOne

\* The message whose turn it is: every smaller one is settled.
LEMMA BeginKeeps == ASSUME PipeIInv, NEW c \in Consumers, Begin(c) PROVE PipeIInv'
<1> DEFINE q == queue[c]
           h == Head(q)
           t == Tail(q)
<1>1. /\ inHand[c] = Nothing /\ q # <<>>
      /\ inHand' = [inHand EXCEPT ![c] = h] /\ queue' = [queue EXCEPT ![c] = t]
      /\ UNCHANGED <<vars, expired, sub, cursor, pending, handled, lost>>
  BY DEF Begin, streaming, serving, logs
<1>2. q \in Seq(Nat) /\ cursor[c] \in Nat /\ Program(c)
  BY DEF PipeIInv, Programs
<1> HIDE DEF q
<1>3. /\ Len(q) \in Nat /\ Len(q) > 0 /\ DOMAIN q = 1 .. Len(q) /\ h = q[1] /\ h \in Nat
      /\ t \in Seq(Nat) /\ DOMAIN t = 1 .. Len(q) - 1
      /\ \A k \in 1 .. Len(q) - 1 : t[k] = q[k + 1]
  BY <1>1, <1>2, HeadTailProperties, EmptySeq, LenProperties
<1> HIDE DEF h, t
<1>4. Programs'
  BY <1>1, <1>3 DEF PipeIInv, Programs, vars
<1>5. /\ cursor'[c] = cursor[c] /\ pending'[c] = pending[c] /\ queue'[c] = t
      /\ inHand'[c] = h /\ handled'[c] = handled[c] /\ lost'[c] = lost[c] /\ sub'[c] = sub[c]
      /\ stream' = stream /\ expired' = expired /\ Gone' = Gone
  BY <1>1 DEF PipeIInv, Programs, vars, Gone
<1>6. h \in 1 .. cursor[c] /\ \A k \in DOMAIN t : t[k] \in 1 .. cursor[c]
  <2>1. \A k \in DOMAIN q : q[k] \in 1 .. cursor[c]
    BY <1>2 DEF Program, Bounds, q
  <2>2. 1 \in DOMAIN q /\ \A k \in DOMAIN t : k + 1 \in DOMAIN q
    BY <1>3
  <2> QED BY <1>3, <2>1, <2>2
<1>7. Bounds(c)'
  BY <1>2, <1>5, <1>6 DEF Program, Bounds
<1>8. Unforgotten(c)' /\ Followed(c)'
  BY <1>2, <1>5 DEF Program, Unforgotten, Followed, Settled
<1>9. ASSUME NEW i \in Nat, NEW k \in DOMAIN q, q[k] = i PROVE i = h \/ \E m \in DOMAIN t : m = k - 1 /\ t[m] = i
  <2>1. CASE k = 1
    BY <1>3, <1>9, <2>1
  <2>2. CASE k # 1
    <3>1. k - 1 \in DOMAIN t /\ (k - 1) + 1 = k
      BY <1>3, <2>2
    <3>2. t[k - 1] = q[k]
      BY <1>3, <3>1
    <3> QED BY <1>9, <3>1, <3>2
  <2> QED BY <2>1, <2>2
<1>10. Accounted(c)'
  <2>1. ASSUME NEW i \in 1 .. cursor[c] PROVE Settled(c, i)' \/ Waiting(c, i)'
    <3>1. Settled(c, i) \/ \E k \in DOMAIN q : q[k] = i
      BY <1>1, <1>2 DEF Program, Accounted, Waiting, q, Nothing
    <3>2. Settled(c, i) => Settled(c, i)'
      BY <1>5 DEF Settled
    <3> QED BY <1>5, <1>9, <3>1, <3>2 DEF Waiting
  <2> QED BY <1>5, <2>1 DEF Accounted
<1>11. InTurn(c)'
  <2>1. ASSUME NEW i \in 1 .. h - 1 PROVE Settled(c, i)'
    <3>1. 1 \in DOMAIN q /\ i \in 1 .. q[1] - 1 /\ i # inHand[c]
      BY <1>1, <1>3, <2>1 DEF Nothing
    <3>2. Settled(c, i) \/ i = inHand[c] \/ \E m \in 1 .. 1 - 1 : q[m] = i
      BY <1>2, <3>1 DEF Program, InTurn, q
    <3>3. Settled(c, i)
      BY <3>1, <3>2
    <3> QED BY <1>5, <3>3 DEF Settled
  <2>2. ASSUME NEW k \in DOMAIN t, NEW i \in 1 .. t[k] - 1
        PROVE  Settled(c, i)' \/ i = h \/ \E m \in 1 .. k - 1 : t[m] = i
    <3>1. k + 1 \in DOMAIN q /\ i \in 1 .. q[k + 1] - 1 /\ k \in Nat
      BY <1>3, <2>2
    <3>2. Settled(c, i) \/ i = inHand[c] \/ \E m \in 1 .. (k + 1) - 1 : q[m] = i
      BY <1>2, <3>1 DEF Program, InTurn, q
    <3>3. ASSUME NEW m \in 1 .. (k + 1) - 1, q[m] = i
          PROVE  i = h \/ \E n \in 1 .. k - 1 : t[n] = i
      <4>1. m \in DOMAIN q /\ i \in Nat
        BY <1>3, <2>2, <3>3
      <4>2. i = h \/ \E n \in DOMAIN t : n = m - 1 /\ t[n] = i
        BY <1>9, <3>3, <4>1
      <4>3. \A n \in DOMAIN t : n = m - 1 => n \in 1 .. k - 1
        BY <1>3, <3>1
      <4> QED BY <4>2, <4>3
    <3>4. i # inHand[c]
      BY <1>1 DEF Nothing
    <3>5. Settled(c, i) => Settled(c, i)'
      BY <1>5 DEF Settled
    <3> QED BY <3>2, <3>3, <3>4, <3>5
  <2> QED BY <1>5, <2>1, <2>2 DEF InTurn
<1>12. Program(c)'
  BY <1>7, <1>8, <1>10, <1>11 DEF Program
<1>13. \A r \in Consumers \ {c} :
          UNCHANGED <<sub[r], cursor[r], pending[r], queue[r], inHand[r], handled[r], lost[r]>>
  BY <1>1 DEF PipeIInv, Programs
<1> QED BY <1>1, <1>4, <1>12, <1>13, OnlyOne DEF vars, ButFaults

\* The message was in hand: now it is handled, acknowledged or not.
LEMMA ReturnKeeps == ASSUME PipeIInv, NEW c \in Consumers, Return(c) PROVE PipeIInv'
<1> PICK h : h = inHand[c]
  OBVIOUS
<1>1. /\ h # Nothing /\ inHand' = [inHand EXCEPT ![c] = Nothing]
      /\ handled' = [handled EXCEPT ![c] = @ \union {h}]
      /\ pending' = pending \/ pending' = [pending EXCEPT ![c] = @ \ {h}]
      /\ UNCHANGED <<ButFaults, expired, sub, cursor, queue, lost>>
      /\ UNCHANGED faults \/ Fault
  BY DEF Return, streaming
<1>2. h \in Nat /\ cursor[c] \in Nat /\ pending[c] \subseteq Nat /\ MaxAckPending \in Nat /\ Program(c)
  BY PipelineAssumption DEF PipeIInv, Programs
<1>3. Programs'
  BY <1>1, <1>2 DEF PipeIInv, Programs, ButFaults, Nothing
<1>4. /\ cursor'[c] = cursor[c] /\ pending'[c] \subseteq pending[c] /\ pending[c] \subseteq pending'[c] \union {h}
      /\ queue'[c] = queue[c] /\ inHand'[c] = Nothing /\ handled'[c] = handled[c] \union {h}
      /\ lost'[c] = lost[c] /\ sub'[c] = sub[c]
      /\ stream' = stream /\ expired' = expired /\ Gone' = Gone
  BY <1>1 DEF PipeIInv, Programs, ButFaults, Gone
<1>5. Cardinality(pending'[c] \ Gone) <= MaxAckPending
  <2>1. pending'[c] \ Gone \subseteq pending[c] \ Gone /\ pending[c] \ Gone \subseteq 1 .. cursor[c]
    BY <1>2, <1>4 DEF Program, Bounds
  <2>2. /\ Cardinality(pending'[c] \ Gone) \in Nat /\ Cardinality(pending[c] \ Gone) \in Nat
        /\ Cardinality(pending'[c] \ Gone) <= Cardinality(pending[c] \ Gone)
    BY <1>2, <2>1, FewerPending
  <2>3. Cardinality(pending[c] \ Gone) <= MaxAckPending
    BY <1>2 DEF Program, Bounds
  <2> QED BY <1>2, <2>2, <2>3
<1>6. h \in 1 .. cursor[c]
  BY <1>1, <1>2 DEF Program, Bounds, Nothing
<1>7. Bounds(c)'
  BY <1>2, <1>4, <1>5, <1>6 DEF Program, Bounds, Nothing
<1>8. Unforgotten(c)'
  BY <1>2, <1>4 DEF Program, Unforgotten
<1>9. ASSUME NEW i \in Nat, Settled(c, i) PROVE Settled(c, i)'
  BY <1>4, <1>9 DEF Settled
<1>10. Settled(c, h)'
  BY <1>4 DEF Settled
<1>11. \A i \in 1 .. h : Settled(c, i)'
  <2>1. \A i \in 1 .. h - 1 : Settled(c, i)
    BY <1>1, <1>2 DEF Program, InTurn
  <2> QED BY <1>2, <1>9, <1>10, <2>1
<1>12. Accounted(c)'
  BY <1>2, <1>4, <1>9, <1>10 DEF Program, Accounted, Waiting
<1>13. InTurn(c)'
  BY <1>2, <1>4, <1>9, <1>10 DEF Program, InTurn
<1>14. Followed(c)'
  <2>1. ASSUME NEW j \in handled'[c], NEW i \in 1 .. j PROVE Settled(c, i)'
    <3>1. CASE j = h
      BY <1>11, <3>1
    <3>2. CASE j \in handled[c]
      BY <1>2, <1>9, <3>2 DEF Program, Followed, Bounds
    <3> QED BY <1>4, <3>1, <3>2
  <2> QED BY <2>1 DEF Followed
<1>15. Program(c)'
  BY <1>7, <1>8, <1>12, <1>13, <1>14 DEF Program
<1>16. \A r \in Consumers \ {c} :
          UNCHANGED <<sub[r], cursor[r], pending[r], queue[r], inHand[r], handled[r], lost[r]>>
  BY <1>1 DEF PipeIInv, Programs
<1> QED BY <1>1, <1>3, <1>15, <1>16, OnlyOne

\* A subscription begins, or ends with its program.
LEMMA FreshKeeps == ASSUME PipeIInv, NEW c \in Consumers, Subscribe(c) \/ Exit(c) PROVE PipeIInv'
<1>1. /\ sub' = [sub EXCEPT ![c] = "up"] \/ sub' = [sub EXCEPT ![c] = "down"]
      /\ cursor' = [cursor EXCEPT ![c] = 0] /\ Fresh(c)
      /\ UNCHANGED <<ButFaults, expired>> /\ (UNCHANGED faults \/ Fault)
  BY DEF Subscribe, Exit, streaming, vars, ButFaults
<1>2. Programs'
  <2>1. /\ pending' = [pending EXCEPT ![c] = {}] /\ queue' = [queue EXCEPT ![c] = <<>>]
        /\ inHand' = [inHand EXCEPT ![c] = 0] /\ handled' = [handled EXCEPT ![c] = {}]
        /\ lost' = [lost EXCEPT ![c] = {}] /\ stream' = stream
    BY <1>1 DEF Fresh, Nothing, ButFaults
  <2>2. <<>> \in Seq(Nat) /\ {} \in SUBSET Nat
    OBVIOUS
  <2>3. /\ sub' \in [Consumers -> {"down", "up", "orphan"}] /\ expired' \in 0 .. Len(stream')
        /\ cursor' \in [Consumers -> Nat]
    BY <1>1, <2>1 DEF PipeIInv, Programs
  <2>4. queue' \in [Consumers -> Seq(Nat)] /\ inHand' \in [Consumers -> Nat]
    BY <2>1, <2>2 DEF PipeIInv, Programs
  <2>5. /\ pending' \in [Consumers -> SUBSET Nat] /\ handled' \in [Consumers -> SUBSET Nat]
        /\ lost' \in [Consumers -> SUBSET Nat]
    BY <2>1, <2>2 DEF PipeIInv, Programs
  <2> QED BY <2>3, <2>4, <2>5 DEF Programs
<1>3. /\ cursor'[c] = 0 /\ pending'[c] = {} /\ queue'[c] = <<>> /\ inHand'[c] = Nothing
      /\ handled'[c] = {} /\ lost'[c] = {} /\ stream' = stream
  BY <1>1 DEF PipeIInv, Programs, ButFaults, Fresh
<1>4. Len(stream) \in Nat /\ MaxAckPending \in Nat /\ Cardinality({}) = 0
  BY LenProperties, PipelineAssumption, FS_EmptySet DEF PipeIInv, IInv, Shapes
<1>5. pending'[c] \ Gone' = {}
  BY <1>3
<1>6. Bounds(c)'
  BY <1>3, <1>4, <1>5 DEF Bounds, Nothing
<1>7. Program(c)'
  BY <1>3, <1>6 DEF Program, Unforgotten, Accounted, InTurn, Followed
<1>8. \A r \in Consumers \ {c} :
          UNCHANGED <<sub[r], cursor[r], pending[r], queue[r], inHand[r], handled[r], lost[r]>>
  BY <1>1 DEF PipeIInv, Programs, Fresh
<1> QED BY <1>1, <1>2, <1>7, <1>8, OnlyOne

LEMMA OrphanedKeeps == ASSUME PipeIInv, NEW c \in Consumers, Orphaned(c) PROVE PipeIInv'
<1>1. /\ sub' = [sub EXCEPT ![c] = "orphan"] /\ pending' = [pending EXCEPT ![c] = {}] /\ Fault
      /\ UNCHANGED <<ButFaults, expired, cursor, queue, inHand, handled, lost>>
  BY DEF Orphaned, streaming, calling, logs
<1>2. Programs'
  BY <1>1 DEF PipeIInv, Programs, ButFaults
<1>3. /\ cursor'[c] = cursor[c] /\ pending'[c] = {} /\ queue'[c] = queue[c] /\ inHand'[c] = inHand[c]
      /\ handled'[c] = handled[c] /\ lost'[c] = lost[c] /\ sub'[c] = "orphan"
      /\ stream' = stream /\ expired' = expired /\ Program(c)
  BY <1>1 DEF PipeIInv, Programs, ButFaults
<1>4. MaxAckPending \in Nat /\ Cardinality({}) = 0 /\ pending'[c] \ Gone' = {}
  BY <1>3, PipelineAssumption, FS_EmptySet
<1>5. Bounds(c)'
  BY <1>3, <1>4 DEF Program, Bounds
<1>6. Program(c)'
  BY <1>3, <1>5 DEF Program, Unforgotten, Accounted, InTurn, Followed, Settled, Waiting
<1>7. \A r \in Consumers \ {c} :
          UNCHANGED <<sub[r], cursor[r], pending[r], queue[r], inHand[r], handled[r], lost[r]>>
  BY <1>1 DEF PipeIInv, Programs
<1> QED BY <1>1, <1>2, <1>6, <1>7, OnlyOne

\* The ingestor works on, and the programs do not notice.
LEMMA IngestorKeeps ==
    ASSUME PipeIInv, [Next]_vars, UNCHANGED <<streaming, serving, calling, logs>>
    PROVE  PipeIInv'
<1>1. IInv'
  BY Step DEF PipeIInv
<1>2. Len(stream) \in Nat /\ Len(stream') \in Nat /\ Len(stream) <= Len(stream')
  BY StreamGrows DEF PipeIInv
<1>3. UNCHANGED <<expired, sub, cursor, pending, queue, inHand, handled, lost>>
  BY DEF streaming, serving, calling, logs
<1>4. Programs'
  BY <1>2, <1>3 DEF PipeIInv, Programs
<1>5. ASSUME NEW c \in Consumers PROVE Program(c)'
  BY <1>2, <1>3, Aside DEF PipeIInv
<1> QED BY <1>1, <1>4, <1>5 DEF PipeIInv

LEMMA PipeStarts == ASSUME PipeInit PROVE PipeIInv
<1>1. IInv
  BY Starts DEF PipeInit
<1>2. stream = <<>> /\ Len(stream) = 0
  BY DEF PipeInit, Init
<1>3. Programs
  BY <1>2 DEF PipeInit, Programs, Nothing
<1>4. ASSUME NEW c \in Consumers PROVE Program(c)
  <2>1. MaxAckPending \in Nat /\ Cardinality({}) = 0 /\ pending[c] \ Gone = {}
    BY PipelineAssumption, FS_EmptySet DEF PipeInit
  <2>2. Bounds(c)
    BY <1>2, <2>1 DEF PipeInit, Bounds, Nothing
  <2> QED BY <2>2 DEF PipeInit, Program, Unforgotten, Accounted, InTurn, Followed
<1> QED BY <1>1, <1>3, <1>4 DEF PipeIInv

LEMMA PipeStep == ASSUME PipeIInv, [PipeNext]_pipeVars PROVE PipeIInv'
<1>1. CASE Next /\ UNCHANGED <<streaming, serving, calling, logs>>
  BY <1>1, IngestorKeeps
<1>2. CASE Expire
  BY <1>2, ExpireKeeps
<1>3. ASSUME NEW c \in Consumers, Consuming(c) \/ Exit(c) \/ Orphaned(c) PROVE PipeIInv'
  BY <1>3, PushKeeps, PushIsLostKeeps, RedeliverKeeps, BeginKeeps, ReturnKeeps, FreshKeeps, OrphanedKeeps
     DEF Consuming
<1>4. CASE UNCHANGED pipeVars
  BY <1>4, IngestorKeeps DEF pipeVars
<1> QED BY <1>1, <1>2, <1>3, <1>4 DEF PipeNext

(***************************************************************************)
(* What holds of every behaviour.                                          *)
(***************************************************************************)
\* Each reachable state of ingestor, stream and programs satisfies the inductive
\* invariant; so what IngestorProofs shows of the ingestor holds of it here too.
THEOREM PipeInvariance == PipeSpec => []PipeIInv
<1>1. PipeInit => PipeIInv
  BY PipeStarts
<1>2. PipeIInv /\ [PipeNext]_pipeVars => PipeIInv'
  BY PipeStep
<1> QED BY <1>1, <1>2, PTL DEF PipeSpec

\* The variables have their types; a program has at most MaxAckPending messages that
\* the server still waits for (internal/nats/client.go 70-84).
THEOREM PipeTypeCorrect == PipeSpec => []PipeTypeOK
<1>1. ASSUME PipeIInv PROVE PipeTypeOK
  <2>1. TypeOK /\ expired \in 0 .. Len(stream) /\ sub \in [Consumers -> {"down", "up", "orphan"}]
    BY <1>1 DEF PipeIInv, IInv, Programs
  <2>2. ASSUME NEW c \in Consumers
        PROVE  /\ cursor[c] \in 0 .. Len(stream)
               /\ pending[c] \subseteq 1 .. cursor[c]
               /\ Cardinality(pending[c] \ Gone) <= MaxAckPending
               /\ ToSet(queue[c]) \union handled[c] \union lost[c] \subseteq 1 .. cursor[c]
               /\ inHand[c] \in 0 .. cursor[c]
    BY <1>1 DEF PipeIInv, Program, Bounds, ToSet
  <2> QED BY <2>1, <2>2 DEF PipeTypeOK
<1> QED BY <1>1, PipeInvariance, PTL

\* A message is overtaken by a later one only if it had expired or its push was lost,
\* however often messages are redelivered (internal/nats/client.go 70-84).
THEOREM Overtaking == PipeSpec => []OvertakenOnlyIfLost
<1>1. PipeIInv => OvertakenOnlyIfLost
  BY DEF PipeIInv, Program, Followed, Settled, OvertakenOnlyIfLost
<1> QED BY <1>1, PipeInvariance, PTL

\* What the server of a live subscription no longer waits for was handled or is older
\* than the stream keeps (internal/nats/client.go 70-84).
THEOREM Forgetting == PipeSpec => []ForgottenOnlyIfHandled
<1>1. ASSUME PipeIInv PROVE ForgottenOnlyIfHandled
  <2>1. ASSUME NEW c \in Consumers, sub[c] = "up", NEW i \in 1 .. cursor[c]
        PROVE  i \in pending[c] \union handled[c] \union Gone
    <3>1. i \in pending[c] \/ i \in handled[c] \/ i <= expired
      BY <1>1, <2>1 DEF PipeIInv, Program, Unforgotten
    <3>2. i \in Nat /\ i >= 1 /\ expired \in Int
      BY <1>1 DEF PipeIInv, Programs
    <3> QED BY <3>1, <3>2 DEF Gone
  <2> QED BY <2>1 DEF ForgottenOnlyIfHandled
<1> QED BY <1>1, PipeInvariance, PTL

\* The stream that the programs read is in each source's order and has whole lines
\* only, whatever the programs do.
THEOREM StreamOfThePipeline == PipeSpec => [](CutAsIfReadAtOnce /\ OnlyWholeLines /\ InOrderAtMostOnce)
<1>1. PipeIInv => CutAsIfReadAtOnce /\ OnlyWholeLines /\ InOrderAtMostOnce
  BY StreamIs DEF PipeIInv, IInv, Connection, Attached, Cut, CutAsIfReadAtOnce, OnlyWholeLines
<1> QED BY <1>1, PipeInvariance, PTL

(***************************************************************************)
(* The implementation of Delivery.                                         *)
(***************************************************************************)
\* What one place of the stream is to Delivery.
Entry(e) == [source |-> e.source, line |-> Number(e.raw)]
Entries  == [source : Sources, line : Nat]

LEMMA NumberIs == \A x \in Bodies : Number(x) = x[1][2] /\ Number(x) \in Numbers
BY BodiesAre DEF Number

LEMMA EntriesOf ==
    ASSUME NEW q \in Seq([source : Sources, raw : Bodies])
    PROVE  /\ [i \in DOMAIN q |-> Entry(q[i])] \in Seq(Entries)
           /\ Len([i \in DOMAIN q |-> Entry(q[i])]) = Len(q)
           /\ \A i \in 1 .. Len(q) : [k \in DOMAIN q |-> Entry(q[k])][i] = Entry(q[i])
<1> DEFINE f == [i \in DOMAIN q |-> Entry(q[i])]
<1>1. DOMAIN q = 1 .. Len(q) /\ Len(q) \in Nat
  BY LenProperties
<1>2. ASSUME NEW i \in 1 .. Len(q) PROVE Entry(q[i]) \in Entries
  <2>1. q[i] \in [source : Sources, raw : Bodies]
    <3> DEFINE S == [source : Sources, raw : Bodies]
    <3> HIDE DEF S
    <3>1. q \in Seq(S)
      BY DEF S
    <3>2. q[i] \in S
      BY <1>1, <3>1, ElementOfSeq
    <3> QED BY <3>2 DEF S
  <2>2. Number(q[i].raw) \in Nat
    BY <2>1, NumberIs DEF Numbers
  <2> QED BY <2>1, <2>2 DEF Entry, Entries
<1> HIDE DEF Entry
<1>3. f \in [1 .. Len(q) -> Entries] /\ \A i \in 1 .. Len(q) : f[i] = Entry(q[i])
  BY <1>1, <1>2
<1> HIDE DEF f
<1>4. f \in Seq(Entries) /\ Len(f) = Len(q)
  <2> HIDE DEF Entries
  <2>1. f \in Seq(Entries)
    BY <1>1, <1>3, SeqDef
  <2>2. DOMAIN f = 1 .. Len(q)
    BY <1>3
  <2> QED BY <1>1, <2>1, <2>2, LenProperties
<1> QED BY <1>3, <1>4 DEF f

\* A line that is stored is one more entry at the end.
LEMMA EntriesAppend ==
    ASSUME NEW q \in Seq([source : Sources, raw : Bodies]), NEW e \in [source : Sources, raw : Bodies],
           NEW t, t = Append(q, e)
    PROVE  [i \in DOMAIN t |-> Entry(t[i])] = Append([i \in DOMAIN q |-> Entry(q[i])], Entry(e))
<1> DEFINE S == [source : Sources, raw : Bodies]
           F(s) == [i \in DOMAIN s |-> Entry(s[i])]
<1>1. /\ t \in Seq(S) /\ Len(t) = Len(q) + 1 /\ Len(q) \in Nat
      /\ \A i \in 1 .. Len(q) : t[i] = q[i]
      /\ t[Len(q) + 1] = e
  <2> HIDE DEF S
  <2>1. q \in Seq(S) /\ e \in S
    BY DEF S
  <2> QED BY <2>1, AppendProperties, LenProperties
<1>2. /\ F(q) \in Seq(Entries) /\ Len(F(q)) = Len(q) /\ \A i \in 1 .. Len(q) : F(q)[i] = Entry(q[i])
      /\ F(t) \in Seq(Entries) /\ Len(F(t)) = Len(t) /\ \A i \in 1 .. Len(t) : F(t)[i] = Entry(t[i])
  BY <1>1, EntriesOf
<1> HIDE DEF F, S
<1>3. Entry(e) \in Entries
  <2>1. Len(q) + 1 \in 1 .. Len(t)
    BY <1>1
  <2>2. F(t)[Len(q) + 1] \in Entries
    <3> HIDE DEF Entries
    <3> QED BY <1>2, <2>1, ElementOfSeq
  <2> QED BY <1>1, <1>2, <2>1, <2>2
<1> HIDE DEF Entry, Entries
<1> DEFINE u == Append(F(q), Entry(e))
<1>4. /\ u \in Seq(Entries) /\ Len(u) = Len(F(q)) + 1
      /\ \A i \in 1 .. Len(F(q)) : u[i] = F(q)[i]
      /\ u[Len(F(q)) + 1] = Entry(e)
  BY <1>2, <1>3, AppendProperties
<1> HIDE DEF u
<1>5. ASSUME NEW i \in 1 .. Len(F(t)) PROVE F(t)[i] = u[i]
  <2>1. CASE i \in 1 .. Len(q)
    BY <1>1, <1>2, <1>4, <2>1
  <2>2. CASE i = Len(q) + 1
    BY <1>1, <1>2, <1>4, <2>2
  <2> QED BY <1>1, <1>2, <2>1, <2>2
<1>6. F(t) = u
  BY <1>1, <1>2, <1>4, <1>5, SeqEqual
<1> QED BY <1>6 DEF F, u

LEMMA StoredLinesAre == StoredLines = [i \in DOMAIN stream |-> Entry(stream[i])]
BY DEF StoredLines, Entry

LEMMA StoredLength == ASSUME IInv PROVE Len(StoredLines) = Len(stream) /\ Len(stream) \in Nat
<1>1. stream \in Seq([source : Sources, raw : Bodies])
  BY DEF IInv, Shapes
<1> QED BY <1>1, EntriesOf, StoredLinesAre, LenProperties

\* A line goes to the stream: it is one of its source's, and later than the stored ones.
LEMMA PublishStores ==
    ASSUME IInv, NEW s \in Sources, Publish(s) \/ PublishFails(s), UNCHANGED <<expired, handled, lost>>
    PROVE  Whole!Store(s) \/ UNCHANGED Whole!vars
<1> DEFINE x == Head(batch[s])
           e == [source |-> s, raw |-> x]
<1>1. /\ conn[s] = "publish" /\ NextLine(s) /\ sent' = sent
      /\ stream' = stream \/ stream' = Append(stream, e)
  BY DEF Publish, PublishFails, Stored
<1>2. /\ x \in Bodies /\ x[1][2] <= sent[s]
      /\ \A i \in DOMAIN stream : stream[i].source = s => stream[i].raw[1][2] < x[1][2]
  BY <1>1, NextLineIs
<1>3. stream \in Seq([source : Sources, raw : Bodies]) /\ e \in [source : Sources, raw : Bodies]
  BY <1>2 DEF IInv, Shapes
<1>4. CASE stream' = stream
  BY <1>1, <1>4 DEF Whole!vars, StoredLines
<1>5. CASE stream' = Append(stream, e)
  <2> HIDE DEF x
  <2>1. Entry(e) = [source |-> s, line |-> x[1][2]] /\ x[1][2] \in 1 .. sent[s]
    <3>1. Number(x) = x[1][2] /\ Number(x) \in Numbers
      BY <1>2, NumberIs
    <3>2. sent[s] \in Nat
      BY IngestorAssumption DEF IInv, TypeOK
    <3>3. x[1][2] \in 1 .. sent[s]
      BY <1>2, <3>1, <3>2 DEF Numbers
    <3>4. Entry(e) = [source |-> s, line |-> x[1][2]]
      BY <3>1 DEF Entry
    <3> QED BY <3>3, <3>4
  <2> HIDE DEF e
  <2>2. StoredLines' = Append(StoredLines, Entry(e))
    <3>1. StoredLines' = [i \in DOMAIN stream' |-> Entry(stream'[i])]
      BY DEF StoredLines, Entry
    <3>2. [i \in DOMAIN stream' |-> Entry(stream'[i])] = Append([i \in DOMAIN stream |-> Entry(stream[i])], Entry(e))
      BY <1>3, <1>5, EntriesAppend
    <3> QED BY <3>1, <3>2, StoredLinesAre
  <2>3. ASSUME NEW i \in DOMAIN StoredLines, StoredLines[i].source = s
        PROVE  StoredLines[i].line < x[1][2]
    <3>1. i \in DOMAIN stream /\ stream[i].source = s /\ StoredLines[i].line = Number(stream[i].raw)
      BY <2>3 DEF StoredLines
    <3>2. stream[i].raw \in Bodies
      BY <3>1, StreamIs DEF IInv
    <3> QED BY <1>2, <3>1, <3>2, NumberIs
  <2> QED BY <1>1, <2>1, <2>2, <2>3 DEF Whole!Store
<1> QED BY <1>1, <1>4, <1>5

\* The ingestor's other steps: a line is sent, or Delivery sees nothing.
LEMMA IngestorDelivers ==
    ASSUME IInv, Next, UNCHANGED <<expired, handled, lost>>
    PROVE  [Whole!Next]_(Whole!vars)
<1>1. ASSUME NEW s \in Sources, Publish(s) \/ PublishFails(s) PROVE [Whole!Next]_(Whole!vars)
  BY <1>1, PublishStores DEF Whole!Next
<1>2. ASSUME NEW s \in Sources, SendLine(s) PROVE [Whole!Next]_(Whole!vars)
  <2>1. sent' = [sent EXCEPT ![s] = @ + 1] /\ stream' = stream
    BY <1>2 DEF SendLine
  <2>2. Whole!Send(s)
    BY <2>1 DEF Whole!Send, StoredLines
  <2> QED BY <2>2 DEF Whole!Next
<1>3. ASSUME UNCHANGED <<sent, stream>> PROVE [Whole!Next]_(Whole!vars)
  BY <1>3 DEF Whole!vars, StoredLines
<1>4. ASSUME NEW s \in Sources,
             Connect(s) \/ ResolveFails(s) \/ Select(s) \/ ReadFails(s) \/ Read(s) \/ Resume(s)
               \/ Heartbeat(s) \/ PeerVanishes(s)
      PROVE  UNCHANGED <<sent, stream>>
  BY <1>4 DEF Connect, ResolveFails, Select, ReadFails, Read, Resume, Heartbeat, PeerVanishes
<1>5. ASSUME Cancel \/ Restart PROVE UNCHANGED <<sent, stream>>
  BY <1>5 DEF Cancel, Restart
<1> QED BY <1>1, <1>2, <1>3, <1>4, <1>5 DEF Next, Ingesting

\* A program's steps: what is handled has had its turn, what is lost is the last.
LEMMA ProgramDelivers ==
    ASSUME PipeIInv, NEW c \in Consumers, Consuming(c) \/ Exit(c) \/ Orphaned(c)
    PROVE  [Whole!Next]_(Whole!vars)
<1>1. UNCHANGED <<sent, stream, expired>>
  BY DEF Consuming, Subscribe, Push, PushIsLost, Redeliver, Begin, Return, Exit, Orphaned,
         streaming, serving, calling, logs, vars, ButFaults
<1>2. UNCHANGED <<sent, StoredLines, expired>>
  BY <1>1 DEF StoredLines
<1>3. IInv /\ expired \in Nat /\ handled[c] \subseteq Nat /\ lost[c] \subseteq Nat
      /\ cursor[c] \in Nat /\ inHand[c] \in Nat /\ Program(c)
  BY DEF PipeIInv, Programs
<1>4. Len(StoredLines) = Len(stream) /\ Len(stream) \in Nat
  BY <1>3, StoredLength
<1> HIDE DEF StoredLines
<1>5. CASE Return(c)
  <2>1. handled' = [handled EXCEPT ![c] = @ \union {inHand[c]}] /\ lost' = lost
        /\ inHand[c] # Nothing
    BY <1>5 DEF Return
  <2>2. inHand[c] \in 1 .. Len(StoredLines)
    BY <1>3, <1>4, <2>1 DEF Program, Bounds, Nothing
  <2>3. ASSUME NEW i \in 1 .. inHand[c] - 1 PROVE i \in handled[c] \union lost[c] \union 1 .. expired
    <3>1. i \in handled[c] \/ i \in lost[c] \/ i <= expired
      BY <1>3, <2>1, <2>3 DEF Program, InTurn, Settled
    <3> QED BY <1>3, <2>3, <3>1
  <2>4. 1 .. inHand[c] - 1 \subseteq handled[c] \union lost[c] \union 1 .. expired
    BY <2>3
  <2>5. Whole!Handle(c)
    BY <1>2, <2>1, <2>2, <2>4 DEF Whole!Handle
  <2> QED BY <2>5 DEF Whole!Next
<1>6. CASE PushIsLost(c)
  <2> DEFINE p == NextPlace(c)
  <2>1. lost' = [lost EXCEPT ![c] = @ \union {p}] /\ handled' = handled
    BY <1>6 DEF PushIsLost
  <2>2. p \in Nat /\ cursor[c] < p /\ expired < p /\ p <= Len(stream)
    BY <1>6, NextPlaceIs DEF PushIsLost
  <2> HIDE DEF p
  <2>3. p \in expired + 1 .. Len(StoredLines)
    BY <1>3, <1>4, <2>2
  <2>4. \A j \in handled[c] \union lost[c] : j < p
    BY <1>3, <2>2 DEF Program, Bounds
  <2>5. Whole!Lose(c)
    BY <1>2, <2>1, <2>3, <2>4 DEF Whole!Lose
  <2> QED BY <2>5 DEF Whole!Next
<1>7. CASE Subscribe(c) \/ Exit(c)
  <2>1. handled' = [handled EXCEPT ![c] = {}] /\ lost' = [lost EXCEPT ![c] = {}]
    BY <1>7 DEF Subscribe, Exit, Fresh
  <2>2. Whole!Begin(c)
    BY <1>2, <2>1 DEF Whole!Begin
  <2> QED BY <2>2 DEF Whole!Next
<1>8. CASE Push(c) \/ Redeliver(c) \/ Begin(c) \/ Orphaned(c)
  <2>1. UNCHANGED <<handled, lost>>
    BY <1>8 DEF Push, Redeliver, Begin, Orphaned, logs
  <2> QED BY <1>2, <2>1 DEF Whole!vars
<1> QED BY <1>5, <1>6, <1>7, <1>8 DEF Consuming

\* Ingestor, stream and subscriptions implement Delivery: no line is invented, glued,
\* doubled in the stream or stored before an earlier one, nothing that was stored is
\* taken back, and no message is handled before its turn.
THEOREM DeliveryImplementation == PipeSpec => DeliverySpec
<1>1. PipeInit => PipeIInv
  BY PipeStarts
<1>2. PipeIInv /\ [PipeNext]_pipeVars => PipeIInv'
  BY PipeStep
<1>3. PipeInit => Whole!Init
  <2> SUFFICES ASSUME PipeInit PROVE Whole!Init
    OBVIOUS
  <2>1. stream = <<>>
    BY DEF PipeInit, Init
  <2>2. StoredLines = <<>>
    BY <2>1 DEF StoredLines
  <2> QED BY <2>2 DEF PipeInit, Init, Whole!Init
<1>4. ASSUME PipeIInv, [PipeNext]_pipeVars PROVE [Whole!Next]_(Whole!vars)
  <2>1. CASE Next /\ UNCHANGED <<streaming, serving, calling, logs>>
    BY <1>4, <2>1, IngestorDelivers DEF PipeIInv, streaming, logs
  <2>2. CASE Expire
    <3>1. UNCHANGED <<sent, StoredLines, handled, lost>> /\ expired' = expired + 1 /\ expired < Len(stream)
      BY <2>2 DEF Expire, vars, logs, StoredLines
    <3>2. Len(StoredLines) = Len(stream)
      BY <1>4, StoredLength DEF PipeIInv
    <3>3. Whole!Expire
      BY <3>1, <3>2 DEF Whole!Expire
    <3> QED BY <3>3 DEF Whole!Next
  <2>3. ASSUME NEW c \in Consumers, Consuming(c) \/ Exit(c) \/ Orphaned(c)
        PROVE  [Whole!Next]_(Whole!vars)
    BY <1>4, <2>3, ProgramDelivers
  <2>4. CASE UNCHANGED pipeVars
    BY <2>4 DEF pipeVars, vars, streaming, logs, Whole!vars, StoredLines
  <2> QED BY <1>4, <2>1, <2>2, <2>3, <2>4 DEF PipeNext
<1> QED BY <1>1, <1>2, <1>3, <1>4, PTL DEF PipeSpec, DeliverySpec, Whole!Spec

=============================================================================
