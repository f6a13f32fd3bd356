---------------------------- MODULE StatsProofs ----------------------------
(***************************************************************************)
(* Theorems about Stats, for any number of messages, kinds of line, rows,  *)
(* failures and restarts.                                                  *)
(*                                                                         *)
(* That a snapshot adds up is not inductive.  What makes it so is which    *)
(* steps the handler can still take while a reader holds the lock: Loading *)
(* says, for each counter that has been loaded, how far the counters that  *)
(* have not can run ahead of it.                                           *)
(***************************************************************************)
EXTENDS Stats, SequenceTheorems, TLAPS

In(label, labels) == IF label \in labels THEN 1 ELSE 0

\* How the counters hang together at each step of ProcessMessage.
Counting ==
    /\ count["total"] = count["parsed"] + count["failed"] + In(pc, {"counted", "lockLast", "parse"})
    /\ count["types"] + In(pc, {"type"}) <= count["parsed"]
    /\ count["stored"] + In(pc, {"type", "store"}) <= count["parsed"]
    /\ count["flights"] + In(pc, {"flight"}) <= count["stored"]
    /\ count["total"] <= messages

\* A message that has not got the lock cannot get it while the counters are loaded, so
\* one message at most can still be parsed, and one be stored.
TotalLoaded ==
    Len(snap) >= 1 =>
        /\ snap[1] - 1 <= count["parsed"] + count["failed"]
        /\ count["parsed"] + count["failed"] + In(pc, {"parse"}) <= snap[1]
ParsedLoaded ==
    Len(snap) >= 2 =>
        /\ snap[2] <= count["parsed"]
        /\ count["parsed"] + In(pc, {"parse"}) <= snap[2] + 1
        /\ snap[1] - 1 <= snap[2] + count["failed"]
FailedLoaded ==
    Len(snap) >= 3 => snap[1] - 1 <= snap[2] + snap[3] /\ snap[2] + snap[3] <= snap[1]
StoredLoaded ==
    Len(snap) >= 4 =>
        /\ snap[4] <= snap[2] + 1
        /\ count["stored"] + In(pc, {"parse", "type", "store"}) <= snap[4] + 1
FlightsLoaded == Len(snap) >= 5 => snap[5] <= snap[4] + 1

Loading == TotalLoaded /\ ParsedLoaded /\ FailedLoaded /\ StoredLoaded /\ FlightsLoaded

RowType == [life : Nat, total : Nat, parsed : Nat, failed : Nat, stored : Nat,
            flights : Nat, types : Nat, uptime : Nat]
Consistents == {row \in RowType : Consistent(row)}

Snapping ==
    /\ snap \in Seq(Nat)
    /\ at["persist"] \in {"off", "wait", "get"} => snap = <<>>
    /\ at["persist"] = "load" => Len(snap) <= 5 /\ Loading
    /\ at["persist"] = "taken" => Len(snap) = 7 /\ Row(snap) \in Consistents

\* Before main has started the readers, and after the process has ended, there are none.
Resting == pc \in {"start", "shutdown", "killed"} => at["persist"] = "off"

IInv == TypeOK /\ Counting /\ Snapping /\ Resting /\ rows \in Seq(Consistents)

(***************************************************************************)
(* Lines.                                                                  *)
(***************************************************************************)
LEMMA ColumnBounds ==
    \A a \in Attributes : Column[a] \in Nat /\ (a # "ground" => Column[a] <= 18)
BY DEF Attributes, Column

\* What a line is read for, and that is_on_ground is read only where it has that field.
LEMMA ReadIsOfAttributes ==
    ASSUME NEW line
    PROVE  /\ Read(line) \subseteq Attributes
           /\ "ground" \in Read(line) => Column["ground"] < line.len
<1>1. Carried(line.type) \subseteq Attributes
  BY DEF Carried, Attributes
<1>2. "hex" \in Attributes /\ "hex" # "ground"
  BY DEF Attributes
<1> QED BY <1>1, <1>2 DEF Read, Guarded

\* Whatever a line claims to be, ParseMessage (parser.go 32-211) looks at no field it
\* does not have: the one check of its length is enough for every type.
LEMMA IndexesInRange == \A line \in Lines : InRange(line)
<1> SUFFICES ASSUME NEW line \in Lines PROVE Indexed(line) \subseteq 0 .. line.len - 1
  BY DEF InRange
<1>1. line.len \in Nat \ {0}
  BY LinesAssumption
<1>2. CASE IsStandard(line)
  <2>1. line.len >= 22
    BY <1>1, <1>2 DEF IsStandard, LongEnough
  <2>2. \A a \in Read(line) : Column[a] \in 0 .. line.len - 1
    <3> SUFFICES ASSUME NEW a \in Read(line) PROVE Column[a] \in 0 .. line.len - 1
      OBVIOUS
    <3>1. a \in Attributes
      BY ReadIsOfAttributes
    <3>2. CASE a = "ground"
      BY <1>1, <3>1, <3>2, ColumnBounds, ReadIsOfAttributes
    <3>3. CASE a # "ground"
      BY <1>1, <2>1, <3>1, <3>3, ColumnBounds
    <3> QED BY <3>2, <3>3
  <2>3. Indexed(line) \subseteq {0, 1} \union {Column[a] : a \in Read(line)}
    BY <1>2 DEF Indexed
  <2> QED BY <1>1, <2>1, <2>2, <2>3
<1>3. CASE ~IsStandard(line) /\ IsStatus(line)
  <2>1. line.len >= 10
    BY <1>1, <1>3 DEF IsStatus, LongEnough, TypeOfPrefix
  <2> QED BY <1>1, <1>3, <2>1 DEF Indexed
<1>4. CASE ~IsStandard(line) /\ ~IsStatus(line)
  BY <1>1, <1>4 DEF Indexed
<1> QED BY <1>2, <1>3, <1>4

\* The type of a line that parses is one of MessageTypes: read, or told by the prefix.
LEMMA TypesOfLines == \A line \in Lines : Parses(line) => TypeOf(line) \in 0 .. 12
BY DEF Parses, TypeOf, IsStandard, IsStatus, MessageTypes, TypeOfPrefix

(***************************************************************************)
(* Rows and snapshots.                                                     *)
(***************************************************************************)
LEMMA NewestOf ==
    ASSUME NEW S, NEW s \in Seq(S)
    PROVE  Newest(s) \in Seq(S) /\ Len(Newest(s)) <= Retained
<1>1. Len(s) \in Nat /\ Retained \in Nat \ {0}
  BY StatsAssumption
<1>2. CASE Len(s) <= Retained
  BY <1>2 DEF Newest
<1>3. CASE Len(s) > Retained
  <2> DEFINE from == Len(s) - Retained + 1
  <2>1. from \in 1 .. Len(s) + 1 /\ Len(s) - from + 1 = Retained
    BY <1>1, <1>3
  <2>2. SubSeq(s, from, Len(s)) \in Seq(S) /\ Len(SubSeq(s, from, Len(s))) = Retained
    BY <1>1, <2>1
  <2> QED BY <1>1, <1>3, <2>2 DEF Newest
<1> QED BY <1>1, <1>2, <1>3

\* The retention policy drops rows and changes none.
LEMMA InsertKeeps ==
    ASSUME IInv, at["persist"] = "taken", InsertRow
    PROVE  rows' \in Seq(Consistents) /\ Len(rows') <= Retained
<1>1. Append(rows, Row(snap)) \in Seq(Consistents)
  BY DEF IInv, Snapping
<1> QED BY <1>1, NewestOf DEF InsertRow

(***************************************************************************)
(* The inductive invariant.                                                *)
(***************************************************************************)
LEMMA Initially == Init => IInv
<1> SUFFICES ASSUME Init PROVE IInv
  OBVIOUS
<1>1. Len(snap) = 0 /\ Len(rows) = 0 /\ snap \in Seq(Nat) /\ rows \in Seq(Consistents)
  BY DEF Init, NoSnap
<1>2. TypeOK
  <2>1. count \in [Counters -> 0 .. MaxMessages]
    BY StatsAssumption DEF Init, Zeros
  <2>2. at \in [Readers -> {"off", "wait", "get", "load", "taken"}] /\ at["persist"] = "off"
    BY DEF Init, Readers
  <2>3. Len(Loaded) = 5
    BY DEF Loaded
  <2>4. /\ pc = "start" /\ msgType = 0 /\ since = 0
        /\ low = 0 /\ life = 0 /\ messages = 0 /\ dbFaults = 0
    BY DEF Init
  <2>6. active \in BOOLEAN /\ dbSet \in BOOLEAN
    BY DEF Init
  <2>5. Len(snap) <= Len(Loaded) + 2 /\ Len(rows) <= Retained
    BY <1>1, <2>3, StatsAssumption
  <2> QED BY <2>1, <2>2, <2>4, <2>5, <2>6, StatsAssumption DEF TypeOK
<1>3. Counting /\ Snapping /\ Resting
  BY <1>1, StatsAssumption DEF Init, Counting, In, Snapping, Resting, Zeros, Counters, NoSnap, Readers
<1> QED BY <1>1, <1>2, <1>3 DEF IInv

\* The counters are numbers.
LEMMA Numbers ==
    ASSUME IInv
    PROVE  /\ count["total"] \in Nat /\ count["parsed"] \in Nat /\ count["failed"] \in Nat
           /\ count["stored"] \in Nat /\ count["flights"] \in Nat /\ count["types"] \in Nat
           /\ messages \in Nat /\ messages <= MaxMessages
BY StatsAssumption DEF IInv, TypeOK, Counters

\* What a step of the handler does to the counters while a reader holds the lock:
\* parsed and failed do not fall, and no message is counted that was not on its way.
Slowly ==
    /\ count'["parsed"] >= count["parsed"] /\ count'["failed"] >= count["failed"]
    /\ count'["parsed"] + count'["failed"] + In(pc', {"parse"})
         <= count["parsed"] + count["failed"] + In(pc, {"parse"})
    /\ count'["parsed"] + In(pc', {"parse"}) <= count["parsed"] + In(pc, {"parse"})
    /\ count'["stored"] + In(pc', {"parse", "type", "store"})
         <= count["stored"] + In(pc, {"parse", "type", "store"})

\* A part of TypeOK, which the steps below need of the next state.
Counted == count \in [Counters -> Nat]

\* Such a step keeps what Loading says of a half-taken snapshot.
LEMMA LoadingKept ==
    ASSUME IInv, Counted', snap' = snap, Loading, Slowly
    PROVE  Loading'
<1>1. PICK p \in Nat, f \in Nat, s \in Nat, toParse \in Nat, toStore \in Nat :
           /\ p = count["parsed"] /\ f = count["failed"] /\ s = count["stored"]
           /\ toParse = In(pc, {"parse"}) /\ toStore = In(pc, {"parse", "type", "store"})
  <2>1. count["parsed"] \in Nat /\ count["failed"] \in Nat /\ count["stored"] \in Nat
    BY StatsAssumption DEF IInv, TypeOK, Counters
  <2>2. In(pc, {"parse"}) \in Nat /\ In(pc, {"parse", "type", "store"}) \in Nat
    BY DEF In
  <2> QED BY <2>1, <2>2
<1>2. PICK p2 \in Nat, f2 \in Nat, s2 \in Nat, toParse2 \in Nat, toStore2 \in Nat :
           /\ p2 = count'["parsed"] /\ f2 = count'["failed"] /\ s2 = count'["stored"]
           /\ toParse2 = In(pc', {"parse"}) /\ toStore2 = In(pc', {"parse", "type", "store"})
  <2>1. count'["parsed"] \in Nat /\ count'["failed"] \in Nat /\ count'["stored"] \in Nat
    BY DEF Counted, Counters
  <2>2. In(pc', {"parse"}) \in Nat /\ In(pc', {"parse", "type", "store"}) \in Nat
    BY DEF In
  <2> QED BY <2>1, <2>2
<1>3. /\ p2 >= p /\ f2 >= f
      /\ p2 + f2 + toParse2 <= p + f + toParse
      /\ p2 + toParse2 <= p + toParse
      /\ s2 + toStore2 <= s + toStore
  BY <1>1, <1>2 DEF Slowly
<1>4. TotalLoaded'
  <2> SUFFICES ASSUME Len(snap) >= 1
               PROVE  snap[1] - 1 <= p2 + f2 /\ p2 + f2 + toParse2 <= snap[1]
    BY <1>2 DEF TotalLoaded
  <2>1. PICK first \in Nat : first = snap[1]
    BY DEF IInv, Snapping
  <2>2. first - 1 <= p + f /\ p + f + toParse <= first
    BY <1>1, <2>1 DEF Loading, TotalLoaded
  <2>3. first - 1 <= p2 + f2 /\ p2 + f2 + toParse2 <= first
    BY <1>3, <2>2
  <2> QED BY <2>1, <2>3
<1>5. ParsedLoaded'
  <2> SUFFICES ASSUME Len(snap) >= 2
               PROVE  /\ snap[2] <= p2
                      /\ p2 + toParse2 <= snap[2] + 1
                      /\ snap[1] - 1 <= snap[2] + f2
    BY <1>2 DEF ParsedLoaded
  <2>1. PICK first \in Nat, second \in Nat : first = snap[1] /\ second = snap[2]
    BY DEF IInv, Snapping
  <2>2. second <= p /\ p + toParse <= second + 1 /\ first - 1 <= second + f
    BY <1>1, <2>1 DEF Loading, ParsedLoaded
  <2>3. second <= p2 /\ p2 + toParse2 <= second + 1 /\ first - 1 <= second + f2
    BY <1>3, <2>2
  <2> QED BY <2>1, <2>3
<1>6. FailedLoaded' /\ FlightsLoaded'
  BY DEF Loading, FailedLoaded, FlightsLoaded
<1>7. StoredLoaded'
  <2> SUFFICES ASSUME Len(snap) >= 4
               PROVE  snap[4] <= snap[2] + 1 /\ s2 + toStore2 <= snap[4] + 1
    BY <1>2 DEF StoredLoaded
  <2>1. PICK fourth \in Nat : fourth = snap[4]
    BY DEF IInv, Snapping
  <2>2. snap[4] <= snap[2] + 1 /\ s + toStore <= fourth + 1
    BY <1>1, <2>1 DEF Loading, StoredLoaded
  <2>3. s2 + toStore2 <= fourth + 1
    BY <1>3, <2>2
  <2> QED BY <2>1, <2>2, <2>3
<1> QED BY <1>4, <1>5, <1>6, <1>7 DEF Loading

PcOfHandler == {"idle", "counted", "lockLast", "parse", "type", "store", "flight", "gauges", "lockTime"}

\* A step from one label of ProcessMessage to another, which may raise one counter.
Walks(from, to) == pc = from /\ pc' = to

\* The counters stay in their range when each is at most the messages there were.
LEMMA CountersInRange ==
    ASSUME IInv, messages' \in 0 .. MaxMessages, Counting',
           count' = count \/ (\E c \in Counters : count' = [count EXCEPT ![c] = @ + 1])
    PROVE  count' \in [Counters -> 0 .. MaxMessages]
<1>1. CASE count' = count
  BY <1>1 DEF IInv, TypeOK
<1>2. CASE \E c \in Counters : count' = [count EXCEPT ![c] = @ + 1]
  <2>1. PICK c \in Counters : count' = [count EXCEPT ![c] = @ + 1]
    BY <1>2
  <2>2. \A d \in Counters : count[d] \in Nat
    BY StatsAssumption DEF IInv, TypeOK
  <2>3. count' \in [Counters -> Nat]
    BY <2>1, <2>2 DEF IInv, TypeOK
  <2>4. PICK t \in Nat, p \in Nat, f \in Nat, s \in Nat, g \in Nat, y \in Nat :
             /\ t = count'["total"] /\ p = count'["parsed"] /\ f = count'["failed"]
             /\ s = count'["stored"] /\ g = count'["flights"] /\ y = count'["types"]
    BY <2>3 DEF Counters
  <2>5. PICK i \in {0, 1}, j \in {0, 1}, k \in {0, 1}, l \in {0, 1} :
             /\ t = p + f + i /\ y + j <= p /\ s + k <= p /\ g + l <= s /\ t <= messages'
    BY <2>4 DEF Counting, In
  <2>6. PICK max \in Nat : max = MaxMessages /\ messages' \in Nat /\ messages' <= max
    BY StatsAssumption
  <2>7. t <= max /\ p <= max /\ f <= max /\ s <= max /\ g <= max /\ y <= max
    BY <2>5, <2>6
  <2>8. \A d \in Counters : count'[d] \in 0 .. MaxMessages
    BY <2>4, <2>6, <2>7 DEF Counters
  <2> QED BY <2>3, <2>8
<1> QED BY <1>1, <1>2

\* The handler relates to a reader by the lock only.
LEMMA HandlerKeeps == IInv /\ (Receive \/ Handling) => IInv'
<1> SUFFICES ASSUME IInv, Receive \/ Handling PROVE IInv'
  OBVIOUS
<1>1. /\ rows' = rows /\ at' = at /\ snap' = snap /\ life' = life
      /\ low' = low /\ dbSet' = dbSet /\ dbFaults' = dbFaults
  BY DEF Receive, Handling, AskForLock, UpdateLastMessageTime, ParseFails, ParseOk,
         IncrementMessageType, NotStored, StateStored, FlightFails, FlightDone, SetActive,
         AddProcessingTime, reading, process, table
<1>2. /\ active' \in BOOLEAN /\ since' \in 0 .. MaxSince /\ msgType' \in 0 .. 12
      /\ messages' \in 0 .. MaxMessages
      /\ count' = count \/ (\E c \in Counters : count' = [count EXCEPT ![c] = @ + 1])
  <2> USE StatsAssumption DEF IInv, TypeOK, Return, Increment, Counters
  <2>1. CASE Receive
    BY <2>1 DEF Receive
  <2>2. CASE ParseOk
    BY <2>2, TypesOfLines DEF ParseOk, BadLines
  <2>3. CASE AskForLock
    BY <2>3 DEF AskForLock
  <2>4. CASE NotStored
    BY <2>4 DEF NotStored
  <2>5. CASE FlightFails
    BY <2>5 DEF FlightFails
  <2>6. CASE AddProcessingTime
    BY <2>6 DEF AddProcessingTime
  <2>7. CASE UpdateLastMessageTime
    BY <2>7 DEF UpdateLastMessageTime
  <2>8. CASE ParseFails
    BY <2>8 DEF ParseFails
  <2>9. CASE IncrementMessageType
    BY <2>9 DEF IncrementMessageType
  <2>10. CASE StateStored
    BY <2>10 DEF StateStored
  <2>11. CASE FlightDone
    BY <2>11 DEF FlightDone
  <2>12. CASE SetActive
    BY <2>12 DEF SetActive
  <2> QED BY <2>1, <2>2, <2>3, <2>4, <2>5, <2>6, <2>7, <2>8, <2>9, <2>10, <2>11, <2>12 DEF Handling
<1>3. Counting' /\ Resting' /\ pc' \in PcOfHandler /\ (at["persist"] = "load" => Slowly)
  <2>13. Counting /\ Resting
    BY DEF IInv
  <2> USE <2>13, Numbers DEF Counting, Resting, Slowly, In, PcOfHandler
  <2>1. CASE Receive
    <3>1. Walks("idle", "counted") /\ messages' = messages + 1 /\ count' = [count EXCEPT !["total"] = @ + 1]
      BY <2>1 DEF Receive, Goto, Return, Increment, Walks
    <3>2. /\ count'["total"] = count["total"] + 1 /\ count'["parsed"] = count["parsed"]
          /\ count'["failed"] = count["failed"] /\ count'["stored"] = count["stored"]
          /\ count'["flights"] = count["flights"] /\ count'["types"] = count["types"]
      BY <3>1 DEF IInv, TypeOK, Counters
    <3> QED BY <1>1, <3>1, <3>2 DEF Walks
  <2>2. CASE AskForLock
    <3>1. Walks("counted", "lockLast") /\ count' = count /\ messages' = messages
      BY <2>2 DEF AskForLock, Goto, Return, Walks
    <3> QED BY <1>1, <3>1 DEF Walks
  <2>3. CASE UpdateLastMessageTime
    <3>1. Walks("lockLast", "parse") /\ count' = count /\ messages' = messages
      BY <2>3 DEF UpdateLastMessageTime, Goto, Return, Walks
    <3>2. at["persist"] # "load"
      BY <2>3 DEF UpdateLastMessageTime, CanLock, Reading, Readers
    <3> QED BY <1>1, <3>1, <3>2 DEF Walks
  <2>4. CASE ParseFails
    <3>1. Walks("parse", "idle") /\ messages' = messages /\ count' = [count EXCEPT !["failed"] = @ + 1]
      BY <2>4 DEF ParseFails, Goto, Return, Increment, Walks
    <3>2. /\ count'["total"] = count["total"] /\ count'["parsed"] = count["parsed"]
          /\ count'["failed"] = count["failed"] + 1 /\ count'["stored"] = count["stored"]
          /\ count'["flights"] = count["flights"] /\ count'["types"] = count["types"]
      BY <3>1 DEF IInv, TypeOK, Counters
    <3> QED BY <1>1, <3>1, <3>2 DEF Walks
  <2>5. CASE ParseOk
    <3>1. Walks("parse", "type") /\ messages' = messages /\ count' = [count EXCEPT !["parsed"] = @ + 1]
      BY <2>5 DEF ParseOk, Goto, Return, Increment, Walks
    <3>2. /\ count'["total"] = count["total"] /\ count'["parsed"] = count["parsed"] + 1
          /\ count'["failed"] = count["failed"] /\ count'["stored"] = count["stored"]
          /\ count'["flights"] = count["flights"] /\ count'["types"] = count["types"]
      BY <3>1 DEF IInv, TypeOK, Counters
    <3> QED BY <1>1, <3>1, <3>2 DEF Walks
  <2>6. CASE IncrementMessageType
    <3>1. Walks("type", "store") /\ messages' = messages
      BY <2>6 DEF IncrementMessageType, Goto, Walks
    <3>2. \/ count' = count
          \/ count' = [count EXCEPT !["types"] = @ + 1]
      BY <2>6 DEF IncrementMessageType, Increment
    <3>3. /\ count'["total"] = count["total"] /\ count'["parsed"] = count["parsed"]
          /\ count'["failed"] = count["failed"] /\ count'["stored"] = count["stored"]
          /\ count'["flights"] = count["flights"]
          /\ count'["types"] = count["types"] \/ count'["types"] = count["types"] + 1
      BY <3>2 DEF IInv, TypeOK, Counters
    <3> QED BY <1>1, <3>1, <3>3 DEF Walks
  <2>7. CASE NotStored
    <3>1. Walks("store", "idle") /\ count' = count /\ messages' = messages
      BY <2>7 DEF NotStored, Goto, Return, Walks
    <3> QED BY <1>1, <3>1 DEF Walks
  <2>8. CASE StateStored
    <3>1. Walks("store", "flight") /\ messages' = messages /\ count' = [count EXCEPT !["stored"] = @ + 1]
      BY <2>8 DEF StateStored, Goto, Return, Increment, Walks
    <3>2. /\ count'["total"] = count["total"] /\ count'["parsed"] = count["parsed"]
          /\ count'["failed"] = count["failed"] /\ count'["stored"] = count["stored"] + 1
          /\ count'["flights"] = count["flights"] /\ count'["types"] = count["types"]
      BY <3>1 DEF IInv, TypeOK, Counters
    <3> QED BY <1>1, <3>1, <3>2 DEF Walks
  <2>9. CASE FlightFails
    <3>1. Walks("flight", "idle") /\ count' = count /\ messages' = messages
      BY <2>9 DEF FlightFails, Goto, Return, Walks
    <3> QED BY <1>1, <3>1 DEF Walks
  <2>10. CASE FlightDone
    <3>1. Walks("flight", "gauges") /\ messages' = messages /\ count' = [count EXCEPT !["flights"] = @ + 1]
      BY <2>10 DEF FlightDone, Goto, Return, Increment, Walks
    <3>2. /\ count'["total"] = count["total"] /\ count'["parsed"] = count["parsed"]
          /\ count'["failed"] = count["failed"] /\ count'["stored"] = count["stored"]
          /\ count'["flights"] = count["flights"] + 1 /\ count'["types"] = count["types"]
      BY <3>1 DEF IInv, TypeOK, Counters
    <3> QED BY <1>1, <3>1, <3>2 DEF Walks
  <2>11. CASE SetActive
    <3>1. Walks("gauges", "lockTime") /\ count' = count /\ messages' = messages
      BY <2>11 DEF SetActive, Goto, Return, Walks
    <3> QED BY <1>1, <3>1 DEF Walks
  <2>12. CASE AddProcessingTime
    <3>1. Walks("lockTime", "idle") /\ count' = count /\ messages' = messages
      BY <2>12 DEF AddProcessingTime, Goto, Return, Walks
    <3> QED BY <1>1, <3>1 DEF Walks
  <2> QED BY <2>1, <2>2, <2>3, <2>4, <2>5, <2>6, <2>7, <2>8, <2>9, <2>10, <2>11, <2>12 DEF Handling
<1>4. TypeOK'
  <2>1. count' \in [Counters -> 0 .. MaxMessages]
    BY <1>2, <1>3, CountersInRange
  <2> QED BY <1>1, <1>2, <1>3, <2>1 DEF IInv, TypeOK, PcOfHandler
<1>5. Snapping'
  <2>1. Counted'
    BY <1>4, StatsAssumption DEF TypeOK, Counted
  <2>2. at["persist"] = "load" => Loading'
    BY <1>1, <1>3, <2>1, LoadingKept DEF IInv, Snapping
  <2>3. Row(snap)' = Row(snap)
    BY <1>1 DEF Row
  <2> QED BY <1>1, <2>2, <2>3 DEF IInv, Snapping
<1> QED BY <1>1, <1>3, <1>4, <1>5 DEF IInv

\* Start and the end of a process leave nothing in memory but zeros.
LEMMA ProcessKeeps == IInv /\ (Start \/ Shutdown \/ Killed \/ Restart) => IInv'
<1> SUFFICES ASSUME IInv, Start \/ Shutdown \/ Killed \/ Restart PROVE IInv'
  OBVIOUS
<1>1. CASE Start \/ Restart
  <2>1. /\ UNCHANGED <<msgType, count, active, since, snap, low, rows, dbFaults, messages>>
        /\ pc \in {"start", "shutdown", "killed"} /\ pc' \in {"start", "idle"}
    BY <1>1 DEF Start, Restart, Alive, IInv, TypeOK, table, reading
  <2>2. TypeOK'
    <3>1. CASE Start
      <4>1. dbSet' = TRUE /\ pc' = "idle" /\ life' = life
        BY <3>1 DEF Start
      <4>2. at' \in [Readers -> {"off", "wait", "get", "load", "taken"}]
        BY <3>1 DEF Start
      <4> QED BY <2>1, <4>1, <4>2 DEF IInv, TypeOK
    <3>2. CASE Restart
      <4>1. dbSet' = dbSet /\ at' = at /\ pc' = "start"
        BY <3>2 DEF Restart, reading
      <4>2. life' \in 0 .. MaxRestarts
        BY <3>2, StatsAssumption DEF Restart, IInv, TypeOK
      <4> QED BY <2>1, <4>1, <4>2 DEF IInv, TypeOK
    <3> QED BY <1>1, <3>1, <3>2
  <2>3. Counting'
    BY <2>1 DEF IInv, Counting, In
  <2>4. at'["persist"] \in {"off", "wait", "get"} \/ at'["persist"] = at["persist"]
    BY <1>1 DEF Start, Restart, Readers, reading
  <2>5. CASE Start
    <3>1. at["persist"] # "load" /\ at["persist"] # "taken" => snap = <<>>
      BY DEF IInv, Snapping, TypeOK, Readers
    <3>2. at["persist"] = "off"
      BY <2>5 DEF IInv, Start, Resting
    <3> QED BY <2>1, <2>2, <2>3, <2>5, <3>1, <3>2 DEF IInv, Snapping, Start, Readers, Resting
  <2>6. CASE Restart
    <3>1. at' = at /\ snap' = snap /\ at["persist"] = "off"
      BY <2>6 DEF IInv, Restart, Alive, Resting, reading
    <3> QED BY <2>1, <2>2, <2>3, <3>1 DEF IInv, Snapping, Resting
  <2> QED BY <1>1, <2>5, <2>6
<1>2. CASE Shutdown \/ Killed
  <2>1. /\ EndsAs(pc') /\ pc' \in {"shutdown", "killed"}
    BY <1>2 DEF Shutdown, Killed, EndsAs
  <2>2. /\ msgType' = 0 /\ count' = Zeros /\ active' = FALSE /\ since' = 0 /\ dbSet' = FALSE
        /\ at' = [r \in Readers |-> "off"] /\ snap' = <<>> /\ low' = 0
        /\ rows' = rows /\ dbFaults' = dbFaults /\ life' = life /\ messages' = messages
    BY <2>1 DEF EndsAs, table, NoSnap
  <2>3. Len(snap') = 0 /\ Len(Loaded) = 5
    BY <2>2 DEF Loaded
  <2>4. count' \in [Counters -> 0 .. MaxMessages]
    BY <2>2, StatsAssumption DEF Zeros
  <2>5. /\ at' \in [Readers -> {"off", "wait", "get", "load", "taken"}] /\ at'["persist"] = "off"
        /\ 0 \in 0 .. MaxSince /\ 0 \in 0 .. MaxMessages /\ 0 \in 0 .. 12
    BY <2>2, StatsAssumption DEF Readers
  <2>6. Len(snap') <= Len(Loaded) + 2
    BY <2>3
  <2>7. /\ Len(rows') <= Retained /\ life' \in 0 .. MaxRestarts
        /\ messages' \in 0 .. MaxMessages /\ dbFaults' \in 0 .. MaxDbFaults
    BY <2>2 DEF IInv, TypeOK
  <2>8. TypeOK'
    BY <2>1, <2>2, <2>4, <2>5, <2>6, <2>7 DEF TypeOK
  <2>9. Counting'
    <3>1. /\ count'["total"] = 0 /\ count'["parsed"] = 0 /\ count'["failed"] = 0
          /\ count'["stored"] = 0 /\ count'["flights"] = 0 /\ count'["types"] = 0
      BY <2>2 DEF Zeros, Counters
    <3>2. messages' >= 0
      BY <2>2, Numbers
    <3> QED BY <2>1, <3>1, <3>2 DEF Counting, In
  <2> QED BY <2>1, <2>2, <2>8, <2>9 DEF IInv, Snapping, Readers, Resting
<1> QED BY <1>1, <1>2

\* What the readers leave alone keeps the relations between the counters.
LEMMA CountersAlone ==
    ASSUME IInv, UNCHANGED <<pc, count, messages>>, at'["persist"] = "off" <=> at["persist"] = "off"
    PROVE  Counting' /\ Resting'
BY DEF IInv, Counting, Resting, In

\* What one more element, and then two, make of a sequence of numbers.
LEMMA Appended ==
    ASSUME NEW s \in Seq(Nat), NEW c \in Nat
    PROVE  /\ Append(s, c) \in Seq(Nat) /\ Len(Append(s, c)) = Len(s) + 1
           /\ Append(s, c)[Len(s) + 1] = c
           /\ \A i \in 1 .. Len(s) : Append(s, c)[i] = s[i] /\ s[i] \in Nat
OBVIOUS

\* Five counters, the sum of the types and the uptime.
LEMMA Completed ==
    ASSUME NEW s \in Seq(Nat), Len(s) = 5, NEW x \in Nat, NEW y \in Nat
    PROVE  /\ s \o <<x, y>> \in Seq(Nat) /\ Len(s \o <<x, y>>) = 7
           /\ (s \o <<x, y>>)[6] = x /\ (s \o <<x, y>>)[7] = y
           /\ \A i \in {1, 2, 3, 4, 5} : (s \o <<x, y>>)[i] = s[i] /\ s[i] \in Nat
<1>1. <<x, y>> \in Seq(Nat) /\ Len(<<x, y>>) = 2 /\ <<x, y>>[1] = x /\ <<x, y>>[2] = y
  OBVIOUS
<1> DEFINE t == s \o <<x, y>>
<1>5. /\ t \in Seq(Nat) /\ Len(t) = 7
      /\ \A i \in 1 .. 7 : t[i] = IF i <= 5 THEN s[i] ELSE <<x, y>>[i - 5]
  <2>1. PICK w \in Seq(Nat) : w = <<x, y>> /\ Len(w) = 2
    BY <1>1
  <2>2. /\ s \o w \in Seq(Nat) /\ Len(s \o w) = Len(s) + Len(w)
        /\ \A i \in 1 .. Len(s) + Len(w) : (s \o w)[i] = IF i <= Len(s) THEN s[i] ELSE w[i - Len(s)]
    BY ConcatProperties
  <2>3. Len(s) + Len(w) = 7
    BY <2>1
  <2>4. /\ s \o w \in Seq(Nat) /\ Len(s \o w) = 7
        /\ \A i \in 1 .. 7 : (s \o w)[i] = IF i <= 5 THEN s[i] ELSE w[i - 5]
    BY <2>2, <2>3, Zenon
  <2> QED BY <2>1, <2>4, Zenon
<1>2. t \in Seq(Nat) /\ Len(t) = 7
  BY <1>5
<1>3. t[6] = x /\ t[7] = y
  <2> HIDE DEF t
  <2>1. t[6] = <<x, y>>[6 - 5] /\ t[7] = <<x, y>>[7 - 5]
    BY <1>5
  <2> QED BY <1>1, <2>1
<1>4. \A i \in {1, 2, 3, 4, 5} : t[i] = s[i] /\ s[i] \in Nat
  <2> HIDE DEF t
  <2> TAKE i \in {1, 2, 3, 4, 5}
  <2>1. i \in 1 .. 7 /\ i <= 5 /\ i \in 1 .. Len(s)
    OBVIOUS
  <2>2. t[i] = s[i]
    BY <1>5, <2>1
  <2>3. s[i] \in Nat
    BY <2>1, ElementOfSeq
  <2> QED BY <2>2, <2>3
<1> QED BY <1>2, <1>3, <1>4

\* The next counter is loaded: it is where its loop invariant starts.
LEMMA LoadKeeps == IInv /\ LoadCounter => IInv'
<1> SUFFICES ASSUME IInv, LoadCounter PROVE IInv'
  OBVIOUS
<1>1. /\ at["persist"] = "load" /\ snap \in Seq(Nat) /\ Loading /\ Len(Loaded) = 5 /\ Len(snap) \in 0 .. 4
      /\ snap' = Append(snap, count[Loaded[Len(snap) + 1]])
      /\ UNCHANGED <<handling, count, since, at, low, process, table>>
  <2>1. Len(Loaded) = 5
    BY DEF Loaded
  <2>2. /\ at["persist"] = "load" /\ Len(snap) < Len(Loaded)
        /\ snap' = Append(snap, count[Loaded[Len(snap) + 1]])
        /\ UNCHANGED <<handling, count, since, at, low, process, table>>
    BY DEF LoadCounter
  <2>3. snap \in Seq(Nat) /\ Loading
    BY <2>2 DEF IInv, Snapping
  <2>4. Len(snap) \in 0 .. 4
    <3>1. PICK k \in Nat : k = Len(snap)
      BY <2>3, LenProperties
    <3>2. k < 5
      BY <2>1, <2>2, <3>1
    <3>3. k \in 0 .. 4
      BY <3>2
    <3> QED BY <3>1, <3>3
  <2> QED BY <2>1, <2>2, <2>3, <2>4
<1>2. PICK t \in Nat, p \in Nat, f \in Nat, s \in Nat, g \in Nat :
           t = count["total"] /\ p = count["parsed"] /\ f = count["failed"]
           /\ s = count["stored"] /\ g = count["flights"]
  BY Numbers
<1>3. PICK n \in 0 .. 4 : n = Len(snap)
  BY <1>1
<1>4. count[Loaded[n + 1]] = <<t, p, f, s, g>>[n + 1]
  <2>1. n + 1 \in {1, 2, 3, 4, 5}
    OBVIOUS
  <2> QED BY <1>2, <2>1 DEF Loaded
<1>5. PICK c \in Nat : c = <<t, p, f, s, g>>[n + 1] /\ snap' = Append(snap, c)
  <2>1. n + 1 \in {1, 2, 3, 4, 5}
    OBVIOUS
  <2>2. <<t, p, f, s, g>>[n + 1] \in Nat
    BY <2>1
  <2>3. snap' = Append(snap, <<t, p, f, s, g>>[n + 1])
    BY <1>1, <1>3, <1>4, Zenon
  <2> QED BY <2>2, <2>3, Zenon
<1>6. /\ snap' \in Seq(Nat) /\ Len(snap') = n + 1 /\ snap'[n + 1] = c
      /\ \A i \in 1 .. n : snap'[i] = snap[i] /\ snap[i] \in Nat
  <2>1. /\ Append(snap, c) \in Seq(Nat) /\ Len(Append(snap, c)) = Len(snap) + 1
        /\ Append(snap, c)[Len(snap) + 1] = c
        /\ \A i \in 1 .. Len(snap) : Append(snap, c)[i] = snap[i] /\ snap[i] \in Nat
    BY <1>1, Appended
  <2> QED BY <1>3, <1>5, <2>1
<1>7. TypeOK' /\ Counting' /\ Resting' /\ rows' = rows
  <2>1. Len(snap') <= Len(Loaded) + 2
    BY <1>1, <1>6
  <2> QED BY <1>1, <2>1, CountersAlone DEF IInv, TypeOK, handling, process, table
<1>8. PICK beingParsed \in {0, 1}, beingCounted \in {0, 1}, beingStored \in {0, 1}, ofFlight \in {0, 1},
           ofStore \in {0, 1} :
           /\ beingParsed = In(pc, {"parse"}) /\ beingCounted = In(pc, {"counted", "lockLast", "parse"})
           /\ beingStored = In(pc, {"parse", "type", "store"}) /\ ofFlight = In(pc, {"flight"})
           /\ ofStore = In(pc, {"type", "store"})
  BY DEF In
<1>9. /\ beingParsed <= beingCounted /\ beingStored = beingParsed + ofStore
      /\ t = p + f + beingCounted /\ s + ofStore <= p /\ g + ofFlight <= s
  BY <1>2, <1>8 DEF IInv, Counting, In
<1>10. pc' = pc /\ count' = count
  BY <1>1 DEF handling
<1>11. Loading'
  <2>1. CASE n = 0
    <3>1. c = t /\ Len(snap') = 1 /\ snap'[1] = t
      BY <1>5, <1>6, <2>1
    <3>2. t - 1 <= p + f /\ p + f + beingParsed <= t
      BY <1>9
    <3> QED BY <1>2, <1>8, <1>10, <3>1, <3>2
         DEF Loading, TotalLoaded, ParsedLoaded, FailedLoaded, StoredLoaded, FlightsLoaded
  <2>2. CASE n = 1
    <3>1. c = p /\ Len(snap') = 2 /\ snap'[1] = snap[1] /\ snap'[2] = p /\ Len(snap) = 1
      BY <1>3, <1>5, <1>6, <2>2
    <3>2. snap[1] - 1 <= p + f /\ p + f + beingParsed <= snap[1]
      BY <1>1, <1>2, <1>8, <3>1 DEF Loading, TotalLoaded
    <3>3. p <= p /\ p + beingParsed <= p + 1
      OBVIOUS
    <3> QED BY <1>2, <1>8, <1>10, <3>1, <3>2, <3>3
         DEF Loading, TotalLoaded, ParsedLoaded, FailedLoaded, StoredLoaded, FlightsLoaded
  <2>3. CASE n = 2
    <3>1. c = f /\ Len(snap') = 3 /\ snap'[1] = snap[1] /\ snap'[2] = snap[2] /\ snap'[3] = f
          /\ Len(snap) = 2
      BY <1>3, <1>5, <1>6, <2>3
    <3>2. PICK a \in Nat, b \in Nat : a = snap[1] /\ b = snap[2]
      BY <1>6, <2>3
    <3>3. /\ a - 1 <= p + f /\ p + f + beingParsed <= a
          /\ b <= p /\ p + beingParsed <= b + 1 /\ a - 1 <= b + f
      BY <1>1, <1>2, <1>8, <3>1, <3>2 DEF Loading, TotalLoaded, ParsedLoaded
    <3>4. b + f <= a
      BY <3>3
    <3> QED BY <1>2, <1>8, <1>10, <3>1, <3>2, <3>3, <3>4
         DEF Loading, TotalLoaded, ParsedLoaded, FailedLoaded, StoredLoaded, FlightsLoaded
  <2>4. CASE n = 3
    <3>1. /\ c = s /\ Len(snap') = 4 /\ Len(snap) = 3
          /\ snap'[1] = snap[1] /\ snap'[2] = snap[2] /\ snap'[3] = snap[3] /\ snap'[4] = s
      BY <1>3, <1>5, <1>6, <2>4
    <3>2. PICK b \in Nat : b = snap[2]
      BY <1>6, <2>4
    <3>3. p + beingParsed <= b + 1
      BY <1>1, <1>2, <1>8, <3>1, <3>2 DEF Loading, ParsedLoaded
    <3>4. s <= b + 1 /\ s + beingStored <= s + 1
      BY <1>9, <3>3
    <3>5. TotalLoaded' /\ ParsedLoaded' /\ FailedLoaded'
      BY <1>1, <1>10, <3>1 DEF Loading, TotalLoaded, ParsedLoaded, FailedLoaded
    <3>6. StoredLoaded'
      BY <1>2, <1>8, <1>10, <3>1, <3>2, <3>4 DEF StoredLoaded
    <3>7. FlightsLoaded'
      BY <3>1 DEF FlightsLoaded
    <3> QED BY <3>5, <3>6, <3>7 DEF Loading
  <2>5. CASE n = 4
    <3>1. /\ c = g /\ Len(snap') = 5 /\ Len(snap) = 4
          /\ snap'[1] = snap[1] /\ snap'[2] = snap[2] /\ snap'[3] = snap[3] /\ snap'[4] = snap[4]
          /\ snap'[5] = g
      BY <1>3, <1>5, <1>6, <2>5, SMTT(30)
    <3>2. PICK d \in Nat : d = snap[4]
      BY <1>6, <2>5
    <3>3. s + beingStored <= d + 1
      BY <1>1, <1>2, <1>8, <3>1, <3>2 DEF Loading, StoredLoaded
    <3>4. g <= d + 1
      BY <1>9, <3>3
    <3>5. TotalLoaded' /\ ParsedLoaded' /\ FailedLoaded' /\ StoredLoaded'
      BY <1>1, <1>10, <3>1 DEF Loading, TotalLoaded, ParsedLoaded, FailedLoaded, StoredLoaded
    <3>6. FlightsLoaded'
      BY <3>1, <3>2, <3>4 DEF FlightsLoaded
    <3> QED BY <3>5, <3>6 DEF Loading
  <2> QED BY <2>1, <2>2, <2>3, <2>4, <2>5
<1>12. Snapping'
  <2>1. Len(snap') <= 5
    BY <1>6
  <2> QED BY <1>1, <1>6, <1>11, <2>1 DEF Snapping
<1> QED BY <1>7, <1>12 DEF IInv

\* The array is copied, and what was loaded is a row that adds up.
LEMMA EndGetStatsKeeps == IInv /\ EndGetStats => IInv'
<1> SUFFICES ASSUME IInv, EndGetStats PROVE IInv'
  OBVIOUS
<1>1. PICK types \in low .. count["types"] : snap' = snap \o <<types, since>>
  BY DEF EndGetStats
<1>2. /\ at["persist"] = "load" /\ Len(snap) = 5 /\ at' = [at EXCEPT !["persist"] = "taken"]
      /\ low' = 0 /\ UNCHANGED <<handling, count, since, process, table>>
      /\ snap \in Seq(Nat) /\ Loading
  BY DEF EndGetStats, Move, Loaded, IInv, Snapping
<1>3. types \in Nat /\ since \in Nat /\ count["types"] \in Nat /\ count["parsed"] \in Nat
  BY StatsAssumption DEF IInv, TypeOK, Counters
<1>4. /\ snap' \in Seq(Nat) /\ Len(snap') = 7 /\ snap'[6] = types /\ snap'[7] = since
      /\ snap'[1] = snap[1] /\ snap'[2] = snap[2] /\ snap'[3] = snap[3] /\ snap'[4] = snap[4]
      /\ snap'[5] = snap[5]
  <2> DEFINE row == snap \o <<types, since>>
  <2>1. /\ row \in Seq(Nat) /\ Len(row) = 7 /\ row[6] = types /\ row[7] = since
        /\ \A i \in {1, 2, 3, 4, 5} : row[i] = snap[i]
    BY <1>2, <1>3, Completed, SMTT(30)
  <2>2. snap' = row
    BY <1>1
  <2> HIDE DEF row
  <2> QED BY <2>1, <2>2
<1>5. at'["persist"] = "taken" /\ at["persist"] # "off"
      /\ at' \in [Readers -> {"off", "wait", "get", "load", "taken"}]
  BY <1>2 DEF IInv, TypeOK, Readers
<1>6. TypeOK' /\ Counting' /\ Resting' /\ rows' = rows
  <2>1. Len(snap') <= Len(Loaded) + 2
    BY <1>4 DEF Loaded
  <2>2. 0 \in 0 .. MaxMessages
    BY StatsAssumption
  <2> QED BY <1>2, <1>5, <2>1, <2>2, CountersAlone DEF IInv, TypeOK, handling, process, table
<1>7. PICK a \in Nat, b \in Nat, c \in Nat, d \in Nat, e \in Nat :
           a = snap[1] /\ b = snap[2] /\ c = snap[3] /\ d = snap[4] /\ e = snap[5]
  BY <1>2, <1>3, Completed
<1>8. /\ a - 1 <= b + c /\ b + c <= a /\ d <= b + 1 /\ e <= d + 1
  BY <1>2, <1>7 DEF Loading, FailedLoaded, StoredLoaded, FlightsLoaded
<1>9. types <= b + 1
  <2>1. PICK parsed \in Nat, x \in Nat, beingParsed \in {0, 1}, beingTyped \in {0, 1} :
             /\ parsed = count["parsed"] /\ x = count["types"]
             /\ beingParsed = In(pc, {"parse"}) /\ beingTyped = In(pc, {"type"})
    BY <1>3 DEF In
  <2>2. parsed + beingParsed <= b + 1
    BY <1>2, <1>7, <2>1 DEF Loading, ParsedLoaded
  <2>3. x + beingTyped <= parsed /\ types <= x
    BY <1>3, <2>1 DEF IInv, Counting
  <2> QED BY <1>3, <2>2, <2>3
<1>10. Row(snap)' \in Consistents
  <2>1. Row(snap)' = [life |-> life, total |-> a, parsed |-> b, failed |-> c, stored |-> d,
                      flights |-> e, types |-> types, uptime |-> since]
    BY <1>2, <1>4, <1>7 DEF Row, process
  <2>2. life \in Nat
    BY StatsAssumption DEF IInv, TypeOK
  <2> QED BY <1>3, <1>7, <1>8, <1>9, <2>1, <2>2 DEF Consistents, RowType, Consistent
<1>11. Snapping'
  BY <1>4, <1>5, <1>10 DEF Snapping
<1> QED BY <1>6, <1>11 DEF IInv

\* A reader that waits, looks or has just got the lock has loaded nothing.
LEMMA BeginKeeps == IInv /\ (BeginString \/ EndString \/ CheckDb \/ BeginGetStats) => IInv'
<1> SUFFICES ASSUME IInv, BeginString \/ EndString \/ CheckDb \/ BeginGetStats PROVE IInv'
  OBVIOUS
<1>1. /\ UNCHANGED <<pc, msgType, active, messages, count, snap, dbSet, life, rows, dbFaults>>
      /\ at' \in [Readers -> {"off", "wait", "get", "load", "taken"}]
  <2> USE DEF IInv, TypeOK, Move, handling, process, table, Readers
  <2>1. CASE BeginString \/ EndString
    BY <2>1 DEF BeginString, EndString
  <2>2. CASE CheckDb
    BY <2>2 DEF CheckDb
  <2>3. CASE BeginGetStats
    BY <2>3 DEF BeginGetStats
  <2> QED BY <2>1, <2>2, <2>3
<1>2. since' \in 0 .. MaxSince /\ low' \in 0 .. MaxMessages
  <2>1. since \in 0 .. MaxSince /\ low \in 0 .. MaxMessages /\ count["types"] \in 0 .. MaxMessages
    BY DEF IInv, TypeOK, Counters
  <2>2. CASE BeginString \/ EndString
    BY <2>1, <2>2 DEF BeginString, EndString
  <2>3. CASE CheckDb
    <3>1. low' = low /\ since' = IF since < MaxSince THEN since + 1 ELSE since
      BY <2>3 DEF CheckDb
    <3> QED BY <2>1, <3>1, StatsAssumption
  <2>4. CASE BeginGetStats
    BY <2>1, <2>4 DEF BeginGetStats
  <2> QED BY <2>2, <2>3, <2>4
<1>3. \/ at'["persist"] = at["persist"]
      \/ at["persist"] = "wait" /\ at'["persist"] \in {"get", "wait"}
      \/ at["persist"] = "get" /\ at'["persist"] = "load"
  <2> USE DEF IInv, TypeOK, Move, Readers
  <2>1. CASE BeginString \/ EndString
    BY <2>1 DEF BeginString, EndString
  <2>2. CASE CheckDb
    BY <2>2 DEF CheckDb
  <2>3. CASE BeginGetStats
    BY <2>3 DEF BeginGetStats
  <2> QED BY <2>1, <2>2, <2>3
<1>4. at'["persist"] = "off" <=> at["persist"] = "off"
  BY <1>3
<1>5. TypeOK' /\ Counting' /\ Resting'
  BY <1>1, <1>2, <1>4, CountersAlone DEF IInv, TypeOK
<1>6. Row(snap)' = Row(snap)
  BY <1>1 DEF Row
<1>7. Loading' = Loading
  BY <1>1 DEF Loading, TotalLoaded, ParsedLoaded, FailedLoaded, StoredLoaded, FlightsLoaded
<1>8. Snapping'
  <2>1. CASE at'["persist"] = at["persist"]
    BY <1>1, <1>6, <1>7, <2>1 DEF IInv, Snapping
  <2>2. CASE at["persist"] = "wait" /\ at'["persist"] \in {"get", "wait"}
    BY <1>1, <2>2 DEF IInv, Snapping
  <2>3. CASE at["persist"] = "get" /\ at'["persist"] = "load"
    <3>1. snap' = <<>> /\ snap' \in Seq(Nat)
      BY <1>1, <2>3 DEF IInv, Snapping
    <3>2. Len(snap') = 0
      BY <3>1
    <3>3. Loading'
      BY <3>2 DEF Loading, TotalLoaded, ParsedLoaded, FailedLoaded, StoredLoaded, FlightsLoaded
    <3> QED BY <2>3, <3>1, <3>2, <3>3 DEF Snapping
  <2> QED BY <1>3, <2>1, <2>2, <2>3
<1> QED BY <1>1, <1>5, <1>8 DEF IInv

\* Whether the row is stored or not, the snapshot is dropped.
LEMMA PersistKeeps == IInv /\ (StoreSystemStats \/ StoreSystemStatsFails) => IInv'
<1> SUFFICES ASSUME IInv, StoreSystemStats \/ StoreSystemStatsFails PROVE IInv'
  OBVIOUS
<1>1. /\ at["persist"] = "taken" /\ at' = [at EXCEPT !["persist"] = "wait"] /\ snap' = <<>>
      /\ UNCHANGED <<pc, msgType, active, messages, count, since, low, dbSet, life>>
  BY DEF StoreSystemStats, StoreSystemStatsFails, PersistReturns, Move, NoSnap, handling, process
<1>2. InsertRow \/ rows' = rows
  BY DEF StoreSystemStats, StoreSystemStatsFails, Fails
<1>3. rows' \in Seq(Consistents) /\ Len(rows') <= Retained
  BY <1>1, <1>2, InsertKeeps DEF IInv, TypeOK
<1>4. dbFaults' \in 0 .. MaxDbFaults
  BY StatsAssumption DEF StoreSystemStats, StoreSystemStatsFails, Fails, IInv, TypeOK
<1>5. /\ at' \in [Readers -> {"off", "wait", "get", "load", "taken"}]
      /\ at'["persist"] = "wait" /\ at["persist"] # "off"
  BY <1>1 DEF IInv, TypeOK, Readers
<1>6. TypeOK' /\ Counting' /\ Resting'
  <2>1. Len(snap') = 0 /\ Len(Loaded) = 5
    BY <1>1 DEF Loaded
  <2>2. Len(snap') <= Len(Loaded) + 2
    BY <2>1
  <2> QED BY <1>1, <1>3, <1>4, <1>5, <2>2, CountersAlone DEF IInv, TypeOK
<1>7. Snapping'
  <2>1. snap' \in Seq(Nat)
    BY <1>1
  <2> QED BY <1>1, <1>5, <2>1 DEF Snapping
<1> QED BY <1>3, <1>6, <1>7 DEF IInv

\* Nothing happens.
LEMMA StutterKeeps == IInv /\ UNCHANGED vars => IInv'
<1> SUFFICES ASSUME IInv, UNCHANGED vars PROVE IInv'
  OBVIOUS
<1> USE DEF vars
<1>1. TypeOK' = TypeOK /\ Counting' = Counting /\ Resting' = Resting
  BY DEF TypeOK, Counting, Resting, In
<1>2. Loading' = Loading /\ Row(snap)' = Row(snap)
  BY DEF Loading, TotalLoaded, ParsedLoaded, FailedLoaded, StoredLoaded, FlightsLoaded, Row
<1>3. Snapping' = Snapping
  BY <1>2 DEF Snapping
<1> QED BY <1>1, <1>3 DEF IInv

\* The invariant holds throughout: one lemma for each kind of step.
THEOREM Invariance == Spec => []IInv
<1>1. IInv /\ [Next]_vars => IInv'
  BY HandlerKeeps, ProcessKeeps, LoadKeeps, EndGetStatsKeeps, BeginKeeps, PersistKeeps, StutterKeeps
     DEF Next, Persisting
<1> QED BY Initially, <1>1, PTL DEF Spec

(***************************************************************************)
(* What follows.                                                           *)
(***************************************************************************)
\* The variables stay in their ranges, no counter is more than the messages that
\* arrived, the table keeps its size, and no reader runs before SetDB.
THEOREM TypeCorrect == Spec => []TypeOK
<1>1. IInv => TypeOK
  BY DEF IInv
<1> QED BY <1>1, Invariance, PTL

\* No snapshot of GetStats (stats.go 136-154) is torn, and no row of system_stats: however
\* many messages arrive while the counters are loaded one by one, they add up.
THEOREM SnapshotsAreWhole == Spec => []SnapshotsAddUp
<1>1. IInv => SnapshotsAddUp
  <2> SUFFICES ASSUME IInv PROVE SnapshotsAddUp
    OBVIOUS
  <2>1. at["persist"] = "taken" => Consistent(Row(snap))
    BY DEF IInv, Snapping, Consistents
  <2>2. ASSUME NEW i \in DOMAIN rows PROVE Consistent(rows[i])
    <3>1. rows[i] \in Consistents
      BY <2>2, LenProperties, ElementOfSeq DEF IInv
    <3> QED BY <3>1 DEF Consistents
  <2> QED BY <2>1, <2>2 DEF SnapshotsAddUp
<1> QED BY <1>1, Invariance, PTL

\* No line makes ParseMessage (parser.go 32-211) index a field the line does not have,
\* whatever its prefix, its type and its number of fields.
THEOREM NoIndexBeyond == Spec => []NoIndexOutOfRange
<1>1. NoIndexOutOfRange
  BY IndexesInRange DEF NoIndexOutOfRange
<1> QED BY <1>1, PTL

=============================================================================
