-------------------------- MODULE MigrationsProofs --------------------------
(***************************************************************************)
(* Theorems about Migrations, for any number of trackers, of operators who *)
(* roll back, of migrations and of faults.                                 *)
(*                                                                         *)
(* A call decides from a list that may be stale by the time it acts on it. *)
(* What keeps the schema whole is that a migration's own statements fail   *)
(* on a schema they do not fit, and that nobody changes the schema while   *)
(* another holds the locks.  The record of a migration is not protected by *)
(* these locks: a rollback of 001 that found nothing holds none when it    *)
(* deletes.  What holds then is said by Placed.                            *)
(***************************************************************************)
EXTENDS Migrations, WellFoundedInduction, TLAPS

\* Where a call may be: who holds the locks, the schema is one that the statements of
\* the holder fit; who has changed something without them rolls back 001 and was late; a
\* record that somebody deletes is there until the transaction ends.
Placed(p) ==
    /\ locked = p => /\ pc[p] \in {"record", "commit"}
                     /\ p \in late => Current(p) \in schema /\ Unused(Current(p))
                     /\ p \notin late => Works(p)
    /\ pc[p] \in {"record", "commit"} =>
            locked = p \/ (p \in Operators /\ p \in late /\ Current(p) = 1)
    /\ p \in late => pc[p] \in {"rest", "record", "commit"}
    /\ pc[p] = "rest" => p \in late
    /\ p \in deleted => pc[p] = "commit" /\ Current(p) \in recorded
    /\ p \in Operators /\ pc[p] = "commit" /\ locked = p =>
            p \in deleted \/ Current(p) \notin recorded
    /\ p \in Operators /\ pc[p] \in {"run", "rest", "record", "commit"} =>
            todo[p] = {Current(p)}

\* What a call may rely on as long as nobody rolls back, and as long as only one does.
Informed(p) ==
    /\ rollbacks = 0 /\ p \in Trackers /\ pc[p] \in {"run", "record", "commit"} =>
            Names \ todo[p] \subseteq schema
    /\ rollbacks = 0 /\ p \in Operators => pc[p] = "off"
    /\ rollbacks < 2 /\ p \in Operators =>
            /\ p \notin late
            /\ pc[p] \in {"run", "record", "commit"} => Current(p) \in schema

\* No two delete the same record, and after one call of Rollback no two are at it.
Singles ==
    /\ \A o, q \in deleted : Current(o) = Current(q) => o = q
    /\ rollbacks < 2 => \A o, q \in Operators : pc[o] # "off" /\ pc[q] # "off" => o = q

IInv ==
    /\ TypeOK /\ RecordedIsApplied /\ AppliedInOrder /\ ReadyMeansMigrated
    /\ \A p \in Processes : Placed(p) /\ Informed(p)
    /\ Singles

(***************************************************************************)
(* The next migration and the last one.                                    *)
(***************************************************************************)
\* A set of numbers that is not empty has a smallest one.
LEMMA SmallestIn ==
    ASSUME NEW S \in SUBSET Nat, S # {}
    PROVE  \E x \in S : \A y \in S : x <= y
<1> DEFINE Less == OpToRel(<, Nat)
<1>1. \A x, y \in Nat : x < y => <<x, y>> \in Less
  BY DEF OpToRel
<1>2. IsWellFoundedOn(Less, Nat)
  BY NatLessThanWellFounded
<1> HIDE DEF Less
<1>3. PICK x \in S : \A y \in S : ~ (<<y, x>> \in Less)
  BY <1>2, WFMin, Zenon
<1>4. \A y \in S : x <= y
  <2> TAKE y \in S
  <2>1. x \in Nat /\ y \in Nat
    OBVIOUS
  <2>2. ~ (y < x)
    BY <1>1, <1>3, <2>1
  <2> QED BY <2>1, <2>2
<1> QED BY <1>4

\* Migrate takes the first of the migrations it has to do.
LEMMA FirstOf ==
    ASSUME NEW S \in SUBSET Names, S # {}
    PROVE  Min(S) \in S
<1>1. S \in SUBSET Nat
  BY DEF Names
<1> QED BY <1>1, SmallestIn DEF Min

\* Rollback takes the last of those that are recorded.
LEMMA LastOf ==
    ASSUME NEW S \in SUBSET Names, S # {}
    PROVE  Max(S) \in S
<1> DEFINE T == {LastMigration - x : x \in S}
<1>1. T \in SUBSET Nat /\ T # {}
  BY MigrationsAssumption DEF Names
<1>2. PICK d \in T : \A e \in T : d <= e
  BY <1>1, SmallestIn
<1>3. PICK x \in S : d = LastMigration - x
  BY <1>2
<1>4. \A y \in S : x >= y
  <2> TAKE y \in S
  <2>1. d <= LastMigration - y
    BY <1>2
  <2>2. x \in Int /\ y \in Int /\ LastMigration \in Int
    BY MigrationsAssumption DEF Names
  <2> QED BY <1>3, <2>1, <2>2
<1> QED BY <1>4 DEF Max

(***************************************************************************)
(* Steps.                                                                  *)
(***************************************************************************)
Labels == {"off", "initialize", "read", "run", "rest", "record", "commit", "ready"}

\* Nobody but p is touched.
Aside(p) ==
    \A q \in Processes \ {p} :
        /\ pc'[q] = pc[q] /\ todo'[q] = todo[q]
        /\ locked' = q <=> locked = q
        /\ q \in late' <=> q \in late
        /\ q \in deleted' <=> q \in deleted

\* A step that changes neither the schema nor the record.
LEMMA FrameKeeps ==
    ASSUME IInv, TypeOK', NEW p \in Processes, Aside(p), UNCHANGED <<schema, remains, recorded>>,
           Placed(p)', Informed(p)',
           rollbacks' = rollbacks \/ rollbacks' = rollbacks + 1,
           p \in Trackers /\ pc'[p] = "ready" /\ rollbacks' = 0 => schema = Names,
           p \in deleted' => \A o \in deleted \ {p} : Current(o) # Current(p)',
           pc'[p] = "off" \/ pc[p] # "off" \/ p \in Trackers \/ rollbacks = 0
    PROVE  IInv'
<1>1. rollbacks \in Nat /\ rollbacks' \in Nat
  BY MigrationsAssumption DEF IInv, TypeOK
<1>2. (rollbacks' = 0 => rollbacks = 0) /\ (rollbacks' < 2 => rollbacks < 2)
  BY <1>1
<1>3. RecordedIsApplied' /\ AppliedInOrder'
  BY <1>2 DEF IInv, RecordedIsApplied, AppliedInOrder
<1>4. ReadyMeansMigrated'
  <2> SUFFICES ASSUME NEW t \in Trackers, pc'[t] = "ready", ~ (rollbacks' > 0) PROVE schema' = Names
    BY DEF ReadyMeansMigrated, Names
  <2>1. rollbacks' = 0 /\ ~ (rollbacks > 0)
    BY <1>1, <1>2
  <2>2. CASE t = p
    BY <2>1, <2>2
  <2>3. CASE t # p
    <3>1. pc[t] = "ready"
      BY <2>3 DEF Aside, Processes
    <3> QED BY <2>1, <3>1 DEF IInv, ReadyMeansMigrated
  <2> QED BY <2>2, <2>3
<1>5. ASSUME NEW q \in Processes PROVE Placed(q)' /\ Informed(q)'
  <2>1. CASE q = p
    BY <2>1
  <2>2. CASE q # p
    <3>1. /\ pc'[q] = pc[q] /\ todo'[q] = todo[q]
          /\ locked' = q <=> locked = q
          /\ q \in late' <=> q \in late
          /\ q \in deleted' <=> q \in deleted
      BY <2>2 DEF Aside
    <3>2. Current(q)' = Current(q)
      BY <3>1 DEF Current
    <3>3. Works(q)' = Works(q) /\ Unused(Current(q))' = Unused(Current(q))
      BY <3>2 DEF Works, UpWorks, DownWorks, Unused
    <3>4. Placed(q) /\ Informed(q)
      BY DEF IInv
    <3>5. Placed(q)'
      BY <3>1, <3>2, <3>3, <3>4 DEF Placed
    <3>6. Informed(q)'
      BY <1>2, <3>1, <3>2, <3>4 DEF Informed, Names
    <3> QED BY <3>5, <3>6
  <2> QED BY <2>1, <2>2
<1>6. Singles'
  <2>1. ASSUME NEW o \in deleted', NEW q \in deleted', Current(o)' = Current(q)' PROVE o = q
    <3>1. deleted' \subseteq Processes
      BY DEF TypeOK, Processes
    <3>2. \A x \in deleted' \ {p} : x \in deleted /\ Current(x)' = Current(x)
      BY <3>1 DEF Aside, Current
    <3>3. CASE o # p /\ q # p
      BY <2>1, <3>2, <3>3 DEF IInv, Singles
    <3>4. CASE o = p
      BY <2>1, <3>2, <3>4
    <3>5. CASE q = p
      BY <2>1, <3>2, <3>5
    <3> QED BY <3>3, <3>4, <3>5
  <2>2. ASSUME rollbacks' < 2, NEW o \in Operators, NEW q \in Operators, pc'[o] # "off", pc'[q] # "off"
        PROVE  o = q
    <3>1. \A x \in Operators \ {p} : pc'[x] = pc[x]
      BY DEF Aside, Processes
    <3>2. rollbacks = 0 => \A x \in Operators : pc[x] = "off"
      BY DEF IInv, Informed, Processes
    <3>3. p \in Trackers => p \notin Operators
      BY MigrationsAssumption
    <3> QED BY <1>2, <2>2, <3>1, <3>2, <3>3 DEF IInv, Singles
  <2> QED BY <2>1, <2>2 DEF Singles
<1> QED BY <1>3, <1>4, <1>5, <1>6 DEF IInv

\* A step that moves p alone.
LEMMA MovesOnly ==
    ASSUME IInv, NEW p \in Processes,
           NEW label \in Labels,
           NEW rest \in SUBSET Names, label \in {"run", "rest", "record", "commit"} => rest # {},
           pc' = [pc EXCEPT ![p] = label], todo' = [todo EXCEPT ![p] = rest]
    PROVE  /\ \A q \in Processes \ {p} : pc'[q] = pc[q] /\ todo'[q] = todo[q]
           /\ pc'[p] = label /\ todo'[p] = rest
           /\ pc' \in [Processes -> Labels]
           /\ todo' \in [Processes -> SUBSET Names]
           /\ \A q \in Processes : pc'[q] \in {"run", "rest", "record", "commit"} => todo'[q] # {}
BY DEF IInv, TypeOK, Labels

\* The end of a transaction.
LEMMA FreeIs ==
    ASSUME IInv, NEW p \in Processes, Free(p)
    PROVE  /\ locked' # p /\ p \notin late' /\ p \notin deleted'
           /\ locked' \in Processes \cup {Nobody} /\ late' \subseteq Operators /\ deleted' \subseteq Operators
           /\ \A q \in Processes \ {p} : /\ locked' = q <=> locked = q
                                         /\ q \in late' <=> q \in late
                                         /\ q \in deleted' <=> q \in deleted
<1>1. Nobody \notin Processes
  BY MigrationsAssumption DEF Processes
<1> QED BY <1>1 DEF IInv, TypeOK, Free

\* An error gives the locks back and leaves the call.
LEMMA FailsKeeps ==
    ASSUME IInv, NEW p \in Processes, Fails(p), UNCHANGED <<table, schema, remains, recorded, rollbacks>>,
           faults' \in 0 .. MaxFaults
    PROVE  IInv'
<1>1. /\ \A q \in Processes \ {p} : pc'[q] = pc[q] /\ todo'[q] = todo[q]
      /\ pc'[p] = "off"
      /\ pc' \in [Processes -> Labels]
      /\ todo' \in [Processes -> SUBSET Names]
      /\ \A q \in Processes : pc'[q] \in {"run", "rest", "record", "commit"} => todo'[q] # {}
  <2>1. pc' = [pc EXCEPT ![p] = "off"] /\ todo' = [todo EXCEPT ![p] = {}]
    BY DEF Fails
  <2>2. {} \in SUBSET Names /\ "off" \in Labels /\ ~ ("off" \in {"run", "rest", "record", "commit"})
    BY DEF Labels
  <2> QED BY <2>1, <2>2, MovesOnly, ZenonT(60)
<1>2. Free(p)
  BY DEF Fails
<1>3. TypeOK'
  BY <1>1, <1>2, FreeIs DEF IInv, TypeOK, Labels
<1>4. Aside(p)
  BY <1>1, <1>2, FreeIs DEF Aside
<1>5. locked' # p /\ p \notin late' /\ p \notin deleted'
  BY <1>2, FreeIs
<1>6. Placed(p)' /\ Informed(p)'
  BY <1>1, <1>5 DEF Placed, Informed
<1> QED BY <1>1, <1>3, <1>4, <1>5, <1>6, FrameKeeps

\* A tracker that starts has nothing to do yet.
LEMMA StartKeeps ==
    ASSUME IInv, NEW t \in Trackers, Start(t) \/ Initialize(t)
    PROVE  IInv'
<1>1. PICK label \in {"initialize", "read"} : pc' = [pc EXCEPT ![t] = label]
  BY DEF Start, Initialize
<1>2. t \in Processes /\ t \notin Operators
  BY MigrationsAssumption DEF Processes
<1>3. /\ UNCHANGED <<todo, recorded, schema, remains, locked, late, deleted, faults, rollbacks>>
      /\ table' \in BOOLEAN /\ pc[t] \in {"off", "initialize"}
  BY DEF Start, Initialize, IInv, TypeOK, db, held
<1>4. /\ \A q \in Processes \ {t} : pc'[q] = pc[q]
      /\ pc'[t] = label /\ pc' \in [Processes -> Labels]
      /\ \A q \in Processes : pc'[q] \in {"run", "rest", "record", "commit"} => todo'[q] # {}
  BY <1>1, <1>2, <1>3 DEF IInv, TypeOK, Labels
<1>5. TypeOK'
  BY <1>3, <1>4 DEF IInv, TypeOK, Labels
<1>6. Aside(t)
  BY <1>3, <1>4 DEF Aside
<1>7. locked # t /\ t \notin late /\ t \notin deleted
  BY <1>2, <1>3 DEF IInv, Placed
<1>8. Placed(t)' /\ Informed(t)'
  BY <1>2, <1>3, <1>4, <1>7 DEF Placed, Informed
<1> QED BY <1>2, <1>3, <1>4, <1>5, <1>6, <1>7, <1>8, FrameKeeps

\* From the first call of Rollback on, trackers may find migrations missing.
LEMMA RollbackKeeps ==
    ASSUME IInv, NEW o \in Operators, Rollback(o)
    PROVE  IInv'
<1>1. o \in Processes /\ o \notin Trackers
  BY MigrationsAssumption DEF Processes
<1>2. /\ UNCHANGED <<todo, table, recorded, schema, remains, locked, late, deleted, faults>>
      /\ pc[o] = "off" /\ pc' = [pc EXCEPT ![o] = "read"]
      /\ rollbacks' = rollbacks + 1 /\ rollbacks' \in 0 .. MaxRollbacks /\ rollbacks \in Nat
  BY MigrationsAssumption DEF Rollback, IInv, TypeOK, db, held
<1>3. /\ \A q \in Processes \ {o} : pc'[q] = pc[q]
      /\ pc'[o] = "read" /\ pc' \in [Processes -> Labels]
      /\ \A q \in Processes : pc'[q] \in {"run", "rest", "record", "commit"} => todo'[q] # {}
  BY <1>1, <1>2 DEF IInv, TypeOK, Labels
<1>4. TypeOK'
  BY <1>2, <1>3 DEF IInv, TypeOK, Labels
<1>5. Aside(o)
  BY <1>2, <1>3 DEF Aside
<1>6. locked # o /\ o \notin late /\ o \notin deleted
  BY <1>1, <1>2 DEF IInv, Placed
<1>7. Placed(o)' /\ Informed(o)'
  BY <1>1, <1>2, <1>3, <1>6 DEF Placed, Informed
<1>8. CASE rollbacks = 0
  BY <1>1, <1>2, <1>4, <1>5, <1>6, <1>7, <1>8, FrameKeeps
<1>9. CASE rollbacks # 0
  <2>1. rollbacks' > 1
    BY <1>2, <1>9
  <2>2. Singles'
    <3>1. \A q \in deleted : Current(q)' = Current(q)
      BY <1>2 DEF Current
    <3> QED BY <1>2, <2>1, <3>1 DEF IInv, Singles
  <2>3. RecordedIsApplied' /\ AppliedInOrder' /\ ReadyMeansMigrated'
    BY <1>2, <2>1 DEF IInv, RecordedIsApplied, AppliedInOrder, ReadyMeansMigrated
  <2>4. ASSUME NEW q \in Processes PROVE Placed(q)' /\ Informed(q)'
    <3>1. CASE q = o
      BY <1>7, <3>1
    <3>2. CASE q # o
      <4>1. pc'[q] = pc[q] /\ Placed(q) /\ Current(q)' = Current(q)
        BY <1>2, <1>3, <3>2 DEF IInv, Current
      <4>2. Works(q)' = Works(q) /\ Unused(Current(q))' = Unused(Current(q))
        BY <1>2, <4>1 DEF Works, UpWorks, DownWorks, Unused
      <4>3. Placed(q)'
        BY <1>2, <4>1, <4>2 DEF Placed
      <4>4. Informed(q)'
        BY <1>2, <2>1 DEF Informed
      <4> QED BY <4>3, <4>4
    <3> QED BY <3>1, <3>2
  <2> QED BY <1>4, <2>2, <2>3, <2>4 DEF IInv
<1> QED BY <1>8, <1>9

\* What a call wants to do is something there is, and a Rollback wants what is recorded.
LEMMA PendingOf ==
    ASSUME IInv, NEW p \in Processes
    PROVE  /\ Pending(p) \subseteq Names
           /\ p \in Operators => Pending(p) = {} \/ \E m \in recorded : Pending(p) = {m}
<1>1. recorded \in SUBSET Names /\ (p \in Operators => p \notin Trackers)
  BY MigrationsAssumption DEF IInv, TypeOK
<1> QED BY <1>1, LastOf DEF Pending

\* The list that is read is right when it is read.
LEMMA ReadKeeps ==
    ASSUME IInv, NEW p \in Processes, Read(p)
    PROVE  IInv'
<1>1. /\ UNCHANGED <<table, recorded, schema, remains, locked, late, deleted, faults, rollbacks>>
      /\ pc[p] = "read"
  BY DEF Read, db, held
<1>2. PICK label \in {"off", "run", "ready"}, rest \in SUBSET Names :
           /\ pc' = [pc EXCEPT ![p] = label] /\ todo' = [todo EXCEPT ![p] = rest]
           /\ label = "run" => rest # {} /\ rest = Pending(p)
           /\ label = "ready" => p \in Trackers /\ Pending(p) = {}
  <2>1. CASE table
    BY <2>1, PendingOf DEF Read, Continue
  <2>2. CASE ~table
    <3>1. pc' = [pc EXCEPT ![p] = "off"] /\ todo' = [todo EXCEPT ![p] = todo[p]] /\ todo[p] \in SUBSET Names
      BY <2>2 DEF Read, IInv, TypeOK
    <3> QED BY <3>1
  <2> QED BY <2>1, <2>2
<1>3. /\ \A q \in Processes \ {p} : pc'[q] = pc[q] /\ todo'[q] = todo[q]
      /\ pc'[p] = label /\ todo'[p] = rest
      /\ pc' \in [Processes -> Labels]
      /\ todo' \in [Processes -> SUBSET Names]
      /\ \A q \in Processes : pc'[q] \in {"run", "rest", "record", "commit"} => todo'[q] # {}
  <2>1. label \in Labels /\ (label \in {"run", "rest", "record", "commit"} => rest # {})
    BY <1>2 DEF Labels
  <2> QED BY <1>2, <2>1, MovesOnly
<1>4. TypeOK'
  BY <1>1, <1>3 DEF IInv, TypeOK, Labels
<1>5. Aside(p)
  BY <1>1, <1>3 DEF Aside
<1>6. p \in Trackers /\ rollbacks < 2 => Pending(p) = Names \ schema
  BY DEF Pending, IInv, RecordedIsApplied
<1>7. p \in Operators /\ label = "run" => \E m \in recorded : rest = {m}
  BY <1>2, PendingOf
<1>8. locked # p /\ p \notin late /\ p \notin deleted
  BY <1>1 DEF IInv, Placed
<1>9. p \in Operators /\ label = "run" => rest = {Current(p)'} /\ Current(p)' \in schema
  <2>1. Current(p)' = Min(rest)
    BY <1>3 DEF Current
  <2> QED BY <1>2, <1>7, <2>1, FirstOf DEF IInv, RecordedIsApplied
<1>10. Placed(p)'
  BY <1>1, <1>2, <1>3, <1>8, <1>9 DEF Placed
<1>11. Informed(p)'
  <2>1. p \in Operators => rollbacks # 0
    BY <1>1 DEF IInv, Informed
  <2>2. rollbacks = 0 /\ p \in Trackers /\ label = "run" => Names \ rest \subseteq schema
    BY <1>2, <1>6
  <2> QED BY <1>1, <1>2, <1>3, <1>8, <1>9, <2>1, <2>2 DEF Informed, Names
<1>12. p \in Trackers /\ label = "ready" /\ rollbacks = 0 => schema = Names
  <2> SUFFICES ASSUME p \in Trackers, label = "ready", rollbacks = 0 PROVE schema = Names
    OBVIOUS
  <2>1. Names \ schema = {}
    BY <1>2, <1>6
  <2>2. schema \subseteq Names
    BY DEF IInv, TypeOK
  <2> QED BY <2>1, <2>2
<1> QED BY <1>1, <1>3, <1>4, <1>5, <1>8, <1>10, <1>11, <1>12, FrameKeeps

\* The statements are run under the locks, on whatever schema there is by now.
LEMMA RunKeeps ==
    ASSUME IInv, NEW p \in Processes, Run(p)
    PROVE  IInv'
<1>1. /\ UNCHANGED <<table, recorded, schema, remains, faults, rollbacks>> /\ pc[p] = "run"
      /\ todo[p] # {} /\ todo[p] \in SUBSET Names
  BY DEF Run, IInv, TypeOK, db
<1>2. CASE /\ locked = Nobody /\ Works(p) /\ locked' = p
           /\ pc' = [pc EXCEPT ![p] = "record"] /\ UNCHANGED <<todo, late, deleted>>
  <2>1. todo' = [todo EXCEPT ![p] = todo[p]] /\ "record" \in Labels
    BY <1>2 DEF IInv, TypeOK, Labels
  <2>2. /\ \A q \in Processes \ {p} : pc'[q] = pc[q] /\ todo'[q] = todo[q]
        /\ pc'[p] = "record" /\ todo'[p] = todo[p]
        /\ pc' \in [Processes -> Labels]
        /\ todo' \in [Processes -> SUBSET Names]
        /\ \A q \in Processes : pc'[q] \in {"run", "rest", "record", "commit"} => todo'[q] # {}
    BY <1>1, <1>2, <2>1, MovesOnly
  <2>3. TypeOK'
    BY <1>1, <1>2, <2>2 DEF IInv, TypeOK, Labels
  <2>4. Nobody \notin Processes
    BY MigrationsAssumption DEF Processes
  <2>5. Aside(p)
    BY <1>2, <2>2, <2>4 DEF Aside
  <2>6. Current(p)' = Current(p) /\ Works(p)'
    BY <1>1, <1>2, <2>2 DEF Works, Current, UpWorks, DownWorks, Unused
  <2>7. p \notin late /\ p \notin deleted
    BY <1>1 DEF IInv, Placed
  <2>8. Placed(p)'
    BY <1>1, <1>2, <2>2, <2>6, <2>7 DEF IInv, Placed
  <2>9. Informed(p)'
    BY <1>1, <1>2, <2>2, <2>6, <2>7 DEF IInv, Informed, Names
  <2> QED BY <1>1, <1>2, <2>2, <2>3, <2>5, <2>7, <2>8, <2>9, FrameKeeps
<1>3. CASE Fails(p)
  BY <1>1, <1>3, FailsKeeps DEF IInv, TypeOK
<1> QED BY <1>2, <1>3 DEF Run

\* A rollback that comes late is not the only one, and touches nothing yet.
LEMMA FindNothingKeeps ==
    ASSUME IInv, NEW o \in Operators, FindNothing(o)
    PROVE  IInv'
<1>1. o \in Processes
  BY DEF Processes
<1>2. /\ UNCHANGED <<todo, table, recorded, schema, remains, locked, deleted, faults, rollbacks>>
      /\ pc[o] = "run" /\ Current(o) \notin schema
      /\ late' = late \cup {o} /\ pc' = [pc EXCEPT ![o] = "rest"]
      /\ todo[o] # {} /\ todo[o] \in SUBSET Names
  BY <1>1 DEF FindNothing, Absent, IInv, TypeOK, db
<1>3. /\ \A q \in Processes \ {o} : pc'[q] = pc[q]
      /\ pc'[o] = "rest" /\ pc' \in [Processes -> Labels]
      /\ \A q \in Processes : pc'[q] \in {"run", "rest", "record", "commit"} => todo'[q] # {}
  BY <1>1, <1>2 DEF IInv, TypeOK, Labels
<1>4. TypeOK'
  BY <1>2, <1>3 DEF IInv, TypeOK, Labels
<1>5. Aside(o)
  BY <1>2, <1>3 DEF Aside
<1>6. locked # o /\ o \notin deleted /\ Current(o)' = Current(o) /\ todo[o] = {Current(o)}
  BY <1>1, <1>2 DEF IInv, Placed, Current
<1>7. ~ (rollbacks < 2) /\ rollbacks # 0
  BY <1>1, <1>2 DEF IInv, Informed
<1>8. Placed(o)' /\ Informed(o)'
  BY <1>2, <1>3, <1>6, <1>7 DEF Placed, Informed
<1> QED BY <1>1, <1>2, <1>3, <1>4, <1>5, <1>6, <1>8, FrameKeeps

\* Its later statements find a migration that nothing builds on yet, or still nothing.
LEMMA RunRestKeeps ==
    ASSUME IInv, NEW o \in Operators, RunRest(o)
    PROVE  IInv'
<1>1. o \in Processes /\ o \notin Trackers
  BY MigrationsAssumption DEF Processes
<1>2. /\ UNCHANGED <<table, recorded, schema, remains, faults, rollbacks>>
      /\ pc[o] = "rest" /\ todo[o] # {} /\ todo[o] \in SUBSET Names
  BY <1>1 DEF RunRest, IInv, TypeOK, db
<1>3. o \in late /\ locked # o /\ o \notin deleted /\ todo[o] = {Current(o)}
  BY <1>1, <1>2 DEF IInv, Placed
<1>4. CASE Fails(o)
  BY <1>1, <1>2, <1>4, FailsKeeps DEF IInv, TypeOK
<1>5. CASE /\ pc' = [pc EXCEPT ![o] = "record"] /\ UNCHANGED <<todo, late, deleted>>
           /\ \/ /\ Current(o) \in schema /\ Unused(Current(o))
                 /\ locked = Nobody /\ locked' = o
              \/ Current(o) = 1 /\ locked' = locked
  <2>1. /\ \A q \in Processes \ {o} : pc'[q] = pc[q]
        /\ pc'[o] = "record" /\ pc' \in [Processes -> Labels]
        /\ \A q \in Processes : pc'[q] \in {"run", "rest", "record", "commit"} => todo'[q] # {}
    BY <1>1, <1>2, <1>5 DEF IInv, TypeOK, Labels
  <2>2. TypeOK'
    BY <1>1, <1>2, <1>5, <2>1 DEF IInv, TypeOK, Labels
  <2>3. Nobody \notin Processes
    BY MigrationsAssumption DEF Processes
  <2>4. Aside(o)
    BY <1>5, <2>1, <2>3 DEF Aside
  <2>5. Current(o)' = Current(o) /\ Unused(Current(o))' = Unused(Current(o))
    BY <1>2, <1>5 DEF Current, Unused
  <2>6. ~ (rollbacks < 2) /\ rollbacks # 0
    BY <1>1, <1>3 DEF IInv, Informed
  <2>7. Placed(o)' /\ Informed(o)'
    BY <1>1, <1>2, <1>3, <1>5, <2>1, <2>5, <2>6 DEF Placed, Informed
  <2> QED BY <1>1, <1>2, <1>3, <1>5, <2>1, <2>2, <2>4, <2>7, FrameKeeps
<1> QED BY <1>4, <1>5 DEF RunRest, held

\* The record is part of the transaction: nothing shows yet.
LEMMA RecordKeeps ==
    ASSUME IInv, NEW p \in Processes, Record(p)
    PROVE  IInv'
<1>1. /\ UNCHANGED <<table, recorded, schema, remains, faults, rollbacks>> /\ pc[p] = "record"
      /\ todo[p] # {} /\ todo[p] \in SUBSET Names
      /\ \A o \in deleted : Current(o) # Current(p)
  BY DEF Record, IInv, TypeOK, db
<1>2. CASE p \in Trackers /\ Current(p) \in recorded
  BY <1>1, <1>2, FailsKeeps DEF Record, IInv, TypeOK
<1>3. CASE ~ (p \in Trackers /\ Current(p) \in recorded)
  <2>1. /\ UNCHANGED <<todo, locked, late>> /\ pc' = [pc EXCEPT ![p] = "commit"]
        /\ deleted' = deleted \cup (IF Current(p) \in recorded THEN {p} ELSE {})
    BY <1>3 DEF Record
  <2>2. /\ \A q \in Processes \ {p} : pc'[q] = pc[q]
        /\ pc'[p] = "commit" /\ pc' \in [Processes -> Labels]
        /\ \A q \in Processes : pc'[q] \in {"run", "rest", "record", "commit"} => todo'[q] # {}
    BY <1>1, <2>1 DEF IInv, TypeOK, Labels
  <2>3. deleted' \subseteq Operators
    BY <1>3, <2>1 DEF IInv, TypeOK, Processes
  <2>4. TypeOK'
    BY <1>1, <2>1, <2>2, <2>3 DEF IInv, TypeOK, Labels
  <2>5. Aside(p)
    BY <2>1, <2>2 DEF Aside
  <2>6. Current(p)' = Current(p) /\ Works(p)' = Works(p) /\ Unused(Current(p))' = Unused(Current(p))
    BY <1>1, <2>1 DEF Works, Current, UpWorks, DownWorks, Unused
  <2>7. Placed(p) /\ Informed(p) /\ p \notin deleted
    BY <1>1 DEF IInv, Placed
  <2>8. Placed(p)'
    BY <1>1, <2>1, <2>2, <2>6, <2>7 DEF Placed
  <2>9. Informed(p)'
    BY <1>1, <2>1, <2>2, <2>6, <2>7 DEF Informed, Names
  <2> QED BY <1>1, <2>2, <2>4, <2>5, <2>6, <2>8, <2>9, FrameKeeps
<1> QED BY <1>2, <1>3

(***************************************************************************)
(* Commits.                                                                *)
(***************************************************************************)
\* A tracker's transaction adds a migration that fits.
Adds(p, m) ==
    /\ p \in Trackers /\ locked = p
    /\ m \notin schema /\ (m = 1 \/ m - 1 \in schema)
    /\ schema' = schema \cup {m} /\ remains' = remains \ {m} /\ recorded' = recorded \cup {m}

\* A rollback's takes one away on which nothing builds, and its record.
Removes(p, m) ==
    /\ p \in Operators /\ locked = p
    /\ m + 1 \notin schema /\ (m \in schema \/ m = 1)
    /\ schema' = schema \ {m} /\ recorded' = recorded \ {m}
    /\ p \notin late => remains' = remains \ {m}

\* Or it is late and takes no more than a record.
Forgets(p, m) ==
    /\ p \in Operators /\ p \in late /\ m = 1
    /\ UNCHANGED <<schema, remains>> /\ recorded' \in {recorded, recorded \ {1}}

\* There are no other commits, and none takes a record that another is deleting.
LEMMA EffectIs ==
    ASSUME IInv, NEW p \in Processes, pc[p] = "commit", TakesEffect(p), NEW m, m = Current(p)
    PROVE  /\ m \in Names
           /\ Adds(p, m) \/ Removes(p, m) \/ Forgets(p, m)
           /\ \A q \in deleted \ {p} : Current(q) \in recorded'
<1>1. Placed(p) /\ todo[p] # {} /\ todo[p] \subseteq Names /\ recorded \subseteq Names
  BY DEF IInv, TypeOK
<1>2. m \in Names
  BY <1>1, FirstOf DEF Current
<1>3. (p \in Trackers \/ p \in Operators) /\ (p \in Trackers => p \notin Operators)
  BY MigrationsAssumption DEF Processes
<1>4. late \subseteq Operators /\ deleted \subseteq Operators
  BY DEF IInv, TypeOK
<1>5. CASE p \in Trackers
  <2>1. locked = p /\ Works(p)
    BY <1>1, <1>3, <1>4, <1>5 DEF Placed
  <2>2. Adds(p, m)
    BY <1>5, <2>1 DEF Adds, TakesEffect, Works, UpWorks
  <2>3. \A q \in deleted : Current(q) \in recorded
    BY <1>4 DEF IInv, Placed, Processes
  <2> QED BY <1>2, <2>2, <2>3 DEF Adds
<1>6. CASE p \in Operators
  <2>1. Dropped(p) /\ p \notin Trackers
    BY <1>3, <1>6 DEF TakesEffect
  <2>2. ASSUME NEW q \in deleted, q # p PROVE Current(q) \in recorded'
    <3>1. Current(q) \in recorded
      BY <1>4 DEF IInv, Placed, Processes
    <3>2. p \in deleted => Current(q) # m
      BY <2>2 DEF IInv, Singles
    <3>3. recorded' = IF p \in deleted THEN recorded \ {m} ELSE recorded
      BY <2>1 DEF Dropped
    <3> QED BY <3>1, <3>2, <3>3
  <2>3. CASE locked = p
    <3>1. m + 1 \notin schema /\ (m \in schema \/ m = 1)
      BY <1>1, <2>1, <2>3 DEF Placed, Works, DownWorks, Unused
    <3>2. p \in deleted \/ m \notin recorded
      BY <1>1, <1>6, <2>3 DEF Placed
    <3>3. recorded' = recorded \ {m}
      <4>1. recorded' = IF p \in deleted THEN recorded \ {m} ELSE recorded
        BY <2>1 DEF Dropped
      <4> QED BY <3>2, <4>1
    <3>4. schema' = schema \ {m} /\ (p \notin late => remains' = remains \ {m})
      BY <2>1, <2>3 DEF Dropped
    <3> QED BY <1>2, <1>6, <2>2, <2>3, <3>1, <3>3, <3>4 DEF Removes
  <2>4. CASE locked # p
    <3>1. p \in late /\ m = 1
      BY <1>1, <2>4 DEF Placed
    <3>2. UNCHANGED <<schema, remains>> /\ recorded' \in {recorded, recorded \ {1}}
      BY <2>1, <2>4, <3>1 DEF Dropped
    <3> QED BY <1>2, <1>6, <2>2, <3>1, <3>2 DEF Forgets
  <2> QED BY <2>3, <2>4
<1> QED BY <1>3, <1>5, <1>6

\* Sets of numbers that have all the smaller ones, with m the next or the last.
LEMMA UpTo ==
    ASSUME NEW S \in SUBSET Names, \A x \in S : 1 .. x \subseteq S, NEW m \in Names
    PROVE  /\ m \notin S /\ (m = 1 \/ m - 1 \in S) => S = 1 .. m - 1 /\ S \cup {m} = 1 .. m
           /\ m \in S /\ m + 1 \notin S => S = 1 .. m /\ S \ {m} = 1 .. m - 1
<1>1. m \in Nat /\ m >= 1 /\ \A x \in S : x \in Nat /\ x >= 1
  BY DEF Names
<1>2. ASSUME m \notin S, m = 1 \/ m - 1 \in S PROVE S = 1 .. m - 1
  <2>1. ASSUME NEW x \in S PROVE x \in 1 .. m - 1
    <3>1. ~ (m \in 1 .. x)
      BY <1>2
    <3> QED BY <1>1, <3>1
  <2>2. ASSUME NEW x \in 1 .. m - 1 PROVE x \in S
    <3>1. m - 1 \in S
      BY <1>1, <1>2, <2>2
    <3> QED BY <2>2, <3>1
  <2> QED BY <2>1, <2>2
<1>3. ASSUME m \in S, m + 1 \notin S PROVE S = 1 .. m
  <2>1. ASSUME NEW x \in S PROVE x \in 1 .. m
    <3>1. ~ (m + 1 \in 1 .. x)
      BY <1>3
    <3> QED BY <1>1, <3>1
  <2> QED BY <1>3, <2>1
<1>4. (1 .. m - 1) \cup {m} = 1 .. m /\ (1 .. m) \ {m} = 1 .. m - 1
  BY <1>1
<1> QED BY <1>2, <1>3, <1>4

\* What a commit leaves of the schema is in order, and what is recorded is there.
LEMMA EffectInOrder ==
    ASSUME IInv, NEW p \in Processes, pc[p] = "commit", TakesEffect(p), rollbacks' = rollbacks
    PROVE  RecordedIsApplied' /\ AppliedInOrder'
<1>1. PICK m \in Names : Adds(p, m) \/ Removes(p, m) \/ Forgets(p, m)
  BY EffectIs
<1>2. schema \subseteq Names /\ \A x \in schema : 1 .. x \subseteq schema
  BY DEF IInv, TypeOK, AppliedInOrder
<1>3. recorded \subseteq schema /\ (rollbacks < 2 => recorded = schema /\ remains = {} /\ p \notin late)
  <2>1. rollbacks < 2 /\ p \in Operators => p \notin late
    BY DEF IInv, Informed
  <2>2. late \subseteq Operators
    BY DEF IInv, TypeOK
  <2> QED BY <2>1, <2>2 DEF IInv, RecordedIsApplied
<1>4. CASE Adds(p, m)
  <2>1. schema' = 1 .. m
    BY <1>2, <1>4, UpTo DEF Adds
  <2>2. AppliedInOrder'
    BY <2>1 DEF AppliedInOrder, Names
  <2>3. RecordedIsApplied'
    BY <1>3, <1>4 DEF Adds, RecordedIsApplied
  <2> QED BY <2>2, <2>3
<1>5. CASE Removes(p, m)
  <2>1. schema' = 1 .. m - 1 \/ schema' = schema
    BY <1>2, <1>5, UpTo DEF Removes
  <2>2. AppliedInOrder'
    <3>1. CASE schema' = 1 .. m - 1
      BY <3>1 DEF AppliedInOrder, Names
    <3>2. CASE schema' = schema
      BY <1>2, <3>2 DEF AppliedInOrder
    <3> QED BY <2>1, <3>1, <3>2
  <2>3. RecordedIsApplied'
    BY <1>3, <1>5 DEF Removes, RecordedIsApplied
  <2> QED BY <2>2, <2>3
<1>6. CASE Forgets(p, m)
  <2>1. AppliedInOrder'
    <3>1. schema' = schema
      BY <1>6 DEF Forgets
    <3> QED BY <1>2, <3>1 DEF AppliedInOrder
  <2>2. RecordedIsApplied'
    BY <1>3, <1>6 DEF Forgets, RecordedIsApplied
  <2> QED BY <2>1, <2>2
<1> QED BY <1>1, <1>4, <1>5, <1>6

\* A commit, known or unknown to the one who made it.
LEMMA EffectKeeps ==
    ASSUME IInv, TypeOK', NEW p \in Processes, pc[p] = "commit", TakesEffect(p), Aside(p), Free(p),
           rollbacks' = rollbacks, pc'[p] \in {"off", "run", "ready"},
           pc'[p] = "run" => p \in Trackers /\ todo'[p] = todo[p] \ {Current(p)},
           pc'[p] = "ready" => p \in Trackers /\ todo[p] \ {Current(p)} = {}
    PROVE  IInv'
<1>1. PICK m \in Names : m = Current(p) /\ (Adds(p, m) \/ Removes(p, m) \/ Forgets(p, m))
  BY EffectIs
<1>2. \A q \in deleted \ {p} : Current(q) \in recorded'
  BY EffectIs
<1>3. locked' # p /\ p \notin late' /\ p \notin deleted'
  BY FreeIs
<1>4. RecordedIsApplied' /\ AppliedInOrder'
  BY EffectInOrder
<1>5. rollbacks = 0 => Adds(p, m)
  BY <1>1 DEF IInv, Informed, Removes, Forgets
<1>6. p \in Trackers => p \notin Operators
  BY MigrationsAssumption
<1>7. Placed(p)'
  BY <1>3, <1>6 DEF Placed
<1>8. Informed(p)'
  <2>1. rollbacks = 0 /\ pc'[p] = "run" => Names \ todo'[p] \subseteq schema'
    <3>1. rollbacks = 0 => Names \ todo[p] \subseteq schema /\ schema' = schema \cup {Current(p)}
      BY <1>1, <1>5 DEF IInv, Informed, Adds
    <3> QED BY <3>1
  <2>2. p \in Operators => pc'[p] = "off"
    BY <1>6
  <2> QED BY <1>3, <2>1, <2>2 DEF Informed, Names
<1>9. ASSUME NEW q \in Processes, q # p PROVE Placed(q)' /\ Informed(q)'
  <2>1. /\ pc'[q] = pc[q] /\ todo'[q] = todo[q]
        /\ locked' = q <=> locked = q
        /\ q \in late' <=> q \in late
        /\ q \in deleted' <=> q \in deleted
    BY <1>9 DEF Aside
  <2>2. Current(q)' = Current(q) /\ Placed(q) /\ Informed(q)
    BY <2>1 DEF Current, IInv
  <2>3. q \in deleted => Current(q) \in recorded'
    BY <1>2, <1>9
  <2>4. Informed(q)'
    <3>1. rollbacks = 0 /\ q \in Trackers /\ pc[q] \in {"run", "record", "commit"} =>
            Names \ todo[q] \subseteq schema'
      <4>1. rollbacks = 0 => schema \subseteq schema'
        BY <1>5 DEF Adds
      <4> QED BY <2>2, <4>1 DEF Informed
    <3>2. rollbacks < 2 /\ q \in Operators /\ pc[q] \in {"run", "record", "commit"} =>
            Current(q) \in schema'
      <4>1. CASE p \in Operators
        BY <1>9, <4>1 DEF IInv, Singles
      <4>2. CASE p \notin Operators
        <5>1. schema \subseteq schema'
          BY <1>1, <4>2 DEF Adds, Removes, Forgets
        <5> QED BY <2>2, <5>1 DEF Informed
      <4> QED BY <4>1, <4>2
    <3> QED BY <2>1, <2>2, <3>1, <3>2 DEF Informed, Names
  <2>5. ASSUME locked = p PROVE Placed(q)'
    <3>1. ~ (locked' = q) /\ locked # q
      BY <1>9, <2>1, <2>5
    <3> QED BY <2>1, <2>2, <2>3, <3>1 DEF Placed
  <2>6. ASSUME locked # p PROVE Placed(q)'
    <3>1. Forgets(p, m)
      BY <1>1, <2>6 DEF Adds, Removes
    <3>2. UNCHANGED <<schema, remains>> /\ recorded' \subseteq recorded
      BY <3>1 DEF Forgets
    <3>3. Works(q)' = Works(q) /\ Unused(Current(q))' = Unused(Current(q))
      BY <2>2, <3>2 DEF Works, UpWorks, DownWorks, Unused
    <3> QED BY <2>1, <2>2, <2>3, <3>2, <3>3 DEF Placed
  <2> QED BY <2>4, <2>5, <2>6
<1>10. Singles'
  <2>1. ASSUME NEW o \in deleted', NEW q \in deleted', Current(o)' = Current(q)' PROVE o = q
    <3>1. deleted' \subseteq Processes
      BY DEF TypeOK, Processes
    <3>2. \A x \in deleted' : x \in deleted /\ Current(x)' = Current(x)
      BY <1>3, <3>1 DEF Aside, Current
    <3> QED BY <2>1, <3>2 DEF IInv, Singles
  <2>2. ASSUME rollbacks < 2, NEW o \in Operators, NEW q \in Operators, pc'[o] # "off", pc'[q] # "off"
        PROVE  o = q
    <3>1. \A x \in Operators : pc'[x] # "off" => pc[x] # "off"
      BY <1>6 DEF Aside, Processes
    <3> QED BY <2>2, <3>1 DEF IInv, Singles
  <2> QED BY <2>1, <2>2 DEF Singles
<1>11. ReadyMeansMigrated'
  <2> SUFFICES ASSUME NEW t \in Trackers, pc'[t] = "ready", ~ (rollbacks > 0) PROVE schema' = Names
    BY DEF ReadyMeansMigrated, Names
  <2>1. rollbacks = 0 /\ schema' \subseteq Names
    BY DEF IInv, TypeOK
  <2>2. schema' = schema \cup {m} /\ m \in Names
    BY <1>5, <2>1 DEF Adds
  <2>3. CASE t = p
    <3>1. todo[p] \subseteq {m} /\ Names \ todo[p] \subseteq schema
      BY <1>1, <2>1, <2>3 DEF IInv, Informed
    <3> QED BY <2>1, <2>2, <3>1
  <2>4. CASE t # p
    <3>1. pc[t] = "ready"
      BY <2>4 DEF Aside, Processes
    <3>2. schema = Names
      BY <3>1 DEF IInv, ReadyMeansMigrated
    <3> QED BY <2>1, <2>2, <3>2
  <2> QED BY <2>3, <2>4
<1>12. \A q \in Processes : Placed(q)' /\ Informed(q)'
  BY <1>7, <1>8, <1>9
<1> QED BY <1>4, <1>10, <1>11, <1>12 DEF IInv

\* What a commit makes of the schema are still migrations.
LEMMA EffectType ==
    ASSUME IInv, NEW p \in Processes, pc[p] = "commit", TakesEffect(p)
    PROVE  schema' \subseteq Names /\ remains' \subseteq Names /\ recorded' \subseteq Names
<1>1. Current(p) \in Names
  BY FirstOf DEF IInv, TypeOK, Current
<1> QED BY <1>1 DEF IInv, TypeOK, TakesEffect, Dropped

\* The call learns that its commit took effect and goes on.
LEMMA CommitKeeps ==
    ASSUME IInv, NEW p \in Processes, Commit(p)
    PROVE  IInv'
<1> DEFINE rest  == todo[p] \ {Current(p)}
           label == IF rest # {} THEN "run" ELSE IF p \in Trackers THEN "ready" ELSE "off"
<1>1. /\ pc[p] = "commit" /\ TakesEffect(p) /\ Free(p) /\ UNCHANGED <<table, faults, rollbacks>>
      /\ todo' = [todo EXCEPT ![p] = rest] /\ pc' = [pc EXCEPT ![p] = label]
  BY DEF Commit, Continue
<1>2. rest \in SUBSET Names /\ label \in {"off", "run", "ready"}
  BY DEF IInv, TypeOK
<1>3. label = "run" => rest # {} /\ p \in Trackers
  <2>1. p \in Operators => todo[p] = {Current(p)}
    BY <1>1 DEF IInv, Placed
  <2> QED BY <2>1 DEF Processes
<1>4. label = "ready" => p \in Trackers /\ rest = {}
  OBVIOUS
<1> HIDE DEF rest, label
<1>5. /\ \A q \in Processes \ {p} : pc'[q] = pc[q] /\ todo'[q] = todo[q]
      /\ pc'[p] = label /\ todo'[p] = rest
      /\ pc' \in [Processes -> Labels]
      /\ todo' \in [Processes -> SUBSET Names]
      /\ \A q \in Processes : pc'[q] \in {"run", "rest", "record", "commit"} => todo'[q] # {}
  <2>1. label \in Labels /\ (label \in {"run", "rest", "record", "commit"} => rest # {})
    BY <1>2, <1>3 DEF Labels
  <2> QED BY <1>1, <1>2, <2>1, MovesOnly
<1>6. TypeOK'
  BY <1>1, <1>5, EffectType, FreeIs DEF IInv, TypeOK, Labels
<1>7. Aside(p)
  BY <1>1, <1>5, FreeIs DEF Aside
<1> QED BY <1>1, <1>2, <1>3, <1>4, <1>5, <1>6, <1>7, EffectKeeps DEF rest

\* The call does not learn what became of its transaction.
LEMMA InterruptedKeeps ==
    ASSUME IInv, NEW p \in Processes, Interrupted(p)
    PROVE  IInv'
<1>1. /\ Fails(p) /\ UNCHANGED <<table, rollbacks>> /\ faults' \in 0 .. MaxFaults
      /\ \/ UNCHANGED <<schema, remains, recorded>>
         \/ pc[p] = "commit" /\ TakesEffect(p)
  BY MigrationsAssumption DEF Interrupted, IInv, TypeOK
<1>2. CASE UNCHANGED <<schema, remains, recorded>>
  BY <1>1, <1>2, FailsKeeps
<1>3. CASE pc[p] = "commit" /\ TakesEffect(p)
  <2>1. /\ \A q \in Processes \ {p} : pc'[q] = pc[q] /\ todo'[q] = todo[q]
        /\ pc'[p] = "off"
        /\ pc' \in [Processes -> Labels]
        /\ todo' \in [Processes -> SUBSET Names]
        /\ \A q \in Processes : pc'[q] \in {"run", "rest", "record", "commit"} => todo'[q] # {}
    <3>1. pc' = [pc EXCEPT ![p] = "off"] /\ todo' = [todo EXCEPT ![p] = {}]
      BY <1>1 DEF Fails
    <3>2. {} \in SUBSET Names /\ "off" \in Labels /\ ~ ("off" \in {"run", "rest", "record", "commit"})
      BY DEF Labels
    <3> QED BY <3>1, <3>2, MovesOnly, ZenonT(60)
  <2>2. Free(p)
    BY <1>1 DEF Fails
  <2>3. TypeOK'
    BY <1>1, <1>3, <2>1, <2>2, EffectType, FreeIs DEF IInv, TypeOK, Labels
  <2>4. Aside(p)
    BY <2>1, <2>2, FreeIs DEF Aside
  <2> QED BY <1>1, <1>3, <2>1, <2>2, <2>3, <2>4, EffectKeeps
<1> QED BY <1>1, <1>2, <1>3

\* The invariant holds throughout: one lemma for each kind of step.
THEOREM Invariance == Spec => []IInv
<1>1. Init => IInv
  <2> SUFFICES ASSUME Init PROVE IInv
    OBVIOUS
  <2>1. TypeOK
    <3>1. 0 \in 0 .. MaxFaults /\ 0 \in 0 .. MaxRollbacks
      BY MigrationsAssumption
    <3> QED BY <3>1 DEF Init, TypeOK
  <2>2. RecordedIsApplied /\ AppliedInOrder /\ ReadyMeansMigrated
    BY DEF Init, RecordedIsApplied, AppliedInOrder, ReadyMeansMigrated, Processes
  <2>3. Nobody \notin Processes
    BY MigrationsAssumption DEF Processes
  <2>4. ASSUME NEW p \in Processes PROVE Placed(p) /\ Informed(p)
    BY <2>3 DEF Init, Placed, Informed
  <2>5. Singles
    BY DEF Init, Singles, Processes
  <2> QED BY <2>1, <2>2, <2>4, <2>5 DEF IInv
<1>2. IInv /\ Next => IInv'
  <2> SUFFICES ASSUME IInv, Next PROVE IInv'
    OBVIOUS
  <2>1. ASSUME NEW t \in Trackers, Start(t) \/ Initialize(t) PROVE IInv'
    BY <2>1, StartKeeps
  <2>2. ASSUME NEW o \in Operators, Rollback(o) PROVE IInv'
    BY <2>2, RollbackKeeps
  <2>3. ASSUME NEW p \in Processes, Step(p) PROVE IInv'
    BY <2>3, ReadKeeps, RunKeeps, FindNothingKeeps, RunRestKeeps, RecordKeeps, CommitKeeps DEF Step
  <2>4. ASSUME NEW p \in Processes, Interrupted(p) PROVE IInv'
    BY <2>4, InterruptedKeeps
  <2> QED BY <2>1, <2>2, <2>3, <2>4 DEF Next
<1>3. IInv /\ UNCHANGED vars => IInv'
  <2> SUFFICES ASSUME IInv, UNCHANGED vars PROVE IInv'
    OBVIOUS
  <2> USE DEF vars, db, held
  <2>1. TypeOK' /\ RecordedIsApplied' /\ AppliedInOrder' /\ ReadyMeansMigrated'
    BY DEF IInv, TypeOK, RecordedIsApplied, AppliedInOrder, ReadyMeansMigrated
  <2>2. \A p \in Processes : Placed(p)' /\ Informed(p)'
    BY DEF IInv, Placed, Informed, Works, Current, UpWorks, DownWorks, Unused
  <2>3. Singles'
    BY DEF IInv, Singles, Current
  <2> QED BY <2>1, <2>2, <2>3 DEF IInv
<1> QED BY <1>1, <1>2, <1>3, PTL DEF Spec

(***************************************************************************)
(* What follows.                                                           *)
(***************************************************************************)
\* Every variable keeps its type, and a call that runs a migration has one.
THEOREM TypeCorrect == Spec => []TypeOK
<1>1. IInv => TypeOK
  BY DEF IInv
<1> QED BY <1>1, Invariance, PTL

\* No migration that the table migrations names is missing from the schema or there in
\* part only, whichever calls of Migrate and Rollback (migrations.go 66-165) meet, fail or
\* lose the answer to a commit; and as long as one rolls back, none is left unnamed.
THEOREM RecordIsTrue == Spec => []RecordedIsApplied
<1>1. IInv => RecordedIsApplied
  BY DEF IInv
<1> QED BY <1>1, Invariance, PTL

\* A migration is never in the schema without those before it, although the lists that
\* Migrate and Rollback work through are read outside their transactions, and although
\* a late rollback of 001 drops tables of a tracker that is still migrating.
THEOREM InOrder == Spec => []AppliedInOrder
<1>1. IInv => AppliedInOrder
  BY DEF IInv
<1> QED BY <1>1, Invariance, PTL

\* A commit moves schema and record by one migration, or comes from a late rollback and
\* takes the record of 001, or changes nothing.
LEMMA EffectIsOne ==
    ASSUME IInv, NEW p \in Processes, pc[p] = "commit", TakesEffect(p)
    PROVE  UNCHANGED <<schema, recorded>> \/ MovesByOne \/ ForgetsTheFirst
<1>1. PICK m \in Names : Adds(p, m) \/ Removes(p, m) \/ Forgets(p, m)
  BY EffectIs
<1>2. recorded \subseteq schema /\ schema \subseteq Names /\ \A x \in schema : 1 .. x \subseteq schema
  BY DEF IInv, TypeOK, RecordedIsApplied, AppliedInOrder
<1>3. CASE Adds(p, m)
  <2>1. schema = 1 .. m - 1 /\ schema' = 1 .. m /\ recorded' = recorded \cup {m}
    BY <1>2, <1>3, UpTo DEF Adds
  <2> QED BY <2>1 DEF MovesByOne
<1>4. CASE Removes(p, m)
  <2>1. CASE m \in schema
    <3>1. schema = 1 .. m /\ schema' = 1 .. m - 1 /\ recorded' = recorded \ {m}
      BY <1>2, <1>4, <2>1, UpTo DEF Removes
    <3> QED BY <3>1 DEF MovesByOne
  <2>2. CASE m \notin schema
    BY <1>2, <1>4, <2>2 DEF Removes
  <2> QED BY <2>1, <2>2
<1>5. CASE Forgets(p, m)
  BY <1>5 DEF Forgets, ForgetsTheFirst
<1> QED BY <1>1, <1>3, <1>4, <1>5

\* What concurrent calls of Migrate and Rollback (migrations.go 66-165) do to the schema is
\* serial, one migration more or less at the end, and its record goes with it. The one
\* change besides is that a late rollback of 001 deletes a record and nothing else.
THEOREM Serial == Spec => OneAtATime
<1>1. ASSUME IInv, [Next]_vars
      PROVE  [MovesByOne \/ ForgetsTheFirst]_<<schema, recorded>>
  <2>1. \/ UNCHANGED <<schema, recorded>>
        \/ \E p \in Processes : pc[p] = "commit" /\ TakesEffect(p)
    BY <1>1 DEF Next, Step, Start, Initialize, Rollback, Read, Run, FindNothing, RunRest, Record,
                Commit, Interrupted, vars, db
  <2> QED BY <1>1, <2>1, EffectIsOne
<1> QED BY <1>1, Invariance, PTL DEF Spec, OneAtATime

\* A tracker goes on (cmd/tracker/main.go, runMigrations) only with the schema complete, if
\* nobody rolls back, however many start together.
THEOREM ReadyIsMigrated == Spec => []ReadyMeansMigrated
<1>1. IInv => ReadyMeansMigrated
  BY DEF IInv
<1> QED BY <1>1, Invariance, PTL

=============================================================================
