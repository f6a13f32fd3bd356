----------------------------- MODULE Migrations -----------------------------
(***************************************************************************)
(* Database migrations, internal/db/migrations, as trackers run them when  *)
(* they start (runMigrations in cmd/tracker/main.go) and as Rollback       *)
(* undoes them.  Every call reads which migrations are recorded before it  *)
(* opens a transaction, so what it read may be stale when it acts on it.   *)
(*                                                                         *)
(* The database is external and runs at READ COMMITTED: every statement    *)
(* sees what is committed when it starts, a transaction that changed the   *)
(* schema keeps the locks of the tables until it ends, and its changes     *)
(* become visible together when it commits.  A transaction that found      *)
(* nothing to change holds no lock.  Migration m of the list builds on the *)
(* tables of migration m - 1, as 002_retention_policies does on            *)
(* 001_initial_schema.                                                     *)
(***************************************************************************)
EXTENDS Integers, FiniteSets, FiniteSetsExt

CONSTANTS
    Trackers,      \* processes that call Migrate when they start
    Operators,     \* processes that call Rollback
    LastMigration, \* length of the list of migrations, 2 in the tracker
    Nobody,        \* no process
    MaxFaults,     \* bound: failed calls and crashes
    MaxRollbacks   \* bound: calls of Rollback

ASSUME MigrationsAssumption ==
    /\ LastMigration \in Nat \ {0}
    /\ MaxFaults \in Nat /\ MaxRollbacks \in Nat
    /\ Trackers \cap Operators = {} /\ Nobody \notin Trackers \cup Operators

Processes == Trackers \cup Operators
Names     == 1 .. LastMigration

VARIABLES
    pc,        \* where a process is; "off" when it is not in a call
    todo,      \* migrations a call still has to apply, or the one to roll back
    table,     \* is there a migrations table?
    recorded,  \* names in it
    schema,    \* migrations whose objects all exist
    remains,   \* migrations of which a part was rolled back and a part is left
    locked,    \* the process whose transaction holds the tables' locks
    late,      \* operators whose first DROP found nothing
    deleted,   \* operators whose DELETE found the record
    faults,
    rollbacks

db   == <<table, recorded, schema, remains>>
held == <<locked, late, deleted>>
vars == <<pc, todo, db, held, faults, rollbacks>>

Init ==
    /\ pc = [p \in Processes |-> "off"]
    /\ todo = [p \in Processes |-> {}]
    /\ table = FALSE
    /\ recorded = {} /\ schema = {} /\ remains = {}
    /\ locked = Nobody /\ late = {} /\ deleted = {}
    /\ faults = 0 /\ rollbacks = 0

(***************************************************************************)
(* The SQL of the list.  001 creates hypertables, which fails when a part  *)
(* of its tables is there, and later migrations add retention policies,    *)
(* which fails when they exist; their views are created IF NOT EXISTS.     *)
(* Tables and views are dropped IF EXISTS, tables only without views on    *)
(* them, and removing a policy that is not there fails.                    *)
(***************************************************************************)
UpWorks(m) ==
    /\ m \notin schema
    /\ IF m = 1 THEN 1 \notin remains ELSE m - 1 \in schema

\* Mutant: the tables are dropped with what depends on them.
UnusedCascades(m) == TRUE

\* Nothing builds on what migration m created.
Unused(m) == m + 1 \notin schema \cup remains

Absent(m)    == m \notin schema \cup remains
DownWorks(m) == (m \in schema \/ m = 1) /\ Unused(m)

Current(p) == Min(todo[p])
Works(p)   == IF p \in Trackers THEN UpWorks(Current(p)) ELSE DownWorks(Current(p))

\* The transaction ends, and with it what it held.
Free(p) ==
    /\ locked' = IF locked = p THEN Nobody ELSE locked
    /\ late' = late \ {p} /\ deleted' = deleted \ {p}

(***************************************************************************)
(* A call of Migrate or Rollback.                                          *)
(***************************************************************************)
\* The tracker process starts, or is started again by its container.
Start(t) ==
    /\ pc[t] = "off"
    /\ pc' = [pc EXCEPT ![t] = "initialize"]
    /\ UNCHANGED <<todo, db, held, faults, rollbacks>>

Initialize(t) ==
    /\ pc[t] = "initialize"
    /\ table' = TRUE
    /\ pc' = [pc EXCEPT ![t] = "read"]
    /\ UNCHANGED <<todo, recorded, schema, remains, held, faults, rollbacks>>

Rollback(o) ==
    /\ pc[o] = "off"
    /\ rollbacks < MaxRollbacks
    /\ rollbacks' = rollbacks + 1
    /\ pc' = [pc EXCEPT ![o] = "read"]
    /\ UNCHANGED <<todo, db, held, faults>>

\* The call is over and succeeded, or goes on with the next migration.
Continue(p, rest) ==
    /\ todo' = [todo EXCEPT ![p] = rest]
    /\ pc' = [pc EXCEPT ![p] = IF rest # {} THEN "run"
                               ELSE IF p \in Trackers THEN "ready" ELSE "off"]

\* Mutant: what is recorded is not looked at.
PendingIgnoresRecord(p) == IF p \in Trackers THEN Names
                           ELSE IF recorded = {} THEN {} ELSE {Max(recorded)}

\* Mutant: indices from zero.
PendingIsMisaligned(p) == IF p \in Trackers THEN 0 .. LastMigration - 1 \ recorded
                          ELSE IF recorded = {} THEN {} ELSE {Max(recorded)}

\* Migrate wants every migration that is not recorded, Rollback the last that is.
Pending(p) == IF p \in Trackers THEN Names \ recorded
              ELSE IF recorded = {} THEN {} ELSE {Max(recorded)}

\* GetAppliedMigrations, outside any transaction; without the table, or with
\* nothing to roll back, the call returns an error.
Read(p) ==
    /\ pc[p] = "read"
    /\ IF table
       THEN Continue(p, Pending(p))
       ELSE /\ pc' = [pc EXCEPT ![p] = "off"]
            /\ UNCHANGED todo
    /\ UNCHANGED <<db, held, faults, rollbacks>>

\* Mutant: a migration that fails is skipped and the loop goes on.
FailsIsSkipped(p) ==
    /\ IF todo[p] # {} THEN Continue(p, todo[p] \ {Current(p)})
       ELSE pc' = [pc EXCEPT ![p] = "off"] /\ UNCHANGED todo
    /\ Free(p)

\* The call returns an error: the transaction is rolled back, a tracker exits.
Fails(p) ==
    /\ pc' = [pc EXCEPT ![p] = "off"]
    /\ todo' = [todo EXCEPT ![p] = {}]
    /\ Free(p)

\* A Migrate and a Rollback that meet may deadlock, or one finds the table that the
\* other is dropping.
Clash(p) == locked \in IF p \in Trackers THEN Operators ELSE Trackers

\* Begin and the migration's statements, which wait for the tables' locks.
Run(p) ==
    /\ pc[p] = "run"
    /\ \/ p \in Trackers
       \/ ~Absent(Current(p))
    /\ \/ /\ locked = Nobody /\ Works(p)
          /\ locked' = p
          /\ pc' = [pc EXCEPT ![p] = "record"]
          /\ UNCHANGED <<todo, late, deleted>>
       \/ /\ (locked = Nobody /\ ~Works(p)) \/ Clash(p)
          /\ Fails(p)
    /\ UNCHANGED <<db, faults, rollbacks>>

\* A DROP IF EXISTS that finds nothing succeeds and takes no lock.
FindNothing(o) ==
    /\ pc[o] = "run"
    /\ Absent(Current(o))
    /\ late' = late \cup {o}
    /\ pc' = [pc EXCEPT ![o] = "rest"]
    /\ UNCHANGED <<todo, db, locked, deleted, faults, rollbacks>>

\* The statements after it see what is there by now: still nothing, which is an error
\* where a policy is to be removed, or what a tracker has applied in the meantime.
RunRest(o) ==
    LET m == Current(o) IN
    /\ pc[o] = "rest"
    /\ \/ /\ m \in schema /\ Unused(m) /\ locked = Nobody
          /\ locked' = o
          /\ pc' = [pc EXCEPT ![o] = "record"]
          /\ UNCHANGED <<todo, late, deleted>>
       \/ /\ m = 1 /\ m \notin schema
          /\ pc' = [pc EXCEPT ![o] = "record"]
          /\ UNCHANGED <<todo, held>>
       \/ /\ IF m \in schema THEN ~Unused(m) /\ locked = Nobody ELSE m # 1
          /\ Fails(o)
    /\ UNCHANGED <<db, faults, rollbacks>>

\* Mutant: the record is written outside the transaction.
RecordOutside(p) ==
    /\ pc[p] = "record"
    /\ recorded' = IF p \in Trackers THEN recorded \cup {Current(p)} ELSE recorded \ {Current(p)}
    /\ pc' = [pc EXCEPT ![p] = "commit"]
    /\ UNCHANGED <<todo, table, schema, remains, held, faults, rollbacks>>

\* The INSERT, which fails when the name is there (UNIQUE), or the DELETE, which
\* removes the record it finds, or none.  Both wait while another deletes it.
Record(p) ==
    /\ pc[p] = "record"
    /\ \A o \in deleted : Current(o) # Current(p)
    /\ IF p \in Trackers /\ Current(p) \in recorded
       THEN Fails(p)
       ELSE /\ pc' = [pc EXCEPT ![p] = "commit"]
            /\ deleted' = deleted \cup (IF Current(p) \in recorded THEN {p} ELSE {})
            /\ UNCHANGED <<todo, locked, late>>
    /\ UNCHANGED <<db, faults, rollbacks>>

\* What a rollback removes: all there is of its migration, what its later statements
\* found, or nothing.
Dropped(o) ==
    LET m == {Current(o)} IN
    /\ schema' = IF locked = o THEN schema \ m ELSE schema
    /\ remains' = IF locked # o THEN remains
                  ELSE IF o \in late THEN remains \cup m ELSE remains \ m
    /\ recorded' = IF o \in deleted THEN recorded \ m ELSE recorded

\* What a transaction did becomes visible at once.
TakesEffect(p) ==
    IF p \in Trackers
    THEN /\ schema' = schema \cup {Current(p)} /\ remains' = remains \ {Current(p)}
         /\ recorded' = recorded \cup {Current(p)}
    ELSE Dropped(p)

Commit(p) ==
    /\ pc[p] = "commit"
    /\ TakesEffect(p)
    /\ Continue(p, todo[p] \ {Current(p)})
    /\ Free(p)
    /\ UNCHANGED <<table, faults, rollbacks>>

\* A call to the database fails, or the process dies.  A commit whose answer is
\* lost may have been carried out.
Interrupted(p) ==
    /\ pc[p] # "off"
    /\ faults < MaxFaults /\ faults' = faults + 1
    /\ Fails(p)
    /\ \/ UNCHANGED <<schema, remains, recorded>>
       \/ pc[p] = "commit" /\ TakesEffect(p)
    /\ UNCHANGED <<table, rollbacks>>

Step(p) ==
    \/ Read(p) \/ Run(p) \/ Record(p) \/ Commit(p)
    \/ p \in Operators /\ (FindNothing(p) \/ RunRest(p))

Next ==
    \/ \E t \in Trackers : Start(t) \/ Initialize(t)
    \/ \E o \in Operators : Rollback(o)
    \/ \E p \in Processes : Step(p) \/ Interrupted(p)

Spec == Init /\ [][Next]_vars

\* Trackers are restarted (docker-compose.yml, restart: unless-stopped), and a
\* process goes on when it can; a lock that is free again is granted fairly.
FairSpec ==
    /\ Spec
    /\ \A t \in Trackers : WF_vars(Start(t) \/ Initialize(t))
    /\ \A p \in Processes : SF_vars(Step(p))

(***************************************************************************)
(* Safety.                                                                 *)
(***************************************************************************)
TypeOK ==
    /\ pc \in [Processes ->
               {"off", "initialize", "read", "run", "rest", "record", "commit", "ready"}]
    /\ todo \in [Processes -> SUBSET Names]
    /\ table \in BOOLEAN
    /\ recorded \subseteq Names /\ schema \subseteq Names /\ remains \subseteq Names
    /\ locked \in Processes \cup {Nobody}
    /\ late \subseteq Operators /\ deleted \subseteq Operators
    /\ faults \in 0 .. MaxFaults /\ rollbacks \in 0 .. MaxRollbacks
    /\ \A p \in Processes : pc[p] \in {"run", "rest", "record", "commit"} => todo[p] # {}

\* No migration is taken for applied that is not there in full, although every call
\* decides from a list it read before its transaction and commits fail half known.
\* Until a second rollback joins in, what is applied is also recorded.
RecordedIsApplied ==
    /\ recorded \subseteq schema
    /\ rollbacks < 2 => recorded = schema /\ remains = {}

\* Nothing is applied before what it builds on, or left when that is rolled back,
\* whichever calls run at the same time.
AppliedInOrder == \A m \in schema : 1 .. m \subseteq schema

\* The schema gains the migration after its last, or loses its last, and its record
\* with it.
MovesByOne ==
    \E m \in Names :
        \/ schema = 1 .. m - 1 /\ schema' = 1 .. m /\ recorded' = recorded \cup {m}
        \/ schema = 1 .. m /\ schema' = 1 .. m - 1 /\ recorded' = recorded \ {m}

\* A rollback of 001 without its tables removes the record it finds.
ForgetsTheFirst == schema' = schema /\ recorded' = recorded \ {1}

\* However calls of Migrate and Rollback meet, every change is by one migration at the
\* end of the list and its record (migrations.go 66-165), but for a rollback of 001
\* that comes too late and forgets the record of a tracker's new tables.
OneAtATime == [][MovesByOne \/ ForgetsTheFirst]_<<schema, recorded>>

\* A tracker that got past its migrations finds all of them in the schema.  It
\* holds as long as nobody rolls back.
ReadyMeansMigrated ==
    \A t \in Trackers : pc[t] = "ready" => rollbacks > 0 \/ schema = Names

\* "Rollback rolls back the last migration" (migrations.go 137), of the schema and of
\* the record: they agree.  The rollback of 001 that comes too late undoes the record only.
RecordMatchesSchema == recorded = schema /\ remains = {}

(***************************************************************************)
(* Liveness.                                                               *)
(***************************************************************************)
\* The tables of 001, or some of them, are there and nothing says so: every start
\* fails at create_hypertable (001_initial_schema.go 31, 75).
Orphaned == 1 \in (schema \cup remains) \ recorded

\* Of trackers that start at the same time all get past the migrations: one that
\* loses the race exits with an error, starts again and finds the work done.  Only
\* tables whose record a late rollback took stop them.
AllGetReady == \A t \in Trackers : <>[](pc[t] = "ready" \/ Orphaned)

\* "The tracker service will automatically run database migrations on startup"
\* (README.md 140): it gets past them in the end, whatever was rolled back.
StartupMigrates == \A t \in Trackers : <>[](pc[t] = "ready")
=============================================================================
