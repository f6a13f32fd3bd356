-------------------------------- MODULE Stats -------------------------------
(***************************************************************************)
(* The tracker's statistics: internal/stats/stats.go, the table            *)
(* system_stats (internal/db/client.go), and the calls that ProcessMessage *)
(* of cmd/tracker/main.go makes to them.                                   *)
(*                                                                         *)
(* Three goroutines meet.  The subscription's callback, with control state *)
(* pc, parses a line (Parser) and increments counters one by one, without  *)
(* a lock; only the two writes of times take the RWMutex.  The goroutines  *)
(* "log" (logStats) and "persist" (StartPersistence) hold it for reading   *)
(* while they load the counters one after the other; what "log" loads it   *)
(* only prints, and is not kept here.                                      *)
(*                                                                         *)
(* What the stores answer is not decided here: Tracker has the stores.     *)
(* The counters of created, updated and ended flights are one, flights,    *)
(* since a message increments one of them, at the same place.  Of          *)
(* MessageTypeCounts the sum is kept.                                      *)
(***************************************************************************)
EXTENDS Parser, Sequences, SequencesExt

CONSTANTS
    MaxMessages,  \* bound: messages delivered
    MaxSince,     \* bound: persistence intervals counted since the last message
    MaxDbFaults,  \* bound: rows that fail to be stored
    MaxRestarts,  \* bound: times the process ends
    Retained      \* bound: rows kept in system_stats, which has a retention policy

ASSUME StatsAssumption ==
    /\ MaxMessages \in Nat /\ MaxSince \in Nat /\ MaxDbFaults \in Nat
    /\ MaxRestarts \in Nat /\ Retained \in Nat \ {0}

VARIABLES
    pc,        \* the next step of main and then of ProcessMessage
    msgType,   \* state.MsgType, once parsed
    count,     \* the atomic counters
    active,    \* whether the gauges ActiveAircraft and ActiveFlights were set
    since,     \* intervals that have passed since LastMessageTime
    dbSet,     \* s.db # nil
    at,        \* where a reader is
    snap,      \* what the reader "persist" has loaded so far
    low,       \* the sum of MessageTypeCounts when it began to copy them
    rows,      \* system_stats, newest last
    life,      \* number of the process
    messages, dbFaults

vars == <<pc, msgType, count, active, since, dbSet, at, snap, low, rows, life,
          messages, dbFaults>>

handling == <<pc, msgType, active, messages>>
reading  == <<at, snap, low>>
process  == <<dbSet, life>>
table    == <<rows, dbFaults>>

Readers == {"log", "persist"}

\* The order in which GetStats loads the counters; types is copied besides.
Loaded   == <<"total", "parsed", "failed", "stored", "flights">>
Counters == {"total", "parsed", "failed", "stored", "flights", "types"}
Zeros    == [c \in Counters |-> 0]
NoSnap   == <<>>

Init ==
    /\ pc = "start"
    /\ msgType = 0
    /\ count = Zeros
    /\ active = FALSE
    /\ since = 0
    /\ dbSet = FALSE
    /\ at = [r \in Readers |-> "off"]
    /\ snap = NoSnap
    /\ low = 0
    /\ rows = <<>>
    /\ life = 0
    /\ messages = 0
    /\ dbFaults = 0

(***************************************************************************)
(* sync.RWMutex: a writer that waits keeps new readers out.                *)
(***************************************************************************)
\* Mutant: Persist keeps the lock from its look at s.db to its return.
ReadingUntilReturn(r) == at[r] = "load" \/ (r = "persist" /\ at[r] \in {"get", "taken"})

Reading(r)   == at[r] = "load"
WriterWaits  == pc \in {"lockLast", "lockTime"}
CanRLock     == ~WriterWaits
CanLock      == \A r \in Readers : ~Reading(r)

(***************************************************************************)
(* Start of the tracker, and ProcessMessage.                               *)
(***************************************************************************)
\* Mutant: nobody calls SetDB.
StartWithoutDb ==
    /\ pc = "start"
    /\ at' = [r \in Readers |-> "wait"]
    /\ pc' = "idle"
    /\ UNCHANGED <<msgType, count, active, since, dbSet, snap, low, table, life, messages>>

\* SetDB, then the two goroutines, then the subscription.
Start ==
    /\ pc = "start"
    /\ dbSet' = TRUE
    /\ at' = [r \in Readers |-> "wait"]
    /\ pc' = "idle"
    /\ UNCHANGED <<msgType, count, active, since, snap, low, table, life, messages>>

Goto(label) == pc' = label
Increment(c) == count' = [count EXCEPT ![c] = @ + 1]

\* The callback returns: with nil or with an error, which is logged.
Return == pc' = "idle" /\ msgType' = 0

Receive ==
    /\ pc = "idle"
    /\ messages < MaxMessages
    /\ messages' = messages + 1
    /\ Increment("total")
    /\ Goto("counted")
    /\ UNCHANGED <<msgType, active, since, reading, process, table>>

\* UpdateLastMessageTime asks for the lock...
AskForLock ==
    /\ pc = "counted"
    /\ Goto("lockLast")
    /\ UNCHANGED <<msgType, count, active, since, reading, process, table, messages>>

\* Mutant: the time is an atomic of its own and needs no lock.
UpdateLastMessageTimeUnlocked ==
    /\ pc = "lockLast"
    /\ since' = 0
    /\ Goto("parse")
    /\ UNCHANGED <<msgType, count, active, reading, process, table, messages>>

\* ...and gets it when nobody reads.
UpdateLastMessageTime ==
    /\ pc = "lockLast"
    /\ CanLock
    /\ since' = 0
    /\ Goto("parse")
    /\ UNCHANGED <<msgType, count, active, reading, process, table, messages>>

\* What the line of the message is matters only here.
BadLines == {line \in Lines : ~Parses(line)}

ParseFails ==
    /\ pc = "parse"
    /\ BadLines # {}
    /\ Increment("failed")
    /\ Return
    /\ UNCHANGED <<active, since, reading, process, table, messages>>

ParseOk ==
    /\ pc = "parse"
    /\ Increment("parsed")
    /\ msgType' \in {TypeOf(line) : line \in Lines \ BadLines}
    /\ Goto("type")
    /\ UNCHANGED <<active, since, reading, process, table, messages>>

\* MessageTypeCounts has ten elements; other types are not counted.
IncrementMessageType ==
    /\ pc = "type"
    /\ IF msgType \in 0 .. 9 THEN Increment("types") ELSE UNCHANGED count
    /\ msgType' = 0
    /\ Goto("store")
    /\ UNCHANGED <<active, since, reading, process, table, messages>>

\* The validation says no, or the INSERT fails.
NotStored ==
    /\ pc = "store"
    /\ Return
    /\ UNCHANGED <<count, active, since, reading, process, table, messages>>

StateStored ==
    /\ pc = "store"
    /\ Increment("stored")
    /\ Goto("flight")
    /\ UNCHANGED <<msgType, active, since, reading, process, table, messages>>

\* updateFlight fails,
FlightFails ==
    /\ pc = "flight"
    /\ Return
    /\ UNCHANGED <<count, active, since, reading, process, table, messages>>

\* or has created, updated or ended a flight.
FlightDone ==
    /\ pc = "flight"
    /\ Increment("flights")
    /\ Goto("gauges")
    /\ UNCHANGED <<msgType, active, since, reading, process, table, messages>>

\* SetActiveAircraft, SetActiveFlights: the sizes of Tracker's maps, which are not
\* modelled here.  AddProcessingTime then asks for the lock.
SetActive ==
    /\ pc = "gauges"
    /\ active' = TRUE
    /\ Goto("lockTime")
    /\ UNCHANGED <<msgType, count, since, reading, process, table, messages>>

AddProcessingTime ==
    /\ pc = "lockTime"
    /\ CanLock
    /\ Return
    /\ UNCHANGED <<count, active, since, reading, process, table, messages>>

(***************************************************************************)
(* The readers.                                                            *)
(***************************************************************************)
Move(r, label) == at' = [at EXCEPT ![r] = label]

\* logStats' ticker fires every minute; String takes the lock for reading,
BeginString ==
    /\ at["log"] = "wait"
    /\ CanRLock
    /\ Move("log", "load")
    /\ UNCHANGED <<handling, count, since, snap, low, process, table>>

\* and gives it back; log.Printf.
EndString ==
    /\ at["log"] = "load"
    /\ Move("log", "wait")
    /\ UNCHANGED <<handling, count, since, snap, low, process, table>>

\* StartPersistence's ticker fires every five minutes; Persist looks at s.db under
\* the lock, which it gives back.
CheckDb ==
    /\ at["persist"] = "wait"
    /\ CanRLock
    /\ Move("persist", IF dbSet THEN "get" ELSE "wait")
    /\ since' = IF since < MaxSince THEN since + 1 ELSE since
    /\ UNCHANGED <<handling, count, snap, low, process, table>>

\* GetStats: RLock.
BeginGetStats ==
    /\ at["persist"] = "get"
    /\ CanRLock
    /\ Move("persist", "load")
    /\ low' = count["types"]
    /\ UNCHANGED <<handling, count, since, snap, process, table>>

\* The next atomic load.
LoadCounter ==
    /\ at["persist"] = "load"
    /\ Len(snap) < Len(Loaded)
    /\ snap' = Append(snap, count[Loaded[Len(snap) + 1]])
    /\ UNCHANGED <<handling, count, since, at, low, process, table>>

\* The array is copied without atomics, at any time during GetStats: the sum of
\* the copy lies between the sums before and after.  RUnlock.
EndGetStats ==
    /\ at["persist"] = "load"
    /\ Len(snap) = Len(Loaded)
    /\ \E types \in low .. count["types"] : snap' = snap \o <<types, since>>
    /\ Move("persist", "taken")
    /\ low' = 0
    /\ UNCHANGED <<handling, count, since, process, table>>

Row(s) == [life |-> life, total |-> s[1], parsed |-> s[2], failed |-> s[3], stored |-> s[4],
           flights |-> s[5], types |-> s[6], uptime |-> s[7]]

Newest(s) == IF Len(s) <= Retained THEN s ELSE SubSeq(s, Len(s) - Retained + 1, Len(s))

\* INSERT INTO system_stats
InsertRow == rows' = Newest(Append(rows, Row(snap)))

PersistReturns(label) ==
    /\ at["persist"] = "taken"
    /\ Move("persist", label)
    /\ snap' = NoSnap
    /\ UNCHANGED <<handling, count, since, low, process>>

StoreSystemStats ==
    /\ PersistReturns("wait")
    /\ InsertRow
    /\ UNCHANGED dbFaults

Fails == /\ dbFaults < MaxDbFaults
         /\ dbFaults' = dbFaults + 1
         /\ InsertRow \/ UNCHANGED rows

\* Mutant: StartPersistence returns the error.
StoreSystemStatsGivesUp == PersistReturns("off") /\ Fails

\* The row is there or not; the error is printed and the loop goes on.
StoreSystemStatsFails == PersistReturns("wait") /\ Fails

(***************************************************************************)
(* The end of the process and the next one.                                *)
(***************************************************************************)
\* Everything in memory is gone.
EndsAs(label) ==
    /\ pc' = label
    /\ msgType' = 0
    /\ count' = Zeros
    /\ active' = FALSE
    /\ since' = 0
    /\ dbSet' = FALSE
    /\ at' = [r \in Readers |-> "off"]
    /\ snap' = NoSnap
    /\ low' = 0
    /\ UNCHANGED <<table, life, messages>>

Alive == pc \notin {"shutdown", "killed"}

\* A signal: waitForShutdown closes the clients and main returns.  The context
\* the readers look at is context.Background(), which is never done.
Shutdown == Alive /\ pc # "start" /\ EndsAs("shutdown")

Killed == Alive /\ EndsAs("killed")

Restart ==
    /\ ~Alive
    /\ life < MaxRestarts
    /\ life' = life + 1
    /\ pc' = "start"
    /\ UNCHANGED <<msgType, count, active, since, dbSet, reading, table, messages>>

Handling == \/ AskForLock \/ UpdateLastMessageTime \/ ParseFails \/ ParseOk
            \/ IncrementMessageType \/ NotStored \/ StateStored \/ FlightFails
            \/ FlightDone \/ SetActive \/ AddProcessingTime

Persisting == \/ CheckDb \/ BeginGetStats \/ LoadCounter \/ EndGetStats
              \/ StoreSystemStats \/ StoreSystemStatsFails

Next == Start \/ Receive \/ Handling \/ BeginString \/ EndString \/ Persisting \/ Shutdown \/ Killed \/ Restart

Spec == Init /\ [][Next]_vars

\* The handler and a reader that holds the lock go on, and the ticker of
\* StartPersistence fires.  Nothing makes a message arrive or the process end.
FairSpec == Spec /\ WF_vars(Handling) /\ WF_vars(EndString) /\ WF_vars(Persisting)

(***************************************************************************)
(* Safety.                                                                 *)
(***************************************************************************)
TypeOK ==
    /\ pc \in {"start", "idle", "counted", "lockLast", "parse", "type", "store", "flight",
               "gauges", "lockTime", "shutdown", "killed"}
    /\ msgType \in 0 .. 12
    /\ count \in [Counters -> 0 .. MaxMessages]
    /\ active \in BOOLEAN
    /\ since \in 0 .. MaxSince
    /\ dbSet \in BOOLEAN
    /\ at["persist"] # "off" => dbSet
    /\ at \in [Readers -> {"off", "wait", "get", "load", "taken"}]
    /\ Len(snap) <= Len(Loaded) + 2
    /\ low \in 0 .. MaxMessages
    /\ Len(rows) <= Retained
    /\ life \in 0 .. MaxRestarts
    /\ messages \in 0 .. MaxMessages
    /\ dbFaults \in 0 .. MaxDbFaults

\* The counters of a row belong together although they are loaded one after the
\* other and the handler goes on (stats.go 136-154): every message but the one
\* being processed has been parsed or has failed, and each later counter is ahead
\* of the one before it by one message at most.
Consistent(row) ==
    /\ row.total - 1 <= row.parsed + row.failed
    /\ row.parsed + row.failed <= row.total
    /\ row.stored <= row.parsed + 1
    /\ row.flights <= row.stored + 1
    /\ row.types <= row.parsed + 1

\* No snapshot that is printed or stored is torn.
SnapshotsAddUp ==
    /\ at["persist"] = "taken" => Consistent(Row(snap))
    /\ \A i \in DOMAIN rows : Consistent(rows[i])

\* No line that arrives makes the parser index a field that is not there (parser.go
\* 45-131): the length checks suffice for every type.
NoIndexOutOfRange == pc = "parse" => \A line \in Lines : InRange(line)

(***************************************************************************)
(* Liveness.                                                               *)
(***************************************************************************)
\* The readers never hold the handler up for good: the lock that is taken twice
\* by Persist is given back in between (stats.go 55-63).
MessageIsProcessed == pc = "counted" ~> pc # "counted" /\ ~WriterWaits

\* What was counted gets into the table although a row may fail to be stored, if
\* the process lives (stats.go 189-205).
CountsReachTable ==
    \A n \in 1 .. MaxMessages :
        count["total"] = n ~> \/ \E i \in DOMAIN rows : rows[i].life = life /\ rows[i].total >= n
                              \/ ~Alive

(***************************************************************************)
(* What documents say and the code does not do.                            *)
(***************************************************************************)
\* parser_test.go 21-35: a position message gives the values the test wants.
ColumnsAsTested == pc = "parse" => \A line \in Lines : ReadAsTested(line)

\* parser.go 53: STA, AIR and ID lines have their hex_ident where MSG lines do.
HexFieldAsDescribed == pc = "parse" => \A line \in Lines : SameHexField(line)

\* stats.go 195, "Final persistence before shutdown": a process that is told to stop
\* leaves its counters in the table.
FinalRow ==
    [][ pc' = "shutdown" =>
          \E i \in DOMAIN rows' : rows'[i].life = life /\ rows'[i].total = count["total"] ]_vars

\* stats.go 24, "Index corresponds to message type": between two messages, those
\* that were parsed are counted under their types.
EveryParsedIsTyped == pc = "idle" => count["types"] = count["parsed"]

\* migrations/002_retention_policies.go 13, "daily system stats", adds up the rows of a
\* day: what it has for total_messages are messages that arrived.  A row holds all
\* that its process has counted so far, and not what is new.
DailyCountsOnce == FoldLeft(LAMBDA sum, row : sum + row.total, 0, rows) <= messages

\* db/client.go 144, "Calculate uptime in seconds": rows of one process show an
\* uptime that grows.
UptimeGrows ==
    [][ rows' # rows /\ rows # <<>> /\ Last(rows).life = life
          => Last(rows).uptime <= Last(rows').uptime ]_vars

=============================================================================
