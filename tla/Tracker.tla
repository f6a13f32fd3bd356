------------------------------ MODULE Tracker -------------------------------
(***************************************************************************)
(* The tracker: cmd/tracker/main.go with its two stores, Redis             *)
(* (internal/redis/client.go) and PostgreSQL (internal/db/client.go).      *)
(*                                                                         *)
(* ProcessMessage runs in the subscription's only callback goroutine, so   *)
(* one message is processed at a time; but each call to a store is a step  *)
(* of its own, since the clock goes on, keys expire, operators write to    *)
(* Redis, any call may fail and the process may be killed between two of   *)
(* them.  A failed call may have taken effect all the same.                *)
(*                                                                         *)
(* A message is what Parser makes of a line: an aircraft, whether it has a *)
(* position, an altitude (0: none) and a time.  Counters, and lines that   *)
(* do not parse and change nothing else, are in Stats.                     *)
(***************************************************************************)
EXTENDS Integers, FiniteSets

CONSTANTS
    Hexes,            \* ICAO addresses
    NoHex,            \* the address "" of a message that carries none
    Judged,           \* bound: addresses an operator sets the validation of
    Null,             \* a missing key or map entry, a nil pointer
    MaxAltitude,      \* bound: altitudes
    StaleAfter,       \* the five minutes after which a flight has ended
    MaxNow,           \* bound: the clock
    MaxMessages,      \* bound: messages delivered
    MaxRedisFaults,   \* bound: Redis calls that fail
    MaxDbFaults,      \* bound: database calls that fail
    MaxRestarts       \* bound: times the process is killed

ASSUME TrackerAssumption ==
    /\ NoHex \notin Hexes
    /\ Judged \subseteq Hexes \union {NoHex}
    /\ MaxAltitude \in Nat
    /\ StaleAfter \in Nat
    /\ MaxNow \in Nat
    /\ MaxMessages \in Nat
    /\ MaxRedisFaults \in Nat
    /\ MaxDbFaults \in Nat
    /\ MaxRestarts \in Nat

Keys      == Hexes \union {NoHex}
Altitudes == 0 .. MaxAltitude
Positions == {0, 1}     \* no position, some position
Times     == 0 .. MaxNow
Never     == -1         \* ended_at IS NULL

\* types.AircraftState and types.Flight, with the fields the properties tell
\* apart; latitude and longitude are one field, first and last values one too.
States == [hex : Keys, pos : Positions, alt : Altitudes, ts : Times]
Flight == [session : Nat, hex : Keys, pos : Positions, alt : Altitudes]
Rows   == [session : Nat, hex : Keys, pos : Positions, alt : Altitudes,
           ended : Times \union {Never}]

\* var flight types.Flight
ZeroFlight == [session |-> 0, hex |-> NoHex, pos |-> 0, alt |-> 0]

ASSUME NullAssumption == Null \notin States /\ Null \notin Flight

VARIABLES
    pc,            \* the next call of the tracker's goroutine
    msg,           \* state: the parsed message being processed
    flight,        \* flight: the local of updateFlight
    activeFlights, \* the tracker's map of flights
    states,        \* the tracker's map of merged states
    rFlight,       \* Redis flight:<hex>
    rState,        \* Redis aircraft:<hex>
    rValid,        \* Redis validation:<hex>: "1", "0" or "absent"
    rows,          \* the flights table
    nextSession,   \* uuid.New(): a value never used before
    now,           \* time.Now()
    messages,      \* messages delivered so far
    redisFaults, dbFaults, restarts,
    lostCreates,   \* history: sessions whose INSERT failed or was never reached
    failedDeletes  \* history: sessions whose DEL from Redis failed

vars == <<pc, msg, flight, activeFlights, states, rFlight, rState, rValid, rows,
          nextSession, now, messages, redisFaults, dbFaults, restarts, lostCreates,
          failedDeletes>>

locals  == <<activeFlights, states>>
redis   == <<rFlight, rState, rValid>>
db      == <<rows, nextSession>>
history == <<lostCreates, failedDeletes>>
env     == <<now, messages, restarts>>

Init ==
    /\ pc = "start"
    /\ msg = Null
    /\ flight = Null
    /\ activeFlights = [k \in Keys |-> Null]
    /\ states = [k \in Keys |-> Null]
    /\ rFlight = [k \in Keys |-> Null]
    /\ rState = [k \in Keys |-> Null]
    /\ rValid = [k \in Keys |-> "absent"]
    /\ rows = {}
    /\ nextSession = 1
    /\ now = 0
    /\ messages = 0
    /\ redisFaults = 0
    /\ dbFaults = 0
    /\ restarts = 0
    /\ lostCreates = {}
    /\ failedDeletes = {}

(***************************************************************************)
(* The stores.                                                             *)
(***************************************************************************)
RedisFault == redisFaults < MaxRedisFaults /\ redisFaults' = redisFaults + 1
DbFault    == dbFaults < MaxDbFaults /\ dbFaults' = dbFaults + 1

\* A Redis write succeeds, or fails having taken effect or not; the tracker
\* logs a warning and goes on either way.
RedisWrite(Effect, store) ==
    \/ Effect /\ UNCHANGED redisFaults
    \/ RedisFault /\ (Effect \/ UNCHANGED store)

\* A database write succeeds, or fails having taken effect or not.
DbWriteFails(Effect) == DbFault /\ (Effect \/ UNCHANGED rows)

\* Mutant: the key is built from the address of the message, not of the flight.
StoreFlightByMessage(f) == rFlight' = [rFlight EXCEPT ![msg.hex] = f]

\* SET flight:<flight.HexIdent>
StoreFlight(f) == rFlight' = [rFlight EXCEPT ![f.hex] = f]

\* INSERT INTO flights: last position and maximum altitude are those of f.
InsertFlight(f) ==
    rows' = rows \union {[session |-> f.session, hex |-> f.hex, pos |-> f.pos,
                          alt |-> f.alt, ended |-> Never]}

\* UPDATE flights ... WHERE session_id = f.session; matching no row is no error.
UpdateFlight(f, t) ==
    rows' = {IF r.session = f.session
             THEN [r EXCEPT !.pos = f.pos, !.alt = f.alt, !.ended = t] ELSE r : r \in rows}

(***************************************************************************)
(* Start: load the flights that have not ended.                            *)
(***************************************************************************)
OpenRows == {r \in rows : r.ended = Never}

\* With nothing to load, the maps stay empty and the subscription begins.
StartOk ==
    /\ pc = "start"
    /\ OpenRows = {}
    /\ pc' = "idle"
    /\ UNCHANGED <<msg, flight, locals, redis, db, env, redisFaults, dbFaults, history>>

\* GetActiveFlights selects rows whose ended_at is NULL and scans that column
\* into a time.Time, an error for every row there is; main exits.
StartFails ==
    /\ pc = "start"
    /\ \/ OpenRows # {} /\ UNCHANGED dbFaults
       \/ DbFault
    /\ pc' = "exited"
    /\ UNCHANGED <<msg, flight, locals, redis, db, env, redisFaults, history>>

(***************************************************************************)
(* ProcessMessage.                                                         *)
(***************************************************************************)
Done == pc' = "idle" /\ msg' = Null /\ flight' = Null

\* JetStream may hand over any message: it redelivers what was not acknowledged in
\* time and replays the last 24 hours to a new consumer (Pipeline).
Receive ==
    /\ pc = "idle"
    /\ messages < MaxMessages
    /\ messages' = messages + 1
    /\ \E m \in States : m.ts <= now /\ msg' = m
    /\ pc' = "validate"
    /\ UNCHANGED <<flight, locals, redis, db, now, restarts, redisFaults, dbFaults, history>>

\* t.states[hex] = state, or mergeStates: values that are not zero replace.
Merge(old, new) ==
    IF old = Null THEN new
    ELSE [old EXCEPT !.pos = IF new.pos # 0 THEN new.pos ELSE @,
                     !.alt = IF new.alt # 0 THEN new.alt ELSE @,
                     !.ts  = new.ts]

\* GetFlightValidation: "1"; or an error, which is only logged.
Accept ==
    /\ pc = "validate"
    /\ \/ rValid[msg.hex] = "1" /\ UNCHANGED redisFaults
       \/ RedisFault
    /\ states' = [states EXCEPT ![msg.hex] = Merge(@, msg)]
    /\ pc' = "storeState"
    /\ UNCHANGED <<msg, flight, activeFlights, redis, db, env, dbFaults, history>>

\* "0", or no such key.
Skip ==
    /\ pc = "validate"
    /\ rValid[msg.hex] # "1"
    /\ Done
    /\ UNCHANGED <<locals, redis, db, env, redisFaults, dbFaults, history>>

\* SET aircraft:<hex>: the state of this message alone.
StoreAircraftState ==
    /\ pc = "storeState"
    /\ RedisWrite(rState' = [rState EXCEPT ![msg.hex] = msg], rState)
    /\ pc' = "insertState"
    /\ UNCHANGED <<msg, flight, locals, rFlight, rValid, db, env, dbFaults, history>>

\* INSERT INTO aircraft_states, a table nothing reads back.
InsertState ==
    /\ pc = "insertState"
    /\ pc' = "getFlight"
    /\ UNCHANGED <<msg, flight, locals, redis, db, env, redisFaults, dbFaults, history>>

\* The database fails, or refuses a speed or track that is not a whole number:
\* their columns are INTEGER.
InsertStateFails ==
    /\ pc = "insertState"
    /\ DbFault \/ UNCHANGED dbFaults
    /\ Done
    /\ UNCHANGED <<locals, redis, db, env, redisFaults, history>>

(***************************************************************************)
(* updateFlight.                                                           *)
(***************************************************************************)
Stale(m) == now - m.ts > StaleAfter

\* The flight after this message: its position is the last one, even if zero.
Updated(f) ==
    [f EXCEPT !.pos = msg.pos, !.alt = IF msg.alt > @ THEN msg.alt ELSE @]

\* Mutant: the ended flight stays in the map.
UpdateWithoutDelete(f, shared) ==
    /\ flight' = Updated(f)
    /\ IF Stale(msg)
       THEN /\ states' = [states EXCEPT ![msg.hex] = Null]
            /\ pc' = "deleteFlight"
            /\ UNCHANGED activeFlights
       ELSE /\ activeFlights' = IF shared THEN [activeFlights EXCEPT ![msg.hex] = Updated(f)]
                                ELSE activeFlights
            /\ pc' = "putFlight"
            /\ UNCHANGED states

\* The else-branch of updateFlight on f; shared: f is the map's own pointer.
Update(f, shared) ==
    /\ flight' = Updated(f)
    /\ IF Stale(msg)
       THEN /\ activeFlights' = [activeFlights EXCEPT ![msg.hex] = Null]
            /\ states' = [states EXCEPT ![msg.hex] = Null]
            /\ pc' = "deleteFlight"
       ELSE /\ activeFlights' = IF shared THEN [activeFlights EXCEPT ![msg.hex] = Updated(f)]
                                ELSE activeFlights
            /\ pc' = "putFlight"
            /\ UNCHANGED states

\* GetFlight answers: a missing key gives a pointer to a zero Flight, not nil.
GetFlight ==
    /\ pc = "getFlight"
    /\ Update(IF rFlight[msg.hex] = Null THEN ZeroFlight ELSE rFlight[msg.hex], FALSE)
    /\ UNCHANGED <<msg, redis, db, env, redisFaults, dbFaults, history>>

\* GetFlight fails and the tracker's own map has the flight...
FindLocalFlight ==
    /\ pc = "getFlight"
    /\ RedisFault
    /\ activeFlights[msg.hex] # Null
    /\ Update(activeFlights[msg.hex], TRUE)
    /\ UNCHANGED <<msg, redis, db, env, dbFaults, history>>

\* Mutant: the session's name is not fresh.
NewFlightReusesSession ==
    /\ pc = "getFlight"
    /\ RedisFault
    /\ activeFlights[msg.hex] = Null
    /\ flight' = [session |-> nextSession, hex |-> msg.hex, pos |-> 0, alt |-> 0]
    /\ activeFlights' = [activeFlights EXCEPT ![msg.hex] = flight']
    /\ pc' = "createInRedis"
    /\ UNCHANGED <<msg, states, redis, db, env, dbFaults, history>>

\* ...or has not: the only way a flight is created.
NewFlight ==
    /\ pc = "getFlight"
    /\ RedisFault
    /\ activeFlights[msg.hex] = Null
    /\ flight' = [session |-> nextSession, hex |-> msg.hex, pos |-> 0, alt |-> 0]
    /\ activeFlights' = [activeFlights EXCEPT ![msg.hex] = flight']
    /\ nextSession' = nextSession + 1
    /\ pc' = "createInRedis"
    /\ UNCHANGED <<msg, states, redis, rows, env, dbFaults, history>>

\* Mutant: a failed StoreFlight is returned instead of logged.
CreateInRedisOrReturn ==
    /\ pc = "createInRedis"
    /\ \/ StoreFlight(flight) /\ pc' = "createInDb" /\ UNCHANGED <<msg, flight, redisFaults>>
       \/ RedisFault /\ Done /\ UNCHANGED rFlight
    /\ UNCHANGED <<locals, rState, rValid, db, env, dbFaults, history>>

CreateInRedis ==
    /\ pc = "createInRedis"
    /\ RedisWrite(StoreFlight(flight), rFlight)
    /\ pc' = "createInDb"
    /\ UNCHANGED <<msg, flight, locals, rState, rValid, db, env, dbFaults, history>>

CreateInDb ==
    /\ pc = "createInDb"
    /\ InsertFlight(flight)
    /\ Done
    /\ UNCHANGED <<locals, redis, nextSession, env, redisFaults, dbFaults, history>>

CreateInDbFails ==
    /\ pc = "createInDb"
    /\ DbWriteFails(InsertFlight(flight))
    /\ lostCreates' = lostCreates \union {flight.session}
    /\ Done
    /\ UNCHANGED <<locals, redis, nextSession, env, redisFaults, failedDeletes>>

PutFlight ==
    /\ pc = "putFlight"
    /\ RedisWrite(StoreFlight(flight), rFlight)
    /\ Done
    /\ UNCHANGED <<locals, rState, rValid, db, env, dbFaults, history>>

\* Mutant: the aircraft's state is deleted, its flight is not.
DeleteFlightForgotten ==
    /\ pc = "deleteFlight"
    /\ pc' = "deleteState"
    /\ UNCHANGED <<msg, flight, locals, redis, db, env, redisFaults, dbFaults, history>>

\* DEL flight:<hex> for a flight that has ended.
DeleteFlight ==
    /\ pc = "deleteFlight"
    /\ rFlight' = [rFlight EXCEPT ![msg.hex] = Null]
    /\ pc' = "deleteState"
    /\ UNCHANGED <<msg, flight, locals, rState, rValid, db, env, redisFaults, dbFaults, history>>

DeleteFlightFails ==
    /\ pc = "deleteFlight"
    /\ RedisFault
    /\ rFlight' \in {rFlight, [rFlight EXCEPT ![msg.hex] = Null]}
    /\ failedDeletes' = failedDeletes \union {flight.session}
    /\ pc' = "deleteState"
    /\ UNCHANGED <<msg, flight, locals, rState, rValid, db, env, dbFaults, lostCreates>>

DeleteState ==
    /\ pc = "deleteState"
    /\ RedisWrite(rState' = [rState EXCEPT ![msg.hex] = Null], rState)
    /\ pc' = "endFlight"
    /\ UNCHANGED <<msg, flight, locals, rFlight, rValid, db, env, dbFaults, history>>

\* Mutant: the flight ends at the next reading of the clock, not at its message.
EndFlightInFuture ==
    /\ pc = "endFlight"
    /\ UpdateFlight(flight, now + 1)
    /\ Done
    /\ UNCHANGED <<locals, redis, nextSession, env, redisFaults, dbFaults, history>>

EndFlight ==
    /\ pc = "endFlight"
    /\ UpdateFlight(flight, msg.ts)
    /\ Done
    /\ UNCHANGED <<locals, redis, nextSession, env, redisFaults, dbFaults, history>>

EndFlightFails ==
    /\ pc = "endFlight"
    /\ DbWriteFails(UpdateFlight(flight, msg.ts))
    /\ Done
    /\ UNCHANGED <<locals, redis, nextSession, env, redisFaults, history>>

(***************************************************************************)
(* The surroundings.                                                       *)
(***************************************************************************)
\* The process is killed, or exits, and is started again; the stores remain.
Restart ==
    /\ restarts < MaxRestarts
    /\ restarts' = restarts + 1
    /\ pc' = "start"
    /\ msg' = Null
    /\ flight' = Null
    /\ activeFlights' = [k \in Keys |-> Null]
    /\ states' = [k \in Keys |-> Null]
    /\ lostCreates' = IF pc \in {"createInRedis", "createInDb"}
                      THEN lostCreates \union {flight.session} ELSE lostCreates
    /\ UNCHANGED <<redis, db, now, messages, redisFaults, dbFaults, failedDeletes>>

\* Redis drops keys whose time to live is over: 24 hours for flights and
\* validations, one hour for states.
Expire ==
    /\ \E k \in Keys :
          \/ rFlight' = [rFlight EXCEPT ![k] = Null] /\ UNCHANGED <<rState, rValid>>
          \/ rState' = [rState EXCEPT ![k] = Null] /\ UNCHANGED <<rFlight, rValid>>
          \/ rValid' = [rValid EXCEPT ![k] = "absent"] /\ UNCHANGED <<rFlight, rState>>
    /\ UNCHANGED <<pc, msg, flight, locals, db, env, redisFaults, dbFaults, history>>

\* No part of the system calls it: an operator, or a tool beside the system.
SetFlightValidation ==
    /\ \E k \in Judged, v \in {"0", "1"} : rValid' = [rValid EXCEPT ![k] = v]
    /\ UNCHANGED <<pc, msg, flight, locals, rFlight, rState, db, env, redisFaults, dbFaults,
                   history>>

Tick ==
    /\ now < MaxNow
    /\ now' = now + 1
    /\ UNCHANGED <<pc, msg, flight, locals, redis, db, messages, restarts, redisFaults,
                   dbFaults, history>>

(***************************************************************************)
(* The specification.                                                      *)
(***************************************************************************)
Starting   == StartOk \/ StartFails
Processing == \/ Accept \/ Skip \/ StoreAircraftState \/ InsertState \/ InsertStateFails
              \/ GetFlight \/ FindLocalFlight \/ NewFlight
              \/ CreateInRedis \/ CreateInDb \/ CreateInDbFails
              \/ PutFlight
              \/ DeleteFlight \/ DeleteFlightFails \/ DeleteState
              \/ EndFlight \/ EndFlightFails

Next == \/ Starting \/ Receive \/ Processing
        \/ Restart \/ Expire \/ SetFlightValidation \/ Tick

Spec == Init /\ [][Next]_vars

\* The tracker runs and time passes; nothing obliges a message to arrive.
FairSpec == Spec /\ WF_vars(Starting) /\ WF_vars(Processing) /\ WF_vars(Tick)

(***************************************************************************)
(* Safety.                                                                 *)
(***************************************************************************)
Maybe(S) == S \union {Null}

TypeOK ==
    /\ pc \in {"start", "exited", "idle", "validate", "storeState", "insertState",
               "getFlight", "createInRedis", "createInDb", "putFlight", "deleteFlight",
               "deleteState", "endFlight"}
    /\ msg \in Maybe(States)
    /\ flight \in Maybe(Flight)
    /\ activeFlights \in [Keys -> Maybe(Flight)]
    /\ states \in [Keys -> Maybe(States)]
    /\ rFlight \in [Keys -> Maybe(Flight)]
    /\ rState \in [Keys -> Maybe(States)]
    /\ rValid \in [Keys -> {"0", "1", "absent"}]
    /\ rows \in SUBSET Rows
    /\ nextSession \in Nat \ {0}
    /\ now \in Times
    /\ messages \in Nat
    /\ redisFaults \in Nat /\ dbFaults \in Nat /\ restarts \in Nat
    /\ lostCreates \in SUBSET Nat
    /\ failedDeletes \in SUBSET Nat

\* Wherever a session is found - in Redis, in the tracker's map, in the table -
\* it is the session of one aircraft, and it lies under that aircraft's key.
\* (StoreFlight builds the key from the flight, client.go 63; GetFlight from the
\* message, client.go 86, and gives a nameless flight for a missing key.)
SessionBelongsToOneAircraft ==
    /\ \A k \in Keys : rFlight[k] # Null => rFlight[k].hex = k
    /\ \A k \in Keys : activeFlights[k] # Null => activeFlights[k].hex = k
    /\ \A k, j \in Keys :
          rFlight[k] # Null /\ activeFlights[j] # Null
          /\ rFlight[k].session = activeFlights[j].session => k = j
    /\ \A r \in rows, k \in Keys :
          /\ rFlight[k] # Null /\ rFlight[k].session = r.session => r.hex = k
          /\ activeFlights[k] # Null /\ activeFlights[k].session = r.session => r.hex = k

\* A session that Redis or the map knows has its row in the table, unless its
\* INSERT failed or the process was killed before it (main.go 211-221 writes the
\* map and Redis first and the table last).
PhantomOnlyAfterLostCreate ==
    \A k \in Keys : \A f \in {rFlight[k], activeFlights[k]} \ {Null} :
        f.session # 0 =>
            \/ \E r \in rows : r.session = f.session
            \/ f.session \in lostCreates
            \/ pc \in {"createInRedis", "createInDb"} /\ flight.session = f.session

\* The map never offers a flight that has ended: a message that arrives while
\* Redis fails cannot bring it back (main.go 236-238 takes it out of the map
\* before any call to a store).
LocalFlightNotEnded ==
    \A k \in Keys, r \in rows :
        activeFlights[k] # Null /\ r.session = activeFlights[k].session => r.ended = Never

\* Redis forgets a flight before the table says that it has ended, so a session
\* that has ended is still in Redis only if its DEL failed (main.go 241-249).
EndedFlightLeftRedis ==
    \A k \in Keys, r \in rows :
        rFlight[k] # Null /\ r.session = rFlight[k].session /\ r.ended # Never
            => r.session \in failedDeletes

\* The flights table, whatever fails, keeps the promises of FlightSessions.  No
\* more sessions are needed than Redis calls can fail: see NewFlight.
Table == INSTANCE FlightSessions WITH
            Names <- 1 .. MaxRedisFaults,
            Aircraft <- Keys,
            sessions <- {[session |-> r.session, hex |-> r.hex, ended |-> r.ended] : r \in rows}
TableSpec == Table!Spec

(***************************************************************************)
(* What the documentation, the comments and the tests say, and does not    *)
(* hold.                                                                   *)
(***************************************************************************)
\* main_test.go 129-131 (the Redis the tests run against) takes an aircraft
\* nobody has judged as valid: a message is skipped only if its aircraft is "0".
SkippedOnlyIfInvalid ==
    [][ pc = "validate" /\ pc' = "idle" => rValid[msg.hex] = "0" ]_vars

\* README 227: "Flight sessions are automatically detected and tracked".  When a
\* message was processed and no call failed, the flight kept for it in Redis is
\* the aircraft's.
FlightIsTheAircrafts ==
    [][ pc = "putFlight" /\ pc' = "idle" /\ redisFaults = 0
          => rFlight'[msg.hex] # Null ]_vars

\* main_test.go 164-169, "start with existing flights": the tracker starts when
\* there are flights to load; it gives up only if the database fails.
StartsWithOpenFlights ==
    [][ pc = "start" /\ pc' = "exited" => dbFaults' # dbFaults ]_vars

\* A flight that keeps its session from one state to the next.
SameSession(k) ==
    rFlight[k] # Null /\ rFlight'[k] # Null /\ rFlight'[k].session = rFlight[k].session

\* README 230, "Flight path (first/last position)": a flight that had a position
\* still has one after the next message, whatever that message carries.
LastPositionKept ==
    [][ \A k \in Keys : SameSession(k) /\ rFlight[k].pos # 0 => rFlight'[k].pos # 0 ]_vars

\* README 231, "Maximum altitude and speed": the maximum never falls.
MaxAltitudeNeverFalls ==
    [][ \A k \in Keys : SameSession(k) => rFlight'[k].alt >= rFlight[k].alt ]_vars

\* README 217-219, "maintains real-time state for each aircraft: [...] Position":
\* while the key lives, an aircraft's state in Redis does not lose its position.
RedisStateKeepsPosition ==
    [][ \A k \in Keys :
          rState[k] # Null /\ rState'[k] # Null /\ rState[k].pos # 0
            => rState'[k].pos # 0 ]_vars

\* main.go 234: "Check if flight has ended (no updates for 5 minutes)".  A flight
\* whose aircraft sends nothing for that long does end.
SilentFlightEnds ==
    \A k \in Keys :
        activeFlights[k] # Null ~> activeFlights[k] = Null

=============================================================================
