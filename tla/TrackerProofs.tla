---------------------------- MODULE TrackerProofs ----------------------------
(***************************************************************************)
(* What holds of the tracker and its stores for any set of aircraft, any   *)
(* bounds and any number of failed calls and restarts.                     *)
(*                                                                         *)
(* The inductive invariant says of every record of a session, wherever it  *)
(* is, that records of one session name one aircraft (OneOwner); what the  *)
(* local variables of ProcessMessage are between two calls (InHand); and   *)
(* how far the creation or the end of a flight has got when the process is *)
(* about to make the next call (Creating, Ending, Putting).                *)
(*                                                                         *)
(* That the flights table implements FlightSessions needs two facts more   *)
(* (TableIInv): a session has one row at most, and sessions are no more    *)
(* than calls to Redis have failed.                                        *)
(***************************************************************************)
EXTENDS Tracker, TLAPS

\* All the records of flights there are.
Known == rows \union (({rFlight[k] : k \in Keys} \union {activeFlights[k] : k \in Keys}
                       \union {flight}) \ {Null})

\* Records of one session name one aircraft; the next session is new; the session
\* of a flight that was never given one names none.
Agrees(S, next) ==
    /\ \A x, y \in S : x.session = y.session => x.hex = y.hex
    /\ \A x \in S : x.session < next /\ (x.session = 0 => x.hex = NoHex)

\* Every record lies under its own key; the map and the table hold none that is
\* nameless.
UnderOwnKey ==
    /\ \A k \in Keys : rFlight[k] # Null => rFlight[k].hex = k
    /\ \A k \in Keys : activeFlights[k] # Null =>
                          activeFlights[k].hex = k /\ activeFlights[k].session # 0
    /\ \A r \in rows : r.session # 0

OneOwner == Agrees(Known, nextSession) /\ UnderOwnKey

\* Places where ProcessMessage has a message, and where it has a flight too.
WithMessage == pc \notin {"start", "exited", "idle"}
WithFlight  == pc \in {"createInRedis", "createInDb", "putFlight", "deleteFlight",
                       "deleteState", "endFlight"}

InHand ==
    /\ WithMessage => msg # Null
    /\ WithFlight => flight # Null /\ (flight.session # 0 => flight.hex = msg.hex)

\* The session being created is in no row yet.
Creating ==
    pc \in {"createInRedis", "createInDb"} =>
        /\ flight.session # 0
        /\ \A r \in rows : r.session # flight.session

\* The flight being ended has left the map, and then Redis if that did not fail.
Ending ==
    /\ pc \in {"deleteFlight", "deleteState", "endFlight"} =>
          \A k \in Keys : activeFlights[k] # Null => activeFlights[k].session # flight.session
    /\ pc \in {"deleteState", "endFlight"} =>
          \A k \in Keys :
              rFlight[k] # Null /\ rFlight[k].session = flight.session /\ flight.session # 0
                  => flight.session \in failedDeletes

HasRow(s) == \E r \in rows : r.session = s

\* The flight being written back to Redis could have been there already.
Putting ==
    pc = "putFlight" =>
        /\ flight.session # 0 => HasRow(flight.session) \/ flight.session \in lostCreates
        /\ \A r \in rows : r.session = flight.session /\ r.ended # Never
                              => r.session \in failedDeletes

IInv ==
    /\ TypeOK
    /\ OneOwner
    /\ InHand
    /\ Creating
    /\ Ending
    /\ Putting
    /\ PhantomOnlyAfterLostCreate
    /\ LocalFlightNotEnded
    /\ EndedFlightLeftRedis

\* The zero Flight is a flight, and a flight has the fields of one.
LEMMA ZeroFlightType == TrackerAssumption => ZeroFlight \in Flight
BY DEF TrackerAssumption, ZeroFlight, Flight, Keys, Positions, Altitudes

LEMMA FlightFields ==
    ASSUME NEW f \in Flight
    PROVE  f.session \in Nat /\ f.hex \in Keys /\ f.pos \in Positions /\ f.alt \in Altitudes
BY DEF Flight

LEMMA StateFields ==
    ASSUME NEW m \in States
    PROVE  m.hex \in Keys /\ m.pos \in Positions /\ m.alt \in Altitudes /\ m.ts \in Times
BY DEF States

\* The update of a flight changes neither its session nor its aircraft.
LEMMA UpdatedKeeps ==
    ASSUME NEW f \in Flight, msg \in States
    PROVE  /\ Updated(f) \in Flight
           /\ Updated(f).session = f.session
           /\ Updated(f).hex = f.hex
BY DEF Updated, Flight, States

LEMMA MergeType ==
    ASSUME NEW old \in Maybe(States), NEW new \in States, NullAssumption
    PROVE  Merge(old, new) \in States
BY DEF Merge, Maybe, States

\* A flight that is created.
LEMMA NewFlightType ==
    ASSUME TrackerAssumption, msg \in States, nextSession \in Nat
    PROVE  [session |-> nextSession, hex |-> msg.hex, pos |-> 0, alt |-> 0] \in Flight
BY DEF TrackerAssumption, Flight, States, Positions, Altitudes

LEMMA InsertType ==
    ASSUME rows \in SUBSET Rows, NEW f \in Flight, InsertFlight(f)
    PROVE  rows' \in SUBSET Rows
BY DEF InsertFlight, Rows, Flight

\* UPDATE keeps every row's session and aircraft, gives the rows of the flight the
\* end t and leaves the others as they are.
LEMMA UpdateRow ==
    ASSUME rows \in SUBSET Rows, NEW f \in Flight, NEW t \in Times, UpdateFlight(f, t),
           NEW x \in rows'
    PROVE  \E r \in rows : /\ r.session = x.session
                          /\ r.hex = x.hex
                          /\ IF r.session = f.session THEN x.ended = t ELSE x = r
<1>1. PICK r \in rows : x = IF r.session = f.session
                           THEN [r EXCEPT !.pos = f.pos, !.alt = f.alt, !.ended = t] ELSE r
    BY DEF UpdateFlight
<1>2. r \in Rows
    OBVIOUS
<1>3. CASE r.session = f.session
    BY <1>1, <1>2, <1>3 DEF Rows
<1>4. CASE r.session # f.session
    BY <1>1, <1>4
<1> QED
    BY <1>3, <1>4

\* UPDATE loses no row.
LEMMA UpdateKeepsRows ==
    ASSUME rows \in SUBSET Rows, NEW f \in Flight, NEW t \in Times, UpdateFlight(f, t),
           NEW r \in rows
    PROVE  \E x \in rows' : x.session = r.session
<1> DEFINE x == IF r.session = f.session
                THEN [r EXCEPT !.pos = f.pos, !.alt = f.alt, !.ended = t] ELSE r
<1>1. x \in rows'
    BY DEF UpdateFlight
<1>2. x.session = r.session
    BY DEF Rows
<1> QED
    BY <1>1, <1>2

LEMMA UpdateType ==
    ASSUME rows \in SUBSET Rows, NEW f \in Flight, NEW t \in Times, UpdateFlight(f, t)
    PROVE  rows' \in SUBSET Rows
BY ZenonT(60) DEF UpdateFlight, Rows, Flight

\* Every step keeps the types.
LEMMA TypeStep ==
    TrackerAssumption /\ NullAssumption /\ TypeOK /\ InHand /\ [Next]_vars => TypeOK'
<1> SUFFICES ASSUME TrackerAssumption, NullAssumption, TypeOK, InHand, [Next]_vars PROVE TypeOK'
    OBVIOUS
<1> USE DEF TypeOK, Maybe, locals, redis, db, history, env, Done
<1>1. CASE StartOk
    BY <1>1 DEF StartOk
<1>2. CASE StartFails
    BY <1>2 DEF StartFails, DbFault
<1>3. CASE Receive
    BY <1>3 DEF Receive
<1>4. CASE Accept
  <2>0. msg \in States
      BY <1>4 DEF Accept, InHand, WithMessage
  <2>1. \A old \in Maybe(States) : Merge(old, msg) \in States
      BY <2>0, MergeType
  <2>2. states' \in [Keys -> Maybe(States)]
      BY <2>1, <1>4 DEF Accept
  <2>3. redisFaults' \in Nat
      BY <1>4 DEF Accept, RedisFault
  <2> QED
      BY <2>2, <2>3, <1>4 DEF Accept
<1>5. CASE Skip
    BY <1>5 DEF Skip
<1>6. CASE StoreAircraftState
  <2>0. msg \in States
      BY <1>6 DEF StoreAircraftState, InHand, WithMessage
  <2>1. rState' \in [Keys -> Maybe(States)] /\ redisFaults' \in Nat
      BY <2>0, <1>6 DEF StoreAircraftState, RedisWrite, RedisFault
  <2> QED
      BY <2>1, <1>6 DEF StoreAircraftState
<1>7. CASE InsertState
    BY <1>7 DEF InsertState
<1>8. CASE InsertStateFails
    BY <1>8 DEF InsertStateFails, DbFault
<1>9. CASE GetFlight
  <2>0. msg \in States
      BY <1>9 DEF GetFlight, InHand, WithMessage
  <2> DEFINE f == IF rFlight[msg.hex] = Null THEN ZeroFlight ELSE rFlight[msg.hex]
  <2>1. f \in Flight
      BY <2>0, ZeroFlightType, StateFields
  <2> HIDE DEF f
  <2>2. Updated(f) \in Flight
      BY <2>0, <2>1, UpdatedKeeps
  <2>3. flight' \in Flight /\ activeFlights' \in [Keys -> Maybe(Flight)]
        /\ states' \in [Keys -> Maybe(States)] /\ pc' \in {"deleteFlight", "putFlight"}
      BY <2>2, <1>9 DEF GetFlight, Update, f
  <2> QED
      BY <2>3, <1>9 DEF GetFlight
<1>10. CASE FindLocalFlight
  <2>0. msg \in States
      BY <1>10 DEF FindLocalFlight, InHand, WithMessage
  <2> DEFINE f == activeFlights[msg.hex]
  <2>1. f \in Flight
      BY <2>0, StateFields, <1>10 DEF FindLocalFlight
  <2> HIDE DEF f
  <2>2. Updated(f) \in Flight
      BY <2>0, <2>1, UpdatedKeeps
  <2>3. flight' \in Flight /\ activeFlights' \in [Keys -> Maybe(Flight)]
        /\ states' \in [Keys -> Maybe(States)] /\ pc' \in {"deleteFlight", "putFlight"}
      BY <2>2, <1>10 DEF FindLocalFlight, Update, f
  <2>4. redisFaults' \in Nat
      BY <1>10 DEF FindLocalFlight, RedisFault
  <2> QED
      BY <2>3, <2>4, <1>10 DEF FindLocalFlight
<1>11. CASE NewFlight
  <2>0. msg \in States
      BY <1>11 DEF NewFlight, InHand, WithMessage
  <2>1. flight' \in Flight
      BY <2>0, NewFlightType, <1>11 DEF NewFlight
  <2>2. activeFlights' \in [Keys -> Maybe(Flight)]
      BY <2>1, <1>11 DEF NewFlight
  <2>3. nextSession' \in Nat \ {0} /\ redisFaults' \in Nat
      BY <1>11 DEF NewFlight, RedisFault
  <2> QED
      BY <2>1, <2>2, <2>3, <1>11 DEF NewFlight
<1>12. CASE CreateInRedis
  <2>0. msg \in States /\ flight \in Flight
      BY <1>12 DEF CreateInRedis, InHand, WithMessage, WithFlight
  <2>1. rFlight' \in [Keys -> Maybe(Flight)] /\ redisFaults' \in Nat
      BY <2>0, <1>12 DEF CreateInRedis, RedisWrite, RedisFault, StoreFlight
  <2> QED
      BY <2>1, <1>12 DEF CreateInRedis
<1>13. CASE CreateInDb
  <2>0. msg \in States /\ flight \in Flight
      BY <1>13 DEF CreateInDb, InHand, WithMessage, WithFlight
  <2> QED
      BY <2>0, InsertType, <1>13 DEF CreateInDb
<1>14. CASE CreateInDbFails
  <2>0. msg \in States /\ flight \in Flight
      BY <1>14 DEF CreateInDbFails, InHand, WithMessage, WithFlight
  <2>1. rows' \in SUBSET Rows
      BY <2>0, InsertType, <1>14 DEF CreateInDbFails, DbWriteFails
  <2>a. flight.session \in Nat
      BY <2>0, FlightFields
  <2>2. dbFaults' \in Nat
      BY <1>14 DEF CreateInDbFails, DbWriteFails, DbFault
  <2>3. lostCreates' \in SUBSET Nat
      BY <2>a, <1>14 DEF CreateInDbFails
  <2> QED
      BY <2>1, <2>2, <2>3, <1>14 DEF CreateInDbFails
<1>15. CASE PutFlight
  <2>0. msg \in States /\ flight \in Flight
      BY <1>15 DEF PutFlight, InHand, WithMessage, WithFlight
  <2>1. rFlight' \in [Keys -> Maybe(Flight)] /\ redisFaults' \in Nat
      BY <2>0, <1>15 DEF PutFlight, RedisWrite, RedisFault, StoreFlight
  <2> QED
      BY <2>1, <1>15 DEF PutFlight
<1>16. CASE DeleteFlight
    BY <1>16 DEF DeleteFlight
<1>17. CASE DeleteFlightFails
  <2>0. msg \in States /\ flight \in Flight
      BY <1>17 DEF DeleteFlightFails, InHand, WithMessage, WithFlight
  <2>1. rFlight' \in [Keys -> Maybe(Flight)]
      BY <1>17 DEF DeleteFlightFails
  <2>a. flight.session \in Nat
      BY <2>0, FlightFields
  <2>2. redisFaults' \in Nat
      BY <1>17 DEF DeleteFlightFails, RedisFault
  <2>3. failedDeletes' \in SUBSET Nat
      BY <2>a, <1>17 DEF DeleteFlightFails
  <2> QED
      BY <2>1, <2>2, <2>3, <1>17 DEF DeleteFlightFails
<1>18. CASE DeleteState
  <2>0. msg \in States
      BY <1>18 DEF DeleteState, InHand, WithMessage
  <2>1. rState' \in [Keys -> Maybe(States)] /\ redisFaults' \in Nat
      BY <2>0, <1>18 DEF DeleteState, RedisWrite, RedisFault
  <2> QED
      BY <2>1, <1>18 DEF DeleteState
<1>19. CASE EndFlight
  <2>0. msg \in States /\ flight \in Flight
      BY <1>19 DEF EndFlight, InHand, WithMessage, WithFlight
  <2> QED
      BY <2>0, UpdateType, StateFields, <1>19 DEF EndFlight
<1>20. CASE EndFlightFails
  <2>0. msg \in States /\ flight \in Flight
      BY <1>20 DEF EndFlightFails, InHand, WithMessage, WithFlight
  <2>1. rows' \in SUBSET Rows
      BY <2>0, UpdateType, StateFields, <1>20 DEF EndFlightFails, DbWriteFails
  <2> QED
      BY <2>1, <1>20 DEF EndFlightFails, DbWriteFails, DbFault
<1>21. CASE Restart
  <2>1. lostCreates' \in SUBSET Nat
      BY FlightFields, <1>21 DEF Restart, InHand, WithFlight
  <2> QED
      BY <2>1, <1>21 DEF Restart
<1>22. CASE Expire
    BY <1>22 DEF Expire
<1>23. CASE SetFlightValidation
  <2>1. rValid' \in [Keys -> {"0", "1", "absent"}]
      BY <1>23 DEF SetFlightValidation
  <2> QED
      BY <2>1, <1>23 DEF SetFlightValidation
<1>24. CASE Tick
  <2>1. now' \in Times
      BY <1>24 DEF Tick, Times, TrackerAssumption
  <2> QED
      BY <2>1, <1>24 DEF Tick
<1>25. CASE UNCHANGED vars
    BY <1>25 DEF vars
<1> QED
    BY <1>1, <1>2, <1>3, <1>4, <1>5, <1>6, <1>7, <1>8, <1>9, <1>10, <1>11, <1>12, <1>13,
       <1>14, <1>15, <1>16, <1>17, <1>18, <1>19, <1>20, <1>21, <1>22, <1>23, <1>24, <1>25 DEF
       Next, Starting, Processing

\* Every step keeps hold of the message and of the flight.
LEMMA InHandStep ==
    TrackerAssumption /\ NullAssumption /\ TypeOK /\ OneOwner /\ InHand /\ [Next]_vars =>
       InHand'
<1> SUFFICES ASSUME TrackerAssumption, NullAssumption, TypeOK, OneOwner, InHand, [Next]_vars
   PROVE InHand'
    OBVIOUS
<1> USE DEF InHand, WithMessage, WithFlight, locals, redis, db, history, env, Done
<1>1. CASE StartOk
    BY <1>1 DEF StartOk
<1>2. CASE StartFails
    BY <1>2 DEF StartFails
<1>3. CASE Receive
    BY <1>3 DEF Receive, NullAssumption
<1>4. CASE Accept
    BY <1>4 DEF Accept
<1>5. CASE Skip
    BY <1>5 DEF Skip
<1>6. CASE StoreAircraftState
    BY <1>6 DEF StoreAircraftState
<1>7. CASE InsertState
    BY <1>7 DEF InsertState
<1>8. CASE InsertStateFails
    BY <1>8 DEF InsertStateFails
<1>9. CASE GetFlight
  <2>0. msg \in States
      BY <1>9 DEF GetFlight, InHand, WithMessage, TypeOK, Maybe
  <2> DEFINE f == IF rFlight[msg.hex] = Null THEN ZeroFlight ELSE rFlight[msg.hex]
  <2>1. f \in Flight
      BY <2>0, ZeroFlightType, StateFields DEF TypeOK, Maybe
  <2> HIDE DEF f
  <2>2. Updated(f).session = f.session /\ Updated(f).hex = f.hex /\ Updated(f) # Null
      BY <2>0, <2>1, UpdatedKeeps DEF NullAssumption
  <2>3. f.session # 0 => f.hex = msg.hex
      BY <2>0, StateFields, <1>9 DEF GetFlight, OneOwner, UnderOwnKey, f, ZeroFlight
  <2> QED
      BY <2>0, <2>2, <2>3, <1>9 DEF GetFlight, Update, f, NullAssumption
<1>10. CASE FindLocalFlight
  <2>0. msg \in States
      BY <1>10 DEF FindLocalFlight, InHand, WithMessage, TypeOK, Maybe
  <2> DEFINE f == activeFlights[msg.hex]
  <2>1. f \in Flight
      BY <2>0, StateFields, <1>10 DEF FindLocalFlight, TypeOK, Maybe
  <2> HIDE DEF f
  <2>2. Updated(f).session = f.session /\ Updated(f).hex = f.hex /\ Updated(f) # Null
      BY <2>0, <2>1, UpdatedKeeps DEF NullAssumption
  <2>3. f.session # 0 => f.hex = msg.hex
      BY <2>0, StateFields, <1>10 DEF FindLocalFlight, OneOwner, UnderOwnKey, f, ZeroFlight
  <2> QED
      BY <2>0, <2>2, <2>3, <1>10 DEF FindLocalFlight, Update, f, NullAssumption
<1>11. CASE NewFlight
  <2>0. msg \in States
      BY <1>11 DEF NewFlight, InHand, WithMessage, TypeOK, Maybe
  <2>1. flight' # Null
      BY <2>0, NewFlightType, <1>11 DEF NewFlight, NullAssumption, TypeOK
  <2> QED
      BY <2>0, <2>1, <1>11 DEF NewFlight, NullAssumption
<1>12. CASE CreateInRedis
    BY <1>12 DEF CreateInRedis
<1>13. CASE CreateInDb
    BY <1>13 DEF CreateInDb
<1>14. CASE CreateInDbFails
    BY <1>14 DEF CreateInDbFails
<1>15. CASE PutFlight
    BY <1>15 DEF PutFlight
<1>16. CASE DeleteFlight
    BY <1>16 DEF DeleteFlight
<1>17. CASE DeleteFlightFails
    BY <1>17 DEF DeleteFlightFails
<1>18. CASE DeleteState
    BY <1>18 DEF DeleteState
<1>19. CASE EndFlight
    BY <1>19 DEF EndFlight
<1>20. CASE EndFlightFails
    BY <1>20 DEF EndFlightFails
<1>21. CASE Restart
    BY <1>21 DEF Restart
<1>22. CASE Expire
    BY <1>22 DEF Expire
<1>23. CASE SetFlightValidation
    BY <1>23 DEF SetFlightValidation
<1>24. CASE Tick
    BY <1>24 DEF Tick
<1>25. CASE UNCHANGED vars
    BY <1>25 DEF vars
<1> QED
    BY <1>1, <1>2, <1>3, <1>4, <1>5, <1>6, <1>7, <1>8, <1>9, <1>10, <1>11, <1>12, <1>13,
       <1>14, <1>15, <1>16, <1>17, <1>18, <1>19, <1>20, <1>21, <1>22, <1>23, <1>24, <1>25 DEF
       Next, Starting, Processing

\* A session that is being created is in no row.
LEMMA CreatingStep ==
    TrackerAssumption /\ NullAssumption /\ TypeOK /\ OneOwner /\ Creating /\ [Next]_vars =>
       Creating'
<1> SUFFICES ASSUME TrackerAssumption, NullAssumption, TypeOK, OneOwner, Creating, [Next]_vars
   PROVE Creating'
    OBVIOUS
<1> USE DEF Creating, locals, redis, db, history, env, Done
<1>1. CASE StartOk
    BY <1>1 DEF StartOk
<1>2. CASE StartFails
    BY <1>2 DEF StartFails
<1>3. CASE Receive
    BY <1>3 DEF Receive
<1>4. CASE Accept
    BY <1>4 DEF Accept
<1>5. CASE Skip
    BY <1>5 DEF Skip
<1>6. CASE StoreAircraftState
    BY <1>6 DEF StoreAircraftState
<1>7. CASE InsertState
    BY <1>7 DEF InsertState
<1>8. CASE InsertStateFails
    BY <1>8 DEF InsertStateFails
<1>9. CASE GetFlight
    BY <1>9 DEF GetFlight, Update
<1>10. CASE FindLocalFlight
    BY <1>10 DEF FindLocalFlight, Update
<1>11. CASE NewFlight
  <2>1. \A r \in rows : r \in Known
      BY DEF Known
  <2>2. \A r \in rows : r \in Rows /\ r.session \in Nat
      BY DEF TypeOK, Rows
  <2> QED
      BY <2>1, <2>2, <1>11 DEF NewFlight, TypeOK, OneOwner, UnderOwnKey, Agrees
<1>12. CASE CreateInRedis
    BY <1>12 DEF CreateInRedis
<1>13. CASE CreateInDb
    BY <1>13 DEF CreateInDb
<1>14. CASE CreateInDbFails
    BY <1>14 DEF CreateInDbFails
<1>15. CASE PutFlight
    BY <1>15 DEF PutFlight
<1>16. CASE DeleteFlight
    BY <1>16 DEF DeleteFlight
<1>17. CASE DeleteFlightFails
    BY <1>17 DEF DeleteFlightFails
<1>18. CASE DeleteState
    BY <1>18 DEF DeleteState
<1>19. CASE EndFlight
    BY <1>19 DEF EndFlight
<1>20. CASE EndFlightFails
    BY <1>20 DEF EndFlightFails
<1>21. CASE Restart
    BY <1>21 DEF Restart
<1>22. CASE Expire
    BY <1>22 DEF Expire
<1>23. CASE SetFlightValidation
    BY <1>23 DEF SetFlightValidation
<1>24. CASE Tick
    BY <1>24 DEF Tick
<1>25. CASE UNCHANGED vars
    BY <1>25 DEF vars
<1> QED
    BY <1>1, <1>2, <1>3, <1>4, <1>5, <1>6, <1>7, <1>8, <1>9, <1>10, <1>11, <1>12, <1>13,
       <1>14, <1>15, <1>16, <1>17, <1>18, <1>19, <1>20, <1>21, <1>22, <1>23, <1>24, <1>25 DEF
       Next, Starting, Processing

\* Records that agree on the aircraft of every session go on doing so when one of
\* the next session is added.
LEMMA AgreesNew ==
    ASSUME NEW S, NEW R, Agrees(S, nextSession), nextSession \in Nat \ {0}, NEW h,
           \A x \in S : x.session \in Nat,
           \A x \in R : x \in S \/ (x.session = nextSession /\ x.hex = h)
    PROVE  Agrees(R, nextSession + 1)
BY DEF Agrees

\* Every record is of a flight or a row, so its session is a number.
LEMMA KnownType == TypeOK => \A x \in Known : x.session \in Nat
BY DEF TypeOK, Known, Maybe, Flight, Rows

\* Every step keeps one aircraft for each session.
LEMMA AgreesStep ==
    TrackerAssumption /\ NullAssumption /\ TypeOK /\ InHand /\ Agrees(Known, nextSession) /\
       [Next]_vars => Agrees(Known, nextSession)'
<1> SUFFICES ASSUME TrackerAssumption, NullAssumption, TypeOK, InHand, Agrees(Known,
   nextSession), [Next]_vars PROVE Agrees(Known, nextSession)'
    OBVIOUS
<1> USE DEF TypeOK, locals, redis, db, history, env, Done
<1>1. CASE StartOk
  <2>1. Known' \subseteq Known
      BY <1>1 DEF StartOk, Known, RedisWrite
  <2>8. \A x \in Known' : \/ \E y \in Known : y.session = x.session /\ y.hex = x.hex
                          \/ x.session = 0 /\ x.hex = NoHex
      BY <2>1
  <2>9. nextSession' = nextSession
      BY <1>1 DEF StartOk
  <2> QED
      BY <2>8, <2>9, KnownType DEF Agrees
<1>2. CASE StartFails
  <2>1. Known' \subseteq Known
      BY <1>2 DEF StartFails, Known, RedisWrite
  <2>8. \A x \in Known' : \/ \E y \in Known : y.session = x.session /\ y.hex = x.hex
                          \/ x.session = 0 /\ x.hex = NoHex
      BY <2>1
  <2>9. nextSession' = nextSession
      BY <1>2 DEF StartFails
  <2> QED
      BY <2>8, <2>9, KnownType DEF Agrees
<1>3. CASE Receive
  <2>1. Known' \subseteq Known
      BY <1>3 DEF Receive, Known, RedisWrite
  <2>8. \A x \in Known' : \/ \E y \in Known : y.session = x.session /\ y.hex = x.hex
                          \/ x.session = 0 /\ x.hex = NoHex
      BY <2>1
  <2>9. nextSession' = nextSession
      BY <1>3 DEF Receive
  <2> QED
      BY <2>8, <2>9, KnownType DEF Agrees
<1>4. CASE Accept
  <2>1. Known' \subseteq Known
      BY <1>4 DEF Accept, Known, RedisWrite
  <2>8. \A x \in Known' : \/ \E y \in Known : y.session = x.session /\ y.hex = x.hex
                          \/ x.session = 0 /\ x.hex = NoHex
      BY <2>1
  <2>9. nextSession' = nextSession
      BY <1>4 DEF Accept
  <2> QED
      BY <2>8, <2>9, KnownType DEF Agrees
<1>5. CASE Skip
  <2>1. Known' \subseteq Known
      BY <1>5 DEF Skip, Known, RedisWrite
  <2>8. \A x \in Known' : \/ \E y \in Known : y.session = x.session /\ y.hex = x.hex
                          \/ x.session = 0 /\ x.hex = NoHex
      BY <2>1
  <2>9. nextSession' = nextSession
      BY <1>5 DEF Skip
  <2> QED
      BY <2>8, <2>9, KnownType DEF Agrees
<1>6. CASE StoreAircraftState
  <2>1. Known' \subseteq Known
      BY <1>6 DEF StoreAircraftState, Known, RedisWrite
  <2>8. \A x \in Known' : \/ \E y \in Known : y.session = x.session /\ y.hex = x.hex
                          \/ x.session = 0 /\ x.hex = NoHex
      BY <2>1
  <2>9. nextSession' = nextSession
      BY <1>6 DEF StoreAircraftState
  <2> QED
      BY <2>8, <2>9, KnownType DEF Agrees
<1>7. CASE InsertState
  <2>1. Known' \subseteq Known
      BY <1>7 DEF InsertState, Known, RedisWrite
  <2>8. \A x \in Known' : \/ \E y \in Known : y.session = x.session /\ y.hex = x.hex
                          \/ x.session = 0 /\ x.hex = NoHex
      BY <2>1
  <2>9. nextSession' = nextSession
      BY <1>7 DEF InsertState
  <2> QED
      BY <2>8, <2>9, KnownType DEF Agrees
<1>8. CASE InsertStateFails
  <2>1. Known' \subseteq Known
      BY <1>8 DEF InsertStateFails, Known, RedisWrite
  <2>8. \A x \in Known' : \/ \E y \in Known : y.session = x.session /\ y.hex = x.hex
                          \/ x.session = 0 /\ x.hex = NoHex
      BY <2>1
  <2>9. nextSession' = nextSession
      BY <1>8 DEF InsertStateFails
  <2> QED
      BY <2>8, <2>9, KnownType DEF Agrees
<1>9. CASE GetFlight
  <2>0. msg \in States
      BY <1>9 DEF GetFlight, InHand, WithMessage, TypeOK, Maybe
  <2> DEFINE f == IF rFlight[msg.hex] = Null THEN ZeroFlight ELSE rFlight[msg.hex]
  <2>1. f \in Flight
      BY <2>0, ZeroFlightType, StateFields DEF TypeOK, Maybe
  <2> HIDE DEF f
  <2>2. Updated(f).session = f.session /\ Updated(f).hex = f.hex
      BY <2>0, <2>1, UpdatedKeeps
  <2>3. \A x \in Known' : x \in Known \/ x = Updated(f)
      BY <1>9 DEF GetFlight, Update, f, Known
  <2>4. f \in Known \/ (f.session = 0 /\ f.hex = NoHex)
      BY <2>0, <2>1, StateFields DEF f, Known, ZeroFlight, NullAssumption
  <2>8. \A x \in Known' : \/ \E y \in Known : y.session = x.session /\ y.hex = x.hex
                          \/ x.session = 0 /\ x.hex = NoHex
      BY <2>2, <2>3, <2>4
  <2>9. nextSession' = nextSession
      BY <1>9 DEF GetFlight
  <2> QED
      BY <2>8, <2>9, KnownType DEF Agrees
<1>10. CASE FindLocalFlight
  <2>0. msg \in States
      BY <1>10 DEF FindLocalFlight, InHand, WithMessage, TypeOK, Maybe
  <2> DEFINE f == activeFlights[msg.hex]
  <2>1. f \in Flight
      BY <2>0, StateFields, <1>10 DEF FindLocalFlight, TypeOK, Maybe
  <2> HIDE DEF f
  <2>2. Updated(f).session = f.session /\ Updated(f).hex = f.hex
      BY <2>0, <2>1, UpdatedKeeps
  <2>3. \A x \in Known' : x \in Known \/ x = Updated(f)
      BY <1>10 DEF FindLocalFlight, Update, f, Known
  <2>4. f \in Known \/ (f.session = 0 /\ f.hex = NoHex)
      BY <2>0, <2>1, StateFields DEF f, Known, ZeroFlight, NullAssumption
  <2>8. \A x \in Known' : \/ \E y \in Known : y.session = x.session /\ y.hex = x.hex
                          \/ x.session = 0 /\ x.hex = NoHex
      BY <2>2, <2>3, <2>4
  <2>9. nextSession' = nextSession
      BY <1>10 DEF FindLocalFlight
  <2> QED
      BY <2>8, <2>9, KnownType DEF Agrees
<1>11. CASE NewFlight
  <2>1. \A x \in Known' : x \in Known \/ (x.session = nextSession /\ x.hex = msg.hex)
      BY <1>11 DEF NewFlight, Known
  <2>2. nextSession' = nextSession + 1
      BY <1>11 DEF NewFlight
  <2> QED
      BY <2>1, <2>2, KnownType, AgreesNew
<1>12. CASE CreateInRedis
  <2>0. msg \in States /\ flight \in Flight
      BY <1>12 DEF CreateInRedis, InHand, WithMessage, WithFlight, TypeOK, Maybe
  <2>a. flight \in Known
      BY <2>0 DEF Known, NullAssumption
  <2>1. \A x \in Known' : x \in Known
      BY <2>a, <1>12 DEF CreateInRedis, Known, RedisWrite, StoreFlight
  <2>8. \A x \in Known' : \/ \E y \in Known : y.session = x.session /\ y.hex = x.hex
                          \/ x.session = 0 /\ x.hex = NoHex
      BY <2>1
  <2>9. nextSession' = nextSession
      BY <1>12 DEF CreateInRedis
  <2> QED
      BY <2>8, <2>9, KnownType DEF Agrees
<1>13. CASE CreateInDb
  <2>0. msg \in States /\ flight \in Flight
      BY <1>13 DEF CreateInDb, InHand, WithMessage, WithFlight, TypeOK, Maybe
  <2>a. flight \in Known
      BY <2>0 DEF Known, NullAssumption
  <2>1. \A x \in Known' : x \in Known \/ (x.session = flight.session /\ x.hex = flight.hex)
      BY <1>13 DEF CreateInDb, Known, InsertFlight, DbWriteFails
  <2>8. \A x \in Known' : \/ \E y \in Known : y.session = x.session /\ y.hex = x.hex
                          \/ x.session = 0 /\ x.hex = NoHex
      BY <2>a, <2>1
  <2>9. nextSession' = nextSession
      BY <1>13 DEF CreateInDb
  <2> QED
      BY <2>8, <2>9, KnownType DEF Agrees
<1>14. CASE CreateInDbFails
  <2>0. msg \in States /\ flight \in Flight
      BY <1>14 DEF CreateInDbFails, InHand, WithMessage, WithFlight, TypeOK, Maybe
  <2>a. flight \in Known
      BY <2>0 DEF Known, NullAssumption
  <2>1. \A x \in Known' : x \in Known \/ (x.session = flight.session /\ x.hex = flight.hex)
      BY <1>14 DEF CreateInDbFails, Known, InsertFlight, DbWriteFails
  <2>8. \A x \in Known' : \/ \E y \in Known : y.session = x.session /\ y.hex = x.hex
                          \/ x.session = 0 /\ x.hex = NoHex
      BY <2>a, <2>1
  <2>9. nextSession' = nextSession
      BY <1>14 DEF CreateInDbFails
  <2> QED
      BY <2>8, <2>9, KnownType DEF Agrees
<1>15. CASE PutFlight
  <2>0. msg \in States /\ flight \in Flight
      BY <1>15 DEF PutFlight, InHand, WithMessage, WithFlight, TypeOK, Maybe
  <2>a. flight \in Known
      BY <2>0 DEF Known, NullAssumption
  <2>1. \A x \in Known' : x \in Known
      BY <2>a, <1>15 DEF PutFlight, Known, RedisWrite, StoreFlight
  <2>8. \A x \in Known' : \/ \E y \in Known : y.session = x.session /\ y.hex = x.hex
                          \/ x.session = 0 /\ x.hex = NoHex
      BY <2>1
  <2>9. nextSession' = nextSession
      BY <1>15 DEF PutFlight
  <2> QED
      BY <2>8, <2>9, KnownType DEF Agrees
<1>16. CASE DeleteFlight
  <2>1. Known' \subseteq Known
      BY <1>16 DEF DeleteFlight, Known, RedisWrite
  <2>8. \A x \in Known' : \/ \E y \in Known : y.session = x.session /\ y.hex = x.hex
                          \/ x.session = 0 /\ x.hex = NoHex
      BY <2>1
  <2>9. nextSession' = nextSession
      BY <1>16 DEF DeleteFlight
  <2> QED
      BY <2>8, <2>9, KnownType DEF Agrees
<1>17. CASE DeleteFlightFails
  <2>1. Known' \subseteq Known
      BY <1>17 DEF DeleteFlightFails, Known, RedisWrite
  <2>8. \A x \in Known' : \/ \E y \in Known : y.session = x.session /\ y.hex = x.hex
                          \/ x.session = 0 /\ x.hex = NoHex
      BY <2>1
  <2>9. nextSession' = nextSession
      BY <1>17 DEF DeleteFlightFails
  <2> QED
      BY <2>8, <2>9, KnownType DEF Agrees
<1>18. CASE DeleteState
  <2>1. Known' \subseteq Known
      BY <1>18 DEF DeleteState, Known, RedisWrite
  <2>8. \A x \in Known' : \/ \E y \in Known : y.session = x.session /\ y.hex = x.hex
                          \/ x.session = 0 /\ x.hex = NoHex
      BY <2>1
  <2>9. nextSession' = nextSession
      BY <1>18 DEF DeleteState
  <2> QED
      BY <2>8, <2>9, KnownType DEF Agrees
<1>19. CASE EndFlight
  <2>0. flight \in Flight /\ msg.ts \in Times /\ rows \in SUBSET Rows
      BY StateFields, <1>19 DEF EndFlight, InHand, WithMessage, WithFlight, TypeOK, Maybe
  <2>a. UpdateFlight(flight, msg.ts) \/ rows' = rows
      BY <1>19 DEF EndFlight, DbWriteFails
  <2>1. \A x \in rows' : \E r \in rows : r.session = x.session /\ r.hex = x.hex
      BY <2>0, <2>a, UpdateRow
  <2>2. \A x \in Known' : \E y \in Known : y.session = x.session /\ y.hex = x.hex
      BY <2>1, <1>19 DEF EndFlight, Known
  <2>8. \A x \in Known' : \/ \E y \in Known : y.session = x.session /\ y.hex = x.hex
                          \/ x.session = 0 /\ x.hex = NoHex
      BY <2>2
  <2>9. nextSession' = nextSession
      BY <1>19 DEF EndFlight
  <2> QED
      BY <2>8, <2>9, KnownType DEF Agrees
<1>20. CASE EndFlightFails
  <2>0. flight \in Flight /\ msg.ts \in Times /\ rows \in SUBSET Rows
      BY StateFields, <1>20 DEF EndFlightFails, InHand, WithMessage, WithFlight, TypeOK, Maybe
  <2>a. UpdateFlight(flight, msg.ts) \/ rows' = rows
      BY <1>20 DEF EndFlightFails, DbWriteFails
  <2>1. \A x \in rows' : \E r \in rows : r.session = x.session /\ r.hex = x.hex
      BY <2>0, <2>a, UpdateRow
  <2>2. \A x \in Known' : \E y \in Known : y.session = x.session /\ y.hex = x.hex
      BY <2>1, <1>20 DEF EndFlightFails, Known
  <2>8. \A x \in Known' : \/ \E y \in Known : y.session = x.session /\ y.hex = x.hex
                          \/ x.session = 0 /\ x.hex = NoHex
      BY <2>2
  <2>9. nextSession' = nextSession
      BY <1>20 DEF EndFlightFails
  <2> QED
      BY <2>8, <2>9, KnownType DEF Agrees
<1>21. CASE Restart
  <2>1. Known' \subseteq Known
      BY <1>21 DEF Restart, Known, RedisWrite
  <2>8. \A x \in Known' : \/ \E y \in Known : y.session = x.session /\ y.hex = x.hex
                          \/ x.session = 0 /\ x.hex = NoHex
      BY <2>1
  <2>9. nextSession' = nextSession
      BY <1>21 DEF Restart
  <2> QED
      BY <2>8, <2>9, KnownType DEF Agrees
<1>22. CASE Expire
  <2>1. Known' \subseteq Known
      BY <1>22 DEF Expire, Known, RedisWrite
  <2>8. \A x \in Known' : \/ \E y \in Known : y.session = x.session /\ y.hex = x.hex
                          \/ x.session = 0 /\ x.hex = NoHex
      BY <2>1
  <2>9. nextSession' = nextSession
      BY <1>22 DEF Expire
  <2> QED
      BY <2>8, <2>9, KnownType DEF Agrees
<1>23. CASE SetFlightValidation
  <2>1. Known' \subseteq Known
      BY <1>23 DEF SetFlightValidation, Known, RedisWrite
  <2>8. \A x \in Known' : \/ \E y \in Known : y.session = x.session /\ y.hex = x.hex
                          \/ x.session = 0 /\ x.hex = NoHex
      BY <2>1
  <2>9. nextSession' = nextSession
      BY <1>23 DEF SetFlightValidation
  <2> QED
      BY <2>8, <2>9, KnownType DEF Agrees
<1>24. CASE Tick
  <2>1. Known' \subseteq Known
      BY <1>24 DEF Tick, Known, RedisWrite
  <2>8. \A x \in Known' : \/ \E y \in Known : y.session = x.session /\ y.hex = x.hex
                          \/ x.session = 0 /\ x.hex = NoHex
      BY <2>1
  <2>9. nextSession' = nextSession
      BY <1>24 DEF Tick
  <2> QED
      BY <2>8, <2>9, KnownType DEF Agrees
<1>25. CASE UNCHANGED vars
  <2>1. Known' = Known /\ nextSession' = nextSession
      BY <1>25 DEF vars, Known
  <2> QED
      BY <2>1 DEF Agrees
<1> QED
    BY <1>1, <1>2, <1>3, <1>4, <1>5, <1>6, <1>7, <1>8, <1>9, <1>10, <1>11, <1>12, <1>13,
       <1>14, <1>15, <1>16, <1>17, <1>18, <1>19, <1>20, <1>21, <1>22, <1>23, <1>24, <1>25 DEF
       Next, Starting, Processing

\* Every record stays under its own key.
LEMMA UnderOwnKeyStep ==
    TrackerAssumption /\ NullAssumption /\ TypeOK /\ InHand /\ Creating /\ UnderOwnKey /\
       [Next]_vars => UnderOwnKey'
<1> SUFFICES ASSUME TrackerAssumption, NullAssumption, TypeOK, InHand, Creating, UnderOwnKey,
   [Next]_vars PROVE UnderOwnKey'
    OBVIOUS
<1> USE DEF UnderOwnKey, locals, redis, db, history, env, Done
<1>1. CASE StartOk
    BY <1>1 DEF StartOk
<1>2. CASE StartFails
    BY <1>2 DEF StartFails
<1>3. CASE Receive
    BY <1>3 DEF Receive
<1>4. CASE Accept
    BY <1>4 DEF Accept
<1>5. CASE Skip
    BY <1>5 DEF Skip
<1>6. CASE StoreAircraftState
    BY <1>6 DEF StoreAircraftState
<1>7. CASE InsertState
    BY <1>7 DEF InsertState
<1>8. CASE InsertStateFails
    BY <1>8 DEF InsertStateFails
<1>9. CASE GetFlight
  <2>0. msg \in States
      BY <1>9 DEF GetFlight, InHand, WithMessage, TypeOK, Maybe
  <2> DEFINE f == IF rFlight[msg.hex] = Null THEN ZeroFlight ELSE rFlight[msg.hex]
  <2>1. f \in Flight
      BY <2>0, ZeroFlightType, StateFields DEF TypeOK, Maybe
  <2> HIDE DEF f
  <2>2. Updated(f).session = f.session /\ Updated(f).hex = f.hex /\ Updated(f) # Null
      BY <2>0, <2>1, UpdatedKeeps DEF NullAssumption
  <2> QED
      BY <2>0, <2>1, <2>2, StateFields, <1>9 DEF GetFlight, Update, f, TypeOK
<1>10. CASE FindLocalFlight
  <2>0. msg \in States
      BY <1>10 DEF FindLocalFlight, InHand, WithMessage, TypeOK, Maybe
  <2> DEFINE f == activeFlights[msg.hex]
  <2>1. f \in Flight
      BY <2>0, StateFields, <1>10 DEF FindLocalFlight, TypeOK, Maybe
  <2> HIDE DEF f
  <2>2. Updated(f).session = f.session /\ Updated(f).hex = f.hex /\ Updated(f) # Null
      BY <2>0, <2>1, UpdatedKeeps DEF NullAssumption
  <2> QED
      BY <2>0, <2>1, <2>2, StateFields, <1>10 DEF FindLocalFlight, Update, f, TypeOK
<1>11. CASE NewFlight
  <2>0. msg \in States
      BY <1>11 DEF NewFlight, InHand, WithMessage, TypeOK, Maybe
  <2>1. flight'.hex = msg.hex /\ flight'.session # 0
      BY <1>11 DEF NewFlight, TypeOK
  <2> QED
      BY <2>0, <2>1, StateFields, <1>11 DEF NewFlight, TypeOK
<1>12. CASE CreateInRedis
  <2>0. msg \in States /\ flight \in Flight
      BY <1>12 DEF CreateInRedis, InHand, WithMessage, WithFlight, TypeOK, Maybe
  <2>1. flight.hex \in Keys
      BY <2>0, FlightFields
  <2> QED
      BY <2>0, <2>1, <1>12 DEF CreateInRedis, RedisWrite, StoreFlight, TypeOK
<1>13. CASE CreateInDb
    BY <1>13 DEF CreateInDb, InsertFlight, Creating
<1>14. CASE CreateInDbFails
    BY <1>14 DEF CreateInDbFails, InsertFlight, DbWriteFails, Creating
<1>15. CASE PutFlight
  <2>0. msg \in States /\ flight \in Flight
      BY <1>15 DEF PutFlight, InHand, WithMessage, WithFlight, TypeOK, Maybe
  <2>1. flight.hex \in Keys
      BY <2>0, FlightFields
  <2> QED
      BY <2>0, <2>1, <1>15 DEF PutFlight, RedisWrite, StoreFlight, TypeOK
<1>16. CASE DeleteFlight
    BY <1>16 DEF DeleteFlight, TypeOK
<1>17. CASE DeleteFlightFails
    BY <1>17 DEF DeleteFlightFails, TypeOK
<1>18. CASE DeleteState
    BY <1>18 DEF DeleteState
<1>19. CASE EndFlight
  <2>0. flight \in Flight /\ msg.ts \in Times /\ rows \in SUBSET Rows
      BY StateFields, <1>19 DEF EndFlight, InHand, WithMessage, WithFlight, TypeOK, Maybe
  <2>a. UpdateFlight(flight, msg.ts) \/ rows' = rows
      BY <1>19 DEF EndFlight, DbWriteFails
  <2>1. \A x \in rows' : \E r \in rows : r.session = x.session
      BY <2>0, <2>a, UpdateRow
  <2> QED
      BY <2>1, <1>19 DEF EndFlight
<1>20. CASE EndFlightFails
  <2>0. flight \in Flight /\ msg.ts \in Times /\ rows \in SUBSET Rows
      BY StateFields, <1>20 DEF EndFlightFails, InHand, WithMessage, WithFlight, TypeOK, Maybe
  <2>a. UpdateFlight(flight, msg.ts) \/ rows' = rows
      BY <1>20 DEF EndFlightFails, DbWriteFails
  <2>1. \A x \in rows' : \E r \in rows : r.session = x.session
      BY <2>0, <2>a, UpdateRow
  <2> QED
      BY <2>1, <1>20 DEF EndFlightFails
<1>21. CASE Restart
    BY <1>21 DEF Restart, TypeOK
<1>22. CASE Expire
    BY <1>22 DEF Expire, TypeOK
<1>23. CASE SetFlightValidation
    BY <1>23 DEF SetFlightValidation
<1>24. CASE Tick
    BY <1>24 DEF Tick
<1>25. CASE UNCHANGED vars
    BY <1>25 DEF vars
<1> QED
    BY <1>1, <1>2, <1>3, <1>4, <1>5, <1>6, <1>7, <1>8, <1>9, <1>10, <1>11, <1>12, <1>13,
       <1>14, <1>15, <1>16, <1>17, <1>18, <1>19, <1>20, <1>21, <1>22, <1>23, <1>24, <1>25 DEF
       Next, Starting, Processing

\* What the two branches that find a flight have in common.
Found(f) ==
    /\ f \in Flight
    /\ f.session # 0 => f.hex = msg.hex
    /\ \/ f.session = 0
       \/ rFlight[msg.hex] # Null /\ rFlight[msg.hex].session = f.session
       \/ activeFlights[msg.hex] # Null /\ activeFlights[msg.hex].session = f.session
    /\ flight'.session = f.session
    /\ \A k \in Keys : activeFlights'[k] # Null =>
          activeFlights[k] # Null /\ activeFlights'[k].session = activeFlights[k].session
    /\ \/ pc' = "deleteFlight" /\ activeFlights'[msg.hex] = Null
       \/ pc' = "putFlight"
    /\ UNCHANGED <<msg, rFlight, rows, lostCreates, failedDeletes>>

LEMMA FoundFlight ==
    ASSUME TrackerAssumption, NullAssumption, TypeOK, OneOwner, InHand,
           GetFlight \/ FindLocalFlight
    PROVE  msg \in States /\ \E f : Found(f)
<1> USE DEF locals, redis, db, history, env
<1>0. msg \in States
    BY DEF GetFlight, FindLocalFlight, InHand, WithMessage, TypeOK, Maybe
<1>1. CASE GetFlight
  <2> DEFINE f == IF rFlight[msg.hex] = Null THEN ZeroFlight ELSE rFlight[msg.hex]
  <2>1. f \in Flight
      BY <1>0, ZeroFlightType, StateFields DEF TypeOK, Maybe
  <2>2. f.session # 0 => f.hex = msg.hex /\ rFlight[msg.hex] # Null
                         /\ rFlight[msg.hex].session = f.session
      BY <1>0, StateFields DEF OneOwner, UnderOwnKey, ZeroFlight
  <2> HIDE DEF f
  <2>3. flight' = Updated(f) /\ Updated(f).session = f.session
      BY <1>0, <1>1, <2>1, UpdatedKeeps DEF GetFlight, Update, f
  <2>4. \A k \in Keys : activeFlights'[k] # Null =>
          activeFlights[k] # Null /\ activeFlights'[k].session = activeFlights[k].session
      BY <1>0, <1>1 DEF GetFlight, Update, TypeOK
  <2>5. \/ pc' = "deleteFlight" /\ activeFlights'[msg.hex] = Null
        \/ pc' = "putFlight"
      BY <1>0, <1>1, StateFields DEF GetFlight, Update, TypeOK
  <2>6. UNCHANGED <<msg, rFlight, rows, lostCreates, failedDeletes>>
      BY <1>1 DEF GetFlight
  <2>7. Found(f)
      BY <2>1, <2>2, <2>3, <2>4, <2>5, <2>6 DEF Found
  <2> QED
      BY <1>0, <2>7
<1>2. CASE FindLocalFlight
  <2> DEFINE f == activeFlights[msg.hex]
  <2>1. f \in Flight /\ f # Null
      BY <1>0, <1>2, StateFields DEF FindLocalFlight, TypeOK, Maybe
  <2>2. f.hex = msg.hex
      BY <1>0, <2>1, StateFields DEF OneOwner, UnderOwnKey
  <2> HIDE DEF f
  <2>3. flight' = Updated(f) /\ Updated(f).session = f.session
      BY <1>0, <1>2, <2>1, UpdatedKeeps DEF FindLocalFlight, Update, f
  <2>4. \A k \in Keys : activeFlights'[k] # Null =>
          activeFlights[k] # Null /\ activeFlights'[k].session = activeFlights[k].session
      BY <1>0, <1>2, <2>1, <2>3 DEF FindLocalFlight, Update, TypeOK, f
  <2>5. \/ pc' = "deleteFlight" /\ activeFlights'[msg.hex] = Null
        \/ pc' = "putFlight"
      BY <1>0, <1>2, StateFields DEF FindLocalFlight, Update, TypeOK
  <2>6. UNCHANGED <<msg, rFlight, rows, lostCreates, failedDeletes>>
      BY <1>2 DEF FindLocalFlight
  <2>7. activeFlights[msg.hex] # Null /\ activeFlights[msg.hex].session = f.session
      BY <2>1 DEF f
  <2>8. Found(f)
      BY <2>1, <2>2, <2>3, <2>4, <2>5, <2>6, <2>7 DEF Found
  <2> QED
      BY <1>0, <2>8
<1> QED
    BY <1>1, <1>2

\* A session that has a number is in the map, or in Redis, under one key only: the
\* one of the message whose flight it is.
LEMMA OneKey ==
    ASSUME NullAssumption, OneOwner, NEW k \in Keys, NEW j \in Keys
    PROVE  /\ activeFlights[k] # Null /\ activeFlights[j] # Null
              /\ activeFlights[k].session = activeFlights[j].session => k = j
           /\ activeFlights[k] # Null /\ rFlight[j] # Null
              /\ activeFlights[k].session = rFlight[j].session => k = j
           /\ flight # Null /\ rFlight[j] # Null
              /\ flight.session = rFlight[j].session => flight.hex = j
           /\ flight # Null /\ activeFlights[j] # Null
              /\ flight.session = activeFlights[j].session => flight.hex = j
<1>1. activeFlights[k] # Null => activeFlights[k] \in Known
    BY DEF Known
<1>2. activeFlights[j] # Null => activeFlights[j] \in Known
    BY DEF Known
<1>3. rFlight[j] # Null => rFlight[j] \in Known
    BY DEF Known
<1>4. flight # Null => flight \in Known
    BY DEF Known
<1> QED
    BY <1>1, <1>2, <1>3, <1>4 DEF OneOwner, UnderOwnKey, Agrees

\* SET stores the flight under its own key or changes nothing...
LEMMA PutStep ==
    ASSUME TypeOK, RedisWrite(StoreFlight(flight), rFlight)
    PROVE  \A k \in Keys : rFlight'[k] = rFlight[k] \/ rFlight'[k] = flight
BY DEF RedisWrite, StoreFlight, TypeOK

\* ...and the other Redis steps only take flights away.
LEMMA TakenStep ==
    ASSUME TypeOK, DeleteFlight \/ DeleteFlightFails \/ Expire
    PROVE  \A k \in Keys : rFlight'[k] = rFlight[k] \/ rFlight'[k] = Null
BY DEF DeleteFlight, DeleteFlightFails, Expire, TypeOK

\* A flight being ended stays out of the map and out of Redis.
LEMMA EndingStep ==
    TrackerAssumption /\ NullAssumption /\ TypeOK /\ OneOwner /\ InHand /\ Ending /\
       [Next]_vars => Ending'
<1> SUFFICES ASSUME TrackerAssumption, NullAssumption, TypeOK, OneOwner, InHand, Ending,
   [Next]_vars PROVE Ending'
    OBVIOUS
<1> USE DEF Ending, locals, redis, db, history, env, Done
<1>1. CASE StartOk
    BY <1>1 DEF StartOk
<1>2. CASE StartFails
    BY <1>2 DEF StartFails
<1>3. CASE Receive
    BY <1>3 DEF Receive
<1>4. CASE Accept
    BY <1>4 DEF Accept
<1>5. CASE Skip
    BY <1>5 DEF Skip
<1>6. CASE StoreAircraftState
    BY <1>6 DEF StoreAircraftState
<1>7. CASE InsertState
    BY <1>7 DEF InsertState
<1>8. CASE InsertStateFails
    BY <1>8 DEF InsertStateFails
<1>9. CASE GetFlight
  <2>1. msg \in States /\ msg.hex \in Keys
      BY <1>9, FoundFlight, StateFields
  <2>2. PICK f : Found(f)
      BY <1>9, FoundFlight
  <2>3. ASSUME NEW k \in Keys, activeFlights'[k] # Null, pc' = "deleteFlight"
        PROVE  activeFlights'[k].session # flight'.session
  <3>1. activeFlights[k] # Null /\ activeFlights[k].session # 0 /\ k # msg.hex
        /\ activeFlights'[k].session = activeFlights[k].session
    BY <2>2, <2>3 DEF Found, OneOwner, UnderOwnKey
  <3>2. activeFlights[k].session # f.session
    BY <2>1, <2>2, <3>1, OneKey DEF Found
  <3> QED
    BY <2>2, <3>1, <3>2 DEF Found
  <2> QED
      BY <2>2, <2>3 DEF Found
<1>10. CASE FindLocalFlight
  <2>1. msg \in States /\ msg.hex \in Keys
      BY <1>10, FoundFlight, StateFields
  <2>2. PICK f : Found(f)
      BY <1>10, FoundFlight
  <2>3. ASSUME NEW k \in Keys, activeFlights'[k] # Null, pc' = "deleteFlight"
        PROVE  activeFlights'[k].session # flight'.session
  <3>1. activeFlights[k] # Null /\ activeFlights[k].session # 0 /\ k # msg.hex
        /\ activeFlights'[k].session = activeFlights[k].session
    BY <2>2, <2>3 DEF Found, OneOwner, UnderOwnKey
  <3>2. activeFlights[k].session # f.session
    BY <2>1, <2>2, <3>1, OneKey DEF Found
  <3> QED
    BY <2>2, <3>1, <3>2 DEF Found
  <2> QED
      BY <2>2, <2>3 DEF Found
<1>11. CASE NewFlight
    BY <1>11 DEF NewFlight
<1>12. CASE CreateInRedis
    BY <1>12 DEF CreateInRedis
<1>13. CASE CreateInDb
    BY <1>13 DEF CreateInDb
<1>14. CASE CreateInDbFails
    BY <1>14 DEF CreateInDbFails
<1>15. CASE PutFlight
    BY <1>15 DEF PutFlight
<1>16. CASE DeleteFlight
  <2>1. msg.hex \in Keys /\ flight # Null /\ (flight.session # 0 => flight.hex = msg.hex)
      BY StateFields, <1>16 DEF DeleteFlight, InHand, WithMessage, WithFlight, TypeOK, Maybe
  <2>2. \A k \in Keys : rFlight'[k] # Null => rFlight'[k] = rFlight[k] /\ k # msg.hex
      BY <1>16, TakenStep DEF DeleteFlight, TypeOK
  <2>3. \A k \in Keys : rFlight'[k] # Null /\ rFlight'[k].session = flight.session
                          => flight.session = 0
      BY <2>1, <2>2, OneKey
  <2> QED
      BY <2>3, <1>16 DEF DeleteFlight
<1>17. CASE DeleteFlightFails
    BY <1>17 DEF DeleteFlightFails
<1>18. CASE DeleteState
    BY <1>18 DEF DeleteState
<1>19. CASE EndFlight
    BY <1>19 DEF EndFlight
<1>20. CASE EndFlightFails
    BY <1>20 DEF EndFlightFails
<1>21. CASE Restart
    BY <1>21 DEF Restart
<1>22. CASE Expire
  <2>1. \A k \in Keys : rFlight'[k] = rFlight[k] \/ rFlight'[k] = Null
      BY <1>22, TakenStep
  <2> QED
      BY <2>1, <1>22 DEF Expire
<1>23. CASE SetFlightValidation
    BY <1>23 DEF SetFlightValidation
<1>24. CASE Tick
    BY <1>24 DEF Tick
<1>25. CASE UNCHANGED vars
    BY <1>25 DEF vars
<1> QED
    BY <1>1, <1>2, <1>3, <1>4, <1>5, <1>6, <1>7, <1>8, <1>9, <1>10, <1>11, <1>12, <1>13,
       <1>14, <1>15, <1>16, <1>17, <1>18, <1>19, <1>20, <1>21, <1>22, <1>23, <1>24, <1>25 DEF
       Next, Starting, Processing

\* The map gets no flight that has ended.
LEMMA LocalStep ==
    TrackerAssumption /\ NullAssumption /\ TypeOK /\ OneOwner /\ InHand /\ Creating /\ Ending
       /\ LocalFlightNotEnded /\ [Next]_vars => LocalFlightNotEnded'
<1> SUFFICES ASSUME TrackerAssumption, NullAssumption, TypeOK, OneOwner, InHand, Creating,
   Ending, LocalFlightNotEnded, [Next]_vars PROVE LocalFlightNotEnded'
    OBVIOUS
<1> USE DEF LocalFlightNotEnded, locals, redis, db, history, env, Done
<1>1. CASE StartOk
    BY <1>1 DEF StartOk
<1>2. CASE StartFails
    BY <1>2 DEF StartFails
<1>3. CASE Receive
    BY <1>3 DEF Receive
<1>4. CASE Accept
    BY <1>4 DEF Accept
<1>5. CASE Skip
    BY <1>5 DEF Skip
<1>6. CASE StoreAircraftState
    BY <1>6 DEF StoreAircraftState
<1>7. CASE InsertState
    BY <1>7 DEF InsertState
<1>8. CASE InsertStateFails
    BY <1>8 DEF InsertStateFails
<1>9. CASE GetFlight
  <2>1. msg \in States /\ msg.hex \in Keys
      BY <1>9, FoundFlight, StateFields
  <2>2. PICK f : Found(f)
      BY <1>9, FoundFlight
  <2> QED
      BY <2>2 DEF Found
<1>10. CASE FindLocalFlight
  <2>1. msg \in States /\ msg.hex \in Keys
      BY <1>10, FoundFlight, StateFields
  <2>2. PICK f : Found(f)
      BY <1>10, FoundFlight
  <2> QED
      BY <2>2 DEF Found
<1>11. CASE NewFlight
  <2>1. \A r \in rows : r \in Known /\ r.session \in Nat
      BY DEF Known, TypeOK, Rows
  <2>2. \A r \in rows : r.session # nextSession
      BY <2>1 DEF OneOwner, Agrees, TypeOK
  <2>3. \A k \in Keys : activeFlights'[k] = activeFlights[k]
                         \/ activeFlights'[k].session = nextSession
      BY <1>11 DEF NewFlight, TypeOK
  <2> QED
      BY <2>2, <2>3, <1>11 DEF NewFlight
<1>12. CASE CreateInRedis
    BY <1>12 DEF CreateInRedis
<1>13. CASE CreateInDb
  <2>1. \A r \in rows' : r \in rows \/ r.ended = Never
      BY <1>13 DEF CreateInDb, InsertFlight, DbWriteFails
  <2> QED
      BY <2>1, <1>13 DEF CreateInDb
<1>14. CASE CreateInDbFails
  <2>1. \A r \in rows' : r \in rows \/ r.ended = Never
      BY <1>14 DEF CreateInDbFails, InsertFlight, DbWriteFails
  <2> QED
      BY <2>1, <1>14 DEF CreateInDbFails
<1>15. CASE PutFlight
    BY <1>15 DEF PutFlight
<1>16. CASE DeleteFlight
    BY <1>16 DEF DeleteFlight
<1>17. CASE DeleteFlightFails
    BY <1>17 DEF DeleteFlightFails
<1>18. CASE DeleteState
    BY <1>18 DEF DeleteState
<1>19. CASE EndFlight
  <2>0. flight \in Flight /\ msg.ts \in Times /\ rows \in SUBSET Rows
      BY StateFields, <1>19 DEF EndFlight, InHand, WithMessage, WithFlight, TypeOK, Maybe
  <2>a. UpdateFlight(flight, msg.ts) \/ rows' = rows
      BY <1>19 DEF EndFlight, DbWriteFails
  <2>1. \A x \in rows' : x \in rows \/ x.session = flight.session
      BY <2>0, <2>a, UpdateRow
  <2> QED
      BY <2>1, <1>19 DEF EndFlight, Ending
<1>20. CASE EndFlightFails
  <2>0. flight \in Flight /\ msg.ts \in Times /\ rows \in SUBSET Rows
      BY StateFields, <1>20 DEF EndFlightFails, InHand, WithMessage, WithFlight, TypeOK, Maybe
  <2>a. UpdateFlight(flight, msg.ts) \/ rows' = rows
      BY <1>20 DEF EndFlightFails, DbWriteFails
  <2>1. \A x \in rows' : x \in rows \/ x.session = flight.session
      BY <2>0, <2>a, UpdateRow
  <2> QED
      BY <2>1, <1>20 DEF EndFlightFails, Ending
<1>21. CASE Restart
    BY <1>21 DEF Restart
<1>22. CASE Expire
    BY <1>22 DEF Expire
<1>23. CASE SetFlightValidation
    BY <1>23 DEF SetFlightValidation
<1>24. CASE Tick
    BY <1>24 DEF Tick
<1>25. CASE UNCHANGED vars
    BY <1>25 DEF vars
<1> QED
    BY <1>1, <1>2, <1>3, <1>4, <1>5, <1>6, <1>7, <1>8, <1>9, <1>10, <1>11, <1>12, <1>13,
       <1>14, <1>15, <1>16, <1>17, <1>18, <1>19, <1>20, <1>21, <1>22, <1>23, <1>24, <1>25 DEF
       Next, Starting, Processing

\* A flight that has ended is in Redis only if its DEL failed.
LEMMA LeftStep ==
    TrackerAssumption /\ NullAssumption /\ TypeOK /\ OneOwner /\ InHand /\ Creating /\ Ending
       /\ Putting /\ EndedFlightLeftRedis /\ [Next]_vars => EndedFlightLeftRedis'
<1> SUFFICES ASSUME TrackerAssumption, NullAssumption, TypeOK, OneOwner, InHand, Creating,
   Ending, Putting, EndedFlightLeftRedis, [Next]_vars PROVE EndedFlightLeftRedis'
    OBVIOUS
<1> USE DEF EndedFlightLeftRedis, locals, redis, db, history, env, Done
<1>1. CASE StartOk
    BY <1>1 DEF StartOk
<1>2. CASE StartFails
    BY <1>2 DEF StartFails
<1>3. CASE Receive
    BY <1>3 DEF Receive
<1>4. CASE Accept
    BY <1>4 DEF Accept
<1>5. CASE Skip
    BY <1>5 DEF Skip
<1>6. CASE StoreAircraftState
    BY <1>6 DEF StoreAircraftState
<1>7. CASE InsertState
    BY <1>7 DEF InsertState
<1>8. CASE InsertStateFails
    BY <1>8 DEF InsertStateFails
<1>9. CASE GetFlight
    BY <1>9 DEF GetFlight
<1>10. CASE FindLocalFlight
    BY <1>10 DEF FindLocalFlight
<1>11. CASE NewFlight
    BY <1>11 DEF NewFlight
<1>12. CASE CreateInRedis
  <2>1. \A k \in Keys : rFlight'[k] = rFlight[k] \/ rFlight'[k] = flight
      BY <1>12, PutStep DEF CreateInRedis
  <2> QED
      BY <2>1, <1>12 DEF CreateInRedis, Creating
<1>13. CASE CreateInDb
  <2>1. \A r \in rows' : r \in rows \/ r.ended = Never
      BY <1>13 DEF CreateInDb, InsertFlight, DbWriteFails
  <2> QED
      BY <2>1, <1>13 DEF CreateInDb
<1>14. CASE CreateInDbFails
  <2>1. \A r \in rows' : r \in rows \/ r.ended = Never
      BY <1>14 DEF CreateInDbFails, InsertFlight, DbWriteFails
  <2> QED
      BY <2>1, <1>14 DEF CreateInDbFails
<1>15. CASE PutFlight
  <2>1. \A k \in Keys : rFlight'[k] = rFlight[k] \/ rFlight'[k] = flight
      BY <1>15, PutStep DEF PutFlight
  <2> QED
      BY <2>1, <1>15 DEF PutFlight, Putting
<1>16. CASE DeleteFlight
  <2>1. \A k \in Keys : rFlight'[k] = rFlight[k] \/ rFlight'[k] = Null
      BY <1>16, TakenStep
  <2> QED
      BY <2>1, <1>16 DEF DeleteFlight
<1>17. CASE DeleteFlightFails
  <2>1. \A k \in Keys : rFlight'[k] = rFlight[k] \/ rFlight'[k] = Null
      BY <1>17, TakenStep
  <2> QED
      BY <2>1, <1>17 DEF DeleteFlightFails
<1>18. CASE DeleteState
    BY <1>18 DEF DeleteState
<1>19. CASE EndFlight
  <2>0. flight \in Flight /\ msg.ts \in Times /\ rows \in SUBSET Rows
      BY StateFields, <1>19 DEF EndFlight, InHand, WithMessage, WithFlight, TypeOK, Maybe
  <2>a. UpdateFlight(flight, msg.ts) \/ rows' = rows
      BY <1>19 DEF EndFlight, DbWriteFails
  <2>1. \A x \in rows' : x \in rows \/ (x.session = flight.session /\ x.session # 0)
      BY <2>0, <2>a, UpdateRow DEF OneOwner, UnderOwnKey
  <2> QED
      BY <2>1, <1>19 DEF EndFlight, Ending
<1>20. CASE EndFlightFails
  <2>0. flight \in Flight /\ msg.ts \in Times /\ rows \in SUBSET Rows
      BY StateFields, <1>20 DEF EndFlightFails, InHand, WithMessage, WithFlight, TypeOK, Maybe
  <2>a. UpdateFlight(flight, msg.ts) \/ rows' = rows
      BY <1>20 DEF EndFlightFails, DbWriteFails
  <2>1. \A x \in rows' : x \in rows \/ (x.session = flight.session /\ x.session # 0)
      BY <2>0, <2>a, UpdateRow DEF OneOwner, UnderOwnKey
  <2> QED
      BY <2>1, <1>20 DEF EndFlightFails, Ending
<1>21. CASE Restart
    BY <1>21 DEF Restart
<1>22. CASE Expire
  <2>1. \A k \in Keys : rFlight'[k] = rFlight[k] \/ rFlight'[k] = Null
      BY <1>22, TakenStep
  <2> QED
      BY <2>1, <1>22 DEF Expire
<1>23. CASE SetFlightValidation
    BY <1>23 DEF SetFlightValidation
<1>24. CASE Tick
    BY <1>24 DEF Tick
<1>25. CASE UNCHANGED vars
    BY <1>25 DEF vars
<1> QED
    BY <1>1, <1>2, <1>3, <1>4, <1>5, <1>6, <1>7, <1>8, <1>9, <1>10, <1>11, <1>12, <1>13,
       <1>14, <1>15, <1>16, <1>17, <1>18, <1>19, <1>20, <1>21, <1>22, <1>23, <1>24, <1>25 DEF
       Next, Starting, Processing

\* The flight written back could have been in Redis before.
LEMMA PuttingStep ==
    TrackerAssumption /\ NullAssumption /\ TypeOK /\ OneOwner /\ InHand /\ LocalFlightNotEnded
       /\ EndedFlightLeftRedis /\ PhantomOnlyAfterLostCreate /\ Putting /\ [Next]_vars =>
       Putting'
<1> SUFFICES ASSUME TrackerAssumption, NullAssumption, TypeOK, OneOwner, InHand,
   LocalFlightNotEnded, EndedFlightLeftRedis, PhantomOnlyAfterLostCreate, Putting, [Next]_vars
   PROVE Putting'
    OBVIOUS
<1> USE DEF Putting, HasRow, locals, redis, db, history, env, Done
<1>1. CASE StartOk
    BY <1>1 DEF StartOk
<1>2. CASE StartFails
    BY <1>2 DEF StartFails
<1>3. CASE Receive
    BY <1>3 DEF Receive
<1>4. CASE Accept
    BY <1>4 DEF Accept
<1>5. CASE Skip
    BY <1>5 DEF Skip
<1>6. CASE StoreAircraftState
    BY <1>6 DEF StoreAircraftState
<1>7. CASE InsertState
    BY <1>7 DEF InsertState
<1>8. CASE InsertStateFails
    BY <1>8 DEF InsertStateFails
<1>9. CASE GetFlight
  <2>1. msg \in States /\ msg.hex \in Keys
      BY <1>9, FoundFlight, StateFields
  <2>2. PICK f : Found(f)
      BY <1>9, FoundFlight
  <2>3. f.session # 0 => HasRow(f.session) \/ f.session \in lostCreates
      BY <2>1, <2>2, <1>9 DEF GetFlight, Found, PhantomOnlyAfterLostCreate
  <2>4. \A r \in rows : r.session = f.session /\ r.ended # Never => r.session \in failedDeletes
      BY <2>1, <2>2 DEF Found, EndedFlightLeftRedis, LocalFlightNotEnded, OneOwner, UnderOwnKey
  <2> QED
      BY <2>2, <2>3, <2>4 DEF Found
<1>10. CASE FindLocalFlight
  <2>1. msg \in States /\ msg.hex \in Keys
      BY <1>10, FoundFlight, StateFields
  <2>2. PICK f : Found(f)
      BY <1>10, FoundFlight
  <2>3. f.session # 0 => HasRow(f.session) \/ f.session \in lostCreates
      BY <2>1, <2>2, <1>10 DEF FindLocalFlight, Found, PhantomOnlyAfterLostCreate
  <2>4. \A r \in rows : r.session = f.session /\ r.ended # Never => r.session \in failedDeletes
      BY <2>1, <2>2 DEF Found, EndedFlightLeftRedis, LocalFlightNotEnded, OneOwner, UnderOwnKey
  <2> QED
      BY <2>2, <2>3, <2>4 DEF Found
<1>11. CASE NewFlight
    BY <1>11 DEF NewFlight
<1>12. CASE CreateInRedis
    BY <1>12 DEF CreateInRedis
<1>13. CASE CreateInDb
    BY <1>13 DEF CreateInDb
<1>14. CASE CreateInDbFails
    BY <1>14 DEF CreateInDbFails
<1>15. CASE PutFlight
    BY <1>15 DEF PutFlight
<1>16. CASE DeleteFlight
    BY <1>16 DEF DeleteFlight
<1>17. CASE DeleteFlightFails
    BY <1>17 DEF DeleteFlightFails
<1>18. CASE DeleteState
    BY <1>18 DEF DeleteState
<1>19. CASE EndFlight
    BY <1>19 DEF EndFlight
<1>20. CASE EndFlightFails
    BY <1>20 DEF EndFlightFails
<1>21. CASE Restart
    BY <1>21 DEF Restart
<1>22. CASE Expire
    BY <1>22 DEF Expire
<1>23. CASE SetFlightValidation
    BY <1>23 DEF SetFlightValidation
<1>24. CASE Tick
    BY <1>24 DEF Tick
<1>25. CASE UNCHANGED vars
    BY <1>25 DEF vars
<1> QED
    BY <1>1, <1>2, <1>3, <1>4, <1>5, <1>6, <1>7, <1>8, <1>9, <1>10, <1>11, <1>12, <1>13,
       <1>14, <1>15, <1>16, <1>17, <1>18, <1>19, <1>20, <1>21, <1>22, <1>23, <1>24, <1>25 DEF
       Next, Starting, Processing

\* A session without a row is one whose INSERT was lost.
LEMMA PhantomStep ==
    TrackerAssumption /\ NullAssumption /\ TypeOK /\ OneOwner /\ InHand /\ Creating /\ Putting
       /\ PhantomOnlyAfterLostCreate /\ [Next]_vars => PhantomOnlyAfterLostCreate'
<1> SUFFICES ASSUME TrackerAssumption, NullAssumption, TypeOK, OneOwner, InHand, Creating,
   Putting, PhantomOnlyAfterLostCreate, [Next]_vars PROVE PhantomOnlyAfterLostCreate'
    OBVIOUS
<1> USE DEF PhantomOnlyAfterLostCreate, HasRow, locals, redis, db, history, env, Done
<1>1. CASE StartOk
    BY <1>1 DEF StartOk
<1>2. CASE StartFails
    BY <1>2 DEF StartFails
<1>3. CASE Receive
    BY <1>3 DEF Receive
<1>4. CASE Accept
    BY <1>4 DEF Accept
<1>5. CASE Skip
    BY <1>5 DEF Skip
<1>6. CASE StoreAircraftState
    BY <1>6 DEF StoreAircraftState
<1>7. CASE InsertState
    BY <1>7 DEF InsertState
<1>8. CASE InsertStateFails
    BY <1>8 DEF InsertStateFails
<1>9. CASE GetFlight
  <2>1. msg \in States /\ msg.hex \in Keys
      BY <1>9, FoundFlight, StateFields
  <2>2. PICK f : Found(f)
      BY <1>9, FoundFlight
  <2>3. \A k \in Keys : \A g \in {rFlight'[k], activeFlights'[k]} \ {Null} :
            \E h \in {rFlight[k], activeFlights[k]} \ {Null} : h.session = g.session
      BY <2>2 DEF Found
  <2> QED
      BY <2>2, <2>3, <1>9 DEF GetFlight, Found
<1>10. CASE FindLocalFlight
  <2>1. msg \in States /\ msg.hex \in Keys
      BY <1>10, FoundFlight, StateFields
  <2>2. PICK f : Found(f)
      BY <1>10, FoundFlight
  <2>3. \A k \in Keys : \A g \in {rFlight'[k], activeFlights'[k]} \ {Null} :
            \E h \in {rFlight[k], activeFlights[k]} \ {Null} : h.session = g.session
      BY <2>2 DEF Found
  <2> QED
      BY <2>2, <2>3, <1>10 DEF FindLocalFlight, Found
<1>11. CASE NewFlight
    BY <1>11 DEF NewFlight
<1>12. CASE CreateInRedis
  <2>1. \A k \in Keys : rFlight'[k] = rFlight[k] \/ rFlight'[k] = flight
      BY <1>12, PutStep DEF CreateInRedis
  <2> QED
      BY <2>1, <1>12 DEF CreateInRedis
<1>13. CASE CreateInDb
  <2> DEFINE new == [session |-> flight.session, hex |-> flight.hex, pos |-> flight.pos,
                    alt |-> flight.alt, ended |-> Never]
  <2>1. rows' = rows \union {new}
      BY <1>13 DEF CreateInDb, InsertFlight
  <2>2. new \in rows' /\ new.session = flight.session
      BY <2>1
  <2>3. rows \subseteq rows' /\ \E r \in rows' : r.session = flight.session
      BY <2>1, <2>2
  <2> QED
      BY <2>3, <1>13 DEF CreateInDb
<1>14. CASE CreateInDbFails
  <2>1. rows \subseteq rows'
      BY <1>14 DEF CreateInDbFails, InsertFlight, DbWriteFails
  <2> QED
      BY <2>1, <1>14 DEF CreateInDbFails
<1>15. CASE PutFlight
  <2>1. \A k \in Keys : rFlight'[k] = rFlight[k] \/ rFlight'[k] = flight
      BY <1>15, PutStep DEF PutFlight
  <2> QED
      BY <2>1, <1>15 DEF PutFlight, Putting
<1>16. CASE DeleteFlight
  <2>1. \A k \in Keys : rFlight'[k] = rFlight[k] \/ rFlight'[k] = Null
      BY <1>16, TakenStep
  <2> QED
      BY <2>1, <1>16 DEF DeleteFlight
<1>17. CASE DeleteFlightFails
  <2>1. \A k \in Keys : rFlight'[k] = rFlight[k] \/ rFlight'[k] = Null
      BY <1>17, TakenStep
  <2> QED
      BY <2>1, <1>17 DEF DeleteFlightFails
<1>18. CASE DeleteState
    BY <1>18 DEF DeleteState
<1>19. CASE EndFlight
  <2>0. flight \in Flight /\ msg.ts \in Times /\ rows \in SUBSET Rows
      BY StateFields, <1>19 DEF EndFlight, InHand, WithMessage, WithFlight, TypeOK, Maybe
  <2>a. UpdateFlight(flight, msg.ts) \/ rows' = rows
      BY <1>19 DEF EndFlight, DbWriteFails
  <2>1. \A r \in rows : \E x \in rows' : x.session = r.session
      BY <2>0, <2>a, UpdateKeepsRows
  <2> QED
      BY <2>1, <1>19 DEF EndFlight
<1>20. CASE EndFlightFails
  <2>0. flight \in Flight /\ msg.ts \in Times /\ rows \in SUBSET Rows
      BY StateFields, <1>20 DEF EndFlightFails, InHand, WithMessage, WithFlight, TypeOK, Maybe
  <2>a. UpdateFlight(flight, msg.ts) \/ rows' = rows
      BY <1>20 DEF EndFlightFails, DbWriteFails
  <2>1. \A r \in rows : \E x \in rows' : x.session = r.session
      BY <2>0, <2>a, UpdateKeepsRows
  <2> QED
      BY <2>1, <1>20 DEF EndFlightFails
<1>21. CASE Restart
    BY <1>21 DEF Restart
<1>22. CASE Expire
  <2>1. \A k \in Keys : rFlight'[k] = rFlight[k] \/ rFlight'[k] = Null
      BY <1>22, TakenStep
  <2> QED
      BY <2>1, <1>22 DEF Expire
<1>23. CASE SetFlightValidation
    BY <1>23 DEF SetFlightValidation
<1>24. CASE Tick
    BY <1>24 DEF Tick
<1>25. CASE UNCHANGED vars
    BY <1>25 DEF vars
<1> QED
    BY <1>1, <1>2, <1>3, <1>4, <1>5, <1>6, <1>7, <1>8, <1>9, <1>10, <1>11, <1>12, <1>13,
       <1>14, <1>15, <1>16, <1>17, <1>18, <1>19, <1>20, <1>21, <1>22, <1>23, <1>24, <1>25 DEF
       Next, Starting, Processing

\* The invariant holds at the start...
LEMMA InvInit == TrackerAssumption /\ NullAssumption /\ Init => IInv
<1> SUFFICES ASSUME TrackerAssumption, NullAssumption, Init PROVE IInv
    OBVIOUS
<1>1. TypeOK
    BY DEF Init, TypeOK, Maybe, Times, TrackerAssumption
<1>2. OneOwner
    BY DEF Init, OneOwner, UnderOwnKey, Agrees, Known
<1>3. InHand /\ Creating /\ Ending /\ Putting
    BY DEF Init, InHand, WithMessage, WithFlight, Creating, Ending, Putting
<1>4. PhantomOnlyAfterLostCreate /\ LocalFlightNotEnded /\ EndedFlightLeftRedis
    BY DEF Init, PhantomOnlyAfterLostCreate, LocalFlightNotEnded, EndedFlightLeftRedis
<1> QED
    BY <1>1, <1>2, <1>3, <1>4 DEF IInv

\* ...and every step keeps it.
LEMMA InvStep == TrackerAssumption /\ NullAssumption /\ IInv /\ [Next]_vars => IInv'
BY TypeStep, AgreesStep, UnderOwnKeyStep, InHandStep, CreatingStep, EndingStep, LocalStep,
   LeftStep, PuttingStep, PhantomStep
   DEF IInv, OneOwner

THEOREM Invariance == Spec => []IInv
<1>1. Init => IInv
    BY InvInit, TrackerAssumption, NullAssumption
<1>2. IInv /\ [Next]_vars => IInv'
    BY InvStep, TrackerAssumption, NullAssumption
<1> QED
    BY <1>1, <1>2, PTL DEF Spec

\* The variables keep their types.
THEOREM TypeCorrect == Spec => []TypeOK
BY Invariance, PTL DEF IInv

\* Redis, the tracker's map and the table never mix up two aircraft.
THEOREM OneAircraftPerSession == Spec => []SessionBelongsToOneAircraft
<1>1. TypeOK /\ OneOwner => SessionBelongsToOneAircraft
  <2> SUFFICES ASSUME TypeOK, OneOwner PROVE SessionBelongsToOneAircraft
      OBVIOUS
  <2>1. \A k, j \in Keys :
          rFlight[k] # Null /\ activeFlights[j] # Null
          /\ rFlight[k].session = activeFlights[j].session => k = j
      BY OneKey, NullAssumption
  <2>2. \A r \in rows, k \in Keys :
          /\ rFlight[k] # Null /\ rFlight[k].session = r.session => r.hex = k
          /\ activeFlights[k] # Null /\ activeFlights[k].session = r.session => r.hex = k
      BY DEF OneOwner, UnderOwnKey, Agrees, Known
  <2> QED
      BY <2>1, <2>2 DEF OneOwner, UnderOwnKey, SessionBelongsToOneAircraft
<1> QED
    BY <1>1, Invariance, PTL DEF IInv

\* A session without a row is one whose INSERT failed or was never reached.
THEOREM NoOtherPhantom == Spec => []PhantomOnlyAfterLostCreate
BY Invariance, PTL DEF IInv

\* The map offers no flight that has ended.
THEOREM NoEndedFlightInMap == Spec => []LocalFlightNotEnded
BY Invariance, PTL DEF IInv

\* A flight that has ended is in Redis only if its DEL failed.
THEOREM NoEndedFlightInRedis == Spec => []EndedFlightLeftRedis
BY Invariance, PTL DEF IInv

(***************************************************************************)
(* The tracker keeps the promises of FlightSessions.  For that, a session  *)
(* has at most one row, and there are no more sessions than failed calls.  *)
(***************************************************************************)
UniqueRows == \A x, y \in rows : x.session = y.session => x = y

FewSessions == nextSession <= redisFaults + 1 /\ redisFaults <= MaxRedisFaults

TableIInv == IInv /\ UniqueRows /\ FewSessions

\* Only an INSERT of the flight created and an UPDATE of the flight ended touch
\* the table.
LEMMA TableStep ==
    ASSUME [Next]_vars
    PROVE  \/ rows' = rows
           \/ pc = "createInDb" /\ InsertFlight(flight)
           \/ pc = "endFlight" /\ UpdateFlight(flight, msg.ts)
<1> USE DEF locals, redis, db, history, env
<1>1. CASE Starting \/ Receive \/ Restart \/ Expire \/ SetFlightValidation \/ Tick \/ UNCHANGED vars
    BY <1>1 DEF Starting, StartOk, StartFails, Receive, Restart, Expire, SetFlightValidation,
       Tick, vars
<1>2. CASE Accept \/ Skip \/ StoreAircraftState \/ InsertState \/ InsertStateFails
    BY <1>2 DEF Accept, Skip, StoreAircraftState, InsertState, InsertStateFails
<1>3. CASE GetFlight \/ FindLocalFlight \/ NewFlight \/ CreateInRedis \/ PutFlight
    BY <1>3 DEF GetFlight, FindLocalFlight, NewFlight, CreateInRedis, PutFlight
<1>4. CASE DeleteFlight \/ DeleteFlightFails \/ DeleteState
    BY <1>4 DEF DeleteFlight, DeleteFlightFails, DeleteState
<1>5. CASE CreateInDb \/ CreateInDbFails
    BY <1>5 DEF CreateInDb, CreateInDbFails, DbWriteFails
<1>6. CASE EndFlight \/ EndFlightFails
    BY <1>6 DEF EndFlight, EndFlightFails, DbWriteFails
<1> QED
    BY <1>1, <1>2, <1>3, <1>4, <1>5, <1>6 DEF Next, Processing

\* The row that an INSERT of f adds, and what an UPDATE to f at t makes of row r.
RowOf(f) ==
    [session |-> f.session, hex |-> f.hex, pos |-> f.pos, alt |-> f.alt, ended |-> Never]
RowAfter(r, f, t) ==
    IF r.session = f.session THEN [r EXCEPT !.pos = f.pos, !.alt = f.alt, !.ended = t] ELSE r

\* What FlightSessions sees of a row, and of the table.
SessionOf(r) == [session |-> r.session, hex |-> r.hex, ended |-> r.ended]
Sessions == {SessionOf(r) : r \in rows}

LEMMA RowAfterFields ==
    ASSUME NEW r \in Rows, NEW f \in Flight, NEW t \in Times
    PROVE  /\ RowAfter(r, f, t).session = r.session
           /\ SessionOf(RowAfter(r, f, t)) =
                 IF r.session = f.session THEN [SessionOf(r) EXCEPT !.ended = t] ELSE SessionOf(r)
BY DEF RowAfter, SessionOf, Rows

\* No step gives a session a second row.
LEMMA UniqueRowsStep == IInv /\ UniqueRows /\ [Next]_vars => UniqueRows'
<1> SUFFICES ASSUME IInv, UniqueRows, [Next]_vars
             PROVE  UniqueRows'
    OBVIOUS
<1>1. CASE rows' = rows
    BY <1>1 DEF UniqueRows
<1>2. CASE pc = "createInDb" /\ InsertFlight(flight)
  <2>1. rows' = rows \union {RowOf(flight)} /\ RowOf(flight).session = flight.session
      BY <1>2 DEF InsertFlight, RowOf
  <2>2. \A r \in rows : r.session # flight.session
      BY <1>2 DEF IInv, Creating
  <2> QED
      BY <2>1, <2>2 DEF UniqueRows
<1>3. CASE pc = "endFlight" /\ UpdateFlight(flight, msg.ts)
  <2>1. flight \in Flight /\ msg.ts \in Times /\ rows \in SUBSET Rows
      BY <1>3, StateFields DEF IInv, InHand, WithMessage, WithFlight, TypeOK, Maybe
  <2>2. rows' = {RowAfter(r, flight, msg.ts) : r \in rows}
      BY <1>3 DEF UpdateFlight, RowAfter
  <2>3. \A r \in rows : RowAfter(r, flight, msg.ts).session = r.session
      BY <2>1, RowAfterFields
  <2> QED
      BY <2>2, <2>3 DEF UniqueRows
<1> QED
    BY <1>1, <1>2, <1>3, TableStep

\* A session is named only when a call to Redis fails.
LEMMA FewSessionsStep ==
    TrackerAssumption /\ TypeOK /\ FewSessions /\ [Next]_vars => FewSessions'
<1> SUFFICES ASSUME TrackerAssumption, TypeOK, FewSessions, [Next]_vars
             PROVE  FewSessions'
    OBVIOUS
<1>1. redisFaults \in Nat /\ nextSession \in Nat /\ MaxRedisFaults \in Nat
    BY DEF TypeOK, TrackerAssumption
<1>2. \/ redisFaults' = redisFaults /\ nextSession' = nextSession
      \/ RedisFault /\ nextSession' \in {nextSession, nextSession + 1}
  <2> USE DEF locals, redis, db, history, env, RedisWrite
  <2>1. CASE Starting \/ Receive \/ Restart \/ Expire \/ SetFlightValidation \/ Tick
             \/ UNCHANGED vars
      BY <2>1 DEF Starting, StartOk, StartFails, Receive, Restart, Expire,
         SetFlightValidation, Tick, vars
  <2>2. CASE Accept \/ Skip \/ StoreAircraftState \/ InsertState \/ InsertStateFails
      BY <2>2 DEF Accept, Skip, StoreAircraftState, InsertState, InsertStateFails
  <2>3. CASE GetFlight \/ FindLocalFlight \/ NewFlight \/ CreateInRedis \/ PutFlight
      BY <2>3 DEF GetFlight, FindLocalFlight, NewFlight, CreateInRedis, PutFlight
  <2>4. CASE DeleteFlight \/ DeleteFlightFails \/ DeleteState
      BY <2>4 DEF DeleteFlight, DeleteFlightFails, DeleteState
  <2>5. CASE CreateInDb \/ CreateInDbFails \/ EndFlight \/ EndFlightFails
      BY <2>5 DEF CreateInDb, CreateInDbFails, EndFlight, EndFlightFails
  <2> QED
      BY <2>1, <2>2, <2>3, <2>4, <2>5 DEF Next, Processing
<1> QED
    BY <1>1, <1>2 DEF FewSessions, RedisFault

\* The INSERT opens a session: its name is new and one of those there can be.
LEMMA InsertOpens ==
    TrackerAssumption /\ TableIInv /\ pc = "createInDb" /\ InsertFlight(flight) => Table!Open
<1> SUFFICES ASSUME TrackerAssumption, TableIInv, pc = "createInDb", InsertFlight(flight)
             PROVE  Table!Open
    OBVIOUS
<1>1. flight \in Flight /\ flight # Null /\ flight.session # 0
      /\ \A r \in rows : r.session # flight.session
    BY DEF TableIInv, IInv, TypeOK, Maybe, InHand, WithFlight, Creating
<1>2. flight.session \in Nat /\ flight.hex \in Keys
    BY <1>1, FlightFields
<1>3. flight.session < nextSession
    BY <1>1 DEF TableIInv, IInv, OneOwner, Agrees, Known
<1>4. flight.session \in 1 .. MaxRedisFaults
    BY <1>1, <1>2, <1>3 DEF TableIInv, FewSessions, IInv, TypeOK, TrackerAssumption
<1>5. \A s \in Sessions : s.session # flight.session
    BY <1>1 DEF Sessions, SessionOf
<1>6. Sessions' = Sessions \union {SessionOf(RowOf(flight))}
  <2>1. rows' = rows \union {RowOf(flight)}
      BY DEF InsertFlight, RowOf
  <2> QED
      BY <2>1 DEF Sessions
<1>7. SessionOf(RowOf(flight)) =
         [session |-> flight.session, hex |-> flight.hex, ended |-> Never]
    BY DEF SessionOf, RowOf
<1> QED
    BY <1>2, <1>4, <1>5, <1>6, <1>7 DEF Table!Open, Sessions, SessionOf

\* The UPDATE closes the one session it matches, or changes nothing.
LEMMA UpdateCloses ==
    TableIInv /\ pc = "endFlight" /\ UpdateFlight(flight, msg.ts) =>
        Table!Close \/ Sessions' = Sessions
<1> SUFFICES ASSUME TableIInv, pc = "endFlight", UpdateFlight(flight, msg.ts)
             PROVE  Table!Close \/ Sessions' = Sessions
    OBVIOUS
<1>1. flight \in Flight /\ msg.ts \in Times /\ rows \in SUBSET Rows
    BY StateFields DEF TableIInv, IInv, InHand, WithMessage, WithFlight, TypeOK, Maybe
<1> DEFINE After(r) == RowAfter(r, flight, msg.ts)
<1>2. rows' = {After(r) : r \in rows}
    BY DEF UpdateFlight, RowAfter
<1>3. Sessions' = {SessionOf(After(r)) : r \in rows}
    BY <1>2 DEF Sessions
<1>4. \A r \in rows : SessionOf(After(r)) =
         IF r.session = flight.session THEN [SessionOf(r) EXCEPT !.ended = msg.ts]
         ELSE SessionOf(r)
    BY <1>1, RowAfterFields
<1>5. CASE \A r \in rows : r.session # flight.session
  <2>1. \A r \in rows : SessionOf(After(r)) = SessionOf(r)
      BY <1>4, <1>5
  <2> HIDE DEF After
  <2> QED
      BY <1>3, <2>1 DEF Sessions
<1>6. ASSUME NEW q \in rows, q.session = flight.session
      PROVE  Table!Close
  <2>1. \A r \in rows : r.session = flight.session <=> r = q
      BY <1>6 DEF TableIInv, UniqueRows
  <2>2. \A r \in rows : SessionOf(r) = SessionOf(q) => r = q
      BY <1>6 DEF SessionOf, TableIInv, UniqueRows
  <2> DEFINE c == [SessionOf(q) EXCEPT !.ended = msg.ts]
  <2>3. \A r \in rows : SessionOf(After(r)) = IF r = q THEN c ELSE SessionOf(r)
      BY <1>4, <2>1
  <2>4. Sessions' = (Sessions \ {SessionOf(q)}) \union {c}
    <3> HIDE DEF c, After
    <3> QED
        BY <1>3, <2>2, <2>3 DEF Sessions
  <2>5. SessionOf(q) \in Sessions
      BY DEF Sessions
  <2> QED
      BY <1>1, <2>4, <2>5 DEF Table!Close, Sessions, SessionOf
<1> QED
    BY <1>5, <1>6

\* The flights table, whatever fails, keeps the promises of FlightSessions: a
\* session is inserted once, for one aircraft, and an ended one stays ended.
THEOREM TableImplementation == Spec => TableSpec
<1>1. Init => TableIInv
    BY InvInit, TrackerAssumption, NullAssumption
       DEF Init, TableIInv, UniqueRows, FewSessions, TrackerAssumption
<1>2. TableIInv /\ [Next]_vars => TableIInv'
    BY InvStep, UniqueRowsStep, FewSessionsStep, TrackerAssumption, NullAssumption
       DEF TableIInv, IInv
<1>3. Init => Table!Init
    BY DEF Init, Table!Init
<1>4. TableIInv /\ [Next]_vars => [Table!Next]_Sessions
    BY TableStep, InsertOpens, UpdateCloses, TrackerAssumption DEF Table!Next, Sessions
<1> QED
    BY <1>1, <1>2, <1>3, <1>4, PTL DEF Spec, TableSpec, Table!Spec, Sessions, SessionOf

=============================================================================
