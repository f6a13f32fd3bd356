--------------------------- MODULE FlightSessions ---------------------------
(***************************************************************************)
(* What the flights table promises its readers (internal/db/schema.sql     *)
(* 29-41), whatever happens to the tracker, to Redis and to the calls      *)
(* between them: a session is inserted once, belongs to one aircraft for   *)
(* good, and once it has an end it never again looks like a flight in the  *)
(* air.  The time of the end may be corrected.                             *)
(***************************************************************************)
CONSTANTS Names, Aircraft, Times, Never

VARIABLE sessions   \* a set of [session, hex, ended]

Init == sessions = {}

Open ==
    \E s \in Names, h \in Aircraft :
        /\ \A r \in sessions : r.session # s
        /\ sessions' = sessions \union {[session |-> s, hex |-> h, ended |-> Never]}

Close ==
    \E r \in sessions, t \in Times :
        sessions' = (sessions \ {r}) \union {[r EXCEPT !.ended = t]}

Next == Open \/ Close

Spec == Init /\ [][Next]_sessions
=============================================================================
