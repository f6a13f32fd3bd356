------------------------------- MODULE Parser -------------------------------
(***************************************************************************)
(* internal/parser/parser.go: an SBS line becomes an aircraft state.       *)
(*                                                                         *)
(* ParseMessage addresses the fields of a line by their index, counted     *)
(* from 0.  A line is what decides the outcome: the prefix in field 0, how *)
(* many fields there are, the number in field 1, and the fields that are   *)
(* not the number an attribute wants.  The state that results is told by   *)
(* the field each attribute was read from.                                 *)
(***************************************************************************)
EXTENDS Integers

CONSTANTS
    Lines,        \* lines that arrive
    NotANumber    \* field 1 when strconv.Atoi refuses it

ASSUME LinesAssumption ==
    \A l \in Lines :
        /\ l.prefix \in {"MSG", "STA", "AIR", "ID", "other"}
        /\ l.len \in Nat \ {0}
        /\ l.type = NotANumber \/ l.type \in Int
        /\ l.bad \subseteq Nat

Attributes == {"hex", "callsign", "altitude", "speed", "track", "lat", "lon",
               "rate", "squawk", "ground"}

\* The attribute keeps its zero value.
Unset == 0

\* Mutant: one bound for all formats.
LongEnoughForAny(line) == line.len >= 10

\* The fields a line needs to be looked at.
LongEnough(line) == line.len >= IF line.prefix = "MSG" THEN 22 ELSE 10

\* The MessageType constants; the last three also stand for whole formats.
MessageTypes == 1 .. 12
TypeOfPrefix == [STA |-> 10, AIR |-> 11, ID |-> 12]

\* Attributes a MSG line of a type sets, hex aside.
Carried(type) ==
    CASE type = 4            -> {"callsign"}
      [] type = 5            -> {"altitude"}
      [] type = 6            -> {"speed"}
      [] type = 7            -> {"track"}
      [] type = 8            -> Attributes \ {"hex", "callsign"}
      [] type = 9            -> {"ground"}
      [] type \in {10, 11, 12} -> {"callsign"}
      [] OTHER               -> {}

\* The literal indexes of parseMessageFields and its helpers plus msgTypeIndex, 1.
Column == [hex |-> 5, callsign |-> 11, altitude |-> 12, speed |-> 13, track |-> 14,
           lat |-> 15, lon |-> 16, rate |-> 17, squawk |-> 18, ground |-> 22]

\* Attributes that are looked for only if the line has the field.
Guarded == {"ground"}

Read(line) ==
    {a \in Carried(line.type) : a \in Guarded => Column[a] < line.len}
        \union (IF line.type \in {1, 2} THEN {} ELSE {"hex"})

\* A number that does not parse leaves its attribute alone; a text always parses.
Taken(line, a) ==
    IF a \in Read(line) /\ (Column[a] \notin line.bad \/ a \in {"hex", "callsign"})
    THEN Column[a] ELSE Unset

IsStandard(line) == line.prefix = "MSG" /\ LongEnough(line)
IsStatus(line)   == line.prefix \in DOMAIN TypeOfPrefix /\ LongEnough(line)

\* Does ParseMessage return a state, or an error?
Parses(line) == \/ IsStandard(line) /\ line.type \in MessageTypes
                \/ IsStatus(line)

\* state.MsgType, and the field each attribute was read from.
TypeOf(line) == IF IsStandard(line) THEN line.type ELSE TypeOfPrefix[line.prefix]

ParseMessage(line) ==
    IF IsStandard(line)
    THEN [a \in Attributes |-> Taken(line, a)]
    ELSE [[a \in Attributes |-> Unset] EXCEPT !.hex = 4, !.callsign = 9]

\* The fields ParseMessage indexes, also on its way to an error.
Indexed(line) ==
    {0} \union
    IF IsStandard(line)
    THEN {1} \union (IF line.type = NotANumber THEN {} ELSE {Column[a] : a \in Read(line)})
    ELSE IF IsStatus(line) THEN {4, 9} ELSE {}

(***************************************************************************)
(* Properties of a line.                                                   *)
(***************************************************************************)
\* No index is beyond the end of the slice, however short the line and whatever
\* type it claims to be of; the process would panic.
InRange(line) == Indexed(line) \subseteq 0 .. line.len - 1

\* parser_test.go 21-35, "valid position message": the state a test wants for a
\* MSG,8 line of 22 fields, told by the field that holds the value.
WantState == [hex |-> 5, callsign |-> Unset, altitude |-> 11, speed |-> 12, track |-> 13,
              lat |-> 14, lon |-> 15, rate |-> 16, squawk |-> 17]

ReadAsTested(line) ==
    Parses(line) /\ line.type = 8 /\ line.prefix = "MSG" /\ line.bad = {}
        => \A a \in DOMAIN WantState : ParseMessage(line)[a] = WantState[a]

\* parser.go 47 and 53: every format has hex_ident in the same field.
SameHexField(line) == Parses(line) => ParseMessage(line).hex \in {Unset, Column.hex}

=============================================================================
