------------------------------ MODULE Delivery ------------------------------
(***************************************************************************)
(* What the way from the sources to the programs promises as a whole,      *)
(* whatever becomes of connections, acknowledgements and processes: a line *)
(* that is stored was sent by its source, later than the ones stored       *)
(* before it; what is stored stays as it is until it expires; and a        *)
(* program handles a message only when every earlier one was handled, was  *)
(* lost on the way or has expired.  It does not promise that a line is     *)
(* stored, nor that a message is handled just once.                        *)
(***************************************************************************)
EXTENDS Integers, Sequences

CONSTANTS Sources, Consumers

VARIABLES
    sent,      \* lines that a source has sent
    stored,    \* a sequence of [source, line]
    expired,   \* how many of them, the oldest, are too old
    handled,   \* places in stored that a program, since it subscribed, has handled,
    lost       \* and those that did not get to it

vars == <<sent, stored, expired, handled, lost>>

Init ==
    /\ sent = [s \in Sources |-> 0]
    /\ stored = <<>>
    /\ expired = 0
    /\ handled = [c \in Consumers |-> {}]
    /\ lost = [c \in Consumers |-> {}]

Send(s) ==
    /\ sent' = [sent EXCEPT ![s] = @ + 1]
    /\ UNCHANGED <<stored, expired, handled, lost>>

Store(s) ==
    /\ \E n \in 1 .. sent[s] :
         /\ \A i \in DOMAIN stored : stored[i].source = s => stored[i].line < n
         /\ stored' = Append(stored, [source |-> s, line |-> n])
    /\ UNCHANGED <<sent, expired, handled, lost>>

Expire ==
    /\ expired < Len(stored)
    /\ expired' = expired + 1
    /\ UNCHANGED <<sent, stored, handled, lost>>

Handle(c) ==
    /\ \E i \in 1 .. Len(stored) :
         /\ 1 .. i - 1 \subseteq handled[c] \union lost[c] \union 1 .. expired
         /\ handled' = [handled EXCEPT ![c] = @ \union {i}]
    /\ UNCHANGED <<sent, stored, expired, lost>>

\* Lost is lost in order too: nothing at this place or after it was handled yet.
Lose(c) ==
    /\ \E i \in expired + 1 .. Len(stored) :
         /\ \A j \in handled[c] \union lost[c] : j < i
         /\ lost' = [lost EXCEPT ![c] = @ \union {i}]
    /\ UNCHANGED <<sent, stored, expired, handled>>

\* A subscription begins with the oldest message, whatever the last one had.
Begin(c) ==
    /\ handled' = [handled EXCEPT ![c] = {}]
    /\ lost' = [lost EXCEPT ![c] = {}]
    /\ UNCHANGED <<sent, stored, expired>>

Next ==
    \/ \E s \in Sources : Send(s) \/ Store(s)
    \/ Expire
    \/ \E c \in Consumers : Handle(c) \/ Lose(c) \/ Begin(c)

Spec == Init /\ [][Next]_vars
=============================================================================
