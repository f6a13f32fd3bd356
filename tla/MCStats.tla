------------------------------ MODULE MCStats -------------------------------
(* Small instances of Stats for TLC. *)
EXTENDS Stats

StandardLine(len, type, bad) == [prefix |-> "MSG", len |-> len, type |-> type, bad |-> bad]
StatusLine(prefix, len)      == [prefix |-> prefix, len |-> len, type |-> NotANumber, bad |-> {}]

\* Every type and prefix at lengths around the bounds, and numbers that do not parse.
AllLines ==
    {StandardLine(len, type, {}) : len \in {1, 10, 19, 21, 22, 23},
                                   type \in {NotANumber} \union (0 .. 13)}
        \union {StandardLine(len, 8, bad) : len \in {22, 23}, bad \in {{12}, 12 .. 22}}
        \union {StatusLine(prefix, len) : prefix \in {"STA", "AIR", "ID", "other"},
                                          len \in {1, 5, 9, 10}}
=============================================================================
