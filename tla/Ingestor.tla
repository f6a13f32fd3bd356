------------------------------ MODULE Ingestor ------------------------------
(***************************************************************************)
(* The ingestor, cmd/ingestor/main.go: a goroutine per source dials it,    *)
(* cuts what it reads into lines and publishes each line to the JetStream  *)
(* stream SBS_RAW, which all goroutines share (internal/nats/client.go).   *)
(*                                                                         *)
(* A source is a live feed: it numbers its lines and sends them, or empty  *)
(* lines as a heartbeat, to whoever is connected.  Bytes are abstract: a   *)
(* line is a head and a tail and ends in CR LF.  What is kept exactly is   *)
(* where the boundaries of the reads fall.                                 *)
(***************************************************************************)
EXTENDS Integers, Sequences, FiniteSets, SequencesExt, FiniteSetsExt

CONSTANTS
    Sources,     \* host:port of each source
    BufferSize,  \* bytes of one read
    MaxLines,    \* bound: lines of a source, heartbeats not counted
    MaxUnread,   \* bound: bytes on their way to the ingestor
    MaxFaults    \* bound: failed publishes, broken connections, restarts

ASSUME IngestorAssumption ==
    BufferSize \in Nat \ {0} /\ MaxLines \in Nat /\ MaxUnread \in Nat /\ MaxFaults \in Nat

VARIABLES
    ctx,        \* "live", or "done" once a signal was handled
    conn,       \* where the goroutine of a source is
    wire,       \* bytes the source sent on this connection, not yet read
    alive,      \* FALSE once the peer is gone without closing the connection
    sent,       \* number of the last line of a source
    buffer,     \* messageBuffer: the beginning of a line
    batch,      \* complete lines of the last read that are still to be published
    stream,     \* SBS_RAW
    faults,
    received,   \* history: bytes read on this connection
    handed      \* history: lines given to PublishSBSMessage on this connection

vars == <<ctx, conn, wire, alive, sent, buffer, batch, stream, faults, received, handed>>

CR == <<"cr">>
LF == <<"lf">>
Body(n)   == << <<"head", n>>, <<"tail", n>> >>
EndOfLine == <<CR, LF>>
Bodies    == {Body(n) : n \in 1 .. MaxLines}

(***************************************************************************)
(* strings.Split(data, "\r\n") and strings.TrimSpace.                      *)
(***************************************************************************)
\* The numbers of a finite set from the smallest to the largest: SetToSortSeq(S, <) in
\* a form that the provers can open.
Ascending(S) == CHOOSE f \in [1 .. Cardinality(S) -> S] :
                    \A i, j \in DOMAIN f : i < j => f[i] < f[j]

\* The elements of s other than <<>>, in their order.
WithoutEmpty(s) == LET at == Ascending({k \in DOMAIN s : s[k] # <<>>}) IN
                   [k \in DOMAIN at |-> s[at[k]]]

Separators(data) == {i \in 1 .. Len(data) - 1 : data[i] = CR /\ data[i + 1] = LF}

\* The pieces between separators; the last one is what follows the last of them.
Split(data) ==
    LET ends  == Ascending(Separators(data))
        count == Len(ends) + 1
        from(k)  == IF k = 1 THEN 1 ELSE ends[k - 1] + 2
        until(k) == IF k = count THEN Len(data) ELSE ends[k] - 1
    IN  [k \in 1 .. count |-> SubSeq(data, from(k), until(k))]

\* Of the bytes of the model only CR and LF are white space.
Blank(b) == b \in {CR, LF}
TrimSpace(s) ==
    LET ink == {i \in DOMAIN s : ~Blank(s[i])} IN
    IF ink = {} THEN <<>> ELSE SubSeq(s, Min(ink), Max(ink))

Trimmed(pieces) == [k \in DOMAIN pieces |-> TrimSpace(pieces[k])]

\* Mutant: the last piece is taken for a line too.
AllPieces(data) == WithoutEmpty(Trimmed(Split(data)))

\* Lines to publish: all pieces but the last, trimmed, without the empty ones.
Lines(data) == WithoutEmpty(Trimmed(Front(Split(data))))

(***************************************************************************)
(* The specification of one goroutine.                                     *)
(***************************************************************************)
Init ==
    /\ ctx = "live"
    /\ conn = [s \in Sources |-> "dial"]
    /\ wire = [s \in Sources |-> <<>>]
    /\ alive = [s \in Sources |-> TRUE]
    /\ sent = [s \in Sources |-> 0]
    /\ buffer = [s \in Sources |-> <<>>]
    /\ batch = [s \in Sources |-> <<>>]
    /\ stream = <<>>
    /\ faults = 0
    /\ received = [s \in Sources |-> <<>>]
    /\ handed = [s \in Sources |-> <<>>]

Fault == faults < MaxFaults /\ faults' = faults + 1

\* Mutant: the buffer is made once per source instead of once per connection.
ConnectKeepsBuffer(s) ==
    /\ conn[s] = "dial"
    /\ conn' = [conn EXCEPT ![s] = "select"]
    /\ wire' = [wire EXCEPT ![s] = <<>>]
    /\ alive' = [alive EXCEPT ![s] = TRUE]
    /\ received' = [received EXCEPT ![s] = buffer[s]]
    /\ handed' = [handed EXCEPT ![s] = <<>>]
    /\ UNCHANGED <<ctx, sent, buffer, batch, stream, faults>>

\* connectWithRetry dials every five seconds until the source answers; it does
\* not look at the context.  Each connection has a buffer of its own.
Connect(s) ==
    /\ conn[s] = "dial"
    /\ conn' = [conn EXCEPT ![s] = "select"]
    /\ wire' = [wire EXCEPT ![s] = <<>>]
    /\ alive' = [alive EXCEPT ![s] = TRUE]
    /\ buffer' = [buffer EXCEPT ![s] = <<>>]
    /\ received' = [received EXCEPT ![s] = <<>>]
    /\ handed' = [handed EXCEPT ![s] = <<>>]
    /\ UNCHANGED <<ctx, sent, batch, stream, faults>>

\* The address does not resolve: connectAndIngest returns before it dials.
ResolveFails(s) ==
    /\ conn[s] = "dial"
    /\ Fault
    /\ conn' = [conn EXCEPT ![s] = "pause"]
    /\ UNCHANGED <<ctx, wire, alive, sent, buffer, batch, stream, received, handed>>

\* The select before every read: it alone looks at the context.
Select(s) ==
    /\ conn[s] = "select"
    /\ conn' = [conn EXCEPT ![s] = IF ctx = "done" THEN "stopped" ELSE "read"]
    /\ UNCHANGED <<ctx, wire, alive, sent, buffer, batch, stream, faults, received, handed>>

\* One Read of up to BufferSize bytes, appended to what was kept; the last piece
\* is kept, the others are complete lines.
Read(s) ==
    /\ conn[s] = "read"
    /\ \E k \in 1 .. Min({BufferSize, Len(wire[s])}) :
       \E data \in {buffer[s] \o SubSeq(wire[s], 1, k)} :    \* TLC computes it once
         /\ wire' = [wire EXCEPT ![s] = SubSeq(@, k + 1, Len(@))]
         /\ buffer' = [buffer EXCEPT ![s] = Last(Split(data))]
         /\ batch' = [batch EXCEPT ![s] = Lines(data)]
         /\ conn' = [conn EXCEPT ![s] = IF batch'[s] = <<>> THEN "select" ELSE "publish"]
         /\ received' = [received EXCEPT ![s] = @ \o SubSeq(wire[s], 1, k)]
    /\ UNCHANGED <<ctx, alive, sent, stream, faults, handed>>

\* Mutant: the loop is left after its first line, whatever became of it.
NextLineBreaks(s) ==
    /\ batch' = [batch EXCEPT ![s] = Tail(@)]
    /\ handed' = [handed EXCEPT ![s] = Append(@, Head(batch[s]))]
    /\ conn' = [conn EXCEPT ![s] = "select"]

\* The rest of the loop over the lines, once one has been given to Publish.
NextLine(s) ==
    /\ batch' = [batch EXCEPT ![s] = Tail(@)]
    /\ handed' = [handed EXCEPT ![s] = Append(@, Head(batch[s]))]
    /\ conn' = [conn EXCEPT ![s] = IF Len(batch[s]) = 1 THEN "select" ELSE "publish"]

Stored(s) == stream' = Append(stream, [source |-> s, raw |-> Head(batch[s])])

Publish(s) ==
    /\ conn[s] = "publish"
    /\ Stored(s)
    /\ NextLine(s)
    /\ UNCHANGED <<ctx, wire, alive, sent, buffer, faults, received>>

\* Mutant: a failed publish is tried again, although the first may have been stored.
PublishFailsAndRetries(s) ==
    /\ conn[s] = "publish"
    /\ Fault
    /\ Stored(s) \/ UNCHANGED stream
    /\ UNCHANGED <<ctx, conn, wire, alive, sent, buffer, batch, received, handed>>

\* An error, or no acknowledgement in time for a line that was or was not stored:
\* the line is given up and the loop goes on.
PublishFails(s) ==
    /\ conn[s] = "publish"
    /\ Fault
    /\ Stored(s) \/ UNCHANGED stream
    /\ NextLine(s)
    /\ UNCHANGED <<ctx, wire, alive, sent, buffer, received>>

\* Mutant: no read deadline is set.
ReadFailsWithoutDeadline(s) ==
    /\ conn[s] = "read"
    /\ Fault
    /\ conn' = [conn EXCEPT ![s] = "pause"]
    /\ wire' = [wire EXCEPT ![s] = <<>>]
    /\ UNCHANGED <<ctx, alive, sent, buffer, batch, stream, received, handed>>

\* Read fails: nothing came for 30 seconds, or the connection broke and what was
\* on its way is lost.  The connection is closed.
ReadFails(s) ==
    /\ conn[s] = "read"
    /\ \/ wire[s] = <<>> /\ UNCHANGED faults
       \/ Fault
    /\ conn' = [conn EXCEPT ![s] = "pause"]
    /\ wire' = [wire EXCEPT ![s] = <<>>]
    /\ UNCHANGED <<ctx, alive, sent, buffer, batch, stream, received, handed>>

\* After five seconds ingestSource connects again, or stops if the context is done.
Resume(s) ==
    /\ conn[s] = "pause"
    /\ conn' = [conn EXCEPT ![s] = IF ctx = "done" THEN "stopped" ELSE "dial"]
    /\ UNCHANGED <<ctx, wire, alive, sent, buffer, batch, stream, faults, received, handed>>

(***************************************************************************)
(* The surroundings.                                                       *)
(***************************************************************************)
Connected(s) == conn[s] \in {"select", "read", "publish"} /\ alive[s]

\* The source has a new line; with nobody connected it is gone.
SendLine(s) ==
    /\ sent[s] < MaxLines
    /\ sent' = [sent EXCEPT ![s] = @ + 1]
    /\ IF Connected(s)
       THEN /\ Len(wire[s]) + 4 <= MaxUnread
            /\ wire' = [wire EXCEPT ![s] = @ \o Body(sent'[s]) \o EndOfLine]
       ELSE UNCHANGED wire
    /\ UNCHANGED <<ctx, conn, alive, buffer, batch, stream, faults, received, handed>>

Heartbeat(s) ==
    /\ Connected(s)
    /\ wire[s] = <<>>
    /\ Len(buffer[s]) = 0
    /\ Len(received[s]) = 0      \* bound: one, before the first line
    /\ wire' = [wire EXCEPT ![s] = EndOfLine]
    /\ UNCHANGED <<ctx, conn, alive, sent, buffer, batch, stream, faults, received, handed>>

\* The peer is gone and nothing tells the ingestor so.
PeerVanishes(s) ==
    /\ Connected(s)
    /\ Fault
    /\ alive' = [alive EXCEPT ![s] = FALSE]
    /\ UNCHANGED <<ctx, conn, wire, sent, buffer, batch, stream, received, handed>>

Cancel ==
    /\ ctx = "live"
    /\ ctx' = "done"
    /\ UNCHANGED <<conn, wire, alive, sent, buffer, batch, stream, faults, received, handed>>

\* The process is killed, or has ended after a signal, and is started again: what
\* it read and did not publish is gone.
Restart ==
    /\ Fault
    /\ ctx' = "live"
    /\ conn' = [s \in Sources |-> "dial"]
    /\ wire' = [s \in Sources |-> <<>>]
    /\ buffer' = [s \in Sources |-> <<>>]
    /\ batch' = [s \in Sources |-> <<>>]
    /\ UNCHANGED <<alive, sent, stream, received, handed>>

Ingesting(s) == \/ Connect(s) \/ ResolveFails(s) \/ Select(s) \/ ReadFails(s) \/ Read(s)
                \/ Publish(s) \/ PublishFails(s) \/ Resume(s)

Next ==
    \/ \E s \in Sources : Ingesting(s) \/ SendLine(s) \/ Heartbeat(s) \/ PeerVanishes(s)
    \/ Cancel
    \/ Restart

Spec == Init /\ [][Next]_vars

\* A goroutine that can go on does; when the source is there, dialling succeeds.
FairSpec == Spec /\ \A s \in Sources : WF_vars(Ingesting(s))

(***************************************************************************)
(* Safety.                                                                 *)
(***************************************************************************)
TypeOK ==
    /\ ctx \in {"live", "done"}
    /\ conn \in [Sources -> {"dial", "select", "read", "publish", "pause", "stopped"}]
    /\ alive \in [Sources -> BOOLEAN]
    /\ sent \in [Sources -> 0 .. MaxLines]
    /\ \A s \in Sources : conn[s] = "publish" <=> batch[s] # <<>>
    /\ faults \in 0 .. MaxFaults

\* Wherever the boundaries of the reads fell, the lines given to Publish on this
\* connection and the ones waiting are those of the bytes received, cut at once;
\* and the buffer is what follows the last CR LF (main.go 114-145).
CutAsIfReadAtOnce ==
    \A s \in Sources :
        conn[s] \in {"select", "read", "publish"} =>
            /\ handed[s] \o batch[s] = Lines(received[s])
            /\ buffer[s] = Last(Split(received[s]))

\* Nothing but whole lines of a source is ever published: no line is torn by the
\* end of a buffer or glued to the next connection's bytes.
OnlyWholeLines == \A i \in DOMAIN stream : stream[i].raw \in Bodies

\* The stream has each source's lines in the order the source sent them, each at
\* most once, although goroutines share it and publishes fail.
InOrderAtMostOnce ==
    \A i, j \in DOMAIN stream :
        i < j /\ stream[i].source = stream[j].source
            => stream[i].raw[1][2] < stream[j].raw[1][2]

(***************************************************************************)
(* Liveness.                                                               *)
(***************************************************************************)
\* A connection whose peer is gone is given up, for the read deadline of main.go
\* 103 passes: the goroutine does not wait for ever.
DeadPeerIsNoticed ==
    \A s \in Sources : ~alive[s] ~> alive[s] \/ conn[s] \in {"dial", "stopped"}

=============================================================================
