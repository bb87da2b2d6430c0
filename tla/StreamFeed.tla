----------------------------- MODULE StreamFeed -----------------------------
(***************************************************************************)
(* Frames on a stream connection: ssn_send_message, which writes a frame   *)
(* in pieces, and ssn_stream_feed, which puts frames together again from   *)
(* whatever pieces recv returns (src/ssn_frame.c).                         *)
(*                                                                         *)
(* A byte is known by where it comes from: <<c, p>> is the p-th byte       *)
(* written on connection c.  Of a frame only its place and its length      *)
(* matter; the length is what its header says.                             *)
(*                                                                         *)
(* The receiver is a client, whose stream context is set up once, in       *)
(* ssn_client_create, and used for all its connections; a server has a new *)
(* one for each, which is the first connection here.                       *)
(***************************************************************************)
EXTENDS Integers, Sequences, FiniteSets

CONSTANTS
    HeaderSize,     \* SSN_HEADER_SIZE
    Cap,            \* SSN_MAX_PACKET_SIZE: the largest frame, and the buffer
    Lens,           \* total lengths of the frames sent
    Waits,          \* send_timeout_ms, in waits of 100 ms
    MaxFrames,      \* bound on the frames sent on a connection
    MaxConns        \* bound on the connections

ASSUME SizesAssumption ==
    /\ HeaderSize \in Nat \ {0} /\ Cap \in Nat /\ HeaderSize <= Cap
    /\ Lens \subseteq HeaderSize .. Cap
    /\ Waits \in Nat /\ MaxFrames \in Nat /\ MaxConns \in Nat \ {0}

Conns == 1 .. MaxConns
Frame == [from : Nat, len : Lens]
Byte == Conns \X Nat

VARIABLES
    conn,           \* the current connection
    frames,         \* the frames sent on each connection
    toSend, budget, \* bytes of the last one not written yet; waits left for it
    open,           \* the sender has not disconnected
    wire,           \* bytes written and not received
    recvd,          \* bytes of the connection copied to the buffer so far
    chunk,          \* bytes returned by recv and not copied yet
    buffer, head,   \* recv->buffer up to cur_len, and recv->head
    total,          \* length of the frame the callback is given
    pc,             \* the receiver
    clean,          \* the connection began with no unparsed bytes in the buffer
    delivered       \* frames given to the callback on this connection, by number
                    \* (0: what is not a frame of this connection)

sendVars == <<frames, toSend, budget, open>>
ctxVars == <<buffer, head>>
vars == <<conn, sendVars, wire, recvd, chunk, ctxVars, total, pc, clean, delivered>>

\* ssn_stream_init, on a connection just made.
Init ==
    /\ conn = 1 /\ frames = [c \in Conns |-> << >>]
    /\ toSend = 0 /\ budget = 0 /\ open = TRUE
    /\ wire = 0 /\ recvd = 0 /\ chunk = 0
    /\ buffer = << >> /\ head = 0 /\ total = 0
    /\ pc = "idle" /\ clean = TRUE /\ delivered = << >>

-----------------------------------------------------------------------------
(* The sender. *)

End(f) == f.from + f.len - 1
LastEnd(fs) == IF fs = << >> THEN 0 ELSE End(fs[Len(fs)])

\* ssn_send_message: the frame is in the send buffer.
SendMessage(len) ==
    /\ open /\ toSend = 0 /\ Len(frames[conn]) < MaxFrames
    /\ frames' = [frames EXCEPT ![conn] = Append(@, [from |-> LastEnd(@) + 1, len |-> len])]
    /\ toSend' = len /\ budget' = Waits
    /\ UNCHANGED <<conn, clean, open, wire, recvd, chunk, ctxVars, total, pc, delivered>>

\* ssn_transport_send takes some of the bytes.
SendPart(n) ==
    /\ n \in 1 .. toSend
    /\ toSend' = toSend - n
    /\ wire' = wire + n
    /\ UNCHANGED <<conn, clean, frames, budget, open, recvd, chunk, ctxVars, total, pc, delivered>>

\* Mutant: no test for zero; the unsigned budget wraps round.
SendWaitWraps ==
    /\ toSend > 0
    /\ budget' = (budget - 1) % (Waits + 1)
    /\ UNCHANGED <<conn, clean, frames, toSend, open, wire, recvd, chunk, ctxVars, total, pc, delivered>>

\* The socket's buffer is full: wait for it.
SendWait ==
    /\ toSend > 0 /\ budget > 0
    /\ budget' = budget - 1
    /\ UNCHANGED <<conn, clean, frames, toSend, open, wire, recvd, chunk, ctxVars, total, pc, delivered>>

\* An error, or no wait left: the caller disconnects, the frame stays a stump.
SendFails ==
    /\ toSend > 0
    /\ toSend' = 0 /\ open' = FALSE
    /\ UNCHANGED <<conn, clean, frames, budget, wire, recvd, chunk, ctxVars, total, pc, delivered>>

-----------------------------------------------------------------------------
(* The receiver. *)

Recv(n) ==
    /\ pc = "idle"
    /\ n \in 1 .. wire /\ n <= Cap
    /\ wire' = wire - n /\ chunk' = n
    /\ pc' = "copy"
    /\ UNCHANGED <<conn, clean, sendVars, recvd, ctxVars, total, delivered>>

Reset == buffer' = << >> /\ head' = 0

\* Mutant: what was consumed is dropped, the offset stays.
CompactedKeepsHead ==
    IF Len(buffer) = Cap /\ head > 0
    THEN [buf |-> SubSeq(buffer, head + 1, Cap), head |-> head]
    ELSE [buf |-> buffer, head |-> head]

\* A full buffer is compacted.
Compacted ==
    IF Len(buffer) = Cap /\ head > 0
    THEN [buf |-> SubSeq(buffer, head + 1, Cap), head |-> 0]
    ELSE [buf |-> buffer, head |-> head]

\* Mutant: the room is reckoned from the unparsed bytes, not from cur_len.
RoomAfterHead(c) == Cap - (Len(c.buf) - c.head)

\* space_left.
Room(c) == Cap - Len(c.buf)

\* Still no room: the stream is given up.
Copy ==
    LET c == Compacted
        n == IF chunk < Room(c) THEN chunk ELSE Room(c)
    IN
    /\ pc = "copy"
    /\ IF Room(c) = 0
       THEN Reset /\ chunk' = 0 /\ pc' = "error" /\ UNCHANGED recvd
       ELSE /\ buffer' = c.buf \o [i \in 1 .. n |-> <<conn, recvd + i>>]
            /\ head' = c.head
            /\ recvd' = recvd + n /\ chunk' = chunk - n
            /\ pc' = "parse"
    /\ UNCHANGED <<conn, clean, sendVars, wire, total, delivered>>

Available == Len(buffer) - head

\* The bytes of frame f of connection c.
BytesOf(c, f) == [i \in 1 .. f.len |-> <<c, f.from + i - 1>>]

\* validate_and_get_total_length on the bytes at head: the length a genuine
\* header has; bytes that are no header are refused or taken for any.
Bad == -1
TotalLength ==
    LET header == SubSeq(buffer, head + 1, head + HeaderSize)
        genuine == {p \in Conns \X (1 .. MaxFrames) :
                        /\ p[2] <= Len(frames[p[1]])
                        /\ SubSeq(BytesOf(p[1], frames[p[1]][p[2]]), 1, HeaderSize) = header}
    IN IF genuine = {} THEN Lens \cup {Bad} ELSE {frames[p[1]][p[2]].len : p \in genuine}

More == IF chunk > 0 THEN "copy" ELSE "idle"

\* Not even a header.
ParseNoHeader ==
    /\ pc = "parse" /\ Available < HeaderSize
    /\ pc' = More
    /\ UNCHANGED <<conn, clean, sendVars, wire, recvd, chunk, ctxVars, total, delivered>>

\* The frame is not complete.
ParseShort ==
    /\ pc = "parse" /\ Available >= HeaderSize
    /\ \E len \in TotalLength : Available < len
    /\ pc' = More
    /\ UNCHANGED <<conn, clean, sendVars, wire, recvd, chunk, ctxVars, total, delivered>>

ParseBad ==
    /\ pc = "parse" /\ Available >= HeaderSize /\ Bad \in TotalLength
    /\ Reset
    /\ chunk' = 0
    /\ pc' = "error"
    /\ UNCHANGED <<conn, clean, sendVars, wire, recvd, total, delivered>>

ParseFrame ==
    /\ pc = "parse" /\ Available >= HeaderSize
    /\ \E len \in TotalLength \ {Bad} : Available >= len /\ total' = len
    /\ pc' = "callback"
    /\ UNCHANGED <<conn, clean, sendVars, wire, recvd, chunk, ctxVars, delivered>>

\* The number of the frame the callback sees.
Seen ==
    LET bytes == SubSeq(buffer, head + 1, head + total)
        which == {k \in 1 .. Len(frames[conn]) : BytesOf(conn, frames[conn][k]) = bytes}
    IN IF which = {} THEN 0 ELSE CHOOSE k \in which : TRUE

\* Mutant: one frame is taken out of the buffer for every piece.
CallbackOnce(ok) ==
    /\ pc = "callback"
    /\ delivered' = Append(delivered, Seen)
    /\ total' = 0
    /\ IF ok
       THEN head' = head + total /\ pc' = More /\ UNCHANGED <<buffer, chunk>>
       ELSE Reset /\ chunk' = 0 /\ pc' = "stopped"
    /\ UNCHANGED <<conn, clean, sendVars, wire, recvd>>

\* The callback; one that returns false stops the stream, its object is closed.
Callback(ok) ==
    /\ pc = "callback"
    /\ delivered' = Append(delivered, Seen)
    /\ total' = 0
    /\ IF ok
       THEN head' = head + total /\ pc' = "parse" /\ UNCHANGED <<buffer, chunk>>
       ELSE Reset /\ chunk' = 0 /\ pc' = "stopped"
    /\ UNCHANGED <<conn, clean, sendVars, wire, recvd>>

\* Both ends give the connection up, and ssn_client_connect makes a new one.
Reconnect ==
    /\ pc \in {"idle", "error"} /\ conn < MaxConns
    /\ conn' = conn + 1
    /\ open' = TRUE /\ toSend' = 0 /\ wire' = 0 /\ recvd' = 0
    /\ clean' = (Available = 0)
    /\ pc' = "idle" /\ delivered' = << >>
    /\ UNCHANGED <<frames, budget, chunk, ctxVars, total>>

-----------------------------------------------------------------------------
Sending == (\E n \in 1 .. Cap : SendPart(n)) \/ SendWait \/ SendFails

Receive ==
    \/ \E n \in 1 .. Cap : Recv(n)
    \/ Copy \/ ParseNoHeader \/ ParseShort \/ ParseBad \/ ParseFrame
    \/ \E ok \in BOOLEAN : Callback(ok)

Next == (\E len \in Lens : SendMessage(len)) \/ Sending \/ Receive \/ Reconnect

\* A send that was begun goes on, and so does the receiver.
Fairness == WF_vars(Sending) /\ WF_vars(Receive)

Spec == Init /\ [][Next]_vars
FairSpec == Spec /\ Fairness

-----------------------------------------------------------------------------
\* Types; the buffer is never written past its end, nor head moved past
\* cur_len, whatever the lengths of frames and pieces are.
TypeOK ==
    /\ conn \in Conns /\ frames \in [Conns -> Seq(Frame)]
    /\ toSend \in 0 .. Cap /\ budget \in 0 .. Waits /\ open \in BOOLEAN
    /\ wire \in Nat /\ recvd \in Nat /\ chunk \in 0 .. Cap
    /\ buffer \in Seq(Byte) /\ Len(buffer) <= Cap /\ head \in 0 .. Len(buffer)
    /\ total \in 0 .. Cap
    /\ pc \in {"idle", "copy", "parse", "callback", "stopped", "error"}
    /\ clean \in BOOLEAN /\ delivered \in Seq(Nat)

\* On a connection that began clean the callback is given the frames of the
\* connection, whole and in the order they were sent, however they were cut up.
InOrder == clean => \A i \in 1 .. Len(delivered) : delivered[i] = i

\* When ssn_stream_feed returns, every frame that has arrived in full has been
\* given to the callback, none waits in the buffer for the next recv; and a
\* stream of legal frames is never refused, not for a bad header and not for a
\* full buffer, also when a frame is as long as the buffer.
Prompt ==
    clean =>
        /\ pc # "error"
        /\ pc = "idle" =>
            Len(delivered) = Cardinality({k \in 1 .. Len(frames[conn]) :
                                              End(frames[conn][k]) <= recvd})

\* ssn_send_message, which holds the caller's lock, comes to an end.
SendReturns == (toSend > 0) ~> (toSend = 0)

=============================================================================
