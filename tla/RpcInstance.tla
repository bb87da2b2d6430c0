----------------------------- MODULE RpcInstance -----------------------------
(***************************************************************************)
(* A requester and a replier of the protocol layer                         *)
(* (src/protocol/rpc/ssn_rpc.c), each driven by the polls of one thread:   *)
(* the pool of pending calls, its sequence numbers and expiry, and what    *)
(* becomes of frames that one recv() returns together or in pieces.        *)
(*                                                                         *)
(* The requester's callback may make calls.  The methods registered with a *)
(* replier are left out: no code looks them up, on_request gets everything. *)
(***************************************************************************)
EXTENDS Naturals, Sequences

CONSTANTS
    Calls,          \* the calls made in all, in this order: 1 .. n
    NSlots,         \* RPC_MAX_PENDING
    NSeq,           \* sequence numbers: 2^16
    MaxConnects     \* how often another transport is bound

ASSUME RpcAssumption ==
    /\ Calls \subseteq Nat \ {0}
    /\ NSlots \in Nat \ {0} /\ NSeq \in Nat /\ NSeq > NSlots
    /\ MaxConnects \in Nat

Slots == 1 .. NSlots
NoCall == 0
Seqnos == 0 .. (NSeq - 1)
Frames == [seq : Seqnos, call : Calls]

VARIABLES
    slots,          \* pending_pool; call is the caller's side of the callback
    next,           \* next_seqno
    pc, cur,        \* the requester's thread, and the slot its poll has come to
    status, runs,   \* of each call: what its caller knows, how often it was called back
    up,             \* the transport carries frames
    toRep, toReq,   \* frames on their way
    asked,          \* requests on_request was given and that are not answered
    connects,
    stale,          \* history: numbers of calls that ended without an answer
    risky,          \* history: calls that were given such a number
    wrong           \* history: calls that were given the answer to another

pool == <<slots, next>>
net == <<up, toRep, toReq, asked, connects>>
hist == <<stale, risky, wrong>>
vars == <<pool, pc, cur, status, runs, net, hist>>

FreeSlot == [use |-> FALSE, seq |-> 0, call |-> NoCall, due |-> FALSE]

\* ssn_rpc_req_create.
Init ==
    /\ slots = [i \in Slots |-> FreeSlot] /\ next = 1 % NSeq
    /\ pc = "idle" /\ cur = 1
    /\ status = [c \in Calls |-> "open"] /\ runs = [c \in Calls |-> 0]
    /\ up = TRUE /\ toRep = <<>> /\ toReq = <<>> /\ asked = {} /\ connects = 0
    /\ stale = {} /\ risky = {} /\ wrong = {}

-----------------------------------------------------------------------------
(* The pool. *)

\* pending_pool_alloc: the first slot that is not in use.
IsFirstFree(i) == ~slots[i].use /\ \A j \in 1 .. (i - 1) : slots[j].use

\* pending_pool_find, as ssn_rpc_call uses it.  It also finds the slot that was
\* just allocated, by the number it had before.
InFlight(S, s) == \E i \in Slots : S[i].use /\ S[i].seq = s

\* Mutant: numbers that wrap are not compared with those in flight.
TakesSeqnoAny(S, k) == k = 0

\* The number after next that is k further on is the first that is not in flight.
TakesSeqno(S, k) ==
    /\ ~InFlight(S, (next + k) % NSeq)
    /\ \A j \in 0 .. (k - 1) : InFlight(S, (next + j) % NSeq)

\* Mutant: the slot of an answered call stays in use.
FreedNot(i) == slots

\* pending_pool_free; number and call stay.
Freed(i) == [slots EXCEPT ![i].use = FALSE]

-----------------------------------------------------------------------------
(* ssn_rpc_call, by the user between two polls or by the callback. *)

\* Where call c is the next one to be made.
Makes(c) ==
    /\ pc \in {"idle", "expired", "replied"}
    /\ status[c] = "open" /\ \A d \in Calls : d < c => status[d] # "open"

Refuse(c) == status' = [status EXCEPT ![c] = "refused"]

\* No slot.
CallFull(c) ==
    /\ Makes(c)
    /\ \A i \in Slots : slots[i].use
    /\ Refuse(c)
    /\ UNCHANGED <<pool, pc, cur, runs, net, hist>>

\* The frame is sent; a failed send frees the slot, and the number is used up.
Call(c) ==
    /\ Makes(c)
    /\ \E i \in Slots, k \in 0 .. NSlots :
        LET S == [slots EXCEPT ![i].use = TRUE]
            s == (next + k) % NSeq
            Slot(sent) == [use |-> sent, seq |-> s, call |-> c, due |-> FALSE]
        IN  /\ IsFirstFree(i) /\ TakesSeqno(S, k)
            /\ next' = (s + 1) % NSeq
            /\ \/ /\ up
                  /\ slots' = [slots EXCEPT ![i] = Slot(TRUE)]
                  /\ toRep' = Append(toRep, [seq |-> s, call |-> c])
                  /\ status' = [status EXCEPT ![c] = "pending"]
                  /\ risky' = IF s \in stale THEN risky \cup {c} ELSE risky
               \/ /\ slots' = [slots EXCEPT ![i] = Slot(FALSE)]
                  /\ Refuse(c)
                  /\ UNCHANGED <<toRep, risky>>
    /\ UNCHANGED <<pc, cur, runs, up, toReq, asked, connects, stale, wrong>>

-----------------------------------------------------------------------------
(* ssn_rpc_poll of the requester. *)

\* The expiry of a call has come, as the clock tells the next poll.
Elapse(i) ==
    /\ pc = "idle" /\ slots[i].use /\ ~slots[i].due
    /\ slots' = [slots EXCEPT ![i].due = TRUE]
    /\ UNCHANGED <<next, pc, cur, status, runs, net, hist>>

\* A poll begins where pc is "idle", with cur = 1, and changes nothing until it
\* calls back, or has nothing more to call back and receives.
Polls == pc \in {"idle", "expire"}

\* The callback of the call in slot i is called; the poll goes on at ret.
Callback(i, ret) ==
    /\ status' = [status EXCEPT ![slots[i].call] = "done"]
    /\ runs' = [runs EXCEPT ![slots[i].call] = @ + 1]
    /\ cur' = i
    /\ pc' = ret

\* The loop over the slots, from cur on: the first that has expired ...
IsDue(i) ==
    /\ i >= cur /\ slots[i].use /\ slots[i].due
    /\ \A j \in cur .. (i - 1) : ~(slots[j].use /\ slots[j].due)

\* Mutant: the slot of an expired call is freed and nobody is told.
ExpireQuietly(i) ==
    /\ Polls /\ IsDue(i)
    /\ slots' = Freed(i)
    /\ UNCHANGED <<next, pc, cur, status, runs, net, hist>>

\* ... is called back ...
Expire(i) ==
    /\ Polls /\ IsDue(i)
    /\ Callback(i, "expired")
    /\ stale' = stale \cup {slots[i].seq}
    /\ UNCHANGED <<pool, net, risky, wrong>>

\* ... which may make calls, and then its slot is freed.
ExpireFree ==
    /\ pc = "expired"
    /\ slots' = Freed(cur)
    /\ pc' = "expire" /\ cur' = cur + 1
    /\ UNCHANGED <<next, status, runs, net, hist>>

\* One recv() takes the first k frames of Q, and ssn_packet_input sees only the
\* first of them; a frame that was cut is refused piece by piece.
Rest(Q, k) == SubSeq(Q, k + 1, Len(Q))

\* ssn_rpc_handle_reply.
HandleReply(f) ==
    IF InFlight(slots, f.seq)
    THEN \E i \in Slots :
            /\ slots[i].use /\ slots[i].seq = f.seq
            /\ Callback(i, "replied")
            /\ wrong' = IF slots[i].call = f.call THEN wrong ELSE wrong \cup {slots[i].call}
    ELSE pc' = "idle" /\ cur' = 1 /\ UNCHANGED <<status, runs, wrong>>

PollReply ==
    /\ Polls /\ \A i \in Slots : ~IsDue(i)
    /\ \E k \in 1 .. Len(toReq) : toReq' = Rest(toReq, k)
    /\ HandleReply(toReq[1])
    /\ UNCHANGED <<pool, up, toRep, asked, connects, stale, risky>>

\* Nothing there, an error, or a frame that was cut.
PollNothing ==
    /\ Polls /\ \A i \in Slots : ~IsDue(i)
    /\ \/ UNCHANGED toReq
       \/ toReq # <<>> /\ toReq' = Tail(toReq)
    /\ pc' = "idle" /\ cur' = 1
    /\ UNCHANGED <<pool, status, runs, up, toRep, asked, connects, hist>>

\* handle_reply frees the slot after the callback.
ReplyFree ==
    /\ pc = "replied"
    /\ slots' = Freed(cur)
    /\ pc' = "idle" /\ cur' = 1
    /\ UNCHANGED <<next, status, runs, net, hist>>

\* ssn_rpc_destroy: the pool goes, and nobody is called back.
Destroy ==
    /\ pc = "idle"
    /\ pc' = "gone"
    /\ UNCHANGED <<pool, cur, status, runs, net, hist>>

-----------------------------------------------------------------------------
(* The replier, and the transport between the two. *)

\* ssn_rpc_poll and ssn_rpc_handle_request.
HandleRequest ==
    /\ toRep # <<>>
    /\ \/ /\ \E k \in 1 .. Len(toRep) : toRep' = Rest(toRep, k)
          /\ asked' = asked \cup {toRep[1]}
       \/ toRep' = Tail(toRep) /\ UNCHANGED asked
    /\ UNCHANGED <<pool, pc, cur, status, runs, up, toReq, connects, hist>>

\* ssn_rpc_response, in any order; it may fail.
Response(q) ==
    /\ q \in asked /\ asked' = asked \ {q}
    /\ \/ up /\ toReq' = Append(toReq, q)
       \/ UNCHANGED toReq
    /\ UNCHANGED <<pool, pc, cur, status, runs, up, toRep, connects, hist>>

\* The connection is lost.
Lose ==
    /\ up
    /\ up' = FALSE /\ toRep' = <<>> /\ toReq' = <<>>
    /\ UNCHANGED <<pool, pc, cur, status, runs, asked, connects, hist>>

\* ssn_rpc_connect and ssn_rpc_bind of another transport.
Connect ==
    /\ pc = "idle" /\ ~up /\ connects < MaxConnects
    /\ up' = TRUE /\ connects' = connects + 1
    /\ UNCHANGED <<pool, pc, cur, status, runs, toRep, toReq, asked, hist>>

-----------------------------------------------------------------------------
PollStep ==
    \/ \E i \in Slots : Expire(i)
    \/ ExpireFree \/ PollReply \/ PollNothing \/ ReplyFree
Next ==
    \/ PollStep \/ Destroy
    \/ HandleRequest \/ Lose \/ Connect
    \/ \E c \in Calls : CallFull(c) \/ Call(c)
    \/ \E i \in Slots : Elapse(i)
    \/ \E q \in asked : Response(q)

Spec == Init /\ [][Next]_vars

-----------------------------------------------------------------------------
TypeOK ==
    /\ slots \in [Slots -> [use : BOOLEAN, seq : Seqnos, call : Calls \cup {NoCall},
                            due : BOOLEAN]]
    /\ next \in Seqnos
    /\ pc \in {"idle", "expire", "expired", "replied", "gone"} /\ cur \in Nat
    /\ status \in [Calls -> {"open", "refused", "pending", "done"}]
    /\ runs \in [Calls -> Nat]

\* A call of ssn_rpc_call is refused and never called back, or accepted and
\* called back at most once, with an answer or when it has expired: the pool
\* implements the promise of RequestPromise, although a slot is freed only after
\* its callback, which may itself make calls.
Promise == INSTANCE RequestPromise WITH outcome <- status
RpcKeepsPromise == Promise!PromiseSpec

\* A call gets its own answer, although numbers wrap, frames are lost and
\* answers come late, unless its number was that of a call that expired.
OwnAnswer == wrong \subseteq risky

\* A call that was accepted is called back, whatever the network loses, unless
\* the requester is destroyed.
AlwaysCalled ==
    \A c \in Calls : status[c] = "pending" ~> status[c] = "done" \/ pc = "gone"

=============================================================================
