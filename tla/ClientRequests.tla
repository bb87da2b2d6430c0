--------------------------- MODULE ClientRequests ---------------------------
(***************************************************************************)
(* The pending-request table of one SSN client (src/ssn_client.c): the     *)
(* slot pool with its bitmap, the map from sequence numbers to slots, and  *)
(* the threads that touch them.                                            *)
(*                                                                         *)
(*  - Any number of caller threads issue requests.  A request in Rpc is    *)
(*    one ssn_client_call with a callback; one in Silent is a request      *)
(*    without a callback (every subscribe and unsubscribe is one); one in  *)
(*    Ping is one ssn_client_ping.                                         *)
(*  - The poll thread runs ssn_client_poll in a loop, and between two      *)
(*    polls may ping, disconnect or connect.                               *)
(*  - The timer thread runs ssn_client_timer_handle.                       *)
(*  - An application thread may call ssn_client_disconnect.                *)
(*                                                                         *)
(* A section the code runs while holding client->lock is one step; what it *)
(* does outside the lock (the first look at seqno_to_index, the user's     *)
(* callbacks, the unlocked tests of client->connected) are steps of their  *)
(* own, so every interleaving of the threads is a behaviour.               *)
(***************************************************************************)
EXTENDS Naturals, Sequences

CONSTANTS
    Rpc, Silent, Ping,  \* the requests issued, by kind
    NoReq,              \* no request
    MaxPending,         \* SSN_CLIENT_MAX_PENDING (1024)
    SeqMod,             \* number of sequence numbers: 2^16 for a uint16_t
    Timeouts,           \* the timeout_ms callers pass, in timer periods
    DisconnectIn,       \* where the user disconnects: "poller", "callback", "thread"
    MaxDisconnects,     \* bound on the number of disconnects
    MaxConnects         \* bound on the number of reconnects

Requests == Rpc \cup Silent \cup Ping
Slots == 0 .. (MaxPending - 1)
SeqNos == 0 .. (SeqMod - 1)
NoSlot == MaxPending            \* the 0xFFFF of seqno_to_index

ASSUME KindsAssumption ==
    /\ Rpc \cap Silent = {} /\ Rpc \cap Ping = {} /\ Silent \cap Ping = {}
    /\ NoReq \notin Requests
    /\ MaxPending \in Nat \ {0} /\ SeqMod \in Nat \ {0, 1}
    /\ Timeouts \subseteq Nat /\ MaxDisconnects \in Nat /\ MaxConnects \in Nat
    /\ DisconnectIn \subseteq {"poller", "callback", "thread"}

Threads == {"poll", "app"}

VARIABLES
    bitmap,         \* the slots in use (pending_bitmap)
    pool,           \* pending_pool: seqno, timeout and owner of each slot
    seqIndex,       \* seqno_to_index
    seqno,          \* client->seqno
    nextSilent,     \* client->next_non_pending_seqno
    connected,      \* client->connected
    link,           \* transport: "none", "closed" (fd -1), "eof", "up"
    wire,           \* frames sent on this connection and not answered yet
    evt,            \* client->evtfd is signalled
    timer,          \* pc of the timer thread
    stage,          \* where each API call is
    pc, ret,        \* control of each thread, and the stack of return points
    todo,           \* items[] collected by a thread and not called back yet
    rfds,           \* what the poll thread's pselect reported
    batch,          \* frames of the received buffer still to be dispatched
    frame,          \* the frame being dispatched
    hit,            \* seqno_to_index[seqno] as read outside the lock
    snap,           \* the snapshot copied by get_pending_snapshot
    pinging,        \* the ping the poll thread is in, or NoReq
    pingSeqno,      \* its ping_seqno
    disconnects, connects,  \* calls made so far
    called,         \* how often each request's callback was invoked
    answeredBy      \* whose answer each callback was given (empty: none)

poolVars == <<bitmap, pool, seqIndex, seqno, nextSilent>>
linkVars == <<connected, link, wire>>
pollVars == <<rfds, batch, frame, hit, snap>>
pingVars == <<pinging, pingSeqno>>
ctlVars == <<pc, ret, todo>>
ghostVars == <<called, answeredBy>>
countVars == <<disconnects, connects>>
vars == <<poolVars, linkVars, evt, timer, stage, ctlVars, pollVars, pingVars,
          countVars, ghostVars>>

Frames == [type : {"rpc", "sub", "ping"}, seqno : SeqNos, req : Requests]
NoFrame == [type |-> "none", seqno |-> 0, req |-> NoReq]
NoSnap == [index |-> NoSlot, req |-> NoReq]

TypeOf(r) == IF r \in Rpc THEN "rpc" ELSE IF r \in Ping THEN "ping" ELSE "sub"

Init ==
    /\ bitmap = {}
    /\ pool = [i \in Slots |-> [seqno |-> 0, timeout |-> 0, req |-> NoReq]]
    /\ seqIndex = [s \in SeqNos |-> NoSlot]
    /\ seqno = 0
    /\ nextSilent = 0
    /\ connected = TRUE /\ link = "up" /\ wire = {}
    /\ evt = FALSE /\ timer = "sleep"
    /\ stage = [r \in Requests |-> "new"]
    /\ pc = [t \in Threads |-> "idle"]
    /\ ret = [t \in Threads |-> << >>]
    /\ todo = [t \in Threads |-> {}]
    /\ rfds = {} /\ batch = {} /\ frame = NoFrame /\ hit = NoSlot /\ snap = NoSnap
    /\ pinging = NoReq /\ pingSeqno = 0
    /\ disconnects = 0 /\ connects = 0
    /\ called = [r \in Requests |-> 0]
    /\ answeredBy = [r \in Requests |-> {}]

-----------------------------------------------------------------------------
(* Control of a thread. *)

Goto(t, p) == pc' = [pc EXCEPT ![t] = p] /\ UNCHANGED ret

\* Enter a routine at p; it returns to back.
Enter(t, p, back) ==
    /\ pc' = [pc EXCEPT ![t] = p]
    /\ ret' = [ret EXCEPT ![t] = <<back>> \o @]

Return(t) ==
    /\ pc' = [pc EXCEPT ![t] = Head(ret[t])]
    /\ ret' = [ret EXCEPT ![t] = Tail(@)]

-----------------------------------------------------------------------------
(* The pool. *)

\* The next value of a uint16_t counter.
NextSeqno(s) == IF s = SeqMod - 1 THEN 0 ELSE s + 1

\* Mutant: the map keeps the entries of freed slots.
ClearIndexNot(freed) == seqIndex

\* seqno_to_index after free_pending_index on the slots in freed: an entry is
\* cleared only when it still points at the slot.
ClearIndex(freed) ==
    [s \in SeqNos |->
        IF seqIndex[s] \in freed /\ pool[seqIndex[s]].seqno = s
        THEN NoSlot ELSE seqIndex[s]]

\* Mutant: the bit of a freed slot stays set.
FreeKeepsBit(freed) ==
    /\ bitmap' = bitmap
    /\ seqIndex' = ClearIndex(freed)

\* free_pending_index on each slot of freed.
Free(freed) ==
    /\ bitmap' = bitmap \ freed
    /\ seqIndex' = ClearIndex(freed)

\* The first zero bit, as alloc_pending_index scans for it.
FirstFree(i) == i \in Slots \ bitmap /\ \A j \in Slots : j < i => j \in bitmap

\* The callback of request r runs, with the answer in by ({}: no answer).
\* ping_reply_cb returns at once; a user's callback may call back into the API.
Invoke(t, r, by, back) ==
    /\ called' = [called EXCEPT ![r] = @ + 1]
    /\ answeredBy' = [answeredBy EXCEPT ![r] = @ \cup by]
    /\ IF r \in Ping THEN Goto(t, back) ELSE Enter(t, "in_cb", back)

CallbackReturn(t) ==
    /\ pc[t] = "in_cb"
    /\ Return(t)
    /\ UNCHANGED <<poolVars, linkVars, evt, timer, stage, todo, pollVars,
                   pingVars, countVars, ghostVars>>

-----------------------------------------------------------------------------
(* Requests: ssn_client_call_ex and ssn_client_request_ex. *)

\* The unlocked test of client->connected, then ssn_client_ref.  A ping is
\* issued by the poll thread between two polls.
CallCheck(r) ==
    /\ stage[r] = "new"
    /\ r \in Ping => pc["poll"] = "idle" /\ pinging = NoReq
    /\ stage' = [stage EXCEPT ![r] = IF connected THEN "checked" ELSE "refused"]
    /\ pinging' = IF connected /\ r \in Ping THEN r ELSE pinging
    /\ UNCHANGED <<pingSeqno, poolVars, linkVars, evt, timer, ctlVars, pollVars,
                   countVars, ghostVars>>

\* No slot left: the call fails.
RegisterFull(r) ==
    /\ stage[r] = "checked" /\ r \notin Silent
    /\ Slots \ bitmap = {}
    /\ stage' = [stage EXCEPT ![r] = "refused"]
    /\ pinging' = IF pinging = r THEN NoReq ELSE pinging
    /\ UNCHANGED <<pingSeqno, poolVars, linkVars, evt, timer, ctlVars, pollVars,
                   countVars, ghostVars>>

\* The wire after a successful send: a server that is gone answers nothing.
Sent(type, s, r) ==
    IF link = "up" THEN wire \cup {[type |-> type, seqno |-> s, req |-> r]} ELSE wire

\* Slot and sequence number are taken and the frame is sent under the lock.
\* When the send fails the transport is disconnected and the slot freed; the
\* sequence number stays spent.  With link = "none" the code dereferences a
\* NULL transport: ClientLink is about that, here the caller goes no further.
Register(r, i, sent, timeout) ==
    /\ stage[r] = "checked" /\ r \notin Silent
    /\ FirstFree(i)
    /\ link # "none"
    /\ sent => link \in {"up", "eof"}
    /\ pool' = [pool EXCEPT ![i] = [seqno |-> seqno, timeout |-> timeout, req |-> r]]
    /\ seqno' = NextSeqno(seqno)
    /\ IF sent
       THEN /\ bitmap' = bitmap \cup {i}
            /\ seqIndex' = [seqIndex EXCEPT ![seqno] = i]
            /\ wire' = Sent(TypeOf(r), seqno, r)
            /\ stage' = [stage EXCEPT ![r] = "accepted"]
            /\ pingSeqno' = (IF r \in Ping THEN seqno ELSE pingSeqno)
            /\ UNCHANGED <<link, pinging>>
       ELSE /\ seqIndex' = [seqIndex EXCEPT ![seqno] = NoSlot]
            /\ stage' = [stage EXCEPT ![r] = "refused"]
            /\ link' = "closed" /\ wire' = {}
            /\ pinging' = IF pinging = r THEN NoReq ELSE pinging
            /\ UNCHANGED <<bitmap, pingSeqno>>
    /\ UNCHANGED <<nextSilent, connected, evt, timer, ctlVars, pollVars,
                   countVars, ghostVars>>

\* ssn_client_prepare_seqno: numbers of requests without a callback come from
\* a counter of their own.
RegisterSilent(r, sent) ==
    LET s == IF nextSilent = 0 THEN 1 ELSE nextSilent IN
    /\ stage[r] = "checked" /\ r \in Silent
    /\ link # "none"
    /\ sent => link \in {"up", "eof"}
    /\ nextSilent' = NextSeqno(s)
    /\ stage' = [stage EXCEPT ![r] = IF sent THEN "accepted" ELSE "refused"]
    /\ IF sent
       THEN wire' = Sent("sub", s, r) /\ UNCHANGED link
       ELSE wire' = {} /\ link' = "closed"
    /\ UNCHANGED <<bitmap, pool, seqIndex, seqno, connected, evt, timer, ctlVars,
                   pollVars, pingVars, countVars, ghostVars>>

-----------------------------------------------------------------------------
(* Timer thread: one round over the pool, then the signal. *)

TimerRound ==
    LET due == {i \in bitmap : pool[i].timeout <= 1} IN
    /\ timer = "sleep"
    /\ pool' = [i \in Slots |->
                  IF i \in due THEN [pool[i] EXCEPT !.timeout = 0]
                  ELSE IF i \in bitmap THEN [pool[i] EXCEPT !.timeout = @ - 1]
                  ELSE pool[i]]
    /\ timer' = IF due = {} THEN "sleep" ELSE "signal"
    /\ UNCHANGED <<bitmap, seqIndex, seqno, nextSilent, linkVars, evt, stage,
                   ctlVars, pollVars, pingVars, countVars, ghostVars>>

\* Mutant: the expired slots are marked and nobody is told.
TimerSignalLost ==
    /\ timer = "signal"
    /\ timer' = "sleep"
    /\ UNCHANGED <<evt, poolVars, linkVars, stage, ctlVars, pollVars, pingVars,
                   countVars, ghostVars>>

TimerSignal ==
    /\ timer = "signal"
    /\ timer' = "sleep"
    /\ evt' = TRUE
    /\ UNCHANGED <<poolVars, linkVars, stage, ctlVars, pollVars, pingVars,
                   countVars, ghostVars>>

-----------------------------------------------------------------------------
(* ssn_client_collect_and_call_pending: the slots are freed under the lock, *)
(* the callbacks follow outside it.                                         *)

Collect(t, freed) ==
    /\ Free(freed)
    /\ todo' = [todo EXCEPT ![t] = @ \cup {pool[i].req : i \in freed}]
    /\ UNCHANGED <<pool, seqno, nextSilent>>

CollectAll(t) ==
    /\ pc[t] = "collect_all"
    /\ Collect(t, bitmap)
    /\ Goto(t, "call")
    /\ UNCHANGED <<linkVars, evt, timer, stage, pollVars, pingVars, countVars, ghostVars>>

CallPending(t) ==
    /\ pc[t] = "call"
    /\ \E r \in todo[t] :
          /\ todo' = [todo EXCEPT ![t] = @ \ {r}]
          /\ Invoke(t, r, {}, "call")
    /\ UNCHANGED <<poolVars, linkVars, evt, timer, stage, pollVars, pingVars, countVars>>

CallPendingDone(t) ==
    /\ pc[t] = "call" /\ todo[t] = {}
    /\ Return(t)
    /\ UNCHANGED <<poolVars, linkVars, evt, timer, stage, todo, pollVars, pingVars,
                   countVars, ghostVars>>

-----------------------------------------------------------------------------
(* ssn_client_disconnect, by the poll thread between two polls, by a user's *)
(* callback, or by another thread.                                          *)

MayDisconnect(t) ==
    \/ pc[t] = "in_cb" /\ "callback" \in DisconnectIn
    \/ t = "poll" /\ pc[t] = "idle" /\ pinging = NoReq /\ "poller" \in DisconnectIn
    \/ t = "app" /\ pc[t] = "idle" /\ "thread" \in DisconnectIn

Disconnect(t) ==
    /\ MayDisconnect(t) /\ connected
    /\ disconnects < MaxDisconnects
    /\ disconnects' = disconnects + 1
    /\ Enter(t, "disconnect", pc[t])
    /\ UNCHANGED <<poolVars, linkVars, evt, timer, stage, todo, pollVars, pingVars,
                   connects, ghostVars>>

DisconnectLocked(t) ==
    /\ pc[t] = "disconnect"
    /\ connected' = FALSE
    /\ link' = IF link = "none" THEN link ELSE "closed"
    /\ wire' = {}
    /\ Goto(t, "collect_all")
    /\ UNCHANGED <<poolVars, evt, timer, stage, todo, pollVars, pingVars, countVars, ghostVars>>

\* ssn_client_connect by the poll thread: the old transport goes, everything
\* pending is called back, and the handshake succeeds or fails.
Connect ==
    /\ pc["poll"] = "idle" /\ pinging = NoReq
    /\ connects < MaxConnects
    /\ connects' = connects + 1
    /\ connected' = FALSE /\ link' = "none" /\ wire' = {}
    /\ pc' = [pc EXCEPT !["poll"] = "collect_all"]
    /\ ret' = [ret EXCEPT !["poll"] = <<"handshake">> \o @]
    /\ UNCHANGED <<poolVars, evt, timer, stage, todo, pollVars, pingVars,
                   disconnects, ghostVars>>

Handshake(ok) ==
    /\ pc["poll"] = "handshake"
    /\ IF ok THEN connected' = TRUE /\ link' = "up" /\ wire' = {}
             ELSE UNCHANGED linkVars
    /\ Goto("poll", "idle")
    /\ UNCHANGED <<poolVars, evt, timer, stage, todo, pollVars, pingVars, countVars, ghostVars>>

-----------------------------------------------------------------------------
(* ssn_client_poll and ssn_client_process_events. *)

SocketReady == connected /\ (link = "eof" \/ (link = "up" /\ wire # {}))

PollSelect ==
    /\ pc["poll"] = "idle"
    /\ pinging # NoReq => stage[pinging] = "accepted"
    /\ evt \/ SocketReady
    /\ rfds' = (IF evt THEN {"evt"} ELSE {}) \cup (IF SocketReady THEN {"sock"} ELSE {})
    /\ Goto("poll", "socket")
    /\ UNCHANGED <<poolVars, linkVars, evt, timer, stage, todo, batch, frame, hit, snap,
                   pingVars, countVars, ghostVars>>

\* The socket is not in the set any more, or was not reported.
PollNoSocket ==
    /\ pc["poll"] = "socket"
    /\ ~(connected /\ link \in {"up", "eof"} /\ "sock" \in rfds)
    /\ Goto("poll", "event")
    /\ UNCHANGED <<poolVars, linkVars, evt, timer, stage, todo, pollVars, pingVars,
                   countVars, ghostVars>>

\* recv returns the answers that have arrived: some of the frames sent, in any
\* order, since the server answers whenever its handler does.
PollRecv ==
    /\ pc["poll"] = "socket"
    /\ connected /\ link \in {"up", "eof"} /\ "sock" \in rfds
    /\ \E got \in SUBSET wire \ {{}} :
          /\ batch' = got
          /\ wire' = wire \ got
    /\ Goto("poll", "dispatch")
    /\ UNCHANGED <<poolVars, connected, link, evt, timer, stage, todo, rfds, frame, hit,
                   snap, pingVars, countVars, ghostVars>>

\* recv returns 0: connection lost.
PollEof ==
    /\ pc["poll"] = "socket"
    /\ connected /\ link = "eof" /\ "sock" \in rfds
    /\ connected' = FALSE
    /\ Enter("poll", "collect_all", "destroy")
    /\ UNCHANGED <<poolVars, link, wire, evt, timer, stage, todo, pollVars, pingVars,
                   countVars, ghostVars>>

\* process_events returned false: the transport is destroyed.
PollDestroy ==
    /\ pc["poll"] = "destroy"
    /\ connected' = FALSE /\ link' = "none" /\ wire' = {}
    /\ rfds' = {}
    /\ Goto("poll", "idle")
    /\ UNCHANGED <<poolVars, evt, timer, stage, todo, batch, frame, hit, snap, pingVars, countVars, ghostVars>>

\* ssn_client_input on the next frame: the map is read outside the lock.
InputLookup ==
    /\ pc["poll"] = "dispatch"
    /\ \E f \in batch :
          /\ batch' = batch \ {f}
          /\ hit' = seqIndex[f.seqno]
          /\ IF hit' = NoSlot
             THEN UNCHANGED frame /\ Goto("poll", "dispatch")
             ELSE frame' = f /\ Goto("poll", "snapshot")
    /\ UNCHANGED <<poolVars, linkVars, evt, timer, stage, todo, rfds, snap, pingVars,
                   countVars, ghostVars>>

InputDone ==
    /\ pc["poll"] = "dispatch" /\ batch = {}
    /\ Goto("poll", "event")
    /\ UNCHANGED <<poolVars, linkVars, evt, timer, stage, todo, pollVars, pingVars,
                   countVars, ghostVars>>

\* get_pending_snapshot under the lock: only the bit is tested.
InputSnapshot ==
    /\ pc["poll"] = "snapshot"
    /\ hit' = NoSlot
    /\ IF hit \in bitmap
       THEN /\ snap' = [index |-> hit, req |-> pool[hit].req]
            /\ Goto("poll", "reply")
            /\ UNCHANGED frame
       ELSE frame' = NoFrame /\ UNCHANGED snap /\ Goto("poll", "dispatch")
    /\ UNCHANGED <<poolVars, linkVars, evt, timer, stage, todo, rfds, batch, pingVars, countVars, ghostVars>>

\* The callback runs when the frame's type and the slot's kind agree
\* (handle_rpc_response, handle_response).
Matches(f, r) ==
    \/ f.type = "rpc" /\ r \in Rpc
    \/ f.type \in {"sub", "ping"} /\ r \in Ping

InputReply ==
    /\ pc["poll"] = "reply"
    /\ IF Matches(frame, snap.req)
       THEN Invoke("poll", snap.req, {frame.req}, "free")
       ELSE Goto("poll", "free") /\ UNCHANGED ghostVars
    /\ UNCHANGED <<poolVars, linkVars, evt, timer, stage, todo, pollVars, pingVars, countVars>>

InputFree ==
    /\ pc["poll"] = "free"
    /\ Free({snap.index})
    /\ frame' = NoFrame /\ snap' = NoSnap
    /\ Goto("poll", "dispatch")
    /\ UNCHANGED <<pool, seqno, nextSilent, linkVars, evt, timer, stage, todo, rfds,
                   batch, hit, pingVars, countVars, ghostVars>>

\* The event descriptor is drained before the expired slots are collected.
PollDrain ==
    /\ pc["poll"] = "event"
    /\ IF "evt" \in rfds
       THEN evt' = FALSE /\ Goto("poll", "collect_due")
       ELSE UNCHANGED evt /\ Goto("poll", "idle")
    /\ rfds' = {}
    /\ UNCHANGED <<poolVars, linkVars, timer, stage, todo, batch, frame, hit, snap, pingVars, countVars,
                   ghostVars>>

CollectDue ==
    /\ pc["poll"] = "collect_due"
    /\ Collect("poll", {i \in bitmap : pool[i].timeout = 0})
    /\ Enter("poll", "call", "idle")
    /\ UNCHANGED <<linkVars, evt, timer, stage, pollVars, pingVars, countVars, ghostVars>>

-----------------------------------------------------------------------------
(* ssn_client_ping: back in the poll thread, replied or timed out. *)

Replied(r) == answeredBy[r] # {}

PingReplied(r) ==
    /\ pinging = r /\ stage[r] = "accepted" /\ pc["poll"] = "idle"
    /\ Replied(r)
    /\ stage' = [stage EXCEPT ![r] = "returned"]
    /\ pinging' = NoReq
    /\ UNCHANGED <<pingSeqno, poolVars, linkVars, evt, timer, ctlVars, pollVars, countVars, ghostVars>>

\* Mutant: the registration stays behind.
PingTimeoutKeeps(r) ==
    /\ pinging = r /\ stage[r] = "accepted" /\ pc["poll"] = "idle"
    /\ ~Replied(r)
    /\ stage' = [stage EXCEPT ![r] = "returned"]
    /\ pinging' = NoReq
    /\ UNCHANGED <<pingSeqno, poolVars, linkVars, evt, timer, ctlVars, pollVars,
                   countVars, ghostVars>>

\* Timed out: the registration is withdrawn under the lock.
PingTimeout(r) ==
    LET i == seqIndex[pingSeqno] IN
    /\ pinging = r /\ stage[r] = "accepted" /\ pc["poll"] = "idle"
    /\ ~Replied(r)
    /\ IF i # NoSlot /\ i \in bitmap
       THEN Free({i})
       ELSE UNCHANGED <<bitmap, seqIndex>>
    /\ stage' = [stage EXCEPT ![r] = "returned"]
    /\ pinging' = NoReq
    /\ UNCHANGED <<pingSeqno, pool, seqno, nextSilent, linkVars, evt, timer, ctlVars, pollVars,
                   countVars, ghostVars>>

-----------------------------------------------------------------------------
\* The server goes away: what it answered before may still be read.
PeerClose ==
    /\ link = "up"
    /\ link' = "eof"
    /\ UNCHANGED <<poolVars, connected, wire, evt, timer, stage, ctlVars, pollVars,
                   pingVars, countVars, ghostVars>>

-----------------------------------------------------------------------------
RegisterStep(r) ==
    \/ RegisterFull(r)
    \/ \E i \in Slots, sent \in BOOLEAN, timeout \in Timeouts : Register(r, i, sent, timeout)
    \/ \E sent \in BOOLEAN : RegisterSilent(r, sent)

PingStep(r) == PingReplied(r) \/ PingTimeout(r)

\* Steps a thread takes once it is inside the API.
ThreadStep(t) ==
    CollectAll(t) \/ CallPending(t) \/ CallPendingDone(t) \/ CallbackReturn(t)
    \/ DisconnectLocked(t)

PollStep ==
    \/ PollSelect \/ PollNoSocket \/ PollRecv \/ PollEof \/ PollDestroy
    \/ InputLookup \/ InputDone \/ InputSnapshot \/ InputReply \/ InputFree
    \/ PollDrain \/ CollectDue
    \/ \E ok \in BOOLEAN : Handshake(ok)

TimerStep == TimerRound \/ TimerSignal

Next ==
    \/ \E r \in Requests : CallCheck(r) \/ RegisterStep(r)
    \/ \E r \in Ping : PingStep(r)
    \/ \E t \in Threads : ThreadStep(t) \/ Disconnect(t)
    \/ PollStep \/ Connect \/ TimerStep \/ PeerClose

\* The threads keep running: the user polls in a loop, the timer thread loops,
\* and a thread inside the API goes on to its end.
Fairness ==
    /\ WF_vars(PollStep)
    /\ WF_vars(TimerStep)
    /\ \A t \in Threads : WF_vars(ThreadStep(t))
    /\ \A r \in Requests : WF_vars(RegisterStep(r))
    /\ \A r \in Ping : WF_vars(PingStep(r))

Spec == Init /\ [][Next]_vars
FairSpec == Spec /\ Fairness

-----------------------------------------------------------------------------
PCs == {"idle", "socket", "dispatch", "snapshot", "reply", "in_cb", "free", "event",
        "collect_due", "collect_all", "call", "disconnect", "destroy", "handshake"}

\* Every variable has its type: slots, sequence numbers and program counters
\* stay in the ranges the arrays of struct ssn_client have.
TypeOK ==
    /\ bitmap \subseteq Slots
    /\ pool \in [Slots -> [seqno : SeqNos, timeout : Nat,
                           req : Requests \cup {NoReq}]]
    /\ seqIndex \in [SeqNos -> Slots \cup {NoSlot}]
    /\ seqno \in SeqNos /\ nextSilent \in SeqNos
    /\ connected \in BOOLEAN
    /\ link \in {"none", "closed", "eof", "up"}
    /\ wire \subseteq Frames
    /\ evt \in BOOLEAN /\ timer \in {"sleep", "signal"}
    /\ stage \in [Requests -> {"new", "checked", "refused", "accepted", "returned"}]
    /\ pc \in [Threads -> PCs] /\ ret \in [Threads -> Seq(PCs)]
    /\ todo \in [Threads -> SUBSET Requests]
    /\ rfds \subseteq {"sock", "evt"}
    /\ batch \subseteq Frames /\ frame \in Frames \cup {NoFrame}
    /\ hit \in Slots \cup {NoSlot}
    /\ snap \in [index : Slots \cup {NoSlot}, req : Requests \cup {NoReq}]
    /\ pinging \in Ping \cup {NoReq} /\ pingSeqno \in SeqNos
    /\ disconnects \in 0 .. MaxDisconnects /\ connects \in 0 .. MaxConnects
    /\ called \in [Requests -> Nat]
    /\ answeredBy \in [Requests -> SUBSET Requests]

\* A request's callback runs at most once: not again with NULL after an answer
\* (input and collect_and_call_pending never both take the same registration).
AtMostOnce == \A r \in Requests : called[r] <= 1

\* A callback given an answer is given the answer to its own request: late
\* answers, reused slots and the sequence-number map never mix two requests up.
RightAnswer == \A r \in Rpc : answeredBy[r] \subseteq {r}

\* Where a call stands in the eyes of its caller.
OutcomeOf(r) ==
    CASE stage[r] \in {"new", "checked"} -> "open"
      [] stage[r] = "refused" -> "refused"
      [] OTHER -> IF called[r] = 0 THEN "pending" ELSE "done"

\* The calls of Rpc keep the promise of RequestPromise.
Promise == INSTANCE RequestPromise WITH
    Calls <- Rpc,
    outcome <- [r \in Rpc |-> OutcomeOf(r)],
    runs <- [r \in Rpc |-> called[r]]

\* Refused calls are never called back, accepted ones once and not before they
\* are registered.
KeepsPromise == Promise!PromiseSpec

\* Once ssn_client_ping has returned, its callback, which writes to a variable
\* on the stack of ssn_client_ping, never runs.
PingStackSafe ==
    [][\A r \in Ping : stage[r] = "returned" => called'[r] = called[r]]_vars

\* Every accepted request is called back, with an answer or with NULL.
EventuallyCalled ==
    \A r \in Rpc : (stage[r] = "accepted") ~> (called[r] > 0)

=============================================================================
