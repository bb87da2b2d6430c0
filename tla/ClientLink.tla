----------------------------- MODULE ClientLink -----------------------------
(***************************************************************************)
(* The connection and the lifetime of one SSN client (src/ssn_client.c):   *)
(* client->transport and client->connected, replaced by ssn_client_connect *)
(* and ssn_client_send_timeout, destroyed by the poll thread on a lost     *)
(* connection, used by every send; and the reference count that decides    *)
(* when the client is freed.                                               *)
(*                                                                         *)
(* Sections under client->lock are one step.  client->connected is read    *)
(* and often written outside the lock: each such access is a step.         *)
(***************************************************************************)
EXTENDS Naturals, FiniteSets

CONSTANTS
    App,            \* the application's threads
    Poller,         \* the thread that polls
    Transports,     \* transport objects, with their descriptor; reused when free
    Null,           \* no transport
    Ops             \* the operations the application's threads call

Threads == App \cup {Poller}

ASSUME ThreadsAssumption ==
    /\ Poller \notin App /\ Null \notin Transports /\ IsFiniteSet(App)
    /\ Ops \subseteq {"connect", "send", "disconnect", "send_timeout", "close"}

VARIABLES
    connected,      \* client->connected
    transport,      \* client->transport
    sock,           \* each transport: "free", "open", "eof" or "closed" (fd -1)
    valid,          \* client->valid
    listed,         \* the client is on g_ssn_client_list
    refs,           \* client->ref_count
    freed,          \* the client's memory was released
    crash,          \* "none", or the process died: "null", "freed"
    pc, op,         \* control of each thread and the call it is in
    local,          \* new_transport of a thread in ssn_client_connect
    rfds            \* the transport whose descriptor the poll thread waits for

lifeVars == <<valid, listed, refs, freed>>
linkVars == <<connected, transport, sock>>
vars == <<linkVars, lifeVars, crash, pc, op, local, rfds>>

Init ==
    /\ connected = FALSE /\ transport = Null
    /\ sock = [x \in Transports |-> "free"]
    /\ valid = TRUE /\ listed = TRUE /\ refs = 1 /\ freed = FALSE
    /\ crash = "none"
    /\ pc = [t \in Threads |-> "idle"]
    /\ op = [t \in Threads |-> "none"]
    /\ local = [t \in App |-> Null]
    /\ rfds = Null

\* The process is alive and thread t is at p.
At(t, p) == crash = "none" /\ pc[t] = p

Goto(t, p) == pc' = [pc EXCEPT ![t] = p]

\* The sockets after ssn_transport_destroy and ssn_transport_disconnect on x.
Destroyed(x) == IF x = Null THEN sock ELSE [sock EXCEPT ![x] = "free"]
Disconnected(x) == IF x = Null THEN sock ELSE [sock EXCEPT ![x] = "closed"]

-----------------------------------------------------------------------------
(* Entering and leaving an API call. *)

FirstStep(o) ==
    CASE o = "connect" -> "c_clear"
      [] o = "send" -> "s_send"
      [] o = "disconnect" -> "d_lock"
      [] o = "send_timeout" -> "t_lock"
      [] OTHER -> "p_fds"

\* The unlocked tests of client->valid and, where the call has it, of
\* client->connected.
Begin(t, o) ==
    /\ At(t, "idle") /\ ~freed /\ valid
    /\ o \in {"send", "disconnect"} => connected
    /\ Goto(t, "ref")
    /\ op' = [op EXCEPT ![t] = o]
    /\ UNCHANGED <<linkVars, lifeVars, crash, local, rfds>>

\* ssn_client_ref.  The client may have been closed since it was tested: once
\* the count has reached zero its memory goes, whoever comes now.
Ref(t) ==
    /\ At(t, "ref")
    /\ IF refs = 0
       THEN crash' = "freed" /\ UNCHANGED refs
       ELSE refs' = refs + 1 /\ UNCHANGED crash
    /\ Goto(t, FirstStep(op[t]))
    /\ UNCHANGED <<linkVars, valid, listed, freed, op, local, rfds>>

\* Mutant: the client is freed with its last reference but one.
LastRefEarly == refs = 2 /\ ~valid

\* The last reference to a closed client is gone.
LastRef == refs = 1 /\ ~valid

\* ssn_client_unref: the count, and what it releases.
Unref(t) ==
    /\ \E p \in {"unref", "run_unref"} : At(t, p)
    /\ refs' = refs - 1
    /\ Goto(t, IF LastRef THEN "free" ELSE IF pc[t] = "run_unref" THEN "unref" ELSE "idle")
    /\ UNCHANGED <<linkVars, valid, listed, freed, crash, op, local, rfds>>

Free(t) ==
    /\ At(t, "free")
    /\ connected' = FALSE
    /\ sock' = Destroyed(transport) /\ transport' = Null
    /\ freed' = TRUE
    /\ Goto(t, "idle")
    /\ UNCHANGED <<valid, listed, refs, crash, op, local, rfds>>

\* ssn_client_close: only the first one gets past the test under the lock.
CloseInvalidate(t) ==
    /\ At(t, "idle") /\ valid
    /\ valid' = FALSE
    /\ op' = [op EXCEPT ![t] = "close"]
    /\ Goto(t, "unlist")
    /\ UNCHANGED <<linkVars, listed, refs, freed, crash, local, rfds>>

CloseUnlist(t) ==
    /\ At(t, "unlist")
    /\ listed' = FALSE
    /\ Goto(t, IF op[t] = "run" THEN "run_unref" ELSE "unref")
    /\ UNCHANGED <<linkVars, valid, refs, freed, crash, op, local, rfds>>

-----------------------------------------------------------------------------
(* ssn_client_connect. *)

ConnectClear(t) ==
    /\ At(t, "c_clear")
    /\ connected' = FALSE
    /\ Goto(t, "c_destroy")
    /\ UNCHANGED <<transport, sock, lifeVars, crash, op, local, rfds>>

ConnectDestroy(t) ==
    /\ At(t, "c_destroy")
    /\ sock' = Destroyed(transport) /\ transport' = Null
    /\ Goto(t, "c_new")
    /\ UNCHANGED <<connected, lifeVars, crash, op, local, rfds>>

\* The new transport is the thread's own until it is published.
ConnectNew(t, x) ==
    /\ At(t, "c_new")
    /\ sock[x] = "free"
    /\ sock' = [sock EXCEPT ![x] = "open"]
    /\ local' = [local EXCEPT ![t] = x]
    /\ Goto(t, "c_handshake")
    /\ UNCHANGED <<connected, transport, lifeVars, crash, op, rfds>>

\* Mutant: the failure path returns without ssn_client_unref.
ConnectFailNoUnref(t) ==
    /\ \E p \in {"c_new", "c_handshake"} : At(t, p)
    /\ sock' = Destroyed(local[t])
    /\ local' = [local EXCEPT ![t] = Null]
    /\ Goto(t, "idle")
    /\ UNCHANGED <<connected, transport, lifeVars, crash, op, rfds>>

\* No server, the send fails, or no answer within the retries.
ConnectFail(t) ==
    /\ \E p \in {"c_new", "c_handshake"} : At(t, p)
    /\ sock' = Destroyed(local[t])
    /\ local' = [local EXCEPT ![t] = Null]
    /\ Goto(t, "unref")
    /\ UNCHANGED <<connected, transport, lifeVars, crash, op, rfds>>

\* Mutant: a transport another thread published meanwhile is overwritten.
ConnectPublishOver(t) ==
    /\ At(t, "c_handshake")
    /\ sock' = sock
    /\ transport' = local[t]
    /\ connected' = TRUE
    /\ local' = [local EXCEPT ![t] = Null]
    /\ Goto(t, "unref")
    /\ UNCHANGED <<lifeVars, crash, op, rfds>>

ConnectPublish(t) ==
    /\ At(t, "c_handshake")
    /\ sock' = Destroyed(transport)
    /\ transport' = local[t]
    /\ connected' = TRUE
    /\ local' = [local EXCEPT ![t] = Null]
    /\ Goto(t, "unref")
    /\ UNCHANGED <<lifeVars, crash, op, rfds>>

-----------------------------------------------------------------------------
(* Sending, disconnecting, changing the send timeout. *)

\* A request, message or publish: sent under the lock on client->transport,
\* whatever it is by now.  A failed send only disconnects the transport.
Send(t, sent) ==
    /\ At(t, "s_send")
    /\ IF transport = Null
       THEN crash' = "null" /\ UNCHANGED sock
       ELSE /\ sent => sock[transport] \in {"open", "eof"}
            /\ sock' = IF sent THEN sock ELSE Disconnected(transport)
            /\ UNCHANGED crash
    /\ Goto(t, "unref")
    /\ UNCHANGED <<connected, transport, lifeVars, op, local, rfds>>

DisconnectLocked(t) ==
    /\ At(t, "d_lock")
    /\ connected' = FALSE
    /\ sock' = Disconnected(transport)
    /\ Goto(t, "unref")
    /\ UNCHANGED <<transport, lifeVars, crash, op, local, rfds>>

\* The transport is rebuilt when connected; a failed connect keeps the old one.
SendTimeout(t) ==
    /\ At(t, "t_lock")
    /\ \/ UNCHANGED <<transport, sock>>
       \/ /\ connected /\ transport # Null
          /\ \E x \in Transports :
                /\ sock[x] = "free"
                /\ sock' = [Destroyed(transport) EXCEPT ![x] = "open"]
                /\ transport' = x
    /\ Goto(t, "unref")
    /\ UNCHANGED <<connected, lifeVars, crash, op, local, rfds>>

-----------------------------------------------------------------------------
(* ssn_client_poll and ssn_client_run. *)

PollFds ==
    /\ At(Poller, "p_fds")
    /\ rfds' = Null
    /\ Goto(Poller, IF ~valid THEN "unref" ELSE IF connected THEN "p_fd" ELSE "p_select")
    /\ UNCHANGED <<linkVars, lifeVars, crash, op, local>>

\* The descriptor is read under the lock.
PollFd ==
    /\ At(Poller, "p_fd")
    /\ rfds' = IF transport # Null /\ sock[transport] # "closed" THEN transport ELSE Null
    /\ Goto(Poller, "p_select")
    /\ UNCHANGED <<linkVars, lifeVars, crash, op, local>>

Again == IF op[Poller] = "run" THEN "p_fds" ELSE "unref"

\* pselect of poll runs out of time.
PollTimeout ==
    /\ At(Poller, "p_select") /\ op[Poller] = "poll"
    /\ Goto(Poller, "unref")
    /\ UNCHANGED <<linkVars, lifeVars, crash, op, local, rfds>>

\* pselect reports the socket, or the timer's event.
PollReady ==
    /\ At(Poller, "p_select")
    /\ Goto(Poller, IF valid /\ connected THEN "p_recv" ELSE IF valid THEN Again ELSE "p_lost")
    /\ UNCHANGED <<linkVars, lifeVars, crash, op, local, rfds>>

\* recv under the lock on the transport of now, if its descriptor was reported:
\* data, or the end of the stream, or a stream error.
PollRecv ==
    /\ At(Poller, "p_recv")
    /\ IF transport # Null /\ transport = rfds /\ sock[transport] # "closed"
       THEN \/ Goto(Poller, "p_clear")
            \/ sock[transport] = "open" /\ Goto(Poller, Again)
       ELSE Goto(Poller, Again)
    /\ UNCHANGED <<linkVars, lifeVars, crash, op, local, rfds>>

\* Connection lost: process_events clears client->connected outside the lock,
\* then calls back what is pending.
PollClear ==
    /\ At(Poller, "p_clear")
    /\ connected' = FALSE
    /\ Goto(Poller, "p_lost")
    /\ UNCHANGED <<transport, sock, lifeVars, crash, op, local, rfds>>

\* The caller of process_events: run closes the client, poll clears
\* client->connected once more.
PollLost ==
    /\ At(Poller, "p_lost")
    /\ IF op[Poller] = "run"
       THEN /\ valid' = FALSE
            /\ Goto(Poller, IF valid THEN "unlist" ELSE "unref")
            /\ UNCHANGED connected
       ELSE /\ connected' = FALSE
            /\ Goto(Poller, "p_destroy")
            /\ UNCHANGED valid
    /\ UNCHANGED <<transport, sock, listed, refs, freed, crash, op, local, rfds>>

\* Then poll destroys, under the lock, the transport of now.
PollDestroy ==
    /\ At(Poller, "p_destroy")
    /\ sock' = Destroyed(transport) /\ transport' = Null
    /\ Goto(Poller, "unref")
    /\ UNCHANGED <<connected, lifeVars, crash, op, local, rfds>>

PeerClose ==
    /\ \E x \in Transports : sock[x] = "open" /\ sock' = [sock EXCEPT ![x] = "eof"]
    /\ UNCHANGED <<connected, transport, lifeVars, crash, pc, op, local, rfds>>

-----------------------------------------------------------------------------
AppStep(t) ==
    \/ ConnectClear(t) \/ ConnectDestroy(t)
    \/ \E x \in Transports : ConnectNew(t, x)
    \/ ConnectFail(t) \/ ConnectPublish(t)
    \/ \E sent \in BOOLEAN : Send(t, sent)
    \/ DisconnectLocked(t) \/ SendTimeout(t)

LifeStep(t) == Ref(t) \/ Unref(t) \/ Free(t) \/ CloseUnlist(t)

PollStep ==
    \/ PollFds \/ PollFd \/ PollTimeout \/ PollReady \/ PollRecv
    \/ PollClear \/ PollLost \/ PollDestroy

\* A thread starts a call.
Call ==
    \/ \E t \in App, o \in Ops \ {"close"} : Begin(t, o)
    \/ \E o \in {"poll", "run"} : Begin(Poller, o)
    \/ "close" \in Ops /\ \E t \in Threads : CloseInvalidate(t)

Running ==
    \/ \E t \in Threads : LifeStep(t)
    \/ \E t \in App : AppStep(t)
    \/ PollStep

Next == Call \/ Running \/ PeerClose

\* A thread inside a call goes on to its end, and the user polls in a loop.  The
\* pselect of ssn_client_run has no timeout: nothing has to wake it.
Fairness ==
    /\ WF_vars(Begin(Poller, "poll"))
    /\ \A t \in Threads : WF_vars(LifeStep(t))
    /\ \A t \in App : WF_vars(AppStep(t))
    /\ WF_vars(PollStep /\ (pc[Poller] = "p_select" => op[Poller] = "poll"))

Spec == Init /\ [][Next]_vars
FairSpec == Spec /\ Fairness

-----------------------------------------------------------------------------
\* Types of the client's fields and of the threads' control.
TypeOK ==
    /\ connected \in BOOLEAN /\ transport \in Transports \cup {Null}
    /\ sock \in [Transports -> {"free", "open", "eof", "closed"}]
    /\ valid \in BOOLEAN /\ listed \in BOOLEAN /\ freed \in BOOLEAN
    /\ refs \in 0 .. (Cardinality(Threads) + 1)
    /\ crash \in {"none", "null", "freed"}
    /\ op \in [Threads -> Ops \cup {"none", "close", "poll", "run"}]
    /\ local \in [App -> Transports \cup {Null}]
    /\ rfds \in Transports \cup {Null}

\* A thread that holds a reference never works on a freed client, and neither
\* does the timer thread, which reaches the clients on the global list.
RefProtects ==
    freed /\ crash = "none" =>
        ~listed /\ \A t \in Threads : pc[t] \in {"idle", "ref"}

NewTransportOwned ==
    \A t \in App : local[t] # Null =>
        /\ sock[local[t]] \in {"open", "eof"}
        /\ local[t] # transport
        /\ \A u \in App \ {t} : local[u] # local[t]
NoTransportLeak ==
    \A x \in Transports : sock[x] # "free" =>
        x = transport \/ \E t \in App : local[t] = x

\* Every transport object has one owner.  What ssn_client_connect has built is
\* in nobody else's hands until it is published, so that the poll thread never
\* destroys it; and one that is not free is the client's or that of a connect
\* in progress, so that connects that overtake each other leak none.
TransportsOwned == NewTransportOwned /\ NoTransportLeak

\* A closed client is freed once the calls in progress are over; a thread
\* blocked in ssn_client_run keeps it.
Reclaimed ==
    ~valid ~> \/ freed \/ crash # "none"
              \/ op[Poller] = "run" /\ pc[Poller] = "p_select"

=============================================================================
