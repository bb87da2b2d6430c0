----------------------------- MODULE ServerPeers -----------------------------
(***************************************************************************)
(* The peers of one SSN server (src/ssn_server.c): the client table, the   *)
(* list of handshake and idle timers, the poll thread that accepts, reads, *)
(* answers and expires them, the timer thread, other threads that publish, *)
(* answer, close a peer or destroy the server, and the reference count     *)
(* that decides when its memory goes.                                      *)
(*                                                                         *)
(* A section under server->lock is one step.  A member of Conns is an      *)
(* accepted connection with the ssn_server_cli_t that serves it, used      *)
(* again for a later one once it is gone.  Times are counted in periods of *)
(* the timer thread.                                                       *)
(***************************************************************************)
EXTENDS Naturals, FiniteSets

CONSTANTS
    MaxConnections, \* server->max_connections
    HandshakeTimeout,   \* server->handshake_timeout
    KeepaliveTimeout    \* server->keepalive_timeout; 0: no idle timeout

ASSUME LimitsAssumption ==
    /\ MaxConnections \in Nat \ {0}
    /\ HandshakeTimeout \in Nat \ {0} /\ KeepaliveTimeout \in Nat

\* One more than the server may serve, so that it could be seen to.
Conns == 1 .. (MaxConnections + 1)
NoConn == 0
ConnStates == {"free", "open", "eof", "closed"}   \* eof: the peer closed; closed: fd -1

VARIABLES
    conn,           \* the state of each connection
    cli,            \* the ssn_server_cli_t of each connection
    table,          \* the connections in server->clis
    hst,            \* the connections whose timer is on server->hst_h
    evt,            \* server->evtfd is signalled
    valid, listed, refs, freed,
    timer,          \* pc of the timer thread
    app,            \* pc of the thread that destroys the server
    pc, mode,       \* the poll thread; in ssn_server_poll or ssn_server_run
    todo,           \* connections reported readable and not handled yet
    flags,          \* of the listener and the event, whichever were reported
    cur, packet     \* the connection and the packet being handled

cliVars == <<conn, cli, table, hst>>
lifeVars == <<valid, listed, refs, freed>>
pollVars == <<mode, todo, flags, cur, packet>>
vars == <<cliVars, evt, lifeVars, timer, app, pc, pollVars>>

\* SERVICE_INFO; MESSAGE; what is answered under the lock: RPC_REQUEST,
\* SUBSCRIBE, UNSUBSCRIBE and PING_ECHO.
Packets == {"info", "msg", "request"}
NoCli == [linked |-> FALSE, alive |-> 0]

\* A server that was created and started.
Init ==
    /\ conn = [c \in Conns |-> "free"] /\ cli = [c \in Conns |-> NoCli]
    /\ table = {} /\ hst = {}
    /\ evt = FALSE
    /\ valid = TRUE /\ listed = TRUE /\ refs = 1 /\ freed = FALSE
    /\ timer = "sleep" /\ app = "idle"
    /\ pc = "idle" /\ mode = "poll" /\ todo = {} /\ flags = {}
    /\ cur = NoConn /\ packet = "none"

-----------------------------------------------------------------------------
(* Clients and their timers. *)

\* Mutant: a timer that has run out is taken for one that is not on the list.
UnlinkedAlive(S) == hst \ {c \in S : cli[c].alive # 0}

\* The timer list after ssn_server_cli_destroy on the clients in S.
Unlinked(S) == hst \ {c \in S : cli[c].linked}

\* ssn_server_cli_destroy on the clients in S.
CliDestroy(S) ==
    /\ table' = table \ S
    /\ hst' = Unlinked(S)
    /\ conn' = [c \in Conns |-> IF c \in S THEN "free" ELSE conn[c]]
    /\ cli' = [c \in Conns |-> IF c \in S THEN NoCli ELSE cli[c]]

\* What ssn_server_cli_sendmsg to the clients in S can leave of the
\* connections: a failed send only disconnects the transport.
SendTo(S) ==
    \E failed \in SUBSET S :
        conn' = [c \in Conns |-> IF c \in failed THEN "closed" ELSE conn[c]]

\* The poll thread is through with the current connection.
Handled ==
    /\ pc' = "clients" /\ cur' = NoConn /\ packet' = "none"
    /\ UNCHANGED <<mode, todo, flags>>

-----------------------------------------------------------------------------
(* The poll thread: ssn_server_poll and ssn_server_run. *)

\* ssn_server_ref.  Nobody polls a server it has begun to destroy.
PollBegin ==
    /\ pc = "idle" /\ app = "idle"
    /\ refs' = refs + 1
    /\ mode' \in {"poll", "run"}
    /\ pc' = "fds"
    /\ UNCHANGED <<cliVars, evt, valid, listed, freed, timer, app, todo, flags, cur,
                   packet>>

\* ssn_server_fds has nothing to wait for when the server is invalid: run
\* returns, and the pselect of poll runs out of time.
Fds ==
    /\ pc = "fds"
    /\ pc' = IF valid THEN "select" ELSE "unref"
    /\ UNCHANGED <<cliVars, evt, lifeVars, timer, app, pollVars>>

\* pselect: what is readable now.  ssn_server_input_fds does nothing for a
\* server that was destroyed meanwhile.
Select ==
    /\ pc = "select"
    /\ \E data \in SUBSET {c \in table : conn[c] = "open"} :
          todo' = data \cup {c \in table : conn[c] = "eof"}
    /\ \E new \in SUBSET {"listen"} : flags' = new \cup IF evt THEN {"evt"} ELSE {}
    /\ todo' # {} \/ flags' # {}
    /\ pc' = IF valid THEN "clients" ELSE "end"
    /\ UNCHANGED <<cliVars, evt, lifeVars, timer, app, mode, cur, packet>>

\* pselect finds something by itself.
Woken == evt \/ \E c \in table : conn[c] = "eof"

\* pselect of ssn_server_poll runs out of time.
SelectTimeout ==
    /\ pc = "select" /\ mode = "poll"
    /\ ~Woken
    /\ pc' = "unref"
    /\ UNCHANGED <<cliVars, evt, lifeVars, timer, app, pollVars>>

\* Nothing to read after all, or the descriptor was closed since pselect.
ClientSkip(c) ==
    /\ pc = "clients" /\ c \in todo
    /\ conn[c] \in {"open", "closed"}
    /\ todo' = todo \ {c}
    /\ UNCHANGED <<cliVars, evt, lifeVars, timer, app, pc, mode, flags, cur, packet>>

\* ssn_server_handle_client_input: a packet.
ClientPacket(c, p) ==
    /\ pc = "clients" /\ c \in todo
    /\ conn[c] = "open"
    /\ todo' = todo \ {c} /\ cur' = c /\ packet' = p
    /\ pc' = "input"
    /\ UNCHANGED <<cliVars, evt, lifeVars, timer, app, mode, flags>>

\* The end of the stream or an error, or the descriptor closed under recv;
\* oncli(false) is called, with no lock held, before the client is destroyed.
ClientLost(c) ==
    /\ pc = "clients" /\ c \in todo
    /\ todo' = todo \ {c} /\ cur' = c
    /\ pc' = "destroy_cli"
    /\ UNCHANGED <<cliVars, evt, lifeVars, timer, app, mode, flags,
                   packet>>

ClientDestroy ==
    /\ pc = "destroy_cli"
    /\ CliDestroy({cur})
    /\ Handled
    /\ UNCHANGED <<evt, lifeVars, timer, app>>

ClientsDone ==
    /\ pc = "clients" /\ todo = {}
    /\ pc' = "accept"
    /\ UNCHANGED <<cliVars, evt, lifeVars, timer, app, pollVars>>

AtLimit == Cardinality(table) >= MaxConnections

\* ssn_server_handle_new_connection: refused at the limit, or served.
AcceptRefused ==
    /\ pc = "accept" /\ "listen" \in flags
    /\ AtLimit
    /\ pc' = "event"
    /\ UNCHANGED <<conn, cli, table, hst, evt, lifeVars, timer, app, pollVars>>

\* ssn_server_cli_init.
Accept(c) ==
    /\ pc = "accept" /\ "listen" \in flags
    /\ ~AtLimit
    /\ c \notin table /\ \A d \in 1 .. (c - 1) : d \in table
    /\ conn' = [conn EXCEPT ![c] = "open"]
    /\ cli' = [cli EXCEPT ![c] = [linked |-> TRUE, alive |-> HandshakeTimeout]]
    /\ table' = table \cup {c} /\ hst' = hst \cup {c}
    /\ pc' = "event"
    /\ UNCHANGED <<evt, lifeVars, timer, app, pollVars>>

AcceptNone ==
    /\ pc = "accept"
    /\ "listen" \notin flags
    /\ pc' = "event"
    /\ UNCHANGED <<cliVars, evt, lifeVars, timer, app, pollVars>>

\* ssn_server_handle_event_input: drain, then destroy what has expired.
EventDrain ==
    /\ pc = "event"
    /\ IF "evt" \in flags THEN evt' = FALSE /\ pc' = "expire"
                          ELSE UNCHANGED evt /\ pc' = "end"
    /\ UNCHANGED <<cliVars, lifeVars, timer, app, pollVars>>

\* Mutant: expired clients are disconnected and stay in the table.
ExpireKeeps ==
    /\ pc = "expire"
    /\ hst' = {c \in hst : cli[c].alive # 0}
    /\ conn' = [c \in Conns |-> IF c \in hst /\ cli[c].alive = 0 THEN "closed" ELSE conn[c]]
    /\ cli' = [c \in Conns |-> IF c \in hst /\ cli[c].alive = 0
                               THEN [cli[c] EXCEPT !.linked = FALSE] ELSE cli[c]]
    /\ pc' = "end"
    /\ UNCHANGED <<table, evt, lifeVars, timer, app, pollVars>>

Expire ==
    /\ pc = "expire"
    /\ CliDestroy({c \in hst : cli[c].alive = 0})
    /\ pc' = "end"
    /\ UNCHANGED <<evt, lifeVars, timer, app, pollVars>>

\* poll returns, run goes round while the server is valid.
PollEnd ==
    /\ pc = "end"
    /\ pc' = IF mode = "run" /\ valid THEN "fds" ELSE "unref"
    /\ todo' = {} /\ flags' = {}
    /\ UNCHANGED <<cliVars, evt, lifeVars, timer, app, mode, cur, packet>>

-----------------------------------------------------------------------------
(* ssn_server_input: one packet of the current connection. *)

\* Any packet renews a timer that has not run out.
Input ==
    /\ pc = "input"
    /\ cli' = [cli EXCEPT ![cur].alive = IF KeepaliveTimeout > 0 /\ @ # 0
                                          THEN KeepaliveTimeout ELSE @]
    /\ IF packet = "msg" THEN Handled ELSE pc' = "handle" /\ UNCHANGED pollVars
    /\ UNCHANGED <<conn, table, hst, evt, lifeVars, timer, app>>

\* ssn_server_handle_service_info: from the handshake timeout to the idle
\* timeout; the reply is prepared under the lock and sent after it.
HandleServiceInfo ==
    /\ pc = "handle" /\ packet = "info"
    /\ IF KeepaliveTimeout > 0
       THEN cli' = [cli EXCEPT ![cur].alive = KeepaliveTimeout] /\ UNCHANGED hst
       ELSE cli' = [cli EXCEPT ![cur].alive = 0, ![cur].linked = FALSE] /\ hst' = hst \ {cur}
    /\ pc' = "info_send"
    /\ UNCHANGED <<conn, table, evt, lifeVars, timer, app, pollVars>>

\* Then oncli(true) is called, the first time.
ServiceInfoSend ==
    /\ pc = "info_send"
    /\ SendTo({cur})
    /\ Handled
    /\ UNCHANGED <<cli, table, hst, evt, lifeVars, timer, app>>

\* An RPC is handed to a method, whose answer comes from Respond, or refused;
\* a ping is echoed; subscriptions, which ServerMethods is about, are changed.
HandleRequest ==
    /\ pc = "handle" /\ packet # "info"
    /\ SendTo({cur})
    /\ Handled
    /\ UNCHANGED <<cli, table, hst, evt, lifeVars, timer, app>>

-----------------------------------------------------------------------------
(* Other threads, and callbacks of the poll thread. *)

\* ssn_server_publish, to those clients that have subscribed.
Publish ==
    /\ valid
    /\ SendTo(table)
    /\ UNCHANGED <<cli, table, hst, evt, lifeVars, timer, app, pc, pollVars>>

\* ssn_server_cli_find.
Found(c) == c \in table

\* ssn_server_response.
Respond(c) ==
    /\ valid /\ Found(c)
    /\ SendTo({c})
    /\ UNCHANGED <<cli, table, hst, evt, lifeVars, timer, app, pc, pollVars>>

\* ssn_server_message.
Message(c) ==
    /\ valid /\ Found(c)
    /\ SendTo({c})
    /\ UNCHANGED <<cli, table, hst, evt, lifeVars, timer, app, pc, pollVars>>

\* ssn_server_peer_close.
PeerClose(c) ==
    /\ valid /\ Found(c)
    /\ conn' = [conn EXCEPT ![c] = "closed"]
    /\ UNCHANGED <<cli, table, hst, evt, lifeVars, timer, app, pc, pollVars>>

\* ssn_server_destroy: off the global list (whose lock the timer thread holds
\* for a whole round), invalid, and the creator's reference given back.
DestroyUnlist ==
    /\ app = "idle" /\ timer = "sleep"
    /\ listed' = FALSE
    /\ app' = "unlisted"
    /\ UNCHANGED <<cliVars, evt, valid, refs, freed, timer, pc, pollVars>>

DestroyInvalidate ==
    /\ app = "unlisted"
    /\ valid' = FALSE
    /\ app' = "unref"
    /\ UNCHANGED <<cliVars, evt, listed, refs, freed, timer, pc, pollVars>>

\* Mutant: the reference count is not looked at.
FreeWhenInvalid ==
    IF ~valid
    THEN freed' = TRUE /\ CliDestroy(table)
    ELSE UNCHANGED <<freed, conn, cli, table, hst>>

\* Mutant: only the creator's reference counts as the last one.
FreeWhenCreator ==
    IF refs = 1 /\ ~valid /\ app = "unref"
    THEN freed' = TRUE /\ CliDestroy(table)
    ELSE UNCHANGED <<freed, conn, cli, table, hst>>

\* ssn_server_free_resources, with the last reference to an invalid server.
FreeWhenLast ==
    IF refs = 1 /\ ~valid
    THEN freed' = TRUE /\ CliDestroy(table)
    ELSE UNCHANGED <<freed, conn, cli, table, hst>>

\* ssn_server_unref.
DestroyUnref ==
    /\ app = "unref"
    /\ refs' = refs - 1 /\ FreeWhenLast
    /\ app' = "done"
    /\ UNCHANGED <<evt, valid, listed, timer, pc, pollVars>>

PollUnref ==
    /\ pc = "unref"
    /\ refs' = refs - 1 /\ FreeWhenLast
    /\ pc' = "idle" /\ mode' = "poll"
    /\ UNCHANGED <<evt, valid, listed, timer, app, todo, flags, cur, packet>>

-----------------------------------------------------------------------------
(* ssn_server_timer_handle, for this server. *)

\* Every timer on the list runs down by one period; evtfd is signalled, the lock
\* released, while any of them stands at zero.
TimerRound ==
    LET due == {c \in hst : cli[c].alive <= 1} IN
    /\ timer = "sleep" /\ listed
    /\ cli' = [c \in Conns |-> IF c \in due THEN [cli[c] EXCEPT !.alive = 0]
                               ELSE IF c \in hst THEN [cli[c] EXCEPT !.alive = @ - 1]
                               ELSE cli[c]]
    /\ timer' = IF due = {} THEN "sleep" ELSE "signal"
    /\ UNCHANGED <<conn, table, hst, evt, lifeVars, app, pc, pollVars>>

TimerSignal ==
    /\ timer = "signal"
    /\ evt' = TRUE
    /\ timer' = "sleep"
    /\ UNCHANGED <<cliVars, lifeVars, app, pc, pollVars>>

-----------------------------------------------------------------------------
(* The peers: one may also connect at any time, which Select reports. *)

PeerGoes(c) ==
    /\ conn[c] = "open"
    /\ conn' = [conn EXCEPT ![c] = "eof"]
    /\ UNCHANGED <<cli, table, hst, evt, lifeVars, timer, app, pc, pollVars>>

-----------------------------------------------------------------------------
ClientInput(c) ==
    \/ ClientSkip(c) \/ ClientLost(c)
    \/ \E p \in Packets : ClientPacket(c, p)

AcceptStep ==
    \/ AcceptNone \/ AcceptRefused
    \/ \E c \in Conns : Accept(c)

PollStep ==
    \/ Fds \/ Select \/ SelectTimeout \/ ClientDestroy \/ ClientsDone
    \/ \E c \in Conns : ClientInput(c)
    \/ AcceptStep \/ EventDrain \/ Expire \/ PollEnd \/ PollUnref
    \/ Input \/ HandleServiceInfo \/ ServiceInfoSend \/ HandleRequest

TimerStep == TimerRound \/ TimerSignal

DestroyStep == DestroyInvalidate \/ DestroyUnref

Next ==
    \/ PollBegin \/ PollStep \/ TimerStep \/ DestroyUnlist \/ DestroyStep
    \/ Publish
    \/ \E c \in Conns : Respond(c) \/ Message(c) \/ PeerClose(c) \/ PeerGoes(c)

\* The user polls in a loop, the timer thread runs, and a begun destroy goes on.
\* No peer has to connect or to send: the pselect of ssn_server_run, which has
\* no timeout, may wait for ever unless there is an event or the end of a stream.
Fairness ==
    /\ WF_vars(PollBegin)
    /\ WF_vars(PollStep /\ (pc = "select" => Woken \/ mode = "poll"))
    /\ WF_vars(TimerStep)
    /\ WF_vars(DestroyStep)

Spec == Init /\ [][Next]_vars
FairSpec == Spec /\ Fairness

-----------------------------------------------------------------------------
\* Types; in particular timers stay within their range.
TypeOK ==
    /\ conn \in [Conns -> ConnStates]
    /\ cli \in [Conns -> [linked : BOOLEAN,
                          alive : 0 .. (HandshakeTimeout + KeepaliveTimeout)]]
    /\ table \subseteq Conns /\ hst \subseteq Conns
    /\ evt \in BOOLEAN
    /\ valid \in BOOLEAN /\ listed \in BOOLEAN /\ freed \in BOOLEAN /\ refs \in 0 .. 2
    /\ timer \in {"sleep", "signal"} /\ app \in {"idle", "unlisted", "unref", "done"}
    /\ pc \in {"idle", "fds", "select", "clients", "destroy_cli", "input", "handle",
               "info_send", "accept", "event", "expire", "end", "unref"}
    /\ mode \in {"poll", "run"} /\ todo \subseteq Conns /\ flags \subseteq {"listen", "evt"}
    /\ cur \in Conns \cup {NoConn} /\ packet \in Packets \cup {"none"}

\* The timer list holds the timers of clients in the table and no other: a
\* client that is lost just when its timer runs out leaves no dangling node.
NoDanglingTimer == hst = {c \in table : cli[c].linked}

\* A server is not freed under the poll thread or the timer thread, also when
\* it is destroyed from a callback; nothing of it is left then.
FreedAlone ==
    freed => /\ pc = "idle" /\ timer = "sleep" /\ ~listed
             /\ table = {} /\ hst = {}

\* The poll thread is blocked in the pselect of ssn_server_run on a server that
\* was destroyed: nobody wakes it.
RunBlocked == mode = "run" /\ pc = "select" /\ ~valid

\* With an idle timeout, a client whose connection was closed by a failed send
\* or by ssn_server_peer_close, and is seen by no pselect, leaves the table.
DeadPeerReclaimed ==
    \A c \in Conns :
        (c \in table /\ conn[c] = "closed") ~> (c \notin table \/ RunBlocked)

\* A destroyed server is freed once the poll thread is out of it.
DestroyedIsFreed == ~valid ~> (freed \/ RunBlocked)

=============================================================================
