-------------------------------- MODULE Node --------------------------------
(***************************************************************************)
(* A node (src/node/): a server and, on demand, one client behind one      *)
(* mutex, used by several threads.  ssn_node_start and ssn_node_stop make  *)
(* and take away the server; calls to a peer create the client, connect it *)
(* outside the mutex and use it; ssn_node_poll polls both outside it.      *)
(*                                                                         *)
(* A section under node->lock is one step.  The exception is               *)
(* ssn_node_stop, which closes the client inside it: the last reference    *)
(* runs the callbacks of the client's pending calls with the mutex held.   *)
(* A client object is a number; one that was freed may be used again for a *)
(* client created later.                                                   *)
(***************************************************************************)
EXTENDS Naturals, FiniteSets

CONSTANTS
    Threads,        \* users of the node
    Peers,          \* peer addresses
    NPeer, NThread, \* no peer, no thread
    MaxClients      \* memory for so many client objects; more cannot be created

ASSUME NodeAssumption ==
    /\ NPeer \notin Peers /\ NThread \notin Threads
    /\ MaxClients \in Nat \ {0}
    /\ IsFiniteSet(Threads)

Clients == 1 .. MaxClients
NoClient == 0

VARIABLES
    lock,       \* who holds node->lock between two steps
    state,      \* node->state
    valid,      \* node->valid
    freed,      \* the node is freed
    server,     \* node->server is not NULL
    client,     \* node->client
    peer,       \* node->peer_address
    cli,        \* the client objects
    pc, arg, my,    \* of each thread: where, for which peer, its client pointer
    hist        \* history: what the properties make exceptions for

node == <<state, valid, freed, server, client, peer>>
vars == <<lock, node, cli, pc, arg, my, hist>>

\* used: allocated; valid: not closed; refs: ref_count; conn: the peer its
\* connection leads to; pend: it has pending calls.
NoCli == [used |-> FALSE, valid |-> FALSE, refs |-> 0, conn |-> NPeer, pend |-> FALSE]
NewCli == [used |-> TRUE, valid |-> TRUE, refs |-> 1, conn |-> NPeer, pend |-> FALSE]

\* After ssn_node_create.
Init ==
    /\ lock = NThread
    /\ state = "stopped" /\ valid = TRUE /\ freed = FALSE
    /\ server = FALSE /\ client = NoClient /\ peer = NPeer
    /\ cli = [k \in Clients |-> NoCli]
    /\ pc = [t \in Threads |-> "idle"]
    /\ arg = [t \in Threads |-> NPeer] /\ my = [t \in Threads |-> NoClient]
    /\ hist = [crossed |-> FALSE, wrong |-> FALSE, unstarted |-> FALSE, dangling |-> FALSE]

Goto(t, l) == pc' = [pc EXCEPT ![t] = l]
Return(t) ==
    /\ Goto(t, "idle")
    /\ arg' = [arg EXCEPT ![t] = NPeer] /\ my' = [my EXCEPT ![t] = NoClient]

\* A call may begin while the node exists; ssn_node_destroy is called when no
\* other thread is inside the node.
Begins(t) == pc[t] = "idle" /\ valid /\ lock = NThread

-----------------------------------------------------------------------------
(* The client object: src/ssn_client.c as the node uses it. *)

\* ssn_client_unref: what it leaves of client c, and in C.
Left(c) == IF c.refs = 1 /\ ~c.valid THEN NoCli ELSE [c EXCEPT !.refs = @ - 1]
Unref(C, k) == [C EXCEPT ![k] = Left(C[k])]
\* Whether this unref frees the client.
IsLast(C, k) == C[k].refs = 1 /\ ~C[k].valid
Invalid(C, k) == [C EXCEPT ![k].valid = FALSE]

\* ssn_client_is_connect.
IsConnect(C, k) == C[k].valid /\ C[k].conn # NPeer

\* A thread uses its client pointer.
Touch(t) == hist' = [hist EXCEPT !.dangling = @ \/ ~cli[my[t]].used]

-----------------------------------------------------------------------------
(* Life cycle. *)

\* ssn_node_start; a server that cannot be created or started is the state
\* ERROR.
Start(t) ==
    /\ Begins(t)
    /\ state = "stopped"
    /\ \/ state' = "active" /\ server' = TRUE
       \/ state' = "error" /\ UNCHANGED server
    /\ UNCHANGED <<lock, valid, freed, client, peer, cli, pc, arg, my, hist>>

\* Mutant: the client is left to the next start.
StopClosesNot(t) ==
    /\ server' = FALSE /\ state' = "stopped"
    /\ UNCHANGED <<client, cli, lock>>
    /\ Goto(t, "stopped")

\* ssn_node_stop up to ssn_client_close: the server is destroyed, the client
\* closed.  When nobody else has a reference its callbacks run, with the mutex
\* held.  peer_address stays.
StopLocked(t) ==
    /\ server' = FALSE
    /\ client' = NoClient
    /\ IF client = NoClient
       THEN UNCHANGED <<cli, lock>> /\ state' = "stopped" /\ Goto(t, "stopped")
       ELSE LET C == Invalid(cli, client) IN
            /\ cli' = Unref(C, client)
            /\ IF IsLast(C, client) /\ cli[client].pend
               THEN lock' = t /\ Goto(t, "callbacks") /\ UNCHANGED state
               ELSE state' = "stopped" /\ Goto(t, "stopped") /\ UNCHANGED lock

Stop(t) ==
    /\ Begins(t)
    /\ state # "stopped"
    /\ StopLocked(t)
    /\ UNCHANGED <<valid, freed, peer, arg, my, hist>>

\* The callbacks of the calls that were pending return.  One that called the
\* node would wait for a mutex its own thread holds, and never would.
StopCallbacks(t) ==
    /\ pc[t] = "callbacks"
    /\ lock' = NThread /\ state' = "stopped"
    /\ Goto(t, "stopped")
    /\ UNCHANGED <<valid, freed, server, client, peer, cli, arg, my, hist>>

\* Back in the caller: the user or, with valid already unset, ssn_node_destroy.
StopReturns(t) ==
    /\ pc[t] = "stopped"
    /\ Goto(t, IF valid THEN "idle" ELSE "free")
    /\ UNCHANGED <<lock, node, cli, arg, my, hist>>

\* ssn_node_destroy: valid is unset once, and an active node is stopped with
\* the mutex released.
Destroy(t) ==
    /\ Begins(t)
    /\ \A u \in Threads \ {t} : pc[u] = "idle"
    /\ valid' = FALSE
    /\ Goto(t, IF state = "active" THEN "stop" ELSE "free")
    /\ UNCHANGED <<lock, state, freed, server, client, peer, cli, arg, my, hist>>
DestroyStop(t) ==
    /\ pc[t] = "stop"
    /\ StopLocked(t)
    /\ UNCHANGED <<valid, freed, peer, arg, my, hist>>
DestroyFree(t) ==
    /\ pc[t] = "free"
    /\ freed' = TRUE
    /\ Goto(t, "idle")
    /\ UNCHANGED <<lock, state, valid, server, client, peer, cli, arg, my, hist>>

-----------------------------------------------------------------------------
(* Calls to a peer: ssn_node_send_to_peer, ssn_node_rpc_call and              *)
(* ssn_node_subscribe.                                                        *)

\* ssn_node_get_client: the client the node has, or a new one.
GotClient(k, C) ==
    IF client # NoClient THEN k = client /\ C = cli
    ELSE /\ ~cli[k].used /\ \A j \in 1 .. (k - 1) : cli[j].used
         /\ C = [cli EXCEPT ![k] = NewCli]

\* Mutant: any connection will do.
RefusedNever(p, C, k) == FALSE

\* connect_to_peer refuses a client that is connected to another peer, as far
\* as peer_address tells.
Refused(p, C, k) == IsConnect(C, k) /\ peer # NPeer /\ peer # p

\* Mutant: the pointer is used without a reference.
ReferencedNot(C, k) == C

\* ssn_client_ref.
Referenced(C, k) == [C EXCEPT ![k].refs = @ + 1]

\* The section under node->lock: connect_to_peer.
ConnectToPeer(t, p) ==
    /\ Begins(t)
    /\ \E k \in Clients :
        LET C == IF client # NoClient THEN cli ELSE [cli EXCEPT ![k] = NewCli] IN
        /\ GotClient(k, C)
        /\ client' = k
        /\ IF Refused(p, C, k)
           THEN cli' = C /\ UNCHANGED <<pc, arg, my>>
           ELSE /\ cli' = Referenced(C, k)
                /\ Goto(t, "ensure")
                /\ arg' = [arg EXCEPT ![t] = p] /\ my' = [my EXCEPT ![t] = k]
    /\ hist' = [hist EXCEPT
            !.unstarted = @ \/ state # "active",
            !.crossed = @ \/ \E u \in Threads \ {t} : arg[u] \notin {p, NPeer}]
    /\ UNCHANGED <<lock, state, valid, freed, server, peer>>

\* node_ensure_connected, outside the mutex.
EnsureConnected(t) ==
    /\ pc[t] = "ensure"
    /\ Goto(t, IF IsConnect(cli, my[t]) THEN "send" ELSE "connect")
    /\ Touch(t)
    /\ UNCHANGED <<lock, node, cli, arg, my>>

\* ssn_client_connect fails on a closed client; otherwise the connection there
\* was is dropped, and what was pending is called back.
Connect(t) ==
    /\ pc[t] = "connect"
    /\ IF cli[my[t]].valid
       THEN /\ cli' = [cli EXCEPT ![my[t]].conn = NPeer, ![my[t]].pend = FALSE]
            /\ Goto(t, "handshake")
       ELSE UNCHANGED cli /\ Goto(t, "unref")
    /\ Touch(t)
    /\ UNCHANGED <<lock, node, arg, my>>

\* The new connection takes the place of one that another thread may have
\* made meanwhile, or could not be made.
Handshake(t) ==
    /\ pc[t] = "handshake"
    /\ \/ cli' = [cli EXCEPT ![my[t]].conn = arg[t]] /\ Goto(t, "setpeer")
       \/ UNCHANGED cli /\ Goto(t, "unref")
    /\ Touch(t)
    /\ UNCHANGED <<lock, node, arg, my>>

SetPeer(t) ==
    /\ pc[t] = "setpeer" /\ lock = NThread
    /\ peer' = arg[t]
    /\ Goto(t, "send")
    /\ UNCHANGED <<lock, state, valid, freed, server, client, cli, arg, my, hist>>

\* What is sent at last, over whatever connection the client has by then;
\* leaves says whether a request stays pending.
Send(t, leaves) ==
    /\ pc[t] = "send"
    /\ \/ /\ IsConnect(cli, my[t])
          /\ cli' = [cli EXCEPT ![my[t]].pend = @ \/ leaves]
          /\ Goto(t, "activity")
       \/ UNCHANGED cli /\ Goto(t, "unref")
    /\ hist' = [hist EXCEPT
            !.dangling = @ \/ ~cli[my[t]].used,
            !.wrong = @ \/ (IsConnect(cli, my[t]) /\ cli[my[t]].conn # arg[t])]
    /\ UNCHANGED <<lock, node, arg, my>>

\* ssn_node_send_to_peer: ssn_client_message.
SendToPeer(t) == Send(t, FALSE)
\* ssn_node_subscribe: a request without a callback leaves nothing pending.
Subscribe(t) == Send(t, FALSE)
\* ssn_node_rpc_call: ssn_client_call.
RpcCall(t) == Send(t, TRUE)

\* last_activity is set under the mutex.
Activity(t) ==
    /\ pc[t] = "activity" /\ lock = NThread
    /\ Goto(t, "unref")
    /\ UNCHANGED <<lock, node, cli, arg, my, hist>>

\* ssn_client_unref ends the call, and ssn_node_poll.
UnrefMine(t) ==
    /\ pc[t] = "unref"
    /\ cli' = Unref(cli, my[t])
    /\ Touch(t)
    /\ Return(t)
    /\ UNCHANGED <<lock, node>>

-----------------------------------------------------------------------------
(* ssn_node_poll. *)

\* Both pointers are copied under the mutex, the client with a reference.
PollSnapshot(t) ==
    /\ Begins(t)
    /\ server \/ client # NoClient
    /\ my' = [my EXCEPT ![t] = client]
    /\ cli' = IF client # NoClient THEN Referenced(cli, client) ELSE cli
    /\ Goto(t, "poll")
    /\ UNCHANGED <<lock, node, arg, hist>>

\* ssn_server_poll and ssn_client_poll: nothing, a callback of a method, a
\* subscription, an answer or a timeout, or the end of the connection.
Poll(t) ==
    /\ pc[t] = "poll"
    /\ \/ UNCHANGED cli
       \/ /\ my[t] # NoClient /\ cli[my[t]].valid
          /\ \/ cli' = [cli EXCEPT ![my[t]].conn = NPeer]
             \/ cli' = [cli EXCEPT ![my[t]].pend = FALSE]
    /\ \/ Goto(t, "callback")
       \/ Goto(t, IF my[t] # NoClient THEN "unref" ELSE "idle")
    /\ IF my[t] # NoClient THEN Touch(t) ELSE UNCHANGED hist
    /\ UNCHANGED <<lock, node, arg, my>>

\* The callback calls an API of the node that is one section under the mutex
\* and leaves server, client and connection as they are.
InCallback(t) ==
    /\ pc[t] = "callback" /\ lock = NThread
    /\ Goto(t, "poll")
    /\ UNCHANGED <<lock, node, cli, arg, my, hist>>

\* ssn_node_publish: to the subscribers of the node's server.
Publish(t) == server /\ InCallback(t)
\* ssn_node_unsubscribe: a silent request of the node's client.
Unsubscribe(t) == client # NoClient /\ InCallback(t)
\* ssn_node_add_rpc_method and ssn_node_remove_rpc_method: see ServerMethods.
AddRpcMethod(t) == server /\ InCallback(t)
RemoveRpcMethod(t) == server /\ InCallback(t)
\* Each of them without the server or the client it needs.
NotAvailable(t) == (~server \/ client = NoClient) /\ InCallback(t)

-----------------------------------------------------------------------------
Inside(t) ==
    \/ StopCallbacks(t) \/ StopReturns(t) \/ DestroyStop(t) \/ DestroyFree(t)
    \/ EnsureConnected(t) \/ Connect(t) \/ Handshake(t) \/ SetPeer(t) \/ Activity(t)
    \/ SendToPeer(t) \/ Subscribe(t) \/ RpcCall(t)
    \/ UnrefMine(t) \/ Poll(t)
    \/ Publish(t) \/ Unsubscribe(t) \/ AddRpcMethod(t) \/ RemoveRpcMethod(t) \/ NotAvailable(t)
Next ==
    \E t \in Threads :
        \/ Inside(t) \/ Start(t) \/ Stop(t) \/ Destroy(t)
        \/ \E p \in Peers : ConnectToPeer(t, p)
        \/ PollSnapshot(t)

Spec == Init /\ [][Next]_vars

-----------------------------------------------------------------------------
TypeOK ==
    /\ lock \in Threads \cup {NThread}
    /\ state \in {"stopped", "active", "error"}
    /\ valid \in BOOLEAN /\ freed \in BOOLEAN /\ server \in BOOLEAN
    /\ client \in Clients \cup {NoClient} /\ peer \in Peers \cup {NPeer}
    /\ cli \in [Clients -> [used : BOOLEAN, valid : BOOLEAN, refs : 0 .. (Cardinality(Threads) + 1),
                            conn : Peers \cup {NPeer}, pend : BOOLEAN]]

\* No thread uses a client that was freed, though ssn_node_stop may close it
\* at any moment of a call to a peer or of a poll: every pointer that leaves
\* the mutex has a reference of its own.
ClientProtected == ~hist.dangling

\* A message for a peer goes out on a connection to that peer (the check in
\* connect_to_peer), unless calls for different peers overlap.
RightPeer == hist.wrong => hist.crossed

\* When the node is destroyed and everybody has left, no client is left behind,
\* unless a call to a peer was made on a node that was not active: it creates a
\* client that ssn_node_destroy does not close.
NoClientLeak ==
    freed /\ (\A t \in Threads : pc[t] = "idle") =>
        hist.unstarted \/ \A k \in Clients : ~cli[k].used

=============================================================================
