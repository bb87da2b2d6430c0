------------------------------ MODULE Dispatch ------------------------------
(***************************************************************************)
(* What a server does with the frames of a connection: the poll thread     *)
(* takes them one by one, changes subscriptions (PubSub), and looks up and *)
(* runs methods (ServerMethods).  Methods run outside server->lock, while  *)
(* other threads add and remove methods and publish.                       *)
(***************************************************************************)
EXTENDS ServerMethods, PubSub

CONSTANTS
    MaxCalls,   \* how many calls the client sends in all
    MaxOps      \* how many operations of all kinds happen in all

ASSUME DispatchAssumption == MaxCalls \in Nat /\ MaxOps \in Nat

VARIABLES
    calls,      \* calls sent so far
    call,       \* the poll thread's copy of a method: Nothing between methods
    ran         \* the callback that has just run, and its argument

vars == <<methods, pubsub, calls, call, ran>>

Init ==
    /\ MethodsInit /\ PubSubInit
    /\ calls = 0 /\ call = Nothing /\ ran = Nothing

-----------------------------------------------------------------------------
\* A call on its way; what becomes of its answer is in ClientRequests.
ClientCall(u) ==
    /\ up /\ calls < MaxCalls
    /\ calls' = calls + 1
    /\ toServer' = Append(toServer, [type |-> "rpc", url |-> u])
    /\ UNCHANGED <<methods, up, toClient, subscribed, handlers, step, todo, got, count,
                   wanted, unlike, call, ran>>

\* ssn_server_handle_rpc_request up to the unlock: callback and argument are
\* copied; without a method the answer is NOT_FOUND.
HandleRpcRequest ==
    /\ up /\ call = Nothing
    /\ toServer # <<>> /\ Head(toServer).type = "rpc"
    /\ LET i == CmdMatch(Head(toServer).url) IN
       /\ i # Endless
       /\ call' = IF i = NULL THEN Nothing
                  ELSE [onrpc |-> cell[i].fn, arg |-> cell[i].arg, cmd |-> i]
    /\ toServer' = Tail(toServer)
    /\ ran' = Nothing
    /\ UNCHANGED <<methods, up, toClient, subscribed, handlers, step, todo, got, count,
                   wanted, unlike, calls>>

\* Mutant: the argument is read from the method after the unlock.
CallArgLate(c) == cell[c.cmd].arg

CallArg(c) == c.arg

\* The callback.
RunMethod ==
    /\ call # Nothing
    /\ ran' = [onrpc |-> call.onrpc, arg |-> CallArg(call)]
    /\ call' = Nothing
    /\ UNCHANGED <<methods, pubsub, calls>>

-----------------------------------------------------------------------------
Total == adds + calls + count.requests + count.publishes + count.links
Within == Total' <= MaxOps

Others == <<pubsub, calls, call, ran>>

Next ==
    \/ \E u \in MethodUrls : AddMethod(u) /\ UNCHANGED Others /\ Within
    \/ \E u \in MethodUrls : RemoveMethod(u) /\ UNCHANGED Others
    \/ ClientNext /\ UNCHANGED <<methods, calls, call, ran>> /\ Within
    \/ \E u \in CallUrls : ClientCall(u) /\ Within
    \/ ServerInput /\ call = Nothing /\ UNCHANGED <<methods, calls, call, ran>>
    \/ HandleRpcRequest
    \/ RunMethod

Spec == Init /\ [][Next]_vars

-----------------------------------------------------------------------------
\* A method's callback gets the argument it was registered with
\* (ssn_server_handle_rpc_request), even when the method is removed and its
\* memory used again before it runs.
OwnArg == ran # Nothing => ran.onrpc = ran.arg

=============================================================================
