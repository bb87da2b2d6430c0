------------------------------ MODULE SsnClient ------------------------------
(***************************************************************************)
(* The C++ client (src/framework/SsnClient.cpp): callers, serialised by    *)
(* call_mutex_, and the poll thread.  callJson resets reply_pending_, sends *)
(* the request and waits on a condition variable; the poll thread sets it. *)
(*                                                                         *)
(* The C client below is `inFlight', its table of pending calls: each is   *)
(* called back once, by its answer or with NULL (what RequestPromise says).*)
(* Its callbacks do not say which call they are for.                       *)
(***************************************************************************)
EXTENDS JsonWire

CONSTANTS
    Users,          \* threads that use the client
    NoUser,
    MaxConnects,    \* how often connect is called
    HandlersReenter \* handlers of messages call subscribe or unsubscribe

ASSUME ClientAssumption ==
    NoUser \notin Users /\ MaxConnects \in Nat /\ HandlersReenter \in BOOLEAN

VARIABLES
    callMutex,  \* call_mutex_: who holds it
    connected,  \* connected_
    cnode,      \* node_ as the users see it, and whether that node exists
    poller,     \* the poll thread: "none", "poll", "handler", "exited"
    inFlight,   \* calls pending in the C client
    replyPending, replyData,    \* reply_pending_, and the call reply_data_ answers
    subs,       \* subs_ has a handler for the topic
    at, call,   \* of each user: where, and its call
    nextCall, connects, \* numbers of calls and connects so far
    timedOut,   \* history: a call has timed out on this client
    relinked,   \* history: another connection was made since the last subscribe
    gotOther    \* history: a call returned the answer to another call

client == <<callMutex, connected, cnode, poller, inFlight, replyPending, replyData,
            subs, at, call, nextCall, connects, timedOut, relinked, gotOther>>

ClientInit ==
    /\ callMutex = NoUser /\ connected = FALSE /\ cnode = "none" /\ poller = "none"
    /\ inFlight = {} /\ replyPending = FALSE /\ replyData = 0
    /\ subs = FALSE
    /\ at = [u \in Users |-> "idle"] /\ call = [u \in Users |-> 0]
    /\ nextCall = 1 /\ connects = 0
    /\ timedOut = FALSE /\ relinked = FALSE /\ gotOther = FALSE

Goto(u, l) == at' = [at EXCEPT ![u] = l]
\* The end of an operation: call_mutex_ is released.
Return(u) ==
    /\ callMutex' = NoUser
    /\ Goto(u, "idle")
    /\ call' = [call EXCEPT ![u] = 0]

-----------------------------------------------------------------------------
\* connect: a node is created and started, and the poll thread; a failure of
\* any of them leaves nothing.
Connect(u) ==
    /\ at[u] = "idle" /\ callMutex = NoUser
    /\ ~connected /\ connects < MaxConnects
    /\ connects' = connects + 1
    /\ connected' = TRUE /\ cnode' = "live" /\ poller' = "poll"
    /\ UNCHANGED <<callMutex, inFlight, replyPending, replyData, subs, at, call, nextCall,
                   timedOut, relinked, gotOther, wire>>

\* disconnect unsets connected_ ...
Disconnect(u) ==
    /\ at[u] = "idle" /\ callMutex = NoUser
    /\ connected
    /\ callMutex' = u
    /\ connected' = FALSE
    /\ Goto(u, "join")
    /\ UNCHANGED <<cnode, poller, inFlight, replyPending, replyData, subs, call, nextCall,
                   connects, timedOut, relinked, gotOther, wire>>

\* Mutant: the poll thread is left to itself.
DisconnectHasty(u) ==
    /\ at[u] = "join"
    /\ cnode' = "none"
    /\ replyPending' = IF inFlight # {} THEN FALSE ELSE replyPending
    /\ inFlight' = {}
    /\ CutLink /\ UNCHANGED listening
    /\ Return(u)
    /\ UNCHANGED <<connected, poller, replyData, subs, nextCall, connects, timedOut, relinked, gotOther>>

\* ... joins the poll thread, and stops and destroys the node; what is pending
\* is called back with NULL.  subs_ stays.
DisconnectDestroy(u) ==
    /\ at[u] = "join" /\ poller = "exited"
    /\ poller' = "none" /\ cnode' = "none"
    /\ replyPending' = IF inFlight # {} THEN FALSE ELSE replyPending
    /\ inFlight' = {}
    /\ CutLink /\ UNCHANGED listening
    /\ Return(u)
    /\ UNCHANGED <<connected, replyData, subs, nextCall, connects, timedOut, relinked, gotOther>>

-----------------------------------------------------------------------------
\* What node_ensure_connected needs for an operation that sends: a connection,
\* or a service to make one to.
Reachable == link \/ listening

\* A new connection takes the place of a lost one: ssn_client_connect calls
\* back with NULL for what was pending.
Kept(P) == IF link THEN P ELSE {}

\* Mutant: the answer of the call before may still be there.
CallJsonStale(u) ==
    /\ at[u] = "idle" /\ callMutex = NoUser
    /\ connected /\ nextCall \in Calls
    /\ callMutex' = u
    /\ call' = [call EXCEPT ![u] = nextCall] /\ nextCall' = nextCall + 1
    /\ Goto(u, "send")
    /\ UNCHANGED <<connected, cnode, poller, inFlight, replyPending, replyData, subs,
                   connects, timedOut, relinked, gotOther, wire>>

\* callJson: reply_pending_ is reset ...
CallJson(u) ==
    /\ at[u] = "idle" /\ callMutex = NoUser
    /\ connected /\ nextCall \in Calls
    /\ callMutex' = u
    /\ call' = [call EXCEPT ![u] = nextCall] /\ nextCall' = nextCall + 1
    /\ replyPending' = FALSE
    /\ Goto(u, "send")
    /\ UNCHANGED <<connected, cnode, poller, inFlight, replyData, subs,
                   connects, timedOut, relinked, gotOther, wire>>

\* ... the request is sent, on a connection that ssn_node_rpc_call makes if
\* there is none; or it is lost, on a connection whose end was not noticed yet;
\* or it cannot be sent ...
CallSend(u) ==
    /\ at[u] = "send"
    /\ \/ /\ Reachable
          /\ replyPending' = IF Kept(inFlight) # inFlight THEN FALSE ELSE replyPending
          /\ inFlight' = Kept(inFlight) \cup {call[u]}
          /\ link' = TRUE /\ relinked' = (relinked \/ ~link)
          /\ requests' = requests \cup {call[u]}
          /\ Goto(u, "wait")
          /\ UNCHANGED <<callMutex, call>>
       \/ /\ ~link
          /\ inFlight' = inFlight \cup {call[u]}
          /\ Goto(u, "wait")
          /\ UNCHANGED <<callMutex, call, replyPending, link, relinked, requests>>
       \/ /\ Return(u)
          /\ UNCHANGED <<replyPending, inFlight, link, relinked, requests>>
    /\ UNCHANGED <<connected, cnode, poller, replyData, subs, nextCall, connects, timedOut,
                   gotOther, listening, subscribed, answers>>

\* ... and the wait ends with reply_pending_ set ...
CallReturn(u) ==
    /\ at[u] = "wait" /\ replyPending
    /\ gotOther' = (gotOther \/ replyData # call[u])
    /\ Return(u)
    /\ UNCHANGED <<connected, cnode, poller, inFlight, replyPending, replyData, subs, nextCall,
                   connects, timedOut, relinked, wire>>
\* ... or by its timeout.
CallTimeout(u) ==
    /\ at[u] = "wait" /\ ~replyPending
    /\ timedOut' = TRUE
    /\ Return(u)
    /\ UNCHANGED <<connected, cnode, poller, inFlight, replyPending, replyData, subs, nextCall,
                   connects, relinked, gotOther, wire>>

-----------------------------------------------------------------------------
\* subscribe enters the handler before it subscribes, and takes it out again
\* when that fails: whatever was there before is gone.  A connection whose end
\* was not noticed yet takes the request to nobody.
Subscribe(u) ==
    /\ at[u] = "idle" /\ callMutex = NoUser /\ connected
    /\ \/ /\ Reachable
          /\ replyPending' = IF Kept(inFlight) # inFlight THEN FALSE ELSE replyPending
          /\ inFlight' = Kept(inFlight)
          /\ link' = TRUE /\ subscribed' = TRUE
          /\ subs' = TRUE /\ relinked' = FALSE
       \/ /\ ~link
          /\ subs' = TRUE
          /\ UNCHANGED <<replyPending, inFlight, link, subscribed, relinked>>
       \/ /\ subs' = FALSE
          /\ UNCHANGED <<replyPending, inFlight, link, subscribed, relinked>>
    /\ UNCHANGED <<callMutex, connected, cnode, poller, replyData, at, call, nextCall,
                   connects, timedOut, gotOther, listening, requests, answers>>

\* unsubscribe takes the handler out, whether or not the server can be told.
Unsubscribe(u) ==
    /\ at[u] = "idle" /\ callMutex = NoUser /\ subs
    /\ subs' = FALSE
    /\ \/ link /\ subscribed' = FALSE
       \/ UNCHANGED subscribed
    /\ UNCHANGED <<callMutex, connected, cnode, poller, inFlight, replyPending, replyData, at, call,
                   nextCall, connects, timedOut, relinked, gotOther, listening, link, requests, answers>>

-----------------------------------------------------------------------------
(* The poll thread. *)

\* Mutant: only a failed poll ends the loop.
PollAgainAlways == poller' = "poll"

\* The loop's look at connected_ and node_: the next poll, or the end.
PollAgain == poller' = IF connected THEN "poll" ELSE "exited"

\* ssn_node_poll ends with nothing, or finds the connection lost.
PollIdle ==
    /\ poller = "poll"
    /\ PollAgain
    /\ \/ UNCHANGED wire
       \/ link /\ CutLink /\ UNCHANGED listening
    /\ UNCHANGED <<callMutex, connected, cnode, inFlight, replyPending, replyData, subs, at, call,
                   nextCall, connects, timedOut, relinked, gotOther>>

\* An answer: handleReply copies it and wakes the waiting call.
PollReply ==
    /\ poller = "poll"
    /\ \E c \in answers :
        /\ answers' = answers \ {c}
        /\ IF c \in inFlight
           THEN /\ inFlight' = inFlight \ {c}
                /\ replyPending' = TRUE /\ replyData' = c
           ELSE UNCHANGED <<inFlight, replyPending, replyData>>
    /\ PollAgain
    /\ UNCHANGED <<callMutex, connected, cnode, subs, at, call, nextCall, connects, timedOut,
                   relinked, gotOther, listening, link, subscribed, requests>>

\* A pending call has timed out in the C client: handleReply without a header.
PollTimeout ==
    /\ poller = "poll"
    /\ \E c \in inFlight :
        /\ inFlight' = inFlight \ {c}
    /\ replyPending' = FALSE
    /\ PollAgain
    /\ UNCHANGED <<callMutex, connected, cnode, replyData, subs, at, call, nextCall, connects,
                   timedOut, relinked, gotOther, wire>>

\* A message for which there is a handler: handleMsg copies it and calls it
\* outside subs_mutex_ ...
PollMessage ==
    /\ poller = "poll"
    /\ link /\ subscribed /\ subs
    /\ poller' = "handler"
    /\ UNCHANGED <<callMutex, connected, cnode, inFlight, replyPending, replyData, subs, at, call,
                   nextCall, connects, timedOut, relinked, gotOther, wire>>
\* ... a handler that calls subscribe or unsubscribe needs call_mutex_.
PollHandled ==
    /\ poller = "handler"
    /\ HandlersReenter => callMutex = NoUser
    /\ PollAgain
    /\ UNCHANGED <<callMutex, connected, cnode, inFlight, replyPending, replyData, subs, at, call,
                   nextCall, connects, timedOut, relinked, gotOther, wire>>

-----------------------------------------------------------------------------
UserStep(u) ==
    \/ DisconnectDestroy(u)
    \/ CallSend(u) \/ CallReturn(u) \/ CallTimeout(u)
PollStep == PollIdle \/ PollReply \/ PollTimeout \/ PollMessage \/ PollHandled
ClientNext ==
    \/ PollStep
    \/ \E u \in Users :
        UserStep(u) \/ Connect(u) \/ Disconnect(u) \/ CallJson(u) \/ Subscribe(u) \/ Unsubscribe(u)

-----------------------------------------------------------------------------
ClientTypeOK ==
    /\ callMutex \in Users \cup {NoUser}
    /\ cnode \in {"none", "live"} /\ poller \in {"none", "poll", "handler", "exited"}
    /\ inFlight \subseteq Calls /\ replyData \in Calls \cup {0}

\* The node is there for whoever uses it: the poll thread inside
\* ssn_node_poll, and a user between callJson's look at node_ and its return.
ClientNodeAlive ==
    /\ poller \in {"poll", "handler"} => cnode = "live"
    /\ \A u \in Users : at[u] \in {"send", "wait"} => cnode = "live"

\* callJson returns the answer to its own request, unless a call has timed out
\* on this client before: then a late answer may be taken for the next one's.
OwnReply == gotOther => timedOut

\* An operation that has the client's mutex gives it back, so that nobody waits
\* for ever: a call times out, and disconnect does not wait for a poll thread
\* that does not end.
OperationsEnd == callMutex # NoUser ~> callMutex = NoUser

=============================================================================
