--------------------------- MODULE FrameworkProofs ---------------------------
(***************************************************************************)
(* Proofs about a service and a client of the framework, for any number of *)
(* calls, users, signals, runs and connects, and for handlers of messages  *)
(* that call back into the client.                                         *)
(*                                                                         *)
(* RunInv says what Run has set up at each of its places.  UserInv is the  *)
(* discipline of call_mutex_ and of the poll thread.  ReplyInv is about a  *)
(* client on which no call has timed out: what is pending in the C client  *)
(* is the call of the one user who waits.                                  *)
(***************************************************************************)
EXTENDS Framework, TLAPS

Runs == {"out", "initialize", "start", "wait", "stop", "join", "remove", "destruct",
         "restore", "fail", "restored", "failed"}

RunInv ==
    /\ run \in Runs
    /\ svc \in {"none", "poll", "reply", "ended"}
    /\ svc # "none" => run \in {"wait", "stop", "join"}
    /\ run \in {"start", "wait", "stop", "join", "remove", "destruct"} => node = "live"
    /\ run # "out" => handler
    /\ pending => masked
    /\ masked => run \notin {"out", "restored", "failed"}
    /\ ~killed

Places == {"idle", "join", "send", "wait"}

UserInv ==
    /\ at \in [Users -> Places]
    /\ callMutex \in Users \cup {NoUser}
    /\ \A u \in Users : at[u] # "idle" <=> callMutex = u
    /\ \A u \in Users : at[u] \in {"send", "wait"} => connected
    /\ \A u \in Users : at[u] = "join" => ~connected /\ poller # "none"
    /\ connected \in BOOLEAN
    /\ connected => poller \in {"poll", "handler"}
    /\ poller # "none" => cnode = "live"

Expected ==
    /\ \A u \in Users : at[u] = "send" => ~replyPending
    /\ \A u \in Users : at[u] = "wait" /\ replyPending => replyData = call[u]
    /\ \A c \in inFlight : ~replyPending /\ \E u \in Users : at[u] = "wait" /\ call[u] = c

ReplyInv ==
    /\ call \in [Users -> Nat]
    /\ OwnReply
    /\ ~timedOut => Expected

-----------------------------------------------------------------------------
(* The service. *)

\* Nothing is set up before the first Run.
LEMMA InitRun == Init => RunInv
  BY DEF Init, ServiceInit, RunInv, Runs

\* The thread of Run: it has the handler installed wherever the signal may be
\* delivered, and no svc thread is left when it takes the node away.
LEMMA RunSteps == RunInv /\ (RunEnter \/ RunStep) => RunInv'
  <1> USE DEF RunInv, Runs
  <1>1. RunInv /\ RunEnter => RunInv'
    BY DEF RunEnter
  <1>2. RunInv /\ (RunInitialize \/ RunStart) => RunInv'
    BY DEF RunInitialize, RunStart, signals
  <1>3. RunInv /\ (RunWait \/ RunStop \/ RunJoin) => RunInv'
    BY DEF RunWait, RunStop, RunJoin, signals
  <1>4. RunInv /\ (RunRemove \/ RunDestruct) => RunInv'
    BY DEF RunRemove, RunDestruct, signals
  <1>5. RunInv /\ RunRestore => RunInv'
    <2>1. RunInv /\ RunRestore => ~killed' /\ ~masked' /\ ~pending'
      BY Zenon DEF RunRestore
    <2> QED
      BY <2>1 DEF RunRestore
  <1>6. RunInv /\ (RunLeave \/ RunFail) => RunInv'
    BY DEF RunLeave, RunFail
  <1> QED
    BY <1>1, <1>2, <1>3, <1>4, <1>5, <1>6 DEF RunStep

\* The svc thread, the senders of signals and the users of the table.
LEMMA SvcSteps ==
  RunInv /\ (SvcStep \/ SendSignal \/ RequestStop \/ \E u \in Urls : ChangeMethods(u)) => RunInv'
  <1> USE DEF RunInv, Runs
  <1>0. RunInv /\ SvcSignal => RunInv'
    <2>1. RunInv /\ SvcSignal => ~killed' /\ ~pending'
      BY Zenon DEF SvcSignal
    <2> QED
      BY <2>1 DEF SvcSignal, SvcAgain
  <1>1. RunInv /\ (SvcPollIdle \/ SvcRequest \/ SvcReply) => RunInv'
    BY DEF SvcPollIdle, SvcRequest, SvcReply, SvcAgain, signals
  <1>2. RunInv /\ (SendSignal \/ RequestStop) => RunInv'
    BY DEF SendSignal, RequestStop
  <1>3. RunInv /\ (\E u \in Urls : ChangeMethods(u)) => RunInv'
    BY DEF ChangeMethods, signals
  <1> QED
    BY <1>0, <1>1, <1>2, <1>3 DEF SvcStep

\* Every step of the system keeps the invariant of Run.
LEMMA StepRun == RunInv /\ [Next]_vars => RunInv'
  <1>1. RunInv /\ UNCHANGED service => RunInv'
    BY DEF RunInv, service
  <1> QED
    BY <1>1, RunSteps, SvcSteps DEF Next, ServiceNext, vars

\* Run keeps its invariant.
LEMMA RunInvariant == Spec => []RunInv
  BY InitRun, StepRun, PTL DEF Spec

\* Survives for any number of runs and signals: at every step at which a signal
\* may be delivered the handler of installSignalHandlers is there.
THEOREM SignalsSurvived == Spec => []Survives
<1>1. RunInv => Survives
  BY DEF RunInv, Survives
<1> QED
  BY <1>1, RunInvariant, PTL

-----------------------------------------------------------------------------
(* The client: its users and its poll thread. *)

\* No user has begun anything.
LEMMA InitUser == Init => UserInv
  BY ClientAssumption DEF Init, ClientInit, UserInv, Places

\* The operations of a user: whoever is inside one holds call_mutex_, so that
\* only disconnect, once the poll thread has ended, destroys the node.
LEMMA UserSteps ==
  ASSUME UserInv, NEW u \in Users,
         UserStep(u) \/ Connect(u) \/ Disconnect(u) \/ CallJson(u) \/ Subscribe(u) \/ Unsubscribe(u)
  PROVE  UserInv'
  <1> USE ClientAssumption DEF UserInv, Places, Goto, Return
  <1>1. CASE Connect(u) \/ Disconnect(u)
    BY <1>1 DEF Connect, Disconnect
  <1>2. CASE DisconnectDestroy(u)
    BY <1>2 DEF DisconnectDestroy
  <1>3. CASE CallJson(u)
    BY <1>3 DEF CallJson
  <1>4. CASE CallSend(u)
    BY <1>4 DEF CallSend
  <1>5. CASE CallReturn(u) \/ CallTimeout(u)
    BY <1>5 DEF CallReturn, CallTimeout
  <1>6. CASE Subscribe(u) \/ Unsubscribe(u)
    <2>1. UNCHANGED <<at, callMutex, connected, cnode, poller>>
      BY <1>6, Zenon DEF Subscribe, Unsubscribe
    <2> QED
      BY <2>1
  <1> QED
    BY <1>1, <1>2, <1>3, <1>4, <1>5, <1>6 DEF UserStep

\* The poll thread ends only when connected_ is unset.
LEMMA PollSteps == UserInv /\ PollStep => UserInv'
  BY DEF UserInv, Places, PollStep, PollIdle, PollReply, PollTimeout, PollMessage, PollHandled,
         PollAgain

\* Every step of the system keeps the invariant of users and poll thread.
LEMMA StepUser == UserInv /\ [Next]_vars => UserInv'
  <1>1. UserInv /\ UNCHANGED client => UserInv'
    BY DEF UserInv, client
  <1> QED
    BY <1>1, UserSteps, PollSteps DEF Next, ClientNext, vars

\* NodeAlive for any number of users and connects: neither the svc thread nor
\* the poll thread nor a call in progress has its node destroyed under it.
THEOREM NodeOutlivesUsers == Spec => []NodeAlive
<1>1. RunInv /\ UserInv => NodeAlive
  BY DEF RunInv, UserInv, Places, NodeAlive, SvcNodeAlive, ClientNodeAlive
<1> QED
  BY <1>1, RunInvariant, InitUser, StepUser, PTL DEF Spec

-----------------------------------------------------------------------------
(* The answers. *)

\* No call has been made.
LEMMA InitReply == Init => ReplyInv
  <1>1. Init => ~gotOther /\ ~replyPending
    BY Zenon DEF Init, ClientInit
  <1> QED
    BY <1>1 DEF Init, ClientInit, ReplyInv, OwnReply, Expected

\* Where no user begins or ends to wait, nothing new is pending and no answer
\* comes, what is expected stays.
LEMMA ReplyKept ==
  ASSUME ReplyInv, call' = call, inFlight' \subseteq inFlight, replyPending' => replyPending,
         gotOther' => gotOther, timedOut => timedOut', replyData' = replyData,
         \A v \in Users : \A l \in {"send", "wait"} : at'[v] = l <=> at[v] = l
  PROVE  ReplyInv'
  BY DEF ReplyInv, OwnReply, Expected

\* The operations of a user.
LEMMA ReplySteps ==
  ASSUME UserInv, ReplyInv, NEW u \in Users,
         UserStep(u) \/ Connect(u) \/ Disconnect(u) \/ CallJson(u) \/ Subscribe(u) \/ Unsubscribe(u)
  PROVE  ReplyInv'
  <1> USE WireAssumption, ClientAssumption DEF UserInv, Places, Goto, Return
  <1>1. CASE Connect(u) \/ Disconnect(u)
    BY <1>1, ReplyKept DEF Connect, Disconnect
  <1>2. CASE DisconnectDestroy(u)
    <2>1. replyPending' => replyPending
      BY <1>2, Zenon DEF DisconnectDestroy
    <2> QED
      BY <1>2, <2>1 DEF DisconnectDestroy, ReplyInv, OwnReply, Expected
  <1>3. CASE CallJson(u)
    <2>1. ~replyPending' /\ UNCHANGED <<gotOther, timedOut>>
      BY <1>3, Zenon DEF CallJson
    <2> QED
      BY <1>3, <2>1 DEF CallJson, ReplyInv, OwnReply, Expected
  <1>4. CASE CallSend(u)
    <2>0. UNCHANGED <<gotOther, timedOut>>
      BY <1>4 DEF CallSend
    <2>1. replyPending' => replyPending
      BY <1>4, Zenon DEF CallSend
    <2>2. \A v \in Users : at[v] \in {"send", "wait"} => v = u
      BY <1>4 DEF CallSend
    <2>3. ~timedOut => inFlight = {} /\ ~replyPending
      BY <1>4, <2>2 DEF CallSend, ReplyInv, Expected
    <2>4. inFlight' \subseteq inFlight \cup {call[u]}
      BY <1>4 DEF CallSend, Kept
    <2>5. CASE at' = [at EXCEPT ![u] = "wait"] /\ call' = call
      BY <2>0, <2>1, <2>2, <2>3, <2>4, <2>5 DEF ReplyInv, OwnReply, Expected
    <2>6. CASE Return(u) /\ inFlight' = inFlight
      BY <2>0, <2>1, <2>2, <2>3, <2>6 DEF ReplyInv, OwnReply, Expected
    <2> QED
      BY <1>4, <2>5, <2>6 DEF CallSend
  <1>5. CASE CallReturn(u)
    <2>1. ~timedOut => (gotOther' => gotOther)
      BY <1>5, Zenon DEF CallReturn, ReplyInv, Expected
    <2>2. ~timedOut => inFlight = {}
      BY <1>5 DEF CallReturn, ReplyInv, Expected
    <2>3. UNCHANGED <<timedOut, replyPending, inFlight>>
      BY <1>5 DEF CallReturn
    <2> QED
      BY <1>5, <2>1, <2>2, <2>3 DEF CallReturn, ReplyInv, OwnReply, Expected
  <1>6. CASE CallTimeout(u)
    BY <1>6 DEF CallTimeout, ReplyInv, OwnReply
  <1>7. CASE Subscribe(u) \/ Unsubscribe(u)
    <2>1. replyPending' => replyPending
      BY <1>7, Zenon DEF Subscribe, Unsubscribe
    <2>2. UNCHANGED <<call, at, gotOther, timedOut, replyData>>
      BY <1>7, Zenon DEF Subscribe, Unsubscribe
    <2>3. inFlight' \subseteq inFlight
      BY <1>7 DEF Subscribe, Unsubscribe, Kept
    <2> QED
      BY <2>1, <2>2, <2>3, ReplyKept
  <1> QED
    BY <1>1, <1>2, <1>3, <1>4, <1>5, <1>6, <1>7 DEF UserStep

\* The poll thread: an answer that is taken is that of the pending call.
LEMMA ReplyPolls == UserInv /\ ReplyInv /\ PollStep => ReplyInv'
  <1> SUFFICES ASSUME UserInv, ReplyInv, PollStep PROVE ReplyInv'
    OBVIOUS
  <1>0. UNCHANGED <<call, at, gotOther, timedOut>>
    BY DEF PollStep, PollIdle, PollReply, PollTimeout, PollMessage, PollHandled
  <1>1. CASE PollIdle \/ PollTimeout \/ PollMessage \/ PollHandled
    BY <1>0, <1>1, ReplyKept DEF PollIdle, PollTimeout, PollMessage, PollHandled
  <1>2. CASE PollReply
    <2>1. PICK c \in answers :
            IF c \in inFlight
            THEN inFlight' = inFlight \ {c} /\ replyPending' = TRUE /\ replyData' = c
            ELSE UNCHANGED <<inFlight, replyPending, replyData>>
      BY <1>2 DEF PollReply
    <2>2. CASE c \notin inFlight
      BY <1>0, <2>1, <2>2, ReplyKept
    <2>3. CASE c \in inFlight /\ timedOut
      BY <1>0, <2>3 DEF ReplyInv, OwnReply
    <2>4. CASE c \in inFlight /\ ~timedOut
      <3>1. \A v \in Users : at[v] \in {"send", "wait"} => at[v] = "wait" /\ call[v] = c
        BY <2>4 DEF ReplyInv, Expected, UserInv
      <3>2. inFlight' = {}
        BY <2>1, <2>4, <3>1 DEF ReplyInv, Expected
      <3> QED
        BY <1>0, <2>1, <2>4, <3>1, <3>2 DEF ReplyInv, OwnReply, Expected
    <2> QED
      BY <2>2, <2>3, <2>4
  <1> QED
    BY <1>1, <1>2 DEF PollStep

\* Every step of the system keeps the invariant of the answers.
LEMMA StepReply == UserInv /\ ReplyInv /\ [Next]_vars => ReplyInv'
  <1>1. ReplyInv /\ UNCHANGED client => ReplyInv'
    BY DEF ReplyInv, OwnReply, Expected, client
  <1> QED
    BY <1>1, ReplySteps, ReplyPolls DEF Next, ClientNext, vars

\* OwnReply for any number of users and calls: as long as no call has timed out
\* on the client, callJson returns the answer to its own request.
THEOREM RepliesAreOwn == Spec => []OwnReply
<1>1. ReplyInv => OwnReply
  BY DEF ReplyInv
<1> QED
  BY <1>1, InitUser, StepUser, InitReply, StepReply, PTL DEF Spec

=============================================================================
