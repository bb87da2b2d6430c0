------------------------------- MODULE Service -------------------------------
(***************************************************************************)
(* A service: ServiceManager::Run with its signals, the life cycle of      *)
(* ServiceBase, ServiceTask and SsnService, the svc thread and the methods *)
(* (src/framework/, include/ssn/framework/).                               *)
(*                                                                         *)
(* Run is a program counter, `run'.  SIGINT and SIGTERM are one signal.    *)
(* Run's thread blocks it; the svc thread inherits the mask, and takes the *)
(* signal inside the pselect of a poll, whose mask is empty.               *)
(***************************************************************************)
EXTENDS JsonWire

CONSTANTS
    Urls,       \* methods that may be registered
    UrlOf,      \* the method each call is for
    MaxRuns,    \* how often Run is called
    MaxSignals, \* how many signals are sent
    MaxChanges  \* how often methods are registered or unregistered

ASSUME ServiceAssumption ==
    UrlOf \in [Calls -> Urls] /\ {MaxRuns, MaxSignals, MaxChanges} \subseteq Nat

CatchAll == "/"

VARIABLES
    run,        \* where Run is
    state,      \* ServiceBase::state_
    node,       \* SsnService::node_: "none" or "live"
    running,    \* ServiceTask::running_
    svc,        \* the svc thread: "none", "poll", "reply", "ended"
    busy,       \* the call handleRpc works on
    methods,    \* SsnService::methods_
    routed,     \* URLs registered with the server of the node
    stopReq,    \* s_stop_requested_
    masked,     \* the signal is blocked in Run's thread
    handler,    \* our handler is installed
    pending,    \* a signal is pending
    killed,     \* a signal took the default action
    left        \* what remains of the bounds

service == <<run, state, node, running, svc, busy, methods, routed,
             stopReq, masked, handler, pending, killed, left>>
signals == <<stopReq, masked, handler, pending, killed>>

NoCall == 0

ServiceInit ==
    /\ run = "out" /\ state = "created" /\ node = "none"
    /\ running = FALSE /\ svc = "none" /\ busy = NoCall
    /\ methods = {} /\ routed = {}
    /\ stopReq = FALSE /\ masked = FALSE /\ handler = FALSE
    /\ pending = FALSE /\ killed = FALSE
    /\ left = [runs |-> MaxRuns, signals |-> MaxSignals, changes |-> MaxChanges]

-----------------------------------------------------------------------------
(* ServiceManager::Run. *)

\* The flag is reset, then installSignalHandlers blocks the signal and installs
\* the handler; a signal in between waits.
RunEnter ==
    /\ run = "out" /\ left.runs > 0
    /\ left' = [left EXCEPT !.runs = @ - 1]
    /\ stopReq' = FALSE /\ masked' = TRUE /\ handler' = TRUE
    /\ run' = "initialize"
    /\ UNCHANGED <<state, node, running, svc, busy, methods, routed, pending, killed, wire>>

\* ServiceBase::initialize and SsnService::OnInit: the node is created and
\* started and everything in the table is registered with its server, "/"
\* last; a failure takes the node back.  A hook of the user that throws after
\* that leaves the node to the destructor.
RunInitialize ==
    /\ run = "initialize" /\ state = "created"
    /\ \/ /\ node' = "live" /\ listening' = TRUE
          /\ routed' = methods \cup {CatchAll}
          /\ state' = "initialized" /\ run' = "start"
       \/ /\ run' = "fail" /\ UNCHANGED <<node, listening, routed, state>>
       \/ /\ node' = "live" /\ listening' = TRUE
          /\ routed' = methods \cup {CatchAll}
          /\ run' = "destruct" /\ UNCHANGED state
    /\ UNCHANGED <<running, svc, busy, methods, signals, left, link, subscribed, requests, answers>>

\* ServiceBase::start, ServiceTask::activate(1): the thread is created, or
\* running_ is reset and Run returns 1.
RunStart ==
    /\ run = "start" /\ state = "initialized"
    /\ \/ running' = TRUE /\ svc' = "poll" /\ state' = "started" /\ run' = "wait"
       \/ running' = FALSE /\ run' = "fail" /\ UNCHANGED <<svc, state>>
    /\ UNCHANGED <<node, busy, methods, routed, signals, left, wire>>

\* Mutant: only a signal that Run takes itself ends the wait.
RunWaitDeaf ==
    /\ run = "wait" /\ pending
    /\ pending' = FALSE /\ stopReq' = TRUE /\ run' = "stop"
    /\ UNCHANGED <<state, node, running, svc, busy, methods, routed, masked, handler, killed, left, wire>>

\* The loop over sigtimedwait, which takes a pending signal, or times out to
\* look at the flag.
RunWait ==
    /\ run = "wait"
    /\ \/ stopReq /\ run' = "stop" /\ UNCHANGED <<pending, stopReq>>
       \/ ~stopReq /\ pending /\ pending' = FALSE /\ stopReq' = TRUE /\ UNCHANGED run
    /\ UNCHANGED <<state, node, running, svc, busy, methods, routed, masked, handler, killed, left, wire>>

\* SsnService::OnShutdown: requestShutdown ...
RunStop ==
    /\ run = "stop" /\ state = "started"
    /\ running' = FALSE
    /\ run' = "join"
    /\ UNCHANGED <<state, node, svc, busy, methods, routed, signals, left, wire>>

\* ... and wait join the svc thread ...
RunJoin ==
    /\ run = "join" /\ svc = "ended"
    /\ svc' = "none"
    /\ run' = "remove"
    /\ UNCHANGED <<state, node, running, busy, methods, routed, signals, left, wire>>

\* ... then the methods are removed, the node is stopped and destroyed; stopImpl
\* and destroy find nothing to do.
RunRemove ==
    /\ run = "remove"
    /\ routed' = {} /\ node' = "none" /\ listening' = FALSE
    /\ CutLink
    /\ state' = "created"
    /\ run' = "restore"
    /\ UNCHANGED <<running, svc, busy, methods, signals, left>>

\* The destructor, when a hook has thrown: it comes before the restoring.
RunDestruct ==
    /\ run = "destruct"
    /\ node' = "none" /\ listening' = FALSE /\ routed' = {}
    /\ CutLink
    /\ state' = "created"
    /\ run' = "restore"
    /\ UNCHANGED <<running, svc, busy, methods, signals, left>>

\* Mutant: the handler first.
RunRestoreSwapped ==
    /\ run \in {"restore", "fail"}
    /\ handler' = FALSE /\ masked' = FALSE
    /\ killed' = (killed \/ pending) /\ pending' = FALSE
    /\ run' = IF run = "fail" THEN "failed" ELSE "restored"
    /\ UNCHANGED <<state, node, running, svc, busy, methods, routed, stopReq, left, wire>>

\* restoreSignalHandlers: the mask, whereupon a pending signal is delivered ...
RunRestore ==
    /\ run \in {"restore", "fail"}
    /\ masked' = FALSE
    /\ pending' = FALSE
    /\ stopReq' = (stopReq \/ (pending /\ handler))
    /\ killed' = (killed \/ (pending /\ ~handler))
    /\ run' = IF run = "fail" THEN "failed" ELSE "restored"
    /\ UNCHANGED <<state, node, running, svc, busy, methods, routed, handler, left, wire>>

\* ... then the handler, and the flag is reset.
RunLeave ==
    /\ run = "restored"
    /\ handler' = FALSE /\ stopReq' = FALSE
    /\ run' = "out"
    /\ UNCHANGED <<state, node, running, svc, busy, methods, routed, masked, pending, killed, left, wire>>

\* Where initialize or start failed the flag stays, and the destructor comes
\* after the restoring; it takes the node of a service that was not started.
RunFail ==
    /\ run = "failed"
    /\ handler' = FALSE
    /\ state' = "created"
    /\ node' = "none" /\ listening' = FALSE /\ routed' = {}
    /\ CutLink
    /\ run' = "out"
    /\ UNCHANGED <<running, svc, busy, methods, masked, pending, stopReq, killed, left>>

-----------------------------------------------------------------------------
(* Signals, and requestStop from another thread. *)

\* Sent while Run has blocked the signal or has its handler installed.
SendSignal ==
    /\ masked \/ handler
    /\ left.signals > 0
    /\ left' = [left EXCEPT !.signals = @ - 1]
    /\ IF masked THEN pending' = TRUE /\ UNCHANGED <<stopReq, killed>>
       ELSE stopReq' = TRUE /\ UNCHANGED <<pending, killed>>
    /\ UNCHANGED <<run, state, node, running, svc, busy, methods, routed, masked, handler, wire>>

RequestStop ==
    /\ run # "out" /\ ~stopReq
    /\ left.signals > 0
    /\ left' = [left EXCEPT !.signals = @ - 1]
    /\ stopReq' = TRUE
    /\ UNCHANGED <<run, state, node, running, svc, busy, methods, routed, masked, handler, pending, killed, wire>>

-----------------------------------------------------------------------------
(* The svc thread. *)

\* while (isRunning()): the next poll, or the end.
SvcAgain == svc' = IF running THEN "poll" ELSE "ended"

\* ssn_node_poll finds nothing ...
SvcPollIdle ==
    /\ svc = "poll" /\ requests = {}
    /\ SvcAgain
    /\ UNCHANGED <<run, state, node, running, busy, methods, routed, signals, left, wire>>
\* ... is interrupted by a signal ...
SvcSignal ==
    /\ svc = "poll" /\ pending
    /\ pending' = FALSE
    /\ stopReq' = (stopReq \/ handler)
    /\ killed' = (killed \/ ~handler)
    /\ SvcAgain
    /\ UNCHANGED <<run, state, node, running, busy, methods, routed, masked, handler, left, wire>>

\* cmd_match of the server: what is not registered goes to "/".
Routed(u) == u \in routed \/ CatchAll \in routed

\* ... or takes a request off the wire, which handleRpc answers ...
SvcRequest ==
    /\ svc = "poll"
    /\ \E c \in requests :
        /\ requests' = requests \ {c}
        /\ IF Routed(UrlOf[c]) THEN busy' = c /\ svc' = "reply" ELSE UNCHANGED busy /\ SvcAgain
    /\ UNCHANGED <<run, state, node, running, methods, routed, signals, left,
                   listening, link, subscribed, answers>>

\* ... with what the handler returned, with 1001 when the table has none, with
\* 1002 or 1003 when the request is no JSON or the handler throws.
SvcReply ==
    /\ svc = "reply"
    /\ answers' = IF link THEN answers \cup {busy} ELSE answers
    /\ busy' = NoCall
    /\ SvcAgain
    /\ UNCHANGED <<run, state, node, running, methods, routed, signals, left,
                   listening, link, subscribed, requests>>

-----------------------------------------------------------------------------
(* The methods. *)

\* registerJson or unregister: only the table changes, the server is told at
\* the next initialize.
ChangeMethods(u) ==
    /\ left.changes > 0
    /\ left' = [left EXCEPT !.changes = @ - 1]
    /\ methods' = IF u \in methods THEN methods \ {u} ELSE methods \cup {u}
    /\ UNCHANGED <<run, state, node, running, svc, busy, routed, signals, wire>>

-----------------------------------------------------------------------------
RunStep ==
    \/ RunInitialize \/ RunStart \/ RunWait \/ RunStop \/ RunJoin
    \/ RunRemove \/ RunDestruct \/ RunRestore \/ RunLeave \/ RunFail
SvcStep == SvcPollIdle \/ SvcSignal \/ SvcRequest \/ SvcReply
ServiceNext ==
    \/ RunEnter \/ RunStep \/ SvcStep \/ SendSignal \/ RequestStop
    \/ \E u \in Urls : ChangeMethods(u)

-----------------------------------------------------------------------------
ServiceTypeOK ==
    /\ state \in {"created", "initialized", "started"}
    /\ node \in {"none", "live"} /\ svc \in {"none", "poll", "reply", "ended"}
    /\ methods \subseteq Urls /\ routed \subseteq Urls \cup {CatchAll}

\* While Run has the signal blocked or its own handler installed, and until
\* it has put both back, a signal never takes the default action
\* (installSignalHandlers, restoreSignalHandlers).
Survives == ~killed

\* The svc thread polls a node that is there: OnShutdown joins it first.
SvcNodeAlive == svc \in {"poll", "reply"} => node = "live"

\* Run ends after a signal or requestStop during its wait, and after a failed
\* initialize or start; it leaves no node, no thread, no mask and no handler
\* of its own behind, and no signal pending.
RunReturns ==
    (run = "failed" \/ (run = "wait" /\ (stopReq \/ pending)))
        ~> /\ run = "out"
           /\ node = "none" /\ svc = "none"
           /\ ~masked /\ ~handler /\ ~pending /\ ~listening

=============================================================================
