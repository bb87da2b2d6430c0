------------------------------ MODULE Framework ------------------------------
(***************************************************************************)
(* A service and a client of the framework (src/framework/), joined by a   *)
(* connection.                                                             *)
(***************************************************************************)
EXTENDS Service, SsnClient

vars == <<service, client, wire>>

Init == ServiceInit /\ ClientInit /\ WireInit
Next ==
    \/ ServiceNext /\ UNCHANGED client
    \/ ClientNext /\ UNCHANGED service

Serves(A) == A /\ UNCHANGED client
Uses(A) == A /\ UNCHANGED service

\* Run's thread, the svc thread, the poll thread and users inside an operation
\* go on.
Fairness ==
    /\ WF_vars(Serves(RunStep)) /\ WF_vars(Serves(SvcStep))
    /\ WF_vars(Uses(PollStep)) /\ \A u \in Users : WF_vars(Uses(UserStep(u)))

Spec == Init /\ [][Next]_vars /\ Fairness

TypeOK == ServiceTypeOK /\ ClientTypeOK /\ WireTypeOK

\* No thread of either side uses a node that was destroyed: OnShutdown joins
\* the svc thread, and disconnect the poll thread, before the node goes, and
\* call_mutex_ keeps disconnect out while a call uses it.
NodeAlive == SvcNodeAlive /\ ClientNodeAlive

=============================================================================
