-------------------------- MODULE ServerPeersProofs --------------------------
(***************************************************************************)
(* For any number of connections and any timeouts: the timer list holds no *)
(* node of a client that is gone, and a server is freed only when neither  *)
(* the poll thread nor the timer thread is in it.                          *)
(*                                                                         *)
(* NoDanglingTimer is inductive, given the types.  FreedAlone is not: it   *)
(* needs LifeInv, which says who holds the references that are counted,    *)
(* and that the timer thread only visits servers on the global list.       *)
(***************************************************************************)
EXTENDS ServerPeers, TLAPS

ListInv ==
    /\ cli \in [Conns -> [linked : BOOLEAN, alive : Nat]]
    /\ table \subseteq Conns
    /\ NoDanglingTimer

PollPcs == {"fds", "select", "clients", "destroy_cli", "input", "handle", "info_send",
            "accept", "event", "expire", "end", "unref"}

\* The creator has a reference until ssn_server_destroy gave it back, the poll
\* thread has one while it is inside.
LifeInv ==
    /\ app \in {"idle", "unlisted", "unref", "done"}
    /\ pc \in PollPcs \cup {"idle"}
    /\ valid \in BOOLEAN /\ listed \in BOOLEAN /\ freed \in BOOLEAN
    /\ refs = (IF app = "done" THEN 0 ELSE 1) + (IF pc = "idle" THEN 0 ELSE 1)
    /\ valid <=> app \in {"idle", "unlisted"}
    /\ listed <=> app = "idle"
    /\ timer \in {"sleep", "signal"} /\ (timer = "signal" => listed)
    /\ freed <=> refs = 0
    /\ freed => table = {}

-----------------------------------------------------------------------------
(* The lists. *)

\* ssn_server_cli_destroy takes the timers of the clients it destroys along.
LEMMA CliDestroyLists ==
  ASSUME ListInv, NEW S, CliDestroy(S)
  PROVE  ListInv'
<1> USE DEF ListInv, CliDestroy, NoCli
<1>1. cli' \in [Conns -> [linked : BOOLEAN, alive : Nat]] /\ table' \subseteq Conns
  OBVIOUS
<1>2. \A c \in Conns : c \in hst' <=> c \in table' /\ cli'[c].linked
  BY DEF Unlinked, NoDanglingTimer
<1>3. hst' \subseteq Conns
  BY DEF Unlinked, NoDanglingTimer
<1> QED
  BY <1>1, <1>2, <1>3 DEF NoDanglingTimer

\* The other steps that change a client's timer or the list.
LEMMA TimersLists ==
  ASSUME ListInv,
         \/ \E c \in Conns : Accept(c)
         \/ Input \/ HandleServiceInfo \/ TimerRound
  PROVE  ListInv'
<1> USE LimitsAssumption DEF ListInv, NoDanglingTimer
<1>1. ASSUME NEW c \in Conns, Accept(c) PROVE ListInv'
  <2>1. cli' \in [Conns -> [linked : BOOLEAN, alive : Nat]] /\ table' \subseteq Conns
    BY <1>1 DEF Accept
  <2>2. \A d \in Conns : d \in hst' <=> d \in table' /\ cli'[d].linked
    BY <1>1 DEF Accept
  <2>3. hst' \subseteq Conns
    BY <1>1 DEF Accept
  <2> QED
    BY <2>1, <2>2, <2>3
<1>2. ASSUME UNCHANGED <<table, hst>>,
             cli' \in [Conns -> [linked : BOOLEAN, alive : Nat]],
             \A d \in Conns : cli'[d].linked = cli[d].linked
      PROVE  ListInv'
  BY <1>2
<1>3. CASE Input
  BY <1>2, <1>3 DEF Input
<1>4. CASE HandleServiceInfo
  <2>1. CASE KeepaliveTimeout > 0
    BY <1>2, <1>4, <2>1 DEF HandleServiceInfo
  <2>2. CASE ~(KeepaliveTimeout > 0)
    <3>1. /\ cli' \in [Conns -> [linked : BOOLEAN, alive : Nat]] /\ table' = table
          /\ hst' = hst \ {cur}
      BY <1>4, <2>2 DEF HandleServiceInfo
    <3>2. \A d \in Conns : /\ d # cur => cli'[d] = cli[d]
                           /\ d = cur => cli'[d].linked = FALSE
      BY <1>4, <2>2 DEF HandleServiceInfo
    <3>3. \A d \in Conns : d \in hst' <=> d \in table' /\ cli'[d].linked
      BY <3>1, <3>2
    <3> QED
      BY <3>1, <3>3
  <2> QED
    BY <2>1, <2>2
<1>5. CASE TimerRound
  <2> DEFINE due == {c \in hst : cli[c].alive <= 1}
  <2>1. cli' = [c \in Conns |-> IF c \in due THEN [cli[c] EXCEPT !.alive = 0]
                                ELSE IF c \in hst THEN [cli[c] EXCEPT !.alive = @ - 1]
                                ELSE cli[c]]
        /\ UNCHANGED <<table, hst>>
    BY <1>5 DEF TimerRound
  <2>2. \A c \in Conns : c \notin due /\ c \in hst => cli[c].alive - 1 \in Nat
    OBVIOUS
  <2>3. cli' \in [Conns -> [linked : BOOLEAN, alive : Nat]]
    BY <2>1, <2>2
  <2>4. \A d \in Conns : cli'[d].linked = cli[d].linked
    BY <2>1
  <2> QED
    BY <1>2, <2>1, <2>3, <2>4
<1> QED
  BY <1>1, <1>3, <1>4, <1>5

\* Every step of the server keeps the lists in order.
LEMMA StepLists == ListInv /\ [Next]_vars => ListInv'
<1> SUFFICES ASSUME ListInv, [Next]_vars PROVE ListInv'
  OBVIOUS
<1>1. ASSUME UNCHANGED <<cli, table, hst>> PROVE ListInv'
  BY <1>1 DEF ListInv, NoDanglingTimer
<1>2. ASSUME ClientDestroy \/ Expire \/ DestroyUnref \/ PollUnref
      PROVE  ListInv'
  <2>1. (\E S : CliDestroy(S)) \/ UNCHANGED <<cli, table, hst>>
    BY <1>2 DEF ClientDestroy, Expire, DestroyUnref, PollUnref, FreeWhenLast
  <2> QED
    BY <1>1, <2>1, CliDestroyLists
<1>3. ASSUME \/ Fds \/ Select \/ SelectTimeout \/ ClientsDone
             \/ AcceptNone \/ AcceptRefused \/ EventDrain \/ PollEnd
             \/ \E c \in Conns : ClientInput(c)
      PROVE  ListInv'
  BY <1>1, <1>3 DEF Fds, Select, SelectTimeout, ClientsDone, AcceptNone, AcceptRefused,
     EventDrain, PollEnd, ClientInput, ClientSkip, ClientLost, ClientPacket, cliVars
<1>4. ASSUME \/ ServiceInfoSend \/ HandleRequest \/ PollBegin \/ TimerSignal
             \/ DestroyUnlist \/ DestroyInvalidate \/ Publish
             \/ \E c \in Conns : Respond(c) \/ Message(c) \/ PeerClose(c) \/ PeerGoes(c)
      PROVE  ListInv'
  BY <1>1, <1>4 DEF ServiceInfoSend, HandleRequest, PollBegin, TimerSignal, DestroyUnlist,
     DestroyInvalidate, Publish, Respond, Message, PeerClose, PeerGoes, cliVars
<1>5. CASE UNCHANGED vars
  BY <1>1, <1>5 DEF vars, cliVars
<1> QED
  BY <1>2, <1>3, <1>4, <1>5, TimersLists
     DEF Next, PollStep, AcceptStep, TimerStep, DestroyStep

\* A client that leaves, for whatever reason and however close to its timeout,
\* leaves no node on the timer list of ssn_server.c.
THEOREM NoTimerDangles == Spec => []NoDanglingTimer
<1>1. Init => ListInv
  BY DEF Init, ListInv, NoDanglingTimer, NoCli
<1>2. ListInv => NoDanglingTimer
  BY DEF ListInv
<1> QED
  BY <1>1, <1>2, StepLists, PTL DEF Spec

-----------------------------------------------------------------------------
(* The life of the server. *)

\* Steps that change neither who is inside nor who has references.
LEMMA InsideLife ==
  ASSUME LifeInv, UNCHANGED <<lifeVars, timer, app>>, pc # "idle", pc' \in PollPcs
  PROVE  LifeInv'
  BY DEF LifeInv, PollPcs, lifeVars

\* Giving a reference back: the server is freed, with its clients, when it was
\* the last one.
LEMMA UnrefLife ==
  ASSUME LifeInv, DestroyUnref \/ PollUnref
  PROVE  LifeInv'
<1>1. ~freed /\ refs \in {1, 2} /\ (refs = 1 => ~valid)
  BY DEF LifeInv, DestroyUnref, PollUnref, PollPcs
<1>2. refs' = refs - 1 /\ FreeWhenLast
  BY DEF DestroyUnref, PollUnref
<1>3. CASE refs = 1
  <2>1. freed' = TRUE /\ table' = {} /\ refs' = 0
    BY <1>1, <1>2, <1>3 DEF FreeWhenLast, CliDestroy
  <2> QED
    BY <1>3, <2>1 DEF LifeInv, DestroyUnref, PollUnref, PollPcs
<1>4. CASE refs = 2
  <2>1. freed' = freed /\ table' = table /\ refs' = 1
    BY <1>1, <1>2, <1>4 DEF FreeWhenLast
  <2> QED
    BY <1>1, <1>4, <2>1 DEF LifeInv, DestroyUnref, PollUnref, PollPcs
<1> QED
  BY <1>1, <1>3, <1>4

\* Every step of the threads keeps count of who is inside.
LEMMA StepLife == LifeInv /\ [Next]_vars => LifeInv'
<1> SUFFICES ASSUME LifeInv, [Next]_vars PROVE LifeInv'
  OBVIOUS
<1>1. ASSUME \/ Fds \/ Select \/ SelectTimeout \/ ClientsDone
             \/ AcceptStep \/ EventDrain \/ PollEnd
             \/ \E c \in Conns : ClientInput(c)
      PROVE  UNCHANGED <<lifeVars, timer, app>> /\ pc # "idle" /\ pc' \in PollPcs
  BY <1>1 DEF Fds, Select, SelectTimeout, ClientsDone, AcceptStep, Accept, AcceptNone,
     AcceptRefused, EventDrain, PollEnd, ClientInput, ClientSkip, ClientLost, ClientPacket,
     PollPcs
<1>2. ASSUME ClientDestroy \/ Expire \/ Input \/ HandleServiceInfo
             \/ ServiceInfoSend \/ HandleRequest
      PROVE  UNCHANGED <<lifeVars, timer, app>> /\ pc # "idle" /\ pc' \in PollPcs
  BY <1>2 DEF ClientDestroy, Expire, Input, HandleServiceInfo, ServiceInfoSend,
     HandleRequest, Handled, PollPcs
<1>3. CASE PollBegin
  BY <1>3 DEF PollBegin, LifeInv, PollPcs, cliVars
<1>4. CASE DestroyUnlist
  BY <1>4 DEF DestroyUnlist, LifeInv, cliVars
<1>5. CASE DestroyInvalidate
  BY <1>5 DEF DestroyInvalidate, LifeInv, cliVars
<1>6. CASE TimerRound
  BY <1>6 DEF TimerRound, LifeInv, lifeVars
<1>7. CASE TimerSignal
  BY <1>7 DEF TimerSignal, LifeInv, lifeVars, cliVars
<1>8. ASSUME \/ Publish \/ UNCHANGED vars
             \/ \E c \in Conns : Respond(c) \/ Message(c) \/ PeerClose(c) \/ PeerGoes(c)
      PROVE  LifeInv'
  <2>1. UNCHANGED <<lifeVars, timer, app, pc, table>>
    BY <1>8 DEF Publish, Respond, Message, PeerClose, PeerGoes, vars, cliVars
  <2> QED
    BY <2>1 DEF LifeInv, lifeVars
<1> QED
  BY <1>1, <1>2, <1>3, <1>4, <1>5, <1>6, <1>7, <1>8, InsideLife, UnrefLife
     DEF Next, PollStep, TimerStep, DestroyStep

\* ssn_server_free_resources runs when nobody is inside: neither the poll thread,
\* which may have been in a callback when the server was destroyed, nor the
\* timer thread; clients and timers are gone then.
THEOREM FreedByTheLast == Spec => []FreedAlone
<1>1. Init => LifeInv /\ ListInv
  <2>1. ASSUME Init PROVE LifeInv
    <3>1. refs = (IF app = "done" THEN 0 ELSE 1) + (IF pc = "idle" THEN 0 ELSE 1)
      BY <2>1 DEF Init
    <3>2. refs # 0
      BY <2>1 DEF Init
    <3> QED
      BY <2>1, <3>1, <3>2, Zenon DEF Init, LifeInv
  <2>2. Init => ListInv
    BY DEF Init, ListInv, NoDanglingTimer, NoCli
  <2> QED
    BY <2>1, <2>2
<1>2. LifeInv /\ ListInv => FreedAlone
  BY DEF LifeInv, ListInv, NoDanglingTimer, FreedAlone
<1> QED
  BY <1>1, <1>2, StepLife, StepLists, PTL DEF Spec

=============================================================================
