---------------------------- MODULE CliAutoProofs ----------------------------
(***************************************************************************)
(* Proofs about the automatic client, for any number of URLs, lost pings,  *)
(* faults and starts.                                                      *)
(*                                                                         *)
(* LifeInv: a user who finds the object stopped has joined the worker.     *)
(* PingInv: the worker pings with a count below the threshold only.        *)
(* ToldInv: on its way to a new connection the worker has not told the     *)
(* application of one; a stop that overwrites the state changes nothing,   *)
(* because the worker then ends.                                           *)
(***************************************************************************)
EXTENDS CliAuto, TLAPS

\* The two halves of TypeOK.
Flags ==
    running \in BOOLEAN /\ client \in BOOLEAN /\ connected \in BOOLEAN /\ deleting \in BOOLEAN
Fields ==
    /\ state \in {"idle", "connecting", "connected", "disconnected", "stopped"}
    /\ pingLost \in 0 .. MaxPingLost
    /\ user \in {"idle", "join", "cleanup", "deleted", "rejoin"}
    /\ worker \in {"none", "exited", "top", "connect", "publish", "subscribe", "ping",
                   "declare", "poll", "check", "delay"}
    /\ link \in {"none", "live", "dead", "eof", "closed"}
    /\ subs \in 0 .. UrlCount /\ starts \in 0 .. MaxStarts
    /\ server \in {"up", "hung", "down"} /\ faults \in 0 .. MaxFaults
    /\ told \in {"none", "up", "down"}

LifeInv ==
    /\ worker # "none" => client /\ state # "idle"
    /\ worker # "none" => user \in {"idle", "join"}
    /\ worker # "none" /\ user = "idle" => ~Stopped

PingInv ==
    /\ state = "connected" /\ worker # "declare" => pingLost < MaxPingLost
    /\ worker \in {"ping", "subscribe"} => pingLost < MaxPingLost

ToldInv ==
    /\ state = "disconnected" => told = "down"
    /\ state = "connecting" => told # "up"
    /\ worker \in {"connect", "publish", "subscribe", "delay"} => told # "up"
    /\ worker = "subscribe" => state \in {"connected", "stopped"}
    /\ AnnouncedSubscribed

IInv == Fields /\ LifeInv /\ PingInv /\ ToldInv

-----------------------------------------------------------------------------
\* ssn_client_auto_create.
LEMMA InitAuto == Init => IInv
  BY CountsAssumption
     DEF Init, IInv, Fields, LifeInv, PingInv, ToldInv, AnnouncedSubscribed, Stopped

\* The user thread.
LEMMA UserSteps ==
  IInv /\ (Start \/ StartFails \/ Stop \/ StopJoin \/ StopCleanup \/ Delete) => IInv'
  <1> USE CountsAssumption
      DEF IInv, Fields, LifeInv, PingInv, ToldInv, AnnouncedSubscribed, Stopped,
          objVars, linkVars, envVars
  <1>1. IInv /\ (Start \/ StartFails) => IInv'
    BY DEF Start, StartFails
  <1>2. IInv /\ Stop => IInv'
    BY DEF Stop
  <1>3. IInv /\ StopJoin => IInv'
    BY DEF StopJoin
  <1>4. IInv /\ (StopCleanup \/ Delete) => IInv'
    BY DEF StopCleanup, Delete
  <1> QED
    BY <1>1, <1>2, <1>3, <1>4

\* The worker thread, on its way to a connection ...
LEMMA ConnectSteps ==
  IInv /\ (Top \/ ConnectStep \/ Publish \/ Subscribe \/ SubscribeDone \/ Delay) => IInv'
  <1> USE CountsAssumption
      DEF IInv, Fields, LifeInv, PingInv, ToldInv, AnnouncedSubscribed, Stopped,
          objVars, linkVars, envVars, Goto
  <1>1. IInv /\ Top => IInv'
    <2>1. IInv /\ Top =>
            \/ worker' = "exited"
            \/ worker' = "connect" /\ state = "connecting"
            \/ worker' = "ping" /\ state = "connected"
            \/ worker' = "delay" /\ state = "disconnected"
      BY DEF Top
    <2> QED
      BY <2>1 DEF Top
  <1>2. IInv /\ (ConnectStep \/ Publish) => IInv'
    BY DEF ConnectStep, Publish
  <1>3. IInv /\ Subscribe => IInv'
    <2>1. Subscribe => link' = link \/ link' = "closed"
      BY DEF Subscribe
    <2> QED
      BY <2>1 DEF Subscribe
  <1>5. IInv /\ SubscribeDone => IInv'
    BY DEF SubscribeDone
  <1>4. IInv /\ Delay => IInv'
    BY DEF Delay
  <1> QED
    BY <1>1, <1>2, <1>3, <1>4, <1>5

\* ... and while it has one.
LEMMA KeepSteps ==
  IInv /\ (PingReplied \/ PingLost \/ Declare \/ Poll \/ Check) => IInv'
  <1> USE CountsAssumption
      DEF IInv, Fields, LifeInv, PingInv, ToldInv, AnnouncedSubscribed, Stopped,
          objVars, linkVars, envVars, Goto, Noticed
  <1>1. IInv /\ PingReplied => IInv'
    BY DEF PingReplied
  <1>2. IInv /\ PingLost => IInv'
    BY DEF PingLost
  <1>3. IInv /\ (Declare \/ Poll \/ Check) => IInv'
    BY DEF Declare, Poll, Check
  <1> QED
    BY <1>1, <1>2, <1>3

\* Server and network.
LEMMA FaultSteps == IInv /\ (Fault \/ Recover) => IInv'
  BY CountsAssumption
     DEF IInv, Fields, LifeInv, PingInv, ToldInv, AnnouncedSubscribed, Stopped,
         objVars, linkVars, Fault, Recover

\* Every step keeps the invariant.
LEMMA StepAuto == IInv /\ [Next]_vars => IInv'
  <1>1. IInv /\ UNCHANGED vars => IInv'
    BY DEF IInv, Fields, LifeInv, PingInv, ToldInv, AnnouncedSubscribed, Stopped,
           vars, objVars, linkVars, envVars
  <1> QED
    BY <1>1, UserSteps, ConnectSteps, KeepSteps, FaultSteps DEF Next, WorkerStep

\* The types, and with them the bound on the count of lost pings: a declared
\* loss resets it before the next ping.
THEOREM AutoTypeCorrect == Spec => []TypeOK
<1>1. Init => Flags
  BY Zenon DEF Init, Flags
<1>2. Flags /\ [Next]_vars => Flags'
  <2> SUFFICES ASSUME Flags, [Next]_vars PROVE Flags'
    OBVIOUS
  <2> USE DEF Flags, objVars, linkVars, envVars
  <2>1. CASE Start \/ StartFails \/ Stop \/ StopJoin \/ StopCleanup \/ Delete
    BY <2>1, Zenon DEF Start, StartFails, Stop, StopJoin, StopCleanup, Delete
  <2>2. CASE Top \/ ConnectStep \/ Publish \/ Subscribe \/ SubscribeDone \/ Delay
    BY <2>2, Zenon DEF Top, ConnectStep, Publish, Subscribe, SubscribeDone, Delay
  <2>3. CASE PingReplied \/ PingLost \/ Declare \/ Poll \/ Check
    BY <2>3, Zenon DEF PingReplied, PingLost, Declare, Poll, Check, Noticed
  <2>4. CASE Fault \/ Recover \/ UNCHANGED vars
    BY <2>4, Zenon DEF Fault, Recover, vars
  <2> QED
    BY <2>1, <2>2, <2>3, <2>4 DEF Next, WorkerStep
<1>3. Flags /\ IInv => TypeOK
  BY DEF Flags, IInv, Fields, TypeOK
<1> QED
  BY <1>1, <1>2, <1>3, InitAuto, StepAuto, PTL DEF Spec

\* ClientOutlivesWorker for any number of starts and stops: the client is
\* closed by a stop that has joined the worker.
THEOREM ClientOutlives == Spec => []ClientOutlivesWorker
<1>1. IInv => ClientOutlivesWorker
  BY DEF IInv, LifeInv, ClientOutlivesWorker
<1> QED
  BY <1>1, InitAuto, StepAuto, PTL DEF Spec

\* AnnouncedSubscribed for any number of URLs, faults and reconnects.
THEOREM ResubscribedFirst == Spec => []AnnouncedSubscribed
<1>1. IInv => AnnouncedSubscribed
  BY DEF IInv, ToldInv
<1> QED
  BY <1>1, InitAuto, StepAuto, PTL DEF Spec

=============================================================================
