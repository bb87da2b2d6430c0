------------------------------- MODULE CliAuto -------------------------------
(***************************************************************************)
(* The automatic client (src/ssn_cliauto.c): a worker thread that connects, *)
(* subscribes, pings and reconnects, and the user thread that starts and   *)
(* stops it.  ssn_client_auto_start and _stop are called one after the     *)
(* other by one user thread, as ssn_cliauto.h requires; a section under    *)
(* cliauto->mutex is one step.  The client it drives is reduced to its     *)
(* connection: ClientLink and ClientRequests are about its inside.         *)
(***************************************************************************)
EXTENDS Naturals

CONSTANTS
    UrlCount,       \* url_cnt
    MaxPingLost,    \* SSN_CLIENT_AUTO_MAX_PING_LOST
    MaxFaults,      \* bound on the faults of server and network
    MaxStarts       \* bound on the calls of ssn_client_auto_start

ASSUME CountsAssumption ==
    /\ UrlCount \in Nat /\ MaxPingLost \in Nat \ {0}
    /\ MaxFaults \in Nat /\ MaxStarts \in Nat

VARIABLES
    state, running, pingLost,   \* fields of struct ssn_client_auto
    client,         \* cliauto->client, server and urls are allocated
    user,           \* the user thread: "idle", "join", "cleanup", "deleted", or
                    \* "rejoin" (undefined behaviour)
    deleting,       \* the stop is the one inside ssn_client_auto_delete
    worker,         \* pc of the worker thread; "none": not created, or joined
    starts,         \* starts so far
    connected,      \* client->connected
    link,           \* "none", "live", "dead" (half open), "eof", "closed" (fd -1)
    subs,           \* subscriptions made on this link
    server,         \* "up", "hung" (answers nothing) or "down"
    faults,         \* faults so far
    told            \* what onconn was last told since the start: "none", "up", "down"

objVars == <<state, running, pingLost, client>>
linkVars == <<connected, link, subs>>
envVars == <<server, faults>>
vars == <<objVars, user, deleting, worker, starts, linkVars, envVars, told>>

\* ssn_client_auto_create.
Init ==
    /\ state = "idle" /\ running = FALSE /\ pingLost = 0 /\ client = FALSE
    /\ user = "idle" /\ deleting = FALSE /\ worker = "none" /\ starts = 0
    /\ connected = FALSE /\ link = "none" /\ subs = 0
    /\ server \in {"up", "down"} /\ faults = 0
    /\ told = "none"

-----------------------------------------------------------------------------
(* The user thread. *)

Stopped == state \in {"idle", "stopped"}

Start ==
    /\ user = "idle" /\ Stopped
    /\ starts < MaxStarts /\ starts' = starts + 1
    /\ client' = TRUE /\ running' = TRUE /\ state' = "connecting"
    /\ connected' = FALSE /\ link' = "none" /\ subs' = 0
    /\ worker' = "top" /\ told' = "none"
    /\ UNCHANGED <<pingLost, user, deleting, envVars>>

\* Memory or a thread cannot be had: everything allocated is given back.
StartFails ==
    /\ user = "idle" /\ Stopped
    /\ starts < MaxStarts /\ starts' = starts + 1
    /\ state' \in {state, "stopped"}
    /\ UNCHANGED <<running, pingLost, client, user, deleting, worker, linkVars, envVars, told>>

\* Mutant: the thread's flag stays set.
StopStateOnly ==
    /\ user = "idle" /\ ~Stopped
    /\ deleting' \in BOOLEAN
    /\ state' = "stopped"
    /\ user' = "join"
    /\ UNCHANGED <<running, pingLost, client, worker, starts, linkVars, envVars, told>>

\* ssn_client_auto_stop, by itself or from ssn_client_auto_delete.
Stop ==
    /\ user = "idle" /\ ~Stopped
    /\ deleting' \in BOOLEAN
    /\ running' = FALSE /\ state' = "stopped"
    /\ user' = "join"
    /\ UNCHANGED <<pingLost, client, worker, starts, linkVars, envVars, told>>

\* Mutant: the client is closed without waiting for the thread.
StopJoinNot ==
    /\ user = "join"
    /\ user' = "cleanup"
    /\ UNCHANGED <<worker, objVars, deleting, starts, linkVars, envVars, told>>

\* pthread_join; on a thread that was joined before it is undefined.
StopJoin ==
    /\ user = "join"
    /\ worker \in {"exited", "none"}
    /\ user' = IF worker = "none" THEN "rejoin" ELSE "cleanup"
    /\ worker' = "none"
    /\ UNCHANGED <<objVars, deleting, starts, linkVars, envVars, told>>

StopCleanup ==
    /\ user = "cleanup"
    /\ client' = FALSE /\ pingLost' = 0
    /\ connected' = FALSE /\ link' = "none" /\ subs' = 0
    /\ user' = IF deleting THEN "deleted" ELSE "idle"
    /\ UNCHANGED <<state, running, deleting, worker, starts, envVars, told>>

\* ssn_client_auto_delete of an object that is stopped.
Delete ==
    /\ user = "idle" /\ Stopped
    /\ user' = "deleted"
    /\ UNCHANGED <<objVars, deleting, worker, starts, linkVars, envVars, told>>

-----------------------------------------------------------------------------
(* The worker thread. *)

Goto(p) == worker' = p

\* The state is read once, at the top of the loop.
Top ==
    /\ worker = "top"
    /\ Goto(CASE ~running \/ state = "stopped" -> "exited"
              [] state = "connecting" -> "connect"
              [] state = "connected" -> "ping"
              [] state = "disconnected" -> "delay")
    /\ UNCHANGED <<objVars, user, deleting, starts, linkVars, envVars, told>>

\* ssn_client_connect: the old connection goes first.  A failed one is
\* retried after reconn_delay.
ConnectStep ==
    /\ worker = "connect"
    /\ subs' = 0
    /\ IF server = "up"
       THEN connected' = TRUE /\ link' = "live" /\ Goto("publish")
       ELSE connected' = FALSE /\ link' = "none" /\ Goto("top")
    /\ UNCHANGED <<objVars, user, deleting, starts, envVars, told>>

\* Mutant: onconn is called before the subscriptions.
PublishEarly ==
    /\ worker = "publish"
    /\ state' = "connected" /\ pingLost' = 0
    /\ told' = "up"
    /\ Goto("subscribe")
    /\ UNCHANGED <<running, client, user, deleting, starts, linkVars, envVars>>

Publish ==
    /\ worker = "publish"
    /\ state' = "connected" /\ pingLost' = 0
    /\ Goto("subscribe")
    /\ UNCHANGED <<running, client, user, deleting, starts, linkVars, envVars, told>>

\* A send on a link whose peer is gone may fail: ssn_client_sendmsg then closes
\* the descriptor and leaves client->connected alone.
SendFails == link \in {"eof", "closed"}

\* ssn_client_subscribe for the next URL; its result is not looked at.
Subscribe ==
    /\ worker = "subscribe" /\ subs < UrlCount
    /\ subs' = subs + 1
    /\ link' \in {link} \cup (IF SendFails THEN {"closed"} ELSE {})
    /\ UNCHANGED <<objVars, user, deleting, worker, starts, connected, envVars, told>>

SubscribeDone ==
    /\ worker = "subscribe" /\ subs = UrlCount
    /\ told' = "up"
    /\ Goto("top")
    /\ UNCHANGED <<objVars, user, deleting, starts, linkVars, envVars>>

\* What the poll inside ssn_client_ping and ssn_client_poll do on the link: an
\* end of stream is noticed and the transport destroyed.
Noticed == connected' = FALSE /\ link' = "none" /\ UNCHANGED subs

PingReplied ==
    /\ worker = "ping"
    /\ connected /\ link = "live" /\ server = "up"
    /\ pingLost' = 0
    /\ Goto("poll")
    /\ UNCHANGED <<state, running, client, user, deleting, starts, linkVars, envVars, told>>

\* Mutant: a lost ping is not counted.
PingLostUncounted ==
    /\ worker = "ping"
    /\ ~(connected /\ link = "live" /\ server = "up")
    /\ UNCHANGED <<linkVars, pingLost>>
    /\ Goto("poll")
    /\ UNCHANGED <<state, running, client, user, deleting, starts, envVars, told>>

\* No answer in time, the send failed, or the connection is found closed.
PingLost ==
    /\ worker = "ping"
    /\ ~(connected /\ link = "live" /\ server = "up")
    /\ CASE connected /\ link = "eof" -> Noticed \/ (connected' = TRUE /\ link' = "closed" /\ UNCHANGED subs)
         [] OTHER -> UNCHANGED linkVars
    /\ pingLost' = pingLost + 1
    /\ Goto(IF pingLost' >= MaxPingLost THEN "declare" ELSE "poll")
    /\ UNCHANGED <<state, running, client, user, deleting, starts, envVars, told>>

\* Too many in a row: the state changes under the mutex, then onconn is told.
Declare ==
    /\ worker = "declare"
    /\ state' = "disconnected"
    /\ told' = "down"
    /\ Goto("poll")
    /\ UNCHANGED <<running, pingLost, client, user, deleting, starts, linkVars, envVars>>

\* ssn_client_poll.
Poll ==
    /\ worker = "poll"
    /\ IF connected /\ link = "eof" THEN Noticed ELSE UNCHANGED linkVars
    /\ Goto("check")
    /\ UNCHANGED <<objVars, user, deleting, starts, envVars, told>>

\* Mutant: the lost connection is not reported to onconn.
CheckSilent ==
    /\ worker = "check"
    /\ state' = IF connected THEN state ELSE "disconnected"
    /\ Goto("top")
    /\ UNCHANGED <<told, running, pingLost, client, user, deleting, starts, linkVars, envVars>>

\* Still connected?  Then sleep for keepalive.
Check ==
    /\ worker = "check"
    /\ state' = IF connected THEN state ELSE "disconnected"
    /\ told' = IF connected THEN told ELSE "down"
    /\ Goto("top")
    /\ UNCHANGED <<running, pingLost, client, user, deleting, starts, linkVars, envVars>>

\* After reconn_delay, connect again.
Delay ==
    /\ worker = "delay"
    /\ state' = "connecting"
    /\ Goto("top")
    /\ UNCHANGED <<running, pingLost, client, user, deleting, starts, linkVars, envVars, told>>

-----------------------------------------------------------------------------
(* Server and network. *)

\* The server stops answering, ends with its sockets closed (FIN), or vanishes.
Fault ==
    /\ faults < MaxFaults /\ faults' = faults + 1
    /\ \/ server = "up" /\ server' = "hung" /\ UNCHANGED link
       \/ /\ server # "down" /\ server' = "down"
          /\ link' \in (IF link = "live" THEN {"eof", "dead"} ELSE {link})
    /\ UNCHANGED <<objVars, user, deleting, worker, starts, connected, subs, told>>

\* The server answers again, or a new one is started.
Recover ==
    /\ server # "up" /\ server' = "up"
    /\ UNCHANGED <<objVars, user, deleting, worker, starts, linkVars, faults, told>>

-----------------------------------------------------------------------------
WorkerStep ==
    \/ Top \/ ConnectStep \/ Publish \/ Subscribe \/ SubscribeDone
    \/ PingReplied \/ PingLost \/ Declare \/ Poll \/ Check \/ Delay

Next ==
    \/ Start \/ StartFails \/ Stop \/ StopJoin \/ StopCleanup \/ Delete
    \/ WorkerStep \/ Fault \/ Recover

\* The worker thread runs and a stop that was begun goes on; the server need not
\* come back, and nobody has to start or to stop anything.
Fairness ==
    /\ WF_vars(WorkerStep)
    /\ WF_vars(StopJoin) /\ WF_vars(StopCleanup)

Spec == Init /\ [][Next]_vars
FairSpec == Spec /\ Fairness

-----------------------------------------------------------------------------
\* Types; the count of lost pings never passes the threshold, since a declared
\* loss leads to a reconnect that resets it.
TypeOK ==
    /\ state \in {"idle", "connecting", "connected", "disconnected", "stopped"}
    /\ running \in BOOLEAN /\ client \in BOOLEAN /\ connected \in BOOLEAN
    /\ pingLost \in 0 .. MaxPingLost
    /\ user \in {"idle", "join", "cleanup", "deleted", "rejoin"} /\ deleting \in BOOLEAN
    /\ worker \in {"none", "exited", "top", "connect", "publish", "subscribe", "ping",
                   "declare", "poll", "check", "delay"}
    /\ link \in {"none", "live", "dead", "eof", "closed"}
    /\ subs \in 0 .. UrlCount /\ starts \in 0 .. MaxStarts
    /\ server \in {"up", "hung", "down"} /\ faults \in 0 .. MaxFaults
    /\ told \in {"none", "up", "down"}

\* The worker never runs on a client that ssn_client_auto_stop has closed.
ClientOutlivesWorker == worker \notin {"none", "exited"} => client

\* When onconn(true) stands and the link is alive, every URL was subscribed on
\* this very link: a reconnect restores the subscriptions before it is reported.
AnnouncedSubscribed == told = "up" /\ link = "live" => subs = UrlCount

\* A broken connection that was reported up, half open ones included, is
\* reported down, unless the client is stopped.
LossReported == (told = "up" /\ link # "live") ~> (told = "down" \/ ~running)

\* While it is not stopped and the server stays up, the client ends up
\* connected with its subscriptions.
Reconnects ==
    <>[](running /\ server = "up") => <>[](link = "live" /\ told = "up")

\* ssn_client_auto_stop returns (or has run into the undefined join).
StopReturns == (user = "join") ~> (user \in {"idle", "deleted", "rejoin"})

=============================================================================
