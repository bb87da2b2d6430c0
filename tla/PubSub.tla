------------------------------- MODULE PubSub -------------------------------
(***************************************************************************)
(* Publishing: the subscriptions a server keeps for a connection           *)
(* (src/ssn_server.c), the handlers in the client (src/ssn_client.c), and  *)
(* the connection between them, first in first out both ways.  The client  *)
(* is driven by an automatic client (src/ssn_cliauto.c), whose worker      *)
(* connects, polls and subscribes to its own URLs on every new connection, *)
(* without a callback; other threads subscribe and unsubscribe meanwhile.  *)
(* A URL is a record as in ServerMethods.                                  *)
(***************************************************************************)
EXTENDS Naturals, Sequences, SequencesExt, FiniteSets

CONSTANTS
    Users,          \* threads of the application
    Worker,         \* the thread of the automatic client
    Topics,         \* URLs that are subscribed to
    Published,      \* URLs that are published
    AutoUrls,       \* the URLs of the automatic client, in order
    Nothing,        \* no request, no message
    MaxRequests,    \* how many times the users subscribe and unsubscribe in all
    MaxPublishes,   \* how many messages reach the connection in all
    MaxLinks        \* how many connections are made in all

ASSUME PubSubAssumption ==
    /\ Worker \notin Users
    /\ {MaxRequests, MaxPublishes, MaxLinks} \subseteq Nat

Threads == Users \cup {Worker}

VARIABLES
    up,             \* there is a connection
    toServer, toClient,     \* frames on their way
    subscribed,     \* cli->subscribed
    handlers,       \* client->sub_handlers, the newest first
    step,           \* by thread: the request it has still to send
    todo,           \* URLs the worker has still to subscribe to
    got,            \* the last message and who got it
    count,          \* how often each bounded thing has happened
    wanted,         \* history: topics whose newest entry is a user's
    unlike          \* history: topics for which the two sides may differ

pubsub == <<up, toServer, toClient, subscribed, handlers, step, todo, got, count,
            wanted, unlike>>

PubSubInit ==
    /\ up = FALSE /\ toServer = <<>> /\ toClient = <<>>
    /\ subscribed = {} /\ handlers = <<>>
    /\ step = [t \in Threads |-> Nothing] /\ todo = <<>>
    /\ got = Nothing
    /\ count = [requests |-> 0, publishes |-> 0, links |-> 0]
    /\ wanted = {} /\ unlike = {}

HandlersOf(u) == {k \in DOMAIN handlers : handlers[k].url = u}
Newest(u) == CHOOSE k \in HandlersOf(u) : \A j \in HandlersOf(u) : k <= j

-----------------------------------------------------------------------------
(* The connection. *)

\* The worker connects; the handlers of earlier connections are still there.
Link ==
    /\ ~up /\ todo = <<>> /\ step[Worker] = Nothing
    /\ count.links < MaxLinks
    /\ up' = TRUE
    /\ todo' = AutoUrls
    /\ count' = [count EXCEPT !.links = @ + 1]
    /\ unlike' = unlike \cup {handlers[k].url : k \in DOMAIN handlers}
    /\ UNCHANGED <<toServer, toClient, subscribed, handlers, step, got, wanted>>

\* The connection is lost, and with it what the server knew of it.
Unlink ==
    /\ up
    /\ up' = FALSE /\ toServer' = <<>> /\ toClient' = <<>>
    /\ subscribed' = {}
    /\ UNCHANGED <<handlers, step, todo, got, count, wanted, unlike>>

-----------------------------------------------------------------------------
(* The client: each operation changes the handlers under client->lock, lets *)
(* go of it, and sends the request.                                         *)

Overlapped(t, u) == \E s \in Threads \ {t} : step[s] # Nothing /\ step[s].url = u

\* The first half of ssn_client_subscribe.
Subscribe(t, u) ==
    /\ up /\ step[t] = Nothing
    /\ handlers' = <<[url |-> u, user |-> t # Worker]>> \o handlers
    /\ step' = [step EXCEPT ![t] = [type |-> "subscribe", url |-> u]]
    /\ wanted' = IF t = Worker THEN wanted \ {u} ELSE wanted \cup {u}
    /\ unlike' = IF Overlapped(t, u) THEN unlike \cup {u} ELSE unlike
    /\ got' = Nothing

\* The first half of ssn_client_unsubscribe: one handler goes, the newest; the
\* server's only subscription will go even where an older handler remains.
Unsubscribe(t, u) ==
    /\ up /\ step[t] = Nothing
    /\ handlers' = IF HandlersOf(u) = {} THEN handlers ELSE RemoveAt(handlers, Newest(u))
    /\ step' = [step EXCEPT ![t] = [type |-> "unsubscribe", url |-> u]]
    /\ wanted' = wanted \ {u}
    /\ unlike' = IF Overlapped(t, u) \/ Cardinality(HandlersOf(u)) > 1
                 THEN unlike \cup {u} ELSE unlike
    /\ got' = Nothing

UserCalls(t) ==
    /\ t \in Users /\ count.requests < MaxRequests
    /\ count' = [count EXCEPT !.requests = @ + 1]
    /\ \E u \in Topics : Subscribe(t, u) \/ Unsubscribe(t, u)
    /\ UNCHANGED <<up, toServer, toClient, subscribed, todo>>

\* The worker's loop after a connect; a subscribe on a connection that is
\* already lost is refused, and the loop goes on.
WorkerSubscribes ==
    /\ todo # <<>> /\ todo' = Tail(todo)
    /\ step[Worker] = Nothing
    /\ \/ Subscribe(Worker, Head(todo))
       \/ ~up /\ UNCHANGED <<handlers, step, wanted, unlike, got>>
    /\ UNCHANGED <<up, toServer, toClient, subscribed, count>>

\* The second half: ssn_client_request, refused without a connection.
SendRequest(t) ==
    /\ step[t] # Nothing
    /\ step' = [step EXCEPT ![t] = Nothing]
    /\ \/ up /\ toServer' = Append(toServer, step[t]) /\ UNCHANGED unlike
       \/ UNCHANGED toServer /\ unlike' = unlike \cup {step[t].url}
    /\ UNCHANGED <<up, toClient, subscribed, handlers, todo, got, count, wanted>>

\* Mutant: the oldest handler of the URL.
ReceiverOldest(u) ==
    LET k == CHOOSE k \in HandlersOf(u) : \A j \in HandlersOf(u) : j <= k
    IN  IF HandlersOf(u) # {} /\ handlers[k].user THEN "handler" ELSE "fallback"

\* ssn_client_handle_publish looks for the URL itself and stops at the first
\* entry; without a callback there the message is for onsub or onmsg.
Receiver(u) ==
    IF HandlersOf(u) # {} /\ handlers[Newest(u)].user THEN "handler" ELSE "fallback"

\* The worker polls, between its other work.
HandlePublish ==
    /\ up /\ toClient # <<>>
    /\ todo = <<>> /\ step[Worker] = Nothing
    /\ got' = [url |-> Head(toClient), by |-> Receiver(Head(toClient))]
    /\ toClient' = Tail(toClient)
    /\ UNCHANGED <<up, toServer, subscribed, handlers, step, todo, count, wanted, unlike>>

-----------------------------------------------------------------------------
(* The server. *)

\* ssn_server_cli_sub_match: "/" takes everything, a URL that ends in '/' all
\* below it, any other itself.
SubMatch(s, u) ==
    \/ s.seg = <<>>
    \/ s = u
    \/ s.dir /\ IsPrefix(s.seg, u.seg)

\* ssn_server_is_subscribed, as far as this connection goes.
IsSubscribed(u) == \E s \in subscribed : SubMatch(s, u)

\* ssn_server_do_publish, where it reaches this connection.
Publish(u) ==
    /\ up /\ IsSubscribed(u)
    /\ count.publishes < MaxPublishes
    /\ toClient' = Append(toClient, u)
    /\ count' = [count EXCEPT !.publishes = @ + 1]
    /\ UNCHANGED <<up, toServer, subscribed, handlers, step, todo, got, wanted, unlike>>

HandleSubscribe(f) == f.type = "subscribe" /\ subscribed' = subscribed \cup {f.url}

\* Mutant: the subscription stays.
HandleUnsubscribeNot(f) == f.type = "unsubscribe" /\ subscribed' = subscribed

HandleUnsubscribe(f) == f.type = "unsubscribe" /\ subscribed' = subscribed \ {f.url}

\* ssn_server_input for these two.
ServerInput ==
    /\ up /\ toServer # <<>>
    /\ HandleSubscribe(Head(toServer)) \/ HandleUnsubscribe(Head(toServer))
    /\ toServer' = Tail(toServer)
    /\ UNCHANGED <<up, toClient, handlers, step, todo, got, count, wanted, unlike>>

-----------------------------------------------------------------------------
\* What the threads of the client, the network and publishers do.
ClientNext ==
    \/ Link \/ Unlink \/ WorkerSubscribes \/ HandlePublish
    \/ \E t \in Threads : UserCalls(t) \/ SendRequest(t)
    \/ \E u \in Published : Publish(u)

\* When nothing is on its way, the server has exactly the subscriptions the
\* client has handlers for, except for topics where a request could not be
\* sent, two threads were inside the client at once, an unsubscribe left an
\* older handler behind, or a handler is of an earlier connection.
SidesAgree ==
    up /\ todo = <<>> /\ toServer = <<>> =>
        \A u \in Topics \ unlike :
            (\A t \in Threads : step[t] = Nothing) =>
                (u \in subscribed <=> HandlersOf(u) # {})

\* A message for a URL goes to the callback the user registered for it last,
\* unless the user has unsubscribed or the automatic client has subscribed to
\* the same URL since.
HandlerCalled == got # Nothing /\ got.url \in wanted => got.by = "handler"

=============================================================================
