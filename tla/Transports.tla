------------------------------ MODULE Transports ------------------------------
(***************************************************************************)
(* The transports of SSN (src/transports/): what the Unix, TCP and UDP     *)
(* adapters do with the kernel's sockets and with the name in the file     *)
(* system, when servers start, accept, stop and crash and clients connect  *)
(* and leave.  All servers and clients use one address; kind is its type.  *)
(*                                                                         *)
(* A socket is a number of the kernel's table, which is bounded: socket()  *)
(* and accept() fail when it is full.  Socket 0 is the code's sock_fd < 0. *)
(* A transport object is known by its user: the listener of a server, the  *)
(* transport of a client, or a member of Accepted.  A step is a system     *)
(* call that another process can see the effect of, with the code that     *)
(* follows it.  Statistics, socket options and the bytes that are sent     *)
(* are left out.                                                           *)
(***************************************************************************)
EXTENDS Naturals, FiniteSets

CONSTANTS
    Servers, Clients,   \* processes
    Accepted,           \* the transports ssn_transport_accept can return
    NSock,              \* the size of the kernel's table of sockets
    Backlog,            \* SSN_SERVER_BACKLOG
    NoServer

ASSUME TransportsAssumption ==
    /\ NSock \in Nat /\ Backlog \in Nat \ {0}
    /\ NoServer \notin Servers
    /\ Servers \cap Clients = {} /\ Servers \cap Accepted = {} /\ Clients \cap Accepted = {}

Sockets == 1 .. NSock
NoSocket == 0
Objects == Servers \cup Clients \cup Accepted

VARIABLES
    kind,       \* the type of the address: "unix", "tcp" or "udp"
    bare,       \* the server's name is a path without "unix://"
    waits,      \* connect_timeout_ms > 0
    file,       \* what the Unix path names: nothing, a socket, another file
    sock,       \* the kernel's sockets
    tr,         \* the transport objects: sock_fd, is_server and who holds them
    new,        \* client_fd of a server that is inside accept
    pc,         \* of servers and clients
    overlap     \* a server was started while another was not down (history)

settings == <<kind, bare, waits>>
vars == <<settings, file, sock, tr, new, pc, overlap>>

\* st: "new" is an unconnected stream socket, "syn" a connect in progress,
\* "reset" one that was refused, "eof" a connection whose other end is gone.
\* peer: the other end, or the listener in whose queue the connection is.
\* dead: connections in the queue whose client is gone.
\* name: the address leads to this socket.
SockStates == {"free", "new", "syn", "reset", "up", "eof", "listen", "dgram"}
SockRecords == [st : SockStates, peer : Sockets \cup {NoSocket}, dead : 0 .. Backlog, name : BOOLEAN]
FreeSock == [st |-> "free", peer |-> NoSocket, dead |-> 0, name |-> FALSE]
Transport == [live : BOOLEAN, fd : Sockets \cup {NoSocket}, srv : BOOLEAN,
              by : Servers \cup {NoServer}]
NoTransport == [live |-> FALSE, fd |-> NoSocket, srv |-> FALSE, by |-> NoServer]

Init ==
    /\ kind \in {"unix", "tcp", "udp"}
    /\ bare \in BOOLEAN /\ (bare => kind = "unix")
    /\ waits \in BOOLEAN /\ (waits \/ kind = "tcp")    \* only tcp_transport_connect waits
    /\ file \in (IF kind = "unix" THEN {"none", "socket", "other"} ELSE {"none"})
    /\ sock = [i \in Sockets |-> FreeSock]
    /\ tr = [o \in Objects |-> NoTransport]
    /\ new = [s \in Servers |-> NoSocket]
    /\ pc = [p \in Servers \cup Clients |-> IF p \in Servers THEN "down" ELSE "idle"]
    /\ overlap = FALSE

-----------------------------------------------------------------------------
(* The kernel. *)

\* socket() and accept() take the lowest descriptor that is free.
Lowest(i) == sock[i].st = "free" /\ \A j \in 1 .. (i - 1) : sock[j].st # "free"
TableFull == \A i \in Sockets : sock[i].st # "free"

\* What closing the sockets in I does to socket j of the table S: the other
\* end of a connection sees the end of the stream, a connect in progress is
\* refused, and a connection nobody has accepted stays in the queue.
AfterClose(S, I, j) ==
    IF j \in I THEN FreeSock
    ELSE IF S[j].peer \in I /\ S[j].st \in {"syn", "up"}
         THEN [S[j] EXCEPT !.st = IF @ = "syn" THEN "reset" ELSE "eof", !.peer = NoSocket]
    ELSE IF S[j].st = "listen" /\ \E i \in I : S[i].st = "up" /\ S[i].peer = j
         THEN [S[j] EXCEPT !.dead = @ + 1]
    ELSE S[j]
Closed(I) == [j \in Sockets |-> AfterClose(sock, I, j)]

\* unlink() of the path: no socket is reached through it any more.
Unlinked(S) == [i \in Sockets |-> [S[i] EXCEPT !.name = FALSE]]

\* The connections that wait to be accepted.
Queue(l) == {i \in Sockets : sock[i].st = "up" /\ sock[i].peer = l}
HasRoom(l) == sock[l].st = "listen" /\ Cardinality(Queue(l)) + sock[l].dead < Backlog
Named == {i \in Sockets : sock[i].name}


-----------------------------------------------------------------------------
(* Creating and destroying transports. *)

\* unix_transport_create, tcp_transport_create, udp_transport_create: each
\* transport has a socket from the start.
UnixCreate == [FreeSock EXCEPT !.st = "new"]
TcpCreate == [FreeSock EXCEPT !.st = "new"]
UdpCreate == [FreeSock EXCEPT !.st = "dgram"]

\* The table of creators that ssn_transport_factory_init fills.
creators == [unix |-> UnixCreate, tcp |-> TcpCreate, udp |-> UdpCreate]

\* ssn_transport_factory_create of o for server s.
Create(o, s) ==
    \E i \in Sockets :
        /\ Lowest(i)
        /\ sock' = [sock EXCEPT ![i] = creators[kind]]
        /\ tr' = [tr EXCEPT ![o] = [live |-> TRUE, fd |-> i, srv |-> FALSE, by |-> s]]

\* The sockets of the transports in O.
FdsOf(O) == {tr[o].fd : o \in O} \ {NoSocket}

\* Mutant: every Unix transport removes the path.
UnixUnlinksAny(O) == kind = "unix" /\ O # {}

\* unix_transport_destroy removes the path of a listener.
UnixUnlinks(O) == kind = "unix" /\ \E o \in O : tr[o].srv

\* ssn_transport_destroy of the transports in O.
Destroy(O) ==
    /\ sock' = IF UnixUnlinks(O) THEN Unlinked(Closed(FdsOf(O))) ELSE Closed(FdsOf(O))
    /\ file' = IF UnixUnlinks(O) THEN "none" ELSE file
    /\ tr' = [o \in Objects |-> IF o \in O THEN NoTransport ELSE tr[o]]

\* unix_, tcp_ and udp_transport_disconnect: the object stays.
Disconnect(o) ==
    /\ sock' = Closed(FdsOf({o}))
    /\ tr' = [tr EXCEPT ![o].fd = NoSocket]

-----------------------------------------------------------------------------
(* Servers: ssn_server_start, accepting, ssn_server_destroy, and crashes. *)

\* The server is created, and ssn_server_start begins: a bare path that names
\* a socket is removed, and one that names another file ends the start.  A
\* name with "unix://" is no path, and stat() finds nothing.  After a start
\* that failed the user destroys the server.
ServerStart(s) ==
    /\ pc[s] = "down"
    /\ IF bare /\ file = "socket"
        THEN file' = "none" /\ sock' = Unlinked(sock)
        ELSE UNCHANGED <<file, sock>>
    /\ pc' = [pc EXCEPT ![s] = IF bare /\ file = "other" THEN "freeing" ELSE "create"]
    /\ overlap' = (overlap \/ \E t \in Servers \ {s} : pc[t] # "down")
    /\ UNCHANGED <<settings, tr, new>>

ServerCreate(s) ==
    /\ pc[s] = "create"
    /\ \/ Create(s, s) /\ pc' = [pc EXCEPT ![s] = "listen"]
       \/ TableFull /\ pc' = [pc EXCEPT ![s] = "freeing"] /\ UNCHANGED <<sock, tr>>
    /\ UNCHANGED <<settings, file, new, overlap>>

\* A listen that failed: ssn_server_start destroys the transport.
ListenFails(s) ==
    /\ Destroy({s})
    /\ pc' = [pc EXCEPT ![s] = "freeing"]
    /\ UNCHANGED <<settings, new, overlap>>

\* The name is bound, the socket listens, and is_server is set.
ListenOk(s) ==
    /\ sock' = [sock EXCEPT ![tr[s].fd].st = IF kind = "udp" THEN "dgram" ELSE "listen",
                             ![tr[s].fd].name = TRUE]
    /\ file' = IF kind = "unix" THEN "socket" ELSE file
    /\ tr' = [tr EXCEPT ![s].srv = TRUE]
    /\ pc' = [pc EXCEPT ![s] = "up"]
    /\ UNCHANGED <<settings, new, overlap>>

\* unix_transport_listen, before the bind: the socket of an earlier server,
\* running or not, is removed; any other file ends it.
UnixListenUnlink(s) ==
    /\ pc[s] = "listen" /\ kind = "unix"
    /\ \/ /\ file # "other"
          /\ file' = "none" /\ sock' = Unlinked(sock)
          /\ pc' = [pc EXCEPT ![s] = "bind"]
          /\ UNCHANGED <<settings, tr, new, overlap>>
       \/ file = "other" /\ ListenFails(s)

\* The rest of it; bind() refuses a path that exists.
UnixListen(s) ==
    /\ pc[s] = "bind"
    /\ IF file = "none" THEN ListenOk(s) ELSE ListenFails(s)

\* tcp_transport_listen: the port of another listener is refused.
TcpListen(s) ==
    /\ pc[s] = "listen" /\ kind = "tcp"
    /\ IF Named = {} THEN ListenOk(s) ELSE ListenFails(s)

\* udp_transport_listen: SO_REUSEADDR lets several sockets share a port.
UdpListen(s) ==
    /\ pc[s] = "listen" /\ kind = "udp"
    /\ ListenOk(s)

\* The accept() of unix_transport_accept and tcp_transport_accept.  It takes a
\* connection whose client is there or one whose client has gone; the listener
\* of a UDP server has none, and udp_transport_accept returns NULL.
Accept(s) ==
    /\ pc[s] = "up" /\ sock[tr[s].fd].st = "listen"
    /\ \E i \in Sockets :
        /\ Lowest(i)
        /\ \/ \E c \in Queue(tr[s].fd) :
                sock' = [sock EXCEPT ![i] = [FreeSock EXCEPT !.st = "up", !.peer = c],
                                     ![c].peer = i]
           \/ /\ sock[tr[s].fd].dead > 0
              /\ sock' = [sock EXCEPT ![i] = [FreeSock EXCEPT !.st = "eof"],
                                      ![tr[s].fd].dead = @ - 1]
        /\ new' = [new EXCEPT ![s] = i]
    /\ pc' = [pc EXCEPT ![s] = "wrap"]
    /\ UNCHANGED <<settings, file, tr, overlap>>

\* Mutant: the socket the new transport was created with stays open.
AcceptInstallLeaks(s, o) ==
    \E i \in Sockets :
        /\ Lowest(i)
        /\ sock' = [sock EXCEPT ![i] = creators[kind]]
        /\ tr' = [tr EXCEPT ![o] = [live |-> TRUE, fd |-> new[s], srv |-> FALSE, by |-> s]]

\* The new transport is created with a socket of its own, which is closed and
\* replaced by client_fd.
AcceptInstall(s, o) ==
    /\ ~TableFull
    /\ tr' = [tr EXCEPT ![o] = [live |-> TRUE, fd |-> new[s], srv |-> FALSE, by |-> s]]
    /\ UNCHANGED sock

\* The rest of accept.  client_fd is closed when no transport could be created,
\* and by ssn_server_handle_new_connection when the server is at its limit.
AcceptWrap(s) ==
    /\ pc[s] = "wrap"
    /\ \/ \E o \in Accepted : ~tr[o].live /\ AcceptInstall(s, o)
       \/ /\ TableFull \/ \A o \in Accepted : tr[o].live
          /\ sock' = Closed({new[s]})
          /\ UNCHANGED tr
    /\ new' = [new EXCEPT ![s] = NoSocket]
    /\ pc' = [pc EXCEPT ![s] = "up"]
    /\ UNCHANGED <<settings, file, overlap>>

\* A failed send, a timeout or ssn_server_peer_close: ssn_transport_disconnect.
ServerDisconnect(o) ==
    /\ tr[o].live /\ tr[o].fd # NoSocket
    /\ Disconnect(o)
    /\ UNCHANGED <<settings, file, new, pc, overlap>>

\* ssn_server_cli_destroy, for any other reason than the end of the stream.
ServerDrop(o) ==
    /\ tr[o].live /\ pc[tr[o].by] = "up"
    /\ Destroy({o})
    /\ UNCHANGED <<settings, new, pc, overlap>>

Holds(s) == {o \in Accepted : tr[o].live /\ tr[o].by = s}

\* ssn_server_free_resources: the listener, with its path.
ServerDestroy(s) ==
    /\ pc[s] = "up"
    /\ Destroy({s})
    /\ pc' = [pc EXCEPT ![s] = "freeing"]
    /\ UNCHANGED <<settings, new, overlap>>

\* Its clients, and unlink(srv_name).
ServerFree(s) ==
    /\ pc[s] = "freeing"
    /\ tr' = [o \in Objects |-> IF o \in Holds(s) THEN NoTransport ELSE tr[o]]
    /\ LET S == Closed(FdsOf(Holds(s))) IN
        IF bare /\ kind = "unix" THEN sock' = Unlinked(S) /\ file' = "none"
                                 ELSE sock' = S /\ UNCHANGED file
    /\ pc' = [pc EXCEPT ![s] = "down"]
    /\ overlap' = (overlap /\ \E t \in Servers \ {s} : pc[t] # "down")
    /\ UNCHANGED <<settings, new>>

\* The process dies: the kernel closes its sockets, the path stays.
ServerCrash(s) ==
    /\ pc[s] # "down"
    /\ sock' = Closed(FdsOf(Holds(s) \cup {s}) \cup ({new[s]} \ {NoSocket}))
    /\ tr' = [o \in Objects |-> IF o \in Holds(s) \cup {s} THEN NoTransport ELSE tr[o]]
    /\ new' = [new EXCEPT ![s] = NoSocket]
    /\ pc' = [pc EXCEPT ![s] = "down"]
    /\ overlap' = (overlap /\ \E t \in Servers \ {s} : pc[t] # "down")
    /\ UNCHANGED <<settings, file>>

-----------------------------------------------------------------------------
(* Clients: the transport calls of ssn_client_connect, and what ends a        *)
(* connection.                                                                *)

Goto(c, l) == pc' = [pc EXCEPT ![c] = l]

ClientCreate(c) ==
    /\ pc[c] = "idle"
    /\ Create(c, NoServer)
    /\ Goto(c, "close")
    /\ UNCHANGED <<settings, file, new, overlap>>

\* The three connect functions begin with closing the socket the transport was
\* created with.
ConnectClose(c) ==
    /\ pc[c] = "close"
    /\ Disconnect(c)
    /\ Goto(c, "socket")
    /\ UNCHANGED <<settings, file, new, overlap>>

\* The connect failed, sock_fd is closed, and ssn_client_connect destroys the
\* transport; the same when a connection is given up.
ClientDestroy(c) ==
    /\ Destroy({c})
    /\ Goto(c, "idle")
    /\ UNCHANGED <<settings, new, overlap>>

\* Then each opens another one; "connect" is where UDP has nothing to do.
ConnectSocket(c) ==
    /\ pc[c] = "socket"
    /\ \/ \E i \in Sockets :
            /\ Lowest(i)
            /\ sock' = [sock EXCEPT ![i] = creators[kind]]
            /\ tr' = [tr EXCEPT ![c].fd = i]
            /\ Goto(c, "connect")
            /\ UNCHANGED <<settings, file, new, overlap>>
       \/ TableFull /\ ClientDestroy(c)

\* connect() finds the listener l; its side of the connection is queued.
Reaches(c, l) ==
    /\ sock' = [sock EXCEPT ![tr[c].fd].st = "up", ![tr[c].fd].peer = l]
    /\ Goto(c, "connected")
    /\ UNCHANGED <<settings, file, tr, new, overlap>>

\* unix_transport_connect: connect() succeeds at once or fails, also on a full
\* queue (EAGAIN).
UnixConnect(c) ==
    /\ pc[c] = "connect" /\ kind = "unix"
    /\ \/ \E l \in Named : HasRoom(l) /\ Reaches(c, l)
       \/ ~(\E l \in Named : HasRoom(l)) /\ ClientDestroy(c)

\* tcp_transport_connect: the socket does not block, so that connect() may
\* also return EINPROGRESS.
TcpConnect(c) ==
    /\ pc[c] = "connect" /\ kind = "tcp"
    /\ \/ \E l \in Named : HasRoom(l) /\ Reaches(c, l)
       \/ Named = {} /\ ClientDestroy(c)
       \/ /\ sock' = [sock EXCEPT ![tr[c].fd].st = "syn"]
          /\ Goto(c, "select")
          /\ UNCHANGED <<settings, file, tr, new, overlap>>

\* Mutant: a socket that is writable is taken for connected.
SoErrorUnread(i) == 0

\* getsockopt(SO_ERROR) of a socket; nothing is known yet of one in progress.
SoError(i) == IF sock[i].st = "reset" THEN 1 ELSE 0

\* The select() of tcp_transport_connect, which is left out without a timeout,
\* and the check of SO_ERROR after it.
TcpSelect(c) ==
    /\ pc[c] = "select"
    /\ waits => sock[tr[c].fd].st # "syn"
    /\ \/ /\ SoError(tr[c].fd) = 0
          /\ Goto(c, "connected")
          /\ UNCHANGED <<settings, file, sock, tr, new, overlap>>
       \/ SoError(tr[c].fd) # 0 /\ ClientDestroy(c)

\* select() returned 0; the answer may have come since.
TcpTimeout(c) ==
    /\ pc[c] = "select" /\ waits
    /\ ClientDestroy(c)

\* udp_transport_connect only stores the address.
UdpConnect(c) ==
    /\ pc[c] = "connect" /\ kind = "udp"
    /\ Goto(c, "connected")
    /\ UNCHANGED <<settings, file, sock, tr, new, overlap>>

\* The network answers a connect in progress; it is silent when the queue of
\* the listener is full.
NetworkAnswers(i) ==
    /\ sock[i].st = "syn"
    /\ \/ \E l \in Named : /\ HasRoom(l)
                           /\ sock' = [sock EXCEPT ![i].st = "up", ![i].peer = l]
       \/ Named = {} /\ sock' = [sock EXCEPT ![i].st = "reset"]
    /\ UNCHANGED <<settings, file, tr, new, pc, overlap>>

\* A send on a connection whose other end is gone fails, and ssn_client_sendmsg
\* disconnects; a UDP send fails when the network does.
UnixSend(c) == kind = "unix" /\ sock[tr[c].fd].st = "eof"
TcpSend(c) == kind = "tcp" /\ sock[tr[c].fd].st \in {"eof", "reset"}
UdpSend(c) == kind = "udp"
SendFails(c) ==
    /\ pc[c] = "connected"
    /\ UnixSend(c) \/ TcpSend(c) \/ UdpSend(c)
    /\ Disconnect(c)
    /\ Goto(c, "lost")
    /\ UNCHANGED <<settings, file, new, overlap>>

\* ssn_client_disconnect.
ClientDisconnect(c) ==
    /\ pc[c] = "connected"
    /\ Disconnect(c)
    /\ Goto(c, "lost")
    /\ UNCHANGED <<settings, file, new, overlap>>

\* Closing the client, or connecting again.
ClientClose(c) ==
    /\ pc[c] \in {"connected", "lost"}
    /\ ClientDestroy(c)

\* Mutant: recv() returned 0 is taken for no data yet.
TcpRecvZero(o) == kind = "tcp" /\ sock[tr[o].fd].st = "reset"

\* recv() returns 0 at the end of the stream, and an error after a reset; UDP
\* has no end of a stream, but recvfrom() may fail at any time.
UnixRecv(o) == kind = "unix" /\ sock[tr[o].fd].st = "eof"
TcpRecv(o) == kind = "tcp" /\ sock[tr[o].fd].st \in {"eof", "reset"}
UdpRecv(o) == kind = "udp"

\* What a poll that finds it so does with the transport.
ClientRecv(c) ==
    /\ pc[c] = "connected"
    /\ UnixRecv(c) \/ TcpRecv(c) \/ UdpRecv(c)
    /\ ClientDestroy(c)

ServerRecv(o) ==
    /\ tr[o].live /\ tr[o].fd # NoSocket /\ pc[tr[o].by] = "up"
    /\ UnixRecv(o) \/ TcpRecv(o)
    /\ Destroy({o})
    /\ UNCHANGED <<settings, new, pc, overlap>>

-----------------------------------------------------------------------------
ServerNext(s) ==
    \/ ServerStart(s) \/ ServerCreate(s) \/ UnixListenUnlink(s) \/ UnixListen(s)
    \/ TcpListen(s) \/ UdpListen(s) \/ Accept(s) \/ AcceptWrap(s)
    \/ ServerDestroy(s) \/ ServerFree(s) \/ ServerCrash(s)
ClientNext(c) ==
    \/ ClientCreate(c) \/ ConnectClose(c) \/ ConnectSocket(c)
    \/ UnixConnect(c) \/ TcpConnect(c) \/ TcpSelect(c) \/ TcpTimeout(c) \/ UdpConnect(c)
    \/ SendFails(c) \/ ClientDisconnect(c) \/ ClientClose(c) \/ ClientRecv(c)
Next ==
    \/ \E s \in Servers : ServerNext(s)
    \/ \E o \in Accepted : ServerDisconnect(o) \/ ServerDrop(o) \/ ServerRecv(o)
    \/ \E c \in Clients : ClientNext(c)
    \/ \E i \in Sockets : NetworkAnswers(i)

\* Threads that are inside the API go on.  Servers and clients poll; a poll of
\* a server reads its connections before it accepts another one, so that a
\* connection it could read again and again is read.
Fairness ==
    /\ \A s \in Servers : WF_vars(AcceptWrap(s)) /\ WF_vars(ServerFree(s))
    /\ \A o \in Accepted : SF_vars(ServerRecv(o))
    /\ \A c \in Clients : WF_vars(TcpSelect(c)) /\ WF_vars(kind # "udp" /\ ClientRecv(c))
Spec == Init /\ [][Next]_vars /\ Fairness

-----------------------------------------------------------------------------
TypeOK ==
    /\ kind \in {"unix", "tcp", "udp"} /\ bare \in BOOLEAN /\ waits \in BOOLEAN
    /\ file \in {"none", "socket", "other"}
    /\ sock \in [Sockets -> SockRecords]
    /\ tr \in [Objects -> Transport]
    /\ new \in [Servers -> Sockets \cup {NoSocket}]
    /\ overlap \in BOOLEAN

\* The sockets some transport, or an accept in progress, answers for.
OwnedBy(o) == IF tr[o].live THEN tr[o].fd ELSE NoSocket

\* Every open socket belongs to one transport, or to one accept that has not
\* returned, and to no other: no path through create, connect, accept, listen
\* and their failures leaks a descriptor, and none is closed twice, which
\* would close what another thread has opened since (Issue #10).
OneOwner ==
    /\ \A i \in Sockets : sock[i].st # "free" =>
            \/ \E o \in Objects : OwnedBy(o) = i
            \/ \E s \in Servers : new[s] = i
    /\ \A o \in Objects : OwnedBy(o) # NoSocket =>
            /\ sock[OwnedBy(o)].st # "free"
            /\ \A p \in Objects \ {o} : OwnedBy(p) # OwnedBy(o)
            /\ \A s \in Servers : new[s] # OwnedBy(o)

\* When ssn_transport_connect has returned true, a listener took the connection:
\* a refused TCP connect is never reported as made (the check of SO_ERROR).  It
\* takes a timeout: without one, a connect in progress counts as made.
ConnectIsReal ==
    \A c \in Clients :
        pc[c] = "connected" /\ kind # "udp" /\ waits => sock[tr[c].fd].st \in {"up", "eof"}

\* A server that has started is reached through its address, whatever clients,
\* failed starts and crashes came before.  Two servers on one Unix path at the
\* same time are left out: the second takes the path, and the first removes it
\* from the second when it is destroyed.
AddressServed ==
    \A s \in Servers :
        pc[s] \in {"up", "wrap"} /\ (kind = "unix" => ~overlap) => sock[tr[s].fd].name

\* A transport with a descriptor whose connection no other transport holds.
Orphan(o) ==
    /\ kind # "udp" /\ OwnedBy(o) # NoSocket
    /\ sock[OwnedBy(o)].st \in {"up", "eof"}
    /\ \A p \in Objects : OwnedBy(p) # NoSocket => OwnedBy(p) # sock[OwnedBy(o)].peer
    /\ \A s \in Servers : new[s] # NoSocket => new[s] # sock[OwnedBy(o)].peer

\* When one side of a connection disconnects, destroys its transport or crashes,
\* the other side, which polls, gets rid of its own.
LossSeen == \A o \in Clients \cup Accepted : Orphan(o) ~> ~Orphan(o)

=============================================================================
