-------------------------- MODULE TransportsProofs --------------------------
(***************************************************************************)
(* For any number of servers, clients, connections and sockets: no         *)
(* transport leaks a descriptor or closes one that is not its own, a       *)
(* connect that is reported as made was made, and a server that has        *)
(* started is reached through its address.                                 *)
(*                                                                         *)
(* OneOwner needs to be strengthened: that two accepts do not share a      *)
(* descriptor, that a dead transport has none, and where in the code an    *)
(* object has none yet and may be given one (PlaceInv).  The other two     *)
(* rest on it: what others do to a socket that one object alone has is     *)
(* little (Ages), and AddrInv adds what is known of the socket on the way  *)
(* to a connection and that servers overlap only when overlap says so.     *)
(***************************************************************************)
EXTENDS Transports, TLAPS

\* Most leaves are first-order reasoning about functions, sets and records, which
\* Zenon does well; a leaf that needs arithmetic or sequences names SMT.
USE Zenon

Fd == Sockets \cup {NoSocket}

\* The descriptors f of the objects and n of the accepts in progress are all
\* different, and they are the open sockets U.
Owns(f, n, U) ==
    /\ f \in [Objects -> Fd] /\ n \in [Servers -> Fd]
    /\ \A o, p \in Objects : o # p /\ f[o] = f[p] => f[o] = NoSocket
    /\ \A o \in Objects, s \in Servers : f[o] = n[s] => n[s] = NoSocket
    /\ \A s, t \in Servers : s # t /\ n[s] = n[t] => n[s] = NoSocket
    /\ \A i \in Sockets :
            i \in U <=> (\E o \in Objects : f[o] = i) \/ (\E s \in Servers : n[s] = i)

Fds == [o \in Objects |-> tr[o].fd]
InUse == {i \in Sockets : sock[i].st # "free"}

SockRecord == [st : SockStates, peer : Fd, dead : Nat, name : BOOLEAN]

Types ==
    /\ kind \in {"unix", "tcp", "udp"}
    /\ sock \in [Sockets -> SockRecord]
    /\ tr \in [Objects -> Transport]
    /\ new \in [Servers -> Fd]
    /\ pc = [p \in Servers \cup Clients |-> pc[p]]

PlaceInv ==
    /\ \A o \in Objects : ~tr[o].live => tr[o].fd = NoSocket
    /\ \A s \in Servers : /\ pc[s] \in {"down", "create", "freeing"} => tr[s].fd = NoSocket
                          /\ new[s] # NoSocket => pc[s] = "wrap"
    /\ \A c \in Clients : /\ pc[c] = "idle" => tr[c].fd = NoSocket
                          /\ pc[c] # "idle" => tr[c].live
                          /\ pc[c] = "socket" => tr[c].fd = NoSocket

OwnInv == Types /\ Owns(Fds, new, InUse) /\ PlaceInv

-----------------------------------------------------------------------------
(* How ownership moves. *)

\* Socket 0 is none of the kernel's.
LEMMA NoSocketIsNone == NoSocket \notin Sockets
  BY SMTT(30) DEF NoSocket, Sockets

\* An object without a descriptor gets a free socket.
LEMMA OwnsTake ==
  ASSUME NEW f, NEW n, NEW U, Owns(f, n, U), NEW o \in Objects, NEW i \in Sockets,
         i \notin U, f[o] = NoSocket
  PROVE  Owns([f EXCEPT ![o] = i], n, U \cup {i})
  BY NoSocketIsNone, SMTT(30) DEF Owns, Fd

\* accept() returns a free socket.
LEMMA OwnsAccept ==
  ASSUME NEW f, NEW n, NEW U, Owns(f, n, U), NEW s \in Servers, NEW i \in Sockets,
         i \notin U, n[s] = NoSocket
  PROVE  Owns(f, [n EXCEPT ![s] = i], U \cup {i})
  BY NoSocketIsNone, SMTT(30) DEF Owns, Fd

\* The accepted descriptor is installed in an object that has none.
LEMMA OwnsInstall ==
  ASSUME NEW f, NEW n, NEW U, Owns(f, n, U), NEW s \in Servers, NEW o \in Objects,
         f[o] = NoSocket
  PROVE  Owns([f EXCEPT ![o] = n[s]], [n EXCEPT ![s] = NoSocket], U)
  BY NoSocketIsNone, ZenonT(30) DEF Owns, Fd

\* Objects and accepts may give up what they have; it is closed.
LEMMA OwnsRelease ==
  ASSUME NEW f, NEW n, NEW U, Owns(f, n, U),
         NEW g \in [Objects -> Fd], NEW m \in [Servers -> Fd], NEW V,
         \A o \in Objects : g[o] \in {f[o], NoSocket},
         \A s \in Servers : m[s] \in {n[s], NoSocket},
         \A i \in Sockets : i \in V <=>
            /\ i \in U
            /\ \A o \in Objects : f[o] = i => g[o] = i
            /\ \A s \in Servers : n[s] = i => m[s] = i
  PROVE  Owns(g, m, V)
  BY NoSocketIsNone, SMTT(30) DEF Owns, Fd

-----------------------------------------------------------------------------
(* What the kernel's operations do to the set of open sockets. *)

\* close() frees the sockets it is given and no other, and what becomes of the
\* other ends is a socket state.
LEMMA ClosedSock ==
  ASSUME Types, NEW I
  PROVE  /\ Closed(I) \in [Sockets -> SockRecord]
         /\ \A i \in Sockets : Closed(I)[i].st # "free" <=> sock[i].st # "free" /\ i \notin I
<1> SUFFICES ASSUME NEW i \in Sockets
             PROVE  /\ AfterClose(sock, I, i) \in SockRecord
                    /\ AfterClose(sock, I, i).st # "free" <=> sock[i].st # "free" /\ i \notin I
  BY DEF Closed
<1>1. sock[i] \in SockRecord
  BY DEF Types
<1>2. CASE i \in I
  BY <1>2 DEF AfterClose, FreeSock, SockRecord, SockStates, Fd
<1>3. CASE i \notin I /\ sock[i].peer \in I /\ sock[i].st \in {"syn", "up"}
  <2>1. AfterClose(sock, I, i)
          = [sock[i] EXCEPT !.st = IF sock[i].st = "syn" THEN "reset" ELSE "eof",
                            !.peer = NoSocket]
    BY <1>3 DEF AfterClose
  <2> QED
    BY <1>1, <1>3, <2>1 DEF SockRecord, SockStates, Fd
<1>4. CASE i \notin I /\ ~(sock[i].peer \in I /\ sock[i].st \in {"syn", "up"})
  <2>1. \/ AfterClose(sock, I, i) = sock[i]
        \/ AfterClose(sock, I, i) = [sock[i] EXCEPT !.dead = sock[i].dead + 1]
    BY <1>4 DEF AfterClose
  <2> QED
    BY <1>1, <1>4, <2>1, SMTT(30) DEF SockRecord
<1> QED
  BY <1>2, <1>3, <1>4

\* unlink() opens and closes nothing.
LEMMA UnlinkedSock ==
  ASSUME NEW S \in [Sockets -> SockRecord]
  PROVE  /\ Unlinked(S) \in [Sockets -> SockRecord]
         /\ \A i \in Sockets : Unlinked(S)[i].st = S[i].st
  BY DEF Unlinked, SockRecord

\* ssn_transport_destroy closes the descriptors of the transports in O.
LEMMA DestroySock ==
  ASSUME Types, NEW O \in SUBSET Objects, Destroy(O)
  PROVE  /\ sock' \in [Sockets -> SockRecord]
         /\ tr' \in [Objects -> Transport]
         /\ \A i \in Sockets : i \in InUse' <=> i \in InUse /\ \A o \in O : tr[o].fd # i
         /\ \A o \in Objects : tr'[o] = IF o \in O THEN NoTransport ELSE tr[o]
<1>1. /\ sock' \in [Sockets -> SockRecord]
      /\ \A i \in Sockets : sock'[i].st # "free" <=> sock[i].st # "free" /\ i \notin FdsOf(O)
  BY ClosedSock, UnlinkedSock, SMTT(30) DEF Destroy
<1>2. \A i \in Sockets : i \in FdsOf(O) <=> \E o \in O : tr[o].fd = i
  BY NoSocketIsNone DEF FdsOf
<1>3. \A o \in Objects : tr'[o] = IF o \in O THEN NoTransport ELSE tr[o]
  BY DEF Destroy
<1>4. tr' \in [Objects -> Transport]
  BY <1>3 DEF Destroy, Types, Transport, NoTransport
<1> QED
  BY <1>1, <1>2, <1>3, <1>4 DEF InUse

-----------------------------------------------------------------------------
(* Ownership in the state: which steps keep, give up or take descriptors. *)

\* Steps that close exactly the descriptors that are given up, if any.
LEMMA ReleaseOwns ==
  ASSUME OwnInv, Types',
         \A o \in Objects : tr'[o].fd \in {tr[o].fd, NoSocket},
         \A s \in Servers : new'[s] \in {new[s], NoSocket},
         \A i \in Sockets : sock'[i].st # "free" <=>
            /\ sock[i].st # "free"
            /\ \A o \in Objects : tr[o].fd = i => tr'[o].fd = i
            /\ \A s \in Servers : new[s] = i => new'[s] = i
  PROVE  Owns(Fds', new', InUse')
<1>1. /\ Fds \in [Objects -> Fd] /\ \A o \in Objects : Fds[o] = tr[o].fd
      /\ Fds' \in [Objects -> Fd] /\ \A o \in Objects : Fds'[o] = tr'[o].fd
  BY DEF OwnInv, Types, Fds, Transport, Fd
<1>2. \A i \in Sockets : i \in InUse' <=>
            /\ i \in InUse
            /\ \A o \in Objects : Fds[o] = i => Fds'[o] = i
            /\ \A s \in Servers : new[s] = i => new'[s] = i
  BY <1>1, SMTT(30) DEF InUse
<1> QED
  BY <1>1, <1>2, OwnsRelease, SMTT(30) DEF OwnInv, Types

\* Transports in O are destroyed and their users move on; no accept is touched.
LEMMA DestroyOwns ==
  ASSUME OwnInv, NEW O \in SUBSET Objects, Destroy(O), UNCHANGED <<settings, new>>,
         pc' = [p \in Servers \cup Clients |-> pc'[p]]
  PROVE  /\ Types' /\ Owns(Fds', new', InUse')
         /\ \A o \in Objects : tr'[o] = IF o \in O THEN NoTransport ELSE tr[o]
<1>1. /\ sock' \in [Sockets -> SockRecord]
      /\ tr' \in [Objects -> Transport]
      /\ \A i \in Sockets : i \in InUse' <=> i \in InUse /\ \A o \in O : tr[o].fd # i
      /\ \A o \in Objects : tr'[o] = IF o \in O THEN NoTransport ELSE tr[o]
  BY DestroySock DEF OwnInv
<1>2. Types'
  BY <1>1 DEF OwnInv, Types, settings
<1>3. \A o \in Objects : tr'[o].fd = IF o \in O THEN NoSocket ELSE tr[o].fd
  BY <1>1, SMTT(30) DEF NoTransport
<1>4. \A i \in Sockets : sock'[i].st # "free" <=>
            /\ sock[i].st # "free"
            /\ \A o \in Objects : tr[o].fd = i => tr'[o].fd = i
            /\ \A s \in Servers : new[s] = i => new'[s] = i
  BY <1>1, <1>3, NoSocketIsNone, SMTT(30) DEF InUse
<1>5. Owns(Fds', new', InUse')
  BY <1>2, <1>3, <1>4, ReleaseOwns
<1> QED
  BY <1>1, <1>2, <1>5

\* ssn_transport_disconnect gives up one descriptor.
LEMMA DisconnectOwns ==
  ASSUME OwnInv, NEW o \in Objects, Disconnect(o), UNCHANGED <<settings, new>>,
         pc' = [p \in Servers \cup Clients |-> pc'[p]]
  PROVE  /\ Types' /\ Owns(Fds', new', InUse')
         /\ \A p \in Objects \ {o} : tr'[p] = tr[p]
         /\ tr'[o].fd = NoSocket /\ tr'[o].live = tr[o].live
<1>1. /\ sock' \in [Sockets -> SockRecord]
      /\ \A i \in Sockets : sock'[i].st # "free" <=> sock[i].st # "free" /\ i \notin FdsOf({o})
  BY ClosedSock DEF Disconnect, OwnInv
<1>2. \A i \in Sockets : i \in FdsOf({o}) <=> tr[o].fd = i
  BY NoSocketIsNone DEF FdsOf
<1>3. tr' \in [Objects -> Transport] /\ tr' = [tr EXCEPT ![o].fd = NoSocket]
  BY DEF Disconnect, OwnInv, Types, Transport
<1>4. /\ \A p \in Objects \ {o} : tr'[p] = tr[p]
      /\ tr'[o].fd = NoSocket /\ tr'[o].live = tr[o].live
  BY <1>3 DEF OwnInv, Types, Transport
<1>5. Types'
  BY <1>1, <1>3 DEF OwnInv, Types, settings
<1>6. Owns(Fds', new', InUse')
  BY <1>1, <1>2, <1>4, <1>5, NoSocketIsNone, ReleaseOwns
<1> QED
  BY <1>4, <1>5, <1>6

\* Steps that only change what is known of sockets that are open.
LEMMA KeepOwns ==
  ASSUME OwnInv, Types', UNCHANGED new,
         \A o \in Objects : tr'[o].fd = tr[o].fd,
         \A i \in Sockets : sock'[i].st # "free" <=> sock[i].st # "free"
  PROVE  Owns(Fds', new', InUse')
  BY ReleaseOwns

\* What the creators of the three kinds open is a socket.
LEMMA CreatedSock ==
  ASSUME Types
  PROVE  creators[kind] \in SockRecord /\ creators[kind].st # "free"
<1>1. /\ UnixCreate \in SockRecord /\ TcpCreate \in SockRecord /\ UdpCreate \in SockRecord
      /\ UnixCreate.st # "free" /\ TcpCreate.st # "free" /\ UdpCreate.st # "free"
  BY DEF UnixCreate, TcpCreate, UdpCreate, FreeSock, SockRecord, SockStates, Fd
<1> QED
  BY <1>1, SMTT(30) DEF Types, creators

\* socket() for an object that has no descriptor.
LEMMA TakeOwns ==
  ASSUME OwnInv, Types', UNCHANGED new, NEW o \in Objects, NEW i \in Sockets,
         Lowest(i), tr[o].fd = NoSocket, tr'[o].fd = i,
         \A p \in Objects \ {o} : tr'[p].fd = tr[p].fd,
         sock' = [sock EXCEPT ![i] = creators[kind]]
  PROVE  Owns(Fds', new', InUse')
<1>1. creators[kind].st # "free"
  BY CreatedSock DEF OwnInv
<1>2. i \notin InUse /\ InUse' = InUse \cup {i}
  BY <1>1 DEF InUse, Lowest, OwnInv, Types
<1>3. Fds[o] = NoSocket /\ Fds' = [Fds EXCEPT ![o] = i]
  BY DEF Fds
<1>4. Owns([Fds EXCEPT ![o] = i], new, InUse \cup {i})
  BY <1>2, <1>3, OwnsTake DEF OwnInv
<1> QED
  BY <1>2, <1>3, <1>4

-----------------------------------------------------------------------------
(* Places: where a server or a client is, and what it may hold there. *)

\* Servers, clients and accepted transports are different objects.
LEMMA Disjoint ==
  /\ \A s \in Servers : s \in Objects /\ s \notin Clients /\ s \notin Accepted
  /\ \A c \in Clients : c \in Objects /\ c \notin Servers /\ c \notin Accepted
  /\ \A a \in Accepted : a \in Objects /\ a \notin Servers /\ a \notin Clients
  BY TransportsAssumption DEF Objects

\* A step of a server leaves clients and other servers where they are.
LEMMA PlaceServer ==
  ASSUME OwnInv, NEW s \in Servers, NEW l, pc' = [pc EXCEPT ![s] = l],
         \A c \in Clients : tr'[c] = tr[c],
         \A t \in Servers \ {s} : tr'[t] = tr[t] /\ new'[t] = new[t],
         \A o \in Objects : ~tr'[o].live => tr'[o].fd = NoSocket,
         l \in {"down", "create", "freeing"} => tr'[s].fd = NoSocket,
         new'[s] # NoSocket => l = "wrap"
  PROVE  PlaceInv' /\ pc' = [p \in Servers \cup Clients |-> pc'[p]]
<1>1. pc' = [p \in Servers \cup Clients |-> pc'[p]]
  BY DEF OwnInv, Types
<1>2. /\ pc'[s] = l
      /\ \A t \in (Servers \cup Clients) \ {s} : pc'[t] = pc[t]
  BY DEF OwnInv, Types
<1> QED
  BY <1>1, <1>2, Disjoint, SMTT(30) DEF OwnInv, PlaceInv

\* A step of a client leaves everybody else where they are.
LEMMA PlaceClient ==
  ASSUME OwnInv, NEW c \in Clients, NEW l, pc' = [pc EXCEPT ![c] = l], UNCHANGED new,
         \A o \in Objects \ {c} : tr'[o] = tr[o],
         l = "idle" => tr'[c].fd = NoSocket,
         l # "idle" => tr'[c].live,
         l = "socket" => tr'[c].fd = NoSocket
  PROVE  PlaceInv' /\ pc' = [p \in Servers \cup Clients |-> pc'[p]]
<1>1. pc' = [p \in Servers \cup Clients |-> pc'[p]]
  BY DEF OwnInv, Types
<1>2. /\ pc'[c] = l
      /\ \A t \in (Servers \cup Clients) \ {c} : pc'[t] = pc[t]
  BY DEF OwnInv, Types
<1> QED
  BY <1>1, <1>2, Disjoint, ZenonT(30) DEF OwnInv, PlaceInv

\* A server whose transport is destroyed goes on to free what it has.
LEMMA ServerDestroyStep ==
  ASSUME OwnInv, NEW s \in Servers, Destroy({s}), pc[s] # "wrap",
         pc' = [pc EXCEPT ![s] = "freeing"], UNCHANGED <<settings, new>>
  PROVE  OwnInv'
<1>1. pc' = [p \in Servers \cup Clients |-> pc'[p]]
  BY DEF OwnInv, Types
<1>2. /\ Types' /\ Owns(Fds', new', InUse')
      /\ \A o \in Objects : tr'[o] = IF o \in {s} THEN NoTransport ELSE tr[o]
  BY <1>1, Disjoint, DestroyOwns
<1>3. new[s] = NoSocket
  BY DEF OwnInv, PlaceInv
<1>4. PlaceInv'
  <2>1. /\ \A c \in Clients : tr'[c] = tr[c]
        /\ \A t \in Servers \ {s} : tr'[t] = tr[t] /\ new'[t] = new[t]
    BY <1>2, Disjoint
  <2>2. tr'[s].fd = NoSocket
    BY <1>2, Disjoint, SMTT(30) DEF NoTransport
  <2>3. \A o \in Objects : ~tr'[o].live => tr'[o].fd = NoSocket
    BY <1>2, <2>2 DEF OwnInv, PlaceInv
  <2> QED
    BY <1>3, <2>1, <2>2, <2>3, PlaceServer
<1> QED
  BY <1>2, <1>4 DEF OwnInv

\* A client whose transport is destroyed is idle.
LEMMA ClientDestroyStep ==
  ASSUME OwnInv, NEW c \in Clients, ClientDestroy(c)
  PROVE  OwnInv'
<1>1. /\ Destroy({c}) /\ pc' = [pc EXCEPT ![c] = "idle"]
      /\ UNCHANGED <<settings, new>>
  BY DEF ClientDestroy, Goto
<1>2. pc' = [p \in Servers \cup Clients |-> pc'[p]]
  BY <1>1 DEF OwnInv, Types
<1>3. /\ Types' /\ Owns(Fds', new', InUse')
      /\ \A o \in Objects : tr'[o] = IF o \in {c} THEN NoTransport ELSE tr[o]
  BY <1>1, <1>2, Disjoint, DestroyOwns
<1>4. PlaceInv'
  <2>1. tr'[c].fd = NoSocket /\ \A o \in Objects \ {c} : tr'[o] = tr[o]
    BY <1>3, Disjoint, SMTT(30) DEF NoTransport
  <2> QED
    BY <1>1, <2>1, PlaceClient
<1> QED
  BY <1>3, <1>4 DEF OwnInv

-----------------------------------------------------------------------------
(* The steps of a server. *)

\* Steps in which server s neither takes nor gives up a descriptor.
LEMMA ServerQuiet ==
  ASSUME OwnInv, NEW s \in Servers, NEW l, pc' = [pc EXCEPT ![s] = l],
         UNCHANGED <<settings, new>>, sock' \in [Sockets -> SockRecord],
         \A i \in Sockets : sock'[i].st # "free" <=> sock[i].st # "free",
         tr' = tr \/ tr' = [tr EXCEPT ![s].srv = TRUE],
         l \in {"down", "create", "freeing"} => tr[s].fd = NoSocket,
         new[s] # NoSocket => l = "wrap"
  PROVE  OwnInv'
<1>1. s \in Objects /\ tr \in [Objects -> Transport]
  BY Disjoint DEF OwnInv, Types
<1>2. /\ tr' \in [Objects -> Transport]
      /\ \A o \in Objects : tr'[o].fd = tr[o].fd /\ (tr'[o].live <=> tr[o].live)
      /\ \A o \in Objects \ {s} : tr'[o] = tr[o]
  <2>1. CASE tr' = tr
    BY <1>1, <2>1
  <2>2. CASE tr' = [tr EXCEPT ![s].srv = TRUE]
    BY <1>1, <2>2 DEF Transport
  <2> QED
    BY <2>1, <2>2
<1>3. PlaceInv' /\ pc' = [p \in Servers \cup Clients |-> pc'[p]]
  <2>1. /\ \A c \in Clients : tr'[c] = tr[c]
        /\ \A t \in Servers \ {s} : tr'[t] = tr[t] /\ new'[t] = new[t]
    BY <1>2, Disjoint
  <2>2. \A o \in Objects : ~tr'[o].live => tr'[o].fd = NoSocket
    BY <1>2 DEF OwnInv, PlaceInv
  <2> QED
    BY <1>1, <1>2, <2>1, <2>2, PlaceServer
<1>4. Types'
  BY <1>2, <1>3 DEF OwnInv, Types, settings
<1>5. Owns(Fds', new', InUse')
  BY <1>2, <1>4, KeepOwns
<1> QED
  BY <1>3, <1>4, <1>5 DEF OwnInv

\* Starting and listening.
LEMMA StartSteps ==
  ASSUME OwnInv, NEW s \in Servers,
         \/ ServerStart(s) \/ ServerCreate(s)
         \/ UnixListenUnlink(s) \/ UnixListen(s) \/ TcpListen(s) \/ UdpListen(s)
  PROVE  OwnInv'
<1>1. pc[s] # "wrap" /\ new[s] = NoSocket
  BY DEF ServerStart, ServerCreate, UnixListenUnlink, UnixListen, TcpListen, UdpListen,
     OwnInv, PlaceInv
<1>2. sock \in [Sockets -> SockRecord] /\ tr \in [Objects -> Transport] /\ s \in Objects
  BY Disjoint DEF OwnInv, Types
<1>3. /\ Unlinked(sock) \in [Sockets -> SockRecord]
      /\ \A i \in Sockets : Unlinked(sock)[i].st = sock[i].st
  BY <1>2, UnlinkedSock
<1>4. CASE ServerStart(s)
  <2>1. PICK l \in {"freeing", "create"} : pc' = [pc EXCEPT ![s] = l]
    BY <1>4 DEF ServerStart
  <2>2. sock' \in {sock, Unlinked(sock)} /\ UNCHANGED <<settings, tr, new>>
    BY <1>4 DEF ServerStart
  <2>3. tr[s].fd = NoSocket
    BY <1>4 DEF ServerStart, OwnInv, PlaceInv
  <2> QED
    BY <1>1, <1>2, <1>3, <2>1, <2>2, <2>3, ServerQuiet
<1>5. CASE ServerCreate(s)
  <2>1. tr[s].fd = NoSocket /\ UNCHANGED <<settings, new>>
    BY <1>5 DEF ServerCreate, OwnInv, PlaceInv
  <2>2. CASE TableFull /\ pc' = [pc EXCEPT ![s] = "freeing"] /\ UNCHANGED <<sock, tr>>
    BY <1>1, <1>2, <2>1, <2>2, ServerQuiet
  <2>3. CASE Create(s, s) /\ pc' = [pc EXCEPT ![s] = "listen"]
    <3>1. PICK i \in Sockets :
              /\ Lowest(i)
              /\ sock' = [sock EXCEPT ![i] = creators[kind]]
              /\ tr' = [tr EXCEPT ![s] = [live |-> TRUE, fd |-> i, srv |-> FALSE, by |-> s]]
      BY <2>3 DEF Create
    <3>2. creators[kind] \in SockRecord
      BY CreatedSock DEF OwnInv
    <3>3. sock' \in [Sockets -> SockRecord]
      BY <1>2, <3>1, <3>2
    <3>4. /\ tr' \in [Objects -> Transport] /\ tr'[s].live /\ tr'[s].fd = i
          /\ \A o \in Objects \ {s} : tr'[o] = tr[o]
      BY <1>2, <3>1 DEF Transport
    <3>5. /\ \A c \in Clients : tr'[c] = tr[c]
          /\ \A t \in Servers \ {s} : tr'[t] = tr[t] /\ new'[t] = new[t]
          /\ new'[s] = NoSocket
      BY <1>1, <2>1, <3>4, Disjoint
    <3>6. \A o \in Objects : ~tr'[o].live => tr'[o].fd = NoSocket
      BY <3>4 DEF OwnInv, PlaceInv
    <3>7. PlaceInv' /\ pc' = [p \in Servers \cup Clients |-> pc'[p]]
      BY <2>3, <3>5, <3>6, PlaceServer
    <3>8. Types'
      BY <2>1, <3>3, <3>4, <3>7 DEF OwnInv, Types, settings
    <3>9. Owns(Fds', new', InUse')
      BY <1>2, <2>1, <3>1, <3>4, <3>8, TakeOwns
    <3> QED
      BY <3>7, <3>8, <3>9 DEF OwnInv
  <2> QED
    BY <1>5, <2>2, <2>3 DEF ServerCreate
<1>6. CASE ListenFails(s)
  BY <1>1, <1>6, ServerDestroyStep DEF ListenFails
<1>7. CASE ListenOk(s)
  <2>1. PICK x \in {"dgram", "listen"} :
            sock' = [sock EXCEPT ![tr[s].fd].st = x, ![tr[s].fd].name = TRUE]
    BY <1>7 DEF ListenOk
  <2>2. tr[s].fd \in Sockets => sock[tr[s].fd].st # "free"
    BY <1>2, NoSocketIsNone DEF OwnInv, Owns, Fds, InUse
  <2>3. /\ sock' \in [Sockets -> SockRecord]
        /\ \A i \in Sockets : sock'[i].st # "free" <=> sock[i].st # "free"
    <3>1. CASE tr[s].fd \notin Sockets
      BY <1>2, <2>1, <3>1
    <3>2. CASE tr[s].fd \in Sockets
      <4> DEFINE r == [sock[tr[s].fd] EXCEPT !.st = x, !.name = TRUE]
      <4>1. sock' = [sock EXCEPT ![tr[s].fd] = r]
        BY <1>2, <2>1, <3>2
      <4>2. r \in SockRecord /\ r.st # "free"
        BY <1>2, <3>2, ZenonT(30) DEF SockRecord, SockStates
      <4> HIDE DEF r
      <4> QED
        BY <1>2, <2>2, <3>2, <4>1, <4>2
    <3> QED
      BY <3>1, <3>2
  <2>4. /\ tr' = [tr EXCEPT ![s].srv = TRUE] /\ pc' = [pc EXCEPT ![s] = "up"]
        /\ UNCHANGED <<settings, new>>
    BY <1>7 DEF ListenOk
  <2> QED
    BY <1>1, <2>3, <2>4, ServerQuiet
<1>8. CASE UnixListenUnlink(s) /\ ~ListenFails(s)
  BY <1>1, <1>2, <1>3, <1>8, ServerQuiet DEF UnixListenUnlink
<1> QED
  BY <1>4, <1>5, <1>6, <1>7, <1>8 DEF UnixListenUnlink, UnixListen, TcpListen, UdpListen

\* accept() gives the server a descriptor no transport has yet.
LEMMA AcceptStep ==
  ASSUME OwnInv, NEW s \in Servers, Accept(s)
  PROVE  OwnInv'
<1>1. /\ pc[s] = "up" /\ pc' = [pc EXCEPT ![s] = "wrap"]
      /\ UNCHANGED <<settings, tr>> /\ new[s] = NoSocket
  BY DEF Accept, OwnInv, PlaceInv
<1>2. sock \in [Sockets -> SockRecord] /\ tr \in [Objects -> Transport]
      /\ new \in [Servers -> Fd]
  BY DEF OwnInv, Types
<1>3. PICK i \in Sockets :
          /\ Lowest(i) /\ new' = [new EXCEPT ![s] = i]
          /\ \/ \E c \in Queue(tr[s].fd) :
                  sock' = [sock EXCEPT ![i] = [FreeSock EXCEPT !.st = "up", !.peer = c],
                                       ![c].peer = i]
             \/ /\ sock[tr[s].fd].dead > 0
                /\ sock' = [sock EXCEPT ![i] = [FreeSock EXCEPT !.st = "eof"],
                                        ![tr[s].fd].dead = @ - 1]
  BY DEF Accept
<1>4. sock[i].st = "free" /\ i \notin InUse
  BY <1>3 DEF Lowest, InUse
<1>5. /\ sock' \in [Sockets -> SockRecord] /\ sock'[i].st # "free"
      /\ \A j \in Sockets \ {i} : sock'[j].st = sock[j].st
  <2>1. ASSUME NEW c \in Queue(tr[s].fd),
               sock' = [sock EXCEPT ![i] = [FreeSock EXCEPT !.st = "up", !.peer = c],
                                    ![c].peer = i]
        PROVE  /\ sock' \in [Sockets -> SockRecord] /\ sock'[i].st # "free"
               /\ \A j \in Sockets \ {i} : sock'[j].st = sock[j].st
    <3>1. c \in Sockets /\ c # i
      BY <1>4, <2>1 DEF Queue
    <3> DEFINE a == [FreeSock EXCEPT !.st = "up", !.peer = c]
               b == [sock[c] EXCEPT !.peer = i]
    <3>2. a \in SockRecord /\ a.st # "free" /\ b \in SockRecord /\ b.st = sock[c].st
      BY <1>2, <3>1 DEF FreeSock, SockRecord, SockStates, Fd
    <3>3. sock' = [sock EXCEPT ![i] = a, ![c] = b]
      BY <1>2, <2>1, <3>1
    <3> HIDE DEF a, b
    <3> QED
      BY <1>2, <3>1, <3>2, <3>3
  <2>2. ASSUME sock[tr[s].fd].dead > 0,
               sock' = [sock EXCEPT ![i] = [FreeSock EXCEPT !.st = "eof"],
                                    ![tr[s].fd].dead = @ - 1]
        PROVE  /\ sock' \in [Sockets -> SockRecord] /\ sock'[i].st # "free"
               /\ \A j \in Sockets \ {i} : sock'[j].st = sock[j].st
    <3> DEFINE a == [FreeSock EXCEPT !.st = "eof"]
    <3>1. a \in SockRecord /\ a.st # "free"
      BY DEF FreeSock, SockRecord, SockStates, Fd
    <3>2. CASE tr[s].fd \notin Sockets
      <4>1. sock' = [sock EXCEPT ![i] = a]
        BY <1>2, <2>2, <3>2
      <4> HIDE DEF a
      <4> QED
        BY <1>2, <3>1, <4>1
    <3>3. CASE tr[s].fd \in Sockets
      <4>1. tr[s].fd # i
        BY <1>1, <1>4, Disjoint DEF Accept
      <4> DEFINE b == [sock[tr[s].fd] EXCEPT !.dead = @ - 1]
      <4>2. b \in SockRecord /\ b.st = sock[tr[s].fd].st
        BY <1>2, <2>2, <3>3, SMTT(30) DEF SockRecord
      <4>3. sock' = [sock EXCEPT ![i] = a, ![tr[s].fd] = b]
        BY <1>2, <2>2, <3>3, <4>1
      <4> HIDE DEF a, b
      <4> QED
        BY <1>2, <3>1, <3>3, <4>1, <4>2, <4>3
    <3> QED
      BY <3>2, <3>3
  <2> QED
    BY <1>3, <2>1, <2>2
<1>6. InUse' = InUse \cup {i} /\ Fds' = Fds
  BY <1>1, <1>5 DEF InUse, Fds
<1>7. Owns(Fds', new', InUse')
  BY <1>1, <1>3, <1>4, <1>6, OwnsAccept DEF OwnInv
<1>8. PlaceInv' /\ pc' = [p \in Servers \cup Clients |-> pc'[p]]
  <2>1. \A t \in Servers \ {s} : new'[t] = new[t]
    BY <1>2, <1>3
  <2>2. \A o \in Objects : ~tr'[o].live => tr'[o].fd = NoSocket
    BY <1>1 DEF OwnInv, PlaceInv
  <2> QED
    BY <1>1, <2>1, <2>2, PlaceServer
<1>9. Types'
  BY <1>1, <1>2, <1>3, <1>5, <1>8 DEF OwnInv, Types, settings, Fd
<1> QED
  BY <1>7, <1>8, <1>9 DEF OwnInv

\* The accepted descriptor is handed to a new transport, or closed.
LEMMA WrapStep ==
  ASSUME OwnInv, NEW s \in Servers, AcceptWrap(s)
  PROVE  OwnInv'
<1>1. /\ pc' = [pc EXCEPT ![s] = "up"] /\ new' = [new EXCEPT ![s] = NoSocket]
      /\ UNCHANGED settings
  BY DEF AcceptWrap
<1>2. /\ sock \in [Sockets -> SockRecord] /\ tr \in [Objects -> Transport]
      /\ new \in [Servers -> Fd]
  BY DEF OwnInv, Types
<1>3. /\ new' \in [Servers -> Fd] /\ new'[s] = NoSocket
      /\ \A t \in Servers \ {s} : new'[t] = new[t]
  BY <1>1, <1>2 DEF Fd
<1>4. ASSUME NEW o \in Accepted, ~tr[o].live, AcceptInstall(s, o)
      PROVE  OwnInv'
  <2>1. /\ tr' = [tr EXCEPT ![o] = [live |-> TRUE, fd |-> new[s], srv |-> FALSE, by |-> s]]
        /\ sock' = sock
    BY <1>4 DEF AcceptInstall
  <2>2. /\ tr' \in [Objects -> Transport] /\ tr'[o].live /\ tr'[o].fd = new[s]
        /\ \A p \in Objects \ {o} : tr'[p] = tr[p]
    BY <1>2, <2>1, Disjoint DEF Transport, Fd
  <2>3. tr[o].fd = NoSocket /\ o \in Objects
    BY <1>4, Disjoint DEF OwnInv, PlaceInv
  <2>4. Fds[o] = NoSocket /\ Fds' = [Fds EXCEPT ![o] = new[s]] /\ InUse' = InUse
    BY <2>1, <2>2, <2>3 DEF Fds, InUse
  <2>5. Owns(Fds', new', InUse')
    BY <1>1, <2>3, <2>4, OwnsInstall DEF OwnInv
  <2>6. PlaceInv' /\ pc' = [p \in Servers \cup Clients |-> pc'[p]]
    <3>1. /\ \A c \in Clients : tr'[c] = tr[c]
          /\ \A t \in Servers \ {s} : tr'[t] = tr[t] /\ new'[t] = new[t]
      BY <1>3, <2>2, Disjoint
    <3>2. \A p \in Objects : ~tr'[p].live => tr'[p].fd = NoSocket
      BY <2>2 DEF OwnInv, PlaceInv
    <3> QED
      BY <1>1, <1>3, <3>1, <3>2, PlaceServer
  <2>7. Types'
    BY <1>1, <1>2, <1>3, <2>1, <2>2, <2>6 DEF OwnInv, Types, settings
  <2> QED
    BY <2>5, <2>6, <2>7 DEF OwnInv
<1>5. ASSUME sock' = Closed({new[s]}), UNCHANGED tr
      PROVE  OwnInv'
  <2>1. /\ sock' \in [Sockets -> SockRecord]
        /\ \A i \in Sockets : sock'[i].st # "free" <=> sock[i].st # "free" /\ i # new[s]
    BY <1>5, ClosedSock DEF OwnInv
  <2>2. PlaceInv' /\ pc' = [p \in Servers \cup Clients |-> pc'[p]]
    <3>1. \A p \in Objects : ~tr'[p].live => tr'[p].fd = NoSocket
      BY <1>5 DEF OwnInv, PlaceInv
    <3> QED
      BY <1>1, <1>3, <1>5, <3>1, PlaceServer
  <2>3. Types'
    BY <1>1, <1>2, <1>3, <1>5, <2>1, <2>2 DEF OwnInv, Types, settings
  <2>4. \A i \in Sockets : (\A t \in Servers : new[t] = i => new'[t] = i) <=> i # new[s]
    <3>1. \A t \in Servers \ {s} : new[t] = new[s] => new[s] = NoSocket
      BY DEF OwnInv, Owns
    <3> QED
      BY <1>3, <3>1, NoSocketIsNone
  <2>5. Owns(Fds', new', InUse')
    BY <1>3, <1>5, <2>1, <2>3, <2>4, ReleaseOwns
  <2> QED
    BY <2>2, <2>3, <2>5 DEF OwnInv
<1> QED
  BY <1>4, <1>5 DEF AcceptWrap

\* ssn_server_free_resources and a crash: the server gives up the transports in
\* O and the accept it is in.
LEMMA GoneStep ==
  ASSUME OwnInv, NEW s \in Servers, NEW O \in SUBSET (Accepted \cup {s}),
         tr[s].fd = NoSocket \/ s \in O,
         sock' \in [Sockets -> SockRecord],
         \A i \in Sockets : sock'[i].st # "free" <=>
            sock[i].st # "free" /\ i # new[s] /\ \A o \in O : tr[o].fd # i,
         tr' = [o \in Objects |-> IF o \in O THEN NoTransport ELSE tr[o]],
         new' = [new EXCEPT ![s] = NoSocket],
         pc' = [pc EXCEPT ![s] = "down"], UNCHANGED settings
  PROVE  OwnInv'
<1>1. /\ tr \in [Objects -> Transport] /\ new \in [Servers -> Fd] /\ O \subseteq Objects
  BY Disjoint, ZenonT(30) DEF OwnInv, Types
<1>2. /\ new' \in [Servers -> Fd] /\ new'[s] = NoSocket
      /\ \A t \in Servers \ {s} : new'[t] = new[t]
  BY <1>1 DEF Fd
<1>3. /\ tr' \in [Objects -> Transport]
      /\ \A o \in O : ~tr'[o].live /\ tr'[o].fd = NoSocket
      /\ \A o \in Objects \ O : tr'[o] = tr[o]
  BY <1>1 DEF Transport, NoTransport
<1>4. PlaceInv' /\ pc' = [p \in Servers \cup Clients |-> pc'[p]]
  <2>1. /\ \A c \in Clients : tr'[c] = tr[c]
        /\ \A t \in Servers \ {s} : tr'[t] = tr[t] /\ new'[t] = new[t]
    BY <1>2, <1>3, Disjoint, SMTT(30)
  <2>2. \A p \in Objects : ~tr'[p].live => tr'[p].fd = NoSocket
    BY <1>3 DEF OwnInv, PlaceInv
  <2>3. tr'[s].fd = NoSocket
    BY <1>3, Disjoint
  <2> QED
    BY <1>2, <2>1, <2>2, <2>3, PlaceServer
<1>5. Types'
  BY <1>2, <1>3, <1>4 DEF OwnInv, Types, settings
<1>6. \A i \in Sockets : (\A t \in Servers : new[t] = i => new'[t] = i) <=> i # new[s]
  <2>1. \A t \in Servers \ {s} : new[t] = new[s] => new[s] = NoSocket
    BY DEF OwnInv, Owns
  <2> QED
    BY <1>2, <2>1, NoSocketIsNone
<1>7. \A i \in Sockets : (\A o \in Objects : tr[o].fd = i => tr'[o].fd = i)
                            <=> \A o \in O : tr[o].fd # i
  <2> SUFFICES ASSUME NEW i \in Sockets
               PROVE  (\A o \in Objects : tr[o].fd = i => tr'[o].fd = i)
                        <=> \A o \in O : tr[o].fd # i
    OBVIOUS
  <2>1. i # NoSocket
    BY NoSocketIsNone
  <2>2. \A o \in Objects : o \in O => tr'[o].fd = NoSocket
    BY <1>3
  <2>3. \A o \in Objects : o \notin O => tr'[o].fd = tr[o].fd
    BY <1>3
  <2> QED
    BY <1>1, <2>1, <2>2, <2>3, SMTT(30)
<1>8. Owns(Fds', new', InUse')
  BY <1>2, <1>3, <1>5, <1>6, <1>7, ReleaseOwns
<1> QED
  BY <1>4, <1>5, <1>8 DEF OwnInv

\* Destroying, freeing and crashing.
LEMMA EndSteps ==
  ASSUME OwnInv, NEW s \in Servers, ServerDestroy(s) \/ ServerFree(s) \/ ServerCrash(s)
  PROVE  OwnInv'
<1>1. Types /\ Holds(s) \subseteq Accepted
  BY DEF OwnInv, Holds
<1>2. \A O \in SUBSET Objects, i \in Sockets : i \in FdsOf(O) <=> \E o \in O : tr[o].fd = i
  BY NoSocketIsNone DEF FdsOf
<1>3. CASE ServerDestroy(s)
  BY <1>3, ServerDestroyStep DEF ServerDestroy
<1>4. CASE ServerFree(s)
  <2>1. /\ tr[s].fd = NoSocket /\ new[s] = NoSocket
    BY <1>4 DEF ServerFree, OwnInv, PlaceInv
  <2> DEFINE S == Closed(FdsOf(Holds(s)))
  <2>2. /\ S \in [Sockets -> SockRecord]
        /\ \A i \in Sockets : S[i].st # "free" <=> sock[i].st # "free" /\ i \notin FdsOf(Holds(s))
    BY <1>1, ClosedSock
  <2>3. sock' \in {S, Unlinked(S)}
    BY <1>4 DEF ServerFree
  <2> HIDE DEF S
  <2>4. /\ sock' \in [Sockets -> SockRecord]
        /\ \A i \in Sockets : sock'[i].st # "free" <=> sock[i].st # "free" /\ i \notin FdsOf(Holds(s))
    BY <2>2, <2>3, UnlinkedSock
  <2>5. \A i \in Sockets : sock'[i].st # "free" <=>
            sock[i].st # "free" /\ i # new[s] /\ \A o \in Holds(s) : tr[o].fd # i
    BY <1>1, <1>2, <2>1, <2>4, NoSocketIsNone, ZenonT(30) DEF Objects
  <2>6. new' = [new EXCEPT ![s] = NoSocket]
    BY <1>1, <1>4, <2>1 DEF ServerFree, Types
  <2> QED
    BY <1>1, <1>4, <2>1, <2>4, <2>5, <2>6, GoneStep DEF ServerFree
<1>5. CASE ServerCrash(s)
  <2> DEFINE O == Holds(s) \cup {s}
             I == FdsOf(O) \cup ({new[s]} \ {NoSocket})
  <2>1. sock' = Closed(I)
    BY <1>5 DEF ServerCrash
  <2>2. \A i \in Sockets : i \in I <=> i = new[s] \/ \E o \in O : tr[o].fd = i
    BY <1>1, <1>2, NoSocketIsNone DEF Objects
  <2>3. /\ O \in SUBSET (Accepted \cup {s}) /\ s \in O
        /\ tr' = [o \in Objects |-> IF o \in O THEN NoTransport ELSE tr[o]]
    BY <1>1, <1>5 DEF ServerCrash
  <2> HIDE DEF I, O
  <2>4. /\ sock' \in [Sockets -> SockRecord]
        /\ \A i \in Sockets : sock'[i].st # "free" <=>
            sock[i].st # "free" /\ i # new[s] /\ \A o \in O : tr[o].fd # i
    BY <1>1, <2>1, <2>2, ClosedSock
  <2> QED
    BY <1>5, <2>3, <2>4, GoneStep DEF ServerCrash
<1> QED
  BY <1>3, <1>4, <1>5

\* A server disconnects or destroys one of the transports it accepted.
LEMMA PeerSteps ==
  ASSUME OwnInv, NEW a \in Accepted, ServerDisconnect(a) \/ ServerDrop(a) \/ ServerRecv(a)
  PROVE  OwnInv'
<1>1. pc' = pc /\ UNCHANGED <<settings, new>> /\ a \in Objects
  BY Disjoint DEF ServerDisconnect, ServerDrop, ServerRecv
<1>2. pc' = [p \in Servers \cup Clients |-> pc'[p]]
  BY <1>1 DEF OwnInv, Types
<1>3. /\ Types' /\ Owns(Fds', new', InUse')
      /\ \A o \in Objects \ {a} : tr'[o] = tr[o]
      /\ tr'[a].fd = NoSocket
  <2>1. CASE ServerDisconnect(a)
    BY <1>1, <1>2, <2>1, DisconnectOwns DEF ServerDisconnect
  <2>2. CASE ServerDrop(a) \/ ServerRecv(a)
    <3>1. Destroy({a}) /\ {a} \in SUBSET Objects
      BY <1>1, <2>2 DEF ServerDrop, ServerRecv
    <3>2. /\ Types' /\ Owns(Fds', new', InUse')
          /\ \A o \in Objects : tr'[o] = IF o \in {a} THEN NoTransport ELSE tr[o]
      BY <1>1, <1>2, <3>1, DestroyOwns
    <3> QED
      BY <1>1, <3>2, SMTT(30) DEF NoTransport
  <2> QED
    BY <2>1, <2>2
<1>4. PlaceInv'
  BY <1>1, <1>3, Disjoint DEF OwnInv, PlaceInv
<1> QED
  BY <1>3, <1>4 DEF OwnInv

-----------------------------------------------------------------------------
(* The steps of a client. *)

\* A client that goes on without taking or giving up a descriptor: the socket
\* it has, if any, changes its state and stays open.
LEMMA ClientQuiet ==
  ASSUME OwnInv, NEW c \in Clients, NEW l \in {"connect", "select", "connected", "lost"},
         pc[c] # "idle", pc' = [pc EXCEPT ![c] = l], UNCHANGED <<settings, tr, new>>,
         sock' \in [Sockets -> SockRecord],
         \A i \in Sockets : sock'[i].st # "free" <=> sock[i].st # "free"
  PROVE  OwnInv'
<1>1. tr[c].live
  BY DEF OwnInv, PlaceInv
<1>2. PlaceInv' /\ pc' = [p \in Servers \cup Clients |-> pc'[p]]
  BY <1>1, PlaceClient
<1>3. Types'
  BY <1>2 DEF OwnInv, Types, settings
<1>4. Owns(Fds', new', InUse')
  BY <1>3, KeepOwns
<1> QED
  BY <1>2, <1>3, <1>4 DEF OwnInv

\* A client that closes its descriptor and keeps the transport object.
LEMMA ClientLeaves ==
  ASSUME OwnInv, NEW c \in Clients, NEW l \in {"socket", "lost"}, pc[c] # "idle",
         Disconnect(c), pc' = [pc EXCEPT ![c] = l], UNCHANGED <<settings, new>>
  PROVE  OwnInv'
<1>1. tr[c].live /\ c \in Objects
  BY Disjoint DEF OwnInv, PlaceInv
<1>2. pc' = [p \in Servers \cup Clients |-> pc'[p]]
  BY DEF OwnInv, Types
<1>3. /\ Types' /\ Owns(Fds', new', InUse')
      /\ \A p \in Objects \ {c} : tr'[p] = tr[p]
      /\ tr'[c].fd = NoSocket /\ tr'[c].live = tr[c].live
  BY <1>1, <1>2, DisconnectOwns
<1>4. PlaceInv'
  BY <1>1, <1>3, PlaceClient
<1> QED
  BY <1>3, <1>4 DEF OwnInv

\* A client that opens a socket, with a new transport or for a connect.
LEMMA ClientOpens ==
  ASSUME OwnInv, NEW c \in Clients, NEW l \in {"close", "connect"}, NEW i \in Sockets,
         NEW r \in Transport, r.live, r.fd = i, tr[c].fd = NoSocket, Lowest(i),
         sock' = [sock EXCEPT ![i] = creators[kind]], tr' = [tr EXCEPT ![c] = r],
         pc' = [pc EXCEPT ![c] = l], UNCHANGED <<settings, new>>
  PROVE  OwnInv'
<1>1. c \in Objects /\ sock \in [Sockets -> SockRecord] /\ tr \in [Objects -> Transport]
  BY Disjoint DEF OwnInv, Types
<1>2. creators[kind] \in SockRecord
  BY CreatedSock DEF OwnInv
<1>3. /\ sock' \in [Sockets -> SockRecord]
      /\ tr' \in [Objects -> Transport] /\ tr'[c] = r
      /\ \A o \in Objects \ {c} : tr'[o] = tr[o]
  BY <1>1, <1>2
<1>4. PlaceInv' /\ pc' = [p \in Servers \cup Clients |-> pc'[p]]
  BY <1>3, PlaceClient
<1>5. Types'
  BY <1>3, <1>4 DEF OwnInv, Types, settings
<1>6. Owns(Fds', new', InUse')
  BY <1>1, <1>3, <1>5, TakeOwns
<1> QED
  BY <1>4, <1>5, <1>6 DEF OwnInv

\* A socket that some object has is open; another state than "free" keeps it so.
LEMMA RestateSock ==
  ASSUME OwnInv, NEW i \in Fd, i = NoSocket \/ sock[i].st # "free",
         NEW x \in SockStates \ {"free"}, NEW l \in Fd,
         \/ sock' = [sock EXCEPT ![i].st = x]
         \/ sock' = [sock EXCEPT ![i].st = x, ![i].peer = l]
  PROVE  /\ sock' \in [Sockets -> SockRecord]
         /\ \A j \in Sockets : sock'[j].st # "free" <=> sock[j].st # "free"
<1>1. sock \in [Sockets -> SockRecord]
  BY DEF OwnInv, Types
<1>2. CASE i = NoSocket
  BY <1>1, <1>2, NoSocketIsNone, ZenonT(30)
<1>3. CASE i \in Sockets
  <2>1. PICK r \in SockRecord : r.st = x /\ sock' = [sock EXCEPT ![i] = r]
    <3>1. CASE sock' = [sock EXCEPT ![i].st = x]
      <4> DEFINE r == [sock[i] EXCEPT !.st = x]
      <4>1. r \in SockRecord /\ r.st = x
        BY <1>1, <1>3 DEF SockRecord
      <4>2. sock' = [sock EXCEPT ![i] = r]
        BY <1>1, <1>3, <3>1
      <4> HIDE DEF r
      <4> QED
        BY <4>1, <4>2
    <3>2. CASE sock' = [sock EXCEPT ![i].st = x, ![i].peer = l]
      <4> DEFINE r == [sock[i] EXCEPT !.st = x, !.peer = l]
      <4>1. r \in SockRecord /\ r.st = x
        BY <1>1, <1>3 DEF SockRecord
      <4>2. sock' = [sock EXCEPT ![i] = r]
        BY <1>1, <1>3, <3>2
      <4> HIDE DEF r
      <4> QED
        BY <4>1, <4>2
    <3> QED
      BY <3>1, <3>2
  <2> QED
    BY <1>1, <1>3, <2>1, NoSocketIsNone
<1> QED
  BY <1>2, <1>3 DEF Fd

\* Every step of a client.
LEMMA ClientSteps ==
  ASSUME OwnInv, NEW c \in Clients, ClientNext(c)
  PROVE  OwnInv'
<1>1. /\ c \in Objects /\ tr \in [Objects -> Transport]
      /\ sock \in [Sockets -> SockRecord]
  BY Disjoint DEF OwnInv, Types
<1>2. tr[c].fd \in Fd /\ (tr[c].fd = NoSocket \/ sock[tr[c].fd].st # "free")
  BY <1>1, NoSocketIsNone, SMTT(30) DEF OwnInv, Owns, Fds, InUse, Fd, Transport
<1>3. CASE ClientCreate(c)
  <2>1. PICK i \in Sockets :
            /\ Lowest(i)
            /\ sock' = [sock EXCEPT ![i] = creators[kind]]
            /\ tr' = [tr EXCEPT ![c] = [live |-> TRUE, fd |-> i, srv |-> FALSE, by |-> NoServer]]
    BY <1>3 DEF ClientCreate, Create
  <2> DEFINE r == [live |-> TRUE, fd |-> i, srv |-> FALSE, by |-> NoServer]
  <2>2. r \in Transport /\ r.live /\ r.fd = i
    BY DEF Transport
  <2>3. tr[c].fd = NoSocket
    BY <1>3 DEF ClientCreate, OwnInv, PlaceInv
  <2>4. pc' = [pc EXCEPT ![c] = "close"] /\ UNCHANGED <<settings, new>>
    BY <1>3 DEF ClientCreate, Goto
  <2>5. tr' = [tr EXCEPT ![c] = r]
    BY <2>1
  <2> HIDE DEF r
  <2> QED
    BY <2>1, <2>2, <2>3, <2>4, <2>5, ClientOpens
<1>4. CASE ConnectClose(c) \/ SendFails(c) \/ ClientDisconnect(c)
  <2>1. pc[c] # "idle" /\ Disconnect(c) /\ UNCHANGED <<settings, new>>
    BY <1>4 DEF ConnectClose, SendFails, ClientDisconnect
  <2>2. PICK l \in {"socket", "lost"} : pc' = [pc EXCEPT ![c] = l]
    BY <1>4 DEF ConnectClose, SendFails, ClientDisconnect, Goto
  <2> QED
    BY <2>1, <2>2, ClientLeaves
<1>5. CASE ClientDestroy(c)
  BY <1>5, ClientDestroyStep
<1>6. CASE ConnectSocket(c)
  <2>1. tr[c].fd = NoSocket /\ tr[c].live
    BY <1>6 DEF ConnectSocket, OwnInv, PlaceInv
  <2>2. CASE ~ClientDestroy(c)
    <3>1. PICK i \in Sockets :
              /\ Lowest(i)
              /\ sock' = [sock EXCEPT ![i] = creators[kind]]
              /\ tr' = [tr EXCEPT ![c].fd = i]
              /\ pc' = [pc EXCEPT ![c] = "connect"]
              /\ UNCHANGED <<settings, new>>
      BY <1>6, <2>2 DEF ConnectSocket, Goto
    <3> DEFINE r == [tr[c] EXCEPT !.fd = i]
    <3>2. r \in Transport /\ r.live /\ r.fd = i
      BY <1>1, <2>1 DEF Transport
    <3>3. tr' = [tr EXCEPT ![c] = r]
      BY <1>1, <3>1
    <3> HIDE DEF r
    <3> QED
      BY <2>1, <3>1, <3>2, <3>3, ClientOpens
  <2> QED
    BY <1>5, <2>2
<1>7. ASSUME NEW l \in Named, Reaches(c, l), pc[c] = "connect"
      PROVE  OwnInv'
  <2>1. /\ sock' = [sock EXCEPT ![tr[c].fd].st = "up", ![tr[c].fd].peer = l]
        /\ l \in Fd /\ "up" \in SockStates \ {"free"}
        /\ pc' = [pc EXCEPT ![c] = "connected"] /\ UNCHANGED <<settings, tr, new>>
    BY <1>7 DEF Reaches, Named, Fd, SockStates, Goto
  <2>2. /\ sock' \in [Sockets -> SockRecord]
        /\ \A j \in Sockets : sock'[j].st # "free" <=> sock[j].st # "free"
    BY <1>2, <2>1, RestateSock
  <2> QED
    BY <1>7, <2>1, <2>2, ClientQuiet
<1>8. CASE UnixConnect(c)
  BY <1>5, <1>7, <1>8 DEF UnixConnect
<1>9. CASE TcpConnect(c)
  <2>1. CASE /\ sock' = [sock EXCEPT ![tr[c].fd].st = "syn"]
             /\ Goto(c, "select")
             /\ UNCHANGED <<settings, file, tr, new, overlap>>
    <3>1. "syn" \in SockStates \ {"free"} /\ NoSocket \in Fd
      BY DEF SockStates, Fd
    <3>2. /\ sock' \in [Sockets -> SockRecord]
          /\ \A j \in Sockets : sock'[j].st # "free" <=> sock[j].st # "free"
      BY <1>2, <2>1, <3>1, RestateSock
    <3>3. pc[c] # "idle" /\ pc' = [pc EXCEPT ![c] = "select"]
      BY <1>9, <2>1 DEF TcpConnect, Goto
    <3> QED
      BY <2>1, <3>2, <3>3, ClientQuiet
  <2> QED
    BY <1>5, <1>7, <1>9, <2>1 DEF TcpConnect
<1>10. CASE TcpSelect(c) \/ UdpConnect(c)
  <2>1. CASE ~ClientDestroy(c)
    <3>1. /\ pc[c] # "idle" /\ pc' = [pc EXCEPT ![c] = "connected"]
          /\ UNCHANGED <<settings, sock, tr, new>>
      BY <1>10, <2>1 DEF TcpSelect, UdpConnect, Goto
    <3> QED
      BY <1>1, <3>1, ClientQuiet
  <2> QED
    BY <1>5, <2>1
<1>11. CASE TcpTimeout(c) \/ ClientClose(c) \/ ClientRecv(c)
  BY <1>5, <1>11 DEF TcpTimeout, ClientClose, ClientRecv
<1> QED
  BY <1>3, <1>4, <1>6, <1>8, <1>9, <1>10, <1>11 DEF ClientNext

-----------------------------------------------------------------------------
(* All steps, and the theorem. *)

\* The network changes the state of a connect in progress.
LEMMA NetworkStep ==
  ASSUME OwnInv, NEW i \in Sockets, NetworkAnswers(i)
  PROVE  OwnInv'
<1>1. /\ UNCHANGED <<settings, tr, new, pc>> /\ sock[i].st # "free"
      /\ i \in Fd /\ NoSocket \in Fd /\ {"up", "reset"} \subseteq SockStates \ {"free"}
  BY DEF NetworkAnswers, Fd, SockStates
<1>2. /\ sock' \in [Sockets -> SockRecord]
      /\ \A j \in Sockets : sock'[j].st # "free" <=> sock[j].st # "free"
  <2>1. CASE sock' = [sock EXCEPT ![i].st = "reset"]
    BY <1>1, <2>1, RestateSock
  <2>2. ASSUME NEW l \in Named, sock' = [sock EXCEPT ![i].st = "up", ![i].peer = l]
        PROVE  <1>2!:
    <3>1. l \in Fd
      BY DEF Named, Fd
    <3> QED
      BY <1>1, <2>2, <3>1, RestateSock
  <2> QED
    BY <2>1, <2>2 DEF NetworkAnswers
<1>3. Types'
  BY <1>1, <1>2 DEF OwnInv, Types, settings
<1>4. Owns(Fds', new', InUse')
  BY <1>1, <1>2, <1>3, KeepOwns
<1>5. PlaceInv'
  BY <1>1 DEF OwnInv, PlaceInv
<1> QED
  BY <1>3, <1>4, <1>5 DEF OwnInv

\* No step of a server, a client or the network breaks the invariant.
LEMMA StepOwn == OwnInv /\ [Next]_vars => OwnInv'
<1> SUFFICES ASSUME OwnInv, [Next]_vars PROVE OwnInv'
  OBVIOUS
<1>1. CASE UNCHANGED vars
  BY <1>1, ZenonT(30) DEF vars, settings, OwnInv, Types, Owns, Fds, InUse, PlaceInv
<1>2. ASSUME NEW s \in Servers, ServerNext(s) PROVE OwnInv'
  BY <1>2, StartSteps, AcceptStep, WrapStep, EndSteps DEF ServerNext
<1>3. ASSUME NEW o \in Accepted, ServerDisconnect(o) \/ ServerDrop(o) \/ ServerRecv(o)
      PROVE  OwnInv'
  BY <1>3, PeerSteps
<1>4. ASSUME NEW c \in Clients, ClientNext(c) PROVE OwnInv'
  BY <1>4, ClientSteps
<1>5. ASSUME NEW i \in Sockets, NetworkAnswers(i) PROVE OwnInv'
  BY <1>5, NetworkStep
<1> QED
  BY <1>1, <1>2, <1>3, <1>4, <1>5 DEF Next

\* At the start no socket is open and no transport exists.
LEMMA InitOwn == Init => OwnInv
<1> SUFFICES ASSUME Init PROVE OwnInv
  OBVIOUS
<1>1. Types
  BY DEF Init, Types, FreeSock, SockRecord, SockStates, NoTransport, Transport, Fd
<1>2. Owns(Fds, new, InUse)
  BY NoSocketIsNone DEF Init, Owns, Fds, InUse, NoTransport, FreeSock, Fd
<1>3. PlaceInv
  BY Disjoint DEF Init, PlaceInv, NoTransport
<1> QED
  BY <1>1, <1>2, <1>3 DEF OwnInv

\* No path through creating, connecting, listening, accepting, disconnecting,
\* destroying and crashing leaks a descriptor or gives one to two transports,
\* for any number of processes, transports and sockets.
THEOREM DescriptorsOwned == Spec => []OneOwner
<1>1. OwnInv => OneOwner
  <2> SUFFICES ASSUME OwnInv PROVE OneOwner
    OBVIOUS
  <2>1. \A o \in Objects : OwnedBy(o) = tr[o].fd
    BY DEF OwnInv, PlaceInv, OwnedBy
  <2>2. Owns(Fds, new, InUse)
    BY DEF OwnInv
  <2>3. tr \in [Objects -> Transport]
    BY DEF OwnInv, Types
  <2> QED
    BY <2>1, <2>2, <2>3, NoSocketIsNone, SMTT(30) DEF OneOwner, Owns, Fds, InUse, Fd
<1> QED
  BY <1>1, InitOwn, StepOwn, PTL DEF Spec

-----------------------------------------------------------------------------
(* Connections and addresses.  The socket of a client changes only by its own *)
(* steps and in the ways Ages allows; a server's name is taken away only by   *)
(* the paths of another Unix server.                                          *)

\* What may become of an open socket without its owner: the other end goes, the
\* network answers.
Ages(a, b) == b = a \/ (a = "up" /\ b = "eof") \/ (a = "syn" /\ b \in {"up", "reset"})

\* A step leaves object o and its socket to themselves, and the socket's name.
Stays(o) ==
    /\ tr'[o] = tr[o]
    /\ tr[o].fd \in Sockets => Ages(sock[tr[o].fd].st, sock'[tr[o].fd].st)
NameStays(o) == tr[o].fd \in Sockets => sock'[tr[o].fd].name = sock[tr[o].fd].name

ConnOf(c) ==
    /\ pc[c] \in {"connect", "select", "connected"} => tr[c].fd \in Sockets
    /\ pc[c] = "select" => sock[tr[c].fd].st \in {"syn", "up", "eof", "reset"}
    /\ pc[c] = "connected" /\ kind # "udp" /\ waits => sock[tr[c].fd].st \in {"up", "eof"}

ServOf(s) ==
    /\ pc[s] \in {"listen", "bind", "up", "wrap"} => tr[s].fd \in Sockets
    /\ pc[s] \in {"up", "wrap"} /\ (kind = "unix" => ~overlap) => sock[tr[s].fd].name

\* A listener is a server's; unless starts have overlapped, one server is not down.
SideInv ==
    /\ bare => kind = "unix"
    /\ \A o \in Objects : tr[o].srv => o \in Servers
    /\ ~overlap => \A s, t \in Servers : s # t => pc[s] = "down" \/ pc[t] = "down"

AddrInv ==
    /\ \A c \in Clients : ConnOf(c)
    /\ \A s \in Servers : ServOf(s)
    /\ SideInv

\* close() of other sockets ages a socket and leaves its name.
LEMMA ClosedAges ==
  ASSUME Types, NEW I, NEW i \in Sockets, i \notin I
  PROVE  Ages(sock[i].st, Closed(I)[i].st) /\ Closed(I)[i].name = sock[i].name
<1>1. sock[i] \in SockRecord /\ Closed(I)[i] = AfterClose(sock, I, i)
  BY DEF Types, Closed
<1>2. CASE sock[i].peer \in I /\ sock[i].st \in {"syn", "up"}
  <2>1. AfterClose(sock, I, i)
          = [sock[i] EXCEPT !.st = IF sock[i].st = "syn" THEN "reset" ELSE "eof",
                            !.peer = NoSocket]
    BY <1>2 DEF AfterClose
  <2> QED
    BY <1>1, <1>2, <2>1 DEF SockRecord, Ages
<1>3. CASE ~(sock[i].peer \in I /\ sock[i].st \in {"syn", "up"})
  <2>1. \/ AfterClose(sock, I, i) = sock[i]
        \/ AfterClose(sock, I, i) = [sock[i] EXCEPT !.dead = sock[i].dead + 1]
    BY <1>3 DEF AfterClose
  <2> QED
    BY <1>1, <2>1 DEF SockRecord, Ages
<1> QED
  BY <1>2, <1>3

\* Nobody else has the descriptor of a transport, and it is open.
LEMMA OwnFd ==
  ASSUME OwnInv, NEW o \in Objects, tr[o].fd \in Sockets
  PROVE  /\ \A p \in Objects \ {o} : tr[p].fd # tr[o].fd
         /\ \A s \in Servers : new[s] # tr[o].fd
         /\ sock[tr[o].fd].st # "free"
<1>1. \A p \in Objects : Fds[p] = tr[p].fd
  BY DEF Fds
<1>2. Owns(Fds, new, InUse) /\ tr[o].fd # NoSocket
  BY NoSocketIsNone DEF OwnInv
<1>3. /\ \A p \in Objects \ {o} : Fds[p] # Fds[o]
      /\ \A s \in Servers : new[s] # Fds[o]
      /\ Fds[o] \in InUse
  BY <1>1, <1>2 DEF Owns
<1> QED
  BY <1>1, <1>3 DEF InUse

\* A step that changes the socket of o, or opens one, leaves the others alone.
LEMMA OwnChange ==
  ASSUME OwnInv, NEW o \in Objects, NEW i, i = tr[o].fd \/ Lowest(i),
         \A j \in Sockets \ {i} : sock'[j] = sock[j],
         \A p \in Objects \ {o} : tr'[p] = tr[p]
  PROVE  \A p \in Objects \ {o} : Stays(p) /\ NameStays(p)
<1> SUFFICES ASSUME NEW p \in Objects \ {o}, tr[p].fd \in Sockets
             PROVE  sock'[tr[p].fd] = sock[tr[p].fd]
  BY DEF Stays, NameStays, Ages
<1>1. tr[p].fd # i
  BY OwnFd DEF Lowest
<1> QED
  BY <1>1

\* ssn_transport_destroy leaves other transports alone, but for the path.
LEMMA DestroyFrame ==
  ASSUME OwnInv, NEW O \in SUBSET Objects, Destroy(O)
  PROVE  /\ \A p \in Objects \ O : Stays(p) /\ (NameStays(p) \/ UnixUnlinks(O))
         /\ \A o \in O : tr'[o] = NoTransport
<1>1. /\ \A p \in Objects \ O : tr'[p] = tr[p]
      /\ \A o \in O : tr'[o] = NoTransport
  BY DEF Destroy
<1>2. Types /\ Closed(FdsOf(O)) \in [Sockets -> SockRecord]
  BY ClosedSock DEF OwnInv
<1>3. ASSUME NEW p \in Objects \ O, tr[p].fd \in Sockets
      PROVE  /\ Ages(sock[tr[p].fd].st, sock'[tr[p].fd].st)
             /\ sock'[tr[p].fd].name = sock[tr[p].fd].name \/ UnixUnlinks(O)
  <2>1. tr[p].fd \notin FdsOf(O)
    BY <1>3, OwnFd DEF FdsOf
  <2>2. /\ Ages(sock[tr[p].fd].st, Closed(FdsOf(O))[tr[p].fd].st)
        /\ Closed(FdsOf(O))[tr[p].fd].name = sock[tr[p].fd].name
    BY <1>2, <1>3, <2>1, ClosedAges
  <2>3. CASE UnixUnlinks(O)
    <3>1. sock' = Unlinked(Closed(FdsOf(O)))
      BY <2>3 DEF Destroy
    <3>2. sock'[tr[p].fd].st = Closed(FdsOf(O))[tr[p].fd].st
      BY <1>2, <1>3, <3>1, UnlinkedSock
    <3> QED
      BY <2>2, <2>3, <3>2
  <2>4. CASE ~UnixUnlinks(O)
    BY <2>2, <2>4 DEF Destroy
  <2> QED
    BY <2>3, <2>4
<1> QED
  BY <1>1, <1>3 DEF Stays, NameStays

\* ssn_transport_disconnect leaves other transports alone.
LEMMA DisconnectFrame ==
  ASSUME OwnInv, NEW o \in Objects, Disconnect(o)
  PROVE  /\ \A p \in Objects \ {o} : Stays(p) /\ NameStays(p)
         /\ tr'[o].srv = tr[o].srv
<1>1. tr' = [tr EXCEPT ![o].fd = NoSocket] /\ tr \in [Objects -> Transport] /\ Types
  BY DEF Disconnect, OwnInv, Types
<1>2. (\A p \in Objects \ {o} : tr'[p] = tr[p]) /\ tr'[o].srv = tr[o].srv
  BY <1>1 DEF Transport
<1>3. ASSUME NEW p \in Objects \ {o}, tr[p].fd \in Sockets
      PROVE  /\ Ages(sock[tr[p].fd].st, sock'[tr[p].fd].st)
             /\ sock'[tr[p].fd].name = sock[tr[p].fd].name
  <2>1. tr[p].fd \notin FdsOf({o})
    BY <1>3, OwnFd DEF FdsOf
  <2> QED
    BY <1>1, <1>3, <2>1, ClosedAges DEF Disconnect
<1> QED
  BY <1>2, <1>3 DEF Stays, NameStays

\* What a client knows of its connection stays true while others act.
LEMMA ConnStays ==
  ASSUME NEW c \in Clients, ConnOf(c), Stays(c), pc'[c] = pc[c], UNCHANGED settings
  PROVE  ConnOf(c)'
<1>1. CASE tr[c].fd \in Sockets
  BY <1>1 DEF ConnOf, Stays, Ages, settings
<1>2. CASE tr[c].fd \notin Sockets
  BY <1>2 DEF ConnOf, Stays
<1> QED
  BY <1>1, <1>2

\* The name of a server stays while others act that do not unlink it.
LEMMA ServStays ==
  ASSUME NEW s \in Servers, ServOf(s), Stays(s), pc'[s] = pc[s], UNCHANGED settings,
         \/ NameStays(s) /\ (kind = "unix" /\ overlap => overlap')
         \/ kind = "unix" /\ (pc[s] = "down" \/ overlap')
  PROVE  ServOf(s)'
<1>1. /\ pc'[s] \in {"listen", "bind", "up", "wrap"} => tr'[s].fd \in Sockets
      /\ tr'[s].fd = tr[s].fd
  BY DEF ServOf, Stays
<1>2. ASSUME pc'[s] \in {"up", "wrap"}, kind' = "unix" => ~overlap'
      PROVE  sock'[tr'[s].fd].name
  <2>1. tr[s].fd \in Sockets /\ kind' = kind /\ pc[s] # "down" /\ pc[s] \in {"up", "wrap"}
    BY <1>1, <1>2 DEF settings
  <2>2. NameStays(s) /\ (kind = "unix" => ~overlap)
    BY <1>2, <2>1
  <2>3. sock[tr[s].fd].name
    BY <2>1, <2>2 DEF ServOf
  <2> QED
    BY <1>1, <2>1, <2>2, <2>3 DEF NameStays
<1> QED
  BY <1>1, <1>2 DEF ServOf

\* A step of a client, an accepted transport or the network: the objects that
\* are not in O are left alone, and the servers where they are.
LEMMA PlainActs ==
  ASSUME OwnInv, AddrInv, NEW O \in SUBSET (Clients \cup Accepted),
         \A p \in Objects \ O : Stays(p) /\ NameStays(p),
         UNCHANGED <<settings, overlap>>,
         \A p \in (Servers \cup Clients) \ O : pc'[p] = pc[p],
         \A o \in O : ~tr'[o].srv,
         \A c \in O \cap Clients : ConnOf(c)'
  PROVE  AddrInv'
<1>1. \A s \in Servers : s \in Objects /\ s \notin O
  BY Disjoint
<1>2. ASSUME NEW c \in Clients PROVE ConnOf(c)'
  <2>1. CASE c \notin O
    <3>1. c \in Objects
      BY Disjoint
    <3> QED
      BY <2>1, <3>1, ConnStays DEF AddrInv
  <2> QED
    BY <2>1
<1>3. \A s \in Servers : ServOf(s)'
  BY <1>1, ServStays DEF AddrInv
<1>4. SideInv'
  <2>1. \A p \in Objects : tr'[p].srv => p \in Servers
    BY DEF AddrInv, SideInv, Stays
  <2>2. \A s \in Servers : pc'[s] = pc[s]
    BY <1>1
  <2> QED
    BY <2>1, <2>2 DEF AddrInv, SideInv, settings
<1> QED
  BY <1>2, <1>3, <1>4 DEF AddrInv

\* A step of server s.
LEMMA ServerActs ==
  ASSUME OwnInv, AddrInv, NEW s \in Servers, NEW l, pc' = [pc EXCEPT ![s] = l],
         UNCHANGED settings,
         \A t \in Servers \ {s} : pc[t] = "down" \/ overlap',
         \A p \in (Servers \cup Clients) \ {s} : Stays(p) /\ (NameStays(p) \/ kind = "unix"),
         \A a \in Accepted : ~tr'[a].srv,
         ServOf(s)'
  PROVE  AddrInv'
<1>1. /\ pc'[s] = l
      /\ \A p \in (Servers \cup Clients) \ {s} : pc'[p] = pc[p]
  BY DEF OwnInv, Types
<1>2. \A c \in Clients : ConnOf(c)'
  BY <1>1, ConnStays, Disjoint DEF AddrInv
<1>3. ASSUME NEW t \in Servers PROVE ServOf(t)'
  <2>1. CASE t = s
    BY <2>1
  <2>2. CASE t # s
    BY <1>1, <2>2, ServStays DEF AddrInv
  <2> QED
    BY <2>1, <2>2
<1>4. SideInv'
  <2>1. \A p \in Objects : tr'[p].srv => p \in Servers
    BY Disjoint DEF AddrInv, SideInv, Stays, Objects
  <2>2. ~overlap' => \A t, u \in Servers : t # u => pc'[t] = "down" \/ pc'[u] = "down"
    BY <1>1
  <2> QED
    BY <2>1, <2>2 DEF AddrInv, SideInv, settings
<1> QED
  BY <1>2, <1>3, <1>4 DEF AddrInv

\* While server s is not down and no start is made, the others are down or have
\* overlapped with it.
LEMMA OthersDown ==
  ASSUME AddrInv, NEW s \in Servers, pc[s] # "down",
         \/ overlap' = overlap
         \/ overlap' = (overlap /\ \E t \in Servers \ {s} : pc[t] # "down")
  PROVE  \A t \in Servers \ {s} : pc[t] = "down" \/ overlap'
  BY DEF AddrInv, SideInv

\* unlink() of the path of a Unix address.
LEMMA UnlinkFrame ==
  ASSUME OwnInv, sock' = Unlinked(sock), tr' = tr
  PROVE  \A p \in Objects : Stays(p)
<1>1. \A i \in Sockets : sock'[i].st = sock[i].st
  BY UnlinkedSock DEF OwnInv, Types
<1> QED
  BY <1>1 DEF Stays, Ages

\* No accepted transport and no client is a listener.
LEMMA NoListener ==
  ASSUME AddrInv
  PROVE  \A o \in Clients \cup Accepted : ~tr[o].srv
  BY Disjoint DEF AddrInv, SideInv

\* The transport of a server is destroyed, after a failed listen or at the end.
LEMMA ServerDestroyAddr ==
  ASSUME OwnInv, AddrInv, NEW s \in Servers, pc[s] # "down", Destroy({s}),
         pc' = [pc EXCEPT ![s] = "freeing"], UNCHANGED <<settings, overlap>>
  PROVE  AddrInv'
<1>1. \A t \in Servers \ {s} : pc[t] = "down" \/ overlap'
  BY OthersDown
<1>2. {s} \in SUBSET Objects
  BY Disjoint
<1>3. \A p \in Objects \ {s} : Stays(p) /\ (NameStays(p) \/ kind = "unix")
  BY <1>2, DestroyFrame DEF UnixUnlinks
<1>4. pc'[s] = "freeing"
  BY DEF OwnInv, Types
<1>5. ServOf(s)'
  BY <1>4 DEF ServOf
<1>6. \A a \in Accepted : ~tr'[a].srv
  BY <1>3, NoListener, Disjoint DEF Stays
<1>7. \A p \in (Servers \cup Clients) \ {s} : Stays(p) /\ (NameStays(p) \/ kind = "unix")
  BY <1>3, Disjoint
<1> QED
  BY <1>1, <1>5, <1>6, <1>7, ServerActs

\* Starting and listening.
LEMMA StartAddr ==
  ASSUME OwnInv, AddrInv, NEW s \in Servers,
         \/ ServerStart(s) \/ ServerCreate(s)
         \/ UnixListenUnlink(s) \/ UnixListen(s) \/ TcpListen(s) \/ UdpListen(s)
  PROVE  AddrInv'
<1>1. /\ sock \in [Sockets -> SockRecord] /\ tr \in [Objects -> Transport] /\ s \in Objects
      /\ UNCHANGED settings
  BY Disjoint DEF OwnInv, Types, ServerStart, ServerCreate, UnixListenUnlink, UnixListen,
     TcpListen, UdpListen, ListenOk, ListenFails
<1>2. \A l : pc' = [pc EXCEPT ![s] = l] => pc'[s] = l
  BY DEF OwnInv, Types
<1>3. CASE ServerStart(s)
  <2>1. PICK l \in {"freeing", "create"} : pc' = [pc EXCEPT ![s] = l]
    BY <1>3 DEF ServerStart
  <2>2. ServOf(s)'
    BY <1>2, <2>1 DEF ServOf
  <2>3. \A t \in Servers \ {s} : pc[t] = "down" \/ overlap'
    BY <1>3 DEF ServerStart
  <2>4. tr' = tr /\ (sock' = sock \/ (sock' = Unlinked(sock) /\ kind = "unix"))
    BY <1>3 DEF ServerStart, AddrInv, SideInv
  <2>5. \A p \in Objects : Stays(p) /\ (NameStays(p) \/ kind = "unix")
    <3>1. CASE sock' = sock
      BY <2>4, <3>1 DEF Stays, NameStays, Ages
    <3>2. CASE sock' = Unlinked(sock) /\ kind = "unix"
      BY <2>4, <3>2, UnlinkFrame
    <3> QED
      BY <2>4, <3>1, <3>2
  <2>6. \A a \in Accepted : ~tr'[a].srv
    BY <2>4, NoListener
  <2>7. \A p \in (Servers \cup Clients) \ {s} : Stays(p) /\ (NameStays(p) \/ kind = "unix")
    BY <2>5, Disjoint
  <2> QED
    BY <1>1, <2>1, <2>2, <2>3, <2>6, <2>7, ServerActs
<1>4. CASE ServerCreate(s)
  <2>1. pc[s] # "down" /\ overlap' = overlap
    BY <1>4 DEF ServerCreate
  <2>2. \A t \in Servers \ {s} : pc[t] = "down" \/ overlap'
    BY <2>1, OthersDown
  <2>3. CASE pc' = [pc EXCEPT ![s] = "freeing"] /\ UNCHANGED <<sock, tr>>
    <3>1. ServOf(s)'
      BY <1>2, <2>3 DEF ServOf
    <3>2. \A p \in (Servers \cup Clients) \ {s} : Stays(p) /\ (NameStays(p) \/ kind = "unix")
      BY <2>3 DEF Stays, NameStays, Ages
    <3>3. \A a \in Accepted : ~tr'[a].srv
      BY <2>3, NoListener
    <3> QED
      BY <1>1, <2>2, <2>3, <3>1, <3>2, <3>3, ServerActs
  <2>4. CASE Create(s, s) /\ pc' = [pc EXCEPT ![s] = "listen"]
    <3>1. PICK i \in Sockets :
              /\ Lowest(i)
              /\ sock' = [sock EXCEPT ![i] = creators[kind]]
              /\ tr' = [tr EXCEPT ![s] = [live |-> TRUE, fd |-> i, srv |-> FALSE, by |-> s]]
      BY <2>4 DEF Create
    <3>2. /\ tr'[s].fd = i
          /\ \A o \in Objects \ {s} : tr'[o] = tr[o]
          /\ \A j \in Sockets \ {i} : sock'[j] = sock[j]
      BY <1>1, <3>1
    <3>3. \A p \in Objects \ {s} : Stays(p) /\ NameStays(p)
      BY <1>1, <3>1, <3>2, OwnChange
    <3>4. ServOf(s)'
      BY <1>2, <2>4, <3>2 DEF ServOf
    <3>5. \A a \in Accepted : ~tr'[a].srv
      BY <3>2, NoListener, Disjoint
    <3>6. \A p \in (Servers \cup Clients) \ {s} : Stays(p) /\ (NameStays(p) \/ kind = "unix")
      BY <3>3, Disjoint
    <3> QED
      BY <1>1, <2>2, <2>4, <3>4, <3>5, <3>6, ServerActs
  <2> QED
    BY <1>4, <2>3, <2>4 DEF ServerCreate
<1>5. CASE ~ServerStart(s) /\ ~ServerCreate(s)
  <2>1. pc[s] \in {"listen", "bind"}
    BY <1>5 DEF UnixListenUnlink, UnixListen, TcpListen, UdpListen
  <2>2. overlap' = overlap
    BY <1>5 DEF UnixListenUnlink, UnixListen, TcpListen, UdpListen, ListenOk, ListenFails
  <2>3. \A t \in Servers \ {s} : pc[t] = "down" \/ overlap'
    BY <2>1, <2>2, OthersDown
  <2>4. tr[s].fd \in Sockets
    BY <2>1 DEF AddrInv, ServOf
  <2>5. CASE ListenFails(s)
    BY <2>1, <2>5, ServerDestroyAddr DEF ListenFails
  <2>6. CASE ListenOk(s)
    <3>1. PICK x \in {"dgram", "listen"} :
              sock' = [sock EXCEPT ![tr[s].fd].st = x, ![tr[s].fd].name = TRUE]
      BY <2>6 DEF ListenOk
    <3>2. tr' = [tr EXCEPT ![s].srv = TRUE] /\ pc' = [pc EXCEPT ![s] = "up"]
      BY <2>6 DEF ListenOk
    <3>3. sock'[tr[s].fd].name /\ \A j \in Sockets \ {tr[s].fd} : sock'[j] = sock[j]
      <4> DEFINE r == [sock[tr[s].fd] EXCEPT !.st = x, !.name = TRUE]
      <4>1. sock' = [sock EXCEPT ![tr[s].fd] = r]
        BY <1>1, <2>4, <3>1
      <4>2. r.name
        BY <1>1, <2>4 DEF SockRecord
      <4> HIDE DEF r
      <4> QED
        BY <1>1, <2>4, <4>1, <4>2
    <3>4. tr'[s].fd = tr[s].fd /\ \A o \in Objects \ {s} : tr'[o] = tr[o]
      BY <1>1, <3>2 DEF Transport
    <3>5. \A p \in Objects \ {s} : Stays(p) /\ NameStays(p)
      BY <1>1, <3>3, <3>4, OwnChange
    <3>6. ServOf(s)'
      BY <2>4, <3>3, <3>4 DEF ServOf
    <3>7. \A a \in Accepted : ~tr'[a].srv
      BY <3>4, NoListener, Disjoint
    <3>8. \A p \in (Servers \cup Clients) \ {s} : Stays(p) /\ (NameStays(p) \/ kind = "unix")
      BY <3>5, Disjoint
    <3> QED
      BY <1>1, <2>3, <3>2, <3>6, <3>7, <3>8, ServerActs
  <2>7. CASE UnixListenUnlink(s) /\ ~ListenFails(s)
    <3>1. /\ sock' = Unlinked(sock) /\ tr' = tr /\ kind = "unix"
          /\ pc' = [pc EXCEPT ![s] = "bind"]
      BY <2>7 DEF UnixListenUnlink
    <3>2. ServOf(s)'
      BY <1>2, <2>4, <3>1 DEF ServOf
    <3>3. \A p \in (Servers \cup Clients) \ {s} : Stays(p) /\ (NameStays(p) \/ kind = "unix")
      BY <3>1, UnlinkFrame, Disjoint
    <3>4. \A a \in Accepted : ~tr'[a].srv
      BY <3>1, NoListener
    <3> QED
      BY <1>1, <2>3, <3>1, <3>2, <3>3, <3>4, ServerActs
  <2> QED
    BY <1>5, <2>5, <2>6, <2>7 DEF UnixListenUnlink, UnixListen, TcpListen, UdpListen
<1> QED
  BY <1>3, <1>4, <1>5

\* Server s goes on accepting: nothing is closed but what no object has.
LEMMA AcceptingAddr ==
  ASSUME OwnInv, AddrInv, NEW s \in Servers, pc[s] \in {"up", "wrap"},
         NEW l \in {"up", "wrap"}, pc' = [pc EXCEPT ![s] = l], UNCHANGED <<settings, overlap>>,
         \A p \in Servers \cup Clients : Stays(p) /\ NameStays(p),
         \A a \in Accepted : ~tr'[a].srv
  PROVE  AddrInv'
<1>1. \A t \in Servers \ {s} : pc[t] = "down" \/ overlap'
  BY OthersDown
<1>2. ServOf(s)'
  BY DEF AddrInv, ServOf, Stays, NameStays, settings
<1> QED
  BY <1>1, <1>2, ServerActs

\* accept() opens a socket and moves a connection out of the queue.
LEMMA AcceptAddr ==
  ASSUME OwnInv, AddrInv, NEW s \in Servers, Accept(s)
  PROVE  AddrInv'
<1>1. /\ pc[s] = "up" /\ pc' = [pc EXCEPT ![s] = "wrap"] /\ UNCHANGED <<settings, tr, overlap>>
      /\ sock \in [Sockets -> SockRecord] /\ tr[s].fd \in Sockets
  BY DEF Accept, OwnInv, Types, AddrInv, ServOf
<1>2. PICK i \in Sockets :
          /\ Lowest(i)
          /\ \/ \E c \in Queue(tr[s].fd) :
                  sock' = [sock EXCEPT ![i] = [FreeSock EXCEPT !.st = "up", !.peer = c],
                                       ![c].peer = i]
             \/ /\ sock[tr[s].fd].dead > 0
                /\ sock' = [sock EXCEPT ![i] = [FreeSock EXCEPT !.st = "eof"],
                                        ![tr[s].fd].dead = @ - 1]
  BY DEF Accept
<1>3. sock[i].st = "free"
  BY <1>2 DEF Lowest
<1>4. \A j \in Sockets \ {i} : sock'[j].st = sock[j].st /\ sock'[j].name = sock[j].name
  <2>1. ASSUME NEW c \in Sockets, NEW a, NEW b, c # i,
               b.st = sock[c].st, b.name = sock[c].name,
               sock' = [sock EXCEPT ![i] = a, ![c] = b]
        PROVE  \A j \in Sockets \ {i} : sock'[j].st = sock[j].st /\ sock'[j].name = sock[j].name
    BY <1>1, <2>1
  <2>2. ASSUME NEW c \in Queue(tr[s].fd),
               sock' = [sock EXCEPT ![i] = [FreeSock EXCEPT !.st = "up", !.peer = c],
                                    ![c].peer = i]
        PROVE  \A j \in Sockets \ {i} : sock'[j].st = sock[j].st /\ sock'[j].name = sock[j].name
    <3>1. c \in Sockets /\ c # i
      BY <1>3, <2>2 DEF Queue
    <3> DEFINE a == [FreeSock EXCEPT !.st = "up", !.peer = c]
               b == [sock[c] EXCEPT !.peer = i]
    <3>2. b.st = sock[c].st /\ b.name = sock[c].name
      BY <1>1, <3>1 DEF SockRecord
    <3>3. sock' = [sock EXCEPT ![i] = a, ![c] = b]
      BY <1>1, <2>2, <3>1
    <3> HIDE DEF a, b
    <3> QED
      BY <2>1, <3>1, <3>2, <3>3
  <2>3. ASSUME sock' = [sock EXCEPT ![i] = [FreeSock EXCEPT !.st = "eof"],
                                    ![tr[s].fd].dead = @ - 1]
        PROVE  \A j \in Sockets \ {i} : sock'[j].st = sock[j].st /\ sock'[j].name = sock[j].name
    <3>1. tr[s].fd # i
      BY <1>1, <1>3, OwnFd, Disjoint
    <3> DEFINE a == [FreeSock EXCEPT !.st = "eof"]
               b == [sock[tr[s].fd] EXCEPT !.dead = @ - 1]
    <3>2. b.st = sock[tr[s].fd].st /\ b.name = sock[tr[s].fd].name
      BY <1>1 DEF SockRecord
    <3>3. sock' = [sock EXCEPT ![i] = a, ![tr[s].fd] = b]
      BY <1>1, <2>3, <3>1
    <3> HIDE DEF a, b
    <3> QED
      BY <1>1, <2>1, <3>1, <3>2, <3>3
  <2> QED
    BY <1>2, <2>2, <2>3
<1>5. \A p \in Objects : tr[p].fd \in Sockets => tr[p].fd # i
  BY <1>3, OwnFd
<1>6. \A p \in Servers \cup Clients : Stays(p) /\ NameStays(p)
  BY <1>1, <1>4, <1>5, Disjoint DEF Stays, NameStays, Ages
<1>7. \A a \in Accepted : ~tr'[a].srv
  BY <1>1, NoListener
<1> QED
  BY <1>1, <1>6, <1>7, AcceptingAddr

\* The accepted descriptor is handed to a new transport, or closed.
LEMMA WrapAddr ==
  ASSUME OwnInv, AddrInv, NEW s \in Servers, AcceptWrap(s)
  PROVE  AddrInv'
<1>1. /\ pc[s] = "wrap" /\ pc' = [pc EXCEPT ![s] = "up"] /\ UNCHANGED <<settings, overlap>>
      /\ tr \in [Objects -> Transport] /\ Types
  BY DEF AcceptWrap, OwnInv, Types
<1>2. ASSUME NEW o \in Accepted, AcceptInstall(s, o)
      PROVE  AddrInv'
  <2>1. /\ tr' = [tr EXCEPT ![o] = [live |-> TRUE, fd |-> new[s], srv |-> FALSE, by |-> s]]
        /\ sock' = sock
    BY <1>2 DEF AcceptInstall
  <2>2. ~tr'[o].srv /\ \A p \in Objects \ {o} : tr'[p] = tr[p]
    BY <1>1, <2>1, Disjoint
  <2>3. \A p \in Servers \cup Clients : Stays(p) /\ NameStays(p)
    BY <2>1, <2>2, Disjoint DEF Stays, NameStays, Ages
  <2>4. \A a \in Accepted : ~tr'[a].srv
    BY <2>2, NoListener, Disjoint
  <2> QED
    BY <1>1, <2>3, <2>4, AcceptingAddr
<1>3. ASSUME sock' = Closed({new[s]}), UNCHANGED tr
      PROVE  AddrInv'
  <2>1. ASSUME NEW p \in Objects, tr[p].fd \in Sockets
        PROVE  /\ Ages(sock[tr[p].fd].st, sock'[tr[p].fd].st)
               /\ sock'[tr[p].fd].name = sock[tr[p].fd].name
    <3>1. tr[p].fd \notin {new[s]}
      BY <2>1, OwnFd
    <3> QED
      BY <1>1, <1>3, <2>1, <3>1, ClosedAges
  <2>2. \A p \in Servers \cup Clients : Stays(p) /\ NameStays(p)
    BY <1>3, <2>1, Disjoint DEF Stays, NameStays
  <2>3. \A a \in Accepted : ~tr'[a].srv
    BY <1>3, NoListener
  <2> QED
    BY <1>1, <2>2, <2>3, AcceptingAddr
<1> QED
  BY <1>2, <1>3 DEF AcceptWrap

\* ssn_server_free_resources and a crash: server s is down, the transports in O
\* are no more, and the sockets in I, those of O and of an accept, are closed.
Gone(s, O, I) ==
    /\ \A i \in I : i = new[s] \/ \E o \in O : i = tr[o].fd
    /\ sock' = Closed(I) \/ (sock' = Unlinked(Closed(I)) /\ kind = "unix")
    /\ tr' = [o \in Objects |-> IF o \in O THEN NoTransport ELSE tr[o]]
    /\ pc' = [pc EXCEPT ![s] = "down"]

\* It leaves clients and other servers alone, but for the path.
LEMMA GoneAddr ==
  ASSUME OwnInv, AddrInv, NEW s \in Servers, NEW O \in SUBSET (Accepted \cup {s}), NEW I,
         Gone(s, O, I), \A t \in Servers \ {s} : pc[t] = "down" \/ overlap',
         UNCHANGED settings
  PROVE  AddrInv'
<1>1. /\ \A i \in I : i = new[s] \/ \E o \in O : i = tr[o].fd
      /\ sock' = Closed(I) \/ (sock' = Unlinked(Closed(I)) /\ kind = "unix")
      /\ tr' = [o \in Objects |-> IF o \in O THEN NoTransport ELSE tr[o]]
      /\ pc' = [pc EXCEPT ![s] = "down"]
  BY DEF Gone
<1>2. pc'[s] = "down"
  BY <1>1 DEF OwnInv, Types
<1>3. ServOf(s)'
  BY <1>2 DEF ServOf
<1>4. Types /\ O \subseteq Objects
  BY Disjoint, ZenonT(30) DEF OwnInv
<1>5. \A a \in Accepted : ~tr'[a].srv
  BY <1>1, NoListener, Disjoint DEF NoTransport
<1>6. ASSUME NEW p \in (Servers \cup Clients) \ {s}
      PROVE  Stays(p) /\ (NameStays(p) \/ kind = "unix")
  <2>1. p \in Objects /\ p \notin O
    BY <1>6, Disjoint
  <2>2. tr'[p] = tr[p]
    BY <1>1, <2>1
  <2>3. ASSUME tr[p].fd \in Sockets
        PROVE  /\ Ages(sock[tr[p].fd].st, sock'[tr[p].fd].st)
               /\ sock'[tr[p].fd].name = sock[tr[p].fd].name \/ kind = "unix"
    <3>1. tr[p].fd \notin I
      BY <1>1, <1>4, <2>1, <2>3, OwnFd, ZenonT(30)
    <3>2. /\ Ages(sock[tr[p].fd].st, Closed(I)[tr[p].fd].st)
          /\ Closed(I)[tr[p].fd].name = sock[tr[p].fd].name
      BY <1>4, <2>3, <3>1, ClosedAges
    <3>3. CASE sock' = Closed(I)
      BY <3>2, <3>3
    <3>4. CASE sock' = Unlinked(Closed(I)) /\ kind = "unix"
      <4>1. Closed(I) \in [Sockets -> SockRecord]
        BY <1>4, ClosedSock
      <4>2. sock'[tr[p].fd].st = Closed(I)[tr[p].fd].st
        BY <2>3, <3>4, <4>1, UnlinkedSock
      <4> QED
        BY <3>2, <3>4, <4>2
    <3> QED
      BY <1>1, <3>3, <3>4
  <2> QED
    BY <2>2, <2>3 DEF Stays, NameStays
<1> QED
  BY <1>1, <1>3, <1>5, <1>6, ServerActs

\* Every step of a server.
LEMMA ServerAddr ==
  ASSUME OwnInv, AddrInv, NEW s \in Servers, ServerNext(s)
  PROVE  AddrInv'
<1>1. CASE \/ ServerStart(s) \/ ServerCreate(s)
           \/ UnixListenUnlink(s) \/ UnixListen(s) \/ TcpListen(s) \/ UdpListen(s)
  BY <1>1, StartAddr
<1>2. CASE Accept(s)
  BY <1>2, AcceptAddr
<1>3. CASE AcceptWrap(s)
  BY <1>3, WrapAddr
<1>4. CASE ServerDestroy(s)
  BY <1>4, ServerDestroyAddr DEF ServerDestroy
<1>5. CASE ServerFree(s)
  <2>1. \A t \in Servers \ {s} : pc[t] = "down" \/ overlap'
    BY <1>5, OthersDown DEF ServerFree
  <2>2. Holds(s) \in SUBSET (Accepted \cup {s})
    BY DEF Holds
  <2>3. Gone(s, Holds(s), FdsOf(Holds(s))) /\ UNCHANGED settings
    BY <1>5 DEF ServerFree, Gone, FdsOf
  <2> QED
    BY <2>1, <2>2, <2>3, GoneAddr
<1>6. CASE ServerCrash(s)
  <2>1. \A t \in Servers \ {s} : pc[t] = "down" \/ overlap'
    BY <1>6, OthersDown DEF ServerCrash
  <2>2. Holds(s) \cup {s} \in SUBSET (Accepted \cup {s})
    BY DEF Holds
  <2>3. /\ Gone(s, Holds(s) \cup {s}, FdsOf(Holds(s) \cup {s}) \cup ({new[s]} \ {NoSocket}))
        /\ UNCHANGED settings
    BY <1>6 DEF ServerCrash, Gone, FdsOf
  <2> QED
    BY <2>1, <2>2, <2>3, GoneAddr
<1> QED
  BY <1>1, <1>2, <1>3, <1>4, <1>5, <1>6 DEF ServerNext

\* A server disconnects or destroys one of the transports it accepted.
LEMMA PeerAddr ==
  ASSUME OwnInv, AddrInv, NEW a \in Accepted,
         ServerDisconnect(a) \/ ServerDrop(a) \/ ServerRecv(a)
  PROVE  AddrInv'
<1>1. /\ UNCHANGED <<settings, overlap, pc>> /\ a \in Objects
      /\ a \notin Servers /\ a \notin Clients /\ ~tr[a].srv
  BY Disjoint, NoListener DEF ServerDisconnect, ServerDrop, ServerRecv
<1>2. ~tr'[a].srv /\ \A p \in Objects \ {a} : Stays(p) /\ NameStays(p)
  <2>1. CASE ServerDisconnect(a)
    BY <1>1, <2>1, DisconnectFrame DEF ServerDisconnect
  <2>2. CASE ServerDrop(a) \/ ServerRecv(a)
    <3>1. Destroy({a}) /\ {a} \in SUBSET Objects /\ ~UnixUnlinks({a})
      BY <1>1, <2>2 DEF ServerDrop, ServerRecv, UnixUnlinks
    <3>2. tr'[a] = NoTransport /\ \A p \in Objects \ {a} : Stays(p) /\ NameStays(p)
      BY <3>1, DestroyFrame
    <3> QED
      BY <3>2, SMTT(30) DEF NoTransport
  <2> QED
    BY <2>1, <2>2
<1>3. {a} \in SUBSET (Clients \cup Accepted) /\ {a} \cap Clients = {}
  BY <1>1
<1> QED
  BY <1>1, <1>2, <1>3, PlainActs

\* Every step of a client.
LEMMA ClientAddr ==
  ASSUME OwnInv, AddrInv, NEW c \in Clients, ClientNext(c)
  PROVE  AddrInv'
<1>1. /\ c \in Objects /\ c \notin Servers /\ tr \in [Objects -> Transport] /\ ~tr[c].srv
      /\ sock \in [Sockets -> SockRecord] /\ ConnOf(c)
  BY Disjoint, NoListener DEF OwnInv, Types, AddrInv
<1>2. ASSUME NEW l, pc' = [pc EXCEPT ![c] = l]
      PROVE  pc'[c] = l /\ \A p \in (Servers \cup Clients) \ {c} : pc'[p] = pc[p]
  BY <1>2 DEF OwnInv, Types
\* What is left to show of a step is what it does to the client itself.
<1>3. ASSUME NEW l, pc' = [pc EXCEPT ![c] = l], UNCHANGED <<settings, overlap>>,
             \A p \in Objects \ {c} : Stays(p) /\ NameStays(p), ~tr'[c].srv, ConnOf(c)'
      PROVE  AddrInv'
  <2>1. \A p \in (Servers \cup Clients) \ {c} : pc'[p] = pc[p]
    BY <1>2, <1>3
  <2>2. {c} \in SUBSET (Clients \cup Accepted)
    OBVIOUS
  <2> QED
    BY <1>3, <2>1, <2>2, PlainActs
<1>4. CASE ClientCreate(c)
  <2>1. PICK i \in Sockets :
            /\ Lowest(i)
            /\ sock' = [sock EXCEPT ![i] = creators[kind]]
            /\ tr' = [tr EXCEPT ![c] = [live |-> TRUE, fd |-> i, srv |-> FALSE, by |-> NoServer]]
    BY <1>4 DEF ClientCreate, Create
  <2>2. /\ ~tr'[c].srv
        /\ \A p \in Objects \ {c} : tr'[p] = tr[p]
        /\ \A j \in Sockets \ {i} : sock'[j] = sock[j]
    BY <1>1, <2>1
  <2>3. pc' = [pc EXCEPT ![c] = "close"] /\ UNCHANGED <<settings, overlap>>
    BY <1>4 DEF ClientCreate, Goto
  <2>4. ConnOf(c)'
    BY <1>2, <2>3 DEF ConnOf
  <2>5. \A p \in Objects \ {c} : Stays(p) /\ NameStays(p)
    BY <1>1, <2>1, <2>2, OwnChange
  <2> QED
    BY <1>3, <2>2, <2>3, <2>4, <2>5
<1>5. CASE ConnectClose(c) \/ SendFails(c) \/ ClientDisconnect(c)
  <2>1. Disconnect(c) /\ UNCHANGED <<settings, overlap>>
    BY <1>5 DEF ConnectClose, SendFails, ClientDisconnect
  <2>2. PICK l \in {"socket", "lost"} : pc' = [pc EXCEPT ![c] = l]
    BY <1>5 DEF ConnectClose, SendFails, ClientDisconnect, Goto
  <2>3. ConnOf(c)'
    BY <1>2, <2>2 DEF ConnOf
  <2>4. ~tr'[c].srv /\ \A p \in Objects \ {c} : Stays(p) /\ NameStays(p)
    BY <1>1, <2>1, DisconnectFrame
  <2> QED
    BY <1>3, <2>1, <2>2, <2>3, <2>4
<1>6. CASE ClientDestroy(c)
  <2>1. Destroy({c}) /\ pc' = [pc EXCEPT ![c] = "idle"] /\ UNCHANGED <<settings, overlap>>
    BY <1>6 DEF ClientDestroy, Goto
  <2>2. ConnOf(c)'
    BY <1>2, <2>1 DEF ConnOf
  <2>3. {c} \in SUBSET Objects /\ ~UnixUnlinks({c})
    BY <1>1 DEF UnixUnlinks
  <2>4. tr'[c] = NoTransport /\ \A p \in Objects \ {c} : Stays(p) /\ NameStays(p)
    BY <2>1, <2>3, DestroyFrame
  <2>5. ~tr'[c].srv
    BY <2>4, SMTT(30) DEF NoTransport
  <2> QED
    BY <1>3, <2>1, <2>2, <2>4, <2>5
<1>7. CASE ConnectSocket(c)
  <2>1. CASE ~ClientDestroy(c)
    <3>1. PICK i \in Sockets :
              /\ Lowest(i)
              /\ sock' = [sock EXCEPT ![i] = creators[kind]]
              /\ tr' = [tr EXCEPT ![c].fd = i]
              /\ pc' = [pc EXCEPT ![c] = "connect"]
              /\ UNCHANGED <<settings, overlap>>
      BY <1>7, <2>1 DEF ConnectSocket, Goto
    <3>2. /\ tr'[c].fd = i /\ ~tr'[c].srv
          /\ \A p \in Objects \ {c} : tr'[p] = tr[p]
          /\ \A j \in Sockets \ {i} : sock'[j] = sock[j]
      BY <1>1, <3>1 DEF Transport
    <3>3. ConnOf(c)'
      BY <1>2, <3>1, <3>2 DEF ConnOf
    <3>4. \A p \in Objects \ {c} : Stays(p) /\ NameStays(p)
      BY <1>1, <3>1, <3>2, OwnChange
    <3> QED
      BY <1>3, <3>1, <3>2, <3>3, <3>4
  <2> QED
    BY <1>6, <2>1
\* The connect() of a client gives its socket the state x.
<1>8. ASSUME pc[c] = "connect", NEW x, NEW l,
             \/ sock' = [sock EXCEPT ![tr[c].fd].st = x]
             \/ \E k : sock' = [sock EXCEPT ![tr[c].fd].st = x, ![tr[c].fd].peer = k],
             pc' = [pc EXCEPT ![c] = l], UNCHANGED <<settings, tr, overlap>>,
             (x = "up" /\ l = "connected") \/ (x = "syn" /\ l = "select")
      PROVE  AddrInv'
  <2>1. tr[c].fd \in Sockets
    BY <1>1, <1>8 DEF ConnOf
  <2>2. PICK r : r.st = x /\ sock' = [sock EXCEPT ![tr[c].fd] = r]
    <3>1. CASE sock' = [sock EXCEPT ![tr[c].fd].st = x]
      <4> DEFINE r == [sock[tr[c].fd] EXCEPT !.st = x]
      <4>1. r.st = x
        BY <1>1, <2>1 DEF SockRecord
      <4>2. sock' = [sock EXCEPT ![tr[c].fd] = r]
        BY <1>1, <2>1, <3>1
      <4> HIDE DEF r
      <4> QED
        BY <4>1, <4>2
    <3>2. ASSUME NEW k, sock' = [sock EXCEPT ![tr[c].fd].st = x, ![tr[c].fd].peer = k]
          PROVE  \E r : r.st = x /\ sock' = [sock EXCEPT ![tr[c].fd] = r]
      <4> DEFINE r == [sock[tr[c].fd] EXCEPT !.st = x, !.peer = k]
      <4>1. r.st = x
        BY <1>1, <2>1 DEF SockRecord
      <4>2. sock' = [sock EXCEPT ![tr[c].fd] = r]
        BY <1>1, <2>1, <3>2
      <4> HIDE DEF r
      <4> QED
        BY <4>1, <4>2
    <3> QED
      BY <1>8, <3>1, <3>2
  <2>3. sock'[tr[c].fd].st = x /\ \A j \in Sockets \ {tr[c].fd} : sock'[j] = sock[j]
    BY <1>1, <2>1, <2>2
  <2>4. \A p \in Objects \ {c} : Stays(p) /\ NameStays(p)
    BY <1>1, <1>8, <2>3, OwnChange
  <2>5. pc'[c] = l
    BY <1>2, <1>8
  <2>6. ConnOf(c)'
    BY <1>8, <2>1, <2>3, <2>5 DEF ConnOf
  <2> QED
    BY <1>1, <1>3, <1>8, <2>4, <2>6
<1>9. ASSUME NEW l \in Named, Reaches(c, l), pc[c] = "connect"
      PROVE  AddrInv'
  <2>1. /\ sock' = [sock EXCEPT ![tr[c].fd].st = "up", ![tr[c].fd].peer = l]
        /\ pc' = [pc EXCEPT ![c] = "connected"] /\ UNCHANGED <<settings, tr, overlap>>
    BY <1>9 DEF Reaches, Goto
  <2> QED
    BY <1>8, <1>9, <2>1
<1>10. CASE UnixConnect(c)
  BY <1>6, <1>9, <1>10 DEF UnixConnect
<1>11. CASE TcpConnect(c)
  <2>1. CASE /\ sock' = [sock EXCEPT ![tr[c].fd].st = "syn"]
             /\ Goto(c, "select")
             /\ UNCHANGED <<settings, file, tr, new, overlap>>
    <3>1. pc[c] = "connect" /\ pc' = [pc EXCEPT ![c] = "select"]
      BY <1>11, <2>1 DEF TcpConnect, Goto
    <3> QED
      BY <1>8, <2>1, <3>1
  <2> QED
    BY <1>6, <1>9, <1>11, <2>1 DEF TcpConnect
<1>12. CASE TcpSelect(c) \/ UdpConnect(c)
  <2>1. CASE ~ClientDestroy(c)
    <3>1. /\ pc' = [pc EXCEPT ![c] = "connected"] /\ UNCHANGED <<settings, sock, tr, overlap>>
      BY <1>12, <2>1 DEF TcpSelect, UdpConnect, Goto
    <3>2. \A p \in Objects \ {c} : Stays(p) /\ NameStays(p)
      BY <3>1 DEF Stays, NameStays, Ages
    <3>3. pc'[c] = "connected"
      BY <1>2, <3>1
    <3>4. ConnOf(c)'
      <4>1. CASE UdpConnect(c)
        BY <1>1, <3>1, <3>3, <4>1 DEF UdpConnect, ConnOf, settings
      <4>2. CASE TcpSelect(c)
        <5>1. /\ pc[c] = "select" /\ SoError(tr[c].fd) = 0
              /\ waits => sock[tr[c].fd].st # "syn"
          BY <2>1, <4>2 DEF TcpSelect
        <5>2. sock[tr[c].fd].st # "reset"
          BY <5>1, SMTT(30) DEF SoError
        <5> QED
          BY <1>1, <3>1, <3>3, <5>1, <5>2 DEF ConnOf, settings
      <4> QED
        BY <1>12, <4>1, <4>2
    <3> QED
      BY <1>1, <1>3, <3>1, <3>2, <3>4
  <2> QED
    BY <1>6, <2>1
<1>13. CASE TcpTimeout(c) \/ ClientClose(c) \/ ClientRecv(c)
  BY <1>6, <1>13 DEF TcpTimeout, ClientClose, ClientRecv
<1> QED
  BY <1>4, <1>5, <1>7, <1>10, <1>11, <1>12, <1>13 DEF ClientNext

\* The network answers a connect in progress.
LEMMA NetworkAddr ==
  ASSUME OwnInv, AddrInv, NEW i \in Sockets, NetworkAnswers(i)
  PROVE  AddrInv'
<1>1. /\ UNCHANGED <<settings, tr, pc, overlap>> /\ sock[i].st = "syn"
      /\ sock \in [Sockets -> SockRecord]
  BY DEF NetworkAnswers, OwnInv, Types
<1>2. /\ \A j \in Sockets \ {i} : sock'[j] = sock[j]
      /\ sock'[i].st \in {"up", "reset"} /\ sock'[i].name = sock[i].name
  <2>1. CASE sock' = [sock EXCEPT ![i].st = "reset"]
    BY <1>1, <2>1 DEF SockRecord
  <2>2. ASSUME NEW l, sock' = [sock EXCEPT ![i].st = "up", ![i].peer = l]
        PROVE  <1>2!:
    BY <1>1, <2>2 DEF SockRecord
  <2> QED
    BY <2>1, <2>2 DEF NetworkAnswers
<1>3. \A p \in Objects : Stays(p) /\ NameStays(p)
  BY <1>1, <1>2 DEF Stays, NameStays, Ages
<1>4. /\ {} \in SUBSET (Clients \cup Accepted)
      /\ \A p \in Objects \ {} : Stays(p) /\ NameStays(p)
      /\ \A p \in (Servers \cup Clients) \ {} : pc'[p] = pc[p]
      /\ \A o \in {} : ~tr'[o].srv
      /\ \A c \in {} \cap Clients : ConnOf(c)'
  BY <1>1, <1>3
<1> QED
  BY <1>1, <1>4, PlainActs

\* No step of a server, a client or the network breaks the invariant.
LEMMA StepAddr == OwnInv /\ AddrInv /\ [Next]_vars => AddrInv'
<1> SUFFICES ASSUME OwnInv, AddrInv, [Next]_vars PROVE AddrInv'
  OBVIOUS
<1>1. CASE UNCHANGED vars
  BY <1>1 DEF vars, settings, AddrInv, ConnOf, ServOf, SideInv
<1>2. ASSUME NEW s \in Servers, ServerNext(s) PROVE AddrInv'
  BY <1>2, ServerAddr
<1>3. ASSUME NEW o \in Accepted, ServerDisconnect(o) \/ ServerDrop(o) \/ ServerRecv(o)
      PROVE  AddrInv'
  BY <1>3, PeerAddr
<1>4. ASSUME NEW c \in Clients, ClientNext(c) PROVE AddrInv'
  BY <1>4, ClientAddr
<1>5. ASSUME NEW i \in Sockets, NetworkAnswers(i) PROVE AddrInv'
  BY <1>5, NetworkAddr
<1> QED
  BY <1>1, <1>2, <1>3, <1>4, <1>5 DEF Next

\* At the start every server is down and no client is connected.
LEMMA InitAddr == Init => AddrInv
<1> SUFFICES ASSUME Init PROVE AddrInv
  OBVIOUS
<1>1. /\ \A s \in Servers : pc[s] = "down"
      /\ \A c \in Clients : pc[c] = "idle"
  BY Disjoint DEF Init
<1>2. \A o \in Objects : ~tr[o].srv
  BY DEF Init, NoTransport
<1>3. \A s \in Servers : ServOf(s)
  BY <1>1 DEF ServOf
<1>4. \A c \in Clients : ConnOf(c)
  BY <1>1 DEF ConnOf
<1>5. SideInv
  BY <1>1, <1>2 DEF SideInv, Init
<1> QED
  BY <1>3, <1>4, <1>5 DEF AddrInv

\* OwnInv and AddrInv together are inductive.
LEMMA AddrInvariant == Spec => [](OwnInv /\ AddrInv)
<1>1. Init => OwnInv /\ AddrInv
  BY InitOwn, InitAddr
<1>2. OwnInv /\ AddrInv /\ [Next]_vars => (OwnInv /\ AddrInv)'
  BY StepOwn, StepAddr
<1> QED
  BY <1>1, <1>2, PTL DEF Spec

\* ConnectIsReal in every execution: a Unix or TCP connect with a timeout that
\* ssn_transport_connect reports as made was taken by a listener, however many
\* servers start, stop and crash meanwhile.
THEOREM ConnectsAreReal == Spec => []ConnectIsReal
<1>1. AddrInv => ConnectIsReal
  BY DEF AddrInv, ConnOf, ConnectIsReal
<1> QED
  BY <1>1, AddrInvariant, PTL

\* AddressServed in every execution: a server that has started is reached through
\* its address, for any number of servers, failed starts and crashes; on a Unix
\* path, while no server was started before the last one was gone.
THEOREM StartedIsReached == Spec => []AddressServed
<1>1. AddrInv => AddressServed
  BY DEF AddrInv, ServOf, AddressServed
<1> QED
  BY <1>1, AddrInvariant, PTL

=============================================================================
