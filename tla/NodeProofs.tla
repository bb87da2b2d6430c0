----------------------------- MODULE NodeProofs -----------------------------
(***************************************************************************)
(* For any number of threads, peers and client objects of a node: no       *)
(* thread uses a client that was freed, a message for a peer reaches that  *)
(* peer unless calls for different peers overlapped, and a destroyed node  *)
(* leaves no client behind.                                                *)
(*                                                                         *)
(* The code keeps the client alive by counting references.  RefInv says    *)
(* that the count is right: one for the node's own pointer and one for     *)
(* each thread that took the pointer out of the mutex; the node's pointer  *)
(* is the one to the client that is not closed.  PeerInv adds which peer   *)
(* the connection, peer_address and the calls on their way have, LeakInv   *)
(* who will close the client of a node that is being destroyed.            *)
(***************************************************************************)
EXTENDS Node, FiniteSetTheorems, TLAPS

\* Most leaves are first-order reasoning about functions, sets and records, which
\* Zenon does well; a leaf that needs arithmetic or sequences names SMT.
USE Zenon

Holders(k) == {t \in Threads : my[t] = k}

CliRecord == [used : BOOLEAN, valid : BOOLEAN, refs : Nat, conn : Peers \cup {NPeer},
              pend : BOOLEAN]

\* Where a thread has a client pointer, and where it may have one.
Holding == {"ensure", "connect", "handshake", "setpeer", "send", "activity", "unref"}
Polling == {"poll", "callback"}
Pcs == Holding \cup Polling \cup {"idle", "stop", "callbacks", "stopped", "free"}

NodeTypes ==
    /\ client \in Clients \cup {NoClient}
    /\ cli \in [Clients -> CliRecord]
    /\ my \in [Threads -> Clients \cup {NoClient}]
    /\ arg \in [Threads -> Peers \cup {NPeer}]
    /\ pc \in [Threads -> Pcs]

PointerInv ==
    \A t \in Threads :
        /\ pc[t] \in Holding => my[t] # NoClient
        /\ pc[t] \notin Holding \cup Polling => my[t] = NoClient

Own(k) == IF client = k THEN 1 ELSE 0
CountInv == \A k \in Clients : cli[k].refs = Cardinality(Holders(k)) + Own(k)
UsedInv ==
    \A k \in Clients :
        /\ cli[k].used => (cli[k].valid <=> client = k)
        /\ cli[k].used <=> cli[k].refs # 0

RefInv == NodeTypes /\ PointerInv /\ CountInv /\ UsedInv

-----------------------------------------------------------------------------
\* The holders of a client are finitely many, and counted.
LEMMA HoldersFinite ==
  ASSUME NEW k PROVE IsFiniteSet(Holders(k)) /\ Cardinality(Holders(k)) \in Nat
<1>1. IsFiniteSet(Threads) /\ Holders(k) \subseteq Threads
  BY NodeAssumption DEF Holders
<1> QED
  BY <1>1, FS_Subset, FS_CardinalityType

\* A thread that has a pointer has a reference, so that its client is there.
LEMMA HeldIsUsed ==
  ASSUME RefInv, NEW t \in Threads, my[t] # NoClient
  PROVE  my[t] \in Clients /\ cli[my[t]].used /\ cli[my[t]].refs >= 1 + Own(my[t])
<1>1. my[t] \in Clients /\ t \in Holders(my[t])
  BY DEF RefInv, NodeTypes, Holders
<1>2. Cardinality(Holders(my[t])) # 0 /\ Cardinality(Holders(my[t])) \in Nat
  BY <1>1, HoldersFinite, FS_EmptySet
<1> QED
  BY <1>1, <1>2, SMTT(30) DEF RefInv, CountInv, UsedInv, Own

\* A thread without a pointer takes one to k ...
LEMMA TakePointer ==
  ASSUME RefInv, NEW t \in Threads, NEW k \in Clients, my[t] = NoClient,
         my' = [my EXCEPT ![t] = k]
  PROVE  /\ Cardinality(Holders(k)') = Cardinality(Holders(k)) + 1
         /\ \A j \in Clients \ {k} : Holders(j)' = Holders(j)
<1>1. t \notin Holders(k) /\ Holders(k)' = Holders(k) \cup {t}
  BY SMTT(30) DEF RefInv, NodeTypes, Holders, Clients, NoClient
<1>2. \A j \in Clients \ {k} : Holders(j)' = Holders(j)
  BY SMTT(30) DEF RefInv, NodeTypes, Holders, Clients, NoClient
<1> QED
  BY <1>1, <1>2, HoldersFinite, FS_AddElement

\* ... and gives it back.
LEMMA DropPointer ==
  ASSUME RefInv, NEW t \in Threads, NEW k \in Clients, my[t] = k,
         my' = [my EXCEPT ![t] = NoClient]
  PROVE  /\ Cardinality(Holders(k)') = Cardinality(Holders(k)) - 1
         /\ \A j \in Clients \ {k} : Holders(j)' = Holders(j)
<1>1. t \in Holders(k) /\ Holders(k)' = Holders(k) \ {t}
  BY SMTT(30) DEF RefInv, NodeTypes, Holders, Clients, NoClient
<1>2. \A j \in Clients \ {k} : Holders(j)' = Holders(j)
  BY SMTT(30) DEF RefInv, NodeTypes, Holders, Clients, NoClient
<1> QED
  BY <1>1, <1>2, HoldersFinite, FS_RemoveElement, ZenonT(30)

\* Steps that move no pointer: those that change the connection or the pending
\* calls of a client, or nothing but the place of a thread.
LEMMA PlainStep ==
  ASSUME RefInv, NEW t \in Threads, NEW l \in Pcs, Goto(t, l),
         UNCHANGED <<client, my, arg>>, cli' \in [Clients -> CliRecord],
         \A k \in Clients : /\ cli'[k].used = cli[k].used
                            /\ cli'[k].valid = cli[k].valid
                            /\ cli'[k].refs = cli[k].refs,
         l \in Holding => my[t] # NoClient,
         l \notin Holding \cup Polling => my[t] = NoClient
  PROVE  RefInv'
<1> USE DEF RefInv, Goto
<1>1. NodeTypes'
  BY DEF NodeTypes
<1>2. PointerInv'
  BY DEF PointerInv, NodeTypes
<1>3. CountInv'
  BY DEF CountInv, Holders, Own
<1>4. UsedInv'
  BY DEF UsedInv
<1> QED
  BY <1>1, <1>2, <1>3, <1>4

\* ssn_client_unref takes one reference away and frees with the last one.
LEMMA LeftType ==
  ASSUME NEW c \in CliRecord, c.refs # 0
  PROVE  /\ Left(c) \in CliRecord /\ Left(c).refs = c.refs - 1
         /\ Left(c).used => c.used /\ (Left(c).valid <=> c.valid)
         /\ Left(c).refs # 0 /\ c.used => Left(c).used
         /\ Left(c).used => Left(c).refs # 0 \/ c.valid
         /\ Left(c).used => Left(c).conn = c.conn
<1>1. CASE c.refs = 1 /\ ~c.valid
  BY <1>1, SMTT(30) DEF Left, CliRecord, NoCli
<1>2. CASE ~(c.refs = 1 /\ ~c.valid)
  BY <1>2, SMTT(30) DEF Left, CliRecord
<1> QED
  BY <1>1, <1>2

\* ssn_node_stop closes the node's client and gives the node's reference back.
LEMMA StopStep ==
  ASSUME RefInv, NEW t \in Threads, my[t] = NoClient, StopLocked(t), UNCHANGED <<my, arg>>
  PROVE  RefInv'
<1> USE DEF RefInv
<1>1. PICK l \in {"stopped", "callbacks"} : pc' = [pc EXCEPT ![t] = l]
  BY DEF StopLocked, Goto
<1>2. pc' \in [Threads -> Pcs]
  BY <1>1 DEF NodeTypes, Pcs
<1>3. PointerInv'
  <2>1. l \notin Holding \cup Polling
    BY DEF Holding, Polling
  <2> QED
    BY <1>1, <2>1 DEF PointerInv, NodeTypes, Holding
<1>4. client' = NoClient
  BY DEF StopLocked
<1>5. CASE client = NoClient
  <2>1. cli' = cli
    BY <1>5 DEF StopLocked
  <2> QED
    BY <1>2, <1>3, <1>4, <1>5, <2>1, ZenonT(30) DEF NodeTypes, CountInv, UsedInv, Holders, Own
<1>6. CASE client # NoClient
  <2>1. PICK k \in Clients : k = client
    BY <1>6 DEF NodeTypes
  <2>2. /\ cli[k] \in CliRecord
        /\ cli[k].refs = Cardinality(Holders(k)) + 1
        /\ Cardinality(Holders(k)) \in Nat
    BY <2>1, HoldersFinite DEF NodeTypes, CountInv, Own
  <2>3. cli[k].used
    BY <2>2, SMTT(30) DEF UsedInv
  <2> DEFINE c == [cli[k] EXCEPT !.valid = FALSE]
  <2>4. c \in CliRecord /\ c.refs = cli[k].refs /\ c.used /\ ~c.valid
    BY <2>2, <2>3 DEF CliRecord
  <2>5. cli' = [cli EXCEPT ![k] = Left(c)]
    <3>1. cli' = Unref(Invalid(cli, k), k)
      BY <1>6, <2>1 DEF StopLocked
    <3>2. Invalid(cli, k) = [cli EXCEPT ![k] = c]
      BY DEF Invalid, NodeTypes
    <3> HIDE DEF c
    <3>3. Unref([cli EXCEPT ![k] = c], k) = [cli EXCEPT ![k] = Left(c)]
      BY DEF Unref, NodeTypes
    <3> QED
      BY <3>1, <3>2, <3>3
  <2>6. /\ Left(c) \in CliRecord /\ Left(c).refs = Cardinality(Holders(k))
        /\ Left(c).used => ~Left(c).valid
        /\ Left(c).used <=> Left(c).refs # 0
    <3> HIDE DEF c
    <3>1. c.refs # 0 /\ c.refs - 1 = Cardinality(Holders(k))
      BY <2>2, <2>4, SMTT(30)
    <3> QED
      BY <2>4, <3>1, LeftType
  <2> HIDE DEF c
  <2>7. NodeTypes'
    BY <1>2, <1>4, <2>5, <2>6 DEF NodeTypes
  <2>8. ASSUME NEW j \in Clients
        PROVE  /\ cli'[j].refs = Cardinality(Holders(j)) /\ j # NoClient
               /\ cli'[j].used => ~cli'[j].valid
               /\ cli'[j].used <=> cli'[j].refs # 0
    <3>1. j # NoClient
      BY NodeAssumption, SMTT(30) DEF Clients, NoClient
    <3>2. CASE j = k
      BY <2>5, <2>6, <3>1, <3>2 DEF NodeTypes
    <3>3. CASE j # k
      <4>1. cli'[j] = cli[j] /\ cli[j].refs = Cardinality(Holders(j)) + 0
        BY <2>1, <2>5, <3>3 DEF NodeTypes, CountInv, Own
      <4> QED
        BY <2>1, <3>1, <3>3, <4>1, HoldersFinite, SMTT(30) DEF UsedInv
    <3> QED
      BY <3>2, <3>3
  <2>9. CountInv'
    <3> SUFFICES ASSUME NEW j \in Clients
                 PROVE  cli'[j].refs = Cardinality(Holders(j)') + Own(j)'
      BY DEF CountInv
    <3>1. Holders(j)' = Holders(j) /\ Own(j)' = 0
      BY <1>4, <2>8 DEF Holders, Own
    <3> QED
      BY <2>8, <3>1, HoldersFinite, SMTT(30)
  <2>10. UsedInv'
    BY <1>4, <2>8 DEF UsedInv
  <2> QED
    BY <1>3, <2>7, <2>9, <2>10
<1> QED
  BY <1>5, <1>6

\* ssn_client_unref ends a call or a poll.
LEMMA UnrefStep ==
  ASSUME RefInv, NEW t \in Threads, UnrefMine(t)
  PROVE  RefInv'
<1> USE DEF RefInv
<1>1. PICK k \in Clients : k = my[t]
  BY DEF UnrefMine, PointerInv, Holding, NodeTypes
<1>2. cli[k] \in CliRecord /\ cli[k].used /\ cli[k].refs >= 1 + Own(k)
  BY <1>1, HeldIsUsed, SMTT(30) DEF NodeTypes, NoClient, Clients
<1>3. /\ cli' = [cli EXCEPT ![k] = Left(cli[k])] /\ client' = client
      /\ my' = [my EXCEPT ![t] = NoClient]
      /\ arg' = [arg EXCEPT ![t] = NPeer] /\ pc' = [pc EXCEPT ![t] = "idle"]
  <2>1. cli' = Unref(cli, k) /\ Return(t) /\ client' = client
    BY <1>1 DEF UnrefMine, node
  <2>2. Unref(cli, k) = [cli EXCEPT ![k] = Left(cli[k])]
    BY DEF Unref, NodeTypes
  <2> QED
    BY <2>1, <2>2 DEF Return, Goto
<1>4. /\ Cardinality(Holders(k)') = Cardinality(Holders(k)) - 1
      /\ \A j \in Clients \ {k} : Holders(j)' = Holders(j)
  BY <1>1, <1>3, DropPointer
<1>5. Cardinality(Holders(k)) \in Nat /\ cli[k].refs = Cardinality(Holders(k)) + Own(k)
  BY HoldersFinite DEF CountInv
<1>6. Own(k) \in {0, 1} /\ \A j \in Clients : Own(j)' = Own(j)
  BY <1>3 DEF Own
<1>7. /\ Left(cli[k]) \in CliRecord /\ Left(cli[k]).refs = cli[k].refs - 1
      /\ Left(cli[k]).used => (Left(cli[k]).valid <=> cli[k].valid)
      /\ Left(cli[k]).used <=> Left(cli[k]).refs # 0
  <2>1. cli[k].refs # 0
    BY <1>5, <1>6, <1>2, SMTT(30)
  <2>2. /\ Left(cli[k]) \in CliRecord /\ Left(cli[k]).refs = cli[k].refs - 1
        /\ Left(cli[k]).used => (Left(cli[k]).valid <=> cli[k].valid)
        /\ Left(cli[k]).refs # 0 => Left(cli[k]).used
        /\ Left(cli[k]).used => Left(cli[k]).refs # 0 \/ cli[k].valid
    BY <1>2, <2>1, LeftType
  <2>3. cli[k].valid => Own(k) = 1
    BY <1>2 DEF UsedInv, Own
  <2>4. cli[k].valid => cli[k].refs - 1 # 0
    BY <1>2, <1>5, <2>3, SMTT(30)
  <2> QED
    BY <2>2, <2>4
<1>8. NodeTypes'
  BY <1>3, <1>7 DEF NodeTypes, Pcs
<1>9. PointerInv'
  <2>1. "idle" \notin Holding \cup Polling
    BY DEF Holding, Polling
  <2> QED
    BY <1>3, <2>1 DEF PointerInv, NodeTypes, Holding
<1>10. CountInv'
  <2> SUFFICES ASSUME NEW j \in Clients
               PROVE  cli'[j].refs = Cardinality(Holders(j)') + Own(j)'
    BY DEF CountInv
  <2>1. CASE j = k
    BY <1>3, <1>4, <1>5, <1>6, <1>7, <2>1, SMTT(30) DEF NodeTypes
  <2>2. CASE j # k
    BY <1>3, <1>4, <1>6, <2>2 DEF NodeTypes, CountInv
  <2> QED
    BY <2>1, <2>2
<1>11. UsedInv'
  BY <1>2, <1>3, <1>7 DEF UsedInv, NodeTypes
<1> QED
  BY <1>8, <1>9, <1>10, <1>11

\* A thread takes the node's client out of the mutex, with a reference: C are
\* the client objects before, with the one that was created if there was none.
LEMMA TakeStep ==
  ASSUME RefInv, NEW t \in Threads, NEW k \in Clients, NEW l \in Holding \cup Polling,
         NEW p \in Peers \cup {NPeer}, NEW C \in [Clients -> CliRecord],
         my[t] = NoClient, my' = [my EXCEPT ![t] = k],
         pc' = [pc EXCEPT ![t] = l], arg' = [arg EXCEPT ![t] = p],
         GotClient(k, C), client' = k, cli' = Referenced(C, k)
  PROVE  RefInv'
<1> USE DEF RefInv
<1>1. /\ Cardinality(Holders(k)') = Cardinality(Holders(k)) + 1
      /\ \A j \in Clients \ {k} : Holders(j)' = Holders(j)
  BY TakePointer
<1>2. \A j \in Clients : j # NoClient /\ Own(j) \in {0, 1} /\ Cardinality(Holders(j)) \in Nat
  BY HoldersFinite, NodeAssumption, SMTT(30) DEF Clients, NoClient, Own
<1>3. \A j \in Clients : Own(j)' = IF j = k THEN 1 ELSE 0
  BY DEF Own
<1>4. C[k].used /\ C[k].valid /\ C[k].refs = Cardinality(Holders(k)) + 1
  <2>1. CASE client # NoClient
    BY <1>2, <2>1, SMTT(30) DEF GotClient, CountInv, UsedInv, Own
  <2>2. CASE client = NoClient
    <3>1. ~cli[k].used /\ C[k] = NewCli
      BY <2>2 DEF GotClient, NodeTypes
    <3>2. cli[k].refs = 0 /\ Own(k) = 0
      BY <1>2, <2>2, <3>1 DEF UsedInv, Own
    <3>3. Cardinality(Holders(k)) = 0
      BY <1>2, <3>2, SMTT(30) DEF CountInv
    <3> QED
      BY <3>1, <3>3, SMTT(30) DEF NewCli
  <2> QED
    BY <2>1, <2>2
<1>5. \A j \in Clients \ {k} : C[j] = cli[j] /\ client # j
  BY <1>2 DEF GotClient, NodeTypes
<1>6. /\ cli' \in [Clients -> CliRecord]
      /\ \A j \in Clients \ {k} : cli'[j] = cli[j]
      /\ cli'[k].used /\ cli'[k].valid /\ cli'[k].refs = Cardinality(Holders(k)) + 2
  BY <1>2, <1>4, <1>5, SMTT(30) DEF Referenced, CliRecord
<1>7. NodeTypes'
  BY <1>6 DEF NodeTypes, Pcs
<1>8. PointerInv'
  BY <1>2 DEF PointerInv, NodeTypes
<1>9. CountInv'
  <2> SUFFICES ASSUME NEW j \in Clients
               PROVE  cli'[j].refs = Cardinality(Holders(j)') + Own(j)'
    BY DEF CountInv
  <2>1. CASE j = k
    BY <1>1, <1>2, <1>3, <1>6, <2>1, SMTT(30)
  <2>2. CASE j # k
    BY <1>1, <1>2, <1>3, <1>5, <1>6, <2>2, SMTT(30) DEF CountInv, Own
  <2> QED
    BY <2>1, <2>2
<1>10. UsedInv'
  <2>1. cli'[k].refs # 0
    BY <1>2, <1>6, SMTT(30)
  <2> QED
    BY <1>5, <1>6, <2>1 DEF UsedInv
<1> QED
  BY <1>7, <1>8, <1>9, <1>10

\* The node creates a client and refuses, which cannot be, or refuses to use
\* the client it has.
LEMMA RefusedStep ==
  ASSUME RefInv, NEW k \in Clients, NEW C, NEW p, GotClient(k, C),
         C = (IF client # NoClient THEN cli ELSE [cli EXCEPT ![k] = NewCli]),
         Refused(p, C, k), client' = k, cli' = C, UNCHANGED <<pc, arg, my>>
  PROVE  RefInv'
<1>1. client # NoClient
  BY DEF RefInv, NodeTypes, Refused, IsConnect, NewCli
<1>2. UNCHANGED <<client, cli>>
  BY <1>1 DEF GotClient
<1> QED
  BY <1>2 DEF RefInv, NodeTypes, PointerInv, CountInv, UsedInv, Holders, Own

-----------------------------------------------------------------------------
(* The steps of a thread. *)

\* Calls to a peer after the mutex was released: they hold their pointer.
LEMMA CallSteps ==
  ASSUME RefInv, NEW t \in Threads,
         \/ EnsureConnected(t) \/ Connect(t) \/ Handshake(t) \/ SetPeer(t)
         \/ SendToPeer(t) \/ Subscribe(t) \/ RpcCall(t) \/ Activity(t)
  PROVE  RefInv' /\ my[t] # NoClient
<1>1. my[t] # NoClient /\ my[t] \in Clients
  BY DEF EnsureConnected, Connect, Handshake, SetPeer, SendToPeer, Subscribe, RpcCall, Send,
     Activity, RefInv, PointerInv, Holding, NodeTypes
<1>2. cli \in [Clients -> CliRecord] /\ arg[t] \in Peers \cup {NPeer}
  BY DEF RefInv, NodeTypes
<1>3. PICK l \in Holding : Goto(t, l)
  BY DEF EnsureConnected, Connect, Handshake, SetPeer, SendToPeer, Subscribe, RpcCall, Send,
     Activity, Holding
<1>4. UNCHANGED <<client, my, arg>>
  BY DEF EnsureConnected, Connect, Handshake, SetPeer, SendToPeer, Subscribe, RpcCall, Send,
     Activity, node
<1> DEFINE Kept ==
             /\ cli' \in [Clients -> CliRecord]
             /\ \A k \in Clients : /\ cli'[k].used = cli[k].used
                                   /\ cli'[k].valid = cli[k].valid
                                   /\ cli'[k].refs = cli[k].refs
<1>5. ASSUME UNCHANGED cli PROVE Kept
  BY <1>2, <1>5
<1>6. ASSUME NEW q \in Peers \cup {NPeer}, cli' = [cli EXCEPT ![my[t]].conn = q]
      PROVE  Kept
  BY <1>1, <1>2, <1>6, ZenonT(30) DEF CliRecord
<1>7. ASSUME NEW b \in BOOLEAN, cli' = [cli EXCEPT ![my[t]].pend = @ \/ b]
      PROVE  Kept
  BY <1>1, <1>2, <1>7, SMTT(30) DEF CliRecord
<1>8. ASSUME cli' = [cli EXCEPT ![my[t]].conn = NPeer, ![my[t]].pend = FALSE]
      PROVE  Kept
  BY <1>1, <1>2, <1>8, ZenonT(30) DEF CliRecord
<1>9. Kept
  <2> HIDE DEF Kept
  <2>1. CASE EnsureConnected(t) \/ SetPeer(t) \/ Activity(t)
    BY <1>5, <2>1 DEF EnsureConnected, SetPeer, Activity
  <2>2. CASE Connect(t)
    BY <1>5, <1>8, <2>2 DEF Connect
  <2>3. CASE Handshake(t)
    BY <1>2, <1>5, <1>6, <2>3 DEF Handshake
  <2>4. ASSUME NEW leaves \in BOOLEAN, Send(t, leaves) PROVE Kept
    BY <1>5, <1>7, <2>4 DEF Send
  <2> QED
    BY <2>1, <2>2, <2>3, <2>4 DEF SendToPeer, Subscribe, RpcCall
<1> QED
  BY <1>1, <1>3, <1>4, <1>9, PlainStep DEF Pcs

\* ssn_node_poll and the callbacks it runs.
LEMMA PollSteps ==
  ASSUME RefInv, NEW t \in Threads,
         \/ Poll(t) \/ Publish(t) \/ Unsubscribe(t) \/ AddRpcMethod(t) \/ RemoveRpcMethod(t)
         \/ NotAvailable(t)
  PROVE  RefInv'
<1>1. cli \in [Clients -> CliRecord] /\ my[t] \in Clients \cup {NoClient}
  BY DEF RefInv, NodeTypes
<1>2. CASE InCallback(t)
  BY <1>1, <1>2, PlainStep DEF InCallback, node, Pcs, Polling, Holding
<1>3. CASE Poll(t)
  <2>1. PICK l \in {"callback", "unref", "idle"} :
            /\ Goto(t, l)
            /\ l = "unref" => my[t] # NoClient
            /\ l = "idle" => my[t] = NoClient
    BY <1>3 DEF Poll
  <2>2. /\ cli' \in [Clients -> CliRecord]
        /\ \A k \in Clients : /\ cli'[k].used = cli[k].used
                              /\ cli'[k].valid = cli[k].valid
                              /\ cli'[k].refs = cli[k].refs
    <3>1. CASE UNCHANGED cli
      BY <1>1, <3>1
    <3>2. CASE my[t] # NoClient /\ cli' = [cli EXCEPT ![my[t]].conn = NPeer]
      BY <1>1, <3>2, ZenonT(30) DEF CliRecord
    <3>3. CASE my[t] # NoClient /\ cli' = [cli EXCEPT ![my[t]].pend = FALSE]
      BY <1>1, <3>3, ZenonT(30) DEF CliRecord
    <3> QED
      BY <1>3, <3>1, <3>2, <3>3 DEF Poll
  <2>3. UNCHANGED <<client, my, arg>>
    BY <1>3 DEF Poll, node
  <2> QED
    BY <2>1, <2>2, <2>3, PlainStep DEF Pcs, Polling, Holding
<1> QED
  BY <1>2, <1>3 DEF Publish, Unsubscribe, AddRpcMethod, RemoveRpcMethod, NotAvailable

\* The sections under the mutex that take the pointer out.
LEMMA SnapshotSteps ==
  ASSUME RefInv, NEW t \in Threads, PollSnapshot(t) \/ \E p \in Peers : ConnectToPeer(t, p)
  PROVE  RefInv'
<1>1. my[t] = NoClient
  BY DEF PollSnapshot, ConnectToPeer, Begins, RefInv, PointerInv, Holding, Polling
<1>2. cli \in [Clients -> CliRecord] /\ NewCli \in CliRecord
  BY DEF RefInv, NodeTypes, NewCli, CliRecord
<1>3. CASE PollSnapshot(t) /\ client # NoClient
  <2>1. PICK k \in Clients : k = client
    BY <1>3 DEF RefInv, NodeTypes
  <2>2. arg' = [arg EXCEPT ![t] = arg[t]] /\ arg[t] \in Peers \cup {NPeer}
    BY <1>3 DEF PollSnapshot, RefInv, NodeTypes
  <2>3. GotClient(k, cli) /\ client' = k /\ cli' = Referenced(cli, k)
        /\ my' = [my EXCEPT ![t] = k] /\ pc' = [pc EXCEPT ![t] = "poll"]
    BY <1>3, <2>1 DEF PollSnapshot, GotClient, node, Goto
  <2> QED
    BY <1>1, <1>2, <2>2, <2>3, TakeStep DEF Polling
<1>4. CASE PollSnapshot(t) /\ client = NoClient
  <2>1. my' = my
    BY <1>1, <1>4 DEF PollSnapshot, RefInv, NodeTypes
  <2> QED
    BY <1>2, <1>4, <2>1, PlainStep DEF PollSnapshot, node, Pcs, Polling, Holding
<1>5. ASSUME NEW p \in Peers, ConnectToPeer(t, p)
      PROVE  RefInv'
  <2> DEFINE D(k) == IF client # NoClient THEN cli ELSE [cli EXCEPT ![k] = NewCli]
  <2>1. PICK k \in Clients :
            /\ GotClient(k, D(k)) /\ client' = k
            /\ \/ Refused(p, D(k), k) /\ cli' = D(k) /\ UNCHANGED <<pc, arg, my>>
               \/ /\ cli' = Referenced(D(k), k)
                  /\ pc' = [pc EXCEPT ![t] = "ensure"]
                  /\ arg' = [arg EXCEPT ![t] = p] /\ my' = [my EXCEPT ![t] = k]
    BY <1>5 DEF ConnectToPeer, Goto
  <2>2. PICK C : C = D(k)
    OBVIOUS
  <2>3. C \in [Clients -> CliRecord]
    BY <1>2, <2>2
  <2>4. CASE Refused(p, C, k) /\ cli' = C /\ UNCHANGED <<pc, arg, my>>
    BY <2>1, <2>2, <2>4, RefusedStep
  <2>5. CASE /\ cli' = Referenced(C, k)
             /\ pc' = [pc EXCEPT ![t] = "ensure"]
             /\ arg' = [arg EXCEPT ![t] = p] /\ my' = [my EXCEPT ![t] = k]
    BY <1>1, <2>1, <2>2, <2>3, <2>5, TakeStep DEF Holding
  <2> QED
    BY <2>1, <2>2, <2>4, <2>5
<1> QED
  BY <1>3, <1>4, <1>5

\* Starting, stopping and destroying the node.
LEMMA LifeSteps ==
  ASSUME RefInv, NEW t \in Threads,
         \/ Start(t) \/ Stop(t) \/ StopCallbacks(t) \/ StopReturns(t)
         \/ Destroy(t) \/ DestroyStop(t) \/ DestroyFree(t)
  PROVE  RefInv'
<1>1. my[t] = NoClient /\ cli \in [Clients -> CliRecord]
  BY DEF Start, Stop, StopCallbacks, StopReturns, Destroy, DestroyStop, DestroyFree, Begins,
     RefInv, NodeTypes, PointerInv, Holding, Polling
<1>2. CASE Start(t)
  BY <1>2 DEF Start, RefInv, NodeTypes, PointerInv, CountInv, UsedInv, Holders, Own
<1>3. CASE Stop(t) \/ DestroyStop(t)
  BY <1>1, <1>3, StopStep DEF Stop, DestroyStop
<1>4. CASE StopCallbacks(t) \/ StopReturns(t) \/ Destroy(t) \/ DestroyFree(t)
  <2>1. PICK l \in {"idle", "stop", "stopped", "free"} : Goto(t, l)
    BY <1>4 DEF StopCallbacks, StopReturns, Destroy, DestroyFree
  <2>2. UNCHANGED <<client, my, arg, cli>>
    BY <1>4 DEF StopCallbacks, StopReturns, Destroy, DestroyFree, node
  <2>3. l \in Pcs /\ l \notin Holding
    BY DEF Pcs, Holding
  <2> QED
    BY <1>1, <2>1, <2>2, <2>3, PlainStep
<1> QED
  BY <1>2, <1>3, <1>4

-----------------------------------------------------------------------------
HistInv ==
    /\ hist \in [crossed : BOOLEAN, wrong : BOOLEAN, unstarted : BOOLEAN, dangling : BOOLEAN]
    /\ ~hist.dangling

\* No step of a thread records the use of a client that is not there.
LEMMA StepHist ==
  ASSUME RefInv, HistInv, [Next]_vars
  PROVE  HistInv'
<1>1. ASSUME NEW t \in Threads, my[t] # NoClient,
             \/ Touch(t)
             \/ \E b \in BOOLEAN :
                    hist' = [hist EXCEPT !.dangling = @ \/ ~cli[my[t]].used, !.wrong = @ \/ b]
      PROVE  HistInv'
  <2>1. cli[my[t]].used
    BY <1>1, HeldIsUsed
  <2> QED
    BY <1>1, <2>1 DEF HistInv, Touch
<1>2. ASSUME UNCHANGED hist PROVE HistInv'
  BY <1>2 DEF HistInv
<1>3. ASSUME NEW t \in Threads,
             EnsureConnected(t) \/ Connect(t) \/ Handshake(t) \/ UnrefMine(t)
      PROVE  HistInv'
  <2>1. my[t] # NoClient /\ Touch(t)
    BY <1>3 DEF EnsureConnected, Connect, Handshake, UnrefMine, RefInv, PointerInv, Holding
  <2> QED
    BY <1>1, <2>1
<1>4. ASSUME NEW t \in Threads, Poll(t) PROVE HistInv'
  BY <1>1, <1>2, <1>4 DEF Poll
<1>5. ASSUME NEW t \in Threads, NEW leaves, Send(t, leaves) PROVE HistInv'
  <2>1. my[t] # NoClient
    BY <1>5 DEF Send, RefInv, PointerInv, Holding
  <2>2. (IsConnect(cli, my[t]) /\ cli[my[t]].conn # arg[t]) \in BOOLEAN
    OBVIOUS
  <2> QED
    BY <1>1, <1>5, <2>1, <2>2 DEF Send
<1>6. ASSUME NEW t \in Threads, NEW p \in Peers, ConnectToPeer(t, p) PROVE HistInv'
  BY <1>6 DEF ConnectToPeer, HistInv
<1>7. ASSUME NEW t \in Threads,
             \/ Start(t) \/ Stop(t) \/ StopCallbacks(t) \/ StopReturns(t)
             \/ Destroy(t) \/ DestroyStop(t) \/ DestroyFree(t)
             \/ SetPeer(t) \/ Activity(t) \/ PollSnapshot(t) \/ InCallback(t)
      PROVE  HistInv'
  BY <1>2, <1>7 DEF Start, Stop, StopCallbacks, StopReturns, Destroy, DestroyStop,
     DestroyFree, SetPeer, Activity, PollSnapshot, InCallback
<1>8. CASE UNCHANGED vars
  BY <1>2, <1>8 DEF vars
<1> QED
  BY <1>3, <1>4, <1>5, <1>6, <1>7, <1>8 DEF Next, Inside, SendToPeer, Subscribe, RpcCall,
     Publish, Unsubscribe, AddRpcMethod, RemoveRpcMethod, NotAvailable

\* Every step of a thread keeps the count.
LEMMA StepRef ==
  ASSUME RefInv, [Next]_vars
  PROVE  RefInv'
<1>1. CASE UNCHANGED vars
  BY <1>1 DEF vars, node, RefInv, NodeTypes, PointerInv, CountInv, UsedInv, Holders, Own
<1> QED
  BY <1>1, CallSteps, PollSteps, SnapshotSteps, LifeSteps, UnrefStep DEF Next, Inside

-----------------------------------------------------------------------------
(* Messages for a peer.  Until calls for different peers have overlapped, the *)
(* threads on their way have one peer; the client the node has is connected   *)
(* to that peer or not at all; and peer_address is the peer of the connection *)
(* except between the handshake and the step that stores it.                  *)

Linked(k) == cli[k].used /\ cli[k].valid /\ cli[k].conn # NPeer
Calling == {"ensure", "connect", "handshake", "setpeer", "send"}

ArgInv == \A t \in Threads : pc[t] \in Calling => arg[t] # NPeer
OnePeer == \A t, u \in Threads : arg[t] # NPeer /\ arg[u] # NPeer => arg[t] = arg[u]
LinkedRight ==
    \A t \in Threads, k \in Clients : arg[t] # NPeer /\ Linked(k) => cli[k].conn = arg[t]
PeerKnown ==
    \A k \in Clients : Linked(k) =>
        \/ cli[k].conn = peer
        \/ \E u \in Threads : pc[u] = "setpeer" /\ arg[u] = cli[k].conn
Uncrossed == ~hist.wrong /\ OnePeer /\ LinkedRight /\ PeerKnown
PeerInv == ArgInv /\ (~hist.crossed => Uncrossed)

\* A step that makes no connection, sets no peer_address and sends nothing the
\* wrong way leaves all of this alone; it may end a call.
LEMMA QuietPeer ==
  ASSUME RefInv, PeerInv, NEW t \in Threads, NEW l, pc' = [pc EXCEPT ![t] = l],
         pc[t] # "setpeer", l \in Calling => pc[t] \in Calling,
         \/ arg' = arg
         \/ arg' = [arg EXCEPT ![t] = NPeer] /\ l \notin Calling,
         peer' = peer,
         hist'.crossed = hist.crossed, Uncrossed /\ hist'.wrong => hist.wrong,
         \A k \in Clients : Linked(k)' => Linked(k) /\ cli'[k].conn = cli[k].conn
  PROVE  PeerInv'
<1>1. /\ arg \in [Threads -> Peers \cup {NPeer}] /\ pc \in [Threads -> Pcs]
  BY DEF RefInv, NodeTypes
<1>2. \A u \in Threads : arg'[u] # NPeer => arg'[u] = arg[u]
  BY <1>1
<1>3. \A u \in Threads : pc[u] = "setpeer" => pc'[u] = "setpeer" /\ arg'[u] = arg[u]
  BY <1>1
<1>4. ArgInv'
  BY <1>1 DEF PeerInv, ArgInv
<1>5. ASSUME ~hist.crossed PROVE Uncrossed'
  <2>1. Uncrossed
    BY <1>5 DEF PeerInv
  <2>2. ~hist'.wrong
    BY <2>1 DEF Uncrossed
  <2>3. OnePeer'
    <3> SUFFICES ASSUME NEW u \in Threads, NEW v \in Threads,
                        arg'[u] # NPeer, arg'[v] # NPeer
                 PROVE  arg'[u] = arg'[v]
      BY DEF OnePeer
    <3>1. arg'[u] = arg[u] /\ arg'[v] = arg[v]
      BY <1>2
    <3> QED
      BY <2>1, <3>1 DEF Uncrossed, OnePeer
  <2>4. LinkedRight'
    <3> SUFFICES ASSUME NEW u \in Threads, NEW k \in Clients, arg'[u] # NPeer, Linked(k)'
                 PROVE  cli'[k].conn = arg'[u]
      BY DEF LinkedRight
    <3>1. arg[u] # NPeer /\ arg'[u] = arg[u] /\ Linked(k) /\ cli'[k].conn = cli[k].conn
      BY <1>2
    <3> QED
      BY <2>1, <3>1 DEF Uncrossed, LinkedRight
  <2>5. PeerKnown'
    <3> SUFFICES ASSUME NEW k \in Clients, Linked(k)'
                 PROVE  \/ cli'[k].conn = peer'
                        \/ \E u \in Threads : pc'[u] = "setpeer" /\ arg'[u] = cli'[k].conn
      BY DEF PeerKnown
    <3>1. Linked(k) /\ cli'[k].conn = cli[k].conn
      OBVIOUS
    <3>2. \/ cli[k].conn = peer
          \/ \E u \in Threads : pc[u] = "setpeer" /\ arg[u] = cli[k].conn
      BY <2>1, <3>1 DEF Uncrossed, PeerKnown
    <3> QED
      BY <1>3, <3>1, <3>2
  <2> QED
    BY <2>2, <2>3, <2>4, <2>5 DEF Uncrossed
<1> QED
  BY <1>4, <1>5 DEF PeerInv

\* A new connection leads to the peer of the call that makes it; the thread is
\* on its way to store the peer.
LEMMA HandshakePeer ==
  ASSUME RefInv, PeerInv, HistInv, NEW t \in Threads, Handshake(t)
  PROVE  PeerInv'
<1>1. /\ pc[t] = "handshake" /\ my[t] \in Clients /\ UNCHANGED <<arg, peer>>
      /\ arg \in [Threads -> Peers \cup {NPeer}] /\ pc \in [Threads -> Pcs]
      /\ cli \in [Clients -> CliRecord]
      /\ hist'.crossed = hist.crossed /\ hist'.wrong = hist.wrong
  BY DEF Handshake, Touch, node, HistInv, RefInv, NodeTypes, PointerInv, Holding
<1>2. CASE UNCHANGED cli /\ Goto(t, "unref")
  <2>1. "unref" \notin Calling
    BY DEF Calling
  <2> QED
    BY <1>1, <1>2, <2>1, QuietPeer DEF Goto, Linked
<1>3. CASE cli' = [cli EXCEPT ![my[t]].conn = arg[t]] /\ Goto(t, "setpeer")
  <2>1. pc' = [pc EXCEPT ![t] = "setpeer"] /\ arg[t] # NPeer
    BY <1>1, <1>3 DEF Goto, PeerInv, ArgInv, Calling
  <2>2. ArgInv'
    BY <1>1, <2>1 DEF PeerInv, ArgInv
  <2>3. \A k \in Clients : Linked(k)' =>
            IF k = my[t] THEN cli'[k].conn = arg[t] ELSE Linked(k) /\ cli'[k].conn = cli[k].conn
    BY <1>1, <1>3 DEF Linked, CliRecord
  <2>4. ASSUME ~hist.crossed PROVE Uncrossed'
    <3>1. Uncrossed
      BY <2>4 DEF PeerInv
    <3>2. ~hist'.wrong /\ OnePeer'
      BY <1>1, <3>1 DEF Uncrossed, OnePeer
    <3>3. LinkedRight'
      <4> SUFFICES ASSUME NEW u \in Threads, NEW k \in Clients, arg[u] # NPeer, Linked(k)'
                   PROVE  cli'[k].conn = arg[u]
        BY <1>1 DEF LinkedRight
      <4>1. arg[t] = arg[u]
        BY <2>1, <3>1 DEF Uncrossed, OnePeer
      <4> QED
        BY <2>3, <3>1, <4>1 DEF Uncrossed, LinkedRight
    <3>4. PeerKnown'
      <4> SUFFICES ASSUME NEW k \in Clients, Linked(k)'
                   PROVE  \/ cli'[k].conn = peer'
                          \/ \E u \in Threads : pc'[u] = "setpeer" /\ arg'[u] = cli'[k].conn
        BY DEF PeerKnown
      <4>1. CASE k = my[t]
        BY <1>1, <2>1, <2>3, <4>1
      <4>2. CASE k # my[t]
        <5>1. Linked(k) /\ cli'[k].conn = cli[k].conn
          BY <2>3, <4>2
        <5>2. \/ cli[k].conn = peer
              \/ \E u \in Threads : pc[u] = "setpeer" /\ arg[u] = cli[k].conn
          BY <3>1, <5>1 DEF Uncrossed, PeerKnown
        <5> QED
          BY <1>1, <2>1, <5>1, <5>2
      <4> QED
        BY <4>1, <4>2
    <3> QED
      BY <3>2, <3>3, <3>4 DEF Uncrossed
  <2> QED
    BY <1>1, <2>2, <2>4 DEF PeerInv
<1> QED
  BY <1>2, <1>3 DEF Handshake

\* peer_address becomes the peer of the thread that stores it, to which the
\* node's client is connected, if to any.
LEMMA SetPeerPeer ==
  ASSUME RefInv, PeerInv, HistInv, NEW t \in Threads, SetPeer(t)
  PROVE  PeerInv'
<1>1. /\ pc[t] = "setpeer" /\ peer' = arg[t] /\ UNCHANGED <<arg, cli, hist>>
      /\ pc' = [pc EXCEPT ![t] = "send"] /\ pc \in [Threads -> Pcs]
  BY DEF SetPeer, Goto, RefInv, NodeTypes
<1>2. arg[t] # NPeer
  BY <1>1 DEF PeerInv, ArgInv, Calling
<1>3. ArgInv'
  BY <1>1, <1>2 DEF PeerInv, ArgInv
<1>4. ASSUME ~hist.crossed PROVE Uncrossed'
  <2>1. Uncrossed
    BY <1>4 DEF PeerInv
  <2>2. \A k \in Clients : Linked(k)' => Linked(k) /\ cli'[k].conn = peer'
    BY <1>1, <1>2, <2>1 DEF Linked, Uncrossed, LinkedRight
  <2>3. ~hist'.wrong /\ OnePeer' /\ LinkedRight'
    BY <1>1, <2>1 DEF Uncrossed, OnePeer, LinkedRight, Linked
  <2> QED
    BY <2>2, <2>3 DEF Uncrossed, PeerKnown
<1> QED
  BY <1>1, <1>3, <1>4 DEF PeerInv

\* connect_to_peer lets a call through when the client is not connected, when
\* it is connected to that peer, or when the peer is not stored yet; then a call
\* for the same peer is about to.
LEMMA ConnectPeer ==
  ASSUME RefInv, PeerInv, HistInv, NEW t \in Threads, NEW p \in Peers, ConnectToPeer(t, p)
  PROVE  PeerInv'
<1>1. /\ pc[t] = "idle" /\ peer' = peer
      /\ arg \in [Threads -> Peers \cup {NPeer}] /\ pc \in [Threads -> Pcs]
      /\ cli \in [Clients -> CliRecord] /\ p # NPeer
      /\ hist'.wrong = hist.wrong
  BY NodeAssumption DEF ConnectToPeer, Begins, HistInv, RefInv, NodeTypes
<1>2. ~hist'.crossed => ~hist.crossed /\ \A u \in Threads \ {t} : arg[u] \in {p, NPeer}
  BY DEF ConnectToPeer, HistInv
<1> DEFINE D(k) == IF client # NoClient THEN cli ELSE [cli EXCEPT ![k] = NewCli]
<1>3. PICK k \in Clients :
          /\ GotClient(k, D(k)) /\ client' = k
          /\ IF Refused(p, D(k), k) THEN cli' = D(k) /\ UNCHANGED <<pc, arg, my>>
             ELSE /\ cli' = Referenced(D(k), k)
                  /\ pc' = [pc EXCEPT ![t] = "ensure"]
                  /\ arg' = [arg EXCEPT ![t] = p] /\ my' = [my EXCEPT ![t] = k]
  BY DEF ConnectToPeer, Goto
<1>4. PICK C : C = D(k)
  OBVIOUS
<1> HIDE DEF D
<1>5. /\ C \in [Clients -> CliRecord]
      /\ \A j \in Clients : C[j].conn # NPeer => C[j] = cli[j]
  BY <1>1, <1>4 DEF D, NewCli, CliRecord
<1>6. cli' \in {C, Referenced(C, k)}
  BY <1>3, <1>4
<1>7. \A j \in Clients : Linked(j)' => Linked(j) /\ cli'[j].conn = cli[j].conn
  <2> SUFFICES ASSUME NEW j \in Clients, Linked(j)'
               PROVE  Linked(j) /\ cli'[j].conn = cli[j].conn
    OBVIOUS
  <2>1. cli'[j].used = C[j].used /\ cli'[j].valid = C[j].valid /\ cli'[j].conn = C[j].conn
    <3>1. CASE cli' = C
      BY <3>1
    <3>2. CASE cli' = Referenced(C, k)
      <4>1. C[k] \in CliRecord /\ cli' = [C EXCEPT ![k] = [C[k] EXCEPT !.refs = C[k].refs + 1]]
        BY <1>5, <3>2 DEF Referenced
      <4> QED
        BY <1>5, <4>1, SMTT(30) DEF CliRecord
    <3> QED
      BY <1>6, <3>1, <3>2
  <2> QED
    BY <1>5, <2>1 DEF Linked
<1>8. /\ \A u \in Threads : pc[u] = "setpeer" => pc'[u] = "setpeer" /\ arg'[u] = arg[u]
      /\ \A u \in Threads \ {t} : arg'[u] = arg[u]
      /\ ArgInv'
  <2>1. CASE Refused(p, C, k)
    BY <1>3, <1>4, <2>1 DEF PeerInv, ArgInv
  <2>2. CASE ~Refused(p, C, k)
    BY <1>1, <1>3, <1>4, <2>2 DEF PeerInv, ArgInv
  <2> QED
    BY <2>1, <2>2
<1>9. ASSUME ~hist'.crossed PROVE Uncrossed'
  <2>1. Uncrossed
    BY <1>2, <1>9 DEF PeerInv
  <2>2. PeerKnown'
    <3> SUFFICES ASSUME NEW j \in Clients, Linked(j)'
                 PROVE  \/ cli'[j].conn = peer'
                        \/ \E u \in Threads : pc'[u] = "setpeer" /\ arg'[u] = cli'[j].conn
      BY DEF PeerKnown
    <3>1. Linked(j) /\ cli'[j].conn = cli[j].conn
      BY <1>7
    <3>2. \/ cli[j].conn = peer
          \/ \E u \in Threads : pc[u] = "setpeer" /\ arg[u] = cli[j].conn
      BY <2>1, <3>1 DEF Uncrossed, PeerKnown
    <3> QED
      BY <1>1, <1>8, <3>1, <3>2
  <2>3. CASE arg' = arg
    <3>1. ~hist'.wrong /\ OnePeer'
      BY <1>1, <2>1, <2>3 DEF Uncrossed, OnePeer
    <3>2. LinkedRight'
      BY <1>7, <2>1, <2>3 DEF Uncrossed, LinkedRight
    <3> QED
      BY <2>2, <3>1, <3>2 DEF Uncrossed
  <2>4. CASE ~Refused(p, C, k) /\ arg' = [arg EXCEPT ![t] = p]
    <3>1. \A u \in Threads : arg'[u] # NPeer => arg'[u] = p
      BY <1>1, <1>2, <1>9, <2>4
    <3>2. ~hist'.wrong /\ OnePeer'
      BY <1>1, <2>1, <3>1 DEF Uncrossed, OnePeer
    <3>3. ASSUME NEW j \in Clients, Linked(j)' PROVE cli'[j].conn = p
      <4>1. Linked(j) /\ cli'[j].conn = cli[j].conn
        BY <1>7, <3>3
      <4>2. client = j
        BY <4>1 DEF Linked, RefInv, UsedInv
      <4>3. j # NoClient
        BY NodeAssumption, SMTT(30) DEF Clients, NoClient
      <4>4. k = j /\ C = cli
        BY <1>3, <1>4, <4>2, <4>3 DEF GotClient, D
      <4>5. peer \in {p, NPeer}
        BY <2>4, <4>1, <4>4 DEF Refused, IsConnect, Linked
      <4>6. CASE cli[j].conn = peer
        BY <4>1, <4>5, <4>6 DEF Linked
      <4>7. ASSUME NEW u \in Threads, pc[u] = "setpeer", arg[u] = cli[j].conn
            PROVE  cli[j].conn = p
        <5>1. u # t /\ arg[u] # NPeer
          BY <1>1, <4>1, <4>7 DEF Linked
        <5> QED
          BY <1>2, <1>9, <4>7, <5>1
      <4> QED
        BY <2>1, <4>1, <4>6, <4>7 DEF Uncrossed, PeerKnown
    <3>4. LinkedRight'
      BY <3>1, <3>3 DEF LinkedRight
    <3> QED
      BY <2>2, <3>2, <3>4 DEF Uncrossed
  <2> QED
    BY <1>3, <1>4, <2>3, <2>4
<1> QED
  BY <1>8, <1>9 DEF PeerInv

\* A thread that sends over a connection sends to its peer.
LEMMA SendPeer ==
  ASSUME RefInv, PeerInv, HistInv, NEW t \in Threads, NEW leaves, Send(t, leaves)
  PROVE  PeerInv'
<1>1. /\ pc[t] = "send" /\ UNCHANGED <<arg, peer>> /\ cli \in [Clients -> CliRecord]
      /\ my[t] \in Clients /\ my[t] # NoClient
      /\ hist'.crossed = hist.crossed
      /\ hist'.wrong = (hist.wrong \/ (IsConnect(cli, my[t]) /\ cli[my[t]].conn # arg[t]))
  BY DEF Send, node, HistInv, RefInv, NodeTypes, PointerInv, Holding
<1>2. PICK l \in {"activity", "unref"} : pc' = [pc EXCEPT ![t] = l]
  BY DEF Send, Goto
<1>3. \A k \in Clients : Linked(k)' => Linked(k) /\ cli'[k].conn = cli[k].conn
  <2>1. CASE cli' = cli
    BY <2>1 DEF Linked
  <2>2. CASE cli' # cli
    <3>1. cli' = [cli EXCEPT ![my[t]].pend = @ \/ leaves] /\ cli[my[t]] \in CliRecord
      BY <1>1, <2>2 DEF Send
    <3>2. \A k \in Clients : /\ cli'[k].used = cli[k].used /\ cli'[k].valid = cli[k].valid
                             /\ cli'[k].conn = cli[k].conn
      BY <1>1, <3>1, SMTT(30) DEF CliRecord
    <3> QED
      BY <3>2 DEF Linked
  <2> QED
    BY <2>1, <2>2
<1>4. Uncrossed /\ hist'.wrong => hist.wrong
  <2>1. arg[t] # NPeer
    BY <1>1 DEF PeerInv, ArgInv, Calling
  <2>2. cli[my[t]].used
    BY <1>1, HeldIsUsed
  <2>3. Uncrossed /\ IsConnect(cli, my[t]) => cli[my[t]].conn = arg[t]
    BY <1>1, <2>1, <2>2 DEF IsConnect, Linked, Uncrossed, LinkedRight
  <2> QED
    BY <1>1, <2>3
<1>5. l \notin Calling
  BY DEF Calling
<1> QED
  BY <1>1, <1>2, <1>3, <1>4, <1>5, QuietPeer

\* The other steps make no connection.
LEMMA RestPeer ==
  ASSUME RefInv, PeerInv, HistInv, NEW t \in Threads,
         \/ Start(t) \/ StopCallbacks(t) \/ StopReturns(t) \/ Destroy(t) \/ DestroyFree(t)
         \/ EnsureConnected(t) \/ Activity(t) \/ InCallback(t)
         \/ Connect(t) \/ Poll(t) \/ PollSnapshot(t) \/ UnrefMine(t) \/ Stop(t) \/ DestroyStop(t)
  PROVE  PeerInv'
<1>0. /\ cli \in [Clients -> CliRecord] /\ pc \in [Threads -> Pcs]
      /\ my[t] \in Clients \cup {NoClient} /\ client \in Clients \cup {NoClient}
  BY DEF RefInv, NodeTypes
<1>1. peer' = peer /\ hist'.crossed = hist.crossed /\ hist'.wrong = hist.wrong
  BY DEF Start, StopCallbacks, StopReturns, Destroy, DestroyFree, EnsureConnected, Activity,
     InCallback, Connect, Poll, PollSnapshot, UnrefMine, Stop, DestroyStop, Touch, node, HistInv
<1> DEFINE NoNew == \A k \in Clients : Linked(k)' => Linked(k) /\ cli'[k].conn = cli[k].conn
<1>2. CASE \/ Start(t) \/ StopCallbacks(t) \/ StopReturns(t) \/ Destroy(t) \/ DestroyFree(t)
           \/ EnsureConnected(t) \/ Activity(t) \/ InCallback(t)
  <2>1. UNCHANGED <<arg, cli>>
    BY <1>2 DEF Start, StopCallbacks, StopReturns, Destroy, DestroyFree, EnsureConnected, Activity,
       InCallback
  <2>2. NoNew
    BY <2>1 DEF Linked
  <2>3. PICK l : /\ pc' = [pc EXCEPT ![t] = l] /\ pc[t] # "setpeer"
                 /\ l \in Calling => pc[t] \in Calling
    <3>1. CASE Start(t)
      <4>1. pc' = [pc EXCEPT ![t] = pc[t]] /\ pc[t] = "idle"
        BY <1>0, <3>1 DEF Start, Begins
      <4> QED
        BY <4>1
    <3>2. CASE EnsureConnected(t)
      BY <3>2 DEF EnsureConnected, Goto, Calling
    <3>3. ASSUME NEW l, pc' = [pc EXCEPT ![t] = l], l \notin Calling, pc[t] # "setpeer"
          PROVE  \E m : /\ pc' = [pc EXCEPT ![t] = m] /\ pc[t] # "setpeer"
                        /\ m \in Calling => pc[t] \in Calling
      BY <3>3
    <3>4. "stopped" \notin Calling /\ "idle" \notin Calling /\ "free" \notin Calling
          /\ "stop" \notin Calling /\ "unref" \notin Calling /\ "poll" \notin Calling
      BY DEF Calling
    <3>5. CASE StopCallbacks(t) \/ DestroyFree(t) \/ Activity(t) \/ InCallback(t)
      <4>1. pc[t] # "setpeer"
        BY <3>5 DEF StopCallbacks, DestroyFree, Activity, InCallback
      <4>2. PICK l \in {"stopped", "idle", "unref", "poll"} : pc' = [pc EXCEPT ![t] = l]
        BY <3>5 DEF StopCallbacks, DestroyFree, Activity, InCallback, Goto
      <4> QED
        BY <3>3, <3>4, <4>1, <4>2
    <3>6. CASE StopReturns(t) \/ Destroy(t)
      <4>1. pc[t] # "setpeer"
        BY <3>6 DEF StopReturns, Destroy, Begins
      <4>2. PICK l \in {"idle", "free", "stop"} : pc' = [pc EXCEPT ![t] = l]
        BY <3>6 DEF StopReturns, Destroy, Goto
      <4> QED
        BY <3>3, <3>4, <4>1, <4>2
    <3> QED
      BY <1>2, <3>1, <3>2, <3>5, <3>6
  <2> QED
    BY <1>1, <2>1, <2>2, <2>3, QuietPeer
<1>3. CASE Connect(t) \/ Poll(t)
  <2>1. UNCHANGED arg
    BY <1>3 DEF Connect, Poll
  <2>2. NoNew
    <3>1. CASE UNCHANGED cli
      BY <3>1 DEF Linked
    <3>2. CASE my[t] \in Clients /\ cli' = [cli EXCEPT ![my[t]].conn = NPeer]
      BY <1>0, <3>2 DEF Linked, CliRecord
    <3>3. CASE my[t] \in Clients /\ cli' = [cli EXCEPT ![my[t]].pend = FALSE]
      BY <1>0, <3>3 DEF Linked, CliRecord
    <3>4. CASE my[t] \in Clients /\ cli' = [cli EXCEPT ![my[t]].conn = NPeer, ![my[t]].pend = FALSE]
      BY <1>0, <3>4, ZenonT(30) DEF Linked, CliRecord
    <3>5. Connect(t) => my[t] \in Clients
      BY <1>0 DEF Connect, RefInv, PointerInv, Holding
    <3> QED
      BY <1>0, <1>3, <3>1, <3>2, <3>3, <3>4, <3>5 DEF Connect, Poll
  <2>3. PICK l : /\ pc' = [pc EXCEPT ![t] = l] /\ pc[t] # "setpeer"
                 /\ l \in Calling => pc[t] \in Calling
    <3>1. CASE Connect(t)
      BY <3>1 DEF Connect, Goto, Calling
    <3>2. CASE Poll(t)
      BY <3>2 DEF Poll, Goto, Calling
    <3> QED
      BY <1>3, <3>1, <3>2
  <2> QED
    BY <1>1, <2>1, <2>2, <2>3, QuietPeer
<1>4. CASE PollSnapshot(t)
  <2>1. /\ UNCHANGED arg /\ pc' = [pc EXCEPT ![t] = "poll"] /\ pc[t] = "idle"
        /\ "poll" \notin Calling
    BY <1>4 DEF PollSnapshot, Begins, Goto, Calling
  <2>2. NoNew
    BY <1>0, <1>4 DEF PollSnapshot, Referenced, Linked, CliRecord
  <2> QED
    BY <1>1, <2>1, <2>2, QuietPeer
<1>5. CASE UnrefMine(t)
  <2>1. PICK k \in Clients : /\ k = my[t] /\ cli[k].refs # 0
    BY <1>0, <1>5, HeldIsUsed DEF UnrefMine, RefInv, PointerInv, Holding, UsedInv
  <2>2. /\ cli' = [cli EXCEPT ![k] = Left(cli[k])] /\ pc[t] = "unref" /\ pc' = [pc EXCEPT ![t] = "idle"]
        /\ arg' = [arg EXCEPT ![t] = NPeer] /\ "idle" \notin Calling
    BY <1>5, <2>1 DEF UnrefMine, Unref, Return, Goto, Calling
  <2>3. /\ Left(cli[k]).used => cli[k].used /\ (Left(cli[k]).valid <=> cli[k].valid)
        /\ Left(cli[k]).used => Left(cli[k]).conn = cli[k].conn
    BY <1>0, <2>1, LeftType
  <2>4. NoNew
    BY <1>0, <2>2, <2>3 DEF Linked
  <2> QED
    BY <1>1, <2>2, <2>4, QuietPeer
<1>6. CASE Stop(t) \/ DestroyStop(t)
  <2>1. StopLocked(t) /\ UNCHANGED arg /\ pc[t] # "setpeer"
    BY <1>6 DEF Stop, DestroyStop, Begins
  <2>2. PICK l \in {"stopped", "callbacks"} : pc' = [pc EXCEPT ![t] = l]
    BY <2>1 DEF StopLocked, Goto
  <2>3. l \notin Calling
    BY DEF Calling
  <2>4. NoNew
    <3>1. CASE cli' = cli
      BY <3>1 DEF Linked
    <3>2. CASE client \in Clients /\ cli' = Unref(Invalid(cli, client), client)
      <4>1. \A j \in Clients : j # client => cli'[j] = cli[j]
        BY <1>0, <3>2 DEF Unref, Invalid
      <4>2. cli'[client] = Left([cli[client] EXCEPT !.valid = FALSE])
        BY <1>0, <3>2 DEF Unref, Invalid
      <4>3. ~(cli'[client].used /\ cli'[client].valid)
        <5> DEFINE c == [cli[client] EXCEPT !.valid = FALSE]
        <5>1. c \in CliRecord /\ ~c.valid
          BY <1>0, <3>2 DEF CliRecord
        <5>2. c.refs # 0
          <6>1. c.refs = cli[client].refs
            BY <1>0, <3>2 DEF CliRecord
          <6>2. Cardinality(Holders(client)) \in Nat /\ Own(client) = 1
            BY <3>2, HoldersFinite DEF Own
          <6>3. cli[client].refs = Cardinality(Holders(client)) + Own(client)
            BY <3>2 DEF RefInv, CountInv
          <6> QED
            BY <6>1, <6>2, <6>3, SMTT(30)
        <5>3. cli'[client] = Left(c)
          BY <4>2
        <5> HIDE DEF c
        <5>4. Left(c).used => (Left(c).valid <=> c.valid)
          BY <5>1, <5>2, LeftType
        <5> QED
          BY <5>1, <5>3, <5>4
      <4> QED
        BY <4>1, <4>3 DEF Linked
    <3> QED
      BY <1>0, <2>1, <3>1, <3>2 DEF StopLocked
  <2> QED
    BY <1>1, <2>1, <2>2, <2>3, <2>4, QuietPeer
<1> QED
  BY <1>2, <1>3, <1>4, <1>5, <1>6

\* Every step keeps the peers right.
LEMMA StepPeer ==
  ASSUME RefInv, PeerInv, HistInv, [Next]_vars
  PROVE  PeerInv'
<1>1. CASE UNCHANGED vars
  BY <1>1 DEF vars, node, PeerInv, ArgInv, Uncrossed, OnePeer, LinkedRight, PeerKnown, Linked
<1> QED
  BY <1>1, HandshakePeer, SetPeerPeer, ConnectPeer, SendPeer, RestPeer DEF Next, Inside,
     SendToPeer, Subscribe, RpcCall, Publish, Unsubscribe, AddRpcMethod, RemoveRpcMethod,
     NotAvailable

-----------------------------------------------------------------------------
(* What ssn_node_destroy leaves.  Unless a call was made on a node that was not *)
(* active, there is a client only while the node is active; ssn_node_destroy   *)
(* then stops it first, and nobody can begin a call any more.                  *)

LeakInv ==
    /\ \A t \in Threads : pc[t] = "callbacks" => lock = t /\ client = NoClient
    /\ \A t \in Threads : pc[t] = "free" => ~valid
    /\ freed => ~valid
    /\ ~hist.unstarted /\ client # NoClient =>
        /\ state = "active"
        /\ ~valid => \E t \in Threads : pc[t] = "stop"

\* Steps that leave the life of the node alone.
LEMMA QuietLeak ==
  ASSUME RefInv, LeakInv, NEW t \in Threads, NEW l, pc' = [pc EXCEPT ![t] = l],
         pc[t] # "stop", l \notin {"callbacks", "free"},
         UNCHANGED <<lock, valid, freed, state, client>>,
         hist'.unstarted = hist.unstarted
  PROVE  LeakInv'
<1>1. pc \in [Threads -> Pcs]
  BY DEF RefInv, NodeTypes
<1>2. /\ \A u \in Threads : pc'[u] \in {"callbacks", "free"} => pc'[u] = pc[u]
      /\ \A u \in Threads : pc[u] = "stop" => pc'[u] = "stop"
  BY <1>1
<1> QED
  BY <1>2 DEF LeakInv

\* Starting, stopping and destroying the node.
LEMMA LifeLeak ==
  ASSUME RefInv, LeakInv, NEW t \in Threads,
         \/ Start(t) \/ Stop(t) \/ StopCallbacks(t) \/ StopReturns(t)
         \/ Destroy(t) \/ DestroyStop(t) \/ DestroyFree(t)
  PROVE  LeakInv'
<1>0. pc \in [Threads -> Pcs] /\ hist' = hist
  BY DEF RefInv, NodeTypes, Start, Stop, StopCallbacks, StopReturns, Destroy, DestroyStop, DestroyFree
<1>1. CASE Start(t)
  BY <1>0, <1>1 DEF LeakInv, Start
<1>2. CASE Stop(t) \/ DestroyStop(t)
  <2>1. StopLocked(t) /\ UNCHANGED <<valid, freed>>
    BY <1>2 DEF Stop, DestroyStop
  <2>2. client' = NoClient
    BY <2>1 DEF StopLocked
  <2>3. PICK l \in {"stopped", "callbacks"} : pc' = [pc EXCEPT ![t] = l]
    BY <2>1 DEF StopLocked, Goto
  <2>4. \A u \in Threads : pc'[u] = "free" => ~valid
    BY <1>0, <2>3 DEF LeakInv
  <2>5. ASSUME NEW u \in Threads, pc'[u] = "callbacks" PROVE lock' = u
    <3>1. CASE u = t
      BY <1>0, <2>1, <2>5, <3>1 DEF StopLocked, Goto
    <3>2. CASE u # t
      <4>1. lock = u /\ client = NoClient
        BY <1>0, <2>3, <2>5, <3>2 DEF LeakInv
      <4> QED
        BY <2>1, <4>1 DEF StopLocked
    <3> QED
      BY <3>1, <3>2
  <2> QED
    BY <2>1, <2>2, <2>4, <2>5 DEF LeakInv
<1>3. CASE StopCallbacks(t)
  <2>1. /\ lock = t /\ client = NoClient /\ pc' = [pc EXCEPT ![t] = "stopped"]
        /\ UNCHANGED <<valid, freed, client>>
    BY <1>3 DEF StopCallbacks, LeakInv, Goto
  <2>2. \A u \in Threads : pc'[u] # "callbacks"
    BY <1>0, <2>1 DEF LeakInv
  <2>3. \A u \in Threads : pc'[u] = "free" => ~valid
    BY <1>0, <2>1 DEF LeakInv
  <2> QED
    BY <2>1, <2>2, <2>3 DEF LeakInv
<1>4. CASE StopReturns(t)
  <2>1. /\ UNCHANGED <<lock, valid, freed, state, client>> /\ pc[t] = "stopped"
        /\ pc' = [pc EXCEPT ![t] = IF valid THEN "idle" ELSE "free"]
    BY <1>4 DEF StopReturns, node, Goto
  <2>2. CASE valid
    <3>1. pc' = [pc EXCEPT ![t] = "idle"]
      BY <2>1, <2>2
    <3>2. pc[t] # "stop" /\ "idle" \notin {"callbacks", "free"}
      BY <2>1
    <3> QED
      BY <1>0, <2>1, <3>1, <3>2, QuietLeak
  <2>3. CASE ~valid
    <3>1. pc' = [pc EXCEPT ![t] = "free"]
      BY <2>1, <2>3
    <3>2. /\ \A u \in Threads : pc'[u] = "callbacks" => pc[u] = "callbacks"
          /\ \A u \in Threads : pc[u] = "stop" => pc'[u] = "stop"
      BY <1>0, <2>1, <3>1
    <3> QED
      BY <1>0, <2>1, <2>3, <3>2 DEF LeakInv
  <2> QED
    BY <2>2, <2>3
<1>5. CASE Destroy(t)
  <2>1. /\ UNCHANGED <<lock, freed, state, client>> /\ ~valid' /\ pc[t] = "idle"
        /\ pc' = [pc EXCEPT ![t] = IF state = "active" THEN "stop" ELSE "free"]
    BY <1>5 DEF Destroy, Begins, Goto
  <2>2. \A u \in Threads : pc'[u] = "callbacks" => pc[u] = "callbacks"
    BY <1>0, <2>1
  <2>3. state = "active" => pc'[t] = "stop"
    BY <1>0, <2>1
  <2> QED
    BY <1>0, <2>1, <2>2, <2>3 DEF LeakInv
<1>6. CASE DestroyFree(t)
  <2>1. /\ UNCHANGED <<lock, valid, state, client>> /\ ~valid /\ pc[t] = "free"
        /\ pc' = [pc EXCEPT ![t] = "idle"]
    BY <1>6 DEF DestroyFree, LeakInv, Goto
  <2>2. /\ \A u \in Threads : pc'[u] = "callbacks" => pc[u] = "callbacks"
        /\ \A u \in Threads : pc[u] = "stop" => pc'[u] = "stop"
    BY <1>0, <2>1
  <2> QED
    BY <1>0, <2>1, <2>2 DEF LeakInv
<1> QED
  BY <1>1, <1>2, <1>3, <1>4, <1>5, <1>6

\* A call to a peer begins on a node that is valid and whose mutex is free; it
\* is recorded when the node is not active.
LEMMA ConnectLeak ==
  ASSUME RefInv, HistInv, LeakInv, NEW t \in Threads, NEW p \in Peers, ConnectToPeer(t, p)
  PROVE  LeakInv'
<1>1. /\ valid /\ lock = NThread /\ pc[t] = "idle" /\ UNCHANGED <<lock, valid, freed, state>>
      /\ pc \in [Threads -> Pcs]
      /\ hist'.unstarted = (hist.unstarted \/ state # "active")
  BY DEF ConnectToPeer, Begins, HistInv, RefInv, NodeTypes
<1>2. pc' \in {pc, [pc EXCEPT ![t] = "ensure"]}
  BY DEF ConnectToPeer, Goto
<1>3. \A u \in Threads : pc[u] \notin {"callbacks", "free"}
  BY <1>1, NodeAssumption DEF LeakInv
<1>4. \A u \in Threads : pc'[u] \notin {"callbacks", "free"}
  BY <1>1, <1>2, <1>3
<1>5. ~freed
  BY <1>1 DEF LeakInv
<1> QED
  BY <1>1, <1>4, <1>5 DEF LeakInv

\* Every step keeps track of the client.
LEMMA StepLeak ==
  ASSUME RefInv, HistInv, LeakInv, [Next]_vars
  PROVE  LeakInv'
<1>1. ASSUME NEW t \in Threads, NEW leaves, Send(t, leaves) PROVE LeakInv'
  <2>1. PICK l \in {"activity", "unref"} : pc' = [pc EXCEPT ![t] = l]
    BY <1>1 DEF Send, Goto
  <2>2. /\ pc[t] = "send" /\ UNCHANGED <<lock, valid, freed, state, client>>
        /\ hist'.unstarted = hist.unstarted
    BY <1>1 DEF Send, node, HistInv
  <2> QED
    BY <2>1, <2>2, QuietLeak
<1>2. ASSUME NEW t \in Threads,
             \/ EnsureConnected(t) \/ Connect(t) \/ Handshake(t) \/ SetPeer(t) \/ Activity(t)
             \/ UnrefMine(t) \/ Poll(t) \/ PollSnapshot(t) \/ InCallback(t)
      PROVE  LeakInv'
  <2>1. UNCHANGED <<lock, valid, freed, state, client>> /\ pc[t] # "stop"
    BY <1>2 DEF EnsureConnected, Connect, Handshake, SetPeer, Activity, UnrefMine, Poll,
       PollSnapshot, Begins, InCallback, node
  <2>2. hist'.unstarted = hist.unstarted
    BY <1>2 DEF EnsureConnected, Connect, Handshake, SetPeer, Activity, UnrefMine, Poll,
       PollSnapshot, InCallback, Touch, HistInv
  <2>3. PICK l : pc' = [pc EXCEPT ![t] = l] /\ l \notin {"callbacks", "free"}
    <3>1. CASE EnsureConnected(t) \/ Connect(t) \/ Handshake(t) \/ SetPeer(t) \/ Activity(t)
      BY <3>1 DEF EnsureConnected, Connect, Handshake, SetPeer, Activity, Goto
    <3>2. CASE UnrefMine(t) \/ Poll(t) \/ PollSnapshot(t) \/ InCallback(t)
      BY <3>2 DEF UnrefMine, Poll, PollSnapshot, InCallback, Return, Goto
    <3> QED
      BY <1>2, <3>1, <3>2
  <2> QED
    BY <2>1, <2>2, <2>3, QuietLeak
<1>3. CASE UNCHANGED vars
  BY <1>3 DEF vars, node, LeakInv
<1> QED
  BY <1>1, <1>2, <1>3, LifeLeak, ConnectLeak DEF Next, Inside,
     SendToPeer, Subscribe, RpcCall, Publish, Unsubscribe, AddRpcMethod, RemoveRpcMethod,
     NotAvailable

-----------------------------------------------------------------------------
\* The invariants hold from ssn_node_create on.
LEMMA NodeInvariant == Spec => [](RefInv /\ HistInv /\ PeerInv /\ LeakInv)
<1>1. Init => RefInv /\ HistInv /\ PeerInv /\ LeakInv
  <2> SUFFICES ASSUME Init PROVE RefInv /\ HistInv /\ PeerInv /\ LeakInv
    OBVIOUS
  <2>1. NodeTypes /\ PointerInv /\ UsedInv
    BY DEF Init, NodeTypes, PointerInv, UsedInv, CliRecord, NoCli, Pcs, Holding, Polling
  <2>2. CountInv
    <3> SUFFICES ASSUME NEW k \in Clients
                 PROVE  cli[k].refs = Cardinality(Holders(k)) + Own(k)
      BY DEF CountInv
    <3>1. k # NoClient
      BY NodeAssumption, SMTT(30) DEF Clients, NoClient
    <3>2. Holders(k) = {} /\ Own(k) = 0 /\ cli[k].refs = 0
      BY <3>1 DEF Init, Holders, Own, NoCli
    <3> QED
      BY <3>2, FS_EmptySet, SMTT(30)
  <2>3. HistInv
    BY DEF Init, HistInv
  <2>4. PeerInv
    BY DEF Init, PeerInv, ArgInv, Calling, Uncrossed, OnePeer, LinkedRight, PeerKnown, Linked, NoCli
  <2>5. LeakInv
    BY DEF Init, LeakInv
  <2> QED
    BY <2>1, <2>2, <2>3, <2>4, <2>5 DEF RefInv
<1>2. RefInv /\ HistInv /\ PeerInv /\ LeakInv /\ [Next]_vars
      => RefInv' /\ HistInv' /\ PeerInv' /\ LeakInv'
  BY StepRef, StepHist, StepPeer, StepLeak
<1> QED
  BY <1>1, <1>2, PTL DEF Spec

\* Calls to a peer and polls never use a client that ssn_node_stop has freed,
\* whatever the threads of the node do at the same time.
THEOREM ClientNeverDangles == Spec => []ClientProtected
<1>1. HistInv => ClientProtected
  BY DEF HistInv, ClientProtected
<1> QED
  BY <1>1, NodeInvariant, PTL

\* What a thread sends to a peer goes out on a connection to that peer, though
\* the connection is made, lost and made again outside the mutex, until calls
\* for different peers overlap.
THEOREM MessagesReachTheirPeer == Spec => []RightPeer
<1>1. PeerInv => RightPeer
  BY DEF PeerInv, Uncrossed, RightPeer
<1> QED
  BY <1>1, NodeInvariant, PTL

\* ssn_node_destroy and the calls that end after it leave no client behind,
\* provided that no call to a peer was made while the node was not active.
THEOREM DestroyLeavesNothing == Spec => []NoClientLeak
<1>1. RefInv /\ LeakInv => NoClientLeak
  <2> SUFFICES ASSUME RefInv, LeakInv, freed, \A t \in Threads : pc[t] = "idle",
                      ~hist.unstarted, NEW k \in Clients
               PROVE  ~cli[k].used
    BY DEF NoClientLeak
  <2>1. client = NoClient
    BY DEF LeakInv
  <2>2. k # NoClient
    BY NodeAssumption, SMTT(30) DEF Clients, NoClient
  <2>3. \A t \in Threads : my[t] = NoClient
    BY DEF RefInv, PointerInv, Holding, Polling
  <2>4. Holders(k) = {} /\ Own(k) = 0
    BY <2>1, <2>2, <2>3 DEF Holders, Own
  <2>5. cli[k].refs = 0
    BY <2>4, FS_EmptySet, SMTT(30) DEF RefInv, CountInv
  <2> QED
    BY <2>5 DEF RefInv, UsedInv
<1> QED
  BY <1>1, NodeInvariant, PTL

=============================================================================
