------------------------------ MODULE Channels ------------------------------
(***************************************************************************)
(* The other instances of the protocol layer, each polled by its user: a   *)
(* subscriber and a publisher (src/protocol/pubsub/), a receiver and a     *)
(* sender of messages (src/protocol/msg/), and the methods of a replier    *)
(* (src/protocol/rpc/).  Topics and methods are entries of a hash table    *)
(* with string keys (src/util/ssn_hash_table.c); the table holds pointers  *)
(* to them and does not own them.                                          *)
(*                                                                         *)
(* An entry is a cell of memory, with the name that was written to it.     *)
(* Nothing of an instance is used after its callback has returned, so that *)
(* what a callback does is as if done between two polls.                   *)
(***************************************************************************)
EXTENDS Naturals, Sequences, FiniteSets

CONSTANTS
    Names, NoName,  \* topics or methods
    Hash,           \* of each name: its bucket
    NEntries,       \* memory for so many entries; more cannot be allocated
    MaxFrames,      \* frames that fit on a connection
    MsgMod          \* sequence numbers of a sender: 2^16

ASSUME ChannelsAssumption ==
    /\ NoName \notin Names /\ Hash \in [Names -> Nat]
    /\ {NEntries, MaxFrames, MsgMod} \subseteq Nat /\ MsgMod > 0

Entries == 1 .. NEntries
NULL == 0
Buckets == {Hash[n] : n \in Names}

VARIABLES
    role,           \* which instance; "rpc" is that of RpcInstance
    alive,          \* it was not destroyed
    link,           \* its transport: none yet, "up" or "down"
    chain, size,    \* the hash table: its chains and table->size
    entry,          \* the cells: the name of each that is allocated
    counted,        \* topic_count or method_count
    toPeer, toHere, \* frames to and from the other end, known by their type
    nextSeqno,      \* of the sender
    got,            \* the type of frame on_message was called for last
    wanted,         \* history: names whose last subscribe or register was accepted
    again           \* history: a name was added that was already there

table == <<chain, size, entry, counted, wanted, again>>
channels == <<role, alive, link, table, toPeer, toHere, nextSeqno, got>>

\* ssn_pubsub_sub_create, ssn_msg_recv_create, ssn_rpc_rep_create and their peers.
ChannelsInit ==
    /\ role \in {"rpc", "methods", "pubsub", "msg"}
    /\ alive = TRUE /\ link = "none"
    /\ chain = [b \in Buckets |-> <<>>] /\ size = 0
    /\ entry = [e \in Entries |-> NoName] /\ counted = 0
    /\ toPeer = <<>> /\ toHere = <<>> /\ nextSeqno = 1 % MsgMod /\ got = "none"
    /\ wanted = {} /\ again = FALSE

-----------------------------------------------------------------------------
(* The hash table. *)

\* Where in its chain the walk for n stops; 0 at the end of the chain.
At(C, n) ==
    LET c == C[Hash[n]]
        hit == {i \in DOMAIN c : c[i].key = n}
    IN  IF hit = {} THEN 0 ELSE CHOOSE i \in hit : \A j \in hit : i <= j

\* ssn_hash_table_get_str.
GetStr(C, n) == IF At(C, n) = 0 THEN NULL ELSE C[Hash[n]][At(C, n)].val

\* ssn_hash_table_set_str: a name that is there gets another value.
SetStr(C, n, e) ==
    IF At(C, n) = 0
    THEN [C EXCEPT ![Hash[n]] = <<[key |-> n, val |-> e]>> \o @]
    ELSE [C EXCEPT ![Hash[n]][At(C, n)].val = e]

\* Mutant: the whole rest of the chain goes.
RemoveStrRest(C, n) ==
    IF At(C, n) = 0 THEN C ELSE [C EXCEPT ![Hash[n]] = SubSeq(@, 1, At(C, n) - 1)]

\* ssn_hash_table_remove_str.
RemoveStr(C, n) ==
    LET i == At(C, n)
    IN  IF i = 0 THEN C
        ELSE [C EXCEPT ![Hash[n]] = SubSeq(@, 1, i - 1) \o SubSeq(@, i + 1, Len(@))]

-----------------------------------------------------------------------------
(* Topics and methods. *)

\* malloc() gives any free cell; as cells are only compared, the first will do.
IsNew(e) == entry[e] = NoName /\ \A d \in Entries : d < e => entry[d] # NoName

\* A new entry e for n in the table, counted.
Enter(n, e) ==
    /\ IsNew(e) /\ entry' = [entry EXCEPT ![e] = n]
    /\ chain' = SetStr(chain, n, e)
    /\ size' = IF GetStr(chain, n) = NULL THEN size + 1 ELSE size
    /\ counted' = counted + 1
    /\ wanted' = wanted \cup {n}

\* The entry of n is taken out, freed and not counted any more.
Leave(n) ==
    /\ GetStr(chain, n) # NULL
    /\ entry' = [entry EXCEPT ![GetStr(chain, n)] = NoName]
    /\ chain' = RemoveStr(chain, n) /\ size' = size - 1
    /\ counted' = counted - 1
    /\ wanted' = wanted \ {n}

\* ssn_send_message on the connection Q; it may also fail.
CanSend(Q) == link = "up" /\ Len(Q) < MaxFrames

\* ssn_pubsub_sub_subscribe, and what it takes back when the send fails.
Subscribe(n) ==
    /\ role = "pubsub" /\ alive /\ link # "none"
    /\ \E e \in Entries :
        \/ /\ Enter(n, e)
           /\ CanSend(toPeer) /\ toPeer' = Append(toPeer, "SUBSCRIBE")
        \/ /\ IsNew(e)
           /\ chain' = RemoveStr(SetStr(chain, n, e), n)
           /\ size' = IF GetStr(chain, n) = NULL THEN size ELSE size - 1
           /\ wanted' = wanted \ {n}
           /\ UNCHANGED <<entry, counted, toPeer>>
    /\ again' = (again \/ GetStr(chain, n) # NULL)
    /\ UNCHANGED <<role, alive, link, toHere, nextSeqno, got>>

\* ssn_pubsub_sub_unsubscribe; whether the frame is sent makes no difference.
Unsubscribe(n) ==
    /\ role = "pubsub" /\ alive
    /\ Leave(n)
    /\ \/ CanSend(toPeer) /\ toPeer' = Append(toPeer, "UNSUBSCRIBE")
       \/ UNCHANGED toPeer
    /\ UNCHANGED <<role, alive, link, toHere, nextSeqno, got, again>>

\* ssn_rpc_register and ssn_rpc_unregister.
Register(n) ==
    /\ role = "methods" /\ alive
    /\ \E e \in Entries : Enter(n, e)
    /\ again' = (again \/ GetStr(chain, n) # NULL)
    /\ UNCHANGED <<role, alive, link, toPeer, toHere, nextSeqno, got>>

Unregister(n) ==
    /\ role = "methods" /\ alive
    /\ Leave(n)
    /\ UNCHANGED <<role, alive, link, toPeer, toHere, nextSeqno, got, again>>

-----------------------------------------------------------------------------
(* The other end, and the connection. *)

\* ssn_pubsub_pub_publish: to whoever is connected, whatever was subscribed.
PubPublish ==
    /\ role = "pubsub" /\ CanSend(toHere)
    /\ toHere' = Append(toHere, "PUBLISH")
    /\ UNCHANGED <<role, alive, link, table, toPeer, nextSeqno, got>>

\* ssn_msg_send: a number is used up when the send fails, too.
MsgSend ==
    /\ role = "msg" /\ link # "none"
    /\ nextSeqno' = (nextSeqno + 1) % MsgMod
    /\ \/ CanSend(toHere) /\ toHere' = Append(toHere, "MESSAGE")
       \/ UNCHANGED toHere
    /\ UNCHANGED <<role, alive, link, table, toPeer, got>>

\* One recv() takes k frames, of which the first is looked at; or it cuts a
\* frame, which is refused.
Received(Q, k) == SubSeq(Q, k + 1, Len(Q))

\* ssn_pubsub_handle_message and ssn_msg_handle_data: frames of the own type.
Handled(f) ==
    (role = "pubsub" /\ f = "PUBLISH") \/ (role = "msg" /\ f = "MESSAGE")

\* ssn_protocol_poll of the subscriber or receiver.
ChannelPoll ==
    /\ alive /\ toHere # <<>>
    /\ \/ /\ \E k \in 1 .. Len(toHere) : toHere' = Received(toHere, k)
          /\ got' = IF Handled(toHere[1]) THEN toHere[1] ELSE got
       \/ toHere' = Tail(toHere) /\ UNCHANGED got
    /\ UNCHANGED <<role, alive, link, table, toPeer, nextSeqno>>

\* ssn_protocol_poll of the publisher or sender, which looks at nothing.
PeerPoll ==
    /\ \E k \in 1 .. Len(toPeer) : toPeer' = Received(toPeer, k)
    /\ UNCHANGED <<role, alive, link, table, toHere, nextSeqno, got>>

\* ssn_protocol_bind and ssn_protocol_connect, and those of the instances.
ChannelConnect ==
    /\ role # "methods" /\ alive /\ link # "up"
    /\ link' = "up"
    /\ UNCHANGED <<role, alive, table, toPeer, toHere, nextSeqno, got>>

ChannelLost ==
    /\ link = "up"
    /\ link' = "down" /\ toPeer' = <<>> /\ toHere' = <<>>
    /\ UNCHANGED <<role, alive, table, nextSeqno, got>>

\* ssn_protocol_destroy: the table goes, the entries in it are not freed.
ChannelDestroy ==
    /\ alive /\ alive' = FALSE
    /\ chain' = [b \in Buckets |-> <<>>] /\ size' = 0
    /\ UNCHANGED <<role, link, entry, counted, wanted, again, toPeer, toHere, nextSeqno, got>>

ChannelsNext ==
    \/ \E n \in Names : \/ Subscribe(n) \/ Unsubscribe(n) \/ Register(n) \/ Unregister(n)
    \/ PubPublish \/ MsgSend \/ ChannelPoll \/ PeerPoll
    \/ ChannelConnect \/ ChannelLost \/ ChannelDestroy

-----------------------------------------------------------------------------
\* The entries of the names that are wanted, as the table gives them.
InTable == {GetStr(chain, n) : n \in wanted}

\* Every lookup gives what the calls of the user left there, also where names
\* share a chain: an accepted subscribe or register is found, with an entry that
\* is allocated and the name's own, and one that was taken back is not.  Unless a
\* name was added twice, the count is right and no entry is leaked; with that,
\* the old entry is lost and the name is counted twice.
EntriesKept ==
    alive =>
        /\ \A n \in Names : GetStr(chain, n) # NULL <=> n \in wanted
        /\ \A n \in wanted : entry[GetStr(chain, n)] = n
        /\ size = Cardinality(wanted)
        /\ ~again => counted = size /\ {e \in Entries : entry[e] # NoName} = InTable

=============================================================================
