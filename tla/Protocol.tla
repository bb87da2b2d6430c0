------------------------------ MODULE Protocol ------------------------------
(***************************************************************************)
(* The protocol layer (src/protocol/ssn_protocol.c): ssn_protocol_create   *)
(* makes one of its instances by role, and polls and destroys go to that   *)
(* one.  A behaviour is one of RpcInstance or one of Channels.             *)
(***************************************************************************)
EXTENDS RpcInstance, Channels

\* ssn_protocol_create.
ProtocolInit == Init /\ ChannelsInit

\* ssn_protocol_poll and ssn_protocol_destroy, by the type of the instance.
Rpc(A) == role = "rpc" /\ A /\ UNCHANGED channels
Channel(A) == role # "rpc" /\ A /\ UNCHANGED vars

ProtocolNext == Rpc(Next) \/ Channel(ChannelsNext)

\* The user of a requester polls again and again, a poll goes on, and time
\* passes.
ProtocolSpec ==
    /\ ProtocolInit /\ [][ProtocolNext]_<<vars, channels>>
    /\ WF_vars(Rpc(PollStep))
    /\ \A i \in Slots : WF_vars(Rpc(Elapse(i)))

=============================================================================
