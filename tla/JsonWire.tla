------------------------------ MODULE JsonWire ------------------------------
(***************************************************************************)
(* What lies between an SsnClient and an SsnService (src/framework/): the  *)
(* connection the node of the client has to the node of the service, and   *)
(* the requests and answers on their way over it.                          *)
(***************************************************************************)
EXTENDS Naturals, FiniteSets

CONSTANTS
    Calls       \* the calls that are made, in this order: 1 .. n

ASSUME WireAssumption == Calls \subseteq Nat

VARIABLES
    listening,  \* the node of the service accepts connections
    link,       \* the connection is up
    subscribed, \* the server has a subscription for this connection
    requests,   \* calls on their way to the service
    answers     \* answers on their way to the client: the calls they answer

wire == <<listening, link, subscribed, requests, answers>>

WireInit ==
    /\ listening = FALSE /\ link = FALSE /\ subscribed = FALSE
    /\ requests = {} /\ answers = {}

\* The connection ends, and with it what was on the way.
CutLink ==
    /\ link' = FALSE /\ subscribed' = FALSE
    /\ requests' = {} /\ answers' = {}

WireTypeOK ==
    /\ listening \in BOOLEAN /\ link \in BOOLEAN /\ subscribed \in BOOLEAN
    /\ requests \subseteq Calls /\ answers \subseteq Calls

=============================================================================
