--------------------------- MODULE RequestPromise ---------------------------
(***************************************************************************)
(* What ssn_client_call promises the caller of one request with a callback *)
(* (include/ssn_client.h): the call is either refused, and the callback    *)
(* never runs, or accepted, and the callback runs exactly once, with the   *)
(* answer or with NULL.                                                    *)
(***************************************************************************)
EXTENDS Naturals

CONSTANT Calls          \* the calls made with a callback

VARIABLES
    outcome,            \* "open", "refused", "pending" or "done"
    runs                \* how often the callback ran

promiseVars == <<outcome, runs>>

PromiseInit ==
    /\ outcome = [c \in Calls |-> "open"]
    /\ runs = [c \in Calls |-> 0]

Refuse(c) ==
    /\ outcome[c] = "open"
    /\ outcome' = [outcome EXCEPT ![c] = "refused"]
    /\ UNCHANGED runs

Accept(c) ==
    /\ outcome[c] = "open"
    /\ outcome' = [outcome EXCEPT ![c] = "pending"]
    /\ UNCHANGED runs

Complete(c) ==
    /\ outcome[c] = "pending"
    /\ outcome' = [outcome EXCEPT ![c] = "done"]
    /\ runs' = [runs EXCEPT ![c] = @ + 1]

PromiseNext == \E c \in Calls : Refuse(c) \/ Accept(c) \/ Complete(c)

PromiseSpec == PromiseInit /\ [][PromiseNext]_promiseVars

=============================================================================
