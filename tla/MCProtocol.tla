----------------------------- MODULE MCProtocol -----------------------------
(* A small instance of Protocol: two of three names share a chain. *)
EXTENDS Protocol, TLC

CONSTANTS n1, n2, n3

MCHash == n1 :> 1 @@ n2 :> 1 @@ n3 :> 2

=============================================================================
