-------------------------- MODULE MCClientRequests --------------------------
(* Small instances of ClientRequests. *)
EXTENDS ClientRequests, TLC

Symmetry == Permutations(Rpc)

=============================================================================
