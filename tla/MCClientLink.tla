---------------------------- MODULE MCClientLink ----------------------------
(* Small instances of ClientLink. *)
EXTENDS ClientLink, TLC

Symmetry == Permutations(App) \cup Permutations(Transports)

=============================================================================
