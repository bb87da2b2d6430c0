----------------------------- MODULE MCFramework -----------------------------
(* Framework for TLC: two calls of one method. *)
EXTENDS Framework

MCUrlOf == [c \in Calls |-> "/a"]
=============================================================================
