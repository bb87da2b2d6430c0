----------------------------- MODULE MCDispatch -----------------------------
(* Small instances of Dispatch. *)
EXTENDS Dispatch, TLC

MCMethodUrls ==
    {Root, [seg |-> <<"a">>, dir |-> TRUE], [seg |-> <<"a", "b">>, dir |-> TRUE],
     [seg |-> <<"a", "b">>, dir |-> FALSE]}
MCCallUrls ==
    {[seg |-> <<"a">>, dir |-> FALSE], [seg |-> <<"a", "b">>, dir |-> FALSE],
     [seg |-> <<"a", "b">>, dir |-> TRUE], [seg |-> <<"c">>, dir |-> FALSE]}
MCTopics == {[seg |-> <<"a">>, dir |-> TRUE], [seg |-> <<"a", "b">>, dir |-> FALSE]}
MCAutoUrls == <<[seg |-> <<"a", "b">>, dir |-> FALSE]>>
MCPublished == {[seg |-> <<"a", "b">>, dir |-> FALSE]}

Symmetry == Permutations(Users)

=============================================================================
