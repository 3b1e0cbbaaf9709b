-------------------------- MODULE MCServerProcess ---------------------------
(***************************************************************************)
(* ServerProcess on a small instance: two targets of the three share a     *)
(* policy file.  Requests, shapes and nodes are interchangeable.           *)
(***************************************************************************)
EXTENDS ServerProcess, TLC

MCTargets == {<<"a", "/", "b">>, <<"a", "_", "b">>, <<"c">>}

Symmetry ==
    Permutations(Requests) \union Permutations(Shapes) \union Permutations(Nodes)
=============================================================================
