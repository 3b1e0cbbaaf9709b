---- MODULE MCCausalPhases ----
(* Four services and one that is kept out of the graph. *)
EXTENDS CausalPhases
MCSymmetry == Permutations(Nodes)
====
