----------------------------- MODULE MCSafetyApi -----------------------------
(* SafetyApi on a small instance: the callers are interchangeable.         *)
EXTENDS SafetyApi, TLC

Symmetry == Permutations(Clients)
=============================================================================
