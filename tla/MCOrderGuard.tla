---------------------------- MODULE MCOrderGuard ----------------------------
(* The order guard on a small instance. *)
EXTENDS OrderGuard, TLC

\* Callers, names and instances are interchangeable: no action compares them.
Symmetry == Permutations(Callers) \cup Permutations(Ops) \cup Permutations(Instances)
=============================================================================
