---------------------------- MODULE MCLeadership ----------------------------
(* Leadership on a small instance; the replicas are interchangeable. *)
EXTENDS Leadership, TLC

Symmetry == Permutations(Replicas)
=============================================================================
