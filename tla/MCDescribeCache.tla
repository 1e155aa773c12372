--------------------------- MODULE MCDescribeCache ---------------------------
(* The region inventory on a small instance. *)
EXTENDS DescribeCache, TLC

\* Readers are interchangeable, and so are owned and foreign instances.
Symmetry == UNION {Permutations(S) : S \in {Readers, Owned, Instances \ Owned}}
=============================================================================
