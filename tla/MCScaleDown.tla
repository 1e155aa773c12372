----------------------------- MODULE MCScaleDown -----------------------------
(* Scale-down on small instances. *)
EXTENDS ScaleDown

CONSTANTS a, b, g1, g2

\* b is owned by g2, but its Node bears the label of g1.
MCLabelOf == [n \in Instances |-> g1]
MCGroupOf == [i \in Instances |-> IF i = b THEN g2 ELSE g1]
\* One address, given to either instance once the other is gone.
MCAddress == [i \in Instances |-> "x"]
=============================================================================
