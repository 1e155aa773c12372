---------------------------- MODULE MCAutoscaler ----------------------------
(* The autoscaler's loop on a small instance. *)
EXTENDS Autoscaler
=============================================================================
