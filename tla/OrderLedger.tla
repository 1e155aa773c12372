---------------------------- MODULE OrderLedger ----------------------------
(***************************************************************************)
(* What the order guard of one node group promises, whatever the cloud     *)
(* inventory shows and whenever: the instances ordered for the group and   *)
(* not yet gone never outnumber an allowance.  The allowance starts at the *)
(* group's maximum and grows only when the provider process is lost while  *)
(* orders are still hidden, by at most the number of instances they hide.  *)
(***************************************************************************)
EXTENDS Integers, FiniteSets

CONSTANTS Instances,  \* everything that can ever be ordered
          Max         \* the group's MaxSize

VARIABLES committed,  \* instances ordered or existing, and not gone
          allowance   \* how many there may be

LInit == /\ committed \in SUBSET Instances
         /\ Cardinality(committed) <= Max
         /\ allowance = Max

\* An order is admitted as a whole, and only when all of it fits.
Admit(S) == /\ S \cap committed = {}
            /\ Cardinality(committed \cup S) <= allowance
            /\ committed' = committed \cup S
            /\ UNCHANGED allowance

\* Released, failed or refused instances free their place.
Drop(S) == /\ committed' = committed \ S
           /\ UNCHANGED allowance

\* The process dies and forgets the hidden instances H.
Forget(H) == /\ allowance' = allowance + Cardinality(H)
             /\ UNCHANGED committed

LNext == \/ \E S \in SUBSET Instances : Admit(S)
         \/ \E S \in SUBSET committed : Drop(S) \/ Forget(S)

LSpec == LInit /\ [][LNext]_<<committed, allowance>>
=============================================================================
