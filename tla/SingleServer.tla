---------------------------- MODULE SingleServer ----------------------------
(***************************************************************************)
(* What the replicas promise together, whatever happens to the Lease, the  *)
(* label and their processes: one of them serves at a time, a process      *)
(* serves at most once in its life, and the work done under one service    *)
(* has ended or been cancelled before another replica's service begins.    *)
(***************************************************************************)
CONSTANT Replicas

VARIABLES service,  \* of the process of each replica: fresh, serving, spent
          work      \* its handler: none, live, cancelled

SInit == /\ service = [r \in Replicas |-> "fresh"]
         /\ work = [r \in Replicas |-> "none"]

\* Only a process that never served, and only after all others.
Begin(r) == /\ service[r] = "fresh"
            /\ \A s \in Replicas \ {r} : service[s] # "serving" /\ work[s] # "live"
            /\ service' = [service EXCEPT ![r] = "serving"]
            /\ UNCHANGED work

\* The service is over, or will never begin; the handler may be left for later.
End(r) == /\ service' = [service EXCEPT ![r] = "spent"]
          /\ work' \in {work, [work EXCEPT ![r] = IF @ = "live" THEN "cancelled" ELSE @]}

\* The process is gone, and another takes its place.
Replace(r) == /\ service' = [service EXCEPT ![r] = "fresh"]
              /\ work' = [work EXCEPT ![r] = "none"]

\* Only a replica that serves takes work.
Take(r) == /\ service[r] = "serving" /\ work[r] = "none"
           /\ work' = [work EXCEPT ![r] = "live"]
           /\ UNCHANGED service

Finish(r) == /\ work' = [work EXCEPT ![r] = "none"]
             /\ UNCHANGED service

SNext == \E r \in Replicas : Begin(r) \/ End(r) \/ Replace(r) \/ Take(r) \/ Finish(r)

SSpec == SInit /\ [][SNext]_<<service, work>>
=============================================================================
