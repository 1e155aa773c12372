-------------------------- MODULE AutoscalerProofs --------------------------
(***************************************************************************)
(* What the autoscaler's loop is told, for any group, maximum and demand,  *)
(* any number of troubles.                                                 *)
(*                                                                         *)
(* A Refresh that no walk was under way for empties the inventory, and one *)
(* walk goes at a time.  So every listing that is read afterwards began    *)
(* after it, and each later one misses nothing of an earlier one but what  *)
(* went away in between (Fresh); and with no order hidden at the Refresh,  *)
(* every listing has all that the group has (Clear).                       *)
(*                                                                         *)
(* The guard counts a listing and the reservations it keeps.  What neither *)
(* speaks for was forgotten by a restart (Spoken): so what it admits fits. *)
(***************************************************************************)
EXTENDS Autoscaler, FiniteSetTheorems, TLAPS

Watching == phase \in {"reconcile", "target", "nodes", "joined", "plan"}

Listed(f) == DOMAIN f \subseteq Instances /\ \A i \in DOMAIN f : f[i] \in Statuses

Bounded(D) == Cardinality(D) <= Max + forgotten

Values ==
  /\ inst \in [Instances -> {"free", "hidden"} \cup Statuses]
  /\ node \in [Instances -> {"none", "bare", "correlated"}]
  /\ \A i \in Instances : node[i] # "none" => inst[i] \in {"Running", "Stopped"}
  /\ demand \in Demands /\ reserved \subseteq SUBSET Instances
  /\ troubles \in 0 .. MaxTroubles /\ forgotten \in Nat
  /\ phase \in {"idle", "reconcile", "target", "nodes", "joined", "plan",
                "inventory", "submit"}
  /\ view \in {"clear", "hidden", "raced"} /\ since \subseteq Instances

Listings ==
  /\ Bounded(Committed)
  /\ Listed(cache) /\ Bounded(DOMAIN cache)
  /\ walk # NoWalk => Listed(walk) /\ Bounded(DOMAIN walk)
  /\ target \in 0 .. Max + forgotten
  /\ DOMAIN report \subseteq Instances
  /\ \A i \in DOMAIN report :
       report[i] \in IF phase = "plan" THEN {"creating", "running", "deleting"} ELSE Statuses

\* An instance that went away since the Refresh, and what is listed or has.
Missing(i)   == i \in since /\ inst[i] = "free"
Lasts(D)     == \A i \in D : inst[i] \in Statuses \/ Missing(i)
Within(D, E) == \A i \in D : i \in E \/ Missing(i)

\* A listing of no earlier than the Refresh.
Current(f) ==
  \A i \in Instances \ since :
    /\ inst[i] \in Statuses => i \in DOMAIN f
    /\ i \in DOMAIN f /\ f[i] = "Running" => inst[i] = "Running"

\* The instances that the target counted.
Counted(D) ==
  /\ Cardinality(D) = target /\ Lasts(D)
  /\ cache # Nothing => Within(D, DOMAIN cache)
  /\ walk # NoWalk => Within(D, DOMAIN walk)
  /\ phase # "nodes" => Within(D, DOMAIN report)

Told ==
  /\ \A i \in Instances \ since : inst[i] \in Statuses => i \in DOMAIN report
  /\ \A i \in DOMAIN report \ since : report[i] = "running" =>
       inst[i] = "Running" /\ node[i] = "correlated"

Fresh ==
  Watching /\ view # "raced" =>
    /\ Lasts(DOMAIN cache) /\ (cache # Nothing => Current(cache))
    /\ walk # NoWalk => /\ Current(walk) /\ Lasts(DOMAIN walk)
                        /\ Within(DOMAIN cache, DOMAIN walk)
    /\ phase = "joined" => Current(report)
    /\ phase = "plan" => Told
    /\ phase \in {"nodes", "joined", "plan"} => \E D \in SUBSET Instances : Counted(D)

Clear ==
  view = "clear" /\ phase # "idle" =>
    /\ \A i \in Instances : inst[i] # "hidden"
    /\ Watching => /\ cache # Nothing => Committed \subseteq DOMAIN cache
                   /\ walk # NoWalk => Committed \subseteq DOMAIN walk
    /\ phase \in {"nodes", "joined", "plan", "inventory", "submit"} =>
         Cardinality(Committed) <= target

\* What no reservation speaks for, and before an order no listing either: it
\* never outnumbers what restarts forgot.
Unreserved ==
  IF phase = "submit" THEN Committed \ (DOMAIN report \cup UNION reserved)
                      ELSE {i \in Instances : inst[i] = "hidden"} \ UNION reserved

Spoken ==
  /\ Cardinality(Unreserved) <= forgotten
  /\ phase = "submit" => \A i \in DOMAIN report : inst[i] # "hidden"

Core == Values /\ Listings /\ Fresh /\ Clear
IInv == Core /\ Spoken
-----------------------------------------------------------------------------
(* Sets of instances, and listings. *)

LEMMA Counting ==
  ASSUME NEW D \in SUBSET Instances, NEW E \in SUBSET D
  PROVE  /\ IsFiniteSet(D) /\ Cardinality(D) \in Nat
         /\ Cardinality(E) \in Nat /\ Cardinality(E) <= Cardinality(D)
  <1>1. IsFiniteSet(D)
    BY AutoscalerAssumption, FS_Subset DEF AutoscalerAssumption
  <1>2. IsFiniteSet(E)
    BY <1>1, FS_Subset
  <1> QED BY <1>1, <1>2, FS_Subset, FS_CardinalityType

LEMMA Together ==
  ASSUME NEW D \in SUBSET Instances, NEW E \in SUBSET Instances
  PROVE  Cardinality(D \cup E) <= Cardinality(D) + Cardinality(E)
  <1>1. IsFiniteSet(D) /\ IsFiniteSet(E)
    BY Counting
  <1>2. Cardinality(D \cup E) = Cardinality(D) + Cardinality(E) - Cardinality(D \cap E)
    BY <1>1, FS_Union
  <1>3. Cardinality(D \cap E) \in Nat /\ Cardinality(D) \in Nat /\ Cardinality(E) \in Nat
    BY Counting
  <1> QED BY <1>2, <1>3

\* A walk lists what the group has, and no more.
LEMMA ListingOK ==
  ASSUME Values, Listings
  PROVE  /\ Listed(Listing) /\ Bounded(DOMAIN Listing)
         /\ DOMAIN Listing = {i \in Instances : inst[i] \in Statuses}
         /\ \A i \in DOMAIN Listing : Listing[i] = inst[i]
         /\ Current(Listing) /\ Lasts(DOMAIN Listing)
  <1>1. /\ DOMAIN Listing = {i \in Instances : inst[i] \in Statuses}
        /\ \A i \in DOMAIN Listing : Listing[i] = inst[i]
    BY DEF Listing
  <1>2. DOMAIN Listing \subseteq Committed /\ Committed \subseteq Instances
    BY <1>1 DEF Committed, Statuses
  <1>3. Cardinality(DOMAIN Listing) <= Cardinality(Committed)
    BY <1>2, Counting
  <1>4. Cardinality(DOMAIN Listing) \in Nat /\ Cardinality(Committed) \in Nat
    BY <1>2, Counting
  <1>5. Bounded(DOMAIN Listing)
    BY <1>3, <1>4, AutoscalerAssumption DEF Listings, Bounded, Values, AutoscalerAssumption
  <1> QED BY <1>1, <1>5 DEF Listed, Current, Lasts

\* The empty listing.
LEMMA NothingOK ==
  /\ DOMAIN Nothing = {} /\ Listed(Nothing)
  /\ Values => Bounded(DOMAIN Nothing)
  <1>1. DOMAIN Nothing = {}
    BY DEF Nothing
  <1>2. Cardinality({}) = 0
    BY FS_EmptySet
  <1> QED BY <1>1, <1>2, AutoscalerAssumption
         DEF Listed, Bounded, Values, AutoscalerAssumption

\* What a call reads, cached or fetched.
LEMMA ReadOK ==
  ASSUME IInv, Read
  PROVE  /\ walk' = walk
         /\ Listed(cache') /\ Bounded(DOMAIN cache')
         /\ Watching /\ view # "raced" =>
              /\ Lasts(DOMAIN cache') /\ Current(cache')
              /\ walk # NoWalk => Within(DOMAIN cache', DOMAIN walk)
              /\ \A D \in SUBSET Instances : Counted(D) => Within(D, DOMAIN cache')
         /\ Watching /\ view = "clear" => Committed \subseteq DOMAIN cache'
  <1>1. CASE cache # Nothing
    BY <1>1 DEF IInv, Core, Read, Listings, Fresh, Clear, Counted, invVars, Watching
  <1>2. CASE cache = Nothing
    <2>1. walk = NoWalk /\ cache' = Listing /\ walk' = walk
      BY <1>2 DEF Read, Fetch
    <2>2. /\ Listed(Listing) /\ Bounded(DOMAIN Listing)
          /\ DOMAIN Listing = {i \in Instances : inst[i] \in Statuses}
          /\ Current(Listing) /\ Lasts(DOMAIN Listing)
      BY ListingOK DEF IInv, Core
    <2>3. ASSUME NEW D \in SUBSET Instances, Counted(D)
          PROVE  Within(D, DOMAIN Listing)
      BY <2>2, <2>3 DEF Counted, Lasts, Within
    <2>4. Watching /\ view = "clear" => Committed \subseteq DOMAIN Listing
      BY <2>2 DEF IInv, Core, Clear, Watching, Committed, Values
    <2> QED BY <2>1, <2>2, <2>3, <2>4
  <1> QED BY <1>1, <1>2

\* A walk of the loop's own, whatever was cached.
LEMMA FetchOK ==
  ASSUME IInv, Fetch
  PROVE  /\ walk = NoWalk /\ walk' = walk
         /\ Listed(cache') /\ Bounded(DOMAIN cache')
         /\ Lasts(DOMAIN cache') /\ Current(cache')
         /\ Watching /\ view = "clear" => Committed \subseteq DOMAIN cache'
  <1>1. /\ Listed(Listing) /\ Bounded(DOMAIN Listing)
        /\ DOMAIN Listing = {i \in Instances : inst[i] \in Statuses}
        /\ Current(Listing) /\ Lasts(DOMAIN Listing)
    BY ListingOK DEF IInv, Core
  <1>2. Watching /\ view = "clear" => Committed \subseteq DOMAIN Listing
    BY <1>1 DEF IInv, Core, Clear, Watching, Committed, Values
  <1> QED BY <1>1, <1>2 DEF Fetch

\* A loop that is over asks for nothing.
LEMMA OverOK ==
  ASSUME Over
  PROVE  Fresh' /\ Clear' /\ target' = 0 /\ DOMAIN report' = {} /\ since' = {}
         /\ phase' = "idle" /\ view' = "clear"
  BY NothingOK DEF Over, Fresh, Clear, Watching

\* A call that changes nothing but the loop, and ends it.
LEMMA LeftOK ==
  ASSUME IInv, UNCHANGED worldVars, Over, walk' \in {walk, NoWalk},
         Listed(cache'), Bounded(DOMAIN cache')
  PROVE  Core'
  <1>1. UNCHANGED <<demand, inst, node, troubles, forgotten, reserved>>
    BY DEF worldVars
  <1>2. Values'
    BY <1>1, OverOK DEF IInv, Core, Values
  <1>3. Listings'
    BY <1>1, OverOK, AutoscalerAssumption
       DEF IInv, Core, Values, Listings, Listed, Bounded, Committed, AutoscalerAssumption
  <1> QED BY <1>2, <1>3, OverOK DEF IInv, Core
-----------------------------------------------------------------------------
(* The steps. *)

LEMMA InitOK == Init => IInv
  <1> SUFFICES ASSUME Init PROVE IInv
    OBVIOUS
  <1>1. Values
    BY AutoscalerAssumption DEF Init, Values, AutoscalerAssumption
  <1>2. Committed = {}
    BY DEF Init, Committed
  <1>3. Listings
    BY <1>1, <1>2, NothingOK, FS_EmptySet, AutoscalerAssumption
       DEF Init, Listings, Bounded, Values, AutoscalerAssumption
  <1>4. Cardinality(Unreserved) = 0
    <2>1. Unreserved = {}
      BY DEF Init, Unreserved
    <2> QED BY <2>1, FS_EmptySet
  <1> QED BY <1>1, <1>3, <1>4 DEF Init, IInv, Core, Spoken, Fresh, Clear, Watching

LEMMA RefreshOK ==
  ASSUME IInv, Refresh
  PROVE  Core'
  <1>1. /\ UNCHANGED <<demand, inst, node, troubles, forgotten, reserved, walk, target, report, since>>
        /\ cache' = Nothing /\ phase' = "reconcile" /\ phase = "idle" /\ view' = Seen
    BY DEF Refresh, worldVars
  <1>2. /\ Seen \in {"raced", "hidden", "clear"}
        /\ Seen # "raced" => walk = NoWalk
        /\ Seen = "clear" => \A i \in Instances : inst[i] # "hidden"
    BY DEF Seen
  <1>3. Values'
    BY <1>1, <1>2 DEF IInv, Core, Values
  <1>4. Listings'
    BY <1>1, NothingOK DEF IInv, Core, Listings, Listed, Bounded, Committed, Values
  <1>5. Fresh'
    BY <1>1, <1>2, NothingOK DEF Fresh, Lasts
  <1>6. Clear'
    BY <1>1, <1>2 DEF Clear, Watching
  <1> QED BY <1>3, <1>4, <1>5, <1>6 DEF IInv, Core

LEMMA ReconcileOK ==
  ASSUME IInv, NEW S, Reconcile(S)
  PROVE  Core'
  <1>1. /\ UNCHANGED <<demand, inst, troubles, forgotten, reserved, target, report, view, since>>
        /\ phase = "reconcile" /\ phase' = "target" /\ S \subseteq Bare
        /\ node' = [i \in Instances |-> IF i \in S THEN "correlated" ELSE node[i]]
    BY DEF Reconcile, histVars
  <1>2. /\ walk' = walk
        /\ Listed(cache') /\ Bounded(DOMAIN cache')
        /\ view # "raced" => /\ Lasts(DOMAIN cache')
                             /\ cache' # Nothing => Current(cache')
                             /\ walk # NoWalk => Within(DOMAIN cache', DOMAIN walk)
        /\ view = "clear" /\ cache' # Nothing => Committed \subseteq DOMAIN cache'
    <2>1. CASE UNCHANGED invVars
      BY <1>1, <2>1 DEF invVars, IInv, Core, Listings, Fresh, Clear, Watching
    <2>2. CASE Fetch
      BY <1>1, <2>2, FetchOK DEF Watching
    <2> QED BY <2>1, <2>2 DEF Reconcile
  <1>3. Values'
    BY <1>1, <1>2 DEF IInv, Core, Values, Bare
  <1>4. Listings'
    BY <1>1, <1>2 DEF IInv, Core, Listings, Listed, Bounded, Committed
  <1>5. Fresh'
    BY <1>1, <1>2 DEF IInv, Core, Fresh, Watching, Lasts, Within, Missing, Current
  <1>6. Clear'
    BY <1>1, <1>2 DEF IInv, Core, Clear, Watching, Committed
  <1> QED BY <1>3, <1>4, <1>5, <1>6 DEF IInv, Core

LEMMA TargetOK ==
  ASSUME IInv, NodeGroupTargetSize
  PROVE  Core'
  <1>1. /\ UNCHANGED <<demand, inst, node, troubles, forgotten, reserved, report, view, since>>
        /\ phase = "target" /\ phase' = "nodes" /\ Read
        /\ target' = Cardinality(DOMAIN cache')
    BY DEF NodeGroupTargetSize, worldVars, histVars
  <1> DEFINE D == DOMAIN cache'
  <1>2. /\ walk' = walk /\ Listed(cache') /\ Bounded(D)
        /\ view # "raced" => /\ Lasts(D) /\ Current(cache')
                             /\ walk # NoWalk => Within(D, DOMAIN walk)
        /\ view = "clear" => Committed \subseteq D
    BY <1>1, ReadOK DEF Watching
  <1>3. D \in SUBSET Instances /\ Committed \in SUBSET Instances
    BY <1>2 DEF Listed, Committed
  <1>4. target' \in 0 .. Max + forgotten
    <2>1. Cardinality(D) \in Nat
      BY <1>3, Counting
    <2> QED BY <1>1, <1>2, <2>1, AutoscalerAssumption
            DEF Bounded, IInv, Core, Values, AutoscalerAssumption
  <1>5. view = "clear" => Cardinality(Committed) <= target'
    BY <1>1, <1>2, <1>3, Counting
  <1>6. Values'
    BY <1>1, <1>2 DEF IInv, Core, Values
  <1>7. Listings'
    BY <1>1, <1>2, <1>4 DEF IInv, Core, Listings, Listed, Bounded, Committed
  <1>8. Fresh'
    <2> SUFFICES ASSUME view # "raced"
                 PROVE  /\ Lasts(DOMAIN cache)' /\ Current(cache)'
                        /\ walk # NoWalk => /\ Current(walk)' /\ Lasts(DOMAIN walk)'
                                            /\ Within(DOMAIN cache, DOMAIN walk)'
                        /\ \E E \in SUBSET Instances : Counted(E)'
      BY <1>1, <1>2 DEF Fresh
    <2>1. walk # NoWalk => Current(walk) /\ Lasts(DOMAIN walk)
      BY <1>1 DEF IInv, Core, Fresh, Watching
    <2>2. PICK E \in SUBSET Instances : E = D
      BY <1>3
    <2>3. Counted(E)'
      BY <1>1, <1>2, <2>2 DEF Counted, Lasts, Within, Missing
    <2> QED BY <1>1, <1>2, <2>1, <2>3 DEF Lasts, Within, Missing, Current
  <1>9. Clear'
    BY <1>1, <1>2, <1>5 DEF IInv, Core, Clear, Watching, Committed
  <1> QED BY <1>6, <1>7, <1>8, <1>9 DEF IInv, Core

LEMMA NodesOK ==
  ASSUME IInv, NodeGroupNodes
  PROVE  Core'
  <1>1. /\ UNCHANGED <<demand, inst, node, troubles, forgotten, reserved, target, view, since>>
        /\ phase = "nodes" /\ phase' = "joined" /\ Read /\ report' = cache'
    BY DEF NodeGroupNodes, worldVars, histVars
  <1>2. /\ walk' = walk /\ Listed(cache') /\ Bounded(DOMAIN cache')
        /\ view # "raced" =>
             /\ Lasts(DOMAIN cache') /\ Current(cache')
             /\ walk # NoWalk => Within(DOMAIN cache', DOMAIN walk)
             /\ \A D \in SUBSET Instances : Counted(D) => Within(D, DOMAIN cache')
        /\ view = "clear" => Committed \subseteq DOMAIN cache'
    BY <1>1, ReadOK DEF Watching
  <1>3. Values'
    BY <1>1, <1>2 DEF IInv, Core, Values
  <1>4. Listings'
    BY <1>1, <1>2 DEF IInv, Core, Listings, Listed, Bounded, Committed
  <1>5. Fresh'
    <2> SUFFICES ASSUME view # "raced"
                 PROVE  /\ Lasts(DOMAIN cache)' /\ Current(cache)' /\ Current(report)'
                        /\ walk # NoWalk => /\ Current(walk)' /\ Lasts(DOMAIN walk)'
                                            /\ Within(DOMAIN cache, DOMAIN walk)'
                        /\ \E D \in SUBSET Instances : Counted(D)'
      BY <1>1, <1>2 DEF Fresh
    <2>1. /\ walk # NoWalk => Current(walk) /\ Lasts(DOMAIN walk)
          /\ \E D \in SUBSET Instances : Counted(D)
      BY <1>1 DEF IInv, Core, Fresh, Watching
    <2>2. PICK D \in SUBSET Instances : Counted(D)
      BY <2>1
    <2>3. Counted(D)'
      BY <1>1, <1>2, <2>2 DEF Counted, Lasts, Within, Missing
    <2> QED BY <1>1, <1>2, <2>1, <2>3 DEF Lasts, Within, Missing, Current
  <1>6. Clear'
    BY <1>1, <1>2 DEF IInv, Core, Clear, Watching, Committed
  <1> QED BY <1>3, <1>4, <1>5, <1>6 DEF IInv, Core

LEMMA JoinedOK ==
  ASSUME IInv, JoinedInstanceIDs
  PROVE  Core'
  <1>1. /\ UNCHANGED <<demand, inst, node, troubles, forgotten, reserved, cache, walk, target, view, since>>
        /\ phase = "joined" /\ phase' = "plan"
        /\ DOMAIN report' = DOMAIN report
        /\ \A i \in DOMAIN report :
             report'[i] = IF StateFor(report[i]) = "running" /\ node[i] # "correlated"
                          THEN "creating" ELSE StateFor(report[i])
    BY DEF JoinedInstanceIDs, worldVars, invVars, histVars
  <1>2. \A i \in DOMAIN report :
          /\ report'[i] \in {"creating", "running", "deleting"}
          /\ report'[i] = "running" => report[i] = "Running" /\ node[i] = "correlated"
    BY <1>1 DEF IInv, Core, Listings, StateFor, Statuses
  <1>3. Values'
    BY <1>1 DEF IInv, Core, Values
  <1>4. Listings'
    BY <1>1, <1>2 DEF IInv, Core, Listings, Listed, Bounded, Committed
  <1>5. Fresh'
    <2> SUFFICES ASSUME view # "raced"
                 PROVE  /\ Lasts(DOMAIN cache)' /\ (cache # Nothing => Current(cache)')
                        /\ walk # NoWalk => /\ Current(walk)' /\ Lasts(DOMAIN walk)'
                                            /\ Within(DOMAIN cache, DOMAIN walk)'
                        /\ Told'
                        /\ \E D \in SUBSET Instances : Counted(D)'
      BY <1>1 DEF Fresh
    <2>1. /\ Lasts(DOMAIN cache) /\ (cache # Nothing => Current(cache)) /\ Current(report)
          /\ walk # NoWalk => /\ Current(walk) /\ Lasts(DOMAIN walk)
                              /\ Within(DOMAIN cache, DOMAIN walk)
          /\ \E D \in SUBSET Instances : Counted(D)
      BY <1>1 DEF IInv, Core, Fresh, Watching
    <2>2. PICK D \in SUBSET Instances : Counted(D)
      BY <2>1
    <2>3. Counted(D)'
      BY <1>1, <2>2 DEF Counted, Lasts, Within, Missing
    <2>4. Told'
      BY <1>1, <1>2, <2>1 DEF Told, Current, IInv, Core, Listings
    <2> QED BY <1>1, <2>1, <2>3, <2>4 DEF Lasts, Within, Missing, Current
  <1>6. Clear'
    BY <1>1 DEF IInv, Core, Clear, Watching, Committed
  <1> QED BY <1>3, <1>4, <1>5, <1>6 DEF IInv, Core

LEMMA EndedOK ==
  ASSUME IInv, Settled \/ NodeGroupDecreaseTargetSize \/ GiveUp
  PROVE  Core'
  <1>1. UNCHANGED worldVars /\ UNCHANGED invVars /\ Over
    BY DEF Settled, NodeGroupDecreaseTargetSize, GiveUp
  <1>2. /\ walk' = walk /\ cache' = cache
        /\ Listed(cache) /\ Bounded(DOMAIN cache)
    BY <1>1 DEF invVars, IInv, Core, Listings
  <1> QED BY <1>1, <1>2, LeftOK

LEMMA IncreaseOK ==
  ASSUME IInv, NodeGroupIncreaseSize
  PROVE  Core'
  <1>1. /\ phase = "plan" /\ UNCHANGED worldVars /\ Read
        /\ walk' = walk /\ Listed(cache') /\ Bounded(DOMAIN cache')
    BY ReadOK DEF NodeGroupIncreaseSize
  <1>2. CASE Over
    BY <1>1, <1>2, LeftOK
  <1>3. CASE phase' = "inventory" /\ report' = Nothing /\ since' = {} /\ UNCHANGED <<target, view>>
    <2>1. UNCHANGED <<demand, inst, node, troubles, forgotten, reserved>>
      BY <1>1 DEF worldVars
    <2>2. Values'
      BY <1>1, <1>3, <2>1 DEF IInv, Core, Values
    <2>3. Listings'
      BY <1>1, <1>3, <2>1, NothingOK DEF IInv, Core, Listings, Listed, Bounded, Committed
    <2>4. Fresh'
      BY <1>3 DEF Fresh, Watching
    <2>5. Clear'
      BY <1>1, <1>3, <2>1 DEF IInv, Core, Clear, Watching, Committed
    <2> QED BY <2>2, <2>3, <2>4, <2>5 DEF IInv, Core
  <1> QED BY <1>2, <1>3 DEF NodeGroupIncreaseSize

LEMMA InventoryOK ==
  ASSUME IInv, Inventory
  PROVE  Core'
  <1>1. /\ UNCHANGED <<demand, inst, node, troubles, forgotten, reserved, target, view, since>>
        /\ phase = "inventory" /\ phase' = "submit" /\ Fetch /\ report' = cache'
    BY DEF Inventory, worldVars, histVars
  <1>2. walk' = walk /\ Listed(cache') /\ Bounded(DOMAIN cache')
    BY <1>1, FetchOK
  <1>3. Values'
    BY <1>1, <1>2 DEF IInv, Core, Values
  <1>4. Listings'
    BY <1>1, <1>2 DEF IInv, Core, Listings, Listed, Bounded, Committed
  <1>5. Fresh'
    BY <1>1 DEF Fresh, Watching
  <1>6. Clear'
    BY <1>1 DEF IInv, Core, Clear, Watching, Committed
  <1> QED BY <1>3, <1>4, <1>5, <1>6 DEF IInv, Core

\* What a guard that has gone through the reservations does not count, was not
\* counted before it did.
LEMMA KeptOK ==
  ASSUME IInv, phase = "submit", NEW E \in SUBSET Absent
  PROVE  /\ Kept(E) \subseteq SUBSET Instances
         /\ Committed \ (DOMAIN report \cup UNION Kept(E)) \subseteq Unreserved
         /\ {i \in Instances : inst[i] = "hidden"} \ UNION Kept(E) \subseteq Unreserved
  <1>1. Kept(E) \subseteq SUBSET Instances
    BY DEF Kept, IInv, Core, Values
  <1>2. ASSUME NEW i \in Committed, i \notin DOMAIN report, i \notin UNION Kept(E)
        PROVE  i \in Unreserved
    <2>1. ASSUME NEW R \in reserved, i \in R PROVE FALSE
      BY <1>2, <2>1 DEF Kept, Filled, Absent
    <2> QED BY <1>2, <2>1 DEF Unreserved
  <1>3. ASSUME NEW i \in Instances, inst[i] = "hidden", i \notin UNION Kept(E)
        PROVE  i \in Unreserved
    BY <1>2, <1>3 DEF IInv, Spoken, Committed
  <1> QED BY <1>1, <1>2, <1>3

\* An order that the guard admits fits.
LEMMA ReserveOK ==
  ASSUME IInv, NEW S, NEW E, Reserve(S, E)
  PROVE  /\ phase = "submit" /\ E \in SUBSET Absent /\ reserved' = Kept(E) \cup {S}
         /\ S \in SUBSET Instances /\ S \cap Committed = {}
         /\ Cardinality(S) = demand - target
         /\ Cardinality(Committed \cup S) <= Max + forgotten
         /\ UNCHANGED <<demand, node, forgotten, walk>> /\ Over
  <1>1. /\ phase = "submit" /\ E \in SUBSET Absent /\ reserved' = Kept(E) \cup {S}
        /\ S \in SUBSET Instances /\ S \cap Committed = {}
        /\ Cardinality(S) = demand - target
        /\ UNCHANGED <<demand, node, forgotten, walk>> /\ Over
    BY DEF Reserve, NextFree
  <1> DEFINE D == DOMAIN report
             K == (UNION Kept(E)) \ D
             V == Committed \ (D \cup UNION Kept(E))
  <1>2. Cardinality(D) + Cardinality(K) + Cardinality(S) <= Max
    BY DEF Reserve
  <1>3. /\ D \in SUBSET Instances /\ K \in SUBSET Instances /\ V \in SUBSET Unreserved
        /\ Unreserved \in SUBSET Instances /\ Committed \in SUBSET Instances
    BY <1>1, KeptOK DEF IInv, Core, Listings, Committed, Unreserved
  <1>4. Cardinality(V) <= Cardinality(Unreserved) /\ Cardinality(Unreserved) \in Nat
    BY <1>3, Counting
  <1>5. /\ Cardinality(D \cup K) <= Cardinality(D) + Cardinality(K)
        /\ Cardinality((D \cup K) \cup V) <= Cardinality(D \cup K) + Cardinality(V)
        /\ Cardinality(((D \cup K) \cup V) \cup S)
             <= Cardinality((D \cup K) \cup V) + Cardinality(S)
    BY <1>1, <1>3, Together
  <1>6. Committed \cup S \subseteq ((D \cup K) \cup V) \cup S
    OBVIOUS
  <1>7. Cardinality(Committed \cup S) <= Cardinality(((D \cup K) \cup V) \cup S)
    BY <1>1, <1>3, <1>6, Counting
  <1>8. /\ Cardinality(D) \in Nat /\ Cardinality(K) \in Nat /\ Cardinality(V) \in Nat
        /\ Cardinality(S) \in Nat /\ Cardinality(D \cup K) \in Nat
        /\ Cardinality((D \cup K) \cup V) \in Nat
        /\ Cardinality(((D \cup K) \cup V) \cup S) \in Nat
        /\ Cardinality(Committed \cup S) \in Nat
    <2>1. /\ D \cup K \in SUBSET Instances /\ (D \cup K) \cup V \in SUBSET Instances
          /\ ((D \cup K) \cup V) \cup S \in SUBSET Instances
          /\ Committed \cup S \in SUBSET Instances /\ V \in SUBSET Instances
      BY <1>1, <1>3
    <2> QED BY <1>1, <1>3, <2>1, Counting
  <1>9. Cardinality(Unreserved) <= forgotten /\ forgotten \in Nat /\ Max \in Nat
    BY AutoscalerAssumption DEF IInv, Core, Spoken, Values, AutoscalerAssumption
  <1> HIDE DEF D, K, V
  <1>10. Cardinality(Committed \cup S) <= Max + forgotten
    BY <1>2, <1>4, <1>5, <1>7, <1>8, <1>9
  <1> QED BY <1>1, <1>10

\* What an order makes of the group.
LEMMA OrderGrows ==
  ASSUME IInv, NEW S \in SUBSET Instances, Order(S)
  PROVE  /\ phase = "submit" /\ Cardinality(S) = demand - target /\ S \cap Committed = {}
         /\ Committed' = Committed \cup S
         /\ Cardinality(Committed \cup S) <= Max + forgotten
         /\ inst' = [i \in Instances |-> IF i \in S THEN "hidden" ELSE inst[i]]
         /\ reserved' \subseteq SUBSET Instances
         /\ UNCHANGED <<demand, node, troubles, forgotten, walk>>
         /\ cache' \in {Nothing, cache} /\ Over
  <1>1. PICK E \in SUBSET Absent : Reserve(S, E)
    BY DEF Order
  <1>2. /\ inst' = [i \in Instances |-> IF i \in S THEN "hidden" ELSE inst[i]]
        /\ UNCHANGED troubles /\ cache' \in {Nothing, cache}
    BY DEF Order
  <1>3. Committed' = Committed \cup S
    BY <1>2 DEF Committed
  <1>4. reserved' \subseteq SUBSET Instances
    <2>1. reserved' = Kept(E) \cup {S} /\ phase = "submit"
      BY <1>1, ReserveOK
    <2>2. Kept(E) \subseteq SUBSET Instances
      BY <2>1, KeptOK
    <2> QED BY <2>1, <2>2
  <1> QED BY <1>1, <1>2, <1>3, <1>4, ReserveOK

LEMMA OrderOK ==
  ASSUME IInv, NEW S \in SUBSET Instances, Order(S)
  PROVE  Core'
  <1>1. /\ Committed' = Committed \cup S /\ S \cap Committed = {}
        /\ Cardinality(Committed \cup S) <= Max + forgotten
        /\ inst' = [i \in Instances |-> IF i \in S THEN "hidden" ELSE inst[i]]
        /\ reserved' \subseteq SUBSET Instances
        /\ UNCHANGED <<demand, node, troubles, forgotten, walk>>
        /\ cache' \in {Nothing, cache} /\ Over
    BY OrderGrows
  <1>2. Values'
    BY <1>1, OverOK DEF IInv, Core, Values, Committed
  <1>3. Listed(cache') /\ Bounded(DOMAIN cache')
    BY <1>1, NothingOK DEF IInv, Core, Listings
  <1>4. Listings'
    BY <1>1, <1>3, OverOK, AutoscalerAssumption
       DEF IInv, Core, Values, Listings, Listed, Bounded, AutoscalerAssumption
  <1> QED BY <1>1, <1>2, <1>4, OverOK DEF Core

\* An order that ENS does not get, or that is refused.
LEMMA RefusedOK ==
  ASSUME IInv, (\E S : OrderLost(S)) \/ (\E E : Refused(E))
  PROVE  Core'
  <1>1. /\ UNCHANGED <<demand, inst, node, forgotten, cache, walk>> /\ Over
        /\ reserved' \subseteq SUBSET Instances /\ troubles' \in 0 .. MaxTroubles
    <2>1. troubles \in 0 .. MaxTroubles /\ MaxTroubles \in Nat
      BY AutoscalerAssumption DEF IInv, Core, Values, AutoscalerAssumption
    <2>2. CASE \E S : OrderLost(S)
      <3>1. PICK S : OrderLost(S)
        BY <2>2
      <3>2. PICK E \in SUBSET Absent : Reserve(S, E)
        BY <3>1 DEF OrderLost
      <3>3. /\ reserved' = Kept(E) \cup {S} /\ S \in SUBSET Instances
            /\ Kept(E) \subseteq SUBSET Instances
            /\ UNCHANGED <<demand, node, forgotten, walk>> /\ Over
        BY <3>2, ReserveOK, KeptOK
      <3> QED BY <2>1, <3>1, <3>3 DEF OrderLost
    <2>3. CASE \E E : Refused(E)
      <3>1. PICK E : Refused(E)
        BY <2>3
      <3>2. Kept(E) \subseteq SUBSET Instances
        BY <3>1, KeptOK DEF Refused
      <3> QED BY <2>1, <3>1, <3>2 DEF Refused, invVars
    <2> QED BY <2>2, <2>3
  <1>2. Values'
    BY <1>1, OverOK DEF IInv, Core, Values
  <1>3. Listings'
    BY <1>1, OverOK, AutoscalerAssumption
       DEF IInv, Core, Values, Listings, Listed, Bounded, Committed, AutoscalerAssumption
  <1> QED BY <1>1, <1>2, <1>3, OverOK DEF Core

LEMMA RestartOK ==
  ASSUME IInv, Restart
  PROVE  Core'
  <1> DEFINE Hidden == {i \in Instances : inst[i] = "hidden"}
  <1>1. /\ UNCHANGED <<demand, inst, node>> /\ troubles < MaxTroubles /\ troubles' = troubles + 1
        /\ forgotten' = forgotten + Cardinality(Hidden)
        /\ cache' = Nothing /\ walk' = NoWalk /\ reserved' = {} /\ Over
    BY DEF Restart
  <1>2. Cardinality(Hidden) \in Nat
    <2>1. Hidden \in SUBSET Instances
      OBVIOUS
    <2> QED BY <2>1, Counting
  <1>3. Values'
    BY <1>1, <1>2, OverOK, AutoscalerAssumption DEF IInv, Core, Values, AutoscalerAssumption
  <1>4. Cardinality(Committed) \in Nat /\ Committed' = Committed
    <2>1. Committed \in SUBSET Instances
      BY DEF Committed
    <2> QED BY <1>1, <2>1, Counting DEF Committed
  <1>5. Cardinality(Committed) <= Max + forgotten /\ forgotten \in Nat
    BY DEF IInv, Core, Values, Listings, Bounded
  <1>6. Bounded(Committed)'
    BY <1>1, <1>2, <1>4, <1>5, AutoscalerAssumption DEF Bounded, AutoscalerAssumption
  <1>7. Listings'
    BY <1>1, <1>3, <1>6, NothingOK, FS_EmptySet, OverOK, AutoscalerAssumption
       DEF Values, Listings, Listed, Bounded, AutoscalerAssumption
  <1> QED BY <1>1, <1>3, <1>7, OverOK DEF IInv, Core
-----------------------------------------------------------------------------
(* Other readers, and the end of a lifetime. *)

LEMMA OtherBeginsOK ==
  ASSUME IInv, OtherBegins
  PROVE  Core'
  <1>1. /\ UNCHANGED <<demand, inst, node, forgotten, reserved, cache, phase, target, report, view, since>>
        /\ walk = NoWalk /\ walk' = Listing /\ troubles < MaxTroubles /\ troubles' = troubles + 1
    BY DEF OtherBegins, worldVars, loopVars, histVars
  <1>2. /\ Listed(Listing) /\ Bounded(DOMAIN Listing)
        /\ DOMAIN Listing = {i \in Instances : inst[i] \in Statuses}
        /\ Current(Listing) /\ Lasts(DOMAIN Listing)
    BY ListingOK DEF IInv, Core
  <1>3. Values'
    BY <1>1, AutoscalerAssumption DEF IInv, Core, Values, AutoscalerAssumption
  <1>4. Listings'
    BY <1>1, <1>2 DEF IInv, Core, Listings, Listed, Bounded, Committed
  <1>5. Fresh'
    <2> SUFFICES ASSUME Watching, view # "raced"
                 PROVE  /\ Lasts(DOMAIN cache)' /\ (cache # Nothing => Current(cache)')
                        /\ Current(walk)' /\ Lasts(DOMAIN walk)'
                        /\ Within(DOMAIN cache, DOMAIN walk)'
                        /\ phase = "joined" => Current(report)'
                        /\ phase = "plan" => Told'
                        /\ phase \in {"nodes", "joined", "plan"} =>
                             \E D \in SUBSET Instances : Counted(D)'
      BY <1>1 DEF Fresh, Watching
    <2>1. /\ Lasts(DOMAIN cache) /\ (cache # Nothing => Current(cache))
          /\ phase = "joined" => Current(report)
          /\ phase = "plan" => Told
          /\ phase \in {"nodes", "joined", "plan"} => \E D \in SUBSET Instances : Counted(D)
      BY DEF IInv, Core, Fresh
    <2>2. Within(DOMAIN cache, DOMAIN Listing)
      BY <1>2, <2>1 DEF Lasts, Within, IInv, Core, Listings, Listed
    <2>3. ASSUME NEW D \in SUBSET Instances, Counted(D)
          PROVE  Counted(D)'
      <3>1. Within(D, DOMAIN Listing)
        BY <1>2, <2>3 DEF Counted, Lasts, Within
      <3> QED BY <1>1, <2>3, <3>1 DEF Counted, Lasts, Within, Missing
    <2> QED BY <1>1, <1>2, <2>1, <2>2, <2>3 DEF Lasts, Within, Missing, Current, Told
  <1>6. Clear'
    BY <1>1, <1>2 DEF IInv, Core, Values, Clear, Watching, Committed
  <1> QED BY <1>3, <1>4, <1>5, <1>6 DEF IInv, Core

LEMMA OtherEndsOK ==
  ASSUME IInv, OtherEnds
  PROVE  Core'
  <1>1. /\ UNCHANGED <<demand, inst, node, troubles, forgotten, reserved, phase, target, report, view, since>>
        /\ walk # NoWalk /\ walk' = NoWalk /\ cache' \in {walk, cache}
    BY DEF OtherEnds, worldVars, loopVars, histVars
  <1>2. Values'
    BY <1>1 DEF IInv, Core, Values
  <1>3. Listings'
    BY <1>1 DEF IInv, Core, Listings, Listed, Bounded, Committed
  <1>4. Fresh'
    <2> SUFFICES ASSUME Watching, view # "raced"
                 PROVE  /\ Lasts(DOMAIN cache)' /\ (cache' # Nothing => Current(cache)')
                        /\ phase = "joined" => Current(report)'
                        /\ phase = "plan" => Told'
                        /\ phase \in {"nodes", "joined", "plan"} =>
                             \E D \in SUBSET Instances : Counted(D)'
      BY <1>1 DEF Fresh, Watching
    <2>1. /\ Lasts(DOMAIN cache) /\ (cache # Nothing => Current(cache))
          /\ Current(walk) /\ Lasts(DOMAIN walk)
          /\ phase = "joined" => Current(report)
          /\ phase = "plan" => Told
          /\ phase \in {"nodes", "joined", "plan"} => \E D \in SUBSET Instances : Counted(D)
      BY <1>1 DEF IInv, Core, Fresh
    <2>2. ASSUME NEW D \in SUBSET Instances, Counted(D)
          PROVE  Counted(D)'
      BY <1>1, <2>2 DEF Counted, Lasts, Within, Missing
    <2> QED BY <1>1, <2>1, <2>2 DEF Lasts, Within, Missing, Current, Told
  <1>5. Clear'
    BY <1>1 DEF IInv, Core, Clear, Watching, Committed
  <1> QED BY <1>2, <1>3, <1>4, <1>5 DEF IInv, Core

LEMMA ExpireOK ==
  ASSUME IInv, Expire
  PROVE  Core'
  <1>1. /\ UNCHANGED <<demand, inst, node, troubles, forgotten, reserved, walk, phase, target, report, view, since>>
        /\ cache' = Nothing
    BY DEF Expire, worldVars, loopVars, histVars
  <1>2. Values'
    BY <1>1 DEF IInv, Core, Values
  <1>3. Listings'
    BY <1>1, NothingOK DEF IInv, Core, Listings, Listed, Bounded, Committed, Values
  <1>4. Fresh'
    <2> SUFFICES ASSUME Watching, view # "raced"
                 PROVE  /\ walk # NoWalk => Current(walk)' /\ Lasts(DOMAIN walk)'
                        /\ phase = "joined" => Current(report)'
                        /\ phase = "plan" => Told'
                        /\ phase \in {"nodes", "joined", "plan"} =>
                             \E D \in SUBSET Instances : Counted(D)'
      BY <1>1, NothingOK DEF Fresh, Watching, Lasts, Within
    <2>1. /\ walk # NoWalk => Current(walk) /\ Lasts(DOMAIN walk)
          /\ phase = "joined" => Current(report)
          /\ phase = "plan" => Told
          /\ phase \in {"nodes", "joined", "plan"} => \E D \in SUBSET Instances : Counted(D)
      BY DEF IInv, Core, Fresh
    <2>2. ASSUME NEW D \in SUBSET Instances, Counted(D)
          PROVE  Counted(D)'
      BY <1>1, <2>2 DEF Counted, Lasts, Within, Missing
    <2> QED BY <1>1, <2>1, <2>2 DEF Lasts, Missing, Current, Told
  <1>5. Clear'
    BY <1>1 DEF IInv, Core, Clear, Watching, Committed
  <1> QED BY <1>2, <1>3, <1>4, <1>5 DEF IInv, Core
-----------------------------------------------------------------------------
(* ENS and the Nodes. *)

\* An instance moves on.  While the loop is under way, it is then counted
\* among those that changed, unless it began to run.
LEMMA MovesOK ==
  ASSUME IInv, NEW i \in Instances, NEW from, NEW to, Moves(i, from, to),
         \/ from = {"hidden"} /\ to = "Pending" /\ node' = node
         \/ from = {"Pending"} /\ to = "Running" /\ node' = node
         \/ from = {"Running"} /\ to = "Stopped" /\ node' = node
         \/ from = {"hidden"} /\ to = "free" /\ node' = node
         \/ from = {"Stopped"} /\ to = "free" /\ node' = [node EXCEPT ![i] = "none"],
         troubles' \in 0 .. MaxTroubles
  PROVE  Core'
  <1>1. /\ UNCHANGED <<demand, forgotten, reserved, cache, walk, phase, target, report, view>>
        /\ inst[i] \in from /\ inst' = [inst EXCEPT ![i] = to]
        /\ since' = IF phase \in {"idle", "inventory", "submit"} \/ to = "Running"
                    THEN since ELSE since \cup {i}
    BY DEF Moves, invVars, loopVars
  <1>2. Values'
    BY <1>1 DEF IInv, Core, Values, Statuses
  <1>3. Committed' \subseteq Committed /\ Committed \in SUBSET Instances
    BY <1>1 DEF IInv, Core, Values, Committed
  <1>4. Bounded(Committed)'
    <2>1. PICK C : C = Committed'
      OBVIOUS
    <2>2. /\ Cardinality(C) <= Cardinality(Committed)
          /\ Cardinality(C) \in Nat /\ Cardinality(Committed) \in Nat
      BY <1>3, <2>1, Counting
    <2>3. Cardinality(Committed) <= Max + forgotten /\ forgotten \in Nat /\ Max \in Nat
      BY AutoscalerAssumption DEF IInv, Core, Values, Listings, Bounded, AutoscalerAssumption
    <2> QED BY <1>1, <2>1, <2>2, <2>3 DEF Bounded
  <1>5. Listings'
    BY <1>1, <1>4 DEF IInv, Core, Listings, Listed, Bounded
  <1>6. ASSUME Watching
        PROVE  /\ \A j \in Instances : Missing(j) => Missing(j)'
               /\ \A j \in Instances : inst[j] \in Statuses => inst'[j] \in Statuses \/ Missing(j)'
               /\ \A j \in Instances \ since' :
                    /\ j \notin since
                    /\ inst'[j] \in Statuses => inst[j] \in Statuses
                    /\ inst[j] = "Running" => inst'[j] = "Running"
                    /\ node'[j] = node[j]
    <2>1. /\ since' = IF to = "Running" THEN since ELSE since \cup {i}
          /\ \A j \in Instances : inst'[j] = IF j = i THEN to ELSE inst[j]
          /\ \A j \in Instances \ {i} : node'[j] = node[j]
          /\ to = "Running" => node' = node
      BY <1>1, <1>6 DEF Watching, IInv, Core, Values
    <2> QED BY <1>1, <2>1 DEF Missing, Statuses
  <1>7. Fresh'
    <2> SUFFICES ASSUME Watching, view # "raced"
                 PROVE  /\ Lasts(DOMAIN cache)' /\ (cache # Nothing => Current(cache)')
                        /\ walk # NoWalk => /\ Current(walk)' /\ Lasts(DOMAIN walk)'
                                            /\ Within(DOMAIN cache, DOMAIN walk)'
                        /\ phase = "joined" => Current(report)'
                        /\ phase = "plan" => Told'
                        /\ phase \in {"nodes", "joined", "plan"} =>
                             \E D \in SUBSET Instances : Counted(D)'
      BY <1>1 DEF Fresh, Watching
    <2>1. /\ Lasts(DOMAIN cache) /\ (cache # Nothing => Current(cache))
          /\ walk # NoWalk => /\ Current(walk) /\ Lasts(DOMAIN walk)
                              /\ Within(DOMAIN cache, DOMAIN walk)
          /\ phase = "joined" => Current(report)
          /\ phase = "plan" => Told
          /\ phase \in {"nodes", "joined", "plan"} => \E D \in SUBSET Instances : Counted(D)
      BY DEF IInv, Core, Fresh
    <2>2. /\ DOMAIN cache \subseteq Instances /\ DOMAIN report \subseteq Instances
          /\ walk # NoWalk => DOMAIN walk \subseteq Instances
      BY DEF IInv, Core, Listings, Listed
    <2>3. ASSUME NEW D \in SUBSET Instances
          PROVE  /\ Lasts(D) => Lasts(D)'
                 /\ \A E : Within(D, E) => Within(D, E)'
      BY <1>6 DEF Lasts, Within, Missing
    <2>4. ASSUME NEW f, Current(f)
          PROVE  Current(f)'
      BY <1>6, <2>4 DEF Current
    <2>5. /\ Lasts(DOMAIN cache)' /\ (cache # Nothing => Current(cache)')
          /\ walk # NoWalk => /\ Current(walk)' /\ Lasts(DOMAIN walk)'
                              /\ Within(DOMAIN cache, DOMAIN walk)'
          /\ phase = "joined" => Current(report)'
      BY <1>1, <1>6, <2>1, <2>2 DEF Lasts, Within, Missing, Current
    <2>6. Told => Told'
      BY <1>1, <1>6, <2>2 DEF Told
    <2>7. ASSUME NEW D \in SUBSET Instances, Counted(D)
          PROVE  Counted(D)'
      BY <1>1, <1>6, <2>7 DEF Counted, Lasts, Within, Missing
    <2> QED BY <2>1, <2>5, <2>6, <2>7
  <1>8. Clear'
    <2> SUFFICES ASSUME view = "clear", phase # "idle"
                 PROVE  /\ \A j \in Instances : inst'[j] # "hidden"
                        /\ Watching => /\ cache # Nothing => Committed' \subseteq DOMAIN cache
                                       /\ walk # NoWalk => Committed' \subseteq DOMAIN walk
                        /\ phase \in {"nodes", "joined", "plan", "inventory", "submit"} =>
                             Cardinality(Committed') <= target
      BY <1>1 DEF Clear, Watching
    <2>1. /\ \A j \in Instances : inst[j] # "hidden"
          /\ Watching => /\ cache # Nothing => Committed \subseteq DOMAIN cache
                         /\ walk # NoWalk => Committed \subseteq DOMAIN walk
          /\ phase \in {"nodes", "joined", "plan", "inventory", "submit"} =>
               Cardinality(Committed) <= target
      BY DEF IInv, Core, Clear
    <2>2. \A j \in Instances : inst'[j] # "hidden"
      BY <1>1, <2>1 DEF IInv, Core, Values
    <2>3. PICK C : C = Committed'
      OBVIOUS
    <2>4. /\ Cardinality(C) <= Cardinality(Committed)
          /\ Cardinality(C) \in Nat /\ Cardinality(Committed) \in Nat
      BY <1>3, <2>3, Counting
    <2>5. target \in Int
      BY AutoscalerAssumption DEF IInv, Core, Listings, Values, AutoscalerAssumption
    <2> QED BY <1>3, <2>1, <2>2, <2>3, <2>4, <2>5
  <1> QED BY <1>2, <1>5, <1>7, <1>8 DEF IInv, Core

LEMMA JoinOK ==
  ASSUME IInv, NEW i \in Instances, Join(i)
  PROVE  Core'
  <1>1. /\ UNCHANGED <<demand, inst, troubles, forgotten, reserved, cache, walk, phase, target, report,
                       view, since>>
        /\ inst[i] = "Running" /\ node[i] = "none" /\ node' = [node EXCEPT ![i] = "bare"]
    BY DEF Join, invVars, loopVars, histVars
  <1>2. Values'
    BY <1>1 DEF IInv, Core, Values
  <1>3. Listings'
    BY <1>1 DEF IInv, Core, Listings, Listed, Bounded, Committed
  <1>4. Told => Told'
    BY <1>1 DEF Told, IInv, Core, Values, Listings
  <1>5. Fresh'
    <2>1. Fresh
      BY DEF IInv, Core
    <2>2. \A D \in SUBSET Instances : Counted(D) => Counted(D)'
      BY <1>1 DEF Counted, Lasts, Within, Missing
    <2> QED BY <1>1, <1>4, <2>1, <2>2 DEF Fresh, Watching, Lasts, Within, Missing, Current
  <1>6. Clear'
    BY <1>1 DEF IInv, Core, Clear, Watching, Committed
  <1> QED BY <1>2, <1>3, <1>5, <1>6 DEF IInv, Core

LEMMA WorldOK ==
  ASSUME IInv, World
  PROVE  Core'
  <1>1. troubles \in 0 .. MaxTroubles /\ MaxTroubles \in Nat
    BY AutoscalerAssumption DEF IInv, Core, Values, AutoscalerAssumption
  <1>2. ASSUME NEW i \in Instances, Show(i) PROVE Core'
    BY <1>1, <1>2, MovesOK DEF Show
  <1>3. ASSUME NEW i \in Instances, Boot(i) PROVE Core'
    BY <1>1, <1>3, MovesOK DEF Boot
  <1>4. ASSUME NEW i \in Instances, Release(i) PROVE Core'
    BY <1>1, <1>4, MovesOK DEF Release
  <1>5. ASSUME NEW i \in Instances, Trouble(i) PROVE Core'
    <2>1. troubles' \in 0 .. MaxTroubles
      BY <1>1, <1>5 DEF Trouble
    <2> QED BY <1>5, <2>1, MovesOK DEF Trouble
  <1> QED BY <1>2, <1>3, <1>4, <1>5, JoinOK DEF World, Progress
-----------------------------------------------------------------------------
(* What no reservation speaks for. *)

\* It only ever shrinks, while the process lives.
LEMMA Shrinks ==
  ASSUME IInv, Unreserved' \subseteq Unreserved, forgotten' = forgotten
  PROVE  Cardinality(Unreserved') <= forgotten'
  <1>1. PICK U : U = Unreserved'
    OBVIOUS
  <1>2. Unreserved \in SUBSET Instances
    BY DEF Unreserved, Committed
  <1>3. /\ Cardinality(U) <= Cardinality(Unreserved)
        /\ Cardinality(U) \in Nat /\ Cardinality(Unreserved) \in Nat
    BY <1>1, <1>2, Counting
  <1> QED BY <1>1, <1>3 DEF IInv, Core, Spoken, Values

\* A call that orders nothing.
LEMMA CallSpoken ==
  ASSUME IInv, phase # "submit", phase' # "submit", UNCHANGED <<inst, forgotten, reserved>>
  PROVE  Spoken'
  BY Shrinks DEF Unreserved, Spoken

LEMMA LoopSpoken ==
  ASSUME IInv, Loop
  PROVE  Spoken'
  <1>1. CASE \/ Refresh \/ (\E S \in SUBSET Bare : Reconcile(S))
             \/ NodeGroupTargetSize \/ NodeGroupNodes \/ JoinedInstanceIDs
             \/ Settled \/ NodeGroupDecreaseTargetSize \/ NodeGroupIncreaseSize
    BY <1>1, CallSpoken
       DEF Refresh, Reconcile, NodeGroupTargetSize, NodeGroupNodes, JoinedInstanceIDs, Settled,
           NodeGroupDecreaseTargetSize, NodeGroupIncreaseSize, Over, worldVars
  <1>2. CASE Inventory
    <2>1. /\ UNCHANGED <<inst, forgotten, reserved>>
          /\ phase = "inventory" /\ phase' = "submit" /\ report' = Listing
      BY <1>2 DEF Inventory, Fetch, worldVars
    <2>2. DOMAIN Listing = {i \in Instances : inst[i] \in Statuses}
      BY ListingOK DEF IInv, Core
    <2>3. Unreserved' \subseteq Unreserved
      BY <2>1, <2>2 DEF Unreserved, Committed, IInv, Core, Values
    <2> QED BY <2>1, <2>2, <2>3, Shrinks DEF Spoken, Statuses
  <1>3. ASSUME NEW S \in SUBSET Instances, Order(S) PROVE Spoken'
    <2>1. PICK E \in SUBSET Absent : Reserve(S, E)
      BY <1>3 DEF Order
    <2>2. /\ phase = "submit" /\ reserved' = Kept(E) \cup {S} /\ forgotten' = forgotten
          /\ phase' = "idle"
          /\ {i \in Instances : inst[i] = "hidden"} \ UNION Kept(E) \subseteq Unreserved
      BY <2>1, ReserveOK, KeptOK DEF Over
    <2>3. inst' = [i \in Instances |-> IF i \in S THEN "hidden" ELSE inst[i]]
      BY <1>3 DEF Order
    <2>4. Unreserved' \subseteq Unreserved
      <3> SUFFICES ASSUME NEW i \in Unreserved' PROVE i \in Unreserved
        OBVIOUS
      <3>1. i \in Instances /\ inst'[i] = "hidden" /\ i \notin UNION (Kept(E) \cup {S})
        BY <2>2 DEF Unreserved
      <3>2. i \notin S /\ i \notin UNION Kept(E)
        BY <3>1
      <3> QED BY <2>2, <2>3, <3>1, <3>2
    <2> QED BY <2>2, <2>4, Shrinks DEF Spoken
  <1>4. ASSUME NEW S \in SUBSET Instances, OrderLost(S) PROVE Spoken'
    <2>1. PICK E \in SUBSET Absent : Reserve(S, E)
      BY <1>4 DEF OrderLost
    <2>2. /\ phase = "submit" /\ reserved' = Kept(E) \cup {S} /\ forgotten' = forgotten
          /\ phase' = "idle" /\ inst' = inst
          /\ {i \in Instances : inst[i] = "hidden"} \ UNION Kept(E) \subseteq Unreserved
      BY <1>4, <2>1, ReserveOK, KeptOK DEF Over, OrderLost
    <2>3. Unreserved' \subseteq Unreserved
      BY <2>2 DEF Unreserved
    <2> QED BY <2>2, <2>3, Shrinks DEF Spoken
  <1>5. ASSUME NEW E, Refused(E) PROVE Spoken'
    <2>1. /\ phase = "submit" /\ reserved' = Kept(E) /\ forgotten' = forgotten
          /\ phase' = "idle" /\ inst' = inst
          /\ {i \in Instances : inst[i] = "hidden"} \ UNION Kept(E) \subseteq Unreserved
      BY <1>5, KeptOK DEF Over, Refused
    <2>2. Unreserved' \subseteq Unreserved
      BY <2>1 DEF Unreserved
    <2> QED BY <2>1, <2>2, Shrinks DEF Spoken
  <1> QED BY <1>1, <1>2, <1>3, <1>4, <1>5 DEF Loop

LEMMA RestartSpoken ==
  ASSUME IInv, Restart
  PROVE  Spoken'
  <1> DEFINE Hidden == {i \in Instances : inst[i] = "hidden"}
  <1>1. /\ forgotten' = forgotten + Cardinality(Hidden) /\ forgotten \in Nat
        /\ reserved' = {} /\ inst' = inst /\ phase' = "idle"
    BY DEF Restart, Over, IInv, Core, Values
  <1>2. Unreserved' = Hidden
    BY <1>1 DEF Unreserved
  <1>3. Cardinality(Hidden) \in Nat
    <2>1. Hidden \in SUBSET Instances
      OBVIOUS
    <2> QED BY <2>1, Counting
  <1> HIDE DEF Hidden
  <1> QED BY <1>1, <1>2, <1>3 DEF Spoken

\* Other readers, ENS and the Nodes: nothing is hidden that was not.
LEMMA OtherSpoken ==
  ASSUME IInv, OtherBegins \/ OtherEnds \/ Expire \/ World \/ UNCHANGED vars
  PROVE  Spoken'
  <1>1. /\ UNCHANGED <<phase, report, reserved, forgotten>>
        /\ \A i \in Instances : inst'[i] # "free" => inst[i] # "free"
        /\ \A i \in Instances : inst'[i] = "hidden" => inst[i] = "hidden"
    <2>1. CASE OtherBegins \/ OtherEnds \/ Expire \/ UNCHANGED vars
      BY <2>1 DEF OtherBegins, OtherEnds, Expire, vars, worldVars, loopVars
    <2>2. CASE World
      <3>1. ASSUME NEW i \in Instances, Join(i) PROVE UNCHANGED <<inst, phase, report, reserved, forgotten>>
        BY <3>1 DEF Join, loopVars
      <3>2. ASSUME NEW i \in Instances, NEW from, NEW to, Moves(i, from, to),
                   "free" \notin from, to # "hidden"
            PROVE  /\ UNCHANGED <<phase, report, reserved, forgotten>>
                   /\ \A j \in Instances : inst'[j] # "free" => inst[j] # "free"
                   /\ \A j \in Instances : inst'[j] = "hidden" => inst[j] = "hidden"
        BY <3>2 DEF Moves, loopVars, IInv, Core, Values
      <3>3. ASSUME NEW i \in Instances, Show(i) \/ Boot(i) \/ Trouble(i) \/ Release(i)
            PROVE  /\ UNCHANGED <<phase, report, reserved, forgotten>>
                   /\ \A j \in Instances : inst'[j] # "free" => inst[j] # "free"
                   /\ \A j \in Instances : inst'[j] = "hidden" => inst[j] = "hidden"
        BY <3>2, <3>3 DEF Show, Boot, Trouble, Release
      <3> QED BY <2>2, <3>1, <3>3 DEF World, Progress
    <2> QED BY <2>1, <2>2
  <1>2. Unreserved' \subseteq Unreserved
    BY <1>1 DEF Unreserved, Committed
  <1>3. phase = "submit" => DOMAIN report \subseteq Instances /\ \A i \in DOMAIN report : inst[i] # "hidden"
    BY DEF IInv, Core, Listings, Spoken
  <1> QED BY <1>1, <1>2, <1>3, Shrinks DEF Spoken
-----------------------------------------------------------------------------
(* The theorems. *)

\* The invariant is inductive.
THEOREM Inductive == Spec => []IInv
  <1>1. ASSUME IInv, [Next]_vars PROVE IInv'
    <2>1. CASE UNCHANGED vars
      <3>1. Core'
        BY <1>1, <2>1 DEF vars, worldVars, invVars, loopVars, histVars, IInv, Core, Values, Listings,
           Listed, Bounded, Committed, Fresh, Clear, Watching, Lasts, Within, Missing, Current,
           Told, Counted
      <3> QED BY <1>1, <2>1, <3>1, OtherSpoken DEF IInv
    <2>2. CASE Next
      <3>1. Core'
        BY <1>1, <2>2, RefreshOK, ReconcileOK, TargetOK, NodesOK, JoinedOK, EndedOK, IncreaseOK,
           InventoryOK, OrderOK, RefusedOK, RestartOK, OtherBeginsOK, OtherEndsOK, ExpireOK, WorldOK
           DEF Next, Loop
      <3>2. ASSUME GiveUp PROVE Spoken'
        BY <1>1, <3>2, CallSpoken DEF GiveUp, Over, worldVars
      <3>3. Spoken'
        BY <1>1, <2>2, <3>2, LoopSpoken, RestartSpoken, OtherSpoken DEF Next
      <3> QED BY <3>1, <3>3 DEF IInv
    <2> QED BY <1>1, <2>1, <2>2
  <1> QED BY <1>1, InitOK, PTL DEF Spec

\* The types, and the group never above its maximum and what was forgotten.
THEOREM TypeCorrect == Spec => []TypeOK
  <1>1. IInv => TypeOK
    <2> SUFFICES ASSUME IInv PROVE TypeOK
      OBVIOUS
    <2>1. {i \in Instances : node[i] # "none"} \subseteq Committed
      BY DEF IInv, Core, Values, Committed
    <2>2. Range(cache) \subseteq Statuses
      BY DEF IInv, Core, Listings, Listed, Range
    <2>3. Range(report) \subseteq IF phase = "plan" THEN {"creating", "running", "deleting"}
                                                    ELSE Statuses
      BY DEF IInv, Core, Listings, Range
    <2> QED BY <2>1, <2>2, <2>3 DEF TypeOK, IInv, Core, Values, Listings, Listed, Bounded
  <1> QED BY <1>1, Inductive, PTL

\* What the loop is told is no older than its Refresh, unless that overtook a
\* walk.
THEOREM LoopIsCurrentHolds == Spec => []LoopIsCurrent
  <1>1. IInv => LoopIsCurrent
    BY DEF IInv, Core, Fresh, Watching, Told, LoopIsCurrent
  <1> QED BY <1>1, Inductive, PTL

\* There is nothing to cancel but what went away.
THEOREM NothingToCancelHolds == Spec => []NothingToCancel
  <1>1. IInv => NothingToCancel
    <2> SUFFICES ASSUME IInv, phase = "plan", target > Cardinality(DOMAIN report),
                        view # "raced", \A i \in since : inst[i] # "free"
                 PROVE  FALSE
      BY DEF NothingToCancel
    <2>1. PICK D \in SUBSET Instances : Counted(D)
      BY DEF IInv, Core, Fresh, Watching
    <2>2. D \subseteq DOMAIN report /\ DOMAIN report \in SUBSET Instances
      BY <2>1 DEF Counted, Within, Missing, IInv, Core, Listings
    <2>3. /\ Cardinality(D) <= Cardinality(DOMAIN report)
          /\ Cardinality(D) \in Nat /\ Cardinality(DOMAIN report) \in Nat
      BY <2>2, Counting
    <2> QED BY <2>1, <2>3 DEF Counted
  <1> QED BY <1>1, Inductive, PTL

\* Only a loop that could not see what is in flight orders past the demand.
THEOREM OvershootExplainedHolds == Spec => OvershootExplained
  <1>1. ASSUME IInv, NEW S \in SUBSET Instances, Order(S), Cardinality(Committed') > demand
        PROVE  view # "clear"
    <2> SUFFICES ASSUME view = "clear" PROVE FALSE
      OBVIOUS
    <2>1. /\ phase = "submit" /\ Cardinality(S) = demand - target
          /\ Committed' = Committed \cup S
      BY <1>1, OrderGrows
    <2>2. Cardinality(Committed) <= target /\ Committed \in SUBSET Instances
      BY <1>1, <2>1 DEF IInv, Core, Clear, Committed
    <2>3. /\ Cardinality(Committed \cup S) <= Cardinality(Committed) + Cardinality(S)
          /\ Cardinality(Committed) \in Nat /\ Cardinality(S) \in Nat
          /\ Cardinality(Committed \cup S) \in Nat
      <3>1. Committed \cup S \in SUBSET Instances
        BY <2>2
      <3> QED BY <2>2, <3>1, Together, Counting
    <2>4. demand \in Nat /\ target \in Int
      BY <1>1, AutoscalerAssumption DEF IInv, Core, Listings, Values, AutoscalerAssumption
    <2> QED BY <1>1, <2>1, <2>2, <2>3, <2>4
  <1>2. ASSUME IInv
        PROVE  [\A S \in SUBSET Instances :
                  Order(S) /\ Cardinality(Committed') > demand => view # "clear"]_vars
    BY <1>1, <1>2
  <1> QED BY <1>2, Inductive, PTL DEF OvershootExplained
-----------------------------------------------------------------------------
(* The ledger. *)

\* The instance's operator is the library's, expanded both times.
LEMMA SameCardinality == \A S : Ledger!Cardinality(S) = Cardinality(S)
  BY DEF Ledger!Cardinality, Cardinality

LEMMA LedgerInit == Init => Ledger!LInit
  <1> SUFFICES ASSUME Init PROVE Ledger!LInit
    OBVIOUS
  <1>1. Committed = {} /\ forgotten = 0
    BY DEF Init, Committed
  <1> QED BY <1>1, SameCardinality, FS_EmptySet, AutoscalerAssumption
         DEF Ledger!LInit, AutoscalerAssumption

\* An instance that moves frees its place, or keeps it.
LEMMA LedgerMoves ==
  ASSUME IInv, NEW i \in Instances, NEW from, NEW to, Moves(i, from, to),
         "free" \notin from
  PROVE  Ledger!LNext \/ UNCHANGED <<Committed, Max + forgotten>>
  <1>1. /\ inst[i] \in from /\ inst' = [inst EXCEPT ![i] = to] /\ forgotten' = forgotten
        /\ inst \in [Instances -> {"free", "hidden"} \cup Statuses]
    BY DEF Moves, IInv, Core, Values
  <1>2. CASE to = "free"
    <2>1. Committed' = Committed \ {i} /\ {i} \in SUBSET Committed
      BY <1>1, <1>2 DEF Committed
    <2>2. Ledger!Drop({i})
      BY <1>1, <2>1 DEF Ledger!Drop
    <2> QED BY <2>1, <2>2 DEF Ledger!LNext
  <1>3. CASE to # "free"
    BY <1>1, <1>3 DEF Committed
  <1> QED BY <1>2, <1>3

LEMMA LedgerStep ==
  IInv /\ [Next]_vars => [Ledger!LNext]_<<Committed, Max + forgotten>>
  <1> SUFFICES ASSUME IInv, [Next]_vars
               PROVE  Ledger!LNext \/ UNCHANGED <<Committed, Max + forgotten>>
    BY DEF Ledger!LNext
  <1>1. ASSUME UNCHANGED <<inst, forgotten>>
        PROVE  UNCHANGED <<Committed, Max + forgotten>>
    BY <1>1 DEF Committed
  <1>2. ASSUME NEW S \in SUBSET Instances, Order(S) PROVE Ledger!LNext
    <2>1. Ledger!Admit(S)
      <3>1. forgotten' = forgotten
        BY <1>2, OrderGrows
      <3> QED BY <1>2, <3>1, OrderGrows, SameCardinality DEF Ledger!Admit
    <2> QED BY <2>1 DEF Ledger!LNext
  <1>3. ASSUME Restart PROVE Ledger!LNext
    <2>1. PICK H \in SUBSET Committed : H = {i \in Instances : inst[i] = "hidden"}
      BY DEF Committed
    <2>2. /\ forgotten' = forgotten + Cardinality(H) /\ inst' = inst
          /\ Cardinality(H) \in Nat /\ forgotten \in Nat
      <3>1. H \in SUBSET Instances
        BY <2>1
      <3> QED BY <1>3, <2>1, <3>1, Counting DEF Restart, IInv, Core, Values
    <2>3. Ledger!Forget(H)
      BY <2>2, SameCardinality, AutoscalerAssumption
         DEF Ledger!Forget, Committed, AutoscalerAssumption
    <2> QED BY <2>3 DEF Ledger!LNext
  <1>4. ASSUME NEW i \in Instances, Show(i) \/ Boot(i) \/ Release(i) \/ Trouble(i)
        PROVE  Ledger!LNext \/ UNCHANGED <<Committed, Max + forgotten>>
    BY <1>4, LedgerMoves DEF Show, Boot, Release, Trouble
  <1>5. ASSUME NEW i \in Instances, Join(i) PROVE UNCHANGED <<inst, forgotten>>
    BY <1>5 DEF Join
  <1>6. CASE World
    BY <1>1, <1>4, <1>5, <1>6 DEF World, Progress
  <1>7. CASE Loop
    <2>1. ASSUME NEW S \in SUBSET Instances, OrderLost(S) PROVE UNCHANGED <<inst, forgotten>>
      BY <2>1 DEF OrderLost, Reserve
    <2>2. ASSUME NEW E, Refused(E) PROVE UNCHANGED <<inst, forgotten>>
      BY <2>2 DEF Refused
    <2>3. CASE \/ Refresh \/ (\E S \in SUBSET Bare : Reconcile(S))
               \/ NodeGroupTargetSize \/ NodeGroupNodes \/ JoinedInstanceIDs \/ Inventory
               \/ Settled \/ NodeGroupDecreaseTargetSize \/ NodeGroupIncreaseSize
      BY <1>1, <2>3
         DEF Refresh, Reconcile, NodeGroupTargetSize, NodeGroupNodes, JoinedInstanceIDs, Inventory,
             Settled, NodeGroupDecreaseTargetSize, NodeGroupIncreaseSize, worldVars
    <2> QED BY <1>1, <1>2, <1>7, <2>1, <2>2, <2>3 DEF Loop
  <1>8. CASE GiveUp \/ OtherBegins \/ OtherEnds \/ Expire \/ UNCHANGED vars
    BY <1>1, <1>8 DEF GiveUp, OtherBegins, OtherEnds, Expire, vars, worldVars
  <1> QED BY <1>3, <1>6, <1>7, <1>8 DEF Next

\* The loop's orders, whose guard counts listings and reservations, do what the
\* ledger promises: it never has more than its maximum and what was forgotten.
THEOREM ImplementsLedger == Spec => LedgerSpec
  BY LedgerInit, LedgerStep, Inductive, PTL DEF Spec, LedgerSpec, Ledger!LSpec
=============================================================================
