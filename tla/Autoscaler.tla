----------------------------- MODULE Autoscaler -----------------------------
(***************************************************************************)
(* One node group through the autoscaler's loop: Refresh (server.go), the  *)
(* target size and the instances it is told, the order it makes of them,   *)
(* and an instance's way from ENS's acceptance to a correlated Node.       *)
(*                                                                         *)
(* This composes what the other modules have in detail: the inventory is   *)
(* the cache of DescribeCache, where only the walks of other readers take  *)
(* time; the order path is OrderGuard's for one caller, with a reservation *)
(* the set of what it may become instead of a count, and no clock; a       *)
(* reconciler matches a Node with its own instance, ScaleDown has the      *)
(* addresses that lie.                                                     *)
(* The cluster-autoscaler and ENS are external.                            *)
(***************************************************************************)
EXTENDS Integers, FiniteSets, Functions

CONSTANTS
  Instances,  \* what may be ordered for the group, numbered
  Max,        \* its MaxSize
  Demands,    \* how many instances the pending pods may need
  NoWalk,     \* no listing
  MaxTroubles \* bound: instances that fail or stop, orders that are lost,
              \* restarts, and walks of other readers

ASSUME AutoscalerAssumption ==
  /\ IsFiniteSet(Instances) /\ Instances \subseteq Nat
  /\ {Max, MaxTroubles} \subseteq Nat /\ Demands \subseteq 0 .. Max

VARIABLES
  demand,  \* instances the pending pods need, throughout
  inst,    \* at ENS: free, hidden (ordered and not shown), or its status
  node,    \* its Node: none, bare (no providerID) or correlated
  cache,   \* Cloud.cache while it serves: a status for each instance listed
  walk,    \* what another reader fetched and has not stored, or NoWalk
  phase,   \* the loop: the call it makes next
  target,  \* the last NodeGroupTargetSize
  report,  \* the listing NodeGroupNodes works on, and then the state it
           \* answers for each instance; the listing of the order guard
  reserved, \* groupOrderState.reservations: what each order may become
  troubles, \* so far (bound)
  forgotten, \* instances whose reservation died with its process
  view,    \* how the last Refresh found things: clear, an order hidden, or
           \* raced, a walk under way (history)
  since    \* instances shown, stopped or gone since (history)

worldVars == <<demand, inst, node, troubles, forgotten, reserved>>
invVars   == <<cache, walk>>
loopVars  == <<phase, target, report>>
histVars  == <<view, since>>
vars      == <<worldVars, invVars, loopVars, histVars>>

Statuses == {"Pending", "Running", "Stopped"}
Nothing  == <<>>

Committed == {i \in Instances : inst[i] # "free"}
Listing   == [i \in {j \in Instances : inst[j] \in Statuses} |-> inst[i]]

Init ==
  /\ demand \in Demands
  /\ inst = [i \in Instances |-> "free"] /\ node = [i \in Instances |-> "none"]
  /\ troubles = 0 /\ forgotten = 0 /\ reserved = {}
  /\ cache = Nothing /\ walk = NoWalk
  /\ phase = "idle" /\ target = 0 /\ report = Nothing
  /\ view = "clear" /\ since = {}
-----------------------------------------------------------------------------
(* The inventory. *)

\* A walk of the loop's own: it waits for one that is under way.
Fetch ==
  /\ walk = NoWalk
  /\ cache' = Listing /\ UNCHANGED walk

\* A read that need not fetch.  An empty listing is a nil slice, which never
\* serves.
Read == IF cache # Nothing THEN UNCHANGED invVars ELSE Fetch

\* Another caller of describeRegion: the background loop, another RPC.
OtherBegins ==
  /\ walk = NoWalk /\ walk' = Listing
  /\ troubles < MaxTroubles /\ troubles' = troubles + 1
  /\ UNCHANGED <<demand, inst, node, forgotten, reserved, cache, loopVars, histVars>>

OtherEnds ==
  /\ walk # NoWalk /\ walk' = NoWalk
  /\ cache' \in {walk, cache}  \* it may fail
  /\ UNCHANGED <<worldVars, loopVars, histVars>>

\* The lifetime is over, or a release invalidates.
Expire ==
  /\ cache # Nothing /\ cache' = Nothing
  /\ UNCHANGED <<worldVars, walk, loopVars, histVars>>
-----------------------------------------------------------------------------
(* The loop. *)

\* The loop is over, done or not.
Over ==
  /\ phase' = "idle" /\ target' = 0 /\ report' = Nothing
  /\ view' = "clear" /\ since' = {}

Seen == IF walk # NoWalk THEN "raced"
        ELSE IF \E i \in Instances : inst[i] = "hidden" THEN "hidden" ELSE "clear"

Refresh ==
  /\ phase = "idle"
  /\ cache' = Nothing
  /\ phase' = "reconcile"
  /\ view' = Seen
  /\ UNCHANGED <<worldVars, walk, target, report, since>>

Bare == {i \in Instances : node[i] = "bare"}

\* Refresh's ReconcileProviderIDs: nothing to match, an error that is logged,
\* or a forced read and the patches that succeed.
Reconcile(S) ==
  /\ phase = "reconcile" /\ S \subseteq Bare
  /\ \/ S = {} /\ UNCHANGED invVars
     \/ Bare # {} /\ Fetch /\ S \subseteq DOMAIN cache'
  /\ node' = [i \in Instances |-> IF i \in S THEN "correlated" ELSE node[i]]
  /\ phase' = "target"
  /\ UNCHANGED <<demand, inst, troubles, forgotten, reserved, target, report, histVars>>

\* (mutant) Orders that are not shown yet are promised too.
NodeGroupTargetSizeEager ==
  /\ phase = "target" /\ Read
  /\ target' = Cardinality(DOMAIN cache' \cup {i \in Instances : inst[i] = "hidden"})
  /\ phase' = "nodes"
  /\ UNCHANGED <<worldVars, report, histVars>>

\* (mutant) Only what has joined counts.
NodeGroupTargetSizeJoined ==
  /\ phase = "target" /\ Read
  /\ target' = Cardinality({i \in DOMAIN cache' : node[i] = "correlated"})
  /\ phase' = "nodes"
  /\ UNCHANGED <<worldVars, report, histVars>>

NodeGroupTargetSize ==
  /\ phase = "target" /\ Read
  /\ target' = Cardinality(DOMAIN cache')
  /\ phase' = "nodes"
  /\ UNCHANGED <<worldVars, report, histVars>>

\* (mutant) A status that is none of ours is passed on.
StateForRaw(status) == IF status = "Running" THEN "running" ELSE status

\* (mutant) What is not being built is taken to run.
StateForDefault(status) == IF status = "Pending" THEN "creating" ELSE "running"

StateFor(status) ==
  CASE status = "Running" -> "running"
    [] status = "Stopped" -> "deleting"
    [] OTHER              -> "creating"  \* what is built, and what nobody knows

\* NodeGroupNodes reads the inventory, and then the Nodes.
NodeGroupNodes ==
  /\ phase = "nodes" /\ Read
  /\ report' = cache'
  /\ phase' = "joined"
  /\ UNCHANGED <<worldVars, target, histVars>>

\* What runs and has no correlated Node is still on its way.
JoinedInstanceIDs ==
  /\ phase = "joined"
  /\ report' = [i \in DOMAIN report |->
                  IF StateFor(report[i]) = "running" /\ node[i] # "correlated"
                  THEN "creating" ELSE StateFor(report[i])]
  /\ phase' = "plan"
  /\ UNCHANGED <<worldVars, invVars, target, histVars>>

\* The autoscaler gives back what the target has too much of, and is refused.
NodeGroupDecreaseTargetSize ==
  /\ phase = "plan" /\ target > Cardinality(DOMAIN report)
  /\ UNCHANGED <<worldVars, invVars>>
  /\ Over

\* NodeGroupIncreaseSize by what is missing: the advisory check on the cached
\* count, and the preparation of the order.
NodeGroupIncreaseSize ==
  /\ phase = "plan" /\ target < demand
  /\ UNCHANGED worldVars
  /\ Read
  /\ IF Cardinality(DOMAIN cache') + demand - target <= Max
     THEN phase' = "inventory" /\ report' = Nothing /\ since' = {} /\ UNCHANGED <<target, view>>
     ELSE Over

\* The forced read under the order lock.
Inventory ==
  /\ phase = "inventory" /\ Fetch
  /\ report' = cache'
  /\ phase' = "submit"
  /\ UNCHANGED <<worldVars, target, histVars>>

\* effectiveOwned drops the reservation of an order that is shown whole, and one
\* of which nothing is shown when it is old enough: of that order nothing lands
\* any more (OrderGuard's InFlightReserved).  One that is shown in part is kept.
Filled  == {R \in reserved : R \subseteq DOMAIN report}
Absent  == {R \in reserved : R \cap (DOMAIN report \cup Committed) = {}}

\* (mutant) The age is never looked at.
KeptForEver(E) == reserved \ Filled

\* What it keeps when E has expired.
Kept(E) == reserved \ (Filled \cup E)

\* What is missing; which instances ENS makes of it plays no role.
NextFree(E) ==
  LET free == Instances \ (Committed \cup UNION Kept(E))
  IN  {S \in SUBSET free : /\ Cardinality(S) = demand - target
                           /\ \A i \in S, j \in free \ S : i < j}

\* The guard admits an order for S, with E expired, and reserves it.
Reserve(S, E) ==
  /\ phase = "submit" /\ E \subseteq Absent
  /\ S \in NextFree(E)
  /\ Cardinality(DOMAIN report) + Cardinality((UNION Kept(E)) \ DOMAIN report)
       + Cardinality(S) <= Max
  /\ reserved' = Kept(E) \cup {S}
  /\ UNCHANGED <<demand, node, forgotten, walk>>
  /\ Over

\* ENS takes the order.  An answer invalidates the cache; an outcome that stays
\* uncertain does not.
Order(S) ==
  /\ \E E \in SUBSET Absent : Reserve(S, E)
  /\ inst' = [i \in Instances |-> IF i \in S THEN "hidden" ELSE inst[i]]
  /\ cache' \in {Nothing, cache}
  /\ UNCHANGED troubles

\* ENS never received the order, and the provider cannot tell.
OrderLost(S) ==
  /\ \E E \in SUBSET Absent : Reserve(S, E)
  /\ troubles < MaxTroubles /\ troubles' = troubles + 1
  /\ UNCHANGED <<inst, cache>>

\* The guard refuses, the caller has no time left, or ENS rejects the order;
\* the reservations have been gone through.
Refused(E) ==
  /\ phase = "submit" /\ E \subseteq Absent
  /\ reserved' = Kept(E)
  /\ UNCHANGED <<demand, inst, node, troubles, forgotten, invVars>>
  /\ Over

\* There is nothing to order and nothing to give back.
Settled ==
  /\ phase = "plan" /\ demand <= target /\ target <= Cardinality(DOMAIN report)
  /\ UNCHANGED <<worldVars, invVars>>
  /\ Over

\* An RPC fails or is refused, or an order cannot be prepared: the loop comes
\* back.
GiveUp ==
  /\ phase \notin {"idle", "reconcile", "submit"}
  /\ UNCHANGED <<worldVars, invVars>>
  /\ Over

\* The provider dies, with its cache, the walks and the reservations; the loop's
\* call fails.
Restart ==
  /\ troubles < MaxTroubles /\ troubles' = troubles + 1
  /\ forgotten' = forgotten + Cardinality({i \in Instances : inst[i] = "hidden"})
  /\ cache' = Nothing /\ walk' = NoWalk /\ reserved' = {}
  /\ UNCHANGED <<demand, inst, node>>
  /\ Over
-----------------------------------------------------------------------------
(* ENS and the Nodes. *)

Moves(i, from, to) ==
  /\ inst[i] \in from /\ inst' = [inst EXCEPT ![i] = to]
  /\ since' = IF phase \in {"idle", "inventory", "submit"} \/ to = "Running"
              THEN since ELSE since \cup {i}
  /\ UNCHANGED <<demand, forgotten, reserved, invVars, loopVars, view>>

Show(i) == Moves(i, {"hidden"}, "Pending") /\ UNCHANGED <<node, troubles>>
Boot(i) == Moves(i, {"Pending"}, "Running") /\ UNCHANGED <<node, troubles>>

Join(i) ==
  /\ inst[i] = "Running" /\ node[i] = "none"
  /\ node' = [node EXCEPT ![i] = "bare"]
  /\ UNCHANGED <<demand, inst, troubles, forgotten, reserved, invVars, loopVars, histVars>>

\* It stops, or never comes up.
Trouble(i) ==
  /\ troubles < MaxTroubles /\ troubles' = troubles + 1
  /\ \/ Moves(i, {"Running"}, "Stopped") /\ UNCHANGED node
     \/ Moves(i, {"hidden"}, "free") /\ UNCHANGED node

\* What stopped is released; its Node goes with it.
Release(i) ==
  /\ Moves(i, {"Stopped"}, "free")
  /\ node' = [node EXCEPT ![i] = "none"]
  /\ UNCHANGED troubles
-----------------------------------------------------------------------------
Loop ==
  \/ Refresh \/ (\E S \in SUBSET Bare : Reconcile(S))
  \/ NodeGroupTargetSize \/ NodeGroupNodes \/ JoinedInstanceIDs
  \/ Settled \/ NodeGroupDecreaseTargetSize \/ NodeGroupIncreaseSize
  \/ Inventory \/ (\E S \in SUBSET Instances : Order(S) \/ OrderLost(S))
  \/ \E E \in SUBSET reserved : Refused(E)

Progress == \E i \in Instances : Show(i) \/ Boot(i) \/ Join(i) \/ Release(i)
World    == Progress \/ \E i \in Instances : Trouble(i)

Next == Loop \/ GiveUp \/ Restart \/ OtherBegins \/ OtherEnds \/ Expire \/ World

\* A loop comes to its end with no call that failed, over and over; the patches,
\* and an order that is asked for, succeed over and over, the order with every
\* reservation expired that can be, for it is asked for until they are old; ENS
\* shows, boots and joins what it took; what stopped is released, by the
\* autoscaler or the janitor.
Fairness ==
  /\ []<><<Loop /\ Over>>_vars
  /\ SF_vars(Bare # {} /\ Reconcile(Bare))
  /\ SF_vars(\E S \in SUBSET Instances : Order(S))
  /\ WF_vars(OtherEnds) /\ WF_vars(Progress)

Spec == Init /\ [][Next]_vars /\ Fairness
-----------------------------------------------------------------------------
(* Properties. *)

\* The values of the variables; the listings speak of instances the group may
\* have, and the group never has more than its maximum and what a restart
\* forgot, although the orders are sized by a target that may be short of it
\* (ens.go:436, server.go:131).
TypeOK ==
  /\ inst \in [Instances -> {"free", "hidden"} \cup Statuses]
  /\ node \in [Instances -> {"none", "bare", "correlated"}]
  /\ {i \in Instances : node[i] # "none"} \subseteq Committed
  /\ Cardinality(Committed) <= Max + forgotten
  /\ \A f \in {cache, report} \cup ({walk} \ {NoWalk}) :
       DOMAIN f \subseteq Instances
  /\ Range(cache) \subseteq Statuses
  /\ Range(report) \subseteq IF phase = "plan" THEN {"creating", "running", "deleting"}
                                                ELSE Statuses
  /\ phase \in {"idle", "reconcile", "target", "nodes", "joined", "plan",
                "inventory", "submit"}
  /\ target \in 0 .. Max + forgotten /\ forgotten \in Nat
  /\ reserved \subseteq SUBSET Instances
  /\ troubles \in 0 .. MaxTroubles
  /\ view \in {"clear", "hidden", "raced"} /\ since \subseteq Instances

\* What the loop is told is no older than its Refresh: what ENS showed then and
\* still does is there, and what had stopped is not reported as running - but
\* for a walk that the Refresh overtook, whose listing is stored after the
\* invalidation as if it were new (server.go:103, ens.go:172).
LoopIsCurrent ==
  phase = "plan" /\ view # "raced" =>
    /\ \A i \in Instances \ since : inst[i] \in Statuses => i \in DOMAIN report
    /\ \A i \in DOMAIN report \ since : report[i] = "running" =>
         inst[i] = "Running" /\ node[i] = "correlated"

\* "an unfulfilled delta cannot exist" (server.go:275): the target is never
\* above what NodeGroupNodes lists, although they are separate reads, unless
\* an instance went away in between or a walk was overtaken.
NothingToCancel ==
  phase = "plan" /\ target > Cardinality(DOMAIN report) =>
    view = "raced" \/ \E i \in since : inst[i] = "free"

\* The group is taken past its demand only by a loop whose Refresh came while
\* an order was hidden or a walk under way: then TargetSize, the cached count,
\* misses what is in flight (server.go:121), and it is ordered again.
OvershootExplained ==
  [][\A S \in SUBSET Instances :
       Order(S) /\ Cardinality(Committed') > demand => view # "clear"]_vars

\* The group's orders are those of a ledger that never admits more than its
\* allowance, although a reservation is only a set of names (reservations.go:72).
Ledger == INSTANCE OrderLedger WITH committed <- Committed, allowance <- Max + forgotten
LedgerSpec == Ledger!LSpec

\* An order of which a part is shown and another failed is reserved as long as
\* the part is there (reservations.go:83); what it holds leaves too little room.
LeftoverBlocks ==
  LET shown    == DOMAIN Listing
      leftover == {R \in reserved : R \cap shown # {} /\ ~ R \subseteq shown}
  IN  /\ leftover # {}
      /\ Cardinality(shown \cup UNION leftover) + demand - Cardinality(shown) > Max

\* The demand is met: instances enough are reported running again and again,
\* through ambiguous and lost orders, stale caches, instances that fail or stop,
\* and Nodes that are not correlated yet - unless the leftover of an order that
\* failed in part takes the room of its replacement for good.
DemandMet ==
  \/ []<>(phase = "plan" /\ Cardinality({i \in DOMAIN report : report[i] = "running"}) >= demand)
  \/ <>[]LeftoverBlocks
=============================================================================
