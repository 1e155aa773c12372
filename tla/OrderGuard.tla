----------------------------- MODULE OrderGuard -----------------------------
(***************************************************************************)
(* The scale-up path of one node group: NodeGroupIncreaseSize ->           *)
(* RunInstances -> executeGuardedOrder -> submitOrder (server.go, ens.go,  *)
(* reservations.go), against an ENS inventory that shows an accepted order *)
(* only some time after accepting it.  Groups share no order state, so one *)
(* group is the whole story.                                               *)
(*                                                                         *)
(* Time is counted in ticks.  A call samples `now` before it queues for    *)
(* the group's order lock, so the age of a reservation is compared with    *)
(* the clock as it was `waited` ticks ago.                                 *)
(***************************************************************************)
EXTENDS Integers, FiniteSets

CONSTANTS
  Callers,       \* concurrent IncreaseSize handlers
  Ops,           \* operation names (the InstanceName prefix of one order)
  Instances,     \* ENS instance identities
  None,          \* no caller, no operation
  Max,           \* the group's MaxSize
  Deltas,        \* the sizes callers ask for
  TTL,           \* reservationTTL
  ExpiryMisses,  \* reservationExpiryMisses
  CallBudget,    \* longest time from sampling `now` to a submit: the deadline
  MaxWait,       \* bound: longest a call stays in the provider
  MaxMisses,     \* bound: empty looks counted; the code counts on
  VisWindow,     \* ENS decides and shows an order within this many ticks
  MaxLost        \* bound: instances that restarts may hide from the guard

ASSUME OrderGuardAssumption ==
  /\ IsFiniteSet(Instances)
  /\ None \notin Callers \cup Ops
  /\ {Max, TTL, CallBudget, MaxWait, VisWindow, MaxLost} \subseteq Nat
  /\ ExpiryMisses \in Nat \ {0}
  /\ MaxMisses \in Nat /\ MaxMisses >= ExpiryMisses
  /\ Deltas \subseteq Nat \ {0}
  /\ CallBudget <= MaxWait
  /\ CallBudget + VisWindow < TTL

VARIABLES
  pc,        \* where each handler is
  delta,     \* the count it orders
  waited,    \* ticks since it sampled `now`
  holder,    \* who holds groupOrderState.mu
  current,   \* the operation the holder submitted
  listing,   \* the inventory the holder fetched
  reserved,  \* the keys of groupOrderState.reservations
  age,       \* ticks since orderReservation.created
  misses,    \* orderReservation.misses
  ids,       \* the instances an operation ordered ({}: name not in use)
  inst,      \* the state of each instance at ENS
  flight,    \* ticks since the operation was put on the wire
  lost       \* instances hidden when a process died (history)

callVars == <<pc, delta, waited, holder, current, listing>>
resVars  == <<reserved, age, misses>>
ensVars  == <<ids, inst, flight>>
vars     == <<callVars, resVars, ensVars, lost>>

Listed    == {i \in Instances : inst[i] = "listed"}
InWindow  == {i \in Instances : inst[i] \in {"ordered", "hidden"}}
Committed == Listed \cup InWindow
Fresh     == {i \in Instances : inst[i] = "free"}
Pending   == {op \in Ops : ids[op] \cap InWindow # {}}

Init ==
  /\ pc = [c \in Callers |-> "idle"]
  /\ delta = [c \in Callers |-> 0]
  /\ waited = [c \in Callers |-> 0]
  /\ holder = None /\ current = None /\ listing = {}
  /\ reserved = {}
  /\ age = [op \in Ops |-> 0]
  /\ misses = [op \in Ops |-> 0]
  /\ ids = [op \in Ops |-> {}]
  /\ inst \in [Instances -> {"free", "listed"}]
  /\ Cardinality(Listed) <= Max
  /\ flight = [op \in Ops |-> 0]
  /\ lost = 0
-----------------------------------------------------------------------------
(* The handler. *)

\* A call that passes the advisory check against some cached listing, of
\* whatever age, and the preparation that precedes the lock.  A call refused
\* there, or asking for nothing, changes no state.
Call(c, n) ==
  /\ pc[c] = "idle"
  /\ n <= Max
  /\ pc' = [pc EXCEPT ![c] = "wait"]
  /\ delta' = [delta EXCEPT ![c] = n]
  /\ UNCHANGED <<waited, holder, current, listing, resVars, ensVars, lost>>

Acquire(c) ==
  /\ pc[c] = "wait" /\ holder = None
  /\ holder' = c
  /\ pc' = [pc EXCEPT ![c] = "inventory"]
  /\ UNCHANGED <<delta, waited, current, listing, resVars, ensVars, lost>>

\* Return, and the deferred unlock.
Return(c) ==
  /\ pc' = [pc EXCEPT ![c] = "idle"]
  /\ delta' = [delta EXCEPT ![c] = 0]
  /\ waited' = [waited EXCEPT ![c] = 0]
  /\ holder' = None /\ current' = None /\ listing' = {}

Inventory(c) ==
  /\ pc[c] = "inventory"
  /\ listing' = Listed
  /\ pc' = [pc EXCEPT ![c] = "guard"]
  /\ UNCHANGED <<delta, waited, holder, current, resVars, ensVars, lost>>

\* (mutant) The error path returns without the unlock.
InventoryFailsLocked(c) ==
  /\ pc[c] = "inventory"
  /\ pc' = [pc EXCEPT ![c] = "idle"]
  /\ delta' = [delta EXCEPT ![c] = 0]
  /\ waited' = [waited EXCEPT ![c] = 0]
  /\ UNCHANGED <<holder, current, listing, resVars, ensVars, lost>>

InventoryFails(c) ==
  /\ pc[c] = "inventory"
  /\ Return(c)
  /\ UNCHANGED <<resVars, ensVars, lost>>

(* effectiveOwned: what the reservations become under a fresh listing. *)
Filled == {op \in reserved : ids[op] \subseteq listing}
Absent == {op \in reserved \ Filled : ids[op] \cap listing = {}}

\* (mutant) Two empty looks alone prove absence.
ExpiredBySightings(c) == {op \in Absent : misses[op] + 1 >= ExpiryMisses}

Expired(c) == {op \in Absent : /\ age[op] - waited[c] >= TTL
                               /\ misses[op] + 1 >= ExpiryMisses}

Kept(c) == reserved \ (Filled \cup Expired(c))

\* (mutant) An empty look resets the count, a partial one advances it.
MissesSwapped(c, op) == IF op \in Kept(c) \ Absent THEN 1 ELSE 0

\* The code's count has no bound.  It is only compared with ExpiryMisses, so
\* any MaxMisses that is not below it gives the same behaviour.
MissesAfter(c, op) ==
  IF op \notin Kept(c) \cap Absent THEN 0
  ELSE IF misses[op] < MaxMisses THEN misses[op] + 1 ELSE misses[op]

Outstanding(c) == UNION {ids[op] \ listing : op \in Kept(c)}
Effective(c)   == Cardinality(listing) + Cardinality(Outstanding(c))

\* (mutant) An order that exactly fills the group is refused.
FitsBelow(c) == Effective(c) + delta[c] < Max

\* maxGuard.
Fits(c) == Effective(c) + delta[c] <= Max

\* Reservations kept by the reconciliation; the others are forgotten.
Reconciled(c) ==
  /\ reserved' = Kept(c)
  /\ age' = [op \in Ops |-> IF op \in Kept(c) THEN age[op] ELSE 0]
  /\ misses' = [op \in Ops |-> MissesAfter(c, op)]

\* (mutant) The refusal returns without the unlock.
RefuseLocked(c) ==
  /\ pc[c] = "guard" /\ ~Fits(c)
  /\ Reconciled(c)
  /\ pc' = [pc EXCEPT ![c] = "idle"]
  /\ delta' = [delta EXCEPT ![c] = 0]
  /\ waited' = [waited EXCEPT ![c] = 0]
  /\ UNCHANGED <<holder, current, listing, ensVars, lost>>

Refuse(c) ==
  /\ pc[c] = "guard" /\ ~Fits(c)
  /\ Reconciled(c)
  /\ Return(c)
  /\ UNCHANGED <<ensVars, lost>>

\* orderBudget: the caller is dead, or too close to its deadline.
Abandon(c) ==
  /\ pc[c] = "guard" /\ Fits(c)
  /\ Reconciled(c)
  /\ Return(c)
  /\ UNCHANGED <<ensVars, lost>>

\* (mutant) The ceiling guards, but nothing is reserved.
SubmitUnreserved(c, op, S) ==
  /\ pc[c] = "guard" /\ Fits(c) /\ waited[c] <= CallBudget
  /\ ids[op] = {} /\ S \subseteq Fresh /\ Cardinality(S) = delta[c]
  /\ Reconciled(c)
  /\ ids' = [ids EXCEPT ![op] = S]
  /\ inst' = [i \in Instances |-> IF i \in S THEN "ordered" ELSE inst[i]]
  /\ flight' = [flight EXCEPT ![op] = 0]
  /\ current' = op
  /\ pc' = [pc EXCEPT ![c] = "submit"]
  /\ UNCHANGED <<delta, waited, holder, listing, lost>>

\* The order for the instances S goes on the wire under the name op, which
\* is reserved first.
Submit(c, op, S) ==
  /\ pc[c] = "guard" /\ Fits(c) /\ waited[c] <= CallBudget
  /\ ids[op] = {} /\ S \subseteq Fresh /\ Cardinality(S) = delta[c]
  /\ reserved' = Kept(c) \cup {op}
  /\ age' = [o \in Ops |-> IF o = op THEN waited[c]
                           ELSE IF o \in Kept(c) THEN age[o] ELSE 0]
  /\ misses' = [o \in Ops |-> MissesAfter(c, o)]
  /\ ids' = [ids EXCEPT ![op] = S]
  /\ inst' = [i \in Instances |-> IF i \in S THEN "ordered" ELSE inst[i]]
  /\ flight' = [flight EXCEPT ![op] = 0]
  /\ current' = op
  /\ pc' = [pc EXCEPT ![c] = "submit"]
  /\ UNCHANGED <<delta, waited, holder, listing, lost>>

Forgotten(op) ==
  /\ reserved' = reserved \ {op}
  /\ age' = [age EXCEPT ![op] = 0]
  /\ misses' = [misses EXCEPT ![op] = 0]

Undecided(op) == \E i \in ids[op] : inst[i] = "ordered"
Refused(op)   == \E i \in ids[op] : inst[i] = "refused"

\* orderAccepted: the reservation stays until an inventory shows the order.
Accepted(c) ==
  /\ pc[c] = "submit" /\ ~Undecided(current) /\ ~Refused(current)
  /\ Return(c)
  /\ UNCHANGED <<resVars, ensVars, lost>>

\* orderRejected: ENS certainly did not accept.
Rejected(c) ==
  /\ pc[c] = "submit" /\ Refused(current)
  /\ Forgotten(current)
  /\ Return(c)
  /\ UNCHANGED <<ensVars, lost>>

\* A timeout or a broken connection, whatever became of the order.
Ambiguous(c) ==
  /\ pc[c] = "submit"
  /\ pc' = [pc EXCEPT ![c] = "reconcile"]
  /\ UNCHANGED <<delta, waited, holder, current, listing, resVars, ensVars, lost>>

\* (mutant) An order nobody could see counts as rejected.
ResolveForgets(c) ==
  /\ pc[c] = "reconcile"
  /\ Forgotten(current)
  /\ Return(c)
  /\ UNCHANGED <<ensVars, lost>>

\* awaitOpInstances ends: all, some or none found, or the context is dead.
\* Each outcome (accepted or uncertain) leaves the reservation in place.
Resolve(c) ==
  /\ pc[c] = "reconcile"
  /\ Return(c)
  /\ UNCHANGED <<resVars, ensVars, lost>>
-----------------------------------------------------------------------------
(* ENS, and the clock. *)

Becomes(S, state) == inst' = [i \in Instances |-> IF i \in S THEN state ELSE inst[i]]

EnsTake(op) ==
  /\ Undecided(op)
  /\ Becomes(ids[op], "hidden")
  /\ UNCHANGED <<callVars, resVars, ids, flight, lost>>

EnsRefuse(op) ==
  /\ Undecided(op)
  /\ Becomes(ids[op], "refused")
  /\ UNCHANGED <<callVars, resVars, ids, flight, lost>>

Appear(i) ==
  /\ inst[i] = "hidden"
  /\ Becomes({i}, "listed")
  /\ UNCHANGED <<callVars, resVars, ids, flight, lost>>

\* An accepted instance that never materialises.
Fail(i) ==
  /\ inst[i] = "hidden"
  /\ Becomes({i}, "gone")
  /\ UNCHANGED <<callVars, resVars, ids, flight, lost>>

\* DeleteNodes or the janitor releases a visible instance.
Release(i) ==
  /\ inst[i] = "listed"
  /\ Becomes({i}, "gone")
  /\ UNCHANGED <<callVars, resVars, ids, flight, lost>>

\* Identities are finite here: one that no reservation remembers is used again.
Recycle(i) ==
  /\ inst[i] \in {"refused", "gone"}
  /\ \A op \in reserved \cup {current} : op \in Ops => i \notin ids[op]
  /\ Becomes({i}, "free")
  /\ ids' = [op \in Ops |-> ids[op] \ {i}]
  /\ UNCHANGED <<callVars, resVars, flight, lost>>

\* age is not counted beyond what any expiry test can tell apart.
Tick ==
  /\ \A op \in Pending : flight[op] < VisWindow
  /\ \A c \in Callers : pc[c] # "idle" => waited[c] < MaxWait
  /\ waited' = [c \in Callers |-> IF pc[c] = "idle" THEN 0 ELSE waited[c] + 1]
  /\ age' = [op \in Ops |-> IF op \in reserved /\ age[op] < TTL + MaxWait
                            THEN age[op] + 1 ELSE age[op]]
  /\ flight' = [op \in Ops |-> IF op \in Pending THEN flight[op] + 1 ELSE 0]
  /\ UNCHANGED <<pc, delta, holder, current, listing, reserved, misses, ids,
                 inst, lost>>

\* The process dies, or its term ends and another replica serves: the map of
\* reservations is empty.  What was on the wire stays there, and a handler whose
\* term is over puts nothing more on it (orderBudget refuses a dead context).
Restart ==
  /\ lost + Cardinality(InWindow) <= MaxLost
  /\ lost' = lost + Cardinality(InWindow)
  /\ pc' = [c \in Callers |-> "idle"]
  /\ delta' = [c \in Callers |-> 0]
  /\ waited' = [c \in Callers |-> 0]
  /\ holder' = None /\ current' = None /\ listing' = {}
  /\ reserved' = {}
  /\ age' = [op \in Ops |-> 0]
  /\ misses' = [op \in Ops |-> 0]
  /\ UNCHANGED ensVars
-----------------------------------------------------------------------------
Handler(c) ==
  \/ Inventory(c) \/ InventoryFails(c)
  \/ Refuse(c) \/ Abandon(c)
  \/ \E op \in Ops, S \in SUBSET Instances : Submit(c, op, S)
  \/ Accepted(c) \/ Rejected(c) \/ Ambiguous(c) \/ Resolve(c)

Ens == \/ \E op \in Ops : EnsTake(op) \/ EnsRefuse(op)
       \/ \E i \in Instances : Appear(i) \/ Fail(i) \/ Release(i) \/ Recycle(i)

Next ==
  \/ \E c \in Callers : (\E n \in Deltas : Call(c, n)) \/ Acquire(c) \/ Handler(c)
  \/ Ens \/ Tick \/ Restart

Spec == Init /\ [][Next]_vars
-----------------------------------------------------------------------------
(* What makes it correct. *)

\* Between order.mu.Lock and the deferred unlock.
Critical == {"inventory", "guard", "submit", "reconcile"}

\* Types; and the lock is held only by a handler that is inside it, so no way
\* out of the critical section leaves it locked.
TypeOK ==
  /\ pc \in [Callers -> {"idle", "wait", "inventory", "guard", "submit", "reconcile"}]
  /\ delta \in [Callers -> Nat] /\ waited \in [Callers -> 0..MaxWait]
  /\ holder \in Callers \cup {None} /\ current \in Ops \cup {None}
  /\ listing \subseteq Instances /\ reserved \subseteq Ops
  /\ age \in [Ops -> 0..(TTL + MaxWait)] /\ misses \in [Ops -> Nat]
  /\ ids \in [Ops -> SUBSET Instances]
  /\ inst \in [Instances -> {"free", "ordered", "refused", "hidden", "listed", "gone"}]
  /\ flight \in [Ops -> 0..VisWindow] /\ lost \in 0..MaxLost
  /\ holder # None => pc[holder] \in Critical

\* The group never has more instances than its maximum, whatever ENS shows
\* and however calls interleave, except for those a restart hid from it.
Ceiling == Cardinality(Committed) <= Max + lost

\* The instances of reserved orders, and those that may come to exist and
\* that no guard can count.
Promised == UNION {ids[op] : op \in reserved}
Orphans  == InWindow \ Promised

\* An order that may still materialise keeps its reservation: a timeout, an
\* ambiguous answer or an expiry never gives its headroom away.
InFlightReserved == Cardinality(Orphans) <= lost

\* A call is refused only when the listing and the reservations, each
\* instance counted once, leave no room for it.
RefusalJustified ==
  [][\A c \in Callers : Refuse(c) =>
       Cardinality(listing \cup Promised) + delta[c] > Max]_vars

\* The guarded path implements the ledger.
Ledger == INSTANCE OrderLedger WITH committed <- Committed, allowance <- Max + lost
LedgerSpec == Ledger!LSpec

-----------------------------------------------------------------------------
(* Liveness. *)

\* sync.Mutex does not starve a waiter, each SDK call has its timeouts, ENS
\* decides an order, time passes, and the autoscaler keeps calling while
\* pods are pending, with inventories that do not fail for ever.
Fairness ==
  /\ \A c \in Callers : /\ SF_vars(Acquire(c)) /\ WF_vars(Handler(c))
                         /\ SF_vars(Inventory(c))
                         /\ WF_vars(\E n \in Deltas : Call(c, n))
  /\ \A op \in Ops : WF_vars(EnsTake(op) \/ EnsRefuse(op))
  /\ \A i \in Instances : WF_vars(Appear(i) \/ Fail(i))
  /\ SF_vars(Tick)

FairSpec == Spec /\ Fairness

\* Every call returns, although the lock is held across calls to ENS.
CallsReturn == \A c \in Callers : pc[c] # "idle" ~> pc[c] = "idle"

HoldsNothing(op) == op \in reserved /\ \A i \in ids[op] : inst[i] \in {"refused", "gone"}

\* The headroom of an order that came to nothing is given back.
LostOrderFrees == \A op \in Ops : HoldsNothing(op) ~> op \notin reserved

\* "A stale reservation causes temporary UNDER-scaling" (reservations.go:20):
\* headroom held for an instance that is gone is given back in the end.
StaleReservationTemporary ==
  \A op \in Ops : (op \in reserved /\ \E i \in ids[op] : inst[i] = "gone")
                     ~> op \notin reserved
=============================================================================
