-------------------------- MODULE OrderGuardProofs --------------------------
(***************************************************************************)
(* The order guard is correct for every number of callers, orders and      *)
(* instances, every maximum and every timing that satisfies                *)
(* OrderGuardAssumption.                                                   *)
(*                                                                         *)
(* Ceiling is not inductive.  What makes it so is what the holder of the   *)
(* lock knows between its inventory and its submit: everything committed   *)
(* is in its listing or belongs to a reserved order, but for what restarts *)
(* hid (SnapshotOK), and an order old enough to expire has nothing left to *)
(* show (AgesOK, which is where the timing assumption enters).             *)
(***************************************************************************)
EXTENDS OrderGuard, FiniteSetTheorems, TLAPS

\* One holder of the order lock, who knows the order it submitted.
LockOK ==
  \A c \in Callers : /\ pc[c] \in Critical => holder = c
                     /\ pc[c] = "submit" => current \in Ops

\* Orders share no instance, and ENS decides an order as a whole.
NamesOK ==
  \A op \in Ops : \A i \in ids[op] :
    /\ inst[i] # "free"
    /\ \A o \in Ops : i \in ids[o] => o = op
    /\ \A j \in ids[op] : inst[i] \in {"ordered", "refused"} => inst[j] = inst[i]

\* A reservation is older than its order by at most the caller's budget.
AgesOK ==
  \A op \in Ops : op \in Pending /\ op \in reserved => age[op] <= flight[op] + CallBudget

\* What the listing in hand leaves out is reserved, recent, or lost.
SnapshotOK ==
  \A c \in Callers : pc[c] = "guard" =>
    /\ listing \cap InWindow = {}
    /\ \A op \in reserved : (ids[op] \cap Committed) \ listing # {}
                               => age[op] - waited[c] < TTL
    /\ Cardinality(Committed \ (listing \cup Promised)) <= lost

IInv == /\ TypeOK /\ LockOK /\ NamesOK /\ AgesOK /\ SnapshotOK
        /\ InFlightReserved /\ Ceiling
-----------------------------------------------------------------------------
(* Sets of instances. *)

\* A set of instances is finite, and a part of it is not larger.
LEMMA CardLe ==
  ASSUME NEW T \in SUBSET Instances, NEW S \in SUBSET T
  PROVE  /\ IsFiniteSet(S) /\ IsFiniteSet(T)
         /\ Cardinality(S) \in Nat /\ Cardinality(T) \in Nat
         /\ Cardinality(S) <= Cardinality(T)
  <1>1. IsFiniteSet(T)
    BY OrderGuardAssumption, FS_Subset DEF OrderGuardAssumption
  <1>2. IsFiniteSet(S) /\ Cardinality(S) <= Cardinality(T)
    BY <1>1, FS_Subset
  <1> QED BY <1>1, <1>2, FS_CardinalityType

\* Two sets of instances have together at most the sum of their sizes.
LEMMA CardUnion ==
  ASSUME NEW S \in SUBSET Instances, NEW T \in SUBSET Instances
  PROVE  Cardinality(S \cup T) <= Cardinality(S) + Cardinality(T)
  <1>1. IsFiniteSet(S) /\ IsFiniteSet(T)
    BY CardLe
  <1>2. Cardinality(S \cup T) =
          Cardinality(S) + Cardinality(T) - Cardinality(S \cap T)
    BY <1>1, FS_Union
  <1>3. Cardinality(S \cap T) \in Nat /\ Cardinality(S) \in Nat /\ Cardinality(T) \in Nat
    <2>1. S \cap T \in SUBSET S
      OBVIOUS
    <2> QED BY <2>1, CardLe
  <1> QED BY <1>2, <1>3
-----------------------------------------------------------------------------
(* Types. *)

LEMMA TypeInit == Init => TypeOK
  BY OrderGuardAssumption DEF OrderGuardAssumption, Init, TypeOK

LEMMA WindowType ==
  /\ InWindow \subseteq Instances /\ Listed \subseteq Instances
  /\ Committed \subseteq Instances
  /\ Cardinality(InWindow) \in Nat
  <1>1. InWindow \subseteq Instances /\ Listed \subseteq Instances
    BY DEF InWindow, Listed
  <1> QED BY <1>1, CardLe DEF Committed

\* Reconciling the reservations keeps their fields in range.
LEMMA ReconciledType ==
  ASSUME TypeOK, NEW c \in Callers
  PROVE  /\ Kept(c) \subseteq reserved
         /\ \A op \in Ops : MissesAfter(c, op) \in Nat
  BY OrderGuardAssumption DEF OrderGuardAssumption, TypeOK, Kept, MissesAfter

LEMMA TypeStep == TypeOK /\ [Next]_vars => TypeOK'
  <1> SUFFICES ASSUME TypeOK, [Next]_vars PROVE TypeOK'
    OBVIOUS
  <1> USE OrderGuardAssumption DEF OrderGuardAssumption, TypeOK, Critical
  <1>1. ASSUME NEW c \in Callers, NEW n \in Deltas, Call(c, n) PROVE TypeOK'
    BY <1>1 DEF Call, resVars, ensVars
  <1>2. ASSUME NEW c \in Callers, Acquire(c) PROVE TypeOK'
    BY <1>2 DEF Acquire, resVars, ensVars
  <1>3. ASSUME NEW c \in Callers, Handler(c) PROVE TypeOK'
    <2>1. CASE Inventory(c)
      BY <2>1, WindowType DEF Inventory, resVars, ensVars
    <2>2. CASE InventoryFails(c) \/ Accepted(c) \/ Resolve(c)
      BY <2>2 DEF InventoryFails, Accepted, Resolve, Return, resVars, ensVars
    <2>3. CASE Refuse(c) \/ Abandon(c)
      <3>1. /\ Reconciled(c) /\ Return(c) /\ UNCHANGED <<ensVars, lost>>
        BY <2>3 DEF Refuse, Abandon
      <3> QED BY <3>1, ReconciledType DEF Reconciled, Return, ensVars
    <2>4. ASSUME NEW op \in Ops, NEW S \in SUBSET Instances, Submit(c, op, S)
          PROVE  TypeOK'
      <3>1. /\ reserved' \subseteq Ops
            /\ age' \in [Ops -> 0..(TTL + MaxWait)]
            /\ misses' \in [Ops -> Nat]
        BY <2>4, ReconciledType DEF Submit
      <3>2. /\ ids' \in [Ops -> SUBSET Instances]
            /\ inst' \in [Instances -> {"free", "ordered", "refused", "hidden", "listed", "gone"}]
            /\ flight' \in [Ops -> 0..VisWindow]
        BY <2>4 DEF Submit
      <3> QED BY <2>4, <3>1, <3>2 DEF Submit
    <2>5. CASE Rejected(c)
      <3>1. age' = [age EXCEPT ![current] = 0] /\ misses' = [misses EXCEPT ![current] = 0]
        BY <2>5 DEF Rejected, Forgotten
      <3>2. 0 \in 0..(TTL + MaxWait) /\ 0 \in Nat
        OBVIOUS
      <3>3. age' \in [Ops -> 0..(TTL + MaxWait)] /\ misses' \in [Ops -> Nat]
        BY <3>1, <3>2
      <3>4. reserved' \subseteq Ops
        BY <2>5 DEF Rejected, Forgotten
      <3> QED BY <2>5, <3>3, <3>4 DEF Rejected, Return, ensVars
    <2>6. CASE Ambiguous(c)
      BY <2>6 DEF Ambiguous, resVars, ensVars
    <2> QED BY <1>3, <2>1, <2>2, <2>3, <2>4, <2>5, <2>6 DEF Handler
  <1>4. ASSUME Ens PROVE TypeOK'
    <2>1. ASSUME NEW op \in Ops, EnsTake(op) \/ EnsRefuse(op) PROVE TypeOK'
      BY <2>1 DEF EnsTake, EnsRefuse, Becomes, callVars, resVars
    <2>2. ASSUME NEW i \in Instances, Appear(i) \/ Fail(i) \/ Release(i) PROVE TypeOK'
      BY <2>2 DEF Appear, Fail, Release, Becomes, callVars, resVars
    <2>3. ASSUME NEW i \in Instances, Recycle(i) PROVE TypeOK'
      BY <2>3 DEF Recycle, Becomes, callVars, resVars
    <2> QED BY <1>4, <2>1, <2>2, <2>3 DEF Ens
  <1>5. ASSUME Tick PROVE TypeOK'
    BY <1>5 DEF Tick
  <1>6. ASSUME Restart PROVE TypeOK'
    BY <1>6, WindowType DEF Restart, ensVars
  <1>7. CASE UNCHANGED vars
    BY <1>7 DEF vars, callVars, resVars, ensVars
  <1> QED BY <1>1, <1>2, <1>3, <1>4, <1>5, <1>6, <1>7 DEF Next

\* Every field of the order state keeps to its type, in every behaviour.
THEOREM TypeCorrect == Spec => []TypeOK
  BY TypeInit, TypeStep, PTL DEF Spec
-----------------------------------------------------------------------------
(* The inductive invariant. *)

LEMMA InvInit == Init => IInv
  <1> SUFFICES ASSUME Init PROVE IInv
    OBVIOUS
  <1>1. InWindow = {} /\ Orphans = {} /\ Committed = Listed
    BY DEF Init, InWindow, Orphans, Committed
  <1>2. InFlightReserved /\ Ceiling
    BY <1>1, FS_EmptySet, WindowType, CardLe, OrderGuardAssumption
    DEF Init, InFlightReserved, Ceiling, OrderGuardAssumption
  <1>3. LockOK /\ NamesOK /\ AgesOK /\ SnapshotOK
    BY DEF Init, LockOK, NamesOK, AgesOK, SnapshotOK, Critical
  <1> QED BY <1>2, <1>3, TypeInit DEF IInv

\* A step that touches neither the orders nor the reservations, and leaves
\* whoever is at the guard what it knows.
LEMMA QuietStep ==
  ASSUME IInv, UNCHANGED <<resVars, ensVars, lost>>,
         \A c \in Callers : pc'[c] = "guard" =>
           pc[c] = "guard" /\ listing' = listing /\ waited'[c] = waited[c]
  PROVE  NamesOK' /\ AgesOK' /\ SnapshotOK' /\ InFlightReserved' /\ Ceiling'
  <1> USE DEF IInv, resVars, ensVars
  <1>1. InWindow' = InWindow /\ Committed' = Committed /\ Promised' = Promised
        /\ Pending' = Pending /\ Orphans' = Orphans
    BY DEF InWindow, Listed, Committed, Promised, Pending, Orphans
  <1>2. NamesOK'
    BY DEF NamesOK
  <1>3. AgesOK'
    BY <1>1 DEF AgesOK
  <1>4. SnapshotOK'
    BY <1>1 DEF SnapshotOK
  <1>5. InFlightReserved' /\ Ceiling'
    BY <1>1 DEF InFlightReserved, Ceiling
  <1> QED BY <1>2, <1>3, <1>4, <1>5

\* Return gives up the lock; nobody else was at the guard.
LEMMA ReturnFrame ==
  ASSUME IInv, NEW c \in Callers, pc[c] \in Critical, Return(c)
  PROVE  /\ LockOK'
         /\ \A d \in Callers : pc'[d] # "guard"
  BY DEF IInv, TypeOK, LockOK, Return, Critical

LEMMA CallInv ==
  ASSUME IInv, NEW c \in Callers, NEW n \in Deltas, Call(c, n)
  PROVE  IInv'
  <1>1. TypeOK'
    BY TypeStep DEF IInv, Next
  <1>2. LockOK'
    BY DEF IInv, TypeOK, LockOK, Call, Critical
  <1>3. \A d \in Callers : pc'[d] = "guard" =>
          pc[d] = "guard" /\ listing' = listing /\ waited'[d] = waited[d]
    BY DEF IInv, TypeOK, Call
  <1> QED BY <1>1, <1>2, <1>3, QuietStep DEF IInv, Call

LEMMA AcquireInv ==
  ASSUME IInv, NEW c \in Callers, Acquire(c)
  PROVE  IInv'
  <1>1. TypeOK'
    BY TypeStep DEF IInv, Next
  <1>2. LockOK'
    BY OrderGuardAssumption DEF IInv, TypeOK, LockOK, Acquire, Critical, OrderGuardAssumption
  <1>3. \A d \in Callers : pc'[d] = "guard" =>
          pc[d] = "guard" /\ listing' = listing /\ waited'[d] = waited[d]
    BY DEF IInv, TypeOK, Acquire
  <1> QED BY <1>1, <1>2, <1>3, QuietStep DEF IInv, Acquire

\* The returns that leave the reservations as they are.
LEMMA PlainReturnInv ==
  ASSUME IInv, NEW c \in Callers, InventoryFails(c) \/ Accepted(c) \/ Resolve(c)
  PROVE  IInv'
  <1>1. TypeOK'
    BY TypeStep DEF IInv, Next, Handler
  <1>2. pc[c] \in Critical /\ Return(c) /\ UNCHANGED <<resVars, ensVars, lost>>
    BY DEF InventoryFails, Accepted, Resolve, Critical
  <1>3. LockOK' /\ \A d \in Callers : pc'[d] # "guard"
    BY <1>2, ReturnFrame
  <1> QED BY <1>1, <1>2, <1>3, QuietStep DEF IInv

LEMMA AmbiguousInv ==
  ASSUME IInv, NEW c \in Callers, Ambiguous(c)
  PROVE  IInv'
  <1>1. TypeOK'
    BY TypeStep DEF IInv, Next, Handler
  <1>2. LockOK'
    BY DEF IInv, TypeOK, LockOK, Ambiguous, Critical
  <1>3. \A d \in Callers : pc'[d] = "guard" =>
          pc[d] = "guard" /\ listing' = listing /\ waited'[d] = waited[d]
    BY DEF IInv, TypeOK, Ambiguous
  <1> QED BY <1>1, <1>2, <1>3, QuietStep DEF IInv, Ambiguous

\* What a listing leaves out was in the window when it was taken.
LEMMA InventoryInv ==
  ASSUME IInv, NEW c \in Callers, Inventory(c)
  PROVE  IInv'
  <1>1. TypeOK'
    BY TypeStep DEF IInv, Next, Handler
  <1>2. LockOK'
    BY DEF IInv, TypeOK, LockOK, Inventory, Critical
  <1>3. /\ InWindow' = InWindow /\ Committed' = Committed /\ Promised' = Promised
        /\ Pending' = Pending /\ Orphans' = Orphans /\ Listed' = Listed
    BY DEF Inventory, resVars, ensVars, InWindow, Listed, Committed, Promised, Pending, Orphans
  <1>4. NamesOK' /\ AgesOK' /\ InFlightReserved' /\ Ceiling'
    BY <1>3 DEF IInv, NamesOK, AgesOK, InFlightReserved, Ceiling, Inventory, resVars, ensVars
  <1>5. SnapshotOK'
    <2> SUFFICES ASSUME NEW d \in Callers, pc'[d] = "guard"
                 PROVE  /\ listing' \cap InWindow = {}
                        /\ \A op \in reserved : (ids[op] \cap Committed) \ listing' # {}
                                                   => age[op] - waited[d] < TTL
                        /\ Cardinality(Committed \ (listing' \cup Promised)) <= lost
      BY <1>3 DEF SnapshotOK, Inventory, resVars, ensVars
    <2>1. listing' = Listed /\ Listed \cap InWindow = {}
      BY DEF Inventory, Listed, InWindow
    <2>2. Committed \ (listing' \cup Promised) = Orphans
      BY <2>1 DEF Committed, Orphans
    <2>3. ASSUME NEW op \in reserved, (ids[op] \cap Committed) \ listing' # {}
          PROVE  age[op] - waited[d] < TTL
      <3>1. op \in Ops /\ op \in Pending
        BY <2>1, <2>3 DEF IInv, TypeOK, Pending, Committed
      <3>2. age[op] <= flight[op] + CallBudget
        BY <3>1, <2>3 DEF IInv, AgesOK
      <3> QED BY <3>1, <3>2, OrderGuardAssumption DEF IInv, TypeOK, OrderGuardAssumption
    <2> QED BY <2>1, <2>2, <2>3 DEF IInv, InFlightReserved
  <1> QED BY <1>1, <1>2, <1>4, <1>5 DEF IInv
-----------------------------------------------------------------------------
(* What the guard computes. *)

\* A reservation that is dropped as filled or expired covers nothing that the
\* listing does not show.
LEMMA DroppedCoverNothing ==
  ASSUME IInv, NEW c \in Callers, pc[c] = "guard",
         NEW op \in reserved, op \notin Kept(c)
  PROVE  ids[op] \cap Committed \subseteq listing
  <1>1. CASE op \in Filled
    BY <1>1 DEF Filled
  <1>2. CASE op \in Expired(c)
    <2>1. ~(age[op] - waited[c] < TTL)
      BY <1>2, OrderGuardAssumption DEF Expired, IInv, TypeOK, OrderGuardAssumption, Absent
    <2> QED BY <2>1 DEF IInv, SnapshotOK
  <1> QED BY <1>1, <1>2 DEF Kept

\* The effective count accounts for everything but what restarts hid.
LEMMA GuardKnows ==
  ASSUME IInv, NEW c \in Callers, pc[c] = "guard"
  PROVE  /\ Effective(c) \in Nat
         /\ Cardinality(Committed) <= Effective(c) + lost
         /\ InWindow \ UNION {ids[op] : op \in Kept(c)} \subseteq Orphans
  <1> DEFINE Unknown == Committed \ (listing \cup Promised)
  <1>1. /\ listing \in SUBSET Instances /\ Outstanding(c) \in SUBSET Instances
        /\ Unknown \in SUBSET Instances /\ Committed \in SUBSET Instances
    BY WindowType DEF IInv, TypeOK, Outstanding, Kept
  <1>2. Committed \subseteq (listing \cup Outstanding(c)) \cup Unknown
    BY DroppedCoverNothing DEF Promised, Outstanding
  <1>3. Cardinality(Unknown) <= lost
    BY DEF IInv, SnapshotOK
  <1>4. /\ Cardinality(listing) \in Nat /\ Cardinality(Outstanding(c)) \in Nat
        /\ Cardinality(Unknown) \in Nat /\ Cardinality(Committed) \in Nat
        /\ Cardinality(listing \cup Outstanding(c)) \in Nat
        /\ Cardinality((listing \cup Outstanding(c)) \cup Unknown) \in Nat
    <2> HIDE DEF Unknown
    <2> QED BY <1>1, CardLe
  <1>5. Cardinality(Committed) <= Cardinality((listing \cup Outstanding(c)) \cup Unknown)
    <2> HIDE DEF Unknown
    <2> QED BY <1>1, <1>2, CardLe
  <1>6. Cardinality((listing \cup Outstanding(c)) \cup Unknown)
          <= Cardinality(listing) + Cardinality(Outstanding(c)) + Cardinality(Unknown)
    <2> HIDE DEF Unknown
    <2>1. Cardinality((listing \cup Outstanding(c)) \cup Unknown)
            <= Cardinality(listing \cup Outstanding(c)) + Cardinality(Unknown)
      BY <1>1, CardUnion
    <2>2. Cardinality(listing \cup Outstanding(c))
            <= Cardinality(listing) + Cardinality(Outstanding(c))
      BY <1>1, CardUnion
    <2> QED BY <2>1, <2>2, <1>4
  <1>7. Cardinality(Committed) <= Effective(c) + lost
    <2> HIDE DEF Unknown
    <2> QED BY <1>3, <1>4, <1>5, <1>6 DEF Effective, IInv, TypeOK
  <1>8. InWindow \ UNION {ids[op] : op \in Kept(c)} \subseteq Orphans
    <2> SUFFICES ASSUME NEW i \in InWindow, i \in Promised,
                        i \notin UNION {ids[op] : op \in Kept(c)}
                 PROVE  FALSE
      BY DEF Orphans
    <2>1. PICK op \in reserved : i \in ids[op] /\ op \notin Kept(c)
      BY DEF Promised
    <2>2. i \in listing
      BY <2>1, DroppedCoverNothing DEF Committed
    <2> QED BY <2>2 DEF IInv, SnapshotOK
  <1> QED BY <1>4, <1>7, <1>8 DEF Effective

\* Fewer orphans are no more orphans.
LEMMA FewerOrphans ==
  ASSUME IInv, TypeOK', Orphans' \subseteq Orphans, lost' = lost
  PROVE  InFlightReserved'
  <1>1. Orphans \in SUBSET Instances /\ Orphans' \in SUBSET Instances
    BY WindowType DEF Orphans
  <1>2. Cardinality(Orphans') <= Cardinality(Orphans) /\ Cardinality(Orphans') \in Nat
        /\ Cardinality(Orphans) \in Nat
    BY <1>1, CardLe
  <1> QED BY <1>2 DEF IInv, TypeOK, InFlightReserved

\* A call refused or abandoned at the guard leaves the reconciled reservations.
LEMMA GuardReturnInv ==
  ASSUME IInv, NEW c \in Callers, Refuse(c) \/ Abandon(c)
  PROVE  IInv'
  <1>1. TypeOK'
    BY TypeStep DEF IInv, Next, Handler
  <1>2. pc[c] = "guard" /\ Reconciled(c) /\ Return(c) /\ UNCHANGED <<ensVars, lost>>
    BY DEF Refuse, Abandon
  <1>3. LockOK' /\ \A d \in Callers : pc'[d] # "guard"
    BY <1>2, ReturnFrame DEF Critical
  <1>4. NamesOK' /\ SnapshotOK'
    BY <1>2, <1>3 DEF IInv, NamesOK, SnapshotOK, ensVars
  <1>5. InWindow' = InWindow /\ Committed' = Committed /\ Pending' = Pending
    BY <1>2 DEF InWindow, Listed, Committed, Pending, ensVars
  <1>6. AgesOK'
    BY <1>2, <1>5, ReconciledType DEF IInv, TypeOK, AgesOK, Reconciled, ensVars
  <1>7. InFlightReserved'
    <2>1. Orphans' = InWindow \ UNION {ids[op] : op \in Kept(c)}
      BY <1>2, <1>5 DEF Orphans, Promised, Reconciled, ensVars
    <2> QED BY <1>1, <1>2, <2>1, GuardKnows, FewerOrphans
  <1>8. Ceiling'
    BY <1>2, <1>5 DEF IInv, Ceiling
  <1> QED BY <1>1, <1>3, <1>4, <1>6, <1>7, <1>8 DEF IInv

\* The order that passes the guard fits, and is reserved.
LEMMA SubmitInv ==
  ASSUME IInv, NEW c \in Callers, NEW op \in Ops, NEW S \in SUBSET Instances,
         Submit(c, op, S)
  PROVE  /\ IInv'
         /\ S \cap Committed = {} /\ Committed' = Committed \cup S
         /\ Cardinality(Committed \cup S) <= Max + lost
  <1>1. TypeOK'
    BY TypeStep DEF IInv, Next, Handler
  <1>2. \A d \in Callers : pc'[d] = "submit" => d = c
    BY DEF IInv, TypeOK, LockOK, Submit, Critical
  <1>3. LockOK' /\ \A d \in Callers : pc'[d] # "guard"
    BY <1>2 DEF IInv, TypeOK, LockOK, Submit, Critical
  <1>4. SnapshotOK'
    BY <1>3 DEF SnapshotOK
  <1>5. /\ \A i \in S : inst[i] = "free" /\ inst'[i] = "ordered"
        /\ \A i \in Instances \ S : inst'[i] = inst[i]
        /\ ids'[op] = S /\ ids[op] = {}
        /\ \A o \in Ops \ {op} : ids'[o] = ids[o]
    BY DEF IInv, TypeOK, Submit, Fresh
  <1>6. \A o \in Ops : ids[o] \cap S = {}
    BY <1>5 DEF IInv, NamesOK
  <1>7. NamesOK'
    <2> SUFFICES ASSUME NEW o \in Ops, NEW i \in ids'[o]
                 PROVE  /\ inst'[i] # "free"
                        /\ \A q \in Ops : i \in ids'[q] => q = o
                        /\ \A j \in ids'[o] : inst'[i] \in {"ordered", "refused"}
                                                  => inst'[j] = inst'[i]
      BY DEF NamesOK
    <2>1. CASE o = op
      BY <2>1, <1>5, <1>6
    <2>2. CASE o # op
      <3>1. i \in ids[o] /\ ids[o] \subseteq Instances \ S
        BY <2>2, <1>5, <1>6 DEF IInv, TypeOK
      <3> QED BY <2>2, <3>1, <1>5 DEF IInv, NamesOK
    <2> QED BY <2>1, <2>2
  <1>8. InWindow' = InWindow \cup S /\ Committed' = Committed \cup S /\ S \cap Committed = {}
    <2>1. InWindow' = InWindow \cup S /\ Listed' = Listed
      BY <1>5 DEF InWindow, Listed
    <2> QED BY <2>1, <1>5 DEF Committed, InWindow, Listed
  <1>9. AgesOK'
    <2> SUFFICES ASSUME NEW o \in Ops, o \in Pending', o \in reserved'
                 PROVE  age'[o] <= flight'[o] + CallBudget
      BY DEF AgesOK
    <2>1. CASE o = op
      BY <2>1, OrderGuardAssumption DEF Submit, IInv, TypeOK, OrderGuardAssumption
    <2>2. CASE o # op
      <3>1. o \in Pending /\ o \in Kept(c) /\ o \in reserved
        BY <2>2, <1>5, <1>6, <1>8 DEF Pending, Submit, Kept
      <3>2. age'[o] = age[o] /\ flight'[o] = flight[o]
        BY <2>2, <3>1 DEF Submit, IInv, TypeOK
      <3> QED BY <3>1, <3>2 DEF IInv, AgesOK
    <2> QED BY <2>1, <2>2
  <1>10. InFlightReserved'
    <2>1. Orphans' \subseteq InWindow \ UNION {ids[o] : o \in Kept(c)}
      <3> SUFFICES ASSUME NEW i \in Orphans'
                   PROVE  i \in InWindow /\ \A o \in Kept(c) : i \notin ids[o]
        OBVIOUS
      <3>1. i \in InWindow' /\ \A o \in reserved' : i \notin ids'[o]
        BY DEF Orphans, Promised
      <3>2. i \notin S /\ \A o \in Kept(c) : i \notin ids'[o]
        BY <3>1, <1>5 DEF Submit
      <3> QED BY <3>1, <3>2, <1>5, <1>8, ReconciledType DEF IInv, TypeOK
    <2> QED BY <1>1, <2>1, GuardKnows, FewerOrphans DEF Submit
  <1>11. Cardinality(Committed \cup S) <= Max + lost
    <2>1. Cardinality(Committed \cup S) <= Cardinality(Committed) + Cardinality(S)
      BY CardUnion, WindowType
    <2>2. Cardinality(Committed) <= Effective(c) + lost /\ Effective(c) \in Nat
      BY GuardKnows DEF Submit
    <2>3. Effective(c) + Cardinality(S) <= Max
      BY DEF Submit, Fits
    <2>4. Cardinality(Committed) \in Nat /\ Cardinality(S) \in Nat
          /\ Cardinality(Committed \cup S) \in Nat
      BY WindowType, CardLe
    <2> QED BY <2>1, <2>2, <2>3, <2>4, OrderGuardAssumption
            DEF OrderGuardAssumption, IInv, TypeOK
  <1>12. Ceiling'
    BY <1>8, <1>11 DEF Ceiling, Submit
  <1> QED BY <1>1, <1>3, <1>4, <1>7, <1>8, <1>9, <1>10, <1>11, <1>12 DEF IInv

\* A rejected order has nothing in the window: its reservation may go.
LEMMA RejectedInv ==
  ASSUME IInv, NEW c \in Callers, Rejected(c)
  PROVE  IInv'
  <1>1. TypeOK'
    BY TypeStep DEF IInv, Next, Handler
  <1>2. /\ pc[c] = "submit" /\ Refused(current) /\ Forgotten(current) /\ Return(c)
        /\ UNCHANGED <<ensVars, lost>>
    BY DEF Rejected
  <1>3. LockOK' /\ \A d \in Callers : pc'[d] # "guard"
    BY <1>2, ReturnFrame DEF Critical
  <1>4. NamesOK' /\ SnapshotOK'
    BY <1>2, <1>3 DEF IInv, NamesOK, SnapshotOK, ensVars
  <1>5. InWindow' = InWindow /\ Committed' = Committed /\ Pending' = Pending
    BY <1>2 DEF InWindow, Listed, Committed, Pending, ensVars
  <1>6. AgesOK'
    BY <1>2, <1>5 DEF IInv, TypeOK, AgesOK, Forgotten, ensVars
  <1>7. current \in Ops
    BY <1>2 DEF IInv, LockOK
  <1>8. ids[current] \cap InWindow = {}
    BY <1>2, <1>7 DEF Refused, IInv, NamesOK, InWindow
  <1>9. InFlightReserved'
    <2>1. Orphans' \subseteq Orphans
      BY <1>2, <1>5, <1>8 DEF Orphans, Promised, Forgotten, ensVars
    <2> QED BY <1>1, <1>2, <2>1, FewerOrphans
  <1>10. Ceiling'
    BY <1>2, <1>5 DEF IInv, Ceiling
  <1> QED BY <1>1, <1>3, <1>4, <1>6, <1>9, <1>10 DEF IInv
-----------------------------------------------------------------------------
(* ENS, the clock and the restart. *)

\* A step of ENS only takes instances out of the window or out of existence.
LEMMA ShrinkStep ==
  ASSUME IInv, TypeOK', NamesOK', UNCHANGED <<callVars, resVars, flight, lost>>,
         InWindow' \subseteq InWindow, Committed' \subseteq Committed,
         \A op \in Ops : ids'[op] \subseteq ids[op],
         \A op \in reserved : ids'[op] = ids[op]
  PROVE  IInv'
  <1>1. LockOK'
    BY DEF IInv, LockOK, callVars
  <1>2. Promised' = Promised
    BY DEF Promised, resVars
  <1>3. AgesOK'
    BY DEF IInv, AgesOK, Pending, resVars
  <1>4. SnapshotOK'
    <2> SUFFICES ASSUME NEW c \in Callers, pc[c] = "guard"
                 PROVE  /\ listing \cap InWindow' = {}
                        /\ \A op \in reserved : (ids'[op] \cap Committed') \ listing # {}
                                                   => age[op] - waited[c] < TTL
                        /\ Cardinality(Committed' \ (listing \cup Promised)) <= lost
      BY <1>2 DEF SnapshotOK, callVars, resVars
    <2> DEFINE Was == Committed \ (listing \cup Promised)
               Is  == Committed' \ (listing \cup Promised)
    <2>1. Was \in SUBSET Instances /\ Is \in SUBSET Was /\ Cardinality(Was) <= lost
      BY WindowType DEF IInv, SnapshotOK
    <2>2. Cardinality(Is) <= lost
      <3> HIDE DEF Was, Is
      <3>1. Cardinality(Is) <= Cardinality(Was) /\ Cardinality(Is) \in Nat
            /\ Cardinality(Was) \in Nat
        BY <2>1, CardLe
      <3> QED BY <2>1, <3>1 DEF IInv, TypeOK
    <2> QED BY <2>2 DEF IInv, SnapshotOK
  <1>5. InFlightReserved'
    BY <1>2, FewerOrphans DEF Orphans
  <1>6. Ceiling'
    <2>1. /\ Cardinality(Committed') <= Cardinality(Committed)
          /\ Cardinality(Committed') \in Nat /\ Cardinality(Committed) \in Nat
      BY WindowType, CardLe
    <2> QED BY <2>1, OrderGuardAssumption DEF IInv, Ceiling, TypeOK, OrderGuardAssumption
  <1> QED BY <1>1, <1>3, <1>4, <1>5, <1>6 DEF IInv

LEMMA EnsInv ==
  ASSUME IInv, Ens
  PROVE  IInv'
  <1>1. TypeOK'
    BY TypeStep DEF IInv, Next
  <1> USE <1>1 DEF IInv, TypeOK, Becomes
  <1>2. ASSUME NEW op \in Ops, EnsTake(op) \/ EnsRefuse(op)
        PROVE  IInv'
    <2>1. \A i \in ids[op] : inst[i] = "ordered"
      BY <1>2 DEF EnsTake, EnsRefuse, Undecided, NamesOK
    <2>2. PICK state \in {"hidden", "refused"} :
            inst' = [i \in Instances |-> IF i \in ids[op] THEN state ELSE inst[i]]
      BY <1>2 DEF EnsTake, EnsRefuse
    <2>3. UNCHANGED <<callVars, resVars, ids, flight, lost>>
      BY <1>2 DEF EnsTake, EnsRefuse
    <2>4. NamesOK'
      <3> SUFFICES ASSUME NEW o \in Ops, NEW i \in ids[o]
                   PROVE  /\ inst'[i] # "free"
                          /\ \A q \in Ops : i \in ids[q] => q = o
                          /\ \A j \in ids[o] : inst'[i] \in {"ordered", "refused"}
                                                    => inst'[j] = inst'[i]
        BY <2>3 DEF NamesOK
      <3>1. CASE o = op
        BY <3>1, <2>2 DEF NamesOK
      <3>2. CASE o # op
        <4>1. \A j \in ids[o] : j \in Instances /\ inst'[j] = inst[j]
          BY <3>2, <2>2 DEF NamesOK
        <4> QED BY <4>1 DEF NamesOK
      <3> QED BY <3>1, <3>2
    <2>5. InWindow' \subseteq InWindow /\ Committed' \subseteq Committed
      BY <2>1, <2>2 DEF InWindow, Listed, Committed
    <2> QED BY <2>3, <2>4, <2>5, ShrinkStep
  <1>3. ASSUME NEW i \in Instances, Appear(i) \/ Fail(i) \/ Release(i)
        PROVE  IInv'
    <2>1. PICK state \in {"listed", "gone"} :
            inst' = [k \in Instances |-> IF k = i THEN state ELSE inst[k]]
      BY <1>3 DEF Appear, Fail, Release
    <2>2. inst[i] \in {"hidden", "listed"} /\ UNCHANGED <<callVars, resVars, ids, flight, lost>>
      BY <1>3 DEF Appear, Fail, Release
    <2>3. NamesOK'
      BY <2>1, <2>2 DEF NamesOK
    <2>4. InWindow' \subseteq InWindow /\ Committed' \subseteq Committed
      BY <2>1, <2>2 DEF InWindow, Listed, Committed
    <2> QED BY <2>2, <2>3, <2>4, ShrinkStep
  <1>4. ASSUME NEW i \in Instances, Recycle(i)
        PROVE  IInv'
    <2>1. /\ inst[i] \in {"refused", "gone"} /\ UNCHANGED <<callVars, resVars, flight, lost>>
          /\ inst' = [k \in Instances |-> IF k = i THEN "free" ELSE inst[k]]
          /\ ids' = [o \in Ops |-> ids[o] \ {i}]
          /\ \A o \in reserved : i \notin ids[o]
      BY <1>4 DEF Recycle
    <2>2. NamesOK'
      BY <2>1 DEF NamesOK
    <2>3. InWindow' \subseteq InWindow /\ Committed' \subseteq Committed
      BY <2>1 DEF InWindow, Listed, Committed
    <2>4. /\ \A o \in Ops : ids'[o] \subseteq ids[o]
          /\ \A o \in reserved : ids'[o] = ids[o]
      BY <2>1
    <2> QED BY <2>1, <2>2, <2>3, <2>4, ShrinkStep
  <1> QED BY <1>2, <1>3, <1>4 DEF Ens

LEMMA TickInv ==
  ASSUME IInv, Tick
  PROVE  IInv'
  <1>1. TypeOK'
    BY TypeStep DEF IInv, Next
  <1>2. /\ InWindow' = InWindow /\ Committed' = Committed /\ Promised' = Promised
        /\ Pending' = Pending /\ Orphans' = Orphans
    BY DEF Tick, InWindow, Listed, Committed, Promised, Pending, Orphans
  <1>3. LockOK' /\ NamesOK' /\ InFlightReserved' /\ Ceiling'
    BY <1>2 DEF Tick, IInv, LockOK, NamesOK, InFlightReserved, Ceiling
  <1>4. AgesOK'
    <2> SUFFICES ASSUME NEW op \in Ops, op \in Pending, op \in reserved
                 PROVE  age'[op] <= flight'[op] + CallBudget
      BY <1>2 DEF AgesOK, Tick
    <2>1. age'[op] <= age[op] + 1 /\ flight'[op] = flight[op] + 1
      BY OrderGuardAssumption DEF Tick, IInv, TypeOK, OrderGuardAssumption
    <2>2. age[op] <= flight[op] + CallBudget
      BY DEF IInv, AgesOK
    <2>3. age[op] \in Int /\ flight[op] \in Int /\ age'[op] \in Int /\ CallBudget \in Int
      BY <1>1, OrderGuardAssumption DEF IInv, TypeOK, OrderGuardAssumption
    <2> QED BY <2>1, <2>2, <2>3
  <1>5. SnapshotOK'
    <2> SUFFICES ASSUME NEW c \in Callers, pc[c] = "guard", NEW op \in reserved,
                        age[op] - waited[c] < TTL
                 PROVE  age'[op] - waited'[c] < TTL
      BY <1>2 DEF SnapshotOK, Tick, IInv
    <2>1. age'[op] <= age[op] + 1 /\ waited'[c] = waited[c] + 1
      BY OrderGuardAssumption DEF Tick, IInv, TypeOK, OrderGuardAssumption
    <2>2. age[op] \in Int /\ age'[op] \in Int /\ waited[c] \in Int /\ TTL \in Int
      BY <1>1, OrderGuardAssumption DEF IInv, TypeOK, Tick, OrderGuardAssumption
    <2> QED BY <2>1, <2>2
  <1> QED BY <1>1, <1>3, <1>4, <1>5 DEF IInv

\* A restart loses the reservations, and counts what they hid.
LEMMA RestartInv ==
  ASSUME IInv, Restart
  PROVE  IInv' /\ Committed' = Committed
  <1>1. TypeOK'
    BY TypeStep DEF IInv, Next
  <1>2. LockOK' /\ SnapshotOK' /\ AgesOK'
    BY DEF Restart, LockOK, SnapshotOK, AgesOK, Critical
  <1>3. NamesOK'
    BY DEF Restart, IInv, NamesOK, ensVars
  <1>4. InWindow' = InWindow /\ Committed' = Committed /\ Orphans' = InWindow
    BY DEF Restart, ensVars, InWindow, Listed, Committed, Orphans, Promised
  <1>5. InFlightReserved' /\ Ceiling'
    <2>1. Cardinality(Committed) \in Nat /\ Cardinality(InWindow) \in Nat
      BY WindowType, CardLe
    <2>2. lost' = lost + Cardinality(InWindow) /\ lost \in Nat /\ Max \in Nat
      BY OrderGuardAssumption DEF Restart, IInv, TypeOK, OrderGuardAssumption
    <2> QED BY <1>4, <2>1, <2>2 DEF IInv, InFlightReserved, Ceiling
  <1> QED BY <1>1, <1>2, <1>3, <1>4, <1>5 DEF IInv

LEMMA InvStep == IInv /\ [Next]_vars => IInv'
  <1> SUFFICES ASSUME IInv, [Next]_vars PROVE IInv'
    OBVIOUS
  <1>1. ASSUME NEW c \in Callers, (\E n \in Deltas : Call(c, n)) \/ Acquire(c)
        PROVE  IInv'
    BY <1>1, CallInv, AcquireInv
  <1>2. ASSUME NEW c \in Callers, Handler(c)
        PROVE  IInv'
    BY <1>2, InventoryInv, PlainReturnInv, GuardReturnInv, SubmitInv, RejectedInv, AmbiguousInv
    DEF Handler
  <1>3. CASE UNCHANGED vars
    <2>1. TypeOK' /\ LockOK'
      BY <1>3, TypeStep DEF IInv, LockOK, vars, callVars
    <2> QED BY <1>3, <2>1, QuietStep DEF IInv, vars, callVars
  <1> QED BY <1>1, <1>2, <1>3, EnsInv, TickInv, RestartInv DEF Next

\* The lock, the reservations and the ages keep what the guard relies on.
THEOREM Invariance == Spec => []IInv
  BY InvInit, InvStep, PTL DEF Spec

\* maxGuard under the order lock: no interleaving of calls, timeouts and
\* late appearances takes the group past its maximum.
THEOREM CeilingHolds == Spec => []Ceiling
  <1>1. IInv => Ceiling
    BY DEF IInv
  <1> QED BY <1>1, Invariance, PTL

\* Reserve before submit, and release on rejection alone: what may still
\* appear is counted.
THEOREM InFlightReservedHolds == Spec => []InFlightReserved
  <1>1. IInv => InFlightReserved
    BY DEF IInv
  <1> QED BY <1>1, Invariance, PTL
-----------------------------------------------------------------------------
(* The guarded path implements the ledger. *)

\* The ledger counts as the guard does.
LEMMA SameCardinality == \A S : Ledger!Cardinality(S) = Cardinality(S)
  BY DEF Ledger!Cardinality, Cardinality

LEMMA LedgerInit == Init => Ledger!LInit
  <1> SUFFICES ASSUME Init PROVE Ledger!LInit
    OBVIOUS
  <1>1. Committed = Listed /\ Committed \in SUBSET Instances
    BY WindowType DEF Init, Committed, InWindow
  <1> QED BY <1>1, SameCardinality, OrderGuardAssumption DEF Init, Ledger!LInit, OrderGuardAssumption

\* A submit is an admission, the end of an instance a drop, a restart a
\* forgetting; every other step leaves the ledger alone.
LEMMA LedgerStep ==
  IInv /\ [Next]_vars => [Ledger!LNext]_<<Committed, Max + lost>>
  <1> SUFFICES ASSUME IInv, [Next]_vars
               PROVE  Ledger!LNext \/ UNCHANGED <<Committed, lost>>
    OBVIOUS
  <1>1. ASSUME UNCHANGED <<inst, lost>> PROVE UNCHANGED <<Committed, lost>>
    BY <1>1 DEF Committed, Listed, InWindow
  <1>2. ASSUME NEW c \in Callers, (\E n \in Deltas : Call(c, n)) \/ Acquire(c)
        PROVE  UNCHANGED <<inst, lost>>
    BY <1>2 DEF Call, Acquire, ensVars
  <1>3. ASSUME NEW c \in Callers, Handler(c)
        PROVE  Ledger!LNext \/ UNCHANGED <<inst, lost>>
    <2>1. ASSUME NEW op \in Ops, NEW S \in SUBSET Instances, Submit(c, op, S)
          PROVE  Ledger!LNext
      <3>1. Ledger!Admit(S)
        BY <2>1, SubmitInv, SameCardinality DEF Ledger!Admit, Submit
      <3> QED BY <3>1 DEF Ledger!LNext
    <2> QED BY <1>3, <2>1 DEF Handler, Inventory, InventoryFails, Refuse, Abandon,
               Accepted, Rejected, Ambiguous, Resolve, ensVars
  <1>4. ASSUME Ens PROVE Ledger!LNext
    <2> DEFINE D == Committed \ Committed'
    <2>1. Committed' \subseteq Committed /\ lost' = lost
      <3>1. ASSUME NEW op \in Ops, EnsTake(op) \/ EnsRefuse(op)
            PROVE  Committed' \subseteq Committed /\ lost' = lost
        <4>1. \A i \in ids[op] : inst[i] = "ordered"
          BY <3>1 DEF EnsTake, EnsRefuse, Undecided, IInv, NamesOK
        <4> QED BY <3>1, <4>1 DEF IInv, TypeOK, EnsTake, EnsRefuse, Becomes,
                   Committed, Listed, InWindow
      <3>2. ASSUME NEW i \in Instances, Appear(i) \/ Fail(i) \/ Release(i) \/ Recycle(i)
            PROVE  Committed' \subseteq Committed /\ lost' = lost
        BY <3>2 DEF IInv, TypeOK, Appear, Fail, Release, Recycle, Becomes,
           Committed, Listed, InWindow
      <3> QED BY <1>4, <3>1, <3>2 DEF Ens
    <2>2. Ledger!Drop(D)
      BY <2>1 DEF Ledger!Drop
    <2> QED BY <2>2 DEF Ledger!LNext
  <1>5. ASSUME Tick PROVE UNCHANGED <<inst, lost>>
    BY <1>5 DEF Tick
  <1>6. ASSUME Restart PROVE Ledger!LNext
    <2>1. Committed' = Committed /\ lost' = lost + Cardinality(InWindow)
      BY <1>6, RestartInv DEF Restart
    <2>2. Max + lost' = (Max + lost) + Cardinality(InWindow)
      BY <2>1, WindowType, OrderGuardAssumption DEF IInv, TypeOK, OrderGuardAssumption
    <2>3. Ledger!Forget(InWindow)
      BY <2>1, <2>2, SameCardinality DEF Ledger!Forget
    <2> QED BY <2>3 DEF Ledger!LNext, Committed
  <1>7. CASE UNCHANGED vars
    BY <1>7, <1>1 DEF vars, ensVars
  <1> QED BY <1>1, <1>2, <1>3, <1>4, <1>5, <1>6, <1>7 DEF Next

\* Whatever the inventory shows and when, the orders of the provider are
\* those of a ledger that never admits more than its allowance.
THEOREM ImplementsLedger == Spec => LedgerSpec
  BY LedgerInit, LedgerStep, Invariance, PTL DEF Spec, LedgerSpec, Ledger!LSpec

\* effectiveOwned counts no instance twice: a refusal is never stricter than
\* the listing and the reservations together.
THEOREM RefusalJustifiedHolds == Spec => RefusalJustified
  <1>1. ASSUME IInv, NEW c \in Callers, Refuse(c)
        PROVE  Cardinality(listing \cup Promised) + delta[c] > Max
    <2>1. /\ listing \in SUBSET Instances /\ Outstanding(c) \in SUBSET Instances
          /\ Promised \in SUBSET Instances /\ Outstanding(c) \subseteq Promised
          /\ listing \cap Outstanding(c) = {}
      BY <1>1 DEF IInv, TypeOK, Outstanding, Promised, Kept
    <2>2. IsFiniteSet(listing) /\ IsFiniteSet(Outstanding(c))
      BY <2>1, CardLe
    <2>3. Cardinality(listing \cup Outstanding(c))
            = Cardinality(listing) + Cardinality(Outstanding(c)) - Cardinality(listing \cap Outstanding(c))
      BY <2>2, FS_Union
    <2>4. /\ Cardinality(listing \cup Outstanding(c)) <= Cardinality(listing \cup Promised)
          /\ Cardinality(listing \cup Outstanding(c)) \in Nat
          /\ Cardinality(listing \cup Promised) \in Nat
      BY <2>1, CardLe
    <2>5. Effective(c) \in Nat /\ Effective(c) = Cardinality(listing \cup Outstanding(c))
      <3>1. Cardinality(listing) \in Nat /\ Cardinality(Outstanding(c)) \in Nat
        BY <2>2, FS_CardinalityType
      <3>2. Cardinality(listing \cap Outstanding(c)) = 0
        BY <2>1, FS_EmptySet
      <3> QED BY <2>3, <3>1, <3>2 DEF Effective
    <2>6. Effective(c) + delta[c] > Max /\ delta[c] \in Nat /\ Max \in Nat
      BY <1>1, <2>5, OrderGuardAssumption DEF Refuse, Fits, IInv, TypeOK, OrderGuardAssumption
    <2> QED BY <2>4, <2>5, <2>6
  <1>2. IInv /\ [Next]_vars =>
          [\A c \in Callers : Refuse(c) =>
             Cardinality(listing \cup Promised) + delta[c] > Max]_vars
    BY <1>1
  <1> QED BY <1>2, Invariance, PTL DEF Spec, RefusalJustified
=============================================================================
