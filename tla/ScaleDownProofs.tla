--------------------------- MODULE ScaleDownProofs ---------------------------
(***************************************************************************)
(* Scale-down is safe for any instances, groups, addresses, handlers and   *)
(* batches.  One argument carries every property: an instance only ever    *)
(* goes on, from free to up to releasing to gone (Forward).  So what is    *)
(* known of a Node and the instance it is taken for when they are paired   *)
(* (Known) stays true while the pair waits in a batch, in a match or in    *)
(* the cleanup's list, whatever happens in between.                        *)
(***************************************************************************)
EXTENDS ScaleDown, TLAPS

Born(i) == inst[i] # "free"
Dead(i) == inst[i] \in {"releasing", "gone"}

\* The Node has been an instance; what it is taken for, too; and if that is
\* another instance, its own is up no more.
Known(p) ==
  /\ Born(p[1])
  /\ p[2] # None => Born(p[2]) /\ (p[2] # p[1] => Dead(p[1]))

WorldOK ==
  /\ inst \in [Instances -> Status]
  /\ nodes \subseteq Instances
  /\ pid \in [Instances -> Instances \cup {None}]
  /\ \A n \in Instances \ nodes : pid[n] = None
  /\ \A n \in nodes : Known(<<n, pid[n]>>)
  /\ cache = None \/ cache \subseteq Instances

\* Two that are up or on their way out do not share an address.
Addressed ==
  \A i, j \in Instances :
    i # j /\ Address[i] = Address[j] => ~({inst[i], inst[j]} \subseteq {"up", "releasing"})

Handler ==
  [pc : {"idle", "node", "release", "delete"}, group : Groups \cup {None},
   listed : SUBSET Instances, todo : SUBSET Pairs, done : SUBSET Pairs,
   cur : (Instances \X Instances) \cup {None}, failed : BOOLEAN]

HandlerType == call \in [Handlers -> Handler]

HandlerOK(c) ==
  /\ c.done \cap c.todo = {}
  /\ \A p \in c.todo : Known(p)
  /\ \A p \in c.done : p[2] # None /\ Dead(p[2])
  /\ IF c.pc \in {"release", "delete"} THEN c.cur \in c.todo \cap (Instances \X Instances)
                                       ELSE c.cur = None
  /\ c.pc = "release" => GroupOf[c.cur[2]] = c.group
  /\ c.pc = "delete" => Dead(c.cur[1]) /\ Dead(c.cur[2])

Pass == [pc : {"idle", "list", "fetch", "patch"}, need : SUBSET Instances,
         match : SUBSET (Instances \X Instances)]

RecType == rec \in [Reconcilers -> Pass]

RecOK(r) ==
  /\ r.need # {} <=> r.pc = "fetch"
  /\ r.match # {} <=> r.pc = "patch"
  /\ \A n \in r.need : Born(n)
  /\ \A p \in r.match : Known(p)

LoopType ==
  loop \in [pc : {"tick", "joined", "keys", "scan", "janitor", "nodes", "clean", "delete"},
            spared : SUBSET Instances, victims : SUBSET Instances,
            suspects : SUBSET (Instances \X Instances),
            doomed : Instances \cup {None}, cleaned : 0 .. CleanupCap]

LoopOK ==
  /\ \A p \in loop.suspects : Known(p)
  /\ IF loop.pc = "delete"
     THEN loop.doomed \in Instances /\ Dead(loop.doomed) /\ loop.cleaned < CleanupCap
     ELSE loop.doomed = None

Handling    == HandlerType /\ \A h \in Handlers : HandlerOK(call[h])
Reconciling == RecType /\ \A r \in Reconcilers : RecOK(rec[r])
Looping     == LoopType /\ LoopOK

Core == WorldOK /\ Addressed /\ Handling /\ Reconciling /\ Looping

\* The loop goes on when its reconciler has ended.
Turn == loop.pc # "joined" => rec["loop"].pc = "idle"

IInv == Core /\ Turn

\* No instance goes back.
Forward ==
  \A i \in Instances : /\ Born(i) => Born(i)'
                       /\ Dead(i) => Dead(i)'
-----------------------------------------------------------------------------
\* A release makes an instance that is up one that is not, and may fail.
LEMMA ReleaseStep ==
  ASSUME inst \in [Instances -> Status], NEW i \in Instances, NEW ok \in BOOLEAN,
         ReleaseInstance(i, ok), cache = None \/ cache \subseteq Instances
  PROVE  /\ inst' \in [Instances -> Status] /\ Forward
         /\ \A j \in Instances : inst'[j] = inst[j] \/ (inst[j] = "up" /\ inst'[j] = "releasing")
         /\ \A j \in Instances \ {i} : inst'[j] = inst[j]
         /\ ok /\ Born(i) => Dead(i)'
         /\ cache' = None \/ cache' \subseteq Instances
  <1>1. PICK s \in {IF Live(i) THEN "releasing" ELSE inst[i], inst[i]} :
          /\ inst' = [inst EXCEPT ![i] = s]
          /\ ok => s = (IF Live(i) THEN "releasing" ELSE inst[i])
    <2>1. CASE ok = TRUE
      BY <2>1 DEF ReleaseInstance
    <2>2. CASE ok = FALSE
      BY <2>2 DEF ReleaseInstance
    <2> QED BY <2>1, <2>2
  <1>2. cache' = None \/ cache' \subseteq Instances
    BY DEF ReleaseInstance
  <1>3. \A j \in Instances : inst'[j] = IF j = i THEN s ELSE inst[j]
    BY <1>1
  <1>4. inst' \in [Instances -> Status]
    BY <1>1 DEF Status, Live
  <1>5. s = inst[i] \/ (inst[i] = "up" /\ s = "releasing")
    BY <1>1 DEF Live
  <1>6. Forward
    BY <1>3, <1>5 DEF Forward, Born, Dead, Status
  <1>7. ok /\ Born(i) => Dead(i)'
    BY <1>1, <1>3 DEF Born, Dead, Live, Status
  <1> QED BY <1>2, <1>3, <1>4, <1>5, <1>6, <1>7

\* Deleting a Node takes its providerID with it, if it works.
LEMMA DeleteStep ==
  ASSUME WorldOK, NEW n \in Instances, NEW ok \in BOOLEAN, DeleteNodeObject(n, ok)
  PROVE  /\ nodes \ {n} \subseteq nodes' /\ nodes' \subseteq nodes
         /\ pid' \in [Instances -> Instances \cup {None}]
         /\ \A m \in nodes' : pid'[m] = pid[m]
         /\ \A m \in Instances \ nodes' : pid'[m] = None
  <1>1. PICK left \in {nodes \ {n}, nodes} :
          nodes' = left /\ pid' = [pid EXCEPT ![n] = IF n \in left THEN @ ELSE None]
    <2>1. CASE ok = TRUE
      BY <2>1 DEF DeleteNodeObject
    <2>2. CASE ok = FALSE
      BY <2>2 DEF DeleteNodeObject
    <2> QED BY <2>1, <2>2
  <1> QED BY <1>1 DEF WorldOK

LEMMA Still == UNCHANGED inst => Forward
  BY DEF Forward, Born, Dead

\* What is known of a pair stays true.
LEMMA KnownStays ==
  ASSUME Forward, NEW p \in Pairs, Known(p)
  PROVE  Known(p)'
  <1>1. p[1] \in Instances /\ p[2] \in Instances \cup {None}
    BY DEF Pairs
  <1> QED BY <1>1 DEF Forward, Known, Born, Dead

\* A handler, a reconciler or the loop that does not move stays as it was.
LEMMA HandlerStays ==
  ASSUME Forward, HandlerType, NEW h \in Handlers, HandlerOK(call[h]), call'[h] = call[h]
  PROVE  HandlerOK(call[h])'
  <1>1. call[h].todo \subseteq Pairs /\ call[h].done \subseteq Pairs
    BY DEF HandlerType, Handler
  <1>2. \A p \in call[h].todo : Known(p)'
    BY <1>1, KnownStays DEF HandlerOK
  <1>3. \A p \in call[h].done : p[2] # None /\ Dead(p[2])'
    <2> TAKE p \in call[h].done
    <2>1. p[2] \in Instances /\ p[2] # None /\ Dead(p[2])
      BY <1>1 DEF HandlerOK, Pairs
    <2> QED BY <2>1 DEF Forward
  <1>4. call[h].pc = "delete" => Dead(call[h].cur[1])' /\ Dead(call[h].cur[2])'
    <2> SUFFICES ASSUME call[h].pc = "delete"
                 PROVE  Dead(call[h].cur[1])' /\ Dead(call[h].cur[2])'
      OBVIOUS
    <2>1. call[h].cur \in Instances \X Instances /\ Dead(call[h].cur[1]) /\ Dead(call[h].cur[2])
      BY DEF HandlerOK
    <2> QED BY <2>1 DEF Forward, Dead
  <1> QED BY <1>2, <1>3, <1>4 DEF HandlerOK, Dead

LEMMA HandlingStays == ASSUME Forward, Handling, UNCHANGED call PROVE Handling'
  BY HandlerStays DEF Handling, HandlerType

LEMMA RecStays ==
  ASSUME Forward, RecType, NEW r \in Reconcilers, RecOK(rec[r]), rec'[r] = rec[r]
  PROVE  RecOK(rec[r])'
  <1>1. rec[r].need \subseteq Instances /\ rec[r].match \subseteq Pairs
    BY DEF RecType, Pass, Pairs
  <1>2. \A p \in rec[r].match : Known(p)'
    BY <1>1, KnownStays DEF RecOK
  <1>3. \A n \in rec[r].need : Born(n)'
    BY <1>1 DEF Forward, RecOK
  <1> QED BY <1>2, <1>3 DEF RecOK, Born

LEMMA ReconcilingStays == ASSUME Forward, Reconciling, UNCHANGED rec PROVE Reconciling'
  BY RecStays DEF Reconciling, RecType

LEMMA LoopingStays == ASSUME Forward, Looping, UNCHANGED loop PROVE Looping'
  <1>1. loop.suspects \subseteq Pairs
    BY DEF Looping, LoopType, Pairs
  <1>2. \A p \in loop.suspects : Known(p)'
    BY <1>1, KnownStays DEF Looping, LoopOK
  <1>3. loop.doomed \in Instances /\ Dead(loop.doomed) => Dead(loop.doomed)'
    BY DEF Forward, Dead
  <1> QED BY <1>2, <1>3 DEF Looping, LoopType, LoopOK, Dead

LEMMA WorldStays ==
  ASSUME WorldOK, Forward, inst' \in [Instances -> Status],
         UNCHANGED <<nodes, pid>>, cache' = None \/ cache' \subseteq Instances
  PROVE  WorldOK'
  <1>1. \A n \in nodes : Known(<<n, pid[n]>>)'
    BY KnownStays DEF WorldOK, Pairs
  <1> QED BY <1>1 DEF WorldOK, Known, Born, Dead
-----------------------------------------------------------------------------
(* ENS and the cluster. *)

LEMMA BootStep ==
  ASSUME Core, NEW i \in Instances, Boot(i)
  PROVE  inst' \in [Instances -> Status] /\ Forward /\ Addressed'
  <1>1. inst \in [Instances -> Status] /\ Addressed
    BY DEF Core, WorldOK
  <1>2. inst' = [inst EXCEPT ![i] = "up"] /\ inst[i] = "free"
    BY DEF Boot
  <1>3. inst' \in [Instances -> Status] /\ Forward
    BY <1>1, <1>2 DEF Status, Forward, Born, Dead
  <1>4. Addressed'
    <2> SUFFICES ASSUME NEW j \in Instances, NEW k \in Instances, j # k,
                        Address[j] = Address[k]
                 PROVE  ~({inst'[j], inst'[k]} \subseteq {"up", "releasing"})
      BY DEF Addressed
    <2>1. CASE j = i
      BY <1>1, <1>2, <2>1 DEF Boot, Sharing
    <2>2. CASE k = i
      BY <1>1, <1>2, <2>2 DEF Boot, Sharing
    <2>3. CASE i \notin {j, k}
      BY <1>1, <1>2, <2>3 DEF Addressed
    <2> QED BY <2>1, <2>2, <2>3
  <1> QED BY <1>3, <1>4

LEMMA VanishStep ==
  ASSUME Core, NEW i \in Instances, Vanish(i)
  PROVE  inst' \in [Instances -> Status] /\ Forward /\ Addressed'
  <1>1. inst \in [Instances -> Status] /\ Addressed
    BY DEF Core, WorldOK
  <1>2. inst' = [inst EXCEPT ![i] = "gone"] /\ inst[i] \in {"up", "releasing"}
    BY DEF Vanish
  <1>3. inst' \in [Instances -> Status] /\ Forward
    BY <1>1, <1>2 DEF Status, Forward, Born, Dead
  <1>4. Addressed'
    BY <1>1, <1>2 DEF Addressed
  <1> QED BY <1>3, <1>4

\* Boot comes from nowhere, so that a Node's instance is never a fresh one; a
\* Node registers without a providerID, and another hand sets the right one.
LEMMA WorldStep == ASSUME Core, World PROVE Core'
  <1>1. PICK i \in Instances : Boot(i) \/ Vanish(i) \/ Register(i) \/ SetByHand(i)
    BY DEF World
  <1>2. CASE Boot(i) \/ Vanish(i)
    <2>1. inst' \in [Instances -> Status] /\ Forward /\ Addressed'
      BY <1>2, BootStep, VanishStep
    <2>2. UNCHANGED <<nodes, pid, cache, call, rec, loop>>
      BY <1>2 DEF Boot, Vanish
    <2>3. WorldOK'
      BY <2>1, <2>2, WorldStays DEF Core, WorldOK
    <2> QED BY <2>1, <2>2, <2>3, HandlingStays, ReconcilingStays, LoopingStays DEF Core
  <1>3. CASE Register(i) \/ SetByHand(i)
    <2>1. UNCHANGED <<inst, cache, call, rec, loop>>
      BY <1>3 DEF Register, SetByHand
    <2>2. Forward
      BY <2>1 DEF Forward, Born, Dead
    <2>3. WorldOK'
      <3>1. CASE Register(i)
        BY <2>1, <3>1 DEF Register, Core, WorldOK, Known, Born, Dead, Status
      <3>2. CASE SetByHand(i)
        BY <2>1, <3>2 DEF SetByHand, Core, WorldOK, Known, Born, Dead, Status
      <3> QED BY <1>3, <3>1, <3>2
    <2>4. Addressed'
      BY <2>1 DEF Core, Addressed
    <2> QED BY <2>1, <2>2, <2>3, <2>4, HandlingStays, ReconcilingStays, LoopingStays DEF Core
  <1> QED BY <1>1, <1>2, <1>3
-----------------------------------------------------------------------------
(* NodeGroupDeleteNodes. *)

\* The others are where they were; h is as its step leaves it.
LEMMA OneMoves ==
  ASSUME Forward, Handling, NEW h \in Handlers, HandlerType', HandlerOK(call[h])',
         \A k \in Handlers \ {h} : call'[k] = call[k]
  PROVE  Handling'
  <1>1. ASSUME NEW k \in Handlers \ {h} PROVE HandlerOK(call[k])'
    BY <1>1, HandlerStays DEF Handling
  <1> QED BY <1>1 DEF Handling

\* What a Node that is done with leaves of its call.
LEMMA NextNodeFields ==
  ASSUME HandlerType, NEW h \in Handlers, NEW p \in Pairs, NEW ok \in BOOLEAN,
         NextNode(h, p, ok)
  PROVE  /\ HandlerType'
         /\ \A k \in Handlers \ {h} : call'[k] = call[k]
         /\ call'[h].pc = "node" /\ call'[h].cur = None
         /\ call'[h].todo = call[h].todo \ {p}
         /\ call'[h].done \in {{}, call[h].done \cup {p}}
         /\ ~ok => call'[h].done = {}
  <1>1. PICK failed \in BOOLEAN, done \in {{}, call[h].done \cup {p}} :
          /\ call' = [call EXCEPT ![h].pc = "node", ![h].cur = None, ![h].todo = @ \ {p},
                                  ![h].failed = failed, ![h].done = done]
          /\ ~ok => done = {}
    <2>1. CASE call[h].failed \/ ~ok
      BY <2>1 DEF NextNode
    <2>2. CASE ~(call[h].failed \/ ~ok)
      BY <2>2 DEF NextNode
    <2> QED BY <2>1, <2>2
  <1>2. call[h].todo \in SUBSET Pairs /\ call[h].done \in SUBSET Pairs
    BY DEF HandlerType, Handler
  <1>3. done \in SUBSET Pairs
    BY <1>2
  <1> DEFINE c == [call[h] EXCEPT !.pc = "node", !.cur = None, !.todo = @ \ {p},
                                  !.failed = failed, !.done = done]
  <1>4. call[h] \in Handler /\ DOMAIN call = Handlers
    BY DEF HandlerType
  <1>5. c \in Handler
    BY <1>2, <1>3, <1>4 DEF Handler
  <1>6. call' = [call EXCEPT ![h] = c]
    BY <1>1, <1>4
  <1>7. /\ c.pc = "node" /\ c.cur = None /\ c.todo = call[h].todo \ {p} /\ c.done = done
    BY <1>4 DEF Handler
  <1> HIDE DEF c
  <1>8. call'[h] = c /\ HandlerType' /\ \A k \in Handlers \ {h} : call'[k] = call[k]
    BY <1>4, <1>5, <1>6 DEF HandlerType
  <1> QED BY <1>1, <1>7, <1>8

\* A call whose next Node is done with, without an error only if the instance
\* is dead.
LEMMA NextNodeStep ==
  ASSUME Forward, Handling, NEW h \in Handlers, NEW p \in Pairs, NEW ok \in BOOLEAN,
         NextNode(h, p, ok), ok => p[2] # None /\ Dead(p[2])'
  PROVE  Handling'
  <1>1. HandlerOK(call[h]) /\ HandlerType
    BY DEF Handling
  <1>2. call[h].todo \subseteq Pairs /\ call[h].done \subseteq Pairs
    BY <1>1 DEF HandlerType, Handler
  <1>3. \A q \in call'[h].todo : Known(q)'
    BY <1>1, <1>2, NextNodeFields, KnownStays DEF HandlerOK
  <1>4. \A q \in call[h].done : q[2] # None /\ Dead(q[2])'
    <2> TAKE q \in call[h].done
    <2>1. q[2] \in Instances /\ q[2] # None /\ Dead(q[2])
      BY <1>1, <1>2 DEF HandlerOK, Pairs
    <2> QED BY <2>1 DEF Forward
  <1>5. \A q \in call'[h].done : q[2] # None /\ Dead(q[2])'
    BY <1>1, <1>4, NextNodeFields
  <1>6. call'[h].done \cap call'[h].todo = {}
    BY <1>1, NextNodeFields DEF HandlerOK
  <1>7. call'[h].pc = "node" /\ call'[h].cur = None
    BY <1>1, NextNodeFields
  <1>8. HandlerOK(call[h])'
    BY <1>3, <1>5, <1>6, <1>7 DEF HandlerOK
  <1> QED BY <1>1, <1>8, NextNodeFields, OneMoves

\* A call that goes on with a Node whose instance it may release, or whose
\* instance and Node it knows to be done.
LEMMA GoToStep ==
  ASSUME Forward, Handling, NEW h \in Handlers, NEW pc \in {"release", "delete"},
         NEW p \in call[h].todo \cap (Instances \X Instances), GoTo(h, p, pc),
         pc = "release" => GroupOf[p[2]] = call[h].group,
         pc = "delete" => Dead(p[1])' /\ Dead(p[2])'
  PROVE  Handling'
  <1>1. HandlerOK(call[h]) /\ HandlerType
    BY DEF Handling
  <1>2. call[h].todo \subseteq Pairs /\ call[h].done \subseteq Pairs
    BY <1>1 DEF HandlerType, Handler
  <1>3. call' = [call EXCEPT ![h].pc = pc, ![h].cur = p]
    BY DEF GoTo
  <1>4. HandlerType' /\ \A k \in Handlers \ {h} : call'[k] = call[k]
    <2> DEFINE c == [call[h] EXCEPT !.pc = pc, !.cur = p]
    <2>1. call[h] \in Handler /\ DOMAIN call = Handlers
      BY <1>1 DEF HandlerType
    <2>2. c \in Handler /\ call' = [call EXCEPT ![h] = c]
      BY <1>3, <2>1 DEF Handler
    <2> HIDE DEF c
    <2> QED BY <1>1, <2>2 DEF HandlerType
  <1>5. /\ call'[h].pc = pc /\ call'[h].cur = p /\ call'[h].todo = call[h].todo
        /\ call'[h].done = call[h].done /\ call'[h].group = call[h].group
    BY <1>1, <1>3 DEF HandlerType, Handler
  <1>6. \A q \in call'[h].todo : Known(q)'
    BY <1>1, <1>2, <1>5, KnownStays DEF HandlerOK
  <1>7. \A q \in call'[h].done : q[2] # None /\ Dead(q[2])'
    <2> TAKE q \in call'[h].done
    <2>1. q[2] \in Instances /\ q[2] # None /\ Dead(q[2])
      BY <1>1, <1>2, <1>5 DEF HandlerOK, Pairs
    <2> QED BY <2>1 DEF Forward
  <1>8. HandlerOK(call[h])'
    BY <1>1, <1>5, <1>6, <1>7 DEF HandlerOK, Dead
  <1> QED BY <1>4, <1>8, OneMoves

\* A batch holds what is known of the Nodes it names.
LEMMA DeleteNodesStep ==
  ASSUME Core, NEW h \in Handlers, NEW g \in Groups, DeleteNodes(h, g)
  PROVE  Handling' /\ (cache' = None \/ cache' \subseteq Instances)
  <1>1. PICK B \in SUBSET {<<n, pid[n]>> : n \in nodes}, l \in SUBSET Instances :
          /\ Read(l)
          /\ call' = [call EXCEPT ![h] =
               [pc |-> "node", group |-> g, listed |-> l, todo |-> B,
                done |-> {}, cur |-> None, failed |-> FALSE]]
    BY DEF DeleteNodes
  <1>2. Handling /\ WorldOK
    BY DEF Core
  <1>3. Forward
    BY Still DEF DeleteNodes
  <1>4. \A p \in B : p \in Pairs /\ Known(p)
    BY <1>2 DEF WorldOK, Pairs
  <1>5. \A p \in B : Known(p)'
    BY <1>3, <1>4, KnownStays
  <1> DEFINE c == [pc |-> "node", group |-> g, listed |-> l, todo |-> B,
                   done |-> {}, cur |-> None, failed |-> FALSE]
  <1>6. c \in Handler
    BY <1>4 DEF Handler
  <1>7. c.pc = "node" /\ c.done = {} /\ c.todo = B /\ c.cur = None
    OBVIOUS
  <1> HIDE DEF c
  <1>8. HandlerType' /\ call'[h] = c /\ \A k \in Handlers \ {h} : call'[k] = call[k]
    BY <1>1, <1>2, <1>6 DEF Handling, HandlerType, c
  <1>9. HandlerOK(call[h])'
    BY <1>5, <1>7, <1>8 DEF HandlerOK
  <1>10. Handling'
    BY <1>2, <1>3, <1>8, <1>9, OneMoves
  <1>11. cache' = None \/ cache' \subseteq Instances
    BY <1>1 DEF Read
  <1> QED BY <1>10, <1>11

\* A release is only gone for where the instance is one of the group, and a
\* deletion where the instance is dead, and with it that of the Node.
LEMMA CheckNodeStep == ASSUME Core, NEW h \in Handlers, CheckNode(h) PROVE Handling'
  <1>1. Handling /\ WorldOK /\ HandlerOK(call[h]) /\ call[h] \in Handler /\ call[h].pc = "node"
    BY DEF Core, Handling, HandlerType, CheckNode
  <1>2. Forward
    BY Still DEF CheckNode
  <1>3. PICK p \in call[h].todo :
          IF WrongLabel(h, p) \/ p[2] = None THEN NextNode(h, p, FALSE)
          ELSE IF p[2] \notin call[h].listed THEN Lookup(h, p)
          ELSE IF GroupOf[p[2]] # call[h].group THEN NextNode(h, p, FALSE)
          ELSE GoTo(h, p, "release")
    BY DEF CheckNode
  <1>4. p \in Pairs /\ Known(p) /\ Known(p)'
    BY <1>1, <1>2, KnownStays DEF Handler, HandlerOK
  <1>5. CASE NextNode(h, p, FALSE)
    BY <1>1, <1>2, <1>4, <1>5, NextNodeStep
  <1>6. ASSUME p[2] # None, GroupOf[p[2]] = call[h].group, GoTo(h, p, "release")
        PROVE  Handling'
    <2>1. p \in call[h].todo \cap (Instances \X Instances)
      BY <1>4, <1>6 DEF Pairs
    <2> QED BY <1>1, <1>2, <1>6, <2>1, GoToStep
  <1>7. ASSUME p[2] # None, ~Live(p[2]), GoTo(h, p, "delete") PROVE Handling'
    <2>1. p \in call[h].todo \cap (Instances \X Instances)
      BY <1>4, <1>7 DEF Pairs
    <2>2. Dead(p[2])
      BY <1>1, <1>4, <1>7, <2>1 DEF Known, Born, Dead, Live, WorldOK, Status
    <2>3. Dead(p[1])
      BY <1>4, <1>7, <2>2 DEF Known
    <2> QED BY <1>1, <1>2, <1>7, <2>1, <2>2, <2>3, GoToStep DEF Forward
  <1> QED BY <1>3, <1>5, <1>6, <1>7 DEF Lookup

LEMMA ReleaseOther ==
  ASSUME HandlerType, NEW h \in Handlers, NEW k \in Handlers, ReleaseFirst(k), k # h
  PROVE  call'[h] = call[h]
  <1>1. PICK ok \in BOOLEAN : IF ok THEN GoTo(k, call[k].cur, "delete")
                                   ELSE NextNode(k, call[k].cur, FALSE)
    BY DEF ReleaseFirst
  <1>2. CASE GoTo(k, call[k].cur, "delete")
    BY <1>2 DEF GoTo, HandlerType
  <1>3. CASE NextNode(k, call[k].cur, FALSE)
    BY <1>3 DEF NextNode, HandlerType
  <1> QED BY <1>1, <1>2, <1>3

LEMMA ReleaseFirstStep ==
  ASSUME Core, NEW h \in Handlers, ReleaseFirst(h)
  PROVE  /\ Handling' /\ Forward /\ inst' \in [Instances -> Status] /\ Addressed'
         /\ \A i \in Instances : inst'[i] # inst[i] => GroupOf[i] = call[h].group
         /\ cache' = None \/ cache' \subseteq Instances
  <1>1. /\ Handling /\ WorldOK /\ Addressed /\ HandlerOK(call[h]) /\ call[h] \in Handler
        /\ call[h].pc = "release"
    BY DEF Core, Handling, HandlerType, ReleaseFirst
  <1>2. PICK p \in call[h].todo \cap (Instances \X Instances) :
          p = call[h].cur /\ GroupOf[p[2]] = call[h].group
    BY <1>1 DEF HandlerOK
  <1>3. p \in Pairs /\ p[2] # None /\ Known(p)
    BY <1>1, <1>2, ScaleDownAssumption DEF Handler, HandlerOK, Pairs, ScaleDownAssumption
  <1>4. PICK ok \in BOOLEAN :
          /\ ReleaseInstance(p[2], ok)
          /\ IF ok THEN GoTo(h, p, "delete") ELSE NextNode(h, p, FALSE)
    BY <1>2 DEF ReleaseFirst
  <1>5. p[2] \in Instances
    BY <1>2
  <1>6. /\ inst' \in [Instances -> Status] /\ Forward
        /\ \A j \in Instances : inst'[j] = inst[j] \/ (inst[j] = "up" /\ inst'[j] = "releasing")
        /\ \A j \in Instances \ {p[2]} : inst'[j] = inst[j]
        /\ ok /\ Born(p[2]) => Dead(p[2])'
        /\ cache' = None \/ cache' \subseteq Instances
    BY <1>1, <1>4, <1>5, ReleaseStep DEF WorldOK
  <1>7. Addressed'
    BY <1>1, <1>6 DEF Addressed
  <1>8. \A i \in Instances : inst'[i] # inst[i] => GroupOf[i] = call[h].group
    BY <1>2, <1>6
  <1>9. CASE ok = TRUE
    <2>1. Dead(p[2])'
      BY <1>3, <1>6, <1>9 DEF Known
    <2>2. Dead(p[1])'
      BY <1>2, <1>3, <1>6, <2>1 DEF Known, Forward
    <2>3. GoTo(h, p, "delete")
      BY <1>4, <1>9
    <2>4. Handling'
      BY <1>1, <1>2, <1>6, <2>1, <2>2, <2>3, GoToStep
    <2> QED BY <1>6, <1>7, <1>8, <2>4
  <1>10. CASE ok = FALSE
    <2>1. Handling'
      BY <1>1, <1>3, <1>4, <1>6, <1>10, NextNodeStep
    <2> QED BY <1>6, <1>7, <1>8, <2>1
  <1> QED BY <1>4, <1>9, <1>10

\* A Node that goes takes nothing along but its own providerID.
LEMMA NodeGoes ==
  ASSUME WorldOK, UNCHANGED <<inst, cache>>, NEW n \in Instances, NEW ok \in BOOLEAN,
         DeleteNodeObject(n, ok)
  PROVE  WorldOK' /\ nodes \ nodes' \subseteq {n}
  <1>1. /\ nodes \ {n} \subseteq nodes' /\ nodes' \subseteq nodes
        /\ pid' \in [Instances -> Instances \cup {None}]
        /\ \A m \in nodes' : pid'[m] = pid[m]
        /\ \A m \in Instances \ nodes' : pid'[m] = None
    BY DeleteStep
  <1>2. \A m \in nodes' : Known(<<m, pid[m]>>)'
    BY <1>1 DEF WorldOK, Known, Born, Dead
  <1> QED BY <1>1, <1>2 DEF WorldOK

LEMMA ThenDeleteStep ==
  ASSUME Core, NEW h \in Handlers, ThenDelete(h)
  PROVE  Handling' /\ WorldOK' /\ \A n \in nodes \ nodes' : Dead(n)
  <1>1. Handling /\ WorldOK /\ HandlerOK(call[h]) /\ call[h] \in Handler /\ call[h].pc = "delete"
    BY DEF Core, Handling, HandlerType, ThenDelete
  <1>2. PICK p \in Instances \X Instances : p = call[h].cur /\ Dead(p[1]) /\ Dead(p[2])
    BY <1>1 DEF HandlerOK
  <1>3. p \in Pairs /\ p[1] \in Instances /\ p[2] \in Instances /\ p[2] # None
    BY <1>2, ScaleDownAssumption DEF Pairs, ScaleDownAssumption
  <1>4. PICK ok \in BOOLEAN : DeleteNodeObject(p[1], ok) /\ NextNode(h, p, ok)
    BY <1>2 DEF ThenDelete
  <1>5. Forward /\ UNCHANGED <<inst, cache>>
    BY Still DEF ThenDelete
  <1>6. WorldOK' /\ nodes \ nodes' \subseteq {p[1]}
    BY <1>1, <1>3, <1>4, <1>5, NodeGoes
  <1>7. Dead(p[2])'
    BY <1>2, <1>3, <1>5 DEF Forward
  <1>8. Handling'
    BY <1>1, <1>3, <1>4, <1>5, <1>7, NextNodeStep
  <1> QED BY <1>2, <1>6, <1>8

\* What one handler does leaves the rest as it needs it.
LEMMA HandleStep == ASSUME Core, NEW h \in Handlers, Handle(h) PROVE Core'
  <1> USE DEF Core
  <1>1. ASSUME NEW g \in Groups, DeleteNodes(h, g) PROVE Core'
    <2>1. UNCHANGED <<inst, nodes, pid, rec, loop>>
      BY <1>1 DEF DeleteNodes
    <2>2. Forward /\ inst' \in [Instances -> Status] /\ Addressed'
      BY <2>1, Still DEF WorldOK, Addressed
    <2>3. Handling' /\ (cache' = None \/ cache' \subseteq Instances)
      BY <1>1, DeleteNodesStep
    <2> QED BY <2>1, <2>2, <2>3, WorldStays, ReconcilingStays, LoopingStays
  <1>2. CASE CheckNode(h)
    <2>1. UNCHANGED <<inst, nodes, pid, cache, rec, loop>>
      BY <1>2 DEF CheckNode
    <2>2. Forward /\ inst' \in [Instances -> Status] /\ Addressed'
      BY <2>1, Still DEF WorldOK, Addressed
    <2>3. Handling' /\ (cache' = None \/ cache' \subseteq Instances)
      BY <1>2, <2>1, CheckNodeStep DEF WorldOK
    <2> QED BY <2>1, <2>2, <2>3, WorldStays, ReconcilingStays, LoopingStays
  <1>3. CASE ReleaseFirst(h)
    <2>1. UNCHANGED <<nodes, pid, rec, loop>>
      BY <1>3 DEF ReleaseFirst
    <2> QED BY <1>3, <2>1, ReleaseFirstStep, WorldStays, ReconcilingStays, LoopingStays
  <1>4. CASE ThenDelete(h)
    <2>1. UNCHANGED <<inst, rec, loop>>
      BY <1>4 DEF ThenDelete
    <2>2. Forward /\ Addressed'
      BY <2>1, Still DEF Addressed
    <2> QED BY <1>4, <2>1, <2>2, ThenDeleteStep, ReconcilingStays, LoopingStays
  <1>5. CASE Return(h)
    <2>1. UNCHANGED <<inst, nodes, pid, cache, rec, loop>>
      BY <1>5 DEF Return
    <2>2. Forward /\ inst' \in [Instances -> Status] /\ Addressed'
      BY <2>1, Still DEF WorldOK, Addressed
    <2>3. NoCall \in Handler /\ NoCall.todo = {} /\ NoCall.done = {} /\ NoCall.pc = "idle"
          /\ NoCall.cur = None
      BY DEF NoCall, Handler
    <2>4. HandlerType' /\ call'[h] = NoCall /\ \A k \in Handlers \ {h} : call'[k] = call[k]
      BY <1>5, <2>3 DEF Return, Handling, HandlerType
    <2>5. HandlerOK(call[h])'
      BY <2>3, <2>4 DEF HandlerOK
    <2>6. Handling'
      BY <2>2, <2>4, <2>5, OneMoves
    <2> QED BY <2>1, <2>2, <2>6, WorldStays, ReconcilingStays, LoopingStays DEF WorldOK
  <1> QED BY <1>1, <1>2, <1>3, <1>4, <1>5 DEF Handle
-----------------------------------------------------------------------------
(* ReconcileProviderIDs. *)

LEMMA NoRecOK == NoRec \in Pass /\ NoRec.need = {} /\ NoRec.match = {} /\ NoRec.pc = "idle"
  BY DEF NoRec, Pass

\* One reconciler moves on to s.
LEMMA RecMoves ==
  ASSUME Forward, Reconciling, NEW r \in Reconcilers, NEW s \in Pass,
         rec' = [rec EXCEPT ![r] = s], RecOK(s)'
  PROVE  Reconciling'
  <1>1. RecType' /\ rec'[r] = s /\ \A q \in Reconcilers \ {r} : rec'[q] = rec[q]
    BY DEF Reconciling, RecType
  <1>2. ASSUME NEW q \in Reconcilers \ {r} PROVE RecOK(rec[q])'
    BY <1>1, <1>2, RecStays DEF Reconciling
  <1>3. RecOK(rec[r])'
    BY <1>1 DEF RecOK
  <1> QED BY <1>1, <1>2, <1>3 DEF Reconciling

\* A Node that had no providerID and an instance that is listed: with an address
\* in common, it is the Node's own, or the Node's own is gone.
LEMMA CorrelateStep ==
  ASSUME Core, NEW r \in Reconcilers, Correlate(r)
  PROVE  Reconciling' /\ (cache' = None \/ cache' \subseteq Instances)
  <1> DEFINE match == {p \in rec[r].need \X Listed : Address[p[1]] = Address[p[2]]}
  <1>1. /\ WorldOK /\ Addressed /\ Reconciling /\ RecOK(rec[r]) /\ rec[r] \in Pass
    BY DEF Core, Reconciling, RecType
  <1>2. Forward
    BY Still DEF Correlate
  <1>3. match \subseteq Instances \X Instances
    BY <1>1 DEF Pass, Listed
  <1>4. ASSUME NEW p \in match PROVE Known(p)'
    <2>1. /\ p[1] \in Instances /\ p[2] \in Instances /\ Born(p[1]) /\ inst[p[2]] = "up"
          /\ Address[p[1]] = Address[p[2]]
      BY <1>1, <1>3 DEF RecOK, Listed, Live
    <2>2. p[1] # p[2] => Dead(p[1])
      BY <1>1, <2>1 DEF Addressed, Born, Dead, WorldOK, Status
    <2>3. Known(p)
      BY <2>1, <2>2 DEF Known, Born
    <2>4. p \in Pairs
      BY <1>3 DEF Pairs
    <2> QED BY <1>2, <2>3, <2>4, KnownStays
  <1>5. rec' = [rec EXCEPT ![r] = IF match = {} THEN NoRec
                                  ELSE [NoRec EXCEPT !.pc = "patch", !.match = match]]
    BY DEF Correlate
  <1>6. cache' = None \/ cache' \subseteq Instances
    BY DEF Correlate, Listed
  <1> HIDE DEF match
  <1>7. CASE match = {}
    <2>1. rec' = [rec EXCEPT ![r] = NoRec]
      BY <1>5, <1>7
    <2>2. RecOK(NoRec)'
      BY NoRecOK DEF RecOK
    <2> QED BY <1>1, <1>2, <1>6, <2>1, <2>2, NoRecOK, RecMoves
  <1>8. CASE match # {}
    <2>1. PICK m \in SUBSET (Instances \X Instances) :
            m = match /\ m # {} /\ \A p \in m : Known(p)'
      BY <1>3, <1>4, <1>8
    <2>2. PICK s : s = [NoRec EXCEPT !.pc = "patch", !.match = m]
      OBVIOUS
    <2>3. s \in Pass /\ s.pc = "patch" /\ s.need = {} /\ s.match = m
      BY <2>2, NoRecOK DEF Pass
    <2>4. rec' = [rec EXCEPT ![r] = s]
      BY <1>5, <1>8, <2>1, <2>2
    <2>5. RecOK(s)'
      BY <2>1, <2>3 DEF RecOK
    <2> QED BY <1>1, <1>2, <1>6, <2>3, <2>4, <2>5, RecMoves
  <1> QED BY <1>7, <1>8

LEMMA PatchStep ==
  ASSUME Core, NEW r \in Reconcilers, Patch(r)
  PROVE  Reconciling' /\ WorldOK'
  <1>1. WorldOK /\ Reconciling /\ RecOK(rec[r]) /\ rec[r] \in Pass
    BY DEF Core, Reconciling, RecType
  <1>2. Forward /\ UNCHANGED <<inst, nodes, cache>> /\ rec[r].pc = "patch"
    BY Still DEF Patch
  <1>3. PICK p \in rec[r].match :
          /\ rec' = [rec EXCEPT ![r] = IF rec[r].match = {p} THEN NoRec
                                       ELSE [rec[r] EXCEPT !.match = @ \ {p}]]
          /\ \/ p[1] \in nodes /\ pid[p[1]] = None /\ pid' = [pid EXCEPT ![p[1]] = p[2]]
             \/ UNCHANGED pid
    BY DEF Patch
  <1>4. p \in Instances \X Instances /\ Known(p)
    BY <1>1, <1>3 DEF RecOK, Pass
  <1>5. WorldOK'
    <2>1. p[1] \in Instances /\ p[2] \in Instances /\ p[2] # None
      BY <1>4, ScaleDownAssumption DEF ScaleDownAssumption
    <2>2. CASE UNCHANGED pid
      BY <1>1, <1>2, <2>2, WorldStays DEF WorldOK
    <2>3. CASE p[1] \in nodes /\ pid' = [pid EXCEPT ![p[1]] = p[2]]
      <3>1. \A n \in nodes : Known(<<n, pid[n]>>)'
        BY <1>1, <1>2, <1>4, <2>1, <2>3 DEF WorldOK, Known, Born, Dead
      <3>2. /\ pid' \in [Instances -> Instances \cup {None}]
            /\ \A n \in Instances \ nodes : pid'[n] = None
        BY <1>1, <2>1, <2>3 DEF WorldOK
      <3> QED BY <1>1, <1>2, <3>1, <3>2 DEF WorldOK
    <2> QED BY <1>3, <2>2, <2>3
  <1>6. Reconciling'
    <2>1. CASE rec[r].match = {p}
      <3>1. rec' = [rec EXCEPT ![r] = NoRec] /\ RecOK(NoRec)'
        BY <1>3, <2>1, NoRecOK DEF RecOK
      <3> QED BY <1>1, <1>2, <3>1, NoRecOK, RecMoves
    <2>2. CASE rec[r].match # {p}
      <3>1. PICK s : s = [rec[r] EXCEPT !.match = @ \ {p}]
        OBVIOUS
      <3>2. s \in Pass /\ s.pc = "patch" /\ s.need = rec[r].need /\ s.match = rec[r].match \ {p}
        BY <1>1, <1>2, <3>1 DEF Pass
      <3>3. s.match # {} /\ s.need = {}
        BY <1>1, <1>2, <1>3, <2>2, <3>2 DEF RecOK
      <3>4. \A q \in s.match : Known(q)'
        <4>1. \A q \in rec[r].match : q \in Pairs /\ Known(q)
          BY <1>1 DEF RecOK, Pass, Pairs
        <4> QED BY <1>2, <3>2, <4>1, KnownStays
      <3>5. RecOK(s)'
        BY <3>2, <3>3, <3>4 DEF RecOK
      <3>6. rec' = [rec EXCEPT ![r] = s]
        BY <1>3, <2>2, <3>1
      <3> QED BY <1>1, <1>2, <3>2, <3>5, <3>6, RecMoves
    <2> QED BY <2>1, <2>2
  <1> QED BY <1>5, <1>6

\* A pass matches Nodes that were there without a providerID.
LEMMA ReconcileStep == ASSUME Core, NEW r \in Reconcilers, Reconcile(r) PROVE Core'
  <1> USE DEF Core
  <1>1. UNCHANGED <<inst, nodes, call, loop>> /\ Forward /\ inst' \in [Instances -> Status]
    BY Still DEF Reconcile, Abandon, ListUncorrelated, Correlate, Patch, WorldOK
  <1>2. Addressed' /\ Handling' /\ Looping'
    BY <1>1, HandlingStays, LoopingStays DEF Addressed
  <1>3. CASE Abandon(r)
    <2>1. rec' = [rec EXCEPT ![r] = NoRec] /\ RecOK(NoRec)'
      BY <1>3, NoRecOK DEF Abandon, RecOK
    <2>2. Reconciling'
      BY <1>1, <2>1, NoRecOK, RecMoves
    <2> QED BY <1>1, <1>2, <1>3, <2>2, WorldStays DEF Abandon, WorldOK
  <1>4. CASE ListUncorrelated(r)
    <2>1. PICK need : need = {n \in nodes : pid[n] = None}
      OBVIOUS
    <2>2. \A n \in need : n \in Instances /\ Born(n) /\ Born(n)'
      BY <1>1, <2>1 DEF WorldOK, Known, Forward
    <2>3. PICK s : s = IF need = {} THEN NoRec ELSE [NoRec EXCEPT !.pc = "fetch", !.need = need]
      OBVIOUS
    <2>4. /\ s \in Pass /\ s.need = need /\ s.match = {}
          /\ s.pc = (IF need = {} THEN "idle" ELSE "fetch")
      BY <2>2, <2>3, NoRecOK DEF Pass
    <2>5. RecOK(s)'
      BY <2>2, <2>4 DEF RecOK
    <2>6. rec' = [rec EXCEPT ![r] = s]
      BY <1>4, <2>1, <2>3 DEF ListUncorrelated
    <2>7. Reconciling'
      BY <1>1, <2>4, <2>5, <2>6, RecMoves
    <2> QED BY <1>1, <1>2, <1>4, <2>7, WorldStays DEF ListUncorrelated, WorldOK
  <1>5. CASE Correlate(r)
    BY <1>1, <1>2, <1>5, CorrelateStep, WorldStays DEF Correlate
  <1>6. CASE Patch(r)
    BY <1>2, <1>6, PatchStep
  <1> QED BY <1>3, <1>4, <1>5, <1>6 DEF Reconcile
-----------------------------------------------------------------------------
(* backgroundLoop. *)

\* Every step of the loop but a release and a deletion leaves the world alone.
LEMMA LoopMoves ==
  ASSUME Core, UNCHANGED <<inst, nodes, pid, call>>, Reconciling', Looping',
         cache' = None \/ cache' \subseteq Instances
  PROVE  Core'
  <1>1. Forward /\ inst' \in [Instances -> Status] /\ Addressed'
    BY Still DEF Core, WorldOK, Addressed
  <1> QED BY <1>1, WorldStays, HandlingStays DEF Core

\* Where the loop goes, and what it takes along.
LEMMA LoopGoes ==
  ASSUME Core, UNCHANGED <<inst, nodes, pid, call, rec>>,
         cache' = None \/ cache' \subseteq Instances, LoopType', LoopOK'
  PROVE  Core'
  BY LoopMoves, ReconcilingStays, Still DEF Core, Looping

LEMMA WaitingOK ==
  /\ Waiting.pc = "tick" /\ Waiting.suspects = {} /\ Waiting.doomed = None
  /\ Waiting \in [pc : {"tick"}, spared : {{}}, victims : {{}}, suspects : {{}},
                   doomed : {None}, cleaned : {0}]
  BY DEF Waiting

LEMMA JanitorMoves == ASSUME Core, Janitor PROVE Core'
  <1>1. UNCHANGED <<nodes, pid, call, rec>>
    BY DEF Janitor, SkipJanitor, JoinedInstanceIDs, ManagedNodeKeys, JanitorScan, JanitorStep
  <1>2. LoopType /\ LoopOK /\ WorldOK
    BY DEF Core, Looping
  <1>3. CASE SkipJanitor
    <2>1. UNCHANGED <<inst, cache>> /\ loop' = [Waiting EXCEPT !.pc = "nodes"]
      BY <1>3 DEF SkipJanitor
    <2>2. LoopType' /\ LoopOK'
      BY <2>1, WaitingOK, ScaleDownAssumption DEF LoopType, LoopOK, ScaleDownAssumption
    <2> QED BY <1>1, <1>2, <2>1, <2>2, LoopGoes DEF WorldOK
  <1>4. CASE JoinedInstanceIDs
    <2>1. {pid[n] : n \in nodes} \ {None} \subseteq Instances
      BY <1>2 DEF WorldOK
    <2>2. UNCHANGED <<inst, cache>>
      BY <1>4 DEF JoinedInstanceIDs
    <2>3. LoopType' /\ LoopOK'
      BY <1>2, <1>4, <2>1, <2>2 DEF JoinedInstanceIDs, LoopType, LoopOK, Known, Born, Dead
    <2> QED BY <1>1, <1>2, <2>2, <2>3, LoopGoes DEF WorldOK
  <1>5. CASE ManagedNodeKeys
    <2>1. Keyed \subseteq Instances
      BY DEF Keyed
    <2>2. UNCHANGED <<inst, cache>>
      BY <1>5 DEF ManagedNodeKeys
    <2>3. LoopType' /\ LoopOK'
      BY <1>2, <1>5, <2>1, <2>2 DEF ManagedNodeKeys, LoopType, LoopOK, Known, Born, Dead
    <2> QED BY <1>1, <1>2, <2>2, <2>3, LoopGoes DEF WorldOK
  <1>6. CASE JanitorScan
    <2>1. PICK l \in SUBSET Instances :
            /\ Read(l)
            /\ \E old \in SUBSET l :
                 loop' = [loop EXCEPT !.pc = "janitor", !.spared = {},
                           !.victims = IF JanitorRelease THEN old \ loop.spared ELSE {}]
      BY <1>6 DEF JanitorScan
    <2>2. UNCHANGED inst /\ cache' \subseteq Instances /\ loop.pc = "scan"
      BY <1>6, <2>1 DEF JanitorScan, Read
    <2>3. PICK v \in SUBSET Instances :
            loop' = [loop EXCEPT !.pc = "janitor", !.spared = {}, !.victims = v]
      BY <2>1
    <2>4. LoopType' /\ LoopOK'
      BY <1>2, <2>2, <2>3 DEF LoopType, LoopOK, Known, Born, Dead
    <2> QED BY <1>1, <2>2, <2>4, LoopGoes
  <1>7. CASE JanitorStep
    <2>1. CASE loop.victims = {}
      <3>1. UNCHANGED <<inst, cache>> /\ loop' = [loop EXCEPT !.pc = "nodes"] /\ loop.pc = "janitor"
        BY <1>7, <2>1 DEF JanitorStep
      <3>2. LoopType' /\ LoopOK'
        BY <1>2, <3>1 DEF LoopType, LoopOK, Known, Born, Dead
      <3> QED BY <1>1, <1>2, <3>1, <3>2, LoopGoes DEF WorldOK
    <2>2. CASE loop.victims # {}
      <3>1. PICK i \in loop.victims, ok \in BOOLEAN :
              ReleaseInstance(i, ok) /\ loop' = [loop EXCEPT !.victims = @ \ {i}]
        BY <1>7, <2>2 DEF JanitorStep
      <3>2. i \in Instances /\ loop.pc = "janitor"
        BY <1>2, <1>7, <3>1 DEF LoopType, JanitorStep
      <3>3. /\ inst' \in [Instances -> Status] /\ Forward
            /\ \A j \in Instances : inst'[j] = inst[j]
                                   \/ (inst[j] = "up" /\ inst'[j] = "releasing")
            /\ cache' = None \/ cache' \subseteq Instances
        BY <1>2, <3>1, <3>2, ReleaseStep DEF WorldOK
      <3>4. Addressed'
        BY <3>3 DEF Core, Addressed
      <3>5. WorldOK' /\ Handling' /\ Reconciling'
        BY <1>1, <3>3, WorldStays, HandlingStays, ReconcilingStays DEF Core
      <3>6. LoopType' /\ loop'.suspects = loop.suspects /\ loop'.doomed = None
            /\ loop'.pc = "janitor"
        BY <1>2, <3>1, <3>2 DEF LoopType, LoopOK
      <3>7. LoopOK'
        <4>1. \A p \in loop.suspects : p \in Pairs /\ Known(p)
          BY <1>2 DEF LoopType, LoopOK, Pairs
        <4>2. \A p \in loop.suspects : Known(p)'
          BY <3>3, <4>1, KnownStays
        <4> QED BY <3>6, <4>2 DEF LoopOK
      <3> QED BY <3>4, <3>5, <3>6, <3>7 DEF Core, Looping
    <2> QED BY <2>1, <2>2
  <1> QED BY <1>3, <1>4, <1>5, <1>6, <1>7 DEF Janitor

\* A Node is deleted that was known with an instance found dead.
LEMMA CleanupMoves ==
  ASSUME Core, Cleanup
  PROVE  Core' /\ \A n \in nodes \ nodes' : Dead(n)
  <1>1. UNCHANGED <<inst, cache, call, rec>> /\ Forward
    BY Still DEF Cleanup, StaleNodeCandidates, Confirm, CleanNode, EndTick
  <1>2. LoopType /\ LoopOK /\ WorldOK
    BY DEF Core, Looping
  <1>3. ASSUME NEW S \in SUBSET Instances, StaleNodeCandidates(S)
        PROVE  Core' /\ \A n \in nodes \ nodes' : Dead(n)
    <2>1. UNCHANGED <<nodes, pid>> /\ S \subseteq nodes /\ loop.pc = "nodes"
      BY <1>3 DEF StaleNodeCandidates
    <2>2. \A n \in S : n \in Instances /\ NodeId(n) \in Instances /\ Known(<<n, NodeId(n)>>)
      BY <1>2, <2>1, ScaleDownAssumption DEF WorldOK, NodeId, Known, ScaleDownAssumption
    <2>3. PICK C : C = {<<n, NodeId(n)>> : n \in S}
      OBVIOUS
    <2>4. C \subseteq Instances \X Instances /\ \A p \in C : Known(p)
      BY <2>2, <2>3
    <2>5. loop' = [loop EXCEPT !.pc = "clean", !.suspects = C]
      BY <1>3, <2>3 DEF StaleNodeCandidates
    <2>6. LoopType' /\ loop'.suspects = C /\ loop'.pc = "clean" /\ loop'.doomed = None
      BY <1>2, <2>1, <2>4, <2>5 DEF LoopType, LoopOK
    <2>7. LoopOK'
      BY <1>1, <2>4, <2>6 DEF LoopOK, Known, Born, Dead
    <2> QED BY <1>1, <1>2, <2>1, <2>6, <2>7, LoopGoes DEF WorldOK
  <1>4. ASSUME NEW p \in Instances \X Instances, NEW gone \in BOOLEAN, Confirm(p, gone)
        PROVE  Core' /\ \A n \in nodes \ nodes' : Dead(n)
    <2>1. /\ UNCHANGED <<nodes, pid>> /\ p \in loop.suspects /\ loop.pc = "clean"
          /\ loop.cleaned < CleanupCap
      BY <1>4 DEF Confirm
    <2>2. Known(p)
      BY <1>2, <2>1 DEF LoopOK
    <2>3. CASE gone = TRUE
      <3>1. Dead(p[2])
        BY <1>2, <1>4, <2>2, <2>3, ScaleDownAssumption
        DEF Confirm, Known, Born, Dead, Live, WorldOK, Status, ScaleDownAssumption
      <3>2. Dead(p[1])
        BY <2>2, <3>1, ScaleDownAssumption DEF Known, ScaleDownAssumption
      <3>3. loop' = [loop EXCEPT !.suspects = @ \ {p}, !.pc = "delete", !.doomed = p[1]]
        BY <1>4, <2>3 DEF Confirm
      <3>4. LoopType' /\ LoopOK'
        BY <1>1, <1>2, <2>1, <3>2, <3>3 DEF LoopType, LoopOK, Known, Born, Dead
      <3> QED BY <1>1, <1>2, <2>1, <3>4, LoopGoes DEF WorldOK
    <2>4. CASE gone = FALSE
      <3>1. loop' = [loop EXCEPT !.suspects = @ \ {p}, !.pc = @, !.doomed = @]
        BY <1>4, <2>4 DEF Confirm
      <3>2. LoopType' /\ LoopOK'
        BY <1>1, <1>2, <2>1, <3>1 DEF LoopType, LoopOK, Known, Born, Dead
      <3> QED BY <1>1, <1>2, <2>1, <3>2, LoopGoes DEF WorldOK
    <2> QED BY <2>3, <2>4
  <1>5. ASSUME NEW n \in Instances, NEW ok \in BOOLEAN, CleanNode(n, ok)
        PROVE  Core' /\ \A m \in nodes \ nodes' : Dead(m)
    <2>1. loop.pc = "delete" /\ loop.doomed = n /\ DeleteNodeObject(n, ok)
      BY <1>5 DEF CleanNode
    <2>2. Dead(n) /\ loop.cleaned < CleanupCap
      BY <1>2, <2>1 DEF LoopOK
    <2>3. WorldOK' /\ nodes \ nodes' \subseteq {n}
      BY <1>1, <1>2, <2>1, NodeGoes
    <2>4. LoopType' /\ LoopOK'
      <3>1. PICK c \in 0 .. CleanupCap :
              loop' = [loop EXCEPT !.pc = "clean", !.doomed = None, !.cleaned = c]
        <4>1. loop.cleaned \in 0 .. CleanupCap /\ loop.cleaned + 1 \in 0 .. CleanupCap
          BY <1>2, <2>2, ScaleDownAssumption DEF LoopType, ScaleDownAssumption
        <4>2. CASE ok = TRUE
          BY <1>5, <4>1, <4>2 DEF CleanNode
        <4>3. CASE ok = FALSE
          BY <1>5, <4>1, <4>3 DEF CleanNode
        <4> QED BY <4>2, <4>3
      <3> QED BY <1>1, <1>2, <3>1 DEF LoopType, LoopOK, Known, Born, Dead
    <2>5. Addressed' /\ Handling' /\ Reconciling'
      BY <1>1, HandlingStays, ReconcilingStays DEF Core, Addressed
    <2> QED BY <2>2, <2>3, <2>4, <2>5 DEF Core, Looping
  <1>6. CASE EndTick
    <2>1. UNCHANGED <<nodes, pid>> /\ loop' = Waiting
      BY <1>6 DEF EndTick
    <2>2. LoopType' /\ LoopOK'
      BY <2>1, WaitingOK, ScaleDownAssumption DEF LoopType, LoopOK, ScaleDownAssumption
    <2> QED BY <1>1, <1>2, <2>1, <2>2, LoopGoes DEF WorldOK
  <1> QED BY <1>3, <1>4, <1>5, <1>6 DEF Cleanup

\* The loop's pass begins when the last one has ended.
LEMMA TickStep == ASSUME IInv, Tick PROVE Core'
  <1>1. UNCHANGED <<inst, nodes, pid, cache, call>> /\ loop.pc = "tick" /\ Forward
    BY Still DEF Tick
  <1>2. "loop" \in Reconcilers
    BY DEF Reconcilers
  <1>3. rec["loop"] \in Pass /\ RecOK(rec["loop"]) /\ rec["loop"].pc = "idle"
    BY <1>1, <1>2 DEF IInv, Core, Turn, Reconciling, RecType
  <1>4. PICK s : s = [rec["loop"] EXCEPT !.pc = "list"]
    OBVIOUS
  <1>5. s \in Pass /\ s.pc = "list" /\ s.need = {} /\ s.match = {}
    BY <1>3, <1>4 DEF Pass, RecOK
  <1>6. RecOK(s)'
    BY <1>5 DEF RecOK
  <1>7. rec' = [rec EXCEPT !["loop"] = s]
    BY <1>4 DEF Tick
  <1>8. Reconciling'
    BY <1>1, <1>2, <1>5, <1>6, <1>7, RecMoves DEF IInv, Core
  <1>9. LoopType' /\ LoopOK'
    BY <1>1 DEF Tick, IInv, Core, Looping, LoopType, LoopOK, Known, Born, Dead
  <1> QED BY <1>1, <1>8, <1>9, LoopMoves DEF IInv, Core, WorldOK, Looping

LEMMA RefreshStep == ASSUME Core, Refresh PROVE Core'
  <1>1. UNCHANGED <<inst, nodes, pid, call, loop>> /\ cache' = None /\ Forward
    BY Still DEF Refresh
  <1>2. "refresh" \in Reconcilers
    BY DEF Reconcilers
  <1>3. rec["refresh"] \in Pass /\ RecOK(rec["refresh"]) /\ rec["refresh"].pc = "idle"
    BY <1>2 DEF Refresh, Core, Reconciling, RecType
  <1>4. PICK s : s = [rec["refresh"] EXCEPT !.pc = "list"]
    OBVIOUS
  <1>5. s \in Pass /\ s.pc = "list" /\ s.need = {} /\ s.match = {}
    BY <1>3, <1>4 DEF Pass, RecOK
  <1>6. RecOK(s)'
    BY <1>5 DEF RecOK
  <1>7. rec' = [rec EXCEPT !["refresh"] = s]
    BY <1>4 DEF Refresh
  <1>8. Reconciling'
    BY <1>1, <1>2, <1>5, <1>6, <1>7, RecMoves DEF Core
  <1>9. Looping'
    BY <1>1, LoopingStays DEF Core
  <1> QED BY <1>1, <1>8, <1>9, LoopMoves

\* A process starts with nothing in hand.
Empty == /\ call = [h \in Handlers |-> NoCall]
         /\ rec = [r \in Reconcilers |-> NoRec]
         /\ loop = Waiting

LEMMA EmptyOK == Empty => Handling /\ Reconciling /\ Looping /\ Turn
  <1> SUFFICES ASSUME Empty PROVE Handling /\ Reconciling /\ Looping /\ Turn
    OBVIOUS
  <1>1. NoCall \in Handler /\ HandlerOK(NoCall)
    BY DEF NoCall, Handler, HandlerOK
  <1>2. Handling
    BY <1>1 DEF Empty, Handling, HandlerType
  <1>3. RecOK(NoRec)
    BY NoRecOK DEF RecOK
  <1>4. Reconciling
    BY <1>3, NoRecOK DEF Empty, Reconciling, RecType
  <1>5. Looping
    BY WaitingOK, ScaleDownAssumption
    DEF Empty, Looping, LoopType, LoopOK, ScaleDownAssumption
  <1>6. Turn
    BY NoRecOK DEF Empty, Turn, Reconcilers
  <1> QED BY <1>2, <1>4, <1>5, <1>6

LEMMA RestartStep == Core /\ Restart => IInv'
  <1>1. Core /\ Restart => WorldOK' /\ Addressed' /\ Empty'
    <2> SUFFICES ASSUME Core, Restart PROVE WorldOK' /\ Addressed' /\ Empty'
      OBVIOUS
    <2>1. UNCHANGED <<inst, nodes, pid>> /\ cache' = None /\ Forward
      BY Still DEF Restart
    <2>2. WorldOK' /\ Addressed'
      BY <2>1, WorldStays DEF Core, WorldOK, Addressed
    <2> QED BY <2>2 DEF Restart, Empty
  <1>2. Empty' => Handling' /\ Reconciling' /\ Looping' /\ Turn'
    BY EmptyOK, PTL
  <1> QED BY <1>1, <1>2 DEF IInv, Core

LEMMA Initially == Init => IInv
  <1> SUFFICES ASSUME Init PROVE IInv
    OBVIOUS
  <1>1. WorldOK /\ Addressed
    BY DEF Init, WorldOK, Addressed, Status
  <1>2. Handling /\ Reconciling /\ Looping /\ Turn
    BY EmptyOK DEF Init, Empty
  <1> QED BY <1>1, <1>2 DEF IInv, Core

LEMMA TurnStep ==
  ASSUME IInv, World \/ Refresh \/ Reconcile("refresh") \/ Background
               \/ (\E h \in Handlers : Handle(h)) \/ UNCHANGED vars
  PROVE  Turn'
  <1>1. "loop" \in DOMAIN rec /\ "loop" # "refresh" /\ Turn
    BY DEF IInv, Core, Reconciling, RecType, Reconcilers
  <1>2. CASE World \/ (\E h \in Handlers : Handle(h)) \/ UNCHANGED vars
    <2>1. UNCHANGED <<rec, loop>>
      BY <1>2 DEF World, Boot, Vanish, Register, SetByHand, Handle, DeleteNodes, CheckNode,
                  ReleaseFirst, ThenDelete, Return, vars
    <2> QED BY <1>1, <2>1 DEF Turn
  <1>3. CASE Refresh \/ Reconcile("refresh")
    <2>1. loop' = loop /\ rec'["loop"] = rec["loop"]
      BY <1>1, <1>3 DEF Refresh, Reconcile, Abandon, ListUncorrelated, Correlate, Patch
    <2> QED BY <1>1, <2>1 DEF Turn
  <1>4. CASE Tick
    BY <1>4 DEF Tick, IInv, Core, Looping, LoopType, Turn
  <1>5. CASE Reconcile("loop")
    <2>1. loop' = loop /\ rec["loop"].pc # "idle"
      BY <1>5 DEF Reconcile, Abandon, ListUncorrelated, Correlate, Patch
    <2> QED BY <1>1, <2>1 DEF Turn
  <1>6. CASE Janitor
    <2>1. rec' = rec /\ (loop.pc = "joined" => rec["loop"].pc = "idle")
      BY <1>6 DEF Janitor, SkipJanitor, JoinedInstanceIDs, ManagedNodeKeys, JanitorScan,
                  JanitorStep
    <2> QED BY <1>1, <2>1 DEF Turn
  <1>7. CASE Cleanup
    <2>1. rec' = rec /\ loop.pc # "joined"
      BY <1>7 DEF Cleanup, StaleNodeCandidates, Confirm, CleanNode, EndTick
    <2> QED BY <1>1, <2>1 DEF Turn
  <1> QED BY <1>2, <1>3, <1>4, <1>5, <1>6, <1>7 DEF Background

LEMMA CoreStep == ASSUME IInv, [Next]_vars PROVE IInv'
  <1>1. CASE World \/ Refresh \/ Reconcile("refresh") \/ Background
             \/ (\E h \in Handlers : Handle(h))
    <2>1. Core'
      <3>1. "loop" \in Reconcilers /\ "refresh" \in Reconcilers
        BY DEF Reconcilers
      <3> QED BY <1>1, <3>1, WorldStep, RefreshStep, ReconcileStep, TickStep, JanitorMoves,
                 CleanupMoves, HandleStep DEF Background, IInv
    <2> QED BY <1>1, <2>1, TurnStep DEF IInv
  <1>2. CASE Restart
    BY <1>2, RestartStep DEF IInv
  <1>3. CASE UNCHANGED vars
    <2>1. UNCHANGED <<inst, nodes, pid, call, rec, cache, loop>>
      BY <1>3 DEF vars
    <2>2. Core'
      BY <2>1, Still, ReconcilingStays, LoopingStays, LoopMoves DEF IInv, Core, WorldOK
    <2> QED BY <1>3, <2>2, TurnStep DEF IInv
  <1> QED BY <1>1, <1>2, <1>3 DEF Next, Running

\* The invariant is inductive: nothing any two actors do makes a pair unknown.
THEOREM Inductive == Spec => []IInv
  <1>1. IInv /\ [Next]_vars => IInv'
    BY CoreStep
  <1> QED BY Initially, <1>1, PTL DEF Spec
-----------------------------------------------------------------------------
\* Values keep to their types: a handler has a Node in hand only between its
\* check and its deletion, and the cleanup never counts past its cap.
THEOREM TypeCorrect == Spec => []TypeOK
  <1>1. IInv => TypeOK
    <2> SUFFICES ASSUME IInv PROVE TypeOK
      OBVIOUS
    <2> USE DEF IInv, Core, TypeOK
    <2>1. ASSUME NEW h \in Handlers
          PROVE  /\ call[h].pc \in {"idle", "node", "release", "delete"}
                 /\ call[h].group \in Groups \cup {None} /\ call[h].listed \subseteq Instances
                 /\ call[h].todo \subseteq Pairs /\ call[h].done \subseteq Pairs \ call[h].todo
                 /\ call[h].failed \in BOOLEAN
                 /\ IF call[h].pc \in {"release", "delete"}
                    THEN call[h].cur \in call[h].todo \cap (Instances \X Instances)
                    ELSE call[h].cur = None
      <3>1. call[h] \in Handler /\ HandlerOK(call[h])
        BY DEF Handling, HandlerType
      <3> QED BY <3>1 DEF Handler, HandlerOK
    <2>2. ASSUME NEW r \in Reconcilers
          PROVE  /\ rec[r].pc \in {"idle", "list", "fetch", "patch"}
                 /\ rec[r].need \subseteq Instances /\ rec[r].need # {} <=> rec[r].pc = "fetch"
                 /\ rec[r].match \subseteq Instances \X Instances
                 /\ rec[r].match # {} <=> rec[r].pc = "patch"
      <3>1. rec[r] \in Pass /\ RecOK(rec[r])
        BY <2>2 DEF Reconciling, RecType
      <3> QED BY <3>1 DEF Pass, RecOK
    <2>3. /\ loop.pc \in {"tick", "joined", "keys", "scan", "janitor", "nodes", "clean", "delete"}
          /\ loop.spared \subseteq Instances /\ loop.victims \subseteq Instances
          /\ loop.suspects \subseteq Instances \X Instances
          /\ loop.doomed \in IF loop.pc = "delete" THEN Instances ELSE {None}
          /\ loop.cleaned \in 0 .. CleanupCap
      BY DEF Looping, LoopType, LoopOK
    <2>4. /\ inst \in [Instances -> Status] /\ nodes \subseteq Instances
          /\ pid \in [Instances -> Instances \cup {None}]
          /\ \A n \in Instances \ nodes : pid[n] = None
          /\ cache = None \/ cache \subseteq Instances
      BY DEF WorldOK
    <2> QED BY <2>1, <2>2, <2>3, <2>4
  <1> QED BY Inductive, <1>1, PTL

\* The Node of an instance that is up is correlated with it or with nothing,
\* although addresses change hands and two reconcilers run at once.
THEOREM LiveNodeTrueHolds == Spec => []LiveNodeTrue
  <1>1. IInv => LiveNodeTrue
    BY DEF IInv, Core, WorldOK, LiveNodeTrue, Known, Live, Dead
  <1> QED BY Inductive, <1>1, PTL

\* What a call without an error has dealt with is up no more.
THEOREM SuccessMeansReleasedHolds == Spec => []SuccessMeansReleased
  <1>1. IInv => SuccessMeansReleased
    BY DEF IInv, Core, Handling, HandlerOK, SuccessMeansReleased, Live, Dead
  <1> QED BY Inductive, <1>1, PTL

\* No step deletes a Node whose instance is up.
THEOREM LiveNodeKeptHolds == Spec => LiveNodeKept
  <1>1. IInv /\ [Next]_vars => [\A n \in nodes \ nodes' : ~Live(n)]_vars
    <2> SUFFICES ASSUME IInv, Next, NEW n \in nodes \ nodes' PROVE ~Live(n)
      OBVIOUS
    <2>1. CASE World \/ Refresh \/ Restart \/ Tick \/ Janitor
      BY <2>1 DEF World, Boot, Vanish, Register, SetByHand, Refresh, Restart, Tick, Janitor,
                  SkipJanitor, JoinedInstanceIDs, ManagedNodeKeys, JanitorScan, JanitorStep
    <2>2. CASE Reconcile("refresh") \/ Reconcile("loop")
      BY <2>2 DEF Reconcile, Abandon, ListUncorrelated, Correlate, Patch
    <2>3. CASE Cleanup
      BY <2>3, CleanupMoves DEF IInv, Live, Dead
    <2>4. ASSUME NEW h \in Handlers, Handle(h) PROVE ~Live(n)
      <3>1. CASE ThenDelete(h)
        BY <3>1, ThenDeleteStep DEF IInv, Live, Dead
      <3>2. CASE ~ThenDelete(h)
        BY <2>4, <3>2 DEF Handle, DeleteNodes, CheckNode, ReleaseFirst, Return
      <3> QED BY <3>1, <3>2
    <2> QED BY <2>1, <2>2, <2>3, <2>4 DEF Next, Running, Background
  <1> QED BY Inductive, <1>1, PTL DEF Spec, LiveNodeKept

\* A handler releases instances of its group only.
THEOREM GroupRespectedHolds == Spec => GroupRespected
  <1>1. IInv /\ [Next]_vars =>
          [\A h \in Handlers : call[h].pc = "release" /\ call'[h] # call[h] =>
             \A i \in Instances : inst'[i] # inst[i] => GroupOf[i] = call[h].group]_vars
    <2> SUFFICES ASSUME IInv, Next, NEW h \in Handlers, call[h].pc = "release",
                        call'[h] # call[h], NEW i \in Instances, inst'[i] # inst[i]
                 PROVE  GroupOf[i] = call[h].group
      OBVIOUS
    <2>1. CASE World \/ Refresh \/ Tick \/ Janitor \/ Cleanup
      BY <2>1 DEF World, Boot, Vanish, Register, SetByHand, Refresh, Tick, Janitor,
                  SkipJanitor, JoinedInstanceIDs, ManagedNodeKeys, JanitorScan, JanitorStep,
                  Cleanup, StaleNodeCandidates, Confirm, CleanNode, EndTick
    <2>2. CASE Reconcile("refresh") \/ Reconcile("loop") \/ Restart
      BY <2>2 DEF Reconcile, Abandon, ListUncorrelated, Correlate, Patch, Restart
    <2>3. ASSUME NEW k \in Handlers, Handle(k) PROVE GroupOf[i] = call[h].group
      <3>1. CASE ReleaseFirst(k)
        <4>1. k = h
          BY <3>1, ReleaseOther DEF IInv, Core, Handling
        <4> QED BY <3>1, <4>1, ReleaseFirstStep DEF IInv
      <3>2. CASE ~ReleaseFirst(k)
        BY <2>3, <3>2 DEF Handle, DeleteNodes, CheckNode, ThenDelete, Return
      <3> QED BY <3>1, <3>2
    <2> QED BY <2>1, <2>2, <2>3 DEF Next, Running, Background
  <1> QED BY Inductive, <1>1, PTL DEF Spec, GroupRespected
=============================================================================
