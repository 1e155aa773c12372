------------------------------ MODULE ScaleDown ------------------------------
(***************************************************************************)
(* What takes capacity away: NodeGroupDeleteNodes (server.go), the         *)
(* providerID reconciler (kube.go) that decides which instance a Node      *)
(* stands for, and the janitor and stale-Node cleanup of the background    *)
(* loop (janitor.go, main.go).  They share the Nodes of the cluster and    *)
(* the instances at ENS, and every call to either is a step of its own.    *)
(*                                                                         *)
(* A Node registers under the id of its instance and with its address.     *)
(* DescribeInstances is taken as monotonic: an instance is shown from the  *)
(* time its kubelet can register until it is released.                     *)
(***************************************************************************)
EXTENDS Integers, FiniteSets

CONSTANTS
  Instances,       \* instance ids; each names its Node as well
  Groups,          \* node groups
  GroupOf,         \* the group that owns an instance, by its name prefix
  LabelOf,         \* the group that the nodepool label of a Node tells
  Address,         \* its address: two never have the same at one time
  Handlers,        \* DeleteNodes calls that may run at once
  None,            \* no instance, no providerID, no listing
  JanitorRelease,  \* JANITOR_RELEASE
  CleanupCap,      \* maxNodeCleanupPerTick
  MaxBatch         \* bound: Nodes per DeleteNodes call

ASSUME ScaleDownAssumption ==
  /\ {GroupOf, LabelOf} \subseteq [Instances -> Groups]
  /\ DOMAIN Address = Instances
  /\ None \notin Instances
  /\ JanitorRelease \in BOOLEAN
  /\ {CleanupCap, MaxBatch} \subseteq Nat \ {0}

VARIABLES
  inst,   \* the instances at ENS
  nodes,  \* the Nodes of the cluster
  pid,    \* the instance a Node's spec.providerID names
  cache,  \* the listing an unforced read may be served (None: none)
  call,   \* the DeleteNodes handlers
  rec,    \* ReconcileProviderIDs: of the loop, and of a Refresh
  loop    \* backgroundLoop

vars == <<inst, nodes, pid, cache, call, rec, loop>>
-----------------------------------------------------------------------------
(* ENS and the cluster. *)

\* "up" is every status but Releasing and Released.
Status == {"free", "up", "releasing", "gone"}
Live(i) == inst[i] = "up"
Listed == {i \in Instances : Live(i)}

Sharing(i) == {j \in Instances \ {i} : Address[j] = Address[i]}

\* An unforced describeRegion.
Read(l) ==
  /\ l = Listed \/ (cache # None /\ l = cache)
  /\ cache' = l

\* ReleaseInstance; an answer that is lost tells nothing of the effect.
ReleaseInstance(i, ok) ==
  LET released == IF Live(i) THEN "releasing" ELSE inst[i]
  IN  /\ \E s \in {released} \cup (IF ok THEN {} ELSE {inst[i]}) :
           inst' = [inst EXCEPT ![i] = s]
      /\ cache' = IF ok THEN None ELSE cache

DeleteNodeObject(n, ok) ==
  /\ \E left \in {nodes \ {n}} \cup (IF ok THEN {} ELSE {nodes}) :
       /\ nodes' = left
       /\ pid' = [pid EXCEPT ![n] = IF n \in left THEN @ ELSE None]

Boot(i) ==
  /\ inst[i] = "free"
  /\ \A j \in Sharing(i) : inst[j] \notin {"up", "releasing"}
  /\ inst' = [inst EXCEPT ![i] = "up"]
  /\ UNCHANGED <<nodes, pid, cache, call, rec, loop>>

\* An instance is released or lost by other hands, or its release completes.
Vanish(i) ==
  /\ inst[i] \in {"up", "releasing"}
  /\ inst' = [inst EXCEPT ![i] = "gone"]
  /\ UNCHANGED <<nodes, pid, cache, call, rec, loop>>

Register(n) ==
  /\ n \notin nodes
  /\ inst[n] \in {"up", "releasing"}
  /\ nodes' = nodes \cup {n}
  /\ UNCHANGED <<inst, pid, cache, call, rec, loop>>
\* Another hand than the reconciler's sets the providerID.
SetByHand(n) ==
  /\ n \in nodes /\ pid[n] = None
  /\ pid' = [pid EXCEPT ![n] = n]
  /\ UNCHANGED <<inst, nodes, cache, call, rec, loop>>
-----------------------------------------------------------------------------
(* NodeGroupDeleteNodes. *)

NoCall == [pc |-> "idle", group |-> None, listed |-> {}, todo |-> {},
           done |-> {}, cur |-> None, failed |-> FALSE]

\* The autoscaler names Nodes with the providerIDs it sees now; a listing that
\* fails ends the call at once.
DeleteNodes(h, g) ==
  /\ call[h].pc = "idle"
  /\ \E B \in SUBSET {<<n, pid[n]>> : n \in nodes}, l \in SUBSET Instances :
       /\ Cardinality(B) \in 1 .. MaxBatch
       /\ Read(l)
       /\ call' = [call EXCEPT ![h] =
            [pc |-> "node", group |-> g, listed |-> l, todo |-> B,
             done |-> {}, cur |-> None, failed |-> FALSE]]
  /\ UNCHANGED <<inst, nodes, pid, rec, loop>>

\* (mutant) What fails is logged and not reported.
NextNodeQuiet(h, p, ok) ==
  call' = [call EXCEPT ![h].pc = "node", ![h].cur = None,
                       ![h].todo = @ \ {p}, ![h].done = @ \cup {p}]

\* The loop goes on to the next Node, with an error or without; `done` is
\* what a call without an error has dealt with (history).
NextNode(h, p, ok) ==
  LET failed == call[h].failed \/ ~ok
  IN  call' = [call EXCEPT ![h].pc = "node", ![h].cur = None, ![h].todo = @ \ {p},
                 ![h].failed = failed, ![h].done = IF failed THEN {} ELSE @ \cup {p}]

GoTo(h, p, pc) == call' = [call EXCEPT ![h].pc = pc, ![h].cur = p]

WrongLabel(h, p) == LabelOf[p[1]] # call[h].group

\* (mutant) An instance that the lookup finds is taken for one of the group.
LookupTrusted(h, p) ==
  \/ NextNode(h, p, FALSE)
  \/ GoTo(h, p, IF Live(p[2]) THEN "release" ELSE "delete")

\* The uncached lookup of an instance that the listing lacks; it may fail.
Lookup(h, p) ==
  \/ NextNode(h, p, FALSE)
  \/ ~Live(p[2]) /\ GoTo(h, p, "delete")
  \/ /\ Live(p[2])
     /\ IF GroupOf[p[2]] = call[h].group THEN GoTo(h, p, "release")
                                         ELSE NextNode(h, p, FALSE)

CheckNode(h) ==
  /\ call[h].pc = "node"
  /\ \E p \in call[h].todo :
       IF WrongLabel(h, p) \/ p[2] = None THEN NextNode(h, p, FALSE)
       ELSE IF p[2] \notin call[h].listed THEN Lookup(h, p)
       ELSE IF GroupOf[p[2]] # call[h].group THEN NextNode(h, p, FALSE)
       ELSE GoTo(h, p, "release")
  /\ UNCHANGED <<inst, nodes, pid, cache, rec, loop>>

\* (mutant) The Node goes although the release failed.
ReleaseOrNot(h) ==
  /\ call[h].pc = "release"
  /\ \E ok \in BOOLEAN : ReleaseInstance(call[h].cur[2], ok)
  /\ GoTo(h, call[h].cur, "delete")
  /\ UNCHANGED <<nodes, pid, rec, loop>>

ReleaseFirst(h) ==
  LET p == call[h].cur
  IN  /\ call[h].pc = "release"
      /\ \E ok \in BOOLEAN :
           /\ ReleaseInstance(p[2], ok)
           /\ IF ok THEN GoTo(h, p, "delete") ELSE NextNode(h, p, FALSE)
      /\ UNCHANGED <<nodes, pid, rec, loop>>

ThenDelete(h) ==
  /\ call[h].pc = "delete"
  /\ \E ok \in BOOLEAN :
       /\ DeleteNodeObject(call[h].cur[1], ok)
       /\ NextNode(h, call[h].cur, ok)
  /\ UNCHANGED <<inst, cache, rec, loop>>

Return(h) ==
  /\ call[h].pc = "node" /\ call[h].todo = {}
  /\ call' = [call EXCEPT ![h] = NoCall]
  /\ UNCHANGED <<inst, nodes, pid, cache, rec, loop>>
-----------------------------------------------------------------------------
(* ReconcileProviderIDs, called by the background loop and by Refresh. *)

Reconcilers == {"loop", "refresh"}
NoRec == [pc |-> "idle", need |-> {}, match |-> {}]

Refresh ==
  /\ rec["refresh"].pc = "idle"
  /\ cache' = None
  /\ rec' = [rec EXCEPT !["refresh"].pc = "list"]
  /\ UNCHANGED <<inst, nodes, pid, call, loop>>

\* A list or a describe that fails ends the pass.
Abandon(r) ==
  /\ rec[r].pc \in {"list", "fetch"}
  /\ rec' = [rec EXCEPT ![r] = NoRec]
  /\ UNCHANGED <<inst, nodes, pid, cache, call, loop>>

ListUncorrelated(r) ==
  LET need == {n \in nodes : pid[n] = None}
  IN  /\ rec[r].pc = "list"
      /\ rec' = [rec EXCEPT ![r] =
           IF need = {} THEN NoRec ELSE [NoRec EXCEPT !.pc = "fetch", !.need = need]]
      /\ UNCHANGED <<inst, nodes, pid, cache, call, loop>>

\* (mutant) The listing may come from the cache.
CorrelateCached(r) ==
  /\ rec[r].pc = "fetch"
  /\ \E l \in SUBSET Instances :
       LET match == {p \in rec[r].need \X l : Address[p[1]] = Address[p[2]]}
       IN  /\ Read(l)
           /\ rec' = [rec EXCEPT ![r] =
                IF match = {} THEN NoRec
                ELSE [NoRec EXCEPT !.pc = "patch", !.match = match]]
  /\ UNCHANGED <<inst, nodes, pid, call, loop>>

\* A forced listing; Nodes and instances are matched by address.
Correlate(r) ==
  LET match == {p \in rec[r].need \X Listed : Address[p[1]] = Address[p[2]]}
  IN  /\ rec[r].pc = "fetch"
      /\ cache' = Listed
      /\ rec' = [rec EXCEPT ![r] =
           IF match = {} THEN NoRec ELSE [NoRec EXCEPT !.pc = "patch", !.match = match]]
      /\ UNCHANGED <<inst, nodes, pid, call, loop>>

\* A patch is refused where the Node is gone or has a providerID by now.
Patch(r) ==
  /\ rec[r].pc = "patch"
  /\ \E p \in rec[r].match :
       /\ rec' = [rec EXCEPT ![r] = IF rec[r].match = {p} THEN NoRec
                                    ELSE [rec[r] EXCEPT !.match = @ \ {p}]]
       /\ \/ /\ p[1] \in nodes /\ pid[p[1]] = None
             /\ pid' = [pid EXCEPT ![p[1]] = p[2]]
          \/ UNCHANGED pid
  /\ UNCHANGED <<inst, nodes, cache, call, loop>>
-----------------------------------------------------------------------------
(* backgroundLoop: the reconciler, the janitor, the stale-Node cleanup. *)

Waiting == [pc |-> "tick", spared |-> {}, victims |-> {}, suspects |-> {},
            doomed |-> None, cleaned |-> 0]

Tick ==
  /\ loop.pc = "tick"
  /\ loop' = [loop EXCEPT !.pc = "joined"]
  /\ rec' = [rec EXCEPT !["loop"].pc = "list"]
  /\ UNCHANGED <<inst, nodes, pid, cache, call>>

\* An error of a list or a describe skips the janitor, not the cleanup.
SkipJanitor ==
  /\ loop.pc \in {"joined", "keys", "scan"} /\ rec["loop"].pc = "idle"
  /\ loop' = [Waiting EXCEPT !.pc = "nodes"]
  /\ UNCHANGED <<inst, nodes, pid, cache, call, rec>>

JoinedInstanceIDs ==
  /\ loop.pc = "joined" /\ rec["loop"].pc = "idle"
  /\ loop' = [loop EXCEPT !.pc = "keys", !.spared = {pid[n] : n \in nodes} \ {None}]
  /\ UNCHANGED <<inst, nodes, pid, cache, call, rec>>

\* The instances a Node points to by name, providerID or address.
Keyed == {i \in Instances : \E n \in nodes :
            n = i \/ pid[n] = i \/ Address[n] = Address[i]}

ManagedNodeKeys ==
  /\ loop.pc = "keys"
  /\ loop' = [loop EXCEPT !.pc = "scan", !.spared = @ \cup Keyed]
  /\ UNCHANGED <<inst, nodes, pid, cache, call, rec>>

\* Which instances are past JOIN_TIMEOUT or dead is left open.
JanitorScan ==
  /\ loop.pc = "scan"
  /\ \E l \in SUBSET Instances :
       /\ Read(l)
       /\ \E old \in SUBSET l :
            loop' = [loop EXCEPT !.pc = "janitor", !.spared = {},
                       !.victims = IF JanitorRelease THEN old \ loop.spared ELSE {}]
  /\ UNCHANGED <<inst, nodes, pid, call, rec>>

JanitorStep ==
  /\ loop.pc = "janitor"
  /\ IF loop.victims = {}
     THEN loop' = [loop EXCEPT !.pc = "nodes"] /\ UNCHANGED <<inst, cache>>
     ELSE \E i \in loop.victims, ok \in BOOLEAN :
            /\ ReleaseInstance(i, ok)
            /\ loop' = [loop EXCEPT !.victims = @ \ {i}]
  /\ UNCHANGED <<nodes, pid, call, rec>>

\* The instance a Node is taken to stand for: providerID first, then name.
NodeId(n) == IF pid[n] # None THEN pid[n] ELSE n

\* (mutant) A Node without a providerID is left alone.
CandidatesByProviderID(S) ==
  /\ loop.pc = "nodes" /\ S \subseteq nodes
  /\ loop' = [loop EXCEPT !.pc = "clean",
                !.suspects = {<<n, pid[n]>> : n \in {m \in S : pid[m] # None}}]
  /\ UNCHANGED <<inst, nodes, pid, cache, call, rec>>

\* The Nodes that are NotReady past the grace; none where the list fails.
StaleNodeCandidates(S) ==
  /\ loop.pc = "nodes" /\ S \subseteq nodes
  /\ loop' = [loop EXCEPT !.pc = "clean", !.suspects = {<<n, NodeId(n)>> : n \in S}]
  /\ UNCHANGED <<inst, nodes, pid, cache, call, rec>>

\* (mutant) The cap is forgotten.
ConfirmUncapped(p, gone) ==
  /\ loop.pc = "clean" /\ p \in loop.suspects
  /\ gone => ~Live(p[2])
  /\ loop' = [loop EXCEPT !.suspects = @ \ {p},
                          !.pc = IF gone THEN "delete" ELSE @,
                          !.doomed = IF gone THEN p[1] ELSE @]
  /\ UNCHANGED <<inst, nodes, pid, cache, call, rec>>

\* The uncached lookup; one that fails, or finds the instance, skips.
Confirm(p, gone) ==
  /\ loop.pc = "clean" /\ loop.cleaned < CleanupCap /\ p \in loop.suspects
  /\ gone => ~Live(p[2])
  /\ loop' = [loop EXCEPT !.suspects = @ \ {p},
                          !.pc = IF gone THEN "delete" ELSE @,
                          !.doomed = IF gone THEN p[1] ELSE @]
  /\ UNCHANGED <<inst, nodes, pid, cache, call, rec>>

CleanNode(n, ok) ==
  /\ loop.pc = "delete" /\ loop.doomed = n
  /\ DeleteNodeObject(n, ok)
  /\ loop' = [loop EXCEPT !.pc = "clean", !.doomed = None,
                          !.cleaned = IF ok THEN @ + 1 ELSE @]
  /\ UNCHANGED <<inst, cache, call, rec>>

EndTick ==
  /\ loop.pc = "clean" /\ (loop.suspects = {} \/ loop.cleaned = CleanupCap)
  /\ loop' = Waiting
  /\ UNCHANGED <<inst, nodes, pid, cache, call, rec>>
-----------------------------------------------------------------------------
Restart ==
  /\ cache' = None
  /\ call' = [h \in Handlers |-> NoCall]
  /\ rec' = [r \in Reconcilers |-> NoRec]
  /\ loop' = Waiting
  /\ UNCHANGED <<inst, nodes, pid>>

Init ==
  /\ inst = [i \in Instances |-> "free"]
  /\ nodes = {} /\ pid = [n \in Instances |-> None]
  /\ cache = None
  /\ call = [h \in Handlers |-> NoCall]
  /\ rec = [r \in Reconcilers |-> NoRec]
  /\ loop = Waiting

World == \E i \in Instances : Boot(i) \/ Vanish(i) \/ Register(i) \/ SetByHand(i)

Handle(h) == (\E g \in Groups : DeleteNodes(h, g))
             \/ CheckNode(h) \/ ReleaseFirst(h) \/ ThenDelete(h) \/ Return(h)

Reconcile(r) == Abandon(r) \/ ListUncorrelated(r) \/ Correlate(r) \/ Patch(r)

Janitor == SkipJanitor \/ JoinedInstanceIDs \/ ManagedNodeKeys
           \/ JanitorScan \/ JanitorStep

Cleanup ==
  \/ \E S \in SUBSET Instances : StaleNodeCandidates(S)
  \/ \E p \in Instances \X Instances, gone \in BOOLEAN : Confirm(p, gone)
  \/ \E n \in Instances, ok \in BOOLEAN : CleanNode(n, ok)
  \/ EndTick

Background == Tick \/ Reconcile("loop") \/ Janitor \/ Cleanup

Running ==
  \/ World \/ Refresh \/ Reconcile("refresh") \/ Background
  \/ \E h \in Handlers : Handle(h)

Next == Running \/ Restart

Spec == Init /\ [][Next]_vars

\* After the last restart the loop runs on; a call to Kubernetes or ENS that is made again and again
\* works again and again; and the Node of an instance that is gone is NotReady
\* from some tick on, and past its grace.
Fairness ==
  /\ WF_vars(Background)
  /\ SF_vars(\E S \in SUBSET Instances :
               {n \in nodes : inst[n] = "gone"} \subseteq S /\ StaleNodeCandidates(S))
  /\ \A p \in Instances \X Instances : SF_vars(Confirm(p, TRUE))
  /\ \A n \in Instances : SF_vars(CleanNode(n, TRUE))

FairSpec == Init /\ [][Running]_vars /\ Fairness
-----------------------------------------------------------------------------
(* Properties. *)

Pairs == Instances \X (Instances \cup {None})

\* Every variable has the values its part of the program can give it: a
\* handler has a Node in hand only between its check and its deletion, a
\* reconciler has Nodes to match or patches to send only in that phase, and
\* the cleanup never counts past its cap.
TypeOK ==
  /\ inst \in [Instances -> Status]
  /\ nodes \subseteq Instances
  /\ pid \in [Instances -> Instances \cup {None}]
  /\ \A n \in Instances \ nodes : pid[n] = None
  /\ cache = None \/ cache \subseteq Instances
  /\ \A h \in Handlers :
       /\ call[h].pc \in {"idle", "node", "release", "delete"}
       /\ call[h].group \in Groups \cup {None} /\ call[h].listed \subseteq Instances
       /\ call[h].todo \subseteq Pairs /\ call[h].done \subseteq Pairs \ call[h].todo
       /\ call[h].failed \in BOOLEAN
       /\ IF call[h].pc \in {"release", "delete"}
          THEN call[h].cur \in call[h].todo \cap (Instances \X Instances)
          ELSE call[h].cur = None
  /\ \A r \in Reconcilers :
       /\ rec[r].pc \in {"idle", "list", "fetch", "patch"}
       /\ rec[r].need \subseteq Instances /\ rec[r].need # {} <=> rec[r].pc = "fetch"
       /\ rec[r].match \subseteq Instances \X Instances
       /\ rec[r].match # {} <=> rec[r].pc = "patch"
  /\ loop.pc \in {"tick", "joined", "keys", "scan", "janitor", "nodes", "clean", "delete"}
  /\ loop.spared \subseteq Instances /\ loop.victims \subseteq Instances
  /\ loop.suspects \subseteq Instances \X Instances
  /\ loop.doomed \in IF loop.pc = "delete" THEN Instances ELSE {None}
  /\ loop.cleaned \in 0 .. CleanupCap

\* No Node is deleted, by a handler or by the cleanup, while the instance it
\* registered for is up: not by a release that failed or was refused, not by
\* a stale listing, not by a providerID that names another instance.
LiveNodeKept ==
  [][\A n \in nodes \ nodes' : ~Live(n)]_vars

\* The Node of an instance that is up is correlated with that instance or with
\* none, although addresses change hands: a reconciler that matched it with
\* another one (of its own listing, or of the other reconciler's) would have a
\* scale-down of this Node release the other.
LiveNodeTrue ==
  \A n \in nodes : Live(n) => pid[n] \in {n, None}

\* A DeleteNodes handler releases instances of the requested group only,
\* whatever its listing and the providerIDs of the batch are worth by now, and
\* whatever the labels of the Nodes say.
GroupRespected ==
  [][\A h \in Handlers : call[h].pc = "release" /\ call'[h] # call[h] =>
       \A i \in Instances : inst'[i] # inst[i] => GroupOf[i] = call[h].group]_vars

\* A batch of which nothing was reported as failed is a batch of which no
\* instance is left up, however many of its steps failed before and were
\* sent again: the autoscaler may strike all of it from its books.
SuccessMeansReleased ==
  \A h \in Handlers : ~call[h].failed =>
    \A p \in call[h].done : p[2] # None /\ ~Live(p[2])

\* A Node whose instance, as its providerID or else its name tells, is gone
\* does not stay: the cleanup finds it, through restarts, failing calls and
\* the cap on its deletions.
GoneNodeReaped ==
  \A n \in Instances : []<>~(n \in nodes /\ inst[NodeId(n)] = "gone")

\* "Stale Node objects whose instance is confirmed gone by an uncached
\* describe are reaped" (README.md:101-102): no Node outlives the instance it
\* registered for without end.
StaleNodeReaped ==
  \A n \in Instances : []<>~(n \in nodes /\ inst[n] = "gone")

\* "a node-in-progress (IP already registered, providerID not yet patched) is
\* never touched" (janitor.go:15-16): the janitor releases no instance whose
\* Node has registered.
JanitorSparesNodes ==
  [][\A i \in Instances :
       loop.pc = "janitor" /\ i \in loop.victims \ loop'.victims /\ Live(i) /\ inst'[i] # "up"
         => i \notin nodes]_vars
=============================================================================
