# ens-provider: a TLA+ development

`ens-provider` is an external gRPC cloud provider for the Kubernetes
cluster-autoscaler. It scales node groups of Alibaba ENS edge instances: it
orders instances, reports what it owns, releases instances, keeps Nodes and
instances correlated, and runs as two replicas of which one serves. This
directory holds a TLA+ model of it, the TLC configurations that check the model,
and TLAPS proofs of its safety properties.

`PROJECT.json` lists the components, the runs, the source lines of every
definition, the hazards, the findings and the theorems.

## 1. The system

| Part | Where | State | Operations |
|---|---|---|---|
| Order guard | `reservations.go`, `ens.go` | per group: a mutex and a map of reservations (order name, expected count, creation, misses) | `executeGuardedOrder`, `effectiveOwned`, `maxGuard`, `orderBudget`, `submitOrder`, `awaitOpInstances` |
| Region inventory | `ens.go` | cached listing, its time, a fetch lock | `describeRegion`, `InvalidateCache`, `InstanceByID` |
| gRPC service | `server.go` | none of its own | `Refresh`, `NodeGroupTargetSize`, `NodeGroupIncreaseSize`, `NodeGroupDeleteNodes`, `NodeGroupNodes`, ... |
| Leadership | `leader.go`, `kube.go` | leader, shuttingDown, everLed, the term; the pod's label; the Lease | election callbacks, interceptors, `demote`, `Shutdown`, label purge and publication, `ClearLeaseHolder` |
| Reconciler | `kube.go` | Node providerIDs and annotations | `ReconcileProviderIDs`, `ensureAutonomy` |
| Janitor | `janitor.go` | none | alert, opt-in release of dead or never joined instances, deletion of stale Nodes |
| Readiness | `readiness.go` | last result | one bounded ping per interval, publishes transitions |
| Configuration | `groups.go` | groups and knobs, read once | `LoadConfig`, name ownership by prefix, providerID parsing |
| Template, userdata | `template.go`, `userdata.go` | none | the Node a group promises, the node-spec its instances join with |
| Wiring | `main.go`, the generated stubs | health statuses, the gRPC server | startup order, interceptors, background loop, `runServer` |
| Metrics | `metrics.go` | counters | increments, an exporter |

How they interact. The autoscaler's RPCs pass the leadership interceptor, which
gives each handler a context that dies with the leadership term. IncreaseSize
goes through an advisory check on the cached inventory to `RunInstances`, which
takes the group's order lock and, under it, fetches a fresh inventory (taking
the fetch lock), reconciles the reservations, checks the ceiling, reserves,
submits, and keeps or drops the reservation by the outcome. Releases, orders and
Refresh zero the age of the cache. The background loop, inside a term, runs the
reconciler and the janitor on the same inventory and Nodes.

What is hard: ENS lists an accepted order only some time later, and may answer
an accepted order with a timeout; handlers run concurrently and sleep for long
under locks; a restart forgets the reservations; the region is listed page by
page while it changes; the election can be lost at any instruction; a shutdown
has phases with one budget, each of which can run out; the label of a dead
process survives it.

What makes each part correct:

* order guard: a group never exceeds its maximum whatever ENS shows; a promise
  that may still come true is never given away; a refusal is justified; every
  call returns; headroom of an order that came to nothing is given back.
* inventory: a forced read is exact on a quiet region whose pages are all answered,
  and leaves out otherwise only what a removal shifted or what stood behind the answer
  that cut the walk short; any other read is stale by a bounded time, the cache never
  goes back, the lock is never left behind.
* leadership: one replica serves, its handlers die with its term, the Lease is
  handed over only by a process that can no longer act, and only a process that
  led is routed to; together they are one server, which each process is at most once.
* scale-down, reconciler, janitor: only instances of the requested group are
  released; a Node is deleted only after its instance is gone or its release
  accepted; a batch without an error leaves no instance of it running; a live
  Node is correlated with its own instance; the Node of a dead one is reaped.
* configuration: what `LoadConfig` accepts gives every instance name one owner and
  leads every id, label and providerID back to its group or instance; a template
  never panics and is what the Nodes will be.
* process: the health services say what the last check and the gate amount to,
  every call is answered, a signal at any moment ends the process in order, after
  its handlers.
* the loop as a whole: what the autoscaler is told is no older than its Refresh,
  it passes its demand only when it could not see what is in flight, and the
  demand is met in the end, but for what a stale reservation refuses.

## 2. Modules

| Module | Models |
|---|---|
| `OrderLedger` | what the order guard promises: a set of committed instances under an allowance |
| `OrderGuard` | the scale-up path of one group, from the RPC to ENS and back |
| `MCOrderGuard` | its small instance |
| `DescribeCache`, `MCDescribeCache` | the region inventory |
| `SingleServer` | what the replicas promise together: one that serves, once in its life, after all others' work |
| `Leadership`, `MCLeadership` | election, term, label, demotion, shutdown of the replicas |
| `ScaleDown`, `MCScaleDown` | DeleteNodes, the providerID reconciler, the janitor and the stale-Node cleanup |
| `NodeGroups` | configuration, names and labels, templates and node-spec, as operators |
| `Provider`, `MCProvider` | one process from its environment to its exit: start, health, gate, RPCs, shutdown |
| `Autoscaler`, `MCAutoscaler` | the autoscaler's loop over inventory, order path, ENS and Nodes of one group |
| `...Proofs` | the theorems about `OrderGuard`, `DescribeCache`, `Leadership`, `ScaleDown`, `NodeGroups`, `Provider`, `Autoscaler` |

`Provider` extends `NodeGroups`. `Autoscaler` composes what the others have in
detail: it keeps the cache of `DescribeCache`, of which only other readers' walks
take time here, and it has `OrderGuard`'s reservations without their clock. Both
`OrderGuard` and `Autoscaler` implement `OrderLedger`.

Each module holds, next to a definition, the mutants of it: the form that a
plausible bug would give it, marked `(mutant)`. They are not part of the
specification; each property is violated when the mutant its `PROJECT.json` row
names takes the place of the definition.

### OrderGuard

One group: groups have separate order states (`Cloud.orderState`) and share
nothing the guard reads. A handler `c` is at `pc[c]`; `holder` is
`groupOrderState.mu`; `reserved`, `age`, `misses` are the reservations. An order
name stands for the instance names that carry it as a prefix, so `ids[op]` is
the set of instances it ordered, and "visible" in `effectiveOwned` is
`ids[op] \cap listing`.

`Call` is the RPC up to the lock: the advisory check on a listing of any age can
let any delta pass that is at most the maximum, and a call refused there, a
delta of zero or less and a failed preparation change nothing. `Acquire`,
`Inventory`, then one of `Refuse`, `Abandon` (`orderBudget`) and `Submit`, each
of which performs the whole of `effectiveOwned`, as the code runs it before the
guard. `Submit` reserves before the wire, as the code does. Then `Accepted`,
`Rejected` or `Ambiguous`, and for the last the poll that ends in `Resolve`: each
of its three outcomes leaves the reservation where it is.

ENS is external: an order on the wire is taken or refused whatever the caller
learns, taken instances are hidden until they are listed or fail, listed ones
are released by scale-down or the janitor at any time. Four assumptions about
it: an order takes effect as a whole; it is decided and shown, or fails, within
`VisWindow` of its submit; a refusal that the caller learns of is a refusal; and a
forced inventory is the region at one moment. `DescribeCache` says when the last holds:
if no answer cuts the walk short, always for a region of one page (100 instances), else
unless the region changes under the walk.
`OrderGuardAssumption` says the visibility window, added to the time a call may
take from its `now` to its submit, is shorter than the reservation's lifetime
(15 minutes against seconds). Without it the code itself accepts an overshoot
("if the order lands later the owned math absorbs it", `reservations.go:83`).

`now` is sampled before the call queues for the lock; `waited[c]` is how far it
lies back, ages are compared with that clock, and a reservation is created
`waited[c]` old. `lost` is a history variable: what restarts hid. The code counts
`misses` without a bound and compares them with two; the model counts to `MaxMisses`,
any bound that is at least that, and no property is about the bound.

### DescribeCache

`cache`, `cacheAge` and `fetchMu` are the fields of `Cloud`. A reader checks
the cache, queues for the fetch lock, checks again, walks the region page by page
while it changes, and stores. `<<>>` is the nil slice: with no owned instance
`var owned []Instance` is never appended to. The other variables are the walk's
locals and history. New instances enter the listing first or last; ENS's order
is not documented, and these two are the ones that shift the pages or do not.
`OwnedOf` is the append loop with its ownership filter, as a recursion over the
page. A page is answered in one of three ways (`Answers`): `whole`; `uncounted`, with its
instances and no `TotalCount`; or `bare`, without a body or a list. The last two end the
walk there (`ens.go:249`, `ens.go:209`), and what it has by then is stored and returned
like a complete one. `Reach` is how much of the region such a walk is done with.
`there[r]` is what a forced read is to find: the owned instances listed at its call, less
any that goes, that stands behind one that goes, or behind the end of a walk cut short;
`calm[r]` says that nothing of the kind happened.

### Leadership

A replica's fields are those of `leadership`, `Shutdown`'s locals and the state
of the two goroutines that client-go starts: `elect` for `Run`, `cb` for the
`OnStartedLeading` callback, which `Run` never waits for. A handler is `work[r]`;
one per replica is enough, since each handler is cancelled and awaited alike.

`Service(r)` maps a replica to `SingleServer`: `serving` while it admits calls under a
live term, `fresh` while its process may still come to that, `spent` afterwards. The
Lease, the label, the elector and the phases of the shutdown are not seen there. A
replica that is down is `fresh`, as its next process will be.

`Lose` cancels the callback's context before `OnStoppedLeading`, as `Run`'s
deferred calls do; `Stopped` is that callback, `Demote` the first half of
`demote` and `DemoteExit` the rest. `Shutdown` is `Signal`, `Sample`,
`CancelFollower`, `Unlabel`, `Drain`, `Join`, `Release`, `Exit`; a phase that may
run out of the budget has a disjunct that clears `quiesced`. A demotion or crash
restarts the container in the same pod, with its label and, if it held it, its
Lease; a shutdown ends the pod, and its Lease is then `Departed`'s.

Time: `age` counts since the Lease's last renewal. A leader that cannot renew
gives up by `LoseBy` (retry period and renew deadline, 2 s and 10 s, against a
Lease of 15 s), and what follows the loss, the cancellation and the call to
`demote`, is not delayed beyond that. The second half of the assumption is what
a process paused as a whole would break. The callback's own start is not so
constrained: a goroutine may be scheduled late.

### ScaleDown

`inst`, `nodes` and `pid` are the world: what ENS runs, which Nodes exist, and
what their `spec.providerID` names. A Node has the id of its instance as its name
(`janitor.go:130`) and the address of its instance, for as long as the Node
exists; an address goes to another instance only when no live one has it. A
Node registers without a providerID, and one that is set does not change until
the Node is deleted, which is Kubernetes' rule. `LabelOf` is the nodepool label
and `GroupOf` the owner by name prefix: they agree unless somebody labels a Node
by hand, which is what `server.go:176` guards against; `SetByHand` is a
providerID that did not come from the reconciler.

`call[h]` is a DeleteNodes handler: `DeleteNodes` takes the batch and the
listing, `CheckNode` does the checks of one Node and, on a miss, the uncached
lookup, `ReleaseFirst` and `ThenDelete` the two effects. Each external call is
one step, may fail, and may fail after it took effect. The batch is worked off
in any order. `rec[r]` is a pass of `ReconcileProviderIDs`, by the loop or by a
Refresh; correlation is by address. `loop` is `backgroundLoop`: `Tick` starts the
reconciler, `JoinedInstanceIDs`, `ManagedNodeKeys` and `JanitorScan` read one
after the other, `JanitorStep` releases, `StaleNodeCandidates`, `Confirm`,
`CleanNode` and `EndTick` are the cleanup with its cap. Which unjoined instances
are old or dead, and which Nodes are NotReady past the grace, are choices.

`cache` is the inventory as an unforced read may be served it, of any age;
`DescribeCache` says how old that can be. `DescribeInstances` is taken as
monotonic here: the code accepts by decision (`server.go:208`) that a flickering
answer deletes the Node of a live instance, which re-registers. Handlers are
independent of each other but for what they share here, and are a parameter.

### NodeGroups and Provider

An environment is a record with a field per knob, a name is a sequence of tokens
(`Dot` one of them), a quantity is a number, `Unset` or `Garbage`. `Acceptable` is
every rule by which `LoadConfig` refuses, in terms of `Loaded`, which fills in the
defaults; the order of the rules does not matter, since any one refuses.
`validateTemplate` looks at one block at a time, `TemplateOf` merges blocks later,
as `BuildTemplateNode` does. `GroupForInstanceName` takes the longest prefix,
`InstanceIDFromProviderID` and `StrictEdgeInstanceID` are the two readings of a
providerID. `TemplateFixed` and `JoinFixed` are the labels that the template and the
node-spec each carry of their own; `Over` lays a group's labels over them, as both
functions write theirs last. The values that a kubelet would report are one token, and
that ACK puts the nodepool label on a Node that joined is external.

`Provider` starts a process in any of the environments (`Load`, `Refuse`), then
follows `main`: `Connect`, `Purge`, `Listen`, the readiness loop (`CheckBegins`,
`Ping`, `Publish`, `Tee`, the last two being the two halves of `teeHealth`),
`RunServer` and the shutdown's goroutine `Orchestra` beside it. `health` and
`named` are the statuses of the two health services, `terminal` says that
`Shutdown` of the health server has been called, after which writes are no-ops. A
call is `arrived`, `running` or `answered`: `Dispatch` is the interceptors' gate,
`Handle` a handler that returns one of the codes its method has (`Codes`), `Panic` one
that panics and is recovered. `HardStop` closes the connections over the handlers that
run: their calls are `cut`, answered at the client's end, and the shutdown waits in
`Stopped` until each has come to its end (`Unwind`), as `<-done` waits for
`GracefulStop` and that for the handlers. The election is external here; `Leadership` has it in detail.

### Autoscaler

One group, whose loop makes its calls in the order the cluster-autoscaler does:
`Refresh` with its reconciler, `NodeGroupTargetSize`, `NodeGroupNodes` and then
`JoinedInstanceIDs` (two reads, in that order), and by what they say `Settled`,
`NodeGroupDecreaseTargetSize` or `NodeGroupIncreaseSize`, the last followed by
`Inventory` and what becomes of the order: ENS takes it (`Order`), never receives it
though the provider cannot tell (`OrderLost`), or it is refused by the guard, the budget
or ENS (`Refused`). Each goes through the reservations first, as `effectiveOwned` does:
an order that is shown whole is dropped, one that is shown in part is kept, and one of
which nothing is shown and nothing can come any more may be dropped, being old enough, or
kept (`Kept`). The guard counts what is listed and what the kept ones still promise. A
reservation is the set of instances the order becomes: one for each that was ordered, as
the name and count of the code are. Which free ones ENS makes of an order plays no role,
so it is the lowest numbered. Any other call may fail (`GiveUp`). An instance goes from
`hidden` (ordered, not shown) through ENS's statuses; its Node registers, and is
correlated by the reconciler. Another reader's walk (`OtherBegins`, `OtherEnds`)
may begin before a `Refresh` and store after it. `view` and `since` are history:
how the last Refresh found things, and what changed since. `demand` is chosen at the
start. The autoscaler's own
choice, to ask for what the target is short of, is an assumption about it, as is
that it calls one RPC at a time.

## 3. Runs

| Run | Instance | Shows |
|---|---|---|
| `order_guard` | 2 handlers, 2 order names, 3 instances, maximum 2, deltas 1 and 2, lifetime 2, one tick of waiting and of visibility, at most one instance hidden by restarts | `TypeOK`, `Ceiling`, `InFlightReserved`, `RefusalJustified`, `LedgerSpec` |
| `order_liveness` | 2 handlers, 1 order name, 2 instances, delta 2, lifetime 3, submit up to one tick after `now` | `CallsReturn`, `LostOrderFrees` |
| `stale_reservation` | the same | refutes `StaleReservationTemporary` |
| `describe_cache` | 2 readers, 2 owned instances and a foreign one, pages of 1, lifetime 2, walks of up to one tick, any answer to a page | `TypeOK`, `LockHeldByFetcher`, `ForcedIsExact`, `LeftOutExplained`, `BoundedStaleness`, `NeverOlder` |
| `leadership` | 2 replicas, Lease 3, give-up at 2, 2 crashes or shutdowns | `TypeOK`, `ExclusiveService`, `WorkDiesWithTerm`, `QuietRelease`, `LabelMeansLed`, `OneServer` |
| `loss_without_exit` | 2 replicas, Lease 2, give-up at 1 | refutes `LossMeansExit` |
| `scale_down` | 2 instances with one address, of two groups but with one label, 1 handler, batches of 2, 1 deletion per tick, `JANITOR_RELEASE` off | `TypeOK`, `SuccessMeansReleased`, `LiveNodeTrue`, `LiveNodeKept`, `GroupRespected` |
| `stale_node_cleanup` | the same without a handler, `JANITOR_RELEASE` on | `GoneNodeReaped` |
| `recycled_address`, `janitor_race` | the same without a handler, `JANITOR_RELEASE` off and on | refute `StaleNodeReaped`, `JanitorSparesNodes` |
| `provider_process` | about 1300 environments that differ from a plain one, of which two (with and without election) are followed past their configuration; one call at a time of one of three methods | `TypeOK`, `HonestHealth`, `OneOwner`, `GroupsTellApart`, `TemplateSound`, `PromiseKept`, `ProviderIDsAgree`, `OrderlyExit`, `ProcessEnds`, `CallsAnswered` |
| `autoscaler` | 3 instances, maximum 2, demands of 1 and 2, and one of: an instance that fails or stops, a lost order, a restart, a walk of another reader | `TypeOK`, `LoopIsCurrent`, `NothingToCancel`, `OvershootExplained`, `DemandMet` |

Why the bounds are enough. In the order guard, two handlers and two names make
an order in flight meet another that is deciding; three instances against a
maximum of two make an overshoot possible and, with a delta of two, a partial
listing; the lifetime is longer than the window by the least the assumption
allows, so that expiry comes as early as it may. Instances, names and handlers
are interchangeable and reduced by symmetry in the safety run only. In the
inventory, three instances over pages of one are the least walk that both an arrival
and a removal can shift; a second reader is one that queues behind a fetch. In leadership two replicas are what is deployed, and two stops cover
a crash during a shutdown's handover and the shutdown of the successor. In
scale-down, two instances that share an address are the least that can be taken
for each other, and a cap of one makes the second wait for a tick. As only one
of them is of the group, a batch of two there always has a refused Node: what
the other one's success claims is checked before and after the refusal.
`scale_down` has the janitor's releases off, as deployed by default; to a handler
they look like instances that vanish, which it has.

In `provider_process` an environment departs from the plain one in the knobs that
one rule reads together: three groups with any prefixes of up to two tokens (equal,
nested, equally long), two with any ids and nodepools, sizes, template blocks and
types, labels and taints. `Envs`, `Tails` and `Pids` are bounds of what is
enumerated, `Followed` of what is followed: after `Listen` the process reads of its
configuration only whether there is an election. Of the methods one answers from
this process, one may fail in every way, and one is unimplemented. In `autoscaler`,
a demand of one is the least that can be overshot within the maximum, and a demand of two
the least that is ordered as a whole and may fail in part; the third instance is the
replacement of the one that failed, under a new name. One trouble is enough for each case
that a property names: a part of an order that fails, an order that is lost, an instance
that stops, a restart over a hidden order, or a walk that a Refresh overtakes
(`view = "raced"`). All 261,835 states are explored.

`leadership` does not check deadlock: two replicas whose elections both ended as
`loss_without_exit` shows really do stop. Nor does `provider_process`: a process
ends.

Fairness (`order_liveness`). A handler that can go on does: each SDK call it
makes under the lock has connect and read timeouts. `sync.Mutex` hands the lock
to a waiter that has starved for a millisecond, so a waiter's `Acquire` is
strongly fair. An inventory does not fail for ever, ENS decides what is on the
wire and shows or fails what it took, and time passes. The autoscaler goes on
calling while pods are pending: `LostOrderFrees` needs it, because only a call
reconciles reservations.

Fairness (`stale_node_cleanup`). After the last restart the background loop runs
on, as each of its calls has a timeout. A list, a describe and a deletion that
the loop makes again and again works again and again, and the Node of a dead
instance turns NotReady and stays so, so that it is a candidate of every tick
from some tick on. `FairSpec` has no restarts: what a restart leaves, idle
processes beside any Nodes and instances, is reached without one.

Fairness (`provider_process`). Goroutines that can go on do: the start, `runServer`,
the shutdown, a demotion's exit. A handler comes to its end, cut off or not, for every
wait in it has a timeout: the SDK's calls have connect and read timeouts, the order's
polls a deadline, the Kubernetes calls a context of their own. `ProcessEnds` rests on
that: after a hard stop the process waits for its handlers. Nothing makes a signal, a
failure or the readiness loop come.

Fairness (`autoscaler`). Again and again the loop comes to its end without a failed
call in it (`[]<><<Loop /\ Over>>_vars`): a loop is a dozen calls, each bounded by a
timeout, and an API that fails in every loop for ever is an outage. The patches of a
reconciler, and an order that is asked for again and again, succeed again and again, the
order also with every reservation expired that can be, since it is asked for until 15
minutes and two misses have passed. A walk of another reader ends; ENS shows, boots and
joins what it took; and what stopped is released, by the autoscaler, which is told
`deleting`, or by the janitor. Without that last one `DemandMet` fails: a stopped
instance counts in `NodeGroupTargetSize` until it is gone, so nothing is ordered in
its place.

`DemandMet` has a second disjunct, `LeftoverBlocks` for good, and needs it: with a
demand and a maximum of two, an order of two of which one fails and the other comes
keeps its reservation (`reservations.go:83`), so each replacement is refused for as long
as the other lives. This is what `StaleReservationTemporary` says of the guard alone, seen
from the autoscaler.

### What disagrees with a comment

* `StaleReservationTemporary` (`reservations.go:20`): an order of two, one of
  them released while the other lives, keeps its reservation as long as the other
  lives, for `misses` is reset by any visible instance.
* `LossMeansExit` (`leader.go:408`): an election lost before the callback's first
  instruction leaves a process that has no election, no term and no exit. It
  takes a callback delayed by the renew deadline, or a pause of the process just
  then; the pod stays ready and cannot take over later.
* `StaleNodeReaped` (`README.md:101`): a Node whose instance died before it was
  correlated gets the providerID of the instance that took its address, and the
  cleanup then takes it for that one. `GoneNodeReaped` is what does hold.
* `JanitorSparesNodes` (`janitor.go:15`): a Node that registers after the
  janitor's lists does not save its instance, with `JANITOR_RELEASE=true`.

Further things the models show, without a run of their own:

* A page without a body or a list (`ens.go:209`), or without a `TotalCount` (`ens.go:249`),
  ends a walk without an error, and the truncated listing is cached and returned as complete:
  the order guard takes too few for owned. The SDK answers so only where ENS does.
* In a region of more than one page a removal under a forced walk may hide an instance
  from it, and an arrival may count one twice (`ens.go:200`): the order guard then takes
  one too few or too many for owned. `LeftOutExplained` states what can be left out.
* A walk under way overwrites an invalidation (`ens.go:168`, `ens.go:172`): the next
  unforced read gets what ENS showed before it. `LoopIsCurrent` excepts just this
  case. Forced reads, which the order guard uses, are not affected.
* With no instance owned the cache is a nil slice and never serves (`ens.go:177`,
  `ens.go:183`): every read of an empty region fetches.
* The source's README says (`README.md:36`, `README.md:81`) that `TargetSize` counts
  what is in flight, so the autoscaler does not overshoot. The maximum is never
  passed, but the demand can be: `NodeGroupTargetSize` (`server.go:121`) is the
  cached count and leaves out reservations, so an order that ENS has not shown by the
  next loop is made again. `OvershootExplained` says when.
* The template promises the edge and addon labels (`template.go:26-33`) that the
  node-spec no longer carries (`userdata.go:53-54`), and a template says nothing of the
  interconnection mode, which the node-spec sets. A pod that selects on the first is
  planned for a Node that lacks the label, unless somebody else puts it there.
  `PromiseKept` names them.
* Configuration. Two template blocks that are each sound may merge into one whose
  allocatable exceeds its capacity; an empty `template: {}` satisfies the rule that a
  foreign instance type needs one; an explicit `max: 0` becomes 4; a label of a group
  may override its nodepool label; a region with a dot in it is read wrongly by the
  lenient providerID parser. The properties name these exceptions.
* The accepted election timings do not imply that retry period and renew deadline
  together are shorter than the Lease, which `LeadershipAssumption` needs.
* The hard stop of the shutdown (`main.go:264`) still waits for handlers to return: the
  budget bounds when their callers are cut off, not when the process is gone.

## 4. Proofs

Every safety property of the passing runs, the two refinements included, is proved for
all values of the constants that the named assumptions allow. Each module with proofs defines an `IInv`, shows that `Init` implies
it and that every action keeps it, and derives its theorems from it; `IInv` was first
checked by TLC. The constants that only bound a run (`MaxWait`, `MaxLost`,
`MaxStops`, `MaxBatch`, `MaxMisses`, `MaxTroubles`, `Followed`, `Calls`, ...) are
arbitrary in the theorems.

### OrderGuardProofs

`TypeCorrect`, `CeilingHolds`, `InFlightReservedHolds`, `RefusalJustifiedHolds`,
`ImplementsLedger`.

The ceiling is not inductive. `Submit` adds instances and looks only at the fetched
listing and the reservations; so the invariant must say that everything committed is
listed in the holder's listing, outstanding in a kept reservation, or lost by a
restart. That rests on three further facts. Names own disjoint sets of instances, so
counting listing and remainders counts each instance once. A reservation that a
pending order needs is never dropped: it is not `Filled`, because what is hidden is
not in a listing, and not `Expired`, because its age less the waiting of the call
that looks is below the lifetime while the order is in its window
(`CallBudget + VisWindow < TTL`). And only the holder of the order lock is past the
lock, so nothing is committed between its inventory and its submit. `RefusalJustified`
and the ledger's steps are then facts about single steps: `Submit` is `Admit`,
`Restart` is `Forget`, what fails or is released or refused is `Drop`, the rest
stutters. `Restart` also stands for the end of a term: a handler whose context is dead
is refused right before the reservation, so what the next replica may still meet is
what was submitted, and that is what `lost` counts.

### DescribeCacheProofs

`TypeCorrect`, `LockHeldByFetcherHolds`, `BoundedStalenessHolds`, `NeverOlderHolds`,
`OwnedOfExact`, `ForcedIsExactHolds`, `LeftOutExplainedHolds`, for any readers,
region and page size.

The ages rest on the lock. As one reader walks at a time, a walk under way began no
earlier than the one behind the cache (`Walks`), and a listing that still is fresh is
older than its age by one walk at most (`Fresh`).

What a read returns rests on laws of `OwnedOf`: it exists, it gives owned instances
only, it distributes over concatenation (`OwnedOfConcat`), it holds each owned instance
of its argument (`OwnedOfSet`), once if the argument does (`OwnedOfExact`). Each is an
induction over a length. The library's induction theorems take an operator as a
parameter and cannot be cited; the proofs take a least counterexample instead (`Least`,
from the well-foundedness of the naturals), which needs a set only. Then `Collected`: on
a region that stands still a walk holds what `OwnedOf` gives of the pages it has been
through, and a page adds the next stretch (`NextPage`). And `Covered`, for a region that
changes: an instance that is to be found is collected, or its position lies ahead of the
walk. An arrival at the front moves it back, so it is met again; one at the end does not
move it; an answer that cuts the walk short takes what lies beyond `Reach` out of the
promise; a removal moves it only if it was in front, and then it is promised no more.

### LeadershipProofs

`TypeCorrect`, `ExclusiveServiceHolds`, `WorkDiesWithTermHolds`, `QuietReleaseHolds`,
`LabelMeansLedHolds`, `ImplementsSingleServer`.

A live term has an elector that leads (`TermLed`), and an elector that leads holds
the Lease and gives it up before it can be taken (`LeaderHolds`, from
`LoseBy < LeaseDuration`): two live terms would be two holders. The quiet release is
about the shutdown: what one of its phases saw ended cannot begin again
(`StaysQuiet`), because each phase closes the door, the gate, the election or the
callback's first instruction, before it looks.

The refinement is a step simulation. A service begins in the callback's admission alone:
the process is `fresh` because a callback runs once, and the exclusive service of the
invariant is the abstract guard. What ends a term, a demotion, a shutdown or a loss
before the callback, is `End`, with the handler cancelled in the same step or later;
crashes and restarts are `Replace`, for which the invariant says that a replica that is
down has nothing left of its process (`DownBlank`). All steps of the Lease, the label,
the elector and the shutdown's waiting stutter.

### ScaleDownProofs

`TypeCorrect`, `LiveNodeTrueHolds`, `LiveNodeKeptHolds`, `SuccessMeansReleasedHolds`,
`GroupRespectedHolds`, for any instances, groups, addresses, handlers and batches.

An instance only goes on, from free to up to releasing to gone (`Forward`). So what
is known of a Node and the instance it is taken for when they are paired stays true
for as long as the pair waits, in a batch, in a reconciler's match or in the cleanup's
list: both have existed, and if they differ the Node's own instance is dead
(`Known`). A pair is formed by an address, and two instances that are up do not share
one (`Addressed`). `Turn` says that the loop's reconciler is idle while the loop is
elsewhere. `LiveNodeKept` needs that `DescribeInstances` is monotonic, which is where
the code itself decides to accept more (`server.go:208`).

### NodeGroupsProofs and ProviderProofs

`NameHasOneOwner`, and `TypeCorrect`, `HonestHealthHolds`, `OrderlyExitHolds`,
`OneOwnerHolds`, `GroupsTellApartHolds`, `TemplateSoundHolds`, `PromiseKeptHolds`,
`ProviderIDsAgreeHolds`.

The first assumption is `Shape`: an environment has its fields, its names are
sequences of tokens, its groups are numbered. Whatever `Acceptable` accepts is then
`Sound` once `Loaded`, and each property of the configuration follows from that. Two
prefixes of one name are nested (`PrefixesNest`), and accepted prefixes are not: so a
name that begins with a group's prefix has no other candidate, and the longest-prefix
rule never has to decide. Distinct ids and nodepools (after the default that makes a
nodepool the id) lead back to their group. A providerID is the region, the dot, and
one token: the strict reader takes exactly these, and without a dot in the region
the first dot is the one between. `PromiseKept` is a case for each kind of label: one
that the group sets comes last in both (`LabelsKept`), one that neither sets is fixed in
both or among the exceptions (`LabelsPromised`).

Of the process, `HonestHealth` is not inductive without `Unheard` (nothing is
published before the listener is open) and `TeeKnows` (between the two halves of the
tee only the health server knows the result); `OrderlyExit` needs `Joined`: a
shutdown that is done drained or closed the server, unless a demotion came first, and
then no handler is left.

### AutoscalerProofs

`TypeCorrect`, `LoopIsCurrentHolds`, `NothingToCancelHolds`,
`OvershootExplainedHolds`, `ImplementsLedger`.

The maximum: what exists is listed, or promised by a reservation that is kept, or was
forgotten by a restart (`Spoken`), which `Reserve` counts; a reservation that is dropped
is shown whole, or nothing of it exists. An order is for instances that no kept
reservation promises, so listing and reservations count each once; `Unreserved` is what
neither speaks of.

A Refresh that no walk was under way for empties the cache, and one walk goes at a
time. So every listing read afterwards began after the Refresh, and each later one
misses nothing of an earlier one but what went away in between; the instances that
the target counted are kept as a witness (`Counted`) through cache, walk and report
(`Fresh`). With no order hidden at the Refresh nothing is hidden until the loop
itself orders, so every listing has all that the group has and the target covers it
(`Clear`): then what `Order` adds makes up the demand exactly.

### Only model-checked

Liveness (`CallsReturn`, `LostOrderFrees`, `GoneNodeReaped`, `ProcessEnds`,
`CallsAnswered`, `DemandMet`) under the fairness of section 3, which the prover does
not reach; and the four counterexamples.

## 5. Not modelled

`PROJECT.json` gives the reason per component. Metrics are counters that nothing
reads back; `externalgrpc.pb.go` is the marshalling of messages, generated and without
logic of the provider; the chart and the build files deploy it. Of the userdata, the
labels and taints of the node-spec are modelled and the shell script around them is
not: it runs on the instance. Left out of modelled components: the autonomy
annotation, the correlation of a Node that bears an instance's name instead of its id,
the metrics listener, `LeaderElect=false` in `Leadership` (`Provider` has it), logging. In
`ScaleDown` a Node without the nodepool label, a Node without a name (whose deletion is
skipped) and the switch `JANITOR_NODE_CLEANUP` are left out, and a batch is worked off in
any order: no property rests on them.

Hazards without a property: a label PATCH that lands after its process died
(`leader.go:435`), and the lookup that finds an instance gone while ENS does not show
it (`server.go:207`), which the code accepts by decision. Too small to model: a delta
that wraps the count in 32 bits (`ens.go:374`; the autoscaler asks for a handful), and
two orders of one group that draw the same 16-bit id in the same second
(`ens.go:466`): a model can only assume the collision or its absence, and the names
of `OrderGuard` are assumed distinct while in use.

## 6. Plan

Done, in this order: `OrderLedger`, `OrderGuard` and its proofs; `DescribeCache`,
`Leadership`; `ScaleDown`; `NodeGroups` and `Provider`; `Autoscaler`; the proofs of
all of them; `SingleServer` and the refinement to it; what the walk of `DescribeCache`
collects.

Left:

1. The walk of `DescribeCache` as the inventory of `OrderGuard`. `LeftOutExplained`
   says what a walk may leave out; what the ceiling then promises, in a region of more
   than one page, is not stated.
2. A label PATCH in `Leadership` that outlives its process.
3. Two groups in `Autoscaler`, which share the cache and the fetch lock.
