---------------------------- MODULE DescribeCache ----------------------------
(***************************************************************************)
(* The region inventory of Cloud.describeRegion (ens.go): a cached listing *)
(* with a lifetime, one fetch at a time, a walk over the pages of ENS's    *)
(* DescribeInstances, and InvalidateCache, which may come at any moment    *)
(* from a Refresh, a release or an order.                                  *)
(*                                                                         *)
(* A read returns the listing that is in the cache when it returns, be it  *)
(* its own or another reader's.                                            *)
(***************************************************************************)
EXTENDS Integers, Sequences, SequencesExt

CONSTANTS
  Readers,    \* concurrent callers of describeRegion
  Instances,  \* instances the region may hold
  Owned,      \* those whose name carries the prefix of a group
  None,       \* no reader
  PageSize,   \* instances per page of DescribeInstances
  TTL,        \* DescribeTTLSeconds
  MaxFetch    \* bound: ticks a walk may take (the SDK timeouts)

ASSUME DescribeCacheAssumption ==
  /\ Owned \subseteq Instances
  /\ None \notin Readers
  /\ {PageSize, TTL} \subseteq Nat \ {0}
  /\ MaxFetch \in Nat

VARIABLES
  region,    \* the instances at ENS, in the order it lists them
  cache,     \* Cloud.cache; <<>> is the nil slice
  cacheAge,  \* ticks since Cloud.cacheAt (TTL: expired or zeroed)
  fetchMu,   \* who holds Cloud.fetchMu
  pc, force, \* the readers
  page, acc, \* the walk of each reader: next page, instances so far
  began,     \* ticks since it began
  since,     \* ticks since the walk behind the cache began (history)
  calm,      \* since the call the region did not change, and no answer cut
             \* the walk short (history)
  there      \* of a forced call: the owned that were listed then, but for those
             \* that went, that stood behind one that went, or behind the end
             \* of a walk cut short (history)

readVars  == <<pc, force, fetchMu>>
walkVars  == <<page, acc, began>>
cacheVars == <<cache, cacheAge, since>>
histVars  == <<calm, there>>
vars == <<region, readVars, walkVars, cacheVars, histVars>>

\* (mutant) Names that match no group are not skipped.
WholeOf(s) == s

\* The instances whose name carries a group's prefix, appended one by one.
OwnedOf(s) ==
  LET upTo[n \in 0..Len(s)] ==
        IF n = 0 THEN <<>>
        ELSE IF s[n] \in Owned THEN Append(upTo[n - 1], s[n]) ELSE upTo[n - 1]
  IN  upTo[Len(s)]
Horizon    == TTL + MaxFetch

Init ==
  /\ region \in SeqOf(Instances, 1)
  /\ cache = <<>> /\ cacheAge = TTL /\ since = Horizon
  /\ fetchMu = None
  /\ pc = [r \in Readers |-> "idle"]
  /\ force = [r \in Readers |-> FALSE]
  /\ page = [r \in Readers |-> 1]
  /\ acc = [r \in Readers |-> <<>>]
  /\ began = [r \in Readers |-> 0]
  /\ calm = [r \in Readers |-> FALSE]
  /\ there = [r \in Readers |-> {}]
-----------------------------------------------------------------------------
(* describeRegion. *)

Call(r, f) ==
  /\ pc[r] \in {"idle", "error"}
  /\ pc' = [pc EXCEPT ![r] = "check"]
  /\ force' = [force EXCEPT ![r] = f]
  /\ calm' = [calm EXCEPT ![r] = TRUE]
  /\ there' = [there EXCEPT ![r] = IF f THEN ToSet(region) \cap Owned ELSE {}]
  /\ UNCHANGED <<region, fetchMu, walkVars, cacheVars>>

\* (mutant) A forced read that had to queue takes what the other one fetched.
UsableQueued(r) == /\ ~force[r] \/ pc[r] = "recheck"
                   /\ cache # <<>> /\ cacheAge < TTL

\* fresh(): the cache serves this reader.
Usable(r) == ~force[r] /\ cache # <<>> /\ cacheAge < TTL

\* The end of a read, whatever its outcome: the deferred unlock.
Leave(r, outcome) ==
  /\ pc' = [pc EXCEPT ![r] = outcome]
  /\ force' = [force EXCEPT ![r] = FALSE]
  /\ fetchMu' = IF fetchMu = r THEN None ELSE fetchMu
  /\ page' = [page EXCEPT ![r] = 1]
  /\ acc' = [acc EXCEPT ![r] = <<>>]
  /\ began' = [began EXCEPT ![r] = 0]
  /\ calm' = [calm EXCEPT ![r] = FALSE]
  /\ there' = [there EXCEPT ![r] = {}]

\* (mutant) A listing that is used stays fresh.
HitSlides(r) ==
  /\ pc[r] \in {"check", "recheck"} /\ Usable(r)
  /\ Leave(r, "idle")
  /\ cacheAge' = 0
  /\ UNCHANGED <<region, cache, since>>

\* Served from the cache, before or after queueing for the fetch lock.
Hit(r) ==
  /\ pc[r] \in {"check", "recheck"} /\ Usable(r)
  /\ Leave(r, "idle")
  /\ UNCHANGED <<region, cacheVars>>

Miss(r) ==
  /\ pc[r] = "check" /\ ~Usable(r)
  /\ pc' = [pc EXCEPT ![r] = "wait"]
  /\ UNCHANGED <<region, force, fetchMu, walkVars, cacheVars, histVars>>

\* (mutant) Expired readers all fetch at once.
LockNobody(r) ==
  /\ pc[r] = "wait"
  /\ pc' = [pc EXCEPT ![r] = "recheck"]
  /\ UNCHANGED <<region, force, fetchMu, walkVars, cacheVars, histVars>>

Lock(r) ==
  /\ pc[r] = "wait" /\ fetchMu = None
  /\ fetchMu' = r
  /\ pc' = [pc EXCEPT ![r] = "recheck"]
  /\ UNCHANGED <<region, force, walkVars, cacheVars, histVars>>

Begin(r) ==
  /\ pc[r] = "recheck" /\ ~Usable(r)
  /\ pc' = [pc EXCEPT ![r] = "fetch"]
  /\ UNCHANGED <<region, force, fetchMu, walkVars, cacheVars, histVars>>

\* The p-th page of the region as it is now.
PageOf(p) == LET first == (p - 1) * PageSize + 1
                 last  == p * PageSize
             IN SubSeq(region, first, IF last < Len(region) THEN last ELSE Len(region))

\* The walk ends with the page that reaches TotalCount.
LastPage(p) == p * PageSize >= Len(region)

\* What ENS may answer: a page with its total; one without the total, which
\* reads as zero; no body, or none with a list of instances.
Answers == {"whole", "uncounted", "bare"}

\* How many of the region's instances the walk has read with this answer, and
\* whether it ends there although there are more: that is no error.
Reach(r, a)    == (IF a = "bare" THEN page[r] - 1 ELSE page[r]) * PageSize
Ends(r, a)     == a # "whole" \/ LastPage(page[r])
CutShort(r, a) == Ends(r, a) /\ Reach(r, a) < Len(region)

\* (mutant) A page that repeats an instance is taken for one behind the end.
FetchPageStops(r, a) ==
  /\ pc[r] = "fetch"
  /\ LET more    == IF a = "bare" THEN <<>> ELSE OwnedOf(PageOf(page[r]))
         repeats == ToSet(more) \cap ToSet(acc[r]) # {}
         ends    == repeats \/ Ends(r, a)
     IN /\ acc' = [acc EXCEPT ![r] = IF repeats THEN @ ELSE @ \o more]
        /\ page' = [page EXCEPT ![r] = IF ends THEN 1 ELSE @ + 1]
        /\ pc' = [pc EXCEPT ![r] = IF ends THEN "store" ELSE "fetch"]
  /\ IF CutShort(r, a)
     THEN /\ calm' = [calm EXCEPT ![r] = FALSE]
          /\ there' = [there EXCEPT ![r] = @ \cap {region[k] : k \in 1..Reach(r, a)}]
     ELSE UNCHANGED histVars
  /\ UNCHANGED <<region, force, fetchMu, began, cacheVars>>

\* A walk that ENS's answer cuts short is stored and returned all the same.
FetchPage(r, a) ==
  /\ pc[r] = "fetch"
  /\ acc' = [acc EXCEPT ![r] = IF a = "bare" THEN @ ELSE @ \o OwnedOf(PageOf(page[r]))]
  /\ page' = [page EXCEPT ![r] = IF Ends(r, a) THEN 1 ELSE @ + 1]
  /\ pc' = [pc EXCEPT ![r] = IF Ends(r, a) THEN "store" ELSE "fetch"]
  /\ IF CutShort(r, a)
     THEN /\ calm' = [calm EXCEPT ![r] = FALSE]
          /\ there' = [there EXCEPT ![r] = @ \cap {region[k] : k \in 1..Reach(r, a)}]
     ELSE UNCHANGED histVars
  /\ UNCHANGED <<region, force, fetchMu, began, cacheVars>>

\* (mutant) A page that fails leaves the lock behind.
FetchFailsLocked(r) ==
  /\ pc[r] = "fetch"
  /\ pc' = [pc EXCEPT ![r] = "error"]
  /\ UNCHANGED <<region, force, fetchMu, walkVars, cacheVars, histVars>>

\* A page fails: nothing is cached.
FetchFails(r) ==
  /\ pc[r] = "fetch"
  /\ Leave(r, "error")
  /\ UNCHANGED <<region, cacheVars>>

Store(r) ==
  /\ pc[r] = "store"
  /\ cache' = acc[r] /\ cacheAge' = 0
  /\ since' = began[r]
  /\ Leave(r, "idle")
  /\ UNCHANGED region

InvalidateCache ==
  /\ cacheAge' = TTL
  /\ UNCHANGED <<region, readVars, walkVars, cache, since, histVars>>
-----------------------------------------------------------------------------
(* The region changes under the readers, and time passes. *)

Changed == /\ calm' = [r \in Readers |-> FALSE]
           /\ UNCHANGED <<readVars, walkVars, cacheVars>>

\* ENS lists a new instance first or last.
Appears(i) ==
  /\ i \notin ToSet(region)
  /\ region' \in {<<i>> \o region, Append(region, i)}
  /\ Changed /\ UNCHANGED there

\* What ENS lists behind it moves up, across the pages of a walk.
Disappears(i) ==
  /\ \E k \in DOMAIN region :
       /\ region[k] = i /\ region' = RemoveAt(region, k)
       /\ there' = [r \in Readers |-> there[r] \cap {region[j] : j \in 1..k-1}]
  /\ Changed

Walking(r) == pc[r] \in {"fetch", "store"}

\* Ages are not counted beyond what a property tells apart.
Tick ==
  /\ \A r \in Readers : Walking(r) => began[r] < MaxFetch
  /\ began' = [r \in Readers |-> IF Walking(r) THEN began[r] + 1 ELSE began[r]]
  /\ cacheAge' = IF cacheAge < TTL THEN cacheAge + 1 ELSE cacheAge
  /\ since' = IF since < Horizon THEN since + 1 ELSE since
  /\ UNCHANGED <<region, readVars, page, acc, cache, histVars>>

Read(r) == \/ Hit(r) \/ Miss(r) \/ Begin(r)
           \/ \E a \in Answers : FetchPage(r, a)
           \/ FetchFails(r) \/ Store(r)

Next ==
  \/ \E r \in Readers : (\E f \in BOOLEAN : Call(r, f)) \/ Lock(r) \/ Read(r)
  \/ InvalidateCache \/ Tick
  \/ \E i \in Instances : Appears(i) \/ Disappears(i)

Spec == Init /\ [][Next]_vars
-----------------------------------------------------------------------------
(* What makes it correct. *)

TypeOK ==
  /\ region \in Seq(Instances) /\ IsInjective(region)
  /\ cache \in Seq(Owned) /\ cacheAge \in 0..TTL /\ since \in 0..Horizon
  /\ fetchMu \in Readers \cup {None}
  /\ pc \in [Readers -> {"idle", "error", "check", "wait", "recheck", "fetch", "store"}]
  /\ acc \in [Readers -> Seq(Owned)] /\ page \in [Readers -> Nat \ {0}]
  /\ began \in [Readers -> 0..MaxFetch]
  /\ {force, calm} \subseteq [Readers -> BOOLEAN]
  /\ there \in [Readers -> SUBSET Owned]

\* A read that returns, with the listing then in the cache.
Returns(r) == pc[r] \in {"check", "recheck", "store"} /\ pc'[r] = "idle"

\* A forced read is exact: if the region does not change while it runs, and no
\* answer of ENS cuts its walk short, it returns the owned instances of the
\* region, each once, however many pages they take and whatever other readers
\* put in the cache meanwhile.
ForcedIsExact ==
  [][\A r \in Readers : Returns(r) /\ force[r] /\ calm[r] => cache' = OwnedOf(region)]_vars

\* Instances that come or go while the pages are read shift the others across
\* page borders, and a listing may then hold one twice or leave one out.  A
\* forced read leaves out no instance that was there when it was called, unless
\* that one went, or one that ENS lists before it, or the walk was cut short
\* before it: what comes only repeats, and what was read stays.
LeftOutExplained ==
  [][\A r \in Readers : Returns(r) => there[r] \subseteq ToSet(cache')]_vars

\* What any other read returns was seen at ENS no longer ago than the cache's
\* lifetime and one walk.
BoundedStaleness ==
  [][\A r \in Readers : Returns(r) => since' < Horizon]_vars

\* The cache never goes back to a listing older than the one it holds.
NeverOlder == [][\A r \in Readers : Store(r) => since' <= since]_vars

\* The fetch lock is held by the one reader that fetches, and never left
\* behind by a walk that failed: every later read would wait for ever.
LockHeldByFetcher ==
  \A r \in Readers : fetchMu = r <=> pc[r] \in {"recheck", "fetch", "store"}
=============================================================================
