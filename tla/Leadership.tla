----------------------------- MODULE Leadership -----------------------------
(***************************************************************************)
(* Active-passive replicas of the provider (leader.go, main.go): the       *)
(* client-go election over one Lease, the leadership term run by the       *)
(* OnStartedLeading callback, the routing label, the admission of RPCs     *)
(* under the term's context, demotion, and the graceful shutdown that may  *)
(* clear the Lease.                                                        *)
(*                                                                         *)
(* The Lease and the elector are external: Run acquires, renews, and when  *)
(* it stops cancels the callback's context and calls OnStoppedLeading; it  *)
(* never waits for the callback.  Kubernetes reachability (k8sOK) only     *)
(* narrows admission and is left to the choice of when to admit.           *)
(***************************************************************************)
EXTENDS Integers, FiniteSets

CONSTANTS
  Replicas,       \* the pods, which are also the Lease identities
  Nobody,         \* a cleared Lease
  Departed,       \* a Lease of a pod that is gone for good
  LeaseDuration,  \* ticks after which another replica may take the Lease
  LoseBy,         \* ticks without a renewal by which an elector gives up:
                  \* RetryPeriod + RenewDeadline
  MaxStops        \* bound: crashes and shutdowns in one behaviour

ASSUME LeadershipAssumption ==
  /\ {Nobody, Departed} \cap Replicas = {} /\ Nobody # Departed
  /\ {LeaseDuration, LoseBy, MaxStops} \subseteq Nat
  /\ LoseBy < LeaseDuration

VARIABLES
  up,         \* the process runs, its listener is open
  elect,      \* elector.Run: candidate, leading, stopping, ended
  cancelled,  \* electionCancel was called
  cb,         \* the OnStartedLeading callback
  term,       \* leadership.term: none, live, or with its context cancelled
  demotion,   \* demote(): no, asked, drain
  shutdown,   \* Shutdown(): where it is
  wasLeader,  \* Shutdown's wasLeader
  held,       \* Shutdown found a term when it was recorded
  quiesced,   \* Shutdown's quiesced
  work,       \* an RPC handler: none, live, or with its context cancelled
  label,      \* the pod carries the leader label
  holder,     \* the Lease's holderIdentity
  age,        \* ticks since its last renewal
  stops       \* crashes and shutdowns so far (bound)

stateVars == <<elect, cancelled, cb, term, demotion, shutdown, wasLeader, held,
               quiesced, work>>
leaseVars == <<holder, age>>
vars == <<up, stateVars, label, leaseVars, stops>>

ShuttingDown(r) == shutdown[r] # "no" \/ demotion[r] = "drain"
EverLed(r)      == cb[r] \in {"publish", "work", "unwind", "done"}

\* admit(): leader, not shutting down, and a term whose context is live.
Serving(r) == up[r] /\ term[r] = "live" /\ ~ShuttingDown(r)

Init ==
  /\ up = [r \in Replicas |-> FALSE]
  /\ elect = [r \in Replicas |-> "candidate"]
  /\ cancelled = [r \in Replicas |-> FALSE]
  /\ cb = [r \in Replicas |-> "none"]
  /\ term = [r \in Replicas |-> "none"]
  /\ demotion = [r \in Replicas |-> "no"]
  /\ shutdown = [r \in Replicas |-> "no"]
  /\ wasLeader = [r \in Replicas |-> FALSE]
  /\ held = [r \in Replicas |-> FALSE]
  /\ quiesced = [r \in Replicas |-> TRUE]
  /\ work = [r \in Replicas |-> "none"]
  /\ label = [r \in Replicas |-> FALSE]
  /\ holder = Nobody /\ age = 0 /\ stops = 0

\* The process is gone, and with it everything it held in memory.
Dies(r) ==
  /\ up' = [up EXCEPT ![r] = FALSE]
  /\ elect' = [elect EXCEPT ![r] = "candidate"]
  /\ cancelled' = [cancelled EXCEPT ![r] = FALSE]
  /\ cb' = [cb EXCEPT ![r] = "none"]
  /\ term' = [term EXCEPT ![r] = "none"]
  /\ demotion' = [demotion EXCEPT ![r] = "no"]
  /\ shutdown' = [shutdown EXCEPT ![r] = "no"]
  /\ wasLeader' = [wasLeader EXCEPT ![r] = FALSE]
  /\ held' = [held EXCEPT ![r] = FALSE]
  /\ quiesced' = [quiesced EXCEPT ![r] = TRUE]
  /\ work' = [work EXCEPT ![r] = "none"]

\* Cancelling the term's context reaches the handlers merged with it.
CancelTerm(r) ==
  /\ term' = [term EXCEPT ![r] = IF @ = "live" THEN "cancelled" ELSE @]
  /\ work' = [work EXCEPT ![r] = IF @ = "live" THEN "cancelled" ELSE @]
-----------------------------------------------------------------------------
(* Startup and death. *)

\* (mutant) The listener opens without waiting for the purge.
StartUnpurged(r) ==
  /\ ~up[r]
  /\ up' = [up EXCEPT ![r] = TRUE]
  /\ UNCHANGED <<stateVars, label, leaseVars, stops>>

\* The stale label is purged before the listener opens and the election
\* starts; a purge that fails ends the process.
Start(r) ==
  /\ ~up[r]
  /\ up' = [up EXCEPT ![r] = TRUE]
  /\ label' = [label EXCEPT ![r] = FALSE]
  /\ UNCHANGED <<stateVars, leaseVars, stops>>

\* The container is killed and restarts in the same pod.
Crash(r) ==
  /\ up[r] /\ stops < MaxStops
  /\ stops' = stops + 1
  /\ Dies(r)
  /\ UNCHANGED <<label, leaseVars>>
-----------------------------------------------------------------------------
(* elector.Run. *)

Available(r) == holder \in {Nobody, r} \/ age >= LeaseDuration

\* The attempt may already be on its way when the election is cancelled.
Acquire(r) ==
  /\ up[r] /\ elect[r] = "candidate" /\ Available(r)
  /\ holder' = r /\ age' = 0
  /\ elect' = [elect EXCEPT ![r] = "leading"]
  /\ cb' = [cb EXCEPT ![r] = "launched"]
  /\ UNCHANGED <<up, cancelled, term, demotion, shutdown, wasLeader, held, quiesced,
                 work, label, stops>>

\* The Lease is written and the answer is lost: the elector goes on trying.
AcquireUnseen(r) ==
  /\ up[r] /\ elect[r] = "candidate" /\ Available(r)
  /\ holder' = r /\ age' = 0
  /\ UNCHANGED <<up, stateVars, label, stops>>

Renew(r) ==
  /\ elect[r] = "leading" /\ holder = r
  /\ age' = 0
  /\ UNCHANGED <<up, stateVars, label, holder, stops>>

\* (mutant) ReleaseOnCancel: the Lease is given up before anything stops.
LoseReleasing(r) ==
  /\ elect[r] = "leading"
  /\ holder' = IF holder = r THEN Nobody ELSE holder
  /\ elect' = [elect EXCEPT ![r] = "stopping"]
  /\ UNCHANGED <<up, cancelled, cb, term, demotion, shutdown, wasLeader, held,
                 quiesced, work, label, age, stops>>

\* The renewals fail up to the deadline, or the election is cancelled: Run's
\* deferred cancel ends the callback's context.
Lose(r) ==
  /\ elect[r] = "leading"
  /\ cancelled[r] \/ age > 0 \/ holder # r
  /\ elect' = [elect EXCEPT ![r] = "stopping"]
  /\ CancelTerm(r)
  /\ UNCHANGED <<up, cancelled, cb, demotion, shutdown, wasLeader, held, quiesced,
                 label, leaseVars, stops>>

GiveUp(r) ==
  /\ elect[r] = "candidate" /\ cancelled[r]
  /\ elect' = [elect EXCEPT ![r] = "stopping"]
  /\ UNCHANGED <<up, cancelled, cb, term, demotion, shutdown, wasLeader, held,
                 quiesced, work, label, leaseVars, stops>>

\* (mutant) An elector that lost runs again in the same process.
StoppedRetries(r) ==
  /\ elect[r] = "stopping"
  /\ elect' = [elect EXCEPT ![r] = "candidate"]
  /\ UNCHANGED <<up, cancelled, cb, term, demotion, shutdown, wasLeader, held, quiesced,
                 work, label, leaseVars, stops>>

\* onStoppedLeading: a loss by a process that led, and is not shutting down,
\* demotes it.
Stopped(r) ==
  /\ elect[r] = "stopping"
  /\ elect' = [elect EXCEPT ![r] = "ended"]
  /\ demotion' = [demotion EXCEPT ![r] =
                    IF EverLed(r) /\ ~ShuttingDown(r) THEN "asked" ELSE @]
  /\ UNCHANGED <<up, cancelled, cb, term, shutdown, wasLeader, held, quiesced, work,
                 label, leaseVars, stops>>
-----------------------------------------------------------------------------
(* The OnStartedLeading callback. *)

\* beginTerm.  The context it derives from may be dead already: then the label
\* PATCH fails at once and the callback unwinds.
BeginTerm(r) ==
  /\ cb[r] = "launched" /\ ~ShuttingDown(r)
  /\ IF elect[r] = "leading"
     THEN /\ cb' = [cb EXCEPT ![r] = "publish"]
          /\ term' = [term EXCEPT ![r] = "live"]
     ELSE /\ cb' = [cb EXCEPT ![r] = "unwind"]
          /\ term' = [term EXCEPT ![r] = "cancelled"]
  /\ UNCHANGED <<up, elect, cancelled, demotion, shutdown, wasLeader, held, quiesced,
                 work, label, leaseVars, stops>>

RefuseTerm(r) ==
  /\ cb[r] = "launched" /\ ShuttingDown(r)
  /\ cb' = [cb EXCEPT ![r] = "refused"]
  /\ UNCHANGED <<up, elect, cancelled, term, demotion, shutdown, wasLeader, held,
                 quiesced, work, label, leaseVars, stops>>

\* publishRouting succeeds, if need be under a context cancelled since the
\* PATCH was sent; the background loop starts.
Publish(r) ==
  /\ cb[r] = "publish"
  /\ label' = [label EXCEPT ![r] = TRUE]
  /\ cb' = [cb EXCEPT ![r] = "work"]
  /\ UNCHANGED <<up, elect, cancelled, term, demotion, shutdown, wasLeader, held,
                 quiesced, work, leaseVars, stops>>

\* It fails for good: go demote(term), and the callback unwinds.
Relinquish(r) ==
  /\ cb[r] = "publish"
  /\ cb' = [cb EXCEPT ![r] = "unwind"]
  /\ demotion' = [demotion EXCEPT ![r] = IF @ = "no" THEN "asked" ELSE @]
  /\ UNCHANGED <<up, elect, cancelled, term, shutdown, wasLeader, held, quiesced,
                 work, label, leaseVars, stops>>

\* The term's context is dead: the retries stop, or the loop is joined.
Unwind(r) ==
  /\ cb[r] \in {"publish", "work"} /\ term[r] = "cancelled"
  /\ cb' = [cb EXCEPT ![r] = "unwind"]
  /\ UNCHANGED <<up, elect, cancelled, term, demotion, shutdown, wasLeader, held,
                 quiesced, work, label, leaseVars, stops>>

\* (mutant) The term outlives its callback.
EndTermKept(r) ==
  /\ cb[r] = "unwind"
  /\ cb' = [cb EXCEPT ![r] = "done"]
  /\ CancelTerm(r)
  /\ UNCHANGED <<up, elect, cancelled, demotion, shutdown, wasLeader, held,
                 quiesced, label, leaseVars, stops>>

\* (mutant) The term is forgotten without being cancelled.
EndTermUncancelled(r) ==
  /\ cb[r] = "unwind"
  /\ cb' = [cb EXCEPT ![r] = "done"]
  /\ term' = [term EXCEPT ![r] = "none"]
  /\ UNCHANGED <<up, elect, cancelled, demotion, shutdown, wasLeader, held, quiesced,
                 work, label, leaseVars, stops>>

\* endTerm cancels first, then clears the term, and done is closed.
EndTerm(r) ==
  /\ cb[r] = "unwind"
  /\ cb' = [cb EXCEPT ![r] = "done"]
  /\ term' = [term EXCEPT ![r] = "none"]
  /\ work' = [work EXCEPT ![r] = IF @ = "live" THEN "cancelled" ELSE @]
  /\ UNCHANGED <<up, elect, cancelled, demotion, shutdown, wasLeader, held, quiesced,
                 label, leaseVars, stops>>
-----------------------------------------------------------------------------
(* RPCs. *)

\* UnaryInterceptor: check and capture under one lock, then the handler.
Admit(r) ==
  /\ Serving(r) /\ work[r] = "none"
  /\ work' = [work EXCEPT ![r] = "live"]
  /\ UNCHANGED <<up, elect, cancelled, cb, term, demotion, shutdown, wasLeader, held,
                 quiesced, label, leaseVars, stops>>

Finish(r) ==
  /\ work[r] # "none"
  /\ work' = [work EXCEPT ![r] = "none"]
  /\ UNCHANGED <<up, elect, cancelled, cb, term, demotion, shutdown, wasLeader, held,
                 quiesced, label, leaseVars, stops>>
-----------------------------------------------------------------------------
(* demote(). *)

\* A shutdown under way owns the lifecycle; otherwise reject, cancel, drain.
Demote(r) ==
  /\ demotion[r] = "asked"
  /\ IF ShuttingDown(r)
     THEN /\ demotion' = [demotion EXCEPT ![r] = "no"]
          /\ UNCHANGED <<term, work>>
     ELSE /\ demotion' = [demotion EXCEPT ![r] = "drain"]
          /\ CancelTerm(r)
  /\ UNCHANGED <<up, elect, cancelled, cb, shutdown, wasLeader, held, quiesced,
                 label, leaseVars, stops>>

\* The term is done, or its five seconds are over: exit(1), and the container
\* restarts in the same pod, label and Lease as they were.
DemoteExit(r) ==
  /\ demotion[r] = "drain"
  /\ Dies(r)
  /\ UNCHANGED <<label, leaseVars, stops>>
-----------------------------------------------------------------------------
(* Shutdown(): each phase may run out of the one budget. *)

Signal(r) ==
  /\ up[r] /\ ~ShuttingDown(r) /\ stops < MaxStops
  /\ stops' = stops + 1
  /\ shutdown' = [shutdown EXCEPT ![r] = "recorded"]
  /\ held' = [held EXCEPT ![r] = term[r] # "none"]
  /\ UNCHANGED <<up, elect, cancelled, cb, term, demotion, wasLeader, quiesced,
                 work, label, leaseVars>>

\* elector.IsLeader() compares the last record the elector observed: its own
\* once it acquired, and one that an earlier process of this pod left.
IsLeader(r) == IF cb[r] # "none" THEN {TRUE} ELSE {FALSE, holder = r}

Sample(r) ==
  /\ shutdown[r] = "recorded"
  /\ \E w \in IsLeader(r) : wasLeader' = [wasLeader EXCEPT ![r] = w]
  /\ shutdown' = [shutdown EXCEPT ![r] = "sampled"]
  /\ UNCHANGED <<up, elect, cancelled, cb, term, demotion, held, quiesced, work,
                 label, leaseVars, stops>>

\* A follower cancels its election first; a leader keeps renewing.
CancelFollower(r) ==
  /\ shutdown[r] = "sampled"
  /\ cancelled' = [cancelled EXCEPT ![r] = @ \/ ~wasLeader[r]]
  /\ shutdown' = [shutdown EXCEPT ![r] = "unlabel"]
  /\ UNCHANGED <<up, elect, cb, term, demotion, wasLeader, held, quiesced, work,
                 label, leaseVars, stops>>

\* With a term: the label goes if the API lets it, and the term is cancelled.
Unlabel(r) ==
  /\ shutdown[r] = "unlabel"
  /\ \E l \in {FALSE, label[r]} :
       label' = [label EXCEPT ![r] = IF held[r] THEN l ELSE @]
  /\ CancelTerm(r)
  /\ shutdown' = [shutdown EXCEPT ![r] = "drain"]
  /\ UNCHANGED <<up, elect, cancelled, cb, demotion, wasLeader, held, quiesced,
                 leaseVars, stops>>

\* The term's done channel, then GracefulStop: both closed, or the time is up.
Drain(r) ==
  /\ shutdown[r] = "drain"
  /\ \/ /\ term[r] = "none" /\ work[r] = "none"
        /\ UNCHANGED quiesced
     \/ quiesced' = [quiesced EXCEPT ![r] = FALSE]
  /\ cancelled' = [cancelled EXCEPT ![r] = TRUE]
  /\ shutdown' = [shutdown EXCEPT ![r] = "join"]
  /\ UNCHANGED <<up, elect, cb, term, demotion, wasLeader, held, work, label,
                 leaseVars, stops>>

\* runDone, and for a leader cbDone.
Join(r) ==
  /\ shutdown[r] = "join"
  /\ \/ /\ elect[r] = "ended"
        /\ wasLeader[r] => cb[r] \in {"refused", "done"}
        /\ UNCHANGED quiesced
     \/ quiesced' = [quiesced EXCEPT ![r] = FALSE]
  /\ shutdown' = [shutdown EXCEPT ![r] = "joined"]
  /\ UNCHANGED <<up, elect, cancelled, cb, term, demotion, wasLeader, held, work,
                 label, leaseVars, stops>>

\* (mutant) Every leader that shuts down clears its Lease.
MayReleaseAlways(r) == wasLeader[r]

\* The fast release is for a leader whose quiescence was proven.
MayRelease(r) == wasLeader[r] /\ quiesced[r]

\* ClearLeaseHolder, owner-checked; it may fail.
Release(r) ==
  /\ shutdown[r] = "joined" /\ MayRelease(r) /\ holder = r
  /\ holder' = Nobody /\ age' = 0
  /\ shutdown' = [shutdown EXCEPT ![r] = "released"]
  /\ UNCHANGED <<up, elect, cancelled, cb, term, demotion, wasLeader, held, quiesced,
                 work, label, stops>>

\* The process exits and its pod is replaced by one of another name.
Exit(r) ==
  /\ shutdown[r] \in {"joined", "released"}
  /\ Dies(r)
  /\ label' = [label EXCEPT ![r] = FALSE]
  /\ holder' = IF holder = r THEN Departed ELSE holder
  /\ UNCHANGED <<age, stops>>
-----------------------------------------------------------------------------
\* An elector gives up in time, and what a lost election runs is not delayed.
Tick ==
  /\ age < LeaseDuration /\ holder # Nobody
  /\ \A r \in Replicas : /\ elect[r] = "leading" /\ holder = r => age < LoseBy
                         /\ elect[r] # "stopping" /\ demotion[r] # "asked"
  /\ age' = age + 1
  /\ UNCHANGED <<up, stateVars, label, holder, stops>>

Election(r) == Acquire(r) \/ AcquireUnseen(r) \/ Renew(r) \/ Lose(r)
               \/ GiveUp(r) \/ Stopped(r)
Callback(r) == BeginTerm(r) \/ RefuseTerm(r) \/ Publish(r) \/ Relinquish(r)
               \/ Unwind(r) \/ EndTerm(r)
Stopping(r) == \/ Demote(r) \/ DemoteExit(r)
               \/ Sample(r) \/ CancelFollower(r) \/ Unlabel(r) \/ Drain(r)
               \/ Join(r) \/ Release(r) \/ Exit(r)

Next ==
  \/ \E r \in Replicas : \/ Start(r) \/ Crash(r) \/ Signal(r)
                         \/ Election(r) \/ Callback(r)
                         \/ Admit(r) \/ Finish(r) \/ Stopping(r)
  \/ Tick

Spec == Init /\ [][Next]_vars
-----------------------------------------------------------------------------
(* Properties. *)

\* The values of the variables; there is a term exactly while a callback runs
\* one (leader.go:209, 404).
TypeOK ==
  /\ {up, cancelled, wasLeader, held, quiesced, label} \subseteq [Replicas -> BOOLEAN]
  /\ elect \in [Replicas -> {"candidate", "leading", "stopping", "ended"}]
  /\ cb \in [Replicas -> {"none", "launched", "refused", "publish", "work",
                          "unwind", "done"}]
  /\ {term, work} \subseteq [Replicas -> {"none", "live", "cancelled"}]
  /\ demotion \in [Replicas -> {"no", "asked", "drain"}]
  /\ shutdown \in [Replicas -> {"no", "recorded", "sampled", "unlabel", "drain",
                                "join", "joined", "released"}]
  /\ holder \in Replicas \cup {Nobody, Departed}
  /\ age \in 0 .. LeaseDuration /\ stops \in 0 .. MaxStops
  /\ \A r \in Replicas : term[r] = "none" <=> cb[r] \notin {"publish", "work", "unwind"}

\* While one replica admits RPCs no other admits them or runs one under a live
\* context: the term's context dies before another can take the Lease, on a
\* loss, a demotion, a shutdown and its release alike (leader.go:5, 19-31).
ExclusiveService ==
  \A r, s \in Replicas : r # s /\ Serving(r) => ~Serving(s) /\ work[s] # "live"

\* A handler never runs on under a live context once its term is cancelled or
\* ended (admit's check-and-capture and endTerm's order, leader.go:204-225, 386).
WorkDiesWithTerm == \A r \in Replicas : work[r] = "live" => term[r] = "live"

\* A shutdown that cleared the Lease left nothing behind that could still act:
\* no handler, no callback, no elector, and none of them ever starts again
\* (leader.go:26-31, 577).
QuietRelease ==
  \A r \in Replicas :
    shutdown[r] = "released" =>
      /\ work[r] = "none" /\ term[r] = "none" /\ elect[r] = "ended"
      /\ cb[r] \in {"refused", "done"}

\* A running pod carries the leader label only if this very process led: no
\* label of an earlier process of the pod routes to it (leader.go:280-284).
LabelMeansLed == \A r \in Replicas : up[r] /\ label[r] => EverLed(r)

\* What is left for a process: to serve, to serve on, or never again.
Service(r) == CASE Serving(r) -> "serving"
                [] ~Serving(r) /\ cb[r] \in {"none", "launched"} /\ ~ShuttingDown(r) -> "fresh"
                [] OTHER -> "spent"

\* The replicas together are the one server of SingleServer: "exactly ONE holds
\* the Lease and serves", "at most one acquisition per process", and a service
\* starts only when the work of every other is over or cancelled (leader.go:5,
\* 26-31, 408).
Single == INSTANCE SingleServer WITH service <- [r \in Replicas |-> Service(r)]
OneServer == Single!SSpec

\* (refuted) A process that led and lost its election is on its way out:
\* "demotion = exit" (leader.go:408).
LossMeansExit ==
  \A r \in Replicas :
    elect[r] = "ended" /\ cb[r] = "done" => ShuttingDown(r) \/ demotion[r] = "asked"
=============================================================================
