-------------------------- MODULE LeadershipProofs --------------------------
(***************************************************************************)
(* The replicas are safe for every number of them and every timing in      *)
(* which an elector gives up before its Lease can be taken                 *)
(* (LeadershipAssumption).                                                 *)
(*                                                                         *)
(* Exclusive service is a matter of the Lease: a term is live only while   *)
(* its elector leads (TermLed), and one that leads holds a Lease that is   *)
(* too young to be taken (LeaderHolds).  The quiet release is a matter of  *)
(* the shutdown: what a phase saw ended cannot begin again (StaysQuiet).   *)
(***************************************************************************)
EXTENDS Leadership, TLAPS

\* An elector that has not won launched no callback.
CandidateFresh == \A r \in Replicas : elect[r] = "candidate" => cb[r] = "none"

\* A live term has an elector that leads.
TermLed == \A r \in Replicas : term[r] = "live" => elect[r] = "leading"

\* Who leads holds the Lease, and gives it up before it can be taken.
LeaderHolds == \A r \in Replicas : elect[r] = "leading" => holder = r /\ age <= LoseBy

\* What the phases of a shutdown saw ended has not begun again.
StaysQuiet ==
  \A r \in Replicas :
    /\ shutdown[r] \in {"join", "joined", "released"} /\ quiesced[r] =>
         term[r] = "none" /\ work[r] = "none"
    /\ shutdown[r] \in {"joined", "released"} /\ quiesced[r] =>
         elect[r] = "ended" /\ (wasLeader[r] => cb[r] \in {"refused", "done"})
    /\ shutdown[r] = "released" => quiesced[r] /\ wasLeader[r]

\* A process that does not run has no callback.
DownBlank == \A r \in Replicas : ~up[r] => cb[r] = "none"

IInv == /\ TypeOK /\ CandidateFresh /\ TermLed /\ WorkDiesWithTerm
        /\ LeaderHolds /\ StaysQuiet /\ LabelMeansLed /\ DownBlank
-----------------------------------------------------------------------------

LEMMA Initially == Init => IInv
  BY LeadershipAssumption
  DEF LeadershipAssumption, Init, IInv, TypeOK, CandidateFresh, TermLed,
      WorkDiesWithTerm, LeaderHolds, StaysQuiet, LabelMeansLed, DownBlank

\* The values stay in range, and there is a term just while a callback runs one.
LEMMA TypeStep == TypeOK /\ CandidateFresh /\ [Next]_vars => TypeOK'
  <1> SUFFICES ASSUME TypeOK, CandidateFresh, [Next]_vars PROVE TypeOK'
    OBVIOUS
  <1> USE LeadershipAssumption DEF LeadershipAssumption, TypeOK
  <1>1. ASSUME NEW r \in Replicas, Start(r) \/ Crash(r) \/ Signal(r) PROVE TypeOK'
    <2>1. CASE Start(r)
      BY <2>1 DEF Start, stateVars, leaseVars
    <2>2. CASE Crash(r)
      BY <2>2 DEF Crash, Dies, leaseVars
    <2>3. CASE Signal(r)
      BY <2>3 DEF Signal, leaseVars
    <2> QED BY <1>1, <2>1, <2>2, <2>3
  <1>2. ASSUME NEW r \in Replicas, Election(r) PROVE TypeOK'
    <2>1. CASE Acquire(r)
      BY <2>1 DEF Acquire, CandidateFresh
    <2>2. CASE AcquireUnseen(r) \/ Renew(r)
      BY <2>2 DEF AcquireUnseen, Renew, stateVars
    <2>3. CASE Lose(r)
      BY <2>3 DEF Lose, CancelTerm, leaseVars
    <2>4. CASE GiveUp(r) \/ Stopped(r)
      BY <2>4 DEF GiveUp, Stopped, leaseVars
    <2> QED BY <1>2, <2>1, <2>2, <2>3, <2>4 DEF Election
  <1>3. ASSUME NEW r \in Replicas, Callback(r) PROVE TypeOK'
    <2>1. CASE BeginTerm(r)
      BY <2>1 DEF BeginTerm, leaseVars
    <2>2. CASE RefuseTerm(r)
      BY <2>2 DEF RefuseTerm, leaseVars
    <2>5. CASE Publish(r)
      <3>1. label' \in [Replicas -> BOOLEAN]
        BY <2>5, Zenon DEF Publish
      <3> QED BY <2>5, <3>1 DEF Publish, leaseVars
    <2>3. CASE Relinquish(r) \/ Unwind(r)
      BY <2>3 DEF Relinquish, Unwind, leaseVars
    <2>4. CASE EndTerm(r)
      BY <2>4 DEF EndTerm, leaseVars
    <2> QED BY <1>3, <2>1, <2>2, <2>3, <2>4, <2>5 DEF Callback
  <1>4. ASSUME NEW r \in Replicas, Admit(r) \/ Finish(r) PROVE TypeOK'
    BY <1>4 DEF Admit, Finish, leaseVars
  <1>5. ASSUME NEW r \in Replicas, Stopping(r) PROVE TypeOK'
    <2>1. CASE Demote(r)
      BY <2>1 DEF Demote, CancelTerm, leaseVars
    <2>2. CASE DemoteExit(r)
      BY <2>2 DEF DemoteExit, Dies, leaseVars
    <2>3. CASE Sample(r)
      <3>1. PICK w \in IsLeader(r) : wasLeader' = [wasLeader EXCEPT ![r] = w]
        BY <2>3 DEF Sample
      <3>2. w \in BOOLEAN
        BY <3>1 DEF IsLeader
      <3>3. wasLeader' \in [Replicas -> BOOLEAN]
        BY <3>1, <3>2
      <3> QED BY <2>3, <3>3 DEF Sample, leaseVars
    <2>4. CASE CancelFollower(r)
      <3>1. cancelled' \in [Replicas -> BOOLEAN]
        BY <2>4, Zenon DEF CancelFollower
      <3> QED BY <2>4, <3>1 DEF CancelFollower, leaseVars
    <2>8. CASE Drain(r)
      <3>1. cancelled' \in [Replicas -> BOOLEAN] /\ quiesced' \in [Replicas -> BOOLEAN]
        BY <2>8, Zenon DEF Drain
      <3> QED BY <2>8, <3>1 DEF Drain, leaseVars
    <2>9. CASE Join(r)
      <3>1. quiesced' \in [Replicas -> BOOLEAN]
        BY <2>9, Zenon DEF Join
      <3>2. /\ shutdown' = [shutdown EXCEPT ![r] = "joined"]
            /\ UNCHANGED <<up, elect, cancelled, cb, term, demotion, wasLeader, held, work,
                           label, holder, age, stops>>
        BY <2>9 DEF Join, leaseVars
      <3> QED BY <3>1, <3>2
    <2>5. CASE Unlabel(r)
      <3>1. PICK l \in {FALSE, label[r]} :
              label' = [label EXCEPT ![r] = IF held[r] THEN l ELSE @]
        BY <2>5 DEF Unlabel
      <3>2. (IF held[r] THEN l ELSE label[r]) \in BOOLEAN
        <4>1. label[r] \in BOOLEAN
          OBVIOUS
        <4>2. l \in BOOLEAN
          BY <3>1, <4>1
        <4>3. CASE held[r]
          BY <4>2, <4>3
        <4>4. CASE ~held[r]
          BY <4>1, <4>4
        <4> QED BY <4>3, <4>4
      <3>3. label' \in [Replicas -> BOOLEAN]
        BY <3>1, <3>2
      <3> QED BY <2>5, <3>3 DEF Unlabel, CancelTerm, leaseVars
    <2>6. CASE Release(r)
      BY <2>6 DEF Release
    <2>7. CASE Exit(r)
      BY <2>7 DEF Exit, Dies
    <2> QED BY <1>5, <2>1, <2>2, <2>3, <2>4, <2>5, <2>6, <2>7, <2>8, <2>9 DEF Stopping
  <1>6. CASE Tick
    BY <1>6 DEF Tick, stateVars
  <1>7. CASE UNCHANGED vars
    BY <1>7 DEF vars, stateVars, leaseVars
  <1> QED BY <1>1, <1>2, <1>3, <1>4, <1>5, <1>6, <1>7 DEF Next
-----------------------------------------------------------------------------
\* An elector that has not won has no callback; only a death takes it back there.
LEMMA CandidateStep ==
  TypeOK /\ CandidateFresh /\ [Next]_vars => CandidateFresh'
  <1> SUFFICES ASSUME TypeOK, CandidateFresh, [Next]_vars PROVE CandidateFresh'
    OBVIOUS
  <1> USE DEF TypeOK, CandidateFresh
  <1>1. ASSUME NEW r \in Replicas, Start(r) \/ Crash(r) \/ Signal(r) PROVE CandidateFresh'
    BY <1>1 DEF Start, Crash, Dies, Signal, stateVars
  <1>2. ASSUME NEW r \in Replicas, Election(r) PROVE CandidateFresh'
    BY <1>2 DEF Election, Acquire, AcquireUnseen, Renew, Lose, GiveUp, Stopped, stateVars
  <1>3. ASSUME NEW r \in Replicas, Callback(r) PROVE CandidateFresh'
    BY <1>3 DEF Callback, BeginTerm, RefuseTerm, Publish, Relinquish, Unwind, EndTerm
  <1>4. ASSUME NEW r \in Replicas, Admit(r) \/ Finish(r) PROVE CandidateFresh'
    BY <1>4 DEF Admit, Finish
  <1>5. ASSUME NEW r \in Replicas, Stopping(r) PROVE CandidateFresh'
    <2>1. CASE DemoteExit(r) \/ Exit(r)
      BY <2>1 DEF DemoteExit, Exit, Dies
    <2>2. CASE ~(DemoteExit(r) \/ Exit(r))
      <3>1. UNCHANGED <<elect, cb>>
        BY <1>5, <2>2 DEF Stopping, Demote, Sample, CancelFollower, Unlabel, Drain, Join,
                          Release
      <3> QED BY <3>1
    <2> QED BY <2>1, <2>2
  <1>6. CASE Tick \/ UNCHANGED vars
    BY <1>6 DEF Tick, vars, stateVars
  <1> QED BY <1>1, <1>2, <1>3, <1>4, <1>5, <1>6 DEF Next

\* A context that is live has an elector that leads, and a handler only runs
\* under it: a loss, a demotion, a shutdown and the callback's end all cancel.
LEMMA TermStep ==
  TypeOK /\ TermLed /\ WorkDiesWithTerm /\ [Next]_vars => TermLed' /\ WorkDiesWithTerm'
  <1> SUFFICES ASSUME TypeOK, TermLed, WorkDiesWithTerm, [Next]_vars
               PROVE  TermLed' /\ WorkDiesWithTerm'
    OBVIOUS
  <1> USE DEF TypeOK, TermLed, WorkDiesWithTerm
  <1>1. ASSUME NEW r \in Replicas, Start(r) \/ Crash(r) \/ Signal(r)
        PROVE  TermLed' /\ WorkDiesWithTerm'
    BY <1>1 DEF Start, Crash, Dies, Signal, stateVars
  <1>2. ASSUME NEW r \in Replicas, Election(r) PROVE TermLed' /\ WorkDiesWithTerm'
    <2>1. CASE Lose(r)
      BY <2>1 DEF Lose, CancelTerm
    <2>2. CASE ~Lose(r)
      BY <1>2, <2>2 DEF Election, Acquire, AcquireUnseen, Renew, GiveUp, Stopped, stateVars
    <2> QED BY <2>1, <2>2
  <1>3. ASSUME NEW r \in Replicas, Callback(r) PROVE TermLed' /\ WorkDiesWithTerm'
    <2>1. CASE BeginTerm(r)
      BY <2>1 DEF BeginTerm
    <2>2. CASE EndTerm(r)
      BY <2>2 DEF EndTerm
    <2>3. CASE ~(BeginTerm(r) \/ EndTerm(r))
      BY <1>3, <2>3 DEF Callback, RefuseTerm, Publish, Relinquish, Unwind
    <2> QED BY <2>1, <2>2, <2>3
  <1>4. ASSUME NEW r \in Replicas, Admit(r) \/ Finish(r) PROVE TermLed' /\ WorkDiesWithTerm'
    BY <1>4 DEF Admit, Finish, Serving
  <1>5. ASSUME NEW r \in Replicas, Stopping(r) PROVE TermLed' /\ WorkDiesWithTerm'
    <2>1. CASE DemoteExit(r) \/ Exit(r)
      BY <2>1 DEF DemoteExit, Exit, Dies
    <2>2. CASE Demote(r) \/ Unlabel(r)
      <3>1. UNCHANGED elect /\ (CancelTerm(r) \/ UNCHANGED <<term, work>>)
        BY <2>2 DEF Demote, Unlabel
      <3> QED BY <3>1 DEF CancelTerm
    <2>3. CASE ~(DemoteExit(r) \/ Exit(r) \/ Demote(r) \/ Unlabel(r))
      <3>1. UNCHANGED <<elect, term, work>>
        BY <1>5, <2>3 DEF Stopping, Sample, CancelFollower, Drain, Join, Release
      <3> QED BY <3>1
    <2> QED BY <2>1, <2>2, <2>3
  <1>6. CASE Tick \/ UNCHANGED vars
    BY <1>6 DEF Tick, vars, stateVars
  <1> QED BY <1>1, <1>2, <1>3, <1>4, <1>5, <1>6 DEF Next

\* Nobody takes a Lease that is held and young, and an elector that leads does
\* not let its own grow old.
LEMMA LeaderHoldsStep ==
  TypeOK /\ LeaderHolds /\ StaysQuiet /\ [Next]_vars => LeaderHolds'
  <1> SUFFICES ASSUME TypeOK, LeaderHolds, StaysQuiet, [Next]_vars PROVE LeaderHolds'
    OBVIOUS
  <1> USE LeadershipAssumption DEF LeadershipAssumption, TypeOK, LeaderHolds
  <1>1. ASSUME NEW r \in Replicas, Start(r) \/ Crash(r) \/ Signal(r) PROVE LeaderHolds'
    BY <1>1 DEF Start, Crash, Dies, Signal, stateVars, leaseVars
  <1>2. ASSUME NEW r \in Replicas, Election(r) PROVE LeaderHolds'
    <2>1. CASE Acquire(r) \/ AcquireUnseen(r)
      <3>1. \A s \in Replicas \ {r} : elect[s] # "leading"
        BY <2>1 DEF Acquire, AcquireUnseen, Available
      <3> QED BY <2>1, <3>1 DEF Acquire, AcquireUnseen, stateVars
    <2>2. CASE ~(Acquire(r) \/ AcquireUnseen(r))
      BY <1>2, <2>2 DEF Election, Renew, Lose, GiveUp, Stopped, stateVars, leaseVars
    <2> QED BY <2>1, <2>2
  <1>3. ASSUME NEW r \in Replicas, Callback(r) PROVE LeaderHolds'
    BY <1>3 DEF Callback, BeginTerm, RefuseTerm, Publish, Relinquish, Unwind, EndTerm,
                leaseVars
  <1>4. ASSUME NEW r \in Replicas, Admit(r) \/ Finish(r) PROVE LeaderHolds'
    BY <1>4 DEF Admit, Finish, leaseVars
  <1>5. ASSUME NEW r \in Replicas, Stopping(r) PROVE LeaderHolds'
    <2>1. CASE DemoteExit(r)
      BY <2>1 DEF DemoteExit, Dies, leaseVars
    <2>2. CASE Exit(r)
      BY <2>2 DEF Exit, Dies
    <2>3. CASE Release(r)
      BY <2>3 DEF Release, MayRelease, StaysQuiet
    <2>4. CASE ~(DemoteExit(r) \/ Exit(r) \/ Release(r))
      <3>1. UNCHANGED <<elect, holder, age>>
        BY <1>5, <2>4 DEF Stopping, Demote, Sample, CancelFollower, Unlabel, Drain, Join,
                          leaseVars
      <3> QED BY <3>1
    <2> QED BY <2>1, <2>2, <2>3, <2>4
  <1>6. CASE Tick
    BY <1>6 DEF Tick, stateVars
  <1>7. CASE UNCHANGED vars
    BY <1>7 DEF vars, stateVars, leaseVars
  <1> QED BY <1>1, <1>2, <1>3, <1>4, <1>5, <1>6, <1>7 DEF Next

\* Once the shutdown is recorded nothing begins: no handler is admitted and no
\* term starts; and an elector that ended and a callback that returned stay so.
LEMMA StaysQuietStep ==
  TypeOK /\ CandidateFresh /\ StaysQuiet /\ [Next]_vars => StaysQuiet'
  <1> SUFFICES ASSUME TypeOK, CandidateFresh, StaysQuiet, [Next]_vars PROVE StaysQuiet'
    OBVIOUS
  <1> USE DEF TypeOK, StaysQuiet
  <1>1. ASSUME NEW r \in Replicas, Start(r) \/ Crash(r) \/ Signal(r) PROVE StaysQuiet'
    <2>1. CASE Start(r)
      BY <2>1 DEF Start, stateVars
    <2>2. CASE Crash(r)
      BY <2>2 DEF Crash, Dies
    <2>3. CASE Signal(r)
      BY <2>3 DEF Signal
    <2> QED BY <1>1, <2>1, <2>2, <2>3
  <1>2. ASSUME NEW r \in Replicas, Election(r) PROVE StaysQuiet'
    <2>1. CASE Lose(r)
      BY <2>1 DEF Lose, CancelTerm
    <2>2. CASE ~Lose(r)
      BY <1>2, <2>2 DEF Election, Acquire, AcquireUnseen, Renew, GiveUp, Stopped, stateVars
    <2> QED BY <2>1, <2>2
  <1>3. ASSUME NEW r \in Replicas, Callback(r) PROVE StaysQuiet'
    <2>1. CASE BeginTerm(r)
      BY <2>1 DEF BeginTerm, ShuttingDown
    <2>2. CASE EndTerm(r)
      BY <2>2 DEF EndTerm
    <2>3. CASE ~(BeginTerm(r) \/ EndTerm(r))
      BY <1>3, <2>3 DEF Callback, RefuseTerm, Publish, Relinquish, Unwind
    <2> QED BY <2>1, <2>2, <2>3
  <1>4. ASSUME NEW r \in Replicas, Admit(r) \/ Finish(r) PROVE StaysQuiet'
    BY <1>4 DEF Admit, Finish, Serving, ShuttingDown
  <1>5. ASSUME NEW r \in Replicas, Stopping(r) PROVE StaysQuiet'
    <2>1. CASE DemoteExit(r) \/ Exit(r)
      BY <2>1 DEF DemoteExit, Exit, Dies
    <2>2. CASE Demote(r)
      BY <2>2 DEF Demote, CancelTerm
    <2>3. CASE Unlabel(r)
      BY <2>3 DEF Unlabel, CancelTerm
    <2>4. CASE Sample(r)
      <3>1. PICK w \in IsLeader(r) : wasLeader' = [wasLeader EXCEPT ![r] = w]
        BY <2>4 DEF Sample
      <3> QED BY <2>4, <3>1 DEF Sample
    <2>5. CASE CancelFollower(r)
      BY <2>5 DEF CancelFollower
    <2>6. CASE Drain(r)
      BY <2>6 DEF Drain
    <2>7. CASE Join(r)
      BY <2>7 DEF Join
    <2>8. CASE Release(r)
      BY <2>8 DEF Release, MayRelease
    <2> QED BY <1>5, <2>1, <2>2, <2>3, <2>4, <2>5, <2>6, <2>7, <2>8 DEF Stopping
  <1>6. CASE Tick \/ UNCHANGED vars
    BY <1>6 DEF Tick, vars, stateVars
  <1> QED BY <1>1, <1>2, <1>3, <1>4, <1>5, <1>6 DEF Next

\* The label is set by a process that leads, and purged before the next listens.
LEMMA LabelStep ==
  TypeOK /\ CandidateFresh /\ LabelMeansLed /\ [Next]_vars => LabelMeansLed'
  <1> SUFFICES ASSUME TypeOK, CandidateFresh, LabelMeansLed, [Next]_vars
               PROVE  LabelMeansLed'
    OBVIOUS
  <1> USE DEF TypeOK, LabelMeansLed, EverLed
  <1>1. ASSUME NEW r \in Replicas, Start(r) \/ Crash(r) \/ Signal(r) PROVE LabelMeansLed'
    <2>1. CASE Start(r)
      BY <2>1 DEF Start, stateVars
    <2>2. CASE Crash(r)
      BY <2>2 DEF Crash, Dies
    <2>3. CASE Signal(r)
      BY <2>3 DEF Signal
    <2> QED BY <1>1, <2>1, <2>2, <2>3
  <1>2. ASSUME NEW r \in Replicas, Election(r) PROVE LabelMeansLed'
    <2>1. CASE Acquire(r)
      BY <2>1 DEF Acquire, CandidateFresh
    <2>2. CASE ~Acquire(r)
      <3>1. UNCHANGED <<up, cb, label>>
        BY <1>2, <2>2 DEF Election, AcquireUnseen, Renew, Lose, GiveUp, Stopped, stateVars
      <3> QED BY <3>1
    <2> QED BY <2>1, <2>2
  <1>3. ASSUME NEW r \in Replicas, Callback(r) PROVE LabelMeansLed'
    <2>1. CASE Publish(r)
      BY <2>1 DEF Publish
    <2>2. CASE ~Publish(r)
      <3>1. /\ UNCHANGED <<up, label>>
            /\ \E step \in {"refused", "publish", "unwind", "done"} :
                 cb' = [cb EXCEPT ![r] = step] /\ (step = "refused" => ~EverLed(r))
        BY <1>3, <2>2 DEF Callback, BeginTerm, RefuseTerm, Relinquish, Unwind, EndTerm
      <3> QED BY <3>1
    <2> QED BY <2>1, <2>2
  <1>4. ASSUME NEW r \in Replicas, Admit(r) \/ Finish(r) PROVE LabelMeansLed'
    BY <1>4 DEF Admit, Finish
  <1>5. ASSUME NEW r \in Replicas, Stopping(r) PROVE LabelMeansLed'
    <2>1. CASE DemoteExit(r)
      BY <2>1 DEF DemoteExit, Dies
    <2>2. CASE Exit(r)
      BY <2>2 DEF Exit, Dies
    <2>3. CASE Unlabel(r)
      <3>1. PICK l \in {FALSE, label[r]} :
              label' = [label EXCEPT ![r] = IF held[r] THEN l ELSE @]
        BY <2>3 DEF Unlabel
      <3>2. \A s \in Replicas : label'[s] => label[s]
        <4>1. ASSUME NEW s \in Replicas, label'[s] PROVE label[s]
          <5>1. CASE s # r
            BY <3>1, <4>1, <5>1
          <5>2. CASE s = r /\ held[r]
            BY <3>1, <4>1, <5>2
          <5>3. CASE s = r /\ ~held[r]
            BY <3>1, <4>1, <5>3
          <5> QED BY <5>1, <5>2, <5>3
        <4> QED BY <4>1
      <3> QED BY <2>3, <3>2 DEF Unlabel
    <2>4. CASE ~(DemoteExit(r) \/ Exit(r) \/ Unlabel(r))
      <3>1. UNCHANGED <<up, cb, label>>
        BY <1>5, <2>4 DEF Stopping, Demote, Sample, CancelFollower, Drain, Join, Release
      <3> QED BY <3>1
    <2> QED BY <2>1, <2>2, <2>3, <2>4
  <1>6. CASE Tick \/ UNCHANGED vars
    BY <1>6 DEF Tick, vars, stateVars
  <1> QED BY <1>1, <1>2, <1>3, <1>4, <1>5, <1>6 DEF Next

\* The callback is launched by a process that runs, and dies with it.
LEMMA DownBlankStep == TypeOK /\ DownBlank /\ [Next]_vars => DownBlank'
  <1> SUFFICES ASSUME TypeOK, DownBlank, [Next]_vars PROVE DownBlank'
    OBVIOUS
  <1> USE DEF TypeOK, DownBlank
  <1>1. ASSUME NEW r \in Replicas, Start(r) \/ Crash(r) \/ Signal(r) PROVE DownBlank'
    BY <1>1 DEF Start, Crash, Dies, Signal, stateVars
  <1>2. ASSUME NEW r \in Replicas, Election(r) PROVE DownBlank'
    BY <1>2 DEF Election, Acquire, AcquireUnseen, Renew, Lose, GiveUp, Stopped, stateVars
  <1>3. ASSUME NEW r \in Replicas, Callback(r) PROVE DownBlank'
    BY <1>3 DEF Callback, BeginTerm, RefuseTerm, Publish, Relinquish, Unwind, EndTerm
  <1>4. ASSUME NEW r \in Replicas, Admit(r) \/ Finish(r) PROVE DownBlank'
    BY <1>4 DEF Admit, Finish
  <1>5. ASSUME NEW r \in Replicas, Stopping(r) PROVE DownBlank'
    <2>1. CASE DemoteExit(r) \/ Exit(r)
      BY <2>1 DEF DemoteExit, Exit, Dies
    <2>2. CASE ~(DemoteExit(r) \/ Exit(r))
      <3>1. UNCHANGED <<up, cb>>
        BY <1>5, <2>2 DEF Stopping, Demote, Sample, CancelFollower, Unlabel, Drain, Join,
                          Release
      <3> QED BY <3>1
    <2> QED BY <2>1, <2>2
  <1>6. CASE Tick \/ UNCHANGED vars
    BY <1>6 DEF Tick, vars, stateVars
  <1> QED BY <1>1, <1>2, <1>3, <1>4, <1>5, <1>6 DEF Next
-----------------------------------------------------------------------------
LEMMA Invariance == Spec => []IInv
  <1>1. IInv /\ [Next]_vars => IInv'
    BY TypeStep, CandidateStep, TermStep, LeaderHoldsStep, StaysQuietStep, LabelStep,
       DownBlankStep DEF IInv
  <1> QED BY Initially, <1>1, PTL DEF Spec

\* A term of leadership exists exactly while its callback runs.
THEOREM TypeCorrect == Spec => []TypeOK
  BY Invariance, PTL DEF IInv

\* Whatever is lost, delayed or killed, one replica at a time serves, or runs a
\* handler under a live context: the Lease has one holder, and only a holder
\* has a live term.
THEOREM ExclusiveServiceHolds == Spec => []ExclusiveService
  <1>1. IInv => ExclusiveService
    BY DEF IInv, TermLed, WorkDiesWithTerm, LeaderHolds, ExclusiveService, Serving
  <1> QED BY <1>1, Invariance, PTL

\* No handler outlives its term under a live context.
THEOREM WorkDiesWithTermHolds == Spec => []WorkDiesWithTerm
  BY Invariance, PTL DEF IInv

\* A shutdown that hands the Lease over left nothing that could still act.
THEOREM QuietReleaseHolds == Spec => []QuietRelease
  <1>1. IInv => QuietRelease
    BY DEF IInv, StaysQuiet, QuietRelease
  <1> QED BY <1>1, Invariance, PTL

\* Only a process that led is routed to.
THEOREM LabelMeansLedHolds == Spec => []LabelMeansLed
  BY Invariance, PTL DEF IInv
-----------------------------------------------------------------------------
(* The replicas implement the one server. *)

services == [r \in Replicas |-> Service(r)]

\* A step of one replica leaves the service of the others as it is.
Alone(r) == \A s \in Replicas \ {r} :
  /\ up'[s] = up[s] /\ cb'[s] = cb[s] /\ term'[s] = term[s]
  /\ demotion'[s] = demotion[s] /\ shutdown'[s] = shutdown[s]

LEMMA OthersKeep ==
  ASSUME NEW r \in Replicas, Alone(r)
  PROVE  /\ services' = [services EXCEPT ![r] = Service(r)']
         /\ Service(r)' = Service(r) => services' = services
  <1>1. ASSUME NEW s \in Replicas \ {r} PROVE Service(s)' = Service(s)
    BY DEF Alone, Service, Serving, ShuttingDown
  <1> QED BY <1>1 DEF services

\* The steps that may end a service: those that cancel the term's context.
CancelsWork(r) == work' = [work EXCEPT ![r] = IF @ = "live" THEN "cancelled" ELSE @]

LEMMA Ends ==
  ASSUME NEW r \in Replicas, Alone(r), Service(r)' = "spent", work' = work \/ CancelsWork(r)
  PROVE  Single!SNext
  <1>1. services' = [services EXCEPT ![r] = "spent"]
    BY OthersKeep
  <1>2. Single!End(r)
    BY <1>1 DEF Single!End, services, CancelsWork
  <1> QED BY <1>2 DEF Single!SNext

LEMMA Stays ==
  ASSUME NEW r \in Replicas, Alone(r), Service(r)' = Service(r), work' = work
  PROVE  UNCHANGED <<services, work>>
  BY OthersKeep

LEMMA Replaced ==
  ASSUME TypeOK, NEW r \in Replicas, Dies(r) PROVE Single!SNext
  <1>1. Alone(r)
    BY DEF Dies, Alone, TypeOK
  <1>2. Service(r)' = "fresh"
    BY DEF Dies, TypeOK, Service, Serving, ShuttingDown
  <1>3. Single!Replace(r)
    BY <1>1, <1>2, OthersKeep DEF Dies, Single!Replace, services
  <1> QED BY <1>3 DEF Single!SNext

LEMMA SingleInit == Init => Single!SInit
  BY DEF Init, Single!SInit, Service, Serving, ShuttingDown

\* A term that begins begins the service, unless the election is over already;
\* what ends, demotes or shuts down spends it; a death makes room for the next.
LEMMA SingleStep ==
  ASSUME IInv, ExclusiveService', [Next]_vars
  PROVE  Single!SNext \/ UNCHANGED <<services, work>>
  <1> USE DEF IInv, TypeOK
  <1>1. ASSUME NEW r \in Replicas, Start(r) PROVE UNCHANGED <<services, work>>
    <2>1. Alone(r) /\ work' = work
      BY <1>1 DEF Start, stateVars, Alone
    <2>2. Service(r)' = Service(r)
      BY <1>1 DEF Start, stateVars, Service, Serving, ShuttingDown, DownBlank
    <2> QED BY <2>1, <2>2, Stays
  <1>2. ASSUME NEW r \in Replicas, Crash(r) \/ DemoteExit(r) \/ Exit(r) PROVE Single!SNext
    BY <1>2, Replaced DEF Crash, DemoteExit, Exit
  <1>3. ASSUME NEW r \in Replicas, Signal(r) PROVE Single!SNext
    <2>1. Alone(r) /\ work' = work
      BY <1>3 DEF Signal, Alone
    <2>2. Service(r)' = "spent"
      BY <1>3 DEF Signal, Service, Serving, ShuttingDown
    <2> QED BY <2>1, <2>2, Ends
  <1>4. ASSUME NEW r \in Replicas, Election(r)
        PROVE  Single!SNext \/ UNCHANGED <<services, work>>
    <2>1. CASE Acquire(r)
      <3>1. Alone(r) /\ work' = work
        BY <2>1 DEF Acquire, Alone
      <3>2. Service(r)' = Service(r)
        BY <2>1 DEF Acquire, CandidateFresh, Service, Serving, ShuttingDown
      <3> QED BY <3>1, <3>2, Stays
    <2>2. CASE AcquireUnseen(r) \/ Renew(r) \/ GiveUp(r)
      BY <2>2 DEF AcquireUnseen, Renew, GiveUp, stateVars, services, Service, Serving,
                  ShuttingDown
    <2>3. CASE Lose(r)
      <3>1. Alone(r) /\ UNCHANGED <<up, cb, demotion, shutdown>>
        BY <2>3 DEF Lose, CancelTerm, Alone
      <3>2. CASE term[r] = "live"
        <4>1. term'[r] = "cancelled" /\ CancelsWork(r) /\ cb[r] \notin {"none", "launched"}
          BY <2>3, <3>2 DEF Lose, CancelTerm, CancelsWork
        <4>2. Service(r)' = "spent"
          BY <3>1, <4>1 DEF Service, Serving
        <4> QED BY <3>1, <4>1, <4>2, Ends
      <3>3. CASE term[r] # "live"
        <4>1. term' = term /\ work' = work
          BY <2>3, <3>3 DEF Lose, CancelTerm, WorkDiesWithTerm
        <4>2. Service(r)' = Service(r)
          BY <3>1, <4>1 DEF Service, Serving, ShuttingDown
        <4> QED BY <3>1, <4>1, <4>2, Stays
      <3> QED BY <3>2, <3>3
    <2>4. CASE Stopped(r)
      <3>1. Alone(r) /\ work' = work
        BY <2>4 DEF Stopped, Alone
      <3>2. Service(r)' = Service(r)
        BY <2>4 DEF Stopped, Service, Serving, ShuttingDown
      <3> QED BY <3>1, <3>2, Stays
    <2> QED BY <1>4, <2>1, <2>2, <2>3, <2>4 DEF Election
  <1>5. ASSUME NEW r \in Replicas, Callback(r)
        PROVE  Single!SNext \/ UNCHANGED <<services, work>>
    <2>1. CASE BeginTerm(r)
      <3>1. Alone(r) /\ work' = work /\ up[r]
        BY <2>1 DEF BeginTerm, Alone, DownBlank
      <3>2. CASE elect[r] = "leading"
        <4>1. Serving(r)' /\ Service(r) = "fresh"
          BY <2>1, <3>1, <3>2 DEF BeginTerm, Service, Serving, ShuttingDown
        <4>2. services' = [services EXCEPT ![r] = "serving"]
          BY <3>1, <4>1, OthersKeep DEF Service
        <4>3. ASSUME NEW s \in Replicas \ {r} PROVE services[s] # "serving" /\ work[s] # "live"
          <5>1. ~Serving(s)' /\ work'[s] # "live"
            BY <4>1 DEF ExclusiveService
          <5>2. Serving(s)' = Serving(s)
            BY <3>1 DEF Alone, Serving, ShuttingDown
          <5> QED BY <3>1, <5>1, <5>2 DEF services, Service
        <4>4. Single!Begin(r)
          BY <3>1, <4>1, <4>2, <4>3 DEF Single!Begin, services
        <4> QED BY <4>4 DEF Single!SNext
      <3>3. CASE elect[r] # "leading"
        <4>1. Service(r)' = "spent"
          BY <2>1, <3>3 DEF BeginTerm, Service, Serving
        <4> QED BY <3>1, <4>1, Ends
      <3> QED BY <3>2, <3>3
    <2>2. CASE EndTerm(r)
      <3>1. Alone(r) /\ CancelsWork(r)
        BY <2>2 DEF EndTerm, Alone, CancelsWork
      <3>2. Service(r)' = "spent"
        BY <2>2 DEF EndTerm, Service, Serving
      <3> QED BY <3>1, <3>2, Ends
    <2>3. CASE RefuseTerm(r) \/ Publish(r) \/ Relinquish(r) \/ Unwind(r)
      <3>1. Alone(r) /\ work' = work
        BY <2>3 DEF RefuseTerm, Publish, Relinquish, Unwind, Alone
      <3>2. Service(r)' = Service(r)
        BY <2>3 DEF RefuseTerm, Publish, Relinquish, Unwind, Service, Serving, ShuttingDown
      <3> QED BY <3>1, <3>2, Stays
    <2> QED BY <1>5, <2>1, <2>2, <2>3 DEF Callback
  <1>6. ASSUME NEW r \in Replicas, Admit(r) PROVE Single!SNext
    <2>1. services' = services
      BY <1>6 DEF Admit, services, Service, Serving, ShuttingDown
    <2>2. Single!Take(r)
      BY <1>6, <2>1 DEF Admit, Single!Take, services, Service
    <2> QED BY <2>2 DEF Single!SNext
  <1>7. ASSUME NEW r \in Replicas, Finish(r) PROVE Single!SNext
    <2>1. services' = services
      BY <1>7 DEF Finish, services, Service, Serving, ShuttingDown
    <2>2. Single!Finish(r)
      BY <1>7, <2>1 DEF Finish, Single!Finish, services
    <2> QED BY <2>2 DEF Single!SNext
  <1>8. ASSUME NEW r \in Replicas, Stopping(r), ~DemoteExit(r), ~Exit(r)
        PROVE  Single!SNext \/ UNCHANGED <<services, work>>
    <2>1. CASE Demote(r) /\ ShuttingDown(r)
      <3>1. Alone(r) /\ work' = work
        BY <2>1 DEF Demote, Alone
      <3>2. Service(r)' = Service(r)
        BY <2>1 DEF Demote, Service, Serving, ShuttingDown
      <3> QED BY <3>1, <3>2, Stays
    <2>2. CASE Demote(r) /\ ~ShuttingDown(r)
      <3>1. Alone(r) /\ CancelsWork(r)
        BY <2>2 DEF Demote, CancelTerm, Alone, CancelsWork
      <3>2. Service(r)' = "spent"
        BY <2>2 DEF Demote, Service, Serving, ShuttingDown
      <3> QED BY <3>1, <3>2, Ends
    <2>3. CASE Unlabel(r)
      <3>1. Alone(r) /\ CancelsWork(r)
        BY <2>3 DEF Unlabel, CancelTerm, Alone, CancelsWork
      <3>2. Service(r)' = "spent"
        BY <2>3 DEF Unlabel, Service, Serving, ShuttingDown
      <3> QED BY <3>1, <3>2, Ends
    <2>4. CASE Sample(r) \/ CancelFollower(r) \/ Drain(r) \/ Join(r) \/ Release(r)
      <3>1. /\ UNCHANGED <<up, cb, term, demotion, work>>
            /\ shutdown[r] # "no"
            /\ \E phase \in {"sampled", "unlabel", "join", "joined", "released"} :
                 shutdown' = [shutdown EXCEPT ![r] = phase]
        BY <2>4 DEF Sample, CancelFollower, Drain, Join, Release
      <3>2. Alone(r) /\ Service(r)' = Service(r)
        BY <3>1 DEF Alone, Service, Serving, ShuttingDown
      <3> QED BY <3>1, <3>2, Stays
    <2> QED BY <1>8, <2>1, <2>2, <2>3, <2>4 DEF Stopping
  <1>9. CASE Tick \/ UNCHANGED vars
    BY <1>9 DEF Tick, vars, stateVars, services, Service, Serving, ShuttingDown
  <1> QED BY <1>1, <1>2, <1>3, <1>4, <1>5, <1>6, <1>7, <1>8, <1>9 DEF Next

\* The replicas are one server: one serves at a time, a process serves at most
\* once, and no service begins before the work of the others is over or
\* cancelled, whatever becomes of the Lease and of the processes.
THEOREM ImplementsSingleServer == Spec => OneServer
  <1>1. IInv => ExclusiveService
    BY DEF IInv, TermLed, WorkDiesWithTerm, LeaderHolds, ExclusiveService, Serving
  <1>2. IInv /\ ExclusiveService' /\ [Next]_vars => [Single!SNext]_<<services, work>>
    BY SingleStep
  <1> QED BY <1>1, <1>2, SingleInit, Invariance, PTL
          DEF Spec, OneServer, Single!SSpec, services

=============================================================================
