------------------------------ MODULE Provider ------------------------------
(***************************************************************************)
(* One provider process from its start to its exit (main.go): it loads and *)
(* validates its configuration, purges its label, opens the listener,      *)
(* publishes the reachability of Kubernetes (readiness.go), serves RPCs    *)
(* behind panicRecover and the leadership gate (leader.go, the generated   *)
(* service), and on a signal runs the shutdown that runServer joins.       *)
(*                                                                         *)
(* The election is external here: the process may win once and be demoted. *)
(* Leadership has the term, the label and the Lease in detail, for several *)
(* replicas; this module has what surrounds them, with the election and    *)
(* without it.                                                             *)
(***************************************************************************)
EXTENDS NodeGroups

CONSTANTS
  Envs,      \* the environments a process may be started in
  Followed,  \* bound: those whose process is followed past its configuration
  Calls,     \* RPCs in flight at a time
  Methods,   \* bound: the methods they call
  Tails,     \* what follows a group's prefix in an instance name
  Pids       \* providerIDs a Node may carry

ASSUME ProviderAssumption ==
  /\ \A env \in Envs : Shape(env)
  /\ Tails \subseteq Seq(Tokens) /\ Pids \subseteq Seq(Tokens)

VARIABLES
  phase,        \* how far main has come
  config,       \* the environment, and what LoadConfig made of it
  signalled,    \* the root context is cancelled
  health,       \* the status of the "" health service, which the kubelet probes
  named,        \* the status of the "leader" health service
  terminal,     \* the health server was shut down: later writes are no-ops
  check,        \* readinessLoop
  told,         \* its `serving`: the last result it published
  reached,      \* the last result of a check (history)
  k8sOK, leader, shuttingDown,  \* the fields of leadership
  demoted,      \* demote() is past its check
  orch,         \* the shutdown goroutine of runServer
  grpc,         \* the gRPC server: open, draining, stopped
  rpc           \* each call: where it is, its method, its answer

healthVars == <<health, named, terminal>>
checkVars  == <<check, told, reached>>
leadVars   == <<k8sOK, leader, shuttingDown, demoted>>
vars == <<phase, config, signalled, healthVars, checkVars, leadVars, orch, grpc, rpc>>

Gone == phase \in {"exited", "failed"}

Status(ok) == IF ok THEN "SERVING" ELSE "NOT_SERVING"

Init ==
  /\ phase = "boot" /\ config \in Envs /\ signalled = FALSE
  /\ health = "SERVING"  \* the health server's own default
  /\ named = "NOT_SERVING" /\ terminal = FALSE
  /\ check = "off" /\ told = "nil" /\ reached = "nil"
  /\ k8sOK = FALSE /\ leader = FALSE /\ shuttingDown = FALSE /\ demoted = FALSE
  /\ orch = "off" /\ grpc = "open"
  /\ rpc = [c \in Calls |-> [at |-> "none", method |-> "", code |-> ""]]

Answered(c, code) == [rpc[c] EXCEPT !.at = "answered", !.code = code]

\* Somebody waits for an answer; a goroutine of the server works on the call,
\* be it for a caller whose connection was cut.
Busy(c)    == rpc[c].at \in {"arrived", "running"}
Working(c) == Busy(c) \/ rpc[c].at = "cut"

\* The process ends; whoever waits for an answer loses the connection.
Ends(how) ==
  /\ phase' = how
  /\ rpc' = [c \in Calls |-> IF Working(c) THEN Answered(c, "Unavailable") ELSE rpc[c]]
  /\ check' = "off"
  /\ UNCHANGED <<config, signalled, healthVars, told, reached, leadVars, orch, grpc>>
-----------------------------------------------------------------------------
(* main: the start. *)

Load ==
  /\ phase = "boot" /\ Acceptable(config)
  /\ phase' = "loaded"
  /\ config' = Loaded(config)
  /\ leader' = ~config.elect  \* newLeadership: pinned when there is no election
  /\ UNCHANGED <<signalled, healthVars, checkVars, k8sOK, shuttingDown, demoted,
                 orch, grpc, rpc>>

Refuse == phase = "boot" /\ ~Acceptable(config) /\ Ends("failed")

\* (mutant) The health server keeps its default.
ConnectTrusting ==
  /\ phase = "loaded" /\ phase' = "connected"
  /\ config \in {Loaded(e) : e \in Followed}
  /\ UNCHANGED <<config, signalled, healthVars, checkVars, leadVars, orch, grpc, rpc>>

\* The clients are made, ENS is probed, whatever it says, and the health
\* service is made to deny what no check has shown yet.
Connect ==
  /\ phase = "loaded" /\ phase' = "connected"
  /\ config \in {Loaded(e) : e \in Followed}
  /\ health' = "NOT_SERVING"
  /\ UNCHANGED <<config, signalled, named, terminal, checkVars, leadVars, orch, grpc,
                 rpc>>

\* The stale label is purged before anything can route here or elect this pod.
Purge ==
  /\ phase = "connected"
  /\ phase' = "purged"
  /\ UNCHANGED <<config, signalled, healthVars, checkVars, leadVars, orch, grpc, rpc>>

\* The listener is open, the readiness loop and the election run, and so does
\* the goroutine that waits for the signal; Serve has not been called.
Listen ==
  /\ phase = "purged"
  /\ phase' = "listening" /\ check' = "idle" /\ orch' = "wait"
  /\ UNCHANGED <<config, signalled, healthVars, told, reached, leadVars, grpc, rpc>>

\* A client or the label's purge fails for good, or the signal interrupts it;
\* the port is taken.
StartFails == phase \in {"loaded", "connected", "purged"} /\ Ends("failed")

Signal ==
  /\ ~Gone /\ ~signalled
  /\ signalled' = TRUE
  /\ UNCHANGED <<phase, config, healthVars, checkVars, leadVars, orch, grpc, rpc>>
-----------------------------------------------------------------------------
(* readinessLoop and the tee. *)

CheckBegins ==
  /\ check = "idle"
  /\ check' = IF signalled THEN "ended" ELSE "ping"
  /\ UNCHANGED <<phase, config, signalled, healthVars, told, reached, leadVars,
                 orch, grpc, rpc>>

\* The ping answers or times out.  A result that a signal raced is dropped, and
\* only a transition is published.
Ping(result) ==
  /\ check = "ping"
  /\ IF signalled THEN check' = "ended" /\ UNCHANGED <<told, reached>>
     ELSE /\ reached' = result /\ told' = result
          /\ check' = IF told = result THEN "idle" ELSE "publish"
  /\ UNCHANGED <<phase, config, signalled, healthVars, leadVars, orch, grpc, rpc>>

\* The tee's first half: the "" service, unless the health server is shut down.
Publish ==
  /\ check = "publish"
  /\ health' = IF terminal THEN health ELSE Status(told = "up")
  /\ check' = "tee"
  /\ UNCHANGED <<phase, config, signalled, named, terminal, told, reached, leadVars,
                 orch, grpc, rpc>>

\* What publishLocked makes of the named service.
Mirrored(l, k, s) == IF terminal THEN named ELSE Status(l /\ k /\ ~s)

\* Its second half: SetK8sOK.
Tee ==
  /\ check = "tee"
  /\ k8sOK' = (told = "up")
  /\ named' = Mirrored(leader, told = "up", shuttingDown)
  /\ check' = "idle"
  /\ UNCHANGED <<phase, config, signalled, health, terminal, told, reached, leader,
                 shuttingDown, demoted, orch, grpc, rpc>>
-----------------------------------------------------------------------------
(* The election, seen from here. *)

Elects == phase \in {"listening", "serving", "returned"} /\ config.elect /\ ~shuttingDown

Win ==
  /\ Elects /\ ~leader
  /\ leader' = TRUE /\ named' = Mirrored(TRUE, k8sOK, FALSE)
  /\ UNCHANGED <<phase, config, signalled, health, terminal, checkVars, k8sOK,
                 shuttingDown, demoted, orch, grpc, rpc>>

Demote ==
  /\ Elects /\ leader
  /\ leader' = FALSE /\ shuttingDown' = TRUE /\ demoted' = TRUE
  /\ named' = Mirrored(FALSE, k8sOK, TRUE)
  /\ UNCHANGED <<phase, config, signalled, health, terminal, checkVars, k8sOK,
                 orch, grpc, rpc>>

\* exit(1), after a bounded wait for the term.
DemoteExit == demoted /\ ~Gone /\ Ends("failed")
-----------------------------------------------------------------------------
(* RPCs: the client's stub, the generated dispatch, the interceptors. *)

Optional == {"PricingNodePrice", "PricingPodPrice", "NodeGroupGetOptions"}

\* The codes a handler of server.go answers with.
Codes(m) ==
  CASE m \in Optional                       -> {"Unimplemented"}
    [] m = "NodeGroupIncreaseSize"          -> {"OK", "NotFound", "OutOfRange", "Internal"}
    [] m = "NodeGroupDecreaseTargetSize"    -> {"NotFound", "FailedPrecondition"}
    [] m = "NodeGroupTemplateNodeInfo"      -> {"OK", "NotFound"}
    [] m \in {"NodeGroupTargetSize", "NodeGroupNodes", "NodeGroupDeleteNodes"}
                                            -> {"OK", "NotFound", "Internal"}
    [] m \in {"NodeGroups", "NodeGroupForNode", "GPULabel", "GetAvailableGPUTypes",
              "Cleanup", "Refresh", "Health"} -> {"OK"}

Call(c, m) ==
  /\ phase = "serving" /\ grpc = "open" /\ rpc[c].at \in {"none", "answered"}
  /\ rpc' = [rpc EXCEPT ![c] = [at |-> "arrived", method |-> m, code |-> ""]]
  /\ UNCHANGED <<phase, config, signalled, healthVars, checkVars, leadVars, orch, grpc>>

\* admit(): no gate but the shutdown's without an election.
Admits == ~shuttingDown /\ (config.elect => leader /\ k8sOK)

\* (mutant) A follower keeps what it cannot serve for when it leads.
DispatchPatient(c) ==
  /\ ~Gone /\ rpc[c].at = "arrived"
  /\ rpc[c].method = "Health" \/ Admits
  /\ rpc' = [rpc EXCEPT ![c].at = "running"]
  /\ UNCHANGED <<phase, config, signalled, healthVars, checkVars, leadVars, orch, grpc>>

\* A request is decoded, which may fail, and passes the gate, from which the
\* health service is exempt, or is refused there.
Dispatch(c) ==
  /\ ~Gone /\ rpc[c].at = "arrived"
  /\ rpc' \in {[rpc EXCEPT ![c] = Answered(c, "Internal")],
               [rpc EXCEPT ![c] = IF rpc[c].method = "Health" \/ Admits
                                  THEN [@ EXCEPT !.at = "running"]
                                  ELSE Answered(c, "Unavailable")]}
  /\ UNCHANGED <<phase, config, signalled, healthVars, checkVars, leadVars, orch, grpc>>

Handle(c) ==
  /\ ~Gone /\ rpc[c].at = "running"
  /\ \E code \in Codes(rpc[c].method) : rpc' = [rpc EXCEPT ![c] = Answered(c, code)]
  /\ UNCHANGED <<phase, config, signalled, healthVars, checkVars, leadVars, orch, grpc>>

\* The handler panics, and panicRecover answers for it.
Panic(c) ==
  /\ ~Gone /\ rpc[c].at = "running"
  /\ rpc' = [rpc EXCEPT ![c] = Answered(c, "Internal")]
  /\ UNCHANGED <<phase, config, signalled, healthVars, checkVars, leadVars, orch, grpc>>

\* A handler whose caller is gone comes to its end.
Unwind(c) ==
  /\ ~Gone /\ rpc[c].at = "cut"
  /\ rpc' = [rpc EXCEPT ![c] = Answered(c, "Unavailable")]
  /\ UNCHANGED <<phase, config, signalled, healthVars, checkVars, leadVars, orch, grpc>>
-----------------------------------------------------------------------------
(* runServer. *)

Serve ==
  /\ phase = "listening"
  /\ phase' = IF grpc = "open" THEN "serving" ELSE "returned"
  /\ UNCHANGED <<config, signalled, healthVars, checkVars, leadVars, orch, grpc, rpc>>

\* Serve returns once the server is being stopped, or when its listener fails.
ServeReturns ==
  /\ phase = "serving" /\ phase' = "returned"
  /\ UNCHANGED <<config, signalled, healthVars, checkVars, leadVars, orch, grpc, rpc>>

\* (mutant) The shutdown is not joined.
ReturnDetached == phase = "returned" /\ Ends(IF signalled THEN "exited" ELSE "failed")

\* (mutant) It is joined even if it was never asked for.
ReturnJoining == phase = "returned" /\ orch = "done" /\ Ends("exited")

\* Without a signal nothing will run the shutdown; with one it is joined.
Return ==
  /\ phase = "returned"
  /\ \/ ~signalled /\ Ends("failed")
     \/ signalled /\ orch = "done" /\ Ends("exited")

\* healthSrv.Shutdown.
ShutHealth ==
  /\ ~Gone /\ orch = "wait" /\ signalled
  /\ terminal' = TRUE /\ health' = "NOT_SERVING" /\ named' = "NOT_SERVING"
  /\ orch' = "record"
  /\ UNCHANGED <<phase, config, signalled, checkVars, leadVars, grpc, rpc>>

\* lead.Shutdown: a demotion that came first owns the end of the process.
Record ==
  /\ ~Gone /\ orch = "record"
  /\ orch' = IF shuttingDown THEN "done" ELSE "stop"
  /\ shuttingDown' = TRUE
  /\ UNCHANGED <<phase, config, signalled, healthVars, checkVars, k8sOK, leader,
                 demoted, grpc, rpc>>

\* GracefulStop, once the term is over or had its time.
BeginDrain ==
  /\ ~Gone /\ orch = "stop"
  /\ grpc' = "draining" /\ orch' = "drain"
  /\ UNCHANGED <<phase, config, signalled, healthVars, checkVars, leadVars, rpc>>

Drained ==
  /\ ~Gone /\ orch = "drain" /\ \A c \in Calls : ~Working(c)
  /\ orch' = "done"
  /\ UNCHANGED <<phase, config, signalled, healthVars, checkVars, leadVars, grpc, rpc>>

\* The budget is spent: the connections are closed over the running handlers,
\* which run on.
HardStop ==
  /\ ~Gone /\ orch = "drain"
  /\ grpc' = "stopped" /\ orch' = "stopping"
  /\ rpc' = [c \in Calls |-> IF Busy(c) THEN [rpc[c] EXCEPT !.at = "cut"] ELSE rpc[c]]
  /\ UNCHANGED <<phase, config, signalled, healthVars, checkVars, leadVars>>

\* GracefulStop is still waited for, and it waits for the handlers.
Stopped ==
  /\ ~Gone /\ orch = "stopping" /\ \A c \in Calls : ~Working(c)
  /\ orch' = "done"
  /\ UNCHANGED <<phase, config, signalled, healthVars, checkVars, leadVars, grpc, rpc>>
-----------------------------------------------------------------------------
Start      == Load \/ Refuse \/ Connect \/ Purge \/ Listen \/ StartFails
Readiness  == CheckBegins \/ (\E r \in {"up", "down"} : Ping(r)) \/ Publish \/ Tee
RunServer  == Serve \/ (grpc # "open" /\ ServeReturns) \/ Return
Orchestra  == ShutHealth \/ Record \/ BeginDrain \/ Drained \/ HardStop \/ Stopped
Handler(c) == Handle(c) \/ Panic(c) \/ Unwind(c)

Next ==
  \/ Start \/ Signal \/ Readiness \/ Win \/ Demote \/ DemoteExit
  \/ RunServer \/ ServeReturns \/ Orchestra
  \/ \E c \in Calls : (\E m \in Methods : Call(c, m)) \/ Dispatch(c) \/ Handler(c)

\* Goroutines that can go on do, and a handler comes to its end, as each wait in
\* it has a timeout; nothing makes a signal or a failure come.
Fairness ==
  /\ WF_vars(Start) /\ WF_vars(RunServer) /\ WF_vars(Orchestra) /\ WF_vars(DemoteExit)
  /\ \A c \in Calls : WF_vars(Dispatch(c)) /\ WF_vars(Handler(c))

Spec == Init /\ [][Next]_vars /\ Fairness
-----------------------------------------------------------------------------
(* What holds of every configuration that is accepted; nothing changes it    *)
(* afterwards.                                                             *)

\* An instance that is ordered for a group is its group's, whatever follows the
\* prefix in its name and whatever other groups there are (groups.go:363-365,
\* 526-530): every count, release and clean-up goes by that.
OneOwner ==
  phase = "loaded" =>
    \A i \in Members(config), s \in Tails :
      GroupForInstanceName(config, config.groups[i].NamePrefix \o s) = i

\* The autoscaler's Node and group id lead back to the group they came from,
\* although a nodepool that is left open becomes the id (groups.go:322, 402-409).
GroupsTellApart ==
  phase = "loaded" =>
    \A i \in Members(config) :
      /\ GroupForNodeLabels(config, NodeLabels(config.groups[i])) = i
      /\ GroupByID(config, config.groups[i].ID) = i

\* NodeGroupTemplateNodeInfo of a group without Nodes never panics in MustParse
\* (groups.go:389-392), and never offers more than the instance has, for a
\* block that sets an allocatable quantity with its capacity or neither.
TemplateSound ==
  phase = "loaded" =>
    \A i \in Members(config) :
      LET g == config.groups[i]
          t == TemplateOf(config, g)
      IN /\ Servable(config, g)
         /\ \A p \in Pairs :
              (g.hasTemplate => (g.Template[p[1]] = Unset <=> g.Template[p[2]] = Unset))
              => t[p[1]] <= t[p[2]]

\* What the simulation plans with is what joins: the taints, and each label of
\* the template with its value, whoever sets it (template.go:10-12).  Two kinds
\* of label are promised and not written into the node-spec: those a kubelet
\* reports, and the edge and addon labels that it no longer carries
\* (userdata.go:53-54), unless the group sets them; and a group that labels its
\* Nodes with the nodepool's own key is overruled by ACK.  What is written and
\* not promised is the interconnection mode.
PromiseKept ==
  phase = "loaded" =>
    \A i \in Members(config) :
      LET g        == config.groups[i]
          promised == TemplateLabels(g)
          carried  == NodeLabels(g)
      IN /\ TemplateTaints(g) = NodeSpecTaints(g)
         /\ \A k \in DOMAIN promised :
              \/ k \in (EdgeLabels \cup KubeletLabels) \ DOMAIN g.Labels
              \/ k = NodepoolLabel /\ k \in DOMAIN g.Labels
              \/ k \in DOMAIN carried /\ carried[k] = promised[k]
         /\ DOMAIN carried \ DOMAIN promised \subseteq {InterconnectionMode}

\* What a release may be asked for is an instance of this region that every
\* read correlates with the same Node, if the region's name has no dot
\* (groups.go:567-570, server.go:183).
ProviderIDsAgree ==
  phase = "loaded" =>
    /\ \A id \in EnsIds : StrictEdgeInstanceID(config, ProviderID(config, id)) = <<id>>
    /\ \A p \in Pids :
         LET id == StrictEdgeInstanceID(config, p)
         IN id # <<>> => /\ p = ProviderID(config, id[1])
                         /\ Dot \in ToSet(config.region) \/ InstanceIDFromProviderID(p) = id
-----------------------------------------------------------------------------
(* What holds of the process. *)

TypeOK ==
  /\ phase \in {"boot", "loaded", "connected", "purged", "listening", "serving",
                "returned", "exited", "failed"}
  /\ phase = "loaded" => /\ \A i \in Members(config) : config.groups[i].Max > 0
                         /\ config.tokenTTL \in {0} \cup 60 .. 1440
  /\ {signalled, terminal, k8sOK, leader, shuttingDown, demoted} \subseteq BOOLEAN
  /\ {health, named} \subseteq {"SERVING", "NOT_SERVING"}
  /\ check \in {"off", "idle", "ping", "publish", "tee", "ended"}
  /\ {told, reached} \subseteq {"nil", "up", "down"}
  /\ orch \in {"off", "wait", "record", "stop", "drain", "stopping", "done"}
  /\ grpc \in {"open", "draining", "stopped"}
  /\ \A c \in Calls :
       /\ rpc[c].at \in {"none", "arrived", "running", "cut", "answered"}
       /\ rpc[c].at = "answered" =>
            rpc[c].code \in Codes(rpc[c].method) \cup {"Internal", "Unavailable"}

Listening == phase \in {"listening", "serving", "returned"}

\* Once somebody can ask, the health services say what the last check showed
\* and what the gate does: no readiness without a check, none after the
\* shutdown of the health server, whatever check it overtakes, and both halves
\* of the tee agree (readiness.go:40-46, main.go:98-109, leader.go:165-195).
HonestHealth ==
  Listening =>
    /\ terminal => health = "NOT_SERVING" /\ named = "NOT_SERVING"
    /\ ~terminal => named = Status(leader /\ k8sOK /\ ~shuttingDown)
    /\ health = "SERVING" => reached = "up" \/ check = "publish"
    /\ check \in {"idle", "ping"} =>
         /\ k8sOK <=> reached = "up"
         /\ ~terminal => (health = "SERVING" <=> reached = "up")

\* A process that came up leaves by a demotion, by a failed listener, or by a
\* shutdown that was joined: then no handler runs any more, although the budget
\* may be spent and the callers gone (main.go:241-250, 264-275, 280-290).  No
\* panic of a handler ends it (main.go:53-64).
OrderlyExit ==
  [][Listening /\ phase' \in {"exited", "failed"} =>
       \/ demoted
       \/ phase = "returned" /\ ~signalled
       \/ phase = "returned" /\ orch = "done" /\ \A c \in Calls : ~Working(c)]_vars

\* A signal, at whatever moment of the start, and a server that stopped by
\* itself end the process (main.go:280-289).
ProcessEnds == signalled \/ phase = "returned" ~> Gone

\* Every call that arrives is answered or loses its connection.
CallsAnswered == \A c \in Calls : Busy(c) ~> ~Busy(c)
=============================================================================
