--------------------------- MODULE ProviderProofs ---------------------------
(***************************************************************************)
(* The start, the health it publishes and the way out of one process, for  *)
(* every set of environments of the decoded shape, any number of calls and *)
(* any methods; and, by NodeGroupsProofs, what holds of each configuration *)
(* that is accepted.                                                       *)
(***************************************************************************)
EXTENDS Provider, NodeGroupsProofs

Booleans == /\ signalled \in BOOLEAN /\ terminal \in BOOLEAN /\ demoted \in BOOLEAN
            /\ k8sOK \in BOOLEAN /\ leader \in BOOLEAN /\ shuttingDown \in BOOLEAN

Values ==
  /\ phase \in {"boot", "loaded", "connected", "purged", "listening", "serving",
                "returned", "exited", "failed"}
  /\ health \in {"SERVING", "NOT_SERVING"} /\ named \in {"SERVING", "NOT_SERVING"}
  /\ check \in {"off", "idle", "ping", "publish", "tee", "ended"}
  /\ told \in {"nil", "up", "down"} /\ reached \in {"nil", "up", "down"}
  /\ orch \in {"off", "wait", "record", "stop", "drain", "stopping", "done"}
  /\ grpc \in {"open", "draining", "stopped"}

CallShape ==
  /\ DOMAIN rpc = Calls
  /\ \A c \in Calls :
       /\ DOMAIN rpc[c] = {"at", "method", "code"}
       /\ rpc[c].at \in {"none", "arrived", "running", "cut", "answered"}
       /\ rpc[c].at = "answered" =>
            rpc[c].code \in Codes(rpc[c].method) \cup {"Internal", "Unavailable"}

\* Only an accepted environment is followed.
Started ==
  /\ phase = "boot" => config \in Envs /\ ~leader
  /\ phase = "loaded" => \E env \in Envs : Acceptable(env) /\ config = Loaded(env)

\* Nothing has been checked or published before the listener is open.
Unheard ==
  phase \in {"boot", "loaded", "connected", "purged"} =>
    /\ check = "off" /\ orch = "off" /\ told = "nil" /\ reached = "nil"
    /\ ~k8sOK /\ ~terminal /\ ~shuttingDown /\ ~demoted
    /\ named = "NOT_SERVING"
    /\ phase \in {"connected", "purged"} => health = "NOT_SERVING"

\* What the loop holds is the last result; between the two halves of the tee
\* only the health server knows it.
TeeKnows ==
  Listening =>
    /\ told = reached
    /\ check \in {"idle", "ping", "publish", "tee", "ended"}
    /\ check = "tee" /\ ~terminal => (health = "SERVING" <=> reached = "up")
    /\ orch \in {"record", "stop", "drain", "stopping", "done"} => terminal
    /\ health \in {"SERVING", "NOT_SERVING"}

\* No call enters a server that drains or is stopped, and a shutdown that is
\* over left no handler behind, unless a demotion came before it.
Joined ==
  /\ orch \in {"off", "wait", "record"} /\ shuttingDown => demoted
  /\ orch \in {"drain", "stopping"} => grpc # "open"
  /\ orch = "done" => \/ demoted
                      \/ grpc # "open" /\ \A c \in Calls : ~Working(c)

IInv == Booleans /\ Values /\ CallShape /\ Started /\ Unheard /\ TeeKnows /\ HonestHealth
        /\ Joined

HInv == Booleans /\ Unheard /\ TeeKnows /\ HonestHealth
-----------------------------------------------------------------------------
\* A call on its way changes nothing but itself.
LEMMA CallsApart ==
  ASSUME NEW c \in Calls, (\E m \in Methods : Call(c, m)) \/ Dispatch(c) \/ Handler(c)
  PROVE  UNCHANGED <<phase, config, signalled, healthVars, checkVars, leadVars, orch, grpc>>
  <1>1. CASE \E m \in Methods : Call(c, m)
    BY <1>1 DEF Call
  <1>2. CASE Dispatch(c)
    BY <1>2 DEF Dispatch
  <1>3. CASE Handler(c)
    BY <1>3 DEF Handler, Handle, Panic, Unwind
  <1> QED BY <1>1, <1>2, <1>3

LEMMA BooleansStep == Booleans /\ [Next]_vars => Booleans'
  <1> SUFFICES ASSUME Booleans, [Next]_vars PROVE Booleans'
    OBVIOUS
  <1> USE DEF Booleans
  <1>1. CASE Start
    BY <1>1 DEF Start, Load, Refuse, Connect, Purge, Listen, StartFails, Ends, healthVars,
                checkVars, leadVars
  <1>2. CASE Signal
    BY <1>2 DEF Signal, healthVars, leadVars
  <1>3. CASE Readiness
    BY <1>3 DEF Readiness, CheckBegins, Ping, Publish, Tee, healthVars, leadVars
  <1>4. CASE Win \/ Demote \/ DemoteExit
    BY <1>4 DEF Win, Demote, DemoteExit, Ends, healthVars, leadVars
  <1>5. CASE RunServer \/ ServeReturns
    BY <1>5 DEF RunServer, Serve, ServeReturns, Return, Ends, healthVars, leadVars
  <1>6. CASE Orchestra
    BY <1>6 DEF Orchestra, ShutHealth, Record, BeginDrain, Drained, HardStop, Stopped, healthVars,
                leadVars
  <1>7. ASSUME NEW c \in Calls, (\E m \in Methods : Call(c, m)) \/ Dispatch(c) \/ Handler(c)
        PROVE  Booleans'
    BY <1>7, CallsApart DEF healthVars, leadVars
  <1>8. CASE UNCHANGED vars
    BY <1>8 DEF vars, healthVars, leadVars
  <1> QED BY <1>1, <1>2, <1>3, <1>4, <1>5, <1>6, <1>7, <1>8 DEF Next

LEMMA ValuesStep == Values /\ [Next]_vars => Values'
  <1> SUFFICES ASSUME Values, [Next]_vars PROVE Values'
    OBVIOUS
  <1> USE DEF Values
  <1>1. ASSUME NEW how \in {"exited", "failed"}, Ends(how) PROVE Values'
    BY <1>1 DEF Ends, healthVars
  <1>2. CASE Start
    BY <1>1, <1>2 DEF Start, Load, Refuse, Connect, Purge, Listen, StartFails, healthVars,
                      checkVars
  <1>3. CASE Signal \/ UNCHANGED vars
    BY <1>3 DEF Signal, vars, healthVars, checkVars
  <1>4. CASE Readiness
    BY <1>4 DEF Readiness, CheckBegins, Ping, Publish, Tee, Mirrored, Status, healthVars
  <1>5. CASE Win \/ Demote \/ DemoteExit
    BY <1>1, <1>5 DEF Win, Demote, DemoteExit, Mirrored, Status, checkVars
  <1>6. CASE RunServer \/ ServeReturns
    BY <1>1, <1>6 DEF RunServer, Serve, ServeReturns, Return, healthVars, checkVars
  <1>7. CASE Orchestra
    BY <1>7 DEF Orchestra, ShutHealth, Record, BeginDrain, Drained, HardStop, Stopped, healthVars,
                checkVars
  <1>8. ASSUME NEW c \in Calls, (\E m \in Methods : Call(c, m)) \/ Dispatch(c) \/ Handler(c)
        PROVE  Values'
    BY <1>8, CallsApart DEF healthVars, checkVars
  <1> QED BY <1>2, <1>3, <1>4, <1>5, <1>6, <1>7, <1>8 DEF Next

\* An answer is one of the handler's, the stub's or the gate's.
LEMMA AnsweredShape ==
  ASSUME CallShape, NEW c \in Calls, NEW code
  PROVE  /\ DOMAIN Answered(c, code) = {"at", "method", "code"}
         /\ Answered(c, code).at = "answered" /\ Answered(c, code).code = code
         /\ Answered(c, code).method = rpc[c].method
  BY DEF CallShape, Answered

LEMMA CallShapeStep == CallShape /\ [Next]_vars => CallShape'
  <1> SUFFICES ASSUME CallShape, [Next]_vars PROVE CallShape'
    OBVIOUS
  <1>1. CASE UNCHANGED rpc
    BY <1>1 DEF CallShape
  <1>2. ASSUME NEW how, Ends(how) PROVE CallShape'
    <2> SUFFICES ASSUME NEW c \in Calls
                 PROVE  rpc'[c] \in {rpc[c], Answered(c, "Unavailable")}
      BY <1>2, AnsweredShape DEF Ends, CallShape
    <2> QED BY <1>2 DEF Ends
  <1>3. CASE HardStop
    <2> SUFFICES ASSUME NEW c \in Calls
                 PROVE  rpc'[c] \in {rpc[c], [rpc[c] EXCEPT !.at = "cut"]}
      BY <1>3 DEF HardStop, CallShape
    <2> QED BY <1>3 DEF HardStop
  <1>4. ASSUME NEW c \in Calls, NEW m \in Methods, Call(c, m) PROVE CallShape'
    BY <1>4 DEF Call, CallShape
  <1>5. ASSUME NEW c \in Calls, Dispatch(c) PROVE CallShape'
    <2>1. CASE rpc' = [rpc EXCEPT ![c] = [@ EXCEPT !.at = "running"]]
      BY <2>1 DEF CallShape
    <2>2. ASSUME NEW code \in {"Internal", "Unavailable"},
                 rpc' = [rpc EXCEPT ![c] = Answered(c, code)]
          PROVE  CallShape'
      BY <2>2, AnsweredShape DEF CallShape
    <2> QED BY <1>5, <2>1, <2>2 DEF Dispatch
  <1>6. ASSUME NEW c \in Calls, Handler(c) PROVE CallShape'
    <2>1. PICK code \in Codes(rpc[c].method) \cup {"Internal", "Unavailable"} :
            rpc' = [rpc EXCEPT ![c] = Answered(c, code)]
      BY <1>6 DEF Handler, Handle, Panic, Unwind
    <2> QED BY <2>1, AnsweredShape DEF CallShape
  <1>7. CASE Start
    BY <1>1, <1>2, <1>7 DEF Start, Load, Refuse, Connect, Purge, Listen, StartFails
  <1>8. CASE Signal \/ Readiness \/ UNCHANGED vars
    BY <1>1, <1>8 DEF Signal, Readiness, CheckBegins, Ping, Publish, Tee, vars
  <1>9. CASE Win \/ Demote \/ DemoteExit \/ RunServer \/ ServeReturns
    BY <1>1, <1>2, <1>9 DEF Win, Demote, DemoteExit, RunServer, Serve, ServeReturns, Return
  <1>10. CASE Orchestra
    BY <1>1, <1>3, <1>10 DEF Orchestra, ShutHealth, Record, BeginDrain, Drained, Stopped
  <1> QED BY <1>4, <1>5, <1>6, <1>7, <1>8, <1>9, <1>10 DEF Next

\* A configuration in use was accepted.
LEMMA StartedStep == Booleans /\ Started /\ [Next]_vars => Started'
  <1> SUFFICES ASSUME Booleans, Started, [Next]_vars PROVE Started'
    OBVIOUS
  <1> USE DEF Started
  <1>1. CASE Start
    <2>1. CASE Load
      BY <2>1 DEF Load
    <2>2. CASE Refuse \/ Connect \/ Purge \/ Listen \/ StartFails
      BY <2>2 DEF Refuse, Connect, Purge, Listen, StartFails, Ends
    <2> QED BY <1>1, <2>1, <2>2 DEF Start
  <1>2. CASE Signal \/ Readiness \/ Orchestra \/ UNCHANGED vars
    BY <1>2 DEF Signal, Readiness, CheckBegins, Ping, Publish, Tee, Orchestra, ShutHealth,
                Record, BeginDrain, Drained, HardStop, Stopped, vars, leadVars
  <1>3. CASE Win \/ Demote \/ DemoteExit
    BY <1>3 DEF Win, Demote, DemoteExit, Elects, Ends
  <1>4. CASE RunServer \/ ServeReturns
    BY <1>4 DEF RunServer, Serve, ServeReturns, Return, Ends
  <1>5. ASSUME NEW c \in Calls, (\E m \in Methods : Call(c, m)) \/ Dispatch(c) \/ Handler(c)
        PROVE  Started'
    BY <1>5, CallsApart DEF leadVars
  <1> QED BY <1>1, <1>2, <1>3, <1>4, <1>5 DEF Next

LEMMA Initially == Init => IInv
  <1> SUFFICES ASSUME Init PROVE IInv
    OBVIOUS
  <1>1. CallShape
    BY DEF Init, CallShape
  <1>2. Booleans /\ Values /\ Started /\ Unheard /\ TeeKnows /\ HonestHealth /\ Joined
    BY DEF Init, Booleans, Values, Started, Unheard, TeeKnows, HonestHealth, Joined, Listening
  <1> QED BY <1>1, <1>2 DEF IInv

\* A process that ends or has not got to listening publishes nothing.
LEMMA HealthStep == HInv /\ [Next]_vars => Unheard' /\ TeeKnows' /\ HonestHealth'
  <1> SUFFICES ASSUME HInv, [Next]_vars PROVE Unheard' /\ TeeKnows' /\ HonestHealth'
    OBVIOUS
  <1> USE DEF HInv, Booleans, Unheard, TeeKnows, HonestHealth, Listening
  <1>1. ASSUME NEW how \in {"exited", "failed"}, Ends(how)
        PROVE  Unheard' /\ TeeKnows' /\ HonestHealth'
    BY <1>1 DEF Ends
  <1>2. CASE Start
    <2>1. CASE Load \/ Connect \/ Purge
      BY <2>1 DEF Load, Connect, Purge, healthVars, checkVars, leadVars
    <2>2. CASE Listen
      BY <2>2 DEF Listen, healthVars, leadVars, Status
    <2> QED BY <1>1, <1>2, <2>1, <2>2 DEF Start, Refuse, StartFails
  <1>3. CASE Signal
    BY <1>3 DEF Signal, healthVars, checkVars, leadVars
  <1>4. CASE Readiness
    <2>1. CASE CheckBegins
      BY <2>1 DEF CheckBegins, healthVars, leadVars
    <2>2. ASSUME NEW r \in {"up", "down"}, Ping(r)
          PROVE  Unheard' /\ TeeKnows' /\ HonestHealth'
      BY <2>2 DEF Ping, healthVars, leadVars
    <2>3. CASE Publish
      BY <2>3 DEF Publish, leadVars, Status
    <2>4. CASE Tee
      BY <2>4 DEF Tee, Mirrored, Status
    <2> QED BY <1>4, <2>1, <2>2, <2>3, <2>4 DEF Readiness
  <1>5. CASE Win \/ Demote
    BY <1>5 DEF Win, Demote, Elects, Mirrored, Status, checkVars
  <1>6. CASE DemoteExit
    BY <1>1, <1>6 DEF DemoteExit
  <1>7. CASE RunServer \/ ServeReturns
    <2>1. CASE Serve \/ ServeReturns
      BY <2>1 DEF Serve, ServeReturns, healthVars, checkVars, leadVars
    <2> QED BY <1>1, <1>7, <2>1 DEF RunServer, Return
  <1>8. CASE Orchestra
    <2>1. CASE ShutHealth
      BY <2>1 DEF ShutHealth, checkVars, leadVars
    <2>2. CASE Record
      BY <2>2 DEF Record, healthVars, checkVars, Gone
    <2>3. CASE BeginDrain \/ Drained \/ HardStop \/ Stopped
      BY <2>3 DEF BeginDrain, Drained, HardStop, Stopped, healthVars, checkVars, leadVars
    <2> QED BY <1>8, <2>1, <2>2, <2>3 DEF Orchestra
  <1>9. ASSUME NEW c \in Calls, (\E m \in Methods : Call(c, m)) \/ Dispatch(c) \/ Handler(c)
        PROVE  Unheard' /\ TeeKnows' /\ HonestHealth'
    BY <1>9, CallsApart DEF healthVars, checkVars, leadVars
  <1>10. CASE UNCHANGED vars
    BY <1>10 DEF vars, healthVars, checkVars, leadVars
  <1> QED BY <1>2, <1>3, <1>4, <1>5, <1>6, <1>7, <1>8, <1>9, <1>10 DEF Next

\* The shutdown is over only for a server that no new call reaches.
LEMMA JoinedStep == Booleans /\ CallShape /\ Unheard /\ Joined /\ [Next]_vars => Joined'
  <1> SUFFICES ASSUME Booleans, CallShape, Unheard, Joined, [Next]_vars PROVE Joined'
    OBVIOUS
  <1> USE DEF Joined
  <1> DEFINE Same == UNCHANGED <<orch, grpc, shuttingDown, demoted>>
  <1>1. ASSUME Same, \A c \in Calls : Working(c)' => Working(c) PROVE Joined'
    BY <1>1
  <1>2. ASSUME Same, UNCHANGED rpc PROVE Joined'
    BY <1>1, <1>2 DEF Working, Busy
  <1>3. ASSUME NEW how, Ends(how) PROVE Joined'
    <2>1. \A c \in Calls : ~Working(c)'
      BY <1>3, AnsweredShape DEF Ends, Working, Busy, CallShape
    <2> QED BY <1>1, <1>3, <2>1 DEF Ends, leadVars
  <1>4. CASE Start
    BY <1>2, <1>3, <1>4
    DEF Start, Load, Refuse, Connect, Purge, Listen, StartFails, leadVars, Unheard
  <1>5. CASE Signal \/ Readiness \/ UNCHANGED vars
    BY <1>2, <1>5 DEF Signal, Readiness, CheckBegins, Ping, Publish, Tee, vars, leadVars
  <1>6. CASE Win \/ Demote \/ DemoteExit
    BY <1>2, <1>3, <1>6 DEF Win, Demote, DemoteExit, Working, Busy
  <1>7. CASE RunServer \/ ServeReturns
    BY <1>2, <1>3, <1>7 DEF RunServer, Serve, ServeReturns, Return, leadVars
  <1>8. CASE Orchestra
    <2>1. CASE ShutHealth
      BY <2>1 DEF ShutHealth, leadVars
    <2>2. CASE Record
      <3>1. orch = "record" /\ UNCHANGED <<demoted, grpc>>
        BY <2>2 DEF Record
      <3>2. shuttingDown => demoted
        BY <3>1
      <3>3. orch' = "stop" \/ (orch' = "done" /\ shuttingDown)
        BY <2>2 DEF Record, Booleans
      <3> QED BY <3>1, <3>2, <3>3
    <2>3. CASE BeginDrain
      BY <2>3 DEF BeginDrain, leadVars
    <2>4. CASE Drained \/ Stopped
      BY <2>4 DEF Drained, Stopped, leadVars, Working, Busy
    <2>5. CASE HardStop
      BY <2>5 DEF HardStop, leadVars
    <2> QED BY <1>8, <2>1, <2>2, <2>3, <2>4, <2>5 DEF Orchestra
  <1>9. ASSUME NEW c \in Calls, (\E m \in Methods : Call(c, m)) \/ Dispatch(c) \/ Handler(c)
        PROVE  Joined'
    <2>1. Same
      BY <1>9, CallsApart DEF leadVars
    <2>2. CASE \E m \in Methods : Call(c, m)
      <3>1. grpc = "open"
        BY <2>2 DEF Call
      <3> QED BY <2>1, <3>1
    <2>3. CASE Dispatch(c) \/ Handler(c)
      <3>1. Working(c) /\ \A d \in Calls \ {c} : rpc'[d] = rpc[d]
        BY <2>3 DEF Dispatch, Handler, Handle, Panic, Unwind, Working, Busy, CallShape
      <3>2. \A d \in Calls : Working(d)' => Working(d)
        BY <3>1 DEF Working, Busy
      <3> QED BY <1>1, <2>1, <3>2
    <2> QED BY <1>9, <2>2, <2>3
  <1> QED BY <1>4, <1>5, <1>6, <1>7, <1>8, <1>9 DEF Next

\* A step that ends a process that came up does so in one of three ways.
LEMMA ExitStep ==
  ASSUME Booleans, Joined, [Next]_vars, Listening, phase' \in {"exited", "failed"}
  PROVE  \/ demoted
         \/ phase = "returned" /\ ~signalled
         \/ phase = "returned" /\ orch = "done" /\ \A c \in Calls : ~Working(c)
  <1> USE DEF Listening
  <1>1. CASE Start
    BY <1>1 DEF Start, Load, Refuse, Connect, Purge, Listen, StartFails
  <1>2. CASE Signal \/ Readiness \/ Win \/ Demote \/ Orchestra \/ UNCHANGED vars
    BY <1>2 DEF Signal, Readiness, CheckBegins, Ping, Publish, Tee, Win, Demote, Orchestra,
                ShutHealth, Record, BeginDrain, Drained, HardStop, Stopped, vars
  <1>3. CASE DemoteExit
    BY <1>3 DEF DemoteExit
  <1>4. CASE Serve \/ ServeReturns
    BY <1>4 DEF Serve, ServeReturns
  <1>5. CASE Return
    BY <1>5 DEF Return, Joined
  <1>6. ASSUME NEW c \in Calls, (\E m \in Methods : Call(c, m)) \/ Dispatch(c) \/ Handler(c)
        PROVE  FALSE
    BY <1>6, CallsApart
  <1> QED BY <1>1, <1>2, <1>3, <1>4, <1>5, <1>6 DEF Next, RunServer
-----------------------------------------------------------------------------
\* The invariant is inductive, through the start, the checks and the shutdown.
THEOREM Inductive == Spec => []IInv
  <1>1. IInv /\ [Next]_vars => IInv'
    BY BooleansStep, ValuesStep, CallShapeStep, StartedStep, HealthStep, JoinedStep
    DEF IInv, HInv
  <1> QED BY Initially, <1>1, PTL DEF Spec

\* A configuration in use is sound.
LEMMA LoadedIsSound ==
  ASSUME Started, phase = "loaded"
  PROVE  Sound(config) /\ config.tokenTTL \in {0} \cup 60 .. 1440
  <1>1. PICK env \in Envs : Acceptable(env) /\ config = Loaded(env)
    BY DEF Started
  <1>2. Shape(env)
    BY ProviderAssumption DEF ProviderAssumption
  <1>3. Sound(Loaded(env)) /\ Loaded(env).tokenTTL \in {0} \cup 60 .. 1440
    BY <1>1, <1>2, AcceptedIsSound
  <1> HIDE DEF Started
  <1> QED BY <1>1, <1>3

\* Values keep to their types; what is loaded has room for an instance in every
\* group and a join token that lives for 0 (ENS decides) or from 1 to 24 hours.
THEOREM TypeCorrect == Spec => []TypeOK
  <1>1. IInv => TypeOK
    <2> SUFFICES ASSUME IInv PROVE TypeOK
      OBVIOUS
    <2>1. Booleans /\ Values /\ CallShape /\ Started
      BY DEF IInv
    <2>2. phase = "loaded" => /\ \A i \in Members(config) : config.groups[i].Max > 0
                              /\ config.tokenTTL \in {0} \cup 60 .. 1440
      BY <2>1, LoadedIsSound DEF Sound
    <2>3. /\ signalled \in BOOLEAN /\ terminal \in BOOLEAN /\ k8sOK \in BOOLEAN
          /\ leader \in BOOLEAN /\ shuttingDown \in BOOLEAN /\ demoted \in BOOLEAN
      BY <2>1 DEF Booleans
    <2>4. {signalled, terminal, k8sOK, leader, shuttingDown, demoted} \subseteq BOOLEAN
      BY <2>3, Zenon
    <2> QED BY <2>1, <2>2, <2>4 DEF TypeOK, Values, CallShape
  <1> QED BY Inductive, <1>1, PTL

\* Whoever asks is told what the last check showed and what the gate does,
\* however the readiness loop, the election and the shutdown overtake one another.
THEOREM HonestHealthHolds == Spec => []HonestHealth
  BY Inductive, PTL DEF IInv

\* A process that came up leaves by a demotion, a failed listener or a joined
\* shutdown that waited for every handler.
THEOREM OrderlyExitHolds == Spec => OrderlyExit
  <1>1. IInv /\ [Next]_vars =>
          [Listening /\ phase' \in {"exited", "failed"} =>
             \/ demoted
             \/ phase = "returned" /\ ~signalled
             \/ phase = "returned" /\ orch = "done" /\ \A c \in Calls : ~Working(c)]_vars
    BY ExitStep DEF IInv
  <1> QED BY Inductive, <1>1, PTL DEF Spec, OrderlyExit

\* In every accepted configuration an instance name has one owner, whatever
\* follows the prefix it was ordered with.
THEOREM OneOwnerHolds == Spec => []OneOwner
  <1>1. IInv => OneOwner
    BY LoadedIsSound, NameHasOneOwner, ProviderAssumption
    DEF IInv, OneOwner, ProviderAssumption
  <1> QED BY Inductive, <1>1, PTL

\* The labels of a group's Nodes and its id lead back to it.
THEOREM GroupsTellApartHolds == Spec => []GroupsTellApart
  <1>1. IInv => GroupsTellApart
    BY LoadedIsSound, GroupsApart DEF IInv, GroupsTellApart
  <1> QED BY Inductive, <1>1, PTL

\* MustParse never panics on a template that is served, and no allocatable
\* quantity exceeds the capacity of the block it comes with.
THEOREM TemplateSoundHolds == Spec => []TemplateSound
  <1>1. IInv => TemplateSound
    <2> SUFFICES ASSUME IInv, phase = "loaded", NEW i \in Members(config)
                 PROVE  LET g == config.groups[i]
                            t == TemplateOf(config, g)
                        IN /\ Servable(config, g)
                           /\ \A p \in Pairs :
                                (g.hasTemplate => (g.Template[p[1]] = Unset
                                                   <=> g.Template[p[2]] = Unset))
                                => t[p[1]] <= t[p[2]]
      BY DEF TemplateSound
    <2>1. Sound(config)
      BY LoadedIsSound DEF IInv
    <2>2. Servable(config, config.groups[i])
      BY <2>1, TemplateComplete DEF Servable, Positive
    <2> QED BY <2>1, <2>2, TemplateFits
  <1> QED BY Inductive, <1>1, PTL

\* Whatever labels and taints a group sets, they override the template's and the
\* node-spec's own alike: the two differ in the labels that PromiseKept names.
THEOREM PromiseKeptHolds == Spec => []PromiseKept
  <1>1. PromiseKept
    BY LabelsKept, LabelsPromised DEF PromiseKept, TemplateTaints, NodeSpecTaints
  <1> QED BY <1>1, PTL

\* A providerID of this region is read as the id it was written with.
THEOREM ProviderIDsAgreeHolds == Spec => []ProviderIDsAgree
  <1>1. IInv => ProviderIDsAgree
    <2> SUFFICES ASSUME IInv, phase = "loaded" PROVE ProviderIDsAgree
      BY DEF ProviderIDsAgree
    <2>1. Sound(config)
      BY LoadedIsSound DEF IInv
    <2>2. \A id \in EnsIds : StrictEdgeInstanceID(config, ProviderID(config, id)) = <<id>>
      BY <2>1, WrittenIsRead
    <2>3. ASSUME NEW p \in Pids, StrictEdgeInstanceID(config, p) # <<>>
          PROVE  /\ p = ProviderID(config, StrictEdgeInstanceID(config, p)[1])
                 /\ \/ Dot \in ToSet(config.region)
                    \/ InstanceIDFromProviderID(p) = StrictEdgeInstanceID(config, p)
      <3>1. p \in Seq(Tokens)
        BY ProviderAssumption DEF ProviderAssumption
      <3> QED BY <2>1, <2>3, <3>1, ReadOneWay
    <2> QED BY <2>2, <2>3 DEF ProviderIDsAgree
  <1> QED BY Inductive, <1>1, PTL
=============================================================================
