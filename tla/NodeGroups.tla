----------------------------- MODULE NodeGroups -----------------------------
(***************************************************************************)
(* What the environment configures (groups.go), and what is rendered from  *)
(* it: the node a group promises the autoscaler (template.go), the         *)
(* node-spec its instances join with (userdata.go), and the names by which *)
(* instances, Nodes and groups are told from one another.                  *)
(*                                                                         *)
(* Operators only.  An environment is a record with one field per knob; a  *)
(* name is a sequence of tokens, of which the dot is one; a quantity is a  *)
(* number, Unset (the empty string) or Garbage (what does not parse).      *)
(***************************************************************************)
EXTENDS Integers, Sequences, FiniteSets, SequencesExt

CONSTANTS
  Unset,      \* an empty variable or field
  Garbage,    \* one that does not parse
  Malformed,  \* strings that are no Kubernetes label syntax
  Tokens,     \* what names are made of
  Dot,        \* the separator of a providerID
  EnsIds      \* the tokens that have the shape of an ENS instance id

ASSUME NodeGroupsAssumption ==
  /\ {Unset, Garbage} \cap Int = {}
  /\ Dot \in Tokens \ EnsIds /\ EnsIds \subseteq Tokens

NodepoolLabel == "alibabacloud.com/nodepool-id"
DesiredPool   == "apps.openyurt.io/desired-nodepool"
InterconnectionMode == "alibabacloud.com/interconnection-mode"
EdgeLabels    == {"is-edge-worker", "edge-enable-addon-flannel",
                  "edge-enable-addon-kube-proxy", "edge-enable-addon-coredns"}
KubeletLabels == {"kubernetes.io/os", "kubernetes.io/arch", "kubernetes.io/hostname",
                  "beta.kubernetes.io/os", "beta.kubernetes.io/arch"}
DefaultMax    == 4
DefaultTTL    == 120  \* minutes: JOIN_TOKEN_TTL when it is not set

Or(value, default) == IF value = Unset THEN default ELSE value
Positive(q)        == q \in Int /\ q > 0
-----------------------------------------------------------------------------
(* Template blocks. *)

TemplateFields == {"CPU", "Memory", "Pods", "Ephemeral", "CPUAlloc", "MemAlloc"}

\* An allocatable quantity and the capacity it is taken from.
Pairs == {<<"CPUAlloc", "CPU">>, <<"MemAlloc", "Memory">>}

\* The template of the default instance type (cores in thousandths, kilobytes).
BuiltIn == [CPU |-> 4000, Memory |-> 7938184, Pods |-> 64, Ephemeral |-> 40900288,
            CPUAlloc |-> 3920, MemAlloc |-> 7370888]

\* The fields of t, and the default where t has none.
Merged(t, default) == [f \in TemplateFields |-> Or(t[f], default[f])]

\* (mutant) The quantities of a block are not parsed.
ValidTemplateUnparsed(t) ==
  \A p \in Pairs :
    {t[p[1]], t[p[2]]} \subseteq Int => t[p[1]] <= t[p[2]]

\* validateTemplate: what is set parses and is positive, and no allocatable
\* quantity exceeds its capacity where both are set.
ValidTemplate(t) ==
  /\ \A f \in TemplateFields : t[f] # Unset => Positive(t[f])
  /\ \A p \in Pairs : Unset \notin {t[p[1]], t[p[2]]} => t[p[1]] <= t[p[2]]
-----------------------------------------------------------------------------
(* LoadConfig. *)

Members(c) == DOMAIN c.groups

\* The decoded shape: an entry of the groups' JSON, and every knob.
GroupShape(g) ==
  /\ {"ID", "NodepoolID", "NamePrefix", "Min", "Max", "InstanceType", "Numbers",
      "Labels", "Taints", "hasTemplate", "Template"} \subseteq DOMAIN g
  /\ g.NamePrefix \in Seq(Tokens)
  /\ g.Min \in Int /\ g.Max \in Int

Shape(env) ==
  /\ {"elect", "identity", "lease", "renew", "retry", "tokenTTL", "region", "cluster",
      "scriptSafe", "imageRepo", "instanceType", "numbers", "template", "groups"}
       \subseteq DOMAIN env
  /\ env.region \in Seq(Tokens)
  /\ Members(env) \subseteq Nat
  /\ \A i \in Members(env) : GroupShape(env.groups[i])

\* (mutant) A largest size of 0 stays.
CompletedUnbounded(g, env) ==
  [g EXCEPT !.NodepoolID   = IF @ = "" THEN g.ID ELSE @,
            !.InstanceType = IF @ = "" THEN env.instanceType ELSE @,
            !.Numbers      = Or(@, env.numbers)]

\* A group's entry with the defaults it leaves open.
Completed(g, env) ==
  [g EXCEPT !.NodepoolID   = IF @ = "" THEN g.ID ELSE @,
            !.Max          = IF @ = 0 THEN DefaultMax ELSE @,
            !.InstanceType = IF @ = "" THEN env.instanceType ELSE @,
            !.Numbers      = Or(@, env.numbers)]

Loaded(env) ==
  [env EXCEPT !.groups   = [i \in DOMAIN @ |-> Completed(@[i], env)],
              !.template = Merged(@, BuiltIn),
              !.tokenTTL = Or(@, DefaultTTL)]

\* parseJoinTokenTTL: nothing, exactly 0, or from one hour to 24.
ValidTTL(v) == v \in {Unset, 0} \/ (v \in Int /\ 60 <= v /\ v <= 24 * 60)

\* envDuration's and client-go's rules for the election, and the pod's name.
ValidElection(c) ==
  /\ \A d \in {c.lease, c.renew, c.retry} : Positive(d)
  /\ c.elect => c.identity /\ c.lease > c.renew /\ 10 * c.renew > 12 * c.retry

\* What must be there, and what is written into the join script as it is.
ValidSite(c) == c.region # <<>> /\ c.cluster # "" /\ c.scriptSafe
                /\ c.imageRepo \in {"public", "private"}

\* (mutant) Sorted the other way round: the shorter is looked for in the longer.
DisjointAscending(c) ==
  \A i, j \in Members(c) : i # j =>
    LET p == c.groups[i].NamePrefix
        q == c.groups[j].NamePrefix
    IN p # q /\ (Len(p) > Len(q) => ~IsPrefix(p, q))

\* The prefixes are told apart: no two are equal, and of two the longer, which
\* is sorted first, does not begin with the other.
Disjoint(c) ==
  \A i, j \in Members(c) : i # j =>
    LET p == c.groups[i].NamePrefix
        q == c.groups[j].NamePrefix
    IN p # q /\ (Len(p) > Len(q) => ~IsPrefix(q, p))

\* (mutant) Ids and pools are compared as they were written.
UniqueWritten(c) ==
  \A i, j \in Members(c) : i # j => c.groups[i].ID # c.groups[j].ID

\* No two groups have one id, or one nodepool after the defaults.
Unique(c) ==
  \A i, j \in Members(c) : i # j =>
    c.groups[i].ID # c.groups[j].ID /\ c.groups[i].NodepoolID # c.groups[j].NodepoolID

Effects == {"", "NoSchedule", "PreferNoSchedule", "NoExecute"}

\* Labels, taints and the nodepool end single-quoted in the join script.
Quotable(g) ==
  /\ Malformed \cap ({g.NodepoolID} \cup DOMAIN g.Labels \cup Range(g.Labels)) = {}
  /\ \A t \in g.Taints : /\ t.effect \in Effects
                         /\ Malformed \cap {t.key, t.value} = {} /\ t.key # ""

\* A group of another instance type brings a template of its own.
ValidGroup(g, env) ==
  /\ g.ID # "" /\ g.NamePrefix # <<>>
  /\ 0 <= g.Min /\ g.Min <= g.Max
  /\ g.Numbers \in Int
  /\ Quotable(g)
  /\ g.hasTemplate \/ g.InstanceType = env.instanceType
  /\ g.hasTemplate => ValidTemplate(g.Template)

Acceptable(env) ==
  LET c == Loaded(env)
  IN /\ ValidElection(c) /\ ValidTTL(env.tokenTTL) /\ ValidSite(c)
     /\ c.groups # <<>>
     /\ Disjoint(c) /\ Unique(c)
     /\ ValidTemplate(c.template)
     /\ \A i \in Members(c) : ValidGroup(c.groups[i], c)
-----------------------------------------------------------------------------
(* What a group promises the autoscaler, and what its instances join with. *)

TemplateOf(c, g) == IF g.hasTemplate THEN Merged(g.Template, c.template) ELSE c.template

\* resource.MustParse of every field returns.
Servable(c, g) == \A f \in TemplateFields : TemplateOf(c, g)[f] \in Int

\* The labels l, and those of fixed that l does not set.
Over(l, fixed) ==
  [k \in DOMAIN fixed \cup DOMAIN l |-> IF k \in DOMAIN l THEN l[k] ELSE fixed[k]]

\* What every template carries; "own" is the value that a kubelet would report.
TemplateFixed(g) ==
  [k \in {NodepoolLabel, DesiredPool} \cup EdgeLabels \cup KubeletLabels |->
     IF k \in EdgeLabels THEN "true" ELSE IF k \in KubeletLabels THEN "own"
     ELSE g.NodepoolID]

\* BuildTemplateNode: a group's labels come last.
TemplateLabels(g) == Over(g.Labels, TemplateFixed(g))

EffectOf(t)       == [t EXCEPT !.effect = IF @ = "" THEN "NoSchedule" ELSE @]
TemplateTaints(g) == {EffectOf(t) : t \in g.Taints}

\* What every node-spec carries.
JoinFixed(g) ==
  [k \in {DesiredPool, InterconnectionMode} |->
     IF k = DesiredPool THEN g.NodepoolID ELSE "private"]

\* (mutant) The fixed labels come last.
JoinLabelsFixedLast(g) == Over(JoinFixed(g), g.Labels)

\* joinLabels, in buildNodeSpec.
JoinLabels(g) == Over(g.Labels, JoinFixed(g))

NodeSpecTaints(g) == {EffectOf(t) : t \in g.Taints}

\* ACK puts the nodepool's label on every Node that joins.
NodeLabels(g) == Over([k \in {NodepoolLabel} |-> g.NodepoolID], JoinLabels(g))
-----------------------------------------------------------------------------
(* Names.  A group is meant by its place in the configuration; 0 is nil. *)

First(S) == IF S = {} THEN 0 ELSE CHOOSE i \in S : \A j \in S : i <= j

GroupByID(c, id) == First({i \in Members(c) : c.groups[i].ID = id})

GroupForNodeLabels(c, labels) ==
  IF NodepoolLabel \notin DOMAIN labels THEN 0
  ELSE First({i \in Members(c) : c.groups[i].NodepoolID = labels[NodepoolLabel]})

\* The longest prefix owns a name, here and in describeRegion.
GroupForInstanceName(c, name) ==
  LET Length(i)  == Len(c.groups[i].NamePrefix)
      Matching == {i \in Members(c) : IsPrefix(c.groups[i].NamePrefix, name)}
  IN First({i \in Matching : \A j \in Matching : Length(j) <= Length(i)})

ProviderID(c, id) == c.region \o <<Dot, id>>

\* Everything after the first dot, which is not the first token; else nothing.
InstanceIDFromProviderID(pid) ==
  LET dot == First({i \in DOMAIN pid : pid[i] = Dot})
  IN IF dot > 1 THEN SubSeq(pid, dot + 1, Len(pid)) ELSE <<>>

\* (mutant) An id of any region will do.
StrictByShape(c, pid) ==
  LET id == InstanceIDFromProviderID(pid)
  IN IF Len(id) = 1 /\ id[1] \in EnsIds THEN id ELSE <<>>

\* This region, a dot, and one token that looks like an instance id.
StrictEdgeInstanceID(c, pid) ==
  LET prefix == c.region \o <<Dot>>
      id     == SubSeq(pid, Len(prefix) + 1, Len(pid))
  IN IF IsPrefix(prefix, pid) /\ Len(id) = 1 /\ id[1] \in EnsIds THEN id ELSE <<>>
=============================================================================
