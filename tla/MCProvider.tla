----------------------------- MODULE MCProvider -----------------------------
(* One process, started in environments that differ from a plain one. *)
EXTENDS Provider

NoBlock == [f \in TemplateFields |-> Unset]

Group(id, prefix) ==
  [ID |-> id, NodepoolID |-> "", NamePrefix |-> prefix, Min |-> 0, Max |-> 0,
   InstanceType |-> "", Numbers |-> Unset, Labels |-> [k \in {} |-> ""],
   Taints |-> {}, hasTemplate |-> FALSE, Template |-> NoBlock]

Base == [elect |-> FALSE, identity |-> TRUE, lease |-> 15, renew |-> 10, retry |-> 2,
         tokenTTL |-> Unset, region |-> <<"r">>, cluster |-> "c", scriptSafe |-> TRUE,
         imageRepo |-> "public", instanceType |-> "small", numbers |-> 50,
         template |-> NoBlock, groups |-> <<Group("a", <<"x">>), Group("b", <<"y">>)>>]

With(field, values) == {[Base EXCEPT ![field] = v] : v \in values}
WithGroup(gs)       == {[Base EXCEPT !.groups[1] = g] : g \in gs}

G == Group("a", <<"x">>)
SomePrefixes == UNION {[1 .. n -> {"x", "y"}] : n \in 0 .. 2}
Blocks   == {[NoBlock EXCEPT !.CPU = c, !.CPUAlloc = a, !.Memory = m] :
               c \in {Unset, Garbage, 0, 2, 9000}, a \in {Unset, Garbage, 1, 2, 3},
               m \in {Unset, Garbage, 5}}

\* Elections: whether, with a name, and which durations.
Elections == {[Base EXCEPT !.elect = e, !.identity = i, !.lease = l, !.renew = r] :
                e \in BOOLEAN, i \in BOOLEAN, l \in {10, 15}, r \in {0, 2, 10}}
\* Three groups with any prefixes; two with any ids and nodepools.
Named  == {[Base EXCEPT !.groups = <<Group("a", p), Group("b", q), Group("c", r)>>] :
             p \in SomePrefixes, q \in SomePrefixes, r \in SomePrefixes}
Pooled == {[Base EXCEPT !.groups[1].NodepoolID = p, !.groups[2].NodepoolID = q,
                        !.groups[2].ID = i] :
             p \in {"", "a", "b", "'"}, q \in {"", "a", "b"}, i \in {"", "a", "b"}}
Sized  == WithGroup({[G EXCEPT !.Min = m, !.Max = n, !.Numbers = k] :
                       m \in -1 .. 3, n \in 0 .. 2, k \in {Unset, Garbage, 1}})
Typed  == WithGroup({[G EXCEPT !.InstanceType = t, !.hasTemplate = h, !.Template = b] :
                       t \in {"", "small", "tiny"}, h \in BOOLEAN, b \in Blocks})
Marked == WithGroup({[G EXCEPT !.Labels = l, !.Taints = t] :
                       l \in [{} -> {""}] \cup [{NodepoolLabel} -> {"b"}]
                             \cup [{DesiredPool} -> {"b", "'"}]
                             \cup [{"app", NodepoolLabel} -> {"web"}]
                             \cup [{InterconnectionMode} \cup EdgeLabels -> {"false"}],
                       t \in SUBSET [key : {"k", "'"}, value : {"v"},
                                     effect : {"", "NoExecute", "Never"}]})

MCEnvs ==
  Elections \cup Named \cup Pooled \cup Sized \cup Typed \cup Marked
  \cup With("tokenTTL", {Unset, Garbage, 0, 2, 60, 1440, 12000})
  \cup With("region", {<<>>, <<"r">>, <<"r", Dot, "s">>, <<Dot>>})
  \cup With("cluster", {""}) \cup With("scriptSafe", {FALSE})
  \cup With("imageRepo", {"private", "other"}) \cup With("template", Blocks)
  \cup With("groups", {<<>>})

MCFollowed == {Base, [Base EXCEPT !.elect = TRUE]}
MCTails    == UNION {[1 .. n -> {"x", "y", "-op"}] : n \in 0 .. 2}
MCPids     == UNION {[1 .. n -> {"r", "s", Dot, "i-1", "bad"}] : n \in 0 .. 4}
=============================================================================
