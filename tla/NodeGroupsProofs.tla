-------------------------- MODULE NodeGroupsProofs --------------------------
(***************************************************************************)
(* What LoadConfig's rules buy, for every environment of the decoded       *)
(* shape: names have one owner, ids and labels lead back to their group,   *)
(* templates are complete and sound, and providerIDs are read one way.     *)
(***************************************************************************)
EXTENDS NodeGroups, SequenceTheorems, TLAPS

\* What the proofs use of a configuration that LoadConfig returned.
Sound(c) ==
  /\ Shape(c) /\ c.region # <<>>
  /\ Disjoint(c) /\ Unique(c)
  /\ \A f \in TemplateFields : Positive(c.template[f])
  /\ \A p \in Pairs : c.template[p[1]] <= c.template[p[2]]
  /\ \A i \in Members(c) :
       /\ c.groups[i].Max > 0
       /\ c.groups[i].hasTemplate => ValidTemplate(c.groups[i].Template)

\* Merging leaves a field set if the default has it set.
LEMMA MergedSet ==
  ASSUME NEW t, NEW default, NEW f \in TemplateFields
  PROVE  Merged(t, default)[f] = IF t[f] = Unset THEN default[f] ELSE t[f]
  BY DEF Merged, Or

\* Every field of the built-in template is positive, and no allocatable
\* quantity exceeds its capacity.
LEMMA BuiltInPositive == \A f \in TemplateFields : Positive(BuiltIn[f])
  BY DEF TemplateFields, BuiltIn, Positive

\* Completing an entry touches four fields.
LEMMA CompletedFields ==
  ASSUME NEW g, NEW env, GroupShape(g)
  PROVE  LET h == Completed(g, env)
         IN /\ GroupShape(h)
            /\ h.NamePrefix = g.NamePrefix /\ h.Min = g.Min
            /\ h.Max = (IF g.Max = 0 THEN 4 ELSE g.Max)
  BY DEF Completed, GroupShape, DefaultMax

LEMMA LoadedFields ==
  ASSUME NEW env, Shape(env)
  PROVE  LET c == Loaded(env)
         IN /\ Members(c) = Members(env)
            /\ \A i \in Members(env) : c.groups[i] = Completed(env.groups[i], env)
            /\ c.region = env.region
            /\ c.template = Merged(env.template, BuiltIn)
            /\ c.tokenTTL = Or(env.tokenTTL, DefaultTTL)
            /\ DOMAIN c = DOMAIN env
  BY DEF Loaded, Shape, Members

\* An environment that LoadConfig accepts becomes a sound configuration.
LEMMA AcceptedIsSound ==
  ASSUME NEW env, Shape(env), Acceptable(env)
  PROVE  Sound(Loaded(env)) /\ Loaded(env).tokenTTL \in {0} \cup 60 .. 1440
  <1> DEFINE c == Loaded(env)
  <1>1. /\ Members(c) = Members(env) /\ c.region = env.region
        /\ c.template = Merged(env.template, BuiltIn)
        /\ c.tokenTTL = Or(env.tokenTTL, DefaultTTL)
        /\ DOMAIN c = DOMAIN env
    BY LoadedFields
  <1>2. \A i \in Members(c) : c.groups[i] = Completed(env.groups[i], env)
    BY LoadedFields
  <1>3. /\ ValidTTL(env.tokenTTL) /\ ValidSite(c) /\ Disjoint(c) /\ Unique(c)
        /\ ValidTemplate(c.template)
        /\ \A i \in Members(c) : ValidGroup(c.groups[i], c)
    BY DEF Acceptable
  <1> HIDE DEF c
  <1>4. Shape(c)
    BY <1>1, <1>2, CompletedFields DEF Shape
  <1>5. ASSUME NEW f \in TemplateFields PROVE Positive(c.template[f])
    <2>1. c.template[f] = IF env.template[f] = Unset THEN BuiltIn[f] ELSE env.template[f]
      BY <1>1, MergedSet
    <2>2. BuiltIn[f] # Unset
      BY BuiltInPositive, NodeGroupsAssumption DEF NodeGroupsAssumption, Positive
    <2>3. c.template[f] # Unset
      BY <2>1, <2>2
    <2> QED BY <1>3, <2>3 DEF ValidTemplate
  <1>6. ASSUME NEW i \in Members(c)
        PROVE  /\ c.groups[i].Max > 0
               /\ c.groups[i].hasTemplate => ValidTemplate(c.groups[i].Template)
    <2>1. GroupShape(env.groups[i])
      BY <1>1 DEF Shape
    <2>2. /\ c.groups[i].Max = (IF env.groups[i].Max = 0 THEN 4 ELSE env.groups[i].Max)
          /\ GroupShape(c.groups[i])
      BY <1>2, <2>1, CompletedFields
    <2>3. /\ 0 <= c.groups[i].Min /\ c.groups[i].Min <= c.groups[i].Max
          /\ c.groups[i].hasTemplate => ValidTemplate(c.groups[i].Template)
      BY <1>3 DEF ValidGroup
    <2> QED BY <2>1, <2>2, <2>3 DEF GroupShape
  <1>7. c.tokenTTL \in {0} \cup 60 .. 1440
    BY <1>1, <1>3, NodeGroupsAssumption
    DEF ValidTTL, Or, DefaultTTL, NodeGroupsAssumption
  <1>8. c.region # <<>>
    BY <1>3 DEF ValidSite
  <1>9. ASSUME NEW p \in Pairs PROVE c.template[p[1]] <= c.template[p[2]]
    <2>1. p[1] \in TemplateFields /\ p[2] \in TemplateFields
      BY DEF Pairs, TemplateFields
    <2>2. Unset \notin {c.template[p[1]], c.template[p[2]]}
      BY <1>5, <2>1, NodeGroupsAssumption DEF NodeGroupsAssumption, Positive
    <2> QED BY <1>3, <2>2 DEF ValidTemplate
  <1>10. Sound(c)
    BY <1>3, <1>4, <1>5, <1>6, <1>8, <1>9 DEF Sound
  <1> QED BY <1>7, <1>10 DEF c
-----------------------------------------------------------------------------
(* Names. *)

LEMMA FirstOfOne == \A i : First({i}) = i
  <1> TAKE i
  <1>1. (CHOOSE j \in {i} : \A k \in {i} : j <= k) = i
    OBVIOUS
  <1> QED BY <1>1 DEF First

\* Two prefixes of one name: the shorter is a prefix of the longer.
LEMMA PrefixesNest ==
  ASSUME NEW p \in Seq(Tokens), NEW q \in Seq(Tokens), NEW n \in Seq(Tokens),
         IsPrefix(p, n), IsPrefix(q, n), Len(p) <= Len(q)
  PROVE  IsPrefix(p, q) /\ (Len(p) = Len(q) => p = q)
  BY DEF IsPrefix

\* A name that begins with the prefix of a group is that group's, and no other's.
\* The length rule of the lookup never has to decide between two.
THEOREM NameHasOneOwner ==
  ASSUME NEW c, Sound(c), NEW i \in Members(c), NEW s \in Seq(Tokens)
  PROVE  GroupForInstanceName(c, c.groups[i].NamePrefix \o s) = i
  <1> DEFINE P(j)     == c.groups[j].NamePrefix
             name     == P(i) \o s
             Matching == {j \in Members(c) : IsPrefix(P(j), name)}
  <1>1. \A j \in Members(c) : P(j) \in Seq(Tokens)
    BY DEF Sound, Shape, GroupShape
  <1>2. name \in Seq(Tokens)
    BY <1>1
  <1>3. IsPrefix(P(i), name)
    BY <1>1 DEF IsPrefix
  <1>4. ASSUME NEW j \in Members(c), IsPrefix(P(j), name) PROVE j = i
    <2> SUFFICES ASSUME j # i PROVE FALSE
      OBVIOUS
    <2>1. /\ P(i) # P(j)
          /\ Len(P(i)) > Len(P(j)) => ~IsPrefix(P(j), P(i))
          /\ Len(P(j)) > Len(P(i)) => ~IsPrefix(P(i), P(j))
      BY DEF Sound, Disjoint
    <2>2. Len(P(i)) \in Nat /\ Len(P(j)) \in Nat
      BY <1>1
    <2>3. CASE Len(P(i)) <= Len(P(j))
      <3> HIDE DEF P, name
      <3>1. IsPrefix(P(i), P(j)) /\ (Len(P(i)) = Len(P(j)) => P(i) = P(j))
        BY <1>1, <1>2, <1>3, <1>4, <2>3, PrefixesNest
      <3> QED BY <2>1, <2>2, <2>3, <3>1
    <2>4. CASE Len(P(j)) <= Len(P(i))
      <3> HIDE DEF P, name
      <3>1. IsPrefix(P(j), P(i)) /\ (Len(P(j)) = Len(P(i)) => P(j) = P(i))
        BY <1>1, <1>2, <1>3, <1>4, <2>4, PrefixesNest
      <3> QED BY <2>1, <2>2, <2>4, <3>1
    <2> QED BY <2>2, <2>3, <2>4
  <1>5. Matching = {i}
    BY <1>3, <1>4
  <1>6. Len(P(i)) <= Len(P(i))
    BY <1>1
  <1>7. {j \in Matching : \A k \in Matching : Len(P(k)) <= Len(P(j))} = {i}
    BY <1>5, <1>6
  <1>8. GroupForInstanceName(c, name)
          = First({j \in Matching : \A k \in Matching : Len(P(k)) <= Len(P(j))})
    BY DEF GroupForInstanceName
  <1> QED BY <1>7, <1>8, FirstOfOne

\* An id is one group's, and so is the nodepool that ACK labels its Nodes with.
LEMMA GroupsApart ==
  ASSUME NEW c, Sound(c), NEW i \in Members(c)
  PROVE  /\ GroupForNodeLabels(c, NodeLabels(c.groups[i])) = i
         /\ GroupByID(c, c.groups[i].ID) = i
  <1> DEFINE labels == NodeLabels(c.groups[i])
  <1>1. \A j \in Members(c) : j # i => /\ c.groups[j].ID # c.groups[i].ID
                                       /\ c.groups[j].NodepoolID # c.groups[i].NodepoolID
    BY DEF Sound, Unique
  <1>2. NodepoolLabel \in DOMAIN labels /\ labels[NodepoolLabel] = c.groups[i].NodepoolID
    BY DEF NodeLabels, Over
  <1> HIDE DEF labels
  <1>3. {j \in Members(c) : c.groups[j].NodepoolID = labels[NodepoolLabel]} = {i}
    BY <1>1, <1>2
  <1>4. GroupForNodeLabels(c, labels) = i
    BY <1>2, <1>3, FirstOfOne DEF GroupForNodeLabels
  <1>5. {j \in Members(c) : c.groups[j].ID = c.groups[i].ID} = {i}
    BY <1>1
  <1>6. GroupByID(c, c.groups[i].ID) = i
    BY <1>5, FirstOfOne DEF GroupByID
  <1> QED BY <1>4, <1>6 DEF labels
-----------------------------------------------------------------------------
(* Templates and labels. *)

\* Every quantity that a template is served with is positive.
LEMMA TemplateComplete ==
  ASSUME NEW c, Sound(c), NEW i \in Members(c), NEW f \in TemplateFields
  PROVE  Positive(TemplateOf(c, c.groups[i])[f])
  <1> DEFINE g == c.groups[i]
  <1>1. Positive(c.template[f])
    BY DEF Sound
  <1>2. CASE g.hasTemplate
    <2>1. TemplateOf(c, g)[f] = IF g.Template[f] = Unset THEN c.template[f] ELSE g.Template[f]
      BY <1>2, MergedSet DEF TemplateOf
    <2>2. g.Template[f] # Unset => Positive(g.Template[f])
      BY <1>2 DEF Sound, ValidTemplate
    <2> QED BY <1>1, <2>1, <2>2
  <1>3. CASE ~g.hasTemplate
    BY <1>1, <1>3 DEF TemplateOf
  <1> QED BY <1>2, <1>3

\* An allocatable quantity does not exceed its capacity, if both come from one
\* block and that block's pair was compared.
LEMMA TemplateFits ==
  ASSUME NEW c, Sound(c), NEW i \in Members(c), NEW p \in Pairs,
         c.groups[i].hasTemplate => (c.groups[i].Template[p[1]] = Unset
                                     <=> c.groups[i].Template[p[2]] = Unset)
  PROVE  TemplateOf(c, c.groups[i])[p[1]] <= TemplateOf(c, c.groups[i])[p[2]]
  <1> DEFINE g == c.groups[i]
  <1>1. p[1] \in TemplateFields /\ p[2] \in TemplateFields
    BY DEF Pairs, TemplateFields
  <1>2. CASE g.hasTemplate
    <2>1. /\ TemplateOf(c, g)[p[1]]
               = (IF g.Template[p[1]] = Unset THEN c.template[p[1]] ELSE g.Template[p[1]])
          /\ TemplateOf(c, g)[p[2]]
               = (IF g.Template[p[2]] = Unset THEN c.template[p[2]] ELSE g.Template[p[2]])
      BY <1>1, <1>2, MergedSet DEF TemplateOf
    <2>2. Unset \notin {g.Template[p[1]], g.Template[p[2]]}
            => g.Template[p[1]] <= g.Template[p[2]]
      BY <1>2 DEF Sound, ValidTemplate
    <2>3. c.template[p[1]] <= c.template[p[2]]
      BY DEF Sound
    <2> QED BY <1>2, <2>1, <2>2, <2>3
  <1>3. CASE ~g.hasTemplate
    BY <1>3 DEF TemplateOf, Sound
  <1> QED BY <1>2, <1>3

\* What a template promises its Nodes carry, with the named exceptions.
LEMMA LabelsKept ==
  ASSUME NEW g, NEW k \in DOMAIN TemplateLabels(g),
         k \notin (EdgeLabels \cup KubeletLabels) \ DOMAIN g.Labels,
         k # NodepoolLabel \/ k \notin DOMAIN g.Labels
  PROVE  k \in DOMAIN NodeLabels(g) /\ NodeLabels(g)[k] = TemplateLabels(g)[k]
  <1> DEFINE fixed == TemplateFixed(g)
             join  == JoinLabels(g)
             pool  == [x \in {NodepoolLabel} |-> g.NodepoolID]
  <1>1. /\ DOMAIN join = {DesiredPool, InterconnectionMode} \cup DOMAIN g.Labels
        /\ \A x \in DOMAIN g.Labels : join[x] = g.Labels[x]
        /\ DesiredPool \notin DOMAIN g.Labels => join[DesiredPool] = g.NodepoolID
    BY DEF JoinLabels, JoinFixed, Over
  <1>2. /\ DOMAIN NodeLabels(g) = {NodepoolLabel} \cup DOMAIN join
        /\ NodeLabels(g)[NodepoolLabel] = g.NodepoolID
        /\ \A x \in DOMAIN join : x # NodepoolLabel => NodeLabels(g)[x] = join[x]
    BY DEF NodeLabels, Over
  <1>3. CASE k \in DOMAIN g.Labels
    <2>1. TemplateLabels(g)[k] = g.Labels[k]
      BY <1>3 DEF TemplateLabels, Over
    <2> QED BY <1>1, <1>2, <1>3, <2>1
  <1>4. CASE k \notin DOMAIN g.Labels
    <2>1. k \in {NodepoolLabel, DesiredPool} \ (EdgeLabels \cup KubeletLabels)
      BY <1>4 DEF TemplateLabels, TemplateFixed, Over
    <2>2. TemplateLabels(g)[k] = g.NodepoolID
      BY <1>4, <2>1 DEF TemplateLabels, TemplateFixed, Over
    <2>3. DesiredPool # NodepoolLabel
      BY DEF DesiredPool, NodepoolLabel
    <2> QED BY <1>1, <1>2, <1>4, <2>1, <2>2, <2>3
  <1> QED BY <1>3, <1>4

\* The one label that Nodes carry and no template promises.
LEMMA LabelsPromised ==
  ASSUME NEW g
  PROVE  DOMAIN NodeLabels(g) \ DOMAIN TemplateLabels(g) \subseteq {InterconnectionMode}
  BY DEF NodeLabels, JoinLabels, JoinFixed, TemplateLabels, TemplateFixed, Over
-----------------------------------------------------------------------------
(* ProviderIDs. *)

\* A name and its prefix agree as far as the prefix goes.
LEMMA BeginsWith ==
  ASSUME NEW p \in Seq(Tokens), NEW t \in Seq(Tokens), IsPrefix(p, t)
  PROVE  Len(p) <= Len(t) /\ \A i \in 1 .. Len(p) : t[i] = p[i]
  <1>1. Len(p) <= Len(t) /\ SubSeq(p, 1, Len(p)) = SubSeq(t, 1, Len(p))
    BY DEF IsPrefix
  <1>2. \A i \in 1 .. Len(p) : SubSeq(p, 1, Len(p))[i] = p[i] /\ SubSeq(t, 1, Len(p))[i] = t[i]
    BY <1>1
  <1> QED BY <1>1, <1>2

LEMMA OneTokenLeft ==
  ASSUME NEW t \in Seq(Tokens), NEW n \in Nat, n <= Len(t),
         Len(SubSeq(t, n + 1, Len(t))) = 1
  PROVE  Len(t) = n + 1 /\ SubSeq(t, n + 1, Len(t)) = <<t[n + 1]>>
  <1> DEFINE u == SubSeq(t, n + 1, Len(t))
  <1>1. Len(t) = n + 1
    OBVIOUS
  <1>2. u \in Seq(Tokens) /\ Len(u) = 1 /\ u[1] = t[n + 1]
    <2>1. n + 1 \in 1 .. Len(t) + 1 /\ Len(t) \in n .. Len(t)
      OBVIOUS
    <2>2. u \in Seq(Tokens)
      BY <2>1, SubSeqProperties
    <2> QED BY <1>1, <2>2
  <1>3. \A w \in Seq(Tokens) : Len(w) = 1 => w = <<w[1]>>
    OBVIOUS
  <1> HIDE DEF u
  <1>4. u = <<t[n + 1]>>
    BY <1>2, <1>3
  <1> QED BY <1>1, <1>4 DEF u

\* The strict reading is the inverse of writing one, and the lenient one agrees
\* with it where the region has no dot.
LEMMA ReadOneWay ==
  ASSUME NEW c, Sound(c), NEW pid \in Seq(Tokens), StrictEdgeInstanceID(c, pid) # <<>>
  PROVE  LET id == StrictEdgeInstanceID(c, pid)
         IN /\ pid = ProviderID(c, id[1])
            /\ Dot \in ToSet(c.region) \/ InstanceIDFromProviderID(pid) = id
  <1> DEFINE r  == c.region
             n  == Len(r) + 1
             id == SubSeq(pid, n + 1, Len(pid))
  <1>1. r \in Seq(Tokens) /\ r # <<>> /\ Dot \in Tokens
    BY NodeGroupsAssumption DEF Sound, Shape, NodeGroupsAssumption
  <1>2. Len(r \o <<Dot>>) = n /\ n \in Nat /\ n > 1 /\ r \o <<Dot>> \in Seq(Tokens)
    BY <1>1
  <1>3. /\ StrictEdgeInstanceID(c, pid) = id
        /\ IsPrefix(r \o <<Dot>>, pid) /\ Len(id) = 1
    BY <1>2 DEF StrictEdgeInstanceID
  <1>4. Len(pid) = n + 1 /\ id[1] = pid[n + 1] /\ id = <<pid[n + 1]>>
    <2>1. n <= Len(pid)
      BY <1>2, <1>3, BeginsWith
    <2> HIDE DEF n
    <2> QED BY <1>2, <1>3, <2>1, OneTokenLeft
  <1>6. \A i \in 1 .. n : pid[i] = (r \o <<Dot>>)[i]
    BY <1>2, <1>3, BeginsWith
  <1>7. pid[n] = Dot /\ \A i \in 1 .. Len(r) : pid[i] = r[i]
    <2>1. (r \o <<Dot>>)[n] = Dot /\ \A i \in 1 .. Len(r) : (r \o <<Dot>>)[i] = r[i]
      BY <1>1
    <2>2. n \in 1 .. n /\ 1 .. Len(r) \subseteq 1 .. n
      BY <1>1
    <2> HIDE DEF n, id, r
    <2> QED BY <1>6, <2>1, <2>2
  <1>8. pid = ProviderID(c, id[1])
    <2>1. pid[n + 1] \in Tokens
      BY <1>2, <1>4
    <2>2. Len(r \o <<Dot, pid[n + 1]>>) = n + 1
      BY <1>1, <2>1
    <2>3. \A i \in 1 .. n + 1 : pid[i] = (r \o <<Dot, pid[n + 1]>>)[i]
      <3> DEFINE w == r \o <<Dot, pid[n + 1]>>
      <3>1. /\ w[n] = Dot /\ w[n + 1] = pid[n + 1]
            /\ \A i \in 1 .. Len(r) : w[i] = r[i]
        BY <1>1, <2>1
      <3>2. \A i \in 1 .. n + 1 : i \in 1 .. Len(r) \/ i = n \/ i = n + 1
        BY <1>1
      <3> HIDE DEF w, n, r
      <3> QED BY <1>7, <3>1, <3>2 DEF w
    <2>4. pid = r \o <<Dot, pid[n + 1]>>
      <3>1. r \o <<Dot, pid[n + 1]>> \in Seq(Tokens)
        BY <1>1, <2>1
      <3> HIDE DEF n, r
      <3> QED BY <1>4, <2>2, <2>3, <3>1
    <2> QED BY <1>4, <2>4 DEF ProviderID
  <1>9. ASSUME Dot \notin ToSet(r) PROVE InstanceIDFromProviderID(pid) = id
    <2> DEFINE Dots == {i \in DOMAIN pid : pid[i] = Dot}
    <2>1. DOMAIN pid = 1 .. n + 1
      BY <1>4
    <2>2. n \in Dots
      BY <1>2, <1>7, <2>1
    <2>3. \A i \in Dots : n <= i
      <3> SUFFICES ASSUME NEW i \in Dots, i < n PROVE FALSE
        BY <1>2, <2>1
      <3>1. i \in 1 .. Len(r) /\ r[i] = Dot
        BY <1>1, <1>2, <1>7, <2>1
      <3> QED BY <1>1, <1>9, <3>1 DEF ToSet
    <2>4. First(Dots) = n
      <3>1. \A j \in Dots : (\A i \in Dots : j <= i) => j = n
        BY <1>2, <2>1, <2>2, <2>3
      <3> QED BY <2>2, <2>3, <3>1 DEF First
    <2> QED BY <1>2, <2>4 DEF InstanceIDFromProviderID
  <1> QED BY <1>3, <1>8, <1>9

\* A providerID that was written for an instance of the region is read back.
LEMMA WrittenIsRead ==
  ASSUME NEW c, Sound(c), NEW id \in EnsIds
  PROVE  StrictEdgeInstanceID(c, ProviderID(c, id)) = <<id>>
  <1> DEFINE p   == c.region \o <<Dot>>
             pid == c.region \o <<Dot, id>>
             n   == Len(p)
  <1>1. c.region \in Seq(Tokens) /\ Dot \in Tokens /\ id \in Tokens
    BY NodeGroupsAssumption DEF Sound, Shape, NodeGroupsAssumption
  <1>2. /\ p \in Seq(Tokens) /\ pid \in Seq(Tokens) /\ n \in Nat
        /\ Len(pid) = n + 1 /\ pid[n + 1] = id
    BY <1>1
  <1>3. pid = p \o <<id>>
    BY <1>1
  <1>4. IsPrefix(p, pid)
    <2> HIDE DEF p, pid
    <2> QED BY <1>1, <1>2, <1>3 DEF IsPrefix
  <1>5. SubSeq(pid, n + 1, Len(pid)) = <<id>>
    <2> HIDE DEF pid, p
    <2>1. \A i \in n + 1 .. Len(pid) : pid[i] \in Tokens
      BY <1>2
    <2>2. Len(SubSeq(pid, n + 1, Len(pid))) = 1
      BY <1>2, <2>1, SubSeqProperties
    <2> QED BY <1>2, <2>2, OneTokenLeft
  <1>6. StrictEdgeInstanceID(c, pid) = <<id>>
    <2>1. StrictEdgeInstanceID(c, pid) =
            IF /\ IsPrefix(p, pid) /\ Len(SubSeq(pid, n + 1, Len(pid))) = 1
               /\ SubSeq(pid, n + 1, Len(pid))[1] \in EnsIds
            THEN SubSeq(pid, n + 1, Len(pid)) ELSE <<>>
      BY DEF StrictEdgeInstanceID
    <2> HIDE DEF p, pid, n
    <2>2. Len(<<id>>) = 1 /\ <<id>>[1] = id
      OBVIOUS
    <2> QED BY <1>4, <1>5, <2>1, <2>2
  <1> QED BY <1>6 DEF ProviderID
=============================================================================
