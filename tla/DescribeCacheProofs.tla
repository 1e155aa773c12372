------------------------- MODULE DescribeCacheProofs -------------------------
(***************************************************************************)
(* The fetch lock, the age of what readers are served and what a forced    *)
(* read returns, for any number of readers, any region, page size,         *)
(* lifetime and length of a walk.                                          *)
(*                                                                         *)
(* Both ages rest on the lock: as one reader walks at a time, no walk that *)
(* began earlier is stored after a later one, and a listing that is still  *)
(* fresh is older than its store by one walk at most (Fresh, Walks).  What *)
(* a walk collects rests on the laws of OwnedOf, a recursion over the      *)
(* listing: each is proved from a least counterexample (Least), and they   *)
(* make the pages of a region that stands still add up (Collected).  In    *)
(* one that changes, what a walk is to find is collected or still ahead of *)
(* it, unless something before it goes (Covered).                          *)
(***************************************************************************)
EXTENDS DescribeCache, SequenceTheorems, WellFoundedInduction, TLAPS

(***************************************************************************)
(* What the walk collects: laws of the recursion that OwnedOf is.          *)
(***************************************************************************)

\* f collects the owned among the first 0, 1, ... m instances of s: the
\* recursion that OwnedOf runs.
Step(s, f, n) ==
  IF n = 0 THEN <<>> ELSE IF s[n] \in Owned THEN Append(f[n - 1], s[n]) ELSE f[n - 1]
UpTo(s, f, m) == f = [n \in 0..m |-> Step(s, f, n)]

\* The least element: what stands for induction over the naturals here.
LEMMA Least ==
  ASSUME NEW S \in SUBSET Nat, S # {}
  PROVE  \E n \in S : \A m \in S : n <= m
  <1>1. PICK n \in S : \A m \in S : ~ (<<m, n>> \in OpToRel(<, Nat))
    BY WFMin, NatLessThanWellFounded
  <1>2. \A m \in S : ~ (m < n)
    BY <1>1 DEF OpToRel
  <1> QED BY <1>2

\* The recursion defines a function, whatever the length.
LEMMA UpToExists ==
  ASSUME NEW s, NEW m \in Nat
  PROVE  \E f : UpTo(s, f, m)
  <1> DEFINE S == {k \in Nat : ~ \E f : UpTo(s, f, k)}
  <1> SUFFICES ASSUME S # {} PROVE FALSE
    OBVIOUS
  <1>1. PICK n \in S : \A k \in S : n <= k
    BY Least
  <1>2. CASE n = 0
    <2>1. UpTo(s, [k \in 0..0 |-> <<>>], 0)
      BY DEF UpTo, Step
    <2> QED BY <2>1, <1>2
  <1>3. CASE n > 0
    <2>1. n - 1 \in Nat /\ n - 1 \notin S
      BY <1>1, <1>3
    <2>2. PICK f : UpTo(s, f, n - 1)
      BY <2>1
    <2> DEFINE g == [k \in 0..n |-> IF k < n THEN f[k] ELSE Step(s, f, n)]
    <2>5. \A k \in 0 .. n - 1 : g[k] = f[k]
      BY <1>3, <2>1
    <2>3. ASSUME NEW k \in 0..n PROVE g[k] = Step(s, g, k)
      <3>1. Step(s, g, k) = Step(s, f, k)
        BY <2>5, <1>3, <2>1 DEF Step
      <3>2. CASE k < n
        <4>1. k \in 0 .. n - 1
          BY <3>2
        <4>2. f[k] = Step(s, f, k)
          BY <2>2, <4>1 DEF UpTo
        <4> QED BY <4>1, <4>2, <3>1, <2>5
      <3>3. CASE k = n
        BY <3>3, <3>1
      <3> QED BY <3>2, <3>3
    <2>4. UpTo(s, g, n)
      BY <2>3 DEF UpTo
    <2> QED BY <2>4
  <1> QED BY <1>2, <1>3

\* OwnedOf is the last value of such a function.
LEMMA OwnedOfIs ==
  ASSUME NEW T, NEW s \in Seq(T)
  PROVE  \E f : UpTo(s, f, Len(s)) /\ OwnedOf(s) = f[Len(s)]
  <1> DEFINE F == CHOOSE f : UpTo(s, f, Len(s))
  <1>1. UpTo(s, F, Len(s))
    BY UpToExists, LenProperties
  <1>2. OwnedOf(s) = F[Len(s)]
    BY DEF OwnedOf, UpTo, Step
  <1> QED BY <1>1, <1>2

\* Nothing comes of nothing.
LEMMA OwnedOfEmpty == OwnedOf(<<>>) = <<>>
  <1>1. PICK f : UpTo(<<>>, f, Len(<<>>)) /\ OwnedOf(<<>>) = f[Len(<<>>)]
    BY OwnedOfIs, EmptySeq
  <1> QED BY <1>1, EmptySeq DEF UpTo, Step

\* One more instance is appended, or skipped.
LEMMA UpToStep ==
  ASSUME NEW s, NEW f, NEW m \in Nat, UpTo(s, f, m)
  PROVE  \A n \in 1..m : f[n] = IF s[n] \in Owned THEN Append(f[n - 1], s[n]) ELSE f[n - 1]
  <1>1. ASSUME NEW n \in 1..m PROVE n \in 0..m /\ n # 0
    OBVIOUS
  <1> QED BY <1>1 DEF UpTo, Step

\* The walk starts with nothing.
LEMMA UpToZero ==
  ASSUME NEW s, NEW f, NEW m \in Nat, UpTo(s, f, m)
  PROVE  f[0] = <<>>
  BY DEF UpTo, Step

\* Only owned instances are collected.
LEMMA UpToType ==
  ASSUME NEW s, NEW m \in Nat, NEW f, UpTo(s, f, m)
  PROVE  \A k \in 0..m : f[k] \in Seq(Owned)
  <1> DEFINE S == {k \in Nat : k <= m /\ f[k] \notin Seq(Owned)}
  <1> SUFFICES ASSUME S # {} PROVE FALSE
    OBVIOUS
  <1>1. PICK n \in S : \A k \in S : n <= k
    BY Least
  <1>2. CASE n = 0
    BY <1>2, UpToZero, EmptySeq
  <1>3. CASE n > 0
    <2>1. n \in 1..m /\ n - 1 \in 0..m /\ n - 1 \notin S
      BY <1>1, <1>3
    <2>2. f[n - 1] \in Seq(Owned)
      BY <2>1
    <2>3. f[n] \in Seq(Owned)
      <3>1. f[n] = IF s[n] \in Owned THEN Append(f[n - 1], s[n]) ELSE f[n - 1]
        BY <2>1, UpToStep
      <3> QED BY <3>1, <2>2, AppendProperties
    <2> QED BY <2>3
  <1> QED BY <1>2, <1>3

\* A listing of the owned holds nothing else.
LEMMA OwnedOfType ==
  ASSUME NEW T, NEW s \in Seq(T)
  PROVE  OwnedOf(s) \in Seq(Owned)
  BY OwnedOfIs, UpToType, LenProperties

\* Appending commutes with what is in front.
LEMMA AppendToConcat ==
  ASSUME NEW u \in Seq(Owned), NEW v \in Seq(Owned), NEW x \in Owned
  PROVE  Append(u \o v, x) = u \o Append(v, x)
  <1>1. u \o v \in Seq(Owned) /\ <<x>> \in Seq(Owned)
    BY ConcatProperties
  <1>2. Append(u \o v, x) = (u \o v) \o <<x>> /\ Append(v, x) = v \o <<x>>
    BY <1>1, AppendIsConcat
  <1>3. (u \o v) \o <<x>> = u \o (v \o <<x>>)
    BY <1>1, ConcatAssociative
  <1> QED BY <1>2, <1>3

\* Page by page or in one piece: the same instances in the same order.
LEMMA OwnedOfConcat ==
  ASSUME NEW s \in Seq(Instances), NEW t \in Seq(Instances)
  PROVE  OwnedOf(s \o t) = OwnedOf(s) \o OwnedOf(t)
  <1>0. PICK a \in Nat, b \in Nat : a = Len(s) /\ b = Len(t)
    BY LenProperties
  <1>1. PICK f : UpTo(s, f, a) /\ OwnedOf(s) = f[a]
    BY OwnedOfIs, <1>0
  <1>2. PICK g : UpTo(t, g, b) /\ OwnedOf(t) = g[b]
    BY OwnedOfIs, <1>0
  <1>3. PICK w \in Seq(Instances) :
          /\ w = s \o t /\ Len(w) = a + b /\ a + b \in Nat
          /\ \A k \in 1 .. a + b : w[k] = IF k <= a THEN s[k] ELSE t[k - a]
    <2>1. /\ s \o t \in Seq(Instances) /\ Len(s \o t) = Len(s) + Len(t)
          /\ \A k \in 1 .. Len(s) + Len(t) :
               (s \o t)[k] = IF k <= Len(s) THEN s[k] ELSE t[k - Len(s)]
      BY ConcatProperties
    <2>2. /\ Len(s \o t) = a + b
          /\ \A k \in 1 .. a + b : (s \o t)[k] = IF k <= a THEN s[k] ELSE t[k - a]
      BY <1>0, <2>1, Zenon
    <2>3. a + b \in Nat
      OBVIOUS
    <2> QED BY <2>1, <2>2, <2>3, Zenon
  <1>4. PICK h : UpTo(w, h, a + b) /\ OwnedOf(w) = h[a + b]
    BY OwnedOfIs, <1>3
  <1>5. \A n \in 1 .. a + b :
          h[n] = IF w[n] \in Owned THEN Append(h[n - 1], w[n]) ELSE h[n - 1]
    BY <1>3, <1>4, UpToStep
  <1>6. h[a] = f[a]
    <2> DEFINE S == {k \in Nat : k <= a /\ h[k] # f[k]}
    <2> SUFFICES ASSUME S # {} PROVE FALSE
      OBVIOUS
    <2>1. PICK n \in S : \A k \in S : n <= k
      BY Least
    <2>2. n # 0
      BY UpToZero, <1>1, <1>3, <1>4
    <2>3. n \in 1..a /\ n \in 1 .. a + b /\ n - 1 \in Nat /\ n - 1 <= a /\ n - 1 \notin S
      BY <2>1, <2>2
    <2>4. h[n - 1] = f[n - 1] /\ w[n] = s[n]
      BY <2>3, <1>3
    <2>5. h[n] = IF s[n] \in Owned THEN Append(f[n - 1], s[n]) ELSE f[n - 1]
      BY <2>3, <2>4, <1>5
    <2>6. f[n] = IF s[n] \in Owned THEN Append(f[n - 1], s[n]) ELSE f[n - 1]
      BY <2>3, <1>1, UpToStep
    <2> QED BY <2>5, <2>6
  <1>7. f[a] \in Seq(Owned) /\ g[0] = <<>> /\ \A k \in 0..b : g[k] \in Seq(Owned)
    <2>1. \A k \in 0..a : f[k] \in Seq(Owned)
      BY <1>1, UpToType
    <2>2. \A k \in 0..b : g[k] \in Seq(Owned)
      BY <1>2, UpToType
    <2> QED BY <2>1, <2>2, <1>2, UpToZero
  <1>8. \A n \in 1..b : g[n] = IF t[n] \in Owned THEN Append(g[n - 1], t[n]) ELSE g[n - 1]
    BY <1>2, UpToStep
  <1>9. ASSUME NEW n \in 1..b
        PROVE  h[a + n] = IF t[n] \in Owned THEN Append(h[a + (n - 1)], t[n])
                          ELSE h[a + (n - 1)]
    <2>1. a + n \in 1 .. a + b /\ ~(a + n <= a) /\ a + n - a = n /\ a + n - 1 = a + (n - 1)
      OBVIOUS
    <2>2. w[a + n] = t[n]
      BY <2>1, <1>3
    <2>3. h[a + n] = IF w[a + n] \in Owned THEN Append(h[a + n - 1], w[a + n])
                     ELSE h[a + n - 1]
      BY <2>1, <1>5
    <2> QED BY <2>1, <2>2, <2>3
  <1>10. PICK e \in Seq(Owned) : e = f[a] /\ h[a] = e
    BY <1>6, <1>7
  <1>11. \A k \in 0..b : h[a + k] = e \o g[k]
    <2> DEFINE Good(k) == h[a + k] = e \o g[k]
               S == {k \in Nat : k <= b /\ ~Good(k)}
    <2>1. Good(0)
      BY <1>7, <1>10, ConcatEmptySeq
    <2>2. ASSUME NEW n \in 1..b, Good(n - 1) PROVE Good(n)
      <3>1. n - 1 \in 0..b
        OBVIOUS
      <3>2. PICK v \in Seq(Owned) : v = g[n - 1] /\ h[a + (n - 1)] = e \o v
        BY <2>2, <3>1, <1>7, <1>10
      <3>3. CASE t[n] \in Owned
        <4>1. h[a + n] = Append(e \o v, t[n]) /\ g[n] = Append(v, t[n])
          BY <3>2, <3>3, <1>8, <1>9
        <4>2. Append(e \o v, t[n]) = e \o Append(v, t[n])
          BY <3>3, AppendToConcat
        <4> QED BY <4>1, <4>2
      <3>4. CASE t[n] \notin Owned
        BY <3>2, <3>4, <1>8, <1>9
      <3> QED BY <3>3, <3>4
    <2> HIDE DEF Good
    <2>3. S = {}
      <3> SUFFICES ASSUME S # {} PROVE FALSE
        OBVIOUS
      <3>1. PICK n \in S : \A k \in S : n <= k
        BY Least
      <3>2. n \in 1..b /\ n - 1 \in Nat /\ n - 1 \notin S /\ n - 1 <= b
        BY <2>1, <3>1
      <3> QED BY <2>2, <3>2
    <2>4. \A k \in 0..b : Good(k)
      BY <2>3
    <2> QED BY <2>4 DEF Good
  <1>12. h[a + b] = e \o g[b]
    <2>1. b \in 0..b
      OBVIOUS
    <2> QED BY <1>11, <2>1, Zenon
  <1> QED BY <1>1, <1>2, <1>3, <1>4, <1>10, <1>12, Zenon

\* What appending does to the set of a sequence, and to one without repeats.
LEMMA AppendedSet ==
  ASSUME NEW u \in Seq(Owned), NEW x \in Owned
  PROVE  ToSet(Append(u, x)) = ToSet(u) \cup {x}
  <1>1. /\ DOMAIN u = 1..Len(u) /\ Len(u) \in Nat
        /\ DOMAIN Append(u, x) = 1 .. Len(u) + 1
        /\ \A k \in 1..Len(u) : Append(u, x)[k] = u[k]
        /\ Append(u, x)[Len(u) + 1] = x
    BY AppendProperties, LenProperties
  <1> QED BY <1>1 DEF ToSet

LEMMA AppendedInjective ==
  ASSUME NEW u \in Seq(Owned), NEW x \in Owned, IsInjective(u), x \notin ToSet(u)
  PROVE  IsInjective(Append(u, x))
  <1>1. /\ DOMAIN u = 1..Len(u) /\ Len(u) \in Nat
        /\ DOMAIN Append(u, x) = 1 .. Len(u) + 1
        /\ \A k \in 1..Len(u) : Append(u, x)[k] = u[k]
        /\ Append(u, x)[Len(u) + 1] = x
    BY AppendProperties, LenProperties
  <1> QED BY <1>1 DEF ToSet, IsInjective

LEMMA ConcatenatedSet ==
  ASSUME NEW u \in Seq(Owned), NEW v \in Seq(Owned)
  PROVE  ToSet(u \o v) = ToSet(u) \cup ToSet(v)
  <1>1. PICK a \in Nat, b \in Nat : a = Len(u) /\ b = Len(v)
    BY LenProperties
  <1>2. DOMAIN u = 1..a /\ DOMAIN v = 1..b
    BY <1>1, LenProperties
  <1>3. /\ DOMAIN (u \o v) = 1 .. a + b
        /\ \A k \in 1 .. a + b : (u \o v)[k] = IF k <= a THEN u[k] ELSE v[k - a]
    BY <1>1, ConcatProperties, LenProperties
  <1> DEFINE w == u \o v
  <1> HIDE DEF w
  <1>4. ASSUME NEW k \in 1 .. a + b PROVE w[k] \in ToSet(u) \cup ToSet(v)
    <2>1. (k <= a /\ k \in 1..a) \/ (~(k <= a) /\ k - a \in 1..b)
      OBVIOUS
    <2> QED BY <2>1, <1>2, <1>3 DEF ToSet, w
  <1>5. ASSUME NEW k \in 1..a PROVE u[k] \in ToSet(w)
    <2>1. k \in DOMAIN w /\ w[k] = u[k]
      BY <1>3 DEF w
    <2> QED BY <2>1 DEF ToSet
  <1>6. ASSUME NEW k \in 1..b PROVE v[k] \in ToSet(w)
    <2>1. a + k \in 1 .. a + b /\ ~(a + k <= a) /\ a + k - a = k
      OBVIOUS
    <2>2. a + k \in DOMAIN w /\ w[a + k] = v[k]
      BY <1>3, <2>1 DEF w
    <2> QED BY <2>2 DEF ToSet
  <1>7. DOMAIN w = 1 .. a + b
    BY <1>3 DEF w
  <1>8. ToSet(w) = ToSet(u) \cup ToSet(v)
    BY <1>2, <1>4, <1>5, <1>6, <1>7 DEF ToSet
  <1> QED BY <1>8 DEF w

\* The first k instances.
First(s, k) == {s[j] : j \in 1..k}

\* Among the first k instances, the owned are collected and no other.
LEMMA UpToSet ==
  ASSUME NEW s, NEW m \in Nat, NEW f, UpTo(s, f, m)
  PROVE  \A k \in 0..m : ToSet(f[k]) = First(s, k) \cap Owned
  <1> DEFINE Good(k) == ToSet(f[k]) = First(s, k) \cap Owned
             S == {k \in Nat : k <= m /\ ~Good(k)}
  <1>1. Good(0)
    <2>1. f[0] = <<>> /\ DOMAIN f[0] = {}
      BY UpToZero, EmptySeq
    <2> QED BY <2>1 DEF ToSet, First
  <1>2. ASSUME NEW n \in 1..m, Good(n - 1) PROVE Good(n)
    <2>1. PICK u \in Seq(Owned) : u = f[n - 1]
      <3>1. n - 1 \in 0..m
        OBVIOUS
      <3> QED BY <3>1, UpToType
    <2>2. f[n] = IF s[n] \in Owned THEN Append(u, s[n]) ELSE u
      BY <2>1, UpToStep
    <2>3. First(s, n) = First(s, n - 1) \cup {s[n]}
      <3>1. 1..n = (1 .. n - 1) \cup {n}
        OBVIOUS
      <3> QED BY <3>1 DEF First
    <2>4. CASE s[n] \in Owned
      <3>1. ToSet(Append(u, s[n])) = ToSet(u) \cup {s[n]}
        BY <2>4, AppendedSet
      <3> QED BY <1>2, <2>1, <2>2, <2>3, <2>4, <3>1
    <2>5. CASE s[n] \notin Owned
      BY <1>2, <2>1, <2>2, <2>3, <2>5
    <2> QED BY <2>4, <2>5
  <1> HIDE DEF Good
  <1>3. S = {}
    <2> SUFFICES ASSUME S # {} PROVE FALSE
      OBVIOUS
    <2>1. PICK n \in S : \A k \in S : n <= k
      BY Least
    <2>2. n \in 1..m /\ n - 1 \in Nat /\ n - 1 \notin S /\ n - 1 <= m
      BY <1>1, <2>1
    <2> QED BY <1>2, <2>2
  <1>4. \A k \in 0..m : Good(k)
    BY <1>3
  <1> QED BY <1>4 DEF Good

\* An instance that is listed once is collected once.
LEMMA UpToOnce ==
  ASSUME NEW s \in Seq(Instances), IsInjective(s),
         NEW m \in Nat, m <= Len(s), NEW f, UpTo(s, f, m)
  PROVE  \A k \in 0..m : IsInjective(f[k])
  <1>0. \A k \in 0..m : ToSet(f[k]) = First(s, k) \cap Owned
    BY UpToSet
  <1> DEFINE Good(k) == IsInjective(f[k])
             S == {k \in Nat : k <= m /\ ~Good(k)}
  <1>1. Good(0)
    <2>1. f[0] = <<>> /\ DOMAIN f[0] = {}
      BY UpToZero, EmptySeq
    <2> QED BY <2>1 DEF IsInjective
  <1>2. ASSUME NEW n \in 1..m, Good(n - 1) PROVE Good(n)
    <2>1. PICK u \in Seq(Owned) :
            u = f[n - 1] /\ ToSet(u) = First(s, n - 1) \cap Owned
      <3>1. n - 1 \in 0..m
        OBVIOUS
      <3>2. f[n - 1] \in Seq(Owned)
        BY <3>1, UpToType
      <3>3. ToSet(f[n - 1]) = First(s, n - 1) \cap Owned
        BY <1>0, <3>1, Zenon
      <3> QED BY <3>2, <3>3
    <2>2. f[n] = IF s[n] \in Owned THEN Append(u, s[n]) ELSE u
      BY <2>1, UpToStep
    <2>3. s[n] \notin First(s, n - 1)
      <3>1. DOMAIN s = 1..Len(s) /\ Len(s) \in Nat
        BY LenProperties
      <3>2. n \in DOMAIN s /\ \A j \in 1 .. n - 1 : j \in DOMAIN s /\ j # n
        BY <3>1
      <3> QED BY <3>2 DEF IsInjective, First
    <2>4. s[n] \in Owned => IsInjective(Append(u, s[n]))
      BY <1>2, <2>1, <2>3, AppendedInjective
    <2> QED BY <1>2, <2>1, <2>2, <2>4
  <1> HIDE DEF Good
  <1>3. S = {}
    <2> SUFFICES ASSUME S # {} PROVE FALSE
      OBVIOUS
    <2>1. PICK n \in S : \A k \in S : n <= k
      BY Least
    <2>2. n \in 1..m /\ n - 1 \in Nat /\ n - 1 \notin S /\ n - 1 <= m
      BY <1>1, <2>1
    <2> QED BY <1>2, <2>2
  <1>4. \A k \in 0..m : Good(k)
    BY <1>3
  <1> QED BY <1>4 DEF Good

\* A page gives each owned instance that it holds.
LEMMA OwnedOfSet ==
  ASSUME NEW T, NEW s \in Seq(T)
  PROVE  ToSet(OwnedOf(s)) = ToSet(s) \cap Owned
  <1>1. PICK f : UpTo(s, f, Len(s)) /\ OwnedOf(s) = f[Len(s)]
    BY OwnedOfIs
  <1>2. Len(s) \in Nat /\ DOMAIN s = 1..Len(s) /\ Len(s) \in 0..Len(s)
    BY LenProperties
  <1>3. ToSet(f[Len(s)]) = First(s, Len(s)) \cap Owned
    BY <1>1, <1>2, UpToSet
  <1> QED BY <1>1, <1>2, <1>3 DEF ToSet, First

\* The listing that ForcedIsExact speaks of: of a region that holds every
\* instance once, OwnedOf holds every owned one, once, and no other.
THEOREM OwnedOfExact ==
  ASSUME NEW s \in Seq(Instances), IsInjective(s)
  PROVE  ToSet(OwnedOf(s)) = ToSet(s) \cap Owned /\ IsInjective(OwnedOf(s))
  <1>1. PICK f : UpTo(s, f, Len(s)) /\ OwnedOf(s) = f[Len(s)]
    BY OwnedOfIs
  <1>2. Len(s) \in Nat /\ Len(s) \in 0..Len(s) /\ Len(s) <= Len(s)
    BY LenProperties
  <1>3. IsInjective(f[Len(s)])
    BY <1>1, <1>2, UpToOnce
  <1> QED BY <1>1, <1>3, OwnedOfSet
-----------------------------------------------------------------------------
(* The inductive invariant. *)

Types ==
  /\ cacheAge \in 0..TTL /\ since \in 0..Horizon
  /\ fetchMu \in Readers \cup {None}
  /\ pc \in [Readers -> {"idle", "error", "check", "wait", "recheck", "fetch", "store"}]
  /\ began \in [Readers -> 0..MaxFetch]

\* What is fresh began at most one walk before it was stored.
Fresh == cacheAge < TTL => since <= cacheAge + MaxFetch

\* A walk under way is not older than the one behind the cache.
Walks == \A r \in Readers : began[r] <= since /\ (~Walking(r) => began[r] = 0)

\* What the walks and the cache hold: the owned, in the order ENS lists them.
Listings ==
  /\ region \in Seq(Instances) /\ IsInjective(region)
  /\ cache \in Seq(Owned)
  /\ acc \in [Readers -> Seq(Owned)] /\ page \in [Readers -> Nat \ {0}]
  /\ force \in [Readers -> BOOLEAN] /\ calm \in [Readers -> BOOLEAN]
  /\ there \in [Readers -> SUBSET Owned]

\* How many instances the walk of r has been through.
Seen(r) == (page[r] - 1) * PageSize

\* While the region stands still a walk holds the owned among those it has been
\* through; outside a walk there is nothing collected and the next page is 1.
Collected ==
  \A r \in Readers :
    /\ ~Walking(r) => page[r] = 1 /\ acc[r] = <<>>
    /\ calm[r] /\ pc[r] = "fetch" =>
         Seen(r) <= Len(region) /\ acc[r] = OwnedOf(SubSeq(region, 1, Seen(r)))
    /\ calm[r] /\ pc[r] = "store" => acc[r] = OwnedOf(region)

\* An instance that r is to find is collected or lies ahead of its walk.
Ahead(r, i) == \E k \in DOMAIN region : k > Seen(r) /\ region[k] = i

Covered ==
  \A r \in Readers :
    /\ ~force[r] => there[r] = {}
    /\ \A i \in there[r] : i \in ToSet(acc[r]) \/ (pc[r] # "store" /\ Ahead(r, i))

IInv == /\ Types /\ LockHeldByFetcher /\ Fresh /\ Walks
        /\ Listings /\ Collected /\ Covered
-----------------------------------------------------------------------------
(* Pages of the region. *)

LEMMA PageType ==
  ASSUME Listings, NEW r \in Readers
  PROVE  PageOf(page[r]) \in Seq(Instances)
  <1> USE DescribeCacheAssumption DEF DescribeCacheAssumption, Listings
  <1> DEFINE last == IF page[r] * PageSize < Len(region) THEN page[r] * PageSize ELSE Len(region)
  <1>1. Seen(r) \in Nat /\ page[r] * PageSize \in Nat /\ Len(region) \in Nat
    BY DEF Seen
  <1>2. Seen(r) + 1 \in Int /\ last \in Int /\ \A k \in Seen(r) + 1 .. last : region[k] \in Instances
    BY <1>1, ElementOfSeq
  <1>3. SubSeq(region, Seen(r) + 1, last) \in Seq(Instances)
    BY <1>2, SubSeqProperties
  <1> QED BY <1>3 DEF PageOf, Seen

\* One more page.
LEMMA OneMore ==
  ASSUME NEW p \in Nat \ {0}, NEW q \in Nat
  PROVE  (p - 1) * q \in Nat /\ p * q \in Nat /\ p * q = (p - 1) * q + q
  OBVIOUS

\* How far a walk is, before and after the next page, and how far an answer
\* takes it, in numbers.
LEMMA WalkNat ==
  ASSUME Listings, NEW r \in Readers
  PROVE  /\ Seen(r) \in Nat /\ page[r] * PageSize \in Nat /\ Len(region) \in Nat
         /\ \A a : /\ Reach(r, a) = IF a = "bare" THEN Seen(r) ELSE page[r] * PageSize
                   /\ Reach(r, a) \in Nat
  <1>1. page[r] \in Nat \ {0} /\ PageSize \in Nat /\ Len(region) \in Nat
    BY DescribeCacheAssumption, LenProperties DEF DescribeCacheAssumption, Listings
  <1>2. (page[r] - 1) * PageSize \in Nat /\ page[r] * PageSize \in Nat
    BY <1>1, OneMore
  <1> QED BY <1>1, <1>2 DEF Seen, Reach

\* A walk that begins has seen nothing.
LEMMA NothingSeen == OwnedOf(SubSeq(region, 1, 0)) = <<>>
  <1>1. SubSeq(region, 1, 0) = <<>>
    BY SubSeqEmpty
  <1> QED BY <1>1, OwnedOfEmpty

\* Where the page of r ends.
Reached(r) == IF LastPage(page[r]) THEN Len(region) ELSE page[r] * PageSize

\* What a page adds to what the pages before it gave.
LEMMA NextPage ==
  ASSUME Listings, NEW r \in Readers, Seen(r) <= Len(region)
  PROVE  OwnedOf(SubSeq(region, 1, Seen(r))) \o OwnedOf(PageOf(page[r]))
           = OwnedOf(SubSeq(region, 1, Reached(r)))
  <1> USE DescribeCacheAssumption DEF DescribeCacheAssumption, Listings
  <1>1. PICK a \in Nat, n \in Nat : a = Seen(r) /\ n = Len(region) /\ a <= n
    BY DEF Seen
  <1>2. page[r] * PageSize = a + PageSize /\ page[r] * PageSize \in Nat
    <2>1. page[r] \in Nat \ {0} /\ PageSize \in Nat
      OBVIOUS
    <2> QED BY <1>1, <2>1, OneMore DEF Seen
  <1>3. PICK b \in a..n : b = Reached(r)
    BY <1>1, <1>2 DEF Reached, LastPage
  <1>4. PageOf(page[r]) = SubSeq(region, a + 1, b)
    <2>1. (IF page[r] * PageSize < n THEN page[r] * PageSize ELSE n) = b
      BY <1>1, <1>2, <1>3 DEF Reached, LastPage
    <2> QED BY <1>1, <2>1 DEF PageOf, Seen
  <1>5. SubSeq(region, 1, a) \o SubSeq(region, a + 1, b) = SubSeq(region, 1, b)
    <2>1. 1 \in 1 .. Len(region) + 1 /\ a \in 1 - 1 .. Len(region) /\ b \in a .. Len(region)
      BY <1>1, <1>3
    <2> QED BY <2>1, ConcatAdjacentSubSeq
  <1>6. SubSeq(region, 1, a) \in Seq(Instances) /\ SubSeq(region, a + 1, b) \in Seq(Instances)
    <2>1. \A k \in 1..n : region[k] \in Instances
      BY <1>1, ElementOfSeq
    <2>2. /\ \A k \in 1..a : region[k] \in Instances
          /\ \A k \in a + 1 .. b : region[k] \in Instances
      BY <1>1, <1>3, <2>1
    <2> QED BY <1>1, <1>3, <2>2, SubSeqProperties
  <1>7. OwnedOf(SubSeq(region, 1, a) \o SubSeq(region, a + 1, b))
          = OwnedOf(SubSeq(region, 1, a)) \o OwnedOf(SubSeq(region, a + 1, b))
    BY <1>6, OwnedOfConcat
  <1> QED BY <1>1, <1>3, <1>4, <1>5, <1>7, Zenon

\* What lies ahead of a walk, but not behind its page, is on the page.
LEMMA OnPage ==
  ASSUME Listings, NEW r \in Readers, NEW k \in DOMAIN region,
         k > Seen(r), k <= page[r] * PageSize
  PROVE  region[k] \in ToSet(PageOf(page[r]))
  <1> USE DescribeCacheAssumption DEF DescribeCacheAssumption, Listings
  <1>0. Seen(r) \in Nat
    <2>1. page[r] \in Nat \ {0} /\ PageSize \in Nat
      OBVIOUS
    <2> QED BY <2>1, OneMore DEF Seen
  <1>1. PICK a \in Nat, n \in Nat : a = Seen(r) /\ n = Len(region) /\ k \in 1..n
    <2>1. Len(region) \in Nat /\ k \in 1..Len(region)
      BY LenProperties
    <2> QED BY <1>0, <2>1, Zenon
  <1>2. PICK b \in Nat : b = (IF page[r] * PageSize < n THEN page[r] * PageSize ELSE n)
    <2>1. page[r] \in Nat \ {0} /\ PageSize \in Nat
      OBVIOUS
    <2> QED BY <2>1, OneMore
  <1>3. k \in a + 1 .. b
    BY <1>1, <1>2
  <1>4. PageOf(page[r]) = SubSeq(region, a + 1, b)
    BY <1>1, <1>2 DEF PageOf, Seen
  <1>5. \A j \in a + 1 .. b : region[j] \in Instances
    BY <1>1, <1>2, ElementOfSeq
  <1>6. PICK w \in Seq(Instances) :
          /\ w = SubSeq(region, a + 1, b) /\ Len(w) = b - a
          /\ \A j \in 1 .. b - a : w[j] = region[a + j]
    <2>1. /\ SubSeq(region, a + 1, b) \in Seq(Instances)
          /\ Len(SubSeq(region, a + 1, b)) = IF a + 1 <= b THEN b - (a + 1) + 1 ELSE 0
          /\ \A j \in 1 .. b - (a + 1) + 1 :
               SubSeq(region, a + 1, b)[j] = region[a + 1 + j - 1]
      BY <1>5, SubSeqProperties
    <2>2. (IF a + 1 <= b THEN b - (a + 1) + 1 ELSE 0) = b - a
      BY <1>3
    <2>3. \A j \in 1 .. b - a : SubSeq(region, a + 1, b)[j] = region[a + j]
      <3>1. ASSUME NEW j \in 1 .. b - a
            PROVE  j \in 1 .. b - (a + 1) + 1 /\ a + 1 + j - 1 = a + j
        OBVIOUS
      <3> QED BY <2>1, <3>1
    <2> QED BY <2>1, <2>2, <2>3
  <1>7. k - a \in 1 .. b - a /\ a + (k - a) = k /\ DOMAIN w = 1 .. b - a
    BY <1>3, <1>6, LenProperties
  <1> QED BY <1>4, <1>6, <1>7 DEF ToSet
-----------------------------------------------------------------------------
LEMMA Initially == Init => IInv
  <1> SUFFICES ASSUME Init PROVE IInv
    OBVIOUS
  <1> USE DescribeCacheAssumption DEF DescribeCacheAssumption, Init
  <1>1. Types /\ LockHeldByFetcher /\ Fresh /\ Walks
    BY DEF Types, LockHeldByFetcher, Fresh, Walks, Horizon, Walking
  <1>2. Listings
    <2>1. region = <<>> \/ \E i \in Instances : region = <<i>>
      <3>1. region \in [1..0 -> Instances] \/ region \in [1..1 -> Instances]
        BY DEF SeqOf
      <3> QED BY <3>1
    <2>2. region \in Seq(Instances) /\ IsInjective(region)
      <3>1. CASE region = <<>>
        BY <3>1, EmptySeq DEF IsInjective
      <3>2. ASSUME NEW i \in Instances, region = <<i>> PROVE region \in Seq(Instances) /\ DOMAIN region = {1}
        BY <3>2
      <3> QED BY <2>1, <3>1, <3>2 DEF IsInjective
    <2> QED BY <2>2, EmptySeq DEF Listings
  <1>3. Collected /\ Covered
    BY DEF Collected, Covered, Walking
  <1> QED BY <1>1, <1>2, <1>3 DEF IInv

\* Every step keeps the values in range.
LEMMA TypesStep == Types /\ [Next]_vars => Types'
  <1> SUFFICES ASSUME Types, [Next]_vars PROVE Types'
    OBVIOUS
  <1> USE DescribeCacheAssumption DEF DescribeCacheAssumption, Types, Horizon
  <1>1. ASSUME NEW r \in Readers, NEW f \in BOOLEAN, Call(r, f) PROVE Types'
    BY <1>1 DEF Call, walkVars, cacheVars
  <1>2. ASSUME NEW r \in Readers, Lock(r) PROVE Types'
    BY <1>2 DEF Lock, walkVars, cacheVars
  <1>3. ASSUME NEW r \in Readers, Read(r) PROVE Types'
    <2>1. ASSUME NEW outcome \in {"idle", "error"}, Leave(r, outcome), UNCHANGED cacheVars
          PROVE  Types'
      BY <2>1 DEF Leave, cacheVars
    <2>5. CASE Hit(r) \/ FetchFails(r)
      BY <2>1, <2>5 DEF Hit, FetchFails
    <2>2. CASE Miss(r) \/ Begin(r)
      BY <2>2 DEF Miss, Begin, walkVars, cacheVars
    <2>3. ASSUME NEW a \in Answers, FetchPage(r, a) PROVE Types'
      BY <2>3 DEF FetchPage, cacheVars, histVars
    <2>4. CASE Store(r)
      BY <2>4 DEF Store, Leave
    <2> QED BY <1>3, <2>2, <2>3, <2>4, <2>5 DEF Read
  <1>4. CASE InvalidateCache
    BY <1>4 DEF InvalidateCache, readVars, walkVars
  <1>5. CASE Tick
    BY <1>5 DEF Tick, readVars, Walking
  <1>6. ASSUME NEW i \in Instances, Appears(i) \/ Disappears(i) PROVE Types'
    BY <1>6 DEF Appears, Disappears, Changed, readVars, walkVars, cacheVars
  <1>7. CASE UNCHANGED vars
    BY <1>7 DEF vars, readVars, walkVars, cacheVars
  <1> QED BY <1>1, <1>2, <1>3, <1>4, <1>5, <1>6, <1>7 DEF Next

\* The lock is taken by a reader that goes on to fetch, and every way out of
\* the fetch gives it back.
LEMMA LockStep == Types /\ LockHeldByFetcher /\ [Next]_vars => LockHeldByFetcher'
  <1> SUFFICES ASSUME Types, LockHeldByFetcher, [Next]_vars PROVE LockHeldByFetcher'
    OBVIOUS
  <1> USE DescribeCacheAssumption DEF DescribeCacheAssumption, Types, LockHeldByFetcher
  <1>1. ASSUME NEW r \in Readers, NEW f \in BOOLEAN, Call(r, f) PROVE LockHeldByFetcher'
    BY <1>1 DEF Call
  <1>2. ASSUME NEW r \in Readers, Lock(r) PROVE LockHeldByFetcher'
    BY <1>2 DEF Lock
  <1>3. ASSUME NEW r \in Readers, Read(r) PROVE LockHeldByFetcher'
    <2>1. CASE Hit(r) \/ FetchFails(r) \/ Store(r)
      BY <2>1 DEF Hit, FetchFails, Store, Leave
    <2>2. CASE Miss(r) \/ Begin(r) \/ \E a \in Answers : FetchPage(r, a)
      BY <2>2 DEF Miss, Begin, FetchPage
    <2> QED BY <1>3, <2>1, <2>2 DEF Read
  <1>4. CASE InvalidateCache \/ Tick \/ UNCHANGED vars
    BY <1>4 DEF InvalidateCache, Tick, vars, readVars
  <1>5. ASSUME NEW i \in Instances, Appears(i) \/ Disappears(i) PROVE LockHeldByFetcher'
    BY <1>5 DEF Appears, Disappears, Changed, readVars
  <1> QED BY <1>1, <1>2, <1>3, <1>4, <1>5 DEF Next

\* A store makes the listing fresh and as old as its walk; the two age alike.
LEMMA FreshStep == IInv /\ [Next]_vars => Fresh'
  <1> SUFFICES ASSUME IInv, [Next]_vars PROVE Fresh'
    OBVIOUS
  <1> USE DescribeCacheAssumption DEF DescribeCacheAssumption, IInv, Types, Fresh, Horizon
  <1>1. ASSUME NEW r \in Readers, Store(r) PROVE Fresh'
    BY <1>1 DEF Store
  <1>2. CASE Tick
    BY <1>2 DEF Tick
  <1>3. CASE InvalidateCache
    BY <1>3 DEF InvalidateCache
  <1>4. CASE UNCHANGED cacheVars
    BY <1>4 DEF cacheVars
  <1>5. (\E r \in Readers : Store(r)) \/ Tick \/ InvalidateCache \/ UNCHANGED cacheVars
    BY DEF Next, Call, Lock, Read, Hit, Miss, Begin, FetchPage, FetchFails, Appears,
           Disappears, Changed, vars
  <1> QED BY <1>1, <1>2, <1>3, <1>4, <1>5

\* One reader walks at a time: a store leaves no older walk behind.
LEMMA WalksStep == IInv /\ [Next]_vars => Walks'
  <1> SUFFICES ASSUME IInv, [Next]_vars PROVE Walks'
    OBVIOUS
  <1> USE DescribeCacheAssumption
      DEF DescribeCacheAssumption, IInv, Types, Walks, Walking, Horizon
  <1>1. ASSUME NEW r \in Readers, NEW f \in BOOLEAN, Call(r, f) PROVE Walks'
    BY <1>1 DEF Call, walkVars, cacheVars
  <1>2. ASSUME NEW r \in Readers, Lock(r) PROVE Walks'
    BY <1>2 DEF Lock, walkVars, cacheVars
  <1>3. ASSUME NEW r \in Readers, Read(r) PROVE Walks'
    <2>1. ASSUME NEW outcome \in {"idle", "error"}, Leave(r, outcome), UNCHANGED cacheVars
          PROVE  Walks'
      BY <2>1 DEF Leave, cacheVars
    <2>5. CASE Hit(r) \/ FetchFails(r)
      BY <2>1, <2>5 DEF Hit, FetchFails
    <2>2. CASE Miss(r) \/ Begin(r)
      BY <2>2 DEF Miss, Begin, walkVars, cacheVars
    <2>3. ASSUME NEW a \in Answers, FetchPage(r, a) PROVE Walks'
      BY <2>3 DEF FetchPage, cacheVars
    <2>4. CASE Store(r)
      <3>1. \A s \in Readers \ {r} : ~Walking(s)
        BY <2>4 DEF Store, LockHeldByFetcher
      <3> QED BY <2>4, <3>1 DEF Store, Leave
    <2> QED BY <1>3, <2>2, <2>3, <2>4, <2>5 DEF Read
  <1>4. CASE InvalidateCache
    BY <1>4 DEF InvalidateCache, readVars, walkVars
  <1>5. CASE Tick
    BY <1>5 DEF Tick, readVars
  <1>6. ASSUME NEW i \in Instances, Appears(i) \/ Disappears(i) PROVE Walks'
    BY <1>6 DEF Appears, Disappears, Changed, readVars, walkVars, cacheVars
  <1>7. CASE UNCHANGED vars
    BY <1>7 DEF vars, readVars, walkVars, cacheVars
  <1> QED BY <1>1, <1>2, <1>3, <1>4, <1>5, <1>6, <1>7 DEF Next

\* The region gains an instance it does not hold, at either end.
LEMMA AppearsStep ==
  ASSUME Listings, NEW i \in Instances, Appears(i)
  PROVE  region' \in Seq(Instances) /\ IsInjective(region')
  <1>1. i \notin {region[k] : k \in 1..Len(region)}
    BY LenProperties DEF Listings, Appears, ToSet
  <1>2. CASE region' = <<i>> \o region
    BY <1>1, <1>2 DEF Listings, IsInjective
  <1>3. CASE region' = Append(region, i)
    BY <1>1, <1>3 DEF Listings, IsInjective
  <1> QED BY <1>2, <1>3 DEF Appears

\* Without its k-th instance, what is behind it moves up.
LEMMA RemovedAt ==
  ASSUME Listings, NEW n \in Nat, n = Len(region), NEW k \in 1..n
  PROVE  LET w == RemoveAt(region, k)
         IN  /\ w \in Seq(Instances) /\ Len(w) = n - 1
             /\ \A j \in 1 .. n - 1 : w[j] = IF j < k THEN region[j] ELSE region[j + 1]
  <1> DEFINE w == RemoveAt(region, k)
  <1>1. w = SubSeq(region, 1, k - 1) \o SubSeq(region, k + 1, n)
    BY DEF RemoveAt
  <1>2. region \in [1..n -> Instances] /\ n = Len(region)
    BY LenProperties DEF Listings
  <1> HIDE DEF w
  <1>3. /\ SubSeq(region, 1, k - 1) \in Seq(Instances)
        /\ Len(SubSeq(region, 1, k - 1)) = k - 1
        /\ \A j \in 1 .. k - 1 : SubSeq(region, 1, k - 1)[j] = region[j]
    BY <1>2, SubSeqProperties
  <1>4. /\ SubSeq(region, k + 1, n) \in Seq(Instances)
        /\ Len(SubSeq(region, k + 1, n)) = n - k
        /\ \A j \in 1 .. n - k : SubSeq(region, k + 1, n)[j] = region[k + j]
    <2> DEFINE rest == SubSeq(region, k + 1, n)
    <2>1. /\ rest \in Seq(Instances)
          /\ Len(rest) = IF k + 1 <= n THEN n - (k + 1) + 1 ELSE 0
          /\ \A j \in 1 .. n - (k + 1) + 1 : rest[j] = region[k + 1 + j - 1]
      BY <1>2, SubSeqProperties
    <2> HIDE DEF rest
    <2>2. ASSUME NEW j \in 1 .. n - k PROVE rest[j] = region[k + j]
      BY <2>1
    <2>3. Len(rest) = n - k
      <3>1. k \in Nat /\ k <= n
        BY <1>2
      <3>2. (IF k + 1 <= n THEN n - (k + 1) + 1 ELSE 0) = n - k
        BY <3>1
      <3> QED BY <2>1, <3>2
    <2> QED BY <2>1, <2>2, <2>3, Zenon DEF rest
  <1>5. PICK u \in Seq(Instances), v \in Seq(Instances) :
          /\ w = u \o v /\ Len(u) = k - 1 /\ Len(v) = n - k
          /\ \A j \in 1 .. k - 1 : u[j] = region[j]
          /\ \A j \in 1 .. n - k : v[j] = region[k + j]
    BY <1>1, <1>2, <1>3, <1>4
  <1>6. /\ w \in Seq(Instances) /\ Len(w) = n - 1
        /\ \A j \in 1 .. n - 1 : w[j] = IF j < k THEN region[j] ELSE region[j + 1]
    <2>1. /\ u \o v \in Seq(Instances) /\ Len(u \o v) = Len(u) + Len(v)
          /\ \A j \in 1 .. Len(u) + Len(v) :
               (u \o v)[j] = IF j <= Len(u) THEN u[j] ELSE v[j - Len(u)]
      BY ConcatProperties
    <2>2. w \in Seq(Instances) /\ Len(w) = n - 1
      BY <1>2, <1>5, <2>1
    <2>3. ASSUME NEW j \in 1 .. n - 1
          PROVE  w[j] = IF j < k THEN region[j] ELSE region[j + 1]
      <3>1. w[j] = IF j <= k - 1 THEN u[j] ELSE v[j - (k - 1)]
        BY <1>2, <1>5, <2>1
      <3>2. CASE j < k
        BY <1>2, <1>5, <3>1, <3>2
      <3>3. CASE j >= k
        <4>1. j - (k - 1) \in 1 .. n - k /\ k + (j - (k - 1)) = j + 1
          BY <1>2, <3>3
        <4> QED BY <1>2, <1>5, <3>1, <3>3, <4>1
      <3> QED BY <1>2, <3>2, <3>3
    <2> QED BY <2>2, <2>3
  <1> QED BY <1>6 DEF w

\* It loses one and the others keep their order.
LEMMA DisappearsStep ==
  ASSUME Listings, NEW i \in Instances, Disappears(i)
  PROVE  region' \in Seq(Instances) /\ IsInjective(region')
  <1>1. PICK n \in Nat : n = Len(region) /\ region \in [1..n -> Instances]
    BY LenProperties DEF Listings
  <1>2. PICK k \in 1..n : region' = RemoveAt(region, k)
    BY <1>1 DEF Disappears
  <1>3. /\ region' \in Seq(Instances) /\ Len(region') = n - 1
        /\ \A j \in 1 .. n - 1 : region'[j] = IF j < k THEN region[j] ELSE region[j + 1]
    BY <1>1, <1>2, RemovedAt
  <1>4. DOMAIN region' = 1 .. n - 1
    BY <1>3, LenProperties
  <1>5. \A a, b \in 1..n : region[a] = region[b] => a = b
    BY <1>1 DEF Listings, IsInjective
  <1>6. ASSUME NEW a \in 1 .. n - 1, NEW b \in 1 .. n - 1, region'[a] = region'[b]
        PROVE  a = b
    <2> DEFINE at(j) == IF j < k THEN j ELSE j + 1
    <2>1. at(a) \in 1..n /\ at(b) \in 1..n /\ (at(a) = at(b) => a = b)
      OBVIOUS
    <2>2. region[at(a)] = region[at(b)]
      BY <1>3, <1>6
    <2> QED BY <1>5, <2>1, <2>2
  <1> QED BY <1>3, <1>4, <1>6 DEF IsInjective

\* What is in front of it stays where it is.
LEMMA StaysInFront ==
  ASSUME Listings, NEW i \in Instances, Disappears(i)
  PROVE  \E k \in DOMAIN region :
           /\ there' = [r \in Readers |-> there[r] \cap {region[j] : j \in 1..k-1}]
           /\ \A j \in 1 .. k - 1 : /\ j \in DOMAIN region /\ j \in DOMAIN region'
                                   /\ region'[j] = region[j]
  <1>1. PICK n \in Nat : n = Len(region) /\ DOMAIN region = 1..n
    BY LenProperties DEF Listings
  <1>2. PICK k \in 1..n :
          /\ region' = RemoveAt(region, k)
          /\ there' = [r \in Readers |-> there[r] \cap {region[j] : j \in 1..k-1}]
    BY <1>1 DEF Disappears
  <1>3. /\ region' \in Seq(Instances) /\ Len(region') = n - 1
        /\ \A j \in 1 .. n - 1 : region'[j] = IF j < k THEN region[j] ELSE region[j + 1]
    BY <1>1, <1>2, RemovedAt
  <1>4. DOMAIN region' = 1 .. n - 1
    BY <1>3, LenProperties
  <1>5. \A j \in 1 .. k - 1 : j \in 1..n /\ j \in 1 .. n - 1 /\ j < k
    OBVIOUS
  <1> QED BY <1>1, <1>2, <1>3, <1>4, <1>5

LEMMA ListingsStep == Types /\ Listings /\ [Next]_vars => Listings'
  <1> SUFFICES ASSUME Types, Listings, [Next]_vars PROVE Listings'
    OBVIOUS
  <1> USE DescribeCacheAssumption DEF DescribeCacheAssumption, Listings, histVars
  <1>1. ASSUME NEW r \in Readers, NEW f \in BOOLEAN, Call(r, f) PROVE Listings'
    BY <1>1 DEF Call, walkVars, cacheVars
  <1>2. ASSUME NEW r \in Readers, Lock(r) PROVE Listings'
    BY <1>2 DEF Lock, walkVars, cacheVars
  <1>3. ASSUME NEW r \in Readers, Read(r) PROVE Listings'
    <2>1. ASSUME NEW outcome \in {"idle", "error"}, Leave(r, outcome), UNCHANGED region,
                 cache' \in Seq(Owned)
          PROVE  Listings'
      BY <2>1, EmptySeq DEF Leave
    <2>2. CASE Hit(r) \/ FetchFails(r)
      BY <2>1, <2>2 DEF Hit, FetchFails, cacheVars
    <2>3. CASE Miss(r) \/ Begin(r)
      BY <2>3 DEF Miss, Begin, walkVars, cacheVars
    <2>4. ASSUME NEW a \in Answers, FetchPage(r, a) PROVE Listings'
      <3>1. PageOf(page[r]) \in Seq(Instances)
        BY PageType
      <3>2. acc[r] \o OwnedOf(PageOf(page[r])) \in Seq(Owned)
        BY <3>1, OwnedOfType, ConcatProperties
      <3>3. (IF Ends(r, a) THEN 1 ELSE page[r] + 1) \in Nat \ {0}
        OBVIOUS
      <3>4. there' \in [Readers -> SUBSET Owned]
        BY <2>4 DEF FetchPage
      <3> QED BY <2>4, <3>2, <3>3, <3>4 DEF FetchPage, cacheVars
    <2>5. CASE Store(r)
      BY <2>1, <2>5 DEF Store
    <2> QED BY <1>3, <2>2, <2>3, <2>4, <2>5 DEF Read
  <1>4. CASE InvalidateCache
    BY <1>4 DEF InvalidateCache, readVars, walkVars
  <1>5. CASE Tick
    BY <1>5 DEF Tick, readVars
  <1>6. ASSUME NEW i \in Instances, Appears(i) \/ Disappears(i) PROVE Listings'
    <2>1. region' \in Seq(Instances) /\ IsInjective(region')
      BY <1>6, AppearsStep, DisappearsStep
    <2>2. there' \in [Readers -> SUBSET Owned]
      BY <1>6 DEF Appears, Disappears
    <2> QED BY <1>6, <2>1, <2>2
            DEF Appears, Disappears, Changed, readVars, walkVars, cacheVars
  <1>7. CASE UNCHANGED vars
    BY <1>7 DEF vars, readVars, walkVars, cacheVars
  <1> QED BY <1>1, <1>2, <1>3, <1>4, <1>5, <1>6, <1>7 DEF Next

\* A page extends what is collected, a change of the region ends the promise,
\* and every way out of a walk forgets what it collected.
LEMMA CollectedStep == Types /\ Listings /\ Collected /\ [Next]_vars => Collected'
  <1> SUFFICES ASSUME Types, Listings, Collected, [Next]_vars PROVE Collected'
    OBVIOUS
  <1> USE DescribeCacheAssumption
      DEF DescribeCacheAssumption, Types, Listings, Collected, Walking, Seen, histVars
  <1>1. ASSUME NEW r \in Readers, NEW f \in BOOLEAN, Call(r, f) PROVE Collected'
    BY <1>1 DEF Call, walkVars
  <1>2. ASSUME NEW r \in Readers, Lock(r) PROVE Collected'
    BY <1>2 DEF Lock, walkVars
  <1>3. ASSUME NEW r \in Readers, Read(r) PROVE Collected'
    <2>1. ASSUME NEW outcome \in {"idle", "error"}, Leave(r, outcome), UNCHANGED region
          PROVE  Collected'
      BY <2>1 DEF Leave
    <2>2. CASE Hit(r) \/ FetchFails(r) \/ Store(r)
      BY <2>1, <2>2 DEF Hit, FetchFails, Store
    <2>3. CASE Miss(r)
      BY <2>3 DEF Miss, walkVars
    <2>4. CASE Begin(r)
      <3>1. page[r] = 1 /\ acc[r] = <<>>
        BY <2>4 DEF Begin
      <3>2. (1 - 1) * PageSize = 0 /\ Len(region) \in Nat
        OBVIOUS
      <3> QED BY <2>4, <3>1, <3>2, NothingSeen DEF Begin, walkVars
    <2>5. ASSUME NEW a \in Answers, FetchPage(r, a) PROVE Collected'
      <3>1. /\ pc[r] = "fetch" /\ region' = region
            /\ acc' = [acc EXCEPT ![r] = IF a = "bare" THEN acc[r]
                                         ELSE acc[r] \o OwnedOf(PageOf(page[r]))]
            /\ page' = [page EXCEPT ![r] = IF Ends(r, a) THEN 1 ELSE page[r] + 1]
            /\ pc' = [pc EXCEPT ![r] = IF Ends(r, a) THEN "store" ELSE "fetch"]
            /\ \A s \in Readers : calm'[s] => calm[s]
        BY <2>5 DEF FetchPage
      <3>2. ASSUME calm[r], a # "bare"
            PROVE  acc'[r] = OwnedOf(SubSeq(region, 1, Reached(r)))
        BY <3>1, <3>2, NextPage
      <3>3. CASE Ends(r, a)
        <4>1. ASSUME calm'[r] PROVE acc'[r] = OwnedOf(region)
          <5>1. ~CutShort(r, a) /\ calm[r]
            BY <2>5, <3>1, <4>1 DEF FetchPage
          <5>2. Reach(r, a) >= Len(region)
            <6>1. Reach(r, a) \in Nat /\ Len(region) \in Nat
              BY WalkNat, Zenon
            <6> QED BY <3>3, <5>1, <6>1 DEF CutShort
          <5>3. CASE a = "bare"
            <6>1. Seen(r) <= Len(region) /\ acc[r] = OwnedOf(SubSeq(region, 1, Seen(r)))
              BY <3>1, <5>1
            <6>2. Seen(r) = Len(region)
              BY <5>2, <5>3, <6>1, WalkNat
            <6> QED BY <3>1, <5>3, <6>1, <6>2, SubSeqFull
          <5>4. CASE a # "bare"
            <6>1. LastPage(page[r])
              BY <5>2, <5>4 DEF Reach, LastPage
            <6> QED BY <3>2, <5>1, <5>4, <6>1, SubSeqFull DEF Reached
          <5> QED BY <5>3, <5>4
        <4> QED BY <3>1, <3>3, <4>1
      <3>4. CASE ~Ends(r, a)
        <4>1. Reached(r) = (page'[r] - 1) * PageSize /\ Reached(r) <= Len(region)
          <5>1. page[r] * PageSize \in Nat /\ Len(region) \in Nat /\ page'[r] = page[r] + 1
            BY <3>1, <3>4, OneMore
          <5>2. page'[r] - 1 = page[r]
            BY <5>1
          <5> QED BY <5>1, <5>2, <3>4 DEF Reached, LastPage, Ends
        <4>2. a # "bare"
          BY <3>4 DEF Ends
        <4> QED BY <3>1, <3>2, <3>4, <4>1, <4>2
      <3> QED BY <3>3, <3>4
    <2> QED BY <1>3, <2>2, <2>3, <2>4, <2>5 DEF Read
  <1>4. CASE InvalidateCache
    BY <1>4 DEF InvalidateCache, readVars, walkVars
  <1>5. CASE Tick
    BY <1>5 DEF Tick, readVars
  <1>6. ASSUME NEW i \in Instances, Appears(i) \/ Disappears(i) PROVE Collected'
    BY <1>6 DEF Appears, Disappears, Changed, readVars, walkVars
  <1>7. CASE UNCHANGED vars
    BY <1>7 DEF vars, readVars, walkVars
  <1> QED BY <1>1, <1>2, <1>3, <1>4, <1>5, <1>6, <1>7 DEF Next
\* What a page gives is collected, and the walk goes on behind it; what is new
\* pushes instances back, and what goes pulls only those up that are behind it.
LEMMA CoveredStep == IInv /\ [Next]_vars => Covered'
  <1> SUFFICES ASSUME IInv, [Next]_vars PROVE Covered'
    OBVIOUS
  <1> USE DescribeCacheAssumption DEF DescribeCacheAssumption, IInv, Types, Listings, Covered
  <1>1. ASSUME NEW r \in Readers, NEW f \in BOOLEAN, Call(r, f) PROVE Covered'
    <2>1. page[r] = 1
      BY <1>1 DEF Call, Collected, Walking
    <2>0. Seen(r) = 0
      <3>1. (1 - 1) * PageSize = 0
        OBVIOUS
      <3> QED BY <2>1, <3>1 DEF Seen
    <2>2. \A i \in ToSet(region) : Ahead(r, i)
      BY <2>0, LenProperties DEF Ahead, ToSet
    <2> QED BY <1>1, <2>2 DEF Call, walkVars, Ahead, Seen
  <1>2. ASSUME UNCHANGED <<region, force, there, acc, page>>,
               \A r \in Readers : pc'[r] = "store" => pc[r] = "store"
        PROVE  Covered'
    BY <1>2 DEF Ahead, Seen
  <1>3. ASSUME NEW r \in Readers, NEW outcome \in {"idle", "error"},
               Leave(r, outcome), UNCHANGED region
        PROVE  Covered'
    BY <1>3 DEF Leave, Ahead, Seen
  <1>4. ASSUME NEW r \in Readers, NEW a \in Answers, FetchPage(r, a) PROVE Covered'
    <2>1. /\ PageOf(page[r]) \in Seq(Instances)
          /\ ToSet(OwnedOf(PageOf(page[r]))) = ToSet(PageOf(page[r])) \cap Owned
      BY PageType, OwnedOfSet
    <2>2. ASSUME a # "bare"
          PROVE  ToSet(acc'[r]) = ToSet(acc[r]) \cup (ToSet(PageOf(page[r])) \cap Owned)
      <3>1. acc'[r] = acc[r] \o OwnedOf(PageOf(page[r]))
        BY <1>4, <2>2 DEF FetchPage
      <3>2. OwnedOf(PageOf(page[r])) \in Seq(Owned)
        BY <2>1, OwnedOfType
      <3> QED BY <2>1, <3>1, <3>2, ConcatenatedSet
    <2>3. ASSUME NEW i \in there'[r], i \notin ToSet(acc'[r])
          PROVE  pc'[r] # "store" /\ Ahead(r, i)'
      <3>0. /\ i \in there[r] /\ region' = region
            /\ CutShort(r, a) => i \in {region[k] : k \in 1..Reach(r, a)}
        BY <1>4, <2>3 DEF FetchPage, histVars
      <3>1. PICK k \in DOMAIN region : k > Seen(r) /\ region[k] = i
        <4>1. i \notin ToSet(acc[r])
          BY <1>4, <2>2, <2>3 DEF FetchPage
        <4> QED BY <3>0, <4>1 DEF Ahead
      <3>2. /\ k \in Nat /\ k <= Len(region) /\ Len(region) \in Nat
            /\ Seen(r) \in Nat /\ page[r] * PageSize \in Nat
        <4>1. k \in 1..Len(region)
          BY LenProperties
        <4> QED BY <4>1, WalkNat
      <3>3. k > Reach(r, a)
        <4>1. CASE a = "bare"
          BY <3>1, <4>1 DEF Reach, Seen
        <4>2. CASE a # "bare"
          <5>1. i \in Owned
            BY <3>0
          <5> QED BY <2>2, <2>3, <3>1, <3>2, <4>2, <5>1, OnPage DEF Reach
        <4> QED BY <4>1, <4>2
      <3>4. ~CutShort(r, a)
        <4>1. SUFFICES ASSUME CutShort(r, a) PROVE FALSE
          OBVIOUS
        <4>2. PICK j \in 1..Reach(r, a) : region[j] = i
          BY <3>0, <4>1
        <4>3. j \in DOMAIN region
          BY <3>2, <3>3, <4>2, LenProperties DEF Reach, Seen
        <4>4. j = k
          BY <3>1, <4>2, <4>3 DEF IsInjective
        <4> QED BY <3>2, <3>3, <4>2, <4>4 DEF Reach, Seen
      <3>5. ~Ends(r, a)
        BY <3>2, <3>3, <3>4 DEF CutShort, Reach, Seen
      <3>6. page'[r] = page[r] + 1 /\ pc'[r] = "fetch"
        BY <1>4, <3>5 DEF FetchPage
      <3>7. Seen(r)' = page[r] * PageSize
        BY <3>6 DEF Seen
      <3>8. a # "bare"
        BY <3>5 DEF Ends
      <3> QED BY <3>0, <3>1, <3>3, <3>6, <3>7, <3>8 DEF Ahead, Reach
    <2>4. ASSUME NEW s \in Readers \ {r}
          PROVE  /\ acc'[s] = acc[s] /\ page'[s] = page[s] /\ pc'[s] = pc[s]
                 /\ there'[s] = there[s]
                 /\ \A i : Ahead(s, i)' <=> Ahead(s, i)
      BY <1>4 DEF FetchPage, Ahead, Seen, histVars
    <2>5. force' = force /\ (there[r] = {} => there'[r] = {})
      BY <1>4 DEF FetchPage, histVars
    <2> QED BY <2>3, <2>4, <2>5
  <1>5. ASSUME NEW i \in Instances, Appears(i) PROVE Covered'
    <2>1. ASSUME NEW r \in Readers, NEW j, Ahead(r, j) PROVE Ahead(r, j)'
      <3>1. PICK k \in 1..Len(region) : k > Seen(r) /\ region[k] = j
        BY <2>1, LenProperties DEF Ahead
      <3>2. Seen(r)' = Seen(r) /\ Seen(r) \in Int
        BY <1>5 DEF Appears, Changed, walkVars, Seen
      <3>3. CASE region' = <<i>> \o region
        <4>1. k + 1 \in DOMAIN region' /\ region'[k + 1] = j
          BY <3>1, <3>3
        <4> QED BY <3>1, <3>2, <4>1 DEF Ahead
      <3>4. CASE region' = Append(region, i)
        <4>1. k \in DOMAIN region' /\ region'[k] = j
          BY <3>1, <3>4
        <4> QED BY <3>1, <3>2, <4>1 DEF Ahead
      <3> QED BY <1>5, <3>3, <3>4 DEF Appears
    <2> QED BY <1>5, <2>1 DEF Appears, Changed, readVars, walkVars
  <1>6. ASSUME NEW i \in Instances, Disappears(i) PROVE Covered'
    <2>2. PICK k \in DOMAIN region :
            /\ there' = [r \in Readers |-> there[r] \cap {region[j] : j \in 1..k-1}]
            /\ \A j \in 1 .. k - 1 : /\ j \in DOMAIN region /\ j \in DOMAIN region'
                                    /\ region'[j] = region[j]
      BY <1>6, StaysInFront
    <2>4. ASSUME NEW r \in Readers, NEW j \in there'[r], Ahead(r, j) PROVE Ahead(r, j)'
      <3>1. PICK a \in 1 .. k - 1 : region[a] = j
        BY <2>2, <2>4
      <3>2. a > Seen(r)
        BY <2>2, <2>4, <3>1 DEF Ahead, IsInjective
      <3>3. Seen(r)' = Seen(r) /\ region'[a] = j /\ a \in DOMAIN region'
        BY <1>6, <2>2, <3>1 DEF Disappears, Changed, walkVars, Seen
      <3> QED BY <3>2, <3>3 DEF Ahead
    <2>5. UNCHANGED <<force, pc, acc>> /\ \A r \in Readers : there'[r] \subseteq there[r]
      BY <1>6, <2>2 DEF Disappears, Changed, readVars, walkVars
    <2> QED BY <2>4, <2>5
  <1>7. ASSUME NEW r \in Readers, Lock(r) \/ Miss(r) \/ Begin(r) PROVE Covered'
    BY <1>2, <1>7 DEF Lock, Miss, Begin, walkVars, histVars
  <1>8. ASSUME NEW r \in Readers, Hit(r) \/ FetchFails(r) \/ Store(r) PROVE Covered'
    BY <1>3, <1>8 DEF Hit, FetchFails, Store
  <1>9. CASE InvalidateCache \/ Tick \/ UNCHANGED vars
    BY <1>2, <1>9 DEF InvalidateCache, Tick, vars, readVars, walkVars, histVars
  <1> QED BY <1>1, <1>4, <1>5, <1>6, <1>7, <1>8, <1>9 DEF Next, Read
-----------------------------------------------------------------------------
LEMMA Invariance == Spec => []IInv
  <1>1. IInv /\ [Next]_vars => IInv'
    BY TypesStep, LockStep, FreshStep, WalksStep, ListingsStep, CollectedStep, CoveredStep
       DEF IInv
  <1> QED BY Initially, <1>1, PTL DEF Spec

\* Every value stays in its range; the region and the listings of it are
\* sequences of instances, those of the owned alone.
THEOREM TypeCorrect == Spec => []TypeOK
  <1>1. IInv => TypeOK
    BY DEF IInv, Types, Listings, TypeOK
  <1> QED BY <1>1, Invariance, PTL

\* The lock is with the reader that fetches, and with nobody when none does.
THEOREM LockHeldByFetcherHolds == Spec => []LockHeldByFetcher
  BY Invariance, PTL DEF IInv

\* A read returns from the cache or from its own walk.
LEMMA ReturnsBy ==
  ASSUME IInv, [Next]_vars, NEW r \in Readers, Returns(r)
  PROVE  \E s \in Readers : Hit(s) \/ Store(s)
  <1> USE DEF IInv, Types
  <1>1. ASSUME NEW s \in Readers, NEW f \in BOOLEAN, Call(s, f) PROVE FALSE
    BY <1>1 DEF Returns, Call
  <1>2. ASSUME NEW s \in Readers,
               Lock(s) \/ Miss(s) \/ Begin(s) \/ \E a \in Answers : FetchPage(s, a)
        PROVE  FALSE
    BY <1>2 DEF Returns, Lock, Miss, Begin, FetchPage
  <1>3. ASSUME NEW s \in Readers, FetchFails(s) PROVE FALSE
    BY <1>3 DEF Returns, FetchFails, Leave
  <1>4. ASSUME UNCHANGED pc PROVE FALSE
    BY <1>4 DEF Returns
  <1> QED BY <1>1, <1>2, <1>3, <1>4
          DEF Next, Read, InvalidateCache, Tick, Appears, Disappears, Changed, vars, readVars

\* A read returns nothing that ENS showed longer ago than a lifetime and a walk.
THEOREM BoundedStalenessHolds == Spec => BoundedStaleness
  <1>1. ASSUME IInv, [Next]_vars, NEW r \in Readers, Returns(r) PROVE since' < Horizon
    <2> USE DescribeCacheAssumption DEF DescribeCacheAssumption, IInv, Types, Horizon
    <2>1. ASSUME NEW s \in Readers, Hit(s) PROVE since' < Horizon
      BY <1>1, <2>1 DEF Hit, Usable, Fresh, cacheVars
    <2>2. ASSUME NEW s \in Readers, Store(s) PROVE since' < Horizon
      BY <1>1, <2>2 DEF Store
    <2>3. \E s \in Readers : Hit(s) \/ Store(s)
      BY <1>1, ReturnsBy
    <2> QED BY <2>1, <2>2, <2>3
  <1>2. IInv /\ [Next]_vars => [\A r \in Readers : Returns(r) => since' < Horizon]_vars
    BY <1>1
  <1> QED BY <1>2, Invariance, PTL DEF Spec, BoundedStaleness

\* A store never puts an older listing in the place of a later one.
THEOREM NeverOlderHolds == Spec => NeverOlder
  <1>1. ASSUME IInv, NEW r \in Readers, Store(r) PROVE since' <= since
    BY <1>1 DEF IInv, Walks, Store
  <1>2. IInv /\ [Next]_vars => [\A r \in Readers : Store(r) => since' <= since]_vars
    BY <1>1
  <1> QED BY <1>2, Invariance, PTL DEF Spec, NeverOlder

\* A forced read of a region that stands still, whose walk no answer cuts short,
\* returns the owned of it, for any number of pages: it returns by its own Store
\* alone, with what it collected.
THEOREM ForcedIsExactHolds == Spec => ForcedIsExact
  <1>1. ASSUME IInv, [Next]_vars, NEW r \in Readers, Returns(r), force[r], calm[r]
        PROVE  cache' = OwnedOf(region)
    <2>1. ASSUME NEW s \in Readers, Hit(s) PROVE FALSE
      BY <1>1, <2>1 DEF Hit, Usable, Leave, Returns, IInv, Types
    <2>2. ASSUME NEW s \in Readers, Store(s) PROVE cache' = OwnedOf(region)
      <3>1. s = r
        BY <1>1, <2>2 DEF Store, Leave, Returns, IInv, Types
      <3> QED BY <1>1, <2>2, <3>1 DEF Store, IInv, Collected
    <2>3. \E s \in Readers : Hit(s) \/ Store(s)
      BY <1>1, ReturnsBy
    <2> QED BY <2>1, <2>2, <2>3
  <1>2. IInv /\ [Next]_vars
          => [\A r \in Readers : Returns(r) /\ force[r] /\ calm[r] => cache' = OwnedOf(region)]_vars
    BY <1>1
  <1> QED BY <1>2, Invariance, PTL DEF Spec, ForcedIsExact

\* A forced read leaves out nothing that was there when it was called, but what
\* went, what moved up over a page border because one before it went, and what
\* stood behind the end of a walk that ENS's answer cut short.
THEOREM LeftOutExplainedHolds == Spec => LeftOutExplained
  <1>1. ASSUME IInv, [Next]_vars, NEW r \in Readers, Returns(r)
        PROVE  there[r] \subseteq ToSet(cache')
    <2>1. ASSUME NEW s \in Readers, Hit(s) PROVE there[r] = {}
      BY <1>1, <2>1 DEF Hit, Usable, Leave, Returns, IInv, Types, Covered
    <2>2. ASSUME NEW s \in Readers, Store(s) PROVE there[r] \subseteq ToSet(cache')
      <3>1. s = r
        BY <1>1, <2>2 DEF Store, Leave, Returns, IInv, Types
      <3> QED BY <1>1, <2>2, <3>1 DEF Store, IInv, Covered
    <2>3. \E s \in Readers : Hit(s) \/ Store(s)
      BY <1>1, ReturnsBy
    <2> QED BY <2>1, <2>2, <2>3
  <1>2. IInv /\ [Next]_vars
          => [\A r \in Readers : Returns(r) => there[r] \subseteq ToSet(cache')]_vars
    BY <1>1
  <1> QED BY <1>2, Invariance, PTL DEF Spec, LeftOutExplained
=============================================================================
