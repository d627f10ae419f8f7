--------------------------- MODULE RecursionProofs ---------------------------
(***************************************************************************)
(* Proofs about the components whose code recurs over nested data: the     *)
(* workshop menu and its VR patch over form lists, the introspection over  *)
(* the members of an object.  MCParts checks the same properties.          *)
(*                                                                         *)
(* In each the links between the data end, so that the recursive function  *)
(* of the model exists; what it computes is then proved entry by entry or  *)
(* level by level, with a number that a step raises until its bound.       *)
(***************************************************************************)
EXTENDS Workshop, Introspection, Integers, FiniteSetTheorems, SequenceTheorems, FunctionTheorems,
        WellFoundedInduction, TLAPS

-----------------------------------------------------------------------------
(* Numbers and sequences *)

\* A set of numbers that holds 0, and with a number its successor, holds all.
LEMMA Climbs ==
  ASSUME NEW n \in Nat, NEW S, 0 \in S, \A i \in 0..(n - 1) : i \in S => i + 1 \in S
  PROVE  \A i \in 0..n : i \in S
<1> SUFFICES ASSUME (0..n) \ S # {} PROVE FALSE
  OBVIOUS
<1>1. PICK x \in (0..n) \ S : \A y \in (0..n) \ S : ~ (<<y, x>> \in OpToRel(<, Nat))
  <2>1. (0..n) \ S \subseteq Nat
    OBVIOUS
  <2>2. QED
    BY <2>1, NatLessThanWellFounded, WFMin
<1>2. x \in 0..n /\ x \notin S /\ x # 0
  OBVIOUS
<1>3. x - 1 \in 0..(n - 1) /\ x - 1 \in 0..n /\ (x - 1) + 1 = x
  BY <1>2
<1>4. <<x - 1, x>> \in OpToRel(<, Nat)
  BY <1>2, <1>3 DEF OpToRel
<1>5. x - 1 \in S
  BY <1>1, <1>3, <1>4
<1>6. QED
  BY <1>2, <1>3, <1>5

\* A set of numbers that is not empty has a least one.
LEMMA LeastOf ==
  ASSUME NEW S \in SUBSET Nat, S # {}
  PROVE  \E x \in S : \A y \in S : x <= y
<1>1. PICK x \in S : \A y \in S : ~ (<<y, x>> \in OpToRel(<, Nat))
  BY NatLessThanWellFounded, WFMin
<1>2. \A y \in S : ~(y < x)
  BY <1>1 DEF OpToRel
<1>3. QED
  BY <1>2

\* What two sequences hold together.
LEMMA ToSetOfConcat ==
  ASSUME NEW S, NEW s \in Seq(S), NEW t \in Seq(S)
  PROVE  s \o t \in Seq(S) /\ ToSet(s \o t) = ToSet(s) \cup ToSet(t)
<1>1. /\ s \o t \in Seq(S) /\ Len(s) \in Nat /\ Len(t) \in Nat /\ Len(s \o t) = Len(s) + Len(t)
      /\ DOMAIN s = 1..Len(s) /\ DOMAIN t = 1..Len(t) /\ DOMAIN (s \o t) = 1..(Len(s) + Len(t))
      /\ \A i \in 1..(Len(s) + Len(t)) : (s \o t)[i] = IF i <= Len(s) THEN s[i] ELSE t[i - Len(s)]
  OBVIOUS
<1> DEFINE u == s \o t
           k == Len(s)
           l == Len(t)
<1> HIDE DEF u, k, l
<1>2. \A a \in ToSet(u) : a \in ToSet(s) \cup ToSet(t)
  <2> SUFFICES ASSUME NEW i \in 1..(k + l) PROVE u[i] \in ToSet(s) \cup ToSet(t)
    BY <1>1 DEF ToSet, u, k, l
  <2>1. (i <= k => i \in 1..k) /\ (~(i <= k) => i - k \in 1..l)
    BY <1>1 DEF k, l
  <2>2. QED
    BY <1>1, <2>1 DEF ToSet, u, k, l
<1>3. \A a \in ToSet(s) : a \in ToSet(u)
  <2>1. \A i \in 1..k : i \in 1..(k + l) /\ i <= k
    BY <1>1 DEF k, l
  <2>2. QED
    BY <1>1, <2>1 DEF ToSet, u, k, l
<1>4. \A a \in ToSet(t) : a \in ToSet(u)
  <2>1. \A i \in 1..l : i + k \in 1..(k + l) /\ ~(i + k <= k) /\ (i + k) - k = i
    BY <1>1 DEF k, l
  <2>2. QED
    BY <1>1, <2>1 DEF ToSet, u, k, l
<1>5. QED
  BY <1>1, <1>2, <1>3, <1>4 DEF u

\* FlattenSeq loses nothing and adds nothing.
LEMMA FlattensTo ==
  ASSUME NEW S, NEW n \in Nat, NEW ss, DOMAIN ss = 1..n, \A i \in 1..n : ss[i] \in Seq(S)
  PROVE  /\ FlattenSeq(ss) \in Seq(S)
         /\ ToSet(FlattenSeq(ss)) = UNION {ToSet(ss[i]) : i \in 1..n}
<1> DEFINE Follows(f, m) == DOMAIN f = 1..m /\ \A i \in 1..m : f[i] = IF i = 1 THEN ss[i] ELSE f[i - 1] \o ss[i]
           Solves(f) == f = [i \in 1..n |-> IF i = 1 THEN ss[i] ELSE f[i - 1] \o ss[i]]
<1>1. Len(ss) = n
  OBVIOUS
<1>2. CASE n = 0
  <2>1. FlattenSeq(ss) = ss
    BY <1>1, <1>2 DEF FlattenSeq
  <2>2. ss \in Seq(S)
    <3>1. ss \in [1..n -> S]
      <4>1. DOMAIN ss = {} /\ 1..n = {}
        BY <1>2
      <4>2. ss = [i \in 1..n |-> ss[i]]
        BY <1>1, <1>2, <2>1
      <4>3. QED
        BY <4>1, <4>2
    <3>2. QED
      BY <3>1
  <2>3. ToSet(ss) = {} /\ UNION {ToSet(ss[i]) : i \in 1..n} = {}
    BY <1>2 DEF ToSet
  <2>4. QED
    BY <2>1, <2>2, <2>3
<1>3. CASE n # 0
  <2> DEFINE f == CHOOSE g : Solves(g)
  <2>1. FlattenSeq(ss) = f[n]
    BY <1>1, <1>3 DEF FlattenSeq
  <2>2. \E g : Solves(g)
    <3> DEFINE T == {m \in 0..n : \E g : Follows(g, m)}
    <3>1. 0 \in T
      <4>1. Follows([i \in 1..0 |-> ss[i]], 0)
        OBVIOUS
      <4>2. QED
        BY <4>1
    <3>2. ASSUME NEW m \in 0..(n - 1), m \in T PROVE m + 1 \in T
      <4>1. PICK g : Follows(g, m)
        BY <3>2
      <4> DEFINE h == [i \in 1..(m + 1) |-> IF i <= m THEN g[i] ELSE IF m = 0 THEN ss[i] ELSE g[m] \o ss[i]]
      <4>2. ASSUME NEW i \in 1..(m + 1) PROVE h[i] = IF i = 1 THEN ss[i] ELSE h[i - 1] \o ss[i]
        <5>1. CASE i <= m
          <6>1. i \in 1..m /\ (i # 1 => i - 1 \in 1..m /\ i - 1 \in 1..(m + 1) /\ i - 1 <= m)
            BY <5>1
          <6>2. h[i] = g[i] /\ (i # 1 => h[i - 1] = g[i - 1])
            BY <5>1, <6>1
          <6>3. QED
            BY <4>1, <6>1, <6>2
        <5>2. CASE ~(i <= m)
          <6>1. i = m + 1 /\ (m # 0 => m \in 1..(m + 1) /\ m <= m /\ i - 1 = m /\ i # 1) /\ (m = 0 => i = 1)
            BY <5>2
          <6>2. QED
            BY <5>2, <6>1
        <5>3. QED
          BY <5>1, <5>2
      <4>3. Follows(h, m + 1)
        <5>1. DOMAIN h = 1..(m + 1)
          OBVIOUS
        <5> HIDE DEF h
        <5>2. QED
          BY <4>2, <5>1
      <4>4. m + 1 \in 0..n
        OBVIOUS
      <4> HIDE DEF Follows, h
      <4>5. QED
        BY <4>3, <4>4
    <3> HIDE DEF T
    <3>3. n \in T
      <4>1. \A m \in 0..n : m \in T
        BY <3>1, <3>2, Climbs
      <4>2. QED
        BY <4>1
    <3>4. PICK g : Follows(g, n)
      BY <3>3 DEF T
    <3> DEFINE h == [i \in 1..n |-> g[i]]
    <3>5. Solves(h)
      <4>1. \A i \in 1..n : i # 1 => i - 1 \in 1..n
        OBVIOUS
      <4>2. \A i \in 1..n : h[i] = IF i = 1 THEN ss[i] ELSE h[i - 1] \o ss[i]
        BY <3>4, <4>1
      <4> DEFINE w == [i \in 1..n |-> IF i = 1 THEN ss[i] ELSE h[i - 1] \o ss[i]]
      <4>3. h = w
        BY <4>2
      <4>4. QED
        BY <4>3
    <3> HIDE DEF Solves, h
    <3>6. QED
      BY <3>5
  <2>3. Solves(f)
    <3> HIDE DEF Solves
    <3>1. QED
      BY <2>2
  <2> HIDE DEF f
  <2>4. \A i \in 1..n : f[i] = IF i = 1 THEN ss[i] ELSE f[i - 1] \o ss[i]
    BY <2>3
  <2> DEFINE Right(m) == f[m] \in Seq(S) /\ ToSet(f[m]) = UNION {ToSet(ss[i]) : i \in 1..m}
             T == {m \in 0..n : m = 0 \/ Right(m)}
  <2>5. ASSUME NEW m \in 0..(n - 1), m = 0 \/ Right(m) PROVE Right(m + 1)
    <3>1. m + 1 \in 1..n
      OBVIOUS
    <3>2. CASE m = 0
      <4>1. f[1] = ss[1] /\ 1 \in 1..n /\ m + 1 = 1
        BY <2>4, <3>1, <3>2
      <4>2. UNION {ToSet(ss[i]) : i \in 1..1} = ToSet(ss[1])
        OBVIOUS
      <4>3. QED
        BY <4>1, <4>2
    <3>3. CASE m # 0
      <4>1. f[m + 1] = f[m] \o ss[m + 1]
        <5>1. m + 1 # 1 /\ (m + 1) - 1 = m
          BY <3>3
        <5>2. QED
          BY <2>4, <3>1, <5>1
      <4>2. f[m] \in Seq(S) /\ ToSet(f[m]) = UNION {ToSet(ss[i]) : i \in 1..m}
        BY <2>5, <3>3
      <4>3. \A i : i \in 1..(m + 1) <=> i \in 1..m \/ i = m + 1
        OBVIOUS
      <4>4. ToSet(f[m + 1]) = ToSet(f[m]) \cup ToSet(ss[m + 1]) /\ f[m + 1] \in Seq(S)
        <5>1. ss[m + 1] \in Seq(S)
          BY <3>1
        <5> HIDE DEF Right, T
        <5>2. QED
          BY <4>1, <4>2, <5>1, ToSetOfConcat
      <4>5. ASSUME NEW a
            PROVE  a \in ToSet(f[m + 1]) <=> a \in UNION {ToSet(ss[i]) : i \in 1..(m + 1)}
        BY <4>2, <4>3, <4>4
      <4>6. QED
        BY <4>4, <4>5
    <3>4. QED
      BY <3>2, <3>3
  <2>6. n \in T
    <3> HIDE DEF Right
    <3>1. 0 \in T /\ \A m \in 0..(n - 1) : m \in T => m + 1 \in T
      BY <2>5
    <3> HIDE DEF T
    <3>2. \A m \in 0..n : m \in T
      BY <3>1, Climbs
    <3>3. QED
      BY <3>2
  <2>7. QED
    BY <1>3, <2>1, <2>6
<1>4. QED
  BY <1>2, <1>3

-----------------------------------------------------------------------------
(* The search for children *)

\* The lists with a keyword of their own that has a recipe to show.
FwOwn(map, ctx) ==
    {l \in FormLists :
       \E k \in (ToSet(wsLists[l]) \cap Keywords) \ {ctx} :
         k \in DOMAIN map /\ \E r \in map[k] : WorkshopCanShowRecipe(r, k, stored)}

\* One level of the search, above those in which it finds some lists.
FwStep(own, below) == own \cup {l \in FormLists : SubListsOf(l) \cap below # {}}

FwData ==
    /\ wsLists \in [FormLists -> Seq(Keywords \cup SubLists \cup {NoForm})]
    /\ IsFiniteSet(FormLists) /\ Cardinality(FormLists) \in Nat
    /\ kMaxFormListDepth \in Nat
    /\ SubLists \subseteq FormLists

\* The typed lists are finitely many.
LEMMA FwDataIs ==
  ASSUME wsLists \in [FormLists -> Seq(Keywords \cup SubLists \cup {NoForm})]
  PROVE  FwData
<1>1. IsFiniteSet(FormLists)
  BY WorkshopAssumption, FS_AddElement DEF FormLists
<1>2. QED
  BY <1>1, WorkshopAssumption, FS_CardinalityType DEF FwData, FormLists

\* A function that the search's equations define.
FwSearch(f, own) ==
    /\ f[0] = {}
    /\ \A n \in 0..(kMaxFormListDepth - 1) : f[n + 1] = FwStep(own, f[n])

\* The lists from which a path of at most n lists ends at one of own.
FwPaths(own, n) ==
    {l \in FormLists :
       \E k \in 1..n : \E p \in [1..k -> FormLists] :
         /\ p[1] = l /\ p[k] \in own
         /\ \A i \in 1..(k - 1) : p[i + 1] \in SubListsOf(p[i])}

LEMMA FwPathsGrow ==
  ASSUME FwData, NEW own \in SUBSET FormLists, NEW n \in Nat
  PROVE  FwPaths(own, n + 1) = FwStep(own, FwPaths(own, n))
<1> DEFINE P(k, l, p) == /\ p[1] = l /\ p[k] \in own
                         /\ \A i \in 1..(k - 1) : p[i + 1] \in SubListsOf(p[i])
<1>1. ASSUME NEW l \in FwPaths(own, n + 1) PROVE l \in FwStep(own, FwPaths(own, n))
  <2>1. PICK k \in 1..(n + 1) : \E p \in [1..k -> FormLists] : P(k, l, p)
    BY <1>1 DEF FwPaths
  <2>2. PICK p \in [1..k -> FormLists] : P(k, l, p)
    BY <2>1
  <2>3. CASE k = 1
    BY <2>2, <2>3 DEF FwStep
  <2>4. CASE k # 1
    <3> DEFINE q == [i \in 1..(k - 1) |-> p[i + 1]]
    <3>1. k - 1 \in 1..n /\ 1 \in 1..(k - 1) /\ k - 1 \in 1..(k - 1) /\ (k - 1) + 1 = k
          /\ 2 \in 1..k
      BY <2>1, <2>4
    <3>2. \A i \in 1..(k - 1) : i + 1 \in 1..k
      BY <2>1
    <3>3. q \in [1..(k - 1) -> FormLists] /\ q[1] = p[2] /\ q[k - 1] = p[k]
      BY <2>2, <3>1, <3>2
    <3>4. ASSUME NEW i \in 1..((k - 1) - 1) PROVE q[i + 1] \in SubListsOf(q[i])
      <4>1. i \in 1..(k - 1) /\ i + 1 \in 1..(k - 1)
        BY <2>1
      <4>2. q[i] = p[i + 1] /\ q[i + 1] = p[(i + 1) + 1]
        BY <4>1
      <4>3. QED
        BY <2>2, <4>1, <4>2
    <3>5. p[2] \in FwPaths(own, n)
      <4>1. p[2] \in FormLists
        BY <2>2, <3>1
      <4> HIDE DEF q
      <4>2. QED
        BY <2>2, <3>1, <3>3, <3>4, <4>1 DEF FwPaths
    <3>6. p[2] \in SubListsOf(l)
      BY <2>2, <3>1
    <3>7. l \in FormLists
      BY <1>1 DEF FwPaths
    <3>8. QED
      BY <3>5, <3>6, <3>7 DEF FwStep
  <2>5. QED
    BY <2>3, <2>4
<1>2. ASSUME NEW l \in own PROVE l \in FwPaths(own, n + 1)
  <2>1. [i \in 1..1 |-> l] \in [1..1 -> FormLists] /\ P(1, l, [i \in 1..1 |-> l]) /\ 1 \in 1..(n + 1)
    BY <1>2
  <2>2. QED
    BY <2>1 DEF FwPaths
<1>3. ASSUME NEW l \in FormLists, NEW m \in SubListsOf(l) \cap FwPaths(own, n)
      PROVE  l \in FwPaths(own, n + 1)
  <2>1. PICK k \in 1..n : \E p \in [1..k -> FormLists] : P(k, m, p)
    BY <1>3 DEF FwPaths
  <2>2. PICK p \in [1..k -> FormLists] : P(k, m, p)
    BY <2>1
  <2> DEFINE q == [i \in 1..(k + 1) |-> IF i = 1 THEN l ELSE p[i - 1]]
  <2>3. k + 1 \in 1..(n + 1) /\ k \in Nat /\ k >= 1 /\ (k + 1) - 1 = k /\ k + 1 # 1
        /\ 1 \in 1..(k + 1) /\ k + 1 \in 1..(k + 1)
    BY <2>1
  <2>4. \A i \in 1..(k + 1) : i # 1 => i - 1 \in 1..k
    BY <2>3
  <2>5. q \in [1..(k + 1) -> FormLists] /\ q[1] = l /\ q[k + 1] = p[k]
    BY <2>2, <2>3, <2>4
  <2>6. ASSUME NEW i \in 1..k PROVE q[i + 1] \in SubListsOf(q[i])
    <3>1. i + 1 \in 1..(k + 1) /\ i + 1 # 1 /\ (i + 1) - 1 = i /\ i \in 1..(k + 1)
      BY <2>3
    <3>2. q[i + 1] = p[i]
      BY <3>1
    <3>3. CASE i = 1
      BY <1>3, <2>2, <2>5, <3>2, <3>3
    <3>4. CASE i # 1
      <4>1. i - 1 \in 1..(k - 1) /\ (i - 1) + 1 = i
        BY <2>3, <3>4
      <4>2. q[i] = p[i - 1]
        BY <3>1, <3>4
      <4>3. QED
        BY <2>2, <3>2, <4>1, <4>2
    <3>5. QED
      BY <3>3, <3>4
  <2> HIDE DEF q
  <2>7. QED
    BY <2>2, <2>3, <2>5, <2>6 DEF FwPaths
<1>4. QED
  BY <1>1, <1>2, <1>3 DEF FwStep

\* The function of the code's recursion exists, and satisfies its equations.
LEMMA FwSearchIs ==
  ASSUME FwData, NEW map, NEW ctx
  PROVE  FwSearch(CheckForValidChildrenImpl(map, ctx), FwOwn(map, ctx))
<1> DEFINE D == 0..kMaxFormListDepth
           own == FwOwn(map, ctx)
           In(below) ==
             {list \in FormLists :
                \E i \in DOMAIN wsLists[list] :
                  LET form == wsLists[list][i]
                  IN  \/ form \in SubLists /\ form \in below
                      \/ /\ form \in Keywords /\ form # ctx /\ form \in DOMAIN map
                         /\ \E r \in map[form] : WorkshopCanShowRecipe(r, form, stored)}
           Solves(f) == f = [n \in D |-> IF n = 0 THEN {} ELSE In(f[n - 1])]
           g == [n \in D |-> FwPaths(own, n)]
<1>1. \A below : In(below) = FwStep(own, below)
  <2> SUFFICES ASSUME NEW below PROVE In(below) = FwStep(own, below)
    OBVIOUS
  <2>1. \A l \in FormLists : l \in In(below) <=> l \in FwStep(own, below)
    BY DEF FwStep, FwOwn, SubListsOf, ToSet
  <2>2. own \subseteq FormLists
    BY DEF FwOwn
  <2>3. QED
    BY <2>1, <2>2 DEF FwStep
<1>2. own \in SUBSET FormLists
  BY DEF FwOwn
<1>3. CheckForValidChildrenImpl(map, ctx) = CHOOSE f : Solves(f)
  BY DEF CheckForValidChildrenImpl
<1> HIDE DEF In, own
<1>4. Solves(g)
  <2>1. FwPaths(own, 0) = {}
    BY DEF FwPaths
  <2>2. ASSUME NEW n \in D, n # 0 PROVE g[n] = In(g[n - 1])
    <3>1. n - 1 \in D /\ n - 1 \in Nat /\ (n - 1) + 1 = n
      BY <2>2 DEF FwData
    <3>2. FwPaths(own, n) = FwStep(own, FwPaths(own, n - 1))
      BY <1>2, <3>1, FwPathsGrow
    <3>3. QED
      BY <1>1, <3>1, <3>2
  <2>3. \A n \in D : g[n] = IF n = 0 THEN {} ELSE In(g[n - 1])
    BY <2>1, <2>2
  <2> DEFINE h == [n \in D |-> IF n = 0 THEN {} ELSE In(g[n - 1])]
  <2>4. g = h
    BY <2>3
  <2>5. QED
    BY <2>4
<1> HIDE DEF g
<1> DEFINE f == CheckForValidChildrenImpl(map, ctx)
<1>5. Solves(f)
  <2> HIDE DEF Solves
  <2>1. QED
    BY <1>3, <1>4
<1> HIDE DEF f
<1>6. \A n \in D : f[n] = IF n = 0 THEN {} ELSE In(f[n - 1])
  BY <1>5
<1>7. ASSUME NEW n \in 0..(kMaxFormListDepth - 1) PROVE f[n + 1] = FwStep(own, f[n])
  <2>1. n + 1 \in D /\ n + 1 # 0 /\ (n + 1) - 1 = n
    BY DEF FwData
  <2>2. QED
    BY <1>1, <1>6, <2>1
<1>8. f[0] = {}
  <2>1. 0 \in D
    BY DEF FwData
  <2>2. QED
    BY <1>6, <2>1
<1>9. QED
  BY <1>7, <1>8 DEF FwSearch, f, own

\* So a level finds the lists from which a path of as many lists ends at one of own.
LEMMA FwFindsPaths ==
  ASSUME FwData, NEW own \in SUBSET FormLists, NEW f, FwSearch(f, own)
  PROVE  f[kMaxFormListDepth] = FwPaths(own, kMaxFormListDepth)
<1> DEFINE N == kMaxFormListDepth
           S == {n \in 0..N : f[n] = FwPaths(own, n)}
<1>1. N \in Nat
  BY DEF FwData
<1>2. 0 \in S
  <2>1. FwPaths(own, 0) = {}
    BY DEF FwPaths
  <2>2. QED
    BY <1>1, <2>1 DEF FwSearch
<1>3. ASSUME NEW n \in 0..(N - 1), n \in S PROVE n + 1 \in S
  <2>1. n \in Nat /\ n + 1 \in 0..N
    BY <1>1
  <2>2. f[n + 1] = FwStep(own, f[n]) /\ f[n] = FwPaths(own, n)
    BY <1>3 DEF FwSearch
  <2>3. FwPaths(own, n + 1) = FwStep(own, FwPaths(own, n))
    BY <2>1, FwPathsGrow
  <2>4. QED
    BY <2>1, <2>2, <2>3
<1>4. QED
  <2> HIDE DEF S
  <2>1. \A i \in 0..N : i \in S
    BY <1>1, <1>2, <1>3, Climbs
  <2> USE DEF S
  <2>2. QED
    BY <1>1, <2>1

\* The end of a path is within reach.
LEMMA FwWithinReach ==
  ASSUME NEW list \in FormLists, NEW n \in Nat
  PROVE  Within(list, n) \subseteq Reachable({list})
<1> SUFFICES ASSUME NEW l \in Within(list, n),
                    NEW closed \in SUBSET FormLists, {list} \subseteq closed,
                    \A m \in closed : SubListsOf(m) \subseteq closed
             PROVE  l \in closed
  BY DEF Within, Reachable
<1>1. PICK k \in 1..n : \E p \in [1..k -> FormLists] :
         /\ p[1] = list /\ p[k] = l
         /\ \A i \in 1..(k - 1) : p[i + 1] \in SubListsOf(p[i])
  BY DEF Within
<1>2. PICK p \in [1..k -> FormLists] :
         /\ p[1] = list /\ p[k] = l
         /\ \A i \in 1..(k - 1) : p[i + 1] \in SubListsOf(p[i])
  BY <1>1
<1> DEFINE S == {i \in 0..(k - 1) : p[i + 1] \in closed}
<1>3. k - 1 \in Nat /\ 0 \in S
  BY <1>1, <1>2
<1>4. ASSUME NEW i \in 0..((k - 1) - 1), i \in S PROVE i + 1 \in S
  <2>1. i + 1 \in 1..(k - 1) /\ i + 1 \in 0..(k - 1) /\ p[i + 1] \in closed
    BY <1>1, <1>4
  <2>2. p[(i + 1) + 1] \in SubListsOf(p[i + 1])
    BY <1>2, <2>1
  <2>3. QED
    BY <2>1, <2>2
<1>5. k - 1 \in S
  <2> HIDE DEF S
  <2>1. \A i \in 0..(k - 1) : i \in S
    BY <1>3, <1>4, Climbs
  <2>2. QED
    BY <1>3, <2>1
<1>6. QED
  BY <1>1, <1>2, <1>5

FwMap ==
    [k \in UNION {MapFilters(r) : r \in DOMAIN wsRecipes} |->
       {r \in DOMAIN wsRecipes : k \in MapFilters(r)}]

FwIInv ==
    /\ FwTypeOK /\ wsRecipes \in RecipeSets \cup {<<>>}
    /\ cobjMap = <<>> \/ cobjMap = FwMap
    /\ ChildrenSearchAgrees

\* Under a keyword the map has the recipes that name it.
LEMMA FwMapIs ==
  ASSUME FwIInv
  PROVE  /\ TryBuildMap = FwMap
         /\ \A k \in DOMAIN FwMap : FwMap[k] = Naming(k)
         /\ \A k : k \notin DOMAIN FwMap => Naming(k) = {}
<1>1. TryBuildMap = FwMap
  BY DEF FwIInv, TryBuildMap, FwMap
<1>2. ASSUME NEW k, NEW r \in DOMAIN wsRecipes PROVE k \in MapFilters(r) <=> r \in Naming(k)
  <2>1. wsRecipes[r].filters \in Seq(Keywords \cup {NoForm, AlwaysShowIcon}) /\ kMaxFilters \in Nat
    <3>1. wsRecipes \in RecipeSets
      BY DEF FwIInv
    <3>2. QED
      BY <3>1, WorkshopAssumption
  <2> DEFINE s == wsRecipes[r].filters
  <2> HIDE DEF s
  <2>2. s \in Seq(Keywords \cup {NoForm, AlwaysShowIcon}) /\ Len(s) \in Nat /\ DOMAIN s = 1..Len(s)
    BY <2>1 DEF s
  <2>3. Len(s) > kMaxFilters => Head(s) \in ToSet(s)
    <3>1. Len(s) > kMaxFilters => Len(s) >= 1 /\ 1 \in DOMAIN s /\ Head(s) = s[1]
      BY <2>1, <2>2
    <3>2. QED
      BY <3>1 DEF ToSet
  <2>4. QED
    BY <2>3 DEF MapFilters, Naming, Filters, s
<1>3. DOMAIN FwMap = UNION {MapFilters(r) : r \in DOMAIN wsRecipes}
      /\ \A k \in DOMAIN FwMap : FwMap[k] = {r \in DOMAIN wsRecipes : k \in MapFilters(r)}
  BY DEF FwMap
<1>4. \A k : Naming(k) \subseteq DOMAIN wsRecipes
  BY DEF Naming
<1>5. QED
  BY <1>1, <1>2, <1>3, <1>4

LEMMA FwInitIInv == FwInit => FwIInv
<1> SUFFICES ASSUME FwInit PROVE FwIInv
  OBVIOUS
<1>1. wsLists \in [FormLists -> Seq(Keywords \cup SubLists \cup {NoForm})]
  BY WorkshopAssumption DEF FwInit
<1>2. DOMAIN cobjMap = {}
  BY DEF FwInit
<1>3. answer = NoAnswer /\ answer.about = "nothing"
  BY DEF FwInit, NoAnswer
<1>4. FwTypeOK
  BY <1>1, <1>2, <1>3 DEF FwInit, FwTypeOK
<1>5. QED
  BY <1>3, <1>4 DEF FwInit, FwIInv, ChildrenSearchAgrees

\* What the patch answers when it looks for children.
LEMMA FwSearchAnswers ==
  ASSUME FwIInv, NEW ctx \in Keywords, NEW list \in FormLists
  PROVE  list \in CheckForValidChildrenImpl(FwMap, ctx)[kMaxFormListDepth] <=>
           \E l \in Within(list, kMaxFormListDepth) : HasChild(l, ctx)
<1> DEFINE own == FwOwn(FwMap, ctx)
<1>1. FwData
  BY FwDataIs DEF FwIInv, FwTypeOK
<1>2. own \in SUBSET FormLists
  BY DEF FwOwn
<1>3. \A l \in FormLists : l \in own <=> HasChild(l, ctx)
  <2>1. \A k \in Keywords : \A r : (k \in DOMAIN FwMap /\ r \in FwMap[k]) <=> r \in Naming(k)
    BY FwMapIs
  <2>2. QED
    BY <2>1 DEF FwOwn, HasChild
<1>4. list \in CheckForValidChildrenImpl(FwMap, ctx)[kMaxFormListDepth] <=> list \in FwPaths(own, kMaxFormListDepth)
  BY <1>1, <1>2, FwSearchIs, FwFindsPaths
<1> HIDE DEF own
<1>5. list \in FwPaths(own, kMaxFormListDepth) <=> \E l \in Within(list, kMaxFormListDepth) : l \in own
  <2> DEFINE N == kMaxFormListDepth
             Links(k, p) == \A i \in 1..(k - 1) : p[i + 1] \in SubListsOf(p[i])
  <2>1. list \in FwPaths(own, N) <=>
          \E k \in 1..N : \E p \in [1..k -> FormLists] : p[1] = list /\ p[k] \in own /\ Links(k, p)
    BY DEF FwPaths
  <2>2. \A l : l \in Within(list, N) <=>
          l \in FormLists /\ \E k \in 1..N : \E p \in [1..k -> FormLists] : p[1] = list /\ p[k] = l /\ Links(k, p)
    BY DEF Within
  <2> HIDE DEF Links
  <2>3. QED
    BY <1>2, <2>1, <2>2
<1>6. \A l \in Within(list, kMaxFormListDepth) : l \in FormLists
  BY DEF Within
<1>7. QED
  BY <1>3, <1>4, <1>5, <1>6

LEMMA FwStepIInv == FwIInv /\ [FwNext]_fwVars => FwIInv'
<1> SUFFICES ASSUME FwIInv, [FwNext]_fwVars PROVE FwIInv'
  OBVIOUS
<1>1. CASE ClearMap
  <2>1. /\ wsLists' = wsLists /\ stored' = {} /\ cobjMap' = <<>> /\ DOMAIN cobjMap' = {}
        /\ answer' = NoAnswer /\ answer'.about = "nothing" /\ wsRecipes' \in RecipeSets
    BY <1>1 DEF ClearMap, NoAnswer
  <2>2. QED
    BY <2>1 DEF FwIInv, FwTypeOK, ChildrenSearchAgrees
<1>2. CASE StoreItems
  <2>1. /\ UNCHANGED <<wsLists, wsRecipes, cobjMap>> /\ stored' \subseteq DOMAIN wsRecipes
        /\ answer' = NoAnswer /\ answer'.about = "nothing"
    BY <1>2 DEF StoreItems, NoAnswer
  <2>2. FwMap' = FwMap
    BY <2>1 DEF FwMap, MapFilters, Filters
  <2>3. QED
    BY <2>1, <2>2 DEF FwIInv, FwTypeOK, ChildrenSearchAgrees
<1>3. ASSUME NEW ctx \in Keywords, NEW list \in FormLists, CachedCheckForValidChildren(ctx, list)
      PROVE  FwIInv'
  <2>1. /\ UNCHANGED <<wsLists, wsRecipes, stored>> /\ cobjMap' = FwMap
        /\ answer' = [about |-> "children", ctx |-> ctx, list |-> list,
                      found |-> list \in CheckForValidChildrenImpl(FwMap, ctx)[kMaxFormListDepth]]
    BY <1>3, FwMapIs DEF CachedCheckForValidChildren
  <2>2. FwMap' = FwMap
    BY <2>1 DEF FwMap, MapFilters, Filters
  <2>3. FwTypeOK'
    <3>1. \A k \in DOMAIN FwMap : FwMap[k] \subseteq DOMAIN wsRecipes
      BY DEF FwMap
    <3>2. answer' \in [about : {"children"}, ctx : Keywords, list : FormLists, found : BOOLEAN]
      BY <2>1
    <3>3. QED
      BY <2>1, <3>1, <3>2 DEF FwIInv, FwTypeOK
  <2>4. ChildrenSearchAgrees'
    <3> DEFINE b == list \in CheckForValidChildrenImpl(FwMap, ctx)[kMaxFormListDepth]
               near == Within(list, kMaxFormListDepth)
               far == Reachable({list})
    <3>1. b <=> \E l \in near : HasChild(l, ctx)
      BY FwSearchAnswers
    <3>2. near \subseteq far
      BY FwWithinReach, WorkshopAssumption
    <3>3. answer' = [about |-> "children", ctx |-> ctx, list |-> list, found |-> b]
      BY <2>1
    <3> HIDE DEF b
    <3>4. answer'.about = "children" /\ answer'.ctx = ctx /\ answer'.list = list /\ answer'.found = b
      BY <3>3
    <3>5. near' = near /\ far' = far
      BY <2>1 DEF Within, Reachable, SubListsOf
    <3>6. \A l : HasChild(l, ctx)' <=> HasChild(l, ctx)
      BY <2>1 DEF HasChild, Naming, WorkshopCanShowRecipe, Filters
    <3> HIDE DEF near, far
    <3>7. /\ b <=> \E l \in near' : HasChild(l, ctx)'
          /\ far' \subseteq near' => (b <=> \E l \in far' : HasChild(l, ctx)')
      BY <3>1, <3>2, <3>5, <3>6
    <3>8. QED
      BY <3>4, <3>7 DEF ChildrenSearchAgrees, near, far
  <2>5. QED
    BY <2>1, <2>2, <2>3, <2>4 DEF FwIInv
<1>4. ASSUME NEW keyword \in Keywords, HandlerLeafNode(keyword) PROVE FwIInv'
  <2>1. /\ UNCHANGED <<wsLists, wsRecipes, stored>> /\ cobjMap' = FwMap
        /\ answer' = [about |-> "leaves", keyword |-> keyword, recipes |-> Naming(keyword)]
    BY <1>4, FwMapIs DEF HandlerLeafNode
  <2>2. FwMap' = FwMap
    BY <2>1 DEF FwMap, MapFilters, Filters
  <2>3. FwTypeOK'
    <3>1. \A k \in DOMAIN FwMap : FwMap[k] \subseteq DOMAIN wsRecipes
      BY DEF FwMap
    <3>2. answer' \in [about : {"leaves"}, keyword : Keywords, recipes : SUBSET DOMAIN wsRecipes]
      BY <2>1 DEF Naming
    <3>3. QED
      BY <2>1, <3>1, <3>2 DEF FwIInv, FwTypeOK
  <2>4. ChildrenSearchAgrees'
    <3>1. Naming(keyword)' = Naming(keyword)
      BY <2>1 DEF Naming, Filters
    <3>2. answer'.about = "leaves" /\ answer'.keyword = keyword /\ answer'.recipes = Naming(keyword)
      BY <2>1
    <3>3. QED
      BY <3>1, <3>2 DEF ChildrenSearchAgrees
  <2>5. QED
    BY <2>1, <2>2, <2>3, <2>4 DEF FwIInv
<1>5. CASE UNCHANGED fwVars
  <2>1. UNCHANGED <<wsLists, wsRecipes, stored, cobjMap, answer>>
    BY <1>5 DEF fwVars
  <2>2. FwTypeOK' /\ FwMap' = FwMap
    BY <2>1 DEF FwIInv, FwTypeOK, FwMap, MapFilters, Filters
  <2>3. \A x : Reachable(x)' = Reachable(x)
    BY <2>1 DEF Reachable, SubListsOf
  <2>4. \A x, n : Within(x, n)' = Within(x, n)
    BY <2>1 DEF Within, SubListsOf
  <2>5. \A l, k : (HasChild(l, k)' <=> HasChild(l, k)) /\ Naming(k)' = Naming(k)
    BY <2>1 DEF HasChild, Naming, WorkshopCanShowRecipe, Filters
  <2>6. ChildrenSearchAgrees'
    BY <2>1, <2>3, <2>4, <2>5 DEF FwIInv, ChildrenSearchAgrees
  <2>7. QED
    BY <2>1, <2>2, <2>6 DEF FwIInv
<1>6. QED
  BY <1>1, <1>2, <1>3, <1>4, <1>5 DEF FwNext

LEMMA FwInductive == FwSpec => []FwIInv
BY FwInitIInv, FwStepIInv, PTL DEF FwSpec

\* The map, the answers and what the workshop has stored keep their types
\* (FasterWorkshopPatch).
THEOREM FwTypeCorrect == FwSpec => []FwTypeOK
<1>1. FwIInv => FwTypeOK
  BY DEF FwIInv
<1>2. QED
  BY <1>1, FwInductive, PTL

(***************************************************************************)
(* Whatever the lists hold, themselves included, and whatever the cap, the *)
(* search finds a child exactly if a path of at most that many lists leads *)
(* to one; where no list is further away, exactly if any path does.  The   *)
(* map has every recipe under each keyword that it names, one with too many*)
(* filters under the first (CheckForValidChildrenImpl, TryBuildMap).       *)
(***************************************************************************)
THEOREM ChildrenSearchAgreesHolds == FwSpec => []ChildrenSearchAgrees
<1>1. FwIInv => ChildrenSearchAgrees
  BY DEF FwIInv
<1>2. QED
  BY <1>1, FwInductive, PTL

-----------------------------------------------------------------------------
(* The workshop menu: what the library's algorithms do *)

\* A strict total order arranges a finite set.
LEMMA ArrangedIs ==
  ASSUME NEW S, IsFiniteSet(S), NEW before,
         \A x \in S : before[x] \in SUBSET S /\ x \notin before[x],
         \A x, y \in S : x # y => x \in before[y] \/ y \in before[x],
         \A x, y \in S : x \in before[y] => before[x] \subseteq before[y]
  PROVE  /\ Cardinality(S) \in Nat
         /\ Arranged(S, before) \in [1..Cardinality(S) -> S]
         /\ \A i, j \in 1..Cardinality(S) : i < j => Arranged(S, before)[i] \in before[Arranged(S, before)[j]]
         /\ \A x \in S : \E i \in 1..Cardinality(S) : Arranged(S, before)[i] = x
<1> DEFINE n == Cardinality(S)
           rank(x) == Cardinality(before[x])
           f == [x \in S |-> rank(x) + 1]
           at == Arranged(S, before)
<1>1. n \in Nat /\ \A x \in S : IsFiniteSet(before[x]) /\ rank(x) \in Nat
  BY FS_CardinalityType, FS_Subset
<1>2. \A x \in S : rank(x) < n
  <2> SUFFICES ASSUME NEW x \in S PROVE rank(x) < n
    OBVIOUS
  <2>1. before[x] \in SUBSET S /\ before[x] # S
    OBVIOUS
  <2>2. Cardinality(before[x]) <= Cardinality(S) /\ Cardinality(before[x]) # Cardinality(S)
    BY <2>1, FS_Subset
  <2>3. QED
    BY <1>1, <2>2
<1>3. \A x, y \in S : x \in before[y] => rank(x) < rank(y)
  <2> SUFFICES ASSUME NEW x \in S, NEW y \in S, x \in before[y] PROVE rank(x) < rank(y)
    OBVIOUS
  <2>1. before[x] \in SUBSET before[y] /\ before[x] # before[y]
    OBVIOUS
  <2>2. IsFiniteSet(before[y])
    BY <1>1
  <2>3. Cardinality(before[x]) <= Cardinality(before[y]) /\ Cardinality(before[x]) # Cardinality(before[y])
    BY <2>1, <2>2, FS_Subset
  <2>4. QED
    BY <1>1, <2>3
<1> HIDE DEF rank, n
<1>4. \A x, y \in S : rank(x) = rank(y) => x = y
  BY <1>1, <1>3
<1>5. f \in Surjection(S, 1..n)
  <2>1. f \in [S -> 1..n]
    BY <1>1, <1>2
  <2>2. \A x, y \in S : f[x] = f[y] => x = y
    BY <1>1, <1>4
  <2> HIDE DEF f
  <2>3. f \in Injection(S, 1..n)
    BY <2>1, <2>2 DEF Injection, IsInjective
  <2>4. IsFiniteSet(1..n) /\ Cardinality(1..n) = n
    <3>1. 1 \in Int /\ n \in Int
      BY <1>1
    <3>2. Cardinality(1..n) = IF 1 > n THEN 0 ELSE n - 1 + 1
      BY <3>1, FS_Interval
    <3>3. QED
      BY <1>1, <3>1, <3>2, FS_Interval
  <2>5. QED
    BY <2>3, <2>4, FS_Injection DEF n
<1>6. \A i \in 1..n : \E x \in S : rank(x) = i - 1
  <2> SUFFICES ASSUME NEW i \in 1..n PROVE \E x \in S : rank(x) = i - 1
    OBVIOUS
  <2>1. PICK x \in S : f[x] = i
    <3> HIDE DEF f
    <3>1. QED
      BY <1>5 DEF Surjection
  <2>2. rank(x) + 1 = i
    BY <2>1
  <2>3. QED
    BY <1>1, <2>2
<1>7. at = [i \in 1..n |-> CHOOSE x \in S : rank(x) = i - 1]
  BY DEF Arranged, n, rank
<1> HIDE DEF at
<1>8. \A i \in 1..n : at[i] \in S /\ rank(at[i]) = i - 1
  BY <1>6, <1>7
<1>9. at \in [1..n -> S]
  BY <1>7, <1>8
<1>10. ASSUME NEW i \in 1..n, NEW j \in 1..n, i < j PROVE at[i] \in before[at[j]]
  <2>1. rank(at[i]) < rank(at[j])
    BY <1>1, <1>8, <1>10
  <2>2. at[i] # at[j] /\ at[j] \notin before[at[i]]
    BY <1>1, <1>3, <1>8, <2>1
  <2>3. QED
    BY <1>8, <2>2
<1>11. ASSUME NEW x \in S PROVE \E i \in 1..n : at[i] = x
  <2>1. rank(x) + 1 \in 1..n
    BY <1>1, <1>2
  <2>2. at[rank(x) + 1] \in S /\ rank(at[rank(x) + 1]) = rank(x)
    BY <1>1, <1>8, <2>1
  <2>3. QED
    BY <1>4, <2>1, <2>2
<1>12. QED
  BY <1>1, <1>9, <1>10, <1>11 DEF n, at

KeptBy(s, P, n, at) ==
    /\ DOMAIN Kept(s, P) = 1..n /\ \A i \in 1..n : Kept(s, P)[i] = s[at[i]]
    /\ \A i, j \in 1..n : i < j => at[i] < at[j]
    /\ \A p \in P : \E i \in 1..n : at[i] = p

\* What is kept of a sequence, by a rising map from the new positions to the old.
LEMMA KeptIs ==
  ASSUME NEW S, NEW s \in Seq(S), NEW P \in SUBSET DOMAIN s
  PROVE  Kept(s, P) \in Seq(S) /\ \E n \in Nat : \E at \in [1..n -> P] : KeptBy(s, P, n, at)
<1> DEFINE before == [p \in P |-> {q \in P : q < p}]
           n == Cardinality(P)
           at == Arranged(P, before)
<1>1. Len(s) \in Nat /\ DOMAIN s = 1..Len(s) /\ \A p \in P : p \in Nat
  OBVIOUS
<1>2. IsFiniteSet(P)
  <2>1. 1 \in Int /\ Len(s) \in Int
    BY <1>1
  <2>2. IsFiniteSet(1..Len(s))
    BY <2>1, FS_Interval
  <2>3. QED
    BY <1>1, <2>2, FS_Subset
<1>3. /\ \A x \in P : before[x] \in SUBSET P /\ x \notin before[x]
      /\ \A x, y \in P : x \in before[y] <=> x < y
  BY <1>1
<1>4. /\ \A x, y \in P : x # y => x \in before[y] \/ y \in before[x]
      /\ \A x, y \in P : x \in before[y] => before[x] \subseteq before[y]
  BY <1>1
<1>5. Kept(s, P) = [i \in DOMAIN at |-> s[at[i]]]
  BY DEF Kept
<1> HIDE DEF before
<1>6. /\ n \in Nat /\ at \in [1..n -> P]
      /\ \A i, j \in 1..n : i < j => at[i] \in before[at[j]]
      /\ \A x \in P : \E i \in 1..n : at[i] = x
  BY <1>2, <1>3, <1>4, ArrangedIs
<1> HIDE DEF n, at
<1>7. \A i, j \in 1..n : i < j => at[i] < at[j]
  BY <1>3, <1>6
<1>8. Kept(s, P) = [i \in 1..n |-> s[at[i]]]
  BY <1>5, <1>6
<1>9. Kept(s, P) \in Seq(S)
  <2>1. \A i \in 1..n : s[at[i]] \in S
    BY <1>1, <1>6
  <2>2. n \in Nat /\ Kept(s, P) \in [1..n -> S]
    BY <1>6, <1>8, <2>1
  <2>3. QED
    BY <2>2
<1>10. KeptBy(s, P, n, at)
  BY <1>6, <1>7, <1>8 DEF KeptBy
<1>11. QED
  BY <1>6, <1>9, <1>10

WsUniqueBy(s, n, at) ==
    /\ DOMAIN Unique(s) = 1..n /\ \A i \in 1..n : Unique(s)[i] = s[at[i]]
    /\ \A i, j \in 1..n : i < j => at[i] < at[j]
    /\ \A i \in 1..n : at[i] = 1 \/ ~Same(s[at[i] - 1], s[at[i]])
    /\ \A p \in DOMAIN s : \E i \in 1..n : /\ at[i] <= p
                                            /\ \A q \in (at[i] + 1)..p : Same(s[q - 1], s[q])

\* std::unique keeps the first of each run.
LEMMA WsUniqueIs ==
  ASSUME NEW S, NEW s \in Seq(S)
  PROVE  /\ Unique(s) \in Seq(S)
         /\ \E n \in Nat : \E at \in [1..n -> DOMAIN s] : WsUniqueBy(s, n, at)
<1> DEFINE P == {i \in DOMAIN s : i = 1 \/ ~Same(s[i - 1], s[i])}
<1>1. DOMAIN s \subseteq Nat /\ P \in SUBSET DOMAIN s /\ Unique(s) = Kept(s, P)
      /\ \A p \in DOMAIN s : p # 1 => p - 1 \in DOMAIN s
  BY DEF Unique
<1>2. \A p \in DOMAIN s : p \in P \/ (p # 1 /\ Same(s[p - 1], s[p]))
  OBVIOUS
<1>3. \A p \in P : p = 1 \/ ~Same(s[p - 1], s[p])
  OBVIOUS
<1> HIDE DEF P
<1>4. Kept(s, P) \in Seq(S) /\ \E n \in Nat : \E at \in [1..n -> P] : KeptBy(s, P, n, at)
  BY <1>1, KeptIs
<1>5. PICK n \in Nat : \E at \in [1..n -> P] : KeptBy(s, P, n, at)
  BY <1>4
<1>6. PICK at \in [1..n -> P] : KeptBy(s, P, n, at)
  BY <1>5
<1>7. /\ DOMAIN Kept(s, P) = 1..n /\ \A i \in 1..n : Kept(s, P)[i] = s[at[i]]
      /\ \A i, j \in 1..n : i < j => at[i] < at[j]
      /\ \A p \in P : \E i \in 1..n : at[i] = p
  BY <1>6 DEF KeptBy
<1>8. at \in [1..n -> DOMAIN s]
  BY <1>1, <1>6
<1> DEFINE Led(p) == \E i \in 1..n : at[i] <= p /\ \A q \in (at[i] + 1)..p : Same(s[q - 1], s[q])
           Bad == {p \in DOMAIN s : ~Led(p)}
<1>9. Bad = {}
  <2> SUFFICES ASSUME Bad # {} PROVE FALSE
    OBVIOUS
  <2>1. PICK p \in Bad : \A y \in Bad : p <= y
    <3>1. Bad \in SUBSET Nat
      BY <1>1
    <3> HIDE DEF Bad
    <3>2. QED
      BY <3>1, LeastOf
  <2>2. p \in DOMAIN s /\ p \in Nat /\ ~Led(p)
    BY <1>1, <2>1
  <2>3. p \notin P
    <3>1. ASSUME NEW i \in 1..n, at[i] = p PROVE Led(p)
      BY <2>2, <3>1
    <3> HIDE DEF Led, Bad
    <3>2. \A i \in 1..n : at[i] # p
      BY <2>2, <3>1
    <3>3. QED
      BY <1>7, <3>2
  <2>4. p # 1 /\ Same(s[p - 1], s[p]) /\ p - 1 \in DOMAIN s /\ p - 1 < p
    BY <1>1, <1>2, <2>2, <2>3
  <2>5. Led(p - 1)
    <3>1. \A y \in DOMAIN s : Led(y) \/ p <= y
      BY <2>1
    <3>2. p - 1 \in DOMAIN s /\ ~(p <= p - 1)
      BY <2>2, <2>4
    <3> HIDE DEF Led
    <3>3. QED
      BY <3>1, <3>2
  <2>6. PICK i \in 1..n : at[i] <= p - 1 /\ \A q \in (at[i] + 1)..(p - 1) : Same(s[q - 1], s[q])
    BY <2>5
  <2>7. at[i] \in Nat
    BY <1>1, <1>8
  <2>8. at[i] <= p /\ \A q \in (at[i] + 1)..p : Same(s[q - 1], s[q])
    <3>1. \A q \in (at[i] + 1)..p : q = p \/ q \in (at[i] + 1)..(p - 1)
      BY <2>2, <2>7
    <3>2. QED
      BY <2>2, <2>4, <2>6, <2>7, <3>1
  <2>9. QED
    BY <2>2, <2>8
<1>10. WsUniqueBy(s, n, at)
  <2>1. \A p \in DOMAIN s : Led(p)
    BY <1>9
  <2>2. \A i \in 1..n : at[i] = 1 \/ ~Same(s[at[i] - 1], s[at[i]])
    BY <1>3, <1>6
  <2>3. QED
    BY <1>1, <1>7, <2>1, <2>2 DEF WsUniqueBy
<1>11. QED
  BY <1>1, <1>4, <1>8, <1>10

\* Less is a strict weak order on S.
WsOrders(S) ==
    /\ \A a, b \in S : Less(a, b) => ~Less(b, a)
    /\ \A a, b, c \in S : Less(a, c) => Less(a, b) \/ Less(b, c)

\* std::stable_sort.
LEMMA WsSortedIs ==
  ASSUME NEW S, NEW s \in Seq(S), WsOrders(S)
  PROVE  /\ Sorted(s) \in Seq(S) /\ ToSet(Sorted(s)) = ToSet(s)
         /\ \A j \in DOMAIN Sorted(s) : \A i \in 1..(j - 1) : ~Less(Sorted(s)[j], Sorted(s)[i])
<1> DEFINE D == DOMAIN s
           before == [i \in D |-> {j \in D : Less(s[j], s[i]) \/ (j < i /\ ~Less(s[i], s[j]))}]
           n == Cardinality(D)
           at == Arranged(D, before)
<1>1. Len(s) \in Nat /\ D = 1..Len(s) /\ D \subseteq Nat /\ \A i \in D : s[i] \in S
  OBVIOUS
<1>2. IsFiniteSet(D)
  <2>1. 1 \in Int /\ Len(s) \in Int
    BY <1>1
  <2>2. QED
    BY <1>1, <2>1, FS_Interval
<1>3. /\ \A i, j \in D : j \in before[i] <=> (Less(s[j], s[i]) \/ (j < i /\ ~Less(s[i], s[j])))
      /\ \A i \in D : before[i] \in SUBSET D
  OBVIOUS
<1>4. Sorted(s) = [i \in DOMAIN at |-> s[at[i]]]
  BY DEF Sorted
<1> HIDE DEF D, before
<1>5. \A x \in D : before[x] \in SUBSET D /\ x \notin before[x]
  BY <1>1, <1>3 DEF WsOrders
<1>6. \A x, y \in D : x # y => x \in before[y] \/ y \in before[x]
  <2> SUFFICES ASSUME NEW x \in D, NEW y \in D, x # y, x \notin before[y] PROVE y \in before[x]
    OBVIOUS
  <2>1. x < y \/ y < x
    BY <1>1
  <2>2. QED
    BY <1>3, <2>1
<1>7. \A x, y \in D : x \in before[y] => before[x] \subseteq before[y]
  <2> SUFFICES ASSUME NEW x \in D, NEW y \in D, NEW z \in D, x \in before[y], z \in before[x] PROVE z \in before[y]
    BY <1>5
  <2>1. x \in Nat /\ y \in Nat /\ z \in Nat
    BY <1>1
  <2>2. (Less(s[x], s[y]) \/ (x < y /\ ~Less(s[y], s[x]))) /\ (Less(s[z], s[x]) \/ (z < x /\ ~Less(s[x], s[z])))
    BY <1>3
  <2>3. ~Less(s[y], s[x]) /\ ~Less(s[x], s[z])
    BY <1>1, <2>2 DEF WsOrders
  <2>4. ~Less(s[y], s[z])
    BY <1>1, <2>3 DEF WsOrders
  <2>5. CASE x < y /\ z < x
    BY <1>3, <2>1, <2>4, <2>5
  <2>6. CASE Less(s[x], s[y])
    <3>1. Less(s[x], s[z]) \/ Less(s[z], s[y])
      BY <1>1, <2>6 DEF WsOrders
    <3>2. QED
      BY <1>3, <2>3, <3>1
  <2>7. CASE Less(s[z], s[x])
    <3>1. Less(s[z], s[y]) \/ Less(s[y], s[x])
      BY <1>1, <2>7 DEF WsOrders
    <3>2. QED
      BY <1>3, <2>3, <3>1
  <2>8. QED
    BY <2>2, <2>5, <2>6, <2>7
<1>8. /\ n \in Nat /\ at \in [1..n -> D]
      /\ \A i, j \in 1..n : i < j => at[i] \in before[at[j]]
      /\ \A x \in D : \E i \in 1..n : at[i] = x
  BY <1>2, <1>5, <1>6, <1>7, ArrangedIs
<1> HIDE DEF n, at
<1>9. Sorted(s) = [i \in 1..n |-> s[at[i]]]
  BY <1>4, <1>8
<1>10. Sorted(s) \in Seq(S)
  <2>1. \A i \in 1..n : s[at[i]] \in S
    BY <1>1, <1>8
  <2>2. QED
    BY <1>8, <1>9, <2>1
<1>11. ToSet(Sorted(s)) = ToSet(s)
  <2>1. DOMAIN Sorted(s) = 1..n /\ \A i \in 1..n : Sorted(s)[i] = s[at[i]] /\ at[i] \in D
    BY <1>8, <1>9
  <2>2. ToSet(s) = {s[x] : x \in D} /\ ToSet(Sorted(s)) = {Sorted(s)[i] : i \in 1..n}
    BY <2>1 DEF ToSet, D
  <2>3. \A x \in D : \E i \in 1..n : Sorted(s)[i] = s[x]
    BY <1>8, <2>1
  <2>4. QED
    BY <2>1, <2>2, <2>3
<1>12. ASSUME NEW j \in 1..n, NEW i \in 1..(j - 1) PROVE ~Less(s[at[j]], s[at[i]])
  <2>1. i \in 1..n /\ i < j
    BY <1>8
  <2>2. at[i] \in before[at[j]] /\ at[i] \in D /\ at[j] \in D
    BY <1>8, <2>1
  <2>3. QED
    BY <1>1, <1>3, <2>2 DEF WsOrders
<1>13. \A j \in DOMAIN Sorted(s) : \A i \in 1..(j - 1) : ~Less(Sorted(s)[j], Sorted(s)[i])
  <2> SUFFICES ASSUME NEW j \in 1..n, NEW i \in 1..(j - 1) PROVE ~Less(Sorted(s)[j], Sorted(s)[i])
    BY <1>9
  <2>1. i \in 1..n
    BY <1>8
  <2>2. QED
    BY <1>9, <1>12, <2>1
<1>14. QED
  BY <1>10, <1>11, <1>13

-----------------------------------------------------------------------------
(* The workshop menu: the order of items, and FixupChildren *)

\* A record of the tree, its fields, and two that agree but for the column.
WsNode(x) ==
    x = [filterKeyword |-> x.filterKeyword, recipe |-> x.recipe, source |-> x.source, form |-> x.form,
         children |-> x.children, column |-> x.column]

WsAlike(x, y) ==
    /\ x.filterKeyword = y.filterKeyword /\ x.recipe = y.recipe /\ x.source = y.source
    /\ x.form = y.form /\ x.children = y.children

WsData ==
    /\ wsLists \in [FormLists -> Seq(Keywords \cup SubLists \cup {NoForm})]
    /\ wsRecipes \in RecipeSets /\ deleted \subseteq Keywords \cup SubLists

WsLeaf(x) ==
    /\ WsNode(x) /\ x.filterKeyword = NoForm /\ x.children = <<>>
    /\ x.recipe \in DOMAIN wsRecipes /\ x.form \in ToSet(wsRecipes[x.recipe].created)
    /\ x.source = IF wsRecipes[x.recipe].createsList THEN x.recipe ELSE NoForm

\* The first position of a form in what a recipe creates.
LEMMA WsItemIndexIs ==
  ASSUME WsData, NEW r \in DOMAIN wsRecipes, NEW f \in ToSet(wsRecipes[r].created)
  PROVE  ItemIndex(r, f) \in Nat /\ wsRecipes[r].created[ItemIndex(r, f)] = f
<1> DEFINE c == wsRecipes[r].created
           P == {i \in DOMAIN c : c[i] = f}
<1>1. c \in Seq(ToSet(c))
  BY MenuAssumption DEF WsData
<1>2. DOMAIN c \subseteq Nat /\ \A i \in DOMAIN c : \A j \in 1..(i - 1) : j \in DOMAIN c /\ j < i
  BY <1>1
<1>3. P \in SUBSET Nat /\ P # {}
  BY <1>2 DEF ToSet
<1>4. ItemIndex(r, f) = CHOOSE i \in DOMAIN c : c[i] = f /\ \A j \in 1..(i - 1) : c[j] # f
  BY DEF ItemIndex
<1> HIDE DEF c
<1>5. \E i \in DOMAIN c : c[i] = f /\ \A j \in 1..(i - 1) : c[j] # f
  <2>1. PICK i \in P : \A j \in P : i <= j
    <3> HIDE DEF P
    <3>1. QED
      BY <1>3, LeastOf
  <2>2. \A j \in 1..(i - 1) : c[j] # f
    BY <1>2, <2>1
  <2>3. QED
    BY <2>1, <2>2
<1>6. QED
  BY <1>2, <1>4, <1>5 DEF c

\* How less_t compares two recipes.
WsRecipeLess(r, q) ==
    \/ wsRecipes[r].priority < wsRecipes[q].priority
    \/ wsRecipes[r].priority = wsRecipes[q].priority /\ wsRecipes[r].name < wsRecipes[q].name
    \/ wsRecipes[r].priority = wsRecipes[q].priority /\ wsRecipes[r].name = wsRecipes[q].name
         /\ wsRecipes[r].id < wsRecipes[q].id

\* Of two recipes one comes first, as their form ids differ.
LEMMA WsRecipesCompare ==
  ASSUME WsData
  PROVE  /\ \A r \in DOMAIN wsRecipes : ~WsRecipeLess(r, r)
         /\ \A r, q \in DOMAIN wsRecipes : r # q => (WsRecipeLess(r, q) <=> ~WsRecipeLess(q, r))
         /\ \A r, q, p \in DOMAIN wsRecipes : WsRecipeLess(r, q) /\ WsRecipeLess(q, p) => WsRecipeLess(r, p)
<1>1. \A r \in DOMAIN wsRecipes :
        wsRecipes[r].priority \in Nat /\ wsRecipes[r].name \in Nat /\ wsRecipes[r].id \in Nat
  BY MenuAssumption DEF WsData
<1>2. \A r, q \in DOMAIN wsRecipes : wsRecipes[r].id = wsRecipes[q].id => r = q
  BY MenuAssumption DEF WsData
<1>3. ASSUME NEW r \in DOMAIN wsRecipes PROVE ~WsRecipeLess(r, r)
  BY <1>1 DEF WsRecipeLess
<1>4. ASSUME NEW r \in DOMAIN wsRecipes, NEW q \in DOMAIN wsRecipes, r # q
      PROVE  WsRecipeLess(r, q) <=> ~WsRecipeLess(q, r)
  <2>1. wsRecipes[r].id # wsRecipes[q].id
    BY <1>2, <1>4
  <2>2. QED
    BY <1>1, <2>1 DEF WsRecipeLess
<1>5. ASSUME NEW r \in DOMAIN wsRecipes, NEW q \in DOMAIN wsRecipes, NEW p \in DOMAIN wsRecipes,
             WsRecipeLess(r, q), WsRecipeLess(q, p)
      PROVE  WsRecipeLess(r, p)
  BY <1>1, <1>5 DEF WsRecipeLess
<1>6. QED
  BY <1>3, <1>4, <1>5

\* less_t compares two items by recipe, and those of one list by position.
LEMMA WsLeavesCompare ==
  ASSUME WsData, NEW x, NEW y, WsLeaf(x), WsLeaf(y)
  PROVE  Less(x, y) <=> IF x.recipe = y.recipe
                        THEN /\ wsRecipes[x.recipe].createsList
                             /\ ItemIndex(x.recipe, x.form) < ItemIndex(x.recipe, y.form)
                        ELSE WsRecipeLess(x.recipe, y.recipe)
<1>1. NoForm \notin DOMAIN wsRecipes
  BY MenuAssumption DEF WsData
<1>2. (x.source # NoForm /\ x.source = y.source) <=> (x.recipe = y.recipe /\ wsRecipes[x.recipe].createsList)
  BY <1>1 DEF WsLeaf
<1>3. CASE x.source # NoForm /\ x.source = y.source
  <2>1. Less(x, y) <=> ItemIndex(x.source, x.form) < ItemIndex(x.source, y.form)
    BY <1>3 DEF Less
  <2>2. x.source = x.recipe
    BY <1>2, <1>3 DEF WsLeaf
  <2>3. QED
    BY <1>2, <1>3, <2>1, <2>2
<1>4. CASE ~(x.source # NoForm /\ x.source = y.source)
  <2>1. Less(x, y) <=> WsRecipeLess(x.recipe, y.recipe)
    BY <1>4 DEF Less, WsRecipeLess
  <2>2. x.recipe \in DOMAIN wsRecipes
    BY DEF WsLeaf
  <2>3. ~WsRecipeLess(x.recipe, x.recipe)
    BY <2>2, WsRecipesCompare
  <2>4. QED
    BY <1>2, <1>4, <2>1, <2>3
<1>5. QED
  BY <1>3, <1>4

\* On the items of a category less_t is a strict weak order, and total up to
\* what std::unique takes for the same.
LEMMA WsLeavesOrder ==
  ASSUME WsData, NEW S, \A x \in S : WsLeaf(x)
  PROVE  /\ WsOrders(S)
         /\ \A x, y \in S : Less(x, y) \/ Less(y, x) \/ Same(x, y)
         /\ \A x, y \in S : Same(x, y) => WsAlike(x, y)
<1>1. ASSUME NEW x \in S
      PROVE  /\ x.recipe \in DOMAIN wsRecipes /\ ItemIndex(x.recipe, x.form) \in Nat
             /\ wsRecipes[x.recipe].created[ItemIndex(x.recipe, x.form)] = x.form
  BY WsItemIndexIs DEF WsLeaf
<1>2. \A x, y \in S : Less(x, y) <=> IF x.recipe = y.recipe
                        THEN /\ wsRecipes[x.recipe].createsList
                             /\ ItemIndex(x.recipe, x.form) < ItemIndex(x.recipe, y.form)
                        ELSE WsRecipeLess(x.recipe, y.recipe)
  BY WsLeavesCompare
<1>3. ASSUME NEW x \in S, NEW y \in S, Less(x, y) PROVE ~Less(y, x)
  <2>1. CASE x.recipe = y.recipe
    BY <1>1, <1>2, <1>3, <2>1
  <2>2. CASE x.recipe # y.recipe
    BY <1>1, <1>2, <1>3, <2>2, WsRecipesCompare
  <2>3. QED
    BY <2>1, <2>2
<1>4. ASSUME NEW x \in S, NEW y \in S, NEW z \in S, Less(x, z) PROVE Less(x, y) \/ Less(y, z)
  <2>1. CASE x.recipe = z.recipe /\ x.recipe = y.recipe
    <3>1. /\ ItemIndex(x.recipe, x.form) \in Nat /\ ItemIndex(x.recipe, y.form) \in Nat
          /\ ItemIndex(x.recipe, z.form) \in Nat
      BY <1>1, <2>1
    <3>2. /\ wsRecipes[x.recipe].createsList
          /\ ItemIndex(x.recipe, x.form) < ItemIndex(x.recipe, z.form)
      BY <1>2, <1>4, <2>1
    <3>3. ItemIndex(x.recipe, x.form) < ItemIndex(x.recipe, y.form)
          \/ ItemIndex(x.recipe, y.form) < ItemIndex(x.recipe, z.form)
      BY <3>1, <3>2
    <3>4. QED
      BY <1>2, <2>1, <3>2, <3>3
  <2>2. CASE x.recipe = z.recipe /\ x.recipe # y.recipe
    <3>1. WsRecipeLess(x.recipe, y.recipe) \/ WsRecipeLess(y.recipe, x.recipe)
      BY <1>1, <2>2, WsRecipesCompare
    <3>2. QED
      BY <1>2, <2>2, <3>1
  <2>3. CASE x.recipe # z.recipe
    <3>1. WsRecipeLess(x.recipe, z.recipe)
      BY <1>2, <1>4, <2>3
    <3>2. CASE x.recipe = y.recipe
      BY <1>2, <2>3, <3>1, <3>2
    <3>3. CASE y.recipe = z.recipe
      BY <1>2, <2>3, <3>1, <3>3
    <3>4. CASE x.recipe # y.recipe /\ y.recipe # z.recipe
      <4>1. WsRecipeLess(x.recipe, y.recipe) \/ WsRecipeLess(y.recipe, x.recipe)
        BY <1>1, <3>4, WsRecipesCompare
      <4>2. WsRecipeLess(y.recipe, x.recipe) => WsRecipeLess(y.recipe, z.recipe)
        BY <1>1, <3>1, WsRecipesCompare
      <4>3. QED
        BY <1>2, <3>4, <4>1, <4>2
    <3>5. QED
      BY <3>2, <3>3, <3>4
  <2>4. QED
    BY <2>1, <2>2, <2>3
<1>5. ASSUME NEW x \in S, NEW y \in S, ~Less(x, y), ~Less(y, x) PROVE Same(x, y)
  <2>1. x.recipe = y.recipe
    BY <1>1, <1>2, <1>5, WsRecipesCompare
  <2>2. x.form = y.form
    <3>1. CASE wsRecipes[x.recipe].createsList
      <4>1. ItemIndex(x.recipe, x.form) = ItemIndex(x.recipe, y.form)
        BY <1>1, <1>2, <1>5, <2>1, <3>1
      <4>2. QED
        BY <1>1, <2>1, <4>1
    <3>2. CASE ~wsRecipes[x.recipe].createsList
      <4> DEFINE c == wsRecipes[x.recipe].created
      <4>1. c \in Seq(ToSet(c)) /\ Len(c) = 1
        BY <1>1, <3>2, MenuAssumption DEF WsData
      <4>2. x.form \in ToSet(c) /\ y.form \in ToSet(c)
        BY <2>1 DEF WsLeaf
      <4>3. DOMAIN c = {1}
        BY <4>1
      <4>4. QED
        BY <4>2, <4>3 DEF ToSet
    <3>3. QED
      BY <3>1, <3>2
  <2>3. QED
    BY <2>1, <2>2 DEF Same, WsLeaf
<1>6. \A x, y \in S : Same(x, y) => WsAlike(x, y)
  BY DEF Same, WsAlike, WsLeaf
<1>7. QED
  BY <1>3, <1>4, <1>5, <1>6 DEF WsOrders

WsNumbered(u) == [i \in DOMAIN Unique(u) |-> [Unique(u)[i] EXCEPT !.column = i - 1]]

WsNumberedBy(u, n, at) ==
    /\ WsUniqueBy(u, n, at) /\ DOMAIN WsNumbered(u) = 1..n
    /\ \A i \in 1..n : WsNode(WsNumbered(u)[i]) /\ WsNumbered(u)[i].column = i - 1
                         /\ WsAlike(WsNumbered(u)[i], u[at[i]])

\* The nodes of F are those of s, but for repetitions, order and columns.
WsKeeps(s, F) ==
    /\ F \in Seq(ToSet(F))
    /\ \A x \in ToSet(F) : WsNode(x) /\ \E y \in ToSet(s) : WsAlike(x, y)
    /\ \A y \in ToSet(s) : \E x \in ToSet(F) : WsAlike(x, y)

\* What is left after std::unique keeps all nodes once and is numbered.
LEMMA WsNumberedIs ==
  ASSUME NEW S, NEW u \in Seq(S), \A x \in S : WsNode(x), \A x, y \in S : Same(x, y) => WsAlike(x, y)
  PROVE  /\ WsKeeps(u, WsNumbered(u))
         /\ \E n \in Nat : \E at \in [1..n -> DOMAIN u] : WsNumberedBy(u, n, at)
<1> DEFINE F == WsNumbered(u)
<1>1. PICK n \in Nat : \E at \in [1..n -> DOMAIN u] : WsUniqueBy(u, n, at)
  BY WsUniqueIs
<1>2. PICK at \in [1..n -> DOMAIN u] : WsUniqueBy(u, n, at)
  BY <1>1
<1>3. /\ DOMAIN Unique(u) = 1..n /\ \A i \in 1..n : Unique(u)[i] = u[at[i]]
      /\ \A p \in DOMAIN u : \E i \in 1..n : /\ at[i] <= p
                                             /\ \A q \in (at[i] + 1)..p : Same(u[q - 1], u[q])
  BY <1>2 DEF WsUniqueBy
<1>4. DOMAIN u \subseteq Nat /\ DOMAIN u = 1..Len(u) /\ Len(u) \in Nat /\ \A p \in DOMAIN u : u[p] \in S
  OBVIOUS
<1>5. DOMAIN F = 1..n /\ \A i \in 1..n : F[i] = [u[at[i]] EXCEPT !.column = i - 1]
  BY <1>3 DEF WsNumbered
<1>6. F = [i \in 1..n |-> F[i]]
  BY <1>3 DEF WsNumbered
<1>7. ASSUME NEW i \in 1..n PROVE WsNode(F[i]) /\ F[i].column = i - 1 /\ WsAlike(F[i], u[at[i]])
  <2> DEFINE x == u[at[i]]
  <2>1. WsNode(x)
    BY <1>2, <1>4
  <2> HIDE DEF x
  <2>2. x = [filterKeyword |-> x.filterKeyword, recipe |-> x.recipe, source |-> x.source, form |-> x.form,
             children |-> x.children, column |-> x.column]
    BY <2>1 DEF WsNode
  <2>3. [x EXCEPT !.column = i - 1]
        = [filterKeyword |-> x.filterKeyword, recipe |-> x.recipe, source |-> x.source, form |-> x.form,
           children |-> x.children, column |-> i - 1]
    BY <2>2
  <2>4. F[i] = [x EXCEPT !.column = i - 1]
    BY <1>5 DEF x
  <2> HIDE DEF F
  <2>5. QED
    BY <2>3, <2>4 DEF WsNode, WsAlike, x
<1>8. F \in Seq(ToSet(F))
  <2> HIDE DEF F
  <2>1. \A i \in 1..n : F[i] \in ToSet(F)
    BY <1>5 DEF ToSet
  <2>2. F \in [1..n -> ToSet(F)]
    BY <1>6, <2>1
  <2>3. QED
    BY <2>2
<1>9. \A x \in ToSet(F) : WsNode(x) /\ \E y \in ToSet(u) : WsAlike(x, y)
  <2> HIDE DEF F
  <2>1. \A i \in 1..n : u[at[i]] \in ToSet(u)
    BY <1>2 DEF ToSet
  <2>2. QED
    BY <1>5, <1>7, <2>1 DEF ToSet
<1>10. ASSUME NEW p \in DOMAIN u PROVE \E x \in ToSet(F) : WsAlike(x, u[p])
  <2>1. PICK i \in 1..n : at[i] <= p /\ \A q \in (at[i] + 1)..p : Same(u[q - 1], u[q])
    BY <1>3
  <2>2. at[i] \in DOMAIN u /\ at[i] \in Nat /\ p \in Nat
    BY <1>2, <1>4
  <2> DEFINE Bad == {q \in at[i]..p : ~WsAlike(u[at[i]], u[q])}
  <2>3. Bad = {}
    <3> SUFFICES ASSUME Bad # {} PROVE FALSE
      OBVIOUS
    <3>1. PICK q \in Bad : \A y \in Bad : q <= y
      <4>1. Bad \in SUBSET Nat
        BY <2>2
      <4> HIDE DEF Bad
      <4>2. QED
        BY <4>1, LeastOf
    <3>2. q \in at[i]..p /\ ~WsAlike(u[at[i]], u[q])
      BY <3>1
    <3>3. q # at[i]
      BY <3>2 DEF WsAlike
    <3>4. q \in (at[i] + 1)..p /\ q - 1 \in at[i]..p /\ q - 1 < q /\ q \in 1..Len(u) /\ q - 1 \in 1..Len(u)
      BY <1>4, <2>2, <3>2, <3>3
    <3>5. WsAlike(u[q - 1], u[q])
      BY <1>4, <2>1, <3>4
    <3>6. WsAlike(u[at[i]], u[q - 1])
      BY <2>2, <3>1, <3>4
    <3>7. QED
      BY <3>2, <3>5, <3>6 DEF WsAlike
  <2>4. WsAlike(u[at[i]], u[p])
    BY <2>1, <2>2, <2>3
  <2>5. F[i] \in ToSet(F) /\ WsAlike(F[i], u[at[i]])
    <3> HIDE DEF F
    <3>1. QED
      BY <1>5, <1>7 DEF ToSet
  <2> HIDE DEF F
  <2>6. WsAlike(F[i], u[p])
    BY <2>4, <2>5 DEF WsAlike
  <2>7. QED
    BY <2>5, <2>6
<1>11. \A y \in ToSet(u) : \E x \in ToSet(F) : WsAlike(x, y)
  BY <1>10 DEF ToSet
<1>12. WsNumberedBy(u, n, at)
  BY <1>2, <1>5, <1>7 DEF WsNumberedBy
<1>13. QED
  BY <1>1, <1>2, <1>8, <1>9, <1>11, <1>12 DEF WsKeeps

\* Keeping nothing, and keeping all.
LEMMA WsKeptNone ==
  ASSUME NEW S, NEW s \in Seq(S)
  PROVE  Kept(s, {}) = <<>> /\ Kept(s, DOMAIN s) \in Seq(S) /\ ToSet(Kept(s, DOMAIN s)) = ToSet(s)
<1>1. Kept(s, {}) = <<>>
  <2>1. Kept(s, {}) \in Seq(S) /\ \E n \in Nat : \E at \in [1..n -> {}] : KeptBy(s, {}, n, at)
    BY KeptIs
  <2>2. PICK n \in Nat : \E at \in [1..n -> {}] : KeptBy(s, {}, n, at)
    BY <2>1
  <2>3. PICK at \in [1..n -> {}] : KeptBy(s, {}, n, at)
    BY <2>2
  <2>4. n = 0
    BY <2>2, <2>3
  <2>5. DOMAIN Kept(s, {}) = 1..0
    BY <2>3, <2>4 DEF KeptBy
  <2>6. QED
    BY <2>1, <2>5
<1>2. /\ Kept(s, DOMAIN s) \in Seq(S)
      /\ \E n \in Nat : \E at \in [1..n -> DOMAIN s] : KeptBy(s, DOMAIN s, n, at)
  BY KeptIs
<1>3. PICK n \in Nat : \E at \in [1..n -> DOMAIN s] : KeptBy(s, DOMAIN s, n, at)
  BY <1>2
<1>4. PICK at \in [1..n -> DOMAIN s] : KeptBy(s, DOMAIN s, n, at)
  BY <1>3
<1> DEFINE k == Kept(s, DOMAIN s)
<1>5. DOMAIN k = 1..n /\ (\A i \in 1..n : k[i] = s[at[i]]) /\ \A p \in DOMAIN s : \E i \in 1..n : at[i] = p
  BY <1>4 DEF KeptBy
<1> HIDE DEF k
<1>6. ToSet(k) = {k[i] : i \in 1..n} /\ ToSet(s) = {s[p] : p \in DOMAIN s}
  BY <1>5 DEF ToSet
<1>7. ToSet(k) = ToSet(s)
  BY <1>4, <1>5, <1>6
<1>8. QED
  BY <1>1, <1>2, <1>7 DEF k

\* What is kept of the first entries of a sequence is those.
LEMMA WsKeptFirst ==
  ASSUME NEW S, NEW s \in Seq(S), NEW m \in Nat, m <= Len(s)
  PROVE  Kept(s, 1..m) = [i \in 1..m |-> s[i]]
<1> DEFINE P == 1..m
           before == [p \in P |-> {q \in P : q < p}]
           at == Arranged(P, before)
<1>1. \A k \in Nat : Cardinality(1..k) = k
  <2> SUFFICES ASSUME NEW k \in Nat PROVE Cardinality(1..k) = k
    OBVIOUS
  <2>1. 1 \in Int /\ k \in Int
    OBVIOUS
  <2>2. Cardinality(1..k) = IF 1 > k THEN 0 ELSE k - 1 + 1
    BY <2>1, FS_Interval
  <2>3. QED
    BY <2>2
<1>2. ASSUME NEW p \in P PROVE Cardinality(before[p]) = p - 1
  <2>1. before[p] = 1..(p - 1) /\ p - 1 \in Nat
    OBVIOUS
  <2> HIDE DEF before, P
  <2>2. QED
    BY <1>1, <2>1
<1>3. Cardinality(P) = m
  BY <1>1
<1> HIDE DEF before
<1>4. at = [i \in 1..m |-> CHOOSE x \in P : Cardinality(before[x]) = i - 1]
  BY <1>3 DEF Arranged
<1>5. \A i \in 1..m : (CHOOSE x \in P : Cardinality(before[x]) = i - 1) = i
  BY <1>2
<1>6. at = [i \in 1..m |-> i]
  BY <1>4, <1>5
<1>7. Kept(s, P) = [i \in DOMAIN at |-> s[at[i]]]
  BY DEF Kept, before
<1> HIDE DEF at, P
<1>8. QED
  BY <1>6, <1>7 DEF P

\* A form list's node gets categories only, for which nothing is sorted.  If
\* those that std::unique keeps come first, they are the node's, as they come.
LEMMA WsFixupOfCategories ==
  ASSUME NEW S, NEW s \in Seq(S), \A x \in S : WsNode(x) /\ x.children # <<>>,
         NEW m \in Nat, {i \in DOMAIN s : i = 1 \/ ~Same(s[i - 1], s[i])} = 1..m
  PROVE  LET F == FixupChildren(s)
         IN  /\ DOMAIN F = 1..m /\ F = [i \in 1..m |-> F[i]]
             /\ \A i \in 1..m : WsNode(F[i]) /\ F[i].column = i - 1 /\ WsAlike(F[i], s[i])
<1> DEFINE leaves == {i \in DOMAIN s : s[i].children = <<>>}
           u == Kept(s, DOMAIN s \ leaves) \o Sorted(Kept(s, leaves))
           F == FixupChildren(s)
<1>1. Len(s) \in Nat /\ DOMAIN s = 1..Len(s) /\ s = [i \in 1..Len(s) |-> s[i]] /\ \A i \in DOMAIN s : s[i] \in S
  OBVIOUS
<1>2. leaves = {} /\ DOMAIN s \ leaves = 1..Len(s)
  BY <1>1
<1>3. Kept(s, {}) = <<>>
  BY WsKeptNone
<1>4. Kept(s, 1..Len(s)) = s
  <2>1. Len(s) <= Len(s)
    BY <1>1
  <2>2. Kept(s, 1..Len(s)) = [i \in 1..Len(s) |-> s[i]]
    BY <1>1, <2>1, WsKeptFirst
  <2>3. QED
    BY <1>1, <2>2
<1>5. Sorted(<<>>) = <<>>
  <2>1. WsOrders({}) /\ <<>> \in Seq({}) /\ ToSet(<<>>) = {}
    BY DEF WsOrders, ToSet
  <2>2. Sorted(<<>>) \in Seq({})
    BY <2>1, WsSortedIs
  <2>3. QED
    BY <2>2
<1>6. u = s
  <2>1. u = s \o <<>>
    BY <1>2, <1>3, <1>4, <1>5
  <2> HIDE DEF u
  <2>2. QED
    BY <2>1
<1> HIDE DEF u, leaves
<1>7. m <= Len(s)
  <2>1. m # 0 => m \in 1..m
    OBVIOUS
  <2>2. m # 0 => m \in DOMAIN s
    BY <2>1
  <2>3. QED
    BY <1>1, <2>2
<1>8. Unique(s) = [i \in 1..m |-> s[i]]
  BY <1>7, WsKeptFirst DEF Unique
<1>9. F = [i \in DOMAIN Unique(s) |-> [Unique(s)[i] EXCEPT !.column = i - 1]]
  <2>1. F = [i \in DOMAIN Unique(u) |-> [Unique(u)[i] EXCEPT !.column = i - 1]]
    BY DEF FixupChildren, u, leaves
  <2>2. QED
    BY <1>6, <2>1
<1>10. DOMAIN F = 1..m /\ F = [i \in 1..m |-> F[i]] /\ \A i \in 1..m : F[i] = [s[i] EXCEPT !.column = i - 1]
  <2> HIDE DEF F
  <2>1. QED
    BY <1>8, <1>9
<1>11. ASSUME NEW i \in 1..m PROVE WsNode(F[i]) /\ F[i].column = i - 1 /\ WsAlike(F[i], s[i])
  <2> DEFINE x == s[i]
  <2>1. WsNode(x)
    BY <1>1, <1>7
  <2> HIDE DEF x
  <2>2. x = [filterKeyword |-> x.filterKeyword, recipe |-> x.recipe, source |-> x.source, form |-> x.form,
             children |-> x.children, column |-> x.column]
    BY <2>1 DEF WsNode
  <2>3. [x EXCEPT !.column = i - 1]
        = [filterKeyword |-> x.filterKeyword, recipe |-> x.recipe, source |-> x.source, form |-> x.form,
           children |-> x.children, column |-> i - 1]
    BY <2>2
  <2>4. F[i] = [x EXCEPT !.column = i - 1]
    BY <1>10 DEF x
  <2> HIDE DEF F
  <2>5. QED
    BY <2>3, <2>4 DEF WsNode, WsAlike, x
<1>12. QED
  BY <1>10, <1>11

\* A keyword's node gets items only, which come out sorted, none twice.
LEMMA WsFixupOfLeaves ==
  ASSUME WsData, NEW S, NEW s \in Seq(S), \A x \in S : WsLeaf(x)
  PROVE  WsKeeps(s, FixupChildren(s)) /\ NumberedInOrder(FixupChildren(s))
<1> DEFINE leaves == {i \in DOMAIN s : s[i].children = <<>>}
           u == Kept(s, DOMAIN s \ leaves) \o Sorted(Kept(s, leaves))
           k == Kept(s, DOMAIN s)
           t == Sorted(k)
<1>1. leaves = DOMAIN s /\ DOMAIN s \ leaves = {}
  <2>1. \A i \in DOMAIN s : s[i] \in S
    OBVIOUS
  <2>2. QED
    BY <2>1 DEF WsLeaf
<1>2. Kept(s, {}) = <<>> /\ k \in Seq(S) /\ ToSet(k) = ToSet(s)
  BY WsKeptNone
<1>3. /\ WsOrders(S)
      /\ \A x, y \in S : Less(x, y) \/ Less(y, x) \/ Same(x, y)
      /\ \A x, y \in S : Same(x, y) => WsAlike(x, y)
  BY WsLeavesOrder
<1>4. /\ t \in Seq(S) /\ ToSet(t) = ToSet(k)
      /\ \A j \in DOMAIN t : \A i \in 1..(j - 1) : ~Less(t[j], t[i])
  <2> HIDE DEF k
  <2>1. QED
    BY <1>2, <1>3, WsSortedIs
<1>5. u = t
  <2>1. u = <<>> \o t
    BY <1>1, <1>2
  <2> HIDE DEF t, u
  <2>2. QED
    BY <1>4, <2>1
<1>6. FixupChildren(s) = WsNumbered(u)
  BY DEF FixupChildren, WsNumbered
<1> HIDE DEF u, k, t
<1> DEFINE F == WsNumbered(t)
<1>7. WsKeeps(t, F) /\ \E n \in Nat : \E at \in [1..n -> DOMAIN t] : WsNumberedBy(t, n, at)
  <2>1. \A x \in S : WsNode(x)
    BY DEF WsLeaf
  <2>2. QED
    BY <1>3, <1>4, <2>1, WsNumberedIs
<1>8. WsKeeps(s, F)
  BY <1>2, <1>4, <1>7 DEF WsKeeps
<1>9. PICK n \in Nat : \E at \in [1..n -> DOMAIN t] : WsNumberedBy(t, n, at)
  BY <1>7
<1>10. PICK at \in [1..n -> DOMAIN t] : WsNumberedBy(t, n, at)
  BY <1>9
<1>11. /\ DOMAIN F = 1..n /\ \A i \in 1..n : F[i].column = i - 1 /\ WsAlike(F[i], t[at[i]])
       /\ \A i, j \in 1..n : i < j => at[i] < at[j]
       /\ \A i \in 1..n : at[i] = 1 \/ ~Same(t[at[i] - 1], t[at[i]])
  BY <1>10 DEF WsNumberedBy, WsUniqueBy
<1> HIDE DEF F
<1>12. Len(t) \in Nat /\ DOMAIN t = 1..Len(t) /\ \A p \in DOMAIN t : t[p] \in S
  BY <1>4
<1>13. ASSUME NEW i \in 1..n, NEW j \in 1..n, j < i PROVE Less(t[at[j]], t[at[i]])
  <2>1. at[j] < at[i] /\ at[j] \in 1..Len(t) /\ at[i] \in 1..Len(t)
    BY <1>10, <1>11, <1>12, <1>13
  <2>2. at[i] # 1 /\ at[i] - 1 \in 1..Len(t) /\ at[i] - 1 \in 1..(at[i] - 1) /\ at[j] <= at[i] - 1
    BY <1>12, <2>1
  <2> DEFINE a == t[at[j]]
             b == t[at[i] - 1]
             c == t[at[i]]
  <2>3. a \in S /\ b \in S /\ c \in S
    BY <1>12, <2>1, <2>2
  <2>4. ~Same(b, c) /\ ~Less(c, b)
    BY <1>4, <1>11, <1>12, <2>1, <2>2
  <2>5. a = b \/ ~Less(b, a)
    <3>1. CASE at[j] = at[i] - 1
      BY <3>1
    <3>2. CASE at[j] # at[i] - 1
      <4>1. at[j] \in 1..((at[i] - 1) - 1)
        BY <1>12, <2>1, <2>2, <3>2
      <4>2. QED
        BY <1>4, <1>12, <2>2, <4>1
    <3>3. QED
      BY <3>1, <3>2
  <2> HIDE DEF a, b, c
  <2>6. Less(b, c)
    BY <1>3, <2>3, <2>4
  <2>7. Less(a, c)
    BY <1>3, <2>3, <2>5, <2>6 DEF WsOrders
  <2>8. QED
    BY <2>7 DEF a, c
<1>14. \A i \in 1..n : F[i].children = <<>>
  BY <1>10, <1>11, <1>12 DEF WsAlike, WsLeaf
<1>15. \A x, y, v, w : WsAlike(x, v) /\ WsAlike(y, w) /\ Less(v, w) => Less(x, y)
  BY DEF WsAlike, Less
<1>16. NumberedInOrder(F)
  <2>1. \A i \in 1..n : \A j \in 1..(i - 1) : j \in 1..n /\ j < i
    OBVIOUS
  <2>2. \A i \in 1..n : \A j \in 1..(i - 1) : Less(F[j], F[i])
    BY <1>11, <1>13, <1>15, <2>1
  <2>3. QED
    BY <1>11, <1>14, <2>2 DEF NumberedInOrder
<1>17. QED
  BY <1>5, <1>6, <1>8, <1>16 DEF F

WsShown(k, items) == {r \in DOMAIN wsRecipes : WorkshopCanShowRecipe(r, Filter(k), items)}

\* The lookup table has the recipes that can be shown under a keyword.
LEMMA WsTableIs ==
  ASSUME WsData, NEW k, NEW items
  PROVE  Table(k, items) \in Seq(WsShown(k, items)) /\ ToSet(Table(k, items)) = WsShown(k, items)
<1> DEFINE P == WsShown(k, items)
           before == [r \in P |-> {q \in P : wsRecipes[q].id < wsRecipes[r].id}]
           n == Cardinality(P)
           t == Table(k, items)
<1>1. P \subseteq DOMAIN wsRecipes /\ IsFiniteSet(P)
  <2>1. P \in SUBSET DOMAIN wsRecipes
    BY DEF WsShown
  <2>2. IsFiniteSet(DOMAIN wsRecipes)
    BY MenuAssumption DEF WsData
  <2>3. QED
    BY <2>1, <2>2, FS_Subset
<1>2. t = Arranged(P, before)
  BY DEF Table, WsShown
<1> HIDE DEF P
<1>3. /\ \A r \in P : wsRecipes[r].id \in Nat
      /\ \A r, q \in P : wsRecipes[r].id = wsRecipes[q].id => r = q
  <2>1. /\ \A r \in DOMAIN wsRecipes : wsRecipes[r].id \in Nat
        /\ \A r, q \in DOMAIN wsRecipes : wsRecipes[r].id = wsRecipes[q].id => r = q
    BY MenuAssumption DEF WsData
  <2>2. QED
    BY <1>1, <2>1
<1>4. /\ \A x \in P : before[x] \in SUBSET P /\ x \notin before[x]
      /\ \A x, y \in P : x \in before[y] <=> wsRecipes[x].id < wsRecipes[y].id
  BY <1>3
<1> HIDE DEF before
<1>5. \A x, y \in P : x # y => x \in before[y] \/ y \in before[x]
  BY <1>3, <1>4
<1>6. \A x, y \in P : x \in before[y] => before[x] \subseteq before[y]
  BY <1>3, <1>4
<1>7. n \in Nat /\ t \in [1..n -> P] /\ \A x \in P : \E i \in 1..n : t[i] = x
  BY <1>1, <1>2, <1>4, <1>5, <1>6, ArrangedIs
<1> HIDE DEF n, t
<1>8. t \in Seq(P)
  BY <1>7
<1>9. ToSet(t) = P
  BY <1>7 DEF ToSet
<1>10. QED
  BY <1>8, <1>9 DEF t, P

\* The leaves of a recipe are items, one for each form it makes.
LEMMA WsMakeLeafIs ==
  ASSUME WsData, NEW r \in DOMAIN wsRecipes
  PROVE  /\ MakeLeaf(r) \in Seq(ToSet(MakeLeaf(r)))
         /\ \A x \in ToSet(MakeLeaf(r)) : WsLeaf(x) /\ x.recipe = r
         /\ \A f \in ToSet(wsRecipes[r].created) : \E x \in ToSet(MakeLeaf(r)) : x.form = f
<1> DEFINE c == wsRecipes[r].created
           m == MakeLeaf(r)
           source == IF wsRecipes[r].createsList THEN r ELSE NoForm
<1>1. c \in Seq(ToSet(c)) /\ (~wsRecipes[r].createsList => Len(c) = 1)
  BY MenuAssumption DEF WsData
<1>2. DOMAIN c = 1..Len(c) /\ Len(c) \in Nat
  BY <1>1
<1>3. DOMAIN m = 1..Len(c) /\ (\A i \in 1..Len(c) : m[i] = Leaf(r, source, c[i])) /\ m = [i \in 1..Len(c) |-> m[i]]
  <2>1. CASE wsRecipes[r].createsList
    <3>1. m = [i \in 1..Len(c) |-> Leaf(r, source, c[i])]
      BY <1>2, <2>1 DEF MakeLeaf
    <3> HIDE DEF m, c, source
    <3>2. QED
      BY <3>1
  <2>2. CASE ~wsRecipes[r].createsList
    <3>1. m = << Leaf(r, source, c[1]) >> /\ Len(c) = 1
      BY <1>1, <2>2 DEF MakeLeaf
    <3> HIDE DEF m, c, source
    <3>2. QED
      BY <3>1
  <2>3. QED
    BY <2>1, <2>2
<1>4. ASSUME NEW i \in 1..Len(c) PROVE WsLeaf(m[i]) /\ m[i].recipe = r /\ m[i].form = c[i]
  <2>1. c[i] \in ToSet(c)
    BY <1>2 DEF ToSet
  <2>2. m[i] = [filterKeyword |-> NoForm, recipe |-> r, source |-> source, form |-> c[i],
                children |-> <<>>, column |-> 0]
    BY <1>3 DEF Leaf
  <2> HIDE DEF m
  <2>3. QED
    BY <2>1, <2>2 DEF WsLeaf, WsNode
<1>5. \A f \in ToSet(c) : \E i \in 1..Len(c) : c[i] = f
  BY <1>2 DEF ToSet
<1> HIDE DEF m, c
<1>6. m \in Seq(ToSet(m))
  <2>1. \A i \in 1..Len(c) : m[i] \in ToSet(m)
    BY <1>3 DEF ToSet
  <2>2. m \in [1..Len(c) -> ToSet(m)]
    BY <1>3, <2>1
  <2>3. QED
    BY <1>2, <2>2
<1>7. \A x \in ToSet(m) : WsLeaf(x) /\ x.recipe = r
  BY <1>3, <1>4 DEF ToSet
<1>8. \A f \in ToSet(c) : \E x \in ToSet(m) : x.form = f
  BY <1>3, <1>4, <1>5 DEF ToSet
<1>9. QED
  BY <1>6, <1>7, <1>8 DEF m, c

WsLeavesRight(k, items, L) ==
    /\ L \in Seq(ToSet(L)) /\ NumberedInOrder(L)
    /\ \A x \in ToSet(L) : WsLeaf(x) /\ x.recipe \in WsShown(k, items)
    /\ \A r \in WsShown(k, items) : \A f \in ToSet(wsRecipes[r].created) :
         \E x \in ToSet(L) : x.recipe = r /\ x.form = f

\* Under a keyword are the forms of the recipes that it can show, and no others.
LEMMA WsLeavesAre ==
  ASSUME WsData, NEW k, NEW items
  PROVE  WsLeavesRight(k, items, Leaves(k, items))
<1> DEFINE P == WsShown(k, items)
           t == Table(k, items)
           ss == [i \in DOMAIN t |-> MakeLeaf(t[i])]
           s == FlattenSeq(ss)
           S == UNION {ToSet(MakeLeaf(r)) : r \in P}
           L == FixupChildren(s)
<1>1. Leaves(k, items) = L
  BY DEF Leaves
<1>2. t \in Seq(P) /\ ToSet(t) = P /\ P \subseteq DOMAIN wsRecipes
  BY WsTableIs DEF WsShown
<1> HIDE DEF P, t
<1>3. Len(t) \in Nat /\ DOMAIN t = 1..Len(t) /\ DOMAIN ss = 1..Len(t)
  BY <1>2
<1>4. \A r \in P : MakeLeaf(r) \in Seq(S)
  <2> SUFFICES ASSUME NEW r \in P PROVE MakeLeaf(r) \in Seq(S)
    OBVIOUS
  <2>1. MakeLeaf(r) \in Seq(ToSet(MakeLeaf(r)))
    BY <1>2, WsMakeLeafIs
  <2>2. ToSet(MakeLeaf(r)) \subseteq S
    OBVIOUS
  <2> HIDE DEF S
  <2>3. QED
    BY <2>1, <2>2
<1>5. \A i \in 1..Len(t) : t[i] \in P /\ ss[i] = MakeLeaf(t[i])
  BY <1>2, <1>3
<1>6. s \in Seq(S) /\ ToSet(s) = UNION {ToSet(ss[i]) : i \in 1..Len(t)}
  <2>1. \A i \in 1..Len(t) : ss[i] \in Seq(S)
    BY <1>4, <1>5
  <2> HIDE DEF ss, S
  <2>2. QED
    BY <1>3, <2>1, FlattensTo
<1>7. \A x \in S : WsLeaf(x) /\ x.recipe \in P
  BY <1>2, WsMakeLeafIs
<1>8. WsKeeps(s, L) /\ NumberedInOrder(L)
  <2> HIDE DEF s, S
  <2>1. QED
    BY <1>6, <1>7, WsFixupOfLeaves
<1>9. ToSet(s) = S
  <2>1. \A r \in P : \E i \in 1..Len(t) : t[i] = r
    BY <1>2, <1>3 DEF ToSet
  <2> HIDE DEF s, ss
  <2>2. QED
    BY <1>5, <1>6, <2>1
<1> HIDE DEF s, L
<1>10. \A x \in ToSet(L) : WsNode(x) /\ \E y \in S : WsAlike(x, y)
  BY <1>8, <1>9 DEF WsKeeps
<1>11. \A x \in ToSet(L) : WsLeaf(x) /\ x.recipe \in P
  <2> SUFFICES ASSUME NEW x \in ToSet(L) PROVE WsLeaf(x) /\ x.recipe \in P
    OBVIOUS
  <2>1. PICK y \in S : WsAlike(x, y)
    BY <1>10
  <2>2. WsLeaf(y) /\ y.recipe \in P /\ WsNode(x)
    BY <1>7, <1>10
  <2>3. QED
    BY <2>1, <2>2 DEF WsLeaf, WsAlike
<1>12. ASSUME NEW r \in P, NEW f \in ToSet(wsRecipes[r].created)
       PROVE  \E x \in ToSet(L) : x.recipe = r /\ x.form = f
  <2>1. PICK y \in ToSet(MakeLeaf(r)) : y.form = f
    BY <1>2, WsMakeLeafIs
  <2>2. y.recipe = r /\ y \in S
    BY <1>2, WsMakeLeafIs
  <2>3. PICK x \in ToSet(L) : WsAlike(x, y)
    BY <1>8, <1>9, <2>2 DEF WsKeeps
  <2>4. QED
    BY <2>1, <2>2, <2>3 DEF WsAlike
<1>13. WsLeavesRight(k, items, L)
  BY <1>8, <1>11, <1>12 DEF WsLeavesRight, WsKeeps, P
<1>14. QED
  BY <1>1, <1>13

-----------------------------------------------------------------------------
(* The workshop menu: the recursion over lists ends *)

\* The lists below a list are fewer, the deeper it is.
WsRank(l) == Cardinality(Reachable({l}))

LEMMA WsRankFalls ==
  ASSUME WsData, Acyclic, NEW l \in FormLists
  PROVE  /\ WsRank(l) \in Nat /\ WsRank(l) >= 1
         /\ l \in SubLists => WsRank(l) <= Cardinality(SubLists)
         /\ \A m \in SubListsOf(l) : WsRank(m) < WsRank(l)
<1>1. /\ IsFiniteSet(FormLists) /\ IsFiniteSet(SubLists) /\ SubLists \subseteq FormLists
      /\ RootList \notin SubLists
  BY FwDataIs, WorkshopAssumption DEF WsData, FwData
<1>2. \A m : SubListsOf(m) \subseteq SubLists
  BY DEF SubListsOf
<1>3. \A m \in FormLists : m \in Reachable({m}) /\ Reachable({m}) \in SUBSET FormLists
  BY DEF Reachable
<1>4. \A m \in FormLists : IsFiniteSet(Reachable({m})) /\ WsRank(m) \in Nat
  BY <1>1, <1>3, FS_Subset, FS_CardinalityType DEF WsRank
<1>5. \A m \in SubLists : Reachable({m}) \in SUBSET SubLists
  <2> SUFFICES ASSUME NEW m \in SubLists, NEW x \in Reachable({m}) PROVE x \in SubLists
    OBVIOUS
  <2>1. /\ SubLists \in SUBSET FormLists /\ {m} \subseteq SubLists
        /\ \A y \in SubLists : SubListsOf(y) \subseteq SubLists
    BY <1>1, <1>2
  <2>2. QED
    BY <2>1 DEF Reachable
<1>6. WsRank(l) >= 1
  <2>1. {l} \in SUBSET Reachable({l})
    BY <1>3
  <2>2. Cardinality({l}) <= Cardinality(Reachable({l})) /\ Cardinality({l}) = 1
    BY <1>4, <2>1, FS_Subset, FS_Singleton
  <2>3. QED
    BY <1>4, <2>2 DEF WsRank
<1>7. ASSUME l \in SubLists PROVE WsRank(l) <= Cardinality(SubLists)
  BY <1>1, <1>5, <1>7, FS_Subset DEF WsRank
<1>8. ASSUME NEW m \in SubListsOf(l) PROVE WsRank(m) < WsRank(l)
  <2>1. m \in SubLists /\ m \in FormLists
    BY <1>1, <1>2
  <2>2. Reachable({m}) \subseteq Reachable({l})
    BY DEF Reachable
  <2>3. l \notin Reachable({m})
    <3>1. CASE l \in SubLists
      <4>1. l \notin Reachable(SubListsOf(l))
        BY <3>1 DEF Acyclic
      <4>2. Reachable({m}) \subseteq Reachable(SubListsOf(l))
        BY <1>8 DEF Reachable
      <4>3. QED
        BY <4>1, <4>2
    <3>2. CASE l \notin SubLists
      BY <1>5, <2>1, <3>2
    <3>3. QED
      BY <3>1, <3>2
  <2>4. Reachable({m}) \in SUBSET Reachable({l}) /\ Reachable({m}) # Reachable({l})
    BY <1>3, <2>2, <2>3
  <2>5. /\ Cardinality(Reachable({m})) <= Cardinality(Reachable({l}))
        /\ Cardinality(Reachable({m})) # Cardinality(Reachable({l}))
    BY <1>4, <2>4, FS_Subset
  <2>6. QED
    BY <1>4, <2>1, <2>5 DEF WsRank
<1>9. QED
  BY <1>4, <1>6, <1>7, <1>8

\* What the next entry of a list adds, and what its node has then, by what f has
\* for the lists below.
WsAdded(f, x, items) ==
    LET form == wsLists[x[1]][x[2]]
        nested == IF form \in SubLists THEN f[WholeList(form)] ELSE <<>>
        added == IF form = NoForm \/ form \in deleted THEN <<>> ELSE MakeSubMenu(form, nested, items)
    IN  Kept(added, {i \in DOMAIN added : added[i].children # <<>>})

WsAll(f, x, items) ==
    IF x[2] = 0 THEN <<>> ELSE FixupChildren(f[<<x[1], x[2] - 1>>] \o WsAdded(f, x, items))

WsTargets(x) ==
    IF x[2] = 0 THEN {}
    ELSE {<<x[1], x[2] - 1>>} \cup {WholeList(l) : l \in {wsLists[x[1]][x[2]]} \cap SubLists}

\* Begun lists are finitely many, and what one links to is begun.
LEMMA WsBegunIs ==
  ASSUME WsData
  PROVE  /\ IsFiniteSet(Begun)
         /\ \A x \in Begun : /\ x[1] \in FormLists /\ x[2] \in 0..Len(wsLists[x[1]]) /\ x[2] \in Nat
                             /\ x = <<x[1], x[2]>>
                             /\ WsTargets(x) \subseteq Begun
         /\ \A l \in FormLists : \A n \in 0..Len(wsLists[l]) : <<l, n>> \in Begun
         /\ \A l \in FormLists : WholeList(l) \in Begun
<1>1. IsFiniteSet(FormLists) /\ SubLists \subseteq FormLists
  BY FwDataIs DEF WsData, FwData
<1>2. \A l \in FormLists : Len(wsLists[l]) \in Nat /\ DOMAIN wsLists[l] = 1..Len(wsLists[l])
  BY DEF WsData
<1>3. \A l \in FormLists : \A n \in 0..Len(wsLists[l]) : <<l, n>> \in Begun
  BY DEF Begun
<1>4. \A l \in FormLists : WholeList(l) \in Begun
  BY <1>2, <1>3 DEF WholeList
<1>5. ASSUME NEW x \in Begun
      PROVE  /\ x[1] \in FormLists /\ x[2] \in 0..Len(wsLists[x[1]]) /\ x[2] \in Nat
             /\ x = <<x[1], x[2]>>
             /\ WsTargets(x) \subseteq Begun
  <2>1. PICK l \in FormLists : x \in {l} \X (0..Len(wsLists[l]))
    BY DEF Begun
  <2>2. x[1] \in FormLists /\ x[2] \in 0..Len(wsLists[x[1]]) /\ x[2] \in Nat /\ x = <<x[1], x[2]>>
    BY <1>2, <2>1
  <2>3. x[2] # 0 => x[2] - 1 \in 0..Len(wsLists[x[1]])
    BY <1>2, <2>2
  <2>4. QED
    BY <1>1, <1>3, <1>4, <2>2, <2>3 DEF WsTargets
<1>6. IsFiniteSet(Begun)
  <2> DEFINE N == UNION {0..Len(wsLists[l]) : l \in FormLists}
             sizes == {0..Len(wsLists[l]) : l \in FormLists}
             g == [l \in FormLists |-> 0..Len(wsLists[l])]
  <2>1. IsFiniteSet(sizes)
    <3>1. g \in Surjection(FormLists, sizes)
      BY DEF Surjection
    <3> HIDE DEF g, sizes
    <3>2. QED
      BY <1>1, <3>1, FS_Surjection
  <2>2. \A e \in sizes : IsFiniteSet(e)
    <3> SUFFICES ASSUME NEW l \in FormLists PROVE IsFiniteSet(0..Len(wsLists[l]))
      OBVIOUS
    <3>1. 0 \in Int /\ Len(wsLists[l]) \in Int
      BY <1>2
    <3>2. QED
      BY <3>1, FS_Interval
  <2>3. IsFiniteSet(N)
    <3>1. N = UNION sizes
      OBVIOUS
    <3> HIDE DEF N, sizes
    <3>2. QED
      BY <2>1, <2>2, <3>1, FS_UNION
  <2>4. IsFiniteSet(FormLists \X N)
    <3> HIDE DEF N
    <3>1. QED
      BY <1>1, <2>3, FS_Product
  <2>5. Begun \in SUBSET (FormLists \X N)
    BY <1>5
  <2>6. QED
    BY <2>4, <2>5, FS_Subset
<1>7. QED
  BY <1>3, <1>4, <1>5, <1>6

\* Among any begun lists there is one that needs none of the others.
LEMMA WsTargetsEnd ==
  ASSUME WsData, Acyclic, NEW S \in SUBSET Begun, S # {}
  PROVE  \E x \in S : WsTargets(x) \cap S = {}
<1> DEFINE R == {WsRank(x[1]) : x \in S}
<1>1. \A x \in S : x[1] \in FormLists /\ x[2] \in 0..Len(wsLists[x[1]]) /\ x[2] \in Nat /\ WsRank(x[1]) \in Nat
  BY WsBegunIs, WsRankFalls
<1>2. PICK k \in R : \A y \in R : k <= y
  <2>1. R \in SUBSET Nat /\ R # {}
    BY <1>1
  <2> HIDE DEF R
  <2>2. QED
    BY <2>1, LeastOf
<1> DEFINE M == {n \in Nat : \E x \in S : WsRank(x[1]) = k /\ x[2] = n}
<1>3. PICK n \in M : \A y \in M : n <= y
  <2>1. M \in SUBSET Nat /\ M # {}
    BY <1>1, <1>2
  <2> HIDE DEF M
  <2>2. QED
    BY <2>1, LeastOf
<1>4. PICK x \in S : WsRank(x[1]) = k /\ x[2] = n
  BY <1>3
<1>5. ASSUME NEW y \in S, y = <<x[1], x[2] - 1>> PROVE FALSE
  <2>1. y[1] = x[1] /\ y[2] = x[2] - 1
    BY <1>5
  <2>2. x[2] - 1 \in Nat
    BY <1>1, <2>1
  <2>3. x[2] - 1 \in M
    BY <1>4, <2>1, <2>2
  <2>4. QED
    BY <1>1, <1>3, <1>4, <2>2, <2>3
<1>6. ASSUME NEW l \in SubLists, wsLists[x[1]][x[2]] = l, x[2] # 0, WholeList(l) \in S PROVE FALSE
  <2>1. l \in SubListsOf(x[1])
    <3>1. x[2] \in DOMAIN wsLists[x[1]]
      BY <1>1, <1>6 DEF WsData
    <3>2. QED
      BY <1>6, <3>1 DEF SubListsOf, ToSet
  <2>2. WsRank(l) < WsRank(x[1])
    BY <1>1, <2>1, WsRankFalls
  <2>3. WsRank(l) \in R /\ WsRank(l) \in Nat
    <3>1. WholeList(l)[1] = l
      BY DEF WholeList
    <3>2. QED
      BY <1>1, <1>6, <3>1
  <2>4. k <= WsRank(l)
    <3> HIDE DEF R
    <3>1. QED
      BY <1>2, <2>3
  <2>5. k \in Nat
    BY <1>1, <1>4
  <2>6. QED
    BY <1>4, <2>2, <2>3, <2>4, <2>5
<1>7. WsTargets(x) \cap S = {}
  <2> SUFFICES ASSUME NEW y \in WsTargets(x), y \in S PROVE FALSE
    OBVIOUS
  <2>1. x[2] # 0 /\ (y = <<x[1], x[2] - 1>> \/ \E l \in {wsLists[x[1]][x[2]]} \cap SubLists : y = WholeList(l))
    BY DEF WsTargets
  <2>2. QED
    BY <1>5, <1>6, <2>1
<1>8. QED
  BY <1>7

\* A begun list's node depends on the function at its links only.
LEMMA WsAllAgrees ==
  ASSUME WsData, NEW x \in Begun, NEW f, NEW g, NEW items, \A y \in WsTargets(x) : f[y] = g[y]
  PROVE  WsAll(f, x, items) = WsAll(g, x, items)
<1>1. CASE x[2] = 0
  BY <1>1 DEF WsAll
<1>2. CASE x[2] # 0
  <2> DEFINE form == wsLists[x[1]][x[2]]
  <2>1. f[<<x[1], x[2] - 1>>] = g[<<x[1], x[2] - 1>>]
    BY <1>2 DEF WsTargets
  <2>2. form \in SubLists => f[WholeList(form)] = g[WholeList(form)]
    BY <1>2 DEF WsTargets
  <2> HIDE DEF form
  <2>3. (IF form \in SubLists THEN f[WholeList(form)] ELSE <<>>)
        = (IF form \in SubLists THEN g[WholeList(form)] ELSE <<>>)
    BY <2>2
  <2>4. WsAdded(f, x, items) = WsAdded(g, x, items)
    BY <2>3 DEF WsAdded, form
  <2>5. QED
    BY <1>2, <2>1, <2>4 DEF WsAll
<1>3. QED
  BY <1>1, <1>2

WsSolved(f, D, items) ==
    /\ D \subseteq Begun /\ DOMAIN f = D /\ \A x \in D : WsTargets(x) \subseteq D
    /\ \A x \in D : f[x] = WsAll(f, x, items)

\* As no list contains itself, the code's recursion ends: its function exists.
LEMMA WsChildrenAre ==
  ASSUME WsData, Acyclic, NEW items
  PROVE  \A x \in Begun : EnumerateFLST(items)[x] = WsAll(EnumerateFLST(items), x, items)
<1> DEFINE N == Cardinality(Begun)
           Solves(f) == f = [x \in Begun |-> WsAll(f, x, items)]
           T == {n \in 0..N : \E f, D : WsSolved(f, D, items) /\ IsFiniteSet(D) /\ Cardinality(D) = n}
<1>1. IsFiniteSet(Begun) /\ N \in Nat
  BY WsBegunIs, FS_CardinalityType
<1>2. 0 \in T
  <2>1. WsSolved([x \in {} |-> x], {}, items)
    BY DEF WsSolved
  <2>2. QED
    BY <1>1, <2>1, FS_EmptySet
<1>3. ASSUME NEW n \in 0..(N - 1), n \in T PROVE n + 1 \in T
  <2>1. PICK f, D : WsSolved(f, D, items) /\ IsFiniteSet(D) /\ Cardinality(D) = n
    BY <1>3
  <2>2. D \in SUBSET Begun /\ DOMAIN f = D
        /\ (\A x \in D : WsTargets(x) \subseteq D /\ f[x] = WsAll(f, x, items))
    BY <2>1 DEF WsSolved
  <2>3. Begun \ D # {}
    <3>1. D # Begun
      BY <1>1, <2>1
    <3>2. QED
      BY <2>2, <3>1
  <2>4. PICK x \in Begun \ D : WsTargets(x) \cap (Begun \ D) = {}
    <3>1. Begun \ D \in SUBSET Begun
      OBVIOUS
    <3>2. QED
      BY <2>3, <3>1, WsTargetsEnd
  <2>5. WsTargets(x) \subseteq D
    BY <2>4, WsBegunIs
  <2> DEFINE E == D \cup {x}
             g == [y \in E |-> IF y \in D THEN f[y] ELSE WsAll(f, x, items)]
  <2>6. \A y \in D : g[y] = f[y]
    OBVIOUS
  <2>7. g[x] = WsAll(f, x, items) /\ DOMAIN g = E
    BY <2>4
  <2> HIDE DEF g
  <2>8. ASSUME NEW y \in E PROVE WsTargets(y) \subseteq E /\ g[y] = WsAll(g, y, items)
    <3>1. y \in Begun /\ WsTargets(y) \subseteq D
      BY <2>2, <2>4, <2>5
    <3>2. WsAll(f, y, items) = WsAll(g, y, items)
      BY <2>6, <3>1, WsAllAgrees
    <3>3. g[y] = WsAll(f, y, items)
      BY <2>2, <2>6, <2>7
    <3>4. QED
      BY <3>1, <3>2, <3>3
  <2>9. WsSolved(g, E, items)
    BY <2>2, <2>4, <2>7, <2>8 DEF WsSolved
  <2>10. IsFiniteSet(E) /\ Cardinality(E) = n + 1
    BY <2>1, <2>4, FS_AddElement
  <2>11. QED
    BY <1>1, <2>9, <2>10
<1>4. \E f : Solves(f)
  <2>1. N \in T
    <3> HIDE DEF T
    <3>1. \A n \in 0..N : n \in T
      BY <1>1, <1>2, <1>3, Climbs
    <3>2. QED
      BY <1>1, <3>1
  <2>2. PICK f, D : WsSolved(f, D, items) /\ IsFiniteSet(D) /\ Cardinality(D) = N
    BY <2>1
  <2>3. D = Begun
    <3>1. D \in SUBSET Begun
      BY <2>2 DEF WsSolved
    <3>2. QED
      BY <1>1, <2>2, <3>1, FS_Subset
  <2> DEFINE g == [x \in Begun |-> f[x]]
  <2>4. \A x \in Begun : WsAll(g, x, items) = f[x]
    <3> SUFFICES ASSUME NEW x \in Begun PROVE WsAll(g, x, items) = f[x]
      OBVIOUS
    <3>1. WsTargets(x) \subseteq Begun
      BY WsBegunIs
    <3>2. \A y \in WsTargets(x) : g[y] = f[y]
      BY <3>1
    <3> HIDE DEF g
    <3>3. WsAll(g, x, items) = WsAll(f, x, items)
      BY <3>2, WsAllAgrees
    <3>4. QED
      BY <2>2, <2>3, <3>3 DEF WsSolved
  <2> DEFINE h == [x \in Begun |-> WsAll(g, x, items)]
  <2>5. g = h
    BY <2>4
  <2>6. Solves(g)
    BY <2>5
  <2> HIDE DEF Solves, g
  <2>7. QED
    BY <2>6
<1>5. EnumerateFLST(items) = CHOOSE f : Solves(f)
  BY DEF EnumerateFLST, WsAll, WsAdded
<1>6. Solves(EnumerateFLST(items))
  <2> HIDE DEF Solves
  <2>1. QED
    BY <1>4, <1>5
<1> DEFINE f == EnumerateFLST(items)
<1> HIDE DEF f
<1>7. Solves(f)
  BY <1>6 DEF f
<1>8. \A x \in Begun : f[x] = WsAll(f, x, items)
  BY <1>7
<1>9. QED
  BY <1>8 DEF f

\* What the kept entries of a sequence are.
LEMMA KeptSet ==
  ASSUME NEW S, NEW s \in Seq(S), NEW P \in SUBSET DOMAIN s
  PROVE  Kept(s, P) \in Seq(S) /\ ToSet(Kept(s, P)) = {s[p] : p \in P}
<1> DEFINE k == Kept(s, P)
<1>1. k \in Seq(S) /\ \E n \in Nat : \E at \in [1..n -> P] : KeptBy(s, P, n, at)
  BY KeptIs
<1>2. PICK n \in Nat : \E at \in [1..n -> P] : KeptBy(s, P, n, at)
  BY <1>1
<1>3. PICK at \in [1..n -> P] : KeptBy(s, P, n, at)
  BY <1>2
<1>4. DOMAIN k = 1..n /\ (\A i \in 1..n : k[i] = s[at[i]]) /\ \A p \in P : \E i \in 1..n : at[i] = p
  BY <1>3 DEF KeptBy
<1> HIDE DEF k
<1>5. ToSet(k) = {k[i] : i \in 1..n}
  BY <1>4 DEF ToSet
<1>6. ToSet(k) = {s[p] : p \in P}
  BY <1>3, <1>4, <1>5
<1>7. QED
  BY <1>1, <1>6 DEF k

-----------------------------------------------------------------------------
(* The workshop menu: what a list's node holds *)

\* The node x is what an entry of a list adds: a category that is not empty.
WsGives(form, x, items) ==
    /\ form \notin deleted
    /\ x.children # <<>> /\ x.recipe = NoForm /\ x.source = NoForm /\ x.form = NoForm
    /\ \/ /\ form \in Keywords /\ x.filterKeyword = form /\ x.children = Leaves(form, items)
       \/ /\ form \in Headed /\ x.filterKeyword = Head(wsLists[form])
          /\ x.children = EnumerateFLST(items)[WholeList(form)]

WsFull(form, items) == \E x : WsGives(form, x, items)

\* Two nodes that an entry gives are the same, under the entry's keyword.
LEMMA WsGivesOne ==
  ASSUME WsData, NEW form, NEW items, NEW x, WsGives(form, x, items)
  PROVE  /\ x.filterKeyword = CategoryOf(form)
         /\ \A y : WsGives(form, y, items) <=> WsAlike(y, x)
<1>1. Keywords \cap SubLists = {} /\ Headed \subseteq SubLists
  BY WorkshopAssumption DEF FormLists, Headed
<1>2. x.filterKeyword = CategoryOf(form)
  BY <1>1 DEF WsGives, CategoryOf
<1>3. QED
  BY <1>1, <1>2 DEF WsGives, WsAlike

\* An entry adds the category it gives, and otherwise nothing.
LEMMA WsAddedIs ==
  ASSUME WsData, NEW l \in FormLists, NEW n \in 1..Len(wsLists[l]), NEW items
  PROVE  LET form == wsLists[l][n]
             A == WsAdded(EnumerateFLST(items), <<l, n>>, items)
         IN  /\ ~WsFull(form, items) => A = <<>>
             /\ WsFull(form, items) => \E c : A = <<c>> /\ WsNode(c) /\ WsGives(form, c, items)
<1> DEFINE form == wsLists[l][n]
           T == EnumerateFLST(items)
           nested == IF form \in SubLists THEN T[WholeList(form)] ELSE <<>>
           added == IF form = NoForm \/ form \in deleted THEN <<>> ELSE MakeSubMenu(form, nested, items)
           P == {i \in DOMAIN added : added[i].children # <<>>}
           A == WsAdded(T, <<l, n>>, items)
<1>1. A = Kept(added, P)
  BY DEF WsAdded
<1>2. Keywords \cap SubLists = {} /\ NoForm \notin Keywords /\ NoForm \notin SubLists /\ Headed \subseteq SubLists
  BY WorkshopAssumption, MenuAssumption DEF FormLists, Headed
<1> HIDE DEF A, T, form
<1> DEFINE byKeyword == form \in Keywords /\ Table(form, items) # <<>>
           byList == form \in SubLists /\ wsLists[form] # <<>> /\ Head(wsLists[form]) \in Keywords
           c == IF form \in Keywords THEN Category(form, Leaves(form, items))
                ELSE Category(Head(wsLists[form]), T[WholeList(form)])
           usable == form # NoForm /\ form \notin deleted
           adds == usable /\ (byKeyword \/ byList)
<1>3. added = IF adds THEN <<c>> ELSE <<>>
  BY <1>2 DEF MakeSubMenu
<1>4. usable /\ byList <=> form \in Headed
  BY <1>2 DEF Headed
<1>5. /\ c.children = IF form \in Keywords THEN Leaves(form, items) ELSE T[WholeList(form)]
      /\ c.filterKeyword = IF form \in Keywords THEN form ELSE Head(wsLists[form])
      /\ WsNode(c) /\ c.recipe = NoForm /\ c.source = NoForm /\ c.form = NoForm
  BY DEF Category, WsNode
<1> HIDE DEF c, added
<1>6. /\ added \in Seq({c}) /\ DOMAIN added = (IF adds THEN {1} ELSE {})
      /\ Len(added) = (IF adds THEN 1 ELSE 0) /\ \A i \in DOMAIN added : added[i] = c
  BY <1>3
<1>7. ASSUME adds, c.children # <<>> PROVE A = <<c>> /\ WsGives(form, c, items)
  <2>1. P = 1..1
    BY <1>6, <1>7
  <2>2. Kept(added, 1..1) = [i \in 1..1 |-> added[i]]
    <3>1. 1 \in Nat /\ 1 <= Len(added)
      BY <1>6, <1>7
    <3>2. QED
      BY <1>6, <3>1, WsKeptFirst
  <2>3. A = [i \in 1..1 |-> c]
    BY <1>1, <1>6, <2>1, <2>2
  <2>4. A = <<c>>
    <3>1. [i \in 1..1 |-> c] = <<c>>
      OBVIOUS
    <3>2. QED
      BY <2>3, <3>1
  <2>5. WsGives(form, c, items)
    BY <1>2, <1>4, <1>5, <1>7 DEF WsGives, T
  <2>6. QED
    BY <2>4, <2>5
<1>8. ASSUME ~(adds /\ c.children # <<>>) PROVE A = <<>>
  <2>1. P = {}
    BY <1>6, <1>8
  <2>2. QED
    BY <1>1, <1>6, <2>1, WsKeptNone
<1>9. ASSUME NEW x, WsGives(form, x, items) PROVE adds /\ c.children # <<>>
  <2>1. form \in Keywords => byKeyword
    <3> SUFFICES ASSUME form \in Keywords PROVE Table(form, items) # <<>>
      OBVIOUS
    <3> DEFINE L == Leaves(form, items)
    <3>1. L # <<>>
      BY <1>2, <1>9 DEF WsGives
    <3>2. L \in Seq(ToSet(L)) /\ \A y \in ToSet(L) : y.recipe \in WsShown(form, items)
      BY WsLeavesAre DEF WsLeavesRight
    <3> HIDE DEF L
    <3>3. L[1] \in ToSet(L)
      BY <3>1, <3>2
    <3>4. ToSet(Table(form, items)) # {}
      BY <3>2, <3>3, WsTableIs
    <3>5. ToSet(<<>>) = {}
      BY DEF ToSet
    <3>6. QED
      BY <3>4, <3>5
  <2>2. usable
    BY <1>2, <1>9 DEF WsGives
  <2>3. c.children # <<>>
    BY <1>2, <1>5, <1>9 DEF WsGives, T
  <2>4. QED
    BY <1>4, <1>9, <2>1, <2>2, <2>3 DEF WsGives
<1>10. QED
  BY <1>5, <1>7, <1>8, <1>9 DEF A, T, form, WsFull

\* An entry whose category stays: none with the same keyword comes directly before.
WsStays(l, p, items) ==
    /\ WsFull(wsLists[l][p], items)
    /\ \A h \in 1..(p - 1) :
         WsFull(wsLists[l][h], items) /\ CategoryOf(wsLists[l][h]) = CategoryOf(wsLists[l][p]) =>
           \E q \in (h + 1)..(p - 1) : WsFull(wsLists[l][q], items)

\* The last of the first n entries that gives a category.
WsLastFull(l, n, p, items) ==
    p \in 1..n /\ WsFull(wsLists[l][p], items) /\ \A q \in (p + 1)..n : ~WsFull(wsLists[l][q], items)

WsNodesRight(l, n, items) ==
    LET s == EnumerateFLST(items)[<<l, n>>]
    IN  /\ s \in Seq(ToSet(s))
        /\ \A i \in DOMAIN s :
             /\ WsNode(s[i]) /\ s[i].column = i - 1
             /\ \E p \in 1..n : WsStays(l, p, items) /\ WsGives(wsLists[l][p], s[i], items)
        /\ \A p \in 1..n : WsStays(l, p, items) => \E i \in DOMAIN s : WsGives(wsLists[l][p], s[i], items)
        /\ \A i \in 2..Len(s) : s[i - 1].filterKeyword # s[i].filterKeyword
        /\ \A p : WsLastFull(l, n, p, items) =>
             s # <<>> /\ s[Len(s)].filterKeyword = CategoryOf(wsLists[l][p])
        /\ s # <<>> => \E p : WsLastFull(l, n, p, items)

\* An entry that gives nothing leaves the node as it is.
LEMMA WsNextEmpty ==
  ASSUME WsData, Acyclic, NEW items, NEW l \in FormLists, NEW n \in 0..(Len(wsLists[l]) - 1),
         WsNodesRight(l, n, items), ~WsFull(wsLists[l][n + 1], items),
         EnumerateFLST(items)[<<l, n + 1>>] = FixupChildren(EnumerateFLST(items)[<<l, n>>])
  PROVE  WsNodesRight(l, n + 1, items)
<1> DEFINE s == EnumerateFLST(items)[<<l, n>>]
           F == EnumerateFLST(items)[<<l, n + 1>>]
           m == Len(s)
<1>1. /\ s \in Seq(ToSet(s)) /\ F = FixupChildren(s)
      /\ \A i \in DOMAIN s :
           /\ WsNode(s[i]) /\ s[i].column = i - 1
           /\ \E p \in 1..n : WsStays(l, p, items) /\ WsGives(wsLists[l][p], s[i], items)
      /\ \A p \in 1..n : WsStays(l, p, items) => \E i \in DOMAIN s : WsGives(wsLists[l][p], s[i], items)
      /\ \A i \in 2..Len(s) : s[i - 1].filterKeyword # s[i].filterKeyword
      /\ \A p : WsLastFull(l, n, p, items) =>
           s # <<>> /\ s[Len(s)].filterKeyword = CategoryOf(wsLists[l][p])
      /\ s # <<>> => \E p : WsLastFull(l, n, p, items)
  BY DEF WsNodesRight
<1> HIDE DEF s, F
<1>2. m \in Nat /\ DOMAIN s = 1..m /\ n \in Nat
  BY <1>1
<1>3. \A x \in ToSet(s) : WsNode(x) /\ x.children # <<>>
  BY <1>1 DEF ToSet, WsGives
<1>4. {i \in DOMAIN s : i = 1 \/ ~Same(s[i - 1], s[i])} = 1..m
  <2>1. \A i \in 1..m : i = 1 \/ i \in 2..m
    BY <1>2
  <2>2. QED
    BY <1>1, <1>2, <2>1 DEF Same
<1>5. /\ DOMAIN F = 1..m /\ F = [i \in 1..m |-> F[i]]
      /\ \A i \in 1..m : WsNode(F[i]) /\ F[i].column = i - 1 /\ WsAlike(F[i], s[i])
  <2> DEFINE S == ToSet(s)
  <2>1. s \in Seq(S) /\ m \in Nat /\ F = FixupChildren(s) /\ \A x \in S : WsNode(x) /\ x.children # <<>>
    BY <1>1, <1>2, <1>3
  <2> HIDE DEF m, S
  <2>2. QED
    BY <1>4, <2>1, WsFixupOfCategories
<1>6. F \in Seq(ToSet(F)) /\ Len(F) = m /\ (F # <<>> <=> s # <<>>)
  <2>1. \A i \in 1..m : F[i] \in ToSet(F)
    BY <1>5 DEF ToSet
  <2>2. F \in [1..m -> ToSet(F)]
    BY <1>5, <2>1
  <2>3. s \in Seq(ToSet(s)) /\ (s # <<>> <=> m # 0)
    <3>1. s \in Seq(ToSet(s))
      BY <1>1
    <3>2. QED
      BY <3>1
  <2> HIDE DEF m
  <2>4. F \in Seq(ToSet(F)) /\ Len(F) = m
    BY <1>2, <2>2
  <2>5. F # <<>> <=> m # 0
    BY <1>2, <2>4
  <2>6. QED
    BY <2>3, <2>4, <2>5
<1>7. \A p : p \in 1..(n + 1) <=> p \in 1..n \/ p = n + 1
  BY <1>2
<1>8. \A p : WsLastFull(l, n + 1, p, items) <=> WsLastFull(l, n, p, items)
  <2>1. \A p \in 1..n : \A q : q \in (p + 1)..(n + 1) <=> q \in (p + 1)..n \/ q = n + 1
    BY <1>2
  <2>2. QED
    BY <1>7, <2>1 DEF WsLastFull
<1>9. \A f : \A i \in 1..m : WsGives(f, F[i], items) <=> WsGives(f, s[i], items)
  BY <1>5 DEF WsAlike, WsGives
<1>10. ~WsStays(l, n + 1, items)
  BY DEF WsStays
<1>11. \A i \in 2..m : F[i - 1].filterKeyword # F[i].filterKeyword
  <2>1. \A i \in 2..m : i \in 1..m /\ i - 1 \in 1..m
    BY <1>2
  <2>2. QED
    BY <1>1, <1>5, <2>1 DEF WsAlike
<1>12. F # <<>> => F[m].filterKeyword = s[m].filterKeyword
  <2>1. F # <<>> => m \in 1..m
    BY <1>2, <1>6
  <2>2. QED
    BY <1>5, <2>1 DEF WsAlike
<1>13. /\ \A i \in DOMAIN F :
            /\ WsNode(F[i]) /\ F[i].column = i - 1
            /\ \E p \in 1..(n + 1) : WsStays(l, p, items) /\ WsGives(wsLists[l][p], F[i], items)
       /\ \A p \in 1..(n + 1) : WsStays(l, p, items) => \E i \in DOMAIN F : WsGives(wsLists[l][p], F[i], items)
  BY <1>1, <1>2, <1>5, <1>7, <1>9, <1>10
<1>14. /\ \A p : WsLastFull(l, n + 1, p, items) =>
            F # <<>> /\ F[Len(F)].filterKeyword = CategoryOf(wsLists[l][p])
       /\ F # <<>> => \E p : WsLastFull(l, n + 1, p, items)
  BY <1>1, <1>6, <1>8, <1>12
<1>15. QED
  BY <1>6, <1>11, <1>13, <1>14 DEF WsNodesRight, F

\* The category of an entry comes last, unless the last one has its keyword.
LEMMA WsNextFull ==
  ASSUME WsData, Acyclic, NEW items, NEW l \in FormLists, NEW n \in 0..(Len(wsLists[l]) - 1),
         WsNodesRight(l, n, items), NEW c, WsNode(c), WsGives(wsLists[l][n + 1], c, items),
         EnumerateFLST(items)[<<l, n + 1>>] = FixupChildren(EnumerateFLST(items)[<<l, n>>] \o <<c>>)
  PROVE  WsNodesRight(l, n + 1, items)
<1> DEFINE s == EnumerateFLST(items)[<<l, n>>]
           F == EnumerateFLST(items)[<<l, n + 1>>]
           k == Len(s)
           u == s \o <<c>>
           again == s # <<>> /\ s[k].filterKeyword = c.filterKeyword
           m == IF again THEN k ELSE k + 1
           S == ToSet(s) \cup {c}
<1>1. /\ s \in Seq(ToSet(s)) /\ F = FixupChildren(u)
      /\ \A i \in DOMAIN s :
           /\ WsNode(s[i]) /\ s[i].column = i - 1
           /\ \E p \in 1..n : WsStays(l, p, items) /\ WsGives(wsLists[l][p], s[i], items)
      /\ \A p \in 1..n : WsStays(l, p, items) => \E i \in DOMAIN s : WsGives(wsLists[l][p], s[i], items)
      /\ \A i \in 2..Len(s) : s[i - 1].filterKeyword # s[i].filterKeyword
      /\ \A p : WsLastFull(l, n, p, items) =>
           s # <<>> /\ s[Len(s)].filterKeyword = CategoryOf(wsLists[l][p])
      /\ s # <<>> => \E p : WsLastFull(l, n, p, items)
  BY DEF WsNodesRight
<1> HIDE DEF s, F
<1>2. k \in Nat /\ DOMAIN s = 1..k /\ n \in Nat /\ (s # <<>> <=> k # 0)
  BY <1>1
<1>3. /\ u \in Seq(S) /\ Len(u) = k + 1 /\ DOMAIN u = 1..(k + 1)
      /\ \A i \in 1..k : u[i] = s[i]
      /\ u[k + 1] = c
  <2>1. s \in Seq(S) /\ <<c>> \in Seq(S) /\ Len(<<c>>) = 1
    BY <1>1
  <2> HIDE DEF S
  <2>2. QED
    BY <1>2, <2>1
<1> HIDE DEF u
<1>4. \A x \in S : WsNode(x) /\ x.children # <<>> /\ x.recipe = NoForm /\ x.source = NoForm /\ x.form = NoForm
  <2>1. \A f, x : WsGives(f, x, items) =>
          x.children # <<>> /\ x.recipe = NoForm /\ x.source = NoForm /\ x.form = NoForm
    BY DEF WsGives
  <2>2. \A x \in ToSet(s) : WsNode(x) /\ \E f : WsGives(f, x, items)
    BY <1>1 DEF ToSet
  <2>3. QED
    BY <2>1, <2>2
<1>5. c.filterKeyword = CategoryOf(wsLists[l][n + 1]) /\ WsFull(wsLists[l][n + 1], items)
  BY WsGivesOne DEF WsFull
<1>6. m \in Nat /\ m <= k + 1
  BY <1>2
<1>7. {i \in DOMAIN u : i = 1 \/ ~Same(u[i - 1], u[i])} = 1..m
  <2>1. ASSUME NEW i \in 1..k PROVE i = 1 \/ ~Same(u[i - 1], u[i])
    <3>1. i = 1 \/ (i \in 2..k /\ i - 1 \in 1..k)
      BY <1>2
    <3>2. QED
      BY <1>1, <1>3, <3>1 DEF Same
  <2>2. (k + 1 = 1 \/ ~Same(u[(k + 1) - 1], u[k + 1])) <=> ~again
    <3>1. k # 0 => k \in 1..k /\ (k + 1) - 1 = k /\ k + 1 # 1 /\ u[k] = s[k] /\ s[k] \in S
      BY <1>2, <1>3 DEF ToSet
    <3>2. k # 0 => (Same(s[k], c) <=> s[k].filterKeyword = c.filterKeyword)
      BY <1>4, <3>1 DEF Same
    <3>3. QED
      BY <1>2, <1>3, <3>1, <3>2
  <2>3. \A i : i \in 1..(k + 1) <=> i \in 1..k \/ i = k + 1
    BY <1>2
  <2> HIDE DEF again
  <2>4. QED
    BY <1>2, <1>3, <2>1, <2>2, <2>3
<1>8. /\ DOMAIN F = 1..m /\ F = [i \in 1..m |-> F[i]]
      /\ \A i \in 1..m : WsNode(F[i]) /\ F[i].column = i - 1 /\ WsAlike(F[i], u[i])
  <2>1. \A x \in S : WsNode(x) /\ x.children # <<>>
    BY <1>4
  <2> HIDE DEF m, S, again
  <2>2. u \in Seq(S) /\ m \in Nat /\ F = FixupChildren(u)
    BY <1>1, <1>3, <1>6
  <2>3. QED
    BY <1>7, <2>1, <2>2, WsFixupOfCategories
<1>9. F \in Seq(ToSet(F)) /\ Len(F) = m /\ m # 0 /\ F # <<>>
  <2>1. \A i \in 1..m : F[i] \in ToSet(F)
    BY <1>8 DEF ToSet
  <2>2. F \in [1..m -> ToSet(F)]
    <3> HIDE DEF m
    <3>1. QED
      BY <1>8, <2>1
  <2> m # 0
    BY <1>2
  <2> HIDE DEF m
  <2>3. QED
    BY <1>6, <2>2
<1>10. \A p : p \in 1..(n + 1) <=> p \in 1..n \/ p = n + 1
  BY <1>2
<1>11. \A p : WsLastFull(l, n + 1, p, items) <=> p = n + 1
  <2>1. \A p \in 1..n : n + 1 \in (p + 1)..(n + 1)
    BY <1>2
  <2>2. ((n + 1) + 1)..(n + 1) = {} /\ n + 1 \in 1..(n + 1)
    BY <1>2
  <2>3. QED
    BY <1>5, <1>10, <2>1, <2>2 DEF WsLastFull
<1>12. again <=> ~WsStays(l, n + 1, items)
  <2>1. ASSUME again PROVE ~WsStays(l, n + 1, items)
    <3>1. PICK p : WsLastFull(l, n, p, items)
      BY <1>1, <2>1
    <3>2. CategoryOf(wsLists[l][p]) = CategoryOf(wsLists[l][n + 1])
      BY <1>1, <1>5, <2>1, <3>1
    <3>3. p \in 1..((n + 1) - 1) /\ (n + 1) - 1 = n
      BY <1>2, <3>1 DEF WsLastFull
    <3>4. QED
      BY <3>1, <3>2, <3>3 DEF WsStays, WsLastFull
  <2>2. ASSUME ~WsStays(l, n + 1, items) PROVE again
    <3>1. PICK h \in 1..((n + 1) - 1) :
            /\ WsFull(wsLists[l][h], items) /\ CategoryOf(wsLists[l][h]) = CategoryOf(wsLists[l][n + 1])
            /\ ~ \E q \in (h + 1)..((n + 1) - 1) : WsFull(wsLists[l][q], items)
      BY <1>5, <2>2 DEF WsStays
    <3>2. (n + 1) - 1 = n
      BY <1>2
    <3>3. WsLastFull(l, n, h, items)
      BY <3>1, <3>2 DEF WsLastFull
    <3>4. QED
      BY <1>1, <1>5, <3>1, <3>3
  <2>3. QED
    BY <2>1, <2>2
<1> HIDE DEF again
<1>13. \A f : \A i \in 1..m : WsGives(f, F[i], items) <=> WsGives(f, u[i], items)
  BY <1>8 DEF WsAlike, WsGives
<1>14. \A i : i \in 1..m <=> i \in 1..k \/ (~again /\ i = k + 1)
  BY <1>2
<1>15. \A i \in DOMAIN F :
         /\ WsNode(F[i]) /\ F[i].column = i - 1
         /\ \E p \in 1..(n + 1) : WsStays(l, p, items) /\ WsGives(wsLists[l][p], F[i], items)
  <2> HIDE DEF m
  <2>1. ASSUME NEW i \in 1..m
        PROVE  \E p \in 1..(n + 1) : WsStays(l, p, items) /\ WsGives(wsLists[l][p], u[i], items)
    BY <1>1, <1>2, <1>3, <1>10, <1>12, <1>14
  <2>2. QED
    BY <1>8, <1>13, <2>1
<1>16. \A p \in 1..(n + 1) : WsStays(l, p, items) => \E i \in DOMAIN F : WsGives(wsLists[l][p], F[i], items)
  <2> HIDE DEF m
  <2>1. ASSUME NEW p \in 1..(n + 1), WsStays(l, p, items)
        PROVE  \E i \in 1..m : WsGives(wsLists[l][p], u[i], items)
    <3>1. CASE p \in 1..n
      BY <1>1, <1>2, <1>3, <1>14, <2>1, <3>1
    <3>2. CASE p = n + 1
      BY <1>3, <1>12, <1>14, <2>1, <3>2
    <3>3. QED
      BY <1>10, <3>1, <3>2
  <2>2. QED
    BY <1>8, <1>13, <2>1
<1>17. \A i \in 1..m : F[i].filterKeyword = u[i].filterKeyword
  BY <1>8 DEF WsAlike
<1>18. \A i \in 2..m : F[i - 1].filterKeyword # F[i].filterKeyword
  <2> SUFFICES ASSUME NEW i \in 2..m PROVE u[i - 1].filterKeyword # u[i].filterKeyword
    <3>1. \A i \in 2..m : i \in 1..m /\ i - 1 \in 1..m
      BY <1>6
    <3> HIDE DEF m
    <3>2. QED
      BY <1>17, <3>1
  <2>1. CASE i \in 2..k
    <3>1. i \in 1..k /\ i - 1 \in 1..k
      BY <1>2, <2>1
    <3>2. QED
      BY <1>1, <1>3, <2>1, <3>1
  <2>2. CASE i \notin 2..k
    <3>1. i = k + 1 /\ ~again /\ k # 0 /\ i - 1 = k /\ k \in 1..k
      BY <1>2, <2>2
    <3>2. u[i - 1] = s[k] /\ u[i] = c
      BY <1>3, <3>1
    <3>3. QED
      BY <1>2, <3>1, <3>2 DEF again
  <2>3. QED
    BY <2>1, <2>2
<1>19. F[m].filterKeyword = c.filterKeyword
  <2>1. m \in 1..m
    BY <1>6, <1>9
  <2>2. u[m].filterKeyword = c.filterKeyword
    <3>1. CASE again
      <4>1. k \in 1..k /\ m = k
        BY <1>2, <3>1 DEF again
      <4>2. QED
        BY <1>3, <3>1, <4>1 DEF again
    <3>2. CASE ~again
      BY <1>3, <3>2
    <3>3. QED
      BY <3>1, <3>2
  <2> HIDE DEF m
  <2>3. QED
    BY <1>17, <2>1, <2>2
<1> HIDE DEF m
<1>20. QED
  BY <1>5, <1>9, <1>11, <1>15, <1>16, <1>18, <1>19 DEF WsNodesRight, F

\* After each of its entries a list's node holds what those so far give that stay.
LEMMA WsNodesAre ==
  ASSUME WsData, Acyclic, NEW items, NEW l \in FormLists
  PROVE  \A n \in 0..Len(wsLists[l]) : WsNodesRight(l, n, items)
<1> DEFINE N == Len(wsLists[l])
           T == EnumerateFLST(items)
           S == {n \in 0..N : WsNodesRight(l, n, items)}
<1>1. N \in Nat /\ \A n \in 0..N : <<l, n>> \in Begun /\ T[<<l, n>>] = WsAll(T, <<l, n>>, items)
  BY WsBegunIs, WsChildrenAre DEF WsData
<1>2. 0 \in S
  <2>1. T[<<l, 0>>] = <<>>
    <3>1. WsAll(T, <<l, 0>>, items) = <<>>
      BY DEF WsAll
    <3>2. 0 \in 0..N
      BY <1>1
    <3>3. QED
      BY <1>1, <3>1, <3>2
  <2>2. <<>> \in Seq(ToSet(<<>>)) /\ DOMAIN <<>> = {} /\ Len(<<>>) = 0 /\ 1..0 = {} /\ 2..0 = {}
    OBVIOUS
  <2>3. \A p : ~WsLastFull(l, 0, p, items)
    BY <2>2 DEF WsLastFull
  <2>4. WsNodesRight(l, 0, items)
    BY <2>1, <2>2, <2>3 DEF WsNodesRight
  <2>5. QED
    BY <1>1, <2>4
<1>3. ASSUME NEW n \in 0..(N - 1), n \in S PROVE n + 1 \in S
  <2> DEFINE A == WsAdded(T, <<l, n + 1>>, items)
             s == T[<<l, n>>]
  <2>1. n + 1 \in 1..N /\ n + 1 \in 0..N /\ n \in 0..N /\ (n + 1) - 1 = n
    BY <1>1
  <2>2. T[<<l, n + 1>>] = FixupChildren(s \o A)
    <3>1. WsAll(T, <<l, n + 1>>, items) = FixupChildren(T[<<l, (n + 1) - 1>>] \o A)
      BY <2>1 DEF WsAll
    <3>2. QED
      BY <1>1, <2>1, <3>1
  <2>3. WsNodesRight(l, n, items)
    BY <1>3
  <2>4. s \in Seq(ToSet(s))
    BY <2>3 DEF WsNodesRight
  <2>5. CASE ~WsFull(wsLists[l][n + 1], items)
    <3>1. A = <<>>
      BY <2>1, <2>5, WsAddedIs
    <3>2. s \o A = s
      <4> HIDE DEF A, s
      <4>1. QED
        BY <2>4, <3>1
    <3>3. T[<<l, n + 1>>] = FixupChildren(s)
      BY <2>2, <3>2
    <3>4. QED
      BY <2>1, <2>3, <2>5, <3>3, WsNextEmpty
  <2>6. CASE WsFull(wsLists[l][n + 1], items)
    <3>1. PICK c : A = <<c>> /\ WsNode(c) /\ WsGives(wsLists[l][n + 1], c, items)
      BY <2>1, <2>6, WsAddedIs
    <3>2. T[<<l, n + 1>>] = FixupChildren(s \o <<c>>)
      BY <2>2, <3>1
    <3>3. QED
      BY <2>1, <2>3, <3>1, <3>2, WsNextFull
  <2>7. QED
    BY <2>5, <2>6
<1>4. \A n \in 0..N : n \in S
  <2> HIDE DEF S, N
  <2>1. QED
    BY <1>1, <1>2, <1>3, Climbs
<1>5. QED
  BY <1>4

-----------------------------------------------------------------------------
(* The workshop menu: the entries that have something to show *)

\* A keyword gives a category if one of its recipes can be shown and makes a form.
LEMMA WsShowsIs ==
  ASSUME WsData, NEW items, NEW k \in Keywords
  PROVE  WsFull(k, items) <=> Shows(k, items)
<1> DEFINE L == Leaves(k, items)
           x == Category(k, L)
<1>1. Keywords \cap SubLists = {} /\ Headed \subseteq SubLists
  BY WorkshopAssumption DEF FormLists, Headed
<1>2. /\ L \in Seq(ToSet(L))
      /\ \A y \in ToSet(L) : y.recipe \in WsShown(k, items) /\ y.form \in ToSet(wsRecipes[y.recipe].created)
      /\ \A r \in WsShown(k, items) : \A f \in ToSet(wsRecipes[r].created) : \E y \in ToSet(L) : TRUE
  BY WsLeavesAre DEF WsLeavesRight, WsLeaf
<1>3. x.children = L /\ x.filterKeyword = k /\ x.recipe = NoForm /\ x.source = NoForm /\ x.form = NoForm
  BY DEF Category
<1>4. WsFull(k, items) <=> k \notin deleted /\ L # <<>>
  <2>1. k \notin deleted /\ L # <<>> => WsGives(k, x, items)
    <3> HIDE DEF x
    <3>1. QED
      BY <1>3 DEF WsGives
  <2>2. \A y : WsGives(k, y, items) => k \notin deleted /\ L # <<>>
    BY <1>1 DEF WsGives
  <2>3. QED
    BY <2>1, <2>2 DEF WsFull
<1> HIDE DEF L, x
<1>5. Shows(k, items) <=> k \notin deleted /\ \E r \in WsShown(k, items) : wsRecipes[r].created # <<>>
  BY DEF Shows, WsShown
<1>6. ASSUME L # <<>> PROVE \E r \in WsShown(k, items) : wsRecipes[r].created # <<>>
  <2>1. L[1] \in ToSet(L)
    BY <1>2, <1>6 DEF ToSet
  <2>2. \A c : ToSet(c) # {} => c # <<>>
    BY DEF ToSet
  <2>3. QED
    BY <1>2, <2>1, <2>2
<1>7. ASSUME NEW r \in WsShown(k, items), wsRecipes[r].created # <<>> PROVE L # <<>>
  <2>1. r \in DOMAIN wsRecipes /\ wsRecipes[r].created \in Seq(ToSet(wsRecipes[r].created))
    BY MenuAssumption DEF WsShown, WsData
  <2>2. wsRecipes[r].created[1] \in ToSet(wsRecipes[r].created)
    BY <1>7, <2>1 DEF ToSet
  <2>3. ToSet(L) # {}
    BY <1>2, <2>2
  <2>4. QED
    BY <2>3 DEF ToSet
<1>8. QED
  BY <1>4, <1>5, <1>6, <1>7

\* A list gives a category if one of its entries does: the first of those stays.
LEMMA WsListFull ==
  ASSUME WsData, Acyclic, NEW items, NEW l \in Headed
  PROVE  WsFull(l, items) <=> \E form \in ToSet(wsLists[l]) : WsFull(form, items)
<1> DEFINE N == Len(wsLists[l])
           s == EnumerateFLST(items)[WholeList(l)]
           x == Category(Head(wsLists[l]), s)
           S == {p \in 1..N : WsFull(wsLists[l][p], items)}
<1>1. /\ l \in SubLists /\ l \in FormLists /\ l \notin deleted /\ l \notin Keywords
      /\ N \in Nat /\ DOMAIN wsLists[l] = 1..N
  BY WorkshopAssumption DEF Headed, FormLists, WsData
<1>2. /\ s \in Seq(ToSet(s))
      /\ \A i \in DOMAIN s : \E p \in 1..N : WsStays(l, p, items)
      /\ \A p \in 1..N : WsStays(l, p, items) => \E i \in DOMAIN s : TRUE
  <2>1. WsNodesRight(l, N, items)
    BY <1>1, WsNodesAre
  <2>2. s = EnumerateFLST(items)[<<l, N>>]
    BY DEF WholeList
  <2> HIDE DEF N, s
  <2>3. QED
    BY <2>1, <2>2 DEF WsNodesRight
<1>3. x.children = s /\ x.filterKeyword = Head(wsLists[l])
      /\ x.recipe = NoForm /\ x.source = NoForm /\ x.form = NoForm
  BY DEF Category
<1>4. WsFull(l, items) <=> s # <<>>
  <2>1. s # <<>> => WsGives(l, x, items)
    <3> HIDE DEF x
    <3>1. QED
      BY <1>1, <1>3 DEF WsGives
  <2>2. \A y : WsGives(l, y, items) => s # <<>>
    BY <1>1 DEF WsGives
  <2>3. QED
    BY <2>1, <2>2 DEF WsFull
<1> HIDE DEF s, x
<1>5. (\E form \in ToSet(wsLists[l]) : WsFull(form, items)) <=> S # {}
  BY <1>1 DEF ToSet
<1>6. ASSUME s # <<>> PROVE S # {}
  <2>1. 1 \in DOMAIN s
    BY <1>2, <1>6
  <2>2. PICK p \in 1..N : WsStays(l, p, items)
    BY <1>2, <2>1
  <2>3. QED
    BY <2>2 DEF WsStays
<1>7. ASSUME S # {} PROVE s # <<>>
  <2>1. S \in SUBSET Nat
    OBVIOUS
  <2>2. PICK p \in S : \A q \in S : p <= q
    <3> HIDE DEF S
    <3>1. QED
      BY <1>7, <2>1, LeastOf
  <2>3. \A h \in 1..(p - 1) : h \in 1..N /\ ~(p <= h)
    BY <1>1
  <2>4. WsStays(l, p, items)
    BY <2>2, <2>3 DEF WsStays
  <2>5. DOMAIN s # {}
    BY <1>2, <2>4
  <2>6. QED
    BY <2>5
<1>8. QED
  BY <1>4, <1>5, <1>6, <1>7

\* A list has something to show if one of its entries has.
LEMMA WsFillsBelow ==
  ASSUME WsData, NEW items, NEW l \in Headed
  PROVE  Fills(l, items) <=> \E form \in ToSet(wsLists[l]) : Fills(form, items)
<1> DEFINE Closed(C) == \A m \in C : SubListsOf(m) \cap Headed \subseteq C
           S == SubListsOf(l) \cap Headed
           C == {l} \cup UNION {Below(form) : form \in S}
<1>1. Headed \subseteq SubLists /\ SubLists \subseteq FormLists /\ Keywords \cap SubLists = {}
  BY WorkshopAssumption DEF Headed, FormLists
<1>2. \A a \in FormLists : \A b : b \in Below(a) <=>
        b \in FormLists /\ \A D \in SUBSET FormLists : a \in D /\ Closed(D) => b \in D
  BY DEF Below
<1>3. \A a \in FormLists : a \in Below(a) /\ Below(a) \in SUBSET FormLists
  BY <1>2
<1> HIDE DEF Closed
<1>4. \A form \in S : Below(form) \subseteq Below(l)
  <2> SUFFICES ASSUME NEW form \in S, NEW b \in Below(form) PROVE b \in Below(l)
    OBVIOUS
  <2>1. \A D : l \in D /\ Closed(D) => form \in D
    BY DEF Closed
  <2>2. QED
    BY <1>1, <1>2, <2>1
<1>5. Below(l) \subseteq C
  <2>1. C \in SUBSET FormLists
    BY <1>1, <1>3
  <2>2. ASSUME NEW m \in C, NEW n \in SubListsOf(m) \cap Headed PROVE n \in C
    <3>1. CASE m = l
      BY <1>1, <1>3, <3>1
    <3>2. CASE m # l
      <4>1. PICK form \in S : m \in Below(form)
        BY <3>2
      <4>2. \A D : m \in D /\ Closed(D) => n \in D
        BY DEF Closed
      <4>3. n \in Below(form)
        BY <1>1, <1>2, <4>1, <4>2
      <4>4. QED
        BY <4>1, <4>3
    <3>3. QED
      BY <3>1, <3>2
  <2>3. Closed(C)
    BY <2>2 DEF Closed
  <2> HIDE DEF C
  <2>4. l \in C
    BY DEF C
  <2>5. QED
    BY <1>1, <1>2, <2>1, <2>3, <2>4
<1>6. ASSUME NEW form \in ToSet(wsLists[l]), Fills(form, items) PROVE Fills(l, items)
  <2>1. CASE Shows(form, items)
    BY <1>1, <1>3, <2>1 DEF Fills
  <2>2. CASE ~Shows(form, items)
    <3>1. form \in S
      BY <1>1, <1>6, <2>2 DEF Fills, SubListsOf
    <3>2. PICK b \in Below(form) : \E k \in ToSet(wsLists[b]) : Shows(k, items)
      BY <1>6, <2>2 DEF Fills
    <3>3. QED
      BY <1>4, <3>1, <3>2 DEF Fills
  <2>3. QED
    BY <2>1, <2>2
<1>7. ASSUME Fills(l, items) PROVE \E form \in ToSet(wsLists[l]) : Fills(form, items)
  <2>1. ~Shows(l, items)
    BY <1>1 DEF Shows
  <2>2. PICK b \in Below(l) : \E k \in ToSet(wsLists[b]) : Shows(k, items)
    BY <1>7, <2>1 DEF Fills
  <2>3. CASE b = l
    BY <2>2, <2>3 DEF Fills
  <2>4. CASE b # l
    <3>1. PICK form \in S : b \in Below(form)
      BY <1>5, <2>4
    <3>2. form \in ToSet(wsLists[l]) /\ Fills(form, items)
      BY <2>2, <3>1 DEF Fills, SubListsOf
    <3>3. QED
      BY <3>2
  <2>5. QED
    BY <2>3, <2>4
<1>8. QED
  BY <1>6, <1>7

\* An entry gives a category exactly if it has something to show.
LEMMA WsFullIs ==
  ASSUME WsData, Acyclic, NEW items
  PROVE  \A form : WsFull(form, items) <=> Fills(form, items)
<1> DEFINE Right(form) == WsFull(form, items) <=> Fills(form, items)
           Bad == {l \in Headed : ~Right(l)}
           ranks == {WsRank(l) : l \in Bad}
<1>1. Headed \subseteq SubLists /\ SubLists \subseteq FormLists /\ Keywords \cap SubLists = {}
  BY WorkshopAssumption DEF Headed, FormLists
<1>2. ASSUME NEW form \in Keywords PROVE Right(form)
  <2>1. Fills(form, items) <=> Shows(form, items)
    BY <1>1 DEF Fills
  <2>2. QED
    BY <2>1, WsShowsIs
<1>3. ASSUME NEW form, form \notin Keywords, form \notin Headed PROVE Right(form)
  BY <1>3 DEF WsFull, WsGives, Fills, Shows
<1>4. Bad = {}
  <2> SUFFICES ASSUME Bad # {} PROVE FALSE
    OBVIOUS
  <2>1. ranks \in SUBSET Nat /\ ranks # {}
    <3>1. \A l \in Bad : WsRank(l) \in Nat
      BY <1>1, WsRankFalls
    <3> HIDE DEF Bad
    <3>2. QED
      BY <3>1
  <2>2. PICK least \in ranks : \A rank \in ranks : least <= rank
    <3> HIDE DEF ranks
    <3>1. QED
      BY <2>1, LeastOf
  <2>3. PICK l \in Bad : least = WsRank(l)
    BY <2>2
  <2>4. ASSUME NEW form \in ToSet(wsLists[l]) PROVE Right(form)
    <3>1. ASSUME form \in Headed PROVE form \notin Bad
      <4>1. form \in SubListsOf(l)
        BY <1>1, <3>1 DEF SubListsOf
      <4>2. WsRank(form) < WsRank(l) /\ WsRank(l) \in Nat /\ WsRank(form) \in Nat
        BY <1>1, <3>1, <4>1, WsRankFalls
      <4>3. ~(least <= WsRank(form))
        BY <2>3, <4>2
      <4>4. QED
        BY <2>2, <4>3
    <3>2. form \in Headed => Right(form)
      BY <3>1
    <3> HIDE DEF Right
    <3>3. QED
      BY <1>2, <1>3, <3>2
  <2>5. Right(l)
    BY <2>4, WsListFull, WsFillsBelow
  <2>6. QED
    BY <2>3, <2>5
<1>5. QED
  <2>1. \A form \in Headed : Right(form)
    BY <1>4
  <2> HIDE DEF Right
  <2>2. \A form : Right(form)
    BY <1>2, <1>3, <2>1
  <2>3. QED
    BY <2>2 DEF Right

\* What a list's node holds in the end.
LEMMA WsWholeNodesAre ==
  ASSUME WsData, Acyclic, NEW items, NEW l \in FormLists
  PROVE  LET s == EnumerateFLST(items)[WholeList(l)]
         IN  /\ s \in Seq(ToSet(s)) /\ NumberedInOrder(s)
             /\ \A x \in ToSet(s) : \E e \in Entries(l, items) : WsGives(e, x, items)
             /\ \A e \in Entries(l, items) : \A x : WsGives(e, x, items) => \E y \in ToSet(s) : WsAlike(y, x)
<1> DEFINE s == EnumerateFLST(items)[WholeList(l)]
           N == Len(wsLists[l])
           entry == wsLists[l]
           filling == {i \in DOMAIN entry : Fills(entry[i], items)}
<1>1. N \in Nat /\ DOMAIN wsLists[l] = 1..N
  BY DEF WsData
<1>2. ASSUME NEW p \in 1..N
      PROVE  WsStays(l, p, items) <=>
               /\ p \in filling
               /\ \A h \in filling : h < p /\ CategoryOf(entry[h]) = CategoryOf(entry[p]) =>
                    \E m \in filling : h < m /\ m < p
  <2>1. \A i : i \in filling <=> i \in 1..N /\ WsFull(entry[i], items)
    BY <1>1, WsFullIs
  <2>2. \A h : h \in 1..(p - 1) <=> h \in 1..N /\ h < p
    BY <1>1
  <2>3. \A h \in 1..N : \A m : m \in (h + 1)..(p - 1) <=> m \in 1..N /\ h < m /\ m < p
    BY <1>1
  <2> HIDE DEF filling, N
  <2>4. WsStays(l, p, items) <=>
          /\ WsFull(entry[p], items)
          /\ \A h \in 1..(p - 1) :
               WsFull(entry[h], items) /\ CategoryOf(entry[h]) = CategoryOf(entry[p]) =>
                 \E q \in (h + 1)..(p - 1) : WsFull(entry[q], items)
    BY DEF WsStays
  <2>5. QED
    BY <2>1, <2>2, <2>3, <2>4
<1>3. \A e : e \in Entries(l, items) <=> \E p \in 1..N : WsStays(l, p, items) /\ e = entry[p]
  <2>1. Entries(l, items) = {entry[i] : i \in {j \in filling :
            \A h \in filling : h < j /\ CategoryOf(entry[h]) = CategoryOf(entry[j]) =>
                \E m \in filling : h < m /\ m < j}}
    BY DEF Entries
  <2>2. filling \subseteq 1..N
    BY <1>1
  <2> HIDE DEF filling, N, entry
  <2>3. QED
    BY <1>2, <2>1, <2>2
<1>4. WsNodesRight(l, N, items) /\ s = EnumerateFLST(items)[<<l, N>>]
  BY <1>1, WsNodesAre DEF WholeList
<1> HIDE DEF s, N
<1>5. /\ s \in Seq(ToSet(s))
      /\ \A i \in DOMAIN s :
           /\ s[i].column = i - 1
           /\ \E p \in 1..N : WsStays(l, p, items) /\ WsGives(entry[p], s[i], items)
      /\ \A p \in 1..N : WsStays(l, p, items) => \E i \in DOMAIN s : WsGives(entry[p], s[i], items)
  BY <1>4 DEF WsNodesRight
<1> HIDE DEF entry
<1>6. \A x \in ToSet(s) : \E e \in Entries(l, items) : WsGives(e, x, items)
  BY <1>3, <1>5 DEF ToSet
<1>7. ASSUME NEW e \in Entries(l, items), NEW x, WsGives(e, x, items) PROVE \E y \in ToSet(s) : WsAlike(y, x)
  <2>1. PICK p \in 1..N : WsStays(l, p, items) /\ e = entry[p]
    BY <1>3
  <2>2. PICK i \in DOMAIN s : WsGives(e, s[i], items)
    BY <1>5, <2>1
  <2>3. WsAlike(s[i], x)
    BY <1>7, <2>2, WsGivesOne
  <2>4. QED
    BY <2>2, <2>3 DEF ToSet
<1>8. NumberedInOrder(s)
  <2>1. \A f, x : WsGives(f, x, items) => x.children # <<>>
    BY DEF WsGives
  <2>2. \A i \in DOMAIN s : \A j \in 1..(i - 1) : j \in DOMAIN s
    BY <1>5
  <2>3. \A j \in DOMAIN s : s[j].children # <<>>
    BY <1>5, <2>1
  <2>4. QED
    BY <1>5, <2>2, <2>3 DEF NumberedInOrder
<1>9. QED
  BY <1>5, <1>6, <1>7, <1>8 DEF s

-----------------------------------------------------------------------------
(* The workshop menu: its levels *)

\* One level of nodes further down.
WsBelow(X) ==
    UNION {{<<Append(x[1], x[2].filterKeyword), n>> : n \in ToSet(x[2].children)} : x \in X}

\* The recursive function of the levels exists: it has its equations.
LEMMA WsLevelsAre ==
  ASSUME NEW nodes, Cardinality(SubLists) \in Nat
  PROVE  /\ Levels(nodes)[0] = {<< <<>>, n >> : n \in ToSet(nodes)}
         /\ \A d \in 0..(Depth - 1) : Levels(nodes)[d + 1] = WsBelow(Levels(nodes)[d])
<1> DEFINE D == 0..Depth
           first == {<< <<>>, n >> : n \in ToSet(nodes)}
           Solves(f) == f = [d \in D |-> IF d = 0 THEN first ELSE WsBelow(f[d - 1])]
           Follows(f, m) == \A d \in 0..m : f[d] = IF d = 0 THEN first ELSE WsBelow(f[d - 1])
           T == {m \in D : \E f : Follows(f, m)}
           L == Levels(nodes)
<1>1. Depth \in Nat
  BY DEF Depth
<1>2. L = CHOOSE f : Solves(f)
  BY DEF Levels, WsBelow
<1> HIDE DEF first, L
<1>3. 0 \in T
  <2>1. Follows([d \in {0} |-> first], 0)
    OBVIOUS
  <2> HIDE DEF Follows
  <2>2. QED
    BY <1>1, <2>1
<1>4. ASSUME NEW m \in 0..(Depth - 1), m \in T PROVE m + 1 \in T
  <2>1. PICK f : Follows(f, m)
    BY <1>4
  <2> DEFINE g == [d \in 0..(m + 1) |-> IF d <= m THEN f[d] ELSE WsBelow(f[m])]
  <2>2. ASSUME NEW d \in 0..(m + 1) PROVE g[d] = IF d = 0 THEN first ELSE WsBelow(g[d - 1])
    <3>1. CASE d <= m
      <4>1. d \in 0..m /\ (d # 0 => d - 1 \in 0..m /\ d - 1 \in 0..(m + 1) /\ d - 1 <= m)
        BY <3>1
      <4>2. g[d] = f[d] /\ (d # 0 => g[d - 1] = f[d - 1])
        BY <3>1, <4>1
      <4> HIDE DEF g
      <4>3. QED
        BY <2>1, <4>1, <4>2
    <3>2. CASE ~(d <= m)
      <4>1. d = m + 1 /\ d # 0 /\ d - 1 = m /\ m \in 0..(m + 1) /\ m <= m
        BY <3>2
      <4>2. g[d] = WsBelow(f[m]) /\ g[m] = f[m]
        BY <3>2, <4>1
      <4> HIDE DEF g
      <4>3. QED
        BY <4>1, <4>2
    <3>3. QED
      BY <3>1, <3>2
  <2>3. Follows(g, m + 1)
    <3> HIDE DEF g
    <3>1. QED
      BY <2>2
  <2>4. m + 1 \in D
    BY <1>1
  <2> HIDE DEF Follows, g
  <2>5. QED
    BY <2>3, <2>4
<1>5. \E f : Solves(f)
  <2>1. Depth \in T
    <3> HIDE DEF T
    <3>1. \A m \in 0..Depth : m \in T
      BY <1>1, <1>3, <1>4, Climbs
    <3>2. QED
      BY <1>1, <3>1
  <2>2. PICK f : Follows(f, Depth)
    BY <2>1
  <2> DEFINE h == [d \in D |-> f[d]]
             w == [d \in D |-> IF d = 0 THEN first ELSE WsBelow(h[d - 1])]
  <2>3. \A d \in D : h[d] = IF d = 0 THEN first ELSE WsBelow(h[d - 1])
    <3>1. \A d \in D : d # 0 => d - 1 \in D
      BY <1>1
    <3>2. QED
      BY <2>2, <3>1
  <2>4. h = w
    BY <2>3
  <2>5. Solves(h)
    BY <2>4
  <2> HIDE DEF Solves, h
  <2>6. QED
    BY <2>5
<1>6. Solves(L)
  <2> HIDE DEF Solves
  <2>1. QED
    BY <1>2, <1>5
<1>7. \A d \in D : L[d] = IF d = 0 THEN first ELSE WsBelow(L[d - 1])
  BY <1>6
<1>8. L[0] = first
  BY <1>1, <1>7
<1>9. ASSUME NEW d \in 0..(Depth - 1) PROVE L[d + 1] = WsBelow(L[d])
  <2>1. d + 1 \in D /\ d + 1 # 0 /\ (d + 1) - 1 = d
    BY <1>1
  <2>2. QED
    BY <1>7, <2>1
<1>10. QED
  BY <1>8, <1>9 DEF L, first

\* The chains of d lists, the list at the end of one, and its categories.
WsChains(d, items) ==
    {c \in [1..d -> SubLists] :
       \A i \in 1..d : c[i] \in Entries(IF i = 1 THEN RootList ELSE c[i - 1], items)}

WsEnd(c, d) == IF d = 0 THEN RootList ELSE c[d]

WsPath(c, d) == [i \in 1..d |-> CategoryOf(c[i])]

WsHeads == {CategoryOf(l) : l \in SubLists}

\* A chain and one that is longer by a list.
WsGrown(b, c, e, d, items) ==
    /\ e \in SubLists /\ e \in Entries(WsEnd(c, d), items)
    /\ WsEnd(b, d + 1) = e /\ WsPath(b, d + 1) = Append(WsPath(c, d), CategoryOf(e))

LEMMA WsAppended ==
  ASSUME NEW S, NEW d \in Nat, NEW h \in Seq(S), Len(h) = d, NEW x \in S
  PROVE  Append(h, x) = [i \in 1..(d + 1) |-> IF i = d + 1 THEN x ELSE h[i]]
<1> DEFINE s == Append(h, x)
<1>1. s \in Seq(S) /\ Len(s) = d + 1 /\ s[d + 1] = x
  OBVIOUS
<1>2. \A i \in 1..d : s[i] = h[i]
  OBVIOUS
<1> HIDE DEF s
<1>3. s = [i \in 1..(d + 1) |-> s[i]]
  BY <1>1
<1>4. \A i \in 1..(d + 1) : s[i] = IF i = d + 1 THEN x ELSE h[i]
  BY <1>1, <1>2
<1>5. QED
  BY <1>3, <1>4 DEF s

\* The entries whose category is in the menu are keywords and lists.
LEMMA WsEntriesFill ==
  ASSUME WsData, NEW items, NEW l \in FormLists, NEW e \in Entries(l, items)
  PROVE  e \in ToSet(wsLists[l]) /\ (e \in Keywords \ deleted \/ e \in Headed)
<1>1. e \in ToSet(wsLists[l]) /\ Fills(e, items)
  BY DEF Entries, ToSet
<1>2. QED
  BY <1>1 DEF Fills, Shows

\* An entry of a chain's last list makes a longer chain.
LEMMA WsChainGrows ==
  ASSUME NEW items, NEW d \in Nat, NEW c \in WsChains(d, items),
         NEW e \in SubLists, e \in Entries(WsEnd(c, d), items)
  PROVE  \E b \in WsChains(d + 1, items) : WsGrown(b, c, e, d, items)
<1> DEFINE b == [i \in 1..(d + 1) |-> IF i = d + 1 THEN e ELSE c[i]]
<1>1. c \in [1..d -> SubLists]
      /\ \A i \in 1..d : c[i] \in Entries(IF i = 1 THEN RootList ELSE c[i - 1], items)
  BY DEF WsChains
<1>2. /\ \A i \in 1..(d + 1) : i # d + 1 => i \in 1..d
      /\ \A i \in 1..d : i # d + 1 /\ i \in 1..(d + 1) /\ (i # 1 => i - 1 \in 1..d)
      /\ d + 1 \in 1..(d + 1)
  OBVIOUS
<1>3. b \in [1..(d + 1) -> SubLists] /\ b[d + 1] = e /\ \A i \in 1..d : b[i] = c[i]
  BY <1>1, <1>2
<1> HIDE DEF b
<1>4. ASSUME NEW i \in 1..(d + 1)
      PROVE  b[i] \in Entries(IF i = 1 THEN RootList ELSE b[i - 1], items)
  <2>1. CASE i = d + 1
    <3>1. (IF i = 1 THEN RootList ELSE b[i - 1]) = WsEnd(c, d)
      <4>1. CASE d = 0
        BY <2>1, <4>1 DEF WsEnd
      <4>2. CASE d # 0
        <5>1. i # 1 /\ i - 1 = d /\ d \in 1..d
          BY <2>1, <4>2
        <5>2. QED
          BY <1>3, <4>2, <5>1 DEF WsEnd
      <4>3. QED
        BY <4>1, <4>2
    <3>2. QED
      BY <1>3, <2>1, <3>1
  <2>2. CASE i # d + 1
    <3>1. i \in 1..d /\ b[i] = c[i] /\ (i # 1 => b[i - 1] = c[i - 1])
      BY <1>2, <1>3, <2>2
    <3>2. QED
      BY <1>1, <3>1
  <2>3. QED
    BY <2>1, <2>2
<1>5. b \in WsChains(d + 1, items)
  BY <1>3, <1>4 DEF WsChains
<1>6. WsEnd(b, d + 1) = e
  BY <1>3 DEF WsEnd
<1>7. WsPath(b, d + 1) = Append(WsPath(c, d), CategoryOf(e))
  <2> DEFINE h == WsPath(c, d)
  <2>1. h \in Seq(WsHeads) /\ Len(h) = d /\ \A i \in 1..d : h[i] = CategoryOf(c[i])
    <3>1. h \in [1..d -> WsHeads]
      BY <1>1 DEF WsPath, WsHeads
    <3>2. QED
      BY <3>1 DEF WsPath
  <2>2. WsPath(b, d + 1) = [i \in 1..(d + 1) |-> IF i = d + 1 THEN CategoryOf(e) ELSE h[i]]
    <3>1. \A i \in 1..(d + 1) : CategoryOf(b[i]) = IF i = d + 1 THEN CategoryOf(e) ELSE h[i]
      BY <1>2, <1>3, <2>1
    <3> HIDE DEF h
    <3>2. QED
      BY <3>1 DEF WsPath
  <2> HIDE DEF h
  <2>3. Append(h, CategoryOf(e)) = [i \in 1..(d + 1) |-> IF i = d + 1 THEN CategoryOf(e) ELSE h[i]]
    <3>1. CategoryOf(e) \in WsHeads
      BY DEF WsHeads
    <3>2. QED
      BY <2>1, <3>1, WsAppended
  <2>4. QED
    BY <2>2, <2>3 DEF h
<1>8. QED
  BY <1>5, <1>6, <1>7 DEF WsGrown

\* A longer chain is a chain and an entry of its last list.
LEMMA WsChainShrinks ==
  ASSUME NEW items, NEW d \in Nat, NEW b \in WsChains(d + 1, items)
  PROVE  \E c \in WsChains(d, items) : \E e : WsGrown(b, c, e, d, items)
<1> DEFINE c == [i \in 1..d |-> b[i]]
           e == b[d + 1]
<1>1. b \in [1..(d + 1) -> SubLists]
      /\ \A i \in 1..(d + 1) : b[i] \in Entries(IF i = 1 THEN RootList ELSE b[i - 1], items)
  BY DEF WsChains
<1>2. /\ \A i \in 1..(d + 1) : i # d + 1 => i \in 1..d
      /\ \A i \in 1..d : i # d + 1 /\ i \in 1..(d + 1) /\ (i # 1 => i - 1 \in 1..d)
      /\ d + 1 \in 1..(d + 1) /\ (d + 1) - 1 = d
  OBVIOUS
<1>3. c \in [1..d -> SubLists] /\ \A i \in 1..d : c[i] = b[i]
  BY <1>1, <1>2
<1> HIDE DEF c
<1>4. c \in WsChains(d, items)
  BY <1>1, <1>2, <1>3 DEF WsChains
<1>5. e \in SubLists
  BY <1>1, <1>2
<1>6. e \in Entries(WsEnd(c, d), items)
  <2>1. (IF d + 1 = 1 THEN RootList ELSE b[(d + 1) - 1]) = WsEnd(c, d)
    <3>1. CASE d = 0
      BY <3>1 DEF WsEnd
    <3>2. CASE d # 0
      <4>1. d + 1 # 1 /\ d \in 1..d
        BY <3>2
      <4>2. QED
        BY <1>2, <1>3, <3>2, <4>1 DEF WsEnd
    <3>3. QED
      BY <3>1, <3>2
  <2>2. QED
    BY <1>1, <1>2, <2>1
<1>7. WsEnd(b, d + 1) = e
  BY DEF WsEnd
<1>8. WsPath(b, d + 1) = Append(WsPath(c, d), CategoryOf(e))
  <2> DEFINE h == WsPath(c, d)
  <2>1. h \in Seq(WsHeads) /\ Len(h) = d /\ \A i \in 1..d : h[i] = CategoryOf(b[i])
    <3>1. h \in [1..d -> WsHeads]
      BY <1>1, <1>2, <1>3 DEF WsPath, WsHeads
    <3>2. QED
      BY <1>3, <3>1 DEF WsPath
  <2>2. WsPath(b, d + 1) = [i \in 1..(d + 1) |-> IF i = d + 1 THEN CategoryOf(e) ELSE h[i]]
    <3>1. \A i \in 1..(d + 1) : CategoryOf(b[i]) = IF i = d + 1 THEN CategoryOf(e) ELSE h[i]
      BY <1>2, <2>1
    <3> HIDE DEF h
    <3>2. QED
      BY <3>1 DEF WsPath
  <2> HIDE DEF h
  <2>3. Append(h, CategoryOf(e)) = [i \in 1..(d + 1) |-> IF i = d + 1 THEN CategoryOf(e) ELSE h[i]]
    <3>1. CategoryOf(e) \in WsHeads
      BY <1>5 DEF WsHeads
    <3>2. QED
      BY <2>1, <3>1, WsAppended
  <2>4. QED
    BY <2>2, <2>3 DEF h
<1>9. QED
  BY <1>4, <1>5, <1>6, <1>7, <1>8 DEF WsGrown

\* A chain is not longer than there are lists.
LEMMA WsChainsAreShort ==
  ASSUME WsData, Acyclic, NEW items, NEW d \in Nat, NEW c \in WsChains(d, items)
  PROVE  d <= Cardinality(SubLists)
<1> DEFINE N == Cardinality(SubLists)
           S == {i \in 0..d : i = 0 \/ WsRank(c[i]) + i <= N + 1}
<1>1. c \in [1..d -> SubLists]
      /\ \A i \in 1..d : c[i] \in Entries(IF i = 1 THEN RootList ELSE c[i - 1], items)
  BY DEF WsChains
<1>2. N \in Nat /\ SubLists \subseteq FormLists
  BY WorkshopAssumption, FS_CardinalityType DEF FormLists
<1>3. \A l \in SubLists : /\ WsRank(l) \in Nat /\ WsRank(l) >= 1 /\ WsRank(l) <= N
                          /\ \A m \in SubListsOf(l) : WsRank(m) < WsRank(l)
  BY <1>2, WsRankFalls
<1> HIDE DEF N
<1>4. ASSUME NEW i \in 0..(d - 1), i \in S PROVE i + 1 \in S
  <2>1. i + 1 \in 0..d /\ i + 1 \in 1..d /\ c[i + 1] \in SubLists
    BY <1>1
  <2>2. CASE i = 0
    BY <1>2, <1>3, <2>1, <2>2
  <2>3. CASE i # 0
    <3>1. i \in 1..d /\ i + 1 # 1 /\ (i + 1) - 1 = i /\ c[i] \in SubLists
      BY <1>1, <2>3
    <3>2. c[i + 1] \in SubListsOf(c[i])
      BY <1>1, <1>2, <2>1, <3>1, WsEntriesFill DEF SubListsOf
    <3>3. WsRank(c[i + 1]) < WsRank(c[i]) /\ WsRank(c[i]) \in Nat /\ WsRank(c[i + 1]) \in Nat
      BY <1>3, <2>1, <3>1, <3>2
    <3>4. WsRank(c[i]) + i <= N + 1
      BY <1>4, <2>3
    <3>5. QED
      BY <1>2, <2>1, <3>3, <3>4
  <2>4. QED
    BY <2>2, <2>3
<1>5. d \in S
  <2>1. 0 \in S
    OBVIOUS
  <2> HIDE DEF S
  <2>2. \A i \in 0..d : i \in S
    BY <1>4, <2>1, Climbs
  <2>3. QED
    BY <2>2
<1>6. CASE d = 0
  BY <1>2, <1>6 DEF N
<1>7. CASE d # 0
  <2>1. c[d] \in SubLists
    BY <1>1, <1>7
  <2>2. QED
    BY <1>2, <1>3, <1>5, <1>7, <2>1 DEF N
<1>8. QED
  BY <1>6, <1>7

\* A category d lists down, and an item under a keyword of a list above.
WsIsCategory(d, y, items) ==
    \E c \in WsChains(d, items) : \E x \in ToSet(EnumerateFLST(items)[WholeList(WsEnd(c, d))]) :
        y = <<WsPath(c, d), x>>

WsIsItem(d, y, items) ==
    /\ d # 0
    /\ \E c \in WsChains(d - 1, items) : \E k \in Keywords \cap Entries(WsEnd(c, d - 1), items) :
         \E x \in ToSet(Leaves(k, items)) : y = <<Append(WsPath(c, d - 1), k), x>>

LEMMA WsEndIs ==
  ASSUME WsData, NEW items, NEW d \in Nat, NEW c \in WsChains(d, items)
  PROVE  WsEnd(c, d) \in FormLists
<1>1. c \in [1..d -> SubLists]
  BY DEF WsChains
<1>2. CASE d = 0
  BY <1>2 DEF WsEnd, FormLists
<1>3. CASE d # 0
  <2>1. d \in 1..d
    BY <1>3
  <2>2. QED
    BY <1>1, <1>3, <2>1 DEF WsEnd, FormLists
<1>4. QED
  BY <1>2, <1>3

\* If a level has the ends of chains and the items, so has the one below it.
LEMMA WsLevelStep ==
  ASSUME WsData, Acyclic, NEW items, NEW d \in Nat, NEW X,
         \A y : y \in X <=> WsIsCategory(d, y, items) \/ WsIsItem(d, y, items)
  PROVE  \A y : y \in WsBelow(X) <=> WsIsCategory(d + 1, y, items) \/ WsIsItem(d + 1, y, items)
<1> DEFINE T == EnumerateFLST(items)
           P(l) == Entries(l, items)
<1>1. /\ Keywords \cap SubLists = {} /\ Headed \subseteq SubLists
      /\ SubLists \subseteq FormLists /\ (d + 1) - 1 = d /\ d + 1 # 0
  BY WorkshopAssumption DEF FormLists, Headed
<1>2. ASSUME NEW l \in FormLists
      PROVE  /\ \A x \in ToSet(T[WholeList(l)]) : \E e \in P(l) : WsGives(e, x, items)
             /\ \A e \in P(l) : \A x : WsGives(e, x, items) => \E y \in ToSet(T[WholeList(l)]) : WsAlike(y, x)
  BY WsWholeNodesAre
<1>3. ASSUME NEW y \in WsBelow(X) PROVE WsIsCategory(d + 1, y, items) \/ WsIsItem(d + 1, y, items)
  <2>1. PICK x \in X : \E n \in ToSet(x[2].children) : y = <<Append(x[1], x[2].filterKeyword), n>>
    BY DEF WsBelow
  <2>2. PICK n \in ToSet(x[2].children) : y = <<Append(x[1], x[2].filterKeyword), n>>
    BY <2>1
  <2>3. ~WsIsItem(d, x, items)
    <3> SUFFICES ASSUME WsIsItem(d, x, items) PROVE FALSE
      OBVIOUS
    <3>1. PICK k \in Keywords : \E z \in ToSet(Leaves(k, items)) : x[2] = z
      BY DEF WsIsItem
    <3>2. x[2].children = <<>>
      BY <3>1, WsLeavesAre DEF WsLeavesRight, WsLeaf
    <3>3. QED
      BY <2>2, <3>2 DEF ToSet
  <2>4. PICK c \in WsChains(d, items) : \E z \in ToSet(T[WholeList(WsEnd(c, d))]) : x = <<WsPath(c, d), z>>
    BY <2>1, <2>3 DEF WsIsCategory
  <2>5. PICK z \in ToSet(T[WholeList(WsEnd(c, d))]) : x = <<WsPath(c, d), z>>
    BY <2>4
  <2>6. WsEnd(c, d) \in FormLists
    BY WsEndIs
  <2>7. PICK e \in P(WsEnd(c, d)) : WsGives(e, z, items)
    BY <1>2, <2>6
  <2>8. n \in ToSet(z.children) /\ y = <<Append(WsPath(c, d), z.filterKeyword), n>>
    BY <2>2, <2>5
  <2> HIDE DEF T
  <2>9. CASE e \in Keywords
    <3>1. z.filterKeyword = e /\ z.children = Leaves(e, items)
      BY <1>1, <2>7, <2>9 DEF WsGives
    <3>2. WsIsItem(d + 1, y, items)
      BY <1>1, <2>7, <2>8, <2>9, <3>1 DEF WsIsItem
    <3>3. QED
      BY <3>2
  <2>10. CASE e \in SubLists
    <3>1. z.filterKeyword = CategoryOf(e) /\ z.children = T[WholeList(e)]
      BY <1>1, <2>7, <2>10 DEF WsGives, CategoryOf, T
    <3>2. PICK b \in WsChains(d + 1, items) : WsGrown(b, c, e, d, items)
      BY <2>7, <2>10, WsChainGrows
    <3>3. WsEnd(b, d + 1) = e /\ WsPath(b, d + 1) = Append(WsPath(c, d), CategoryOf(e))
      BY <3>2 DEF WsGrown
    <3>4. WsIsCategory(d + 1, y, items)
      BY <2>8, <3>1, <3>3 DEF WsIsCategory, T
    <3>5. QED
      BY <3>4
  <2>11. QED
    BY <1>1, <2>7, <2>9, <2>10 DEF WsGives
<1>4. ASSUME NEW c \in WsChains(d, items), NEW e \in P(WsEnd(c, d)), NEW x, NEW n \in ToSet(x.children),
             WsGives(e, x, items)
      PROVE  <<Append(WsPath(c, d), x.filterKeyword), n>> \in WsBelow(X)
  <2>1. WsEnd(c, d) \in FormLists
    BY WsEndIs
  <2>2. PICK z \in ToSet(T[WholeList(WsEnd(c, d))]) : WsAlike(z, x)
    BY <1>2, <1>4, <2>1
  <2> DEFINE p == <<WsPath(c, d), z>>
  <2>3. p \in X
    BY DEF WsIsCategory
  <2>4. p[1] = WsPath(c, d) /\ p[2].filterKeyword = x.filterKeyword /\ n \in ToSet(p[2].children)
    BY <2>2 DEF WsAlike
  <2> HIDE DEF p
  <2>5. QED
    BY <2>3, <2>4 DEF WsBelow
<1>5. ASSUME NEW y, WsIsCategory(d + 1, y, items) PROVE y \in WsBelow(X)
  <2>1. PICK b \in WsChains(d + 1, items) : \E n \in ToSet(T[WholeList(WsEnd(b, d + 1))]) : y = <<WsPath(b, d + 1), n>>
    BY <1>5 DEF WsIsCategory
  <2>2. PICK n \in ToSet(T[WholeList(WsEnd(b, d + 1))]) : y = <<WsPath(b, d + 1), n>>
    BY <2>1
  <2>3. PICK c \in WsChains(d, items) : \E e : WsGrown(b, c, e, d, items)
    BY WsChainShrinks
  <2>4. PICK e \in SubLists :
           /\ e \in Entries(WsEnd(c, d), items)
           /\ WsEnd(b, d + 1) = e /\ WsPath(b, d + 1) = Append(WsPath(c, d), CategoryOf(e))
    BY <2>3 DEF WsGrown
  <2> DEFINE x == Category(CategoryOf(e), T[WholeList(e)])
  <2>5. x.children = T[WholeList(e)] /\ x.filterKeyword = CategoryOf(e)
        /\ x.recipe = NoForm /\ x.source = NoForm /\ x.form = NoForm
    BY DEF Category
  <2> HIDE DEF x
  <2>6. n \in ToSet(x.children) /\ x.children # <<>>
    BY <2>2, <2>4, <2>5 DEF ToSet
  <2>7. e \in Headed
    <3>1. WsEnd(c, d) \in FormLists
      BY WsEndIs
    <3>2. QED
      BY <1>1, <2>4, <3>1, WsEntriesFill
  <2>8. WsGives(e, x, items)
    BY <2>5, <2>6, <2>7 DEF WsGives, CategoryOf, Headed
  <2>9. <<Append(WsPath(c, d), x.filterKeyword), n>> \in WsBelow(X)
    BY <1>4, <2>4, <2>6, <2>8
  <2>10. QED
    BY <2>2, <2>4, <2>5, <2>9
<1>6. ASSUME NEW y, WsIsItem(d + 1, y, items) PROVE y \in WsBelow(X)
  <2>1. PICK c \in WsChains(d, items) : \E k \in Keywords \cap Entries(WsEnd(c, d), items) :
           \E n \in ToSet(Leaves(k, items)) : y = <<Append(WsPath(c, d), k), n>>
    BY <1>1, <1>6 DEF WsIsItem
  <2>2. PICK k \in Keywords \cap Entries(WsEnd(c, d), items) :
           \E n \in ToSet(Leaves(k, items)) : y = <<Append(WsPath(c, d), k), n>>
    BY <2>1
  <2>3. PICK n \in ToSet(Leaves(k, items)) : y = <<Append(WsPath(c, d), k), n>>
    BY <2>2
  <2> DEFINE x == Category(k, Leaves(k, items))
  <2>4. x.children = Leaves(k, items) /\ x.filterKeyword = k
        /\ x.recipe = NoForm /\ x.source = NoForm /\ x.form = NoForm
    BY DEF Category
  <2> HIDE DEF x
  <2>5. n \in ToSet(x.children) /\ x.children # <<>>
    BY <2>3, <2>4 DEF ToSet
  <2>6. k \notin deleted
    <3>1. WsEnd(c, d) \in FormLists
      BY WsEndIs
    <3>2. QED
      BY <1>1, <3>1, WsEntriesFill
  <2>7. WsGives(k, x, items)
    BY <2>4, <2>5, <2>6 DEF WsGives
  <2>8. <<Append(WsPath(c, d), x.filterKeyword), n>> \in WsBelow(X)
    BY <1>4, <2>5, <2>7
  <2>9. QED
    BY <2>3, <2>4, <2>8
<1>7. QED
  BY <1>3, <1>5, <1>6

\* What is at each depth of the menu.
LEMMA WsLevelIs ==
  ASSUME WsData, Acyclic, NEW items, NEW d \in 0..Depth
  PROVE  \A y : y \in Levels(MakeRootMenu(items))[d] <=> WsIsCategory(d, y, items) \/ WsIsItem(d, y, items)
<1> DEFINE nodes == MakeRootMenu(items)
           L == Levels(nodes)
           Right(n) == \A y : y \in L[n] <=> WsIsCategory(n, y, items) \/ WsIsItem(n, y, items)
           S == {n \in 0..Depth : Right(n)}
<1>1. Cardinality(SubLists) \in Nat /\ Depth \in Nat
  BY WorkshopAssumption, FS_CardinalityType DEF Depth
<1>2. L[0] = {<< <<>>, n >> : n \in ToSet(nodes)} /\ \A n \in 0..(Depth - 1) : L[n + 1] = WsBelow(L[n])
  BY <1>1, WsLevelsAre
<1>3. Right(0)
  <2>1. \A c \in WsChains(0, items) : WsPath(c, 0) = <<>> /\ WsEnd(c, 0) = RootList
    BY DEF WsPath, WsEnd
  <2>2. <<>> \in WsChains(0, items)
    BY DEF WsChains
  <2>3. nodes = EnumerateFLST(items)[WholeList(RootList)]
    BY DEF MakeRootMenu
  <2>4. \A y : WsIsCategory(0, y, items) <=> \E x \in ToSet(nodes) : y = << <<>>, x >>
    BY <2>1, <2>2, <2>3 DEF WsIsCategory
  <2>5. \A y : ~WsIsItem(0, y, items)
    BY DEF WsIsItem
  <2> HIDE DEF nodes, L
  <2>6. QED
    BY <1>2, <2>4, <2>5
<1>4. ASSUME NEW n \in 0..(Depth - 1), n \in S PROVE n + 1 \in S
  <2>1. n + 1 \in 0..Depth /\ n \in Nat
    BY <1>1
  <2>2. Right(n)
    BY <1>4
  <2>3. Right(n + 1)
    <3> HIDE DEF L
    <3>1. L[n + 1] = WsBelow(L[n])
      BY <1>2
    <3>2. \A y : y \in WsBelow(L[n]) <=> WsIsCategory(n + 1, y, items) \/ WsIsItem(n + 1, y, items)
      BY <2>1, <2>2, WsLevelStep
    <3>3. QED
      BY <3>1, <3>2
  <2> HIDE DEF Right
  <2>4. QED
    BY <2>1, <2>3
<1>5. \A n \in 0..Depth : n \in S
  <2>1. 0 \in S
    <3> HIDE DEF Right
    <3>1. QED
      BY <1>1, <1>3
  <2> HIDE DEF S
  <2>2. QED
    BY <1>1, <1>4, <2>1, Climbs
<1>6. Right(d)
  <2> HIDE DEF Right
  <2>1. QED
    BY <1>5
<1>7. QED
  BY <1>6 DEF L, nodes

-----------------------------------------------------------------------------
(* The workshop menu: what it is to show *)

\* What the menu is to show, of the recipes that items allow.
WsWanted(z, items) ==
    \E n \in 0..Cardinality(SubLists) : \E c \in WsChains(n, items) :
      \E k \in Keywords \cap Entries(WsEnd(c, n), items) :
        \E r \in WsShown(k, items) : \E f \in ToSet(wsRecipes[r].created) :
          z = <<Append(WsPath(c, n), k), r, f>>

\* The model's chains are those of some length.
LEMMA WsChainsAre ==
  ASSUME NEW items
  PROVE  /\ \A c \in Chains(items) : \E n \in 0..Cardinality(SubLists) : c \in WsChains(n, items)
         /\ \A n \in 0..Cardinality(SubLists) : \A c \in WsChains(n, items) :
              /\ c \in Chains(items) /\ (IF c = <<>> THEN RootList ELSE Last(c)) = WsEnd(c, n)
              /\ [i \in DOMAIN c |-> CategoryOf(c[i])] = WsPath(c, n)
<1> DEFINE N == Cardinality(SubLists)
           Ok(c) == \A i \in DOMAIN c : c[i] \in Entries(IF i = 1 THEN RootList ELSE c[i - 1], items)
<1>1. N \in Nat
  BY WorkshopAssumption, FS_CardinalityType
<1>2. \A n \in 0..N : \A c : c \in WsChains(n, items) <=> c \in [1..n -> SubLists] /\ Ok(c)
  BY DEF WsChains
<1>3. \A c : c \in Chains(items) <=> (\E n \in 0..N : c \in [1..n -> SubLists]) /\ Ok(c)
  BY DEF Chains, SeqOf
<1> HIDE DEF Ok, N
<1>4. ASSUME NEW n \in 0..N, NEW c \in WsChains(n, items)
      PROVE  /\ c \in Chains(items) /\ (IF c = <<>> THEN RootList ELSE Last(c)) = WsEnd(c, n)
             /\ [i \in DOMAIN c |-> CategoryOf(c[i])] = WsPath(c, n)
  <2>1. c \in [1..n -> SubLists] /\ c \in Chains(items) /\ n \in Nat
    BY <1>1, <1>2, <1>3
  <2>2. c \in Seq(SubLists) /\ Len(c) = n /\ DOMAIN c = 1..n
    BY <2>1
  <2>3. (IF c = <<>> THEN RootList ELSE Last(c)) = WsEnd(c, n)
    BY <2>2 DEF Last, WsEnd
  <2>4. [i \in DOMAIN c |-> CategoryOf(c[i])] = WsPath(c, n)
    BY <2>2 DEF WsPath
  <2>5. QED
    BY <2>1, <2>3, <2>4
<1>5. \A c \in Chains(items) : \E n \in 0..N : c \in WsChains(n, items)
  BY <1>2, <1>3
<1>6. QED
  BY <1>4, <1>5 DEF N

\* What is expected, one element at a time.
LEMMA WsExpectedIs ==
  ASSUME NEW items
  PROVE  \A z : z \in ExpectedItems(items) <=> WsWanted(z, items)
<1> DEFINE List(c) == IF c = <<>> THEN RootList ELSE Last(c)
           Path(c) == [i \in DOMAIN c |-> CategoryOf(c[i])]
           Holds(z, list, path) ==
             \E k \in Entries(list, items) \cap Keywords :
               \E r \in WsShown(k, items) : \E f \in ToSet(wsRecipes[r].created) : z = <<Append(path, k), r, f>>
<1>1. \A z : z \in ExpectedItems(items) <=> \E c \in Chains(items) : Holds(z, List(c), Path(c))
  <2> DEFINE Showing(list) == {x \in (Entries(list, items) \cap Keywords) \X DOMAIN wsRecipes :
                                WorkshopCanShowRecipe(x[2], Filter(x[1]), items)}
             Under(list, path) ==
               UNION {{<< Append(path, x[1]), x[2], f >> : f \in ToSet(wsRecipes[x[2]].created)} : x \in Showing(list)}
  <2>1. ASSUME NEW list, NEW path, NEW z PROVE z \in Under(list, path) <=> Holds(z, list, path)
    <3>1. ASSUME NEW k \in Entries(list, items) \cap Keywords, NEW r \in WsShown(k, items)
          PROVE  <<k, r>> \in Showing(list)
      BY DEF WsShown
    <3>2. ASSUME NEW x \in Showing(list)
          PROVE  x[1] \in Entries(list, items) \cap Keywords /\ x[2] \in WsShown(x[1], items)
      BY DEF WsShown
    <3>3. z \in Under(list, path) <=>
            \E x \in Showing(list) : \E f \in ToSet(wsRecipes[x[2]].created) : z = << Append(path, x[1]), x[2], f >>
      <4> HIDE DEF Showing
      <4>1. QED
        OBVIOUS
    <3> HIDE DEF Showing, Under
    <3>4. ASSUME z \in Under(list, path) PROVE Holds(z, list, path)
      BY <3>2, <3>3, <3>4
    <3>5. ASSUME Holds(z, list, path) PROVE z \in Under(list, path)
      <4>1. PICK k \in Entries(list, items) \cap Keywords :
              \E r \in WsShown(k, items) : \E f \in ToSet(wsRecipes[r].created) : z = <<Append(path, k), r, f>>
        BY <3>5
      <4>2. PICK r \in WsShown(k, items) : \E f \in ToSet(wsRecipes[r].created) : z = <<Append(path, k), r, f>>
        BY <4>1
      <4> DEFINE x == <<k, r>>
      <4>3. x \in Showing(list) /\ x[1] = k /\ x[2] = r
        BY <3>1
      <4> HIDE DEF x
      <4>4. QED
        BY <3>3, <4>2, <4>3
    <3>6. QED
      BY <3>4, <3>5
  <2>2. ExpectedItems(items) = UNION {Under(List(c), Path(c)) : c \in Chains(items)}
    BY DEF ExpectedItems
  <2> HIDE DEF Under, Holds, List, Path
  <2>3. QED
    BY <2>1, <2>2
<1>2. \A c \in Chains(items) : \E n \in 0..Cardinality(SubLists) : c \in WsChains(n, items)
  BY WsChainsAre
<1>3. \A n \in 0..Cardinality(SubLists) : \A c \in WsChains(n, items) :
        c \in Chains(items) /\ List(c) = WsEnd(c, n) /\ Path(c) = WsPath(c, n)
  BY WsChainsAre
<1>4. \A z : WsWanted(z, items) <=>
        \E n \in 0..Cardinality(SubLists) : \E c \in WsChains(n, items) : Holds(z, WsEnd(c, n), WsPath(c, n))
  BY DEF WsWanted
<1> HIDE DEF Holds, List, Path
<1>5. QED
  BY <1>1, <1>2, <1>3, <1>4

\* The menu holds what it is to show.
LEMMA WsItemsAre ==
  ASSUME WsData, Acyclic, NEW items
  PROVE  ItemsUnder(MakeRootMenu(items)) = ExpectedItems(items)
<1> DEFINE nodes == MakeRootMenu(items)
           N == Cardinality(SubLists)
<1>1. N \in Nat /\ Depth = N + 1
  BY WorkshopAssumption, FS_CardinalityType DEF Depth
<1>2. \A d \in 0..Depth : \A y : y \in Levels(nodes)[d] <=> WsIsCategory(d, y, items) \/ WsIsItem(d, y, items)
  BY WsLevelIs
<1>3. \A z : z \in ItemsUnder(nodes) <=>
        \E d \in 0..Depth : \E y \in Levels(nodes)[d] :
          y[2].children = <<>> /\ z = <<y[1], y[2].recipe, y[2].form>>
  BY DEF ItemsUnder
<1> HIDE DEF nodes, N
<1>4. ASSUME NEW z \in ItemsUnder(nodes) PROVE WsWanted(z, items)
  <2>1. PICK d \in 0..Depth : \E y \in Levels(nodes)[d] :
               y[2].children = <<>> /\ z = <<y[1], y[2].recipe, y[2].form>>
    BY <1>3
  <2>2. PICK y \in Levels(nodes)[d] : y[2].children = <<>> /\ z = <<y[1], y[2].recipe, y[2].form>>
    BY <2>1
  <2>3. d \in Nat
    BY <1>1
  <2>4. ~WsIsCategory(d, y, items)
    <3> SUFFICES ASSUME WsIsCategory(d, y, items) PROVE FALSE
      OBVIOUS
    <3>1. PICK c \in WsChains(d, items) : \E x \in ToSet(EnumerateFLST(items)[WholeList(WsEnd(c, d))]) :
            y = <<WsPath(c, d), x>>
      BY DEF WsIsCategory
    <3>2. PICK x \in ToSet(EnumerateFLST(items)[WholeList(WsEnd(c, d))]) : y = <<WsPath(c, d), x>>
      BY <3>1
    <3>3. WsEnd(c, d) \in FormLists
      BY <2>3, WsEndIs
    <3>4. x.children # <<>>
      BY <3>2, <3>3, WsWholeNodesAre DEF WsGives
    <3>5. QED
      BY <2>2, <3>2, <3>4
  <2>5. WsIsItem(d, y, items)
    BY <1>2, <2>4
  <2>6. d - 1 \in 0..N
    BY <1>1, <2>5 DEF WsIsItem
  <2>7. PICK c \in WsChains(d - 1, items) : \E k \in Keywords \cap Entries(WsEnd(c, d - 1), items) :
          \E x \in ToSet(Leaves(k, items)) : y = <<Append(WsPath(c, d - 1), k), x>>
    BY <2>5 DEF WsIsItem
  <2>8. PICK k \in Keywords \cap Entries(WsEnd(c, d - 1), items) :
          \E x \in ToSet(Leaves(k, items)) : y = <<Append(WsPath(c, d - 1), k), x>>
    BY <2>7
  <2>9. PICK x \in ToSet(Leaves(k, items)) : y = <<Append(WsPath(c, d - 1), k), x>>
    BY <2>8
  <2>10. x.recipe \in WsShown(k, items) /\ x.form \in ToSet(wsRecipes[x.recipe].created)
    BY WsLeavesAre DEF WsLeavesRight, WsLeaf
  <2>11. z = <<Append(WsPath(c, d - 1), k), x.recipe, x.form>>
    BY <2>2, <2>9
  <2>12. QED
    BY <2>6, <2>10, <2>11 DEF WsWanted, N
<1>5. ASSUME NEW z, WsWanted(z, items) PROVE z \in ItemsUnder(nodes)
  <2>1. PICK n \in 0..N : \E c \in WsChains(n, items) :
          \E k \in Keywords \cap Entries(WsEnd(c, n), items) :
            \E r \in WsShown(k, items) : \E f \in ToSet(wsRecipes[r].created) :
              z = <<Append(WsPath(c, n), k), r, f>>
    BY <1>5 DEF WsWanted, N
  <2>2. PICK c \in WsChains(n, items) :
          \E k \in Keywords \cap Entries(WsEnd(c, n), items) :
            \E r \in WsShown(k, items) : \E f \in ToSet(wsRecipes[r].created) :
              z = <<Append(WsPath(c, n), k), r, f>>
    BY <2>1
  <2>3. PICK k \in Keywords \cap Entries(WsEnd(c, n), items) :
            \E r \in WsShown(k, items) : \E f \in ToSet(wsRecipes[r].created) :
              z = <<Append(WsPath(c, n), k), r, f>>
    BY <2>2
  <2>4. PICK r \in WsShown(k, items) : \E f \in ToSet(wsRecipes[r].created) :
              z = <<Append(WsPath(c, n), k), r, f>>
    BY <2>3
  <2>5. PICK f \in ToSet(wsRecipes[r].created) : z = <<Append(WsPath(c, n), k), r, f>>
    BY <2>4
  <2>6. WsLeavesRight(k, items, Leaves(k, items))
    BY WsLeavesAre
  <2>7. PICK x \in ToSet(Leaves(k, items)) : x.recipe = r /\ x.form = f
    BY <2>6 DEF WsLeavesRight
  <2>8. x.children = <<>>
    BY <2>6 DEF WsLeavesRight, WsLeaf
  <2> DEFINE y == <<Append(WsPath(c, n), k), x>>
  <2>9. n + 1 \in 0..Depth /\ n + 1 # 0 /\ (n + 1) - 1 = n
    BY <1>1
  <2>10. WsIsItem(n + 1, y, items)
    <3> HIDE DEF y
    <3>1. y = <<Append(WsPath(c, n), k), x>>
      BY DEF y
    <3>2. QED
      BY <2>9, <3>1 DEF WsIsItem
  <2>11. y[1] = Append(WsPath(c, n), k) /\ y[2] = x
    OBVIOUS
  <2> HIDE DEF y
  <2>12. y \in Levels(nodes)[n + 1]
    BY <1>2, <2>9, <2>10
  <2>13. QED
    BY <1>3, <2>5, <2>7, <2>8, <2>9, <2>11, <2>12
<1>6. \A z : z \in ItemsUnder(nodes) <=> z \in ExpectedItems(items)
  BY <1>4, <1>5, WsExpectedIs
<1>7. QED
  BY <1>6 DEF nodes

\* Every category is in order, and the last level has no categories.
LEMMA WsLevelsInOrder ==
  ASSUME WsData, Acyclic, NEW items
  PROVE  /\ NumberedInOrder(MakeRootMenu(items))
         /\ \A d \in 0..Depth : \A x \in Levels(MakeRootMenu(items))[d] : NumberedInOrder(x[2].children)
         /\ \A x \in Levels(MakeRootMenu(items))[Depth] : x[2].children = <<>>
<1> DEFINE nodes == MakeRootMenu(items)
<1>1. Cardinality(SubLists) \in Nat /\ Depth = Cardinality(SubLists) + 1 /\ RootList \in FormLists
      /\ SubLists \subseteq FormLists /\ Depth \in 0..Depth
  BY WorkshopAssumption, FS_CardinalityType DEF Depth, FormLists
<1>2. \A d \in 0..Depth : \A y : y \in Levels(nodes)[d] <=> WsIsCategory(d, y, items) \/ WsIsItem(d, y, items)
  BY WsLevelIs
<1>3. NumberedInOrder(nodes)
  BY <1>1, WsWholeNodesAre DEF MakeRootMenu
<1> HIDE DEF nodes
<1>4. ASSUME NEW d \in 0..Depth, NEW y, WsIsItem(d, y, items) PROVE y[2].children = <<>>
  <2>1. PICK k : \E x \in ToSet(Leaves(k, items)) : y[2] = x
    BY <1>4 DEF WsIsItem
  <2>2. QED
    BY <2>1, WsLeavesAre DEF WsLeavesRight, WsLeaf
<1>5. ASSUME NEW d \in 0..Depth, NEW y, WsIsCategory(d, y, items) PROVE NumberedInOrder(y[2].children)
  <2>1. d \in Nat
    BY <1>1
  <2>2. PICK c \in WsChains(d, items) : \E x \in ToSet(EnumerateFLST(items)[WholeList(WsEnd(c, d))]) :
          y = <<WsPath(c, d), x>>
    BY <1>5 DEF WsIsCategory
  <2>3. PICK x \in ToSet(EnumerateFLST(items)[WholeList(WsEnd(c, d))]) : y = <<WsPath(c, d), x>>
    BY <2>2
  <2>4. WsEnd(c, d) \in FormLists
    BY <2>1, WsEndIs
  <2>5. PICK e : WsGives(e, x, items)
    BY <2>3, <2>4, WsWholeNodesAre
  <2>6. CASE x.children = Leaves(e, items)
    BY <2>3, <2>6, WsLeavesAre DEF WsLeavesRight
  <2>7. CASE e \in SubLists /\ x.children = EnumerateFLST(items)[WholeList(e)]
    BY <1>1, <2>3, <2>7, WsWholeNodesAre
  <2>8. QED
    BY <2>5, <2>6, <2>7 DEF WsGives, Headed
<1>6. ASSUME NEW y PROVE ~WsIsCategory(Depth, y, items)
  <2> SUFFICES ASSUME WsIsCategory(Depth, y, items) PROVE FALSE
    OBVIOUS
  <2>1. PICK c \in WsChains(Depth, items) : TRUE
    BY DEF WsIsCategory
  <2>2. Depth \in Nat
    BY <1>1
  <2>3. Depth <= Cardinality(SubLists)
    BY <2>1, <2>2, WsChainsAreShort
  <2>4. QED
    BY <1>1, <2>3
<1>7. NumberedInOrder(<<>>)
  BY DEF NumberedInOrder
<1>8. ASSUME NEW d \in 0..Depth, NEW x \in Levels(nodes)[d] PROVE NumberedInOrder(x[2].children)
  BY <1>2, <1>4, <1>5, <1>7
<1>9. ASSUME NEW x \in Levels(nodes)[Depth] PROVE x[2].children = <<>>
  BY <1>1, <1>2, <1>4, <1>6
<1>10. QED
  BY <1>3, <1>8, <1>9 DEF nodes

-----------------------------------------------------------------------------
(* The workshop menu: the invariant *)

WsIInv ==
    /\ FwIInv /\ deleted \subseteq Deletable /\ openings \in 0..MaxOpenings
    /\ wsRecipes \in RecipeSets \cup {<<>>} /\ (openings > 0 => wsRecipes # <<>>)
    /\ MenuAgrees

\* GetItemIndex of any list of created forms.
WsIndexOf(created, form) ==
    CHOOSE i \in DOMAIN created : created[i] = form /\ \A j \in 1 .. i - 1 : created[j] # form

\* The order of nodes, what can be shown and what is expected, of any data: the
\* menu's definitions with the variables' values as parameters.
WsLessIn(recipes, a, b) ==
    IF a.source # NoForm /\ a.source = b.source
    THEN WsIndexOf(recipes[a.source].created, a.form) < WsIndexOf(recipes[a.source].created, b.form)
    ELSE LET p == recipes[a.recipe]
             q == recipes[b.recipe]
         IN  \/ p.priority < q.priority
             \/ p.priority = q.priority /\ p.name < q.name
             \/ p.priority = q.priority /\ p.name = q.name /\ p.id < q.id

WsOrderedIn(recipes, nodes) ==
    \A i \in DOMAIN nodes :
        /\ nodes[i].column = i - 1
        /\ \A j \in 1 .. i - 1 :
             nodes[j].children = <<>> => nodes[i].children = <<>> /\ WsLessIn(recipes, nodes[j], nodes[i])

WsCanShowIn(recipes, r, filter, items) ==
    LET filters == ToSet(recipes[r].filters) \ {NoForm}
    IN  /\ filter \in filters \/ (filter = NoForm /\ filters = {})
        /\ recipes[r].conditions \/ r \in items \/ AlwaysShowIcon \in filters
        /\ recipes[r].bench

WsHeadedIn(lists, gone) ==
    {l \in SubLists \ gone : lists[l] # <<>> /\ Head(lists[l]) \in Keywords}

WsCategoryIn(lists, form) == IF form \in SubLists THEN Head(lists[form]) ELSE form

WsBelowIn(lists, gone, list) ==
    {l \in FormLists :
        \A closed \in SUBSET FormLists :
            list \in closed /\ (\A m \in closed : (ToSet(lists[m]) \cap SubLists) \cap WsHeadedIn(lists, gone)
                                                    \subseteq closed) => l \in closed}

WsShowsIn(recipes, gone, keyword, items) ==
    /\ keyword \in Keywords \ gone
    /\ \E r \in DOMAIN recipes :
         recipes[r].created # <<>> /\ WsCanShowIn(recipes, r, Filter(keyword), items)

WsFillsIn(lists, recipes, gone, form, items) ==
    \/ WsShowsIn(recipes, gone, form, items)
    \/ /\ form \in WsHeadedIn(lists, gone)
       /\ \E l \in WsBelowIn(lists, gone, form) : \E k \in ToSet(lists[l]) : WsShowsIn(recipes, gone, k, items)

WsEntriesIn(lists, recipes, gone, list, items) ==
    LET entry == lists[list]
        filling == {i \in DOMAIN entry : WsFillsIn(lists, recipes, gone, entry[i], items)}
    IN  {entry[i] : i \in {j \in filling :
            \A h \in filling : h < j /\ WsCategoryIn(lists, entry[h]) = WsCategoryIn(lists, entry[j]) =>
                \E m \in filling : h < m /\ m < j}}

WsChainsIn(lists, recipes, gone, items) ==
    {c \in SeqOf(SubLists, Cardinality(SubLists)) :
        \A i \in DOMAIN c :
            c[i] \in WsEntriesIn(lists, recipes, gone, IF i = 1 THEN RootList ELSE c[i - 1], items)}

WsExpectedIn(lists, recipes, gone, items) ==
    UNION {LET path == [i \in DOMAIN c |-> WsCategoryIn(lists, c[i])]
               list == IF c = <<>> THEN RootList ELSE Last(c)
               shown == {x \in (WsEntriesIn(lists, recipes, gone, list, items) \cap Keywords) \X DOMAIN recipes :
                            WsCanShowIn(recipes, x[2], Filter(x[1]), items)}
           IN  UNION {{<< Append(path, x[1]), x[2], f >> : f \in ToSet(recipes[x[2]].created)} : x \in shown}
           : c \in WsChainsIn(lists, recipes, gone, items)}

WsAgreesIn(lists, recipes, gone, items, nodes) ==
    /\ ItemsUnder(nodes) = WsExpectedIn(lists, recipes, gone, items)
    /\ WsOrderedIn(recipes, nodes)
    /\ \A d \in 0..Depth : \A x \in Levels(nodes)[d] : WsOrderedIn(recipes, x[2].children)
    /\ \A x \in Levels(nodes)[Depth] : x[2].children = <<>>

\* The order of nodes, of the recipes' value.
LEMMA WsOrderedIs ==
  ASSUME NEW nodes
  PROVE  NumberedInOrder(nodes) <=> WsOrderedIn(wsRecipes, nodes)
<1>1. \A r, form : ItemIndex(r, form) = WsIndexOf(wsRecipes[r].created, form)
  BY DEF ItemIndex, WsIndexOf
<1>2. \A a, b : Less(a, b) <=> WsLessIn(wsRecipes, a, b)
  BY <1>1 DEF Less, WsLessIn
<1>3. QED
  BY <1>2 DEF NumberedInOrder, WsOrderedIn

\* The entries whose category is in the menu, of the data's values.
LEMMA WsEntriesOf ==
  ASSUME NEW items
  PROVE  \A list : Entries(list, items) = WsEntriesIn(wsLists, wsRecipes, deleted, list, items)
<1>1. Headed = WsHeadedIn(wsLists, deleted)
  BY DEF Headed, WsHeadedIn
<1>2. \A list : Below(list) = WsBelowIn(wsLists, deleted, list)
  BY <1>1 DEF Below, WsBelowIn, SubListsOf
<1>3. \A k : Shows(k, items) <=> WsShowsIn(wsRecipes, deleted, k, items)
  BY DEF Shows, WsShowsIn, WorkshopCanShowRecipe, WsCanShowIn, Filters
<1>4. \A form : Fills(form, items) <=> WsFillsIn(wsLists, wsRecipes, deleted, form, items)
  BY <1>1, <1>2, <1>3 DEF Fills, WsFillsIn
<1>5. \A form : CategoryOf(form) = WsCategoryIn(wsLists, form)
  BY DEF CategoryOf, WsCategoryIn
<1>6. QED
  BY <1>4, <1>5 DEF Entries, WsEntriesIn

\* What is expected, of the data's values.
LEMMA WsExpectedOf ==
  ASSUME NEW items
  PROVE  ExpectedItems(items) = WsExpectedIn(wsLists, wsRecipes, deleted, items)
<1> DEFINE List(c) == IF c = <<>> THEN RootList ELSE Last(c)
           Path(c) == [i \in DOMAIN c |-> CategoryOf(c[i])]
           PathIn(c) == [i \in DOMAIN c |-> WsCategoryIn(wsLists, c[i])]
           Showing(list) == {x \in (Entries(list, items) \cap Keywords) \X DOMAIN wsRecipes :
                              WorkshopCanShowRecipe(x[2], Filter(x[1]), items)}
           ShowingIn(list) ==
             {x \in (WsEntriesIn(wsLists, wsRecipes, deleted, list, items) \cap Keywords) \X DOMAIN wsRecipes :
                WsCanShowIn(wsRecipes, x[2], Filter(x[1]), items)}
           Under(path, shown) ==
             UNION {{<< Append(path, x[1]), x[2], f >> : f \in ToSet(wsRecipes[x[2]].created)} : x \in shown}
           chains == WsChainsIn(wsLists, wsRecipes, deleted, items)
<1>1. \A list : Entries(list, items) = WsEntriesIn(wsLists, wsRecipes, deleted, list, items)
  BY WsEntriesOf
<1>2. Chains(items) = chains
  BY <1>1 DEF Chains, WsChainsIn
<1>3. \A list : Showing(list) = ShowingIn(list)
  BY <1>1 DEF WorkshopCanShowRecipe, WsCanShowIn, Filters
<1>4. \A c : Path(c) = PathIn(c)
  BY DEF CategoryOf, WsCategoryIn
<1>5. ExpectedItems(items) = UNION {Under(Path(c), Showing(List(c))) : c \in Chains(items)}
  BY DEF ExpectedItems
<1>6. WsExpectedIn(wsLists, wsRecipes, deleted, items) = UNION {Under(PathIn(c), ShowingIn(List(c))) : c \in chains}
  BY DEF WsExpectedIn
<1> HIDE DEF List, Path, PathIn, Showing, ShowingIn, Under, chains
<1>7. QED
  BY <1>2, <1>3, <1>4, <1>5, <1>6

\* The property, of the state's values: a step that keeps them keeps it.
LEMMA MenuAgreesIs ==
  MenuAgrees <=> (openings > 0 => WsAgreesIn(wsLists, wsRecipes, deleted, stored, rootNode))
BY WsExpectedOf, WsOrderedIs, Zenon DEF MenuAgrees, WsAgreesIn

\* The menu, when it is built, is what it is to be.
LEMMA WsMenuIs ==
  ASSUME WsData, Acyclic, NEW items
  PROVE  WsAgreesIn(wsLists, wsRecipes, deleted, items, MakeRootMenu(items))
<1>1. ItemsUnder(MakeRootMenu(items)) = WsExpectedIn(wsLists, wsRecipes, deleted, items)
  BY WsItemsAre, WsExpectedOf
<1>2. QED
  BY <1>1, WsLevelsInOrder, WsOrderedIs DEF WsAgreesIn

LEMMA WsInitIInv == WsInit => WsIInv
<1> SUFFICES ASSUME WsInit PROVE WsIInv
  OBVIOUS
<1>1. FwIInv
  BY FwInitIInv DEF WsInit
<1>2. openings = 0 /\ MaxOpenings \in Nat
  BY MenuAssumption DEF WsInit
<1>3. deleted \subseteq Deletable
  BY DEF WsInit
<1>4. wsRecipes \in RecipeSets \cup {<<>>}
  BY DEF WsInit, FwInit
<1>5. QED
  BY <1>1, <1>2, <1>3, <1>4 DEF WsIInv, MenuAgrees

\* Once the menu has been built, the data stay and the store, too, until it
\* opens again.
LEMMA WsStepIInv == WsIInv /\ [WsNext]_wsVars => WsIInv'
<1> SUFFICES ASSUME WsIInv, [WsNext]_wsVars PROVE WsIInv'
  OBVIOUS
<1>1. /\ FwIInv /\ openings \in 0..MaxOpenings /\ deleted \subseteq Deletable /\ MaxOpenings \in Nat
      /\ wsRecipes \in RecipeSets \cup {<<>>} /\ (openings > 0 => wsRecipes # <<>>) /\ MenuAgrees
      /\ Deletable \subseteq Keywords \cup SubLists
  BY MenuAssumption DEF WsIInv
<1>2. FwIInv'
  <2>1. [FwNext]_fwVars
    BY DEF WsNext, wsVars, FwNext, BuildWorkShopMenuNodeTree
  <2>2. QED
    BY <1>1, <2>1, FwStepIInv
<1>3. MenuAgrees' <=> (openings' > 0 => WsAgreesIn(wsLists', wsRecipes', deleted', stored', rootNode'))
  <2>1. MenuAgrees' <=> (openings > 0 => WsAgreesIn(wsLists, wsRecipes, deleted, stored, rootNode))'
    BY MenuAgreesIs, PTL
  <2>2. QED
    BY <2>1
<1>4. CASE BuildWorkShopMenuNodeTree
  <2>1. /\ openings < MaxOpenings /\ wsRecipes # <<>> /\ Acyclic /\ openings' = openings + 1
        /\ rootNode' = MakeRootMenu(stored')
        /\ wsLists' = wsLists /\ wsRecipes' = wsRecipes /\ deleted' = deleted
    BY <1>4 DEF BuildWorkShopMenuNodeTree, StoreItems
  <2>2. WsData
    BY <1>1, <2>1 DEF WsData, FwIInv, FwTypeOK
  <2>3. WsAgreesIn(wsLists, wsRecipes, deleted, stored', rootNode')
    BY <2>1, <2>2, WsMenuIs
  <2>4. MenuAgrees'
    BY <1>3, <2>1, <2>3
  <2>5. QED
    BY <1>1, <1>2, <2>1, <2>4 DEF WsIInv
<1>5. CASE [/\ FwNext /\ (openings > 0 => wsRecipes' = wsRecipes /\ stored' = stored)
            /\ UNCHANGED <<deleted, rootNode, openings>>]_wsVars
  <2>1. /\ openings' = openings /\ deleted' = deleted /\ rootNode' = rootNode
        /\ openings > 0 => wsRecipes' = wsRecipes /\ stored' = stored
    BY <1>5 DEF wsVars, fwVars
  <2>2. wsLists' = wsLists /\ (wsRecipes' = wsRecipes \/ wsRecipes' \in RecipeSets)
    BY <1>5 DEF wsVars, fwVars, FwNext, ClearMap, StoreItems, CachedCheckForValidChildren, HandlerLeafNode
  <2>3. MenuAgrees'
    BY <1>1, <1>3, <2>1, <2>2, MenuAgreesIs
  <2>4. QED
    BY <1>1, <1>2, <2>1, <2>2, <2>3 DEF WsIInv
<1>6. QED
  BY <1>4, <1>5 DEF WsNext

LEMMA WsInductive == WsSpec => []WsIInv
BY WsInitIInv, WsStepIInv, PTL DEF WsSpec

(***************************************************************************)
(* The types of the workshop menu's data, for every set of form lists and  *)
(* recipes.                                                                *)
(***************************************************************************)
THEOREM WsTypeCorrect == WsSpec => []WsTypeOK
<1>1. WsIInv => WsTypeOK
  BY DEF WsIInv, WsTypeOK, FwIInv
<1>2. QED
  BY <1>1, WsInductive, PTL

(***************************************************************************)
(* However the form lists nest, as long as none contains itself, whatever  *)
(* they and the recipes are and whichever forms are deleted, the menu that *)
(* BuildWorkShopMenuNodeTree makes holds exactly what can be shown, each   *)
(* under every chain of categories that leads to its keyword, but for the  *)
(* categories that std::unique drops next to one of the same keyword       *)
(* (Entries, FixupChildren); none is empty and each is in order.           *)
(***************************************************************************)
THEOREM MenuAgreesHolds == WsSpec => []MenuAgrees
<1>1. WsIInv => MenuAgrees
  BY DEF WsIInv
<1>2. QED
  BY <1>1, WsInductive, PTL

-----------------------------------------------------------------------------
(* The words of a crash *)

\* A link has a class to go on with.
InMember(m) ==
    /\ m.kind \in {"text", "always", "link"}
    /\ m.kind = "link" <=> m.key \in DOMAIN LinkClass

InMembers(s) ==
    /\ \E n \in Nat : DOMAIN s = 1..n
    /\ \A j \in DOMAIN s : InMember(s[j])

LEMMA InLinks ==
  DOMAIN LinkClass = {"Object Reference", "displayNameText", "objectReferences", "Checking TESObjectREFR",
                      "Checking Parent", "Owner Quest"}
  BY DEF LinkClass

LEMMA InKindsOfMember ==
  ASSUME NEW key
  PROVE  /\ key \notin DOMAIN LinkClass => InMember(Text(key)) /\ InMember(AlwaysShown(key))
         /\ key \in DOMAIN LinkClass => InMember(Link(key))
  BY DEF InMember, Text, AlwaysShown, Link

LEMMA InTuples ==
  ASSUME NEW a, InMember(a)
  PROVE  /\ InMembers(<<a>>)
         /\ \A b : InMember(b) => /\ InMembers(<<a, b>>)
                                  /\ \A c : InMember(c) => InMembers(<<a, b, c>>)
<1>1. DOMAIN <<a>> = 1..1
  OBVIOUS
<1>2. \A b : DOMAIN <<a, b>> = 1..2
  OBVIOUS
<1>3. \A b, c : DOMAIN <<a, b, c>> = 1..3
  OBVIOUS
<1>4. QED
  BY <1>1, <1>2, <1>3 DEF InMembers

LEMMA InLongTuples ==
  ASSUME NEW a, NEW b, NEW c, NEW d, NEW e, InMember(a), InMember(b), InMember(c), InMember(d), InMember(e)
  PROVE  /\ InMembers(<<a, b, c, d, e>>)
         /\ \A f, g : InMember(f) /\ InMember(g) => InMembers(<<a, b, c, d, e, f, g>>)
<1>1. DOMAIN <<a, b, c, d, e>> = 1..5
  OBVIOUS
<1>2. \A f, g : DOMAIN <<a, b, c, d, e, f, g>> = 1..7
  OBVIOUS
<1>3. QED
  BY <1>1, <1>2 DEF InMembers

LEMMA InMembersAre ==
  ASSUME NEW c \in DOMAIN Members
  PROVE  InMembers(Members[c])
<1> DEFINE All(G) == \A d \in DOMAIN G : InMembers(G[d])
<1> HIDE DEF All
<1>1. All(StreamMembers)
  <2>1. /\ InMember(Text("Directory Name")) /\ InMember(Text("File Name"))
        /\ InMember(Text("Prefix")) /\ InMember(Text("Function")) /\ InMember(Text("Object"))
        /\ InMember(Text("State")) /\ InMember(Text("Name")) /\ InMember(Text("DocString"))
    BY InLinks, InKindsOfMember
  <2>2. InMembers(StreamMembers.LooseFileStreamBase)
    BY <2>1, InTuples DEF StreamMembers
  <2>3. InMembers(StreamMembers.NativeFunctionBase)
    BY <2>1, InTuples DEF StreamMembers
  <2>4. InMembers(StreamMembers.ObjectTypeInfo)
    BY <2>1, InTuples DEF StreamMembers
  <2>5. DOMAIN StreamMembers = {"LooseFileStreamBase", "NativeFunctionBase", "ObjectTypeInfo"}
    BY DEF StreamMembers
  <2>6. QED
    BY <2>2, <2>3, <2>4, <2>5 DEF All
<1>2. All(NiMembers)
  <2>1. /\ InMember(Text("Name")) /\ InMember(Text("File Name"))
        /\ InMember(AlwaysShown("Header")) /\ InMember(Text("lastLoadedRTTI"))
        /\ InMember(Text("fileName")) /\ InMember(Text("filePath"))
        /\ InMember(Text("RTTIName"))
    BY InLinks, InKindsOfMember
  <2>2. InMembers(NiMembers.NiObjectNET)
    BY <2>1, InTuples DEF NiMembers
  <2>3. InMembers(NiMembers.NiStream)
    BY <2>1, InLongTuples DEF NiMembers
  <2>4. InMembers(NiMembers.NiTexture)
    BY <2>1, InTuples DEF NiMembers
  <2>5. DOMAIN NiMembers = {"NiObjectNET", "NiStream", "NiTexture"}
    BY DEF NiMembers
  <2>6. QED
    BY <2>2, <2>3, <2>4, <2>5 DEF All
<1>3. All(FormMembers)
  <2>1. /\ InMember(Text("File")) /\ InMember(Text("Modified by"))
        /\ InMember(AlwaysShown("Flags")) /\ InMember(Text("Name"))
        /\ InMember(Text("EditorID")) /\ InMember(AlwaysShown("FormID"))
        /\ InMember(Text("FormType")) /\ InMember(Text("GetFullName"))
    BY InLinks, InKindsOfMember
  <2>2. InMembers(FormMembers.TESForm)
    BY <2>1, InLongTuples DEF FormMembers
  <2>3. InMembers(FormMembers.TESFullName)
    BY <2>1, InTuples DEF FormMembers
  <2>4. DOMAIN FormMembers = {"TESForm", "TESFullName"}
    BY DEF FormMembers
  <2>5. QED
    BY <2>2, <2>3, <2>4 DEF All
<1>4. All(SceneMembers)
  <2>1. /\ InMember(Link("Object Reference")) /\ InMember(AlwaysShown("Flags"))
        /\ InMember(Text("Name")) /\ InMember(Text("RTTIName"))
        /\ InMember(Link("Checking TESObjectREFR")) /\ InMember(Link("Checking Parent"))
    BY InLinks, InKindsOfMember
  <2>2. InMembers(SceneMembers.TESObjectREFR)
    BY <2>1, InTuples DEF SceneMembers
  <2>3. InMembers(SceneMembers.BSShaderProperty)
    BY <2>1, InTuples DEF SceneMembers
  <2>4. InMembers(SceneMembers.NiAVObject)
    BY <2>1, InLongTuples DEF SceneMembers
  <2>5. DOMAIN SceneMembers = {"TESObjectREFR", "BSShaderProperty", "NiAVObject"}
    BY DEF SceneMembers
  <2>6. QED
    BY <2>2, <2>3, <2>4, <2>5 DEF All
<1>5. All(ScriptMembers)
  <2>1. /\ InMember(AlwaysShown("Already Run Quest, Current Stage"))
        /\ InMember(Text("Display Name")) /\ InMember(Link("displayNameText"))
        /\ InMember(Link("Owner Quest")) /\ InMember(AlwaysShown("Stack Trace"))
        /\ InMember(Link("objectReferences"))
    BY InLinks, InKindsOfMember
  <2>2. InMembers(ScriptMembers.TESQuest)
    BY <2>1, InTuples DEF ScriptMembers
  <2>3. InMembers(ScriptMembers.ExtraTextDisplayData)
    BY <2>1, InTuples DEF ScriptMembers
  <2>4. InMembers(ScriptMembers.CodeTasklet)
    BY <2>1, InTuples DEF ScriptMembers
  <2>5. DOMAIN ScriptMembers = {"TESQuest", "ExtraTextDisplayData", "CodeTasklet"}
    BY DEF ScriptMembers
  <2>6. QED
    BY <2>2, <2>3, <2>4, <2>5 DEF All
<1>6. \E G \in {StreamMembers, NiMembers, FormMembers, SceneMembers, ScriptMembers} :
        c \in DOMAIN G /\ Members[c] = G[c]
  BY DEF Members
<1>7. QED
  BY <1>1, <1>2, <1>3, <1>4, <1>5, <1>6 DEF All

\* The filterings that a filtering goes on to.
InTargets(x) ==
    {<<LinkClass[m.key], Target(x[2], m)>> : m \in {l \in ToSet(Members[x[1]]) : Leads(x[2], l)}}

LEMMA InTargetsAre ==
  ASSUME NEW x \in Filterings
  PROVE  /\ x[1] \in DOMAIN Members /\ x[2] \in DOMAIN Place /\ x = <<x[1], x[2]>>
         /\ \A y \in InTargets(x) : /\ y \in Filterings
                                    /\ \E key \in DOMAIN Place[x[2]].link : y[2] = Place[x[2]].link[key]
<1>1. x[1] \in DOMAIN Members /\ x[2] \in DOMAIN Place /\ x = <<x[1], x[2]>>
  BY DEF Filterings
<1>2. ASSUME NEW m \in ToSet(Members[x[1]]), Leads(x[2], m)
      PROVE  /\ LinkClass[m.key] \in DOMAIN Members
             /\ m.key \in DOMAIN Place[x[2]].link /\ Target(x[2], m) = Place[x[2]].link[m.key]
             /\ Target(x[2], m) \in DOMAIN Place
  <2>1. m.kind = "link" /\ Target(x[2], m) # "none"
    BY <1>2 DEF Leads
  <2>2. m.key \in DOMAIN LinkClass
    BY <1>1, <2>1, InMembersAre DEF InMembers, InMember, ToSet
  <2>3. LinkClass[m.key] \in {"TESForm", "TESObjectREFR", "NiAVObject", "TESQuest"}
    BY <2>2 DEF LinkClass
  <2>4. "TESForm" \in DOMAIN Members /\ "TESObjectREFR" \in DOMAIN Members
        /\ "NiAVObject" \in DOMAIN Members /\ "TESQuest" \in DOMAIN Members
    BY DEF Members, FormMembers, SceneMembers, ScriptMembers
  <2>5. m.key \in DOMAIN Place[x[2]].link /\ Target(x[2], m) = Place[x[2]].link[m.key]
    BY <2>1 DEF Target
  <2>6. QED
    BY <1>1, <2>3, <2>4, <2>5, IntrospectionAssumption
<1>3. QED
  BY <1>1, <1>2 DEF InTargets, Filterings

\* Among any filterings there is one that goes on to none of them.
LEMMA InTargetsEnd ==
  ASSUME NEW S \in SUBSET Filterings, S # {}
  PROVE  \E x \in S : InTargets(x) \cap S = {}
<1>1. CASE \E x \in S : InTargets(x) = {}
  BY <1>1
<1>2. CASE \A x \in S : InTargets(x) # {}
  <2> DEFINE P == {x[2] : x \in S}
  <2>1. \A x \in S : x[2] \in DOMAIN Place /\ DOMAIN Place[x[2]].link # {}
    BY <1>2, InTargetsAre
  <2>2. P \in SUBSET {p \in DOMAIN Place : DOMAIN Place[p].link # {}} /\ P # {}
    BY <2>1
  <2>3. PICK p \in P : \A key \in DOMAIN Place[p].link : Place[p].link[key] \notin P
    <3> HIDE DEF P
    <3>1. QED
      BY <2>2, IntrospectionAssumption
  <2>4. PICK x \in S : x[2] = p
    OBVIOUS
  <2>5. ASSUME NEW y \in InTargets(x), y \in S PROVE FALSE
    BY <2>3, <2>4, <2>5, InTargetsAre
  <2>6. QED
    BY <2>5
<1>3. QED
  BY <1>1, <1>2

\* What a filtering adds for each member, and in all, by the lines that f has for
\* those it goes on to.
InLinesOf(f, x, m) ==
    Attempt(x[1], x[2], m, IF Leads(x[2], m) THEN f[<<LinkClass[m.key], Target(x[2], m)>>] ELSE <<>>)

InAll(f, x) == FlattenSeq([i \in DOMAIN Members[x[1]] |-> InLinesOf(f, x, Members[x[1]][i])])

LEMMA InAllAgrees ==
  ASSUME NEW x \in Filterings, NEW f, NEW g, \A y \in InTargets(x) : f[y] = g[y]
  PROVE  InAll(f, x) = InAll(g, x)
<1>1. ASSUME NEW i \in DOMAIN Members[x[1]]
      PROVE  InLinesOf(f, x, Members[x[1]][i]) = InLinesOf(g, x, Members[x[1]][i])
  <2> DEFINE m == Members[x[1]][i]
  <2>1. m \in ToSet(Members[x[1]])
    BY DEF ToSet
  <2>2. Leads(x[2], m) => <<LinkClass[m.key], Target(x[2], m)>> \in InTargets(x)
    BY <2>1 DEF InTargets
  <2> HIDE DEF m
  <2>3. (IF Leads(x[2], m) THEN f[<<LinkClass[m.key], Target(x[2], m)>>] ELSE <<>>)
        = (IF Leads(x[2], m) THEN g[<<LinkClass[m.key], Target(x[2], m)>>] ELSE <<>>)
    BY <2>2
  <2>4. InLinesOf(f, x, m) = InLinesOf(g, x, m)
    BY <2>3 DEF InLinesOf
  <2>5. QED
    BY <2>4 DEF m
<1>2. QED
  BY <1>1 DEF InAll

InSolved(f, D) ==
    /\ D \subseteq Filterings /\ DOMAIN f = D /\ \A x \in D : InTargets(x) \subseteq D
    /\ \A x \in D : f[x] = InAll(f, x)

LEMMA InFewAreFinite ==
  ASSUME NEW a, NEW b, NEW c
  PROVE  IsFiniteSet({a, b}) /\ IsFiniteSet({a, b, c})
<1>1. IsFiniteSet({a})
  BY FS_Singleton
<1>2. IsFiniteSet({a} \cup {b})
  BY <1>1, FS_AddElement
<1>3. IsFiniteSet(({a} \cup {b}) \cup {c})
  BY <1>2, FS_AddElement
<1>4. {a} \cup {b} = {a, b} /\ ({a} \cup {b}) \cup {c} = {a, b, c}
  OBVIOUS
<1>5. QED
  BY <1>2, <1>3, <1>4

\* As links come to an end, the filters do.
LEMMA InLinesAre == \A x \in Filterings : Lines[x] = InAll(Lines, x)
<1> DEFINE N == Cardinality(Filterings)
           Solves(f) == f = [x \in Filterings |-> InAll(f, x)]
           T == {n \in 0..N : \E f, D : InSolved(f, D) /\ IsFiniteSet(D) /\ Cardinality(D) = n}
<1>1. IsFiniteSet(Filterings) /\ N \in Nat
  <2>1. IsFiniteSet(DOMAIN Members)
    <3> DEFINE A == DOMAIN StreamMembers
               B == DOMAIN NiMembers
               C == DOMAIN FormMembers
               D == DOMAIN SceneMembers
               E == DOMAIN ScriptMembers
    <3>1. IsFiniteSet(A) /\ IsFiniteSet(B) /\ IsFiniteSet(C) /\ IsFiniteSet(D) /\ IsFiniteSet(E)
      <4>1. IsFiniteSet({"LooseFileStreamBase", "NativeFunctionBase", "ObjectTypeInfo"})
        BY InFewAreFinite
      <4>2. IsFiniteSet({"NiObjectNET", "NiStream", "NiTexture"})
        BY InFewAreFinite
      <4>3. IsFiniteSet({"TESForm", "TESFullName"})
        BY InFewAreFinite
      <4>4. IsFiniteSet({"TESObjectREFR", "BSShaderProperty", "NiAVObject"})
        BY InFewAreFinite
      <4>5. IsFiniteSet({"TESQuest", "ExtraTextDisplayData", "CodeTasklet"})
        BY InFewAreFinite
      <4>6. QED
        BY <4>1, <4>2, <4>3, <4>4, <4>5
           DEF StreamMembers, NiMembers, FormMembers, SceneMembers, ScriptMembers
    <3>2. DOMAIN Members = A \cup B \cup C \cup D \cup E
      BY DEF Members
    <3> HIDE DEF A, B, C, D, E
    <3>3. IsFiniteSet(A \cup B)
      BY <3>1, FS_Union
    <3>4. IsFiniteSet(A \cup B \cup C)
      BY <3>1, <3>3, FS_Union
    <3>5. IsFiniteSet(A \cup B \cup C \cup D)
      BY <3>1, <3>4, FS_Union
    <3>6. IsFiniteSet(A \cup B \cup C \cup D \cup E)
      BY <3>1, <3>5, FS_Union
    <3>7. QED
      BY <3>2, <3>6
  <2>2. QED
    BY <2>1, IntrospectionAssumption, FS_Product, FS_CardinalityType DEF Filterings
<1>2. 0 \in T
  <2>1. InSolved([x \in {} |-> x], {})
    BY DEF InSolved
  <2>2. QED
    BY <1>1, <2>1, FS_EmptySet
<1>3. ASSUME NEW n \in 0..(N - 1), n \in T PROVE n + 1 \in T
  <2>1. PICK f, D : InSolved(f, D) /\ IsFiniteSet(D) /\ Cardinality(D) = n
    BY <1>3
  <2>2. D \in SUBSET Filterings /\ DOMAIN f = D
        /\ (\A x \in D : InTargets(x) \subseteq D /\ f[x] = InAll(f, x))
    BY <2>1 DEF InSolved
  <2>3. Filterings \ D # {}
    <3>1. D # Filterings
      BY <1>1, <2>1
    <3>2. QED
      BY <2>2, <3>1
  <2>4. PICK x \in Filterings \ D : InTargets(x) \cap (Filterings \ D) = {}
    <3>1. Filterings \ D \in SUBSET Filterings
      OBVIOUS
    <3>2. QED
      BY <2>3, <3>1, InTargetsEnd
  <2>5. InTargets(x) \subseteq D
    BY <2>4, InTargetsAre
  <2> DEFINE E == D \cup {x}
             g == [y \in E |-> IF y \in D THEN f[y] ELSE InAll(f, x)]
  <2>6. \A y \in D : g[y] = f[y]
    OBVIOUS
  <2>7. g[x] = InAll(f, x) /\ DOMAIN g = E
    BY <2>4
  <2> HIDE DEF g
  <2>8. ASSUME NEW y \in E PROVE InTargets(y) \subseteq E /\ g[y] = InAll(g, y)
    <3>1. y \in Filterings /\ InTargets(y) \subseteq D
      BY <2>2, <2>4, <2>5
    <3>2. InAll(f, y) = InAll(g, y)
      BY <2>6, <3>1, InAllAgrees
    <3>3. g[y] = InAll(f, y)
      BY <2>2, <2>6, <2>7
    <3>4. QED
      BY <3>1, <3>2, <3>3
  <2>9. InSolved(g, E)
    BY <2>2, <2>4, <2>7, <2>8 DEF InSolved
  <2>10. IsFiniteSet(E) /\ Cardinality(E) = n + 1
    BY <2>1, <2>4, FS_AddElement
  <2>11. QED
    BY <1>1, <2>9, <2>10
<1>4. \E f : Solves(f)
  <2>1. N \in T
    <3> HIDE DEF T
    <3>1. \A n \in 0..N : n \in T
      BY <1>1, <1>2, <1>3, Climbs
    <3>2. QED
      BY <1>1, <3>1
  <2>2. PICK f, D : InSolved(f, D) /\ IsFiniteSet(D) /\ Cardinality(D) = N
    BY <2>1
  <2>3. D = Filterings
    <3>1. D \in SUBSET Filterings
      BY <2>2 DEF InSolved
    <3>2. QED
      BY <1>1, <2>2, <3>1, FS_Subset
  <2> DEFINE g == [x \in Filterings |-> f[x]]
  <2>4. \A x \in Filterings : InAll(g, x) = f[x]
    <3> SUFFICES ASSUME NEW x \in Filterings PROVE InAll(g, x) = f[x]
      OBVIOUS
    <3>1. InTargets(x) \subseteq Filterings
      BY InTargetsAre
    <3>2. \A y \in InTargets(x) : g[y] = f[y]
      BY <3>1
    <3> HIDE DEF g
    <3>3. InAll(g, x) = InAll(f, x)
      BY <3>2, InAllAgrees
    <3>4. QED
      BY <2>2, <2>3, <3>3 DEF InSolved
  <2> DEFINE h == [x \in Filterings |-> InAll(g, x)]
  <2>5. g = h
    BY <2>4
  <2>6. Solves(g)
    BY <2>5
  <2> HIDE DEF Solves, g
  <2>7. QED
    BY <2>6
<1>5. Lines = CHOOSE f : Solves(f)
  BY DEF Lines, InAll, InLinesOf
<1>6. Solves(Lines)
  <2> HIDE DEF Solves
  <2>1. QED
    BY <1>4, <1>5
<1> DEFINE f == Lines
<1> HIDE DEF f
<1>7. Solves(f)
  BY <1>6 DEF f
<1>8. \A x \in Filterings : f[x] = InAll(f, x)
  BY <1>7
<1>9. QED
  BY <1>8 DEF f

\* What is reached from a filtering: itself and what is from those it goes on to.
LEMMA InReachedIs ==
  ASSUME NEW x \in Filterings
  PROVE  Reached[x] = {x} \cup UNION {Reached[y] : y \in InTargets(x)}
<1> DEFINE All(f, z) ==
             {z} \cup UNION {f[<<LinkClass[m.key], Target(z[2], m)>>] :
                              m \in {l \in ToSet(Members[z[1]]) : Leads(z[2], l)}}
           Solves(f) == f = [z \in Filterings |-> All(f, z)]
           Closed(C) == \A z \in C : InTargets(z) \subseteq C
           From(z) == {y \in Filterings : \A C \in SUBSET Filterings : z \in C /\ Closed(C) => y \in C}
           g == [z \in Filterings |-> From(z)]
<1>1. Reached = CHOOSE f : Solves(f)
  BY DEF Reached
<1>2. \A f, z, y : y \in All(f, z) <=> y = z \/ \E w \in InTargets(z) : y \in f[w]
  BY DEF InTargets
<1> HIDE DEF All
<1>3. ASSUME NEW z \in Filterings PROVE All(g, z) = g[z]
  <2>1. InTargets(z) \subseteq Filterings /\ \A y \in Filterings : InTargets(y) \subseteq Filterings
    BY InTargetsAre
  <2>2. \A y \in InTargets(z) : g[y] = From(y)
    BY <2>1
  <2>3. \A y \in Filterings : Closed(From(y)) /\ y \in From(y)
    BY <2>1
  <2>4. \A y : y \in All(g, z) <=> y = z \/ \E w \in InTargets(z) : y \in From(w)
    <3> HIDE DEF From, g
    <3>1. QED
      BY <1>2, <2>2
  <2> DEFINE C == {z} \cup UNION {From(y) : y \in InTargets(z)}
  <2>5. C \in SUBSET Filterings
    BY <2>1
  <2>6. Closed(C)
    <3> SUFFICES ASSUME NEW w \in C PROVE InTargets(w) \subseteq C
      OBVIOUS
    <3>1. CASE w = z
      <4>1. \A y \in InTargets(z) : y \in From(y)
        BY <2>1, <2>3
      <4>2. QED
        BY <3>1, <4>1
    <3>2. CASE \E y \in InTargets(z) : w \in From(y)
      <4>1. PICK y \in InTargets(z) : w \in From(y)
        BY <3>2
      <4>2. InTargets(w) \subseteq From(y)
        BY <2>1, <2>3, <4>1
      <4>3. QED
        BY <4>1, <4>2
    <3>3. QED
      BY <3>1, <3>2
  <2>7. From(z) \subseteq C
    <3> HIDE DEF C, Closed
    <3>1. z \in C
      BY DEF C
    <3>2. QED
      BY <2>5, <2>6, <3>1
  <2>8. ASSUME NEW y \in InTargets(z) PROVE From(y) \subseteq From(z)
    BY <2>1, <2>8
  <2>9. g[z] = From(z) /\ z \in From(z)
    BY <2>3
  <2> HIDE DEF From, g
  <2>10. \A y : y \in All(g, z) <=> y \in g[z]
    BY <2>4, <2>7, <2>8, <2>9
  <2>11. QED
    BY <2>10, <1>2
<1>4. Solves(g)
  <2> DEFINE h == [z \in Filterings |-> All(g, z)]
  <2> HIDE DEF From
  <2>1. \A z \in Filterings : g[z] = h[z]
    BY <1>3
  <2>2. g = h
    BY <2>1
  <2>3. QED
    BY <2>2
<1>5. Solves(Reached)
  <2> HIDE DEF Solves, g
  <2>1. QED
    BY <1>1, <1>4
<1> DEFINE f == Reached
<1> HIDE DEF f
<1>6. Solves(f)
  BY <1>5 DEF f
<1>7. f[x] = All(f, x)
  BY <1>6
<1>8. All(f, x) = {x} \cup UNION {f[y] : y \in InTargets(x)}
  BY DEF All, InTargets
<1>9. QED
  BY <1>7, <1>8 DEF f

\* A filter shows the values that can be read and are not empty, here and behind
\* the links that can be read.
InRight(x) ==
    /\ Lines[x] \in Seq(LineOf)
    /\ \A l : l \in ValueLines(Lines[x]) <=> \E y \in Reached[x] : l \in Values(y)

LEMMA InMemberLines ==
  ASSUME NEW x \in Filterings, \A y \in InTargets(x) : InRight(y), NEW m \in ToSet(Members[x[1]])
  PROVE  /\ InLinesOf(Lines, x, m) \in Seq(LineOf)
         /\ \A l : (l \in ToSet(InLinesOf(Lines, x, m)) /\ l.key \notin DOMAIN LinkClass) <=>
              \/ /\ m.kind # "link" /\ Readable(x[2], m)
                 /\ m.kind = "text" => m.key \notin Place[x[2]].empty
                 /\ l = [filter |-> x[1], of |-> x[2], key |-> m.key]
              \/ /\ Leads(x[2], m)
                 /\ \E y \in Reached[<<LinkClass[m.key], Target(x[2], m)>>] : l \in Values(y)
<1> DEFINE line == [filter |-> x[1], of |-> x[2], key |-> m.key]
           y == <<LinkClass[m.key], Target(x[2], m)>>
           nested == IF Leads(x[2], m) THEN Lines[y] ELSE <<>>
           s == InLinesOf(Lines, x, m)
<1>1. /\ x[1] \in DOMAIN Members /\ x[2] \in DOMAIN Place
      /\ m.kind \in {"text", "always", "link"} /\ (m.kind = "link" <=> m.key \in DOMAIN LinkClass)
  <2>1. x[1] \in DOMAIN Members /\ x[2] \in DOMAIN Place
    BY InTargetsAre
  <2>2. InMember(m)
    BY <2>1, InMembersAre DEF InMembers, ToSet
  <2>3. QED
    BY <2>1, <2>2 DEF InMember
<1>2. line \in LineOf /\ line.key = m.key
  BY <1>1 DEF LineOf
<1>3. Line(x[1], x[2], m) = <<line>>
  BY DEF Line
<1>4. <<line>> \in Seq(LineOf) /\ ToSet(<<line>>) = {line}
  <2> HIDE DEF line
  <2>1. <<line>> \in Seq(LineOf) /\ DOMAIN <<line>> = 1..1 /\ <<line>>[1] = line
    BY <1>2
  <2>2. QED
    BY <2>1 DEF ToSet
<1>5. <<>> \in Seq(LineOf) /\ ToSet(<<>>) = {}
  BY DEF ToSet
<1>6. /\ nested \in Seq(LineOf)
      /\ \A l : (l \in ToSet(nested) /\ l.key \notin DOMAIN LinkClass) <=>
           Leads(x[2], m) /\ \E z \in Reached[y] : l \in Values(z)
  <2>1. CASE Leads(x[2], m)
    <3>1. y \in InTargets(x)
      BY <2>1 DEF InTargets
    <3>2. InRight(y) /\ nested = Lines[y]
      BY <2>1, <3>1
    <3> HIDE DEF y, nested
    <3>3. QED
      BY <2>1, <3>2 DEF InRight, ValueLines
  <2>2. CASE ~Leads(x[2], m)
    <3>1. nested = <<>>
      BY <2>2
    <3> HIDE DEF y, nested
    <3>2. QED
      BY <1>5, <2>2, <3>1
  <2>3. QED
    BY <2>1, <2>2
<1> HIDE DEF line, nested
<1>7. s = Attempt(x[1], x[2], m, nested)
  BY DEF InLinesOf, nested
<1> HIDE DEF s, y
<1>8. CASE ~Readable(x[2], m)
  <2>1. s = <<>> /\ ~Leads(x[2], m)
    BY <1>7, <1>8 DEF Attempt, Leads
  <2>2. QED
    BY <1>5, <1>8, <2>1 DEF s, y
<1>9. CASE Readable(x[2], m) /\ m.kind = "link"
  <2>1. PICK head \in {<<>>, <<line>>} : s = head \o nested
    <3>1. s = Follow(x[1], x[2], m, nested)
      BY <1>7, <1>9 DEF Attempt
    <3>2. QED
      BY <1>3, <3>1 DEF Follow
  <2>2. head \in Seq(LineOf) /\ \A l \in ToSet(head) : l = line
    BY <1>4, <1>5
  <2>3. s \in Seq(LineOf) /\ ToSet(s) = ToSet(head) \cup ToSet(nested)
    BY <1>6, <2>1, <2>2, ToSetOfConcat
  <2>4. line.key \in DOMAIN LinkClass
    BY <1>1, <1>2, <1>9
  <2>5. \A l : (l \in ToSet(s) /\ l.key \notin DOMAIN LinkClass) <=>
               (l \in ToSet(nested) /\ l.key \notin DOMAIN LinkClass)
    BY <2>2, <2>3, <2>4
  <2>6. QED
    BY <1>6, <1>9, <2>3, <2>5 DEF s, y
<1>10. CASE Readable(x[2], m) /\ m.kind # "link"
  <2>1. ~Leads(x[2], m) /\ line.key \notin DOMAIN LinkClass
    BY <1>1, <1>2, <1>10 DEF Leads
  <2>2. CASE m.kind = "text" /\ m.key \in Place[x[2]].empty
    <3>1. s = <<>>
      BY <1>7, <1>10, <2>2 DEF Attempt
    <3>2. QED
      BY <1>5, <2>1, <2>2, <3>1 DEF s, y
  <2>3. CASE ~(m.kind = "text" /\ m.key \in Place[x[2]].empty)
    <3>1. s = <<line>>
      BY <1>3, <1>7, <1>10, <2>3 DEF Attempt
    <3>2. \A l : l \in ToSet(s) <=> l = line
      BY <1>4, <3>1
    <3>3. \A l : (l \in ToSet(s) /\ l.key \notin DOMAIN LinkClass) <=> l = line
      BY <2>1, <3>2
    <3>4. QED
      BY <1>4, <1>10, <2>1, <2>3, <3>1, <3>3 DEF s, y, line
  <2>4. QED
    BY <2>2, <2>3
<1>11. QED
  BY <1>8, <1>9, <1>10

LEMMA InLinesShow == \A x \in Filterings : InRight(x)
<1> DEFINE S == {x \in Filterings : ~InRight(x)}
<1> SUFFICES ASSUME S # {} PROVE FALSE
  OBVIOUS
<1>1. PICK x \in S : InTargets(x) \cap S = {}
  <2>1. S \in SUBSET Filterings
    OBVIOUS
  <2> HIDE DEF S
  <2>2. QED
    BY <2>1, InTargetsEnd
<1>2. x \in Filterings /\ ~InRight(x) /\ \A y \in InTargets(x) : InRight(y)
  BY <1>1, InTargetsAre
<1> HIDE DEF S
<1>3. PICK n \in Nat : DOMAIN Members[x[1]] = 1..n
  BY <1>2, InTargetsAre, InMembersAre DEF InMembers
<1> DEFINE M == Members[x[1]]
           ss == [i \in 1..n |-> InLinesOf(Lines, x, M[i])]
<1>4. \A i \in 1..n : M[i] \in ToSet(M)
  BY <1>3 DEF ToSet
<1>5. \A m \in ToSet(M) : \E i \in 1..n : m = M[i]
  BY <1>3 DEF ToSet
<1>6. DOMAIN ss = 1..n /\ \A i \in 1..n : ss[i] \in Seq(LineOf)
  BY <1>2, <1>4, InMemberLines
<1>7. Lines[x] = FlattenSeq(ss)
  BY <1>2, <1>3, InLinesAre DEF InAll
<1> HIDE DEF ss
<1>8. Lines[x] \in Seq(LineOf) /\ ToSet(Lines[x]) = UNION {ToSet(ss[i]) : i \in 1..n}
  BY <1>3, <1>6, <1>7, FlattensTo
<1>9. ASSUME NEW l
      PROVE  l \in ValueLines(Lines[x]) <=> \E y \in Reached[x] : l \in Values(y)
  <2> DEFINE own(m) == /\ m.kind # "link" /\ Readable(x[2], m)
                       /\ m.kind = "text" => m.key \notin Place[x[2]].empty
                       /\ l = [filter |-> x[1], of |-> x[2], key |-> m.key]
             behind(m) == /\ Leads(x[2], m)
                          /\ \E y \in Reached[<<LinkClass[m.key], Target(x[2], m)>>] : l \in Values(y)
  <2>1. \A i \in 1..n : (l \in ToSet(ss[i]) /\ l.key \notin DOMAIN LinkClass) <=> own(M[i]) \/ behind(M[i])
    BY <1>2, <1>4, InMemberLines DEF ss
  <2>2. l \in Values(x) <=> \E m \in ToSet(M) : own(m)
    BY DEF Values
  <2>3. (\E y \in InTargets(x) : \E z \in Reached[y] : l \in Values(z)) <=> \E m \in ToSet(M) : behind(m)
    BY DEF InTargets
  <2>4. (\E y \in Reached[x] : l \in Values(y)) <=>
          l \in Values(x) \/ \E y \in InTargets(x) : \E z \in Reached[y] : l \in Values(z)
    BY <1>2, InReachedIs
  <2> HIDE DEF own, behind, M
  <2>5. (l \in ValueLines(Lines[x])) <=> \E i \in 1..n : own(M[i]) \/ behind(M[i])
    BY <1>8, <2>1 DEF ValueLines
  <2>6. (\E i \in 1..n : own(M[i]) \/ behind(M[i])) <=> \E m \in ToSet(M) : own(m) \/ behind(m)
    BY <1>4, <1>5
  <2>7. QED
    BY <2>2, <2>3, <2>4, <2>5, <2>6
<1>10. QED
  BY <1>2, <1>8, <1>9 DEF InRight

LEMMA InObjectLines ==
  ASSUME NEW p \in DOMAIN Place
  PROVE  ObjectLines(p) \in Seq(LineOf) /\ ValueLines(ObjectLines(p)) = Shown(p)
<1> DEFINE B == Place[p].bases
           n == Len(B)
           ss == [i \in 1..n |-> Lines[<<B[i], p>>]]
<1>1. B \in Seq(DOMAIN Members)
  BY IntrospectionAssumption
<1> HIDE DEF B
<1>2. n \in Nat /\ DOMAIN B = 1..n /\ \A i \in 1..n : B[i] \in DOMAIN Members /\ <<B[i], p>> \in Filterings
  BY <1>1 DEF Filterings
<1>3. DOMAIN ss = 1..n /\ \A i \in 1..n : ss[i] \in Seq(LineOf)
  BY <1>2, InLinesShow DEF InRight
<1>4. ObjectLines(p) = FlattenSeq(ss)
  BY <1>2 DEF ObjectLines, B
<1> HIDE DEF ss, n
<1>5. ObjectLines(p) \in Seq(LineOf) /\ ToSet(ObjectLines(p)) = UNION {ToSet(ss[i]) : i \in 1..n}
  BY <1>2, <1>3, <1>4, FlattensTo
<1>6. ASSUME NEW l PROVE l \in ValueLines(ObjectLines(p)) <=> l \in Shown(p)
  <2>1. l \in ValueLines(ObjectLines(p)) <=> \E i \in 1..n : l \in ValueLines(ss[i])
    BY <1>5 DEF ValueLines
  <2>2. \A i \in 1..n : l \in ValueLines(ss[i]) <=> \E y \in Reached[<<B[i], p>>] : l \in Values(y)
    BY <1>2, InLinesShow DEF InRight, ss
  <2>3. \A c : c \in ToSet(B) <=> \E i \in 1..n : c = B[i]
    BY <1>2 DEF ToSet
  <2>4. l \in Shown(p) <=> \E c \in ToSet(B) : \E y \in Reached[<<c, p>>] : l \in Values(y)
    BY DEF Shown, B
  <2>5. QED
    BY <2>1, <2>2, <2>3, <2>4
<1>7. QED
  <2>1. ValueLines(ObjectLines(p)) = Shown(p)
    BY <1>6
  <2>2. QED
    BY <1>5, <2>1

-----------------------------------------------------------------------------
(* The words of a crash: the invariant *)

\* What the text of a word is to say, and what the worker of a word knows.
InMeant(w, text) ==
    /\ text.as = Meaning(w)
    /\ text.as = "object" => ValueLines(text.lines) = Shown(w)

\* What is known of a word on the way to its text.
InWordIs(i) ==
    LET w == stack[i]
        pc == worker[i].pc
        as == worker[i].as
    IN  /\ pc \in {"polymorphic", "string"} => w # Zero /\ (MemoryStill => Meaning(w) # "integer")
        /\ pc = "string" /\ MemoryStill => Meaning(w) \notin {"object", "plugin object"}
        /\ pc \in {"name", "done"} =>
             /\ as \in Kinds /\ (as # "integer" => w # Zero)
             /\ as \in {"string", "object", "plugin object"} => Place[w].kind = as
             /\ MemoryStill => as = Meaning(w)
        /\ pc = "done" => results[i].as \in Kinds /\ (MemoryStill => InMeant(w, results[i]))

InPrintedRight ==
    /\ Len(printed) = block /\ \A k \in 1..block : printed[k].word = stack[k]
    /\ MemoryStill => \A k \in 1..block : InMeant(stack[k], printed[k].text)

InEndsRight ==
    terminated => \E i \in Words :
         LET p == stack[i]
         IN  /\ p # Zero
             /\ \/ Place[p].kind = "string" /\ ~Mapped(p)
                \/ Place[p].kind = "plugin object" /\ ~Loaded(p)
                \/ /\ InImage(p)
                   /\ ~Loaded(p) \/ "symbols" \in Place[p].bad \/ Place[p].kind = "code at the end"

InIInv ==
    /\ InTypeOK
    /\ \A i \in Words : InWordIs(i)
    /\ InPrintedRight
    /\ InEndsRight

LEMMA InBlocks ==
  ASSUME stack \in Stacks, NEW n \in 0..Len(stack)
  PROVE  /\ Len(stack) \in Nat /\ stack \in Seq(DOMAIN Place \cup {Zero})
         /\ \A i \in 1..Len(stack) : stack[i] \in DOMAIN Place \cup {Zero}
         /\ BlockAfter(n) \subseteq 1..Len(stack)
         /\ Cardinality(BlockAfter(n)) \in Nat /\ n + Cardinality(BlockAfter(n)) \in 0..Len(stack)
         /\ BlockAfter(n) = n + 1..n + Cardinality(BlockAfter(n))
<1>1. stack \in Seq(DOMAIN Place \cup {Zero}) /\ BlockSize \in Nat \ {0}
  BY IntrospectionAssumption
<1>2. Len(stack) \in Nat /\ \A i \in 1..Len(stack) : stack[i] \in DOMAIN Place \cup {Zero}
  BY <1>1
<1> DEFINE e == IF n + BlockSize < Len(stack) THEN n + BlockSize ELSE Len(stack)
<1>3. e \in Nat /\ n \in Nat /\ n <= e /\ e <= Len(stack)
  BY <1>1, <1>2
<1>4. BlockAfter(n) = n + 1..e
  BY DEF BlockAfter
<1> HIDE DEF e
<1>5. Cardinality(n + 1..e) = e - n
  <2>1. n + 1 \in Int /\ e \in Int
    BY <1>3
  <2>2. Cardinality(n + 1..e) = IF n + 1 > e THEN 0 ELSE e - (n + 1) + 1
    BY <2>1, FS_Interval
  <2>3. QED
    BY <1>3, <2>2
<1>6. QED
  BY <1>1, <1>2, <1>3, <1>4, <1>5

\* What a word is shown to hold depends only on what is freed and unloaded.
LEMMA InShownKept ==
  ASSUME freed' = freed, unloaded' = unloaded, NEW w
  PROVE  Shown(w)' = Shown(w)
<1>1. Reached' = Reached
  BY DEF Reached, Leads, Readable, Mapped, Loaded, Target
<1>2. QED
  BY <1>1 DEF Shown, Values, Readable, Mapped, Loaded, Target

LEMMA InMeantKept ==
  ASSUME freed' = freed, unloaded' = unloaded, NEW w, NEW text
  PROVE  InMeant(w, text)' = InMeant(w, text)
  BY InShownKept DEF InMeant, Meaning, ValueLines

LEMMA InInitRight ==
  InInit => InIInv
<1> SUFFICES ASSUME InInit PROVE InIInv
  OBVIOUS
<1>1. stack \in Stacks /\ freed = {} /\ unloaded = {} /\ block = 0 /\ printed = <<>> /\ terminated = FALSE
      /\ worker = [i \in Words |-> [pc |-> "probe", as |-> "?"]]
      /\ results = [i \in Words |-> [as |-> "?", lines |-> <<>>]]
  BY DEF InInit, Fresh, NoResults
<1>2. Len(stack) \in Nat
  BY <1>1, IntrospectionAssumption
<1>3. <<>> \in Seq(LineOf)
  OBVIOUS
<1>4. InTypeOK
  <2>1. printed \in Seq([word : DOMAIN Place \cup {Zero}, text : [as : Kinds, lines : Seq(LineOf)]])
    BY <1>1
  <2>2. worker \in [Words -> [pc : {"probe", "polymorphic", "string", "name", "done"}, as : Kinds \cup {"?"}]]
    BY <1>1
  <2>3. results \in [Words -> [as : Kinds \cup {"?"}, lines : Seq(LineOf)]]
    BY <1>1, <1>3
  <2>4. QED
    <3>1. /\ block \in 0..Len(stack) /\ freed \subseteq {p \in DOMAIN Place : OnHeap(p)}
          /\ unloaded \subseteq {Place[p].image : p \in DOMAIN Place} \ {"none"}
      BY <1>1, <1>2
    <3>2. QED
      BY <1>1, <2>1, <2>2, <2>3, <3>1 DEF InTypeOK
<1>5. \A i \in Words : InWordIs(i)
  BY <1>1 DEF InWordIs, MemoryStill
<1>6. InPrintedRight /\ InEndsRight
  <2>1. Len(printed) = 0 /\ \A k : k \notin 1..0
    BY <1>1
  <2>2. QED
    BY <1>1, <2>1 DEF InPrintedRight, MemoryStill, InEndsRight
<1>7. QED
  BY <1>4, <1>5, <1>6 DEF InIInv

\* One worker goes on, and nothing else does.
LEMMA InWorkerSteps ==
  ASSUME InIInv, ~terminated, NEW i \in Words,
         NEW pc \in {"probe", "polymorphic", "string", "name", "done"}, NEW as \in Kinds \cup {"?"},
         WorkerTo(i, pc, as), UNCHANGED <<stack, freed, unloaded, block, results, printed, terminated>>,
         InWordIs(i)'
  PROVE  InIInv'
<1>1. Words' = Words
  BY DEF Words, BlockAfter
<1>2. InTypeOK'
  BY <1>1 DEF InIInv, InTypeOK, WorkerTo, OnHeap, Kinds
<1>3. ASSUME NEW j \in Words, j # i PROVE InWordIs(j)'
  <2>1. worker'[j] = worker[j]
    BY <1>3 DEF InIInv, InTypeOK, WorkerTo
  <2>2. InWordIs(j)
    BY <1>3 DEF InIInv
  <2>3. InMeant(stack[j], results[j])' = InMeant(stack[j], results[j])
    BY InMeantKept
  <2>4. QED
    BY <2>1, <2>2, <2>3 DEF InWordIs, MemoryStill, Meaning
<1>4. InPrintedRight'
  <2>1. \A k \in 1..block : InMeant(stack[k], printed[k].text)' = InMeant(stack[k], printed[k].text)
    BY InMeantKept
  <2>2. QED
    BY <2>1 DEF InIInv, InPrintedRight, MemoryStill
<1>5. InEndsRight'
  BY DEF InIInv, InEndsRight
<1>6. QED
  BY <1>1, <1>2, <1>3, <1>4, <1>5 DEF InIInv

LEMMA InAnalyzes ==
  ASSUME InIInv, NEW i \in Words, AnalyzeInteger(i) \/ AnalyzePolymorphic(i) \/ AnalyzeString(i)
  PROVE  InIInv'
<1> DEFINE w == stack[i]
<1>1. /\ ~terminated /\ InWordIs(i) /\ w \in DOMAIN Place \cup {Zero} /\ freed \subseteq DOMAIN Place
      /\ worker \in [Words -> [pc : {"probe", "polymorphic", "string", "name", "done"}, as : Kinds \cup {"?"}]]
  BY InBlocks DEF InIInv, InTypeOK, AnalyzeInteger, AnalyzePolymorphic, AnalyzeString, At, Words
<1>2. CASE AnalyzeInteger(i)
  <2>1. CASE w = Zero \/ ~Mapped(w)
    <3>1. WorkerTo(i, "name", "integer") /\ UNCHANGED <<stack, freed, unloaded, block, results, printed, terminated>>
      BY <1>2, <2>1 DEF AnalyzeInteger
    <3>2. worker'[i].pc = "name" /\ worker'[i].as = "integer" /\ stack'[i] = w /\ freed' = freed /\ unloaded' = unloaded
      BY <1>1, <3>1 DEF WorkerTo
    <3>3. MemoryStill => Meaning(w) = "integer"
      BY <2>1 DEF Mapped, Loaded, Meaning, MemoryStill
    <3>4. InWordIs(i)'
      BY <3>1, <3>2, <3>3 DEF InWordIs, MemoryStill, Kinds
    <3>5. QED
      BY <1>1, <3>1, <3>4, InWorkerSteps DEF Kinds
  <2>2. CASE ~(w = Zero \/ ~Mapped(w))
    <3>1. WorkerTo(i, "polymorphic", "?") /\ UNCHANGED <<stack, freed, unloaded, block, results, printed, terminated>>
      BY <1>2, <2>2 DEF AnalyzeInteger
    <3>2. worker'[i].pc = "polymorphic" /\ worker'[i].as = "?" /\ stack'[i] = w /\ freed' = freed /\ unloaded' = unloaded
      BY <1>1, <3>1 DEF WorkerTo
    <3>3. w # Zero /\ Meaning(w) # "integer"
      BY <2>2 DEF Mapped, Meaning
    <3>4. InWordIs(i)'
      BY <3>1, <3>2, <3>3 DEF InWordIs, MemoryStill
    <3>5. QED
      BY <1>1, <3>1, <3>4, InWorkerSteps
  <2>3. QED
    BY <2>1, <2>2
<1>3. CASE AnalyzePolymorphic(i)
  <2>1. w # Zero /\ (MemoryStill => Meaning(w) # "integer")
    BY <1>1, <1>3 DEF AnalyzePolymorphic, At, InWordIs, MemoryStill
  <2>2. CASE Mapped(w) /\ Loaded(w) /\ Place[w].kind \in {"object", "plugin object"}
    <3>1. /\ WorkerTo(i, "name", Place[w].kind)
          /\ UNCHANGED <<stack, freed, unloaded, block, results, printed, terminated>>
      BY <1>3, <2>2 DEF AnalyzePolymorphic
    <3>2. worker'[i].pc = "name" /\ worker'[i].as = Place[w].kind /\ stack'[i] = w /\ freed' = freed /\ unloaded' = unloaded
      BY <1>1, <3>1 DEF WorkerTo
    <3>3. Meaning(w) = Place[w].kind /\ Place[w].kind \in Kinds
      BY <2>1, <2>2 DEF Meaning, Kinds
    <3>4. InWordIs(i)'
      BY <2>1, <2>2, <3>1, <3>2, <3>3 DEF InWordIs, MemoryStill
    <3>5. QED
      BY <1>1, <3>1, <3>3, <3>4, InWorkerSteps
  <2>3. CASE ~(Mapped(w) /\ Loaded(w) /\ Place[w].kind \in {"object", "plugin object"})
    <3>1. WorkerTo(i, "string", "?") /\ UNCHANGED <<stack, freed, unloaded, block, results, printed, terminated>>
      BY <1>3, <2>3 DEF AnalyzePolymorphic
    <3>2. worker'[i].pc = "string" /\ worker'[i].as = "?" /\ stack'[i] = w /\ freed' = freed /\ unloaded' = unloaded
      BY <1>1, <3>1 DEF WorkerTo
    <3>3. MemoryStill => Meaning(w) \notin {"object", "plugin object"}
      BY <2>1, <2>3 DEF Meaning, Mapped, Loaded, MemoryStill
    <3>4. InWordIs(i)'
      BY <2>1, <3>1, <3>2, <3>3 DEF InWordIs, MemoryStill
    <3>5. QED
      BY <1>1, <3>1, <3>4, InWorkerSteps
  <2>4. QED
    BY <2>2, <2>3
<1>4. CASE AnalyzeString(i)
  <2>1. /\ w # Zero
        /\ MemoryStill => Meaning(w) \notin {"integer", "object", "plugin object"}
    BY <1>1, <1>4 DEF AnalyzeString, At, InWordIs, MemoryStill
  <2> DEFINE as == IF Mapped(w) /\ Place[w].kind = "string" THEN "string" ELSE "pointer"
  <2>2. WorkerTo(i, "name", as) /\ UNCHANGED <<stack, freed, unloaded, block, results, printed, terminated>>
    BY <1>4 DEF AnalyzeString
  <2>3. /\ as \in Kinds \ {"object", "plugin object", "integer"} /\ (as = "string" => Place[w].kind = "string")
        /\ MemoryStill => as = Meaning(w)
    BY <2>1 DEF Kinds, Meaning, Mapped, Loaded, MemoryStill
  <2> HIDE DEF as
  <2>4. worker'[i].pc = "name" /\ worker'[i].as = as /\ stack'[i] = w /\ freed' = freed /\ unloaded' = unloaded
    BY <1>1, <2>2 DEF WorkerTo
  <2>5. InWordIs(i)'
    BY <2>1, <2>2, <2>3, <2>4 DEF InWordIs, MemoryStill
  <2>6. QED
    BY <1>1, <2>2, <2>3, <2>5, InWorkerSteps
<1>5. QED
  BY <1>2, <1>3, <1>4

LEMMA InNames ==
  ASSUME InIInv, NEW i \in Words, Name(i)
  PROVE  InIInv'
<1> DEFINE w == stack[i]
           as == worker[i].as
           lines == IF as = "object" THEN ObjectLines(w) ELSE <<>>
           Steps == {"probe", "polymorphic", "string", "name", "done"}
<1>1. /\ ~terminated /\ worker[i].pc = "name" /\ InWordIs(i) /\ w \in DOMAIN Place \cup {Zero}
      /\ worker \in [Words -> [pc : Steps, as : Kinds \cup {"?"}]]
      /\ results \in [Words -> [as : Kinds \cup {"?"}, lines : Seq(LineOf)]]
      /\ freed \subseteq DOMAIN Place
  BY InBlocks DEF InIInv, InTypeOK, Name, At, Words
<1>2. /\ WorkerTo(i, "done", as) /\ terminated' = NameFaults(i)
      /\ results' = [results EXCEPT ![i] = [as |-> as, lines |-> lines]]
      /\ UNCHANGED <<stack, freed, unloaded, block, printed>>
  BY DEF Name
<1>3. /\ as \in Kinds /\ (as # "integer" => w # Zero)
      /\ as \in {"string", "object", "plugin object"} => Place[w].kind = as
      /\ MemoryStill => as = Meaning(w)
  BY <1>1 DEF InWordIs, MemoryStill
<1>4. lines \in Seq(LineOf) /\ (as = "object" => ValueLines(lines) = Shown(w))
  <2>1. CASE as = "object"
    <3>1. w \in DOMAIN Place
      BY <1>1, <1>3, <2>1
    <3>2. QED
      BY <2>1, <3>1, InObjectLines
  <2>2. CASE as # "object"
    BY <2>2
  <2>3. QED
    BY <2>1, <2>2
<1> HIDE DEF lines
<1>5. Words' = Words
  BY <1>2 DEF Words, BlockAfter
<1>6. InTypeOK'
  <2>1. terminated' \in BOOLEAN
    BY <1>2 DEF NameFaults
  <2>2. worker' \in [Words -> [pc : Steps, as : Kinds \cup {"?"}]]
    BY <1>1, <1>2, <1>3 DEF WorkerTo
  <2>3. results' \in [Words -> [as : Kinds \cup {"?"}, lines : Seq(LineOf)]]
    BY <1>1, <1>2, <1>3, <1>4
  <2>4. QED
    BY <1>2, <1>5, <2>1, <2>2, <2>3 DEF InIInv, InTypeOK, OnHeap
<1>7. InWordIs(i)'
  <2>1. /\ worker'[i].pc = "done" /\ worker'[i].as = as
        /\ results'[i].as = as /\ results'[i].lines = lines /\ stack'[i] = w /\ freed' = freed /\ unloaded' = unloaded
    BY <1>1, <1>2 DEF WorkerTo
  <2>2. MemoryStill => InMeant(w, results'[i])
    BY <1>3, <1>4, <2>1 DEF InMeant
  <2>3. InMeant(w, results[i])' = InMeant(w, results'[i])
    BY <2>1, InShownKept DEF InMeant
  <2>4. QED
    BY <1>3, <2>1, <2>2, <2>3 DEF InWordIs, MemoryStill
<1>8. ASSUME NEW j \in Words, j # i PROVE InWordIs(j)'
  <2>1. worker'[j] = worker[j] /\ results'[j] = results[j] /\ stack'[j] = stack[j] /\ freed' = freed /\ unloaded' = unloaded
    BY <1>1, <1>2, <1>8 DEF WorkerTo
  <2>2. InWordIs(j)
    BY <1>8 DEF InIInv
  <2>3. InMeant(stack[j], results[j])' = InMeant(stack[j], results[j])
    BY <2>1, InMeantKept, InShownKept DEF InMeant
  <2>4. QED
    BY <2>1, <2>2, <2>3 DEF InWordIs, MemoryStill
<1>9. InPrintedRight'
  <2>1. \A k \in 1..block : InMeant(stack[k], printed[k].text)' = InMeant(stack[k], printed[k].text)
    BY <1>2, InMeantKept, InShownKept DEF InMeant
  <2>2. QED
    BY <1>2, <2>1 DEF InIInv, InPrintedRight, MemoryStill
<1>10. InEndsRight'
  <2>1. SUFFICES ASSUME terminated'
                 PROVE  /\ w # Zero
                        /\ \/ Place[w].kind = "string" /\ ~Mapped(w)'
                           \/ Place[w].kind = "plugin object" /\ ~Loaded(w)'
                           \/ /\ InImage(w)
                              /\ \/ ~Loaded(w)' \/ "symbols" \in Place[w].bad
                                 \/ Place[w].kind = "code at the end"
    BY <1>2, <1>5 DEF InEndsRight, InImage
  <2>2. NameFaults(i)
    BY <1>2, <2>1
  <2>3. Mapped(w)' = Mapped(w) /\ Loaded(w)' = Loaded(w)
    BY <1>2 DEF Mapped, Loaded
  <2>4. QED
    BY <1>3, <2>2, <2>3 DEF NameFaults
<1>11. QED
  BY <1>5, <1>6, <1>7, <1>8, <1>9, <1>10 DEF InIInv

LEMMA InPrints ==
  ASSUME InIInv, PrintBlock
  PROVE  InIInv'
<1> DEFINE n == Cardinality(Words)
           Text0 == [as : Kinds, lines : Seq(LineOf)]
           Printed0 == [word : DOMAIN Place \cup {Zero}, text : Text0]
           P == [k \in 1..n |-> [word |-> stack[block + k], text |-> results[block + k]]]
<1>1. /\ ~terminated /\ stack \in Stacks /\ block \in 0..Len(stack) /\ Len(printed) = block
      /\ printed \in Seq(Printed0) /\ InPrintedRight
      /\ results \in [Words -> [as : Kinds \cup {"?"}, lines : Seq(LineOf)]]
      /\ \A j \in Words : InWordIs(j) /\ worker[j].pc = "done"
  BY DEF InIInv, InTypeOK, InPrintedRight, MemoryStill, PrintBlock
<1>2. /\ printed' = printed \o P /\ block' = block + n
      /\ worker' = Fresh(BlockAfter(block')) /\ results' = NoResults(BlockAfter(block'))
      /\ UNCHANGED <<stack, freed, unloaded, terminated>>
  BY <1>1 DEF PrintBlock
<1>3. /\ Len(stack) \in Nat /\ n \in Nat /\ block + n \in 0..Len(stack)
      /\ \A j \in 1..Len(stack) : stack[j] \in DOMAIN Place \cup {Zero}
      /\ \A k \in 1..n : block + k \in Words /\ block + k \in 1..Len(stack)
  <2>1. /\ Len(stack) \in Nat /\ n \in Nat /\ block + n \in 0..Len(stack)
        /\ \A j \in 1..Len(stack) : stack[j] \in DOMAIN Place \cup {Zero}
        /\ Words = block + 1..block + n
    BY <1>1, InBlocks DEF Words
  <2> HIDE DEF n
  <2>2. QED
    BY <1>1, <2>1
<1>4. \A k \in 1..n : /\ results[block + k] \in Text0
                      /\ MemoryStill => InMeant(stack[block + k], results[block + k])
  BY <1>1, <1>3 DEF InWordIs, MemoryStill
<1> HIDE DEF n
<1>5. P \in Seq(Printed0) /\ Len(P) = n
  <2>1. ASSUME NEW k \in 1..n PROVE [word |-> stack[block + k], text |-> results[block + k]] \in Printed0
    <3>1. stack[block + k] \in DOMAIN Place \cup {Zero} /\ results[block + k] \in Text0
      BY <1>3, <1>4
    <3> HIDE DEF Text0
    <3>2. QED
      BY <3>1
  <2> HIDE DEF Printed0
  <2>2. P \in [1..n -> Printed0]
    BY <2>1
  <2> HIDE DEF P
  <2>3. QED
    BY <1>3, <2>2
<1>6. /\ printed' \in Seq(Printed0) /\ Len(printed') = block + n
      /\ \A k \in 1..block : printed'[k] = printed[k]
      /\ \A k \in block + 1..block + n : printed'[k] = [word |-> stack[k], text |-> results[k]]
  <2>1. \A k \in 1..n : P[k] = [word |-> stack[block + k], text |-> results[block + k]]
    OBVIOUS
  <2> HIDE DEF P, Printed0, Text0
  <2>2. printed' \in Seq(Printed0)
    BY <1>1, <1>2, <1>5
  <2>3. Len(printed) = block /\ Len(P) = n
    BY <1>1, <1>5
  <2>4. /\ Len(printed \o P) = Len(printed) + Len(P)
        /\ \A k \in 1..Len(printed) + Len(P) :
             (printed \o P)[k] = IF k <= Len(printed) THEN printed[k] ELSE P[k - Len(printed)]
    <3>1. printed \in Seq(Printed0) /\ P \in Seq(Printed0)
      BY <1>1, <1>5
    <3>2. QED
      BY <3>1, ConcatProperties
  <2>5. /\ Len(printed') = block + n
        /\ \A k \in 1..block + n : printed'[k] = IF k <= block THEN printed[k] ELSE P[k - block]
    BY <1>2, <2>3, <2>4
  <2>6. /\ \A k \in 1..block : printed'[k] = printed[k]
        /\ \A k \in block + 1..block + n : printed'[k] = P[k - block]
    BY <1>1, <1>3, <2>5
  <2>7. ASSUME NEW k \in block + 1..block + n PROVE P[k - block] = [word |-> stack[k], text |-> results[k]]
    <3>1. k - block \in 1..n /\ block + (k - block) = k
      BY <1>1, <1>3
    <3>2. QED
      BY <2>1, <3>1
  <2>8. QED
    BY <2>2, <2>5, <2>6, <2>7
<1> HIDE DEF P
<1>7. Words' = BlockAfter(block') /\ freed' = freed /\ unloaded' = unloaded
  BY <1>2 DEF Words, BlockAfter
<1>8. InTypeOK'
  <2>1. <<>> \in Seq(LineOf)
    OBVIOUS
  <2>2. worker' \in [Words' -> [pc : {"probe", "polymorphic", "string", "name", "done"}, as : Kinds \cup {"?"}]]
    BY <1>2, <1>7 DEF Fresh
  <2>3. results' \in [Words' -> [as : Kinds \cup {"?"}, lines : Seq(LineOf)]]
    BY <1>2, <1>7, <2>1 DEF NoResults
  <2>4. /\ stack' \in Stacks /\ block' \in 0..Len(stack') /\ terminated' \in BOOLEAN
        /\ freed' \subseteq {p \in DOMAIN Place : OnHeap(p)}
        /\ unloaded' \subseteq {Place[p].image : p \in DOMAIN Place} \ {"none"}
    BY <1>1, <1>2, <1>3 DEF InIInv, InTypeOK
  <2>5. QED
    BY <1>6, <2>2, <2>3, <2>4 DEF InTypeOK
<1>9. \A j \in Words' : InWordIs(j)'
  <2>1. \A j \in Words' : worker'[j].pc = "probe"
    BY <1>2, <1>7 DEF Fresh
  <2>2. QED
    BY <2>1 DEF InWordIs, MemoryStill
<1>10. InPrintedRight'
  <2>1. ASSUME NEW k \in 1..(block + n)
        PROVE  /\ printed'[k].word = stack[k]
               /\ MemoryStill => InMeant(stack[k], printed'[k].text)
    <3>1. CASE k \in 1..block
      BY <1>1, <1>6, <3>1 DEF InPrintedRight, MemoryStill
    <3>2. CASE k \in block + 1..block + n
      <4>1. printed'[k].word = stack[k] /\ printed'[k].text = results[k]
        <5>1. printed'[k] = [word |-> stack[k], text |-> results[k]]
          BY <1>6, <3>2
        <5>2. QED
          BY <5>1
      <4>2. k - block \in 1..n /\ block + (k - block) = k
        BY <1>1, <1>3, <3>2
      <4>3. QED
        BY <1>4, <4>1, <4>2
    <3>3. QED
      BY <1>1, <1>3, <3>1, <3>2
  <2>2. \A k : InMeant(stack[k], printed[k].text)' <=> InMeant(stack[k], printed'[k].text)
    BY <1>2, InShownKept DEF InMeant
  <2>3. QED
    BY <1>2, <1>6, <2>1, <2>2 DEF InPrintedRight, MemoryStill
<1>11. InEndsRight'
  BY <1>1, <1>2 DEF InEndsRight
<1>12. QED
  BY <1>8, <1>9, <1>10, <1>11 DEF InIInv

LEMMA InFrees ==
  ASSUME InIInv, NEW p \in ToSet(stack), FreePlace(p)
  PROVE  InIInv'
<1>1. /\ ~terminated /\ freed' = freed \cup {p} /\ OnHeap(p) /\ p # Zero
      /\ UNCHANGED <<stack, unloaded, block, worker, results, printed, terminated>>
  BY DEF FreePlace
<1>2. p \in DOMAIN Place
  <2>1. stack \in Seq(DOMAIN Place \cup {Zero})
    BY IntrospectionAssumption DEF InIInv, InTypeOK
  <2>2. QED
    BY <1>1, <2>1 DEF ToSet
<1>3. Words' = Words /\ freed' # {}
  BY <1>1 DEF Words, BlockAfter
<1>4. InTypeOK'
  BY <1>1, <1>2, <1>3 DEF InIInv, InTypeOK
<1>5. ASSUME NEW j \in Words PROVE InWordIs(j)'
  <2>1. InWordIs(j)
    BY DEF InIInv
  <2>2. QED
    BY <1>1, <1>3, <2>1 DEF InWordIs, MemoryStill
<1>6. InPrintedRight' /\ InEndsRight'
  BY <1>1, <1>3 DEF InIInv, InPrintedRight, MemoryStill, InEndsRight
<1>7. QED
  BY <1>3, <1>4, <1>5, <1>6 DEF InIInv

LEMMA InLoses ==
  ASSUME InIInv, NEW p \in ToSet(stack), LoseImage(p)
  PROVE  InIInv'
<1>1. /\ ~terminated /\ unloaded' = unloaded \cup {Place[p].image} /\ Place[p].image # "none" /\ p # Zero
      /\ UNCHANGED <<stack, freed, block, worker, results, printed, terminated>>
  BY DEF LoseImage
<1>2. p \in DOMAIN Place
  <2>1. stack \in Seq(DOMAIN Place \cup {Zero})
    BY IntrospectionAssumption DEF InIInv, InTypeOK
  <2>2. QED
    BY <1>1, <2>1 DEF ToSet
<1>3. Words' = Words /\ unloaded' # {}
  BY <1>1 DEF Words, BlockAfter
<1>4. InTypeOK'
  BY <1>1, <1>2, <1>3 DEF InIInv, InTypeOK
<1>5. ASSUME NEW j \in Words PROVE InWordIs(j)'
  <2>1. InWordIs(j)
    BY DEF InIInv
  <2>2. QED
    BY <1>1, <1>3, <2>1 DEF InWordIs, MemoryStill
<1>6. InPrintedRight' /\ InEndsRight'
  BY <1>1, <1>3 DEF InIInv, InPrintedRight, InEndsRight, MemoryStill
<1>7. QED
  BY <1>3, <1>4, <1>5, <1>6 DEF InIInv

LEMMA InUnchanged ==
  ASSUME InIInv, UNCHANGED inVars
  PROVE  InIInv'
<1>1. /\ stack' = stack /\ freed' = freed /\ unloaded' = unloaded /\ block' = block /\ worker' = worker /\ results' = results
      /\ printed' = printed /\ terminated' = terminated
  BY DEF inVars
<1>2. Words' = Words
  BY <1>1 DEF Words, BlockAfter
<1>3. InTypeOK'
  BY <1>1, <1>2 DEF InIInv, InTypeOK
<1>4. ASSUME NEW w, NEW text PROVE InMeant(w, text)' = InMeant(w, text)
  BY <1>1, InMeantKept
<1>5. ASSUME NEW j \in Words PROVE InWordIs(j)'
  <2>1. InMeant(stack[j], results[j])' = InMeant(stack[j], results[j])
    BY <1>1, InShownKept DEF InMeant
  <2>2. QED
    BY <1>1, <2>1 DEF InIInv, InWordIs, MemoryStill
<1>6. InPrintedRight'
  <2>1. \A k : InMeant(stack[k], printed[k].text)' = InMeant(stack[k], printed[k].text)
    BY <1>1, InShownKept DEF InMeant
  <2>2. QED
    BY <1>1, <2>1 DEF InIInv, InPrintedRight, MemoryStill
<1>7. InEndsRight'
  BY <1>1, <1>2 DEF InIInv, InEndsRight, Mapped, Loaded
<1>8. QED
  BY <1>2, <1>3, <1>5, <1>6, <1>7 DEF InIInv

LEMMA InInductive ==
  InSpec => []InIInv
<1>1. InIInv /\ [InNext]_inVars => InIInv'
  BY InAnalyzes, InNames, InPrints, InFrees, InLoses, InUnchanged DEF InNext
<1>2. QED
  BY <1>1, InInitRight, PTL DEF InSpec

\* What the words are told to be, and how far, keeps its type.
THEOREM InTypeCorrect ==
  InSpec => []InTypeOK
<1>1. InIInv => InTypeOK
  BY DEF InIInv
<1>2. QED
  BY <1>1, InInductive, PTL

\* For every sequence of words and every block size, whatever is freed and
\* unloaded meanwhile: the words are printed in order, each as its own; while
\* memory stays as it was, an object with the members that can be read, here and
\* behind links; and the process ends early at a string, an object or an address
\* whose memory or image went away under name(), or at an address at the end of
\* its image or without symbols.
THEOREM AnalysisAgreesHolds ==
  InSpec => []AnalysisAgrees
<1>1. ASSUME InIInv PROVE AnalysisAgrees
  <2>1. DOMAIN printed = 1..block /\ InPrintedRight /\ InEndsRight
    BY <1>1 DEF InIInv, InTypeOK, InPrintedRight, MemoryStill
  <2>2. QED
    BY <2>1 DEF AnalysisAgrees, InPrintedRight, MemoryStill, InEndsRight, InMeant
<1>2. QED
  BY <1>1, InInductive, PTL
=============================================================================
