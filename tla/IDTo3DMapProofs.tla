--------------------------- MODULE IDTo3DMapProofs ---------------------------
(***************************************************************************)
(* Proofs about IDTo3DMap, for any split of an id, any special indices,    *)
(* ids and objects: the buckets stay well formed, both patches' insertions *)
(* leave the same bucket and their lookups find the same object, and the   *)
(* two containers are the map of IDMap.                                    *)
(*                                                                         *)
(* Type correctness and BucketsWellFormed are inductive together.  The     *)
(* rest is sequences: what lower_bound points at in a sorted bucket, what  *)
(* an insertion and a removal there do to a lookup, and that entries with  *)
(* different ids have one sorted arrangement.                              *)
(***************************************************************************)
EXTENDS IDTo3DMap, SequenceTheorems, FiniteSetTheorems, FunctionTheorems, WellFoundedInduction, TLAPS

-----------------------------------------------------------------------------
(* The smallest of a set of numbers *)

LEMMA MinIsLeast ==
  ASSUME NEW S, S \subseteq Nat, S # {}
  PROVE  Min(S) \in S /\ \A y \in S : Min(S) <= y
<1>1. PICK x \in S : \A y \in S : ~ (<<y, x>> \in OpToRel(<, Nat))
  BY NatLessThanWellFounded, WFMin
<1>2. ASSUME NEW y \in S PROVE x <= y
  <2>1. x \in Nat /\ y \in Nat
    OBVIOUS
  <2>2. y < x => <<y, x>> \in OpToRel(<, Nat)
    BY <2>1 DEF OpToRel
  <2>3. ~ (y < x)
    BY <1>1, <2>2
  <2>4. QED
    BY <2>1, <2>3
<1>3. QED
  BY <1>2 DEF Min

-----------------------------------------------------------------------------
(* Buckets *)

\* A bucket of base, except that it may be empty.
BucketOf(objs, base) ==
    /\ objs \in Seq(Entry)
    /\ \A i, j \in 1..Len(objs) : i < j => objs[i].id < objs[j].id
    /\ \A i \in 1..Len(objs) : BaseOf(objs[i].id) = base /\ ~IsSpecial(objs[i].id)

\* What find_one reads in a bucket.
Look(objs, id) ==
    IF HasAt(objs, LowerBound(objs, id), id) THEN objs[LowerBound(objs, id)].obj ELSE Null

LEMMA IdsAreNat == Ids \subseteq Nat
  BY IDTo3DMapAssumption

LEMMA EntryFields ==
  ASSUME NEW objs \in Seq(Entry), NEW i \in 1..Len(objs)
  PROVE  /\ objs[i] \in Entry /\ objs[i].id \in Ids /\ objs[i].id \in Nat /\ objs[i].obj \in Objects
         /\ objs[i] = [id |-> objs[i].id, obj |-> objs[i].obj]
<1>1. objs[i] \in Entry
  BY ElementOfSeq
<1>2. QED
  BY <1>1, IdsAreNat DEF Entry

\* lower_bound: all entries before it are below the id, the one at it is not.
LEMMA LowerBoundIs ==
  ASSUME NEW objs \in Seq(Entry), NEW id \in Ids
  PROVE  /\ LowerBound(objs, id) \in 1..(Len(objs) + 1)
         /\ \A j \in 1..Len(objs) : j < LowerBound(objs, id) => objs[j].id < id
         /\ LowerBound(objs, id) <= Len(objs) => objs[LowerBound(objs, id)].id >= id
<1> DEFINE S == {i \in DOMAIN objs : objs[i].id >= id} \cup {Len(objs) + 1}
<1>1. Len(objs) \in Nat /\ DOMAIN objs = 1..Len(objs)
  BY LenProperties
<1>2. S \subseteq 1..(Len(objs) + 1) /\ S # {} /\ S \subseteq Nat
  BY <1>1
<1>3. Min(S) \in S /\ \A y \in S : Min(S) <= y
  BY <1>2, MinIsLeast
<1>4. LowerBound(objs, id) = Min(S)
  BY DEF LowerBound
<1>5. \A j \in 1..Len(objs) : objs[j].id \in Nat
  BY EntryFields
<1>6. ASSUME NEW j \in 1..Len(objs), j < Min(S) PROVE objs[j].id < id
  <2>1. j \notin S
    <3>1. j \in S => Min(S) <= j
      BY <1>3
    <3>2. Min(S) \in Nat /\ j \in Nat
      BY <1>1, <1>2, <1>3
    <3>3. QED
      BY <1>6, <3>1, <3>2
  <2>2. QED
    BY <1>1, <1>5, <2>1, IdsAreNat
<1>7. Min(S) <= Len(objs) => objs[Min(S)].id >= id
  BY <1>1, <1>3
<1>8. QED
  BY <1>2, <1>3, <1>4, <1>6, <1>7

\* A lookup finds an entry of a sorted bucket, wherever it is.
LEMMA LookFinds ==
  ASSUME NEW base, NEW objs, BucketOf(objs, base), NEW i \in 1..Len(objs)
  PROVE  LowerBound(objs, objs[i].id) = i /\ Look(objs, objs[i].id) = objs[i].obj
<1> DEFINE k == LowerBound(objs, objs[i].id)
<1>1. objs \in Seq(Entry) /\ Len(objs) \in Nat
  BY LenProperties DEF BucketOf
<1>2. /\ k \in 1..(Len(objs) + 1)
      /\ \A j \in 1..Len(objs) : j < k => objs[j].id < objs[i].id
      /\ k <= Len(objs) => objs[k].id >= objs[i].id
  BY <1>1, EntryFields, LowerBoundIs
<1> HIDE DEF k
<1>3. k <= i
  <2>1. i < k => objs[i].id < objs[i].id
    BY <1>2
  <2>2. objs[i].id \in Nat
    BY <1>1, EntryFields
  <2>3. QED
    BY <1>1, <1>2, <2>1, <2>2
<1>4. ~ (k < i)
  <2>1. SUFFICES ASSUME k < i PROVE FALSE
    OBVIOUS
  <2>2. k \in 1..Len(objs) /\ objs[k].id < objs[i].id
    BY <1>1, <1>2, <2>1 DEF BucketOf
  <2>3. objs[k].id \in Nat /\ objs[i].id \in Nat
    BY <1>1, <2>2, EntryFields
  <2>4. QED
    BY <1>1, <1>2, <2>2, <2>3
<1>5. k = i
  BY <1>1, <1>2, <1>3, <1>4
<1>6. QED
  BY <1>1, <1>5 DEF Look, HasAt, k

\* A lookup of an id that no entry has finds nothing.
LEMMA LookMisses ==
  ASSUME NEW objs \in Seq(Entry), NEW id \in Ids, \A i \in 1..Len(objs) : objs[i].id # id
  PROVE  ~HasAt(objs, LowerBound(objs, id), id) /\ Look(objs, id) = Null
<1>1. Len(objs) \in Nat /\ LowerBound(objs, id) \in 1..(Len(objs) + 1)
  BY LenProperties, LowerBoundIs
<1>2. QED
  BY <1>1 DEF Look, HasAt

\* What InsertAt and RemoveAt put where.
LEMMA InsertAtIs ==
  ASSUME NEW s \in Seq(Entry), NEW k \in 1..(Len(s) + 1), NEW e \in Entry
  PROVE  /\ InsertAt(s, k, e) \in Seq(Entry)
         /\ Len(InsertAt(s, k, e)) = Len(s) + 1
         /\ \A j \in 1..(Len(s) + 1) :
              InsertAt(s, k, e)[j] = IF j < k THEN s[j] ELSE IF j = k THEN e ELSE s[j - 1]
<1> DEFINE a == SubSeq(s, 1, k - 1)
           b == SubSeq(s, k, Len(s))
<1>1. Len(s) \in Nat
  BY LenProperties
<1>2. a \in Seq(Entry) /\ Len(a) = k - 1 /\ \A j \in 1..(k - 1) : a[j] = s[j]
  <2>1. \A j \in 1..(k - 1) : s[j] \in Entry
    BY <1>1, ElementOfSeq
  <2>2. /\ a \in Seq(Entry) /\ Len(a) = IF 1 <= k - 1 THEN (k - 1) - 1 + 1 ELSE 0
        /\ \A j \in 1..((k - 1) - 1 + 1) : a[j] = s[1 + j - 1]
    BY <1>1, <2>1, SubSeqProperties
  <2>3. QED
    BY <1>1, <2>2
<1>3. b \in Seq(Entry) /\ Len(b) = Len(s) - k + 1 /\ \A j \in 1..(Len(s) - k + 1) : b[j] = s[k + j - 1]
  <2>1. \A j \in k..Len(s) : s[j] \in Entry
    BY <1>1, ElementOfSeq
  <2>2. /\ b \in Seq(Entry) /\ Len(b) = IF k <= Len(s) THEN Len(s) - k + 1 ELSE 0
        /\ \A j \in 1..(Len(s) - k + 1) : b[j] = s[k + j - 1]
    BY <1>1, <2>1, SubSeqProperties
  <2>3. QED
    BY <1>1, <2>2
<1> HIDE DEF a, b
<1> DEFINE c == a \o <<e>>
<1>4. c \in Seq(Entry) /\ Len(c) = k /\ \A j \in 1..k : c[j] = IF j <= k - 1 THEN a[j] ELSE e
  <2>1. <<e>> \in Seq(Entry) /\ Len(<<e>>) = 1 /\ <<e>>[1] = e
    OBVIOUS
  <2>2. /\ c \in Seq(Entry) /\ Len(c) = Len(a) + Len(<<e>>)
        /\ \A j \in 1..(Len(a) + Len(<<e>>)) : c[j] = IF j <= Len(a) THEN a[j] ELSE <<e>>[j - Len(a)]
    BY <1>2, <2>1, ConcatProperties
  <2>3. \A j \in 1..k : j <= k - 1 \/ j - (k - 1) = 1
    BY <1>1
  <2>4. QED
    BY <1>1, <1>2, <2>1, <2>2, <2>3
<1> HIDE DEF c
<1>5. /\ c \o b \in Seq(Entry) /\ Len(c \o b) = Len(c) + Len(b)
      /\ \A j \in 1..(Len(c) + Len(b)) : (c \o b)[j] = IF j <= Len(c) THEN c[j] ELSE b[j - Len(c)]
  BY <1>3, <1>4, ConcatProperties
<1>6. InsertAt(s, k, e) = c \o b
  BY DEF InsertAt, a, b, c
<1>7. Len(c \o b) = Len(s) + 1
  BY <1>1, <1>3, <1>4, <1>5
<1>8. ASSUME NEW j \in 1..(Len(s) + 1)
      PROVE  (c \o b)[j] = IF j < k THEN s[j] ELSE IF j = k THEN e ELSE s[j - 1]
  <2>1. CASE j <= k
    <3>1. j \in 1..k /\ j \in 1..(Len(c) + Len(b)) /\ j <= Len(c) /\ (j < k => j \in 1..(k - 1))
      BY <1>1, <1>3, <1>4, <2>1
    <3>2. (c \o b)[j] = c[j]
      BY <1>5, <3>1
    <3>3. c[j] = IF j <= k - 1 THEN a[j] ELSE e
      BY <1>4, <3>1
    <3>4. j < k => a[j] = s[j]
      BY <1>2, <3>1
    <3>5. QED
      BY <1>1, <2>1, <3>1, <3>2, <3>3, <3>4
  <2>2. CASE j > k
    <3>1. (c \o b)[j] = b[j - k]
      BY <1>1, <1>3, <1>4, <1>5, <2>2
    <3>2. j - k \in 1..(Len(s) - k + 1) /\ k + (j - k) - 1 = j - 1
      BY <1>1, <2>2
    <3>3. b[j - k] = s[k + (j - k) - 1]
      BY <1>3, <3>2
    <3>4. QED
      BY <2>2, <3>1, <3>2, <3>3
  <2>3. j <= k \/ j > k
    BY <1>1
  <2>4. QED
    BY <2>1, <2>2, <2>3
<1>9. QED
  BY <1>5, <1>6, <1>7, <1>8

LEMMA RemoveAtIs ==
  ASSUME NEW s \in Seq(Entry), NEW k \in 1..Len(s)
  PROVE  /\ RemoveAt(s, k) \in Seq(Entry)
         /\ Len(RemoveAt(s, k)) = Len(s) - 1
         /\ \A j \in 1..(Len(s) - 1) : RemoveAt(s, k)[j] = IF j < k THEN s[j] ELSE s[j + 1]
<1> DEFINE a == SubSeq(s, 1, k - 1)
           b == SubSeq(s, k + 1, Len(s))
<1>1. Len(s) \in Nat
  BY LenProperties
<1>2. a \in Seq(Entry) /\ Len(a) = k - 1 /\ \A j \in 1..(k - 1) : a[j] = s[j]
  <2>1. \A j \in 1..(k - 1) : s[j] \in Entry
    BY <1>1, ElementOfSeq
  <2>2. /\ a \in Seq(Entry) /\ Len(a) = IF 1 <= k - 1 THEN (k - 1) - 1 + 1 ELSE 0
        /\ \A j \in 1..((k - 1) - 1 + 1) : a[j] = s[1 + j - 1]
    BY <1>1, <2>1, SubSeqProperties
  <2>3. QED
    BY <1>1, <2>2
<1>3. b \in Seq(Entry) /\ Len(b) = Len(s) - k /\ \A j \in 1..(Len(s) - k) : b[j] = s[k + j]
  <2>1. \A j \in (k + 1)..Len(s) : s[j] \in Entry
    BY <1>1, ElementOfSeq
  <2>2. /\ b \in Seq(Entry) /\ Len(b) = IF k + 1 <= Len(s) THEN Len(s) - (k + 1) + 1 ELSE 0
        /\ \A j \in 1..(Len(s) - (k + 1) + 1) : b[j] = s[(k + 1) + j - 1]
    BY <1>1, <2>1, SubSeqProperties
  <2>3. QED
    BY <1>1, <2>2
<1> HIDE DEF a, b
<1>4. /\ a \o b \in Seq(Entry) /\ Len(a \o b) = Len(a) + Len(b)
      /\ \A j \in 1..(Len(a) + Len(b)) : (a \o b)[j] = IF j <= Len(a) THEN a[j] ELSE b[j - Len(a)]
  BY <1>2, <1>3, ConcatProperties
<1>5. RemoveAt(s, k) = a \o b
  BY DEF RemoveAt, a, b
<1>6. Len(a \o b) = Len(s) - 1
  BY <1>1, <1>2, <1>3, <1>4
<1>7. ASSUME NEW j \in 1..(Len(s) - 1)
      PROVE  (a \o b)[j] = IF j < k THEN s[j] ELSE s[j + 1]
  <2>1. CASE j < k
    BY <1>1, <1>2, <1>3, <1>4, <2>1
  <2>2. CASE j >= k
    <3>1. (a \o b)[j] = b[j - (k - 1)]
      BY <1>1, <1>2, <1>3, <1>4, <2>2
    <3>2. j - (k - 1) \in 1..(Len(s) - k) /\ k + (j - (k - 1)) = j + 1
      BY <1>1, <2>2
    <3>3. b[j - (k - 1)] = s[k + (j - (k - 1))]
      BY <1>3, <3>2
    <3>4. QED
      BY <2>2, <3>1, <3>2, <3>3
  <2>3. j < k \/ j >= k
    BY <1>1
  <2>4. QED
    BY <2>1, <2>2, <2>3
<1>8. QED
  BY <1>4, <1>5, <1>6, <1>7

-----------------------------------------------------------------------------
(* Updates of a bucket *)

\* What a lookup of a bucket's id depends on: whether an entry has it.
LEMMA LookIs ==
  ASSUME NEW base, NEW objs, BucketOf(objs, base), NEW id \in Ids, NEW obj,
         \E i \in 1..Len(objs) : objs[i].id = id /\ objs[i].obj = obj
  PROVE  Look(objs, id) = obj
<1>1. PICK i \in 1..Len(objs) : objs[i].id = id /\ objs[i].obj = obj
  OBVIOUS
<1>2. QED
  BY <1>1, LookFinds

\* Two buckets that agree on the entries with an id answer alike.
LEMMA LookSame ==
  ASSUME NEW base, NEW objs, BucketOf(objs, base), NEW more, BucketOf(more, base), NEW id \in Ids,
         \A i \in 1..Len(objs) : objs[i].id = id => \E j \in 1..Len(more) : more[j] = objs[i],
         \A j \in 1..Len(more) : more[j].id = id => \E i \in 1..Len(objs) : objs[i] = more[j]
  PROVE  Look(more, id) = Look(objs, id)
<1>1. CASE \E i \in 1..Len(objs) : objs[i].id = id
  <2>1. PICK i \in 1..Len(objs) : objs[i].id = id
    BY <1>1
  <2>2. PICK j \in 1..Len(more) : more[j] = objs[i]
    BY <2>1
  <2>3. Look(objs, id) = objs[i].obj
    BY <2>1, LookFinds
  <2>4. Look(more, id) = more[j].obj
    BY <2>1, <2>2, LookFinds
  <2>5. QED
    BY <2>2, <2>3, <2>4
<1>2. CASE \A i \in 1..Len(objs) : objs[i].id # id
  <2>1. \A j \in 1..Len(more) : more[j].id # id
    BY <1>2
  <2>2. Look(objs, id) = Null
    BY <1>2, LookMisses DEF BucketOf
  <2>3. Look(more, id) = Null
    BY <2>1, LookMisses DEF BucketOf
  <2>4. QED
    BY <2>2, <2>3
<1>3. QED
  BY <1>1, <1>2

\* insert_generic keeps a bucket sorted, and changes the answer for one id.
LEMMA InsertedIs ==
  ASSUME NEW objs, NEW id \in Ids, NEW obj \in Objects, ~IsSpecial(id), BucketOf(objs, BaseOf(id))
  PROVE  /\ BucketOf(Inserted(objs, id, obj), BaseOf(id))
         /\ Inserted(objs, id, obj) # <<>>
         /\ Look(Inserted(objs, id, obj), id) = obj
         /\ \A x \in Ids \ {id} : Look(Inserted(objs, id, obj), x) = Look(objs, x)
<1> DEFINE k == LowerBound(objs, id)
           more == Inserted(objs, id, obj)
           e == [id |-> id, obj |-> obj]
           base == BaseOf(id)
<1>1. /\ objs \in Seq(Entry) /\ Len(objs) \in Nat /\ id \in Nat /\ e \in Entry
      /\ \A j \in 1..Len(objs) : objs[j] \in Entry /\ objs[j].id \in Nat /\ objs[j].id \in Ids
  <2>1. objs \in Seq(Entry)
    BY DEF BucketOf
  <2>2. QED
    BY <2>1, IdsAreNat, LenProperties, EntryFields DEF Entry
<1>2. /\ k \in 1..(Len(objs) + 1)
      /\ \A j \in 1..Len(objs) : j < k => objs[j].id < id
      /\ k <= Len(objs) => objs[k].id >= id
  BY <1>1, LowerBoundIs
<1>3. \A i, j \in 1..Len(objs) : i < j => objs[i].id < objs[j].id
  BY DEF BucketOf
<1>4. \A i \in 1..Len(objs) : BaseOf(objs[i].id) = base /\ ~IsSpecial(objs[i].id)
  BY DEF BucketOf
<1>5. e.id = id /\ e.obj = obj
  OBVIOUS
<1>6. /\ more \in Seq(Entry)
      /\ \A i, j \in 1..Len(more) : i < j => more[i].id < more[j].id
      /\ k \in 1..Len(more) /\ more[k] = e
      /\ \A i \in 1..Len(objs) : objs[i].id # id => \E j \in 1..Len(more) : more[j] = objs[i]
      /\ \A j \in 1..Len(more) : j # k => \E i \in 1..Len(objs) : objs[i] = more[j]
  <2>1. CASE HasAt(objs, k, id)
    <3>1. k \in 1..Len(objs) /\ objs[k].id = id
      BY <1>1, <1>2, <2>1 DEF HasAt
    <3>2. more = [objs EXCEPT ![k] = e]
      <4>1. more = [objs EXCEPT ![k].obj = obj]
        BY <2>1 DEF Inserted
      <4>2. [objs[k] EXCEPT !.obj = obj] = e
        BY <1>1, <3>1 DEF Entry
      <4>3. QED
        BY <4>1, <4>2
    <3> HIDE DEF more, e
    <3>3. /\ more \in Seq(Entry) /\ Len(more) = Len(objs)
          /\ \A j \in 1..Len(objs) : more[j] = IF j = k THEN e ELSE objs[j]
      BY <1>1, <3>1, <3>2, ExceptSeq
    <3>4. \A j \in 1..Len(objs) : more[j].id = objs[j].id
      BY <1>5, <3>1, <3>3
    <3>5. \A i, j \in 1..Len(more) : i < j => more[i].id < more[j].id
      BY <1>3, <3>3, <3>4
    <3>6. QED
      BY <1>1, <3>1, <3>3, <3>5
  <2>2. CASE ~HasAt(objs, k, id)
    <3>1. more = InsertAt(objs, k, e)
      BY <2>2 DEF Inserted
    <3> HIDE DEF more, e, k
    <3>2. /\ more \in Seq(Entry) /\ Len(more) = Len(objs) + 1
          /\ \A j \in 1..(Len(objs) + 1) :
               more[j] = IF j < k THEN objs[j] ELSE IF j = k THEN e ELSE objs[j - 1]
      <4>1. objs \in Seq(Entry) /\ k \in 1..(Len(objs) + 1) /\ e \in Entry
        BY <1>1, <1>2
      <4>2. InsertAt(objs, k, e) \in Seq(Entry)
        BY ONLY <4>1, InsertAtIs
      <4>3. Len(InsertAt(objs, k, e)) = Len(objs) + 1
        BY ONLY <4>1, InsertAtIs
      <4>4. \A j \in 1..(Len(objs) + 1) :
              InsertAt(objs, k, e)[j] = IF j < k THEN objs[j] ELSE IF j = k THEN e ELSE objs[j - 1]
        BY ONLY <4>1, InsertAtIs
      <4>5. QED
        BY <3>1, <4>2, <4>3, <4>4
    <3>3. \A j \in 1..Len(objs) : j >= k => objs[j].id > id
      <4>1. k <= Len(objs) => objs[k].id > id
        BY <1>1, <1>2, <2>2 DEF HasAt
      <4>2. ASSUME NEW j \in 1..Len(objs), j > k PROVE objs[j].id > id
        <5>1. k \in 1..Len(objs) /\ objs[k].id < objs[j].id
          BY <1>1, <1>2, <1>3, <4>2
        <5>2. QED
          BY <1>1, <4>1, <5>1
      <4>3. QED
        BY <1>1, <1>2, <4>1, <4>2
    <3>4. ASSUME NEW i \in 1..Len(more), NEW j \in 1..Len(more), i < j
          PROVE  more[i].id < more[j].id
      <4>1. CASE j < k
        <5>1. more[i] = objs[i] /\ more[j] = objs[j] /\ i \in 1..Len(objs) /\ j \in 1..Len(objs)
          BY <1>1, <1>2, <3>2, <3>4, <4>1
        <5>2. QED
          BY <1>3, <3>4, <5>1
      <4>2. CASE j = k
        <5>1. more[i] = objs[i] /\ more[j] = e /\ i \in 1..Len(objs) /\ i < k
          BY <1>1, <1>2, <3>2, <3>4, <4>2
        <5>2. QED
          BY <1>2, <1>5, <5>1
      <4>3. CASE j > k /\ i < k
        <5>1. /\ more[i] = objs[i] /\ more[j] = objs[j - 1] /\ i \in 1..Len(objs)
              /\ j - 1 \in 1..Len(objs) /\ j - 1 >= k
          BY <1>1, <1>2, <3>2, <3>4, <4>3
        <5>2. objs[i].id < id /\ objs[j - 1].id > id
          BY <1>2, <3>3, <4>3, <5>1
        <5>3. objs[i].id \in Nat /\ objs[j - 1].id \in Nat
          BY <1>1, <5>1
        <5>4. objs[i].id < objs[j - 1].id
          BY <1>1, <5>2, <5>3
        <5>5. QED
          BY <5>1, <5>4
      <4>4. CASE j > k /\ i = k
        <5>1. /\ more[i] = e /\ more[j] = objs[j - 1]
              /\ j - 1 \in 1..Len(objs) /\ j - 1 >= k
          BY <1>1, <1>2, <3>2, <3>4, <4>4
        <5>2. objs[j - 1].id > id /\ objs[j - 1].id \in Nat
          BY <1>1, <3>3, <5>1
        <5>3. QED
          BY <1>1, <1>5, <5>1, <5>2
      <4>5. CASE j > k /\ i > k
        <5>1. /\ more[i] = objs[i - 1] /\ more[j] = objs[j - 1]
              /\ i - 1 \in 1..Len(objs) /\ j - 1 \in 1..Len(objs) /\ i - 1 < j - 1
          BY <1>1, <1>2, <3>2, <3>4, <4>5
        <5>2. QED
          BY <1>3, <5>1
      <4>6. i \in Nat /\ j \in Nat /\ k \in Nat
        BY <1>1, <1>2
      <4>7. j < k \/ j = k \/ (j > k /\ i < k) \/ (j > k /\ i = k) \/ (j > k /\ i > k)
        BY <4>6
      <4>8. QED
        BY <4>1, <4>2, <4>3, <4>4, <4>5, <4>7
    <3>5. k \in 1..Len(more) /\ more[k] = e
      BY <1>1, <1>2, <3>2
    <3>6. ASSUME NEW i \in 1..Len(objs) PROVE \E j \in 1..Len(more) : more[j] = objs[i]
      <4>1. CASE i < k
        <5>1. i \in 1..Len(more) /\ more[i] = objs[i]
          BY <1>1, <1>2, <3>2, <4>1
        <5>2. QED
          BY <5>1
      <4>2. CASE i >= k
        <5>1. i + 1 \in 1..Len(more) /\ more[i + 1] = objs[(i + 1) - 1] /\ (i + 1) - 1 = i
          BY <1>1, <1>2, <3>2, <4>2
        <5>2. QED
          BY <5>1
      <4>3. i < k \/ i >= k
        BY <1>1, <1>2
      <4>4. QED
        BY <4>1, <4>2, <4>3
    <3>7. ASSUME NEW j \in 1..Len(more), j # k PROVE \E i \in 1..Len(objs) : objs[i] = more[j]
      <4>1. CASE j < k
        <5>1. j \in 1..Len(objs) /\ more[j] = objs[j]
          BY <1>1, <1>2, <3>2, <4>1
        <5>2. QED
          BY <5>1
      <4>2. CASE j > k
        <5>1. j - 1 \in 1..Len(objs) /\ more[j] = objs[j - 1]
          BY <1>1, <1>2, <3>2, <4>2
        <5>2. QED
          BY <5>1
      <4>3. j < k \/ j > k
        BY <1>1, <1>2, <3>2, <3>7
      <4>4. QED
        BY <4>1, <4>2, <4>3
    <3>8. QED
      BY <3>2, <3>4, <3>5, <3>6, <3>7
  <2>3. QED
    BY <2>1, <2>2
<1> HIDE DEF more, e, k
<1>7. \A j \in 1..Len(more) : BaseOf(more[j].id) = base /\ ~IsSpecial(more[j].id)
  BY <1>4, <1>5, <1>6
<1>8. BucketOf(more, base)
  BY <1>6, <1>7 DEF BucketOf
<1>9. Look(more, id) = obj
  BY <1>5, <1>6, <1>8, LookIs
<1>10. ASSUME NEW x \in Ids \ {id} PROVE Look(more, x) = Look(objs, x)
  <2>1. \A i \in 1..Len(objs) : objs[i].id = x => \E j \in 1..Len(more) : more[j] = objs[i]
    BY <1>6
  <2>2. \A j \in 1..Len(more) : more[j].id = x => \E i \in 1..Len(objs) : objs[i] = more[j]
    BY <1>5, <1>6
  <2>3. QED
    BY <1>8, <2>1, <2>2, LookSame
<1>11. more # <<>>
  BY <1>6
<1>12. QED
  BY <1>8, <1>9, <1>10, <1>11 DEF more

\* erase of an entry keeps a bucket sorted, and changes the answer for one id.
LEMMA RemovedIs ==
  ASSUME NEW objs, NEW id \in Ids, BucketOf(objs, BaseOf(id)),
         HasAt(objs, LowerBound(objs, id), id)
  PROVE  /\ BucketOf(RemoveAt(objs, LowerBound(objs, id)), BaseOf(id))
         /\ Look(RemoveAt(objs, LowerBound(objs, id)), id) = Null
         /\ \A x \in Ids \ {id} : Look(RemoveAt(objs, LowerBound(objs, id)), x) = Look(objs, x)
<1> DEFINE k == LowerBound(objs, id)
           less == RemoveAt(objs, k)
           base == BaseOf(id)
<1>1. /\ objs \in Seq(Entry) /\ Len(objs) \in Nat /\ id \in Nat
      /\ \A j \in 1..Len(objs) : objs[j] \in Entry /\ objs[j].id \in Nat /\ objs[j].id \in Ids
  <2>1. objs \in Seq(Entry)
    BY DEF BucketOf
  <2>2. QED
    BY <2>1, IdsAreNat, LenProperties, EntryFields
<1>2. k \in 1..Len(objs) /\ objs[k].id = id
  <2>1. k \in 1..(Len(objs) + 1)
    BY <1>1, LowerBoundIs
  <2>2. QED
    BY <1>1, <2>1 DEF HasAt
<1>3. /\ \A i, j \in 1..Len(objs) : i < j => objs[i].id < objs[j].id
      /\ \A i \in 1..Len(objs) : BaseOf(objs[i].id) = base /\ ~IsSpecial(objs[i].id)
  BY DEF BucketOf
<1> HIDE DEF k
<1>4. /\ less \in Seq(Entry) /\ Len(less) = Len(objs) - 1
      /\ \A j \in 1..(Len(objs) - 1) : less[j] = IF j < k THEN objs[j] ELSE objs[j + 1]
  BY <1>1, <1>2, RemoveAtIs
<1> HIDE DEF less
<1>5. ASSUME NEW j \in 1..Len(less)
      PROVE  \E i \in 1..Len(objs) : i # k /\ objs[i] = less[j] /\ (j < k => i = j) /\ (j >= k => i = j + 1)
  <2>1. CASE j < k
    <3>1. j \in 1..Len(objs) /\ less[j] = objs[j] /\ j # k /\ ~ (j >= k)
      BY <1>1, <1>2, <1>4, <2>1
    <3>2. QED
      BY <3>1
  <2>2. CASE j >= k
    <3>1. j + 1 \in 1..Len(objs) /\ less[j] = objs[j + 1] /\ j + 1 # k /\ ~ (j < k)
      BY <1>1, <1>2, <1>4, <2>2
    <3>2. QED
      BY <3>1
  <2>3. j < k \/ j >= k
    BY <1>1, <1>2, <1>4
  <2>4. QED
    BY <2>1, <2>2, <2>3
<1>6. ASSUME NEW i \in 1..Len(less), NEW j \in 1..Len(less), i < j
      PROVE  less[i].id < less[j].id
  <2>1. PICK m \in 1..Len(objs) : objs[m] = less[i] /\ (i < k => m = i) /\ (i >= k => m = i + 1)
    BY <1>5
  <2>2. PICK n \in 1..Len(objs) : objs[n] = less[j] /\ (j < k => n = j) /\ (j >= k => n = j + 1)
    BY <1>5
  <2>3. m < n
    BY <1>1, <1>2, <1>4, <1>6, <2>1, <2>2
  <2>4. QED
    BY <1>3, <2>1, <2>2, <2>3
<1>7. BucketOf(less, base)
  <2>1. ASSUME NEW j \in 1..Len(less) PROVE BaseOf(less[j].id) = base /\ ~IsSpecial(less[j].id)
    <3>1. PICK i \in 1..Len(objs) : objs[i] = less[j]
      BY <1>5
    <3>2. BaseOf(objs[i].id) = base /\ ~IsSpecial(objs[i].id)
      BY <1>3
    <3>3. QED
      BY <3>1, <3>2
  <2>2. QED
    BY <1>4, <1>6, <2>1 DEF BucketOf
<1>8. \A j \in 1..Len(less) : less[j].id # id
  <2>1. ASSUME NEW i \in 1..Len(objs), i # k PROVE objs[i].id # id
    <3>1. i < k \/ k < i
      BY <1>1, <1>2, <2>1
    <3>2. objs[i].id < objs[k].id \/ objs[k].id < objs[i].id
      BY <1>2, <1>3, <3>1
    <3>3. QED
      BY <1>1, <1>2, <3>2
  <2>2. QED
    BY <1>5, <2>1
<1>9. Look(less, id) = Null
  BY <1>4, <1>8, LookMisses
<1>10. ASSUME NEW x \in Ids \ {id} PROVE Look(less, x) = Look(objs, x)
  <2>1. ASSUME NEW i \in 1..Len(objs), objs[i].id = x PROVE \E j \in 1..Len(less) : less[j] = objs[i]
    <3>1. CASE i < k
      <4>1. i \in 1..Len(less) /\ less[i] = objs[i]
        BY <1>1, <1>2, <1>4, <3>1
      <4>2. QED
        BY <4>1
    <3>2. CASE i > k
      <4>1. i - 1 \in 1..Len(less) /\ less[i - 1] = objs[(i - 1) + 1] /\ (i - 1) + 1 = i
        BY <1>1, <1>2, <1>4, <3>2
      <4>2. QED
        BY <4>1
    <3>3. i # k
      BY <1>2, <2>1
    <3>4. i < k \/ i > k
      BY <1>1, <1>2, <3>3
    <3>5. QED
      BY <3>1, <3>2, <3>4
  <2>2. \A j \in 1..Len(less) : \E i \in 1..Len(objs) : objs[i] = less[j]
    BY <1>5
  <2>3. QED
    BY <1>7, <2>1, <2>2, LookSame
<1>11. QED
  BY <1>7, <1>9, <1>10 DEF less, k

-----------------------------------------------------------------------------
(* The invariant *)

IInv == TypeOK /\ BucketsWellFormed

LEMMA BaseInRange ==
  ASSUME NEW id \in Ids
  PROVE  BaseOf(id) \in Bases
  BY IdsAreNat, IDTo3DMapAssumption DEF BaseOf, Bases

\* Every base has a bucket to look in, the empty one if it has none in the map.
LEMMA BucketIs ==
  ASSUME IInv, NEW base
  PROVE  BucketOf(Bucket(base), base)
<1>1. CASE base \in DOMAIN generic
  <2>1. generic[base] \in Seq(Entry)
    BY <1>1 DEF IInv, TypeOK
  <2>2. DOMAIN generic[base] = 1..Len(generic[base])
    BY <2>1, LenProperties
  <2>3. QED
    BY <1>1, <2>1, <2>2 DEF IInv, BucketsWellFormed, Bucket, BucketOf
<1>2. CASE base \notin DOMAIN generic
  <2>1. <<>> \in Seq(Entry) /\ Len(<<>>) = 0 /\ 1..0 = {}
    BY EmptySeq
  <2>2. QED
    BY <1>2, <2>1 DEF Bucket, BucketOf
<1>3. QED
  BY <1>1, <1>2

LEMMA LookIsObject ==
  ASSUME NEW base, NEW objs, BucketOf(objs, base), NEW id \in Ids
  PROVE  Look(objs, id) \in Objects \cup {Null}
<1>1. objs \in Seq(Entry) /\ Len(objs) \in Nat
  BY LenProperties DEF BucketOf
<1>2. LowerBound(objs, id) \in 1..(Len(objs) + 1)
  BY <1>1, LowerBoundIs
<1>3. CASE HasAt(objs, LowerBound(objs, id), id)
  <2>1. LowerBound(objs, id) \in 1..Len(objs)
    BY <1>1, <1>2, <1>3 DEF HasAt
  <2>2. QED
    BY <1>1, <1>3, <2>1, EntryFields DEF Look
<1>4. QED
  BY <1>3 DEF Look

LEMMA FindOneIs ==
  ASSUME IInv, NEW id \in Ids
  PROVE  /\ IsSpecial(id) => FindOne(id) = IF id \in DOMAIN special THEN special[id] ELSE Null
         /\ ~IsSpecial(id) => FindOne(id) = Look(Bucket(BaseOf(id)), id)
         /\ FindOne(id) \in Objects \cup {Null}
<1>1. /\ IsSpecial(id) => FindOne(id) = IF id \in DOMAIN special THEN special[id] ELSE Null
      /\ ~IsSpecial(id) => FindOne(id) = Look(Bucket(BaseOf(id)), id)
  BY DEF FindOne, Look
<1>2. Look(Bucket(BaseOf(id)), id) \in Objects \cup {Null}
  BY BucketIs, LookIsObject
<1>3. id \in DOMAIN special => special[id] \in Objects
  BY DEF IInv, TypeOK
<1>4. QED
  BY <1>1, <1>2, <1>3

\* An update of the bucket of one base: what the state keeps if the bucket is
\* well formed and empty ones leave the map, and what every lookup then finds.
LEMMA BucketStep ==
  ASSUME IInv, NEW id \in Ids, ~IsSpecial(id), NEW objs, NEW obj,
         BucketOf(objs, BaseOf(id)),
         generic' = IF objs = <<>> THEN Without(generic, BaseOf(id)) ELSE With(generic, BaseOf(id), objs),
         UNCHANGED special, released' = FindOne(id),
         Look(objs, id) = obj,
         \A x \in Ids \ {id} : Look(objs, x) = Look(Bucket(BaseOf(id)), x)
  PROVE  IInv' /\ \A x \in Ids : FindOne(x)' = IF x = id THEN obj ELSE FindOne(x)
<1>1. BaseOf(id) \in Bases
  BY BaseInRange
<1>2. /\ DOMAIN generic' \subseteq DOMAIN generic \cup {BaseOf(id)}
      /\ BaseOf(id) \in DOMAIN generic' => generic'[BaseOf(id)] = objs /\ objs # <<>>
      /\ \A b \in DOMAIN generic' : b # BaseOf(id) => b \in DOMAIN generic /\ generic'[b] = generic[b]
  BY DEF With, Without
<1>3. \A b : b # BaseOf(id) => (b \in DOMAIN generic' <=> b \in DOMAIN generic)
  BY DEF With, Without
<1>4. BaseOf(id) \notin DOMAIN generic' => objs = <<>>
  BY DEF With, Without
<1>5. objs \in Seq(Entry) /\ DOMAIN objs = 1..Len(objs)
  BY LenProperties DEF BucketOf
<1>6. TypeOK'
  <2>1. DOMAIN generic' \subseteq Bases
    BY <1>1, <1>2 DEF IInv, TypeOK
  <2>2. \A b \in DOMAIN generic' : generic'[b] \in Seq(Entry)
    BY <1>2, <1>5 DEF IInv, TypeOK
  <2>3. released' \in Objects \cup {Null}
    BY FindOneIs
  <2>4. QED
    BY <2>1, <2>2, <2>3 DEF IInv, TypeOK
<1>7. BucketsWellFormed'
  <2>1. SUFFICES ASSUME NEW b \in DOMAIN generic'
                 PROVE  LET old == generic'[b]
                        IN  /\ old # <<>>
                            /\ \A i, j \in DOMAIN old : i < j => old[i].id < old[j].id
                            /\ \A i \in DOMAIN old : BaseOf(old[i].id) = b /\ ~IsSpecial(old[i].id)
    BY DEF BucketsWellFormed
  <2>2. CASE b = BaseOf(id)
    BY <1>2, <1>5, <2>2 DEF BucketOf
  <2>3. CASE b # BaseOf(id)
    BY <1>2, <2>3 DEF IInv, BucketsWellFormed
  <2>4. QED
    BY <2>2, <2>3
<1>8. ASSUME NEW b PROVE Bucket(b)' = IF b = BaseOf(id) THEN objs ELSE Bucket(b)
  BY <1>2, <1>3, <1>4 DEF Bucket
<1>9. ASSUME NEW x \in Ids PROVE FindOne(x)' = IF x = id THEN obj ELSE FindOne(x)
  <2>1. CASE IsSpecial(x)
    BY <2>1 DEF FindOne
  <2>2. CASE ~IsSpecial(x)
    <3>1. FindOne(x)' = Look(Bucket(BaseOf(x))', x)
      BY <2>2 DEF FindOne, Look
    <3>2. FindOne(x) = Look(Bucket(BaseOf(x)), x)
      BY <2>2, FindOneIs
    <3>3. CASE BaseOf(x) = BaseOf(id)
      <4>1. FindOne(x)' = Look(objs, x)
        BY <1>8, <3>1, <3>3
      <4>2. QED
        BY <3>2, <3>3, <4>1
    <3>4. CASE BaseOf(x) # BaseOf(id)
      <4>1. FindOne(x)' = FindOne(x)
        BY <1>8, <3>1, <3>2, <3>4
      <4>2. QED
        BY <3>4, <4>1
    <3>5. QED
      BY <3>3, <3>4
  <2>3. QED
    BY <2>1, <2>2
<1>10. QED
  BY <1>6, <1>7, <1>9 DEF IInv

\* The same for an entry of a special id.
LEMMA SpecialStep ==
  ASSUME IInv, NEW id \in Ids, IsSpecial(id), NEW obj,
         UNCHANGED generic, released' = FindOne(id),
         \/ obj \in Objects /\ special' = With(special, id, obj)
         \/ obj = Null /\ special' = Without(special, id)
  PROVE  IInv' /\ \A x \in Ids : FindOne(x)' = IF x = id THEN obj ELSE FindOne(x)
<1>1. TypeOK'
  <2>1. DOMAIN special' \subseteq Ids /\ \A x \in DOMAIN special' : special'[x] \in Objects
    BY DEF IInv, TypeOK, With, Without
  <2>2. released' \in Objects \cup {Null}
    BY FindOneIs
  <2>3. QED
    BY <2>1, <2>2 DEF IInv, TypeOK
<1>2. BucketsWellFormed'
  BY DEF IInv, BucketsWellFormed
<1>3. ASSUME NEW x \in Ids PROVE FindOne(x)' = IF x = id THEN obj ELSE FindOne(x)
  <2>1. CASE IsSpecial(x)
    <3>1. FindOne(x)' = IF x \in DOMAIN special' THEN special'[x] ELSE Null
      BY <2>1 DEF FindOne
    <3>2. FindOne(x) = IF x \in DOMAIN special THEN special[x] ELSE Null
      BY <2>1 DEF FindOne
    <3>3. QED
      BY <3>1, <3>2 DEF With, Without
  <2>2. CASE ~IsSpecial(x)
    BY <2>2 DEF FindOne, Bucket
  <2>3. QED
    BY <2>1, <2>2
<1>4. QED
  BY <1>1, <1>2, <1>3 DEF IInv

\* Insert and erase, of every id: the state stays well formed, the update
\* answers with what a lookup found, and changes what is found for its id only.
LEMMA InsertStep ==
  ASSUME IInv, NEW id \in Ids, NEW obj \in Objects, InsertOrAssign(id, obj)
  PROVE  /\ IInv' /\ released' = FindOne(id)
         /\ \A x \in Ids : FindOne(x)' = IF x = id THEN obj ELSE FindOne(x)
<1>1. CASE InsertSpecial(id, obj)
  BY <1>1, SpecialStep DEF InsertSpecial
<1>2. CASE InsertGeneric(id, obj)
  <2> DEFINE old == Bucket(BaseOf(id))
             objs == Inserted(old, id, obj)
  <2>1. /\ ~IsSpecial(id) /\ UNCHANGED special /\ released' = FindOne(id)
        /\ generic' = With(generic, BaseOf(id), objs)
    BY <1>2 DEF InsertGeneric
  <2>2. BucketOf(old, BaseOf(id))
    BY BucketIs
  <2> HIDE DEF old
  <2>3. /\ BucketOf(objs, BaseOf(id)) /\ objs # <<>> /\ Look(objs, id) = obj
        /\ \A x \in Ids \ {id} : Look(objs, x) = Look(old, x)
    BY <2>1, <2>2, InsertedIs
  <2> HIDE DEF objs
  <2>4. generic' = IF objs = <<>> THEN Without(generic, BaseOf(id)) ELSE With(generic, BaseOf(id), objs)
    BY <2>1, <2>3
  <2>5. QED
    BY <2>1, <2>3, <2>4, BucketStep DEF old
<1>3. QED
  BY <1>1, <1>2 DEF InsertOrAssign

LEMMA EraseStep ==
  ASSUME IInv, NEW id \in Ids, Erase(id)
  PROVE  /\ IInv' /\ released' = FindOne(id)
         /\ \A x \in Ids : FindOne(x)' = IF x = id THEN Null ELSE FindOne(x)
<1>1. CASE EraseSpecial(id)
  BY <1>1, SpecialStep DEF EraseSpecial
<1>2. CASE EraseGeneric(id)
  <2> DEFINE old == Bucket(BaseOf(id))
             i == LowerBound(old, id)
             objs == RemoveAt(old, i)
  <2>1. /\ ~IsSpecial(id) /\ UNCHANGED special /\ released' = FindOne(id)
        /\ generic' = IF ~HasAt(old, i, id) THEN generic
                      ELSE IF objs = <<>> THEN Without(generic, BaseOf(id))
                      ELSE With(generic, BaseOf(id), objs)
    BY <1>2 DEF EraseGeneric
  <2>2. BucketOf(old, BaseOf(id))
    BY BucketIs
  <2>3. CASE HasAt(old, i, id)
    <3> HIDE DEF old
    <3>1. /\ BucketOf(objs, BaseOf(id)) /\ Look(objs, id) = Null
          /\ \A x \in Ids \ {id} : Look(objs, x) = Look(old, x)
      BY <2>2, <2>3, RemovedIs
    <3> HIDE DEF objs, i
    <3>2. generic' = IF objs = <<>> THEN Without(generic, BaseOf(id)) ELSE With(generic, BaseOf(id), objs)
      BY <2>1, <2>3
    <3>3. QED
      BY <2>1, <3>1, <3>2, BucketStep DEF old
  <2>4. CASE ~HasAt(old, i, id)
    <3>1. generic' = generic /\ special' = special
      BY <2>1, <2>4
    <3>2. \A x \in Ids : FindOne(x)' = FindOne(x)
      BY <3>1 DEF FindOne, Bucket
    <3>3. FindOne(id) = Null
      BY <2>1, <2>4 DEF FindOne
    <3>4. IInv'
      <4>1. released' \in Objects \cup {Null}
        BY <2>1, FindOneIs
      <4>2. QED
        BY <3>1, <4>1 DEF IInv, TypeOK, BucketsWellFormed
    <3>5. QED
      BY <2>1, <3>2, <3>3, <3>4
  <2>5. QED
    BY <2>3, <2>4
<1>3. QED
  BY <1>1, <1>2 DEF Erase

-----------------------------------------------------------------------------
(* The theorems *)

LEMMA InitIInv == Init => IInv
  BY DEF Init, IInv, TypeOK, BucketsWellFormed

LEMMA NextIInv == IInv /\ [Next]_vars => IInv'
<1> SUFFICES ASSUME IInv, [Next]_vars PROVE IInv'
  OBVIOUS
<1>1. CASE Next
  BY <1>1, InsertStep, EraseStep DEF Next
<1>2. CASE UNCHANGED vars
  BY <1>2 DEF vars, IInv, TypeOK, BucketsWellFormed
<1>3. QED
  BY <1>1, <1>2

THEOREM AlwaysIInv == Spec => []IInv
  BY InitIInv, NextIInv, PTL DEF Spec

\* Every variable of IDTo3DMap keeps its type.
THEOREM TypeCorrect == Spec => []TypeOK
<1>1. IInv => TypeOK
  BY DEF IInv
<1>2. QED
  BY <1>1, AlwaysIInv, PTL

\* Whatever is inserted and erased (insert_or_assign, erase), the buckets stay
\* strictly sorted, of one base, free of special ids and not empty, which is
\* what lower_bound and the container's size rely on.
THEOREM BucketsWellFormedHolds == Spec => []BucketsWellFormed
<1>1. IInv => BucketsWellFormed
  BY DEF IInv
<1>2. QED
  BY <1>1, AlwaysIInv, PTL

-----------------------------------------------------------------------------
(* The two insertions *)

\* A map of 1..n into itself that takes no value twice takes all of them.
LEMMA OntoItself ==
  ASSUME NEW n \in Nat, NEW p \in [1..n -> 1..n], \A i, j \in 1..n : i # j => p[i] # p[j],
         NEW y \in 1..n
  PROVE  \E x \in 1..n : p[x] = y
<1>1. IsFiniteSet(1..n)
  BY FS_Interval
<1>2. p \in Injection(1..n, 1..n)
  BY Fun_IsInj
<1>3. p \in Surjection(1..n, 1..n)
  BY <1>1, <1>2, FS_Injection
<1>4. \A t \in 1..n : \E x \in 1..n : p[x] = t
  BY <1>3 DEF Surjection
<1>5. QED
  BY <1>4

\* Two arrangements of the same entries, with different ids, in the order of
\* their ids are the same one: at the first place where they differ, either has
\* put off what the other has there.
LEMMA OneOrder ==
  ASSUME NEW n \in Nat, NEW key \in [1..n -> Nat], \A i, j \in 1..n : i # j => key[i] # key[j],
         NEW p \in [1..n -> 1..n], \A i, j \in 1..n : i # j => p[i] # p[j],
         NEW q \in [1..n -> 1..n], \A i, j \in 1..n : i # j => q[i] # q[j],
         \A i, j \in 1..n : i < j => key[p[i]] <= key[p[j]],
         \A i, j \in 1..n : i < j => key[q[i]] <= key[q[j]]
  PROVE  p = q
<1> DEFINE D == {i \in 1..n : p[i] # q[i]}
<1>1. SUFFICES ASSUME D # {} PROVE FALSE
  <2>1. D = {} => \A i \in 1..n : p[i] = q[i]
    OBVIOUS
  <2>2. (\A i \in 1..n : p[i] = q[i]) => p = q
    OBVIOUS
  <2>3. QED
    BY <2>1, <2>2
<1> DEFINE m == Min(D)
<1>2. m \in D /\ \A i \in D : m <= i
  <2>1. D \subseteq Nat
    OBVIOUS
  <2>2. QED
    BY ONLY <1>1, <2>1, MinIsLeast
<1> HIDE DEF m
<1>3. m \in 1..n /\ p[m] # q[m] /\ \A i \in 1..n : i < m => p[i] = q[i]
  BY <1>2
<1>4. PICK k \in 1..n : q[k] = p[m]
  <2>1. p[m] \in 1..n
    BY <1>3
  <2>2. QED
    BY ONLY <2>1, OntoItself, n \in Nat, q \in [1..n -> 1..n], \A i, j \in 1..n : i # j => q[i] # q[j]
<1>5. PICK l \in 1..n : p[l] = q[m]
  <2>1. q[m] \in 1..n
    BY <1>3
  <2>2. QED
    BY ONLY <2>1, OntoItself, n \in Nat, p \in [1..n -> 1..n], \A i, j \in 1..n : i # j => p[i] # p[j]
<1>6. k > m /\ l > m
  <2>1. k # m /\ l # m
    BY <1>3, <1>4, <1>5
  <2>2. ~(k < m) /\ ~(l < m)
    BY <1>3, <1>4, <1>5
  <2>3. QED
    BY <1>3, <2>1, <2>2
<1>7. key[q[m]] <= key[p[m]] /\ key[p[m]] <= key[q[m]]
  BY <1>3, <1>4, <1>5, <1>6
<1>8. p[m] \in 1..n /\ q[m] \in 1..n /\ key[p[m]] \in Nat /\ key[q[m]] \in Nat
  BY <1>3
<1>9. QED
  BY <1>3, <1>7, <1>8

\* A bucket that fixup_container sorts comes out as the one strictly sorted
\* arrangement of it.
LEMMA FixupIs ==
  ASSUME NEW objs \in Seq(Entry), NEW s \in Seq(Entry), Len(s) = Len(objs),
         \A i, j \in 1..Len(s) : i < j => s[i].id < s[j].id,
         NEW q \in [1..Len(objs) -> 1..Len(objs)],
         \A i, j \in 1..Len(objs) : i # j => q[i] # q[j],
         \A i \in 1..Len(objs) : s[i] = objs[q[i]]
  PROVE  FixupContainer(objs) = s
<1> DEFINE n == Len(objs)
           key == [i \in 1..n |-> objs[i].id]
           Sorts(p) == /\ \A i, j \in DOMAIN objs : i # j => p[i] # p[j]
                       /\ \A i, j \in DOMAIN objs : i < j => objs[p[i]].id <= objs[p[j]].id
           from == CHOOSE p \in [DOMAIN objs -> DOMAIN objs] : Sorts(p)
<1>1. n \in Nat /\ DOMAIN objs = 1..n /\ DOMAIN s = 1..n
  BY LenProperties
<1>2. \A i \in 1..n : objs[i].id \in Nat /\ s[i].id \in Nat
  BY EntryFields
<1>3. key \in [1..n -> Nat] /\ \A i \in 1..n : key[i] = objs[i].id
  BY <1>2
<1>4. Sorts(q)
  <2>1. \A i, j \in 1..n : i < j => objs[q[i]].id < objs[q[j]].id
    OBVIOUS
  <2>2. \A i \in 1..n : objs[q[i]].id \in Nat
    BY <1>2
  <2>3. \A i, j \in 1..n : i < j => objs[q[i]].id <= objs[q[j]].id
    BY <2>1, <2>2
  <2>4. QED
    BY <1>1, <2>3
<1>5. from \in [1..n -> 1..n] /\ Sorts(from)
  BY <1>1, <1>4
<1>6. \A i, j \in 1..n : i # j => key[i] # key[j]
  <2>1. SUFFICES ASSUME NEW i \in 1..n, NEW j \in 1..n, i # j PROVE objs[i].id # objs[j].id
    BY <1>3
  <2>2. PICK a \in 1..n : q[a] = i
    BY <1>1, OntoItself
  <2>3. PICK b \in 1..n : q[b] = j
    BY <1>1, OntoItself
  <2>4. a # b /\ s[a] = objs[i] /\ s[b] = objs[j]
    BY <2>1, <2>2, <2>3
  <2>5. a < b \/ b < a
    BY <1>1, <2>4
  <2>6. s[a].id # s[b].id
    <3>1. s[a].id \in Nat /\ s[b].id \in Nat
      BY <1>2
    <3>2. s[a].id < s[b].id \/ s[b].id < s[a].id
      BY <2>5
    <3>3. QED
      BY <3>1, <3>2
  <2>7. QED
    BY <2>4, <2>6
<1> HIDE DEF from
<1>7. from = q
  <2>1. \A i, j \in 1..n : i # j => from[i] # from[j]
    BY <1>1, <1>5
  <2>2. \A i, j \in 1..n : i < j => key[from[i]] <= key[from[j]]
    BY <1>1, <1>3, <1>5
  <2>3. \A i, j \in 1..n : i < j => key[q[i]] <= key[q[j]]
    BY <1>1, <1>3, <1>4
  <2> HIDE DEF key
  <2>4. QED
    BY <1>1, <1>3, <1>5, <1>6, <2>1, <2>2, <2>3, OneOrder
<1>8. FixupContainer(objs) = [i \in 1..n |-> objs[from[i]]]
  BY <1>1 DEF FixupContainer, from
<1>9. s = [i \in 1..n |-> s[i]]
  BY <1>1
<1>10. QED
  BY <1>7, <1>8, <1>9

LEMMA InsertsAgreeIfWellFormed == IInv => InsertsAgree
<1> SUFFICES ASSUME IInv, NEW id \in Ids, NEW obj \in Objects, ~IsSpecial(id)
             PROVE  Inserted(Bucket(BaseOf(id)), id, obj) = InsertedSorted(Bucket(BaseOf(id)), id, obj)
  BY DEF InsertsAgree
<1> DEFINE objs == Bucket(BaseOf(id))
           k == LowerBound(objs, id)
           e == [id |-> id, obj |-> obj]
           more == Inserted(objs, id, obj)
           n == Len(objs)
<1>1. BucketOf(objs, BaseOf(id))
  BY BaseInRange, BucketIs
<1>2. objs \in Seq(Entry) /\ n \in Nat /\ e \in Entry
  BY <1>1, LenProperties DEF BucketOf, Entry
<1>3. k \in 1..(n + 1)
  BY <1>2, LowerBoundIs
<1>4. /\ more \in Seq(Entry)
      /\ \A i, j \in 1..Len(more) : i < j => more[i].id < more[j].id
  BY <1>1, InsertedIs DEF BucketOf
<1>5. CASE HasAt(objs, k, id)
  <2> DEFINE q == [i \in 1..n |-> i]
  <2>1. more = [objs EXCEPT ![k].obj = obj] /\ InsertedSorted(objs, id, obj) = FixupContainer(more)
    BY <1>5 DEF Inserted, InsertedSorted
  <2> HIDE DEF more, objs
  <2>2. Len(more) \in Nat
    BY <1>4, LenProperties
  <2>3. FixupContainer(more) = more
    <3> DEFINE r == [i \in 1..Len(more) |-> i]
    <3>1. /\ r \in [1..Len(more) -> 1..Len(more)]
          /\ \A i, j \in 1..Len(more) : i # j => r[i] # r[j]
          /\ \A i \in 1..Len(more) : more[i] = more[r[i]]
      OBVIOUS
    <3> HIDE DEF r
    <3>2. QED
      BY <1>4, <3>1, FixupIs
  <2>4. QED
    BY <2>1, <2>3 DEF more, objs
<1>6. CASE ~HasAt(objs, k, id)
  <2> DEFINE grown == Append(objs, e)
             q == [i \in 1..(n + 1) |-> IF i < k THEN i ELSE IF i = k THEN n + 1 ELSE i - 1]
  <2>1. more = InsertAt(objs, k, e) /\ InsertedSorted(objs, id, obj) = FixupContainer(grown)
    BY <1>6 DEF Inserted, InsertedSorted
  <2> HIDE DEF more, objs, e, k
  <2>2. /\ Len(more) = n + 1
        /\ \A j \in 1..(n + 1) : more[j] = IF j < k THEN objs[j] ELSE IF j = k THEN e ELSE objs[j - 1]
    BY <1>2, <1>3, <2>1, InsertAtIs
  <2>3. /\ grown \in Seq(Entry) /\ Len(grown) = n + 1 /\ grown[n + 1] = e
        /\ \A j \in 1..n : grown[j] = objs[j]
    BY <1>2, AppendProperties
  <2> HIDE DEF grown, n
  <2>4. q \in [1..(n + 1) -> 1..(n + 1)]
    BY <1>2, <1>3
  <2>5. \A i, j \in 1..(n + 1) : i # j => q[i] # q[j]
    BY <1>2, <1>3
  <2>6. ASSUME NEW i \in 1..(n + 1) PROVE more[i] = grown[q[i]]
    <3>1. CASE i < k
      BY <1>2, <1>3, <2>2, <2>3, <3>1
    <3>2. CASE i = k
      BY <1>2, <1>3, <2>2, <2>3, <3>2
    <3>3. CASE i > k
      <4>1. i - 1 \in 1..n /\ q[i] = i - 1 /\ more[i] = objs[i - 1]
        BY <1>2, <1>3, <2>2, <3>3
      <4>2. QED
        BY <2>3, <4>1
    <3>4. QED
      BY <1>2, <1>3, <3>1, <3>2, <3>3
  <2> HIDE DEF q
  <2>7. FixupContainer(grown) = more
    <3>1. /\ q \in [1..Len(grown) -> 1..Len(grown)]
          /\ \A i, j \in 1..Len(grown) : i # j => q[i] # q[j]
          /\ \A i \in 1..Len(grown) : more[i] = grown[q[i]]
          /\ Len(more) = Len(grown)
      BY <2>2, <2>3, <2>4, <2>5, <2>6
    <3>2. QED
      BY ONLY <1>4, <2>3, <3>1, FixupIs
  <2>8. QED
    BY <2>1, <2>7 DEF more, objs
<1>7. QED
  BY <1>5, <1>6

\* Whatever has been inserted and erased before, inserting at lower_bound
\* (insert_generic in VR) and appending and sorting (insert_generic and
\* fixup_container in the flat patch) leave the same bucket.
THEOREM InsertsAgreeHolds == Spec => []InsertsAgree
  BY AlwaysIInv, InsertsAgreeIfWellFormed, PTL

-----------------------------------------------------------------------------
(* The two lookups *)

LEMMA IndexOrder ==
  ASSUME NEW a \in Nat, NEW b \in Nat, a < b, BaseOf(a) = BaseOf(b)
  PROVE  IndexOf(a) < IndexOf(b)
<1> DEFINE s == BaseCount
           q == a \div s
           k == b \div s
           r == a % s
<1>1. s \in Nat \ {0}
  BY IDTo3DMapAssumption
<1>2. \A x \in Int, n \in Int : n > 0 => x = n * (x \div n) + (x % n) /\ x \div n \in Int /\ x % n \in Int
  BY SMTT(30)
<1>3. q \in Int /\ k \in Int /\ r \in Int /\ a = s * q + r /\ b = s * k + r
  <2>1. b % s = r
    BY DEF BaseOf
  <2>2. s \in Int /\ s > 0 /\ a \in Int /\ b \in Int
    BY <1>1
  <2>3. QED
    BY <1>2, <2>1, <2>2
<1> HIDE DEF s, q, k, r
<1>4. k <= q => s * k <= s * q
  BY <1>1, <1>3
<1>5. q < k
  <2>1. s * q \in Int /\ s * k \in Int
    BY <1>1, <1>3
  <2>2. QED
    BY <1>3, <1>4, <2>1
<1>6. QED
  BY <1>5 DEF IndexOf, s, q, k

LEMMA FindsAgreeIfWellFormed == IInv => FindsAgree
<1> SUFFICES ASSUME IInv, NEW id \in Ids
             PROVE  LET found == FindAll(id)
                    IN  /\ FindOne(id) # Null =>
                             \E i \in DOMAIN found : found[i] = [id |-> id, obj |-> FindOne(id)]
                        /\ \A i \in DOMAIN found : BaseOf(found[i].id) = BaseOf(id)
                        /\ \A i, j \in DOMAIN found : i < j => IndexOf(found[i].id) < IndexOf(found[j].id)
  BY DEF FindsAgree
<1>1. CASE ~IsSpecial(id)
  <2> DEFINE found == Bucket(BaseOf(id))
  <2>1. FindAll(id) = found /\ FindOne(id) = Look(found, id)
    BY <1>1, FindOneIs DEF FindAll
  <2>2. BucketOf(found, BaseOf(id))
    BY BucketIs
  <2> HIDE DEF found
  <2>3. /\ found \in Seq(Entry) /\ Len(found) \in Nat /\ DOMAIN found = 1..Len(found)
        /\ \A i \in 1..Len(found) : found[i].id \in Nat
    <3>1. found \in Seq(Entry)
      BY <2>2 DEF BucketOf
    <3>2. QED
      BY <3>1, LenProperties, EntryFields
  <2>4. ASSUME Look(found, id) # Null
        PROVE  \E i \in DOMAIN found : found[i] = [id |-> id, obj |-> Look(found, id)]
    <3> DEFINE k == LowerBound(found, id)
    <3>1. HasAt(found, k, id) /\ Look(found, id) = found[k].obj
      BY <2>4 DEF Look
    <3>2. k \in 1..Len(found) /\ found[k].id = id
      <4>1. k \in 1..(Len(found) + 1)
        BY <2>3, LowerBoundIs
      <4>2. QED
        BY <2>3, <3>1, <4>1 DEF HasAt
    <3> HIDE DEF k
    <3>3. found[k] = [id |-> id, obj |-> Look(found, id)]
      BY <2>3, <3>1, <3>2, EntryFields
    <3>4. QED
      BY <2>3, <3>2, <3>3
  <2>5. \A i \in DOMAIN found : BaseOf(found[i].id) = BaseOf(id)
    BY <2>2, <2>3 DEF BucketOf
  <2>6. ASSUME NEW i \in DOMAIN found, NEW j \in DOMAIN found, i < j
        PROVE  IndexOf(found[i].id) < IndexOf(found[j].id)
    <3>1. found[i].id < found[j].id /\ BaseOf(found[i].id) = BaseOf(found[j].id)
      BY <2>2, <2>3, <2>5, <2>6 DEF BucketOf
    <3>2. QED
      BY <2>3, <3>1, IndexOrder
  <2>7. QED
    BY <2>1, <2>4, <2>5, <2>6
<1>2. CASE IsSpecial(id) /\ id \in DOMAIN special
  <2>1. FindAll(id) = <<[id |-> id, obj |-> special[id]]>> /\ FindOne(id) = special[id]
    BY <1>2 DEF FindAll, FindOne
  <2>2. DOMAIN FindAll(id) = {1} /\ FindAll(id)[1] = [id |-> id, obj |-> special[id]]
    BY <2>1
  <2>3. \A i, j \in DOMAIN FindAll(id) : ~ (i < j)
    BY <2>2
  <2>4. QED
    BY <2>1, <2>2, <2>3
<1>3. CASE IsSpecial(id) /\ id \notin DOMAIN special
  <2>1. FindAll(id) = <<>> /\ FindOne(id) = Null
    BY <1>3 DEF FindAll, FindOne
  <2>2. DOMAIN FindAll(id) = {}
    BY <2>1
  <2>3. QED
    BY <2>1, <2>2
<1>4. QED
  BY <1>1, <1>2, <1>3

\* The flat patch's find and the VR patch's find_one meet the same object, and
\* find adds only objects of the same base, by ascending file index.
THEOREM FindsAgreeHolds == Spec => []FindsAgree
  BY AlwaysIInv, FindsAgreeIfWellFormed, PTL

-----------------------------------------------------------------------------
(* The two containers are one map *)

LEMMA InitRefines == Init => Abstract!Init
<1> SUFFICES ASSUME Init PROVE Abstract!Init
  OBVIOUS
<1>1. ASSUME NEW id \in Ids PROVE FindOne(id) = Null
  <2>1. IInv /\ DOMAIN generic = {} /\ DOMAIN special = {}
    BY InitIInv DEF Init
  <2>2. Bucket(BaseOf(id)) = <<>>
    BY <2>1 DEF Bucket
  <2>3. Look(<<>>, id) = Null
    <3>1. <<>> \in Seq(Entry) /\ Len(<<>>) = 0 /\ 1..0 = {}
      BY EmptySeq
    <3>2. QED
      BY <3>1, LookMisses
  <2>4. QED
    BY <2>1, <2>2, <2>3, FindOneIs
<1>2. QED
  BY <1>1 DEF Init, Abstract!Init

LEMMA NextRefines ==
  IInv /\ [Next]_vars => [Abstract!Next]_<<[id \in Ids |-> FindOne(id)], released>>
<1> SUFFICES ASSUME IInv, [Next]_vars
             PROVE  [Abstract!Next]_<<[id \in Ids |-> FindOne(id)], released>>
  OBVIOUS
<1> DEFINE map == [id \in Ids |-> FindOne(id)]
<1>1. map' = [id \in Ids |-> FindOne(id)']
  OBVIOUS
<1>2. ASSUME NEW id \in Ids, Erase(id) PROVE Abstract!Next
  <2>1. released' = FindOne(id) /\ \A x \in Ids : FindOne(x)' = IF x = id THEN Null ELSE FindOne(x)
    BY <1>2, EraseStep
  <2>2. map' = [map EXCEPT ![id] = Null] /\ released' = map[id]
    BY <2>1
  <2>3. Abstract!Erase(id)
    BY <2>2 DEF Abstract!Erase
  <2>4. QED
    BY <2>3 DEF Abstract!Next
<1>3. ASSUME NEW id \in Ids, NEW obj \in Objects, InsertOrAssign(id, obj) PROVE Abstract!Next
  <2>1. released' = FindOne(id) /\ \A x \in Ids : FindOne(x)' = IF x = id THEN obj ELSE FindOne(x)
    BY <1>3, InsertStep
  <2>2. map' = [map EXCEPT ![id] = obj] /\ released' = map[id]
    BY <2>1
  <2>3. Abstract!Insert(id, obj)
    BY <2>2 DEF Abstract!Insert
  <2>4. QED
    BY <2>3 DEF Abstract!Next
<1>4. CASE UNCHANGED vars
  <2>1. \A x \in Ids : FindOne(x)' = FindOne(x)
    BY <1>4 DEF vars, FindOne, Bucket
  <2>2. map' = map /\ released' = released
    BY <1>4, <2>1 DEF vars
  <2>3. QED
    BY <2>2
<1>5. QED
  BY <1>2, <1>3, <1>4 DEF Next

\* The split into sorted buckets and special entries cannot be told from one
\* map: each insert_or_assign and erase is that of IDMap, which answers with the
\* reference that left the map and so must be released.
THEOREM ImplementsIDMapHolds == Spec => ImplementsIDMap
<1>1. Init => Abstract!Init
  BY InitRefines
<1>2. IInv /\ [Next]_vars => [Abstract!Next]_<<[id \in Ids |-> FindOne(id)], released>>
  BY NextRefines
<1>3. QED
  BY <1>1, <1>2, AlwaysIInv, PTL DEF Spec, ImplementsIDMap, Abstract!Spec
=============================================================================
