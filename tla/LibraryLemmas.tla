---------------------------- MODULE LibraryLemmas ----------------------------
(* What the proofs need to know of operators of the community modules: the   *)
(* extremes of a finite set of integers, and a queue with one element out.   *)
EXTENDS Integers, SequencesExt, SequenceTheorems, FiniteSetTheorems,
        WellFoundedInduction, TLAPS

\* A finite set of integers has a largest element: of the sets of the elements
\* above each, one has no other below it.
LEMMA LargestExists ==
    ASSUME NEW S \in SUBSET Int, IsFiniteSet(S), S # {}
    PROVE  \E x \in S : \A y \in S : x >= y
<1> DEFINE Above(x) == {y \in S : y > x}
           T == {Above(x) : x \in S}
<1>1. IsWellFoundedOn(StrictSubsetOrdering(S), FiniteSubsetsOf(S))
  BY FS_StrictSubsetOrderingWellFounded
<1>2. T \subseteq FiniteSubsetsOf(S)
  BY FS_Subset DEF FiniteSubsetsOf
<1>3. T # {}
  OBVIOUS
<1>4. PICK A \in T : \A B \in T : ~ (<<B, A>> \in StrictSubsetOrdering(S))
  <2> HIDE DEF T
  <2> QED
    BY <1>1, <1>2, <1>3, WFMin
<1>5. PICK x \in S : A = Above(x)
  OBVIOUS
<1>6. ASSUME NEW y \in S, y > x PROVE FALSE
  <2>1. Above(y) \in T
    OBVIOUS
  <2>2. Above(y) \subseteq Above(x)
    <3> SUFFICES ASSUME NEW z \in S, z > y PROVE z > x
      OBVIOUS
    <3> QED
      BY <1>6
  <2>3. y \in Above(x) /\ y \notin Above(y)
    BY <1>6
  <2>4. <<Above(y), Above(x)>> \in StrictSubsetOrdering(S)
    BY <2>2, <2>3 DEF StrictSubsetOrdering
  <2> QED
    BY <1>4, <1>5, <2>1, <2>4
<1> QED
  BY <1>6

LEMMA SmallestExists ==
    ASSUME NEW S \in SUBSET Int, IsFiniteSet(S), S # {}
    PROVE  \E x \in S : \A y \in S : x <= y
<1> DEFINE Below(x) == {y \in S : y < x}
           T == {Below(x) : x \in S}
<1>1. IsWellFoundedOn(StrictSubsetOrdering(S), FiniteSubsetsOf(S))
  BY FS_StrictSubsetOrderingWellFounded
<1>2. T \subseteq FiniteSubsetsOf(S)
  BY FS_Subset DEF FiniteSubsetsOf
<1>3. T # {}
  OBVIOUS
<1>4. PICK A \in T : \A B \in T : ~ (<<B, A>> \in StrictSubsetOrdering(S))
  <2> HIDE DEF T
  <2> QED
    BY <1>1, <1>2, <1>3, WFMin
<1>5. PICK x \in S : A = Below(x)
  OBVIOUS
<1>6. ASSUME NEW y \in S, y < x PROVE FALSE
  <2>1. Below(y) \in T
    OBVIOUS
  <2>2. Below(y) \subseteq Below(x)
    <3> SUFFICES ASSUME NEW z \in S, z < y PROVE z < x
      OBVIOUS
    <3> QED
      BY <1>6
  <2>3. y \in Below(x) /\ y \notin Below(y)
    BY <1>6
  <2>4. <<Below(y), Below(x)>> \in StrictSubsetOrdering(S)
    BY <2>2, <2>3 DEF StrictSubsetOrdering
  <2> QED
    BY <1>4, <1>5, <2>1, <2>4
<1> QED
  BY <1>6

\* Max of a finite set of integers.
LEMMA MaxIsLargest ==
    ASSUME NEW S \in SUBSET Int, IsFiniteSet(S), S # {}
    PROVE  Max(S) \in S /\ \A y \in S : Max(S) >= y
BY LargestExists DEF Max

\* An element taken out of a sequence at a place.
LEMMA RemoveAtProperties ==
    ASSUME NEW S, NEW q \in Seq(S), NEW k \in 1 .. Len(q)
    PROVE  /\ RemoveAt(q, k) \in Seq(S)
           /\ Len(RemoveAt(q, k)) = Len(q) - 1
           /\ \A j \in 1 .. Len(q) - 1 : RemoveAt(q, k)[j] = IF j < k THEN q[j] ELSE q[j + 1]
<1>1. Len(q) \in Nat /\ \A j \in 1 .. Len(q) : q[j] \in S
  BY LenProperties, ElementOfSeq
<1> DEFINE a == SubSeq(q, 1, k - 1)
           b == SubSeq(q, k + 1, Len(q))
<1>2. RemoveAt(q, k) = a \o b
  BY DEF RemoveAt
<1>3. a \in Seq(S) /\ Len(a) = k - 1 /\ \A j \in 1 .. k - 1 : a[j] = q[j]
  BY <1>1, SubSeqProperties
<1>4. b \in Seq(S) /\ Len(b) = Len(q) - k /\ \A j \in 1 .. Len(q) - k : b[j] = q[k + j]
  BY <1>1, SubSeqProperties
<1> HIDE DEF a, b
<1>5. /\ a \o b \in Seq(S)
      /\ Len(a \o b) = Len(a) + Len(b)
      /\ \A j \in 1 .. Len(a) + Len(b) : (a \o b)[j] = IF j <= Len(a) THEN a[j] ELSE b[j - Len(a)]
  BY <1>3, <1>4, ConcatProperties
<1>6. Len(a) + Len(b) = Len(q) - 1
  BY <1>1, <1>3, <1>4
<1>7. ASSUME NEW j \in 1 .. Len(q) - 1
      PROVE  (a \o b)[j] = IF j < k THEN q[j] ELSE q[j + 1]
  <2>1. CASE j < k
    BY <2>1, <1>1, <1>3, <1>5, <1>6
  <2>2. CASE ~ (j < k)
    <3>1. j - Len(a) \in 1 .. Len(q) - k /\ k + (j - Len(a)) = j + 1
      BY <2>2, <1>1, <1>3
    <3>2. (a \o b)[j] = b[j - Len(a)]
      BY <2>2, <1>1, <1>3, <1>5, <1>6
    <3>3. b[j - Len(a)] = q[k + (j - Len(a))]
      BY <3>1, <1>4
    <3> QED
      BY <2>2, <3>1, <3>2, <3>3
  <2> QED
    BY <2>1, <2>2
<1> QED
  BY <1>2, <1>5, <1>6, <1>7

\* The first occurrence of an element taken out: before it nothing changes,
\* what follows moves up by one.
LEMMA RemoveFirstProperties ==
    ASSUME NEW S, NEW q \in Seq(S), NEW e
    PROVE  \/ /\ \A j \in 1 .. Len(q) : q[j] # e
              /\ RemoveFirst(q, e) = q
           \/ \E k \in 1 .. Len(q) :
                /\ q[k] = e
                /\ \A j \in 1 .. k - 1 : q[j] # e
                /\ RemoveFirst(q, e) = RemoveAt(q, k)
<1> DEFINE I == {i \in 1 .. Len(q) : q[i] = e}
<1>1. CASE I = {}
  BY <1>1 DEF RemoveFirst
<1>2. CASE I # {}
  <2>1. Len(q) \in Nat
    BY LenProperties
  <2>2. I \in SUBSET Int /\ IsFiniteSet(I)
    <3>1. IsFiniteSet(1 .. Len(q))
      BY <2>1, FS_Interval
    <3> QED
      BY <3>1, FS_Subset
  <2>3. Min(I) \in I /\ \A y \in I : Min(I) <= y
    <3> HIDE DEF I
    <3> QED
      BY <1>2, <2>2, SmallestExists DEF Min
  <2>4. RemoveFirst(q, e) = RemoveAt(q, Min(I))
    BY <1>2 DEF RemoveFirst, SelectInSeq
  <2>5. \A j \in 1 .. Min(I) - 1 : q[j] # e
    BY <2>1, <2>3
  <2> QED
    BY <2>3, <2>4, <2>5
<1> QED
  BY <1>1, <1>2

(* The elements of a sequence *)

LEMMA ElementsOfSeq ==
    ASSUME NEW S, NEW q \in Seq(S)
    PROVE  /\ ToSet(q) \subseteq S
           /\ \A e : e \in ToSet(q) <=> \E k \in 1 .. Len(q) : q[k] = e
BY LenProperties, ElementOfSeq DEF ToSet

LEMMA ElementsOfAppend ==
    ASSUME NEW S, NEW q \in Seq(S), NEW e \in S
    PROVE  /\ Append(q, e) \in Seq(S)
           /\ Len(Append(q, e)) = Len(q) + 1
           /\ \A k \in 1 .. Len(q) : Append(q, e)[k] = q[k]
           /\ Append(q, e)[Len(q) + 1] = e
           /\ ToSet(Append(q, e)) = ToSet(q) \cup {e}
<1>1. Append(q, e) \in Seq(S) /\ Len(q) \in Nat
  BY LenProperties
<1>2. /\ Len(Append(q, e)) = Len(q) + 1
      /\ \A k \in 1 .. Len(q) : Append(q, e)[k] = q[k]
      /\ Append(q, e)[Len(q) + 1] = e
  OBVIOUS
<1>3. ToSet(Append(q, e)) = ToSet(q) \cup {e}
  <2>1. 1 .. Len(q) + 1 = (1 .. Len(q)) \cup {Len(q) + 1}
    BY <1>1
  <2>2. \A x : x \in ToSet(Append(q, e)) <=> \E k \in 1 .. Len(q) + 1 : Append(q, e)[k] = x
    <3> DEFINE r == Append(q, e)
    <3>1. r \in Seq(S) /\ Len(r) = Len(q) + 1
      BY <1>1, <1>2
    <3> HIDE DEF r
    <3>2. \A x : x \in ToSet(r) <=> \E k \in 1 .. Len(r) : r[k] = x
      BY <3>1, ElementsOfSeq, Zenon
    <3>3. \A x : x \in ToSet(r) <=> \E k \in 1 .. Len(q) + 1 : r[k] = x
      BY <3>1, <3>2, Zenon
    <3> QED
      BY <3>3, Zenon DEF r
  <2>3. \A x : x \in ToSet(q) <=> \E k \in 1 .. Len(q) : q[k] = x
    BY ElementsOfSeq
  <2> QED
    BY <1>2, <2>1, <2>2, <2>3
<1> QED
  BY <1>1, <1>2, <1>3

LEMMA ElementsOfTail ==
    ASSUME NEW S, NEW q \in Seq(S), q # << >>
    PROVE  ToSet(q) = ToSet(Tail(q)) \cup {Head(q)}
<1>1. /\ Len(q) \in Nat \ {0}
      /\ Head(q) = q[1] /\ Tail(q) \in Seq(S) /\ Len(Tail(q)) = Len(q) - 1
      /\ \A i \in 1 .. Len(Tail(q)) : Tail(q)[i] = q[i + 1]
  BY HeadTailProperties, EmptySeq, LenProperties
<1>2. \A x : x \in ToSet(q) <=> \E k \in 1 .. Len(q) : q[k] = x
  BY ElementsOfSeq
<1>3. \A x : x \in ToSet(Tail(q)) <=> \E k \in 1 .. Len(Tail(q)) : Tail(q)[k] = x
  <2> DEFINE r == Tail(q)
  <2>1. r \in Seq(S)
    BY <1>1
  <2> HIDE DEF r
  <2>2. \A x : x \in ToSet(r) <=> \E k \in 1 .. Len(r) : r[k] = x
    BY <2>1, ElementsOfSeq, Zenon
  <2> QED
    BY <2>2, Zenon DEF r
<1>4. ASSUME NEW x \in ToSet(q), x # Head(q) PROVE x \in ToSet(Tail(q))
  <2>1. PICK k \in 1 .. Len(q) : q[k] = x
    BY <1>2
  <2>2. k # 1
    BY <1>1, <1>4, <2>1
  <2>3. k - 1 \in 1 .. Len(Tail(q)) /\ (k - 1) + 1 = k
    BY <1>1, <2>1, <2>2
  <2>4. Tail(q)[k - 1] = x
    BY <1>1, <2>1, <2>3
  <2> QED
    BY <1>3, <2>3, <2>4
<1>5. ASSUME NEW x \in ToSet(Tail(q)) PROVE x \in ToSet(q)
  <2>1. PICK k \in 1 .. Len(Tail(q)) : Tail(q)[k] = x
    BY <1>3
  <2>2. k + 1 \in 1 .. Len(q) /\ q[k + 1] = x
    BY <1>1, <2>1
  <2> QED
    BY <1>2, <2>2
<1>6. Head(q) \in ToSet(q)
  BY <1>1, <1>2
<1> QED
  BY <1>4, <1>5, <1>6

\* An element taken out of a sequence without repetitions is out of it.
LEMMA ElementsOfRemoveFirst ==
    ASSUME NEW S, NEW q \in Seq(S), IsInjective(q), NEW e
    PROVE  /\ RemoveFirst(q, e) \in Seq(S)
           /\ IsInjective(RemoveFirst(q, e))
           /\ ToSet(RemoveFirst(q, e)) = ToSet(q) \ {e}
<1> DEFINE r == RemoveFirst(q, e)
<1>1. \A x : x \in ToSet(q) <=> \E k \in 1 .. Len(q) : q[k] = x
  BY ElementsOfSeq
<1>2. Len(q) \in Nat /\ \A i, j \in 1 .. Len(q) : q[i] = q[j] => i = j
  BY LenProperties DEF IsInjective
<1>3. CASE \A j \in 1 .. Len(q) : q[j] # e
  <2>1. r = q
    BY <1>3, RemoveFirstProperties
  <2> QED
    BY <1>1, <1>3, <2>1
<1>4. CASE ~ \A j \in 1 .. Len(q) : q[j] # e
  <2>1. PICK k \in 1 .. Len(q) : q[k] = e /\ r = RemoveAt(q, k)
    BY <1>4, RemoveFirstProperties
  <2>2. /\ r \in Seq(S) /\ Len(r) = Len(q) - 1
        /\ \A j \in 1 .. Len(q) - 1 : r[j] = IF j < k THEN q[j] ELSE q[j + 1]
    BY <2>1, RemoveAtProperties
  <2> HIDE DEF r
  <2>3. DOMAIN r = 1 .. Len(q) - 1
    BY <2>2, LenProperties
  <2>4. ASSUME NEW i \in 1 .. Len(q) - 1, NEW j \in 1 .. Len(q) - 1, r[i] = r[j]
        PROVE  i = j
    <3>1. r[i] = q[IF i < k THEN i ELSE i + 1] /\ r[j] = q[IF j < k THEN j ELSE j + 1]
      BY <2>2
    <3>2. (IF i < k THEN i ELSE i + 1) \in 1 .. Len(q) /\ (IF j < k THEN j ELSE j + 1) \in 1 .. Len(q)
      BY <1>2
    <3>3. (IF i < k THEN i ELSE i + 1) = (IF j < k THEN j ELSE j + 1)
      <4> DEFINE a == IF i < k THEN i ELSE i + 1
                 b == IF j < k THEN j ELSE j + 1
      <4>1. a \in 1 .. Len(q) /\ b \in 1 .. Len(q) /\ q[a] = q[b]
        BY <2>4, <3>1, <3>2
      <4> HIDE DEF a, b
      <4>2. a = b
        BY <1>2, <4>1
      <4> QED
        BY <4>2 DEF a, b
    <3> QED
      BY <3>3
  <2>5. IsInjective(r)
    BY <2>3, <2>4 DEF IsInjective
  <2>6. \A x : x \in ToSet(r) <=> \E j \in 1 .. Len(q) - 1 : r[j] = x
    BY <2>2, ElementsOfSeq
  <2>7. ASSUME NEW x \in ToSet(r) PROVE x \in ToSet(q) /\ x # e
    <3>1. PICK j \in 1 .. Len(q) - 1 : r[j] = x
      BY <2>6
    <3>2. PICK l \in 1 .. Len(q) : q[l] = x /\ l # k
      <4>1. CASE j < k
        BY <1>2, <2>2, <3>1, <4>1
      <4>2. CASE ~ (j < k)
        <5>1. j + 1 \in 1 .. Len(q) /\ j + 1 # k
          BY <1>2, <4>2
        <5> QED
          BY <2>2, <3>1, <4>2, <5>1
      <4> QED
        BY <4>1, <4>2
    <3> QED
      BY <1>1, <1>2, <2>1, <3>2
  <2>8. ASSUME NEW x \in ToSet(q), x # e PROVE x \in ToSet(r)
    <3>1. PICK l \in 1 .. Len(q) : q[l] = x
      BY <1>1
    <3>2. l # k
      BY <2>1, <2>8, <3>1
    <3>3. CASE l < k
      <4>1. l \in 1 .. Len(q) - 1
        BY <1>2, <3>3
      <4> QED
        BY <2>2, <2>6, <3>1, <3>3, <4>1
    <3>4. CASE ~ (l < k)
      <4>1. l - 1 \in 1 .. Len(q) - 1 /\ ~ (l - 1 < k) /\ (l - 1) + 1 = l
        BY <1>2, <3>2, <3>4
      <4>2. r[l - 1] = q[l]
        BY <2>2, <4>1
      <4> QED
        BY <2>6, <3>1, <4>1, <4>2
    <3> QED
      BY <3>3, <3>4
  <2> QED
    BY <2>2, <2>5, <2>7, <2>8 DEF r
<1> QED
  BY <1>3, <1>4

-----------------------------------------------------------------------------
(* The sum of a function on a finite set.  Folds defines it by recursion on  *)
(* the subsets of the domain; that there is such a function, and what it is  *)
(* between, is proved on a smallest subset for which it would not hold.      *)

First(s) == CHOOSE x \in s : TRUE

\* g sums f over the subsets of T.
Sums(g, f, T) ==
    g = [s \in SUBSET T |-> IF s = {} THEN 0 ELSE f[First(s)] + g[s \ {First(s)}]]

\* A property of the empty set that passes on from a set without its first
\* element holds of every finite set: the sets that have it are in Good.
LEMMA SmallerFirst ==
    ASSUME NEW T, IsFiniteSet(T), NEW Good,
           {} \in Good,
           \A s \in SUBSET T : s # {} /\ (\A r \in SUBSET s : r # s => r \in Good) => s \in Good
    PROVE  SUBSET T \subseteq Good
<1> SUFFICES ASSUME (SUBSET T) \ Good # {} PROVE FALSE
  OBVIOUS
<1> DEFINE Bad == (SUBSET T) \ Good
<1>1. IsWellFoundedOn(StrictSubsetOrdering(T), FiniteSubsetsOf(T))
  BY FS_StrictSubsetOrderingWellFounded
<1>2. Bad \subseteq FiniteSubsetsOf(T)
  BY FS_Subset DEF FiniteSubsetsOf
<1>3. PICK s \in Bad : \A r \in Bad : ~ (<<r, s>> \in StrictSubsetOrdering(T))
  <2> HIDE DEF Bad
  <2>1. Bad # {}
    BY DEF Bad
  <2> QED
    BY <1>1, <1>2, <2>1, WFMin
<1>4. ASSUME NEW r \in SUBSET s, r # s PROVE r \in Good
  <2>1. r \in SUBSET T /\ <<r, s>> \in StrictSubsetOrdering(T)
    BY <1>4 DEF StrictSubsetOrdering
  <2> QED
    BY <1>3, <2>1
<1>5. s \in SUBSET T /\ s # {} /\ s \notin Good
  OBVIOUS
<1> QED
  BY <1>4, <1>5

LEMMA FirstIn == \A s : s # {} => First(s) \in s
BY DEF First

\* Two sums agree where both are defined.
LEMMA SumsAgree ==
    ASSUME NEW f, NEW S, NEW T, IsFiniteSet(S), S \subseteq T,
           NEW g, Sums(g, f, S), NEW h, Sums(h, f, T)
    PROVE  \A s \in SUBSET S : g[s] = h[s]
<1> DEFINE Good == {s \in SUBSET S : g[s] = h[s]}
<1>0. /\ \A s \in SUBSET S : g[s] = IF s = {} THEN 0 ELSE f[First(s)] + g[s \ {First(s)}]
      /\ \A s \in SUBSET T : h[s] = IF s = {} THEN 0 ELSE f[First(s)] + h[s \ {First(s)}]
  BY DEF Sums
<1>1. {} \in Good
  BY <1>0
<1>2. ASSUME NEW s \in SUBSET S, s # {}, \A r \in SUBSET s : r # s => r \in Good
      PROVE  s \in Good
  <2>1. s \ {First(s)} \in SUBSET s /\ s \ {First(s)} # s
    BY <1>2, FirstIn
  <2>2. g[s \ {First(s)}] = h[s \ {First(s)}]
    BY <1>2, <2>1
  <2>3. s \in SUBSET T
    OBVIOUS
  <2> QED
    BY <1>0, <1>2, <2>2, <2>3
<1>3. SUBSET S \subseteq Good
  <2> HIDE DEF Good
  <2> QED
    BY <1>1, <1>2, SmallerFirst
<1> QED
  BY <1>3

LEMMA SumsExists ==
    ASSUME NEW f, NEW T, IsFiniteSet(T)
    PROVE  \E g : Sums(g, f, T)
<1> DEFINE Good == {s \in SUBSET T : \E g : Sums(g, f, s)}
<1>1. {} \in Good
  <2> DEFINE g == [s \in SUBSET {} |-> 0]
  <2>1. g = [s \in SUBSET {} |-> IF s = {} THEN 0 ELSE f[First(s)] + g[s \ {First(s)}]]
    OBVIOUS
  <2>2. Sums(g, f, {})
    BY <2>1 DEF Sums
  <2> QED
    BY <2>2
<1>2. ASSUME NEW s \in SUBSET T, s # {}, \A r \in SUBSET s : r # s => r \in Good
      PROVE  s \in Good
  <2> DEFINE Of(r) == CHOOSE g : Sums(g, f, r)
             Rest(r) == r \ {First(r)}
             g == [r \in SUBSET s |-> IF r = {} THEN 0 ELSE f[First(r)] + Of(Rest(r))[Rest(r)]]
  <2>1. \A r \in SUBSET s : r # s => Sums(Of(r), f, r)
    BY <1>2
  <2>2. \A r \in SUBSET s : r # {} => Rest(r) \in SUBSET s /\ Rest(r) # s /\ Rest(r) \in SUBSET r
    BY FirstIn
  <2>3. ASSUME NEW r \in SUBSET s, r # {} PROVE Of(Rest(r))[Rest(r)] = g[Rest(r)]
    <3> DEFINE q == Rest(r)
    <3>1. q \in SUBSET s /\ q # s /\ Sums(Of(q), f, q)
      BY <2>1, <2>2, <2>3
    <3>2. CASE q = {}
      <4>1. Of(q)[q] = 0
        BY <3>1, <3>2 DEF Sums
      <4>2. g[q] = 0
        BY <3>1, <3>2
      <4> QED
        BY <4>1, <4>2
    <3>3. CASE q # {}
      <4>1. Rest(q) \in SUBSET s /\ Rest(q) # s /\ Rest(q) \in SUBSET q /\ Sums(Of(Rest(q)), f, Rest(q))
        BY <2>1, <2>2, <3>1, <3>3
      <4> HIDE DEF Of
      <4>2. Of(q)[q] = f[First(q)] + Of(q)[Rest(q)]
        <5> HIDE DEF Rest
        <5>1. Of(q) = [x \in SUBSET q |-> IF x = {} THEN 0 ELSE f[First(x)] + Of(q)[x \ {First(x)}]]
          BY <3>1, Zenon DEF Sums
        <5> DEFINE G(x) == IF x = {} THEN 0 ELSE f[First(x)] + Of(q)[x \ {First(x)}]
        <5>2. Of(q)[q] = G(q)
          <6> HIDE DEF q
          <6> QED
            BY <5>1
        <5> QED
          BY <3>3, <5>2 DEF Rest
      <4>3. Of(Rest(q))[Rest(q)] = Of(q)[Rest(q)]
        <5>1. IsFiniteSet(Rest(q))
          <6>1. Rest(q) \subseteq T
            BY <3>1, <4>1
          <6> QED
            BY <6>1, FS_Subset
        <5> DEFINE u == Rest(q)
                   v == Of(u)
                   w == Of(q)
        <5>2. /\ IsFiniteSet(u) /\ u \subseteq q /\ u \in SUBSET u
              /\ Sums(v, f, u) /\ Sums(w, f, q)
          BY <3>1, <4>1, <5>1
        <5> HIDE DEF u, v, w, q
        <5>3. v[u] = w[u]
          BY <5>2, SumsAgree
        <5> QED
          BY <5>3 DEF u, v, w
      <4>4. g[q] = f[First(q)] + Of(Rest(q))[Rest(q)]
        <5> HIDE DEF q
        <5> QED
          BY <3>1, <3>3
      <4> QED
        BY <4>2, <4>3, <4>4, Zenon
    <3> QED
      BY <3>2, <3>3
  <2>4. g = [r \in SUBSET s |-> IF r = {} THEN 0 ELSE f[First(r)] + g[Rest(r)]]
    <3> HIDE DEF Of, Rest
    <3>1. DOMAIN g = SUBSET s
      OBVIOUS
    <3>2. \A r \in SUBSET s : g[r] = IF r = {} THEN 0 ELSE f[First(r)] + g[Rest(r)]
      <4> SUFFICES ASSUME NEW r \in SUBSET s
                   PROVE  g[r] = IF r = {} THEN 0 ELSE f[First(r)] + g[Rest(r)]
        OBVIOUS
      <4>1. g[r] = IF r = {} THEN 0 ELSE f[First(r)] + Of(Rest(r))[Rest(r)]
        OBVIOUS
      <4>2. r # {} => Of(Rest(r))[Rest(r)] = g[Rest(r)]
        BY <2>3
      <4> HIDE DEF g
      <4> QED
        BY <4>1, <4>2
    <3>3. g = [r \in SUBSET s |-> g[r]]
      OBVIOUS
    <3> HIDE DEF g
    <3> QED
      BY <3>2, <3>3
  <2>5. Sums(g, f, s)
    <3> HIDE DEF g
    <3> QED
      BY <2>4 DEF Sums
  <2> QED
    BY <2>5
<1>3. SUBSET T \subseteq Good
  <2> HIDE DEF Good
  <2> QED
    BY <1>1, <1>2, SmallerFirst
<1> QED
  BY <1>3

\* The sum lies between as many times the least and the greatest value.
LEMMA SumBounds ==
    ASSUME NEW f, IsFiniteSet(DOMAIN f), NEW low \in Int, NEW high \in Int,
           \A x \in DOMAIN f : f[x] \in Int /\ low <= f[x] /\ f[x] <= high
    PROVE  /\ SumFunction(f) \in Int
           /\ low * Cardinality(DOMAIN f) <= SumFunction(f)
           /\ SumFunction(f) <= high * Cardinality(DOMAIN f)
<1> DEFINE T == DOMAIN f
<1>1. PICK g : Sums(g, f, T) /\ SumFunction(f) = g[T]
  <2>1. PICK h : Sums(h, f, T)
    BY SumsExists
  <2> QED
    BY <2>1 DEF SumFunction, SumFunctionOnSet, FoldFunctionOnSet, MapThenFoldSet, Sums, First
<1>2. \A s \in SUBSET T : g[s] = IF s = {} THEN 0 ELSE f[First(s)] + g[s \ {First(s)}]
  BY <1>1 DEF Sums
<1> DEFINE Good == {s \in SUBSET T : /\ g[s] \in Int
                                     /\ low * Cardinality(s) <= g[s]
                                     /\ g[s] <= high * Cardinality(s)}
<1>3. {} \in Good
  <2>1. Cardinality({}) = 0 /\ g[{}] = 0
    BY <1>2, FS_EmptySet
  <2> QED
    BY <2>1
<1>4. ASSUME NEW s \in SUBSET T, s # {}, \A r \in SUBSET s : r # s => r \in Good
      PROVE  s \in Good
  <2> DEFINE x == First(s)
             r == s \ {x}
  <2>1. x \in s /\ x \in DOMAIN f
    BY <1>4, FirstIn
  <2>2. r \in Good
    BY <1>4, <2>1
  <2>3. IsFiniteSet(s) /\ Cardinality(r) = Cardinality(s) - 1 /\ Cardinality(s) \in Nat
    BY <2>1, FS_Subset, FS_CardinalityType, FS_RemoveElement
  <2>4. g[s] = f[x] + g[r]
    BY <1>2, <1>4
  <2>5. f[x] \in Int /\ low <= f[x] /\ f[x] <= high
    BY <2>1
  <2> DEFINE a == g[r]
             n == Cardinality(s)
             v == f[x]
  <2>6. a \in Int /\ low * (n - 1) <= a /\ a <= high * (n - 1)
    BY <2>2, <2>3
  <2>7. low * (n - 1) = low * n - low /\ high * (n - 1) = high * n - high
        /\ low * n \in Int /\ high * n \in Int
    <3> HIDE DEF n
    <3>1. n \in Int
      BY <2>3 DEF n
    <3> QED
      BY <3>1
  <2>8. v + a \in Int /\ low * n <= v + a /\ v + a <= high * n
    <3> DEFINE p == low * n
               q == high * n
    <3>1. p \in Int /\ q \in Int /\ p - low <= a /\ a <= q - high /\ v \in Int /\ a \in Int
          /\ low <= v /\ v <= high
      BY <2>5, <2>6, <2>7
    <3> HIDE DEF p, q, a, v, n
    <3>2. v + a \in Int /\ p <= v + a /\ v + a <= q
      BY <3>1
    <3> QED
      BY <3>2 DEF p, q
  <2> QED
    BY <2>4, <2>8
<1>5. SUBSET T \subseteq Good
  <2> HIDE DEF Good, T
  <2>1. IsFiniteSet(T)
    BY DEF T
  <2> QED
    BY <1>3, <1>4, <2>1, SmallerFirst
<1>6. T \in Good
  BY <1>5
<1> QED
  BY <1>1, <1>6

=============================================================================
