--------------------------- MODULE PicamNodeProofs ---------------------------
(* Theorems about PicamNode, for every number of broadcasts and copies, and  *)
(* every cache that has room for the ids of a window: the dedupe cache, the  *)
(* camera and its lock, and last the types and the frame on the card.        *)
EXTENDS PicamNode, SequenceTheorems, FiniteSetTheorems, TLAPS

-----------------------------------------------------------------------------
(* The dedupe cache *)

NetType ==
    /\ sent \in 0 .. MaxMessages
    /\ copies \in [Ids -> Nat]
    /\ runs \in [Ids -> Nat]
    /\ seen \in Seq(Ids)

\* Copies are on their way for Window broadcasts.
InWindow == \A i \in Ids : copies[i] > 0 => i <= sent /\ sent < i + Window

SeenSent == \A k \in 1 .. Len(seen) : seen[k] <= sent

\* What was taken later cannot have been sent much earlier.
Spread(q) == \A k, l \in 1 .. Len(q) : k < l => q[k] # q[l] /\ q[k] < q[l] + Window

RanOnce == \A i \in Ids : runs[i] <= 1 /\ (runs[i] > 0 => i <= sent)

Remembers(q, i) == \E k \in 1 .. Len(q) : q[k] = i

\* The cache holds what was carried out as long as a copy of it is left.
Remembered == \A i \in Ids : runs[i] > 0 /\ copies[i] > 0 => Remembers(seen, i)

NetInv == NetType /\ InWindow /\ SeenSent /\ Spread(seen) /\ RanOnce /\ Remembered

LEMMA IdsAreNumbers == \A i \in Ids : i \in Nat /\ i >= 1
BY BoundsAssumption DEF Ids

LEMMA CacheFacts ==
    /\ Window \in Nat /\ Window >= 1 /\ 2 * Window = Window + Window
    /\ CacheSize \in Nat /\ CacheSize >= 2 * Window - 1 /\ CacheSize >= 1
BY CacheAssumption

LEMMA SeqElements == \A q \in Seq(Ids) : Len(q) \in Nat /\ \A k \in 1 .. Len(q) : q[k] \in Ids
BY LenProperties, ElementOfSeq

\* Ids that are within a window of the first, on both sides, and all different
\* have places in the cache.
LEMMA WindowFits ==
    ASSUME NEW q \in Seq(Ids), Spread(q), Len(q) > 0, NEW s \in Nat,
           \A k \in 1 .. Len(q) : q[k] <= s,
           s < q[1] + Window
    PROVE  Len(q) <= CacheSize
<1> DEFINE low == q[1] - Window + 1
           high == q[1] + Window - 1
<1>1. q[1] \in Nat /\ Len(q) \in Nat
  BY SeqElements, IdsAreNumbers
<1>2. /\ low \in Int /\ high \in Int /\ low <= high
      /\ high - low + 1 = 2 * Window - 1
  <2>1. Window \in Nat /\ Window >= 1 /\ 2 * Window = Window + Window
      BY CacheFacts
  <2>2. \A h, w \in Nat : w >= 1 =>
           /\ h - w + 1 \in Int /\ h + w - 1 \in Int
           /\ h - w + 1 <= h + w - 1
           /\ (h + w - 1) - (h - w + 1) + 1 = w + w - 1
      OBVIOUS
  <2> HIDE DEF low, high
  <2>3. /\ low = q[1] - Window + 1
        /\ high = q[1] + Window - 1
      BY DEF low, high
  <2>4. /\ q[1] - Window + 1 \in Int /\ q[1] + Window - 1 \in Int
        /\ q[1] - Window + 1 <= q[1] + Window - 1
        /\ (q[1] + Window - 1) - (q[1] - Window + 1) + 1 = Window + Window - 1
      BY <1>1, <2>1, <2>2, Zenon
  <2>5. low \in Int /\ high \in Int /\ low <= high
      BY <2>3, <2>4, Zenon
  <2>6. high - low + 1 = Window + Window - 1
      BY <2>3, <2>4, Zenon
  <2>7. high - low + 1 = 2 * Window - 1
      BY <2>1, <2>6, SMTT(30)
  <2> QED
      BY <2>5, <2>7
<1>3. \A k \in 1 .. Len(q) : q[k] \in low .. high
  <2> SUFFICES ASSUME NEW k \in 1 .. Len(q) PROVE q[k] \in low .. high
      OBVIOUS
  <2>1. q[k] \in Nat
      BY SeqElements, IdsAreNumbers
  <2>2. q[k] <= high
      BY <1>1, <2>1, CacheFacts
  <2>3. q[k] >= low
    <3>1. CASE k = 1
        BY <3>1, <1>1, CacheFacts
    <3>2. CASE k # 1
      <4>1. 1 \in 1 .. Len(q) /\ 1 < k
          BY <1>1, <3>2
      <4>2. q[1] < q[k] + Window
          BY <4>1 DEF Spread
      <4> QED
          BY <4>2, <1>1, <2>1, CacheFacts
    <3> QED
        BY <3>1, <3>2
  <2> QED
      BY <2>1, <2>2, <2>3, <1>2
<1>4. \A k, l \in 1 .. Len(q) : q[k] = q[l] => k = l
  <2> SUFFICES ASSUME NEW k \in 1 .. Len(q), NEW l \in 1 .. Len(q), q[k] = q[l], k # l
               PROVE  FALSE
      OBVIOUS
  <2>1. CASE k < l
      BY <2>1 DEF Spread
  <2>2. CASE l < k
      BY <2>2 DEF Spread
  <2> QED
      BY <2>1, <2>2, <1>1
<1>5. [k \in 1 .. Len(q) |-> q[k]] \in Injection(1 .. Len(q), low .. high)
  BY <1>3, <1>4 DEF Injection, IsInjective
<1>6. IsFiniteSet(low .. high) /\ Cardinality(low .. high) = 2 * Window - 1
  <2> HIDE DEF low, high
  <2>1. /\ IsFiniteSet(low .. high)
        /\ Cardinality(low .. high) = IF low > high THEN 0 ELSE high - low + 1
      BY <1>2, FS_Interval
  <2> QED
      BY <2>1, <1>2
<1>7. Cardinality(1 .. Len(q)) = Len(q)
  <2>1. Cardinality(1 .. Len(q)) = IF 1 > Len(q) THEN 0 ELSE Len(q) - 1 + 1
      BY <1>1, FS_Interval
  <2> QED
      BY <2>1, <1>1
<1>8. Cardinality(1 .. Len(q)) <= Cardinality(low .. high)
  BY <1>5, <1>6, FS_Injection
<1> QED
  BY <1>6, <1>7, <1>8, <1>1, CacheFacts

LEMMA UnexpiredKeeps ==
    ASSUME NetInv, NEW n \in 0 .. Len(seen), Expired(n)
    PROVE  /\ Unexpired(n) \in Seq(Ids)
           /\ Len(Unexpired(n)) = Len(seen) - n
           /\ \A k \in 1 .. Len(Unexpired(n)) : Unexpired(n)[k] = seen[n + k]
           /\ \A j \in Ids : copies[j] > 0 /\ Remembers(seen, j) => Remembers(Unexpired(n), j)
<1> USE DEF NetInv, NetType
<1>1. Len(seen) \in Nat /\ n \in Nat /\ n <= Len(seen)
  BY LenProperties
<1>2. \A k \in n + 1 .. Len(seen) : seen[k] \in Ids
  BY <1>1, SeqElements
<1>3. /\ Unexpired(n) \in Seq(Ids)
      /\ Len(Unexpired(n)) = IF n + 1 <= Len(seen) THEN Len(seen) - (n + 1) + 1 ELSE 0
      /\ \A k \in 1 .. Len(seen) - (n + 1) + 1 : Unexpired(n)[k] = seen[(n + 1) + k - 1]
  BY <1>1, <1>2, SubSeqProperties DEF Unexpired
<1>4. Len(Unexpired(n)) = Len(seen) - n
  BY <1>1, <1>3
<1>5. \A k \in 1 .. Len(Unexpired(n)) : Unexpired(n)[k] = seen[n + k]
  <2> SUFFICES ASSUME NEW k \in 1 .. Len(seen) - n PROVE Unexpired(n)[k] = seen[n + k]
      BY <1>4
  <2>1. k \in 1 .. Len(seen) - (n + 1) + 1 /\ (n + 1) + k - 1 = n + k
      BY <1>1
  <2> QED
      BY <2>1, <1>3
<1>6. \A j \in Ids : copies[j] > 0 /\ Remembers(seen, j) => Remembers(Unexpired(n), j)
  <2> SUFFICES ASSUME NEW j \in Ids, copies[j] > 0, NEW k \in 1 .. Len(seen), seen[k] = j
               PROVE  Remembers(Unexpired(n), j)
      BY DEF Remembers
  <2>1. ~ (k \in 1 .. n)
    <3> SUFFICES ASSUME k \in 1 .. n PROVE FALSE
        OBVIOUS
    <3>1. copies[seen[k]] = 0
        BY DEF Expired
    <3> QED
        BY <3>1
  <2>2. k - n \in 1 .. Len(Unexpired(n)) /\ n + (k - n) = k
      BY <2>1, <1>1, <1>4
  <2> QED
      BY <2>2, <1>5 DEF Remembers
<1> QED
  BY <1>3, <1>4, <1>5, <1>6

\* The cache after a new broadcast has been added to what has not expired.
LEMMA AddKeeps ==
    ASSUME NetInv, NEW i \in Ids, copies[i] > 0,
           NEW n \in 0 .. Len(seen), Expired(n),
           \A k \in DOMAIN Unexpired(n) : Unexpired(n)[k] # i,
           NEW q, q = Evict(Append(Unexpired(n), i))
    PROVE  /\ q \in Seq(Ids)
           /\ Spread(q)
           /\ \A k \in 1 .. Len(q) : q[k] <= sent
           /\ \A j \in Ids : copies[j] > 0 /\ (j = i \/ Remembers(seen, j)) => Remembers(q, j)
<1> DEFINE u == Unexpired(n)
           a == Append(u, i)
<1> USE DEF NetInv, NetType
<1>0. i <= sent /\ sent < i + Window /\ sent \in Nat /\ Window \in Nat
  BY BoundsAssumption, CacheFacts DEF InWindow
<1>1. /\ u \in Seq(Ids) /\ Len(u) \in Nat
      /\ Len(u) = Len(seen) - n
      /\ \A k \in 1 .. Len(u) : u[k] = seen[n + k] /\ n + k \in 1 .. Len(seen)
      /\ \A j \in Ids : copies[j] > 0 /\ Remembers(seen, j) => Remembers(u, j)
  BY UnexpiredKeeps, LenProperties
<1> HIDE DEF u
<1>2. /\ a \in Seq(Ids) /\ Len(a) = Len(u) + 1
      /\ \A k \in 1 .. Len(u) : a[k] = u[k]
      /\ a[Len(u) + 1] = i
  BY <1>1, AppendProperties
<1>9. Len(u) \in Nat /\ Len(a) = Len(u) + 1
  BY <1>1, <1>2
<1> HIDE DEF a
<1>3. \A k \in 1 .. Len(u) : u[k] # i /\ u[k] \in Ids
  BY <1>1, SeqElements, LenProperties DEF u
<1>4. \A k \in 1 .. Len(a) : a[k] <= sent /\ a[k] \in Ids
  <2> SUFFICES ASSUME NEW k \in 1 .. Len(a) PROVE a[k] <= sent /\ a[k] \in Ids
      OBVIOUS
  <2>1. CASE k = Len(u) + 1
      BY <2>1, <1>2, <1>0
  <2>2. CASE k \in 1 .. Len(u)
      BY <2>2, <1>1, <1>2, <1>3 DEF SeenSent
  <2>3. k = Len(u) + 1 \/ k \in 1 .. Len(u)
      BY <1>9
  <2> QED
      BY <2>1, <2>2, <2>3
<1>5. Spread(a)
  <2> SUFFICES ASSUME NEW k \in 1 .. Len(a), NEW l \in 1 .. Len(a), k < l
               PROVE  a[k] # a[l] /\ a[k] < a[l] + Window
      BY DEF Spread
  <2>1. k \in 1 .. Len(u)
      BY <1>1, <1>2
  <2>2. CASE l = Len(u) + 1
    <3>1. a[k] <= sent /\ a[k] \in Ids
        BY <1>4
    <3>2. a[l] = i /\ a[k] # i
        BY <2>1, <2>2, <1>2, <1>3
    <3>3. a[k] \in Nat /\ i \in Nat
        BY <3>1, IdsAreNumbers
    <3> QED
        BY <3>1, <3>2, <3>3, <1>0
  <2>3. CASE l \in 1 .. Len(u)
    <3>1. n + k \in 1 .. Len(seen) /\ n + l \in 1 .. Len(seen) /\ n + k < n + l
        BY <2>1, <2>3, <1>1
    <3>2. seen[n + k] # seen[n + l] /\ seen[n + k] < seen[n + l] + Window
        BY <3>1 DEF Spread
    <3>3. a[k] = seen[n + k]
        BY <2>1, <1>1, <1>2
    <3>4. a[l] = seen[n + l]
        BY <2>3, <1>1, <1>2
    <3> HIDE DEF NetInv, NetType
    <3> QED
        BY <3>2, <3>3, <3>4, Zenon
  <2>4. l = Len(u) + 1 \/ l \in 1 .. Len(u)
    <3>1. Len(a) = Len(u) + 1
        BY <1>9
    <3>2. l \in 1 .. Len(u) + 1
        BY <3>1, Zenon
    <3> QED
        BY <3>2, <1>9, SMTT(30)
  <2> QED
      BY <2>2, <2>3, <2>4
<1>6. \A j \in Ids : copies[j] > 0 /\ (j = i \/ Remembers(seen, j)) => Remembers(a, j)
  <2> SUFFICES ASSUME NEW j \in Ids, copies[j] > 0, j = i \/ Remembers(seen, j)
               PROVE  Remembers(a, j)
      OBVIOUS
  <2>1. CASE j = i
    <3>1. Len(u) + 1 \in 1 .. Len(a)
        BY <1>1, <1>2
    <3> QED
        BY <2>1, <3>1, <1>2 DEF Remembers
  <2>2. CASE Remembers(seen, j)
    <3>1. PICK k \in 1 .. Len(u) : u[k] = j
        BY <2>2, <1>1 DEF Remembers
    <3>2. k \in 1 .. Len(a)
        BY <1>1, <1>2
    <3> QED
        BY <3>1, <3>2, <1>2 DEF Remembers
  <2> QED
      BY <2>1, <2>2
<1>7. CASE Len(a) <= CacheSize
  <2>1. q = a
      BY <1>7, <1>1, <1>2, CacheFacts DEF Evict, a, u
  <2> QED
      BY <2>1, <1>2, <1>4, <1>5, <1>6
<1>8. CASE Len(a) > CacheSize
  <2>1. q = Tail(a)
      BY <1>8 DEF Evict, a, u
  <2>2. Len(a) \in Nat /\ Len(a) > 0 /\ a # << >>
      BY <1>1, <1>2, EmptySeq
  <2>3. /\ q \in Seq(Ids) /\ Len(q) = Len(a) - 1
        /\ \A k \in 1 .. Len(q) : q[k] = a[k + 1]
      BY <2>1, <2>2, <1>2, HeadTailProperties
  <2>4. \A k \in 1 .. Len(q) : k + 1 \in 1 .. Len(a)
      BY <2>2, <2>3
  <2>5. Spread(q)
    <3> SUFFICES ASSUME NEW k \in 1 .. Len(q), NEW l \in 1 .. Len(q), k < l
                 PROVE  q[k] # q[l] /\ q[k] < q[l] + Window
        BY DEF Spread
    <3>1. k + 1 \in 1 .. Len(a) /\ l + 1 \in 1 .. Len(a) /\ k + 1 < l + 1
        BY <2>4
    <3>2. a[k + 1] # a[l + 1] /\ a[k + 1] < a[l + 1] + Window
        BY <3>1, <1>5 DEF Spread
    <3> QED
        BY <3>2, <2>3
  <2>6. ~ (sent < a[1] + Window)
    <3> SUFFICES ASSUME sent < a[1] + Window PROVE FALSE
        OBVIOUS
    <3>1. \A k \in 1 .. Len(a) : a[k] <= sent
        BY <1>4
    <3>2. Len(a) <= CacheSize
        BY <3>1, <1>0, <1>2, <1>5, <2>2, WindowFits
    <3> QED
        BY <3>2, <1>8, <2>2, CacheFacts
  <2>7. copies[a[1]] = 0
    <3>1. a[1] \in Ids
        BY <2>2, <1>4
    <3> QED
        BY <3>1, <2>6 DEF InWindow
  <2>8. \A j \in Ids : copies[j] > 0 /\ Remembers(a, j) => Remembers(q, j)
    <3> SUFFICES ASSUME NEW j \in Ids, copies[j] > 0, NEW k \in 1 .. Len(a), a[k] = j
                 PROVE  Remembers(q, j)
        BY DEF Remembers
    <3>1. k # 1
        BY <2>7
    <3>2. k - 1 \in 1 .. Len(q) /\ (k - 1) + 1 = k
        BY <3>1, <2>2, <2>3
    <3> QED
        BY <3>2, <2>3 DEF Remembers
  <2> QED
      BY <2>3, <2>4, <2>5, <2>8, <1>4, <1>6
<1> QED
  BY <1>7, <1>8, <1>1, <1>2, CacheFacts

LEMMA NetInitially == Init => NetInv
<1> SUFFICES ASSUME Init PROVE NetInv
    OBVIOUS
<1>1. seen = << >> /\ Len(seen) = 0 /\ seen \in Seq(Ids)
    BY EmptySeq DEF Init
<1>2. NetType
    BY <1>1, BoundsAssumption DEF Init, NetType
<1>3. InWindow /\ RanOnce /\ Remembered
    BY DEF Init, InWindow, RanOnce, Remembered
<1>4. SeenSent /\ Spread(seen)
    BY <1>1 DEF SeenSent, Spread
<1> QED
    BY <1>2, <1>3, <1>4 DEF NetInv

\* Only the copies that are left matter, so that losing them keeps it.
LEMMA FewerCopies ==
    ASSUME NetInv, copies' \in [Ids -> Nat],
           \A j \in Ids : copies'[j] > 0 => copies[j] > 0,
           UNCHANGED <<sent, seen, runs>>
    PROVE  NetInv'
<1> USE DEF NetInv
<1>1. NetType'
    BY DEF NetType
<1>2. InWindow' /\ RanOnce' /\ Remembered'
    BY DEF InWindow, RanOnce, Remembered, Remembers
<1>3. SeenSent' /\ Spread(seen)'
    BY DEF SeenSent, Spread
<1> QED
    BY <1>1, <1>2, <1>3

LEMMA SendKeeps ==
    ASSUME NetInv, Send
    PROVE  NetInv'
<1> USE DEF NetInv
<1>1. PICK c \in 1 .. Copies : copies' = [copies EXCEPT ![sent + 1] = c]
    BY DEF Send
<1>2. /\ sent' = sent + 1 /\ sent < MaxMessages
      /\ seen' = seen /\ runs' = runs
      /\ \A i \in 1 .. sent + 1 - Window : copies[i] = 0
    BY DEF Send
<1>3. sent \in Nat /\ MaxMessages \in Nat /\ c \in Nat /\ sent + 1 \in Ids /\ sent' \in 0 .. MaxMessages
    BY <1>1, <1>2, BoundsAssumption DEF NetType, Ids
<1>4. NetType'
    BY <1>1, <1>2, <1>3 DEF NetType
<1>5. InWindow'
  <2> SUFFICES ASSUME NEW i \in Ids, copies'[i] > 0
               PROVE  i <= sent + 1 /\ sent + 1 < i + Window
      BY <1>2 DEF InWindow
  <2>1. i \in Nat /\ i >= 1 /\ Window \in Nat /\ Window >= 1
      BY IdsAreNumbers, CacheFacts
  <2>2. CASE i = sent + 1
      BY <2>1, <2>2, <1>3
  <2>3. CASE i # sent + 1
    <3>1. copies[i] > 0
        BY <2>3, <1>1, <1>3 DEF NetType
    <3>2. i <= sent /\ sent < i + Window
        BY <3>1 DEF InWindow
    <3>3. ~ (i \in 1 .. sent + 1 - Window)
      <4> SUFFICES ASSUME i \in 1 .. sent + 1 - Window PROVE FALSE
          OBVIOUS
      <4>1. copies[i] = 0
          BY <1>2
      <4> QED
          BY <4>1, <3>1
    <3> QED
        BY <3>2, <3>3, <2>1, <1>3
  <2> QED
      BY <2>2, <2>3
<1>6. SeenSent'
  <2> SUFFICES ASSUME NEW k \in 1 .. Len(seen) PROVE seen[k] <= sent + 1
      BY <1>2 DEF SeenSent
  <2>1. seen[k] <= sent /\ seen[k] \in Nat
      BY SeqElements, IdsAreNumbers DEF SeenSent, NetType
  <2> QED
      BY <2>1, <1>3
<1>7. Spread(seen)'
    BY <1>2 DEF Spread
<1>8. RanOnce'
  <2> SUFFICES ASSUME NEW i \in Ids PROVE runs[i] <= 1 /\ (runs[i] > 0 => i <= sent + 1)
      BY <1>2 DEF RanOnce
  <2>1. runs[i] <= 1 /\ (runs[i] > 0 => i <= sent) /\ i \in Nat
      BY IdsAreNumbers DEF RanOnce
  <2> QED
      BY <2>1, <1>3
<1>9. Remembered'
  <2> SUFFICES ASSUME NEW i \in Ids, runs[i] > 0, copies'[i] > 0 PROVE Remembers(seen, i)
      BY <1>2 DEF Remembered, Remembers
  <2>1. i # sent + 1
      BY <1>3, IdsAreNumbers DEF RanOnce
  <2>2. copies[i] > 0
      BY <2>1, <1>1, <1>3 DEF NetType
  <2> QED
      BY <2>2 DEF Remembered
<1> QED
    BY <1>4, <1>5, <1>6, <1>7, <1>8, <1>9

\* What the loop takes as new has not been carried out.
LEMMA NewIsNew ==
    ASSUME NetInv, NEW i \in Ids, Take(i, TRUE)
    PROVE  runs[i] = 0
<1>1. PICK n \in 0 .. Len(seen) :
        Expired(n) /\ (\A k \in DOMAIN Unexpired(n) : Unexpired(n)[k] # i)
    BY DEF Take
<1>2. copies[i] > 0
    BY DEF Take
<1>3. Unexpired(n) \in Seq(Ids) /\ (Remembers(seen, i) => Remembers(Unexpired(n), i))
    BY <1>1, <1>2, UnexpiredKeeps
<1>4. ~ Remembers(Unexpired(n), i)
    BY <1>1, <1>3, LenProperties DEF Remembers
<1>5. ~ (runs[i] > 0) /\ runs[i] \in Nat
    BY <1>2, <1>3, <1>4 DEF NetInv, NetType, Remembered
<1> QED
    BY <1>5

LEMMA TakeKeeps ==
    ASSUME NetInv, NEW i \in Ids, NEW isNew \in BOOLEAN, Take(i, isNew)
    PROVE  NetInv'
<1> USE DEF NetInv
<1>1. PICK n \in 0 .. Len(seen) :
        /\ Expired(n)
        /\ isNew = (\A k \in DOMAIN Unexpired(n) : Unexpired(n)[k] # i)
        /\ seen' = IF isNew THEN Evict(Append(Unexpired(n), i)) ELSE Unexpired(n)
    BY DEF Take
<1>2. /\ copies[i] > 0
      /\ copies' = [copies EXCEPT ![i] = @ - 1]
      /\ runs' = IF isNew THEN [runs EXCEPT ![i] = @ + 1] ELSE runs
      /\ sent' = sent
    BY DEF Take
<1>3. /\ copies' \in [Ids -> Nat]
      /\ \A j \in Ids : copies'[j] > 0 => copies[j] > 0
  <2>1. copies[i] \in Nat /\ copies[i] - 1 \in Nat
      BY <1>2 DEF NetType
  <2> QED
      BY <1>2, <2>1 DEF NetType
<1>4. i <= sent
    BY <1>2 DEF InWindow
<1>5. InWindow'
    BY <1>2, <1>3 DEF InWindow
<1>6. CASE isNew
  <2>1. runs[i] = 0
      BY <1>6, NewIsNew
  <2>2. /\ runs' \in [Ids -> Nat] /\ RanOnce'
        /\ \A j \in Ids : runs'[j] > 0 => j = i \/ runs[j] > 0
      BY <2>1, <1>2, <1>4, <1>6 DEF NetType, RanOnce
  <2>3. \A k \in DOMAIN Unexpired(n) : Unexpired(n)[k] # i
      BY <1>1, <1>6
  <2>4. seen' = Evict(Append(Unexpired(n), i))
      BY <1>1, <1>6
  <2>5. /\ seen' \in Seq(Ids)
        /\ Spread(seen')
        /\ \A k \in 1 .. Len(seen') : seen'[k] <= sent
        /\ \A j \in Ids : copies[j] > 0 /\ (j = i \/ Remembers(seen, j)) => Remembers(seen', j)
      BY <1>1, <1>2, <2>3, <2>4, AddKeeps
  <2>6. NetType' /\ SeenSent'
      BY <1>2, <1>3, <2>2, <2>5 DEF NetType, SeenSent
  <2>7. Spread(seen)'
      BY <2>5 DEF Spread
  <2>8. Remembered'
      BY <1>3, <2>2, <2>5 DEF Remembered, Remembers
  <2> QED
      BY <1>5, <2>2, <2>6, <2>7, <2>8
<1>7. CASE ~ isNew
  <2>1. seen' = Unexpired(n) /\ runs' = runs
      BY <1>1, <1>2, <1>7
  <2>2. /\ seen' \in Seq(Ids) /\ Len(seen') = Len(seen) - n
        /\ \A k \in 1 .. Len(seen') : seen'[k] = seen[n + k]
        /\ \A j \in Ids : copies[j] > 0 /\ Remembers(seen, j) => Remembers(seen', j)
      BY <1>1, <2>1, UnexpiredKeeps
  <2>3. \A k \in 1 .. Len(seen') : n + k \in 1 .. Len(seen) /\ Len(seen) \in Nat /\ n \in Nat
      BY <2>2, LenProperties DEF NetType
  <2>4. NetType'
      BY <1>2, <1>3, <2>1, <2>2 DEF NetType
  <2>5. SeenSent'
      BY <1>2, <2>2, <2>3 DEF SeenSent
  <2>6. Spread(seen)'
    <3> SUFFICES ASSUME NEW k \in 1 .. Len(seen'), NEW l \in 1 .. Len(seen'), k < l
                 PROVE  seen'[k] # seen'[l] /\ seen'[k] < seen'[l] + Window
        BY DEF Spread
    <3>1. n + k \in 1 .. Len(seen) /\ n + l \in 1 .. Len(seen) /\ n + k < n + l
        BY <2>3
    <3>2. seen[n + k] # seen[n + l] /\ seen[n + k] < seen[n + l] + Window
        BY <3>1 DEF Spread
    <3> QED
        BY <3>2, <2>2
  <2>7. RanOnce'
      BY <1>2, <2>1 DEF RanOnce
  <2>8. Remembered'
      BY <1>3, <2>1, <2>2 DEF Remembered
  <2> QED
      BY <1>5, <2>4, <2>5, <2>6, <2>7, <2>8
<1> QED
    BY <1>6, <1>7

LEMMA BootForgets ==
    ASSUME NetInv, Boot
    PROVE  NetInv'
<1> USE DEF NetInv
<1>1. seen' = << >> /\ Len(seen') = 0 /\ seen' \in Seq(Ids)
    BY EmptySeq DEF Boot
<1>2. copies' = [j \in Ids |-> 0] /\ sent' = sent /\ runs' = runs
    BY DEF Boot
<1>3. NetType'
    BY <1>1, <1>2 DEF NetType
<1>4. InWindow' /\ RanOnce' /\ Remembered'
    BY <1>2 DEF InWindow, RanOnce, Remembered
<1>5. SeenSent' /\ Spread(seen)'
    BY <1>1 DEF SeenSent, Spread
<1> QED
    BY <1>3, <1>4, <1>5

-----------------------------------------------------------------------------
(* The camera and its lock *)

UsesCamera(i) == task[i].pc \in {"settle", "expose", "write"}

\* Who uses the camera holds its lock.
Locked == \A i \in Ids : UsesCamera(i) => lock = i

\* A Pi that is down runs nothing.
Down == ~ up => \A i \in Ids : task[i].pc \in {"none", "captured", "ended"}

CameraIsRecord ==
    camera = [on |-> camera.on, resolution |-> camera.resolution, controls |-> camera.controls]

\* Only a reopen that raised leaves another resolution or a stopped camera.
Streams == up /\ raised # "pipeline" => camera.on = TRUE /\ camera.resolution = settings.resolution

\* Only a METER, running or failed, leaves other controls.
Fixed ==
    up /\ raised = "nothing" /\ (\A i \in Ids : task[i].pc # "settle")
      => camera.controls = settings

CameraInv ==
    /\ task \in [Ids -> Task]
    /\ Locked
    /\ Down
    /\ CameraIsRecord
    /\ Streams
    /\ Fixed

\* Nothing runs for a broadcast that has not been carried out.
Fresh == \A i \in Ids : task[i].pc # "none" => runs[i] > 0

\* The inductive invariant.
Inv == NetInv /\ Fresh /\ CameraInv

LEMMA InvGivesFixedExposure == CameraInv => FixedExposure
<1> SUFFICES ASSUME CameraInv, NEW i \in Ids, task[i].pc = "expose", raised = "nothing"
             PROVE  camera = Opened(settings)
    BY DEF FixedExposure
<1>1. lock = i
    BY DEF CameraInv, Locked, UsesCamera
<1>2. up
    BY DEF CameraInv, Down
<1>3. \A j \in Ids : task[j].pc # "settle"
  <2> SUFFICES ASSUME NEW j \in Ids, task[j].pc = "settle" PROVE FALSE
      OBVIOUS
  <2>1. j = i
      BY <1>1 DEF CameraInv, Locked, UsesCamera
  <2> QED
      BY <2>1
<1> QED
    BY <1>2, <1>3 DEF CameraInv, CameraIsRecord, Streams, Fixed, Opened

LEMMA InvGivesWarm == CameraInv => Warm
<1> SUFFICES ASSUME CameraInv, up, lock = Nobody, raised = "nothing"
             PROVE  camera = Opened(settings)
    BY DEF Warm
<1>1. \A j \in Ids : task[j].pc # "settle"
    BY BoundsAssumption DEF CameraInv, Locked, UsesCamera, Nobody, Ids
<1> QED
    BY <1>1 DEF CameraInv, CameraIsRecord, Streams, Fixed, Opened

LEMMA CameraInitially == Init => CameraInv
<1> SUFFICES ASSUME Init PROVE CameraInv
    OBVIOUS
<1> USE DEF Init
<1>1. task \in [Ids -> Task]
    BY DEF Task
<1>2. Locked /\ Down
    BY DEF Locked, UsesCamera, Down
<1>3. CameraIsRecord /\ Streams /\ Fixed
    BY DEF CameraIsRecord, Streams, Fixed, Opened
<1> QED
    BY <1>1, <1>2, <1>3 DEF CameraInv

-----------------------------------------------------------------------------
(* One lemma for each way a step treats the camera and its lock *)

\* The task of i goes from one place without the camera to another.
LEMMA Elsewhere ==
    ASSUME CameraInv, NEW i \in Ids, up,
           NEW t \in Task, t.pc \notin {"settle", "expose", "write"},
           ~ UsesCamera(i),
           task' = [task EXCEPT ![i] = t],
           UNCHANGED <<lock, cameraVars, up>>
    PROVE  CameraInv'
<1> USE DEF CameraInv, cameraVars
<1>1. task' \in [Ids -> Task]
    OBVIOUS
<1>2. Locked'
    BY DEF Locked, UsesCamera
<1>3. Down'
    BY DEF Down
<1>4. CameraIsRecord' /\ Streams'
    BY DEF CameraIsRecord, Streams
<1>5. Fixed'
    BY DEF Fixed, UsesCamera
<1> QED
    BY <1>1, <1>2, <1>3, <1>4, <1>5

\* Goto and Start, as one task that is replaced.
LEMMA GotoTask ==
    ASSUME task \in [Ids -> Task], NEW i \in Ids,
           NEW pc \in {"settle", "sleep", "due", "expose", "write", "reply", "captured"},
           Goto(i, pc)
    PROVE  \E t \in Task : t.pc = pc /\ task' = [task EXCEPT ![i] = t]
<1> DEFINE t == [pc |-> pc, arg |-> task[i].arg]
<1>1. task[i] \in Task
    OBVIOUS
<1>2. t \in Task /\ t = [task[i] EXCEPT !.pc = pc]
    BY <1>1 DEF Task
<1>3. task' = [task EXCEPT ![i] = [task[i] EXCEPT !.pc = pc]]
    BY DEF Goto
<1> QED
    BY <1>2, <1>3

LEMMA EndTask ==
    ASSUME NEW i \in Ids, End(i)
    PROVE  \E t \in Task : t.pc = "ended" /\ task' = [task EXCEPT ![i] = t]
<1>1. [pc |-> "ended", arg |-> None] \in Task
    BY DEF Task
<1> QED
    BY <1>1 DEF End, Start

\* A step of a thread leaves the socket, the cache and other tasks alone.
LEMMA ThreadKeeps ==
    ASSUME NetInv, Fresh, UNCHANGED netVars, task \in [Ids -> Task],
           NEW i \in Ids, task[i].pc # "none",
           NEW t \in Task, task' = [task EXCEPT ![i] = t]
    PROVE  NetInv' /\ Fresh'
<1>1. NetInv'
  <2>1. copies' = copies /\ sent' = sent /\ seen' = seen /\ runs' = runs
      BY DEF netVars
  <2> QED
      BY <2>1, FewerCopies DEF NetInv, NetType
<1>2. Fresh'
    BY DEF netVars, Fresh
<1> QED
    BY <1>1, <1>2

\* Whoever takes the free lock is the only one who uses the camera.
LEMMA LockTaken ==
    ASSUME CameraInv, NEW i \in Ids, task[i].pc \notin {"none", "captured", "ended"},
           lock = Nobody, lock' = i, NEW t \in Task, task' = [task EXCEPT ![i] = t]
    PROVE  /\ up
           /\ task' \in [Ids -> Task]
           /\ Locked'
           /\ \A j \in Ids : task[j].pc # "settle"
<1> USE DEF CameraInv
<1>1. up
    BY DEF Down
<1>2. task' \in [Ids -> Task]
    OBVIOUS
<1>3. \A j \in Ids : ~ UsesCamera(j)
    BY BoundsAssumption DEF Locked, Nobody, Ids
<1>4. Locked'
    BY <1>3 DEF Locked, UsesCamera
<1> QED
    BY <1>1, <1>2, <1>3, <1>4 DEF UsesCamera

\* Whoever releases it was the only one.
LEMMA LockFreed ==
    ASSUME CameraInv, NEW i \in Ids, UsesCamera(i), Release,
           NEW t \in Task, t.pc \in {"reply", "ended"}, task' = [task EXCEPT ![i] = t]
    PROVE  /\ up
           /\ task' \in [Ids -> Task]
           /\ Locked'
           /\ \A j \in Ids : task'[j].pc # "settle"
           /\ \A j \in Ids : task[j].pc = "settle" => j = i
<1> USE DEF CameraInv
<1>1. up
    BY DEF Down, UsesCamera
<1>2. task' \in [Ids -> Task]
    OBVIOUS
<1>3. \A j \in Ids : UsesCamera(j) => j = i
    BY DEF Locked
<1>4. Locked'
    BY <1>3 DEF Locked, UsesCamera
<1> QED
    BY <1>1, <1>2, <1>3, <1>4 DEF UsesCamera

-----------------------------------------------------------------------------
(* The loop *)

\* A new broadcast starts a task or is answered at once.
LEMMA Started ==
    ASSUME Inv, NEW i \in Ids, Take(i, TRUE),
           NEW t \in Task, t.pc \notin {"settle", "expose", "write"},
           task' = [task EXCEPT ![i] = t],
           UNCHANGED <<lock, cameraVars>>
    PROVE  Inv'
<1> USE DEF Inv
<1>1. NetInv'
    BY TakeKeeps
<1>2. runs[i] = 0
    BY NewIsNew
<1>3. task[i].pc = "none"
    BY <1>2 DEF Fresh
<1>4. /\ up /\ up' = up
      /\ runs' = [runs EXCEPT ![i] = @ + 1]
    BY DEF Take, Receiving
<1>5. runs'[i] = 1 /\ \A j \in Ids : j # i => runs'[j] = runs[j]
    BY <1>2, <1>4 DEF NetInv, NetType
<1>6. Fresh'
  <2> SUFFICES ASSUME NEW j \in Ids, task'[j].pc # "none" PROVE runs'[j] > 0
      BY DEF Fresh
  <2>1. CASE j = i
      BY <2>1, <1>5
  <2>2. CASE j # i
      BY <2>2, <1>5 DEF Fresh, CameraInv
  <2> QED
      BY <2>1, <2>2
<1>7. CameraInv'
  <2>1. ~ UsesCamera(i)
      BY <1>3 DEF UsesCamera
  <2> QED
      BY <2>1, <1>4, Elsewhere
<1> QED
    BY <1>1, <1>6, <1>7

LEMMA DispatchKeeps ==
    ASSUME Inv, NEW i \in Ids, Dispatch(i)
    PROVE  Inv'
<1>1. CASE DropCopy(i)
  <2>1. NetInv'
      BY <1>1, TakeKeeps DEF DropCopy, Inv
  <2>2. /\ UNCHANGED <<task, lock, settings, configured, camera, raised>>
        /\ runs' = runs /\ up' = up
      BY <1>1 DEF DropCopy, Take, cameraVars
  <2>3. Fresh'
      BY <2>2 DEF Inv, Fresh
  <2>4. CameraInv'
      BY <2>2 DEF Inv, CameraInv, Locked, UsesCamera, Down, CameraIsRecord, Streams, Fixed
  <2> QED
      BY <2>1, <2>3, <2>4 DEF Inv
<1>2. CASE Answered(i) \/ Clear(i)
  <2>1. /\ Take(i, TRUE) /\ End(i)
        /\ UNCHANGED <<lock, cameraVars>>
      BY <1>2 DEF Answered, Clear
  <2>2. PICK t \in Task : t.pc = "ended" /\ task' = [task EXCEPT ![i] = t]
      BY <2>1, EndTask
  <2> QED
      BY <2>1, <2>2, Started
<1>3. CASE StartConfigure(i)
  <2>1. Take(i, TRUE) /\ UNCHANGED <<lock, cameraVars>>
      BY <1>3 DEF StartConfigure
  <2>2. PICK s \in Settings : task' = [task EXCEPT ![i] = [pc |-> "configure", arg |-> s]]
      BY <1>3 DEF StartConfigure, Start
  <2>3. [pc |-> "configure", arg |-> s] \in Task
      BY DEF Task
  <2> QED
      BY <2>1, <2>2, <2>3, Started
<1>4. CASE StartMeter(i)
  <2>1. Take(i, TRUE) /\ UNCHANGED <<lock, cameraVars>>
      BY <1>4 DEF StartMeter
  <2>2. task' = [task EXCEPT ![i] = [pc |-> "meter", arg |-> None]]
      BY <1>4 DEF StartMeter, Start
  <2>3. [pc |-> "meter", arg |-> None] \in Task
      BY DEF Task
  <2> QED
      BY <2>1, <2>2, <2>3, Started
<1>5. CASE StartCapture(i)
  <2>1. Take(i, TRUE) /\ UNCHANGED <<lock, cameraVars>>
      BY <1>5 DEF StartCapture
  <2>2. PICK s \in Sessions : task' = [task EXCEPT ![i] = [pc |-> "mkdir", arg |-> s]]
      BY <1>5 DEF StartCapture, Start
  <2>3. [pc |-> "mkdir", arg |-> s] \in Task
      BY DEF Task
  <2> QED
      BY <2>1, <2>2, <2>3, Started
<1>6. CASE StartPower(i)
  <2>1. Take(i, TRUE) /\ UNCHANGED <<lock, cameraVars>>
      BY <1>6 DEF StartPower
  <2>2. task' = [task EXCEPT ![i] = [pc |-> "power", arg |-> None]]
      BY <1>6 DEF StartPower, Start
  <2>3. [pc |-> "power", arg |-> None] \in Task
      BY DEF Task
  <2> QED
      BY <2>1, <2>2, <2>3, Started
<1> QED
    BY <1>1, <1>2, <1>3, <1>4, <1>5, <1>6 DEF Dispatch

-----------------------------------------------------------------------------
(* The threads *)

\* CONFIGURE does not wait inside: it has the lock for one step.
LEMMA ConfigureKeeps ==
    ASSUME Inv, NEW i \in Ids, Configure(i) \/ ConfigureRaises(i)
    PROVE  Inv'
<1> DEFINE s == task[i].arg
<1>1. /\ up /\ task[i].pc = "configure" /\ lock = Nobody /\ End(i)
      /\ settings' = s
      /\ UNCHANGED <<netVars, lock, up>>
    BY DEF Configure, ConfigureRaises
<1>2. PICK t \in Task : t.pc = "ended" /\ task' = [task EXCEPT ![i] = t]
    BY <1>1, EndTask
<1>3. NetInv' /\ Fresh'
    BY <1>1, <1>2, ThreadKeeps DEF Inv, CameraInv
<1>4. task' \in [Ids -> Task] /\ Locked' /\ Down'
    BY <1>1, <1>2 DEF Inv, CameraInv, Locked, UsesCamera, Down
<1>5. CameraIsRecord'
    BY DEF Configure, ConfigureRaises, Inv, CameraInv, CameraIsRecord, Opened
<1>6. Streams'
  <2>1. CASE NeedReopen(s)
      BY <2>1, <1>1 DEF Configure, ConfigureRaises, Streams, Opened
  <2>2. CASE ~ NeedReopen(s)
    <3>1. s.resolution = settings.resolution
        BY <2>2 DEF NeedReopen
    <3>2. camera'.on = camera.on /\ camera'.resolution = camera.resolution
        BY <2>2 DEF Configure, ConfigureRaises, Inv, CameraInv, CameraIsRecord
    <3>3. raised' # "pipeline" => raised # "pipeline"
        BY <2>2 DEF Configure, ConfigureRaises
    <3> QED
        BY <3>1, <3>2, <3>3, <1>1 DEF Inv, CameraInv, Streams
  <2> QED
      BY <2>1, <2>2
<1>7. Fixed'
  <2>1. CASE Configure(i)
      BY <2>1 DEF Configure, Fixed, Opened, Inv, CameraInv, CameraIsRecord
  <2>2. CASE ConfigureRaises(i)
    <3>1. raised' # "nothing"
        BY <2>2 DEF ConfigureRaises
    <3> QED
        BY <3>1 DEF Fixed
  <2> QED
      BY <2>1, <2>2
<1> QED
    BY <1>3, <1>4, <1>5, <1>6, <1>7 DEF Inv, CameraInv

LEMMA MeterBeginKeeps ==
    ASSUME Inv, NEW i \in Ids, MeterBegin(i)
    PROVE  Inv'
<1>1. /\ task[i].pc = "meter" /\ Goto(i, "settle")
      /\ lock = Nobody /\ lock' = i
      /\ camera' = [camera EXCEPT !.controls = AutoExposure]
      /\ UNCHANGED <<netVars, settings, raised, up>>
    BY DEF MeterBegin, MeterAcquire, Acquire
<1>2. PICK t \in Task : t.pc = "settle" /\ task' = [task EXCEPT ![i] = t]
    BY <1>1, GotoTask DEF Inv, CameraInv
<1>3. NetInv' /\ Fresh'
    BY <1>1, <1>2, ThreadKeeps DEF Inv, CameraInv
<1>4. up /\ task' \in [Ids -> Task] /\ Locked'
    BY <1>1, <1>2, LockTaken DEF Inv
<1>5. Down' /\ CameraIsRecord' /\ Streams'
    BY <1>1, <1>4 DEF Inv, CameraInv, Down, CameraIsRecord, Streams
<1>6. Fixed'
  <2>1. task'[i].pc = "settle"
      BY <1>2 DEF Inv, CameraInv
  <2> QED
      BY <2>1 DEF Fixed
<1> QED
    BY <1>3, <1>4, <1>5, <1>6 DEF Inv, CameraInv

LEMMA MeterEndKeeps ==
    ASSUME Inv, NEW i \in Ids, MeterEnd(i) \/ MeterRaises(i)
    PROVE  Inv'
<1>1. /\ task[i].pc = "settle" /\ Release /\ End(i)
      /\ UNCHANGED <<netVars, settings, up>>
    BY DEF MeterEnd, MeterRaises
<1>2. PICK t \in Task : t.pc = "ended" /\ task' = [task EXCEPT ![i] = t]
    BY <1>1, EndTask
<1>3. NetInv' /\ Fresh'
    BY <1>1, <1>2, ThreadKeeps DEF Inv, CameraInv
<1>4. up /\ task' \in [Ids -> Task] /\ Locked'
    BY <1>1, <1>2, LockFreed DEF Inv, UsesCamera
<1>5. Down'
    BY <1>1, <1>4 DEF Down
<1>6. CameraIsRecord' /\ Streams'
  <2>1. \/ camera' = [camera EXCEPT !.controls = settings] /\ raised' = raised
        \/ camera' = camera /\ (raised' # "pipeline" => raised # "pipeline")
      BY DEF MeterEnd, MeterRaises
  <2>2. camera'.on = camera.on /\ camera'.resolution = camera.resolution
      BY <2>1 DEF Inv, CameraInv, CameraIsRecord
  <2>3. Streams'
      BY <2>1, <2>2, <1>1 DEF Inv, CameraInv, Streams
  <2>4. CameraIsRecord'
      BY <2>1 DEF Inv, CameraInv, CameraIsRecord
  <2> QED
      BY <2>3, <2>4
<1>7. Fixed'
  <2>1. CASE MeterEnd(i)
      BY <2>1 DEF MeterEnd, Fixed, Inv, CameraInv, CameraIsRecord
  <2>2. CASE MeterRaises(i)
    <3>1. raised' # "nothing"
        BY <2>2 DEF MeterRaises
    <3> QED
        BY <3>1 DEF Fixed
  <2> QED
      BY <2>1, <2>2
<1> QED
    BY <1>3, <1>4, <1>5, <1>6, <1>7 DEF Inv, CameraInv

LEMMA ExposeKeeps ==
    ASSUME Inv, NEW i \in Ids, Expose(i)
    PROVE  Inv'
<1>1. /\ task[i].pc = "due" /\ Goto(i, "expose")
      /\ lock = Nobody /\ lock' = i
      /\ UNCHANGED <<netVars, settings, camera, raised, up>>
    BY DEF Expose, ExposeAcquire, Acquire, cameraVars
<1>2. PICK t \in Task : t.pc = "expose" /\ task' = [task EXCEPT ![i] = t]
    BY <1>1, GotoTask DEF Inv, CameraInv
<1>3. NetInv' /\ Fresh'
    BY <1>1, <1>2, ThreadKeeps DEF Inv, CameraInv
<1>4. up /\ task' \in [Ids -> Task] /\ Locked' /\ \A j \in Ids : task[j].pc # "settle"
    BY <1>1, <1>2, LockTaken DEF Inv
<1>5. Down' /\ CameraIsRecord' /\ Streams'
    BY <1>1, <1>4 DEF Inv, CameraInv, Down, CameraIsRecord, Streams
<1>6. Fixed'
    BY <1>1, <1>4 DEF Inv, CameraInv, Fixed
<1> QED
    BY <1>3, <1>4, <1>5, <1>6 DEF Inv, CameraInv

LEMMA OpenKeeps ==
    ASSUME Inv, NEW i \in Ids, Open(i)
    PROVE  Inv'
<1>1. /\ task[i].pc = "expose" /\ Goto(i, "write")
      /\ UNCHANGED <<netVars, lock, settings, camera, raised, up>>
    BY DEF Open, cameraVars
<1>2. PICK t \in Task : t.pc = "write" /\ task' = [task EXCEPT ![i] = t]
    BY <1>1, GotoTask DEF Inv, CameraInv
<1>3. NetInv' /\ Fresh'
    BY <1>1, <1>2, ThreadKeeps DEF Inv, CameraInv
<1>4. up /\ task' \in [Ids -> Task] /\ Locked'
    BY <1>1, <1>2 DEF Inv, CameraInv, Down, Locked, UsesCamera
<1>5. Down' /\ CameraIsRecord' /\ Streams'
    BY <1>1, <1>4 DEF Inv, CameraInv, Down, CameraIsRecord, Streams
<1>6. Fixed'
    BY <1>1, <1>2 DEF Inv, CameraInv, Fixed
<1> QED
    BY <1>3, <1>4, <1>5, <1>6 DEF Inv, CameraInv

\* The camera is left as it was.
LEMMA CaptureEndKeeps ==
    ASSUME Inv, NEW i \in Ids, Written(i) \/ CaptureRaises(i)
    PROVE  Inv'
<1>1. /\ task[i].pc \in {"expose", "write"} /\ Release
      /\ UNCHANGED <<netVars, settings, camera, raised, up>>
    BY DEF Written, CaptureRaises, cameraVars
<1>2. PICK t \in Task : t.pc \in {"reply", "ended"} /\ task' = [task EXCEPT ![i] = t]
  <2>1. CASE Written(i)
    <3>1. Goto(i, "reply")
        BY <2>1 DEF Written
    <3> QED
        BY <3>1, GotoTask DEF Inv, CameraInv
  <2>2. CASE CaptureRaises(i)
    <3>1. End(i)
        BY <2>2 DEF CaptureRaises
    <3> QED
        BY <3>1, EndTask
  <2> QED
      BY <2>1, <2>2
<1>3. NetInv' /\ Fresh'
    BY <1>1, <1>2, ThreadKeeps DEF Inv, CameraInv
<1>4. /\ up /\ task' \in [Ids -> Task] /\ Locked'
      /\ \A j \in Ids : task[j].pc # "settle"
    BY <1>1, <1>2, LockFreed DEF Inv, UsesCamera
<1>5. Down' /\ CameraIsRecord' /\ Streams'
    BY <1>1, <1>4 DEF Inv, CameraInv, Down, CameraIsRecord, Streams
<1>6. Fixed'
    BY <1>1, <1>4 DEF Inv, CameraInv, Fixed
<1> QED
    BY <1>3, <1>4, <1>5, <1>6 DEF Inv, CameraInv

\* Without the camera.
LEMMA ElsewhereKeeps ==
    ASSUME Inv, NEW i \in Ids,
           MakeDir(i) \/ MakeDirRaises(i) \/ Trigger(i) \/ Reply(i) \/ StayUp(i)
    PROVE  Inv'
<1>1. /\ task[i].pc \in {"mkdir", "sleep", "reply", "power"}
      /\ UNCHANGED <<netVars, lock, cameraVars, up>>
    BY DEF MakeDir, MakeDirRaises, Trigger, Reply, StayUp
<1>2. PICK t \in Task : /\ t.pc \in {"sleep", "due", "captured", "ended"}
                        /\ task' = [task EXCEPT ![i] = t]
  <2>1. CASE End(i)
      BY <2>1, EndTask
  <2>2. ASSUME NEW pc \in {"sleep", "due", "captured"}, Goto(i, pc)
        PROVE  \E t \in Task : t.pc = pc /\ task' = [task EXCEPT ![i] = t]
      BY <2>2, GotoTask DEF Inv, CameraInv
  <2>3. End(i) \/ \E pc \in {"sleep", "due", "captured"} : Goto(i, pc)
      BY DEF MakeDir, MakeDirRaises, Trigger, Reply, StayUp
  <2> QED
      BY <2>1, <2>2, <2>3
<1>3. NetInv' /\ Fresh'
    BY <1>1, <1>2, ThreadKeeps DEF Inv, CameraInv
<1>4. up /\ ~ UsesCamera(i)
    BY <1>1 DEF Inv, CameraInv, Down, UsesCamera
<1>5. CameraInv'
    BY <1>1, <1>2, <1>4, Elsewhere DEF Inv
<1> QED
    BY <1>3, <1>5 DEF Inv

-----------------------------------------------------------------------------
(* Restarts *)

LEMMA StopKeeps ==
    ASSUME Inv, Stop
    PROVE  Inv'
<1>1. /\ up' = FALSE
      /\ task' = [j \in Ids |-> IF task[j].pc \in {"none", "captured"} THEN task[j]
                                ELSE [pc |-> "ended", arg |-> None]]
      /\ copies' = [j \in Ids |-> 0]
      /\ UNCHANGED <<sent, seen, runs, camera>>
    BY DEF Stop, cameraVars
<1>2. NetInv'
    BY <1>1, FewerCopies DEF Inv
<1>3. task' \in [Ids -> Task]
  <2>1. [pc |-> "ended", arg |-> None] \in Task
      BY DEF Task
  <2> QED
      BY <2>1, <1>1 DEF Inv, CameraInv
<1>4. \A j \in Ids : /\ task'[j].pc \in {"none", "captured", "ended"}
                     /\ task'[j].pc # "none" => task[j].pc # "none"
    BY <1>1
<1>5. Fresh'
    BY <1>1, <1>4 DEF Inv, Fresh
<1>6. Locked' /\ Down'
    BY <1>4 DEF Locked, UsesCamera, Down
<1>7. CameraIsRecord' /\ Streams' /\ Fixed'
    BY <1>1 DEF Inv, CameraInv, CameraIsRecord, Streams, Fixed
<1> QED
    BY <1>2, <1>3, <1>5, <1>6, <1>7 DEF Inv, CameraInv

LEMMA BootKeeps ==
    ASSUME Inv, Boot
    PROVE  Inv'
<1>1. /\ ~ up /\ settings' = Default /\ camera' = Opened(Default)
      /\ UNCHANGED <<runs, task, lock>>
    BY DEF Boot
<1>2. NetInv'
    BY BootForgets DEF Inv
<1>3. Fresh'
    BY <1>1 DEF Inv, Fresh
<1>4. \A j \in Ids : task'[j].pc \in {"none", "captured", "ended"}
    BY <1>1 DEF Inv, CameraInv, Down
<1>5. task' \in [Ids -> Task] /\ Locked' /\ Down'
    BY <1>1, <1>4 DEF Inv, CameraInv, Locked, UsesCamera, Down
<1>6. CameraIsRecord' /\ Streams' /\ Fixed'
    BY <1>1 DEF CameraIsRecord, Streams, Fixed, Opened
<1> QED
    BY <1>2, <1>3, <1>5, <1>6 DEF Inv, CameraInv

-----------------------------------------------------------------------------
(* The specification *)

LEMMA InvInitially == Init => Inv
<1>1. Init => Fresh
    BY DEF Init, Fresh
<1> QED
    BY <1>1, NetInitially, CameraInitially DEF Inv

LEMMA NextKeeps == Inv /\ [Next]_vars => Inv'
<1> SUFFICES ASSUME Inv, [Next]_vars PROVE Inv'
    OBVIOUS
<1>1. CASE Send
  <2>1. NetInv'
      BY <1>1, SendKeeps DEF Inv
  <2>2. UNCHANGED <<runs, task, lock, settings, camera, raised, up>>
      BY <1>1 DEF Send, cameraVars
  <2>3. Fresh' /\ CameraInv'
      BY <2>2 DEF Inv, Fresh, CameraInv, Locked, UsesCamera, Down, CameraIsRecord, Streams, Fixed
  <2> QED
      BY <2>1, <2>3 DEF Inv
<1>2. ASSUME NEW i \in Ids, Dispatch(i) PROVE Inv'
    BY <1>2, DispatchKeeps
<1>3. ASSUME NEW i \in Ids, Proceed(i) PROVE Inv'
  <2>1. CASE Configure(i) \/ ConfigureRaises(i)
      BY <2>1, ConfigureKeeps
  <2>2. CASE MeterBegin(i)
      BY <2>2, MeterBeginKeeps
  <2>3. CASE MeterEnd(i) \/ MeterRaises(i)
      BY <2>3, MeterEndKeeps
  <2>4. CASE MakeDir(i) \/ MakeDirRaises(i) \/ Trigger(i) \/ Reply(i) \/ StayUp(i)
      BY <2>4, ElsewhereKeeps
  <2>5. CASE Expose(i)
      BY <2>5, ExposeKeeps
  <2>6. CASE Open(i)
      BY <2>6, OpenKeeps
  <2>7. CASE Written(i) \/ CaptureRaises(i)
      BY <2>7, CaptureEndKeeps
  <2>8. CASE GoDown(i)
      BY <2>8, StopKeeps DEF GoDown
  <2> QED
      BY <1>3, <2>1, <2>2, <2>3, <2>4, <2>5, <2>6, <2>7, <2>8 DEF Proceed
<1>4. CASE Crash
    BY <1>4, StopKeeps DEF Crash
<1>5. CASE Boot
    BY <1>5, BootKeeps
<1>6. CASE UNCHANGED vars
  <2>1. /\ UNCHANGED <<sent, copies, seen, runs>>
        /\ UNCHANGED <<task, lock, settings, camera, raised, up>>
      BY <1>6 DEF vars, netVars, cameraVars
  <2>2. NetInv'
      BY <2>1, FewerCopies DEF Inv, NetInv, NetType
  <2>3. Fresh' /\ CameraInv'
      BY <2>1 DEF Inv, Fresh, CameraInv, Locked, UsesCamera, Down, CameraIsRecord, Streams, Fixed
  <2> QED
      BY <2>2, <2>3 DEF Inv
<1> QED
    BY <1>1, <1>2, <1>3, <1>4, <1>5, <1>6 DEF Next

LEMMA InvAlways == Spec => []Inv
<1> QED
    BY InvInitially, NextKeeps, PTL DEF Spec

\* A broadcast is carried out at most once, however its copies are lost,
\* reordered and delayed within the window, across restarts of the daemon
\* (DedupeCache.check_and_add and the loop of main).
THEOREM BroadcastOnce == Spec => []Once
<1>1. Inv => Once
    BY DEF Inv, NetInv, RanOnce, Once
<1> QED
    BY <1>1, InvAlways, PTL

\* Every frame is exposed under the manual settings of the last CONFIGURE: no
\* METER is half way while a CAPTURE holds the lock (Camera.capture_to and
\* Camera.meter).
THEOREM FramesAreFixed == Spec => []FixedExposure
<1>1. Inv => FixedExposure
    BY InvGivesFixedExposure DEF Inv
<1> QED
    BY <1>1, InvAlways, PTL

\* The idle camera streams with the settings of the last CONFIGURE, after
\* every METER and through every restart, as long as no camera call has raised
\* (Camera.configure, Camera.meter and main).
THEOREM CameraIsWarm == Spec => []Warm
<1>1. Inv => Warm
    BY InvGivesWarm DEF Inv
<1> QED
    BY <1>1, InvAlways, PTL

-----------------------------------------------------------------------------
(* The values of the variables *)

NetTyped ==
    /\ sent \in 0 .. MaxMessages
    /\ copies \in [Ids -> 0 .. Copies]
    /\ seen \in Seq(Ids) /\ Len(seen) <= CacheSize
    /\ runs \in [Ids -> Nat]

Capturing == {"mkdir", "sleep", "due", "expose", "write", "reply", "captured"}

\* What a task is about: a CONFIGURE its settings, a CAPTURE its session.
Fits(t) ==
    /\ t \in Task
    /\ t.pc = "configure" => t.arg \in Settings
    /\ t.pc \in Capturing => t.arg \in Sessions

TasksTyped ==
    /\ task \in [Ids -> Task]
    /\ \A i \in Ids : Fits(task[i])
    /\ lock \in Ids \cup {Nobody}

CameraTyped ==
    /\ settings \in Manual
    /\ configured \in BOOLEAN
    /\ camera \in [on : BOOLEAN, resolution : {s.resolution : s \in Manual},
                   controls : Manual \cup {AutoExposure}]
    /\ raised \in {"nothing", "controls", "pipeline"}

DiskTyped ==
    /\ file \in [Sessions -> {Absent, Partial} \cup Ids]
    /\ dir \in SUBSET Sessions
    /\ taken \in SUBSET Ids

\* The inductive invariant behind TypeOK.
DataInv == NetTyped /\ TasksTyped /\ CameraTyped /\ DiskTyped /\ up \in BOOLEAN

LEMMA EvictBounds ==
    ASSUME NEW q \in Seq(Ids), Len(q) <= CacheSize, NEW i \in Ids
    PROVE  Evict(Append(q, i)) \in Seq(Ids) /\ Len(Evict(Append(q, i))) <= CacheSize
<1>1. Len(q) \in Nat /\ CacheSize \in Nat
  BY LenProperties, CacheFacts
<1>2. Append(q, i) \in Seq(Ids) /\ Len(Append(q, i)) = Len(q) + 1
  BY AppendProperties
<1>3. Append(q, i) # << >>
  BY <1>1, <1>2, EmptySeq
<1>4. Tail(Append(q, i)) \in Seq(Ids) /\ Len(Tail(Append(q, i))) = Len(q)
  BY <1>1, <1>2, <1>3, HeadTailProperties
<1> QED
  BY <1>1, <1>2, <1>4 DEF Evict

LEMMA TakeTyped ==
    ASSUME NetTyped, NEW i \in Ids, NEW isNew \in BOOLEAN, Take(i, isNew)
    PROVE  NetTyped'
<1> USE DEF NetTyped
<1>1. /\ copies[i] > 0 /\ copies' = [copies EXCEPT ![i] = @ - 1] /\ sent' = sent
      /\ runs' = IF isNew THEN [runs EXCEPT ![i] = @ + 1] ELSE runs
  BY DEF Take
<1>2. PICK n \in 0 .. Len(seen) :
         seen' = IF isNew THEN Evict(Append(Unexpired(n), i)) ELSE Unexpired(n)
  BY DEF Take
<1>3. Unexpired(n) \in Seq(Ids) /\ Len(Unexpired(n)) <= CacheSize
  <2>1. Len(seen) \in Nat /\ n \in Nat /\ n <= Len(seen) /\ CacheSize \in Nat
      BY LenProperties, CacheFacts
  <2>2. \A k \in n + 1 .. Len(seen) : seen[k] \in Ids
      BY <2>1, SeqElements
  <2>3. /\ Unexpired(n) \in Seq(Ids)
        /\ Len(Unexpired(n)) = IF n + 1 <= Len(seen) THEN Len(seen) - (n + 1) + 1 ELSE 0
      BY <2>1, <2>2, SubSeqProperties DEF Unexpired
  <2> QED
      BY <2>1, <2>3
<1>4. seen' \in Seq(Ids) /\ Len(seen') <= CacheSize
  BY <1>2, <1>3, EvictBounds
<1>5. copies' \in [Ids -> 0 .. Copies]
  <2>1. copies[i] - 1 \in 0 .. Copies
      BY <1>1, BoundsAssumption
  <2> QED
      BY <1>1, <2>1
<1>6. runs' \in [Ids -> Nat]
  BY <1>1
<1> QED
  BY <1>1, <1>4, <1>5, <1>6

LEMMA TaskReplaced ==
    ASSUME TasksTyped, NEW i \in Ids, NEW t, Fits(t), task' = [task EXCEPT ![i] = t],
           lock' \in Ids \cup {Nobody}
    PROVE  TasksTyped'
<1>1. task' \in [Ids -> Task]
  BY DEF TasksTyped, Fits
<1>2. \A j \in Ids : task'[j] = IF j = i THEN t ELSE task[j]
  BY DEF TasksTyped
<1>3. \A j \in Ids : Fits(task'[j])
  BY <1>2 DEF TasksTyped
<1> QED
  BY <1>1, <1>3 DEF TasksTyped, Fits

LEMMA StartTyped ==
    ASSUME TasksTyped, NEW i \in Ids, NEW pc, NEW arg, Fits([pc |-> pc, arg |-> arg]),
           Start(i, pc, arg), lock' \in Ids \cup {Nobody}
    PROVE  TasksTyped'
BY TaskReplaced DEF Start

LEMMA EndTyped ==
    ASSUME TasksTyped, NEW i \in Ids, End(i), lock' \in Ids \cup {Nobody}
    PROVE  TasksTyped'
<1>1. Fits([pc |-> "ended", arg |-> None])
  BY DEF Fits, Task, Capturing
<1> QED
  BY <1>1, StartTyped DEF End

LEMMA GotoTyped ==
    ASSUME TasksTyped, NEW i \in Ids, NEW pc, Goto(i, pc),
           \/ pc = "settle"
           \/ task[i].pc \in Capturing /\ pc \in Capturing,
           lock' \in Ids \cup {Nobody}
    PROVE  TasksTyped'
<1> DEFINE t == [task[i] EXCEPT !.pc = pc]
<1>1. task[i] \in Task /\ Fits(task[i])
  BY DEF TasksTyped
<1>2. t = [pc |-> pc, arg |-> task[i].arg]
  BY <1>1 DEF Task
<1>3. Fits(t)
  BY <1>1, <1>2 DEF Fits, Task, Capturing
<1>4. task' = [task EXCEPT ![i] = t]
  BY DEF Goto
<1> QED
  BY <1>3, <1>4, TaskReplaced

LEMMA DispatchTyped ==
    ASSUME DataInv, NEW i \in Ids, Dispatch(i)
    PROVE  DataInv'
<1> USE DEF DataInv
<1>1. PICK isNew \in BOOLEAN : Take(i, isNew)
  BY DEF Dispatch, DropCopy, Answered, StartConfigure, StartMeter, StartCapture, Clear, StartPower
<1>2. NetTyped'
  BY <1>1, TakeTyped
<1>3. up' = up /\ UNCHANGED <<lock, settings, configured, camera, raised>>
  BY <1>1 DEF Dispatch, DropCopy, Answered, StartConfigure, StartMeter, StartCapture, Clear,
              StartPower, Take, cameraVars
<1>4. CameraTyped' /\ up' \in BOOLEAN
  BY <1>3 DEF CameraTyped
<1>5. lock' \in Ids \cup {Nobody}
  BY <1>3 DEF TasksTyped
<1>6. DiskTyped'
  <2>1. CASE UNCHANGED diskVars
      BY <2>1 DEF DiskTyped, diskVars
  <2>2. CASE Clear(i)
    <3>1. PICK gone \in SUBSET Sessions :
              /\ file' = [s \in Sessions |-> IF s \in gone THEN Absent ELSE file[s]]
              /\ dir' = dir \ gone
              /\ taken' = taken \cup UNION {Kept(s) : s \in gone}
        BY <2>2 DEF Clear
    <3>2. taken' \in SUBSET Ids
        BY <3>1 DEF DiskTyped, Kept
    <3> QED
        BY <3>1, <3>2 DEF DiskTyped
  <2> QED
      BY <2>1, <2>2 DEF Dispatch, DropCopy, Answered, StartConfigure, StartMeter, StartCapture,
                        StartPower
<1>7. TasksTyped'
  <2>1. CASE DropCopy(i)
      BY <2>1, <1>3 DEF DropCopy, TasksTyped, Fits
  <2>2. CASE Answered(i) \/ Clear(i)
      BY <2>2, <1>5, EndTyped DEF Answered, Clear
  <2>3. CASE StartConfigure(i)
    <3>1. PICK s \in Settings : Start(i, "configure", s)
        BY <2>3 DEF StartConfigure
    <3>2. Fits([pc |-> "configure", arg |-> s])
        BY DEF Fits, Task, Capturing
    <3> QED
        BY <3>1, <3>2, <1>5, StartTyped
  <2>4. CASE StartMeter(i)
    <3>1. Fits([pc |-> "meter", arg |-> None])
        BY DEF Fits, Task, Capturing
    <3> QED
        BY <3>1, <2>4, <1>5, StartTyped DEF StartMeter
  <2>5. CASE StartCapture(i)
    <3>1. PICK s \in Sessions : Start(i, "mkdir", s)
        BY <2>5 DEF StartCapture
    <3>2. Fits([pc |-> "mkdir", arg |-> s])
        BY DEF Fits, Task, Capturing
    <3> QED
        BY <3>1, <3>2, <1>5, StartTyped
  <2>6. CASE StartPower(i)
    <3>1. Fits([pc |-> "power", arg |-> None])
        BY DEF Fits, Task, Capturing
    <3> QED
        BY <3>1, <2>6, <1>5, StartTyped DEF StartPower
  <2> QED
      BY <2>1, <2>2, <2>3, <2>4, <2>5, <2>6 DEF Dispatch
<1> QED
  BY <1>2, <1>4, <1>6, <1>7

LEMMA OpenedTyped ==
    ASSUME NEW s \in Manual
    PROVE  /\ Opened(s) \in [on : BOOLEAN, resolution : {x.resolution : x \in Manual},
                             controls : Manual \cup {AutoExposure}]
           /\ [Opened(s) EXCEPT !.controls = AutoExposure]
                \in [on : BOOLEAN, resolution : {x.resolution : x \in Manual},
                     controls : Manual \cup {AutoExposure}]
<1>1. s.resolution \in {x.resolution : x \in Manual}
  OBVIOUS
<1>2. ASSUME NEW r, r = Opened(s)
      PROVE  [r EXCEPT !.controls = AutoExposure]
               \in [on : BOOLEAN, resolution : {x.resolution : x \in Manual},
                    controls : Manual \cup {AutoExposure}]
  <2>1. r \in [on : BOOLEAN, resolution : {x.resolution : x \in Manual},
               controls : Manual \cup {AutoExposure}]
      BY <1>1, <1>2 DEF Opened
  <2> QED
      BY <2>1
<1> QED
  BY <1>1, <1>2 DEF Opened

\* What a thread, or a CONFIGURE, does to the camera.
LEMMA ProceedCamera ==
    ASSUME DataInv, NEW i \in Ids, Proceed(i)
    PROVE  CameraTyped'
<1> USE DEF DataInv, CameraTyped
<1> DEFINE Pipelines == [on : BOOLEAN, resolution : {s.resolution : s \in Manual},
                         controls : Manual \cup {AutoExposure}]
<1>0. ASSUME NEW c \in Manual \cup {AutoExposure}
      PROVE  [camera EXCEPT !.controls = c] \in Pipelines /\ [camera EXCEPT !.on = FALSE] \in Pipelines
  OBVIOUS
<1>1. CASE Configure(i) \/ ConfigureRaises(i)
  <2>1. task[i].arg \in Manual
      BY <1>1 DEF Configure, ConfigureRaises, TasksTyped, Fits, Manual
  <2>2. settings' \in Manual /\ configured' \in BOOLEAN
      BY <1>1, <2>1 DEF Configure, ConfigureRaises
  <2>3. raised' \in {"nothing", "controls", "pipeline"}
      BY <1>1 DEF Configure, ConfigureRaises
  <2>4. camera' \in Pipelines
    <3>1. camera' \in {Opened(task[i].arg), [camera EXCEPT !.controls = task[i].arg], camera,
                       [camera EXCEPT !.on = FALSE],
                       [Opened(task[i].arg) EXCEPT !.controls = AutoExposure]}
        BY <1>1 DEF Configure, ConfigureRaises
    <3> QED
        BY <3>1, <2>1, <1>0, OpenedTyped
  <2> QED
      BY <2>2, <2>3, <2>4
<1>2. CASE MeterBegin(i)
  <2>1. camera' \in Pipelines
      BY <1>2, <1>0 DEF MeterBegin
  <2> QED
      BY <1>2, <2>1 DEF MeterBegin
<1>3. CASE MeterEnd(i)
  <2>1. camera' \in Pipelines
      BY <1>3, <1>0 DEF MeterEnd
  <2> QED
      BY <1>3, <2>1 DEF MeterEnd
<1>4. CASE MeterRaises(i)
  BY <1>4 DEF MeterRaises
<1>5. CASE UNCHANGED cameraVars
  BY <1>5 DEF cameraVars
<1> QED
  BY <1>1, <1>2, <1>3, <1>4, <1>5 DEF Proceed, MakeDir, MakeDirRaises, Trigger, Expose, Open,
                                      Written, Reply, CaptureRaises, StayUp, GoDown, Stop

\* What it does to its task and to the captures; a Stop is below.
LEMMA ProceedTasksAndDisk ==
    ASSUME DataInv, NEW i \in Ids, Proceed(i), ~ GoDown(i)
    PROVE  TasksTyped' /\ DiskTyped'
<1> USE DEF DataInv
<1>1. CASE \/ Configure(i) \/ ConfigureRaises(i) \/ MeterEnd(i) \/ MeterRaises(i)
           \/ MakeDirRaises(i) \/ CaptureRaises(i) \/ StayUp(i)
  <2>1. End(i) /\ lock' \in {lock, Nobody} /\ UNCHANGED diskVars
      BY <1>1 DEF Configure, ConfigureRaises, MeterEnd, MeterRaises, MakeDirRaises, CaptureRaises,
                  StayUp, Release
  <2> QED
      BY <2>1, EndTyped DEF TasksTyped, DiskTyped, diskVars
<1>2. CASE MeterBegin(i)
  <2>1. Goto(i, "settle") /\ lock' = i /\ UNCHANGED diskVars
      BY <1>2 DEF MeterBegin, MeterAcquire, Acquire
  <2> QED
      BY <2>1, GotoTyped DEF DiskTyped, diskVars
<1>3. CASE MakeDir(i)
  <2>1. /\ task[i].pc = "mkdir" /\ Goto(i, "sleep") /\ lock' = lock
        /\ dir' = dir \cup {task[i].arg} /\ UNCHANGED <<file, taken>>
      BY <1>3 DEF MakeDir
  <2>2. TasksTyped'
      BY <2>1, GotoTyped DEF TasksTyped, Capturing
  <2>3. task[i].arg \in Sessions
      BY <2>1 DEF TasksTyped, Fits, Capturing
  <2> QED
      BY <2>1, <2>2, <2>3 DEF DiskTyped
<1>4. CASE Trigger(i) \/ Expose(i) \/ Reply(i)
  <2>1. PICK pc \in {"due", "expose", "captured"} : Goto(i, pc)
      BY <1>4 DEF Trigger, Expose, Reply
  <2>2. task[i].pc \in {"sleep", "due", "reply"} /\ lock' \in {lock, i} /\ UNCHANGED diskVars
      BY <1>4 DEF Trigger, Expose, Reply, ExposeAcquire, Acquire
  <2>3. task[i].pc \in Capturing /\ pc \in Capturing
      BY <2>2 DEF Capturing
  <2> QED
      BY <2>1, <2>2, <2>3, GotoTyped DEF TasksTyped, DiskTyped, diskVars
<1>5. CASE Open(i)
  <2>1. /\ task[i].pc = "expose" /\ Goto(i, "write") /\ lock' = lock
        /\ file' = [file EXCEPT ![task[i].arg] = Partial] /\ dir' = dir
        /\ taken' = taken \cup Kept(task[i].arg)
      BY <1>5 DEF Open
  <2>2. TasksTyped'
      BY <2>1, GotoTyped DEF TasksTyped, Capturing
  <2>3. taken' \in SUBSET Ids
      BY <2>1 DEF DiskTyped, Kept
  <2> QED
      BY <2>1, <2>2, <2>3 DEF DiskTyped
<1>6. CASE Written(i)
  <2>1. /\ task[i].pc = "write" /\ Goto(i, "reply") /\ lock' = Nobody
        /\ file' = [file EXCEPT ![task[i].arg] = i] /\ UNCHANGED <<dir, taken>>
      BY <1>6 DEF Written, Release
  <2>2. TasksTyped'
      BY <2>1, GotoTyped DEF Capturing
  <2> QED
      BY <2>1, <2>2 DEF DiskTyped
<1> QED
  BY <1>1, <1>2, <1>3, <1>4, <1>5, <1>6 DEF Proceed

LEMMA StopTyped ==
    ASSUME DataInv, Stop
    PROVE  DataInv'
<1> USE DEF DataInv
<1>1. /\ up' = FALSE /\ lock' = Nobody
      /\ task' = [j \in Ids |-> IF task[j].pc \in {"none", "captured"} THEN task[j]
                                ELSE [pc |-> "ended", arg |-> None]]
      /\ copies' = [j \in Ids |-> 0]
      /\ UNCHANGED <<sent, seen, runs, settings, configured, camera, raised, file, dir, taken>>
  BY DEF Stop, cameraVars, diskVars
<1>2. Fits([pc |-> "ended", arg |-> None])
  BY DEF Fits, Task, Capturing
<1>3. \A j \in Ids : Fits(task'[j])
  BY <1>1, <1>2 DEF TasksTyped
<1>4. task' \in [Ids -> Task]
  BY <1>1, <1>2 DEF TasksTyped, Fits
<1>5. TasksTyped'
  BY <1>1, <1>3, <1>4 DEF TasksTyped, Fits
<1>6. NetTyped'
  BY <1>1, BoundsAssumption DEF NetTyped
<1>7. CameraTyped' /\ DiskTyped'
  BY <1>1 DEF CameraTyped, DiskTyped
<1> QED
  BY <1>1, <1>5, <1>6, <1>7

LEMMA DataInitially == Init => DataInv
<1> SUFFICES ASSUME Init PROVE DataInv
  OBVIOUS
<1> USE DEF Init
<1>1. NetTyped
  BY BoundsAssumption, CacheFacts, EmptySeq DEF NetTyped
<1>2. Fits([pc |-> "none", arg |-> None])
  BY DEF Fits, Task, Capturing
<1>3. TasksTyped
  BY <1>2 DEF TasksTyped, Fits
<1>4. CameraTyped
  BY OpenedTyped DEF CameraTyped, Manual
<1> QED
  BY <1>1, <1>3, <1>4 DEF DataInv, DiskTyped

LEMMA DataKeeps == DataInv /\ [Next]_vars => DataInv'
<1> SUFFICES ASSUME DataInv, [Next]_vars PROVE DataInv'
  OBVIOUS
<1> USE DEF DataInv
<1>1. CASE Send
  <2>1. /\ sent < MaxMessages /\ sent' = sent + 1
        /\ UNCHANGED <<seen, runs, task, lock, settings, configured, camera, raised, file, dir, taken, up>>
      BY <1>1 DEF Send, cameraVars, diskVars
  <2>2. PICK n \in 1 .. Copies : copies' = [copies EXCEPT ![sent + 1] = n]
      BY <1>1 DEF Send
  <2>3. NetTyped'
    <3>1. sent \in Nat /\ MaxMessages \in Nat /\ Copies \in Nat
        BY BoundsAssumption DEF NetTyped
    <3>2. sent' \in 0 .. MaxMessages /\ n \in 0 .. Copies
        BY <2>1, <3>1
    <3>3. copies' \in [Ids -> 0 .. Copies]
        BY <2>2, <3>2 DEF NetTyped
    <3> QED
        BY <2>1, <3>2, <3>3 DEF NetTyped
  <2>4. TasksTyped' /\ CameraTyped' /\ DiskTyped'
      BY <2>1 DEF TasksTyped, Fits, CameraTyped, DiskTyped
  <2> QED
      BY <2>1, <2>3, <2>4
<1>2. ASSUME NEW i \in Ids, Dispatch(i) PROVE DataInv'
  BY <1>2, DispatchTyped
<1>3. ASSUME NEW i \in Ids, Proceed(i) PROVE DataInv'
  <2>1. CASE GoDown(i)
      BY <2>1, StopTyped DEF GoDown
  <2>2. CASE ~ GoDown(i)
    <3>1. UNCHANGED <<sent, copies, seen, runs, up>>
        BY <1>3, <2>2 DEF Proceed, Configure, ConfigureRaises, MeterBegin, MeterEnd, MeterRaises,
               MakeDir, MakeDirRaises, Trigger, Expose, Open, Written, Reply, CaptureRaises,
               StayUp, netVars
    <3>2. NetTyped' /\ up' \in BOOLEAN
        BY <3>1 DEF NetTyped
    <3> QED
        BY <1>3, <2>2, <3>2, ProceedCamera, ProceedTasksAndDisk
  <2> QED
      BY <2>1, <2>2
<1>4. CASE Crash
  BY <1>4, StopTyped DEF Crash
<1>5. CASE Boot
  <2>1. /\ up' = TRUE /\ seen' = << >> /\ settings' = Default /\ configured' = FALSE
        /\ camera' = Opened(Default) /\ raised' = "nothing" /\ copies' = [j \in Ids |-> 0]
        /\ UNCHANGED <<sent, runs, task, lock, file, dir, taken>>
      BY <1>5 DEF Boot, diskVars
  <2>2. NetTyped'
      BY <2>1, BoundsAssumption, CacheFacts, EmptySeq DEF NetTyped
  <2>3. TasksTyped' /\ DiskTyped'
      BY <2>1 DEF TasksTyped, Fits, DiskTyped
  <2>4. CameraTyped'
      BY <2>1, OpenedTyped DEF CameraTyped, Manual
  <2> QED
      BY <2>1, <2>2, <2>3, <2>4
<1>6. CASE UNCHANGED vars
  <2>1. UNCHANGED <<sent, copies, seen, runs, task, lock, settings, configured, camera, raised,
                    file, dir, taken, up>>
      BY <1>6 DEF vars, netVars, cameraVars, diskVars
  <2> QED
      BY <2>1 DEF NetTyped, TasksTyped, Fits, CameraTyped, DiskTyped
<1> QED
  BY <1>1, <1>2, <1>3, <1>4, <1>5, <1>6 DEF Next

LEMMA DataAlways == Spec => []DataInv
<1> QED
    BY DataInitially, DataKeeps, PTL DEF Spec

\* Every variable keeps its type; the cache never outgrows DEDUPE_CACHE_SIZE
\* and every task is about what its command named (DedupeCache, Camera, the
\* handlers of picam_node.py).
THEOREM NodeStaysTyped == Spec => []TypeOK
<1>1. DataInv => TypeOK
    BY DEF DataInv, NetTyped, TasksTyped, CameraTyped, DiskTyped, TypeOK
<1> QED
    BY <1>1, DataAlways, PTL

-----------------------------------------------------------------------------
(* The frame that a CAPTURED answers for *)

\* The file that is being written is not whole: the camera lock keeps other
\* CAPTUREs of the session out, and a CLEAR can only remove it.
Half == \A i \in Ids : task[i].pc = "write" => file[task[i].arg] \in {Absent, Partial}

FrameInv == CapturedStays /\ Half

Answers(t) == t.pc \in {"reply", "captured"}

\* A step that leaves the card alone, and no CAPTURE comes to the writing or
\* from there to the answer.
LEMMA FrameKept ==
    ASSUME FrameInv, UNCHANGED <<file, taken>>,
           \A i \in Ids :
              /\ task'[i].pc = "write" => task'[i] = task[i]
              /\ Answers(task'[i]) => Answers(task[i]) /\ task'[i].arg = task[i].arg
    PROVE  FrameInv'
<1>1. CapturedStays'
    BY DEF FrameInv, CapturedStays, Answers
<1>2. Half'
    BY DEF FrameInv, Half
<1> QED
    BY <1>1, <1>2 DEF FrameInv

\* One task is replaced.
LEMMA FrameElsewhere ==
    ASSUME FrameInv, UNCHANGED <<file, taken>>, task \in [Ids -> Task],
           NEW j \in Ids, NEW t \in Task, task' = [task EXCEPT ![j] = t],
           t.pc # "write", Answers(t) => Answers(task[j]) /\ t.arg = task[j].arg
    PROVE  FrameInv'
<1>1. \A i \in Ids : task'[i] = IF i = j THEN t ELSE task[i]
    OBVIOUS
<1> QED
    BY <1>1, FrameKept

\* The loop: a CLEAR takes the frames of its sessions.
LEMMA FrameDispatch ==
    ASSUME Inv, DataInv, FrameInv, NEW j \in Ids, Dispatch(j)
    PROVE  FrameInv'
<1>0. task \in [Ids -> Task]
    BY DEF DataInv, TasksTyped
<1>1. CASE DropCopy(j)
    BY <1>1, FrameKept DEF DropCopy, diskVars
<1>2. CASE Answered(j)
  <2>1. PICK t \in Task : t.pc = "ended" /\ task' = [task EXCEPT ![j] = t]
      BY <1>2, EndTask DEF Answered
  <2> QED
      BY <1>0, <1>2, <2>1, FrameElsewhere DEF Answered, diskVars, Answers
<1>3. CASE StartConfigure(j) \/ StartMeter(j) \/ StartCapture(j) \/ StartPower(j)
  <2>1. PICK pc \in {"configure", "meter", "mkdir", "power"},
             arg \in Settings \cup Sessions \cup {None} : Start(j, pc, arg)
      BY <1>3 DEF StartConfigure, StartMeter, StartCapture, StartPower
  <2> DEFINE t == [pc |-> pc, arg |-> arg]
  <2>2. t \in Task /\ t.pc = pc /\ task' = [task EXCEPT ![j] = t]
      BY <2>1 DEF Task, Start
  <2>3. UNCHANGED <<file, taken>>
      BY <1>3 DEF StartConfigure, StartMeter, StartCapture, StartPower, diskVars
  <2> HIDE DEF t
  <2> QED
      BY <1>0, <2>2, <2>3, FrameElsewhere DEF Answers
<1>4. CASE Clear(j)
  <2>1. PICK gone \in SUBSET Sessions :
            /\ file' = [s \in Sessions |-> IF s \in gone THEN Absent ELSE file[s]]
            /\ taken' = taken \cup UNION {Kept(s) : s \in gone}
      BY <1>4 DEF Clear
  <2>2. PICK t \in Task : t.pc = "ended" /\ task' = [task EXCEPT ![j] = t]
      BY <1>4, EndTask DEF Clear
  <2>3. \A i \in Ids : task'[i] = IF i = j THEN t ELSE task[i]
      BY <1>0, <2>2
  <2>4. \A i \in Ids : task[i].pc \in {"write", "reply", "captured"} => task[i].arg \in Sessions
      BY DEF DataInv, TasksTyped, Fits, Capturing
  <2>5. CapturedStays'
    <3> SUFFICES ASSUME NEW i \in Ids, Answers(task'[i]), i \notin taken'
                 PROVE  file'[task'[i].arg] = i
        BY DEF CapturedStays, Answers
    <3>1. i # j /\ task'[i] = task[i] /\ Answers(task[i]) /\ task[i].arg \in Sessions
        BY <2>2, <2>3, <2>4 DEF Answers
    <3>2. i \in Kept(task[i].arg) /\ i \notin taken
        BY <2>1, <3>1 DEF Kept, Answers
    <3>3. task[i].arg \notin gone
        BY <2>1, <3>2
    <3> QED
        BY <2>1, <3>1, <3>2, <3>3 DEF FrameInv, CapturedStays, Answers
  <2>6. Half'
      BY <2>1, <2>2, <2>3, <2>4 DEF FrameInv, Half
  <2> QED
      BY <2>5, <2>6 DEF FrameInv
<1> QED
    BY <1>1, <1>2, <1>3, <1>4 DEF Dispatch

LEMMA FrameOpen ==
    ASSUME Inv, DataInv, FrameInv, NEW j \in Ids, Open(j)
    PROVE  FrameInv'
<1>0. task \in [Ids -> Task] /\ file \in [Sessions -> {Absent, Partial} \cup Ids]
    BY DEF DataInv, TasksTyped, DiskTyped
<1>1. /\ file' = [file EXCEPT ![task[j].arg] = Partial]
      /\ taken' = taken \cup Kept(task[j].arg)
      /\ \A i \in Ids : /\ task'[i].arg = task[i].arg
                        /\ i # j => task'[i] = task[i]
      /\ task[j].pc = "expose" /\ task'[j].pc = "write"
    BY <1>0 DEF Open, Goto, Task
<1>2. \A i \in Ids : task[i].pc \in {"expose", "write", "reply", "captured"} => task[i].arg \in Sessions
    BY DEF DataInv, TasksTyped, Fits, Capturing
<1>3. CapturedStays'
  <2> SUFFICES ASSUME NEW i \in Ids, Answers(task'[i]), i \notin taken'
               PROVE  file'[task'[i].arg] = i
      BY DEF CapturedStays, Answers
  <2>1. i # j /\ task'[i] = task[i] /\ Answers(task[i])
      BY <1>1 DEF Answers
  <2>2. task[i].arg # task[j].arg /\ i \notin taken
      BY <1>1, <2>1 DEF Kept, Answers
  <2> QED
      BY <1>0, <1>1, <1>2, <2>1, <2>2 DEF FrameInv, CapturedStays, Answers
<1>4. Half'
  <2> SUFFICES ASSUME NEW i \in Ids, task'[i].pc = "write" PROVE file'[task'[i].arg] \in {Absent, Partial}
      BY DEF Half
  <2>1. CASE task[i].arg = task[j].arg
      BY <1>0, <1>1, <1>2, <2>1
  <2>2. CASE task[i].arg # task[j].arg
      BY <1>0, <1>1, <1>2, <2>2 DEF FrameInv, Half
  <2> QED
      BY <2>1, <2>2
<1> QED
    BY <1>3, <1>4 DEF FrameInv

LEMMA FrameWritten ==
    ASSUME Inv, DataInv, FrameInv, NEW j \in Ids, Written(j)
    PROVE  FrameInv'
<1>0. task \in [Ids -> Task] /\ file \in [Sessions -> {Absent, Partial} \cup Ids]
    BY DEF DataInv, TasksTyped, DiskTyped
<1>1. /\ file' = [file EXCEPT ![task[j].arg] = j] /\ taken' = taken
      /\ \A i \in Ids : /\ task'[i].arg = task[i].arg
                        /\ i # j => task'[i] = task[i]
      /\ task[j].pc = "write" /\ task'[j].pc = "reply"
    BY <1>0 DEF Written, Goto, Task
<1>2. \A i \in Ids : task[i].pc \in {"write", "reply", "captured"} => task[i].arg \in Sessions
    BY DEF DataInv, TasksTyped, Fits, Capturing
<1>3. file[task[j].arg] \in {Absent, Partial}
    BY <1>1 DEF FrameInv, Half
<1>4. \A i \in Ids : i # Absent /\ i # Partial
    BY IdsAreNumbers DEF Absent, Partial
<1>5. CapturedStays'
  <2> SUFFICES ASSUME NEW i \in Ids, Answers(task'[i]), i \notin taken'
               PROVE  file'[task'[i].arg] = i
      BY DEF CapturedStays, Answers
  <2>1. CASE i = j
      BY <1>0, <1>1, <1>2, <2>1
  <2>2. CASE i # j
    <3>1. file[task[i].arg] = i /\ task[i].arg \in Sessions
        BY <1>1, <1>2, <2>2 DEF FrameInv, CapturedStays, Answers
    <3>2. task[i].arg # task[j].arg
        BY <1>3, <1>4, <3>1
    <3> QED
        BY <1>0, <1>1, <3>1, <3>2
  <2> QED
      BY <2>1, <2>2
<1>6. Half'
  <2> SUFFICES ASSUME NEW i \in Ids, task'[i].pc = "write" PROVE FALSE
      BY DEF Half
  <2>1. i # j /\ task[i].pc = "write"
      BY <1>1
  <2> QED
      BY <1>1, <2>1 DEF Inv, CameraInv, Locked, UsesCamera
<1> QED
    BY <1>5, <1>6 DEF FrameInv

LEMMA FrameProceed ==
    ASSUME Inv, DataInv, FrameInv, NEW j \in Ids, Proceed(j), ~ GoDown(j)
    PROVE  FrameInv'
<1>0. task \in [Ids -> Task]
    BY DEF DataInv, TasksTyped
<1>1. CASE Open(j)
    BY <1>1, FrameOpen
<1>2. CASE Written(j)
    BY <1>2, FrameWritten
<1>3. CASE End(j) /\ UNCHANGED <<file, taken>>
  <2>1. PICK t \in Task : t.pc = "ended" /\ task' = [task EXCEPT ![j] = t]
      BY <1>3, EndTask
  <2> QED
      BY <1>0, <1>3, <2>1, FrameElsewhere DEF Answers
<1>4. CASE MeterBegin(j) \/ MakeDir(j) \/ Trigger(j) \/ Expose(j)
  <2>1. PICK pc \in {"settle", "sleep", "due", "expose"} : Goto(j, pc)
      BY <1>4 DEF MeterBegin, MakeDir, Trigger, Expose
  <2>2. PICK t \in Task : t.pc = pc /\ task' = [task EXCEPT ![j] = t]
      BY <1>0, <2>1, GotoTask
  <2>3. UNCHANGED <<file, taken>>
      BY <1>4 DEF MeterBegin, MakeDir, Trigger, Expose, diskVars
  <2> QED
      BY <1>0, <2>2, <2>3, FrameElsewhere DEF Answers
<1>5. CASE Reply(j)
  <2>1. \A i \in Ids : /\ i # j => task'[i] = task[i]
                       /\ task'[j].pc = "captured" /\ task[j].pc = "reply"
                       /\ task'[j].arg = task[j].arg
      BY <1>0, <1>5 DEF Reply, Goto, Task
  <2> QED
      BY <1>5, <2>1, FrameKept DEF Reply, diskVars, Answers
<1> QED
    BY <1>1, <1>2, <1>3, <1>4, <1>5 DEF Proceed, Configure, ConfigureRaises, MeterEnd, MeterRaises,
       MakeDirRaises, CaptureRaises, StayUp, diskVars

LEMMA FrameKeeps == Inv /\ DataInv /\ FrameInv /\ [Next]_vars => FrameInv'
<1> SUFFICES ASSUME Inv, DataInv, FrameInv, [Next]_vars PROVE FrameInv'
    OBVIOUS
<1>1. CASE Send \/ Boot \/ UNCHANGED vars
  <2>1. UNCHANGED <<task, file, taken>>
      BY <1>1 DEF Send, Boot, vars, diskVars
  <2> QED
      BY <2>1, FrameKept
<1>2. ASSUME NEW j \in Ids, Dispatch(j) PROVE FrameInv'
    BY <1>2, FrameDispatch
<1>3. CASE Stop
  <2>1. /\ UNCHANGED <<file, taken>>
        /\ \A i \in Ids : task'[i] = IF task[i].pc \in {"none", "captured"} THEN task[i]
                                     ELSE [pc |-> "ended", arg |-> None]
      BY <1>3 DEF Stop, diskVars
  <2>2. \A i \in Ids : /\ task'[i].pc = "write" => task'[i] = task[i]
                       /\ Answers(task'[i]) => Answers(task[i]) /\ task'[i].arg = task[i].arg
      BY <2>1 DEF Answers
  <2> QED
      BY <2>1, <2>2, FrameKept
<1>4. ASSUME NEW j \in Ids, Proceed(j), ~ GoDown(j) PROVE FrameInv'
    BY <1>4, FrameProceed
<1> QED
    BY <1>1, <1>2, <1>3, <1>4 DEF Next, Crash, GoDown

\* The frame of a CAPTURE that found it whole is on the card until a CLEAR or
\* another CAPTURE of the session takes it, before and after CAPTURED is sent
\* and through every restart of the daemon: the camera lock lets no two
\* CAPTUREs write at once (Camera.capture_jpeg, _do_capture and handle_clear),
\* for every number of broadcasts, sessions and threads.
THEOREM FramesStay == Spec => []CapturedStays
<1>1. Init => FrameInv
    BY DEF Init, FrameInv, CapturedStays, Half
<1>2. Inv /\ DataInv /\ FrameInv /\ [Next]_vars => FrameInv'
    BY FrameKeeps
<1>3. FrameInv => CapturedStays
    BY DEF FrameInv
<1> QED
    BY <1>1, <1>2, <1>3, InvAlways, DataAlways, PTL DEF Spec

=============================================================================
