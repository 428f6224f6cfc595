--------------------------- MODULE DetectorProofs ---------------------------
(***************************************************************************)
(* The order in the detector's buffers, what they remember, and which      *)
(* packets they let pass: for all packets, rates and capacities.           *)
(***************************************************************************)
EXTENDS DuplicateDetector, SequenceTheorems, FiniteSetTheorems, TLAPS

-----------------------------------------------------------------------------
(* What holds of a buffer.                                                 *)

Rising(b)  == \A i, j \in DOMAIN b : i < j => b[i].start < b[j].start
Uniform(b) == \A i, j \in DOMAIN b : b[i].hertz = b[j].hertz
Proper(b)  == \A i \in DOMAIN b : b[i].start <= b[i].end

\* A packet that overlaps a later one contains one that is later.
Laminar(b) ==
    \A i, j \in DOMAIN b : i < j /\ ~Disjoint(b[i], b[j]) =>
      \E l \in DOMAIN b : i < l /\ Contains(b[i], b[l])

Good(b) == Rising(b) /\ Uniform(b) /\ Proper(b) /\ Laminar(b)

\* What a header must be like to be put into a buffer.
Fits(b, h) ==
    /\ h.start <= h.end
    /\ \A i \in DOMAIN b :
         /\ b[i].hertz = h.hertz
         /\ b[i].start # h.start
         /\ \/ Disjoint(b[i], h)
            \/ h.start < b[i].start /\ Contains(h, b[i])
            \/ /\ b[i].start < h.start
               /\ \E l \in DOMAIN b : i < l /\ Contains(b[i], b[l])

\* r is b with h between the first k headers, which start before it, and the
\* others, which start after it.
Placed(b, k, h, r) ==
    /\ Len(r) = Len(b) + 1
    /\ \A i \in 1..k : r[i] = b[i] /\ b[i].start < h.start
    /\ r[k + 1] = h
    /\ \A i \in (k + 1)..Len(b) : r[i + 1] = b[i] /\ h.start < b[i].start

\* What is left of a buffer to which something is added.
Kept(b, cap) == IF Len(b) >= cap THEN Tail(b) ELSE b

-----------------------------------------------------------------------------
(* Headers and capacities.                                                 *)

LEMMA RoundedIsNat ==
    ASSUME NEW a \in Nat, NEW b \in Nat \ {0}
    PROVE  RoundedQuotient(a, b) \in Nat
BY DEF RoundedQuotient

LEMMA HeaderProperties ==
    ASSUME NEW p \in Packets, Header(p).n > 0
    PROVE  Header(p) \in Headers /\ Header(p).start <= Header(p).end
<1>1. /\ p.start \in Nat /\ p.n \in Nat /\ p.n > 0 /\ p.rate \in Nat \ {0}
  BY DetectorAssumption DEF Packets, Header
<1>2. Period(p.rate) \in Nat /\ Hertz(p.rate) \in Nat
  BY <1>1, RoundedIsNat DEF Period, Hertz
<1>3. p.n - 1 \in Nat
  BY <1>1
<1>4. Period(p.rate) * (p.n - 1) \in Nat
  BY <1>2, <1>3
<1> DEFINE length == Period(p.rate) * (p.n - 1)
<1> HIDE DEF length
<1>5. /\ Header(p) = [start |-> p.start, end |-> p.start + length,
                      hertz |-> Hertz(p.rate), n |-> p.n]
      /\ length \in Nat
  BY <1>4 DEF Header, length
<1> QED
  BY <1>1, <1>2, <1>5 DEF Headers

LEMMA CapacityProperties ==
    ASSUME NEW h \in Headers, h.n > 0
    PROVE  CapacityFor(h) \in Nat /\ CapacityFor(h) >= 1
<1>1. Duration(h) \in Nat
  <2>1. h.n - 1 \in Nat /\ MaxOf(1, h.hertz) \in Nat \ {0}
    BY DEF Headers, MaxOf
  <2> QED
    BY <2>1, RoundedIsNat DEF Duration
<1>2. CapacityEstimate(h) \in Nat /\ CapacityEstimate(h) >= 1
  <2>1. CASE Duration(h) = 0
    BY <2>1 DEF CapacityEstimate
  <2>2. CASE Duration(h) # 0
    <3> DEFINE q == (3 * CircularBufferDuration) \div (2 * Duration(h))
    <3>1. q \in Int
      BY <1>1, <2>2, DetectorAssumption
    <3> HIDE DEF q
    <3>2. MaxOf(10, q) \in Nat
      BY <3>1 DEF MaxOf
    <3> QED
      BY <2>2, <3>2 DEF CapacityEstimate, q
  <2> QED
    BY <2>1, <2>2
<1> QED
  BY <1>2, DetectorAssumption DEF CapacityFor

-----------------------------------------------------------------------------
(* What a change does to a buffer.                                         *)

LEMMA KeptProperties ==
    ASSUME NEW b \in Seq(Headers), b # <<>>, NEW cap \in Nat, Len(b) <= cap
    PROVE  LET r == Kept(b, cap)
               d == IF Len(b) >= cap THEN 1 ELSE 0
           IN  /\ r \in Seq(Headers) /\ Len(r) = Len(b) - d
               /\ Len(r) + 1 <= cap
               /\ \A i \in 1..Len(r) : r[i] = b[i + d]
               /\ Len(b) >= cap <=> Len(r) + 1 >= cap /\ d = 1
<1>1. Len(b) \in Nat /\ Len(b) >= 1
  BY EmptySeq, LenProperties
<1>2. /\ Tail(b) \in Seq(Headers) /\ Len(Tail(b)) = Len(b) - 1
      /\ \A i \in 1..Len(Tail(b)) : Tail(b)[i] = b[i + 1]
  BY <1>1, HeadTailProperties
<1> QED
  BY <1>1, <1>2 DEF Kept

LEMMA KeptIsGood ==
    ASSUME NEW b \in Seq(Headers), b # <<>>, NEW cap \in Nat, Len(b) <= cap,
           Good(b)
    PROVE  /\ Good(Kept(b, cap))
           /\ \A h \in Headers : Fits(b, h) => Fits(Kept(b, cap), h)
<1> DEFINE r == Kept(b, cap)
<1>1. PICK d \in {0, 1} :
        /\ r \in Seq(Headers) /\ Len(r) = Len(b) - d
        /\ \A i \in 1..Len(r) : r[i] = b[i + d]
  BY KeptProperties
<1> HIDE DEF r
<1>2. /\ Len(r) \in Nat /\ DOMAIN r = 1..Len(r)
      /\ Len(b) \in Nat /\ DOMAIN b = 1..Len(b)
  BY <1>1, LenProperties
<1>3. \A i \in DOMAIN r : i \in Nat /\ i + d \in DOMAIN b /\ r[i] = b[i + d]
  BY <1>1, <1>2
<1>4. Rising(r) /\ Uniform(r) /\ Proper(r)
  <2>1. ASSUME NEW i \in DOMAIN r, NEW j \in DOMAIN r, i < j
        PROVE  r[i].start < r[j].start
    <3>1. i + d \in DOMAIN b /\ j + d \in DOMAIN b /\ i + d < j + d
      BY <1>1, <1>2, <1>3, <2>1
    <3> QED
      BY <1>3, <3>1 DEF Good, Rising
  <2>2. Uniform(r) /\ Proper(r)
    BY <1>3 DEF Good, Uniform, Proper
  <2> QED
    BY <2>1, <2>2 DEF Rising
<1>5. ASSUME NEW i \in DOMAIN r, NEW l \in DOMAIN b, i + d < l,
             Contains(b[i + d], b[l])
      PROVE  \E k \in DOMAIN r : i < k /\ Contains(r[i], r[k])
  <2>1. l - d \in DOMAIN r /\ i < l - d /\ (l - d) + d = l
    BY <1>1, <1>2, <1>5
  <2> QED
    BY <1>3, <1>5, <2>1
<1>6. Laminar(r)
  <2> SUFFICES ASSUME NEW i \in DOMAIN r, NEW j \in DOMAIN r, i < j,
                      ~Disjoint(r[i], r[j])
               PROVE  \E k \in DOMAIN r : i < k /\ Contains(r[i], r[k])
    BY DEF Laminar
  <2>1. /\ i + d \in DOMAIN b /\ j + d \in DOMAIN b /\ i + d < j + d
        /\ ~Disjoint(b[i + d], b[j + d])
    BY <1>1, <1>2, <1>3
  <2>2. PICK l \in DOMAIN b : i + d < l /\ Contains(b[i + d], b[l])
    BY <2>1 DEF Good, Laminar
  <2> QED
    BY <1>5, <2>2
<1>7. ASSUME NEW h \in Headers, Fits(b, h) PROVE Fits(r, h)
  <2> SUFFICES ASSUME NEW i \in DOMAIN r
               PROVE  /\ r[i].hertz = h.hertz
                      /\ r[i].start # h.start
                      /\ \/ Disjoint(r[i], h)
                         \/ h.start < r[i].start /\ Contains(h, r[i])
                         \/ /\ r[i].start < h.start
                            /\ \E l \in DOMAIN r : i < l /\ Contains(r[i], r[l])
    BY <1>7 DEF Fits
  <2>1. r[i] = b[i + d] /\ i + d \in DOMAIN b
    BY <1>3
  <2>2. CASE \E l \in DOMAIN b : i + d < l /\ Contains(b[i + d], b[l])
    <3>1. \E l \in DOMAIN r : i < l /\ Contains(r[i], r[l])
      BY <1>5, <2>2
    <3> QED
      BY <1>7, <2>1, <3>1 DEF Fits
  <2>3. CASE ~\E l \in DOMAIN b : i + d < l /\ Contains(b[i + d], b[l])
    BY <1>7, <2>1, <2>3 DEF Fits
  <2> QED
    BY <2>2, <2>3
<1> QED
  BY <1>4, <1>6, <1>7 DEF Good, r

LEMMA PlacedIsGood ==
    ASSUME NEW b \in Seq(Headers), NEW k \in 0..Len(b), NEW h \in Headers,
           NEW r \in Seq(Headers), Good(b), Fits(b, h), Placed(b, k, h, r)
    PROVE  Good(r)
<1>1. /\ Len(b) \in Nat /\ DOMAIN b = 1..Len(b) /\ k \in Nat /\ k <= Len(b)
      /\ Len(r) = Len(b) + 1 /\ DOMAIN r = 1..(Len(b) + 1)
  BY LenProperties DEF Placed
<1> DEFINE Up(i) == IF i <= k THEN i ELSE i + 1
<1>2. \A i \in DOMAIN b : Up(i) \in DOMAIN r /\ r[Up(i)] = b[i]
  BY <1>1 DEF Placed
<1>3. \A i, j \in DOMAIN b : i < j <=> Up(i) < Up(j)
  BY <1>1
<1>4. \A i \in DOMAIN b :
        /\ Up(i) < k + 1 => b[i].start < h.start
        /\ k + 1 < Up(i) => h.start < b[i].start
        /\ b[i].start < h.start => Up(i) < k + 1
        /\ h.start < b[i].start => k + 1 < Up(i)
  <2> TAKE i \in DOMAIN b
  <2>1. i \in 1..Len(b) /\ b[i].start \in Nat /\ h.start \in Nat
    <3>1. b[i] \in Headers
      BY <1>1, ElementOfSeq
    <3> QED
      BY <1>1, <3>1 DEF Headers
  <2>2. CASE i <= k
    <3>1. b[i].start < h.start
      BY <1>1, <2>1, <2>2 DEF Placed
    <3> QED
      BY <1>1, <2>1, <2>2, <3>1
  <2>3. CASE ~(i <= k)
    <3>1. h.start < b[i].start
      BY <1>1, <2>1, <2>3 DEF Placed
    <3> QED
      BY <1>1, <2>1, <2>3, <3>1
  <2> QED
    BY <2>2, <2>3
<1>5. r[k + 1] = h /\ k + 1 \in DOMAIN r
  BY <1>1 DEF Placed
<1>6. \A i \in DOMAIN r : i = k + 1 \/ \E m \in DOMAIN b : i = Up(m)
  <2> SUFFICES ASSUME NEW i \in DOMAIN r, i # k + 1
               PROVE  \E m \in DOMAIN b : i = Up(m)
    OBVIOUS
  <2>1. CASE i <= k
    <3>1. i \in DOMAIN b /\ i = Up(i)
      BY <1>1, <2>1
    <3> QED
      BY <3>1
  <2>2. CASE ~(i <= k)
    <3>1. i - 1 \in DOMAIN b /\ i = Up(i - 1)
      BY <1>1, <2>2
    <3> QED
      BY <3>1
  <2> QED
    BY <2>1, <2>2
<1> HIDE DEF Up
<1>7. \A i \in DOMAIN r : i \in Int
  BY <1>1
<1>8. Rising(r)
  <2> SUFFICES ASSUME NEW i \in DOMAIN r, NEW j \in DOMAIN r, i < j
               PROVE  r[i].start < r[j].start
    BY DEF Rising
  <2>1. CASE i = k + 1
    <3>1. PICK m \in DOMAIN b : j = Up(m)
      BY <1>1, <1>6, <2>1
    <3> QED
      BY <1>2, <1>4, <1>5, <2>1, <3>1
  <2>2. CASE j = k + 1
    <3>1. PICK m \in DOMAIN b : i = Up(m)
      BY <1>1, <1>6, <2>2
    <3> QED
      BY <1>2, <1>4, <1>5, <2>2, <3>1
  <2>3. CASE i # k + 1 /\ j # k + 1
    <3>1. PICK m \in DOMAIN b : i = Up(m)
      BY <1>6, <2>3
    <3>2. PICK n \in DOMAIN b : j = Up(n)
      BY <1>6, <2>3
    <3> QED
      BY <1>2, <1>3, <3>1, <3>2 DEF Good, Rising
  <2> QED
    BY <2>1, <2>2, <2>3
<1>9. Uniform(r) /\ Proper(r)
  <2>1. \A i \in DOMAIN r : r[i].hertz = h.hertz /\ r[i].start <= r[i].end
    <3> SUFFICES ASSUME NEW i \in DOMAIN r
                 PROVE  r[i].hertz = h.hertz /\ r[i].start <= r[i].end
      OBVIOUS
    <3>1. CASE i = k + 1
      BY <1>5, <3>1 DEF Fits
    <3>2. CASE i # k + 1
      <4>1. PICK m \in DOMAIN b : i = Up(m)
        BY <1>6, <3>2
      <4> QED
        BY <1>2, <4>1 DEF Fits, Good, Proper
    <3> QED
      BY <3>1, <3>2
  <2> QED
    BY <2>1 DEF Uniform, Proper
<1>10. Laminar(r)
  <2> SUFFICES ASSUME NEW i \in DOMAIN r, NEW j \in DOMAIN r, i < j,
                      ~Disjoint(r[i], r[j])
               PROVE  \E l \in DOMAIN r : i < l /\ Contains(r[i], r[l])
    BY DEF Laminar
  <2>1. ASSUME NEW m \in DOMAIN b, NEW l \in DOMAIN b, i = Up(m), m < l,
               Contains(b[m], b[l])
        PROVE  \E n \in DOMAIN r : i < n /\ Contains(r[i], r[n])
    BY <1>2, <1>3, <2>1
  <2>2. CASE i = k + 1
    <3>1. PICK m \in DOMAIN b : j = Up(m)
      BY <1>1, <1>6, <2>2
    <3>2. /\ r[i] = h /\ r[j] = b[m]
          /\ h.start < b[m].start
      BY <1>2, <1>4, <1>5, <2>2, <3>1
    <3>3. ~Disjoint(b[m], h)
      BY <3>2 DEF Disjoint
    <3>4. ~(b[m].start < h.start)
      BY <1>4, <1>7, <1>1, <2>2, <3>1, <3>2
    <3>5. Contains(h, b[m])
      BY <3>3, <3>4 DEF Fits
    <3> QED
      BY <3>2, <3>5
  <2>3. CASE j = k + 1
    <3>1. PICK m \in DOMAIN b : i = Up(m)
      BY <1>1, <1>6, <2>3
    <3>2. /\ r[j] = h /\ r[i] = b[m]
          /\ b[m].start < h.start
      BY <1>2, <1>4, <1>5, <2>3, <3>1
    <3>3. ~(h.start < b[m].start)
      BY <1>4, <1>7, <1>1, <2>3, <3>1, <3>2
    <3>4. PICK l \in DOMAIN b : m < l /\ Contains(b[m], b[l])
      BY <3>2, <3>3 DEF Fits
    <3> QED
      BY <2>1, <3>1, <3>4
  <2>4. CASE i # k + 1 /\ j # k + 1
    <3>1. PICK m \in DOMAIN b : i = Up(m)
      BY <1>6, <2>4
    <3>2. PICK n \in DOMAIN b : j = Up(n)
      BY <1>6, <2>4
    <3>3. m < n /\ ~Disjoint(b[m], b[n])
      BY <1>2, <1>3, <3>1, <3>2
    <3>4. PICK l \in DOMAIN b : m < l /\ Contains(b[m], b[l])
      BY <3>3 DEF Good, Laminar
    <3> QED
      BY <2>1, <3>1, <3>4
  <2> QED
    BY <2>2, <2>3, <2>4
<1> QED
  BY <1>8, <1>9, <1>10 DEF Good

\* How many start before h.
Before(b, h) == Cardinality({i \in DOMAIN b : b[i].start < h.start})

LEMMA BeforeSplits ==
    ASSUME NEW b \in Seq(Headers), NEW h \in Headers, Rising(b),
           \A i \in DOMAIN b : b[i].start # h.start
    PROVE  /\ Before(b, h) \in 0..Len(b)
           /\ \A i \in 1..Before(b, h) : b[i].start < h.start
           /\ \A i \in (Before(b, h) + 1)..Len(b) : h.start < b[i].start
<1> DEFINE S == {i \in DOMAIN b : b[i].start < h.start}
           k == Cardinality(S)
<1>1. /\ Len(b) \in Nat /\ DOMAIN b = 1..Len(b)
      /\ \A i \in DOMAIN b : b[i].start \in Nat
      /\ h.start \in Nat
  <2>1. \A i \in DOMAIN b : b[i] \in Headers
    BY ElementOfSeq, LenProperties
  <2> QED
    BY <2>1, LenProperties DEF Headers
<1>2. \A n \in 0..Len(b) : IsFiniteSet(1..n) /\ Cardinality(1..n) = n
  <2> TAKE n \in 0..Len(b)
  <2>1. IsFiniteSet(1..n) /\ Cardinality(1..n) = IF 1 > n THEN 0 ELSE n - 1 + 1
    BY <1>1, FS_Interval
  <2> QED
    BY <1>1, <2>1
<1>3. S \subseteq 1..Len(b) /\ IsFiniteSet(S) /\ k \in 0..Len(b)
  <2>1. S \subseteq 1..Len(b)
    BY <1>1
  <2>2. /\ IsFiniteSet(1..Len(b)) /\ Cardinality(1..Len(b)) = Len(b)
    BY <1>1, <1>2
  <2>3. IsFiniteSet(S) /\ k <= Len(b)
    BY <2>1, <2>2, FS_Subset
  <2>4. k \in Nat
    BY <2>3, FS_CardinalityType
  <2> QED
    BY <1>1, <2>1, <2>3, <2>4
<1>4. \A i \in S : \A j \in 1..i : j \in S
  <2> TAKE i \in S
  <2> TAKE j \in 1..i
  <2>1. i \in DOMAIN b /\ j \in DOMAIN b /\ (j = i \/ j < i)
    BY <1>1
  <2>2. b[j].start <= b[i].start
    BY <1>1, <2>1 DEF Rising
  <2> QED
    BY <1>1, <2>1, <2>2
<1> HIDE DEF S
<1>5. ASSUME NEW i \in S PROVE i <= k
  <2>1. 1..i \subseteq S /\ i \in 0..Len(b)
    BY <1>1, <1>3, <1>4
  <2>2. Cardinality(1..i) = i
    BY <1>2, <2>1
  <2> QED
    BY <1>3, <2>1, <2>2, FS_Subset
<1>6. ASSUME NEW i \in 1..k PROVE i \in S
  <2> SUFFICES ASSUME i \notin S PROVE FALSE
    OBVIOUS
  <2>1. \A j \in S : j < i
    <3> TAKE j \in S
    <3>1. i \in 1..j \/ j < i
      BY <1>1, <1>3
    <3> QED
      BY <1>4, <3>1
  <2>2. S \subseteq 1..(i - 1) /\ i - 1 \in 0..Len(b)
    BY <1>1, <1>3, <2>1
  <2>3. IsFiniteSet(1..(i - 1)) /\ Cardinality(1..(i - 1)) = i - 1
    BY <1>2, <2>2
  <2>4. k <= i - 1
    BY <2>2, <2>3, FS_Subset
  <2> QED
    BY <1>1, <1>3, <2>4
<1>7. \A i \in 1..k : b[i].start < h.start
  BY <1>6 DEF S
<1>8. \A i \in (k + 1)..Len(b) : h.start < b[i].start
  <2> TAKE i \in (k + 1)..Len(b)
  <2>1. i \in DOMAIN b /\ ~(i <= k)
    BY <1>1, <1>3
  <2>2. ~(b[i].start < h.start)
    BY <1>5, <2>1 DEF S
  <2> QED
    BY <1>1, <2>1, <2>2
<1>9. Before(b, h) = k
  BY DEF Before, S
<1> QED
  BY <1>3, <1>7, <1>8, <1>9

LEMMA InsertPlaces ==
    ASSUME NEW b \in Seq(Headers), NEW k \in 0..Len(b), NEW h \in Headers,
           \A i \in 1..k : b[i].start < h.start,
           \A i \in (k + 1)..Len(b) : h.start < b[i].start
    PROVE  LET r == SubSeq(b, 1, k) \o <<h>> \o SubSeq(b, k + 1, Len(b))
           IN  r \in Seq(Headers) /\ Placed(b, k, h, r)
<1> DEFINE s == SubSeq(b, 1, k)
           t == SubSeq(b, k + 1, Len(b))
           r == s \o <<h>> \o t
<1>1. Len(b) \in Nat /\ k \in Nat /\ k <= Len(b)
  BY LenProperties
<1>2. s \in Seq(Headers) /\ Len(s) = k /\ \A i \in 1..k : s[i] = b[i]
  BY <1>1
<1>3. /\ t \in Seq(Headers) /\ Len(t) = Len(b) - k
      /\ \A i \in 1..(Len(b) - k) : t[i] = b[k + i]
  BY <1>1
<1> HIDE DEF s, t
<1>4. /\ r \in Seq(Headers) /\ Len(r) = Len(b) + 1
      /\ \A i \in 1..k : r[i] = s[i]
      /\ r[k + 1] = h
      /\ \A i \in (k + 2)..(Len(b) + 1) : r[i] = t[i - k - 1]
  BY <1>1, <1>2, <1>3
<1>5. \A i \in (k + 1)..Len(b) : r[i + 1] = b[i]
  <2> TAKE i \in (k + 1)..Len(b)
  <2>1. /\ i + 1 \in (k + 2)..(Len(b) + 1) /\ (i + 1) - k - 1 = i - k
        /\ i - k \in 1..(Len(b) - k) /\ k + (i - k) = i
    BY <1>1
  <2> HIDE DEF r
  <2> QED
    BY <1>3, <1>4, <2>1
<1> HIDE DEF r
<1>6. Placed(b, k, h, r)
  BY <1>1, <1>2, <1>4, <1>5 DEF Placed
<1> QED
  BY <1>4, <1>6 DEF r, s, t

\* The three ways a header gets into a buffer that is not empty.
LEMMA SortedInsertPlaces ==
    ASSUME NEW b \in Seq(Headers), b # <<>>, NEW cap \in Nat, Len(b) <= cap,
           NEW h \in Headers, Good(b), Fits(b, h)
    PROVE  LET r == PlaceSorted(b, cap, h)
           IN  /\ r \in Seq(Headers)
               /\ \E k \in 0..Len(Kept(b, cap)) : Placed(Kept(b, cap), k, h, r)
<1> DEFINE q == Kept(b, cap)
<1>1. q \in Seq(Headers) /\ Good(q) /\ Fits(q, h)
  BY KeptProperties, KeptIsGood
<1>2. PlaceSorted(b, cap, h) = SubSeq(q, 1, Before(q, h)) \o <<h>>
                                 \o SubSeq(q, Before(q, h) + 1, Len(q))
  BY DEF PlaceSorted, Before, Kept
<1> HIDE DEF q
<1>3. /\ Before(q, h) \in 0..Len(q)
      /\ \A i \in 1..Before(q, h) : q[i].start < h.start
      /\ \A i \in (Before(q, h) + 1)..Len(q) : h.start < q[i].start
  <2>1. Rising(q) /\ \A i \in DOMAIN q : q[i].start # h.start
    BY <1>1 DEF Good, Fits
  <2> QED
    BY <1>1, <2>1, BeforeSplits
<1>4. /\ PlaceSorted(b, cap, h) \in Seq(Headers)
      /\ Placed(q, Before(q, h), h, PlaceSorted(b, cap, h))
  BY <1>1, <1>2, <1>3, InsertPlaces
<1> QED
  BY <1>3, <1>4 DEF q

LEMMA PushBackPlaces ==
    ASSUME NEW b \in Seq(Headers), b # <<>>, NEW cap \in Nat, Len(b) <= cap,
           NEW h \in Headers, \A i \in DOMAIN b : b[i].start < h.start
    PROVE  LET r == PushBack(b, cap, h)
           IN  /\ r \in Seq(Headers)
               /\ \E k \in 0..Len(Kept(b, cap)) : Placed(Kept(b, cap), k, h, r)
<1> DEFINE q == Kept(b, cap)
<1>1. PICK d \in {0, 1} : /\ q \in Seq(Headers) /\ Len(q) = Len(b) - d
                          /\ \A i \in 1..Len(q) : q[i] = b[i + d]
  BY KeptProperties
<1>2. PushBack(b, cap, h) = Append(q, h)
  BY DEF PushBack, Kept
<1> HIDE DEF q
<1>3. Len(q) \in Nat /\ Len(b) \in Nat /\ DOMAIN b = 1..Len(b)
  BY <1>1, LenProperties
<1>4. \A i \in 1..Len(q) : q[i].start < h.start
  <2> TAKE i \in 1..Len(q)
  <2>1. i + d \in DOMAIN b /\ q[i] = b[i + d]
    BY <1>1, <1>3
  <2> QED
    BY <2>1
<1>5. /\ Append(q, h) \in Seq(Headers) /\ Len(Append(q, h)) = Len(q) + 1
      /\ Append(q, h)[Len(q) + 1] = h
      /\ \A i \in 1..Len(q) : Append(q, h)[i] = q[i]
  BY <1>1, AppendProperties
<1>6. Placed(q, Len(q), h, Append(q, h))
  BY <1>3, <1>4, <1>5 DEF Placed
<1>7. Len(q) \in 0..Len(q)
  BY <1>3
<1> QED
  BY <1>2, <1>5, <1>6, <1>7 DEF q

LEMMA PushFrontPlaces ==
    ASSUME NEW b \in Seq(Headers), NEW h \in Headers,
           \A i \in DOMAIN b : h.start < b[i].start
    PROVE  <<h>> \o b \in Seq(Headers) /\ Placed(b, 0, h, <<h>> \o b)
<1>1. Len(b) \in Nat /\ DOMAIN b = 1..Len(b)
  BY LenProperties
<1>2. /\ <<h>> \o b \in Seq(Headers) /\ Len(<<h>> \o b) = Len(b) + 1
      /\ (<<h>> \o b)[1] = h
      /\ \A i \in 1..Len(b) : (<<h>> \o b)[i + 1] = b[i]
  BY <1>1
<1> QED
  BY <1>1, <1>2 DEF Placed

-----------------------------------------------------------------------------
(* What is remembered of a channel.                                        *)

NotNested(headers) == \A g, k \in headers : ~Contains(g, k)

\* A is what was allowed on a channel with buffer b, R what b ever held: while
\* no packet contains another, what has left b is older than all of it.
Remembers(b, cap, A, R) ==
    /\ A \subseteq R /\ R \subseteq Headers
    /\ \A g \in R : g.start <= g.end
    /\ Range(b) \subseteq R
    /\ b = <<>> => R = {}
    /\ b # <<>> => b[Len(b)] \in A
    /\ NotNested(R) =>
         \A g \in R : \/ g \in Range(b)
                      \/ Len(b) >= cap /\ g.end < b[1].start

\* A packet that fits and is not older than the buffer begins behind its first
\* header, which disappears when the buffer is full.
LEMMA BehindFront ==
    ASSUME NEW b \in Seq(Headers), b # <<>>, NEW h \in Headers,
           Good(b), Fits(b, h), h.end >= b[1].start,
           NEW R, Range(b) \subseteq R, h \in R, NotNested(R)
    PROVE  /\ b[1].end < h.start
           /\ \A i \in DOMAIN b : i = 1 \/ b[1].end < b[i].start
<1>1. /\ Len(b) \in Nat /\ DOMAIN b = 1..Len(b) /\ 1 \in DOMAIN b
      /\ \A i \in DOMAIN b : b[i] \in Headers /\ b[i] \in R
  <2>1. Len(b) \in Nat /\ Len(b) # 0 /\ DOMAIN b = 1..Len(b)
    BY EmptySeq, LenProperties
  <2>2. \A i \in DOMAIN b : b[i] \in Headers /\ b[i] \in Range(b)
    BY <2>1, ElementOfSeq DEF Range
  <2> QED
    BY <2>1, <2>2
<1>2. \A i, l \in DOMAIN b : ~Contains(b[i], b[l]) /\ ~Contains(h, b[i])
  BY <1>1 DEF NotNested
<1>3. \A i \in DOMAIN b : /\ b[i].start \in Nat /\ b[i].end \in Int
                          /\ b[i].start <= b[i].end
  BY <1>1 DEF Headers, Good, Proper
<1>4. b[1].end < h.start
  <2>1. Disjoint(b[1], h)
    BY <1>1, <1>2 DEF Fits
  <2>2. h.end \in Int /\ h.start \in Nat
    BY DEF Headers
  <2> QED
    BY <1>1, <1>3, <2>1, <2>2 DEF Disjoint
<1>5. ASSUME NEW i \in DOMAIN b, i # 1 PROVE b[1].end < b[i].start
  <2>1. 1 < i
    BY <1>1, <1>5
  <2>2. Disjoint(b[1], b[i]) /\ b[1].start < b[i].start
    BY <1>1, <1>2, <2>1 DEF Good, Laminar, Rising
  <2> QED
    BY <1>1, <1>3, <2>2 DEF Disjoint
<1> QED
  BY <1>4, <1>5

\* A header that has been put into the buffer and allowed.
LEMMA InsertionRemembered ==
    ASSUME NEW b \in Seq(Headers), b # <<>>, NEW cap \in Nat, Len(b) <= cap,
           NEW h \in Headers, Good(b), Fits(b, h), h.end >= b[1].start,
           NEW r \in Seq(Headers), NEW k \in 0..Len(Kept(b, cap)),
           Placed(Kept(b, cap), k, h, r),
           NEW A, NEW R, Remembers(b, cap, A, R)
    PROVE  /\ Good(r) /\ Len(r) <= cap
           /\ Remembers(r, cap, A \union {h}, R \union Range(r))
<1> DEFINE q == Kept(b, cap)
           S == R \union Range(r)
<1>1. PICK d \in {0, 1} :
        /\ q \in Seq(Headers) /\ Len(q) = Len(b) - d /\ Len(q) + 1 <= cap
        /\ \A i \in 1..Len(q) : q[i] = b[i + d]
        /\ Len(b) >= cap <=> d = 1
        /\ Len(b) >= cap => Len(q) + 1 >= cap
  <2>1. CASE Len(b) >= cap
    BY <2>1, KeptProperties
  <2>2. CASE ~(Len(b) >= cap)
    BY <2>2, KeptProperties
  <2> QED
    BY <2>1, <2>2
<1>2. Good(q) /\ Fits(q, h)
  BY KeptIsGood
<1> HIDE DEF q
<1>3. Good(r)
  BY <1>1, <1>2, PlacedIsGood DEF q
<1>4. /\ Len(b) \in Nat /\ Len(b) >= 1 /\ DOMAIN b = 1..Len(b)
      /\ Len(q) \in Nat /\ DOMAIN q = 1..Len(q)
      /\ Len(r) = Len(q) + 1 /\ DOMAIN r = 1..(Len(q) + 1)
      /\ k \in Nat /\ k <= Len(q)
  BY <1>1, EmptySeq, LenProperties DEF Placed, q
<1>5. /\ \A i \in 1..k : r[i] = q[i]
      /\ r[k + 1] = h
      /\ \A i \in (k + 1)..Len(q) : r[i + 1] = q[i]
  BY DEF Placed, q
<1>6. h \in Range(r) /\ \A i \in DOMAIN q : q[i] \in Range(r)
  <2>1. h \in Range(r)
    <3>1. k + 1 \in DOMAIN r
      BY <1>4
    <3> QED
      BY <1>5, <3>1 DEF Range
  <2>2. ASSUME NEW i \in DOMAIN q PROVE q[i] \in Range(r)
    <3>1. CASE i <= k
      <4>1. i \in 1..k /\ i \in DOMAIN r
        BY <1>4, <3>1
      <4> QED
        BY <1>5, <4>1 DEF Range
    <3>2. CASE ~(i <= k)
      <4>1. i \in (k + 1)..Len(q) /\ i + 1 \in DOMAIN r
        BY <1>4, <3>2
      <4> QED
        BY <1>5, <4>1 DEF Range
    <3> QED
      BY <3>1, <3>2
  <2> QED
    BY <2>1, <2>2
<1>7. \A i \in DOMAIN b : b[i] \in Range(r) \/ (i = 1 /\ Len(b) >= cap)
  <2> TAKE i \in DOMAIN b
  <2>1. CASE i - d \in DOMAIN q
    <3>1. q[i - d] = b[i]
      BY <1>1, <1>4, <2>1
    <3> QED
      BY <1>6, <2>1, <3>1
  <2>2. CASE i - d \notin DOMAIN q
    BY <1>1, <1>4, <2>2
  <2> QED
    BY <2>1, <2>2
<1>8. \A i \in DOMAIN r : r[i] = h \/ \E m \in DOMAIN b : r[i] = b[m]
  <2> SUFFICES ASSUME NEW i \in DOMAIN r, i # k + 1
               PROVE  \E m \in DOMAIN b : r[i] = b[m]
    BY <1>5
  <2>1. \E n \in DOMAIN q : r[i] = q[n]
    <3>1. CASE i <= k
      <4>1. i \in 1..k /\ i \in DOMAIN q
        BY <1>4, <3>1
      <4> QED
        BY <1>5, <4>1
    <3>2. CASE ~(i <= k)
      <4>1. /\ i - 1 \in (k + 1)..Len(q) /\ (i - 1) + 1 = i
            /\ i - 1 \in DOMAIN q
        BY <1>4, <3>2
      <4>2. r[(i - 1) + 1] = q[i - 1]
        BY <1>5, <4>1
      <4> QED
        BY <4>1, <4>2
    <3> QED
      BY <3>1, <3>2
  <2>2. PICK n \in DOMAIN q : r[i] = q[n]
    BY <2>1
  <2>3. n \in 1..Len(q) /\ n + d \in 1..Len(b)
    BY <1>1, <1>4
  <2>4. n + d \in DOMAIN b /\ q[n] = b[n + d]
    BY <1>1, <1>4, <2>3
  <2> QED
    BY <2>2, <2>4
<1>9. S \subseteq R \union {h} /\ h \in S /\ R \subseteq S
  BY <1>6, <1>8 DEF Range, Remembers
<1>10. S \subseteq Headers /\ \A g \in S : g.start <= g.end
  BY <1>9 DEF Remembers, Fits
<1>11. r # <<>> /\ r[Len(r)] \in A \union {h}
  <2>1. CASE k = Len(q)
    BY <1>4, <1>5, <2>1
  <2>2. CASE k # Len(q)
    <3>1. /\ Len(q) \in (k + 1)..Len(q) /\ Len(q) \in 1..Len(q)
          /\ Len(q) + d = Len(b)
      BY <1>1, <1>4, <2>2
    <3>2. r[Len(r)] = b[Len(b)]
      BY <1>1, <1>4, <1>5, <3>1
    <3> QED
      BY <1>4, <3>2 DEF Remembers
  <2> QED
    BY <2>1, <2>2
<1>12. ASSUME NotNested(S), NEW g \in S
       PROVE  g \in Range(r) \/ (Len(r) >= cap /\ g.end < r[1].start)
  <2>1. NotNested(R) /\ Range(b) \subseteq S /\ (g \in R \/ g = h)
    BY <1>9, <1>12 DEF NotNested, Remembers
  <2>2. /\ b[1].end < h.start
        /\ \A i \in DOMAIN b : i = 1 \/ b[1].end < b[i].start
    BY <1>9, <1>12, <2>1, BehindFront
  <2>3. Len(b) >= cap => Len(r) >= cap /\ b[1].end < r[1].start
    <3> SUFFICES ASSUME Len(b) >= cap PROVE b[1].end < r[1].start
      BY <1>1, <1>4
    <3>1. CASE k = 0
      BY <1>5, <2>2, <3>1
    <3>2. CASE k # 0
      <4>1. 1 \in 1..k /\ 1 \in 1..Len(q) /\ d = 1 /\ 2 \in DOMAIN b
        BY <1>1, <1>4, <3>2
      <4>2. r[1] = b[2]
        BY <1>1, <1>5, <4>1
      <4> QED
        BY <2>2, <4>1, <4>2
    <3> QED
      BY <3>1, <3>2
  <2>4. CASE g = h
    BY <1>6, <2>4
  <2>5. CASE g \in Range(b)
    <3>1. PICK i \in DOMAIN b : g = b[i]
      BY <2>5 DEF Range
    <3> QED
      BY <1>7, <2>3, <3>1
  <2>6. CASE g \in R /\ g \notin Range(b)
    <3>1. Len(b) >= cap /\ g.end < b[1].start
      BY <2>1, <2>6 DEF Remembers
    <3>2. b[1] \in Headers /\ b[1].start <= b[1].end /\ 1 \in DOMAIN r
      BY <1>4, ElementOfSeq DEF Good, Proper
    <3>3. r[1] \in Headers /\ g \in Headers
      BY <1>4, <1>10, <3>2, ElementOfSeq
    <3>4. /\ g.end \in Int /\ b[1].start \in Int /\ b[1].end \in Int
          /\ r[1].start \in Int
      <4>1. \A x \in Headers : x.start \in Int /\ x.end \in Int
        BY DEF Headers
      <4> QED
        BY <3>2, <3>3, <4>1
    <3>5. b[1].end < r[1].start /\ Len(r) >= cap
      BY <2>3, <3>1
    <3> QED
      BY <3>1, <3>2, <3>4, <3>5
  <2> QED
    BY <2>1, <2>4, <2>5, <2>6
<1>13. Remembers(r, cap, A \union {h}, S)
  <2>1. A \union {h} \subseteq S /\ Range(r) \subseteq S
    BY <1>9 DEF Remembers
  <2> QED
    BY <1>10, <1>11, <1>12, <2>1 DEF Remembers
<1> QED
  BY <1>1, <1>3, <1>4, <1>13

\* An old header that has been put in front.
LEMMA FrontRemembered ==
    ASSUME NEW b \in Seq(Headers), b # <<>>, NEW cap \in Nat, Len(b) < cap,
           NEW h \in Headers, Good(b), Fits(b, h),
           \A i \in DOMAIN b : h.start < b[i].start,
           NEW A, NEW R, Remembers(b, cap, A, R)
    PROVE  LET r == <<h>> \o b
           IN  /\ r \in Seq(Headers) /\ Good(r) /\ Len(r) <= cap
               /\ Remembers(r, cap, A, R \union Range(r))
<1> DEFINE r == <<h>> \o b
           S == R \union Range(r)
<1>1. r \in Seq(Headers) /\ Placed(b, 0, h, r)
  BY PushFrontPlaces
<1> HIDE DEF r
<1>2. /\ Len(b) \in Nat /\ Len(b) >= 1 /\ DOMAIN b = 1..Len(b)
      /\ Len(r) = Len(b) + 1 /\ DOMAIN r = 1..(Len(b) + 1)
      /\ r[1] = h /\ \A i \in 1..Len(b) : r[i + 1] = b[i]
      /\ 0 \in 0..Len(b)
  BY <1>1, EmptySeq, LenProperties DEF Placed
<1>3. Good(r)
  BY <1>1, <1>2, PlacedIsGood
<1>4. Range(r) = Range(b) \union {h}
  <2>1. \A i \in DOMAIN r : i = 1 \/ (i - 1 \in DOMAIN b /\ r[i] = b[i - 1])
    <3> TAKE i \in DOMAIN r
    <3>1. i # 1 => i - 1 \in 1..Len(b) /\ (i - 1) + 1 = i
      BY <1>2
    <3> QED
      BY <1>2, <3>1
  <2>2. \A i \in DOMAIN b : i + 1 \in DOMAIN r /\ r[i + 1] = b[i]
    BY <1>2
  <2>3. 1 \in DOMAIN r
    BY <1>2
  <2> QED
    BY <1>2, <2>1, <2>2, <2>3 DEF Range
<1>5. /\ A \subseteq S /\ S \subseteq Headers /\ Range(r) \subseteq S
      /\ \A g \in S : g.start <= g.end
  BY <1>4 DEF Remembers, Fits
<1>6. r # <<>> /\ r[Len(r)] \in A
  <2>1. r[Len(b) + 1] = b[Len(b)]
    BY <1>2
  <2> QED
    BY <1>2, <2>1 DEF Remembers
<1>7. ASSUME NotNested(S), NEW g \in S PROVE g \in Range(r)
  <2>1. NotNested(R) /\ ~(Len(b) >= cap)
    BY <1>2, <1>7 DEF NotNested
  <2> QED
    BY <1>4, <2>1 DEF Remembers
<1>8. Remembers(r, cap, A, S)
  BY <1>5, <1>6, <1>7 DEF Remembers
<1> QED
  BY <1>1, <1>2, <1>3, <1>8 DEF r

LEMMA CompareProperties ==
    ASSUME NEW g \in Headers, NEW h \in Headers
    PROVE  /\ Compare(g, h) = "different" => g.hertz = h.hertz
           /\ Compare(g, h) = "same" =>
                g.hertz = h.hertz /\ Distance(g.start, h.start) < Tolerance(g.hertz)
BY DEF Compare

\* A header that fits, and is neither old nor the same as a buffered one, does
\* not repeat one that was allowed.
LEMMA NoRepeat ==
    ASSUME NEW b \in Seq(Headers), b # <<>>, NEW cap,
           NEW h \in Headers, Good(b), Fits(b, h), h.end >= b[1].start,
           Find(b, h, "different"),
           NEW A, NEW R, Remembers(b, cap, A, R),
           NEW S, R \union {h} \subseteq S, Plain(S),
           NEW g \in A
    PROVE  Compare(g, h) # "same"
<1> SUFFICES ASSUME Compare(g, h) = "same" PROVE FALSE
  OBVIOUS
<1>1. g \in R /\ g \in S /\ g \in Headers /\ g.start <= g.end
  BY DEF Remembers
<1>2. NotNested(S) /\ NotNested(R) /\ Range(b) \subseteq S /\ h \in S
  BY DEF Plain, NotNested, Remembers
<1>3. g \notin Range(b)
  BY DEF Find, Range
<1>4. g.end < b[1].start
  BY <1>1, <1>2, <1>3 DEF Remembers
<1>5. b[1].end < h.start
  BY <1>2, BehindFront
<1>6. 1 \in DOMAIN b /\ b[1] \in Headers /\ b[1] \in S
  <2>1. 1 \in DOMAIN b /\ 1 \in 1..Len(b)
    BY EmptySeq, LenProperties
  <2> QED
    BY <1>2, <2>1, ElementOfSeq DEF Range
<1>7. b[1].hertz = g.hertz /\ Distance(g.start, h.start) < Tolerance(g.hertz)
  BY <1>1, <1>6, CompareProperties DEF Fits
<1>8. /\ 2 * (g.end - g.start) >= Tolerance(g.hertz)
      /\ 2 * (b[1].end - b[1].start) >= Tolerance(g.hertz)
  BY <1>1, <1>6, <1>7 DEF Plain
<1>9. /\ g.start \in Int /\ g.end \in Int /\ h.start \in Int
      /\ b[1].start \in Int /\ b[1].end \in Int
  <2>1. \A x \in Headers : x.start \in Int /\ x.end \in Int
    BY DEF Headers
  <2> QED
    BY <1>1, <1>6, <2>1
<1>10. Tolerance(g.hertz) \in Nat
  BY DEF Tolerance
<1>11. g.start < h.start
  BY <1>1, <1>4, <1>5, <1>6, <1>8, <1>9, <1>10
<1>12. h.start - g.start < Tolerance(g.hertz)
  BY <1>7, <1>9, <1>11 DEF Distance
<1> QED
  BY <1>4, <1>5, <1>8, <1>9, <1>10, <1>12

\* A header that is different from all in the buffer has their rate.
LEMMA SameRate ==
    ASSUME NEW b \in Seq(Headers), NEW h \in Headers, Find(b, h, "different")
    PROVE  \A i \in DOMAIN b : b[i].hertz = h.hertz
<1>1. \A i \in DOMAIN b : b[i] \in Headers
  BY ElementOfSeq, LenProperties
<1> QED
  BY <1>1, CompareProperties DEF Find

LEMMA EndsOfGood ==
    ASSUME NEW b \in Seq(Headers), b # <<>>, Good(b)
    PROVE  /\ Len(b) \in DOMAIN b /\ 1 \in DOMAIN b
           /\ \A i \in DOMAIN b : /\ b[i].start \in Int /\ b[i].end \in Int
                                  /\ b[i].start <= b[i].end
                                  /\ i = 1 \/ b[1].start < b[i].start
                                  /\ \/ i = Len(b)
                                     \/ i < Len(b) /\ b[i].start < b[Len(b)].start
<1>1. Len(b) \in Nat /\ Len(b) >= 1 /\ DOMAIN b = 1..Len(b)
  BY EmptySeq, LenProperties
<1>2. \A i \in DOMAIN b : b[i] \in Headers
  BY <1>1, ElementOfSeq
<1>3. \A i \in DOMAIN b : /\ b[i].start \in Int /\ b[i].end \in Int
                          /\ b[i].start <= b[i].end
  BY <1>2 DEF Headers, Good, Proper
<1>4. \A i \in DOMAIN b : i = 1 \/ b[1].start < b[i].start
  BY <1>1 DEF Good, Rising
<1>5. \A i \in DOMAIN b : \/ i = Len(b)
                          \/ i < Len(b) /\ b[i].start < b[Len(b)].start
  BY <1>1 DEF Good, Rising
<1>6. Len(b) \in DOMAIN b /\ 1 \in DOMAIN b
  BY <1>1
<1> QED
  BY <1>3, <1>4, <1>5, <1>6

LEMMA NewestFits ==
    ASSUME NEW b \in Seq(Headers), b # <<>>, NEW h \in Headers, Good(b),
           h.start <= h.end, Find(b, h, "different"),
           h.start > b[Len(b)].end
    PROVE  /\ Fits(b, h) /\ h.end >= b[1].start
           /\ \A i \in DOMAIN b : b[i].start < h.start
<1>1. h.start \in Int /\ h.end \in Int
  BY DEF Headers
<1>2. \A i \in DOMAIN b : b[i].start < h.start
  BY <1>1, EndsOfGood
<1>3. h.end >= b[1].start
  BY <1>1, <1>2, EndsOfGood
<1>4. ASSUME NEW i \in DOMAIN b
      PROVE  \/ Disjoint(b[i], h)
             \/ \E l \in DOMAIN b : i < l /\ Contains(b[i], b[l])
  <2>1. CASE b[i].end < h.start
    BY <2>1 DEF Disjoint
  <2>2. CASE ~(b[i].end < h.start)
    <3>1. i < Len(b) /\ b[i].start < b[Len(b)].start /\ Len(b) \in DOMAIN b
      BY <2>2, EndsOfGood
    <3>2. b[Len(b)].end < b[i].end
      BY <1>1, <2>2, <3>1, EndsOfGood
    <3> QED
      BY <3>1, <3>2 DEF Contains
  <2> QED
    BY <2>1, <2>2
<1>5. \A i \in DOMAIN b : b[i].start # h.start
  BY <1>1, <1>2, EndsOfGood
<1>6. Fits(b, h)
  BY <1>2, <1>4, <1>5, SameRate DEF Fits
<1> QED
  BY <1>2, <1>3, <1>6

LEMMA ExpiredFits ==
    ASSUME NEW b \in Seq(Headers), b # <<>>, NEW h \in Headers, Good(b),
           h.start <= h.end, Find(b, h, "different"), h.end < b[1].start
    PROVE  Fits(b, h) /\ \A i \in DOMAIN b : h.start < b[i].start
<1>1. h.start \in Int /\ h.end \in Int
  BY DEF Headers
<1>2. \A i \in DOMAIN b : h.end < b[i].start /\ h.start < b[i].start
                          /\ b[i].start # h.start
  BY <1>1, EndsOfGood
<1> QED
  BY <1>2, SameRate DEF Fits, Disjoint

LEMMA BackfillFits ==
    ASSUME NEW b \in Seq(Headers), b # <<>>, NEW h \in Headers, Good(b),
           h.start <= h.end, Find(b, h, "different"), ~Slips(b, h)
    PROVE  Fits(b, h)
<1>1. h.start \in Int /\ h.end \in Int
  BY DEF Headers
<1>2. ASSUME NEW i \in DOMAIN b
      PROVE  /\ b[i].start # h.start
             /\ Disjoint(b[i], h) \/ (h.start < b[i].start /\ Contains(h, b[i]))
  <2>1. ~Within(h.start, b[i]) /\ ~Within(h.end, b[i])
    BY DEF Slips
  <2> QED
    BY <1>1, <2>1, EndsOfGood DEF Within, Disjoint, Contains
<1> QED
  BY <1>2, SameRate DEF Fits

-----------------------------------------------------------------------------
(* The inductive invariant.                                                *)

Channel(c) ==
    Good(buffers[c]) /\ Remembers(buffers[c], capacity[c], allowed[c], recorded[c])

DInv == TypeOK /\ \A c \in Names : Channel(c)

LEMMA InitDInv == Init => DInv
<1> SUFFICES ASSUME Init PROVE DInv
  OBVIOUS
<1>1. <<>> \in Seq(Headers) /\ Len(<<>>) = 0 /\ DOMAIN <<>> = {}
  OBVIOUS
<1>2. TypeOK
  BY <1>1, DetectorAssumption DEF Init, TypeOK
<1>3. Good(<<>>)
  BY <1>1 DEF Good, Rising, Uniform, Proper, Laminar
<1>4. Range(<<>>) = {}
  BY <1>1 DEF Range
<1>5. Remembers(<<>>, 0, {}, {})
  BY <1>4 DEF Remembers
<1> QED
  BY <1>2, <1>3, <1>5 DEF Init, DInv, Channel

LEMMA ChannelTypes ==
    ASSUME DInv, NEW c \in Names
    PROVE  /\ buffers[c] \in Seq(Headers) /\ capacity[c] \in Nat
           /\ Len(buffers[c]) <= capacity[c]
           /\ Good(buffers[c])
           /\ Remembers(buffers[c], capacity[c], allowed[c], recorded[c])
BY DEF DInv, TypeOK, Channel

\* A step that changes one channel, to something that keeps the invariant.
LEMMA Lift ==
    ASSUME DInv, NEW c \in Names, calls' \in 0..MaxCalls,
           NEW r \in Seq(Headers), NEW cap \in Nat, Len(r) <= cap, Good(r),
           NEW A, NEW R, Remembers(r, cap, A, R),
           buffers' = [buffers EXCEPT ![c] = r],
           capacity' = [capacity EXCEPT ![c] = cap],
           allowed' = [allowed EXCEPT ![c] = A],
           recorded' = [recorded EXCEPT ![c] = R]
    PROVE  DInv'
<1>1. A \in SUBSET Headers /\ R \in SUBSET Headers
  BY DEF Remembers
<1>2. /\ buffers' \in [Names -> Seq(Headers)]
      /\ capacity' \in [Names -> Nat]
      /\ allowed' \in [Names -> SUBSET Headers]
      /\ recorded' \in [Names -> SUBSET Headers]
  BY <1>1 DEF DInv, TypeOK
<1>3. ASSUME NEW d \in Names
      PROVE  Len(buffers'[d]) <= capacity'[d] /\ Channel(d)'
  <2>1. CASE d = c
    <3>1. /\ buffers'[d] = r /\ capacity'[d] = cap
          /\ allowed'[d] = A /\ recorded'[d] = R
      BY <2>1 DEF DInv, TypeOK
    <3> QED
      BY <3>1 DEF Channel
  <2>2. CASE d # c
    <3>1. /\ buffers'[d] = buffers[d] /\ capacity'[d] = capacity[d]
          /\ allowed'[d] = allowed[d] /\ recorded'[d] = recorded[d]
      BY <2>2 DEF DInv, TypeOK
    <3> QED
      BY <3>1, ChannelTypes DEF Channel
  <2> QED
    BY <2>1, <2>2
<1>4. TypeOK'
  BY <1>2, <1>3 DEF TypeOK
<1> QED
  BY <1>3, <1>4 DEF DInv

\* A call that leaves the buffer alone.
LEMMA NothingStored ==
    ASSUME DInv, NEW c \in Names, calls' \in 0..MaxCalls, NEW h, NEW result,
           UNCHANGED <<buffers, capacity>>, result # "allow",
           Answer(c, h, result)
    PROVE  DInv' /\ last'.result # "allow"
<1>1. Remembers(buffers[c], capacity[c], allowed[c], recorded[c])
  BY ChannelTypes
<1>2. recorded[c] \union Range(buffers[c]) = recorded[c]
  BY <1>1 DEF Remembers
<1>3. /\ buffers' = [buffers EXCEPT ![c] = buffers[c]]
      /\ capacity' = [capacity EXCEPT ![c] = capacity[c]]
      /\ allowed' = [allowed EXCEPT ![c] = allowed[c]]
      /\ recorded' = [recorded EXCEPT ![c] = recorded[c]]
  BY <1>2 DEF DInv, TypeOK, Answer
<1>4. DInv'
  BY <1>3, ChannelTypes, Lift
<1> QED
  BY <1>4 DEF Answer

\* What every call keeps, and what it answers.
Called(c, h) ==
    /\ DInv'
    /\ last'.name = c /\ last'.header = h
    /\ \A g \in allowed[c] :
         last'.result = "allow" /\ Plain(recorded'[c]) => Compare(g, h) # "same"

LEMMA RefusalIsCalled ==
    ASSUME DInv, NEW c \in Names, calls' \in 0..MaxCalls, NEW h, NEW result,
           UNCHANGED <<buffers, capacity>>, result # "allow",
           Answer(c, h, result)
    PROVE  Called(c, h)
<1>1. last'.name = c /\ last'.header = h
  BY DEF Answer
<1> QED
  BY <1>1, NothingStored DEF Called

LEMMA FirstIsCalled ==
    ASSUME DInv, NEW c \in Names, calls' \in 0..MaxCalls, NEW h \in Headers,
           h.start <= h.end, FirstOfChannel(c, h)
    PROVE  Called(c, h)
<1>1. /\ buffers[c] = <<>> /\ h.n > 0
      /\ buffers' = [buffers EXCEPT ![c] = <<h>>]
      /\ capacity' = [capacity EXCEPT ![c] = CapacityFor(h)]
      /\ Answer(c, h, "allow")
  BY DEF FirstOfChannel
<1>2. allowed[c] = {} /\ recorded[c] = {}
  BY <1>1, ChannelTypes DEF Remembers
<1>3. buffers'[c] = <<h>>
  BY <1>1 DEF DInv, TypeOK
<1>4. /\ <<h>> \in Seq(Headers) /\ Len(<<h>>) = 1 /\ DOMAIN <<h>> = {1}
      /\ <<h>>[1] = h /\ <<h>> # <<>>
  OBVIOUS
<1>5. Range(<<h>>) = {h}
  BY <1>4 DEF Range
<1>6. Good(<<h>>)
  BY <1>4 DEF Good, Rising, Uniform, Proper, Laminar
<1>7. Remembers(<<h>>, CapacityFor(h), {h}, {h})
  BY <1>4, <1>5 DEF Remembers
<1>8. CapacityFor(h) \in Nat /\ CapacityFor(h) >= 1
  BY <1>1, CapacityProperties
<1>9. /\ allowed' = [allowed EXCEPT ![c] = {h}]
      /\ recorded' = [recorded EXCEPT ![c] = {h}]
  <2>1. allowed[c] \union {h} = {h} /\ recorded[c] \union Range(buffers'[c]) = {h}
    BY <1>2, <1>3, <1>5
  <2> QED
    BY <1>1, <2>1 DEF Answer
<1>10. DInv'
  BY <1>1, <1>4, <1>6, <1>7, <1>8, <1>9, Lift
<1>11. last'.name = c /\ last'.header = h
  BY <1>1 DEF Answer
<1> QED
  BY <1>2, <1>10, <1>11 DEF Called

\* A header that is put into a buffer and allowed.
LEMMA StoringIsCalled ==
    ASSUME DInv, NEW c \in Names, calls' \in 0..MaxCalls, NEW h \in Headers,
           buffers[c] # <<>>, Find(buffers[c], h, "different"),
           Fits(buffers[c], h), h.end >= buffers[c][1].start,
           NEW r \in Seq(Headers),
           \E k \in 0..Len(Kept(buffers[c], capacity[c])) :
             Placed(Kept(buffers[c], capacity[c]), k, h, r),
           buffers' = [buffers EXCEPT ![c] = r],
           UNCHANGED capacity, Answer(c, h, "allow")
    PROVE  Called(c, h)
<1> DEFINE b == buffers[c]
           A == allowed[c] \union {h}
           R == recorded[c] \union Range(r)
<1>1. /\ b \in Seq(Headers) /\ capacity[c] \in Nat /\ Len(b) <= capacity[c]
      /\ Good(b) /\ Remembers(b, capacity[c], allowed[c], recorded[c])
  BY ChannelTypes
<1>2. Good(r) /\ Len(r) <= capacity[c] /\ Remembers(r, capacity[c], A, R)
  BY <1>1, InsertionRemembered
<1>3. buffers'[c] = r
  BY DEF DInv, TypeOK
<1>4. /\ capacity' = [capacity EXCEPT ![c] = capacity[c]]
      /\ allowed' = [allowed EXCEPT ![c] = A]
      /\ recorded' = [recorded EXCEPT ![c] = R]
  BY <1>3 DEF DInv, TypeOK, Answer
<1> HIDE DEF A, R
<1>5. DInv'
  BY <1>1, <1>2, <1>4, Lift
<1>6. last'.name = c /\ last'.header = h
  BY DEF Answer
<1>7. ASSUME NEW g \in allowed[c], Plain(recorded'[c])
      PROVE  Compare(g, h) # "same"
  <2>1. recorded'[c] = R
    BY <1>4 DEF DInv, TypeOK
  <2>2. recorded[c] \union {h} \subseteq R
    BY <1>2 DEF Remembers, A, R
  <2> QED
    BY <1>1, <1>7, <2>1, <2>2, NoRepeat
<1> QED
  BY <1>5, <1>6, <1>7 DEF Called

LEMMA NewestIsCalled ==
    ASSUME DInv, NEW c \in Names, calls' \in 0..MaxCalls, NEW h \in Headers,
           h.start <= h.end, Newest(c, h)
    PROVE  Called(c, h)
<1> DEFINE r == PushBack(buffers[c], capacity[c], h)
<1>1. /\ buffers[c] # <<>> /\ Find(buffers[c], h, "different")
      /\ h.start > buffers[c][Len(buffers[c])].end
      /\ buffers' = [buffers EXCEPT ![c] = r]
      /\ UNCHANGED capacity /\ Answer(c, h, "allow")
  BY DEF Newest, Known, Back
<1>2. /\ Fits(buffers[c], h) /\ h.end >= buffers[c][1].start
      /\ \A i \in DOMAIN buffers[c] : buffers[c][i].start < h.start
  BY <1>1, ChannelTypes, NewestFits
<1>3. /\ r \in Seq(Headers)
      /\ \E k \in 0..Len(Kept(buffers[c], capacity[c])) :
           Placed(Kept(buffers[c], capacity[c]), k, h, r)
  BY <1>1, <1>2, ChannelTypes, PushBackPlaces
<1> HIDE DEF r
<1> QED
  BY <1>1, <1>2, <1>3, StoringIsCalled

LEMMA BackfillIsCalled ==
    ASSUME DInv, NEW c \in Names, calls' \in 0..MaxCalls, NEW h \in Headers,
           h.start <= h.end, Backfill(c, h)
    PROVE  Called(c, h)
<1> DEFINE r == PlaceSorted(buffers[c], capacity[c], h)
<1>1. /\ buffers[c] # <<>> /\ Find(buffers[c], h, "different")
      /\ h.end >= buffers[c][1].start /\ ~Slips(buffers[c], h)
      /\ buffers' = [buffers EXCEPT ![c] = r]
      /\ UNCHANGED capacity /\ Answer(c, h, "allow")
  BY DEF Backfill, InBetween, Known, Front
<1>2. Fits(buffers[c], h)
  BY <1>1, ChannelTypes, BackfillFits
<1>3. /\ r \in Seq(Headers)
      /\ \E k \in 0..Len(Kept(buffers[c], capacity[c])) :
           Placed(Kept(buffers[c], capacity[c]), k, h, r)
  BY <1>1, <1>2, ChannelTypes, SortedInsertPlaces
<1> HIDE DEF r
<1> QED
  BY <1>1, <1>2, <1>3, StoringIsCalled

LEMMA ExpiredIsCalled ==
    ASSUME DInv, NEW c \in Names, calls' \in 0..MaxCalls, NEW h \in Headers,
           h.start <= h.end, Expired(c, h)
    PROVE  Called(c, h)
<1> DEFINE b == buffers[c]
           r == <<h>> \o b
<1>1. /\ b # <<>> /\ Find(b, h, "different")
      /\ h.end < b[1].start
      /\ buffers' = [buffers EXCEPT ![c] = IF Full(c) THEN b ELSE r]
      /\ UNCHANGED capacity /\ Answer(c, h, "reject")
  BY DEF Expired, Known, Front
<1>2. CASE Full(c)
  <2>1. buffers' = buffers
    BY <1>1, <1>2 DEF DInv, TypeOK
  <2> QED
    BY <1>1, <2>1, RefusalIsCalled
<1>3. CASE ~Full(c)
  <2>1. /\ b \in Seq(Headers) /\ capacity[c] \in Nat /\ Len(b) < capacity[c]
        /\ Good(b) /\ Remembers(b, capacity[c], allowed[c], recorded[c])
    <3>1. Len(b) \in Nat
      BY ChannelTypes, LenProperties
    <3> QED
      BY <1>3, <3>1, ChannelTypes DEF Full
  <2>2. Fits(b, h) /\ \A i \in DOMAIN b : h.start < b[i].start
    BY <1>1, <2>1, ExpiredFits
  <2>3. /\ r \in Seq(Headers) /\ Good(r) /\ Len(r) <= capacity[c]
        /\ Remembers(r, capacity[c], allowed[c], recorded[c] \union Range(r))
    BY <1>1, <2>1, <2>2, FrontRemembered
  <2> HIDE DEF r
  <2>4. buffers' = [buffers EXCEPT ![c] = r] /\ buffers'[c] = r
    BY <1>1, <1>3 DEF DInv, TypeOK
  <2>5. /\ capacity' = [capacity EXCEPT ![c] = capacity[c]]
        /\ allowed' = [allowed EXCEPT ![c] = allowed[c]]
        /\ recorded' = [recorded EXCEPT ![c] = recorded[c] \union Range(r)]
    BY <1>1, <2>4 DEF DInv, TypeOK, Answer
  <2>6. DInv'
    BY <2>1, <2>3, <2>4, <2>5, Lift
  <2>7. last'.name = c /\ last'.header = h /\ last'.result # "allow"
    BY <1>1 DEF Answer
  <2> QED
    BY <2>6, <2>7 DEF Called
<1> QED
  BY <1>2, <1>3

LEMMA BranchIsCalled ==
    ASSUME DInv, NEW c \in Names, calls' \in 0..MaxCalls, NEW h,
           h.n > 0 => h \in Headers /\ h.start <= h.end,
           \/ Malformed(c, h) \/ FirstOfChannel(c, h) \/ Inconsistent(c, h)
           \/ Duplicate(c, h) \/ Newest(c, h) \/ Expired(c, h) \/ Slip(c, h)
           \/ Backfill(c, h)
    PROVE  Called(c, h)
<1>1. CASE Malformed(c, h)
  BY <1>1, RefusalIsCalled DEF Malformed
<1>2. CASE FirstOfChannel(c, h)
  <2>1. h.n > 0
    BY <1>2 DEF FirstOfChannel
  <2> QED
    BY <1>2, <2>1, FirstIsCalled
<1>3. CASE Inconsistent(c, h)
  BY <1>3, RefusalIsCalled DEF Inconsistent
<1>4. CASE Duplicate(c, h)
  BY <1>4, RefusalIsCalled DEF Duplicate
<1>5. CASE Newest(c, h)
  <2>1. h.n > 0
    BY <1>5 DEF Newest, Known
  <2> QED
    BY <1>5, <2>1, NewestIsCalled
<1>6. CASE Expired(c, h)
  <2>1. h.n > 0
    BY <1>6 DEF Expired, Known
  <2> QED
    BY <1>6, <2>1, ExpiredIsCalled
<1>7. CASE Slip(c, h)
  BY <1>7, RefusalIsCalled DEF Slip
<1>8. CASE Backfill(c, h)
  <2>1. h.n > 0
    BY <1>8 DEF Backfill, InBetween, Known
  <2> QED
    BY <1>8, <2>1, BackfillIsCalled
<1> QED
  BY <1>1, <1>2, <1>3, <1>4, <1>5, <1>6, <1>7, <1>8

LEMMA AllowIsCalled ==
    ASSUME DInv, NEW p \in Packets, Allow(p)
    PROVE  Called(p.name, Header(p))
<1>1. p.name \in Names /\ calls' \in 0..MaxCalls
  <2>1. calls \in 0..MaxCalls /\ calls < MaxCalls /\ calls' = calls + 1
    BY DEF DInv, TypeOK, Allow
  <2> QED
    BY <2>1, DetectorAssumption DEF Packets
<1> QED
  BY <1>1, HeaderProperties, BranchIsCalled DEF Allow

LEMMA NextDInv == DInv /\ [Next]_vars => DInv'
<1> SUFFICES ASSUME DInv, [Next]_vars PROVE DInv'
  OBVIOUS
<1>1. CASE Next
  BY <1>1, AllowIsCalled DEF Next, Called
<1>2. CASE UNCHANGED vars
  BY <1>2 DEF vars, DInv, TypeOK, Channel
<1> QED
  BY <1>1, <1>2

LEMMA ForwardIsDifferent ==
    ASSUME DInv, NEW c \in Names, NEW h \in Headers, Forward(c, h),
           buffers[c] # <<>>
    PROVE  /\ h.start > Back(c).end
           /\ \A i \in DOMAIN buffers[c] : Compare(buffers[c][i], h) = "different"
<1> DEFINE b == buffers[c]
           n == Len(b)
<1>1. /\ b \in Seq(Headers) /\ Good(b) /\ b[n] \in allowed[c]
  BY ChannelTypes DEF Remembers
<1>2. /\ n \in DOMAIN b
      /\ \A i \in DOMAIN b : /\ b[i].start \in Int /\ b[i].end \in Int
                             /\ i = n \/ b[i].start < b[n].start
  BY <1>1, EndsOfGood
<1>3. /\ h.hertz = b[n].hertz /\ h.start > b[n].end
      /\ b[n].end - b[n].start >= Tolerance(h.hertz)
  BY <1>1 DEF Forward
<1>4. h.start \in Int /\ Tolerance(h.hertz) \in Nat
  BY DEF Headers, Tolerance
<1>5. ASSUME NEW i \in DOMAIN b PROVE Compare(b[i], h) = "different"
  <2>1. b[i].hertz = h.hertz
    BY <1>1, <1>2, <1>3 DEF Good, Uniform
  <2>2. b[i].start < h.start /\ h.start - b[i].start >= Tolerance(h.hertz)
    <3>1. b[i].start <= b[n].start
      BY <1>2
    <3>2. b[i].start \in Int /\ b[n].start \in Int /\ b[n].end \in Int
      BY <1>2
    <3> QED
      BY <1>3, <1>4, <3>1, <3>2
  <2>3. ~(Distance(b[i].start, h.start) < Tolerance(h.hertz))
    BY <1>2, <1>4, <2>2 DEF Distance
  <2>4. Tolerance(h.hertz) # 0
    BY <1>4 DEF Forward
  <2> QED
    BY <2>1, <2>3, <2>4 DEF Compare
<1> QED
  BY <1>3, <1>5 DEF Back

LEMMA ForwardPasses ==
    ASSUME DInv, NEW c \in Names, NEW h, Forward(c, h),
           h.n > 0 => h \in Headers,
           \/ Malformed(c, h) \/ FirstOfChannel(c, h) \/ Inconsistent(c, h)
           \/ Duplicate(c, h) \/ Newest(c, h) \/ Expired(c, h) \/ Slip(c, h)
           \/ Backfill(c, h)
    PROVE  last'.result = "allow"
<1>1. h.n > 0 /\ h \in Headers
  BY DEF Forward
<1>2. ~Malformed(c, h)
  BY <1>1 DEF Malformed
<1>3. CASE buffers[c] = <<>>
  <2>1. FirstOfChannel(c, h)
    BY <1>2, <1>3 DEF Inconsistent, Duplicate, Newest, Expired, Slip, Backfill,
                     InBetween, Known
  <2> QED
    BY <2>1 DEF FirstOfChannel, Answer
<1>4. CASE buffers[c] # <<>>
  <2>1. /\ h.start > Back(c).end
        /\ \A i \in DOMAIN buffers[c] : Compare(buffers[c][i], h) = "different"
    BY <1>1, <1>4, ForwardIsDifferent
  <2>2. ~Inconsistent(c, h) /\ ~Duplicate(c, h)
    BY <2>1 DEF Inconsistent, Duplicate, Known, Find
  <2>3. h.start \in Int /\ Back(c).end \in Int
    BY <1>1, <1>4, ChannelTypes, EndsOfGood DEF Headers, Back
  <2>4. ~(h.start <= Back(c).end)
    BY <2>1, <2>3
  <2>5. ~Expired(c, h) /\ ~Slip(c, h) /\ ~Backfill(c, h)
    BY <2>4 DEF Expired, Slip, Backfill, InBetween
  <2>6. Newest(c, h)
    BY <1>2, <1>4, <2>2, <2>5 DEF FirstOfChannel
  <2> QED
    BY <2>6 DEF Newest, Answer
<1> QED
  BY <1>3, <1>4

-----------------------------------------------------------------------------
(* The theorems.                                                           *)

\* The invariant holds throughout.
THEOREM Invariance == Spec => []DInv
BY InitDInv, NextDInv, PTL DEF Spec

\* Every variable has its type, and no buffer outgrows its capacity.
THEOREM TypeCorrectness == Spec => []TypeOK
<1>1. DInv => TypeOK
  BY DEF DInv
<1> QED
  BY <1>1, Invariance, PTL

\* The buffers stay sorted, without two headers of one start time, however
\* packets arrive.
THEOREM BuffersAreSorted == Spec => []Sorted
<1>1. DInv => Sorted
  BY DEF DInv, Channel, Good, Rising, Sorted
<1> QED
  BY <1>1, Invariance, PTL

\* A buffer never holds headers of two rates.
THEOREM BuffersHaveOneRate == Spec => []OneRate
<1>1. DInv => OneRate
  BY DEF DInv, Channel, Good, Uniform, OneRate
<1> QED
  BY <1>1, Invariance, PTL

\* Buffered packets overlap only where one contains another.
THEOREM OnlyNestingOverlaps == Spec => []DisjointUnlessNested
<1>1. DInv => DisjointUnlessNested
  <2> SUFFICES ASSUME DInv, NEW c \in Names,
                      NEW i \in DOMAIN buffers[c], NEW j \in DOMAIN buffers[c],
                      \A k, l \in DOMAIN buffers[c] :
                        ~Contains(buffers[c][k], buffers[c][l]),
                      i # j
               PROVE  Disjoint(buffers[c][i], buffers[c][j])
    BY DEF DisjointUnlessNested
  <2>1. i < j \/ j < i
    BY ChannelTypes, LenProperties
  <2>2. Disjoint(buffers[c][i], buffers[c][j]) \/ Disjoint(buffers[c][j], buffers[c][i])
    BY <2>1, ChannelTypes DEF Good, Laminar
  <2> QED
    BY <2>2 DEF Disjoint
<1> QED
  BY <1>1, Invariance, PTL

\* While packets are plain, allow() never lets a repeat pass, also when the
\* buffer has forgotten the packet it repeats.
THEOREM RepeatsAreRefused == Spec => NoReadmissionUnlessNested
<1> DEFINE Refused ==
      last'.result = "allow" /\ Plain(recorded'[last'.name]) => ~Repeats
<1>1. DInv /\ [Next]_vars => [Refused]_vars
  <2> SUFFICES ASSUME DInv, NEW p \in Packets, Allow(p) PROVE Refused
    BY DEF Next
  <2>1. Called(p.name, Header(p))
    BY AllowIsCalled
  <2> QED
    BY <2>1 DEF Called, Repeats
<1> QED
  BY <1>1, Invariance, PTL DEF Spec, NoReadmissionUnlessNested

\* A stream that moves forward is never held up, whatever the capacity of the
\* buffer and whatever old packets come between.
THEOREM ForwardStreamsPass == Spec => ForwardIsAllowed
<1> DEFINE Passes == Forward(last'.name, last'.header) => last'.result = "allow"
<1>1. DInv /\ [Next]_vars => [Passes]_vars
  <2> SUFFICES ASSUME DInv, NEW p \in Packets, Allow(p) PROVE Passes
    BY DEF Next
  <2>1. last'.name = p.name /\ last'.header = Header(p)
    BY AllowIsCalled DEF Called
  <2>2. p.name \in Names /\ (Header(p).n > 0 => Header(p) \in Headers)
    BY HeaderProperties DEF Packets
  <2>3. Forward(p.name, Header(p)) => last'.result = "allow"
    BY <2>2, ForwardPasses DEF Allow
  <2> QED
    BY <2>1, <2>3
<1> QED
  BY <1>1, Invariance, PTL DEF Spec, ForwardIsAllowed
=============================================================================
