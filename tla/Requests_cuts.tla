---------------------------- MODULE Requests_cuts ----------------------------
(***************************************************************************)
(* What the operators do that cut the nodes of a request into pieces: each *)
(* keeps every node it is given, and keeps it once, for any number of      *)
(* nodes, conductors and workers.  The exception is the slices for three   *)
(* conductors or more, which share no node but may leave some out.         *)
(***************************************************************************)
EXTENDS Requests, FiniteSetTheorems, SequenceTheorems, WellFoundedInduction, TLAPS

\* The elements that are kept are those of the sequence that are in the set, in
\* a sequence without repetition if there was none before.
LEMMA KeptIs ==
  ASSUME NEW T, NEW s \in Seq(T), NEW S
  PROVE  /\ Kept(s, S) \in Seq(T)
         /\ Len(Kept(s, S)) <= Len(s)
         /\ Range(Kept(s, S)) = Range(s) \intersect S
         /\ IsInjective(s) => IsInjective(Kept(s, S))
<1> DEFINE at == {i \in DOMAIN s : s[i] \in S}
           c == Cardinality(at)
           Below(i) == {j \in at : j < i}
           pick(k) == CHOOSE i \in at : Cardinality(Below(i)) = k - 1
<1>1. at \subseteq 1..Len(s) /\ DOMAIN s = 1..Len(s) /\ Len(s) \in Nat /\ \A i \in 1..Len(s) : s[i] \in T
  OBVIOUS
<1>2. \A i \in at : Below(i) \in SUBSET at /\ i \notin Below(i) /\ i \in Nat
  BY <1>1
<1>3. \A i, k \in at : i < k => Below(i) \in SUBSET Below(k) /\ i \in Below(k)
  BY <1>1
<1>4. Kept(s, S) = [k \in 1..c |-> s[pick(k)]]
  BY DEF Kept
<1>5. \A x : x \in at <=> x \in 1..Len(s) /\ s[x] \in S
  OBVIOUS
<1>6. \A k : (\E i \in at : Cardinality(Below(i)) = k - 1) =>
              pick(k) \in at /\ Cardinality(Below(pick(k))) = k - 1
  OBVIOUS
<1> HIDE DEF at, Below, pick
<1>7. IsFiniteSet(at) /\ c \in Nat /\ c <= Len(s)
  <2>1. \A n \in Nat : IsFiniteSet(1..n) /\ Cardinality(1..n) = n
    BY FS_Interval
  <2>2. IsFiniteSet(1..Len(s)) /\ Cardinality(1..Len(s)) = Len(s)
    BY <1>1, <2>1
  <2>3. at \in SUBSET (1..Len(s))
    BY <1>1
  <2>4. IsFiniteSet(at) /\ c <= Len(s)
    BY <2>2, <2>3, FS_Subset
  <2> QED BY <2>4, FS_CardinalityType
<1> HIDE DEF c
<1>8. ASSUME NEW i \in at
      PROVE  Cardinality(Below(i)) \in Nat /\ Cardinality(Below(i)) < c /\ IsFiniteSet(Below(i))
  <2>1. Below(i) \in SUBSET at /\ Below(i) # at
    BY <1>2
  <2>2. IsFiniteSet(Below(i)) /\ Cardinality(Below(i)) <= Cardinality(at)
        /\ (Cardinality(at) = Cardinality(Below(i)) => at = Below(i))
    BY <1>7, <2>1, FS_Subset
  <2>3. IsFiniteSet(Below(i)) /\ Cardinality(Below(i)) <= c /\ Cardinality(Below(i)) # c
    BY <2>1, <2>2 DEF c
  <2>4. Cardinality(Below(i)) \in Nat
    BY <2>3, FS_CardinalityType
  <2> QED BY <1>7, <2>3, <2>4
<1>9. ASSUME NEW i \in at, NEW k \in at, i < k
      PROVE  Cardinality(Below(i)) < Cardinality(Below(k))
  <2>1. Cardinality(Below(i)) <= Cardinality(Below(k)) /\ Cardinality(Below(i)) # Cardinality(Below(k))
    BY <1>2, <1>3, <1>8, <1>9, FS_Subset
  <2> QED BY <1>8, <2>1
<1>10. ASSUME NEW i \in at, NEW k \in at, Cardinality(Below(i)) = Cardinality(Below(k))
      PROVE  i = k
  <2>1. i \in Nat /\ k \in Nat /\ Cardinality(Below(i)) \in Nat /\ ~(i < k) /\ ~(k < i)
    BY <1>2, <1>8, <1>9, <1>10
  <2> QED BY <2>1
<1> DEFINE rank == [i \in at |-> Cardinality(Below(i)) + 1]
<1>11. rank \in Injection(at, 1..c)
  <2>1. rank \in [at -> 1..c]
    BY <1>7, <1>8
  <2>2. ASSUME NEW i \in at, NEW k \in at, rank[i] = rank[k] PROVE i = k
    <3>1. Cardinality(Below(i)) = Cardinality(Below(k))
      BY <1>8, <2>2
    <3> QED BY <1>10, <3>1
  <2> HIDE DEF rank
  <2> QED BY <2>1, <2>2 DEF Injection, IsInjective
<1>12. rank \in Surjection(at, 1..c)
  <2>1. IsFiniteSet(1..c) /\ Cardinality(1..c) = c
    BY <1>7, FS_Interval
  <2> HIDE DEF rank
  <2> QED BY <1>11, <2>1, FS_Injection DEF c
<1>13. ASSUME NEW k \in 1..c PROVE pick(k) \in at /\ Cardinality(Below(pick(k))) = k - 1
  <2>1. PICK i \in at : rank[i] = k
    BY <1>12 DEF Surjection
  <2>2. Cardinality(Below(i)) = k - 1
    BY <1>8, <2>1
  <2> QED BY <1>6, <2>2
<1> HIDE DEF rank
<1>14. Kept(s, S) \in Seq(T) /\ Len(Kept(s, S)) = c /\ DOMAIN Kept(s, S) = 1..c
  <2>1. \A k \in 1..c : s[pick(k)] \in T
    BY <1>1, <1>13
  <2> QED BY <1>7, <1>4, <2>1
<1>15. ASSUME NEW i \in at PROVE \E k \in 1..c : pick(k) = i
  <2> DEFINE k == Cardinality(Below(i)) + 1
  <2>1. k \in 1..c /\ k - 1 = Cardinality(Below(i))
    BY <1>7, <1>8
  <2> HIDE DEF k
  <2>2. Cardinality(Below(pick(k))) = Cardinality(Below(i)) /\ pick(k) \in at
    BY <1>13, <2>1
  <2> QED BY <1>10, <2>1, <2>2
<1>16. Range(Kept(s, S)) = Range(s) \intersect S
  <2>1. ASSUME NEW x \in Range(s) \intersect S PROVE x \in Range(Kept(s, S))
    <3>1. PICK i \in 1..Len(s) : s[i] = x
      BY <1>1, <2>1 DEF Range
    <3>2. i \in at
      BY <1>5, <2>1, <3>1
    <3>3. PICK k \in 1..c : pick(k) = i
      BY <1>15, <3>2
    <3>4. Kept(s, S)[k] = x /\ k \in DOMAIN Kept(s, S)
      BY <1>4, <1>14, <3>1, <3>3
    <3> QED BY <3>4 DEF Range
  <2>2. ASSUME NEW x \in Range(Kept(s, S)) PROVE x \in Range(s) \intersect S
    <3>1. PICK k \in 1..c : x = s[pick(k)]
      BY <1>4, <1>14, <2>2 DEF Range
    <3>2. pick(k) \in 1..Len(s) /\ s[pick(k)] \in S
      BY <1>13, <1>5
    <3> QED BY <1>1, <3>1, <3>2 DEF Range
  <2> QED BY <2>1, <2>2
<1>17. ASSUME IsInjective(s) PROVE IsInjective(Kept(s, S))
  <2>1. SUFFICES ASSUME NEW k \in 1..c, NEW l \in 1..c, s[pick(k)] = s[pick(l)]
                 PROVE  k = l
    BY <1>4, <1>14 DEF IsInjective
  <2>2. pick(k) = pick(l)
    BY <1>1, <1>13, <1>17, <2>1 DEF IsInjective
  <2>3. k - 1 = l - 1
    BY <1>13, <2>2
  <2> QED BY <1>7, <2>3
<1> QED BY <1>7, <1>14, <1>16, <1>17

\* Multiplication by a natural number keeps the order.
LEMMA MulMono == \A a, b, c \in Nat : a <= b => a * c <= b * c /\ c * a <= c * b /\ a * c \in Nat
<1> SUFFICES ASSUME NEW a \in Nat, NEW b \in Nat, NEW c \in Nat, a <= b
             PROVE  a * c <= b * c /\ c * a <= c * b /\ a * c \in Nat
  OBVIOUS
<1>1. PICK d \in Nat : b = a + d
  <2>1. b - a \in Nat /\ b = a + (b - a)
    OBVIOUS
  <2> QED BY <2>1
<1>2. b * c = a * c + d * c
  BY <1>1
<1>3. d * c \in Nat /\ a * c \in Nat
  OBVIOUS
<1> QED BY <1>2, <1>3

\* What the division of natural numbers gives.
LEMMA DivBounds ==
  ASSUME NEW n \in Nat, NEW k \in Nat \ {0}
  PROVE  /\ n \div k \in Nat
         /\ (n \div k) * k <= n /\ n < ((n \div k) + 1) * k
OBVIOUS

\* The elements of a sequence at a to b.
Between(s, a, b) == {s[i] : i \in a..b}

\* A slice of a sequence holds what is between its ends.
LEMMA SliceIs ==
  ASSUME NEW T, NEW s \in Seq(T), NEW a \in Nat \ {0}, NEW b \in Int, b <= Len(s)
  PROVE  /\ SubSeq(s, a, b) \in Seq(T)
         /\ Range(SubSeq(s, a, b)) = Between(s, a, b)
         /\ a <= b => SubSeq(s, a, b) # <<>>
         /\ IsInjective(s) => IsInjective(SubSeq(s, a, b))
<1>1. \A i \in a..b : s[i] \in T
  OBVIOUS
<1>2. /\ SubSeq(s, a, b) \in Seq(T)
      /\ Len(SubSeq(s, a, b)) = IF a <= b THEN b - a + 1 ELSE 0
      /\ \A i \in 1..(b - a + 1) : SubSeq(s, a, b)[i] = s[a + i - 1]
  BY <1>1, SubSeqProperties
<1> DEFINE q == SubSeq(s, a, b)
<1> HIDE DEF q
<1>3. DOMAIN q = 1..(b - a + 1)
  BY <1>2 DEF q
<1>4. Range(q) = {s[i] : i \in a..b}
  <2>1. ASSUME NEW x \in Range(q) PROVE x \in {s[i] : i \in a..b}
    <3>1. PICK j \in 1..(b - a + 1) : x = q[j]
      BY <1>3, <2>1 DEF Range
    <3>2. a + j - 1 \in a..b /\ x = s[a + j - 1]
      BY <1>2, <3>1 DEF q
    <3> QED BY <3>2
  <2>2. ASSUME NEW i \in a..b PROVE s[i] \in Range(q)
    <3>1. i - a + 1 \in 1..(b - a + 1) /\ a + (i - a + 1) - 1 = i
      OBVIOUS
    <3>2. q[i - a + 1] = s[i]
      BY <1>2, <3>1 DEF q
    <3> QED BY <1>3, <3>1, <3>2 DEF Range
  <2> QED BY <2>1, <2>2
<1>5. ASSUME a <= b PROVE q # <<>>
  <2>1. Len(q) = b - a + 1 /\ b - a + 1 # 0
    BY <1>2, <1>5 DEF q
  <2>2. Len(<<>>) = 0
    OBVIOUS
  <2> QED BY <2>1, <2>2
<1>6. ASSUME IsInjective(s) PROVE IsInjective(q)
  <2>1. SUFFICES ASSUME NEW i \in 1..(b - a + 1), NEW j \in 1..(b - a + 1), q[i] = q[j] PROVE i = j
    BY <1>3 DEF IsInjective
  <2>2. q[i] = s[a + i - 1] /\ q[j] = s[a + j - 1]
    BY <1>2 DEF q
  <2>3. a + i - 1 \in DOMAIN s /\ a + j - 1 \in DOMAIN s
    OBVIOUS
  <2>4. a + i - 1 = a + j - 1
    BY <1>6, <2>1, <2>2, <2>3 DEF IsInjective
  <2> QED BY <2>4
<1> QED BY <1>2, <1>4, <1>5, <1>6 DEF q, Between

\* The groups of a conductor have each of its nodes once.
LEMMA GroupsAre ==
  ASSUME NEW T, NEW s \in Seq(T), NEW workers \in Nat \ {0}
  PROVE  /\ \A g \in Groups(s, workers) : Range(g) \subseteq Range(s)
         /\ \A x \in Range(s) : \E g \in Groups(s, workers) : x \in Range(g)
         /\ IsInjective(s) => \A g, h \in Groups(s, workers) : g # h => Range(g) \intersect Range(h) = {}
<1> DEFINE n == Len(s)
           k == IF n < GroupCount THEN 1 ELSE workers
           share == n \div k
           first(i) == (i - 1) * share + 1
           last(i) == IF i < k THEN i * share ELSE n
           group(i) == SubSeq(s, first(i), last(i))
<1>1. Groups(s, workers) = {group(i) : i \in 1..k} \ {<<>>}
  BY DEF Groups
<1>2. n \in Nat /\ k \in Nat \ {0} /\ DOMAIN s = 1..n /\ \A i \in 1..n : s[i] \in T
  OBVIOUS
<1> HIDE DEF k
<1>3. share \in Nat /\ share * k <= n /\ n < (share + 1) * k
  BY <1>2, DivBounds
<1> HIDE DEF share, n
<1>4. ASSUME NEW i \in 1..k
      PROVE  first(i) \in Nat \ {0} /\ last(i) \in Nat /\ last(i) <= n
  <2>1. i - 1 \in Nat /\ i \in Nat /\ (i - 1) * share \in Nat /\ i * share \in Nat /\ i * share <= k * share
    BY <1>2, <1>3, MulMono
  <2>2. k * share = share * k
    BY <1>2, <1>3
  <2> QED BY <1>2, <1>3, <2>1, <2>2
<1>5. ASSUME NEW i \in 1..k, NEW j \in 1..k, i < j
      PROVE  last(i) < first(j)
  <2>1. i < k /\ i \in Nat /\ j - 1 \in Nat /\ i <= j - 1 /\ i * share <= (j - 1) * share
        /\ i * share \in Nat /\ (j - 1) * share \in Nat
    BY <1>2, <1>3, <1>5, MulMono
  <2> QED BY <2>1
<1>6. ASSUME NEW p \in 1..n
      PROVE  \E i \in 1..k : p \in first(i)..last(i)
  <2>1. CASE p > (k - 1) * share
    <3>1. k \in 1..k /\ p \in first(k)..last(k)
      BY <1>2, <1>3, <2>1, <1>4
    <3> QED BY <3>1
  <2>2. CASE p <= (k - 1) * share
    <3>1. share # 0
      BY <1>2, <2>2
    <3> DEFINE m == (p - 1) \div share
    <3>2. m \in Nat /\ m * share <= p - 1 /\ p - 1 < (m + 1) * share
      BY <1>2, <1>3, <3>1, DivBounds
    <3> HIDE DEF m
    <3>3. m < k - 1
      <4>1. SUFFICES ASSUME k - 1 <= m PROVE FALSE
        BY <1>2, <3>2
      <4>2. k - 1 \in Nat /\ (k - 1) * share <= m * share
        BY <1>2, <1>3, <3>2, <4>1, MulMono
      <4> QED BY <1>2, <1>3, <2>2, <3>2, <4>2
    <3>4. m + 1 \in 1..k /\ first(m + 1) = m * share + 1 /\ last(m + 1) = (m + 1) * share
      BY <1>2, <1>3, <3>2, <3>3
    <3>5. p \in first(m + 1)..last(m + 1)
      BY <1>2, <1>3, <3>2, <3>4
    <3> QED BY <3>4, <3>5
  <2> QED BY <1>2, <1>3, <2>1, <2>2
<1> HIDE DEF first, last
<1>7. ASSUME NEW i \in 1..k
      PROVE  /\ Range(group(i)) = Between(s, first(i), last(i))
             /\ first(i) <= last(i) => group(i) # <<>>
             /\ first(i)..last(i) \subseteq 1..n
  <2>1. first(i) \in Nat \ {0} /\ last(i) \in Int /\ last(i) <= Len(s) /\ last(i) <= n /\ last(i) \in Nat
    BY <1>4 DEF n
  <2>2. /\ Range(group(i)) = Between(s, first(i), last(i))
        /\ first(i) <= last(i) => group(i) # <<>>
    BY <2>1, SliceIs
  <2>3. first(i)..last(i) \subseteq 1..n
    BY <1>2, <2>1
  <2> QED BY <2>2, <2>3
<1> HIDE DEF group
<1>8. ASSUME NEW g \in Groups(s, workers) PROVE Range(g) \subseteq Range(s)
  <2>1. PICK i \in 1..k : g = group(i)
    BY <1>1, <1>8
  <2> QED BY <1>2, <1>7, <2>1 DEF Range, Between
<1>9. ASSUME NEW x \in Range(s) PROVE \E g \in Groups(s, workers) : x \in Range(g)
  <2>1. PICK p \in 1..n : s[p] = x
    BY <1>2 DEF Range
  <2>2. PICK i \in 1..k : p \in first(i)..last(i)
    BY <1>6
  <2>3. x \in Range(group(i)) /\ group(i) # <<>>
    BY <1>4, <1>7, <2>1, <2>2 DEF Between
  <2> QED BY <1>1, <2>3
<1>10. ASSUME IsInjective(s), NEW g \in Groups(s, workers), NEW h \in Groups(s, workers), g # h
       PROVE  Range(g) \intersect Range(h) = {}
  <2>1. PICK i \in 1..k, j \in 1..k : g = group(i) /\ h = group(j)
    BY <1>1
  <2>2. SUFFICES ASSUME NEW x, x \in Range(g), x \in Range(h) PROVE FALSE
    OBVIOUS
  <2>3. PICK p \in first(i)..last(i), q \in first(j)..last(j) : s[p] = x /\ s[q] = x
    BY <1>7, <2>1, <2>2 DEF Between
  <2>4. p = q
    BY <1>2, <1>7, <1>10, <2>3 DEF IsInjective
  <2>5. i # j
    BY <1>10, <2>1
  <2>6. i < j \/ j < i
    BY <1>2, <2>5
  <2> QED BY <1>4, <1>5, <2>3, <2>4, <2>6
<1> QED BY <1>8, <1>9, <1>10

\* A row of the services table for a host of H.
Row(H) == [host : H, workers : Nat \ {0}]

\* A set of naturals that is not empty has a least element.
LEMMA Least ==
  ASSUME NEW S \in SUBSET Nat, S # {}
  PROVE  \E n \in S : \A m \in S : n <= m
<1>1. PICK n \in S : \A m \in S : ~ (<<m, n>> \in OpToRel(<, Nat))
  BY NatLessThanWellFounded, WFMin
<1>2. \A m \in S : n <= m
  <2> SUFFICES ASSUME NEW m \in S PROVE n <= m
    OBVIOUS
  <2>1. ~ (m < n)
    BY <1>1 DEF OpToRel
  <2> QED BY <2>1
<1> QED BY <1>2

\* The sum over the conductors is defined: each term adds the workers of one.
LEMMA WorkersBeforeIs ==
  ASSUME NEW H, NEW conds \in Seq(Row(H))
  PROVE  /\ WorkersBefore(conds, 1) = 0
         /\ \A i \in 1..Len(conds) :
              /\ WorkersBefore(conds, i) \in Nat /\ RpcWorkers(conds[i]) \in Nat \ {0}
              /\ WorkersBefore(conds, i + 1) = WorkersBefore(conds, i) + RpcWorkers(conds[i])
<1> DEFINE m == Len(conds)
           w(k) == RpcWorkers(conds[k])
           Sums(f, n) == \A k \in 0..n : f[k] = IF k = 0 THEN 0 ELSE f[k - 1] + w(k)
           F(f) == [k \in 0..m |-> IF k = 0 THEN 0 ELSE f[k - 1] + w(k)]
           sum == CHOOSE f : f = F(f)
<1>1. m \in Nat /\ \A k \in 1..m : w(k) \in Nat \ {0}
  <2>1. m \in Nat /\ \A k \in 1..m : conds[k] \in Row(H)
    OBVIOUS
  <2>2. \A r \in Row(H) : RpcWorkers(r) \in Nat \ {0}
    BY DEF RpcWorkers, Row
  <2> QED BY <2>1, <2>2
<1>2. \A i : WorkersBefore(conds, i) = sum[i - 1]
  BY DEF WorkersBefore
<1> HIDE DEF m, w
<1>3. \A n \in 0..m : \E f \in [0..n -> Nat] : Sums(f, n)
  <2> DEFINE bad == {n \in 0..m : ~ \E f \in [0..n -> Nat] : Sums(f, n)}
  <2>1. SUFFICES ASSUME bad # {} PROVE FALSE
    OBVIOUS
  <2>2. bad \in SUBSET Nat
    BY <1>1
  <2>3. PICK n \in bad : \A k \in bad : n <= k
    BY <2>1, <2>2, Least
  <2>4. n \in 0..m /\ ~ \E f \in [0..n -> Nat] : Sums(f, n)
    OBVIOUS
  <2>5. CASE n = 0
    <3> DEFINE f == [k \in 0..0 |-> 0]
    <3>1. f \in [0..0 -> Nat] /\ Sums(f, 0)
      OBVIOUS
    <3> QED BY <2>4, <2>5, <3>1
  <2>6. CASE n # 0
    <3>1. n - 1 \in 0..m /\ ~(n <= n - 1)
      BY <1>1, <2>4, <2>6
    <3>2. n - 1 \in 0..m /\ n - 1 \notin bad
      BY <2>3, <3>1
    <3>3. PICK f \in [0..(n - 1) -> Nat] : Sums(f, n - 1)
      BY <3>2
    <3> DEFINE g == [k \in 0..n |-> IF k = n THEN f[n - 1] + w(n) ELSE f[k]]
    <3>4. g \in [0..n -> Nat]
      BY <1>1, <2>4, <2>6
    <3>5. Sums(g, n)
      <4>1. SUFFICES ASSUME NEW k \in 0..n PROVE g[k] = IF k = 0 THEN 0 ELSE g[k - 1] + w(k)
        OBVIOUS
      <4>2. CASE k = n
        BY <1>1, <2>4, <2>6, <4>2
      <4>3. CASE k # n
        <5>1. k \in 0..(n - 1) /\ g[k] = f[k] /\ (k # 0 => g[k - 1] = f[k - 1])
          BY <1>1, <2>4, <4>3
        <5> QED BY <3>3, <5>1
      <4> QED BY <4>2, <4>3
    <3> QED BY <2>4, <3>4, <3>5
  <2> QED BY <2>5, <2>6
<1>4. PICK f \in [0..m -> Nat] : Sums(f, m)
  <2>1. m \in 0..m
    BY <1>1
  <2> QED BY <1>3, <2>1
<1>5. f = F(f)
  BY <1>1, <1>4
<1>6. sum = F(sum)
  BY <1>5
<1> HIDE DEF sum
<1>7. Sums(sum, m)
  BY <1>6
<1>8. \A n \in 0..m : sum[n] \in Nat
  <2> DEFINE bad == {n \in 0..m : sum[n] \notin Nat}
  <2>1. SUFFICES ASSUME bad # {} PROVE FALSE
    OBVIOUS
  <2>2. bad \in SUBSET Nat
    BY <1>1
  <2>3. PICK n \in bad : \A k \in bad : n <= k
    BY <2>1, <2>2, Least
  <2>4. CASE n = 0
    BY <1>1, <1>7, <2>4
  <2>5. CASE n # 0
    <3>1. n - 1 \in 0..m /\ n - 1 \notin bad /\ n \in 1..m
      BY <1>1, <2>3, <2>5
    <3>2. sum[n] = sum[n - 1] + w(n) /\ sum[n - 1] \in Nat
      BY <1>7, <3>1
    <3> QED BY <1>1, <3>1, <3>2
  <2> QED BY <2>4, <2>5
<1>9. WorkersBefore(conds, 1) = 0
  BY <1>1, <1>2, <1>7
<1>10. ASSUME NEW i \in 1..m
       PROVE  /\ WorkersBefore(conds, i) \in Nat /\ w(i) \in Nat \ {0}
              /\ WorkersBefore(conds, i + 1) = WorkersBefore(conds, i) + w(i)
  <2>1. i \in 0..m /\ i # 0 /\ i - 1 \in 0..m /\ (i + 1) - 1 = i
    BY <1>1
  <2>2. sum[i] = sum[i - 1] + w(i)
    BY <1>7, <2>1
  <2> QED BY <1>1, <1>2, <1>8, <2>1, <2>2
<1> QED BY <1>9, <1>10 DEF m, w

\* The sum does not fall, and from the first conductor on it is positive.
LEMMA WorkersBeforeGrows ==
  ASSUME NEW H, NEW conds \in Seq(Row(H)),
         NEW i \in 1..(Len(conds) + 1), NEW j \in 1..(Len(conds) + 1), i <= j
  PROVE  /\ WorkersBefore(conds, i) \in Nat
         /\ WorkersBefore(conds, i) <= WorkersBefore(conds, j)
<1> DEFINE m == Len(conds)
           b(k) == WorkersBefore(conds, k)
           w(k) == RpcWorkers(conds[k])
<1>1. m \in Nat
  OBVIOUS
<1>2. \A k \in 1..m : b(k) \in Nat /\ w(k) \in Nat \ {0} /\ b(k + 1) = b(k) + w(k)
  BY WorkersBeforeIs
<1>3. b(1) = 0
  BY WorkersBeforeIs
<1> HIDE DEF b, w
<1>4. \A k \in 1..(m + 1) : b(k) \in Nat
  <2> SUFFICES ASSUME NEW k \in 1..(m + 1) PROVE b(k) \in Nat
    OBVIOUS
  <2>1. CASE k \in 1..m
    BY <1>2, <2>1
  <2>2. CASE k = m + 1 /\ m # 0
    BY <1>1, <1>2, <2>2
  <2>3. CASE k = m + 1 /\ m = 0
    BY <1>3, <2>3
  <2> QED BY <1>1, <2>1, <2>2, <2>3
<1>5. \A k \in 1..(m + 1) : i <= k => b(i) <= b(k)
  <2> DEFINE bad == {k \in 1..(m + 1) : i <= k /\ ~ b(i) <= b(k)}
  <2>1. SUFFICES ASSUME bad # {} PROVE FALSE
    OBVIOUS
  <2>2. bad \in SUBSET Nat
    BY <1>1
  <2>3. PICK k \in bad : \A l \in bad : k <= l
    BY <2>1, <2>2, Least
  <2>4. k # i
    BY <1>4
  <2>5. k - 1 \in 1..m /\ i <= k - 1 /\ k - 1 \in 1..(m + 1) /\ ~ (k <= k - 1)
    BY <1>1, <2>4
  <2>6. b(i) <= b(k - 1)
    BY <2>3, <2>5
  <2>7. b((k - 1) + 1) = b(k - 1) + w(k - 1) /\ w(k - 1) \in Nat /\ (k - 1) + 1 = k
    BY <1>1, <1>2, <2>5
  <2> QED BY <1>4, <2>5, <2>6, <2>7
<1> QED BY <1>1, <1>4, <1>5 DEF b

\* Where the slice of a conductor begins and ends.
SliceFirst(n, conds, i) ==
    WorkersBefore(conds, i) * (n \div WorkersBefore(conds, Len(conds) + 1)) + 1

SliceLast(n, conds, i) ==
    IF i < Len(conds) THEN RpcWorkers(conds[i]) * (n \div WorkersBefore(conds, Len(conds) + 1)) ELSE n

\* The slices lie in the sequence, each ends before the next one begins, and one
\* or two of them leave nothing out.
LEMMA SliceBounds ==
  ASSUME NEW H, NEW conds \in Seq(Row(H)), conds # <<>>, NEW n \in Nat
  PROVE  /\ \A i \in 1..Len(conds) : /\ SliceFirst(n, conds, i) \in Nat \ {0}
                                    /\ SliceLast(n, conds, i) \in Nat /\ SliceLast(n, conds, i) <= n
         /\ \A i, j \in 1..Len(conds) : i < j => SliceLast(n, conds, i) < SliceFirst(n, conds, j)
         /\ Len(conds) <= 2 =>
              \A p \in 1..n : \E i \in 1..Len(conds) : p \in SliceFirst(n, conds, i)..SliceLast(n, conds, i)
<1> DEFINE m == Len(conds)
           b(k) == WorkersBefore(conds, k)
           w(k) == RpcWorkers(conds[k])
           share == n \div b(m + 1)
           first(i) == b(i) * share + 1
           last(i) == IF i < m THEN w(i) * share ELSE n
<1>1. m \in Nat \ {0}
  BY EmptySeq
<1>2. b(1) = 0 /\ \A k \in 1..m : b(k) \in Nat /\ w(k) \in Nat \ {0} /\ b(k + 1) = b(k) + w(k)
  BY WorkersBeforeIs
<1>3. \A i, j \in 1..(m + 1) : i <= j => b(i) \in Nat /\ b(i) <= b(j)
  BY WorkersBeforeGrows
<1>4. \A i : SliceFirst(n, conds, i) = first(i) /\ SliceLast(n, conds, i) = last(i)
  BY DEF SliceFirst, SliceLast
<1> HIDE DEF m, b, w
<1>5. b(m + 1) \in Nat \ {0}
  <2>1. m \in 1..m
    BY <1>1
  <2>2. b(m + 1) = b(m) + w(m) /\ b(m) \in Nat /\ w(m) \in Nat \ {0}
    BY <1>2, <2>1
  <2> QED BY <2>2
<1>6. share \in Nat /\ share * b(m + 1) <= n
  BY <1>5, DivBounds
<1> HIDE DEF share
<1>7. ASSUME NEW i \in 1..m
      PROVE  /\ b(i) * share \in Nat /\ w(i) * share \in Nat /\ w(i) * share <= n
             /\ w(i) * share <= b(i + 1) * share
  <2>1. b(i) \in Nat /\ w(i) \in Nat /\ b(i + 1) \in Nat /\ w(i) <= b(i + 1) /\ b(i + 1) <= b(m + 1)
    BY <1>1, <1>2, <1>3
  <2>2. w(i) * share <= b(i + 1) * share /\ w(i) * share \in Nat /\ b(i + 1) * share \in Nat
        /\ b(i) * share \in Nat
    BY <1>6, <2>1, MulMono
  <2>3. share * b(i + 1) <= share * b(m + 1) /\ share * b(i + 1) = b(i + 1) * share
        /\ share * b(m + 1) \in Nat
    BY <1>5, <1>6, <2>1, MulMono
  <2> QED BY <1>6, <2>2, <2>3
<1>8. ASSUME NEW i \in 1..m
      PROVE  first(i) \in Nat \ {0} /\ last(i) \in Nat /\ last(i) <= n
  BY <1>7
<1>9. ASSUME NEW i \in 1..m, NEW j \in 1..m, i < j
      PROVE  last(i) < first(j)
  <2>1. last(i) = w(i) * share /\ i + 1 \in 1..(m + 1) /\ j \in 1..(m + 1) /\ i + 1 <= j
    BY <1>1, <1>9
  <2>2. b(i + 1) \in Nat /\ b(j) \in Nat /\ b(i + 1) <= b(j)
    BY <1>2, <1>3, <2>1
  <2>3. b(i + 1) * share <= b(j) * share
    BY <1>6, <2>2, MulMono
  <2>4. b(i + 1) * share \in Nat /\ b(j) * share \in Nat /\ w(i) * share \in Nat /\ w(i) * share <= b(i + 1) * share
    BY <1>6, <1>7, <2>2, MulMono
  <2> QED BY <2>1, <2>3, <2>4
<1>10. ASSUME m <= 2, NEW p \in 1..n
      PROVE  \E i \in 1..m : p \in first(i)..last(i)
  <2>1. CASE m = 1
    <3>1. first(1) = 1 /\ last(1) = n /\ 1 \in 1..m
      BY <1>2, <1>6, <2>1
    <3> QED BY <3>1
  <2>2. CASE m = 2
    <3>1. b(2) = w(1) /\ 1 \in 1..m /\ 2 \in 1..m /\ first(1) = 1
      BY <1>2, <1>6, <2>2
    <3>2. first(2) = w(1) * share + 1 /\ last(2) = n /\ last(1) = w(1) * share /\ w(1) * share \in Nat
      BY <1>7, <2>2, <3>1
    <3> HIDE DEF first, last
    <3>3. CASE p <= w(1) * share
      BY <3>1, <3>2, <3>3
    <3>4. CASE p > w(1) * share
      BY <3>1, <3>2, <3>4
    <3> QED BY <3>2, <3>3, <3>4
  <2> QED BY <1>1, <1>10, <2>1, <2>2
<1> HIDE DEF first, last
<1>11. \A i \in 1..m : SliceFirst(n, conds, i) \in Nat \ {0} /\ SliceLast(n, conds, i) \in Nat
                       /\ SliceLast(n, conds, i) <= n
  BY <1>8, <1>4
<1>12. \A i, j \in 1..m : i < j => SliceLast(n, conds, i) < SliceFirst(n, conds, j)
  BY <1>9, <1>4
<1>13. m <= 2 => \A p \in 1..n : \E i \in 1..m : p \in SliceFirst(n, conds, i)..SliceLast(n, conds, i)
  BY <1>10, <1>4
<1> QED BY <1>11, <1>12, <1>13 DEF m

\* The pieces for any conductor: each node is in one piece at most, and with one
\* or two conductors in one at least.
THEOREM AnyPiecesAre ==
  ASSUME NEW T, NEW s \in Seq(T), IsInjective(s),
         NEW H, NEW conds \in Seq(Row(H)), conds # <<>>
  PROVE  /\ AnyPieces(s, conds) \subseteq [host : H, nodes : SUBSET T]
         /\ \A p \in AnyPieces(s, conds) : p.nodes \subseteq Range(s)
         /\ \A p, q \in AnyPieces(s, conds) : p # q => p.nodes \intersect q.nodes = {}
         /\ Len(conds) <= 2 => \A x \in Range(s) : \E p \in AnyPieces(s, conds) : x \in p.nodes
<1> DEFINE n == Len(s)
           first(i) == SliceFirst(n, conds, i)
           last(i) == SliceLast(n, conds, i)
           slice(i) == Slice(s, conds, i)
           groups(i) == Groups(slice(i), RpcWorkers(conds[i]))
<1>1. n \in Nat /\ DOMAIN s = 1..n /\ \A i \in 1..n : s[i] \in T
  OBVIOUS
<1>2. /\ \A i \in 1..Len(conds) : first(i) \in Nat \ {0} /\ last(i) \in Nat /\ last(i) <= n
      /\ \A i, j \in 1..Len(conds) : i < j => last(i) < first(j)
      /\ Len(conds) <= 2 => \A p \in 1..n : \E i \in 1..Len(conds) : p \in first(i)..last(i)
  BY <1>1, SliceBounds
<1>3. \A i : slice(i) = SubSeq(s, first(i), last(i))
  BY DEF Slice, SliceFirst, SliceLast
<1>4. \A i \in 1..Len(conds) : conds[i].host \in H /\ RpcWorkers(conds[i]) \in Nat \ {0}
  <2>1. \A i \in 1..Len(conds) : conds[i] \in Row(H)
    OBVIOUS
  <2> QED BY <2>1, WorkersBeforeIs DEF Row
<1>5. \A p : p \in AnyPieces(s, conds) <=>
              \E i \in 1..Len(conds) : \E g \in groups(i) : p = [host |-> conds[i].host, nodes |-> Range(g)]
  BY DEF AnyPieces
<1> HIDE DEF first, last, slice
<1>6. ASSUME NEW i \in 1..Len(conds)
      PROVE  /\ slice(i) \in Seq(T) /\ Range(slice(i)) = Between(s, first(i), last(i)) /\ IsInjective(slice(i))
             /\ first(i)..last(i) \subseteq 1..n
  <2>1. first(i) \in Nat \ {0} /\ last(i) \in Int /\ last(i) <= Len(s) /\ last(i) <= n
    BY <1>2
  <2>2. /\ SubSeq(s, first(i), last(i)) \in Seq(T)
        /\ Range(SubSeq(s, first(i), last(i))) = Between(s, first(i), last(i))
        /\ IsInjective(SubSeq(s, first(i), last(i)))
    BY <2>1, SliceIs
  <2>3. first(i)..last(i) \subseteq 1..n
    BY <1>1, <2>1
  <2>4. slice(i) = SubSeq(s, first(i), last(i))
    BY <1>3
  <2> QED BY <2>2, <2>3, <2>4
<1>7. ASSUME NEW i \in 1..Len(conds)
      PROVE  /\ \A g \in groups(i) : Range(g) \subseteq Between(s, first(i), last(i))
             /\ \A x \in Between(s, first(i), last(i)) : \E g \in groups(i) : x \in Range(g)
             /\ \A g, h \in groups(i) : g # h => Range(g) \intersect Range(h) = {}
  <2>1. slice(i) \in Seq(T) /\ RpcWorkers(conds[i]) \in Nat \ {0}
    BY <1>4, <1>6
  <2>2. /\ \A g \in groups(i) : Range(g) \subseteq Range(slice(i))
        /\ \A x \in Range(slice(i)) : \E g \in groups(i) : x \in Range(g)
        /\ IsInjective(slice(i)) => \A g, h \in groups(i) : g # h => Range(g) \intersect Range(h) = {}
    BY <2>1, GroupsAre
  <2> QED BY <1>6, <2>2
<1> HIDE DEF groups
<1>8. \A i \in 1..Len(conds) : Between(s, first(i), last(i)) \subseteq Range(s) /\ Between(s, first(i), last(i)) \subseteq T
  BY <1>1, <1>6 DEF Between, Range
<1>9. \A i, j \in 1..Len(conds) : i # j => Between(s, first(i), last(i)) \intersect Between(s, first(j), last(j)) = {}
  <2> SUFFICES ASSUME NEW i \in 1..Len(conds), NEW j \in 1..Len(conds), i < j
               PROVE  Between(s, first(i), last(i)) \intersect Between(s, first(j), last(j)) = {}
    OBVIOUS
  <2>1. SUFFICES ASSUME NEW p \in first(i)..last(i), NEW q \in first(j)..last(j), s[p] = s[q] PROVE FALSE
    BY DEF Between
  <2>2. p = q
    BY <1>1, <1>6, <2>1 DEF IsInjective
  <2> QED BY <1>2, <2>2
<1>10. \A p \in AnyPieces(s, conds) : p \in [host : H, nodes : SUBSET T] /\ p.nodes \subseteq Range(s)
  BY <1>4, <1>5, <1>7, <1>8
<1>11. \A p, q \in AnyPieces(s, conds) : p # q => p.nodes \intersect q.nodes = {}
  <2> SUFFICES ASSUME NEW p \in AnyPieces(s, conds), NEW q \in AnyPieces(s, conds), p # q
               PROVE  p.nodes \intersect q.nodes = {}
    OBVIOUS
  <2>1. PICK i \in 1..Len(conds) : \E g \in groups(i) : p = [host |-> conds[i].host, nodes |-> Range(g)]
    BY <1>5
  <2>2. PICK g \in groups(i) : p = [host |-> conds[i].host, nodes |-> Range(g)]
    BY <2>1
  <2>3. PICK j \in 1..Len(conds) : \E h \in groups(j) : q = [host |-> conds[j].host, nodes |-> Range(h)]
    BY <1>5
  <2>4. PICK h \in groups(j) : q = [host |-> conds[j].host, nodes |-> Range(h)]
    BY <2>3
  <2>5. CASE i = j
    <3>1. g # h
      BY <2>2, <2>4, <2>5
    <3> QED BY <1>7, <2>2, <2>4, <2>5, <3>1
  <2>6. CASE i # j
    BY <1>7, <1>9, <2>2, <2>4, <2>6
  <2> QED BY <2>5, <2>6
<1>12. ASSUME Len(conds) <= 2, NEW x \in Range(s) PROVE \E p \in AnyPieces(s, conds) : x \in p.nodes
  <2>1. PICK k \in 1..n : s[k] = x
    BY <1>1 DEF Range
  <2>2. PICK i \in 1..Len(conds) : k \in first(i)..last(i)
    BY <1>2, <1>12
  <2>3. x \in Between(s, first(i), last(i))
    BY <2>1, <2>2 DEF Between
  <2>4. PICK g \in groups(i) : x \in Range(g)
    BY <1>7, <2>3
  <2> DEFINE p == [host |-> conds[i].host, nodes |-> Range(g)]
  <2>5. p \in AnyPieces(s, conds)
    BY <1>5
  <2> QED BY <2>4, <2>5
<1> QED BY <1>10, <1>11, <1>12

\* The rows of a group are its names, each once.
LEMMA RowsAre ==
  ASSUME NEW S \in SUBSET Name
  PROVE  Rows(S) \in Seq(Name) /\ IsInjective(Rows(S)) /\ Range(Rows(S)) = S
<1>1. Table \in Seq(Name) /\ IsInjective(Table) /\ Range(Table) = Name
  BY RequestsAssumption
<1>2. /\ Kept(Table, S) \in Seq(Name) /\ Range(Kept(Table, S)) = Range(Table) \intersect S
      /\ IsInjective(Kept(Table, S))
  BY <1>1, KeptIs
<1> QED BY <1>1, <1>2 DEF Rows

\* The services table is a sequence of such rows.
LEMMA ConductorsAre ==
  Conductors \in Seq(Row(Host)) /\ \A i \in DOMAIN Conductors : Conductors[i] \in Row(Host)
<1>1. Conductors \in Seq(Row(Host))
  BY RequestsAssumption DEF Row
<1> QED BY <1>1

\* There is one conductor for each host in the services table.
LEMMA OneConductorEach ==
  ASSUME NEW h \in Host
  PROVE  \E i \in DOMAIN Conductors :
           Conductors[i].host = h /\ \A j \in DOMAIN Conductors : Conductors[j].host = h => j = i
<1> DEFINE at == {i \in DOMAIN Conductors : Conductors[i].host = h}
<1>1. DOMAIN Conductors = 1..Len(Conductors) /\ Len(Conductors) \in Nat
  BY RequestsAssumption
<1>2. \A n \in Nat : IsFiniteSet(1..n)
  BY FS_Interval
<1>3. IsFiniteSet(1..Len(Conductors)) /\ at \in SUBSET (1..Len(Conductors))
  BY <1>1, <1>2
<1>4. IsFiniteSet(at) /\ Cardinality(at) = 1
  BY <1>3, FS_Subset, RequestsAssumption
<1>5. \A i : i \in at <=> i \in DOMAIN Conductors /\ Conductors[i].host = h
  OBVIOUS
<1> HIDE DEF at
<1>6. PICK i : at = {i}
  BY <1>4, FS_Singleton
<1> QED BY <1>5, <1>6

\* The conductors that are listed: one for each host that is found.
LEMMA ListedIs ==
  ASSUME NEW L \in SUBSET Host
  PROVE  /\ Listed(L) \in Seq(Row(Host)) /\ Len(Listed(L)) <= Len(Conductors)
         /\ \A c \in Range(Listed(L)) : c.host \in L
         /\ \A h \in L : \E c \in Range(Listed(L)) : c.host = h
         /\ \A c, d \in Range(Listed(L)) : c.host = d.host => c = d
         /\ L # {} => Listed(L) # <<>>
<1>1. Conductors \in Seq(Row(Host)) /\ \A i \in DOMAIN Conductors : Conductors[i] \in Row(Host)
  BY ConductorsAre
<1>2. /\ Listed(L) \in Seq(Row(Host)) /\ Len(Listed(L)) <= Len(Conductors)
      /\ Range(Listed(L)) = Range(Conductors) \intersect [host : L, workers : Nat]
  BY <1>1, KeptIs DEF Listed
<1>3. \A c : c \in Range(Listed(L)) =>
        c.host \in L /\ \E i \in DOMAIN Conductors : c = Conductors[i]
  BY <1>2 DEF Range
<1>4. ASSUME NEW h \in L PROVE \E c \in Range(Listed(L)) : c.host = h
  <2>1. PICK i \in DOMAIN Conductors : Conductors[i].host = h
    BY OneConductorEach
  <2>2. Conductors[i] \in [host : L, workers : Nat]
    BY <1>1, <2>1 DEF Row
  <2>3. Conductors[i] \in Range(Conductors)
    BY DEF Range
  <2> QED BY <1>2, <2>1, <2>2, <2>3
<1>5. ASSUME NEW c \in Range(Listed(L)), NEW d \in Range(Listed(L)), c.host = d.host
      PROVE  c = d
  <2>1. PICK i \in DOMAIN Conductors : c = Conductors[i]
    BY <1>3
  <2>2. PICK j \in DOMAIN Conductors : d = Conductors[j]
    BY <1>3
  <2>3. c.host \in Host
    BY <1>3
  <2> QED BY <1>5, <2>1, <2>2, <2>3, OneConductorEach
<1>6. ASSUME L # {} PROVE Listed(L) # <<>>
  <2>1. PICK c \in Range(Listed(L)) : TRUE
    BY <1>4, <1>6
  <2>2. Range(<<>>) = {}
    BY DEF Range
  <2> QED BY <2>1, <2>2
<1> QED BY <1>2, <1>3, <1>4, <1>5, <1>6

\* The pieces of a request for any conductor have nodes of the request only, and
\* no two of them share one.
LEMMA AnyPiecesGood ==
  ASSUME NEW S \in SUBSET Name, NEW L \in SUBSET Host, L # {}
  PROVE  /\ AnyPieces(Rows(S), Listed(L)) \subseteq Piece
         /\ \A p \in AnyPieces(Rows(S), Listed(L)) : p.nodes \subseteq S
         /\ \A p, q \in AnyPieces(Rows(S), Listed(L)) : p # q => p.nodes \intersect q.nodes = {}
<1>1. Rows(S) \in Seq(Name) /\ IsInjective(Rows(S)) /\ Range(Rows(S)) = S
  BY RowsAre
<1>2. Listed(L) \in Seq(Row(Host)) /\ Listed(L) # <<>>
  BY ListedIs
<1>3. /\ AnyPieces(Rows(S), Listed(L)) \subseteq [host : Host, nodes : SUBSET Name]
      /\ \A p \in AnyPieces(Rows(S), Listed(L)) : p.nodes \subseteq Range(Rows(S))
      /\ \A p, q \in AnyPieces(Rows(S), Listed(L)) : p # q => p.nodes \intersect q.nodes = {}
  BY <1>1, <1>2, AnyPiecesAre
<1> QED BY <1>1, <1>3 DEF Piece

\* When there are one or two conductors, no node is left out of the pieces.
LEMMA AnyPiecesCover ==
  ASSUME NEW S \in SUBSET Name, NEW L \in SUBSET Host, L # {}, Len(Conductors) <= 2
  PROVE  \A n \in S : \E p \in AnyPieces(Rows(S), Listed(L)) : n \in p.nodes
<1>1. Rows(S) \in Seq(Name) /\ IsInjective(Rows(S)) /\ Range(Rows(S)) = S
  BY RowsAre
<1>2. Listed(L) \in Seq(Row(Host)) /\ Listed(L) # <<>> /\ Len(Listed(L)) <= Len(Conductors)
  BY ListedIs
<1>3. Len(Listed(L)) <= 2
  <2>1. Len(Listed(L)) \in Nat /\ Len(Conductors) \in Nat
    BY <1>2, RequestsAssumption
  <2> QED BY <1>2, <2>1
<1>4. \A x \in Range(Rows(S)) : \E p \in AnyPieces(Rows(S), Listed(L)) : x \in p.nodes
  BY <1>1, <1>2, <1>3, AnyPiecesAre
<1> QED BY <1>1, <1>4

\* The hosts of a sequence of rows.
HostsOf(conds) == {c.host : c \in Range(conds)}

\* The nodes of S that conductors of the hosts H clean.
InCharge(S, H) == {n \in S : affinity[n] \in H \union {NoHost}}

\* The pieces of clean for the conductors conds, no two of the same host: each
\* node whose conductor is among them, or that has none, is in one piece.
THEOREM AffinityPiecesAre ==
  ASSUME NEW s \in Seq(Name), IsInjective(s), affinity \in [Name -> Host \union {NoHost}],
         NEW conds \in Seq(Row(Host)), conds # <<>>,
         \A c, d \in Range(conds) : c.host = d.host => c = d
  PROVE  /\ AffinityPieces(s, conds) \subseteq Piece
         /\ IsPartition(AffinityPieces(s, conds), InCharge(Range(s), HostsOf(conds)))
<1> DEFINE mine(h) == {n \in Range(s) : affinity[n] = h \/ (affinity[n] = NoHost /\ h = conds[1].host)}
           share(h) == Charge(h, s, conds)
           groups(c) == Groups(share(c.host), c.workers)
           all == AffinityPieces(s, conds)
           those == InCharge(Range(s), HostsOf(conds))
<1>1. Range(s) \subseteq Name /\ NoHost \notin Host
  BY RequestsAssumption DEF Range
<1>2. ASSUME NEW c \in Range(conds) PROVE c.host \in Host /\ c.workers \in Nat \ {0}
  <2>1. PICK i \in 1..Len(conds) : c = conds[i]
    BY <1>2 DEF Range
  <2>2. conds[i] \in Row(Host)
    OBVIOUS
  <2> QED BY <2>1, <2>2 DEF Row
<1>3. conds[1] \in Range(conds)
  <2>1. Len(conds) \in Nat \ {0} /\ DOMAIN conds = 1..Len(conds)
    BY EmptySeq
  <2> QED BY <2>1 DEF Range
<1>4. \A h : share(h) \in Seq(Name) /\ IsInjective(share(h)) /\ Range(share(h)) = mine(h)
  <2> TAKE h
  <2>1. /\ share(h) \in Seq(Name) /\ IsInjective(share(h))
        /\ Range(share(h)) = Range(s) \intersect mine(h)
    BY KeptIs DEF Charge
  <2> QED BY <2>1
<1>5. ASSUME NEW c \in Range(conds)
      PROVE  /\ \A g \in groups(c) : Range(g) \subseteq mine(c.host)
             /\ \A x \in mine(c.host) : \E g \in groups(c) : x \in Range(g)
             /\ \A g, h \in groups(c) : g # h => Range(g) \intersect Range(h) = {}
  <2>1. c.workers \in Nat \ {0} /\ share(c.host) \in Seq(Name) /\ IsInjective(share(c.host))
    BY <1>2, <1>4
  <2>2. /\ \A g \in groups(c) : Range(g) \subseteq Range(share(c.host))
        /\ \A x \in Range(share(c.host)) : \E g \in groups(c) : x \in Range(g)
        /\ \A g, h \in groups(c) : g # h => Range(g) \intersect Range(h) = {}
    BY <2>1, GroupsAre
  <2> QED BY <1>4, <2>2
<1>6. \A p : p \in all <=> \E c \in Range(conds) : \E g \in groups(c) :
                             p = [host |-> c.host, nodes |-> Range(g)]
  BY DEF AffinityPieces
<1>7. \A n : n \in those <=> n \in Range(s) /\ (affinity[n] = NoHost
                                                \/ \E c \in Range(conds) : affinity[n] = c.host)
  BY DEF InCharge, HostsOf
<1>8. \A n, h : n \in mine(h) <=> n \in Range(s) /\ (affinity[n] = h \/ (affinity[n] = NoHost /\ h = conds[1].host))
  OBVIOUS
<1> HIDE DEF groups, mine, share, all, those
<1>9. ASSUME NEW p \in all PROVE p \in Piece /\ p.nodes \subseteq those
  <2>1. PICK c \in Range(conds) : \E g \in groups(c) : p = [host |-> c.host, nodes |-> Range(g)]
    BY <1>6
  <2>2. PICK g \in groups(c) : p = [host |-> c.host, nodes |-> Range(g)]
    BY <2>1
  <2>3. Range(g) \subseteq mine(c.host)
    BY <1>5
  <2>4. Range(g) \subseteq those /\ Range(g) \subseteq Name
    BY <1>1, <1>7, <1>8, <2>3
  <2> QED BY <1>2, <2>2, <2>4 DEF Piece
<1>10. ASSUME NEW n \in those PROVE \E p \in all : n \in p.nodes
  <2>1. PICK c \in Range(conds) : n \in mine(c.host)
    BY <1>3, <1>7, <1>8
  <2>2. PICK g \in groups(c) : n \in Range(g)
    BY <1>5, <2>1
  <2> DEFINE p == [host |-> c.host, nodes |-> Range(g)]
  <2>3. p \in all
    BY <1>6
  <2> QED BY <2>2, <2>3
<1>11. ASSUME NEW c \in Range(conds), NEW d \in Range(conds), c.host # d.host
       PROVE  mine(c.host) \intersect mine(d.host) = {}
  BY <1>1, <1>2, <1>8, <1>11
<1>12. ASSUME NEW p \in all, NEW q \in all, p # q PROVE p.nodes \intersect q.nodes = {}
  <2>1. PICK c \in Range(conds) : \E g \in groups(c) : p = [host |-> c.host, nodes |-> Range(g)]
    BY <1>6
  <2>2. PICK g \in groups(c) : p = [host |-> c.host, nodes |-> Range(g)]
    BY <2>1
  <2>3. PICK d \in Range(conds) : \E h \in groups(d) : q = [host |-> d.host, nodes |-> Range(h)]
    BY <1>6
  <2>4. PICK h \in groups(d) : q = [host |-> d.host, nodes |-> Range(h)]
    BY <2>3
  <2>5. CASE c.host = d.host
    <3>1. c = d /\ g # h
      BY <1>12, <2>2, <2>4, <2>5
    <3> QED BY <1>5, <2>2, <2>4, <3>1
  <2>6. CASE c.host # d.host
    BY <1>5, <1>11, <2>2, <2>4, <2>6
  <2> QED BY <2>5, <2>6
<1>13. UNION {p.nodes : p \in all} = those
  BY <1>9, <1>10
<1> QED BY <1>9, <1>12, <1>13 DEF IsPartition, all, those

\* The pieces of clean have each node once that has no conductor or a listed one.
LEMMA AffinityPiecesGood ==
  ASSUME NEW S \in SUBSET Name, NEW L \in SUBSET Host, L # {},
         affinity \in [Name -> Host \union {NoHost}]
  PROVE  /\ AffinityPieces(Rows(S), Listed(L)) \subseteq Piece
         /\ IsPartition(AffinityPieces(Rows(S), Listed(L)),
                        {n \in S : affinity[n] \in L \union {NoHost}})
<1>1. Rows(S) \in Seq(Name) /\ IsInjective(Rows(S)) /\ Range(Rows(S)) = S
  BY RowsAre
<1>2. /\ Listed(L) \in Seq(Row(Host)) /\ Listed(L) # <<>>
      /\ \A c, d \in Range(Listed(L)) : c.host = d.host => c = d
      /\ \A c \in Range(Listed(L)) : c.host \in L
      /\ \A h \in L : \E c \in Range(Listed(L)) : c.host = h
  BY ListedIs
<1>3. HostsOf(Listed(L)) = L
  BY <1>2 DEF HostsOf
<1>4. /\ AffinityPieces(Rows(S), Listed(L)) \subseteq Piece
      /\ IsPartition(AffinityPieces(Rows(S), Listed(L)), InCharge(Range(Rows(S)), HostsOf(Listed(L))))
  BY <1>1, <1>2, AffinityPiecesAre
<1>5. InCharge(Range(Rows(S)), HostsOf(Listed(L))) = {n \in S : affinity[n] \in L \union {NoHost}}
  BY <1>1, <1>3 DEF InCharge
<1> QED BY <1>4, <1>5

\* The pieces for one or two conductors are a partition of the nodes.
LEMMA AnyCutsPartition == AnyCutsArePartitions
<1> SUFFICES ASSUME NEW len \in 0..(4 * GroupCount),
                    NEW conds \in SeqOf([host : Host, workers : 1..3], 2), conds # <<>>
             PROVE  IsPartition(AnyPieces([i \in 1..len |-> i], conds), 1..len)
  BY DEF AnyCutsArePartitions
<1> DEFINE s == [i \in 1..len |-> i]
           all == AnyPieces(s, conds)
<1>1. len \in Nat
  BY RequestsAssumption
<1>2. s \in Seq(Nat) /\ IsInjective(s) /\ Range(s) = 1..len
  <2>1. \A i \in 1..len : i \in Nat
    BY <1>1
  <2>2. s \in Seq(Nat) /\ DOMAIN s = 1..len /\ \A i \in 1..len : s[i] = i
    BY <1>1, <2>1
  <2> HIDE DEF s
  <2> QED BY <2>2 DEF IsInjective, Range
<1>3. PICK n \in 0..2 : conds \in [1..n -> [host : Host, workers : 1..3]]
  BY DEF SeqOf
<1>4. conds \in Seq(Row(Host)) /\ Len(conds) <= 2
  <2>1. \A i \in 1..n : conds[i] \in Row(Host)
    BY <1>3 DEF Row
  <2> QED BY <1>3, <2>1
<1> HIDE DEF s
<1>5. /\ all \subseteq [host : Host, nodes : SUBSET Nat]
      /\ \A p \in all : p.nodes \subseteq 1..len
      /\ \A p, q \in all : p # q => p.nodes \intersect q.nodes = {}
      /\ \A x \in 1..len : \E p \in all : x \in p.nodes
  BY <1>2, <1>4, AnyPiecesAre
<1> HIDE DEF all
<1>6. UNION {p.nodes : p \in all} = 1..len
  BY <1>5
<1> QED BY <1>5, <1>6 DEF IsPartition, all, s

\* The pieces for one or two conductors, and those of clean, are partitions.
LEMMA CutsPartition ==
  ASSUME exists \subseteq Name, affinity \in [Name -> Host \union {NoHost}]
  PROVE  CutsArePartitions
<1> SUFFICES ASSUME NEW i \in DOMAIN Conductors
             PROVE  IsPartition(AffinityPieces(Rows(exists), <<Conductors[i]>>),
                                {n \in exists : affinity[n] \in {Conductors[i].host, NoHost}})
  BY AnyCutsPartition DEF CutsArePartitions
<1> DEFINE cond == Conductors[i]
<1>1. Rows(exists) \in Seq(Name) /\ IsInjective(Rows(exists)) /\ Range(Rows(exists)) = exists
  BY RowsAre
<1>2. cond \in Row(Host)
  BY ConductorsAre
<1>3. <<cond>> \in Seq(Row(Host)) /\ <<cond>> # <<>> /\ Range(<<cond>>) = {cond}
  BY <1>2 DEF Range
<1> HIDE DEF cond
<1>4. IsPartition(AffinityPieces(Rows(exists), <<cond>>), InCharge(Range(Rows(exists)), HostsOf(<<cond>>)))
  BY <1>1, <1>3, AffinityPiecesAre
<1>5. HostsOf(<<cond>>) = {cond.host}
  BY <1>3 DEF HostsOf
<1>6. InCharge(Range(Rows(exists)), HostsOf(<<cond>>)) = {n \in exists : affinity[n] \in {cond.host, NoHost}}
  BY <1>1, <1>5 DEF InCharge
<1> QED BY <1>4, <1>6 DEF cond
==============================================================================
