-------------------------- MODULE FundedIndexProofs --------------------------
(***************************************************************************)
(* Theorems about FundedIndex: a hit is real, no funded wallet is missed,  *)
(* and a cache file is read back as it was written, for every number of    *)
(* hashes, lines and wallets.                                              *)
(*                                                                         *)
(* The induction over data that sorting and the binary search need is the  *)
(* least-element principle of a well-founded relation: a set of            *)
(* counterexamples that is not empty has a least one.                      *)
(***************************************************************************)
EXTENDS FundedIndex, FiniteSetTheorems, SequenceTheorems, TLAPS

-----------------------------------------------------------------------------
(* Sorting.                                                                *)

\* A set of natural numbers that is not empty has a least element.
LEMMA LeastNatural ==
    ASSUME NEW T, T \subseteq Nat, T # {}
    PROVE  \E x \in T : \A y \in T : x <= y
<1>1. IsWellFoundedOn(OpToRel(<, Nat), Nat)
  BY NatLessThanWellFounded
<1>2. PICK x \in T : \A y \in T : ~ (<<y, x>> \in OpToRel(<, Nat))
  BY <1>1, WFMin, Zenon
<1>3. ASSUME NEW y \in T PROVE x <= y
  <2>1. ~ (<<y, x>> \in {ss \in Nat \X Nat : ss[1] < ss[2]})
    BY <1>2 DEF OpToRel
  <2>2. x \in Nat /\ y \in Nat
    OBVIOUS
  <2>3. ~ (y < x)
    BY <2>1, <2>2
  <2>. QED
    BY <2>2, <2>3
<1>. QED
  BY <1>3

\* What Sorted looks for in a set of hashes.
SortedListings(S) ==
    {s \in Bijection(1..Cardinality(S), S) :
        \A i, j \in DOMAIN s : i < j => s[i] < s[j]}

\* Every finite set of numbers can be listed in order: its least element goes
\* before a listing of the others.
LEMMA SortedListingExists ==
    ASSUME NEW U, U \subseteq Nat, IsFiniteSet(U)
    PROVE  SortedListings(U) # {}
<1>. DEFINE Bad == {V \in SUBSET U : SortedListings(V) = {}}
<1>1. SUFFICES ASSUME Bad # {} PROVE FALSE
  OBVIOUS
<1>2. PICK V \in Bad : \A W \in Bad : ~ (<<W, V>> \in StrictSubsetOrdering(U))
  <2>1. IsWellFoundedOn(StrictSubsetOrdering(U), SUBSET U)
    BY FS_StrictSubsetOrderingWellFounded, FS_FiniteSubsetsOfFinite
  <2>2. Bad \subseteq SUBSET U
    OBVIOUS
  <2>. HIDE DEF Bad
  <2>. QED
    BY <2>1, <2>2, <1>1, WFMin
<1>3. V \subseteq Nat /\ IsFiniteSet(V) /\ SortedListings(V) = {}
  BY FS_Subset
<1>4. V # {}
  <2>1. SUFFICES ASSUME V = {} PROVE <<>> \in SortedListings(V)
    BY <1>3
  <2>2. Cardinality(V) = 0 /\ 1..0 = {}
    BY <2>1, FS_EmptySet
  <2>3. <<>> \in [{} -> {}] /\ DOMAIN <<>> = {}
    OBVIOUS
  <2>4. <<>> \in Bijection({}, {})
    BY <2>3 DEF Bijection, Injection, Surjection, IsInjective
  <2>. QED
    BY <2>1, <2>2, <2>3, <2>4 DEF SortedListings
<1>5. PICK m \in V : \A y \in V : m <= y
  BY <1>3, <1>4, LeastNatural
<1>. DEFINE W == V \ {m}
            n == Cardinality(V)
<1>6. n \in Nat \ {0} /\ IsFiniteSet(W) /\ Cardinality(W) = n - 1
  BY <1>3, <1>5, FS_RemoveElement, FS_CardinalityType, FS_EmptySet
<1>7. PICK s \in Bijection(1..(n - 1), W) :
         \A i, j \in DOMAIN s : i < j => s[i] < s[j]
  <2>1. <<W, V>> \in StrictSubsetOrdering(U) /\ W \in SUBSET U
    BY <1>5 DEF StrictSubsetOrdering
  <2>2. SortedListings(W) # {}
    BY <2>1, <1>2
  <2>. QED
    BY <2>2, <1>6 DEF SortedListings
<1>. DEFINE t == [i \in 1..n |-> IF i = 1 THEN m ELSE s[i - 1]]
<1>8. /\ s \in [1..(n - 1) -> W] /\ DOMAIN s = 1..(n - 1)
      /\ \A x \in W : \E i \in 1..(n - 1) : s[i] = x
  BY <1>7 DEF Bijection, Injection, Surjection, IsInjective
<1>9. \A i \in 1..n : i # 1 => i - 1 \in 1..(n - 1) /\ s[i - 1] \in W
  BY <1>6, <1>8
<1>10. t \in [1..n -> V] /\ DOMAIN t = 1..n
  BY <1>5, <1>9
<1>11. \A i, j \in 1..n : i < j => t[i] < t[j]
  <2>1. SUFFICES ASSUME NEW i \in 1..n, NEW j \in 1..n, i < j PROVE t[i] < t[j]
    OBVIOUS
  <2>2. j # 1 /\ t[j] = s[j - 1] /\ t[j] \in W
    BY <2>1, <1>6, <1>9
  <2>3. CASE i = 1
    <3>1. m \in Nat /\ t[j] \in Nat /\ m <= t[j] /\ m # t[j]
      BY <2>2, <1>3, <1>5
    <3>. QED
      BY <3>1, <2>3, <1>6
  <2>4. CASE i # 1
    <3>1. i - 1 \in DOMAIN s /\ j - 1 \in DOMAIN s /\ i - 1 < j - 1
      BY <2>1, <2>2, <2>4, <1>6, <1>8
    <3>. QED
      BY <3>1, <2>2, <2>4, <1>7
  <2>. QED
    BY <2>3, <2>4
<1>12. t \in Bijection(1..n, V)
  <2>1. \A i, j \in 1..n : t[i] = t[j] => i = j
    <3>1. SUFFICES ASSUME NEW i \in 1..n, NEW j \in 1..n, t[i] = t[j], i # j
                   PROVE  FALSE
      OBVIOUS
    <3>. HIDE DEF t
    <3>2. t[i] \in Nat
      BY <1>3, <1>10
    <3>3. i < j \/ j < i
      BY <3>1, <1>6
    <3>. QED
      BY <3>1, <3>2, <3>3, <1>11
  <2>2. \A x \in V : \E i \in 1..n : t[i] = x
    <3>1. SUFFICES ASSUME NEW x \in V PROVE \E i \in 1..n : t[i] = x
      OBVIOUS
    <3>2. CASE x = m
      <4>1. 1 \in 1..n /\ t[1] = m
        BY <1>6
      <4>. QED
        BY <4>1, <3>2
    <3>3. CASE x # m
      <4>1. PICK i \in 1..(n - 1) : s[i] = x
        BY <3>3, <1>8
      <4>2. i + 1 \in 1..n /\ t[i + 1] = s[i]
        BY <4>1, <1>6
      <4>. QED
        BY <4>1, <4>2
    <3>. QED
      BY <3>2, <3>3
  <2>. QED
    BY <2>1, <2>2, <1>10 DEF Bijection, Injection, Surjection, IsInjective
<1>13. t \in SortedListings(V)
  BY <1>10, <1>11, <1>12 DEF SortedListings
<1>. QED
  BY <1>13, <1>3

\* The numbers of a sequence, each larger than the one before it.
Increasing(s) == \A i, j \in 1..Len(s) : i < j => s[i] < s[j]

\* Sorted lists the hashes of a bucket, each once and in order.
LEMMA SortedLists ==
    ASSUME NEW S, S \subseteq Nat, IsFiniteSet(S)
    PROVE  /\ Sorted(S) \in Seq(S) /\ Sorted(S) \in Seq(Nat)
           /\ Len(Sorted(S)) = Cardinality(S)
           /\ ToSet(Sorted(S)) = S
           /\ Increasing(Sorted(S))
<1>. DEFINE s == Sorted(S)
            n == Cardinality(S)
<1>1. n \in Nat
  BY FS_CardinalityType
<1>2. s \in SortedListings(S)
  <2>1. \E x \in Bijection(1..n, S) : \A i, j \in DOMAIN x : i < j => x[i] < x[j]
    BY SortedListingExists DEF SortedListings
  <2>. QED
    BY <2>1 DEF Sorted, SortedListings
<1>3. /\ s \in [1..n -> S] /\ DOMAIN s = 1..n
      /\ \A x \in S : \E i \in 1..n : s[i] = x
      /\ \A i, j \in 1..n : i < j => s[i] < s[j]
  BY <1>2 DEF SortedListings, Bijection, Injection, Surjection, IsInjective
<1>. HIDE DEF s
<1>4. s \in Seq(S) /\ s \in Seq(Nat) /\ Len(s) = n
  <2>1. s \in Seq(S)
    BY <1>1, <1>3, SeqDef
  <2>2. s \in Seq(Nat)
    BY <2>1, SeqMonotonic
  <2>3. 1..n = 1..Len(s) /\ Len(s) \in Nat
    BY <2>1, <1>3, LenProperties
  <2>4. \A a, b \in Nat : 1..a = 1..b => a = b
    <3>1. SUFFICES ASSUME NEW a \in Nat, NEW b \in Nat, 1..a = 1..b PROVE a = b
      OBVIOUS
    <3>2. (a >= 1 => a \in 1..b) /\ (b >= 1 => b \in 1..a)
      BY <3>1
    <3>. QED
      BY <3>2
  <2>. QED
    BY <2>1, <2>2, <2>3, <2>4, <1>1
<1>5. ToSet(s) = S
  BY <1>3 DEF ToSet
<1>6. Increasing(s)
  BY <1>3, <1>4 DEF Increasing
<1>. QED
  BY <1>4, <1>5, <1>6 DEF s
-----------------------------------------------------------------------------
(* The binary search.                                                      *)

\* The recursion of SearchIndex, for a function g of ranges.
Bisection(g, hashes, key) ==
    g = [r \in (0..Len(hashes)) \X (0..Len(hashes)) |->
            LET i == r[1]
                j == r[2]
                h == (i + j) \div 2
            IN  IF i >= j THEN i
                ELSE IF hashes[h + 1] < key THEN g[<<h + 1, j>>] ELSE g[<<i, h>>]]

\* k is where sort.Search should end in the range from i to j: below it the
\* hashes are below key, at it (if it is not the end) they no longer are.
IsFirst(k, i, j, hashes, key) ==
    /\ k \in i..j
    /\ \A l \in (i + 1)..k : hashes[l] < key
    /\ k < j => key <= hashes[k + 1]

\* There is such a place in every range.
LEMMA FirstExists ==
    ASSUME NEW hashes \in Seq(Nat), NEW key \in Nat,
           NEW i \in 0..Len(hashes), NEW j \in i..Len(hashes)
    PROVE  \E k \in i..j : IsFirst(k, i, j, hashes, key)
<1>. DEFINE T == {k \in i..j : k < j => key <= hashes[k + 1]}
<1>1. Len(hashes) \in Nat /\ i \in Nat /\ j \in Nat
  BY LenProperties
<1>2. T \subseteq Nat /\ j \in T
  BY <1>1
<1>3. PICK k \in T : \A l \in T : k <= l
  <2>. HIDE DEF T
  <2>. QED
    BY <1>2, LeastNatural
<1>4. ASSUME NEW l \in (i + 1)..k PROVE hashes[l] < key
  <2>1. l - 1 \in i..j /\ l - 1 < j /\ l - 1 < k /\ l \in 1..Len(hashes)
    BY <1>1
  <2>2. l - 1 \notin T
    <3>1. k \in Nat /\ l - 1 \in Nat
      BY <2>1, <1>1
    <3>. HIDE DEF T
    <3>. QED
      BY <2>1, <3>1, <1>3
  <2>3. ~ (key <= hashes[l])
    BY <2>1, <2>2, <1>1
  <2>. QED
    BY <2>1, <2>3, ElementOfSeq
<1>. QED
  BY <1>3, <1>4 DEF IsFirst

\* In an increasing sequence there is one such place.
LEMMA FirstIsUnique ==
    ASSUME NEW hashes \in Seq(Nat), NEW key \in Nat,
           NEW i \in 0..Len(hashes), NEW j \in i..Len(hashes),
           NEW k, IsFirst(k, i, j, hashes, key),
           NEW l, IsFirst(l, i, j, hashes, key)
    PROVE  k = l
<1>1. /\ Len(hashes) \in Nat /\ i \in Nat /\ j \in Nat
      /\ k \in i..j /\ l \in i..j
  BY LenProperties DEF IsFirst
<1>2. ~ (k < l)
  <2>1. SUFFICES ASSUME k < l PROVE FALSE
    OBVIOUS
  <2>2. k + 1 \in (i + 1)..l /\ k < j /\ k + 1 \in 1..Len(hashes)
    BY <2>1, <1>1
  <2>3. hashes[k + 1] < key /\ key <= hashes[k + 1] /\ hashes[k + 1] \in Nat
    BY <2>2, ElementOfSeq DEF IsFirst
  <2>. QED
    BY <2>3
<1>3. ~ (l < k)
  <2>1. SUFFICES ASSUME l < k PROVE FALSE
    OBVIOUS
  <2>2. l + 1 \in (i + 1)..k /\ l < j /\ l + 1 \in 1..Len(hashes)
    BY <2>1, <1>1
  <2>3. hashes[l + 1] < key /\ key <= hashes[l + 1] /\ hashes[l + 1] \in Nat
    BY <2>2, ElementOfSeq DEF IsFirst
  <2>. QED
    BY <2>3
<1>. QED
  BY <1>1, <1>2, <1>3

\* Looking at the middle of a range keeps the place: it is in the upper half
\* when the middle is below key and in the lower half when it is not.
LEMMA FirstOfHalf ==
    ASSUME NEW hashes \in Seq(Nat), Increasing(hashes), NEW key \in Nat,
           NEW i \in 0..Len(hashes), NEW j \in i..Len(hashes), i < j,
           NEW h, h = (i + j) \div 2, NEW k
    PROVE  /\ h \in i..(j - 1)
           /\ hashes[h + 1] < key /\ IsFirst(k, h + 1, j, hashes, key)
                => IsFirst(k, i, j, hashes, key)
           /\ ~ (hashes[h + 1] < key) /\ IsFirst(k, i, h, hashes, key)
                => IsFirst(k, i, j, hashes, key)
<1>1. Len(hashes) \in Nat /\ i \in Nat /\ j \in Nat
  BY LenProperties
<1>2. h \in i..(j - 1) /\ h \in Nat /\ h + 1 \in 1..Len(hashes)
  BY <1>1
<1>3. hashes[h + 1] \in Nat
  BY <1>2, ElementOfSeq
<1>4. ASSUME hashes[h + 1] < key, IsFirst(k, h + 1, j, hashes, key)
      PROVE  IsFirst(k, i, j, hashes, key)
  <2>1. k \in (h + 1)..j /\ k \in i..j /\ (k < j => key <= hashes[k + 1])
    BY <1>1, <1>2, <1>4 DEF IsFirst
  <2>2. ASSUME NEW l \in (i + 1)..k PROVE hashes[l] < key
    <3>1. l \in 1..Len(hashes) /\ hashes[l] \in Nat
      BY <2>1, <1>1, <1>2, ElementOfSeq
    <3>2. CASE l <= h + 1
      <4>1. l = h + 1 \/ hashes[l] < hashes[h + 1]
        BY <3>1, <3>2, <1>2, <1>1 DEF Increasing
      <4>. QED
        BY <4>1, <3>1, <1>3, <1>4
    <3>3. CASE ~ (l <= h + 1)
      <4>1. l \in ((h + 1) + 1)..k
        BY <3>1, <3>3, <2>1, <1>1, <1>2
      <4>. QED
        BY <4>1, <1>4 DEF IsFirst
    <3>. QED
      BY <3>2, <3>3
  <2>. QED
    BY <2>1, <2>2 DEF IsFirst
<1>5. ASSUME ~ (hashes[h + 1] < key), IsFirst(k, i, h, hashes, key)
      PROVE  IsFirst(k, i, j, hashes, key)
  <2>1. k \in i..h /\ k \in i..j /\ \A l \in (i + 1)..k : hashes[l] < key
    BY <1>1, <1>2, <1>5 DEF IsFirst
  <2>2. key <= hashes[k + 1]
    <3>1. CASE k = h
      BY <3>1, <1>3, <1>5
    <3>2. CASE k # h
      BY <3>2, <2>1, <1>1, <1>2, <1>5 DEF IsFirst
    <3>. QED
      BY <3>1, <3>2
  <2>. QED
    BY <2>1, <2>2 DEF IsFirst
<1>. QED
  BY <1>2, <1>4, <1>5

\* A function of ranges with the recursion of SearchIndex exists: the one that
\* gives the place that is looked for.
LEMMA BisectionExists ==
    ASSUME NEW hashes \in Seq(Nat), Increasing(hashes), NEW key \in Nat
    PROVE  \E g : Bisection(g, hashes, key)
<1>. DEFINE N == 0..Len(hashes)
            First(i, j) == CHOOSE k \in i..j : IsFirst(k, i, j, hashes, key)
            g == [r \in N \X N |-> IF r[1] > r[2] THEN r[1] ELSE First(r[1], r[2])]
            Step(r) ==
                LET i == r[1]
                    j == r[2]
                    h == (i + j) \div 2
                IN  IF i >= j THEN i
                    ELSE IF hashes[h + 1] < key THEN g[<<h + 1, j>>] ELSE g[<<i, h>>]
<1>1. Len(hashes) \in Nat
  BY LenProperties
<1>2. ASSUME NEW i \in N, NEW j \in i..Len(hashes)
      PROVE  IsFirst(First(i, j), i, j, hashes, key)
  BY FirstExists
<1>3. ASSUME NEW i \in N, NEW j \in i..Len(hashes),
             NEW k, IsFirst(k, i, j, hashes, key)
      PROVE  First(i, j) = k
  <2>. HIDE DEF First
  <2>. QED
    BY <1>2, <1>3, FirstIsUnique
<1>. HIDE DEF First
<1>4. ASSUME NEW i \in N, NEW j \in N PROVE g[<<i, j>>] = Step(<<i, j>>)
  <2>. DEFINE h == (i + j) \div 2
  <2>1. i \in Nat /\ j \in Nat
    BY <1>1
  <2>2. CASE i >= j
    <3>1. i = j => First(i, j) = i
      <4>1. SUFFICES ASSUME i = j PROVE IsFirst(i, i, j, hashes, key)
        BY <2>1, <1>1, <1>3
      <4>. QED
        BY <4>1, <2>1 DEF IsFirst
    <3>. QED
      BY <2>1, <2>2, <3>1
  <2>3. CASE i < j
    <3>1. j \in i..Len(hashes) /\ h \in i..(j - 1) /\ h \in N /\ h + 1 \in N
      BY <2>1, <2>3, <1>1
    <3>2. g[<<i, j>>] = First(i, j)
      BY <2>1, <2>3
    <3>3. CASE hashes[h + 1] < key
      <4>1. h + 1 \in N /\ j \in (h + 1)..Len(hashes)
        BY <3>1, <2>1, <1>1
      <4>2. IsFirst(First(h + 1, j), h + 1, j, hashes, key)
        BY <4>1, <1>2
      <4>3. IsFirst(First(h + 1, j), i, j, hashes, key)
        BY <4>2, <3>1, <3>3, <2>3, FirstOfHalf
      <4>4. First(i, j) = First(h + 1, j)
        BY <4>3, <3>1, <1>3
      <4>5. g[<<h + 1, j>>] = First(h + 1, j) /\ ~ (i >= j)
        BY <4>1, <3>1, <2>1, <2>3
      <4>. HIDE DEF g
      <4>. QED
        BY <4>4, <4>5, <3>2, <3>3
    <3>4. CASE ~ (hashes[h + 1] < key)
      <4>1. h \in i..Len(hashes)
        BY <3>1, <2>1, <1>1
      <4>2. IsFirst(First(i, h), i, h, hashes, key)
        BY <4>1, <1>2
      <4>3. IsFirst(First(i, h), i, j, hashes, key)
        BY <4>2, <3>1, <3>4, <2>3, FirstOfHalf
      <4>4. First(i, j) = First(i, h)
        BY <4>3, <3>1, <1>3
      <4>5. g[<<i, h>>] = First(i, h) /\ ~ (i >= j)
        BY <4>1, <3>1, <2>1, <2>3
      <4>. HIDE DEF g
      <4>. QED
        BY <4>4, <4>5, <3>2, <3>4
    <3>. QED
      BY <3>3, <3>4
  <2>. QED
    BY <2>1, <2>2, <2>3
<1>5. g = [r \in N \X N |-> Step(r)]
  <2>1. \A r \in N \X N : g[r] = Step(r)
    <3>1. SUFFICES ASSUME NEW r \in N \X N PROVE g[r] = Step(r)
      OBVIOUS
    <3>2. r[1] \in N /\ r[2] \in N /\ r = <<r[1], r[2]>>
      OBVIOUS
    <3>. HIDE DEF g, Step
    <3>. QED
      BY <3>2, <1>4
  <2>2. g = [r \in N \X N |-> g[r]]
    OBVIOUS
  <2>. HIDE DEF g, Step
  <2>. QED
    BY <2>1, <2>2
<1>. HIDE DEF g
<1>. QED
  BY <1>5 DEF Bisection

\* Any such function gives it: a shortest range where it does not would be
\* halved into one where it does.
LEMMA BisectionFinds ==
    ASSUME NEW hashes \in Seq(Nat), Increasing(hashes), NEW key \in Nat,
           NEW g, Bisection(g, hashes, key),
           NEW i \in 0..Len(hashes), NEW j \in i..Len(hashes)
    PROVE  IsFirst(g[<<i, j>>], i, j, hashes, key)
<1>. DEFINE N == 0..Len(hashes)
            Wrong(a, b) == ~ IsFirst(g[<<a, b>>], a, b, hashes, key)
            Bad == {d \in Nat : \E a, b \in N : b = a + d /\ Wrong(a, b)}
<1>1. Len(hashes) \in Nat
  BY LenProperties
<1>2. SUFFICES ASSUME Bad # {} PROVE FALSE
  <2>1. j - i \in Nat /\ i \in N /\ j \in N /\ j = i + (j - i)
    BY <1>1
  <2>2. Wrong(i, j) => j - i \in Bad
    BY <2>1
  <2>. QED
    BY <2>2
<1>3. PICK d \in Bad : \A e \in Bad : d <= e
  <2>1. Bad \subseteq Nat
    OBVIOUS
  <2>. HIDE DEF Bad
  <2>. QED
    BY <2>1, <1>2, LeastNatural
<1>4. PICK a \in N, b \in N : b = a + d /\ Wrong(a, b)
  BY <1>3
<1>5. d \in Nat /\ a \in Nat /\ b \in Nat /\ b \in a..Len(hashes)
  BY <1>1, <1>3, <1>4
<1>6. ASSUME NEW x \in N, NEW y \in x..Len(hashes), y - x < d
      PROVE  IsFirst(g[<<x, y>>], x, y, hashes, key)
  <2>1. y - x \in Nat /\ y \in N /\ y = x + (y - x) /\ ~ (d <= y - x)
    BY <1>1, <1>5, <1>6
  <2>2. y - x \notin Bad
    <3>. HIDE DEF Bad
    <3>. QED
      BY <2>1, <1>3
  <2>. QED
    BY <2>1, <2>2
<1>. DEFINE h == (a + b) \div 2
<1>7. g[<<a, b>>] = IF a >= b THEN a
                    ELSE IF hashes[h + 1] < key THEN g[<<h + 1, b>>] ELSE g[<<a, h>>]
  BY DEF Bisection
<1>. HIDE DEF Bad
<1>8. CASE a >= b
  <2>1. g[<<a, b>>] = a /\ a = b
    BY <1>5, <1>7, <1>8
  <2>2. IsFirst(a, a, b, hashes, key)
    BY <2>1, <1>5 DEF IsFirst
  <2>. QED
    BY <2>1, <2>2, <1>4
<1>9. CASE a < b
  <2>1. h \in a..(b - 1) /\ h \in Nat /\ ~ (a >= b)
    BY <1>5, <1>9
  <2>2. CASE hashes[h + 1] < key
    <3>1. h + 1 \in N /\ b \in (h + 1)..Len(hashes) /\ b - (h + 1) < d
      BY <2>1, <1>1, <1>4, <1>5
    <3>2. IsFirst(g[<<h + 1, b>>], h + 1, b, hashes, key)
      BY <3>1, <1>6
    <3>3. IsFirst(g[<<h + 1, b>>], a, b, hashes, key)
      BY <3>2, <2>2, <1>5, <1>9, FirstOfHalf
    <3>4. g[<<a, b>>] = g[<<h + 1, b>>]
      BY <2>1, <2>2, <1>7
    <3>. QED
      BY <3>3, <3>4, <1>4
  <2>3. CASE ~ (hashes[h + 1] < key)
    <3>1. h \in a..Len(hashes) /\ h - a < d
      BY <2>1, <1>1, <1>4, <1>5
    <3>2. IsFirst(g[<<a, h>>], a, h, hashes, key)
      BY <3>1, <1>6
    <3>3. IsFirst(g[<<a, h>>], a, b, hashes, key)
      BY <3>2, <2>3, <1>5, <1>9, FirstOfHalf
    <3>4. g[<<a, b>>] = g[<<a, h>>]
      BY <2>1, <2>3, <1>7
    <3>. QED
      BY <3>3, <3>4, <1>4
  <2>. QED
    BY <2>2, <2>3
<1>. QED
  BY <1>5, <1>8, <1>9

\* The binary search of a bucket (sort.Search in src/funded/sets.go) ends at
\* the first hash that is not below the key, whatever the hashes are.
THEOREM SearchIndexFinds ==
    ASSUME NEW hashes \in Seq(Nat), Increasing(hashes), NEW key \in Nat
    PROVE  IsFirst(SearchIndex(hashes, key), 0, Len(hashes), hashes, key)
<1>. DEFINE g == CHOOSE f : Bisection(f, hashes, key)
<1>1. SearchIndex(hashes, key) = g[<<0, Len(hashes)>>]
  BY DEF SearchIndex, Bisection
<1>2. Bisection(g, hashes, key)
  BY BisectionExists
<1>3. 0 \in 0..Len(hashes) /\ Len(hashes) \in 0..Len(hashes)
  BY LenProperties
<1>. HIDE DEF g
<1>4. IsFirst(g[<<0, Len(hashes)>>], 0, Len(hashes), hashes, key)
  BY <1>2, <1>3, BisectionFinds
<1>. QED
  BY <1>1, <1>4

\* So a key is found exactly when it is one of the hashes, and at its place.
LEMMA FoundWhenListed ==
    ASSUME NEW hashes \in Seq(Nat), Increasing(hashes), NEW key \in Nat
    PROVE  /\ InFunded(hashes, key) <=> key \in ToSet(hashes)
           /\ InFunded(hashes, key) =>
                /\ SearchIndex(hashes, key) + 1 \in 1..Len(hashes)
                /\ hashes[SearchIndex(hashes, key) + 1] = key
<1>. DEFINE i == SearchIndex(hashes, key)
<1>1. Len(hashes) \in Nat /\ DOMAIN hashes = 1..Len(hashes)
  BY LenProperties
<1>2. IsFirst(i, 0, Len(hashes), hashes, key)
  BY SearchIndexFinds
<1>3. i \in 0..Len(hashes)
  BY <1>2 DEF IsFirst
<1>. HIDE DEF i
<1>4. InFunded(hashes, key) <=> i < Len(hashes) /\ hashes[i + 1] = key
  BY DEF InFunded, i
<1>5. i < Len(hashes) => i + 1 \in 1..Len(hashes)
  BY <1>1, <1>3
<1>6. ASSUME NEW k \in 1..Len(hashes), hashes[k] = key
      PROVE  i < Len(hashes) /\ hashes[i + 1] = key
  <2>1. ~ (k <= i)
    <3>1. SUFFICES ASSUME k <= i PROVE FALSE
      OBVIOUS
    <3>2. k \in (0 + 1)..i
      BY <3>1, <1>1, <1>3
    <3>. QED
      BY <3>2, <1>2, <1>6 DEF IsFirst
  <2>2. i < Len(hashes) /\ i + 1 \in 1..Len(hashes) /\ (i + 1 < k \/ i + 1 = k)
    BY <2>1, <1>1, <1>3
  <2>3. key <= hashes[i + 1] /\ hashes[i + 1] \in Nat
    BY <2>2, <1>2, ElementOfSeq DEF IsFirst
  <2>4. ~ (i + 1 < k)
    BY <2>2, <2>3, <1>6 DEF Increasing
  <2>. QED
    BY <2>2, <2>4, <1>6
<1>7. key \in ToSet(hashes) <=> \E k \in 1..Len(hashes) : hashes[k] = key
  BY <1>1 DEF ToSet
<1>8. (i < Len(hashes) /\ hashes[i + 1] = key) <=> key \in ToSet(hashes)
  BY <1>5, <1>6, <1>7
<1>. QED
  BY <1>4, <1>5, <1>8 DEF i
-----------------------------------------------------------------------------
(* What the builder holds, and what Build makes of it.                     *)

\* The lines that count for hash h in bucket k.
Counted(k, h) ==
    {line \in listed : line.kind = k /\ line.hash = h /\ line.balance >= MinBalance}

\* Bucket k holds the hashes that some line counts for, each with the largest
\* balance of those lines.
HoldsLargest(k) ==
    /\ DOMAIN builder[k] \subseteq Hashes
    /\ \A h \in Hashes : Counted(k, h) # {} => h \in DOMAIN builder[k]
    /\ \A h \in DOMAIN builder[k] :
         /\ \E line \in Counted(k, h) : line.balance = builder[k][h]
         /\ \A line \in Counted(k, h) : line.balance <= builder[k][h]

BuilderInv ==
    /\ listed \subseteq Lines
    /\ builder = [k \in Kinds |-> builder[k]]
    /\ \A k \in Kinds : HoldsLargest(k)

\* What is searched was built from all that was read.
SetsInv ==
    phase = "ready" =>
        \E passes \in FalsePositives :
            sets = [k \in Kinds |-> AddBloom(SortBucket(BuildBucket(builder[k])), passes)]

IndexInv == phase \in {"parse", "ready"} /\ BuilderInv /\ SetsInv

\* A line keeps the balances of the other hashes and the larger one of its own.
LEMMA AddKeepsBuilder ==
    ASSUME BuilderInv, NEW line \in Lines, Add(line)
    PROVE  BuilderInv'
<1>. DEFINE kind == line.kind
            hash == line.hash
            balance == line.balance
<1>. USE IndexAssumption
<1>1. /\ kind \in Kinds \cup {"other"} /\ hash \in Hashes /\ balance \in Nat
      /\ MinBalance \in Nat
      /\ \A l \in listed : l \in Lines /\ l.balance \in Nat
  BY DEF Lines, BuilderInv
<1>2. listed' = listed \cup {line} /\ listed' \subseteq Lines
  BY DEF Add, BuilderInv
<1>3. builder = [k \in Kinds |-> builder[k]] /\ \A k \in Kinds : HoldsLargest(k)
  BY DEF BuilderInv
<1>4. CASE balance < MinBalance \/ kind = "other"
  <2>1. builder' = builder
    BY <1>4 DEF Add
  <2>2. \A k \in Kinds, h \in Hashes : Counted(k, h)' = Counted(k, h)
    <3>1. "other" \notin Kinds
      BY DEF Kinds
    <3>. QED
      BY <1>1, <1>2, <1>4, <3>1 DEF Counted
  <2>3. \A k \in Kinds : HoldsLargest(k)'
    BY <1>3, <2>1, <2>2 DEF HoldsLargest
  <2>. QED
    BY <1>2, <1>3, <2>1, <2>3 DEF BuilderInv
<1>5. CASE ~ (balance < MinBalance \/ kind = "other")
  <2>1. kind \in Kinds /\ balance >= MinBalance
    BY <1>1, <1>5
  <2>2. builder' = [builder EXCEPT ![kind] = Merge(@, hash, balance)]
    BY <1>5 DEF Add
  <2>3. builder' = [k \in Kinds |-> builder'[k]]
    BY <1>3, <2>2
  <2>4. builder'[kind] = Merge(builder[kind], hash, balance)
    BY <1>3, <2>1, <2>2
  <2>5. ASSUME NEW k \in Kinds, k # kind PROVE HoldsLargest(k)'
    <3>1. builder'[k] = builder[k] /\ \A h \in Hashes : Counted(k, h)' = Counted(k, h)
      BY <2>5, <1>2, <1>3, <2>2 DEF Counted
    <3>. QED
      BY <3>1, <1>3 DEF HoldsLargest
  <2>6. HoldsLargest(kind)'
    <3>. DEFINE m == builder[kind]
                n == builder'[kind]
    <3>1. HoldsLargest(kind)
      BY <1>3, <2>1
    <3>2. /\ DOMAIN n = DOMAIN m \cup {hash}
          /\ \A h \in DOMAIN m : h # hash => n[h] = m[h]
          /\ n[hash] = IF hash \in DOMAIN m /\ ~ (balance > m[hash])
                       THEN m[hash] ELSE balance
      <4>1. n = Merge(m, hash, balance)
        BY <2>4
      <4>. HIDE DEF m, n, hash, balance
      <4>2. CASE hash \notin DOMAIN m \/ balance > m[hash]
        <5>1. n = [h \in DOMAIN m \cup {hash} |-> IF h = hash THEN balance ELSE m[h]]
          BY <4>1, <4>2 DEF Merge
        <5>. QED
          BY <5>1, <4>2
      <4>3. CASE ~ (hash \notin DOMAIN m \/ balance > m[hash])
        <5>1. n = m
          BY <4>1, <4>3 DEF Merge
        <5>. QED
          BY <5>1, <4>3
      <4>. QED
        BY <4>2, <4>3
    <3>3. /\ \A h \in Hashes : h # hash => Counted(kind, h)' = Counted(kind, h)
          /\ Counted(kind, hash)' = Counted(kind, hash) \cup {line}
      BY <1>1, <1>2, <2>1 DEF Counted
    <3>4. \A h \in DOMAIN m : m[h] \in Nat
      BY <3>1, <1>1 DEF HoldsLargest, Counted
    <3>. HIDE DEF kind, hash, balance
    <3>5. DOMAIN n \subseteq Hashes
      BY <3>1, <3>2, <1>1 DEF HoldsLargest
    <3>6. \A h \in Hashes : Counted(kind, h)' # {} => h \in DOMAIN n
      BY <3>1, <3>2, <3>3 DEF HoldsLargest
    <3>7. ASSUME NEW h \in DOMAIN n
          PROVE  /\ \E l \in Counted(kind, h)' : l.balance = n[h]
                 /\ \A l \in Counted(kind, h)' : l.balance <= n[h]
      <4>1. CASE h # hash
        BY <4>1, <3>1, <3>2, <3>3, <3>5 DEF HoldsLargest
      <4>2. CASE h = hash /\ hash \in DOMAIN m /\ ~ (balance > m[hash])
        <5>1. n[h] = m[hash] /\ balance <= m[hash]
          BY <4>2, <3>2, <3>4, <1>1
        <5>. QED
          BY <5>1, <4>2, <3>1, <3>3 DEF HoldsLargest, balance
      <4>3. CASE h = hash /\ hash \in DOMAIN m /\ balance > m[hash]
        <5>1. n[h] = balance
          BY <4>3, <3>2
        <5>2. \A l \in Counted(kind, hash) : l.balance <= m[hash] /\ l.balance \in Nat
          BY <4>3, <3>1, <1>1 DEF HoldsLargest, Counted
        <5>3. \A l \in Counted(kind, hash) : l.balance <= balance
          BY <5>2, <4>3, <3>4, <1>1
        <5>. QED
          BY <5>1, <5>3, <4>3, <3>3, <1>1 DEF balance
      <4>4. CASE h = hash /\ hash \notin DOMAIN m
        <5>1. n[h] = balance /\ Counted(kind, hash) = {}
          BY <4>4, <3>1, <3>2, <1>1 DEF HoldsLargest
        <5>. QED
          BY <5>1, <4>4, <3>3, <1>1 DEF balance
      <4>. QED
        BY <4>1, <4>2, <4>3, <4>4
    <3>. QED
      BY <3>5, <3>6, <3>7 DEF HoldsLargest
  <2>7. \A k \in Kinds : HoldsLargest(k)'
    BY <2>5, <2>6
  <2>. QED
    BY <1>2, <2>3, <2>7 DEF BuilderInv
<1>. QED
  BY <1>4, <1>5

\* What was read stays in the builder with the largest balance that counts,
\* and the sets are built from it (Builder.Add, Builder.Build, Sets.Sort and
\* EnsureBlooms): the invariant the properties rest on.
THEOREM IndexIsBuiltFromLines == IndexSpec => []IndexInv
<1>1. IndexInit => IndexInv
  <2>1. SUFFICES ASSUME IndexInit PROVE IndexInv
    OBVIOUS
  <2>2. \A k \in Kinds : DOMAIN builder[k] = {} /\ \A h : Counted(k, h) = {}
    BY <2>1 DEF IndexInit, Counted
  <2>3. \A k \in Kinds : HoldsLargest(k)
    BY <2>2 DEF HoldsLargest
  <2>. QED
    BY <2>1, <2>3 DEF IndexInit, IndexInv, BuilderInv, SetsInv
<1>2. IndexInv /\ [IndexNext]_indexVars => IndexInv'
  <2>1. SUFFICES ASSUME IndexInv, [IndexNext]_indexVars PROVE IndexInv'
    OBVIOUS
  <2>2. CASE \E line \in Lines : Add(line)
    <3>1. PICK line \in Lines : Add(line)
      BY <2>2
    <3>2. BuilderInv'
      BY <2>1, <3>1, AddKeepsBuilder DEF IndexInv
    <3>3. phase' = "parse"
      BY <3>1 DEF Add
    <3>. QED
      BY <3>2, <3>3 DEF IndexInv, SetsInv
  <2>3. CASE \E passes \in FalsePositives : Build(passes)
    <3>1. PICK passes \in FalsePositives : Build(passes)
      BY <2>3
    <3>2. /\ phase' = "ready" /\ listed' = listed /\ builder' = builder
          /\ sets' = [k \in Kinds |->
                         AddBloom(SortBucket(BuildBucket(builder[k])), passes)]
      BY <3>1 DEF Build
    <3>3. \A k \in Kinds : HoldsLargest(k) => HoldsLargest(k)'
      BY <3>2 DEF HoldsLargest, Counted
    <3>4. BuilderInv'
      BY <2>1, <3>2, <3>3 DEF IndexInv, BuilderInv
    <3>5. SetsInv'
      BY <3>2 DEF SetsInv
    <3>. QED
      BY <3>2, <3>4, <3>5 DEF IndexInv
  <2>4. CASE UNCHANGED indexVars
    <3>1. /\ phase' = phase /\ listed' = listed /\ builder' = builder /\ sets' = sets
      BY <2>4 DEF indexVars
    <3>2. \A k \in Kinds : HoldsLargest(k) => HoldsLargest(k)'
      BY <3>1 DEF HoldsLargest, Counted
    <3>3. BuilderInv'
      BY <2>1, <3>1, <3>2 DEF IndexInv, BuilderInv
    <3>4. SetsInv'
      BY <2>1, <3>1 DEF IndexInv, SetsInv
    <3>. QED
      BY <2>1, <3>1, <3>3, <3>4 DEF IndexInv
  <2>. QED
    BY <2>1, <2>2, <2>3, <2>4 DEF IndexNext
<1>. QED
  BY <1>1, <1>2, PTL DEF IndexSpec

-----------------------------------------------------------------------------
(* The buckets that are searched.                                          *)

\* Bucket k as it is searched: the hashes in order, each balance at the index
\* of its hash although the two are sorted apart, a filter that lets every
\* hash pass.
Aligned(k) ==
    LET m == builder[k]
        bucket == sets[k]
    IN  /\ DOMAIN m \subseteq Hashes
        /\ bucket = [hashes |-> bucket.hashes, balances |-> bucket.balances,
                      bloom |-> bucket.bloom]
        /\ bucket.hashes \in Seq(Nat) /\ Increasing(bucket.hashes)
        /\ ToSet(bucket.hashes) = DOMAIN m
        /\ bucket.balances \in Seq(Nat)
        /\ Len(bucket.balances) = Len(bucket.hashes)
        /\ \A i \in 1..Len(bucket.hashes) :
              bucket.balances[i] = m[bucket.hashes[i]]
        /\ DOMAIN m # {} => bucket.hashes # <<>> /\ DOMAIN m \subseteq bucket.bloom
        /\ bucket.hashes = <<>> => bucket.bloom = {}
        /\ bucket.bloom \subseteq Nat

\* The four buckets of a built index are aligned.
LEMMA BucketsAreAligned ==
    ASSUME IndexInv, phase = "ready"
    PROVE  /\ sets = [k \in Kinds |-> sets[k]]
           /\ \A k \in Kinds : Aligned(k)
<1>. USE IndexAssumption
<1>1. PICK passes \in FalsePositives :
         sets = [k \in Kinds |-> AddBloom(SortBucket(BuildBucket(builder[k])), passes)]
  BY DEF IndexInv, SetsInv
<1>2. ASSUME NEW k \in Kinds PROVE Aligned(k)
  <2>. DEFINE m == builder[k]
              D == DOMAIN m
              s == Sorted(D)
              b == [i \in DOMAIN s |-> m[s[i]]]
              bloom == IF s = <<>> THEN {} ELSE D \cup passes
  <2>1. HoldsLargest(k) /\ listed \subseteq Lines
    BY DEF IndexInv, BuilderInv
  <2>2. D \subseteq Hashes /\ D \subseteq Nat /\ IsFiniteSet(D)
    BY <2>1, FS_Subset DEF HoldsLargest
  <2>3. /\ s \in Seq(D) /\ s \in Seq(Nat) /\ ToSet(s) = D /\ Increasing(s)
    BY <2>2, SortedLists
  <2>4. Len(s) \in Nat /\ DOMAIN s = 1..Len(s)
    BY <2>3, LenProperties
  <2>5. \A h \in D : m[h] \in Nat
    <3>1. \A h \in D : \E line \in Counted(k, h) : line.balance = m[h]
      BY <2>1 DEF HoldsLargest
    <3>2. \A line \in Lines : line.balance \in Nat
      BY DEF Lines
    <3>3. \A h : Counted(k, h) \subseteq Lines
      BY <2>1 DEF Counted
    <3>. QED
      BY <3>1, <3>2, <3>3, Zenon
  <2>. HIDE DEF s
  <2>6. BuildBucket(m) = [hashes |-> s, balances |-> b, bloom |-> {}]
    BY DEF BuildBucket, s
  <2>7. SortBucket(BuildBucket(m)) = [hashes |-> s, balances |-> b, bloom |-> {}]
    <3>1. Sorted(ToSet(s)) = s
      BY <2>3 DEF s
    <3>. QED
      BY <2>6, <3>1 DEF SortBucket
  <2>8. sets[k] = [hashes |-> s, balances |-> b, bloom |-> bloom]
    <3>1. sets[k] = AddBloom(SortBucket(BuildBucket(m)), passes)
      BY <1>1
    <3>2. ToSet(s) = D
      BY <2>3
    <3>. DEFINE r == [hashes |-> s, balances |-> b, bloom |-> {}]
    <3>. HIDE DEF b, D, bloom
    <3>3. r.hashes = s /\ [r EXCEPT !.bloom = bloom] =
                            [hashes |-> s, balances |-> b, bloom |-> bloom]
      OBVIOUS
    <3>. HIDE DEF r
    <3>4. AddBloom(r, passes) = [r EXCEPT !.bloom = bloom]
      BY <3>2, <3>3, Zenon DEF AddBloom, bloom
    <3>. QED
      BY <2>7, <3>1, <3>3, <3>4 DEF r
  <2>9. \A i \in 1..Len(s) : s[i] \in D
    BY <2>3, ElementOfSeq
  <2>10. b \in Seq(Nat) /\ Len(b) = Len(s) /\ \A i \in 1..Len(s) : b[i] = m[s[i]]
    BY <2>4, <2>5, <2>9
  <2>11. D # {} => s # <<>>
    <3>1. SUFFICES ASSUME s = <<>> PROVE D = {}
      OBVIOUS
    <3>2. DOMAIN s = {}
      BY <3>1
    <3>. QED
      BY <2>3, <3>2 DEF ToSet
  <2>12. passes \subseteq Nat
    OBVIOUS
  <2>13. bloom \subseteq Nat /\ (D # {} => D \subseteq bloom) /\ (s = <<>> => bloom = {})
    BY <2>2, <2>11, <2>12
  <2>. HIDE DEF b, bloom, D
  <2>14. sets[k].hashes = s /\ sets[k].balances = b /\ sets[k].bloom = bloom
    BY <2>8
  <2>. QED
    BY <2>2, <2>3, <2>8, <2>10, <2>11, <2>13, <2>14 DEF Aligned, D
<1>3. sets = [k \in Kinds |-> sets[k]]
  BY <1>1
<1>. QED
  BY <1>2, <1>3

\* A bucket answers for exactly the hashes the builder held, with their
\* balances; the filter never says no to one of them.
LEMMA BucketAnswers ==
    ASSUME NEW k \in Kinds, Aligned(k), NEW key \in Nat
    PROVE  /\ MaybeFunded(sets[k], key) <=> key \in DOMAIN builder[k]
           /\ MaybeFunded(sets[k], key) => BalanceAt(sets[k], key) = builder[k][key]
<1>. DEFINE hashes == sets[k].hashes
            i == SearchIndex(hashes, key) + 1
<1>1. /\ hashes \in Seq(Nat) /\ Increasing(hashes) /\ ToSet(hashes) = DOMAIN builder[k]
      /\ \A j \in 1..Len(hashes) : sets[k].balances[j] = builder[k][hashes[j]]
      /\ DOMAIN builder[k] # {} => DOMAIN builder[k] \subseteq sets[k].bloom
  BY DEF Aligned
<1>2. /\ InFunded(hashes, key) <=> key \in DOMAIN builder[k]
      /\ InFunded(hashes, key) => i \in 1..Len(hashes) /\ hashes[i] = key
  <2>. HIDE DEF hashes
  <2>. QED
    BY <1>1, FoundWhenListed
<1>3. MaybeFunded(sets[k], key) <=> key \in DOMAIN builder[k]
  BY <1>1, <1>2 DEF MaybeFunded
<1>4. InFunded(hashes, key) => BalanceAt(sets[k], key) = builder[k][key]
  BY <1>1, <1>2 DEF BalanceAt
<1>. QED
  BY <1>2, <1>3, <1>4

\* deriveKeysStaged derives taproot for a search for taproot alone, or when a
\* filter lets one of the wallet's own keys pass.
TaprootDerived(w, mask) == mask = {"taproot"} \/ BloomMaybe(mask, w)

\* What deriveKeysStaged leaves underived is zero; it derives the key of every
\* selected format whose bucket is not empty, taproot on its condition.
LEMMA DerivedKeys ==
    ASSUME NEW w \in Wallets, NEW mask \in Masks, NEW f \in Formats,
           \A k \in Kinds : Aligned(k)
    PROVE  LET keys == Derived(w, mask)
           IN  /\ w[KeyOf[f]] \in Nat
               /\ keys[KeyOf[f]] = 0 \/ keys[KeyOf[f]] = w[KeyOf[f]]
               /\ f \in mask /\ sets[BucketOf[f]].hashes # <<>>
                    /\ (f = "taproot" => TaprootDerived(w, mask))
                    => keys[KeyOf[f]] = w[KeyOf[f]]
<1>. DEFINE compressed == IF mask \cap {"legacyCompressed", "segwit", "p2sh"} # {}
                          THEN w.compressed ELSE 0
            p2sh == IF "p2sh" \in mask /\ sets["p2sh"].hashes # <<>> THEN w.p2sh ELSE 0
            uncompressed == IF "legacyUncompressed" \in mask /\ sets["legacy"].hashes # <<>>
                            THEN w.uncompressed ELSE 0
            first == [compressed |-> compressed, p2sh |-> p2sh,
                      uncompressed |-> uncompressed, taproot |-> 0]
            taproot == IF ShouldDeriveTaproot(mask, first) THEN w.taproot ELSE 0
            keys == Derived(w, mask)
<1>1. /\ w.compressed \in Nat /\ w.uncompressed \in Nat
      /\ w.p2sh \in Nat /\ w.taproot \in Nat
  BY IndexAssumption
<1>2. keys = [first EXCEPT !.taproot = taproot]
  BY DEF Derived
<1>. HIDE DEF compressed, p2sh, uncompressed, taproot
<1>3. /\ keys["compressed"] = compressed /\ keys["uncompressed"] = uncompressed
      /\ keys["p2sh"] = p2sh /\ keys["taproot"] = taproot
  BY <1>2
<1>4. /\ first["compressed"] = compressed /\ first["uncompressed"] = uncompressed
      /\ first["p2sh"] = p2sh
  OBVIOUS
<1>. HIDE DEF first, keys
<1>5. ASSUME NEW g \in Formats
      PROVE  \/ g = "legacyCompressed" /\ KeyOf[g] = "compressed" /\ BucketOf[g] = "legacy"
             \/ g = "legacyUncompressed" /\ KeyOf[g] = "uncompressed" /\ BucketOf[g] = "legacy"
             \/ g = "segwit" /\ KeyOf[g] = "compressed" /\ BucketOf[g] = "segwit"
             \/ g = "p2sh" /\ KeyOf[g] = "p2sh" /\ BucketOf[g] = "p2sh"
             \/ g = "taproot" /\ KeyOf[g] = "taproot" /\ BucketOf[g] = "taproot"
  BY DEF Formats, KeyOf, BucketOf
<1>6. w[KeyOf[f]] \in Nat
  BY <1>1, <1>5
<1>7. keys[KeyOf[f]] = 0 \/ keys[KeyOf[f]] = w[KeyOf[f]]
  BY <1>3, <1>5 DEF compressed, p2sh, uncompressed, taproot
<1>8. BloomMaybe(mask, w) => BloomMaybe(mask, first)
  <2>1. SUFFICES ASSUME NEW g \in mask \ {"taproot"},
                        w[KeyOf[g]] \in sets[BucketOf[g]].bloom
                 PROVE  first[KeyOf[g]] = w[KeyOf[g]]
    BY DEF BloomMaybe
  <2>2. g \in Formats /\ BucketOf[g] \in Kinds
    BY <1>5 DEF Masks, Kinds
  <2>3. sets[BucketOf[g]].hashes # <<>>
    BY <2>1, <2>2 DEF Aligned
  <2>. QED
    BY <2>2, <2>3, <1>4, <1>5 DEF compressed, p2sh, uncompressed
<1>9. TaprootDerived(w, mask) /\ "taproot" \in mask /\ sets["taproot"].hashes # <<>>
        => taproot = w.taproot
  BY <1>8 DEF TaprootDerived, ShouldDeriveTaproot, taproot
<1>10. ASSUME f \in mask, sets[BucketOf[f]].hashes # <<>>,
              f = "taproot" => TaprootDerived(w, mask)
       PROVE  keys[KeyOf[f]] = w[KeyOf[f]]
  BY <1>3, <1>5, <1>9, <1>10 DEF compressed, p2sh, uncompressed
<1>. QED
  BY <1>6, <1>7, <1>10 DEF keys

\* Sets.Match reports the first of the formats that hit, when one does.
LEMMA MatchIsHit ==
    ASSUME NEW mask \in Masks, NEW keys, Matched(mask, keys)
    PROVE  Match(mask, keys) \in Hits(mask, keys)
<1>. DEFINE T == {i \in 1..5 : MatchOrder[i] \in Hits(mask, keys)}
<1>1. PICK f \in Hits(mask, keys) : TRUE
  BY DEF Matched
<1>2. f \in Formats
  BY <1>1 DEF Hits, Masks
<1>3. \E i \in 1..5 : MatchOrder[i] = f
  <2>1. /\ MatchOrder[1] = "legacyCompressed" /\ MatchOrder[2] = "legacyUncompressed"
        /\ MatchOrder[3] = "segwit" /\ MatchOrder[4] = "p2sh" /\ MatchOrder[5] = "taproot"
    BY DEF MatchOrder
  <2>. QED
    BY <1>2, <2>1 DEF Formats
<1>4. T # {} /\ T \subseteq Nat
  BY <1>1, <1>3
<1>5. PICK i \in T : \A j \in T : i <= j
  <2>. HIDE DEF T
  <2>. QED
    BY <1>4, LeastNatural
<1>6. \A j \in 1..(i - 1) : MatchOrder[j] \notin Hits(mask, keys)
  <2>1. SUFFICES ASSUME NEW j \in 1..(i - 1), j \in T PROVE FALSE
    OBVIOUS
  <2>2. i \in Nat /\ j < i
    OBVIOUS
  <2>. HIDE DEF T
  <2>. QED
    BY <2>1, <2>2, <1>5
<1>. QED
  BY <1>5, <1>6 DEF Match

\* A hit is real (Sets.Match and BalanceForMatch over what Builder.Build and
\* Sets.Sort made): a funded address of the wallet, in the format reported, is
\* listed with the balance reported, and none with more.
THEOREM HitsAlwaysReal == IndexSpec => []HitsAreReal
<1>1. IndexInv => HitsAreReal
  <2>1. SUFFICES ASSUME IndexInv, phase = "ready",
                        NEW w \in Wallets, NEW mask \in Masks,
                        Matched(mask, Derived(w, mask))
                 PROVE  LET keys == Derived(w, mask)
                            f == Match(mask, keys)
                        IN  \E line \in Funding(w, f) :
                              /\ line.balance = BalanceForMatch(f, keys)
                              /\ \A other \in Funding(w, f) : other.balance <= line.balance
    BY DEF HitsAreReal
  <2>. DEFINE keys == Derived(w, mask)
              f == Match(mask, keys)
              k == BucketOf[f]
              key == keys[KeyOf[f]]
  <2>2. f \in mask /\ MaybeFunded(sets[k], key)
    <3>. HIDE DEF keys
    <3>1. Match(mask, keys) \in Hits(mask, keys)
      BY <2>1, MatchIsHit DEF keys
    <3>. QED
      BY <3>1 DEF Hits
  <2>3. f \in Formats /\ k \in Kinds
    <3>1. f \in Formats
      BY <2>2 DEF Masks
    <3>. HIDE DEF f
    <3>. QED
      BY <3>1 DEF Formats, Kinds, BucketOf
  <2>. HIDE DEF f, keys
  <2>4. w[KeyOf[f]] \in Nat /\ (key = 0 \/ key = w[KeyOf[f]])
    <3>1. \A j \in Kinds : Aligned(j)
      BY <2>1, BucketsAreAligned
    <3>. QED
      BY <2>3, <3>1, DerivedKeys DEF keys
  <2>5. Aligned(k) /\ HoldsLargest(k) /\ listed \subseteq Lines
    BY <2>1, <2>3, BucketsAreAligned DEF IndexInv, BuilderInv
  <2>. HIDE DEF k, key
  <2>6. key \in DOMAIN builder[k] /\ BalanceAt(sets[k], key) = builder[k][key]
    BY <2>2, <2>3, <2>4, <2>5, BucketAnswers
  <2>7. key \in Hashes /\ key = w[KeyOf[f]]
    BY <2>4, <2>5, <2>6, IndexAssumption DEF HoldsLargest
  <2>8. Funding(w, f) = Counted(k, key)
    BY <2>7 DEF Funding, Counted, k
  <2>9. BalanceForMatch(f, keys) = builder[k][key]
    BY <2>6 DEF BalanceForMatch, k, key
  <2>10. PICK line \in Counted(k, key) : line.balance = builder[k][key]
    BY <2>5, <2>6 DEF HoldsLargest
  <2>11. \A other \in Counted(k, key) : other.balance <= builder[k][key]
    BY <2>5, <2>6 DEF HoldsLargest
  <2>. QED
    BY <2>8, <2>9, <2>10, <2>11 DEF f, keys
<1>. QED
  BY <1>1, IndexIsBuiltFromLines, PTL

\* No funded wallet is missed (deriveKeysStaged and Sets.Match): the key of a
\* funded format is derived, passes the filter and is found.
THEOREM FundedWalletsAreFound == IndexSpec => []NoFundedWalletMissed
<1>1. IndexInv => NoFundedWalletMissed
  <2>1. SUFFICES ASSUME IndexInv, phase = "ready",
                        NEW w \in Wallets, NEW mask \in Masks,
                        NEW f \in mask, Funding(w, f) # {},
                        f = "taproot" => TaprootDerived(w, mask)
                 PROVE  Matched(mask, Derived(w, mask))
    BY DEF NoFundedWalletMissed, TaprootDerived
  <2>. DEFINE keys == Derived(w, mask)
              k == BucketOf[f]
              key == w[KeyOf[f]]
  <2>2. f \in Formats /\ k \in Kinds
    <3>1. f \in Formats
      BY DEF Masks
    <3>. QED
      BY <3>1 DEF Formats, Kinds, BucketOf
  <2>. HIDE DEF keys, k, key
  <2>3. Aligned(k) /\ HoldsLargest(k) /\ listed \subseteq Lines
    BY <2>1, <2>2, BucketsAreAligned DEF IndexInv, BuilderInv
  <2>4. Counted(k, key) # {} /\ key \in Hashes
    BY <2>1, <2>3 DEF Funding, Counted, Lines, k, key
  <2>5. key \in DOMAIN builder[k]
    BY <2>3, <2>4 DEF HoldsLargest
  <2>6. sets[k].hashes # <<>>
    BY <2>3, <2>5 DEF Aligned
  <2>7. key \in Nat /\ keys[KeyOf[f]] = key
    <3>1. \A j \in Kinds : Aligned(j)
      BY <2>1, BucketsAreAligned
    <3>. QED
      BY <2>1, <2>2, <2>6, <3>1, DerivedKeys DEF keys, k, key
  <2>8. MaybeFunded(sets[k], key)
    BY <2>2, <2>3, <2>5, <2>7, BucketAnswers
  <2>9. f \in Hits(mask, keys)
    BY <2>7, <2>8 DEF Hits, k
  <2>. QED
    BY <2>9 DEF Matched, keys
<1>. QED
  BY <1>1, IndexIsBuiltFromLines, PTL
-----------------------------------------------------------------------------
(* The cache file.                                                         *)

\* The offsets of the four regions.
LEMMA BeforeUnrolled ==
    ASSUME NEW c \in [1..4 -> Nat]
    PROVE  /\ Before(c, 1) = 0 /\ Before(c, 2) = c[1] /\ Before(c, 3) = c[1] + c[2]
           /\ Before(c, 4) = c[1] + c[2] + c[3]
           /\ Before(c, 5) = c[1] + c[2] + c[3] + c[4]
<1>. DEFINE Sums(f) == f = [j \in 0..4 |-> IF j = 0 THEN 0 ELSE f[j - 1] + c[j]]
            sum == CHOOSE f : Sums(f)
<1>1. \A i : Before(c, i) = sum[i - 1]
  BY DEF Before
<1>2. \E f : Sums(f)
  <2>. DEFINE f == [j \in 0..4 |-> IF j = 0 THEN 0
                                  ELSE IF j = 1 THEN c[1]
                                  ELSE IF j = 2 THEN c[1] + c[2]
                                  ELSE IF j = 3 THEN c[1] + c[2] + c[3]
                                  ELSE c[1] + c[2] + c[3] + c[4]]
  <2>1. f[0] = 0 /\ f[1] = c[1] /\ f[2] = c[1] + c[2] /\ f[3] = c[1] + c[2] + c[3]
        /\ f[4] = c[1] + c[2] + c[3] + c[4]
    OBVIOUS
  <2>2. \A i \in 1..4 : c[i] \in Nat
    OBVIOUS
  <2>3. \A j \in 0..4 : f[j] = IF j = 0 THEN 0 ELSE f[j - 1] + c[j]
    <3>1. SUFFICES ASSUME NEW j \in 0..4
                   PROVE  f[j] = IF j = 0 THEN 0 ELSE f[j - 1] + c[j]
      OBVIOUS
    <3>2. j = 0 \/ j = 1 \/ j = 2 \/ j = 3 \/ j = 4
      OBVIOUS
    <3>. HIDE DEF f
    <3>. QED
      BY <2>1, <2>2, <3>2
  <2>4. f = [j \in 0..4 |-> f[j]]
    OBVIOUS
  <2>. HIDE DEF f
  <2>. QED
    BY <2>3, <2>4
<1>3. Sums(sum)
  BY <1>2
<1>. HIDE DEF sum
<1>4. \A j \in 0..4 : sum[j] = IF j = 0 THEN 0 ELSE sum[j - 1] + c[j]
  BY <1>3
<1>5. /\ sum[0] = 0 /\ sum[1] = sum[0] + c[1] /\ sum[2] = sum[1] + c[2]
      /\ sum[3] = sum[2] + c[3] /\ sum[4] = sum[3] + c[4]
  BY <1>4
<1>6. c[1] \in Nat /\ c[2] \in Nat /\ c[3] \in Nat /\ c[4] \in Nat
  OBVIOUS
<1>7. /\ Before(c, 1) = sum[0] /\ Before(c, 2) = sum[1] /\ Before(c, 3) = sum[2]
      /\ Before(c, 4) = sum[3] /\ Before(c, 5) = sum[4]
  BY <1>1
<1>. QED
  BY <1>5, <1>6, <1>7

\* One sequence after the other, with its definition hidden from the provers.
Glue(s, t) == s \o t

\* r has the entries of s and then those of t.
Joins(E, s, t, r) ==
    /\ r \in Seq(E) /\ Len(r) = Len(s) + Len(t)
    /\ \A x \in 1..Len(s) : r[x] = s[x]
    /\ \A x \in 1..Len(t) : r[Len(s) + x] = t[x]

\* Where the entries of two sequences are when one follows the other.
LEMMA GlueParts ==
    ASSUME NEW E, NEW s \in Seq(E), NEW t \in Seq(E)
    PROVE  Joins(E, s, t, Glue(s, t))
<1>. DEFINE a == Len(s)
            b == Len(t)
<1>0. a \in Nat /\ b \in Nat
  BY LenProperties
<1>1. /\ Glue(s, t) \in Seq(E) /\ Len(Glue(s, t)) = a + b
      /\ \A i \in 1..(a + b) : Glue(s, t)[i] = IF i <= a THEN s[i] ELSE t[i - a]
  BY ConcatProperties DEF Glue
<1>. HIDE DEF a, b
<1>2. ASSUME NEW x \in 1..a PROVE Glue(s, t)[x] = s[x]
  <2>1. x \in 1..(a + b) /\ x <= a
    BY <1>0
  <2>. QED
    BY <1>1, <2>1
<1>3. ASSUME NEW x \in 1..b PROVE Glue(s, t)[a + x] = t[x]
  <2>1. a + x \in 1..(a + b) /\ ~ (a + x <= a) /\ (a + x) - a = x
    BY <1>0
  <2>. QED
    BY <1>1, <2>1
<1>. QED
  BY <1>1, <1>2, <1>3 DEF Joins, a, b

\* Four regions written one after the other.
LEMMA FlattenFour ==
    ASSUME NEW q, DOMAIN q = 1..4, Len(q) = 4
    PROVE  FlattenSeq(q) = Glue(Glue(Glue(q[1], q[2]), q[3]), q[4])
<1>. DEFINE Flat(f) == f = [i \in 1..Len(q) |-> IF i = 1 THEN q[i] ELSE Glue(f[i - 1], q[i])]
            flatten == CHOOSE f : Flat(f)
<1>1. FlattenSeq(q) = flatten[4]
  BY DEF FlattenSeq, Glue
<1>2. \E f : Flat(f)
  <2>. DEFINE f == [i \in 1..4 |-> IF i = 1 THEN q[1]
                                  ELSE IF i = 2 THEN Glue(q[1], q[2])
                                  ELSE IF i = 3 THEN Glue(Glue(q[1], q[2]), q[3])
                                  ELSE Glue(Glue(Glue(q[1], q[2]), q[3]), q[4])]
  <2>1. /\ f[1] = q[1] /\ f[2] = Glue(f[1], q[2]) /\ f[3] = Glue(f[2], q[3])
        /\ f[4] = Glue(f[3], q[4])
    OBVIOUS
  <2>2. \A i \in 1..4 : f[i] = IF i = 1 THEN q[i] ELSE Glue(f[i - 1], q[i])
    <3>1. SUFFICES ASSUME NEW i \in 1..4
                   PROVE  f[i] = IF i = 1 THEN q[i] ELSE Glue(f[i - 1], q[i])
      OBVIOUS
    <3>2. i = 1 \/ i = 2 \/ i = 3 \/ i = 4
      OBVIOUS
    <3>. HIDE DEF f
    <3>. QED
      BY <2>1, <3>2
  <2>3. f = [i \in 1..4 |-> f[i]]
    OBVIOUS
  <2>. HIDE DEF f
  <2>. QED
    BY <2>2, <2>3
<1>3. Flat(flatten)
  BY <1>2
<1>. HIDE DEF flatten
<1>4. \A i \in 1..4 : flatten[i] = IF i = 1 THEN q[i] ELSE Glue(flatten[i - 1], q[i])
  BY <1>3
<1>5. /\ flatten[1] = q[1] /\ flatten[2] = Glue(flatten[1], q[2])
      /\ flatten[3] = Glue(flatten[2], q[3]) /\ flatten[4] = Glue(flatten[3], q[4])
  BY <1>4
<1>. QED
  BY <1>1, <1>5

\* q is four regions with the counts c.
FourRegions(E, q, c) ==
    /\ DOMAIN q = 1..4 /\ Len(q) = 4 /\ c \in [1..4 -> Nat]
    /\ \A i \in 1..4 : q[i] \in Seq(E) /\ Len(q[i]) = c[i]

\* F holds each of them from its offset on.
HoldsInOrder(E, F, q, c) ==
    /\ F \in Seq(E) /\ Len(F) = Before(c, 5)
    /\ \A i \in 1..4 :
         /\ Before(c, i) \in Nat /\ c[i] \in Nat
         /\ Before(c, i) + c[i] <= Before(c, 5)
         /\ \A x \in 1..c[i] : F[Before(c, i) + x] = q[i][x]

\* The entries of a region are found from its offset on.
LEMMA RegionsInOrder ==
    ASSUME NEW E, NEW q, NEW c, FourRegions(E, q, c)
    PROVE  HoldsInOrder(E, FlattenSeq(q), q, c)
<1>. DEFINE q1 == q[1]
            q2 == q[2]
            q3 == q[3]
            q4 == q[4]
            r2 == Glue(q1, q2)
            r3 == Glue(r2, q3)
            r4 == Glue(r3, q4)
            F == FlattenSeq(q)
<1>1. F = r4
  BY FlattenFour DEF FourRegions
<1>2. /\ q1 \in Seq(E) /\ q2 \in Seq(E) /\ q3 \in Seq(E) /\ q4 \in Seq(E)
      /\ Len(q1) = c[1] /\ Len(q2) = c[2] /\ Len(q3) = c[3] /\ Len(q4) = c[4]
  BY DEF FourRegions
<1>3. c[1] \in Nat /\ c[2] \in Nat /\ c[3] \in Nat /\ c[4] \in Nat
  BY DEF FourRegions
<1>. HIDE DEF q1, q2, q3, q4, F
<1>. DEFINE n2 == c[1] + c[2]
            n3 == n2 + c[3]
            n4 == n3 + c[4]
<1>4. n2 \in Nat /\ n3 \in Nat /\ c[1] <= n2 /\ n2 <= n3 /\ n3 <= n4
  BY <1>3
<1>5. /\ r2 \in Seq(E) /\ Len(r2) = n2
      /\ \A x \in 1..c[1] : r2[x] = q1[x]
      /\ \A x \in 1..c[2] : r2[c[1] + x] = q2[x]
  <2>1. q1 \in Seq(E) /\ q2 \in Seq(E) /\ Len(q1) = c[1] /\ Len(q2) = c[2]
    BY <1>2
  <2>2. Joins(E, q1, q2, r2)
    BY <2>1, GlueParts
  <2>. HIDE DEF r2
  <2>. QED
    BY <2>1, <2>2 DEF Joins
<1>. HIDE DEF n2, r2
<1>6. /\ r3 \in Seq(E) /\ Len(r3) = n3
      /\ \A x \in 1..n2 : r3[x] = r2[x]
      /\ \A x \in 1..c[3] : r3[n2 + x] = q3[x]
  <2>1. r2 \in Seq(E) /\ q3 \in Seq(E) /\ Len(r2) = n2 /\ Len(q3) = c[3]
    BY <1>2, <1>5
  <2>2. Joins(E, r2, q3, r3)
    BY <2>1, GlueParts
  <2>. HIDE DEF r3
  <2>. QED
    BY <2>1, <2>2 DEF Joins
<1>. HIDE DEF n3, r3
<1>7. /\ r4 \in Seq(E) /\ Len(r4) = n4
      /\ \A x \in 1..n3 : r4[x] = r3[x]
      /\ \A x \in 1..c[4] : r4[n3 + x] = q4[x]
  <2>1. r3 \in Seq(E) /\ q4 \in Seq(E) /\ Len(r3) = n3 /\ Len(q4) = c[4]
    BY <1>2, <1>6
  <2>2. Joins(E, r3, q4, r4)
    BY <2>1, GlueParts
  <2>. HIDE DEF r4
  <2>. QED
    BY <2>1, <2>2 DEF Joins
<1>. HIDE DEF n4, r4
<1>8. /\ Before(c, 1) = 0 /\ Before(c, 2) = c[1] /\ Before(c, 3) = n2
      /\ Before(c, 4) = n3 /\ Before(c, 5) = n4
  BY BeforeUnrolled DEF FourRegions, n2, n3, n4
<1>9. /\ \A x \in 1..c[1] : F[Before(c, 1) + x] = q1[x]
      /\ \A x \in 1..c[2] : F[Before(c, 2) + x] = q2[x]
      /\ \A x \in 1..c[3] : F[Before(c, 3) + x] = q3[x]
      /\ \A x \in 1..c[4] : F[Before(c, 4) + x] = q4[x]
  <2>1. \A x \in 1..n3 : F[x] = r3[x]
    BY <1>1, <1>7
  <2>2. \A x \in 1..n2 : F[x] = r2[x]
    <3>1. \A x \in 1..n2 : x \in 1..n3
      BY <1>3, <1>4
    <3>. QED
      BY <2>1, <3>1, <1>6
  <2>3. ASSUME NEW x \in 1..c[1] PROVE F[Before(c, 1) + x] = q1[x]
    <3>1. x \in 1..n2 /\ 0 + x = x
      BY <1>3, <1>4
    <3>. QED
      BY <2>2, <3>1, <1>5, <1>8
  <2>4. ASSUME NEW x \in 1..c[2] PROVE F[Before(c, 2) + x] = q2[x]
    <3>1. c[1] + x \in 1..n2
      BY <1>3 DEF n2
    <3>. QED
      BY <2>2, <3>1, <1>5, <1>8
  <2>5. ASSUME NEW x \in 1..c[3] PROVE F[Before(c, 3) + x] = q3[x]
    <3>1. n2 + x \in 1..n3
      BY <1>3, <1>4 DEF n3
    <3>. QED
      BY <2>1, <3>1, <1>6, <1>8
  <2>6. ASSUME NEW x \in 1..c[4] PROVE F[Before(c, 4) + x] = q4[x]
    BY <1>1, <1>7, <1>8
  <2>. QED
    BY <2>3, <2>4, <2>5, <2>6
<1>10. \A i \in 1..4 :
        /\ Before(c, i) \in Nat /\ c[i] \in Nat
        /\ Before(c, i) + c[i] <= Before(c, 5)
        /\ \A x \in 1..c[i] : F[Before(c, i) + x] = q[i][x]
  <2>1. SUFFICES ASSUME NEW i \in 1..4
                 PROVE  /\ Before(c, i) \in Nat /\ c[i] \in Nat
                        /\ Before(c, i) + c[i] <= Before(c, 5)
                        /\ \A x \in 1..c[i] : F[Before(c, i) + x] = q[i][x]
    OBVIOUS
  <2>2. i = 1 \/ i = 2 \/ i = 3 \/ i = 4
    OBVIOUS
  <2>. QED
    BY <2>2, <1>3, <1>8, <1>9 DEF q1, q2, q3, q4, n2, n3, n4
<1>. QED
  BY <1>1, <1>7, <1>8, <1>10 DEF HoldsInOrder, F

\* The header, the hashes, the balances and the filters of a file.
FourParts(E, c, n, H, B, C) ==
    /\ c \in E /\ n \in Nat
    /\ H \in Seq(E) /\ Len(H) = n
    /\ B \in Seq(E) /\ Len(B) = n
    /\ C \in Seq(E) /\ Len(C) = 4

\* F holds them one after the other.
HoldsParts(F, c, n, H, B, C) ==
    /\ Len(F) = 1 + 2 * n + 4 /\ F[1] = c
    /\ \A x \in 1..n : F[1 + x] = H[x] /\ F[1 + n + x] = B[x]
    /\ \A x \in 1..4 : F[1 + 2 * n + x] = C[x]

\* Where the entries of a file of four parts are.
LEMMA FileLayout ==
    ASSUME NEW E, NEW c, NEW n, NEW H, NEW B, NEW C, FourParts(E, c, n, H, B, C)
    PROVE  HoldsParts(Glue(Glue(Glue(<<c>>, H), B), C), c, n, H, B, C)
<1>. DEFINE f0 == <<c>>
            f1 == Glue(f0, H)
            f2 == Glue(f1, B)
            F == Glue(f2, C)
            n1 == 1 + n
            n2 == n1 + n
<1>0. /\ c \in E /\ n \in Nat /\ H \in Seq(E) /\ Len(H) = n
      /\ B \in Seq(E) /\ Len(B) = n /\ C \in Seq(E) /\ Len(C) = 4
  BY DEF FourParts
<1>1. f0 \in Seq(E) /\ Len(f0) = 1 /\ f0[1] = c
  BY <1>0
<1>. HIDE DEF f0
<1>2. /\ f1 \in Seq(E) /\ Len(f1) = n1
      /\ \A x \in 1..1 : f1[x] = f0[x]
      /\ \A x \in 1..n : f1[1 + x] = H[x]
  <2>1. Joins(E, f0, H, f1)
    BY <1>0, <1>1, GlueParts
  <2>. HIDE DEF f1
  <2>. QED
    BY <2>1, <1>0, <1>1 DEF Joins
<1>3. n1 \in Nat /\ n2 \in Nat /\ 1 <= n1 /\ n1 <= n2 /\ n2 = 1 + 2 * n
  BY <1>0
<1>. HIDE DEF f1, n1
<1>4. /\ f2 \in Seq(E) /\ Len(f2) = n2
      /\ \A x \in 1..n1 : f2[x] = f1[x]
      /\ \A x \in 1..n : f2[n1 + x] = B[x]
  <2>1. Joins(E, f1, B, f2)
    BY <1>0, <1>2, GlueParts
  <2>. HIDE DEF f2
  <2>. QED
    BY <2>1, <1>0, <1>2 DEF Joins
<1>. HIDE DEF f2, n2
<1>5. /\ F \in Seq(E) /\ Len(F) = n2 + 4
      /\ \A x \in 1..n2 : F[x] = f2[x]
      /\ \A x \in 1..4 : F[n2 + x] = C[x]
  <2>1. Joins(E, f2, C, F)
    BY <1>0, <1>4, GlueParts
  <2>. HIDE DEF F
  <2>. QED
    BY <2>1, <1>0, <1>4 DEF Joins
<1>. HIDE DEF F
<1>6. \A x \in 1..n1 : x \in 1..n2 /\ F[x] = f1[x]
  BY <1>3, <1>4, <1>5
<1>7. F[1] = c
  BY <1>1, <1>2, <1>3, <1>6
<1>8. ASSUME NEW x \in 1..n PROVE F[1 + x] = H[x] /\ F[1 + n + x] = B[x]
  <2>1. 1 + x \in 1..n1 /\ n1 + x \in 1..n2
    BY <1>0 DEF n1, n2
  <2>2. F[1 + x] = H[x]
    BY <2>1, <1>2, <1>6
  <2>3. F[n1 + x] = B[x]
    BY <2>1, <1>4, <1>5
  <2>. QED
    BY <2>2, <2>3 DEF n1
<1>9. F = Glue(Glue(Glue(<<c>>, H), B), C)
  BY DEF F, f2, f1, f0
<1>. QED
  BY <1>3, <1>5, <1>7, <1>8, <1>9 DEF HoldsParts

\* The counts of a bucket list.
CountsOf(s) == [i \in 1..4 |-> Len(s[Regions[i]].hashes)]

\* A file whose i-th region of n entries, beginning after the first "at" of
\* total, is the bucket.
HoldsBucket(file, total, at, n, i, bucket) ==
    /\ at \in Nat /\ n \in Nat /\ at + n <= total
    /\ \A x \in 1..n : /\ file[1 + (at + x)] = bucket.hashes[x]
                       /\ file[1 + total + (at + x)] = bucket.balances[x]
    /\ file[1 + 2 * total + i] = bucket.bloom

\* The file WriteCache stores: where each entry of each bucket is.
LEMMA EncodedFile ==
    ASSUME \A k \in Kinds : Aligned(k)
    PROVE  LET file == Encode(sets)
               c == CountsOf(sets)
               total == Before(c, 5)
           IN  /\ c \in [1..4 -> Nat] /\ total \in Nat
               /\ Len(file) = 1 + 2 * total + 4 /\ Counts(file) = c
               /\ \A i \in 1..4 :
                    HoldsBucket(file, total, Before(c, i), c[i], i, sets[Regions[i]])
<1>. DEFINE file == Encode(sets)
            c == CountsOf(sets)
            total == Before(c, 5)
            hs == [i \in 1..4 |-> sets[Regions[i]]["hashes"]]
            bs == [i \in 1..4 |-> sets[Regions[i]]["balances"]]
            blooms == [i \in 1..4 |-> sets[Regions[i]].bloom]
            E == {c} \cup Nat \cup SUBSET Nat
            H == FlattenSeq(hs)
            B == FlattenSeq(bs)
<1>1. file = Glue(Glue(Glue(<<c>>, H), B), blooms)
  BY DEF Encode, Glue, CountsOf
<1>2. \A i \in 1..4 : Regions[i] \in Kinds
  <2>1. /\ Regions[1] = "legacy" /\ Regions[2] = "p2sh" /\ Regions[3] = "segwit"
        /\ Regions[4] = "taproot"
    BY DEF Regions
  <2>2. \A i \in 1..4 : i = 1 \/ i = 2 \/ i = 3 \/ i = 4
    OBVIOUS
  <2>. QED
    BY <2>1, <2>2 DEF Kinds
<1>3. \A i \in 1..4 :
        /\ sets[Regions[i]].hashes \in Seq(Nat) /\ sets[Regions[i]].balances \in Seq(Nat)
        /\ Len(sets[Regions[i]].balances) = Len(sets[Regions[i]].hashes)
        /\ Len(sets[Regions[i]].hashes) \in Nat
        /\ sets[Regions[i]].bloom \in SUBSET Nat
  BY <1>2, LenProperties DEF Aligned
<1>4. c \in [1..4 -> Nat] /\ \A i \in 1..4 : c[i] = Len(sets[Regions[i]].hashes)
  BY <1>3 DEF CountsOf
<1>. HIDE DEF file, c
<1>5. /\ DOMAIN hs = 1..4 /\ Len(hs) = 4 /\ DOMAIN bs = 1..4 /\ Len(bs) = 4
      /\ \A i \in 1..4 : hs[i] = sets[Regions[i]].hashes /\ bs[i] = sets[Regions[i]].balances
  OBVIOUS
<1>. HIDE DEF hs, bs
<1>6. \A i \in 1..4 : /\ hs[i] \in Seq(E) /\ Len(hs[i]) = c[i]
                       /\ bs[i] \in Seq(E) /\ Len(bs[i]) = c[i]
  <2>1. Nat \subseteq E
    OBVIOUS
  <2>. HIDE DEF E
  <2>. QED
    BY <2>1, <1>3, <1>4, <1>5, SeqMonotonic
<1>7. blooms \in Seq(E) /\ Len(blooms) = 4 /\ c \in E
      /\ \A i \in 1..4 : blooms[i] = sets[Regions[i]].bloom
  <2>1. \A i \in 1..4 : sets[Regions[i]].bloom \in E
    BY <1>3
  <2>2. c \in E
    OBVIOUS
  <2>. HIDE DEF E
  <2>. QED
    BY <2>1, <2>2
<1>. HIDE DEF E, blooms
<1>8. /\ H \in Seq(E) /\ Len(H) = total
      /\ \A i \in 1..4 : /\ Before(c, i) \in Nat /\ c[i] \in Nat
                          /\ Before(c, i) + c[i] <= total
                          /\ \A x \in 1..c[i] : H[Before(c, i) + x] = hs[i][x]
  <2>1. FourRegions(E, hs, c)
    BY <1>4, <1>5, <1>6 DEF FourRegions
  <2>2. HoldsInOrder(E, H, hs, c)
    BY <2>1, RegionsInOrder
  <2>. QED
    BY <2>2 DEF HoldsInOrder
<1>9. /\ B \in Seq(E) /\ Len(B) = total
      /\ \A i \in 1..4 : \A x \in 1..c[i] : B[Before(c, i) + x] = bs[i][x]
  <2>1. FourRegions(E, bs, c)
    BY <1>4, <1>5, <1>6 DEF FourRegions
  <2>2. HoldsInOrder(E, B, bs, c)
    BY <2>1, RegionsInOrder
  <2>. QED
    BY <2>2 DEF HoldsInOrder
<1>10. total \in Nat
  BY <1>8, LenProperties
<1>. HIDE DEF H, B, total
<1>11. /\ Len(file) = 1 + 2 * total + 4 /\ file[1] = c
       /\ \A x \in 1..total : file[1 + x] = H[x] /\ file[1 + total + x] = B[x]
       /\ \A x \in 1..4 : file[1 + 2 * total + x] = blooms[x]
  <2>1. FourParts(E, c, total, H, B, blooms)
    BY <1>7, <1>8, <1>9, <1>10 DEF FourParts
  <2>2. HoldsParts(file, c, total, H, B, blooms)
    BY <2>1, <1>1, FileLayout
  <2>. QED
    BY <2>2 DEF HoldsParts
<1>12. ASSUME NEW i \in 1..4, NEW x \in 1..c[i]
       PROVE  /\ file[1 + (Before(c, i) + x)] = sets[Regions[i]].hashes[x]
              /\ file[1 + total + (Before(c, i) + x)] = sets[Regions[i]].balances[x]
  <2>. DEFINE y == Before(c, i) + x
  <2>1. Before(c, i) \in Nat /\ c[i] \in Nat /\ Before(c, i) + c[i] <= total
    BY <1>8
  <2>2. y \in 1..total
    BY <2>1, <1>10
  <2>3. H[y] = hs[i][x] /\ B[y] = bs[i][x]
    BY <1>8, <1>9
  <2>. HIDE DEF y
  <2>4. file[1 + y] = H[y] /\ file[1 + total + y] = B[y]
    BY <2>2, <1>11
  <2>. QED
    BY <2>3, <2>4, <1>5 DEF y
<1>13. ASSUME NEW i \in 1..4
       PROVE  HoldsBucket(file, total, Before(c, i), c[i], i, sets[Regions[i]])
  BY <1>7, <1>8, <1>11, <1>12 DEF HoldsBucket
<1>. QED
  BY <1>4, <1>10, <1>11, <1>13 DEF file, c, total, Counts

\* A slice of a file that holds the entries of t is t.
LEMMA SliceHolds ==
    ASSUME NEW F, NEW T, NEW t \in Seq(T), NEW m \in Nat, NEW n \in Nat, Len(t) = n,
           \A x \in 1..n : F[m + x] = t[x]
    PROVE  SubSeq(F, m + 1, m + n) = t
<1>. DEFINE u == SubSeq(F, m + 1, m + n)
<1>1. \A i \in (m + 1)..(m + n) : F[i] \in T
  <2>1. SUFFICES ASSUME NEW i \in (m + 1)..(m + n) PROVE F[i] \in T
    OBVIOUS
  <2>2. i - m \in 1..n /\ m + (i - m) = i
    OBVIOUS
  <2>3. F[i] = t[i - m]
    BY <2>2
  <2>. QED
    BY <2>2, <2>3, ElementOfSeq
<1>2. /\ u \in Seq(T)
      /\ Len(u) = IF m + 1 <= m + n THEN (m + n) - (m + 1) + 1 ELSE 0
      /\ \A i \in 1..((m + n) - (m + 1) + 1) : u[i] = F[(m + 1) + i - 1]
  <2>1. m + 1 \in Int /\ m + n \in Int
    OBVIOUS
  <2>. QED
    BY <2>1, <1>1, SubSeqProperties
<1>. HIDE DEF u
<1>3. Len(u) = n
  BY <1>2
<1>4. \A i \in 1..n : u[i] = t[i]
  <2>1. SUFFICES ASSUME NEW i \in 1..n PROVE u[i] = t[i]
    OBVIOUS
  <2>2. i \in 1..((m + n) - (m + 1) + 1) /\ (m + 1) + i - 1 = m + i
    OBVIOUS
  <2>. QED
    BY <2>2, <1>2
<1>. QED
  BY <1>2, <1>3, <1>4, SeqEqual DEF u

\* The reader takes the regions in the writer's order.
LEMMA ReadersRegion ==
    ASSUME NEW k \in Kinds
    PROVE  LET at == CHOOSE i \in 1..4 : ReadOrder[i] = k
           IN  at \in 1..4 /\ Regions[at] = k
<1>1. /\ Regions[1] = "legacy" /\ Regions[2] = "p2sh" /\ Regions[3] = "segwit"
      /\ Regions[4] = "taproot"
  BY DEF Regions
<1>2. \E i \in 1..4 : Regions[i] = k
  BY <1>1 DEF Kinds
<1>. QED
  BY <1>2 DEF ReadOrder

\* What WriteCache stores DecodeCache accepts and gives back: the slices of the reader are
\* the regions of the writer.
THEOREM CacheIsReadBack == IndexSpec => []CacheRoundTrip
<1>1. IndexInv => CacheRoundTrip
  <2>1. SUFFICES ASSUME IndexInv, phase = "ready"
                 PROVE  ~TooShort(Encode(sets)) /\ Decode(Encode(sets)) = sets
    BY DEF CacheRoundTrip
  <2>. DEFINE file == Encode(sets)
              c == CountsOf(sets)
              total == Before(c, 5)
              At(k) == CHOOSE i \in 1..4 : ReadOrder[i] = k
              Slice(base, i) == SubSeq(file, base + Before(c, i) + 1,
                                       base + Before(c, i) + c[i])
              Read(k) == [hashes |-> Slice(1, At(k)), balances |-> Slice(1 + total, At(k)),
                          bloom |-> file[1 + 2 * total + At(k)]]
  <2>2. sets = [k \in Kinds |-> sets[k]] /\ \A k \in Kinds : Aligned(k)
    BY <2>1, BucketsAreAligned
  <2>3. Counts(file) = c /\ total \in Nat
    BY <2>2, EncodedFile
  <2>4. Decode(file) = [k \in Kinds |-> Read(k)]
    BY <2>3 DEF Decode
  <2>5. ASSUME NEW k \in Kinds PROVE Read(k) = sets[k]
    <3>. DEFINE i == At(k)
                at == Before(c, i)
                n == c[i]
                bucket == sets[k]
    <3>1. i \in 1..4 /\ Regions[i] = k
      BY ReadersRegion
    <3>2. HoldsBucket(file, total, at, n, i, bucket)
      <4>. HIDE DEF i
      <4>1. \A j \in 1..4 : HoldsBucket(Encode(sets), Before(CountsOf(sets), 5),
                                         Before(CountsOf(sets), j), CountsOf(sets)[j],
                                         j, sets[Regions[j]])
        BY <2>2, EncodedFile
      <4>2. HoldsBucket(file, total, at, n, i, sets[Regions[i]])
        BY <3>1, <4>1
      <4>. QED
        BY <3>1, <4>2
    <3>3. n = Len(bucket.hashes)
      BY <3>1 DEF CountsOf
    <3>4. /\ bucket.hashes \in Seq(Nat) /\ bucket.balances \in Seq(Nat)
          /\ Len(bucket.balances) = n
          /\ bucket = [hashes |-> bucket.hashes, balances |-> bucket.balances,
                       bloom |-> bucket.bloom]
      BY <2>2, <3>3 DEF Aligned
    <3>. HIDE DEF i, n, at, file, total
    <3>5. Slice(1, i) = bucket.hashes
      <4>. DEFINE m == 1 + at
      <4>1. /\ m \in Nat /\ n \in Nat
            /\ \A x \in 1..n : file[m + x] = bucket.hashes[x]
        BY <3>2 DEF HoldsBucket
      <4>2. bucket.hashes \in Seq(Nat) /\ Len(bucket.hashes) = n
        BY <3>3, <3>4
      <4>. HIDE DEF m
      <4>3. SubSeq(file, m + 1, m + n) = bucket.hashes
        BY <4>1, <4>2, SliceHolds
      <4>. QED
        BY <4>3 DEF at, n, m
    <3>6. Slice(1 + total, i) = bucket.balances
      <4>1. /\ 1 + total + at \in Nat /\ n \in Nat
            /\ \A x \in 1..n : file[(1 + total + at) + x] = bucket.balances[x]
        BY <2>3, <3>2 DEF HoldsBucket
      <4>2. SubSeq(file, (1 + total + at) + 1, (1 + total + at) + n) = bucket.balances
        BY <4>1, <3>4, SliceHolds
      <4>. QED
        BY <4>2 DEF at, n
    <3>7. Read(k) = [hashes |-> bucket.hashes, balances |-> bucket.balances,
                     bloom |-> bucket.bloom]
      BY <3>2, <3>5, <3>6 DEF i, HoldsBucket
    <3>. QED
      BY <3>4, <3>7
  <2>6. ~TooShort(file)
    <3>1. Before(Counts(file), 5) = total
      BY <2>3
    <3>2. Len(file) = 1 + 2 * total + 4
      BY <2>2, EncodedFile
    <3>. HIDE DEF file, total
    <3>. QED
      BY <2>3, <3>1, <3>2 DEF TooShort
  <2>. HIDE DEF Read
  <2>. QED
    BY <2>2, <2>4, <2>5, <2>6
<1>. QED
  BY <1>1, IndexIsBuiltFromLines, PTL

\* A cache file that was cut off is refused: its header still counts all the
\* entries, and the file is shorter than they take (DecodeCache).
THEOREM TruncationAlwaysNoticed == IndexSpec => []TruncationIsNoticed
<1>1. IndexInv => TruncationIsNoticed
  <2>1. SUFFICES ASSUME IndexInv, phase = "ready",
                        NEW n \in 0..(Len(Encode(sets)) - 1)
                 PROVE  TooShort(SubSeq(Encode(sets), 1, n))
    BY DEF TruncationIsNoticed
  <2>. DEFINE file == Encode(sets)
              total == Before(CountsOf(sets), 5)
              cut == SubSeq(file, 1, n)
  <2>2. /\ total \in Nat /\ Len(file) = 1 + 2 * total + 4
        /\ Counts(file) = CountsOf(sets)
    BY <2>1, BucketsAreAligned, EncodedFile
  <2>. HIDE DEF file
  <2>3. n \in Nat /\ n < 1 + 2 * total + 4
    BY <2>2 DEF file
  <2>4. Len(cut) = n /\ (n # 0 => cut[1] = file[1])
    <3>1. \A i \in 1..n : file[i] \in {file[j] : j \in 1..n}
      OBVIOUS
    <3>2. /\ Len(cut) = IF 1 <= n THEN n - 1 + 1 ELSE 0
          /\ \A i \in 1..(n - 1 + 1) : cut[i] = file[1 + i - 1]
      BY <3>1, <2>3, SubSeqProperties
    <3>. QED
      BY <3>2, <2>3
  <2>. HIDE DEF cut
  <2>5. n # 0 => Counts(cut) = CountsOf(sets)
    BY <2>2, <2>4 DEF Counts
  <2>6. TooShort(cut)
    BY <2>3, <2>4, <2>5 DEF TooShort
  <2>. QED
    BY <2>6 DEF cut, file
<1>. QED
  BY <1>1, IndexIsBuiltFromLines, PTL
=============================================================================
