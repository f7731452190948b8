--------------------------- MODULE GeometryProofs ---------------------------
(***************************************************************************)
(* What the layout solver promises for every volume, every list of source   *)
(* ranges and every list of requests: where it puts something, nothing is.  *)
(* First the helpers that sort, select and add, then the free space, then   *)
(* the allocations that take from it one after another.                     *)
(***************************************************************************)
EXTENDS Geometry, TLAPS, FiniteSetTheorems, SequenceTheorems, WellFoundedInduction

(* A set of naturals that is not empty has a smallest member.               *)
LEMMA Smallest ==
    ASSUME NEW T \in SUBSET Nat, T # {}
    PROVE  \E x \in T : \A y \in T : x <= y
<1>1. PICK x \in T : \A y \in T : <<y, x>> \notin OpToRel(<, Nat)
    BY NatLessThanWellFounded, WFMin
<1>2. ASSUME NEW y \in T, y < x
      PROVE  <<y, x>> \in OpToRel(<, Nat)
    BY <1>2, Zenon DEF OpToRel
<1>3. \A y \in T : ~ (y < x)
    BY <1>1, <1>2
<1>4. QED
    BY <1>3

(* Induction: a set of naturals with 0 and every successor is all of them.  *)
LEMMA Induction ==
    ASSUME NEW T \in SUBSET Nat, 0 \in T, \A n \in T : n + 1 \in T
    PROVE  T = Nat
<1>1. SUFFICES ASSUME Nat \ T # {} PROVE FALSE
    OBVIOUS
<1>2. PICK x \in Nat \ T : \A y \in Nat \ T : x <= y
    BY <1>1, Smallest
<1>3. x - 1 \in T
    BY <1>2
<1>4. QED
    BY <1>2, <1>3

(* Induction up to a bound.                                                 *)
LEMMA BoundedInduction ==
    ASSUME NEW n \in Nat, NEW T, 0 \in T,
           \A k \in 0 .. n : k < n /\ k \in T => k + 1 \in T
    PROVE  \A k \in 0 .. n : k \in T
<1> DEFINE U == {k \in Nat : k <= n => k \in T}
<1>1. 0 \in U /\ \A k \in U : k + 1 \in U
    OBVIOUS
<1>2. U = Nat
    BY <1>1, Induction
<1>3. QED
    BY <1>2

(* Min and Max of a set of naturals, of which the second needs a bound.     *)
LEMMA MinIsSmallest ==
    ASSUME NEW T \in SUBSET Nat, T # {}
    PROVE  Min(T) \in T /\ \A y \in T : Min(T) <= y
BY Smallest DEF Min

LEMMA MaxIsLargest ==
    ASSUME NEW T \in SUBSET Nat, T # {}, NEW n \in Nat, \A y \in T : y <= n
    PROVE  Max(T) \in T /\ \A y \in T : y <= Max(T)
<1> DEFINE U == {n - y : y \in T}
<1>0. \A y \in T : n - y \in Nat
    OBVIOUS
<1>1. U \in SUBSET Nat /\ U # {}
    BY <1>0
<1>2. PICK u \in U : \A y \in U : u <= y
    BY <1>1, Smallest
<1>3. PICK x \in T : u = n - x
    BY <1>2
<1>4. ASSUME NEW y \in T PROVE y <= x
  <2>1. u <= n - y
    BY <1>2
  <2> QED BY <2>1, <1>3
<1>5. QED
    BY <1>3, <1>4 DEF Max

(* The larger and the smaller of two integers.                              *)
LEMMA MaxOfTwo ==
    ASSUME NEW a \in Int, NEW b \in Int
    PROVE  Max({a, b}) = IF a >= b THEN a ELSE b
<1> DEFINE m == IF a >= b THEN a ELSE b
<1>1. m \in {a, b} /\ \A y \in {a, b} : m >= y
    OBVIOUS
<1>2. \A x \in {a, b} : (\A y \in {a, b} : x >= y) => x = m
    OBVIOUS
<1>3. QED
    BY <1>1, <1>2 DEF Max

LEMMA MinOfTwo ==
    ASSUME NEW a \in Int, NEW b \in Int
    PROVE  Min({a, b}) = IF a <= b THEN a ELSE b
<1> DEFINE m == IF a <= b THEN a ELSE b
<1>1. m \in {a, b} /\ \A y \in {a, b} : m <= y
    OBVIOUS
<1>2. \A x \in {a, b} : (\A y \in {a, b} : x <= y) => x = m
    OBVIOUS
<1>3. QED
    BY <1>1, <1>2 DEF Min

-----------------------------------------------------------------------------
(* Positions in a total order have different places, and every place up to  *)
(* their number is taken.                                                   *)
TotalOrder(S, order) ==
    /\ IsFiniteSet(S)
    /\ \A i, j \in S : <<i, j>> \in order \/ <<j, i>> \in order
    /\ \A i, j \in S : <<i, j>> \in order /\ <<j, i>> \in order => i = j
    /\ \A i, j, k \in S : <<i, j>> \in order /\ <<j, k>> \in order => <<i, k>> \in order

NotAfterIn(S, order, i) == {j \in S : <<j, i>> \in order}

LEMMA Places ==
    ASSUME NEW S, NEW order, TotalOrder(S, order)
    PROVE  /\ Cardinality(S) \in Nat
           /\ \A i \in S : Cardinality(NotAfterIn(S, order, i)) \in 1 .. Cardinality(S)
           /\ \A i, j \in S : i # j /\ <<i, j>> \in order =>
                 Cardinality(NotAfterIn(S, order, i)) < Cardinality(NotAfterIn(S, order, j))
<1> DEFINE D(i) == NotAfterIn(S, order, i)
<1>1. IsFiniteSet(S) /\ Cardinality(S) \in Nat
    BY FS_CardinalityType DEF TotalOrder
<1>2. ASSUME NEW i \in S PROVE IsFiniteSet(D(i)) /\ Cardinality(D(i)) \in 1 .. Cardinality(S)
  <2>1. D(i) \in SUBSET S /\ i \in D(i)
    BY DEF NotAfterIn, TotalOrder
  <2>2. IsFiniteSet(D(i)) /\ Cardinality(D(i)) <= Cardinality(S)
    BY <1>1, <2>1, FS_Subset
  <2>3. Cardinality(D(i)) \in Nat /\ Cardinality(D(i)) # 0
    BY <2>1, <2>2, FS_CardinalityType, FS_EmptySet
  <2> QED BY <1>1, <2>2, <2>3
<1>3. ASSUME NEW i \in S, NEW j \in S, i # j, <<i, j>> \in order
      PROVE  Cardinality(D(i)) < Cardinality(D(j))
  <2>1. D(i) \in SUBSET D(j)
    BY <1>3 DEF NotAfterIn, TotalOrder
  <2>2. j \in D(j) /\ j \notin D(i)
    BY <1>3 DEF NotAfterIn, TotalOrder
  <2>3. /\ Cardinality(D(i)) <= Cardinality(D(j))
        /\ Cardinality(D(j)) = Cardinality(D(i)) => D(j) = D(i)
    BY <1>2, <2>1, FS_Subset
  <2> QED BY <1>1, <1>2, <2>2, <2>3
<1>4. QED
    BY <1>1, <1>2, <1>3

LEMMA RankedPositions ==
    ASSUME NEW S, NEW order, TotalOrder(S, order)
    PROVE  LET at == ByRank(S, order)
               n == Cardinality(S)
           IN  /\ n \in Nat
               /\ DOMAIN at = 1 .. n /\ at \in [1 .. n -> S]
               /\ \A i \in S : \E k \in 1 .. n : at[k] = i
               /\ \A k, l \in 1 .. n : k # l => at[k] # at[l]
               /\ \A k, l \in 1 .. n : k < l => <<at[k], at[l]>> \in order
<1> DEFINE n == Cardinality(S)
           D(i) == NotAfterIn(S, order, i)
           r == [i \in S |-> Cardinality(D(i))]
           at == ByRank(S, order)
<1>1. n \in Nat /\ \A i \in S : r[i] \in 1 .. n
    BY Places
<1>2. \A i, j \in S : i # j /\ <<i, j>> \in order => r[i] < r[j]
    BY Places
<1>3. \A i, j \in S : <<i, j>> \in order \/ <<j, i>> \in order
    BY DEF TotalOrder
<1>a. r \in [S -> 1 .. n]
    BY <1>1
<1> HIDE DEF r
<1>4. ASSUME NEW i \in S, NEW j \in S, r[i] = r[j] PROVE i = j
  <2>1. r[i] \in Int /\ ~ (r[i] < r[j]) /\ ~ (r[j] < r[i])
    BY <1>1, <1>4
  <2> QED BY <1>2, <1>3, <2>1
<1>5. r \in Injection(S, 1 .. n)
    BY <1>a, <1>4 DEF Injection, IsInjective
<1>6. IsFiniteSet(1 .. n) /\ Cardinality(1 .. n) = n
    BY <1>1, FS_Interval
<1>7. r \in Surjection(S, 1 .. n)
    BY <1>5, <1>6, FS_Injection
<1>8. \A k \in 1 .. n : \E i \in S : r[i] = k
    BY <1>7 DEF Surjection
<1>9. DOMAIN at = 1 .. n /\ \A k \in 1 .. n : at[k] = CHOOSE i \in S : r[i] = k
    BY DEF ByRank, r, NotAfterIn
<1> DEFINE c(k) == CHOOSE i \in S : Cardinality({j \in S : <<j, i>> \in order}) = k
<1>b. at = [k \in 1 .. n |-> c(k)]
    BY Zenon DEF ByRank
<1> HIDE DEF at, n, c
<1>10. \A k \in 1 .. n : at[k] \in S /\ r[at[k]] = k
    BY <1>8, <1>9
<1>c. at \in [1 .. n -> S]
    BY <1>b, <1>10
<1>11. ASSUME NEW i \in S PROVE \E k \in 1 .. n : at[k] = i
  <2>1. r[i] \in 1 .. n
    BY <1>1
  <2>2. at[r[i]] \in S /\ r[at[r[i]]] = r[i]
    BY <1>10, <2>1
  <2>3. at[r[i]] = i
    BY <1>4, <2>2
  <2> QED BY <2>1, <2>3
<1>12. ASSUME NEW k \in 1 .. n, NEW l \in 1 .. n, k < l
       PROVE  <<at[k], at[l]>> \in order
  <2>1. r[at[k]] < r[at[l]]
    BY <1>10, <1>12
  <2>2. at[k] \in S /\ at[l] \in S
    BY <1>10
  <2>3. ASSUME <<at[l], at[k]>> \in order, at[l] # at[k] PROVE FALSE
    <3>1. r[at[l]] < r[at[k]]
        BY <1>2, <2>2, <2>3
    <3> QED BY <1>10, <1>12, <3>1, <1>1
  <2>4. at[l] # at[k]
    BY <1>10, <1>12
  <2> QED BY <1>3, <2>2, <2>3, <2>4
<1>13. QED
    BY <1>1, <1>9, <1>c, <1>10, <1>11, <1>12 DEF at, n

-----------------------------------------------------------------------------
(* What is selected and what is sorted are the elements of the sequence: at *)
(* is how they are picked from it.                                          *)
Picks(n, from, at) ==
    /\ n \in Nat /\ at \in [1 .. n -> from]
    /\ \A i \in from : \E k \in 1 .. n : at[k] = i
    /\ \A k, l \in 1 .. n : k # l => at[k] # at[l]

KeepsBy(seq, kept, part, n, at) ==
    /\ Picks(n, kept, at)
    /\ \A k, l \in 1 .. n : k < l => at[k] < at[l]
    /\ part = [k \in 1 .. n |-> seq[at[k]]]
    /\ Len(part) = n

LEMMA KeptElements ==
    ASSUME NEW S, NEW seq \in Seq(S), NEW kept \in SUBSET DOMAIN seq
    PROVE  /\ Kept(seq, kept) \in Seq(S)
           /\ \E n, at : KeepsBy(seq, kept, Kept(seq, kept), n, at)
<1> DEFINE order == {p \in kept \X kept : p[1] <= p[2]}
           at == ByRank(kept, order)
           n == Cardinality(kept)
<1>1. DOMAIN seq = 1 .. Len(seq) /\ Len(seq) \in Nat
    OBVIOUS
<1>b. IsFiniteSet(DOMAIN seq)
    BY <1>1, FS_Interval
<1>2. IsFiniteSet(kept)
    BY <1>b, FS_Subset
<1>3. \A i, j \in kept : <<i, j>> \in order <=> i <= j
    OBVIOUS
<1>4. \A i \in kept : i \in Int
    BY <1>1
<1> HIDE DEF order
<1>5. TotalOrder(kept, order)
    BY <1>2, <1>3, <1>4 DEF TotalOrder
<1>6. /\ n \in Nat /\ DOMAIN at = 1 .. n /\ at \in [1 .. n -> kept]
      /\ \A i \in kept : \E k \in 1 .. n : at[k] = i
      /\ \A k, l \in 1 .. n : k # l => at[k] # at[l]
      /\ \A k, l \in 1 .. n : k < l => <<at[k], at[l]>> \in order
    BY <1>5, RankedPositions
<1>7. Kept(seq, kept) = [k \in DOMAIN at |-> seq[at[k]]]
    BY DEF Kept, order
<1> HIDE DEF at, n
<1>9. Picks(n, kept, at)
    BY <1>6 DEF Picks
<1>10. \A k, l \in 1 .. n : k < l => at[k] < at[l]
  <2> TAKE k, l \in 1 .. n
  <2> HAVE k < l
  <2>1. <<at[k], at[l]>> \in order /\ at[k] # at[l] /\ at[k] \in kept /\ at[l] \in kept
    BY <1>6
  <2>2. at[k] <= at[l] /\ at[k] \in Int /\ at[l] \in Int
    BY <1>3, <1>4, <2>1
  <2> QED BY <2>1, <2>2
<1>11. \A k \in 1 .. n : seq[at[k]] \in S
    BY <1>6
<1>12. Kept(seq, kept) = [k \in 1 .. n |-> seq[at[k]]]
    BY <1>6, <1>7
<1>13. Kept(seq, kept) \in Seq(S) /\ Len(Kept(seq, kept)) = n
    BY <1>6, <1>11, <1>12
<1>14. KeepsBy(seq, kept, Kept(seq, kept), n, at)
    BY <1>9, <1>10, <1>12, <1>13 DEF KeepsBy
<1>15. QED
    BY <1>13, <1>14

(* Keys of one length are totally ordered.                                  *)
LEMMA KeysOrdered ==
    ASSUME NEW m \in Nat
    PROVE  /\ \A a, b \in [1 .. m -> Int] : a = b \/ KeyBefore(a, b) \/ KeyBefore(b, a)
           /\ \A a, b \in [1 .. m -> Int] : KeyBefore(a, b) => a # b /\ ~KeyBefore(b, a)
           /\ \A a, b, c \in [1 .. m -> Int] :
                 KeyBefore(a, b) /\ KeyBefore(b, c) => KeyBefore(a, c)
<1>1. ASSUME NEW a \in [1 .. m -> Int], NEW b \in [1 .. m -> Int], a # b
      PROVE  KeyBefore(a, b) \/ KeyBefore(b, a)
  <2> DEFINE T == {i \in 1 .. m : a[i] # b[i]}
  <2>1. T \in SUBSET Nat /\ T # {}
    BY <1>1, SMTT(60)
  <2>2. PICK i \in T : \A j \in T : i <= j
    BY <2>1, Smallest
  <2>3. \A j \in 1 .. i - 1 : a[j] = b[j]
    BY <2>2
  <2>4. a[i] < b[i] \/ b[i] < a[i]
    BY <2>2
  <2> QED BY <2>2, <2>3, <2>4 DEF KeyBefore
<1>2. ASSUME NEW a \in [1 .. m -> Int], NEW b \in [1 .. m -> Int], KeyBefore(a, b)
      PROVE  a # b /\ ~KeyBefore(b, a)
  <2>1. PICK i \in 1 .. m : a[i] < b[i] /\ \A j \in 1 .. i - 1 : a[j] = b[j]
    BY <1>2 DEF KeyBefore
  <2>2. ASSUME NEW k \in 1 .. m, b[k] < a[k], \A j \in 1 .. k - 1 : b[j] = a[j] PROVE FALSE
    <3>1. CASE k < i
        BY <2>1, <2>2, <3>1
    <3>2. CASE i < k
        BY <2>1, <2>2, <3>2
    <3>3. CASE i = k
        BY <2>1, <2>2, <3>3
    <3> QED BY <3>1, <3>2, <3>3
  <2> QED BY <2>1, <2>2 DEF KeyBefore
<1>3. ASSUME NEW a \in [1 .. m -> Int], NEW b \in [1 .. m -> Int], NEW c \in [1 .. m -> Int],
             KeyBefore(a, b), KeyBefore(b, c)
      PROVE  KeyBefore(a, c)
  <2>1. PICK i \in 1 .. m : a[i] < b[i] /\ \A j \in 1 .. i - 1 : a[j] = b[j]
    BY <1>3 DEF KeyBefore
  <2>2. PICK k \in 1 .. m : b[k] < c[k] /\ \A j \in 1 .. k - 1 : b[j] = c[j]
    BY <1>3 DEF KeyBefore
  <2> DEFINE l == IF i < k THEN i ELSE k
  <2>3. l \in 1 .. m /\ a[l] < c[l] /\ \A j \in 1 .. l - 1 : a[j] = c[j]
    BY <2>1, <2>2
  <2> QED BY <2>3 DEF KeyBefore
<1>4. QED
    BY <1>1, <1>2, <1>3

LEMMA ArrangedElements ==
    ASSUME NEW S, NEW seq \in Seq(S), NEW m \in Nat, NEW keys \in [DOMAIN seq -> [1 .. m -> Int]]
    PROVE  \E at :
              /\ Picks(Len(seq), DOMAIN seq, at)
              /\ \A k, l \in 1 .. Len(seq) : k < l =>
                    keys[at[k]] = keys[at[l]] \/ KeyBefore(keys[at[k]], keys[at[l]])
              /\ Arranged(seq, keys) = [k \in 1 .. Len(seq) |-> seq[at[k]]]
              /\ Arranged(seq, keys) \in Seq(S)
              /\ Len(Arranged(seq, keys)) = Len(seq)
<1> DEFINE order == KeyOrder(keys)
           D == DOMAIN seq
           at == ByRank(D, order)
           n == Len(seq)
<1>1. D = 1 .. n /\ n \in Nat /\ DOMAIN keys = D
    OBVIOUS
<1>2. IsFiniteSet(D) /\ Cardinality(D) = n
  <2> HIDE DEF D, n
  <2>1. IsFiniteSet(1 .. n) /\ Cardinality(1 .. n) = n
    BY <1>1, FS_Interval
  <2> QED BY <1>1, <2>1
<1>3. \A i, j \in D : <<i, j>> \in order
                        <=> KeyBefore(keys[i], keys[j]) \/ (keys[i] = keys[j] /\ i <= j)
    BY DEF KeyOrder, NotAfter
<1>4. \A i \in D : i \in Int /\ keys[i] \in [1 .. m -> Int]
    BY <1>1
<1> HIDE DEF order
<1>5. /\ \A i, j \in D : keys[i] = keys[j] \/ KeyBefore(keys[i], keys[j])
                                          \/ KeyBefore(keys[j], keys[i])
      /\ \A i, j \in D : KeyBefore(keys[i], keys[j]) =>
                            keys[i] # keys[j] /\ ~KeyBefore(keys[j], keys[i])
      /\ \A i, j, k \in D : KeyBefore(keys[i], keys[j]) /\ KeyBefore(keys[j], keys[k])
                               => KeyBefore(keys[i], keys[k])
    BY <1>4, KeysOrdered
<1>6. TotalOrder(D, order)
  <2> HIDE DEF D
  <2>1. ASSUME NEW i \in D, NEW j \in D PROVE <<i, j>> \in order \/ <<j, i>> \in order
    <3>1. i <= j \/ j <= i
        BY <1>4
    <3> QED BY <1>3, <1>5, <3>1
  <2>2. ASSUME NEW i \in D, NEW j \in D, <<i, j>> \in order, <<j, i>> \in order
        PROVE  i = j
    <3>1. i <= j /\ j <= i => i = j
        BY <1>4
    <3> QED BY <1>3, <1>5, <2>2, <3>1
  <2>3. ASSUME NEW i \in D, NEW j \in D, NEW k \in D, <<i, j>> \in order, <<j, k>> \in order
        PROVE  <<i, k>> \in order
    <3>1. i \in Int /\ j \in Int /\ k \in Int
        BY <1>4
    <3>2. CASE KeyBefore(keys[i], keys[j]) /\ KeyBefore(keys[j], keys[k])
        BY <1>3, <1>5, <3>2
    <3>3. CASE KeyBefore(keys[i], keys[j]) /\ keys[j] = keys[k]
        BY <1>3, <3>3
    <3>4. CASE keys[i] = keys[j] /\ KeyBefore(keys[j], keys[k])
        BY <1>3, <3>4
    <3>5. CASE keys[i] = keys[j] /\ keys[j] = keys[k] /\ i <= j /\ j <= k
        BY <1>3, <3>1, <3>5
    <3> QED BY <1>3, <2>3, <3>2, <3>3, <3>4, <3>5
  <2> QED BY <1>2, <2>1, <2>2, <2>3 DEF TotalOrder
<1>7. /\ DOMAIN at = 1 .. n /\ at \in [1 .. n -> D]
      /\ \A i \in D : \E k \in 1 .. n : at[k] = i
      /\ \A k, l \in 1 .. n : k # l => at[k] # at[l]
      /\ \A k, l \in 1 .. n : k < l => <<at[k], at[l]>> \in order
  <2> HIDE DEF D, n
  <2> QED BY <1>2, <1>6, RankedPositions
<1>8. Arranged(seq, keys) = [k \in DOMAIN at |-> seq[at[k]]]
    BY DEF Arranged, order
<1> HIDE DEF at
<1>10. Picks(n, D, at)
    BY <1>1, <1>7 DEF Picks
<1>11. \A k, l \in 1 .. n : k < l =>
          keys[at[k]] = keys[at[l]] \/ KeyBefore(keys[at[k]], keys[at[l]])
    BY <1>3, <1>7
<1>12. \A k \in 1 .. n : seq[at[k]] \in S
    BY <1>1, <1>7
<1>13. Arranged(seq, keys) = [k \in 1 .. n |-> seq[at[k]]]
    BY <1>7, <1>8
<1>14. Arranged(seq, keys) \in Seq(S) /\ Len(Arranged(seq, keys)) = n
    BY <1>1, <1>12, <1>13
<1>15. QED
    BY <1>10, <1>11, <1>13, <1>14

-----------------------------------------------------------------------------
(* Sequences of ranges.                                                     *)
LEMMA RangeTypes ==
    ASSUME NEW r \in RangeSet
    PROVE  /\ r.offset \in Nat /\ r.length \in Nat /\ End(r) \in Nat
           /\ End(r) = r.offset + r.length /\ r.offset <= End(r)
BY DEF RangeSet, End

(* Keys of one integer.                                                     *)
LEMMA SingleKeys ==
    ASSUME NEW a \in Int, NEW b \in Int, <<a>> = <<b>> \/ KeyBefore(<<a>>, <<b>>)
    PROVE  a <= b
<1>1. CASE <<a>> = <<b>>
    BY <1>1
<1>2. CASE KeyBefore(<<a>>, <<b>>)
  <2> DEFINE x == <<a>>
             y == <<b>>
  <2>1. DOMAIN x = 1 .. 1 /\ x[1] = a /\ y[1] = b
    OBVIOUS
  <2> HIDE DEF x, y
  <2>2. KeyBefore(x, y)
    BY <1>2 DEF x, y
  <2>3. PICK i \in DOMAIN x : x[i] < y[i]
    BY <2>2 DEF KeyBefore
  <2>4. i = 1
    BY <2>1, <2>3
  <2> QED BY <2>1, <2>3, <2>4
<1>3. QED
    BY <1>1, <1>2

(* Sorting by one integer per element.                                      *)
SortsBy(seq, sorted, offset, at) ==
    /\ Picks(Len(seq), DOMAIN seq, at)
    /\ sorted = [k \in 1 .. Len(seq) |-> seq[at[k]]]
    /\ Len(sorted) = Len(seq)
    /\ \A k, l \in 1 .. Len(seq) : k < l => offset[at[k]] <= offset[at[l]]

LEMMA SortedByOffset ==
    ASSUME NEW S, NEW seq \in Seq(S), NEW offset \in [DOMAIN seq -> Int],
           NEW keys \in [DOMAIN seq -> [1 .. 1 -> Int]],
           \A i \in DOMAIN seq : keys[i] = <<offset[i]>>
    PROVE  /\ Arranged(seq, keys) \in Seq(S)
           /\ \E at : SortsBy(seq, Arranged(seq, keys), offset, at)
<1>4. PICK at :
        /\ Picks(Len(seq), DOMAIN seq, at)
        /\ \A k, l \in 1 .. Len(seq) : k < l =>
              keys[at[k]] = keys[at[l]] \/ KeyBefore(keys[at[k]], keys[at[l]])
        /\ Arranged(seq, keys) = [k \in 1 .. Len(seq) |-> seq[at[k]]]
        /\ Arranged(seq, keys) \in Seq(S)
        /\ Len(Arranged(seq, keys)) = Len(seq)
    BY ArrangedElements
<1>5. ASSUME NEW k \in 1 .. Len(seq), NEW l \in 1 .. Len(seq), k < l
      PROVE  offset[at[k]] <= offset[at[l]]
  <2>1. at[k] \in DOMAIN seq /\ at[l] \in DOMAIN seq
    BY <1>4 DEF Picks
  <2>2. offset[at[k]] \in Int /\ offset[at[l]] \in Int
    BY <2>1
  <2>3. keys[at[k]] = <<offset[at[k]]>> /\ keys[at[l]] = <<offset[at[l]]>>
    BY <2>1
  <2>4. keys[at[k]] = keys[at[l]] \/ KeyBefore(keys[at[k]], keys[at[l]])
    BY <1>4, <1>5
  <2> QED BY <2>2, <2>3, <2>4, SingleKeys
<1>6. QED
    BY <1>4, <1>5 DEF SortsBy

LEMMA SortedRanges ==
    ASSUME NEW seq \in Seq(RangeSet)
    PROVE  LET sorted == SortedBy(seq, Itself)
           IN  /\ sorted \in Seq(RangeSet) /\ Len(sorted) = Len(seq)
               /\ \A i \in DOMAIN seq : \E k \in 1 .. Len(seq) : sorted[k] = seq[i]
               /\ \A k, l \in 1 .. Len(seq) : k < l => sorted[k].offset <= sorted[l].offset
<1> DEFINE offset == [i \in DOMAIN seq |-> seq[i].offset]
           keys == [i \in DOMAIN seq |-> <<offset[i]>>]
           sorted == Arranged(seq, keys)
<1>a. \A i \in DOMAIN seq : seq[i] \in RangeSet
    OBVIOUS
<1>1. offset \in [DOMAIN seq -> Int]
    BY <1>a, RangeTypes
<1>b. keys = [i \in DOMAIN seq |-> <<seq[i].offset>>]
    OBVIOUS
<1>2. SortedBy(seq, Itself) = sorted
  <2> HIDE DEF keys
  <2> QED BY <1>b DEF SortedBy, SortedOn, Itself
<1>c. \A i \in DOMAIN seq : offset[i] = seq[i].offset
    OBVIOUS
<1>d. \A i \in DOMAIN seq : <<offset[i]>> \in [1 .. 1 -> Int]
    BY <1>1
<1>f. /\ keys \in [DOMAIN seq -> [1 .. 1 -> Int]]
      /\ \A i \in DOMAIN seq : keys[i] = <<offset[i]>>
    BY <1>d
<1> HIDE DEF offset, keys
<1>3. sorted \in Seq(RangeSet) /\ \E at : SortsBy(seq, sorted, offset, at)
    BY <1>1, <1>f, SortedByOffset
<1> HIDE DEF sorted
<1>e. PICK at : SortsBy(seq, sorted, offset, at)
    BY <1>3
<1>4. \A k \in 1 .. Len(seq) : at[k] \in DOMAIN seq /\ sorted[k] = seq[at[k]]
    BY <1>e DEF Picks, SortsBy
<1>5. \A i \in DOMAIN seq : \E k \in 1 .. Len(seq) : sorted[k] = seq[i]
    BY <1>e, <1>4 DEF Picks, SortsBy
<1>6. \A k, l \in 1 .. Len(seq) : k < l => sorted[k].offset <= sorted[l].offset
    BY <1>e, <1>4, <1>c DEF SortsBy
<1>7. QED
    BY <1>2, <1>3, <1>e, <1>5, <1>6 DEF SortsBy

-----------------------------------------------------------------------------
(* Ranges in order that do not overlap, and ranges that lie inside them.    *)
Separate(m) ==
    /\ m \in Seq(RangeSet)
    /\ \A k, l \in DOMAIN m : k < l => End(m[k]) <= m[l].offset

InsideOne(m, c) == \E k \in DOMAIN m : m[k].offset <= c.offset /\ End(c) <= End(m[k])

(* The merge of union_occupied so far: every range of C lies inside it, and *)
(* its last range starts at offset or before.                               *)
Merging(m, C, offset) ==
    /\ Separate(m) /\ C \in SUBSET RangeSet
    /\ \A c \in C : InsideOne(m, c)
    /\ m # <<>> => Last(m).offset <= offset

LEMMA SeparateTypes ==
    ASSUME NEW m, Separate(m)
    PROVE  /\ m \in Seq(RangeSet) /\ Len(m) \in Nat /\ DOMAIN m = 1 .. Len(m)
           /\ \A k \in 1 .. Len(m) : /\ m[k] \in RangeSet /\ m[k].offset \in Nat
                                     /\ m[k].length \in Nat /\ End(m[k]) \in Nat
                                     /\ m[k].offset <= End(m[k])
           /\ \A k, l \in 1 .. Len(m) : k < l => End(m[k]) <= m[l].offset
<1>1. m \in Seq(RangeSet) /\ Len(m) \in Nat /\ DOMAIN m = 1 .. Len(m)
    BY DEF Separate
<1>2. \A k \in 1 .. Len(m) : m[k] \in RangeSet
    BY <1>1
<1>3. \A k \in 1 .. Len(m) : /\ m[k].offset \in Nat /\ m[k].length \in Nat
                             /\ End(m[k]) \in Nat /\ m[k].offset <= End(m[k])
    BY <1>2, RangeTypes
<1>4. QED
    BY <1>1, <1>2, <1>3 DEF Separate

LEMMA AppendSeparate ==
    ASSUME NEW m, Separate(m), NEW r \in RangeSet,
           \A k \in 1 .. Len(m) : End(m[k]) <= r.offset
    PROVE  /\ Separate(Append(m, r)) /\ Len(Append(m, r)) = Len(m) + 1
           /\ \A k \in 1 .. Len(m) : Append(m, r)[k] = m[k]
           /\ Append(m, r)[Len(m) + 1] = r
<1> DEFINE n == Len(m)
           a == Append(m, r)
<1>1. /\ m \in Seq(RangeSet) /\ n \in Nat
      /\ \A k, l \in 1 .. n : k < l => End(m[k]) <= m[l].offset
    BY SeparateTypes
<1>2. /\ a \in Seq(RangeSet) /\ Len(a) = n + 1 /\ DOMAIN a = 1 .. n + 1
      /\ \A k \in 1 .. n : a[k] = m[k]
      /\ a[n + 1] = r
    BY <1>1
<1> HIDE DEF n, a
<1>3. ASSUME NEW k \in 1 .. n + 1, NEW l \in 1 .. n + 1, k < l
      PROVE  End(a[k]) <= a[l].offset
  <2>1. CASE l \in 1 .. n
    BY <1>1, <1>2, <1>3, <2>1
  <2>2. CASE l = n + 1
    <3>1. k \in 1 .. n
        BY <1>1, <1>3, <2>2
    <3> QED BY <1>2, <2>2, <3>1 DEF n
  <2> QED BY <1>1, <2>1, <2>2
<1>4. QED
    BY <1>2, <1>3 DEF Separate, n, a

(* A part of a sequence.                                                    *)
LEMMA Slices ==
    ASSUME NEW S, NEW s \in Seq(S), NEW a \in Nat \ {0}, NEW b \in Nat, b <= Len(s), a <= b + 1
    PROVE  LET p == SubSeq(s, a, b)
           IN  /\ p \in Seq(S) /\ Len(p) = b - a + 1 /\ DOMAIN p = 1 .. b - a + 1
               /\ \A k \in 1 .. b - a + 1 : p[k] = s[a + k - 1]
<1> DEFINE p == SubSeq(s, a, b)
<1>1. \A i \in a .. b : s[i] \in S
    OBVIOUS
<1>2. /\ p \in Seq(S)
      /\ Len(p) = IF a <= b THEN b - a + 1 ELSE 0
      /\ \A i \in 1 .. b - a + 1 : p[i] = s[a + i - 1]
    BY <1>1, SubSeqProperties
<1> HIDE DEF p
<1>3. Len(p) = b - a + 1
    BY <1>2
<1>4. DOMAIN p = 1 .. b - a + 1
    BY <1>2, <1>3
<1>5. QED
    BY <1>2, <1>3, <1>4 DEF p

LEMMA FrontSeparate ==
    ASSUME NEW m, Separate(m), m # <<>>
    PROVE  /\ Separate(Front(m)) /\ Len(Front(m)) = Len(m) - 1
           /\ \A k \in 1 .. Len(m) - 1 : Front(m)[k] = m[k]
<1> DEFINE n == Len(m)
           f == Front(m)
<1>1. /\ m \in Seq(RangeSet) /\ n \in Nat /\ n # 0
      /\ \A k, l \in 1 .. n : k < l => End(m[k]) <= m[l].offset
    BY SeparateTypes
<1> DEFINE b == n - 1
<1>a. f = SubSeq(m, 1, b) /\ b \in Nat /\ b <= Len(m) /\ 1 <= b + 1
    BY <1>1 DEF Front
<1> HIDE DEF b
<1>b. /\ f \in Seq(RangeSet) /\ Len(f) = b - 1 + 1 /\ DOMAIN f = 1 .. b - 1 + 1
      /\ \A k \in 1 .. b - 1 + 1 : f[k] = m[1 + k - 1]
  <2> HIDE DEF f, n
  <2> QED BY <1>1, <1>a, Slices
<1>c. b - 1 + 1 = b /\ \A k \in Int : 1 + k - 1 = k
    BY <1>a
<1>2. /\ f \in Seq(RangeSet) /\ Len(f) = n - 1 /\ DOMAIN f = 1 .. n - 1
      /\ \A k \in 1 .. n - 1 : f[k] = m[k]
    BY <1>b, <1>c DEF b
<1> HIDE DEF n, f
<1>3. ASSUME NEW k \in 1 .. n - 1, NEW l \in 1 .. n - 1, k < l
      PROVE  End(f[k]) <= f[l].offset
    BY <1>1, <1>2, <1>3
<1>4. QED
    BY <1>2, <1>3 DEF Separate, n, f

LEMMA MergeStep ==
    ASSUME NEW m, NEW C, NEW r \in RangeSet, Merging(m, C, r.offset)
    PROVE  Merging(Merge(m, r), C \cup {r}, r.offset) /\ Merge(m, r) # <<>>
<1> DEFINE n == Len(m)
           e == End(r)
<1>1. Separate(m) /\ C \in SUBSET RangeSet /\ \A c \in C : InsideOne(m, c)
    BY DEF Merging
<1>2. /\ m \in Seq(RangeSet) /\ n \in Nat /\ DOMAIN m = 1 .. n
      /\ \A k \in 1 .. n : /\ m[k] \in RangeSet /\ m[k].offset \in Nat
                           /\ m[k].length \in Nat /\ End(m[k]) \in Nat
                           /\ m[k].offset <= End(m[k])
      /\ \A k, l \in 1 .. n : k < l => End(m[k]) <= m[l].offset
    BY <1>1, SeparateTypes
<1>3. r.offset \in Nat /\ r.length \in Nat /\ e = r.offset + r.length /\ e \in Nat
      /\ r.offset <= e
    BY RangeTypes
<1>4. \A c \in C : c.offset \in Nat /\ End(c) \in Nat
    BY <1>1, RangeTypes
<1>5. C \cup {r} \in SUBSET RangeSet
    BY <1>1
<1>6. CASE m # <<>> /\ r.offset <= End(Last(m))
  <2> DEFINE last == m[n]
             top == IF e >= End(last) THEN e ELSE End(last)
             wide == ByteRange(last.offset, top - last.offset)
             joined == Append(Front(m), wide)
  <2>1. n \in 1 .. n /\ n # 0 /\ Last(m) = last
    BY <1>2, <1>6 DEF Last
  <2>2. Max({e, End(last)}) = top
    BY <1>2, <1>3, <2>1, MaxOfTwo, SMTT(60)
  <2>3. Merge(m, r) = joined
    BY <1>6, <2>1, <2>2 DEF Merge
  <2>4. last.offset <= r.offset /\ r.offset <= End(last)
    BY <1>6, <2>1 DEF Merging
  <2>5. wide \in RangeSet /\ wide.offset = last.offset /\ End(wide) = top
    BY <1>2, <1>3, <2>1, SMTT(60) DEF RangeSet, ByteRange, End
  <2>6. End(last) <= top /\ e <= top /\ top \in Nat
    BY <1>2, <1>3, <2>1, SMTT(60)
  <2> HIDE DEF wide, top
  <2>7. /\ Separate(Front(m)) /\ Len(Front(m)) = n - 1
        /\ \A k \in 1 .. n - 1 : Front(m)[k] = m[k]
    BY <1>1, <1>6, FrontSeparate
  <2>8. \A k \in 1 .. Len(Front(m)) : End(Front(m)[k]) <= wide.offset
    BY <1>2, <2>1, <2>5, <2>7
  <2>9. /\ Separate(joined) /\ Len(joined) = n
        /\ \A k \in 1 .. n - 1 : joined[k] = m[k]
        /\ joined[n] = wide
    <3>1. n - 1 + 1 = n
        BY <1>2
    <3> QED BY <2>5, <2>7, <2>8, <3>1, AppendSeparate
  <2> HIDE DEF joined, last, n, e
  <2>10. joined \in Seq(RangeSet) /\ DOMAIN joined = 1 .. n /\ joined # <<>> /\ Last(joined) = wide
    BY <2>1, <2>9 DEF Separate, Last
  <2>11. ASSUME NEW c \in C PROVE InsideOne(joined, c)
    <3>1. PICK k \in 1 .. n : m[k].offset <= c.offset /\ End(c) <= End(m[k])
        BY <1>1, <1>2 DEF InsideOne
    <3>2. CASE k < n
      <4>1. joined[k] = m[k]
        BY <1>2, <2>9, <3>2
      <4> QED BY <2>10, <3>1, <4>1 DEF InsideOne
    <3>3. CASE k = n
      <4>1. last.offset <= c.offset /\ End(c) <= top
        BY <1>2, <1>4, <2>1, <2>6, <3>1, <3>3 DEF last
      <4> QED BY <2>1, <2>5, <2>9, <2>10, <4>1 DEF InsideOne
    <3> QED BY <1>2, <3>2, <3>3
  <2>12. InsideOne(joined, r)
    BY <2>1, <2>4, <2>5, <2>6, <2>9, <2>10 DEF InsideOne, e
  <2> QED BY <1>5, <2>3, <2>4, <2>5, <2>9, <2>10, <2>11, <2>12 DEF Merging
<1>7. CASE ~ (m # <<>> /\ r.offset <= End(Last(m)))
  <2> DEFINE joined == Append(m, r)
  <2>1. Merge(m, r) = joined
    BY <1>7 DEF Merge
  <2>2. \A k \in 1 .. n : End(m[k]) <= r.offset
    <3> TAKE k \in 1 .. n
    <3>1. m # <<>> /\ Last(m) = m[n] /\ n \in 1 .. n
        BY <1>2 DEF Last
    <3>2. End(m[n]) < r.offset
        BY <1>2, <1>3, <1>7, <3>1
    <3>3. k = n \/ End(m[k]) <= m[n].offset
        BY <1>2, <3>1
    <3> QED BY <1>2, <1>3, <3>1, <3>2, <3>3
  <2>3. /\ Separate(joined) /\ Len(joined) = n + 1
        /\ \A k \in 1 .. n : joined[k] = m[k]
        /\ joined[n + 1] = r
    BY <1>1, <2>2, AppendSeparate
  <2> HIDE DEF joined, n, e
  <2>4. /\ joined \in Seq(RangeSet) /\ DOMAIN joined = 1 .. n + 1 /\ joined # <<>>
        /\ Last(joined) = r
    BY <1>2, <2>3 DEF Separate, Last
  <2>5. ASSUME NEW c \in C PROVE InsideOne(joined, c)
    <3>1. PICK k \in 1 .. n : m[k].offset <= c.offset /\ End(c) <= End(m[k])
        BY <1>1, <1>2 DEF InsideOne
    <3>2. k \in 1 .. n + 1 /\ joined[k] = m[k]
        BY <1>2, <2>3
    <3> QED BY <2>4, <3>1, <3>2 DEF InsideOne
  <2>6. InsideOne(joined, r)
    BY <1>2, <1>3, <2>3, <2>4, SMTT(60) DEF InsideOne, e
  <2> QED BY <1>3, <1>5, <2>1, <2>3, <2>4, <2>5, <2>6 DEF Merging
<1>8. QED
    BY <1>6, <1>7

-----------------------------------------------------------------------------
(* The loops' fixed points exist: every turn starts from the one before it. *)
LEMMA MergesStep ==
    ASSUME NEW all, NEW n, n = Len(all), n \in Nat
    PROVE  LET f == Merges(all)
           IN  /\ f[0] = <<>>
               /\ \A k \in 0 .. n - 1 : f[k + 1] = Merge(f[k], all[k + 1])
<1> DEFINE Step(s, k) == Merge(s, all[k])
           First == <<>>
           Is(m, f) == f = [k \in 0 .. m |-> IF k = 0 THEN First ELSE Step(f[k - 1], k)]
           T == {m \in Nat : \E f : Is(m, f)}
<1>1. T = Nat
  <2> HIDE DEF Step, First
  <2>1. 0 \in T
    <3> DEFINE f == [k \in 0 .. 0 |-> First]
    <3>1. \A k \in 0 .. 0 : f[k] = IF k = 0 THEN First ELSE Step(f[k - 1], k)
        OBVIOUS
    <3>2. Is(0, f)
        BY <3>1
    <3> QED BY <3>2
  <2>2. ASSUME NEW m \in T PROVE m + 1 \in T
    <3>1. PICK f : Is(m, f)
        OBVIOUS
    <3> DEFINE g == [k \in 0 .. (m + 1) |-> IF k <= m THEN f[k] ELSE Step(f[m], k)]
    <3>2. \A k \in 0 .. (m + 1) : g[k] = IF k = 0 THEN First ELSE Step(g[k - 1], k)
        BY <3>1
    <3>3. Is(m + 1, g)
        BY <3>2
    <3>4. \E h : Is(m + 1, h)
        BY <3>3
    <3> HIDE DEF Is
    <3> QED BY <3>4
  <2> HIDE DEF T
  <2> QED BY <2>1, <2>2, Induction DEF T
<1>2. \E f : Is(n, f)
    BY <1>1
<1>3. Is(n, Merges(all))
    BY <1>2, Zenon DEF Merges
<1> DEFINE w == Merges(all)
<1> HIDE DEF Step, First, w
<1>4. w[0] = First
    BY <1>3 DEF w
<1>5. \A k \in 0 .. n - 1 : w[k + 1] = Step(w[k], k + 1)
    BY <1>3 DEF w
<1>6. QED
    BY <1>4, <1>5 DEF w, Step, First

(* The running sums.                                                        *)
LEMMA SumsStep ==
    ASSUME NEW numbers, NEW n, n = Len(numbers), n \in Nat
    PROVE  LET f == Sums(numbers)
           IN  /\ f[0] = 0
               /\ \A k \in 0 .. n - 1 : f[k + 1] = f[k] + numbers[k + 1]
<1> DEFINE Step(s, k) == s + numbers[k]
           First == 0
           Is(m, f) == f = [k \in 0 .. m |-> IF k = 0 THEN First ELSE Step(f[k - 1], k)]
           T == {m \in Nat : \E f : Is(m, f)}
<1>1. T = Nat
  <2> HIDE DEF Step, First
  <2>1. 0 \in T
    <3> DEFINE f == [k \in 0 .. 0 |-> First]
    <3>1. \A k \in 0 .. 0 : f[k] = IF k = 0 THEN First ELSE Step(f[k - 1], k)
        OBVIOUS
    <3>2. Is(0, f)
        BY <3>1
    <3> QED BY <3>2
  <2>2. ASSUME NEW m \in T PROVE m + 1 \in T
    <3>1. PICK f : Is(m, f)
        OBVIOUS
    <3> DEFINE g == [k \in 0 .. (m + 1) |-> IF k <= m THEN f[k] ELSE Step(f[m], k)]
    <3>2. \A k \in 0 .. (m + 1) : g[k] = IF k = 0 THEN First ELSE Step(g[k - 1], k)
        BY <3>1
    <3>3. Is(m + 1, g)
        BY <3>2
    <3>4. \E h : Is(m + 1, h)
        BY <3>3
    <3> HIDE DEF Is
    <3> QED BY <3>4
  <2> HIDE DEF T
  <2> QED BY <2>1, <2>2, Induction DEF T
<1>2. \E f : Is(n, f)
    BY <1>1
<1>3. Is(n, Sums(numbers))
    BY <1>2, Zenon DEF Sums
<1> DEFINE w == Sums(numbers)
<1> HIDE DEF Step, First, w
<1>4. w[0] = First
    BY <1>3 DEF w
<1>5. \A k \in 0 .. n - 1 : w[k + 1] = Step(w[k], k + 1)
    BY <1>3 DEF w
<1>6. QED
    BY <1>4, <1>5 DEF w, Step, First

(* The turns of the fragmented allocation.                                  *)
LEMMA FragmentsStep ==
    ASSUME NEW free, NEW length, NEW align, NEW domain, NEW pieces, NEW n, n = pieces + 1, n \in Nat
    PROVE  LET f == Fragments(free, length, align, domain, pieces)
           IN  /\ f[0] = NothingTaken(free, length)
               /\ \A k \in 0 .. n - 1 : f[k + 1] = TakeFragment(align, domain, pieces, f[k])
<1> DEFINE Step(s, k) == TakeFragment(align, domain, pieces, s)
           First == NothingTaken(free, length)
           Is(m, f) == f = [k \in 0 .. m |-> IF k = 0 THEN First ELSE Step(f[k - 1], k)]
           T == {m \in Nat : \E f : Is(m, f)}
<1>1. T = Nat
  <2> HIDE DEF Step, First
  <2>1. 0 \in T
    <3> DEFINE f == [k \in 0 .. 0 |-> First]
    <3>1. \A k \in 0 .. 0 : f[k] = IF k = 0 THEN First ELSE Step(f[k - 1], k)
        OBVIOUS
    <3>2. Is(0, f)
        BY <3>1
    <3> QED BY <3>2
  <2>2. ASSUME NEW m \in T PROVE m + 1 \in T
    <3>1. PICK f : Is(m, f)
        OBVIOUS
    <3> DEFINE g == [k \in 0 .. (m + 1) |-> IF k <= m THEN f[k] ELSE Step(f[m], k)]
    <3>2. \A k \in 0 .. (m + 1) : g[k] = IF k = 0 THEN First ELSE Step(g[k - 1], k)
        BY <3>1
    <3>3. Is(m + 1, g)
        BY <3>2
    <3>4. \E h : Is(m + 1, h)
        BY <3>3
    <3> HIDE DEF Is
    <3> QED BY <3>4
  <2> HIDE DEF T
  <2> QED BY <2>1, <2>2, Induction DEF T
<1>2. \E f : Is(n, f)
    BY <1>1
<1>3. Is(n, Fragments(free, length, align, domain, pieces))
    BY <1>2, Zenon DEF Fragments
<1> DEFINE w == Fragments(free, length, align, domain, pieces)
<1> HIDE DEF Step, First, w
<1>4. w[0] = First
    BY <1>3 DEF w
<1>5. \A k \in 0 .. n - 1 : w[k + 1] = Step(w[k], k + 1)
    BY <1>3 DEF w
<1>6. QED
    BY <1>4, <1>5 DEF w, Step, First

(* The requests one after another.                                          *)
RequestTurns(in, solution, fragmented, n, f) ==
    /\ f[0] = solution
    /\ \A k \in 0 .. n - 1 :
          f[k + 1] = AllocateRequest(in, fragmented, f[k], in.requests[k + 1])

LEMMA RequestsStep ==
    ASSUME NEW in, NEW solution, NEW fragmented, NEW n, n = Len(in.requests), n \in Nat
    PROVE  RequestTurns(in, solution, fragmented, n, AfterRequests(in, solution, fragmented))
<1> DEFINE Step(s, k) == AllocateRequest(in, fragmented, s, in.requests[k])
           First == solution
           Is(m, f) == f = [k \in 0 .. m |-> IF k = 0 THEN First ELSE Step(f[k - 1], k)]
           T == {m \in Nat : \E f : Is(m, f)}
<1>1. T = Nat
  <2> HIDE DEF Step, First
  <2>1. 0 \in T
    <3> DEFINE f == [k \in 0 .. 0 |-> First]
    <3>1. \A k \in 0 .. 0 : f[k] = IF k = 0 THEN First ELSE Step(f[k - 1], k)
        OBVIOUS
    <3>2. Is(0, f)
        BY <3>1
    <3> QED BY <3>2
  <2>2. ASSUME NEW m \in T PROVE m + 1 \in T
    <3>1. PICK f : Is(m, f)
        OBVIOUS
    <3> DEFINE g == [k \in 0 .. (m + 1) |-> IF k <= m THEN f[k] ELSE Step(f[m], k)]
    <3>2. \A k \in 0 .. (m + 1) : g[k] = IF k = 0 THEN First ELSE Step(g[k - 1], k)
        BY <3>1
    <3>3. Is(m + 1, g)
        BY <3>2
    <3>4. \E h : Is(m + 1, h)
        BY <3>3
    <3> HIDE DEF Is
    <3> QED BY <3>4
  <2> HIDE DEF T
  <2> QED BY <2>1, <2>2, Induction DEF T
<1>2. \E f : Is(n, f)
    BY <1>1
<1>3. Is(n, AfterRequests(in, solution, fragmented))
    BY <1>2, Zenon DEF AfterRequests
<1> DEFINE w == AfterRequests(in, solution, fragmented)
<1> HIDE DEF Step, First, w
<1>4. w[0] = First
    BY <1>3 DEF w
<1>5. \A k \in 0 .. n - 1 : w[k + 1] = Step(w[k], k + 1)
    BY <1>3 DEF w
<1>6. QED
    BY <1>4, <1>5 DEF w, Step, First, RequestTurns

(* The conflicts one after another.                                         *)
ConflictTurns(in, solution, conflicts, n, f) ==
    /\ f[0] = solution
    /\ \A k \in 0 .. n - 1 : f[k + 1] = RelocateConflict(in, f[k], conflicts[k + 1])

LEMMA ConflictsStep ==
    ASSUME NEW in, NEW solution, NEW conflicts, NEW n, n = Len(conflicts), n \in Nat
    PROVE  ConflictTurns(in, solution, conflicts, n, AfterConflicts(in, solution, conflicts))
<1> DEFINE Step(s, k) == RelocateConflict(in, s, conflicts[k])
           First == solution
           Is(m, f) == f = [k \in 0 .. m |-> IF k = 0 THEN First ELSE Step(f[k - 1], k)]
           T == {m \in Nat : \E f : Is(m, f)}
<1>1. T = Nat
  <2> HIDE DEF Step, First
  <2>1. 0 \in T
    <3> DEFINE f == [k \in 0 .. 0 |-> First]
    <3>1. \A k \in 0 .. 0 : f[k] = IF k = 0 THEN First ELSE Step(f[k - 1], k)
        OBVIOUS
    <3>2. Is(0, f)
        BY <3>1
    <3> QED BY <3>2
  <2>2. ASSUME NEW m \in T PROVE m + 1 \in T
    <3>1. PICK f : Is(m, f)
        OBVIOUS
    <3> DEFINE g == [k \in 0 .. (m + 1) |-> IF k <= m THEN f[k] ELSE Step(f[m], k)]
    <3>2. \A k \in 0 .. (m + 1) : g[k] = IF k = 0 THEN First ELSE Step(g[k - 1], k)
        BY <3>1
    <3>3. Is(m + 1, g)
        BY <3>2
    <3>4. \E h : Is(m + 1, h)
        BY <3>3
    <3> HIDE DEF Is
    <3> QED BY <3>4
  <2> HIDE DEF T
  <2> QED BY <2>1, <2>2, Induction DEF T
<1>2. \E f : Is(n, f)
    BY <1>1
<1>3. Is(n, AfterConflicts(in, solution, conflicts))
    BY <1>2, Zenon DEF AfterConflicts
<1> DEFINE w == AfterConflicts(in, solution, conflicts)
<1> HIDE DEF Step, First, w
<1>4. w[0] = First
    BY <1>3 DEF w
<1>5. \A k \in 0 .. n - 1 : w[k + 1] = Step(w[k], k + 1)
    BY <1>3 DEF w
<1>6. QED
    BY <1>4, <1>5 DEF w, Step, First, ConflictTurns

(* Sums of naturals are naturals.                                           *)
LEMMA TotalIsNatural ==
    ASSUME NEW numbers \in Seq(Nat)
    PROVE  Total(numbers) \in Nat
<1> DEFINE n == Len(numbers)
           f == Sums(numbers)
           T == {k \in 0 .. n : f[k] \in Nat}
<1>1. n \in Nat
    OBVIOUS
<1>2. f[0] = 0 /\ \A k \in 0 .. n - 1 : f[k + 1] = f[k] + numbers[k + 1]
    BY <1>1, SumsStep
<1>3. \A k \in 1 .. n : numbers[k] \in Nat
    OBVIOUS
<1> HIDE DEF n, f
<1>4. 0 \in T
    BY <1>1, <1>2
<1>5. ASSUME NEW k \in 0 .. n, k < n, k \in T PROVE k + 1 \in T
  <2>1. k \in 0 .. n - 1 /\ k + 1 \in 1 .. n
    BY <1>1, <1>5
  <2>2. f[k + 1] = f[k] + numbers[k + 1]
    BY <1>2, <2>1
  <2>3. f[k + 1] \in Nat
    BY <1>3, <1>5, <2>1, <2>2
  <2> QED BY <2>1, <2>3
<1>6. \A k \in 0 .. n : k \in T
  <2> HIDE DEF T
  <2> QED BY <1>1, <1>4, <1>5, BoundedInduction
<1>7. QED
    BY <1>1, <1>6 DEF Total, n, f

-----------------------------------------------------------------------------
(* union_occupied: the merged ranges cover every range that went in.        *)
LEMMA MergedCover ==
    ASSUME NEW all \in Seq(RangeSet),
           \A k, l \in 1 .. Len(all) : k < l => all[k].offset <= all[l].offset
    PROVE  LET merged == Merges(all)[Len(all)]
           IN  Separate(merged) /\ \A k \in 1 .. Len(all) : InsideOne(merged, all[k])
<1> DEFINE n == Len(all)
           f == Merges(all)
           C(k) == {all[i] : i \in 1 .. k}
           T == {k \in 0 .. n : \A o \in Nat : (\A i \in 1 .. k : all[i].offset <= o)
                                    => Merging(f[k], C(k), o)}
<1>1. n \in Nat /\ \A k \in 1 .. n : all[k] \in RangeSet
    OBVIOUS
<1>2. f[0] = <<>> /\ \A k \in 0 .. n - 1 : f[k + 1] = Merge(f[k], all[k + 1])
    BY <1>1, MergesStep
<1>3. \A k \in 1 .. n : all[k].offset \in Nat
    BY <1>1, RangeTypes
<1> HIDE DEF n, f
<1>4. 0 \in T
  <2>1. C(0) = {}
    OBVIOUS
  <2>2. Separate(<<>>)
    BY DEF Separate
  <2>3. \A o \in Nat : Merging(f[0], C(0), o)
    BY <1>2, <2>1, <2>2 DEF Merging
  <2> QED BY <1>1, <2>3
<1>5. ASSUME NEW k \in 0 .. n, k < n, k \in T PROVE k + 1 \in T
  <2> DEFINE r == all[k + 1]
  <2>1. k \in 0 .. n - 1 /\ k + 1 \in 1 .. n
    BY <1>1, <1>5
  <2>2. r \in RangeSet /\ r.offset \in Nat
    BY <1>1, <1>3, <2>1
  <2>3. \A i \in 1 .. k : all[i].offset <= r.offset
    BY <1>1, <2>1 DEF n
  <2>4. Merging(f[k], C(k), r.offset)
    BY <1>5, <2>2, <2>3
  <2>5. Merging(f[k + 1], C(k) \cup {r}, r.offset) /\ f[k + 1] # <<>>
    BY <1>2, <2>1, <2>2, <2>4, MergeStep
  <2>6. C(k) \cup {r} = C(k + 1)
    BY <2>1
  <2> HIDE DEF C, r
  <2>7. ASSUME NEW o \in Nat, \A i \in 1 .. k + 1 : all[i].offset <= o
        PROVE  Merging(f[k + 1], C(k + 1), o)
    <3>1. r.offset <= o
        BY <2>1, <2>7 DEF r
    <3>2. Separate(f[k + 1]) /\ f[k + 1] # <<>> /\ Last(f[k + 1]).offset <= r.offset
        BY <2>5 DEF Merging
    <3>3. Last(f[k + 1]).offset \in Nat
      <4> DEFINE m == f[k + 1]
      <4>1. m \in Seq(RangeSet) /\ Len(m) \in 1 .. Len(m)
        BY <3>2, SeparateTypes
      <4>2. m[Len(m)].offset \in Nat
        BY <3>2, <4>1, SeparateTypes
      <4> QED BY <4>2 DEF Last
    <3>4. Last(f[k + 1]).offset <= o
        BY <2>2, <3>1, <3>2, <3>3
    <3> QED BY <2>5, <2>6, <3>4 DEF Merging
  <2> QED BY <2>1, <2>7
<1>6. \A k \in 0 .. n : k \in T
  <2> HIDE DEF T
  <2> QED BY <1>1, <1>4, <1>5, BoundedInduction
<1>7. PICK o \in Nat : \A i \in 1 .. n : all[i].offset <= o
  <2>1. CASE n = 0
    BY <2>1
  <2>2. CASE n # 0
    <3>1. n \in 1 .. n /\ \A i \in 1 .. n : i = n \/ i < n
        BY <1>1, <2>2
    <3>2. \A i \in 1 .. n : all[i].offset <= all[n].offset
        BY <1>3, <3>1 DEF n
    <3> QED BY <1>3, <3>1, <3>2
  <2> QED BY <2>1, <2>2
<1>8. n \in T
  <2> HIDE DEF T
  <2> QED BY <1>1, <1>6
<1>9. Merging(f[n], C(n), o)
    BY <1>7, <1>8
<1>10. QED
    BY <1>9 DEF Merging, f, n

(* What the solver reads of an input: the ranges that are occupied before   *)
(* activation.                                                              *)
InputTyped(in) ==
    /\ in.volume \in Nat /\ in.align \in Nat \ {0} /\ in.domain \in RangeSet
    /\ in.source \in Seq(AllocationSet)
    /\ in.reservations \in Seq(ReservationSet)
    /\ in.exclusions \in Seq(RangeSet)
    /\ in.requests \in Seq(RequestSet)

IsOccupied(in, r) ==
    \/ \E i \in DOMAIN in.source : r = in.source[i].range
    \/ \E i \in DOMAIN in.reservations : r = in.reservations[i].range
    \/ \E i \in DOMAIN in.exclusions : r = in.exclusions[i]

LEMMA OccupiedElements ==
    ASSUME NEW in, InputTyped(in)
    PROVE  /\ OccupiedRanges(in) \in Seq(RangeSet)
           /\ \A r : IsOccupied(in, r) =>
                 \E i \in DOMAIN OccupiedRanges(in) : OccupiedRanges(in)[i] = r
<1> DEFINE x == in.source
           y == in.reservations
           c == in.exclusions
           a == [i \in DOMAIN x |-> x[i].range]
           b == [i \in DOMAIN y |-> y[i].range]
           all == OccupiedRanges(in)
<1>1. /\ x \in Seq(AllocationSet) /\ y \in Seq(ReservationSet)
      /\ c \in Seq(RangeSet)
    BY DEF InputTyped
<1>3. all = a \o b \o c
    BY Zenon DEF OccupiedRanges
<1>4. \A r : IsOccupied(in, r) =>
          \/ \E i \in DOMAIN x : r = x[i].range
          \/ \E i \in DOMAIN y : r = y[i].range
          \/ \E i \in DOMAIN c : r = c[i]
    BY Zenon DEF IsOccupied
<1> HIDE DEF x, y, c, all
<1>a. /\ \A i \in DOMAIN x : x[i] \in AllocationSet
      /\ \A i \in DOMAIN y : y[i] \in ReservationSet
    BY <1>1
<1>d. (\A e \in AllocationSet : e.range \in RangeSet)
      /\ (\A e \in ReservationSet : e.range \in RangeSet)
    BY DEF AllocationSet, ReservationSet
<1>b. /\ \A i \in DOMAIN x : x[i].range \in RangeSet
      /\ \A i \in DOMAIN y : y[i].range \in RangeSet
    BY <1>a, <1>d
<1>e. /\ DOMAIN x = 1 .. Len(x) /\ Len(x) \in Nat
      /\ DOMAIN y = 1 .. Len(y) /\ Len(y) \in Nat
    BY <1>1
<1>f. a \in [1 .. Len(x) -> RangeSet] /\ b \in [1 .. Len(y) -> RangeSet]
    BY <1>b, <1>e
<1>2. a \in Seq(RangeSet) /\ b \in Seq(RangeSet)
  <2> HIDE DEF a, b
  <2> QED BY <1>e, <1>f
<1>c. /\ DOMAIN a = DOMAIN x /\ \A i \in DOMAIN x : a[i] = x[i].range
      /\ DOMAIN b = DOMAIN y /\ \A i \in DOMAIN y : b[i] = y[i].range
    OBVIOUS
<1> HIDE DEF a, b
<1>5. all \in Seq(RangeSet)
    BY <1>1, <1>2, <1>3
<1>6. ASSUME NEW i \in DOMAIN a PROVE \E k \in DOMAIN all : all[k] = a[i]
  <2>1. i \in DOMAIN all /\ all[i] = a[i]
    BY <1>1, <1>2, <1>3
  <2> QED BY <2>1
<1>7. ASSUME NEW i \in DOMAIN b PROVE \E k \in DOMAIN all : all[k] = b[i]
  <2>1. Len(a) + i \in DOMAIN all /\ all[Len(a) + i] = b[i]
    BY <1>1, <1>2, <1>3
  <2> QED BY <2>1
<1>8. ASSUME NEW i \in DOMAIN c PROVE \E k \in DOMAIN all : all[k] = c[i]
  <2>1. Len(a) + Len(b) + i \in DOMAIN all /\ all[Len(a) + Len(b) + i] = c[i]
    BY <1>1, <1>2, <1>3
  <2> QED BY <2>1
<1>9. \A r : IsOccupied(in, r) => \E k \in DOMAIN all : all[k] = r
    BY <1>4, <1>6, <1>7, <1>8, <1>c
<1>10. QED
    BY <1>5, <1>9 DEF all

LEMMA UnionCovers ==
    ASSUME NEW in, InputTyped(in)
    PROVE  /\ Separate(UnionOccupied(in))
           /\ \A r : IsOccupied(in, r) => InsideOne(UnionOccupied(in), r)
<1> DEFINE seq == OccupiedRanges(in)
           all == SortedBy(seq, Itself)
<1>1. /\ seq \in Seq(RangeSet)
      /\ \A r : IsOccupied(in, r) => \E i \in DOMAIN seq : seq[i] = r
    BY OccupiedElements
<1> HIDE DEF seq
<1>2. /\ all \in Seq(RangeSet) /\ Len(all) = Len(seq)
      /\ \A i \in DOMAIN seq : \E k \in 1 .. Len(seq) : all[k] = seq[i]
      /\ \A k, l \in 1 .. Len(seq) : k < l => all[k].offset <= all[l].offset
    BY <1>1, SortedRanges
<1>3. UnionOccupied(in) = Merges(all)[Len(all)]
    BY DEF UnionOccupied, seq
<1> HIDE DEF all
<1>4. /\ Separate(UnionOccupied(in))
      /\ \A k \in 1 .. Len(all) : InsideOne(UnionOccupied(in), all[k])
    BY <1>2, <1>3, MergedCover
<1>5. ASSUME NEW r, IsOccupied(in, r) PROVE InsideOne(UnionOccupied(in), r)
  <2>1. PICK i \in DOMAIN seq : seq[i] = r
    BY <1>1, <1>5
  <2>2. PICK k \in 1 .. Len(seq) : all[k] = seq[i]
    BY <1>2
  <2> QED BY <1>2, <1>4, <2>1, <2>2
<1>6. QED
    BY <1>4, <1>5

-----------------------------------------------------------------------------
(* Free ranges are in order and clear of every range of X.                  *)
Clear(a, b) == End(a) <= b.offset \/ End(b) <= a.offset

FreeOf(free, X) ==
    /\ Separate(free) /\ X \in SUBSET RangeSet
    /\ \A k \in 1 .. Len(free), c \in X : Clear(free[k], c)

(* The gap before the i-th occupied range, where there is one.              *)
LEMMA GapClear ==
    ASSUME NEW occupied, Separate(occupied), NEW volume \in Nat,
           NEW i \in 1 .. Len(occupied) + 1
    PROVE  LET gap == GapBefore(volume, occupied, i)
           IN  /\ gap.offset \in Nat /\ gap.length \in Int
               /\ i # 1 => gap.offset = End(occupied[i - 1])
               /\ i <= Len(occupied) => End(gap) = occupied[i].offset
               /\ gap.length > 0 => gap \in RangeSet
<1> DEFINE n == Len(occupied)
           start == IF i = 1 THEN 0 ELSE End(occupied[i - 1])
           end == IF i > n THEN volume ELSE occupied[i].offset
<1>1. /\ n \in Nat
      /\ \A k \in 1 .. n : occupied[k].offset \in Nat /\ End(occupied[k]) \in Nat
    BY SeparateTypes
<1>2. GapBefore(volume, occupied, i) = ByteRange(start, end - start)
    BY DEF GapBefore
<1>3. i \in 1 .. n + 1
    OBVIOUS
<1> HIDE DEF n
<1>4. start \in Nat
    BY <1>1, <1>3
<1>5. end \in Nat
    BY <1>1, <1>3
<1>6. /\ i # 1 => start = End(occupied[i - 1])
      /\ i <= n => end = occupied[i].offset
    BY <1>1, <1>3
<1> HIDE DEF start, end
<1>7. QED
    BY <1>2, <1>4, <1>5, <1>6 DEF n, ByteRange, End, RangeSet

LEMMA GapsAreFree ==
    ASSUME NEW occupied, Separate(occupied), NEW volume \in Nat, NEW X \in SUBSET RangeSet,
           \A c \in X : InsideOne(occupied, c)
    PROVE  FreeOf(Complement(volume, occupied), X)
<1> DEFINE n == Len(occupied)
           S == [offset : Nat, length : Int]
           gaps == [i \in 1 .. n + 1 |-> GapBefore(volume, occupied, i)]
           kept == {i \in DOMAIN gaps : gaps[i].length > 0}
           free == Complement(volume, occupied)
<1>1. /\ n \in Nat /\ DOMAIN occupied = 1 .. n
      /\ \A k \in 1 .. n : /\ occupied[k].offset \in Nat /\ End(occupied[k]) \in Nat
                           /\ occupied[k].offset <= End(occupied[k])
      /\ \A k, l \in 1 .. n : k < l => End(occupied[k]) <= occupied[l].offset
    BY SeparateTypes
<1>2. \A i \in 1 .. n + 1 : GapBefore(volume, occupied, i) \in S
  <2> TAKE i \in 1 .. n + 1
  <2>1. /\ GapBefore(volume, occupied, i).offset \in Nat
        /\ GapBefore(volume, occupied, i).length \in Int
    BY GapClear
  <2> QED BY <2>1 DEF GapBefore, ByteRange
<1>3. gaps \in Seq(S) /\ DOMAIN gaps = 1 .. n + 1
    BY <1>1, <1>2
<1>4. free = Kept(gaps, kept)
    BY DEF Complement, Selected
<1>5. \A i \in 1 .. n + 1 :
        /\ gaps[i].offset \in Nat
        /\ i # 1 => gaps[i].offset = End(occupied[i - 1])
        /\ i <= n => End(gaps[i]) = occupied[i].offset
        /\ gaps[i].length > 0 => gaps[i] \in RangeSet
  <2> TAKE i \in 1 .. n + 1
  <2>1. gaps[i] = GapBefore(volume, occupied, i)
    OBVIOUS
  <2> QED BY <2>1, GapClear
<1>6. kept \in SUBSET DOMAIN gaps /\ \A i \in kept : gaps[i].length > 0
    OBVIOUS
<1> HIDE DEF gaps, kept, free, n, S
<1>a. \E m, at : KeepsBy(gaps, kept, free, m, at)
    BY <1>3, <1>4, <1>6, KeptElements
<1>b. PICK m, at : KeepsBy(gaps, kept, free, m, at)
    BY <1>a
<1>7. /\ Picks(m, kept, at)
      /\ \A k, l \in 1 .. m : k < l => at[k] < at[l]
      /\ free = [k \in 1 .. m |-> gaps[at[k]]]
      /\ Len(free) = m
    BY <1>b DEF KeepsBy
<1>8. m \in Nat /\ \A k \in 1 .. m : at[k] \in 1 .. n + 1 /\ free[k] = gaps[at[k]]
                                     /\ gaps[at[k]].length > 0
    BY <1>3, <1>6, <1>7 DEF Picks
<1>9. \A k \in 1 .. m : free[k] \in RangeSet
    BY <1>5, <1>8
<1>10. free \in Seq(RangeSet)
  <2>1. free \in [1 .. m -> RangeSet]
    BY <1>7, <1>9
  <2> QED BY <1>8, <2>1
<1>11. ASSUME NEW k \in 1 .. m, NEW l \in 1 .. m, k < l
       PROVE  End(free[k]) <= free[l].offset
  <2> DEFINE i == at[k]
             j == at[l]
  <2>1. i \in 1 .. n + 1 /\ j \in 1 .. n + 1 /\ i < j /\ free[k] = gaps[i] /\ free[l] = gaps[j]
    BY <1>7, <1>8, <1>11
  <2> HIDE DEF i, j
  <2>2. i <= n /\ i \in 1 .. n /\ j # 1 /\ j - 1 \in 1 .. n /\ i <= j - 1
    BY <1>1, <2>1
  <2>3. End(gaps[i]) = occupied[i].offset /\ gaps[j].offset = End(occupied[j - 1])
    BY <1>5, <2>1, <2>2
  <2>4. occupied[i].offset <= End(occupied[j - 1])
    <3> DEFINE q == j - 1
    <3>1. i \in 1 .. n /\ q \in 1 .. n /\ (i = q \/ i < q)
        BY <2>1, <2>2
    <3> HIDE DEF q
    <3>2. occupied[i].offset <= End(occupied[q])
      <4>1. CASE i = q
        BY <1>1, <3>1, <4>1
      <4>2. CASE i < q
        <5>1. /\ End(occupied[i]) <= occupied[q].offset
              /\ occupied[i].offset <= End(occupied[i]) /\ occupied[q].offset <= End(occupied[q])
            BY <1>1, <3>1, <4>2
        <5> QED BY <1>1, <3>1, <5>1
      <4> QED BY <3>1, <4>1, <4>2
    <3> QED BY <3>2 DEF q
  <2> QED BY <2>1, <2>3, <2>4
<1>12. ASSUME NEW k \in 1 .. m, NEW c \in X PROVE Clear(free[k], c)
  <2> DEFINE i == at[k]
  <2>1. i \in 1 .. n + 1 /\ free[k] = gaps[i]
    BY <1>8
  <2>2. PICK j \in 1 .. n : occupied[j].offset <= c.offset /\ End(c) <= End(occupied[j])
    BY <1>1 DEF InsideOne
  <2>3. c.offset \in Nat /\ End(c) \in Nat
    BY RangeTypes
  <2> HIDE DEF i
  <2>4. CASE j < i
    <3> DEFINE q == i - 1
    <3>1. i # 1 /\ q \in 1 .. n /\ (j = q \/ j < q)
        BY <1>1, <2>1, <2>4
    <3>2. gaps[i].offset = End(occupied[q])
        BY <1>5, <2>1, <3>1
    <3> HIDE DEF q
    <3>3. End(occupied[j]) <= End(occupied[q])
      <4>1. CASE j = q
        BY <1>1, <3>1, <4>1
      <4>2. CASE j < q
        <5>1. End(occupied[j]) <= occupied[q].offset /\ occupied[q].offset <= End(occupied[q])
            BY <1>1, <3>1, <4>2
        <5> QED BY <1>1, <3>1, <5>1
      <4> QED BY <3>1, <4>1, <4>2
    <3>4. End(c) <= gaps[i].offset
        BY <1>1, <2>2, <2>3, <3>1, <3>2, <3>3
    <3> QED BY <2>1, <3>4 DEF Clear
  <2>5. CASE ~ (j < i)
    <3>1. i \in 1 .. n /\ i <= n /\ (i = j \/ i < j)
        BY <1>1, <2>1, <2>5
    <3>2. End(gaps[i]) = occupied[i].offset
        BY <1>5, <2>1, <3>1
    <3>3. occupied[i].offset <= occupied[j].offset
      <4>1. CASE i = j
        BY <1>1, <3>1, <4>1
      <4>2. CASE i < j
        <5>1. End(occupied[i]) <= occupied[j].offset /\ occupied[i].offset <= End(occupied[i])
            BY <1>1, <3>1, <4>2
        <5> QED BY <1>1, <3>1, <5>1
      <4> QED BY <3>1, <4>1, <4>2
    <3>4. End(gaps[i]) <= c.offset
        BY <1>1, <2>2, <2>3, <3>1, <3>2, <3>3, SMTT(60)
    <3> QED BY <2>1, <3>4 DEF Clear
  <2> QED BY <2>4, <2>5
<1>13. DOMAIN free = 1 .. m
    BY <1>7
<1>14. Separate(free)
    BY <1>10, <1>11, <1>13 DEF Separate
<1>15. QED
    BY <1>7, <1>12, <1>14 DEF FreeOf, free

-----------------------------------------------------------------------------
(* Two parts of a sequence of separate ranges.                              *)
LEMMA ConcatSeparate ==
    ASSUME NEW a, NEW b, Separate(a), Separate(b),
           \A i \in 1 .. Len(a), j \in 1 .. Len(b) : End(a[i]) <= b[j].offset
    PROVE  /\ Separate(a \o b) /\ Len(a \o b) = Len(a) + Len(b)
           /\ \A k \in 1 .. Len(a \o b) :
                 \/ \E i \in 1 .. Len(a) : (a \o b)[k] = a[i]
                 \/ \E j \in 1 .. Len(b) : (a \o b)[k] = b[j]
<1> DEFINE m == Len(a)
           n == Len(b)
           c == a \o b
<1>1. /\ a \in Seq(RangeSet) /\ m \in Nat
      /\ \A k, l \in 1 .. m : k < l => End(a[k]) <= a[l].offset
    BY SeparateTypes
<1>2. /\ b \in Seq(RangeSet) /\ n \in Nat
      /\ \A k, l \in 1 .. n : k < l => End(b[k]) <= b[l].offset
    BY SeparateTypes
<1>3. /\ c \in Seq(RangeSet) /\ Len(c) = m + n /\ DOMAIN c = 1 .. m + n
      /\ \A k \in 1 .. m : c[k] = a[k]
      /\ \A k \in m + 1 .. m + n : c[k] = b[k - m]
    BY <1>1, <1>2
<1>4. \A i \in 1 .. m, j \in 1 .. n : End(a[i]) <= b[j].offset
    OBVIOUS
<1> HIDE DEF c, m, n
<1>5. ASSUME NEW k \in 1 .. m + n, NEW l \in 1 .. m + n, k < l
      PROVE  End(c[k]) <= c[l].offset
  <2>1. CASE l <= m
    BY <1>1, <1>3, <1>5, <2>1
  <2>2. CASE k <= m /\ ~ (l <= m)
    <3>1. k \in 1 .. m /\ l - m \in 1 .. n /\ l \in m + 1 .. m + n
        BY <1>1, <1>2, <2>2
    <3> QED BY <1>3, <1>4, <3>1
  <2>3. CASE ~ (k <= m)
    <3>1. k - m \in 1 .. n /\ l - m \in 1 .. n /\ k - m < l - m
          /\ k \in m + 1 .. m + n /\ l \in m + 1 .. m + n
        BY <1>1, <1>2, <1>5, <2>3
    <3> QED BY <1>2, <1>3, <3>1
  <2> QED BY <1>1, <1>2, <1>5, <2>1, <2>2, <2>3
<1>6. ASSUME NEW k \in 1 .. m + n
      PROVE  (\E i \in 1 .. m : c[k] = a[i]) \/ (\E j \in 1 .. n : c[k] = b[j])
  <2>1. CASE k <= m
    <3>1. k \in 1 .. m
        BY <1>1, <2>1
    <3> QED BY <1>3, <3>1
  <2>2. CASE ~ (k <= m)
    <3>1. k - m \in 1 .. n /\ k \in m + 1 .. m + n
        BY <1>1, <1>2, <2>2
    <3> QED BY <1>3, <3>1
  <2> QED BY <1>1, <2>1, <2>2
<1>7. Separate(c)
    BY <1>3, <1>5 DEF Separate
<1>8. QED
    BY <1>3, <1>6, <1>7 DEF c, m, n

(* A part of a sequence of separate ranges is one.                          *)
LEMMA SliceSeparate ==
    ASSUME NEW s, Separate(s), NEW a \in Nat \ {0}, NEW b \in Nat, b <= Len(s), a <= b + 1
    PROVE  LET p == SubSeq(s, a, b)
           IN  /\ Separate(p) /\ Len(p) = b - a + 1
               /\ \A k \in 1 .. b - a + 1 : p[k] = s[a + k - 1]
<1> DEFINE p == SubSeq(s, a, b)
           n == b - a + 1
<1>1. /\ s \in Seq(RangeSet)
      /\ \A k, l \in 1 .. Len(s) : k < l => End(s[k]) <= s[l].offset
    BY SeparateTypes
<1>2. /\ p \in Seq(RangeSet) /\ Len(p) = n /\ DOMAIN p = 1 .. n
      /\ \A k \in 1 .. n : p[k] = s[a + k - 1]
    BY <1>1, Slices
<1> HIDE DEF p
<1>3. ASSUME NEW k \in 1 .. n, NEW l \in 1 .. n, k < l PROVE End(p[k]) <= p[l].offset
  <2> DEFINE i == a + k - 1
             j == a + l - 1
  <2>1. Len(s) \in Nat /\ i \in 1 .. Len(s) /\ j \in 1 .. Len(s) /\ i < j
    BY <1>1, <1>3
  <2>2. p[k] = s[i] /\ p[l] = s[j]
    BY <1>2
  <2> HIDE DEF i, j
  <2> QED BY <1>1, <2>1, <2>2
<1>4. QED
    BY <1>2, <1>3 DEF Separate, p

(* One range replaced by what is left of it.                                *)
ReplacedAt(free, p, rest) ==
    SubSeq(free, 1, p - 1) \o rest \o SubSeq(free, p + 1, Len(free))

LeftOf(rest, range) ==
    \A j \in 1 .. Len(rest) : range.offset <= rest[j].offset /\ End(rest[j]) <= End(range)

LEMMA ReplaceSeparate ==
    ASSUME NEW free, Separate(free), NEW p \in 1 .. Len(free), NEW rest, Separate(rest),
           LeftOf(rest, free[p])
    PROVE  LET new == ReplacedAt(free, p, rest)
           IN  /\ Separate(new)
               /\ \A k \in 1 .. Len(new) :
                     \/ \E j \in 1 .. Len(free) : j # p /\ new[k] = free[j]
                     \/ \E j \in 1 .. Len(rest) : new[k] = rest[j]
<1> DEFINE n == Len(free)
           u == p - 1
           v == p + 1
           left == SubSeq(free, 1, u)
           right == SubSeq(free, v, n)
           first == left \o rest
           new == ReplacedAt(free, p, rest)
<1>1. /\ n \in Nat
      /\ \A k \in 1 .. n : /\ free[k].offset \in Nat /\ End(free[k]) \in Nat
                           /\ free[k].offset <= End(free[k])
      /\ \A k, l \in 1 .. n : k < l => End(free[k]) <= free[l].offset
    BY SeparateTypes
<1>2. p \in 1 .. n
    OBVIOUS
<1>3. u \in Nat /\ u <= n /\ 1 <= u + 1 /\ v \in Nat \ {0} /\ v <= n + 1 /\ u < p /\ p < v
    BY <1>1, <1>2
<1>4. \A j \in 1 .. Len(rest) : /\ rest[j].offset \in Nat /\ End(rest[j]) \in Nat
                                /\ rest[j].offset <= End(rest[j])
                                /\ free[p].offset <= rest[j].offset
                                /\ End(rest[j]) <= End(free[p])
    BY SeparateTypes DEF LeftOf
<1>a. Len(rest) \in Nat
    BY SeparateTypes
<1> HIDE DEF n, u, v
<1>5. /\ Separate(left) /\ Len(left) = u - 1 + 1
      /\ \A k \in 1 .. u - 1 + 1 : left[k] = free[1 + k - 1]
    BY <1>3, SliceSeparate DEF n
<1>6. /\ Separate(right) /\ Len(right) = n - v + 1
      /\ \A k \in 1 .. n - v + 1 : right[k] = free[v + k - 1]
    BY <1>1, <1>3, SliceSeparate, SMTT(60) DEF n
<1> HIDE DEF left, right
<1>7. Len(left) = u /\ \A k \in 1 .. Len(left) : k \in 1 .. n /\ k < p /\ left[k] = free[k]
    BY <1>1, <1>3, <1>5, SMTT(60)
<1>8. \A k \in 1 .. Len(right) : \E j \in 1 .. n : p < j /\ right[k] = free[j]
  <2> TAKE k \in 1 .. Len(right)
  <2>1. v + k - 1 \in 1 .. n /\ p < v + k - 1 /\ right[k] = free[v + k - 1]
    BY <1>1, <1>3, <1>6, SMTT(60)
  <2> QED BY <2>1
<1>9. \A i \in 1 .. Len(left), j \in 1 .. Len(rest) : End(left[i]) <= rest[j].offset
  <2> TAKE i \in 1 .. Len(left), j \in 1 .. Len(rest)
  <2>1. End(left[i]) <= free[p].offset /\ End(left[i]) \in Nat
    BY <1>1, <1>2, <1>7
  <2>2. free[p].offset <= rest[j].offset /\ rest[j].offset \in Nat
    BY <1>4
  <2> QED BY <1>1, <1>2, <2>1, <2>2, SMTT(60)
<1>10. /\ Separate(first) /\ Len(first) = Len(left) + Len(rest)
       /\ \A k \in 1 .. Len(first) : \/ \E i \in 1 .. Len(left) : first[k] = left[i]
                                     \/ \E j \in 1 .. Len(rest) : first[k] = rest[j]
    BY <1>5, <1>9, ConcatSeparate
<1>11. new = first \o right
    BY DEF ReplacedAt, left, right, n, u, v
<1> HIDE DEF first, new
<1>12. \A i \in 1 .. Len(first), j \in 1 .. Len(right) : End(first[i]) <= right[j].offset
  <2> TAKE i \in 1 .. Len(first), j \in 1 .. Len(right)
  <2>1. PICK q \in 1 .. n : p < q /\ right[j] = free[q]
    BY <1>8
  <2>2. End(free[p]) <= free[q].offset
    BY <1>1, <1>2, <2>1
  <2>3. CASE \E k \in 1 .. Len(left) : first[i] = left[k]
    <3>1. PICK k \in 1 .. Len(left) : first[i] = left[k]
        BY <2>3
    <3>2. k \in 1 .. n /\ k < q /\ left[k] = free[k]
        BY <1>1, <1>2, <1>7, <2>1
    <3> QED BY <1>1, <2>1, <3>1, <3>2
  <2>4. CASE \E k \in 1 .. Len(rest) : first[i] = rest[k]
    <3>1. PICK k \in 1 .. Len(rest) : first[i] = rest[k]
        BY <2>4
    <3>2. End(rest[k]) <= End(free[p]) /\ End(rest[k]) \in Nat
        BY <1>4
    <3> QED BY <1>1, <1>2, <2>1, <2>2, <3>1, <3>2, SMTT(60)
  <2> QED BY <1>10, <2>3, <2>4
<1>13. /\ Separate(new) /\ Len(new) = Len(first) + Len(right)
       /\ \A k \in 1 .. Len(new) : \/ \E i \in 1 .. Len(first) : new[k] = first[i]
                                   \/ \E j \in 1 .. Len(right) : new[k] = right[j]
  <2>1. Separate(first) /\ Separate(right)
    BY <1>6, <1>10
  <2>2. /\ Separate(first \o right) /\ Len(first \o right) = Len(first) + Len(right)
        /\ \A k \in 1 .. Len(first \o right) :
              \/ \E i \in 1 .. Len(first) : (first \o right)[k] = first[i]
              \/ \E j \in 1 .. Len(right) : (first \o right)[k] = right[j]
    BY <1>12, <2>1, ConcatSeparate
  <2> QED BY <1>11, <2>2, Zenon
<1>14. ASSUME NEW k \in 1 .. Len(new)
       PROVE  \/ \E j \in 1 .. n : j # p /\ new[k] = free[j]
              \/ \E j \in 1 .. Len(rest) : new[k] = rest[j]
  <2>1. CASE \E i \in 1 .. Len(first) : new[k] = first[i]
    <3>1. PICK i \in 1 .. Len(first) : new[k] = first[i]
        BY <2>1
    <3>2. CASE \E h \in 1 .. Len(left) : first[i] = left[h]
      <4>1. PICK h \in 1 .. Len(left) : first[i] = left[h]
        BY <3>2
      <4>2. h \in 1 .. n /\ h # p /\ left[h] = free[h]
        BY <1>2, <1>7
      <4> QED BY <3>1, <4>1, <4>2
    <3>3. CASE \E h \in 1 .. Len(rest) : first[i] = rest[h]
        BY <3>1, <3>3
    <3> QED BY <1>10, <3>2, <3>3
  <2>2. CASE \E j \in 1 .. Len(right) : new[k] = right[j]
    <3>1. PICK j \in 1 .. Len(right) : new[k] = right[j]
        BY <2>2
    <3>2. PICK q \in 1 .. n : p < q /\ right[j] = free[q]
        BY <1>8
    <3>3. q # p
        BY <1>2, <3>2
    <3> QED BY <3>1, <3>2, <3>3
  <2> QED BY <1>13, <2>1, <2>2
<1>15. QED
    BY <1>13, <1>14 DEF new, n

-----------------------------------------------------------------------------
(* Rounding up to the grid.                                                 *)
LEMMA RoundedUp ==
    ASSUME NEW v \in Nat, NEW a \in Nat \ {0}
    PROVE  AlignUp(v, a) \in Nat /\ v <= AlignUp(v, a) /\ AlignUp(v, a) % a = 0
<1> DEFINE x == v + a - 1
           q == x \div a
<1>1. x \in Nat
    OBVIOUS
<1>2. AlignUp(v, a) = q * a
    BY DEF AlignUp, AlignDown
<1> HIDE DEF x
<1>3. q \in Nat /\ x = a * q + (x % a) /\ x % a \in 0 .. a - 1
    BY <1>1
<1> HIDE DEF q
<1>4. q * a = a * q /\ q * a \in Nat
    BY <1>3
<1> DEFINE y == q * a
           r == x % a
<1>5. y \in Nat /\ r \in 0 .. a - 1 /\ x = y + r /\ x = v + a - 1
    BY <1>3, <1>4 DEF x
<1> HIDE DEF y, r
<1>6. v <= y
    BY <1>5
<1>7. (q * a) % a = 0
    BY <1>3
<1>8. QED
    BY <1>2, <1>5, <1>6, <1>7 DEF y

LEMMA SingleSeparate ==
    ASSUME NEW r \in RangeSet, NEW s, s = <<>> \/ s = <<r>>
    PROVE  Separate(s) /\ \A i \in 1 .. Len(s) : s[i] = r
<1>1. CASE s = <<>>
    BY <1>1 DEF Separate
<1>2. CASE s = <<r>>
  <2>1. s \in Seq(RangeSet) /\ Len(s) = 1 /\ s[1] = r /\ DOMAIN s = 1 .. 1
    BY <1>2
  <2>2. \A k, l \in DOMAIN s : ~ (k < l)
    BY <2>1
  <2>3. Separate(s)
    BY <2>1, <2>2 DEF Separate
  <2>4. \A i \in 1 .. Len(s) : i = 1
    BY <2>1
  <2> QED BY <2>1, <2>3, <2>4
<1>3. QED
    BY <1>1, <1>2

(* What is left of a free range around the part that is taken.              *)
LEMMA RemainderFacts ==
    ASSUME NEW range \in RangeSet, NEW start \in Nat, NEW length \in Nat,
           range.offset <= start, start + length <= End(range)
    PROVE  LET rest == Remainder(range, start, length)
           IN  /\ Separate(rest) /\ LeftOf(rest, range)
               /\ \A j \in 1 .. Len(rest) : Clear(rest[j], ByteRange(start, length))
<1> DEFINE l == ByteRange(range.offset, start - range.offset)
           r == ByteRange(start + length, End(range) - (start + length))
           d == ByteRange(start, length)
           a == NonEmpty(l)
           b == NonEmpty(r)
<1>1. /\ l \in RangeSet /\ l.offset = range.offset /\ End(l) = start
      /\ r \in RangeSet /\ r.offset = start + length /\ End(r) = End(range)
      /\ d.offset = start /\ End(d) = start + length
    BY RangeTypes DEF ByteRange, End, RangeSet
<1>2. Remainder(range, start, length) = a \o b
    BY DEF Remainder
<1> HIDE DEF l, r, d
<1>3. (a = <<>> \/ a = <<l>>) /\ (b = <<>> \/ b = <<r>>)
    BY DEF NonEmpty
<1> HIDE DEF a, b
<1>4. Separate(a) /\ (\A i \in 1 .. Len(a) : a[i] = l)
    BY <1>1, <1>3, SingleSeparate
<1>5. Separate(b) /\ (\A i \in 1 .. Len(b) : b[i] = r)
    BY <1>1, <1>3, SingleSeparate
<1>6. \A i \in 1 .. Len(a), j \in 1 .. Len(b) : End(a[i]) <= b[j].offset
    BY <1>1, <1>4, <1>5
<1>7. /\ Separate(a \o b)
      /\ \A k \in 1 .. Len(a \o b) : \/ \E i \in 1 .. Len(a) : (a \o b)[k] = a[i]
                                     \/ \E j \in 1 .. Len(b) : (a \o b)[k] = b[j]
    BY <1>4, <1>5, <1>6, ConcatSeparate
<1> DEFINE c == a \o b
<1>8. \A k \in 1 .. Len(c) : c[k] = l \/ c[k] = r
    BY <1>4, <1>5, <1>7
<1> HIDE DEF c
<1>9. LeftOf(c, range)
    BY <1>1, <1>8, RangeTypes DEF LeftOf
<1>10. \A j \in 1 .. Len(c) : Clear(c[j], d)
    BY <1>1, <1>8 DEF Clear
<1>11. QED
    BY <1>2, <1>7, <1>9, <1>10 DEF c, d

(* A place on the grid and in the domain.                                   *)
GoodPlace(align, domain, d) ==
    /\ d \in RangeSet /\ d.offset % align = 0
    /\ domain.offset <= d.offset /\ End(d) <= End(domain)

(* What an allocation of one range promises.                                *)
OneTaken(a, X, d) ==
    /\ a.range = <<d>> /\ d \in RangeSet
    /\ \A c \in X : Clear(d, c)
    /\ FreeOf(a.free, X \cup {d})

LEMMA TakenFromFree ==
    ASSUME NEW free, NEW X, FreeOf(free, X), NEW p \in 1 .. Len(free),
           NEW start \in Nat, NEW length \in Nat,
           free[p].offset <= start, start + length <= End(free[p]),
           TakenFrom(free, p, start, length).error = "none"
    PROVE  OneTaken(TakenFrom(free, p, start, length), X, ByteRange(start, length))
<1> DEFINE rest == Remainder(free[p], start, length)
           d == ByteRange(start, length)
           a == TakenFrom(free, p, start, length)
           new == ReplacedAt(free, p, rest)
<1>1. Separate(free) /\ X \in SUBSET RangeSet /\ \A k \in 1 .. Len(free), c \in X : Clear(free[k], c)
    BY DEF FreeOf
<1>2. /\ \A k \in 1 .. Len(free) : /\ free[k] \in RangeSet /\ free[k].offset \in Nat
                                   /\ End(free[k]) \in Nat
      /\ \A k, l \in 1 .. Len(free) : k < l => End(free[k]) <= free[l].offset
      /\ Len(free) \in Nat
    BY <1>1, SeparateTypes
<1>3. Separate(rest) /\ LeftOf(rest, free[p]) /\ \A j \in 1 .. Len(rest) : Clear(rest[j], d)
    BY <1>2, RemainderFacts
<1>4. d \in RangeSet /\ d.offset = start /\ End(d) = start + length
    BY DEF ByteRange, RangeSet, End
<1>5. a.free = new /\ a.range = <<d>>
  <2>1. a = IF Len(rest) = 2 /\ Len(free) >= MaxFreeRanges THEN NoRange("limit", free)
            ELSE [error |-> "none", free |-> new, range |-> <<d>>]
    BY DEF TakenFrom, ReplacedAt
  <2>2. NoRange("limit", free).error # "none"
    BY DEF NoRange
  <2> HIDE DEF new, d, rest
  <2> QED BY <2>1, <2>2
<1> HIDE DEF rest, d, a
<1>6. /\ Separate(new)
      /\ \A k \in 1 .. Len(new) :
            \/ \E j \in 1 .. Len(free) : j # p /\ new[k] = free[j]
            \/ \E j \in 1 .. Len(rest) : new[k] = rest[j]
    BY <1>1, <1>3, ReplaceSeparate
<1> HIDE DEF new
<1>7. \A c \in X : c.offset \in Nat /\ End(c) \in Nat
    BY <1>1, RangeTypes
<1>8. \A c \in X : Clear(d, c)
  <2> TAKE c \in X
  <2>1. Clear(free[p], c)
    BY <1>1
  <2> QED BY <1>2, <1>4, <1>7, <2>1 DEF Clear
<1>9. \A j \in 1 .. Len(rest) : rest[j].offset \in Nat /\ End(rest[j]) \in Nat
    BY <1>3, SeparateTypes
<1>10. ASSUME NEW j \in 1 .. Len(rest), NEW c \in X PROVE Clear(rest[j], c)
  <2>1. Clear(free[p], c)
    BY <1>1
  <2>2. free[p].offset <= rest[j].offset /\ End(rest[j]) <= End(free[p])
    BY <1>3 DEF LeftOf
  <2> QED BY <1>2, <1>7, <1>9, <2>1, <2>2, SMTT(60) DEF Clear
<1>11. ASSUME NEW j \in 1 .. Len(free), j # p PROVE Clear(free[j], d)
  <2>1. CASE j < p
    <3>1. End(free[j]) <= free[p].offset
        BY <1>2, <2>1
    <3>2. End(free[j]) <= start
        BY <1>2, <3>1
    <3> QED BY <1>4, <3>2 DEF Clear
  <2>2. CASE p < j
    <3>1. End(free[p]) <= free[j].offset
        BY <1>2, <2>2
    <3>2. start + length <= free[j].offset
        BY <1>2, <3>1
    <3> QED BY <1>4, <3>2 DEF Clear
  <2> QED BY <1>2, <1>11, <2>1, <2>2
<1>12. ASSUME NEW k \in 1 .. Len(new), NEW c \in X \cup {d} PROVE Clear(new[k], c)
  <2>1. CASE \E j \in 1 .. Len(free) : j # p /\ new[k] = free[j]
    BY <1>1, <1>11, <2>1
  <2>2. CASE \E j \in 1 .. Len(rest) : new[k] = rest[j]
    BY <1>3, <1>10, <2>2
  <2> QED BY <1>6, <2>1, <2>2
<1>13. FreeOf(new, X \cup {d})
    BY <1>1, <1>4, <1>6, <1>12 DEF FreeOf
<1>14. QED
    BY <1>4, <1>5, <1>8, <1>13 DEF OneTaken, a, d

(* allocate_first_fit_aligned_within.                                       *)
LEMMA FirstFitTakes ==
    ASSUME NEW free, NEW X, FreeOf(free, X), NEW length \in Nat, NEW align \in Nat \ {0},
           NEW domain \in RangeSet,
           FirstFit(free, length, align, domain).error = "none"
    PROVE  \E d : /\ OneTaken(FirstFit(free, length, align, domain), X, d)
                  /\ GoodPlace(align, domain, d) /\ d.length = length
<1> DEFINE fitting == {i \in DOMAIN free : Fits(free[i], length, align, domain)}
           p == Min(fitting)
           start == UsableStart(free[p], align, domain)
           a == FirstFit(free, length, align, domain)
           d == ByteRange(start, length)
<1>1. /\ DOMAIN free = 1 .. Len(free) /\ Len(free) \in Nat
      /\ \A k \in 1 .. Len(free) : /\ free[k] \in RangeSet /\ free[k].offset \in Nat
                                   /\ End(free[k]) \in Nat
    BY SeparateTypes DEF FreeOf
<1>2. a = IF fitting = {} THEN NoRange("space", free) ELSE TakenFrom(free, p, start, length)
    BY DEF FirstFit
<1>3. NoRange("space", free).error # "none"
    BY DEF NoRange
<1>4. fitting # {} /\ a = TakenFrom(free, p, start, length)
  <2> HIDE DEF fitting, p, start
  <2> QED BY <1>2, <1>3
<1>5. fitting \in SUBSET Nat
    BY <1>1
<1>6. p \in 1 .. Len(free) /\ Fits(free[p], length, align, domain)
  <2>1. p \in fitting
    <3> HIDE DEF fitting
    <3> QED BY <1>4, <1>5, MinIsSmallest
  <2> QED BY <1>1, <2>1
<1> HIDE DEF fitting, p
<1> DEFINE r == free[p]
           low == IF r.offset >= domain.offset THEN r.offset ELSE domain.offset
           high == IF End(r) <= End(domain) THEN End(r) ELSE End(domain)
<1>7. /\ r.offset \in Nat /\ End(r) \in Nat /\ domain.offset \in Nat /\ End(domain) \in Nat
    BY <1>1, <1>6, RangeTypes
<1>8. Max({r.offset, domain.offset}) = low /\ Min({End(r), End(domain)}) = high
    BY <1>7, MaxOfTwo, MinOfTwo
<1>9. start = AlignUp(low, align) /\ start + length <= high
    BY <1>6, <1>8 DEF Fits, UsableStart, UsableEnd
<1>10. low \in Nat /\ high \in Nat /\ r.offset <= low /\ domain.offset <= low
       /\ high <= End(r) /\ high <= End(domain)
    BY <1>7
<1> HIDE DEF low, high
<1>11. start \in Nat /\ low <= start /\ start % align = 0
    BY <1>9, <1>10, RoundedUp
<1> HIDE DEF start
<1>12. r.offset <= start /\ start + length <= End(r) /\ domain.offset <= start
       /\ start + length <= End(domain)
    BY <1>7, <1>9, <1>10, <1>11
<1>13. OneTaken(a, X, d)
    BY <1>4, <1>6, <1>11, <1>12, TakenFromFree
<1>14. GoodPlace(align, domain, d) /\ d.length = length
    BY <1>11, <1>12 DEF GoodPlace, ByteRange, RangeSet, End
<1>15. QED
    BY <1>13, <1>14

-----------------------------------------------------------------------------
(* Several places taken one after another: each of them is clear of X and   *)
(* of the others, and what stays free is clear of them all.                 *)
InSet(s) == {s[i] : i \in 1 .. Len(s)}

PlacedIn(places, X, align, domain, free) ==
    /\ places \in Seq(RangeSet)
    /\ \A i \in 1 .. Len(places) : GoodPlace(align, domain, places[i])
    /\ \A i \in 1 .. Len(places), c \in X : Clear(places[i], c)
    /\ \A i, j \in 1 .. Len(places) : i # j => Clear(places[i], places[j])
    /\ FreeOf(free, X \cup InSet(places))

LEMMA ClearSymmetric ==
    ASSUME NEW a, NEW b, Clear(a, b)
    PROVE  Clear(b, a)
BY DEF Clear

LEMMA PlaceAnother ==
    ASSUME NEW places, NEW X, NEW align, NEW domain, NEW free,
           PlacedIn(places, X, align, domain, free),
           NEW a, NEW d, OneTaken(a, X \cup InSet(places), d), GoodPlace(align, domain, d)
    PROVE  PlacedIn(places \o <<d>>, X, align, domain, a.free)
<1> DEFINE n == Len(places)
           more == places \o <<d>>
<1>1. /\ places \in Seq(RangeSet) /\ n \in Nat
      /\ \A i \in 1 .. n : GoodPlace(align, domain, places[i])
      /\ \A i \in 1 .. n, c \in X : Clear(places[i], c)
      /\ \A i, j \in 1 .. n : i # j => Clear(places[i], places[j])
    BY DEF PlacedIn
<1>2. /\ d \in RangeSet
      /\ \A c \in X \cup InSet(places) : Clear(d, c)
      /\ FreeOf(a.free, (X \cup InSet(places)) \cup {d})
    BY DEF OneTaken
<1>3. /\ more \in Seq(RangeSet) /\ Len(more) = n + 1
      /\ \A i \in 1 .. n : more[i] = places[i]
      /\ more[n + 1] = d
    BY <1>1, <1>2
<1>4. \A i \in 1 .. n : places[i] \in InSet(places)
    BY DEF InSet
<1> HIDE DEF n, more
<1>5. \A i \in 1 .. n + 1 : i \in 1 .. n \/ i = n + 1
    BY <1>1
<1>6. InSet(more) = InSet(places) \cup {d}
  <2>1. \A i \in 1 .. n + 1 : more[i] \in InSet(places) \cup {d}
    BY <1>3, <1>4, <1>5
  <2>2. \A i \in 1 .. n : i \in 1 .. n + 1
    BY <1>1
  <2>3. n + 1 \in 1 .. n + 1
    BY <1>1
  <2> QED BY <1>3, <2>1, <2>2, <2>3 DEF InSet, n
<1>7. (X \cup InSet(places)) \cup {d} = X \cup InSet(more)
    BY <1>6
<1>8. \A i \in 1 .. n + 1 : GoodPlace(align, domain, more[i])
    BY <1>1, <1>3, <1>5
<1>9. \A i \in 1 .. n + 1, c \in X : Clear(more[i], c)
    BY <1>1, <1>2, <1>3, <1>5
<1>10. \A i, j \in 1 .. n + 1 : i # j => Clear(more[i], more[j])
  <2> TAKE i, j \in 1 .. n + 1
  <2> HAVE i # j
  <2>1. CASE i \in 1 .. n /\ j \in 1 .. n
    BY <1>1, <1>3, <2>1
  <2>2. CASE i = n + 1 /\ j \in 1 .. n
    BY <1>2, <1>3, <1>4, <2>2
  <2>3. CASE i \in 1 .. n /\ j = n + 1
    BY <1>2, <1>3, <1>4, <2>3, ClearSymmetric
  <2> QED BY <1>5, <2>1, <2>2, <2>3
<1>11. FreeOf(a.free, X \cup InSet(more))
    BY <1>2, <1>7
<1>12. QED
    BY <1>3, <1>8, <1>9, <1>10, <1>11 DEF PlacedIn, more

(* allocate_first_fit_fragmented_aligned_within, one turn at a time.        *)
FragmentState(s, X, align, domain) ==
    /\ s = [error |-> s.error, free |-> s.free, range |-> s.range, left |-> s.left]
    /\ s.error = "none" => PlacedIn(s.range, X, align, domain, s.free) /\ s.left \in Nat

LEMMA PieceLengths ==
    ASSUME NEW r \in RangeSet, NEW align \in Nat \ {0}, NEW domain \in RangeSet, NEW left \in Nat
    PROVE  LET piece == Min({UsableLength(r, align, domain), left})
           IN  piece \in Nat /\ piece <= left
<1> DEFINE low == IF r.offset >= domain.offset THEN r.offset ELSE domain.offset
           high == IF End(r) <= End(domain) THEN End(r) ELSE End(domain)
           x == AlignDown(high - AlignUp(low, align), align)
           u == IF 0 >= x THEN 0 ELSE x
<1>1. /\ r.offset \in Nat /\ End(r) \in Nat /\ domain.offset \in Nat /\ End(domain) \in Nat
    BY RangeTypes
<1>2. Max({r.offset, domain.offset}) = low /\ Min({End(r), End(domain)}) = high
    BY <1>1, MaxOfTwo, MinOfTwo
<1>3. low \in Nat /\ high \in Nat
    BY <1>1
<1>4. UsableLength(r, align, domain) = Max({0, x})
    BY <1>2 DEF UsableLength, UsableStart, UsableEnd
<1> HIDE DEF low, high
<1>5. AlignUp(low, align) \in Nat
    BY <1>3, RoundedUp
<1>6. x \in Int
  <2> DEFINE y == high - AlignUp(low, align)
  <2>1. y \in Int
    BY <1>3, <1>5
  <2> HIDE DEF y
  <2>2. AlignDown(y, align) \in Int
    BY <2>1 DEF AlignDown
  <2> QED BY <2>2 DEF y
<1> HIDE DEF x
<1>7. UsableLength(r, align, domain) = u /\ u \in Nat
    BY <1>4, <1>6, MaxOfTwo
<1> HIDE DEF u
<1>8. Min({u, left}) = IF u <= left THEN u ELSE left
    BY <1>7, MinOfTwo
<1>9. QED
    BY <1>7, <1>8

LEMMA FragmentStep ==
    ASSUME NEW s, NEW X, NEW align \in Nat \ {0}, NEW domain \in RangeSet, NEW pieces \in Nat,
           FragmentState(s, X, align, domain)
    PROVE  FragmentState(TakeFragment(align, domain, pieces, s), X, align, domain)
<1> DEFINE t == TakeFragment(align, domain, pieces, s)
           open == Open(s.free, align, domain)
           piece == Min({UsableLength(s.free[Min(open)], align, domain), s.left})
           fit == FirstFit(s.free, piece, align, domain)
           Failed(e) == [error |-> e, free |-> s.free, range |-> s.range, left |-> s.left]
<1>1. CASE s.error # "none" \/ s.left = 0
  <2>1. t = s
    BY <1>1, Zenon DEF TakeFragment
  <2> QED BY <2>1
<1>2. CASE ~ (s.error # "none" \/ s.left = 0)
  <2>1. PlacedIn(s.range, X, align, domain, s.free) /\ s.left \in Nat
    BY <1>2 DEF FragmentState
  <2>2. \A e : [s EXCEPT !.error = e] = Failed(e)
    BY DEF FragmentState
  <2>3. \A e : e # "none" => FragmentState(Failed(e), X, align, domain)
    BY DEF FragmentState
  <2>4. t = CASE open = {} -> [s EXCEPT !.error = "space"]
              [] open # {} /\ Len(s.range) = pieces -> [s EXCEPT !.error = "limit"]
              [] OTHER -> IF fit.error # "none" THEN [s EXCEPT !.error = fit.error]
                          ELSE [error |-> "none", free |-> fit.free,
                                range |-> s.range \o fit.range, left |-> s.left - piece]
    BY <1>2 DEF TakeFragment
  <2> HIDE DEF open, piece, fit, Failed, t
  <2>5. CASE open = {}
    <3>1. t = Failed("space")
        BY <2>2, <2>4, <2>5
    <3> QED BY <2>3, <3>1 DEF t
  <2>6. CASE open # {} /\ Len(s.range) = pieces
    <3>1. t = Failed("limit")
        BY <2>2, <2>4, <2>6
    <3> QED BY <2>3, <3>1 DEF t
  <2>7. CASE open # {} /\ Len(s.range) # pieces /\ fit.error # "none"
    <3>1. t = Failed(fit.error)
        BY <2>2, <2>4, <2>7
    <3> QED BY <2>3, <2>7, <3>1 DEF t
  <2>8. CASE open # {} /\ Len(s.range) # pieces /\ fit.error = "none"
    <3>1. t = [error |-> "none", free |-> fit.free, range |-> s.range \o fit.range,
               left |-> s.left - piece]
        BY <2>4, <2>8
    <3>2. FreeOf(s.free, X \cup InSet(s.range))
        BY <2>1 DEF PlacedIn
    <3>3. Separate(s.free)
        BY <3>2 DEF FreeOf
    <3>4. open \in SUBSET 1 .. Len(s.free) /\ open \in SUBSET Nat
        BY <3>3, SeparateTypes DEF open, Open
    <3>5. Min(open) \in 1 .. Len(s.free)
        BY <2>8, <3>4, MinIsSmallest
    <3>6. s.free[Min(open)] \in RangeSet
        BY <3>3, <3>5, SeparateTypes
    <3>7. piece \in Nat /\ piece <= s.left
        BY <2>1, <3>6, PieceLengths DEF piece
    <3>8. PICK d : /\ OneTaken(fit, X \cup InSet(s.range), d)
                   /\ GoodPlace(align, domain, d)
        BY <2>8, <3>2, <3>7, FirstFitTakes DEF fit
    <3>9. fit.range = <<d>>
        BY <3>8 DEF OneTaken
    <3>10. PlacedIn(s.range \o <<d>>, X, align, domain, fit.free)
        BY <2>1, <3>8, PlaceAnother
    <3>11. s.left - piece \in Nat
        BY <2>1, <3>7
    <3>12. t.error = "none" /\ t.free = fit.free /\ t.range = s.range \o <<d>>
           /\ t.left = s.left - piece
           /\ t = [error |-> t.error, free |-> t.free, range |-> t.range, left |-> t.left]
        BY <3>1, <3>9
    <3>13. FragmentState(t, X, align, domain)
        BY <3>10, <3>11, <3>12 DEF FragmentState
    <3> QED BY <3>13 DEF t
  <2> QED BY <2>5, <2>6, <2>7, <2>8
<1>3. QED
    BY <1>1, <1>2

LEMMA FragmentsTaken ==
    ASSUME NEW free, NEW X, FreeOf(free, X), NEW length \in Nat, NEW align \in Nat \ {0},
           NEW domain \in RangeSet, NEW pieces \in Int,
           FirstFitFragmented(free, length, align, domain, pieces).error = "none"
    PROVE  LET a == FirstFitFragmented(free, length, align, domain, pieces)
           IN  PlacedIn(a.range, X, align, domain, a.free)
<1> DEFINE a == FirstFitFragmented(free, length, align, domain, pieces)
           n == pieces + 1
           f == Fragments(free, length, align, domain, pieces)
           T == {k \in 0 .. n : FragmentState(f[k], X, align, domain)}
           end == f[n]
<1>1. \A e : NoRange(e, free).error = e
    BY DEF NoRange
<1>2. a = IF pieces < 1 THEN NoRange("limit", free)
          ELSE IF end.error = "none" THEN [error |-> "none", free |-> end.free, range |-> end.range]
          ELSE NoRange(end.error, free)
    BY Zenon DEF FirstFitFragmented
<1>3. ~ (pieces < 1) /\ end.error = "none"
      /\ a = [error |-> "none", free |-> end.free, range |-> end.range]
  <2> HIDE DEF end
  <2> QED BY <1>1, <1>2
<1>4. pieces \in Nat /\ n \in Nat
    BY <1>3
<1>5. /\ f[0] = NothingTaken(free, length)
      /\ \A k \in 0 .. n - 1 : f[k + 1] = TakeFragment(align, domain, pieces, f[k])
    BY <1>4, FragmentsStep
<1> HIDE DEF f, n, a
<1>6. 0 \in T
  <2> DEFINE s == NothingTaken(free, length)
  <2>1. s.error = "none" /\ s.free = free /\ s.range = <<>> /\ s.left = length
        /\ s = [error |-> s.error, free |-> s.free, range |-> s.range, left |-> s.left]
    BY DEF NothingTaken
  <2>2. InSet(<<>>) = {}
    BY DEF InSet
  <2>3. X \cup {} = X
    OBVIOUS
  <2>4. FreeOf(free, X \cup InSet(<<>>))
    BY <2>2, <2>3
  <2>5. PlacedIn(<<>>, X, align, domain, free)
    BY <2>4 DEF PlacedIn
  <2> HIDE DEF s
  <2>6. FragmentState(s, X, align, domain)
    BY <2>1, <2>5 DEF FragmentState
  <2> QED BY <1>4, <1>5, <2>6 DEF s
<1>7. ASSUME NEW k \in 0 .. n, k < n, k \in T PROVE k + 1 \in T
  <2>1. k \in 0 .. n - 1 /\ k + 1 \in 0 .. n
    BY <1>4, <1>7
  <2>2. FragmentState(f[k + 1], X, align, domain)
    BY <1>4, <1>5, <1>7, <2>1, FragmentStep
  <2> QED BY <2>1, <2>2
<1>8. \A k \in 0 .. n : k \in T
  <2> HIDE DEF T
  <2> QED BY <1>4, <1>6, <1>7, BoundedInduction
<1>9. FragmentState(end, X, align, domain)
  <2>1. n \in 0 .. n
    BY <1>4
  <2> QED BY <1>8, <2>1
<1> HIDE DEF end
<1>10. PlacedIn(end.range, X, align, domain, end.free)
    BY <1>3, <1>9 DEF FragmentState
<1>11. a.range = end.range /\ a.free = end.free
    BY <1>3
<1>12. QED
    BY <1>10, <1>11 DEF a

(* One range is a sequence of places.                                       *)
LEMMA OnePlaced ==
    ASSUME NEW X, NEW align, NEW domain, NEW a, NEW d, OneTaken(a, X, d),
           GoodPlace(align, domain, d)
    PROVE  PlacedIn(a.range, X, align, domain, a.free)
<1> DEFINE s == a.range
<1>1. s = <<d>> /\ d \in RangeSet /\ (\A c \in X : Clear(d, c)) /\ FreeOf(a.free, X \cup {d})
    BY DEF OneTaken
<1> HIDE DEF s
<1>2. s \in Seq(RangeSet) /\ Len(s) = 1 /\ s[1] = d
    BY <1>1
<1>3. 1 .. Len(s) = {1}
    BY <1>2
<1>4. InSet(s) = {d}
    BY <1>2, <1>3 DEF InSet
<1>5. QED
    BY <1>1, <1>2, <1>3, <1>4 DEF PlacedIn, s

-----------------------------------------------------------------------------
(* A layout in progress: R are its relocations and M its materializations.  *)
MoveSet == [stream : Int, logical : Int, source : RangeSet, destination : [1 .. 1 -> RangeSet]]
FreshSet == [stream : Int, destinations : Seq(RangeSet)]

Moved(R) == {R[i].destination[1] : i \in 1 .. Len(R)}
Fresh(M) == UNION {InSet(M[i].destinations) : i \in 1 .. Len(M)}

Placement(R, M, free, X, align, domain) ==
    /\ R \in Seq(MoveSet) /\ M \in Seq(FreshSet)
    /\ \A d \in Moved(R) \cup Fresh(M) :
          GoodPlace(align, domain, d) /\ \A c \in X : Clear(d, c)
    /\ \A i \in 1 .. Len(R) : R[i].destination[1].length = R[i].source.length
    /\ \A i, j \in 1 .. Len(R) : i # j => Clear(R[i].destination[1], R[j].destination[1])
    /\ \A c \in Moved(R), d \in Fresh(M) : Clear(c, d)
    /\ \A i \in 1 .. Len(M) : \A k, l \in 1 .. Len(M[i].destinations) :
          k # l => Clear(M[i].destinations[k], M[i].destinations[l])
    /\ \A i, j \in 1 .. Len(M) : i # j =>
          \A c \in InSet(M[i].destinations), d \in InSet(M[j].destinations) : Clear(c, d)
    /\ FreeOf(free, X \cup (Moved(R) \cup Fresh(M)))

(* One element more, seen from the sequence.                                *)
LEMMA Appended ==
    ASSUME NEW S, NEW s \in Seq(S), NEW e \in S
    PROVE  /\ Append(s, e) \in Seq(S) /\ Len(Append(s, e)) = Len(s) + 1
           /\ \A i \in 1 .. Len(s) : Append(s, e)[i] = s[i]
           /\ Append(s, e)[Len(s) + 1] = e
           /\ \A i \in 1 .. Len(s) + 1 : i \in 1 .. Len(s) \/ i = Len(s) + 1
           /\ 1 .. Len(s) + 1 = 1 .. Len(s) \cup {Len(s) + 1}
<1>1. Len(s) \in Nat
    OBVIOUS
<1>2. \A i \in 1 .. Len(s) + 1 : i \in 1 .. Len(s) \/ i = Len(s) + 1
    BY <1>1
<1>3. 1 .. Len(s) + 1 = 1 .. Len(s) \cup {Len(s) + 1}
    BY <1>1
<1>4. QED
    BY <1>2, <1>3

LEMMA AddMove ==
    ASSUME NEW R, NEW M, NEW free, NEW X, NEW align, NEW domain,
           Placement(R, M, free, X, align, domain),
           NEW a, NEW d, OneTaken(a, X \cup (Moved(R) \cup Fresh(M)), d),
           GoodPlace(align, domain, d),
           NEW r \in MoveSet, r.destination[1] = d, d.length = r.source.length
    PROVE  Placement(Append(R, r), M, a.free, X, align, domain)
<1> DEFINE n == Len(R)
           S == Append(R, r)
<1>1. R \in Seq(MoveSet) /\ n \in Nat
    BY DEF Placement
<1>2. /\ S \in Seq(MoveSet) /\ Len(S) = n + 1
      /\ \A i \in 1 .. n : S[i] = R[i]
      /\ S[n + 1] = r
      /\ \A i \in 1 .. n + 1 : i \in 1 .. n \/ i = n + 1
      /\ 1 .. n + 1 = 1 .. n \cup {n + 1}
    BY <1>1, Appended
<1> HIDE DEF n, S
<1>3. Moved(S) = Moved(R) \cup {d}
    BY <1>2 DEF Moved, n
<1>4. /\ \A c \in X \cup (Moved(R) \cup Fresh(M)) : Clear(d, c)
      /\ FreeOf(a.free, (X \cup (Moved(R) \cup Fresh(M))) \cup {d})
    BY DEF OneTaken
<1>5. (X \cup (Moved(R) \cup Fresh(M))) \cup {d} = X \cup (Moved(S) \cup Fresh(M))
    BY <1>3
<1>6. \A i \in 1 .. n : R[i].destination[1] \in Moved(R)
    BY DEF Moved, n
<1>7. \A i, j \in 1 .. n + 1 : i # j => Clear(S[i].destination[1], S[j].destination[1])
  <2> TAKE i, j \in 1 .. n + 1
  <2> HAVE i # j
  <2>1. CASE i \in 1 .. n /\ j \in 1 .. n
    BY <1>2, <2>1 DEF Placement, n
  <2>2. CASE i = n + 1 /\ j \in 1 .. n
    BY <1>2, <1>4, <1>6, <2>2
  <2>3. CASE i \in 1 .. n /\ j = n + 1
    BY <1>2, <1>4, <1>6, <2>3, ClearSymmetric
  <2> QED BY <1>2, <2>1, <2>2, <2>3
<1>8. \A i \in 1 .. n + 1 : S[i].destination[1].length = S[i].source.length
  <2> TAKE i \in 1 .. n + 1
  <2>1. CASE i \in 1 .. n
    BY <1>2, <2>1 DEF Placement, n
  <2>2. CASE i = n + 1
    BY <1>2, <2>2
  <2> QED BY <1>2, <2>1, <2>2
<1>9. \A c \in Moved(S), e \in Fresh(M) : Clear(c, e)
    BY <1>3, <1>4 DEF Placement
<1>10. \A e \in Moved(S) \cup Fresh(M) : GoodPlace(align, domain, e) /\ \A c \in X : Clear(e, c)
    BY <1>3, <1>4 DEF Placement
<1>11. FreeOf(a.free, X \cup (Moved(S) \cup Fresh(M)))
    BY <1>4, <1>5
<1>12. /\ M \in Seq(FreshSet)
       /\ \A i \in 1 .. Len(M) : \A k, l \in 1 .. Len(M[i].destinations) :
             k # l => Clear(M[i].destinations[k], M[i].destinations[l])
       /\ \A i, j \in 1 .. Len(M) : i # j =>
             \A c \in InSet(M[i].destinations), e \in InSet(M[j].destinations) : Clear(c, e)
    BY DEF Placement
<1>13. QED
    BY <1>2, <1>7, <1>8, <1>9, <1>10, <1>11, <1>12 DEF Placement, S

LEMMA AddFresh ==
    ASSUME NEW R, NEW M, NEW free, NEW X, NEW align, NEW domain,
           Placement(R, M, free, X, align, domain),
           NEW left, NEW m \in FreshSet,
           PlacedIn(m.destinations, X \cup (Moved(R) \cup Fresh(M)), align, domain, left)
    PROVE  Placement(R, Append(M, m), left, X, align, domain)
<1> DEFINE n == Len(M)
           N == Append(M, m)
           P == m.destinations
<1>1. M \in Seq(FreshSet) /\ n \in Nat
    BY DEF Placement
<1>2. /\ N \in Seq(FreshSet) /\ Len(N) = n + 1
      /\ \A i \in 1 .. n : N[i] = M[i]
      /\ N[n + 1] = m
      /\ \A i \in 1 .. n + 1 : i \in 1 .. n \/ i = n + 1
      /\ 1 .. n + 1 = 1 .. n \cup {n + 1}
    BY <1>1, Appended
<1>a. N[n + 1].destinations = P /\ \A i \in 1 .. n : N[i].destinations = M[i].destinations
    BY <1>2
<1> HIDE DEF n, N
<1>3. Fresh(N) = Fresh(M) \cup InSet(P)
  <2>1. Fresh(N) = UNION {InSet(N[i].destinations) : i \in 1 .. n \cup {n + 1}}
    BY <1>2 DEF Fresh
  <2> QED BY <1>a, <2>1, ZenonT(60) DEF Fresh, n
<1>4. /\ \A i \in 1 .. Len(P) : GoodPlace(align, domain, P[i])
      /\ \A i \in 1 .. Len(P), c \in X \cup (Moved(R) \cup Fresh(M)) : Clear(P[i], c)
      /\ \A i, j \in 1 .. Len(P) : i # j => Clear(P[i], P[j])
      /\ FreeOf(left, (X \cup (Moved(R) \cup Fresh(M))) \cup InSet(P))
    BY DEF PlacedIn
<1> HIDE DEF P
<1>5. \A e \in InSet(P) : /\ GoodPlace(align, domain, e)
                          /\ \A c \in X \cup (Moved(R) \cup Fresh(M)) : Clear(e, c)
    BY <1>4 DEF InSet
<1>6. (X \cup (Moved(R) \cup Fresh(M))) \cup InSet(P) = X \cup (Moved(R) \cup Fresh(N))
    BY <1>3
<1>7. \A i \in 1 .. n : InSet(M[i].destinations) \subseteq Fresh(M)
    BY DEF Fresh, n
<1>8. \A i, j \in 1 .. n + 1 : i # j =>
         \A c \in InSet(N[i].destinations), e \in InSet(N[j].destinations) : Clear(c, e)
  <2> TAKE i, j \in 1 .. n + 1
  <2> HAVE i # j
  <2>1. CASE i \in 1 .. n /\ j \in 1 .. n
    BY <1>a, <2>1 DEF Placement, n
  <2>2. CASE i = n + 1 /\ j \in 1 .. n
    BY <1>a, <1>5, <1>7, <2>2
  <2>3. CASE i \in 1 .. n /\ j = n + 1
    <3>1. \A c \in InSet(M[i].destinations), e \in InSet(P) : Clear(e, c)
        BY <1>5, <1>7, <2>3
    <3>2. \A c \in InSet(M[i].destinations), e \in InSet(P) : Clear(c, e)
        BY <3>1, ClearSymmetric
    <3> QED BY <1>a, <2>3, <3>2
  <2> QED BY <1>2, <2>1, <2>2, <2>3
<1>9. \A i \in 1 .. n + 1 : \A k, l \in 1 .. Len(N[i].destinations) :
          k # l => Clear(N[i].destinations[k], N[i].destinations[l])
  <2> TAKE i \in 1 .. n + 1
  <2>1. CASE i \in 1 .. n
    BY <1>a, <2>1 DEF Placement, n
  <2>2. CASE i = n + 1
    BY <1>a, <1>4, <2>2
  <2> QED BY <1>2, <2>1, <2>2
<1>10. \A c \in Moved(R), e \in Fresh(N) : Clear(c, e)
  <2>1. \A c \in Moved(R), e \in InSet(P) : Clear(e, c)
    BY <1>5
  <2>2. \A c \in Moved(R), e \in InSet(P) : Clear(c, e)
    BY <2>1, ClearSymmetric
  <2> QED BY <1>3, <2>2 DEF Placement
<1>11. \A e \in Moved(R) \cup Fresh(N) : GoodPlace(align, domain, e) /\ \A c \in X : Clear(e, c)
    BY <1>3, <1>5 DEF Placement
<1>12. FreeOf(left, X \cup (Moved(R) \cup Fresh(N)))
    BY <1>4, <1>6
<1>13. /\ R \in Seq(MoveSet)
       /\ \A i \in 1 .. Len(R) : R[i].destination[1].length = R[i].source.length
       /\ \A i, j \in 1 .. Len(R) : i # j => Clear(R[i].destination[1], R[j].destination[1])
    BY DEF Placement
<1>14. QED
    BY <1>2, <1>8, <1>9, <1>10, <1>11, <1>12, <1>13 DEF Placement, N

-----------------------------------------------------------------------------
(* The solver, step by step: as long as there is no error, what it has      *)
(* placed so far is a placement around X.                                   *)
SolutionState(s, X, in) ==
    /\ s = [error |-> s.error, free |-> s.free, relocations |-> s.relocations,
            materializations |-> s.materializations]
    /\ s.error = "none" => Placement(s.relocations, s.materializations, s.free, X,
                                     in.align, in.domain)

LEMMA RoomIsInteger ==
    ASSUME NEW s, s.relocations \in Seq(MoveSet), s.materializations \in Seq(FreshSet),
           NEW fragmented \in BOOLEAN
    PROVE  Room(s, fragmented) \in Int
<1> DEFINE M == s.materializations
           R == s.relocations
           numbers == [i \in DOMAIN M |-> Len(M[i].destinations)]
<1>1. M \in Seq(FreshSet) /\ R \in Seq(MoveSet)
    OBVIOUS
<1>2. Pieces(s) = Total(numbers)
    BY DEF Pieces, SumOf
<1>3. Room(s, fragmented) = MaxRelocations - Pieces(s) - (IF fragmented THEN Len(R) ELSE 0)
    BY DEF Room
<1> HIDE DEF M, R
<1>4. \A i \in DOMAIN M : M[i] \in FreshSet
    BY <1>1
<1>5. \A m \in FreshSet : Len(m.destinations) \in Nat
    BY DEF FreshSet
<1>6. \A i \in DOMAIN M : Len(M[i].destinations) \in Nat
    BY <1>4, <1>5
<1>7. DOMAIN M = 1 .. Len(M) /\ Len(M) \in Nat /\ Len(R) \in Nat
    BY <1>1
<1>8. numbers \in [1 .. Len(M) -> Nat]
    BY <1>6, <1>7
<1> HIDE DEF numbers
<1>9. Total(numbers) \in Nat
  <2>1. numbers \in Seq(Nat)
    BY <1>7, <1>8
  <2> QED BY <2>1, TotalIsNatural
<1>10. QED
    BY <1>2, <1>3, <1>7, <1>9, GeometryAssumption

LEMMA RequestStep ==
    ASSUME NEW in, InputTyped(in), NEW X, NEW s, SolutionState(s, X, in),
           NEW request \in RequestSet, NEW fragmented \in BOOLEAN
    PROVE  SolutionState(AllocateRequest(in, fragmented, s, request), X, in)
<1> DEFINE t == AllocateRequest(in, fragmented, s, request)
           R == s.relocations
           M == s.materializations
           room == Room(s, fragmented)
           a == IF fragmented
                THEN FirstFitFragmented(s.free, request.length, in.align, in.domain, room)
                ELSE FirstFit(s.free, request.length, in.align, in.domain)
           m == [stream |-> request.stream, destinations |-> a.range]
           Y == X \cup (Moved(R) \cup Fresh(M))
<1>1. CASE s.error # "none"
  <2>1. t = s
    BY <1>1 DEF AllocateRequest
  <2> QED BY <2>1
<1>2. CASE s.error = "none"
  <2>1. Placement(R, M, s.free, X, in.align, in.domain)
    BY <1>2 DEF SolutionState
  <2>4. t = [error |-> a.error, free |-> a.free, relocations |-> R,
             materializations |-> Append(M, m)]
    BY <1>2, Zenon DEF AllocateRequest, WithMaterialization
  <2> HIDE DEF a, m, R, M, t
  <2>5. /\ t.error = a.error /\ t.free = a.free /\ t.relocations = R
        /\ t.materializations = Append(M, m)
        /\ t = [error |-> t.error, free |-> t.free, relocations |-> t.relocations,
                materializations |-> t.materializations]
    BY <2>4
  <2>6. ASSUME a.error = "none"
        PROVE  Placement(R, Append(M, m), a.free, X, in.align, in.domain)
    <3>1. FreeOf(s.free, Y)
        BY <2>1 DEF Placement
    <3>2. in.align \in Nat \ {0} /\ in.domain \in RangeSet
        BY DEF InputTyped
    <3>3. request.length \in Nat /\ request.stream \in Int
        BY DEF RequestSet
    <3> HIDE DEF Y
    <3>4. PlacedIn(a.range, Y, in.align, in.domain, a.free)
      <4>1. CASE fragmented
        <5>1. a = FirstFitFragmented(s.free, request.length, in.align, in.domain, room)
            BY <4>1 DEF a
        <5>2. room \in Int
            BY <2>1, RoomIsInteger DEF Placement, R, M
        <5> HIDE DEF room
        <5> QED BY <2>6, <3>1, <3>2, <3>3, <5>1, <5>2, FragmentsTaken
      <4>2. CASE ~fragmented
        <5>1. a = FirstFit(s.free, request.length, in.align, in.domain)
            BY <4>2 DEF a
        <5>2. PICK d : OneTaken(a, Y, d) /\ GoodPlace(in.align, in.domain, d)
            BY <2>6, <3>1, <3>2, <3>3, <5>1, FirstFitTakes
        <5> QED BY <5>2, OnePlaced
      <4> QED BY <4>1, <4>2
    <3>5. m.destinations = a.range
        BY DEF m
    <3>6. a.range \in Seq(RangeSet)
        BY <3>4 DEF PlacedIn
    <3>7. m \in FreshSet
        BY <3>3, <3>6 DEF m, FreshSet
    <3> QED BY <2>1, <3>4, <3>5, <3>7, AddFresh DEF Y
  <2>7. SolutionState(t, X, in)
    BY <2>5, <2>6 DEF SolutionState
  <2> QED BY <2>7 DEF t
<1>3. QED
    BY <1>1, <1>2

LEMMA ConflictStep ==
    ASSUME NEW in, InputTyped(in), NEW X, NEW s, SolutionState(s, X, in),
           NEW allocation \in AllocationSet
    PROVE  SolutionState(RelocateConflict(in, s, allocation), X, in)
<1> DEFINE t == RelocateConflict(in, s, allocation)
           R == s.relocations
           M == s.materializations
           a == FirstFit(s.free, allocation.range.length, in.align, in.domain)
           r == [stream |-> allocation.stream, logical |-> allocation.logical,
                 source |-> allocation.range, destination |-> a.range]
           Y == X \cup (Moved(R) \cup Fresh(M))
<1>1. CASE s.error # "none"
  <2>1. t = s
    BY <1>1 DEF RelocateConflict
  <2> QED BY <2>1
<1>2. CASE s.error = "none"
  <2>1. Placement(R, M, s.free, X, in.align, in.domain)
    BY <1>2 DEF SolutionState
  <2>4. t = [error |-> a.error, free |-> a.free, materializations |-> M,
             relocations |-> Append(R, r)]
    BY <1>2, Zenon DEF RelocateConflict, WithRelocation
  <2> HIDE DEF a, r, R, M, t
  <2>5. /\ t.error = a.error /\ t.free = a.free /\ t.relocations = Append(R, r)
        /\ t.materializations = M
        /\ t = [error |-> t.error, free |-> t.free, relocations |-> t.relocations,
                materializations |-> t.materializations]
    BY <2>4
  <2>6. ASSUME a.error = "none"
        PROVE  Placement(Append(R, r), M, a.free, X, in.align, in.domain)
    <3>1. FreeOf(s.free, Y)
        BY <2>1 DEF Placement
    <3>2. in.align \in Nat \ {0} /\ in.domain \in RangeSet
        BY DEF InputTyped
    <3>3. allocation.range \in RangeSet /\ allocation.stream \in Int /\ allocation.logical \in Int
        BY DEF AllocationSet
    <3>4. allocation.range.length \in Nat
        BY <3>3, RangeTypes
    <3> HIDE DEF Y
    <3>5. PICK d : /\ OneTaken(a, Y, d) /\ GoodPlace(in.align, in.domain, d)
                   /\ d.length = allocation.range.length
        BY <2>6, <3>1, <3>2, <3>4, FirstFitTakes DEF a
    <3>6. a.range = <<d>> /\ d \in RangeSet
        BY <3>5 DEF OneTaken
    <3>7. a.range \in [1 .. 1 -> RangeSet] /\ a.range[1] = d
        BY <3>6
    <3>8. r \in MoveSet /\ r.destination[1] = d /\ r.source = allocation.range
        BY <3>3, <3>7 DEF r, MoveSet
    <3> QED BY <2>1, <3>5, <3>8, AddMove DEF Y
  <2>7. SolutionState(t, X, in)
    BY <2>5, <2>6 DEF SolutionState
  <2> QED BY <2>7 DEF t
<1>3. QED
    BY <1>1, <1>2

LEMMA RequestsPlaced ==
    ASSUME NEW in, InputTyped(in), NEW X, NEW s, SolutionState(s, X, in),
           NEW fragmented \in BOOLEAN
    PROVE  SolutionState(AllocateMaterializations(in, s, fragmented), X, in)
<1> DEFINE q == in.requests
           n == Len(q)
           f == AfterRequests(in, s, fragmented)
           T == {k \in 0 .. n : SolutionState(f[k], X, in)}
<1>1. q \in Seq(RequestSet)
    BY DEF InputTyped
<1>2. n \in Nat /\ \A k \in 1 .. n : q[k] \in RequestSet
    BY <1>1
<1>3. f[0] = s /\ \A k \in 0 .. n - 1 : f[k + 1] = AllocateRequest(in, fragmented, f[k], q[k + 1])
  <2>1. n = Len(in.requests)
    OBVIOUS
  <2> HIDE DEF n
  <2>2. RequestTurns(in, s, fragmented, n, f)
    BY <1>2, <2>1, RequestsStep
  <2> QED BY <2>2 DEF RequestTurns
<1> HIDE DEF q, n, f
<1>4. 0 \in T
    BY <1>2, <1>3
<1>5. ASSUME NEW k \in 0 .. n, k < n, k \in T PROVE k + 1 \in T
  <2>1. k \in 0 .. n - 1 /\ k + 1 \in 1 .. n /\ k + 1 \in 0 .. n
    BY <1>2, <1>5
  <2>2. SolutionState(f[k + 1], X, in)
    BY <1>2, <1>3, <1>5, <2>1, RequestStep
  <2> QED BY <2>1, <2>2
<1>6. \A k \in 0 .. n : k \in T
  <2> HIDE DEF T
  <2> QED BY <1>2, <1>4, <1>5, BoundedInduction
<1>7. n \in 0 .. n
    BY <1>2
<1>8. QED
    BY <1>6, <1>7 DEF AllocateMaterializations, f, n, q

LEMMA ConflictsPlaced ==
    ASSUME NEW in, InputTyped(in), NEW X, NEW s, SolutionState(s, X, in),
           NEW conflicts \in Seq(AllocationSet)
    PROVE  SolutionState(AllocateRelocations(in, s, conflicts), X, in)
<1> DEFINE n == Len(conflicts)
           f == AfterConflicts(in, s, conflicts)
           T == {k \in 0 .. n : SolutionState(f[k], X, in)}
<1>2. n \in Nat /\ \A k \in 1 .. n : conflicts[k] \in AllocationSet
    OBVIOUS
<1>3. f[0] = s /\ \A k \in 0 .. n - 1 : f[k + 1] = RelocateConflict(in, f[k], conflicts[k + 1])
  <2>1. n = Len(conflicts)
    OBVIOUS
  <2> HIDE DEF n
  <2>2. ConflictTurns(in, s, conflicts, n, f)
    BY <1>2, <2>1, ConflictsStep
  <2> QED BY <2>2 DEF ConflictTurns
<1> HIDE DEF n, f
<1>4. 0 \in T
    BY <1>2, <1>3
<1>5. ASSUME NEW k \in 0 .. n, k < n, k \in T PROVE k + 1 \in T
  <2>1. k \in 0 .. n - 1 /\ k + 1 \in 1 .. n /\ k + 1 \in 0 .. n
    BY <1>2, <1>5
  <2>2. SolutionState(f[k + 1], X, in)
    BY <1>2, <1>3, <1>5, <2>1, ConflictStep
  <2> QED BY <2>1, <2>2
<1>6. \A k \in 0 .. n : k \in T
  <2> HIDE DEF T
  <2> QED BY <1>2, <1>4, <1>5, BoundedInduction
<1>7. n \in 0 .. n
    BY <1>2
<1>8. QED
    BY <1>6, <1>7 DEF AllocateRelocations, f, n

-----------------------------------------------------------------------------
(* A solution that fails makes no promise.                                  *)
LEMMA FailedSolution ==
    ASSUME NEW in, NEW X, NEW s, SolutionState(s, X, in), NEW e, e # "none"
    PROVE  SolutionState([s EXCEPT !.error = e], X, in) /\ [s EXCEPT !.error = e].error = e
<1> DEFINE t == [s EXCEPT !.error = e]
<1>1. s = [error |-> s.error, free |-> s.free, relocations |-> s.relocations,
           materializations |-> s.materializations]
    BY DEF SolutionState
<1>2. t = [error |-> e, free |-> s.free, relocations |-> s.relocations,
           materializations |-> s.materializations]
    BY <1>1
<1>3. /\ t.error = e
      /\ t = [error |-> t.error, free |-> t.free, relocations |-> t.relocations,
              materializations |-> t.materializations]
  <2> HIDE DEF t
  <2> QED BY <1>2
<1> HIDE DEF t
<1>4. QED
    BY <1>3 DEF SolutionState, t

(* The conflicts are some of the source's allocations.                      *)
LEMMA SortedAllocations ==
    ASSUME NEW seq \in Seq(AllocationSet)
    PROVE  SortedBy(seq, At) \in Seq(AllocationSet)
<1> DEFINE offset == [i \in DOMAIN seq |-> seq[i].range.offset]
           keys == [i \in DOMAIN seq |-> <<offset[i]>>]
<1>1. \A i \in DOMAIN seq : seq[i] \in AllocationSet
    OBVIOUS
<1>2. \A a \in AllocationSet : a.range \in RangeSet
    BY DEF AllocationSet
<1>3. \A i \in DOMAIN seq : seq[i].range.offset \in Int
    BY <1>1, <1>2, RangeTypes
<1>4. offset \in [DOMAIN seq -> Int]
    BY <1>3
<1>5. keys = [i \in DOMAIN seq |-> <<seq[i].range.offset>>]
    OBVIOUS
<1>6. SortedBy(seq, At) = Arranged(seq, keys)
  <2> HIDE DEF keys
  <2> QED BY <1>5 DEF SortedBy, SortedOn, At
<1> HIDE DEF offset
<1>7. \A i \in DOMAIN seq : <<offset[i]>> \in [1 .. 1 -> Int]
    BY <1>4
<1>8. /\ keys \in [DOMAIN seq -> [1 .. 1 -> Int]]
      /\ \A i \in DOMAIN seq : keys[i] = <<offset[i]>>
    BY <1>7
<1> HIDE DEF keys
<1>9. QED
    BY <1>4, <1>6, <1>8, SortedByOffset

LEMMA ConflictsTyped ==
    ASSUME NEW in, InputTyped(in)
    PROVE  Conflicts(in) \in Seq(AllocationSet)
<1> DEFINE seq == SortedBy(in.source, At)
           kept == {i \in DOMAIN seq : Misplaced(in, seq[i]) \/ Reserved(in, seq[i])}
<1>1. in.source \in Seq(AllocationSet)
    BY DEF InputTyped
<1>2. seq \in Seq(AllocationSet)
    BY <1>1, SortedAllocations
<1>3. Conflicts(in) = Kept(seq, kept)
    BY DEF Conflicts, Selected
<1>4. kept \in SUBSET DOMAIN seq
    OBVIOUS
<1> HIDE DEF seq, kept
<1>5. QED
    BY <1>2, <1>3, <1>4, KeptElements

LEMMA RelocationsFirstPlaced ==
    ASSUME NEW in, InputTyped(in), NEW X, NEW start, SolutionState(start, X, in),
           NEW conflicts \in Seq(AllocationSet)
    PROVE  SolutionState(RelocationsFirst(in, start, conflicts), X, in)
<1>1. SolutionState(AllocateRelocations(in, start, conflicts), X, in)
    BY ConflictsPlaced
<1>2. QED
    BY <1>1, RequestsPlaced DEF RelocationsFirst

LEMMA WorkCapKeeps ==
    ASSUME NEW in, NEW X, NEW s, SolutionState(s, X, in), NEW conflicts
    PROVE  SolutionState(WithinWorkCap(s, conflicts), X, in)
BY FailedSolution DEF WithinWorkCap

LEMMA ContiguousFirstPlaced ==
    ASSUME NEW in, InputTyped(in), NEW X, NEW start, SolutionState(start, X, in),
           NEW conflicts \in Seq(AllocationSet), NEW trial, SolutionState(trial, X, in)
    PROVE  SolutionState(ContiguousFirst(in, start, conflicts, trial), X, in)
<1> DEFINE capped == WithinWorkCap(trial, conflicts)
           contiguous == AllocateRelocations(in, capped, conflicts)
           turned == RelocationsFirst(in, start, conflicts)
<1>1. SolutionState([start EXCEPT !.error = "limit"], X, in)
    BY FailedSolution
<1>2. SolutionState(capped, X, in)
    BY WorkCapKeeps
<1>3. SolutionState(contiguous, X, in)
    BY <1>2, ConflictsPlaced
<1>4. SolutionState(turned, X, in)
    BY RelocationsFirstPlaced
<1>5. ContiguousFirst(in, start, conflicts, trial) =
        IF trial.error = "limit" THEN [start EXCEPT !.error = "limit"]
        ELSE IF trial.error = "space" \/ contiguous.error = "space" THEN turned ELSE contiguous
    BY DEF ContiguousFirst
<1> HIDE DEF contiguous, turned
<1>6. CASE trial.error = "limit"
    BY <1>1, <1>5, <1>6, Zenon
<1>7. CASE trial.error # "limit" /\ (trial.error = "space" \/ contiguous.error = "space")
    BY <1>4, <1>5, <1>7, Zenon
<1>8. CASE trial.error # "limit" /\ ~ (trial.error = "space" \/ contiguous.error = "space")
    BY <1>3, <1>5, <1>8, Zenon
<1>9. QED
    BY <1>6, <1>7, <1>8

(* Every range that is occupied before activation.                          *)
Occupied(in) == {r \in RangeSet : IsOccupied(in, r)}

LEMMA SolvedIn ==
    ASSUME NEW in, InputTyped(in), NEW conflicts \in Seq(AllocationSet), NEW occupied, NEW free,
           FreeOf(free, Occupied(in))
    PROVE  SolutionState(SolveIn(in, conflicts, occupied, free), Occupied(in), in)
<1> DEFINE X == Occupied(in)
           start == [error |-> "none", free |-> free, relocations |-> <<>>,
                     materializations |-> <<>>]
           trial == AllocateMaterializations(in, start, FALSE)
           solved == ContiguousFirst(in, start, conflicts, trial)
<1>1. Moved(<<>>) = {} /\ Fresh(<<>>) = {}
    BY DEF Moved, Fresh
<1>2. X \cup (Moved(<<>>) \cup Fresh(<<>>)) = X
    BY <1>1
<1>3. Placement(<<>>, <<>>, free, X, in.align, in.domain)
  <2> HIDE DEF X
  <2>1. <<>> \in Seq(MoveSet) /\ <<>> \in Seq(FreshSet) /\ Len(<<>>) = 0 /\ 1 .. 0 = {}
    OBVIOUS
  <2>2. FreeOf(free, X \cup (Moved(<<>>) \cup Fresh(<<>>)))
    BY <1>2 DEF X
  <2> QED BY <1>1, <2>1, <2>2 DEF Placement
<1>4. /\ start.error = "none" /\ start.free = free /\ start.relocations = <<>>
      /\ start.materializations = <<>>
      /\ start = [error |-> start.error, free |-> start.free, relocations |-> start.relocations,
                  materializations |-> start.materializations]
    OBVIOUS
<1>a. SolveIn(in, conflicts, occupied, free) =
        CASE ~ValidInput(in) -> [start EXCEPT !.error = "invalid"]
          [] ConflictError(conflicts) # "none" -> [start EXCEPT !.error = ConflictError(conflicts)]
          [] Len(occupied) > MaxFreeRanges \/ Len(free) > MaxFreeRanges ->
                [start EXCEPT !.error = "limit"]
          [] OTHER -> solved
    BY DEF SolveIn
<1> HIDE DEF start
<1>5. SolutionState(start, X, in)
    BY <1>3, <1>4 DEF SolutionState
<1> HIDE DEF X
<1>6. SolutionState(trial, X, in)
    BY <1>5, RequestsPlaced
<1>7. SolutionState(solved, X, in)
    BY <1>5, <1>6, ContiguousFirstPlaced
<1>8. \A e : e # "none" => SolutionState([start EXCEPT !.error = e], X, in)
    BY <1>5, FailedSolution
<1>9. /\ SolutionState([start EXCEPT !.error = "invalid"], X, in)
      /\ SolutionState([start EXCEPT !.error = "limit"], X, in)
      /\ ConflictError(conflicts) # "none" =>
            SolutionState([start EXCEPT !.error = ConflictError(conflicts)], X, in)
    BY <1>8
<1> HIDE DEF solved
<1>10. SolutionState(SolveIn(in, conflicts, occupied, free), X, in)
    BY <1>7, <1>9, <1>a
<1>11. QED
    BY <1>10 DEF X

LEMMA SolverState ==
    ASSUME NEW in, InputTyped(in)
    PROVE  SolutionState(SolveLayout(in), Occupied(in), in)
<1> DEFINE occupied == UnionOccupied(in)
           free == Complement(in.volume, occupied)
<1>1. Separate(occupied) /\ \A r : IsOccupied(in, r) => InsideOne(occupied, r)
    BY UnionCovers
<1>2. Occupied(in) \in SUBSET RangeSet /\ \A c \in Occupied(in) : InsideOne(occupied, c)
    BY <1>1 DEF Occupied
<1>3. in.volume \in Nat
    BY DEF InputTyped
<1>4. FreeOf(free, Occupied(in))
    BY <1>1, <1>2, <1>3, GapsAreFree
<1>5. Conflicts(in) \in Seq(AllocationSet)
    BY ConflictsTyped
<1>6. SolveLayout(in) = SolveIn(in, Conflicts(in), occupied, free)
    BY DEF SolveLayout
<1> HIDE DEF occupied, free
<1>7. QED
    BY <1>4, <1>5, <1>6, SolvedIn

(* geometry.rs, solve_layout: for every volume, every source, every list of *)
(* reservations and exclusions and every list of requests, what the solver  *)
(* returns without an error puts nothing where anything is. Each range it   *)
(* hands out lies on the destination's grid and in its domain, is clear of  *)
(* every range of the source, of every reservation and of every exclusion,  *)
(* and of every other range it hands out; a relocation gets as much as it   *)
(* moves.                                                                   *)
THEOREM SolverPlacesApart ==
    ASSUME NEW in, InputTyped(in), SolveLayout(in).error = "none"
    PROVE  LET solved == SolveLayout(in)
           IN  Placement(solved.relocations, solved.materializations, solved.free,
                         Occupied(in), in.align, in.domain)
<1> DEFINE solved == SolveLayout(in)
<1>1. SolutionState(solved, Occupied(in), in)
    BY SolverState
<1>2. solved.error = "none"
    OBVIOUS
<1> HIDE DEF solved
<1>3. Placement(solved.relocations, solved.materializations, solved.free,
                Occupied(in), in.align, in.domain)
    BY <1>1, <1>2 DEF SolutionState
<1>4. QED
    BY <1>3 DEF solved

-----------------------------------------------------------------------------
(* What is flattened are the elements of the parts.                         *)
LEMMA FlattenTyped ==
    ASSUME NEW S, NEW ss \in Seq(Seq(S))
    PROVE  FlattenSeq(ss) \in Seq(S)
<1> DEFINE n == Len(ss)
           Is(m, f) == f = [i \in 1 .. m |-> IF i = 1 THEN ss[i] ELSE f[i - 1] \o ss[i]]
           T == {m \in Nat : \E f : Is(m, f)}
           w == CHOOSE f : Is(n, f)
<1>1. n \in Nat /\ \A i \in 1 .. n : ss[i] \in Seq(S)
    OBVIOUS
<1>2. T = Nat
  <2>1. 0 \in T
    <3> DEFINE f == [i \in 1 .. 0 |-> ss[i]]
    <3>1. Is(0, f)
        OBVIOUS
    <3> QED BY <3>1
  <2>2. ASSUME NEW m \in T PROVE m + 1 \in T
    <3>1. PICK f : Is(m, f)
        OBVIOUS
    <3> DEFINE x == IF m = 0 THEN ss[1] ELSE f[m] \o ss[m + 1]
               g == [i \in 1 .. (m + 1) |-> IF i <= m THEN f[i] ELSE x]
    <3>2. ASSUME NEW i \in 1 .. (m + 1)
          PROVE  g[i] = IF i = 1 THEN ss[i] ELSE g[i - 1] \o ss[i]
      <4>1. CASE i <= m /\ i = 1
        BY <3>1, <4>1
      <4>2. CASE i <= m /\ i # 1
        <5>1. g[i] = f[i] /\ i \in 1 .. m /\ g[i - 1] = f[i - 1]
            BY <4>2
        <5> QED BY <3>1, <4>2, <5>1
      <4>3. CASE ~ (i <= m)
        <5>1. i = m + 1 /\ g[i] = x
            BY <4>3
        <5>2. m # 0 => g[i - 1] = f[m] /\ i # 1
            BY <5>1
        <5> QED BY <5>1, <5>2
      <4> QED BY <4>1, <4>2, <4>3
    <3>3. Is(m + 1, g)
        BY <3>2
    <3>4. \E h : Is(m + 1, h)
        BY <3>3
    <3> HIDE DEF Is
    <3> QED BY <3>4
  <2> HIDE DEF T
  <2> QED BY <2>1, <2>2, Induction DEF T
<1>3. \E f : Is(n, f)
    BY <1>1, <1>2
<1>4. Is(n, w)
    BY <1>3, Zenon
<1>5. FlattenSeq(ss) = IF n = 0 THEN ss ELSE w[n]
    BY Zenon DEF FlattenSeq
<1> HIDE DEF w, n
<1> DEFINE U == {k \in 0 .. n : k # 0 => w[k] \in Seq(S)}
<1>6. 0 \in U
    BY <1>1
<1>7. ASSUME NEW k \in 0 .. n, k < n, k \in U PROVE k + 1 \in U
  <2>1. k + 1 \in 1 .. n /\ k + 1 \in 0 .. n /\ ss[k + 1] \in Seq(S)
    BY <1>1, <1>7
  <2>2. \A i \in 1 .. n : w[i] = IF i = 1 THEN ss[i] ELSE w[i - 1] \o ss[i]
    BY <1>4, Zenon
  <2> DEFINE j == k + 1
  <2>3. j \in 1 .. n /\ j - 1 = k /\ (j = 1 <=> k = 0) /\ ss[j] \in Seq(S)
    BY <2>1
  <2> HIDE DEF j
  <2>4. w[j] = IF j = 1 THEN ss[j] ELSE w[j - 1] \o ss[j]
    BY <2>2, <2>3, Zenon
  <2>5. w[j] \in Seq(S)
    BY <1>7, <2>3, <2>4
  <2> QED BY <2>1, <2>5 DEF j
<1>8. \A k \in 0 .. n : k \in U
  <2> HIDE DEF U
  <2> QED BY <1>1, <1>6, <1>7, BoundedInduction
<1>9. n # 0 => w[n] \in Seq(S)
  <2>1. n \in 0 .. n
    BY <1>1
  <2> QED BY <1>8, <2>1
<1>10. n = 0 => ss = <<>>
    BY DEF n
<1>11. QED
    BY <1>5, <1>9, <1>10
=============================================================================
