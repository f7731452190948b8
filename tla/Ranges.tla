------------------------------- MODULE Ranges --------------------------------
(***************************************************************************)
(* Byte ranges (geometry.rs, ByteRange) and the checks that every planner   *)
(* of ranges shares.                                                        *)
(***************************************************************************)
EXTENDS Integers, FiniteSets, SequencesExt

RangeSet == [offset : Nat, length : Nat]

ByteRange(offset, length) == [offset |-> offset, length |-> length]

End(range) == range.offset + range.length
Cells(range) == range.offset .. End(range) - 1

Overlaps(left, right) == left.offset < End(right) /\ right.offset < End(left)

AlignDown(value, alignment) == (value \div alignment) * alignment
AlignUp(value, alignment) == AlignDown(value + alignment - 1, alignment)

IsPowerOfTwo(n) == \E k \in 0 .. 16 : n = 2 ^ k

ValidRange(volume, alignment, range) ==
    /\ range.length > 0
    /\ End(range) <= volume
    /\ range.offset % alignment = 0 /\ range.length % alignment = 0

(* The positions in S one after another: order holds the pairs of which the *)
(* first does not come after the second, and a position's place is the      *)
(* number of positions that do not come after it.                           *)
ByRank(S, order) ==
    [k \in 1 .. Cardinality(S) |->
        CHOOSE i \in S : Cardinality({j \in S : <<j, i>> \in order}) = k]

(* The elements at some positions, and those that pass a test, in order.    *)
Kept(seq, kept) ==
    LET at == ByRank(kept, {p \in kept \X kept : p[1] <= p[2]})
    IN [k \in DOMAIN at |-> seq[at[k]]]

Selected(seq, Test(_)) == Kept(seq, {i \in DOMAIN seq : Test(seq[i])})

(* Strictly before, for keys that are sequences of integers.                *)
KeyBefore(a, b) ==
    \E i \in DOMAIN a : a[i] < b[i] /\ \A j \in 1 .. i - 1 : a[j] = b[j]

(* Sorted by key. Elements with the same key stay in their order, which     *)
(* sort_unstable_by_key leaves open.                                        *)
NotAfter(keys, p) ==
    \/ KeyBefore(keys[p[1]], keys[p[2]])
    \/ keys[p[1]] = keys[p[2]] /\ p[1] <= p[2]
KeyOrder(keys) == {p \in (DOMAIN keys) \X (DOMAIN keys) : NotAfter(keys, p)}
Arranged(seq, keys) ==
    LET at == ByRank(DOMAIN seq, KeyOrder(keys)) IN [k \in DOMAIN at |-> seq[at[k]]]

SortedOn(seq, Key(_)) == Arranged(seq, [i \in DOMAIN seq |-> Key(seq[i])])

(* Sorted by offset; At is the range of an element.                         *)
SortedBy(seq, At(_)) == SortedOn(seq, LAMBDA e : <<At(e).offset>>)

(* Neighbours of a sorted sequence do not overlap.                          *)
NeighboursApart(seq, At(_)) ==
    \A i \in 1 .. Len(seq) - 1 : End(At(seq[i])) <= At(seq[i + 1]).offset

(* Index of the first of the sorted ranges that ends after offset, or one   *)
(* past the last: where a forward-only cursor stands.                       *)
CursorAt(seq, At(_), offset) ==
    Min({i \in 1 .. Len(seq) : End(At(seq[i])) > offset} \cup {Len(seq) + 1})

Sums(numbers) ==
    LET sum[k \in 0 .. Len(numbers)] == IF k = 0 THEN 0 ELSE sum[k - 1] + numbers[k]
    IN sum

Total(numbers) == Sums(numbers)[Len(numbers)]

SumOf(seq, Op(_)) == Total([i \in DOMAIN seq |-> Op(seq[i])])

(* The value itself. TLC evaluates a function expression at each of its     *)
(* applications until it has been compared once.                            *)
Evaluated(value) == CHOOSE v \in {value} : v = v

DistinctBy(seq, Key(_)) ==
    \A i, j \in DOMAIN seq : Key(seq[i]) = Key(seq[j]) => i = j
=============================================================================
