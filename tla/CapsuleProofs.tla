---------------------------- MODULE CapsuleProofs ----------------------------
(***************************************************************************)
(* What a capsule file of any size gives back to a later process. The       *)
(* proofs are by induction over the generations of the file; the induction  *)
(* principle comes from the well-foundedness of the naturals, stated for    *)
(* sets instead of predicates.                                              *)
(***************************************************************************)
EXTENDS CapsuleStore, TLAPS, SequenceTheorems, WellFoundedInduction

(* A set of naturals that is not empty has a smallest member.               *)
LEMMA Smallest ==
    ASSUME NEW T \in SUBSET Nat, T # {}
    PROVE  \E x \in T : \A y \in T : x <= y
<1>1. PICK x \in T : \A y \in T : <<y, x>> \notin OpToRel(<, Nat)
    BY NatLessThanWellFounded, WFMin
<1>2. ASSUME NEW y \in T, y < x
      PROVE  <<y, x>> \in OpToRel(<, Nat)
    BY <1>2, Zenon DEF OpToRel
<1>3. \A y \in T : ~ (y < x)
    BY <1>1, <1>2
<1>4. QED
    BY <1>3

(* Induction: a set of naturals with 0 and every successor is all of them.  *)
LEMMA Induction ==
    ASSUME NEW T \in SUBSET Nat, 0 \in T, \A n \in T : n + 1 \in T
    PROVE  T = Nat
<1>1. SUFFICES ASSUME Nat \ T # {} PROVE FALSE
    OBVIOUS
<1>2. PICK x \in Nat \ T : \A y \in Nat \ T : x <= y
    BY <1>1, Smallest
<1>3. x - 1 \in T
    BY <1>2
<1>4. QED
    BY <1>2, <1>3

-----------------------------------------------------------------------------
(* Where the generations of a capsule lie, counted from one.                *)

PayloadCells(i) == IF i = 1 THEN EnvelopeCells ELSE CheckpointCells
RecordCells(i) == 2 * HeaderCells + PayloadCells(i)
StartOf(i) == IF i = 1 THEN 0 ELSE RecordCells(1) + (i - 2) * RecordCells(2)
TrailingOf(i) == StartOf(i) + HeaderCells + PayloadCells(i)

(* The sizes of one generation.                                             *)
LEMMA Sizes ==
    ASSUME NEW i \in Nat \ {0}
    PROVE  /\ HeaderCells \in Nat \ {0} /\ PayloadCells(i) \in Nat \ {0}
           /\ RecordCells(i) = 2 * HeaderCells + PayloadCells(i)
           /\ RecordCells(i) \in Nat \ {0}
           /\ i # 1 => PayloadCells(i) = CheckpointCells
           /\ CheckpointCells \in 1 .. HeaderCells
BY LimitAssumption DEF PayloadCells, RecordCells

(* A generation starts where the one before it ends.                        *)
LEMMA StartNext ==
    /\ StartOf(1) = 0
    /\ \A i \in Nat \ {0} : StartOf(i) \in Nat /\ StartOf(i + 1) = StartOf(i) + RecordCells(i)
<1> DEFINE R == RecordCells(2)
<1>1. R \in Nat /\ RecordCells(1) \in Nat /\ \A i \in Nat \ {0, 1} : RecordCells(i) = R
    BY Sizes DEF RecordCells, PayloadCells
<1> HIDE DEF R
<1>2. StartOf(1) = 0 /\ StartOf(2) = RecordCells(1)
  <2>1. StartOf(2) = RecordCells(1) + 0 * R
    BY DEF StartOf, R
  <2> QED BY <2>1, <1>1 DEF StartOf
<1>3. ASSUME NEW i \in Nat \ {0} PROVE StartOf(i + 1) = StartOf(i) + RecordCells(i)
  <2>1. CASE i = 1
    BY <1>1, <1>2, <2>1
  <2>2. CASE i # 1
    <3>1. StartOf(i) = RecordCells(1) + (i - 2) * R
        BY <2>2 DEF StartOf, R
    <3>2. StartOf(i + 1) = RecordCells(1) + ((i + 1) - 2) * R
        BY DEF StartOf, R
    <3>3. ((i + 1) - 2) * R = (i - 2) * R + R
        BY <1>1
    <3>4. (i - 2) * R \in Int
        BY <1>1
    <3> QED BY <1>1, <2>2, <3>1, <3>2, <3>3, <3>4
  <2> QED BY <2>1, <2>2
<1> DEFINE T == {n \in Nat : StartOf(n + 1) \in Nat}
<1>4. T = Nat
  <2>1. 0 \in T
    BY <1>2
  <2>2. ASSUME NEW n \in T PROVE n + 1 \in T
    <3>1. StartOf((n + 1) + 1) = StartOf(n + 1) + RecordCells(n + 1)
        BY <1>3
    <3>2. RecordCells(n + 1) \in Nat
        BY Sizes
    <3> QED BY <3>1, <3>2
  <2> HIDE DEF T
  <2> QED BY <2>1, <2>2, Induction DEF T
<1>5. \A i \in Nat \ {0} : StartOf(i) \in Nat
  <2> TAKE i \in Nat \ {0}
  <2>1. i - 1 \in Nat /\ (i - 1) + 1 = i
    OBVIOUS
  <2>2. \A n \in Nat : StartOf(n + 1) \in Nat
    BY <1>4
  <2>3. StartOf((i - 1) + 1) \in Nat
    BY <2>1, <2>2
  <2> QED BY <2>1, <2>3
<1> QED BY <1>2, <1>3, <1>5

(* The loop's fixed point exists: every round is the one before it, read on. *)
LEMMA WalkRounds ==
    ASSUME NEW file, NEW candidates, NEW allow
    PROVE  LET walk == Walk(file, candidates, allow)
           IN  /\ walk[0] = Reading(<<>>, 0)
               /\ \A k \in 0 .. MaxGenerations :
                    walk[k + 1] = ReadGeneration(file, candidates, allow, walk[k])
<1> DEFINE Next1(s) == ReadGeneration(file, candidates, allow, s)
           First == Reading(<<>>, 0)
           Is(n, f) == f = [k \in 0 .. n |-> IF k = 0 THEN First ELSE Next1(f[k - 1])]
           T == {n \in Nat : \E f : Is(n, f)}
<1>0. MaxGenerations + 1 \in Nat
    BY LimitAssumption
<1>1. T = Nat
  <2> HIDE DEF Next1, First
  <2>1. 0 \in T
    <3> DEFINE f == [k \in 0 .. 0 |-> First]
    <3>1. \A k \in 0 .. 0 : f[k] = IF k = 0 THEN First ELSE Next1(f[k - 1])
        OBVIOUS
    <3>2. Is(0, f)
        BY <3>1
    <3> QED BY <3>2
  <2>2. ASSUME NEW n \in T PROVE n + 1 \in T
    <3>1. PICK f : Is(n, f)
        OBVIOUS
    <3> DEFINE g == [k \in 0 .. (n + 1) |-> IF k <= n THEN f[k] ELSE Next1(f[n])]
    <3>2. \A k \in 0 .. (n + 1) : g[k] = IF k = 0 THEN First ELSE Next1(g[k - 1])
        BY <3>1
    <3>3. Is(n + 1, g)
        BY <3>2
    <3>4. \E h : Is(n + 1, h)
        BY <3>3
    <3> HIDE DEF Is
    <3> QED BY <3>4
  <2> HIDE DEF T
  <2> QED BY <2>1, <2>2, Induction DEF T
<1>2. \E f : Is(MaxGenerations + 1, f)
    BY <1>0, <1>1
<1>3. Is(MaxGenerations + 1, Walk(file, candidates, allow))
    BY <1>2, Zenon DEF Walk
<1> HIDE DEF Next1, First
<1>4. QED
  <2> DEFINE w == Walk(file, candidates, allow)
  <2> HIDE DEF w
  <2>1. w[0] = First
    BY <1>0, <1>3 DEF w
  <2>2. \A k \in 0 .. MaxGenerations : w[k + 1] = Next1(w[k])
    BY <1>0, <1>3, LimitAssumption DEF w
  <2> QED BY <2>1, <2>2 DEF w, Next1, First

(* Later generations start later.                                           *)
LEMMA StartMonotone ==
    ASSUME NEW i \in Nat \ {0}, NEW k \in Nat \ {0}, i <= k
    PROVE  StartOf(i) <= StartOf(k)
<1> DEFINE T == {n \in Nat : StartOf(i) <= StartOf(i + n)}
<1>1. 0 \in T
    BY StartNext
<1>2. ASSUME NEW n \in T PROVE n + 1 \in T
  <2>1. StartOf((i + n) + 1) = StartOf(i + n) + RecordCells(i + n)
    BY StartNext
  <2>2. StartOf(i) \in Nat /\ StartOf(i + n) \in Nat /\ RecordCells(i + n) \in Nat
    BY StartNext, Sizes
  <2>3. StartOf(i) <= StartOf((i + n) + 1)
    BY <2>1, <2>2
  <2>4. (i + n) + 1 = i + (n + 1)
    OBVIOUS
  <2> QED BY <2>3, <2>4
<1> HIDE DEF T
<1>3. T = Nat
    BY <1>1, <1>2, Induction DEF T
<1>4. \A n \in Nat : StartOf(i) <= StartOf(i + n)
    BY <1>3 DEF T
<1>5. k - i \in Nat /\ i + (k - i) = k
    OBVIOUS
<1> QED BY <1>4, <1>5

(* Two generations do not share a cell.                                     *)
LEMMA OnePlace ==
    ASSUME NEW i \in Nat \ {0}, NEW k \in Nat \ {0},
           NEW a \in 0 .. RecordCells(i) - 1, NEW b \in 0 .. RecordCells(k) - 1,
           StartOf(i) + a = StartOf(k) + b
    PROVE  i = k /\ a = b
<1>1. /\ StartOf(i) \in Nat /\ StartOf(i + 1) = StartOf(i) + RecordCells(i)
      /\ StartOf(k) \in Nat /\ StartOf(k + 1) = StartOf(k) + RecordCells(k)
      /\ RecordCells(i) \in Nat /\ RecordCells(k) \in Nat
    BY StartNext, Sizes
<1>2. ~ (i < k)
  <2>1. SUFFICES ASSUME i < k PROVE FALSE
    OBVIOUS
  <2>2. i + 1 \in Nat \ {0} /\ i + 1 <= k
    BY <2>1
  <2>3. StartOf(i + 1) <= StartOf(k)
    BY <2>2, StartMonotone
  <2> QED BY <1>1, <2>3
<1>3. ~ (k < i)
  <2>1. SUFFICES ASSUME k < i PROVE FALSE
    OBVIOUS
  <2>2. k + 1 \in Nat \ {0} /\ k + 1 <= i
    BY <2>1
  <2>3. StartOf(k + 1) <= StartOf(i)
    BY <2>2, StartMonotone
  <2> QED BY <1>1, <2>3
<1>4. i = k
    BY <1>2, <1>3
<1> QED BY <1>1, <1>4

(* Every cell belongs to some generation.                                   *)
LEMMA Located ==
    ASSUME NEW n \in Nat \ {0}, NEW p \in Nat, p < StartOf(n + 1)
    PROVE  \E i \in 1 .. n : StartOf(i) <= p /\ p < StartOf(i + 1)
<1> DEFINE T == {i \in 1 .. n : p < StartOf(i + 1)}
<1>1. n \in T /\ T \in SUBSET Nat /\ T # {}
    OBVIOUS
<1>2. PICK i \in T : \A k \in T : i <= k
    BY <1>1, Smallest
<1>3. StartOf(i) <= p
  <2>1. CASE i = 1
    BY <2>1, StartNext
  <2>2. CASE i # 1
    <3>1. i - 1 \in 1 .. n /\ i - 1 \notin T /\ (i - 1) + 1 = i
        BY <1>2, <2>2
    <3>2. ~ (p < StartOf(i))
        BY <3>1
    <3>3. StartOf(i) \in Nat
        BY StartNext
    <3> QED BY <3>2, <3>3
  <2> QED BY <2>1, <2>2
<1> QED BY <1>2, <1>3

-----------------------------------------------------------------------------
(* A file with the generations of a sequence of phases.                     *)

HeaderOf(ph, i) ==
    [generation |-> i - 1, phase |-> ph[i], len |-> PayloadCells(i),
     previous |-> IF i = 1 THEN -1 ELSE StartOf(i - 1)]
GenerationOf(ph, i) == [start |-> StartOf(i), header |-> HeaderOf(ph, i)]

(* The cell that the record of a generation has at an offset from zero.     *)
Written(ph, i, a) ==
    IF a < HeaderCells THEN Cell("header", a + 1, HeaderOf(ph, i))
    ELSE IF a < HeaderCells + PayloadCells(i)
    THEN Cell("payload", a + 1 - HeaderCells, HeaderOf(ph, i))
    ELSE Cell("header", a + 1 - HeaderCells - PayloadCells(i), HeaderOf(ph, i))

Headers == [generation : Int, phase : Phases, len : Nat, previous : Int]
CellSet == [kind : {"header", "payload", "junk"}, part : Nat, header : Headers]

(* The phases that append_generation accepts one after the other.           *)
Chain(ph) ==
    /\ ph \in Seq(Phases) /\ Len(ph) \in 1 .. MaxGenerations
    /\ ph[1] = Discovered
    /\ \A i \in 2 .. Len(ph) : MayFollow(ph[i], ph[i - 1])

(* Some offsets of a record are as they were written, as far as it goes.    *)
AsWritten(file, ph, i, offsets) ==
    \A a \in offsets : StartOf(i) + a < Len(file) =>
        file[StartOf(i) + a + 1] = Written(ph, i, a)
PrimaryPart(i) == 0 .. HeaderCells - 1
PayloadPart(i) == HeaderCells .. HeaderCells + PayloadCells(i) - 1
TrailingPart(i) == HeaderCells + PayloadCells(i) .. RecordCells(i) - 1

(* A record with at most one bad copy of its header.                        *)
Readable(file, ph, i) ==
    /\ \A a \in 0 .. RecordCells(i) - 1 : StartOf(i) + a < Len(file) =>
          file[StartOf(i) + a + 1] \in {Written(ph, i, a), Junk}
    /\ AsWritten(file, ph, i, PayloadPart(i))
    /\ \/ AsWritten(file, ph, i, PrimaryPart(i))
       \/ AsWritten(file, ph, i, TrailingPart(i))

(* The file ends somewhere in its last record; only complete records have a *)
(* bad copy.                                                                *)
Holds(file, ph, bad) ==
    /\ file \in Seq(CellSet) /\ Len(file) <= MaxCells
    /\ StartOf(Len(ph)) <= Len(file) /\ Len(file) <= StartOf(Len(ph) + 1)
    /\ \A i \in 1 .. Len(ph) :
          /\ Readable(file, ph, i)
          /\ i \notin bad => AsWritten(file, ph, i, 0 .. RecordCells(i) - 1)
    /\ \A i \in bad : i \in 1 .. Len(ph) /\ StartOf(i + 1) <= Len(file)

-----------------------------------------------------------------------------
(* What is decoded where.                                                   *)

(* The fields of the header that append_generation writes.                  *)
LEMMA HeaderFacts ==
    ASSUME NEW ph, Chain(ph), NEW i \in 1 .. Len(ph)
    PROVE  /\ HeaderOf(ph, i) \in Headers /\ HeaderOf(ph, i) # NoHeader
           /\ HeaderOf(ph, i).len = PayloadCells(i)
           /\ HeaderOf(ph, i).generation = i - 1
           /\ HeaderOf(ph, i).phase = ph[i]
           /\ HeaderOf(ph, i).previous = IF i = 1 THEN -1 ELSE StartOf(i - 1)
<1>0. i \in Nat \ {0} /\ ph[i] \in Phases
    BY DEF Chain
<1>1. PayloadCells(i) \in Nat
    BY <1>0, Sizes
<1>2. CASE i = 1
    BY <1>0, <1>1, <1>2 DEF HeaderOf, Headers, NoHeader
<1>3. CASE i # 1
  <2>1. i - 1 \in Nat \ {0}
    BY <1>0, <1>3
  <2>2. StartOf(i - 1) \in Nat
    BY <2>1, StartNext
  <2> QED BY <1>0, <1>1, <1>3, <2>2 DEF HeaderOf, Headers, NoHeader
<1> QED BY <1>2, <1>3

(* A slice within the file, cell by cell.                                   *)
LEMMA SliceIs ==
    ASSUME NEW S, NEW file \in Seq(S), NEW o \in Nat, NEW l \in Nat, o + l <= Len(file)
    PROVE  /\ Slice(file, o, l) = [j \in 1 .. l |-> file[o + j]]
           /\ Slice(file, o, l) \in Seq(S) /\ Len(Slice(file, o, l)) = l
<1> DEFINE m == o + 1
           n == o + l
           s == SubSeq(file, m, n)
<1>1. \A j \in m .. n : file[j] \in S
    OBVIOUS
<1>2. m \in Int /\ n \in Int
    OBVIOUS
<1>3. n - m + 1 = l /\ (m <= n <=> l # 0) /\ \A j \in 1 .. l : m + j - 1 = o + j
    OBVIOUS
<1>4. /\ s \in Seq(S) /\ Len(s) = l
      /\ \A j \in 1 .. l : s[j] = file[o + j]
  <2> HIDE DEF m, n
  <2>1. /\ s \in Seq(S)
        /\ Len(s) = IF m <= n THEN n - m + 1 ELSE 0
        /\ \A j \in 1 .. n - m + 1 : s[j] = file[m + j - 1]
    BY <1>1, <1>2, SubSeqProperties
  <2> HIDE DEF s
  <2> QED BY <1>3, <2>1
<1> HIDE DEF s
<1>5. s = [j \in 1 .. l |-> file[o + j]]
    BY <1>4
<1> QED BY <1>4, <1>5 DEF s, Slice

(* A good copy is decoded.                                                  *)
LEMMA DecodeGood ==
    ASSUME NEW file \in Seq(CellSet), NEW pos \in Nat, NEW h,
           pos + HeaderCells <= Len(file),
           \A j \in 1 .. HeaderCells : file[pos + j] = Cell("header", j, h)
    PROVE  DecodeHeader(file, pos) = h
<1>0. HeaderCells \in Nat \ {0}
    BY LimitAssumption
<1>1. file[pos + 1] = Cell("header", 1, h)
    BY <1>0
<1>2. file[pos + 1].kind = "header" /\ file[pos + 1].header = h
    BY <1>1 DEF Cell
<1>3. Slice(file, pos, HeaderCells) = [j \in 1 .. HeaderCells |-> file[pos + j]]
    BY <1>0, SliceIs
<1>4. Slice(file, pos, HeaderCells) = EncodeHeader(h)
    BY <1>3 DEF EncodeHeader
<1> QED BY <1>0, <1>2, <1>4 DEF DecodeHeader

(* Nothing is decoded but the copies of the headers that were written.      *)
LEMMA DecodeOnly ==
    ASSUME NEW file, NEW ph, NEW bad, Chain(ph), Holds(file, ph, bad),
           NEW pos \in Int, DecodeHeader(file, pos) # NoHeader
    PROVE  \E i \in 1 .. Len(ph) :
               /\ DecodeHeader(file, pos) = HeaderOf(ph, i)
               /\ \/ pos = StartOf(i)
                  \/ pos = TrailingOf(i) /\ StartOf(i + 1) <= Len(file)
<1> DEFINE h == file[pos + 1].header
<1>0. HeaderCells \in Nat \ {0} /\ file \in Seq(CellSet) /\ Len(file) \in Nat
      /\ Len(ph) \in Nat \ {0}
    BY LimitAssumption DEF Holds, Chain
<1>1. /\ pos >= 0 /\ pos + HeaderCells <= Len(file)
      /\ Slice(file, pos, HeaderCells) = EncodeHeader(h)
      /\ DecodeHeader(file, pos) = h
    BY DEF DecodeHeader
<1>2. file[pos + 1] = Cell("header", 1, h)
  <2>0. pos \in Nat /\ pos + HeaderCells <= Len(file)
    BY <1>1
  <2>1. Slice(file, pos, HeaderCells) = [j \in 1 .. HeaderCells |-> file[pos + j]]
    BY <1>0, <2>0, SliceIs
  <2>2. Slice(file, pos, HeaderCells)[1] = file[pos + 1]
    BY <1>0, <2>1
  <2>3. EncodeHeader(h)[1] = Cell("header", 1, h)
    BY <1>0 DEF EncodeHeader
  <2> QED BY <1>1, <2>2, <2>3
<1> HIDE DEF h
<1>3. pos \in Nat /\ pos < StartOf(Len(ph) + 1)
  <2>1. StartOf(Len(ph) + 1) \in Nat
    BY <1>0, StartNext
  <2> QED BY <1>0, <1>1, <2>1 DEF Holds
<1>4. PICK i \in 1 .. Len(ph) : StartOf(i) <= pos /\ pos < StartOf(i + 1)
    BY <1>0, <1>3, Located
<1> DEFINE a == pos - StartOf(i)
<1>5. /\ StartOf(i) \in Nat /\ StartOf(i + 1) = StartOf(i) + RecordCells(i)
      /\ RecordCells(i) = 2 * HeaderCells + PayloadCells(i)
      /\ PayloadCells(i) \in Nat \ {0} /\ RecordCells(i) \in Nat
  <2>1. i \in Nat \ {0}
    BY <1>0
  <2> QED BY <2>1, StartNext, Sizes
<1>6. a \in 0 .. RecordCells(i) - 1 /\ StartOf(i) + a = pos
    BY <1>3, <1>4, <1>5
<1> HIDE DEF a
<1>7. file[pos + 1] \in {Written(ph, i, a), Junk}
  <2>1. StartOf(i) + a < Len(file)
    BY <1>0, <1>1, <1>3, <1>6
  <2>2. Readable(file, ph, i)
    BY DEF Holds
  <2> QED BY <1>6, <2>1, <2>2 DEF Readable
<1>8. Written(ph, i, a) = Cell("header", 1, h)
  <2>1. Junk # Cell("header", 1, h)
    BY DEF Junk, Cell
  <2> QED BY <1>2, <1>7, <2>1
<1>9. CASE a < HeaderCells
  <2>1. Cell("header", a + 1, HeaderOf(ph, i)) = Cell("header", 1, h)
    BY <1>8, <1>9 DEF Written
  <2>2. a + 1 = 1 /\ HeaderOf(ph, i) = h
    BY <2>1 DEF Cell
  <2>3. pos = StartOf(i)
    BY <1>5, <1>6, <2>2
  <2> QED BY <1>1, <2>2, <2>3
<1>10. CASE a >= HeaderCells /\ a < HeaderCells + PayloadCells(i)
  <2>0. ~ (a < HeaderCells)
    BY <1>0, <1>6, <1>10
  <2>1. Cell("payload", a + 1 - HeaderCells, HeaderOf(ph, i)) = Cell("header", 1, h)
    BY <1>8, <1>10, <2>0 DEF Written
  <2> QED BY <2>1 DEF Cell
<1>11. CASE a >= HeaderCells + PayloadCells(i)
  <2>0. ~ (a < HeaderCells) /\ ~ (a < HeaderCells + PayloadCells(i))
    BY <1>0, <1>5, <1>6, <1>11, SMTT(60)
  <2>1. Cell("header", a + 1 - HeaderCells - PayloadCells(i), HeaderOf(ph, i))
            = Cell("header", 1, h)
    BY <1>8, <2>0 DEF Written
  <2>2. a + 1 - HeaderCells - PayloadCells(i) = 1 /\ HeaderOf(ph, i) = h
    BY <2>1 DEF Cell
  <2>3. a = HeaderCells + PayloadCells(i)
    <3>1. a \in Int /\ HeaderCells \in Int /\ PayloadCells(i) \in Int
        BY <1>0, <1>5, <1>6
    <3>2. a + 1 - HeaderCells - PayloadCells(i) = 1
        BY <2>2
    <3> QED BY <3>1, <3>2
  <2>4. pos = StartOf(i) + HeaderCells + PayloadCells(i)
    BY <1>0, <1>5, <1>6, <2>3
  <2>5. StartOf(i + 1) <= Len(file)
    BY <1>0, <1>1, <1>5, <2>4, SMTT(60)
  <2> QED BY <1>1, <2>2, <2>4, <2>5 DEF TrailingOf
<1> QED BY <1>0, <1>5, <1>6, <1>9, <1>10, <1>11, SMTT(60)

(* The arithmetic of one generation, in one place.                          *)
LEMMA Arithmetic ==
    ASSUME NEW i \in Nat \ {0}
    PROVE  /\ HeaderCells \in Nat \ {0} /\ PayloadCells(i) \in Nat \ {0}
           /\ RecordCells(i) = 2 * HeaderCells + PayloadCells(i)
           /\ RecordCells(i) \in Nat \ {0} /\ StartOf(i) \in Nat
           /\ StartOf(i + 1) = StartOf(i) + RecordCells(i) /\ StartOf(i + 1) \in Nat
           /\ TrailingOf(i) = StartOf(i) + (HeaderCells + PayloadCells(i))
           /\ TrailingOf(i) + HeaderCells = StartOf(i + 1)
           /\ HeaderCells + PayloadCells(i) \in 0 .. RecordCells(i) - 1
           /\ 0 \in 0 .. RecordCells(i) - 1
<1>1. /\ HeaderCells \in Nat \ {0} /\ PayloadCells(i) \in Nat \ {0}
      /\ RecordCells(i) = 2 * HeaderCells + PayloadCells(i)
      /\ RecordCells(i) \in Nat \ {0} 
    BY Sizes
<1>2. StartOf(i) \in Nat /\ StartOf(i + 1) = StartOf(i) + RecordCells(i)
    BY StartNext
<1>3. TrailingOf(i) = StartOf(i) + HeaderCells + PayloadCells(i)
    BY DEF TrailingOf
<1> QED BY <1>1, <1>2, <1>3

(* At the two places of a header stands that header or none.                *)
LEMMA DecodeThere ==
    ASSUME NEW file, NEW ph, NEW bad, Chain(ph), Holds(file, ph, bad),
           NEW i \in 1 .. Len(ph), NEW pos \in {StartOf(i), TrailingOf(i)}
    PROVE  DecodeHeader(file, pos) \in {NoHeader, HeaderOf(ph, i)}
<1>0. i \in Nat \ {0} /\ Len(ph) \in Nat
    BY DEF Chain
<1>1. SUFFICES ASSUME DecodeHeader(file, pos) # NoHeader
               PROVE  DecodeHeader(file, pos) = HeaderOf(ph, i)
    OBVIOUS
<1>2. pos \in Int
    BY <1>0, Arithmetic
<1>3. PICK k \in 1 .. Len(ph) :
           /\ DecodeHeader(file, pos) = HeaderOf(ph, k)
           /\ pos = StartOf(k) \/ pos = TrailingOf(k)
    BY <1>1, <1>2, DecodeOnly
<1>4. k \in Nat \ {0}
    BY <1>0
<1>5. PICK a \in 0 .. RecordCells(i) - 1 : pos = StartOf(i) + a
  <2>1. CASE pos = StartOf(i)
    <3>1. pos = StartOf(i) + 0 /\ 0 \in 0 .. RecordCells(i) - 1
        BY <1>0, <2>1, Arithmetic
    <3> QED BY <3>1
  <2>2. CASE pos = TrailingOf(i)
    BY <1>0, <2>2, Arithmetic
  <2> QED BY <2>1, <2>2
<1>6. PICK b \in 0 .. RecordCells(k) - 1 : pos = StartOf(k) + b
  <2>1. CASE pos = StartOf(k)
    <3>1. pos = StartOf(k) + 0 /\ 0 \in 0 .. RecordCells(k) - 1
        BY <1>4, <2>1, Arithmetic
    <3> QED BY <3>1
  <2>2. CASE pos = TrailingOf(k)
    BY <1>4, <2>2, Arithmetic
  <2> QED BY <1>3, <2>1, <2>2
<1>7. i = k
    BY <1>0, <1>4, <1>5, <1>6, OnePlace
<1> QED BY <1>3, <1>7

(* A place in the file and the header that a candidate there can have.      *)
Placed(file, ph, c, k, b) ==
    /\ k \in Nat \ {0} /\ b \in 0 .. RecordCells(k) - 1
    /\ c = [start |-> StartOf(k) + b,
            header |-> HeaderOf(ph, IF b \in {0, HeaderCells + PayloadCells(k)}
                                    THEN k ELSE k + 1)]
    /\ b = 0 => StartOf(k + 1) <= Len(file)

(* A header taken for a trailing copy points into the generation before it. *)
LEMMA PointsBack ==
    ASSUME NEW i \in Nat \ {0}, NEW start \in Nat,
           start = StartOf(i) - HeaderCells - PayloadCells(i)
    PROVE  \E k \in Nat \ {0}, b \in Nat :
               /\ i = k + 1 /\ start = StartOf(k) + b
               /\ b \in 1 .. HeaderCells + PayloadCells(k) - 1
<1>1. i # 1
  <2>1. SUFFICES ASSUME i = 1 PROVE FALSE
    OBVIOUS
  <2> QED BY <2>1, StartNext, Arithmetic
<1> DEFINE k == i - 1
           b == HeaderCells + PayloadCells(k) - PayloadCells(i)
<1>2. k \in Nat \ {0} /\ i = k + 1
    BY <1>1
<1> HIDE DEF k
<1>3. /\ HeaderCells \in Nat /\ PayloadCells(k) \in Nat \ {0} /\ StartOf(k) \in Nat
      /\ StartOf(i) = StartOf(k) + (2 * HeaderCells + PayloadCells(k))
    BY <1>2, Arithmetic
<1>4. PayloadCells(i) \in 1 .. HeaderCells
    BY <1>1, Sizes
<1>5. b \in 1 .. HeaderCells + PayloadCells(k) - 1
    BY <1>3, <1>4
<1>6. start = StartOf(k) + b
    BY <1>3, <1>4
<1> QED BY <1>2, <1>5, <1>6

(* What find_candidates finds is a generation, or a place inside one to     *)
(* which only the header of the next leads.                                 *)
LEMMA CandidateOnly ==
    ASSUME NEW file, NEW ph, NEW bad, Chain(ph), Holds(file, ph, bad),
           NEW c \in FindCandidates(file)
    PROVE  \E k, b : Placed(file, ph, c, k, b)
<1>0. Len(file) \in Nat /\ Len(ph) \in Nat
    BY DEF Holds, Chain
<1>1. PICK pos \in 0 .. Len(file) :
           /\ DecodeHeader(file, pos) # NoHeader
           /\ c \in CandidateAsPrimary(file, pos, DecodeHeader(file, pos))
                       \cup CandidateAsTrailing(file, pos, DecodeHeader(file, pos))
    BY Zenon DEF FindCandidates
<1>2. pos \in Int
    BY <1>0
<1>3. PICK i \in 1 .. Len(ph) :
           /\ DecodeHeader(file, pos) = HeaderOf(ph, i)
           /\ \/ pos = StartOf(i)
              \/ pos = TrailingOf(i) /\ StartOf(i + 1) <= Len(file)
    BY <1>1, <1>2, DecodeOnly
<1> DEFINE h == HeaderOf(ph, i)
<1>4. i \in Nat \ {0} /\ h.len = PayloadCells(i)
    BY <1>0, HeaderFacts
<1> HIDE DEF h
<1>5. /\ HeaderCells \in Nat \ {0} /\ PayloadCells(i) \in Nat \ {0}
      /\ RecordCells(i) = 2 * HeaderCells + PayloadCells(i)
      /\ StartOf(i) \in Nat /\ StartOf(i + 1) = StartOf(i) + RecordCells(i)
      /\ TrailingOf(i) = StartOf(i) + (HeaderCells + PayloadCells(i))
      /\ HeaderCells + PayloadCells(i) \in 0 .. RecordCells(i) - 1
      /\ 0 \in 0 .. RecordCells(i) - 1
    BY <1>4, Arithmetic
<1>6. ASSUME c = [start |-> StartOf(i), header |-> h], StartOf(i + 1) <= Len(file)
      PROVE  Placed(file, ph, c, i, 0)
  <2>1. StartOf(i) + 0 = StartOf(i)
    BY <1>5
  <2> QED BY <1>4, <1>5, <1>6, <2>1 DEF Placed, h
<1>7. ASSUME c = [start |-> TrailingOf(i), header |-> h]
      PROVE  Placed(file, ph, c, i, HeaderCells + PayloadCells(i))
  <2>1. HeaderCells + PayloadCells(i) # 0
    BY <1>5
  <2> QED BY <1>4, <1>5, <1>7, <2>1 DEF Placed, h
<1>8. CASE c \in CandidateAsPrimary(file, pos, h)
  <2>1. c = [start |-> pos, header |-> h] /\ pos + HeaderCells + h.len + HeaderCells <= Len(file)
    BY <1>8 DEF CandidateAsPrimary
  <2>2. CASE pos = StartOf(i)
    <3>1. StartOf(i + 1) <= Len(file)
        BY <1>0, <1>4, <1>5, <2>1, <2>2
    <3> QED BY <1>6, <2>1, <2>2, <3>1
  <2>3. CASE pos = TrailingOf(i)
    BY <1>7, <2>1, <2>3
  <2> QED BY <1>3, <2>2, <2>3
<1>9. CASE c \in CandidateAsTrailing(file, pos, h)
  <2>1. /\ c = [start |-> pos - HeaderCells - h.len, header |-> h]
        /\ pos - HeaderCells - h.len >= 0
    BY <1>9 DEF CandidateAsTrailing
  <2>2. CASE pos = TrailingOf(i) /\ StartOf(i + 1) <= Len(file)
    <3>0. pos = StartOf(i) + (HeaderCells + PayloadCells(i)) /\ h.len = PayloadCells(i)
        BY <1>4, <1>5, <2>2
    <3>1. pos - HeaderCells - h.len = StartOf(i)
      <4>1. HeaderCells \in Nat /\ PayloadCells(i) \in Nat /\ StartOf(i) \in Nat
        BY <1>5
      <4> QED BY <3>0, <4>1, SMTT(60)
    <3> QED BY <1>6, <2>1, <2>2, <3>1
  <2>3. CASE pos = StartOf(i)
    <3> DEFINE start == StartOf(i) - HeaderCells - PayloadCells(i)
    <3>1. start \in Nat /\ c = [start |-> start, header |-> h]
        BY <1>4, <1>5, <2>1, <2>3
    <3>2. PICK k \in Nat \ {0}, b \in Nat :
                   /\ i = k + 1 /\ start = StartOf(k) + b
                   /\ b \in 1 .. HeaderCells + PayloadCells(k) - 1
        BY <1>4, <3>1, PointsBack
    <3>3. /\ HeaderCells \in Nat \ {0} /\ PayloadCells(k) \in Nat \ {0}
          /\ RecordCells(k) = 2 * HeaderCells + PayloadCells(k)
        BY Arithmetic
    <3>4. b # 0 /\ b # HeaderCells + PayloadCells(k) /\ b \in 0 .. RecordCells(k) - 1
        BY <3>2, <3>3, SMTT(60)
    <3>5. c = [start |-> StartOf(k) + b, header |-> HeaderOf(ph, k + 1)]
        BY <3>1, <3>2 DEF h
    <3> HIDE DEF start
    <3>6. Placed(file, ph, c, k, b)
        BY <3>4, <3>5 DEF Placed
    <3> QED BY <3>6
  <2> QED BY <1>3, <2>2, <2>3
<1> QED BY <1>1, <1>3, <1>8, <1>9 DEF h

(* No offset is ambiguous, a complete record is found at its offset and     *)
(* nothing else is, and nothing is found at the offset of a torn one.       *)
LEMMA CandidatesAgree ==
    ASSUME NEW file, NEW ph, NEW bad, Chain(ph), Holds(file, ph, bad),
           NEW c \in FindCandidates(file), NEW d \in FindCandidates(file),
           c.start = d.start
    PROVE  c.header = d.header
<1>1. PICK k, a : Placed(file, ph, c, k, a)
    BY CandidateOnly
<1>2. PICK l, b : Placed(file, ph, d, l, b)
    BY CandidateOnly
<1>3. StartOf(k) + a = StartOf(l) + b
    BY <1>1, <1>2 DEF Placed
<1>4. k = l /\ a = b
    BY <1>1, <1>2, <1>3, OnePlace DEF Placed
<1> QED BY <1>1, <1>2, <1>4 DEF Placed

(* At the start of a generation nothing but it is found.                    *)
LEMMA OnlyGeneration ==
    ASSUME NEW file, NEW ph, NEW bad, Chain(ph), Holds(file, ph, bad),
           NEW i \in 1 .. Len(ph), NEW c \in FindCandidates(file), c.start = StartOf(i)
    PROVE  c = GenerationOf(ph, i) /\ StartOf(i + 1) <= Len(file)
<1>0. i \in Nat \ {0}
    BY DEF Chain
<1>1. PICK k, b : Placed(file, ph, c, k, b)
    BY CandidateOnly
<1>2. /\ StartOf(i) \in Nat /\ 0 \in 0 .. RecordCells(i) - 1
    BY <1>0, Arithmetic
<1>3. StartOf(i) + 0 = StartOf(k) + b
    BY <1>1, <1>2 DEF Placed
<1>4. k \in Nat \ {0} /\ b \in 0 .. RecordCells(k) - 1
    BY <1>1 DEF Placed
<1>5. i = k /\ 0 = b
    BY <1>0, <1>2, <1>3, <1>4, OnePlace
<1>6. c = [start |-> StartOf(i) + 0, header |-> HeaderOf(ph, i)] /\ StartOf(i + 1) <= Len(file)
    BY <1>1, <1>5 DEF Placed
<1> QED BY <1>2, <1>6 DEF GenerationOf

(* find_candidates tries every good header as either copy.                  *)
LEMMA FoundAt ==
    ASSUME NEW file, NEW h, NEW p \in 0 .. Len(file), DecodeHeader(file, p) = h, h # NoHeader,
           NEW c \in CandidateAsPrimary(file, p, h) \cup CandidateAsTrailing(file, p, h)
    PROVE  c \in FindCandidates(file)
BY Zenon DEF FindCandidates

(* A generation with one good copy of its header is found.                  *)
LEMMA GenerationFound ==
    ASSUME NEW file, NEW ph, NEW bad, Chain(ph), Holds(file, ph, bad),
           NEW i \in 1 .. Len(ph), StartOf(i + 1) <= Len(file)
    PROVE  GenerationOf(ph, i) \in FindCandidates(file)
<1> DEFINE h == HeaderOf(ph, i)
<1>0. i \in Nat \ {0} /\ Len(file) \in Nat /\ file \in Seq(CellSet)
    BY DEF Chain, Holds
<1>1. h # NoHeader /\ h.len = PayloadCells(i)
    BY HeaderFacts
<1>2. /\ HeaderCells \in Nat \ {0} /\ PayloadCells(i) \in Nat \ {0}
      /\ RecordCells(i) = 2 * HeaderCells + PayloadCells(i)
      /\ StartOf(i) \in Nat /\ StartOf(i + 1) = StartOf(i) + RecordCells(i)
      /\ TrailingOf(i) = StartOf(i) + (HeaderCells + PayloadCells(i))
    BY <1>0, Arithmetic
<1> HIDE DEF h
<1>3. StartOf(i) \in 0 .. Len(file) /\ TrailingOf(i) \in 0 .. Len(file)
    BY <1>0, <1>2, SMTT(60)
<1>4. Readable(file, ph, i)
    BY DEF Holds
<1>5. CASE AsWritten(file, ph, i, PrimaryPart(i))
  <2>1. DecodeHeader(file, StartOf(i)) = h
    <3>1. ASSUME NEW j \in 1 .. HeaderCells
          PROVE  file[StartOf(i) + j] = Cell("header", j, h)
      <4> DEFINE a == j - 1
      <4>1. /\ a \in PrimaryPart(i) /\ a < HeaderCells /\ a + 1 = j
            /\ StartOf(i) + a < Len(file) /\ StartOf(i) + a + 1 = StartOf(i) + j
        BY <1>0, <1>2, SMTT(60) DEF PrimaryPart
      <4> HIDE DEF a
      <4>2. file[StartOf(i) + a + 1] = Written(ph, i, a)
        BY <1>5, <4>1 DEF AsWritten
      <4>3. Written(ph, i, a) = Cell("header", a + 1, h)
        BY <4>1 DEF Written, h
      <4> QED BY <4>1, <4>2, <4>3
    <3>2. StartOf(i) + HeaderCells <= Len(file)
        BY <1>0, <1>2, SMTT(60)
    <3> QED BY <1>0, <1>2, <3>1, <3>2, DecodeGood
  <2>2. DecodeHeader(file, TrailingOf(i)) \in {NoHeader, h}
    BY DecodeThere DEF h
  <2>3. StartOf(i) + HeaderCells + h.len = TrailingOf(i)
        /\ TrailingOf(i) + HeaderCells <= Len(file)
    BY <1>0, <1>1, <1>2
  <2>4. [start |-> StartOf(i), header |-> h] \in CandidateAsPrimary(file, StartOf(i), h)
    BY <2>2, <2>3 DEF CandidateAsPrimary
  <2> QED BY <1>1, <1>3, <2>1, <2>4, FoundAt DEF GenerationOf, h
<1>6. CASE AsWritten(file, ph, i, TrailingPart(i))
  <2>1. DecodeHeader(file, TrailingOf(i)) = h
    <3>1. ASSUME NEW j \in 1 .. HeaderCells
          PROVE  file[TrailingOf(i) + j] = Cell("header", j, h)
      <4> DEFINE a == HeaderCells + PayloadCells(i) + j - 1
      <4>1. /\ a \in TrailingPart(i) /\ ~ (a < HeaderCells)
            /\ ~ (a < HeaderCells + PayloadCells(i))
            /\ a + 1 - HeaderCells - PayloadCells(i) = j
            /\ StartOf(i) + a < Len(file) /\ StartOf(i) + a + 1 = TrailingOf(i) + j
        <5>1. /\ HeaderCells \in Nat \ {0} /\ PayloadCells(i) \in Nat \ {0}
              /\ StartOf(i) \in Nat /\ j \in Nat \ {0} /\ j <= HeaderCells
              /\ RecordCells(i) = 2 * HeaderCells + PayloadCells(i)
            BY <1>2
        <5>2. a + 1 - HeaderCells - PayloadCells(i) = j
            BY <5>1
        <5>3. a \in HeaderCells + PayloadCells(i) .. RecordCells(i) - 1
            BY <5>1, SMTT(60)
        <5>4. ~ (a < HeaderCells) /\ ~ (a < HeaderCells + PayloadCells(i))
            BY <5>1
        <5>5. StartOf(i) + a + 1 = StartOf(i) + (HeaderCells + PayloadCells(i)) + j
            BY <5>1, SMTT(60)
        <5>6. StartOf(i) + a < StartOf(i) + RecordCells(i)
            BY <5>1
        <5>7. StartOf(i) + a \in Int
            BY <5>1
        <5>8. StartOf(i) + a < Len(file)
            BY <1>0, <1>2, <5>6, <5>7, SMTT(60)
        <5> QED BY <1>2, <5>2, <5>3, <5>4, <5>5, <5>8 DEF TrailingPart
      <4> HIDE DEF a
      <4>2. file[StartOf(i) + a + 1] = Written(ph, i, a)
        BY <1>6, <4>1 DEF AsWritten
      <4>3. Written(ph, i, a) = Cell("header", a + 1 - HeaderCells - PayloadCells(i), h)
        BY <4>1 DEF Written, h
      <4> QED BY <4>1, <4>2, <4>3
    <3>2. TrailingOf(i) \in Nat /\ TrailingOf(i) + HeaderCells <= Len(file)
        BY <1>0, <1>2
    <3> QED BY <1>0, <3>1, <3>2, DecodeGood
  <2>2. DecodeHeader(file, StartOf(i)) \in {NoHeader, h}
    BY DecodeThere DEF h
  <2>3. TrailingOf(i) - HeaderCells - h.len = StartOf(i)
    <3>1. HeaderCells \in Nat /\ PayloadCells(i) \in Nat /\ StartOf(i) \in Nat
        BY <1>2
    <3>2. TrailingOf(i) = StartOf(i) + (HeaderCells + PayloadCells(i))
        BY <1>2
    <3> QED BY <1>1, <3>1, <3>2
  <2>4. [start |-> StartOf(i), header |-> h] \in CandidateAsTrailing(file, TrailingOf(i), h)
    BY <1>2, <2>2, <2>3 DEF CandidateAsTrailing
  <2> QED BY <1>1, <1>3, <2>1, <2>4, FoundAt DEF GenerationOf, h
<1> QED BY <1>4, <1>5, <1>6 DEF Readable

-----------------------------------------------------------------------------
(* The loop over the file.                                                  *)

GenerationsOf(ph, n) == [i \in 1 .. n |-> GenerationOf(ph, i)]
Complete(file, ph) ==
    IF Len(file) = StartOf(Len(ph) + 1) THEN Len(ph) ELSE Len(ph) - 1

(* The list of the first generations.                                       *)
LEMMA GenerationsFacts ==
    ASSUME NEW ph, NEW n \in Nat
    PROVE  /\ Len(GenerationsOf(ph, n)) = n
           /\ \A i \in 1 .. n : GenerationsOf(ph, n)[i] = GenerationOf(ph, i)
           /\ GenerationsOf(ph, n) = <<>> <=> n = 0
           /\ Append(GenerationsOf(ph, n), GenerationOf(ph, n + 1)) = GenerationsOf(ph, n + 1)
<1> DEFINE S == {GenerationOf(ph, i) : i \in 1 .. n + 1}
           s == GenerationsOf(ph, n)
           t == GenerationsOf(ph, n + 1)
           g == GenerationOf(ph, n + 1)
<1>1. s \in Seq(S) /\ Len(s) = n /\ \A i \in 1 .. n : s[i] = GenerationOf(ph, i)
    BY DEF GenerationsOf
<1>2. t \in Seq(S) /\ Len(t) = n + 1 /\ \A i \in 1 .. n + 1 : t[i] = GenerationOf(ph, i)
    BY DEF GenerationsOf
<1>3. g \in S
    OBVIOUS
<1>4. s = <<>> <=> n = 0
    BY <1>1
<1> HIDE DEF S, s, t, g
<1>5. Append(s, g) = t
  <2>1. Append(s, g) \in Seq(S) /\ Len(Append(s, g)) = n + 1
    BY <1>1, <1>3
  <2>2. \A i \in 1 .. n + 1 : Append(s, g)[i] = t[i]
    BY <1>1, <1>2 DEF g
  <2> QED BY <1>2, <2>1, <2>2, SeqEqual
<1> QED BY <1>1, <1>4, <1>5 DEF s, t, g

(* How many records are complete, and where the next one would start.       *)
LEMMA CompleteFacts ==
    ASSUME NEW file, NEW ph, NEW bad, Chain(ph), Holds(file, ph, bad)
    PROVE  LET n == Complete(file, ph)
           IN  /\ n \in Nat /\ n <= Len(ph) /\ n <= MaxGenerations /\ Len(ph) <= n + 1
               /\ Len(file) \in Nat /\ StartOf(n + 1) \in Nat /\ StartOf(n + 1) <= Len(file)
               /\ \A i \in 1 .. Len(ph) : StartOf(i + 1) <= Len(file) <=> i <= n
               /\ StartOf(n + 1) # Len(file) =>
                      n + 1 = Len(ph) /\ Len(file) < StartOf(n + 1) + RecordCells(n + 1)
<1> DEFINE n == Complete(file, ph)
           m == Len(ph)
<1>1. m \in Nat \ {0} /\ m <= MaxGenerations /\ Len(file) \in Nat /\ MaxGenerations \in Nat
    BY LimitAssumption DEF Chain, Holds
<1>2. StartOf(m) <= Len(file) /\ Len(file) <= StartOf(m + 1)
    BY DEF Holds
<1>3. /\ StartOf(m) \in Nat /\ StartOf(m + 1) \in Nat
      /\ StartOf(m + 1) = StartOf(m) + RecordCells(m) /\ RecordCells(m) \in Nat
    BY <1>1, Arithmetic
<1>4. n = IF Len(file) = StartOf(m + 1) THEN m ELSE m - 1
    BY DEF Complete
<1> HIDE DEF n, m
<1>5. \A i \in 1 .. m : i < m => StartOf(i + 1) <= StartOf(m)
  <2> TAKE i \in 1 .. m
  <2>1. HAVE i < m
  <2>2. i + 1 \in Nat \ {0} /\ i + 1 <= m
    BY <1>1, <2>1
  <2> QED BY <1>1, <2>2, StartMonotone
<1>6. CASE Len(file) = StartOf(m + 1)
  <2>1. n = m
    BY <1>4, <1>6
  <2>2. \A i \in 1 .. m : StartOf(i + 1) <= Len(file)
    <3> TAKE i \in 1 .. m
    <3>1. i + 1 \in Nat \ {0} /\ m + 1 \in Nat \ {0} /\ i + 1 <= m + 1
        BY <1>1
    <3> QED BY <1>6, <3>1, StartMonotone
  <2> QED BY <1>1, <1>3, <1>6, <2>1, <2>2 DEF n, m
<1>7. CASE Len(file) # StartOf(m + 1)
  <2>1. n = m - 1 /\ n + 1 = m
    BY <1>1, <1>4, <1>7
  <2>2. Len(file) < StartOf(m + 1)
    BY <1>1, <1>2, <1>3, <1>7
  <2>3. \A i \in 1 .. m : StartOf(i + 1) <= Len(file) <=> i <= n
    <3> TAKE i \in 1 .. m
    <3>0. i \in Nat \ {0}
        BY <1>1
    <3>1. CASE i = m
        BY <1>1, <1>3, <2>1, <2>2, <3>1
    <3>2. CASE i # m
      <4>1. i < m /\ i <= n /\ StartOf(i + 1) \in Nat
        BY <1>1, <2>1, <3>0, <3>2, Arithmetic
      <4>2. StartOf(i + 1) <= StartOf(m)
        BY <1>5, <4>1
      <4> QED BY <1>1, <1>2, <1>3, <4>1, <4>2
    <3> QED BY <3>1, <3>2
  <2>4. n \in Nat /\ n <= m /\ n <= MaxGenerations /\ m <= n + 1
    BY <1>1, <2>1
  <2>5. StartOf(n + 1) \in Nat /\ StartOf(n + 1) <= Len(file)
    BY <1>2, <1>3, <2>1
  <2>6. n + 1 = m /\ Len(file) < StartOf(n + 1) + RecordCells(n + 1)
    BY <1>3, <2>1, <2>2
  <2> QED BY <1>1, <2>3, <2>4, <2>5, <2>6 DEF n, m
<1> QED BY <1>6, <1>7

(* Each header continues the chain of the generations before it.            *)
LEMMA ChainContinues ==
    ASSUME NEW ph, Chain(ph), NEW k \in Nat, k < Len(ph)
    PROVE  ValidateChain(GenerationsOf(ph, k), HeaderOf(ph, k + 1))
<1> DEFINE gens == GenerationsOf(ph, k)
           h == HeaderOf(ph, k + 1)
<1>0. Len(ph) \in Nat /\ k + 1 \in 1 .. Len(ph) /\ (k + 1) - 1 = k
    BY DEF Chain
<1>1. /\ h.generation = k /\ h.phase = ph[k + 1]
      /\ h.previous = IF k + 1 = 1 THEN -1 ELSE StartOf(k)
    BY <1>0, HeaderFacts
<1>2. CASE k = 0
  <2>1. gens = <<>>
    BY <1>2, GenerationsFacts
  <2>2. h.generation = 0 /\ h.phase = Discovered /\ h.previous = -1
    BY <1>1, <1>2 DEF Chain
  <2> HIDE DEF gens, h
  <2>3. ValidateChain(gens, h)
    BY <2>1, <2>2 DEF ValidateChain
  <2> QED BY <2>3 DEF gens, h
<1>3. CASE k # 0
  <2>0. k \in 1 .. Len(ph) /\ k \in 1 .. k /\ k + 1 \in 2 .. Len(ph)
    BY <1>0, <1>3
  <2>1. gens # <<>> /\ Len(gens) = k /\ gens[k] = GenerationOf(ph, k)
    BY <1>3, <2>0, GenerationsFacts
  <2>2. gens[k].start = StartOf(k) /\ gens[k].header = HeaderOf(ph, k)
    BY <2>1 DEF GenerationOf
  <2>3. HeaderOf(ph, k).generation = k - 1 /\ HeaderOf(ph, k).phase = ph[k]
    BY <2>0, HeaderFacts
  <2>4. MayFollow(ph[k + 1], ph[k])
    BY <1>0, <2>0 DEF Chain
  <2>5. h.previous = StartOf(k) /\ h.generation = (k - 1) + 1
    BY <1>1, <1>3
  <2> HIDE DEF gens, h
  <2>6. ValidateChain(gens, h)
    BY <1>1, <2>1, <2>2, <2>3, <2>4, <2>5 DEF ValidateChain
  <2> QED BY <2>6 DEF gens, h
<1> QED BY <1>2, <1>3

(* The payload of a complete record is the one that its header names.       *)
LEMMA PayloadMatches ==
    ASSUME NEW file, NEW ph, NEW bad, Chain(ph), Holds(file, ph, bad),
           NEW i \in 1 .. Len(ph), StartOf(i + 1) <= Len(file)
    PROVE  Slice(file, StartOf(i) + HeaderCells, HeaderOf(ph, i).len)
               = PayloadOf(HeaderOf(ph, i))
<1> DEFINE h == HeaderOf(ph, i)
           o == StartOf(i) + HeaderCells
<1>0. i \in Nat \ {0} /\ Len(file) \in Nat /\ file \in Seq(CellSet)
    BY DEF Chain, Holds
<1>1. h.len = PayloadCells(i)
    BY HeaderFacts
<1>2. /\ HeaderCells \in Nat \ {0} /\ PayloadCells(i) \in Nat \ {0}
      /\ RecordCells(i) = 2 * HeaderCells + PayloadCells(i)
      /\ StartOf(i) \in Nat /\ StartOf(i + 1) = StartOf(i) + RecordCells(i)
    BY <1>0, Arithmetic
<1>3. o \in Nat /\ o + PayloadCells(i) <= Len(file)
    BY <1>0, <1>2
<1>4. Slice(file, o, PayloadCells(i)) = [j \in 1 .. PayloadCells(i) |-> file[o + j]]
  <2> DEFINE l == PayloadCells(i)
  <2>1. file \in Seq(CellSet) /\ o \in Nat /\ l \in Nat /\ o + l <= Len(file)
    BY <1>0, <1>2, <1>3
  <2> HIDE DEF o, l
  <2>2. Slice(file, o, l) = [j \in 1 .. l |-> file[o + j]]
    BY <2>1, SliceIs
  <2> QED BY <2>2 DEF l
<1>5. ASSUME NEW j \in 1 .. PayloadCells(i) PROVE file[o + j] = Cell("payload", j, h)
  <2> DEFINE a == HeaderCells + j - 1
  <2>1. /\ a \in PayloadPart(i) /\ ~ (a < HeaderCells) /\ a < HeaderCells + PayloadCells(i)
        /\ a + 1 - HeaderCells = j
    BY <1>2, SMTT(60) DEF PayloadPart
  <2>2. StartOf(i) + a < Len(file) /\ StartOf(i) + a + 1 = o + j
    <3>1. a \in Nat /\ a < RecordCells(i) /\ StartOf(i) \in Nat /\ RecordCells(i) \in Nat
        BY <1>2
    <3>2. StartOf(i) + a + 1 = o + j
        BY <1>2
    <3> HIDE DEF a
    <3>3. StartOf(i) + a < StartOf(i + 1) /\ StartOf(i + 1) \in Nat
        BY <1>2, <3>1
    <3> QED BY <1>0, <3>1, <3>2, <3>3
  <2>3. AsWritten(file, ph, i, PayloadPart(i))
    BY DEF Holds, Readable
  <2> HIDE DEF a, h, o
  <2>4. file[StartOf(i) + a + 1] = Written(ph, i, a)
    BY <2>1, <2>2, <2>3 DEF AsWritten
  <2>5. Written(ph, i, a) = Cell("payload", a + 1 - HeaderCells, h)
    BY <2>1 DEF Written, h
  <2> QED BY <2>1, <2>2, <2>4, <2>5
<1> HIDE DEF h, o
<1>6. Slice(file, o, h.len) = PayloadOf(h)
    BY <1>1, <1>4, <1>5 DEF PayloadOf
<1> QED BY <1>6 DEF h, o

(* One round of the loop reads one complete record.                         *)
LEMMA RoundReads ==
    ASSUME NEW file, NEW ph, NEW bad, Chain(ph), Holds(file, ph, bad), NEW allow,
           NEW k \in Nat, k < Complete(file, ph)
    PROVE  ReadGeneration(file, FindCandidates(file), allow,
                          Reading(GenerationsOf(ph, k), StartOf(k + 1)))
               = Reading(GenerationsOf(ph, k + 1), StartOf(k + 2))
<1> DEFINE n == Complete(file, ph)
           i == k + 1
           g == GenerationOf(ph, i)
           gens == GenerationsOf(ph, k)
           s == Reading(gens, StartOf(i))
           C == FindCandidates(file)
           here == {c \in C : c.start = s.validated}
<1>1. /\ n \in Nat /\ n <= Len(ph) /\ n <= MaxGenerations /\ Len(file) \in Nat
      /\ \A j \in 1 .. Len(ph) : StartOf(j + 1) <= Len(file) <=> j <= n
    BY CompleteFacts
<1>2. /\ i \in 1 .. Len(ph) /\ i \in Nat \ {0} /\ k < Len(ph) /\ ~ (k >= MaxGenerations)
      /\ i + 1 = k + 2 /\ Len(ph) \in Nat
  <2>1. Len(ph) \in Nat /\ MaxGenerations \in Nat
    BY LimitAssumption DEF Chain
  <2> QED BY <1>1, <2>1
<1>3. StartOf(i + 1) <= Len(file)
  <2>1. i <= n
    BY <1>1
  <2> QED BY <1>1, <1>2, <2>1
<1>4. /\ StartOf(i) \in Nat /\ RecordCells(i) \in Nat \ {0}
      /\ StartOf(i + 1) = StartOf(i) + RecordCells(i)
      /\ RecordCells(i) = 2 * HeaderCells + PayloadCells(i)
      /\ HeaderCells \in Nat /\ PayloadCells(i) \in Nat
    BY <1>2, Arithmetic
<1>5. /\ s.status = "reading" /\ s.validated = StartOf(i) /\ s.generations = gens
    BY DEF Reading
<1>6. g.start = StartOf(i) /\ g.header = HeaderOf(ph, i) /\ g.header.len = PayloadCells(i)
    BY <1>2, HeaderFacts DEF GenerationOf
<1>7. g \in C
    BY <1>2, <1>3, GenerationFound
<1>8. \A c \in C : c.start = StartOf(i) => c = g
    BY <1>2, OnlyGeneration
<1>9. Len(gens) = k /\ Append(gens, g) = GenerationsOf(ph, k + 1)
    BY GenerationsFacts
<1>10. ValidateChain(gens, g.header)
    BY <1>2, <1>6, ChainContinues
<1>11. Slice(file, StartOf(i) + HeaderCells, g.header.len) = PayloadOf(g.header)
    BY <1>2, <1>3, <1>6, PayloadMatches
<1>12. StartOf(i) + 2 * HeaderCells + g.header.len = StartOf(i + 1)
    BY <1>4, <1>6
<1>13. ~ (StartOf(i) >= Len(file))
    BY <1>1, <1>3, <1>4, SMTT(60)
<1> HIDE DEF n, i, g, gens, s, C
<1>14. here = {g}
    BY <1>5, <1>6, <1>7, <1>8
<1>15. (CHOOSE d \in here : TRUE) = g
    BY <1>14
<1>16. here # {}
    BY <1>14
<1> DEFINE c == CHOOSE d \in here : TRUE
<1>17. ReadGeneration(file, C, allow, s) =
          IF s.status # "reading" THEN s
          ELSE IF s.validated >= Len(file) THEN [s EXCEPT !.status = "read"]
          ELSE IF Len(s.generations) >= MaxGenerations THEN Refusal
          ELSE IF here = {}
          THEN IF allow /\ IsRecoverableTornTail(file, s.validated, s.generations)
               THEN [s EXCEPT !.status = "read"] ELSE Refusal
          ELSE IF /\ Slice(file, s.validated + HeaderCells, c.header.len)
                        = PayloadOf(c.header)
                  /\ ValidateChain(s.generations, c.header)
          THEN Reading(Append(s.generations, c),
                       s.validated + 2 * HeaderCells + c.header.len)
          ELSE Refusal
    BY Zenon DEF ReadGeneration
<1> HIDE DEF here
<1>18. c = g
    BY <1>15
<1> HIDE DEF c
<1>19. ReadGeneration(file, C, allow, s) = Reading(Append(gens, g), StartOf(i + 1))
    BY <1>2, <1>5, <1>9, <1>10, <1>11, <1>12, <1>13, <1>16, <1>17, <1>18
<1> QED BY <1>2, <1>9, <1>19 DEF s, C, i, gens

(* What an interrupted append leaves behind is recognized as a torn tail.   *)
LEMMA TornIsRecoverable ==
    ASSUME NEW file, NEW ph, NEW bad, Chain(ph), Holds(file, ph, bad),
           StartOf(Complete(file, ph) + 1) # Len(file)
    PROVE  LET n == Complete(file, ph)
           IN  IsRecoverableTornTail(file, StartOf(n + 1), GenerationsOf(ph, n))
<1> DEFINE n == Complete(file, ph)
           i == n + 1
           h == HeaderOf(ph, i)
           o == StartOf(i)
<1>1. /\ n \in Nat /\ i = Len(ph) /\ Len(file) \in Nat /\ o \in Nat /\ o < Len(file)
      /\ Len(file) < o + RecordCells(i) /\ n < Len(ph)
  <2>1. /\ n \in Nat /\ i = Len(ph) /\ Len(file) \in Nat /\ o \in Nat /\ o <= Len(file)
        /\ Len(file) < o + RecordCells(i)
    BY CompleteFacts
  <2> QED BY <2>1
<1>2. /\ i \in Nat \ {0} /\ i \in 1 .. Len(ph)
    BY <1>1
<1>3. /\ HeaderCells \in Nat \ {0} /\ PayloadCells(i) \in Nat \ {0}
      /\ RecordCells(i) = 2 * HeaderCells + PayloadCells(i)
      /\ StartOf(i + 1) = o + RecordCells(i)
    BY <1>2, Arithmetic
<1>4. h # NoHeader /\ h.len = PayloadCells(i)
    BY <1>2, HeaderFacts
<1>5. ValidateChain(GenerationsOf(ph, n), h)
    BY <1>1, ChainContinues
<1>6. file \in Seq(CellSet)
    BY DEF Holds
<1>7. AsWritten(file, ph, i, 0 .. RecordCells(i) - 1)
  <2>1. i \notin bad
    <3>1. ~ (StartOf(i + 1) <= Len(file))
        BY <1>1, <1>3
    <3> QED BY <1>2, <3>1 DEF Holds
  <2> QED BY <1>2, <2>1 DEF Holds
<1> HIDE DEF n, i, h, o
<1>8. CASE Len(file) < o + HeaderCells
  <2>1. Len(file) - o \in 1 .. HeaderCells - 1
    BY <1>1, <1>3, <1>8
  <2>2. IsRecoverableTornTail(file, o, GenerationsOf(ph, n))
    BY <2>1 DEF IsRecoverableTornTail
  <2> QED BY <2>2 DEF o, i, n
<1>9. CASE ~ (Len(file) < o + HeaderCells)
  <2>1. ASSUME NEW j \in 1 .. HeaderCells PROVE file[o + j] = Cell("header", j, h)
    <3> DEFINE a == j - 1
    <3>1. /\ a \in 0 .. RecordCells(i) - 1 /\ a < HeaderCells /\ a + 1 = j
          /\ o + a < Len(file) /\ o + a + 1 = o + j
        BY <1>1, <1>3, <1>9
    <3> HIDE DEF a
    <3>2. file[StartOf(i) + a + 1] = Written(ph, i, a)
        BY <1>7, <3>1 DEF AsWritten, o
    <3>3. Written(ph, i, a) = Cell("header", a + 1, h)
        BY <3>1 DEF Written, h
    <3> QED BY <3>1, <3>2, <3>3 DEF o
  <2>2. o + HeaderCells <= Len(file)
    BY <1>1, <1>3, <1>9
  <2>3. DecodeHeader(file, o) = h
    BY <1>1, <1>6, <2>1, <2>2, DecodeGood
  <2>4. o + 2 * HeaderCells + h.len > Len(file)
    BY <1>1, <1>3, <1>4
  <2>5. IsRecoverableTornTail(file, o, GenerationsOf(ph, n))
    BY <1>4, <1>5, <2>3, <2>4 DEF IsRecoverableTornTail
  <2> QED BY <2>5 DEF o, i, n
<1> QED BY <1>8, <1>9

(* How the loop ends.                                                       *)
EndOf(file, ph, allow) ==
    LET n == Complete(file, ph)
    IN  IF StartOf(n + 1) = Len(file) \/ allow
        THEN [status |-> "read", generations |-> GenerationsOf(ph, n),
              validated |-> StartOf(n + 1)]
        ELSE Refusal

(* Behind the last complete generation a round of the loop settles it.      *)
LEMMA RoundSettles ==
    ASSUME NEW file, NEW ph, NEW bad, Chain(ph), Holds(file, ph, bad), NEW allow \in BOOLEAN
    PROVE  LET n == Complete(file, ph)
           IN  ReadGeneration(file, FindCandidates(file), allow,
                              Reading(GenerationsOf(ph, n), StartOf(n + 1)))
                   = EndOf(file, ph, allow)
<1> DEFINE n == Complete(file, ph)
           gens == GenerationsOf(ph, n)
           o == StartOf(n + 1)
           s == Reading(gens, o)
           C == FindCandidates(file)
           here == {c \in C : c.start = s.validated}
           c == CHOOSE d \in here : TRUE
           end == [status |-> "read", generations |-> gens, validated |-> o]
<1>1. /\ n \in Nat /\ n <= MaxGenerations /\ Len(file) \in Nat /\ o \in Nat /\ o <= Len(file)
    BY CompleteFacts
<1>2. s.status = "reading" /\ s.validated = o /\ s.generations = gens
    BY DEF Reading
<1>3. [s EXCEPT !.status = "read"] = end
    BY DEF Reading
<1>4. Len(gens) = n
    BY <1>1, GenerationsFacts
<1>5. ReadGeneration(file, C, allow, s) =
          IF s.status # "reading" THEN s
          ELSE IF s.validated >= Len(file) THEN [s EXCEPT !.status = "read"]
          ELSE IF Len(s.generations) >= MaxGenerations THEN Refusal
          ELSE IF here = {}
          THEN IF allow /\ IsRecoverableTornTail(file, s.validated, s.generations)
               THEN [s EXCEPT !.status = "read"] ELSE Refusal
          ELSE IF /\ Slice(file, s.validated + HeaderCells, c.header.len)
                        = PayloadOf(c.header)
                  /\ ValidateChain(s.generations, c.header)
          THEN Reading(Append(s.generations, c),
                       s.validated + 2 * HeaderCells + c.header.len)
          ELSE Refusal
    BY Zenon DEF ReadGeneration
<1>6. CASE o = Len(file)
  <2>1. o >= Len(file)
    BY <1>1, <1>6
  <2>2. EndOf(file, ph, allow) = end
    BY <1>6 DEF EndOf
  <2> HIDE DEF s, C, here, c, end, o, gens, n
  <2>3. ReadGeneration(file, C, allow, s) = end
    BY <1>2, <1>3, <1>5, <2>1
  <2> QED BY <2>2, <2>3 DEF s, C, o, gens, n
<1>7. CASE o # Len(file)
  <2>1. n + 1 = Len(ph) /\ Len(file) < o + RecordCells(n + 1)
    BY <1>7, CompleteFacts
  <2>2. n + 1 \in Nat \ {0} /\ n + 1 \in 1 .. Len(ph) /\ Len(ph) <= MaxGenerations
    BY <1>1, <2>1 DEF Chain
  <2>3. StartOf(n + 1 + 1) = o + RecordCells(n + 1) /\ RecordCells(n + 1) \in Nat
    BY <2>2, Arithmetic
  <2>4. here = {}
    <3>1. SUFFICES ASSUME NEW d \in C, d.start = o PROVE FALSE
        BY <1>2
    <3>2. StartOf(n + 1 + 1) <= Len(file)
        BY <2>2, <3>1, OnlyGeneration
    <3> QED BY <1>1, <2>1, <2>3, <3>2
  <2>5. ~ (n >= MaxGenerations)
    <3>1. MaxGenerations \in Nat
        BY LimitAssumption
    <3> QED BY <1>1, <2>1, <2>2, <3>1
  <2>6. ~ (o >= Len(file))
    BY <1>1, <1>7
  <2>7. IsRecoverableTornTail(file, o, gens)
    BY <1>7, TornIsRecoverable
  <2>8. EndOf(file, ph, allow) = IF allow THEN end ELSE Refusal
    BY <1>7 DEF EndOf
  <2> HIDE DEF s, C, here, c, end, o, gens, n
  <2>9. ReadGeneration(file, C, allow, s) = IF allow THEN end ELSE Refusal
    BY <1>2, <1>3, <1>4, <1>5, <2>4, <2>5, <2>6, <2>7
  <2> QED BY <2>8, <2>9 DEF s, C, o, gens, n
<1> QED BY <1>6, <1>7

(* The loop ends with all complete generations.                             *)
LEMMA WalkEnds ==
    ASSUME NEW file, NEW ph, NEW bad, Chain(ph), Holds(file, ph, bad), NEW allow \in BOOLEAN
    PROVE  Walk(file, FindCandidates(file), allow)[MaxGenerations + 1] = EndOf(file, ph, allow)
<1> DEFINE n == Complete(file, ph)
           C == FindCandidates(file)
           w == Walk(file, C, allow)
           Read(s) == ReadGeneration(file, C, allow, s)
           end == EndOf(file, ph, allow)
<1>1. w[0] = Reading(<<>>, 0) /\ \A k \in 0 .. MaxGenerations : w[k + 1] = Read(w[k])
    BY WalkRounds
<1>2. n \in Nat /\ n <= MaxGenerations /\ MaxGenerations \in Nat
    BY CompleteFacts, LimitAssumption
<1>3. \A k \in Nat : k < n =>
          Read(Reading(GenerationsOf(ph, k), StartOf(k + 1)))
              = Reading(GenerationsOf(ph, k + 1), StartOf(k + 2))
    BY RoundReads
<1>4. Read(Reading(GenerationsOf(ph, n), StartOf(n + 1))) = end
    BY RoundSettles
<1>5. Read(end) = end
  <2>1. end.status # "reading"
    BY DEF EndOf, Refusal
  <2> HIDE DEF end
  <2> QED BY <2>1 DEF ReadGeneration
<1> HIDE DEF w, Read, end, n, C
<1> DEFINE T == {k \in Nat : k <= n => w[k] = Reading(GenerationsOf(ph, k), StartOf(k + 1))}
<1>6. T = Nat
  <2>1. 0 \in T
    <3>1. GenerationsOf(ph, 0) = <<>> /\ StartOf(0 + 1) = 0
        BY GenerationsFacts, StartNext
    <3> QED BY <1>1, <3>1
  <2>2. ASSUME NEW k \in T PROVE k + 1 \in T
    <3>1. SUFFICES ASSUME k + 1 <= n
                   PROVE  w[k + 1] = Reading(GenerationsOf(ph, k + 1), StartOf(k + 1 + 1))
        OBVIOUS
    <3>2. k \in Nat /\ k <= n /\ k < n /\ k \in 0 .. MaxGenerations /\ k + 1 + 1 = k + 2
        BY <1>2, <3>1
    <3>3. w[k] = Reading(GenerationsOf(ph, k), StartOf(k + 1))
        BY <3>2
    <3> QED BY <1>1, <1>3, <3>2, <3>3
  <2> HIDE DEF T
  <2> QED BY <2>1, <2>2, Induction DEF T
<1>7. w[n] = Reading(GenerationsOf(ph, n), StartOf(n + 1))
    BY <1>2, <1>6
<1>8. w[n + 1] = end
    BY <1>1, <1>2, <1>4, <1>7
<1> DEFINE U == {d \in Nat : n + d <= MaxGenerations => w[n + d + 1] = end}
<1>9. U = Nat
  <2>1. 0 \in U
    BY <1>2, <1>8
  <2>2. ASSUME NEW d \in U PROVE d + 1 \in U
    <3>1. SUFFICES ASSUME n + (d + 1) <= MaxGenerations PROVE w[n + (d + 1) + 1] = end
        OBVIOUS
    <3>2. d \in Nat /\ n + d <= MaxGenerations /\ n + d + 1 \in 0 .. MaxGenerations
          /\ n + (d + 1) + 1 = (n + d + 1) + 1
        BY <1>2, <3>1
    <3>3. w[n + d + 1] = end
        BY <3>2
    <3> QED BY <1>1, <1>5, <3>2, <3>3
  <2> HIDE DEF U
  <2> QED BY <2>1, <2>2, Induction DEF U
<1>10. MaxGenerations - n \in U /\ n + (MaxGenerations - n) = MaxGenerations
  <2> HIDE DEF U
  <2> QED BY <1>2, <1>9
<1>11. w[MaxGenerations + 1] = end
    BY <1>2, <1>10
<1> QED BY <1>11 DEF w, C, end

(* The two scans of a file with one bad header copy per generation at most  *)
(* and a torn tail: recovery reads every complete generation, the strict    *)
(* scan does so unless there is a tail.                                     *)
LEMMA ScanResult ==
    ASSUME NEW file, NEW ph, NEW bad, Chain(ph), Holds(file, ph, bad), NEW allow \in BOOLEAN
    PROVE  LET n == Complete(file, ph)
               good == StartOf(n + 1) = Len(file) \/ allow
           IN  ScanImpl(file, allow) =
                   [ok |-> good, generations |-> IF good THEN GenerationsOf(ph, n) ELSE <<>>,
                    validated |-> IF good THEN StartOf(n + 1) ELSE 0]
<1> DEFINE n == Complete(file, ph)
           good == StartOf(n + 1) = Len(file) \/ allow
           C == FindCandidates(file)
           w == Walk(file, C, allow)
<1>1. ~ (Len(file) > MaxCells)
    BY LimitAssumption DEF Holds
<1>2. ~ \E c, d \in C : c.start = d.start /\ c.header # d.header
    BY CandidatesAgree
<1>3. w[MaxGenerations + 1] = EndOf(file, ph, allow)
    BY WalkEnds
<1>4. ScanImpl(file, allow) =
          [ok |-> EndOf(file, ph, allow).status = "read",
           generations |-> EndOf(file, ph, allow).generations,
           validated |-> EndOf(file, ph, allow).validated]
  <2> HIDE DEF C, w
  <2> DEFINE e == EndOf(file, ph, allow)
             end == IF Len(file) > MaxCells
                       \/ \E c, d \in C : c.start = d.start /\ c.header # d.header
                    THEN Refusal ELSE w[MaxGenerations + 1]
  <2>1. end = e
    BY <1>1, <1>2, <1>3
  <2>2. ScanImpl(file, allow) =
            [ok |-> end.status = "read", generations |-> end.generations,
             validated |-> end.validated]
    BY Zenon DEF ScanImpl, C, w
  <2> HIDE DEF end, e
  <2> QED BY <2>1, <2>2 DEF e
<1>5. CASE good
  <2>1. EndOf(file, ph, allow) = [status |-> "read", generations |-> GenerationsOf(ph, n),
                                  validated |-> StartOf(n + 1)]
    BY <1>5 DEF EndOf
  <2> HIDE DEF n
  <2> QED BY <1>4, <1>5, <2>1 DEF n
<1>6. CASE ~ good
  <2>1. EndOf(file, ph, allow) = Refusal
    BY <1>6 DEF EndOf
  <2> QED BY <1>4, <1>6, <2>1 DEF Refusal
<1> QED BY <1>5, <1>6

-----------------------------------------------------------------------------
(* What appends, cuts and decay make of a file.                             *)

(* The cells of a record, by their offset.                                  *)
LEMMA RecordIs ==
    ASSUME NEW ph, Chain(ph), NEW i \in 1 .. Len(ph)
    PROVE  LET r == Record(HeaderOf(ph, i))
           IN  /\ r \in Seq(CellSet) /\ Len(r) = RecordCells(i)
               /\ \A a \in 0 .. RecordCells(i) - 1 : r[a + 1] = Written(ph, i, a)
<1> DEFINE h == HeaderOf(ph, i)
           e == EncodeHeader(h)
           p == PayloadOf(h)
           H == HeaderCells
           P == PayloadCells(i)
           R == RecordCells(i)
           r == Record(h)
<1>0. i \in Nat \ {0}
    BY DEF Chain
<1>1. H \in Nat \ {0} /\ P \in Nat \ {0} /\ R = 2 * H + P /\ R \in Nat
    BY <1>0, Arithmetic
<1>2. h \in Headers /\ h.len = P
    BY HeaderFacts
<1> HIDE DEF h, H, P, R
<1>3. \A j \in Nat : Cell("header", j, h) \in CellSet /\ Cell("payload", j, h) \in CellSet
    BY <1>2 DEF Cell, CellSet
<1>4. e \in Seq(CellSet) /\ Len(e) = H /\ \A j \in 1 .. H : e[j] = Cell("header", j, h)
    BY <1>1, <1>3 DEF EncodeHeader, H
<1>5. p \in Seq(CellSet) /\ Len(p) = P /\ \A j \in 1 .. P : p[j] = Cell("payload", j, h)
    BY <1>1, <1>2, <1>3 DEF PayloadOf
<1> HIDE DEF e, p
<1> DEFINE ep == e \o p
<1>6. /\ ep \in Seq(CellSet) /\ Len(ep) = H + P
      /\ \A j \in 1 .. H + P : ep[j] = IF j <= H THEN e[j] ELSE p[j - H]
    BY <1>4, <1>5, ConcatProperties, ZenonT(60)
<1> HIDE DEF ep
<1>7. /\ ep \o e \in Seq(CellSet) /\ Len(ep \o e) = H + P + H
      /\ \A j \in 1 .. H + P + H : (ep \o e)[j] = IF j <= H + P THEN ep[j] ELSE e[j - (H + P)]
  <2>1. ep \in Seq(CellSet) /\ e \in Seq(CellSet)
    BY <1>4, <1>6
  <2>2. /\ ep \o e \in Seq(CellSet) /\ Len(ep \o e) = Len(ep) + Len(e)
        /\ \A j \in 1 .. Len(ep) + Len(e) :
               (ep \o e)[j] = IF j <= Len(ep) THEN ep[j] ELSE e[j - Len(ep)]
    BY <2>1, ConcatProperties
  <2>3. Len(ep) = H + P /\ Len(e) = H
    BY <1>4, <1>6
  <2> QED BY <2>2, <2>3
<1>8. r = ep \o e
    BY DEF Record, ep, e, p
<1> HIDE DEF r
<1>9. H + P + H = R
    BY <1>1
<1>10. ASSUME NEW a \in 0 .. R - 1 PROVE r[a + 1] = Written(ph, i, a)
  <2>0. a \in Nat /\ a + 1 \in 1 .. H + P + H
    BY <1>1, <1>9
  <2>1. CASE a < H
    <3>1. a + 1 \in 1 .. H /\ a + 1 <= H /\ a + 1 <= H + P /\ a + 1 \in 1 .. H + P
        BY <1>1, <2>0, <2>1
    <3>2. r[a + 1] = Cell("header", a + 1, h)
        BY <1>4, <1>6, <1>7, <1>8, <2>0, <3>1
    <3>3. Written(ph, i, a) = Cell("header", a + 1, h)
        BY <2>1 DEF Written, h, H
    <3> QED BY <3>2, <3>3
  <2>2. CASE ~ (a < H) /\ a < H + P
    <3>1. /\ ~ (a + 1 <= H) /\ a + 1 <= H + P /\ a + 1 \in 1 .. H + P
          /\ a + 1 - H \in 1 .. P
        BY <1>1, <2>0, <2>2
    <3>2. r[a + 1] = Cell("payload", a + 1 - H, h)
      <4>1. r[a + 1] = ep[a + 1]
        BY <1>7, <1>8, <2>0, <3>1
      <4>2. ep[a + 1] = p[a + 1 - H]
        <5> DEFINE j == a + 1
        <5>1. j \in 1 .. H + P /\ ~ (j <= H)
            BY <3>1
        <5> HIDE DEF j
        <5>2. ep[j] = p[j - H]
            BY <1>6, <5>1
        <5>3. j - H = a + 1 - H
            BY <1>1, <2>0 DEF j
        <5> QED BY <5>2, <5>3 DEF j
      <4>3. p[a + 1 - H] = Cell("payload", a + 1 - H, h)
        <5> DEFINE j == a + 1 - H
        <5>1. j \in 1 .. P
            BY <3>1
        <5> HIDE DEF j
        <5>2. p[j] = Cell("payload", j, h)
            BY <1>5, <5>1
        <5> QED BY <5>2 DEF j
      <4> QED BY <4>1, <4>2, <4>3
    <3>3. Written(ph, i, a) = Cell("payload", a + 1 - H, h)
        BY <2>2 DEF Written, h, H, P
    <3> QED BY <3>2, <3>3
  <2>3. CASE ~ (a < H) /\ ~ (a < H + P)
    <3>1. ~ (a + 1 <= H + P) /\ a + 1 - (H + P) \in 1 .. H /\ a + 1 - (H + P) = a + 1 - H - P
        BY <1>1, <2>0, <2>3
    <3>2. r[a + 1] = Cell("header", a + 1 - H - P, h)
      <4>1. r[a + 1] = e[a + 1 - (H + P)]
        <5> DEFINE j == a + 1
        <5>1. j \in 1 .. H + P + H /\ ~ (j <= H + P)
            BY <2>0, <3>1
        <5> HIDE DEF j
        <5>2. r[j] = e[j - (H + P)]
            BY <1>7, <1>8, <5>1
        <5>3. j - (H + P) = a + 1 - (H + P)
            BY <1>1, <2>0 DEF j
        <5> QED BY <5>2, <5>3 DEF j
      <4>2. e[a + 1 - (H + P)] = Cell("header", a + 1 - (H + P), h)
        <5> DEFINE j == a + 1 - (H + P)
        <5>1. j \in 1 .. H
            BY <3>1
        <5> HIDE DEF j
        <5>2. e[j] = Cell("header", j, h)
            BY <1>4, <5>1
        <5> QED BY <5>2 DEF j
      <4> QED BY <3>1, <4>1, <4>2
    <3>3. Written(ph, i, a) = Cell("header", a + 1 - H - P, h)
        BY <2>3 DEF Written, h, H, P
    <3> QED BY <3>2, <3>3
  <2> QED BY <2>1, <2>2, <2>3
<1>11. r \in Seq(CellSet) /\ Len(r) = R
    BY <1>7, <1>8, <1>9
<1> QED BY <1>10, <1>11 DEF r, R, h

(* The three parts of a record lie within it.                               *)
LEMMA Parts ==
    ASSUME NEW i \in Nat \ {0}
    PROVE  /\ PrimaryPart(i) \in SUBSET (0 .. RecordCells(i) - 1)
           /\ PayloadPart(i) \in SUBSET (0 .. RecordCells(i) - 1)
           /\ TrailingPart(i) \in SUBSET (0 .. RecordCells(i) - 1)
<1>1. /\ HeaderCells \in Nat /\ PayloadCells(i) \in Nat
      /\ RecordCells(i) = 2 * HeaderCells + PayloadCells(i)
    BY Arithmetic
<1> QED BY <1>1 DEF PrimaryPart, PayloadPart, TrailingPart

(* A complete record reads the same in files that have the same cells.      *)
LEMMA Transfer ==
    ASSUME NEW file, NEW other, NEW ph, NEW q, NEW i \in Nat \ {0}, ph[i] = q[i],
           Len(file) \in Nat, Len(other) \in Nat,
           StartOf(i + 1) <= Len(file),
           \A a \in 0 .. RecordCells(i) - 1 :
               file[StartOf(i) + a + 1] = other[StartOf(i) + a + 1]
    PROVE  /\ Readable(file, ph, i) => Readable(other, q, i)
           /\ \A offsets \in SUBSET (0 .. RecordCells(i) - 1) :
                  AsWritten(file, ph, i, offsets) => AsWritten(other, q, i, offsets)
<1>1. /\ RecordCells(i) \in Nat /\ StartOf(i) \in Nat
      /\ StartOf(i + 1) = StartOf(i) + RecordCells(i)
      /\ HeaderCells \in Nat /\ PayloadCells(i) \in Nat
      /\ RecordCells(i) = 2 * HeaderCells + PayloadCells(i)
    BY Arithmetic
<1>2. \A a \in 0 .. RecordCells(i) - 1 : StartOf(i) + a < Len(file)
    BY <1>1, SMTT(60)
<1>3. \A a : Written(ph, i, a) = Written(q, i, a)
  <2>1. HeaderOf(ph, i) = HeaderOf(q, i)
    BY DEF HeaderOf
  <2> QED BY <2>1 DEF Written
<1>4. ASSUME NEW offsets \in SUBSET (0 .. RecordCells(i) - 1),
             AsWritten(file, ph, i, offsets)
      PROVE  AsWritten(other, q, i, offsets)
    BY <1>2, <1>3, <1>4 DEF AsWritten
<1>5. /\ PrimaryPart(i) \in SUBSET (0 .. RecordCells(i) - 1)
      /\ PayloadPart(i) \in SUBSET (0 .. RecordCells(i) - 1)
      /\ TrailingPart(i) \in SUBSET (0 .. RecordCells(i) - 1)
    BY Parts
<1>6. ASSUME Readable(file, ph, i) PROVE Readable(other, q, i)
  <2>1. \A a \in 0 .. RecordCells(i) - 1 :
            other[StartOf(i) + a + 1] \in {Written(q, i, a), Junk}
    BY <1>2, <1>3, <1>6 DEF Readable
  <2>2. AsWritten(other, q, i, PayloadPart(i))
    BY <1>4, <1>5, <1>6 DEF Readable
  <2>3. \/ AsWritten(other, q, i, PrimaryPart(i))
        \/ AsWritten(other, q, i, TrailingPart(i))
    BY <1>4, <1>5, <1>6 DEF Readable
  <2> QED BY <2>1, <2>2, <2>3 DEF Readable
<1> QED BY <1>4, <1>6

(* The file before its first record is written.                             *)
First == <<Discovered>>

(* A file without a cell, before its first record.                          *)
LEMMA EmptyFile ==
    /\ Chain(First) /\ Len(First) = 1 /\ First \in Seq(Phases)
    /\ Holds(<<>>, First, {})
<1>1. First \in Seq(Phases) /\ Len(First) = 1 /\ First[1] = Discovered
    BY DEF First, Phases, Discovered
<1>2. Chain(First)
    BY <1>1, LimitAssumption DEF Chain
<1>3. StartOf(1) = 0 /\ StartOf(1 + 1) \in Nat /\ RecordCells(1) \in Nat
    BY Arithmetic, StartNext
<1>4. <<>> \in Seq(CellSet) /\ Len(<<>>) = 0 /\ 0 <= MaxCells
    BY LimitAssumption
<1>5. \A a \in 0 .. RecordCells(1) - 1 : ~ (StartOf(1) + a < Len(<<>>))
    BY <1>3, <1>4
<1>6. \A offsets \in SUBSET (0 .. RecordCells(1) - 1) : AsWritten(<<>>, First, 1, offsets)
    BY <1>5 DEF AsWritten
<1>7. /\ PrimaryPart(1) \in SUBSET (0 .. RecordCells(1) - 1)
      /\ PayloadPart(1) \in SUBSET (0 .. RecordCells(1) - 1)
    BY Parts
<1>8. Readable(<<>>, First, 1)
    BY <1>5, <1>6, <1>7 DEF Readable
<1>9. Holds(<<>>, First, {})
    BY <1>1, <1>3, <1>4, <1>6, <1>8 DEF Holds
<1> QED BY <1>1, <1>2, <1>9

(* Seen as the file before the next record is written.                      *)
LEMMA BeforeAppend ==
    ASSUME NEW file, NEW ph, NEW bad, Chain(ph), Holds(file, ph, bad),
           Len(file) = StartOf(Len(ph) + 1), NEW q, Chain(q), Len(q) = Len(ph) + 1,
           \A i \in 1 .. Len(ph) : q[i] = ph[i]
    PROVE  Holds(file, q, bad)
<1> DEFINE m == Len(ph)
<1>1. m \in Nat \ {0} /\ Len(file) \in Nat /\ file \in Seq(CellSet) /\ Len(file) <= MaxCells
    BY DEF Chain, Holds
<1>2. m + 1 \in Nat \ {0} /\ Len(q) = m + 1
    BY <1>1
<1> HIDE DEF m
<1>3. /\ StartOf(m + 1) \in Nat /\ StartOf(m + 1 + 1) \in Nat /\ RecordCells(m + 1) \in Nat
      /\ StartOf(m + 1 + 1) = StartOf(m + 1) + RecordCells(m + 1)
      /\ HeaderCells \in Nat /\ PayloadCells(m + 1) \in Nat
      /\ RecordCells(m + 1) = 2 * HeaderCells + PayloadCells(m + 1)
    BY <1>2, Arithmetic
<1>4. Len(file) = StartOf(m + 1)
    BY DEF m
<1>5. ASSUME NEW i \in 1 .. m
      PROVE  /\ Readable(file, q, i)
             /\ i \notin bad => AsWritten(file, q, i, 0 .. RecordCells(i) - 1)
  <2>1. i \in Nat \ {0} /\ i + 1 \in Nat \ {0} /\ i + 1 <= m + 1
    BY <1>1
  <2>2. StartOf(i + 1) <= Len(file)
    BY <1>2, <1>4, <2>1, StartMonotone
  <2>3. ph[i] = q[i]
    BY DEF m
  <2>4. /\ Readable(file, ph, i)
        /\ i \notin bad => AsWritten(file, ph, i, 0 .. RecordCells(i) - 1)
    BY DEF Holds, m
  <2>5. /\ Readable(file, ph, i) => Readable(file, q, i)
        /\ \A offsets \in SUBSET (0 .. RecordCells(i) - 1) :
               AsWritten(file, ph, i, offsets) => AsWritten(file, q, i, offsets)
    BY <1>1, <2>1, <2>2, <2>3, Transfer
  <2> QED BY <2>4, <2>5
<1>6. \A a \in 0 .. RecordCells(m + 1) - 1 : ~ (StartOf(m + 1) + a < Len(file))
    BY <1>1, <1>3, <1>4
<1>7. \A offsets \in SUBSET (0 .. RecordCells(m + 1) - 1) : AsWritten(file, q, m + 1, offsets)
    BY <1>6 DEF AsWritten
<1>8. /\ PrimaryPart(m + 1) \in SUBSET (0 .. RecordCells(m + 1) - 1)
      /\ PayloadPart(m + 1) \in SUBSET (0 .. RecordCells(m + 1) - 1)
    BY <1>2, Parts
<1>9. Readable(file, q, m + 1)
    BY <1>6, <1>7, <1>8 DEF Readable
<1>10. ASSUME NEW i \in 1 .. Len(q)
       PROVE  /\ Readable(file, q, i)
              /\ i \notin bad => AsWritten(file, q, i, 0 .. RecordCells(i) - 1)
  <2>1. i \in 1 .. m \/ i = m + 1
    BY <1>1, <1>2
  <2> QED BY <1>5, <1>7, <1>9, <2>1
<1>11. \A i \in bad : i \in 1 .. Len(q) /\ StartOf(i + 1) <= Len(file)
  <2>1. \A i \in bad : i \in 1 .. m /\ StartOf(i + 1) <= Len(file)
    BY DEF Holds, m
  <2> QED BY <1>1, <1>2, <2>1
<1>12. StartOf(Len(q)) <= Len(file) /\ Len(file) <= StartOf(Len(q) + 1)
    BY <1>2, <1>3, <1>4
<1> QED BY <1>1, <1>10, <1>11, <1>12 DEF Holds

(* A file with all but its last record, and any part of that record.        *)
Appending(file, q, bad, tail, written) ==
    /\ Chain(q) /\ Holds(file, q, bad) /\ Len(file) = StartOf(Len(q))
    /\ written \in Nat /\ written <= RecordCells(Len(q)) /\ Len(file) + written <= MaxCells
    /\ tail = Slice(Record(HeaderOf(q, Len(q))), 0, written)

(* The file with that part of its last record written.                      *)
LEMMA AfterAppend ==
    ASSUME NEW file, NEW q, NEW bad, NEW tail, NEW written,
           Appending(file, q, bad, tail, written)
    PROVE  /\ tail \in Seq(CellSet) /\ Len(tail) = written
           /\ Holds(file \o tail, q, bad)
           /\ Len(file \o tail) = StartOf(Len(q)) + written
           /\ Slice(file \o tail, 0, StartOf(Len(q))) = file
<1> DEFINE m == Len(q)
           r == Record(HeaderOf(q, m))
           whole == file \o tail
<1>0. /\ Chain(q) /\ Holds(file, q, bad) /\ Len(file) = StartOf(m)
      /\ written \in Nat /\ written <= RecordCells(m) /\ Len(file) + written <= MaxCells
      /\ tail = Slice(r, 0, written)
    BY DEF Appending
<1>1. m \in Nat \ {0} /\ m \in 1 .. Len(q) /\ Len(file) \in Nat /\ file \in Seq(CellSet)
    BY <1>0 DEF Chain, Holds
<1>2. /\ r \in Seq(CellSet) /\ Len(r) = RecordCells(m)
      /\ \A a \in 0 .. RecordCells(m) - 1 : r[a + 1] = Written(q, m, a)
    BY <1>0, <1>1, RecordIs
<1>3. /\ StartOf(m) \in Nat /\ StartOf(m + 1) = StartOf(m) + RecordCells(m)
      /\ RecordCells(m) \in Nat /\ HeaderCells \in Nat /\ PayloadCells(m) \in Nat
      /\ RecordCells(m) = 2 * HeaderCells + PayloadCells(m)
    BY <1>1, Arithmetic
<1>4. written \in Nat /\ written <= RecordCells(m)
    BY <1>0
<1>5. Len(file) = StartOf(m) /\ tail = Slice(r, 0, written) /\ Len(file) + written <= MaxCells
    BY <1>0
<1> HIDE DEF r, m
<1>6. tail = [j \in 1 .. written |-> r[0 + j]] /\ tail \in Seq(CellSet) /\ Len(tail) = written
  <2>1. 0 \in Nat /\ 0 + written <= Len(r)
    BY <1>2, <1>3, <1>4
  <2> QED BY <1>2, <1>4, <1>5, <2>1, SliceIs
<1>7. \A j \in 1 .. written : tail[j] = r[j]
    BY <1>4, <1>6
<1>8. /\ whole \in Seq(CellSet) /\ Len(whole) = Len(file) + Len(tail)
      /\ \A j \in 1 .. Len(file) + Len(tail) :
             whole[j] = IF j <= Len(file) THEN file[j] ELSE tail[j - Len(file)]
    BY <1>1, <1>6, ConcatProperties, ZenonT(60)
<1> HIDE DEF whole
<1>9. Len(whole) = StartOf(m) + written /\ Len(whole) \in Nat
    BY <1>3, <1>4, <1>5, <1>6, <1>8
<1>10. \A j \in 1 .. StartOf(m) : whole[j] = file[j]
  <2> TAKE j \in 1 .. StartOf(m)
  <2>1. j \in 1 .. Len(file) + Len(tail) /\ j <= Len(file)
    <3>1. Len(file) = StartOf(m) /\ Len(tail) = written
        BY <1>5, <1>6
    <3> QED BY <1>3, <1>4, <3>1
  <2> QED BY <1>8, <2>1
<1>11. \A a \in 0 .. RecordCells(m) - 1 :
           StartOf(m) + a < Len(whole) => whole[StartOf(m) + a + 1] = Written(q, m, a)
  <2> TAKE a \in 0 .. RecordCells(m) - 1
  <2>1. HAVE StartOf(m) + a < Len(whole)
  <2> DEFINE j == StartOf(m) + a + 1
  <2>2. /\ j \in 1 .. Len(file) + Len(tail) /\ ~ (j <= Len(file)) /\ j - Len(file) = a + 1
        /\ a + 1 \in 1 .. written
    <3>1. a \in Nat /\ StartOf(m) \in Nat /\ written \in Nat
        BY <1>3, <1>4
    <3>2. Len(file) = StartOf(m) /\ Len(tail) = written
        BY <1>5, <1>6
    <3>3. StartOf(m) + a < StartOf(m) + written
        BY <1>9, <2>1
    <3>4. a < written
        BY <3>1, <3>3
    <3> QED BY <3>1, <3>2, <3>4
  <2> HIDE DEF j
  <2>3. whole[j] = tail[a + 1]
    BY <1>8, <2>2
  <2>4. tail[a + 1] = r[a + 1]
    BY <1>7, <2>2
  <2> QED BY <1>2, <2>3, <2>4 DEF j
<1>12. ASSUME NEW i \in 1 .. m
       PROVE  /\ Readable(whole, q, i)
              /\ i \notin bad => AsWritten(whole, q, i, 0 .. RecordCells(i) - 1)
  <2>0. i \in Nat \ {0}
    BY <1>1
  <2>1. CASE i = m
    <3>1. \A offsets \in SUBSET (0 .. RecordCells(m) - 1) : AsWritten(whole, q, m, offsets)
        BY <1>11 DEF AsWritten
    <3>2. /\ PrimaryPart(m) \in SUBSET (0 .. RecordCells(m) - 1)
          /\ PayloadPart(m) \in SUBSET (0 .. RecordCells(m) - 1)
        BY <1>1, Parts
    <3>3. Readable(whole, q, m)
        BY <1>11, <3>1, <3>2 DEF Readable
    <3> QED BY <2>1, <3>1, <3>3
  <2>2. CASE i # m
    <3>1. i + 1 \in Nat \ {0} /\ i + 1 <= m
        BY <1>1, <2>0, <2>2
    <3>2. StartOf(i + 1) <= StartOf(m)
        BY <1>1, <3>1, StartMonotone
    <3>3. /\ StartOf(i) \in Nat /\ RecordCells(i) \in Nat
          /\ StartOf(i + 1) = StartOf(i) + RecordCells(i)
        BY <2>0, Arithmetic
    <3>4. \A a \in 0 .. RecordCells(i) - 1 : StartOf(i) + a + 1 \in 1 .. StartOf(m)
      <4> TAKE a \in 0 .. RecordCells(i) - 1
      <4>1. a \in Nat /\ a + 1 <= RecordCells(i)
        BY <3>3
      <4>2. StartOf(i) + a + 1 \in Nat /\ StartOf(i) + a + 1 <= StartOf(i + 1)
            /\ StartOf(i) + a + 1 >= 1
        BY <3>3, <4>1
      <4>3. StartOf(i + 1) \in Nat
        BY <3>3
      <4> QED BY <1>3, <3>2, <4>2, <4>3
    <3>5. \A a \in 0 .. RecordCells(i) - 1 :
              file[StartOf(i) + a + 1] = whole[StartOf(i) + a + 1]
        BY <1>10, <3>4
    <3>6. /\ Readable(file, q, i)
          /\ i \notin bad => AsWritten(file, q, i, 0 .. RecordCells(i) - 1)
        BY <1>0 DEF Holds, m
    <3>7. StartOf(i + 1) <= Len(file)
        BY <1>5, <3>2
    <3>8. /\ Readable(file, q, i) => Readable(whole, q, i)
          /\ \A offsets \in SUBSET (0 .. RecordCells(i) - 1) :
                 AsWritten(file, q, i, offsets) => AsWritten(whole, q, i, offsets)
        BY <1>1, <1>9, <2>0, <3>5, <3>7, Transfer
    <3> QED BY <3>6, <3>8
  <2> QED BY <2>1, <2>2
<1>13. \A i \in bad : i \in 1 .. m /\ StartOf(i + 1) <= Len(whole)
  <2> TAKE i \in bad
  <2>1. i \in 1 .. m /\ StartOf(i + 1) <= Len(file)
    BY <1>0 DEF Holds, m
  <2>2. StartOf(i + 1) \in Nat
    BY <1>1, <2>1, Arithmetic
  <2> QED BY <1>1, <1>3, <1>4, <1>5, <1>9, <2>1, <2>2, SMTT(60)
<1>14. Len(whole) <= MaxCells /\ StartOf(m) <= Len(whole) /\ Len(whole) <= StartOf(m + 1)
    BY <1>3, <1>4, <1>5, <1>9
<1>15. Holds(whole, q, bad)
    BY <1>8, <1>12, <1>13, <1>14 DEF Holds, m
<1>16. Slice(whole, 0, StartOf(m)) = file
  <2>1. 0 + StartOf(m) <= Len(whole)
    BY <1>3, <1>4, <1>9
  <2>2. /\ Slice(whole, 0, StartOf(m)) = [j \in 1 .. StartOf(m) |-> whole[0 + j]]
        /\ Slice(whole, 0, StartOf(m)) \in Seq(CellSet)
        /\ Len(Slice(whole, 0, StartOf(m))) = StartOf(m)
    BY <1>3, <1>8, <2>1, SliceIs
  <2>3. \A j \in 1 .. StartOf(m) : Slice(whole, 0, StartOf(m))[j] = file[j]
    BY <1>3, <1>10, <2>2
  <2> HIDE DEF m
  <2> QED BY <1>1, <1>5, <2>2, <2>3, SeqEqual
<1> QED BY <1>6, <1>9, <1>15, <1>16 DEF whole, m

(* The complete records by themselves.                                      *)
Prefix(ph, n) == [i \in 1 .. n |-> ph[i]]

(* The first n records of a file, all complete.                             *)
Cut(file, ph, bad, n) ==
    Chain(ph) /\ Holds(file, ph, bad) /\ n \in 1 .. Complete(file, ph)

(* A file cut behind a complete record holds the records before the cut.    *)
LEMMA AfterCut ==
    ASSUME NEW file, NEW ph, NEW bad, NEW n, Cut(file, ph, bad, n)
    PROVE  LET q == Prefix(ph, n)
               part == Slice(file, 0, StartOf(n + 1))
           IN  /\ Chain(q) /\ Len(q) = n /\ Holds(part, q, bad \cap (1 .. n))
               /\ Len(part) = StartOf(n + 1)
<1> USE DEF Cut
<1> DEFINE q == Prefix(ph, n)
           part == Slice(file, 0, StartOf(n + 1))
<1>1. /\ n \in Nat \ {0} /\ n <= Len(ph) /\ n <= MaxGenerations
      /\ Len(file) \in Nat /\ StartOf(n + 1) \in Nat /\ StartOf(n + 1) <= Len(file)
      /\ \A i \in 1 .. Len(ph) : i <= n => StartOf(i + 1) <= Len(file)
  <2> DEFINE c == Complete(file, ph)
  <2>1. /\ c \in Nat /\ c <= Len(ph) /\ c <= MaxGenerations /\ Len(file) \in Nat
        /\ \A i \in 1 .. Len(ph) : StartOf(i + 1) <= Len(file) <=> i <= c
    BY CompleteFacts
  <2>2. n \in Nat \ {0} /\ n <= c /\ Len(ph) \in Nat /\ MaxGenerations \in Nat
    BY <2>1, LimitAssumption DEF Chain
  <2> HIDE DEF c
  <2>3. n \in 1 .. Len(ph) /\ n <= MaxGenerations
    BY <2>1, <2>2
  <2>4. StartOf(n + 1) \in Nat
    BY <2>2, Arithmetic
  <2>5. \A i \in 1 .. Len(ph) : i <= n => StartOf(i + 1) <= Len(file)
    BY <2>1, <2>2
  <2> QED BY <2>1, <2>2, <2>3, <2>4, <2>5
<1>2. /\ ph \in Seq(Phases) /\ Len(ph) \in Nat /\ MaxGenerations \in Nat /\ MaxCells \in Nat
      /\ file \in Seq(CellSet) /\ Len(file) <= MaxCells
    BY LimitAssumption DEF Chain, Holds
<1>3. q \in Seq(Phases) /\ Len(q) = n /\ \A i \in 1 .. n : q[i] = ph[i]
  <2>1. \A i \in 1 .. n : ph[i] \in Phases
    BY <1>1, <1>2
  <2> QED BY <1>1, <2>1 DEF Prefix
<1> HIDE DEF q
<1>4. Chain(q)
  <2>1. q[1] = Discovered
    BY <1>1, <1>3 DEF Chain
  <2>2. \A i \in 2 .. Len(q) : MayFollow(q[i], q[i - 1])
    <3> TAKE i \in 2 .. Len(q)
    <3>1. i \in 2 .. Len(ph) /\ i \in 1 .. n /\ i - 1 \in 1 .. n
        BY <1>1, <1>2, <1>3
    <3>2. MayFollow(ph[i], ph[i - 1])
        BY <3>1 DEF Chain
    <3> QED BY <1>3, <3>1, <3>2
  <2> QED BY <1>1, <1>2, <1>3, <2>1, <2>2 DEF Chain
<1>5. /\ part = [j \in 1 .. StartOf(n + 1) |-> file[0 + j]]
      /\ part \in Seq(CellSet) /\ Len(part) = StartOf(n + 1)
  <2> DEFINE l == StartOf(n + 1)
  <2>1. l \in Nat /\ 0 \in Nat /\ 0 + l <= Len(file) /\ file \in Seq(CellSet)
    BY <1>1, <1>2
  <2> HIDE DEF l
  <2>2. /\ Slice(file, 0, l) = [j \in 1 .. l |-> file[0 + j]]
        /\ Slice(file, 0, l) \in Seq(CellSet) /\ Len(Slice(file, 0, l)) = l
    BY <2>1, SliceIs
  <2> QED BY <2>2 DEF l
<1>6. \A j \in 1 .. StartOf(n + 1) : part[j] = file[j]
    BY <1>1, <1>5
<1> HIDE DEF part
<1>8. ASSUME NEW i \in 1 .. n
      PROVE  /\ Readable(part, q, i)
             /\ i \notin bad \cap (1 .. n) => AsWritten(part, q, i, 0 .. RecordCells(i) - 1)
  <2>0. i \in Nat \ {0} /\ i \in 1 .. Len(ph) /\ i <= n
    BY <1>1, <1>2
  <2>1. i + 1 \in Nat \ {0} /\ n + 1 \in Nat \ {0} /\ i + 1 <= n + 1
    BY <1>1, <2>0
  <2>2. StartOf(i + 1) <= StartOf(n + 1)
    BY <2>1, StartMonotone
  <2>3. StartOf(i + 1) <= Len(file)
    BY <1>1, <2>0
  <2>4. /\ StartOf(i) \in Nat /\ RecordCells(i) \in Nat
        /\ StartOf(i + 1) = StartOf(i) + RecordCells(i)
    BY <2>0, Arithmetic
  <2>5. ASSUME NEW a \in 0 .. RecordCells(i) - 1
        PROVE  file[StartOf(i) + a + 1] = part[StartOf(i) + a + 1]
    <3>1. a \in Nat /\ a + 1 <= RecordCells(i)
        BY <2>4
    <3>2. StartOf(i) + a + 1 \in Nat /\ StartOf(i) + a + 1 <= StartOf(i + 1)
          /\ StartOf(i) + a + 1 >= 1 /\ StartOf(i + 1) \in Nat
        BY <2>4, <3>1
    <3>3. StartOf(i) + a + 1 \in 1 .. StartOf(n + 1)
        BY <1>1, <2>2, <3>2
    <3> QED BY <1>6, <3>3
  <2>6. /\ Readable(file, ph, i)
        /\ i \notin bad => AsWritten(file, ph, i, 0 .. RecordCells(i) - 1)
    BY <2>0 DEF Holds
  <2>7. ph[i] = q[i] /\ Len(part) \in Nat
    BY <1>1, <1>3, <1>5
  <2>8. /\ Readable(file, ph, i) => Readable(part, q, i)
        /\ \A offsets \in SUBSET (0 .. RecordCells(i) - 1) :
               AsWritten(file, ph, i, offsets) => AsWritten(part, q, i, offsets)
    BY <1>1, <2>0, <2>3, <2>5, <2>7, Transfer
  <2> QED BY <2>6, <2>8
<1>9. \A i \in bad \cap (1 .. n) : i \in 1 .. n /\ StartOf(i + 1) <= Len(part)
  <2> TAKE i \in bad \cap (1 .. n)
  <2>1. i + 1 \in Nat \ {0} /\ n + 1 \in Nat \ {0} /\ i + 1 <= n + 1
    BY <1>1
  <2>2. StartOf(i + 1) <= StartOf(n + 1)
    BY <2>1, StartMonotone
  <2> QED BY <1>5, <2>2
<1>10. /\ Len(part) <= MaxCells /\ StartOf(n) <= Len(part)
       /\ Len(part) <= StartOf(n + 1)
  <2>1. n + 1 \in Nat \ {0} /\ n <= n + 1
    BY <1>1
  <2>2. StartOf(n) <= StartOf(n + 1)
    BY <1>1, <2>1, StartMonotone
  <2> QED BY <1>1, <1>2, <1>5, <2>2
<1>11. Holds(part, q, bad \cap (1 .. n))
    BY <1>3, <1>5, <1>8, <1>9, <1>10 DEF Holds
<1> QED BY <1>3, <1>4, <1>5, <1>11 DEF q, part

(* Only complete records are bad.                                           *)
LEMMA BadIsComplete ==
    ASSUME NEW file, NEW ph, NEW bad, Chain(ph), Holds(file, ph, bad)
    PROVE  bad \cap (1 .. Complete(file, ph)) = bad
<1>1. \A i \in 1 .. Len(ph) : StartOf(i + 1) <= Len(file) <=> i <= Complete(file, ph)
    BY CompleteFacts
<1>2. \A i \in bad : i \in 1 .. Len(ph) /\ StartOf(i + 1) <= Len(file)
    BY DEF Holds
<1>3. Complete(file, ph) \in Nat /\ Len(ph) \in Nat
    BY CompleteFacts DEF Chain
<1>4. \A i \in bad : i \in 1 .. Complete(file, ph)
    BY <1>1, <1>2, <1>3
<1> QED BY <1>4

(* One cell of one header copy of a good record goes bad.                   *)
Decaying(file, ph, bad, g, b) ==
    /\ Chain(ph) /\ Holds(file, ph, bad)
    /\ g \in 1 .. Complete(file, ph) /\ g \notin bad
    /\ b \in PrimaryPart(g) \cup TrailingPart(g)

(* The file after that cell went bad still holds its records.               *)
LEMMA AfterDecay ==
    ASSUME NEW file, NEW ph, NEW bad, NEW g, NEW b, Decaying(file, ph, bad, g, b)
    PROVE  LET other == [file EXCEPT ![StartOf(g) + b + 1] = Junk]
           IN  Holds(other, ph, bad \cup {g}) /\ Len(other) = Len(file)
<1> USE DEF Decaying
<1> DEFINE n == Complete(file, ph)
           p == StartOf(g) + b + 1
           other == [file EXCEPT ![p] = Junk]
<1>1. /\ n \in Nat /\ n <= Len(ph) /\ Len(file) \in Nat
      /\ \A i \in 1 .. Len(ph) : StartOf(i + 1) <= Len(file) <=> i <= n
    BY CompleteFacts
<1>2. file \in Seq(CellSet) /\ Len(ph) \in Nat
    BY DEF Chain, Holds
<1>3. g \in 1 .. Len(ph) /\ g \in Nat \ {0} /\ g <= n
    BY <1>1, <1>2
<1>4. StartOf(g + 1) <= Len(file)
    BY <1>1, <1>3
<1>5. /\ StartOf(g) \in Nat /\ RecordCells(g) \in Nat
      /\ StartOf(g + 1) = StartOf(g) + RecordCells(g)
      /\ HeaderCells \in Nat \ {0} /\ PayloadCells(g) \in Nat \ {0}
      /\ RecordCells(g) = 2 * HeaderCells + PayloadCells(g)
    BY <1>3, Arithmetic
<1>6. b \in 0 .. RecordCells(g) - 1
    BY <1>3, Parts
<1>7. p \in 1 .. Len(file)
  <2>1. b \in Nat /\ b + 1 <= RecordCells(g)
    BY <1>5, <1>6
  <2> QED BY <1>1, <1>4, <1>5, <2>1, SMTT(60)
<1>8. Junk \in CellSet
    BY DEF Junk, Cell, CellSet, NoHeader, Headers, Phases, Discovered
<1> HIDE DEF n, p
<1>9. /\ other \in Seq(CellSet) /\ Len(other) = Len(file)
      /\ \A j \in 1 .. Len(file) : other[j] = IF j = p THEN Junk ELSE file[j]
    BY <1>2, <1>7, <1>8, ExceptSeq
<1> HIDE DEF other
<1>10. ASSUME NEW i \in Nat \ {0}, NEW a \in 0 .. RecordCells(i) - 1,
              StartOf(i) + a < Len(file), i # g \/ a # b
       PROVE  other[StartOf(i) + a + 1] = file[StartOf(i) + a + 1]
  <2>1. StartOf(i) \in Nat /\ a \in Nat
    BY Arithmetic
  <2>2. StartOf(i) + a # StartOf(g) + b
    BY <1>3, <1>6, <1>10, OnePlace
  <2>3. StartOf(i) + a + 1 \in 1 .. Len(file) /\ StartOf(i) + a + 1 # p
    <3> DEFINE x == StartOf(i) + a
               y == StartOf(g) + b
    <3>1. x \in Nat /\ y \in Nat /\ x # y /\ x < Len(file)
        BY <1>5, <1>6, <1>10, <2>1, <2>2, SMTT(60)
    <3>2. StartOf(i) + a + 1 = x + 1 /\ p = y + 1
        BY DEF p
    <3> HIDE DEF x, y
    <3> QED BY <1>1, <3>1, <3>2
  <2> QED BY <1>9, <2>3
<1>11. ASSUME NEW i \in 1 .. Len(ph), i # g
       PROVE  /\ Readable(other, ph, i)
              /\ i \notin bad => AsWritten(other, ph, i, 0 .. RecordCells(i) - 1)
  <2>0. i \in Nat \ {0}
    BY <1>2
  <2>1. \A a \in 0 .. RecordCells(i) - 1 : StartOf(i) + a < Len(file) =>
            other[StartOf(i) + a + 1] = file[StartOf(i) + a + 1]
    BY <1>10, <1>11, <2>0
  <2>2. /\ Readable(file, ph, i)
        /\ i \notin bad => AsWritten(file, ph, i, 0 .. RecordCells(i) - 1)
    BY DEF Holds
  <2>3. ASSUME NEW offsets \in SUBSET (0 .. RecordCells(i) - 1), AsWritten(file, ph, i, offsets)
        PROVE  AsWritten(other, ph, i, offsets)
    BY <1>9, <2>1, <2>3 DEF AsWritten
  <2>4. /\ PrimaryPart(i) \in SUBSET (0 .. RecordCells(i) - 1)
        /\ PayloadPart(i) \in SUBSET (0 .. RecordCells(i) - 1)
        /\ TrailingPart(i) \in SUBSET (0 .. RecordCells(i) - 1)
    BY <2>0, Parts
  <2>5. \A a \in 0 .. RecordCells(i) - 1 : StartOf(i) + a < Len(other) =>
            other[StartOf(i) + a + 1] \in {Written(ph, i, a), Junk}
    BY <1>9, <2>1, <2>2 DEF Readable
  <2>6. Readable(other, ph, i)
    BY <2>2, <2>3, <2>4, <2>5 DEF Readable
  <2> QED BY <2>2, <2>3, <2>6
<1>12. Readable(other, ph, g)
  <2>1. AsWritten(file, ph, g, 0 .. RecordCells(g) - 1)
    BY <1>3 DEF Holds
  <2>2. ASSUME NEW offsets \in SUBSET (0 .. RecordCells(g) - 1), b \notin offsets
        PROVE  AsWritten(other, ph, g, offsets)
    <3>1. \A a \in offsets : StartOf(g) + a < Len(file) =>
              other[StartOf(g) + a + 1] = file[StartOf(g) + a + 1]
        BY <1>3, <1>10, <2>2
    <3> QED BY <1>9, <2>1, <3>1 DEF AsWritten
  <2>3. /\ PrimaryPart(g) \in SUBSET (0 .. RecordCells(g) - 1)
        /\ PayloadPart(g) \in SUBSET (0 .. RecordCells(g) - 1)
        /\ TrailingPart(g) \in SUBSET (0 .. RecordCells(g) - 1)
    BY <1>3, Parts
  <2>4. b \notin PayloadPart(g) /\ (b \notin PrimaryPart(g) \/ b \notin TrailingPart(g))
    BY <1>5 DEF PrimaryPart, PayloadPart, TrailingPart
  <2>5. \A a \in 0 .. RecordCells(g) - 1 : StartOf(g) + a < Len(other) =>
            other[StartOf(g) + a + 1] \in {Written(ph, g, a), Junk}
    <3> TAKE a \in 0 .. RecordCells(g) - 1
    <3>1. HAVE StartOf(g) + a < Len(other)
    <3>2. CASE a = b
        BY <1>7, <1>9, <3>2 DEF p
    <3>3. CASE a # b
        BY <1>3, <1>9, <1>10, <2>1, <3>1, <3>3 DEF AsWritten
    <3> QED BY <3>2, <3>3
  <2> QED BY <2>2, <2>3, <2>4, <2>5 DEF Readable
<1>13. Holds(other, ph, bad \cup {g})
  <2>1. \A i \in bad \cup {g} : i \in 1 .. Len(ph) /\ StartOf(i + 1) <= Len(other)
    BY <1>3, <1>4, <1>9 DEF Holds
  <2>2. /\ Len(other) <= MaxCells /\ StartOf(Len(ph)) <= Len(other)
        /\ Len(other) <= StartOf(Len(ph) + 1)
    BY <1>9 DEF Holds
  <2>3. \A i \in 1 .. Len(ph) :
            /\ Readable(other, ph, i)
            /\ i \notin bad \cup {g} => AsWritten(other, ph, i, 0 .. RecordCells(i) - 1)
    BY <1>11, <1>12
  <2> QED BY <1>9, <2>1, <2>2, <2>3 DEF Holds
<1> QED BY <1>7, <1>9, <1>13 DEF other, p

-----------------------------------------------------------------------------
(* What the operations of the store read and write.                         *)

(* What scan_capsule and recover_capsule return.                            *)
LEMMA Scans ==
    ASSUME NEW file, NEW ph, NEW bad, Chain(ph), Holds(file, ph, bad)
    PROVE  LET n == Complete(file, ph)
           IN  /\ RecoverCapsule(file).ok
               /\ RecoverCapsule(file).generations = GenerationsOf(ph, n)
               /\ RecoverCapsule(file).validated = StartOf(n + 1)
               /\ PhasesOf(RecoverCapsule(file)) = Prefix(ph, n)
               /\ ScanCapsule(file).ok <=> StartOf(n + 1) = Len(file)
               /\ StartOf(n + 1) = Len(file) =>
                      /\ ScanCapsule(file).generations = GenerationsOf(ph, n)
                      /\ PhasesOf(ScanCapsule(file)) = Prefix(ph, n)
<1> DEFINE n == Complete(file, ph)
           good == StartOf(n + 1) = Len(file)
           gens == GenerationsOf(ph, n)
<1>1. n \in Nat /\ n <= Len(ph) /\ Len(ph) \in Nat
    BY CompleteFacts DEF Chain
<1>2. RecoverCapsule(file) =
          [ok |-> TRUE, generations |-> gens, validated |-> StartOf(n + 1)]
  <2>1. ScanImpl(file, TRUE) =
            [ok |-> good \/ TRUE, generations |-> IF good \/ TRUE THEN gens ELSE <<>>,
             validated |-> IF good \/ TRUE THEN StartOf(n + 1) ELSE 0]
    BY ScanResult
  <2> HIDE DEF n, good, gens
  <2> QED BY <2>1 DEF RecoverCapsule
<1>3. ScanCapsule(file) =
          [ok |-> good, generations |-> IF good THEN gens ELSE <<>>,
           validated |-> IF good THEN StartOf(n + 1) ELSE 0]
  <2>1. ScanImpl(file, FALSE) =
            [ok |-> good \/ FALSE, generations |-> IF good \/ FALSE THEN gens ELSE <<>>,
             validated |-> IF good \/ FALSE THEN StartOf(n + 1) ELSE 0]
    BY ScanResult
  <2> HIDE DEF n, gens
  <2> QED BY <2>1 DEF ScanCapsule
<1>4. ASSUME NEW view, view.generations = gens PROVE PhasesOf(view) = Prefix(ph, n)
  <2>1. Len(gens) = n /\ \A i \in 1 .. n : gens[i] = GenerationOf(ph, i)
    BY <1>1, GenerationsFacts
  <2>2. \A i \in 1 .. n : gens[i].header.phase = ph[i]
    <3> TAKE i \in 1 .. n
    <3>1. i \in 1 .. Len(ph)
        BY <1>1
    <3>2. gens[i].header = HeaderOf(ph, i)
        BY <2>1 DEF GenerationOf
    <3> QED BY <3>1, <3>2, HeaderFacts
  <2> HIDE DEF gens, n
  <2> QED BY <1>4, <2>1, <2>2 DEF PhasesOf, Prefix
<1> HIDE DEF n, gens
<1>5. RecoverCapsule(file).generations = gens /\ RecoverCapsule(file).ok
      /\ RecoverCapsule(file).validated = StartOf(n + 1)
    BY <1>2
<1>6. PhasesOf(RecoverCapsule(file)) = Prefix(ph, n)
    BY <1>4, <1>5
<1>7. ScanCapsule(file).ok <=> good
  <2>1. CASE good
    <3>1. ScanCapsule(file) = [ok |-> TRUE, generations |-> gens, validated |-> StartOf(n + 1)]
        BY <1>3, <2>1
    <3> QED BY <2>1, <3>1
  <2>2. CASE ~ good
    <3>1. ScanCapsule(file) = [ok |-> FALSE, generations |-> <<>>, validated |-> 0]
        BY <1>3, <2>2
    <3> QED BY <2>2, <3>1
  <2> QED BY <2>1, <2>2
<1>8. ASSUME good PROVE ScanCapsule(file).generations = gens
    BY <1>3, <1>8
<1>9. ASSUME good PROVE PhasesOf(ScanCapsule(file)) = Prefix(ph, n)
    BY <1>4, <1>8, <1>9
<1> QED BY <1>5, <1>6, <1>7, <1>8, <1>9 DEF n, gens

(* The header that append_generation adds to a good file.                   *)
LEMMA NextHeaderIs ==
    ASSUME NEW file, NEW ph, NEW bad, Chain(ph), Holds(file, ph, bad),
           Len(file) = StartOf(Len(ph) + 1), NEW phase \in Phases,
           NextHeader(file, phase) # NoHeader
    PROVE  LET q == Append(ph, phase)
           IN  /\ Chain(q) /\ Len(q) = Len(ph) + 1
               /\ \A i \in 1 .. Len(ph) : q[i] = ph[i]
               /\ NextHeader(file, phase) = HeaderOf(q, Len(q))
               /\ Len(file) + RecordCells(Len(q)) <= MaxCells
<1> DEFINE m == Len(ph)
           q == Append(ph, phase)
           view == ScanCapsule(file)
           gens == view.generations
           newest == gens[Len(gens)]
           late == [generation |-> newest.header.generation + 1, phase |-> phase,
                    len |-> CheckpointCells, previous |-> newest.start]
           early == [generation |-> 0, phase |-> phase, len |-> EnvelopeCells, previous |-> -1]
           header == IF gens = <<>> THEN early ELSE late
<1>1. ph \in Seq(Phases) /\ m \in Nat \ {0} /\ m \in 1 .. m /\ Len(file) \in Nat
    BY DEF Chain, Holds
<1>2. q \in Seq(Phases) /\ Len(q) = m + 1 /\ q[m + 1] = phase /\ \A i \in 1 .. m : q[i] = ph[i]
    BY <1>1
<1>3. Complete(file, ph) = m
    BY DEF Complete
<1>4. view.ok /\ gens = GenerationsOf(ph, m)
    BY <1>3, Scans
<1>5. gens # <<>> /\ Len(gens) = m /\ newest = GenerationOf(ph, m)
    BY <1>1, <1>4, GenerationsFacts
<1>6. /\ newest.header = HeaderOf(ph, m) /\ newest.start = StartOf(m)
      /\ newest.header.generation = m - 1 /\ newest.header.phase = ph[m]
    BY <1>1, <1>5, HeaderFacts DEF GenerationOf
<1>7. NextHeader(file, phase) = header
      /\ ValidateChain(gens, header) /\ Len(gens) < MaxGenerations
      /\ Len(file) + 2 * HeaderCells + header.len <= MaxCells
    BY Zenon DEF NextHeader
<1>8. header = late
    BY <1>5
<1>9. late.phase = phase /\ late.len = CheckpointCells
    OBVIOUS
<1> HIDE DEF m, q, view, gens, newest, header, late
<1>10. MayFollow(phase, ph[m])
    BY <1>5, <1>6, <1>7, <1>8, <1>9 DEF ValidateChain, newest
<1>11. HeaderOf(q, m + 1) = late
  <2>1. PayloadCells(m + 1) = CheckpointCells /\ m + 1 # 1 /\ (m + 1) - 1 = m
    BY <1>1 DEF PayloadCells
  <2>2. HeaderOf(q, m + 1) =
            [generation |-> (m + 1) - 1, phase |-> q[m + 1], len |-> PayloadCells(m + 1),
             previous |-> StartOf((m + 1) - 1)]
    BY <2>1 DEF HeaderOf
  <2>3. newest.header.generation + 1 = (m + 1) - 1
    BY <1>1, <1>6
  <2> QED BY <1>2, <1>6, <2>1, <2>2, <2>3 DEF late
<1>12. Chain(q)
  <2>1. m + 1 \in 1 .. MaxGenerations /\ MaxGenerations \in Nat
    BY <1>1, <1>5, <1>7, LimitAssumption
  <2>2. q[1] = Discovered
    BY <1>1, <1>2 DEF Chain, m
  <2>3. ASSUME NEW i \in 2 .. m + 1 PROVE MayFollow(q[i], q[i - 1])
    <3>1. CASE i = m + 1
      <4>1. i - 1 = m /\ i - 1 \in 1 .. m
        BY <1>1, <3>1
      <4> QED BY <1>2, <1>10, <3>1, <4>1
    <3>2. CASE i # m + 1
      <4>1. i \in 2 .. m /\ i \in 1 .. m /\ i - 1 \in 1 .. m
        BY <1>1, <3>2
      <4>2. MayFollow(ph[i], ph[i - 1])
        BY <4>1 DEF Chain, m
      <4> QED BY <1>2, <4>1, <4>2
    <3> QED BY <3>1, <3>2
  <2> QED BY <1>2, <2>1, <2>2, <2>3 DEF Chain
<1>13. Len(file) + RecordCells(m + 1) <= MaxCells
  <2>1. RecordCells(m + 1) = 2 * HeaderCells + CheckpointCells
    BY <1>1 DEF RecordCells, PayloadCells
  <2>2. HeaderCells \in Nat /\ CheckpointCells \in Nat
    BY LimitAssumption
  <2>3. Len(file) + 2 * HeaderCells + CheckpointCells <= MaxCells
    BY <1>7, <1>8, <1>9
  <2> QED BY <1>1, <2>1, <2>2, <2>3
<1> QED BY <1>2, <1>7, <1>8, <1>11, <1>12, <1>13 DEF m, q

(* The header of generation zero, for an empty file.                        *)
LEMMA FirstHeader ==
    ASSUME NextHeader(<<>>, Discovered) # NoHeader
    PROVE  NextHeader(<<>>, Discovered) = HeaderOf(First, 1) /\ RecordCells(1) <= MaxCells
<1> DEFINE view == ScanCapsule(<<>>)
           gens == view.generations
           newest == gens[Len(gens)]
           late == [generation |-> newest.header.generation + 1, phase |-> Discovered,
                    len |-> CheckpointCells, previous |-> newest.start]
           early == [generation |-> 0, phase |-> Discovered, len |-> EnvelopeCells,
                     previous |-> -1]
           header == IF gens = <<>> THEN early ELSE late
<1>1. Chain(First) /\ Len(First) = 1 /\ Holds(<<>>, First, {}) /\ First[1] = Discovered
    BY EmptyFile DEF First
<1>2. StartOf(1) = 0 /\ StartOf(1 + 1) = StartOf(1) + RecordCells(1)
      /\ RecordCells(1) \in Nat \ {0}
    BY Arithmetic, StartNext
<1>3. Complete(<<>>, First) = 0 /\ Len(<<>>) = 0
    BY <1>1, <1>2 DEF Complete
<1>4. gens = <<>>
  <2>1. StartOf(0 + 1) = Len(<<>>)
    BY <1>2, <1>3
  <2>2. gens = GenerationsOf(First, 0)
    BY <1>1, <1>3, <2>1, Scans
  <2> QED BY <2>2, GenerationsFacts
<1>5. NextHeader(<<>>, Discovered) = header
      /\ Len(<<>>) + 2 * HeaderCells + header.len <= MaxCells
    BY Zenon DEF NextHeader
<1>6. header = early /\ early.len = EnvelopeCells
    BY <1>4
<1> HIDE DEF view, gens, newest, late, header
<1>7. HeaderOf(First, 1) = early
    BY <1>1 DEF HeaderOf, PayloadCells
<1>8. RecordCells(1) <= MaxCells
  <2>1. RecordCells(1) = 2 * HeaderCells + EnvelopeCells
    BY DEF RecordCells, PayloadCells
  <2>2. 0 + 2 * HeaderCells + EnvelopeCells <= MaxCells
    BY <1>3, <1>5, <1>6
  <2> QED BY <2>1, <2>2, LimitAssumption
<1> QED BY <1>5, <1>6, <1>7, <1>8

(* repair_torn_suffix keeps the complete records, if there are any.         *)
LEMMA RepairIs ==
    ASSUME NEW file, NEW ph, NEW bad, Chain(ph), Holds(file, ph, bad),
           StartOf(Complete(file, ph) + 1) # Len(file)
    PROVE  LET n == Complete(file, ph)
           IN  RepairTornSuffix(file) =
                   IF n = 0 THEN <<>> ELSE Slice(file, 0, StartOf(n + 1))
<1> DEFINE n == Complete(file, ph)
           view == RecoverCapsule(file)
<1>1. view.ok /\ view.generations = GenerationsOf(ph, n) /\ view.validated = StartOf(n + 1)
    BY Scans
<1>2. /\ n \in Nat /\ Len(file) \in Nat /\ StartOf(n + 1) \in Nat
      /\ StartOf(n + 1) <= Len(file)
    BY CompleteFacts
<1>3. ~ (StartOf(n + 1) >= Len(file))
    BY <1>2
<1>4. GenerationsOf(ph, n) = <<>> <=> n = 0
    BY <1>2, GenerationsFacts
<1>5. RepairTornSuffix(file) =
          IF ~ view.ok \/ view.generations = <<>> \/ view.validated >= Len(file)
          THEN <<>> ELSE Slice(file, 0, view.validated)
    BY Zenon DEF RepairTornSuffix
<1> HIDE DEF n, view
<1> QED BY <1>1, <1>3, <1>4, <1>5 DEF n

-----------------------------------------------------------------------------
(* The inductive invariant: the file holds the records of some phases of    *)
(* which all that were acknowledged and at most one more are complete, and  *)
(* the store that is appending knows the file up to the record in flight.   *)

Acknowledged(file, ph, known) ==
    /\ known \in Seq(Phases) /\ Len(known) <= Complete(file, ph)
    /\ Complete(file, ph) <= Len(known) + 1
    /\ \A i \in 1 .. Len(known) : known[i] = ph[i]

Fits(ph) ==
    /\ Chain(ph) /\ Holds(bytes, ph, decayed) /\ Acknowledged(bytes, ph, acked)
    /\ pc = "open" /\ ~ poisoned =>
          /\ store = bytes /\ Len(acked) = Len(ph) /\ Len(bytes) = StartOf(Len(ph) + 1)
    /\ pc = "open" /\ poisoned =>
          /\ Len(acked) # 0 /\ Len(ph) = Len(acked) + 1
          /\ store = Slice(bytes, 0, StartOf(Len(ph)))
    /\ pc = "closed" => store = <<>> /\ ~ poisoned

CapsuleInv ==
    /\ pc \in {"absent", "open", "closed"} /\ poisoned \in BOOLEAN
    /\ pc = "absent" =>
          /\ bytes = <<>> /\ store = <<>> /\ acked = <<>> /\ decayed = {} /\ ~ poisoned
    /\ pc # "absent" => \E ph : Fits(ph)

(* All of a sequence is a slice of it.                                      *)
LEMMA WholeSlice ==
    ASSUME NEW S, NEW r \in Seq(S)
    PROVE  Slice(r, 0, Len(r)) = r
<1> DEFINE l == Len(r)
<1>1. l \in Nat /\ 0 \in Nat /\ 0 + l <= Len(r)
    OBVIOUS
<1> HIDE DEF l
<1>2. /\ Slice(r, 0, l) = [j \in 1 .. l |-> r[0 + j]]
      /\ Slice(r, 0, l) \in Seq(S) /\ Len(Slice(r, 0, l)) = l
    BY <1>1, SliceIs
<1>3. \A j \in 1 .. l : Slice(r, 0, l)[j] = r[j]
    BY <1>1, <1>2
<1> QED BY <1>2, <1>3, SeqEqual DEF l

(* Before the file exists.                                                  *)
LEMMA InitHolds == Init => CapsuleInv
BY DEF Init, CapsuleInv

(* Any part of the first record in a new file.                              *)
LEMMA FirstAppend ==
    ASSUME NEW written, NEW tail, written \in Nat, written <= RecordCells(1),
           RecordCells(1) <= MaxCells,
           tail = Slice(Record(HeaderOf(First, 1)), 0, written)
    PROVE  Holds(tail, First, {}) /\ Len(tail) = written
<1>1. PICK none, q, clean : none = <<>> /\ q = First /\ clean = {}
    OBVIOUS
<1>2. Chain(q) /\ Len(q) = 1 /\ Holds(none, q, clean)
    BY <1>1, EmptyFile DEF First
<1>3. StartOf(1) = 0 /\ RecordCells(1) \in Nat /\ MaxCells \in Nat /\ Len(none) = 0
    BY <1>1, Arithmetic, StartNext, LimitAssumption
<1>4. /\ Len(none) = StartOf(Len(q)) /\ written <= RecordCells(Len(q))
      /\ Len(none) + written <= MaxCells
      /\ tail = Slice(Record(HeaderOf(q, Len(q))), 0, written)
    BY <1>1, <1>2, <1>3
<1>5. Appending(none, q, clean, tail, written)
    BY <1>2, <1>4 DEF Appending
<1>6. tail \in Seq(CellSet) /\ Len(tail) = written /\ Holds(none \o tail, q, clean)
    BY <1>5, AfterAppend
<1>7. none \o tail = tail
    BY <1>1, <1>6, ConcatEmptySeq
<1> QED BY <1>1, <1>6, <1>7

(* create_new, wherever it stops.                                           *)
LEMMA CreateKeeps ==
    ASSUME CapsuleInv, NEW written \in Nat, CreateNew(written)
    PROVE  CapsuleInv'
<1> DEFINE h == HeaderOf(First, 1)
           R == RecordCells(1)
<1>1. /\ Chain(First) /\ Len(First) = 1 /\ Holds(<<>>, First, {})
      /\ First \in Seq(Phases) /\ First[1] = Discovered
    BY EmptyFile DEF First
<1>2. StartOf(1) = 0 /\ StartOf(1 + 1) = StartOf(1) + R /\ R \in Nat \ {0}
    BY Arithmetic, StartNext
<1>3. NextHeader(<<>>, Discovered) = h /\ R <= MaxCells
    BY FirstHeader DEF CreateNew
<1>4. Record(h) \in Seq(CellSet) /\ Len(Record(h)) = R
    BY <1>1, RecordIs, SMTT(60)
<1>5. /\ pc = "absent" /\ written \in 0 .. R /\ bytes' = Slice(Record(h), 0, written)
      /\ \/ written = R /\ store' = bytes' /\ acked' = <<Discovered>> /\ pc' = "open"
         \/ pc' = "closed" /\ UNCHANGED <<store, acked>>
      /\ UNCHANGED <<poisoned, decayed>>
    BY <1>3, <1>4 DEF CreateNew
<1>6. poisoned' = FALSE /\ decayed' = {} /\ store = <<>> /\ acked = <<>>
    BY <1>5 DEF CapsuleInv
<1>7. Holds(bytes', First, {}) /\ Len(bytes') = written
    BY <1>3, <1>5, FirstAppend
<1>8. Complete(bytes', First) \in Nat /\ Complete(bytes', First) <= 1
  <2>1. Complete(bytes', First) \in Nat /\ Complete(bytes', First) <= Len(First)
    BY <1>1, <1>7, CompleteFacts
  <2> QED BY <1>1, <2>1
<1> HIDE DEF h, R
<1>9. CASE written = R /\ store' = bytes' /\ acked' = <<Discovered>> /\ pc' = "open"
  <2>1. acked' = First
    BY <1>9 DEF First
  <2>2. Len(bytes') = StartOf(Len(First) + 1)
    BY <1>1, <1>2, <1>7, <1>9
  <2>3. Complete(bytes', First) = 1
    BY <1>1, <2>2 DEF Complete
  <2>4. Acknowledged(bytes', First, acked')
    <3>1. Len(First) \in Nat /\ Len(First) <= Complete(bytes', First)
          /\ Complete(bytes', First) <= Len(First) + 1
        BY <1>1, <2>3
    <3> QED BY <1>1, <2>1, <3>1 DEF Acknowledged
  <2>5. Fits(First)'
    BY <1>1, <1>6, <1>7, <1>9, <2>1, <2>2, <2>4 DEF Fits
  <2> QED BY <1>6, <1>9, <2>5 DEF CapsuleInv
<1>10. CASE pc' = "closed" /\ UNCHANGED <<store, acked>>
  <2>1. acked' = <<>> /\ store' = <<>>
    BY <1>6, <1>10
  <2>2. Acknowledged(bytes', First, acked')
    BY <1>8, <2>1 DEF Acknowledged
  <2>3. Fits(First)'
    BY <1>1, <1>6, <1>7, <1>10, <2>1, <2>2 DEF Fits
  <2> QED BY <1>6, <1>10, <2>3 DEF CapsuleInv
<1> QED BY <1>5, <1>9, <1>10

(* A store that may append: its file is complete and acknowledged.          *)
LEMMA OpenFile ==
    ASSUME CapsuleInv, pc = "open", ~ poisoned, NEW phase \in Phases,
           NextHeader(store, phase) # NoHeader
    PROVE  \E ph : LET q == Append(ph, phase)
                   IN  /\ Chain(q) /\ Len(q) = Len(ph) + 1 /\ Len(ph) \in Nat \ {0}
                       /\ Holds(store, q, decayed) /\ Len(store) = StartOf(Len(q))
                       /\ NextHeader(store, phase) = HeaderOf(q, Len(q))
                       /\ Len(store) + RecordCells(Len(q)) <= MaxCells
                       /\ acked \in Seq(Phases) /\ Len(acked) = Len(ph)
                       /\ \A i \in 1 .. Len(acked) : acked[i] = q[i]
                       /\ q[Len(q)] = phase
<1>1. PICK ph : Fits(ph)
    BY DEF CapsuleInv
<1> DEFINE q == Append(ph, phase)
<1>2. /\ Chain(ph) /\ Holds(store, ph, decayed) /\ Len(store) = StartOf(Len(ph) + 1)
      /\ acked \in Seq(Phases) /\ Len(acked) = Len(ph)
      /\ \A i \in 1 .. Len(acked) : acked[i] = ph[i]
    BY <1>1 DEF Fits, Acknowledged
<1>3. ph \in Seq(Phases) /\ Len(ph) \in Nat \ {0}
    BY <1>2 DEF Chain
<1>4. /\ Chain(q) /\ Len(q) = Len(ph) + 1
      /\ \A i \in 1 .. Len(ph) : q[i] = ph[i]
      /\ NextHeader(store, phase) = HeaderOf(q, Len(q))
      /\ Len(store) + RecordCells(Len(q)) <= MaxCells
    BY <1>2, NextHeaderIs
<1>5. q[Len(q)] = phase
    BY <1>3, <1>4
<1> HIDE DEF q
<1>6. Holds(store, q, decayed)
    BY <1>2, <1>4, BeforeAppend
<1>7. \A i \in 1 .. Len(acked) : acked[i] = q[i]
    BY <1>2, <1>4
<1>8. Len(store) = StartOf(Len(q))
    BY <1>2, <1>4
<1> QED BY <1>2, <1>3, <1>4, <1>5, <1>6, <1>7, <1>8 DEF q

(* append that is acknowledged.                                             *)
LEMMA AppendKeeps ==
    ASSUME CapsuleInv, NEW phase \in Phases, AppendGeneration(phase)
    PROVE  CapsuleInv'
<1>1. /\ pc = "open" /\ ~ poisoned /\ NextHeader(store, phase) # NoHeader
      /\ bytes' = store \o Record(NextHeader(store, phase))
      /\ store' = bytes' /\ acked' = Append(acked, phase)
      /\ pc' = pc /\ poisoned' = poisoned /\ decayed' = decayed
    BY DEF AppendGeneration
<1>2. PICK ph : LET q == Append(ph, phase)
                IN  /\ Chain(q) /\ Len(q) = Len(ph) + 1 /\ Len(ph) \in Nat \ {0}
                    /\ Holds(store, q, decayed) /\ Len(store) = StartOf(Len(q))
                    /\ NextHeader(store, phase) = HeaderOf(q, Len(q))
                    /\ Len(store) + RecordCells(Len(q)) <= MaxCells
                    /\ acked \in Seq(Phases) /\ Len(acked) = Len(ph)
                    /\ \A i \in 1 .. Len(acked) : acked[i] = q[i]
                    /\ q[Len(q)] = phase
    BY <1>1, OpenFile
<1> DEFINE q == Append(ph, phase)
           m == Len(q)
           r == Record(HeaderOf(q, m))
           R == RecordCells(m)
<1> HIDE DEF q
<1>3. /\ Chain(q) /\ m = Len(ph) + 1 /\ Len(ph) \in Nat \ {0}
      /\ Holds(store, q, decayed) /\ Len(store) = StartOf(m)
      /\ NextHeader(store, phase) = HeaderOf(q, m) /\ Len(store) + R <= MaxCells
      /\ acked \in Seq(Phases) /\ Len(acked) = Len(ph)
      /\ \A i \in 1 .. Len(acked) : acked[i] = q[i]
      /\ q[m] = phase
    BY <1>2 DEF q
<1>4. m \in Nat \ {0} /\ m \in 1 .. Len(q)
    BY <1>3
<1>5. /\ r \in Seq(CellSet) /\ Len(r) = R /\ R \in Nat /\ StartOf(m + 1) = StartOf(m) + R
    BY <1>3, <1>4, RecordIs, Arithmetic
<1>6. Slice(r, 0, R) = r
    BY <1>5, WholeSlice
<1>7. Holds(store \o r, q, decayed) /\ Len(store \o r) = StartOf(m) + R
  <2>1. R \in Nat /\ R <= RecordCells(Len(q)) /\ Len(store) + R <= MaxCells
        /\ r = Slice(Record(HeaderOf(q, Len(q))), 0, R)
    BY <1>3, <1>5, <1>6
  <2>2. Chain(q) /\ Holds(store, q, decayed) /\ Len(store) = StartOf(Len(q))
    BY <1>3
  <2>3. Appending(store, q, decayed, r, R)
    BY <2>1, <2>2 DEF Appending
  <2> HIDE DEF r, R
  <2> QED BY <2>3, AfterAppend
<1>8. Holds(bytes', q, decayed') /\ Len(bytes') = StartOf(Len(q) + 1)
    BY <1>1, <1>3, <1>5, <1>7
<1>9. Complete(bytes', q) = m
    BY <1>8 DEF Complete
<1>10. acked' \in Seq(Phases) /\ Len(acked') = m /\ \A i \in 1 .. m : acked'[i] = q[i]
  <2>1. acked' \in Seq(Phases) /\ Len(acked') = Len(acked) + 1
        /\ acked'[Len(acked) + 1] = phase
        /\ \A i \in 1 .. Len(acked) : acked'[i] = acked[i]
    BY <1>1, <1>3
  <2>2. ASSUME NEW i \in 1 .. m PROVE acked'[i] = q[i]
    <3>1. CASE i = m
        BY <1>3, <2>1, <3>1
    <3>2. CASE i # m
      <4>1. i \in 1 .. Len(acked)
        BY <1>3, <1>4, <3>2
      <4> QED BY <1>3, <2>1, <4>1
    <3> QED BY <3>1, <3>2
  <2> QED BY <1>3, <2>1, <2>2
<1> HIDE DEF r, R
<1>11. Acknowledged(bytes', q, acked')
    BY <1>4, <1>9, <1>10 DEF Acknowledged
<1>12. Fits(q)'
    BY <1>1, <1>3, <1>8, <1>10, <1>11 DEF Fits
<1> QED BY <1>1, <1>12 DEF CapsuleInv

(* append that fails, wherever it stops.                                    *)
LEMMA AppendFailsKeeps ==
    ASSUME CapsuleInv, NEW phase \in Phases, NEW written \in Nat, AppendFails(phase, written)
    PROVE  CapsuleInv'
<1>1. /\ pc = "open" /\ ~ poisoned /\ NextHeader(store, phase) # NoHeader
      /\ written \in 0 .. Len(Record(NextHeader(store, phase)))
      /\ bytes' = store \o Slice(Record(NextHeader(store, phase)), 0, written)
      /\ poisoned' = TRUE /\ store' = store /\ pc' = pc /\ acked' = acked
      /\ decayed' = decayed
    BY DEF AppendFails
<1>2. PICK ph : LET q == Append(ph, phase)
                IN  /\ Chain(q) /\ Len(q) = Len(ph) + 1 /\ Len(ph) \in Nat \ {0}
                    /\ Holds(store, q, decayed) /\ Len(store) = StartOf(Len(q))
                    /\ NextHeader(store, phase) = HeaderOf(q, Len(q))
                    /\ Len(store) + RecordCells(Len(q)) <= MaxCells
                    /\ acked \in Seq(Phases) /\ Len(acked) = Len(ph)
                    /\ \A i \in 1 .. Len(acked) : acked[i] = q[i]
                    /\ q[Len(q)] = phase
    BY <1>1, OpenFile
<1> DEFINE q == Append(ph, phase)
           m == Len(q)
           R == RecordCells(m)
<1> HIDE DEF q
<1>3. /\ Chain(q) /\ m = Len(ph) + 1 /\ Len(ph) \in Nat \ {0}
      /\ Holds(store, q, decayed) /\ Len(store) = StartOf(m)
      /\ NextHeader(store, phase) = HeaderOf(q, m) /\ Len(store) + R <= MaxCells
      /\ acked \in Seq(Phases) /\ Len(acked) = Len(ph)
      /\ \A i \in 1 .. Len(acked) : acked[i] = q[i]
    BY <1>2 DEF q
<1>4. m \in Nat \ {0} /\ m \in 1 .. Len(q) /\ MaxCells \in Nat
    BY <1>3, LimitAssumption
<1>5. Len(Record(HeaderOf(q, m))) = R /\ R \in Nat /\ StartOf(m) \in Nat
    BY <1>3, <1>4, RecordIs, Arithmetic
<1>6. written \in 0 .. RecordCells(Len(q)) /\ Len(store) + written <= MaxCells
    BY <1>1, <1>3, <1>4, <1>5
<1>7. /\ Holds(bytes', q, decayed') /\ Len(bytes') = StartOf(Len(q)) + written
      /\ Slice(bytes', 0, StartOf(Len(q))) = store'
  <2> DEFINE tail == Slice(Record(HeaderOf(q, m)), 0, written)
  <2>1. /\ written \in Nat /\ written <= RecordCells(Len(q))
        /\ tail = Slice(Record(HeaderOf(q, Len(q))), 0, written)
    BY <1>5, <1>6
  <2>2. Chain(q) /\ Holds(store, q, decayed) /\ Len(store) = StartOf(Len(q))
    BY <1>3
  <2>3. bytes' = store \o tail
    BY <1>1, <1>3
  <2> HIDE DEF tail
  <2>4. Appending(store, q, decayed, tail, written)
    BY <1>6, <2>1, <2>2 DEF Appending
  <2>5. /\ Holds(store \o tail, q, decayed) /\ Len(store \o tail) = StartOf(Len(q)) + written
        /\ Slice(store \o tail, 0, StartOf(Len(q))) = store
    BY <2>4, AfterAppend
  <2> QED BY <1>1, <2>3, <2>5
<1>8. /\ Complete(bytes', q) \in Nat /\ Complete(bytes', q) <= m
      /\ m <= Complete(bytes', q) + 1
    BY <1>3, <1>7, CompleteFacts
<1>9. Acknowledged(bytes', q, acked')
  <2>1. Len(acked) <= Complete(bytes', q) /\ Complete(bytes', q) <= Len(acked) + 1
    BY <1>3, <1>8
  <2> QED BY <1>1, <1>3, <2>1 DEF Acknowledged
<1>10. Fits(q)'
    BY <1>1, <1>3, <1>7, <1>9 DEF Fits
<1> QED BY <1>1, <1>10 DEF CapsuleInv

(* What is adopted becomes the file, and all of it acknowledged.            *)
LEMMA AdoptKeeps ==
    ASSUME NEW file, NEW ph, Chain(ph), Holds(file, ph, decayed),
           Len(file) = StartOf(Len(ph) + 1), Adopt(file)
    PROVE  CapsuleInv'
<1> DEFINE m == Len(ph)
<1>1. /\ bytes' = file /\ store' = file /\ poisoned' = FALSE /\ pc' = "open"
      /\ acked' = PhasesOf(ScanCapsule(file)) /\ decayed' = decayed
    BY DEF Adopt
<1>2. ph \in Seq(Phases) /\ m \in Nat \ {0}
    BY DEF Chain
<1>3. Complete(file, ph) = m
    BY DEF Complete
<1>4. acked' = Prefix(ph, m)
    BY <1>1, <1>3, Scans
<1>5. acked' \in Seq(Phases) /\ Len(acked') = m /\ \A i \in 1 .. m : acked'[i] = ph[i]
    BY <1>2, <1>4 DEF Prefix
<1>6. Acknowledged(bytes', ph, acked')
    BY <1>1, <1>2, <1>3, <1>5 DEF Acknowledged
<1>7. Fits(ph)'
    BY <1>1, <1>5, <1>6 DEF Fits
<1> QED BY <1>1, <1>7 DEF CapsuleInv

(* Adopting the complete records of the file.                               *)
LEMMA AdoptPart ==
    ASSUME NEW ph, Chain(ph), Holds(bytes, ph, decayed), Complete(bytes, ph) # 0,
           Adopt(Slice(bytes, 0, StartOf(Complete(bytes, ph) + 1)))
    PROVE  CapsuleInv'
<1> DEFINE n == Complete(bytes, ph)
           q == Prefix(ph, n)
           part == Slice(bytes, 0, StartOf(n + 1))
<1>1. n \in 1 .. Complete(bytes, ph)
  <2>1. Complete(bytes, ph) \in Nat
    BY CompleteFacts
  <2> QED BY <2>1
<1>2. /\ Chain(q) /\ Len(q) = n /\ Holds(part, q, decayed \cap (1 .. n))
      /\ Len(part) = StartOf(n + 1)
  <2>1. Cut(bytes, ph, decayed, n)
    BY <1>1 DEF Cut
  <2> QED BY <2>1, AfterCut, ZenonT(60)
<1>3. decayed \cap (1 .. n) = decayed
    BY BadIsComplete
<1> HIDE DEF q
<1>4. Holds(part, q, decayed) /\ Len(part) = StartOf(Len(q) + 1) /\ Adopt(part)
    BY <1>2, <1>3
<1> HIDE DEF part
<1> QED BY <1>2, <1>4, AdoptKeeps

(* restore_verified_prefix accepts the complete records of the file.        *)
LEMMA ReconciledIs ==
    ASSUME NEW ph, Fits(ph), pc = "open", poisoned
    PROVE  LET n == Complete(bytes, ph)
               part == Slice(bytes, 0, StartOf(n + 1))
           IN  n # 0 /\ Reconciled = part /\ part # <<>>
<1> DEFINE n == Complete(bytes, ph)
           part == Slice(bytes, 0, StartOf(n + 1))
           m == Len(ph)
           k == m - 1
           q == Prefix(ph, k)
           full == StartOf(n + 1) = Len(bytes)
<1>1. /\ Chain(ph) /\ Holds(bytes, ph, decayed) /\ Len(acked) # 0 /\ m = Len(acked) + 1
      /\ store = Slice(bytes, 0, StartOf(m)) /\ Len(acked) \in Nat
      /\ Len(acked) <= n
    BY DEF Fits, Acknowledged
<1>2. /\ n \in Nat /\ n <= m /\ m <= n + 1 /\ bytes \in Seq(CellSet)
      /\ Len(bytes) \in Nat /\ StartOf(n + 1) <= Len(bytes)
      /\ ~ full => n + 1 = m
    BY <1>1, CompleteFacts DEF Holds
<1>3. k \in Nat \ {0} /\ k \in 1 .. n /\ k + 1 = m /\ n \in {k, k + 1} /\ n \in 1 .. n /\ n # 0
    BY <1>1, <1>2
<1>4. /\ Chain(q) /\ Len(q) = k /\ Holds(store, q, decayed \cap (1 .. k))
      /\ Len(store) = StartOf(k + 1)
  <2>1. store = Slice(bytes, 0, StartOf(k + 1))
    BY <1>1, <1>3
  <2>2. Cut(bytes, ph, decayed, k)
    BY <1>1, <1>3 DEF Cut
  <2> HIDE DEF k, m
  <2> QED BY <2>1, <2>2, AfterCut
<1>5. Len(part) = StartOf(n + 1) /\ (full => part = bytes)
  <2>1. Cut(bytes, ph, decayed, n)
    BY <1>1, <1>3 DEF Cut
  <2>2. Len(part) = StartOf(n + 1)
    BY <2>1, AfterCut, ZenonT(60)
  <2>3. Slice(bytes, 0, Len(bytes)) = bytes
    BY <1>2, WholeSlice
  <2> QED BY <2>2, <2>3
<1>6. part # <<>>
  <2>0. n \in Nat \ {0}
    BY <1>2, <1>3
  <2> HIDE DEF n
  <2>1. /\ StartOf(n + 1) = StartOf(n) + RecordCells(n) /\ StartOf(n) \in Nat
        /\ RecordCells(n) \in Nat \ {0}
    BY <2>0, Arithmetic
  <2>2. Len(part) # 0
    BY <1>5, <2>1
  <2> HIDE DEF part
  <2> QED BY <2>2
<1>7. Len(ScanCapsule(store).generations) = k
  <2> HIDE DEF q, k
  <2>1. Complete(store, q) = k
    BY <1>4 DEF Complete
  <2>2. ScanCapsule(store).generations = GenerationsOf(q, k)
    BY <1>4, <2>1, Scans
  <2> QED BY <1>3, <2>2, GenerationsFacts
<1>8. IsPrefix(store, bytes)
  <2>1. store \in Seq(CellSet)
    BY <1>4 DEF Holds
  <2>2. Slice(store, 0, Len(store)) = store
    BY <2>1, WholeSlice
  <2>3. store = Slice(bytes, 0, Len(store))
    BY <1>1, <1>3, <1>4
  <2>4. Len(store) \in Nat /\ Len(store) <= Len(bytes)
    <3>1. StartOf(m) <= Len(bytes)
        BY <1>1 DEF Holds
    <3> QED BY <1>3, <1>4, <2>1, <3>1
  <2>5. 0 + 1 = 1 /\ 0 + Len(store) = Len(store)
    BY <2>4
  <2>6. SubSeq(store, 1, Len(store)) = SubSeq(bytes, 1, Len(store))
    BY <2>2, <2>3, <2>5 DEF Slice
  <2> QED BY <2>4, <2>6 DEF IsPrefix
<1>9. Reconciled =
          IF ScanCapsule(bytes).ok
          THEN IF Len(ScanCapsule(bytes).generations) \in {k, k + 1} THEN bytes ELSE <<>>
          ELSE IF RepairTornSuffix(bytes) = store THEN store ELSE <<>>
    BY <1>7, <1>8, Zenon DEF Reconciled
<1>10. CASE full
  <2>1. ScanCapsule(bytes).ok /\ ScanCapsule(bytes).generations = GenerationsOf(ph, n)
    BY <1>1, <1>10, Scans
  <2>2. Len(ScanCapsule(bytes).generations) = n
    BY <1>2, <2>1, GenerationsFacts
  <2> HIDE DEF n, k, part
  <2>3. Reconciled = bytes
    BY <1>3, <1>9, <2>1, <2>2
  <2> QED BY <1>3, <1>5, <1>6, <1>10, <2>3 DEF n, part
<1>11. CASE ~ full
  <2>1. ~ ScanCapsule(bytes).ok
    BY <1>1, <1>11, Scans
  <2>2. RepairTornSuffix(bytes) = IF n = 0 THEN <<>> ELSE part
    BY <1>1, <1>11, RepairIs
  <2>3. part = store
    BY <1>1, <1>2, <1>11
  <2> HIDE DEF n, k, part
  <2> QED BY <1>3, <1>6, <1>9, <2>1, <2>2, <2>3 DEF n, part
<1> QED BY <1>10, <1>11

(* restore_verified_prefix.                                                 *)
LEMMA RestoreKeeps ==
    ASSUME CapsuleInv, RestoreVerifiedPrefix
    PROVE  CapsuleInv'
<1>1. pc = "open" /\ poisoned /\ Adopt(Reconciled)
    BY DEF RestoreVerifiedPrefix
<1>2. PICK ph : Fits(ph)
    BY <1>1 DEF CapsuleInv
<1> DEFINE n == Complete(bytes, ph)
<1>3. n # 0 /\ Reconciled = Slice(bytes, 0, StartOf(n + 1))
    BY <1>1, <1>2, ReconciledIs
<1>4. Chain(ph) /\ Holds(bytes, ph, decayed)
    BY <1>2 DEF Fits
<1>5. Adopt(Slice(bytes, 0, StartOf(n + 1)))
    BY <1>1, <1>3
<1> QED BY <1>3, <1>4, <1>5, AdoptPart

(* resume_recovering.                                                       *)
LEMMA ResumeKeeps ==
    ASSUME CapsuleInv, ResumeRecovering
    PROVE  CapsuleInv'
<1>1. pc = "closed" /\ Resumed # <<>> /\ Adopt(Resumed)
    BY DEF ResumeRecovering
<1>2. PICK ph : Fits(ph)
    BY <1>1 DEF CapsuleInv
<1> DEFINE n == Complete(bytes, ph)
           part == Slice(bytes, 0, StartOf(n + 1))
           full == StartOf(n + 1) = Len(bytes)
<1>3. Chain(ph) /\ Holds(bytes, ph, decayed)
    BY <1>2 DEF Fits
<1>4. n \in Nat /\ bytes \in Seq(CellSet)
    BY <1>3, CompleteFacts DEF Holds
<1>5. ScanCapsule(bytes).ok <=> full
    BY <1>3, Scans
<1>6. Resumed = IF full THEN bytes ELSE RepairTornSuffix(bytes)
    BY <1>5, Zenon DEF Resumed
<1>7. n # 0 /\ Resumed = part
  <2>1. CASE full
    <3>1. Resumed = bytes
        BY <1>6, <2>1
    <3>2. n # 0
      <4>1. SUFFICES ASSUME n = 0 PROVE FALSE
        OBVIOUS
      <4>2. StartOf(n + 1) = 0
        BY <4>1, StartNext
      <4> QED BY <1>1, <1>4, <2>1, <3>1, <4>2
    <3>3. Slice(bytes, 0, Len(bytes)) = bytes
        BY <1>4, WholeSlice
    <3>4. part = bytes
        BY <2>1, <3>3
    <3> QED BY <3>1, <3>2, <3>4
  <2>2. CASE ~ full
    <3>1. RepairTornSuffix(bytes) = IF n = 0 THEN <<>> ELSE part
        BY <1>3, <2>2, RepairIs
    <3> HIDE DEF n, part
    <3> QED BY <1>1, <1>6, <2>2, <3>1
  <2> QED BY <2>1, <2>2
<1>8. Adopt(Slice(bytes, 0, StartOf(n + 1)))
    BY <1>1, <1>7
<1> QED BY <1>3, <1>7, <1>8, AdoptPart

(* The store is dropped.                                                    *)
LEMMA DropKeeps ==
    ASSUME CapsuleInv, Drop
    PROVE  CapsuleInv'
<1>1. /\ pc = "open" /\ pc' = "closed" /\ store' = <<>> /\ poisoned' = FALSE
      /\ bytes' = bytes /\ acked' = acked /\ decayed' = decayed
    BY DEF Drop
<1>2. PICK ph : Fits(ph)
    BY <1>1 DEF CapsuleInv
<1>3. Chain(ph) /\ Holds(bytes', ph, decayed') /\ Acknowledged(bytes', ph, acked')
    BY <1>1, <1>2 DEF Fits
<1>4. Fits(ph)'
    BY <1>1, <1>3 DEF Fits
<1> QED BY <1>1, <1>4 DEF CapsuleInv

(* One cell of one header copy goes bad.                                    *)
LEMMA DecayKeeps ==
    ASSUME CapsuleInv, NEW g \in 1 .. MaxGenerations, NEW copy \in {"primary", "trailing"},
           NEW part \in 1 .. HeaderCells, HeaderDecays(g, copy, part)
    PROVE  CapsuleInv'
<1> DEFINE gens == RecoverCapsule(bytes).generations
           skip == IF copy = "primary" THEN 0 ELSE HeaderCells + gens[g].header.len
           p == gens[g].start + part + skip
<1>1. /\ pc = "closed" /\ g \in (1 .. Len(gens)) \ decayed
      /\ bytes' = [bytes EXCEPT ![p] = Junk] /\ decayed' = decayed \cup {g}
      /\ store' = store /\ pc' = pc /\ poisoned' = poisoned /\ acked' = acked
    BY DEF HeaderDecays
<1>2. PICK ph : Fits(ph)
    BY <1>1 DEF CapsuleInv
<1> DEFINE n == Complete(bytes, ph)
           b == IF copy = "primary" THEN part - 1 ELSE HeaderCells + PayloadCells(g) + part - 1
<1>3. Chain(ph) /\ Holds(bytes, ph, decayed) /\ Acknowledged(bytes, ph, acked)
    BY <1>2 DEF Fits
<1>4. gens = GenerationsOf(ph, n) /\ n \in Nat /\ n <= Len(ph) /\ Len(ph) \in Nat
    BY <1>3, Scans, CompleteFacts DEF Chain
<1>5. Len(gens) = n /\ \A i \in 1 .. n : gens[i] = GenerationOf(ph, i)
    BY <1>4, GenerationsFacts, SMTT(60)
<1>6. g \in 1 .. n /\ g \notin decayed /\ g \in 1 .. Len(ph) /\ g \in Nat \ {0}
    BY <1>1, <1>4, <1>5
<1>7. gens[g].start = StartOf(g) /\ gens[g].header.len = PayloadCells(g)
  <2>1. gens[g] = GenerationOf(ph, g)
    BY <1>5, <1>6
  <2>2. HeaderOf(ph, g).len = PayloadCells(g)
    BY <1>3, <1>6, HeaderFacts
  <2> HIDE DEF gens
  <2> QED BY <2>1, <2>2 DEF GenerationOf
<1>8. /\ HeaderCells \in Nat \ {0} /\ PayloadCells(g) \in Nat \ {0} /\ StartOf(g) \in Nat
      /\ RecordCells(g) = 2 * HeaderCells + PayloadCells(g)
    BY <1>6, Arithmetic
<1> HIDE DEF gens, n
<1>9. b \in PrimaryPart(g) \cup TrailingPart(g) /\ p = StartOf(g) + b + 1
  <2>1. CASE copy = "primary"
    <3>1. b = part - 1 /\ p = StartOf(g) + part + 0
        BY <1>7, <2>1
    <3> QED BY <1>8, <3>1 DEF PrimaryPart
  <2>2. CASE copy # "primary"
    <3>1. b = HeaderCells + PayloadCells(g) + part - 1
          /\ p = StartOf(g) + part + (HeaderCells + PayloadCells(g))
        BY <1>7, <2>2
    <3> QED BY <1>8, <3>1 DEF TrailingPart
  <2> QED BY <2>1, <2>2
<1> HIDE DEF b, p
<1>10. Holds(bytes', ph, decayed') /\ Len(bytes') = Len(bytes)
  <2>1. g \in 1 .. Complete(bytes, ph)
    BY <1>6 DEF n
  <2>2. /\ Holds([bytes EXCEPT ![StartOf(g) + b + 1] = Junk], ph, decayed \cup {g})
        /\ Len([bytes EXCEPT ![StartOf(g) + b + 1] = Junk]) = Len(bytes)
    <3>1. Decaying(bytes, ph, decayed, g, b)
        BY <1>3, <1>6, <1>9, <2>1 DEF Decaying
    <3> QED BY <3>1, AfterDecay
  <2> QED BY <1>1, <1>9, <2>2
<1>11. Acknowledged(bytes', ph, acked')
  <2>1. Complete(bytes', ph) = Complete(bytes, ph)
    BY <1>10 DEF Complete
  <2> QED BY <1>1, <1>3, <2>1 DEF Acknowledged
<1>12. store = <<>> /\ ~ poisoned
    BY <1>1, <1>2 DEF Fits
<1>13. Fits(ph)'
    BY <1>1, <1>3, <1>10, <1>11, <1>12 DEF Fits
<1> QED BY <1>1, <1>12, <1>13 DEF CapsuleInv

(* A step of something else.                                                *)
LEMMA StutterKeeps ==
    ASSUME CapsuleInv, UNCHANGED vars
    PROVE  CapsuleInv'
<1>1. /\ bytes' = bytes /\ store' = store /\ pc' = pc /\ poisoned' = poisoned
      /\ acked' = acked /\ decayed' = decayed
    BY DEF vars
<1>2. ASSUME NEW ph PROVE Fits(ph)' <=> Fits(ph)
    BY <1>1 DEF Fits
<1> QED BY <1>1, <1>2 DEF CapsuleInv

-----------------------------------------------------------------------------
(***************************************************************************)
(* The invariant of the capsule file: whatever part of a record an append   *)
(* of CapsuleStore wrote before it stopped, and whichever header copies     *)
(* decayed, the file holds the records of a legal chain of phases, up to a  *)
(* cut in the last one, with all acknowledged ones and at most one more     *)
(* complete; a store in use knows all of it but the record in flight.       *)
(***************************************************************************)
THEOREM CapsuleInvariant == Spec => []CapsuleInv
<1>1. ASSUME CapsuleInv, [Next]_vars PROVE CapsuleInv'
  <2>1. CASE \E written \in 0 .. MaxCells : CreateNew(written)
    <3>1. PICK written \in 0 .. MaxCells : CreateNew(written)
        BY <2>1
    <3>2. written \in Nat
        BY LimitAssumption
    <3> QED BY <1>1, <3>1, <3>2, CreateKeeps
  <2>2. CASE \E phase \in Phases : AppendGeneration(phase)
    BY <1>1, <2>2, AppendKeeps
  <2>3. CASE \E phase \in Phases, written \in 0 .. MaxCells : AppendFails(phase, written)
    <3>1. PICK phase \in Phases, written \in 0 .. MaxCells : AppendFails(phase, written)
        BY <2>3
    <3>2. written \in Nat
        BY LimitAssumption
    <3> QED BY <1>1, <3>1, <3>2, AppendFailsKeeps
  <2>4. CASE RestoreVerifiedPrefix
    BY <1>1, <2>4, RestoreKeeps
  <2>5. CASE ResumeRecovering
    BY <1>1, <2>5, ResumeKeeps
  <2>6. CASE Drop
    BY <1>1, <2>6, DropKeeps
  <2>7. CASE \E g \in 1 .. MaxGenerations, copy \in {"primary", "trailing"},
                part \in 1 .. HeaderCells : HeaderDecays(g, copy, part)
    BY <1>1, <2>7, DecayKeeps
  <2>8. CASE UNCHANGED vars
    BY <1>1, <2>8, StutterKeeps
  <2> QED BY <1>1, <2>1, <2>2, <2>3, <2>4, <2>5, <2>6, <2>7, <2>8 DEF Next
<1> QED BY <1>1, InitHolds, PTL DEF Spec

(***************************************************************************)
(* recover_capsule reads back every generation whose append was             *)
(* acknowledged, in order, and at most the one in flight: for headers and   *)
(* payloads of any size, any number of generations, an append cut at any    *)
(* cell and one bad header copy in any of them.                             *)
(***************************************************************************)
THEOREM AcknowledgedIsRecovered == Spec => []RecoversAcknowledged
<1>1. ASSUME CapsuleInv PROVE RecoversAcknowledged
  <2>1. SUFFICES ASSUME acked # <<>>
                 PROVE  /\ RecoverCapsule(bytes).ok
                        /\ IsPrefix(acked, PhasesOf(RecoverCapsule(bytes)))
                        /\ Len(RecoverCapsule(bytes).generations) <= Len(acked) + 1
    BY DEF RecoversAcknowledged
  <2>2. pc # "absent"
    BY <1>1, <2>1 DEF CapsuleInv
  <2>3. PICK ph : Fits(ph)
    BY <1>1, <2>2 DEF CapsuleInv
  <2> DEFINE n == Complete(bytes, ph)
             l == Len(acked)
             t == Prefix(ph, n)
  <2>4. /\ Chain(ph) /\ Holds(bytes, ph, decayed) /\ acked \in Seq(Phases) /\ l <= n
        /\ n <= l + 1 /\ \A i \in 1 .. l : acked[i] = ph[i]
    BY <2>3 DEF Fits, Acknowledged
  <2>5. /\ RecoverCapsule(bytes).ok /\ PhasesOf(RecoverCapsule(bytes)) = t
        /\ RecoverCapsule(bytes).generations = GenerationsOf(ph, n)
    BY <2>4, Scans
  <2>6. n \in Nat /\ n <= Len(ph) /\ ph \in Seq(Phases) /\ l \in Nat
    BY <2>4, CompleteFacts DEF Chain
  <2>7. Len(GenerationsOf(ph, n)) = n
    BY <2>6, GenerationsFacts
  <2>8. t \in Seq(Phases) /\ Len(t) = n /\ \A i \in 1 .. n : t[i] = ph[i]
    <3> HIDE DEF n
    <3>1. \A i \in 1 .. n : ph[i] \in Phases
        BY <2>6
    <3> QED BY <2>6, <3>1 DEF Prefix
  <2> HIDE DEF n, t, l
  <2>9. Slice(t, 0, l) = acked
    <3>1. 0 \in Nat /\ 0 + l <= Len(t)
        BY <2>4, <2>6, <2>8
    <3>2. /\ Slice(t, 0, l) = [j \in 1 .. l |-> t[0 + j]]
          /\ Slice(t, 0, l) \in Seq(Phases) /\ Len(Slice(t, 0, l)) = l
        BY <2>6, <2>8, <3>1, SliceIs
    <3>3. \A j \in 1 .. l : Slice(t, 0, l)[j] = acked[j]
        BY <2>4, <2>6, <2>8, <3>2, SMTT(60)
    <3> QED BY <2>4, <3>2, <3>3, SeqEqual DEF l
  <2>10. Slice(acked, 0, l) = acked
    BY <2>4, WholeSlice DEF l
  <2>11. IsPrefix(acked, t)
    <3>1. 0 + 1 = 1 /\ 0 + l = l
        BY <2>6
    <3>2. SubSeq(acked, 1, l) = SubSeq(t, 1, l)
        BY <2>9, <2>10, <3>1 DEF Slice
    <3>3. Len(acked) <= Len(t)
        BY <2>4, <2>8 DEF l
    <3> QED BY <3>2, <3>3 DEF IsPrefix, l
  <2> QED BY <2>4, <2>5, <2>7, <2>11 DEF l
<1> QED BY <1>1, CapsuleInvariant, PTL

(***************************************************************************)
(* restore_verified_prefix accepts every file that a failed append of the   *)
(* same store can leave, whatever part of its record was written.           *)
(***************************************************************************)
THEOREM FailedAppendIsReconciled == Spec => []ReconciliationAccepts
<1>1. ASSUME CapsuleInv PROVE ReconciliationAccepts
  <2>1. SUFFICES ASSUME pc = "open", poisoned PROVE Reconciled # <<>>
    BY DEF ReconciliationAccepts
  <2>2. PICK ph : Fits(ph)
    BY <1>1, <2>1 DEF CapsuleInv
  <2> QED BY <2>1, <2>2, ReconciledIs
<1> QED BY <1>1, CapsuleInvariant, PTL
=============================================================================
