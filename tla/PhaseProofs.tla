---------------------------- MODULE PhaseProofs ------------------------------
(***************************************************************************)
(* For every image, every job and every set of foreign writes: the          *)
(* before-images of a prepared conversion undo it at every checkpoint. What *)
(* a group may write lies under the masks of its checkpoint, the masks hold *)
(* bytes of the original, they only grow, and a restart reads the same      *)
(* masks from the capsule because the envelope commits to them. And a group *)
(* that was interrupted is recognized: its writes share no byte with any    *)
(* other write of the plan, so a byte in their place is the original's or   *)
(* the final one unless somebody else wrote it.                             *)
(***************************************************************************)
EXTENDS PhaseWrites, GeometryProofs

-----------------------------------------------------------------------------
(* Before-images, and the bytes that a sequence of writes covers.           *)
Shown(o, offset, length) == [offset |-> offset, bytes |-> ReadBase(o, offset, length)]
Captured(o) == {Shown(o, p[1], p[2]) : p \in Nat \X Nat}

Covered(writes) == UNION {Cells(Extents(m)) : m \in ToSet(writes)}

LEMMA ReadLength ==
    ASSUME NEW o, NEW offset, NEW n \in Nat
    PROVE  /\ Len(ReadBase(o, offset, n)) = n
           /\ DOMAIN ReadBase(o, offset, n) = 1 .. n
           /\ \A i \in 1 .. n : ReadBase(o, offset, n)[i] = o[offset + i - 1]
<1> DEFINE s == ReadBase(o, offset, n)
           S == {o[offset + i - 1] : i \in 1 .. n}
<1>1. s = [i \in 1 .. n |-> o[offset + i - 1]]
    BY DEF ReadBase
<1>2. s \in [1 .. n -> S]
    BY <1>1
<1> HIDE DEF S, s
<1>3. s \in Seq(S)
    BY <1>2
<1>4. Len(s) = n
    BY <1>2, <1>3
<1>5. QED
    BY <1>1, <1>4 DEF s

LEMMA CapturedEmpty ==
    ASSUME NEW o, NEW w \in Captured(o), Len(w.bytes) = 0
    PROVE  w.bytes = <<>>
<1>1. PICK p \in Nat \X Nat : w = Shown(o, p[1], p[2])
    BY DEF Captured
<1>2. p[2] \in Nat /\ w.bytes = ReadBase(o, p[1], p[2])
    BY <1>1 DEF Shown
<1>3. p[2] = 0
    BY <1>2, ReadLength
<1>4. w.bytes = [i \in 1 .. 0 |-> o[p[1] + i - 1]]
    BY <1>2, <1>3 DEF ReadBase
<1>5. QED
    BY <1>4

LEMMA CapturedFacts ==
    ASSUME NEW o, NEW w \in Captured(o)
    PROVE  /\ w.offset \in Nat /\ Len(w.bytes) \in Nat
           /\ DOMAIN w.bytes = 1 .. Len(w.bytes)
           /\ \A i \in 1 .. Len(w.bytes) : w.bytes[i] = o[w.offset + i - 1]
           /\ Extents(w) \in RangeSet
           /\ Cells(Extents(w)) = w.offset .. w.offset + Len(w.bytes) - 1
<1>1. PICK p \in Nat \X Nat : w = Shown(o, p[1], p[2])
    BY DEF Captured
<1>2. p[1] \in Nat /\ p[2] \in Nat
    OBVIOUS
<1>3. w.offset = p[1] /\ w.bytes = ReadBase(o, p[1], p[2])
    BY <1>1 DEF Shown
<1>4. /\ Len(w.bytes) = p[2] /\ DOMAIN w.bytes = 1 .. p[2]
      /\ \A i \in 1 .. p[2] : w.bytes[i] = o[w.offset + i - 1]
    BY <1>2, <1>3, ReadLength
<1>5. Extents(w) = [offset |-> w.offset, length |-> Len(w.bytes)]
    BY DEF Extents, ByteRange
<1>6. Extents(w) \in RangeSet
    BY <1>2, <1>3, <1>4, <1>5 DEF RangeSet
<1>7. Cells(Extents(w)) = w.offset .. w.offset + Len(w.bytes) - 1
    BY <1>2, <1>3, <1>4, <1>5 DEF Cells, End
<1>8. QED
    BY <1>2, <1>3, <1>4, <1>6, <1>7

(* A sequence, sorted: the same elements.                                   *)
SameElements(a, b) ==
    /\ Len(a) = Len(b)
    /\ \A i \in 1 .. Len(a) : \E k \in 1 .. Len(b) : a[i] = b[k]
    /\ \A i \in 1 .. Len(b) : \E k \in 1 .. Len(a) : b[i] = a[k]

LEMMA ArrangedSame ==
    ASSUME NEW S, NEW seq \in Seq(S), NEW m \in Nat,
           NEW keys \in [DOMAIN seq -> [1 .. m -> Int]]
    PROVE  Arranged(seq, keys) \in Seq(S) /\ SameElements(seq, Arranged(seq, keys))
<1> DEFINE b == Arranged(seq, keys)
<1>1. PICK at :
        /\ Picks(Len(seq), DOMAIN seq, at)
        /\ \A k, l \in 1 .. Len(seq) : k < l =>
              keys[at[k]] = keys[at[l]] \/ KeyBefore(keys[at[k]], keys[at[l]])
        /\ b = [k \in 1 .. Len(seq) |-> seq[at[k]]]
        /\ b \in Seq(S)
        /\ Len(b) = Len(seq)
    BY ArrangedElements
<1> HIDE DEF b
<1>2. DOMAIN seq = 1 .. Len(seq)
    OBVIOUS
<1>3. \A i \in 1 .. Len(seq) : \E k \in 1 .. Len(b) : seq[i] = b[k]
    BY <1>1, <1>2 DEF Picks
<1>4. \A i \in 1 .. Len(b) : \E k \in 1 .. Len(seq) : b[i] = seq[k]
    BY <1>1, <1>2 DEF Picks
<1>5. QED
    BY <1>1, <1>3, <1>4 DEF SameElements, b

LEMMA SameCovered ==
    ASSUME NEW S, NEW a \in Seq(S), NEW b \in Seq(S), SameElements(a, b)
    PROVE  Covered(a) = Covered(b) /\ ToSet(a) = ToSet(b)
<1>1. DOMAIN a = 1 .. Len(a) /\ DOMAIN b = 1 .. Len(b)
    OBVIOUS
<1>2. ToSet(a) = ToSet(b)
  <2>1. ToSet(a) = {a[i] : i \in 1 .. Len(a)} /\ ToSet(b) = {b[i] : i \in 1 .. Len(b)}
    BY <1>1 DEF ToSet
  <2>2. \A i \in 1 .. Len(a) : \E k \in 1 .. Len(b) : a[i] = b[k]
    BY DEF SameElements
  <2>3. \A i \in 1 .. Len(b) : \E k \in 1 .. Len(a) : b[i] = a[k]
    BY DEF SameElements
  <2>4. ToSet(a) \subseteq ToSet(b)
    BY <2>1, <2>2
  <2>5. ToSet(b) \subseteq ToSet(a)
    BY <2>1, <2>3
  <2> QED BY <2>4, <2>5
<1>3. QED
    BY <1>2 DEF Covered

LEMMA JoinedCovered ==
    ASSUME NEW S, NEW a \in Seq(S), NEW b \in Seq(S)
    PROVE  Covered(a \o b) = Covered(a) \cup Covered(b) /\ ToSet(a \o b) = ToSet(a) \cup ToSet(b)
<1> DEFINE c == a \o b
<1>1. /\ DOMAIN a = 1 .. Len(a) /\ DOMAIN b = 1 .. Len(b) /\ DOMAIN c = 1 .. Len(a) + Len(b)
      /\ Len(a) \in Nat /\ Len(b) \in Nat
      /\ \A i \in 1 .. Len(a) : c[i] = a[i]
      /\ \A i \in 1 .. Len(b) : c[Len(a) + i] = b[i]
    OBVIOUS
<1>2. \A i \in 1 .. Len(a) + Len(b) :
         i \in 1 .. Len(a) \/ \E k \in 1 .. Len(b) : i = Len(a) + k
  <2> SUFFICES ASSUME NEW i \in 1 .. Len(a) + Len(b), i \notin 1 .. Len(a)
               PROVE  \E k \in 1 .. Len(b) : i = Len(a) + k
    OBVIOUS
  <2>1. i - Len(a) \in 1 .. Len(b) /\ i = Len(a) + (i - Len(a))
    BY <1>1
  <2> QED BY <2>1
<1>3. ToSet(c) \subseteq ToSet(a) \cup ToSet(b)
    BY <1>1, <1>2, SMTT(60) DEF ToSet
<1>4. \A i \in 1 .. Len(b) : Len(a) + i \in 1 .. Len(a) + Len(b)
    BY <1>1
<1>5. \A i \in 1 .. Len(a) : i \in 1 .. Len(a) + Len(b)
    BY <1>1
<1> HIDE DEF c
<1>6. ToSet(a) \subseteq ToSet(c)
    BY <1>1, <1>5 DEF ToSet
<1>7. ToSet(b) \subseteq ToSet(c)
    BY <1>1, <1>4 DEF ToSet
<1>8. ToSet(c) = ToSet(a) \cup ToSet(b)
    BY <1>3, <1>6, <1>7
<1>9. QED
    BY <1>8 DEF Covered, c

(* Writes whose offsets are natural, in the order of their offsets.         *)
LEMMA OrderedSame ==
    ASSUME NEW S, \A w \in S : w.offset \in Nat, NEW seq \in Seq(S)
    PROVE  /\ OrderedWrites(seq) \in Seq(S) /\ SameElements(seq, OrderedWrites(seq))
           /\ SortedOn(seq, WriteKey) \in Seq(S) /\ SameElements(seq, SortedOn(seq, WriteKey))
<1> DEFINE keys == [i \in DOMAIN seq |-> <<seq[i].offset>>]
<1>1. OrderedWrites(seq) = Arranged(seq, keys)
    BY DEF OrderedWrites, SortedBy, SortedOn, Extents, ByteRange
<1>2. SortedOn(seq, WriteKey) = Arranged(seq, keys)
    BY DEF SortedOn, WriteKey
<1>3. \A i \in DOMAIN seq : <<seq[i].offset>> \in [1 .. 1 -> Int]
    OBVIOUS
<1>4. keys \in [DOMAIN seq -> [1 .. 1 -> Int]]
    BY <1>3
<1> HIDE DEF keys
<1>5. QED
    BY <1>1, <1>2, <1>4, ArrangedSame

(* RangesOf: every range of a group is there again.                         *)
LEMMA RangesSame ==
    ASSUME NEW ranges \in Seq(RangeSet)
    PROVE  /\ SortedOn(ranges, RangeKey) \in Seq(RangeSet)
           /\ SameElements(ranges, SortedOn(ranges, RangeKey))
<1> DEFINE keys == [i \in DOMAIN ranges |-> <<ranges[i].offset, ranges[i].length>>]
<1>1. SortedOn(ranges, RangeKey) = Arranged(ranges, keys)
    BY DEF SortedOn, RangeKey
<1>2. \A r \in RangeSet : <<r.offset, r.length>> \in [1 .. 2 -> Int]
    BY DEF RangeSet
<1>3. \A i \in DOMAIN ranges : ranges[i] \in RangeSet
    OBVIOUS
<1>4. keys \in [DOMAIN ranges -> [1 .. 2 -> Int]]
    BY <1>2, <1>3
<1> HIDE DEF keys
<1>5. QED
    BY <1>1, <1>4, ArrangedSame

LEMMA SeqMonotone ==
    ASSUME NEW S, NEW T, S \subseteq T, NEW seq \in Seq(S)
    PROVE  seq \in Seq(T)
<1>1. Len(seq) \in Nat /\ seq \in [1 .. Len(seq) -> S]
    OBVIOUS
<1>2. seq \in [1 .. Len(seq) -> T]
    BY <1>1
<1>3. QED
    BY <1>1, <1>2

LEMMA ElementsIn ==
    ASSUME NEW S, NEW seq \in Seq(S)
    PROVE  ToSet(seq) \subseteq S
BY DEF ToSet

-----------------------------------------------------------------------------
LEMMA RoundedDown ==
    ASSUME NEW x \in Nat, NEW c \in Nat \ {0}
    PROVE  AlignDown(x, c) \in Nat /\ AlignDown(x, c) <= x /\ x < AlignDown(x, c) + c
<1> DEFINE q == x \div c
<1>1. AlignDown(x, c) = q * c
    BY DEF AlignDown
<1>2. q \in Nat /\ x = c * q + (x % c) /\ x % c \in 0 .. c - 1
    OBVIOUS
<1> HIDE DEF q
<1>3. q * c = c * q /\ q * c \in Nat
    BY <1>2
<1> DEFINE y == q * c
           r == x % c
<1>4. y \in Nat /\ r \in 0 .. c - 1 /\ x = y + r
    BY <1>2, <1>3
<1> HIDE DEF y, r
<1>5. y <= x /\ x < y + c
    BY <1>4
<1>6. QED
    BY <1>1, <1>4, <1>5 DEF y

(* A range read in chunks of any size.                                      *)
LEMMA ChunkedRead ==
    ASSUME NEW o, NEW offset \in Nat, NEW n \in Nat, NEW chunk \in Nat \ {0}
    PROVE  InChunks(LAMBDA a, k : ReadBase(o, a, k), offset, n, chunk) = ReadBase(o, offset, n)
<1> DEFINE Start(i) == AlignDown(i - 1, chunk)
           Size(i) == Min({chunk, n - Start(i)})
           Part(i) == ReadBase(o, offset + Start(i), Size(i))
<1>1. InChunks(LAMBDA a, k : ReadBase(o, a, k), offset, n, chunk)
         = [i \in 1 .. n |-> Part(i)[i - Start(i)]]
    BY DEF InChunks
<1>2. ASSUME NEW i \in 1 .. n PROVE Part(i)[i - Start(i)] = o[offset + i - 1]
  <2> DEFINE start == Start(i)
             j == i - start
             size == Size(i)
             part == Part(i)
  <2>1. start \in Nat /\ start <= i - 1 /\ i - 1 < start + chunk
    <3>1. i - 1 \in Nat
        OBVIOUS
    <3> QED BY <3>1, RoundedDown
  <2>2. size = Min({chunk, n - start}) /\ part = ReadBase(o, offset + start, size)
    OBVIOUS
  <2> HIDE DEF Start, Size, Part, start
  <2>3. Min({chunk, n - start}) = IF chunk <= n - start THEN chunk ELSE n - start
    BY <2>1, MinOfTwo
  <2>4. size \in Nat /\ j \in 1 .. size
    BY <2>1, <2>2, <2>3
  <2>5. part[j] = o[offset + start + j - 1]
    BY <2>2, <2>4, ReadLength
  <2>6. offset + start + j - 1 = offset + i - 1
    BY <2>1
  <2> QED BY <2>5, <2>6 DEF start, part
<1> HIDE DEF Part, Start
<1>3. QED
    BY <1>1, <1>2 DEF ReadBase

(* capture_before_images_with_reader, a byte at a time.                     *)
(* Writes of which only the place is looked at.                             *)
IsWrite(w) == w.offset \in Nat /\ Len(w.bytes) \in Nat

LEMMA BeforeImagesCaptured ==
    ASSUME NEW o, NEW S, \A w \in S : IsWrite(w), NEW writes \in Seq(S)
    PROVE  BeforeImages(o, writes, 1) \in Seq(Captured(o))
<1> DEFINE ordered == OrderedWrites(writes)
           before == BeforeImages(o, writes, 1)
           n == Len(ordered)
<1>1. ordered \in Seq(S)
    BY OrderedSame DEF IsWrite
<1>2. before = [i \in DOMAIN ordered |->
                  [offset |-> ordered[i].offset,
                   bytes |-> InChunks(LAMBDA a, k : ReadBase(o, a, k),
                                      ordered[i].offset, Len(ordered[i].bytes), 1)]]
    BY DEF BeforeImages
<1> HIDE DEF ordered, before
<1>3. n \in Nat /\ DOMAIN ordered = 1 .. n /\ \A i \in 1 .. n : ordered[i] \in S
    BY <1>1
<1>4. ASSUME NEW i \in 1 .. n PROVE before[i] \in Captured(o)
  <2> DEFINE a == ordered[i].offset
             k == Len(ordered[i].bytes)
             shown == InChunks(LAMBDA x, y : ReadBase(o, x, y), a, k, 1)
  <2>1. a \in Nat /\ k \in Nat
    BY <1>3 DEF IsWrite
  <2>2. before[i] = [offset |-> a, bytes |-> shown]
    BY <1>2, <1>3
  <2> HIDE DEF a, k
  <2>3. shown = ReadBase(o, a, k)
    <3>1. 1 \in Nat \ {0}
        OBVIOUS
    <3> QED BY <2>1, <3>1, ChunkedRead
  <2>4. before[i] = Shown(o, a, k)
    BY <2>2, <2>3 DEF Shown
  <2> DEFINE p == <<a, k>>
  <2>5. p \in Nat \X Nat /\ p[1] = a /\ p[2] = k
    BY <2>1
  <2> HIDE DEF p
  <2> QED BY <2>4, <2>5 DEF Captured
<1>5. DOMAIN before = 1 .. n /\ before = [i \in 1 .. n |-> before[i]]
    BY <1>2, <1>3
<1>6. before \in [1 .. n -> Captured(o)]
    BY <1>4, <1>5
<1>7. before \in Seq(Captured(o))
    BY <1>3, <1>6
<1>8. QED
    BY <1>7 DEF before

-----------------------------------------------------------------------------
(* The layout of a draft, and what the solver is given for it.              *)
DraftInput(d) ==
    [volume |-> d.preflight.image.bytes, sourceAlign |-> d.preflight.alignment,
     align |-> d.preflight.alignment, ioAlign |-> d.preflight.sector,
     domain |-> ByteRange(0, d.preflight.image.bytes), alignedDomain |-> FALSE,
     source |-> LiveAllocations(d.graph, d.allocations),
     reservations |-> d.reservations,
     exclusions |-> StagingExclusions(d.graph, d.allocations),
     requests |-> <<>>]

LEMMA DraftInputTyped ==
    ASSUME NEW j \in Jobs, j.preflight.alignment # 0
    PROVE  InputTyped(DraftInput(j))
<1> DEFINE in == DraftInput(j)
           seq == j.allocations
           live == {i \in DOMAIN seq : ExtentsOf(j.graph, seq[i]) # {}}
           dead == {i \in DOMAIN seq : ExtentsOf(j.graph, seq[i]) = {}}
           rest == Kept(seq, dead)
<1>1. /\ seq \in Seq(AllocationSet)
      /\ j.reservations \in Seq([range : RangeSet, kind : ReservationKinds])
      /\ j.preflight.image.bytes \in Nat /\ j.preflight.alignment \in Nat
    BY PhaseAssumption
<1>2. /\ in.volume = j.preflight.image.bytes /\ in.align = j.preflight.alignment
      /\ in.domain = ByteRange(0, j.preflight.image.bytes)
      /\ in.requests = <<>> /\ in.reservations = j.reservations
      /\ in.source = Kept(seq, live)
      /\ in.exclusions = [i \in DOMAIN rest |-> rest[i].range]
    BY DEF DraftInput, LiveAllocations, StagingExclusions, Selected
<1>3. live \in SUBSET DOMAIN seq /\ dead \in SUBSET DOMAIN seq
    OBVIOUS
<1> HIDE DEF in, seq, live, dead
<1>4. in.source \in Seq(AllocationSet) /\ rest \in Seq(AllocationSet)
    BY <1>1, <1>2, <1>3, KeptElements
<1> HIDE DEF rest
<1>5. \A a \in AllocationSet : a.range \in RangeSet
    BY DEF AllocationSet
<1>6. DOMAIN rest = 1 .. Len(rest) /\ Len(rest) \in Nat
      /\ \A i \in DOMAIN rest : rest[i].range \in RangeSet
    BY <1>4, <1>5
<1>7. in.exclusions \in [1 .. Len(rest) -> RangeSet]
    BY <1>2, <1>6
<1>8. in.exclusions \in Seq(RangeSet)
    BY <1>6, <1>7
<1>9. in.domain \in RangeSet
    BY <1>1, <1>2 DEF ByteRange, RangeSet
<1>10. [range : RangeSet, kind : ReservationKinds] \subseteq ReservationSet
    BY DEF ReservationSet
<1>11. in.reservations \in Seq(ReservationSet)
  <2> DEFINE r == j.reservations
  <2>1. r \in Seq([range : RangeSet, kind : ReservationKinds])
    BY <1>1
  <2>2. r \in Seq(ReservationSet)
    BY <1>10, <2>1, SeqMonotone
  <2> QED BY <1>2, <2>2
<1>12. in.requests \in Seq(RequestSet)
    BY <1>2
<1>13. QED
    BY <1>1, <1>2, <1>4, <1>8, <1>9, <1>11, <1>12 DEF InputTyped, in

LEMMA RelocationsTyped ==
    ASSUME NEW j \in Jobs, j.preflight.alignment # 0, Solved(j).error = "none"
    PROVE  Solved(j).relocations \in Seq(MoveSet)
<1> DEFINE in == DraftInput(j)
           solved == SolveLayout(in)
<1>1. Solved(j) = solved
    BY DEF Solved, DraftLayout, DraftInput
<1>2. InputTyped(in)
    BY DraftInputTyped
<1>3. solved.error = "none"
    BY <1>1
<1>4. Placement(solved.relocations, solved.materializations, solved.free,
                Occupied(in), in.align, in.domain)
    BY <1>2, <1>3, SolverPlacesApart
<1> HIDE DEF solved
<1>5. solved.relocations \in Seq(MoveSet)
    BY <1>4 DEF Placement
<1>6. QED
    BY <1>1, <1>5

(* The before-images of a draft are of the original.                        *)
MovedWrites(o, relocations) ==
    [i \in DOMAIN relocations |->
        [offset |-> relocations[i].destination[1].offset,
         bytes |-> ReadBase(o, relocations[i].source.offset, relocations[i].source.length)]]

LEMMA MovedCaptured ==
    ASSUME NEW o, NEW relocations \in Seq(MoveSet)
    PROVE  BeforeImages(o, MovedWrites(o, relocations), 1) \in Seq(Captured(o))
<1> DEFINE moved == MovedWrites(o, relocations)
           n == Len(relocations)
           S == {moved[i] : i \in 1 .. n}
<1>1. n \in Nat /\ DOMAIN relocations = 1 .. n /\ \A i \in 1 .. n : relocations[i] \in MoveSet
    OBVIOUS
<1>2. \A r \in MoveSet : /\ r.source \in RangeSet /\ r.destination \in [1 .. 1 -> RangeSet]
    BY DEF MoveSet
<1>3. \A r \in MoveSet : r.source.length \in Nat /\ r.destination[1].offset \in Nat
    BY <1>2 DEF RangeSet
<1>4. moved = [i \in 1 .. n |-> moved[i]]
    BY <1>1 DEF MovedWrites
<1>5. ASSUME NEW i \in 1 .. n PROVE IsWrite(moved[i])
  <2> DEFINE r == relocations[i]
  <2>1. moved[i] = [offset |-> r.destination[1].offset,
                    bytes |-> ReadBase(o, r.source.offset, r.source.length)]
    BY <1>1 DEF MovedWrites
  <2>2. r.source.length \in Nat /\ r.destination[1].offset \in Nat
    BY <1>1, <1>3
  <2>3. Len(ReadBase(o, r.source.offset, r.source.length)) \in Nat
    BY <2>2, ReadLength
  <2> QED BY <2>1, <2>2, <2>3 DEF IsWrite
<1> HIDE DEF moved
<1>6. moved \in [1 .. n -> S]
    BY <1>4
<1>7. \A w \in S : IsWrite(w)
    BY <1>5
<1> HIDE DEF S
<1>8. moved \in Seq(S)
    BY <1>1, <1>6
<1>9. QED
    BY <1>7, <1>8, BeforeImagesCaptured DEF moved

LEMMA DraftBefore ==
    ASSUME NEW j \in Jobs, j.preflight.alignment # 0, Solved(j).error = "none", NEW sets
    PROVE  DraftOf(j, sets, Solved(j)).before \in Seq(Captured(original))
<1>1. DraftOf(j, sets, Solved(j)).before
         = BeforeImages(original, MovedWrites(original, Solved(j).relocations), 1)
    BY DEF DraftOf, MovedWrites
<1>2. Solved(j).relocations \in Seq(MoveSet)
    BY RelocationsTyped
<1>3. QED
    BY <1>1, <1>2, MovedCaptured

-----------------------------------------------------------------------------
(* The write sets of a job that is authorized, as they are and sorted.      *)
KindedSet == [kind : ReservationKinds, write : WriteSet]

WritesTyped(w, o) ==
    /\ w.staging \in Seq(KindedSet) /\ w.backup \in Seq(KindedSet)
    /\ w.activation \in Seq(KindedSet)
    /\ w.stagingBack \in Seq(Captured(o)) /\ w.backupBack \in Seq(Captured(o))
    /\ w.activationBack \in Seq(Captured(o))

LEMMA WriteSetFacts ==
    \A w \in WriteSet : IsWrite(w)
<1>1. \A w \in WriteSet : w.offset \in Nat /\ w.bytes \in Seq(Nat)
    BY DEF WriteSet
<1>2. QED
    BY <1>1 DEF IsWrite

LEMMA KindedTyped ==
    ASSUME NEW write \in WriteSet,
           NEW reservations \in Seq([range : RangeSet, kind : ReservationKinds]),
           Cardinality(Containing(write, reservations)) = 1
    PROVE  Kinded(write, reservations) \in KindedSet
<1> DEFINE all == Containing(write, reservations)
           r == CHOOSE x \in all : TRUE
<1>1. all # {}
  <2>1. Cardinality({}) = 0
    BY FS_EmptySet
  <2>2. Cardinality(all) = 1
    OBVIOUS
  <2> HIDE DEF all
  <2> QED BY <2>1, <2>2, SMTT(60)
<1>2. all \subseteq ToSet(reservations)
    BY DEF Containing
<1>3. ToSet(reservations) \subseteq [range : RangeSet, kind : ReservationKinds]
    BY ElementsIn
<1>4. Kinded(write, reservations) = [kind |-> r.kind, write |-> write]
    BY DEF Kinded
<1> HIDE DEF all
<1>5. r \in all
    BY <1>1
<1>6. r \in [range : RangeSet, kind : ReservationKinds]
    BY <1>2, <1>3, <1>5
<1> HIDE DEF r
<1>7. QED
    BY <1>4, <1>6 DEF KindedSet

LEMMA SetsTyped ==
    ASSUME NEW j \in Jobs, Authorized(j)
    PROVE  WritesTyped(PhaseSets(j), original)
<1> DEFINE w == PhaseSets(j)
           n == Len(j.staging)
<1>1. /\ j.staging \in Seq(WriteSet) /\ j.backup \in WriteSet /\ j.activation \in WriteSet
      /\ j.reservations \in Seq([range : RangeSet, kind : ReservationKinds])
    BY PhaseAssumption
<1>2. /\ \A x \in ToSet(j.staging) : Cardinality(Containing(x, j.reservations)) = 1
      /\ Cardinality(Containing(j.backup, j.reservations)) = 1
      /\ Cardinality(Containing(j.activation, j.reservations)) = 1
    BY DEF Authorized, PhaseWritesAccepted, StagingReserved, BootReserved
<1>3. /\ w.staging = [i \in DOMAIN j.staging |-> Kinded(j.staging[i], j.reservations)]
      /\ w.backup = <<Kinded(j.backup, j.reservations)>>
      /\ w.activation = <<Kinded(j.activation, j.reservations)>>
      /\ w.stagingBack = BeforeImages(original, j.staging, 1)
      /\ w.backupBack = BeforeImages(original, <<j.backup>>, 1)
      /\ w.activationBack = BeforeImages(original, <<j.activation>>, 1)
    BY DEF PhaseSets, KindedAll
<1> HIDE DEF w
<1>4. n \in Nat /\ DOMAIN j.staging = 1 .. n
    BY <1>1
<1>5. \A i \in 1 .. n : j.staging[i] \in WriteSet /\ j.staging[i] \in ToSet(j.staging)
    BY <1>1, <1>4 DEF ToSet
<1>6. \A i \in 1 .. n : Kinded(j.staging[i], j.reservations) \in KindedSet
    BY <1>1, <1>2, <1>5, KindedTyped
<1>7. w.staging \in [1 .. n -> KindedSet]
    BY <1>3, <1>4, <1>6
<1>8. w.staging \in Seq(KindedSet)
    BY <1>4, <1>7
<1>9. /\ Kinded(j.backup, j.reservations) \in KindedSet
      /\ Kinded(j.activation, j.reservations) \in KindedSet
    BY <1>1, <1>2, KindedTyped
<1>10. w.backup \in Seq(KindedSet) /\ w.activation \in Seq(KindedSet)
    BY <1>3, <1>9
<1>11. <<j.backup>> \in Seq(WriteSet) /\ <<j.activation>> \in Seq(WriteSet)
    BY <1>1
<1>12. /\ w.stagingBack \in Seq(Captured(original)) /\ w.backupBack \in Seq(Captured(original))
       /\ w.activationBack \in Seq(Captured(original))
    BY <1>1, <1>3, <1>11, WriteSetFacts, BeforeImagesCaptured
<1>13. QED
    BY <1>8, <1>10, <1>12 DEF WritesTyped, w

LEMMA KindsKeyed ==
    ASSUME NEW kind \in ReservationKinds
    PROVE  KeyIn(Kinds, kind) \in Int
<1> DEFINE i == CHOOSE x \in DOMAIN Kinds : Kinds[x] = kind
<1>1. DOMAIN Kinds = 1 .. 6
    BY DEF Kinds
<1>2. \E x \in 1 .. 6 : Kinds[x] = kind
    BY DEF Kinds, ReservationKinds
<1>3. i \in 1 .. 6
    BY <1>1, <1>2
<1> HIDE DEF i
<1>4. i - 1 \in Int
    BY <1>3
<1>5. QED
    BY <1>4 DEF KeyIn, i

LEMMA ReservedSorted ==
    ASSUME NEW values \in Seq(KindedSet)
    PROVE  /\ SortedOn(values, ReservedWriteKey) \in Seq(KindedSet)
           /\ SameElements(values, SortedOn(values, ReservedWriteKey))
<1> DEFINE keys == [i \in DOMAIN values |-> ReservedWriteKey(values[i])]
<1>1. SortedOn(values, ReservedWriteKey) = Arranged(values, keys)
    BY DEF SortedOn
<1>2. \A v \in KindedSet : v.kind \in ReservationKinds /\ v.write \in WriteSet
    BY DEF KindedSet
<1>3. \A v \in KindedSet : /\ v.write.offset \in Int /\ Len(v.write.bytes) \in Int
                           /\ KeyIn(Kinds, v.kind) \in Int
    BY <1>2, KindsKeyed, WriteSetFacts DEF IsWrite
<1>4. \A v \in KindedSet : ReservedWriteKey(v) \in [1 .. 3 -> Int]
  <2> SUFFICES ASSUME NEW v \in KindedSet PROVE ReservedWriteKey(v) \in [1 .. 3 -> Int]
    OBVIOUS
  <2> DEFINE a == v.write.offset
             b == Len(v.write.bytes)
             c == KeyIn(Kinds, v.kind)
  <2>1. a \in Int /\ b \in Int /\ c \in Int
    BY <1>3
  <2>2. ReservedWriteKey(v) = <<a, b, c>>
    BY DEF ReservedWriteKey
  <2> HIDE DEF a, b, c
  <2>3. <<a, b, c>> \in [1 .. 3 -> Int]
    BY <2>1
  <2> QED BY <2>2, <2>3
<1>5. keys \in [DOMAIN values -> [1 .. 3 -> Int]]
    BY <1>4
<1> HIDE DEF keys
<1>6. QED
    BY <1>1, <1>5, ArrangedSame

LEMMA SortedTyped ==
    ASSUME NEW w, NEW o, WritesTyped(w, o)
    PROVE  WritesTyped(SortedWrites(w), o)
<1> DEFINE s == SortedWrites(w)
<1>1. \A c \in Captured(o) : c.offset \in Nat
    BY CapturedFacts
<1>2. /\ s.staging = SortedOn(w.staging, ReservedWriteKey)
      /\ s.backup = SortedOn(w.backup, ReservedWriteKey)
      /\ s.activation = SortedOn(w.activation, ReservedWriteKey)
      /\ s.stagingBack = SortedOn(w.stagingBack, WriteKey)
      /\ s.backupBack = SortedOn(w.backupBack, WriteKey)
      /\ s.activationBack = SortedOn(w.activationBack, WriteKey)
    BY DEF SortedWrites
<1> HIDE DEF s
<1>3. /\ s.staging \in Seq(KindedSet) /\ s.backup \in Seq(KindedSet)
      /\ s.activation \in Seq(KindedSet)
    BY <1>2, ReservedSorted DEF WritesTyped
<1>4. /\ s.stagingBack \in Seq(Captured(o)) /\ s.backupBack \in Seq(Captured(o))
      /\ s.activationBack \in Seq(Captured(o))
    BY <1>1, <1>2, OrderedSame DEF WritesTyped
<1>5. QED
    BY <1>3, <1>4 DEF WritesTyped, s

-----------------------------------------------------------------------------
(* A plan that build has accepted.                                          *)
SoundPlan(p, o) ==
    /\ p = Reconstructed(p.state)
    /\ EncodeState(p.state).error = "none"
    /\ p.state.before \in Seq(Captured(o)) /\ WritesTyped(p.state.writes, o)
    /\ p.state.layout.relocations \in Seq(MoveSet)
    /\ OverlaysAccepted(p.state.before, p.state.writes)

LEMMA EncodedIsValid ==
    ASSUME NEW s, EncodeState(s).error = "none"
    PROVE  /\ ValidState(s)
           /\ \E body : EncodeState(s).envelope = Sealed(HeaderOf(s, body), body)
<1>1. CASE ~ValidState(s)
  <2>1. EncodeState(s) = [error |-> "invalid", envelope |-> <<>>]
    BY <1>1, Zenon DEF EncodeState
  <2> QED BY <2>1
<1>2. CASE ValidState(s)
  <2> DEFINE body == Framed(EncodeSections(s))
             fits == /\ HeaderWords + Len(body) <= EnvelopeLimits.words
                     /\ FirstGenerationFits(HeaderWords + Len(body), s.limits)
             good == [error |-> "none", envelope |-> Sealed(HeaderOf(s, body), body)]
             bad == [error |-> "limit", envelope |-> <<>>]
  <2>1. EncodeState(s) = IF fits THEN good ELSE bad
    BY <1>2, Zenon DEF EncodeState
  <2>2. bad.error # "none" /\ good.envelope = Sealed(HeaderOf(s, body), body)
    OBVIOUS
  <2> HIDE DEF good, bad, fits, body
  <2>3. EncodeState(s) = good
    BY <2>1, <2>2
  <2> QED BY <1>2, <2>2, <2>3
<1>3. QED
    BY <1>1, <1>2

(* What a plan that was built consists of.                                  *)
LEMMA BuiltPlan ==
    ASSUME NEW d, Build(d).error = "none"
    PROVE  LET p == Build(d).plan IN
           /\ ValidDraft(d) /\ DraftLayout(d).error = "none"
           /\ p = Reconstructed(p.state) /\ EncodeState(p.state).error = "none"
           /\ p.state.writes = SortedWrites(d.writes)
           /\ p.state.before = SortedOn(d.before, WriteKey)
           /\ p.state.layout.relocations = DraftLayout(d).relocations
           /\ OverlaysAccepted(p.state.before, p.state.writes)
<1> DEFINE solved == DraftLayout(d)
           writes == SortedWrites(d.writes)
           before == SortedOn(d.before, WriteKey)
           u == Undigested(d, solved, writes, before)
           s == WithRecovery(Digested(u))
           answer == BuildFrom(d, solved, writes, before)
<1>1. \A e : e # "none" => Refused(e).error # "none"
    BY DEF Refused
<1>2. Build(d) = answer /\ ValidDraft(d)
  <2>1. Build(d) = IF ValidDraft(d) THEN answer ELSE Refused("draft")
    BY DEF Build
  <2> HIDE DEF answer
  <2> QED BY <1>1, <2>1
<1>4. /\ u.before = before /\ u.writes = writes /\ u.layout.relocations = solved.relocations
      /\ {"before", "writes", "layout", "planDigest", "recovery"} \subseteq DOMAIN u
    BY DEF Undigested
<1> HIDE DEF u
<1>5. s.before = u.before /\ s.writes = u.writes /\ s.layout = u.layout
    BY <1>4 DEF WithRecovery, Digested
<1> HIDE DEF s, solved, writes, before
<1>6. answer.error = "none"
    BY <1>2
<1>7. /\ solved.error = "none" /\ answer = Stored(Reconstructed(s), EncodeState(s))
      /\ OverlaysAccepted(before, writes)
  <2> DEFINE good == IF ValidBundle(BundleOf(s), d.limits.writes, d.limits.bytes)
                     THEN Stored(Reconstructed(s), EncodeState(s)) ELSE Refused("bundle")
  <2>1. answer = CASE solved.error # "none" -> Refused("layout")
                   [] ~Seals(d.projected, solved) -> Refused("unsealed")
                   [] RelocatedGraph(d.projected, solved) # d.target -> Refused("target")
                   [] ~BeforeImagesExact(solved, before) -> Refused("before")
                   [] ~WithinWriteCaps(writes, before, d.limits) -> Refused("limit")
                   [] ~OverlaysAccepted(before, writes) -> Refused("overlay")
                   [] OTHER -> good
    BY DEF BuildFrom, s, u
  <2> HIDE DEF good, answer
  <2>2. /\ Refused("layout").error # "none" /\ Refused("unsealed").error # "none"
        /\ Refused("target").error # "none" /\ Refused("before").error # "none"
        /\ Refused("limit").error # "none" /\ Refused("overlay").error # "none"
        /\ Refused("bundle").error # "none"
    BY <1>1
  <2>3. answer = good /\ solved.error = "none" /\ OverlaysAccepted(before, writes)
    BY <1>6, <2>1, <2>2
  <2>4. good = Stored(Reconstructed(s), EncodeState(s))
    BY <1>6, <2>2, <2>3 DEF good
  <2> QED BY <2>3, <2>4
<1>8. EncodeState(s).error = "none"
  <2>1. answer = IF EncodeState(s).error = "none"
                 THEN [error |-> "none", plan |-> Reconstructed(s)]
                 ELSE Refused(EncodeState(s).error)
    BY <1>7 DEF Stored
  <2> HIDE DEF answer
  <2> QED BY <1>1, <1>6, <2>1
<1>9. answer.plan = Reconstructed(s)
    BY <1>7, <1>8 DEF Stored
<1>10. Reconstructed(s).state = s
    BY DEF Reconstructed
<1>11. QED
    BY <1>2, <1>4, <1>5, <1>7, <1>8, <1>9, <1>10 DEF solved, writes, before

LEMMA BuiltIsSound ==
    ASSUME NEW d, NEW o, Build(d).error = "none", WritesTyped(d.writes, o),
           d.before \in Seq(Captured(o)), DraftLayout(d).relocations \in Seq(MoveSet)
    PROVE  SoundPlan(Build(d).plan, o)
<1> DEFINE p == Build(d).plan
<1>1. \A c \in Captured(o) : c.offset \in Nat
    BY CapturedFacts
<1>2. SortedOn(d.before, WriteKey) \in Seq(Captured(o))
    BY <1>1, OrderedSame
<1>3. WritesTyped(SortedWrites(d.writes), o)
    BY SortedTyped
<1>4. QED
    BY <1>2, <1>3, BuiltPlan DEF SoundPlan

-----------------------------------------------------------------------------
(* Where a group writes, and where its before-images are.                   *)
LEMMA PlainTyped ==
    ASSUME NEW values \in Seq(KindedSet)
    PROVE  Plain(values) \in Seq(WriteSet)
<1> DEFINE plain == Plain(values)
           n == Len(values)
<1>1. n \in Nat /\ DOMAIN values = 1 .. n /\ \A i \in 1 .. n : values[i] \in KindedSet
    OBVIOUS
<1>2. \A v \in KindedSet : v.write \in WriteSet
    BY DEF KindedSet
<1>3. plain = [i \in 1 .. n |-> values[i].write]
    BY <1>1 DEF Plain
<1> HIDE DEF plain
<1>4. plain \in [1 .. n -> WriteSet]
    BY <1>1, <1>2, <1>3
<1>5. plain \in Seq(WriteSet)
    BY <1>1, <1>4
<1>6. QED
    BY <1>5 DEF plain

LEMMA WriteCells ==
    ASSUME NEW w, IsWrite(w)
    PROVE  /\ Extents(w) \in RangeSet
           /\ Cells(Extents(w)) = w.offset .. w.offset + Len(w.bytes) - 1
<1>1. Extents(w) = [offset |-> w.offset, length |-> Len(w.bytes)]
    BY DEF Extents, ByteRange
<1>2. w.offset \in Nat /\ Len(w.bytes) \in Nat
    BY DEF IsWrite
<1>3. QED
    BY <1>1, <1>2 DEF RangeSet, Cells, End

LEMMA GroupUnits ==
    ASSUME NEW writes \in Seq(WriteSet), NEW g \in Units(writes)
    PROVE  g[1] \in Covered(writes)
<1>1. PICK w \in ToSet(writes) : g \in {<<w.offset + i - 1, w.bytes[i]>> : i \in DOMAIN w.bytes}
    BY DEF Units
<1>2. PICK i \in DOMAIN w.bytes : g = <<w.offset + i - 1, w.bytes[i]>>
    BY <1>1
<1>3. w \in WriteSet
    BY <1>1, ElementsIn
<1>4. w.offset \in Nat /\ w.bytes \in Seq(Nat)
    BY <1>3 DEF WriteSet
<1>5. DOMAIN w.bytes = 1 .. Len(w.bytes) /\ Len(w.bytes) \in Nat
    BY <1>4
<1>6. g[1] = w.offset + i - 1
    BY <1>2
<1>7. Cells(Extents(w)) = w.offset .. w.offset + Len(w.bytes) - 1
    BY <1>3, WriteSetFacts, WriteCells
<1>8. g[1] \in Cells(Extents(w))
    BY <1>4, <1>5, <1>6, <1>7, SMTT(60)
<1>9. QED
    BY <1>1, <1>8 DEF Covered

PlacesOf(writes) == [i \in DOMAIN writes |-> Extents(writes[i])]

LEMMA PlacesTyped ==
    ASSUME NEW S, \A w \in S : IsWrite(w), NEW writes \in Seq(S)
    PROVE  /\ PlacesOf(writes) \in Seq(RangeSet)
           /\ Covered(writes) = UNION {Cells(r) : r \in ToSet(PlacesOf(writes))}
<1> DEFINE places == PlacesOf(writes)
           n == Len(writes)
<1>1. n \in Nat /\ DOMAIN writes = 1 .. n /\ \A i \in 1 .. n : writes[i] \in S
    OBVIOUS
<1>2. places = [i \in 1 .. n |-> Extents(writes[i])]
    BY <1>1 DEF PlacesOf
<1>3. \A i \in 1 .. n : Extents(writes[i]) \in RangeSet
    BY <1>1, WriteCells
<1>4. places \in [1 .. n -> RangeSet]
    BY <1>2, <1>3
<1>5. ToSet(places) = {Extents(w) : w \in ToSet(writes)}
    BY <1>1, <1>2 DEF ToSet
<1> HIDE DEF places
<1>6. places \in Seq(RangeSet)
    BY <1>1, <1>4
<1>7. Covered(writes) = UNION {Cells(r) : r \in ToSet(places)}
    BY <1>5 DEF Covered
<1>8. QED
    BY <1>6, <1>7 DEF places

(* validate_rollback_pairing: a group's before-images cover the group.      *)
LEMMA PairedCover ==
    ASSUME NEW S, \A w \in S : IsWrite(w), NEW a \in Seq(S),
           NEW T, \A w \in T : IsWrite(w), NEW b \in Seq(T),
           RangesOf(a) = RangesOf(b)
    PROVE  Covered(a) = Covered(b)
<1> DEFINE x == PlacesOf(a)
           y == PlacesOf(b)
<1>1. x \in Seq(RangeSet) /\ Covered(a) = UNION {Cells(r) : r \in ToSet(x)}
    BY PlacesTyped
<1>2. y \in Seq(RangeSet) /\ Covered(b) = UNION {Cells(r) : r \in ToSet(y)}
    BY PlacesTyped
<1>3. SortedOn(x, RangeKey) = SortedOn(y, RangeKey)
    BY DEF RangesOf, PlacesOf
<1> HIDE DEF x, y
<1>4. ToSet(x) = ToSet(SortedOn(x, RangeKey))
    BY <1>1, RangesSame, SameCovered
<1>5. ToSet(y) = ToSet(SortedOn(y, RangeKey))
    BY <1>2, RangesSame, SameCovered
<1>6. ToSet(x) = ToSet(y)
    BY <1>3, <1>4, <1>5
<1>7. QED
    BY <1>1, <1>2, <1>6

(* validate_relocation_before_image_ranges.                                 *)
LEMMA DestinationsCover ==
    ASSUME NEW layout, layout.relocations \in Seq(MoveSet), NEW o,
           NEW before \in Seq(Captured(o)), BeforeImagesExact(layout, before),
           NEW r \in ToSet(layout.relocations)
    PROVE  r \in MoveSet /\ Cells(r.destination[1]) \subseteq Covered(before)
<1> DEFINE R == layout.relocations
           n == Len(R)
           x == [i \in DOMAIN R |-> R[i].destination[1]]
           y == PlacesOf(before)
<1>1. R \in Seq(MoveSet)
    OBVIOUS
<1>2. SortedOn(x, RangeKey) = y
    BY DEF BeforeImagesExact, PlacesOf
<1>3. PICK i \in DOMAIN R : r = R[i]
    BY DEF ToSet
<1> HIDE DEF R
<1>4. n \in Nat /\ DOMAIN R = 1 .. n /\ \A k \in 1 .. n : R[k] \in MoveSet
    BY <1>1
<1>5. \A m \in MoveSet : m.destination[1] \in RangeSet
    BY DEF MoveSet
<1>6. x \in [1 .. n -> RangeSet]
    BY <1>4, <1>5
<1>7. x[i] = r.destination[1] /\ i \in DOMAIN x
    BY <1>3
<1> HIDE DEF x, y
<1>8. x \in Seq(RangeSet)
    BY <1>4, <1>6
<1>9. ToSet(x) = ToSet(y)
    BY <1>2, <1>8, RangesSame, SameCovered
<1>10. \A w \in Captured(o) : IsWrite(w)
    BY CapturedFacts DEF IsWrite
<1>11. Covered(before) = UNION {Cells(q) : q \in ToSet(y)}
    BY <1>10, PlacesTyped DEF y
<1>12. r.destination[1] \in ToSet(y)
    BY <1>7, <1>9 DEF ToSet
<1>13. QED
    BY <1>3, <1>4, <1>11, <1>12

-----------------------------------------------------------------------------
(* The masks of a plan: bytes of the original, more of them at every        *)
(* checkpoint.                                                              *)
PhaseNames == {"Discovered", "Reserved", "Relocating", "TargetStaged",
               "BackupBootWritten", "Activated"}

MasksTyped(p, o) ==
    /\ p.overlays.relocation \in Seq(Captured(o)) /\ p.overlays.staging \in Seq(Captured(o))
    /\ p.overlays.preactivation \in Seq(Captured(o)) /\ p.overlays.full \in Seq(Captured(o))

MasksCover(p) ==
    LET s == p.state IN
    /\ Covered(p.overlays.relocation) = Covered(s.before)
    /\ Covered(p.overlays.staging) = Covered(s.before) \cup Covered(s.writes.stagingBack)
    /\ Covered(p.overlays.preactivation)
          = Covered(p.overlays.staging) \cup Covered(s.writes.backupBack)
    /\ Covered(p.overlays.full)
          = Covered(p.overlays.preactivation) \cup Covered(s.writes.activationBack)

LEMMA OverlayFacts ==
    ASSUME NEW p, NEW o, SoundPlan(p, o)
    PROVE  MasksTyped(p, o) /\ MasksCover(p)
<1> DEFINE C == Captured(o)
           b == p.state.before
           w == p.state.writes
           x == b \o w.stagingBack
           y == x \o w.backupBack
           z == y \o w.activationBack
<1>1. p = [state |-> p.state, overlays |-> Overlays(b, w)]
    BY DEF SoundPlan, Reconstructed
<1>2. /\ p.overlays.relocation = OrderedWrites(b)
      /\ p.overlays.staging = OrderedWrites(x)
      /\ p.overlays.preactivation = OrderedWrites(y)
      /\ p.overlays.full = OrderedWrites(z)
  <2>1. p.overlays = Overlays(b, w)
    BY <1>1
  <2> QED BY <2>1 DEF Overlays, StagingRollback, PreactivationRollback, FullRollback
<1>3. b \in Seq(C) /\ w.stagingBack \in Seq(C) /\ w.backupBack \in Seq(C)
      /\ w.activationBack \in Seq(C)
    BY DEF SoundPlan, WritesTyped
<1>4. \A c \in C : c.offset \in Nat
    BY CapturedFacts
<1> HIDE DEF C, b
<1>5. x \in Seq(C) /\ Covered(x) = Covered(b) \cup Covered(w.stagingBack)
    BY <1>3, JoinedCovered
<1> HIDE DEF x
<1>6. y \in Seq(C) /\ Covered(y) = Covered(x) \cup Covered(w.backupBack)
    BY <1>3, <1>5, JoinedCovered
<1> HIDE DEF y
<1>7. z \in Seq(C) /\ Covered(z) = Covered(y) \cup Covered(w.activationBack)
    BY <1>3, <1>6, JoinedCovered
<1> HIDE DEF z
<1>8. ASSUME NEW q \in Seq(C)
      PROVE  OrderedWrites(q) \in Seq(C) /\ Covered(OrderedWrites(q)) = Covered(q)
    BY <1>4, OrderedSame, SameCovered
<1>9. /\ OrderedWrites(b) \in Seq(C) /\ OrderedWrites(x) \in Seq(C)
      /\ OrderedWrites(y) \in Seq(C) /\ OrderedWrites(z) \in Seq(C)
    BY <1>3, <1>5, <1>6, <1>7, <1>8
<1>10. /\ Covered(OrderedWrites(b)) = Covered(b) /\ Covered(OrderedWrites(x)) = Covered(x)
       /\ Covered(OrderedWrites(y)) = Covered(y) /\ Covered(OrderedWrites(z)) = Covered(z)
    BY <1>3, <1>5, <1>6, <1>7, <1>8
<1>11. MasksTyped(p, o)
    BY <1>2, <1>9 DEF MasksTyped, C
<1>12. MasksCover(p)
    BY <1>2, <1>5, <1>6, <1>7, <1>10 DEF MasksCover, b
<1>13. QED
    BY <1>11, <1>12

LEMMA MasksCaptured ==
    ASSUME NEW p, NEW o, SoundPlan(p, o), NEW ph \in PhaseNames
    PROVE  RollbackWrites(p, ph) \in Seq(Captured(o))
<1>1. MasksTyped(p, o)
    BY OverlayFacts
<1>2. <<>> \in Seq(Captured(o))
    OBVIOUS
<1>3. RollbackWrites(p, ph) \in {<<>>, p.overlays.relocation, p.overlays.staging,
                                 p.overlays.preactivation, p.overlays.full}
    BY DEF RollbackWrites, PhaseNames
<1>4. QED
    BY <1>1, <1>2, <1>3 DEF MasksTyped

LEMMA PhaseOrder ==
    /\ \A k \in 1 .. 6 : Phases[k] \in PhaseNames
    /\ \A ph \in PhaseNames : \E k \in 1 .. 6 : Phases[k] = ph
    /\ \A k \in 1 .. 6 : KeyIn(Phases, Phases[k]) = k - 1
<1>1. DOMAIN Phases = 1 .. 6
    BY DEF Phases
<1>2. /\ Phases[1] = "Discovered" /\ Phases[2] = "Reserved" /\ Phases[3] = "Relocating"
      /\ Phases[4] = "TargetStaged" /\ Phases[5] = "BackupBootWritten"
      /\ Phases[6] = "Activated"
    BY DEF Phases
<1>3. \A k \in 1 .. 6 : k = 1 \/ k = 2 \/ k = 3 \/ k = 4 \/ k = 5 \/ k = 6
    OBVIOUS
<1>4. \A k \in 1 .. 6 : Phases[k] \in PhaseNames
    BY <1>2, <1>3 DEF PhaseNames
<1>5. \A ph \in PhaseNames : \E k \in 1 .. 6 : Phases[k] = ph
    BY <1>2 DEF PhaseNames
<1>6. \A k, l \in 1 .. 6 : Phases[k] = Phases[l] => k = l
    BY <1>2, <1>3
<1>7. ASSUME NEW k \in 1 .. 6 PROVE KeyIn(Phases, Phases[k]) = k - 1
  <2> DEFINE i == CHOOSE x \in DOMAIN Phases : Phases[x] = Phases[k]
  <2>1. i \in 1 .. 6 /\ Phases[i] = Phases[k]
    BY <1>1
  <2> HIDE DEF i
  <2>2. i = k
    BY <1>6, <2>1
  <2>3. KeyIn(Phases, Phases[k]) = i - 1
    BY DEF KeyIn, i
  <2> QED BY <2>2, <2>3
<1>8. QED
    BY <1>4, <1>5, <1>7

LEMMA MasksGrow ==
    ASSUME NEW p, NEW o, SoundPlan(p, o), NEW k \in 1 .. 5
    PROVE  Covered(RollbackWrites(p, Phases[k])) \subseteq Covered(RollbackWrites(p, Phases[k + 1]))
<1>1. MasksCover(p)
    BY OverlayFacts
<1>2. /\ Phases[1] = "Discovered" /\ Phases[2] = "Reserved" /\ Phases[3] = "Relocating"
      /\ Phases[4] = "TargetStaged" /\ Phases[5] = "BackupBootWritten"
      /\ Phases[6] = "Activated"
    BY DEF Phases
<1>3. /\ RollbackWrites(p, Phases[1]) = <<>>
      /\ RollbackWrites(p, Phases[2]) = p.overlays.relocation
      /\ RollbackWrites(p, Phases[3]) = p.overlays.staging
      /\ RollbackWrites(p, Phases[4]) = p.overlays.preactivation
      /\ RollbackWrites(p, Phases[5]) = p.overlays.full
      /\ RollbackWrites(p, Phases[6]) = p.overlays.full
    BY <1>2 DEF RollbackWrites
<1>4. Covered(<<>>) = {}
    BY DEF Covered, ToSet
<1>5. CASE k = 1
    BY <1>3, <1>4, <1>5
<1>6. CASE k = 2
    BY <1>1, <1>3, <1>6 DEF MasksCover
<1>7. CASE k = 3
    BY <1>1, <1>3, <1>7 DEF MasksCover
<1>8. CASE k = 4
    BY <1>1, <1>3, <1>8 DEF MasksCover
<1>9. CASE k = 5
    BY <1>3, <1>9
<1>10. QED
    BY <1>5, <1>6, <1>7, <1>8, <1>9

-----------------------------------------------------------------------------
(* What the masks were captured for: everything a group may write.          *)
LEMMA GroupCovered ==
    ASSUME NEW o, SoundPlan(prepared, o), NEW g \in NextGroup
    PROVE  g[1] \in Covered(RollbackWrites(prepared, phase))
<1> DEFINE s == prepared.state
           w == s.writes
           P == prepared.overlays
<1>1. MasksCover(prepared)
    BY OverlayFacts
<1>2. ValidState(s)
    BY EncodedIsValid DEF SoundPlan
<1>3. RollbackPaired(w) /\ BeforeImagesExact(s.layout, s.before) /\ ValidEnvelopeRanges(s)
    BY <1>2 DEF ValidState
<1>4. s.before \in Seq(Captured(o)) /\ WritesTyped(w, o) /\ s.layout.relocations \in Seq(MoveSet)
    BY DEF SoundPlan
<1>5. \A c \in Captured(o) : IsWrite(c)
    BY CapturedFacts DEF IsWrite
<1>6. /\ Plain(w.staging) \in Seq(WriteSet) /\ Plain(w.backup) \in Seq(WriteSet)
      /\ Plain(w.activation) \in Seq(WriteSet)
    BY <1>4, PlainTyped DEF WritesTyped
<1>7. /\ Covered(Plain(w.staging)) = Covered(w.stagingBack)
      /\ Covered(Plain(w.backup)) = Covered(w.backupBack)
      /\ Covered(Plain(w.activation)) = Covered(w.activationBack)
    BY <1>3, <1>4, <1>5, <1>6, WriteSetFacts, PairedCover, ZenonT(60) DEF RollbackPaired, WritesTyped
<1>8. CASE phase = "Reserved"
  <2>1. g \in UNION {{<<r.destination[1].offset + i, image[r.source.offset + i]>> :
                         i \in 0 .. r.source.length - 1} : r \in ToSet(s.layout.relocations)}
    BY <1>8 DEF NextGroup
  <2>2. PICK r \in ToSet(s.layout.relocations) :
           g \in {<<r.destination[1].offset + i, image[r.source.offset + i]>> :
                     i \in 0 .. r.source.length - 1}
    BY <2>1
  <2>3. PICK i \in 0 .. r.source.length - 1 : g[1] = r.destination[1].offset + i
    BY <2>2
  <2>4. r \in MoveSet /\ Cells(r.destination[1]) \subseteq Covered(s.before)
    BY <1>3, <1>4, DestinationsCover
  <2>5. r.source.length = r.destination[1].length
    BY <1>3 DEF ValidEnvelopeRanges
  <2>6. r.destination[1] \in RangeSet
    BY <2>4 DEF MoveSet
  <2>7. g[1] \in Cells(r.destination[1])
    BY <2>3, <2>5, <2>6 DEF Cells, End, RangeSet
  <2>8. RollbackWrites(prepared, phase) = P.relocation
    BY <1>8 DEF RollbackWrites
  <2> QED BY <1>1, <2>4, <2>7, <2>8 DEF MasksCover
<1>9. CASE phase = "Relocating"
  <2>1. g \in Units(Plain(w.staging)) /\ RollbackWrites(prepared, phase) = P.staging
    BY <1>9 DEF NextGroup, RollbackWrites
  <2>2. g[1] \in Covered(Plain(w.staging))
    BY <1>6, <2>1, GroupUnits
  <2> QED BY <1>1, <1>7, <2>1, <2>2 DEF MasksCover
<1>10. CASE phase = "TargetStaged"
  <2>1. g \in Units(Plain(w.backup)) /\ RollbackWrites(prepared, phase) = P.preactivation
    BY <1>10 DEF NextGroup, RollbackWrites
  <2>2. g[1] \in Covered(Plain(w.backup))
    BY <1>6, <2>1, GroupUnits
  <2> QED BY <1>1, <1>7, <2>1, <2>2 DEF MasksCover
<1>11. CASE phase = "BackupBootWritten"
  <2>1. g \in Units(Plain(w.activation)) /\ RollbackWrites(prepared, phase) = P.full
    BY <1>11 DEF NextGroup, RollbackWrites
  <2>2. g[1] \in Covered(Plain(w.activation))
    BY <1>6, <2>1, GroupUnits
  <2> QED BY <1>1, <1>7, <2>1, <2>2 DEF MasksCover
<1>12. phase \in {"Reserved", "Relocating", "TargetStaged", "BackupBootWritten"}
    BY DEF NextGroup
<1>13. QED
    BY <1>8, <1>9, <1>10, <1>11, <1>12

-----------------------------------------------------------------------------
(* into_decoded, from_restart_capsule: whatever a restart reads from an     *)
(* envelope, its masks are those that the envelope's header commits to.     *)
LEMMA DecodedCommits ==
    ASSUME NEW e, DecodePreparedEnvelope(e).error = "none"
    PROVE  \E t : /\ DecodePreparedEnvelope(e).plan = Reconstructed(t)
                  /\ e.header.digests = Commitments(t.before, t.writes)
<1> DEFINE decoded == DecodeState(e)
           t == decoded.plan
           answer == DecodePreparedEnvelope(e)
<1>1. \A x : Refused(x).error = x
    BY DEF Refused
<1>2. answer = IF decoded.error # "none" THEN decoded
               ELSE IF OverlaysAccepted(decoded.plan.before, decoded.plan.writes)
                    THEN [error |-> "none", plan |-> Reconstructed(decoded.plan)]
                    ELSE Refused("overlay")
    BY Zenon DEF DecodePreparedEnvelope
<1>3. decoded.error = "none" /\ answer.plan = Reconstructed(t)
  <2> HIDE DEF decoded, answer
  <2>1. answer.error = "none"
    BY DEF answer
  <2> QED BY <1>1, <1>2, <2>1
<1>4. \E s : decoded = [error |-> "none", plan |-> s] /\ ValidState(s)
             /\ s.digests = e.header.digests
  <2> DEFINE scan == ScanSections(e.body)
             forward == [i \in 1 .. 3 |-> WritesOf(scan.found[i + 3], 3)]
             back == [i \in 1 .. 4 |-> WritesOf(scan.found[IF i = 4 THEN 12 ELSE i + 6], 2)]
             s == StateFrom(e.header, scan.found, forward, back)
             readable == \A i \in DOMAIN forward : forward[i].ok /\
                            \A v \in ToSet(forward[i].values) : v.key \in 0 .. 5
             whole == \A i \in DOMAIN back : back[i].ok
             checked == IF ValidState(s) THEN [error |-> "none", plan |-> s]
                        ELSE Refused("invalid")
             parsed == IF readable
                       THEN IF whole THEN checked ELSE Refused("truncated")
                       ELSE Refused("truncated")
             sections == IF ~scan.ok THEN Refused("sections")
                         ELSE IF ~ReadableEnums(scan.found) THEN Refused("enum")
                         ELSE parsed
  <2>1. decoded = IF ValidHeader(e) THEN sections ELSE Refused("header")
    BY Zenon DEF DecodeState
  <2>2. s.digests = e.header.digests
    BY DEF StateFrom
  <2> HIDE DEF scan, forward, back, s, readable, whole
  <2> HIDE DEF decoded
  <2>3. decoded = [error |-> "none", plan |-> s] /\ ValidState(s)
    BY <1>1, <1>3, <2>1
  <2> QED BY <2>2, <2>3
<1>5. ValidState(t) /\ t.digests = e.header.digests
  <2> HIDE DEF decoded
  <2> QED BY <1>4
<1> HIDE DEF t, answer
<1>6. t.digests = Commitments(t.before, t.writes)
    BY <1>5 DEF ValidState, CommitmentsHold
<1>7. QED
    BY <1>3, <1>5, <1>6 DEF answer

LEMMA RestartedMasks ==
    ASSUME NEW o, SoundPlan(prepared, o), NEW log, Head(log).payload = EnvelopeOf(prepared),
           NEW policy, FromRestartCapsule(log, policy).error = "none",
           NEW ph \in PhaseNames
    PROVE  RollbackWrites(FromRestartCapsule(log, policy).plan, ph) = RollbackWrites(prepared, ph)
<1> DEFINE s == prepared.state
           e == EnvelopeOf(prepared)
           decoded == DecodePreparedEnvelope(e)
           restarted == FromRestartCapsule(log, policy)
<1>1. \A x : Refused(x).error = x
    BY DEF Refused
<1>2. restarted = decoded
  <2> DEFINE from == CASE decoded.error # "none" -> decoded
                       [] RaisesLimits(decoded.plan.state.limits, policy) -> Refused("limits")
                       [] Head(log).identity # decoded.plan.state.identity -> Refused("identity")
                       [] ~Resumes(decoded.plan, e, log) -> Refused("changed")
                       [] OTHER -> decoded
  <2>1. restarted = IF log = <<>> \/ ~WithinCapsule(log, policy) THEN Refused("capsule")
                    ELSE from
    BY DEF FromRestartCapsule
  <2> HIDE DEF restarted, decoded, e
  <2>2. restarted.error = "none"
    BY DEF restarted
  <2>3. from \in {decoded, Refused("limits"), Refused("identity"), Refused("changed")}
    BY Zenon
  <2> HIDE DEF from
  <2> QED BY <1>1, <2>1, <2>2, <2>3
<1>3. EncodeState(s).error = "none" /\ e = EncodeState(s).envelope
    BY DEF SoundPlan, EnvelopeOf
<1>4. PICK body : e = Sealed(HeaderOf(s, body), body)
    BY <1>3, EncodedIsValid
<1>5. e.header.digests = s.digests
    BY <1>4 DEF Sealed, HeaderOf
<1>6. s.digests = Commitments(s.before, s.writes)
    BY <1>3, EncodedIsValid DEF ValidState, CommitmentsHold
<1>7. decoded.error = "none"
    BY <1>2
<1>8. PICK t : decoded.plan = Reconstructed(t) /\ e.header.digests = Commitments(t.before, t.writes)
    BY <1>7, DecodedCommits
<1>9. Commitments(t.before, t.writes) = Commitments(s.before, s.writes)
    BY <1>5, <1>6, <1>8
<1>10. \A b, w : /\ Commitments(b, w).relocation = Overlays(b, w).relocation
                 /\ Commitments(b, w).staging = Overlays(b, w).staging
                 /\ Commitments(b, w).preactivation = Overlays(b, w).preactivation
                 /\ Commitments(b, w).full = Overlays(b, w).full
    BY DEF Commitments, Overlays, DigestOverlayWrites
<1>11. prepared.overlays = Overlays(s.before, s.writes)
  <2>1. prepared = [state |-> s, overlays |-> Overlays(s.before, s.writes)]
    BY DEF SoundPlan, Reconstructed
  <2> QED BY <2>1
<1>12. decoded.plan.overlays = Overlays(t.before, t.writes)
    BY <1>8 DEF Reconstructed
<1> DEFINE a == decoded.plan.overlays
           b == prepared.overlays
<1>13. /\ a.relocation = b.relocation /\ a.staging = b.staging
       /\ a.preactivation = b.preactivation /\ a.full = b.full
    BY <1>9, <1>10, <1>11, <1>12
<1>14. QED
    BY <1>2, <1>13 DEF RollbackWrites

(* Byte u of the image is the j-th that a read of n bytes at offset returns. *)
ReadsByte(u, j, offset, n) ==
    /\ offset \in Nat /\ n \in Nat /\ j \in 1 .. n /\ u \in Nat /\ u = offset + j - 1

(* Of a byte under a mask the original's value is shown, of another its own. *)
ShowsByte(value, u, masks, o, contents) ==
    value = IF u \in Covered(masks) THEN o[u] ELSE contents[u]

(* apply_intersections: a byte under a mask is the original's.              *)
LEMMA MaskedByte ==
    ASSUME NEW o, NEW masks, masks \in Seq(Captured(o)), NEW contents, NEW offset, NEW n,
           NEW j, NEW u, ReadsByte(u, j, offset, n)
    PROVE  ShowsByte(ApplyIntersections(masks, offset, ReadBase(contents, offset, n))[j],
                     u, masks, o, contents)
<1> DEFINE output == ReadBase(contents, offset, n)
           covering == {k \in DOMAIN masks : u \in Cells(Extents(masks[k]))}
           top == Max(covering)
           w == masks[top]
<1> USE DEF ReadsByte, ShowsByte
<1>1. DOMAIN output = 1 .. n /\ output[j] = contents[u]
    BY ReadLength
<1>2. ApplyIntersections(masks, offset, output)[j]
         = IF covering = {} THEN output[j] ELSE w.bytes[u - w.offset + 1]
  <2> HIDE DEF output
  <2> QED BY <1>1 DEF ApplyIntersections
<1>3. CASE covering = {}
  <2>1. u \notin Covered(masks)
    BY <1>3 DEF Covered, ToSet
  <2> QED BY <1>1, <1>2, <1>3, <2>1
<1>4. CASE covering # {}
  <2>1. DOMAIN masks = 1 .. Len(masks) /\ Len(masks) \in Nat
    OBVIOUS
  <2>2. top \in covering
    <3>1. covering \in SUBSET Nat /\ \A y \in covering : y <= Len(masks)
        BY <2>1
    <3> HIDE DEF covering
    <3> QED BY <1>4, <2>1, <3>1, MaxIsLargest
  <2> HIDE DEF top
  <2>3. top \in DOMAIN masks /\ u \in Cells(Extents(w)) /\ w \in Captured(o)
    BY <2>2
  <2>4. u \in Covered(masks)
    BY <2>3 DEF Covered, ToSet
  <2> HIDE DEF w
  <2>5. /\ w.offset \in Nat /\ Len(w.bytes) \in Nat
        /\ \A i \in 1 .. Len(w.bytes) : w.bytes[i] = o[w.offset + i - 1]
        /\ u \in w.offset .. w.offset + Len(w.bytes) - 1
    BY <2>3, CapturedFacts
  <2> DEFINE i == u - w.offset + 1
  <2>6. i \in 1 .. Len(w.bytes) /\ w.offset + i - 1 = u
    BY <2>5, SMTT(60)
  <2> HIDE DEF i
  <2>7. w.bytes[i] = o[u]
    BY <2>5, <2>6
  <2> QED BY <1>2, <1>4, <2>4, <2>7 DEF i
<1>5. QED
    BY <1>3, <1>4

-----------------------------------------------------------------------------
(* A sum does not depend on the order: it is the number of dots in columns. *)
Dots(numbers, k) == {p \in (1 .. k) \X Nat : p[2] \in 1 .. numbers[p[1]]}

LEMMA SumCountsDots ==
    ASSUME NEW numbers \in Seq(Nat)
    PROVE  LET dots == Dots(numbers, Len(numbers))
           IN  IsFiniteSet(dots) /\ Cardinality(dots) = Total(numbers)
<1> DEFINE n == Len(numbers)
           f == Sums(numbers)
           T == {k \in 0 .. n : /\ IsFiniteSet(Dots(numbers, k))
                                /\ Cardinality(Dots(numbers, k)) = f[k]}
<1>1. n \in Nat /\ \A k \in 1 .. n : numbers[k] \in Nat
    OBVIOUS
<1>2. f[0] = 0 /\ \A k \in 0 .. n - 1 : f[k + 1] = f[k] + numbers[k + 1]
    BY <1>1, SumsStep
<1> HIDE DEF n, f
<1>3. 0 \in T
  <2>1. Dots(numbers, 0) = {}
    BY DEF Dots
  <2>2. IsFiniteSet({}) /\ Cardinality({}) = 0
    BY FS_EmptySet
  <2>3. 0 \in 0 .. n
    BY <1>1
  <2> QED BY <1>2, <2>1, <2>2, <2>3
<1>4. ASSUME NEW k \in 0 .. n, k < n, k \in T PROVE k + 1 \in T
  <2> DEFINE A == Dots(numbers, k)
             m == numbers[k + 1]
             B == {k + 1} \X (1 .. m)
  <2>1. k \in 0 .. n - 1 /\ k + 1 \in 0 .. n /\ m \in Nat /\ f[k + 1] = f[k] + m
    BY <1>1, <1>2, <1>4
  <2>2. Dots(numbers, k + 1) = A \cup B
    <3>1. ASSUME NEW p \in A PROVE p \in Dots(numbers, k + 1)
        BY <2>1 DEF Dots
    <3>2. ASSUME NEW p \in B PROVE p \in Dots(numbers, k + 1)
      <4>1. p[1] = k + 1 /\ p[2] \in 1 .. m /\ p = <<p[1], p[2]>>
        OBVIOUS
      <4> HIDE DEF B
      <4>2. p[1] \in 1 .. k + 1 /\ p[2] \in Nat
        BY <2>1, <4>1
      <4>3. p \in (1 .. k + 1) \X Nat
        BY <4>1, <4>2
      <4> QED BY <4>1, <4>3 DEF Dots
    <3>3. ASSUME NEW p \in Dots(numbers, k + 1) PROVE p \in A \cup B
      <4>1. p[1] \in 1 .. k + 1 /\ p[2] \in Nat /\ p = <<p[1], p[2]>> /\ p[2] \in 1 .. numbers[p[1]]
        BY DEF Dots
      <4>2. CASE p[1] = k + 1
        BY <4>1, <4>2
      <4>3. CASE p[1] # k + 1
        <5>1. p[1] \in 1 .. k
            BY <2>1, <4>1, <4>3
        <5>2. p \in (1 .. k) \X Nat
            BY <4>1, <5>1
        <5> QED BY <4>1, <5>2 DEF Dots
      <4> QED BY <4>2, <4>3
    <3> HIDE DEF A, B
    <3> QED BY <3>1, <3>2, <3>3
  <2>3. IsFiniteSet(A) /\ Cardinality(A) = f[k]
    BY <1>4
  <2>4. IsFiniteSet(1 .. m) /\ Cardinality(1 .. m) = m
    <3> HIDE DEF m
    <3>1. m \in Int /\ 1 \in Int
        BY <2>1
    <3>2. \A a, b \in Int : /\ IsFiniteSet(a .. b)
                            /\ Cardinality(a .. b) = IF a > b THEN 0 ELSE b - a + 1
        BY FS_Interval
    <3>3. IsFiniteSet(1 .. m) /\ Cardinality(1 .. m) = IF 1 > m THEN 0 ELSE m - 1 + 1
        BY <3>1, <3>2
    <3> QED BY <2>1, <3>3
  <2>5. IsFiniteSet({k + 1}) /\ Cardinality({k + 1}) = 1
    BY FS_Singleton
  <2>6. IsFiniteSet(B) /\ Cardinality(B) = 1 * m
    BY <2>4, <2>5, FS_Product, ZenonT(60)
  <2>7. A \cap B = {}
    <3>1. \A p \in A : p[1] \in 1 .. k
        BY DEF Dots
    <3>2. \A p \in B : p[1] = k + 1
        OBVIOUS
    <3>3. k + 1 \notin 1 .. k
        BY <2>1
    <3> HIDE DEF A, B
    <3> QED BY <3>1, <3>2, <3>3
  <2> HIDE DEF A, B
  <2>8. Cardinality(A \cap B) = 0
    BY <2>7, FS_EmptySet
  <2>9. IsFiniteSet(A \cup B) /\ Cardinality(A \cup B) = Cardinality(A) + Cardinality(B) - 0
    BY <2>3, <2>6, <2>8, FS_Union
  <2>10. f[k] \in Nat
    BY <2>3, FS_CardinalityType
  <2>11. Cardinality(A \cup B) = f[k + 1]
    BY <2>1, <2>3, <2>6, <2>9, <2>10
  <2> QED BY <2>1, <2>2, <2>9, <2>11
<1>5. \A k \in 0 .. n : k \in T
  <2> HIDE DEF T
  <2> QED BY <1>1, <1>3, <1>4, BoundedInduction
<1>6. QED
    BY <1>1, <1>5 DEF Total, n, f

LEMMA TotalPermuted ==
    ASSUME NEW numbers \in Seq(Nat), NEW at, Picks(Len(numbers), 1 .. Len(numbers), at),
           NEW other \in Seq(Nat), Len(other) = Len(numbers),
           \A k \in 1 .. Len(numbers) : other[k] = numbers[at[k]]
    PROVE  Total(other) = Total(numbers)
<1> DEFINE n == Len(numbers)
           A == Dots(other, n)
           B == Dots(numbers, n)
           F == [p \in A |-> <<at[p[1]], p[2]>>]
<1>1. /\ at \in [1 .. n -> 1 .. n]
      /\ \A i \in 1 .. n : \E k \in 1 .. n : at[k] = i
      /\ \A k, l \in 1 .. n : k # l => at[k] # at[l]
    BY DEF Picks
<1>2. \A p \in A : /\ p[1] \in 1 .. n /\ p[2] \in Nat /\ p = <<p[1], p[2]>>
                   /\ p[2] \in 1 .. other[p[1]]
    BY DEF Dots
<1>3. \A p \in B : /\ p[1] \in 1 .. n /\ p[2] \in Nat /\ p = <<p[1], p[2]>>
                   /\ p[2] \in 1 .. numbers[p[1]]
    BY DEF Dots
<1>4. \A i \in 1 .. n, x \in Nat : x \in 1 .. numbers[i] => <<i, x>> \in B
    BY DEF Dots
<1>5. \A i \in 1 .. n, x \in Nat : x \in 1 .. other[i] => <<i, x>> \in A
    BY DEF Dots
<1> HIDE DEF A, B, n
<1>6. \A k \in 1 .. n : other[k] = numbers[at[k]]
    BY DEF n
<1>7. ASSUME NEW p \in A PROVE F[p] \in B /\ F[p][1] = at[p[1]] /\ F[p][2] = p[2]
  <2>1. p[1] \in 1 .. n /\ p[2] \in Nat /\ p[2] \in 1 .. numbers[at[p[1]]]
    BY <1>2, <1>6
  <2>2. at[p[1]] \in 1 .. n
    BY <1>1, <2>1
  <2>3. <<at[p[1]], p[2]>> \in B
    BY <1>4, <2>1, <2>2
  <2> QED BY <2>3
<1>8. F \in [A -> B]
    BY <1>7
<1>9. ASSUME NEW p \in A, NEW q \in A, F[p] = F[q] PROVE p = q
  <2>1. at[p[1]] = at[q[1]] /\ p[2] = q[2]
    BY <1>7, <1>9
  <2>2. p[1] = q[1]
    BY <1>1, <1>2, <2>1
  <2> QED BY <1>2, <2>1, <2>2
<1>10. ASSUME NEW q \in B PROVE \E p \in A : F[p] = q
  <2>1. PICK k \in 1 .. n : at[k] = q[1]
    BY <1>1, <1>3
  <2> DEFINE p == <<k, q[2]>>
  <2>2. q[2] \in Nat /\ q[2] \in 1 .. other[k]
    BY <1>3, <1>6, <2>1
  <2>3. p \in A
    BY <1>5, <2>2
  <2>4. F[p] = <<at[k], q[2]>>
    BY <2>3
  <2>5. q = <<q[1], q[2]>>
    BY <1>3
  <2>6. F[p] = q
    BY <2>1, <2>4, <2>5
  <2> QED BY <2>3, <2>6
<1> HIDE DEF F
<1>11. F \in Bijection(A, B)
  <2>1. F \in Injection(A, B)
    BY <1>8, <1>9 DEF Injection, IsInjective
  <2>2. F \in Surjection(A, B)
    BY <1>8, <1>10 DEF Surjection
  <2> QED BY <2>1, <2>2 DEF Bijection
<1>12. ExistsBijection(A, B)
    BY <1>11 DEF ExistsBijection
<1>13. IsFiniteSet(A) /\ Cardinality(A) = Total(other)
    BY SumCountsDots DEF A, n
<1>14. Cardinality(B) = Total(numbers)
    BY SumCountsDots DEF B, n
<1>15. Cardinality(B) = Cardinality(A)
    BY <1>12, <1>13, FS_Bijection
<1>16. QED
    BY <1>13, <1>14, <1>15

-----------------------------------------------------------------------------
(* OverlayPlan::build: what it accepts, a virtual original accepts.         *)
LEMMA OrderedFacts ==
    ASSUME NEW C, \A w \in C : IsWrite(w), NEW seq \in Seq(C)
    PROVE  LET sorted == OrderedWrites(seq)
           IN  /\ sorted \in Seq(C) /\ Len(sorted) = Len(seq)
               /\ TotalBytes(sorted) = TotalBytes(seq)
               /\ \A k, l \in 1 .. Len(seq) : k < l => sorted[k].offset <= sorted[l].offset
<1> DEFINE n == Len(seq)
           offset == [i \in DOMAIN seq |-> seq[i].offset]
           keys == [i \in DOMAIN seq |-> <<seq[i].offset>>]
           sorted == Arranged(seq, keys)
           lengths == [i \in DOMAIN seq |-> Len(seq[i].bytes)]
           other == [i \in DOMAIN sorted |-> Len(sorted[i].bytes)]
<1>1. OrderedWrites(seq) = sorted
    BY DEF OrderedWrites, SortedBy, SortedOn, Extents, ByteRange
<1>2. \A c \in C : c.offset \in Nat /\ Len(c.bytes) \in Nat
    BY DEF IsWrite
<1>3. seq \in Seq(C)
    OBVIOUS
<1>4. n \in Nat /\ DOMAIN seq = 1 .. n /\ \A i \in 1 .. n : seq[i] \in C
    BY <1>3
<1>5. \A i \in DOMAIN seq : <<seq[i].offset>> \in [1 .. 1 -> Int]
    BY <1>2, <1>4
<1>6. offset \in [DOMAIN seq -> Int] /\ keys \in [DOMAIN seq -> [1 .. 1 -> Int]]
      /\ \A i \in DOMAIN seq : keys[i] = <<offset[i]>>
    BY <1>2, <1>4, <1>5
<1>7. \A i \in DOMAIN seq : offset[i] = seq[i].offset
    OBVIOUS
<1> HIDE DEF offset, keys
<1>8. sorted \in Seq(C) /\ \E at : SortsBy(seq, sorted, offset, at)
    BY <1>3, <1>6, SortedByOffset
<1>9. PICK at : SortsBy(seq, sorted, offset, at)
    BY <1>8
<1> HIDE DEF sorted
<1>10. /\ Picks(n, 1 .. n, at) /\ sorted = [k \in 1 .. n |-> seq[at[k]]] /\ Len(sorted) = n
       /\ \A k, l \in 1 .. n : k < l => offset[at[k]] <= offset[at[l]]
    BY <1>4, <1>9 DEF SortsBy
<1>11. \A k \in 1 .. n : at[k] \in 1 .. n /\ sorted[k] = seq[at[k]]
    BY <1>10 DEF Picks
<1>12. \A k, l \in 1 .. n : k < l => sorted[k].offset <= sorted[l].offset
    BY <1>4, <1>7, <1>10, <1>11
<1>13. DOMAIN sorted = 1 .. n
    BY <1>10
<1>14. /\ lengths \in [1 .. n -> Nat] /\ other \in [1 .. n -> Nat]
       /\ \A k \in 1 .. n : other[k] = lengths[at[k]]
    BY <1>2, <1>4, <1>11, <1>13
<1>15. TotalBytes(seq) = Total(lengths) /\ TotalBytes(sorted) = Total(other)
    BY DEF TotalBytes, SumOf
<1> HIDE DEF lengths, other
<1>16. lengths \in Seq(Nat) /\ other \in Seq(Nat) /\ Len(lengths) = n /\ Len(other) = n
    BY <1>4, <1>14, SMTT(60)
<1>17. Total(other) = Total(lengths)
  <2>1. /\ Picks(Len(lengths), 1 .. Len(lengths), at)
        /\ \A k \in 1 .. Len(lengths) : other[k] = lengths[at[k]]
    BY <1>10, <1>14, <1>16
  <2>2. Len(other) = Len(lengths)
    BY <1>16
  <2> QED BY <1>16, <2>1, <2>2, TotalPermuted
<1>18. /\ sorted \in Seq(C) /\ Len(sorted) = n /\ TotalBytes(sorted) = TotalBytes(seq)
       /\ \A k, l \in 1 .. n : k < l => sorted[k].offset <= sorted[l].offset
    BY <1>8, <1>10, <1>12, <1>15, <1>17
<1>19. QED
    BY <1>1, <1>18 DEF n

(* What is not empty has bytes.                                             *)
HasBytes(w) == IsWrite(w) /\ (Len(w.bytes) = 0 => w.bytes = <<>>)

(* Writes that a capture accepts are, in order, masks that are accepted.    *)
LEMMA AcceptedOrder ==
    ASSUME NEW S, \A w \in S : HasBytes(w), NEW seq \in Seq(S), CaptureAccepted(seq)
    PROVE  LET m == OrderedWrites(seq)
           IN  /\ m \in Seq(S) /\ Len(m) = Len(seq) /\ ToSet(m) = ToSet(seq)
               /\ MasksAccepted(m)
               /\ \A k, l \in 1 .. Len(m) : k < l => m[k].offset <= m[l].offset
<1> DEFINE m == OrderedWrites(seq)
<1>0. \A w \in S : IsWrite(w)
    BY DEF HasBytes
<1>1. /\ m \in Seq(S) /\ Len(m) = Len(seq) /\ TotalBytes(m) = TotalBytes(seq)
      /\ \A k, l \in 1 .. Len(seq) : k < l => m[k].offset <= m[l].offset
    BY <1>0, OrderedFacts
<1>2. /\ Len(seq) <= MaxWrites /\ TotalBytes(seq) <= MaxBytes
      /\ \A w \in ToSet(seq) : Inside(w)
      /\ Apart(m)
    BY DEF CaptureAccepted
<1>3. \A c \in S : c.offset \in Nat
    BY <1>0 DEF IsWrite
<1>4. SameElements(seq, m)
    BY <1>3, OrderedSame
<1> HIDE DEF m
<1>5. ToSet(m) = ToSet(seq)
    BY <1>1, <1>4, SameCovered
<1>6. ASSUME NEW i \in 1 .. Len(m) - 1 PROVE m[i].offset < m[i + 1].offset
  <2> DEFINE a == m[i]
             b == m[i + 1]
  <2>1. a \in S /\ b \in S /\ a \in ToSet(m)
    BY <1>1 DEF ToSet
  <2>2. End(Extents(a)) <= b.offset
    BY <1>2, <1>6 DEF Apart, NeighboursApart, Extents, ByteRange
  <2>3. a.bytes # <<>>
    BY <1>2, <1>5, <2>1 DEF Inside
  <2> HIDE DEF a, b
  <2>4. a.offset \in Nat /\ Len(a.bytes) \in Nat /\ b.offset \in Nat
    BY <1>0, <2>1 DEF IsWrite
  <2>5. Len(a.bytes) # 0
    BY <2>1, <2>3 DEF HasBytes
  <2>6. End(Extents(a)) = a.offset + Len(a.bytes)
    BY DEF End, Extents, ByteRange
  <2>7. a.offset < b.offset
    BY <2>2, <2>4, <2>5, <2>6
  <2> QED BY <2>7 DEF a, b
<1>7. MasksAccepted(m)
    BY <1>1, <1>2, <1>5, <1>6 DEF MasksAccepted
<1>8. QED
    BY <1>1, <1>5, <1>7 DEF m

(* Masks in order, whose bytes are the original's.                          *)
GoodMasks(masks, o) ==
    /\ masks \in Seq(Captured(o)) /\ MasksAccepted(masks)
    /\ \A k, l \in 1 .. Len(masks) : k < l => masks[k].offset <= masks[l].offset

LEMMA CapturedHasBytes ==
    ASSUME NEW o, NEW w \in Captured(o)
    PROVE  HasBytes(w)
BY CapturedFacts, CapturedEmpty DEF HasBytes, IsWrite

LEMMA AcceptedMasks ==
    ASSUME NEW o, NEW seq \in Seq(Captured(o)), OverlayAccepted(seq)
    PROVE  GoodMasks(OrderedWrites(seq), o)
<1> DEFINE C == Captured(o)
           m == OrderedWrites(seq)
<1>1. CaptureAccepted(seq)
    BY DEF CaptureAccepted, OverlayAccepted
<1>2. \A w \in C : HasBytes(w)
    BY CapturedHasBytes
<1>3. seq \in Seq(C)
    OBVIOUS
<1> HIDE DEF C
<1>4. /\ m \in Seq(C) /\ MasksAccepted(m)
      /\ \A k, l \in 1 .. Len(m) : k < l => m[k].offset <= m[l].offset
    BY <1>1, <1>2, <1>3, AcceptedOrder
<1>5. QED
    BY <1>4 DEF GoodMasks, C

LEMMA EmptyMasks ==
    ASSUME NEW o
    PROVE  GoodMasks(<<>>, o)
<1> DEFINE e == <<>>
<1>1. e \in Seq(Captured(o)) /\ Len(e) = 0 /\ ToSet(e) = {}
    BY DEF ToSet
<1>2. TotalBytes(e) = 0
  <2> DEFINE numbers == [i \in DOMAIN e |-> Len(e[i].bytes)]
  <2>1. TotalBytes(e) = Total(numbers)
    BY DEF TotalBytes, SumOf
  <2>2. numbers = <<>>
    OBVIOUS
  <2>3. Len(numbers) = 0
    BY <2>2
  <2> HIDE DEF numbers
  <2>4. Sums(numbers)[0] = 0
    BY <2>3, SumsStep
  <2> QED BY <2>1, <2>3, <2>4 DEF Total
<1> HIDE DEF e
<1>3. \A i : ~ (i \in 1 .. 0 - 1) /\ ~ (i \in 1 .. 0)
    OBVIOUS
<1>4. MasksAccepted(e)
    BY <1>1, <1>2, <1>3, PhaseAssumption DEF MasksAccepted, Apart, NeighboursApart
<1>5. QED
    BY <1>1, <1>3, <1>4 DEF GoodMasks, e

LEMMA PlanMasks ==
    ASSUME NEW p, NEW o, SoundPlan(p, o), NEW ph \in PhaseNames
    PROVE  GoodMasks(RollbackWrites(p, ph), o)
<1> DEFINE C == Captured(o)
           b == p.state.before
           w == p.state.writes
           x == b \o w.stagingBack
           y == x \o w.backupBack
           z == y \o w.activationBack
<1>1. p = [state |-> p.state, overlays |-> Overlays(b, w)]
    BY DEF SoundPlan, Reconstructed
<1>2. /\ p.overlays.relocation = OrderedWrites(b)
      /\ p.overlays.staging = OrderedWrites(x)
      /\ p.overlays.preactivation = OrderedWrites(y)
      /\ p.overlays.full = OrderedWrites(z)
  <2>1. p.overlays = Overlays(b, w)
    BY <1>1
  <2> QED BY <2>1 DEF Overlays, StagingRollback, PreactivationRollback, FullRollback
<1>3. b \in Seq(C) /\ w.stagingBack \in Seq(C) /\ w.backupBack \in Seq(C)
      /\ w.activationBack \in Seq(C)
    BY DEF SoundPlan, WritesTyped
<1>4. x \in Seq(C) /\ y \in Seq(C) /\ z \in Seq(C)
    BY <1>3
<1>5. OverlayAccepted(b) /\ OverlayAccepted(x) /\ OverlayAccepted(y) /\ OverlayAccepted(z)
    BY DEF SoundPlan, OverlaysAccepted, StagingRollback, PreactivationRollback, FullRollback
<1> HIDE DEF b, x, y, z, C
<1>6. /\ GoodMasks(OrderedWrites(b), o) /\ GoodMasks(OrderedWrites(x), o)
      /\ GoodMasks(OrderedWrites(y), o) /\ GoodMasks(OrderedWrites(z), o)
    BY <1>3, <1>4, <1>5, AcceptedMasks DEF C
<1>7. RollbackWrites(p, ph) \in {<<>>, p.overlays.relocation, p.overlays.staging,
                                 p.overlays.preactivation, p.overlays.full}
    BY DEF RollbackWrites, PhaseNames
<1>8. QED
    BY <1>2, <1>6, <1>7, EmptyMasks

-----------------------------------------------------------------------------
(* VirtualOriginalReader::read_exact_at: the masks beyond the read cannot   *)
(* meet it, because they are in order.                                      *)
LEMMA VirtualByte ==
    ASSUME NEW o, NEW masks, GoodMasks(masks, o), NEW contents, NEW offset, NEW n,
           NEW j, NEW u, ReadsByte(u, j, offset, n)
    PROVE  ShowsByte(ReadVirtualOriginal(contents, masks, offset, n)[j], u, masks, o, contents)
<1> DEFINE beyond == {i \in DOMAIN masks : masks[i].offset >= offset + n}
           m == Min(beyond \cup {Len(masks) + 1})
           met == SubSeq(masks, 1, m - 1)
<1>0. offset \in Nat /\ n \in Nat /\ j \in 1 .. n /\ u \in Nat /\ u = offset + j - 1
    BY DEF ReadsByte
<1>1. /\ masks \in Seq(Captured(o))
      /\ \A k, l \in 1 .. Len(masks) : k < l => masks[k].offset <= masks[l].offset
    BY DEF GoodMasks
<1>2. Len(masks) \in Nat /\ DOMAIN masks = 1 .. Len(masks)
      /\ \A i \in 1 .. Len(masks) : masks[i] \in Captured(o) /\ masks[i].offset \in Nat
    BY <1>1, CapturedFacts
<1>3. /\ m \in beyond \cup {Len(masks) + 1}
      /\ \A y \in beyond \cup {Len(masks) + 1} : m <= y
  <2>1. beyond \cup {Len(masks) + 1} \in SUBSET Nat
    BY <1>2
  <2>2. beyond \cup {Len(masks) + 1} # {}
    OBVIOUS
  <2> HIDE DEF beyond
  <2> QED BY <2>1, <2>2, MinIsSmallest
<1>4. m \in 1 .. Len(masks) + 1
    BY <1>2, <1>3
<1> HIDE DEF m
<1>5. /\ met \in Seq(Captured(o)) /\ Len(met) = m - 1 /\ DOMAIN met = 1 .. m - 1
      /\ \A i \in 1 .. m - 1 : met[i] = masks[i]
    BY <1>1, <1>2, <1>4
<1> HIDE DEF met
<1>6. Covered(met) \subseteq Covered(masks)
  <2>1. ToSet(met) \subseteq ToSet(masks)
    BY <1>2, <1>4, <1>5 DEF ToSet
  <2> QED BY <2>1 DEF Covered
<1>7. ASSUME u \in Covered(masks) PROVE u \in Covered(met)
  <2>1. PICK k \in 1 .. Len(masks) : u \in Cells(Extents(masks[k]))
    BY <1>2, <1>7 DEF Covered, ToSet
  <2>2. masks[k].offset <= u
    BY <1>2, <2>1, CapturedFacts
  <2>3. masks[k].offset < offset + n
    BY <1>0, <1>2, <2>2
  <2>4. k < m
    <3>1. SUFFICES ASSUME m <= k PROVE FALSE
        BY <1>4
    <3>2. m \in 1 .. Len(masks) /\ m \in beyond
        BY <1>2, <1>3, <1>4, <3>1
    <3>3. masks[m].offset >= offset + n
        BY <3>2
    <3>4. masks[m].offset <= masks[k].offset
        BY <1>1, <1>2, <3>1, <3>2
    <3> QED BY <1>0, <1>2, <2>3, <3>2, <3>3, <3>4, SMTT(60)
  <2>5. k \in DOMAIN met /\ met[k] = masks[k]
    BY <1>4, <1>5, <2>4
  <2> QED BY <2>1, <2>5 DEF Covered, ToSet
<1>8. ReadVirtualOriginal(contents, masks, offset, n)
         = ApplyIntersections(met, offset, ReadBase(contents, offset, n))
    BY DEF ReadVirtualOriginal, met, m
<1>9. ShowsByte(ApplyIntersections(met, offset, ReadBase(contents, offset, n))[j],
                u, met, o, contents)
    BY <1>5, MaskedByte
<1>10. QED
    BY <1>6, <1>7, <1>8, <1>9 DEF ShowsByte

(* digest_source_view, whatever the chunk size.                             *)
LEMMA DigestByte ==
    ASSUME NEW o, NEW masks, GoodMasks(masks, o), NEW contents, NEW chunk \in Nat \ {0},
           NEW u \in 0 .. ImageBytes - 1
    PROVE  DigestSourceView(contents, masks, chunk)[u + 1]
              = IF u \in Covered(masks) THEN o[u] ELSE contents[u]
<1> DEFINE i == u + 1
           start == AlignDown(i - 1, chunk)
           n == Min({chunk, ImageBytes - start})
           part == ReadVirtualOriginal(contents, masks, 0 + start, n)
           j == i - start
<1>1. ImageBytes \in Nat /\ u \in Nat /\ i \in 1 .. ImageBytes /\ i - 1 = u
    BY PhaseAssumption
<1>2. DigestSourceView(contents, masks, chunk)[i] = part[j]
    BY <1>1 DEF DigestSourceView, InChunks
<1>3. start \in Nat /\ start <= u /\ u < start + chunk
  <2>1. AlignDown(u, chunk) \in Nat /\ AlignDown(u, chunk) <= u /\ u < AlignDown(u, chunk) + chunk
    BY <1>1, RoundedDown
  <2> QED BY <1>1, <2>1
<1> HIDE DEF start
<1>4. n = IF chunk <= ImageBytes - start THEN chunk ELSE ImageBytes - start
    BY <1>1, <1>3, MinOfTwo
<1>5. ReadsByte(u, j, 0 + start, n)
    BY <1>1, <1>3, <1>4 DEF ReadsByte
<1> HIDE DEF n, j, i
<1>6. ShowsByte(part[j], u, masks, o, contents)
    BY <1>5, VirtualByte
<1> HIDE DEF part
<1>7. QED
    BY <1>2, <1>6 DEF i, ShowsByte

-----------------------------------------------------------------------------
(* The inductive invariant. A byte that differs from the original was       *)
(* written by somebody else or lies under the masks of the checkpoint.      *)
GenerationSet(p) ==
    [identity : {p.state.identity}, phase : PhaseNames,
     payload : {EnvelopeOf(p), CheckpointPayload(p)},
     words : {EnvelopeWords(EnvelopeOf(p)), CheckpointWords}]

CapsuleOf(p, log) ==
    /\ log \in Seq(GenerationSet(p)) /\ log # <<>>
    /\ Head(log).payload = EnvelopeOf(p)

ChangesMasked ==
    \A u \in 0 .. ImageBytes - 1 :
        u \notin foreign /\ u \notin Covered(RollbackWrites(prepared, phase))
            => image[u] = original[u]

PhaseInv ==
    /\ original \in Originals /\ job \in Jobs
    /\ DOMAIN image = 0 .. ImageBytes - 1 /\ foreign \subseteq 0 .. ImageBytes - 1
    /\ state \in {"planned", "prepared", "refused", "restored"}
    /\ state = "planned" => image = original /\ foreign = {}
    /\ state = "prepared" => SoundPlan(prepared, original) /\ CapsuleOf(prepared, capsule)
                             /\ ChangesMasked
    /\ RestoreUndoesEveryPhase

LEMMA CapsuleFacts ==
    ASSUME NEW p, NEW log, CapsuleOf(p, log)
    PROVE  Last(log).phase \in PhaseNames
<1>1. Len(log) \in Nat \ {0} /\ log[Len(log)] \in GenerationSet(p)
    BY DEF CapsuleOf
<1>2. \A g \in GenerationSet(p) : g.phase \in PhaseNames
    BY DEF GenerationSet
<1>3. QED
    BY <1>1, <1>2 DEF Last

LEMMA CapsuleGrows ==
    ASSUME NEW p, NEW log, CapsuleOf(p, log), NEW ph \in PhaseNames
    PROVE  /\ CapsuleOf(p, Append(log, Checkpoint(p, ph)))
           /\ Last(Append(log, Checkpoint(p, ph))).phase = ph
<1> DEFINE g == Checkpoint(p, ph)
           more == Append(log, g)
<1>1. g \in GenerationSet(p) /\ g.phase = ph
    BY DEF Checkpoint, GenerationSet
<1> HIDE DEF g
<1>2. log \in Seq(GenerationSet(p)) /\ log # <<>> /\ Head(log).payload = EnvelopeOf(p)
    BY DEF CapsuleOf
<1>3. /\ more \in Seq(GenerationSet(p)) /\ more # <<>> /\ Head(more) = Head(log)
      /\ more[Len(more)] = g
    BY <1>1, <1>2
<1>4. QED
    BY <1>1, <1>2, <1>3 DEF CapsuleOf, Last, g

LEMMA PhaseInit ==
    Init => PhaseInv
<1> SUFFICES ASSUME Init PROVE PhaseInv
    OBVIOUS
<1>1. DOMAIN image = 0 .. ImageBytes - 1 /\ foreign \subseteq 0 .. ImageBytes - 1
    BY PhaseAssumption DEF Init
<1>2. RestoreUndoesEveryPhase
    BY DEF Init, RestoreUndoesEveryPhase
<1>3. QED
    BY <1>1, <1>2 DEF Init, PhaseInv

(* PreparedConversion::build for a job.                                     *)
LEMMA PreparePlans ==
    ASSUME PhaseInv, Prepare
    PROVE  PhaseInv'
<1> DEFINE d == DraftOf(job, PhaseSets(job), Solved(job))
           answer == IF Authorized(job) THEN Build(d) ELSE Refused("gap")
<1>1. /\ original \in Originals /\ job \in Jobs /\ image = original /\ foreign = {}
      /\ DOMAIN image = 0 .. ImageBytes - 1
      /\ UNCHANGED <<original, job, image, cell, foreign>>
    BY DEF PhaseInv, Prepare
<1>2. \/ /\ answer.error = "none" /\ state' = "prepared" /\ prepared' = answer.plan
         /\ capsule' = BeginCapsule(answer.plan, EnvelopeOf(answer.plan))
      \/ state' = "refused"
    BY DEF Prepare
<1>3. CASE state' = "refused"
    BY <1>1, <1>3 DEF PhaseInv, RestoreUndoesEveryPhase
<1>4. CASE /\ answer.error = "none" /\ state' = "prepared" /\ prepared' = answer.plan
           /\ capsule' = BeginCapsule(answer.plan, EnvelopeOf(answer.plan))
  <2>1. Refused("gap").error # "none"
    BY DEF Refused
  <2>2. Authorized(job) /\ answer = Build(d)
    <3> HIDE DEF d
    <3> QED BY <1>4, <2>1
  <2>3. /\ d.writes = PhaseSets(job) /\ d.graph = job.graph /\ d.preflight = job.preflight
        /\ d.allocations = job.allocations /\ d.reservations = job.reservations
    BY DEF DraftOf
  <2>4. DraftLayout(d) = Solved(job)
    <3> HIDE DEF d
    <3> QED BY <2>3 DEF DraftLayout, Solved
  <2>5. WritesTyped(d.writes, original)
    BY <1>1, <2>2, <2>3, SetsTyped
  <2>6. Build(d).error = "none"
    BY <1>4, <2>2
  <2>7. job.preflight.alignment # 0 /\ Solved(job).error = "none"
    <3>1. ValidDraft(d) /\ DraftLayout(d).error = "none"
      <4> HIDE DEF d, answer
      <4> QED BY <2>6, BuiltPlan
    <3>2. ValidPreflight(d.graph, d.preflight, d.filesystem)
      <4> HIDE DEF d, answer
      <4> QED BY <3>1 DEF ValidDraft
    <3>3. d.preflight.alignment # 0
      <4> HIDE DEF d, answer
      <4> QED BY <3>2 DEF ValidPreflight
    <3> HIDE DEF d, answer
    <3> QED BY <2>3, <2>4, <3>1, <3>3
  <2>8. d.before \in Seq(Captured(original))
    BY <1>1, <2>7, DraftBefore
  <2>9. DraftLayout(d).relocations \in Seq(MoveSet)
    BY <1>1, <2>4, <2>7, RelocationsTyped
  <2> HIDE DEF d, answer
  <2>10. SoundPlan(prepared', original)
    BY <1>4, <2>2, <2>5, <2>6, <2>8, <2>9, BuiltIsSound
  <2>11. CapsuleOf(prepared', capsule')
    <3> DEFINE p == answer.plan
               g == [identity |-> p.state.identity, phase |-> "Discovered",
                     payload |-> EnvelopeOf(p), words |-> EnvelopeWords(EnvelopeOf(p))]
    <3>1. capsule' = <<g>> /\ prepared' = p
        BY <1>4 DEF BeginCapsule
    <3>2. g \in GenerationSet(p) /\ g.payload = EnvelopeOf(p)
        BY DEF GenerationSet, PhaseNames
    <3> HIDE DEF g, p
    <3>3. <<g>> \in Seq(GenerationSet(p)) /\ <<g>> # <<>> /\ Head(<<g>>) = g
        BY <3>2
    <3> QED BY <3>1, <3>2, <3>3 DEF CapsuleOf
  <2>12. ChangesMasked'
    BY <1>1 DEF ChangesMasked
  <2>13. RestoreUndoesEveryPhase'
    BY <1>4 DEF RestoreUndoesEveryPhase
  <2> QED BY <1>1, <1>4, <2>10, <2>11, <2>12, <2>13 DEF PhaseInv
<1>5. QED
    BY <1>2, <1>3, <1>4

(* write_group: a byte of the next group.                                   *)
LEMMA GroupWrites ==
    ASSUME PhaseInv, state = "prepared", NEW g \in NextGroup, WriteByte(g[1], g[2])
    PROVE  PhaseInv'
<1>1. /\ UNCHANGED <<original, job, prepared, capsule, state>>
      /\ image' = [image EXCEPT ![g[1]] = g[2]] /\ foreign' = foreign \ {g[1]}
    BY DEF WriteByte
<1>2. SoundPlan(prepared, original) /\ ChangesMasked /\ DOMAIN image = 0 .. ImageBytes - 1
    BY DEF PhaseInv
<1>3. g[1] \in Covered(RollbackWrites(prepared, phase))
    BY <1>2, GroupCovered
<1>4. phase' = phase
    BY <1>1 DEF phase
<1>5. \A u \in 0 .. ImageBytes - 1 : u # g[1] => image'[u] = image[u]
    BY <1>1, <1>2
<1>6. ChangesMasked'
  <2> SUFFICES ASSUME NEW u \in 0 .. ImageBytes - 1, u \notin foreign',
                      u \notin Covered(RollbackWrites(prepared, phase))
               PROVE  image'[u] = original[u]
    BY <1>1, <1>4 DEF ChangesMasked
  <2>1. u # g[1] /\ u \notin foreign
    BY <1>1, <1>3
  <2> QED BY <1>2, <1>5, <2>1 DEF ChangesMasked
<1>7. RestoreUndoesEveryPhase'
    BY <1>1 DEF RestoreUndoesEveryPhase
<1>8. DOMAIN image' = 0 .. ImageBytes - 1
    BY <1>1, <1>2
<1>9. QED
    BY <1>1, <1>6, <1>7, <1>8 DEF PhaseInv

LEMMA RecordKeeps ==
    ASSUME PhaseInv, RecordPhase
    PROVE  PhaseInv'
<1> DEFINE next == Phases[KeyIn(Phases, phase) + 2]
<1>1. /\ state = "prepared" /\ phase # "Activated"
      /\ capsule' = Append(capsule, Checkpoint(prepared, next))
      /\ UNCHANGED <<original, job, prepared, image, state, cell, foreign>>
    BY DEF RecordPhase
<1>2. SoundPlan(prepared, original) /\ CapsuleOf(prepared, capsule) /\ ChangesMasked
    BY <1>1 DEF PhaseInv
<1>3. phase \in PhaseNames
    BY <1>2, CapsuleFacts DEF phase
<1>4. PICK k \in 1 .. 6 : phase = Phases[k]
    BY <1>3, PhaseOrder
<1>5. k # 6
    BY <1>1, <1>4 DEF Phases
<1>6. k \in 1 .. 5 /\ KeyIn(Phases, phase) = k - 1
    BY <1>4, <1>5, PhaseOrder
<1>7. next = Phases[k + 1]
    BY <1>6
<1>8. next \in PhaseNames
    BY <1>6, <1>7, PhaseOrder
<1> HIDE DEF next
<1>9. CapsuleOf(prepared, capsule') /\ phase' = next
    BY <1>1, <1>2, <1>8, CapsuleGrows DEF phase
<1>10. Covered(RollbackWrites(prepared, phase)) \subseteq Covered(RollbackWrites(prepared, next))
    BY <1>2, <1>4, <1>6, <1>7, MasksGrow
<1>11. ChangesMasked'
    BY <1>1, <1>2, <1>9, <1>10 DEF ChangesMasked
<1>12. RestoreUndoesEveryPhase'
    BY <1>1 DEF RestoreUndoesEveryPhase
<1>13. QED
    BY <1>1, <1>2, <1>9, <1>11, <1>12 DEF PhaseInv

LEMMA ForeignKeeps ==
    ASSUME PhaseInv, NEW unit \in 0 .. ImageBytes - 1, NEW value, ForeignWrite(unit, value)
    PROVE  PhaseInv'
<1>1. /\ state = "prepared" /\ UNCHANGED <<original, job, prepared, capsule, state, cell>>
      /\ image' = [image EXCEPT ![unit] = value] /\ foreign' = foreign \cup {unit}
    BY DEF ForeignWrite
<1>2. ChangesMasked /\ DOMAIN image = 0 .. ImageBytes - 1
    BY <1>1 DEF PhaseInv
<1>3. phase' = phase
    BY <1>1 DEF phase
<1>4. \A u \in 0 .. ImageBytes - 1 : u # unit => image'[u] = image[u]
    BY <1>1, <1>2
<1>5. ChangesMasked'
    BY <1>1, <1>2, <1>3, <1>4 DEF ChangesMasked
<1>6. RestoreUndoesEveryPhase'
    BY <1>1 DEF RestoreUndoesEveryPhase
<1>7. DOMAIN image' = 0 .. ImageBytes - 1
    BY <1>1, <1>2
<1>8. QED
    BY <1>1, <1>5, <1>6, <1>7 DEF PhaseInv

(* rollback: the masks a restart reads bring every byte back.               *)
LEMMA RestoreUndoes ==
    ASSUME PhaseInv, NEW policy, Restore(policy)
    PROVE  PhaseInv'
<1> DEFINE restarted == FromRestartCapsule(capsule, policy)
           masks == RollbackWrites(restarted.plan, phase)
           bytes == ApplyIntersections(masks, 0, ReadBase(image, 0, ImageBytes))
<1>1. /\ state = "prepared" /\ state' = "restored"
      /\ restarted.error = "none"
      /\ image' = [u \in 0 .. ImageBytes - 1 |-> bytes[u + 1]]
      /\ foreign' = foreign \ UNION {Cells(Extents(m)) : m \in ToSet(masks)}
      /\ UNCHANGED <<original, job, prepared, capsule, cell>>
    BY Zenon DEF Restore, PutBack
<1>2. /\ SoundPlan(prepared, original) /\ CapsuleOf(prepared, capsule) /\ ChangesMasked
      /\ original \in Originals /\ job \in Jobs
    BY <1>1 DEF PhaseInv
<1>3. phase \in PhaseNames
    BY <1>2, CapsuleFacts DEF phase
<1>4. masks = RollbackWrites(prepared, phase)
    BY <1>1, <1>2, <1>3, RestartedMasks DEF CapsuleOf
<1>5. masks \in Seq(Captured(original))
    BY <1>2, <1>3, <1>4, MasksCaptured
<1>6. foreign' = foreign \ Covered(masks)
    BY <1>1 DEF Covered
<1> HIDE DEF masks
<1>7. ImageBytes \in Nat
    BY PhaseAssumption
<1>8. ASSUME NEW u \in 0 .. ImageBytes - 1
      PROVE  bytes[u + 1] = IF u \in Covered(masks) THEN original[u] ELSE image[u]
  <2>1. ReadsByte(u, u + 1, 0, ImageBytes)
    BY <1>7 DEF ReadsByte
  <2>2. ShowsByte(bytes[u + 1], u, masks, original, image)
    BY <1>5, <2>1, MaskedByte
  <2> HIDE DEF bytes
  <2> QED BY <2>2 DEF ShowsByte
<1> HIDE DEF bytes
<1>9. ASSUME NEW u \in 0 .. ImageBytes - 1, u \notin foreign'
      PROVE  image'[u] = original[u]
  <2>1. image'[u] = IF u \in Covered(masks) THEN original[u] ELSE image[u]
    BY <1>1, <1>8
  <2>2. CASE u \in Covered(masks)
    BY <2>1, <2>2
  <2>3. CASE u \notin Covered(masks)
    <3>1. u \notin foreign
        BY <1>6, <1>9, <2>3
    <3>2. image[u] = original[u]
        BY <1>2, <1>4, <2>3, <3>1 DEF ChangesMasked
    <3> QED BY <2>1, <2>3, <3>2
  <2> QED BY <2>2, <2>3
<1>10. RestoreUndoesEveryPhase'
    BY <1>1, <1>9 DEF RestoreUndoesEveryPhase
<1>11. DOMAIN image' = 0 .. ImageBytes - 1
    BY <1>1
<1>12. foreign' \subseteq 0 .. ImageBytes - 1
    BY <1>6 DEF PhaseInv
<1>13. QED
    BY <1>1, <1>2, <1>10, <1>11, <1>12 DEF PhaseInv

LEMMA PhaseStep ==
    PhaseInv /\ [Next]_vars => PhaseInv'
<1> SUFFICES ASSUME PhaseInv, [Next]_vars PROVE PhaseInv'
    OBVIOUS
<1>1. CASE Prepare
    BY <1>1, PreparePlans
<1>2. CASE state = "prepared" /\ \E g \in NextGroup : WriteByte(g[1], g[2])
    BY <1>2, GroupWrites
<1>3. CASE RecordPhase
    BY <1>3, RecordKeeps
<1>4. CASE \E unit \in 0 .. ImageBytes - 1, value \in Values : ForeignWrite(unit, value)
    BY <1>4, ForeignKeeps
<1>5. CASE \E policy \in Policies : Restore(policy)
    BY <1>5, RestoreUndoes
<1>6. CASE UNCHANGED vars
  <2>1. UNCHANGED <<original, job, prepared, capsule, image, state, cell, foreign>>
    BY <1>6 DEF vars
  <2>2. UNCHANGED phase
    BY <2>1 DEF phase
  <2>3. ChangesMasked' <=> ChangesMasked
    BY <2>1, <2>2 DEF ChangesMasked
  <2>4. RestoreUndoesEveryPhase'
    BY <2>1 DEF PhaseInv, RestoreUndoesEveryPhase
  <2> QED BY <2>1, <2>3, <2>4 DEF PhaseInv
<1>7. CASE Settled
    BY <1>6, <1>7 DEF Settled
<1>8. QED
    BY <1>1, <1>2, <1>3, <1>4, <1>5, <1>6, <1>7 DEF Next

(* rollback after a restart that knows only the capsule: for every original *)
(* image, every job that is prepared, every cut between two bytes of any    *)
(* group and every policy under which the restart succeeds, each byte that  *)
(* nobody else has written since is again the original's.                   *)
THEOREM RestoreBringsTheOriginalBack ==
    Spec => []RestoreUndoesEveryPhase
<1>1. PhaseInv => RestoreUndoesEveryPhase
    BY DEF PhaseInv
<1>2. QED
    BY <1>1, PhaseInit, PhaseStep, PTL DEF Spec

-----------------------------------------------------------------------------
LEMMA MasksShow ==
    PhaseInv => MaskShowsTheOriginal
<1> SUFFICES ASSUME PhaseInv, state = "prepared", NEW chunk \in Chunks
             PROVE  LET masks == RollbackWrites(prepared, phase) IN
                    /\ MasksAccepted(masks)
                    /\ DigestSourceView(image, masks, chunk) = ReadBase(original, 0, ImageBytes)
                          <=> Changed \subseteq UNION {Cells(Extents(m)) : m \in ToSet(masks)}
    BY DEF MaskShowsTheOriginal
<1> DEFINE masks == RollbackWrites(prepared, phase)
           seen == DigestSourceView(image, masks, chunk)
           known == ReadBase(original, 0, ImageBytes)
<1>1. /\ SoundPlan(prepared, original) /\ CapsuleOf(prepared, capsule) /\ ChangesMasked
      /\ foreign \subseteq 0 .. ImageBytes - 1
    BY DEF PhaseInv
<1>2. phase \in PhaseNames
    BY <1>1, CapsuleFacts DEF phase
<1>3. GoodMasks(masks, original)
    BY <1>1, <1>2, PlanMasks
<1>4. MasksAccepted(masks)
    BY <1>3 DEF GoodMasks
<1>5. ImageBytes \in Nat /\ chunk \in Nat \ {0}
    BY PhaseAssumption
<1>6. \A u \in 0 .. ImageBytes - 1 :
         seen[u + 1] = IF u \in Covered(masks) THEN original[u] ELSE image[u]
    BY <1>3, <1>5, DigestByte
<1>7. seen = [i \in 1 .. ImageBytes |-> seen[i]]
  <2> HIDE DEF masks
  <2> QED BY DEF DigestSourceView, InChunks
<1>8. ASSUME NEW u \in 0 .. ImageBytes - 1 PROVE known[u + 1] = original[u]
  <2>1. u + 1 \in 1 .. ImageBytes
    BY <1>5
  <2>2. known[u + 1] = original[0 + (u + 1) - 1]
    BY <1>5, <2>1, ReadLength
  <2>3. 0 + (u + 1) - 1 = u
    BY <1>5
  <2> QED BY <2>2, <2>3
<1>9. known = [i \in 1 .. ImageBytes |-> known[i]]
    BY DEF ReadBase
<1>10. Covered(masks) = UNION {Cells(Extents(m)) : m \in ToSet(masks)}
    BY DEF Covered
<1>11. \A u \in 0 .. ImageBytes - 1 :
          u \notin foreign /\ u \notin Covered(masks) => image[u] = original[u]
    BY <1>1 DEF ChangesMasked
<1> HIDE DEF masks, seen, known
<1>12. ASSUME seen = known, NEW u \in Changed PROVE u \in Covered(masks)
  <2>1. u \in foreign /\ u \in 0 .. ImageBytes - 1 /\ image[u] # original[u]
    BY <1>1 DEF Changed
  <2> QED BY <1>6, <1>8, <1>12, <2>1
<1>13. ASSUME Changed \subseteq Covered(masks) PROVE seen = known
  <2>1. ASSUME NEW i \in 1 .. ImageBytes PROVE seen[i] = known[i]
    <3> DEFINE u == i - 1
    <3>1. u \in 0 .. ImageBytes - 1 /\ i = u + 1
        BY <1>5
    <3> HIDE DEF u
    <3>2. u \notin Covered(masks) => image[u] = original[u]
        BY <1>11, <1>13, <3>1 DEF Changed
    <3>3. seen[u + 1] = IF u \in Covered(masks) THEN original[u] ELSE image[u]
        BY <1>6, <3>1
    <3>4. known[u + 1] = original[u]
        BY <1>8, <3>1
    <3> QED BY <3>1, <3>2, <3>3, <3>4
  <2> QED BY <1>7, <1>9, <2>1
<1>14. QED
    BY <1>4, <1>10, <1>12, <1>13 DEF masks, seen, known

(* observe_source_view: at every checkpoint and for every chunk size, the   *)
(* image seen through the masks of the checkpoint digests to the original   *)
(* exactly when nobody else has changed a byte outside of them.             *)
THEOREM MasksAlwaysShowTheOriginal ==
    Spec => []MaskShowsTheOriginal
BY MasksShow, PhaseInit, PhaseStep, PTL DEF Spec

-----------------------------------------------------------------------------
(* Writes whose neighbours are apart when they are sorted share no byte.    *)
NoneMeet(seq) ==
    \A i, k \in 1 .. Len(seq) :
        i # k => Cells(Extents(seq[i])) \cap Cells(Extents(seq[k])) = {}

LEMMA ApartWrites ==
    ASSUME NEW S, \A w \in S : IsWrite(w), NEW seq \in Seq(S), Apart(OrderedWrites(seq))
    PROVE  NoneMeet(seq)
<1> DEFINE n == Len(seq)
           m == OrderedWrites(seq)
           offset == [i \in DOMAIN seq |-> seq[i].offset]
           keys == [i \in DOMAIN seq |-> <<seq[i].offset>>]
<1>1. m = Arranged(seq, keys)
    BY DEF OrderedWrites, SortedBy, SortedOn, Extents, ByteRange
<1>2. /\ n \in Nat /\ DOMAIN seq = 1 .. n
      /\ \A i \in 1 .. n : seq[i] \in S /\ seq[i].offset \in Nat /\ Len(seq[i].bytes) \in Nat
    BY DEF IsWrite
<1>3. \A i \in DOMAIN seq : <<seq[i].offset>> \in [1 .. 1 -> Int]
    BY <1>2
<1>4. offset \in [DOMAIN seq -> Int] /\ keys \in [DOMAIN seq -> [1 .. 1 -> Int]]
      /\ \A i \in DOMAIN seq : keys[i] = <<offset[i]>>
    BY <1>2, <1>3
<1>5. \A i \in DOMAIN seq : offset[i] = seq[i].offset
    OBVIOUS
<1> HIDE DEF offset, keys, m
<1>6. \E at : SortsBy(seq, m, offset, at)
    BY <1>1, <1>4, SortedByOffset
<1>7. PICK at : SortsBy(seq, m, offset, at)
    BY <1>6
<1>8. /\ Picks(n, 1 .. n, at) /\ m = [k \in 1 .. n |-> seq[at[k]]] /\ Len(m) = n
      /\ \A k, l \in 1 .. n : k < l => offset[at[k]] <= offset[at[l]]
    BY <1>2, <1>7 DEF SortsBy
<1>9. \A k \in 1 .. n : at[k] \in 1 .. n /\ m[k] = seq[at[k]]
    BY <1>8 DEF Picks
<1>10. \A k, l \in 1 .. n : k < l => m[k].offset <= m[l].offset
    BY <1>2, <1>5, <1>8, <1>9
<1>11. \A k \in 1 .. n - 1 : m[k].offset + Len(m[k].bytes) <= m[k + 1].offset
  <2>1. Apart(m)
    BY DEF m
  <2> QED BY <1>8, <2>1 DEF Apart, NeighboursApart, End, Extents, ByteRange
<1>12. \A k \in 1 .. n : /\ m[k].offset \in Nat /\ Len(m[k].bytes) \in Nat
                         /\ Cells(Extents(m[k])) = m[k].offset .. m[k].offset + Len(m[k].bytes) - 1
    BY <1>2, <1>9, WriteCells
<1>13. ASSUME NEW k \in 1 .. n, NEW l \in 1 .. n, k < l
       PROVE  Cells(Extents(m[k])) \cap Cells(Extents(m[l])) = {}
  <2>1. k \in 1 .. n - 1 /\ k + 1 \in 1 .. n
    BY <1>2, <1>13
  <2>2. m[k + 1].offset <= m[l].offset
    <3>1. k + 1 = l \/ k + 1 < l
        BY <1>13
    <3> QED BY <1>10, <1>12, <2>1, <3>1
  <2> DEFINE a == m[k].offset  b == Len(m[k].bytes)  c == m[k + 1].offset
             d == m[l].offset  e == Len(m[l].bytes)
  <2>3. a + b <= c /\ c <= d
    BY <1>11, <2>1, <2>2
  <2>4. a \in Nat /\ b \in Nat /\ c \in Nat /\ d \in Nat /\ e \in Nat
    BY <1>12, <2>1
  <2>5. Cells(Extents(m[k])) = a .. a + b - 1 /\ Cells(Extents(m[l])) = d .. d + e - 1
    BY <1>12
  <2> HIDE DEF a, b, c, d, e
  <2>6. (a .. a + b - 1) \cap (d .. d + e - 1) = {}
    BY <2>3, <2>4
  <2> QED BY <2>5, <2>6
<1>14. ASSUME NEW i \in 1 .. n, NEW j \in 1 .. n, i # j
       PROVE  Cells(Extents(seq[i])) \cap Cells(Extents(seq[j])) = {}
  <2>1. PICK k \in 1 .. n : at[k] = i
    BY <1>8 DEF Picks
  <2>2. PICK l \in 1 .. n : at[l] = j
    BY <1>8 DEF Picks
  <2>3. k < l \/ l < k
    BY <1>14, <2>1, <2>2
  <2>4. m[k] = seq[i] /\ m[l] = seq[j]
    BY <1>9, <2>1, <2>2
  <2> QED BY <1>13, <2>3, <2>4
<1>15. QED
    BY <1>14 DEF NoneMeet

LEMMA PartsApart ==
    ASSUME NEW S, NEW a \in Seq(S), NEW b \in Seq(S), NoneMeet(a \o b)
    PROVE  Covered(a) \cap Covered(b) = {}
<1> DEFINE c == a \o b
<1>1. /\ DOMAIN a = 1 .. Len(a) /\ DOMAIN b = 1 .. Len(b) /\ Len(c) = Len(a) + Len(b)
      /\ Len(a) \in Nat /\ Len(b) \in Nat
      /\ \A i \in 1 .. Len(a) : c[i] = a[i]
      /\ \A i \in 1 .. Len(b) : c[Len(a) + i] = b[i]
    OBVIOUS
<1>2. NoneMeet(c)
    OBVIOUS
<1> HIDE DEF c
<1>3. ASSUME NEW i \in 1 .. Len(a), NEW k \in 1 .. Len(b)
      PROVE  Cells(Extents(a[i])) \cap Cells(Extents(b[k])) = {}
  <2>1. i \in 1 .. Len(c) /\ Len(a) + k \in 1 .. Len(c) /\ i # Len(a) + k
    BY <1>1
  <2> QED BY <1>1, <1>2, <2>1 DEF NoneMeet
<1>4. QED
    BY <1>1, <1>3 DEF Covered, ToSet

(* Two writes that share a byte are the same.                               *)
LEMMA SameWrite ==
    ASSUME NEW S, NEW seq \in Seq(S), NoneMeet(seq), NEW v \in ToSet(seq), NEW w \in ToSet(seq),
           NEW u, u \in Cells(Extents(v)), u \in Cells(Extents(w))
    PROVE  v = w
<1>1. DOMAIN seq = 1 .. Len(seq)
    OBVIOUS
<1>2. PICK i \in 1 .. Len(seq) : v = seq[i]
    BY <1>1 DEF ToSet
<1>3. PICK k \in 1 .. Len(seq) : w = seq[k]
    BY <1>1 DEF ToSet
<1>4. i = k
    BY <1>2, <1>3 DEF NoneMeet
<1>5. QED
    BY <1>2, <1>3, <1>4

(* Sorting leaves a sequence that is in order as it is.                     *)
LEMMA SortedStays ==
    ASSUME NEW S, \A w \in S : IsWrite(w), NEW seq \in Seq(S),
           \A k, l \in 1 .. Len(seq) : k < l => seq[k].offset < seq[l].offset
    PROVE  OrderedWrites(seq) = seq
<1> DEFINE n == Len(seq)
           m == OrderedWrites(seq)
           offset == [i \in DOMAIN seq |-> seq[i].offset]
           keys == [i \in DOMAIN seq |-> <<seq[i].offset>>]
<1>1. m = Arranged(seq, keys)
    BY DEF OrderedWrites, SortedBy, SortedOn, Extents, ByteRange
<1>2. /\ n \in Nat /\ DOMAIN seq = 1 .. n /\ seq = [i \in 1 .. n |-> seq[i]]
      /\ \A i \in 1 .. n : seq[i].offset \in Nat
    BY DEF IsWrite
<1>3. \A i \in DOMAIN seq : <<seq[i].offset>> \in [1 .. 1 -> Int]
    BY <1>2
<1>4. offset \in [DOMAIN seq -> Int] /\ keys \in [DOMAIN seq -> [1 .. 1 -> Int]]
      /\ \A i \in DOMAIN seq : keys[i] = <<offset[i]>>
    BY <1>2, <1>3
<1>5. \A i \in DOMAIN seq : offset[i] = seq[i].offset
    OBVIOUS
<1> HIDE DEF offset, keys, m
<1>6. \E at : SortsBy(seq, m, offset, at)
    BY <1>1, <1>4, SortedByOffset
<1>7. PICK at : SortsBy(seq, m, offset, at)
    BY <1>6
<1>8. /\ Picks(n, 1 .. n, at) /\ m = [k \in 1 .. n |-> seq[at[k]]]
      /\ \A k, l \in 1 .. n : k < l => offset[at[k]] <= offset[at[l]]
    BY <1>2, <1>7 DEF SortsBy
<1>9. /\ \A k \in 1 .. n : at[k] \in 1 .. n
      /\ \A i \in 1 .. n : \E k \in 1 .. n : at[k] = i
      /\ \A k, l \in 1 .. n : k # l => at[k] # at[l]
    BY <1>8 DEF Picks
<1>10. ASSUME NEW k \in 1 .. n, NEW l \in 1 .. n, k < l PROVE at[k] < at[l]
  <2>1. at[k] \in 1 .. n /\ at[l] \in 1 .. n /\ at[k] # at[l]
    BY <1>9, <1>10
  <2>2. ASSUME at[l] < at[k] PROVE FALSE
    <3>1. seq[at[l]].offset < seq[at[k]].offset
        BY <2>1, <2>2
    <3>2. offset[at[k]] <= offset[at[l]]
        BY <1>8, <1>10
    <3> QED BY <1>2, <1>5, <2>1, <3>1, <3>2
  <2> QED BY <2>1, <2>2
<1>11. \A k \in 1 .. n : at[k] = k
  <2> DEFINE T == {k \in 1 .. n : at[k] # k}
  <2>1. SUFFICES ASSUME T # {} PROVE FALSE
    OBVIOUS
  <2>2. T \in SUBSET Nat
    BY <1>2
  <2>3. PICK x \in T : \A y \in T : x <= y
    BY <2>1, <2>2, Smallest
  <2>4. x \in 1 .. n /\ at[x] # x /\ \A y \in 1 .. n : y < x => at[y] = y
    BY <2>3
  <2>5. PICK l \in 1 .. n : at[l] = x
    BY <1>9, <2>4
  <2>6. l > x
    BY <2>4, <2>5
  <2>7. at[x] < x
    BY <1>10, <2>4, <2>5, <2>6
  <2>8. at[x] \in 1 .. n /\ at[at[x]] = at[x]
    BY <1>9, <2>4, <2>7
  <2> QED BY <1>9, <2>4, <2>7, <2>8
<1>12. m = seq
    BY <1>2, <1>8, <1>11
<1>13. QED
    BY <1>12 DEF m

-----------------------------------------------------------------------------
(* The groups of a job.                                                     *)
Finals(j) == ToSet(j.staging) \cup {j.backup, j.activation}

(* A group as it is carried out: in order, apart, inside the image.         *)
GroupReady(after, j) ==
    /\ after \in Seq(WriteSet) /\ after # <<>>
    /\ MasksAccepted(after) /\ OrderedWrites(after) = after
    /\ ToSet(after) \subseteq Finals(j)

LEMMA WriteHasBytes ==
    \A w \in WriteSet : HasBytes(w)
<1>1. \A w \in WriteSet : w.bytes \in Seq(Nat)
    BY DEF WriteSet
<1>2. \A b \in Seq(Nat) : Len(b) = 0 => b = <<>>
    OBVIOUS
<1>3. QED
    BY <1>1, <1>2, WriteSetFacts DEF HasBytes

LEMMA ManyReady ==
    ASSUME NEW j, NEW seq \in Seq(WriteSet), seq # <<>>, CaptureAccepted(seq),
           ToSet(seq) \subseteq Finals(j)
    PROVE  GroupReady(OrderedWrites(seq), j)
<1> DEFINE m == OrderedWrites(seq)
           n == Len(m)
<1>1. /\ m \in Seq(WriteSet) /\ n = Len(seq) /\ ToSet(m) = ToSet(seq) /\ MasksAccepted(m)
      /\ \A k, l \in 1 .. n : k < l => m[k].offset <= m[l].offset
    BY WriteHasBytes, AcceptedOrder
<1> HIDE DEF m
<1>2. n # 0 /\ n \in Nat /\ m # <<>>
    BY <1>1
<1>3. \A k \in 1 .. n : m[k].offset \in Nat
    BY <1>1, WriteSetFacts DEF IsWrite
<1>4. \A k \in 1 .. n - 1 : m[k].offset < m[k + 1].offset
    BY <1>1 DEF MasksAccepted
<1>5. ASSUME NEW k \in 1 .. n, NEW l \in 1 .. n, k < l PROVE m[k].offset < m[l].offset
  <2>1. k \in 1 .. n - 1 /\ k + 1 \in 1 .. n /\ (k + 1 = l \/ k + 1 < l)
    BY <1>2, <1>5
  <2>2. m[k + 1].offset <= m[l].offset
    BY <1>1, <1>3, <2>1
  <2> QED BY <1>3, <1>4, <2>1, <2>2
<1>6. OrderedWrites(m) = m
    BY <1>1, <1>5, WriteSetFacts, SortedStays
<1>7. QED
    BY <1>1, <1>2, <1>6 DEF GroupReady, m

LEMMA OneReady ==
    ASSUME NEW j, NEW w \in WriteSet, CaptureAccepted(<<w>>), w \in Finals(j)
    PROVE  GroupReady(<<w>>, j)
<1> DEFINE seq == <<w>>
<1>1. seq \in Seq(WriteSet) /\ seq # <<>> /\ Len(seq) = 1 /\ ToSet(seq) = {w}
    BY DEF ToSet
<1>2. CaptureAccepted(seq)
    OBVIOUS
<1> HIDE DEF seq
<1>3. \A k, l \in 1 .. Len(seq) : ~ (k < l)
    BY <1>1
<1>4. OrderedWrites(seq) = seq
    BY <1>1, <1>3, WriteSetFacts, SortedStays
<1>5. MasksAccepted(seq)
    BY <1>1, <1>2, <1>4 DEF CaptureAccepted, MasksAccepted
<1>6. GroupReady(seq, j)
    BY <1>1, <1>4, <1>5 DEF GroupReady
<1>7. QED
    BY <1>6 DEF seq

LEMMA GroupsReady ==
    ASSUME NEW j \in Jobs, Authorized(j), NEW g \in ToSet(Groups)
    PROVE  GroupReady(After(j, g), j)
<1>1. j.staging \in Seq(WriteSet) /\ j.backup \in WriteSet /\ j.activation \in WriteSet
    BY PhaseAssumption
<1>2. /\ j.staging # <<>> /\ CaptureAccepted(j.staging)
      /\ CaptureAccepted(<<j.backup>>) /\ CaptureAccepted(<<j.activation>>)
    BY DEF Authorized, PhaseWritesAccepted
<1>3. g = "staging" \/ g = "backup" \/ g = "activation"
    BY DEF Groups, ToSet
<1>4. CASE g = "staging"
  <2>1. After(j, g) = OrderedWrites(j.staging)
    BY <1>4 DEF After
  <2>2. ToSet(j.staging) \subseteq Finals(j)
    BY DEF Finals
  <2> QED BY <1>1, <1>2, <2>1, <2>2, ManyReady
<1>5. CASE g = "backup"
  <2>1. After(j, g) = <<j.backup>> /\ j.backup \in Finals(j)
    BY <1>5 DEF After, Finals
  <2> QED BY <1>1, <1>2, <2>1, OneReady
<1>6. CASE g = "activation"
  <2>1. After(j, g) = <<j.activation>> /\ j.activation \in Finals(j)
    BY <1>6 DEF After, Finals
  <2> QED BY <1>1, <1>2, <2>1, OneReady
<1>7. QED
    BY <1>3, <1>4, <1>5, <1>6

(* capture_before_images of a group that is ready.                          *)
LEMMA BeforeGroup ==
    ASSUME NEW o, NEW j, NEW after, GroupReady(after, j), NEW chunk \in Nat \ {0}
    PROVE  BeforeImages(o, after, chunk)
              = [i \in 1 .. Len(after) |-> Shown(o, after[i].offset, Len(after[i].bytes))]
<1> DEFINE n == Len(after)
           Read(i) == InChunks(LAMBDA a, k : ReadBase(o, a, k),
                               after[i].offset, Len(after[i].bytes), chunk)
<1>1. n \in Nat /\ DOMAIN after = 1 .. n
      /\ \A i \in 1 .. n : after[i].offset \in Nat /\ Len(after[i].bytes) \in Nat
    BY WriteSetFacts DEF GroupReady, IsWrite
<1>2. BeforeImages(o, after, chunk)
         = [i \in 1 .. n |-> [offset |-> after[i].offset, bytes |-> Read(i)]]
  <2>1. OrderedWrites(after) = after
    BY DEF GroupReady
  <2> QED BY <1>1, <2>1 DEF BeforeImages
<1>3. ASSUME NEW i \in 1 .. n
      PROVE  Read(i) = ReadBase(o, after[i].offset, Len(after[i].bytes))
    BY <1>1, ChunkedRead
<1> HIDE DEF Read
<1>4. \A i \in 1 .. n : [offset |-> after[i].offset, bytes |-> Read(i)]
                           = Shown(o, after[i].offset, Len(after[i].bytes))
    BY <1>3 DEF Shown
<1>5. QED
    BY <1>2, <1>4

LEMMA GroupIsValid ==
    ASSUME NEW o, NEW j, NEW after, GroupReady(after, j), NEW before,
           before = [i \in 1 .. Len(after) |-> Shown(o, after[i].offset, Len(after[i].bytes))]
    PROVE  ValidGroup(before, after)
<1> DEFINE n == Len(after)
<1>1. /\ n \in Nat /\ n # 0 /\ DOMAIN after = 1 .. n
      /\ \A i \in 1 .. n : after[i].offset \in Nat /\ Len(after[i].bytes) \in Nat
                           /\ after[i] \in WriteSet /\ after[i] \in ToSet(after)
    BY WriteSetFacts DEF GroupReady, IsWrite, ToSet
<1>2. \A i \in 1 .. n : /\ before[i].offset = after[i].offset
                        /\ before[i].bytes = ReadBase(o, after[i].offset, Len(after[i].bytes))
    BY DEF Shown
<1>3. \A i \in 1 .. n : Len(before[i].bytes) = Len(after[i].bytes)
    BY <1>1, <1>2, ReadLength
<1>4. before \in Seq(Captured(o)) /\ Len(before) = n /\ DOMAIN before = 1 .. n
  <2>1. ASSUME NEW i \in 1 .. n PROVE before[i] \in Captured(o)
    <3> DEFINE p == <<after[i].offset, Len(after[i].bytes)>>
    <3>1. p \in Nat \X Nat /\ p[1] = after[i].offset /\ p[2] = Len(after[i].bytes)
        BY <1>1
    <3>2. before[i] = Shown(o, p[1], p[2])
        BY <3>1
    <3> HIDE DEF p
    <3> QED BY <3>1, <3>2 DEF Captured
  <2>2. before \in [1 .. n -> Captured(o)]
    BY <2>1
  <2> QED BY <1>1, <2>2
<1>5. \A i \in 1 .. n : Extents(before[i]) = Extents(after[i])
    BY <1>2, <1>3 DEF Extents
<1>6. TotalBytes(before) = TotalBytes(after)
  <2>1. [i \in DOMAIN before |-> Len(before[i].bytes)] = [i \in DOMAIN after |-> Len(after[i].bytes)]
    BY <1>1, <1>3, <1>4
  <2> QED BY <2>1 DEF TotalBytes, SumOf
<1>7. MasksAccepted(after)
    BY DEF GroupReady
<1>8. ASSUME NEW i \in 1 .. n PROVE Inside(before[i])
  <2>1. Inside(after[i])
    BY <1>1, <1>7 DEF MasksAccepted
  <2>2. Len(after[i].bytes) # 0
    <3>1. after[i].bytes # <<>>
        BY <2>1 DEF Inside
    <3> QED BY <1>1, <3>1, WriteHasBytes DEF HasBytes
  <2>3. before[i].bytes # <<>>
    <3>1. Len(<<>>) = 0
        OBVIOUS
    <3> QED BY <1>3, <2>2, <3>1
  <2> QED BY <1>5, <2>1, <2>3 DEF Inside
<1> HIDE DEF n
<1>9. \A w \in ToSet(before) : Inside(w)
    BY <1>4, <1>8 DEF ToSet
<1>10. \A i \in 1 .. n - 1 : before[i].offset < before[i + 1].offset
  <2>1. \A i \in 1 .. n - 1 : after[i].offset < after[i + 1].offset
    BY <1>7 DEF MasksAccepted, n
  <2>2. \A i \in 1 .. n - 1 : i \in 1 .. n /\ i + 1 \in 1 .. n
    BY <1>1
  <2> QED BY <1>2, <2>1, <2>2
<1>11. \A i \in 1 .. n - 1 : End(Extents(before[i])) <= Extents(before[i + 1]).offset
  <2>1. \A i \in 1 .. n - 1 : End(Extents(after[i])) <= Extents(after[i + 1]).offset
    BY <1>7 DEF MasksAccepted, Apart, NeighboursApart, n
  <2>2. \A i \in 1 .. n - 1 : i \in 1 .. n /\ i + 1 \in 1 .. n
    BY <1>1
  <2> QED BY <1>5, <2>1, <2>2
<1>12. Apart(before)
    BY <1>4, <1>11 DEF Apart, NeighboursApart
<1>13. MasksAccepted(before)
  <2>1. n <= MaxWrites /\ TotalBytes(after) <= MaxBytes
    BY <1>7 DEF MasksAccepted, n
  <2> QED BY <1>4, <1>6, <1>9, <1>10, <1>12, <2>1 DEF MasksAccepted
<1>14. before # <<>>
    BY <1>1, <1>4
<1>15. QED
    BY <1>4, <1>5, <1>7, <1>13, <1>14 DEF ValidGroup, n

(* classify_write_group, in terms of the bytes.                             *)
AllBefore(contents, o, after) ==
    \A i \in 1 .. Len(after) :
        ReadBase(contents, after[i].offset, Len(after[i].bytes))
            = ReadBase(o, after[i].offset, Len(after[i].bytes))
AllAfter(contents, after) ==
    \A i \in 1 .. Len(after) :
        ReadBase(contents, after[i].offset, Len(after[i].bytes)) = after[i].bytes
AllKnown(contents, o, after) ==
    \A i \in 1 .. Len(after) : \A k \in 1 .. Len(after[i].bytes) :
        contents[after[i].offset + k - 1]
            \in {o[after[i].offset + k - 1], after[i].bytes[k]}

LEMMA Classified ==
    ASSUME NEW contents, NEW o, NEW j, NEW after, GroupReady(after, j), NEW before,
           before = [i \in 1 .. Len(after) |-> Shown(o, after[i].offset, Len(after[i].bytes))],
           NEW chunk \in Nat \ {0}
    PROVE  ClassifyWriteGroup(contents, before, after, chunk)
              = IF AllBefore(contents, o, after) THEN "before"
                ELSE IF AllAfter(contents, after) THEN "after"
                ELSE IF AllKnown(contents, o, after) THEN "mixed" ELSE "third"
<1> DEFINE n == Len(after)
           seen == [i \in 1 .. n |-> InChunks(LAMBDA a, k : ReadBase(contents, a, k),
                                             before[i].offset, Len(before[i].bytes), chunk)]
           A == \A i \in 1 .. n : seen[i] = before[i].bytes
           B == \A i \in 1 .. n : seen[i] = after[i].bytes
           C == \A i \in 1 .. n : \A k \in DOMAIN seen[i] :
                    seen[i][k] \in {before[i].bytes[k], after[i].bytes[k]}
<1>0. \A a \in Nat, k \in Nat :
         InChunks(LAMBDA x, y : ReadBase(contents, x, y), a, k, chunk) = ReadBase(contents, a, k)
    BY ChunkedRead
<1>1. /\ n \in Nat /\ DOMAIN after = 1 .. n /\ DOMAIN before = 1 .. n
      /\ \A i \in 1 .. n : after[i].offset \in Nat /\ Len(after[i].bytes) \in Nat
    BY WriteSetFacts DEF GroupReady, IsWrite
<1>2. \A i \in 1 .. n : /\ before[i].offset = after[i].offset
                        /\ before[i].bytes = ReadBase(o, after[i].offset, Len(after[i].bytes))
    BY DEF Shown
<1>3. \A i \in 1 .. n : Len(before[i].bytes) = Len(after[i].bytes)
    BY <1>1, <1>2, ReadLength
<1>4. ClassifyWriteGroup(contents, before, after, chunk)
         = IF A THEN "before" ELSE IF B THEN "after" ELSE IF C THEN "mixed" ELSE "third"
    BY <1>1 DEF ClassifyWriteGroup
<1>5. ASSUME NEW i \in 1 .. n
      PROVE  seen[i] = ReadBase(contents, after[i].offset, Len(after[i].bytes))
  <2> DEFINE a == after[i].offset
             k == Len(after[i].bytes)
  <2>1. a \in Nat /\ k \in Nat /\ before[i].offset = a /\ Len(before[i].bytes) = k
    BY <1>1, <1>2, <1>3
  <2> DEFINE read == InChunks(LAMBDA x, y : ReadBase(contents, x, y), a, k, chunk)
  <2>2. seen[i] = read
    BY <2>1
  <2> HIDE DEF a, k, seen
  <2>3. seen[i] = ReadBase(contents, a, k)
    <3>1. read = ReadBase(contents, a, k)
        BY <1>0, <2>1
    <3> HIDE DEF read
    <3> QED BY <2>2, <3>1
  <2> QED BY <2>3 DEF a, k
<1> HIDE DEF seen
<1>6. A <=> AllBefore(contents, o, after)
    BY <1>2, <1>5 DEF AllBefore
<1>7. B <=> AllAfter(contents, after)
    BY <1>5 DEF AllAfter
<1>8. C <=> AllKnown(contents, o, after)
  <2>1. ASSUME NEW i \in 1 .. n
        PROVE  /\ DOMAIN seen[i] = 1 .. Len(after[i].bytes)
               /\ \A k \in 1 .. Len(after[i].bytes) :
                     /\ seen[i][k] = contents[after[i].offset + k - 1]
                     /\ before[i].bytes[k] = o[after[i].offset + k - 1]
    BY <1>1, <1>2, <1>5, ReadLength
  <2> QED BY <2>1 DEF AllKnown
<1> HIDE DEF A, B, C
<1>9. QED
    BY <1>4, <1>6, <1>7, <1>8

-----------------------------------------------------------------------------
(* The groups that a plan holds are those of the job.                       *)
GroupsOf(w, j) ==
    /\ ToSet(Plain(w.staging)) = ToSet(j.staging)
    /\ ToSet(Plain(w.backup)) = {j.backup} /\ ToSet(Plain(w.activation)) = {j.activation}

WritesIn(values) == {v.write : v \in ToSet(values)}

LEMMA PlainSet ==
    ASSUME NEW values \in Seq(KindedSet)
    PROVE  ToSet(Plain(values)) = WritesIn(values)
<1> DEFINE plain == Plain(values)
<1>1. DOMAIN plain = DOMAIN values /\ \A i \in DOMAIN values : plain[i] = values[i].write
    BY DEF Plain
<1> HIDE DEF plain
<1>2. ToSet(plain) = {v.write : v \in ToSet(values)}
    BY <1>1 DEF ToSet
<1>3. QED
    BY <1>2 DEF plain, WritesIn

LEMMA KindedPlain ==
    ASSUME NEW values \in Seq(KindedSet)
    PROVE  ToSet(Plain(SortedOn(values, ReservedWriteKey))) = WritesIn(values)
<1> DEFINE sorted == SortedOn(values, ReservedWriteKey)
<1>1. sorted \in Seq(KindedSet) /\ SameElements(values, sorted)
    BY ReservedSorted
<1> HIDE DEF sorted
<1>2. ToSet(sorted) = ToSet(values)
    BY <1>1, SameCovered
<1>3. QED
    BY <1>1, <1>2, PlainSet DEF sorted, WritesIn

LEMMA PlanGroups ==
    ASSUME NEW j \in Jobs, Authorized(j)
    PROVE  GroupsOf(SortedWrites(PhaseSets(j)), j)
<1> DEFINE w == PhaseSets(j)
           s == SortedWrites(w)
<1>1. w.staging \in Seq(KindedSet) /\ w.backup \in Seq(KindedSet) /\ w.activation \in Seq(KindedSet)
    BY SetsTyped DEF WritesTyped
<1>2. /\ w.staging = [i \in DOMAIN j.staging |-> Kinded(j.staging[i], j.reservations)]
      /\ w.backup = <<Kinded(j.backup, j.reservations)>>
      /\ w.activation = <<Kinded(j.activation, j.reservations)>>
    BY DEF PhaseSets, KindedAll
<1>3. /\ s.staging = SortedOn(w.staging, ReservedWriteKey)
      /\ s.backup = SortedOn(w.backup, ReservedWriteKey)
      /\ s.activation = SortedOn(w.activation, ReservedWriteKey)
    BY DEF SortedWrites
<1>4. \A x : Kinded(x, j.reservations).write = x
    BY DEF Kinded
<1> HIDE DEF w, s
<1>5. WritesIn(w.staging) = ToSet(j.staging)
  <2> DEFINE a == w.staging
             b == j.staging
  <2>1. DOMAIN a = DOMAIN b /\ \A i \in DOMAIN b : a[i].write = b[i]
    BY <1>2, <1>4
  <2> HIDE DEF a, b
  <2>2. {v.write : v \in ToSet(a)} = ToSet(b)
    BY <2>1 DEF ToSet
  <2> QED BY <2>2 DEF a, b, WritesIn
<1>6. ASSUME NEW x PROVE WritesIn(<<Kinded(x, j.reservations)>>) = {x}
  <2> DEFINE e == Kinded(x, j.reservations)
  <2>1. e.write = x
    BY <1>4
  <2> HIDE DEF e
  <2>2. ToSet(<<e>>) = {e}
    BY DEF ToSet
  <2>3. {v.write : v \in {e}} = {x}
    BY <2>1
  <2>4. {v.write : v \in ToSet(<<e>>)} = {x}
    BY <2>2, <2>3
  <2> QED BY <2>4 DEF e, WritesIn
<1>7. ToSet(Plain(s.staging)) = ToSet(j.staging)
    BY <1>1, <1>3, <1>5, KindedPlain
<1>8. ToSet(Plain(s.backup)) = {j.backup}
    BY <1>1, <1>2, <1>3, <1>6, KindedPlain
<1>9. ToSet(Plain(s.activation)) = {j.activation}
    BY <1>1, <1>2, <1>3, <1>6, KindedPlain
<1>10. QED
    BY <1>7, <1>8, <1>9 DEF GroupsOf, s, w

(* No two groups share a byte, and no relocation writes where a group does. *)
LEMMA GroupsApart ==
    ASSUME NEW p, NEW o, SoundPlan(p, o)
    PROVE  LET w == p.state.writes
               finals == FinalWrites(w)
           IN  /\ finals \in Seq(WriteSet) /\ NoneMeet(finals)
               /\ ToSet(finals) = ToSet(Plain(w.staging)) \cup ToSet(Plain(w.backup))
                                  \cup ToSet(Plain(w.activation))
               /\ Covered(p.state.before) \cap Covered(finals) = {}
<1> DEFINE C == Captured(o)
           s == p.state
           b == s.before
           w == s.writes
           l == Plain(w.staging)
           k == Plain(w.backup)
           a == Plain(w.activation)
           x == b \o w.stagingBack
           y == x \o w.backupBack
           z == y \o w.activationBack
           finals == (l \o k) \o a
<1>1. OverlaysAccepted(b, w) /\ b \in Seq(C) /\ WritesTyped(w, o)
    BY DEF SoundPlan
<1>2. ValidState(s)
    BY EncodedIsValid DEF SoundPlan
<1>3. RollbackPaired(w)
    BY <1>2 DEF ValidState
<1>4. FinalWrites(w) = finals
    BY DEF FinalWrites
<1>5. /\ Apart(OrderedWrites(finals)) /\ Apart(OrderedWrites(x)) /\ Apart(OrderedWrites(y))
      /\ Apart(OrderedWrites(z))
    BY <1>1, <1>4 DEF OverlaysAccepted, OverlayAccepted, StagingRollback, PreactivationRollback,
                      FullRollback
<1>6. l \in Seq(WriteSet) /\ k \in Seq(WriteSet) /\ a \in Seq(WriteSet)
    BY <1>1, PlainTyped DEF WritesTyped
<1>7. w.stagingBack \in Seq(C) /\ w.backupBack \in Seq(C) /\ w.activationBack \in Seq(C)
    BY <1>1 DEF WritesTyped
<1>8. \A c \in C : IsWrite(c)
    BY CapturedFacts DEF IsWrite
<1>9. /\ Covered(l) = Covered(w.stagingBack) /\ Covered(k) = Covered(w.backupBack)
      /\ Covered(a) = Covered(w.activationBack)
    BY <1>3, <1>6, <1>7, <1>8, WriteSetFacts, PairedCover, ZenonT(60) DEF RollbackPaired
<1> HIDE DEF C, s, l, k, a
<1>10. x \in Seq(C) /\ y \in Seq(C) /\ z \in Seq(C)
    BY <1>1, <1>7
<1>11. finals \in Seq(WriteSet)
    BY <1>6
<1>12. NoneMeet(x) /\ NoneMeet(y) /\ NoneMeet(z) /\ NoneMeet(finals)
  <2> HIDE DEF x, y, z, finals
  <2> QED BY <1>5, <1>8, <1>10, <1>11, WriteSetFacts, ApartWrites
<1>13. Covered(b) \cap Covered(w.stagingBack) = {}
    BY <1>1, <1>7, <1>12, PartsApart
<1>14. Covered(x) = Covered(b) \cup Covered(w.stagingBack)
    BY <1>1, <1>7, JoinedCovered
<1> HIDE DEF x
<1>15. Covered(x) \cap Covered(w.backupBack) = {}
    BY <1>7, <1>10, <1>12, PartsApart
<1>16. Covered(y) = Covered(x) \cup Covered(w.backupBack)
    BY <1>7, <1>10, JoinedCovered
<1> HIDE DEF y
<1>17. Covered(y) \cap Covered(w.activationBack) = {}
    BY <1>7, <1>10, <1>12, PartsApart
<1> DEFINE lk == l \o k
<1>18. /\ lk \in Seq(WriteSet) /\ Covered(lk) = Covered(l) \cup Covered(k)
       /\ ToSet(lk) = ToSet(l) \cup ToSet(k)
    BY <1>6, JoinedCovered
<1> HIDE DEF lk
<1>19. /\ Covered(lk \o a) = Covered(lk) \cup Covered(a)
       /\ ToSet(lk \o a) = ToSet(lk) \cup ToSet(a)
    BY <1>6, <1>18, JoinedCovered
<1>20. finals = lk \o a
    BY DEF lk
<1> HIDE DEF finals
<1>21. Covered(b) \cap Covered(finals) = {}
    BY <1>9, <1>13, <1>14, <1>15, <1>16, <1>17, <1>18, <1>19, <1>20
<1>22. ToSet(finals) = ToSet(l) \cup ToSet(k) \cup ToSet(a)
    BY <1>18, <1>19, <1>20
<1>23. QED
    BY <1>4, <1>11, <1>12, <1>21, <1>22 DEF l, k, a, s

(* Byte u of the image is byte i of a write.                                *)
ByteOf(u, w, i) == i \in DOMAIN w.bytes /\ u = w.offset + i - 1

LEMMA ByteCell ==
    ASSUME NEW w \in WriteSet, NEW u, NEW i, ByteOf(u, w, i)
    PROVE  /\ u \in Cells(Extents(w)) /\ i = u - w.offset + 1
           /\ DOMAIN w.bytes = 1 .. Len(w.bytes)
<1>1. w.offset \in Nat /\ w.bytes \in Seq(Nat)
    BY DEF WriteSet
<1>2. DOMAIN w.bytes = 1 .. Len(w.bytes) /\ Len(w.bytes) \in Nat
    BY <1>1
<1>3. Cells(Extents(w)) = w.offset .. w.offset + Len(w.bytes) - 1
    BY WriteSetFacts, WriteCells
<1>4. i \in 1 .. Len(w.bytes) /\ u = w.offset + i - 1
    BY <1>2 DEF ByteOf
<1>5. QED
    BY <1>1, <1>2, <1>3, <1>4

(* What a step writes into the place of a final write is that write's byte. *)
LEMMA StepWritesFinal ==
    ASSUME NEW o, SoundPlan(prepared, o), GroupsOf(prepared.state.writes, job),
           NEW g \in NextGroup, NEW w \in Finals(job), NEW i, ByteOf(g[1], w, i)
    PROVE  g[2] = w.bytes[i]
<1> DEFINE s == prepared.state
           finals == FinalWrites(s.writes)
           u == g[1]
<1>1. /\ finals \in Seq(WriteSet) /\ NoneMeet(finals)
      /\ ToSet(finals) = ToSet(Plain(s.writes.staging)) \cup ToSet(Plain(s.writes.backup))
                         \cup ToSet(Plain(s.writes.activation))
      /\ Covered(s.before) \cap Covered(finals) = {}
    BY GroupsApart
<1> HIDE DEF finals
<1>2. w \in ToSet(finals) /\ w \in WriteSet
  <2>1. w \in ToSet(finals)
    BY <1>1 DEF GroupsOf, Finals
  <2> QED BY <1>1, <2>1, ElementsIn
<1>3. u \in Cells(Extents(w)) /\ i = u - w.offset + 1
    BY <1>2, ByteCell
<1>4. u \in Covered(finals)
    BY <1>2, <1>3 DEF Covered
<1>5. CASE phase = "Reserved"
  <2>1. u \in Covered(prepared.overlays.relocation)
    <3>1. u \in Covered(RollbackWrites(prepared, phase))
        BY GroupCovered
    <3>2. RollbackWrites(prepared, phase) = prepared.overlays.relocation
        BY <1>5 DEF RollbackWrites
    <3> QED BY <3>1, <3>2
  <2>2. MasksCover(prepared)
    BY OverlayFacts
  <2>3. u \in Covered(s.before)
    BY <2>1, <2>2 DEF MasksCover
  <2> QED BY <1>1, <1>4, <2>3
<1>6. CASE phase # "Reserved"
  <2>1. \E group \in {s.writes.staging, s.writes.backup, s.writes.activation} :
           g \in Units(Plain(group))
    BY <1>6 DEF NextGroup
  <2>2. PICK group \in {s.writes.staging, s.writes.backup, s.writes.activation} :
           g \in Units(Plain(group))
    BY <2>1
  <2>3. PICK v \in ToSet(Plain(group)) :
           g \in {<<v.offset + k - 1, v.bytes[k]>> : k \in DOMAIN v.bytes}
    BY <2>2 DEF Units
  <2>4. PICK k \in DOMAIN v.bytes : g = <<v.offset + k - 1, v.bytes[k]>>
    BY <2>3
  <2>5. v \in ToSet(finals)
    BY <1>1, <2>2, <2>3
  <2>6. v \in WriteSet
    BY <1>1, <2>5, ElementsIn
  <2>7. u = v.offset + k - 1 /\ g[2] = v.bytes[k]
    BY <2>4
  <2>8. ByteOf(u, v, k)
    BY <2>4, <2>7 DEF ByteOf
  <2> HIDE DEF u
  <2>9. u \in Cells(Extents(v)) /\ k = u - v.offset + 1
    BY <2>6, <2>8, ByteCell
  <2>10. v = w
    BY <1>1, <1>2, <1>3, <2>5, <2>9, SameWrite
  <2> QED BY <1>3, <2>7, <2>9, <2>10
<1>7. QED
    BY <1>5, <1>6

-----------------------------------------------------------------------------
(* What the classification of a group needs besides. A byte that nobody     *)
(* else wrote is the original's before the conversion writes it; afterwards *)
(* it is, in the place of a final write, that write's byte.                 *)
OwnBytes ==
    \A u \in 0 .. ImageBytes - 1 : u \notin foreign =>
        /\ u \notin cell => image[u] = original[u]
        /\ u \in cell => \A w \in Finals(job) : \A i \in DOMAIN w.bytes :
                             ByteOf(u, w, i) => image[u] = w.bytes[i]

GroupInv ==
    /\ state = "planned" => cell = {}
    /\ state = "prepared" => /\ Authorized(job) /\ GroupsOf(prepared.state.writes, job)
                             /\ OwnBytes

LEMMA GroupPrepared ==
    ASSUME PhaseInv, GroupInv, Prepare
    PROVE  GroupInv'
<1> DEFINE d == DraftOf(job, PhaseSets(job), Solved(job))
           answer == IF Authorized(job) THEN Build(d) ELSE Refused("gap")
<1>1. /\ original \in Originals /\ job \in Jobs /\ image = original /\ cell = {}
      /\ UNCHANGED <<original, job, image, cell, foreign>>
    BY DEF PhaseInv, GroupInv, Prepare
<1>2. \/ answer.error = "none" /\ state' = "prepared" /\ prepared' = answer.plan
      \/ state' = "refused"
    BY DEF Prepare
<1>3. CASE state' = "refused"
    BY <1>3 DEF GroupInv
<1>4. CASE answer.error = "none" /\ state' = "prepared" /\ prepared' = answer.plan
  <2>1. Refused("gap").error # "none"
    BY DEF Refused
  <2>2. Authorized(job) /\ answer = Build(d)
    <3> HIDE DEF d
    <3> QED BY <1>4, <2>1
  <2>3. prepared'.state.writes = SortedWrites(PhaseSets(job))
    <3>1. Build(d).error = "none" /\ prepared' = Build(d).plan
        BY <1>4, <2>2
    <3>2. d.writes = PhaseSets(job)
        BY DEF DraftOf
    <3> HIDE DEF d, answer
    <3>3. Build(d).plan.state.writes = SortedWrites(d.writes)
        BY <3>1, BuiltPlan
    <3> QED BY <3>1, <3>2, <3>3
  <2>4. GroupsOf(prepared'.state.writes, job)
    BY <1>1, <2>2, <2>3, PlanGroups
  <2>5. OwnBytes'
    BY <1>1 DEF OwnBytes
  <2>6. Authorized(job)'
    BY <1>1, <2>2
  <2>7. GroupsOf(prepared.state.writes, job)'
    BY <1>1, <2>4
  <2> QED BY <1>4, <2>5, <2>6, <2>7 DEF GroupInv
<1>5. QED
    BY <1>2, <1>3, <1>4

LEMMA GroupWritten ==
    ASSUME PhaseInv, GroupInv, state = "prepared", NEW g \in NextGroup, WriteByte(g[1], g[2])
    PROVE  GroupInv'
<1>1. /\ UNCHANGED <<original, job, prepared, capsule, state>>
      /\ image' = [image EXCEPT ![g[1]] = g[2]] /\ foreign' = foreign \ {g[1]}
      /\ cell' = cell \cup {g[1]}
    BY DEF WriteByte
<1>2. /\ SoundPlan(prepared, original) /\ DOMAIN image = 0 .. ImageBytes - 1
      /\ GroupsOf(prepared.state.writes, job) /\ OwnBytes /\ Authorized(job)
    BY DEF PhaseInv, GroupInv
<1>3. ASSUME NEW u \in 0 .. ImageBytes - 1, u \notin foreign'
      PROVE  /\ u \notin cell' => image'[u] = original[u]
             /\ u \in cell' => \A w \in Finals(job) : \A i \in DOMAIN w.bytes :
                                   ByteOf(u, w, i) => image'[u] = w.bytes[i]
  <2>1. CASE u = g[1]
    <3>1. image'[u] = g[2] /\ u \in cell'
        BY <1>1, <1>2, <2>1
    <3>2. \A w \in Finals(job) : \A i : ByteOf(g[1], w, i) => g[2] = w.bytes[i]
        BY <1>2, StepWritesFinal
    <3> QED BY <2>1, <3>1, <3>2
  <2>2. CASE u # g[1]
    <3>1. image'[u] = image[u] /\ u \notin foreign /\ (u \in cell' <=> u \in cell)
        BY <1>1, <1>2, <1>3, <2>2
    <3> QED BY <1>2, <3>1 DEF OwnBytes
  <2> QED BY <2>1, <2>2
<1>4. OwnBytes'
    BY <1>1, <1>3 DEF OwnBytes
<1>5. Authorized(job)' /\ GroupsOf(prepared.state.writes, job)'
    BY <1>1, <1>2
<1>6. QED
    BY <1>1, <1>4, <1>5 DEF GroupInv

LEMMA GroupForeign ==
    ASSUME PhaseInv, GroupInv, NEW unit \in 0 .. ImageBytes - 1, NEW value,
           ForeignWrite(unit, value)
    PROVE  GroupInv'
<1>1. /\ state = "prepared" /\ UNCHANGED <<original, job, prepared, capsule, state, cell>>
      /\ image' = [image EXCEPT ![unit] = value] /\ foreign' = foreign \cup {unit}
    BY DEF ForeignWrite
<1>2. /\ DOMAIN image = 0 .. ImageBytes - 1
      /\ GroupsOf(prepared.state.writes, job) /\ OwnBytes /\ Authorized(job)
    BY <1>1 DEF PhaseInv, GroupInv
<1>3. \A u \in 0 .. ImageBytes - 1 : u \notin foreign' => image'[u] = image[u] /\ u \notin foreign
    BY <1>1, <1>2
<1>4. OwnBytes'
    BY <1>1, <1>2, <1>3 DEF OwnBytes
<1>5. Authorized(job)' /\ GroupsOf(prepared.state.writes, job)'
    BY <1>1, <1>2
<1>6. QED
    BY <1>1, <1>4, <1>5 DEF GroupInv

LEMMA GroupSame ==
    ASSUME GroupInv, UNCHANGED <<original, job, prepared, image, state, cell, foreign>>
    PROVE  GroupInv'
<1>1. OwnBytes => OwnBytes'
    BY DEF OwnBytes
<1>2. GroupsOf(prepared.state.writes, job) => GroupsOf(prepared.state.writes, job)'
    OBVIOUS
<1>3. Authorized(job) => Authorized(job)'
    OBVIOUS
<1>4. QED
    BY <1>1, <1>2, <1>3 DEF GroupInv

LEMMA GroupStep ==
    PhaseInv /\ GroupInv /\ [Next]_vars => GroupInv'
<1> SUFFICES ASSUME PhaseInv, GroupInv, [Next]_vars PROVE GroupInv'
    OBVIOUS
<1>1. CASE Prepare
    BY <1>1, GroupPrepared
<1>2. CASE state = "prepared" /\ \E g \in NextGroup : WriteByte(g[1], g[2])
    BY <1>2, GroupWritten
<1>3. CASE RecordPhase
    BY <1>3, GroupSame DEF RecordPhase
<1>4. CASE \E unit \in 0 .. ImageBytes - 1, value \in Values : ForeignWrite(unit, value)
    BY <1>4, GroupForeign
<1>5. CASE \E policy \in Policies : Restore(policy)
    BY <1>5 DEF Restore, GroupInv
<1>6. CASE UNCHANGED vars
    BY <1>6, GroupSame DEF vars
<1>7. CASE Settled
    BY <1>6, <1>7 DEF Settled
<1>8. QED
    BY <1>1, <1>2, <1>3, <1>4, <1>5, <1>6, <1>7 DEF Next

LEMMA GroupInit ==
    Init => GroupInv
BY DEF Init, GroupInv

-----------------------------------------------------------------------------
LEMMA GroupRecognized ==
    PhaseInv /\ GroupInv => InterruptedGroupIsRecognized
<1> SUFFICES ASSUME PhaseInv, GroupInv, state = "prepared", NEW g \in ToSet(Groups),
                    NEW chunk \in Chunks
             PROVE  LET after == After(job, g)
                        before == BeforeImages(original, after, chunk)
                        own == UNION {Cells(Extents(w)) : w \in ToSet(after)}
                        seen == ClassifyWriteGroup(image, before, after, chunk) IN
                    /\ ValidGroup(before, after)
                    /\ own \subseteq cell \ foreign => seen \in {"before", "after"}
                           /\ (seen = "before" => before = after)
                    /\ own \cap foreign = {} => seen # "third"
                    /\ seen = "before" => \A u \in own : image[u] = original[u]
    BY DEF InterruptedGroupIsRecognized
<1> DEFINE after == After(job, g)
           before == BeforeImages(original, after, chunk)
           own == UNION {Cells(Extents(w)) : w \in ToSet(after)}
           seen == ClassifyWriteGroup(image, before, after, chunk)
           n == Len(after)
           A == AllBefore(image, original, after)
           B == AllAfter(image, after)
           C == AllKnown(image, original, after)
<1>1. job \in Jobs /\ Authorized(job) /\ OwnBytes
    BY DEF PhaseInv, GroupInv
<1>2. chunk \in Nat \ {0} /\ ImageBytes \in Nat
    BY PhaseAssumption
<1>3. GroupReady(after, job)
    BY <1>1, GroupsReady
<1> HIDE DEF after
<1>4. before = [i \in 1 .. n |-> Shown(original, after[i].offset, Len(after[i].bytes))]
    BY <1>2, <1>3, BeforeGroup
<1> HIDE DEF before
<1>5. ValidGroup(before, after)
    BY <1>3, <1>4, GroupIsValid
<1>6. seen = IF A THEN "before" ELSE IF B THEN "after" ELSE IF C THEN "mixed" ELSE "third"
    BY <1>2, <1>3, <1>4, Classified
<1>7. /\ n \in Nat /\ DOMAIN after = 1 .. n
      /\ \A i \in 1 .. n : after[i] \in WriteSet /\ after[i] \in ToSet(after)
                           /\ after[i] \in Finals(job)
    BY <1>3 DEF GroupReady, ToSet
<1>8. ASSUME NEW i \in 1 .. n, NEW k \in 1 .. Len(after[i].bytes)
      PROVE  LET u == after[i].offset + k - 1
             IN  /\ u \in own /\ u \in 0 .. ImageBytes - 1
                 /\ after[i] \in Finals(job) /\ k \in DOMAIN after[i].bytes
                 /\ ByteOf(u, after[i], k)
  <2> DEFINE w == after[i]
             u == w.offset + k - 1
  <2>1. w \in WriteSet /\ w \in ToSet(after) /\ w \in Finals(job)
    BY <1>7
  <2>2. Inside(w)
    BY <1>3, <2>1 DEF GroupReady, MasksAccepted
  <2>3. k \in 1 .. Len(w.bytes)
    OBVIOUS
  <2> HIDE DEF w
  <2>4. w.offset \in Nat /\ w.bytes \in Seq(Nat)
    BY <2>1 DEF WriteSet
  <2>5. DOMAIN w.bytes = 1 .. Len(w.bytes) /\ Len(w.bytes) \in Nat
    BY <2>4
  <2>6. ByteOf(u, w, k)
    BY <2>3, <2>5 DEF ByteOf
  <2>7. u \in Cells(Extents(w))
    BY <2>1, <2>6, ByteCell
  <2>8. w.offset + Len(w.bytes) <= ImageBytes
    BY <2>2 DEF Inside, End, Extents, ByteRange
  <2>9. u \in 0 .. ImageBytes - 1
    <3> DEFINE m == Len(w.bytes)
    <3>1. m \in Nat /\ k \in 1 .. m /\ w.offset + m <= ImageBytes
        BY <2>3, <2>5, <2>8
    <3> HIDE DEF m
    <3> QED BY <1>2, <2>4, <3>1
  <2> HIDE DEF u
  <2>10. u \in own
    BY <2>1, <2>7
  <2> QED BY <2>1, <2>3, <2>5, <2>6, <2>9, <2>10 DEF u, w
<1>9. ASSUME NEW i \in 1 .. n
      PROVE  /\ Len(after[i].bytes) \in Nat
             /\ after[i].bytes = [k \in 1 .. Len(after[i].bytes) |-> after[i].bytes[k]]
             /\ \A o : ReadBase(o, after[i].offset, Len(after[i].bytes))
                    = [k \in 1 .. Len(after[i].bytes) |-> o[after[i].offset + k - 1]]
  <2>1. after[i].bytes \in Seq(Nat)
    BY <1>7 DEF WriteSet
  <2> QED BY <2>1 DEF ReadBase
<1>10. ASSUME own \subseteq cell \ foreign PROVE B
  <2>1. ASSUME NEW i \in 1 .. n, NEW k \in 1 .. Len(after[i].bytes)
        PROVE  image[after[i].offset + k - 1] = after[i].bytes[k]
    BY <1>1, <1>8, <1>10 DEF OwnBytes
  <2>2. ASSUME NEW i \in 1 .. n
        PROVE  ReadBase(image, after[i].offset, Len(after[i].bytes)) = after[i].bytes
    <3> DEFINE m == Len(after[i].bytes)
    <3>1. /\ after[i].bytes = [k \in 1 .. m |-> after[i].bytes[k]]
          /\ ReadBase(image, after[i].offset, m)
                = [k \in 1 .. m |-> image[after[i].offset + k - 1]]
        BY <1>9
    <3>2. \A k \in 1 .. m : image[after[i].offset + k - 1] = after[i].bytes[k]
        BY <2>1
    <3> HIDE DEF m
    <3>3. [k \in 1 .. m |-> image[after[i].offset + k - 1]] = [k \in 1 .. m |-> after[i].bytes[k]]
        BY <3>2
    <3> QED BY <3>1, <3>3 DEF m
  <2> QED BY <2>2 DEF AllAfter
<1>11. ASSUME own \cap foreign = {} PROVE C
  <2>1. ASSUME NEW i \in 1 .. n, NEW k \in 1 .. Len(after[i].bytes)
        PROVE  image[after[i].offset + k - 1]
                  \in {original[after[i].offset + k - 1], after[i].bytes[k]}
    <3> DEFINE u == after[i].offset + k - 1
    <3>1. u \in 0 .. ImageBytes - 1 /\ u \notin foreign /\ after[i] \in Finals(job)
          /\ k \in DOMAIN after[i].bytes /\ ByteOf(u, after[i], k)
        BY <1>8, <1>11
    <3> HIDE DEF u
    <3>2. image[u] = original[u] \/ image[u] = after[i].bytes[k]
        BY <1>1, <3>1 DEF OwnBytes
    <3> QED BY <3>2 DEF u
  <2> QED BY <2>1 DEF AllKnown
<1>12. ASSUME A, B PROVE before = after
  <2>1. ASSUME NEW i \in 1 .. n PROVE before[i] = after[i]
    <3>1. before[i] = [offset |-> after[i].offset,
                       bytes |-> ReadBase(original, after[i].offset, Len(after[i].bytes))]
        BY <1>4 DEF Shown
    <3>2. ReadBase(original, after[i].offset, Len(after[i].bytes)) = after[i].bytes
        BY <1>12 DEF AllBefore, AllAfter
    <3>3. after[i] = [offset |-> after[i].offset, bytes |-> after[i].bytes]
        BY <1>7 DEF WriteSet
    <3> QED BY <3>1, <3>2, <3>3
  <2>2. before = [i \in 1 .. n |-> before[i]]
    BY <1>4
  <2>3. after = [i \in 1 .. n |-> after[i]]
    BY <1>3, <1>7 DEF GroupReady
  <2> QED BY <2>1, <2>2, <2>3
<1>13. ASSUME A, NEW u \in own PROVE image[u] = original[u]
  <2>1. PICK w \in ToSet(after) : u \in Cells(Extents(w))
    OBVIOUS
  <2>2. PICK i \in 1 .. n : w = after[i]
    BY <1>7 DEF ToSet
  <2> DEFINE m == Len(w.bytes)
             k == u - w.offset + 1
  <2>3. w \in WriteSet
    BY <1>7, <2>2
  <2>4. w.offset \in Nat /\ m \in Nat /\ u \in w.offset .. w.offset + m - 1
    BY <2>1, <2>3, WriteSetFacts, WriteCells DEF IsWrite
  <2>5. ReadBase(image, w.offset, m) = ReadBase(original, w.offset, m)
    BY <1>13, <2>2 DEF AllBefore
  <2> HIDE DEF m
  <2>6. k \in 1 .. m /\ w.offset + k - 1 = u
    BY <2>4
  <2> HIDE DEF k
  <2>7. /\ ReadBase(image, w.offset, m)[k] = image[w.offset + k - 1]
        /\ ReadBase(original, w.offset, m)[k] = original[w.offset + k - 1]
    BY <2>4, <2>6, ReadLength
  <2> QED BY <2>5, <2>6, <2>7
<1> HIDE DEF A, B, C, own, seen
<1>14. seen = "before" => A
    BY <1>6
<1>15. B => seen \in {"before", "after"}
    BY <1>6
<1>16. C => seen # "third"
    BY <1>6
<1>17. QED
    BY <1>5, <1>10, <1>11, <1>12, <1>13, <1>14, <1>15, <1>16 DEF own, seen, before, after

(* classify_write_group, which decides what an interrupted group has left:  *)
(* for every image, job and chunk size, however much of the group is        *)
(* written and whatever somebody else wrote, a group whose bytes are all    *)
(* written is after, no known state is called third, and what is called     *)
(* before is the original.                                                  *)
THEOREM InterruptedGroupsAreRecognized ==
    Spec => []InterruptedGroupIsRecognized
BY GroupRecognized, PhaseInit, PhaseStep, GroupInit, GroupStep, PTL DEF Spec
=============================================================================
