---------------------------- MODULE LayoutProofs -----------------------------
(***************************************************************************)
(* For every set of drafts, however large the volume: nothing of the source *)
(* is overwritten before the destination is activated. The solver's theorem *)
(* does the work; what is left is that its input names all the source has,  *)
(* and that the copies write where the solver said.                         *)
(***************************************************************************)
EXTENDS LayoutPlan, GeometryProofs

-----------------------------------------------------------------------------
(* The elements that pass a test.                                           *)
LEMMA KeptOnes ==
    ASSUME NEW S, NEW seq \in Seq(S), NEW kept \in SUBSET DOMAIN seq
    PROVE  /\ Kept(seq, kept) \in Seq(S)
           /\ \A i \in kept : \E k \in DOMAIN Kept(seq, kept) : Kept(seq, kept)[k] = seq[i]
<1> DEFINE part == Kept(seq, kept)
<1>1. part \in Seq(S) /\ \E n, at : KeepsBy(seq, kept, part, n, at)
    BY KeptElements
<1> HIDE DEF part
<1>2. PICK n, at : KeepsBy(seq, kept, part, n, at)
    BY <1>1
<1>3. /\ \A i \in kept : \E k \in 1 .. n : at[k] = i
      /\ part = [k \in 1 .. n |-> seq[at[k]]]
    BY <1>2 DEF KeepsBy, Picks
<1>4. \A i \in kept : \E k \in DOMAIN part : part[k] = seq[i]
    BY <1>3
<1>5. QED
    BY <1>1, <1>4 DEF part

LEMMA FileStreamsTyped ==
    ASSUME NEW d \in Drafts
    PROVE  FileStreams(d.graph) \in Seq(StreamSet)
<1> DEFINE objects == d.graph.objects
           parts == [i \in DOMAIN objects |->
                        IF objects[i].kind = "file" THEN objects[i].streams ELSE <<>>]
<1>1. objects \in Seq(ObjectSet)
    BY DraftAssumption
<1>2. FileStreams(d.graph) = FlattenSeq(parts)
    BY DEF FileStreams
<1> HIDE DEF objects
<1>3. \A o \in ObjectSet : o.streams \in Seq(StreamSet)
    BY DEF ObjectSet
<1>4. DOMAIN objects = 1 .. Len(objects) /\ Len(objects) \in Nat
      /\ \A i \in DOMAIN objects : objects[i].streams \in Seq(StreamSet)
    BY <1>1, <1>3
<1>5. <<>> \in Seq(StreamSet)
    OBVIOUS
<1>6. parts \in [1 .. Len(objects) -> Seq(StreamSet)]
    BY <1>4, <1>5
<1> HIDE DEF parts
<1>7. parts \in Seq(Seq(StreamSet))
    BY <1>4, <1>6
<1>8. QED
    BY <1>2, <1>7, FlattenTyped

LEMMA MaterializationIsNatural ==
    ASSUME NEW graph, NEW object, NEW stream \in StreamSet, NEW align \in Nat \ {0}
    PROVE  MaterializationLength(graph, object, stream, align) \in Nat
<1> DEFINE length == AlignUp(stream.logical, align)
<1>1. length \in Nat
  <2>1. stream.logical \in Nat
    BY DEF StreamSet
  <2> QED BY <2>1, RoundedUp
<1> HIDE DEF length
<1>2. MaterializationLength(graph, object, stream, align) \in {0, length}
    BY DEF MaterializationLength, length
<1>3. QED
    BY <1>1, <1>2

LEMMA RequestsTyped ==
    ASSUME NEW d \in Drafts
    PROVE  Materializing(d.graph) \in Seq(RequestSet)
<1> DEFINE all == FileStreams(d.graph)
           Length(s) == MaterializationLength(d.graph, OwnerOf(d.graph, s), s, Cluster)
           wanted == [i \in DOMAIN all |-> [stream |-> all[i].id, length |-> Length(all[i])]]
           kept == {i \in DOMAIN wanted : wanted[i].length > 0}
           part == Kept(wanted, kept)
           keys == [i \in DOMAIN part |-> <<part[i].stream>>]
<1>1. all \in Seq(StreamSet)
    BY FileStreamsTyped
<1>2. Materializing(d.graph) = Arranged(part, keys)
    BY DEF Materializing, SortedOn, Selected
<1>3. \A s \in StreamSet : s.id \in Int /\ Length(s) \in Nat
    BY MaterializationIsNatural, LayoutAssumption DEF StreamSet
<1> HIDE DEF all, Length
<1>4. DOMAIN all = 1 .. Len(all) /\ Len(all) \in Nat /\ \A i \in DOMAIN all : all[i] \in StreamSet
    BY <1>1
<1>5. \A i \in DOMAIN all : [stream |-> all[i].id, length |-> Length(all[i])] \in RequestSet
    BY <1>3, <1>4 DEF RequestSet
<1>6. wanted \in [1 .. Len(all) -> RequestSet]
    BY <1>4, <1>5
<1>7. kept \in SUBSET DOMAIN wanted
    OBVIOUS
<1> HIDE DEF wanted, kept
<1>8. wanted \in Seq(RequestSet)
    BY <1>4, <1>6
<1>9. part \in Seq(RequestSet)
    BY <1>7, <1>8, KeptElements
<1> HIDE DEF part
<1>10. \A i \in DOMAIN part : part[i] \in RequestSet
    BY <1>9
<1>11. \A r \in RequestSet : <<r.stream>> \in [1 .. 1 -> Int]
    BY DEF RequestSet
<1>12. keys \in [DOMAIN part -> [1 .. 1 -> Int]]
    BY <1>10, <1>11
<1> HIDE DEF keys
<1>13. Arranged(part, keys) \in Seq(RequestSet)
    BY <1>9, <1>12, ArrangedElements
<1>14. QED
    BY <1>2, <1>13

(* The part of the volume that the destination may allocate from.           *)
LEMMA DomainTyped ==
    ASSUME NEW d \in Drafts
    PROVE  LayoutInput(d).domain \in RangeSet
<1> DEFINE rest == AlignDown(Volume - Heap, Cluster)
<1>1. Volume \in Nat /\ Heap \in Nat /\ Volume - Heap \in Nat /\ Cluster \in Nat \ {0}
    BY LayoutAssumption
<1>2. rest \in Nat
  <2> DEFINE x == Volume - Heap
  <2>1. x \in Nat
    BY <1>1
  <2> HIDE DEF x
  <2>2. x \div Cluster \in Nat
    BY <1>1, <2>1
  <2>3. AlignDown(x, Cluster) \in Nat
    BY <1>1, <2>2 DEF AlignDown
  <2> QED BY <2>3 DEF x
<1> HIDE DEF rest
<1>3. LayoutInput(d).domain = IF d.direction = "toNtfs" THEN ByteRange(0, Volume)
                              ELSE ByteRange(Heap, rest)
    BY DEF LayoutInput, rest
<1>4. ByteRange(0, Volume) \in RangeSet /\ ByteRange(Heap, rest) \in RangeSet
    BY <1>1, <1>2 DEF ByteRange, RangeSet
<1>5. QED
    BY <1>3, <1>4

(* partition_payload_work: the solver is told of every allocation.          *)
LEMMA InputComplete ==
    ASSUME NEW d \in Drafts
    PROVE  /\ InputTyped(LayoutInput(d))
           /\ \A a \in ToSet(d.allocations) : a.range \in Occupied(LayoutInput(d))
<1> DEFINE in == LayoutInput(d)
           seq == d.allocations
           Live(i) == IsLive(d.graph, seq[i])
           live == {i \in DOMAIN seq : Live(i)}
           dead == {i \in DOMAIN seq : ~Live(i)}
           rest == Kept(seq, dead)
<1>1. seq \in Seq(AllocationSet) /\ d.reservations \in Seq(ReservationSet)
    BY DraftAssumption
<1>2. /\ in.volume = Volume /\ in.align = Cluster /\ in.requests = Materializing(d.graph)
      /\ in.reservations = d.reservations
      /\ in.source = Kept(seq, live)
      /\ in.exclusions = [i \in DOMAIN rest |-> rest[i].range]
    BY DEF LayoutInput, ExclusionsOf, Selected
<1>3. in.domain \in RangeSet
    BY DomainTyped
<1>4. in.requests \in Seq(RequestSet)
    BY <1>2, RequestsTyped
<1>5. \A i \in DOMAIN seq : i \in live \/ i \in dead
    OBVIOUS
<1>6. live \in SUBSET DOMAIN seq /\ dead \in SUBSET DOMAIN seq
    OBVIOUS
<1>7. \A a \in ToSet(seq) : \E i \in DOMAIN seq : a = seq[i]
    BY DEF ToSet
<1> HIDE DEF in, seq, live, dead
<1>8. /\ in.source \in Seq(AllocationSet)
      /\ \A i \in live : \E k \in DOMAIN in.source : in.source[k] = seq[i]
    BY <1>1, <1>2, <1>6, KeptOnes
<1>9. /\ rest \in Seq(AllocationSet)
      /\ \A i \in dead : \E k \in DOMAIN rest : rest[k] = seq[i]
    BY <1>1, <1>6, KeptOnes
<1> HIDE DEF rest
<1>10. \A a \in AllocationSet : a.range \in RangeSet
    BY DEF AllocationSet
<1>11. DOMAIN rest = 1 .. Len(rest) /\ Len(rest) \in Nat
       /\ \A i \in DOMAIN rest : rest[i].range \in RangeSet
    BY <1>9, <1>10
<1>12. in.exclusions \in [1 .. Len(rest) -> RangeSet]
    BY <1>2, <1>11
<1>13. in.exclusions \in Seq(RangeSet)
    BY <1>11, <1>12
<1>14. InputTyped(in)
    BY <1>1, <1>2, <1>3, <1>4, <1>8, <1>13, LayoutAssumption DEF InputTyped
<1>15. ASSUME NEW i \in DOMAIN seq PROVE seq[i].range \in Occupied(in)
  <2>1. seq[i].range \in RangeSet
    BY <1>1, <1>10
  <2>2. CASE i \in live
    <3>1. PICK k \in DOMAIN in.source : in.source[k] = seq[i]
        BY <1>8, <2>2
    <3>2. IsOccupied(in, seq[i].range)
        BY <3>1 DEF IsOccupied
    <3> QED BY <2>1, <3>2 DEF Occupied
  <2>3. CASE i \in dead
    <3>1. PICK k \in DOMAIN rest : rest[k] = seq[i]
        BY <1>9, <2>3
    <3>2. k \in DOMAIN in.exclusions /\ in.exclusions[k] = seq[i].range
        BY <1>2, <3>1
    <3>3. IsOccupied(in, seq[i].range)
        BY <3>2 DEF IsOccupied
    <3> QED BY <2>1, <3>3 DEF Occupied
  <2> QED BY <1>5, <2>2, <2>3
<1>16. QED
    BY <1>7, <1>14, <1>15 DEF in, seq

-----------------------------------------------------------------------------
(* A write goes to a range and fills it.                                    *)
Fills(w, r) == w.at = r.offset /\ DOMAIN w.data = 0 .. r.length - 1

(* The layout of a draft, where there is one, is a placement.               *)
Placed(plan, d) ==
    Placement(plan.relocations, plan.materializations, plan.free,
              Occupied(LayoutInput(d)), Cluster, LayoutInput(d).domain)

(* RelocationWrite, MaterializationWrites: what is written goes where the   *)
(* solver made room.                                                        *)
LEMMA WriteElement ==
    ASSUME NEW d, NEW contents, NEW plan, Placed(plan, d),
           NEW j \in 1 .. Len(Writes(d, contents, plan))
    PROVE  \E r \in Moved(plan.relocations) \cup Fresh(plan.materializations) :
              Fills(Writes(d, contents, plan)[j], r)
<1> DEFINE R == plan.relocations
           M == plan.materializations
           A == [i \in DOMAIN R |-> RelocationWrite(contents, R[i])]
           B == [i \in DOMAIN M |-> MaterializationWrites(d.graph, contents, M[i])]
           Spots == Moved(R) \cup Fresh(M)
           S == {RelocationWrite(contents, R[i]) : i \in DOMAIN R}
                \cup UNION {{B[i][k] : k \in DOMAIN M[i].destinations} : i \in DOMAIN M}
<1>1. /\ R \in Seq(MoveSet) /\ M \in Seq(FreshSet)
      /\ \A i \in 1 .. Len(R) : R[i].destination[1].length = R[i].source.length
    BY DEF Placed, Placement
<1>2. Writes(d, contents, plan) = A \o FlattenSeq(B)
    BY DEF Writes
<1> HIDE DEF R, M
<1>3. /\ DOMAIN R = 1 .. Len(R) /\ Len(R) \in Nat
      /\ DOMAIN M = 1 .. Len(M) /\ Len(M) \in Nat
    BY <1>1
<1>4. \A m \in FreshSet : m.destinations \in Seq(RangeSet)
    BY DEF FreshSet
<1>5. \A i \in DOMAIN M : M[i].destinations \in Seq(RangeSet)
    BY <1>1, <1>4
<1>6. ASSUME NEW i \in DOMAIN R
      PROVE  \E r \in Spots : Fills(RelocationWrite(contents, R[i]), r)
  <2> DEFINE r == R[i].destination[1]
  <2>1. r \in Moved(R)
    BY <1>3 DEF Moved
  <2>2. Fills(RelocationWrite(contents, R[i]), r)
    BY <1>1, <1>3 DEF Fills, RelocationWrite
  <2> QED BY <2>1, <2>2
<1>7. ASSUME NEW i \in DOMAIN M
      PROVE  /\ DOMAIN B[i] = DOMAIN M[i].destinations
             /\ \A k \in DOMAIN M[i].destinations : \E r \in Spots : Fills(B[i][k], r)
  <2> DEFINE D == M[i].destinations
  <2>1. B[i] = MaterializationWrites(d.graph, contents, M[i])
    OBVIOUS
  <2>2. DOMAIN B[i] = DOMAIN D
    BY <2>1 DEF MaterializationWrites
  <2>3. ASSUME NEW k \in DOMAIN D PROVE \E r \in Spots : Fills(B[i][k], r)
    <3>1. B[i][k].at = D[k].offset /\ DOMAIN B[i][k].data = 0 .. D[k].length - 1
        BY <2>1 DEF MaterializationWrites
    <3>2. D[k] \in InSet(D)
        BY <1>5 DEF InSet
    <3>3. D[k] \in Fresh(M)
        BY <1>3, <3>2 DEF Fresh
    <3> QED BY <3>1, <3>3 DEF Fills
  <2> QED BY <2>2, <2>3
<1>8. \A w \in S : \E r \in Spots : Fills(w, r)
    BY <1>6, <1>7
<1>9. A \in [1 .. Len(R) -> S]
    BY <1>3
<1>10. \A i \in DOMAIN M : B[i] \in Seq(S)
  <2> SUFFICES ASSUME NEW i \in DOMAIN M PROVE B[i] \in Seq(S)
    OBVIOUS
  <2> DEFINE b == B[i]
             n == Len(M[i].destinations)
  <2>1. n \in Nat /\ DOMAIN M[i].destinations = 1 .. n
    BY <1>5
  <2>2. \A k \in DOMAIN M[i].destinations : b[k] \in S
    OBVIOUS
  <2>3. b = [k \in 1 .. n |-> b[k]]
    BY <2>1 DEF MaterializationWrites
  <2> HIDE DEF b, n, S
  <2>4. b \in [1 .. n -> S]
    BY <2>1, <2>2, <2>3
  <2>5. b \in Seq(S)
    BY <2>1, <2>4
  <2> QED BY <2>5 DEF b
<1>11. B \in [1 .. Len(M) -> Seq(S)]
    BY <1>3, <1>10
<1> HIDE DEF A, B, S, Spots
<1>12. A \in Seq(S) /\ B \in Seq(Seq(S))
    BY <1>3, <1>9, <1>11
<1>13. FlattenSeq(B) \in Seq(S)
    BY <1>12, FlattenTyped
<1> DEFINE W == Writes(d, contents, plan)
<1>14. W \in Seq(S)
    BY <1>2, <1>12, <1>13
<1> HIDE DEF W
<1>15. j \in 1 .. Len(W)
    BY DEF W
<1>16. W[j] \in S
    BY <1>14, <1>15
<1>17. \E r \in Spots : Fills(W[j], r)
    BY <1>8, <1>16
<1>18. QED
    BY <1>17 DEF W, Spots, R, M

(* A unit that holds anything of the source lies in an allocation.          *)
LEMMA SourceIsAllocated ==
    ASSUME NEW d \in Drafts, NEW u \in 0 .. Volume - 1, SourceImage(d)[u] # Free
    PROVE  \E c \in Occupied(LayoutInput(d)) : c.offset <= u /\ u < End(c)
<1> DEFINE own == {e \in ToSet(d.graph.extents) : IsPhysical(e) /\ u \in Cells(Physical(e))}
           kept == {a \in ToSet(d.allocations) : u \in Cells(a.range)}
<1>1. own # {} \/ kept # {}
    BY Zenon DEF SourceImage
<1>2. kept # {}
  <2>1. CASE own # {}
    <3>1. PICK e \in ToSet(d.graph.extents) : IsPhysical(e) /\ u \in Cells(Physical(e))
        BY <2>1
    <3>2. PICK a \in ToSet(d.allocations) : a.range = Physical(e)
        BY <3>1, DraftAssumption
    <3> QED BY <3>1, <3>2
  <2> QED BY <1>1, <2>1
<1>3. PICK a \in ToSet(d.allocations) : u \in Cells(a.range)
    BY <1>2
<1>4. a.range \in Occupied(LayoutInput(d))
    BY InputComplete
<1>5. a.range \in RangeSet
    BY <1>4 DEF Occupied
<1>6. a.range.offset <= u /\ u < End(a.range)
    BY <1>3, <1>5 DEF Cells, End, RangeSet
<1>7. QED
    BY <1>4, <1>6

-----------------------------------------------------------------------------
LayoutInv ==
    /\ draft \in Drafts
    /\ DOMAIN image = 0 .. Volume - 1
    /\ copied \in Nat
    /\ layout.error = "none" => Placed(layout, draft)
    /\ phase = "copying" => layout.error = "none"
    /\ SourceIntactUntilActivation

LEMMA LayoutInit ==
    Init => LayoutInv
<1> SUFFICES ASSUME Init PROVE LayoutInv
    OBVIOUS
<1>1. image = SourceImage(draft) /\ DOMAIN SourceImage(draft) = 0 .. Volume - 1
    BY DEF Init, SourceImage
<1>2. SourceIntactUntilActivation
    BY <1>1 DEF SourceIntactUntilActivation
<1>3. layout.error # "none"
    BY DEF Init, Unsolved
<1>4. QED
    BY <1>1, <1>2, <1>3 DEF Init, LayoutInv

(* solve_layout and the sealing: what is sealed is what was solved.         *)
LEMMA SolvePlaces ==
    ASSUME LayoutInv, Solve
    PROVE  LayoutInv'
<1> DEFINE in == LayoutInput(draft)
           answer == SolveLayout(in)
<1>1. draft \in Drafts
    BY DEF LayoutInv
<1>2. InputTyped(in) /\ in.align = Cluster
    BY <1>1, InputComplete DEF LayoutInput
<1>3. layout' = IF answer.error = "none" /\ ~Seals(draft.graph, answer)
                THEN [answer EXCEPT !.error = "unsealed"] ELSE answer
    BY DEF Solve
<1>4. SolutionState(answer, Occupied(in), in)
    BY <1>2, SolverState
<1>5. answer.error = "none" => Placed(answer, draft)
  <2>1. SUFFICES ASSUME answer.error = "none" PROVE Placed(answer, draft)
    OBVIOUS
  <2> HIDE DEF answer, in
  <2>2. Placement(answer.relocations, answer.materializations, answer.free,
                  Occupied(in), Cluster, in.domain)
    BY <1>2, <1>4, <2>1 DEF SolutionState
  <2> QED BY <2>2 DEF Placed, in
<1>6. "error" \in DOMAIN answer
  <2> HIDE DEF answer
  <2> QED BY <1>4 DEF SolutionState
<1> HIDE DEF answer, in
<1>7. layout'.error = "none" => layout' = answer
    BY <1>3, <1>6
<1>8. layout'.error = "none" => Placed(layout', draft)
    BY <1>5, <1>7
<1>9. UNCHANGED <<draft, phase, manifest, image, copied>> /\ layout = Unsolved
    BY DEF Solve
<1>10. phase # "copying"
    BY <1>9 DEF LayoutInv, Unsolved
<1>11. SourceIntactUntilActivation'
    BY <1>9 DEF LayoutInv, SourceIntactUntilActivation, SourceImage
<1>12. QED
    BY <1>8, <1>9, <1>10, <1>11 DEF LayoutInv

(* copy_relocations, copy_materializations: no copy touches a source unit.  *)
LEMMA CopyPreserves ==
    ASSUME LayoutInv, Copy
    PROVE  LayoutInv'
<1> DEFINE w == Writes(draft, image, layout)[copied + 1]
           before == SourceImage(draft)
           X == Occupied(LayoutInput(draft))
<1>1. /\ draft \in Drafts /\ DOMAIN image = 0 .. Volume - 1 /\ copied \in Nat
      /\ layout.error = "none" /\ Placed(layout, draft)
      /\ \A u \in DOMAIN image : before[u] # Free => image[u] = before[u]
    BY DEF LayoutInv, Copy, SourceIntactUntilActivation
<1>2. /\ copied + 1 \in 1 .. Len(Writes(draft, image, layout))
      /\ image' = Written(image, w) /\ copied' = copied + 1
      /\ UNCHANGED <<draft, layout, phase, manifest>>
  <2>1. Len(Writes(draft, image, layout)) > copied
    BY DEF Copy
  <2> QED BY <1>1, <2>1 DEF Copy
<1>3. PICK r \in Moved(layout.relocations) \cup Fresh(layout.materializations) : Fills(w, r)
    BY <1>1, <1>2, WriteElement
<1>4. GoodPlace(Cluster, LayoutInput(draft).domain, r) /\ \A c \in X : Clear(r, c)
    BY <1>1, <1>3 DEF Placed, Placement
<1>5. r \in RangeSet
    BY <1>4 DEF GoodPlace
<1>6. DOMAIN image' = 0 .. Volume - 1
    BY <1>1, <1>2 DEF Written
<1>7. ASSUME NEW u \in DOMAIN image, before[u] # Free
      PROVE  image'[u] = before[u]
  <2>1. PICK c \in X : c.offset <= u /\ u < End(c)
    BY <1>1, <1>7, SourceIsAllocated
  <2>2. c \in RangeSet
    BY <2>1 DEF Occupied
  <2>3. u \in Int /\ w.at = r.offset
    BY <1>1, <1>3 DEF Fills
  <2>4. ~(u - r.offset \in 0 .. r.length - 1)
    BY <1>4, <1>5, <2>1, <2>2, <2>3 DEF Clear, End, RangeSet
  <2>5. ~(u - w.at \in DOMAIN w.data)
    BY <1>3, <2>4 DEF Fills
  <2> HIDE DEF w, before
  <2>6. image'[u] = image[u]
    BY <1>2, <2>5 DEF Written
  <2> QED BY <1>1, <1>7, <2>6
<1>8. SourceIntactUntilActivation'
    BY <1>1, <1>2, <1>6, <1>7 DEF SourceIntactUntilActivation
<1>9. QED
    BY <1>1, <1>2, <1>6, <1>8 DEF LayoutInv

LEMMA LayoutStep ==
    LayoutInv /\ [Next]_vars => LayoutInv'
<1> SUFFICES ASSUME LayoutInv, [Next]_vars PROVE LayoutInv'
    OBVIOUS
<1>1. CASE Solve
    BY <1>1, SolvePlaces
<1>2. CASE Authorize
  <2>1. UNCHANGED <<draft, layout, image, copied>> /\ phase = "planned" /\ layout.error = "none"
    BY <1>2 DEF Authorize
  <2>2. SourceIntactUntilActivation'
    BY <2>1 DEF LayoutInv, SourceIntactUntilActivation
  <2> QED BY <2>1, <2>2 DEF LayoutInv
<1>3. CASE Refuse
  <2>1. UNCHANGED <<draft, layout, image, copied>> /\ phase = "planned" /\ phase' = "refused"
    BY <1>3 DEF Refuse
  <2>2. SourceIntactUntilActivation'
    BY <2>1 DEF LayoutInv, SourceIntactUntilActivation
  <2> QED BY <2>1, <2>2 DEF LayoutInv
<1>4. CASE Copy
    BY <1>4, CopyPreserves
<1>5. CASE Activate
  <2>1. UNCHANGED <<draft, layout, copied>> /\ phase' = "activated"
    BY <1>5 DEF Activate
  <2>2. DOMAIN image' = DOMAIN image
    BY <1>5 DEF Activate
  <2>3. SourceIntactUntilActivation'
    BY <2>1 DEF SourceIntactUntilActivation
  <2> QED BY <2>1, <2>2, <2>3 DEF LayoutInv
<1>6. CASE Verify
  <2>1. UNCHANGED <<draft, layout, image, copied>> /\ phase' \in {"verified", "mismatch"}
    BY <1>6 DEF Verify
  <2>2. SourceIntactUntilActivation'
    BY <2>1 DEF SourceIntactUntilActivation
  <2> QED BY <2>1, <2>2 DEF LayoutInv
<1>7. CASE UNCHANGED vars
  <2>1. UNCHANGED <<draft, layout, phase, image, copied>>
    BY <1>7 DEF vars
  <2>2. SourceIntactUntilActivation'
    BY <2>1 DEF LayoutInv, SourceIntactUntilActivation
  <2> QED BY <2>1, <2>2 DEF LayoutInv
<1>8. CASE Settled
    BY <1>7, <1>8 DEF Settled
<1>9. QED
    BY <1>1, <1>2, <1>3, <1>4, <1>5, <1>6, <1>7, <1>8 DEF Next

(* export_candidate_image_impl: for every set of drafts, every volume and   *)
(* every cluster size, no copy that is made before the destination metadata *)
(* is activated overwrites a unit that a source stream or source metadata   *)
(* occupies.                                                                *)
THEOREM SourceStaysIntact ==
    Spec => []SourceIntactUntilActivation
<1>1. LayoutInv => SourceIntactUntilActivation
    BY DEF LayoutInv
<1>2. QED
    BY <1>1, LayoutInit, LayoutStep, PTL DEF Spec
=============================================================================
