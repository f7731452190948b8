------------------------------ MODULE Geometry -------------------------------
(***************************************************************************)
(* The layout solver (geometry.rs): which payload must move, where it goes, *)
(* and the object graph that results. A result is a record with an error    *)
(* field; "none" is success.                                                *)
(***************************************************************************)
EXTENDS ObjectGraph

CONSTANTS MaxSourceExtents, MaxReservations,    \* LayoutLimits
          MaxFreeRanges, MaxRelocations

ASSUME GeometryAssumption ==
    \A limit \in {MaxSourceExtents, MaxReservations, MaxFreeRanges, MaxRelocations} :
        limit \in Nat \ {0}

(* What is on the volume, what the destination needs of it, and what is to  *)
(* be stored anew.                                                          *)
AllocationSet == [stream : Int, logical : Int, range : RangeSet, movable : BOOLEAN]
ReservationKinds == {"boot", "allocation", "namespace", "journal", "capsule", "other"}
ReservationSet == [range : RangeSet] \cup [range : RangeSet, kind : ReservationKinds]
RequestSet == [stream : Int, length : Nat]

At(element) == element.range
Itself(range) == range

(* Target clusters that some unusable range touches.                        *)
ClustersCovering(ranges, cluster) ==
    UNION {r.offset \div cluster .. (End(r) - 1) \div cluster : r \in ranges}

-----------------------------------------------------------------------------
(* Validation. in is [volume, sourceAlign, align, ioAlign, domain,          *)
(* alignedDomain, source, reservations, exclusions, requests]; a solver     *)
(* that is given no domain takes the whole volume, on the grid or not.      *)

ValidAlignments(in) ==
    /\ \A a \in {in.sourceAlign, in.align, in.ioAlign} : IsPowerOfTwo(a)
    /\ in.alignedDomain => in.align % in.ioAlign = 0

WithinInputCaps(in) ==
    /\ Len(in.source) + Len(in.exclusions) <= MaxSourceExtents
    /\ Len(in.reservations) <= MaxReservations

ValidRequests(in) ==
    /\ Len(in.requests) <= MaxRelocations
    /\ DistinctBy(in.requests, LAMBDA r : r.stream)
    /\ \A r \in ToSet(in.requests) :
          /\ r.length > 0 /\ r.length % in.align = 0
          /\ \A s \in ToSet(in.source) : s.stream # r.stream

ValidExclusions(source, exclusions) ==
    /\ NeighboursApart(exclusions, Itself)
    /\ \A i \in DOMAIN exclusions :
          LET c == CursorAt(source, At, exclusions[i].offset) IN
          c <= Len(source) => ~Overlaps(source[c].range, exclusions[i])

ValidInput(in) ==
    LET source == SortedBy(in.source, At)
        reservations == SortedBy(in.reservations, At)
        exclusions == SortedBy(in.exclusions, Itself) IN
    /\ ValidAlignments(in) /\ WithinInputCaps(in)
    /\ \A s \in ToSet(source) :
          /\ ValidRange(in.volume, in.sourceAlign, s.range)
          /\ s.range.length % in.align = 0
    /\ \A r \in ToSet(reservations) : ValidRange(in.volume, in.ioAlign, r.range)
    /\ \A e \in ToSet(exclusions) : ValidRange(in.volume, in.ioAlign, e)
    /\ ValidRange(in.volume, IF in.alignedDomain THEN in.align ELSE in.ioAlign, in.domain)
    /\ ValidRequests(in)
    /\ NeighboursApart(source, At) /\ NeighboursApart(reservations, At)
    /\ ValidExclusions(source, exclusions)

-----------------------------------------------------------------------------
(* Mutant: payload in the domain stays, on the grid or not.                 *)
OutsideDomain(in, s) ==
    s.range.offset < in.domain.offset \/ End(s.range) > End(in.domain)

(* collect_conflicts: payload outside the domain, off its grid, or under a  *)
(* reservation. Only movable payload may be one.                            *)
Misplaced(in, s) ==
    \/ s.range.offset < in.domain.offset
    \/ End(s.range) > End(in.domain)
    \/ s.range.offset % in.align # 0

(* Mutant: only the first unit of the payload is looked at.                 *)
ReservedAtStart(in, s) ==
    \E r \in ToSet(in.reservations) : s.range.offset \in Cells(r.range)

Reserved(in, s) ==
    LET reservations == SortedBy(in.reservations, At) IN
    \E i \in CursorAt(reservations, At, s.range.offset) .. Len(reservations) :
        Overlaps(s.range, reservations[i].range)

Conflicts(in) ==
    Selected(SortedBy(in.source, At),
             LAMBDA s : Misplaced(in, s) \/ Reserved(in, s))

ConflictError(conflicts) ==
    CASE \E s \in ToSet(conflicts) : ~s.movable -> "immovable"
      [] Len(conflicts) > MaxRelocations -> "limit"
      [] OTHER -> "none"

-----------------------------------------------------------------------------
(* Free space: the complement of everything occupied before activation.     *)

(* Mutant: retired source metadata is taken for free space.                 *)
ForgetsExclusions(in) ==
    SortedBy([i \in DOMAIN in.source |-> in.source[i].range]
             \o [i \in DOMAIN in.reservations |-> in.reservations[i].range], Itself)

OccupiedRanges(in) ==
    [i \in DOMAIN in.source |-> in.source[i].range]
    \o [i \in DOMAIN in.reservations |-> in.reservations[i].range]
    \o in.exclusions

Merge(merged, range) ==
    IF merged # <<>> /\ range.offset <= End(Last(merged))
    THEN Append(Front(merged),
                ByteRange(Last(merged).offset,
                          Max({End(range), End(Last(merged))}) - Last(merged).offset))
    ELSE Append(merged, range)

Merges(all) ==
    LET merged[i \in 0 .. Len(all)] ==
            IF i = 0 THEN <<>> ELSE Merge(merged[i - 1], all[i])
    IN merged

UnionOccupied(in) ==
    LET all == SortedBy(OccupiedRanges(in), Itself) IN Merges(all)[Len(all)]

GapBefore(volume, occupied, i) ==
    LET start == IF i = 1 THEN 0 ELSE End(occupied[i - 1])
        end == IF i > Len(occupied) THEN volume ELSE occupied[i].offset IN
    ByteRange(start, end - start)

Complement(volume, occupied) ==
    Selected([i \in 1 .. Len(occupied) + 1 |-> GapBefore(volume, occupied, i)],
             LAMBDA gap : gap.length > 0)

(* The part of a free range that lies in the domain, from its first grid    *)
(* point on.                                                                *)
UsableStart(range, align, domain) ==
    AlignUp(Max({range.offset, domain.offset}), align)
UsableEnd(range, domain) == Min({End(range), End(domain)})

Fits(range, length, align, domain) ==
    /\ Max({range.offset, domain.offset}) < UsableEnd(range, domain)
    /\ UsableStart(range, align, domain) + length <= UsableEnd(range, domain)

(* allocate_first_fit_aligned_within: what remains of the chosen free range *)
(* stays in its place.                                                      *)
NoRange(error, free) == [error |-> error, free |-> free, range |-> <<>>]

NonEmpty(range) == IF range.length > 0 THEN <<range>> ELSE <<>>

Remainder(range, start, length) ==
    NonEmpty(ByteRange(range.offset, start - range.offset))
    \o NonEmpty(ByteRange(start + length, End(range) - (start + length)))

TakenFrom(free, p, start, length) ==
    LET Replaced(rest) ==
            IF Len(rest) = 2 /\ Len(free) >= MaxFreeRanges THEN NoRange("limit", free)
            ELSE [error |-> "none",
                  free |-> SubSeq(free, 1, p - 1) \o rest \o SubSeq(free, p + 1, Len(free)),
                  range |-> <<ByteRange(start, length)>>]
    IN Replaced(Remainder(free[p], start, length))

FirstFit(free, length, align, domain) ==
    LET First(fitting) ==
            IF fitting = {} THEN NoRange("space", free)
            ELSE TakenFrom(free, Min(fitting), UsableStart(free[Min(fitting)], align, domain), length)
    IN First({i \in DOMAIN free : Fits(free[i], length, align, domain)})

(* allocate_first_fit_fragmented_aligned_within: pieces in physical order,  *)
(* at most pieces of them, or nothing.                                      *)
UsableLength(r, align, domain) ==
    Max({0, AlignDown(UsableEnd(r, domain) - UsableStart(r, align, domain), align)})

Open(free, align, domain) ==
    {i \in DOMAIN free :
        /\ Max({free[i].offset, domain.offset}) < UsableEnd(free[i], domain)
        /\ UsableLength(free[i], align, domain) > 0}

(* One turn of the loop. s is [error, free, range, left].                   *)
TakeFragment(align, domain, pieces, s) ==
    LET Took(piece, fit) ==
            IF fit.error # "none" THEN [s EXCEPT !.error = fit.error]
            ELSE [error |-> "none", free |-> fit.free, range |-> s.range \o fit.range,
                  left |-> s.left - piece]
        Take(piece) == Took(piece, FirstFit(s.free, piece, align, domain))
        From(open) ==
            CASE open = {} -> [s EXCEPT !.error = "space"]
              [] open # {} /\ Len(s.range) = pieces -> [s EXCEPT !.error = "limit"]
              [] OTHER -> Take(Min({UsableLength(s.free[Min(open)], align, domain), s.left}))
    IN IF s.error # "none" \/ s.left = 0 THEN s ELSE From(Open(s.free, align, domain))

NothingTaken(free, length) ==
    [error |-> "none", free |-> free, range |-> <<>>, left |-> length]

Fragments(free, length, align, domain, pieces) ==
    LET taken[k \in 0 .. pieces + 1] ==
            IF k = 0 THEN NothingTaken(free, length)
            ELSE TakeFragment(align, domain, pieces, taken[k - 1])
    IN taken

FirstFitFragmented(free, length, align, domain, pieces) ==
    LET All(end) == IF end.error = "none"
                    THEN [error |-> "none", free |-> end.free, range |-> end.range]
                    ELSE NoRange(end.error, free)
    IN IF pieces < 1 THEN NoRange("limit", free)
       ELSE All(Fragments(free, length, align, domain, pieces)[pieces + 1])

-----------------------------------------------------------------------------
(* A solution in progress is [error, free, relocations, materializations].  *)

Pieces(solution) ==
    SumOf(solution.materializations, LAMBDA m : Len(m.destinations))

WithMaterialization(s, request, a) ==
    [error |-> a.error, free |-> a.free, relocations |-> s.relocations,
     materializations |-> Append(s.materializations,
                                 [stream |-> request.stream, destinations |-> a.range])]

(* The pieces that the limit leaves for a request.                          *)
Room(s, fragmented) ==
    MaxRelocations - Pieces(s) - (IF fragmented THEN Len(s.relocations) ELSE 0)

AllocateRequest(in, fragmented, s, request) ==
    IF s.error # "none" THEN s
    ELSE WithMaterialization(s, request,
             IF fragmented
             THEN FirstFitFragmented(s.free, request.length, in.align, in.domain,
                                     Room(s, fragmented))
             ELSE FirstFit(s.free, request.length, in.align, in.domain))

AfterRequests(in, solution, fragmented) ==
    LET after[k \in 0 .. Len(in.requests)] ==
            IF k = 0 THEN solution
            ELSE AllocateRequest(in, fragmented, after[k - 1], in.requests[k])
    IN after

AllocateMaterializations(in, solution, fragmented) ==
    AfterRequests(in, solution, fragmented)[Len(in.requests)]

WithRelocation(s, allocation, a) ==
    [error |-> a.error, free |-> a.free, materializations |-> s.materializations,
     relocations |-> Append(s.relocations,
                            [stream |-> allocation.stream, logical |-> allocation.logical,
                             source |-> allocation.range, destination |-> a.range])]

RelocateConflict(in, s, allocation) ==
    IF s.error # "none" THEN s
    ELSE WithRelocation(s, allocation,
             FirstFit(s.free, allocation.range.length, in.align, in.domain))

AfterConflicts(in, solution, conflicts) ==
    LET after[k \in 0 .. Len(conflicts)] ==
            IF k = 0 THEN solution
            ELSE RelocateConflict(in, after[k - 1], conflicts[k])
    IN after

AllocateRelocations(in, solution, conflicts) ==
    AfterConflicts(in, solution, conflicts)[Len(conflicts)]

WithinWorkCap(solution, conflicts) ==
    IF solution.error = "none"
       /\ Pieces(solution) + Len(conflicts) > MaxRelocations
    THEN [solution EXCEPT !.error = "limit"] ELSE solution

RelocationsFirst(in, start, conflicts) ==
    AllocateMaterializations(in, AllocateRelocations(in, start, conflicts), TRUE)

(* A trial with every request in one piece, then the relocations; where     *)
(* space runs out, relocations first and fragmented requests after them.    *)
ContiguousFirst(in, start, conflicts, trial) ==
    LET Settle(contiguous) ==
            IF trial.error = "space" \/ contiguous.error = "space"
            THEN RelocationsFirst(in, start, conflicts) ELSE contiguous
    IN IF trial.error = "limit" THEN [start EXCEPT !.error = "limit"]
       ELSE Settle(AllocateRelocations(in, WithinWorkCap(trial, conflicts), conflicts))

SolveIn(in, conflicts, occupied, free) ==
    LET start == [error |-> "none", free |-> free, relocations |-> <<>>, materializations |-> <<>>]
    IN CASE ~ValidInput(in) -> [start EXCEPT !.error = "invalid"]
         [] ConflictError(conflicts) # "none" -> [start EXCEPT !.error = ConflictError(conflicts)]
         [] Len(occupied) > MaxFreeRanges \/ Len(free) > MaxFreeRanges ->
               [start EXCEPT !.error = "limit"]
         [] OTHER -> ContiguousFirst(in, start, conflicts, AllocateMaterializations(in, start, FALSE))

SolveLayout(in) ==
    LET Around(occupied) == SolveIn(in, Conflicts(in), occupied, Complement(in.volume, occupied))
    IN Around(UnionOccupied(in))

-----------------------------------------------------------------------------
(* materialization_length_for_stream; 0 where the stream keeps its extents. *)
MaterializationLength(graph, object, stream, align) ==
    LET length == AlignUp(stream.logical, align)
        own == SelectSeq(graph.extents,
                         LAMBDA e : e.stream = stream.id /\ e.kind = "file")
        representable ==
            /\ own # <<>>
            /\ \A e \in ToSet(own) : e.length % align = 0 /\ IsPhysical(e) IN
    IF object.kind = "dir" \/ stream.logical = 0 THEN 0
    ELSE IF \/ stream.compressed
            \/ stream.initialized < length
            \/ stream.resident
            \/ ~representable
         THEN length ELSE 0

(* relocate_object_graph.                                                   *)
RelocationOf(layout, extent) ==
    SelectSeq(layout.relocations,
              LAMBDA r : /\ r.stream = extent.stream /\ r.logical = extent.logical
                         /\ r.source = Physical(extent))

MaterializationOf(layout, stream) ==
    SelectSeq(layout.materializations, LAMBDA m : m.stream = stream)

ValidRelocations(graph, layout) ==
    /\ DistinctBy(layout.relocations, LAMBDA r : <<r.stream, r.logical, r.source>>)
    /\ \A r \in ToSet(layout.relocations) :
          /\ MaterializationOf(layout, r.stream) = <<>>
          /\ ~Overlaps(r.source, r.destination[1])
          /\ \E e \in ToSet(graph.extents) :
                /\ IsPhysical(e) /\ e.kind = "file"
                /\ e.stream = r.stream /\ e.logical = r.logical
                /\ Physical(e) = r.source

PieceLength(destinations) == SumOf(destinations, LAMBDA d : d.length)

ValidMaterializations(graph, layout) ==
    /\ DistinctBy(layout.materializations, LAMBDA m : m.stream)
    /\ \A m \in ToSet(layout.materializations) :
          /\ m.destinations # <<>>
          /\ \E o \in ToSet(graph.objects) :
                /\ o.kind = "file"
                /\ \E s \in ToSet(o.streams) :
                      /\ s.id = m.stream /\ s.logical > 0
                      /\ PieceLength(m.destinations) >= s.logical

Relocated(layout, extent) ==
    LET r == RelocationOf(layout, extent) IN
    IF IsPhysical(extent) /\ r # <<>>
    THEN [extent EXCEPT !.at = r[1].destination[1].offset] ELSE extent

MaterializedExtents(m) ==
    [i \in DOMAIN m.destinations |->
        [stream |-> m.stream,
         logical |-> PieceLength(SubSeq(m.destinations, 1, i - 1)),
         length |-> m.destinations[i].length,
         at |-> m.destinations[i].offset, kind |-> "file"]]

MaterializedStream(layout, stream) ==
    LET m == MaterializationOf(layout, stream.id) IN
    IF m = <<>> THEN stream
    ELSE LET length == PieceLength(m[1].destinations) IN
         [stream EXCEPT !.resident = FALSE, !.mapped = length,
                        !.allocated = length, !.compressed = FALSE]

RelocatedGraph(graph, layout) ==
    LET kept == SelectSeq(graph.extents,
                    LAMBDA e : e.kind # "file"
                               \/ MaterializationOf(layout, e.stream) = <<>>)
        moved == [i \in DOMAIN kept |-> Relocated(layout, kept[i])] IN
    [graph EXCEPT
        !.extents = moved \o FlattenSeq([i \in DOMAIN layout.materializations |->
                        MaterializedExtents(layout.materializations[i])]),
        !.objects = [i \in DOMAIN graph.objects |->
            [graph.objects[i] EXCEPT !.streams =
                [j \in DOMAIN graph.objects[i].streams |->
                    MaterializedStream(layout, graph.objects[i].streams[j])]]]]

(* rebuild_relocated_graph_with_objects: the counts of the source bound the *)
(* target, with one more extent for every object.                           *)
MaxRebuiltExtents(graph) == Max({Len(graph.extents) + Len(graph.objects), 1})

Seals(graph, layout) ==
    LET target == RelocatedGraph(graph, layout) IN
    /\ ValidRelocations(graph, layout)
    /\ ValidMaterializations(graph, layout)
    /\ ExtentsAccepted(target.extents, graph.volume, MaxRebuiltExtents(graph))
    /\ GraphAccepted(target, [objects |-> Len(graph.objects),
                              entries |-> Max({Len(graph.entries), 1}),
                              streams |-> Max({Len(StreamsOf(graph.objects)), 1})])
=============================================================================
