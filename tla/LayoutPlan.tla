---------------------------- MODULE LayoutPlan -------------------------------
(***************************************************************************)
(* One conversion's placement, from a draft to the activated volume: the    *)
(* payload work is partitioned and solved (cross_format.rs,                 *)
(* partition_payload_work and the solvers), sealed, authorized by the       *)
(* export (candidate_export.rs), copied to staging, activated and verified  *)
(* against a manifest (verify.rs) that was built before the first copy.     *)
(* The image is a function from a unit of storage to what it holds: a unit  *)
(* of a source stream, Meta (source filesystem metadata), Native            *)
(* (destination metadata), Zero or Free.                                    *)
(***************************************************************************)
EXTENDS Geometry, TLC

CONSTANTS Volume,       \* units of 512 bytes in the image
          Cluster,      \* units in a destination cluster
          Heap,         \* first unit of the exFAT cluster heap
          MaxWrites,    \* CandidateExportLimits
          MaxPaths,     \* VerificationLimits
          ReadChunks,   \* units a verifier may read at a time
          Drafts        \* what a destination writer drafted of a source volume

ASSUME LayoutAssumption ==
    /\ MaxWrites \in Nat \ {0} /\ MaxPaths \in Nat \ {0} /\ ReadChunks \subseteq Nat \ {0}
    /\ Volume \in Nat /\ Cluster \in Nat \ {0} /\ Heap \in 0 .. Volume

(* The allocations of a draft cover all that the graph has on the volume.   *)
ASSUME DraftAssumption ==
    \A d \in Drafts :
        /\ d.direction \in {"toNtfs", "toExfat"}
        /\ d.graph.objects \in Seq(ObjectSet) /\ d.graph.extents \in Seq(ExtentSet)
        /\ d.allocations \in Seq(AllocationSet) /\ d.reservations \in Seq(ReservationSet)
        /\ \A e \in ToSet(d.graph.extents) : IsPhysical(e) =>
              \E a \in ToSet(d.allocations) : a.range = Physical(e)

VARIABLES draft,        \* [direction, graph, allocations, reservations]
          layout,       \* the solver's answer, or Unsolved
          phase,        \* how far the export is
          manifest,     \* what the destination is expected to hold
          image,        \* what every unit of the image holds
          copied        \* copies made

vars == <<draft, layout, phase, manifest, image, copied>>

Unsolved == [error |-> "unsolved", free |-> <<>>, relocations |-> <<>>,
             materializations |-> <<>>]
NoManifest == {}

Meta == <<"meta">>
Native == <<"native">>
Zero == <<"zero">>
Free == <<"free">>
Payload(stream, unit) == <<"payload", stream, unit>>

-----------------------------------------------------------------------------
FileStreams(graph) ==
    FlattenSeq([i \in DOMAIN graph.objects |->
        IF graph.objects[i].kind = "file" THEN graph.objects[i].streams ELSE <<>>])

OwnerOf(graph, stream) ==
    CHOOSE o \in ToSet(graph.objects) : stream \in ToSet(o.streams)

(* Streams that get fresh storage, in the order of their ids.               *)
Materializing(graph) ==
    LET Request(s) == [stream |-> s.id,
                       length |-> MaterializationLength(graph, OwnerOf(graph, s), s,
                                                        Cluster)]
        all == FileStreams(graph) IN
    SortedOn(Selected([i \in DOMAIN all |-> Request(all[i])], LAMBDA r : r.length > 0),
             LAMBDA r : <<r.stream>>)

(* Payload that stays or is relocated whole; all the rest is only kept free *)
(* of staging writes.                                                       *)
IsLive(graph, allocation) ==
    /\ allocation.movable
    /\ \E e \in ToSet(graph.extents) :
          /\ e.kind = "file" /\ e.stream = allocation.stream
          /\ e.logical = allocation.logical
          /\ IsPhysical(e) /\ Physical(e) = allocation.range
    /\ \A r \in ToSet(Materializing(graph)) : r.stream # allocation.stream

ExclusionsOf(graph, allocations) ==
    LET rest == Selected(allocations, LAMBDA a : ~IsLive(graph, a)) IN
    [i \in DOMAIN rest |-> rest[i].range]

LayoutInput(d) ==
    LET requests == Materializing(d.graph)
        whole == ByteRange(0, Volume) IN
    [volume |-> Volume,
     sourceAlign |-> IF d.direction = "toNtfs" /\ requests = <<>> THEN Cluster ELSE 1,
     align |-> Cluster, ioAlign |-> 1,
     domain |-> IF d.direction = "toNtfs" THEN whole
                ELSE ByteRange(Heap, AlignDown(Volume - Heap, Cluster)),
     alignedDomain |-> d.direction = "toExfat" \/ requests # <<>>,
     source |-> Selected(d.allocations, LAMBDA a : IsLive(d.graph, a)),
     reservations |-> d.reservations,
     exclusions |-> ExclusionsOf(d.graph, d.allocations),
     requests |-> requests]

-----------------------------------------------------------------------------
(* What a reader of the graph sees in a unit of a stream.                   *)
ReadUnit(graph, contents, stream, unit) ==
    LET covering == {e \in ToSet(graph.extents) :
                        e.stream = stream.id /\ unit \in Cells(Logical(e))} IN
    CASE unit >= stream.initialized -> Zero
      [] stream.resident -> Payload(stream.id, unit)
      [] OTHER -> LET e == CHOOSE x \in covering : TRUE IN
                  IF IsPhysical(e) THEN contents[e.at + unit - e.logical] ELSE Zero

(* The writes a plan asks for, one per relocation and one per materialized  *)
(* range: <<first unit written, contents>>.                                 *)
RelocationWrite(contents, r) ==
    [at |-> r.destination[1].offset,
     data |-> [i \in 0 .. r.source.length - 1 |-> contents[r.source.offset + i]]]

StreamById(graph, id) == CHOOSE s \in ToSet(StreamsOf(graph.objects)) : s.id = id

(* reconstruct_stream_destination: zero from the end of the stream on.      *)
Reconstructed(graph, contents, id, unit) ==
    LET s == StreamById(graph, id) IN
    IF unit < s.logical THEN ReadUnit(graph, contents, s, unit) ELSE Zero

MaterializationWrites(graph, contents, m) ==
    LET Base(k) == PieceLength(SubSeq(m.destinations, 1, k - 1)) IN
    [k \in DOMAIN m.destinations |->
        [at |-> m.destinations[k].offset,
         data |-> [i \in 0 .. m.destinations[k].length - 1 |->
                      Reconstructed(graph, contents, m.stream, Base(k) + i)]]]

Writes(d, contents, plan) ==
    [i \in DOMAIN plan.relocations |-> RelocationWrite(contents, plan.relocations[i])]
    \o FlattenSeq([i \in DOMAIN plan.materializations |->
           MaterializationWrites(d.graph, contents, plan.materializations[i])])

Written(contents, w) ==
    [u \in DOMAIN contents |->
        IF u - w.at \in DOMAIN w.data THEN w.data[u - w.at] ELSE contents[u]]

-----------------------------------------------------------------------------
(* What the export itself requires of a sealed layout, whoever solved it.   *)

DestinationOf(relocation) == relocation.destination[1]
SourceOf(relocation) == relocation.source
SpanRange(span) == span.destination

FileData(extents) == SelectSeq(extents, LAMBDA e : e.kind = "file")

(* One of the extents holds exactly this part of the stream.                *)
Commits(extents, stream, logical, range) ==
    \E e \in ToSet(extents) :
        /\ e.stream = stream /\ e.logical = logical
        /\ IsPhysical(e) /\ Physical(e) = range

(* MaterializationSpan, sorted by destination.                              *)
Spans(plan) ==
    LET Of(m) == [k \in DOMAIN m.destinations |->
                     [stream |-> m.stream,
                      logical |-> PieceLength(SubSeq(m.destinations, 1, k - 1)),
                      destination |-> m.destinations[k]]] IN
    SortedBy(FlattenSeq([i \in DOMAIN plan.materializations |->
                            Of(plan.materializations[i])]), SpanRange)

ClearOfMetadata(range, reservations) ==
    \A w \in ToSet(reservations) : ~Overlaps(range, w.range)

ValidateRelocations(d, plan, target) ==
    /\ \A r \in ToSet(plan.relocations) :
          /\ r.source.length > 0 /\ r.source.length = DestinationOf(r).length
          /\ End(r.source) <= Volume /\ End(DestinationOf(r)) <= Volume
          /\ ~Overlaps(r.source, DestinationOf(r))
          /\ Commits(FileData(d.graph.extents), r.stream, r.logical, r.source)
          /\ Commits(target.extents, r.stream, r.logical, DestinationOf(r))
          /\ ClearOfMetadata(DestinationOf(r), d.reservations)
    /\ NeighboursApart(SortedBy(plan.relocations, SourceOf), SourceOf)
    /\ NeighboursApart(SortedBy(plan.relocations, DestinationOf), DestinationOf)

ValidateMaterializations(d, plan, target) ==
    /\ \A m \in ToSet(plan.materializations) :
          /\ m.destinations # <<>>
          /\ \A r \in ToSet(m.destinations) : r.length > 0 /\ End(r) <= Volume
          /\ PieceLength(m.destinations) >= StreamById(d.graph, m.stream).logical
    /\ NeighboursApart(Spans(plan), SpanRange)
    /\ \A span \in ToSet(Spans(plan)) :
          /\ Commits(FileData(target.extents), span.stream, span.logical, span.destination)
          /\ ClearOfMetadata(span.destination, d.reservations)
          /\ \A r \in ToSet(plan.relocations) :
                ~Overlaps(span.destination, DestinationOf(r))

(* Metadata writes are one per reservation. The limit on their bytes has    *)
(* the shape of the limit on their number.                                  *)
AppliedWrites(d, plan) ==
    Len(d.reservations) + Len(plan.relocations) + Len(Spans(plan))

-----------------------------------------------------------------------------
(* A view is [contents, graph, relocations, spans]: RelocatedSourceView     *)
(* shows an image as if every copy had been made.                           *)

PlainView(contents, graph) ==
    [contents |-> contents, graph |-> graph, relocations |-> <<>>, spans |-> <<>>]

RelocatedView(d, contents, plan) ==
    [contents |-> contents, graph |-> d.graph, spans |-> Spans(plan),
     relocations |-> SortedBy(plan.relocations, DestinationOf)]

(* The last of the sorted ranges that starts at or before a read, where it  *)
(* covers the whole of the read; else nothing.                              *)
CoveringSpan(spans, read) ==
    LET before == SelectSeq(spans, LAMBDA s : s.destination.offset <= read.offset) IN
    IF before # <<>> /\ End(read) <= End(Last(before).destination)
    THEN <<Last(before)>> ELSE <<>>

CoveringRelocation(relocations, read) ==
    LET before == SelectSeq(relocations,
                            LAMBDA r : DestinationOf(r).offset <= read.offset) IN
    IF before # <<>> /\ End(read) <= End(DestinationOf(Last(before)))
    THEN <<Last(before)>> ELSE <<>>

ReadMaterializedLogical(view, span, read) ==
    LET logical == span.logical + read.offset - span.destination.offset IN
    [i \in 1 .. read.length |->
        Reconstructed(view.graph, view.contents, span.stream, logical + i - 1)]

ReadExactAt(view, read) ==
    LET span == CoveringSpan(view.spans, read)
        moved == CoveringRelocation(view.relocations, read)
        from == IF moved = <<>> THEN read.offset
                ELSE moved[1].source.offset + read.offset - DestinationOf(moved[1]).offset IN
    IF span # <<>> THEN ReadMaterializedLogical(view, span[1], read)
    ELSE [i \in 1 .. read.length |-> view.contents[from + i - 1]]

-----------------------------------------------------------------------------
(* verify.rs. A digest is what it is computed from. Of the limits, which    *)
(* all refuse in the same way, the one on paths is kept.                    *)

Gap == <<<<"gap">>>>

HashPhysical(view, offset, length, chunk) ==
    LET Start(k) == (k - 1) * chunk
        Read(k) == ByteRange(offset + Start(k), Min({chunk, length - Start(k)})) IN
    FlattenSeq([k \in 1 .. (length + chunk - 1) \div chunk |-> ReadExactAt(view, Read(k))])

HashZeroes(length) == [i \in 1 .. length |-> Zero]

(* Extents in order until the stream ends; what is not initialized is zero. *)
HashExtentStream(view, stream, extents, chunk) ==
    LET Hashed(e, position) ==
            LET meaningful == Min({e.length, stream.logical - position})
                initialized == Min({meaningful, Max({0, stream.initialized - position})}) IN
            (IF IsPhysical(e) THEN HashPhysical(view, e.at, initialized, chunk)
                              ELSE HashZeroes(initialized))
            \o HashZeroes(meaningful - initialized)
        Step(units, e) ==
            CASE units = Gap \/ Len(units) >= stream.logical -> units
              [] e.logical # Len(units) -> Gap
              [] OTHER -> units \o Hashed(e, Len(units))
        all == FoldLeft(Step, <<>>, SelectSeq(ByStream(extents),
                                              LAMBDA e : e.stream = stream.id)) IN
    IF Len(all) = stream.logical THEN all ELSE Gap

StreamDigest(view, stream, extents, chunk) ==
    IF stream.resident THEN [i \in 1 .. stream.logical |-> Payload(stream.id, i - 1)]
    ELSE HashExtentStream(view, stream, extents, chunk)

(* Every way from the root to an object: <<object, names>>.                 *)
EnumeratePaths(graph) ==
    LET Below(paths) ==
            UNION {{<<e.target, Append(p[2], e.name)>> :
                        e \in {e \in ToSet(graph.entries) : e.parent = p[1]}} : p \in paths}
        level[k \in 0 .. Len(graph.objects)] ==
            IF k = 0 THEN {<<graph.root, <<>>>>} ELSE Below(level[k - 1]) IN
    UNION {level[k] : k \in DOMAIN level}

RequiresDecoding(stream) == ~stream.resident /\ (stream.compressed \/ stream.encrypted)

StreamManifest(view, stream, extents, chunk) ==
    [named |-> stream.named, logical |-> stream.logical,
     initialized |-> stream.initialized, mapped |-> stream.mapped,
     allocated |-> stream.allocated, sparse |-> stream.sparse,
     digest |-> StreamDigest(view, stream, extents, chunk)]

ObjectManifests(view, graph, chunk) ==
    {[kind |-> o.kind, secured |-> o.secured, reparse |-> o.reparse,
      paths |-> {p[2] : p \in {p \in EnumeratePaths(graph) : p[1] = o.id}},
      streams |-> {StreamManifest(view, s, graph.extents, chunk) : s \in ToSet(o.streams)}] :
        o \in ToSet(graph.objects)}

BuildManifest(view, graph, chunk) ==
    LET objects == ObjectManifests(view, graph, chunk) IN
    IF \/ \E s \in ToSet(StreamsOf(graph.objects)) : RequiresDecoding(s)
       \/ Cardinality(EnumeratePaths(graph)) > MaxPaths
       \/ \E o \in objects : o.paths = {} \/ \E s \in o.streams : s.digest = Gap
    THEN NoManifest ELSE objects

(* The graph as an inspection of the destination reports it: neighbouring   *)
(* clusters of a stream are one extent.                                     *)
Coalesced(extents) ==
    LET Step(runs, e) ==
            IF runs # <<>> /\ Last(runs).stream = e.stream /\ IsPhysical(e)
               /\ IsPhysical(Last(runs)) /\ End(Physical(Last(runs))) = e.at
            THEN Append(Front(runs), [Last(runs) EXCEPT !.length = @ + e.length])
            ELSE Append(runs, e)
    IN FoldLeft(Step, <<>>, ByStream(extents))

Inspected(graph) == [graph EXCEPT !.extents = Coalesced(@)]

-----------------------------------------------------------------------------
SourceImage(d) ==
    [u \in 0 .. Volume - 1 |->
        LET own == {e \in ToSet(d.graph.extents) :
                       IsPhysical(e) /\ u \in Cells(Physical(e))}
            kept == {a \in ToSet(d.allocations) : u \in Cells(a.range)} IN
        IF own # {} THEN LET e == CHOOSE x \in own : TRUE IN
                         Payload(e.stream, e.logical + u - e.at)
        ELSE IF kept # {} THEN Meta ELSE Free]

Init ==
    /\ draft \in Drafts
    /\ layout = Unsolved
    /\ phase = "planned"
    /\ manifest = NoManifest
    /\ image = SourceImage(draft)
    /\ copied = 0

(* solve_lossless_exfat_to_ntfs, solve_lossless_ntfs_to_exfat.              *)
Solve ==
    /\ layout = Unsolved
    /\ \E answer \in {SolveLayout(LayoutInput(draft))} :
          layout' = IF answer.error = "none" /\ ~Seals(draft.graph, answer)
                    THEN [answer EXCEPT !.error = "unsealed"] ELSE answer
    /\ UNCHANGED <<draft, phase, manifest, image, copied>>

Target == RelocatedGraph(draft.graph, layout)

Authorized ==
    /\ ValidateRelocations(draft, layout, Target)
    /\ ValidateMaterializations(draft, layout, Target)
    /\ AppliedWrites(draft, layout) <= MaxWrites

ExpectedManifest(chunk) ==
    BuildManifest(RelocatedView(draft, image, layout), Target, chunk)

(* export_candidate_image_impl up to the creation of the partial file.      *)
Authorize ==
    /\ phase = "planned" /\ layout.error = "none"
    /\ Authorized
    /\ \E chunk \in ReadChunks :
          /\ manifest' = ExpectedManifest(chunk)
          /\ phase' = IF manifest' = NoManifest THEN "refused" ELSE "copying"
    /\ UNCHANGED <<draft, layout, image, copied>>

Refuse ==
    /\ phase = "planned" /\ layout.error = "none"
    /\ ~Authorized
    /\ phase' = "refused"
    /\ UNCHANGED <<draft, layout, manifest, image, copied>>

Copy ==
    /\ phase = "copying"
    /\ copied < Len(Writes(draft, image, layout))
    /\ image' = Written(image, Writes(draft, image, layout)[copied + 1])
    /\ copied' = copied + 1
    /\ UNCHANGED <<draft, layout, phase, manifest>>

Activate ==
    /\ phase = "copying"
    /\ copied = Len(Writes(draft, image, layout))
    /\ image' = [u \in DOMAIN image |->
                    IF \E r \in ToSet(draft.reservations) : u \in Cells(r.range)
                    THEN Native ELSE image[u]]
    /\ phase' = "activated"
    /\ UNCHANGED <<draft, layout, manifest, copied>>

(* verify_candidate.                                                        *)
Verify ==
    /\ phase = "activated"
    /\ \E chunk \in ReadChunks :
          phase' = IF BuildManifest(PlainView(image, Target), Inspected(Target), chunk)
                      = manifest
                   THEN "verified" ELSE "mismatch"
    /\ UNCHANGED <<draft, layout, manifest, image, copied>>

Settled ==
    /\ layout # Unsolved
    /\ layout.error # "none" \/ phase \in {"refused", "verified", "mismatch"}
    /\ UNCHANGED vars

Next == Solve \/ Authorize \/ Refuse \/ Copy \/ Activate \/ Verify \/ Settled

Spec == Init /\ [][Next]_vars

-----------------------------------------------------------------------------
(* Until activation nothing of the source is overwritten: every unit that a *)
(* source stream or source metadata occupies still holds it, so abandoning  *)
(* the conversion leaves the source filesystem as it was.                   *)
SourceIntactUntilActivation ==
    phase \in {"planned", "refused", "copying"} =>
        LET before == SourceImage(draft) IN
        \A u \in DOMAIN image : before[u] # Free => image[u] = before[u]

(* Once the destination metadata is in place, every file stream read        *)
(* through the target graph gives what it gave through the source graph,    *)
(* and the verification of the destination agrees: the manifest that was    *)
(* expected through the relocated view before the first copy is the one     *)
(* that is built from the image, in whatever chunks either of them reads.   *)
PayloadSurvives ==
    /\ phase # "mismatch"
    /\ phase \in {"activated", "verified"} =>
        \A s \in ToSet(FileStreams(draft.graph)) :
            LET t == StreamById(Target, s.id) IN
            \A unit \in 0 .. s.logical - 1 :
                ReadUnit(Target, image, t, unit)
                    = ReadUnit(draft.graph, SourceImage(draft), s, unit)

(* A plan that is sealed can be expressed by the destination: every         *)
(* allocated range of a file lies on the cluster grid and in the domain,    *)
(* and no two of them share a unit. The export, which checks the plan again *)
(* with rules of its own, refuses it only for the number of its writes.     *)
TargetIsRepresentable ==
    /\ phase = "refused" => AppliedWrites(draft, layout) > MaxWrites
    /\ layout.error = "none" =>
        LET physical == PhysicalExtents(Target.extents)
            domain == LayoutInput(draft).domain IN
        \A i \in DOMAIN physical :
            /\ physical[i].at % Cluster = 0
            /\ domain.offset <= physical[i].at
            /\ End(Physical(physical[i])) <= End(domain)
            /\ \A j \in DOMAIN physical : j # i =>
                   ~Overlaps(Physical(physical[i]), Physical(physical[j]))
=============================================================================
