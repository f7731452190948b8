----------------------------- MODULE ImageViews ------------------------------
(***************************************************************************)
(* Byte-level views of an image: the candidate overlay (overlay.rs), the    *)
(* before-images of the writes (preimage.rs), the phases they are sorted    *)
(* into (phase.rs), the original seen through a half-written image          *)
(* (source_view.rs) and the classification of what a write group left       *)
(* behind (activation_bytes.rs). A write is [offset, bytes].                *)
(***************************************************************************)
EXTENDS Ranges

CONSTANTS ImageBytes,       \* length of the image
          Sector,           \* sector_bytes of the overlay
          MaxWrites,        \* max_writes of every limit
          MaxBytes,         \* max_total_bytes, max_replacement_bytes, ...
          Chunks            \* effective chunk sizes of a reader

WriteSet == [offset : Nat, bytes : Seq(Nat)]

Extents(write) == ByteRange(write.offset, Len(write.bytes))

OrderedWrites(writes) == SortedBy(writes, Extents)
TotalBytes(writes) == SumOf(writes, LAMBDA w : Len(w.bytes))

Apart(writes) == NeighboursApart(writes, Extents)

Inside(write) == write.bytes # <<>> /\ End(Extents(write)) <= ImageBytes

(* OverlayPlan::build.                                                      *)
OverlayAccepted(writes) ==
    /\ Len(writes) <= MaxWrites /\ TotalBytes(writes) <= MaxBytes
    /\ \A w \in ToSet(writes) :
          /\ Inside(w)
          /\ w.offset % Sector = 0 /\ Len(w.bytes) % Sector = 0
    /\ Apart(OrderedWrites(writes))

ReadBase(image, offset, length) == [i \in 1 .. length |-> image[offset + i - 1]]

(* apply_intersections: later writes win, which the build excludes.         *)
ApplyIntersections(writes, offset, output) ==
    LET Covering(u) == {k \in DOMAIN writes : u \in Cells(Extents(writes[k]))}
        ByteAt(u, w) == w.bytes[u - w.offset + 1]
        Seen(i, covering) ==
            IF covering = {} THEN output[i]
            ELSE ByteAt(offset + i - 1, writes[Max(covering)])
    IN [i \in DOMAIN output |-> Seen(i, Covering(offset + i - 1))]

(* OverlayReader::read_exact_at.                                            *)
ReadOverlay(image, writes, offset, length) ==
    ApplyIntersections(OrderedWrites(writes), offset, ReadBase(image, offset, length))

-----------------------------------------------------------------------------
(* A range read in chunks of at most chunk bytes: byte i comes with the     *)
(* chunk that starts at or before it.                                       *)
InChunks(Read(_, _), offset, length, chunk) ==
    LET Start(i) == AlignDown(i - 1, chunk)
        Part(i) == Read(offset + Start(i), Min({chunk, length - Start(i)}))
    IN [i \in 1 .. length |-> Part(i)[i - Start(i)]]

(* capture_before_images_with_reader.                                       *)
CaptureAccepted(writes) ==
    /\ Len(writes) <= MaxWrites /\ TotalBytes(writes) <= MaxBytes
    /\ \A w \in ToSet(writes) : Inside(w)
    /\ Apart(OrderedWrites(writes))

BeforeImages(image, writes, chunk) ==
    LET ordered == OrderedWrites(writes) IN
    [i \in DOMAIN ordered |->
        [offset |-> ordered[i].offset,
         bytes |-> InChunks(LAMBDA o, n : ReadBase(image, o, n),
                            ordered[i].offset, Len(ordered[i].bytes), chunk)]]

-----------------------------------------------------------------------------
(* containing_reservations: the one reservation that holds a write.         *)
Containing(write, reservations) ==
    {r \in ToSet(reservations) : r.range.offset <= write.offset
                                 /\ End(Extents(write)) <= End(r.range)}

StagingReserved(write, reservations) ==
    /\ Cardinality(Containing(write, reservations)) = 1
    /\ \A r \in Containing(write, reservations) : r.kind \notin {"boot", "capsule"}

BootReserved(write, reservations) ==
    /\ Cardinality(Containing(write, reservations)) = 1
    /\ \A r \in Containing(write, reservations) : r.kind = "boot"

(* plan is [reservations, staging, backup, activation, gaps].               *)
PhaseWritesAccepted(plan) ==
    LET all == plan.staging \o <<plan.backup, plan.activation>> IN
    /\ plan.staging # <<>> /\ plan.backup.bytes # <<>> /\ plan.activation.bytes # <<>>
    /\ Len(all) <= MaxWrites /\ TotalBytes(all) <= MaxBytes
    /\ \A w \in ToSet(plan.staging) : StagingReserved(w, plan.reservations)
    /\ BootReserved(plan.backup, plan.reservations)
    /\ BootReserved(plan.activation, plan.reservations)
    /\ CaptureAccepted(plan.staging)
    /\ CaptureAccepted(<<plan.backup>>) /\ CaptureAccepted(<<plan.activation>>)

(* prepare_exfat_phase_writes, prepare_ntfs_phase_writes: a preview is      *)
(* authorized only where the serializer reports no gap.                     *)
Authorized(plan) == plan.gaps = {} /\ PhaseWritesAccepted(plan)

Groups == <<"staging", "backup", "activation">>

After(plan, group) ==
    CASE group = "staging" -> OrderedWrites(plan.staging)
      [] group = "backup" -> <<plan.backup>>
      [] group = "activation" -> <<plan.activation>>

-----------------------------------------------------------------------------
(* VirtualOriginalReader::new: masks are given in order and apart.          *)
MasksAccepted(masks) ==
    /\ Len(masks) <= MaxWrites /\ TotalBytes(masks) <= MaxBytes
    /\ \A m \in ToSet(masks) : Inside(m)
    /\ \A i \in 1 .. Len(masks) - 1 : masks[i].offset < masks[i + 1].offset
    /\ Apart(masks)

(* Mutant: a mask that starts before the chunk is skipped.                  *)
MasksFromChunkStart(image, masks, offset, length) ==
    LET starting == SelectSeq(masks, LAMBDA m : m.offset \in offset .. offset + length - 1)
    IN ApplyIntersections(starting, offset, ReadBase(image, offset, length))

(* VirtualOriginalReader::read_exact_at stops at the first mask beyond the  *)
(* read.                                                                    *)
ReadVirtualOriginal(image, masks, offset, length) ==
    LET beyond == {i \in DOMAIN masks : masks[i].offset >= offset + length}
        met == SubSeq(masks, 1, Min(beyond \cup {Len(masks) + 1}) - 1) IN
    ApplyIntersections(met, offset, ReadBase(image, offset, length))

(* digest_source_view: two digests are equal when the bytes are.            *)
DigestSourceView(image, masks, chunk) ==
    InChunks(LAMBDA o, n : ReadVirtualOriginal(image, masks, o, n), 0, ImageBytes, chunk)

-----------------------------------------------------------------------------
ValidGroup(before, after) ==
    /\ before # <<>> /\ Len(before) = Len(after)
    /\ MasksAccepted(before) /\ MasksAccepted(after)
    /\ \A i \in DOMAIN before : Extents(before[i]) = Extents(after[i])

(* Mutant: the bytes of every chunk are judged from the group's first.      *)
ClassifiesFirstChunk(image, before, after, chunk) ==
    LET n == Min({chunk, Len(before[1].bytes)})
        seen == ReadBase(image, before[1].offset, n) IN
    IF seen = SubSeq(before[1].bytes, 1, n) THEN "before"
    ELSE IF seen = SubSeq(after[1].bytes, 1, n) THEN "after"
    ELSE IF \A i \in 1 .. n : seen[i] \in {before[1].bytes[i], after[1].bytes[i]} THEN "mixed"
    ELSE "third"

(* classify_write_group.                                                    *)
ClassifyWriteGroup(image, before, after, chunk) ==
    LET Observed(w) == InChunks(LAMBDA o, n : ReadBase(image, o, n),
                                w.offset, Len(w.bytes), chunk)
        Each(P(_, _)) == \A i \in DOMAIN before : P(i, Observed(before[i])) IN
    IF Each(LAMBDA i, seen : seen = before[i].bytes) THEN "before"
    ELSE IF Each(LAMBDA i, seen : seen = after[i].bytes) THEN "after"
    ELSE IF Each(LAMBDA i, seen : \A j \in DOMAIN seen :
                    seen[j] \in {before[i].bytes[j], after[i].bytes[j]}) THEN "mixed"
    ELSE "third"
=============================================================================
