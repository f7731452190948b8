---------------------------- MODULE NtfsRoundTrip ----------------------------
(***************************************************************************)
(* An NTFS volume from plan to inspection: the destination is planned in   *)
(* place, or drafted, its payload moved and the plan finished; it is       *)
(* written, perhaps damaged, and inspected record by record.               *)
(*                                                                         *)
(* A job is [graph, profile, options, draft, damage]: the graph to write,  *)
(* whether it goes through a draft, and what happens to the image before   *)
(* it is inspected. A foreign job is [image, boot, pieces, listHost]: an   *)
(* MFT of another formatter, to be found through itself.                   *)
(***************************************************************************)
EXTENDS NtfsDestination, NtfsInventory

CONSTANTS Jobs,         \* jobs
          ForeignMfts,  \* foreign jobs
          MoveTargets,  \* clusters to which payload may be moved: a bound
          Nothing       \* a variable that has no value yet

VARIABLES job,
          stage,    \* what comes next
          draft,    \* the destination draft
          graph,    \* the graph with the payload where it is now
          plan,     \* the destination plan
          image,    \* what is on the disk
          boot,     \* its boot sector
          search,   \* discover_system_records under way
          system,   \* [evidence, volume]
          inv,      \* inventory_ntfs under way
          report    \* the inspection, or Invalid

vars == <<job, stage, draft, graph, plan, image, boot, search, system, inv, report>>
planning == <<draft, graph, plan>>
reading == <<boot, search, system, inv, report>>

-----------------------------------------------------------------------------
(* Payload on the disk: a stream is [data |-> id], sector by sector.        *)

PayloadWrite(extent) ==
    [at |-> extent.at \div SectorBytes, count |-> CeilDiv(extent.length, SectorBytes),
     of |-> [data |-> extent.stream], part |-> extent.logical \div SectorBytes + 1, usn |-> 0]

PayloadWrites(g) ==
    [e \in DOMAIN PhysicalExtents(g) |-> PayloadWrite(PhysicalExtents(g)[e])]

-----------------------------------------------------------------------------
Init ==
    /\ \/ /\ job \in Jobs
          /\ stage = (IF job.draft THEN "draft" ELSE "plan")
          /\ graph = job.graph /\ image = <<>> /\ boot = Nothing /\ search = Nothing
       \/ /\ job \in ForeignMfts
          /\ stage = "foreign"
          /\ graph = Nothing /\ image = job.image /\ boot = job.boot
          /\ search = StartSearch(job.image, job.boot)
    /\ draft = Nothing /\ plan = Nothing /\ system = Nothing /\ inv = Nothing /\ report = Nothing

(* plan_ntfs_destination: the payload stays where it is.                    *)
PlanInPlace(made) ==
    /\ stage = "plan"
    /\ plan' = made
    /\ stage' = IF plan' = Invalid THEN "refused" ELSE "write"
    /\ UNCHANGED draft

(* draft_ntfs_destination.                                                  *)
DraftDestination(made) ==
    /\ stage = "draft"
    /\ draft' = made
    /\ stage' = IF draft' = Invalid THEN "refused" ELSE "move"
    /\ UNCHANGED plan

(* finalize_ntfs_destination.                                               *)
FinalizeDestination(made) ==
    /\ stage = "finalize"
    /\ plan' = FinalizedAs(draft, made)
    /\ stage' = IF plan' = Invalid THEN "refused" ELSE "write"
    /\ UNCHANGED draft

(* All three go through plan_ntfs_destination_impl.                         *)
PlanDestination ==
    /\ stage \in {"plan", "draft", "finalize"}
    /\ \E made \in {PlanNtfs(graph, job.profile, job.options, stage = "draft")} :
          PlanInPlace(made) \/ DraftDestination(made) \/ FinalizeDestination(made)
    /\ UNCHANGED <<job, graph, image, reading>>

(* solve_lossless_exfat_to_ntfs up to finalize_ntfs_destination. Of the     *)
(* solver (geometry.rs, module Geometry) only what it guarantees is kept:   *)
(* every extent of file data is somewhere inside the volume where the draft *)
(* reserves nothing and no other extent is. Of those places, MoveTargets    *)
(* are tried.                                                               *)
RangeIsFree(range) ==
    /\ End(range) <= CountClusters(graph.bytes, job.options.cluster) * job.options.cluster
    /\ \A r \in DOMAIN draft.reservations : ~Overlaps(range, draft.reservations[r])

Moved(targets) ==
    [e \in DOMAIN graph.extents |->
        IF graph.extents[e].at = Hole THEN graph.extents[e]
        ELSE [graph.extents[e] EXCEPT !.at = targets[e] * job.options.cluster]]

RangesOf(extents) ==
    [e \in DOMAIN Where(extents, LAMBDA x : x.at # Hole) |->
        ByteRange(Where(extents, LAMBDA x : x.at # Hole)[e].at, Where(extents, LAMBDA x : x.at # Hole)[e].length)]

PlacesAreFree(ranges) ==
    /\ \A r \in DOMAIN ranges : RangeIsFree(ranges[r])
    /\ \A r, s \in DOMAIN ranges : r # s => ~Overlaps(ranges[r], ranges[s])

MovePayload ==
    /\ stage = "move"
    /\ \E targets \in [DOMAIN graph.extents -> MoveTargets] :
          /\ PlacesAreFree(RangesOf(Moved(targets)))
          /\ graph' = [graph EXCEPT !.extents = Moved(targets)]
    /\ stage' = "finalize"
    /\ UNCHANGED <<job, draft, plan, image, reading>>

(* The executor applies the writes in their order: the plan's own, then the *)
(* backup boot sector, then the primary one.                                *)
WriteVolume ==
    /\ stage = "write"
    /\ image' = PayloadWrites(graph) \o plan.staging \o <<plan.backup, plan.primary>>
    /\ stage' = "written"
    /\ UNCHANGED <<job, planning, reading>>

-----------------------------------------------------------------------------
(* Damage: a sector keeps what an earlier version of it held, or a bitmap   *)
(* is wrong in one bit.                                                     *)

(* The sector of an older version, taken to carry another update sequence   *)
(* number, as one of another driver does: the writer itself stamps every    *)
(* record and block with the same number, so that a sector of an earlier    *)
(* plan of its own would pass for one of this plan.                         *)
OlderSector(write, s) ==
    [at |-> write.at + s, count |-> 1, of |-> [older |-> write.of], part |-> s + 1, usn |-> write.usn + 1]

Flip(bits, b) == IF b \in bits THEN bits \ {b} ELSE bits \cup {b}

StructuresOn(kind) == {w \in DOMAIN image : image[w].of # Zeroed /\ kind \in DOMAIN image[w].of}

TornImages(kind) ==
    {Append(image, OlderSector(image[w], s)) :
        w \in StructuresOn(kind), s \in {0, 1}}

FlippedImages(flips) ==
    UNION {{Append(image, [image[w] EXCEPT !.of.bits = Flip(@, b)]) :
               b \in {f \in flips : f < 8 * image[w].of.bytes}} : w \in StructuresOn("bits")}

DamagedImages ==
    CASE job.damage.kind = "torn" -> TornImages(job.damage.of)
      [] job.damage.kind = "flipped" -> FlippedImages(job.damage.bits)
      [] OTHER -> {image}

Damage ==
    /\ stage = "written"
    /\ image' \in DamagedImages
    /\ stage' = "inspect"
    /\ UNCHANGED <<job, planning, reading>>

-----------------------------------------------------------------------------
(* inspect_ntfs.                                                            *)

RefuseImage == /\ stage' = "done" /\ report' = Invalid

ReadBoot ==
    /\ stage = "inspect"
    /\ \E value \in {SectorAt(image, 0).of} :
          IF ReadsBoot(image, job.graph.bytes, value)
          THEN /\ boot' = value /\ search' = StartSearch(image, value)
               /\ stage' = "search" /\ UNCHANGED report
          ELSE RefuseImage /\ UNCHANGED <<boot, search>>
    /\ UNCHANGED <<job, planning, image, system, inv>>

(* A turn of extend_mft_mapping_from_attribute_list.                        *)
SearchTurn ==
    /\ stage \in {"search", "foreign"}
    /\ search.state = "search"
    /\ search' = Turn(image, boot, search.base, search)
    /\ UNCHANGED <<job, stage, planning, image, boot, system, inv, report>>

ReadSystem ==
    /\ stage = "search"
    /\ search.state # "search"
    /\ \E found \in {IF search.state = "refused" THEN Invalid
                     ELSE DiscoverSystemRecords(image, boot, search.mft)} :
       \E volume \in {IF search.state = "refused" THEN Invalid
                      ELSE DiscoverVolume(image, boot, search.mft)} :
          IF found = Invalid \/ volume = Invalid
          THEN RefuseImage /\ UNCHANGED <<system, inv>>
          ELSE /\ system' = [evidence |-> found, volume |-> volume]
               /\ inv' = StartInventory(search.mft, boot)
               /\ stage' = "scan" /\ UNCHANGED report
    /\ UNCHANGED <<job, planning, image, boot, search>>

(* One record of inventory_ntfs.                                            *)
ScanRecord ==
    /\ stage = "scan"
    /\ inv.state = "scan"
    /\ inv' = InventoryStep(image, boot, search.mft, inv)
    /\ UNCHANGED <<job, stage, planning, image, boot, search, system, report>>

Conclude ==
    /\ stage = "scan"
    /\ inv.state # "scan"
    /\ stage' = "done"
    /\ report' = IF inv.state = "refused" THEN Invalid
                 ELSE ConcludeInspection(image, boot, search.mft, inv, system.volume, system.evidence)
    /\ UNCHANGED <<job, planning, image, boot, search, system, inv>>

Finished ==
    /\ stage \in {"done", "refused"} \/ (stage = "foreign" /\ search.state # "search")
    /\ UNCHANGED vars

Next ==
    \/ PlanDestination \/ MovePayload \/ WriteVolume \/ Damage
    \/ ReadBoot \/ SearchTurn \/ ReadSystem \/ ScanRecord \/ Conclude \/ Finished

Spec == Init /\ [][Next]_vars
-----------------------------------------------------------------------------
(* What was promised, and what the inspection found.                        *)

(* The sectors of a stream: where they were written and which they are.     *)
SectorsOf(stream) == 0 .. CeilDiv(stream.logical, SectorBytes) - 1

InHole(stream, s) ==
    \E e \in DOMAIN graph.extents :
        /\ graph.extents[e].stream = stream.id /\ graph.extents[e].at = Hole
        /\ s * SectorBytes \in graph.extents[e].logical ..
                                 graph.extents[e].logical + graph.extents[e].length - 1

PromisedSectors(stream) ==
    [s \in SectorsOf(stream) |-> IF InHole(stream, s) THEN Zeroed ELSE [data |-> stream.id, sector |-> s]]

PromisedStream(stream) ==
    [name |-> stream.name, bytes |-> stream.logical, sectors |-> PromisedSectors(stream)]

(* A file always has unnamed data, if only empty data.                      *)
PromisedStreams(i) ==
    LET streams == job.graph.objects[i].streams
    IN IF ~job.graph.objects[i].directory /\ streams = <<>>
       THEN {[name |-> <<>>, bytes |-> 0, sectors |-> [s \in {} |-> Zeroed]]}
       ELSE {PromisedStream(streams[s]) : s \in DOMAIN streams}

PromisedNames(i) ==
    {[parent |-> RecordOf(job.graph.entries[e].parent), name |-> job.graph.entries[e].name] :
        e \in {k \in DOMAIN job.graph.entries : job.graph.entries[k].target = i}}

PromisedEntries(i) ==
    {[target |-> RecordOf(job.graph.entries[e].target), name |-> job.graph.entries[e].name] :
        e \in {k \in DOMAIN job.graph.entries : job.graph.entries[k].parent = i}}

Promised ==
    {[record |-> RecordOf(i), directory |-> job.graph.objects[i].directory,
      names |-> PromisedNames(i), entries |-> PromisedEntries(i), streams |-> PromisedStreams(i),
      reparse |-> job.profile.reparse[i], descriptor |-> job.profile.security[i],
      times |-> job.profile.metadata[i].times,
      security |-> job.profile.metadata[i].security] : i \in DOMAIN job.graph.objects}

(* The content of a stream as an application would read it.                 *)
SectorContent(sector) ==
    IF sector.of = Zeroed THEN Zeroed
    ELSE IF sector.of = Garbage THEN Garbage
    ELSE IF "data" \in DOMAIN sector.of THEN [data |-> sector.of.data, sector |-> sector.part - 1]
    ELSE Garbage

ExtentAt(stream, s) ==
    LET holding == {e \in DOMAIN stream.extents :
                       s * SectorBytes \in stream.extents[e].logical ..
                                stream.extents[e].logical + stream.extents[e].length - 1}
    IN stream.extents[Min(holding)]

MappedContent(stream, extent, s) ==
    IF extent.physical = Hole THEN Zeroed
    ELSE SectorContent(SectorAt(image, (extent.physical - extent.logical) \div SectorBytes + s))

FoundSectors(stream) ==
    [s \in 0 .. CeilDiv(stream.data, SectorBytes) - 1 |->
        IF stream.resident THEN [data |-> stream.payload.data, sector |-> s]
        ELSE MappedContent(stream, ExtentAt(stream, s), s)]

FoundStream(stream) == [name |-> stream.name, bytes |-> stream.data, sectors |-> FoundSectors(stream)]

(* Names and entries of the system itself are left aside.                   *)
IsUser(record) == record = RootRecord \/ record >= FirstUserRecord

FoundNames(object) ==
    {[parent |-> object.names[n].parent.record, name |-> object.names[n].name] :
        n \in {k \in DOMAIN object.names : object.names[k].name # RootName.name}}

FoundEntries(object) ==
    {[target |-> object.entries[n].target.record, name |-> object.entries[n].key.name] :
        n \in {k \in DOMAIN object.entries : object.entries[k].target.record >= FirstUserRecord}}

FoundObject(object) ==
    [record |-> object.record, directory |-> object.directory,
     names |-> FoundNames(object), entries |-> FoundEntries(object),
     streams |-> {FoundStream(object.streams[s]) : s \in DOMAIN object.streams},
     reparse |-> object.reparse, descriptor |-> object.security,
     times |-> object.standard.times, security |-> object.standard.security]

Found == {FoundObject(report.objects[o]) : o \in {k \in DOMAIN report.objects : IsUser(report.objects[k].record)}}

(* The writer gives $Bitmap a byte for every eight clusters, the reader     *)
(* accepts whole units of eight bytes.                                      *)
BitmapHasReadableLength ==
    CeilDiv(CountClusters(job.graph.bytes, job.options.cluster), 8) % 8 = 0

(* What a plan promised the inspection finds, when nothing happened to the  *)
(* volume in between: every object with its names, entries, times, reparse  *)
(* point, security and, byte for byte, its streams, wherever the writer had *)
(* to put them (attribute lists, extension records, spilled index trees,    *)
(* overflowing streams, moved payload); and it finds the volume complete    *)
(* and clean, its bitmaps and its mirror exact. That holds of the volumes   *)
(* whose number of clusters gives $Bitmap a length the reader accepts; all  *)
(* others are refused, although nothing else is wrong with them.            *)
WrittenNtfsIsRead ==
    stage = "done" /\ job.damage.kind = "none" =>
        IF BitmapHasReadableLength
        THEN /\ report # Invalid
             /\ report.complete /\ report.health = "clean" /\ report.security # "unavailable"
             /\ Found = Promised
        ELSE report = Invalid

(* A volume with one torn sector in a record or index block, its update     *)
(* sequence number another than the writer's, or with one wrong bit in a    *)
(* bitmap, is not reported clean.                                           *)
NtfsDamageIsNoticed ==
    stage = "done" /\ job.damage.kind # "none" => \/ report = Invalid
                                                  \/ report.health # "clean"

-----------------------------------------------------------------------------
(* What is known of a foreign MFT: its pieces [low, past, lcn, host], and   *)
(* the record that hosts the rest of the list that names them (0: none).    *)

HoldsRecord(known, n) ==
    \A v \in {2 * n, 2 * n + 1} :
        \E p \in known : job.pieces[p].low <= v /\ v < job.pieces[p].past

(* Pieces from which no further one can be learnt.                          *)
NothingToLearn(known) ==
    \/ job.listHost # 0 /\ ~HoldsRecord(known, job.listHost)
    \/ \A p \in DOMAIN job.pieces \ known : ~HoldsRecord(known, job.pieces[p].host)

CanBeFound == \A known \in SUBSET DOMAIN job.pieces : 1 \in known /\ NothingToLearn(known) => known = DOMAIN job.pieces

(* extend_mft_mapping_from_attribute_list finds the whole MFT exactly when  *)
(* its pieces can be learnt one from another in some order, however they    *)
(* are scattered; it never maps a cluster of the MFT wrongly, and never     *)
(* gives up with an error on an MFT that is in order.                       *)
MftMappingIsExact ==
    stage = "foreign" /\ search.state # "search" =>
        /\ search.state = "done"
        /\ MappingComplete(search.mft, boot) <=> CanBeFound
        /\ \A v \in 0 .. search.mft.next - 1 :
              \E e \in DOMAIN search.mft.extents, p \in DOMAIN job.pieces :
                 LET x == search.mft.extents[e] IN
                 /\ v \in x.vcn .. x.vcn + x.length - 1
                 /\ v \in job.pieces[p].low .. job.pieces[p].past - 1
                 /\ x.lcn - x.vcn = job.pieces[p].lcn - job.pieces[p].low
=============================================================================
