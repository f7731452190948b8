----------------------------- MODULE ExfatWriter -----------------------------
(***************************************************************************)
(* Writing an exFAT volume around payload that stays where it is            *)
(* (exfat_serialize.rs), and the draft that fixes the metadata before the   *)
(* payload has been moved out of its way.                                   *)
(*                                                                         *)
(* A graph is [bytes, objects, other]: objects[1] is the root; an object is *)
(* [directory, parent, name, plain, sound, metadata, logical, initialized,  *)
(* resident, extents]; other holds the extents of source directories.       *)
(* `plain` is a single ordinary stream and none of the NTFS-only semantics, *)
(* `sound` valid attributes and timestamps.                                 *)
(***************************************************************************)
EXTENDS ExfatVolume

CONSTANT None

Final == "final"
Draft == "draft"

(* Owners of metadata: directories are objects, 1 and up.                   *)
BitmapId == 0
UpcaseId == -1

ValidProfile(profile) ==
    /\ profile.clean                            \* no evidence that would be lost
    /\ profile.badCount = Len(profile.bad)
    /\ profile.label = None \/ LegalLabel(profile.label)

GeometryOf(bytes, options) ==
    LET found == ChooseGeometry(bytes, options)
    IN IF ~ (ValidOptions(bytes, options) /\ GeometryFits(bytes \div options.sector, found))
       THEN Refused
       ELSE [bytes |-> bytes, sector |-> options.sector, cluster |-> options.cluster,
             fat |-> found.fat, heap |-> found.heap * options.sector, count |-> found.count]

Heap(geometry) == FirstCluster .. geometry.count + 1
HeapEnd(geometry) == geometry.heap + geometry.count * geometry.cluster
ClusterOffset(geometry, cluster) == geometry.heap + (cluster - FirstCluster) * geometry.cluster

-----------------------------------------------------------------------------
(* What a graph must be                                                     *)

MappedBytes(object) ==
    IF object.resident THEN object.logical ELSE SumOf(object.extents, LAMBDA r : r.length)

FileAccepted(geometry, file, mode) ==
    /\ file.logical = 0 => file.resident
    /\ file.logical > 0 /\ mode = Final =>
          ~ file.resident /\ MappedBytes(file) % geometry.cluster = 0

ChildrenOf(graph, parent) == {i \in DOMAIN graph.objects : graph.objects[i].parent = parent}

(* Names in the order of their code units.                                  *)
NameBefore(left, right) ==
    \E k \in 0 .. Len(left) :
        /\ k <= Len(right) /\ SubSeq(left, 1, k) = SubSeq(right, 1, k)
        /\ \/ k = Len(left) /\ k < Len(right)
           \/ k < Len(left) /\ k < Len(right) /\ left[k + 1] < right[k + 1]

SortedChildren(graph, parent) ==
    SetToSortSeq(ChildrenOf(graph, parent),
                 LAMBDA i, j : NameBefore(graph.objects[i].name, graph.objects[j].name))

GraphAccepted(graph, geometry, map, mode) ==
    /\ \A i \in DOMAIN graph.objects :
          LET object == graph.objects[i] IN
          /\ object.plain
          /\ i # 1 => object.sound /\ LegalName(object.name)
          /\ object.directory \/ FileAccepted(geometry, object, mode)
    /\ \A i, j \in DOMAIN graph.objects \ {1} :
          /\ i # j /\ graph.objects[i].parent = graph.objects[j].parent
          => UpcaseName(map, graph.objects[i].name) # UpcaseName(map, graph.objects[j].name)

-----------------------------------------------------------------------------
(* The heap: bad clusters, stale boot sectors, payload                      *)

(* Every cluster a bad range touches; the volume's own ranges may be finer. *)
BadClusters(geometry, ranges) ==
    LET lcns == UNION {r.offset \div geometry.cluster .. (End(r) - 1) \div geometry.cluster :
                       r \in Range(ranges)}
        offsets == {lcn * geometry.cluster : lcn \in lcns}
    IN IF \/ \E r \in Range(ranges) : r.length = 0 \/ End(r) > geometry.bytes
          \/ \E o \in offsets : o < geometry.heap \/ o + geometry.cluster > HeapEnd(geometry)
       THEN Refused ELSE {(o - geometry.heap) \div geometry.cluster + FirstCluster : o \in offsets}

Within(range, from, to) == range.offset >= from /\ End(range) <= to
Touches(range, from, to) == End(range) > from /\ range.offset < to

(* Sectors that still hold a boot sector of the old volume are zeroed,      *)
(* unless the new metadata covers them; a heap cluster that holds one is    *)
(* kept from everyone (plan_stale_boot_sector_scrubs).                      *)
StaleScrubs(geometry, ranges, bad) ==
    LET bootEnd == BootSectors * geometry.sector
        fatEnd == bootEnd + geometry.fat * geometry.sector
        regions == <<<<0, bootEnd>>, <<bootEnd, fatEnd>>, <<geometry.heap, HeapEnd(geometry)>>>>
        InHeap(r) == Touches(r, geometry.heap, HeapEnd(geometry))
        ClusterAt(offset) == (offset - geometry.heap) \div geometry.cluster + FirstCluster
        Covering(r) == IF InHeap(r) THEN ClusterAt(r.offset) ELSE None
        wanted == SelectSeq(ranges, LAMBDA r :
                     ~ Touches(r, 0, fatEnd) /\ ~ (InHeap(r) /\ ClusterAt(r.offset) \in bad))
    IN IF /\ \A r \in Range(ranges) :
                /\ r.length \in 1 .. bootEnd /\ End(r) <= geometry.bytes
                /\ r.offset % geometry.sector = 0 /\ r.length % geometry.sector = 0
                /\ \A k \in 1 .. 3 : Touches(r, regions[k][1], regions[k][2])
                                         => Within(r, regions[k][1], regions[k][2])
                /\ InHeap(r) => ClusterAt(r.offset) = ClusterAt(End(r) - 1)
          /\ \A i, j \in DOMAIN wanted :
                i # j => /\ ~ Overlaps(wanted[i], wanted[j])
                         /\ Covering(wanted[i]) = None \/ Covering(wanted[i]) # Covering(wanted[j])
       THEN [i \in DOMAIN wanted |-> [range |-> wanted[i], cluster |-> Covering(wanted[i])]]
       ELSE Refused

ScrubbedClusters(scrubs) == {s.cluster : s \in Range(scrubs)} \ {None}

ClustersOf(geometry, range) ==
    LET first == (range.offset - geometry.heap) \div geometry.cluster + FirstCluster
    IN [i \in 1 .. range.length \div geometry.cluster |-> first + i - 1]

OnClusters(geometry, range) ==
    /\ range.length % geometry.cluster = 0
    /\ range.offset >= geometry.heap /\ (range.offset - geometry.heap) % geometry.cluster = 0
    /\ End(range) <= HeapEnd(geometry)

FileClusters(geometry, file) ==
    FoldLeft(LAMBDA clusters, r : clusters \o ClustersOf(geometry, r), <<>>, file.extents)

Files(graph) == {i \in DOMAIN graph.objects : ~ graph.objects[i].directory}

(* A draft leaves file payload out: it is still where the source has it.    *)
Payload(graph, geometry, mode) ==
    [i \in DOMAIN graph.objects |->
        IF mode = Final /\ i \in Files(graph)
        THEN FileClusters(geometry, graph.objects[i]) ELSE <<>>]

PayloadFits(graph, geometry, mode, occupied) ==
    LET fixed == graph.other
        moving == FoldLeft(LAMBDA all, o : all \o (IF o.directory THEN <<>> ELSE o.extents),
                           <<>>, graph.objects)
        placed == IF mode = Final THEN fixed \o moving ELSE fixed
        clusters == FoldLeft(LAMBDA all, r : all \o ClustersOf(geometry, r), <<>>, placed)
    IN /\ \A r \in Range(placed) : OnClusters(geometry, r)
       /\ IsInjective(clusters)
       /\ Range(clusters) \cap occupied = {}

PlacedClusters(graph, geometry, mode) ==
    UNION {Range(ClustersOf(geometry, r)) : r \in Range(graph.other)}
    \cup UNION {Range(Payload(graph, geometry, mode)[i]) : i \in DOMAIN graph.objects}

-----------------------------------------------------------------------------
(* Metadata                                                                 *)

RECURSIVE DirectoriesFrom(_, _)
DirectoriesFrom(graph, order) ==
    IF order = <<>> THEN <<>>
    ELSE LET below == SelectSeq(SortedChildren(graph, Head(order)),
                                LAMBDA i : graph.objects[i].directory)
         IN <<Head(order)>> \o DirectoriesFrom(graph, Tail(order) \o below)

DirectoryOrder(graph) == DirectoriesFrom(graph, <<1>>)

SetLength(name) == 2 + NameEntries(Len(name))

(* Its entries and the end marker.                                          *)
DirectoryBytes(graph, directory, profile) ==
    LET system == IF directory # 1 THEN 0 ELSE IF profile.label = None THEN 2 ELSE 3
    IN EntryBytes * (1 + system + SumOf(SortedChildren(graph, directory),
                                       LAMBDA i : SetLength(graph.objects[i].name)))

(* What needs room, in the order in which it gets some: the bitmap, the     *)
(* up-case table and the directories, with the clusters each takes.         *)
Demands(graph, geometry, profile) ==
    LET order == DirectoryOrder(graph)
        Clusters(bytes) == CeilDiv(bytes, geometry.cluster)
    IN <<[of |-> BitmapId, count |-> Clusters(CeilDiv(geometry.count, 8))],
         [of |-> UpcaseId, count |-> Clusters(2 * Len(profile.table))]>>
       \o [i \in DOMAIN order |->
             [of |-> order[i], count |-> Clusters(DirectoryBytes(graph, order[i], profile))]]

FirstFit(geometry, occupied, count) ==
    LET starts == {c \in Heap(geometry) :
                     c .. c + count - 1 \subseteq Heap(geometry) \ occupied}
    IN IF starts = {} THEN None ELSE Min(starts)

(* First fit, or the place a draft has pinned.                              *)
Allocate(geometry, occupied, demands, pinned) ==
    FoldLeft(
        LAMBDA sofar, i :
            LET demand == demands[i]
                first == IF pinned = None THEN FirstFit(geometry, sofar.occupied, demand.count)
                         ELSE pinned[i].first
                taken == first .. first + demand.count - 1
            IN IF sofar.ok = FALSE \/ demand.count = 0 \/ first = None THEN [sofar EXCEPT !.ok = FALSE]
               ELSE [ok |-> taken \subseteq Heap(geometry) \ sofar.occupied,
                     occupied |-> sofar.occupied \cup taken,
                     at |-> Append(sofar.at, [of |-> demand.of, first |-> first,
                                              count |-> demand.count])],
        [ok |-> TRUE, occupied |-> occupied, at |-> <<>>], [i \in DOMAIN demands |-> i])

PinnedMatches(demands, pinned) ==
    \/ pinned = None
    \/ /\ Len(pinned) = Len(demands)
       /\ \A i \in DOMAIN demands :
             pinned[i].of = demands[i].of /\ pinned[i].count = demands[i].count

Expand(allocation) == [i \in 1 .. allocation.count |-> allocation.first + i - 1]

AllocationOf(at, of) == CHOOSE a \in Range(at) : a.of = of
Contiguous(clusters) == \A i \in 1 .. Len(clusters) - 1 : clusters[i + 1] = clusters[i] + 1

-----------------------------------------------------------------------------
(* Entries                                                                  *)

Pieces(name) ==
    [i \in 1 .. NameEntries(Len(name)) |->
        [type |-> "name",
         units |-> SubSeq(name, (i - 1) * UnitsPerName + 1, Min({Len(name), i * UnitsPerName}))]]

Checked(set) == [set EXCEPT ![1].checksum = SetChecksum(set)]

FileSet(object, map, stream) ==
    Checked(<<[type |-> "file", secondaries |-> SetLength(object.name) - 1, checksum |-> 0,
               sound |-> TRUE, directory |-> object.directory, metadata |-> object.metadata],
              [type |-> "stream", nameLength |-> Len(object.name), hash |-> NameHash(map, object.name),
               valid |-> stream.valid, length |-> stream.length, first |-> stream.first,
               noFatChain |-> stream.noFatChain]>> \o Pieces(object.name))

AssumesContiguous(object, geometry, allocation, clusters) ==
    IF object.directory
    THEN [first |-> allocation.first, valid |-> allocation.count * geometry.cluster,
          length |-> allocation.count * geometry.cluster, noFatChain |-> TRUE]
    ELSE [first |-> IF clusters = <<>> THEN 0 ELSE clusters[1], valid |-> object.initialized,
          length |-> object.logical, noFatChain |-> clusters # <<>>]

StreamOf(object, geometry, allocation, clusters) ==
    IF object.directory
    THEN [first |-> allocation.first, valid |-> allocation.count * geometry.cluster,
          length |-> allocation.count * geometry.cluster, noFatChain |-> TRUE]
    ELSE [first |-> IF clusters = <<>> THEN 0 ELSE clusters[1], valid |-> object.initialized,
          length |-> object.logical, noFatChain |-> clusters # <<>> /\ Contiguous(clusters)]

SystemEntries(geometry, at, profile) ==
    (IF profile.label = None THEN <<>> ELSE <<[type |-> "label", units |-> profile.label]>>)
    \o <<[type |-> "bitmap", id |-> 0, first |-> AllocationOf(at, BitmapId).first,
          length |-> CeilDiv(geometry.count, 8)],
         [type |-> "upcase", first |-> AllocationOf(at, UpcaseId).first,
          length |-> 2 * Len(profile.table), checksum |-> profile.checksum]>>

DirectoryEntries(graph, geometry, at, payload, map, profile, directory) ==
    FoldLeft(LAMBDA entries, i :
                 LET object == graph.objects[i]
                     own == IF object.directory THEN AllocationOf(at, i) ELSE None
                 IN entries \o FileSet(object, map, StreamOf(object, geometry, own, payload[i])),
             IF directory = 1 THEN SystemEntries(geometry, at, profile) ELSE <<>>,
             SortedChildren(graph, directory))

(* The entries of the k-th cluster; the rest of the last one is zero.       *)
InCluster(entries, geometry, k) ==
    LET per == geometry.cluster \div EntryBytes
    IN [i \in 1 .. per |-> IF (k - 1) * per + i <= Len(entries)
                           THEN entries[(k - 1) * per + i] ELSE [type |-> "end"]]

-----------------------------------------------------------------------------
(* The plan (serialize_exfat_destination_impl)                              *)

(* The sequence of clusters as links of a FAT.                              *)
ChainLinks(clusters) ==
    [c \in Range(clusters) |->
        LET i == CHOOSE i \in DOMAIN clusters : clusters[i] = c
        IN IF i = Len(clusters) THEN EndOfChain ELSE clusters[i + 1]]

FatOf(geometry, at, payload, bad) ==
    LET chained == <<Expand(AllocationOf(at, BitmapId)), Expand(AllocationOf(at, UpcaseId)),
                     Expand(AllocationOf(at, 1))>>
                   \o SelectSeq(payload, LAMBDA clusters : ~ Contiguous(clusters))
        links == FoldLeft(LAMBDA all, clusters : ChainLinks(clusters) @@ all, <<>>, chained)
    IN [c \in Heap(geometry) |-> IF c \in DOMAIN links THEN links[c]
                                 ELSE IF c \in bad THEN BadCluster ELSE Free]

AllocatedClusters(at, payload, bad) ==
    UNION {Range(Expand(a)) : a \in Range(at)} \cup UNION {Range(p) : p \in Range(payload)} \cup bad

BootReservations(geometry) ==
    {ByteRange(0, 12 * geometry.sector), ByteRange(12 * geometry.sector, 12 * geometry.sector),
     ByteRange(24 * geometry.sector, geometry.fat * geometry.sector)}

ForgetsScrubs(geometry, at, bad, scrubs) ==
    BootReservations(geometry)
    \cup {ByteRange(ClusterOffset(geometry, a.first), a.count * geometry.cluster) : a \in Range(at)}
    \cup {ByteRange(ClusterOffset(geometry, c), geometry.cluster) : c \in bad}

Reservations(geometry, at, bad, scrubs) ==
    BootReservations(geometry)
    \cup {ByteRange(ClusterOffset(geometry, a.first), a.count * geometry.cluster) : a \in Range(at)}
    \cup {ByteRange(ClusterOffset(geometry, c), geometry.cluster) :
             c \in bad \cup ScrubbedClusters(scrubs)}
    \cup {s.range : s \in {s \in Range(scrubs) : s.cluster = None}}

(* What is written, once everything has its clusters.                       *)
PlanOf(graph, profile, geometry, boot, at, payload, bad, scrubs, used) ==
    Evaluated(
        [geometry |-> geometry, at |-> at, boot |-> boot, used |-> used,
         fat |-> FatOf(geometry, at, payload, bad),
         entries |-> [d \in Range(DirectoryOrder(graph)) |->
                        DirectoryEntries(graph, geometry, at, payload, Mapping(profile.table),
                                         profile, d)],
         table |-> profile.table, scrubs |-> scrubs,
         reservations |-> Reservations(geometry, at, bad, scrubs)])

CheckedPlan(graph, profile, options, geometry, boot, at, payload, bad, scrubs, used) ==
    IF GeneratedRegionsValid(boot, options)
    THEN PlanOf(graph, profile, geometry, boot, at, payload, bad, scrubs, used) ELSE Refused

PlanWithUsed(graph, profile, options, geometry, at, payload, bad, scrubs, used) ==
    CheckedPlan(graph, profile, options, geometry,
                BootSector(graph.bytes, options, ChooseGeometry(graph.bytes, options),
                           AllocationOf(at, 1).first,
                           (Cardinality(used) * 100) \div geometry.count),
                at, payload, bad, scrubs, used)

PlanAt(graph, profile, options, geometry, allocated, payload, bad, scrubs) ==
    IF allocated.ok
    THEN PlanWithUsed(graph, profile, options, geometry, allocated.at, payload, bad, scrubs,
                      AllocatedClusters(allocated.at, payload, bad))
    ELSE Refused

PlanAround(graph, profile, options, mode, pinned, geometry, demands, bad, scrubs, kept) ==
    IF PayloadFits(graph, geometry, mode, kept) /\ PinnedMatches(demands, pinned)
    THEN PlanAt(graph, profile, options, geometry,
                Allocate(geometry, kept \cup PlacedClusters(graph, geometry, mode), demands, pinned),
                Payload(graph, geometry, mode), bad, scrubs)
    ELSE Refused

PlanScrubbed(graph, profile, options, mode, pinned, geometry, bad, scrubs) ==
    IF scrubs = Refused THEN Refused
    ELSE PlanAround(graph, profile, options, mode, pinned, geometry,
                    Demands(graph, geometry, profile), bad, scrubs,
                    bad \cup ScrubbedClusters(scrubs))

PlanIn(graph, profile, options, mode, pinned, geometry, bad) ==
    IF ~ GraphAccepted(graph, geometry, Mapping(profile.table), mode) \/ bad = Refused THEN Refused
    ELSE PlanScrubbed(graph, profile, options, mode, pinned, geometry, bad,
                      StaleScrubs(geometry, profile.stale, bad))

Serialize(graph, profile, options, mode, pinned) ==
    LET geometry == GeometryOf(graph.bytes, options)
    IN IF \/ ~ ValidProfile(profile) \/ geometry = Refused
          \/ ~ ValidTable(profile.table, profile.checksum)
       THEN Refused
       ELSE PlanIn(graph, profile, options, mode, pinned, geometry,
                   BadClusters(geometry, profile.bad))

-----------------------------------------------------------------------------
(* Draft and finalization                                                   *)

(* What relocation may change: where file payload is, and that resident     *)
(* content has been given clusters.                                         *)
SameIdentity(source, target) ==
    /\ target.bytes = source.bytes /\ target.other = source.other
    /\ DOMAIN target.objects = DOMAIN source.objects
    /\ \A i \in DOMAIN source.objects :
          LET before == source.objects[i]
              after == target.objects[i]
          IN /\ [before EXCEPT !.extents = after.extents, !.resident = after.resident] = after
             /\ after.resident # before.resident => ~ after.resident

SameLayout(plan, final) ==
    /\ final.at = plan.at /\ final.geometry = plan.geometry
    /\ final.reservations = plan.reservations /\ final.boot.root = plan.boot.root

Unmoved(plan, final) ==
    IF final = Refused THEN Refused ELSE IF SameLayout(plan, final) THEN final ELSE Refused

Finalize(draft, plan, relocated) ==
    IF SameIdentity(draft.graph, relocated)
    THEN Unmoved(plan, Serialize(relocated, draft.profile, draft.options, Final, plan.at))
    ELSE Refused

-----------------------------------------------------------------------------
(* The volume when every write of the plan has reached the payload's image. *)

ClusterContent(plan, heap, c) ==
    LET owners == {a \in Range(plan.at) : c \in Range(Expand(a))}
        owner == CHOOSE a \in owners : TRUE
    IN IF owners # {}
       THEN CASE owner.of = BitmapId -> [kind |-> "bitmap", allocated |-> plan.used]
              [] owner.of = UpcaseId -> [kind |-> "upcase", words |-> plan.table]
              [] OTHER -> [kind |-> "entries",
                           entries |-> InCluster(plan.entries[owner.of], plan.geometry,
                                                 c - owner.first + 1)]
       ELSE IF c \in ScrubbedClusters(plan.scrubs) THEN [kind |-> "zero"]
       ELSE heap[c]

WrittenVolume(plan, heap) ==
    Evaluated([main |-> Region(plan.boot), backup |-> Region(plan.boot), fats |-> <<plan.fat>>,
               heap |-> [c \in Heap(plan.geometry) |-> ClusterContent(plan, heap, c)]])
=============================================================================
