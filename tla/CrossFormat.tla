----------------------------- MODULE CrossFormat -----------------------------
(***************************************************************************)
(* The projection of one format's graph onto the other (cross_format.rs)    *)
(* and the carrier files for named streams that the sidecar cannot hold     *)
(* (escrow_carrier.rs).                                                     *)
(***************************************************************************)
EXTENDS Preservation, Timestamps

CarrierDirectoryName == <<95>>
CarrierFileName(record, attribute) == <<100 + record, Digit(attribute)>>

CollidesWithCarrierDirectory(name) == Fold(name) = Fold(CarrierDirectoryName)

(* Named, not encrypted, and neither resident nor captured.                 *)
NeedsCarrier(stream) ==
    /\ stream.name # Unnamed /\ ~stream.encrypted
    /\ ~stream.resident /\ ~stream.captured /\ stream.data # <<>>

IsRestorable(object) == IsGraphRecord(object) /\ object.ref.record # RootRecord

(* sidecar_carriers, in order of owner and attribute.                       *)
SidecarCarriers(sidecar) ==
    LET objects == SelectSeq(sidecar.objects, IsRestorable)
        Carriers(o) ==
            LET own == SelectSeq(o.streams, NeedsCarrier) IN
            [k \in DOMAIN own |->
                [owner |-> o.ref.record, attribute |-> own[k].attribute,
                 name |-> own[k].name, length |-> Len(own[k].data)]]
    IN SortSeq(FlattenSeq([i \in DOMAIN objects |-> Carriers(objects[i])]),
               LAMBDA a, b : \/ a.owner < b.owner
                             \/ a.owner = b.owner /\ a.attribute < b.attribute)

CarrierPath(carrier) ==
    <<CarrierDirectoryName, CarrierFileName(carrier.owner, carrier.attribute)>>

-----------------------------------------------------------------------------
(* The stream that a carrier moves out of its owner.                        *)
CarriedStream(graph, carrier) ==
    {s \in ToSet(StreamsOf(graph.objects)) :
        /\ s.id = StreamId(carrier.owner, carrier.attribute)
        /\ s.name = carrier.name /\ s.logical = carrier.length}

AsPlainPayload(stream) ==
    [stream EXCEPT !.name = Unnamed, !.named = FALSE,
                   !.sparse = FALSE, !.compressed = FALSE]

Record(id, kind, streams) ==
    [id |-> id, kind |-> kind, links |-> 1, secured |-> FALSE, reparse |-> FALSE,
     streams |-> streams]

EscrowDirectoryId(graph) == Max({o.id : o \in ToSet(graph.objects)}) + 1
CarrierId(graph, i) == EscrowDirectoryId(graph) + i

(* project_escrow_carriers: the objects and entries it adds.                *)
CarrierObjects(graph, carriers) ==
    IF carriers = <<>> THEN <<>>
    ELSE [i \in DOMAIN carriers |->
             Record(CarrierId(graph, i), "file",
                 <<AsPlainPayload(CHOOSE s \in CarriedStream(graph, carriers[i]) : TRUE)>>)]
         \o <<Record(EscrowDirectoryId(graph), "dir", <<>>)>>

CarrierEntries(graph, carriers) ==
    IF carriers = <<>> THEN <<>>
    ELSE [i \in DOMAIN carriers |->
             [parent |-> EscrowDirectoryId(graph), target |-> CarrierId(graph, i),
              name |-> CarrierFileName(carriers[i].owner, carriers[i].attribute)]]
         \o <<[parent |-> graph.root, target |-> EscrowDirectoryId(graph),
               name |-> CarrierDirectoryName]>>

(* The destination loses descriptors, reparse points, extra links and named *)
(* streams; holes and compression are materialized.                         *)
PlainObject(graph, object) ==
    LET kept == SelectSeq(object.streams, LAMBDA s : ~s.named) IN
    [object EXCEPT !.secured = FALSE, !.reparse = FALSE,
                   !.links = IF object.id = graph.root THEN @ ELSE 1,
                   !.streams = [k \in DOMAIN kept |-> AsPlainPayload(kept[k])]]

-----------------------------------------------------------------------------
(* dest_native_name_rank, of the first matching name.                       *)
NameRank(object, entry, sidecar) ==
    LET matching == IF Has(sidecar.objects, object)
                    THEN SelectSeq(Find(sidecar.objects, object).names, LAMBDA n :
                            n.parent.record = entry.parent /\ n.name = entry.name)
                    ELSE <<>>
    IN IF matching = <<>> THEN 4
       ELSE CASE matching[1].space = "both" -> 0
              [] matching[1].space = "win32" -> 1
              [] matching[1].space = "posix" -> 2
              [] matching[1].space = "dos" -> 3

SelectDestNative(object, choices, sidecar) ==
    LET Key(e) == <<NameRank(object, e, sidecar), e.parent>> \o e.name
    IN CHOOSE e \in choices : \A other \in choices : ~NameBefore(Key(other), Key(e))

(* split_exfat_stem_ext: the extension begins at the last dot, unless that  *)
(* is the first unit.                                                       *)
ExtensionStart(name) ==
    Max({1} \cup {i \in DOMAIN name : name[i] = Dot})

Stem(name) ==
    IF ExtensionStart(name) = 1 THEN name ELSE SubSeq(name, 1, ExtensionStart(name) - 1)

Extension(name) ==
    IF ExtensionStart(name) = 1 THEN <<>> ELSE SubSeq(name, ExtensionStart(name), Len(name))

Suffix(n) ==
    IF n < 10 THEN <<Tilde, Digit(n)>> ELSE <<Tilde, Digit(n \div 10), Digit(n % 10)>>

(* exfat_disambiguated_name: the stem is cut so that the name fits; no name *)
(* at all (here the empty one) when suffix and extension leave no room.     *)
DisambiguatedName(name, n) ==
    LET room == MaxNameUnits - Len(Suffix(n)) - Len(Extension(name)) IN
    IF room <= 0 THEN <<>>
    ELSE SubSeq(Stem(name), 1, Min({room, Len(Stem(name))})) \o Suffix(n) \o Extension(name)

(* Mutant: the first ~N, whether or not another sibling has it.             *)
ForgetsOtherSiblings(name, parent, used) == DisambiguatedName(name, 2)

(* unique_exfat_sibling_name: the first ~N that is legal and free; None is  *)
(* NameDisambiguationFailed.                                                *)
UniqueSiblingName(name, parent, used) ==
    LET usable == {n \in 2 .. MaxSuffix :
                      /\ IsLegalExfatName(DisambiguatedName(name, n))
                      /\ <<parent, Fold(DisambiguatedName(name, n))>> \notin used}
    IN IF usable = {} THEN None ELSE DisambiguatedName(name, Min(usable))

(* disambiguate_exfat_case_collisions: of the siblings that fold together   *)
(* the lowest target keeps its name, the others are renamed group by group; *)
(* one that cannot be renamed fails them all.                               *)
Disambiguate(entries) ==
    LET Group(i) == <<entries[i].parent>> \o Fold(entries[i].name)
        Order == SortSeq([i \in DOMAIN entries |-> i], LAMBDA i, j :
                    \/ NameBefore(Group(i), Group(j))
                    \/ Group(i) = Group(j) /\ entries[i].target < entries[j].target)
        First(i) == \A j \in DOMAIN entries :
                       Group(j) = Group(i) => entries[i].target <= entries[j].target
        Renamed(at, i, name) ==
            IF name = None THEN None
            ELSE [entries |-> [at.entries EXCEPT ![i].name = name],
                  used |-> at.used \cup {<<entries[i].parent, Fold(name)>>}]
        Rename(at, i) ==
            IF at = None \/ First(i) THEN at
            ELSE Renamed(at, i,
                         UniqueSiblingName(entries[i].name, entries[i].parent, at.used))
        last == FoldLeft(Rename,
                         [entries |-> Evaluated(entries),
                          used |-> {<<e.parent, Fold(e.name)>> : e \in ToSet(entries)}],
                         Evaluated(Order))
    IN IF last = None THEN None ELSE last.entries

SelectedEntries(graph, sidecar) ==
    LET named == SelectSeq(graph.objects, LAMBDA o :
                    o.id # graph.root /\ \E e \in ToSet(graph.entries) : e.target = o.id)
    IN [i \in DOMAIN named |->
           SelectDestNative(named[i].id,
               {e \in ToSet(graph.entries) : e.target = named[i].id}, sidecar)]

ProjectNtfs(graph, sidecar) ==
    LET carriers == SidecarCarriers(sidecar)
        objects == [i \in DOMAIN graph.objects |-> PlainObject(graph, graph.objects[i])]
                   \o CarrierObjects(graph, carriers)
        kept == {s.id : s \in ToSet(StreamsOf(objects))}
    IN Evaluated(
       [root |-> graph.root, objects |-> objects,
        entries |-> Disambiguate(SelectedEntries(graph, sidecar))
                    \o CarrierEntries(graph, carriers),
        extents |-> SelectSeq(graph.extents, LAMBDA e : e.stream \in kept)])

BuildsGraph(target) == GraphAccepted(target, NoLimits(target))

ProjectsToExfat(graph, sidecar) ==
    LET carriers == SidecarCarriers(sidecar) IN
    /\ Disambiguate(SelectedEntries(graph, sidecar)) # None
    /\ \A c \in ToSet(carriers) : CarriedStream(graph, c) # {}
    /\ carriers # <<>> => \A e \in ToSet(SelectedEntries(graph, sidecar)) :
          ~(e.parent = graph.root /\ CollidesWithCarrierDirectory(e.name))
    /\ BuildsGraph(ProjectNtfs(graph, sidecar))

-----------------------------------------------------------------------------
AllMapped(metadata) == \A id \in DOMAIN metadata : Mapped(metadata[id].times)

(* map_ntfs_object_metadata: the shared attributes, the directory bit from  *)
(* the kind; carriers are hidden system files with their owner's times.     *)
NtfsToExfatMetadata(graph, sidecar) ==
    LET target == ProjectNtfs(graph, sidecar)
        carriers == SidecarCarriers(sidecar)
        Times(record) == MapNtfsTimestamps(Find(sidecar.objects, record).standard.times)
        Own(o) == [attributes |->
                      (Find(sidecar.objects, o.id).standard.attributes
                          \cap SharedAttributes)
                      \cup (IF o.kind = "dir" THEN {"directory"} ELSE {}),
                   times |-> Times(o.id)]
    IN Evaluated(
       [id \in {o.id : o \in ToSet(target.objects)} \ {graph.root} |->
          IF \E o \in ToSet(graph.objects) : o.id = id
          THEN Own(CHOOSE o \in ToSet(graph.objects) : o.id = id)
          ELSE IF id = EscrowDirectoryId(graph)
          THEN [attributes |-> {"hidden", "system", "directory"},
                times |-> Times(graph.root)]
          ELSE [attributes |-> {"hidden", "system", "archive"},
                times |-> Times(carriers[id - EscrowDirectoryId(graph)].owner)]])

(* fold_ntfs_volume_serial: the xor of the halves <<low, high>>.            *)
FoldSerial(serial) == (serial[1] + serial[2]) % 2

(* draft_lossless_ntfs_to_exfat.                                            *)
DraftsExfat(graph, sidecar, mode) ==
    /\ mode # "content"
    /\ Permitted(NtfsAssessments(graph, sidecar), mode)
    /\ ProjectsToExfat(graph, sidecar)
    /\ AllMapped(NtfsToExfatMetadata(graph, sidecar))

(* ntfs_bad_cluster_ranges: the physical runs of $BadClus:$Bad.             *)
NtfsBadClusters(sidecar) ==
    FlattenSeq([i \in DOMAIN SetToSeq(BadStreams(sidecar)) |->
        PhysicalExtents(SetToSeq(BadStreams(sidecar))[i].extents)])

DraftedExfatVolume(sidecar) ==
    LET label == IF sidecar.label # None /\ IsCanonicalLabel(sidecar.label)
                 THEN sidecar.label ELSE None
        bad == NtfsBadClusters(sidecar) IN
    [label |-> label, labels |-> IF label = None THEN 0 ELSE 1, padded |-> FALSE,
     serial |-> FoldSerial(sidecar.serial), table |-> "recommended",
     benign |-> 0, benignCaptured |-> TRUE,
     badClusters |-> Len(bad), badExtents |-> bad, metadataExtents |-> <<"reserved">>]

-----------------------------------------------------------------------------
ReadWriteId == 257          \* NTFS3G_SECURITY_ID_READ_WRITE

(* exFAT to NTFS: every object gets the pinned descriptor, the root the     *)
(* system timestamp.                                                        *)
ProjectExfat(graph) ==
    Evaluated([graph EXCEPT !.objects =
        [i \in DOMAIN @ |-> [@[i] EXCEPT !.secured = TRUE]]])

SystemTimestamp(inventory) ==
    LET timed == SelectSeq(inventory.objects, LAMBDA o : o.times # None)
    IN ResolveSystemTimestamp([i \in DOMAIN timed |-> timed[i].times])

ExfatToNtfsMetadata(graph, inventory) ==
    Evaluated([id \in {o.id : o \in ToSet(graph.objects)} |->
        IF id = graph.root
        THEN [attributes |-> {"directory"}, security |-> ReadWriteId,
              times |-> [f \in {"create", "modify", "change", "access"} |->
                            SystemTimestamp(inventory)]]
        ELSE [attributes |-> inventory.objects[id].attributes, security |-> ReadWriteId,
              times |-> MapExfatTimestamps(inventory.objects[id].times)]])

(* validate_names and validate_objects of the NTFS writer: siblings stay    *)
(* apart under its up-case table too, directories have no named stream.     *)
NtfsWriterAccepts(graph) ==
    /\ ~NamesCollide(graph.entries)
    /\ \A e \in ToSet(graph.entries) : IsLegalExfatName(e.name)
    /\ \A o \in ToSet(graph.objects) :
          /\ Len(SelectSeq(o.streams, LAMBDA s : ~s.named)) <= 1
          /\ \A s \in ToSet(o.streams) :
                /\ ~s.compressed /\ ~s.encrypted
                /\ s.sparse => o.kind = "file" /\ ~s.resident
                /\ s.named => o.kind = "file"

ConsistentBadClusters(sidecar) == sidecar.badClusters = Len(sidecar.badExtents)

(* draft_lossless_exfat_to_ntfs.                                            *)
DraftsNtfs(inventory, mode) ==
    LET sidecar == ExfatSidecarOf(inventory)
        graph == ExfatGraphOf(inventory) IN
    /\ mode # "content"
    /\ ConsistentBadClusters(sidecar)
    /\ Permitted(ExfatAssessments(sidecar), mode)
    /\ AllMapped(ExfatToNtfsMetadata(graph, inventory))
    /\ LET target == ProjectExfat(graph) IN
       GraphAccepted(target, NoLimits(target)) /\ NtfsWriterAccepts(target)
=============================================================================
