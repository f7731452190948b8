---------------------------- MODULE NtfsInventory ----------------------------
(***************************************************************************)
(* Finding the MFT through itself (ntfs_discovery.rs) and the inventory of  *)
(* a volume (ntfs_inventory.rs).                                            *)
(*                                                                          *)
(* Record zero maps the start of the MFT; the rest of the mapping, and the  *)
(* rest of the list that says where it is, lie in records of the MFT that   *)
(* may be readable only after other parts of the mapping have been found.   *)
(* The search is [mft, detached, resolved, list, state]: detached parts     *)
(* [lowest, extents, next] are decoded but not contiguous with the mapping  *)
(* yet; list is NoList or [complete, extents, next, data, entries]; state   *)
(* is "search", "done" or "refused".                                        *)
(*                                                                          *)
(* In the inventory one record after the other becomes an object with its   *)
(* names, streams and directory entries; what cannot be followed is noted   *)
(* as a reason why the inventory is incomplete, what contradicts itself is  *)
(* refused. An object is [record, sequence, links, directory, metadata,     *)
(* standard, names, streams, entries, reparse, security, listed, indexed].  *)
(* The inventory under way is [next, objects, claims, reasons, reparse,     *)
(* label, state]; claims are the clusters of every attribute.               *)
(***************************************************************************)
EXTENDS NtfsIndex, FiniteSets


CONSTANT NoList

MftRecordNumber == 0
MirrorRecordNumber == 1
VolumeRecordNumber == 3
BitmapRecordNumber == 6
FirstUserMftRecord == 16

-----------------------------------------------------------------------------
(* Parts of one attribute that lie in one record or in one resolved list:   *)
(* the first, then the others by VCN, all plain and contiguous.             *)

FirstPart(parts) == Where(parts, LAMBDA a : a.lowest = 0)
LaterParts(parts) == SortSeq(Where(parts, LAMBDA a : a.lowest # 0),
                             LAMBDA a, b : a.lowest < b.lowest)

JoinPart(runs, attr, extents) ==
    IF runs = Invalid \/ extents = Invalid THEN Invalid
    ELSE AppendRunlist(runs, extents, attr.highest + 1)

JoinParts(parts, boot) ==
    IF \E i \in DOMAIN parts : parts[i].resident THEN Invalid
    ELSE IF \E i \in DOMAIN parts : parts[i].flags # Plain THEN Invalid
    ELSE IF Len(FirstPart(parts)) # 1 THEN Invalid
    ELSE FoldLeft(LAMBDA runs, attr : JoinPart(runs, attr, ExtentsOf(attr, boot)),
                  [extents |-> <<>>, next |-> 0], FirstPart(parts) \o LaterParts(parts))

HasHole(extents) == \E e \in DOMAIN extents : extents[e].lcn = Hole

(* parse_mft_data: what record zero says of the unnamed $DATA.              *)
MftOf(first, runs, boot) ==
    IF \/ HasHole(runs.extents) \/ runs.extents = <<>>
       \/ runs.extents[1].lcn # boot.mftLcn
       \/ runs.extents[1].length * ClusterBytes(boot) < RecordBytes(boot)
       \/ MappedBytes(runs, boot) > first.allocated
    THEN Invalid
    ELSE [extents |-> runs.extents, next |-> runs.next, allocated |-> first.allocated,
          data |-> first.data, initialized |-> first.initialized]

MftFrom(parts, runs, boot) ==
    IF runs = Invalid THEN Invalid ELSE MftOf(FirstPart(parts)[1], runs, boot)

ParseMftData(record, boot) ==
    IF ~ParsesAttributes(record, ClusterBytes(boot)) THEN Invalid
    ELSE MftFrom(Named(record.attrs, DataType, <<>>),
                 JoinParts(Named(record.attrs, DataType, <<>>), boot), boot)

MappingComplete(mft, boot) == MappedBytes(mft, boot) = mft.allocated

(* The list as far as its known bytes reach.                                *)
ListUpTo(image, boot, runs, known, data) ==
    [complete |-> known = data, extents |-> runs.extents, next |-> runs.next, data |-> data,
     entries |-> ParseListValue(ReadPrefix(image, boot, runs.extents, known), known)]

(* mft_attribute_list_source, initial_mft_attribute_list.                   *)
MappedList(image, boot, first, runs) ==
    IF runs = Invalid THEN Invalid
    ELSE IF \/ HasHole(runs.extents) \/ first.initialized < first.data
            \/ MappedBytes(runs, boot) > first.allocated
    THEN Invalid
    ELSE ListUpTo(image, boot, runs, Min({MappedBytes(runs, boot), first.data}), first.data)

ListFrom(image, boot, parts) ==
    IF parts = <<>> THEN NoList
    ELSE IF \A i \in DOMAIN parts : ~parts[i].resident
    THEN MappedList(image, boot, FirstPart(parts)[1], JoinParts(parts, boot))
    ELSE IF Len(parts) # 1 THEN Invalid
    ELSE [complete |-> TRUE, extents |-> <<>>, next |-> 0, data |-> parts[1].size,
          entries |-> ParseListValue(parts[1].value, parts[1].size)]

InitialList(image, record, boot) ==
    ListFrom(image, boot, Named(record.attrs, AttributeListType, <<>>))

-----------------------------------------------------------------------------
(* MftMappingView: the mapping and the detached parts, in VCN order.        *)

Detached(search) == SortSeq(SetToSeq(search.detached), LAMBDA a, b : a.lowest < b.lowest)

ViewExtents(search) ==
    search.mft.extents \o FlattenSeq([i \in 1 .. Cardinality(search.detached) |->
                                        Detached(search)[i].extents])

(* Mutant: only the contiguous part of the mapping is used.                 *)
ReadableInOrder(search, boot, number) == RecordIsMapped(search.mft, boot, number)

RecordIsReadable(search, boot, number) ==
    LET n == RecordBytes(boot) \div SectorBytes
    IN /\ (number + 1) * RecordBytes(boot) <= Min({search.mft.data, search.mft.initialized})
       /\ \A i \in number * n .. (number + 1) * n - 1 : HasSector(ViewExtents(search), boot, i)

(* A readable host of an entry: validate_record_identity,                   *)
(* validate_mft_extension_host.                                             *)
IsMftExtension(host, base, entry, boot) ==
    /\ IdentityHolds(host, entry.record)
    /\ host.inUse /\ host.sequence = entry.sequence
    /\ host.base = [record |-> MftRecordNumber, sequence |-> base.sequence]
    /\ ParsesAttributes(host, ClusterBytes(boot))

(* unnamed_mft_data_for_list_entry, mft_attribute_list_extent_for_entry.    *)
PartsIn(host, base, entry, boot) ==
    IF host = Invalid THEN <<>>
    ELSE IF ~IsMftExtension(host, base, entry, boot) THEN <<>>
    ELSE Where(Named(host.attrs, entry.type, <<>>),
               LAMBDA a : a.id = entry.instance /\ ~a.resident)

PartOf(attr, extents, entry) ==
    IF extents = Invalid THEN Invalid
    ELSE IF HasHole(extents) \/ attr.flags # Plain \/ attr.lowest # entry.lowest THEN Invalid
    ELSE [lowest |-> entry.lowest, extents |-> extents, next |-> attr.highest + 1]

OnlyPart(parts, entry, boot) ==
    IF Len(parts) # 1 THEN Invalid ELSE PartOf(parts[1], ExtentsOf(parts[1], boot), entry)

PartFor(image, boot, base, search, entry) ==
    OnlyPart(PartsIn(ReadRecordThrough(image, boot, ViewExtents(search), entry.record),
                     base, entry, boot), entry, boot)

Refuse(search) == [search EXCEPT !.state = "refused"]

-----------------------------------------------------------------------------
(* One turn of extend_mft_mapping_from_attribute_list.                      *)

(* decode_reachable_mft_data_extents, one entry: wait for it while its host *)
(* is out of reach, otherwise detach its part.                              *)
Detach(search, part, boot) ==
    IF part = Invalid THEN Refuse(search)
    ELSE IF \/ MappedBytes(part, boot) > search.mft.allocated
            \/ \E d \in search.detached : d.lowest < part.next /\ part.lowest < d.next
    THEN Refuse(search)
    ELSE [search EXCEPT !.detached = @ \cup {part}, !.resolved = @ \cup {part.lowest}]

DecodeEntry(image, boot, base, search, entry) ==
    IF search.state = "refused" THEN search
    ELSE IF entry.record = MftRecordNumber THEN Refuse(search)
    ELSE IF ~RecordIsReadable(search, boot, entry.record) THEN search
    ELSE Detach(search, PartFor(image, boot, base, search, entry), boot)

(* The parts of the mapping that the known list names and nobody decoded.   *)
OpenEntries(search) ==
    SortSeq(Where(search.list.entries,
                  LAMBDA e : /\ e.type = DataType /\ e.name = <<>>
                             /\ e.lowest >= search.mft.next
                             /\ e.lowest \notin search.resolved),
            LAMBDA a, b : a.lowest < b.lowest)

DecodeReachable(image, boot, base, search) ==
    FoldLeft(LAMBDA s, e : DecodeEntry(image, boot, base, s, e), search, OpenEntries(search))

(* Detached parts that continue the mapping are appended to it.             *)
AttachPart(search, part) ==
    [search EXCEPT !.mft = AppendRunlist(search.mft, part.extents, part.next),
                   !.detached = @ \ {part}]

RECURSIVE Attach(_)
Attach(search) ==
    IF search.state = "refused" \/ \A d \in search.detached : d.lowest # search.mft.next
    THEN search
    ELSE Attach(AttachPart(search, CHOOSE d \in search.detached : d.lowest = search.mft.next))

(* follow_mft_attribute_list_continuation: the list names its own next part.*)
GrownList(image, boot, list, runs) ==
    ListUpTo(image, boot, runs, Min({MappedBytes(runs, boot), list.data}), list.data)

FollowPart(image, boot, search, part) ==
    IF part = Invalid THEN Refuse(search)
    ELSE IF part.lowest # search.list.next THEN Refuse(search)
    ELSE [search EXCEPT !.list =
            GrownList(image, boot, search.list,
                      [extents |-> search.list.extents \o part.extents, next |-> part.next])]

FollowEntry(image, boot, base, search, next) ==
    IF next = <<>> THEN Refuse(search)
    ELSE IF next[1].record = MftRecordNumber THEN Refuse(search)
    ELSE IF ~RecordIsReadable(search, boot, next[1].record) THEN search
    ELSE FollowPart(image, boot, search, PartFor(image, boot, base, search, next[1]))

FollowList(image, boot, base, search) ==
    IF search.list.complete THEN search
    ELSE FollowEntry(image, boot, base, search,
                     NextListParts(search.list.entries, search.list.next))

(* How a turn ends.                                                         *)
AfterFollowing(before, attached, followed, boot) ==
    IF followed.state = "refused" THEN followed
    ELSE IF MappingComplete(attached.mft, boot)
    THEN IF followed.list.complete THEN [followed EXCEPT !.state = "done"]
         ELSE IF followed = attached THEN Refuse(followed) ELSE followed
    ELSE IF followed = before THEN [followed EXCEPT !.state = "done"]
    ELSE followed

AfterAttaching(image, boot, base, before, attached) ==
    IF attached.state = "refused" THEN attached
    ELSE IF \/ MappedBytes(attached.mft, boot) > attached.mft.allocated
            \/ MappingComplete(attached.mft, boot) /\ attached.detached # {}
    THEN Refuse(attached)
    ELSE AfterFollowing(before, attached,
                        Evaluated(FollowList(image, boot, base, attached)), boot)

Turn(image, boot, base, search) ==
    IF search.list.entries \in Refusals THEN Refuse(search)
    ELSE AfterAttaching(image, boot, base, search,
             Evaluated(Attach(Evaluated(DecodeReachable(image, boot, base, search)))))

(* The search before its first turn.                                        *)
StartWithList(base, mft, list) ==
    [base |-> base, mft |-> mft, detached |-> {}, resolved |-> {}, list |-> list,
     state |-> IF mft = Invalid \/ list = Invalid THEN "refused"
               ELSE IF list = NoList THEN "done" ELSE "search"]

StartWithMft(image, boot, base, mft) ==
    IF mft = Invalid THEN StartWithList(base, mft, NoList)
    ELSE IF MappingComplete(mft, boot) THEN StartWithList(base, mft, NoList)
    ELSE StartWithList(base, mft, InitialList(image, base, boot))

(* record zero, where the boot sector says it is.                           *)
StartWithRecord(image, boot, base) ==
    IF base = Invalid THEN StartWithList(base, Invalid, NoList)
    ELSE IF ~IdentityHolds(base, MftRecordNumber) \/ ~base.inUse \/ base.base # NoReference
    THEN StartWithList(base, Invalid, NoList)
    ELSE StartWithMft(image, boot, base, Evaluated(ParseMftData(base, boot)))

StartSearch(image, boot) ==
    StartWithRecord(image, boot,
        ParsedRecord([i \in 1 .. RecordBytes(boot) \div SectorBytes |->
                        SectorAt(image, boot.mftLcn * SectorsPerCluster(boot) + i - 1)], boot))

-----------------------------------------------------------------------------
(* The mirror.                                                              *)

(* mft_mirror_profile: four records, or as many as a cluster holds.         *)
StoredMirrorRecords(boot) == Max({4, ClusterBytes(boot) \div RecordBytes(boot)})

DataOf(resolved) ==
    IF resolved \in Refusals THEN resolved
    ELSE Named([i \in DOMAIN resolved |-> resolved[i].attr], DataType, <<>>)

(* parse_mft_mirror_mapping, parse_mft_mirror_data.                         *)
MirrorParts(image, boot, mft, record) ==
    IF ~record.inUse \/ ~ParsesAttributes(record, ClusterBytes(boot)) THEN Invalid
    ELSE IF BaseLists(record) = <<>> THEN Named(record.attrs, DataType, <<>>)
    ELSE DataOf(Evaluated(ResolveAttributeList(image, boot, mft, record, MirrorRecordNumber)))

MirrorOf(first, runs, stored, boot) ==
    IF \/ HasHole(runs.extents) \/ runs.extents = <<>>
       \/ runs.extents[1].lcn # boot.mirrorLcn
       \/ first.data % RecordBytes(boot) # 0 \/ stored < 4
       \/ first.initialized < Min({stored, StoredMirrorRecords(boot), FirstUserMftRecord})
                                * RecordBytes(boot)
       \/ MappedBytes(runs, boot) # first.allocated
    THEN Invalid
    ELSE [extents |-> runs.extents,
          compared |-> Min({stored, StoredMirrorRecords(boot), FirstUserMftRecord})]

MirrorFrom(parts, runs, boot) ==
    IF runs = Invalid THEN Invalid
    ELSE MirrorOf(FirstPart(parts)[1], runs, FirstPart(parts)[1].data \div RecordBytes(boot), boot)

MirrorMapping(parts, boot) ==
    IF parts \in Refusals THEN parts
    ELSE MirrorFrom(parts, Evaluated(JoinParts(parts, boot)), boot)

(* validate_mft_mirror: "exact", "mismatch", "incomplete" or Invalid,       *)
(* decided by the first record that differs.                                *)
ReadsAs(sectors, n, boot) ==
    /\ ParsesFileRecord(sectors, RecordBytes(boot))
    /\ IdentityHolds(sectors[1].of, n)

Differs(original, copy, n, boot) == copy # original \/ ~ReadsAs(original, n, boot)

UnequalRecords(image, boot, mft, mirror) ==
    {n \in 0 .. mirror.compared - 1 :
        Differs(RecordSectors(image, boot, mft.extents, n),
                RecordSectors(image, boot, mirror.extents, n), n, boot)}

FirstUnequal(image, boot, mft, mirror, n) ==
    IF /\ ReadsAs(RecordSectors(image, boot, mft.extents, n), n, boot)
       /\ ReadsAs(RecordSectors(image, boot, mirror.extents, n), n, boot)
    THEN "mismatch" ELSE Invalid

MirrorVerdict(image, boot, mft, mirror, unequal) ==
    IF unequal = {} THEN "exact"
    ELSE FirstUnequal(image, boot, mft, mirror, Min(unequal))

MirrorEvidence(image, boot, mft, mirror) ==
    IF mirror = Outside THEN "incomplete"
    ELSE IF mirror \in Refusals THEN Invalid
    ELSE IF ~RecordIsMapped(mft, boot, Max({StoredMirrorRecords(boot), mirror.compared}) - 1)
    THEN "incomplete"
    ELSE MirrorVerdict(image, boot, mft, mirror, UnequalRecords(image, boot, mft, mirror))

(* discover_system_records: the system records that the mapping reaches,    *)
(* and the mirror.                                                          *)
SystemRecords == <<MirrorRecordNumber, VolumeRecordNumber, BitmapRecordNumber>>

Refused(found) ==
    IF found = Outside THEN FALSE ELSE IF found = Invalid THEN TRUE ELSE found.base # NoReference

SystemEvidence(image, boot, mft, found) ==
    [complete |-> MappingComplete(mft, boot),
     mirror |-> MirrorEvidence(image, boot, mft,
                   IF found[1] = Outside THEN Outside
                   ELSE MirrorMapping(Evaluated(MirrorParts(image, boot, mft, found[1])), boot)),
     missing |-> {SystemRecords[i] : i \in {k \in DOMAIN found : found[k] = Outside}}]

CheckedEvidence(image, boot, mft, found) ==
    IF \E i \in DOMAIN found : Refused(found[i]) THEN Invalid
    ELSE SystemEvidence(image, boot, mft, found)

DiscoverSystemRecords(image, boot, mft) ==
    CheckedEvidence(image, boot, mft,
        Evaluated([i \in DOMAIN SystemRecords |-> ReadMftRecord(image, boot, mft, SystemRecords[i])]))

-----------------------------------------------------------------------------
CONSTANTS NotCaptured,  \* present, but its bytes were not taken
          MaxRecords,   \* limits.max_records
          MaxIndexBlocks

RootRecord == 5
ExtendRecord == 11

OfType(attrs, type) == Where(attrs, LAMBDA a : a.type = type)

-----------------------------------------------------------------------------
(* Streams.                                                                 *)

(* normalize_extents.                                                       *)
StreamExtents(extents, boot) ==
    [e \in DOMAIN extents |->
        [logical |-> extents[e].vcn * ClusterBytes(boot),
         length |-> extents[e].length * ClusterBytes(boot),
         physical |-> IF extents[e].lcn = Hole THEN Hole ELSE extents[e].lcn * ClusterBytes(boot)]]

(* required_stream_coverage.                                                *)
RequiredCoverage(attr, boot) ==
    IF Stretched(attr) THEN AlignUp(attr.data, ClusterBytes(boot)) ELSE attr.allocated

(* The parts of a stream continue one another under one set of flags.       *)
ContinuePart(runs, first, attr, extents) ==
    IF runs = Invalid \/ extents = Invalid THEN Invalid
    ELSE IF attr.flags # first.flags \/ attr.lowest # runs.next THEN Invalid
    ELSE [extents |-> runs.extents \o extents, next |-> attr.highest + 1]

ContinueParts(group, boot) ==
    IF \E i \in DOMAIN group : group[i].resident THEN Invalid
    ELSE FoldLeft(LAMBDA runs, attr : ContinuePart(runs, group[1], attr, ExtentsOf(attr, boot)),
                  [extents |-> <<>>, next |-> 0], group)

(* read_initialized_extent_bytes: NotCaptured behind a hole or a gap.       *)
CapturedBytes(image, boot, extents, bytes) ==
    IF \E i \in 0 .. AlignUp(bytes, ClusterBytes(boot)) \div ClusterBytes(boot) - 1 :
           \A e \in DOMAIN extents :
               \/ extents[e].lcn = Hole
               \/ i \notin extents[e].vcn .. extents[e].vcn + extents[e].length - 1
    THEN NotCaptured
    ELSE Assembled(StreamSectors(image, boot, extents, 0, AlignUp(bytes, SectorBytes) \div SectorBytes))

(* capture_named_nonresident_payload.                                       *)
CapturedPayload(image, boot, number, first, runs) ==
    IF \/ first.name = <<>> \/ number < FirstUserMftRecord \/ first.flags # Plain
       \/ MappedBytes(runs, boot) < RequiredCoverage(first, boot)
    THEN NotCaptured
    ELSE CapturedBytes(image, boot, runs.extents, first.initialized)

MappedStream(image, boot, number, first, runs) ==
    IF runs = Invalid THEN Invalid
    ELSE [id |-> first.id, name |-> first.name, flags |-> first.flags, resident |-> FALSE,
          allocated |-> first.allocated, data |-> first.data, initialized |-> first.initialized,
          complete |-> MappedBytes(runs, boot) >= RequiredCoverage(first, boot),
          extents |-> StreamExtents(runs.extents, boot),
          payload |-> CapturedPayload(image, boot, number, first, runs)]

(* inventory_data_stream.                                                   *)
InventoryStream(image, boot, number, group) ==
    IF group[1].resident
    THEN IF Len(group) # 1 THEN Invalid
         ELSE [id |-> group[1].id, name |-> group[1].name, flags |-> Plain, resident |-> TRUE,
               data |-> group[1].size, payload |-> group[1].value]
    ELSE IF group[1].lowest # 0 THEN Invalid
    ELSE MappedStream(image, boot, number, group[1], ContinueParts(group, boot))

(* The unnamed and the named $DATA attributes, in order of appearance.      *)
StreamGroups(attrs) ==
    LET data == OfType(attrs, DataType)
        leaders == SelectSeq([i \in DOMAIN data |-> i],
                       LAMBDA i : \A j \in 1 .. i - 1 : data[j].name # data[i].name)
    IN [k \in DOMAIN leaders |-> Where(data, LAMBDA a : a.name = data[leaders[k]].name)]

InventoryStreams(image, boot, number, groups) ==
    [k \in DOMAIN groups |-> InventoryStream(image, boot, number, groups[k])]

-----------------------------------------------------------------------------
(* The other attributes of a base record.                                   *)

ValidNames(names) ==
    \A i \in DOMAIN names : /\ names[i].resident
                            /\ ValidFileNameKey(names[i].value)

(* inventory_reparse_point.                                                 *)
ReparsePoint(attrs) ==
    IF attrs = <<>> THEN NoValue
    ELSE IF Len(attrs) > 1 \/ attrs[1].name # <<>> THEN Invalid
    ELSE IF attrs[1].resident THEN attrs[1].value ELSE NotCaptured

(* inventory_security_descriptor: an unusual one is only counted.           *)
MappedDescriptor(image, boot, attr, extents) ==
    IF extents = Invalid THEN Invalid
    ELSE IF (attr.highest + 1) * ClusterBytes(boot) < attr.allocated THEN NotCaptured
    ELSE CapturedBytes(image, boot, extents, attr.data)

SecurityDescriptor(image, boot, attrs) ==
    IF attrs = <<>> THEN NoValue
    ELSE IF Len(attrs) > 1 \/ attrs[1].name # <<>> THEN NotCaptured
    ELSE IF attrs[1].resident THEN attrs[1].value
    ELSE IF attrs[1].flags # Plain \/ attrs[1].lowest # 0 \/ attrs[1].initialized # attrs[1].data
    THEN NotCaptured
    ELSE MappedDescriptor(image, boot, attrs[1], ExtentsOf(attrs[1], boot))

(* The volume's label: only record three has one.                           *)
VolumeNamesAreRight(number, attrs) ==
    attrs # <<>> => /\ number = VolumeRecordNumber
                    /\ Len(attrs) = 1
                    /\ attrs[1].name = <<>> /\ attrs[1].resident
                    /\ attrs[1].size <= 64 /\ attrs[1].size % 2 = 0

(* inventory_physical_allocations: the clusters of every attribute, and of  *)
(* the list itself, which a list does not name.                             *)
ClaimsOf(number, attr, extents) ==
    {[of |-> <<number, attr.type, attr.id, e>>, lcn |-> extents[e].lcn, length |-> extents[e].length] :
        e \in {k \in DOMAIN extents : extents[k].lcn # Hole}}

MappedAttributes(record, attrs) ==
    Where(attrs, LAMBDA a : ~a.resident)
    \o (IF attrs = record.attrs THEN <<>>
        ELSE Where(record.attrs, LAMBDA a : /\ a.type = AttributeListType
                                            /\ IF a.resident THEN FALSE ELSE a.lowest = 0))

PhysicalClaims(number, mapped, boot) ==
    UNION {ClaimsOf(number, mapped[i], ExtentsOf(mapped[i], boot)) : i \in DOMAIN mapped}

(* inventory_base_record.                                                   *)
BaseRecordIsValid(number, record, attrs, streams, reparse, security, boot) ==
    /\ ParsesAttributes(record, ClusterBytes(boot))
    /\ Len(OfType(attrs, StandardInformation)) <= 1
    /\ \A i \in DOMAIN attrs : attrs[i].type = StandardInformation => attrs[i].resident
    /\ ValidNames(OfType(attrs, FileNameType))
    /\ VolumeNamesAreRight(number, OfType(attrs, VolumeNameType))
    /\ \A i \in DOMAIN attrs : attrs[i].resident \/ ExtentsOf(attrs[i], boot) # Invalid
    /\ \A k \in DOMAIN streams : streams[k] # Invalid
    /\ DistinctBy(streams, LAMBDA s : s.id)
    /\ reparse # Invalid /\ security # Invalid

ValueOf(attrs) == IF attrs = <<>> THEN NoValue ELSE attrs[1].value

ObjectOf(number, record, attrs, streams, reparse, security) ==
    [record |-> number, sequence |-> record.sequence, links |-> record.links,
     directory |-> record.directory,
     metadata |-> number < FirstUserMftRecord /\ number \notin {RootRecord, ExtendRecord},
     standard |-> ValueOf(OfType(attrs, StandardInformation)),
     names |-> [i \in DOMAIN OfType(attrs, FileNameType) |-> OfType(attrs, FileNameType)[i].value],
     streams |-> streams, entries |-> <<>>, reparse |-> reparse, security |-> security,
     listed |-> OfType(record.attrs, AttributeListType) # <<>>,
     indexed |-> ~record.directory]

CheckedObject(number, record, attrs, streams, reparse, security, boot) ==
    IF BaseRecordIsValid(number, record, attrs, streams, reparse, security, boot)
    THEN ObjectOf(number, record, attrs, streams, reparse, security) ELSE Invalid

InventoryBaseRecord(image, boot, number, record, attrs) ==
    CheckedObject(number, record, attrs,
                  Evaluated(InventoryStreams(image, boot, number, StreamGroups(attrs))),
                  ReparsePoint(OfType(attrs, ReparsePointType)),
                  SecurityDescriptor(image, boot, OfType(attrs, SecurityDescriptorType)), boot)

-----------------------------------------------------------------------------
(* Directories.                                                             *)

(* index_child_offset: the sectors of a block, and its bit; the unit of a   *)
(* VCN follows from the sizes of clusters and blocks.                       *)
UnitBytes(root, boot) == IF root.blockBytes >= ClusterBytes(boot) THEN ClusterBytes(boot) ELSE SectorBytes

ChildIsAligned(root, boot, vcn) ==
    /\ root.units = root.blockBytes \div UnitBytes(root, boot)
    /\ vcn % root.units = 0

FirstSector(root, boot, vcn) == (vcn * UnitBytes(root, boot)) \div SectorBytes
PastSector(root, boot, vcn) == FirstSector(root, boot, vcn) + root.blockBytes \div SectorBytes

BlockSectors(image, boot, root, extents, vcn) ==
    StreamSectors(image, boot, extents, FirstSector(root, boot, vcn), PastSector(root, boot, vcn))

(* The child is allocated, inside the stream and mapped.                    *)
ChildIsReadable(root, boot, tree, vcn) ==
    /\ ChildIsAligned(root, boot, vcn)
    /\ vcn \div root.units \in tree.bitmap.bits
    /\ PastSector(root, boot, vcn) * SectorBytes <= tree.data
    /\ \A i \in FirstSector(root, boot, vcn) .. PastSector(root, boot, vcn) - 1 :
          HasSector(tree.extents, boot, i)

(* append_index_entries: every key names this directory as its parent.      *)
ParentsMatch(object, node) ==
    \A i \in DOMAIN node.keys :
        node.keys[i].key.parent = [record |-> object.record, sequence |-> object.sequence]

(* inventory_directory, the walk: children in the order they are met. A     *)
(* block that is met twice is skipped.                                      *)
AppendNode(image, boot, root, object, tree, queue, visited, entries, sectors) ==
    IF ~ParsesIndexBlock(sectors, Head(queue)) THEN Invalid
    ELSE IF ~ParentsMatch(object, sectors[1].of.node) THEN Invalid
    ELSE [queue |-> Tail(queue) \o sectors[1].of.node.children,
          visited |-> visited \cup {Head(queue)}, entries |-> entries \o sectors[1].of.node.keys]

VisitChild(image, boot, root, object, tree, walk) ==
    IF Head(walk.queue) \in walk.visited THEN [walk EXCEPT !.queue = Tail(@)]
    ELSE IF ~ChildIsReadable(root, boot, tree, Head(walk.queue)) THEN Invalid
    ELSE AppendNode(image, boot, root, object, tree, walk.queue, walk.visited, walk.entries,
                    BlockSectors(image, boot, root, tree.extents, Head(walk.queue)))

RECURSIVE WalkIndex(_, _, _, _, _, _)
WalkIndex(image, boot, root, object, tree, walk) ==
    IF walk \in {Invalid, Partial} THEN walk
    ELSE IF walk.queue = <<>> THEN walk
    ELSE IF Cardinality(walk.visited \cup {Head(walk.queue)}) > MaxIndexBlocks THEN Partial
    ELSE WalkIndex(image, boot, root, object, tree,
                   Evaluated(VisitChild(image, boot, root, object, tree, walk)))

(* parse_index_allocation, read_attribute_value: Partial when a part of the *)
(* stream lies elsewhere.                                                   *)
BitmapValue(image, boot, attr) ==
    IF attr.resident THEN attr.value
    ELSE IF attr.lowest # 0 \/ attr.initialized < attr.data THEN Partial
    ELSE IF (attr.highest + 1) * ClusterBytes(boot) < attr.allocated THEN Partial
    ELSE ReadPrefix(image, boot, ExtentsOf(attr, boot), attr.data)

TreeWith(attr, extents, bitmap, boot) ==
    IF extents = Invalid THEN Invalid
    ELSE IF (attr.highest + 1) * ClusterBytes(boot) # attr.allocated \/ bitmap = Partial THEN Partial
    ELSE [extents |-> extents, data |-> attr.data, bitmap |-> bitmap]

(* A list that was not resolved may hide an attribute of the index.         *)
Absent(unresolved) == IF unresolved THEN Partial ELSE Invalid

IndexTree(image, boot, allocation, bitmap, unresolved) ==
    IF allocation = <<>> \/ bitmap = <<>> THEN Absent(unresolved)
    ELSE IF allocation[1].resident THEN Invalid
    ELSE IF allocation[1].lowest # 0 THEN Invalid
    ELSE TreeWith(allocation[1], ExtentsOf(allocation[1], boot),
                  BitmapValue(image, boot, bitmap[1]), boot)

WalkFromRoot(image, boot, root, object, tree) ==
    IF tree \in {Invalid, Partial} THEN tree
    ELSE WalkIndex(image, boot, root, object, tree,
                   [queue |-> root.node.children, visited |-> {}, entries |-> root.node.keys])

DirectoryEntries(image, boot, object, attrs, roots, unresolved) ==
    IF roots = <<>> THEN Absent(unresolved)
    ELSE IF Len(roots) # 1 THEN Invalid
    ELSE IF ~roots[1].resident THEN Invalid
    ELSE IF ~ParsesIndexRoot(roots[1].value, roots[1].size) THEN Invalid
    ELSE IF ~ParentsMatch(object, roots[1].value.node) THEN Invalid
    ELSE IF ~HasChildren(roots[1].value.node)
    THEN [queue |-> <<>>, visited |-> {}, entries |-> roots[1].value.node.keys]
    ELSE WalkFromRoot(image, boot, roots[1].value, object,
                      IndexTree(image, boot, Named(attrs, IndexAllocationType, IndexName),
                                Named(attrs, BitmapType, IndexName), unresolved))

WithEntries(object, walk) ==
    IF walk = Partial THEN object
    ELSE IF walk = Invalid THEN Invalid
    ELSE [object EXCEPT !.entries = walk.entries, !.indexed = TRUE]

InventoryDirectory(image, boot, object, attrs, unresolved) ==
    IF ~object.directory THEN object
    ELSE WithEntries(object,
                     Evaluated(DirectoryEntries(image, boot, object, attrs,
                                                Named(attrs, IndexRootType, IndexName), unresolved)))

-----------------------------------------------------------------------------
(* The index of reparse points.                                             *)

ReparseFileName == <<15>>           \* $Reparse

IsReparseRecord(object) ==
    \E i \in DOMAIN object.names : /\ object.names[i].parent.record = ExtendRecord
                                   /\ object.names[i].name = ReparseFileName

(* inventory_reparse_index, the walk: no block is reachable twice.          *)
AppendKeys(walk, sectors) ==
    IF ~ReadsReparseBlock(sectors, Head(walk.queue)) THEN Invalid
    ELSE [queue |-> Tail(walk.queue) \o sectors[1].of.node.children,
          visited |-> walk.visited \cup {Head(walk.queue)},
          entries |-> walk.entries \o sectors[1].of.node.keys]

RECURSIVE WalkReparse(_, _, _, _, _)
WalkReparse(image, boot, root, tree, walk) ==
    IF walk \in {Invalid, Partial} THEN walk
    ELSE IF walk.queue = <<>> THEN walk
    ELSE IF Head(walk.queue) \in walk.visited THEN Invalid
    ELSE IF Cardinality(walk.visited) = MaxIndexBlocks THEN Partial
    ELSE IF ~ChildIsReadable(root, boot, tree, Head(walk.queue)) THEN Invalid
    ELSE WalkReparse(image, boot, root, tree,
                     Evaluated(AppendKeys(walk, BlockSectors(image, boot, root, tree.extents,
                                                             Head(walk.queue)))))

ReparseWalk(image, boot, root, tree) ==
    IF tree \in {Invalid, Partial} THEN tree
    ELSE WalkReparse(image, boot, root, tree,
                     [queue |-> root.node.children, visited |-> {}, entries |-> root.node.keys])

ReparseKeys(image, boot, attrs, roots, unresolved) ==
    IF roots = <<>> THEN Absent(unresolved)
    ELSE IF Len(roots) # 1 THEN Invalid
    ELSE IF ~roots[1].resident THEN Invalid
    ELSE IF ~ReadsReparseRoot(roots[1].value) THEN Invalid
    ELSE IF ~HasChildren(roots[1].value.node)
    THEN [queue |-> <<>>, visited |-> {}, entries |-> roots[1].value.node.keys]
    ELSE ReparseWalk(image, boot, roots[1].value,
                     IndexTree(image, boot, Named(attrs, IndexAllocationType, ReparseName),
                               Named(attrs, BitmapType, ReparseName), unresolved))

(* reconcile_reparse_index: the index lists every reparse point once, with  *)
(* its tag, and nothing else.                                               *)
TagOf(object) == IF object.reparse = NotCaptured THEN NoValue ELSE object.reparse.tag

Reconciles(objects, keys) ==
    LET pointed == Where(objects, LAMBDA o : o.reparse # NoValue)
        References(object, key) == key.file = [record |-> object.record, sequence |-> object.sequence]
    IN /\ DistinctBy(keys, LAMBDA k : k.file)
       /\ \A k \in DOMAIN keys : \E o \in DOMAIN pointed :
             /\ References(pointed[o], keys[k])
             /\ TagOf(pointed[o]) \in {NoValue, keys[k].tag}
       /\ \A o \in DOMAIN pointed : \E k \in DOMAIN keys : References(pointed[o], keys[k])

ReparseEvidence(objects, scan, reasons) ==
    IF reasons \cap {"records", "mapping", "list", "outside"} # {} THEN "unavailable"
    ELSE IF scan = Partial THEN "unavailable"
    ELSE IF scan = NoValue
    THEN IF \E o \in DOMAIN objects : objects[o].reparse # NoValue THEN Invalid ELSE "absent"
    ELSE IF Reconciles(objects, scan.entries) THEN "reconciled" ELSE Invalid

-----------------------------------------------------------------------------
(* inventory_ntfs, record by record.                                        *)

ScanRecords(mft, boot) ==
    Min({mft.initialized \div RecordBytes(boot), MaxRecords,
         Min({MappedBytes(mft, boot), mft.initialized}) \div RecordBytes(boot)})

StartInventory(mft, boot) ==
    [next |-> 0, objects |-> <<>>, claims |-> {}, reparse |-> NoValue,
     state |-> IF \/ mft.initialized > mft.data \/ mft.data % RecordBytes(boot) # 0
                  \/ mft.initialized % RecordBytes(boot) # 0
               THEN "refused" ELSE "scan",
     reasons |->
        (IF MaxRecords < mft.initialized \div RecordBytes(boot) THEN {"records"} ELSE {})
        \cup (IF \/ MappedBytes(mft, boot) < mft.initialized \/ ~MappingComplete(mft, boot)
              THEN {"mapping"} ELSE {})]

RefuseInventory(inv) == [inv EXCEPT !.state = "refused"]

(* The reparse index is taken from the one record that is called so.        *)
ReparseScan(image, boot, inv, object, attrs, unresolved) ==
    IF ~IsReparseRecord(object) THEN inv.reparse
    ELSE IF inv.reparse # NoValue THEN Invalid
    ELSE Evaluated(ReparseKeys(image, boot, attrs, Named(attrs, IndexRootType, ReparseName),
                               unresolved))

AddObject(inv, object, claims, scan, partial) ==
    IF object = Invalid \/ scan = Invalid THEN RefuseInventory(inv)
    ELSE [inv EXCEPT !.next = @ + 1, !.objects = Append(@, object), !.claims = @ \cup claims,
                     !.reparse = scan,
                     !.reasons = @ \cup (IF partial THEN {"list"} ELSE {})
                                   \cup (IF ~object.indexed THEN {"index"} ELSE {})
                                   \cup (IF scan = Partial THEN {"index"} ELSE {})]

InventoryObject(image, boot, inv, record, attrs, unresolved, object) ==
    IF object = Invalid THEN RefuseInventory(inv)
    ELSE AddObject(inv, Evaluated(InventoryDirectory(image, boot, object, attrs, unresolved)),
                   PhysicalClaims(inv.next, MappedAttributes(record, attrs), boot),
                   ReparseScan(image, boot, inv, object, attrs, unresolved), unresolved)

InventoryWith(image, boot, inv, record, attrs, unresolved) ==
    InventoryObject(image, boot, inv, record, attrs, unresolved,
                    Evaluated(InventoryBaseRecord(image, boot, inv.next, record, attrs)))

(* The attributes of a record that has a list are those the list names.     *)
InventoryListed(image, boot, inv, record, resolved) ==
    IF resolved \in {Invalid, Outside} THEN RefuseInventory(inv)
    ELSE InventoryWith(image, boot, inv, record,
                       IF resolved \in {NoValue, Partial} THEN record.attrs
                       ELSE [i \in DOMAIN resolved |-> resolved[i].attr],
                       resolved = Partial)

InventoryRecord(image, boot, mft, inv, record) ==
    IF record \in {Invalid, Outside} THEN RefuseInventory(inv)
    ELSE IF record = Zeroed THEN [inv EXCEPT !.next = @ + 1]
    ELSE IF ~record.inUse \/ record.base # NoReference THEN [inv EXCEPT !.next = @ + 1]
    ELSE InventoryListed(image, boot, inv, record,
             IF OfType(record.attrs, AttributeListType) = <<>> THEN NoValue
             ELSE Evaluated(ResolveAttributeList(image, boot, mft, record, inv.next)))

(* mark_extend_subtree_as_metadata.                                         *)
RECURSIVE ExtendSubtree(_, _)
ExtendSubtree(objects, subtree) ==
    LET more == {o \in DOMAIN objects :
                    /\ objects[o].record \notin subtree \cup {RootRecord}
                    /\ objects[o].names # <<>>
                    /\ \A i \in DOMAIN objects[o].names :
                          objects[o].names[i].parent.record \in subtree}
    IN IF more = {} THEN subtree
       ELSE ExtendSubtree(objects, subtree \cup {objects[o].record : o \in more})

MarkMetadata(objects, subtree) ==
    [o \in DOMAIN objects |->
        IF objects[o].record \in subtree \ {ExtendRecord}
        THEN [objects[o] EXCEPT !.metadata = TRUE] ELSE objects[o]]

(* validate_references: entries and parents name records in use, with their *)
(* sequence; a record behind the scan makes the inventory incomplete.       *)
SequenceHolds(objects, reference, mustExist) ==
    LET found == Where(objects, LAMBDA o : o.record = reference.record)
    IN IF found = <<>> THEN ~mustExist ELSE found[1].sequence = reference.sequence

ReferencesHold(objects, scanned) ==
    \A o \in DOMAIN objects :
        /\ \A i \in DOMAIN objects[o].entries :
              objects[o].entries[i].target.record < scanned =>
                  SequenceHolds(objects, objects[o].entries[i].target, TRUE)
        /\ \A i \in DOMAIN objects[o].names :
              objects[o].names[i].parent.record < scanned =>
                  SequenceHolds(objects, objects[o].names[i].parent, FALSE)

ReferencesOutside(objects, scanned) ==
    \E o \in DOMAIN objects :
        \/ \E i \in DOMAIN objects[o].entries : objects[o].entries[i].target.record >= scanned
        \/ \E i \in DOMAIN objects[o].names : objects[o].names[i].parent.record >= scanned

ConcludeWith(inv, evidence) ==
    IF evidence = Invalid THEN RefuseInventory(inv)
    ELSE [inv EXCEPT !.state = "done", !.reparse = evidence,
                     !.objects = MarkMetadata(@, ExtendSubtree(@, {ExtendRecord}))]

ConcludeInventory(inv, reasons) ==
    IF ~ReferencesHold(inv.objects, inv.next) THEN RefuseInventory(inv)
    ELSE ConcludeWith([inv EXCEPT !.reasons = reasons],
                      ReparseEvidence(inv.objects, inv.reparse, reasons))

(* One step of the scan.                                                    *)
InventoryStep(image, boot, mft, inv) ==
    IF inv.next < ScanRecords(mft, boot)
    THEN InventoryRecord(image, boot, mft, inv, ScanMftRecord(image, boot, mft, inv.next))
    ELSE ConcludeInventory(inv, inv.reasons \cup
             (IF ReferencesOutside(inv.objects, inv.next) THEN {"outside"} ELSE {}))

-----------------------------------------------------------------------------
(***************************************************************************)
(* Inspecting an NTFS image (inspect.rs): the boot sectors, the MFT, the   *)
(* volume's flags and bitmaps (ntfs_volume.rs, ntfs_bitmap.rs), the        *)
(* inventory, and whether the bitmaps say of clusters and records what the *)
(* inventory found. A bitmap is [bits, bytes].                             *)
(***************************************************************************)

SecureRecordNumber == 9
SecurityStream == <<36, 83, 68, 83>>     \* $SDS

-----------------------------------------------------------------------------
(* discover_volume_and_bitmap.                                              *)

(* validate_system_record, system_record_attribute_bytes: what lies outside *)
(* the mapping makes the evidence Partial.                                  *)
AttributesOf(resolved) ==
    IF resolved = Outside THEN Partial
    ELSE IF resolved \in Refusals THEN Invalid
    ELSE [i \in DOMAIN resolved |-> resolved[i].attr]

SystemAttributes(image, boot, mft, number, record) ==
    IF record \in Refusals THEN Invalid
    ELSE IF ~record.inUse \/ record.base # NoReference THEN Invalid
    ELSE IF ~ParsesAttributes(record, ClusterBytes(boot)) THEN Invalid
    ELSE IF OfType(record.attrs, AttributeListType) = <<>> THEN record.attrs
    ELSE AttributesOf(Evaluated(ResolveAttributeList(image, boot, mft, record, number)))

(* parse_volume_evidence: the flags of the volume.                          *)
VolumeEvidence(found) ==
    IF Len(found) # 1 THEN Invalid
    ELSE IF found[1].name # <<>> \/ ~found[1].resident \/ found[1].size # 12 THEN Invalid
    ELSE found[1].value.flags

(* read_bitmap_stream, parse_stream_extent_runlist, read_stream.            *)
MappedBitmap(image, boot, first, runs) ==
    IF first.initialized < first.data THEN Partial
    ELSE IF runs = Invalid THEN Invalid
    ELSE IF HasHole(runs.extents) \/ MappedBytes(runs, boot) > first.allocated THEN Invalid
    ELSE IF MappedBytes(runs, boot) < first.allocated THEN Partial
    ELSE ReadPrefix(image, boot, runs.extents, first.data)

(* select_stream_extents.                                                   *)
IsFirst(attr) == IF attr.resident THEN TRUE ELSE attr.lowest = 0

BitmapStream(image, boot, parts) ==
    IF Len(Where(parts, IsFirst)) # 1 THEN Invalid
    ELSE IF Where(parts, IsFirst)[1].resident
    THEN IF Len(parts) = 1 THEN parts[1].value ELSE Invalid
    ELSE MappedBitmap(image, boot, FirstPart(parts)[1], JoinParts(parts, boot))

IsBitmap(value) == IF value \in {Zeroed, Garbage} THEN FALSE ELSE "bits" \in DOMAIN value

(* bitmap_lengths: whole bytes, in units of eight.                          *)
CanonicalBytes(count) == AlignUp(AlignUp(count, 8) \div 8, 8)

(* parse_bitmap, allocation_evidence: no byte missing, no bit of the tail   *)
(* clear.                                                                   *)
AllocationEvidence(boot, value) ==
    IF value \in Refusals THEN value
    ELSE IF ~IsBitmap(value) THEN Invalid
    ELSE IF \/ value.bytes # CanonicalBytes(ClusterCount(boot))
            \/ ~(ClusterCount(boot) .. 8 * value.bytes - 1 \subseteq value.bits)
    THEN Invalid ELSE value

RecordEvidence(value) ==
    IF value \in Refusals THEN value ELSE IF IsBitmap(value) THEN value ELSE Invalid

OfAttributes(attrs, Evidence(_)) == IF attrs \in Refusals THEN attrs ELSE Evidence(attrs)

VolumeWith(mftBitmap, flags, bitmap) ==
    IF mftBitmap = Invalid \/ flags = Invalid \/ bitmap = Invalid THEN Invalid
    ELSE [mftBitmap |-> mftBitmap, flags |-> flags, bitmap |-> bitmap]

AttributesAt(image, boot, mft, number) ==
    Evaluated(SystemAttributes(image, boot, mft, number, ReadMftRecord(image, boot, mft, number)))

DiscoverVolume(image, boot, mft) ==
    VolumeWith(
        OfAttributes(AttributesAt(image, boot, mft, MftRecordNumber),
            LAMBDA attrs : RecordEvidence(BitmapStream(image, boot, Named(attrs, BitmapType, <<>>)))),
        OfAttributes(AttributesAt(image, boot, mft, VolumeRecordNumber),
            LAMBDA attrs : VolumeEvidence(OfType(attrs, VolumeInformationType))),
        OfAttributes(AttributesAt(image, boot, mft, BitmapRecordNumber),
            LAMBDA attrs : AllocationEvidence(boot, BitmapStream(image, boot, Named(attrs, DataType, <<>>)))))

-----------------------------------------------------------------------------
(* The bitmaps against the inventory.                                       *)

ClaimedClusters(claims) == UNION {c.lcn .. c.lcn + c.length - 1 : c \in claims}

ClaimsApart(claims) ==
    \A a, b \in claims : a # b => a.lcn + a.length <= b.lcn \/ b.lcn + b.length <= a.lcn

(* reconcile_allocation_claims, first_unclaimed_allocated_cluster.          *)
UnclaimedVerdict(bitmap, claims, count, complete) ==
    IF ~complete THEN "partial"
    ELSE IF (bitmap.bits \cap 0 .. count - 1) \subseteq ClaimedClusters(claims) THEN "complete" ELSE Invalid

(* reconcile_ntfs_allocation.                                               *)
ReconcileAllocation(boot, bitmap, inv) ==
    IF bitmap = Partial THEN "partial"
    ELSE IF \/ \E c \in inv.claims : c.length = 0 \/ c.lcn + c.length > ClusterCount(boot)
            \/ ~ClaimsApart(inv.claims)
            \/ ~(ClaimedClusters(inv.claims) \subseteq bitmap.bits)
    THEN Invalid
    ELSE UnclaimedVerdict(bitmap, inv.claims, ClusterCount(boot), inv.reasons = {})

(* reconcile_ntfs_mft_records, first_set_mft_bitmap_bit.                    *)
InUseAt(image, boot, mft, n) ==
    LET record == ScanMftRecord(image, boot, mft, n)
    IN IF record \in Refusals \cup {Zeroed} THEN FALSE ELSE record.inUse

ReconcileRecords(image, boot, mft, bitmap, inv) ==
    LET initialized == mft.initialized \div RecordBytes(boot)
    IN IF bitmap = Partial THEN "partial"
       ELSE IF \/ 8 * bitmap.bytes < initialized
               \/ \E n \in 0 .. ScanRecords(mft, boot) - 1 :
                     (n \in bitmap.bits) # InUseAt(image, boot, mft, n)
               \/ \E n \in bitmap.bits : n >= initialized
       THEN Invalid
       ELSE IF inv.reasons = {} THEN "complete" ELSE "partial"

-----------------------------------------------------------------------------
(* inspect_ntfs_security_descriptors.                                       *)

SecurityStreams(objects) ==
    FlattenSeq([o \in DOMAIN objects |->
        IF objects[o].record = SecureRecordNumber
        THEN Where(objects[o].streams, LAMBDA s : s.name = SecurityStream) ELSE <<>>])

MappedSds(image, stream) ==
    IF ~stream.complete \/ stream.initialized < stream.data THEN Zeroed
    ELSE Assembled(FlattenSeq([e \in DOMAIN stream.extents |->
            [s \in 1 .. (Min({stream.extents[e].length, stream.data - stream.extents[e].logical})
                            + SectorBytes - 1) \div SectorBytes |->
                SectorAt(image, stream.extents[e].physical \div SectorBytes + s - 1)]]))

SdsValue(image, streams) ==
    IF Len(streams) # 1 THEN Zeroed
    ELSE IF streams[1].resident THEN streams[1].payload ELSE MappedSds(image, streams[1])

(* parse_ntfs_sds_stream: any damage makes the descriptors unavailable.     *)
SecurityEvidence(image, inv) ==
    LET value == SdsValue(image, SecurityStreams(inv.objects))
    IN IF value \in {Zeroed, Garbage, NotCaptured} THEN "unavailable"
       ELSE IF "sds" \in DOMAIN value THEN value.sds ELSE "unavailable"

-----------------------------------------------------------------------------
(* inspect_ntfs.                                                            *)

IsBoot(value) == IF value \in {Zeroed, Garbage} THEN FALSE ELSE "boot" \in DOMAIN value

(* The sector behind the declared ones is the backup.                       *)
BackupSector(image, boot) == SectorAt(image, boot.totalSectors).of

ReadsBoot(image, bytes, value) ==
    IF IsBoot(value)
    THEN ParsesBootSector(value) /\ ValidBootRegion(value, BackupSector(image, value), bytes)
    ELSE FALSE

(* ntfs_health.                                                             *)
Health(volume, mirror) ==
    IF volume.flags = Partial THEN "unknown"
    ELSE IF "dirty" \in volume.flags THEN "dirty"
    ELSE IF mirror = "exact" THEN "clean" ELSE "unknown"

(* The end of inspect_ntfs, once the inventory is there.                    *)
ReportOf(image, inv, volume, evidence, allocation, records) ==
    IF Invalid \in {allocation, records} THEN Invalid
    ELSE [objects |-> inv.objects, health |-> Health(volume, evidence.mirror),
          complete |-> inv.reasons = {} /\ allocation = "complete" /\ records = "complete",
          security |-> IF inv.reasons = {} /\ allocation = "complete" /\ records = "complete"
                       THEN SecurityEvidence(image, inv) ELSE "unavailable"]

ConcludeInspection(image, boot, mft, inv, volume, evidence) ==
    ReportOf(image, inv, volume, evidence, ReconcileAllocation(boot, volume.bitmap, inv),
             Evaluated(ReconcileRecords(image, boot, mft, volume.mftBitmap, inv)))
=============================================================================
