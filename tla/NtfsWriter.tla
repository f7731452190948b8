----------------------------- MODULE NtfsWriter ------------------------------
(***************************************************************************)
(* Planning an NTFS destination (ntfs_serialize.rs): system records, user  *)
(* objects, directory and reparse indexes, bitmaps and boot sectors around *)
(* payload that stays where it is, or, in a draft, will be moved.          *)
(*                                                                         *)
(* A graph is [bytes, objects, entries, extents]: object 1 is the root; an *)
(* object is [directory, streams]; an entry is [parent, target, name]; an  *)
(* extent is [stream, logical, length, at, payload] with at = Hole for a   *)
(* sparse one and payload for file data. A stream is [id, name, resident,  *)
(* value, logical, initialized, mapped, allocated, sparse]. A profile is   *)
(* [label, bad, reparse, security, metadata], the last three by object;    *)
(* metadata is [times, dos, security]. A reparse point is [tag, size], a   *)
(* descriptor [descriptor, size]; NoValue is none.                         *)
(*                                                                         *)
(* The work is a record that grows from stage to stage. Limits on counts   *)
(* and sizes that only bound memory are left out.                          *)
(***************************************************************************)
EXTENDS NtfsPacking

CONSTANTS MaxResident,      \* limits.max_resident_data_bytes
          FormatTime        \* inputs.timestamp

MftLcn == 4
BootFileBytes == 8192
FirstUserRecord == 27
BlockBytes == 4096
MinLogFileBytes == 262144
AttrDefBytes == 2560
UpcaseBytes == 131072
SdsBytes == 262144 + 252    \* two descriptors, and their copy 256 KiB behind
SystemSecurity == 256
UserSecurity == 257

(* Names of system files are one symbol each.                               *)
SystemName == [n \in 0 .. 11 |-> <<<<7, 8, 6, 11, 1, 12, 3, 4, 2, 9, 10, 5>>[n + 1]>>]
ExtendName == [n \in 24 .. 26 |-> <<<<14, 13, 15>>[n - 23]>>]

RunAt(lcn, clusters, bytes) == [lcn |-> lcn, clusters |-> clusters, bytes |-> bytes]

-----------------------------------------------------------------------------
(* What is accepted at all.                                                 *)

(* The geometry that plan_ntfs_destination_impl accepts.                    *)
CountClusters(bytes, cluster) == (bytes \div SectorBytes - 1) \div (cluster \div SectorBytes)

GeometryIsValid(bytes, cluster) ==
    /\ bytes >= 2 * SectorBytes /\ bytes % SectorBytes = 0
    /\ IsPowerOfTwo(cluster) /\ cluster >= SectorBytes /\ cluster \div SectorBytes <= 128
    /\ MftLcn * cluster >= BootFileBytes
    /\ CountClusters(bytes, cluster) > MftLcn + 1

(* validate_volume_profile, reparse_payload_map, validate_reparse_payload.  *)
ProfileIsValid(graph, profile) ==
    /\ Len(profile.label) <= 32
    /\ \A i \in DOMAIN graph.objects :
          profile.reparse[i] # NoValue => profile.reparse[i].size \in 8 .. MaxResident

(* validate_objects.                                                        *)
ObjectIsValid(graph, profile, i, draft) ==
    LET object == graph.objects[i]
        names == Where(graph.entries, LAMBDA e : e.target = i)
    IN /\ i # 1 => names # <<>>
       /\ object.directory => object.streams = <<>>
       /\ DistinctBy(object.streams, LAMBDA s : s.name)
       /\ \A s \in DOMAIN object.streams :
             LET stream == object.streams[s] IN
             /\ stream.initialized <= stream.logical
             /\ stream.resident /\ stream.name = <<>> /\ ~draft => stream.logical <= MaxResident

(* validate_names.                                                          *)
Folded(name) == [i \in DOMAIN name |-> Upcase[name[i]]]

NamesAreValid(graph) ==
    /\ \A e \in DOMAIN graph.entries : NameUnits(graph.entries[e].name) \in 1 .. 255
    /\ DistinctBy(graph.entries, LAMBDA e : <<e.parent, Folded(e.name)>>)

(* validate_object_metadata: security is by identifier, or inline.          *)
MetadataIsValid(graph, profile) ==
    \A i \in DOMAIN graph.objects :
        /\ ("directory" \in profile.metadata[i].dos) = graph.objects[i].directory
        /\ profile.metadata[i].security =
              IF profile.security[i] = NoValue THEN UserSecurity ELSE 0

(* map_bad_cluster_lcns.                                                    *)
Covering(ranges, cluster) ==
    UNION {ranges[r].offset \div cluster .. (End(ranges[r]) - 1) \div cluster : r \in DOMAIN ranges}

IsAccepted(graph, profile, options, draft) ==
    /\ GeometryIsValid(graph.bytes, options.cluster)
    /\ ProfileIsValid(graph, profile)
    /\ \A i \in DOMAIN graph.objects : ObjectIsValid(graph, profile, i, draft)
    /\ NamesAreValid(graph)
    /\ MetadataIsValid(graph, profile)
    /\ \A r \in DOMAIN profile.bad : profile.bad[r].length > 0 /\ End(profile.bad[r]) <= graph.bytes
    /\ \A c \in Covering(profile.bad, options.cluster) :
          c < CountClusters(graph.bytes, options.cluster)

-----------------------------------------------------------------------------
(* The start of the work.                                                   *)

(* The root is record 5, the other objects follow the system's records.     *)
RecordOf(i) == IF i = 1 THEN 5 ELSE FirstUserRecord + i - 2
FirstExtension(w) == FirstUserRecord + Len(w.graph.objects) - 1

(* index_names_by_target, index_children.                                   *)
EntryOrder(a, b) == a.parent < b.parent \/ (a.parent = b.parent /\ NameLess(a.name, b.name))
RootName == [parent |-> 1, target |-> 1, name |-> SystemName[5]]
NamesOf(graph, i) == SortSeq(Where(graph.entries, LAMBDA e : e.target = i), EntryOrder)

Work(graph, profile, options, draft) ==
    [graph |-> graph, profile |-> profile, cluster |-> options.cluster, draft |-> draft,
     count |-> CountClusters(graph.bytes, options.cluster),
     bad |-> Covering(profile.bad, options.cluster),
     names |-> Evaluated([i \in DOMAIN graph.objects |->
                            IF i = 1 THEN <<RootName>> ELSE NamesOf(graph, i)])]

-----------------------------------------------------------------------------
(* VolumeEndAllocator: clusters that a final plan takes for itself, from    *)
(* the end of the volume downwards.                                         *)

(* occupied_destination_lcns.                                               *)
PhysicalExtents(graph) == Where(graph.extents, LAMBDA e : e.at # Hole)
ClustersOfExtent(extent, cluster) ==
    extent.at \div cluster .. (extent.at + extent.length - 1) \div cluster

OccupiedClusters(w) ==
    (0 .. CeilDiv(BootFileBytes, w.cluster) - 1) \cup w.bad
    \cup UNION {ClustersOfExtent(PhysicalExtents(w.graph)[e], w.cluster) :
                    e \in DOMAIN PhysicalExtents(w.graph)}

StartAllocator(w) == [occupied |-> OccupiedClusters(w), next |-> w.count, runs |-> <<>>]

(* Mutant: a window is only checked at its lower end.                       *)
ChecksStartOnly(allocator, n) ==
    {s \in 0 .. allocator.next - n : s \notin allocator.occupied}

(* take_free_run: the highest window below the last one.                    *)
FreeWindows(allocator, n) ==
    {s \in 0 .. allocator.next - n : s .. s + n - 1 \cap allocator.occupied = {}}

TakeAt(allocator, key, start, n, bytes) ==
    [occupied |-> allocator.occupied \cup start .. start + n - 1, next |-> start,
     runs |-> Append(allocator.runs, [key |-> key, run |-> RunAt(start, n, bytes)])]

TakeFrom(allocator, key, windows, n, bytes) ==
    IF windows = {} THEN Invalid ELSE TakeAt(allocator, key, Max(windows), n, bytes)

Take(allocator, key, bytes, cluster) ==
    IF allocator = Invalid THEN Invalid
    ELSE TakeFrom(allocator, key, FreeWindows(allocator, CeilDiv(bytes, cluster)),
                  CeilDiv(bytes, cluster), bytes)

RunFor(runs, key) ==
    LET found == Where(runs, LAMBDA r : r.key = key)
    IN IF found = <<>> THEN NoRun ELSE found[1].run

(* allocate_named_resident_overflows: named streams too long for a record.  *)
Overflowing(graph) ==
    SortSeq(Where(FlattenSeq([i \in DOMAIN graph.objects |-> graph.objects[i].streams]),
                  LAMBDA s : s.resident /\ s.name # <<>> /\ s.logical > MaxResident),
            LAMBDA a, b : a.id < b.id)

TakeOverflows(w) ==
    IF w.draft THEN StartAllocator(w)
    ELSE FoldLeft(LAMBDA a, s : Take(a, <<"stream", s.id>>, s.logical, w.cluster),
                  StartAllocator(w), Overflowing(w.graph))

-----------------------------------------------------------------------------
(* plan_security_descriptors: in object order; short ones stay in records.  *)

DescribedBefore(w, i) ==
    {k \in 1 .. i - 1 : IF w.profile.security[k] = NoValue THEN FALSE
                        ELSE w.profile.security[k].size > MaxResident}

DescriptorClusters(w, objects) ==
    FoldLeft(LAMBDA sum, k : sum + CeilDiv(w.profile.security[k].size, w.cluster), 0,
             SetToSeq(objects))

DescriptorAt(w, i, lcn) ==
    IF w.profile.security[i] = NoValue THEN NoRun
    ELSE IF w.profile.security[i].size <= MaxResident THEN NoRun
    ELSE RunAt(lcn + DescriptorClusters(w, DescribedBefore(w, i)),
               CeilDiv(w.profile.security[i].size, w.cluster), w.profile.security[i].size)

Descriptors(w, lcn) == [i \in DOMAIN w.graph.objects |-> DescriptorAt(w, i, lcn)]
AllDescriptorClusters(w) == DescriptorClusters(w, DescribedBefore(w, Len(w.graph.objects) + 1))

(* security_descriptor_attribute.                                           *)
DescriptorAttribute(w, i, id) ==
    IF w.profile.security[i] = NoValue THEN <<>>
    ELSE IF w.descriptors[i] = NoRun
    THEN <<ResidentAttribute(SecurityDescriptorType, <<>>, id, w.profile.security[i],
                             w.profile.security[i].size)>>
    ELSE <<SingleRun(SecurityDescriptorType, <<>>, id, w.descriptors[i], w.cluster)>>

DescriptorCount(w, i) == IF w.profile.security[i] = NoValue THEN 0 ELSE 1

-----------------------------------------------------------------------------
(* The attributes that every object has.                                    *)

DosOf(w, i) ==
    w.profile.metadata[i].dos
    \cup (IF w.profile.reparse[i] = NoValue THEN {} ELSE {"reparse"})
    \cup (IF i = 1 THEN {"hidden", "system"} ELSE {})

TagOfObject(w, i) == IF w.profile.reparse[i] = NoValue THEN 0 ELSE w.profile.reparse[i].tag

(* standard_information_with_security_id: no directory flag in here.        *)
StandardAttribute(times, dos, security) ==
    ResidentAttribute(StandardInformation, <<>>, 0,
                      [times |-> times, dos |-> dos \ {"directory"}, security |-> security], 72)

ObjectStandard(w, i) ==
    StandardAttribute(w.profile.metadata[i].times, DosOf(w, i), w.profile.metadata[i].security)

(* file_name_value.                                                         *)
FileNameKey(parent, namespace, name, dos, times, sizes, tag) ==
    [parent |-> Reference(parent), namespace |-> namespace, name |-> name,
     meta |-> [dos |-> dos, times |-> times, sizes |-> sizes, tag |-> tag]]

NameAttribute(id, key) == ResidentAttribute(FileNameType, <<>>, id, key, FileNameBytes(key))

(* file_name_attributes.                                                    *)
DirectoryDos(dos, directory) ==
    (dos \ {"directory"}) \cup (IF directory THEN {"i30"} ELSE {})

KeyOf(w, i, entry, sizes) ==
    FileNameKey(RecordOf(entry.parent), IF i = 1 THEN 3 ELSE 0, entry.name,
                DirectoryDos(DosOf(w, i), w.graph.objects[i].directory),
                w.profile.metadata[i].times, sizes, TagOfObject(w, i))

NameAttributes(w, i, sizes) ==
    [n \in DOMAIN w.names[i] |-> NameAttribute(n, KeyOf(w, i, w.names[i][n], sizes))]

ReparseAttribute(w, i, id) ==
    IF w.profile.reparse[i] = NoValue THEN <<>>
    ELSE <<ResidentAttribute(ReparsePointType, <<>>, id, w.profile.reparse[i],
                             w.profile.reparse[i].size)>>

-----------------------------------------------------------------------------
(* Files.                                                                   *)

StreamExtentsOf(w, stream) ==
    Where(w.graph.extents, LAMBDA e : e.stream = stream.id /\ e.payload)

StreamAttributes(w, stream, id) ==
    IF stream.resident
    THEN ResidentStream(stream, RunFor(w.overflows, <<"stream", stream.id>>), id, w.draft,
                        MaxResident, w.cluster)
    ELSE NonresidentStream(stream, StreamExtentsOf(w, stream), id, w.draft, w.cluster)

(* The unnamed stream first, then by name; ids continue over fragments.     *)
StreamOrder(a, b) == NameLess(a.name, b.name)

AddAttributes(attrs, more) == IF more = Invalid THEN Invalid ELSE attrs \o more

AddStream(w, attrs, stream, firstId) ==
    IF attrs = Invalid THEN Invalid
    ELSE AddAttributes(attrs, StreamAttributes(w, stream, firstId + Len(attrs)))

DataAttributes(w, streams, firstId) ==
    IF streams = <<>> THEN <<EmptyAttribute(DataType, <<>>, firstId)>>
    ELSE FoldLeft(LAMBDA attrs, s : AddStream(w, attrs, s, firstId), <<>>,
                  SortSeq(streams, StreamOrder))

UnnamedSizes(streams) ==
    LET unnamed == Where(streams, LAMBDA s : s.name = <<>>)
    IN IF unnamed = <<>> THEN <<0, 0>> ELSE <<unnamed[1].allocated, unnamed[1].logical>>

(* Without a stream the id of the empty $DATA is not counted.               *)
IdsOfData(streams, data) == IF streams = <<>> THEN 0 ELSE Len(data)

WithData(w, i, head, id, data) ==
    IF data = Invalid THEN Invalid
    ELSE head \o data \o ReparseAttribute(w, i, id + IdsOfData(w.graph.objects[i].streams, data))

(* file_attributes.                                                         *)
FileAttributes(w, i) ==
    LET streams == w.graph.objects[i].streams
        names == NameAttributes(w, i, UnnamedSizes(streams))
        id == 1 + Len(names) + DescriptorCount(w, i)
    IN WithData(w, i, <<ObjectStandard(w, i)>> \o names \o DescriptorAttribute(w, i, 1 + Len(names)),
                id, Evaluated(DataAttributes(w, streams, id)))

Files(w) == Where([i \in DOMAIN w.graph.objects |-> i], LAMBDA i : ~w.graph.objects[i].directory)
Directories(w) == Where([i \in DOMAIN w.graph.objects |-> i], LAMBDA i : w.graph.objects[i].directory)

(* allocate_file_attribute_list_runs.                                       *)
TakeFileList(w, allocator, i, attrs) ==
    IF attrs = Invalid THEN Invalid
    ELSE IF ~FileNeedsListRun(attrs) THEN allocator
    ELSE Take(allocator, <<"list", i>>, ListPayload(attrs, w.cluster), w.cluster)

TakeFileLists(w) ==
    IF w.draft THEN w.allocator
    ELSE FoldLeft(LAMBDA a, i : IF a = Invalid THEN Invalid
                                ELSE TakeFileList(w, a, i, FileAttributes(w, i)),
                  w.allocator, Files(w))

(* file_record.                                                             *)
PackFile(w, i, first, run, attrs) ==
    IF attrs = Invalid THEN Invalid
    ELSE PackRecords(FileGroups(attrs, run, w.cluster), RecordOf(i), FALSE, Len(w.names[i]), first,
                     NextInstance(attrs), w.cluster)

FileRecordAt(w, i, first, run, attrs) ==
    IF attrs = Invalid THEN Invalid ELSE PackFile(w, i, first, run, WithContinuation(attrs, run))

FileRecord(w, i, first, runs) ==
    FileRecordAt(w, i, first, RunFor(runs, <<"list", i>>), Evaluated(FileAttributes(w, i)))

-----------------------------------------------------------------------------
(* Directories.                                                             *)

(* directory_index_root_budget: what a record has left for the root.        *)
RootBudget(prefix, suffix) ==
    952 - FoldLeft(+, 0, Lengths(prefix)) - FoldLeft(+, 0, Lengths(suffix)) - 32

(* directory_prefix_attributes, directory_exact_suffix.                     *)
DirectoryPrefix(w, i) == <<ObjectStandard(w, i)>> \o NameAttributes(w, i, <<0, 0>>)
ExactSuffix(w, i) == DescriptorAttribute(w, i, 6) \o ReparseAttribute(w, i, 5)

SpillSuffix(name, lcn, clusters, allocationBytes, bitmap, cluster, firstId) ==
    <<SingleRun(IndexAllocationType, name, firstId, RunAt(lcn, clusters, allocationBytes), cluster),
      ResidentAttribute(BitmapType, name, firstId + 1, bitmap, bitmap.bytes)>>

(* directory_needs_attribute_list: with the smallest spill it would have.   *)
DummySpill(cluster) == SpillSuffix(IndexName, 0, 1, cluster, [bits |-> {0}, bytes |-> 1], cluster, 3)

DirectoryNeedsList(w, i) ==
    \/ RootBudget(DirectoryPrefix(w, i), ExactSuffix(w, i)) < 0
    \/ RootBudget(DirectoryPrefix(w, i), DummySpill(w.cluster) \o ExactSuffix(w, i)) < 0

(* directory_budget_prefix_with_list: the names have gone, a list has come. *)
BudgetEntries(prefix, spilled, exact) == Len(prefix) - 1 + (IF spilled THEN 4 ELSE 2) + exact

ResidentBudget(prefix, spilled, exact) ==
    <<prefix[1], ResidentAttribute(AttributeListType, <<>>, 0, Zeroed,
                                   32 * BudgetEntries(prefix, spilled, exact))>>

NeedsSplit(prefix, spilled, exact, cluster) ==
    CeilDiv(ListLength(prefix) + ((IF spilled THEN 3 ELSE 1) + exact) * 40, cluster) >= 2

MappedBudget(w, prefix, spilled, exact) ==
    <<prefix[1], SingleRun(AttributeListType, <<>>, 0,
                           RunAt(Max({w.count - 1, 1}), 16, 16 * w.cluster), w.cluster)>>
    \o (IF NeedsSplit(prefix, spilled, exact, w.cluster)
        THEN <<MappedAttribute(AttributeListType, <<>>, 0, 1, <<[lcn |-> 1, length |-> 1]>>,
                               [allocated |-> 0, data |-> 0, initialized |-> 0], FALSE)>>
        ELSE <<>>)

(* directory_list_budget_prefix: the budget that is left for the root.      *)
ListBudget(w, prefix, spilled, exact, suffix) ==
    LET resident == RootBudget(ResidentBudget(prefix, spilled, exact), suffix)
    IN IF resident >= 0 \/ w.draft THEN resident
       ELSE RootBudget(MappedBudget(w, prefix, spilled, exact), suffix)

BudgetOf(w, i, spilled, suffix) ==
    IF DirectoryNeedsList(w, i)
    THEN ListBudget(w, DirectoryPrefix(w, i), spilled, Len(ExactSuffix(w, i)), suffix)
    ELSE RootBudget(DirectoryPrefix(w, i), suffix)
=============================================================================
