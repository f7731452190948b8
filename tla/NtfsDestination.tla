--------------------------- MODULE NtfsDestination ---------------------------
(***************************************************************************)
(* The rest of an NTFS plan (ntfs_serialize.rs): where the system's files  *)
(* go, their records, the indexes of directories and reparse points, and   *)
(* the writes and reservations of the plan.                                *)
(*                                                                         *)
(* A layout is [records, inUse, bytes, clusters, at, indexes]: bytes,      *)
(* clusters and first cluster of each area, and the cluster behind them.   *)
(***************************************************************************)
EXTENDS NtfsWriter

With(w, more) == more @@ w

-----------------------------------------------------------------------------
(* metadata_layout.                                                         *)

Areas == <<"mft", "mirror", "logfile", "attrdef", "sds", "bitmap", "upcase", "mftBitmap">>
AreaNames == {Areas[k] : k \in DOMAIN Areas}

(* mft_mirror_logical_bytes.                                                *)
MirrorBytes(cluster) == Max({cluster, 4096})

(* formatter_logfile_bytes, for volumes up to 200 MiB: halved until it ends *)
(* before the volume does, and never shorter than the shortest log.         *)
WantedLogFile(volume) ==
    IF volume < 2097152 THEN MinLogFileBytes ELSE IF volume < 4000000 THEN 524288 ELSE 2097152

FittingLogFiles(w, lcn) ==
    {bytes \in {WantedLogFile(w.count * w.cluster) \div 2 ^ k : k \in 0 .. 3} :
        bytes >= MinLogFileBytes /\ lcn + bytes \div w.cluster < w.count}

LogFileLcn(w, records) ==
    MftLcn + CeilDiv(records * WrittenRecordBytes, w.cluster)
        + CeilDiv(MirrorBytes(w.cluster), w.cluster)

AreaBytes(w, records, logfile) ==
    [mft |-> records * WrittenRecordBytes, mirror |-> MirrorBytes(w.cluster),
     logfile |-> AlignUp(logfile, w.cluster), attrdef |-> AttrDefBytes, sds |-> SdsBytes,
     bitmap |-> CeilDiv(w.count, 8), upcase |-> UpcaseBytes,
     mftBitmap |-> AlignUp(Max({CeilDiv(records, 8), 8}), 8)]

Before(area) == SelectSeq(Areas, LAMBDA a : \E i, j \in DOMAIN Areas :
                                                i < j /\ Areas[i] = a /\ Areas[j] = area)

LayoutWith(records, inUse, bytes, clusters) ==
    [records |-> records, inUse |-> inUse, bytes |-> bytes, clusters |-> clusters,
     at |-> Evaluated([a \in AreaNames |-> MftLcn + SumOf(Before(a), LAMBDA b : clusters[b])]),
     indexes |-> MftLcn + SumOf(Areas, LAMBDA b : clusters[b])]

LayoutOf(w, records, inUse, bytes) ==
    LayoutWith(records, inUse, bytes,
               Evaluated([a \in AreaNames |-> CeilDiv(bytes[a], w.cluster)]))

LayoutFor(w, records, inUse, fitting) ==
    IF fitting = {} THEN Invalid
    ELSE LayoutOf(w, records, inUse, AreaBytes(w, records, Max(fitting)))

(* As many records as are used, but no fewer than the mirror holds.         *)
RecordCount(w, inUse) == Max({inUse, MirrorBytes(w.cluster) \div WrittenRecordBytes})

Layout(w, inUse) ==
    LayoutFor(w, RecordCount(w, inUse), inUse, FittingLogFiles(w, LogFileLcn(w, RecordCount(w, inUse))))

-----------------------------------------------------------------------------
(* The records of the system.                                               *)

NoSizes == <<0, 0>>
AreaSizes(w, area) == <<w.layout.clusters[area] * w.cluster, w.layout.bytes[area]>>

BootClusters(w) == CeilDiv(BootFileBytes, w.cluster)

SystemSizes(w, n) ==
    CASE n = 0 -> AreaSizes(w, "mft")
      [] n = 1 -> AreaSizes(w, "mirror")
      [] n = 2 -> AreaSizes(w, "logfile")
      [] n = 4 -> AreaSizes(w, "attrdef")
      [] n = 6 -> AreaSizes(w, "bitmap")
      [] n = 7 -> <<BootClusters(w) * w.cluster, BootFileBytes>>
      [] n = 9 -> AreaSizes(w, "sds")
      [] n = 10 -> AreaSizes(w, "upcase")
      [] OTHER -> NoSizes

(* system_standard_information, system_file_name_attribute.                 *)
HiddenSystem == {"hidden", "system"}
ExtendChildDos == HiddenSystem \cup {"archive", "view"}

SystemDos(n) == HiddenSystem \cup (IF n = 9 THEN {"view"} ELSE {})
SystemSecurityOf(n) == IF n \in {3, 9, 11} THEN UserSecurity ELSE SystemSecurity

SystemKey(w, n) ==
    FileNameKey(RecordOf(1), 3, SystemName[n],
                SystemDos(n) \cup (IF n = 11 THEN {"i30"} ELSE {}), FormatTime,
                SystemSizes(w, n), 0)

SystemPrefix(w, n) ==
    <<StandardAttribute(FormatTime, SystemDos(n), SystemSecurityOf(n)),
      NameAttribute(1, SystemKey(w, n))>>

AreaRun(w, area) == RunAt(w.layout.at[area], w.layout.clusters[area], w.layout.bytes[area])

InUseRecord(n, links, attrs) == FinishRecord(n, FALSE, links, NoReference, attrs)

(* system_data_record.                                                      *)
DataRecord(w, n, run) ==
    InUseRecord(n, 1, SystemPrefix(w, n) \o <<SingleRun(DataType, <<>>, 2, run, w.cluster)>>)

(* system_mft_record.                                                       *)
MftRecord(w) ==
    InUseRecord(0, 1, SystemPrefix(w, 0)
        \o <<SingleRun(DataType, <<>>, 2, AreaRun(w, "mft"), w.cluster),
             SingleRun(BitmapType, <<>>, 3, AreaRun(w, "mftBitmap"), w.cluster)>>)

(* volume_record.                                                           *)
LabelAttribute(label) ==
    IF label = <<>> THEN <<>>
    ELSE <<ResidentAttribute(VolumeNameType, <<>>, 2, label, 2 * Len(label))>>

VolumeRecord(w) ==
    LET label == LabelAttribute(w.profile.label)
    IN InUseRecord(3, 1, SystemPrefix(w, 3) \o label
          \o <<ResidentAttribute(VolumeInformationType, <<>>, 2 + Len(label),
                                 [major |-> 3, minor |-> 1, flags |-> {}], 12),
               EmptyAttribute(DataType, <<>>, 3 + Len(label))>>)

(* plan_badclus, badclus_runs: the bad clusters lie in a hole that is as    *)
(* long as the volume.                                                      *)
BadStarts(bad) == {c \in bad : c - 1 \notin bad}
BadRunFrom(bad, c) ==
    [lcn |-> c, length |-> Max({n \in 1 .. Cardinality(bad) : c .. c + n - 1 \subseteq bad})]

HoleFrom(first, past) == IF first < past THEN <<[lcn |-> Hole, length |-> past - first]>> ELSE <<>>

BadRuns(bad, count) ==
    LET physical == SetToSortSeq({BadRunFrom(bad, c) : c \in BadStarts(bad)},
                                 LAMBDA a, b : a.lcn < b.lcn)
        PastBefore(k) == IF k = 1 THEN 0 ELSE physical[k - 1].lcn + physical[k - 1].length
    IN FlattenSeq([k \in DOMAIN physical |->
                      HoleFrom(PastBefore(k), physical[k].lcn) \o <<physical[k]>>])
       \o HoleFrom(PastBefore(Len(physical) + 1), count)

BadName == <<36, 66, 97, 100>>      \* $Bad

(* badclus_attribute: the plain header although there are holes.            *)
BadAttribute(w) ==
    MappedAttribute(DataType, BadName, 3, 0, BadRuns(w.bad, w.count),
                    [allocated |-> w.count * w.cluster, data |-> w.count * w.cluster,
                     initialized |-> 0], FALSE)

BadMappingFits(w) == Len(BadAttribute(w).pairs) <= (IF w.bad = {} THEN 32 ELSE 512)

BadClusRecord(w) ==
    InUseRecord(8, 1, SystemPrefix(w, 8) \o <<EmptyAttribute(DataType, <<>>, 2), BadAttribute(w)>>)

(* secure_record: the descriptors, and resident indexes by hash and by id,  *)
(* two entries of 48 and of 40 bytes and a terminal each.                   *)
ViewRoot(w, name, id, keys, entryBytes) ==
    ResidentAttribute(IndexRootType, name, id,
                      [root |-> 0, collation |-> "view", blockBytes |-> BlockBytes,
                       units |-> VcnUnits(w.cluster, BlockBytes),
                       node |-> [keys |-> keys, children |-> <<>>]],
                      32 + entryBytes + TerminalBytes(FALSE))

SdsName == <<36, 83, 68, 83>>       \* $SDS
SecureRecord(w) ==
    InUseRecord(9, 1, SystemPrefix(w, 9)
        \o <<SingleRun(DataType, SdsName, 2, AreaRun(w, "sds"), w.cluster),
             ViewRoot(w, <<36, 83, 68, 72>>, 3, <<SystemSecurity, UserSecurity>>, 2 * 48),
             ViewRoot(w, <<36, 83, 73, 73>>, 4, <<SystemSecurity, UserSecurity>>, 2 * 40)>>)

(* upcase_record.                                                           *)
UpcaseRecord(w) ==
    InUseRecord(10, 1, SystemPrefix(w, 10)
        \o <<SingleRun(DataType, <<>>, 2, AreaRun(w, "upcase"), w.cluster),
             ResidentAttribute(DataType, <<36, 73, 110, 102, 111>>, 3, [crc |-> Upcase], 32)>>)

(* reserved_system_record.                                                  *)
ReservedRecord(n) ==
    InUseRecord(n, 0, <<StandardAttribute(FormatTime, HiddenSystem, 0),
                        ResidentAttribute(SecurityDescriptorType, <<>>, 2, [reserved |-> TRUE], 100),
                        EmptyAttribute(DataType, <<>>, 1)>>)

-----------------------------------------------------------------------------
(* $Extend and its children.                                                *)

(* extend_record_prefix_attributes, canonical_namespace.                    *)
ExtendKey(n) == FileNameKey(11, 3, ExtendName[n], ExtendChildDos, FormatTime, NoSizes, 0)

ExtendPrefix(n) ==
    <<StandardAttribute(FormatTime, ExtendChildDos, UserSecurity), NameAttribute(1, ExtendKey(n))>>

(* extend_directory_record: the three children by name.                     *)
ExtendEntries ==
    SortSeq([k \in 1 .. 3 |-> [target |-> Reference(23 + k), key |-> ExtendKey(23 + k)]], EntryBefore)

IndexRootOf(index, name, id, bytes) ==
    ResidentAttribute(IndexRootType, name, id, index.root, bytes)

ExtendDirectory(w, index) ==
    FinishRecord(11, TRUE, 1, NoReference,
                 SystemPrefix(w, 11) \o <<IndexRootOf(index, IndexName, 2, DirectoryRootBytes(index))>>)

(* extend_child_record for quotas (defaults and Administrators) and object  *)
(* ids (none).                                                              *)
QuotaRecord(w) ==
    InUseRecord(24, 1, ExtendPrefix(24)
        \o <<ViewRoot(w, <<36, 79>>, 2, <<"administrators">>, 40),
             ViewRoot(w, <<36, 81>>, 3, <<"defaults", "administrators">>, 72 + 88)>>)

ObjectIdRecord(w) ==
    InUseRecord(25, 1, ExtendPrefix(25) \o <<ViewRoot(w, <<36, 79>>, 2, <<>>, 0)>>)

AllocationBytes(index) == Len(index.allocation) * BlockBytes
AllocationClusters(index, cluster) == CeilDiv(AllocationBytes(index), cluster)

Spill(w, index, name, lcn, firstId) ==
    IF index.allocation = <<>> THEN <<>>
    ELSE SpillSuffix(name, lcn, AllocationClusters(index, w.cluster), AllocationBytes(index),
                     index.bitmap, w.cluster, firstId)

(* spilled_reparse_record, and the resident form.                           *)
ReparseRecord(w, index, lcn) ==
    InUseRecord(26, 1, ExtendPrefix(26)
        \o <<IndexRootOf(index, ReparseName, 2, ReparseRootBytes(index))>>
        \o Spill(w, index, ReparseName, lcn, 3))

(* plan_reparse_index: once more with what the spilled parts leave of the   *)
(* record; the blocks must stay the same.                                   *)
ReparseKeysOf(w) ==
    LET pointed == Where([i \in DOMAIN w.graph.objects |-> i], LAMBDA i : w.profile.reparse[i] # NoValue)
    IN [k \in DOMAIN pointed |-> [tag |-> w.profile.reparse[pointed[k]].tag,
                                  file |-> Reference(RecordOf(pointed[k]))]]

ReparseIndexIn(w, budget) ==
    IF budget < 0 THEN Invalid
    ELSE SerializeReparseIndex(ReparseKeysOf(w), IndexGeometry(w.cluster, BlockBytes, budget))

SameBlocks(first, second) ==
    IF second = Invalid THEN Invalid
    ELSE IF second.allocation = <<>> \/ Len(second.allocation) # Len(first.allocation) THEN Invalid
    ELSE second

ReparseAfter(w, first, lcn) ==
    IF first = Invalid THEN Invalid
    ELSE IF first.allocation = <<>> THEN first
    ELSE SameBlocks(first,
            Evaluated(ReparseIndexIn(w, RootBudget(ExtendPrefix(26), Spill(w, first, ReparseName, lcn, 3)))))

Checked(index, Valid(_)) ==
    IF index = Invalid THEN Invalid ELSE IF Valid(index) THEN index ELSE Invalid

PlanReparse(w, lcn) ==
    Checked(ReparseAfter(w, Evaluated(ReparseIndexIn(w, RootBudget(ExtendPrefix(26), <<>>))), lcn),
            ValidatedReparseIndex)

-----------------------------------------------------------------------------
(* The indexes of directories.                                              *)

(* system_directory_index_entries, root_self_index_entry.                   *)
IndexedSystem == <<0, 1, 2, 3, 4, 6, 7, 8, 9, 10, 11>>

RootEntries(w) ==
    Append([k \in DOMAIN IndexedSystem |->
               [target |-> Reference(IndexedSystem[k]), key |-> SystemKey(w, IndexedSystem[k])]],
           [target |-> Reference(RecordOf(1)), key |-> KeyOf(w, 1, RootName, NoSizes)])

ReservedNames == {Folded(SystemName[n]) : n \in DOMAIN SystemName}

(* directory_index_entries: sizes are those of the first stream.            *)
FirstSizes(streams) == IF streams = <<>> THEN NoSizes ELSE <<streams[1].allocated, streams[1].logical>>

ChildEntry(w, entry) ==
    [target |-> Reference(RecordOf(entry.target)),
     key |-> KeyOf(w, entry.target, entry, FirstSizes(w.graph.objects[entry.target].streams))]

ChildrenOf(w, i) == Where(w.graph.entries, LAMBDA e : e.parent = i)

EntriesOver(w, i, children) ==
    IF i = 1 /\ \E c \in DOMAIN children : Folded(children[c].name) \in ReservedNames THEN Invalid
    ELSE (IF i = 1 THEN RootEntries(w) ELSE <<>>)
         \o [c \in DOMAIN children |-> ChildEntry(w, children[c])]

IndexEntriesOf(w, i) == EntriesOver(w, i, ChildrenOf(w, i))

(* serialize_directory_index.                                               *)
DirectoryIndexIn(w, entries, budget) ==
    IF budget < 0 THEN Invalid
    ELSE SerializeDirectoryIndex(entries, IndexGeometry(w.cluster, BlockBytes, budget))

(* plan_directory_indexes, for one directory: a tree that does not fit the  *)
(* root is built again with what its own attributes leave of the record.    *)
DirectoryIndexAfter(w, i, entries, first, lcn) ==
    IF first = Invalid THEN Invalid
    ELSE IF first.allocation = <<>> THEN first
    ELSE SameBlocks(first,
            Evaluated(DirectoryIndexIn(w, entries,
                BudgetOf(w, i, TRUE, Spill(w, first, IndexName, lcn, 3) \o ExactSuffix(w, i)))))

DirectoryIndexOver(w, i, entries, lcn) ==
    IF entries = Invalid THEN Invalid
    ELSE Checked(Evaluated(DirectoryIndexAfter(w, i, entries,
                    Evaluated(DirectoryIndexIn(w, entries, BudgetOf(w, i, FALSE, ExactSuffix(w, i)))),
                    lcn)),
                 ValidatedDirectoryIndex)

WithIndex(w, planned, i, index) ==
    IF index = Invalid THEN Invalid
    ELSE [next |-> planned.next + AllocationClusters(index, w.cluster),
          of |-> (i :> [index |-> index, lcn |-> planned.next]) @@ planned.of]

PlanDirectory(w, planned, i) ==
    IF planned = Invalid THEN Invalid
    ELSE WithIndex(w, planned, i,
                   Evaluated(DirectoryIndexOver(w, i, Evaluated(IndexEntriesOf(w, i)), planned.next)))

(* Gives the first cluster behind the indexes, and each directory's.        *)
PlanDirectories(w, lcn) ==
    FoldLeft(LAMBDA planned, i : PlanDirectory(w, planned, i), [next |-> lcn, of |-> <<>>],
             Directories(w))

-----------------------------------------------------------------------------
(* The records of directories.                                              *)

(* append_directory_index_attributes.                                       *)
IndexAttributes(w, i, index, lcn, id) ==
    <<IndexRootOf(index, IndexName, id, DirectoryRootBytes(index))>>
    \o Spill(w, index, IndexName, lcn, id + 1)
    \o ReparseAttribute(w, i, id + 1 + (IF index.allocation = <<>> THEN 0 ELSE 2))

DirectoryAttributes(w, i) ==
    LET id == Len(w.names[i]) + 1
    IN DirectoryPrefix(w, i) \o DescriptorAttribute(w, i, id)
       \o IndexAttributes(w, i, w.indexes[i].index, w.indexes[i].lcn, id + DescriptorCount(w, i))

(* allocate_directory_attribute_list_runs: not for the root.                *)
TakeDirectoryList(w, allocator, i, attrs) ==
    IF ~DirectoryNeedsListRun(attrs) THEN allocator
    ELSE Take(allocator, <<"list", i>>, ListPayload(attrs, w.cluster), w.cluster)

TakeDirectoryLists(w) ==
    IF w.draft THEN w.allocator
    ELSE FoldLeft(LAMBDA a, i : IF i = 1 \/ ~DirectoryNeedsList(w, i) THEN a
                                ELSE TakeDirectoryList(w, a, i, DirectoryAttributes(w, i)),
                  w.allocator, Directories(w))

(* build_directory_record.                                                  *)
DirectoryRecordWith(w, i, first, run, attrs) ==
    IF DirectoryNeedsList(w, i)
    THEN PackRecords(DirectoryGroups(WithContinuation(attrs, run), run, w.cluster), RecordOf(i), TRUE,
                     Len(w.names[i]), first, NextInstance(WithContinuation(attrs, run)), w.cluster)
    ELSE [base |-> FinishRecord(RecordOf(i), TRUE, Len(w.names[i]), NoReference, attrs),
          extensions |-> <<>>, list |-> NoRun]

DirectoryRecord(w, i, first, runs) ==
    DirectoryRecordWith(w, i, first, RunFor(runs, <<"list", i>>), Evaluated(DirectoryAttributes(w, i)))

-----------------------------------------------------------------------------
(* count_file_extension_records: before anything has a place.               *)

NameExtensions(w, i) ==
    IF ~DirectoryNeedsList(w, i) THEN 0
    ELSE Len(PackIntoRecords(NameAttributes(w, i, NoSizes)))

FileExtensions(packed) == IF packed = Invalid THEN Invalid ELSE Len(packed.extensions)

ExtensionsOf(w, i) ==
    IF i = 1 THEN 0
    ELSE IF w.graph.objects[i].directory THEN NameExtensions(w, i)
    ELSE FileExtensions(FileRecord(w, i, FirstExtension(w), w.allocator.runs))

CountExtensions(w) ==
    FoldLeft(LAMBDA sum, n : IF sum = Invalid \/ n = Invalid THEN Invalid ELSE sum + n, 0,
             [i \in DOMAIN w.graph.objects |-> Evaluated(ExtensionsOf(w, i))])

-----------------------------------------------------------------------------
(* plan_ntfs_destination_impl, stage by stage; each gives the work or       *)
(* Invalid.                                                                 *)

Then(w, Stage(_)) == IF w = Invalid THEN Invalid ELSE Stage(w)
OrInvalid(w, field, value) == IF value = Invalid THEN Invalid ELSE With(w, (field :> value))

TakeOverflowRuns(w) == OrInvalid(With(w, [overflows |-> <<>>]), "allocator", Evaluated(TakeOverflows(w)))

(* The descriptors are first put where no cluster is, to have their size.   *)
TakeFileListRuns(w) ==
    OrInvalid(With(w, [overflows |-> w.allocator.runs, descriptors |-> Descriptors(w, w.count)]),
              "allocator",
              Evaluated(TakeFileLists(With(w, [overflows |-> w.allocator.runs,
                                               descriptors |-> Descriptors(w, w.count)]))))

CountRecords(w) == OrInvalid(w, "extra", Evaluated(CountExtensions(w)))

PlaceMetadata(w) ==
    IF ~BadMappingFits(w) THEN Invalid
    ELSE OrInvalid(w, "layout", Evaluated(Layout(w, FirstExtension(w) + w.extra)))

(* security_descriptor_budgets_match: a descriptor's attribute may not be   *)
(* longer or shorter than when the records were counted.                    *)
BudgetsMatch(before, after) ==
    \A i \in DOMAIN before.graph.objects :
        Lengths(DescriptorAttribute(before, i, 1)) = Lengths(DescriptorAttribute(after, i, 1))

PlaceDescriptors(w) ==
    LET placed == With(w, [descriptors |-> Evaluated(Descriptors(w, w.layout.indexes)),
                           firstIndex |-> w.layout.indexes + AllDescriptorClusters(w)])
    IN IF BudgetsMatch(w, placed) THEN placed ELSE Invalid

WithPlanned(w, planned) ==
    IF planned = Invalid THEN Invalid
    ELSE With(w, [indexes |-> planned.of, reparseLcn |-> planned.next])

PlaceIndexes(w) == WithPlanned(w, Evaluated(PlanDirectories(w, w.firstIndex)))
PlaceReparse(w) == OrInvalid(w, "reparse", Evaluated(PlanReparse(w, w.reparseLcn)))

MetadataClusters(w) == w.reparseLcn + AllocationClusters(w.reparse, w.cluster)
MetadataEnd(w) == MetadataClusters(w) * w.cluster
BackupStart(w) == w.graph.bytes - SectorBytes

(* validate_bad_lcns_against_layout.                                        *)
BadClustersApart(w) ==
    /\ \A c \in w.bad : c * w.cluster >= MetadataEnd(w) /\ (c + 1) * w.cluster <= BackupStart(w)
    /\ ~w.draft =>
          \A e \in DOMAIN w.graph.extents :
              LET extent == w.graph.extents[e] IN
              extent.payload /\ extent.at # Hole =>
                  \/ extent.at % w.cluster # 0 \/ extent.length % w.cluster # 0
                  \/ ClustersOfExtent(extent, w.cluster) \cap w.bad = {}

(* validate_named_resident_overflows.                                       *)
RunsFit(w, runs) ==
    \A r \in DOMAIN runs :
        /\ runs[r].run.lcn >= MetadataClusters(w)
        /\ (runs[r].run.lcn + runs[r].run.clusters) * w.cluster <= BackupStart(w)
        /\ runs[r].run.lcn + runs[r].run.clusters <= w.count

(* collect_sources: in a draft file data may still lie anywhere.            *)
ExtentStays(w, extent) ==
    IF extent.at = Hole THEN extent.payload
    ELSE /\ (w.draft /\ extent.payload) \/ (extent.logical % w.cluster = 0 /\ IsAligned(extent, w.cluster))
         /\ extent.at + extent.length <= w.count * w.cluster
         /\ (w.draft /\ extent.payload)
            \/ (extent.at >= MetadataEnd(w) /\ extent.at + extent.length <= BackupStart(w))

Sources(w) ==
    SortSeq([e \in DOMAIN PhysicalExtents(w.graph) |->
                LET extent == PhysicalExtents(w.graph)[e]
                IN [stream |-> extent.stream, logical |-> extent.logical,
                    range |-> ByteRange(extent.at, extent.length),
                    movable |-> w.draft /\ extent.payload]],
            LAMBDA a, b : a.range.offset < b.range.offset)

CheckPlaces(w) ==
    IF MetadataEnd(w) <= BackupStart(w) /\ BadClustersApart(w) /\ RunsFit(w, w.overflows)
    THEN OrInvalid(w, "allocator", Evaluated(TakeDirectoryLists(w))) ELSE Invalid

CheckSources(w) ==
    IF RunsFit(w, w.allocator.runs) /\ \A e \in DOMAIN w.graph.extents : ExtentStays(w, w.graph.extents[e])
    THEN w ELSE Invalid

-----------------------------------------------------------------------------
(* All records.                                                             *)

ExtendIndex(w) ==
    SerializeDirectoryIndex(ExtendEntries, IndexGeometry(w.cluster, BlockBytes, WrittenRecordBytes))

BuiltSystemRecords(w) ==
    <<MftRecord(w), DataRecord(w, 1, AreaRun(w, "mirror")), DataRecord(w, 2, AreaRun(w, "logfile")),
      VolumeRecord(w), DataRecord(w, 4, AreaRun(w, "attrdef")),
      DataRecord(w, 6, AreaRun(w, "bitmap")),
      DataRecord(w, 7, RunAt(0, BootClusters(w), BootFileBytes)),
      BadClusRecord(w), SecureRecord(w), UpcaseRecord(w), ExtendDirectory(w, ExtendIndex(w)),
      QuotaRecord(w), ObjectIdRecord(w), ReparseRecord(w, w.reparse, w.reparseLcn)>>

ObjectRecords(w, i, first) ==
    IF w.graph.objects[i].directory THEN DirectoryRecord(w, i, first, w.allocator.runs)
    ELSE FileRecord(w, i, first, w.allocator.runs)

(* write_packed_records: the extensions of one object follow those of the   *)
(* objects before it. The root has none.                                    *)
AddRecords(built, packed) ==
    IF packed = Invalid THEN Invalid
    ELSE [records |-> built.records \o <<packed.base>> \o packed.extensions,
          next |-> built.next + Len(packed.extensions),
          lists |-> IF packed.list = NoRun THEN built.lists ELSE Append(built.lists, packed.list)]

BuildRecords(w) ==
    FoldLeft(LAMBDA built, i : IF built = Invalid THEN Invalid
                               ELSE AddRecords(built, Evaluated(ObjectRecords(w, i, built.next))),
             [records |-> BuiltSystemRecords(w), next |-> FirstExtension(w), lists |-> <<>>],
             [i \in DOMAIN w.graph.objects |-> i])

RecordsAreBuilt(w, built) ==
    IF built = Invalid THEN FALSE
    ELSE /\ \A r \in DOMAIN built.records : built.records[r] # Invalid
         /\ built.next = FirstExtension(w) + w.extra

WithBuilt(w, built) == IF RecordsAreBuilt(w, built) THEN With(w, [built |-> built]) ELSE Invalid
PlanRecords(w) == WithBuilt(w, Evaluated(BuildRecords(w)))

RecordNumbered(w, n) ==
    LET found == {r \in DOMAIN w.built.records : w.built.records[r].number = n}
    IN IF found # {} THEN w.built.records[Max(found)]
       ELSE IF n \in 12 .. 15 THEN ReservedRecord(n) ELSE UnusedRecord(n)

-----------------------------------------------------------------------------
(* What is written.                                                         *)

AtLcn(w, value, lcn, clusters) ==
    WriteOf(value, lcn * (w.cluster \div SectorBytes), clusters * (w.cluster \div SectorBytes), 0)

AtRun(w, value, run) == AtLcn(w, value, run.lcn, run.clusters)

RecordWrites(w, lcn, count) ==
    [n \in 1 .. count |->
        WriteOf(RecordNumbered(w, n - 1), lcn * (w.cluster \div SectorBytes) + 2 * (n - 1), 2, RecordUsn)]

BlockWrites(w, index, lcn) ==
    [k \in DOMAIN index.allocation |->
        WriteOf(index.allocation[k], lcn * (w.cluster \div SectorBytes) + 8 * (k - 1), 8, IndexUsn(k - 1))]

RunClustersOf(runs) == UNION {runs[r].run.lcn .. runs[r].run.lcn + runs[r].run.clusters - 1 : r \in DOMAIN runs}

(* write_bitmap. In a final plan extents are whole clusters.                *)
BitmapClusters(w) ==
    (0 .. BootClusters(w) - 1) \cup (MftLcn .. MetadataClusters(w) - 1) \cup w.bad
    \cup UNION {ClustersOfExtent(PhysicalExtents(w.graph)[e], w.cluster) :
                    e \in DOMAIN PhysicalExtents(w.graph)}
    \cup RunClustersOf(w.allocator.runs)

TailBits(count) == count .. AlignUp(count, 8) - 1

(* write_mft_bitmap.                                                        *)
MftBitmap(w) == (0 .. 15) \cup (24 .. w.layout.inUse - 1)

AreaWrite(w, area, value) == AtLcn(w, value, w.layout.at[area], w.layout.clusters[area])

AreaWrites(w) ==
    <<AreaWrite(w, "attrdef", [attrdef |-> "3.x"]),
      AreaWrite(w, "logfile", [logfile |-> "clean"]),
      AreaWrite(w, "sds", [sds |-> <<SystemSecurity, UserSecurity>>]),
      AreaWrite(w, "bitmap", [bits |-> BitmapClusters(w) \cup TailBits(w.count),
                              bytes |-> w.layout.bytes.bitmap]),
      AreaWrite(w, "upcase", [upcase |-> Upcase]),
      AreaWrite(w, "mftBitmap", [bits |-> MftBitmap(w), bytes |-> w.layout.bytes.mftBitmap])>>

(* write_security_descriptors.                                              *)
DescriptorWrites(w) ==
    LET placed == SelectSeq([i \in DOMAIN w.descriptors |-> i], LAMBDA i : w.descriptors[i] # NoRun)
    IN [k \in DOMAIN placed |-> AtRun(w, w.profile.security[placed[k]], w.descriptors[placed[k]])]

IndexWrites(w) ==
    FlattenSeq([k \in DOMAIN Directories(w) |->
        BlockWrites(w, w.indexes[Directories(w)[k]].index, w.indexes[Directories(w)[k]].lcn)])
    \o BlockWrites(w, w.reparse, w.reparseLcn)

(* named_resident_overflow_writes.                                          *)
StreamValue(graph, id) ==
    LET found == Where(FlattenSeq([i \in DOMAIN graph.objects |-> graph.objects[i].streams]),
                       LAMBDA s : s.id = id)
    IN found[1].value

OverflowWrites(w) ==
    [r \in DOMAIN w.overflows |-> AtRun(w, StreamValue(w.graph, w.overflows[r].key[2]), w.overflows[r].run)]

ListWrites(w) == [k \in DOMAIN w.built.lists |-> AtRun(w, w.built.lists[k].of, w.built.lists[k])]

(* The metadata area is written as a whole, zero where nothing lies.        *)
StagingWrites(w) ==
    <<WriteOf(Zeroed, 1, MetadataEnd(w) \div SectorBytes - 1, 0)>>
    \o RecordWrites(w, MftLcn, w.layout.records)
    \o RecordWrites(w, w.layout.at.mirror, MirrorBytes(w.cluster) \div WrittenRecordBytes)
    \o AreaWrites(w) \o DescriptorWrites(w) \o IndexWrites(w) \o OverflowWrites(w) \o ListWrites(w)

(* boot_sector.                                                             *)
BootSector(w) ==
    [boot |-> TRUE, oem |-> TRUE, signature |-> TRUE, reservedZero |-> TRUE, bytesPerSector |-> SectorBytes,
     sectorsPerCluster |-> w.cluster \div SectorBytes,
     totalSectors |-> w.graph.bytes \div SectorBytes - 1,
     mftLcn |-> MftLcn, mirrorLcn |-> w.layout.at.mirror, recordSize |-> -10,
     indexSize |-> IF w.cluster = BlockBytes THEN 1 ELSE -12]

(* bad_cluster_reservations and those of the plan.                          *)
BitmapOffset(w) == w.layout.at.bitmap * w.cluster
BitmapEnd(w) == (w.layout.at.bitmap + w.layout.clusters.bitmap) * w.cluster

Reservations(w) ==
    <<ByteRange(0, SectorBytes), ByteRange(SectorBytes, BitmapOffset(w) - SectorBytes),
      ByteRange(BitmapOffset(w), BitmapEnd(w) - BitmapOffset(w)),
      ByteRange(BitmapEnd(w), MetadataEnd(w) - BitmapEnd(w)),
      ByteRange(BackupStart(w), SectorBytes)>>
    \o [c \in 1 .. Cardinality(BadStarts(w.bad)) |->
           LET run == BadRunFrom(w.bad, SetToSortSeq(BadStarts(w.bad), <)[c])
           IN ByteRange(run.lcn * w.cluster, run.length * w.cluster)]

PlanOf(w) ==
    IF w = Invalid THEN Invalid
    ELSE [bytes |-> w.graph.bytes, cluster |-> w.cluster, mirrorLcn |-> w.layout.at.mirror,
          staging |-> StagingWrites(w),
          backup |-> WriteOf(BootSector(w), BackupStart(w) \div SectorBytes, 1, 0),
          primary |-> WriteOf(BootSector(w), 0, 1, 0),
          reservations |-> Reservations(w), sources |-> Sources(w),
          placements |-> [i \in DOMAIN w.graph.objects |-> RecordOf(i)]]

(* plan_ntfs_destination_impl.                                              *)
Stages(w) ==
    Then(Then(Then(Then(Then(Then(Then(Then(Then(Then(w,
        TakeOverflowRuns), TakeFileListRuns), CountRecords), PlaceMetadata), PlaceDescriptors),
        PlaceIndexes), PlaceReparse), CheckPlaces), CheckSources), PlanRecords)

PlanNtfs(graph, profile, options, draft) ==
    IF ~IsAccepted(graph, profile, options, draft) THEN Invalid
    ELSE PlanOf(Evaluated(Stages(Work(graph, profile, options, draft))))

(* finalize_ntfs_destination: the plan for the moved payload must ask for   *)
(* the same places as the draft.                                            *)
SamePlaces(draft, plan) ==
    /\ plan.bytes = draft.bytes /\ plan.cluster = draft.cluster /\ plan.mirrorLcn = draft.mirrorLcn
    /\ plan.reservations = draft.reservations /\ plan.placements = draft.placements

FinalizedAs(draft, plan) ==
    IF plan = Invalid THEN Invalid
    ELSE IF SamePlaces(draft, plan) THEN [plan EXCEPT !.sources = draft.sources] ELSE Invalid
=============================================================================
