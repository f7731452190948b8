----------------------------- MODULE NtfsPacking -----------------------------
(***************************************************************************)
(* Building FILE records (ntfs_serialize.rs): attributes, streams that are *)
(* split over several attributes, and the packing of an object's           *)
(* attributes into a base record, extension records and an attribute list. *)
(*                                                                         *)
(* A run of clusters that the writer takes for itself is                   *)
(* [lcn, clusters, bytes], or NoRun.                                       *)
(***************************************************************************)
EXTENDS NtfsIndex

CONSTANTS NoRun,
          MaxExtensionRecords   \* MAX_FILE_EXTENSION_RECORDS

WrittenRecordBytes == 1024
RecordUsn == 1

(* record_sequence.                                                         *)
RecordSequence(number) == IF number = 0 THEN 1 ELSE IF number < 24 THEN number ELSE 1

Reference(number) == [record |-> number, sequence |-> RecordSequence(number)]

CeilDiv(a, b) == (a + b - 1) \div b

-----------------------------------------------------------------------------
(* Attributes.                                                              *)

(* resident_attribute.                                                      *)
ResidentAttribute(type, name, id, value, size) ==
    [type |-> type, id |-> id, name |-> name, resident |-> TRUE,
     indexed |-> type = FileNameType, value |-> value, size |-> size]

EmptyAttribute(type, name, id) == ResidentAttribute(type, name, id, Zeroed, 0)

(* nonresident_attribute_from_pairs and its named form: only the part that  *)
(* starts at VCN 0 carries sizes.                                           *)
RunClusters(runs) == SumOf(runs, LAMBDA r : r.length)
AtStart(lowest, bytes) == IF lowest = 0 THEN bytes ELSE 0

MappedAttribute(type, name, id, lowest, runs, sizes, sparse) ==
    [type |-> type, id |-> id, name |-> name, resident |-> FALSE,
     flags |-> IF sparse THEN {"sparse"} ELSE Plain, unit |-> 0,
     lowest |-> lowest, highest |-> lowest + RunClusters(runs) - 1, pairs |-> EncodeRuns(runs),
     allocated |-> AtStart(lowest, sizes.allocated), data |-> AtStart(lowest, sizes.data),
     initialized |-> AtStart(lowest, sizes.initialized),
     compressed |-> IF sparse THEN AtStart(lowest, sizes.allocated) ELSE 0]

(* An attribute of one run that is all written.                             *)
SingleRun(type, name, id, run, cluster) ==
    MappedAttribute(type, name, id, 0, <<[lcn |-> run.lcn, length |-> run.clusters]>>,
                    [allocated |-> run.clusters * cluster, data |-> run.bytes,
                     initialized |-> run.bytes], FALSE)

NextInstance(attrs) == 1 + Max({attrs[i].id : i \in DOMAIN attrs})

(* record_lengths_fit: attributes, end marker and the last two bytes.       *)
LengthsFit(lengths) ==
    AttributesOffset(WrittenRecordBytes) + FoldLeft(+, 0, lengths) + 8 <= WrittenRecordBytes - 2

Lengths(attrs) == [i \in DOMAIN attrs |-> AttributeLength(attrs[i])]

(* finish_record_with_sequence.                                             *)
FinishRecord(number, directory, links, base, attrs) ==
    IF ~LengthsFit(Lengths(attrs)) THEN Invalid
    ELSE [magic |-> "FILE", sequence |-> RecordSequence(number), links |-> links, inUse |-> TRUE,
          directory |-> directory, base |-> base, number |-> number,
          allocated |-> WrittenRecordBytes, nextId |-> Len(attrs), attrs |-> attrs]

(* unused_record.                                                           *)
UnusedRecord(number) ==
    [FinishRecord(number, FALSE, 0, NoReference, <<>>) EXCEPT !.inUse = FALSE]

-----------------------------------------------------------------------------
(* Streams.                                                                 *)

(* encode_data_fragment.                                                    *)
DataFragment(stream, runs, lowest, id) ==
    MappedAttribute(DataType, stream.name, id, lowest, runs,
                    [allocated |-> stream.allocated, data |-> stream.logical,
                     initialized |-> stream.initialized], stream.sparse)

(* split_nonresident_data_attributes: each fragment is the longest prefix   *)
(* of the remaining runs that fits a record of its own.                     *)
FragmentFits(stream, runs, lowest, id) ==
    LengthsFit(<<AttributeLength(DataFragment(stream, runs, lowest, id))>>)

LongestFragment(stream, runs, lowest, id) ==
    Max({0} \cup {n \in DOMAIN runs :
            \A k \in 1 .. n : FragmentFits(stream, SubSeq(runs, 1, k), lowest, id)})

RECURSIVE SplitData(_, _, _, _)
SplitData(stream, runs, lowest, id) ==
    LET n == Evaluated(LongestFragment(stream, runs, lowest, id))
        more == SplitData(stream, SubSeq(runs, n + 1, Len(runs)),
                          lowest + RunClusters(SubSeq(runs, 1, n)), id + 1)
    IN IF runs = <<>> THEN <<>>
       ELSE IF n = 0 THEN Invalid
       ELSE IF more = Invalid THEN Invalid
       ELSE <<DataFragment(stream, SubSeq(runs, 1, n), lowest, id)>> \o more

ClusterRuns(extents, cluster) ==
    [e \in DOMAIN extents |->
        [lcn |-> IF extents[e].at = Hole THEN Hole ELSE extents[e].at \div cluster,
         length |-> extents[e].length \div cluster]]

IsAligned(extent, cluster) ==
    /\ extent.length > 0 /\ extent.length % cluster = 0
    /\ extent.at # Hole => extent.at % cluster = 0

(* nonresident_stream_attributes. A draft has no place yet for payload that *)
(* will be moved.                                                           *)
HolesAreDeclared(stream, extents) ==
    (\E e \in DOMAIN extents : extents[e].at = Hole) =>
        /\ stream.sparse
        /\ SumOf(extents, LAMBDA e : IF e.at = Hole THEN 0 ELSE e.length) = stream.allocated

(* The code stops at the first extent that is not aligned or is a hole that *)
(* the stream does not declare.                                             *)
OddExtents(stream, extents, cluster) ==
    {e \in DOMAIN extents : \/ ~IsAligned(extents[e], cluster)
                            \/ extents[e].at = Hole /\ ~stream.sparse}

AnyHole(stream, extents) == stream.sparse \/ \E e \in DOMAIN extents : extents[e].at = Hole

UnalignedOrDraft(stream, extents, odd, id, draft, cluster) ==
    IF ~IsAligned(extents[odd], cluster) /\ draft /\ ~AnyHole(stream, extents)
    THEN <<EmptyAttribute(DataType, stream.name, id)>> ELSE Invalid

NonresidentStream(stream, extents, id, draft, cluster) ==
    IF OddExtents(stream, extents, cluster) # {}
    THEN UnalignedOrDraft(stream, extents, Min(OddExtents(stream, extents, cluster)), id, draft,
                          cluster)
    ELSE IF ~HolesAreDeclared(stream, extents) THEN Invalid
    ELSE IF extents = <<>> /\ draft THEN <<EmptyAttribute(DataType, stream.name, id)>>
    ELSE IF stream.mapped # SumOf(extents, LAMBDA e : e.length) THEN Invalid
    ELSE IF extents = <<>> THEN <<EmptyAttribute(DataType, stream.name, id)>>
    ELSE SplitData(stream, ClusterRuns(extents, cluster), 0, id)

(* resident_or_overflow_data_attribute.                                     *)
ResidentStream(stream, overflow, id, draft, maxResident, cluster) ==
    IF stream.logical <= maxResident
    THEN <<ResidentAttribute(DataType, stream.name, id, stream.value, stream.logical)>>
    ELSE IF draft THEN <<EmptyAttribute(DataType, stream.name, id)>>
    ELSE IF stream.name = <<>> \/ overflow = NoRun THEN Invalid
    ELSE <<SingleRun(DataType, stream.name, id, overflow, cluster)>>

-----------------------------------------------------------------------------
(* Packing.                                                                 *)

(* attribute_list_value_len: the list names every attribute but itself.     *)
ListLength(attrs) == SumOf(attrs, LAMBDA a : AlignUp(26 + 2 * Len(a.name), 8))

(* resident_unnamed_attribute_len.                                          *)
ResidentListLength(attrs) == AlignUp(24 + ListLength(attrs), 8)

(* first_nonresident_attribute_list: a list of two clusters or more maps    *)
(* its first cluster in the base record, the rest in an extension.          *)
FirstMappedList(run, id, cluster) ==
    MappedAttribute(AttributeListType, <<>>, id, 0,
                    <<[lcn |-> run.lcn, length |-> IF run.clusters >= 2 THEN 1 ELSE run.clusters]>>,
                    [allocated |-> run.clusters * cluster, data |-> run.bytes,
                     initialized |-> run.bytes], FALSE)

(* append_attribute_list_continuation.                                      *)
WithContinuation(attrs, run) ==
    IF run = NoRun THEN attrs
    ELSE IF run.clusters < 2 THEN attrs
    ELSE Append(attrs, MappedAttribute(AttributeListType, <<>>, NextInstance(attrs), 1,
                          <<[lcn |-> run.lcn + 1, length |-> run.clusters - 1]>>,
                          [allocated |-> 0, data |-> 0, initialized |-> 0], FALSE))

(* attribute_list_payload_plan: the continuation adds an entry of its own.  *)
ListPayload(attrs, cluster) ==
    ListLength(attrs) + (IF CeilDiv(ListLength(attrs), cluster) < 2 THEN 0 ELSE 32)

(* file_needs_nonresident_attribute_list.                                   *)
FileNeedsListRun(attrs) ==
    /\ ~LengthsFit(Lengths(attrs))
    /\ ~LengthsFit(<<AttributeLength(attrs[1]), ResidentListLength(attrs)>>)

(* directory_needs_nonresident_attribute_list: the names leave the base.    *)
InBase(attrs) == Where(attrs, LAMBDA a : a.type # FileNameType)

DirectoryNeedsListRun(attrs) ==
    ~LengthsFit(<<ResidentListLength(attrs)>> \o Lengths(InBase(attrs)))

(* pack_indices_into_records: attributes in order, a new record when one    *)
(* does not fit. Gives Invalid or a sequence of records' attributes.        *)
AddToLast(groups, attr) ==
    IF groups = Invalid THEN Invalid
    ELSE IF ~LengthsFit(<<AttributeLength(attr)>>) THEN Invalid
    ELSE IF groups # <<>> /\ LengthsFit(Lengths(Append(groups[Len(groups)], attr)))
    THEN [groups EXCEPT ![Len(groups)] = Append(@, attr)]
    ELSE Append(groups, <<attr>>)

PackIntoRecords(attrs) == FoldLeft(AddToLast, <<>>, attrs)

(* Attributes by type, those of one type in their order.                    *)
ByType(attrs) ==
    LET order == SortSeq([i \in DOMAIN attrs |-> i],
                         LAMBDA i, j : \/ attrs[i].type < attrs[j].type
                                       \/ attrs[i].type = attrs[j].type /\ i < j)
    IN [k \in DOMAIN order |-> attrs[order[k]]]

(* The base takes what fits, in order; the rest is spilled.                 *)
FillBase(base, listLength, attrs) ==
    FoldLeft(LAMBDA state, a :
                IF LengthsFit(<<listLength>> \o Lengths(Append(state.base, a)))
                THEN [state EXCEPT !.base = Append(@, a)]
                ELSE [state EXCEPT !.spilled = Append(@, a)],
             [base |-> base, spilled |-> <<>>], attrs)

Groups(base, extensions, run, listed) ==
    IF extensions = Invalid THEN Invalid
    ELSE IF Len(extensions) > MaxExtensionRecords THEN Invalid
    ELSE [base |-> base, extensions |-> extensions, run |-> run, listed |-> listed]

FilledGroups(filled, run) ==
    IF filled.spilled = <<>> THEN Invalid
    ELSE Groups(filled.base, PackIntoRecords(filled.spilled), run, TRUE)

GroupsAround(attrs, listLength, run) ==
    IF ~LengthsFit(<<AttributeLength(attrs[1]), listLength>>) THEN Invalid
    ELSE FilledGroups(FillBase(<<attrs[1]>>, listLength, ByType(Tail(attrs))), run)

(* plan_file_attribute_groups.                                              *)
FileGroups(attrs, run, cluster) ==
    IF LengthsFit(Lengths(attrs))
    THEN IF run = NoRun THEN Groups(attrs, <<>>, NoRun, FALSE) ELSE Invalid
    ELSE IF LengthsFit(<<AttributeLength(attrs[1]), ResidentListLength(attrs)>>)
    THEN IF run = NoRun THEN GroupsAround(attrs, ResidentListLength(attrs), NoRun) ELSE Invalid
    ELSE IF run = NoRun THEN Invalid
    ELSE GroupsAround(attrs, AttributeLength(FirstMappedList(run, NextInstance(attrs), cluster)), run)

(* plan_directory_attribute_groups: only the names move to extensions.      *)
DirectoryGroups(attrs, run, cluster) ==
    LET base == <<attrs[1]>> \o ByType(Tail(InBase(attrs)))
        names == PackIntoRecords(Where(attrs, LAMBDA a : a.type = FileNameType))
    IN IF ~DirectoryNeedsListRun(attrs)
       THEN IF run = NoRun THEN Groups(base, names, NoRun, TRUE) ELSE Invalid
       ELSE IF run = NoRun THEN Invalid
       ELSE IF ~LengthsFit(<<AttributeLength(FirstMappedList(run, NextInstance(attrs), cluster))>>
                           \o Lengths(base))
       THEN Invalid
       ELSE Groups(base, names, run, TRUE)

(* encode_attribute_list_value.                                             *)
EntryFor(attr, number) ==
    [type |-> attr.type, name |-> attr.name, lowest |-> IF attr.resident THEN 0 ELSE attr.lowest,
     record |-> number, sequence |-> RecordSequence(number), instance |-> attr.id]

ListEntries(groups, number, first) ==
    SortSeq([i \in DOMAIN groups.base |-> EntryFor(groups.base[i], number)]
            \o FlattenSeq([g \in DOMAIN groups.extensions |->
                  [i \in DOMAIN groups.extensions[g] |->
                      EntryFor(groups.extensions[g][i], first + g - 1)]]),
            EntryLess)

(* emit_attribute_list.                                                     *)
ListAttribute(groups, id, entries, cluster) ==
    IF groups.run = NoRun
    THEN ResidentAttribute(AttributeListType, <<>>, id, [list |-> entries], ListBytes(entries))
    ELSE IF groups.run.bytes # ListBytes(entries) THEN Invalid
    ELSE FirstMappedList(groups.run, id, cluster)

(* Packed records: [base, extensions, list], the list being NoRun or a      *)
(* write of its entries.                                                    *)
ExtensionRecords(groups, number, links, first) ==
    [g \in DOMAIN groups.extensions |->
        FinishRecord(first + g - 1, FALSE, links, Reference(number), groups.extensions[g])]

PackedWith(groups, number, directory, links, first, entries, list) ==
    IF list = Invalid THEN Invalid
    ELSE [base |-> FinishRecord(number, directory, links, NoReference,
                                <<groups.base[1], list>> \o Tail(groups.base)),
          extensions |-> ExtensionRecords(groups, number, links, first),
          list |-> IF groups.run = NoRun THEN NoRun
                   ELSE [lcn |-> groups.run.lcn, clusters |-> groups.run.clusters,
                         of |-> [list |-> entries]]]

PackedAt(groups, number, directory, links, first, id, entries, cluster) ==
    PackedWith(groups, number, directory, links, first, entries,
               ListAttribute(groups, id, entries, cluster))

(* serialize_packed_file_records, serialize_packed_directory_records. id is *)
(* the instance of the list.                                                *)
PackRecords(groups, number, directory, links, first, id, cluster) ==
    IF groups = Invalid THEN Invalid
    ELSE IF ~groups.listed
    THEN [base |-> FinishRecord(number, directory, links, NoReference, groups.base),
          extensions |-> <<>>, list |-> NoRun]
    ELSE PackedAt(groups, number, directory, links, first, id,
                  Evaluated(ListEntries(groups, number, first)), cluster)
=============================================================================
