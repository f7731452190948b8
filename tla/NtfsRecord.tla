----------------------------- MODULE NtfsRecord ------------------------------
(***************************************************************************)
(* Sectors of an image, the NTFS boot sector and its backup (ntfs.rs,      *)
(* ntfs_region.rs), FILE records with their update sequence                *)
(* (ntfs_record.rs) and the attributes in them (ntfs_attribute.rs).        *)
(*                                                                         *)
(* An image is a sequence of writes [at, count, of, part, usn]: count      *)
(* sectors from sector at hold the structure of, from its sector part on,  *)
(* each with the update sequence number in its last two bytes. The last    *)
(* write to a sector counts. A structure that was written in one piece is  *)
(* read back exactly when all of its sectors are found in order; anything  *)
(* else is Garbage.                                                        *)
(*                                                                         *)
(* A record is [magic, sequence, links, inUse, directory, base, number,    *)
(* allocated, nextId, attrs]; base is NoReference or [record, sequence],   *)
(* number is NoNumber in a record of the old header. An attribute is       *)
(* [type, id, name, resident, indexed, value, size] or                     *)
(* [type, id, name, resident, flags, lowest, highest, pairs, allocated,    *)
(* data, initialized, compressed, unit]. Byte offsets inside a record      *)
(* follow from the attributes' lengths; a name is its code units.          *)
(*                                                                         *)
(* Mapping pairs are bytes: the encoder of the serializer                  *)
(* (ntfs_serialize.rs) and the decoder (ntfs_runlist.rs). A run is         *)
(* [lcn, length], with lcn = Hole for a sparse run; an extent is           *)
(* [vcn, lcn, length].                                                     *)
(***************************************************************************)
EXTENDS Ranges

CONSTANTS Invalid,  \* a refusal
          Zeroed,   \* a structure: nothing but zero bytes
          Garbage,  \* what a read gives that no structure was written as
          NoReference, NoNumber

-----------------------------------------------------------------------------
(* Mapping pairs.                                                           *)

Hole == -1
MaxWidth == 3       \* bytes of an integer here; eight in the code

-----------------------------------------------------------------------------
(* The encoder.                                                             *)

ByteAt(value, i) == (value \div 256 ^ (i - 1)) % 256

(* The fewest bytes that hold an unsigned value.                            *)
UnsignedBytes(value) ==
    LET width == CHOOSE w \in 1 .. MaxWidth :
                    /\ w = MaxWidth \/ value < 256 ^ w
                    /\ \A v \in 1 .. w - 1 : value >= 256 ^ v
    IN [i \in 1 .. width |-> ByteAt(value, i)]

(* The fewest bytes whose sign extension is the value.                      *)
SignedBytes(value) ==
    LET width == CHOOSE w \in 1 .. MaxWidth :
                    /\ w = MaxWidth \/ value \in -(128 * 256 ^ (w - 1)) .. 128 * 256 ^ (w - 1) - 1
                    /\ \A v \in 1 .. w - 1 :
                          value \notin -(128 * 256 ^ (v - 1)) .. 128 * 256 ^ (v - 1) - 1
    IN [i \in 1 .. width |-> ByteAt(value, i)]

(* encode_runs: lengths, and the distance from the previous physical run.   *)
EncodeRuns(runs) ==
    LET Step(state, run) ==
            LET size == UnsignedBytes(run.length)
                delta == SignedBytes(run.lcn - state.previous) IN
            IF run.lcn = Hole
            THEN [state EXCEPT !.bytes = @ \o <<Len(size)>> \o size]
            ELSE [bytes |-> state.bytes \o <<16 * Len(delta) + Len(size)>> \o size \o delta,
                  previous |-> run.lcn]
    IN FoldLeft(Step, [bytes |-> <<>>, previous |-> 0], runs).bytes \o <<0>>

-----------------------------------------------------------------------------
(* The decoder.                                                             *)

DecodeUnsigned(bytes) ==
    FoldLeft(LAMBDA sum, i : sum + bytes[i] * 256 ^ (i - 1), 0, [i \in DOMAIN bytes |-> i])

DecodeSigned(bytes) ==
    IF bytes[Len(bytes)] >= 128 THEN DecodeUnsigned(bytes) - 256 ^ Len(bytes)
                                ELSE DecodeUnsigned(bytes)

(* decode_run: the run whose header is at an offset (from 1) of the pairs.  *)
PhysicalRun(lcn, length, next, clusterCount) ==
    IF length = 0 \/ lcn < 0 \/ lcn + length > clusterCount THEN Invalid
    ELSE [lcn |-> lcn, length |-> length, previous |-> lcn, next |-> next]

RunOf(size, delta, previous, next, clusterCount) ==
    IF delta = <<>>
    THEN [lcn |-> Hole, length |-> DecodeUnsigned(size), previous |-> previous, next |-> next]
    ELSE PhysicalRun(previous + DecodeSigned(delta), DecodeUnsigned(size), next, clusterCount)

RunWithWidths(bytes, offset, lengthWidth, lcnWidth, previous, clusterCount) ==
    IF \/ lengthWidth \notin 1 .. 8 \/ lcnWidth > 8
       \/ offset + lengthWidth + lcnWidth > Len(bytes)
    THEN Invalid
    ELSE RunOf(SubSeq(bytes, offset + 1, offset + lengthWidth),
               SubSeq(bytes, offset + 1 + lengthWidth, offset + lengthWidth + lcnWidth),
               previous, offset + 1 + lengthWidth + lcnWidth, clusterCount)

DecodeRun(bytes, offset, previous, clusterCount) ==
    RunWithWidths(bytes, offset, bytes[offset] % 16, bytes[offset] \div 16, previous, clusterCount)

(* append_extent: a run that continues the last extent extends it.          *)
Continues(last, run, vcn) ==
    /\ last.vcn + last.length = vcn
    /\ IF last.lcn = Hole THEN run.lcn = Hole ELSE last.lcn + last.length = run.lcn

AppendExtent(extents, run, vcn) ==
    IF run.length = 0 THEN extents
    ELSE IF extents # <<>> /\ Continues(extents[Len(extents)], run, vcn)
    THEN [extents EXCEPT ![Len(extents)].length = @ + run.length]
    ELSE Append(extents, [vcn |-> vcn, lcn |-> run.lcn, length |-> run.length])

(* Bytes behind the terminator: zero, or up to seven of alignment.          *)
ValidPadding(bytes, used) ==
    \/ Len(bytes) % 8 = 0 /\ Len(bytes) - used <= 7
    \/ \A i \in used + 1 .. Len(bytes) : bytes[i] = 0

RECURSIVE DecodeFrom(_, _, _, _, _, _)
DecodeFrom(bytes, offset, previous, vcn, extents, clusterCount) ==
    LET run == DecodeRun(bytes, offset, previous, clusterCount)
    IN IF offset > Len(bytes) THEN Invalid
       ELSE IF bytes[offset] = 0
       THEN IF ValidPadding(bytes, offset) THEN [extents |-> extents, next |-> vcn] ELSE Invalid
       ELSE IF run = Invalid THEN Invalid
       ELSE DecodeFrom(bytes, run.next, run.previous, vcn + run.length,
                       AppendExtent(extents, run, vcn), clusterCount)

(* parse_attribute_mapping_pairs: the extents from a starting VCN up to the *)
(* one that the attribute's header announces.                               *)
UpTo(list, expectedNext) ==
    IF list = Invalid THEN Invalid
    ELSE IF list.next = expectedNext THEN list.extents ELSE Invalid

ParseMappingPairs(bytes, start, expectedNext, clusterCount) ==
    UpTo(DecodeFrom(bytes, 1, 0, start, <<>>, clusterCount), expectedNext)

-----------------------------------------------------------------------------
SectorBytes == 512
ZeroSector == [of |-> Zeroed, part |-> 0, usn |-> 0]

(* A write of a whole structure.                                            *)
WriteOf(value, at, count, usn) ==
    [at |-> at, count |-> count, of |-> value, part |-> 1, usn |-> usn]

SectorFrom(write, s) == [of |-> write.of, part |-> write.part + s - write.at, usn |-> write.usn]

(* Sectors that were never written are zero.                                *)
SectorAt(image, s) ==
    LET covering == {i \in DOMAIN image : image[i].at <= s /\ s < image[i].at + image[i].count}
    IN IF covering = {} THEN ZeroSector
       ELSE IF image[Max(covering)].of = Zeroed THEN ZeroSector
       ELSE SectorFrom(image[Max(covering)], s)

(* The structure that a sequence of sectors holds.                          *)
Assembled(sectors) ==
    IF sectors = <<>> \/ \A i \in DOMAIN sectors : sectors[i].of = Zeroed THEN Zeroed
    ELSE IF \A i \in DOMAIN sectors :
                sectors[i].of = sectors[1].of /\ sectors[i].part = i
         THEN sectors[1].of ELSE Garbage

-----------------------------------------------------------------------------
(* parse_boot_sector.                                                       *)

DecodeSectorsPerCluster(encoded) ==
    IF encoded <= 128 /\ IsPowerOfTwo(encoded) THEN encoded
    ELSE IF encoded \in 240 .. 253 THEN 2 ^ (256 - encoded)
    ELSE 0

ClusterBytes(boot) == boot.bytesPerSector * DecodeSectorsPerCluster(boot.sectorsPerCluster)
ClusterCount(boot) == boot.totalSectors \div DecodeSectorsPerCluster(boot.sectorsPerCluster)

ValidGeometry(boot) ==
    /\ boot.bytesPerSector \in {512, 1024, 2048, 4096}
    /\ DecodeSectorsPerCluster(boot.sectorsPerCluster) > 0
    /\ ClusterBytes(boot) <= 2097152
    /\ boot.totalSectors > 0
    /\ ClusterCount(boot) > 0

(* A positive size counts clusters, a negative one is a power of two.       *)
DecodeRecordSize(encoded, boot) ==
    IF encoded \in {1, 2, 4, 8, 16, 32, 64} THEN encoded * ClusterBytes(boot)
    ELSE IF encoded \in -30 .. -9 THEN 2 ^ (-encoded)
    ELSE 0

RecordBytes(boot) == DecodeRecordSize(boot.recordSize, boot)
IndexBytes(boot) == DecodeRecordSize(boot.indexSize, boot)

ValidLcn(lcn, boot) == lcn \in 1 .. ClusterCount(boot) - 1

FirstRecordFits(lcn, boot) ==
    lcn * ClusterBytes(boot) + RecordBytes(boot) <= boot.totalSectors * boot.bytesPerSector

MetadataRecordsApart(boot) ==
    ~Overlaps([offset |-> boot.mftLcn * ClusterBytes(boot), length |-> RecordBytes(boot)],
              [offset |-> boot.mirrorLcn * ClusterBytes(boot), length |-> RecordBytes(boot)])

ParsesBootSector(boot) ==
    /\ boot.oem /\ boot.signature /\ boot.reservedZero
    /\ ValidGeometry(boot)
    /\ ValidLcn(boot.mftLcn, boot) /\ ValidLcn(boot.mirrorLcn, boot)
    /\ RecordBytes(boot) >= boot.bytesPerSector /\ IndexBytes(boot) >= boot.bytesPerSector
    /\ FirstRecordFits(boot.mftLcn, boot) /\ FirstRecordFits(boot.mirrorLcn, boot)
    /\ MetadataRecordsApart(boot)

(* validate_boot_region: one dedicated sector behind the declared ones      *)
(* holds an identical copy.                                                 *)
ValidBootRegion(primary, backup, partitionBytes) ==
    /\ ParsesBootSector(primary)
    /\ partitionBytes % primary.bytesPerSector = 0
    /\ partitionBytes \div primary.bytesPerSector > primary.totalSectors
    /\ backup = primary

-----------------------------------------------------------------------------
(* Attribute types.                                                         *)

StandardInformation == 16
AttributeListType == 32
FileNameType == 48
ObjectIdType == 64
SecurityDescriptorType == 80
VolumeNameType == 96
VolumeInformationType == 112
DataType == 128
IndexRootType == 144
IndexAllocationType == 160
BitmapType == 176
ReparsePointType == 192
EaInformationType == 208
EaType == 224
LoggedUtilityType == 256

Plain == {}         \* flags: a subset of {"compressed", "encrypted", "sparse"}
Stretched(attr) == attr.flags \cap {"compressed", "sparse"} # {}

HeaderLength(attr) ==
    IF attr.resident THEN 24 ELSE IF Stretched(attr) THEN 72 ELSE 64

(* Header, name and value or mapping pairs, each at a multiple of eight.    *)
AttributeLength(attr) ==
    AlignUp(HeaderLength(attr) + 2 * Len(attr.name), 8)
        + AlignUp(IF attr.resident THEN attr.size ELSE Len(attr.pairs), 8)

UpdateSequenceEnd(recordBytes) == 48 + 2 * (1 + recordBytes \div SectorBytes)
AttributesOffset(recordBytes) == AlignUp(UpdateSequenceEnd(recordBytes), 8)
BytesInUse(record) ==
    AttributesOffset(record.allocated) + SumOf(record.attrs, AttributeLength) + 8

-----------------------------------------------------------------------------
(* parse_file_record.                                                       *)

(* Mutant: a torn record is taken for its first sector.                     *)
TrustsFirstSector(sectors) == TRUE

(* apply_update_sequence_fixups: every sector ends with the number that the *)
(* first one announces, so a record that was torn while it was rewritten is *)
(* noticed.                                                                 *)
FixupsHold(sectors) == \A i \in DOMAIN sectors : sectors[i].usn = sectors[1].usn

ValidHeader(record, recordBytes) ==
    /\ record.magic = "FILE"
    /\ record.allocated = recordBytes
    /\ UpdateSequenceEnd(recordBytes) <= SectorBytes - 2
    /\ BytesInUse(record) <= recordBytes

(* Sectors with one number are of one version of the record.                *)
IsRecord(value) == IF value \in {Zeroed, Garbage} THEN FALSE ELSE "magic" \in DOMAIN value

ParsesFileRecord(sectors, recordBytes) ==
    /\ FixupsHold(sectors)
    /\ IsRecord(sectors[1].of)
    /\ sectors[1].part = 1
    /\ ValidHeader(sectors[1].of, recordBytes)

-----------------------------------------------------------------------------
(* parse_attribute_list.                                                    *)

ValidType(type) == type >= 16 /\ type % 16 = 0

(* parse_flags: encryption excludes compression and holes.                  *)
ValidFlags(flags) == "encrypted" \in flags => flags = {"encrypted"}

(* parse_vcns: empty, or a range.                                           *)
ValidVcns(attr) ==
    \/ attr.lowest = 0 /\ attr.highest = -1
    \/ 0 <= attr.lowest /\ attr.lowest <= attr.highest

(* validate_compression.                                                    *)
ValidCompression(attr) ==
    IF "compressed" \in attr.flags THEN attr.unit \in 1 .. 31 ELSE attr.unit = 0

(* parse_sizes: present in the part of an attribute that starts at VCN 0.   *)
ValidSizes(attr, clusterBytes) ==
    /\ attr.allocated % clusterBytes = 0
    /\ attr.initialized <= attr.data
    /\ ~Stretched(attr) => attr.data <= attr.allocated
    /\ "compressed" \in attr.flags =>
            (attr.highest + 1) % (2 ^ attr.unit) = 0
    /\ Stretched(attr) => attr.compressed % clusterBytes = 0
                          /\ attr.compressed <= attr.allocated

ValidNonResident(attr, clusterBytes) ==
    /\ ValidFlags(attr.flags)
    /\ ValidVcns(attr)
    /\ ValidCompression(attr)
    /\ attr.lowest = 0 => ValidSizes(attr, clusterBytes)

ValidAttribute(attr, clusterBytes) ==
    /\ ValidType(attr.type)
    /\ ~attr.resident => ValidNonResident(attr, clusterBytes)

ParsesAttributes(record, clusterBytes) ==
    LET attrs == record.attrs IN
    /\ \A i \in DOMAIN attrs : ValidAttribute(attrs[i], clusterBytes)
    /\ \A i \in 1 .. Len(attrs) - 1 : attrs[i].type <= attrs[i + 1].type
    /\ DistinctBy(attrs, LAMBDA a : a.id)

(* The extents of one part of a nonresident attribute.                      *)
ExtentsOf(attr, boot) ==
    ParseMappingPairs(attr.pairs, attr.lowest, attr.highest + 1, ClusterCount(boot))

Where(attrs, Test(_)) == SelectSeq(attrs, Test)
Named(attrs, type, name) == Where(attrs, LAMBDA a : a.type = type /\ a.name = name)

-----------------------------------------------------------------------------
(***************************************************************************)
(* Reading records through a mapping of the MFT, and the attributes of an  *)
(* object that are spread over several records (ntfs_attribute_list.rs,    *)
(* and the readers of ntfs_discovery.rs).                                  *)
(*                                                                         *)
(* A list is [list |-> entries]; an entry is [type, name, lowest, record,  *)
(* sequence, instance]. A mapping of the MFT is [extents, next, allocated, *)
(* data, initialized].                                                     *)
(***************************************************************************)

CONSTANTS Outside,  \* MftRecordOutsideMapping, which callers tell apart
          Partial   \* a list that is stored in a way this reader does not follow

Refusals == {Invalid, Outside, Partial}

SectorsPerCluster(boot) == ClusterBytes(boot) \div SectorBytes

-----------------------------------------------------------------------------
(* Streams.                                                                 *)

MappedBytes(runs, boot) == runs.next * ClusterBytes(boot)

HasSector(extents, boot, i) ==
    \E e \in DOMAIN extents :
        i \div SectorsPerCluster(boot) \in extents[e].vcn .. extents[e].vcn + extents[e].length - 1

ExtentWith(extents, vcn) ==
    Min({e \in DOMAIN extents : vcn \in extents[e].vcn .. extents[e].vcn + extents[e].length - 1})

SectorIn(image, perCluster, extent, i) ==
    IF extent.lcn = Hole THEN ZeroSector
    ELSE SectorAt(image, extent.lcn * perCluster + (i - extent.vcn * perCluster))

(* Sector i (from 0) of the stream that extents map; a hole reads as zero.  *)
StreamSector(image, boot, extents, i) ==
    SectorIn(image, SectorsPerCluster(boot), extents[ExtentWith(extents, i \div SectorsPerCluster(boot))], i)

(* Sectors first .. last - 1 of a stream.                                   *)
StreamSectors(image, boot, extents, first, last) ==
    [k \in 1 .. last - first |-> StreamSector(image, boot, extents, first + k - 1)]

(* read_stream, read_runlist_prefix: the structure in the first bytes of a  *)
(* stream. Attribute lists and system streams have no holes.                *)
ReadPrefix(image, boot, extents, bytes) ==
    IF \E e \in DOMAIN extents : extents[e].lcn = Hole THEN Partial
    ELSE Assembled(StreamSectors(image, boot, extents, 0, AlignUp(bytes, SectorBytes) \div SectorBytes))

(* append_runlist: the next part starts where the mapping ends.             *)
AppendRunlist(runs, extents, next) ==
    LET first == IF extents = <<>> THEN next ELSE extents[1].vcn
    IN IF first # runs.next THEN Invalid
       ELSE [runs EXCEPT !.extents = @ \o extents, !.next = next]

-----------------------------------------------------------------------------
(* Records.                                                                 *)

(* record_is_mapped.                                                        *)
RecordIsMapped(mft, boot, number) ==
    (number + 1) * RecordBytes(boot) <= Min({MappedBytes(mft, boot), mft.data, mft.initialized})

RecordSectors(image, boot, extents, number) ==
    LET n == RecordBytes(boot) \div SectorBytes
    IN StreamSectors(image, boot, extents, number * n, (number + 1) * n)

(* validate_record_identity: records of the old header carry no number.     *)
IdentityHolds(record, number) == record.number \in {NoNumber, number}

ParsedRecord(sectors, boot) ==
    IF ParsesFileRecord(sectors, RecordBytes(boot)) THEN sectors[1].of ELSE Invalid

ReadRecordThrough(image, boot, extents, number) ==
    ParsedRecord(RecordSectors(image, boot, extents, number), boot)

Identified(record, number) ==
    IF record = Invalid THEN Invalid
    ELSE IF IdentityHolds(record, number) THEN record ELSE Invalid

(* read_mft_record.                                                         *)
ReadMftRecord(image, boot, mft, number) ==
    IF ~RecordIsMapped(mft, boot, number) THEN Outside
    ELSE Identified(ReadRecordThrough(image, boot, mft.extents, number), number)

ScannedRecord(sectors, boot, number) ==
    IF \A i \in DOMAIN sectors : sectors[i] = ZeroSector THEN Zeroed
    ELSE IF ~ParsesFileRecord(sectors, RecordBytes(boot)) THEN Invalid
    ELSE IF sectors[1].of.inUse /\ ~IdentityHolds(sectors[1].of, number) THEN Invalid
    ELSE sectors[1].of

(* read_mft_record_for_inventory: a record that was never written is        *)
(* Zeroed, and only a record in use has to know its number.                 *)
ScanMftRecord(image, boot, mft, number) ==
    IF ~RecordIsMapped(mft, boot, number) THEN Outside
    ELSE ScannedRecord(RecordSectors(image, boot, mft.extents, number), boot, number)

-----------------------------------------------------------------------------
(* The entries of a list.                                                   *)

EntryLength(entry) == AlignUp(26 + 2 * Len(entry.name), 8)
ListBytes(entries) == SumOf(entries, EntryLength)

NameLess(a, b) ==
    \E k \in 0 .. Min({Len(a), Len(b)}) :
        /\ \A i \in 1 .. k : a[i] = b[i]
        /\ IF k = Len(a) THEN k < Len(b) ELSE k < Len(b) /\ a[k + 1] < b[k + 1]

EntryLess(a, b) ==
    \/ a.type < b.type
    \/ a.type = b.type /\ NameLess(a.name, b.name)
    \/ a.type = b.type /\ a.name = b.name /\ a.lowest < b.lowest
    \/ /\ a.type = b.type /\ a.name = b.name /\ a.lowest = b.lowest
       /\ a.instance < b.instance

(* parse_attribute_list_entries: valid types, strictly increasing.          *)
ValidEntries(entries) ==
    /\ \A i \in DOMAIN entries : ValidType(entries[i].type) /\ entries[i].lowest >= 0
    /\ \A i \in 1 .. Len(entries) - 1 : EntryLess(entries[i], entries[i + 1])

(* The entries that lie whole within the first bytes of a list.             *)
EntriesWithin(entries, bytes) ==
    LET whole == {n \in 0 .. Len(entries) : ListBytes(SubSeq(entries, 1, n)) <= bytes}
    IN SubSeq(entries, 1, Max(whole))

ParsedEntries(entries) == IF ValidEntries(entries) THEN entries ELSE Invalid

ParseListValue(value, bytes) ==
    IF value = Partial THEN Partial
    ELSE IF value \in {Garbage, Zeroed} THEN Invalid
    ELSE IF "list" \notin DOMAIN value THEN Invalid
    ELSE ParsedEntries(EntriesWithin(value.list, bytes))

(* attribute_matches.                                                       *)
AttributeMatches(entry, attr) ==
    /\ entry.type = attr.type /\ entry.instance = attr.id /\ entry.name = attr.name
    /\ entry.lowest = (IF attr.resident THEN 0 ELSE attr.lowest)

(* The one attribute of a record that an entry describes.                   *)
AttributeFor(entry, record, boot) ==
    LET found == Where(record.attrs, LAMBDA a : AttributeMatches(entry, a))
    IN IF ParsesAttributes(record, ClusterBytes(boot)) /\ Len(found) = 1
       THEN found[1] ELSE Invalid

(* A record that an entry names: of the announced sequence, in use, and an  *)
(* extension of the base.                                                   *)
ExtensionOf(host, number, base, entry) ==
    IF host \in Refusals THEN host
    ELSE IF /\ host.sequence = entry.sequence /\ host.inUse
            /\ host.base = [record |-> number, sequence |-> base.sequence]
         THEN host ELSE Invalid

HostOf(image, boot, mft, base, number, entry) ==
    IF entry.record # number
    THEN ExtensionOf(ReadMftRecord(image, boot, mft, entry.record), number, base, entry)
    ELSE IF entry.sequence = base.sequence THEN base ELSE Invalid

(* The attribute that an entry describes, or why there is none.             *)
AttributeIn(host, entry, boot) ==
    IF host \in Refusals THEN host ELSE AttributeFor(entry, host, boot)

-----------------------------------------------------------------------------
(* The value of a list whose own mapping continues in extension records     *)
(* that only the mapped prefix of the list names.                           *)

ContinuationRuns(attr, extents) ==
    IF extents = Invalid THEN Invalid ELSE [extents |-> extents, next |-> attr.highest + 1]

ListContinuation(attr, boot) ==
    IF attr \in Refusals THEN attr
    ELSE IF attr.resident THEN Partial
    ELSE IF attr.flags # Plain THEN Partial
    ELSE ContinuationRuns(attr, ExtentsOf(attr, boot))

(* The entries of a known prefix that name the part of the list at a VCN.   *)
NextListParts(known, vcn) ==
    Where(known, LAMBDA e : e.type = AttributeListType /\ e.name = <<>> /\ e.lowest = vcn)

ListPartAfter(image, boot, mft, base, number, runs, known) ==
    IF known \in Refusals THEN known
    ELSE IF NextListParts(known, runs.next) = <<>> THEN Partial
    ELSE ListContinuation(
            AttributeIn(HostOf(image, boot, mft, base, number, NextListParts(known, runs.next)[1]),
                        NextListParts(known, runs.next)[1], boot), boot)

KnownEntries(image, boot, runs) ==
    ParseListValue(ReadPrefix(image, boot, runs.extents, MappedBytes(runs, boot)),
                   MappedBytes(runs, boot))

(* extend_attribute_list_runlist.                                           *)
RECURSIVE ExtendListRunlist(_, _, _, _, _, _, _)
ExtendListRunlist(image, boot, mft, base, number, runs, bytes) ==
    LET more == Evaluated(ListPartAfter(image, boot, mft, base, number, runs,
                                        KnownEntries(image, boot, runs)))
    IN IF runs \in Refusals THEN runs
       ELSE IF MappedBytes(runs, boot) >= bytes THEN runs
       ELSE IF runs.next = 0 THEN Partial
       ELSE IF more \in Refusals THEN more
       ELSE ExtendListRunlist(image, boot, mft, base, number,
                              AppendRunlist(runs, more.extents, more.next), bytes)

(* read_list_value.                                                         *)
ReadMapped(image, boot, runs, bytes) ==
    IF runs \in Refusals THEN runs
    ELSE ParseListValue(ReadPrefix(image, boot, runs.extents, bytes), bytes)

ReadListValue(image, boot, mft, base, number, attr) ==
    IF attr.resident THEN ParseListValue(attr.value, attr.size)
    ELSE IF attr.flags # Plain \/ attr.initialized < attr.data THEN Partial
    ELSE ReadMapped(image, boot,
             ExtendListRunlist(image, boot, mft, base, number,
                               ContinuationRuns(attr, ExtentsOf(attr, boot)), attr.data),
             attr.data)

(* resolve_attribute_list: every entry names exactly one attribute of a     *)
(* record that belongs to the object. Gives the attributes in list order,   *)
(* each with the record it was found in.                                    *)
Resolved(found, entries) ==
    IF \E i \in DOMAIN found : found[i] = Outside THEN Outside
    ELSE IF \E i \in DOMAIN found : found[i] \in Refusals THEN Invalid
    ELSE [i \in DOMAIN found |-> [attr |-> found[i], record |-> entries[i].record]]

ResolveEntries(image, boot, mft, base, number, entries) ==
    IF entries \in Refusals THEN entries
    ELSE IF entries = <<>> THEN Invalid
    ELSE Resolved([i \in DOMAIN entries |->
                     AttributeIn(HostOf(image, boot, mft, base, number, entries[i]),
                                 entries[i], boot)], entries)

BaseLists(base) ==
    Where(base.attrs, LAMBDA a : /\ a.type = AttributeListType
                                 /\ IF a.resident THEN TRUE ELSE a.lowest = 0)

ResolveAttributeList(image, boot, mft, base, number) ==
    IF \/ ~base.inUse \/ base.base # NoReference \/ ~IdentityHolds(base, number)
       \/ ~ParsesAttributes(base, ClusterBytes(boot))
       \/ Len(BaseLists(base)) # 1
    THEN Invalid
    ELSE ResolveEntries(image, boot, mft, base, number,
             Evaluated(ReadListValue(image, boot, mft, base, number, BaseLists(base)[1])))
=============================================================================
