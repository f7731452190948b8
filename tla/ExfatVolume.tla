----------------------------- MODULE ExfatVolume -----------------------------
(***************************************************************************)
(* The boot sector and boot regions of an exFAT volume (exfat.rs,           *)
(* exfat_region.rs) and the geometry that the writer chooses                *)
(* (exfat_serialize.rs); up-case tables (exfat_upcase.rs,                   *)
(* exfat_upcase_serialize.rs); reading a volume: cluster chains             *)
(* (exfat_image.rs, exfat_allocation.rs), directories (exfat_directory.rs), *)
(* the root (exfat_discovery.rs) and the inventory of all objects           *)
(* (exfat_inventory.rs).                                                    *)
(*                                                                          *)
(* Sizes are those of the code: a cluster of 256 sectors makes a volume of  *)
(* the minimum size small enough. Magic values are one BOOLEAN each; the    *)
(* checksum of a region is the value it covers. Code units are              *)
(* 0 .. UnitCount - 1; the last one is the marker of an identity run, as    *)
(* 0xFFFF is.                                                               *)
(*                                                                          *)
(* A volume is [main, backup, fats, heap]: two boot regions, one function   *)
(* from clusters to FAT values per FAT, and the content of every cluster: a *)
(* sequence of directory entries, a set of allocated clusters, the words of *)
(* a table, or data. Lengths are bytes. A result that is refused is Refused.*)
(***************************************************************************)
EXTENDS Ranges


MinVolumeBytes == 1048576
MaxClusterShift == 25
BootSectors == 24           \* main and backup region, where the FAT begins
FatEntryBytes == 4
FirstCluster == 2

CeilDiv(a, b) == (a + b - 1) \div b
SectorBytes(boot) == 2 ^ boot.sectorShift
SectorsPerCluster(boot) == 2 ^ boot.clusterShift
BytesPerCluster(boot) == SectorBytes(boot) * SectorsPerCluster(boot)
HeapClusters(boot) == FirstCluster .. boot.clusterCount + 1

(* The fields of a boot sector of sectorBytes bytes (parse_boot_sector).    *)
ValidBootFields(boot, sectorBytes) ==
    /\ boot.magic                       \* jump, name, zeroes, revision, signature
    /\ boot.sectorShift \in 9 .. 12 /\ sectorBytes = SectorBytes(boot)
    /\ boot.clusterShift <= MaxClusterShift - boot.sectorShift
    /\ boot.fats \in {1, 2}
    /\ boot.activeFat \in {0, 1} /\ (boot.fats = 1 => boot.activeFat = 0)
    /\ boot.percent \in 0 .. 100 \cup {255}
    /\ boot.volumeLength >= MinVolumeBytes \div SectorBytes(boot)

(* Boot regions, FATs and heap follow each other; the heap is as large as   *)
(* the volume allows.                                                       *)
ValidBootLayout(boot) ==
    LET fatEnd == boot.fatOffset + boot.fatLength * boot.fats
        fitting == (boot.volumeLength - boot.heapOffset) \div SectorsPerCluster(boot)
    IN /\ boot.fatOffset >= BootSectors
       /\ boot.fatLength # 0
       /\ boot.clusterCount # 0
       /\ boot.fatLength >= CeilDiv((boot.clusterCount + 2) * FatEntryBytes, SectorBytes(boot))
       /\ fatEnd <= boot.volumeLength
       /\ fatEnd <= boot.heapOffset
       /\ boot.heapOffset < boot.volumeLength
       /\ boot.clusterCount = fitting
       /\ boot.root \in HeapClusters(boot)

ParsesBootSector(boot, sectorBytes) ==
    ValidBootFields(boot, sectorBytes) /\ ValidBootLayout(boot)

(* The bytes a region's checksum covers: all but flags and percentage.      *)
Covered(region) ==
    [boot |-> [region.boot EXCEPT !.activeFat = 0, !.percent = 0],
     extended |-> region.extended]

ValidBootRegion(region, sectorBytes) ==
    /\ region.checksum = Covered(region)
    /\ ParsesBootSector(region.boot, sectorBytes)
    /\ region.extended

(* "exact", "stale" when only uncovered fields differ, or "divergent".      *)
CompareRegions(main, backup) ==
    IF Covered(main) # Covered(backup) THEN "divergent"
    ELSE IF main.boot # backup.boot THEN "stale" ELSE "exact"

ValidBootRegions(volume, sectorBytes) ==
    ValidBootRegion(volume.main, sectorBytes) /\ ValidBootRegion(volume.backup, sectorBytes)

-----------------------------------------------------------------------------

ValidOptions(bytes, options) ==
    /\ options.sector \in {512, 1024, 2048, 4096}
    /\ options.cluster >= options.sector /\ options.cluster <= 2 ^ MaxClusterShift
    /\ \E k \in 9 .. MaxClusterShift : options.cluster = 2 ^ k
    /\ bytes >= MinVolumeBytes /\ bytes % options.sector = 0

(* One turn of the search for a FAT that just describes the clusters that   *)
(* are left behind it.                                                      *)
GeometryTurn(sectors, options, found) ==
    LET perCluster == options.cluster \div options.sector
        heap == AlignUp(BootSectors + found.fat, perCluster)
        count == (sectors - heap) \div perCluster
    IN [heap |-> heap, count |-> count,
        fat |-> CeilDiv((count + 2) * FatEntryBytes, options.sector)]

GeometryTurns == 64
OneTurnFewer == 63          \* leaves a two-cycle on its other foot

(* The search stops at a fixed point, and there may be none: then the last  *)
(* turn decides. No further turn changes a fixed point.                     *)
SearchGeometry(sectors, options, turns) ==
    FoldLeft(LAMBDA found, i : IF found.heap >= sectors THEN found
                               ELSE GeometryTurn(sectors, options, found),
             [heap |-> 0, count |-> 0, fat |-> 1], [i \in 1 .. turns |-> i])

SearchesOneTurnFewer(bytes, options) ==
    SearchGeometry(bytes \div options.sector, options, OneTurnFewer)

ChooseGeometry(bytes, options) ==
    SearchGeometry(bytes \div options.sector, options, GeometryTurns)

GeometryFits(sectors, found) == found.heap < sectors /\ found.count > 0

Log2(n) == CHOOSE k \in 0 .. 30 : 2 ^ k = n

(* The boot sector that build_boot_regions writes.                          *)
BootSector(bytes, options, geometry, root, percent) ==
    [magic |-> TRUE, sectorShift |-> Log2(options.sector),
     clusterShift |-> Log2(options.cluster \div options.sector), fats |-> 1,
     activeFat |-> 0, percent |-> percent, volumeLength |-> bytes \div options.sector,
     fatOffset |-> BootSectors, fatLength |-> geometry.fat, heapOffset |-> geometry.heap,
     clusterCount |-> geometry.count, root |-> root, serial |-> options.serial]

Region(boot) ==
    LET open == [boot |-> boot, extended |-> TRUE]
    IN [boot |-> boot, extended |-> TRUE, checksum |-> Covered(open)]

(* Both regions are validated before they leave the writer.                 *)
GeneratedRegionsValid(boot, options) ==
    /\ ValidBootRegion(Region(boot), options.sector)
    /\ CompareRegions(Region(boot), Region(boot)) = "exact"

-----------------------------------------------------------------------------
CONSTANTS EntryBytes,       \* 32
          UnitsPerName,     \* 15 code units in a file-name entry
          MaxSecondaries,   \* of an entry set
          InventoryLimits,  \* [objects, directories, depth, clusters, pathUnits, bytes]
          Refused

-----------------------------------------------------------------------------
(* Up-case tables                                                           *)

CONSTANTS UnitCount,        \* 65536
          MandatoryUnits,   \* 128
          Lower,            \* 0x61 .. 0x7A
          CaseOffset,       \* 0x20
          MaxNameUnits,     \* 255
          Forbidden         \* units no name may hold

Units == 0 .. UnitCount - 1
Marker == UnitCount - 1

MandatoryMapping(unit) == IF unit \in Lower THEN unit - CaseOffset ELSE unit
MandatoryHolds(unit, mapping) == unit < MandatoryUnits => mapping = MandatoryMapping(unit)

(* Mutant: a marker starts a run wherever it stands.                        *)
AlwaysStartsRun(words, at, mapped) == words[at] = Marker

(* A marker in the last word of a table that lacks one mapping is that      *)
(* mapping, not the start of a run.                                         *)
StartsRun(words, at, mapped) ==
    /\ words[at] = Marker
    /\ ~ (mapped = UnitCount - 1 /\ at = Len(words))

(* The walk of the words: [at, mapped, ok, map] (validate_encoding and      *)
(* decode_valid_table make the same steps).                                 *)
RECURSIVE DecodeFrom(_, _)
DecodeFrom(words, walk) ==
    IF ~ walk.ok \/ walk.at > Len(words) THEN walk
    ELSE IF walk.mapped = UnitCount THEN [walk EXCEPT !.ok = FALSE]
    ELSE IF StartsRun(words, walk.at, walk.mapped)
    THEN IF walk.at = Len(words) THEN [walk EXCEPT !.ok = FALSE]
         ELSE LET run == words[walk.at + 1] IN
              DecodeFrom(words,
                 [at |-> walk.at + 2, mapped |-> walk.mapped + run,
                  ok |-> /\ run > 0 /\ walk.mapped + run <= UnitCount
                         /\ \A u \in walk.mapped .. walk.mapped + run - 1 : MandatoryHolds(u, u),
                  map |-> walk.map \o [i \in 1 .. run |-> walk.mapped + i - 1]])
    ELSE DecodeFrom(words,
            [at |-> walk.at + 1, mapped |-> walk.mapped + 1,
             ok |-> MandatoryHolds(walk.mapped, words[walk.at]),
             map |-> Append(walk.map, words[walk.at])])

Decoded(words) == DecodeFrom(words, [at |-> 1, mapped |-> 0, ok |-> TRUE, map |-> <<>>])

(* The checksum of a table is the words it was computed over.               *)
TableChecksum(words) == words

ValidTable(words, checksum) ==
    /\ words # <<>> /\ Len(words) <= UnitCount
    /\ checksum = TableChecksum(words)
    /\ LET walk == Decoded(words) IN walk.ok /\ walk.mapped = UnitCount

Mapping(words) == Decoded(words).map
Upcase(map, unit) == map[unit + 1]
UpcaseName(map, name) == [i \in DOMAIN name |-> Upcase(map, name[i])]

LegalName(name) == Len(name) \in 1 .. MaxNameUnits /\ Range(name) \cap Forbidden = {}
LegalLabel(units) == Len(units) <= 11 /\ Range(units) \cap Forbidden = {}

RotateRight16(n) == n \div 2 + (n % 2) * 32768

(* Over both bytes of every up-cased unit.                                  *)
NameHash(map, name) ==
    FoldLeft(LAMBDA hash, unit :
                 LET low == (RotateRight16(hash) + (unit % 256)) % 65536
                 IN (RotateRight16(low) + (unit \div 256)) % 65536,
             0, UpcaseName(map, name))

(* Two names that differ in case only. Equal hashes are looked for first,   *)
(* and never decide.                                                        *)
SameName(map, left, right) ==
    /\ NameHash(map, left) = NameHash(map, right)
    /\ Len(left) = Len(right)
    /\ UpcaseName(map, left) = UpcaseName(map, right)

DuplicateNames(map, names) ==
    \E i, j \in DOMAIN names : i < j /\ SameName(map, names[i], names[j])

-----------------------------------------------------------------------------
Free == 0
BadCluster == -2            \* 0xfffffff7
EndOfChain == -1            \* 0xffffffff

-----------------------------------------------------------------------------
(* Streams                                                                  *)

ActiveFat(boot) == boot.activeFat + 1

(* The distinct clusters that the FAT links from first on.                  *)
RECURSIVE Follow(_, _)
Follow(fat, path) ==
    LET next == fat[Last(path)] IN
    IF next \in DOMAIN fat /\ next \notin Range(path)
    THEN Follow(fat, Append(path, next)) ELSE path

Chain(fat, first) == IF first \in DOMAIN fat THEN Follow(fat, <<first>>) ELSE <<>>

Ends(fat, chain) == chain # <<>> /\ fat[Last(chain)] = EndOfChain

ContiguousClusters(boot, first, count) ==
    IF first \in HeapClusters(boot) /\ first + count - 1 \in HeapClusters(boot)
    THEN [i \in 1 .. count |-> first + i - 1] ELSE Refused

ExactFatChain(fat, first, count) ==
    LET chain == Chain(fat, first)
    IN IF Ends(fat, chain) /\ Len(chain) = count THEN chain ELSE Refused

FatChainToEnd(fat, first, maximum) ==
    LET chain == Chain(fat, first)
    IN IF Ends(fat, chain) /\ Len(chain) <= maximum THEN chain ELSE Refused

(* The clusters of a stream; an empty one has no first cluster.             *)
StreamClusters(volume, boot, fat, stream) ==
    LET count == CeilDiv(stream.length, BytesPerCluster(boot)) IN
    IF fat > boot.fats THEN Refused
    ELSE IF stream.length = 0 THEN IF stream.first = 0 THEN <<>> ELSE Refused
    ELSE IF count > InventoryLimits.clusters THEN Refused
    ELSE IF stream.noFatChain THEN ContiguousClusters(boot, stream.first, count)
    ELSE ExactFatChain(volume.fats[fat], stream.first, count)

(* Directory entries of the clusters, one after the other; a cluster that   *)
(* holds something else reads as an entry no directory accepts.             *)
EntriesOf(volume, clusters) ==
    FoldLeft(LAMBDA entries, c :
                 entries \o (IF volume.heap[c].kind = "entries" THEN volume.heap[c].entries
                             ELSE <<[type |-> "unknown"]>>),
             <<>>, clusters)

-----------------------------------------------------------------------------
(* Directories. Entry types: "end", "unused", "bitmap", "upcase", "label",  *)
(* "file", "stream", "name", "benign", "vendor" (a benign secondary) and    *)
(* "unknown".                                                               *)

(* A first cluster and a length that the heap can hold.                     *)
ValidAllocation(boot, stream) ==
    IF stream.first = 0 THEN stream.length = 0 /\ ~ stream.noFatChain
    ELSE /\ stream.first \in HeapClusters(boot)
         /\ stream.length <= boot.clusterCount * BytesPerCluster(boot)
         /\ stream.noFatChain =>
               /\ stream.length > 0
               /\ stream.first + CeilDiv(stream.length, BytesPerCluster(boot)) - 1
                    \in HeapClusters(boot)

SystemStream(entry) == [first |-> entry.first, length |-> entry.length, noFatChain |-> FALSE]
BitmapBytes(boot) == CeilDiv(boot.clusterCount, 8)

ParsesBitmap(boot, entry) ==
    /\ entry.id \in 0 .. boot.fats - 1
    /\ ValidAllocation(boot, SystemStream(entry))
    /\ entry.length = BitmapBytes(boot)

ParsesUpcase(boot, entry) ==
    /\ ValidAllocation(boot, SystemStream(entry))
    /\ entry.length > 0 /\ entry.length % 2 = 0

ParsesLabel(entry) == LegalLabel(entry.units)

(* The entries of a set, and the checksum its primary stores over them.     *)
SetAt(entries, i) == SubSeq(entries, i, Min({Len(entries), i + entries[i].secondaries}))
ChecksPrimaryOnly(set) == <<[set[1] EXCEPT !.checksum = 0]>>
SetChecksum(set) == <<[set[1] EXCEPT !.checksum = 0]>> \o Tail(set)

CompleteSet(entries, i) ==
    /\ entries[i].secondaries <= MaxSecondaries
    /\ i + entries[i].secondaries <= Len(entries)

NameEntries(length) == CeilDiv(length, UnitsPerName)

NameOf(set) ==
    LET length == set[2].nameLength IN
    SubSeq(FoldLeft(LAMBDA units, e : units \o e.units, <<>>,
                    SubSeq(set, 3, 2 + NameEntries(length))), 1, length)

(* A file: its primary, a stream extension, its name entries and benign     *)
(* secondaries, in this order (parse_file_set). `sound` is the check of     *)
(* attributes, reserved bytes and timestamps.                               *)
ParsesFileSet(boot, entries, i) ==
    LET set == SetAt(entries, i)
        stream == set[2]
        names == NameEntries(stream.nameLength)
    IN /\ CompleteSet(entries, i)
       /\ set[1].checksum = SetChecksum(set)
       /\ set[1].sound
       /\ Len(set) >= 2 /\ stream.type = "stream" /\ stream.nameLength > 0
       /\ names + 1 <= set[1].secondaries
       /\ \A k \in 3 .. names + 2 : set[k].type = "name"
       /\ LegalName(NameOf(set))
       /\ \A k \in names + 3 .. Len(set) : set[k].type = "vendor"
       /\ ValidAllocation(boot, stream)
       /\ stream.valid <= stream.length
       /\ set[1].directory => stream.valid = stream.length

FileOf(entries, i) ==
    LET set == SetAt(entries, i)
    IN [directory |-> set[1].directory, metadata |-> set[1].metadata, hash |-> set[2].hash,
        valid |-> set[2].valid, length |-> set[2].length, first |-> set[2].first,
        noFatChain |-> set[2].noFatChain, name |-> NameOf(set),
        vendor |-> Len(set) - 2 - NameEntries(set[2].nameLength)]

(* Nothing but end markers behind the first one.                            *)
EndsHere(entries, i) == \A k \in i .. Len(entries) : entries[k].type = "end"

ParsesBenign(entries, i) ==
    LET set == SetAt(entries, i)
    IN /\ CompleteSet(entries, i)
       /\ set[1].checksum = SetChecksum(set)
       /\ \A k \in 2 .. Len(set) : set[k].type \in {"stream", "name", "vendor"}

(* The records from entry i on, each with the entries it consumes, as       *)
(* scan_directory visits them.                                              *)
RECURSIVE ScanFrom(_, _, _, _)
ScanFrom(boot, isRoot, entries, i) ==
    LET entry == entries[i]
        Rest(consumed, record) ==
            LET rest == ScanFrom(boot, isRoot, entries, i + consumed)
            IN IF rest = Refused THEN Refused ELSE <<record>> \o rest
    IN IF i > Len(entries) THEN <<>>
       ELSE CASE entry.type = "end" -> IF EndsHere(entries, i) THEN <<>> ELSE Refused
              [] entry.type = "unused" -> Rest(1, [type |-> "unused"])
              [] entry.type = "bitmap" ->
                    IF isRoot /\ ParsesBitmap(boot, entry) THEN Rest(1, entry) ELSE Refused
              [] entry.type = "upcase" ->
                    IF isRoot /\ ParsesUpcase(boot, entry) THEN Rest(1, entry) ELSE Refused
              [] entry.type = "label" ->
                    IF isRoot /\ ParsesLabel(entry) THEN Rest(1, entry) ELSE Refused
              [] entry.type = "file" ->
                    IF ParsesFileSet(boot, entries, i)
                    THEN Rest(entry.secondaries + 1,
                              [type |-> "file", file |-> FileOf(entries, i)])
                    ELSE Refused
              [] entry.type = "benign" ->
                    IF ParsesBenign(entries, i)
                    THEN Rest(entry.secondaries + 1, [type |-> "benign"]) ELSE Refused
              [] OTHER -> Refused

OfType(records, type) == SelectSeq(records, LAMBDA r : r.type = type)

ValidRoot(boot, records) ==
    /\ Len(OfType(records, "bitmap")) = boot.fats
    /\ Cardinality({r.id : r \in Range(OfType(records, "bitmap"))}) = boot.fats
    /\ Len(OfType(records, "upcase")) = 1
    /\ Len(OfType(records, "label")) <= 1

CheckedRoot(boot, records) ==
    IF records = Refused THEN Refused ELSE IF ValidRoot(boot, records) THEN records ELSE Refused

ParseDirectory(boot, isRoot, entries) ==
    IF isRoot THEN CheckedRoot(boot, ScanFrom(boot, TRUE, entries, 1))
    ELSE ScanFrom(boot, FALSE, entries, 1)

FilesOf(records) ==
    [i \in DOMAIN OfType(records, "file") |-> OfType(records, "file")[i].file]

-----------------------------------------------------------------------------
(* The root: the directory, the active bitmap and the up-case table, each   *)
(* in clusters that this bitmap has (discover_root).                        *)

AllocatedIn(volume, clusters) ==
    UNION {volume.heap[c].allocated : c \in {c \in Range(clusters) : volume.heap[c].kind = "bitmap"}}

(* No bit is set behind the last cluster.                                   *)
ValidBitmap(boot, allocated) == allocated \subseteq HeapClusters(boot)

TableOf(volume, clusters) ==
    FoldLeft(LAMBDA words, c :
                 words \o (IF volume.heap[c].kind = "upcase" THEN volume.heap[c].words ELSE <<>>),
             <<>>, clusters)

(* Whole percents, or the nearest one, as an older writer had it.           *)
ValidPercent(boot, allocated) ==
    LET share == Cardinality(allocated) * 100
    IN boot.percent \in {255, share \div boot.clusterCount,
                         (share + boot.clusterCount \div 2) \div boot.clusterCount}

(* bits and words are the clusters of bitmap and table.                     *)
AcceptedRoot(volume, boot, root, records, bits, words, allocated) ==
    IF /\ bits # Refused /\ words # Refused
       /\ ValidBitmap(boot, allocated)
       /\ ValidTable(TableOf(volume, words), OfType(records, "upcase")[1].checksum)
       /\ Range(root) \cup Range(bits) \cup Range(words) \subseteq allocated
       /\ ValidPercent(boot, allocated)
    THEN [root |-> root, records |-> records, allocated |-> allocated,
          map |-> Mapping(TableOf(volume, words))]
    ELSE Refused

WithBitmap(volume, boot, root, records, bits) ==
    AcceptedRoot(volume, boot, root, records, bits,
                 StreamClusters(volume, boot, ActiveFat(boot),
                                SystemStream(OfType(records, "upcase")[1])),
                 AllocatedIn(volume, bits))

WithRecords(volume, boot, root, records) ==
    IF records = Refused THEN Refused
    ELSE IF boot.activeFat \notin {r.id : r \in Range(OfType(records, "bitmap"))} THEN Refused
    ELSE WithBitmap(volume, boot, root, records,
            StreamClusters(volume, boot, ActiveFat(boot), SystemStream(
                SelectSeq(OfType(records, "bitmap"), LAMBDA r : r.id = boot.activeFat)[1])))

Discovered(volume, boot) ==
    LET root == FatChainToEnd(volume.fats[ActiveFat(boot)], boot.root, InventoryLimits.clusters)
    IN IF root = Refused THEN Refused
       ELSE WithRecords(volume, boot, root, ParseDirectory(boot, TRUE, EntriesOf(volume, root)))

-----------------------------------------------------------------------------
(* The inventory: every object, breadth first, and an owner for every       *)
(* allocated cluster (inventory_image).                                     *)

InventoryStream(volume, boot, fat, stream) ==
    IF stream.length = 0 THEN <<>> ELSE StreamClusters(volume, boot, fat, stream)

(* Clusters get an owner once, and only allocated ones do.                  *)
ClaimStream(inventory, clusters) ==
    IF \/ inventory = Refused \/ clusters = Refused
       \/ ~ Range(clusters) \subseteq inventory.allocated \ inventory.owned
       \/ ~ IsInjective(clusters)
    THEN Refused ELSE [inventory EXCEPT !.owned = @ \cup Range(clusters)]

PathUnits(path) == Len(path) - 1 + SumOf(path, Len)

WithinLimits(inventory) ==
    /\ Len(inventory.objects) <= InventoryLimits.objects
    /\ Cardinality({i \in DOMAIN inventory.objects : inventory.objects[i].directory})
          <= InventoryLimits.directories
    /\ Last(inventory.objects).depth <= InventoryLimits.depth
    /\ PathUnits(Last(inventory.objects).path) <= InventoryLimits.pathUnits
    /\ SumOf(Tail(inventory.objects), LAMBDA o : o.length) <= InventoryLimits.bytes

Child(volume, boot, parent, depth, path, file) ==
    [directory |-> file.directory, metadata |-> file.metadata, parent |-> parent,
     depth |-> IF file.directory THEN depth + 1 ELSE depth, path |-> Append(path, file.name),
     valid |-> file.valid, length |-> file.length, noFatChain |-> file.noFatChain,
     first |-> file.first, vendor |-> file.vendor,
     clusters |-> InventoryStream(volume, boot, ActiveFat(boot), file)]

Bounded(inventory) == IF WithinLimits(inventory) THEN inventory ELSE Refused

Appended(claimed, object) ==
    IF claimed = Refused THEN Refused
    ELSE Bounded([claimed EXCEPT !.objects = Append(@, object)])

WithObject(inventory, object) == Appended(ClaimStream(inventory, object.clusters), object)

ProcessChildren(volume, boot, map, inventory, parent, files) ==
    LET directory == inventory.objects[parent]
        Add(sofar, file) ==
            IF file.hash # NameHash(map, file.name) THEN Refused
            ELSE WithObject(sofar, Child(volume, boot, parent, directory.depth, directory.path, file))
    IN IF DuplicateNames(map, [i \in DOMAIN files |-> files[i].name]) THEN Refused
       ELSE FoldLeft(Add, inventory, files)

(* The directories behind position i, in the order in which they were found.*)
FilesIn(volume, boot, clusters) ==
    IF clusters = Refused THEN Refused
    ELSE ParseDirectory(boot, FALSE, EntriesOf(volume, clusters))

RECURSIVE Descend(_, _, _, _, _)
Descend(volume, boot, map, inventory, i) ==
    LET object == inventory.objects[i]
        Into(records) ==
            IF records = Refused THEN Refused
            ELSE ProcessChildren(volume, boot, map, inventory, i, FilesOf(records))
    IN IF inventory = Refused THEN Refused
       ELSE IF i > Len(inventory.objects) THEN inventory
       ELSE Descend(volume, boot, map,
                    IF object.directory
                    THEN Into(FilesIn(volume, boot,
                                      StreamClusters(volume, boot, ActiveFat(boot), object)))
                    ELSE inventory, i + 1)

(* Every bitmap is read through the FAT of its own number.                  *)
ClaimSystemStreams(volume, boot, inventory, records) ==
    ClaimStream(
        FoldLeft(LAMBDA sofar, r :
                     ClaimStream(sofar, InventoryStream(volume, boot, r.id + 1, SystemStream(r))),
                 inventory, OfType(records, "bitmap")),
        InventoryStream(volume, boot, ActiveFat(boot), SystemStream(OfType(records, "upcase")[1])))

(* What is allocated and nobody's must be marked bad.                       *)
UnownedAreBad(volume, boot, inventory) ==
    \A c \in inventory.allocated \ inventory.owned : volume.fats[ActiveFat(boot)][c] = BadCluster

RootObject(boot, clusters) ==
    [directory |-> TRUE, metadata |-> Refused, parent |-> 0, depth |-> 0, path |-> <<>>,
     valid |-> Len(clusters) * BytesPerCluster(boot),
     length |-> Len(clusters) * BytesPerCluster(boot), noFatChain |-> FALSE,
     first |-> clusters[1], vendor |-> 0, clusters |-> clusters]

Complete(volume, boot, all) ==
    IF all = Refused THEN Refused
    ELSE IF UnownedAreBad(volume, boot, all)
    THEN [objects |-> all.objects, bad |-> all.allocated \ all.owned] ELSE Refused

Walk(volume, boot, found, system) ==
    IF system = Refused THEN Refused
    ELSE Descend(volume, boot, found.map,
                 ProcessChildren(volume, boot, found.map, system, 1, FilesOf(found.records)), 2)

InventoryFrom(volume, boot, found) ==
    LET start == [objects |-> <<RootObject(boot, found.root)>>,
                  allocated |-> found.allocated, owned |-> {}]
    IN IF found = Refused THEN Refused
       ELSE Complete(volume, boot, Walk(volume, boot, found,
                ClaimSystemStreams(volume, boot, ClaimStream(start, found.root), found.records)))

ExfatInventory(volume, boot) ==
    IF boot.clusterCount > InventoryLimits.clusters THEN Refused
    ELSE InventoryFrom(volume, boot, Discovered(volume, boot))

(* A volume is read once both boot regions are valid, by the main one.      *)
ReadExfat(volume, sectorBytes) ==
    IF ValidBootRegions(volume, sectorBytes)
    THEN ExfatInventory(volume, volume.main.boot) ELSE Refused
=============================================================================
