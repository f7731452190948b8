------------------------------ MODULE NtfsIndex ------------------------------
(***************************************************************************)
(* Index trees: their nodes as they are parsed (ntfs_index.rs), the        *)
(* directory tree that is built bottom-up from sorted names                *)
(* (ntfs_index_serialize.rs), and the tree of reparse points               *)
(* (ntfs_reparse_index.rs).                                                *)
(*                                                                         *)
(* A node is [keys, children]: children is empty in a leaf, and has one    *)
(* VCN more than there are keys otherwise, the last being that of the      *)
(* terminal entry. An entry of a directory is [target, key] with the key   *)
(* [parent, namespace, name, meta], a reparse key is [tag, file]. A block  *)
(* is [block |-> "INDX", vcn, node], a root is [root |-> type, collation,  *)
(* blockBytes, units, node].                                               *)
(*                                                                         *)
(* A file name is a sequence of symbols; a symbol stands for SymbolUnits   *)
(* code units, so that a few long names fill a block.                      *)
(***************************************************************************)
EXTENDS NtfsRecord

CONSTANTS SymbolUnits,  \* [symbols -> Nat]
          Upcase,       \* [symbols -> symbols], the volume's upcase table
          NoValue       \* an absent attribute

IndexName == <<36, 73, 51, 48>>     \* $I30
ReparseName == <<36, 82>>           \* $R

MaxIndexDepth == 8
NameUnits(name) == SumOf(name, LAMBDA s : SymbolUnits[s])
FileNameBytes(key) == 66 + 2 * NameUnits(key.name)

(* An entry, with the VCN of its child when it has one.                     *)
EntryBytes(entry, child) ==
    AlignUp(16 + FileNameBytes(entry.key) + (IF child THEN 8 ELSE 0), 8)
TerminalBytes(child) == IF child THEN 24 ELSE 16

(* update_sequence_number.                                                  *)
IndexUsn(number) == 40960 + (number % 24574)

-----------------------------------------------------------------------------
(* Parsing.                                                                 *)

HasChildren(node) == node.children # <<>>

(* parse_node, validate_entries: the entries end with one terminal, and     *)
(* all of them point to children or none does.                              *)
NodeBytes(node, Size(_, _)) ==
    16 + SumOf(node.keys, LAMBDA e : Size(e, HasChildren(node))) + TerminalBytes(HasChildren(node))

ValidFileNameKey(key) ==
    /\ NameUnits(key.name) \in 1 .. 255
    /\ key.namespace \in 0 .. 3

ValidNode(node, available) ==
    /\ HasChildren(node) => Len(node.children) = Len(node.keys) + 1
    /\ \A i \in DOMAIN node.keys : ValidFileNameKey(node.keys[i].key)
    /\ NodeBytes(node, EntryBytes) <= available

(* parse_index_root.                                                        *)
ParsesIndexRoot(value, size) ==
    /\ value.root = FileNameType /\ value.collation = "names"
    /\ IsPowerOfTwo(value.blockBytes) /\ value.blockBytes % SectorBytes = 0
    /\ value.units # 0
    /\ ValidNode(value.node, size - 16)

(* parse_index_block, validate_fixups. The entries follow the update        *)
(* sequence.                                                                *)
EntriesOffset(blockBytes) == AlignUp(40 + 2 * (blockBytes \div SectorBytes + 1), 8)

IsBlock(value) == IF value \in {Zeroed, Garbage} THEN FALSE ELSE "block" \in DOMAIN value

ParsesIndexBlock(sectors, vcn) ==
    /\ FixupsHold(sectors)
    /\ IsBlock(sectors[1].of) /\ sectors[1].part = 1
    /\ sectors[1].of.vcn = vcn
    /\ ValidNode(sectors[1].of.node, Len(sectors) * SectorBytes - 24)

-----------------------------------------------------------------------------
(* The order of names.                                                      *)

(* collate_names: by the upcased names, a prefix first, and names that      *)
(* differ only in case by their first difference.                           *)
CollatesBefore(a, b) ==
    LET common == 1 .. Min({Len(a), Len(b)})
        unequal == {i \in common : Upcase[a[i]] # Upcase[b[i]]}
        raw == {i \in common : a[i] # b[i]}
    IN IF unequal # {} THEN Upcase[a[Min(unequal)]] < Upcase[b[Min(unequal)]]
       ELSE IF Len(a) # Len(b) THEN Len(a) < Len(b)
       ELSE IF raw # {} THEN a[Min(raw)] < b[Min(raw)]
       ELSE FALSE

EntryBefore(a, b) == CollatesBefore(a.key.name, b.key.name)

(* check_geometry. vcnUnits is what one block advances a VCN by; blocks     *)
(* smaller than a cluster are addressed in sectors.                         *)
VcnUnits(clusterBytes, blockBytes) ==
    IF blockBytes >= clusterBytes THEN blockBytes \div clusterBytes
                                  ELSE blockBytes \div SectorBytes

LeafBytes(blockBytes) == blockBytes - EntriesOffset(blockBytes)

-----------------------------------------------------------------------------
(* Building a tree. Positions are those of the sorted entries.              *)

(* How many of the sizes from a cursor on fit.                              *)
PackedFrom(sizes, cursor, capacity) ==
    Max({n \in 0 .. Len(sizes) - cursor + 1 :
            FoldLeft(+, 0, SubSeq(sizes, cursor, cursor + n - 1)) <= capacity})

(* A leaf that is not the last leaves a separator and one more entry.       *)
LeafTakes(packed, rest) == IF packed = rest THEN rest ELSE Min({packed, rest - 2})

(* partition_leaves.                                                        *)
RECURSIVE PartitionLeaves(_, _, _)
PartitionLeaves(sizes, capacity, cursor) ==
    LET rest == Len(sizes) - cursor + 1
        take == LeafTakes(PackedFrom(sizes, cursor, capacity), rest)
        leaf == [i \in 1 .. take |-> cursor + i - 1]
        others == PartitionLeaves(sizes, capacity, cursor + take + 1)
    IN IF take <= 0 THEN Invalid
       ELSE IF take = rest THEN [groups |-> <<leaf>>, separators |-> <<>>]
       ELSE IF others = Invalid THEN Invalid
       ELSE [groups |-> <<leaf>> \o others.groups,
             separators |-> <<cursor + take>> \o others.separators]

(* A group of children that is not the last leaves at least one child.      *)
GroupTakes(packed, rest) == IF packed + 1 >= rest THEN rest ELSE Min({packed + 1, rest - 1})

(* partition_index_nodes: groups of children under the keys between them;   *)
(* the key between two groups is promoted.                                  *)
RECURSIVE PartitionNodes(_, _, _, _)
PartitionNodes(keys, sizes, capacity, cursor) ==
    LET rest == Len(keys) + 1 - (cursor - 1)
        take == GroupTakes(PackedFrom(sizes, cursor, capacity), rest)
        group == [keys |-> SubSeq(keys, cursor, cursor + take - 2), first |-> cursor, count |-> take]
        others == PartitionNodes(keys, sizes, capacity, cursor + take)
    IN IF \E i \in DOMAIN sizes : sizes[i] > capacity THEN Invalid
       ELSE IF take = rest THEN [groups |-> <<group>>, promoted |-> <<>>]
       ELSE IF others = Invalid THEN Invalid
       ELSE [groups |-> <<group>> \o others.groups,
             promoted |-> <<keys[cursor + take - 1]>> \o others.promoted]

(* The nodes that stand over the groups of a level.                         *)
NodesOver(level, groups) ==
    [i \in DOMAIN groups |->
        [keys |-> groups[i].keys,
         children |-> SubSeq(level, groups[i].first, groups[i].first + groups[i].count - 1)]]

(* spill_directory_index: levels are added until the separators of the top  *)
(* one fit the root. nodes are numbered from 0 in the order of their        *)
(* blocks; leafSizes and nodeSizes are those of the sorted entries.         *)
RECURSIVE AddLevels(_, _, _, _, _, _)
AddLevels(nodes, level, separators, nodeSizes, geometry, depth) ==
    LET sizes == [i \in DOMAIN separators |-> nodeSizes[separators[i]]]
        rootBytes == 32 + FoldLeft(+, 0, sizes) + TerminalBytes(TRUE)
        next == PartitionNodes(separators, sizes, geometry.leafBytes - TerminalBytes(TRUE), 1)
    IN IF depth = MaxIndexDepth THEN Invalid
       ELSE IF rootBytes <= geometry.rootBudget
       THEN [nodes |-> nodes, top |-> [keys |-> separators, children |-> level]]
       ELSE IF next = Invalid THEN Invalid
       ELSE IF Len(next.groups) >= Len(level) THEN Invalid
       ELSE AddLevels(nodes \o NodesOver(level, next.groups),
                      [i \in DOMAIN next.groups |-> Len(nodes) + i - 1],
                      next.promoted, nodeSizes, geometry, depth + 1)

(* A planned node with its entries and the VCNs of its children.            *)
Emitted(node, sorted, units) ==
    [keys |-> [i \in DOMAIN node.keys |-> sorted[node.keys[i]]],
     children |-> [i \in DOMAIN node.children |-> node.children[i] * units]]

(* build_bitmap: one bit for each block, in units of eight bytes.           *)
IndexBitmap(count) ==
    [bits |-> 0 .. count - 1, bytes |-> AlignUp(AlignUp(count, 8) \div 8, 8)]

(* emit_spilled_index, build_index_block, build_root.                       *)
EmitSpilled(tree, sorted, geometry, type, collation) ==
    [root |-> [root |-> type, collation |-> collation, blockBytes |-> geometry.blockBytes,
               units |-> geometry.units, node |-> Emitted(tree.top, sorted, geometry.units)],
     allocation |-> [i \in DOMAIN tree.nodes |->
                        [block |-> "INDX", vcn |-> (i - 1) * geometry.units,
                         node |-> Emitted(tree.nodes[i], sorted, geometry.units)]],
     bitmap |-> IndexBitmap(Len(tree.nodes))]

LeafNodes(leaves) == [i \in DOMAIN leaves |-> [keys |-> leaves[i], children |-> <<>>]]

SpillDirectory(sorted, geometry) ==
    LET leaves == PartitionLeaves([i \in DOMAIN sorted |-> EntryBytes(sorted[i], FALSE)],
                                  geometry.leafBytes - TerminalBytes(FALSE), 1)
        tree == IF leaves = Invalid THEN Invalid
                ELSE AddLevels(LeafNodes(leaves.groups),
                               [i \in DOMAIN leaves.groups |-> i - 1], leaves.separators,
                               [i \in DOMAIN sorted |-> EntryBytes(sorted[i], TRUE)], geometry, 0)
    IN IF tree = Invalid THEN Invalid
       ELSE EmitSpilled(tree, sorted, geometry, FileNameType, "names")

(* A root that holds all entries.                                           *)
ResidentIndex(sorted, geometry, type, collation) ==
    [root |-> [root |-> type, collation |-> collation, blockBytes |-> geometry.blockBytes,
               units |-> geometry.units, node |-> [keys |-> sorted, children |-> <<>>]],
     allocation |-> <<>>, bitmap |-> IndexBitmap(0)]

RootBytes(index, Size(_, _)) == 16 + NodeBytes(index.root.node, Size)
DirectoryRootBytes(index) == RootBytes(index, EntryBytes)

SortEntries(entries) == SortSeq(entries, EntryBefore)

(* serialize_ntfs_directory_index: two names that collate equally, or a     *)
(* name that no leaf can hold, are refused.                                 *)
SerializeSorted(sorted, geometry) ==
    IF \E i \in 1 .. Len(sorted) - 1 : ~EntryBefore(sorted[i], sorted[i + 1]) THEN Invalid
    ELSE IF DirectoryRootBytes(ResidentIndex(sorted, geometry, FileNameType, "names"))
                <= geometry.rootBudget
    THEN ResidentIndex(sorted, geometry, FileNameType, "names")
    ELSE IF \E i \in DOMAIN sorted : EntryBytes(sorted[i], FALSE) + 16 > geometry.leafBytes
    THEN Invalid
    ELSE SpillDirectory(sorted, geometry)

SerializeDirectoryIndex(entries, geometry) == SerializeSorted(SortEntries(entries), geometry)

IndexGeometry(clusterBytes, blockBytes, rootBudget) ==
    [blockBytes |-> blockBytes, units |-> VcnUnits(clusterBytes, blockBytes),
     leafBytes |-> LeafBytes(blockBytes), rootBudget |-> rootBudget]

-----------------------------------------------------------------------------
(* The tree of reparse points: keys of one size, so blocks are counted.     *)

ReparseEntryBytes(key, child) == IF child THEN 40 ELSE 32

(* collation_ulongs: the tag first, then the low half of the reference,     *)
(* which is the record, then the sequence.                                  *)
ReparseBefore(a, b) ==
    \/ a.tag < b.tag
    \/ a.tag = b.tag /\ a.file.record < b.file.record
    \/ a.tag = b.tag /\ a.file.record = b.file.record /\ a.file.sequence < b.file.sequence

LeafKeysPerBlock(geometry) == (geometry.leafBytes - 16) \div 32
NodeKeysPerBlock(geometry) == (geometry.leafBytes - 24) \div 40

(* partition_leaves, partition_internal_nodes and spill of the reparse      *)
(* index.                                                                   *)
ReparseLeaves(count, geometry) ==
    PartitionLeaves([i \in 1 .. count |-> 1], LeafKeysPerBlock(geometry), 1)

ReparseTree(sorted, leaves, geometry) ==
    AddLevels(LeafNodes(leaves.groups), [i \in DOMAIN leaves.groups |-> i - 1],
              leaves.separators, [i \in DOMAIN sorted |-> 40], geometry, 0)

SpillReparse(sorted, leaves, geometry) ==
    IF leaves = Invalid THEN Invalid
    ELSE IF ReparseTree(sorted, leaves, geometry) = Invalid THEN Invalid
    ELSE EmitSpilled(ReparseTree(sorted, leaves, geometry), sorted, geometry, 0, "ulongs")

ReparseRootBytes(index) == RootBytes(index, ReparseEntryBytes)

(* serialize_ntfs_reparse_index.                                            *)
SerializeSortedReparse(sorted, geometry) ==
    IF \E i \in 1 .. Len(sorted) - 1 : ~ReparseBefore(sorted[i], sorted[i + 1]) THEN Invalid
    ELSE IF ReparseRootBytes(ResidentIndex(sorted, geometry, 0, "ulongs")) <= geometry.rootBudget
    THEN ResidentIndex(sorted, geometry, 0, "ulongs")
    ELSE SpillReparse(sorted, ReparseLeaves(Len(sorted), geometry), geometry)

SerializeReparseIndex(keys, geometry) ==
    SerializeSortedReparse(SortSeq(keys, ReparseBefore), geometry)

(* read_reparse_index_root, read_reparse_index_block, read_node_entries.    *)
ReadsReparseRoot(value) ==
    /\ value.root = 0 /\ value.collation = "ulongs"
    /\ value.blockBytes > 0 /\ value.blockBytes % SectorBytes = 0
    /\ HasChildren(value.node) => Len(value.node.children) = Len(value.node.keys) + 1

ReadsReparseBlock(sectors, vcn) ==
    /\ FixupsHold(sectors)
    /\ IsBlock(sectors[1].of) /\ sectors[1].part = 1
    /\ sectors[1].of.vcn = vcn
    /\ NodeBytes(sectors[1].of.node, ReparseEntryBytes) <= Len(sectors) * SectorBytes - 24

-----------------------------------------------------------------------------
(* validate_spilled, walk_index_node: the keys in tree order, and the       *)
(* blocks in the order they are reached.                                    *)
RECURSIVE InOrder(_, _)
InOrder(index, node) ==
    IF ~HasChildren(node) THEN [keys |-> node.keys, blocks |-> <<>>]
    ELSE FoldLeft(LAMBDA walk, i :
            LET child == InOrder(index, index.allocation[node.children[i] \div index.root.units + 1].node)
            IN [keys |-> walk.keys \o child.keys \o
                            (IF i <= Len(node.keys) THEN <<node.keys[i]>> ELSE <<>>),
                blocks |-> walk.blocks \o <<node.children[i]>> \o child.blocks],
            [keys |-> <<>>, blocks |-> <<>>], [i \in DOMAIN node.children |-> i])

ValidatedIndex(index, Before(_, _)) ==
    LET walk == InOrder(index, index.root.node)
    IN /\ \A i \in 1 .. Len(walk.keys) - 1 : Before(walk.keys[i], walk.keys[i + 1])
       /\ DistinctBy(walk.blocks, LAMBDA b : b)
       /\ Len(walk.blocks) = Len(index.allocation)
ValidatedDirectoryIndex(index) == ValidatedIndex(index, EntryBefore)
ValidatedReparseIndex(index) == ValidatedIndex(index, ReparseBefore)
=============================================================================
