----------------------------- MODULE Normalize -------------------------------
(***************************************************************************)
(* From an inventory to the neutral graph and the sidecar that keeps what   *)
(* the graph cannot say (ntfs_normalize.rs, exfat_normalize.rs), and the    *)
(* inventory of a freshly written exFAT volume.                             *)
(*                                                                         *)
(* An NTFS object is a base FILE record: [ref, directory,                   *)
(* metadata, standard, links, names, streams, reparse, payload, secured,    *)
(* descriptor, census, indexed, index]. A reference is [record, sequence];  *)
(* a name is [parent, name, space]; a stream is [attribute, name, resident, *)
(* complete, data, valid, captured, extents, sparse, compressed, encrypted] *)
(* with name = Unnamed for the default stream and data its logical bytes.   *)
(* An exFAT object is [stream, parent, kind, name, path, attributes, times, *)
(* data, valid]; parent and times are None at the root.                     *)
(***************************************************************************)
EXTENDS ObjectGraph

CONSTANTS MaxDirectoryEntries,     \* NtfsNormalizeLimits
          MaxPreservationBytes,
          MaxExtents,
          MaxLabel,                \* NTFS_VOLUME_LABEL_MAX_CODE_UNITS
          None,                    \* an absent value
          Unavailable              \* evidence that could not be read

RootRecord == 5
ExtendRecord == 11
BadclusRecord == 8
Unnamed == 0

(* A stream id is the record shifted by the width of an attribute id.       *)
StreamId(record, attribute) == record * 16 + attribute

IsGraphRecord(object) ==
    \/ object.ref.record = RootRecord
    \/ ~object.metadata /\ object.ref.record # ExtendRecord

GraphRecords(inventory) == SelectSeq(inventory.objects, IsGraphRecord)

Complete(inventory) ==
    /\ inventory.objects # <<>>
    /\ inventory.incomplete = {}
    /\ inventory.scanned = inventory.initialized
    /\ inventory.base = Len(inventory.objects)

LabelAccepted(inventory) ==
    /\ inventory.label # Unavailable
    /\ inventory.label # None => Len(inventory.label) <= MaxLabel

RecordsIndexed(inventory) == DistinctBy(inventory.objects, LAMBDA o : o.ref.record)

Find(objects, record) == CHOOSE o \in ToSet(objects) : o.ref.record = record
Has(objects, record) == \E o \in ToSet(objects) : o.ref.record = record

(* validate_records: flags agree with the record, the link count with the   *)
(* names, and every parent is a live directory of the same generation.      *)
ValidRecord(records, object) ==
    /\ object.standard # None
    /\ "directory" \in object.standard.attributes => object.directory
    /\ "reparse" \in object.standard.attributes <=> object.reparse
    /\ object.directory => object.indexed
    /\ object.names # <<>>
    /\ object.links = Len(object.names)
    /\ \A n \in ToSet(object.names) :
          /\ Has(records, n.parent.record)
          /\ LET parent == Find(records, n.parent.record) IN
             parent.ref = n.parent /\ parent.directory

DirectoryKey(target, name) ==
    <<target, name.parent, name.space, name.name>>

(* How often each element occurs: the multisets of expected and observed.   *)
Occurrences(seq) ==
    [x \in ToSet(seq) |-> Cardinality({i \in DOMAIN seq : seq[i] = x})]

ExpectedEntries(records) ==
    FlattenSeq([i \in DOMAIN records |->
        LET own == IF records[i].ref.record = RootRecord
                   THEN SelectSeq(records[i].names, LAMBDA n : n.parent # records[i].ref)
                   ELSE records[i].names
        IN [k \in DOMAIN own |-> DirectoryKey(records[i].ref, own[k])]])

(* Entries of other targets are skipped; the root's own dot may be indexed. *)
GraphEntries(records, directory) ==
    SelectSeq(directory.index, LAMBDA e : Has(records, e.target.record))

IsRootDot(directory, entry) ==
    directory.ref.record = RootRecord /\ entry.target = directory.ref

ObservedEntries(records) ==
    FlattenSeq([i \in DOMAIN records |->
        LET own == SelectSeq(GraphEntries(records, records[i]),
                             LAMBDA e : ~IsRootDot(records[i], e))
        IN [k \in DOMAIN own |-> DirectoryKey(own[k].target, own[k].name)]])

ValidDirectoryEvidence(records) ==
    /\ SumOf(records, LAMBDA d : Len(GraphEntries(records, d))) <= MaxDirectoryEntries
    /\ \A d \in ToSet(records) : \A e \in ToSet(GraphEntries(records, d)) :
          LET target == Find(records, e.target.record) IN
          /\ e.name.parent = d.ref
          /\ e.target = target.ref
          /\ IsRootDot(d, e) => \E n \in ToSet(target.names) :
                DirectoryKey(target.ref, n) = DirectoryKey(e.target, e.name)
    /\ Occurrences(ExpectedEntries(records)) = Occurrences(ObservedEntries(records))

-----------------------------------------------------------------------------
(* normalize_stream_extents: in logical order without gaps; holes only in a *)
(* sparse or a compressed stream.                                           *)
ValidInventoryExtents(record, stream) ==
    /\ \A i \in DOMAIN stream.extents :
          /\ stream.extents[i].stream = StreamId(record, stream.attribute)
          /\ stream.extents[i].length > 0
          /\ stream.extents[i].logical =
                SumOf(SubSeq(stream.extents, 1, i - 1), LAMBDA e : e.length)
          /\ ~IsPhysical(stream.extents[i]) => stream.sparse \/ stream.compressed

MappedBytes(stream) == SumOf(stream.extents, LAMBDA e : e.length)
PhysicalBytes(stream) == SumOf(PhysicalExtents(stream.extents), LAMBDA e : e.length)

StreamAccepted(record, stream) ==
    /\ ~(stream.compressed /\ stream.encrypted)
    /\ IF stream.resident
       THEN ~stream.compressed /\ ~stream.encrypted /\ ~stream.sparse
       ELSE /\ stream.complete
            /\ ValidInventoryExtents(record, stream)
            /\ stream.valid <= Len(stream.data)
            /\ Len(stream.data) <= MappedBytes(stream)
            /\ PhysicalBytes(stream) = stream.allocated

NormalizeStream(record, stream) ==
    [id |-> StreamId(record, stream.attribute), name |-> stream.name,
     named |-> stream.name # Unnamed, logical |-> Len(stream.data),
     initialized |-> IF stream.resident THEN Len(stream.data) ELSE stream.valid,
     mapped |-> IF stream.resident THEN Len(stream.data) ELSE MappedBytes(stream),
     allocated |-> IF stream.resident THEN 0 ELSE stream.allocated,
     resident |-> stream.resident, data |-> stream.data,
     sparse |-> stream.sparse, compressed |-> stream.compressed,
     encrypted |-> stream.encrypted]

(* Every extent of a stream is in the inventory's list, and no other.       *)
ExtentsMatch(inventory) ==
    Occurrences(inventory.extents) =
        Occurrences(FlattenSeq([i \in DOMAIN inventory.objects |->
            LET streams == inventory.objects[i].streams IN
            FlattenSeq([k \in DOMAIN streams |->
                IF streams[k].resident THEN <<>> ELSE streams[k].extents])]))

(* A DOS name beside a Win32 name of the same parent is an alias.           *)
IsDosShortNameCompanion(name, names) ==
    /\ name.space = "dos"
    /\ \E other \in ToSet(names) :
          other.parent = name.parent /\ other.space \in {"win32", "both"}

LinkNames(object) ==
    SelectSeq(object.names, LAMBDA n : ~IsDosShortNameCompanion(n, object.names))

NormalizeEntries(object) ==
    IF object.ref.record = RootRecord THEN <<>>
    ELSE [k \in DOMAIN LinkNames(object) |->
             [parent |-> LinkNames(object)[k].parent.record,
              target |-> object.ref.record, name |-> LinkNames(object)[k].name]]

NormalizeObject(object) ==
    [id |-> object.ref.record,
     kind |-> IF object.directory THEN "dir" ELSE "file",
     links |-> Len(NormalizeEntries(object)),
     secured |-> object.standard.security # None \/ object.secured
                 \/ "descriptor" \in object.census,
     reparse |-> object.reparse,
     streams |-> [k \in DOMAIN object.streams |->
                     NormalizeStream(object.ref.record, object.streams[k])]]

StreamsAccepted(object) ==
    /\ DistinctBy(object.streams, LAMBDA s : s.name)
    /\ DistinctBy(object.streams, LAMBDA s : s.attribute)
    /\ \A s \in ToSet(object.streams) : StreamAccepted(object.ref.record, s)

(* Bytes the sidecar keeps: names (as units of 1) and captured payloads.    *)
PreservationBytes(inventory) ==
    SumOf(inventory.objects, LAMBDA o :
        Len(o.names) + Len(o.index)
            + SumOf(o.streams, LAMBDA s :
                  (IF s.name = Unnamed THEN 0 ELSE 1)
                      + (IF s.resident \/ s.captured THEN Len(s.data) ELSE 0)))

(* resolve: the descriptor proven for an identifier of $Secure.             *)
Resolve(evidence, id) ==
    CASE evidence.kind = "unavailable" -> None
      [] evidence.kind = "pinned" ->
            (CASE id = 256 -> "pinned-256" [] id = 257 -> "pinned-257" [] OTHER -> None)
      [] OTHER -> IF id \in DOMAIN evidence.descriptors
                  THEN evidence.descriptors[id] ELSE None

GraphOf(inventory, volume) ==
    LET records == GraphRecords(inventory)
        ids == UNION {{StreamId(o.ref.record, s.attribute) : s \in ToSet(o.streams)} :
                         o \in ToSet(records)}
    IN Evaluated(
       [root |-> RootRecord,
        objects |-> [i \in DOMAIN records |-> NormalizeObject(records[i])],
        entries |-> FlattenSeq([i \in DOMAIN records |-> NormalizeEntries(records[i])]),
        extents |-> SelectSeq(inventory.extents, LAMBDA e : e.stream \in ids),
        volume |-> volume])

NoLimits(graph) ==
    [objects |-> Len(graph.objects), entries |-> Len(graph.entries),
     streams |-> Len(StreamsOf(graph.objects))]

(* normalize_inventory: what is refused.                                    *)
NtfsNormalizes(inventory, volume) ==
    LET records == GraphRecords(inventory)
        graph == GraphOf(inventory, volume) IN
    /\ Complete(inventory) /\ LabelAccepted(inventory) /\ RecordsIndexed(inventory)
    /\ Has(records, RootRecord) /\ Find(records, RootRecord).directory
    /\ PreservationBytes(inventory) <= MaxPreservationBytes
    /\ \A o \in ToSet(records) : ValidRecord(records, o) /\ StreamsAccepted(o)
    /\ ValidDirectoryEvidence(records)
    /\ \A n \in ToSet(Find(records, RootRecord).names) :
          n.parent = Find(records, RootRecord).ref
    /\ ExtentsMatch(inventory)
    /\ ExtentsAccepted(graph.extents, volume, MaxExtents)
    /\ GraphAccepted(graph, NoLimits(graph))

(* The sidecar keeps every object, the system records included.             *)
SidecarOf(inventory) ==
    [objects |-> inventory.objects, label |-> inventory.label,
     serial |-> inventory.serial, evidence |-> inventory.evidence,
     extents |-> inventory.extents]

-----------------------------------------------------------------------------
(* exFAT.                                                                   *)

(* The order of two names, unit by unit.                                    *)
NameBefore(name, other) ==
    \E i \in DOMAIN other :
        /\ \A j \in 1 .. i - 1 : j <= Len(name) /\ name[j] = other[j]
        /\ i <= Len(name) => name[i] < other[i]

(* Children in the order of their names (layouts_name_order).               *)
ChildEntries(graph, id) ==
    SortSeq(SelectSeq(graph.entries, LAMBDA e : e.parent = id),
            LAMBDA a, b : NameBefore(a.name, b.name))

(* The inventory walks the directories breadth first: the objects it has    *)
(* numbered are the queue.                                                  *)
BreadthFirst(graph) ==
    FoldLeft(LAMBDA order, i :
                 IF i > Len(order) THEN order
                 ELSE LET children == ChildEntries(graph, order[i])
                      IN order \o [k \in DOMAIN children |-> children[k].target],
             <<graph.root>>, [i \in DOMAIN graph.objects |-> i])

PathOf(entries, root, id) ==
    LET EntryOf(target) == CHOOSE e \in ToSet(entries) : e.target = target
        Step(walk, i) == IF walk.at = root THEN walk
                         ELSE [at |-> EntryOf(walk.at).parent,
                               path |-> <<EntryOf(walk.at).name>> \o walk.path]
    IN FoldLeft(Step, [at |-> id, path |-> <<>>], [i \in 1 .. Len(entries) |-> i]).path

(* A walk that ends at the root with one name per step.                     *)
HasPath(entries, root, id) ==
    LET parents == [t \in {e.target : e \in ToSet(entries)} |->
                        {e.parent : e \in {e \in ToSet(entries) : e.target = t}}] IN
    /\ \A t \in DOMAIN parents : LinksTo(entries, t) <= 1
    /\ id = root \/ id \in Within(entries, {root}, Len(entries))

(* What inventory_image reads back from a volume with these objects: paths, *)
(* attributes and times as the directory entries hold them.                 *)
ExfatInventoryOf(graph, metadata, volume) ==
    LET order == BreadthFirst(graph)
        Object(id) == CHOOSE o \in ToSet(graph.objects) : o.id = id
        Number(id) == CHOOSE i \in DOMAIN order : order[i] = id
        Entry(id) == CHOOSE e \in ToSet(graph.entries) : e.target = id
        Data(id) == IF Object(id).streams = <<>> THEN <<>> ELSE Object(id).streams[1].data
    IN Evaluated([objects |->
          [i \in DOMAIN order |->
             LET id == order[i] IN
             IF id = graph.root
             THEN [stream |-> 1, parent |-> None, kind |-> "root", name |-> None,
                   path |-> <<>>, attributes |-> {"directory"}, times |-> None,
                   data |-> <<>>]
             ELSE [stream |-> i, parent |-> Number(Entry(id).parent),
                   kind |-> Object(id).kind, name |-> Entry(id).name,
                   path |-> PathOf(graph.entries, graph.root, id),
                   attributes |-> metadata[id].attributes,
                   times |-> metadata[id].times, data |-> Data(id)]],
        label |-> volume.label, labels |-> volume.labels, padded |-> volume.padded,
        serial |-> volume.serial, table |-> volume.table,
        benign |-> volume.benign, benignCaptured |-> volume.benignCaptured,
        badClusters |-> volume.badClusters, badExtents |-> volume.badExtents,
        metadataExtents |-> volume.metadataExtents])

-----------------------------------------------------------------------------
(* A label entry with dirty padding keeps no label.                         *)
ValidVolumeIdentity(inventory) ==
    CASE inventory.labels = 0 -> inventory.label = None /\ ~inventory.padded
      [] inventory.labels = 1 -> (inventory.label = None) <=> inventory.padded
      [] OTHER -> FALSE

ValidRoot(inventory) ==
    LET roots == SelectSeq(inventory.objects, LAMBDA o : o.kind = "root") IN
    /\ Len(roots) = 1
    /\ roots[1].parent = None /\ roots[1].path = <<>> /\ roots[1].times = None
    /\ "directory" \in roots[1].attributes

ValidHierarchy(inventory) ==
    \A o \in ToSet(inventory.objects) : o.kind # "root" =>
        /\ o.parent # None /\ o.parent # o.stream
        /\ o.name # None /\ o.times # None
        /\ "directory" \in o.attributes <=> o.kind = "dir"
        /\ \E p \in ToSet(inventory.objects) :
              /\ p.stream = o.parent /\ p.kind # "file"
              /\ o.path = Append(p.path, o.name)

(* Object ids are dense, in inventory order.                                *)
ObjectIdOf(inventory, stream) ==
    CHOOSE i \in DOMAIN inventory.objects : inventory.objects[i].stream = stream

NormalizeExfatStream(object) ==
    [id |-> object.stream, name |-> Unnamed, named |-> FALSE,
     logical |-> Len(object.data), initialized |-> Len(object.data),
     mapped |-> AlignUp(Len(object.data), 2),
     allocated |-> AlignUp(Len(object.data), 2),
     resident |-> FALSE, data |-> object.data,
     sparse |-> FALSE, compressed |-> FALSE, encrypted |-> FALSE]

ExfatGraphOf(inventory) ==
    LET objects == inventory.objects
        placed == SelectSeq(objects, LAMBDA o : o.kind = "file" /\ o.data # <<>>)
        named == SelectSeq(objects, LAMBDA o : o.kind # "root") IN
    Evaluated([root |-> ObjectIdOf(inventory, 1),
     objects |-> [i \in DOMAIN objects |->
        [id |-> i, kind |-> IF objects[i].kind = "file" THEN "file" ELSE "dir",
         links |-> IF objects[i].kind = "root" THEN 0 ELSE 1,
         secured |-> FALSE, reparse |-> FALSE,
         streams |-> IF objects[i].kind = "file"
                     THEN <<NormalizeExfatStream(objects[i])>> ELSE <<>>]],
     entries |-> [k \in DOMAIN named |->
        [parent |-> ObjectIdOf(inventory, named[k].parent),
         target |-> ObjectIdOf(inventory, named[k].stream), name |-> named[k].name]],
     extents |-> [k \in DOMAIN placed |->
        [stream |-> placed[k].stream, logical |-> 0,
         length |-> AlignUp(Len(placed[k].data), 2),
         at |-> SumOf(SubSeq(placed, 1, k - 1), LAMBDA o : AlignUp(Len(o.data), 2)),
         kind |-> "file"]]])

ExfatNormalizes(inventory, volume) ==
    LET graph == ExfatGraphOf(inventory) IN
    /\ inventory.objects # <<>>
    /\ ValidVolumeIdentity(inventory)
    /\ DistinctBy(inventory.objects, LAMBDA o : o.stream)
    /\ ValidRoot(inventory) /\ ValidHierarchy(inventory)
    /\ inventory.benign > 0 => inventory.benignCaptured
    /\ ExtentsAccepted(graph.extents, volume, MaxExtents)
    /\ GraphAccepted(graph, NoLimits(graph))

ExfatSidecarOf(inventory) ==
    [objects |-> inventory.objects, serial |-> inventory.serial,
     label |-> IF inventory.labels = 1 /\ inventory.padded
               THEN Unavailable ELSE inventory.label,
     table |-> inventory.table, padded |-> inventory.padded,
     benign |-> inventory.benign, benignCaptured |-> inventory.benignCaptured,
     badClusters |-> inventory.badClusters, badExtents |-> inventory.badExtents,
     metadataExtents |-> inventory.metadataExtents]
=============================================================================
