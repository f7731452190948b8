---------------------------- MODULE EscrowRestore ----------------------------
(***************************************************************************)
(* What a sidecar gives back to the volume it was written with: the NTFS    *)
(* identities of an exFAT candidate (escrow_restore.rs) and the exFAT       *)
(* identities of an NTFS candidate (exfat_escrow_restore.rs). An image's    *)
(* SHA-256 is the image itself: the hash is taken to be injective.          *)
(***************************************************************************)
EXTENDS CrossFormat

(* Mutant: any sidecar of the right direction will do.                      *)
IgnoresBinding(envelope, image, source) == envelope.source = source

(* decode_restore_sidecar and decode_exfat_restore_sidecar.                 *)
DecodesRestoreSidecar(envelope, image, source) ==
    envelope.source = source /\ envelope.candidate = image

-----------------------------------------------------------------------------
RestorableObjects(sidecar) == SelectSeq(sidecar.objects, IsRestorable)

(* reconstruct_dest_native_entries: the names that the export has chosen.   *)
ReconstructEntries(sidecar) ==
    LET objects == SortSeq(RestorableObjects(sidecar),
                           LAMBDA a, b : a.ref.record < b.ref.record)
    IN Disambiguate(Evaluated([i \in DOMAIN objects |->
           SelectDestNative(objects[i].ref.record,
                            ToSet(NormalizeEntries(objects[i])), sidecar)]))

DestPaths(graph) ==
    Evaluated([id \in {o.id : o \in ToSet(graph.objects)} \ {graph.root} |->
        PathOf(graph.entries, graph.root, id)])

Located(paths, path) == {id \in DOMAIN paths : paths[id] = path}

(* match_sidecar_to_dest: objects are matched by path, never by id.         *)
WantedPaths(sidecar, entries) ==
    Evaluated([o \in ToSet(RestorableObjects(sidecar)) |->
        PathOf(entries, RootRecord, o.ref.record)])

Matches(paths, wanted) ==
    /\ \A id, other \in DOMAIN paths : paths[id] = paths[other] => id = other
    /\ \A o \in DOMAIN wanted : Located(paths, wanted[o]) # {}
    /\ \A o, other \in DOMAIN wanted : wanted[o] = wanted[other] => o = other

MatchAccepted(graph, sidecar) ==
    /\ ReconstructEntries(sidecar) # None
    /\ \A o \in ToSet(graph.objects) : HasPath(graph.entries, graph.root, o.id)
    /\ Matches(DestPaths(graph), WantedPaths(sidecar, ReconstructEntries(sidecar)))

MatchSidecar(graph, sidecar) ==
    LET paths == DestPaths(graph)
        entries == ReconstructEntries(sidecar) IN
    Evaluated([record \in {o.ref.record : o \in ToSet(RestorableObjects(sidecar))}
                    \cup {RootRecord} |->
        IF record = RootRecord THEN graph.root
        ELSE CHOOSE id \in DOMAIN paths :
                paths[id] = PathOf(entries, RootRecord, record)])

ObjectIn(graph, id) == CHOOSE o \in ToSet(graph.objects) : o.id = id

(* A carrier that is there must be a plain file of the escrowed length.     *)
CarrierFiles(graph, carrier) == Located(DestPaths(graph), CarrierPath(carrier))

CarrierAccepted(graph, carrier) ==
    \A id \in CarrierFiles(graph, carrier) :
        LET o == ObjectIn(graph, id) IN
        /\ o.kind = "file" /\ Len(o.streams) = 1
        /\ ~o.streams[1].named /\ o.streams[1].logical = carrier.length

RemovedObjects(graph, sidecar) ==
    LET files == UNION {CarrierFiles(graph, c) : c \in ToSet(SidecarCarriers(sidecar))} IN
    IF files = {} THEN {}
    ELSE files \cup Located(DestPaths(graph), <<CarrierDirectoryName>>)

(* remove_escrow_carriers: nothing else may live in the directory.          *)
RemovalAccepted(graph, sidecar) ==
    LET removed == RemovedObjects(graph, sidecar) IN
    \A e \in ToSet(graph.entries) : e.parent \in removed => e.target \in removed

-----------------------------------------------------------------------------
(* restore_named_streams, one stream.                                       *)
StreamRestorable(graph, sidecar, source, stream) ==
    stream.name = Unnamed
    \/ /\ ~stream.encrypted /\ ~source.directory
       /\ IF NeedsCarrier(stream)
          THEN \E c \in ToSet(SidecarCarriers(sidecar)) :
                  /\ c.owner = source.ref.record /\ c.attribute = stream.attribute
                  /\ CarrierFiles(graph, c) # {}
          ELSE ~stream.compressed /\ ~stream.sparse

(* Mutant: a captured payload is not extended to the stream's length.       *)
KeepsInitializedPrefix(stream) == SubSeq(stream.data, 1, stream.valid)

(* restore_captured_named_payload: what was captured, then zeros.           *)
CapturedPayload(stream) ==
    [i \in DOMAIN stream.data |-> IF i <= stream.valid THEN stream.data[i] ELSE 0]

RestoredBytes(stream) ==
    IF stream.resident THEN stream.data ELSE CapturedPayload(stream)

ResidentStream(id, name, bytes) ==
    [id |-> id, name |-> name, named |-> TRUE, logical |-> Len(bytes),
     initialized |-> Len(bytes), mapped |-> Len(bytes), allocated |-> 0,
     resident |-> TRUE, data |-> bytes, sparse |-> FALSE, compressed |-> FALSE,
     encrypted |-> FALSE]

RestoreStream(graph, record, stream) ==
    IF NeedsCarrier(stream)
    THEN LET path == <<CarrierDirectoryName, CarrierFileName(record, stream.attribute)>>
             file == CHOOSE id \in Located(DestPaths(graph), path) : TRUE
         IN [ObjectIn(graph, file).streams[1] EXCEPT !.name = stream.name, !.named = TRUE]
    ELSE ResidentStream(StreamId(record, stream.attribute), stream.name,
                        RestoredBytes(stream))

RestoredStreams(graph, source) ==
    LET named == SelectSeq(source.streams, LAMBDA s : s.name # Unnamed)
    IN [k \in DOMAIN named |-> RestoreStream(graph, source.ref.record, named[k])]

(* restore_security_descriptor: inline bytes, or what a parsed $SDS proves. *)
RestoredDescriptor(source, evidence) ==
    IF source.secured THEN source.descriptor
    ELSE IF source.standard.security \notin {None, 0} /\ evidence.kind = "parsed"
    THEN Resolve(evidence, source.standard.security) ELSE None

SecurityRestorable(source, evidence) ==
    LET needed == \/ source.secured
                  \/ source.standard.security \notin {None, 0} /\ evidence.kind = "parsed"
    IN needed => /\ RestoredDescriptor(source, evidence) # None
                 /\ ValidDescriptor(RestoredDescriptor(source, evidence))

ObjectRestorable(graph, sidecar, match, source) ==
    /\ (ObjectIn(graph, match[source.ref.record]).kind = "dir")
           <=> source.directory
    /\ \A s \in ToSet(source.streams) : StreamRestorable(graph, sidecar, source, s)
    /\ source.reparse => CompleteReparse(source)
    /\ SecurityRestorable(source, sidecar.evidence)
    /\ source.standard # None

(* restore_namespace_entries: every link name that is not there yet.        *)
RestoredEntries(graph, sidecar, match) ==
    LET Links(o) == LET own == NormalizeEntries(o) IN
            [k \in DOMAIN own |-> [parent |-> match[own[k].parent],
                                   target |-> match[own[k].target], name |-> own[k].name]]
        objects == RestorableObjects(sidecar)
        links == FlattenSeq([i \in DOMAIN objects |-> Links(objects[i])])
        removed == RemovedObjects(graph, sidecar)
        kept == SelectSeq(graph.entries, LAMBDA e : e.target \notin removed)
    IN Evaluated(kept \o SelectSeq(links, LAMBDA e : e \notin ToSet(kept)))

(* restore_ntfs_identities_with_evidence.                                   *)
RestoredGraph(graph, sidecar, match, entries) ==
    LET removed == RemovedObjects(graph, sidecar)
        kept == SelectSeq(graph.objects, LAMBDA o : o.id \notin removed)
        Source(o) == {s \in ToSet(RestorableObjects(sidecar)) : match[s.ref.record] = o.id}
        Restore(o) ==
            IF Source(o) = {} THEN [o EXCEPT !.links = LinksTo(entries, o.id)]
            ELSE LET source == CHOOSE s \in Source(o) : TRUE IN
                 [o EXCEPT !.links = LinksTo(entries, o.id),
                           !.streams = @ \o RestoredStreams(graph, source),
                           !.reparse = source.reparse]
    IN Evaluated([root |-> graph.root,
        objects |-> [i \in DOMAIN kept |-> Restore(kept[i])],
        entries |-> entries, extents |-> graph.extents])

RestoreNtfs(graph, sidecar, match) ==
    RestoredGraph(graph, sidecar, match, RestoredEntries(graph, sidecar, match))

RestoresNtfs(graph, sidecar, match, restored) ==
    /\ MatchAccepted(graph, sidecar)
    /\ \A c \in ToSet(SidecarCarriers(sidecar)) : CarrierAccepted(graph, c)
    /\ \A s \in ToSet(RestorableObjects(sidecar)) : ObjectRestorable(graph, sidecar, match, s)
    /\ SecurityRestorable(Find(sidecar.objects, RootRecord), sidecar.evidence)
    /\ RemovalAccepted(graph, sidecar)
    /\ GraphAccepted(restored, NoLimits(restored)) /\ NtfsWriterAccepts(restored)

(* object_metadata of the NTFS writer: the read-write identifier, or none   *)
(* beside an inline descriptor.                                             *)
WritableSecurity(metadata) ==
    \A id \in DOMAIN metadata : metadata[id].security \in {ReadWriteId, 0}

(* restore_ntfs_object_metadata: exact times; flags that the destination    *)
(* streams no longer have are cleared, the directory bit follows the kind.  *)
RestoredAttributes(source, object) ==
    (source.standard.attributes
        \ ({"directory", "reparse", "compressed", "encrypted"}
            \cup (IF \E s \in ToSet(object.streams) : s.sparse THEN {} ELSE {"sparse"})))
        \cup (IF object.kind = "dir" THEN {"directory"} ELSE {})

(* Mutant: a source identifier is kept whatever $Secure it belongs to.      *)
KeepsEveryIdentifier(source, evidence, plain) ==
    IF source.standard.security \in {None, 0} THEN plain ELSE source.standard.security

(* Without a restored descriptor the drafted identifier stays; with one, an *)
(* identifier is kept only if the pinned profile gives it a meaning.        *)
RestoredSecurityId(source, evidence, plain) ==
    CASE RestoredDescriptor(source, evidence) = None -> plain
      [] evidence.kind = "pinned" /\ source.standard.security \in {256, 257} ->
            source.standard.security
      [] OTHER -> 0

RestoreNtfsMetadata(graph, sidecar, match, plain, restored) ==
    LET Source(id) == {s \in ToSet(sidecar.objects) :
                          s.ref.record \in DOMAIN match /\ match[s.ref.record] = id} IN
    [id \in DOMAIN plain \ RemovedObjects(graph, sidecar) |->
        IF Source(id) = {} THEN plain[id]
        ELSE LET source == CHOOSE s \in Source(id) : TRUE IN
             [attributes |-> RestoredAttributes(source, ObjectIn(restored, id)),
              times |-> source.standard.times,
              security |-> RestoredSecurityId(source, sidecar.evidence,
                                              plain[id].security)]]

-----------------------------------------------------------------------------
(* reproduce_upcase_table: the recommended table, or one that re-encodes to *)
(* the recorded checksum.                                                   *)
TableReproducible(sidecar) == sidecar.table \in {"recommended", "compressed", "literal"}

(* restore_exfat_identities.                                                *)
RestoresExfat(graph, sidecar) ==
    LET paths == DestPaths(graph)
        named == {o \in ToSet(sidecar.objects) : o.path # <<>>} IN
    /\ sidecar.benign = 0
    /\ TableReproducible(sidecar)
    /\ \A o \in ToSet(graph.objects) : HasPath(graph.entries, graph.root, o.id)
    /\ \A o \in named :
          /\ Located(paths, o.path) # {} /\ o.times # None
          /\ \A id \in Located(paths, o.path) :
                (ObjectIn(graph, id).kind = "dir") <=> "directory" \in o.attributes
    /\ \A o, other \in named : o.path = other.path => o = other

(* Mutant: what the NTFS volume says of its objects is kept.                *)
KeepsDraftedMetadata(graph, sidecar, plain) == plain

RestoredExfatMetadata(graph, sidecar, plain) ==
    LET paths == DestPaths(graph)
        Known(id) == {o \in ToSet(sidecar.objects) : o.path = paths[id]} IN
    [id \in DOMAIN plain |->
        IF Known(id) = {} THEN plain[id]
        ELSE LET o == CHOOSE o \in Known(id) : TRUE
             IN [attributes |-> o.attributes, times |-> o.times]]

(* The label of the escrow when it is exact, else the one NTFS has.         *)
RestoredExfatVolume(sidecar, plain) ==
    LET label == IF sidecar.label = Unavailable THEN plain.label ELSE sidecar.label IN
    [plain EXCEPT !.label = label, !.labels = IF label = None THEN 0 ELSE 1,
                  !.serial = sidecar.serial, !.table = sidecar.table]
=============================================================================
