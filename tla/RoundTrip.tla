------------------------------ MODULE RoundTrip ------------------------------
(***************************************************************************)
(* A volume is exported to the other format with an escrow sidecar, the     *)
(* candidate may be edited, and it is exported back with that sidecar.      *)
(***************************************************************************)
EXTENDS EscrowRestore

CONSTANTS NtfsSources,      \* inventories of NTFS volumes
          ExfatSources,     \* graphs with metadata and volume of exFAT ones
          Moments,          \* FILETIMEs
          MaxEdits          \* edits of a candidate

ASSUME MomentAssumption == Moments \subseteq Filetimes

VARIABLES source,           \* the inventory that was exported
          from,             \* its filesystem
          step,             \* "source", "exported", "returned" or "refused"
          candidate,        \* inventory of the exported image
          escrow,           \* the envelope beside it
          returned,         \* the volume written by the way back
          edits

vars == <<source, from, step, candidate, escrow, returned, edits>>

Capacity == 64              \* bytes of every volume

NoEscrow == [source |-> "none", candidate |-> None, snapshot |-> <<>>]

Init ==
    /\ \/ from = "ntfs" /\ source \in NtfsSources
       \/ from = "exfat" /\ source \in {ExfatInventoryOf(s.graph, s.metadata, s.volume) :
                                           s \in ExfatSources}
       \/ from = "time" /\ source \in Moments
    /\ step = "source" /\ candidate = None /\ escrow = NoEscrow
    /\ returned = None /\ edits = 0

Refuse ==
    /\ step' = "refused"
    /\ UNCHANGED <<source, from, candidate, escrow, returned, edits>>

(* The NTFS writer numbers the records after its reserved ones; user names  *)
(* are POSIX names.                                                         *)
FirstUserRecord == 27
WrittenRecord(graph, id) ==
    IF id = graph.root THEN RootRecord
    ELSE FirstUserRecord + Cardinality({o \in ToSet(graph.objects) :
                                           o.id # graph.root /\ o.id < id})

WrittenGraph(graph) ==
    [graph EXCEPT
        !.root = RootRecord,
        !.objects = [i \in DOMAIN @ |->
                        [@[i] EXCEPT !.id = WrittenRecord(graph, @)]],
        !.entries = [i \in DOMAIN @ |->
                        [@[i] EXCEPT !.parent = WrittenRecord(graph, @),
                                     !.target = WrittenRecord(graph, @)]]]

(* $BadClus: its $Bad stream spans the volume as a hole but for bad runs.   *)
BadClusters(runs) ==
    [ref |-> [record |-> BadclusRecord, sequence |-> 8], directory |-> FALSE,
     metadata |-> TRUE, standard |-> None, names |-> <<>>, links |-> 1,
     streams |-> <<[attribute |-> 1, name |-> BadName, resident |-> FALSE,
                    complete |-> TRUE, data |-> <<0>>, valid |-> 0, captured |-> FALSE,
                    extents |-> runs, allocated |-> 0, sparse |-> TRUE,
                    compressed |-> FALSE, encrypted |-> FALSE]>>,
     reparse |-> FALSE, payload |-> None, secured |-> FALSE, descriptor |-> None,
     census |-> {"plain"}, indexed |-> FALSE, index |-> <<>>]

WholeHole(record) ==
    <<[stream |-> StreamId(record, 1), logical |-> 0, length |-> Capacity,
       at |-> Sparse, kind |-> "file"]>>

(* What is read back of an NTFS candidate: its graph and, in the sidecar,   *)
(* the names, times and descriptors of its records.                         *)
ReadBack(graph, metadata, label, serial) ==
    LET written == WrittenGraph(graph)
        Id(record) == CHOOSE o \in ToSet(graph.objects) : WrittenRecord(graph, o.id) = record
        Names(record) == SelectSeq(written.entries, LAMBDA e : e.target = record)
        Object(o) ==
            [ref |-> [record |-> o.id, sequence |-> 1], directory |-> o.kind = "dir",
             metadata |-> FALSE, names |->
                IF o.id = RootRecord THEN <<>>
                ELSE [k \in DOMAIN Names(o.id) |->
                        [parent |-> [record |-> Names(o.id)[k].parent, sequence |-> 1],
                         name |-> Names(o.id)[k].name, space |-> "posix"]],
             standard |-> [attributes |-> metadata[Id(o.id).id].attributes,
                           times |-> metadata[Id(o.id).id].times,
                           security |-> metadata[Id(o.id).id].security],
             streams |-> <<>>, reparse |-> FALSE, payload |-> None, secured |-> FALSE,
             descriptor |-> None, census |-> {"plain"}]
    IN [graph |-> written, label |-> label, serial |-> serial,
        sidecar |-> [objects |-> [i \in DOMAIN written.objects |->
                                     Object(written.objects[i])]
                                 \o <<BadClusters(WholeHole(BadclusRecord))>>,
                     label |-> label, serial |-> serial,
                     evidence |-> [kind |-> "pinned"], extents |-> <<>>]]

(* draft_lossless_ntfs_to_exfat, written, read back and bound to a sidecar, *)
(* which the export decodes before it publishes it.                         *)
ExportNtfs ==
    /\ from = "ntfs" /\ step = "source"
    /\ LET graph == GraphOf(source, Capacity)
           sidecar == SidecarOf(source)
           snapshot == EncodeNtfsSidecar(sidecar, CurrentLayout) IN
       IF /\ NtfsNormalizes(source, Capacity) /\ DraftsExfat(graph, sidecar, "escrow")
          /\ AcceptsEscrow("ntfs", snapshot)
       THEN /\ step' = "exported"
            /\ candidate' = ExfatInventoryOf(ProjectNtfs(graph, sidecar),
                                            NtfsToExfatMetadata(graph, sidecar),
                                            DraftedExfatVolume(sidecar))
            /\ escrow' = [source |-> "ntfs", candidate |-> candidate', snapshot |-> snapshot]
            /\ UNCHANGED <<source, from, returned, edits>>
       ELSE Refuse

(* draft_lossless_exfat_to_ntfs, likewise.                                  *)
ExportExfat ==
    /\ from = "exfat" /\ step = "source"
    /\ LET graph == ExfatGraphOf(source)
           snapshot == EncodeExfatSidecar(ExfatSidecarOf(source), CurrentExfatVersion) IN
       IF /\ ExfatNormalizes(source, Capacity) /\ DraftsNtfs(source, "escrow")
          /\ AcceptsEscrow("exfat", snapshot)
       THEN
            /\ step' = "exported"
            /\ candidate' = ReadBack(ProjectExfat(graph), ExfatToNtfsMetadata(graph, source),
                                    source.label, <<source.serial, 0>>)
            /\ escrow' = [source |-> "exfat", candidate |-> candidate',
                          snapshot |-> snapshot]
            /\ UNCHANGED <<source, from, returned, edits>>
       ELSE Refuse

-----------------------------------------------------------------------------
(* Between the two exports the candidate is an ordinary volume: two files   *)
(* of a directory change names, or a file is rewritten.                     *)
SwapNames(i, j) ==
    /\ candidate.objects[i].parent = candidate.objects[j].parent
    /\ candidate' = [candidate EXCEPT
          !.objects[i].name = candidate.objects[j].name,
          !.objects[i].path = candidate.objects[j].path,
          !.objects[j].name = candidate.objects[i].name,
          !.objects[j].path = candidate.objects[i].path]

(* The sidecar may also have been written by an older release.              *)
OlderRelease ==
    /\ step = "exported" /\ edits = 0
    /\ \/ /\ from = "ntfs" /\ escrow.snapshot[1].value = CurrentLayout.version
          /\ \E layout \in Layouts \ {CurrentLayout} :
                escrow' = [escrow EXCEPT
                              !.snapshot = EncodeNtfsSidecar(SidecarOf(source), layout)]
       \/ /\ from = "exfat" /\ escrow.snapshot[1].value = CurrentExfatVersion
          /\ escrow' = [escrow EXCEPT
                            !.snapshot = EncodeExfatSidecar(ExfatSidecarOf(source), 2)]
    /\ UNCHANGED <<source, from, step, candidate, returned, edits>>

Edit ==
    /\ from = "ntfs" /\ step = "exported" /\ edits < MaxEdits
    /\ \E i, j \in DOMAIN candidate.objects :
          /\ i < j /\ candidate.objects[i].kind = "file" /\ candidate.objects[j].kind = "file"
          /\ SwapNames(i, j)
    /\ edits' = edits + 1
    /\ UNCHANGED <<source, from, step, escrow, returned>>

(* draft_escrow_restored_exfat_to_ntfs: the restored graph and its metadata *)
(* are returned once all of it is accepted.                                 *)
ReturnRestored(graph, sidecar, match, restored, metadata) ==
    IF RestoresNtfs(graph, sidecar, match, restored) /\ WritableSecurity(metadata)
    THEN /\ step' = "returned"
         /\ returned' = [graph |-> restored, metadata |-> metadata, match |-> match,
                         label |-> sidecar.label, serial |-> sidecar.serial]
         /\ UNCHANGED <<source, from, candidate, escrow, edits>>
    ELSE Refuse

ReturnWithMetadata(graph, sidecar, match, restored) ==
    ReturnRestored(graph, sidecar, match, restored,
        RestoreNtfsMetadata(graph, sidecar, match, ExfatToNtfsMetadata(graph, candidate),
                            restored))

ReturnMatched(graph, sidecar, match) ==
    ReturnWithMetadata(graph, sidecar, match, RestoreNtfs(graph, sidecar, match))

ReturnToNtfs ==
    /\ from = "ntfs" /\ step = "exported"
    /\ \E sidecar \in {DecodeNtfsSidecar(escrow.snapshot)} :
       IF /\ DecodesRestoreSidecar(escrow, candidate, "ntfs")
          /\ sidecar # None
          /\ ExfatNormalizes(candidate, Capacity) /\ DraftsNtfs(candidate, "escrow")
       THEN LET graph == ProjectExfat(ExfatGraphOf(candidate))
            IN ReturnMatched(graph, sidecar, MatchSidecar(graph, sidecar))
       ELSE Refuse

(* draft_escrow_restored_ntfs_to_exfat.                                     *)
ReturnToExfat ==
    /\ from = "exfat" /\ step = "exported"
    /\ \E sidecar \in {DecodeExfatSidecar(escrow.snapshot)} :
       LET graph == candidate.graph
           target == ProjectNtfs(graph, candidate.sidecar) IN
       IF /\ DecodesRestoreSidecar(escrow, candidate, "exfat")
          /\ sidecar # None
          /\ DraftsExfat(graph, candidate.sidecar, "escrow")
          /\ RestoresExfat(target, sidecar)
       THEN /\ step' = "returned"
            /\ returned' = ExfatInventoryOf(target,
                  RestoredExfatMetadata(target, sidecar,
                      NtfsToExfatMetadata(graph, candidate.sidecar)),
                  RestoredExfatVolume(sidecar, DraftedExfatVolume(candidate.sidecar)))
            /\ UNCHANGED <<source, from, candidate, escrow, edits>>
       ELSE Refuse

(* One FILETIME through map_ntfs_timestamps and map_exfat_timestamps.       *)
ConvertTime ==
    /\ from = "time" /\ step = "source"
    /\ \E stamps \in {MapNtfsTimestamps([create |-> source, modify |-> source,
                                          change |-> source, access |-> source])} :
       IF Mapped(stamps)
       THEN /\ step' = "returned"
            /\ candidate' = stamps /\ returned' = MapExfatTimestamps(stamps)
            /\ UNCHANGED <<source, from, escrow, edits>>
       ELSE Refuse

Done == step \in {"returned", "refused"} /\ UNCHANGED vars

Next == ExportNtfs \/ ExportExfat \/ OlderRelease \/ Edit \/ ReturnToNtfs \/ ReturnToExfat
        \/ ConvertTime \/ Done

Spec == Init /\ [][Next]_vars

-----------------------------------------------------------------------------
(* Name and bytes of every stream; past the initialized length they are 0.  *)
Contents(object) ==
    {<<s.name, [i \in DOMAIN s.data |-> IF i <= s.initialized THEN s.data[i] ELSE 0]>> :
        s \in ToSet(object.streams)}

StorageAttributes == {"reparse", "compressed", "sparse"}

SourceObject(record) == Find(source.objects, record)

(* The descriptor that governs an object before and after.                  *)
GoverningDescriptor(object) ==
    IF object.secured THEN object.descriptor
    ELSE IF object.standard.security \in {None, 0} THEN None
    ELSE Resolve(source.evidence, object.standard.security)

RestoredGoverning(record) ==
    LET security == returned.metadata[returned.match[record]].security IN
    IF security = 0 \/ SourceObject(record).secured
    THEN RestoredDescriptor(SourceObject(record), NtfsSecurityEscrow(escrow.snapshot))
    ELSE Resolve([kind |-> "pinned"], security)

(* An NTFS volume that went to exFAT and back with its escrow is the volume *)
(* it was: a bijection of objects preserves hard links and names, the bytes *)
(* of every stream, reparse points, exact times and shared attributes, and  *)
(* nothing of the carriers is left behind. Edits between the two exports    *)
(* unbind the sidecar (decode_restore_sidecar), so they never reach this.   *)
(* A sidecar of any release stays readable and has the identity of the      *)
(* source; exactly one of the current release authorizes a restore.         *)
RoundTripIsLossless ==
    /\ from = "ntfs" /\ step = "exported" =>
        /\ AcceptsEscrow("ntfs", escrow.snapshot)
        /\ NtfsVolumeIdentity(escrow.snapshot) = [serial |-> source.serial, label |-> source.label]
        /\ NtfsSecurityEscrow(escrow.snapshot) = source.evidence
        /\ (DecodeNtfsSidecar(escrow.snapshot) # None)
               <=> escrow.snapshot[1].value = CurrentLayout.version
    /\ from = "ntfs" /\ step = "returned" =>
        LET original == GraphOf(source, Capacity)
            match == returned.match
            ids == {o.id : o \in ToSet(original.objects)} IN
        /\ DOMAIN match = ids /\ Cardinality(Range(match)) = Cardinality(ids)
        /\ Range(match) = {o.id : o \in ToSet(returned.graph.objects)}
        /\ ToSet(returned.graph.entries) =
               {[parent |-> match[e.parent], target |-> match[e.target],
                 name |-> e.name] : e \in ToSet(original.entries)}
        /\ \A o \in ToSet(original.objects) :
              LET back == ObjectIn(returned.graph, match[o.id])
                  metadata == returned.metadata[match[o.id]] IN
              /\ back.kind = o.kind /\ back.links = o.links
              /\ Contents(back) = Contents(o)
              /\ back.reparse = o.reparse
              /\ o.id # RootRecord =>
                    /\ metadata.times = SourceObject(o.id).standard.times
                    /\ metadata.attributes \ StorageAttributes =
                          (SourceObject(o.id).standard.attributes \cup
                             (IF o.kind = "dir" THEN {"directory"} ELSE {}))
                                \ StorageAttributes
        /\ returned.label = source.label /\ returned.serial = source.serial

(* Every object is governed by the descriptor it had, inline, in a parsed   *)
(* $SDS or of the pinned profile, with one exception, the identifier 0x100  *)
(* of that profile: a destination gives every object 0x101, and a restore   *)
(* replaces the identifier only beside a descriptor it writes inline. So an *)
(* object that relied on 0x100 always returns governed by 0x101.            *)
DescriptorsSurvive ==
    from = "ntfs" /\ step = "returned" =>
        \A record \in DOMAIN returned.match :
            LET governing == GoverningDescriptor(SourceObject(record)) IN
            governing # None =>
                RestoredGoverning(record) =
                    IF governing = "pinned-256" THEN "pinned-257" ELSE governing

(* An exFAT volume that went to NTFS and back is read back as it was: paths, *)
(* attributes, raw timestamps with increments and offsets, file bytes,      *)
(* label, serial number and up-case table. The sidecar of any release stays *)
(* readable; exactly one of the current release authorizes a restore.       *)
ExfatRoundTripIsLossless ==
    /\ from = "exfat" /\ step = "exported" =>
        /\ AcceptsEscrow("exfat", escrow.snapshot)
        /\ ExfatVolumeIdentity(escrow.snapshot) = [serial |-> source.serial, label |-> source.label]
        /\ (DecodeExfatSidecar(escrow.snapshot) # None)
               <=> escrow.snapshot[1].value = CurrentExfatVersion
    /\ from = "exfat" /\ step = "returned" =>
        /\ ToSet(returned.objects) = ToSet(source.objects)
        /\ returned.label = source.label /\ returned.serial = source.serial
        /\ returned.table = source.table

(* What an NTFS export writes is a volume exFAT can hold: names legal and   *)
(* distinct under folding, one name per object, and the default stream of   *)
(* every source object intact, whatever was renamed or moved to carriers.   *)
DestinationIsExfat ==
    from = "ntfs" /\ step \in {"exported", "returned"} /\ edits = 0 =>
        /\ DistinctBy(SelectSeq(candidate.objects, LAMBDA o : o.kind # "root"),
                      LAMBDA o : <<o.parent, Fold(o.name)>>)
        /\ \A o \in ToSet(candidate.objects) : o.kind # "root" => IsLegalExfatName(o.name)
        /\ Len(candidate.objects) = Len(GraphRecords(source))
               + (LET n == Len(SidecarCarriers(SidecarOf(source))) IN IF n = 0 THEN 0 ELSE n + 1)
        /\ \A o \in ToSet(GraphRecords(source)) : \A s \in ToSet(o.streams) :
              s.name = Unnamed =>
                  \E c \in ToSet(candidate.objects) : c.data = s.data

(* The loop that finds year and month of a FILETIME and the closed formula  *)
(* that goes back agree: a time inside exFAT's years returns with 10 ms     *)
(* precision (access with two seconds), and no other is accepted.           *)
CalendarRoundTrips ==
    from = "time" /\ step # "source" =>
        /\ step = "returned" <=>
              source.day \in DaysBeforeYear(ExfatEpochYear)
                                .. DaysBeforeYear(LastExfatYear + 1) - 1
        /\ step = "returned" =>
              /\ returned.create = [source EXCEPT !.tick = 0]
              /\ returned.modify = [source EXCEPT !.tick = 0]
              /\ returned.access = [source EXCEPT !.tick = 0, !.hundredth = 0,
                                                 !.second = @ - (@ % 2)]
=============================================================================
