--------------------------- MODULE ExfatRoundTrip ----------------------------
(***************************************************************************)
(* A destination is serialized around payload in place, or drafted, the     *)
(* payload relocated and the draft finalized; the volume is then read,      *)
(* possibly after one item of its metadata was damaged. Apart from that,    *)
(* the geometry is chosen for a size, and an up-case table is decoded.      *)
(***************************************************************************)
EXTENDS ExfatWriter

CONSTANTS Jobs,             \* [graph, profile, options]
          Sizes,            \* [sectors, options] whose geometry is chosen
          Tables            \* encoded up-case tables

VARIABLES stage, job, plan, volume, result

vars == <<stage, job, plan, volume, result>>

Init ==
    /\ stage = "start"
    /\ job \in Jobs
    /\ plan = None /\ volume = None /\ result = None

-----------------------------------------------------------------------------

(* The image: what file payload has become of the graph, nothing else.      *)
DataHeap(graph, geometry) ==
    [c \in Heap(geometry) |->
        LET owners == {i \in Files(graph) : c \in Range(FileClusters(geometry, graph.objects[i]))}
        IN IF owners = {} THEN [kind |-> "stale"]
           ELSE LET i == CHOOSE i \in owners : TRUE
                    clusters == FileClusters(geometry, graph.objects[i])
                IN [kind |-> "data", of |-> i,
                    index |-> CHOOSE k \in DOMAIN clusters : clusters[k] = c]]

Wrote(made) ==
    /\ plan' = made
    /\ IF made = Refused THEN stage' = "refused" /\ UNCHANGED volume
       ELSE /\ stage' = "written"
            /\ volume' = WrittenVolume(made, DataHeap(job'.graph, made.geometry))

(* Payload is where the new volume can use it.                              *)
SerializeInPlace ==
    /\ stage = "start"
    /\ UNCHANGED <<job, result>>
    /\ Wrote(Serialize(job.graph, job.profile, job.options, Final, None))

DraftDestination ==
    /\ stage = "start"
    /\ plan' = Serialize(job.graph, job.profile, job.options, Draft, None)
    /\ stage' = IF plan' = Refused THEN "refused" ELSE "drafted"
    /\ UNCHANGED <<job, volume, result>>

(* solve_lossless_ntfs_to_exfat up to finalize_exfat_destination. Of the    *)
(* solver (geometry.rs, module Geometry) only what it guarantees is kept:   *)
(* all content of every file is in clusters that the draft has not reserved *)
(* and no source directory holds, in any order.                             *)
Relocated(file, geometry, clusters) ==
    [file EXCEPT !.resident = (file.logical = 0),
                 !.extents = [k \in DOMAIN clusters |->
                                ByteRange(ClusterOffset(geometry, clusters[k]), geometry.cluster)]]

FreeClusters(graph, drafted) ==
    {c \in Heap(drafted.geometry) :
        \A r \in drafted.reservations \cup Range(graph.other) :
            ~ Overlaps(ByteRange(ClusterOffset(drafted.geometry, c), drafted.geometry.cluster), r)}

Relocate ==
    LET Needs(i) == CeilDiv(MappedBytes(job.graph.objects[i]), plan.geometry.cluster)
        files == Files(job.graph)
    IN /\ stage = "drafted"
       /\ \E at \in [files -> SeqOf(FreeClusters(job.graph, plan), 3)] :
             /\ \A i \in files : Len(at[i]) = Needs(i) /\ IsInjective(at[i])
             /\ \A i, j \in files : i # j => Range(at[i]) \cap Range(at[j]) = {}
             /\ job' = [job EXCEPT !.graph.objects =
                          [i \in DOMAIN @ |-> IF i \in files
                                              THEN Relocated(@[i], plan.geometry, at[i]) ELSE @[i]]]
             /\ result' = job.graph
       /\ stage' = "relocated"
       /\ UNCHANGED <<plan, volume>>

FinalizeDestination ==
    /\ stage = "relocated"
    /\ \E final \in {Finalize([job EXCEPT !.graph = result], plan, job.graph)} :
          /\ plan' = final
          /\ stage' = IF final = Refused THEN "unfinished" ELSE "written"
          /\ volume' = IF final = Refused THEN volume
                       ELSE WrittenVolume(final, DataHeap(job.graph, final.geometry))
    /\ result' = None
    /\ UNCHANGED job

-----------------------------------------------------------------------------
(* One item of the metadata differs from what was written.                  *)

DamageFat ==
    \E c \in Heap(plan.geometry), v \in Heap(plan.geometry) \cup {Free, BadCluster, EndOfChain} :
        volume' = [volume EXCEPT !.fats[1][c] = v]

DamageBitmap ==
    \E c \in Heap(plan.geometry), b \in {b \in Heap(plan.geometry) : volume.heap[b].kind = "bitmap"} :
        volume' = [volume EXCEPT !.heap[b].allocated =
                      IF c \in @ THEN @ \ {c} ELSE @ \cup {c}]

Altered(entry) ==
    CASE entry.type = "file" -> {[entry EXCEPT !.directory = ~ @], [entry EXCEPT !.secondaries = @ + 1],
                                 [entry EXCEPT !.metadata = None], [type |-> "unused"],
                                 [type |-> "end"]}
      [] entry.type = "stream" -> {[entry EXCEPT !.first = @ + 1], [entry EXCEPT !.length = @ + 1],
                                   [entry EXCEPT !.valid = 0, !.length = 0],
                                   [entry EXCEPT !.noFatChain = ~ @], [entry EXCEPT !.hash = @ + 1],
                                   [entry EXCEPT !.nameLength = @ - 1]}
      [] entry.type = "name" -> {[entry EXCEPT !.units[1] = @ + 1], [type |-> "vendor"]}
      [] entry.type = "bitmap" -> {[entry EXCEPT !.first = @ + 1], [entry EXCEPT !.id = 1]}
      [] entry.type = "upcase" -> {[entry EXCEPT !.first = @ + 1], [entry EXCEPT !.length = @ - 2]}
      [] OTHER -> {[type |-> "unknown"]}

DamageDirectory ==
    \E c \in {c \in Heap(plan.geometry) : volume.heap[c].kind = "entries"} :
        \E i \in DOMAIN volume.heap[c].entries :
            \E altered \in Altered(volume.heap[c].entries[i]) :
                volume' = [volume EXCEPT !.heap[c].entries[i] = altered]

DamageTable ==
    \E c \in {c \in Heap(plan.geometry) : volume.heap[c].kind = "upcase"} :
        \E i \in DOMAIN volume.heap[c].words, w \in Units :
            volume' = [volume EXCEPT !.heap[c].words[i] = w]

DamageBoot ==
    \E region \in {"main", "backup"},
       field \in {"fatLength", "heapOffset", "clusterCount", "root", "percent", "activeFat"} :
        volume' = [volume EXCEPT ![region].boot[field] = @ + 1]

Damage ==
    /\ stage = "written"
    /\ \/ DamageFat \/ DamageBitmap \/ DamageDirectory \/ DamageTable \/ DamageBoot
    /\ stage' = "damaged"
    /\ UNCHANGED <<job, plan, result>>

Read ==
    /\ stage \in {"written", "damaged"}
    /\ result' = ReadExfat(volume, job.options.sector)
    /\ stage' = IF stage = "written" THEN "read" ELSE "readDamaged"
    /\ UNCHANGED <<job, plan, volume>>

-----------------------------------------------------------------------------

MeasureVolume ==
    /\ stage = "start"
    /\ \E size \in Sizes :
          /\ plan' = ChooseGeometry(size.sectors * size.options.sector, size.options)
          /\ result' = size
    /\ stage' = "measured"
    /\ UNCHANGED <<job, volume>>

DecodeTable ==
    /\ stage = "start"
    /\ \E words \in Tables : result' = words
    /\ stage' = "decoded"
    /\ UNCHANGED <<job, plan, volume>>

Next ==
    \/ SerializeInPlace \/ DraftDestination \/ Relocate \/ FinalizeDestination
    \/ Damage \/ Read \/ MeasureVolume \/ DecodeTable

Spec == Init /\ [][Next]_vars

-----------------------------------------------------------------------------

RECURSIVE GraphPath(_, _)
GraphPath(graph, i) ==
    IF i = 1 THEN <<>> ELSE Append(GraphPath(graph, graph.objects[i].parent), graph.objects[i].name)

(* What the graph holds, and what was read, by path.                        *)
Promised(graph) ==
    {[path |-> GraphPath(graph, i), directory |-> o.directory, metadata |-> o.metadata,
      content |-> IF o.directory THEN <<>>
                  ELSE <<o.logical, o.initialized,
                         [k \in 1 .. CeilDiv(o.logical, job.options.cluster) |-> <<i, k>>]>>] :
     <<i, o>> \in {<<i, graph.objects[i]>> : i \in DOMAIN graph.objects \ {1}}}

Found(inventory) ==
    {[path |-> o.path, directory |-> o.directory, metadata |-> o.metadata,
      content |-> IF o.directory THEN <<>>
                  ELSE <<o.length, o.valid,
                         [k \in DOMAIN o.clusters |->
                            <<volume.heap[o.clusters[k]].of, volume.heap[o.clusters[k]].index>>]>>] :
     o \in Range(Tail(inventory.objects))}

(* A file with clusters past its length. Its set of entries gives the       *)
(* length alone, while bitmap and FAT have all of its clusters.             *)
IsPreallocated(file) ==
    CeilDiv(MappedBytes(file), job.options.cluster) > CeilDiv(file.logical, job.options.cluster)

(* A volume that the writer produced is accepted by the reader, which finds *)
(* every object of the graph with its metadata and its content, and the bad *)
(* clusters; exactly the volumes with a preallocated file, which the writer *)
(* does not refuse, are not accepted.                                       *)
WrittenVolumeIsRead ==
    stage = "read" =>
        IF \E i \in Files(job.graph) : IsPreallocated(job.graph.objects[i])
        THEN result = Refused
        ELSE /\ result # Refused
             /\ Found(result) = Promised(job.graph)
             /\ result.bad = BadClusters(plan.geometry, job.profile.bad)

(* One damaged item of FAT, bitmap, directories, table or boot regions is   *)
(* refused, or the reader still finds every object and its content.         *)
DamageIsNoticed ==
    stage = "readDamaged" =>
        \/ result = Refused
        \/ Found(result) = Promised(job.graph)

(* However the payload is placed outside the reservations of a draft, the   *)
(* draft can be finalized around it.                                        *)
DraftCanBeFinalized == stage # "unfinished"

(* The search for a geometry gives, for every size, one that the parser of  *)
(* boot sectors accepts.                                                    *)
GeometryIsReadable ==
    stage = "measured" =>
        /\ GeometryFits(result.sectors, plan)
        /\ ParsesBootSector(
              BootSector(result.sectors * result.options.sector, result.options, plan,
                         FirstCluster, 0), result.options.sector)

(* A complete table without runs decodes to itself, even one that maps the  *)
(* last unit to the marker of a run; and what decodes has a mapping for     *)
(* every unit.                                                              *)
TablesDecode ==
    stage = "decoded" =>
        LET plain == /\ Len(result) = UnitCount
                     /\ \A i \in 1 .. UnitCount - 1 : result[i] # Marker
                     /\ \A i \in 1 .. UnitCount : MandatoryHolds(i - 1, result[i])
        IN /\ plain => ValidTable(result, TableChecksum(result)) /\ Mapping(result) = result
           /\ ValidTable(result, TableChecksum(result)) => Len(Mapping(result)) = UnitCount

=============================================================================
