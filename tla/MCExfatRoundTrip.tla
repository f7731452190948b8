-------------------------- MODULE MCExfatRoundTrip ---------------------------
(***************************************************************************)
(* Volumes of 7 to 9 clusters: 128 KiB clusters, 8 directory entries in     *)
(* each, and units 0 .. 5: 0 is forbidden in names, 3 is the lower case of  *)
(* 1.                                                                       *)
(***************************************************************************)
EXTENDS ExfatRoundTrip

CONSTANTS Meta1, Meta2

Cluster == 131072
Options == [sector |-> 512, cluster |-> Cluster, serial |-> 1]
At(c) == ByteRange(c * Cluster, Cluster)

Root == [directory |-> TRUE, parent |-> 0, name |-> <<>>, plain |-> TRUE, sound |-> TRUE,
         metadata |-> Refused, logical |-> 0, initialized |-> 0, resident |-> TRUE,
         extents |-> <<>>]
Directory(parent, name) ==
    [Root EXCEPT !.parent = parent, !.name = name, !.metadata = Meta1]
File(parent, name, logical, extents) ==
    [Root EXCEPT !.directory = FALSE, !.parent = parent, !.name = name, !.metadata = Meta2,
                 !.logical = logical, !.initialized = logical, !.resident = (extents = <<>>),
                 !.extents = extents]

Graph(sectors, objects, other) == [bytes |-> sectors * 512, objects |-> objects, other |-> other]

MCGraphs ==
    {\* a fragmented file and one whose content is resident
     Graph(2048, <<Root, File(1, <<1, 2>>, 2 * Cluster, <<At(6), At(4)>>)>>, <<>>),
     Graph(2048, <<Root, File(1, <<3>>, 700, <<>>)>>, <<>>),
     \* a directory, and a root of exactly one cluster
     Graph(2304, <<Root, Directory(1, <<3, 2, 2>>), File(2, <<1>>, Cluster + 1, <<At(2), At(3)>>)>>,
           <<>>),
     \* a source directory that stays, names that differ in more than case
     Graph(2560, <<Root, File(1, <<1>>, Cluster, <<At(3)>>), File(1, <<2>>, 0, <<>>)>>, <<At(1)>>),
     \* payload that the new metadata cannot use as it is
     Graph(2048, <<Root, File(1, <<2, 1>>, 5, <<ByteRange(4096, 512)>>)>>, <<>>),
     \* clusters past the length of a file, contiguous or not
     Graph(2048, <<Root, File(1, <<2, 1>>, 5, <<At(4), At(5)>>)>>, <<>>),
     Graph(2048, <<Root, File(1, <<2, 1>>, 5, <<At(6), At(4)>>)>>, <<>>),
     \* names that differ in case only
     Graph(2048, <<Root, File(1, <<1>>, 0, <<>>), File(1, <<3>>, 0, <<>>)>>, <<>>)}

(* A table with the mandatory units and one identity run for the rest.      *)
CompressedTable ==
    [i \in 1 .. MandatoryUnits |-> MandatoryMapping(i - 1)]
        \o <<Marker, UnitCount - MandatoryUnits>>

Profile(bad, stale, label) ==
    [clean |-> TRUE, badCount |-> Len(bad), bad |-> bad, stale |-> stale, label |-> label,
     table |-> CompressedTable, checksum |-> TableChecksum(CompressedTable)]

MCJobs ==
    {[graph |-> g, profile |-> p, options |-> Options] :
        g \in MCGraphs,
        p \in {Profile(<<>>, <<>>, None), Profile(<<ByteRange(7 * Cluster, 4096)>>, <<>>, <<1, 2>>),
               Profile(<<>>, <<ByteRange(5 * Cluster, 512), ByteRange(512, 512)>>, None)}}

MCSizes ==
    {[sectors |-> n, options |-> [sector |-> 512, cluster |-> 512, serial |-> 1]] : n \in 2048 .. 2250}
    \cup {[sectors |-> n, options |-> [sector |-> 512, cluster |-> 4096, serial |-> 1]] :
            n \in 8190 .. 8230}

MCTables == {s \in UNION {[1 .. n -> Units] : n \in 3 .. UnitCount} :
                s[1] \in {0, Marker} /\ s[2] \in {1, 2, 3} /\ s[3] \in {1, 2, Marker}}
MCLimits == [objects |-> 8, directories |-> 4, depth |-> 3, clusters |-> 16, pathUnits |-> 20,
             bytes |-> 16 * Cluster]
MCLower == {3}
MCForbidden == {0}
=============================================================================
