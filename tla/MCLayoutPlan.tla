---------------------------- MODULE MCLayoutPlan -----------------------------
(***************************************************************************)
(* Every small draft: two files, with or without a second name for one of   *)
(* them, one destination cluster grid, source metadata in up to two places  *)
(* and destination metadata in up to two.                                   *)
(***************************************************************************)
EXTENDS LayoutPlan

Stream(id, logical, initialized, mapped, allocated, resident, compressed) ==
    [id |-> id, named |-> FALSE, logical |-> logical, initialized |-> initialized,
     mapped |-> mapped, allocated |-> allocated, resident |-> resident,
     compressed |-> compressed, sparse |-> FALSE, encrypted |-> FALSE]

Extent(id, logical, length, at) ==
    [stream |-> id, logical |-> logical, length |-> length, at |-> at, kind |-> "file"]

(* Streams with their extents: resident, whole, in two parts (of a cluster  *)
(* or less), sparse in the middle, compressed.                              *)
Shapes(id) ==
    {<<Stream(id, 1, 1, 1, 0, TRUE, FALSE), <<>>>>,
     <<Stream(id, 0, 0, 0, 0, FALSE, FALSE), <<>>>>}
    \cup {<<Stream(id, 2, i, 2, 2, FALSE, FALSE), <<Extent(id, 0, 2, p)>>>> :
             i \in {1, 2}, p \in {2, 3, 6}}
    \cup {<<Stream(id, 4, 4, 4, 4, FALSE, FALSE), <<Extent(id, 0, 4, 4)>>>>}
    \cup {<<Stream(id, 4, 4, 4, 4, FALSE, FALSE),
            <<Extent(id, 0, n, p), Extent(id, n, 4 - n, q)>>>> :
             n \in {1, 2}, p \in {4}, q \in {1, 8}}
    \cup {<<Stream(id, 6, 6, 6, 2, FALSE, c),
            <<Extent(id, 0, 2, p), Extent(id, 2, 4, Sparse)>>>> :
             c \in BOOLEAN, p \in {0, 4}}

Directory(id, links) ==
    [id |-> id, kind |-> "dir", links |-> links, secured |-> FALSE, reparse |-> FALSE,
     streams |-> <<>>]
File(id, links, stream) ==
    [id |-> id, kind |-> "file", links |-> links, secured |-> FALSE, reparse |-> FALSE,
     streams |-> <<stream>>]
Entry(parent, target, name) == [parent |-> parent, target |-> target, name |-> name]

(* Two files beside each other, or one of them with a second name in a      *)
(* directory.                                                               *)
GraphOf(one, two, linked) ==
    [root |-> 0, volume |-> Volume,
     objects |-> <<Directory(0, 0), File(1, IF linked THEN 2 ELSE 1, one[1]),
                   File(2, 1, two[1])>>
                 \o IF linked THEN <<Directory(3, 1)>> ELSE <<>>,
     entries |-> <<Entry(0, 1, "a"), Entry(0, 2, "b")>>
                 \o IF linked THEN <<Entry(0, 3, "d"), Entry(3, 1, "b")>> ELSE <<>>,
     extents |-> one[2] \o two[2]]

Allocation(stream, logical, range, movable) ==
    [stream |-> stream, logical |-> logical, range |-> range, movable |-> movable]

AllocationsOf(graph, metadata) ==
    LET physical == PhysicalExtents(graph.extents) IN
    [i \in DOMAIN physical |->
        Allocation(physical[i].stream, physical[i].logical, Physical(physical[i]), TRUE)]
    \o [i \in DOMAIN metadata |-> Allocation(99, 0, metadata[i], FALSE)]

Reservations ==
    {<<[range |-> ByteRange(0, 2)]>>,
     <<[range |-> ByteRange(0, 1)], [range |-> ByteRange(6, 2)]>>,
     <<[range |-> ByteRange(0, 1)], [range |-> ByteRange(11, 1)]>>}

Metadata == {<<>>, <<ByteRange(0, 1)>>, <<ByteRange(0, 1), ByteRange(10, 2)>>}

Disjoint(graph, metadata) ==
    ValidPhysicalRanges(graph.extents \o [i \in DOMAIN metadata |->
        Extent(99, metadata[i].offset, metadata[i].length, metadata[i].offset)])

Volumes ==
    {v \in [graph : {GraphOf(one, two, linked) :
                        one \in Shapes(10), two \in Shapes(20), linked \in BOOLEAN},
            metadata : Metadata] : Disjoint(v.graph, v.metadata)}

MCDrafts ==
    {[direction |-> direction, graph |-> v.graph,
      allocations |-> AllocationsOf(v.graph, v.metadata), reservations |-> reservations] :
        v \in Volumes, direction \in {"toNtfs", "toExfat"}, reservations \in Reservations}
=============================================================================
