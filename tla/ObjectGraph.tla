---------------------------- MODULE ObjectGraph ------------------------------
(***************************************************************************)
(* The neutral graph between parsers, planner and serializers: extents      *)
(* (extent.rs) and objects, streams and namespace entries (object.rs), with *)
(* the validation that ExtentGraph::build and ObjectGraph::build do.        *)
(*                                                                         *)
(* An extent is [stream, logical, length, at, kind] with at = Sparse where  *)
(* nothing is allocated; a stream is [id, named, logical, initialized,      *)
(* mapped, allocated, resident, compressed, sparse, encrypted].             *)
(***************************************************************************)
EXTENDS Ranges

ExtentSet == [stream : Int, logical : Nat, length : Nat, at : Int, kind : STRING]
StreamSet == [id : Int, named : BOOLEAN, logical : Nat, initialized : Nat, mapped : Nat,
              allocated : Nat, resident : BOOLEAN, compressed : BOOLEAN, sparse : BOOLEAN,
              encrypted : BOOLEAN]
ObjectSet == [id : Int, kind : {"dir", "file"}, links : Nat, secured : BOOLEAN,
              reparse : BOOLEAN, streams : Seq(StreamSet)]

Sparse == -1
IsPhysical(extent) == extent.at # Sparse

Logical(extent) == ByteRange(extent.logical, extent.length)
Physical(extent) == ByteRange(extent.at, extent.length)

ValidExtent(extent, volume) ==
    /\ extent.length > 0
    /\ IF IsPhysical(extent) THEN End(Physical(extent)) <= volume
                             ELSE extent.kind = "file"

PhysicalExtents(extents) == SelectSeq(extents, IsPhysical)

ByStream(extents) ==
    SortSeq(extents, LAMBDA a, b : \/ a.stream < b.stream
                                   \/ a.stream = b.stream /\ a.logical < b.logical)

ValidLogicalRanges(extents) ==
    LET sorted == ByStream(extents) IN
    \A i \in 1 .. Len(sorted) - 1 :
        sorted[i].stream = sorted[i + 1].stream =>
            End(Logical(sorted[i])) <= sorted[i + 1].logical

ValidPhysicalRanges(extents) ==
    NeighboursApart(SortedBy(PhysicalExtents(extents), Physical), Physical)

ExtentsAccepted(extents, volume, maxExtents) ==
    /\ Len(extents) <= maxExtents
    /\ \A i \in DOMAIN extents : ValidExtent(extents[i], volume)
    /\ ValidLogicalRanges(extents)
    /\ ValidPhysicalRanges(extents)

-----------------------------------------------------------------------------
StreamsOf(objects) == FlattenSeq([i \in DOMAIN objects |-> objects[i].streams])

IndexedObjects(objects, root) ==
    /\ DistinctBy(objects, LAMBDA o : o.id)
    /\ \E i \in DOMAIN objects : objects[i].id = root /\ objects[i].kind = "dir"

(* The extents of a stream, in logical order, start at 0, leave no gap, and *)
(* add up to the mapped and the allocated bytes.                            *)
ValidStreamExtents(stream, extents) ==
    LET own == SelectSeq(ByStream(extents), LAMBDA e : e.stream = stream.id)
        Length(e) == e.length IN
    /\ \A i \in DOMAIN own :
          own[i].logical = SumOf(SubSeq(own, 1, i - 1), Length)
    /\ stream.mapped = SumOf(own, Length)
    /\ stream.allocated = SumOf(PhysicalExtents(own), Length)

ValidStream(stream, extents) ==
    /\ stream.initialized <= stream.logical
    /\ stream.logical <= stream.mapped
    /\ IF stream.resident
       THEN stream.allocated = 0 /\ stream.mapped = stream.logical
       ELSE ValidStreamExtents(stream, extents)

ValidStreams(objects, extents) ==
    /\ DistinctBy(StreamsOf(objects), LAMBDA s : s.id)
    /\ \A i \in DOMAIN objects :
          /\ Len(SelectSeq(objects[i].streams, LAMBDA s : ~s.named)) <= 1
          /\ \A s \in ToSet(objects[i].streams) : ValidStream(s, extents)

ValidExtentReferences(objects, extents) ==
    \A e \in ToSet(extents) :
        \E s \in ToSet(StreamsOf(objects)) : s.id = e.stream /\ ~s.resident

LinksTo(entries, id) == Len(SelectSeq(entries, LAMBDA e : e.target = id))

ValidEntries(objects, entries, root) ==
    LET ids == {o.id : o \in ToSet(objects)}
        directories == {o.id : o \in {o \in ToSet(objects) : o.kind = "dir"}} IN
    /\ \A e \in ToSet(entries) :
          e.parent \in directories /\ e.target \in ids /\ e.target # root
    /\ DistinctBy(entries, LAMBDA e : <<e.parent, e.name>>)
    /\ \A o \in ToSet(objects) :
          LinksTo(entries, o.id) = IF o.id = root THEN 0 ELSE o.links

(* Objects within n steps of some of them.                                  *)
Within(entries, from, n) ==
    LET reach[k \in 0 .. n] ==
            IF k = 0 THEN from
            ELSE reach[k - 1] \cup {e.target : e \in {e \in ToSet(entries) :
                                                      e.parent \in reach[k - 1]}}
    IN reach[n]

ChildrenOf(entries, id) ==
    {e.target : e \in {e \in ToSet(entries) : e.parent = id}}

(* The depth-first search from the root meets every object and no directory *)
(* inside itself.                                                           *)
ValidReachability(objects, entries, root) ==
    LET n == Len(objects)
        reachable == Within(entries, {root}, n) IN
    /\ \A o \in ToSet(objects) : o.id \in reachable
    /\ \A id \in reachable : id \notin Within(entries, ChildrenOf(entries, id), n)

GraphAccepted(graph, limits) ==
    /\ Len(graph.objects) <= limits.objects
    /\ Len(graph.entries) <= limits.entries
    /\ Len(StreamsOf(graph.objects)) <= limits.streams
    /\ IndexedObjects(graph.objects, graph.root)
    /\ ValidStreams(graph.objects, graph.extents)
    /\ ValidEntries(graph.objects, graph.entries, graph.root)
    /\ ValidExtentReferences(graph.objects, graph.extents)
    /\ ValidReachability(graph.objects, graph.entries, graph.root)

(* collect_features.                                                        *)
FeaturesOf(objects) ==
    LET streams == ToSet(StreamsOf(objects)) IN
    {f \in {"links", "acl", "reparse", "streams", "compression", "efs", "sparse"} :
        CASE f = "links" -> \E o \in ToSet(objects) : o.links > 1
          [] f = "acl" -> \E o \in ToSet(objects) : o.secured
          [] f = "reparse" -> \E o \in ToSet(objects) : o.reparse
          [] f = "streams" -> \E s \in streams : s.named
          [] f = "compression" -> \E s \in streams : s.compressed
          [] f = "efs" -> \E s \in streams : s.encrypted
          [] f = "sparse" -> \E s \in streams : s.sparse}
=============================================================================
