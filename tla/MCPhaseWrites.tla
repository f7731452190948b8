---------------------------- MODULE MCPhaseWrites ----------------------------
(***************************************************************************)
(* An image of 16 bytes with sectors of 2: boot, allocation map and         *)
(* namespace of the destination in front, its backup boot at the end; a     *)
(* file under the new namespace that has to move, one that may stay, and    *)
(* retired metadata at 8.                                                   *)
(***************************************************************************)
EXTENDS PhaseWrites

Write(offset, bytes) == [offset |-> offset, bytes |-> bytes]
Reservation(offset, length, kind) ==
    [range |-> ByteRange(offset, length), kind |-> kind]

Places == <<Reservation(14, 2, "boot"), Reservation(0, 2, "boot"),
            Reservation(2, 2, "allocation"), Reservation(4, 2, "namespace"),
            Reservation(6, 2, "capsule")>>

Stream(id) ==
    [id |-> id, named |-> FALSE, logical |-> 2, initialized |-> 2, mapped |-> 2,
     allocated |-> 2, resident |-> FALSE, compressed |-> FALSE, sparse |-> FALSE,
     encrypted |-> FALSE]
Object(id, kind, secured, streams) ==
    [id |-> id, kind |-> kind, links |-> IF kind = "dir" THEN 0 ELSE 1,
     secured |-> secured, reparse |-> FALSE, streams |-> streams]
Extent(stream, at) ==
    [stream |-> stream, logical |-> 0, length |-> 2, at |-> at, kind |-> "file"]

GraphAt(first, secured) ==
    [root |-> 0, volume |-> ImageBytes,
     objects |-> <<Object(0, "dir", FALSE, <<>>), Object(1, "file", secured, <<Stream(10)>>),
                   Object(2, "file", FALSE, <<Stream(20)>>)>>,
     entries |-> <<[parent |-> 0, target |-> 1, name |-> "a"],
                   [parent |-> 0, target |-> 2, name |-> "b"]>>,
     extents |-> <<Extent(10, first), Extent(20, 12)>>]

Allocation(stream, at, movable) ==
    [stream |-> stream, logical |-> 0, range |-> ByteRange(at, 2), movable |-> movable]
AllocationsAt(first) ==
    <<Allocation(10, first, TRUE), Allocation(20, 12, TRUE), Allocation(99, 8, FALSE)>>

Evidence ==
    [filesystem |-> "ntfs", image |-> [instance |-> 1, bytes |-> ImageBytes], source |-> 7,
     manifest |-> [digest |-> 5, logical |-> 4, objects |-> 3], sector |-> Sector,
     alignment |-> 2, inventory |-> TRUE, allocations |-> TRUE, health |-> "clean",
     access |-> "offline"]

Capsules == [words |-> 400, generation |-> 300, generations |-> 8]
Escrow == [feature |-> "acl", method |-> "escrow", schema |-> 1, digest |-> 9]

Base ==
    [reservations |-> Places, staging |-> <<Write(4, <<2, 1>>), Write(2, <<1, 0>>)>>,
     backup |-> Write(14, <<1, 1>>), activation |-> Write(0, <<1, 2>>), gaps |-> {},
     graph |-> GraphAt(4, FALSE), allocations |-> AllocationsAt(4), preflight |-> Evidence,
     filesystem |-> "exfat", authorized |-> "exfat", features |-> <<>>, unmoved |-> FALSE,
     transaction |-> 1,
     limits |-> [features |-> 2, writes |-> 9, bytes |-> 18, capsule |-> Capsules]]

Staying == [Base EXCEPT !.graph = GraphAt(10, FALSE), !.allocations = AllocationsAt(10)]
Secured == [Base EXCEPT !.graph = GraphAt(4, TRUE)]

(* Jobs that are carried out.                                               *)
Sound ==
    {Base, Staying, [Staying EXCEPT !.staging = <<Write(2, <<1, 1>>)>>],
     [Secured EXCEPT !.features = <<Escrow>>]}

(* Jobs that are refused, each for its own reason.                          *)
Unsound ==
    {[Base EXCEPT !.staging = s] :
        s \in {<<Write(2, <<1, 1>>), Write(2, <<2, 2>>)>>, <<Write(6, <<1, 1>>)>>,
               <<Write(8, <<1, 1>>)>>, <<Write(3, <<1, 1>>)>>}}
    \cup {[Base EXCEPT !.backup = Write(0, <<1, 1>>)], [Base EXCEPT !.gaps = {"gap"}],
          [Base EXCEPT !.authorized = "ntfs"], [Base EXCEPT !.filesystem = "ntfs"],
          [Base EXCEPT !.unmoved = TRUE], [Base EXCEPT !.preflight.health = "dirty"],
          [Base EXCEPT !.preflight.alignment = 1], [Base EXCEPT !.allocations = Tail(@)],
          [Base EXCEPT !.allocations[1].movable = FALSE],
          [Base EXCEPT !.reservations[4].kind = "other"],
          [Base EXCEPT !.limits.writes = 8], [Base EXCEPT !.limits.bytes = 17],
          [Base EXCEPT !.limits.capsule.generation = 100],
          [Base EXCEPT !.features = <<Escrow>>], Secured,
          [Secured EXCEPT !.features = <<Escrow, Escrow>>],
          [Secured EXCEPT !.features = <<[Escrow EXCEPT !.method = "native"]>>],
          [Secured EXCEPT !.features = <<[Escrow EXCEPT !.schema = 0]>>]}

MCJobs == Sound \cup Unsound

MCPolicies == {Capsules, [Capsules EXCEPT !.generations = 7], [Capsules EXCEPT !.words = 399]}
MCEnvelopeLimits ==
    [words |-> 300, entries |-> 40, bytes |-> 24, recovery |-> 60, logical |-> 8]

MCOriginals ==
    {[u \in 0 .. ImageBytes - 1 |-> 0], [u \in 0 .. ImageBytes - 1 |-> u % 3]}
=============================================================================
