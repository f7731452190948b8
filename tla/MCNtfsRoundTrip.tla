--------------------------- MODULE MCNtfsRoundTrip ---------------------------
(***************************************************************************)
(* Volumes that cross the boundaries of the NTFS writer: indexes that just *)
(* fit and just do not fit their record, names and streams that need more  *)
(* records than one, payload in several places, holes and bad clusters,    *)
(* three cluster sizes, drafts whose payload must move, torn records and   *)
(* wrong bitmaps; and MFTs in three pieces that are found through          *)
(* themselves.                                                             *)
(***************************************************************************)
EXTENDS NtfsRoundTrip

(* Symbols 1 to 15 are names of the system, the others 85 units long; 22 is *)
(* the small form of 21.                                                    *)
MCSymbolUnits ==
    [s \in 1 .. 60 |-> IF s <= 15 THEN <<8, 8, 7, 5, 7, 8, 4, 8, 7, 7, 7, 1, 6, 6, 8>>[s] ELSE 85]
MCUpcase == [s \in 1 .. 60 |-> IF s = 22 THEN 21 ELSE s]

-----------------------------------------------------------------------------
(* Graphs.                                                                  *)

Stream(id, name, size) ==
    [id |-> id, name |-> name, resident |-> TRUE, value |-> [data |-> id], logical |-> size,
     initialized |-> size, mapped |-> 0, allocated |-> 0, sparse |-> FALSE]

Fragmented(id, name, size, mapped, holes) ==
    [id |-> id, name |-> name, resident |-> FALSE, value |-> NoValue, logical |-> size,
     initialized |-> size, mapped |-> mapped, allocated |-> mapped - holes, sparse |-> holes > 0]

Piece(id, logical, length, at) ==
    [stream |-> id, logical |-> logical, length |-> length, at |-> at, payload |-> TRUE]

File(streams) == [directory |-> FALSE, streams |-> streams]
Directory == [directory |-> TRUE, streams |-> <<>>]
Entry(parent, target, name) == [parent |-> parent, target |-> target, name |-> name]

(* A volume of so many clusters and the sector behind them.                 *)
Graph(clusters, cluster, objects, entries, extents) ==
    [bytes |-> clusters * cluster + SectorBytes, objects |-> objects, entries |-> entries,
     extents |-> extents]

PlainProfile(g) ==
    [label |-> <<>>, bad |-> <<>>,
     reparse |-> [i \in DOMAIN g.objects |-> NoValue],
     security |-> [i \in DOMAIN g.objects |-> NoValue],
     metadata |-> [i \in DOMAIN g.objects |->
        [times |-> "t0", dos |-> IF g.objects[i].directory THEN {"directory"} ELSE {"archive"},
         security |-> UserSecurity]]]

Described(profile, sizes) ==
    [profile EXCEPT
        !.security = [i \in DOMAIN @ |->
            IF i \in DOMAIN sizes THEN [descriptor |-> i, size |-> sizes[i]] ELSE NoValue],
        !.metadata = [i \in DOMAIN @ |->
            IF i \in DOMAIN sizes THEN [@[i] EXCEPT !.security = 0] ELSE @[i]]]

Pointed(profile, objects, size) ==
    [profile EXCEPT !.reparse = [i \in DOMAIN @ |->
        IF i \in objects THEN [tag |-> 7, size |-> size] ELSE NoValue]]

NoDamage == [kind |-> "none"]
Job(g, profile, cluster, isDraft, damage) ==
    [graph |-> g, profile |-> profile, options |-> [cluster |-> cluster], draft |-> isDraft,
     damage |-> damage]
InPlace(g, profile, cluster) == Job(g, profile, cluster, FALSE, NoDamage)

-----------------------------------------------------------------------------
(* One volume each.                                                         *)

LongName(k) == <<31 + k \div 8, 23 + (k % 8), 21 + (k % 2)>>

(* A directory of n long names below the root.                              *)
Crowded(n, clusters, cluster) ==
    LET objects == <<Directory, Directory>> \o [k \in 1 .. n |-> File(<<>>)]
        g == Graph(clusters, cluster, objects,
                       <<Entry(1, 2, <<21>>)>> \o [k \in 1 .. n |-> Entry(2, k + 2, LongName(k))], <<>>)
    IN InPlace(g, PlainProfile(g), cluster)

(* A file with n names, two lengths of named stream and a descriptor.       *)
Linked(n, clusters, cluster, sizes, descriptor) ==
    LET streams == <<Stream(1, <<>>, 300), Stream(2, <<21>>, sizes[1]), Stream(3, <<23>>, sizes[2])>>
        g == Graph(clusters, cluster, <<Directory, Directory, File(streams)>>,
                       <<Entry(1, 2, <<21>>)>> \o [k \in 1 .. n |-> Entry(1 + (k % 2), 3, LongName(k))],
                       <<>>)
        plain == PlainProfile(g)
    IN InPlace(g, IF descriptor = 0 THEN plain
                      ELSE Described(plain, (2 :> descriptor @@ 3 :> descriptor)), cluster)

(* n reparse points.                                                        *)
Pointing(n, clusters, cluster) ==
    LET g == Graph(clusters, cluster,
                       <<Directory, Directory>> \o [k \in 1 .. n |-> File(<<Stream(k, <<>>, 10)>>)],
                       <<Entry(1, 2, <<21>>)>> \o [k \in 1 .. n |-> Entry(2, k + 2, <<22 + k>>)], <<>>)
    IN InPlace(g, Pointed(PlainProfile(g), 2 .. n + 2, 20), cluster)

(* Payload in three pieces, in an order that goes back, with a hole; a bad  *)
(* cluster below the piece at the end of the volume, where the plan's own   *)
(* runs are taken.                                                          *)
Scattered(clusters, cluster, isDraft, firstAt) ==
    LET streams == <<Fragmented(1, <<>>, 3 * cluster + 100, 4 * cluster, cluster),
                     Stream(2, <<23>>, 2 * cluster + 1)>>
        g == Graph(clusters, cluster, <<Directory, File(streams)>>,
                       <<Entry(1, 2, <<21>>)>>,
                       <<Piece(1, 0, cluster, firstAt * cluster),
                         Piece(1, cluster, cluster, Hole),
                         Piece(1, 2 * cluster, 2 * cluster, (clusters - 6) * cluster)>>)
    IN Job(g, [PlainProfile(g) EXCEPT !.bad = <<ByteRange((clusters - 3) * cluster + 512, 512)>>,
                                              !.label = <<21>>],
           cluster, isDraft, NoDamage)

Damaged(j, damage) == [j EXCEPT !.damage = damage]

MCJobs ==
    {Crowded(n, 256, 4096) : n \in {2, 7, 8, 14, 15}}
    \cup {Crowded(7, 128, 8192), Crowded(7, 448, 2048)}
    \cup {Crowded(2, clusters, 4096) : clusters \in {240, 248, 249, 257}}
    \cup {Linked(n, 256, 4096, <<100, 600>>, 0) : n \in {1, 2, 4}}
    \cup {Linked(3, 256, 4096, <<600, 5000>>, d) : d \in {100, 1000}}
    \cup {Pointing(n, 256, 4096) : n \in {3, 24}}
    \cup {Scattered(256, 4096, FALSE, 200), Scattered(128, 8192, FALSE, 110)}
    \cup {Scattered(256, 4096, TRUE, at) : at \in {10, 200}}
    \cup {Damaged(Crowded(7, 256, 4096), damage) :
             damage \in {[kind |-> "torn", of |-> "magic"], [kind |-> "torn", of |-> "block"],
                         [kind |-> "flipped", bits |-> {0, 3, 20, 30, 100, 230, 255}]}}

-----------------------------------------------------------------------------
(* MFTs of six records in twelve clusters of a sector, in up to three       *)
(* pieces. The first piece and the list that names the others start in      *)
(* record zero; any other record may host the rest of either.               *)

ForeignClusters == 12
ForeignRecords == 6
ForeignBoot ==
    [oem |-> TRUE, signature |-> TRUE, reservedZero |-> TRUE, bytesPerSector |-> 512,
     sectorsPerCluster |-> 1, totalSectors |-> 60, mftLcn |-> 4, mirrorLcn |-> 2,
     recordSize |-> -10, indexSize |-> -12]
ListLcn == 40

Pieces(cuts, hosts) ==
    LET lows == SetToSortSeq(cuts \cup {0}, <)
    IN [i \in DOMAIN lows |->
           [low |-> lows[i], past |-> IF i = Len(lows) THEN ForeignClusters ELSE lows[i + 1],
            lcn |-> ForeignBoot.mftLcn + lows[i] + 2 * (i - 1),
            host |-> IF i = 1 THEN 0 ELSE hosts[i - 1]]]

ForeignPart(type, id, low, past, lcn, bytes, data) ==
    [type |-> type, id |-> id, name |-> <<>>, resident |-> FALSE, flags |-> {}, lowest |-> low,
     highest |-> past - 1, pairs |-> EncodeRuns(<<[lcn |-> lcn, length |-> past - low]>>),
     allocated |-> bytes, data |-> data, initialized |-> data, compressed |-> 0, unit |-> 0]

ListEntry(type, name, low, record, id) ==
    [type |-> type, name |-> name, lowest |-> low, record |-> record, sequence |-> 1, instance |-> id]

(* A name of 200 characters pushes the parts of the mapping into the second *)
(* cluster of the list.                                                     *)
Filler == [i \in 1 .. 200 |-> 65]

ForeignList(pieces, listHost) ==
    (IF listHost = 0 THEN <<>>
     ELSE <<ListEntry(AttributeListType, <<>>, 1, listHost, 20), ListEntry(FileNameType, Filler, 0, 0, 21)>>)
    \o [i \in DOMAIN pieces |-> ListEntry(DataType, <<>>, pieces[i].low, pieces[i].host, i)]

ForeignAttributes(pieces, listHost, list, n) ==
    LET ListPart(k) == ForeignPart(AttributeListType, 20, k, k + 1, ListLcn + 3 * k, 1024, ListBytes(list))
    IN (IF n = 0 /\ listHost = 0
        THEN <<[type |-> AttributeListType, id |-> 20, name |-> <<>>, resident |-> TRUE,
                indexed |-> FALSE, value |-> [list |-> list], size |-> ListBytes(list)]>>
        ELSE IF n = 0 THEN <<ListPart(0)>>
        ELSE IF n = listHost THEN <<ListPart(1)>> ELSE <<>>)
       \o Where([i \in DOMAIN pieces |->
                   ForeignPart(DataType, i, pieces[i].low, pieces[i].past, pieces[i].lcn,
                               ForeignClusters * 512, ForeignClusters * 512)],
                LAMBDA a : pieces[a.id].host = n)

ForeignRecord(pieces, listHost, list, n) ==
    [magic |-> "FILE", sequence |-> 1, links |-> 0, inUse |-> TRUE, directory |-> FALSE,
     base |-> IF n = 0 THEN NoReference ELSE [record |-> 0, sequence |-> 1],
     number |-> n, allocated |-> 1024, nextId |-> 30,
     attrs |-> ForeignAttributes(pieces, listHost, list, n)]

ForeignImage(pieces, records, list) ==
    FlattenSeq([i \in DOMAIN pieces |->
        [v \in 1 .. pieces[i].past - pieces[i].low |->
            [at |-> pieces[i].lcn + v - 1, count |-> 1, of |-> records[(pieces[i].low + v - 1) \div 2],
             part |-> ((pieces[i].low + v - 1) % 2) + 1, usn |-> 1]]])
    \o [k \in 1 .. 2 |-> [at |-> ListLcn + 3 * (k - 1), count |-> 1, of |-> [list |-> list],
                          part |-> k, usn |-> 0]]

ForeignOver(pieces, listHost, list) ==
    [pieces |-> pieces, listHost |-> listHost, boot |-> ForeignBoot,
     image |-> ForeignImage(pieces,
                  Evaluated([n \in 0 .. ForeignRecords - 1 |-> ForeignRecord(pieces, listHost, list, n)]),
                  list)]

Foreign(pieces, listHost) == ForeignOver(pieces, listHost, Evaluated(ForeignList(pieces, listHost)))

MCForeign ==
    {Foreign(Evaluated(Pieces(c.cuts, c.hosts)), c.list) :
        c \in {c \in [cuts : SUBSET {2, 3, 5, 6, 8},
                      hosts : [1 .. 1 -> 1 .. 5] \cup [1 .. 2 -> 1 .. 5], list : 0 .. 5] :
                  Cardinality(c.cuts) = Len(c.hosts)}}

=============================================================================
