---------------------------- MODULE MCRoundTrip ------------------------------
(***************************************************************************)
(* Small volumes for RoundTrip. The NTFS ones hold a directory and two or   *)
(* three files; one file carries one shape of names, of streams, of         *)
(* security and of reparse data.                                            *)
(***************************************************************************)
EXTENDS RoundTrip

CONSTANT PinnedIds          \* identifiers of pinned descriptors in use

Letter(i, case) == (IF case = 0 THEN 49 ELSE 19) + i
Name(letter, case) == <<Letter(letter, case)>>
Moment(day) == [day |-> day, second |-> 3661, hundredth |-> 7, tick |-> 5]
Day(year, month, day) == DaysBeforeYear(year) + DaysBeforeMonth(year, month) + day - 1
Times(day) == [create |-> Moment(day), modify |-> Moment(day + 1),
               change |-> Moment(day + 2), access |-> Moment(day + 3)]

Stream(attribute, name, data) ==
    [attribute |-> attribute, name |-> name, resident |-> TRUE, complete |-> TRUE,
     data |-> data, valid |-> Len(data), captured |-> FALSE, extents |-> <<>>,
     allocated |-> 0, sparse |-> FALSE, compressed |-> FALSE, encrypted |-> FALSE]

Run(record, attribute, logical, length, at) ==
    [stream |-> StreamId(record, attribute), logical |-> logical, length |-> length,
     at |-> at, kind |-> "file"]

Mapped2(record, attribute, name, data, at) ==
    [Stream(attribute, name, data) EXCEPT !.resident = FALSE,
        !.extents = <<Run(record, attribute, 0, 2, at)>>, !.allocated = 2]

(* Streams of file 26.                                                      *)
StreamShapes ==
    LET plain == Mapped2(26, 1, Unnamed, <<7, 8>>, 8) IN
    {<<plain>>,
     <<Stream(1, Unnamed, <<7>>), Stream(2, 3, <<4>>)>>,
     <<plain, [Mapped2(26, 2, 3, <<5, 6>>, 10) EXCEPT !.captured = TRUE, !.valid = 1]>>,
     <<plain, Mapped2(26, 2, 3, <<5, 6>>, 10)>>,
     <<plain, Mapped2(26, 2, 3, <<5, 6>>, 10), Mapped2(26, 3, 4, <<9>>, 12)>>,
     <<[plain EXCEPT !.sparse = TRUE, !.data = <<7, 8, 0>>,
          !.extents = Append(@, Run(26, 1, 2, 2, Sparse))]>>,
     <<[plain EXCEPT !.encrypted = TRUE]>>,
     <<plain, [Mapped2(26, 2, 3, <<5, 6>>, 10) EXCEPT !.compressed = TRUE]>>}

(* Names of file 26 beside a file "a" and a directory "d" of the root.      *)
In(record, name, space) ==
    [parent |-> [record |-> record, sequence |-> 1], name |-> name, space |-> space]
NameShapes ==
    {<<In(5, Name(2, 0), "posix")>>,
     <<In(5, Name(1, 1), "posix")>>,
     <<In(24, Name(1, 0), "posix"), In(5, Name(3, 0), "posix")>>,
     <<In(5, Name(2, 1), "win32"), In(5, Name(4, 1), "dos")>>,
     <<In(5, <<Forbidden>>, "posix")>>,
     <<In(5, <<Letter(2, 0), HighSurrogate>>, "posix")>>,
     <<In(5, CarrierDirectoryName, "posix")>>}

(* Security of file 26, with the evidence of the volume.                    *)
SecurityShapes ==
    {[id |-> i, inline |-> None, evidence |-> [kind |-> "pinned"]] : i \in PinnedIds}
    \cup {[id |-> 0, inline |-> "sd", evidence |-> [kind |-> "pinned"]],
          [id |-> 256, inline |-> "sd", evidence |-> [kind |-> "pinned"]],
          [id |-> 300, inline |-> None,
           evidence |-> [kind |-> "parsed", descriptors |-> (300 :> "sd" @@ 257 :> "other")]],
          [id |-> 257, inline |-> None,
           evidence |-> [kind |-> "parsed", descriptors |-> (257 :> "other")]],
          [id |-> 301, inline |-> None,
           evidence |-> [kind |-> "parsed", descriptors |-> (300 :> "sd")]],
          [id |-> None, inline |-> "malformed", evidence |-> [kind |-> "pinned"]]}

Object(record, directory, names, streams, day, security) ==
    [ref |-> [record |-> record, sequence |-> 1],
     directory |-> directory, metadata |-> FALSE,
     standard |-> [attributes |-> {"archive"}, times |-> Times(day), security |-> security],
     links |-> Len(names), names |-> names, streams |-> streams, reparse |-> FALSE,
     payload |-> None, secured |-> FALSE, descriptor |-> None, census |-> {"plain"},
     indexed |-> directory, index |-> <<>>]

(* Directory indexes as the names of the objects require them.              *)
Indexed(objects) ==
    [i \in DOMAIN objects |->
        [objects[i] EXCEPT !.index =
            FlattenSeq([k \in DOMAIN objects |->
                LET own == SelectSeq(objects[k].names,
                                     LAMBDA n : n.parent = objects[i].ref)
                IN [j \in DOMAIN own |-> [target |-> objects[k].ref, name |-> own[j]]]])]]

Volume(names, streams, security, reparse, day) ==
    LET Base(record, directory, own, data) ==
            Object(record, directory, own, data, Day(2000, 2, 28), 257)
        special == [Object(26, FALSE, names, streams, day, security.id) EXCEPT
                       !.secured = security.inline # None, !.descriptor = security.inline,
                       !.reparse = reparse # None, !.payload = reparse,
                       !.standard.attributes = IF reparse = None THEN {"archive", "temporary"}
                                               ELSE {"reparse"}]
        user == <<Base(5, TRUE, <<In(5, Name(9, 0), "both")>>, <<>>),
                  Base(24, TRUE, <<In(5, Name(5, 0), "posix")>>, <<>>),
                  Base(25, FALSE, <<In(5, Name(1, 0), "posix")>>, <<Stream(1, Unnamed, <<1>>)>>),
                  special>>
        own == IF security.evidence.kind = "parsed"
               THEN [i \in 1 .. 3 |-> [user[i] EXCEPT !.standard.security = None]]
                    \o <<special>>
               ELSE user
        objects == Indexed(own) \o <<BadClusters(WholeHole(BadclusRecord))>>
    IN [objects |-> objects, incomplete |-> {}, scanned |-> 30, initialized |-> 30,
        base |-> Len(objects), label |-> <<1, 2>>, serial |-> <<1, 1>>,
        evidence |-> security.evidence,
        extents |-> FlattenSeq([i \in DOMAIN objects |->
            FlattenSeq([k \in DOMAIN objects[i].streams |->
                objects[i].streams[k].extents])])]

Plain == [id |-> 257, inline |-> None, evidence |-> [kind |-> "pinned"]]

(* Two files whose names fold together and a third next to them.            *)
Crowded(first, second, third) ==
    LET volume == Volume(<<In(5, second, "posix")>>, <<Stream(1, Unnamed, <<7>>)>>,
                         Plain, None, Day(2000, 2, 28))
        other == Object(27, FALSE, <<In(5, third, "posix")>>,
                        <<Stream(1, Unnamed, <<3>>)>>, Day(2000, 2, 28), 257)
        own == [SubSeq(volume.objects, 1, 4) EXCEPT ![3].names = <<In(5, first, "posix")>>]
               \o <<other>>
        objects == Indexed(own) \o SubSeq(volume.objects, 5, 5)
    IN [volume EXCEPT !.objects = objects, !.base = Len(objects)]

(* "a", "A" and "a~2"; ".a", ".A" and ".A~2"; of five units, the most there *)
(* are: "abc.d" with the first shortened form taken, a pair of surrogates   *)
(* where the stem is cut, and an extension that leaves no room.             *)
CrowdedSources ==
    LET a == Letter(1, 0)  A == Letter(1, 1)  b == Letter(2, 0)
        c == Letter(3, 0)  d == Letter(4, 0) IN
    {Crowded(<<a>>, <<A>>, <<a, Tilde, Digit(2)>>),
     Crowded(<<Dot, a>>, <<Dot, A>>, <<Dot, A, Tilde, Digit(2)>>),
     Crowded(<<a, b, c, Dot, d>>, <<A, b, c, Dot, d>>, <<a, Tilde, Digit(2), Dot, d>>),
     Crowded(<<a, b, HighSurrogate, LowSurrogate, c>>,
             <<A, b, HighSurrogate, LowSurrogate, c>>, <<d>>),
     Crowded(<<a, Dot, b, c, d>>, <<A, Dot, b, c, d>>, <<d>>)}

MCNtfsSources ==
    CrowdedSources
    \cup {Volume(names, streams, Plain, None, Day(2000, 2, 28)) :
             names \in NameShapes, streams \in StreamShapes}
    \cup {Volume(names, <<Stream(1, Unnamed, <<7>>), Stream(2, 3, <<4>>)>>,
                 security, reparse, Day(2000, 2, 28)) :
             names \in {<<In(5, Name(2, 0), "posix")>>},
             security \in SecurityShapes, reparse \in {None, "short", "mount"}}
    \cup {Volume(<<In(5, Name(2, 0), "posix")>>, <<Stream(1, Unnamed, <<7>>)>>, Plain, None, day) :
             day \in {Day(1979, 12, 28), Day(1979, 12, 31), Day(2107, 12, 28),
                      Day(2107, 12, 31)}}

-----------------------------------------------------------------------------
Stamp(year, increment, offset) ==
    [year |-> year, month |-> 2, day |-> 28, hour |-> 23, minute |-> 50, double |-> 29,
     increment |-> increment, offset |-> offset]
Stamps ==
    {[create |-> Stamp(0, 199, 128), modify |-> Stamp(20, 100, 0), access |-> Stamp(120, 0, 132)],
     [create |-> Stamp(0, 7, 252), modify |-> Stamp(127, 0, 128), access |-> Stamp(1, 0, 4)],
     [create |-> Stamp(0, 200, 128), modify |-> Stamp(20, 0, 0), access |-> Stamp(1, 0, 128)]}

Node(id, kind, streams) ==
    [id |-> id, kind |-> kind, links |-> 1, secured |-> FALSE, reparse |-> FALSE,
     streams |-> streams]
Payload(id, data) == NormalizeExfatStream([stream |-> id, data |-> data])

ExfatTree(where, data) ==
    [root |-> 1, objects |-> <<Node(1, "dir", <<>>), Node(2, "dir", <<>>),
                               Node(3, "file", <<Payload(3, data)>>),
                               Node(4, "file", <<Payload(4, <<4>>)>>)>>,
     entries |-> <<[parent |-> 1, target |-> 2, name |-> Name(5, 1)],
                   [parent |-> 1, target |-> 3, name |-> Name(2, 1)],
                   [parent |-> where, target |-> 4, name |-> Name(3, 0)]>>,
     extents |-> <<>>]

ExfatVolumes ==
    {[label |-> l[1], labels |-> l[2], padded |-> l[3], serial |-> 1, table |-> t,
      benign |-> b[1], benignCaptured |-> b[2], badClusters |-> c,
      badExtents |-> <<"bad">>, metadataExtents |-> <<"reserved">>] :
        l \in {<<None, 0, FALSE>>, <<<<1, 2>>, 1, FALSE>>, <<None, 1, TRUE>>},
        t \in {"recommended", "literal", "custom"},
        b \in {<<0, TRUE>>, <<1, TRUE>>, <<1, FALSE>>},
        c \in {1, 2}}

PlainVolume ==
    [label |-> <<1, 2>>, labels |-> 1, padded |-> FALSE, serial |-> 1,
     table |-> "recommended", benign |-> 0, benignCaptured |-> TRUE, badClusters |-> 1,
     badExtents |-> <<"bad">>, metadataExtents |-> <<"reserved">>]

ExfatSource(where, data, times, volume) ==
    [graph |-> ExfatTree(where, data), volume |-> volume,
     metadata |-> [id \in 2 .. 4 |->
         [attributes |-> IF id = 2 THEN {"directory"} ELSE {"archive", "readonly"},
          times |-> times]]]

MCExfatSources ==
    {ExfatSource(where, data, times, PlainVolume) :
        where \in {1, 2}, data \in {<<>>, <<1, 2, 3>>}, times \in Stamps}
    \cup {ExfatSource(2, <<1, 2, 3>>, CHOOSE t \in Stamps : t.create.increment = 199, volume) :
             volume \in ExfatVolumes}

(* The days around the ends of December, February and June, 1979 to 2108.   *)
MCMoments ==
    {[day |-> Day(year, month, day) , second |-> second, hundredth |-> 99, tick |-> 1] :
        year \in 1979 .. 2108, month \in {1, 3, 7}, day \in {0, 1}, second \in {0, 45296, 86399}}
=============================================================================
