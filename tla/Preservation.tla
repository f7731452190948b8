---------------------------- MODULE Preservation -----------------------------
(***************************************************************************)
(* Which fields of a source the target can hold, which only travel in       *)
(* escrow, and which must be refused (preservation.rs), what each guarantee *)
(* mode makes of that, and how a sidecar is written and read.               *)
(*                                                                         *)
(* A name is a sequence of UTF-16 code units, numbered in their order; the  *)
(* units that matter apart are named below.                                 *)
(***************************************************************************)
EXTENDS Normalize

CONSTANTS MaxNameUnits,            \* MAX_FILE_NAME_CODE_UNITS
          MaxSuffix                \* the last ~N that is tried

ASSUME NameAssumption == MaxNameUnits \in Nat /\ MaxSuffix \in 2 .. 99

Forbidden == 0                     \* a control character or one of "*/:<>?\|
Dot == 1
Digit(d) == 10 + d
SmallLetters == 50 .. 79           \* the capitals are 20 .. 49
Tilde == 90
HighSurrogate == 91
LowSurrogate == 92

Fields ==
    {"attributes", "streams", "links", "descriptors", "identifiers", "sparse",
     "compression", "encryption", "reparse", "times", "dos", "names", "namespaces",
     "table", "label", "serial", "benign", "padding", "bad", "extents",
     "topology", "accounting"}

Fold(name) ==
    [i \in DOMAIN name |-> IF name[i] \in SmallLetters THEN name[i] - 30 ELSE name[i]]

(* decode_utf16 reports no unpaired surrogate.                              *)
DecodesUtf16(name) ==
    \A i \in DOMAIN name :
        /\ name[i] = HighSurrogate => i < Len(name) /\ name[i + 1] = LowSurrogate
        /\ name[i] = LowSurrogate => i > 1 /\ name[i - 1] = HighSurrogate

IsLegalExfatName(name) ==
    /\ Len(name) \in 1 .. MaxNameUnits
    /\ name \notin {<<Dot>>, <<Dot, Dot>>}
    /\ Forbidden \notin ToSet(name)
    /\ DecodesUtf16(name)

(* A label is a sequence of units; 0 is a unit that exFAT refuses.          *)
BadName == 99

(* The DOS attributes that exFAT shares.                                    *)
SharedAttributes == {"readonly", "hidden", "system", "directory", "archive"}

IsCanonicalLabel(label) == Len(label) \in 1 .. 11 /\ 0 \notin ToSet(label)

EscrowIf(test) == IF test THEN "escrow" ELSE "native"

-----------------------------------------------------------------------------
(* ntfs_attribute_supported: the census names what is outside the allowlist *)
(* "unknown" and the transaction stream of user files "txf".                *)
AttributeSupported(kind, bookkeeping) ==
    kind # "unknown" /\ (kind = "txf" => bookkeeping)

CensusSupported(object) ==
    /\ object.census # {}
    /\ \A kind \in object.census :
          AttributeSupported(kind, object.metadata \/ object.ref.record = RootRecord)

ValidDescriptor(descriptor) == descriptor # "malformed"

(* An inline descriptor must be captured and valid; a nonzero identifier    *)
(* must resolve, and a zero one too when nothing is inline.                 *)
ExactSecurity(object, evidence) ==
    LET id == object.standard.security
        inline == object.secured \/ "descriptor" \in object.census IN
    /\ inline => object.descriptor # None /\ ValidDescriptor(object.descriptor)
    /\ id # None /\ (inline => id # 0) => Resolve(evidence, id) # None

ClassifySecurity(graph, sidecar) ==
    IF \A o \in ToSet(sidecar.objects) :
          (\E g \in ToSet(graph.objects) : g.id = o.ref.record)
              => ExactSecurity(o, sidecar.evidence)
    THEN "escrow" ELSE "refused"

(* Payloads of at least eight bytes: a shorter one is "short".              *)
CompleteReparse(object) == object.payload \notin {None, "short"}

ClassifyReparse(graph, sidecar) ==
    IF \A g \in ToSet(graph.objects) :
          g.reparse => CompleteReparse(Find(sidecar.objects, g.id))
    THEN "escrow" ELSE "refused"

(* $BadClus:$Bad, exactly one, completely mapped, plain and not empty.      *)
BadStreams(sidecar) ==
    {s \in UNION {ToSet(o.streams) : o \in {o \in ToSet(sidecar.objects) :
                                            o.ref.record = BadclusRecord}} :
        s.name = BadName}

ClassifyBadClusters(sidecar) ==
    IF /\ Cardinality(BadStreams(sidecar)) = 1
       /\ \A s \in BadStreams(sidecar) :
             /\ ~s.resident /\ s.complete /\ ~s.compressed /\ ~s.encrypted
             /\ s.data # <<>> /\ s.extents # <<>>
    THEN "escrow" ELSE "refused"

NamesCollide(entries) == ~DistinctBy(entries, LAMBDA e : <<e.parent, Fold(e.name)>>)

ClassifyNames(graph) ==
    IF \E e \in ToSet(graph.entries) : ~IsLegalExfatName(e.name) THEN "refused"
    ELSE IF NamesCollide(graph.entries) THEN "escrow" ELSE "transform"

NtfsAssessments(graph, sidecar) ==
    LET streams == ToSet(StreamsOf(graph.objects))
        objects == ToSet(graph.objects) IN
    [f \in Fields |->
        CASE f = "attributes" ->
                IF \A o \in ToSet(sidecar.objects) : CensusSupported(o)
                THEN "native" ELSE "refused"
          [] f = "streams" -> EscrowIf(\E s \in streams : s.named)
          [] f = "links" -> EscrowIf(\E o \in objects : o.links > 1)
          [] f = "descriptors" ->
                IF \E o \in objects : o.secured
                THEN ClassifySecurity(graph, sidecar) ELSE "native"
          [] f = "identifiers" ->
                EscrowIf(\E o \in ToSet(sidecar.objects) :
                    o.standard # None /\ o.standard.security # None)
          [] f = "sparse" -> EscrowIf(\E s \in streams : s.sparse)
          [] f = "compression" -> EscrowIf(\E s \in streams : s.compressed)
          [] f = "encryption" ->
                IF \E s \in streams : s.encrypted THEN "refused" ELSE "native"
          [] f = "reparse" ->
                IF \E o \in objects : o.reparse
                THEN ClassifyReparse(graph, sidecar) ELSE "native"
          [] f = "names" -> ClassifyNames(graph)
          [] f = "label" ->
                IF sidecar.label = None THEN "native"
                ELSE IF IsCanonicalLabel(sidecar.label) THEN "transform" ELSE "escrow"
          [] f = "bad" -> ClassifyBadClusters(sidecar)
          [] f = "dos" ->
                IF \E o \in ToSet(sidecar.objects) :
                      o.standard # None /\ ~(o.standard.attributes \subseteq SharedAttributes)
                THEN "escrow" ELSE "transform"
          [] f = "namespaces" ->
                EscrowIf(\E o \in ToSet(sidecar.objects) : o.names # <<>>)
          [] f \in {"extents", "topology"} -> EscrowIf(sidecar.extents # <<>>)
          [] f = "table" -> "transform"
          [] f \in {"benign", "padding"} -> "native"
          [] OTHER -> "escrow"]

-----------------------------------------------------------------------------
(* The exFAT side: what the directory entries carried beyond the objects.   *)
ClassifyBenign(sidecar) ==
    IF sidecar.benign = 0 THEN "native"
    ELSE IF sidecar.benignCaptured THEN "escrow" ELSE "refused"

ExfatAssessments(sidecar) ==
    [f \in Fields |->
        CASE f \in {"dos", "names", "serial"} -> "transform"
          [] f \in {"times", "table", "accounting"} -> "escrow"
          [] f = "extents" -> EscrowIf(sidecar.metadataExtents # <<>>)
          [] f = "topology" ->
                EscrowIf(\E o \in ToSet(sidecar.objects) : o.data # <<>>)
          [] f = "label" ->
                CASE sidecar.label = None -> "native"
                  [] sidecar.label = Unavailable -> "refused"
                  [] OTHER -> "transform"
          [] f = "padding" -> IF sidecar.padded THEN "refused" ELSE "native"
          [] f = "benign" -> ClassifyBenign(sidecar)
          [] f = "bad" ->
                CASE sidecar.badClusters = 0 -> "native"
                  [] sidecar.badClusters = Len(sidecar.badExtents) -> "escrow"
                  [] OTHER -> "refused"
          [] OTHER -> "native"]

(* finish_report: the fields that stop the conversion in a mode.            *)
PreservationBlockers(assessments, mode) ==
    {f \in Fields :
        CASE mode = "strict" -> assessments[f] \in {"escrow", "refused"}
          [] mode = "escrow" -> assessments[f] = "refused"
          [] mode = "content" ->
                f \in {"encryption", "names"} /\ assessments[f] = "refused"}

ExplicitLosses(assessments, mode) ==
    IF mode # "content" THEN {}
    ELSE {f \in Fields : assessments[f] \in {"escrow", "refused"}}

Permitted(assessments, mode) == PreservationBlockers(assessments, mode) = {}

-----------------------------------------------------------------------------
(* The snapshot of a sidecar is a sequence of words of 1, 2, 4 or 8 bytes.  *)
(* Fields that the sidecars of the model do not have are left out; a name,  *)
(* an up-case table or a directory entry is one word, an opaque payload one *)
(* byte. The writer, the validator and the decoder walk it independently.   *)
Word(width, value) == [width |-> width, value |-> value]
Words(widths, values) == [i \in DOMAIN widths |-> Word(widths[i], values[i])]
Flag(test) == IF test THEN 1 ELSE 0
Vector(width, list) ==
    <<Word(8, Len(list))>> \o [i \in DOMAIN list |-> Word(width, list[i])]
Listed(items) == <<Word(8, Len(items))>> \o FlattenSeq(items)
Optional(value, words) ==
    IF value = None THEN Words(<<1>>, <<0>>) ELSE Words(<<1>>, <<1>>) \o words
OptionalBytes(value) == Optional(value, Vector(1, <<value>>))

(* NtfsSnapshotLayout. Version 3 was written with and without the census;   *)
(* 5 added reparse payloads, 6 compression units, 7 captured payloads and 8 *)
(* inline descriptors.                                                      *)
Layouts == [version : 3 .. 8, census : {TRUE}] \cup {[version |-> 3, census |-> FALSE]}
CurrentLayout == [version |-> 8, census |-> TRUE]
CurrentExfatVersion == 3
Since(layout, version, words) == IF layout.version >= version THEN words ELSE <<>>

Namespaces == <<"posix", "win32", "dos", "both">>
NamespaceTag(space) == CHOOSE i \in DOMAIN Namespaces : Namespaces[i] = space

EncodeReference(ref) == Words(<<8, 2>>, <<ref.record, ref.sequence>>)
EncodeName(name) == Vector(2, <<name>>) \o Words(<<1>>, <<1>>)
EncodeFileName(n) ==
    EncodeReference(n.parent) \o Words(<<1>>, <<NamespaceTag(n.space)>>)
        \o EncodeName(n.name)

EncodeNtfsExtent(e) ==
    Words(<<8, 8, 8>>, <<e.stream, e.logical, e.length>>)
        \o IF IsPhysical(e) THEN Words(<<1, 8>>, <<1, e.at>>) ELSE Words(<<1>>, <<2>>)
EncodeNtfsExtents(extents) == Listed([k \in DOMAIN extents |-> EncodeNtfsExtent(extents[k])])

EncodeStandardInformation(standard) ==
    Words(<<8, 8, 8, 8, 4>>,
          <<standard.times.create, standard.times.modify, standard.times.change,
            standard.times.access, standard.attributes>>)
        \o Optional(standard.security, Words(<<4>>, <<standard.security>>))

(* Of a stream that is not resident only captured bytes travel.             *)
EncodeDataStream(s, layout) ==
    Words(<<2, 1>>, <<s.attribute, Flag(s.name # Unnamed)>>)
        \o (IF s.name = Unnamed THEN <<>> ELSE EncodeName(s.name))
        \o Words(<<1, 1, 1>>, <<Flag(s.compressed), Flag(s.encrypted), Flag(s.sparse)>>)
        \o Since(layout, 6, Words(<<8>>, <<Flag(s.compressed)>>))
        \o IF s.resident THEN Words(<<1>>, <<1>>) \o Vector(1, s.data)
           ELSE Words(<<1, 8, 8, 8, 1>>,
                      <<2, s.allocated, Len(s.data), s.valid, Flag(s.complete)>>)
                \o EncodeNtfsExtents(s.extents)
                \o Since(layout, 7,
                         IF s.captured THEN Words(<<1>>, <<1>>)
                                            \o Vector(1, SubSeq(s.data, 1, s.valid))
                         ELSE Words(<<1>>, <<0>>))

EncodeNtfsObject(o, layout) ==
    LET Entry(e) == EncodeReference(e.target) \o EncodeFileName(e.name)
        census == SetToSeq(o.census) IN
    EncodeReference(o.ref) \o Words(<<2, 1, 1>>, <<o.links, Flag(o.directory), Flag(o.metadata)>>)
        \o (IF o.standard = None THEN Words(<<1>>, <<0>>)
            ELSE Words(<<1>>, <<1>>) \o EncodeStandardInformation(o.standard))
        \o Listed([k \in DOMAIN o.names |-> EncodeFileName(o.names[k])])
        \o Listed([k \in DOMAIN o.streams |-> EncodeDataStream(o.streams[k], layout)])
        \o (IF layout.census THEN Vector(4, census) ELSE <<>>)
        \o Listed([k \in DOMAIN o.index |-> Entry(o.index[k])])
        \o Words(<<1, 1>>, <<Flag(o.reparse), Flag(o.indexed)>>)
        \o Since(layout, 5, OptionalBytes(o.payload))
        \o Since(layout, 8, Words(<<1>>, <<Flag(o.secured)>>) \o OptionalBytes(o.descriptor))

EncodeEvidence(evidence) ==
    CASE evidence.kind = "unavailable" -> Words(<<1>>, <<0>>)
      [] evidence.kind = "pinned" -> Words(<<1>>, <<1>>) \o Vector(1, <<"sds">>)
      [] OTHER ->
            LET ids == SetToSortSeq(DOMAIN evidence.descriptors, <)
                Pair(id) == Words(<<4>>, <<id>>) \o Vector(1, <<evidence.descriptors[id]>>)
            IN Words(<<1>>, <<2>>) \o Listed([k \in DOMAIN ids |-> Pair(ids[k])])

EncodeLabel(label) ==
    Words(<<1, 1>>, <<1, Len(label)>>) \o [k \in DOMAIN label |-> Word(2, label[k])]

EncodeNtfsSidecar(sidecar, layout) ==
    Evaluated(
        Words(<<2, 8>>, <<layout.version, sidecar.serial>>)
        \o (IF sidecar.label = None THEN Words(<<1>>, <<0>>) ELSE EncodeLabel(sidecar.label))
        \o EncodeEvidence(sidecar.evidence)
        \o Listed([i \in DOMAIN sidecar.objects |->
                      Words(<<8>>, <<sidecar.objects[i].ref.record>>)
                          \o EncodeNtfsObject(sidecar.objects[i], layout)])
        \o EncodeNtfsExtents(sidecar.extents))

-----------------------------------------------------------------------------
(* SnapshotCursor: the words that are left and the values read so far. A    *)
(* failure leaves a word that nothing can read and nothing can skip. Steps  *)
(* are applied to the cursor from the inside out.                           *)
Broken == <<Word(0, 0)>>
Cursor(words) == [rest |-> words, got |-> <<>>]

Take(c, widths) ==
    IF /\ Len(widths) <= Len(c.rest)
       /\ \A i \in DOMAIN widths : c.rest[i].width = widths[i]
    THEN [rest |-> SubSeq(c.rest, Len(widths) + 1, Len(c.rest)),
          got |-> c.got \o [i \in DOMAIN widths |-> c.rest[i].value]]
    ELSE [rest |-> Broken, got |-> c.got \o [i \in DOMAIN widths |-> 0]]

Require(c, test) == IF test THEN c ELSE [c EXCEPT !.rest = Broken]
Push(c, next) == [rest |-> next.rest, got |-> Append(c.got, next.got)]
PushValue(c, value) == [c EXCEPT !.got = Append(@, value)]
ReplaceLast(c, next) == [rest |-> next.rest, got |-> Append(Front(c.got), next.got)]

BytesOf(words) ==
    LET Wide(n) == n * Cardinality({i \in DOMAIN words : words[i].width = n})
    IN Wide(1) + Wide(2) + Wide(4) + Wide(8)

(* A count that the remaining bytes cannot hold is refused before it is     *)
(* used.                                                                    *)
TakeCount(c, minimum) ==
    LET Checked(n) ==
            IF Last(n.got) * minimum <= BytesOf(n.rest) THEN n
            ELSE [rest |-> Broken, got |-> Append(c.got, 0)]
    IN Checked(Take(c, <<8>>))

TakeVector(c, width) ==
    LET Gathered(n) ==
            ReplaceLast(n, Take(Cursor(n.rest), [i \in 1 .. Last(n.got) |-> width]))
    IN Gathered(TakeCount(c, width))

(* One decodes an item from the words and answers [rest, got]; the first    *)
(* failure is the last item.                                                *)
TakeCounted(c, minimum, One(_)) ==
    LET Item(list, i) == IF list.rest = Broken THEN list ELSE Push(list, One(list.rest))
        Repeated(n) ==
            ReplaceLast(n, FoldLeft(Item, Cursor(n.rest), [i \in 1 .. Last(n.got) |-> i]))
    IN Repeated(TakeCount(c, minimum))

(* The flag stays under the value; a payload is its only byte.              *)
TakeOptional(c, Present(_), absent) ==
    LET After(flag) == IF Last(flag.got) = 1 THEN Present(flag) ELSE PushValue(flag, absent)
    IN After(Take(c, <<1>>))
OnlyItem(c) == [c EXCEPT !.got = Append(Front(@), Head(Append(Last(@), None)))]
TakePayload(c) == OnlyItem(TakeVector(c, 1))
TakeOptionalBytes(c) == TakeOptional(c, TakePayload, None)

-----------------------------------------------------------------------------
(* decode_ntfs_preservation_sidecar: the current version only. The flag of  *)
(* a name says that its units are well formed, and they are.                *)
TakeName(c) ==
    LET Checked(n) == Require([n EXCEPT !.got = Front(@)], Last(n.got) = 1)
    IN Checked(Take(OnlyItem(TakeVector(c, 2)), <<1>>))

Spaced(tag) == IF tag \in DOMAIN Namespaces THEN Namespaces[tag] ELSE None

DecodeFileName(words) ==
    LET Built(c) ==
            Require([rest |-> c.rest,
                     got |-> [parent |-> [record |-> c.got[1], sequence |-> c.got[2]],
                              name |-> c.got[4], space |-> Spaced(c.got[3])]],
                    c.got[3] \in DOMAIN Namespaces)
    IN Built(TakeName(Take(Cursor(words), <<8, 2, 1>>)))

DecodeDirectoryEntry(words) ==
    LET Built(c) ==
            [rest |-> c.rest,
             got |-> [target |-> [record |-> c.got[1], sequence |-> c.got[2]],
                      name |-> c.got[3]]]
        Named(c) == Push(c, DecodeFileName(c.rest))
    IN Built(Named(Take(Cursor(words), <<8, 2>>)))

DecodeNtfsExtent(words) ==
    LET Placed(c) == IF c.got[4] = 1 THEN Take(c, <<8>>) ELSE PushValue(c, Sparse)
        Built(c) ==
            Require([rest |-> c.rest,
                     got |-> [stream |-> c.got[1], logical |-> c.got[2],
                              length |-> c.got[3], at |-> c.got[5], kind |-> "file"]],
                    c.got[4] \in {1, 2})
    IN Built(Placed(Take(Cursor(words), <<8, 8, 8, 1>>)))

DecodeStandardInformation(words) ==
    LET Id(c) == Take(c, <<4>>)
        Built(c) ==
            [rest |-> c.rest,
             got |-> [times |-> [create |-> c.got[1], modify |-> c.got[2],
                                 change |-> c.got[3], access |-> c.got[4]],
                      attributes |-> c.got[5], security |-> c.got[7]]]
    IN Built(TakeOptional(Take(Cursor(words), <<8, 8, 8, 8, 4>>), Id, None))

(* Bytes that did not travel have a length and no value.                    *)
Unread == -1
DecodedPayload(length, captured) ==
    [i \in 1 .. length |-> IF i <= Len(captured) THEN captured[i] ELSE Unread]

DecodeResident(words) ==
    LET Built(c) ==
            [rest |-> c.rest,
             got |-> [resident |-> TRUE, data |-> c.got[1], valid |-> Len(c.got[1]),
                      allocated |-> 0, complete |-> TRUE, extents |-> <<>>,
                      captured |-> FALSE]]
    IN Built(TakeVector(Cursor(words), 1))

DecodeNonResident(words) ==
    LET Captured(c) == TakeVector(c, 1)
        Built(c) ==
            [rest |-> c.rest,
             got |-> [resident |-> FALSE, data |-> DecodedPayload(c.got[2], c.got[7]),
                      valid |-> c.got[3], allocated |-> c.got[1], complete |-> c.got[4] = 1,
                      extents |-> c.got[5], captured |-> c.got[6] = 1]]
    IN Built(TakeOptional(
                 TakeCounted(Take(Cursor(words), <<8, 8, 8, 1>>), 1, DecodeNtfsExtent),
                 Captured, <<>>))

DecodeDataStream(words) ==
    LET Stored(c) ==
            CASE c.got[8] = 1 -> Push(c, DecodeResident(c.rest))
              [] c.got[8] = 2 -> Push(c, DecodeNonResident(c.rest))
              [] OTHER -> PushValue(Require(c, FALSE), [data |-> <<>>])
        Built(c) ==
            [rest |-> c.rest,
             got |-> c.got[9] @@
                     [attribute |-> c.got[1], name |-> c.got[3],
                      compressed |-> c.got[4] = 1, encrypted |-> c.got[5] = 1,
                      sparse |-> c.got[6] = 1]]
    IN Built(Stored(Take(TakeOptional(Take(Cursor(words), <<2>>), TakeName, Unnamed),
                         <<1, 1, 1, 8, 1>>)))

DecodeNtfsObject(words) ==
    LET Standard(c) == Push(c, DecodeStandardInformation(c.rest))
        Start(c) == TakeOptional(Take(c, <<8, 8, 2, 2, 1, 1>>), Standard, None)
        Names(c) == TakeCounted(c, 1, DecodeFileName)
        Streams(c) == TakeCounted(c, 1, DecodeDataStream)
        Index(c) == TakeCounted(TakeVector(c, 4), 1, DecodeDirectoryEntry)
        Reparse(c) == TakeOptionalBytes(Take(c, <<1, 1>>))
        Security(c) == TakeOptionalBytes(Take(c, <<1>>))
        Built(c) ==
            [rest |-> c.rest,
             got |-> [ref |-> [record |-> c.got[2], sequence |-> c.got[3]],
                      links |-> c.got[4], directory |-> c.got[5] = 1,
                      metadata |-> c.got[6] = 1, standard |-> c.got[8], names |-> c.got[9],
                      streams |-> c.got[10], census |-> ToSet(c.got[11]),
                      index |-> c.got[12], reparse |-> c.got[13] = 1,
                      indexed |-> c.got[14] = 1, payload |-> c.got[16],
                      secured |-> c.got[17] = 1, descriptor |-> c.got[19]]]
    IN Built(Security(Reparse(Index(Streams(Names(Start(Cursor(words))))))))

(* Strictly ascending, nonzero, each one a valid descriptor.                *)
DecodeParsedDescriptors(words) ==
    LET Pair(rest) ==
            LET Checked(c) == Require(c, c.got[1] # 0 /\ ValidDescriptor(c.got[2]))
            IN Checked(TakePayload(Take(Cursor(rest), <<4>>)))
        Built(pairs) ==
            Require([rest |-> pairs.rest,
                     got |-> [kind |-> "parsed",
                              descriptors |-> [id \in {p[1] : p \in ToSet(pairs.got)} |->
                                  (CHOOSE p \in ToSet(pairs.got) : p[1] = id)[2]]]],
                    \A k \in 1 .. Len(pairs.got) - 1 : pairs.got[k][1] < pairs.got[k + 1][1])
        Only(c) == [c EXCEPT !.got = c.got[1]]
    IN Built(Only(TakeCounted(Cursor(words), 12, Pair)))

DecodeEvidence(words) ==
    LET Tagged(c) ==
            CASE c.got[1] = 0 -> [rest |-> c.rest, got |-> [kind |-> "unavailable"]]
              [] c.got[1] = 1 -> [rest |-> TakeVector(c, 1).rest, got |-> [kind |-> "pinned"]]
              [] c.got[1] = 2 -> DecodeParsedDescriptors(c.rest)
              [] OTHER -> [rest |-> Broken, got |-> None]
    IN Tagged(Take(Cursor(words), <<1>>))

TakeUnits(c, maximum) ==
    LET Gathered(n) ==
            IF Last(n.got) > maximum THEN Require(n, FALSE)
            ELSE ReplaceLast(n, Take(Cursor(n.rest), [i \in 1 .. Last(n.got) |-> 2]))
    IN Gathered(Take(c, <<1>>))
TakeNtfsLabel(c) == TakeUnits(c, MaxLabel)

DecodeNtfsSidecar(words) ==
    LET Evidence(c) == Push(c, DecodeEvidence(c.rest))
        Objects(c) == TakeCounted(c, 1, DecodeNtfsObject)
        Extents(c) == TakeCounted(c, 25, DecodeNtfsExtent)
        Built(c) ==
            IF c.rest # <<>> THEN None
            ELSE Evaluated([serial |-> c.got[2], label |-> c.got[4], evidence |-> c.got[5],
                            objects |-> c.got[6], extents |-> c.got[7]])
    IN IF Head(words).value # CurrentLayout.version THEN None
       ELSE Built(Extents(Objects(Evidence(
                TakeOptional(Take(Cursor(words), <<2, 8>>), TakeNtfsLabel, None)))))

-----------------------------------------------------------------------------
(* validate_ntfs_snapshot walks every layout and keeps nothing.             *)
Skip(words, widths) == Take(Cursor(words), widths).rest
SkipVector(words, width) == TakeVector(Cursor(words), width).rest
SkipOptionalBytes(words) == TakeOptionalBytes(Cursor(words)).rest

SkipCounted(words, minimum, One(_)) ==
    LET Item(rest, i) == IF rest = Broken THEN Broken ELSE One(rest)
        Repeated(n) == FoldLeft(Item, n.rest, [i \in 1 .. n.got[1] |-> i])
    IN Repeated(TakeCount(Cursor(words), minimum))

SkipOptional(words, Present(_)) ==
    LET After(flag) == IF flag.got[1] = 1 THEN Present(flag.rest) ELSE flag.rest
    IN After(Take(Cursor(words), <<1>>))

ValidateName(words) == TakeName(Cursor(words)).rest
ValidateFileName(words) ==
    LET Tagged(c) == IF c.got[3] \in 1 .. 4 THEN ValidateName(c.rest) ELSE Broken
    IN Tagged(Take(Cursor(words), <<8, 2, 1>>))
ValidateDirectoryEntry(words) == ValidateFileName(Skip(words, <<8, 2>>))

(* exFAT extents say what they are.                                         *)
ValidateExtent(words, includesKind) ==
    LET Kind(c) == IF Last(c.got) \in 1 .. 5 THEN c.rest ELSE Broken
        Placed(c) ==
            CASE c.got[4] = 1 -> Take(c, <<8>>)
              [] c.got[4] = 2 -> c
              [] OTHER -> Require(c, FALSE)
        After(c) == IF includesKind THEN Kind(Take(c, <<1>>)) ELSE c.rest
    IN After(Placed(Take(Cursor(words), <<8, 8, 8, 1>>)))
ValidateNtfsExtent(words) == ValidateExtent(words, FALSE)

ValidateStream(words, layout) ==
    LET Bytes(rest) == SkipVector(rest, 1)
        Captured(rest) == IF layout.version >= 7 THEN SkipOptional(rest, Bytes) ELSE rest
        Stored(c) ==
            CASE c.got[1] = 1 -> SkipVector(c.rest, 1)
              [] c.got[1] = 2 ->
                    Captured(SkipCounted(Skip(c.rest, <<8, 8, 8, 1>>), 25, ValidateNtfsExtent))
              [] OTHER -> Broken
        Unit(rest) == IF layout.version >= 6 THEN Skip(rest, <<8>>) ELSE rest
        Named(rest) == SkipOptional(Skip(rest, <<2>>), ValidateName)
    IN Stored(Take(Cursor(Unit(Skip(Named(words), <<1, 1, 1>>))), <<1>>))

ValidateNtfsObject(words, layout) ==
    LET Stream(rest) == ValidateStream(rest, layout)
        Id(rest) == Skip(rest, <<4>>)
        Standard(rest) == SkipOptional(Skip(rest, <<8, 8, 8, 8, 4>>), Id)
        Start(rest) == SkipOptional(Skip(rest, <<8, 8, 2, 2, 1, 1>>), Standard)
        Lists(rest) == SkipCounted(SkipCounted(rest, 1, ValidateFileName), 1, Stream)
        Census(rest) == IF layout.census THEN SkipVector(rest, 4) ELSE rest
        Index(rest) == Skip(SkipCounted(rest, 1, ValidateDirectoryEntry), <<1, 1>>)
        Reparse(rest) == IF layout.version >= 5 THEN SkipOptionalBytes(rest) ELSE rest
        Security(rest) ==
            IF layout.version >= 8 THEN SkipOptionalBytes(Skip(rest, <<1>>)) ELSE rest
    IN Security(Reparse(Index(Census(Lists(Start(words))))))

ValidatesNtfs(words, layout) ==
    LET Object(rest) == ValidateNtfsObject(rest, layout)
        Label(rest) == TakeNtfsLabel(Cursor(rest)).rest
        Evidence(rest) == DecodeEvidence(rest).rest
        Lists(rest) == SkipCounted(SkipCounted(rest, 1, Object), 25, ValidateNtfsExtent)
    IN /\ Head(words).value = layout.version
       /\ Lists(Evidence(SkipOptional(Skip(words, <<2, 8>>), Label))) = <<>>

(* decode_ntfs_volume_identity and decode_ntfs_security_descriptors look at *)
(* fixed places instead of walking.                                         *)
NtfsVolumeIdentity(words) ==
    [serial |-> words[2].value,
     label |-> IF words[3].value = 0 THEN None
               ELSE [i \in 1 .. words[4].value |-> words[4 + i].value]]
NtfsSecurityAt(words) == IF words[3].value = 0 THEN 4 ELSE 5 + words[4].value
NtfsSecurityEscrow(words) ==
    DecodeEvidence(SubSeq(words, NtfsSecurityAt(words), Len(words))).got

-----------------------------------------------------------------------------
(* encode_exfat_sidecar; version 2 had no benign bytes. A timestamp is its  *)
(* 32-bit field with the increment and the offset kept apart.               *)
DosTime(stamp) == [stamp EXCEPT !.increment = 0, !.offset = 0]
EncodeExfatTimestamps(times) ==
    Words(<<4, 4, 4, 1, 1, 1, 1, 1>>,
          <<DosTime(times.create), DosTime(times.modify), DosTime(times.access),
            times.create.increment, times.modify.increment,
            times.create.offset, times.modify.offset, times.access.offset>>)

EncodeExfatObject(o, version) ==
    Words(<<8>>, <<o.stream>>)
        \o Listed([k \in DOMAIN o.path |-> Vector(2, <<o.path[k]>>)])
        \o Words(<<2>>, <<o.attributes>>)
        \o (IF o.times = None THEN Words(<<1>>, <<0>>)
            ELSE Words(<<1>>, <<1>>) \o EncodeExfatTimestamps(o.times))
        \o Words(<<1>>, <<0>>) \o (IF version >= 3 THEN Vector(1, <<>>) ELSE <<>>)

EncodeExtent(kind) ==
    Words(<<8, 8, 8, 1, 8, 1>>, <<0, 0, 1, 1, 0, IF kind = "bad" THEN 5 ELSE 4>>)

EncodeExfatSidecar(sidecar, version) ==
    LET extents == sidecar.metadataExtents \o sidecar.badExtents
        sets == IF sidecar.benignCaptured THEN sidecar.benign ELSE 0 IN
    Evaluated(
        Words(<<2, 4>>, <<version, sidecar.serial>>)
        \o (CASE sidecar.label = None -> Words(<<1>>, <<0>>)
              [] sidecar.label = Unavailable -> Words(<<1>>, <<2>>)
              [] OTHER -> EncodeLabel(sidecar.label))
        \o Words(<<4>>, <<sidecar.table>>) \o Vector(2, <<sidecar.table>>)
        \o Listed([i \in DOMAIN sidecar.objects |->
                      EncodeExfatObject(sidecar.objects[i], version)])
        \o Listed([i \in DOMAIN extents |-> EncodeExtent(extents[i])])
        \o Words(<<8, 8, 1, 8>>,
                 <<sidecar.benign, 0, Flag(sidecar.padded), sidecar.badClusters>>)
        \o (IF version >= 3
            THEN Listed([i \in 1 .. sets |-> Words(<<8, 1>>, <<1, 0>>) \o Vector(1, <<"entry">>)])
            ELSE <<>>))

(* decode_exfat_restore_sidecar: what a restore needs, the rest is skipped. *)
DecodeComponent(words) ==
    LET Only(c) == [c EXCEPT !.got = c.got[1]]
    IN Only(OnlyItem(TakeVector(Cursor(words), 2)))

DecodeExfatTimestamps(words) ==
    LET Built(c) ==
            [rest |-> c.rest,
             got |-> [create |-> [c.got[1] EXCEPT !.increment = c.got[4], !.offset = c.got[6]],
                      modify |-> [c.got[2] EXCEPT !.increment = c.got[5], !.offset = c.got[7]],
                      access |-> [c.got[3] EXCEPT !.offset = c.got[8]]]]
    IN Built(Take(Cursor(words), <<4, 4, 4, 1, 1, 1, 1, 1>>))

DecodeExfatObject(words) ==
    LET Stamped(c) == Push(c, DecodeExfatTimestamps(c.rest))
        Path(c) == Take(TakeCounted(c, 8, DecodeComponent), <<2>>)
        Benign(c) == TakeVector(Take(c, <<1>>), 1)
        Built(c) ==
            Require([rest |-> c.rest,
                     got |-> [path |-> c.got[2], attributes |-> c.got[3], times |-> c.got[5]]],
                    Len(c.got[7]) = c.got[6])
    IN Built(Benign(TakeOptional(Path(Take(Cursor(words), <<8>>)), Stamped, None)))

(* Sets of whole entries, each in its directory.                            *)
ValidateBenignSet(words) ==
    LET Whole(c) == IF c.got[1] = <<>> THEN Broken ELSE c.rest
    IN Whole(TakeVector(Cursor(Skip(words, <<8, 1>>)), 1))
ValidateExfatExtent(words) == ValidateExtent(words, TRUE)

DecodeExfatLabel(words) ==
    LET Only(c) == [c EXCEPT !.got = c.got[1]]
        Tagged(c) ==
            CASE c.got[1] = 0 -> [rest |-> c.rest, got |-> None]
              [] c.got[1] = 1 -> Only(TakeUnits(Cursor(c.rest), 11))
              [] c.got[1] = 2 -> [rest |-> c.rest, got |-> Unavailable]
              [] OTHER -> [rest |-> Broken, got |-> None]
    IN Tagged(Take(Cursor(words), <<1>>))

DecodeExfatSidecar(words) ==
    LET Label(c) == Push(c, DecodeExfatLabel(c.rest))
        Table(c) == TakeVector(Take(c, <<4>>), 2)
        Objects(c) == TakeCounted(c, 1, DecodeExfatObject)
        Extents(c) == [c EXCEPT !.rest = SkipCounted(c.rest, 26, ValidateExfatExtent)]
        Evidence(c) == Take(c, <<8, 8, 1, 8>>)
        Sets(c) == [rest |-> SkipCounted(c.rest, 17, ValidateBenignSet),
                    got |-> TakeCount(c, 17).got]
        Built(c) ==
            IF c.rest # <<>> \/ Len(c.got[5]) # 1 \/ c.got[11] # c.got[7] THEN None
            ELSE Evaluated([serial |-> c.got[2], label |-> c.got[3], table |-> c.got[5][1],
                            objects |-> c.got[6], benign |-> c.got[11] + c.got[8]])
    IN IF Head(words).value # CurrentExfatVersion THEN None
       ELSE Built(Sets(Evidence(Extents(Objects(Table(Label(
                Take(Cursor(words), <<2, 4>>))))))))

ValidateExfatObject(words, version) ==
    LET Component(rest) == SkipVector(rest, 2)
        Stamped(rest) == Skip(rest, <<4, 4, 4, 1, 1, 1, 1, 1>>)
        Path(rest) == Skip(SkipCounted(Skip(rest, <<8>>), 8, Component), <<2>>)
        Agrees(c) == IF Len(c.got[2]) = c.got[1] THEN c.rest ELSE Broken
        Benign(c) == IF version >= 3 THEN Agrees(TakeVector(c, 1)) ELSE c.rest
    IN Benign(Take(Cursor(SkipOptional(Path(words), Stamped)), <<1>>))

ValidatesExfat(words) ==
    LET version == Head(words).value
        Object(rest) == ValidateExfatObject(rest, version)
        Label(rest) == DecodeExfatLabel(rest).rest
        Table(rest) == SkipVector(Skip(rest, <<4>>), 2)
        Lists(rest) == SkipCounted(SkipCounted(rest, 1, Object), 26, ValidateExfatExtent)
        Sets(rest) == IF version >= 3 THEN SkipCounted(rest, 17, ValidateBenignSet) ELSE rest
    IN /\ version \in {2, CurrentExfatVersion}
       /\ Sets(Skip(Lists(Table(Label(Skip(words, <<2, 4>>)))), <<8, 8, 1, 8>>)) = <<>>

ExfatVolumeIdentity(words) ==
    [serial |-> words[2].value,
     label |-> CASE words[3].value = 0 -> None
                 [] words[3].value = 1 -> [i \in 1 .. words[4].value |-> words[4 + i].value]
                 [] OTHER -> Unavailable]

(* decode_escrow: version 3 of NTFS is tried without the census first.      *)
AcceptsEscrow(source, words) ==
    IF source = "exfat" THEN ValidatesExfat(words)
    ELSE \E layout \in Layouts :
            layout.version = words[1].value /\ ValidatesNtfs(words, layout)
=============================================================================
