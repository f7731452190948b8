---------------------------- MODULE PreparedPlan -----------------------------
(***************************************************************************)
(* The prepared conversion (conversion.rs, PreparedConversion): what build  *)
(* accepts, the recovery bundle (recovery.rs) and the durable envelope      *)
(* (conversion/prepared_envelope.rs) that a restart reconstructs it from.   *)
(*                                                                         *)
(* A digest is the value that was hashed. Encoded data is a sequence of     *)
(* words, one for every integer field and one for every payload byte;       *)
(* padding is left out. A result is [error, plan]; "none" is success.       *)
(***************************************************************************)
EXTENDS Geometry, ImageViews

CONSTANTS EnvelopeLimits,   \* PreparedEnvelopeLimits: [words, entries, bytes, recovery, logical]
          HeaderWords,      \* words of the envelope's header
          FrameWords        \* words of a capsule generation's header

Kinds == <<"boot", "allocation", "namespace", "journal", "capsule", "other">>
FeatureOrder == <<"acl", "streams", "compression", "efs", "links", "reparse", "sparse", "case">>
KeyIn(order, name) == (CHOOSE i \in DOMAIN order : order[i] = name) - 1

(* ensure_order: strict, so nothing is listed twice.                        *)
StrictlyOrdered(keys) == \A i \in 1 .. Len(keys) - 1 : KeyBefore(keys[i], keys[i + 1])

Keys(seq, Key(_)) == [i \in DOMAIN seq |-> Key(seq[i])]

RangeKey(r) == <<r.offset, r.length>>
ReservationKey(r) == <<r.range.offset, r.range.length, KeyIn(Kinds, r.kind)>>
ReservedWriteKey(v) == <<v.write.offset, Len(v.write.bytes), KeyIn(Kinds, v.kind)>>
FeatureKey(rule) == <<KeyIn(FeatureOrder, rule.feature)>>
WriteKey(w) == <<w.offset>>

-----------------------------------------------------------------------------
(* What build demands of its evidence.                                      *)

CleanOffline(evidence) == evidence.health = "clean" /\ evidence.access = "offline"

ValidPreflight(graph, evidence, filesystem) ==
    /\ evidence.filesystem # "unknown" /\ filesystem # "unknown"
    /\ evidence.filesystem # filesystem
    /\ graph.volume = evidence.image.bytes
    /\ evidence.inventory /\ evidence.allocations
    /\ CleanOffline(evidence)
    /\ \A n \in {evidence.sector, evidence.alignment} : n # 0 /\ IsPowerOfTwo(n)
    /\ evidence.alignment % evidence.sector = 0

NativeFeature(filesystem, feature) == filesystem = "ntfs" /\ feature # "case"

(* A rule is [feature, method, schema, digest].                             *)
ValidRule(rule, filesystem) ==
    IF rule.method = "native" THEN NativeFeature(filesystem, rule.feature)
    ELSE rule.schema # 0 /\ rule.digest # 0

ValidFeatures(graph, rules, filesystem, maximum) ==
    /\ Len(rules) <= maximum
    /\ DistinctBy(rules, LAMBDA r : r.feature)
    /\ \A f \in FeaturesOf(graph.objects) :
          \E r \in ToSet(rules) : r.feature = f /\ ValidRule(r, filesystem)
    /\ \A r \in ToSet(rules) : r.feature \in FeaturesOf(graph.objects)

(* is_graph_allocation: an extent of the graph, stream and place.           *)
ExtentsOf(graph, allocation) ==
    {e \in ToSet(graph.extents) :
        /\ IsPhysical(e) /\ Physical(e) = allocation.range
        /\ e.stream = allocation.stream /\ e.logical = allocation.logical}

ValidSourceAllocations(graph, allocations) ==
    /\ \A e \in ToSet(PhysicalExtents(graph.extents)) :
          \E a \in ToSet(allocations) :
             e \in ExtentsOf(graph, a) /\ (a.movable => e.kind = "file")
    /\ \A a \in ToSet(allocations) : a.movable =>
          \E e \in ExtentsOf(graph, a) : e.kind = "file"

(* partition_source_allocations: what the graph does not know is retired    *)
(* metadata, kept only while the source may still be needed.                *)
LiveAllocations(graph, allocations) ==
    Selected(allocations, LAMBDA a : ExtentsOf(graph, a) # {})
StagingExclusions(graph, allocations) ==
    LET rest == Selected(allocations, LAMBDA a : ExtentsOf(graph, a) = {}) IN
    [i \in DOMAIN rest |-> rest[i].range]

RequiredReservations(reservations) ==
    \A kind \in {"boot", "allocation", "namespace"} :
        \E r \in ToSet(reservations) : r.kind = kind

-----------------------------------------------------------------------------
(* The six write sets: staging, backup and activation of [kind, write], and *)
(* the before-images stagingBack, backupBack and activationBack.            *)

Plain(values) == [i \in DOMAIN values |-> values[i].write]

FinalWrites(w) == Plain(w.staging) \o Plain(w.backup) \o Plain(w.activation)
Rollbacks(w) == w.stagingBack \o w.backupBack \o w.activationBack

StagingRollback(before, w) == before \o w.stagingBack

(* Mutant: the destinations of the relocations are left as they are.        *)
PreactivationForgets(before, w) == w.stagingBack \o w.backupBack

PreactivationRollback(before, w) == StagingRollback(before, w) \o w.backupBack
FullRollback(before, w) == PreactivationRollback(before, w) \o w.activationBack

WithinWriteCaps(w, before, limits) ==
    LET all == FinalWrites(w) \o Rollbacks(w) \o before IN
    Len(all) <= limits.writes /\ TotalBytes(all) <= limits.bytes

NonEmptySets(w) == \A field \in DOMAIN w : w[field] # <<>>

ReservedIn(value, reservations) ==
    \E r \in ToSet(reservations) :
        /\ r.kind = value.kind
        /\ r.range.offset <= value.write.offset
        /\ End(Extents(value.write)) <= End(r.range)

WritesReserved(w, reservations) ==
    /\ \A v \in ToSet(w.backup \o w.activation) : v.kind = "boot"
    /\ \A v \in ToSet(w.staging) : v.kind \notin {"boot", "capsule"}
    /\ \A v \in ToSet(w.staging \o w.backup \o w.activation) : ReservedIn(v, reservations)

RangesOf(writes) == SortedOn([i \in DOMAIN writes |-> Extents(writes[i])], RangeKey)

RollbackPaired(w) ==
    /\ RangesOf(Plain(w.staging)) = RangesOf(w.stagingBack)
    /\ RangesOf(Plain(w.backup)) = RangesOf(w.backupBack)
    /\ RangesOf(Plain(w.activation)) = RangesOf(w.activationBack)

(* validate_relocation_before_image_ranges: before is sorted.               *)
BeforeImagesExact(layout, before) ==
    SortedOn([i \in DOMAIN layout.relocations |-> layout.relocations[i].destination[1]],
             RangeKey)
        = [i \in DOMAIN before |-> Extents(before[i])]

SortedWrites(w) ==
    [staging |-> SortedOn(w.staging, ReservedWriteKey),
     backup |-> SortedOn(w.backup, ReservedWriteKey),
     activation |-> SortedOn(w.activation, ReservedWriteKey),
     stagingBack |-> SortedOn(w.stagingBack, WriteKey),
     backupBack |-> SortedOn(w.backupBack, WriteKey),
     activationBack |-> SortedOn(w.activationBack, WriteKey)]

Overlays(before, w) ==
    [candidate |-> OrderedWrites(FinalWrites(w)),
     relocation |-> OrderedWrites(before),
     staging |-> OrderedWrites(StagingRollback(before, w)),
     preactivation |-> OrderedWrites(PreactivationRollback(before, w)),
     full |-> OrderedWrites(FullRollback(before, w))]

OverlaysAccepted(before, w) ==
    /\ OverlayAccepted(FinalWrites(w)) /\ OverlayAccepted(before)
    /\ OverlayAccepted(StagingRollback(before, w))
    /\ OverlayAccepted(PreactivationRollback(before, w))
    /\ OverlayAccepted(FullRollback(before, w))

-----------------------------------------------------------------------------
(* Digests. digest_graph sorts objects, streams and entries, which graphs   *)
(* of equal content list alike here; digest_plan covers neither the free    *)
(* ranges nor the transaction.                                              *)

DigestGraph(graph) ==
    [root |-> graph.root, objects |-> graph.objects, entries |-> graph.entries,
     extents |-> graph.extents]

DigestOverlayWrites(writes) == OrderedWrites(writes)

DigestSourceIdentity(evidence, graphDigest) ==
    <<evidence.image, evidence.source, evidence.manifest, graphDigest>>

DigestPlan(p) ==
    [graphs |-> <<p.sourceGraph, p.targetGraph>>,
     filesystems |-> <<p.preflight.filesystem, p.filesystem>>,
     geometry |-> <<p.preflight.image.bytes, p.preflight.sector, p.preflight.alignment>>,
     manifest |-> p.preflight.manifest, features |-> p.features,
     reservations |-> p.reservations, relocations |-> p.layout.relocations,
     forward |-> <<p.writes.staging, p.writes.backup, p.writes.activation>>,
     back |-> <<DigestOverlayWrites(p.writes.stagingBack),
                DigestOverlayWrites(p.writes.backupBack),
                DigestOverlayWrites(p.writes.activationBack),
                DigestOverlayWrites(p.before)>>]

Commitments(before, w) ==
    [candidate |-> DigestOverlayWrites(FinalWrites(w)),
     relocation |-> DigestOverlayWrites(before),
     staging |-> DigestOverlayWrites(StagingRollback(before, w)),
     preactivation |-> DigestOverlayWrites(PreactivationRollback(before, w)),
     full |-> DigestOverlayWrites(FullRollback(before, w))]

RelocatedBytes(layout) == SumOf(layout.relocations, LAMBDA r : r.source.length)
LargestFree(layout) ==
    Max({layout.free[i].length : i \in DOMAIN layout.free} \cup {0})

-----------------------------------------------------------------------------
(* Words. An entry is written field by field; a write is followed by its    *)
(* bytes.                                                                   *)

RangeWords(r) == <<r.offset, r.length>>
ReservationWords(r) == RangeWords(r.range) \o <<KeyIn(Kinds, r.kind)>>
RelocationWords(r) ==
    <<r.stream, r.logical>> \o RangeWords(r.source) \o RangeWords(r.destination[1])
FeatureWords(rule) ==
    <<KeyIn(FeatureOrder, rule.feature)>>
    \o (IF rule.method = "native" THEN <<0, 0, 0>> ELSE <<1, rule.schema, rule.digest>>)
RollbackWords(w) == <<w.offset, Len(w.bytes)>> \o w.bytes
ReservedWords(v) == <<KeyIn(Kinds, v.kind)>> \o RollbackWords(v.write)

Written(seq, Words(_)) == FlattenSeq([i \in DOMAIN seq |-> Words(seq[i])])

(* Writes read back from words: every one has header words before its       *)
(* bytes, the last two of them its offset and its length. Nothing may be    *)
(* empty, cut short or left over.                                           *)
NotWrites == [ok |-> FALSE, values |-> <<>>]

ReadWrite(words, header, read) ==
    LET length == words[read.at + header] IN
    IF \/ ~read.ok
       \/ Len(words) < read.at + header
       \/ length = 0
       \/ Len(words) < read.at + header + length THEN [read EXCEPT !.ok = FALSE]
    ELSE [ok |-> TRUE, at |-> read.at + header + length,
          values |-> Append(read.values,
              [key |-> words[read.at + 1],
               write |-> [offset |-> words[read.at + header - 1],
                          bytes |-> SubSeq(words, read.at + header + 1,
                                           read.at + header + length)]])]

WritesRead(words, count, header) ==
    LET read[k \in 0 .. count] ==
            IF k = 0 THEN [ok |-> TRUE, at |-> 0, values |-> <<>>]
            ELSE ReadWrite(words, header, read[k - 1])
        Whole(end) == IF end.ok /\ end.at = Len(words)
                      THEN [ok |-> TRUE, values |-> end.values] ELSE NotWrites
    IN Whole(read[count])

-----------------------------------------------------------------------------
(* The recovery bundle: the plan's digest, the number of before-images in   *)
(* each of the four groups, and the before-images.                          *)

BundleGroups(bundle) ==
    <<bundle.relocation, bundle.staging, bundle.backup, bundle.activation>>

ValidBundle(bundle, maxWrites, maxBytes) ==
    LET all == FlattenSeq(BundleGroups(bundle)) IN
    /\ maxWrites # 0 /\ maxBytes # 0
    /\ Len(all) <= maxWrites /\ TotalBytes(all) <= maxBytes
    /\ \A w \in ToSet(all) : w.bytes # <<>>
    /\ Apart(OrderedWrites(all))

EncodeRecoveryBundle(bundle) ==
    <<bundle.plan>>
    \o [i \in 1 .. 4 |-> Len(BundleGroups(bundle)[i])]
    \o Written(FlattenSeq(BundleGroups(bundle)), RollbackWords)

NotBundle == [ok |-> FALSE, bundle |-> <<>>]

DecodeRecoveryBundle(payload, maxWrites, maxBytes) ==
    LET counts == SubSeq(payload, 2, 5)
        Before(i) == FoldLeft(LAMBDA a, b : a + b, 0, SubSeq(counts, 1, i - 1))
        Group(all, i) == Plain(SubSeq(all, Before(i) + 1, Before(i) + counts[i]))
        Bundle(all) ==
            [plan |-> payload[1], relocation |-> Group(all, 1), staging |-> Group(all, 2),
             backup |-> Group(all, 3), activation |-> Group(all, 4)]
        Checked(bundle) == [ok |-> ValidBundle(bundle, maxWrites, maxBytes), bundle |-> bundle]
        From(read) == IF read.ok THEN Checked(Bundle(read.values)) ELSE NotBundle
    IN IF Len(payload) < 5 THEN NotBundle
       ELSE IF Before(5) > maxWrites THEN NotBundle
       ELSE From(WritesRead(SubSeq(payload, 6, Len(payload)), Before(5), 2))

-----------------------------------------------------------------------------
(* The state of an envelope is the plan without its overlays:               *)
(* [identity, preflight, filesystem, features, sourceGraph, targetGraph,    *)
(* planDigest, digests, reservations, layout, writes, before, recovery,     *)
(* limits].                                                                 *)

ValidEvidence(s) ==
    /\ s.preflight.image.bytes # 0
    /\ IsPowerOfTwo(s.preflight.sector) /\ IsPowerOfTwo(s.preflight.alignment)
    /\ s.preflight.filesystem # "unknown" /\ s.filesystem # "unknown"
    /\ s.preflight.filesystem # s.filesystem
    /\ s.preflight.inventory /\ s.preflight.allocations
    /\ CleanOffline(s.preflight)
    /\ s.limits.words # 0 /\ s.limits.generation # 0 /\ s.limits.generations # 0

EnvelopeWithinCaps(s) ==
    LET all == FinalWrites(s.writes) \o Rollbacks(s.writes) \o s.before IN
    /\ Len(s.reservations) + Len(s.layout.relocations) + Len(s.layout.free)
           + Len(all) + Len(s.features) <= EnvelopeLimits.entries
    /\ TotalBytes(all) <= EnvelopeLimits.bytes
    /\ Len(s.recovery) <= EnvelopeLimits.recovery
    /\ s.preflight.manifest.objects <= EnvelopeLimits.entries
    /\ s.preflight.manifest.logical <= EnvelopeLimits.logical

(* The orders are strict. The key of a reserved write leaves its length out.*)
CanonicalOrder(s) ==
    LET Place(v) == <<v.write.offset, KeyIn(Kinds, v.kind)>>
        Origin(r) == <<r.source.offset, r.stream, r.logical>> IN
    /\ StrictlyOrdered(Keys(s.reservations, ReservationKey))
    /\ StrictlyOrdered(Keys(s.layout.relocations, Origin))
    /\ StrictlyOrdered(Keys(s.layout.free, RangeKey))
    /\ StrictlyOrdered(Keys(s.features, FeatureKey))
    /\ \A set \in {s.writes.staging, s.writes.backup, s.writes.activation} :
          StrictlyOrdered(Keys(set, Place))
    /\ \A set \in {s.writes.stagingBack, s.writes.backupBack, s.writes.activationBack,
                   s.before} : StrictlyOrdered(Keys(set, WriteKey))

ValidEnvelopeRanges(s) ==
    /\ \A r \in ToSet(s.reservations) : r.range.length # 0
    /\ \A r \in ToSet(s.layout.free) : r.length # 0
    /\ \A r \in ToSet(s.layout.relocations) :
          r.source.length # 0 /\ r.source.length = r.destination[1].length
    /\ s.layout.relocated = RelocatedBytes(s.layout)
    /\ s.layout.largest = LargestFree(s.layout)
    /\ \A w \in ToSet(FinalWrites(s.writes) \o Rollbacks(s.writes) \o s.before) :
          w.bytes # <<>>
    /\ \A r \in ToSet(s.features) : r.method = "native" \/ r.schema # 0

(* The bundle in the envelope repeats the before-images of its sections.    *)
RecoveryAgrees(s) ==
    LET decoded == DecodeRecoveryBundle(s.recovery, EnvelopeLimits.entries,
                                        EnvelopeLimits.recovery) IN
    /\ decoded.ok
    /\ decoded.bundle = [plan |-> s.planDigest, relocation |-> s.before,
                         staging |-> s.writes.stagingBack, backup |-> s.writes.backupBack,
                         activation |-> s.writes.activationBack]

(* Mutant: the plan's own commitment is not recomputed.                     *)
CommitsToOverlays(s) == s.digests = Commitments(s.before, s.writes)

CommitmentsHold(s) ==
    /\ s.digests = Commitments(s.before, s.writes)
    /\ s.planDigest = DigestPlan(s)
    /\ s.identity.source = DigestSourceIdentity(s.preflight, s.sourceGraph)

(* validate_state.                                                          *)
ValidState(s) ==
    /\ ValidEvidence(s) /\ EnvelopeWithinCaps(s)
    /\ ValidEnvelopeRanges(s) /\ CanonicalOrder(s)
    /\ RequiredReservations(s.reservations)
    /\ WritesReserved(s.writes, s.reservations) /\ RollbackPaired(s.writes)
    /\ BeforeImagesExact(s.layout, s.before)
    /\ RecoveryAgrees(s) /\ CommitmentsHold(s)

-----------------------------------------------------------------------------
(* The twelve sections, in the order of their tags. A section is framed by  *)
(* its tag, the number of its entries, its length and its digest.           *)

Section(entries) == [count |-> Len(entries), words |-> FlattenSeq(entries)]
RollbackSection(writes) == Section([i \in DOMAIN writes |-> RollbackWords(writes[i])])
ReservedSection(values) == Section([i \in DOMAIN values |-> ReservedWords(values[i])])

EncodeSections(s) ==
    <<Section([i \in DOMAIN s.reservations |-> ReservationWords(s.reservations[i])]),
      Section([i \in DOMAIN s.layout.relocations |-> RelocationWords(s.layout.relocations[i])]),
      Section([i \in DOMAIN s.layout.free |-> RangeWords(s.layout.free[i])]),
      ReservedSection(s.writes.staging), ReservedSection(s.writes.backup),
      ReservedSection(s.writes.activation),
      RollbackSection(s.writes.stagingBack), RollbackSection(s.writes.backupBack),
      RollbackSection(s.writes.activationBack),
      [count |-> 1, words |-> s.recovery],
      Section([i \in DOMAIN s.features |-> FeatureWords(s.features[i])]),
      RollbackSection(s.before)>>

SectionFrame == 4
Framed(sections) ==
    FlattenSeq([i \in DOMAIN sections |->
        <<i, sections[i].count, Len(sections[i].words), sections[i].words>>
        \o sections[i].words])

(* encode_header: the lengths, the payload's digest and every field of the  *)
(* state that is not a list. The header carries a checksum of itself.       *)
HeaderOf(s, body) ==
    [total |-> HeaderWords + Len(body), payload |-> Len(body), digest |-> body,
     sections |-> 12, identity |-> s.identity, preflight |-> s.preflight,
     filesystem |-> s.filesystem, sourceGraph |-> s.sourceGraph,
     targetGraph |-> s.targetGraph, planDigest |-> s.planDigest, digests |-> s.digests,
     relocated |-> s.layout.relocated, largest |-> s.layout.largest, limits |-> s.limits]

Sealed(header, body) == [header |-> header, crc |-> header, body |-> body]
EnvelopeWords(envelope) == HeaderWords + Len(envelope.body)

(* validate_initial_capsule_generation: two frames and the payload.         *)
FirstGenerationFits(words, limits) ==
    words <= limits.generation /\ 2 * FrameWords + words <= limits.words

EncodeState(s) ==
    LET Encoded(body) ==
            IF /\ HeaderWords + Len(body) <= EnvelopeLimits.words
               /\ FirstGenerationFits(HeaderWords + Len(body), s.limits)
            THEN [error |-> "none", envelope |-> Sealed(HeaderOf(s, body), body)]
            ELSE [error |-> "limit", envelope |-> <<>>]
    IN IF ValidState(s) THEN Encoded(Framed(EncodeSections(s)))
       ELSE [error |-> "invalid", envelope |-> <<>>]

-----------------------------------------------------------------------------
ValidHeader(e) ==
    /\ e.crc = e.header
    /\ EnvelopeWords(e) <= EnvelopeLimits.words
    /\ e.header.total = EnvelopeWords(e) /\ e.header.payload = Len(e.body)
    /\ e.header.digest = e.body
    /\ e.header.sections = 12
    /\ FirstGenerationFits(EnvelopeWords(e), e.header.limits)

(* Words of an entry that has a fixed length; words before the bytes of a   *)
(* write.                                                                   *)
FixedWords(tag) ==
    CASE tag = 1 -> 3 [] tag = 2 -> 6 [] tag = 3 -> 2 [] tag = 11 -> 4 [] OTHER -> 0
WriteHeader(tag) ==
    CASE tag \in {4, 5, 6} -> 3 [] tag \in {7, 8, 9, 12} -> 2 [] OTHER -> 0

(* scan_sections: a scan is [ok, at, entries, bytes, found].                *)
ValidSection(body, scan, tag, count, length) ==
    LET start == scan.at + SectionFrame IN
    /\ body[scan.at + 1] = tag
    /\ IF tag = 10 THEN count = 1 /\ length <= EnvelopeLimits.recovery
       ELSE scan.entries + count <= EnvelopeLimits.entries
    /\ start + length <= Len(body)
    /\ body[scan.at + 4] = SubSeq(body, start + 1, start + length)
    /\ WriteHeader(tag) # 0 =>
          /\ length >= count * WriteHeader(tag)
          /\ scan.bytes + length - count * WriteHeader(tag) <= EnvelopeLimits.bytes
    /\ FixedWords(tag) # 0 => length = count * FixedWords(tag)

ScanSection(body, scan, tag) ==
    LET start == scan.at + SectionFrame
        With(count, length) ==
            IF ~ValidSection(body, scan, tag, count, length) THEN [scan EXCEPT !.ok = FALSE]
            ELSE [ok |-> TRUE, at |-> start + length,
                  entries |-> scan.entries + (IF tag = 10 THEN 0 ELSE count),
                  bytes |-> scan.bytes + (IF WriteHeader(tag) = 0 THEN 0
                                          ELSE length - count * WriteHeader(tag)),
                  found |-> Append(scan.found,
                                   [count |-> count,
                                    words |-> SubSeq(body, start + 1, start + length)])]
    IN IF ~scan.ok \/ start > Len(body) THEN [scan EXCEPT !.ok = FALSE]
       ELSE With(body[scan.at + 2], body[scan.at + 3])

ScanSections(body) ==
    LET scan == FoldLeft(LAMBDA acc, tag : ScanSection(body, acc, tag),
                         [ok |-> TRUE, at |-> 0, entries |-> 0, bytes |-> 0, found |-> <<>>],
                         [i \in 1 .. 12 |-> i])
    IN [scan EXCEPT !.ok = @ /\ scan.at = Len(body)]

(* chunks_exact of a fixed-length section.                                  *)
Chunk(words, k, size) == SubSeq(words, (k - 1) * size + 1, k * size)
ChunksOf(words, size) == [k \in 1 .. Len(words) \div size |-> Chunk(words, k, size)]

ReadRange(c) == ByteRange(c[1], c[2])
ReadReservation(c) == [range |-> ByteRange(c[1], c[2]), kind |-> Kinds[c[3] + 1]]
ReadRelocation(c) ==
    [stream |-> c[1], logical |-> c[2], source |-> ByteRange(c[3], c[4]),
     destination |-> <<ByteRange(c[5], c[6])>>]
ReadFeature(c) ==
    [feature |-> FeatureOrder[c[1] + 1], method |-> IF c[2] = 0 THEN "native" ELSE "escrow",
     schema |-> c[3], digest |-> c[4]]

(* Enumerations out of range are refused, and a native rule with a schema   *)
(* or a digest.                                                             *)
ReadableEnums(found) ==
    /\ \A k \in 1 .. found[1].count : found[1].words[3 * k] \in 0 .. 5
    /\ \A k \in 1 .. found[11].count :
          /\ found[11].words[4 * k - 3] \in 0 .. 7
          /\ \/ found[11].words[4 * k - 2] = 0 /\ found[11].words[4 * k - 1] = 0 /\ found[11].words[4 * k] = 0
             \/ found[11].words[4 * k - 2] = 1 /\ found[11].words[4 * k - 1] # 0

WritesOf(section, header) == WritesRead(section.words, section.count, header)
AsReserved(values) ==
    [i \in DOMAIN values |-> [kind |-> Kinds[values[i].key + 1], write |-> values[i].write]]

(* decode_state: forward holds the sections of reserved writes, back those  *)
(* of before-images, relocation destinations last.                          *)
StateFrom(h, found, forward, back) ==
    LET relocations == ChunksOf(found[2].words, 6)
        free == ChunksOf(found[3].words, 2)
        reservations == ChunksOf(found[1].words, 3)
        features == ChunksOf(found[11].words, 4) IN
    [identity |-> h.identity, preflight |-> h.preflight, filesystem |-> h.filesystem,
     features |-> [i \in DOMAIN features |-> ReadFeature(features[i])],
     sourceGraph |-> h.sourceGraph, targetGraph |-> h.targetGraph,
     planDigest |-> h.planDigest, digests |-> h.digests,
     reservations |-> [i \in DOMAIN reservations |-> ReadReservation(reservations[i])],
     layout |-> [relocations |-> [i \in DOMAIN relocations |-> ReadRelocation(relocations[i])],
                 free |-> [i \in DOMAIN free |-> ReadRange(free[i])],
                 relocated |-> h.relocated, largest |-> h.largest],
     writes |-> [staging |-> AsReserved(forward[1].values),
                 backup |-> AsReserved(forward[2].values),
                 activation |-> AsReserved(forward[3].values),
                 stagingBack |-> Plain(back[1].values), backupBack |-> Plain(back[2].values),
                 activationBack |-> Plain(back[3].values)],
     before |-> Plain(back[4].values), recovery |-> found[10].words, limits |-> h.limits]

Refused(error) == [error |-> error, plan |-> <<>>]

DecodeState(e) ==
    LET Checked(state) ==
            IF ValidState(state) THEN [error |-> "none", plan |-> state]
            ELSE Refused("invalid")
        Parsed(h, found, forward, back) ==
            IF \A i \in DOMAIN forward : forward[i].ok /\
                  \A v \in ToSet(forward[i].values) : v.key \in 0 .. 5
            THEN IF \A i \in DOMAIN back : back[i].ok
                 THEN Checked(StateFrom(h, found, forward, back)) ELSE Refused("truncated")
            ELSE Refused("truncated")
        Sections(scan) ==
            IF ~scan.ok THEN Refused("sections")
            ELSE IF ~ReadableEnums(scan.found) THEN Refused("enum")
            ELSE Parsed(e.header, scan.found,
                        [i \in 1 .. 3 |-> WritesOf(scan.found[i + 3], 3)],
                        [i \in 1 .. 4 |-> WritesOf(scan.found[IF i = 4 THEN 12 ELSE i + 6], 2)])
    IN IF ValidHeader(e) THEN Sections(ScanSections(e.body)) ELSE Refused("header")

(* into_decoded: the overlays are built again.                              *)
Reconstructed(state) ==
    [state |-> state, overlays |-> Overlays(state.before, state.writes)]

DecodePreparedEnvelope(e) ==
    LET From(decoded) ==
            IF decoded.error # "none" THEN decoded
            ELSE IF OverlaysAccepted(decoded.plan.before, decoded.plan.writes)
                 THEN [error |-> "none", plan |-> Reconstructed(decoded.plan)]
                 ELSE Refused("overlay")
    IN From(DecodeState(e))

-----------------------------------------------------------------------------
(* build_with_projected_target_graph. A draft is [graph, projected, target, *)
(* preflight, filesystem, authorized, features, allocations, reservations,  *)
(* writes, before, transaction, limits].                                    *)

ValidDraft(d) ==
    /\ d.limits.features # 0 /\ d.limits.writes # 0 /\ d.limits.bytes # 0
    /\ d.authorized = d.filesystem
    /\ ValidPreflight(d.graph, d.preflight, d.filesystem)
    /\ ValidFeatures(d.graph, d.features, d.filesystem, d.limits.features)
    /\ ValidSourceAllocations(d.graph, d.allocations)
    /\ RequiredReservations(d.reservations)
    /\ NonEmptySets(d.writes) /\ WithinWriteCaps(d.writes, <<>>, d.limits)
    /\ WritesReserved(d.writes, d.reservations)
    /\ RollbackPaired(d.writes)

(* solve_layout_with_staging_exclusions_and_io_alignment.                   *)
DraftLayout(d) ==
    SolveLayout([volume |-> d.preflight.image.bytes, sourceAlign |-> d.preflight.alignment,
                 align |-> d.preflight.alignment, ioAlign |-> d.preflight.sector,
                 domain |-> ByteRange(0, d.preflight.image.bytes), alignedDomain |-> FALSE,
                 source |-> LiveAllocations(d.graph, d.allocations),
                 reservations |-> d.reservations,
                 exclusions |-> StagingExclusions(d.graph, d.allocations),
                 requests |-> <<>>])

Undigested(d, solved, writes, before) ==
    [identity |-> [transaction |-> d.transaction,
                   source |-> DigestSourceIdentity(d.preflight, DigestGraph(d.graph))],
     preflight |-> d.preflight, filesystem |-> d.filesystem,
     features |-> SortedOn(d.features, FeatureKey),
     sourceGraph |-> DigestGraph(d.graph), targetGraph |-> DigestGraph(d.target),
     planDigest |-> <<>>, digests |-> Commitments(before, writes),
     reservations |-> SortedOn(d.reservations, ReservationKey),
     layout |-> [relocations |-> solved.relocations, free |-> solved.free,
                 relocated |-> RelocatedBytes(solved), largest |-> LargestFree(solved)],
     writes |-> writes, before |-> before, recovery |-> <<>>, limits |-> d.limits.capsule]

BundleOf(s) ==
    [plan |-> s.planDigest, relocation |-> s.before, staging |-> s.writes.stagingBack,
     backup |-> s.writes.backupBack, activation |-> s.writes.activationBack]

Digested(s) == [s EXCEPT !.planDigest = DigestPlan(s)]
WithRecovery(s) == [s EXCEPT !.recovery = EncodeRecoveryBundle(BundleOf(s))]

(* refresh_durable_envelope: a plan that cannot be stored is no plan.       *)
Stored(plan, encoded) ==
    IF encoded.error = "none" THEN [error |-> "none", plan |-> plan] ELSE Refused(encoded.error)

BuildFrom(d, solved, writes, before) ==
    CASE solved.error # "none" -> Refused("layout")
      [] ~Seals(d.projected, solved) -> Refused("unsealed")
      [] RelocatedGraph(d.projected, solved) # d.target -> Refused("target")
      [] ~BeforeImagesExact(solved, before) -> Refused("before")
      [] ~WithinWriteCaps(writes, before, d.limits) -> Refused("limit")
      [] ~OverlaysAccepted(before, writes) -> Refused("overlay")
      [] OTHER ->
            LET Complete(s) ==
                    IF ValidBundle(BundleOf(s), d.limits.writes, d.limits.bytes)
                    THEN Stored(Reconstructed(s), EncodeState(s)) ELSE Refused("bundle")
            IN Complete(WithRecovery(Digested(Undigested(d, solved, writes, before))))

Build(d) ==
    IF ValidDraft(d)
    THEN BuildFrom(d, DraftLayout(d), SortedWrites(d.writes), SortedOn(d.before, WriteKey))
    ELSE Refused("draft")

-----------------------------------------------------------------------------
(* A capsule is a sequence of [identity, phase, payload, words].            *)

EnvelopeOf(plan) == EncodeState(plan.state).envelope
CheckpointPayload(plan) == <<"checkpoint", plan.state.planDigest>>
CheckpointWords == 2

CapsuleWords(capsule) == SumOf(capsule, LAMBDA g : 2 * FrameWords + g.words)

(* recover_capsule under limits.                                            *)
WithinCapsule(capsule, limits) ==
    /\ CapsuleWords(capsule) <= limits.words
    /\ Len(capsule) <= limits.generations
    /\ \A g \in ToSet(capsule) : g.words <= limits.generation

BeginCapsule(plan, envelope) ==
    <<[identity |-> plan.state.identity, phase |-> "Discovered", payload |-> envelope,
       words |-> EnvelopeWords(envelope)]>>

Checkpoint(plan, phase) ==
    [identity |-> plan.state.identity, phase |-> phase, payload |-> CheckpointPayload(plan),
     words |-> CheckpointWords]

(* resume_without_observation.                                              *)
Resumes(plan, envelope, capsule) ==
    /\ capsule # <<>> /\ WithinCapsule(capsule, plan.state.limits)
    /\ Last(capsule).identity = plan.state.identity
    /\ Head(capsule).payload = envelope
    /\ Len(capsule) > 1 => Last(capsule).payload = CheckpointPayload(plan)

RaisesLimits(own, policy) ==
    \/ own.words > policy.words \/ own.generation > policy.generation
    \/ own.generations > policy.generations

FromRestartCapsule(capsule, policy) ==
    LET From(envelope, decoded) ==
            CASE decoded.error # "none" -> decoded
              [] RaisesLimits(decoded.plan.state.limits, policy) -> Refused("limits")
              [] Head(capsule).identity # decoded.plan.state.identity -> Refused("identity")
              [] ~Resumes(decoded.plan, envelope, capsule) -> Refused("changed")
              [] OTHER -> decoded
    IN IF capsule = <<>> \/ ~WithinCapsule(capsule, policy) THEN Refused("capsule")
       ELSE From(Head(capsule).payload, DecodePreparedEnvelope(Head(capsule).payload))

(* observation_rollback_writes and rollback_intent: the masks that bring    *)
(* the source back at a checkpoint, the next group of writes included.      *)
RollbackWrites(plan, phase) ==
    CASE phase = "Discovered" -> <<>>
      [] phase = "Reserved" -> plan.overlays.relocation
      [] phase = "Relocating" -> plan.overlays.staging
      [] phase = "TargetStaged" -> plan.overlays.preactivation
      [] OTHER -> plan.overlays.full
=============================================================================
