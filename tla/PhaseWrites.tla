----------------------------- MODULE PhaseWrites -----------------------------
(***************************************************************************)
(* A prepared conversion writes its groups into the image one byte at a     *)
(* time - the relocated payload, the staged metadata, the backup boot       *)
(* region, the activation - and appends a checkpoint after each. It may be  *)
(* cut anywhere, someone else may write the image, and a restart that knows *)
(* only the capsule puts the before-images back.                            *)
(***************************************************************************)
EXTENDS PreparedPlan

CONSTANTS Originals,        \* source images
          Jobs,             \* serializer plans with their evidence
          Policies,         \* capsule limits that a restart is given
          Values,           \* bytes that somebody else may write
          MaxForeign        \* bound on foreign writes

(* What a serializer and an inspection hand over.                           *)
ASSUME PhaseAssumption ==
    /\ ImageBytes \in Nat /\ MaxWrites \in Nat /\ MaxBytes \in Nat
    /\ Chunks \subseteq Nat \ {0}
    /\ \A o \in Originals : DOMAIN o = 0 .. ImageBytes - 1
    /\ \A j \in Jobs :
          /\ j.staging \in Seq(WriteSet)
          /\ j.backup \in WriteSet /\ j.activation \in WriteSet
          /\ j.reservations \in Seq([range : RangeSet, kind : ReservationKinds])
          /\ j.allocations \in Seq(AllocationSet)
          /\ j.preflight.image.bytes \in Nat /\ j.preflight.alignment \in Nat

VARIABLES original,         \* the image when the before-images were captured
          job,              \* the conversion that is asked for
          prepared,         \* the plan that build accepted
          capsule,          \* the generations on the store
          image,            \* the image now
          state,            \* "planned", "prepared", "refused", "restored"
          cell,             \* bytes written by the conversion
          foreign           \* bytes somebody else wrote

vars == <<original, job, prepared, capsule, image, state, cell, foreign>>

Init ==
    /\ original \in Originals /\ job \in Jobs /\ image = original
    /\ prepared = <<>> /\ capsule = <<>>
    /\ state = "planned" /\ cell = {} /\ foreign = {}

-----------------------------------------------------------------------------
Kinded(write, reservations) ==
    [kind |-> (CHOOSE r \in Containing(write, reservations) : TRUE).kind, write |-> write]

KindedAll(writes, reservations) ==
    [i \in DOMAIN writes |-> Kinded(writes[i], reservations)]

(* The serializer's writes with the before-images captured for them.        *)
PhaseSets(j) ==
    [staging |-> KindedAll(j.staging, j.reservations),
     backup |-> <<Kinded(j.backup, j.reservations)>>,
     activation |-> <<Kinded(j.activation, j.reservations)>>,
     stagingBack |-> BeforeImages(original, j.staging, 1),
     backupBack |-> BeforeImages(original, <<j.backup>>, 1),
     activationBack |-> BeforeImages(original, <<j.activation>>, 1)]

(* The relocations are solved for their before-images and for the target.   *)
DraftOf(j, writes, solved) ==
    LET moved == [i \in DOMAIN solved.relocations |->
                     [offset |-> solved.relocations[i].destination[1].offset,
                      bytes |-> ReadBase(original, solved.relocations[i].source.offset,
                                         solved.relocations[i].source.length)]] IN
    [graph |-> j.graph, projected |-> j.graph,
     target |-> IF j.unmoved THEN j.graph ELSE RelocatedGraph(j.graph, solved),
     preflight |-> j.preflight, filesystem |-> j.filesystem, authorized |-> j.authorized,
     features |-> j.features, allocations |-> j.allocations,
     reservations |-> j.reservations, writes |-> writes,
     before |-> BeforeImages(original, moved, 1),
     transaction |-> j.transaction, limits |-> j.limits]

Solved(j) == DraftLayout([graph |-> j.graph, preflight |-> j.preflight,
                          allocations |-> j.allocations, reservations |-> j.reservations])

Prepare ==
    /\ state = "planned"
    /\ \E answer \in {IF Authorized(job)
                      THEN Build(DraftOf(job, PhaseSets(job), Solved(job)))
                      ELSE Refused("gap")} :
          IF answer.error = "none"
          THEN /\ state' = "prepared" /\ prepared' = answer.plan
               /\ capsule' = BeginCapsule(answer.plan, EnvelopeOf(answer.plan))
          ELSE state' = "refused" /\ UNCHANGED <<prepared, capsule>>
    /\ UNCHANGED <<original, job, image, cell, foreign>>

-----------------------------------------------------------------------------
Phases == <<"Discovered", "Reserved", "Relocating", "TargetStaged",
            "BackupBootWritten", "Activated">>
phase == Last(capsule).phase

Units(writes) ==
    UNION {{<<w.offset + i - 1, w.bytes[i]>> : i \in DOMAIN w.bytes} : w \in ToSet(writes)}

(* What is written after a checkpoint: <<unit, value>>.                     *)
NextGroup ==
    CASE phase = "Reserved" ->
            UNION {{<<r.destination[1].offset + i, image[r.source.offset + i]>> :
                       i \in 0 .. r.source.length - 1} :
                   r \in ToSet(prepared.state.layout.relocations)}
      [] phase = "Relocating" -> Units(Plain(prepared.state.writes.staging))
      [] phase = "TargetStaged" -> Units(Plain(prepared.state.writes.backup))
      [] phase = "BackupBootWritten" -> Units(Plain(prepared.state.writes.activation))
      [] OTHER -> {}

(* Some byte of the group reaches the image, in any order.                  *)
WriteByte(unit, value) ==
    /\ unit \notin cell
    /\ image' = [image EXCEPT ![unit] = value]
    /\ cell' = cell \cup {unit}
    /\ foreign' = foreign \ {unit}
    /\ UNCHANGED <<original, job, prepared, capsule, state>>

RecordPhase ==
    /\ state = "prepared" /\ phase # "Activated"
    /\ \A g \in NextGroup : g[1] \in cell
    /\ LET next == Phases[KeyIn(Phases, phase) + 2] IN
       capsule' = Append(capsule, Checkpoint(prepared, next))
    /\ WithinCapsule(capsule', prepared.state.limits)
    /\ UNCHANGED <<original, job, prepared, image, state, cell, foreign>>

ForeignWrite(unit, value) ==
    /\ state = "prepared" /\ Cardinality(foreign) < MaxForeign
    /\ value # image[unit]
    /\ image' = [image EXCEPT ![unit] = value]
    /\ foreign' = foreign \cup {unit}
    /\ UNCHANGED <<original, job, prepared, capsule, state, cell>>

(* A restart with nothing but the capsule, then the rollback.               *)
PutBack(masks) ==
    /\ LET bytes == ApplyIntersections(masks, 0, ReadBase(image, 0, ImageBytes)) IN
       image' = [u \in 0 .. ImageBytes - 1 |-> bytes[u + 1]]
    /\ foreign' = foreign \ UNION {Cells(Extents(m)) : m \in ToSet(masks)}

Restore(policy) ==
    /\ state = "prepared"
    /\ \E restarted \in {FromRestartCapsule(capsule, policy)} :
          /\ restarted.error = "none"
          /\ PutBack(RollbackWrites(restarted.plan, phase))
    /\ state' = "restored"
    /\ UNCHANGED <<original, job, prepared, capsule, cell>>

Settled == state \in {"refused", "restored"} /\ UNCHANGED vars

Next ==
    \/ Prepare
    \/ state = "prepared" /\ \E g \in NextGroup : WriteByte(g[1], g[2])
    \/ RecordPhase
    \/ \E unit \in 0 .. ImageBytes - 1, value \in Values : ForeignWrite(unit, value)
    \/ \E policy \in Policies : Restore(policy)
    \/ Settled

Spec == Init /\ [][Next]_vars

-----------------------------------------------------------------------------
Changed == {u \in foreign : image[u] # original[u]}

(* Seen through the before-images that belong to its checkpoint, the image  *)
(* digests to the original exactly when nobody else changed a byte outside  *)
(* them - however much of the next group is written, and whatever the chunk *)
(* size that the digest reads with.                                         *)
MaskShowsTheOriginal ==
    state = "prepared" =>
        \A chunk \in Chunks :
            LET masks == RollbackWrites(prepared, phase) IN
            /\ MasksAccepted(masks)
            /\ DigestSourceView(image, masks, chunk) = ReadBase(original, 0, ImageBytes)
                   <=> Changed \subseteq UNION {Cells(Extents(m)) : m \in ToSet(masks)}

(* What an interrupted group left behind is recognized: fully written means *)
(* after, and no state is called third unless somebody else wrote there.    *)
InterruptedGroupIsRecognized ==
    state = "prepared" =>
        \A g \in ToSet(Groups), chunk \in Chunks :
            LET after == After(job, g)
                before == BeforeImages(original, after, chunk)
                own == UNION {Cells(Extents(w)) : w \in ToSet(after)}
                seen == ClassifyWriteGroup(image, before, after, chunk) IN
            /\ ValidGroup(before, after)
            /\ own \subseteq cell \ foreign => seen \in {"before", "after"}
                   /\ (seen = "before" => before = after)
            /\ own \cap foreign = {} => seen # "third"
            /\ seen = "before" =>
                   \A u \in own : image[u] = original[u]

(* Putting the before-images back undoes every group, however much of it    *)
(* was written, and touches nothing else.                                   *)
RestoreUndoesEveryPhase ==
    state = "restored" => \A u \in 0 .. ImageBytes - 1 :
                              u \notin foreign => image[u] = original[u]

(* An envelope with one section of another's, digests and header renewed.   *)
Spliced(mine, section, theirs) ==
    LET body == Framed([EncodeSections(mine) EXCEPT ![section] = theirs[section]]) IN
    Sealed(HeaderOf(mine, body), body)

Covers(policy, limits) ==
    /\ limits.words <= policy.words /\ limits.generation <= policy.generation
    /\ limits.generations <= policy.generations

(* Every plan that was prepared is restarted from its capsule as itself, at *)
(* every checkpoint, under every policy that covers its limits and no       *)
(* other. No section of an envelope can be exchanged for one that says      *)
(* something else about the bytes to write, to move or to put back.         *)
RestartKeepsThePlan ==
    state = "prepared" /\ foreign = {} /\ (\A g \in NextGroup : g[1] \notin cell) =>
        /\ \A policy \in Policies :
              LET restarted == FromRestartCapsule(capsule, policy) IN
              IF Covers(policy, prepared.state.limits)
              THEN restarted = [error |-> "none", plan |-> prepared]
              ELSE restarted.error # "none"
        /\ phase = "Discovered" =>
              LET other == EncodeSections(
                      [prepared.state EXCEPT
                          !.writes.stagingBack[1].bytes[1] = 1 - @,
                          !.writes.activation[1].write.bytes[1] = 1 - @,
                          !.reservations = Tail(@),
                          !.before = IF @ = <<>> THEN @ ELSE Tail(@),
                          !.layout.relocations = <<>>, !.features = <<>>]) IN
              \A section \in 1 .. 12 :
                  LET read == DecodePreparedEnvelope(Spliced(prepared.state, section, other)) IN
                  read.error = "none" => read.plan = prepared
=============================================================================
