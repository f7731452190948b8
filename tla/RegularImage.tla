---------------------------- MODULE RegularImage ----------------------------
(***************************************************************************)
(* The regular-image coordinator (conversion/regular_image.rs) driving the  *)
(* image executor (executor.rs) and the capsule store (capsule_store.rs)    *)
(* over two files, the image and the capsule.                               *)
(*                                                                         *)
(* Each file is known twice: what a read returns now (image, file), and the *)
(* set of contents that a power loss may leave (disk, capDisk). A write     *)
(* adds to the set, a flush collapses it to what a read returns.            *)
(***************************************************************************)
EXTENDS ConversionPlan

CONSTANTS
    Faults,     \* which faults the environment can produce
    MaxFaults   \* bound on the number of faults

(***************************************************************************)
(* "exit": a process ends in the middle of a call, or with its store        *)
(* poisoned, and its operating system keeps running; "power": the page      *)
(* cache is lost; "hole": a power loss can keep the new length of a file    *)
(* and lose its new bytes; "corrupt": another program writes the image      *)
(* between two runs. An I/O error can hit any write or flush in every       *)
(* environment, the creation of the capsule and the repair of a torn one on *)
(* opening included. A flush of the capsule makes its name durable as well. *)
(***************************************************************************)
FaultKinds == {"exit", "power", "hole", "corrupt"}

ASSUME FaultAssumption == Faults \subseteq FaultKinds /\ MaxFaults \in Nat

VARIABLES
    image,          \* ranges of the image as a read returns them
    disk,           \* disk[b]: what a power loss may leave in range b
    file,           \* the capsule file as a read returns it
    capDisk,        \* the capsule files a power loss may leave
    pc,             \* where the coordinator is
    known,          \* CapsuleStore.bytes: the capsule the store has adopted
    storePoisoned,  \* CapsuleStore.poisoned
    poisoned,       \* RegularImageCoordinator.poisoned
    todo,           \* ranges the running executor operation has not written
    next,           \* phase of the generation being appended
    faults          \* number of faults so far

imageVars == <<image, disk>>
capVars   == <<file, capDisk>>
memVars   == <<known, storePoisoned, poisoned, todo, next>>
vars      == <<image, disk, file, capDisk, pc, known, storePoisoned, poisoned,
               todo, next, faults>>

(* A capsule is its number of complete generations, the phase of the newest *)
(* one, and what follows it: nothing, a torn append, or a full-length       *)
(* append whose bytes never reached the medium.                             *)
Tails == {"none", "torn", "hole"}
Capsules == [gen : 0 .. MaxGenerations, phase : Phases, tail : Tails]
NoCapsule == [gen |-> 0, phase |-> Discovered, tail |-> "none"]

(* scan_capsule accepts a capsule that ends with a complete generation;     *)
(* recover_capsule also one that ends with a provably partial append.       *)
Complete(f) == f.gen > 0 /\ f.tail = "none"
TornTail(f) == f.gen > 0 /\ f.tail = "torn"

PCs == {"prepared", "ready", "write", "append", "sync", "rollback", "restore",
        "down"}

TypeOK ==
    /\ image \in [Blocks -> Values]
    /\ disk \in [Blocks -> SUBSET Values]
    /\ file \in Capsules /\ capDisk \in SUBSET Capsules
    /\ known \in Capsules
    /\ pc \in PCs
    /\ storePoisoned \in BOOLEAN /\ poisoned \in BOOLEAN
    /\ todo \in SUBSET Blocks
    /\ next \in Phases
    /\ faults \in Nat

(* A prepared session: the image lock is held, the plan is sealed, and no   *)
(* capsule exists.                                                          *)
Init ==
    /\ image = [b \in Blocks |-> "before"]
    /\ disk = [b \in Blocks |-> {"before"}]
    /\ file = NoCapsule /\ capDisk = {NoCapsule}
    /\ known = NoCapsule
    /\ pc = "prepared"
    /\ storePoisoned = FALSE /\ poisoned = FALSE
    /\ todo = {} /\ next = Discovered /\ faults = 0

Fault == faults < MaxFaults /\ faults' = faults + 1

Poison == storePoisoned' = TRUE /\ poisoned' = TRUE

(* The process is gone: its locks are released and its memory is lost.      *)
Ended ==
    /\ pc' = "down" /\ known' = NoCapsule
    /\ storePoisoned' = FALSE /\ poisoned' = FALSE
    /\ todo' = {} /\ next' = Discovered

(* Mutant: off by one at the generation limit.                              *)
CanRecordOneTooMany(phase) ==
    /\ known.gen <= MaxGenerations
    /\ IF known.gen = 0 THEN phase = Discovered
                        ELSE MayFollow(phase, known.phase)

(* append_generation: room for one more generation, of a phase that may     *)
(* follow the newest.                                                       *)
CanRecord(phase) ==
    /\ known.gen < MaxGenerations
    /\ IF known.gen = 0 THEN phase = Discovered
                        ELSE MayFollow(phase, known.phase)

(* checkpoint: the adopted capsule and a fresh digest of the masked image.  *)
CheckpointOf(capsule) ==
    RequiresSourceEvidence(capsule.phase) =>
        SourceObserved(image, ObservationMask(capsule.phase))

Checkpoint == CheckpointOf(known)

ForwardReady == pc = "ready" /\ ~poisoned /\ ~storePoisoned /\ Checkpoint

-----------------------------------------------------------------------------
(* Forward calls that append without writing the image.                     *)

StartAppend(phase) ==
    /\ CanRecord(phase)
    /\ pc' = "append" /\ next' = phase
    /\ UNCHANGED <<imageVars, capVars, known, storePoisoned, poisoned, todo,
                   faults>>

BeginCapsule ==
    /\ pc = "prepared"
    /\ SourceObserved(image, {})
    /\ StartAppend(Discovered)

AppendReservation ==
    /\ ForwardReady /\ known.phase = Discovered
    /\ StartAppend(Reserved)

AppendVerification ==
    /\ ForwardReady /\ known.phase = Activated
    /\ AuditPasses(image, Activated)
    /\ StartAppend(Verified)

(* Mutant: relies on the audit that recorded Verified.                      *)
FinalizeWithoutAudit ==
    /\ ForwardReady /\ known.phase = Verified
    /\ StartAppend(Finalized)

AppendFinalization ==
    /\ ForwardReady /\ known.phase = Verified
    /\ AuditPasses(image, Verified)
    /\ StartAppend(Finalized)

-----------------------------------------------------------------------------
(* Forward calls that execute the intent of the current phase.              *)

StartWrites ==
    /\ pc' = "write" /\ todo' = IntentGroup(known.phase)
    /\ UNCHANGED <<imageVars, capVars, known, storePoisoned, poisoned, next,
                   faults>>

ExecuteRelocation ==
    /\ ForwardReady /\ known.phase = Reserved
    /\ StartWrites

ExecuteStaging ==
    /\ ForwardReady /\ known.phase = Relocating
    /\ RelocationCopiesMatch(image)
    /\ StartWrites

RefuseStaging ==
    /\ ForwardReady /\ known.phase = Relocating
    /\ ~RelocationCopiesMatch(image)
    /\ Poison
    /\ UNCHANGED <<imageVars, capVars, pc, known, todo, next, faults>>

WriteBackupBoot ==
    /\ ForwardReady /\ known.phase = TargetStaged
    /\ Classify(image, Backup) # "ThirdState"
    /\ AuditPasses(image, TargetStaged)
    /\ StartWrites

ActivateTarget ==
    /\ ForwardReady /\ known.phase = BackupBootWritten
    /\ Classify(image, Boot) \in {"ExactBefore", "ExactAfter"}
    /\ AuditPasses(image, BackupBootWritten)
    /\ StartWrites

-----------------------------------------------------------------------------
(* The executor: one range at a time, then both flushes.                    *)

(* What the running operation puts into range b.                            *)
NewValue(b) ==
    IF pc = "restore" THEN "before"
    ELSE IF b \in Moved THEN CopyOf(image, b) ELSE "after"

Put(b, v) ==
    /\ image' = [image EXCEPT ![b] = v]
    /\ disk' = [disk EXCEPT ![b] = @ \cup {Torn(w, v) : w \in @} \cup {v}]

WriteRange(b) ==
    /\ pc \in {"write", "restore"} /\ b \in todo
    /\ Put(b, NewValue(b))
    /\ todo' = todo \ {b}
    /\ UNCHANGED <<capVars, pc, known, storePoisoned, poisoned, next, faults>>

(* A write, read-back or flush that reports an error, after any part of the *)
(* range reached the file.                                                  *)
ExecutorFails ==
    /\ Fault
    /\ pc \in {"write", "restore"}
    /\ \/ \E b \in todo :
             \E v \in {NewValue(b), Torn(image[b], NewValue(b))} : Put(b, v)
       \/ UNCHANGED imageVars
    /\ Poison
    /\ pc' = "ready" /\ todo' = {}
    /\ UNCHANGED <<capVars, known, next>>

(* Mutant: the group is reported complete without a flush.                  *)
NotFlushed == UNCHANGED <<image, disk>>

Flushed == disk' = [b \in Blocks |-> {image[b]}] /\ UNCHANGED image

(* finish_durable, then append_execution up to the store: a completed group *)
(* is recorded only if the masked source still digests to the sealed one.   *)
FinishIntent ==
    /\ pc = "write" /\ todo = {}
    /\ Flushed
    /\ \/ /\ Checkpoint /\ CanRecord(NextPhase(known.phase))
          /\ pc' = "append" /\ next' = NextPhase(known.phase)
          /\ UNCHANGED <<storePoisoned, poisoned>>
       \/ /\ ~(Checkpoint /\ CanRecord(NextPhase(known.phase)))
          /\ Poison /\ pc' = "ready" /\ UNCHANGED next
    /\ UNCHANGED <<capVars, known, todo, faults>>

(* Mutant: records RolledBack for having run the writes.                    *)
RollbackUnobserved ==
    /\ pc = "restore" /\ todo = {}
    /\ IF RollbackSet(known.phase) = {} THEN UNCHANGED imageVars ELSE Flushed
    /\ \/ /\ CanRecord(RolledBack)
          /\ pc' = "append" /\ next' = RolledBack
          /\ UNCHANGED <<storePoisoned, poisoned>>
       \/ /\ ~CanRecord(RolledBack)
          /\ Poison /\ pc' = "ready" /\ UNCHANGED next
    /\ UNCHANGED <<capVars, known, todo, faults>>

(* finish_durable, then append_rollback up to the store: the raw image must *)
(* digest to the sealed source.                                             *)
FinishRollback ==
    /\ pc = "restore" /\ todo = {}
    /\ IF RollbackSet(known.phase) = {} THEN UNCHANGED imageVars ELSE Flushed
    /\ \/ /\ SourceObserved(image, {}) /\ CanRecord(RolledBack)
          /\ pc' = "append" /\ next' = RolledBack
          /\ UNCHANGED <<storePoisoned, poisoned>>
       \/ /\ ~(SourceObserved(image, {}) /\ CanRecord(RolledBack))
          /\ Poison /\ pc' = "ready" /\ UNCHANGED next
    /\ UNCHANGED <<capVars, known, todo, faults>>

-----------------------------------------------------------------------------
(* The store: append one generation, flush, read back, flush, adopt.        *)

Appended == [gen |-> known.gen + 1, phase |-> next, tail |-> "none"]

(* What may be on the medium while an append is not flushed.                *)
AppendOutcomes ==
    {known, Appended, [known EXCEPT !.tail = "torn"]}
        \cup (IF "hole" \in Faults THEN {[known EXCEPT !.tail = "hole"]} ELSE {})

AppendWrite ==
    /\ pc = "append" /\ ~storePoisoned
    /\ file' = Appended /\ capDisk' = capDisk \cup AppendOutcomes
    /\ storePoisoned' = TRUE /\ pc' = "sync"
    /\ UNCHANGED <<imageVars, known, poisoned, todo, next, faults>>

(* Mutant: adopts the generation without the two flushes.                   *)
AdoptUnflushed ==
    /\ pc = "sync"
    /\ capDisk' = capDisk /\ known' = file
    /\ storePoisoned' = FALSE /\ pc' = "ready"
    /\ poisoned' = (poisoned /\ next # RolledBack)
    /\ UNCHANGED <<imageVars, file, todo, next, faults>>

(* While rolling back, the coordinator's own poison does not stop the       *)
(* append; a completed rollback clears it.                                  *)
AppendSync ==
    /\ pc = "sync"
    /\ capDisk' = {file} /\ known' = file
    /\ storePoisoned' = FALSE /\ pc' = "ready"
    /\ poisoned' = (poisoned /\ next # RolledBack)
    /\ UNCHANGED <<imageVars, file, todo, next, faults>>

(* An append that reports an error: before, during or after the write, at   *)
(* either flush, or after the new generation was adopted. A capsule whose   *)
(* creation failed stays behind, and the session that was creating it is    *)
(* consumed.                                                                *)
AppendFails ==
    /\ Fault
    /\ \/ /\ pc = "append"
          /\ file' \in {file, [known EXCEPT !.tail = "torn"]}
          /\ capDisk' = capDisk \cup {file'}
       \/ /\ pc = "sync"
          /\ capDisk' \in {capDisk, {file}}
          /\ UNCHANGED file
    /\ \/ known.gen = 0 /\ Ended
       \/ /\ known.gen > 0
          /\ \/ UNCHANGED known
             \/ capDisk' = {file} /\ known' = file
          /\ Poison /\ pc' = "ready" /\ UNCHANGED <<todo, next>>
    /\ UNCHANGED imageVars

-----------------------------------------------------------------------------
(* Rollback.                                                                *)

(* Mutant: cuts one complete generation too many.                           *)
TruncatedTooFar(f) ==
    [f EXCEPT !.tail = "none", !.gen = @ - 1,
              !.phase = IF @ = Discovered THEN @ ELSE @ - 1]

Truncated(f) == [f EXCEPT !.tail = "none"]

(* rollback's first step: restore_verified_prefix on a poisoned store       *)
(* flushes and adopts a complete next generation, or shortens the file to   *)
(* the known prefix; any other content is refused.                          *)
RollbackBegin ==
    /\ pc = "ready"
    /\ \/ /\ ~storePoisoned
          /\ UNCHANGED <<capVars, known, storePoisoned>>
       \/ /\ storePoisoned /\ (Complete(file) \/ TornTail(file))
          /\ file' = Truncated(file) /\ capDisk' = {file'}
          /\ known' = file'
          /\ storePoisoned' = FALSE
    /\ pc' = "rollback"
    /\ UNCHANGED <<imageVars, poisoned, todo, next, faults>>

(* The checkpoint is refused, or the transaction is already decided.        *)
RollbackReturns ==
    /\ pc = "rollback"
    /\ ~Checkpoint \/ known.phase \in {Finalized, RolledBack}
    /\ pc' = "ready"
    /\ UNCHANGED <<imageVars, capVars, memVars, faults>>

RollbackRefused ==
    /\ pc = "rollback"
    /\ Checkpoint /\ known.phase \notin {Finalized, RolledBack}
    /\ ~RollbackAuthorized(RollbackSet(known.phase))
    /\ Poison /\ pc' = "ready"
    /\ UNCHANGED <<imageVars, capVars, known, todo, next, faults>>

RollbackExecutes ==
    /\ pc = "rollback"
    /\ Checkpoint /\ known.phase \notin {Finalized, RolledBack}
    /\ RollbackAuthorized(RollbackSet(known.phase))
    /\ pc' = "restore" /\ todo' = RollbackSet(known.phase)
    /\ UNCHANGED <<imageVars, capVars, known, storePoisoned, poisoned, next,
                   faults>>

-----------------------------------------------------------------------------
(* Processes end and start.                                                 *)

(* resume_from_capsule: a complete capsule is adopted as it reads; a torn   *)
(* newest append is cut off and the cut is flushed, before the checkpoint   *)
(* can refuse the pair; an incomplete first generation and unreadable       *)
(* framing are refused as they are.                                         *)
Open ==
    /\ pc = "down"
    /\ \/ Complete(file) /\ UNCHANGED capVars
       \/ TornTail(file) /\ file' = Truncated(file) /\ capDisk' = {file'}
    /\ IF CheckpointOf(file) THEN pc' = "ready" /\ known' = file'
                            ELSE UNCHANGED <<pc, known>>
    /\ UNCHANGED <<imageVars, storePoisoned, poisoned, todo, next, faults>>

(* repair_torn_suffix stops between the shortening and its flush.           *)
RepairFails ==
    /\ Fault
    /\ TornTail(file)
    /\ pc = "down" \/ (pc = "ready" /\ storePoisoned)
    /\ file' = Truncated(file) /\ capDisk' = capDisk \cup {file'}
    /\ UNCHANGED <<imageVars, pc, memVars>>

(* The coordinator is dropped between calls, nothing ambiguous pending.     *)
Close ==
    /\ pc = "ready" /\ ~storePoisoned
    /\ Ended
    /\ UNCHANGED <<imageVars, capVars, faults>>

(* The process ends anywhere, its operating system keeps running.           *)
Exit ==
    /\ "exit" \in Faults /\ Fault
    /\ pc # "down" /\ Ended
    /\ UNCHANGED <<imageVars, capVars>>

Dirty == {b \in Blocks : disk[b] # {image[b]}}

PowerLoss ==
    /\ "power" \in Faults /\ Fault
    /\ \E left \in [Dirty -> Values] :
          /\ \A b \in Dirty : left[b] \in disk[b]
          /\ image' = [b \in Blocks |-> IF b \in Dirty THEN left[b] ELSE image[b]]
    /\ disk' = [b \in Blocks |-> {image'[b]}]
    /\ file' \in capDisk /\ capDisk' = {file'}
    /\ Ended

(* Something else writes the image while no coordinator holds its lock.     *)
Corrupt(b) ==
    /\ "corrupt" \in Faults /\ Fault
    /\ pc = "down"
    /\ image' = [image EXCEPT ![b] = "third"]
    /\ disk' = [disk EXCEPT ![b] = {"third"}]
    /\ UNCHANGED <<capVars, pc, memVars>>

-----------------------------------------------------------------------------
Forward ==
    \/ BeginCapsule \/ AppendReservation \/ AppendVerification
    \/ AppendFinalization \/ ExecuteRelocation \/ ExecuteStaging
    \/ RefuseStaging \/ WriteBackupBoot \/ ActivateTarget

Execute == (\E b \in Blocks : WriteRange(b)) \/ FinishIntent \/ FinishRollback

Store == AppendWrite \/ AppendSync

Rollback ==
    RollbackBegin \/ RollbackReturns \/ RollbackRefused \/ RollbackExecutes

Environment ==
    \/ ExecutorFails \/ AppendFails \/ RepairFails \/ Exit \/ PowerLoss
    \/ \E b \in Blocks : Corrupt(b)

Next == Forward \/ Execute \/ Store \/ Rollback \/ Open \/ Close \/ Environment

Spec == Init /\ [][Next]_vars

-----------------------------------------------------------------------------
(* Properties.                                                              *)

(***************************************************************************)
(* Until the durable capsule says Finalized, writing the before-images that *)
(* rollback_intent selects for its newest phase gives back the whole source,*)
(* whatever the last crash left of either file.                             *)
(***************************************************************************)
SourceRecoverable ==
    file.phase # Finalized => SourceObserved(image, RollbackSet(file.phase))

(***************************************************************************)
(* A capsule that may be found Finalized (or RolledBack) after a power loss *)
(* is only ever paired with an image whose target (or source) bytes are     *)
(* already on the medium: image before capsule.                             *)
(***************************************************************************)
DecisionDurable ==
    \A f \in capDisk :
        /\ f.phase = Finalized => \A b \in Written : disk[b] = {"after"}
        /\ f.phase = RolledBack => \A b \in Blocks : disk[b] = {"before"}

(***************************************************************************)
(* activate_target begins to overwrite the primary boot region only when    *)
(* every other target byte is durable, also after an interrupted rollback   *)
(* of the same transaction.                                                 *)
(***************************************************************************)
ActivationGated ==
    pc = "write" /\ known.phase = BackupBootWritten =>
        \A b \in Written \ Boot : disk[b] = {"after"}

(***************************************************************************)
(* The generation the store has adopted (by append, resume or reconcile) is *)
(* one that no power loss takes back: whatever a loss leaves opens, if need *)
(* be after its torn end is cut off, as the adopted capsule. One exception: *)
(* a capsule whose creation failed is adopted by resume without a flush, so *)
(* its first generation may still be lost, and then the image on the medium *)
(* is the untouched source.                                                 *)
(***************************************************************************)
AcknowledgedIsDurable ==
    pc = "ready" /\ ~storePoisoned =>
        \A f \in capDisk :
            \/ (Complete(f) \/ TornTail(f)) /\ Truncated(f) = known
            \/ f.gen = 0 /\ known.phase = Discovered
               /\ \A b \in Blocks : disk[b] = {"before"}

(***************************************************************************)
(* Finalized is recorded only over the complete target and RolledBack only  *)
(* over the exact source, also when other writers changed the image between *)
(* two runs.                                                                *)
(***************************************************************************)
DecisionsAreExact ==
    [][/\ file'.phase = Finalized /\ file.phase # Finalized => IsTarget(image')
       /\ file'.phase = RolledBack /\ file.phase # RolledBack => IsSource(image')
      ]_vars

(***************************************************************************)
(* A transaction whose decision is on the medium stays decided and its      *)
(* image is not written again, by any later call, restart or power loss.    *)
(***************************************************************************)
DecisionsAreFinal ==
    [][capDisk = {file} /\ file.phase \in {Finalized, RolledBack} =>
          file'.phase = file.phase /\ image' = image]_vars

(***************************************************************************)
(* The two files implement one atomic conversion. A view exists when the    *)
(* image is the target, or when the rollback of the capsule's phase gives   *)
(* the source; the decision is the one that no power loss can take back.    *)
(***************************************************************************)
Decision ==
    IF capDisk # {file} THEN "open"
    ELSE IF file.phase = Finalized THEN "target"
    ELSE IF file.phase = RolledBack THEN "source" ELSE "open"

Views ==
    (IF file.phase # Finalized /\ SourceObserved(image, RollbackSet(file.phase))
        THEN {"source"} ELSE {})
      \cup (IF IsTarget(image) THEN {"target"} ELSE {})

Promise == INSTANCE AtomicConversion WITH decision <- Decision, views <- Views

ConvertsAtomically == Promise!Spec

(***************************************************************************)
(* Fairness: a running call takes its next step, a transaction left down is *)
(* resumed, and the operator keeps asking for rollback.                     *)
(***************************************************************************)
Fairness ==
    /\ WF_vars(Execute) /\ WF_vars(Store)
    /\ WF_vars(RollbackReturns \/ RollbackRefused \/ RollbackExecutes)
    /\ WF_vars(Open)
    /\ SF_vars(RollbackBegin)

FairSpec == Spec /\ Fairness

Settled == file.gen > 0 /\ file.phase \in {Finalized, RolledBack}

(***************************************************************************)
(* Once the capsule exists, repeated recovery ends in Finalized or          *)
(* RolledBack (or a power loss takes back the creation of the capsule).     *)
(***************************************************************************)
RecoveryTerminates == (file.gen > 0) ~> (Settled \/ file.gen = 0)
=============================================================================
