--------------------------- MODULE ConversionPlan ---------------------------
(***************************************************************************)
(* The sealed plan of one in-place conversion (PreparedConversion) as data: *)
(* the transaction phases, the four write groups with their before-images,  *)
(* and every decision that conversion.rs, executor.rs and                   *)
(* conversion/regular_image.rs take from a phase and the image bytes alone. *)
(*                                                                         *)
(* The image is a function from byte ranges to what a range holds relative  *)
(* to the plan: its exact before-image, its exact after-image, a byte-level *)
(* mixture of the two, or anything else.                                    *)
(***************************************************************************)
EXTENDS TransactionPhase, FiniteSets

CONSTANTS
    Blocks,         \* byte ranges of the image
    Moved,          \* relocation destinations (layout.relocations)
    From,           \* From[d]: the source range copied to destination d
    Staging,        \* writes.target_staging
    Backup,         \* writes.backup_boot
    Boot,           \* writes.activation
    Payload,        \* ranges the target graph reads in place
    MaxGenerations  \* capsule_limits.max_generations

Written == Moved \cup Staging \cup Backup \cup Boot

(***************************************************************************)
(* What build_with_projected_target_graph guarantees of a plan: no write    *)
(* set but the relocations may be empty, the overlays are built without     *)
(* overlap, destinations are free space, and in-place payload is unwritten. *)
(***************************************************************************)
ASSUME PlanAssumption ==
    /\ Moved \subseteq Blocks /\ Staging \subseteq Blocks
    /\ Backup \subseteq Blocks /\ Boot \subseteq Blocks
    /\ Staging # {} /\ Backup # {} /\ Boot # {}
    /\ Moved \cap (Staging \cup Backup \cup Boot) = {}
    /\ Staging \cap (Backup \cup Boot) = {}
    /\ Backup \cap Boot = {}
    /\ From \in [Moved -> Blocks \ Moved]
    /\ Payload \subseteq Blocks \ Written
    /\ MaxGenerations \in Nat \ {0}

-----------------------------------------------------------------------------
(* next_phase; defined on the phases that have a successor.                 *)
NextPhase(phase) == phase + 1

RequiresSourceEvidence(phase) == phase \in Discovered .. BackupBootWritten

-----------------------------------------------------------------------------
(* Contents of a range.                                                     *)
Values == {"before", "after", "mixed", "third"}

(* What a tear between two contents of one range leaves.                    *)
Torn(old, new) ==
    IF old = new THEN new
    ELSE IF "third" \in {old, new} THEN "third" ELSE "mixed"

(* A relocation copies whatever its source holds now: the destination's     *)
(* after-image is the source's before-image.                                *)
CopyOf(img, d) == IF img[From[d]] = "before" THEN "after" ELSE "third"

(* verify_relocation_copies: every destination equals its source.           *)
RelocationCopiesMatch(img) ==
    \A d \in Moved : img[From[d]] = "before" /\ img[d] = "after"

(* classify_write_group.                                                    *)
Classify(img, group) ==
    IF \A b \in group : img[b] = "before" THEN "ExactBefore"
    ELSE IF \A b \in group : img[b] = "after" THEN "ExactAfter"
    ELSE IF \A b \in group : img[b] # "third" THEN "MixedBeforeAfter"
    ELSE "ThirdState"

(* Mutant: trusts the phase for the staged and relocated bytes.             *)
AuditTrustsPhase(img, phase) ==
    /\ phase \in {BackupBootWritten, Activated, Verified} =>
          \A b \in Backup : img[b] = "after"
    /\ phase \in {Activated, Verified} => \A b \in Boot : img[b] = "after"
    /\ \A b \in Payload : img[b] = "before"

(* audit_candidate: the real bytes of every group the phase says is done,   *)
(* then the parsed graph and the logical manifest of the complete target    *)
(* overlay, whose payload is read from relocated and in-place ranges.       *)
AuditPasses(img, phase) ==
    /\ \A b \in Staging : img[b] = "after"
    /\ phase \in {BackupBootWritten, Activated, Verified} =>
          \A b \in Backup : img[b] = "after"
    /\ phase \in {Activated, Verified} => \A b \in Boot : img[b] = "after"
    /\ \A d \in Moved : img[d] = "after"
    /\ \A b \in Payload : img[b] = "before"

-----------------------------------------------------------------------------
(* Mutant: restores the completed groups only, not the one in flight.       *)
RollbackOfCompleted(phase) ==
    CASE phase = Relocating -> Moved
      [] phase = TargetStaged -> Moved \cup Staging
      [] phase = BackupBootWritten -> Moved \cup Staging \cup Backup
      [] phase \in {Activated, Verified} -> Written
      [] OTHER -> {}

(* rollback_intent: the ranges whose before-images a rollback from a        *)
(* durable phase writes; {} is DiscardStaging.                              *)
RollbackSet(phase) ==
    CASE phase = Discovered -> {}
      [] phase = Reserved -> Moved
      [] phase = Relocating -> Moved \cup Staging
      [] phase = TargetStaged -> Moved \cup Staging \cup Backup
      [] phase \in {BackupBootWritten, Activated, Verified} -> Written
      [] OTHER -> {}

(* Mutant: masks the completed groups only.                                 *)
MaskOfCompleted(phase) == RollbackOfCompleted(phase)

(* observation_rollback_writes: the ranges masked by their before-images    *)
(* when the original source view is digested at a phase.                    *)
ObservationMask(phase) ==
    CASE phase \in {Discovered, Finalized, RolledBack} -> {}
      [] phase = Reserved -> Moved
      [] phase = Relocating -> Moved \cup Staging
      [] phase = TargetStaged -> Moved \cup Staging \cup Backup
      [] OTHER -> Written

(* execute_rollback_with_faults: the overlays the executor accepts.         *)
RollbackAuthorized(set) ==
    \/ set = {}
    \/ set \in {Moved \cup Staging, Moved \cup Staging \cup Backup, Written}

(* validate_observed: the (masked) image digests to the sealed source.      *)
SourceObserved(img, mask) == \A b \in Blocks \ mask : img[b] = "before"

(* The group that the intent emitted after a phase writes, and the phase    *)
(* that completes it (intent_after, execute_leased_intent).                 *)
IntentGroup(phase) ==
    CASE phase = Reserved -> Moved
      [] phase = Relocating -> Staging
      [] phase = TargetStaged -> Backup
      [] phase = BackupBootWritten -> Boot

IsSource(img) == \A b \in Blocks : img[b] = "before"

IsTarget(img) ==
    /\ \A b \in Written : img[b] = "after"
    /\ \A b \in Payload : img[b] = "before"
=============================================================================
