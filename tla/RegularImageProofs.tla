------------------------- MODULE RegularImageProofs -------------------------
(***************************************************************************)
(* Proofs about RegularImage for every plan, every number of faults and     *)
(* every capsule limit.                                                     *)
(***************************************************************************)
EXTENDS RegularImage, TLAPS

Power == "power" \in Faults

(* The environments of the proofs: nobody else writes the image, and power  *)
(* losses are not combined with processes that end in the middle of a call  *)
(* or abandon a poisoned store. I/O errors may hit any write or flush.      *)
SafeFaults == "corrupt" \notin Faults /\ ~("exit" \in Faults /\ Power)

-----------------------------------------------------------------------------
(* The inductive invariant.                                                 *)

(* The capsules that a later process can find.                              *)
Kept == IF Power THEN capDisk ELSE {file}

(* The image on the medium supports a capsule whose newest phase is p.      *)
Justified(p) ==
    IF p = Finalized THEN \A b \in Written : disk[b] = {"after"}
    ELSE \A b \in Blocks \ RollbackSet(p) : disk[b] = {"before"}

(* The groups that an audit at phase p reads from the image.                *)
Audited(p) == IF p = BackupBootWritten THEN Written \ Boot ELSE Written

(* From BackupBootWritten on, target bytes that can be read are durable.    *)
ReadIsDurable(p) ==
    p \in {BackupBootWritten, Activated, Verified} =>
        \A b \in Audited(p) : image[b] = "after" => disk[b] = {"after"}

Final == {Finalized, RolledBack}

DiskInv ==
    /\ \A b \in Blocks : image[b] \in disk[b]
    /\ \A b \in Blocks \ Written : disk[b] = {"before"}
    /\ file \in capDisk

KeptInv ==
    \A f \in Kept : Justified(f.phase) /\ (f.phase \in Final => f.tail = "none")

ReadInv == ReadIsDurable(file.phase)

(* A power loss that leaves f instead of k takes back no generation: f is k *)
(* with or without a torn end, or it is a capsule whose creation failed and *)
(* k its first generation.                                                  *)
Fallback(f, k) ==
    \/ f.gen = k.gen /\ f.phase = k.phase /\ (f.tail = "hole" => f = k)
    \/ f.gen = 0 /\ k.phase = Discovered

Backed == \A f \in Kept : Fallback(f, file)

KnownInv ==
    /\ pc \in {"prepared", "write", "append", "rollback", "restore", "down"}
          => ~storePoisoned
    /\ pc \notin {"sync", "down"} /\ ~storePoisoned => file = known
    /\ (pc # "sync" /\ ~storePoisoned) \/ (pc = "sync" /\ known.gen = 0) => Backed
    /\ known.tail = "none"
    /\ known.gen = 0 => known.phase = Discovered
    /\ pc \in {"ready", "write", "rollback", "restore"} => known.gen > 0
    /\ pc = "sync" => file.gen > 0 /\ file.tail = "none"
    /\ pc \in {"append", "sync"} => known.gen < MaxGenerations
    /\ pc = "append" /\ known.gen = 0 => next = Discovered

WorkInv ==
    /\ pc = "write" =>
          known.phase \in Reserved .. BackupBootWritten
          /\ todo \subseteq IntentGroup(known.phase)
    /\ pc = "restore" =>
          known.phase \notin Final /\ todo \subseteq RollbackSet(known.phase)
    /\ pc = "append" => known.phase \notin Final
    /\ pc \in {"append", "sync"} => Justified(next) /\ ReadIsDurable(next)

IInv ==
    /\ TypeOK /\ DiskInv /\ KeptInv /\ ReadInv /\ KnownInv /\ WorkInv
    /\ ActivationGated

-----------------------------------------------------------------------------
(* Facts about the plan.                                                    *)

(* What a rollback restores only grows while the phases advance, always     *)
(* covers the group in flight, and never leaves the ranges the plan writes. *)
LEMMA RollbackSetFacts ==
    /\ \A p \in Phases : RollbackSet(p) \subseteq Written
    /\ RollbackSet(Discovered) = {} /\ RollbackSet(RolledBack) = {}
    /\ \A p \in Discovered .. Activated :
          RollbackSet(p) \subseteq RollbackSet(NextPhase(p))
    /\ \A p \in Reserved .. BackupBootWritten :
          IntentGroup(p) \subseteq RollbackSet(p)
    /\ RollbackSet(Verified) = RollbackSet(Activated)
PROOF
  BY DEF RollbackSet, IntentGroup, NextPhase, Phases, Written, Discovered,
         Reserved, Relocating, TargetStaged, BackupBootWritten, Activated,
         Verified, Finalized, RolledBack

(* Written ranges are ranges of the image.                                  *)
LEMMA WrittenInBlocks == Written \subseteq Blocks /\ Written # {}
PROOF
  BY PlanAssumption DEF PlanAssumption, Written

(* A prepared session satisfies the invariant.                              *)
LEMMA InitIInv == Init => IInv
PROOF
  <1> SUFFICES ASSUME Init PROVE IInv
    OBVIOUS
  <1>1. TypeOK
    <2>1. image \in [Blocks -> Values] /\ disk \in [Blocks -> SUBSET Values]
      BY DEF Init, Values
    <2>2. file \in Capsules /\ known \in Capsules /\ capDisk \in SUBSET Capsules
      BY PlanAssumption DEF PlanAssumption, Init, Capsules, NoCapsule, Tails,
            Phases, Discovered
    <2>3. storePoisoned \in BOOLEAN /\ poisoned \in BOOLEAN
      BY DEF Init
    <2>4. pc \in PCs /\ todo \in SUBSET Blocks /\ next \in Phases /\ faults \in Nat
      BY DEF Init, PCs, Phases, Discovered
    <2> QED
      BY <2>1, <2>2, <2>3, <2>4 DEF TypeOK
  <1>2. DiskInv /\ KeptInv /\ ReadInv
    BY RollbackSetFacts DEF Init, DiskInv, KeptInv, ReadInv, Kept, Justified,
          ReadIsDurable, NoCapsule, Final, Discovered, BackupBootWritten,
          Activated, Verified, Finalized, RolledBack
  <1>3. KnownInv /\ WorkInv /\ ActivationGated
    BY DEF Init, KnownInv, WorkInv, ActivationGated, Kept, Backed, Fallback,
          NoCapsule
  <1> QED
    BY <1>1, <1>2, <1>3 DEF IInv

-----------------------------------------------------------------------------
(* Type correctness.                                                        *)

(* The capsules that an append or a repair can leave are capsules.          *)
LEMMA CapsuleTypes ==
    ASSUME TypeOK
    PROVE  /\ [known EXCEPT !.tail = "torn"] \in Capsules
           /\ Truncated(file) \in Capsules
           /\ NoCapsule \in Capsules
           /\ known.gen < MaxGenerations =>
                 Appended \in Capsules /\ AppendOutcomes \subseteq Capsules
PROOF
  <1> USE PlanAssumption DEF PlanAssumption, TypeOK
  <1>1. [known EXCEPT !.tail = "torn"] \in Capsules
        /\ [known EXCEPT !.tail = "hole"] \in Capsules
    BY DEF Capsules, Tails
  <1>2. Truncated(file) \in Capsules
    BY DEF Capsules, Tails, Truncated
  <1>3. NoCapsule \in Capsules
    BY DEF Capsules, Tails, NoCapsule, Phases, Discovered
  <1>4. known.gen < MaxGenerations => Appended \in Capsules
    BY DEF Capsules, Tails, Appended
  <1> QED
    BY <1>1, <1>2, <1>3, <1>4 DEF AppendOutcomes

(* What the executor puts into a range is a content of the model.           *)
LEMMA PutTypes ==
    ASSUME TypeOK, NEW b \in Blocks, NEW v \in Values, Put(b, v)
    PROVE  image' \in [Blocks -> Values] /\ disk' \in [Blocks -> SUBSET Values]
PROOF
  <1>1. \A w \in Values : Torn(w, v) \in Values
    BY DEF Torn, Values
  <1>2. disk[b] \cup {Torn(w, v) : w \in disk[b]} \cup {v} \in SUBSET Values
    BY <1>1 DEF TypeOK
  <1> QED
    BY <1>2 DEF Put, TypeOK

(* NewValue and its torn form are contents of the model.                    *)
LEMMA NewValueTypes ==
    \A b : NewValue(b) \in Values /\ Torn(image[b], NewValue(b)) \in Values
PROOF
  BY DEF NewValue, CopyOf, Torn, Values

(* A process that ended left typed memory behind.                           *)
LEMMA EndedTypes ==
    ASSUME Ended
    PROVE  /\ known' \in Capsules /\ pc' \in PCs
           /\ storePoisoned' \in BOOLEAN /\ poisoned' \in BOOLEAN
           /\ todo' \in SUBSET Blocks /\ next' \in Phases
PROOF
  <1>1. storePoisoned' \in BOOLEAN /\ poisoned' \in BOOLEAN
    BY DEF Ended
  <1>2. known' \in Capsules
    BY PlanAssumption DEF PlanAssumption, Ended, NoCapsule, Capsules, Tails,
          Phases, Discovered
  <1>3. pc' \in PCs /\ todo' \in SUBSET Blocks /\ next' \in Phases
    BY DEF Ended, PCs, Phases, Discovered
  <1> QED
    BY <1>1, <1>2, <1>3

(* An append is only begun where the capsule has room for it.               *)
Room == pc = "append" => known.gen < MaxGenerations

(* CanRecord is checked on every way to the store.                          *)
LEMMA RoomStep ==
    ASSUME Room, [Next]_vars
    PROVE  Room'
PROOF
  <1> USE DEF Room, imageVars, capVars, memVars
  <1>1. CASE UNCHANGED vars
    BY <1>1 DEF vars
  <1>2. CASE Forward
    BY <1>2 DEF Forward, BeginCapsule, AppendReservation, AppendVerification,
          AppendFinalization, ExecuteRelocation, ExecuteStaging, RefuseStaging,
          WriteBackupBoot, ActivateTarget, StartAppend, StartWrites, CanRecord,
          ForwardReady
  <1>3. CASE Execute
    BY <1>3 DEF Execute, WriteRange, FinishIntent, FinishRollback, CanRecord
  <1>4. CASE Store \/ Rollback \/ Open
    BY <1>4 DEF Store, AppendWrite, AppendSync, Rollback, RollbackBegin,
          RollbackReturns, RollbackRefused, RollbackExecutes, Open
  <1>5. CASE Close \/ Environment
    BY <1>5 DEF Close, Environment, ExecutorFails, AppendFails, RepairFails, Exit,
          PowerLoss, Corrupt, Ended
  <1> QED
    BY <1>1, <1>2, <1>3, <1>4, <1>5 DEF Next

(* Every step keeps the types; an append stays within the capsule limit.    *)
LEMMA TypeStep ==
    ASSUME TypeOK, Room, [Next]_vars
    PROVE  TypeOK'
PROOF
  <1> USE DEF TypeOK, imageVars, capVars, memVars
  <1>1. CASE UNCHANGED vars
    BY <1>1 DEF vars
  <1>2. ASSUME NEW p \in Phases, StartAppend(p) PROVE TypeOK'
    BY <1>2 DEF StartAppend, PCs
  <1>3. CASE Forward
    <2>1. ASSUME StartWrites, known.phase \in Reserved .. BackupBootWritten
          PROVE  TypeOK'
      <3>1. IntentGroup(known.phase) \subseteq Blocks
        BY <2>1, PlanAssumption DEF PlanAssumption, IntentGroup, Reserved,
              Relocating, TargetStaged, BackupBootWritten
      <3> QED
        BY <2>1, <3>1 DEF StartWrites, PCs
    <2>2. CASE BeginCapsule
      BY <2>2, <1>2 DEF BeginCapsule, Phases, Discovered
    <2>3. CASE AppendReservation
      BY <2>3, <1>2 DEF AppendReservation, Phases, Reserved
    <2>4. CASE AppendVerification
      BY <2>4, <1>2 DEF AppendVerification, Phases, Verified
    <2>5. CASE AppendFinalization
      BY <2>5, <1>2 DEF AppendFinalization, Phases, Finalized
    <2>6. CASE ExecuteRelocation \/ ExecuteStaging \/ WriteBackupBoot
               \/ ActivateTarget
      BY <2>6, <2>1 DEF ExecuteRelocation, ExecuteStaging, WriteBackupBoot,
            ActivateTarget, Reserved, Relocating, TargetStaged, BackupBootWritten
    <2>7. CASE RefuseStaging
      BY <2>7 DEF RefuseStaging, Poison
    <2> QED
      BY <1>3, <2>2, <2>3, <2>4, <2>5, <2>6, <2>7 DEF Forward
  <1>4. CASE Execute
    <2>1. ASSUME NEW b \in Blocks, WriteRange(b) PROVE TypeOK'
      BY <2>1, PutTypes, NewValueTypes DEF WriteRange
    <2>2. CASE FinishIntent
      <3>1. disk' \in [Blocks -> SUBSET Values] /\ image' = image
        BY <2>2 DEF FinishIntent, Flushed
      <3>2. NextPhase(known.phase) \in Phases \/ UNCHANGED next
        BY <2>2 DEF FinishIntent, CanRecord, MayFollow, NextPhase, Phases,
              Capsules, Discovered, Finalized, RolledBack
      <3> QED
        BY <2>2, <3>1, <3>2 DEF FinishIntent, Poison, PCs
    <2>3. CASE FinishRollback
      <3>1. disk' \in [Blocks -> SUBSET Values] /\ image' = image
        BY <2>3 DEF FinishRollback, Flushed
      <3>2. next' \in Phases /\ pc' \in PCs
        BY <2>3 DEF FinishRollback, PCs, Phases, RolledBack
      <3>3. storePoisoned' \in BOOLEAN /\ poisoned' \in BOOLEAN
        BY <2>3 DEF FinishRollback, Poison
      <3> QED
        BY <2>3, <3>1, <3>2, <3>3 DEF FinishRollback
    <2> QED
      BY <1>4, <2>1, <2>2, <2>3 DEF Execute
  <1>5. CASE Store
    BY <1>5, CapsuleTypes DEF Store, AppendWrite, AppendSync, Room, PCs
  <1>6. CASE Rollback
    <2>1. CASE RollbackBegin
      BY <2>1, CapsuleTypes DEF RollbackBegin, PCs
    <2>2. CASE RollbackReturns \/ RollbackRefused
      BY <2>2 DEF RollbackReturns, RollbackRefused, Poison, PCs
    <2>3. CASE RollbackExecutes
      <3>1. RollbackSet(known.phase) \subseteq Blocks
        BY RollbackSetFacts, WrittenInBlocks DEF Capsules
      <3> QED
        BY <2>3, <3>1 DEF RollbackExecutes, PCs
    <2> QED
      BY <1>6, <2>1, <2>2, <2>3 DEF Rollback
  <1>7. CASE Open \/ Close
    <2>1. CASE Open
      BY <2>1, CapsuleTypes DEF Open, PCs
    <2>2. CASE Close
      BY <2>2, EndedTypes DEF Close
    <2> QED
      BY <1>7, <2>1, <2>2
  <1>8. CASE Environment
    <2> USE FaultAssumption DEF FaultAssumption, Fault
    <2>1. CASE ExecutorFails
      <3>1. image' \in [Blocks -> Values] /\ disk' \in [Blocks -> SUBSET Values]
        BY <2>1, PutTypes, NewValueTypes DEF ExecutorFails
      <3> QED
        BY <2>1, <3>1 DEF ExecutorFails, Poison, PCs
    <2>2. CASE AppendFails
      <3>1. file' \in Capsules /\ capDisk' \in SUBSET Capsules
        BY <2>2, CapsuleTypes DEF AppendFails
      <3>2. known' \in Capsules /\ pc' \in PCs /\ next' \in Phases
            /\ todo' \in SUBSET Blocks
        BY <2>2, EndedTypes DEF AppendFails, PCs
      <3>3. storePoisoned' \in BOOLEAN /\ poisoned' \in BOOLEAN
        BY <2>2, EndedTypes DEF AppendFails, Poison
      <3> QED
        BY <2>2, <3>1, <3>2, <3>3 DEF AppendFails
    <2>3. CASE RepairFails
      BY <2>3, CapsuleTypes DEF RepairFails
    <2>4. CASE Exit
      BY <2>4, EndedTypes DEF Exit
    <2>5. CASE PowerLoss
      <3>1. image' \in [Blocks -> Values] /\ disk' \in [Blocks -> SUBSET Values]
        BY <2>5 DEF PowerLoss
      <3> QED
        BY <2>5, <3>1, EndedTypes DEF PowerLoss
    <2>6. ASSUME NEW b \in Blocks, Corrupt(b) PROVE TypeOK'
      BY <2>6 DEF Corrupt, Values
    <2> QED
      BY <1>8, <2>1, <2>2, <2>3, <2>4, <2>5, <2>6 DEF Environment
  <1> QED
    BY <1>1, <1>3, <1>4, <1>5, <1>6, <1>7, <1>8 DEF Next

-----------------------------------------------------------------------------
(* Steps that write neither file.                                           *)

(* The parts of the invariant about the two files are left alone.           *)
LEMMA FilesUnchanged ==
    ASSUME IInv, UNCHANGED <<imageVars, capVars>>
    PROVE  DiskInv' /\ KeptInv' /\ ReadInv' /\ Kept' = Kept
PROOF
  BY DEF IInv, DiskInv, KeptInv, ReadInv, Kept, Justified, ReadIsDurable,
         imageVars, capVars

(* What a power loss may leave is a matter of the capsule file alone.       *)
LEMMA SameBacking ==
    ASSUME UNCHANGED capVars
    PROVE  Kept' = Kept /\ file' = file /\ (Backed => Backed')
PROOF
  BY DEF capVars, Kept, Backed

(* A file that is flushed is the only one left.                             *)
LEMMA FlushedBacking == ASSUME Kept' = {file'} PROVE Backed'
PROOF
  BY DEF Backed, Fallback

(* A forward call that only appends: its phase is supported by the image.   *)
LEMMA StartAppendStep ==
    ASSUME IInv, TypeOK', NEW p, StartAppend(p), Justified(p), ReadIsDurable(p),
           pc \in {"prepared", "ready"}, ~storePoisoned
    PROVE  IInv'
PROOF
  <1>1. DiskInv' /\ KeptInv' /\ ReadInv' /\ Kept' = Kept
    BY FilesUnchanged DEF StartAppend
  <1>2. KnownInv'
    BY <1>1, SameBacking DEF IInv, KnownInv, StartAppend, capVars, CanRecord
  <1>3. known.phase \notin Final
    BY DEF StartAppend, CanRecord, MayFollow, Final, IInv, KnownInv,
           Discovered, Finalized, RolledBack
  <1>4. WorkInv' /\ ActivationGated'
    BY <1>3 DEF StartAppend, WorkInv, ActivationGated, Justified, ReadIsDurable,
          imageVars
  <1> QED
    BY <1>1, <1>2, <1>4 DEF IInv

(* A forward call that starts the executor on the group of its phase.       *)
LEMMA StartWritesStep ==
    ASSUME IInv, TypeOK', StartWrites, pc = "ready", ~storePoisoned,
           known.phase \in Reserved .. BackupBootWritten,
           known.phase = BackupBootWritten => AuditPasses(image, known.phase)
    PROVE  IInv'
PROOF
  <1>1. DiskInv' /\ KeptInv' /\ ReadInv' /\ Kept' = Kept
    BY FilesUnchanged DEF StartWrites
  <1>2. KnownInv' /\ WorkInv'
    BY <1>1, SameBacking DEF IInv, KnownInv, WorkInv, StartWrites, capVars, Final
  <1>3. ActivationGated'
    <2>1. ASSUME known.phase = BackupBootWritten
          PROVE  \A b \in Written \ Boot : disk[b] = {"after"}
      <3>1. ReadIsDurable(BackupBootWritten)
        BY <2>1 DEF IInv, KnownInv, ReadInv
      <3>2. \A b \in Written \ Boot : image[b] = "after"
        BY <2>1 DEF AuditPasses, Written
      <3> QED
        BY <3>1, <3>2 DEF ReadIsDurable, Audited
    <2> QED
      BY <2>1 DEF ActivationGated, StartWrites, imageVars
  <1> QED
    BY <1>1, <1>2, <1>3 DEF IInv

(* Every forward call preserves the invariant.                              *)
LEMMA ForwardStep ==
    ASSUME IInv, TypeOK', Forward
    PROVE  IInv'
PROOF
  <1> USE DEF ForwardReady
  <1>a. pc \notin {"sync", "down"} /\ ~storePoisoned =>
           Justified(known.phase) /\ ReadIsDurable(known.phase)
    BY DEF IInv, DiskInv, KnownInv, Kept, KeptInv, ReadInv
  <1>b. ASSUME NEW p \in Discovered .. Activated, Justified(p)
        PROVE  Justified(NextPhase(p))
    BY <1>b, RollbackSetFacts DEF Justified, NextPhase, Discovered, Activated,
          Finalized
  <1>1. CASE BeginCapsule
    <2>1. ~storePoisoned /\ file = known
      BY <1>1 DEF BeginCapsule, IInv, KnownInv
    <2>2. Justified(Discovered)
      <3>1. known.phase = Discovered
        BY <1>1 DEF BeginCapsule, StartAppend, CanRecord, MayFollow, IInv, KnownInv,
              TypeOK, Capsules, Phases, Discovered, RolledBack
      <3> QED
        BY <1>1, <1>a, <2>1, <3>1 DEF BeginCapsule
    <2>3. ReadIsDurable(Discovered)
      BY DEF ReadIsDurable, Discovered, BackupBootWritten, Activated, Verified
    <2> QED
      BY <1>1, <2>1, <2>2, <2>3, StartAppendStep DEF BeginCapsule
  <1>2. CASE AppendReservation
    <2>1. Justified(Reserved)
      BY <1>2, <1>a, <1>b DEF AppendReservation, NextPhase, Discovered, Reserved,
            Activated
    <2>2. ReadIsDurable(Reserved)
      BY DEF ReadIsDurable, Reserved, BackupBootWritten, Activated, Verified
    <2> QED
      BY <1>2, <2>1, <2>2, StartAppendStep DEF AppendReservation
  <1>3. CASE AppendVerification
    <2>1. Justified(Verified)
      BY <1>3, <1>a, <1>b DEF AppendVerification, NextPhase, Discovered,
            Activated, Verified
    <2>2. ReadIsDurable(Verified)
      BY <1>3, <1>a DEF AppendVerification, ReadIsDurable, Audited,
            BackupBootWritten, Activated, Verified
    <2> QED
      BY <1>3, <2>1, <2>2, StartAppendStep DEF AppendVerification
  <1>4. CASE AppendFinalization
    <2>1. \A b \in Written : image[b] = "after"
      BY <1>4 DEF AppendFinalization, AuditPasses, Written
    <2>2. Justified(Finalized)
      BY <1>4, <1>a, <2>1 DEF AppendFinalization, Justified, ReadIsDurable,
            Audited, BackupBootWritten, Verified
    <2>3. ReadIsDurable(Finalized)
      BY DEF ReadIsDurable, Finalized, BackupBootWritten, Activated, Verified
    <2> QED
      BY <1>4, <2>2, <2>3, StartAppendStep DEF AppendFinalization
  <1>5. CASE ExecuteRelocation \/ ExecuteStaging \/ WriteBackupBoot
    BY <1>5, StartWritesStep DEF ExecuteRelocation, ExecuteStaging,
          WriteBackupBoot, Reserved, Relocating, TargetStaged, BackupBootWritten
  <1>6. CASE ActivateTarget
    BY <1>6, StartWritesStep DEF ActivateTarget, Reserved, BackupBootWritten
  <1>7. CASE RefuseStaging
    <2>1. DiskInv' /\ KeptInv' /\ ReadInv'
      BY <1>7, FilesUnchanged DEF RefuseStaging
    <2>2. KnownInv' /\ WorkInv' /\ ActivationGated'
      BY <1>7 DEF RefuseStaging, ForwardReady, Poison, IInv, KnownInv, WorkInv,
            ActivationGated
    <2> QED
      BY <2>1, <2>2 DEF IInv
  <1> QED
    BY <1>1, <1>2, <1>3, <1>4, <1>5, <1>6, <1>7 DEF Forward

-----------------------------------------------------------------------------
(* Steps of the executor.                                                   *)

(* A range of the running operation is one that the rollback of the durable *)
(* phase restores, so writing it, in whole or in part, takes nothing from   *)
(* what the capsule relies on.                                              *)
LEMMA PutStep ==
    ASSUME IInv, pc \in {"write", "restore"}, NEW b \in todo, NEW v \in Values,
           Put(b, v), UNCHANGED capVars, pc = "restore" => v # "after"
    PROVE  /\ DiskInv' /\ KeptInv' /\ ReadInv' /\ Kept' = Kept
           /\ \A c \in Blocks \ {b} : disk'[c] = disk[c]
PROOF
  <1>1. b \in Blocks /\ file = known /\ file \in Kept /\ known.phase \in Phases
    BY DEF IInv, TypeOK, DiskInv, KnownInv, Kept, Capsules
  <1>2. b \in RollbackSet(known.phase) /\ known.phase \notin Final
    BY RollbackSetFacts DEF IInv, WorkInv, Final, Reserved, BackupBootWritten,
          Finalized, RolledBack
  <1>a. \A f \in Kept : f.phase = known.phase
    <2>1. known.phase # Discovered
      BY <1>2, RollbackSetFacts
    <2> QED
      BY <1>1, <2>1 DEF IInv, KnownInv, Backed, Fallback
  <1>3. b \in Written
    BY <1>1, <1>2, RollbackSetFacts
  <1>4. /\ \A c \in Blocks \ {b} : disk'[c] = disk[c] /\ image'[c] = image[c]
        /\ image'[b] = v /\ v \in disk'[b]
    BY <1>1 DEF Put, IInv, TypeOK
  <1>5. Kept' = Kept
    BY DEF Kept, capVars
  <1>6. DiskInv'
    BY <1>3, <1>4 DEF IInv, DiskInv, capVars
  <1>7. KeptInv'
    <2>1. Justified(file.phase)'
      BY <1>1, <1>2, <1>4 DEF IInv, KeptInv, Justified, Final, capVars
    <2>2. \A f \in Kept' : f.phase = file'.phase /\ f.phase \notin Final
      BY <1>1, <1>2, <1>5, <1>a DEF capVars
    <2> QED
      BY <2>1, <2>2 DEF KeptInv, Justified
  <1>8. ReadInv'
    <2>1. CASE known.phase \in {BackupBootWritten, Activated, Verified}
      <3>1. pc = "write" => b \in Boot /\ known.phase = BackupBootWritten
        BY <2>1 DEF IInv, WorkInv, IntentGroup, Reserved, Relocating, TargetStaged,
              BackupBootWritten, Activated, Verified
      <3>2. \A c \in Audited(known.phase) \ {b} :
               image[c] = "after" => disk[c] = {"after"}
        BY <1>1, <2>1 DEF IInv, ReadInv, ReadIsDurable
      <3>3. Audited(known.phase) \subseteq Blocks
        BY WrittenInBlocks DEF Audited
      <3>4. \A c \in Audited(known.phase) :
               image'[c] = "after" => disk'[c] = {"after"}
        BY <1>4, <3>1, <3>2, <3>3 DEF Audited
      <3> QED
        BY <1>1, <3>4 DEF ReadInv, ReadIsDurable, Audited, capVars
    <2> QED
      BY <1>1, <2>1 DEF ReadInv, ReadIsDurable, capVars
  <1> QED
    BY <1>4, <1>5, <1>6, <1>7, <1>8

(* What a rollback puts into a range is never its target content.           *)
LEMMA RestoredValue ==
    ASSUME pc = "restore", NEW b
    PROVE  NewValue(b) # "after" /\ Torn(image[b], NewValue(b)) # "after"
PROOF
  BY DEF NewValue, Torn

(* One range written by the executor.                                       *)
LEMMA WriteRangeStep ==
    ASSUME IInv, TypeOK', NEW b \in Blocks, WriteRange(b)
    PROVE  IInv'
PROOF
  <1>1. /\ DiskInv' /\ KeptInv' /\ ReadInv' /\ Kept' = Kept
        /\ \A c \in Blocks \ {b} : disk'[c] = disk[c]
    BY PutStep, NewValueTypes, RestoredValue DEF WriteRange
  <1>2. KnownInv'
    BY <1>1, SameBacking DEF WriteRange, IInv, KnownInv, capVars
  <1>3. WorkInv'
    BY DEF WriteRange, IInv, WorkInv
  <1>4. ActivationGated'
    <2>1. pc = "write" /\ known.phase = BackupBootWritten => b \in Boot
      BY DEF WriteRange, IInv, WorkInv, IntentGroup, Reserved, Relocating,
            TargetStaged, BackupBootWritten
    <2> QED
      BY <1>1, <2>1, WrittenInBlocks DEF WriteRange, IInv, ActivationGated
  <1> QED
    BY <1>1, <1>2, <1>3, <1>4 DEF IInv

(* A failing executor leaves a poisoned coordinator and an image that the   *)
(* durable phase still covers.                                              *)
LEMMA ExecutorFailsStep ==
    ASSUME IInv, TypeOK', ExecutorFails
    PROVE  IInv'
PROOF
  <1>1. DiskInv' /\ KeptInv' /\ ReadInv' /\ Kept' = Kept
    <2>1. ASSUME NEW b \in todo,
                 NEW v \in {NewValue(b), Torn(image[b], NewValue(b))}, Put(b, v)
          PROVE  DiskInv' /\ KeptInv' /\ ReadInv' /\ Kept' = Kept
      BY <2>1, PutStep, NewValueTypes, RestoredValue DEF ExecutorFails
    <2>2. ASSUME UNCHANGED imageVars
          PROVE  DiskInv' /\ KeptInv' /\ ReadInv' /\ Kept' = Kept
      BY <2>2, FilesUnchanged DEF ExecutorFails
    <2> QED
      BY <2>1, <2>2 DEF ExecutorFails
  <1>2. KnownInv' /\ WorkInv' /\ ActivationGated'
    BY DEF ExecutorFails, Poison, IInv, KnownInv, WorkInv, ActivationGated
  <1> QED
    BY <1>1, <1>2 DEF IInv

(* A flush makes what is read durable, and keeps what was durable.          *)
LEMMA FlushedFacts ==
    ASSUME IInv, Flushed, UNCHANGED capVars
    PROVE  /\ DiskInv' /\ KeptInv' /\ ReadInv' /\ Kept' = Kept
           /\ \A b \in Blocks : image'[b] = image[b] /\ disk'[b] = {image[b]}
           /\ \A p : Justified(p) => Justified(p)'
           /\ \A p : ReadIsDurable(p)'
PROOF
  <1>1. \A b \in Blocks : image'[b] = image[b] /\ disk'[b] = {image[b]}
    BY DEF Flushed
  <1>2. \A b \in Blocks : \A v : disk[b] = {v} => disk'[b] = {v}
    BY <1>1 DEF IInv, DiskInv
  <1>3. \A p : Justified(p) => Justified(p)'
    BY <1>2, WrittenInBlocks DEF Justified
  <1>4. \A p : ReadIsDurable(p)'
    BY <1>1, WrittenInBlocks DEF ReadIsDurable, Audited
  <1>5. Kept' = Kept
    BY DEF Kept, capVars
  <1>6. DiskInv'
    BY <1>1, <1>2 DEF IInv, DiskInv, capVars
  <1>7. KeptInv'
    BY <1>3, <1>5 DEF IInv, KeptInv, Justified
  <1>8. ReadInv'
    BY <1>4 DEF ReadInv, ReadIsDurable, Audited
  <1> QED
    BY <1>1, <1>3, <1>4, <1>5, <1>6, <1>7, <1>8

(* A completed group is flushed before its phase is appended.               *)
LEMMA FinishIntentStep ==
    ASSUME IInv, TypeOK', FinishIntent
    PROVE  IInv'
PROOF
  <1>1. /\ DiskInv' /\ KeptInv' /\ ReadInv' /\ Kept' = Kept
        /\ \A p : Justified(p) => Justified(p)'
        /\ \A p : ReadIsDurable(p)'
    BY FlushedFacts DEF FinishIntent
  <1>2. known.phase \in Reserved .. BackupBootWritten /\ Justified(known.phase)
    BY DEF FinishIntent, IInv, WorkInv, DiskInv, KnownInv, Kept, KeptInv
  <1>3. Justified(NextPhase(known.phase))
    BY <1>2, RollbackSetFacts DEF Justified, NextPhase, Discovered, Reserved,
          BackupBootWritten, Activated, Finalized
  <1>4. CASE pc' = "append" /\ next' = NextPhase(known.phase)
             /\ UNCHANGED <<storePoisoned, poisoned>>
             /\ CanRecord(NextPhase(known.phase))
    <2>1. KnownInv'
      BY <1>1, <1>4, SameBacking DEF FinishIntent, IInv, KnownInv, capVars, CanRecord
    <2>2. Justified(next)' /\ ReadIsDurable(next)'
      BY <1>1, <1>3, <1>4 DEF Justified, ReadIsDurable, Audited
    <2>3. WorkInv' /\ ActivationGated'
      BY <1>2, <1>4, <2>2 DEF FinishIntent, WorkInv, ActivationGated, Final,
            Reserved, BackupBootWritten, Finalized, RolledBack
    <2> QED
      BY <1>1, <2>1, <2>3 DEF IInv
  <1>5. CASE Poison /\ pc' = "ready" /\ UNCHANGED next
    <2>1. KnownInv' /\ WorkInv' /\ ActivationGated'
      BY <1>5 DEF FinishIntent, Poison, IInv, KnownInv, WorkInv, ActivationGated
    <2> QED
      BY <1>1, <2>1 DEF IInv
  <1> QED
    BY <1>4, <1>5 DEF FinishIntent

(* RolledBack is appended only over a flushed source.                       *)
LEMMA FinishRollbackStep ==
    ASSUME IInv, TypeOK', FinishRollback
    PROVE  IInv'
PROOF
  <1>1. file = known /\ Justified(known.phase) /\ known.phase \notin Final
    BY DEF FinishRollback, IInv, WorkInv, DiskInv, KnownInv, Kept, KeptInv
  <1>2. /\ DiskInv' /\ KeptInv' /\ ReadInv' /\ Kept' = Kept
        /\ SourceObserved(image, {}) =>
              \A b \in Blocks : disk'[b] = {"before"}
    <2>1. CASE RollbackSet(known.phase) = {}
      <3>1. \A b \in Blocks : disk[b] = {"before"}
        BY <1>1, <2>1 DEF Justified, Final
      <3>2. UNCHANGED <<imageVars, capVars>>
        BY <2>1 DEF FinishRollback
      <3> QED
        BY <3>1, <3>2, FilesUnchanged DEF imageVars
    <2>2. CASE RollbackSet(known.phase) # {}
      BY <2>2, FlushedFacts DEF FinishRollback, SourceObserved
    <2> QED
      BY <2>1, <2>2
  <1>3. CASE pc' = "append" /\ next' = RolledBack
             /\ UNCHANGED <<storePoisoned, poisoned>>
             /\ SourceObserved(image, {}) /\ CanRecord(RolledBack)
    <2>1. KnownInv'
      BY <1>2, <1>3, SameBacking DEF FinishRollback, IInv, KnownInv, capVars, CanRecord
    <2>2. Justified(next)' /\ ReadIsDurable(next)'
      BY <1>2, <1>3, WrittenInBlocks DEF Justified, ReadIsDurable, Finalized,
            RolledBack, BackupBootWritten, Activated, Verified
    <2>3. WorkInv' /\ ActivationGated'
      BY <1>1, <1>3, <2>2 DEF FinishRollback, WorkInv, ActivationGated
    <2> QED
      BY <1>2, <2>1, <2>3 DEF IInv
  <1>4. CASE Poison /\ pc' = "ready" /\ UNCHANGED next
    <2>1. KnownInv' /\ WorkInv' /\ ActivationGated'
      BY <1>4 DEF FinishRollback, Poison, IInv, KnownInv, WorkInv, ActivationGated
    <2> QED
      BY <1>2, <2>1 DEF IInv
  <1> QED
    BY <1>3, <1>4 DEF FinishRollback

-----------------------------------------------------------------------------
(* Steps of the store and of rollback.                                      *)

(* Steps that leave the image alone and whose capsules were all supported.  *)
LEMMA CapsuleStep ==
    ASSUME IInv, UNCHANGED imageVars, file' \in capDisk', ReadIsDurable(file'.phase),
           \A f \in Kept' : Justified(f.phase)
                            /\ (f.phase \in Final => f.tail = "none")
    PROVE  DiskInv' /\ KeptInv' /\ ReadInv'
PROOF
  <1>1. DiskInv'
    BY DEF IInv, DiskInv, imageVars
  <1>2. KeptInv'
    BY DEF KeptInv, Justified, imageVars
  <1>3. ReadInv'
    BY DEF ReadInv, ReadIsDurable, Audited, imageVars
  <1> QED
    BY <1>1, <1>2, <1>3

(* What can follow an append in flight is the known capsule, with or        *)
(* without a tail, or the new generation.                                   *)
LEMMA OutcomeFacts ==
    ASSUME TypeOK
    PROVE  /\ Appended.phase = next /\ Appended.tail = "none"
           /\ Appended.gen = known.gen + 1 /\ Appended \in AppendOutcomes
           /\ [known EXCEPT !.tail = "torn"].phase = known.phase
           /\ [known EXCEPT !.tail = "torn"].gen = known.gen
           /\ \A f \in AppendOutcomes :
                 f = Appended \/ (f.phase = known.phase /\ f.gen = known.gen)
           /\ Truncated(file).phase = file.phase
           /\ Truncated(file).gen = file.gen /\ Truncated(file).tail = "none"
           /\ file.tail = "none" => Truncated(file) = file
PROOF
  BY DEF TypeOK, Capsules, Appended, AppendOutcomes, Truncated

(* An append in flight exposes only supported capsules.                     *)
LEMMA AppendWriteStep ==
    ASSUME IInv, TypeOK', AppendWrite
    PROVE  IInv'
PROOF
  <1>1. /\ file = known /\ Justified(known.phase) /\ known.phase \notin Final
        /\ Justified(next) /\ ReadIsDurable(next) /\ known.gen < MaxGenerations
    BY DEF AppendWrite, IInv, WorkInv, DiskInv, KnownInv, Kept, KeptInv
  <1>2. \A f \in Kept' : \/ f \in Kept \/ f = Appended
                         \/ f.phase = known.phase /\ f.gen = known.gen
    BY OutcomeFacts DEF Kept, AppendWrite, IInv
  <1>3. DiskInv' /\ KeptInv' /\ ReadInv'
    <2>1. \A f \in Kept' : Justified(f.phase)
                            /\ (f.phase \in Final => f.tail = "none")
      BY <1>1, <1>2, OutcomeFacts DEF IInv, KeptInv
    <2> QED
      BY <1>1, <2>1, OutcomeFacts, CapsuleStep DEF AppendWrite, IInv
  <1>4. known' = known /\ file' = Appended /\ pc' = "sync" /\ next' = next
    BY DEF AppendWrite
  <1>5. KnownInv'
    <2>1. file'.gen > 0 /\ file'.tail = "none"
      BY <1>4, OutcomeFacts DEF IInv, TypeOK, Capsules
    <2>2. ASSUME known.gen = 0 PROVE Backed'
      <3>1. file'.phase = Discovered
        BY <1>4, <2>2, OutcomeFacts DEF AppendWrite, IInv, KnownInv
      <3>2. \A f \in Kept : f.gen = 0
        BY <1>1, <2>2 DEF AppendWrite, IInv, KnownInv, Backed, Fallback
      <3> QED
        BY <1>2, <1>4, <2>2, <3>1, <3>2 DEF Backed, Fallback
    <2> QED
      BY <1>1, <1>4, <2>1, <2>2 DEF IInv, KnownInv
  <1>6. WorkInv' /\ ActivationGated'
    BY <1>1, <1>4 DEF AppendWrite, WorkInv, ActivationGated, Justified,
          ReadIsDurable, Audited, imageVars
  <1> QED
    BY <1>3, <1>5, <1>6 DEF IInv

(* Both flushes done, the new generation is the only one left.              *)
LEMMA AppendSyncStep ==
    ASSUME IInv, TypeOK', AppendSync
    PROVE  IInv'
PROOF
  <1>1. /\ Kept' = {file} /\ file' = file /\ file \in Kept /\ file.gen > 0
        /\ file.tail = "none"
    BY DEF AppendSync, Kept, IInv, DiskInv, KnownInv
  <1>2. DiskInv' /\ KeptInv' /\ ReadInv'
    BY <1>1, CapsuleStep DEF AppendSync, IInv, KeptInv, ReadInv
  <1>3. KnownInv' /\ WorkInv' /\ ActivationGated'
    BY <1>1, FlushedBacking DEF AppendSync, KnownInv, WorkInv, ActivationGated
  <1> QED
    BY <1>2, <1>3 DEF IInv

(* A failed append leaves supported capsules, whatever reached the file.    *)
LEMMA AppendFailsStep ==
    ASSUME IInv, TypeOK', AppendFails
    PROVE  IInv'
PROOF
  <1>1. file \in Kept
    BY DEF Kept, IInv, DiskInv
  <1>2. DiskInv' /\ KeptInv' /\ ReadInv'
    <2>1. CASE pc = "append"
      <3>1. file = known /\ known.phase \notin Final
        BY <2>1 DEF IInv, WorkInv, KnownInv
      <3>2. file'.phase = known.phase /\ file' \in capDisk'
            /\ \A f \in Kept' : f \in Kept \/ f.phase = known.phase
        BY <2>1, <3>1, OutcomeFacts DEF AppendFails, Kept, IInv
      <3>3. Justified(known.phase) /\ ReadIsDurable(known.phase)
        BY <1>1, <3>1 DEF IInv, KeptInv, ReadInv
      <3>4. \A f \in Kept' : Justified(f.phase)
                              /\ (f.phase \in Final => f.tail = "none")
        BY <3>1, <3>2, <3>3 DEF IInv, KeptInv
      <3> QED
        BY <3>2, <3>3, <3>4, CapsuleStep DEF AppendFails
    <2>2. CASE pc = "sync"
      <3>1. file' = file /\ file' \in capDisk' /\ Kept' \subseteq Kept
        BY <1>1, <2>2 DEF AppendFails, Kept, IInv, DiskInv
      <3> QED
        BY <3>1, CapsuleStep DEF AppendFails, IInv, KeptInv, ReadInv
    <2> QED
      BY <2>1, <2>2 DEF AppendFails
  <1>3. CASE known.gen = 0 /\ Ended
    <2>1. Backed'
      <3>1. CASE pc = "append"
        <4>1. file = known /\ known.phase = Discovered /\ Backed
          BY <1>3, <3>1 DEF IInv, KnownInv
        <4>2. file'.phase = Discovered /\ file'.gen = 0
          BY <1>3, <3>1, <4>1, OutcomeFacts DEF AppendFails, IInv
        <4>3. \A f \in Kept' : f \in Kept \/ f = file'
          BY <3>1 DEF AppendFails, Kept
        <4>4. \A f \in Kept : f.gen = 0
          BY <1>3, <4>1 DEF Backed, Fallback
        <4> QED
          BY <4>2, <4>3, <4>4 DEF Backed, Fallback
      <3>2. CASE pc = "sync"
        <4>1. Backed
          BY <1>3, <3>2 DEF IInv, KnownInv
        <4>2. file' = file /\ Kept' \subseteq Kept
          BY <1>1, <3>2 DEF AppendFails, Kept, IInv, DiskInv
        <4> QED
          BY <4>1, <4>2 DEF Backed
      <3> QED
        BY <3>1, <3>2 DEF AppendFails
    <2>2. KnownInv' /\ WorkInv' /\ ActivationGated'
      BY <1>3, <2>1 DEF Ended, NoCapsule, KnownInv, WorkInv, ActivationGated
    <2> QED
      BY <1>2, <2>2 DEF IInv
  <1>4. CASE /\ known.gen > 0 /\ Poison /\ pc' = "ready"
             /\ (UNCHANGED known \/ (capDisk' = {file} /\ known' = file))
    <2>1. file.gen > 0
      BY <1>4 DEF AppendFails, IInv, KnownInv
    <2>2. known'.gen > 0 /\ known'.tail = "none"
      BY <1>4, <2>1 DEF AppendFails, IInv, KnownInv
    <2>3. known'.gen = 0 => known'.phase = Discovered
      BY <2>2
    <2>4. KnownInv' /\ WorkInv' /\ ActivationGated'
      BY <1>4, <2>2, <2>3 DEF Poison, KnownInv, WorkInv, ActivationGated
    <2> QED
      BY <1>2, <2>4 DEF IInv
  <1> QED
    BY <1>3, <1>4 DEF AppendFails

(* Reconciliation adopts what the file already held, and flushes it.        *)
LEMMA RollbackStep ==
    ASSUME IInv, TypeOK', Rollback
    PROVE  IInv'
PROOF
  <1>1. CASE RollbackBegin
    <2>1. CASE ~storePoisoned /\ UNCHANGED <<capVars, known, storePoisoned>>
      <3>1. DiskInv' /\ KeptInv' /\ ReadInv' /\ Kept' = Kept
        BY <1>1, <2>1, FilesUnchanged DEF RollbackBegin
      <3>2. KnownInv' /\ WorkInv' /\ ActivationGated'
        BY <1>1, <2>1, <3>1, SameBacking DEF RollbackBegin, IInv, KnownInv,
              WorkInv, ActivationGated, capVars
      <3> QED
        BY <3>1, <3>2 DEF IInv
    <2>2. CASE /\ Complete(file) \/ TornTail(file)
               /\ file' = Truncated(file) /\ capDisk' = {file'}
               /\ known' = file' /\ storePoisoned' = FALSE
      <3>1. file \in Kept /\ Kept' = {file'}
        BY <2>2 DEF Kept, IInv, DiskInv
      <3>2. file'.phase = file.phase /\ file'.gen = file.gen /\ file'.tail = "none"
        BY <2>2, OutcomeFacts DEF IInv
      <3>3. DiskInv' /\ KeptInv' /\ ReadInv'
        BY <1>1, <2>2, <3>1, <3>2, CapsuleStep DEF RollbackBegin, IInv, KeptInv,
              ReadInv
      <3>4. known'.gen > 0
        BY <2>2, <3>2 DEF Complete, TornTail
      <3>5. known'.gen = 0 => known'.phase = Discovered
        BY <3>4
      <3>6. KnownInv' /\ WorkInv' /\ ActivationGated'
        BY <1>1, <2>2, <3>1, <3>2, <3>4, <3>5, FlushedBacking DEF RollbackBegin,
              KnownInv, WorkInv, ActivationGated
      <3> QED
        BY <3>3, <3>6 DEF IInv
    <2> QED
      BY <1>1, <2>1, <2>2 DEF RollbackBegin
  <1>2. CASE RollbackReturns \/ RollbackRefused
    <2>1. DiskInv' /\ KeptInv' /\ ReadInv' /\ Kept' = Kept
      BY <1>2, FilesUnchanged DEF RollbackReturns, RollbackRefused
    <2>2. KnownInv' /\ WorkInv' /\ ActivationGated'
      <3>1. CASE RollbackReturns
        BY <2>1, <3>1, SameBacking DEF RollbackReturns, IInv, KnownInv, WorkInv, ActivationGated,
              capVars, memVars
      <3>2. CASE RollbackRefused
        BY <2>1, <3>2 DEF RollbackRefused, Poison, IInv, KnownInv, WorkInv,
              ActivationGated, capVars
      <3> QED
        BY <1>2, <3>1, <3>2
    <2> QED
      BY <2>1, <2>2 DEF IInv
  <1>3. CASE RollbackExecutes
    <2>1. DiskInv' /\ KeptInv' /\ ReadInv' /\ Kept' = Kept
      BY <1>3, FilesUnchanged DEF RollbackExecutes
    <2>2. KnownInv' /\ WorkInv' /\ ActivationGated'
      BY <1>3, <2>1, SameBacking DEF RollbackExecutes, IInv, KnownInv, WorkInv,
            ActivationGated, capVars, Final
    <2> QED
      BY <2>1, <2>2 DEF IInv
  <1> QED
    BY <1>1, <1>2, <1>3 DEF Rollback

-----------------------------------------------------------------------------
(* Processes end and start.                                                 *)

(* Resuming adopts the capsule that is there.                               *)
LEMMA OpenStep ==
    ASSUME IInv, TypeOK', Open
    PROVE  IInv'
PROOF
  <1>1. /\ file'.phase = file.phase /\ file'.gen = file.gen /\ file'.gen > 0
        /\ file'.tail = "none"
    BY OutcomeFacts DEF Open, Complete, TornTail, capVars, IInv
  <1>2. /\ file \in Kept /\ file' \in capDisk'
        /\ \A f \in Kept' : f \in Kept \/ f = file'
    BY DEF Open, Kept, IInv, DiskInv, capVars
  <1>a. Backed'
    <2>1. CASE UNCHANGED capVars
      BY <2>1, SameBacking DEF Open, IInv, KnownInv
    <2>2. CASE capDisk' = {file'}
      BY <2>2, FlushedBacking DEF Kept
    <2> QED
      BY <2>1, <2>2 DEF Open
  <1>3. DiskInv' /\ KeptInv' /\ ReadInv'
    <2>1. \A f \in Kept' : Justified(f.phase)
                            /\ (f.phase \in Final => f.tail = "none")
      BY <1>1, <1>2 DEF IInv, KeptInv
    <2> QED
      BY <1>1, <1>2, <2>1, CapsuleStep DEF Open, IInv, ReadInv
  <1>4. KnownInv' /\ WorkInv' /\ ActivationGated'
    <2>1. CASE pc' = "ready" /\ known' = file'
      <3>1. known'.gen = 0 => known'.phase = Discovered
        BY <1>1, <2>1
      <3> QED
        BY <1>1, <1>a, <2>1, <3>1 DEF KnownInv, WorkInv, ActivationGated
    <2>2. CASE UNCHANGED <<pc, known>>
      BY <1>a, <2>2 DEF Open, IInv, KnownInv, WorkInv, ActivationGated
    <2> QED
      BY <2>1, <2>2 DEF Open
  <1> QED
    BY <1>3, <1>4 DEF IInv

(* Ending a process with nothing ambiguous pending.                         *)
LEMMA EndStep ==
    ASSUME SafeFaults, IInv, TypeOK', Close \/ Exit
    PROVE  IInv'
PROOF
  <1>1. DiskInv' /\ KeptInv' /\ ReadInv' /\ Kept' = Kept
    BY FilesUnchanged DEF Close, Exit
  <1>2. Backed'
    <2>1. CASE Close
      BY <2>1, SameBacking DEF Close, IInv, KnownInv
    <2>2. CASE Exit
      BY <2>2, FlushedBacking DEF Exit, SafeFaults, Kept
    <2> QED
      BY <2>1, <2>2
  <1>3. KnownInv' /\ WorkInv' /\ ActivationGated'
    BY <1>2 DEF Close, Exit, Ended, NoCapsule, KnownInv, WorkInv, ActivationGated
  <1> QED
    BY <1>1, <1>3 DEF IInv

(* An interrupted repair only adds the capsule without its torn tail.       *)
LEMMA RepairFailsStep ==
    ASSUME IInv, TypeOK', RepairFails
    PROVE  IInv'
PROOF
  <1>1. file'.phase = file.phase /\ file'.gen = file.gen /\ file'.tail = "none"
    BY OutcomeFacts DEF RepairFails, IInv
  <1>2. file \in Kept /\ Kept' \subseteq Kept \cup {file'} /\ file' \in capDisk'
    BY DEF RepairFails, Kept, IInv, DiskInv
  <1>3. DiskInv' /\ KeptInv' /\ ReadInv'
    BY <1>1, <1>2, CapsuleStep DEF RepairFails, IInv, KeptInv, ReadInv
  <1>4. pc = "down" => Backed'
    <2> SUFFICES ASSUME pc = "down", NEW f \in Kept' PROVE Fallback(f, file')
      BY DEF Backed
    <2>1. Backed /\ file.tail = "torn"
      BY DEF RepairFails, TornTail, IInv, KnownInv
    <2> QED
      BY <1>1, <1>2, <2>1 DEF Backed, Fallback
  <1>5. KnownInv' /\ WorkInv' /\ ActivationGated'
    BY <1>4 DEF RepairFails, IInv, KnownInv, WorkInv, ActivationGated, memVars
  <1> QED
    BY <1>3, <1>5 DEF IInv

(* A power loss picks one of the supported pairs of files.                  *)
LEMMA PowerLossStep ==
    ASSUME IInv, TypeOK', PowerLoss
    PROVE  IInv'
PROOF
  <1>1. \A b \in Blocks : image'[b] \in disk[b] /\ disk'[b] = {image'[b]}
    BY DEF PowerLoss, Dirty, IInv, DiskInv
  <1>2. file' \in Kept /\ Kept' = {file'}
    BY DEF PowerLoss, Kept, Power
  <1>3. DiskInv'
    BY <1>1 DEF PowerLoss, IInv, DiskInv
  <1>4. KeptInv'
    <2>1. Justified(file'.phase) /\ (file'.phase \in Final => file'.tail = "none")
      BY <1>2 DEF IInv, KeptInv
    <2>2. Justified(file.phase)'
      BY <1>1, <2>1, WrittenInBlocks DEF Justified
    <2> QED
      BY <1>2, <2>1, <2>2 DEF KeptInv, Justified
  <1>5. ReadInv'
    BY <1>1, WrittenInBlocks DEF ReadInv, ReadIsDurable, Audited
  <1>6. KnownInv' /\ WorkInv' /\ ActivationGated'
    BY <1>2, FlushedBacking DEF PowerLoss, Ended, NoCapsule, KnownInv, WorkInv,
          ActivationGated
  <1> QED
    BY <1>3, <1>4, <1>5, <1>6 DEF IInv

-----------------------------------------------------------------------------
(* The invariant, and what it gives.                                        *)

(* Every step preserves the invariant.                                      *)
LEMMA NextStep ==
    ASSUME SafeFaults, IInv, [Next]_vars
    PROVE  IInv'
PROOF
  <1>1. TypeOK'
    BY TypeStep DEF IInv, KnownInv, Room
  <1>2. CASE UNCHANGED vars
    <2>1. DiskInv' /\ KeptInv' /\ ReadInv' /\ Kept' = Kept
      BY <1>2, FilesUnchanged DEF vars, imageVars, capVars
    <2>2. KnownInv' /\ WorkInv' /\ ActivationGated'
      BY <1>2, <2>1, SameBacking DEF vars, capVars, IInv, KnownInv, WorkInv,
            ActivationGated, Justified, ReadIsDurable, Audited
    <2> QED
      BY <1>1, <2>1, <2>2 DEF IInv
  <1>3. CASE Forward
    BY <1>1, <1>3, ForwardStep
  <1>4. CASE Execute
    BY <1>1, <1>4, WriteRangeStep, FinishIntentStep, FinishRollbackStep DEF Execute
  <1>5. CASE Store
    BY <1>1, <1>5, AppendWriteStep, AppendSyncStep DEF Store
  <1>6. CASE Rollback
    BY <1>1, <1>6, RollbackStep
  <1>7. CASE Open
    BY <1>1, <1>7, OpenStep
  <1>8. CASE Close \/ Exit
    BY <1>1, <1>8, EndStep
  <1>9. CASE Environment
    <2>1. ~\E b \in Blocks : Corrupt(b)
      BY DEF SafeFaults, Corrupt
    <2> QED
      BY <1>1, <1>8, <1>9, <2>1, ExecutorFailsStep, AppendFailsStep,
         RepairFailsStep, PowerLossStep DEF Environment
  <1> QED
    BY <1>2, <1>3, <1>4, <1>5, <1>6, <1>7, <1>8, <1>9 DEF Next

(* The invariant holds throughout every run in a safe environment.          *)
LEMMA Invariance == ASSUME SafeFaults PROVE Spec => []IInv
PROOF
  BY InitIInv, NextStep, PTL DEF Spec

(***************************************************************************)
(* Type correctness for every plan, limit and fault: in particular no step  *)
(* of append_generation, of a repair or of a crash leaves more generations  *)
(* than capsule_limits.max_generations.                                     *)
(***************************************************************************)
THEOREM TypeCorrect == Spec => []TypeOK
PROOF
  <1>1. Init => TypeOK /\ Room
    BY InitIInv DEF IInv, Init, Room
  <1>2. TypeOK /\ Room /\ [Next]_vars => (TypeOK /\ Room)'
    BY TypeStep, RoomStep
  <1> QED
    BY <1>1, <1>2, PTL DEF Spec

(***************************************************************************)
(* Until Finalized, the rollback that rollback_intent selects for the phase *)
(* in the capsule file gives back the whole source, after any number of     *)
(* failed writes, failed appends, interrupted repairs and crashes.          *)
(***************************************************************************)
THEOREM SourceIsRecoverable == ASSUME SafeFaults PROVE Spec => []SourceRecoverable
PROOF
  <1>1. IInv => SourceRecoverable
    <2> SUFFICES ASSUME IInv, file.phase # Finalized,
                        NEW b \in Blocks \ RollbackSet(file.phase)
                 PROVE  image[b] = "before"
      BY DEF SourceRecoverable, SourceObserved
    <2>1. file \in Kept
      BY DEF Kept, IInv, DiskInv
    <2>2. disk[b] = {"before"}
      BY <2>1 DEF IInv, KeptInv, Justified
    <2> QED
      BY <2>2 DEF IInv, DiskInv
  <1> QED
    BY <1>1, Invariance, PTL

(***************************************************************************)
(* The executor overwrites the primary boot region only over a target that  *)
(* is durable everywhere else (activate_target and its audit).              *)
(***************************************************************************)
THEOREM ActivationIsGated == ASSUME SafeFaults PROVE Spec => []ActivationGated
PROOF
  <1>1. IInv => ActivationGated
    BY DEF IInv
  <1> QED
    BY <1>1, Invariance, PTL

(***************************************************************************)
(* With power losses and I/O errors at any write or flush, what append,     *)
(* resume and restore_verified_prefix return with is not taken back: every  *)
(* capsule that a power loss may leave opens as the adopted one, or the     *)
(* adopted one is the first generation of a capsule whose creation failed   *)
(* and nothing has been written over the source.                            *)
(***************************************************************************)
THEOREM AcknowledgedCapsules ==
    ASSUME SafeFaults, Power PROVE Spec => []AcknowledgedIsDurable
PROOF
  <1>1. IInv => AcknowledgedIsDurable
    <2> SUFFICES ASSUME IInv, pc = "ready", ~storePoisoned, NEW f \in capDisk
                 PROVE  \/ (Complete(f) \/ TornTail(f)) /\ Truncated(f) = known
                        \/ f.gen = 0 /\ known.phase = Discovered
                           /\ \A b \in Blocks : disk[b] = {"before"}
      BY DEF AcknowledgedIsDurable
    <2>1. /\ file = known /\ file \in Kept /\ Fallback(f, known)
          /\ known.gen > 0 /\ known.tail = "none"
      BY DEF IInv, DiskInv, KnownInv, Backed, Kept
    <2>2. f \in Capsules /\ known \in Capsules
      BY DEF IInv, TypeOK
    <2>3. CASE /\ f.gen = known.gen /\ f.phase = known.phase
               /\ f.tail = "hole" => f = known
      <3>1. f.tail \in {"none", "torn"}
        BY <2>1, <2>2, <2>3 DEF Capsules, Tails
      <3>2. Truncated(f) = known
        BY <2>1, <2>2, <2>3 DEF Truncated, Capsules
      <3> QED
        BY <2>1, <2>3, <3>1, <3>2 DEF Complete, TornTail
    <2>4. CASE f.gen = 0 /\ known.phase = Discovered
      <3>1. Justified(Discovered)
        BY <2>1, <2>4 DEF IInv, KeptInv
      <3>2. \A b \in Blocks : disk[b] = {"before"}
        BY <3>1, RollbackSetFacts DEF Justified, Discovered, Finalized
      <3> QED
        BY <2>4, <3>2
    <2> QED
      BY <2>1, <2>3, <2>4 DEF Fallback
  <1> QED
    BY <1>1, Invariance, PTL

(***************************************************************************)
(* With power losses, a decided capsule is found only beside the image that *)
(* it decides for: record_finalization and record_executed_rollback follow  *)
(* the flush of the image.                                                  *)
(***************************************************************************)
THEOREM DecisionsAreDurable ==
    ASSUME SafeFaults, Power PROVE Spec => []DecisionDurable
PROOF
  <1>1. IInv => DecisionDurable
    BY RollbackSetFacts DEF IInv, KeptInv, Kept, Justified, DecisionDurable,
          Finalized, RolledBack
  <1> QED
    BY <1>1, Invariance, PTL

-----------------------------------------------------------------------------
(* Decisions.                                                               *)

(* A decision that no power loss can take back freezes both files.          *)
LEMMA DecidedStep ==
    ASSUME SafeFaults, Power, IInv, [Next]_vars, capDisk = {file},
           file.phase \in Final
    PROVE  image' = image /\ file' = file /\ capDisk' = capDisk
PROOF
  <1>1. Kept = {file} /\ Justified(file.phase) /\ file.tail = "none"
    BY DEF IInv, KeptInv, Kept
  <1>2. pc \notin {"write", "restore", "append"}
    BY DEF IInv, KnownInv, WorkInv, Final, Reserved, BackupBootWritten, Finalized,
           RolledBack
  <1>3. Truncated(file) = file
    BY <1>1, OutcomeFacts DEF IInv
  <1>4. CASE UNCHANGED vars
    BY <1>4 DEF vars
  <1>5. CASE Forward
    BY <1>5 DEF Forward, BeginCapsule, AppendReservation, AppendVerification,
          AppendFinalization, ExecuteRelocation, ExecuteStaging, RefuseStaging,
          WriteBackupBoot, ActivateTarget, StartAppend, StartWrites, imageVars,
          capVars
  <1>6. CASE Execute
    BY <1>2, <1>6 DEF Execute, WriteRange, FinishIntent, FinishRollback
  <1>7. CASE Store
    BY <1>2, <1>7 DEF Store, AppendWrite, AppendSync, imageVars
  <1>8. CASE Rollback
    BY <1>3, <1>8 DEF Rollback, RollbackBegin, RollbackReturns, RollbackRefused,
          RollbackExecutes, imageVars, capVars
  <1>9. CASE Open \/ Close \/ Exit
    BY <1>3, <1>9 DEF Open, Close, Exit, imageVars, capVars
  <1>10. CASE PowerLoss
    <2>1. \A b \in Blocks : disk[b] = {image[b]}
      <3>1. CASE file.phase = Finalized
        BY <1>1, <3>1 DEF IInv, DiskInv, Justified
      <3>2. CASE file.phase = RolledBack
        BY <1>1, <3>2, RollbackSetFacts DEF IInv, DiskInv, Justified, Finalized,
              RolledBack
      <3> QED
        BY <3>1, <3>2 DEF Final
    <2>2. Dirty = {}
      BY <2>1 DEF Dirty
    <2>3. image' = [b \in Blocks |-> image[b]]
      BY <1>10, <2>2 DEF PowerLoss
    <2> QED
      BY <1>10, <2>3 DEF PowerLoss, IInv, TypeOK
  <1>11. CASE Environment
    BY <1>1, <1>2, <1>9, <1>10, <1>11 DEF Environment, ExecutorFails, AppendFails,
          RepairFails, TornTail, SafeFaults, Corrupt, imageVars
  <1> QED
    BY <1>4, <1>5, <1>6, <1>7, <1>8, <1>9, <1>11 DEF Next

(***************************************************************************)
(* With power losses, a decision on the medium is never revised and its     *)
(* image never written again.                                               *)
(***************************************************************************)
THEOREM DecisionsStay ==
    ASSUME SafeFaults, Power PROVE Spec => DecisionsAreFinal
PROOF
  <1>1. ASSUME IInv, [Next]_vars
        PROVE  [capDisk = {file} /\ file.phase \in {Finalized, RolledBack} =>
                  file'.phase = file.phase /\ image' = image]_vars
    BY <1>1, DecidedStep DEF Final
  <1> QED
    BY <1>1, Invariance, PTL DEF Spec, DecisionsAreFinal

-----------------------------------------------------------------------------
(* Refinement of AtomicConversion.                                          *)

(* The image that a capsule in reach supports is read as that volume.       *)
LEMMA SupportedViews ==
    ASSUME IInv
    PROVE  /\ Justified(Finalized) => IsTarget(image)
           /\ Justified(RolledBack) => IsSource(image) /\ ~IsTarget(image)
PROOF
  <1>1. Justified(Finalized) => IsTarget(image)
    BY PlanAssumption, WrittenInBlocks DEF PlanAssumption, IInv, DiskInv, Justified,
          IsTarget
  <1>2. Justified(RolledBack) => IsSource(image)
    BY RollbackSetFacts DEF IInv, DiskInv, Justified, IsSource, Finalized, RolledBack
  <1>3. IsSource(image) => ~IsTarget(image)
    BY WrittenInBlocks DEF IsSource, IsTarget
  <1> QED
    BY <1>1, <1>2, <1>3

(* There is always a view; a decision leaves exactly its own.               *)
ViewInv ==
    /\ Views \in SUBSET {"source", "target"} /\ Views # {}
    /\ Decision \in {"source", "target"} => Views = {Decision}
    /\ file.phase # Finalized => "source" \in Views

(* It follows from the invariant.                                           *)
LEMMA ViewFacts == IInv /\ SourceRecoverable => ViewInv
PROOF
  <1> SUFFICES ASSUME IInv, SourceRecoverable PROVE ViewInv
    OBVIOUS
  <1>1. file \in Kept /\ Justified(file.phase)
    BY DEF Kept, IInv, DiskInv, KeptInv
  <1>2. file.phase = Finalized => Views = {"target"}
    BY <1>1, SupportedViews DEF Views
  <1>3. file.phase # Finalized => "source" \in Views
    BY DEF Views, SourceRecoverable
  <1>4. file.phase = RolledBack => Views = {"source"}
    BY <1>1, <1>3, SupportedViews DEF Views, Finalized, RolledBack
  <1>5. Views \in SUBSET {"source", "target"}
    BY DEF Views
  <1>6. Views # {}
    BY <1>2, <1>3
  <1>7. /\ Decision = "target" => file.phase = Finalized
        /\ Decision = "source" => file.phase = RolledBack
    BY DEF Decision
  <1> QED
    BY <1>2, <1>3, <1>4, <1>5, <1>6, <1>7 DEF ViewInv

(* A decision becomes durable only if it was already one of the capsules    *)
(* that a power loss could leave.                                           *)
LEMMA DecisionFound ==
    ASSUME SafeFaults, Power, IInv, [Next]_vars, capDisk' = {file'},
           file'.phase \in Final
    PROVE  file' \in capDisk
PROOF
  <1>1. file \in capDisk
    BY DEF IInv, DiskInv
  <1>2. ASSUME file' = Truncated(file) PROVE file' \in capDisk
    <2>1. file.phase \in Final
      BY <1>2, OutcomeFacts DEF IInv
    <2>2. file.tail = "none"
      BY <1>1, <2>1 DEF IInv, KeptInv, Kept
    <2> QED
      BY <1>1, <1>2, <2>2, OutcomeFacts DEF IInv
  <1>3. CASE UNCHANGED file
    BY <1>1, <1>3
  <1>4. CASE AppendWrite
    <2>1. known \in capDisk' /\ Appended \in capDisk'
      BY <1>4 DEF AppendWrite, AppendOutcomes
    <2>2. known = Appended
      BY <2>1
    <2>3. known.gen = known.gen + 1 /\ known.gen \in Nat
      BY <2>2, OutcomeFacts, PlanAssumption DEF PlanAssumption, IInv, TypeOK, Capsules
    <2> QED
      BY <2>3
  <1>5. CASE AppendFails
    <2>1. CASE pc = "append"
      <3>1. known.phase \notin Final /\ file = known
        BY <2>1 DEF IInv, WorkInv, KnownInv
      <3>2. file'.phase = known.phase
        BY <1>5, <2>1, <3>1, OutcomeFacts DEF AppendFails, IInv
      <3> QED
        BY <3>1, <3>2
    <2>2. CASE pc = "sync"
      BY <1>1, <1>5, <2>2 DEF AppendFails
    <2> QED
      BY <1>5, <2>1, <2>2 DEF AppendFails
  <1>6. CASE RollbackBegin \/ Open \/ RepairFails
    BY <1>2, <1>3, <1>6 DEF RollbackBegin, Open, RepairFails, capVars
  <1>7. CASE PowerLoss
    BY <1>7 DEF PowerLoss
  <1>8. CASE Forward
    BY <1>3, <1>8 DEF Forward, BeginCapsule, AppendReservation, AppendVerification,
          AppendFinalization, ExecuteRelocation, ExecuteStaging, RefuseStaging,
          WriteBackupBoot, ActivateTarget, StartAppend, StartWrites, capVars
  <1>9. CASE Execute \/ ExecutorFails
    BY <1>3, <1>9 DEF Execute, WriteRange, FinishIntent, FinishRollback,
          ExecutorFails, capVars
  <1>10. CASE AppendSync \/ RollbackReturns \/ RollbackRefused \/ RollbackExecutes
    BY <1>3, <1>10 DEF AppendSync, RollbackReturns, RollbackRefused,
          RollbackExecutes, capVars
  <1>11. CASE Close \/ Exit \/ \E b \in Blocks : Corrupt(b)
    BY <1>3, <1>11 DEF Close, Exit, Corrupt, capVars
  <1> QED
    BY <1>3, <1>4, <1>5, <1>6, <1>7, <1>8, <1>9, <1>10, <1>11
       DEF Next, Store, Rollback, Environment, vars

(***************************************************************************)
(* With power losses, the coordinator, executor and store implement         *)
(* AtomicConversion: some complete volume exists at every instant, and the  *)
(* transaction is decided once, for a volume that exists.                   *)
(***************************************************************************)
THEOREM Refinement ==
    ASSUME SafeFaults, Power PROVE Spec => ConvertsAtomically
PROOF
  <1>1. Init => Promise!Init
    <2> SUFFICES ASSUME Init PROVE Promise!Init
      OBVIOUS
    <2>1. Decision = "open"
      BY DEF Init, Decision, NoCapsule, Discovered, Finalized, RolledBack
    <2>2. Views = {"source"}
      BY WrittenInBlocks DEF Init, Views, NoCapsule, Discovered, Finalized,
            SourceObserved, IsTarget
    <2> QED
      BY <2>1, <2>2 DEF Promise!Init
  <1>2. ASSUME IInv, ViewInv, ViewInv', [Next]_vars
        PROVE  [Promise!Next]_<<Decision, Views>>
    <2>1. CASE Decision # "open"
      <3>1. capDisk = {file} /\ file.phase \in Final
        BY <2>1 DEF Decision, Final
      <3>2. image' = image /\ file' = file /\ capDisk' = capDisk
        BY <1>2, <3>1, DecidedStep
      <3> QED
        BY <3>2 DEF Decision, Views, SourceObserved, IsTarget
    <2>2. CASE Decision = "open" /\ Decision' = "open"
      <3>1. Views' \in (SUBSET {"source", "target"}) \ {{}}
        BY <1>2 DEF ViewInv
      <3> QED
        BY <2>2, <3>1 DEF Promise!Next, Promise!Work, Promise!Volumes
    <2>3. CASE Decision = "open" /\ Decision' # "open"
      <3>1. /\ capDisk' = {file'} /\ file'.phase \in Final
            /\ Decision' = IF file'.phase = Finalized THEN "target" ELSE "source"
        BY <2>3 DEF Decision, Final
      <3>2. file' \in Kept
        BY <1>2, <3>1, DecisionFound DEF Kept
      <3>3. Justified(file'.phase) /\ Justified(file.phase)
        BY <1>2, <3>2 DEF IInv, KeptInv, Kept, DiskInv
      <3>4. Decision' \in Views
        <4>1. CASE file'.phase = Finalized
          BY <1>2, <3>1, <3>3, <4>1, SupportedViews DEF Views
        <4>2. CASE file'.phase = RolledBack
          <5>1. file.phase # Finalized
            BY <1>2, <3>3, <4>2, SupportedViews
          <5> QED
            BY <1>2, <3>1, <4>2, <5>1 DEF ViewInv, Finalized, RolledBack
        <4> QED
          BY <3>1, <4>1, <4>2 DEF Final
      <3>5. Views' = {Decision'} /\ Decision' \in {"source", "target"}
        BY <1>2, <3>1 DEF ViewInv
      <3> QED
        BY <2>3, <3>4, <3>5 DEF Promise!Next, Promise!Decide, Promise!Volumes
    <2> QED
      BY <2>1, <2>2, <2>3
  <1>3. Spec => [](IInv /\ ViewInv)
    BY ViewFacts, Invariance, SourceIsRecoverable, PTL
  <1> QED
    BY <1>1, <1>2, <1>3, PTL DEF Spec, ConvertsAtomically, Promise!Spec

-----------------------------------------------------------------------------
(* Decisions under every set of faults, foreign writes included.            *)

(* A decision that a power loss may leave is the one that a read returns.   *)
StoreInv ==
    /\ \A f \in capDisk : f.phase \in Final => f.phase = file.phase
    /\ pc \in {"prepared", "write", "append", "rollback", "restore"}
          => ~storePoisoned
    /\ pc \notin {"sync", "down"} /\ ~storePoisoned => file = known

(* Nothing comes between the observation of the image and the append.       *)
RecordInv ==
    /\ pc = "prepared" => known.phase = Discovered
    /\ pc = "write" => known.phase \in Reserved .. BackupBootWritten
    /\ pc \in {"append", "restore"} => known.phase \notin Final
    /\ pc = "append" =>
          /\ next = Finalized => IsTarget(image)
          /\ next = RolledBack => IsSource(image)

ExactInv == StoreInv /\ RecordInv

(* The audit of a verified target reads every range that the plan wrote.    *)
LEMMA AuditIsTarget == ASSUME AuditPasses(image, Verified) PROVE IsTarget(image)
PROOF
  BY DEF AuditPasses, IsTarget, Written, Verified

(* Steps that append nothing and leave the capsule and its store alone.     *)
LEMMA SameStore ==
    ASSUME ExactInv, UNCHANGED <<file, capDisk, known>>,
           pc' \in PCs \ {"sync", "append"}, pc \notin {"sync", "down"},
           storePoisoned' = storePoisoned \/ (storePoisoned' = TRUE /\ pc' = "ready"),
           pc' \in {"rollback", "write"} => ~storePoisoned,
           pc' = "restore" => ~storePoisoned /\ known.phase \notin Final,
           pc' = "prepared" => pc = "prepared",
           pc' = "write" => known.phase \in Reserved .. BackupBootWritten
    PROVE  ExactInv'
PROOF
  <1>1. StoreInv'
    BY DEF ExactInv, StoreInv
  <1>2. RecordInv'
    BY DEF ExactInv, RecordInv
  <1> QED
    BY <1>1, <1>2 DEF ExactInv

(* Steps that begin to append a generation over an observed image.          *)
LEMMA RecordStep ==
    ASSUME ExactInv, UNCHANGED <<file, capDisk, known, storePoisoned>>, image' = image,
           pc' = "append", pc \notin {"sync", "down"}, ~storePoisoned,
           known.phase \notin Final,
           next' = Finalized => IsTarget(image),
           next' = RolledBack => IsSource(image)
    PROVE  ExactInv'
PROOF
  <1>1. StoreInv'
    BY DEF ExactInv, StoreInv
  <1>2. RecordInv'
    BY DEF RecordInv, IsTarget, IsSource
  <1> QED
    BY <1>1, <1>2 DEF ExactInv

(* A process that ends leaves the files to the next one.                    *)
LEMMA DownStep ==
    ASSUME ExactInv, Ended, \A f \in capDisk' : f.phase \in Final => f.phase = file'.phase
    PROVE  ExactInv'
PROOF
  BY DEF Ended, ExactInv, StoreInv, RecordInv

(* Forward calls begin an append of an observed decision, or writes.        *)
LEMMA ForwardIsExact == ASSUME TypeOK, ExactInv, Forward PROVE ExactInv'
PROOF
  <1> USE DEF Discovered, Reserved, Relocating, TargetStaged, BackupBootWritten,
          Activated, Verified, Finalized, RolledBack, Final
  <1>1. ASSUME NEW p \in Phases, StartAppend(p), pc \in {"prepared", "ready"},
               ~storePoisoned, known.phase \notin Final, p # RolledBack,
               p = Finalized => IsTarget(image)
        PROVE  ExactInv'
    <2>1. /\ UNCHANGED <<file, capDisk, known, storePoisoned>> /\ image' = image
          /\ pc' = "append" /\ next' = p
      BY <1>1 DEF StartAppend, imageVars, capVars
    <2> QED
      BY <1>1, <2>1, RecordStep
  <1>2. ASSUME StartWrites, pc = "ready", ~storePoisoned,
               known.phase \in Reserved .. BackupBootWritten
        PROVE  ExactInv'
    <2>1. /\ UNCHANGED <<file, capDisk, known>> /\ storePoisoned' = storePoisoned
          /\ pc' = "write"
      BY <1>2 DEF StartWrites, capVars
    <2> QED
      BY <1>2, <2>1, SameStore DEF PCs
  <1>3. CASE BeginCapsule
    BY <1>1, <1>3 DEF BeginCapsule, ExactInv, StoreInv, RecordInv, Phases
  <1>4. CASE AppendReservation
    BY <1>1, <1>4 DEF AppendReservation, ForwardReady, Phases
  <1>5. CASE AppendVerification
    BY <1>1, <1>5 DEF AppendVerification, ForwardReady, Phases
  <1>6. CASE AppendFinalization
    BY <1>1, <1>6, AuditIsTarget DEF AppendFinalization, ForwardReady, Phases
  <1>7. CASE ExecuteRelocation \/ ExecuteStaging \/ WriteBackupBoot \/ ActivateTarget
    BY <1>2, <1>7 DEF ExecuteRelocation, ExecuteStaging, WriteBackupBoot,
          ActivateTarget, ForwardReady
  <1>8. CASE RefuseStaging
    <2>1. /\ UNCHANGED <<file, capDisk, known>> /\ storePoisoned' = TRUE
          /\ pc = "ready" /\ pc' = "ready"
      BY <1>8 DEF RefuseStaging, ForwardReady, Poison, capVars
    <2> QED
      BY <2>1, SameStore DEF PCs
  <1> QED
    BY <1>3, <1>4, <1>5, <1>6, <1>7, <1>8 DEF Forward

(* The executor's writes end in an append only over an observed source.     *)
LEMMA ExecuteIsExact == ASSUME TypeOK, ExactInv, Execute \/ ExecutorFails PROVE ExactInv'
PROOF
  <1> USE DEF Discovered, Reserved, Relocating, TargetStaged, BackupBootWritten,
          Activated, Verified, Finalized, RolledBack, Final
  <1>1. ASSUME NEW b \in Blocks, WriteRange(b) PROVE ExactInv'
    <2>1. /\ UNCHANGED <<file, capDisk, known>> /\ storePoisoned' = storePoisoned
          /\ pc \in {"write", "restore"} /\ pc' = pc
      BY <1>1 DEF WriteRange, capVars
    <2>2. ~storePoisoned /\ (pc = "write" => known.phase \in Reserved .. BackupBootWritten)
          /\ known.phase \notin Final
      BY <2>1 DEF ExactInv, StoreInv, RecordInv
    <2> QED
      BY <2>1, <2>2, SameStore DEF PCs
  <1>2. CASE ExecutorFails
    <2>1. /\ UNCHANGED <<file, capDisk, known>> /\ storePoisoned' = TRUE
          /\ pc \in {"write", "restore"} /\ pc' = "ready"
      BY <1>2 DEF ExecutorFails, Poison, capVars
    <2> QED
      BY <2>1, SameStore DEF PCs
  <1>3. ASSUME pc \in {"write", "restore"}, Poison, pc' = "ready",
               UNCHANGED capVars, UNCHANGED known
        PROVE  ExactInv'
    <2>1. UNCHANGED <<file, capDisk, known>> /\ storePoisoned' = TRUE
      BY <1>3 DEF Poison, capVars
    <2> QED
      BY <1>3, <2>1, SameStore DEF PCs
  <1>4. CASE FinishIntent
    <2>1. pc = "write" /\ UNCHANGED <<file, capDisk, known>> /\ image' = image
      BY <1>4 DEF FinishIntent, Flushed, capVars
    <2>2. ~storePoisoned /\ known.phase \in Reserved .. BackupBootWritten
      BY <2>1 DEF ExactInv, StoreInv, RecordInv
    <2>3. CASE pc' = "append"
      <3>1. next' = known.phase + 1 /\ storePoisoned' = storePoisoned
        BY <1>4, <2>3 DEF FinishIntent, NextPhase
      <3>2. next' \notin Final /\ known.phase \notin Final
        BY <2>2, <3>1
      <3> QED
        BY <2>1, <2>2, <2>3, <3>1, <3>2, RecordStep
    <2>4. CASE pc' # "append"
      BY <1>3, <1>4, <2>4 DEF FinishIntent
    <2> QED
      BY <2>3, <2>4
  <1>5. CASE FinishRollback
    <2>1. pc = "restore" /\ UNCHANGED <<file, capDisk, known>> /\ image' = image
      BY <1>5 DEF FinishRollback, Flushed, imageVars, capVars
    <2>2. ~storePoisoned /\ known.phase \notin Final
      BY <2>1 DEF ExactInv, StoreInv, RecordInv
    <2>3. CASE pc' = "append"
      <3>1. /\ next' = RolledBack /\ storePoisoned' = storePoisoned
            /\ SourceObserved(image, {})
        BY <1>5, <2>3 DEF FinishRollback
      <3>2. IsSource(image)
        BY <3>1 DEF SourceObserved, IsSource
      <3> QED
        BY <2>1, <2>2, <2>3, <3>1, <3>2, RecordStep
    <2>4. CASE pc' # "append"
      BY <1>3, <1>5, <2>4 DEF FinishRollback
    <2> QED
      BY <2>3, <2>4
  <1> QED
    BY <1>1, <1>2, <1>4, <1>5 DEF Execute

(* The store exposes a decision only over the image it was observed on.     *)
LEMMA StoreIsExact ==
    ASSUME TypeOK, ExactInv, AppendWrite \/ AppendSync \/ AppendFails PROVE ExactInv'
PROOF
  <1>1. CASE AppendWrite
    <2>1. /\ pc = "append" /\ ~storePoisoned /\ file' = Appended /\ pc' = "sync"
          /\ capDisk' = capDisk \cup AppendOutcomes /\ storePoisoned' = TRUE
      BY <1>1 DEF AppendWrite
    <2>2. file = known /\ known.phase \notin Final
      BY <2>1 DEF ExactInv, StoreInv, RecordInv
    <2>3. \A f \in capDisk' : f.phase \in Final => f.phase = file'.phase
      BY <2>1, <2>2, OutcomeFacts DEF ExactInv, StoreInv
    <2> QED
      BY <2>1, <2>3 DEF ExactInv, StoreInv, RecordInv
  <1>2. CASE AppendSync
    BY <1>2 DEF AppendSync, ExactInv, StoreInv, RecordInv
  <1>3. CASE AppendFails
    <2>1. \A f \in capDisk' : f.phase \in Final => f.phase = file'.phase
      <3>1. CASE pc = "append"
        <4>1. file = known /\ known.phase \notin Final
          BY <3>1 DEF ExactInv, StoreInv, RecordInv
        <4>2. \A f \in capDisk : f.phase \notin Final
          BY <4>1 DEF ExactInv, StoreInv
        <4> QED
          BY <1>3, <3>1, <4>2 DEF AppendFails
      <3>2. CASE pc = "sync"
        BY <1>3, <3>2 DEF AppendFails, ExactInv, StoreInv
      <3> QED
        BY <1>3, <3>1, <3>2 DEF AppendFails
    <2>2. CASE Ended
      BY <2>1, <2>2, DownStep
    <2>3. CASE Poison /\ pc' = "ready"
      BY <2>1, <2>3 DEF Poison, ExactInv, StoreInv, RecordInv
    <2> QED
      BY <1>3, <2>2, <2>3 DEF AppendFails
  <1> QED
    BY <1>1, <1>2, <1>3

(* Rollback, restart and the faults keep the decision that is on the file.  *)
LEMMA RestIsExact ==
    ASSUME TypeOK, ExactInv,
           Rollback \/ Open \/ Close \/ Exit \/ PowerLoss \/ RepairFails
               \/ \E b \in Blocks : Corrupt(b)
    PROVE  ExactInv'
PROOF
  <1>1. \A f \in capDisk : f.phase \in Final => f.phase = file.phase
    BY DEF ExactInv, StoreInv
  <1>2. Truncated(file).phase = file.phase
    BY OutcomeFacts
  <1>3. CASE RollbackBegin
    <2>1. /\ pc' = "rollback" /\ storePoisoned' = FALSE /\ file' = known'
          /\ \A f \in capDisk' : f.phase \in Final => f.phase = file'.phase
      BY <1>1, <1>3 DEF RollbackBegin, ExactInv, StoreInv, capVars, TypeOK
    <2> QED
      BY <2>1 DEF ExactInv, StoreInv, RecordInv
  <1>4. CASE RollbackReturns \/ RollbackRefused
    <2>1. /\ UNCHANGED <<file, capDisk, known>> /\ pc = "rollback" /\ pc' = "ready"
          /\ storePoisoned' = storePoisoned \/ storePoisoned' = TRUE
      BY <1>4 DEF RollbackReturns, RollbackRefused, Poison, capVars, memVars
    <2> QED
      BY <2>1, SameStore DEF PCs
  <1>5. CASE RollbackExecutes
    <2>1. /\ UNCHANGED <<file, capDisk, known>> /\ pc = "rollback" /\ pc' = "restore"
          /\ storePoisoned' = storePoisoned /\ known.phase \notin Final
      BY <1>5 DEF RollbackExecutes, capVars, Final
    <2>2. ~storePoisoned
      BY <2>1 DEF ExactInv, StoreInv
    <2> QED
      BY <2>1, <2>2, SameStore DEF PCs
  <1>6. CASE Open
    <2>1. \A f \in capDisk' : f.phase \in Final => f.phase = file'.phase
      BY <1>1, <1>6 DEF Open, capVars
    <2>2. \/ pc' = "ready" /\ known' = file'
          \/ pc' = "down"
      BY <1>6 DEF Open
    <2> QED
      BY <2>1, <2>2 DEF ExactInv, StoreInv, RecordInv
  <1>7. CASE Close \/ Exit
    BY <1>1, <1>7, DownStep DEF Close, Exit, capVars
  <1>8. CASE PowerLoss
    BY <1>8, DownStep DEF PowerLoss
  <1>9. CASE RepairFails
    <2>1. /\ \A f \in capDisk' : f.phase \in Final => f.phase = file'.phase
          /\ pc' = pc /\ storePoisoned' = storePoisoned
          /\ pc = "down" \/ (pc = "ready" /\ storePoisoned)
      BY <1>1, <1>2, <1>9 DEF RepairFails, memVars
    <2> QED
      BY <2>1 DEF ExactInv, StoreInv, RecordInv
  <1>10. CASE \E b \in Blocks : Corrupt(b)
    BY <1>10 DEF Corrupt, capVars, memVars, ExactInv, StoreInv, RecordInv
  <1> QED
    BY <1>3, <1>4, <1>5, <1>6, <1>7, <1>8, <1>9, <1>10 DEF Rollback

(* A step that makes the file read as decided appends that decision, over   *)
(* the image it was observed on.                                            *)
LEMMA DecidingStep ==
    ASSUME TypeOK, ExactInv, [Next]_vars, file'.phase \in Final,
           file'.phase # file.phase
    PROVE  /\ file'.phase = Finalized => IsTarget(image')
           /\ file'.phase = RolledBack => IsSource(image')
PROOF
  <1>1. CASE UNCHANGED file
    BY <1>1
  <1>2. CASE AppendWrite
    <2>1. pc = "append" /\ image' = image /\ file'.phase = next
      BY <1>2, OutcomeFacts DEF AppendWrite, imageVars
    <2> QED
      BY <2>1 DEF ExactInv, RecordInv, IsTarget, IsSource
  <1>3. CASE AppendFails
    <2>1. CASE pc = "append"
      <3>1. known.phase \notin Final
        BY <2>1 DEF ExactInv, RecordInv
      <3>2. file' = file \/ file'.phase = known.phase
        BY <1>3, <2>1, OutcomeFacts DEF AppendFails
      <3> QED
        BY <1>1, <3>1, <3>2
    <2>2. CASE pc = "sync"
      BY <1>1, <1>3, <2>2 DEF AppendFails
    <2> QED
      BY <1>3, <2>1, <2>2 DEF AppendFails
  <1>4. CASE RollbackBegin \/ Open \/ RepairFails
    BY <1>1, <1>4, OutcomeFacts DEF RollbackBegin, Open, RepairFails, capVars
  <1>5. CASE PowerLoss
    BY <1>5 DEF PowerLoss, ExactInv, StoreInv
  <1>6. CASE Forward
    BY <1>1, <1>6 DEF Forward, BeginCapsule, AppendReservation, AppendVerification,
          AppendFinalization, ExecuteRelocation, ExecuteStaging, RefuseStaging,
          WriteBackupBoot, ActivateTarget, StartAppend, StartWrites, capVars
  <1>7. CASE Execute \/ ExecutorFails
    BY <1>1, <1>7 DEF Execute, WriteRange, FinishIntent, FinishRollback,
          ExecutorFails, capVars
  <1>8. CASE AppendSync \/ RollbackReturns \/ RollbackRefused \/ RollbackExecutes
    BY <1>1, <1>8 DEF AppendSync, RollbackReturns, RollbackRefused,
          RollbackExecutes, capVars
  <1>9. CASE Close \/ Exit \/ \E b \in Blocks : Corrupt(b)
    BY <1>1, <1>9 DEF Close, Exit, Corrupt, capVars
  <1> QED
    BY <1>1, <1>2, <1>3, <1>4, <1>5, <1>6, <1>7, <1>8, <1>9
       DEF Next, Store, Rollback, Environment, vars

(***************************************************************************)
(* Whatever the faults, power losses, unflushed exits, lost appends and     *)
(* foreign writes of the image between two runs together: the capsule says  *)
(* Finalized or RolledBack from a step on at which the image is the         *)
(* complete target or the exact source (append_finalization, append_rollback*)
(* and the append of CapsuleStore).                                         *)
(***************************************************************************)
THEOREM EveryDecisionIsExact == Spec => DecisionsAreExact
PROOF
  <1>1. Init => ExactInv
    BY DEF Init, ExactInv, StoreInv, RecordInv, NoCapsule
  <1>2. TypeOK /\ ExactInv /\ [Next]_vars => ExactInv'
    <2> SUFFICES ASSUME TypeOK, ExactInv, [Next]_vars PROVE ExactInv'
      OBVIOUS
    <2>1. CASE UNCHANGED vars
      BY <2>1 DEF vars, ExactInv, StoreInv, RecordInv, IsTarget, IsSource
    <2>2. CASE Next
      BY <2>2, ForwardIsExact, ExecuteIsExact, StoreIsExact, RestIsExact
         DEF Next, Store, Environment
    <2> QED
      BY <2>1, <2>2
  <1>3. ASSUME TypeOK, ExactInv, [Next]_vars
        PROVE  [/\ file'.phase = Finalized /\ file.phase # Finalized => IsTarget(image')
                /\ file'.phase = RolledBack /\ file.phase # RolledBack => IsSource(image')
               ]_vars
    BY <1>3, DecidingStep DEF Final
  <1> QED
    BY <1>1, <1>2, <1>3, TypeCorrect, PTL DEF Spec, DecisionsAreExact
=============================================================================
