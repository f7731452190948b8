# Verification of StarConverter

StarConverter converts a volume between exFAT and NTFS. Two paths exist in the
code: an *export* that writes a converted copy, and an *in-place* conversion of a
regular image file, driven by a write-ahead file called the capsule. Both rest on
the same readers, writers, layout solver and translation between the formats, and
a desktop program starts them on worker threads.

This project models the protocols (conversion in place, capsule, publication, the
desktop's jobs) as state machines with crashes, faults and other actors, and the
algorithms (layout, plan and envelope, translation, NTFS and exFAT) by following
small volumes from plan to bytes and back through the program's own readers. The
protocols, the layout solver and the masks of a plan are also proved with TLAPS.
`PROJECT.json` links every definition to the lines it models, every property to its
run and every theorem to its property.

## Inventory

| Part | State | Operations | Interacts with | What is hard | Correct when |
| --- | --- | --- | --- | --- | --- |
| Coordinator (`conversion/regular_image.rs`) | image lock, capsule store, `poisoned` | create, resume, advance to staged / activated, verify, finalize, rollback | executor, store, plan, readers (audit) | crash between image and capsule; failed call in the same process; restart; interrupted rollback | source or target can always be produced; decisions exact and final |
| Plan (`conversion.rs`) | immutable: write groups, before-images, digests | build, next intent, rollback intent, mask, record a phase | coordinator, executor | its sets must agree with each other at every phase | rollback covers everything that may have been written |
| Envelope, recovery bundle (`prepared_envelope.rs`, `recovery.rs`) | none | encode, decode the plan | capsule generation zero | sections that are bound to nothing | a restart has the plan that was prepared |
| Executor (`executor.rs`) | locked image handle | leased intent, leased rollback | image file | torn writes, flush order | a reported group is on the medium |
| Capsule store, format (`capsule_store.rs`, `capsule.rs`) | adopted bytes, `poisoned`, lock | create, append, reconcile, resume, repair, scan | capsule file | ambiguous append, torn tail, bad header copies | never loses an acknowledged generation |
| Views (`overlay.rs`, `phase.rs`, `preimage.rs`, `source_view.rs`, `activation_bytes.rs`) | none | merge, capture, mask, classify | plan, coordinator | range and chunk edges, third states | no third state is taken for a known one |
| Layout (`geometry.rs`, `extent.rs`, `object.rs`) | none | place reservations, relocations, materializations | plan, export | alignment, exhaustion, fragmentation | nothing lost, nothing overlaps, source untouched |
| Export (`candidate_export.rs`) | partial files, source lock | read, copy, validate, publish | file system, readers | two names, other processes, edits of the source | nothing is replaced, nothing partial is published, evidence is true |
| Desktop (`starconverter-gui`), planner (`lib.rs`) | selection, evidence, active job | edit, start, poll, cancel, close | core on worker threads | late results, cancellation, panics | evidence belongs to what is shown |
| Translation (`preservation.rs`, `cross_format.rs`, `escrow_*.rs`) | none | classify, project, carry, restore | planners, readers, writers | collisions, identifiers, edits in between | strict and escrow lose nothing |
| exFAT (`fs/exfat*.rs`) | none | read, plan, draft, finalize, write | export, inspection | geometry search, chains, drafts | what is written is read; damage is seen |
| NTFS (`fs/ntfs*.rs`) | none | read, plan, draft, finalize, write | export, inspection | MFT that maps itself, packing limits, index trees | what is written is read; damage is seen |
| Verifier (`verify.rs`) | none | build a manifest from a graph and a view | export, coordinator | chunked reads across moved ranges, gaps, hard links | expected and rebuilt manifests agree exactly when the payload does |
| Command line, validation evidence, laboratory | none | printing, checks of external evidence | | | |

## Modules

| Module | Models |
| --- | --- |
| `TransactionPhase`, `ConversionPlan` | phases; the decisions that depend only on a phase and the image, over abstract ranges |
| `RegularImage` | coordinator, executor and store over two files, with faults |
| `AtomicConversion` | abstract specification: `docs/SAFETY.md`, "Non-negotiable invariant" |
| `CapsuleStore` | framing and scan of the capsule, and the store over it, cell by cell |
| `Ranges`, `ObjectGraph` | byte ranges; extents, objects, streams and the checks of the neutral graph |
| `ImageViews` | overlay, before-images, phase composition, masked reads, classification |
| `Geometry`, `LayoutPlan` | the layout solver; one placement from draft through the export's checks and manifests to the verified volume |
| `PreparedPlan`, `PhaseWrites` | building a plan, recovery bundle, envelope, restart; the plan carried out byte by byte |
| `CandidateExport` | several exports over one source and shared directories |
| `DesktopApp` | planner, job controller and workers; the window over them |
| `Normalize`, `Preservation` | from an inventory to graph and sidecar; what each guarantee mode admits; how a sidecar is written and read |
| `CrossFormat`, `Timestamps`, `EscrowRestore`, `RoundTrip` | projection onto the other format; calendar; the way back; both exports in sequence |
| `ExfatVolume`, `ExfatWriter`, `ExfatRoundTrip` | boot regions, geometry and reading; writing; one volume from plan to reader |
| `NtfsRecord`, `NtfsIndex`, `NtfsInventory` | sectors, boot, records, attributes, runlists, attribute lists; index trees; discovery of the MFT, inventory and inspection with bitmaps |
| `NtfsPacking`, `NtfsWriter`, `NtfsDestination`, `NtfsRoundTrip` | records of an object; allocation and objects; system files, layout, plan and draft; one volume from plan to inspection |
| `RegularImageProofs`, `CapsuleProofs`, `CandidateExportProofs`, `DesktopProofs`, `CalendarProofs` | theorems about `RegularImage`, `CapsuleStore`, `CandidateExport`, `DesktopApp`, and `RoundTrip` with `Timestamps` |
| `GeometryProofs`, `LayoutProofs`, `PhaseProofs` | theorems about `Geometry`, `LayoutPlan`, and `PhaseWrites` with `PreparedPlan` and `ImageViews` |
| `MC...` | instances for TLC |

`PROJECT.json` maps every stretch of modelled code to the definition that translates
it. Helpers whose lines lie inside those of a mapped definition are not repeated.

### Conversion in place

A plan has four write groups, in the order the phases write them: relocation
copies (`Moved`, copied from `From`), `Staging`, `Backup`, `Boot`. In
`RegularImage` a range of the image holds its `"before"` image, its `"after"`
image, a byte mixture of both (`"mixed"`), or something else (`"third"`): this is
what the code can tell apart. `PlanAssumption` states what
`build_with_projected_target_graph` guarantees; `PreparedPlan` models that function
itself. A relocation source may lie in the staging group: the solver frees exactly
the space the target needs.

`image` and `file` are what a read returns; `disk` and `capDisk` are the contents a
power loss may leave. A write adds the new and all torn contents to the set, a flush
collapses it. The capsule is abstracted to the number of complete generations, the
newest phase and the kind of its tail; `CapsuleStore` justifies this cell by cell.

| Code | Actions |
| --- | --- |
| `create_coordinator` | `BeginCapsule`, then the store |
| `advance_to_target_staged` | `AppendReservation`, `ExecuteRelocation`, `ExecuteStaging` / `RefuseStaging` |
| `advance_to_activated` | `WriteBackupBoot`, `ActivateTarget` |
| `verify_activated_target`, `finalize_verified_target` | `AppendVerification`, `AppendFinalization` |
| `execute_leased_intent`, `finish_durable`, `append_execution` | `WriteRange`, `FinishIntent`, `ExecutorFails` |
| `append` | `AppendWrite`, `AppendSync`, `AppendFails` |
| `rollback` | `RollbackBegin` (reconciliation), `RollbackReturns` / `RollbackRefused` / `RollbackExecutes`, `WriteRange`, `FinishRollback`, the store |
| `resume_from_capsule` | `Open`, `RepairFails` |
| drop | `Close` |
| environment | `Exit`, `PowerLoss`, `Corrupt` |

A checkpoint (`Checkpoint`) is taken in every call, as in the code: a digest of the
image under the observation mask of the phase. The tests of a call that have no
effect when they fail are guards. `"hole"` is a power loss that keeps the grown
length of the capsule file and loses its new bytes. In `CapsuleStore` a header is
two cells, so a tear can fall inside it; the first payload is longer than a header
and later ones are shorter, as envelope and checkpoints are, and each generation may
lose one of its two header copies between two runs.

### The plan, byte by byte

`PhaseWrites` starts before the protocol: `Prepare` runs the whole of
`build_with_projected_target_graph` (evidence, features, layout, reservations,
overlay, before-images, limits, envelope) on a job; the groups are then written one
byte at a time, `RecordPhase` appends a checkpoint after each, `ForeignWrite` lets
someone else write the image, and `Restore` is a restart that has only the capsule:
it decodes the envelope, recomputes the commitments and puts the before-images of
the pre-activation or the full rollback back. Encoded data is a sequence of words,
one for every integer field and payload byte; a digest is the value it is taken of.
`Policies` are the limits of the process that restarts, which may be lower than the
limits of the one that prepared.

### Layout

`LayoutPlan` follows a draft: payload work is partitioned as
`partition_payload_work` does it, solved and sealed into a target graph (`Solve`).
The export then checks relocations and materializations with rules of its own and
builds the manifest it expects, reading the source as if everything had moved
already (`Authorize`, or `Refuse`); moved payload is copied write by write (`Copy`),
the destination metadata goes in (`Activate`), and the manifest is rebuilt from the
image through the graph an inspection would report, which merges neighbouring
extents (`Verify`). A unit of the image holds a unit of a stream, source metadata,
destination metadata, zero, or nothing. A digest is the sequence of units that was
hashed; both manifests may be read in chunks of different sizes (`ReadChunks`).

### Export

In `CandidateExport` each export reads the source five times (expected manifest,
hash, copy, relocations, final hash), chunk by chunk, while another program may edit
it. An edit may go unnoticed by the metadata check of `read_exact_at`; it always
writes something new, because an edit that is undone before the next read cannot be
told from no edit by any hash. A manifest covers only the `Described` chunks. Names
are entries of a directory: `dir[n]` is the file a name refers to now, `dirDisk[n]`
what it may refer to after a power loss. A file is identified by the export and the
artifact that created it, which is also the name of its partial. Sidecar and
candidate lie in different directories, the harder case.

| Code | Actions |
| --- | --- |
| `export_candidate_image_impl`, up to the names | `Start` |
| `hash_image_with_progress`, `copy_source_with_progress`, `apply_relocations_with_progress`, manifests | `ReadChunk`, `EndScan` |
| `NewFileGuard::create_partial` | `Create`, `CreateUnlocked` |
| forward writes or envelope, `sync_all` | `Flush` |
| `verify_candidate_with_progress` | `Verify` |
| `observe_cancellable`, errors before publication | `Stop` |
| `publish_with`, sidecar first | `Ready`, `Check`, `Link`, `Inspect`, `Sync`, `Remove`, `Resync` |
| `Drop for NewFileGuard` | `Abort`, part of every error |
| environment | `Edit`, `Meddle`, `Exit`, `PowerLoss` |

### Desktop

A frame of `DesktopApp` polls the channel (`Poll`), answers a close request
(`AnswerClose`) and lets the user act once (`Widgets`). Each worker runs its job in
steps and observes the cancel flag between them (`WorkerStep`); it may finish, fail,
be cancelled or panic. Only one job is active, but a cancelled worker can still be
running when its outcome no longer counts.

### The two formats

`RoundTrip` takes an inventory as the readers deliver it, normalizes it, applies a
guarantee mode, projects it onto the other format, lets someone edit the candidate,
and exports it back with the sidecar. A name is a
sequence of units (letters in two cases, dot, tilde, digits, surrogates, illegal
ones), at most `MaxNameUnits` long: illegal characters, folding, the split into stem
and extension, shortened stems and `~N` suffixes follow the code.

A sidecar travels as its snapshot: a sequence of words with their widths, written by
`EncodeNtfsSidecar` or `EncodeExfatSidecar`. Validation (`AcceptsEscrow`), the decoders
and the readers of the volume identity and of the security evidence walk it
independently, as in the code. `OlderRelease` replaces a snapshot by one that an
earlier release would have written (NTFS versions 3 to 7, exFAT version 2): it must
stay readable, and it never restores.

`ExfatRoundTrip` and `NtfsRoundTrip` take a graph through the real planning
functions, or through draft, moved payload and finalization, write an image, damage
it in at most one place and read it with the real readers. An exFAT image is two boot
regions, FATs and clusters; an NTFS image is a sequence of sector writes, each
carrying its update sequence number, so that a torn record is a record with a sector
of an older version. That sector is taken to carry another number, as one left by
another driver does. The writer stamps the constant `0xa55a`
(`ntfs_serialize.rs:149`, `6036`): a sector of an earlier plan of its own would
match, and no reader could tell. Sizes that decide anything are those of the code
(records of 1024 bytes, entry and attribute headers, limits). `NtfsRoundTrip` also
has foreign MFTs, whose mapping and attribute list lie in extension records of the
MFT itself.

## Properties and runs

| Run | Instance | Shows |
| --- | --- | --- |
| `power_loss` | 3 power losses or I/O errors, no relocation, 8 generations | `SourceRecoverable`: until Finalized, the rollback of the phase in the capsule gives the source. `ActivationGated`: the boot region is overwritten only over a durable target, also after an interrupted rollback. `DecisionDurable`: what is decided cannot be taken back. `AcknowledgedIsDurable`: whatever a power loss leaves of the capsule opens as what the store acknowledged, except that the first generation of a capsule whose creation failed may be lost while the source is untouched. `DecisionsAreFinal`: a durable decision is never undone. `ConvertsAtomically`: refinement of `AtomicConversion`. `RecoveryTerminates`: every transaction is decided in the end |
| `foreign_writes` | 2 of exit, power loss, foreign write, I/O error; a relocation | `DecisionsAreExact`: Finalized only over the target, RolledBack only over the source |
| `capsule_store` | cuts at every cell, bad headers, 3 generations | `RecoversAcknowledged`: no scan loses an acknowledged generation. `ReconciliationAccepts`: a poisoned store can always be reconciled |
| `phase_writes` | 16-byte image, 4 sound and 22 unsound jobs, chunks of 1, 3 and 16 | `MaskShowsTheOriginal`: a masked read shows the original under any interrupted group, for every chunk size. `InterruptedGroupIsRecognized`: the class of a group is what its bytes are. `RestoreUndoesEveryPhase`: the rollback a restart computes gives the original back from every cut. `RestartKeepsThePlan`: a capsule decodes to the prepared plan, also under lower limits, or is refused |
| `layout` | 16 units, at most 4 source extents and 2 reservations, clusters of 2, two files in all shapes, a hard link; 3 relocations, 4 writes, 5 paths; chunks of 1, 3 and 8 | `SourceIntactUntilActivation`: abandoning before activation costs nothing. `PayloadSurvives`: streams read as before, and verification never reports a mismatch. `TargetIsRepresentable`: a sealed layout lies on the grid without overlaps, and the export refuses it only for its number of writes |
| `source_edits` | 1 relocated export, 5 edits of 2 chunks | `EvidenceIsTrue`: what a successful export copied is what its evidence hashed, and what was planned |
| `publication` | 2 exports to one name, every call may fail, 2 of exit, power loss, foreign rename | `NothingPartialPublished`: final names show only flushed, verified files. `SidecarFirst`: no candidate without its sidecar. `SuccessIsDurable`: a success reported as synchronized survives. `NoClobber`: no export replaces or removes a final name |
| `desktop` | 2 images, 3 jobs, 2 edits | `ExportsWhatWasPreviewed`, `VerifiedIsShown`: evidence belongs to the inputs it is shown with. `NeverClosesOverWork`, `CancelledPublishesNothing`. `ClosesInTheEnd`: a close request is granted in the end |
| `round_trip` | 88 NTFS and 65 exFAT sources, names of 5 units, suffixes up to `~11`, 1 edit; 2,340 moments | `RoundTripIsLossless`, `ExfatRoundTripIsLossless`: what returns is what left, or the way back is refused; a sidecar of any release is accepted and names its volume, and only one of the current release is restored from. `DescriptorsSurvive`: every object has its security descriptor again, except that pinned 0x100 always becomes 0x101. `DestinationIsExfat`: the candidate is a legal exFAT volume with all data, names shortened where they must be. `CalendarRoundTrips` |
| `exfat_volume` | 8 graphs, 2 of them with preallocated files, 3 profiles, volumes of 7 to 9 clusters; 244 sizes; up-case tables of 6 units | `WrittenVolumeIsRead`: the reader finds what was promised; exactly the volumes with a preallocated file are refused. `DamageIsNoticed`: no single damaged item is read as something else. `DraftCanBeFinalized`: around any placement outside the reservations. `GeometryIsReadable`, `TablesDecode` |
| `ntfs_volume` | 25 volumes of 128 to 448 clusters, 240, 248, 249 and 257 among them; foreign MFTs of 6 records in up to 3 pieces | `WrittenNtfsIsRead`: the inspection finds the plan's objects, streams byte for byte, and a clean volume, exactly when the cluster count gives `$Bitmap` a length the reader accepts; it refuses every other volume. `NtfsDamageIsNoticed`: a torn sector or a wrong bitmap bit is never reported clean. `MftMappingIsExact`: an MFT is found exactly when its pieces can be learnt in some order |
| `resume_unflushed` | exit and power loss | violation, see below |

### Bounds

- Two faults are needed for a crash during the recovery from a crash, three for a
  crash in the reconciliation after a failed append of a rollback. Eight generations
  hold the longest history, so they are never used up; that too small a limit costs
  no source is the theorem `SourceIsRecoverable`, for every limit. Two ranges of
  primary boot let activation be torn between ranges; a second range in another group
  adds tears that `"mixed"` covers. `power_loss` has no relocation because with one
  `RecoveryTerminates` fails in the code (see below); the theorems cover the safety
  properties for every plan, relocations included.
- Two exports are enough for a race, five edits for one before each read.
- Three jobs allow a cancelled one, its successor, and one that starts from the
  evidence of both; two edits one before and one during a job.
- 16 bytes with sectors of 2 hold every kind of reservation, a file that moves, one
  that stays and retired metadata; chunks of 3 divide neither a write nor the image.
- The jobs of `ntfs_volume` are chosen at the limits of the writer: directories at
  the last size of a root and the first of a tree (7, 8, 14, 15 names of maximal
  length), names that just fill and just overflow a base record, streams that are
  resident, listed and fragmented, payload at the end of the volume. Move targets lie
  at the front, in the middle and at the last usable clusters. `MovePayload` takes
  any of them that the solver (`Geometry`) could return, a free place outside the
  reservations; the list of targets is a bound. Cluster counts of 240, 248, 249 and
  257 lie around a multiple of 64.
- Names of five units stand for 255: a stem of three and an extension of two just
  fit, with `~2` the stem is cut to one, and an extension of four leaves no room.
  Pairs of surrogates are cut in the middle, and a suffix that is taken is skipped.
- `Foreign` MFTs enumerate every split at five places and every host for two pieces
  and the list, circular ones included.

`power_loss`, `foreign_writes`, `capsule_store`, the two export runs, `desktop` and
`resume_unflushed` disable the deadlock check: a decided transaction, a closed window
or a spent fault budget are states in which the system may stop. So does
`exfat_volume`, whose jobs simply end; in the other runs a job's end is a step of its
own and every other stop would be reported.

### Fairness

`RecoveryTerminates` (`FairSpec`): a call that runs goes on, a transaction left down
is opened again, and the operator keeps asking for rollback. Rollback is strongly fair
because a forward call can be running when it is asked for; the code serializes the
calls through `&mut self` and starves neither. Forward calls are not fair.

`ClosesInTheEnd`: the window's frame goes on, because the program requests a repaint
while a job runs or a close is pending, and worker threads run. The user is not fair;
nothing obliges him to press anything.

### Disagreements

`resume_unflushed` ends in a counterexample: `resume_internal_with_identity` adopts a
strictly valid capsule without flushing it. A process dies after writing a
generation, the next one resumes and writes the next group, the power fails: the
capsule falls back by a phase and its rollback no longer covers the image.
`restore_verified_prefix` does flush in the same situation.

No process has to die for a generation to be adopted before it is durable. When
`create_new` fails at its flush (`capsule_store.rs:156`), or `repair_torn_suffix` after
`set_len` (`capsule_store.rs:637`), the next resume adopts the file as it reads
(`capsule_store.rs:277`). I/O errors of this kind are part of every environment of
`RegularImage`. `AcknowledgedIsDurable` says what is left of "durably known"
(`capsule_store.rs:374`) then: a torn end may come back, which the next open cuts off
again, and the first generation may vanish, over an untouched source. The model takes
a flush of the capsule to make its name durable too; the code synchronizes the
directory only in `create_new` (`capsule_store.rs:162`), so a creation that failed
there leaves a name that resume does not synchronize.

The other disagreements between the code and what its documents, comments or other
parts say were met while modelling. The models follow the code; the instances of the
passing runs stay outside these cases, or the property states the case exactly, as
noted.

In-place conversion:

- With relocations, `rollback_intent(Reserved)` returns the relocation overlay, which
  is not among the executor's authorized overlays (`executor.rs:653`); rollback from
  Reserved is refused for ever, going forward still works. `docs/SAFETY.md:47` says
  "Remove placeholders or continue". With `Moved = {mv}` in `PowerLoss.cfg` TLC finds
  `RecoveryTerminates` violated.
- Staging may overwrite a relocation source, so that after a crash in staging the
  copies cannot be compared any more (`regular_image.rs:422`); the only way out of
  Relocating is rollback, where `regular_image.rs:590` speaks of the "still-intact
  source".
- A capsule tail of full length without valid bytes is not a torn append to
  `is_recoverable_torn_tail` (`capsule.rs:481`); the capsule is refused with all its
  intact generations. `Faults` containing `"hole"` shows it.
- `validate_initial_capsule_generation` reserves room for the first generation only:
  small limits can stop a conversion at a later checkpoint, rollback included.
- `digest_plan` covers neither the free ranges after staging nor the transaction id.

Export and desktop:

- The sidecar is published first; if the candidate's publication then fails before
  its link exists, the error names the candidate's paths only
  (`candidate_export.rs:1327`, `docs/RECOVERY.md:69`).
- Before publication a failed export removes its partial by name, whatever that name
  refers to by then. On Windows the share mode of the open partial prevents the
  replacement.
- Clearing the image path in the desktop leaves the plan of the former image in
  place; `persist_session` clears the dirty mark although saving failed.

Formats:

- The NTFS writer gives `$Bitmap` `ceil(clusters / 8)` bytes
  (`ntfs_serialize.rs:2106`), `parse_bitmap` accepts only that length rounded up to
  eight (`ntfs_bitmap.rs:355`). For seven of eight lengths the program's own inspection
  refuses what it wrote; `WrittenNtfsIsRead` says exactly which.
- Siblings that differ in case only are exported to exFAT with a `~N` suffix; on the
  way back the restored names collide in `validate_names`
  (`ntfs_serialize.rs:2634`), and the export is refused. Named streams of directories
  and an inline descriptor beside pinned identifier 0x100 are likewise accepted on the
  way out and refused on the way back.
- `restore_ntfs_object_metadata` (`cross_format.rs:926`) leaves the drafted identifier
  0x101 on an object whose pinned identifier was 0x100 and that has no inline
  descriptor, where `escrow_restore.rs` says that pinned identifiers keep their
  meaning. `DescriptorsSurvive` states this exception.
- A file without unnamed data returns with an empty one. A preallocated file makes an
  exFAT plan that the exFAT reader refuses, as `WrittenVolumeIsRead` states.
- `choose_geometry` (`exfat_serialize.rs:1165`) can alternate between two answers
  (2087 sectors of 512 bytes); the answer it stops at is usable because the number of
  turns is even.
- A file with a reparse point and no stream gets two attributes with one id
  (`ntfs_serialize.rs:5878`).

## Proofs

TLC checks the runs' instances; the theorems below hold for every value of the
constants that satisfies the named assumptions, and TLC evaluates those assumptions
on every run. Each inductive invariant was model-checked before it was proved.

| Module | Theorem | States | Environment |
| --- | --- | --- | --- |
| `RegularImageProofs` | `TypeCorrect` | `TypeOK`, the generation limit included | any |
| | `SourceIsRecoverable` | `SourceRecoverable` | `SafeFaults` |
| | `ActivationIsGated` | `ActivationGated` | `SafeFaults` |
| | `AcknowledgedCapsules` | `AcknowledgedIsDurable` | `SafeFaults`, power loss |
| | `DecisionsAreDurable` | `DecisionDurable` | `SafeFaults`, power loss |
| | `DecisionsStay` | `DecisionsAreFinal` | `SafeFaults`, power loss |
| | `Refinement` | `ConvertsAtomically` | `SafeFaults`, power loss |
| | `EveryDecisionIsExact` | `DecisionsAreExact` | any, foreign writes included |
| `CandidateExportProofs` | `EvidenceHolds` | `EvidenceIsTrue` | any |
| | `PublicationIsWhole` | `NothingPartialPublished` | any |
| | `SidecarComesFirst` | `SidecarFirst` | any |
| | `SuccessLasts` | `SuccessIsDurable` | any |
| | `NothingIsClobbered` | `NoClobber` | any |
| `DesktopProofs` | `ExportIsPreviewed` | `ExportsWhatWasPreviewed` | any |
| | `VerificationIsShown` | `VerifiedIsShown` | any |
| | `ClosesOverNothing` | `NeverClosesOverWork` | any |
| | `CancelledLeavesNothing` | `CancelledPublishesNothing` | any |
| `CapsuleProofs` | `CapsuleInvariant` | the inductive invariant `CapsuleInv` | any |
| | `AcknowledgedIsRecovered` | `RecoversAcknowledged` | any |
| | `FailedAppendIsReconciled` | `ReconciliationAccepts` | any |
| `CalendarProofs` | `CalendarIsExact` | `CalendarRoundTrips` | any |
| `GeometryProofs` | `SolverPlacesApart` | where the solver puts something, nothing is | any input |
| `LayoutProofs` | `SourceStaysIntact` | `SourceIntactUntilActivation` | any draft |
| `PhaseProofs` | `RestoreBringsTheOriginalBack` | `RestoreUndoesEveryPhase` | any, foreign writes included |
| | `MasksAlwaysShowTheOriginal` | `MaskShowsTheOriginal` | any, foreign writes included |
| | `InterruptedGroupsAreRecognized` | `InterruptedGroupIsRecognized` | any, foreign writes included |

### Conversion in place

For every plan that satisfies `PlanAssumption`, every generation limit and every
number of faults. An I/O error may hit any write or flush, creation and repair of the
capsule included. `SafeFaults` excludes foreign writers and mixing power losses with
processes that end inside a call or abandon a poisoned store; the second exclusion is
exactly the disagreement `resume_unflushed`.
Capsule holes are allowed: they block recovery but never mislead it.

None of the properties is inductive. The invariant `IInv` adds what makes a step
safe: `KeptInv`, every capsule that a later process can find (`Kept`: all of
`capDisk` if power can fail, else `file`) is justified by the image *on the medium*;
`ReadInv`, from BackupBootWritten on, an audit that reads target bytes reads durable
ones; `KnownInv`, when the store is not poisoned, memory and file agree and the medium is
`Backed`, that is, what a power loss leaves opens as the same capsule or is a failed
creation (`Fallback`);
`WorkInv`, a running operation writes only what the rollback of its phase covers,
and a generation about to be appended is already justified. With these, each action
preserves `IInv` (one lemma per action, `NextStep` collects them). The refinement
rests on `ViewInv`: an undecided pair of files yields at least one complete view.

`DecisionsAreExact` speaks of the image as it is read, so it needs neither `IInv` nor
`SafeFaults`. `ExactInv` has two parts: `StoreInv`, a decision that a power loss may
leave in the capsule is the one a read returns, and a store that is not poisoned
knows what the file says; `RecordInv`, between the observation that decides and the
append that records it, nothing writes the image. A foreign write that happened
before is caught by the observation, one that comes later finds the decision made.

### Export

For every set of exports and final names, every source, every number of edits and
faults. `ExportAssumption` says that an export asks for two different final names and
that nobody uses the generated name of a partial as a final name. The invariant joins
three arguments:

- `EvidenceInv`. Versions of a chunk only grow, so what a later scan read is not
  older than what an earlier one read. The comparison at the end says that the first
  and the last hash agree; the copy, read between the two, is squeezed between equal
  values. The metadata check alone (`noticed`) would not do: an edit may leave it.
- `FileInv`, `StageInv`. What is known of the files of an export at each stage: a
  candidate is complete and flushed before it is verified, verified before it is
  ready, and the sidecar likewise before the first link. An `Abort` can only remove
  names.
- `NameInv`, `BarrierInv`. A partial's name refers to its own file or to nothing of
  an export; the candidate has no final name before its own link; once a directory
  is synchronized, `dirDisk` of both names of the artifact is a single entry, and
  only `touched` names may change afterwards.

### Desktop

For every set of images, sidecars and outputs and every number of jobs and edits
(`DesktopAssumption`). `JobInv`: only the active job has a thread, a message in the
channel or artifacts. `ActiveInv`: the active job runs on the inputs on show, because
no field can be edited while a job runs and every edit in between drops the evidence
it invalidates. `ShowInv`: plan and preview are those of the inputs on show. A result is
therefore applied to the inputs it was computed from, and nothing needs to be said
about results that arrive late: there are none.

### Capsule

For headers and payloads of any size, any limit on generations and cells, appends cut
at any cell and one decayed header copy in every generation. `LimitAssumption` has one
condition that the code justifies and the argument needs: a checkpoint is not longer
than a header (40 and 136 bytes). `find_candidates` tries every good header as either
copy, so the primary header of a generation also names a place before it. The bound
keeps that place strictly inside the preceding record, where no generation starts and
no other header leads: the scan is never ambiguous and never led astray.

`CapsuleInv` says that some legal chain of phases fits the file (`Fits`): `Holds`,
every record is as it was written up to where the file ends, except for cells of one
header copy in the generations that decayed, and those are complete; `Acknowledged`,
the acknowledged phases begin the chain and at most one more record is complete; and a
store in use holds the file, or, when poisoned, the file without the record in flight.
The proof has three layers:

- positions: a generation starts where the one before it ends (`StartNext`), no two
  share a cell (`OnePlace`), every cell belongs to one (`Located`);
- reading: a header is decoded only where one was written (`DecodeOnly`), a candidate
  is a written generation or such a place (`CandidateOnly`) and each complete one is found
  (`GenerationFound`), so a round of the loop reads the next generation (`RoundReads`)
  and the loop ends with all that are complete (`WalkEnds`, `ScanResult`);
- steps: an append cut anywhere (`AfterAppend`), a cut behind a complete record
  (`AfterCut`) and a decay (`AfterDecay`) keep `Holds`; one lemma per action follows.

The loop is a recursive function over its rounds. That such a function exists, and
every induction over rounds, generations and positions, is derived from the
well-foundedness of the naturals (`Smallest`, `Induction`, `WalkRounds`): the least
round, generation or position at which a statement would fail is a contradiction.

### Calendar

For every set of FILETIMEs. `cross_format.rs` goes from days to a date by loops over
years and months and back by a closed formula; each direction can be wrong alone.
`CountedIsClosed` shows that both count the same days before every year (by the least
year at which they would differ), `YearIsFound` and `MonthIsFound` that the loops end
at a date, `ExfatYears` that the years 1980 to 2107 are exactly the accepted days,
`ClockDigits` that hours, minutes, double seconds and increment make up the time of day
again. `TimeInv` then needs only `ConvertTime`. The proof found a wrong operator
precedence in the packing of minutes and seconds that the single time of day tried
before had hidden; `round_trip` now tries three.

### Layout

`SolverPlacesApart` is about `solve_layout` alone, for every volume, source, alignment,
list of reservations and exclusions and list of requests (`InputTyped`): if it returns
without an error, every range it hands out lies on the destination's grid and in its
domain and is clear of all the source has, of every reservation and exclusion, and of
every other range handed out. The free space is computed once and then consumed, so
the statement is about a long loop. The proof goes through it in the order of the code:

- `ArrangedElements` to `GapsAreFree`: sorting and merging what is occupied and taking the
  gaps gives ranges that are sorted, apart, and share no cell with anything occupied;
- one allocation, whole or in pieces, takes from one free range and leaves ranges that
  are again sorted and apart (`TakenFromFree`, `FragmentsTaken`);
- the rounds of `allocate`, the requests in the order of decreasing size, then the
  materializations: each round keeps `Placement`, by induction over the rounds
  (`RequestsPlaced`, `ConflictsPlaced`).

`SourceStaysIntact` adds the export. `LayoutInv` is inductive because it names the
link between them: a layout without an error is `Placed` with respect to the draft it
was solved for, and copying happens only under such a layout. Then a copy lands where
the solver said, which no unit of the source occupies. `DraftAssumption` is what the
step from draft to solver needs: the allocations that a writer reports cover every
extent of the graph. Both writers build that list from the extents themselves
(`fs/exfat_serialize.rs:7`, `conversion.rs:1781` checks it again); without it the solver
would not know of the extent and could overwrite it. `LayoutAssumption` gives sizes and
limits their types.

### The plan, byte by byte

For every image, every list of writes, every chunk size, every restart policy and every
sequence of foreign writes; `PhaseAssumption` only gives types to what a serializer and
an inspection hand over, sound or not. `RestoreUndoesEveryPhase` is not inductive: a
restart knows the capsule only. `PhaseInv` says of a prepared conversion

- `SoundPlan`: the plan is what `Reconstructed` makes of its own state, the state encodes
  to an envelope, every before-image is read from the original, and the overlays were
  accepted (each group with its before-images, and the full rollback);
- `CapsuleOf`: the first generation is the envelope of this plan, and every later one a
  checkpoint of it;
- `ChangesMasked`: a byte that differs from the original lies under the masks of the
  newest checkpoint, or somebody else wrote it.

From `SoundPlan` follow the facts the steps need: the masks of every phase hold bytes of
the original (`MasksCaptured`), a later phase masks at least what an earlier one does
(`MasksGrow`), and a group writes only under the masks of the checkpoint it is written
under (`GroupCovered`). The overlay check compares sorted lists and *sums of lengths*;
`SumCountsDots` and `TotalPermuted` show that the sum does not depend on the order, so the
check that passed on the sorted list holds of the list as it was built. A restart reads
words; `DecodedCommits` and `RestartedMasks` show that an envelope that decodes and passes
the comparison of its commitments has the masks that were prepared, under any policy: a
refusal is the only other outcome. A masked read composes chunk, mask and image byte by
byte (`VirtualByte`, `DigestByte`), however the chunks cut the masks.

`InterruptedGroupIsRecognized` needs to know what a byte is, and not only that it may be
put back. `GroupInv` adds that the plan holds exactly the writes of the job (`GroupsOf`)
and `OwnBytes`: a byte nobody else wrote is the original's until the conversion writes
it, and from then on, in the place of a final write, the byte of that write. It is
inductive because no step writes anything else there: each of the lists that the
overlay check accepts has neighbours apart when sorted, hence shares no byte between any
two of its writes (`ApartWrites`), so no two groups meet and no relocation copies into a
group (`GroupsApart`, `StepWritesFinal`). That every group is accepted as masks, in
order and not empty, follows from the authorization (`GroupsReady`); that reading in
chunks is reading at once, from `ChunkedRead`.

### Reasoning about sequences

The prover cannot expand `SortSeq`, `SelectSeq` or a `RECURSIVE` operator. `Ranges`,
`Geometry`, `ObjectGraph` and `PreparedPlan` therefore sort and select by rank (the
element with k predecessors is the k-th) and write loops as recursive functions over
rounds. What such a function returns for every input is derived from the
well-foundedness of the naturals, as for the capsule.

A chain of early returns is a `CASE` with its arms in the order of the code. TLC takes
the first arm that holds, the prover any of them: the theorems do not depend on which of
several applicable errors is returned. Where the order decides the answer
(`ClassifyWriteGroup`, `Classify`) the chain is an `IF`.

### Model-checked only

- Liveness (`RecoveryTerminates`, `ClosesInTheEnd`) and fairness.
- `RestartKeepsThePlan`. It needs that every field of an envelope decodes to what was
  encoded, section by section; the proofs above need, and have, only the masks.
- `PayloadSurvives` and `TargetIsRepresentable`: they are about the contents of every
  stream through two different graphs, the second produced by merging extents.
- The two volume runs and the volumes of `RoundTrip`. Their walks, packers and encoders
  are RECURSIVE operators, or use modules that have some, which the prover does not
  accept.

## Not modelled, and why

- Digests and checksums are taken to be collision free, and are the values they cover.
- Path and identity checks (`ensure_same_container`, `ensure_unchanged`): no run
  replaces a file under its lock. Allocation failures and argument errors return
  before any state changes.
- Codecs without state: LZNT1, `$LogFile` pages, the `$SDS` stream, the full up-case
  table of NTFS. A descriptor, a reparse point or a compressed unit is one value.
- Of the sidecar snapshot, the envelope's limits on bytes and the fields that decide
  nothing in the model (counts of scanned records, the exFAT bitmap entry).
- Command line, drawing, file pickers, saved session: sequential code around single
  calls.
- In `verify.rs`, the limits other than the number of paths and the encoding of the
  manifest commitment; the Windows validation evidence, one sequential pass over
  given bytes.
- `validate_ntfs3g_*` in `ntfs_serialize.rs`, which only tests call, the laboratory
  in Go, fuzz targets and release scripts.

## Plan

1. Proofs: `RestartKeepsThePlan` section by section; `PayloadSurvives` on top of
   `SolverPlacesApart`; `GeometryIsReadable`, with its search as a recursive function.
2. `verify_bound_export` joined to `CandidateExport`; an abstract specification of
   publication.
3. Larger instances: relocations and materializations in `PhaseWrites`, two damages
   in the volume runs.
