----------------------------- MODULE DesktopApp ------------------------------
(***************************************************************************)
(* The desktop front end (starconverter-gui): the preliminary plan (lib.rs),*)
(* from a volume profile, a target and a guarantee mode to the set of       *)
(* blocking issues; the job controller and its worker threads, where the    *)
(* window thread owns active, the workers own their step, and cancel flag,  *)
(* progress and channel are shared; and StarConverterApp, what the window   *)
(* shows and accepts, frame by frame. A frame polls the channel, answers a  *)
(* close request, and lets the user act once.                               *)
(***************************************************************************)
EXTENDS Integers, FiniteSets, Sequences


CONSTANTS
    MaxJobs,        \* bound on jobs
    Volume,         \* Volume[path]: profile of the image with this path
    Convertible,    \* [image, mode, restore] that draft and layout accept
    Genuine         \* [candidate, escrow, source] that verify_bound_export accepts

-----------------------------------------------------------------------------
(* The preliminary plan                                                     *)

FileSystems == {"exfat", "ntfs", "unknown"}
Modes == {"strict", "escrow", "content"}

Features == {"acl", "streams", "compression", "efs", "links", "reparse",
             "sparse", "case"}

(* Sizes are in units of 16 MiB; free is -1 where nothing was proven.       *)
Profiles ==
    [identified : BOOLEAN, fs : FileSystems, capacity : Nat, free : Nat \cup {-1},
     sector : Nat, cluster : Nat,
     health : {"clean", "dirty", "unknown"},
     access : {"offline", "mounted", "unknown"},
     system : BOOLEAN, encrypted : BOOLEAN,
     features : SUBSET Features, complete : BOOLEAN]

EscrowSupported(feature) == feature # "efs"

IdentityIssues(profile, target) ==
    {i \in {"identity.missing", "source.unsupported", "target.unsupported",
            "direction.same-filesystem", "inventory.incomplete"} :
        CASE i = "identity.missing" -> ~profile.identified
          [] i = "source.unsupported" -> profile.fs = "unknown"
          [] i = "target.unsupported" -> target = "unknown"
          [] i = "direction.same-filesystem" -> profile.fs = target
          [] i = "inventory.incomplete" -> ~profile.complete}

StateIssues(profile) ==
    {i \in {"health", "access", "topology"} :
        CASE i = "health" -> profile.health # "clean"
          [] i = "access" -> profile.access # "offline"
          [] i = "topology" -> profile.system \/ profile.encrypted}

PowersOfTwo == {2 ^ n : n \in 0 .. 30}

GeometryIssues(profile) ==
    {i \in {"geometry.sector-size", "geometry.empty", "space.invalid",
            "geometry.cluster-size"} :
        CASE i = "geometry.sector-size" -> profile.sector \notin {512, 4096}
          [] i = "geometry.empty" -> profile.capacity = 0
          [] i = "space.invalid" -> profile.free > profile.capacity
          [] i = "geometry.cluster-size" ->
                \/ profile.cluster \notin PowersOfTwo
                \/ profile.cluster < profile.sector
                \/ profile.cluster % profile.sector # 0}

(* Only NTFS to exFAT has semantics that the target lacks.                  *)
Carried(profile, target) ==
    IF profile.fs = "ntfs" /\ target = "exfat" THEN profile.features ELSE {}

SemanticIssues(profile, target, mode) ==
    {f \in Carried(profile, target) :
        mode = "strict" \/ (mode = "escrow" /\ ~EscrowSupported(f))}

EscrowReserve(profile, target, mode) ==
    IF mode = "escrow"
    THEN Cardinality({f \in Carried(profile, target) : EscrowSupported(f)})
    ELSE 0

(* A hundredth of the volume, at least 256 MiB.                             *)
MetadataReserve(profile) ==
    IF profile.capacity \div 100 > 16 THEN profile.capacity \div 100 ELSE 16

SpaceIssues(profile, target, mode) ==
    IF profile.free < MetadataReserve(profile)
                      + EscrowReserve(profile, target, mode)
    THEN {"space"} ELSE {}

(* The blockers of Planner::plan.                                           *)
Blockers(profile, target, mode) ==
    IdentityIssues(profile, target) \cup StateIssues(profile)
        \cup GeometryIssues(profile) \cup SemanticIssues(profile, target, mode)
        \cup SpaceIssues(profile, target, mode)

IsReady(profile, target, mode) == Blockers(profile, target, mode) = {}

OppositeFilesystem(fs) ==
    CASE fs = "exfat" -> "ntfs" [] fs = "ntfs" -> "exfat" [] OTHER -> "unknown"

DemoExfat ==
    [identified |-> TRUE, fs |-> "exfat", capacity |-> 4096, free |-> 1344, sector |-> 512,
     cluster |-> 131072, health |-> "clean", access |-> "offline",
     system |-> FALSE, encrypted |-> FALSE, features |-> {}, complete |-> TRUE]

DemoNtfs ==
    [DemoExfat EXCEPT !.fs = "ntfs", !.features = {"acl", "streams", "sparse"}]

-----------------------------------------------------------------------------
(* Jobs                                                                     *)

(* The fields that a preview and an export depend on.                       *)
InputsOf(input) ==
    [image |-> input.image, mode |-> input.mode, restore |-> input.restore]

(* draft_..._with_optional_restore and solve_lossless_... on a complete     *)
(* inventory with a known target.                                           *)
Drafted(input) ==
    /\ OppositeFilesystem(Volume[input.image].fs) # "unknown"
    /\ Volume[input.image].complete
    /\ InputsOf(input) \in Convertible

(* Whether the work of a job can end well: inspect_image,                   *)
(* build_exact_preview, build_candidate_export before it exports,           *)
(* verify_bound_export_with_progress.                                       *)
WorkSucceeds(kind, step, input) ==
    CASE kind = "inspect" -> Volume[input.image].fs # "unknown"
      [] kind = "preview" -> Drafted(input)
      [] kind = "export" -> step = "work" \/ Drafted(input)
      [] kind = "verify" -> input \in Genuine

Ids == 1 .. MaxJobs
Kinds == {"inspect", "preview", "export", "verify"}
NoJob == 0

VARIABLES
    nextId,     \* BackgroundJobs.next_id
    active,     \* id of the active job, or NoJob
    job,        \* job[id]: kind, input, step and outcome of a worker
    cancel,     \* cancel[id]: cancel_requested
    progress,   \* progress[id]: the last progress that the worker reported
    channel,    \* ids of the finished jobs, in the order they were sent
    published   \* jobs whose artifacts have their final names (history)

jobVars == <<nextId, active, job, cancel, progress, channel, published>>

Unborn == [kind |-> "none", input |-> <<>>, step |-> "unborn", outcome |-> "none"]

JobsInit ==
    /\ nextId = 1 /\ active = NoJob /\ channel = <<>> /\ published = {}
    /\ job = [id \in Ids |-> Unborn]
    /\ cancel = [id \in Ids |-> FALSE] /\ progress = [id \in Ids |-> "none"]

Busy == active # NoJob

(* Exports and verifications poll the observer, the others only before and  *)
(* after their work.                                                        *)
FirstStep(kind) == IF kind = "verify" THEN "observe" ELSE "first"

(* BackgroundJobs::start with a thread that could be spawned.               *)
StartJob(kind, input) ==
    /\ ~Busy /\ nextId <= MaxJobs
    /\ job' = [job EXCEPT ![nextId] =
                  [kind |-> kind, input |-> input, step |-> FirstStep(kind),
                   outcome |-> "none"]]
    /\ active' = nextId
    /\ nextId' = nextId + 1
    /\ UNCHANGED <<cancel, progress, channel, published>>

(* ... and one that could not.                                              *)
StartRefused ==
    /\ ~Busy /\ nextId <= MaxJobs
    /\ nextId' = nextId + 1
    /\ UNCHANGED <<active, job, cancel, progress, channel, published>>

RequestCancel ==
    /\ cancel' = [cancel EXCEPT ![active] = TRUE]
    /\ UNCHANGED <<nextId, active, job, progress, channel, published>>

Cancellable(id) == progress[id] # "committing"

-----------------------------------------------------------------------------
(* The workers.                                                             *)

Goto(id, step, outcome) ==
    job' = [job EXCEPT ![id].step = step, ![id].outcome = outcome]

(* JobControl::observe: progress first, then the flag.                      *)
Observe(id, next) ==
    /\ progress' = [progress EXCEPT ![id] = "cancellable"]
    /\ IF cancel[id] THEN Goto(id, "send", "cancelled")
                     ELSE Goto(id, next, job[id].outcome)
    /\ UNCHANGED <<nextId, active, cancel, channel, published>>

Checkpoint(id) ==
    \/ /\ job[id].step = "first" /\ Observe(id, "work")
    \/ /\ job[id].step = "second" /\ Observe(id, "draft")

(* The work of a job, or the part of it between two checkpoints. Inspection *)
(* and preview end in a checkpoint of their own (run_coarse_cancellable_job).*)
Work(id) ==
    LET j == job[id]
        coarse == j.kind \in {"inspect", "preview"}
        next == IF coarse THEN "last"
                ELSE IF j.step = "work" THEN "second" ELSE "observe"
        failed == IF coarse THEN "last" ELSE "send" IN
    /\ j.step \in {"work", "draft"}
    /\ \/ /\ WorkSucceeds(j.kind, j.step, j.input)
          /\ Goto(id, next, IF next = "last" THEN "ok" ELSE "none")
       \/ Goto(id, failed, "failed")
    /\ UNCHANGED <<nextId, active, cancel, progress, channel, published>>

(* Mutant: an export, too, is cancelled by the checkpoint after its work.   *)
CancelAfterPublication(id) ==
    /\ \/ job[id].step = "last"
       \/ job[id].step = "send" /\ job[id].kind = "export"
    /\ progress' = [progress EXCEPT ![id] = "cancellable"]
    /\ Goto(id, "send", IF cancel[id] /\ job[id].outcome # "failed"
                        THEN "cancelled" ELSE job[id].outcome)
    /\ UNCHANGED <<nextId, active, cancel, channel, published>>

(* The checkpoint after the work: a failure is not hidden by a cancellation.*)
LastCheckpoint(id) ==
    /\ job[id].step = "last"
    /\ progress' = [progress EXCEPT ![id] = "cancellable"]
    /\ Goto(id, "send", IF cancel[id] /\ job[id].outcome # "failed"
                        THEN "cancelled" ELSE job[id].outcome)
    /\ UNCHANGED <<nextId, active, cancel, channel, published>>

(* An export or a verification reports and may be cancelled, fail, or end.  *)
(* The last report of an export is ReadyToPublish; then it commits.         *)
Progress(id) ==
    /\ job[id].step = "observe"
    /\ \/ Observe(id, "observe")
       \/ Observe(id, IF job[id].kind = "export" THEN "commit" ELSE "end")
       \/ /\ Goto(id, "send", "failed")
          /\ UNCHANGED <<nextId, active, cancel, progress, channel, published>>

Commit(id) ==
    /\ job[id].step = "commit"
    /\ progress' = [progress EXCEPT ![id] = "committing"]
    /\ Goto(id, "publish", "none")
    /\ UNCHANGED <<nextId, active, cancel, channel, published>>

(* Publication; an error may leave some artifact under its final name.      *)
PublishArtifacts(id) ==
    /\ job[id].step = "publish"
    /\ \/ Goto(id, "send", "ok") /\ published' = published \cup {id}
       \/ Goto(id, "send", "failed") /\ published' \in {published, published \cup {id}}
    /\ UNCHANGED <<nextId, active, cancel, progress, channel>>

EndVerification(id) ==
    /\ job[id].step = "end"
    /\ \/ WorkSucceeds(job[id].kind, job[id].step, job[id].input) /\ Goto(id, "send", "ok")
       \/ Goto(id, "send", "failed")
    /\ UNCHANGED <<nextId, active, cancel, progress, channel, published>>

(* Mutant: a thread that panics dies without a message.                     *)
DiesSilently(id) ==
    /\ job[id].step \notin {"unborn", "send", "sent"}
    /\ Goto(id, "sent", "failed")
    /\ UNCHANGED <<nextId, active, cancel, progress, channel, published>>

(* catch_unwind: a panic is a failure.                                      *)
Panic(id) ==
    /\ job[id].step \notin {"unborn", "send", "sent"}
    /\ Goto(id, "send", "failed")
    /\ UNCHANGED <<nextId, active, cancel, progress, channel, published>>

Send(id) ==
    /\ job[id].step = "send"
    /\ Goto(id, "sent", job[id].outcome)
    /\ channel' = Append(channel, id)
    /\ UNCHANGED <<nextId, active, cancel, progress, published>>

Worker(id) ==
    \/ Checkpoint(id) \/ Work(id) \/ LastCheckpoint(id) \/ Progress(id)
    \/ Commit(id) \/ PublishArtifacts(id) \/ EndVerification(id) \/ Send(id)

(* Threads that would die with the process.                                 *)
Running == {id \in Ids : job[id].step \notin {"unborn", "sent"}}

(* take_ready: the first message is received; one that is not of the active *)
(* job is dropped. The thread has ended and its control block goes.         *)
Received == Head(channel)
Applies == Received = active

Take ==
    /\ channel # <<>>
    /\ channel' = Tail(channel)
    /\ active' = IF Applies THEN NoJob ELSE active
    /\ job' = [job EXCEPT ![Received] = Unborn]
    /\ cancel' = [cancel EXCEPT ![Received] = FALSE]
    /\ progress' = [progress EXCEPT ![Received] = "none"]
    /\ published' = published \ {Received}
    /\ UNCHANGED nextId

-----------------------------------------------------------------------------
CONSTANTS
    Images,         \* image paths
    Sidecars,       \* escrow paths that can be chosen for a restore
    Outputs,        \* output paths that can be chosen for an export
    EscrowOf,       \* EscrowOf[output]: the sidecar name that export derives
    NoPath,         \* an empty field
    MaxEdits        \* bound on edits of a field

ASSUME DesktopAssumption ==
    /\ MaxJobs \in Nat \ {0} /\ MaxEdits \in Nat
    /\ Volume \in [Images -> Profiles]
    /\ EscrowOf \in [Outputs -> Sidecars]
    /\ NoPath \notin Images \cup Sidecars \cup Outputs

VARIABLES
    frame,      \* part of the frame: "poll", "close" or "widgets"
    image, mode, restore,   \* image_path, mode, restore_escrow_path
    source,     \* the profile on show
    real,       \* real_source
    plan,       \* the inputs of the plan on show
    current,    \* plan_currency
    preview,    \* inputs of the exact preview or export on show, or NoPath
    vpaths,     \* the three verification paths
    vok,        \* verification_ok
    vproof,     \* the paths that the accepted verification was run on (history)
    closing,    \* close_intent is CloseAfterJob
    asked,      \* the window manager has asked to close
    window,     \* "open" or "closed"
    edits       \* fields edited so far (bound)

inputVars == <<image, mode, restore>>
planVars == <<source, real, plan, current, preview>>
verifyVars == <<vpaths, vok, vproof>>
windowVars == <<closing, asked, window>>
appVars == <<frame, inputVars, planVars, verifyVars, windowVars, edits>>
vars == <<jobVars, appVars>>

Inputs == [image |-> image, mode |-> mode, restore |-> restore]
VerificationPaths ==
    [candidate : Outputs \cup {NoPath}, escrow : Sidecars \cup {NoPath},
     source : Images \cup {NoPath}]

Planned(profile, m) ==
    [profile |-> profile, target |-> OppositeFilesystem(profile.fs), mode |-> m]

(* A recovered session may fill the fields, never the evidence.             *)
Init ==
    /\ JobsInit
    /\ frame = "poll"
    /\ image \in Images \cup {NoPath} /\ mode \in Modes /\ restore = NoPath
    /\ source = DemoExfat /\ real = FALSE
    /\ plan = Planned(DemoExfat, mode) /\ current = TRUE /\ preview = NoPath
    /\ vpaths = [candidate |-> NoPath, escrow |-> NoPath, source |-> NoPath]
    /\ vok = FALSE /\ vproof = NoPath
    /\ closing = FALSE /\ asked = FALSE /\ window = "open"
    /\ edits = 0

ClearVerification(paths) ==
    vpaths' = paths /\ vok' = FALSE /\ vproof' = NoPath

(* invalidate_conversion_evidence.                                          *)
Invalidate ==
    /\ current' = FALSE /\ real' = FALSE /\ preview' = NoPath
    /\ ClearVerification(vpaths)

-----------------------------------------------------------------------------
(* apply_job_outcome.                                                       *)

Adopt(profile, shown) ==
    /\ source' = profile /\ real' = TRUE
    /\ plan' = Planned(profile, mode) /\ current' = TRUE
    /\ preview' = shown

(* The sidecar exists when the preservation report carries an escrow.       *)
ExportedPaths(input) ==
    [candidate |-> input.output,
     escrow |-> IF input.mode = "escrow" THEN EscrowOf[input.output] ELSE NoPath,
     source |-> input.image]

ApplySuccess(kind, input) ==
    \/ /\ kind = "inspect"
       /\ Adopt(Volume[input.image], preview) /\ UNCHANGED verifyVars
    \/ /\ kind = "preview"
       /\ Adopt(Volume[input.image], input) /\ UNCHANGED verifyVars
    \/ /\ kind = "export"
       /\ Adopt(Volume[input.image], InputsOf(input))
       /\ ClearVerification(ExportedPaths(input))
    \/ /\ kind = "verify"
       /\ vok' = TRUE /\ vproof' = input
       /\ UNCHANGED <<planVars, vpaths>>

ApplyCancelled(kind) ==
    /\ IF kind = "verify" THEN ClearVerification(vpaths) ELSE UNCHANGED verifyVars
    /\ UNCHANGED planVars

ApplyFailed(kind) ==
    /\ IF kind = "verify" THEN ClearVerification(vpaths) ELSE UNCHANGED verifyVars
    /\ IF kind \in {"inspect", "preview"}
       THEN /\ real' = FALSE /\ current' = FALSE
            /\ preview' = IF kind = "preview" THEN NoPath ELSE preview
            /\ UNCHANGED <<source, plan>>
       ELSE UNCHANGED planVars

Apply(j) ==
    CASE j.outcome = "ok" -> ApplySuccess(j.kind, j.input)
      [] j.outcome = "cancelled" -> ApplyCancelled(j.kind)
      [] j.outcome = "failed" -> ApplyFailed(j.kind)

-----------------------------------------------------------------------------
(* The frame: poll_background_jobs, then the close request, then widgets.   *)

Poll ==
    /\ frame = "poll" /\ window = "open"
    /\ IF channel = <<>>
       THEN frame' = "close" /\ UNCHANGED <<jobVars, planVars, verifyVars>>
       ELSE /\ Take
            /\ IF Applies THEN Apply(job[Received])
                          ELSE UNCHANGED <<planVars, verifyVars>>
            /\ UNCHANGED frame
    /\ UNCHANGED <<inputVars, windowVars, edits>>

(* cancel_background_job.                                                   *)
CancelJob ==
    /\ RequestCancel
    /\ IF job[active].kind = "verify" THEN ClearVerification(vpaths)
                                      ELSE UNCHANGED verifyVars

(* Mutant: a close request is not held back for a running job.              *)
ClosesAtOnce ==
    /\ frame = "close"
    /\ frame' = "widgets" /\ asked' = FALSE
    /\ window' = IF asked THEN "closed" ELSE window
    /\ UNCHANGED <<jobVars, inputVars, planVars, verifyVars, closing, edits>>

(* A request is cancelled while a job is active, and the job is asked to    *)
(* stop if it can still be; without a job the window closes.                *)
AnswerClose ==
    /\ frame = "close"
    /\ frame' = "widgets"
    /\ IF asked /\ Busy
       THEN /\ asked' = FALSE /\ closing' = TRUE
            /\ IF ~closing /\ Cancellable(active) THEN CancelJob
               ELSE UNCHANGED <<jobVars, verifyVars>>
            /\ UNCHANGED window
       ELSE /\ window' = IF asked THEN "closed" ELSE window
            /\ asked' = (closing /\ ~Busy)
            /\ UNCHANGED <<jobVars, verifyVars, closing>>
    /\ UNCHANGED <<inputVars, planVars, edits>>

SelectDemo(profile) ==
    /\ ~Busy
    /\ source' = profile /\ real' = FALSE /\ preview' = NoPath
    /\ plan' = Planned(profile, mode) /\ current' = TRUE
    /\ ClearVerification(vpaths)
    /\ UNCHANGED <<jobVars, inputVars>>

EditImage(path) ==
    /\ ~Busy /\ path # image
    /\ image' = path
    /\ Invalidate
    /\ UNCHANGED <<jobVars, mode, restore, source, plan>>

(* Mutant: the restore field is not part of the evidence.                   *)
EditRestoreOnly(path) ==
    /\ ~Busy /\ path # restore
    /\ restore' = path
    /\ UNCHANGED <<jobVars, image, mode, planVars, verifyVars>>

EditRestore(path) ==
    /\ ~Busy /\ path # restore
    /\ restore' = path
    /\ Invalidate
    /\ UNCHANGED <<jobVars, image, mode, source, plan>>

SelectGuaranteeMode(m) ==
    /\ ~Busy /\ m # mode
    /\ mode' = m
    /\ plan' = Planned(source, m)
    /\ Invalidate
    /\ UNCHANGED <<jobVars, image, restore, source>>

(* A job that starts after the evidence was invalidated. It runs to the     *)
(* same state whether or not its thread could be started.                   *)
StartFresh(kind) ==
    /\ image # NoPath
    /\ StartJob(kind, Inputs) \/ StartRefused
    /\ Invalidate
    /\ UNCHANGED <<inputVars, source, plan>>

AnalyzeImage == StartFresh("inspect")
PreviewImage == StartFresh("preview")

(* The footer's button without an image path only plans again.              *)
AnalyzeWithoutImage ==
    /\ ~Busy /\ image = NoPath
    /\ plan' = Planned(source, mode) /\ current' = TRUE
    /\ UNCHANGED <<jobVars, inputVars, source, real, preview, verifyVars>>

(* export_block_reason.                                                     *)
ExportAllowed ==
    /\ mode # "content"
    /\ current /\ real
    /\ preview # NoPath
    /\ IsReady(plan.profile, plan.target, plan.mode)

ExportNewImage(output) ==
    /\ ~Busy /\ ExportAllowed /\ image # NoPath
    /\ \/ StartJob("export", [image |-> image, mode |-> mode,
                              restore |-> restore, output |-> output])
       \/ StartRefused
    /\ UNCHANGED <<inputVars, planVars, verifyVars>>

(* Mutant: clearing a path keeps the accepted result.                       *)
KeepsResult(paths) ==
    /\ ~Busy /\ paths # vpaths
    /\ vpaths' = paths
    /\ UNCHANGED <<jobVars, inputVars, planVars, vok, vproof>>

EditVerification(paths) ==
    /\ ~Busy /\ paths # vpaths
    /\ \E field \in {"candidate", "escrow", "source"} :
          paths = [vpaths EXCEPT ![field] = paths[field]]
    /\ ClearVerification(paths)
    /\ UNCHANGED <<jobVars, inputVars, planVars>>

VerifyExportReadOnly ==
    /\ ~Busy
    /\ vpaths.candidate # NoPath /\ vpaths.escrow # NoPath
    /\ StartJob("verify", vpaths) \/ StartRefused
    /\ ClearVerification(vpaths)
    /\ UNCHANGED <<inputVars, planVars>>

RequestCancellation ==
    /\ Busy /\ ~cancel[active] /\ Cancellable(active)
    /\ CancelJob
    /\ UNCHANGED <<inputVars, planVars>>

Idle == UNCHANGED <<jobVars, inputVars, planVars, verifyVars>>

Edit ==
    /\ edits < MaxEdits
    /\ edits' = edits + 1
    /\ \/ \E profile \in {DemoExfat, DemoNtfs} : SelectDemo(profile)
       \/ \E path \in Images \cup {NoPath} : EditImage(path)
       \/ \E path \in Sidecars \cup {NoPath} : EditRestore(path)
       \/ \E m \in Modes : SelectGuaranteeMode(m)
       \/ \E paths \in VerificationPaths : EditVerification(paths)

Click ==
    /\ \/ AnalyzeImage \/ PreviewImage \/ AnalyzeWithoutImage
       \/ \E output \in Outputs : ExportNewImage(output)
       \/ VerifyExportReadOnly
       \/ RequestCancellation
       \/ Idle
    /\ UNCHANGED edits

Widgets ==
    /\ frame = "widgets" /\ window = "open"
    /\ frame' = "poll"
    /\ Edit \/ Click
    /\ UNCHANGED windowVars

AskToClose ==
    /\ window = "open" /\ ~asked
    /\ asked' = TRUE
    /\ UNCHANGED <<jobVars, frame, inputVars, planVars, verifyVars, closing, window, edits>>

WorkerStep(id) ==
    /\ window = "open"
    /\ Worker(id) \/ Panic(id)
    /\ UNCHANGED appVars

Next ==
    \/ Poll \/ AnswerClose \/ Widgets \/ AskToClose
    \/ \E id \in Ids : WorkerStep(id)

(* The window repaints while a job runs or a close is pending, and threads  *)
(* run.                                                                     *)
Spec ==
    /\ Init /\ [][Next]_vars
    /\ WF_vars(Poll) /\ WF_vars(AnswerClose) /\ WF_vars(Widgets)
    /\ \A id \in Ids : WF_vars(WorkerStep(id))

-----------------------------------------------------------------------------
(* Properties.                                                              *)

(***************************************************************************)
(* An export runs on inputs that an exact preview was shown for, with a     *)
(* ready plan of the same volume and mode: no edit, job or late result in   *)
(* between leaves older evidence in force.                                  *)
(***************************************************************************)
ExportsWhatWasPreviewed ==
    Busy /\ job[active].kind = "export" =>
        /\ preview = InputsOf(job[active].input) /\ preview = Inputs
        /\ preview \in Convertible
        /\ plan = Planned(Volume[image], mode)

(***************************************************************************)
(* A verification is shown as passed only beside the three paths that it    *)
(* was run on.                                                              *)
(***************************************************************************)
VerifiedIsShown == vok => vproof = vpaths /\ vpaths \in Genuine

(***************************************************************************)
(* Every thread that still works belongs to the active job, so that the     *)
(* window never closes over it (a candidate would be left half published).  *)
(***************************************************************************)
NeverClosesOverWork ==
    /\ Running \subseteq {active}
    /\ window = "closed" => Running = {}

(***************************************************************************)
(* "candidate export cancelled safely ...; no final artifact was published".*)
(***************************************************************************)
CancelledPublishesNothing ==
    \A id \in Ids : job[id].outcome = "cancelled" => id \notin published

(***************************************************************************)
(* A window that was asked to close during a job closes in the end, for a   *)
(* user who stops starting jobs.                                            *)
(***************************************************************************)
ClosesInTheEnd == closing ~> window = "closed"
=============================================================================
