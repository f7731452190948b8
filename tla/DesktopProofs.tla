---------------------------- MODULE DesktopProofs ----------------------------
(***************************************************************************)
(* Proofs about DesktopApp for every set of images, sidecars and outputs    *)
(* and every number of jobs and edits.                                      *)
(***************************************************************************)
EXTENDS DesktopApp, TLAPS

-----------------------------------------------------------------------------
(* Types.                                                                   *)

PreviewInputs == [image : Images, mode : Modes, restore : Sidecars \cup {NoPath}]
ExportInputs ==
    [image : Images, mode : Modes, restore : Sidecars \cup {NoPath}, output : Outputs]
JobInputs == {<<>>} \cup PreviewInputs \cup ExportInputs \cup VerificationPaths

Steps == {"unborn", "first", "work", "second", "draft", "last", "observe", "commit",
          "publish", "end", "send", "sent"}
Outcomes == {"none", "ok", "failed", "cancelled"}
Jobs == [kind : Kinds \cup {"none"}, input : JobInputs, step : Steps,
         outcome : Outcomes]

JobTypes ==
    /\ nextId \in 1 .. MaxJobs + 1 /\ active \in 0 .. MaxJobs /\ active < nextId
    /\ job \in [Ids -> Jobs]
    /\ cancel \in [Ids -> BOOLEAN]
    /\ progress \in [Ids -> {"none", "cancellable", "committing"}]
    /\ channel \in Seq(Ids) /\ published \in SUBSET Ids

WindowTypes ==
    /\ frame \in {"poll", "close", "widgets"} /\ window \in {"open", "closed"}
    /\ closing \in BOOLEAN /\ asked \in BOOLEAN /\ edits \in Nat

FieldTypes ==
    /\ image \in Images \cup {NoPath} /\ mode \in Modes
    /\ restore \in Sidecars \cup {NoPath}

PlanTypes ==
    /\ source \in Profiles /\ real \in BOOLEAN /\ current \in BOOLEAN
    /\ preview \in PreviewInputs \cup {NoPath}

VerifyTypes ==
    /\ vpaths \in VerificationPaths /\ vok \in BOOLEAN
    /\ vproof \in VerificationPaths \cup {NoPath}

(* The values that the window and its workers hold.                         *)
TypeOK == JobTypes /\ WindowTypes /\ FieldTypes /\ PlanTypes /\ VerifyTypes

-----------------------------------------------------------------------------
(* The inductive invariant.                                                 *)

(* Where the worker of job j is, and what its outcome says.                 *)
WorkerInv(j) ==
    /\ j.kind \in Kinds
    /\ j.kind \in {"inspect", "preview"} =>
          /\ j.input \in PreviewInputs
          /\ j.step \in {"first", "work", "last", "send", "sent"}
    /\ j.kind = "export" =>
          /\ j.input \in ExportInputs
          /\ j.step \in {"first", "work", "second", "draft", "observe", "commit",
                         "publish", "send", "sent"}
    /\ j.kind = "verify" =>
          /\ j.input \in VerificationPaths
          /\ j.step \in {"observe", "end", "send", "sent"}
    /\ j.outcome = "ok" /\ j.kind = "preview" => Drafted(j.input)
    /\ j.outcome = "ok" /\ j.kind = "verify" => j.input \in Genuine
    /\ j.step = "sent" => j.outcome # "none"
    /\ j.step = "send" => j.outcome # "none"
    /\ j.step = "last" => j.outcome # "none"

(* Only the active job has a thread, a message or artifacts.                *)
JobInv ==
    /\ \A id \in Ids : id # active => job[id] = Unborn
    /\ Busy => WorkerInv(job[active])
    /\ channel = IF Busy /\ job[active].step = "sent" THEN <<active>> ELSE <<>>
    /\ \A id \in published :
          /\ id = active /\ job[id].step \in {"send", "sent"}
          /\ job[id].outcome \in {"ok", "failed"}

(* The evidence on show belongs to the fields on show.                      *)
ShowInv ==
    /\ plan = Planned(source, mode)
    /\ real => source = Volume[image]
    /\ preview # NoPath => preview = Inputs /\ preview \in Convertible

(* The window is closed after the last job has ended, in the middle of a    *)
(* frame.                                                                   *)
ClosedInv == window = "closed" => frame = "widgets" /\ ~Busy

(* The active job runs on what is on show.                                  *)
ActiveInv ==
    Busy =>
        /\ job[active].kind \in {"inspect", "preview"} => job[active].input = Inputs
        /\ job[active].kind = "export" =>
              /\ InputsOf(job[active].input) = Inputs /\ preview = Inputs
              /\ preview \in Convertible /\ real
        /\ job[active].kind = "verify" => job[active].input = vpaths

IInv == TypeOK /\ JobInv /\ ShowInv /\ ActiveInv /\ VerifiedIsShown /\ ClosedInv

-----------------------------------------------------------------------------
(* The workers.                                                             *)

(* A worker's move changes the step and the outcome of its own job.         *)
LEMMA GotoFacts ==
    ASSUME JobTypes, NEW id \in Ids, NEW s \in Steps, NEW o \in Outcomes, Goto(id, s, o)
    PROVE  /\ job' \in [Ids -> Jobs]
           /\ \A other \in Ids \ {id} : job'[other] = job[other]
           /\ job'[id].kind = job[id].kind /\ job'[id].input = job[id].input
           /\ job'[id].step = s /\ job'[id].outcome = o
PROOF
  <1>1. job \in [Ids -> Jobs] /\ job[id] \in Jobs
    BY DEF JobTypes
  <1>2. [job[id] EXCEPT !.step = s, !.outcome = o] \in Jobs
    BY <1>1 DEF Jobs
  <1>3. job' = [job EXCEPT ![id] = [job[id] EXCEPT !.step = s, !.outcome = o]]
    BY <1>1 DEF Goto, Jobs
  <1>4. job'[id] = [job[id] EXCEPT !.step = s, !.outcome = o]
    BY <1>1, <1>3
  <1> QED
    BY <1>1, <1>2, <1>3, <1>4 DEF Jobs

(* Only the active job moves.                                               *)
LEMMA OnlyActive ==
    ASSUME JobTypes, JobInv, NEW id \in Ids, job[id].step # "unborn"
    PROVE  id = active /\ Busy /\ WorkerInv(job[id])
PROOF
  <1>1. id = active
    BY DEF JobInv, Unborn
  <1> QED
    BY <1>1 DEF JobInv, Busy, NoJob, Ids

(* What a move must satisfy to keep the invariant of the jobs.              *)
LEMMA MoveKeeps ==
    ASSUME JobTypes, JobInv, NEW id \in Ids, NEW s \in Steps, NEW o \in Outcomes,
           job[id].step # "unborn", Goto(id, s, o), WorkerInv(job'[id]),
           active' = active,
           channel' = IF s = "sent" THEN <<id>> ELSE <<>>,
           published' \subseteq {id},
           id \in published' => s \in {"send", "sent"} /\ o \in {"ok", "failed"}
    PROVE  JobInv' /\ job' \in [Ids -> Jobs] /\ published' \in SUBSET Ids
           /\ channel' \in Seq(Ids)
PROOF
  <1>1. id = active /\ Busy
    BY OnlyActive
  <1>2. /\ job' \in [Ids -> Jobs]
        /\ \A other \in Ids \ {id} : job'[other] = job[other]
        /\ job'[id].step = s /\ job'[id].outcome = o
    BY GotoFacts
  <1>3. \A other \in Ids : other # active' => job'[other] = Unborn
    BY <1>1, <1>2 DEF JobInv
  <1>4. Busy'
    BY <1>1 DEF Busy
  <1>5. channel' = IF Busy' /\ job'[active'].step = "sent" THEN <<active'>> ELSE <<>>
    BY <1>1, <1>2, <1>4
  <1>6. \A other \in published' :
           /\ other = active' /\ job'[other].step \in {"send", "sent"}
           /\ job'[other].outcome \in {"ok", "failed"}
    BY <1>1, <1>2
  <1>7. WorkerInv(job'[active'])
    BY <1>1
  <1>8. channel' \in Seq(Ids)
    BY <1>1
  <1> QED
    BY <1>2, <1>3, <1>5, <1>6, <1>7, <1>8 DEF JobInv

(* A quiet move: nothing is sent or published.                              *)
LEMMA QuietKeeps ==
    ASSUME JobTypes, JobInv, NEW id \in Ids, NEW s \in Steps \ {"sent"},
           NEW o \in Outcomes, job[id].step \notin {"unborn", "send", "sent"},
           Goto(id, s, o), WorkerInv(job'[id]),
           UNCHANGED <<active, channel, published>>
    PROVE  JobInv' /\ job' \in [Ids -> Jobs] /\ UNCHANGED <<active, channel, published>>
PROOF
  <1>1. id = active /\ Busy
    BY OnlyActive
  <1>2. channel = <<>> /\ published = {}
    BY <1>1 DEF JobInv
  <1> QED
    BY <1>2, MoveKeeps

(* Every move of a worker keeps the invariant of the jobs.                  *)
LEMMA WorkerKeeps ==
    ASSUME JobTypes, JobInv, NEW id \in Ids, Worker(id) \/ Panic(id)
    PROVE  /\ JobInv' /\ JobTypes'
           /\ id = active /\ Busy /\ active' = active
           /\ job'[id].kind = job[id].kind /\ job'[id].input = job[id].input
PROOF
  <1> DEFINE Kept == /\ JobInv' /\ job' \in [Ids -> Jobs] /\ published' \in SUBSET Ids
                     /\ channel' \in Seq(Ids) /\ active' = active
                     /\ job'[id].kind = job[id].kind /\ job'[id].input = job[id].input
             Moved(s, o) == [kind |-> job[id].kind, input |-> job[id].input, step |-> s,
                             outcome |-> o]
  <1>1. job[id].step # "unborn"
    BY DEF Worker, Panic, Checkpoint, Work, LastCheckpoint, Progress, Commit,
          PublishArtifacts, EndVerification, Send
  <1>2. id = active /\ Busy /\ WorkerInv(job[id]) /\ job[id] \in Jobs
    BY <1>1, OnlyActive DEF JobTypes
  <1>3. ASSUME NEW s \in Steps \ {"sent"}, NEW o \in Outcomes,
               job[id].step \notin {"unborn", "send", "sent"}, Goto(id, s, o),
               WorkerInv(Moved(s, o)), UNCHANGED <<active, channel, published>>
        PROVE  Kept
    <2>1. /\ job' \in [Ids -> Jobs]
          /\ job'[id].kind = job[id].kind /\ job'[id].input = job[id].input
          /\ job'[id].step = s /\ job'[id].outcome = o
      BY <1>3, GotoFacts
    <2>2. WorkerInv(job'[id])
      BY <1>3, <2>1 DEF WorkerInv
    <2>3. JobInv'
      BY <1>3, <2>2, QuietKeeps
    <2> QED
      BY <1>3, <2>1, <2>3 DEF JobTypes
  <1>4. ASSUME NEW next \in Steps \ {"sent", "send", "last"}, Observe(id, next),
               job[id].step \in {"first", "second", "observe"},
               job[id].kind = "verify" => next \in {"observe", "end"},
               job[id].kind = "export" => next \in {"work", "draft", "observe", "commit"},
               job[id].kind \in {"inspect", "preview"} => next = "work"
        PROVE  Kept
    <2>1. \/ Goto(id, "send", "cancelled")
          \/ Goto(id, next, job[id].outcome)
      BY <1>4 DEF Observe
    <2>2. CASE Goto(id, "send", "cancelled")
      BY <1>2, <1>3, <1>4, <2>2 DEF Observe, WorkerInv, Steps, Outcomes
    <2>3. CASE Goto(id, next, job[id].outcome)
      <3>1. job[id].outcome \in Outcomes
        BY <1>2 DEF Jobs
      <3> QED
        BY <1>2, <1>3, <1>4, <2>3, <3>1 DEF Observe, WorkerInv
    <2> QED
      BY <2>1, <2>2, <2>3
  <1> HIDE DEF Kept, Moved
  <1>5. ASSUME Checkpoint(id) PROVE Kept
    <2>1. CASE job[id].step = "first" /\ Observe(id, "work")
      <3>1. job[id].kind \in {"inspect", "preview", "export"}
        BY <1>2, <2>1 DEF WorkerInv, Kinds
      <3> QED
        BY <1>4, <2>1, <3>1 DEF Steps
    <2>2. CASE job[id].step = "second" /\ Observe(id, "draft")
      <3>1. job[id].kind = "export"
        BY <1>2, <2>2 DEF WorkerInv, Kinds
      <3> QED
        BY <1>4, <2>2, <3>1 DEF Steps
    <2> QED
      BY <1>5, <2>1, <2>2 DEF Checkpoint
  <1>6. ASSUME Work(id) PROVE Kept
    <2>1. /\ job[id].step \in {"work", "draft"}
          /\ UNCHANGED <<active, channel, published>>
      BY <1>6 DEF Work
    <2>2. CASE job[id].kind \in {"inspect", "preview"}
      <3>1. \/ Goto(id, "last", "failed")
            \/ Goto(id, "last", "ok") /\ WorkSucceeds(job[id].kind, job[id].step, job[id].input)
        BY <1>6, <2>2 DEF Work
      <3>2. CASE Goto(id, "last", "failed")
        <4>1. WorkerInv(Moved("last", "failed"))
          BY <1>2, <2>1, <2>2 DEF WorkerInv, Moved
        <4> QED
          BY <1>3, <2>1, <3>2, <4>1 DEF Steps, Outcomes
      <3>3. CASE Goto(id, "last", "ok") /\ WorkSucceeds(job[id].kind, job[id].step, job[id].input)
        <4>1. job[id].kind = "preview" => Drafted(job[id].input)
          BY <3>3 DEF WorkSucceeds
        <4> QED
          <5>1. WorkerInv(Moved("last", "ok"))
            BY <1>2, <2>1, <2>2, <4>1 DEF WorkerInv, Moved
          <5> QED
            BY <1>3, <2>1, <3>3, <5>1 DEF Steps, Outcomes
      <3> QED
        BY <3>1, <3>2, <3>3
    <2>3. CASE job[id].kind \notin {"inspect", "preview"}
      <3>1. job[id].kind = "export"
        BY <1>2, <2>1, <2>3 DEF WorkerInv, Kinds
      <3>2. \/ Goto(id, "send", "failed")
            \/ Goto(id, "second", "none")
            \/ Goto(id, "observe", "none")
        BY <1>6, <2>1, <3>1 DEF Work
      <3> QED
        <4>1. /\ WorkerInv(Moved("send", "failed"))
              /\ WorkerInv(Moved("second", "none")) /\ WorkerInv(Moved("observe", "none"))
          BY <1>2, <2>1, <3>1 DEF WorkerInv, Moved
        <4> QED
          BY <1>3, <2>1, <3>2, <4>1 DEF Steps, Outcomes
    <2> QED
      BY <2>2, <2>3
  <1>7. ASSUME LastCheckpoint(id) PROVE Kept
    <2>1. /\ job[id].step = "last" /\ UNCHANGED <<active, channel, published>>
          /\ Goto(id, "send", "cancelled") \/ Goto(id, "send", job[id].outcome)
      BY <1>7 DEF LastCheckpoint
    <2>2. job[id].outcome \in Outcomes
      BY <1>2 DEF Jobs
    <2>3. WorkerInv(Moved("send", "cancelled")) /\ WorkerInv(Moved("send", job[id].outcome))
      BY <1>2, <2>1 DEF WorkerInv, Moved
    <2> QED
      BY <1>3, <2>1, <2>2, <2>3 DEF Steps, Outcomes
  <1>8. ASSUME Progress(id) PROVE Kept
    <2>4. job[id].step = "observe" /\ job[id].kind \in {"export", "verify"}
      BY <1>2, <1>8 DEF Progress, WorkerInv, Kinds
    <2>1. CASE Observe(id, "observe")
      BY <1>4, <2>1, <2>4 DEF Steps
    <2>2. CASE Observe(id, IF job[id].kind = "export" THEN "commit" ELSE "end")
      <3>1. CASE job[id].kind = "export"
        BY <1>4, <2>2, <2>4, <3>1 DEF Steps
      <3>2. CASE job[id].kind = "verify"
        BY <1>4, <2>2, <2>4, <3>2 DEF Steps
      <3> QED
        BY <2>4, <3>1, <3>2
    <2>3. CASE Goto(id, "send", "failed") /\ UNCHANGED <<active, channel, published>>
      <3>1. WorkerInv(Moved("send", "failed"))
        BY <1>2, <2>4 DEF WorkerInv, Moved
      <3> QED
        BY <1>3, <2>3, <2>4, <3>1 DEF Steps, Outcomes
    <2> QED
      BY <1>8, <2>1, <2>2, <2>3 DEF Progress
  <1>9. ASSUME Commit(id) PROVE Kept
    <2>1. /\ job[id].step = "commit" /\ Goto(id, "publish", "none")
          /\ UNCHANGED <<active, channel, published>>
      BY <1>9 DEF Commit
    <2>2. WorkerInv(Moved("publish", "none"))
      BY <1>2, <2>1 DEF WorkerInv, Moved
    <2> QED
      BY <1>3, <2>1, <2>2 DEF Steps, Outcomes
  <1>10. ASSUME EndVerification(id) PROVE Kept
    <2>3. job[id].step = "end" /\ UNCHANGED <<active, channel, published>>
      BY <1>10 DEF EndVerification
    <2>1. CASE Goto(id, "send", "failed")
      <3>1. WorkerInv(Moved("send", "failed"))
        BY <1>2, <2>3 DEF WorkerInv, Moved
      <3> QED
        BY <1>3, <2>1, <2>3, <3>1 DEF Steps, Outcomes
    <2>2. CASE WorkSucceeds(job[id].kind, job[id].step, job[id].input) /\ Goto(id, "send", "ok")
      <3>1. job[id].kind = "verify" => job[id].input \in Genuine
        BY <2>2 DEF WorkSucceeds
      <3>2. job[id].kind = "verify"
        BY <1>2, <2>3 DEF WorkerInv, Kinds
      <3>3. WorkerInv(Moved("send", "ok"))
        BY <1>2, <3>1, <3>2 DEF WorkerInv, Moved
      <3> QED
        BY <1>3, <2>2, <2>3, <3>3 DEF Steps, Outcomes
    <2> QED
      BY <1>10, <2>1, <2>2 DEF EndVerification
  <1>11. ASSUME Panic(id) PROVE Kept
    <2>1. /\ job[id].step \notin {"unborn", "send", "sent"} /\ Goto(id, "send", "failed")
          /\ UNCHANGED <<active, channel, published>>
      BY <1>11 DEF Panic
    <2>2. WorkerInv(Moved("send", "failed"))
      BY <1>2 DEF WorkerInv, Moved
    <2> QED
      BY <1>3, <2>1, <2>2 DEF Steps, Outcomes
  <1>12. ASSUME PublishArtifacts(id) PROVE Kept
    <2>1. PICK o \in {"ok", "failed"} : Goto(id, "send", o)
      BY <1>12 DEF PublishArtifacts
    <2>2. /\ job[id].step = "publish" /\ active' = active /\ channel' = channel
          /\ published' \in {published, published \cup {id}}
      BY <1>12 DEF PublishArtifacts
    <2>3. channel = <<>> /\ published = {}
      BY <1>2, <2>2 DEF JobInv
    <2>4. "send" \in Steps /\ o \in Outcomes
      BY DEF Steps, Outcomes
    <2>5. /\ job'[id].kind = job[id].kind /\ job'[id].input = job[id].input
          /\ job'[id].step = "send" /\ job'[id].outcome = o
      BY <2>1, <2>4, GotoFacts
    <2>6. WorkerInv(job'[id])
      BY <1>2, <2>2, <2>5 DEF WorkerInv
    <2> QED
      BY <1>1, <2>1, <2>2, <2>3, <2>4, <2>5, <2>6, MoveKeeps DEF Kept
  <1>13. ASSUME Send(id) PROVE Kept
    <2>1. /\ job[id].step = "send" /\ active' = active /\ published' = published
          /\ channel' = Append(channel, id) /\ Goto(id, "sent", job[id].outcome)
      BY <1>13 DEF Send
    <2>2. /\ channel = <<>> /\ published \subseteq {id}
          /\ id \in published => job[id].outcome \in {"ok", "failed"}
      BY <1>2, <2>1 DEF JobInv
    <2>3. channel' = <<id>>
      BY <2>1, <2>2
    <2>4. "sent" \in Steps /\ job[id].outcome \in Outcomes
      BY <1>2 DEF Steps, Jobs
    <2>5. /\ job'[id].kind = job[id].kind /\ job'[id].input = job[id].input
          /\ job'[id].step = "sent" /\ job'[id].outcome = job[id].outcome
      BY <2>1, <2>4, GotoFacts
    <2>6. WorkerInv(job'[id])
      BY <1>2, <2>1, <2>5 DEF WorkerInv
    <2> QED
      BY <1>1, <2>1, <2>2, <2>3, <2>4, <2>5, <2>6, MoveKeeps DEF Kept
  <1>14. Kept
    BY <1>5, <1>6, <1>7, <1>8, <1>9, <1>10, <1>11, <1>12, <1>13 DEF Worker
  <1>15. /\ nextId' = nextId /\ cancel' = cancel
         /\ progress' = progress \/ (\E r \in {"cancellable", "committing"} :
                                        progress' = [progress EXCEPT ![id] = r])
    BY DEF Worker, Panic, Checkpoint, Observe, Work, LastCheckpoint, Progress, Commit,
          PublishArtifacts, EndVerification, Send
  <1>16. progress' \in [Ids -> {"none", "cancellable", "committing"}]
    BY <1>15 DEF JobTypes
  <1>17. cancel' \in [Ids -> BOOLEAN]
    BY <1>15 DEF JobTypes
  <1> QED
    BY <1>2, <1>14, <1>15, <1>16, <1>17 DEF JobTypes, Kept

-----------------------------------------------------------------------------
(* The job controller.                                                      *)

(* Without an active job there is no thread, message or artifact.           *)
LEMMA QuietFacts ==
    ASSUME JobTypes, JobInv, ~Busy
    PROVE  channel = <<>> /\ published = {} /\ \A id \in Ids : job[id] = Unborn
PROOF
  <1>1. \A id \in Ids : id # active
    BY DEF Busy, NoJob, Ids
  <1>2. published = {}
    BY <1>1 DEF JobInv, JobTypes
  <1> QED
    BY <1>1, <1>2 DEF JobInv

(* The inputs that a job of a kind is started with.                         *)
Fits(kind, input) ==
    /\ kind \in Kinds
    /\ kind \in {"inspect", "preview"} => input \in PreviewInputs
    /\ kind = "export" => input \in ExportInputs
    /\ kind = "verify" => input \in VerificationPaths

(* BackgroundJobs::start.                                                   *)
LEMMA StartKeeps ==
    ASSUME JobTypes, JobInv, NEW kind, NEW input, Fits(kind, input),
           StartJob(kind, input)
    PROVE  /\ JobTypes' /\ JobInv' /\ Busy'
           /\ job'[active'].kind = kind /\ job'[active'].input = input
PROOF
  <1> DEFINE j == [kind |-> kind, input |-> input, step |-> FirstStep(kind),
                   outcome |-> "none"]
  <1>1. MaxJobs \in Nat
    BY DesktopAssumption DEF DesktopAssumption
  <1>2. /\ ~Busy /\ nextId \in Ids /\ active' = nextId /\ nextId' = nextId + 1
        /\ job' = [job EXCEPT ![nextId] = j]
        /\ UNCHANGED <<cancel, progress, channel, published>>
    BY <1>1 DEF StartJob, JobTypes, Ids
  <1>3. channel = <<>> /\ published = {} /\ \A id \in Ids : job[id] = Unborn
    BY <1>2, QuietFacts
  <1>4. j \in Jobs
    BY DEF Fits, Jobs, JobInputs, Steps, Outcomes, FirstStep, Kinds
  <1>5. /\ job' \in [Ids -> Jobs] /\ job'[active'] = j
        /\ \A id \in Ids : id # active' => job'[id] = Unborn
    BY <1>2, <1>3, <1>4 DEF JobTypes
  <1>6. Busy'
    BY <1>2 DEF Busy, NoJob, Ids
  <1>7. WorkerInv(j)
    BY DEF WorkerInv, Fits, FirstStep, Kinds
  <1>8. j.step # "sent" /\ j.kind = kind /\ j.input = input
    BY DEF FirstStep
  <1> HIDE DEF j
  <1>9. JobInv'
    BY <1>2, <1>3, <1>5, <1>6, <1>7, <1>8 DEF JobInv
  <1>10. nextId' \in 1 .. MaxJobs + 1 /\ active' \in 0 .. MaxJobs /\ active' < nextId'
    BY <1>1, <1>2 DEF Ids
  <1>11. /\ cancel' \in [Ids -> BOOLEAN]
         /\ progress' \in [Ids -> {"none", "cancellable", "committing"}]
         /\ channel' \in Seq(Ids) /\ published' \in SUBSET Ids
    BY <1>2 DEF JobTypes
  <1> QED
    BY <1>5, <1>6, <1>8, <1>9, <1>10, <1>11 DEF JobTypes

(* A thread that cannot be started costs only its number.                   *)
LEMMA RefusedKeeps ==
    ASSUME JobTypes, JobInv, StartRefused
    PROVE  JobTypes' /\ JobInv' /\ ~Busy'
PROOF
  <1>1. MaxJobs \in Nat
    BY DesktopAssumption DEF DesktopAssumption
  <1>2. nextId' \in 1 .. MaxJobs + 1 /\ active < nextId'
    BY <1>1 DEF StartRefused, JobTypes
  <1>3. UNCHANGED <<active, job, cancel, progress, channel, published>> /\ ~Busy
    BY DEF StartRefused
  <1>4. JobInv' /\ ~Busy'
    BY <1>3 DEF JobInv, Busy
  <1> QED
    BY <1>2, <1>3, <1>4 DEF JobTypes

(* A cancellation sets a flag.                                              *)
LEMMA CancelKeeps ==
    ASSUME JobTypes, JobInv, Busy, RequestCancel
    PROVE  JobTypes' /\ JobInv' /\ active' = active /\ job' = job
PROOF
  <1>1. UNCHANGED <<nextId, active, job, progress, channel, published>>
    BY DEF RequestCancel
  <1>2. cancel' \in [Ids -> BOOLEAN]
    BY DEF RequestCancel, JobTypes
  <1>3. JobInv'
    BY <1>1 DEF JobInv, Busy
  <1> QED
    BY <1>1, <1>2, <1>3 DEF JobTypes

(* take_ready: the message is of the active job, whose worker is done.      *)
LEMMA TakeKeeps ==
    ASSUME JobTypes, JobInv, Take
    PROVE  /\ JobTypes' /\ JobInv' /\ ~Busy' /\ Busy /\ Applies /\ Received = active
           /\ WorkerInv(job[active]) /\ job[active].step = "sent"
PROOF
  <1>1. channel # <<>>
    BY DEF Take
  <1>2. /\ Busy /\ job[active].step = "sent" /\ channel = <<active>>
        /\ WorkerInv(job[active])
    BY <1>1 DEF JobInv
  <1>3. Received = active /\ Tail(channel) = <<>>
    BY <1>2 DEF Received
  <1>4. Applies /\ active \in Ids
    BY <1>2, <1>3 DEF Applies, Busy, NoJob, JobTypes, Ids
  <1>5. /\ channel' = <<>> /\ active' = NoJob /\ nextId' = nextId
        /\ job' = [job EXCEPT ![active] = Unborn]
        /\ cancel' = [cancel EXCEPT ![active] = FALSE]
        /\ progress' = [progress EXCEPT ![active] = "none"]
        /\ published' = published \ {active}
    BY <1>3, <1>4 DEF Take
  <1>6. Unborn \in Jobs
    BY DEF Unborn, Jobs, JobInputs, Steps, Outcomes
  <1>7. job' \in [Ids -> Jobs] /\ \A id \in Ids : job'[id] = Unborn
    BY <1>4, <1>5, <1>6 DEF JobInv, JobTypes
  <1>8. published' = {}
    BY <1>5 DEF JobInv
  <1>9. ~Busy'
    BY <1>5 DEF Busy
  <1>10. JobInv'
    BY <1>5, <1>7, <1>8, <1>9 DEF JobInv
  <1>11. cancel' \in [Ids -> BOOLEAN]
    BY <1>4, <1>5 DEF JobTypes
  <1>12. progress' \in [Ids -> {"none", "cancellable", "committing"}]
    BY <1>4, <1>5 DEF JobTypes
  <1>13. /\ nextId' \in 1 .. MaxJobs + 1 /\ active' \in 0 .. MaxJobs /\ active' < nextId'
         /\ channel' \in Seq(Ids) /\ published' \in SUBSET Ids
    <2>1. MaxJobs \in Nat
      BY DesktopAssumption DEF DesktopAssumption
    <2> QED
      BY <1>5, <1>8, <2>1 DEF JobTypes, NoJob
  <1> QED
    BY <1>2, <1>3, <1>4, <1>7, <1>9, <1>10, <1>11, <1>12, <1>13 DEF JobTypes

-----------------------------------------------------------------------------
(* The window.                                                              *)

(* While neither the fields nor the evidence change, the active job still   *)
(* runs on them.                                                            *)
LEMMA SameShow ==
    ASSUME IInv, UNCHANGED <<inputVars, planVars, verifyVars>>
    PROVE  /\ FieldTypes' /\ PlanTypes' /\ VerifyTypes' /\ ShowInv' /\ VerifiedIsShown'
           /\ Inputs' = Inputs
PROOF
  <1>1. UNCHANGED <<image, mode, restore, source, real, plan, current, preview, vpaths,
                    vok, vproof>>
    BY DEF inputVars, planVars, verifyVars
  <1>2. Inputs' = Inputs
    BY <1>1 DEF Inputs
  <1>3. FieldTypes' /\ PlanTypes' /\ VerifyTypes'
    BY <1>1 DEF IInv, TypeOK, FieldTypes, PlanTypes, VerifyTypes
  <1>4. ShowInv'
    BY <1>1, <1>2 DEF IInv, ShowInv, Planned
  <1>5. VerifiedIsShown'
    BY <1>1 DEF IInv, VerifiedIsShown
  <1> QED
    BY <1>2, <1>3, <1>4, <1>5

(* Clearing the verification keeps its types and shows nothing.             *)
LEMMA ClearKeeps ==
    ASSUME NEW paths \in VerificationPaths, ClearVerification(paths)
    PROVE  VerifyTypes' /\ VerifiedIsShown' /\ vpaths' = paths
PROOF
  BY DEF ClearVerification, VerifyTypes, VerifiedIsShown

(* invalidate_conversion_evidence leaves nothing that could be stale.       *)
LEMMA InvalidateKeeps ==
    ASSUME IInv, Invalidate, source' = source, plan' = Planned(source, mode')
    PROVE  PlanTypes' /\ VerifyTypes' /\ ShowInv' /\ VerifiedIsShown' /\ vpaths' = vpaths
PROOF
  <1>1. /\ current' = FALSE /\ real' = FALSE /\ preview' = NoPath
        /\ ClearVerification(vpaths)
    BY DEF Invalidate
  <1>2. VerifyTypes' /\ VerifiedIsShown' /\ vpaths' = vpaths
    BY <1>1, ClearKeeps DEF IInv, TypeOK, VerifyTypes
  <1>3. PlanTypes'
    BY <1>1 DEF IInv, TypeOK, PlanTypes
  <1>4. ShowInv'
    BY <1>1 DEF ShowInv, Planned
  <1> QED
    BY <1>2, <1>3, <1>4

(* The inputs on show, with a path, are those of a preview.                 *)
LEMMA InputsFit ==
    ASSUME IInv, image # NoPath
    PROVE  /\ Inputs \in PreviewInputs /\ InputsOf(Inputs) = Inputs
           /\ Inputs.image = image /\ Inputs.mode = mode
PROOF
  BY DEF IInv, TypeOK, FieldTypes, Inputs, PreviewInputs, InputsOf

(* The evidence after a job that was adopted.                               *)
LEMMA AdoptKeeps ==
    ASSUME IInv, NEW input, InputsOf(input) = Inputs, input.image \in Images, NEW shown,
           shown \in PreviewInputs \cup {NoPath},
           shown # NoPath => shown = Inputs /\ shown \in Convertible,
           Adopt(Volume[input.image], shown), UNCHANGED inputVars
    PROVE  PlanTypes' /\ ShowInv'
PROOF
  <1>1. /\ source' = Volume[input.image] /\ real' = TRUE /\ current' = TRUE
        /\ plan' = Planned(Volume[input.image], mode) /\ preview' = shown
        /\ UNCHANGED <<image, mode, restore>>
    BY DEF Adopt, inputVars
  <1>2. input.image = image
    BY DEF InputsOf, Inputs
  <1>3. Volume[input.image] \in Profiles
    BY DesktopAssumption DEF DesktopAssumption
  <1>4. Inputs' = Inputs
    BY <1>1 DEF Inputs
  <1>5. PlanTypes'
    BY <1>1, <1>3 DEF PlanTypes
  <1>6. ShowInv'
    BY <1>1, <1>2, <1>4 DEF ShowInv, Planned
  <1> QED
    BY <1>5, <1>6

(* apply_job_outcome: the result that arrives is that of the active job and *)
(* the fields are those that it was started on.                             *)
LEMMA ApplyKeeps ==
    ASSUME IInv, Busy, job[active].step = "sent", Apply(job[active]),
           UNCHANGED inputVars
    PROVE  PlanTypes' /\ VerifyTypes' /\ ShowInv' /\ VerifiedIsShown'
PROOF
  <1> DEFINE j == job[active]
             Kept == PlanTypes' /\ VerifyTypes' /\ ShowInv' /\ VerifiedIsShown'
  <1>1. active \in Ids /\ j \in Jobs /\ WorkerInv(j)
    BY DEF IInv, TypeOK, JobTypes, JobInv, Busy, NoJob, Ids
  <1>2. j.outcome \in {"ok", "cancelled", "failed"} /\ j.kind \in Kinds
    BY <1>1 DEF Jobs, Outcomes, WorkerInv
  <1>3. vpaths \in VerificationPaths
    BY DEF IInv, TypeOK, VerifyTypes
  <1>4. ASSUME UNCHANGED verifyVars PROVE VerifyTypes' /\ VerifiedIsShown'
    BY <1>4 DEF IInv, TypeOK, VerifyTypes, VerifiedIsShown, verifyVars
  <1>5. ASSUME UNCHANGED planVars PROVE PlanTypes' /\ ShowInv'
    BY <1>5 DEF IInv, TypeOK, PlanTypes, ShowInv, planVars, inputVars, Planned, Inputs
  <1>6. ASSUME j.kind \in {"inspect", "preview"}
        PROVE  /\ j.input = Inputs /\ j.input \in PreviewInputs /\ j.input.image \in Images
               /\ InputsOf(j.input) = Inputs
    <2>1. j.input = Inputs /\ j.input \in PreviewInputs
      BY <1>1, <1>6 DEF IInv, ActiveInv, WorkerInv
    <2>2. j.input.image \in Images
      BY <2>1 DEF PreviewInputs
    <2>3. InputsOf(Inputs) = Inputs
      BY DEF InputsOf, Inputs
    <2> QED
      BY <2>1, <2>2, <2>3
  <1>7. ASSUME j.outcome = "ok" PROVE Kept
    <2>1. ApplySuccess(j.kind, j.input)
      BY <1>7 DEF Apply
    <2>2. CASE j.kind = "inspect"
      <3>1. Adopt(Volume[j.input.image], preview) /\ UNCHANGED verifyVars
        BY <2>1, <2>2 DEF ApplySuccess
      <3>2. /\ preview \in PreviewInputs \cup {NoPath}
            /\ preview # NoPath => preview = Inputs /\ preview \in Convertible
        BY DEF IInv, TypeOK, PlanTypes, ShowInv
      <3>3. PlanTypes' /\ ShowInv'
        BY <1>6, <2>2, <3>1, <3>2, AdoptKeeps
      <3> QED
        BY <1>4, <3>1, <3>3
    <2>3. CASE j.kind = "preview"
      <3>1. Adopt(Volume[j.input.image], j.input) /\ UNCHANGED verifyVars
        BY <2>1, <2>3 DEF ApplySuccess
      <3>2. j.input \in Convertible
        BY <1>1, <1>6, <1>7, <2>3 DEF WorkerInv, Drafted
      <3>3. PlanTypes' /\ ShowInv'
        BY <1>6, <2>3, <3>1, <3>2, AdoptKeeps
      <3> QED
        BY <1>4, <3>1, <3>3
    <2>4. CASE j.kind = "export"
      <3>1. /\ Adopt(Volume[j.input.image], InputsOf(j.input))
            /\ ClearVerification(ExportedPaths(j.input))
        BY <2>1, <2>4 DEF ApplySuccess
      <3>2. j.input \in ExportInputs /\ InputsOf(j.input) = Inputs /\ Inputs \in Convertible
        BY <1>1, <2>4 DEF WorkerInv, IInv, ActiveInv
      <3>3. j.input.image \in Images /\ InputsOf(j.input) \in PreviewInputs
        BY <3>2 DEF ExportInputs, InputsOf, PreviewInputs
      <3>4. PlanTypes' /\ ShowInv'
        BY <3>1, <3>2, <3>3, AdoptKeeps
      <3>5. EscrowOf[j.input.output] \in Sidecars /\ j.input.output \in Outputs
        BY <3>2, DesktopAssumption DEF ExportInputs, DesktopAssumption
      <3>6. ExportedPaths(j.input) \in VerificationPaths
        BY <3>3, <3>5 DEF ExportedPaths, VerificationPaths
      <3> QED
        BY <3>1, <3>4, <3>6, ClearKeeps
    <2>5. CASE j.kind = "verify"
      <3>1. vok' = TRUE /\ vproof' = j.input /\ UNCHANGED <<planVars, vpaths>>
        BY <2>1, <2>5 DEF ApplySuccess
      <3>2. j.input = vpaths /\ vpaths \in Genuine
        BY <1>1, <1>7, <2>5 DEF WorkerInv, IInv, ActiveInv
      <3>3. VerifyTypes' /\ VerifiedIsShown'
        BY <1>3, <3>1, <3>2 DEF VerifyTypes, VerifiedIsShown
      <3> QED
        BY <1>5, <3>1, <3>3
    <2> QED
      BY <1>2, <2>2, <2>3, <2>4, <2>5 DEF Kinds
  <1>8. ASSUME j.outcome = "cancelled" PROVE Kept
    <2>1. ApplyCancelled(j.kind)
      BY <1>8 DEF Apply
    <2> QED
      BY <1>3, <1>4, <1>5, <2>1, ClearKeeps DEF ApplyCancelled
  <1>9. ASSUME j.outcome = "failed" PROVE Kept
    <2>1. ApplyFailed(j.kind)
      BY <1>9 DEF Apply
    <2>2. VerifyTypes' /\ VerifiedIsShown'
      BY <1>3, <1>4, <2>1, ClearKeeps DEF ApplyFailed
    <2>3. CASE j.kind \in {"inspect", "preview"}
      <3>1. /\ real' = FALSE /\ current' = FALSE /\ UNCHANGED <<source, plan>>
            /\ preview' \in {preview, NoPath} /\ UNCHANGED <<image, mode, restore>>
        BY <2>1, <2>3 DEF ApplyFailed, inputVars
      <3>2. PlanTypes'
        BY <3>1 DEF IInv, TypeOK, PlanTypes
      <3>3. Inputs' = Inputs
        BY <3>1 DEF Inputs
      <3>4. ShowInv'
        BY <3>1, <3>3 DEF IInv, ShowInv, Planned
      <3> QED
        BY <2>2, <3>2, <3>4
    <2>4. CASE j.kind \notin {"inspect", "preview"}
      BY <1>5, <2>1, <2>2, <2>4 DEF ApplyFailed
    <2> QED
      BY <2>3, <2>4
  <1> QED
    BY <1>2, <1>7, <1>8, <1>9

(* A poll applies at most one result.                                       *)
LEMMA PollKeeps == ASSUME IInv, Poll PROVE IInv'
PROOF
  <1>1. /\ frame = "poll" /\ window = "open" /\ UNCHANGED <<inputVars, edits>>
        /\ UNCHANGED <<closing, asked, window>>
    BY DEF Poll, windowVars
  <1>2. FieldTypes'
    BY <1>1 DEF IInv, TypeOK, FieldTypes, inputVars
  <1>3. frame' \in {"poll", "close"}
    BY <1>1 DEF Poll
  <1>4. WindowTypes'
    BY <1>1, <1>3 DEF IInv, TypeOK, WindowTypes
  <1>5. ClosedInv'
    BY <1>1 DEF ClosedInv
  <1>6. CASE channel = <<>>
    <2>1. UNCHANGED <<jobVars, planVars, verifyVars>>
      BY <1>6 DEF Poll
    <2>2. /\ PlanTypes' /\ VerifyTypes' /\ ShowInv' /\ VerifiedIsShown' /\ Inputs' = Inputs
      BY <1>1, <2>1, SameShow
    <2>3. JobTypes' /\ JobInv'
      BY <2>1 DEF IInv, TypeOK, JobTypes, JobInv, Busy, jobVars
    <2>4. ActiveInv'
      BY <2>1, <2>2 DEF IInv, ActiveInv, Busy, jobVars, planVars, verifyVars
    <2> QED
      BY <1>2, <1>4, <1>5, <2>2, <2>3, <2>4 DEF IInv, TypeOK
  <1>7. CASE channel # <<>>
    <2>1. Take
      BY <1>7 DEF Poll
    <2>2. /\ JobTypes' /\ JobInv' /\ ~Busy' /\ Busy /\ Applies /\ Received = active
          /\ job[active].step = "sent"
      BY <2>1, TakeKeeps DEF IInv, TypeOK
    <2>3. Apply(job[active])
      BY <1>7, <2>2 DEF Poll
    <2>4. PlanTypes' /\ VerifyTypes' /\ ShowInv' /\ VerifiedIsShown'
      BY <1>1, <2>2, <2>3, ApplyKeeps
    <2>5. ActiveInv'
      BY <2>2 DEF ActiveInv
    <2> QED
      BY <1>2, <1>4, <1>5, <2>2, <2>4, <2>5 DEF IInv, TypeOK
  <1> QED
    BY <1>6, <1>7

(* cancel_background_job.                                                   *)
LEMMA CancelJobKeeps ==
    ASSUME IInv, Busy, CancelJob, UNCHANGED <<inputVars, planVars>>
    PROVE  /\ JobTypes' /\ JobInv' /\ FieldTypes' /\ PlanTypes' /\ VerifyTypes'
           /\ ShowInv' /\ VerifiedIsShown' /\ ActiveInv' /\ active' = active
PROOF
  <1>1. JobTypes' /\ JobInv' /\ active' = active /\ job' = job
    BY CancelKeeps DEF CancelJob, IInv, TypeOK
  <1>2. vpaths' = vpaths /\ VerifyTypes' /\ VerifiedIsShown'
    <2>1. CASE ClearVerification(vpaths)
      BY <2>1, ClearKeeps DEF IInv, TypeOK, VerifyTypes
    <2>2. CASE UNCHANGED verifyVars
      BY <2>2 DEF IInv, TypeOK, VerifyTypes, VerifiedIsShown, verifyVars
    <2> QED
      BY <2>1, <2>2 DEF CancelJob
  <1>3. UNCHANGED <<image, mode, restore, source, real, plan, current, preview>>
    BY DEF inputVars, planVars
  <1>4. Inputs' = Inputs
    BY <1>3 DEF Inputs
  <1>5. FieldTypes' /\ PlanTypes'
    BY <1>3 DEF IInv, TypeOK, FieldTypes, PlanTypes
  <1>6. ShowInv'
    BY <1>3, <1>4 DEF IInv, ShowInv, Planned
  <1>7. ActiveInv'
    BY <1>1, <1>2, <1>3, <1>4 DEF IInv, ActiveInv, Busy
  <1> QED
    BY <1>1, <1>2, <1>5, <1>6, <1>7

(* A close request is held back while a job is active.                      *)
LEMMA CloseKeeps == ASSUME IInv, AnswerClose PROVE IInv'
PROOF
  <1>1. /\ frame = "close" /\ frame' = "widgets" /\ window = "open"
        /\ UNCHANGED <<inputVars, planVars, edits>>
    BY DEF AnswerClose, IInv, ClosedInv, TypeOK, WindowTypes
  <1>2. CASE UNCHANGED <<jobVars, verifyVars>>
    <2>1. /\ FieldTypes' /\ PlanTypes' /\ VerifyTypes' /\ ShowInv' /\ VerifiedIsShown'
          /\ Inputs' = Inputs
      BY <1>1, <1>2, SameShow
    <2>2. JobTypes' /\ JobInv'
      BY <1>2 DEF IInv, TypeOK, JobTypes, JobInv, Busy, jobVars
    <2>3. ActiveInv'
      BY <1>1, <1>2, <2>1 DEF IInv, ActiveInv, Busy, jobVars, planVars, verifyVars
    <2>4. /\ closing' \in BOOLEAN /\ asked' \in BOOLEAN /\ window' \in {"open", "closed"}
          /\ window' = "closed" => ~Busy
      BY <1>1 DEF AnswerClose, IInv, TypeOK, WindowTypes
    <2>5. WindowTypes' /\ ClosedInv'
      BY <1>1, <1>2, <2>4 DEF IInv, TypeOK, WindowTypes, ClosedInv, Busy, jobVars
    <2> QED
      BY <2>1, <2>2, <2>3, <2>5 DEF IInv, TypeOK
  <1>3. CASE ~UNCHANGED <<jobVars, verifyVars>>
    <2>1. Busy /\ CancelJob /\ asked' = FALSE /\ closing' = TRUE /\ window' = window
      BY <1>3 DEF AnswerClose
    <2>2. /\ JobTypes' /\ JobInv' /\ FieldTypes' /\ PlanTypes' /\ VerifyTypes'
          /\ ShowInv' /\ VerifiedIsShown' /\ ActiveInv'
      BY <1>1, <2>1, CancelJobKeeps
    <2>3. WindowTypes' /\ ClosedInv'
      BY <1>1, <2>1 DEF IInv, TypeOK, WindowTypes, ClosedInv
    <2> QED
      BY <2>2, <2>3 DEF IInv, TypeOK
  <1> QED
    BY <1>2, <1>3

(* The profiles of the demonstration are profiles.                          *)
LEMMA DemoProfiles == DemoExfat \in Profiles /\ DemoNtfs \in Profiles
PROOF
  <1>1. DemoExfat \in Profiles
    BY DEF DemoExfat, Profiles, FileSystems, Features
  <1>2. DemoNtfs \in Profiles
    BY <1>1 DEF DemoNtfs, Profiles, FileSystems, Features
  <1> QED
    BY <1>1, <1>2

(* A user's action keeps evidence and fields together.                      *)
LEMMA WidgetKeeps == ASSUME IInv, Edit \/ Click, window = "open" PROVE
    /\ JobTypes' /\ JobInv' /\ FieldTypes' /\ PlanTypes' /\ VerifyTypes'
    /\ ShowInv' /\ VerifiedIsShown' /\ ActiveInv'
PROOF
  <1> DEFINE Kept == /\ JobTypes' /\ JobInv' /\ FieldTypes' /\ PlanTypes' /\ VerifyTypes'
                     /\ ShowInv' /\ VerifiedIsShown' /\ ActiveInv'
  <1>1. /\ vpaths \in VerificationPaths /\ source \in Profiles
        /\ image \in Images \cup {NoPath} /\ mode \in Modes
        /\ restore \in Sidecars \cup {NoPath}
        /\ plan = Planned(source, mode)
    BY DEF IInv, TypeOK, VerifyTypes, PlanTypes, FieldTypes, ShowInv
  <1>2. ASSUME UNCHANGED jobVars PROVE JobTypes' /\ JobInv' /\ (Busy' <=> Busy)
    BY <1>2 DEF IInv, TypeOK, JobTypes, JobInv, Busy, jobVars
  <1>3. ASSUME UNCHANGED jobVars, ~Busy PROVE JobTypes' /\ JobInv' /\ ActiveInv'
    BY <1>2, <1>3 DEF ActiveInv
  <1>4. ASSUME NEW profile \in {DemoExfat, DemoNtfs}, SelectDemo(profile) PROVE Kept
    <2>1. /\ ~Busy /\ source' = profile /\ real' = FALSE /\ preview' = NoPath
          /\ plan' = Planned(profile, mode) /\ current' = TRUE
          /\ ClearVerification(vpaths) /\ UNCHANGED <<image, mode, restore>>
          /\ UNCHANGED jobVars
      BY <1>4 DEF SelectDemo, inputVars
    <2>2. FieldTypes' /\ PlanTypes'
      BY <1>1, <2>1, DemoProfiles DEF FieldTypes, PlanTypes
    <2>3. ShowInv'
      BY <2>1 DEF ShowInv, Planned
    <2> QED
      BY <1>1, <1>3, <2>1, <2>2, <2>3, ClearKeeps
  <1>5. ASSUME NEW path \in Images \cup {NoPath}, EditImage(path) PROVE Kept
    <2>1. /\ ~Busy /\ image' = path /\ Invalidate
          /\ UNCHANGED <<mode, restore, source, plan>> /\ UNCHANGED jobVars
      BY <1>5 DEF EditImage
    <2>2. FieldTypes'
      BY <1>1, <2>1 DEF FieldTypes
    <2> QED
      BY <1>1, <1>3, <2>1, <2>2, InvalidateKeeps
  <1>6. ASSUME NEW path \in Sidecars \cup {NoPath}, EditRestore(path) PROVE Kept
    <2>1. /\ ~Busy /\ restore' = path /\ Invalidate
          /\ UNCHANGED <<image, mode, source, plan>> /\ UNCHANGED jobVars
      BY <1>6 DEF EditRestore
    <2>2. FieldTypes'
      BY <1>1, <2>1 DEF FieldTypes
    <2> QED
      BY <1>1, <1>3, <2>1, <2>2, InvalidateKeeps
  <1>7. ASSUME NEW m \in Modes, SelectGuaranteeMode(m) PROVE Kept
    <2>1. /\ ~Busy /\ mode' = m /\ Invalidate /\ plan' = Planned(source, m)
          /\ UNCHANGED <<image, restore, source>> /\ UNCHANGED jobVars
      BY <1>7 DEF SelectGuaranteeMode
    <2>2. FieldTypes'
      BY <1>1, <2>1 DEF FieldTypes
    <2> QED
      BY <1>3, <2>1, <2>2, InvalidateKeeps
  <1>8. ASSUME UNCHANGED inputVars
        PROVE  FieldTypes' /\ Inputs' = Inputs /\ mode' = mode /\ image' = image
    BY <1>1, <1>8 DEF FieldTypes, inputVars, Inputs
  <1>9. ASSUME UNCHANGED inputVars, UNCHANGED planVars PROVE PlanTypes' /\ ShowInv'
    BY <1>8, <1>9 DEF IInv, TypeOK, PlanTypes, ShowInv, planVars, Planned
  <1>10. ASSUME NEW paths \in VerificationPaths, EditVerification(paths) PROVE Kept
    <2>1. /\ ~Busy /\ ClearVerification(paths) /\ UNCHANGED jobVars
          /\ UNCHANGED inputVars /\ UNCHANGED planVars
      BY <1>10 DEF EditVerification
    <2> QED
      BY <1>3, <1>8, <1>9, <2>1, ClearKeeps
  <1>11. ASSUME NEW kind \in {"inspect", "preview"}, StartFresh(kind) PROVE Kept
    <2>1. /\ image # NoPath
          /\ StartJob(kind, Inputs) \/ StartRefused
          /\ Invalidate /\ UNCHANGED inputVars /\ UNCHANGED <<source, plan>>
      BY <1>11 DEF StartFresh
    <2>2. FieldTypes' /\ Inputs' = Inputs /\ mode' = mode
      BY <1>8, <2>1
    <2>3. PlanTypes' /\ VerifyTypes' /\ ShowInv' /\ VerifiedIsShown'
      BY <1>1, <2>1, <2>2, InvalidateKeeps
    <2>4. CASE StartRefused
      <3>1. JobTypes' /\ JobInv' /\ ~Busy'
        BY <2>4, RefusedKeeps DEF IInv, TypeOK
      <3> QED
        BY <2>2, <2>3, <3>1 DEF ActiveInv
    <2>5. CASE StartJob(kind, Inputs)
      <3>1. Fits(kind, Inputs)
        BY <1>11, <2>1, InputsFit DEF Fits, Kinds
      <3>2. /\ JobTypes' /\ JobInv' /\ job'[active'].kind = kind
            /\ job'[active'].input = Inputs
        BY <2>5, <3>1, StartKeeps DEF IInv, TypeOK
      <3>3. ActiveInv'
        BY <2>2, <3>2 DEF ActiveInv
      <3> QED
        BY <2>2, <2>3, <3>2, <3>3
    <2> QED
      BY <2>1, <2>4, <2>5
  <1>12. ASSUME AnalyzeWithoutImage PROVE Kept
    <2>1. /\ ~Busy /\ plan' = Planned(source, mode) /\ current' = TRUE
          /\ UNCHANGED jobVars /\ UNCHANGED inputVars
          /\ UNCHANGED <<source, real, preview>> /\ UNCHANGED verifyVars
      BY <1>12 DEF AnalyzeWithoutImage
    <2>2. PlanTypes'
      BY <2>1 DEF IInv, TypeOK, PlanTypes
    <2>3. ShowInv'
      BY <1>8, <2>1 DEF IInv, ShowInv, Planned
    <2>4. VerifyTypes' /\ VerifiedIsShown'
      BY <2>1 DEF IInv, TypeOK, VerifyTypes, VerifiedIsShown, verifyVars
    <2> QED
      BY <1>3, <1>8, <2>1, <2>2, <2>3, <2>4
  <1>13. ASSUME NEW output \in Outputs, ExportNewImage(output) PROVE Kept
    <2> DEFINE input == [image |-> image, mode |-> mode, restore |-> restore,
                         output |-> output]
    <2>1. /\ ~Busy /\ real /\ preview # NoPath /\ image # NoPath
          /\ StartJob("export", input) \/ StartRefused
          /\ UNCHANGED <<inputVars, planVars, verifyVars>>
      BY <1>13 DEF ExportNewImage, ExportAllowed
    <2>2. /\ FieldTypes' /\ PlanTypes' /\ VerifyTypes' /\ ShowInv' /\ VerifiedIsShown'
          /\ Inputs' = Inputs
      BY <2>1, SameShow
    <2>3. CASE StartRefused
      <3>1. JobTypes' /\ JobInv' /\ ~Busy'
        BY <2>3, RefusedKeeps DEF IInv, TypeOK
      <3> QED
        BY <2>2, <3>1 DEF ActiveInv
    <2>4. CASE StartJob("export", input)
      <3>1. input \in ExportInputs
        BY <1>1, <2>1 DEF ExportInputs
      <3>2. Fits("export", input)
        BY <3>1 DEF Fits, Kinds
      <3>3. /\ JobTypes' /\ JobInv' /\ job'[active'].kind = "export"
            /\ job'[active'].input = input
        BY <2>4, <3>2, StartKeeps DEF IInv, TypeOK
      <3>4. InputsOf(input) = Inputs
        BY DEF InputsOf, Inputs
      <3>5. preview = Inputs /\ preview \in Convertible
        BY <2>1 DEF IInv, ShowInv
      <3>6. preview' = preview /\ real' = real
        BY <2>1 DEF planVars
      <3> HIDE DEF input
      <3>7. ActiveInv'
        BY <2>1, <2>2, <3>3, <3>4, <3>5, <3>6 DEF ActiveInv
      <3> QED
        BY <2>2, <3>3, <3>7
    <2> QED
      BY <2>1, <2>3, <2>4
  <1>14. ASSUME VerifyExportReadOnly PROVE Kept
    <2>1. /\ StartJob("verify", vpaths) \/ StartRefused
          /\ ClearVerification(vpaths) /\ UNCHANGED inputVars /\ UNCHANGED planVars
      BY <1>14 DEF VerifyExportReadOnly
    <2>2. VerifyTypes' /\ VerifiedIsShown' /\ vpaths' = vpaths
      BY <1>1, <2>1, ClearKeeps
    <2>3. CASE StartRefused
      <3>1. JobTypes' /\ JobInv' /\ ~Busy'
        BY <2>3, RefusedKeeps DEF IInv, TypeOK
      <3> QED
        BY <1>8, <1>9, <2>1, <2>2, <3>1 DEF ActiveInv
    <2>4. CASE StartJob("verify", vpaths)
      <3>1. Fits("verify", vpaths)
        BY <1>1 DEF Fits, Kinds
      <3>2. /\ JobTypes' /\ JobInv' /\ job'[active'].kind = "verify"
            /\ job'[active'].input = vpaths
        BY <2>4, <3>1, StartKeeps DEF IInv, TypeOK
      <3>3. ActiveInv'
        BY <2>2, <3>2 DEF ActiveInv
      <3> QED
        BY <1>8, <1>9, <2>1, <2>2, <3>2, <3>3
    <2> QED
      BY <2>1, <2>3, <2>4
  <1>15. ASSUME RequestCancellation PROVE Kept
    BY <1>15, CancelJobKeeps DEF RequestCancellation
  <1>16. ASSUME Idle PROVE Kept
    <2>1. UNCHANGED jobVars /\ UNCHANGED <<inputVars, planVars, verifyVars>>
      BY <1>16 DEF Idle
    <2>2. /\ FieldTypes' /\ PlanTypes' /\ VerifyTypes' /\ ShowInv' /\ VerifiedIsShown'
          /\ Inputs' = Inputs
      BY <2>1, SameShow
    <2>3. ActiveInv'
      BY <2>1, <2>2 DEF IInv, ActiveInv, Busy, jobVars, planVars, verifyVars
    <2> QED
      BY <1>2, <2>1, <2>2, <2>3
  <1> HIDE DEF Kept
  <1>17. CASE Edit
    BY <1>4, <1>5, <1>6, <1>7, <1>10, <1>17 DEF Edit, Kept
  <1>18. CASE Click
    BY <1>11, <1>12, <1>13, <1>14, <1>15, <1>16, <1>18
       DEF Click, AnalyzeImage, PreviewImage, Kept
  <1> QED
    BY <1>17, <1>18

-----------------------------------------------------------------------------
(* The steps together.                                                      *)

(* A thread's step is not seen by the window until it polls.                *)
LEMMA ThreadKeeps == ASSUME IInv, NEW id \in Ids, WorkerStep(id) PROVE IInv'
PROOF
  <1>1. /\ window = "open"
        /\ Worker(id) \/ Panic(id)
        /\ UNCHANGED <<inputVars, planVars, verifyVars>>
        /\ UNCHANGED <<frame, closing, asked, window, edits>>
    BY DEF WorkerStep, appVars, windowVars
  <1>2. /\ JobTypes' /\ JobInv' /\ active' = active
        /\ job'[active].kind = job[active].kind
        /\ job'[active].input = job[active].input
    BY <1>1, WorkerKeeps DEF IInv, TypeOK
  <1>3. /\ FieldTypes' /\ PlanTypes' /\ VerifyTypes' /\ ShowInv' /\ VerifiedIsShown'
        /\ Inputs' = Inputs
    BY <1>1, SameShow
  <1>4. WindowTypes' /\ ClosedInv'
    BY <1>1 DEF IInv, TypeOK, WindowTypes, ClosedInv
  <1>5. preview' = preview /\ real' = real /\ vpaths' = vpaths
    BY <1>1 DEF planVars, verifyVars
  <1>6. Busy' <=> Busy
    BY <1>2 DEF Busy
  <1>7. ActiveInv'
    BY <1>2, <1>3, <1>5, <1>6 DEF IInv, ActiveInv
  <1> QED
    BY <1>2, <1>3, <1>4, <1>7 DEF IInv, TypeOK

(* A step that leaves the jobs, the fields and the evidence alone.          *)
LEMMA RestKeeps ==
    ASSUME IInv, UNCHANGED jobVars, UNCHANGED <<inputVars, planVars, verifyVars>>,
           WindowTypes', ClosedInv'
    PROVE  IInv'
PROOF
  <1>1. /\ FieldTypes' /\ PlanTypes' /\ VerifyTypes' /\ ShowInv' /\ VerifiedIsShown'
        /\ Inputs' = Inputs
    BY SameShow
  <1>2. JobTypes' /\ JobInv'
    BY DEF IInv, TypeOK, JobTypes, JobInv, Busy, jobVars
  <1>3. ActiveInv'
    BY <1>1 DEF IInv, ActiveInv, Busy, jobVars, planVars, verifyVars
  <1> QED
    BY <1>1, <1>2, <1>3 DEF IInv, TypeOK

(* The invariant holds when the window opens.                               *)
LEMMA InitHolds == Init => IInv
PROOF
  <1> SUFFICES ASSUME Init PROVE IInv
    OBVIOUS
  <1>1. MaxJobs \in Nat \ {0}
    BY DesktopAssumption DEF DesktopAssumption
  <1>2. Unborn \in Jobs
    BY DEF Unborn, Jobs, JobInputs, Steps, Outcomes
  <1>3. JobTypes
    BY <1>1, <1>2 DEF Init, JobsInit, JobTypes, NoJob, Ids
  <1>4. JobInv /\ ~Busy
    BY DEF Init, JobsInit, JobInv, Busy, NoJob
  <1>5. WindowTypes /\ ClosedInv /\ ActiveInv
    BY <1>4 DEF Init, WindowTypes, ClosedInv, ActiveInv
  <1>6. FieldTypes /\ PlanTypes /\ ShowInv
    BY DemoProfiles DEF Init, FieldTypes, PlanTypes, ShowInv
  <1>7. VerifyTypes /\ VerifiedIsShown
    BY DEF Init, VerifyTypes, VerifiedIsShown, VerificationPaths
  <1> QED
    BY <1>3, <1>4, <1>5, <1>6, <1>7 DEF IInv, TypeOK

(* Every step of a frame or a thread keeps it.                              *)
LEMMA StepKeeps == IInv /\ [Next]_vars => IInv'
PROOF
  <1> SUFFICES ASSUME IInv, [Next]_vars PROVE IInv'
    OBVIOUS
  <1>1. CASE Poll
    BY <1>1, PollKeeps
  <1>2. CASE AnswerClose
    BY <1>2, CloseKeeps
  <1>3. CASE Widgets
    <2>1. /\ window = "open" /\ frame' = "poll"
          /\ Edit \/ Click
          /\ UNCHANGED <<closing, asked, window>>
      BY <1>3 DEF Widgets, windowVars
    <2>2. /\ JobTypes' /\ JobInv' /\ FieldTypes' /\ PlanTypes' /\ VerifyTypes'
          /\ ShowInv' /\ VerifiedIsShown' /\ ActiveInv'
      BY <2>1, WidgetKeeps
    <2>3. edits' = edits + 1 \/ edits' = edits
      BY <2>1 DEF Edit, Click
    <2>4. WindowTypes' /\ ClosedInv'
      BY <2>1, <2>3 DEF IInv, TypeOK, WindowTypes, ClosedInv
    <2> QED
      BY <2>2, <2>4 DEF IInv, TypeOK
  <1>4. CASE AskToClose
    <2>1. /\ UNCHANGED jobVars /\ UNCHANGED <<inputVars, planVars, verifyVars>>
          /\ window = "open" /\ asked' = TRUE
          /\ UNCHANGED <<frame, closing, window, edits>>
      BY <1>4 DEF AskToClose
    <2>2. WindowTypes' /\ ClosedInv'
      BY <2>1 DEF IInv, TypeOK, WindowTypes, ClosedInv
    <2> QED
      BY <2>1, <2>2, RestKeeps
  <1>5. CASE \E id \in Ids : WorkerStep(id)
    BY <1>5, ThreadKeeps
  <1>6. CASE UNCHANGED vars
    <2>1. /\ UNCHANGED jobVars /\ UNCHANGED <<inputVars, planVars, verifyVars>>
          /\ UNCHANGED <<frame, closing, asked, window, edits>>
      BY <1>6 DEF vars, appVars, windowVars
    <2>2. WindowTypes' /\ ClosedInv'
      BY <2>1 DEF IInv, TypeOK, WindowTypes, ClosedInv, Busy, jobVars
    <2> QED
      BY <2>1, <2>2, RestKeeps
  <1> QED
    BY <1>1, <1>2, <1>3, <1>4, <1>5, <1>6 DEF Next

-----------------------------------------------------------------------------
(* The theorems.                                                            *)

(***************************************************************************)
(* The inductive invariant of the window and its workers: one thread at a   *)
(* time, that of the active job, and every piece of evidence on show        *)
(* belonging to the fields on show.                                         *)
(***************************************************************************)
THEOREM Invariance == Spec => []IInv
PROOF
  <1>1. Init => IInv
    BY InitHolds
  <1>2. IInv /\ [Next]_vars => IInv'
    BY StepKeeps
  <1> QED
    BY <1>1, <1>2, PTL DEF Spec

(***************************************************************************)
(* The values that the window and its workers hold: a message names a job,  *)
(* a job's input fits its kind, the preview on show is a complete input.    *)
(***************************************************************************)
THEOREM TypeCorrect == Spec => []TypeOK
PROOF
  <1>1. IInv => TypeOK
    BY DEF IInv
  <1> QED
    BY <1>1, Invariance, PTL

(***************************************************************************)
(* export_block_reason and invalidate_conversion_evidence together: an      *)
(* export that runs was started on the inputs of the preview on show, for a *)
(* convertible volume, with the plan of that volume and mode.               *)
(***************************************************************************)
THEOREM ExportIsPreviewed == Spec => []ExportsWhatWasPreviewed
PROOF
  <1>1. IInv => ExportsWhatWasPreviewed
    BY DEF IInv, ExportsWhatWasPreviewed, ActiveInv, ShowInv
  <1> QED
    BY <1>1, Invariance, PTL

(***************************************************************************)
(* apply_job_outcome and the edits of the three verification paths: a       *)
(* verification shown as passed is that of the paths on show.               *)
(***************************************************************************)
THEOREM VerificationIsShown == Spec => []VerifiedIsShown
PROOF
  <1>1. IInv => VerifiedIsShown
    BY DEF IInv
  <1> QED
    BY <1>1, Invariance, PTL

(***************************************************************************)
(* handle_close_request: the window never closes while a thread works.      *)
(***************************************************************************)
THEOREM ClosesOverNothing == Spec => []NeverClosesOverWork
PROOF
  <1>1. IInv => NeverClosesOverWork
    <2> SUFFICES ASSUME IInv PROVE NeverClosesOverWork
      OBVIOUS
    <2>1. \A id \in Running : id = active
      BY DEF IInv, JobInv, Running, Unborn
    <2>2. ASSUME window = "closed" PROVE Running = {}
      <3>1. active = 0
        BY <2>2 DEF IInv, ClosedInv, Busy, NoJob
      <3>2. 0 \notin Ids
        BY DEF Ids
      <3> QED
        BY <2>1, <3>1, <3>2 DEF Running
    <2> QED
      BY <2>1, <2>2 DEF NeverClosesOverWork
  <1> QED
    BY <1>1, Invariance, PTL

(***************************************************************************)
(* build_candidate_export after its commit point: a job that reports that   *)
(* it was cancelled has left nothing under a final name.                    *)
(***************************************************************************)
THEOREM CancelledLeavesNothing == Spec => []CancelledPublishesNothing
PROOF
  <1>1. IInv => CancelledPublishesNothing
    BY DEF IInv, JobInv, CancelledPublishesNothing
  <1> QED
    BY <1>1, Invariance, PTL
=============================================================================
