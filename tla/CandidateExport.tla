--------------------------- MODULE CandidateExport ---------------------------
(***************************************************************************)
(* Copy-based export (candidate_export.rs): several exports read one source *)
(* image, build a private partial each, verify it, and publish escrow and   *)
(* candidate under their final names with hard links.                       *)
(*                                                                         *)
(* Other programs may edit the source and may create, replace or remove     *)
(* directory entries; processes and the machine may stop at any step.       *)
(***************************************************************************)
EXTENDS Integers

CONSTANTS
    Exports,        \* calls of export_candidate_image_impl
    Paths,          \* final names
    NoPath,         \* escrow path of a strict export
    Out, Esc,       \* Out[p], Esc[p]: the final names that p was given
    Relocated,      \* exports with a sealed relocation and source snapshot
    Chunks,         \* chunks of the source image
    MovedChunks,    \* chunks that relocations read again
    Described,      \* chunks of file data, which a manifest covers
    SyncOutcomes,   \* what a parent-directory sync may return
    Free, Foreign,  \* a free name, a file of another program
    MaxEdits,       \* bound on edits of the source
    MaxFaults       \* bound on exits, power losses and foreign renames

Artifacts == {"candidate", "escrow"}

(* A file that an export creates, and the name of its partial.              *)
Files == Exports \X Artifacts
Names == Paths \cup Files

(* create_partial generates its names; nobody asks for one as a final name. *)
ASSUME ExportAssumption ==
    /\ Out \in [Exports -> Paths] /\ Esc \in [Exports -> Paths \cup {NoPath}]
    /\ NoPath \notin Paths
    /\ \A p \in Exports : Out[p] # Esc[p]
    /\ Relocated \subseteq Exports
    /\ Chunks \in Nat \ {0} /\ MovedChunks \subseteq 1 .. Chunks
    /\ Described \subseteq 1 .. Chunks
    /\ SyncOutcomes \subseteq {"synchronized", "unsupported"}
    /\ MaxEdits \in Nat /\ MaxFaults \in Nat
    /\ Free # Foreign /\ {Free, Foreign} \cap Files = {}
    /\ Paths \cap Files = {}

VARIABLES
    src,        \* src[c]: content of a chunk of the source
    noticed,    \* the source's metadata differ from when it was opened
    pc,         \* pc[p]: what export p does next
    art,        \* art[p]: the artifact it works on
    at,         \* at[p]: the next chunk of a scan
    seen,       \* seen[p][scan]: what each scan of the source has read
    guards,     \* guards[p]: artifacts whose partial Drop would remove
    dir,        \* dir[n]: the file that name n refers to
    dirDisk,    \* dirDisk[n]: what n may refer to after a power loss
    complete,   \* files whose whole content can be read
    flushed,    \* files whose whole content is on the medium
    verified,   \* files that passed verification (history)
    result,     \* result[p]: "none", "ok" or "error"
    reported,   \* reported[p]: the names that the error of p mentions
    strength,   \* strength[p][a]: DirectoryDurability of an artifact
    touched,    \* names that another program has changed (history)
    edits, faults

sourceVars == <<src, noticed, edits>>
nameVars   == <<dir, dirDisk, touched>>
fileVars   == <<complete, flushed, verified>>
endVars    == <<result, reported, strength>>
vars       == <<sourceVars, pc, art, at, seen, guards, nameVars, fileVars,
                endVars, faults>>

Dest(p, a) == IF a = "escrow" THEN Esc[p] ELSE Out[p]

(* Final names are in directories of their own; a partial is beside its     *)
(* final name.                                                              *)
Parent(n) == IF n \in Paths THEN n ELSE Dest(n[1], n[2])

Scans == {"manifest", "hash", "copy", "relocate", "after"}
Contents == [1 .. Chunks -> Nat]
Planned == [c \in 1 .. Chunks |-> 0]
Entries == Files \cup {Free, Foreign}

Building == Scans \cup {"start", "create", "flush", "verify", "ready"}
Publishing == {"check", "link", "inspect", "sync", "remove", "resync"}

(* The source is open and inspected, the relocation plan and its snapshot   *)
(* are made.                                                                *)
Init ==
    /\ src = Planned /\ noticed = FALSE /\ edits = 0
    /\ pc = [p \in Exports |-> "start"] /\ art = [p \in Exports |-> "candidate"]
    /\ at = [p \in Exports |-> 1]
    /\ seen = [p \in Exports |-> [s \in Scans |-> Planned]]
    /\ guards = [p \in Exports |-> {}]
    /\ dir = [n \in Names |-> Free] /\ dirDisk = [n \in Names |-> {Free}]
    /\ touched = {}
    /\ complete = {} /\ flushed = {} /\ verified = {}
    /\ result = [p \in Exports |-> "none"] /\ reported = [p \in Exports |-> {}]
    /\ strength = [p \in Exports |-> [a \in Artifacts |-> "synchronized"]]
    /\ faults = 0

(* The values each export, the source and the directories can have.         *)
TypeOK ==
    /\ src \in Contents /\ noticed \in BOOLEAN /\ edits \in Nat /\ faults \in Nat
    /\ pc \in [Exports -> Building \cup Publishing \cup {"failed", "done"}]
    /\ art \in [Exports -> Artifacts]
    /\ at \in [Exports -> 1 .. Chunks + 1]
    /\ seen \in [Exports -> [Scans -> Contents]]
    /\ guards \in [Exports -> SUBSET Artifacts]
    /\ dir \in [Names -> Entries] /\ dirDisk \in [Names -> SUBSET Entries]
    /\ touched \in SUBSET Names
    /\ complete \in SUBSET Files /\ flushed \in SUBSET Files
    /\ verified \in SUBSET Files
    /\ result \in [Exports -> {"none", "ok", "error"}]
    /\ reported \in [Exports -> SUBSET Names]
    /\ strength \in [Exports -> [Artifacts -> {"synchronized", "unsupported"}]]

Goto(p, label) == pc' = [pc EXCEPT ![p] = label]

(* The entries of some names change; the old ones may survive a power loss. *)
Bind(names, file) ==
    /\ dir' = [n \in Names |-> IF n \in names THEN file ELSE dir[n]]
    /\ dirDisk' = [n \in Names |->
                     IF n \in names THEN dirDisk[n] \cup {file} ELSE dirDisk[n]]

(* An error return. Dropping the guards removes their partials by name, as  *)
(* far as the file system lets it.                                          *)
Abort(p, names, kept) ==
    /\ \E gone \in SUBSET {<<p, a>> : a \in guards[p] \ kept} : Bind(gone, Free)
    /\ Goto(p, "done")
    /\ guards' = [guards EXCEPT ![p] = {}]
    /\ result' = [result EXCEPT ![p] = "error"]
    /\ reported' = [reported EXCEPT ![p] = names]
    /\ UNCHANGED <<sourceVars, art, at, seen, touched, fileVars, strength, faults>>

-----------------------------------------------------------------------------
(* Building the partial candidate.                                          *)

(* Limits, policy and the plan's before-images are accepted, and            *)
(* resolve_new_path finds both names free.                                  *)
Start(p) ==
    /\ pc[p] = "start"
    /\ \A a \in Artifacts : Dest(p, a) # NoPath => dir[Dest(p, a)] = Free
    /\ Goto(p, "manifest")
    /\ UNCHANGED <<sourceVars, art, at, seen, guards, nameVars, fileVars,
                   endVars, faults>>

(* Relocations read from the source again, over what was copied.            *)
Record(scan) == IF scan = "relocate" THEN "copy" ELSE scan

(* read_exact_at refuses once the metadata of the open file differ.         *)
ReadChunk(p) ==
    /\ pc[p] \in Scans /\ at[p] <= Chunks
    /\ ~noticed
    /\ seen' = IF pc[p] = "relocate" /\ at[p] \notin MovedChunks THEN seen
               ELSE [seen EXCEPT ![p][Record(pc[p])][at[p]] = src[at[p]]]
    /\ at' = [at EXCEPT ![p] = @ + 1]
    /\ UNCHANGED <<sourceVars, pc, art, guards, nameVars, fileVars, endVars,
                   faults>>

(* Mutant: the final hash of the source is not compared.                    *)
NoFinalComparison(p) ==
    pc[p] = "hash" /\ p \in Relocated => seen[p]["hash"] = Planned

(* What a finished scan must satisfy: a relocated export starts from the    *)
(* planned source, and the source hashes the same before and after.         *)
ScanAccepted(p) ==
    /\ pc[p] = "hash" /\ p \in Relocated => seen[p]["hash"] = Planned
    /\ pc[p] = "after" => seen[p]["after"] = seen[p]["hash"]

AfterScan(p) ==
    CASE pc[p] = "manifest" -> "hash"
      [] pc[p] = "hash" -> "create"
      [] pc[p] = "copy" -> IF p \in Relocated THEN "relocate" ELSE "flush"
      [] pc[p] = "relocate" -> "flush"
      [] pc[p] = "after" -> IF Esc[p] = NoPath THEN "ready" ELSE "create"

EndScan(p) ==
    /\ pc[p] \in Scans /\ at[p] > Chunks
    /\ ScanAccepted(p)
    /\ Goto(p, AfterScan(p))
    /\ at' = [at EXCEPT ![p] = 1]
    /\ art' = [art EXCEPT ![p] = IF pc[p] = "after" /\ Esc[p] # NoPath
                                 THEN "escrow" ELSE @]
    /\ UNCHANGED <<sourceVars, seen, guards, nameVars, fileVars, endVars, faults>>

(* create_partial: a name that no other process or attempt uses.            *)
Create(p) ==
    /\ pc[p] = "create"
    /\ Bind({<<p, art[p]>>}, <<p, art[p]>>)
    /\ guards' = [guards EXCEPT ![p] = @ \cup {art[p]}]
    /\ Goto(p, IF art[p] = "candidate" THEN "copy" ELSE "flush")
    /\ UNCHANGED <<sourceVars, art, at, seen, touched, fileVars, endVars, faults>>

(* The new file cannot be locked: it stays behind, as no guard owns it yet. *)
CreateUnlocked(p) ==
    /\ pc[p] = "create"
    /\ Bind({<<p, art[p]>>}, <<p, art[p]>>)
    /\ Goto(p, "failed")
    /\ UNCHANGED <<sourceVars, art, at, seen, guards, touched, fileVars, endVars,
                   faults>>

(* Mutant: the partial is not flushed before it is verified.                *)
NeverFlushed(p) ==
    /\ pc[p] = "flush"
    /\ complete' = complete \cup {<<p, art[p]>>}
    /\ verified' = verified
          \cup (IF art[p] = "escrow" THEN {<<p, "escrow">>} ELSE {})
    /\ Goto(p, IF art[p] = "candidate" THEN "verify" ELSE "ready")
    /\ UNCHANGED <<sourceVars, art, at, seen, guards, nameVars, flushed, endVars,
                   faults>>

(* The last writes (apply_forward_writes, or the envelope) and sync_all; an *)
(* escrow is then bound to its identity.                                    *)
Flush(p) ==
    /\ pc[p] = "flush"
    /\ complete' = complete \cup {<<p, art[p]>>}
    /\ flushed' = flushed \cup {<<p, art[p]>>}
    /\ verified' = verified
          \cup (IF art[p] = "escrow" THEN {<<p, "escrow">>} ELSE {})
    /\ Goto(p, IF art[p] = "candidate" THEN "verify" ELSE "ready")
    /\ UNCHANGED <<sourceVars, art, at, seen, guards, nameVars, endVars, faults>>

(* verify_candidate: the candidate's manifest is the one expected from the  *)
(* source. It covers file data, not slack or unallocated space.             *)
Verify(p) ==
    /\ pc[p] = "verify"
    /\ \A c \in Described : seen[p]["copy"][c] = seen[p]["manifest"][c]
    /\ verified' = verified \cup {<<p, "candidate">>}
    /\ Goto(p, "after")
    /\ UNCHANGED <<sourceVars, art, at, seen, guards, nameVars, complete, flushed,
                   endVars, faults>>

(* Mutant: the candidate is published first.                                *)
ReadyCandidateFirst(p) ==
    /\ pc[p] = "ready"
    /\ art' = [art EXCEPT ![p] = "candidate"]
    /\ Goto(p, "check")
    /\ UNCHANGED <<sourceVars, at, seen, guards, nameVars, fileVars, endVars,
                   faults>>

(* The last point at which a cancellation is accepted.                      *)
Ready(p) ==
    /\ pc[p] = "ready"
    /\ art' = [art EXCEPT ![p] = IF Esc[p] = NoPath THEN "candidate" ELSE "escrow"]
    /\ Goto(p, "check")
    /\ UNCHANGED <<sourceVars, at, seen, guards, nameVars, fileVars, endVars,
                   faults>>

(* The steps that an observer can cancel.                                   *)
Cancellable == Building

(* A refused check, an I/O error, or a cancellation before publication.     *)
Stop(p) ==
    /\ pc[p] \in Cancellable \cup {"failed"}
    /\ Abort(p, {}, {})

-----------------------------------------------------------------------------
(* publish_with, for escrow and then for the candidate.                     *)

Partial(p) == <<p, art[p]>>
Final(p) == Dest(p, art[p])

(* ensure_verified_path; from here on the partial is kept. A mismatch names *)
(* the partial, an I/O error names nothing.                                 *)
Check(p) ==
    /\ pc[p] = "check"
    /\ \/ /\ dir[Partial(p)] = Partial(p)
          /\ guards' = [guards EXCEPT ![p] = @ \ {art[p]}]
          /\ Goto(p, "link")
          /\ UNCHANGED <<sourceVars, art, at, seen, nameVars, fileVars, endVars,
                         faults>>
       \/ \E names \in {{}, {Partial(p)}} : Abort(p, names, {art[p]})

(* Mutant: publishes by renaming, over whatever is there.                   *)
LinkReplaces(p) ==
    /\ pc[p] = "link"
    /\ \/ /\ dir[Partial(p)] # Free
          /\ Bind({Final(p)}, dir[Partial(p)])
          /\ Goto(p, "inspect")
          /\ UNCHANGED <<sourceVars, art, at, seen, guards, touched, fileVars,
                         endVars, faults>>
       \/ Abort(p, {Partial(p), Final(p)}, {})

(* A hard link gives the final name to whatever the partial's name refers   *)
(* to, and fails on a taken name.                                           *)
Link(p) ==
    /\ pc[p] = "link"
    /\ \/ /\ dir[Partial(p)] # Free /\ dir[Final(p)] = Free
          /\ Bind({Final(p)}, dir[Partial(p)])
          /\ Goto(p, "inspect")
          /\ UNCHANGED <<sourceVars, art, at, seen, guards, touched, fileVars,
                         endVars, faults>>
       \/ Abort(p, {Partial(p), Final(p)}, {})

Inspect(p) ==
    /\ pc[p] = "inspect"
    /\ \/ /\ dir[Final(p)] = Partial(p)
          /\ Goto(p, "sync")
          /\ UNCHANGED <<sourceVars, art, at, seen, guards, nameVars, fileVars,
                         endVars, faults>>
       \/ Abort(p, {Partial(p), Final(p)}, {})

(* Mutant: either barrier counts for both.                                  *)
CombineEither(first, second) ==
    IF "synchronized" \in {first, second} THEN "synchronized" ELSE "unsupported"

(* combine_directory_durability.                                            *)
Combine(first, second) ==
    IF first = "synchronized" /\ second = "synchronized"
    THEN "synchronized" ELSE "unsupported"

(* sync_parent: a synchronized directory has its current entries for good.  *)
SyncParent(p, outcome) ==
    /\ dirDisk' = [n \in Names |->
          IF outcome = "synchronized" /\ Parent(n) = Final(p) THEN {dir[n]}
          ELSE dirDisk[n]]
    /\ UNCHANGED <<sourceVars, at, seen, guards, dir, touched, fileVars, reported,
                   faults>>

Sync(p) ==
    /\ pc[p] = "sync"
    /\ \/ \E outcome \in SyncOutcomes :
             /\ SyncParent(p, outcome)
             /\ strength' = [strength EXCEPT ![p][art[p]] = outcome]
             /\ Goto(p, "remove")
             /\ UNCHANGED <<art, result>>
       \/ Abort(p, {Partial(p), Final(p)}, {})

Remove(p) ==
    /\ pc[p] = "remove"
    /\ \/ /\ dir[Partial(p)] # Free
          /\ Bind({Partial(p)}, Free)
          /\ Goto(p, "resync")
          /\ UNCHANGED <<sourceVars, art, at, seen, guards, touched, fileVars,
                         endVars, faults>>
       \/ Abort(p, {Partial(p), Final(p)}, {})

Resync(p) ==
    /\ pc[p] = "resync"
    /\ \/ \E outcome \in SyncOutcomes :
             /\ SyncParent(p, outcome)
             /\ strength' =
                   [strength EXCEPT ![p][art[p]] = Combine(@, outcome)]
             /\ art' = [art EXCEPT ![p] = "candidate"]
             /\ Goto(p, IF art[p] = "escrow" THEN "check" ELSE "done")
             /\ result' = [result EXCEPT ![p] =
                              IF art[p] = "escrow" THEN @ ELSE "ok"]
       \/ Abort(p, {Partial(p), Final(p)}, {})

-----------------------------------------------------------------------------
(* The environment.                                                         *)

Fault == faults < MaxFaults /\ faults' = faults + 1

(* Another program edits the source; the modification time is best effort.  *)
(* Every edit writes something new: one that is undone before the next scan *)
(* and leaves the metadata alone is beyond what hashes can tell.            *)
Edit(c) ==
    /\ edits < MaxEdits /\ edits' = edits + 1
    /\ src' = [src EXCEPT ![c] = edits']
    /\ noticed' \in {noticed, TRUE}
    /\ UNCHANGED <<pc, art, at, seen, guards, nameVars, fileVars, endVars, faults>>

(* Another program gives a name to a file of its own, or removes it.        *)
Meddle(n) ==
    /\ Fault
    /\ n \in Paths \/ dir[n] # Free
    /\ \E file \in {Foreign, Free} : Bind({n}, file)
    /\ touched' = touched \cup {n}
    /\ UNCHANGED <<sourceVars, pc, art, at, seen, guards, fileVars, endVars>>

Exit(p) ==
    /\ Fault
    /\ pc[p] # "done" /\ Goto(p, "done")
    /\ guards' = [guards EXCEPT ![p] = {}]
    /\ UNCHANGED <<sourceVars, art, at, seen, nameVars, fileVars, endVars>>

PowerLoss ==
    /\ Fault
    /\ LET unsettled == {n \in Names : dirDisk[n] # {dir[n]}} IN
       \E left \in [unsettled -> UNION {dirDisk[n] : n \in unsettled}] :
          /\ \A n \in unsettled : left[n] \in dirDisk[n]
          /\ dir' = [n \in Names |-> IF n \in unsettled THEN left[n] ELSE dir[n]]
    /\ dirDisk' = [n \in Names |-> {dir'[n]}]
    /\ complete' = flushed
    /\ pc' = [p \in Exports |-> "done"] /\ guards' = [p \in Exports |-> {}]
    /\ UNCHANGED <<sourceVars, art, at, seen, touched, flushed, verified, endVars>>

Build(p) ==
    \/ Start(p) \/ ReadChunk(p) \/ EndScan(p) \/ Create(p) \/ CreateUnlocked(p)
    \/ Flush(p) \/ Verify(p) \/ Ready(p) \/ Stop(p)

Publish(p) ==
    Check(p) \/ Link(p) \/ Inspect(p) \/ Sync(p) \/ Remove(p) \/ Resync(p)

Environment ==
    \/ \E c \in 1 .. Chunks : Edit(c)
    \/ \E n \in Names : Meddle(n)
    \/ \E p \in Exports : Exit(p)
    \/ PowerLoss

Next == (\E p \in Exports : Build(p) \/ Publish(p)) \/ Environment

Spec == Init /\ [][Next]_vars

-----------------------------------------------------------------------------
(* Properties.                                                              *)

(* What a name refers to now, or may refer to after a power loss.           *)
MayFind(n) == dirDisk[n] \cup {dir[n]}

(***************************************************************************)
(* Whatever happens, a final name never refers to a file of an export that  *)
(* is not complete, verified and flushed ("published only after the partial *)
(* candidate and escrow have been flushed, reinspected, hashed").           *)
(***************************************************************************)
NothingPartialPublished ==
    \A n \in Paths : \A file \in MayFind(n) \cap Files :
        file \in complete \cap flushed \cap verified

(***************************************************************************)
(* An escrow export never shows its candidate without its sidecar, also     *)
(* after a power loss, if the sidecar's directory was synchronized and      *)
(* nobody else changed that name.                                           *)
(***************************************************************************)
SidecarFirst ==
    \A p \in Exports :
        /\ Esc[p] \notin touched \cup {NoPath}
        /\ strength[p]["escrow"] = "synchronized"
        /\ <<p, "candidate">> \in MayFind(Out[p])
        => MayFind(Esc[p]) = {<<p, "escrow">>}

(***************************************************************************)
(* A successful export that reports its directories as synchronized is      *)
(* there after every power loss, and its partials are gone.                 *)
(***************************************************************************)
SuccessIsDurable ==
    \A p \in Exports, a \in Artifacts :
        /\ result[p] = "ok" /\ strength[p][a] = "synchronized"
        /\ {Dest(p, a), <<p, a>>} \cap (touched \cup {NoPath}) = {}
        => MayFind(Dest(p, a)) = {<<p, a>>} /\ MayFind(<<p, a>>) = {Free}

(***************************************************************************)
(* The content of a successful export is the source content whose hash its  *)
(* evidence names, and for a relocated export the planned one, although the *)
(* source is read five times and may be edited in between without notice.   *)
(***************************************************************************)
EvidenceIsTrue ==
    \A p \in Exports : result[p] = "ok" =>
        /\ seen[p]["copy"] = seen[p]["hash"]
        /\ p \in Relocated => seen[p]["copy"] = Planned

(***************************************************************************)
(* No export replaces or removes what a final name refers to, be it of      *)
(* another export or of another program.                                    *)
(***************************************************************************)
NoClobber ==
    [][faults' = faults =>
          \A n \in Paths : dir[n] # Free => dir'[n] = dir[n]]_vars
=============================================================================
