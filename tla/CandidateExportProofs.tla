------------------------ MODULE CandidateExportProofs ------------------------
(***************************************************************************)
(* Proofs about CandidateExport for every number of exports, every choice   *)
(* of final names, every size of the source and every number of edits and   *)
(* faults.                                                                  *)
(***************************************************************************)
EXTENDS CandidateExport, TLAPS

-----------------------------------------------------------------------------
(* The inductive invariant.                                                 *)

(* The evidence of p is settled: the final hash was compared.               *)
Proven(p) ==
    \/ pc[p] = "ready" \/ pc[p] \in Publishing
    \/ pc[p] \in {"create", "flush"} /\ art[p] = "escrow"
    \/ result[p] = "ok"

(* The whole source has been copied.                                        *)
Copied(p) == pc[p] \in {"relocate", "flush", "verify", "after"} \/ Proven(p)

(* The first hash was compared with the plan.                               *)
Hashed(p) == pc[p] \in {"create", "copy"} \/ Copied(p)

(* Chunk c of the running scan has been read.                               *)
Passed(p, scan, c) == pc[p] = scan /\ c < at[p]

(* Edits only add: what was read later is not older. A chunk that hashes    *)
(* the same before and after was the same in between.                       *)
Evidence(p) ==
    /\ pc[p] \notin Scans \cup {"done"} => at[p] = 1
    /\ Hashed(p) /\ p \in Relocated => seen[p]["hash"] = Planned
    /\ \A c \in 1 .. Chunks :
          /\ Copied(p) \/ Passed(p, "copy", c) =>
                seen[p]["hash"][c] <= seen[p]["copy"][c]
          /\ Passed(p, "after", c) => seen[p]["copy"][c] <= seen[p]["after"][c]
    /\ Proven(p) => seen[p]["copy"] = seen[p]["hash"]

EvidenceInv ==
    /\ \A c \in 1 .. Chunks : src[c] <= edits
    /\ \A p \in Exports, s \in Scans, c \in 1 .. Chunks : seen[p][s][c] <= src[c]
    /\ \A p \in Exports : Evidence(p)

(* Where p is in its two publications.                                      *)
StageInv ==
    \A p \in Exports :
        /\ result[p] = "ok" => pc[p] = "done"
        /\ art[p] = "escrow" => Esc[p] # NoPath
        /\ pc[p] \in Scans \cup {"start", "verify"} => art[p] = "candidate"

Sound(file) == file \in complete \cap flushed \cap verified

(* Which files of p are finished.                                           *)
Finished(p) ==
    /\ pc[p] = "verify" => <<p, "candidate">> \in complete \cap flushed
    /\ pc[p] = "after" \/ Proven(p) => Sound(<<p, "candidate">>)
    /\ pc[p] \in Publishing \cup {"ready"} /\ Esc[p] # NoPath => Sound(<<p, "escrow">>)

FileInv == (\A p \in Exports : Finished(p)) /\ NothingPartialPublished

(* The candidate of p has no final name yet.                                *)
Unlinked(p) ==
    \/ pc[p] \in Building \cup {"failed", "check", "link"}
    \/ pc[p] \in Publishing /\ art[p] = "escrow"

(* Names are bound in order; only p gives names to its files.               *)
NameInv ==
    /\ \A n \in Names : dir[n] \in dirDisk[n]
    /\ \A file \in Files : dirDisk[file] \subseteq {file, Free, Foreign}
    /\ \A p \in Exports : Unlinked(p) => <<p, "candidate">> \notin dirDisk[Out[p]]

(* The publication of artifact a of p has ended, or must have ended.        *)
Over(p, a) ==
    \/ result[p] = "ok"
    \/ /\ a = "escrow"
       /\ \/ pc[p] \in Publishing /\ art[p] = "candidate"
          \/ <<p, "candidate">> \in dirDisk[Out[p]]

(* The barriers: what a name refers to before the directory is synchronized *)
(* and that nothing else is left after it.                                  *)
Barrier(p) ==
    /\ pc[p] \in {"sync", "remove", "resync"} /\ Final(p) \notin touched =>
          dir[Final(p)] = Partial(p)
    /\ pc[p] = "resync" /\ Partial(p) \notin touched => dir[Partial(p)] = Free
    /\ \A a \in Artifacts :
          Over(p, a) /\ strength[p][a] = "synchronized" /\ Dest(p, a) # NoPath =>
            /\ Dest(p, a) \notin touched => dirDisk[Dest(p, a)] = {<<p, a>>}
            /\ <<p, a>> \notin touched => dirDisk[<<p, a>>] = {Free}

BarrierInv == \A p \in Exports : Barrier(p)

IInv ==
    /\ TypeOK /\ StageInv /\ EvidenceInv /\ FileInv /\ NameInv /\ BarrierInv

-----------------------------------------------------------------------------
(* Facts about names and files.                                             *)

(* A file of an export is a name, and never a final one.                    *)
LEMMA FileFacts ==
    ASSUME NEW p \in Exports, NEW a \in Artifacts
    PROVE  /\ <<p, a>> \in Files /\ <<p, a>> \in Names /\ <<p, a>> \in Entries
           /\ <<p, a>> \notin Paths /\ <<p, a>> # Free /\ <<p, a>> # Foreign
           /\ Parent(<<p, a>>) = Dest(p, a)
PROOF
  BY ExportAssumption DEF ExportAssumption, Files, Names, Entries, Parent

(* What a publication names.                                                *)
LEMMA FinalFacts ==
    ASSUME TypeOK, StageInv, NEW p \in Exports
    PROVE  /\ Partial(p) \in Files /\ Partial(p) \in Names
           /\ Final(p) \in Paths /\ Final(p) \in Names
           /\ Out[p] \in Paths /\ Out[p] \in Names
           /\ \A a \in Artifacts : Dest(p, a) # NoPath => Dest(p, a) \in Paths
PROOF
  <1>1. art[p] \in Artifacts
    BY DEF TypeOK
  <1>2. Out[p] \in Paths /\ (Esc[p] # NoPath => Esc[p] \in Paths)
    BY ExportAssumption DEF ExportAssumption
  <1> QED
    BY <1>1, <1>2, FileFacts DEF StageInv, Partial, Final, Dest, Names

-----------------------------------------------------------------------------
(* Type correctness.                                                        *)

(* Binding names keeps the directories well formed.                         *)
LEMMA BindTypes ==
    ASSUME TypeOK, NEW names, NEW file \in Entries, Bind(names, file)
    PROVE  dir' \in [Names -> Entries] /\ dirDisk' \in [Names -> SUBSET Entries]
PROOF
  BY DEF TypeOK, Bind

(* An error return keeps the types.                                         *)
LEMMA AbortTypes ==
    ASSUME TypeOK, NEW p \in Exports, NEW names \in SUBSET Names, NEW kept,
           Abort(p, names, kept)
    PROVE  TypeOK'
PROOF
  <1>1. dir' \in [Names -> Entries] /\ dirDisk' \in [Names -> SUBSET Entries]
    BY BindTypes DEF Abort, Entries
  <1>2. pc' \in [Exports -> Building \cup Publishing \cup {"failed", "done"}]
    BY DEF Abort, Goto, TypeOK
  <1>3. guards' \in [Exports -> SUBSET Artifacts]
    BY DEF Abort, TypeOK
  <1>4. result' \in [Exports -> {"none", "ok", "error"}]
        /\ reported' \in [Exports -> SUBSET Names]
    BY DEF Abort, TypeOK
  <1>5. UNCHANGED <<sourceVars, art, at, seen, touched, fileVars, strength, faults>>
    BY DEF Abort
  <1> QED
    BY <1>1, <1>2, <1>3, <1>4, <1>5 DEF TypeOK, sourceVars, fileVars

(* Every step keeps the types.                                              *)
LEMMA TypeStep == TypeOK /\ StageInv /\ [Next]_vars => TypeOK'
PROOF
  <1> SUFFICES ASSUME TypeOK, StageInv, [Next]_vars PROVE TypeOK'
    OBVIOUS
  <1> USE DEF Goto
  <1>1. ASSUME NEW p \in Exports, Start(p) PROVE TypeOK'
    BY <1>1 DEF Start, TypeOK, sourceVars, nameVars, fileVars, endVars, Building, Scans
  <1>2. ASSUME NEW p \in Exports, ReadChunk(p) PROVE TypeOK'
    <2>1. at' \in [Exports -> 1 .. Chunks + 1]
      BY <1>2, ExportAssumption DEF ExportAssumption, ReadChunk, TypeOK
    <2>2. seen' \in [Exports -> [Scans -> Contents]]
      <3>1. src[at[p]] \in Nat
        BY <1>2, ExportAssumption DEF ExportAssumption, ReadChunk, TypeOK, Contents
      <3>2. Record(pc[p]) \in Scans
        BY <1>2 DEF ReadChunk, Record, Scans
      <3>3. [seen[p][Record(pc[p])] EXCEPT ![at[p]] = src[at[p]]] \in Contents
        <4>1. seen[p][Record(pc[p])] \in [1 .. Chunks -> Nat]
          BY <3>2 DEF TypeOK, Contents
        <4> QED
          BY <3>1, <4>1 DEF Contents
      <3>4. [seen[p] EXCEPT ![Record(pc[p])][at[p]] = src[at[p]]] \in [Scans -> Contents]
        BY <3>2, <3>3 DEF TypeOK
      <3> QED
        BY <1>2, <3>4 DEF ReadChunk, TypeOK
    <2> QED
      BY <1>2, <2>1, <2>2 DEF ReadChunk, TypeOK, sourceVars, nameVars, fileVars, endVars
  <1>3. ASSUME NEW p \in Exports, EndScan(p) PROVE TypeOK'
    <2>1. AfterScan(p) \in Building
      BY <1>3 DEF EndScan, AfterScan, Building, Scans
    <2> QED
      BY <1>3, <2>1, ExportAssumption DEF ExportAssumption, EndScan, TypeOK, Artifacts,
            sourceVars, nameVars, fileVars, endVars
  <1>4. ASSUME NEW p \in Exports, Create(p) \/ CreateUnlocked(p) PROVE TypeOK'
    <2>1. Partial(p) \in Entries /\ art[p] \in Artifacts
      BY FileFacts DEF Partial, TypeOK
    <2>2. dir' \in [Names -> Entries] /\ dirDisk' \in [Names -> SUBSET Entries]
      BY <1>4, <2>1, BindTypes DEF Create, CreateUnlocked, Partial
    <2>3. pc' \in [Exports -> Building \cup Publishing \cup {"failed", "done"}]
      BY <1>4 DEF Create, CreateUnlocked, TypeOK, Building, Scans
    <2>4. guards' \in [Exports -> SUBSET Artifacts]
      <3>1. guards[p] \cup {art[p]} \in SUBSET Artifacts /\ guards \in [Exports -> SUBSET Artifacts]
        BY <2>1 DEF TypeOK
      <3>2. guards' \in {guards, [guards EXCEPT ![p] = guards[p] \cup {art[p]}]}
        BY <1>4 DEF Create, CreateUnlocked
      <3> QED
        BY <3>1, <3>2
    <2> QED
      BY <1>4, <2>2, <2>3, <2>4 DEF Create, CreateUnlocked, TypeOK, sourceVars,
            fileVars, endVars
  <1>5. ASSUME NEW p \in Exports, Flush(p) \/ Verify(p) PROVE TypeOK'
    <2>1. Partial(p) \in Files /\ <<p, "candidate">> \in Files /\ <<p, "escrow">> \in Files
      BY FileFacts DEF Partial, TypeOK, Artifacts
    <2>2. pc' \in [Exports -> Building \cup Publishing \cup {"failed", "done"}]
      BY <1>5 DEF Flush, Verify, TypeOK, Building, Scans
    <2>3. /\ complete' \in SUBSET Files /\ flushed' \in SUBSET Files
          /\ verified' \in SUBSET Files
      BY <1>5, <2>1 DEF Flush, Verify, TypeOK, Partial
    <2> QED
      BY <1>5, <2>2, <2>3 DEF Flush, Verify, TypeOK, sourceVars, nameVars, endVars
  <1>6. ASSUME NEW p \in Exports, Ready(p) PROVE TypeOK'
    BY <1>6 DEF Ready, TypeOK, Artifacts, Publishing, sourceVars, nameVars, fileVars,
          endVars
  <1>7. ASSUME NEW p \in Exports, Stop(p) PROVE TypeOK'
    BY <1>7, AbortTypes DEF Stop
  <1>8. ASSUME NEW p \in Exports, NEW names \in SUBSET {Partial(p), Final(p)},
               NEW kept, Abort(p, names, kept)
        PROVE  TypeOK'
    BY <1>8, AbortTypes, FinalFacts
  <1>9. ASSUME NEW p \in Exports, Check(p) PROVE TypeOK'
    <2>1. CASE \E names \in {{}, {Partial(p)}} : Abort(p, names, {art[p]})
      BY <2>1, <1>8
    <2>2. CASE ~\E names \in {{}, {Partial(p)}} : Abort(p, names, {art[p]})
      <3>1. /\ guards' = [guards EXCEPT ![p] = @ \ {art[p]}]
            /\ pc' = [pc EXCEPT ![p] = "link"]
            /\ UNCHANGED <<sourceVars, art, at, seen, nameVars, fileVars, endVars, faults>>
        BY <1>9, <2>2 DEF Check
      <3>2. guards' \in [Exports -> SUBSET Artifacts]
        BY <3>1 DEF TypeOK
      <3> QED
        BY <3>1, <3>2 DEF TypeOK, Publishing, sourceVars, nameVars, fileVars, endVars
    <2> QED
      BY <2>1, <2>2
  <1>10. ASSUME NEW p \in Exports, Link(p) PROVE TypeOK'
    <2>1. CASE Abort(p, {Partial(p), Final(p)}, {})
      BY <2>1, <1>8
    <2>2. CASE ~Abort(p, {Partial(p), Final(p)}, {})
      <3>1. dir[Partial(p)] \in Entries
        BY FinalFacts DEF TypeOK
      <3>2. dir' \in [Names -> Entries] /\ dirDisk' \in [Names -> SUBSET Entries]
        BY <1>10, <2>2, <3>1, BindTypes DEF Link
      <3> QED
        BY <1>10, <2>2, <3>2 DEF Link, TypeOK, Publishing, sourceVars, fileVars, endVars
    <2> QED
      BY <2>1, <2>2
  <1>11. ASSUME NEW p \in Exports, Inspect(p) PROVE TypeOK'
    <2>1. CASE Abort(p, {Partial(p), Final(p)}, {})
      BY <2>1, <1>8
    <2>2. CASE ~Abort(p, {Partial(p), Final(p)}, {})
      BY <1>11, <2>2 DEF Inspect, TypeOK, Publishing, sourceVars, nameVars, fileVars,
            endVars
    <2> QED
      BY <2>1, <2>2
  <1>12. ASSUME NEW p \in Exports, NEW outcome, SyncParent(p, outcome)
         PROVE  dirDisk' \in [Names -> SUBSET Entries] /\ dir' = dir
    BY <1>12 DEF SyncParent, TypeOK
  <1>13. ASSUME NEW p \in Exports, Sync(p) PROVE TypeOK'
    <2>1. CASE Abort(p, {Partial(p), Final(p)}, {})
      BY <2>1, <1>8
    <2>2. CASE ~Abort(p, {Partial(p), Final(p)}, {})
      <3>1. PICK outcome \in SyncOutcomes :
               /\ SyncParent(p, outcome)
               /\ strength' = [strength EXCEPT ![p][art[p]] = outcome]
               /\ pc' = [pc EXCEPT ![p] = "remove"]
               /\ UNCHANGED <<art, result>>
        BY <1>13, <2>2 DEF Sync
      <3>2. outcome \in {"synchronized", "unsupported"}
        BY ExportAssumption DEF ExportAssumption
      <3>3. strength' \in [Exports -> [Artifacts -> {"synchronized", "unsupported"}]]
        BY <3>1, <3>2 DEF TypeOK
      <3> QED
        BY <3>1, <3>3, <1>12 DEF SyncParent, TypeOK, Publishing, sourceVars, fileVars
    <2> QED
      BY <2>1, <2>2
  <1>14. ASSUME NEW p \in Exports, Remove(p) PROVE TypeOK'
    <2>1. CASE Abort(p, {Partial(p), Final(p)}, {})
      BY <2>1, <1>8
    <2>2. CASE ~Abort(p, {Partial(p), Final(p)}, {})
      <3>1. dir' \in [Names -> Entries] /\ dirDisk' \in [Names -> SUBSET Entries]
        BY <1>14, <2>2, BindTypes DEF Remove, Entries
      <3> QED
        BY <1>14, <2>2, <3>1 DEF Remove, TypeOK, Publishing, sourceVars, fileVars, endVars
    <2> QED
      BY <2>1, <2>2
  <1>15. ASSUME NEW p \in Exports, Resync(p) PROVE TypeOK'
    <2>1. CASE Abort(p, {Partial(p), Final(p)}, {})
      BY <2>1, <1>8
    <2>2. CASE ~Abort(p, {Partial(p), Final(p)}, {})
      <3>1. PICK outcome \in SyncOutcomes :
               /\ SyncParent(p, outcome)
               /\ strength' = [strength EXCEPT ![p][art[p]] = Combine(@, outcome)]
               /\ art' = [art EXCEPT ![p] = "candidate"]
               /\ pc' = [pc EXCEPT ![p] = IF art[p] = "escrow" THEN "check" ELSE "done"]
               /\ result' = [result EXCEPT ![p] = IF art[p] = "escrow" THEN @ ELSE "ok"]
        BY <1>15, <2>2 DEF Resync
      <3>2. strength' \in [Exports -> [Artifacts -> {"synchronized", "unsupported"}]]
        BY <3>1 DEF TypeOK, Combine
      <3>3. result' \in [Exports -> {"none", "ok", "error"}]
            /\ art' \in [Exports -> Artifacts]
            /\ pc' \in [Exports -> Building \cup Publishing \cup {"failed", "done"}]
        BY <3>1 DEF TypeOK, Artifacts, Publishing
      <3> QED
        BY <3>1, <3>2, <3>3, <1>12 DEF SyncParent, TypeOK, sourceVars, fileVars
    <2> QED
      BY <2>1, <2>2
  <1>16. ASSUME NEW c \in 1 .. Chunks, Edit(c) PROVE TypeOK'
    <2>1. noticed' \in BOOLEAN
      BY <1>16 DEF Edit, TypeOK
    <2>2. edits' \in Nat /\ src' \in Contents
      BY <1>16 DEF Edit, TypeOK, Contents
    <2> QED
      BY <1>16, <2>1, <2>2 DEF Edit, TypeOK, nameVars, fileVars, endVars
  <1>17. ASSUME NEW n \in Names, Meddle(n) PROVE TypeOK'
    <2>1. dir' \in [Names -> Entries] /\ dirDisk' \in [Names -> SUBSET Entries]
      BY <1>17, BindTypes DEF Meddle, Entries
    <2> QED
      BY <1>17, <2>1 DEF Meddle, Fault, TypeOK, sourceVars, fileVars, endVars
  <1>18. ASSUME NEW p \in Exports, Exit(p) PROVE TypeOK'
    BY <1>18 DEF Exit, Fault, TypeOK, sourceVars, nameVars, fileVars, endVars
  <1>19. CASE PowerLoss
    <2>1. dir' \in [Names -> Entries]
      BY <1>19 DEF PowerLoss, TypeOK
    <2>2. dirDisk' \in [Names -> SUBSET Entries]
      BY <1>19, <2>1 DEF PowerLoss
    <2> QED
      BY <1>19, <2>1, <2>2 DEF PowerLoss, Fault, TypeOK, sourceVars, fileVars, endVars
  <1>20. CASE UNCHANGED vars
    BY <1>20 DEF vars, TypeOK, sourceVars, nameVars, fileVars, endVars
  <1> QED
    BY <1>1, <1>2, <1>3, <1>4, <1>5, <1>6, <1>7, <1>9, <1>10, <1>11, <1>13, <1>14,
       <1>15, <1>16, <1>17, <1>18, <1>19, <1>20
       DEF Next, Build, Publish, Environment

-----------------------------------------------------------------------------
(* What the steps of an export leave alone.                                 *)

(* An error return touches only the names of the export's own partials.     *)
LEMMA AbortFrame ==
    ASSUME TypeOK, NEW p \in Exports, NEW names, NEW kept, Abort(p, names, kept)
    PROVE  /\ UNCHANGED <<src, noticed, edits, at, seen, touched, complete, flushed,
                          verified, art, strength, faults>>
           /\ pc' = [pc EXCEPT ![p] = "done"]
           /\ result' = [result EXCEPT ![p] = "error"]
           /\ \E gone \in SUBSET {<<p, a>> : a \in Artifacts} : Bind(gone, Free)
PROOF
  <1>1. guards[p] \subseteq Artifacts
    BY DEF TypeOK
  <1> QED
    BY <1>1 DEF Abort, Goto, sourceVars, fileVars

(* A step of a publication: the next step, an error, or success.            *)
LEMMA PublishFrame ==
    ASSUME TypeOK, NEW p \in Exports, Publish(p)
    PROVE  /\ UNCHANGED <<src, noticed, edits, at, seen, touched, complete, flushed,
                          verified, faults>>
           /\ pc[p] \in Publishing
           /\ \/ /\ \E label \in Publishing : pc' = [pc EXCEPT ![p] = label]
                 /\ result' = result
                 /\ art' \in {art, [art EXCEPT ![p] = "candidate"]}
              \/ /\ pc' = [pc EXCEPT ![p] = "done"]
                 /\ result' = [result EXCEPT ![p] = "error"] /\ art' = art
              \/ /\ pc' = [pc EXCEPT ![p] = "done"]
                 /\ result' = [result EXCEPT ![p] = "ok"]
                 /\ art' = [art EXCEPT ![p] = "candidate"]
PROOF
  <1> USE DEF Publishing
  <1>0. pc[p] \in Publishing
    BY DEF Publish, Check, Link, Inspect, Sync, Remove, Resync
  <1>1. CASE \E names, kept : Abort(p, names, kept)
    BY <1>0, <1>1, AbortFrame
  <1>2. CASE ~\E names, kept : Abort(p, names, kept)
    <2>1. CASE Check(p) \/ Link(p) \/ Inspect(p) \/ Remove(p)
      BY <1>0, <1>2, <2>1 DEF Check, Link, Inspect, Remove, Goto, sourceVars,
            nameVars, fileVars, endVars
    <2>2. CASE Sync(p)
      BY <1>0, <1>2, <2>2 DEF Sync, SyncParent, Goto, sourceVars, fileVars
    <2>3. CASE Resync(p)
      <3>1. PICK outcome \in SyncOutcomes :
               /\ SyncParent(p, outcome)
               /\ art' = [art EXCEPT ![p] = "candidate"]
               /\ pc' = [pc EXCEPT ![p] = IF art[p] = "escrow" THEN "check" ELSE "done"]
               /\ result' = [result EXCEPT ![p] = IF art[p] = "escrow" THEN @ ELSE "ok"]
        BY <1>2, <2>3 DEF Resync, Goto
      <3>2. result = [result EXCEPT ![p] = result[p]]
        BY DEF TypeOK
      <3> QED
        BY <1>0, <3>1, <3>2 DEF SyncParent, sourceVars, fileVars
    <2> QED
      BY <2>1, <2>2, <2>3 DEF Publish
  <1> QED
    BY <1>1, <1>2

(* The stages of an export follow one another.                              *)
LEMMA StageStep == TypeOK /\ StageInv /\ [Next]_vars => StageInv'
PROOF
  <1> SUFFICES ASSUME TypeOK, StageInv, [Next]_vars PROVE StageInv'
    OBVIOUS
  <1> USE DEF Goto, StageInv, Scans
  <1>1. ASSUME NEW p \in Exports, Start(p) \/ ReadChunk(p) \/ Create(p)
                  \/ CreateUnlocked(p) \/ Flush(p) \/ Verify(p)
        PROVE  StageInv'
    <2>1. result' = result /\ art' = art /\ pc[p] # "done"
      BY <1>1 DEF Start, ReadChunk, Create, CreateUnlocked, Flush, Verify, endVars, Scans
    <2> QED
      BY <1>1, <2>1 DEF Start, ReadChunk, Create, CreateUnlocked, Flush, Verify,
            TypeOK, Scans, Artifacts
  <1>7. ASSUME NEW p \in Exports, Ready(p) PROVE StageInv'
    BY <1>7 DEF Ready, TypeOK, endVars
  <1>2. ASSUME NEW p \in Exports, EndScan(p) PROVE StageInv'
    BY <1>2 DEF EndScan, AfterScan, TypeOK, Scans, Artifacts, endVars
  <1>3. ASSUME NEW p \in Exports, Stop(p) PROVE StageInv'
    BY <1>3, AbortFrame DEF Stop, TypeOK
  <1>4. ASSUME NEW p \in Exports, Publish(p) PROVE StageInv'
    <2>1. /\ pc \in [Exports -> Building \cup Publishing \cup {"failed", "done"}]
          /\ art \in [Exports -> Artifacts]
          /\ result \in [Exports -> {"none", "ok", "error"}]
      BY DEF TypeOK
    <2>2. CASE /\ \E label \in Publishing : pc' = [pc EXCEPT ![p] = label]
               /\ result' = result /\ pc[p] \in Publishing
               /\ art' \in {art, [art EXCEPT ![p] = "candidate"]}
      BY <2>1, <2>2 DEF Publishing
    <2>3. CASE /\ pc' = [pc EXCEPT ![p] = "done"]
               /\ \E r \in {"error", "ok"} : result' = [result EXCEPT ![p] = r]
               /\ art' \in {art, [art EXCEPT ![p] = "candidate"]}
      BY <2>1, <2>3
    <2> QED
      BY <1>4, <2>2, <2>3, PublishFrame
  <1>5. CASE Environment
    BY <1>5 DEF Environment, Edit, Meddle, Exit, PowerLoss, endVars, TypeOK
  <1>6. CASE UNCHANGED vars
    BY <1>6 DEF vars, endVars
  <1> QED
    BY <1>1, <1>2, <1>3, <1>4, <1>5, <1>6, <1>7 DEF Next, Build

-----------------------------------------------------------------------------
(* The evidence.                                                            *)

(* The evidence of an export that a step does not concern stays.            *)
LEMMA EvidenceFrame ==
    ASSUME NEW q \in Exports, Evidence(q), pc'[q] = pc[q], at'[q] = at[q],
           seen'[q] = seen[q], art'[q] = art[q], result'[q] = result[q]
    PROVE  Evidence(q)'
PROOF
  BY DEF Evidence, Proven, Copied, Hashed, Passed

(* A chunk that is read now is at least as new as all that was read of it.  *)
LEMMA EvidenceRead ==
    ASSUME TypeOK, StageInv, EvidenceInv, NEW p \in Exports, ReadChunk(p)
    PROVE  EvidenceInv'
PROOF
  <1> DEFINE r == Record(pc[p])
             c0 == at[p]
  <1>1. /\ UNCHANGED <<src, edits, pc, art, result>>
        /\ pc[p] \in Scans /\ c0 \in 1 .. Chunks
        /\ at' = [at EXCEPT ![p] = @ + 1]
    BY ExportAssumption DEF ExportAssumption, ReadChunk, sourceVars, endVars, TypeOK
  <1>2. r \in Scans /\ r # "relocate"
    BY <1>1 DEF Record, Scans
  <1>3. \A q \in Exports, s \in Scans : seen[q][s] \in Contents
    BY DEF TypeOK
  <1>4. src \in Contents /\ at \in [Exports -> 1 .. Chunks + 1] /\ Chunks \in Nat
    BY ExportAssumption DEF ExportAssumption, TypeOK
  <1>5. \/ seen' = seen /\ pc[p] = "relocate"
        \/ seen' = [seen EXCEPT ![p][r][c0] = src[c0]]
    BY DEF ReadChunk
  <1>6. /\ \A q \in Exports \ {p} : seen'[q] = seen[q] /\ at'[q] = at[q]
        /\ \A s \in Scans \ {r} : seen'[p][s] = seen[p][s]
        /\ \A c \in 1 .. Chunks \ {c0} : seen'[p][r][c] = seen[p][r][c]
        /\ seen'[p][r][c0] = src[c0] \/ (seen' = seen /\ pc[p] = "relocate")
        /\ at'[p] = c0 + 1
    <2>1. at'[p] = c0 + 1 /\ \A q \in Exports \ {p} : at'[q] = at[q]
      BY <1>1, <1>4
    <2>2. CASE seen' = seen /\ pc[p] = "relocate"
      BY <2>1, <2>2
    <2>3. CASE seen' = [seen EXCEPT ![p][r][c0] = src[c0]]
      <3>1. seen \in [Exports -> [Scans -> Contents]]
        BY DEF TypeOK
      <3>2. seen'[p] = [seen[p] EXCEPT ![r][c0] = src[c0]]
            /\ \A q \in Exports \ {p} : seen'[q] = seen[q]
        BY <2>3, <3>1
      <3>3. seen'[p][r] = [seen[p][r] EXCEPT ![c0] = src[c0]]
            /\ \A s \in Scans \ {r} : seen'[p][s] = seen[p][s]
        BY <1>2, <3>1, <3>2
      <3>4. seen[p][r] \in [1 .. Chunks -> Nat]
        BY <1>2, <1>3 DEF Contents
      <3> QED
        BY <1>1, <2>1, <3>2, <3>3, <3>4
    <2> QED
      BY <1>5, <2>2, <2>3
  <1>7. \A q \in Exports, s \in Scans, c \in 1 .. Chunks : seen'[q][s][c] <= src[c]
    <2> SUFFICES ASSUME NEW q \in Exports, NEW s \in Scans, NEW c \in 1 .. Chunks
                 PROVE  seen'[q][s][c] <= src[c]
      OBVIOUS
    <2>1. seen[q][s][c] <= src[c] /\ src[c] \in Nat
      BY <1>4 DEF EvidenceInv, Contents
    <2> QED
      BY <1>6, <2>1
  <1>8. \A q \in Exports \ {p} : Evidence(q)'
    BY <1>1, <1>6, EvidenceFrame DEF EvidenceInv
  <1>9. Evidence(p)'
    <2>1. Evidence(p) /\ ~Proven(p) /\ ~Proven(p)'
      BY <1>1 DEF EvidenceInv, Proven, StageInv, Scans, Publishing
    <2>2. (Hashed(p)' <=> Hashed(p)) /\ (Copied(p)' <=> Copied(p))
      BY <1>1, <2>1 DEF Hashed, Copied
    <2>3. Hashed(p)' => seen'[p]["hash"] = seen[p]["hash"]
      <3>1. CASE r = "hash"
        BY <1>1, <2>1, <2>2, <3>1 DEF Hashed, Copied, Record
      <3>2. CASE r # "hash"
        BY <1>6, <3>2 DEF Scans
      <3> QED
        BY <3>1, <3>2
    <2>4. ASSUME NEW c \in 1 .. Chunks, Copied(p)' \/ Passed(p, "copy", c)'
          PROVE  seen'[p]["hash"][c] <= seen'[p]["copy"][c]
      <3>1. seen'[p]["hash"] = seen[p]["hash"] /\ seen[p]["hash"][c] \in Nat
        BY <1>3, <2>1, <2>2, <2>3, <2>4 DEF Hashed, Copied, Passed, Contents, Scans
      <3>2. seen[p]["hash"][c] <= src[c] /\ src[c] \in Nat
        BY <1>4 DEF EvidenceInv, Contents, Scans
      <3>3. CASE seen'[p]["copy"][c] = src[c]
        BY <3>1, <3>2, <3>3
      <3>4. CASE seen'[p]["copy"][c] # src[c]
        <4>1. seen'[p]["copy"][c] = seen[p]["copy"][c]
          BY <1>6, <3>4 DEF Scans
        <4>2. Copied(p) \/ Passed(p, "copy", c)
          <5>1. CASE pc[p] = "copy"
            <6>1. r = "copy"
              BY <5>1 DEF Record
            <6>2. c # c0
              BY <3>4, <6>1, <5>1, <1>6
            <6> QED
              BY <1>1, <1>4, <1>6, <2>2, <2>4, <5>1, <6>2 DEF Passed
          <5>2. CASE pc[p] # "copy"
            BY <1>1, <2>2, <2>4, <5>2 DEF Passed
          <5> QED
            BY <5>1, <5>2
        <4> QED
          BY <2>1, <3>1, <4>1, <4>2 DEF Evidence
      <3> QED
        BY <3>3, <3>4
    <2>5. ASSUME NEW c \in 1 .. Chunks, Passed(p, "after", c)'
          PROVE  seen'[p]["copy"][c] <= seen'[p]["after"][c]
      <3>1. pc[p] = "after" /\ r = "after" /\ c < c0 + 1
        BY <1>1, <1>6, <2>5 DEF Passed, Record
      <3>2. seen'[p]["copy"] = seen[p]["copy"]
        BY <1>6, <3>1 DEF Scans
      <3>3. CASE c = c0
        BY <1>5, <1>6, <3>1, <3>2, <3>3 DEF EvidenceInv, Scans
      <3>4. CASE c # c0
        <4>1. Passed(p, "after", c)
          BY <1>4, <3>1, <3>4 DEF Passed
        <4> QED
          BY <1>6, <2>1, <3>1, <3>2, <3>4, <4>1 DEF Evidence
      <3> QED
        BY <3>3, <3>4
    <2> QED
      BY <1>1, <2>1, <2>2, <2>3, <2>4, <2>5 DEF Evidence
  <1>10. \A c \in 1 .. Chunks : src'[c] <= edits'
    BY <1>1 DEF EvidenceInv
  <1> QED
    BY <1>1, <1>7, <1>8, <1>9, <1>10 DEF EvidenceInv

(* Contents with the same chunks are the same.                              *)
LEMMA SameContents ==
    ASSUME NEW f \in Contents, NEW g \in Contents,
           \A c \in 1 .. Chunks : f[c] = g[c]
    PROVE  f = g
PROOF
  <1> DEFINE S == 1 .. Chunks
  <1>1. f \in [S -> Nat] /\ g \in [S -> Nat] /\ \A c \in S : f[c] = g[c]
    BY DEF Contents
  <1> HIDE DEF S
  <1> QED
    BY <1>1

(* Every step keeps the evidence.                                           *)
LEMMA EvidenceStep ==
    TypeOK /\ StageInv /\ EvidenceInv /\ [Next]_vars => EvidenceInv'
PROOF
  <1> SUFFICES ASSUME TypeOK, StageInv, EvidenceInv, [Next]_vars PROVE EvidenceInv'
    OBVIOUS
  <1> DEFINE Frame == UNCHANGED <<src, edits, seen>>
             Only(p) == \A q \in Exports \ {p} :
                /\ pc'[q] = pc[q] /\ at'[q] = at[q] /\ art'[q] = art[q]
                /\ result'[q] = result[q]
  <1>1. ASSUME NEW p \in Exports, Frame, Only(p), Evidence(p)' PROVE EvidenceInv'
    <2>1. \A q \in Exports : Evidence(q)'
      BY <1>1, EvidenceFrame DEF EvidenceInv
    <2> QED
      BY <1>1, <2>1 DEF EvidenceInv
  <1>2. \A p \in Exports : Evidence(p) /\ (result[p] = "ok" => pc[p] = "done")
    BY DEF EvidenceInv, StageInv
  <1>3. /\ pc \in [Exports -> Building \cup Publishing \cup {"failed", "done"}]
        /\ art \in [Exports -> Artifacts] /\ at \in [Exports -> 1 .. Chunks + 1]
        /\ result \in [Exports -> {"none", "ok", "error"}]
        /\ Chunks \in Nat
    BY ExportAssumption DEF TypeOK, ExportAssumption
  <1> USE DEF Goto
  <1>4. ASSUME NEW p \in Exports, Start(p) PROVE EvidenceInv'
    <2>1. Frame /\ Only(p) /\ at' = at /\ pc'[p] = "manifest" /\ result' = result
          /\ pc[p] = "start"
      BY <1>4, <1>3 DEF Start, sourceVars, endVars
    <2>2. Evidence(p)'
      BY <1>2, <2>1 DEF Evidence, Proven, Copied, Hashed, Passed, Scans, Publishing
    <2> QED
      BY <1>1, <2>1, <2>2
  <1>5. ASSUME NEW p \in Exports, EndScan(p) PROVE EvidenceInv'
    <2>1. /\ Frame /\ Only(p) /\ at'[p] = 1 /\ pc'[p] = AfterScan(p)
          /\ result' = result /\ result[p] # "ok" /\ at[p] > Chunks /\ pc[p] \in Scans
          /\ art[p] = "candidate"
      BY <1>5, <1>2, <1>3, ExportAssumption DEF ExportAssumption, EndScan, sourceVars,
            endVars, StageInv, Scans
    <2>2. art'[p] = IF pc[p] = "after" /\ Esc[p] # NoPath THEN "escrow" ELSE art[p]
      BY <1>3, <1>5 DEF EndScan
    <2>3. Evidence(p)
      BY <1>2
    <2>4. \A c \in 1 .. Chunks : c < at[p]
      BY <1>3, <2>1
    <2>5. /\ seen[p]["hash"] \in [1 .. Chunks -> Nat]
          /\ seen[p]["copy"] \in [1 .. Chunks -> Nat]
      BY DEF TypeOK, Contents, Scans
    <2>6. CASE pc[p] = "manifest"
      <3>1. pc'[p] = "hash"
        BY <2>1, <2>6 DEF AfterScan
      <3> QED
        BY <1>1, <2>1, <3>1 DEF Evidence, Proven, Copied, Hashed, Passed, Scans,
              Publishing
    <2>7. CASE pc[p] = "hash"
      <3>1. pc'[p] = "create" /\ art'[p] = "candidate"
        BY <2>1, <2>2, <2>7 DEF AfterScan
      <3>2. p \in Relocated => seen[p]["hash"] = Planned
        BY <1>5, <2>7 DEF EndScan, ScanAccepted
      <3>3. Evidence(p)'
        BY <2>1, <3>1, <3>2 DEF Evidence, Proven, Copied, Hashed, Passed, Publishing
      <3> QED
        BY <1>1, <2>1, <3>3
    <2>8. CASE pc[p] \in {"copy", "relocate"}
      <3>1. pc'[p] \in {"relocate", "flush"} /\ art'[p] = "candidate"
        BY <2>1, <2>2, <2>8 DEF AfterScan
      <3>2. \A c \in 1 .. Chunks : seen[p]["hash"][c] <= seen[p]["copy"][c]
        BY <2>3, <2>4, <2>8 DEF Evidence, Passed, Copied
      <3>3. p \in Relocated => seen[p]["hash"] = Planned
        BY <2>3, <2>8 DEF Evidence, Hashed, Copied
      <3>4. Evidence(p)'
        BY <2>1, <3>1, <3>2, <3>3 DEF Evidence, Proven, Copied, Hashed, Passed, Publishing
      <3> QED
        BY <1>1, <2>1, <3>4
    <2>9. CASE pc[p] = "after"
      <3>1. pc'[p] \in {"ready", "create"} /\ (pc'[p] = "create" => art'[p] = "escrow")
        BY <2>1, <2>2, <2>9 DEF AfterScan
      <3>2. seen[p]["after"] = seen[p]["hash"]
        BY <1>5, <2>9 DEF EndScan, ScanAccepted
      <3>3. \A c \in 1 .. Chunks : /\ seen[p]["hash"][c] <= seen[p]["copy"][c]
                                   /\ seen[p]["copy"][c] <= seen[p]["after"][c]
        BY <2>3, <2>4, <2>9 DEF Evidence, Passed, Copied
      <3>4. ASSUME NEW c \in 1 .. Chunks PROVE seen[p]["copy"][c] = seen[p]["hash"][c]
        <4>1. seen[p]["copy"][c] \in Nat /\ seen[p]["hash"][c] \in Nat
          BY <2>5
        <4> QED
          BY <3>2, <3>3, <4>1
      <3>5. seen[p]["copy"] = seen[p]["hash"]
        BY <2>5, <3>4, SameContents DEF Contents
      <3>6. p \in Relocated => seen[p]["hash"] = Planned
        BY <2>3, <2>9 DEF Evidence, Hashed, Copied
      <3>7. Evidence(p)'
        BY <2>1, <3>1, <3>3, <3>5, <3>6 DEF Evidence, Proven, Copied, Hashed, Passed
      <3> QED
        BY <1>1, <2>1, <3>7
    <2> QED
      BY <2>1, <2>6, <2>7, <2>8, <2>9 DEF Scans
  <1>6. ASSUME NEW p \in Exports, Create(p) \/ CreateUnlocked(p) PROVE EvidenceInv'
    <2>1. /\ Frame /\ Only(p) /\ at' = at /\ art' = art /\ result' = result
          /\ pc[p] = "create"
          /\ pc'[p] \in {"failed", IF art[p] = "candidate" THEN "copy" ELSE "flush"}
      BY <1>6, <1>3 DEF Create, CreateUnlocked, sourceVars, endVars
    <2>2. art[p] \in {"candidate", "escrow"} /\ result[p] # "ok" /\ at[p] = 1
      BY <1>2, <1>3, <2>1 DEF Artifacts, Evidence, Scans
    <2>3. Evidence(p)'
      BY <1>2, <2>1, <2>2 DEF Evidence, Proven, Copied, Hashed, Passed, Scans, Publishing
    <2> QED
      BY <1>1, <2>1, <2>3
  <1>7. ASSUME NEW p \in Exports, Flush(p) \/ Verify(p) \/ Ready(p) PROVE EvidenceInv'
    <2>1. /\ Frame /\ Only(p) /\ at' = at /\ result' = result /\ result[p] # "ok"
          /\ \/ pc[p] = "flush" /\ art[p] = "candidate" /\ pc'[p] = "verify"
             \/ pc[p] = "flush" /\ art[p] = "escrow" /\ pc'[p] = "ready"
             \/ pc[p] = "verify" /\ pc'[p] = "after" /\ art' = art
             \/ pc[p] = "ready" /\ pc'[p] = "check"
      BY <1>7, <1>2, <1>3 DEF Flush, Verify, Ready, sourceVars, endVars, Artifacts
    <2>2. at[p] = 1
      BY <1>2, <2>1 DEF Evidence, Scans
    <2>3. Evidence(p)'
      BY <1>2, <2>1, <2>2 DEF Evidence, Proven, Copied, Hashed, Passed, Scans, Publishing
    <2> QED
      BY <1>1, <2>1, <2>3
  <1>8. ASSUME NEW p \in Exports, Stop(p) PROVE EvidenceInv'
    <2>1. /\ Frame /\ Only(p) /\ pc'[p] = "done" /\ result'[p] = "error"
      BY <1>8, <1>3, AbortFrame DEF Stop
    <2>2. Evidence(p)'
      BY <2>1 DEF Evidence, Proven, Copied, Hashed, Passed, Publishing
    <2> QED
      BY <1>1, <2>1, <2>2
  <1>9. ASSUME NEW p \in Exports, Publish(p) PROVE EvidenceInv'
    <2>1. /\ Frame /\ at' = at /\ pc[p] \in Publishing
          /\ \/ \E label \in Publishing : pc' = [pc EXCEPT ![p] = label]
             \/ pc' = [pc EXCEPT ![p] = "done"]
          /\ \E r \in {result[p], "error", "ok"} : result' = [result EXCEPT ![p] = r]
          /\ art' \in {art, [art EXCEPT ![p] = "candidate"]}
      BY <1>9, <1>3, PublishFrame
    <2>2. Only(p) /\ pc'[p] \in Publishing \cup {"done"}
      BY <1>3, <2>1
    <2>3. Evidence(p)'
      BY <1>2, <2>1, <2>2 DEF Evidence, Proven, Copied, Hashed, Passed, Scans, Publishing
    <2> QED
      BY <1>1, <2>1, <2>2, <2>3
  <1>10. ASSUME NEW c \in 1 .. Chunks, Edit(c) PROVE EvidenceInv'
    <2>1. /\ src' = [src EXCEPT ![c] = edits'] /\ edits' = edits + 1
          /\ UNCHANGED <<pc, at, seen, art, result>>
          /\ src \in [1 .. Chunks -> Nat] /\ edits \in Nat
      BY <1>10 DEF Edit, TypeOK, endVars, Contents
    <2>2. \A d \in 1 .. Chunks : src[d] <= src'[d] /\ src'[d] <= edits'
      BY <2>1 DEF EvidenceInv
    <2>3. \A q \in Exports, s \in Scans, d \in 1 .. Chunks : seen'[q][s][d] <= src'[d]
      <3> SUFFICES ASSUME NEW q \in Exports, NEW s \in Scans, NEW d \in 1 .. Chunks
                   PROVE  seen[q][s][d] <= src'[d]
        BY <2>1
      <3>1. src[d] \in Nat /\ src'[d] \in Nat
        BY <2>1
      <3>2. seen[q][s] \in [1 .. Chunks -> Nat]
        BY DEF TypeOK, Contents
      <3>3. seen[q][s][d] \in Nat
        BY <3>2
      <3>4. seen[q][s][d] <= src[d] /\ src[d] <= src'[d]
        BY <2>2 DEF EvidenceInv
      <3> QED
        BY <3>1, <3>3, <3>4
    <2>4. \A q \in Exports : Evidence(q)'
      BY <2>1, EvidenceFrame DEF EvidenceInv
    <2> QED
      BY <2>2, <2>3, <2>4 DEF EvidenceInv
  <1>11. ASSUME NEW n \in Names, Meddle(n) PROVE EvidenceInv'
    <2>1. Frame /\ UNCHANGED <<pc, at, art, result>>
      BY <1>11 DEF Meddle, sourceVars, endVars
    <2>2. \A q \in Exports : Evidence(q)'
      BY <2>1, EvidenceFrame DEF EvidenceInv
    <2> QED
      BY <2>1, <2>2 DEF EvidenceInv
  <1>12. ASSUME NEW p \in Exports, Exit(p) PROVE EvidenceInv'
    <2>1. Frame /\ Only(p) /\ pc'[p] = "done" /\ result'[p] # "ok"
      BY <1>12, <1>2, <1>3 DEF Exit, sourceVars, endVars
    <2>2. Evidence(p)'
      BY <2>1 DEF Evidence, Proven, Copied, Hashed, Passed, Publishing
    <2> QED
      BY <1>1, <2>1, <2>2
  <1>13. CASE PowerLoss
    <2>1. Frame /\ result' = result /\ \A q \in Exports : pc'[q] = "done"
      BY <1>13 DEF PowerLoss, sourceVars, endVars
    <2>2. \A q \in Exports : Evidence(q)'
      BY <1>2, <2>1 DEF Evidence, Proven, Copied, Hashed, Passed, Publishing
    <2> QED
      BY <2>1, <2>2 DEF EvidenceInv
  <1>14. CASE UNCHANGED vars
    <2>1. Frame /\ UNCHANGED <<pc, at, art, result>>
      BY <1>14 DEF vars, sourceVars, endVars
    <2>2. \A q \in Exports : Evidence(q)'
      BY <2>1, EvidenceFrame DEF EvidenceInv
    <2> QED
      BY <2>1, <2>2 DEF EvidenceInv
  <1> QED
    BY <1>4, <1>5, <1>6, <1>7, <1>8, <1>9, <1>10, <1>11, <1>12, <1>13, <1>14,
       EvidenceRead DEF Next, Build, Environment

-----------------------------------------------------------------------------
(* Directory entries.                                                       *)

(* The ways in which a step changes the entries of directories.             *)
LEMMA NameCases ==
    ASSUME TypeOK, StageInv, [Next]_vars
    PROVE  \/ UNCHANGED <<dir, dirDisk, touched>>
           \/ \E p \in Exports : \E gone \in SUBSET {<<p, a>> : a \in Artifacts} :
                 Bind(gone, Free) /\ touched' = touched
           \/ \E p \in Exports :
                 /\ pc[p] = "create" /\ art' = art /\ touched' = touched
                 /\ Bind({Partial(p)}, Partial(p))
           \/ \E p \in Exports :
                 /\ pc[p] = "link" /\ pc' = [pc EXCEPT ![p] = "inspect"] /\ art' = art
                 /\ dir[Partial(p)] # Free /\ dir[Final(p)] = Free
                 /\ Bind({Final(p)}, dir[Partial(p)]) /\ touched' = touched
           \/ \E p \in Exports, outcome \in SyncOutcomes : SyncParent(p, outcome)
           \/ \E n \in Names : \E file \in {Foreign, Free} :
                 /\ Bind({n}, file) /\ touched' = touched \cup {n}
                 /\ faults' = faults + 1
           \/ PowerLoss
PROOF
  <1>1. ASSUME NEW p \in Exports, NEW names, NEW kept, Abort(p, names, kept)
        PROVE  \E gone \in SUBSET {<<p, a>> : a \in Artifacts} :
                  Bind(gone, Free) /\ touched' = touched
    BY <1>1, AbortFrame
  <1>2. ASSUME NEW p \in Exports, Start(p) \/ ReadChunk(p) \/ EndScan(p) \/ Flush(p)
                  \/ Verify(p) \/ Ready(p)
        PROVE  UNCHANGED <<dir, dirDisk, touched>>
    BY <1>2 DEF Start, ReadChunk, EndScan, Flush, Verify, Ready, nameVars
  <1>3. ASSUME NEW p \in Exports, Create(p) \/ CreateUnlocked(p)
        PROVE  /\ pc[p] = "create" /\ art' = art /\ touched' = touched
               /\ Bind({Partial(p)}, Partial(p))
    BY <1>3 DEF Create, CreateUnlocked, Partial
  <1>4. ASSUME NEW p \in Exports, Check(p) \/ Inspect(p)
        PROVE  \/ UNCHANGED <<dir, dirDisk, touched>>
               \/ \E names, kept : Abort(p, names, kept)
    BY <1>4 DEF Check, Inspect, nameVars
  <1>5. ASSUME NEW p \in Exports, Link(p)
        PROVE  \/ /\ pc[p] = "link" /\ pc' = [pc EXCEPT ![p] = "inspect"] /\ art' = art
                  /\ dir[Partial(p)] # Free /\ dir[Final(p)] = Free
                  /\ Bind({Final(p)}, dir[Partial(p)]) /\ touched' = touched
               \/ \E names, kept : Abort(p, names, kept)
    BY <1>5 DEF Link, Goto
  <1>6. ASSUME NEW p \in Exports, Sync(p) \/ Resync(p)
        PROVE  \/ \E outcome \in SyncOutcomes : SyncParent(p, outcome)
               \/ \E names, kept : Abort(p, names, kept)
    BY <1>6 DEF Sync, Resync
  <1>7. ASSUME NEW p \in Exports, Remove(p)
        PROVE  \/ \E gone \in SUBSET {<<p, a>> : a \in Artifacts} :
                     Bind(gone, Free) /\ touched' = touched
               \/ \E names, kept : Abort(p, names, kept)
    <2>1. {Partial(p)} \in SUBSET {<<p, a>> : a \in Artifacts}
      BY DEF Partial, TypeOK
    <2> QED
      BY <1>7, <2>1 DEF Remove
  <1>8. ASSUME NEW p \in Exports, Stop(p)
        PROVE  \E names, kept : Abort(p, names, kept)
    BY <1>8 DEF Stop
  <1>9. ASSUME NEW n \in Names, Meddle(n)
        PROVE  \E file \in {Foreign, Free} :
                  /\ Bind({n}, file) /\ touched' = touched \cup {n}
                  /\ faults' = faults + 1
    BY <1>9 DEF Meddle, Fault
  <1>10. ASSUME (\E c \in 1 .. Chunks : Edit(c)) \/ (\E p \in Exports : Exit(p))
         PROVE  UNCHANGED <<dir, dirDisk, touched>>
    BY <1>10 DEF Edit, Exit, nameVars
  <1>11. CASE UNCHANGED vars
    BY <1>11 DEF vars, nameVars
  <1>12. CASE \E p \in Exports : Build(p)
    BY <1>12, <1>1, <1>2, <1>3, <1>8 DEF Build
  <1>13. CASE \E p \in Exports : Publish(p)
    <2>1. PICK p \in Exports : Publish(p)
      BY <1>13
    <2>2. CASE \E names, kept : Abort(p, names, kept)
      BY <2>2, <1>1
    <2>3. CASE ~\E names, kept : Abort(p, names, kept)
      <3>1. CASE Check(p) \/ Inspect(p)
        BY <3>1, <2>3, <1>4
      <3>2. CASE Link(p)
        BY <3>2, <2>3, <1>5
      <3>3. CASE Sync(p) \/ Resync(p)
        BY <3>3, <2>3, <1>6
      <3>4. CASE Remove(p)
        BY <3>4, <2>3, <1>7
      <3> QED
        BY <2>1, <3>1, <3>2, <3>3, <3>4 DEF Publish
    <2> QED
      BY <2>2, <2>3
  <1>14. CASE Environment
    BY <1>14, <1>9, <1>10 DEF Environment
  <1> QED
    BY <1>11, <1>12, <1>13, <1>14 DEF Next

(* What binding some names to a file does.                                  *)
LEMMA BindFacts ==
    ASSUME TypeOK, NEW names, NEW file, Bind(names, file), NEW n \in Names
    PROVE  /\ n \in names => dir'[n] = file /\ dirDisk'[n] = dirDisk[n] \cup {file}
           /\ n \notin names => dir'[n] = dir[n] /\ dirDisk'[n] = dirDisk[n]
PROOF
  BY DEF Bind, TypeOK

(* What synchronizing a directory does.                                     *)
LEMMA SyncFacts ==
    ASSUME TypeOK, NEW p \in Exports, NEW outcome, SyncParent(p, outcome),
           NEW n \in Names
    PROVE  /\ dir' = dir /\ touched' = touched
           /\ outcome = "synchronized" /\ Parent(n) = Final(p) => dirDisk'[n] = {dir[n]}
           /\ dirDisk'[n] \in {dirDisk[n], {dir[n]}}
PROOF
  BY DEF SyncParent, TypeOK

(* What a power loss leaves.                                                *)
LEMMA PowerFacts ==
    ASSUME TypeOK, \A n \in Names : dir[n] \in dirDisk[n], PowerLoss, NEW n \in Names
    PROVE  dirDisk'[n] = {dir'[n]} /\ dir'[n] \in dirDisk[n] /\ touched' = touched
PROOF
  BY DEF PowerLoss, TypeOK

(* An entry of a final name is an old one, free, of another program, or the *)
(* partial of an export that links it now.                                  *)
LEMMA FoundStep ==
    ASSUME TypeOK, StageInv, NameInv, [Next]_vars, NEW n \in Paths, NEW f \in dirDisk'[n]
    PROVE  \/ f \in dirDisk[n] \cup {Free, Foreign}
           \/ \E p \in Exports :
                 /\ pc[p] = "link" /\ pc' = [pc EXCEPT ![p] = "inspect"] /\ art' = art
                 /\ n = Final(p) /\ f = Partial(p)
PROOF
  <1>1. n \in Names /\ n \notin Files
    BY ExportAssumption DEF ExportAssumption, Names
  <1>2. CASE UNCHANGED <<dir, dirDisk, touched>>
    BY <1>2
  <1>3. ASSUME NEW p \in Exports, NEW gone \in SUBSET {<<p, a>> : a \in Artifacts},
               Bind(gone, Free)
        PROVE  f \in dirDisk[n] \cup {Free}
    BY <1>1, <1>3, BindFacts
  <1>4. ASSUME NEW p \in Exports, Bind({Partial(p)}, Partial(p))
        PROVE  f \in dirDisk[n]
    BY <1>1, <1>4, BindFacts, FinalFacts
  <1>5. ASSUME NEW p \in Exports, Bind({Final(p)}, dir[Partial(p)])
        PROVE  f \in dirDisk[n] \cup {Free, Foreign} \/ (n = Final(p) /\ f = Partial(p))
    <2>1. dir[Partial(p)] \in {Partial(p), Free, Foreign}
      BY FinalFacts DEF NameInv
    <2> QED
      BY <1>1, <1>5, <2>1, BindFacts
  <1>6. ASSUME NEW p \in Exports, NEW outcome \in SyncOutcomes, SyncParent(p, outcome)
        PROVE  f \in dirDisk[n]
    BY <1>1, <1>6, SyncFacts DEF NameInv
  <1>7. ASSUME NEW m \in Names, NEW file \in {Foreign, Free}, Bind({m}, file)
        PROVE  f \in dirDisk[n] \cup {Free, Foreign}
    BY <1>1, <1>7, BindFacts
  <1>8. CASE PowerLoss
    BY <1>1, <1>8, PowerFacts DEF NameInv
  <1> QED
    BY <1>2, <1>3, <1>4, <1>5, <1>6, <1>7, <1>8, NameCases

(* A candidate that is linked stays linked.                                 *)
LEMMA UnlinkedStep ==
    ASSUME TypeOK, StageInv, [Next]_vars, NEW q \in Exports, Unlinked(q)'
    PROVE  Unlinked(q)
PROOF
  <1> SUFFICES ASSUME ~Unlinked(q) PROVE FALSE
    OBVIOUS
  <1>1. \/ pc[q] = "done"
        \/ pc[q] \in {"inspect", "sync", "remove", "resync"} /\ art[q] = "candidate"
    BY DEF Unlinked, TypeOK, Publishing, Artifacts
  <1>2. pc \in [Exports -> Building \cup Publishing \cup {"failed", "done"}]
        /\ art \in [Exports -> Artifacts]
    BY DEF TypeOK
  <1>3. ASSUME pc'[q] = "done" PROVE FALSE
    BY <1>3 DEF Unlinked, Building, Scans, Publishing
  <1>4. ASSUME pc'[q] = pc[q], art'[q] = art[q] PROVE FALSE
    BY <1>4, <1>1, <1>3 DEF Unlinked
  <1>5. ASSUME NEW p \in Exports, Build(p) PROVE FALSE
    <2>1. pc[p] \notin {"done", "inspect", "sync", "remove", "resync"}
      BY <1>5 DEF Build, Start, ReadChunk, EndScan, Create, CreateUnlocked, Flush, Verify,
            Ready, Stop, Cancellable, Building, Scans
    <2>2. p # q
      BY <1>1, <2>1
    <2>3. (\E label : pc' = [pc EXCEPT ![p] = label]) \/ pc' = pc
      BY <1>5 DEF Build, Start, ReadChunk, EndScan, Create, CreateUnlocked, Flush, Verify,
            Ready, Stop, Goto, Abort
    <2>4. (\E a : art' = [art EXCEPT ![p] = a]) \/ art' = art
      BY <1>5 DEF Build, Start, ReadChunk, EndScan, Create, CreateUnlocked, Flush, Verify,
            Ready, Stop, Goto, Abort
    <2> QED
      BY <1>2, <1>4, <2>2, <2>3, <2>4
  <1>6. ASSUME NEW p \in Exports, Publish(p) PROVE FALSE
    <2>1. CASE p # q
      <3>1. (\E label : pc' = [pc EXCEPT ![p] = label])
            /\ art' \in {art, [art EXCEPT ![p] = "candidate"]}
        BY <1>6, PublishFrame
      <3> QED
        BY <1>2, <1>4, <2>1, <3>1
    <2>2. CASE p = q
      <3>1. pc'[q] \in {"done", "sync", "remove", "resync"} /\ art'[q] = "candidate"
        <4>1. CASE \E names, kept : Abort(q, names, kept)
          BY <1>2, <1>3, <4>1, AbortFrame
        <4>2. CASE ~\E names, kept : Abort(q, names, kept)
          BY <1>1, <1>2, <1>6, <2>2, <4>2 DEF Publish, Check, Link, Inspect, Sync, Remove,
                Resync, Goto
        <4> QED
          BY <4>1, <4>2
      <3> QED
        BY <3>1 DEF Unlinked, Building, Scans, Publishing
    <2> QED
      BY <2>1, <2>2
  <1>7. CASE Environment
    BY <1>2, <1>3, <1>4, <1>7 DEF Environment, Edit, Meddle, Exit, PowerLoss, Goto
  <1>8. CASE UNCHANGED vars
    BY <1>4, <1>8 DEF vars
  <1> QED
    BY <1>5, <1>6, <1>7, <1>8 DEF Next

(* Every step keeps the directory entries in order.                         *)
LEMMA NameStep == TypeOK /\ StageInv /\ NameInv /\ [Next]_vars => NameInv'
PROOF
  <1> SUFFICES ASSUME TypeOK, StageInv, NameInv, [Next]_vars PROVE NameInv'
    OBVIOUS
  <1>1. ASSUME NEW n \in Names PROVE dir'[n] \in dirDisk'[n]
    <2>1. dir[n] \in dirDisk[n]
      BY DEF NameInv
    <2>2. ASSUME NEW names, NEW file, Bind(names, file) PROVE dir'[n] \in dirDisk'[n]
      BY <2>1, <2>2, BindFacts
    <2>3. ASSUME NEW p \in Exports, NEW outcome \in SyncOutcomes, SyncParent(p, outcome)
          PROVE  dir'[n] \in dirDisk'[n]
      BY <2>1, <2>3, SyncFacts
    <2>4. CASE PowerLoss
      BY <2>4, PowerFacts DEF NameInv
    <2> QED
      BY <2>1, <2>2, <2>3, <2>4, NameCases
  <1>2. ASSUME NEW file \in Files PROVE dirDisk'[file] \subseteq {file, Free, Foreign}
    <2>1. dirDisk[file] \subseteq {file, Free, Foreign} /\ dir[file] \in dirDisk[file]
      BY DEF NameInv, Names
    <2>2. file \in Names /\ file \notin Paths
      BY ExportAssumption DEF ExportAssumption, Names
    <2>3. ASSUME NEW names, NEW f \in {Free, Foreign}, Bind(names, f)
          PROVE  dirDisk'[file] \subseteq {file, Free, Foreign}
      BY <2>1, <2>2, <2>3, BindFacts
    <2>4. ASSUME NEW p \in Exports, Bind({Partial(p)}, Partial(p))
          PROVE  dirDisk'[file] \subseteq {file, Free, Foreign}
      BY <2>1, <2>2, <2>4, BindFacts
    <2>5. ASSUME NEW p \in Exports, Bind({Final(p)}, dir[Partial(p)])
          PROVE  dirDisk'[file] \subseteq {file, Free, Foreign}
      BY <2>1, <2>2, <2>5, BindFacts, FinalFacts
    <2>6. ASSUME NEW p \in Exports, NEW outcome \in SyncOutcomes, SyncParent(p, outcome)
          PROVE  dirDisk'[file] \subseteq {file, Free, Foreign}
      BY <2>1, <2>2, <2>6, SyncFacts
    <2>7. CASE PowerLoss
      BY <2>1, <2>2, <2>7, PowerFacts DEF NameInv
    <2> QED
      BY <2>1, <2>3, <2>4, <2>5, <2>6, <2>7, NameCases
  <1>3. ASSUME NEW q \in Exports, Unlinked(q)', <<q, "candidate">> \in dirDisk'[Out[q]]
        PROVE  FALSE
    <2>1. Unlinked(q) /\ <<q, "candidate">> \notin dirDisk[Out[q]]
      BY <1>3, UnlinkedStep DEF NameInv
    <2>2. Out[q] \in Paths /\ <<q, "candidate">> \notin {Free, Foreign}
      BY FinalFacts, FileFacts DEF Artifacts
    <2>3. PICK p \in Exports :
             /\ pc[p] = "link" /\ pc' = [pc EXCEPT ![p] = "inspect"] /\ art' = art
             /\ <<q, "candidate">> = Partial(p)
      BY <1>3, <2>1, <2>2, FoundStep
    <2>4. p = q /\ art[q] = "candidate"
      BY <2>3 DEF Partial
    <2>5. pc'[q] = "inspect" /\ art'[q] = "candidate"
      BY <2>3, <2>4 DEF TypeOK
    <2> QED
      BY <1>3, <2>5 DEF Unlinked, Building, Scans
  <1> QED
    BY <1>1, <1>2, <1>3 DEF NameInv

-----------------------------------------------------------------------------
(* Finished files.                                                          *)

(* A finished file stays finished: a power loss spares what is flushed.     *)
LEMMA SoundStep ==
    ASSUME TypeOK, [Next]_vars
    PROVE  /\ verified \subseteq verified' /\ flushed \subseteq flushed'
           /\ complete \cap flushed \subseteq complete' \cap flushed'
PROOF
  <1>1. ASSUME NEW p \in Exports, Build(p)
        PROVE  /\ verified \subseteq verified' /\ flushed \subseteq flushed'
               /\ complete \subseteq complete'
    BY <1>1 DEF Build, Start, ReadChunk, EndScan, Create, CreateUnlocked, Flush, Verify,
          Ready, Stop, Abort, fileVars
  <1>2. ASSUME NEW p \in Exports, Publish(p) PROVE UNCHANGED <<complete, flushed, verified>>
    BY <1>2, PublishFrame
  <1>3. CASE Environment
    BY <1>3 DEF Environment, Edit, Meddle, Exit, PowerLoss, fileVars
  <1>4. CASE UNCHANGED vars
    BY <1>4 DEF vars, fileVars
  <1> QED
    BY <1>1, <1>2, <1>3, <1>4 DEF Next

(* Every step keeps what is known of the files.                             *)
LEMMA FileStep ==
    TypeOK /\ StageInv /\ NameInv /\ FileInv /\ [Next]_vars => FileInv'
PROOF
  <1> SUFFICES ASSUME TypeOK, StageInv, NameInv, FileInv, [Next]_vars PROVE FileInv'
    OBVIOUS
  <1>1. ASSUME NEW f, Sound(f) PROVE Sound(f)'
    BY <1>1, SoundStep DEF Sound
  <1>2. NothingPartialPublished'
    <2> SUFFICES ASSUME NEW n \in Paths, NEW f \in Files, f \in MayFind(n)'
                 PROVE  Sound(f)'
      BY DEF NothingPartialPublished, Sound
    <2>1. f \in dirDisk'[n] /\ f \notin {Free, Foreign} /\ n \in Names
      BY NameStep, ExportAssumption DEF NameInv, MayFind, ExportAssumption, Names
    <2>2. CASE f \in dirDisk[n]
      BY <1>1, <2>2 DEF FileInv, NothingPartialPublished, MayFind, Sound
    <2>3. CASE \E p \in Exports : pc[p] = "link" /\ f = Partial(p)
      <3>1. PICK p \in Exports : pc[p] = "link" /\ f = Partial(p)
        BY <2>3
      <3>2. Finished(p) /\ Proven(p) /\ pc[p] \in Publishing
        BY <3>1 DEF FileInv, Proven, Publishing
      <3>3. art[p] = "candidate" \/ (art[p] = "escrow" /\ Esc[p] # NoPath)
        BY DEF TypeOK, Artifacts, StageInv
      <3> QED
        BY <1>1, <3>1, <3>2, <3>3 DEF Finished, Partial
    <2> QED
      BY <2>1, <2>2, <2>3, FoundStep
  <1>3. ASSUME NEW q \in Exports, pc'[q] = pc[q], art'[q] = art[q], result'[q] = result[q]
        PROVE  Finished(q)'
    <2>1. Finished(q)
      BY DEF FileInv
    <2>2. (pc[q] = "verify") => <<q, "candidate">> \in complete' \cap flushed'
      BY <2>1, SoundStep DEF Finished
    <2>3. pc[q] = "after" \/ Proven(q) => Sound(<<q, "candidate">>)'
      BY <1>1, <2>1 DEF Finished
    <2>4. pc[q] \in Publishing \cup {"ready"} /\ Esc[q] # NoPath => Sound(<<q, "escrow">>)'
      BY <1>1, <2>1 DEF Finished
    <2>5. Proven(q)' <=> Proven(q)
      BY <1>3 DEF Proven
    <2> QED
      BY <1>3, <2>2, <2>3, <2>4, <2>5 DEF Finished
  <1>4. /\ pc \in [Exports -> Building \cup Publishing \cup {"failed", "done"}]
        /\ art \in [Exports -> Artifacts]
        /\ result \in [Exports -> {"none", "ok", "error"}]
    BY DEF TypeOK
  <1>5. ASSUME NEW p \in Exports, NEW q \in Exports, Build(p) PROVE Finished(q)'
    <2>1. /\ (\E label : pc' = [pc EXCEPT ![p] = label]) \/ pc' = pc
          /\ (\E a : art' = [art EXCEPT ![p] = a]) \/ art' = art
          /\ (\E r : result' = [result EXCEPT ![p] = r]) \/ result' = result
      BY <1>5 DEF Build, Start, ReadChunk, EndScan, Create, CreateUnlocked, Flush, Verify,
            Ready, Stop, Goto, Abort, endVars
    <2>2. CASE p # q
      BY <1>3, <1>4, <2>1, <2>2
    <2>3. CASE p = q
      <3>1. result[q] # "ok" /\ Finished(q)
        <4>1. pc[q] # "done"
          BY <1>5, <2>3 DEF Build, Start, ReadChunk, EndScan, Create, CreateUnlocked,
                Flush, Verify, Ready, Stop, Cancellable, Building, Scans
        <4> QED
          BY <4>1 DEF StageInv, FileInv
      <3>2. CASE ReadChunk(q)
        BY <1>3, <3>2 DEF ReadChunk, endVars
      <3>3. CASE Stop(q)
        <4>1. pc'[q] = "done" /\ result'[q] = "error"
          BY <1>4, <3>3, AbortFrame DEF Stop
        <4> QED
          BY <4>1 DEF Finished, Proven, Publishing
      <3>4. CASE EndScan(q) /\ pc[q] = "after"
        <4>1. /\ pc'[q] \in {"ready", "create"} /\ (pc'[q] = "ready" => Esc[q] = NoPath)
              /\ Sound(<<q, "candidate">>)'
          BY <1>1, <1>4, <3>1, <3>4 DEF EndScan, AfterScan, Goto, Finished
        <4> QED
          BY <4>1 DEF Finished, Publishing
      <3>5. CASE Start(q) \/ (EndScan(q) /\ pc[q] # "after")
        <4>1. /\ pc'[q] \in {"manifest", "hash", "create", "relocate", "flush"}
              /\ art'[q] = "candidate" /\ result'[q] = result[q]
          BY <1>4, <3>5 DEF Start, EndScan, AfterScan, Goto, StageInv, Scans, endVars
        <4> QED
          BY <3>1, <4>1 DEF Finished, Proven, Publishing
      <3>6. CASE Create(q) \/ CreateUnlocked(q)
        <4>1. /\ pc'[q] \in {"failed", "copy", "flush"} /\ pc[q] = "create"
              /\ pc'[q] = "flush" => art[q] = "escrow"
              /\ art'[q] = art[q] /\ result'[q] = result[q]
          BY <1>4, <3>6 DEF Create, CreateUnlocked, Goto, endVars, Artifacts
        <4>2. pc'[q] = "flush" => Sound(<<q, "candidate">>)'
          BY <1>1, <3>1, <4>1 DEF Finished, Proven
        <4> QED
          BY <3>1, <4>1, <4>2 DEF Finished, Proven, Publishing
      <3>7. CASE Flush(q)
        <4>1. CASE art[q] = "candidate"
          <5>1. /\ pc'[q] = "verify" /\ <<q, "candidate">> \in complete' \cap flushed'
                /\ result'[q] = result[q]
            BY <1>4, <3>7, <4>1 DEF Flush, Goto, endVars
          <5> QED
            BY <3>1, <5>1 DEF Finished, Proven, Publishing
        <4>2. CASE art[q] = "escrow"
          <5>1. /\ pc'[q] = "ready" /\ Sound(<<q, "escrow">>)'
                /\ pc[q] = "flush"
            BY <1>4, <3>7, <4>2 DEF Flush, Goto, Sound
          <5>2. Sound(<<q, "candidate">>)'
            BY <1>1, <3>1, <4>2, <5>1 DEF Finished, Proven
          <5> QED
            BY <5>1, <5>2 DEF Finished
        <4> QED
          BY <1>4, <4>1, <4>2 DEF Artifacts
      <3>8. CASE Verify(q)
        <4>1. /\ pc'[q] = "after"
              /\ <<q, "candidate">> \in complete' \cap flushed' /\ <<q, "candidate">> \in verified'
          BY <1>4, <3>1, <3>8 DEF Verify, Goto, Finished
        <4> QED
          BY <4>1 DEF Finished, Publishing, Sound
      <3>9. CASE Ready(q)
        <4>1. pc'[q] = "check" /\ pc[q] = "ready"
          BY <1>4, <3>9 DEF Ready, Goto
        <4>2. Sound(<<q, "candidate">>)' /\ (Esc[q] # NoPath => Sound(<<q, "escrow">>)')
          BY <1>1, <3>1, <4>1 DEF Finished, Proven
        <4> QED
          BY <4>1, <4>2 DEF Finished
      <3> QED
        BY <1>5, <2>3, <3>2, <3>3, <3>4, <3>5, <3>6, <3>7, <3>8, <3>9 DEF Build
    <2> QED
      BY <2>2, <2>3
  <1>6. ASSUME NEW p \in Exports, NEW q \in Exports, Publish(p) PROVE Finished(q)'
    <2>1. /\ pc[p] \in Publishing
          /\ \/ \E label \in Publishing : pc' = [pc EXCEPT ![p] = label]
             \/ pc' = [pc EXCEPT ![p] = "done"]
          /\ \E r \in {result[p], "error", "ok"} : result' = [result EXCEPT ![p] = r]
          /\ art' \in {art, [art EXCEPT ![p] = "candidate"]}
      BY <1>6, <1>4, PublishFrame
    <2>2. CASE p # q
      BY <1>3, <1>4, <2>1, <2>2
    <2>3. CASE p = q
      <3>1. Sound(<<q, "candidate">>)' /\ (Esc[q] # NoPath => Sound(<<q, "escrow">>)')
        BY <1>1, <2>1, <2>3 DEF FileInv, Finished, Proven
      <3>2. pc'[q] \in Publishing \cup {"done"}
        BY <1>4, <2>1, <2>3
      <3> QED
        BY <3>1, <3>2 DEF Finished, Publishing
    <2> QED
      BY <2>2, <2>3
  <1>7. ASSUME NEW q \in Exports, pc'[q] = "done", result'[q] = result[q]
        PROVE  Finished(q)'
    <2>1. result[q] = "ok" => Sound(<<q, "candidate">>)'
      BY <1>1 DEF FileInv, Finished, Proven
    <2> QED
      BY <1>7, <2>1 DEF Finished, Proven, Publishing
  <1>8. ASSUME NEW q \in Exports, Environment PROVE Finished(q)'
    <2>1. result' = result /\ art' = art
      BY <1>8 DEF Environment, Edit, Meddle, Exit, PowerLoss, endVars
    <2>2. pc'[q] = pc[q] \/ pc'[q] = "done"
      BY <1>4, <1>8 DEF Environment, Edit, Meddle, Exit, PowerLoss, Goto
    <2> QED
      BY <1>3, <1>7, <2>1, <2>2
  <1>9. ASSUME NEW q \in Exports, UNCHANGED vars PROVE Finished(q)'
    BY <1>3, <1>9 DEF vars, endVars
  <1> QED
    BY <1>2, <1>5, <1>6, <1>8, <1>9 DEF FileInv, Next

-----------------------------------------------------------------------------
(* Barriers.                                                                *)

(* A taken final name keeps its entry, unless another program changes it or *)
(* power is lost.                                                           *)
LEMMA TakenStep ==
    ASSUME TypeOK, StageInv, [Next]_vars, NEW n \in Paths, dir[n] # Free,
           ~PowerLoss, n \notin touched' \/ faults' = faults
    PROVE  dir'[n] = dir[n]
PROOF
  <1>1. n \in Names /\ n \notin Files
    BY ExportAssumption DEF ExportAssumption, Names
  <1>2. ASSUME NEW p \in Exports, NEW gone \in SUBSET {<<p, a>> : a \in Artifacts},
               Bind(gone, Free)
        PROVE  dir'[n] = dir[n]
    <2>1. n \notin gone
      BY <1>1, FileFacts
    <2> QED
      BY <1>1, <1>2, <2>1, BindFacts
  <1>3. ASSUME NEW p \in Exports, Bind({Partial(p)}, Partial(p)) PROVE dir'[n] = dir[n]
    BY <1>1, <1>3, BindFacts, FinalFacts
  <1>4. ASSUME NEW p \in Exports, dir[Final(p)] = Free, Bind({Final(p)}, dir[Partial(p)])
        PROVE  dir'[n] = dir[n]
    BY <1>1, <1>4, BindFacts
  <1>5. ASSUME NEW p \in Exports, NEW outcome \in SyncOutcomes, SyncParent(p, outcome)
        PROVE  dir'[n] = dir[n]
    BY <1>1, <1>5, SyncFacts
  <1>6. ASSUME NEW m \in Names, NEW file, Bind({m}, file), touched' = touched \cup {m},
               faults' = faults + 1
        PROVE  dir'[n] = dir[n]
    <2>1. n # m
      BY <1>6 DEF TypeOK
    <2> QED
      BY <1>1, <1>6, <2>1, BindFacts
  <1> QED
    BY <1>2, <1>3, <1>4, <1>5, <1>6, NameCases

(* A removed partial does not come back.                                    *)
LEMMA RemovedStep ==
    ASSUME TypeOK, StageInv, [Next]_vars, NEW q \in Exports, NEW a \in Artifacts,
           ~PowerLoss, <<q, a>> \notin touched', dir[<<q, a>>] = Free,
           pc[q] # "create"
    PROVE  dir'[<<q, a>>] = Free
PROOF
  <1> DEFINE n == <<q, a>>
  <1>1. n \in Names /\ n \notin Paths
    BY FileFacts
  <1>2. ASSUME NEW names, Bind(names, Free) PROVE dir'[n] = Free
    BY <1>1, <1>2, BindFacts
  <1>3. ASSUME NEW p \in Exports, pc[p] = "create", Bind({Partial(p)}, Partial(p))
        PROVE  dir'[n] = Free
    BY <1>1, <1>3, BindFacts DEF Partial
  <1>4. ASSUME NEW p \in Exports, NEW f, Bind({Final(p)}, f) PROVE dir'[n] = Free
    BY <1>1, <1>4, BindFacts, FinalFacts
  <1>5. ASSUME NEW p \in Exports, NEW outcome \in SyncOutcomes, SyncParent(p, outcome)
        PROVE  dir'[n] = Free
    BY <1>1, <1>5, SyncFacts
  <1>6. ASSUME NEW m \in Names, NEW file, Bind({m}, file), touched' = touched \cup {m}
        PROVE  dir'[n] = Free
    BY <1>1, <1>6, BindFacts
  <1> QED
    BY <1>2, <1>3, <1>4, <1>5, <1>6, NameCases

(* A publication ends when its second barrier is reached, and from then on  *)
(* its strength is settled.                                                 *)
LEMMA OverStep ==
    ASSUME TypeOK, StageInv, NameInv, [Next]_vars, NEW q \in Exports,
           NEW a \in Artifacts, Over(q, a)', Dest(q, a) # NoPath
    PROVE  \/ Over(q, a) /\ strength'[q][a] = strength[q][a]
           \/ /\ pc[q] = "resync" /\ art[q] = a
              /\ \E outcome \in SyncOutcomes :
                    /\ SyncParent(q, outcome)
                    /\ strength'[q][a] = Combine(strength[q][a], outcome)
PROOF
  <1>1. /\ pc \in [Exports -> Building \cup Publishing \cup {"failed", "done"}]
        /\ art \in [Exports -> Artifacts]
        /\ result \in [Exports -> {"none", "ok", "error"}]
        /\ strength \in [Exports -> [Artifacts -> {"synchronized", "unsupported"}]]
    BY DEF TypeOK
  <1>2. ASSUME <<q, "candidate">> \in dirDisk'[Out[q]]
        PROVE  \/ <<q, "candidate">> \in dirDisk[Out[q]]
               \/ pc[q] = "link" /\ art[q] = "candidate"
    <2>1. Out[q] \in Paths /\ <<q, "candidate">> \notin {Free, Foreign}
      BY FinalFacts, FileFacts DEF Artifacts
    <2>2. ASSUME NEW p \in Exports, pc[p] = "link", <<q, "candidate">> = Partial(p)
          PROVE  pc[q] = "link" /\ art[q] = "candidate"
      BY <2>2 DEF Partial
    <2> QED
      BY <1>2, <2>1, <2>2, FoundStep
  <1>3. ASSUME a = "escrow", <<q, "candidate">> \in dirDisk'[Out[q]] PROVE Over(q, a)
    BY <1>2, <1>3 DEF Over, Publishing
  <1>4. ASSUME result'[q] = result[q] \/ result'[q] # "ok",
               (pc'[q] \in Publishing /\ art'[q] = "candidate" /\ a = "escrow") =>
                  pc[q] \in Publishing /\ art[q] = "candidate"
        PROVE  Over(q, a)
    BY <1>3, <1>4 DEF Over
  <1>5. ASSUME NEW p \in Exports, Build(p)
        PROVE  Over(q, a) /\ strength'[q][a] = strength[q][a]
    <2>1. strength' = strength
      BY <1>5 DEF Build, Start, ReadChunk, EndScan, Create, CreateUnlocked, Flush, Verify,
            Ready, Stop, Abort, endVars
    <2>2. \/ result' = result
          \/ result' = [result EXCEPT ![p] = "error"]
      BY <1>5 DEF Build, Start, ReadChunk, EndScan, Create, CreateUnlocked, Flush, Verify,
            Ready, Stop, Abort, endVars
    <2>3. /\ (\E label : pc' = [pc EXCEPT ![p] = label]) \/ pc' = pc
          /\ (\E b : art' = [art EXCEPT ![p] = b]) \/ art' = art
      BY <1>5 DEF Build, Start, ReadChunk, EndScan, Create, CreateUnlocked, Flush, Verify,
            Ready, Stop, Goto, Abort
    <2>4. CASE p # q
      BY <1>1, <1>4, <2>1, <2>2, <2>3, <2>4
    <2>5. CASE p = q
      <3>1. ASSUME pc'[q] \in Publishing PROVE Ready(q)
        <4>1. \A label \in Building \cup {"failed", "done"} : label \notin Publishing
          BY DEF Building, Scans, Publishing
        <4>2. ASSUME Start(q) \/ ReadChunk(q) \/ Create(q) \/ CreateUnlocked(q)
                        \/ Flush(q) \/ Verify(q)
              PROVE  pc'[q] \in Building \cup {"failed"}
          BY <1>1, <4>2 DEF Start, ReadChunk, Create, CreateUnlocked, Flush, Verify,
                Goto, Building, Scans
        <4>3. ASSUME EndScan(q) PROVE pc'[q] \in Building
          BY <1>1, <4>3 DEF EndScan, AfterScan, Goto, Building, Scans
        <4>4. ASSUME Stop(q) PROVE pc'[q] = "done"
          BY <1>1, <4>4 DEF Stop, Abort, Goto
        <4> QED
          BY <1>5, <2>5, <3>1, <4>1, <4>2, <4>3, <4>4 DEF Build
      <3>2. ASSUME Ready(q), a = "escrow" PROVE art'[q] = "escrow"
        BY <1>1, <3>2 DEF Ready, Dest
      <3> QED
        BY <1>1, <1>4, <2>1, <2>2, <2>5, <3>1, <3>2
    <2> QED
      BY <2>4, <2>5
  <1>6. ASSUME NEW p \in Exports, p # q, Publish(p)
        PROVE  Over(q, a) /\ strength'[q][a] = strength[q][a]
    <2>1. /\ \E label : pc' = [pc EXCEPT ![p] = label]
          /\ art' \in {art, [art EXCEPT ![p] = "candidate"]}
          /\ \E r : result' = [result EXCEPT ![p] = r]
      BY <1>1, <1>6, PublishFrame
    <2>2. strength' = strength \/ \E b, v : strength' = [strength EXCEPT ![p][b] = v]
      BY <1>6 DEF Publish, Check, Link, Inspect, Sync, Remove, Resync, Abort, endVars
    <2>3. strength'[q][a] = strength[q][a]
      BY <1>1, <1>6, <2>2
    <2> QED
      BY <1>1, <1>4, <1>6, <2>1, <2>3
  <1>7. ASSUME \E names, kept : Abort(q, names, kept)
        PROVE  Over(q, a) /\ strength'[q][a] = strength[q][a]
    BY <1>1, <1>4, <1>7, AbortFrame DEF Publishing
  <1>8. ASSUME Check(q) \/ Link(q) \/ Inspect(q) \/ Remove(q),
               ~\E names, kept : Abort(q, names, kept)
        PROVE  Over(q, a) /\ strength'[q][a] = strength[q][a]
    <2>1. pc[q] \in Publishing /\ result' = result /\ strength' = strength /\ art' = art
      BY <1>8 DEF Check, Link, Inspect, Remove, endVars, Publishing
    <2> QED
      BY <1>4, <2>1
  <1>9. ASSUME Sync(q), ~\E names, kept : Abort(q, names, kept)
        PROVE  Over(q, a) /\ strength'[q][a] = strength[q][a]
    <2>1. PICK outcome \in SyncOutcomes :
             /\ strength' = [strength EXCEPT ![q][art[q]] = outcome]
             /\ UNCHANGED <<art, result>>
      BY <1>9 DEF Sync
    <2>2. pc[q] = "sync" /\ result[q] # "ok" /\ pc[q] \in Publishing
      BY <1>9 DEF Sync, StageInv, Publishing
    <2>3. Over(q, a)
      BY <1>4, <2>1, <2>2
    <2>4. a # art[q]
      <3>1. ASSUME art[q] = "escrow" PROVE <<q, "candidate">> \notin dirDisk[Out[q]]
        BY <2>2, <3>1 DEF NameInv, Unlinked
      <3> QED
        BY <1>1, <2>2, <2>3, <3>1 DEF Over, Artifacts
    <2> QED
      BY <1>1, <2>1, <2>3, <2>4
  <1>10. ASSUME Resync(q), ~\E names, kept : Abort(q, names, kept)
         PROVE  \/ Over(q, a) /\ strength'[q][a] = strength[q][a]
                \/ /\ pc[q] = "resync" /\ art[q] = a
                   /\ \E outcome \in SyncOutcomes :
                         /\ SyncParent(q, outcome)
                         /\ strength'[q][a] = Combine(strength[q][a], outcome)
    <2>1. PICK outcome \in SyncOutcomes :
             /\ SyncParent(q, outcome)
             /\ strength' = [strength EXCEPT ![q][art[q]] = Combine(@, outcome)]
             /\ result' = [result EXCEPT ![q] = IF art[q] = "escrow" THEN @ ELSE "ok"]
      BY <1>10 DEF Resync
    <2>2. pc[q] = "resync" /\ result[q] # "ok" /\ pc[q] \in Publishing
      BY <1>10 DEF Resync, StageInv, Publishing
    <2>3. CASE a = art[q]
      BY <1>1, <2>1, <2>2, <2>3
    <2>4. CASE a # art[q]
      <3>1. strength'[q][a] = strength[q][a]
        BY <1>1, <2>1, <2>4
      <3>2. CASE a = "escrow"
        BY <1>1, <2>2, <2>4, <3>1, <3>2 DEF Over, Artifacts
      <3>3. CASE a = "candidate"
        BY <1>1, <2>1, <2>2, <2>4, <3>3 DEF Over, Artifacts
      <3> QED
        BY <3>2, <3>3 DEF Artifacts
    <2> QED
      BY <2>3, <2>4
  <1>11. ASSUME Environment \/ UNCHANGED vars
         PROVE  Over(q, a) /\ strength'[q][a] = strength[q][a]
    <2>1. result' = result /\ art' = art /\ strength' = strength
      BY <1>11 DEF Environment, Edit, Meddle, Exit, PowerLoss, endVars, vars
    <2>2. pc'[q] = pc[q] \/ pc'[q] = "done"
      BY <1>1, <1>11 DEF Environment, Edit, Meddle, Exit, PowerLoss, Goto, vars
    <2> QED
      BY <1>4, <2>1, <2>2 DEF Publishing
  <1> QED
    BY <1>5, <1>6, <1>7, <1>8, <1>9, <1>10, <1>11 DEF Next, Publish

(* A name with a single possible entry keeps it.                            *)
LEMMA SettledStep ==
    ASSUME TypeOK, StageInv, NameInv, [Next]_vars, NEW q \in Exports,
           NEW a \in Artifacts, Over(q, a), Dest(q, a) # NoPath
    PROVE  /\ Dest(q, a) \notin touched' /\ dirDisk[Dest(q, a)] = {<<q, a>>} =>
                 dirDisk'[Dest(q, a)] = {<<q, a>>}
           /\ <<q, a>> \notin touched' /\ dirDisk[<<q, a>>] = {Free} =>
                 dirDisk'[<<q, a>>] = {Free}
PROOF
  <1>1. ASSUME Dest(q, a) \notin touched', dirDisk[Dest(q, a)] = {<<q, a>>}
        PROVE  dirDisk'[Dest(q, a)] = {<<q, a>>}
    <2> DEFINE n == Dest(q, a)
    <2>1. n \in Paths /\ n \in Names /\ n \notin Files /\ <<q, a>> # Free
      BY FinalFacts, FileFacts, ExportAssumption DEF ExportAssumption, Names
    <2>2. dir[n] = <<q, a>>
      BY <1>1, <2>1 DEF NameInv
    <2> HIDE DEF n
    <2>3. ASSUME NEW p \in Exports, NEW gone \in SUBSET {<<p, b>> : b \in Artifacts},
                 Bind(gone, Free)
          PROVE  dirDisk'[n] = dirDisk[n]
      <3>1. n \notin gone
        BY <2>1, FileFacts
      <3> QED
        BY <2>1, <2>3, <3>1, BindFacts
    <2>4. ASSUME NEW p \in Exports, Bind({Partial(p)}, Partial(p))
          PROVE  dirDisk'[n] = dirDisk[n]
      BY <2>1, <2>4, BindFacts, FinalFacts
    <2>5. ASSUME NEW p \in Exports, dir[Final(p)] = Free, Bind({Final(p)}, dir[Partial(p)])
          PROVE  dirDisk'[n] = dirDisk[n]
      <3>1. n # Final(p)
        BY <2>1, <2>2, <2>5
      <3> QED
        BY <2>1, <2>5, <3>1, BindFacts
    <2>6. ASSUME NEW p \in Exports, NEW outcome \in SyncOutcomes, SyncParent(p, outcome)
          PROVE  dirDisk'[n] \in {dirDisk[n], {dir[n]}}
      BY <2>1, <2>6, SyncFacts
    <2>7. ASSUME NEW m \in Names, NEW file, Bind({m}, file), touched' = touched \cup {m}
          PROVE  dirDisk'[n] = dirDisk[n]
      BY <1>1, <2>1, <2>7, BindFacts DEF n
    <2>8. ASSUME PowerLoss PROVE \E f \in dirDisk[n] : dirDisk'[n] = {f}
      BY <2>1, <2>8, PowerFacts DEF NameInv
    <2>9. dirDisk[n] = {<<q, a>>}
      BY <1>1 DEF n
    <2>10. dirDisk'[n] = {<<q, a>>}
      BY <2>2, <2>3, <2>4, <2>5, <2>6, <2>7, <2>8, <2>9, NameCases
    <2> QED
      BY <2>10 DEF n
  <1>2. ASSUME <<q, a>> \notin touched', dirDisk[<<q, a>>] = {Free}
        PROVE  dirDisk'[<<q, a>>] = {Free}
    <2> DEFINE n == <<q, a>>
    <2>1. n \in Names /\ n \notin Paths
      BY FileFacts
    <2>2. dir[n] = Free
      BY <1>2, <2>1 DEF NameInv
    <2>3. ASSUME NEW names, Bind(names, Free) PROVE dirDisk'[n] = {Free}
      BY <1>2, <2>1, <2>3, BindFacts
    <2>4. ASSUME NEW p \in Exports, pc[p] = "create", Bind({Partial(p)}, Partial(p))
          PROVE  dirDisk'[n] = dirDisk[n]
      <3>1. pc[q] # "create"
        <4>1. ASSUME pc[q] = "create" PROVE Unlinked(q) /\ result[q] # "ok"
          BY <4>1 DEF Unlinked, Building, StageInv
        <4> QED
          BY <4>1 DEF Over, Publishing, NameInv
      <3>2. n # Partial(p)
        BY <2>4, <3>1 DEF Partial
      <3> QED
        BY <2>1, <2>4, <3>2, BindFacts
    <2>5. ASSUME NEW p \in Exports, NEW f, Bind({Final(p)}, f)
          PROVE  dirDisk'[n] = dirDisk[n]
      BY <2>1, <2>5, BindFacts, FinalFacts
    <2>6. ASSUME NEW p \in Exports, NEW outcome \in SyncOutcomes, SyncParent(p, outcome)
          PROVE  dirDisk'[n] \in {dirDisk[n], {dir[n]}}
      BY <2>1, <2>6, SyncFacts
    <2>7. ASSUME NEW m \in Names, NEW file, Bind({m}, file), touched' = touched \cup {m}
          PROVE  dirDisk'[n] = dirDisk[n]
      BY <1>2, <2>1, <2>7, BindFacts
    <2>8. ASSUME PowerLoss PROVE \E f \in dirDisk[n] : dirDisk'[n] = {f}
      BY <2>1, <2>8, PowerFacts DEF NameInv
    <2> QED
      BY <1>2, <2>2, <2>3, <2>4, <2>5, <2>6, <2>7, <2>8, NameCases
  <1> QED
    BY <1>1, <1>2

(* Every step keeps the barriers.                                           *)
LEMMA BarrierStep ==
    TypeOK /\ StageInv /\ NameInv /\ BarrierInv /\ [Next]_vars => BarrierInv'
PROOF
  <1> SUFFICES ASSUME TypeOK, StageInv, NameInv, BarrierInv, [Next]_vars,
                      NEW q \in Exports
               PROVE  Barrier(q)'
    BY DEF BarrierInv
  <1>1. /\ pc \in [Exports -> Building \cup Publishing \cup {"failed", "done"}]
        /\ art \in [Exports -> Artifacts]
    BY DEF TypeOK
  <1>2. touched \subseteq touched'
    BY NameCases, SyncFacts, PowerFacts DEF NameInv, SyncParent, PowerLoss
  <1>3. Barrier(q)
    BY DEF BarrierInv
  <1>4. ASSUME pc'[q] \in {"sync", "remove", "resync"}
        PROVE  /\ ~PowerLoss /\ art'[q] = art[q]
               /\ \/ pc'[q] = pc[q]
                  \/ Inspect(q) /\ dir[Final(q)] = Partial(q) /\ pc'[q] = "sync"
                  \/ Sync(q) /\ dir' = dir /\ pc'[q] = "remove"
                  \/ Remove(q) /\ Bind({Partial(q)}, Free) /\ pc'[q] = "resync"
    <2>1. ~PowerLoss
      BY <1>4 DEF PowerLoss
    <2>2. ASSUME NEW p \in Exports, Build(p) PROVE p # q /\ pc'[q] = pc[q] /\ art'[q] = art[q]
      <3>1. CASE p # q
        <4>1. /\ (\E label : pc' = [pc EXCEPT ![p] = label]) \/ pc' = pc
              /\ (\E b : art' = [art EXCEPT ![p] = b]) \/ art' = art
          BY <2>2 DEF Build, Start, ReadChunk, EndScan, Create, CreateUnlocked, Flush,
                Verify, Ready, Stop, Goto, Abort
        <4> QED
          BY <1>1, <3>1, <4>1
      <3>2. CASE p = q
        <4>1. ASSUME Start(q) \/ ReadChunk(q) \/ Create(q) \/ CreateUnlocked(q)
                        \/ Flush(q) \/ Verify(q) \/ Ready(q)
              PROVE  pc'[q] \notin {"sync", "remove", "resync"}
          BY <1>1, <4>1 DEF Start, ReadChunk, Create, CreateUnlocked, Flush, Verify, Ready,
                Goto, Scans
        <4>2. ASSUME EndScan(q) PROVE pc'[q] \notin {"sync", "remove", "resync"}
          BY <1>1, <4>2 DEF EndScan, AfterScan, Goto, Scans
        <4>3. ASSUME Stop(q) PROVE pc'[q] = "done"
          BY <1>1, <4>3 DEF Stop, Abort, Goto
        <4> QED
          BY <1>4, <2>2, <3>2, <4>1, <4>2, <4>3 DEF Build
      <3> QED
        BY <3>1, <3>2
    <2>3. ASSUME NEW p \in Exports, p # q, Publish(p)
          PROVE  pc'[q] = pc[q] /\ art'[q] = art[q]
      BY <1>1, <2>3, PublishFrame
    <2>4. ASSUME Publish(q)
          PROVE  /\ art'[q] = art[q]
                 /\ \/ Inspect(q) /\ dir[Final(q)] = Partial(q) /\ pc'[q] = "sync"
                    \/ Sync(q) /\ dir' = dir /\ pc'[q] = "remove"
                    \/ Remove(q) /\ Bind({Partial(q)}, Free) /\ pc'[q] = "resync"
      <3>1. ASSUME \E names, kept : Abort(q, names, kept) PROVE FALSE
        BY <1>1, <1>4, <3>1, AbortFrame
      <3>2. ~Check(q) /\ ~Link(q)
        BY <1>1, <1>4, <3>1 DEF Check, Link, Goto
      <3>3. ~Resync(q)
        BY <1>1, <1>4, <3>1 DEF Resync, Goto
      <3>4. CASE Inspect(q)
        BY <1>1, <3>1, <3>4 DEF Inspect, Goto
      <3>5. CASE Sync(q)
        BY <1>1, <3>1, <3>5 DEF Sync, SyncParent, Goto
      <3>6. CASE Remove(q)
        BY <1>1, <3>1, <3>6 DEF Remove, Goto
      <3> QED
        BY <2>4, <3>2, <3>3, <3>4, <3>5, <3>6 DEF Publish
    <2>5. CASE Environment
      BY <1>1, <1>4, <2>1, <2>5 DEF Environment, Edit, Meddle, Exit, Goto
    <2>6. CASE UNCHANGED vars
      BY <2>1, <2>6 DEF vars
    <2> QED
      BY <2>1, <2>2, <2>3, <2>4, <2>5, <2>6 DEF Next
  <1>5. ASSUME pc'[q] \in {"sync", "remove", "resync"}, Final(q)' \notin touched'
        PROVE  dir'[Final(q)'] = Partial(q)'
    <2>1. Final(q)' = Final(q) /\ Partial(q)' = Partial(q)
      BY <1>4, <1>5 DEF Final, Partial
    <2>2. dir[Final(q)] = Partial(q)
      BY <1>2, <1>3, <1>4, <1>5, <2>1 DEF Barrier, Sync, Remove
    <2>3. Partial(q) # Free /\ Final(q) \in Paths
      BY FinalFacts, FileFacts DEF Partial, TypeOK
    <2>4. dir'[Final(q)] = dir[Final(q)]
      BY <1>4, <1>5, <2>1, <2>2, <2>3, TakenStep
    <2> QED
      BY <2>1, <2>2, <2>4
  <1>6. ASSUME pc'[q] = "resync", Partial(q)' \notin touched'
        PROVE  dir'[Partial(q)'] = Free
    <2>1. Partial(q)' = Partial(q) /\ Partial(q) \in Names
      BY <1>4, <1>6, FinalFacts DEF Partial
    <2>2. CASE Bind({Partial(q)}, Free)
      BY <2>1, <2>2, BindFacts
    <2>3. CASE pc[q] = "resync"
      <3>1. dir[Partial(q)] = Free
        BY <1>2, <1>3, <1>6, <2>1, <2>3 DEF Barrier
      <3> QED
        BY <1>1, <1>4, <1>6, <2>1, <2>3, <3>1, RemovedStep DEF Partial
    <2> QED
      BY <1>4, <1>6, <2>2, <2>3
  <1>7. ASSUME NEW a \in Artifacts, Over(q, a)', strength'[q][a] = "synchronized",
               Dest(q, a) # NoPath
        PROVE  /\ Dest(q, a) \notin touched' => dirDisk'[Dest(q, a)] = {<<q, a>>}
               /\ <<q, a>> \notin touched' => dirDisk'[<<q, a>>] = {Free}
    <2>1. CASE Over(q, a) /\ strength'[q][a] = strength[q][a]
      <3>1. /\ Dest(q, a) \notin touched => dirDisk[Dest(q, a)] = {<<q, a>>}
            /\ <<q, a>> \notin touched => dirDisk[<<q, a>>] = {Free}
        BY <1>3, <1>7, <2>1 DEF Barrier
      <3> QED
        BY <1>2, <1>7, <2>1, <3>1, SettledStep
    <2>2. CASE /\ pc[q] = "resync" /\ art[q] = a
               /\ \E outcome \in SyncOutcomes :
                     /\ SyncParent(q, outcome)
                     /\ strength'[q][a] = Combine(strength[q][a], outcome)
      <3>1. PICK outcome \in SyncOutcomes :
               /\ SyncParent(q, outcome)
               /\ strength'[q][a] = Combine(strength[q][a], outcome)
        BY <2>2
      <3>2. outcome = "synchronized"
        BY <1>7, <3>1 DEF Combine
      <3>3. /\ Dest(q, a) = Final(q) /\ <<q, a>> = Partial(q)
            /\ Final(q) \in Names /\ Partial(q) \in Names
        BY <2>2, FinalFacts DEF Final, Partial
      <3>4. Parent(Final(q)) = Final(q) /\ Parent(Partial(q)) = Final(q)
        BY <1>7, <3>3, FinalFacts, FileFacts DEF Parent
      <3>5. dirDisk'[Final(q)] = {dir[Final(q)]} /\ dirDisk'[Partial(q)] = {dir[Partial(q)]}
        BY <3>1, <3>2, <3>3, <3>4, SyncFacts
      <3>6. /\ Final(q) \notin touched => dir[Final(q)] = Partial(q)
            /\ Partial(q) \notin touched => dir[Partial(q)] = Free
        BY <1>3, <2>2 DEF Barrier
      <3> QED
        BY <1>2, <3>3, <3>5, <3>6
    <2> QED
      BY <1>7, <2>1, <2>2, OverStep
  <1> QED
    BY <1>5, <1>6, <1>7 DEF Barrier

-----------------------------------------------------------------------------
(* Theorems.                                                                *)

(* An export starts with nothing created and nothing read.                  *)
LEMMA InitHolds == Init => IInv
PROOF
  <1> SUFFICES ASSUME Init PROVE IInv
    OBVIOUS
  <1>1. /\ Planned \in Contents /\ Chunks \in Nat
        /\ \A c \in 1 .. Chunks : Planned[c] = 0
    BY ExportAssumption DEF ExportAssumption, Planned, Contents
  <1>2. TypeOK
    <2>1. [s \in Scans |-> Planned] \in [Scans -> Contents]
      BY <1>1
    <2>2. at \in [Exports -> 1 .. Chunks + 1]
      BY ExportAssumption DEF ExportAssumption, Init
    <2> QED
      BY <1>1, <2>1, <2>2 DEF Init, TypeOK, Building, Artifacts, Entries
  <1>3. ASSUME NEW p \in Exports
        PROVE  pc[p] = "start" /\ art[p] = "candidate" /\ at[p] = 1 /\ result[p] = "none"
    BY DEF Init
  <1>4. ASSUME NEW n \in Names PROVE dir[n] = Free /\ dirDisk[n] = {Free}
    BY DEF Init
  <1>5. StageInv
    BY <1>3 DEF StageInv
  <1>6. EvidenceInv
    <2>1. ASSUME NEW p \in Exports PROVE Evidence(p)
      BY <1>3 DEF Evidence, Hashed, Copied, Proven, Passed, Publishing
    <2>2. ASSUME NEW p \in Exports, NEW s \in Scans, NEW c \in 1 .. Chunks
          PROVE  seen[p][s][c] <= src[c]
      BY <1>1 DEF Init
    <2>3. \A c \in 1 .. Chunks : src[c] <= edits
      BY <1>1 DEF Init
    <2> QED
      BY <2>1, <2>2, <2>3 DEF EvidenceInv
  <1>7. FileInv
    <2>1. ASSUME NEW p \in Exports PROVE Finished(p)
      BY <1>3 DEF Finished, Proven, Publishing
    <2>2. ASSUME NEW n \in Paths PROVE MayFind(n) \cap Files = {}
      BY <1>4, ExportAssumption DEF MayFind, Names, ExportAssumption
    <2> QED
      BY <2>1, <2>2 DEF FileInv, NothingPartialPublished
  <1>8. ASSUME NEW p \in Exports
        PROVE  Out[p] \in Names /\ <<p, "candidate">> \notin dirDisk[Out[p]]
    <2>1. Out[p] \in Names
      BY <1>2, <1>5, FinalFacts
    <2>2. <<p, "candidate">> # Free
      BY FileFacts DEF Artifacts
    <2> QED
      BY <1>4, <2>1, <2>2
  <1>9. NameInv
    <2>1. ASSUME NEW file \in Files PROVE dirDisk[file] \subseteq {file, Free, Foreign}
      BY <1>4 DEF Names
    <2> QED
      BY <1>4, <1>8, <2>1 DEF NameInv
  <1>10. BarrierInv
    <2>1. ASSUME NEW p \in Exports, NEW a \in Artifacts PROVE ~Over(p, a)
      BY <1>3, <1>8 DEF Over, Publishing
    <2> QED
      BY <1>3, <2>1 DEF BarrierInv, Barrier
  <1> QED
    BY <1>2, <1>5, <1>6, <1>7, <1>9, <1>10 DEF IInv

(* The invariant holds in every state, whatever other programs and the      *)
(* machine do.                                                              *)
THEOREM Invariance == Spec => []IInv
PROOF
  <1>1. Init => IInv
    BY InitHolds
  <1>2. IInv /\ [Next]_vars => IInv'
    BY TypeStep, StageStep, EvidenceStep, NameStep, FileStep, BarrierStep DEF IInv
  <1> QED
    BY <1>1, <1>2, PTL DEF Spec

(* An export keeps every variable in its type.                              *)
THEOREM TypeCorrect == Spec => []TypeOK
PROOF
  <1>1. IInv => TypeOK
    BY DEF IInv
  <1> QED
    BY <1>1, Invariance, PTL

(* The content of a successful export is the content that its evidence      *)
(* names, however often the source is edited between and during the five    *)
(* scans of export_candidate_image_impl.                                    *)
THEOREM EvidenceHolds == Spec => []EvidenceIsTrue
PROOF
  <1>1. IInv => EvidenceIsTrue
    <2> SUFFICES ASSUME IInv, NEW p \in Exports, result[p] = "ok"
                 PROVE  /\ seen[p]["copy"] = seen[p]["hash"]
                        /\ p \in Relocated => seen[p]["copy"] = Planned
      BY DEF EvidenceIsTrue
    <2>1. Evidence(p) /\ Proven(p) /\ Hashed(p)
      BY DEF IInv, EvidenceInv, Proven, Copied, Hashed
    <2> QED
      BY <2>1 DEF Evidence
  <1> QED
    BY <1>1, Invariance, PTL

(* A final name never refers, now or after a power loss, to a file of an    *)
(* export that is not complete, verified and flushed.                       *)
THEOREM PublicationIsWhole == Spec => []NothingPartialPublished
PROOF
  <1>1. IInv => NothingPartialPublished
    BY DEF IInv, FileInv
  <1> QED
    BY <1>1, Invariance, PTL

(* Once the barrier of the escrow's directory has succeeded, publish_with   *)
(* never shows a candidate without its sidecar, power losses included.      *)
THEOREM SidecarComesFirst == Spec => []SidecarFirst
PROOF
  <1>1. IInv => SidecarFirst
    <2> SUFFICES ASSUME IInv, NEW p \in Exports, Esc[p] \notin touched \cup {NoPath},
                        strength[p]["escrow"] = "synchronized",
                        <<p, "candidate">> \in MayFind(Out[p])
                 PROVE  MayFind(Esc[p]) = {<<p, "escrow">>}
      BY DEF SidecarFirst
    <2>1. /\ Dest(p, "escrow") = Esc[p] /\ "escrow" \in Artifacts
          /\ Out[p] \in Names /\ Esc[p] \in Names
      BY FinalFacts, ExportAssumption DEF IInv, Dest, Artifacts, Names, ExportAssumption
    <2>2. <<p, "candidate">> \in dirDisk[Out[p]]
      BY <2>1 DEF MayFind, IInv, NameInv
    <2>3. Over(p, "escrow")
      BY <2>2 DEF Over
    <2>4. dirDisk[Esc[p]] = {<<p, "escrow">>}
      BY <2>1, <2>3 DEF IInv, BarrierInv, Barrier
    <2> QED
      BY <2>1, <2>4 DEF MayFind, IInv, NameInv
  <1> QED
    BY <1>1, Invariance, PTL

(* An export that reports success with synchronized directories has its     *)
(* final names for good, and its partials are gone.                         *)
THEOREM SuccessLasts == Spec => []SuccessIsDurable
PROOF
  <1>1. IInv => SuccessIsDurable
    <2> SUFFICES ASSUME IInv, NEW p \in Exports, NEW a \in Artifacts, result[p] = "ok",
                        strength[p][a] = "synchronized",
                        {Dest(p, a), <<p, a>>} \cap (touched \cup {NoPath}) = {}
                 PROVE  MayFind(Dest(p, a)) = {<<p, a>>} /\ MayFind(<<p, a>>) = {Free}
      BY DEF SuccessIsDurable
    <2>1. Dest(p, a) \in Names /\ <<p, a>> \in Names
      BY FinalFacts, FileFacts DEF IInv, Names
    <2>2. Over(p, a) /\ Dest(p, a) # NoPath
      BY DEF Over
    <2>3. dirDisk[Dest(p, a)] = {<<p, a>>} /\ dirDisk[<<p, a>>] = {Free}
      BY <2>2 DEF IInv, BarrierInv, Barrier
    <2> QED
      BY <2>1, <2>3 DEF MayFind, IInv, NameInv
  <1> QED
    BY <1>1, Invariance, PTL

(* No step of an export replaces or removes what a final name refers to:    *)
(* publish_with links and never renames, and a cleanup knows only partials. *)
THEOREM NothingIsClobbered == Spec => NoClobber
PROOF
  <1>1. IInv /\ [Next]_vars =>
           [faults' = faults => \A n \in Paths : dir[n] # Free => dir'[n] = dir[n]]_vars
    <2> SUFFICES ASSUME IInv, [Next]_vars, faults' = faults, NEW n \in Paths,
                        dir[n] # Free
                 PROVE  dir'[n] = dir[n]
      OBVIOUS
    <2>1. ~PowerLoss
      BY DEF IInv, TypeOK, PowerLoss, Fault
    <2> QED
      BY <2>1, TakenStep DEF IInv
  <1> QED
    BY <1>1, Invariance, PTL DEF Spec, NoClobber
=============================================================================
