---------------------------- MODULE CapsuleStore ----------------------------
(***************************************************************************)
(* The append-only capsule file of capsule.rs and capsule_store.rs at the   *)
(* level of its cells: appends that stop anywhere, reconciliation by the    *)
(* store that was appending, recovery by a later process, and headers that  *)
(* decay between two runs. RegularImage abstracts such a file to its number *)
(* of complete generations, their newest phase and the kind of its tail.    *)
(*                                                                         *)
(* A generation is a header, a payload and a second copy of the header; a   *)
(* capsule is a sequence of generations. Bytes are grouped into cells:      *)
(* HeaderCells of them make a header, and the first generation carries a    *)
(* longer payload (the plan envelope) than the checkpoints that follow. A   *)
(* cell names what was written there, or is "junk": checksums and digests   *)
(* detect every difference.                                                 *)
(***************************************************************************)
EXTENDS TransactionPhase, FiniteSets, SequencesExt

CONSTANTS
    HeaderCells,        \* HEADER_BYTES
    EnvelopeCells,      \* payload length of generation zero
    CheckpointCells,    \* payload length of every later generation
    MaxGenerations,     \* CapsuleLimits.max_generations
    MaxCells            \* CapsuleLimits.max_capsule_bytes

ASSUME LimitAssumption ==
    /\ HeaderCells \in Nat \ {0} /\ EnvelopeCells \in Nat \ {0}
    /\ CheckpointCells \in 1 .. HeaderCells
    /\ MaxGenerations \in Nat \ {0} /\ MaxCells \in Nat \ {0}

NoHeader == [generation |-> 0, phase |-> Discovered, len |-> 0, previous |-> -2]

Cell(kind, part, header) == [kind |-> kind, part |-> part, header |-> header]
Junk == Cell("junk", 0, NoHeader)

(* encode_header, and the payload whose digest the header carries.          *)
EncodeHeader(header) == [i \in 1 .. HeaderCells |-> Cell("header", i, header)]
PayloadOf(header) == [i \in 1 .. header.len |-> Cell("payload", i, header)]

(* bytes[offset .. offset + length), offsets counted from zero.             *)
Slice(bytes, offset, length) == SubSeq(bytes, offset + 1, offset + length)

(* decode_header at an offset; NoHeader is any of its errors.               *)
DecodeHeader(bytes, offset) ==
    IF /\ offset >= 0 /\ offset + HeaderCells <= Len(bytes)
       /\ bytes[offset + 1].kind = "header"
       /\ Slice(bytes, offset, HeaderCells) = EncodeHeader(bytes[offset + 1].header)
    THEN bytes[offset + 1].header
    ELSE NoHeader

-----------------------------------------------------------------------------
(* Where a header could belong.                                             *)

(* candidate_as_primary: the trailing copy is in range, and equal or bad.   *)
CandidateAsPrimary(bytes, position, header) ==
    LET trailing == position + HeaderCells + header.len
        copy     == DecodeHeader(bytes, trailing)
    IN  IF trailing + HeaderCells <= Len(bytes) /\ copy \in {NoHeader, header}
        THEN {[start |-> position, header |-> header]}
        ELSE {}

(* Mutant: a generation whose primary copy is bad is not looked for.        *)
NoTrailingCandidate(bytes, position, header) == {}

(* candidate_as_trailing: the primary copy is in range, and equal or bad.   *)
CandidateAsTrailing(bytes, position, header) ==
    LET start == position - HeaderCells - header.len
        copy  == DecodeHeader(bytes, start)
    IN  IF start >= 0 /\ copy \in {NoHeader, header}
        THEN {[start |-> start, header |-> header]}
        ELSE {}

FindCandidates(bytes) ==
    UNION {LET header == DecodeHeader(bytes, position)
           IN  IF header = NoHeader THEN {}
               ELSE CandidateAsPrimary(bytes, position, header)
                      \cup CandidateAsTrailing(bytes, position, header) :
           position \in 0 .. Len(bytes)}

(* The generations read so far, each with its offset.                       *)
ValidateChain(generations, header) ==
    IF generations = <<>>
    THEN header.generation = 0 /\ header.phase = Discovered /\ header.previous = -1
    ELSE LET last == generations[Len(generations)]
         IN  /\ header.generation = last.header.generation + 1
             /\ header.previous = last.start
             /\ MayFollow(header.phase, last.header.phase)

(* Mutant: a suffix shorter than a header is taken for corruption.          *)
TornTailNeedsHeader(bytes, offset, generations) ==
    LET header == DecodeHeader(bytes, offset)
    IN  /\ header # NoHeader
        /\ offset + 2 * HeaderCells + header.len > Len(bytes)
        /\ ValidateChain(generations, header)

(* A suffix shorter than a header, or a good primary header of the next     *)
(* generation whose record does not fit.                                    *)
IsRecoverableTornTail(bytes, offset, generations) ==
    \/ Len(bytes) - offset \in 1 .. HeaderCells - 1
    \/ LET header == DecodeHeader(bytes, offset)
       IN  /\ header # NoHeader
           /\ offset + 2 * HeaderCells + header.len > Len(bytes)
           /\ ValidateChain(generations, header)

-----------------------------------------------------------------------------
(* Reading a capsule: the generations and how many cells they take.         *)

(* The state of the loop: the generations read so far, the offset behind     *)
(* them, and whether it goes on.                                            *)
Reading(generations, offset) ==
    [status |-> "reading", generations |-> generations, validated |-> offset]
Refusal == [status |-> "refused", generations |-> <<>>, validated |-> 0]

(* One round of the loop.                                                   *)
ReadGeneration(bytes, candidates, allowTornTail, s) ==
    LET here == {c \in candidates : c.start = s.validated}
        c    == CHOOSE d \in here : TRUE
    IN  IF s.status # "reading" THEN s
        ELSE IF s.validated >= Len(bytes) THEN [s EXCEPT !.status = "read"]
        ELSE IF Len(s.generations) >= MaxGenerations THEN Refusal
        ELSE IF here = {}
        THEN IF allowTornTail
                /\ IsRecoverableTornTail(bytes, s.validated, s.generations)
             THEN [s EXCEPT !.status = "read"]
             ELSE Refusal
        ELSE IF /\ Slice(bytes, s.validated + HeaderCells, c.header.len)
                      = PayloadOf(c.header)
                /\ ValidateChain(s.generations, c.header)
        THEN Reading(Append(s.generations, c),
                     s.validated + 2 * HeaderCells + c.header.len)
        ELSE Refusal

(* The loop after every number of rounds: no generation is read twice, and  *)
(* one round more than there may be generations settles it.                 *)
Walk(bytes, candidates, allowTornTail) ==
    LET walk[round \in 0 .. MaxGenerations + 1] ==
            IF round = 0 THEN Reading(<<>>, 0)
            ELSE ReadGeneration(bytes, candidates, allowTornTail, walk[round - 1])
    IN  walk

(* scan_capsule_impl. Two different headers for one offset are ambiguous.   *)
ScanImpl(bytes, allowTornTail) ==
    LET candidates == FindCandidates(bytes)
        end == IF \/ Len(bytes) > MaxCells
                  \/ \E c, d \in candidates : c.start = d.start /\ c.header # d.header
               THEN Refusal
               ELSE Walk(bytes, candidates, allowTornTail)[MaxGenerations + 1]
    IN  [ok |-> end.status = "read", generations |-> end.generations,
         validated |-> end.validated]

ScanCapsule(bytes) == ScanImpl(bytes, FALSE)
RecoverCapsule(bytes) == ScanImpl(bytes, TRUE)

(* The header that append_generation would add, NoHeader if it refuses.     *)
NextHeader(bytes, phase) ==
    LET view   == ScanCapsule(bytes)
        gens   == view.generations
        newest == gens[Len(gens)]
        header ==
            IF gens = <<>>
            THEN [generation |-> 0, phase |-> phase, len |-> EnvelopeCells,
                  previous |-> -1]
            ELSE [generation |-> newest.header.generation + 1, phase |-> phase,
                  len |-> CheckpointCells, previous |-> newest.start]
    IN  IF /\ view.ok /\ ValidateChain(gens, header)
           /\ Len(gens) < MaxGenerations
           /\ Len(bytes) + 2 * HeaderCells + header.len <= MaxCells
        THEN header ELSE NoHeader

Record(header) == EncodeHeader(header) \o PayloadOf(header) \o EncodeHeader(header)

-----------------------------------------------------------------------------
VARIABLES
    bytes,      \* the cells of the file
    store,      \* CapsuleStore.bytes: the adopted cells
    pc,         \* "absent", "open" (a process holds the lock) or "closed"
    poisoned,   \* CapsuleStore.poisoned
    acked,      \* phases whose append was acknowledged (history)
    decayed     \* generations with one bad header copy (history)

vars == <<bytes, store, pc, poisoned, acked, decayed>>

Init ==
    /\ bytes = <<>> /\ store = <<>> /\ pc = "absent" /\ poisoned = FALSE
    /\ acked = <<>> /\ decayed = {}

PhasesOf(view) ==
    [i \in 1 .. Len(view.generations) |-> view.generations[i].header.phase]

-----------------------------------------------------------------------------
(* create_new: the first generation goes into a new file; a creation that   *)
(* fails leaves what it wrote.                                              *)
CreateNew(written) ==
    /\ pc = "absent"
    /\ LET header == NextHeader(<<>>, Discovered)
       IN  /\ header # NoHeader
           /\ written \in 0 .. Len(Record(header))
           /\ bytes' = Slice(Record(header), 0, written)
           /\ \/ /\ written = Len(Record(header))
                 /\ store' = bytes' /\ acked' = <<Discovered>> /\ pc' = "open"
              \/ pc' = "closed" /\ UNCHANGED <<store, acked>>
    /\ UNCHANGED <<poisoned, decayed>>

(* append: exactly one more generation, written, flushed and adopted.       *)
AppendGeneration(phase) ==
    /\ pc = "open" /\ ~poisoned
    /\ NextHeader(store, phase) # NoHeader
    /\ bytes' = store \o Record(NextHeader(store, phase))
    /\ store' = bytes' /\ acked' = Append(acked, phase)
    /\ UNCHANGED <<pc, poisoned, decayed>>

(* append that reports an error after any part of the record was written.   *)
AppendFails(phase, written) ==
    /\ pc = "open" /\ ~poisoned
    /\ NextHeader(store, phase) # NoHeader
    /\ written \in 0 .. Len(Record(NextHeader(store, phase)))
    /\ bytes' = store \o Slice(Record(NextHeader(store, phase)), 0, written)
    /\ poisoned' = TRUE
    /\ UNCHANGED <<store, pc, acked, decayed>>

(* repair_torn_suffix: the file without its torn tail, <<>> when refused.   *)
RepairTornSuffix(file) ==
    LET view == RecoverCapsule(file)
    IN  IF ~view.ok \/ view.generations = <<>> \/ view.validated >= Len(file)
        THEN <<>>
        ELSE Slice(file, 0, view.validated)

(* restore_verified_prefix: the contents that it accepts, <<>> if refused.  *)
Reconciled ==
    LET strict == ScanCapsule(bytes)
        known  == Len(ScanCapsule(store).generations)
    IN  IF ~IsPrefix(store, bytes) THEN <<>>
        ELSE IF strict.ok
        THEN IF Len(strict.generations) \in {known, known + 1} THEN bytes ELSE <<>>
        ELSE IF RepairTornSuffix(bytes) = store THEN store ELSE <<>>

(* What was complete in the file counts as acknowledged from here on.       *)
Adopt(file) ==
    /\ bytes' = file /\ store' = file /\ poisoned' = FALSE /\ pc' = "open"
    /\ acked' = PhasesOf(ScanCapsule(file))
    /\ UNCHANGED decayed

RestoreVerifiedPrefix ==
    /\ pc = "open" /\ poisoned
    /\ Reconciled # <<>>
    /\ Adopt(Reconciled)

(* resume_recovering: strict scan first, then the torn tail is cut off.     *)
Resumed ==
    LET strict == ScanCapsule(bytes)
    IN  IF strict.ok THEN bytes ELSE RepairTornSuffix(bytes)

ResumeRecovering ==
    /\ pc = "closed"
    /\ Resumed # <<>>
    /\ Adopt(Resumed)

(* The store is dropped, or its process ends.                               *)
Drop ==
    /\ pc = "open"
    /\ pc' = "closed" /\ store' = <<>> /\ poisoned' = FALSE
    /\ UNCHANGED <<bytes, acked, decayed>>

(* One cell of one header copy of a complete generation goes bad.           *)
HeaderDecays(g, copy, part) ==
    /\ pc = "closed"
    /\ LET gens == RecoverCapsule(bytes).generations
       IN  /\ g \in (1 .. Len(gens)) \ decayed
           /\ bytes' = [bytes EXCEPT
                 ![gens[g].start + part
                   + (IF copy = "primary" THEN 0
                      ELSE HeaderCells + gens[g].header.len)] = Junk]
    /\ decayed' = decayed \cup {g}
    /\ UNCHANGED <<store, pc, poisoned, acked>>

Next ==
    \/ \E written \in 0 .. MaxCells : CreateNew(written)
    \/ \E phase \in Phases : AppendGeneration(phase)
    \/ \E phase \in Phases, written \in 0 .. MaxCells : AppendFails(phase, written)
    \/ RestoreVerifiedPrefix \/ ResumeRecovering \/ Drop
    \/ \E g \in 1 .. MaxGenerations, copy \in {"primary", "trailing"},
          part \in 1 .. HeaderCells : HeaderDecays(g, copy, part)

Spec == Init /\ [][Next]_vars

-----------------------------------------------------------------------------
(***************************************************************************)
(* Recovery reads back every acknowledged generation, in order, and at most *)
(* the one append that was in flight, wherever that append stopped and      *)
(* whichever header copy of each generation is bad (scan_capsule: "One      *)
(* header copy per generation may be corrupt").                             *)
(***************************************************************************)
RecoversAcknowledged ==
    acked # <<>> =>
        LET view == RecoverCapsule(bytes)
        IN  /\ view.ok /\ IsPrefix(acked, PhasesOf(view))
            /\ Len(view.generations) <= Len(acked) + 1

(***************************************************************************)
(* restore_verified_prefix never refuses what a failed append of the same   *)
(* store can leave, so a poisoned store can always be rolled back.          *)
(***************************************************************************)
ReconciliationAccepts == pc = "open" /\ poisoned => Reconciled # <<>>

=============================================================================
