-------------------------- MODULE MCCandidateExport --------------------------
(* Small sets of exports for model checking CandidateExport.                *)
EXTENDS CandidateExport

CONSTANTS p1, p2, out, esc

(* One export with a sidecar.                                               *)
OutOne == [p \in {p1} |-> out]
EscOne == [p \in {p1} |-> esc]

(* Two exports to the same name, one of them with a sidecar.                *)
OutSame == [p \in {p1, p2} |-> out]
EscOfFirst == [p \in {p1, p2} |-> IF p = p1 THEN esc ELSE NoPath]
=============================================================================
