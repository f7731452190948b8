-------------------------- MODULE AtomicConversion --------------------------
(***************************************************************************)
(* What docs/SAFETY.md promises of one conversion, with no executor, store  *)
(* or crash in sight: until the conversion is decided, the two files yield  *)
(* the complete source, the complete target, or either; a decision is taken *)
(* once, for a view that they yield, and that view is never lost.           *)
(***************************************************************************)
VARIABLES
    decision,   \* what the capsule on the medium says of the transaction
    views       \* the complete volumes that image and capsule yield

Volumes == {"source", "target"}

Init == decision = "open" /\ views = {"source"}

(* Work, crashes and recovery while undecided may change which views exist, *)
(* and always leave one.                                                    *)
Work ==
    /\ decision = "open" /\ decision' = "open"
    /\ views' \in (SUBSET Volumes) \ {{}}

Decide(volume) ==
    /\ decision = "open" /\ volume \in views
    /\ decision' = volume /\ views' = {volume}

Next == Work \/ \E volume \in Volumes : Decide(volume)

Spec == Init /\ [][Next]_<<decision, views>>
=============================================================================
