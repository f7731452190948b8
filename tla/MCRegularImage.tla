--------------------------- MODULE MCRegularImage ---------------------------
(* Small plans for model checking RegularImage.                             *)
EXTENDS RegularImage

CONSTANTS mv, st, bk, b1, b2, pay

(* One relocation whose source is overwritten by target staging.            *)
FromStaged == [d \in {mv} |-> st]

(* A plan without relocations.                                              *)
FromNone == [d \in {} |-> st]
=============================================================================
