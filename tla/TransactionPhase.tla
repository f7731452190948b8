-------------------------- MODULE TransactionPhase --------------------------
EXTENDS Integers

(* TransactionPhase, with the discriminants of the on-disk header.          *)
Discovered        == 0
Reserved          == 1
Relocating        == 2
TargetStaged      == 3
BackupBootWritten == 4
Activated         == 5
Verified          == 6
Finalized         == 7
RolledBack        == 8
Phases            == 0 .. 8

MayFollow(next, previous) ==
    /\ previous \notin {Finalized, RolledBack}
    /\ next = RolledBack \/ next = previous + 1
=============================================================================
