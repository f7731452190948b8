CONSTANTS
    mv = mv
    st = st
    bk = bk
    b1 = b1
    b2 = b2
    pay = pay
    Blocks = {mv, st, bk, b1, b2, pay}
    Moved = {mv}
    From <- FromStaged
    Staging = {st}
    Backup = {bk}
    Boot = {b1, b2}
    Payload = {pay}
    MaxGenerations = 8
    Faults = {"exit", "power"}
    MaxFaults = 2
SPECIFICATION Spec
INVARIANTS
    SourceRecoverable
CHECK_DEADLOCK FALSE
