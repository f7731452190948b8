CONSTANTS
    mv = mv
    st = st
    bk = bk
    b1 = b1
    b2 = b2
    pay = pay
    Blocks = {mv, st, bk, b1, b2, pay}
    Moved = {mv}
    From <- FromStaged
    Staging = {st}
    Backup = {bk}
    Boot = {b1, b2}
    Payload = {pay}
    MaxGenerations = 8
    Faults = {"exit", "power", "corrupt"}
    MaxFaults = 2
SPECIFICATION Spec
PROPERTIES
    DecisionsAreExact
CHECK_DEADLOCK FALSE
