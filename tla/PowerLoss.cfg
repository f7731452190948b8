CONSTANTS
    mv = mv
    st = st
    bk = bk
    b1 = b1
    b2 = b2
    pay = pay
    Blocks = {mv, st, bk, b1, b2, pay}
    Moved = {}
    From <- FromNone
    Staging = {st}
    Backup = {bk}
    Boot = {b1, b2}
    Payload = {pay}
    MaxGenerations = 8
    Faults = {"power"}
    MaxFaults = 3
SPECIFICATION FairSpec
INVARIANTS
    ActivationGated
    SourceRecoverable
    DecisionDurable
    AcknowledgedIsDurable
PROPERTIES
    DecisionsAreFinal
    ConvertsAtomically
    RecoveryTerminates
CHECK_DEADLOCK FALSE
