CONSTANTS
    HeaderCells = 2
    EnvelopeCells = 3
    CheckpointCells = 1
    MaxGenerations = 3
    MaxCells = 20
SPECIFICATION Spec
INVARIANTS
    RecoversAcknowledged
    ReconciliationAccepts
CHECK_DEADLOCK FALSE
