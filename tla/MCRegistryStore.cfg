SPECIFICATION Spec
CONSTANTS
    Calls = {c1, c2}
    None = None
    MaxRevisions = 4
    MaxWrites = 2
    Delayed = 1
INVARIANTS
    TornOnlyIfLate
    AckedIsNext
PROPERTIES
    ImplementsRevisionLog
