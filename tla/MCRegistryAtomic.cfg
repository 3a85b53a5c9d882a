SPECIFICATION Spec
CONSTANTS
    Calls = {c1, c2}
    None = None
    MaxRevisions = 4
    MaxWrites = 3
    Delayed = 1
INVARIANTS
    AtomicRevision
CHECK_DEADLOCK FALSE
