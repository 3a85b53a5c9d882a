CONSTANTS
    Generations = {g1}
    Sources = {e1, e2}
    Unrecorded = {e2}
    None = None
    Projects = {p1}
    Home = p1
    Pieces = 1
    Attempts = 1
    Page = 1
    Edits = 0
    Faults = 0
    Kinds = {FALSE, TRUE}
    Watched = {}
SPECIFICATION Spec
INVARIANTS AllEvidenceCovers
CHECK_DEADLOCK FALSE
