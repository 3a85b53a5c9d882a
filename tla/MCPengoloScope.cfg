CONSTANTS
    Generations = {g1}
    Sources = {}
    Unrecorded = {}
    None = None
    Projects = {p1, p2}
    Home = p1
    Pieces = 1
    Attempts = 1
    Page = 1
    Edits = 1
    Faults = 0
    Kinds = {FALSE}
    Watched = {}
SPECIFICATION Spec
INVARIANTS SameScope
CHECK_DEADLOCK FALSE
