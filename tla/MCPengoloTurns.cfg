CONSTANTS
    Generations = {g1, g2}
    Sources = {}
    Unrecorded = {}
    None = None
    Projects = {p1, p2}
    Home = p1
    Pieces = 1
    Attempts = 1
    Page = 1
    Edits = 1
    Faults = 0
    Kinds = {FALSE}
    Watched = {}
SYMMETRY Symmetry
SPECIFICATION Spec
INVARIANTS ActiveMatches OneAnswer EvidenceCovers
PROPERTIES SettledIsFinal
CHECK_DEADLOCK FALSE
