CONSTANTS
    Generations = {g1}
    Sources = {}
    Unrecorded = {}
    None = None
    Projects = {p1}
    Home = p1
    Pieces = 2
    Attempts = 2
    Page = 1
    Edits = 0
    Faults = 2
    Kinds = {FALSE, TRUE}
    Watched = {}
SPECIFICATION FairSpec
INVARIANTS TextIsPrefix
PROPERTIES LeaseRespected EveryTurnEnds
CHECK_DEADLOCK FALSE
