SPECIFICATION Spec
CONSTANTS
    Graphs = {draft, partial, first}
    Structured = {partial, first}
    Executable = {first}
    Branches = {b1, b2}
    Ontologies = {o1, o2}
    None = None
    MaxBranches = 2
    Sessions <- MCSessions
INVARIANTS
    ProductionIsSound
    ReferencesLive
PROPERTIES
    MergesWhatWasProposed
