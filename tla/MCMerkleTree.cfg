CONSTANTS
    MaxLeaves = 18
SPECIFICATION Spec
INVARIANTS
    NoPanic
    LoopsMatchReference
    PathProvesItsLeaf
    PathVerifiesItsLeaf
CHECK_DEADLOCK FALSE
