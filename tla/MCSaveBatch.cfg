SPECIFICATION Spec
CONSTANTS
    Keys = {1, 2}
    Values = {v1, v2}
    None = None
    Batches = {b1, b2}
    MaxOps = 3
SYMMETRY ValueSymmetry
\* MaxOps bounds how many operations are begun.
CHECK_DEADLOCK FALSE
INVARIANTS
    AnswersAreTrue
    NothingIsLost
PROPERTY SavesAreTakenLast
