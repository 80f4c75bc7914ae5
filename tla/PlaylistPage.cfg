SPECIFICATION Spec
CONSTANTS
    Lists = {p1, p2}
    MaxTime = 2
    MaxMoves = 1
    MaxWaiting = 2
SYMMETRY MCSymmetry
INVARIANTS
    PageTypeOK
    TableFresh
