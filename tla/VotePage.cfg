SPECIFICATION Spec
CONSTANTS
    Tracks = {t1, t2}
    Votes = 1
    MaxTime = 2
    MaxVersion = 2
    MaxWaiting = 1
SYMMETRY MCSymmetry
INVARIANTS
    
    UserFresh
