SPECIFICATION ConnFairSpec
CONSTANTS
    Sockets = {s1, s2, s3}
    Requests = {r1, r2, r3}
    None = None
    Attempts = 3
    Lowest <- MCLowest
INVARIANTS
    ConnTypeOK
    NeverStranded
    IndicatorAgrees
PROPERTIES
    Reconnects
