SPECIFICATION FairSpec
CONSTANTS
    Conns = {d1, d2}
    Pages = {h1}
    Sockets = {w1}
    None = None
    MaxSent = 2
INVARIANTS
    RelayTypeOK
    OneDog
    SocketsServed
    WaitersListed
PROPERTIES
    CallSpec
    AnswerArrives
CHECK_DEADLOCK FALSE
