SPECIFICATION FairSpec
CONSTANTS
    Block = 2
    Room = 2
    Chunks = {1, 2}
    Track = 5
    Targets = {0, 2, 3}
INVARIANTS
    AudioTypeOK
    NoMissedData
    OldAudioBounded
PROPERTIES
    EndAtEnd
    WaitingReaderLeaves
CHECK_DEADLOCK FALSE
