SPECIFICATION FairSpec
CONSTANTS
    FirstSize = 3
    ChunkSize = 4
    MaxPayload = 2
    MaxElements = 2
    Size = {1, 5}
    MaxMessages = 2
    MaxUint = 7
CHECK_DEADLOCK FALSE
INVARIANTS
    BufferSound
    ReadsAsAnswered
    CountsAnswers
    Accounted
PROPERTY ResultsEnd
