SPECIFICATION Spec

CONSTANTS
    IdLimit = 4
    MaxResponses = 2
    MaxQueue = 2
    Faults = {"repeat", "silent", "garble", "gone"}

INVARIANTS
    Listening
    OwnAnswers

PROPERTIES
    ExchangeEnds
