SPECIFICATION NotifyingSpec

CONSTANTS
    IdLimit = 4
    MaxResponses = 3
    MaxQueue = 3
    Faults = {}

INVARIANTS
    NeverRejected

PROPERTIES
    DisconnectEnds
