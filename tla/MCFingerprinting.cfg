CONSTANTS
    Ids <- MCIds
    QueueLimit = 1
    MaxPackets = 3

SPECIFICATION HSpec

INVARIANTS
    TypeOK
    GuessSummarisesRound
PROPERTIES
    ImplementsFingerprinting
