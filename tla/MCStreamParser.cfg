CONSTANTS
    m1 = m1
    m2 = m2
    id1 = id1
    id2 = id2
    None = None
    InputLines <- MCLines
    MaxLines = 3
    Buffer = 2
    MaxBytes = 4
SPECIFICATION Spec
INVARIANTS
    LimitExact
    LatestMessage
    NotificationsMean
    ThreadAnnounced
