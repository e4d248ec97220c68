SPECIFICATION Spec
CONSTANTS
    MaxAge = 0
    Ahead = 1
    MaxTime = 1
    MaxChanges = 3
PROPERTIES
    UndisturbedDecision
    AllowedOnEvidence
    BlockedOnce
