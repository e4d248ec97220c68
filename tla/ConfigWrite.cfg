SPECIFICATION FairSpec
CONSTANTS
    Writers = {w1, w2}
    Keys = {k1, k2}
    Values = {a, b}
    Unset = unset
    MaxEdits = 2
    Unrecognized = {2}
INVARIANTS
    NoDriverUpdateLost
    NeverTorn
    LockHeldInside
PROPERTIES
    CodexRollbackOnlyInWindow
    RefinesAtomicConfig
    EveryCallReturns
