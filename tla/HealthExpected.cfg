SPECIFICATION Spec
CONSTANTS
    Plugins = {a}
    Pids = {1, 2}
    Manual = {2}
    ExpectPid = TRUE
    StaleAfter = 2
    MaxTime = 4
    MaxChanges = 2
PROPERTIES
    VerdictOfThisRun
    RaisesOnlyOnNewcomers
CHECK_DEADLOCK FALSE
