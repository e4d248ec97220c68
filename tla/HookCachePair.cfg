SPECIFICATION Spec
CONSTANTS
    Procs = {p1, p2}
    N = 2
    MaxWrites = 3
SYMMETRY Symmetry
INVARIANTS
    OneHopInSequence
    BackfillRecorded
    CleanPassReportsTruth
PROPERTIES
    RecordKept
    UnmanagedPreserved
    Idempotent
