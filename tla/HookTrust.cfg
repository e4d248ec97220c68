SPECIFICATION Spec
CONSTANTS
    Procs = {p1}
    OwnKeys = {a, b}
    OtherKeys = {x}
    MaxWrites = 2
SYMMETRY Symmetry
INVARIANTS
    EstablishedFromRelease
    VerifiedBeforeWrite
    ReportTrue
PROPERTIES
    OperatorChoicesKept
