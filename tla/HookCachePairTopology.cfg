SPECIFICATION Spec
CONSTANTS
    Procs = {p1, p2}
    N = 2
    MaxWrites = 2
INVARIANT
    OneHopTopology
