SPECIFICATION HookSpec
CONSTANTS
    Paths <- MCPaths
    Primary = {"src", "conf", "state", "draft"}
    Below = {"state", "draft"}
    Ignored = {"state"}
    Folder <- MCFolder
    Here = "side"
    Names = {"V"}
    Segments <- MCSegments
    Bound <- MCBound
INVARIANTS
    SegmentsAsShell
    OwnBodiesOnly
    WrappersTransparent
    FleetKillDenied
    MemoryJudged
    RawCreateJudged
    ShadowLedgerWarned
    TargetsSeen
    PrimaryRefused
    RecordsRewritten
    RefusalsJustified
CHECK_DEADLOCK FALSE
