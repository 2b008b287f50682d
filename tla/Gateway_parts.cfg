SPECIFICATION PartsSpec
CONSTANTS
    FirstOutputTimeout = 2
    MaxPieces = 4
    MaxElapsed = 3
    Upstreams <- Supported
    Direct = "direct"
    Base <- ListBase
    Files <- ListFiles
    Worlds <- ListWorlds
    Down = "down"
    Unknown = "unknown"
    Target = 2
    MaxCopies = 3
    MaxChanges = 1
    Callers = {r1, r2}
    MaxTries = 2
    MaxRecords = 2
    MaxClock = 3
INVARIANTS NothingLost FinishBeforeDone OkMeansComplete
INVARIANTS AnnouncedOnce ClosedBeforeCompleted
INVARIANTS BaseStays
INVARIANTS RowPerRequest RowTellsAnswer
PROPERTIES RelaysBody OutputOrReturn OneInServicePerAddress RefreshKeepsSlots ListServedThere
CHECK_DEADLOCK FALSE
