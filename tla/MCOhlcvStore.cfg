SPECIFICATION Spec
CONSTANTS
    server = server
    cli = cli
    s1 = s1
    s2 = s2
    c1 = c1
    Proc <- MCProc
    Thread <- MCThread
    ProcOf <- MCProcOf
    Loader = {s1}
    Saver = {c1}
    Cleaner = {s2}
    Deleter = {s2}
    Ticker = {"A"}
    Interval <- MCInterval
    Day <- MCDay
    Fetched = {1}
    Cutoff = {2}
    TTL = 1
    MaxEntries = 1
    MaxIO = 1
    MaxTime = 2
    MaxSaves = 2
INVARIANTS
    TypeOK
    StaleBound
    StaleEntryExplained
    UncontendedWritesKept
