SPECIFICATION Spec
CONSTANTS
    server = server
    cli = cli
    s1 = s1
    s2 = s2
    c1 = c1
    Proc <- MCProc
    Thread <- MCThread
    ProcOf <- MCProcOf
    Loader = {s1}
    Saver = {c1}
    Cleaner = {s2}
    Deleter = {s2}
    Ticker = {"A"}
    Interval <- MCInterval
    Day <- MCDay
    Fetched = {1}
    Cutoff = {2}
    TTL = 2
    MaxEntries = 1
    MaxIO = 0
    MaxTime = 2
    MaxSaves = 2
INVARIANTS
    CleanTakesEffect
