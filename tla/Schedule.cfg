CONSTANTS
    daily = daily
    hourly = hourly
    Job = {daily}
    Cmd = {c1}
    Every <- Daily
    Reasons = {w1}
    MaxTime = 2
    MaxFaults = 1
    Faults = {"edit", "break", "save", "crash"}
SPECIFICATION FairSpec
INVARIANTS TypeOK OncePerDue CommandsKept SuperHears
PROPERTIES SaidOnce DueRuns
CHECK_DEADLOCK FALSE
