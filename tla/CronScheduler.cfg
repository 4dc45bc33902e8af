\* One job, one worker; three job operations, and start, a fault and a restart.
SPECIFICATION Spec
CONSTANTS
    Jobs = {j1}
    Workers = {w1}
    Crons = {"slow"}
    utc = utc  east = east
    Zones = {utc}
    Minute <- MCMinute
    Local <- MCLocal
    Nil = nil
    Never = never
    Consumed = consumed
    MaxPerJob = 1
    MaxPending = 2
    TickPerJob = 2
    TickPending = 2
    MaxNow = 2
    MaxRuns = 3
    MaxEdits = 3
    MaxEvents = 3
INVARIANTS
    BacklogBounded
PROPERTIES
    QueuedRunsEnd
    DueOneShotFires
CHECK_DEADLOCK FALSE
