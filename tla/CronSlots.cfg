\* The same with two time zones: what a minute may fire.
SPECIFICATION Spec
CONSTANTS
    Jobs = {j1}
    Workers = {w1}
    Crons = {"slow"}
    utc = utc  east = east
    Zones = {utc, east}
    Minute <- MCMinute
    Local <- MCLocal
    Nil = nil
    Never = never
    Consumed = consumed
    MaxPerJob = 1
    MaxPending = 2
    TickPerJob = 2
    TickPending = 2
    MaxNow = 2
    MaxRuns = 3
    MaxEdits = 3
    MaxEvents = 3
INVARIANTS
    OncePerSlot
CHECK_DEADLOCK FALSE
