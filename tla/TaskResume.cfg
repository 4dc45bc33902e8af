CONSTANTS
    t1 = t1  t2 = t2
    r1 = r1  r2 = r2
    Tasks = {t1, t2}
    Requests = {r1, r2}
    Limit = 1
    MaxTurns = 2
    NoTask = NoTask
    Absent = Absent
SPECIFICATION FairSpec
CHECK_DEADLOCK FALSE
INVARIANTS
    ClaimIsExclusive
    SnapshotsRunOnce
    OrphanNeedsFailure
    StoreBounded
PROPERTIES
    NoRunAfterCancel
    TerminalIsFinal
    ImplementsLifecycle
    ClaimIsSettled
