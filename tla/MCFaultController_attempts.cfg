\* Two attempts, a restart of the controller, repeated barrier calls, writes that fail.
CONSTANTS
    t = t
    w = w
    e1 = e1
    e2 = e2
    None = None
    Role = {t, w}
    Event = {e1, e2}
    NAttempts = 2
    RolesOf <- TwoRoles
    AttemptOf <- TwoAttempts
    Target <- TwoTargets
    Waiters <- TwoWaiters
    MaxCalls <- CallTwice
    MaxRuns = 2
    DiskFails = TRUE
SPECIFICATION FairSpec
ACTION_CONSTRAINT FailsHarmlessly
INVARIANTS KillAtCut BarrierHolds AttemptsDisjoint CleanedUp
PROPERTIES Terminates
CHECK_DEADLOCK FALSE
