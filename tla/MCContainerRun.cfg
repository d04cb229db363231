CONSTANTS
    a = a  b = b  e1 = e1  e2 = e2  None = None
    Pid = {2, 3, 4}
    Launcher = 2
    Role = {a, b}
    Schedule <- MCSchedule
    Waiters <- MCWaiters
    Target <- MCTarget
    Asks <- MCAsks
    MaxForks = 4
SPECIFICATION Spec
CONSTRAINT Few
INVARIANTS AncestryHeld  SuccessIsClean
CHECK_DEADLOCK FALSE
