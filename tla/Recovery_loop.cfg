\* Four steps, one retry, the newest two checkpoints kept, an injector and a watcher that dies.
CONSTANTS
    Target = 4
    Keep = 2
    MaxRetries = 1
    KillAfter = 2
    MaxCrash = 1
    MaxWatch = 2
    None = None
    Torn = Torn
SPECIFICATION FairSpec
INVARIANTS FallbackKept
PROPERTIES CommittedNotRetrained LoopSettles
CHECK_DEADLOCK FALSE
