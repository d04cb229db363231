\* Five items in batches of two, four sessions, crashes, failed writes, power failures.
CONSTANTS
    Items = 5
    BatchSize = 2
    MaxSessions = 4
    PowerMayFail = TRUE
SPECIFICATION Spec
INVARIANTS JournalFollowsSource RedeliversAll
PROPERTIES SnapshotsAnchor
CHECK_DEADLOCK FALSE
