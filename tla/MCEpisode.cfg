CONSTANTS
    s1 = s1  s2 = s2  t1 = t1  t2 = t2
    Sample = {s1, s2}
    Text = {t1, t2}
    GroupOf <- MCGroupOf
    None = None
    MaxAttempt = 2
    MaxEpoch = 2
    MaxCancel = 1
SPECIFICATION Spec
CONSTRAINT Few
INVARIANTS NoConflict OneResult
PROPERTY IntentIsCurrent
CHECK_DEADLOCK FALSE
