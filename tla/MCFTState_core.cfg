\* Two groups drawn in either order under one owner; two owners in turn with a worker
\* over one group and two generations; two attempts and two bodies of one sample.
CONSTANTS
    p1 = p1
    p2 = p2
    x1 = x1
    x2 = x2
    u1 = u1
    u2 = u2
    Proc = {p1, p2}
    Group = {"g1", "g2"}
    K = 1
    AttemptId = {"a1", "a2"}
    Version = {"v1"}
    Body = {"b1", "b2"}
    Update = {u1, u2}
    Batches <- OneEach
    Workers = {"none", "alive"}
    Gen = {x1, x2}
    Rank = {"r1"}
    Draws <- TwoGroups
    None = None
SPECIFICATION Spec
CONSTRAINT Either
INVARIANTS TokenIsFinal FencedOwner RecoveryKeepsCommitted
PROPERTIES RefinesLedger ResultIsStable TokenIsAuthorized
CHECK_DEADLOCK FALSE
