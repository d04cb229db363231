CONSTANTS
    p1 = p1  p2 = p2
    g1 = g1  g2 = g2
    s1 = s1  s2 = s2  t1 = t1  t2 = t2
    Proc = {p1, p2}
    Group = {g1, g2}
    Sample = {s1, s2, t1, t2}
    Late = {s2, t2}
    GroupOf <- MCGroupOf
    V1 <- MCV1
    V2 <- MCV2
    Fault <- MCFault
    Modes = {"single", "group"}
    AutoFix = TRUE
    Exclusive = TRUE
    MaxCount = 3
SPECIFICATION Spec
INVARIANTS OneLine  CrashIsReplayed
CHECK_DEADLOCK FALSE
