CONSTANTS
    Group = {1, 2}
    Sample <- MCSample
    GroupOf <- MCGroupOf
    Variants = {"O", "R", "DBM", "LOGM", "BOTHM"}
    Limits <- MCLimits
    MaxCalls = 3
    MaxFaults = 2
SPECIFICATION AdapterSpec
INVARIANT ExportIsWhole
PROPERTY ReturnsInOrder
CHECK_DEADLOCK FALSE
