CONSTANTS
    Nil = Nil
    Groups = {"g1", "g2"}
    Target = "g2"
    Window = 8
    MaxSaves = 2
    MaxUpdates = 2
    MaxLoads = 2
    MaxAttempts = 2
    MaxTurns = 3
    MaxLies = 1
SPECIFICATION OracleSpec
CONSTRAINT Few
ACTION_CONSTRAINT Prompt
INVARIANTS PassIsTrue TruthPasses 
CHECK_DEADLOCK FALSE
