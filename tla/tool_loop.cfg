\* Every conversation of a model that may call two tools at a time.
SPECIFICATION FairSpec
CONSTANTS
    CallId = {"c1", "c2"}
    MaxTurnsSettings <- MCSettings
    DefaultMaxTurns = 2
    MaxCalls = 2
CHECK_DEADLOCK FALSE
INVARIANTS
    TypeOK
    CallsAnswered
    ResultsWanted
    TurnsCounted
PROPERTIES
    Terminates
