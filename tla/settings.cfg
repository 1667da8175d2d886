\* Every layer of a setting, in every combination, for each kind of setting.
SPECIFICATION Spec
CONSTANTS
    Nil = Nil
    Kinds = {"budget", "switch", "level", "text"}
    Empty = ""
    Text <- MCText
    Flag = {"setting", "prompt"}
    Setting = "setting"
    ArgvOf <- MCArgv
    Environment = {Nil, "", "7", "010", "0", "-3", "0x10", "1_000", "true", "yes", "no", "extended"}
    OverridesOf <- MCOverrides
    DefaultOf <- MCDefault
CHECK_DEADLOCK FALSE
INVARIANTS
    ExplicitIsGiven
    PrecedenceKept
    EffectiveUsable
