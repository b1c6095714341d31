SPECIFICATION Spec
CONSTANTS
    Process = {p1, p2}
    Policies <- MCPolicies
    Hour = 2
    MaxAttempts = 3
    Never = Never
    NoLimit = NoLimit
    Broken = Broken
    MaxTime = 3
    MaxCommands = 4
    MaxFailures = 1
INVARIANTS AntiSpamHolds DuplicatesOnlyUnconfirmed
SYMMETRY Sym
PROPERTY SilenceHasCause
\* Commands and time are bounded.
CHECK_DEADLOCK FALSE
