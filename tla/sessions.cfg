SPECIFICATION Spec
CONSTANTS
    Request = {r1, r2}
    Name = {"anna"}
    User = {"anna"}
    Client = {"laptop"}
    Idle = 2
    Absolute = 3
    TouchEvery = 1
    LoginMaxFailures = 1
    LoginWindow = 2
    None = None
    MaxTime = 3
    MaxSpan = 1
    MaxLogins = 3
    Token = {t1, t2}
    MaxChanges = 1
SYMMETRY Sym
INVARIANT FailuresAreBounded
PROPERTIES ChangesAreBacked SessionsEndForCause
\* Time and the number of requests are bounded.
CHECK_DEADLOCK FALSE
