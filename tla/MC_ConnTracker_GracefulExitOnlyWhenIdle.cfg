CONSTANTS
    c1 = c1
    c2 = c2
    c3 = c3
    Conns <- MCConns2
    IdleThreshold = 2
    ExitTimeout = 3
    MaxTime = 6
    ClockSkew = 0
SPECIFICATION Spec
INVARIANT GracefulExitOnlyWhenIdle
CHECK_DEADLOCK FALSE
