\* A wall-clock step backwards during a drain, checked against the doc
\* comment of MaybeIdleIn (the wait is based on IdleThreshold).
CONSTANTS
    c1 = c1
    c2 = c2
    c3 = c3
    Conns <- MCConns2
    IdleThreshold = 2
    ExitTimeout = 3
    MaxTime = 6
    ClockSkew = 1
SPECIFICATION Spec
INVARIANT IdleInBounded
CHECK_DEADLOCK FALSE
