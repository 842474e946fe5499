\* Two connections dialled, used and closed around a shutdown while the wall
\* clock may be stepped by one tick either way at any time (NTP, an
\* operator); the timers and sleeps of the drain loop follow the monotonic
\* clock.  The process stops at exit, so deadlock is not checked.
CONSTANTS
    c1 = c1
    c2 = c2
    c3 = c3
    Conns <- MCConns2
    IdleThreshold = 2
    ExitTimeout = 3
    MaxTime = 6
    ClockSkew = 1
SPECIFICATION Spec
INVARIANT NoSpuriousDelay
INVARIANT IdleInWithinSkew
CHECK_DEADLOCK FALSE
