----------------------------- MODULE ConnTracker -----------------------------
(***************************************************************************)
(* The connection tracker of the proxy (pkg/smokescreen/conntrack) and the *)
(* shutdown drain that polls it.                                           *)
(*                                                                         *)
(* Every upstream connection is wrapped in an InstrumentedConn that is     *)
(* stored in the tracker's sync.Map, counted in its WaitGroup, stamps its  *)
(* LastActivity on every read or write and is removed on Close.  On        *)
(* shutdown the server stops accepting and a drain loop repeatedly calls   *)
(* MaybeIdleIn, sleeping for the duration it returns, until it returns 0   *)
(* (graceful exit) or the exit timeout fires (forced exit).                *)
(*                                                                         *)
(* MaybeIdleIn is not atomic: sync.Map.Range walks a snapshot of the keys  *)
(* taken when it starts, skips keys deleted since, never visits keys       *)
(* stored since, and reads the clock once per key.  Each key visit is one  *)
(* step, so connections are dialled, written and closed in between.       *)
(*                                                                         *)
(* Time is counted in ticks.  The monotonic clock "now" drives timers and  *)
(* sleeps; time.Now().UnixNano() is the wall clock, which an NTP or        *)
(* operator step may move by up to ClockSkew ticks either way.  Durations  *)
(* are integers.                                                           *)
(***************************************************************************)
EXTENDS Integers, FiniteSets

CONSTANTS
    Conns,          \* the upstream connections the proxy may open
    IdleThreshold,  \* Tracker.IdleThreshold
    ExitTimeout,    \* Config.ExitTimeout, bound on the drain
    MaxTime,        \* the last clock value the model explores
    ClockSkew       \* the largest wall-clock step from the monotonic clock

ASSUME ConstAssumption ==
    /\ IsFiniteSet(Conns)
    /\ IdleThreshold \in Nat \ {0}
    /\ ExitTimeout \in Nat \ {0}
    /\ MaxTime \in Nat
    /\ ExitTimeout <= MaxTime
    /\ ClockSkew \in Nat

VARIABLES
    now,            \* the monotonic clock (timers, time.Sleep)
    skew,           \* wall clock minus monotonic clock
    status,         \* lifecycle of each connection of Conns
    lastActivity,   \* *InstrumentedConn.LastActivity (UnixNano)
    tracked,        \* the keys of the tracker's sync.Map
    wg,             \* the counter of Tracker.Wg
    trackerShuttingDown, \* Tracker.ShuttingDown as the wrappers read it
    phase,          \* the server: "serving", "draining" or "exited"
    exitKind,       \* how the process exited: "none", "graceful", "forced"
    deadline,       \* when the exit timeout fires
    loop,           \* the drain loop: "idle", "polling", "ranging", "sleeping"
    snapshot,       \* the keys the running Range walks
    visited,        \* the keys it has visited so far
    longest,        \* MaybeIdleIn's local variable longest
    wakeAt,         \* when the sleeping drain loop polls again
    pollActive      \* history: connections not idle at some instant of the
                    \* running poll (read only by properties)

vars == <<now, skew, status, lastActivity, tracked, wg, trackerShuttingDown, phase,
          exitKind, deadline, loop, snapshot, visited, longest, wakeAt,
          pollActive>>

Status == {"none", "accepted", "open", "closed"}
Time == 0..MaxTime
Skews == -ClockSkew..ClockSkew
WallTime == -ClockSkew..(MaxTime + ClockSkew)

\* time.Now().UnixNano(): the wall clock.
Wall == now + skew

\* A tracked connection is idle once IdleThreshold has passed since its last
\* activity.
IsIdle(c) == Wall - lastActivity[c] >= IdleThreshold

TypeOK ==
    /\ now \in Time
    /\ skew \in Skews
    /\ status \in [Conns -> Status]
    /\ lastActivity \in [Conns -> WallTime]
    /\ tracked \subseteq Conns
    /\ wg \in Int
    /\ trackerShuttingDown \in BOOLEAN
    /\ phase \in {"serving", "draining", "exited"}
    /\ exitKind \in {"none", "graceful", "forced"}
    /\ deadline \in Time
    /\ loop \in {"idle", "polling", "ranging", "sleeping"}
    /\ snapshot \subseteq Conns
    /\ visited \subseteq Conns
    /\ longest \in Int
    /\ wakeAt \in Int
    /\ pollActive \subseteq Conns

-----------------------------------------------------------------------------
(* NewTracker: an empty map and WaitGroup.  The ShuttingDown atomic.Value  *)
(* is received by value, so the tracker holds a copy of the caller's flag  *)
(* as it was then (false): later stores by the caller are not seen.        *)
Init ==
    /\ now = 0
    /\ skew = 0
    /\ status = [c \in Conns |-> "none"]
    /\ lastActivity = [c \in Conns |-> 0]
    /\ tracked = {}
    /\ wg = 0
    /\ trackerShuttingDown = FALSE
    /\ phase = "serving"
    /\ exitKind = "none"
    /\ deadline = 0
    /\ loop = "idle"
    /\ snapshot = {}
    /\ visited = {}
    /\ longest = 0
    /\ wakeAt = 0
    /\ pollActive = {}

DrainVars == <<deadline, loop, snapshot, visited, longest, wakeAt>>

(* The listener accepts a request that will need connection c.  Only while *)
(* serving: shutdown closes the listener.                                  *)
Accept(c) ==
    /\ phase = "serving"
    /\ status[c] = "none"
    /\ status' = [status EXCEPT ![c] = "accepted"]
    /\ UNCHANGED <<now, skew, lastActivity, tracked, wg, trackerShuttingDown, phase,
                   exitKind, pollActive, DrainVars>>

(* Variant: LastActivity initialised to the idle deadline, not to now.    *)
NewInstrumentedConnIdleAt(c) ==
    /\ phase /= "exited"
    /\ status[c] = "accepted"
    /\ status' = [status EXCEPT ![c] = "open"]
    /\ lastActivity' = [lastActivity EXCEPT ![c] = Wall + IdleThreshold]
    /\ tracked' = tracked \cup {c}
    /\ wg' = wg + 1
    /\ pollActive' = pollActive \cup {c}
    /\ UNCHANGED <<now, skew, trackerShuttingDown, phase, exitKind, DrainVars>>

(* NewInstrumentedConn after the upstream dial of an accepted request,     *)
(* which may still happen while draining: LastActivity is now, the wrapper *)
(* is stored in the map and Wg.Add(1).                                     *)
NewInstrumentedConn(c) ==
    /\ phase /= "exited"
    /\ status[c] = "accepted"
    /\ status' = [status EXCEPT ![c] = "open"]
    /\ lastActivity' = [lastActivity EXCEPT ![c] = Wall]
    /\ tracked' = tracked \cup {c}
    /\ wg' = wg + 1
    /\ pollActive' = pollActive \cup {c}
    /\ UNCHANGED <<now, skew, trackerShuttingDown, phase, exitKind, DrainVars>>

(* InstrumentedConn.Read or Write: refused once the tracker's ShuttingDown *)
(* flag is set, otherwise an atomic store of time.Now() into LastActivity. *)
ConnIO(c) ==
    /\ phase /= "exited"
    /\ status[c] = "open"
    /\ ~trackerShuttingDown
    /\ lastActivity' = [lastActivity EXCEPT ![c] = Wall]
    /\ pollActive' = pollActive \cup {c}
    /\ UNCHANGED <<now, skew, status, tracked, wg, trackerShuttingDown, phase,
                   exitKind, DrainVars>>

(* InstrumentedConn.Close, called by each splice direction and by error    *)
(* paths, so possibly more than once: the first call deletes the key and   *)
(* calls Wg.Done(); later calls return at the closed check, a stuttering   *)
(* step.                                                                   *)
Close(c) ==
    /\ phase /= "exited"
    /\ status[c] = "open"
    /\ status' = [status EXCEPT ![c] = "closed"]
    /\ tracked' = tracked \ {c}
    /\ wg' = wg - 1
    /\ UNCHANGED <<now, skew, lastActivity, trackerShuttingDown, phase, exitKind,
                   pollActive, DrainVars>>

(* The shutdown signal: the server stops accepting, arms the exit timeout  *)
(* and starts the drain loop.  Only shutdowns whose deadline falls within  *)
(* the explored horizon MaxTime are considered.                            *)
Signal ==
    /\ phase = "serving"
    /\ now + ExitTimeout <= MaxTime
    /\ phase' = "draining"
    /\ deadline' = now + ExitTimeout
    /\ loop' = "polling"
    /\ UNCHANGED <<now, skew, status, lastActivity, tracked, wg,
                   trackerShuttingDown, exitKind, snapshot, visited, longest,
                   wakeAt, pollActive>>

(* MaybeIdleIn starts (first call, or after the loop's sleep): longest is  *)
(* 0 and Range takes its snapshot of the map's keys.                       *)
MaybeIdleInStart ==
    /\ phase = "draining"
    /\ \/ loop = "polling"
       \/ loop = "sleeping" /\ now >= wakeAt
    /\ loop' = "ranging"
    /\ longest' = 0
    /\ snapshot' = tracked
    /\ visited' = {}
    /\ pollActive' = {c \in tracked : ~IsIdle(c)}
    /\ UNCHANGED <<now, skew, status, lastActivity, tracked, wg,
                   trackerShuttingDown, phase, exitKind, deadline, wakeAt>>

(* Variant: idleAt rounded up one tick past LastActivity + IdleThreshold. *)
RangeVisitRoundUp(c) ==
    /\ phase = "draining"
    /\ loop = "ranging"
    /\ c \in snapshot \ visited
    /\ visited' = visited \cup {c}
    /\ LET idleIn == lastActivity[c] + IdleThreshold + 1 - Wall
       IN  longest' = IF c \in tracked /\ idleIn > longest
                      THEN idleIn ELSE longest
    /\ UNCHANGED <<now, skew, status, lastActivity, tracked, wg,
                   trackerShuttingDown, phase, exitKind, deadline, loop,
                   snapshot, wakeAt, pollActive>>

(* One call of the Range callback for key c of the snapshot.  A key        *)
(* deleted since the snapshot is skipped; otherwise idleIn is LastActivity *)
(* plus IdleThreshold minus time.Now(), and longest keeps the maximum.     *)
RangeVisit(c) ==
    /\ phase = "draining"
    /\ loop = "ranging"
    /\ c \in snapshot \ visited
    /\ visited' = visited \cup {c}
    /\ LET idleIn == lastActivity[c] + IdleThreshold - Wall
       IN  longest' = IF c \in tracked /\ idleIn > longest
                      THEN idleIn ELSE longest
    /\ UNCHANGED <<now, skew, status, lastActivity, tracked, wg,
                   trackerShuttingDown, phase, exitKind, deadline, loop,
                   snapshot, wakeAt, pollActive>>

(* Range has visited every key: MaybeIdleIn returns longest.  The drain    *)
(* loop exits on 0 and otherwise sleeps for that long.                     *)
MaybeIdleInReturn ==
    /\ phase = "draining"
    /\ loop = "ranging"
    /\ visited = snapshot
    /\ \/ /\ longest = 0
          /\ phase' = "exited"
          /\ exitKind' = "graceful"
          /\ UNCHANGED <<loop, wakeAt>>
       \/ /\ longest /= 0
          /\ loop' = "sleeping"
          /\ wakeAt' = now + longest
          /\ UNCHANGED <<phase, exitKind>>
    /\ UNCHANGED <<now, skew, status, lastActivity, tracked, wg,
                   trackerShuttingDown, deadline, snapshot, visited, longest,
                   pollActive>>

(* Variant: no exit timeout; the process waits for the drain loop only.  *)
NoExitTimeout == FALSE

(* The exit timeout fires, whatever the drain loop is doing: the process   *)
(* exits and its connections are dropped.                                  *)
ExitTimeoutFires ==
    /\ phase = "draining"
    /\ now >= deadline
    /\ phase' = "exited"
    /\ exitKind' = "forced"
    /\ UNCHANGED <<now, skew, status, lastActivity, tracked, wg,
                   trackerShuttingDown, deadline, loop, snapshot, visited,
                   longest, wakeAt, pollActive>>

(* The clock advances.  While serving it stays far enough below MaxTime    *)
(* that a shutdown can still be signalled.                                 *)
Tick ==
    /\ phase /= "exited"
    /\ now < MaxTime
    /\ phase = "serving" => now + ExitTimeout < MaxTime
    /\ now' = now + 1
    /\ UNCHANGED <<skew, status, lastActivity, tracked, wg, trackerShuttingDown,
                   phase, exitKind, pollActive, DrainVars>>

(* The wall clock is stepped (NTP, an operator): time.Now().UnixNano()    *)
(* moves away from the monotonic clock, which timers and sleeps follow.   *)
(* A step back makes connections active again by the wall clock; the      *)
(* history pollActive records them.                                        *)
ClockStep ==
    /\ phase /= "exited"
    /\ \E k \in Skews \ {skew} : skew' = k
    /\ UNCHANGED <<now, status, lastActivity, tracked, wg, trackerShuttingDown,
                   phase, exitKind, DrainVars>>
    /\ pollActive' = pollActive \cup {c \in tracked : ~IsIdle(c)'}

Next ==
    \/ \E c \in Conns :
          \/ Accept(c)
          \/ NewInstrumentedConn(c)
          \/ ConnIO(c)
          \/ Close(c)
          \/ RangeVisit(c)
    \/ Signal
    \/ MaybeIdleInStart
    \/ MaybeIdleInReturn
    \/ ExitTimeoutFires
    \/ Tick
    \/ ClockStep

(* The drain loop is a goroutine the runtime keeps scheduling, and the     *)
(* clock keeps running; clients, dials and the signal are not obliged.     *)
Fairness ==
    /\ WF_vars(MaybeIdleInStart)
    /\ WF_vars(\E c \in Conns : RangeVisit(c))
    /\ WF_vars(MaybeIdleInReturn)
    /\ WF_vars(ExitTimeoutFires)
    /\ WF_vars(Tick)

(* Once the process has exited no action is enabled: the model stops     *)
(* there, as the program does.                                             *)
Spec == Init /\ [][Next]_vars /\ Fairness

-----------------------------------------------------------------------------
(* MaybeIdleIn reports a positive wait only if some connection it visited *)
(* was not idle, by the wall clock, at some instant of the call: when      *)
(* every connection was idle throughout, the drain is not delayed          *)
(* (including the boundary where exactly IdleThreshold has passed).       *)
NoSpuriousDelay ==
    (loop = "ranging" /\ longest > 0) => visited \cap pollActive /= {}

(* While a poll runs, every tracked connection that is not idle has been   *)
(* recorded in pollActive: it was active at the start, was dialled or did  *)
(* I/O since, or a wall-clock step made it active again (the monotonic    *)
(* clock only makes connections more idle).                                *)
ActiveRecorded ==
    loop = "ranging" => \A c \in tracked : ~IsIdle(c) => c \in pollActive

(* No connection's LastActivity lies further ahead of the monotonic clock *)
(* than the largest wall-clock step: it is a wall-clock reading taken no  *)
(* later than now.                                                         *)
LastActivityBound ==
    \A c \in Conns : lastActivity[c] <= now + ClockSkew

(* The doc comment of MaybeIdleIn: it returns how long it takes for all    *)
(* connections to become idle "based on the configured IdleThreshold", so *)
(* a poll never reports, and the drain never sleeps, longer than           *)
(* IdleThreshold (line 42-46: idleAt - time.Now() with the wall clock).    *)
IdleInBounded ==
    longest <= IdleThreshold

(* What survives of the doc comment when the wall clock is stepped: a     *)
(* poll never reports a wait longer than IdleThreshold plus twice the     *)
(* largest step, one for a stamp taken on a clock set ahead and one for a *)
(* visit on a clock set back (lines 41-43 mix both readings).  The drain's *)
(* sleep, and so the delay of a graceful exit, is bounded by it.           *)
IdleInWithinSkew ==
    longest <= IdleThreshold + 2 * ClockSkew

(* The inductive invariant behind NoSpuriousDelay and IdleInWithinSkew.    *)
IInv ==
    /\ TypeOK
    /\ LastActivityBound
    /\ ActiveRecorded
    /\ NoSpuriousDelay
    /\ IdleInWithinSkew

(* Once shutdown is signalled the drain loop ends: gracefully or by the    *)
(* exit timeout.                                                           *)
ShutdownTerminates ==
    phase = "draining" ~> phase = "exited"

(* The doc comment of MaybeIdleIn: a duration of 0 indicates all           *)
(* connections are idle.  So a graceful exit leaves no tracked connection  *)
(* that is still active.                                                   *)
GracefulExitOnlyWhenIdle ==
    exitKind = "graceful" => \A c \in tracked : IsIdle(c)

(* The tracker's shutdown signal makes the wrappers refuse new I/O: once   *)
(* the server is draining no tracked connection records new activity.    *)
IORefusedWhileDraining ==
    [][phase /= "serving" =>
         \A c \in tracked : lastActivity'[c] = lastActivity[c]]_vars

=============================================================================
