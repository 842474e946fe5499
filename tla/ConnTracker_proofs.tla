-------------------------- MODULE ConnTracker_proofs --------------------------
(***************************************************************************)
(* Proofs about the connection tracker, for every set of connections and   *)
(* every idle threshold, exit timeout, horizon and largest wall-clock step *)
(* ClockSkew.  The two properties of MaybeIdleIn's result hold whatever   *)
(* the wall clock does within ClockSkew of the monotonic clock; with       *)
(* ClockSkew = 0 the bound is IdleInBounded, which the run                 *)
(* ct_idle_in_bounded shows broken by a step backwards.                    *)
(***************************************************************************)
EXTENDS ConnTracker, TLAPS

USE ConstAssumption


-----------------------------------------------------------------------------
(* The initial state is well typed.                                       *)
LEMMA TypeInit == Init => TypeOK
<1>1. Init => TypeOK
  <2> SUFFICES ASSUME Init PROVE TypeOK
    OBVIOUS
  <2>1. 0 \in Time /\ 0 \in WallTime /\ 0 \in Skews
    BY DEF Time, WallTime, Skews
  <2>2. status \in [Conns -> Status] /\ lastActivity \in [Conns -> WallTime]
    BY <2>1 DEF Init, Status
  <2>3. now \in Time /\ deadline \in Time /\ skew \in Skews
    BY <2>1 DEF Init
  <2>4. wg \in Int /\ longest \in Int /\ wakeAt \in Int
    BY DEF Init
  <2>5. /\ tracked \subseteq Conns /\ snapshot \subseteq Conns
        /\ visited \subseteq Conns /\ pollActive \subseteq Conns
    BY DEF Init
  <2>6. /\ trackerShuttingDown \in BOOLEAN
        /\ phase \in {"serving", "draining", "exited"}
        /\ exitKind \in {"none", "graceful", "forced"}
        /\ loop \in {"idle", "polling", "ranging", "sleeping"}
    BY DEF Init
  <2>7. QED
    BY <2>2, <2>3, <2>4, <2>5, <2>6 DEF TypeOK
<1>. QED
  BY <1>1

(* Every step, stuttering included, preserves the types.                   *)
LEMMA TypeStep == TypeOK /\ [Next]_vars => TypeOK'
<1>2. TypeOK /\ [Next]_vars => TypeOK'
  <2> SUFFICES ASSUME TypeOK, [Next]_vars PROVE TypeOK'
    OBVIOUS
  <2>1. ASSUME NEW c \in Conns, Accept(c) PROVE TypeOK'
    BY <2>1 DEF Accept, TypeOK, Status, DrainVars
  <2>0. Wall \in WallTime
    BY DEF TypeOK, Wall, WallTime, Time, Skews
  <2>2. ASSUME NEW c \in Conns, NewInstrumentedConn(c) PROVE TypeOK'
    BY <2>0, <2>2 DEF NewInstrumentedConn, TypeOK, Status, DrainVars
  <2>3. ASSUME NEW c \in Conns, ConnIO(c) PROVE TypeOK'
    BY <2>0, <2>3 DEF ConnIO, TypeOK, DrainVars
  <2>4. ASSUME NEW c \in Conns, Close(c) PROVE TypeOK'
    BY <2>4 DEF Close, TypeOK, Status, DrainVars
  <2>5. ASSUME NEW c \in Conns, RangeVisit(c) PROVE TypeOK'
    BY <2>5 DEF RangeVisit, TypeOK
  <2>6. CASE Signal
    BY <2>6 DEF Signal, TypeOK, Time
  <2>7. CASE MaybeIdleInStart
    BY <2>7 DEF MaybeIdleInStart, TypeOK
  <2>8. CASE MaybeIdleInReturn
    BY <2>8 DEF MaybeIdleInReturn, TypeOK, Time
  <2>9. CASE ExitTimeoutFires
    BY <2>9 DEF ExitTimeoutFires, TypeOK
  <2>10. CASE Tick
    BY <2>10 DEF Tick, TypeOK, Time, DrainVars
  <2>11. CASE UNCHANGED vars
    BY <2>11 DEF vars, TypeOK
  <2>12. CASE ClockStep
    BY <2>12 DEF ClockStep, TypeOK, DrainVars
  <2>13. QED
    BY <2>1, <2>2, <2>3, <2>4, <2>5, <2>6, <2>7, <2>8, <2>9, <2>10, <2>11,
       <2>12 DEF Next
<1>. QED
  BY <1>2

(* Type correctness: every variable keeps its type.  The clock never       *)
(* passes MaxTime because Tick is guarded and a signalled deadline lies    *)
(* within the horizon.                                                     *)
THEOREM TypeCorrect == Spec => []TypeOK
BY TypeInit, TypeStep, PTL DEF Spec


-----------------------------------------------------------------------------
(* The wall clock is the monotonic clock moved by at most ClockSkew.      *)
LEMMA WallRange ==
    ASSUME TypeOK
    PROVE  /\ Wall \in Int
           /\ now - ClockSkew <= Wall /\ Wall <= now + ClockSkew
BY DEF TypeOK, Wall, Time, Skews

(* The initial state satisfies the inductive invariant: no poll running,  *)
(* every LastActivity at 0.                                                *)
LEMMA IInvInit == Init => IInv
<1> SUFFICES ASSUME Init PROVE IInv
  OBVIOUS
<1>1. TypeOK
  BY TypeInit
<1>2. ActiveRecorded /\ NoSpuriousDelay /\ IdleInWithinSkew
  BY DEF Init, ActiveRecorded, NoSpuriousDelay, IdleInWithinSkew
<1>3. LastActivityBound
  BY DEF Init, LastActivityBound
<1>. QED
  BY <1>1, <1>2, <1>3 DEF IInv

(* A stamp is a wall-clock reading, at most ClockSkew ahead of the        *)
(* monotonic clock, which only moves forward.                              *)
LEMMA BoundOfStampStep ==
    IInv /\ [Next]_vars => LastActivityBound'
<1> SUFFICES ASSUME IInv, [Next]_vars PROVE LastActivityBound'
  OBVIOUS
<1>0. TypeOK /\ LastActivityBound /\ TypeOK'
  BY TypeStep DEF IInv
<1>1. ASSUME NEW c \in Conns, NewInstrumentedConn(c) \/ ConnIO(c)
      PROVE  LastActivityBound'
  <2>1. Wall <= now + ClockSkew
    BY <1>0, WallRange
  <2>. QED
    BY <1>0, <1>1, <2>1 DEF NewInstrumentedConn, ConnIO, LastActivityBound,
                           TypeOK, WallTime, Time
<1>2. CASE Tick
  BY <1>0, <1>2 DEF Tick, LastActivityBound, TypeOK, WallTime, Time
<1>3. ASSUME NEW c \in Conns, Accept(c) \/ Close(c) \/ RangeVisit(c)
      PROVE  LastActivityBound'
  BY <1>0, <1>3 DEF Accept, Close, RangeVisit, LastActivityBound
<1>4. CASE Signal \/ MaybeIdleInStart \/ MaybeIdleInReturn
           \/ ExitTimeoutFires \/ ClockStep \/ UNCHANGED vars
  BY <1>0, <1>4 DEF Signal, MaybeIdleInStart, MaybeIdleInReturn,
                    ExitTimeoutFires, ClockStep, vars, LastActivityBound
<1>. QED
  BY <1>1, <1>2, <1>3, <1>4 DEF Next

(* A connection that is not idle after a step was not idle before it,     *)
(* unless the step stamped its LastActivity or stepped the wall clock,    *)
(* and each of those steps records it: the monotonic clock only makes      *)
(* connections more idle, and nothing else writes LastActivity.           *)
LEMMA ActiveStep ==
    IInv /\ [Next]_vars => ActiveRecorded'
<1> SUFFICES ASSUME IInv, [Next]_vars, loop' = "ranging",
                    NEW c \in tracked', ~IsIdle(c)'
             PROVE  c \in pollActive'
  BY DEF ActiveRecorded
<1>0. TypeOK /\ ActiveRecorded
  BY DEF IInv
<1>1. CASE MaybeIdleInStart
  BY <1>1 DEF MaybeIdleInStart, IsIdle, Wall
<1>2. CASE Signal
  BY <1>2 DEF Signal
<1>3. ASSUME NEW d \in Conns, NewInstrumentedConn(d) \/ ConnIO(d)
      PROVE  c \in pollActive'
  <2>1. CASE c = d
    BY <1>3, <2>1 DEF NewInstrumentedConn, ConnIO
  <2>2. CASE c /= d
    BY <1>0, <1>3, <2>2 DEF NewInstrumentedConn, ConnIO, ActiveRecorded,
                            IsIdle, Wall, TypeOK, DrainVars
  <2>. QED
    BY <2>1, <2>2
<1>4. CASE Tick
  <2>1. c \in tracked /\ ~IsIdle(c)
    BY <1>0, <1>4 DEF Tick, IsIdle, Wall, TypeOK, Time, WallTime, Skews
  <2>. QED
    BY <1>0, <1>4, <2>1 DEF Tick, ActiveRecorded, DrainVars
<1>5. CASE ClockStep
  BY <1>5 DEF ClockStep, DrainVars
<1>6. ASSUME NEW d \in Conns, Accept(d) \/ Close(d) \/ RangeVisit(d)
      PROVE  c \in pollActive'
  BY <1>0, <1>6 DEF Accept, Close, RangeVisit, ActiveRecorded, IsIdle, Wall,
                    DrainVars
<1>7. CASE MaybeIdleInReturn \/ ExitTimeoutFires \/ UNCHANGED vars
  BY <1>0, <1>7 DEF MaybeIdleInReturn, ExitTimeoutFires, vars,
                    ActiveRecorded, IsIdle, Wall
<1>. QED
  BY <1>1, <1>2, <1>3, <1>4, <1>5, <1>6, <1>7 DEF Next

(* The running maximum becomes positive only on a visit of a tracked      *)
(* connection that is not idle, which ActiveRecorded puts in pollActive;  *)
(* pollActive only grows during a poll.                                    *)
LEMMA DelayStep ==
    IInv /\ [Next]_vars => NoSpuriousDelay'
<1> SUFFICES ASSUME IInv, [Next]_vars, loop' = "ranging", longest' > 0
             PROVE  visited' \cap pollActive' /= {}
  BY DEF NoSpuriousDelay
<1>0. TypeOK /\ ActiveRecorded /\ NoSpuriousDelay
  BY DEF IInv
<1>1. ASSUME NEW c \in Conns, RangeVisit(c)
      PROVE  visited' \cap pollActive' /= {}
  <2> DEFINE idleIn == lastActivity[c] + IdleThreshold - Wall
  <2>1. CASE c \in tracked /\ idleIn > longest
    <3>1. longest' = idleIn /\ idleIn > 0
      BY <1>1, <2>1 DEF RangeVisit
    <3>2. ~IsIdle(c)
      BY <1>0, <3>1 DEF IsIdle, TypeOK, Time, WallTime, Skews, Wall
    <3>3. c \in pollActive
      BY <1>0, <1>1, <2>1, <3>2 DEF ActiveRecorded, RangeVisit
    <3>. QED
      BY <1>1, <3>3 DEF RangeVisit
  <2>2. CASE ~(c \in tracked /\ idleIn > longest)
    BY <1>0, <1>1, <2>2 DEF RangeVisit, NoSpuriousDelay
  <2>. QED
    BY <2>1, <2>2
<1>2. CASE MaybeIdleInStart
  BY <1>2 DEF MaybeIdleInStart
<1>3. CASE Signal
  BY <1>3 DEF Signal
<1>4. ASSUME NEW d \in Conns,
             Accept(d) \/ NewInstrumentedConn(d) \/ ConnIO(d) \/ Close(d)
      PROVE  visited' \cap pollActive' /= {}
  BY <1>0, <1>4 DEF Accept, NewInstrumentedConn, ConnIO, Close,
                    NoSpuriousDelay, DrainVars
<1>5. CASE ClockStep
  BY <1>0, <1>5 DEF ClockStep, NoSpuriousDelay, DrainVars
<1>6. CASE MaybeIdleInReturn \/ ExitTimeoutFires \/ Tick \/ UNCHANGED vars
  BY <1>0, <1>6 DEF MaybeIdleInReturn, ExitTimeoutFires, Tick, vars,
                    NoSpuriousDelay, DrainVars
<1>. QED
  BY <1>1, <1>2, <1>3, <1>4, <1>5, <1>6 DEF Next

(* A visit raises the maximum to at most IdleThreshold + 2 * ClockSkew:   *)
(* the visited stamp is at most ClockSkew ahead of the monotonic clock    *)
(* and the wall clock it is compared with at most ClockSkew behind it; a  *)
(* new poll restarts the maximum at 0.                                     *)
LEMMA SkewBoundStep ==
    IInv /\ [Next]_vars => IdleInWithinSkew'
<1> SUFFICES ASSUME IInv, [Next]_vars PROVE IdleInWithinSkew'
  OBVIOUS
<1>0. TypeOK /\ LastActivityBound /\ IdleInWithinSkew
  BY DEF IInv
<1>1. ASSUME NEW c \in Conns, RangeVisit(c) PROVE IdleInWithinSkew'
  <2>1. now - ClockSkew <= Wall /\ Wall \in Int
    BY <1>0, WallRange
  <2>2. lastActivity[c] <= now + ClockSkew /\ lastActivity[c] \in Int
    BY <1>0 DEF LastActivityBound, TypeOK, WallTime
  <2>3. now \in Int /\ ClockSkew \in Int /\ IdleThreshold \in Int
    BY <1>0 DEF TypeOK, Time
  <2>4. lastActivity[c] + IdleThreshold - Wall <= IdleThreshold + 2 * ClockSkew
    BY <2>1, <2>2, <2>3
  <2>. QED
    BY <1>0, <1>1, <2>4 DEF RangeVisit, IdleInWithinSkew, TypeOK
<1>2. CASE MaybeIdleInStart
  BY <1>2 DEF MaybeIdleInStart, IdleInWithinSkew
<1>3. ASSUME NEW d \in Conns,
             Accept(d) \/ NewInstrumentedConn(d) \/ ConnIO(d) \/ Close(d)
      PROVE  IdleInWithinSkew'
  BY <1>0, <1>3 DEF Accept, NewInstrumentedConn, ConnIO, Close,
                    IdleInWithinSkew, DrainVars
<1>4. CASE Signal \/ MaybeIdleInReturn \/ ExitTimeoutFires \/ Tick
           \/ ClockStep \/ UNCHANGED vars
  BY <1>0, <1>4 DEF Signal, MaybeIdleInReturn, ExitTimeoutFires, Tick,
                    ClockStep, vars, IdleInWithinSkew, DrainVars
<1>. QED
  BY <1>1, <1>2, <1>3, <1>4 DEF Next

(* The inductive invariant is preserved by every step.                    *)
LEMMA IInvStep == IInv /\ [Next]_vars => IInv'
BY TypeStep, BoundOfStampStep, ActiveStep, DelayStep, SkewBoundStep DEF IInv

(* However the wall clock is stepped within ClockSkew of the monotonic    *)
(* clock, a running MaybeIdleIn holds a positive maximum only if a        *)
(* connection it visited was active, by the wall clock, during the call:  *)
(* the drain is never delayed by connections that stayed idle.  For every *)
(* set of connections, threshold, timeout, horizon and ClockSkew.          *)
THEOREM NoSpuriousDelayHolds == Spec => []NoSpuriousDelay
<1>1. IInv => NoSpuriousDelay
  BY DEF IInv
<1>. QED
  BY IInvInit, IInvStep, <1>1, PTL DEF Spec

(* MaybeIdleIn never asks the drain loop to wait longer than               *)
(* Tracker.IdleThreshold plus twice the largest wall-clock step, for every *)
(* ClockSkew; on a clock that is never stepped (ClockSkew = 0) that is the *)
(* doc comment's IdleThreshold.                                            *)
THEOREM IdleInWithinSkewHolds == Spec => []IdleInWithinSkew
<1>1. IInv => IdleInWithinSkew
  BY DEF IInv
<1>. QED
  BY IInvInit, IInvStep, <1>1, PTL DEF Spec

=============================================================================
