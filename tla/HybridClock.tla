---------------------------- MODULE HybridClock ----------------------------
(***************************************************************************)
(* Hybrid logical clocks: HLC of crates/messaging/src/hlc.rs.  Every node  *)
(* stamps its messages with now() and folds the stamps it gets into its    *)
(* clock with receive().  Wall clocks are read anew for every call and may *)
(* jump either way, up to TopWall; stamps arrive in any order, any number  *)
(* of times, or never, and some come from peers whose clocks are wrong.    *)
(* millis is a u64 that saturates, counter a u32 that rolls over into it.  *)
(***************************************************************************)
EXTENDS Naturals

CONSTANTS
    ClockNode,      \* the nodes
    Foreign,        \* stamps of peers whose clocks are wrong
    TopWall,        \* the latest time a wall clock shows
    Drift,          \* MAX_FORWARD_DRIFT_MS
    MaxCounter,     \* u32::MAX
    MaxMillis,      \* u64::MAX
    MaxRolls        \* bound: the counter roll-overs of a node

Stamp == [millis : 0 .. MaxMillis, counter : 0 .. MaxCounter]
Zero == [millis |-> 0, counter |-> 0]

\* Real wall clocks are far from u64::MAX milliseconds, and a roll-over takes 2^32
\* stamps within a millisecond.
ASSUME ClockAssumption ==
    /\ TopWall \in Nat /\ Drift \in Nat /\ MaxCounter \in Nat /\ MaxMillis \in Nat
    /\ MaxRolls \in Nat
    /\ TopWall + Drift + MaxRolls < MaxMillis
    /\ Foreign \subseteq Stamp

VARIABLES
    latest,         \* latest of each node's clock
    stamps,         \* the stamps under way
    heard,          \* the greatest stamp each node has sent, or received within the drift
    rolls           \* how often each node's counter has rolled over

clockVars == <<latest, stamps, heard, rolls>>

\* Ord for HlcTimestamp.
Before(x, y) == x.millis < y.millis \/ (x.millis = y.millis /\ x.counter < y.counter)

ClockInit ==
    /\ latest = [n \in ClockNode |-> Zero]
    /\ stamps = Foreign
    /\ heard = [n \in ClockNode |-> Zero]
    /\ rolls = [n \in ClockNode |-> 0]

Larger(x, y) == IF x < y THEN y ELSE x
Smaller(x, y) == IF x < y THEN x ELSE y

\* Mutant: the counter wraps within the millisecond.
BumpCounterWraps(millis, counter) ==
    IF counter < MaxCounter THEN [millis |-> millis, counter |-> counter + 1]
    ELSE [millis |-> millis, counter |-> 0]

\* bump_counter: checked_add, and saturating_add when it rolls over.
BumpCounter(millis, counter) ==
    IF counter < MaxCounter THEN [millis |-> millis, counter |-> counter + 1]
    ELSE [millis |-> Smaller(millis + 1, MaxMillis), counter |-> 0]

\* HLC::now at wall-clock time wall.
NowAt(clock, wall) ==
    IF wall <= clock.millis THEN BumpCounter(clock.millis, clock.counter)
    ELSE [millis |-> wall, counter |-> 0]

\* Mutant: the drift is taken from the remote time, not from the wall clock.
ClampedToRemote(remote, wall) == Smaller(remote.millis + Drift, MaxMillis)

\* The remote millis receive() works with.
Clamped(remote, wall) == Smaller(remote.millis, Smaller(wall + Drift, MaxMillis))

\* HLC::receive at wall-clock time wall.
ReceiveAt(clock, remote, wall) ==
    LET clamped == Clamped(remote, wall)
        millis == Larger(Larger(wall, clock.millis), clamped)
    IN  IF millis = clock.millis /\ millis = clamped
        THEN BumpCounter(millis, Larger(clock.counter, remote.counter))
        ELSE IF millis = clock.millis THEN BumpCounter(millis, clock.counter)
        ELSE IF millis = clamped THEN BumpCounter(millis, remote.counter)
        ELSE [millis |-> millis, counter |-> 0]

\* A call that moves millis past every input has rolled the counter over.
Rolled(n, inputs, result) == IF result > inputs THEN rolls[n] + 1 ELSE rolls[n]

StampNow(n, wall) ==
    LET stamp == NowAt(latest[n], wall)
    IN  /\ latest' = [latest EXCEPT ![n] = stamp]
        /\ stamps' = stamps \cup {stamp}
        /\ heard' = [heard EXCEPT ![n] = stamp]
        /\ rolls' = [rolls EXCEPT
                     ![n] = Rolled(n, Larger(wall, latest[n].millis), stamp.millis)]
        /\ rolls'[n] <= MaxRolls

ReceiveStamp(n, remote, wall) ==
    LET stamp == ReceiveAt(latest[n], remote, wall)
        clamped == Clamped(remote, wall)
    IN  /\ latest' = [latest EXCEPT ![n] = stamp]
        /\ heard' = IF clamped = remote.millis /\ Before(heard[n], remote)
                    THEN [heard EXCEPT ![n] = remote] ELSE heard
        /\ rolls' = [rolls EXCEPT
                     ![n] = Rolled(n, Larger(Larger(wall, latest[n].millis), clamped),
                                   stamp.millis)]
        /\ rolls'[n] <= MaxRolls
        /\ UNCHANGED stamps

ClockNext ==
    \E n \in ClockNode, wall \in 0 .. TopWall :
        StampNow(n, wall) \/ \E remote \in stamps : ReceiveStamp(n, remote, wall)

ClockSpec == ClockInit /\ [][ClockNext]_clockVars

-----------------------------------------------------------------------------
ClockTypeOK ==
    /\ latest \in [ClockNode -> Stamp] /\ heard \in [ClockNode -> Stamp]
    /\ stamps \subseteq Stamp
    /\ rolls \in [ClockNode -> 0 .. MaxRolls]

(* Stamps of a node only grow, also when its wall clock is set back or the *)
(* counter rolls over (now, receive, bump_counter).                        *)
ClockAdvances ==
    [][\A n \in ClockNode : latest'[n] = latest[n] \/ Before(latest[n], latest'[n])]_clockVars

(* Every stamp a node has sent, or received within the drift, is in the    *)
(* past of its clock, so that effects come after their causes from node to *)
(* node (now, receive).                                                    *)
CausesComeFirst ==
    \A n \in ClockNode : heard[n] = latest[n] \/ Before(heard[n], latest[n])

(* However far ahead the stamps are that it receives, a clock is never     *)
(* further ahead of the latest wall clock than the drift allows, plus one  *)
(* millisecond for each of its own roll-overs (MAX_FORWARD_DRIFT_MS).      *)
DriftIsBounded ==
    \A n \in ClockNode : latest[n].millis <= TopWall + Drift + rolls[n]
=============================================================================
