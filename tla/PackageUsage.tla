---------------------------- MODULE PackageUsage ----------------------------
(***************************************************************************)
(* One BundleActivePackageStats object fed by the events of its bundle, in *)
(* time stamp order, next to a clock and to stop watches that measure what *)
(* the two totals are meant to measure: the time during which at least one *)
(* ability is in front, and the time during which at least one continuous  *)
(* task runs.                                                              *)
(***************************************************************************)
EXTENDS PackageStats

CONSTANTS
    MaxTime,    \* bound: the last tick of the clock
    MaxStarts   \* bound: starts of the bundle that are counted
ASSUME BoundsAssumption == MaxTime \in Nat /\ MaxStarts \in Nat

VARIABLES
    stats,          \* the BundleActivePackageStats object
    now,            \* the wall clock
    frontTime,      \* stop watch: ticks with an ability in front
    taskTime        \* stop watch: ticks with a continuous task running

vars == <<stats, now, frontTime, taskTime>>

Init ==
    /\ stats = NewPackageStats
    /\ now = 0
    /\ frontTime = 0
    /\ taskTime = 0

\* Time passes.
Tick ==
    /\ now < MaxTime
    /\ now' = now + 1
    /\ frontTime' = IF HasFrontAbility(stats) THEN frontTime + 1 ELSE frontTime
    /\ taskTime' = IF AnyLongTimeTaskStarted(stats) THEN taskTime + 1 ELSE taskTime
    /\ UNCHANGED stats

\* Update with an ability event.  Any order of events is possible: an ability may
\* come to front twice, stop without going to the background, and so on.
AbilityEvent(eventId, abilityId) ==
    /\ stats.startCount_ < MaxStarts
    /\ stats' = UpdateAbility(stats, now, eventId, abilityId)
    /\ UNCHANGED <<now, frontTime, taskTime>>

\* Update with a continuous task event.
TaskEvent(eventId, task) ==
    /\ stats' = UpdateLongTimeTask(stats, now, eventId, task)
    /\ UNCHANGED <<now, frontTime, taskTime>>

\* Update with END_OF_THE_DAY, SHUTDOWN or FLUSH.
CloseEvent ==
    /\ stats' = SettleAll(stats, now)
    /\ UNCHANGED <<now, frontTime, taskTime>>

Next ==
    \/ Tick
    \/ \E e \in AbilityEventId, a \in Ability : AbilityEvent(e, a)
    \/ \E e \in TaskEventId, t \in Task : TaskEvent(e, t)
    \/ CloseEvent

Spec == Init /\ [][Next]_vars

-----------------------------------------------------------------------------
\* Type invariant of the statistics of the bundle and of the history variables.
TypeOK ==
    /\ stats \in PackageStatsType
    /\ now \in Nat
    /\ frontTime \in Nat
    /\ taskTime \in Nat

\* totalInFrontTime_ plus the part that is still running since lastTimeUsed_ is
\* exactly the time the bundle has been in front, however many abilities come
\* and go and however often FLUSH settles the time in between.
FrontTimeExact ==
    stats.totalInFrontTime_
        + (IF HasFrontAbility(stats) THEN now - stats.lastTimeUsed_ ELSE 0)
    = frontTime

\* The same for continuous tasks: totalContiniousTaskUsedTime_ plus the running
\* part is exactly the time at least one task was running.
TaskTimeExact ==
    stats.totalContiniousTaskUsedTime_
        + (IF AnyLongTimeTaskStarted(stats) THEN now - stats.lastContiniousTaskUsed_ ELSE 0)
    = taskTime

\* lastTimeUsed_ and lastContiniousTaskUsed_ never lie in the future.  Without it
\* the running part would be negative and IncrementTimeUsed would skip time.
LastNotInFuture ==
    /\ stats.lastTimeUsed_ <= now
    /\ stats.lastContiniousTaskUsed_ <= now

\* The inductive invariant.
IInv == TypeOK /\ LastNotInFuture /\ FrontTimeExact /\ TaskTimeExact
=============================================================================
