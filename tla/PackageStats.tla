---------------------------- MODULE PackageStats ----------------------------
(***************************************************************************)
(* BundleActivePackageStats: what one period remembers of one bundle       *)
(* instance (bundle name + uid).  Pure operators on the object, used by    *)
(* PackageUsage (one object against a clock) and by UserService (one       *)
(* object per instance and interval).                                      *)
(*                                                                         *)
(* The object is a record with the code's field names.  abilities_ is a    *)
(* std::map from ability id to the last event seen; here it is a function  *)
(* on all abilities whose value is Absent for an id that is not a key.     *)
(* longTimeTasks_ only ever maps a name to STARTTED, so it is the set of   *)
(* its keys.                                                               *)
(***************************************************************************)
EXTENDS Integers

CONSTANTS
    Ability,    \* ability ids of the instance
    Task        \* names of continuous (long time) tasks

FOREGROUND == "ABILITY_FOREGROUND"
BACKGROUND == "ABILITY_BACKGROUND"
STOP == "ABILITY_STOP"
TASK_STARTED == "LONG_TIME_TASK_STARTTED"
TASK_ENDED == "LONG_TIME_TASK_ENDED"
END_OF_THE_DAY == "END_OF_THE_DAY"
SHUTDOWN == "SHUTDOWN"
FLUSH == "FLUSH"
Absent == "absent"

AbilityEventId == {FOREGROUND, BACKGROUND, STOP}
TaskEventId == {TASK_STARTED, TASK_ENDED}
CloseEventId == {END_OF_THE_DAY, SHUTDOWN, FLUSH}

PackageStatsType ==
    [lastTimeUsed_ : Int,
     totalInFrontTime_ : Int,
     lastContiniousTaskUsed_ : Int,
     totalContiniousTaskUsedTime_ : Int,
     startCount_ : Int,
     bundleStartedCount_ : Int,
     abilities_ : [Ability -> {FOREGROUND, BACKGROUND, Absent}],
     longTimeTasks_ : SUBSET Task]

NewPackageStats ==
    [lastTimeUsed_ |-> -1,
     totalInFrontTime_ |-> 0,
     lastContiniousTaskUsed_ |-> -1,
     totalContiniousTaskUsedTime_ |-> 0,
     startCount_ |-> 0,
     bundleStartedCount_ |-> 0,
     abilities_ |-> [a \in Ability |-> Absent],
     longTimeTasks_ |-> {}]

HasFrontAbility(p) == \E a \in Ability : p.abilities_[a] = FOREGROUND

AnyLongTimeTaskStarted(p) == p.longTimeTasks_ # {}

\* Mutant: the time already counted is counted again at the next event.
IncrementTimeUsedNoReset(p, timeStamp) ==
    IF timeStamp > p.lastTimeUsed_
    THEN [p EXCEPT !.totalInFrontTime_ = @ + timeStamp - p.lastTimeUsed_]
    ELSE p

IncrementTimeUsed(p, timeStamp) ==
    IF timeStamp > p.lastTimeUsed_
    THEN [p EXCEPT !.totalInFrontTime_ = @ + timeStamp - p.lastTimeUsed_,
                   !.lastTimeUsed_ = timeStamp]
    ELSE p

\* Mutant: the counted part of a continuous task is not moved forward.
IncrementServiceTimeUsedNoReset(p, timeStamp) ==
    IF timeStamp > p.lastContiniousTaskUsed_
    THEN [p EXCEPT !.totalContiniousTaskUsedTime_ = @ + timeStamp - p.lastContiniousTaskUsed_]
    ELSE p

IncrementServiceTimeUsed(p, timeStamp) ==
    IF timeStamp > p.lastContiniousTaskUsed_
    THEN [p EXCEPT !.totalContiniousTaskUsedTime_ = @ + timeStamp - p.lastContiniousTaskUsed_,
                   !.lastContiniousTaskUsed_ = timeStamp]
    ELSE p

IncrementBundleLaunchedCount(p) == [p EXCEPT !.bundleStartedCount_ = @ + 1]

\* startCount_: a first foreground of an idle bundle, or one coming back from
\* the background.
StartsNow(p, eventId, abilityId) ==
    /\ eventId = FOREGROUND
    /\ \/ \A a \in Ability : p.abilities_[a] = Absent
       \/ p.abilities_[abilityId] = BACKGROUND

\* First the time is settled according to the ability's last event, then the
\* map is updated.
SettleAbility(p, timeStamp, abilityId) ==
    IF p.abilities_[abilityId] = FOREGROUND THEN IncrementTimeUsed(p, timeStamp) ELSE p

\* Mutant: a second ability that comes to front restarts the clock of the first.
RecordAbilityAlwaysRestarts(p, timeStamp, eventId, abilityId) ==
    [p EXCEPT !.lastTimeUsed_ = IF eventId = FOREGROUND THEN timeStamp ELSE @,
              !.abilities_[abilityId] = IF eventId = STOP THEN Absent ELSE eventId]

RecordAbility(p, timeStamp, eventId, abilityId) ==
    [p EXCEPT !.lastTimeUsed_ =
                  IF eventId = FOREGROUND /\ ~HasFrontAbility(p) THEN timeStamp ELSE @,
              !.abilities_[abilityId] = IF eventId = STOP THEN Absent ELSE eventId]

UpdateAbility(p, timeStamp, eventId, abilityId) ==
    RecordAbility(
        SettleAbility([p EXCEPT !.startCount_ =
                           @ + IF StartsNow(p, eventId, abilityId) THEN 1 ELSE 0],
                      timeStamp, abilityId),
        timeStamp, eventId, abilityId)

\* The same two steps for a continuous task.
SettleTask(p, timeStamp, task) ==
    IF task \in p.longTimeTasks_ THEN IncrementServiceTimeUsed(p, timeStamp) ELSE p

RecordTask(p, timeStamp, eventId, task) ==
    [p EXCEPT !.lastContiniousTaskUsed_ =
                  IF eventId = TASK_STARTED /\ ~AnyLongTimeTaskStarted(p)
                  THEN timeStamp ELSE @,
              !.longTimeTasks_ = IF eventId = TASK_STARTED THEN @ \cup {task} ELSE @ \ {task}]

UpdateLongTimeTask(p, timeStamp, eventId, task) ==
    RecordTask(SettleTask(p, timeStamp, task), timeStamp, eventId, task)

\* END_OF_THE_DAY, SHUTDOWN and FLUSH settle what is still running.
SettleFront(p, timeStamp) ==
    IF HasFrontAbility(p) THEN IncrementTimeUsed(p, timeStamp) ELSE p

SettleTasks(p, timeStamp) ==
    IF AnyLongTimeTaskStarted(p) THEN IncrementServiceTimeUsed(p, timeStamp) ELSE p

SettleAll(p, timeStamp) == SettleTasks(SettleFront(p, timeStamp), timeStamp)
=============================================================================
