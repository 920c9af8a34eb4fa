------------------------------ MODULE UsageCore ------------------------------
(***************************************************************************)
(* BundleActiveCore for one user: the handlers that feed, save, renew and  *)
(* query the user's service, the boot clock and the wall clock they read,  *)
(* and the end of the process.                                             *)
(*                                                                         *)
(* Reports, uninstalls and the flush timer are tasks of one serial queue;  *)
(* queries and the shutdown callback come from other threads.  All but the *)
(* flush hold mutex_ of the core from beginning to end.  The flush does    *)
(* not: it reads the clock, reports FLUSH and saves in three steps, and    *)
(* the handlers of other threads may run between them.                     *)
(***************************************************************************)
EXTENDS UserService

\* A scenario bounds a behaviour:
\*   uids, tasks   the instances and the long time tasks that are used
\*   startTime     the wall clock when the device starts
\*   maxTime       the last tick of the boot clock
\*   maxEvents     how many events are reported
\*   maxJumps      how often the wall clock is set
\*   maxCrashes    how often the process dies
\*   folderFills   whether the folder of the database may reach its size limit
CONSTANTS
    Scenario,       \* the scenarios a behaviour may follow
    ClockJump       \* by how much the wall clock may be set
ASSUME CoreAssumption ==
    /\ \A c \in Scenario :
        /\ c.uids \subseteq Uid /\ c.tasks \subseteq Task
        /\ {c.startTime, c.maxTime, c.maxEvents, c.maxJumps, c.maxCrashes} \subseteq Nat
        /\ c.folderFills \in BOOLEAN
    /\ ClockJump \subseteq Int
    \* The clock starts so long after 1970 that it is never set to before.
    /\ \A c \in Scenario, d \in ClockJump : c.startTime + c.maxJumps * d >= 0

VARIABLES
    scenario,   \* bound: the scenario of this behaviour
    svc,        \* the user's service and the database
    boot,       \* GetBootTimeMs
    offset,     \* GetSystemTimeMs - GetBootTimeMs
    shot,       \* systemTimeShot_ - realTimeShot_: the offset the core has seen
    flush,      \* where the flush task is, and the time it read
    sizeCheck,  \* a task of ProcessDataSize waits
    front,      \* history: the abilities of each uid that are in front
    frontTicks, \* history: the ticks of the boot clock a uid was in front
    reports,    \* history: how many events were reported, which numbers them
    reported,   \* history: events of each uid that have to be known
    jumps,      \* history: how often the wall clock was set
    crashes     \* history: how often the process died

vars == <<scenario, svc, boot, offset, shot, flush, sizeCheck, front, frontTicks, reports,
          reported, jumps, crashes>>
history == <<scenario, front, frontTicks, reports, reported, jumps, crashes>>

\* The numbers of events.
Numbers(events) == {e.id : e \in events}

Idle == [pc |-> "idle", timeStamp |-> 0]

Init ==
    /\ scenario \in Scenario
    /\ svc = NoService(EmptyDatabase)
    /\ boot = 0
    /\ offset = scenario.startTime
    /\ shot = scenario.startTime
    /\ flush = Idle
    /\ sizeCheck = FALSE
    /\ front = [u \in Uid |-> {}]
    /\ frontTicks = [u \in Uid |-> {}]
    /\ reports = 0
    /\ reported = NoEvents
    /\ jumps = 0
    /\ crashes = 0

SystemTime == boot + offset
ExpectedSystemTime == boot + shot

\* Mutant: the service is reloaded before it was saved.
CheckTimeChangeUnsaved(s) ==
    IF offset = shot \/ ~s.up THEN s
    ELSE RenewTime(ReportFlush(s, ExpectedSystemTime), ExpectedSystemTime, SystemTime)

\* CheckTimeChangeAndGetWallTime for the user: what was counted up to the expected
\* time is saved, the tables move along with the clock and are read again.
CheckTimeChange(s) ==
    IF offset = shot \/ ~s.up THEN s
    ELSE RenewTime(RestoreStats(ReportFlush(s, ExpectedSystemTime), TRUE),
                   ExpectedSystemTime, SystemTime)

\* GetUserDataAndInitializeIfNeeded
GetUserData(s) == IF s.up THEN s ELSE InitService(s, SystemTime)

-----------------------------------------------------------------------------
(* Tasks of the report queue                                               *)

\* Core ReportEvent.  ConvertToSystemTimeLocked uses the clock just checked: the event
\* gets the system time.
Report(e) ==
    /\ flush = Idle
    /\ reports < scenario.maxEvents
    /\ svc' = ReportEvent(GetUserData(CheckTimeChange(svc)), e)
    /\ shot' = offset
    /\ reports' = reports + 1
    /\ reported' = [reported EXCEPT ![e.uid] = @ \cup {e.id}]
    /\ UNCHANGED <<scenario, boot, offset, flush, sizeCheck, frontTicks, jumps, crashes>>

AbilityEvent(u, eventId, a) ==
    /\ Report([id |-> reports + 1, eventId |-> eventId, uid |-> u, ability |-> a,
                timeStamp |-> SystemTime])
    /\ front' = [front EXCEPT ![u] = IF eventId = FOREGROUND THEN @ \cup {a} ELSE @ \ {a}]

TaskEvent(u, eventId, t) ==
    /\ Report([id |-> reports + 1, eventId |-> eventId, uid |-> u, task |-> t,
                timeStamp |-> SystemTime])
    /\ UNCHANGED front

\* OnBundleUninstalled
Uninstall(u) ==
    /\ flush = Idle
    /\ svc' = DeleteUninstalledBundleStats(GetUserData(CheckTimeChange(svc)), u)
    /\ shot' = offset
    /\ front' = [v \in Uid |-> IF v \in RemovedUids(u) THEN {} ELSE front[v]]
    /\ frontTicks' = [v \in Uid |-> IF v \in RemovedUids(u) THEN {} ELSE frontTicks[v]]
    /\ reported' = [v \in Uid |-> IF v \in RemovedUids(u) THEN {} ELSE reported[v]]
    /\ UNCHANGED <<scenario, boot, offset, flush, sizeCheck, reports, jumps, crashes>>

\* RestoreToDatabase reads the wall clock, ...
FlushBegin ==
    /\ flush = Idle
    /\ svc.up
    /\ flush' = [pc |-> "report", timeStamp |-> SystemTime]
    /\ UNCHANGED <<svc, boot, offset, shot, sizeCheck, history>>

\* ... reports FLUSH with it, ...
FlushReport ==
    /\ flush.pc = "report"
    /\ svc' = ReportFlush(svc, flush.timeStamp)
    /\ flush' = [flush EXCEPT !.pc = "restore"]
    /\ UNCHANGED <<boot, offset, shot, sizeCheck, history>>

\* ... and saves (RestoreToDatabaseLocked).  Then it submits ProcessDataSize, which does
\* nothing unless the folder has reached its limit.
FlushRestore ==
    /\ flush.pc = "restore"
    /\ svc' = RestoreStats(svc, FALSE)
    /\ flush' = Idle
    /\ sizeCheck' = (sizeCheck \/ scenario.folderFills)
    /\ UNCHANGED <<boot, offset, shot, history>>

-----------------------------------------------------------------------------
(* Other threads                                                           *)

\* A query: only the check of the time and the creation of the service matter.
Query ==
    /\ svc' = GetUserData(CheckTimeChange(svc))
    /\ shot' = offset
    /\ UNCHANGED <<boot, offset, flush, sizeCheck, history>>

\* ShutDown checks the time for user 0, which moves the shots and renews nothing;
\* the service hears of SHUTDOWN and everything is saved.
ShutDown ==
    /\ svc.up
    /\ svc' = RestoreStats(ReportForShutdown(svc, SystemTime), TRUE)
    /\ shot' = offset
    /\ UNCHANGED <<boot, offset, flush, sizeCheck, history>>

\* ProcessDataSize: day by day, down to what is MAX_DELETE_EVENT_DALIYS younger than
\* EventHorizon, events go until the folder is below its limit, after deleteDays.  Which
\* daily table eventBeginTime_ is of, the one made or read last, is left open.
ProcessDataSize(deleteDays, beginTime) ==
    /\ sizeCheck
    /\ svc.up
    /\ svc' = [svc EXCEPT !.database_.eventTable = DeleteEvents(@, beginTime, deleteDays)]
    /\ sizeCheck' = FALSE
    /\ UNCHANGED <<boot, offset, shot, flush, history>>

-----------------------------------------------------------------------------
(* The environment                                                         *)

Tick ==
    /\ boot < scenario.maxTime
    /\ boot' = boot + 1
    /\ frontTicks' = [u \in Uid |-> IF front[u] # {} THEN frontTicks[u] \cup {boot}
                                    ELSE frontTicks[u]]
    /\ UNCHANGED <<scenario, svc, offset, shot, flush, sizeCheck, front, reports, reported,
                   jumps, crashes>>

\* The wall clock is set.
SetClock(d) ==
    /\ jumps < scenario.maxJumps
    /\ SystemTime + d >= 0
    /\ offset' = offset + d
    /\ jumps' = jumps + 1
    /\ UNCHANGED <<scenario, svc, boot, shot, flush, sizeCheck, front, frontTicks, reports,
                   reported, crashes>>

\* The process dies and starts again; the database stays.  Abilities may stay in
\* front meanwhile, the core will hear of them when they leave.
Crash ==
    /\ crashes < scenario.maxCrashes
    /\ svc.up
    /\ svc' = NoService(svc.database_)
    /\ shot' = offset
    /\ flush' = Idle
    /\ sizeCheck' = FALSE
    /\ reported' = [u \in Uid |-> Numbers(svc.database_.eventTable.rows[u])
                                 \cup Numbers(svc.database_.eventTable.expired[u])]
    /\ crashes' = crashes + 1
    /\ UNCHANGED <<scenario, boot, offset, front, frontTicks, reports, jumps>>

Next ==
    \/ \E u \in scenario.uids, id \in AbilityEventId, a \in Ability : AbilityEvent(u, id, a)
    \/ \E u \in scenario.uids, id \in TaskEventId, t \in scenario.tasks : TaskEvent(u, id, t)
    \/ \E u \in scenario.uids : Uninstall(u)
    \/ FlushBegin
    \/ FlushReport
    \/ FlushRestore
    \/ Query
    \/ ShutDown
    \/ \E deleteDays \in 0..MAX_DELETE_EVENT_DALIYS,
          beginTime \in DOMAIN svc.database_.packageTable[PERIOD_DAILY] :
            ProcessDataSize(deleteDays, beginTime)
    \/ Tick
    \/ \E d \in ClockJump : SetClock(d)
    \/ Crash

Spec == Init /\ [][Next]_vars

-----------------------------------------------------------------------------
\* A clock that was set moves what was counted (README, section 5), and what is in front
\* when the process dies is not known to the next one: properties that speak of the
\* exact time are about the behaviours without.
ClockWasSet == jumps > 0
ProcessDied == crashes > 0

\* A query over all of time never answers more than the time a bundle really was in
\* front: no part of it is counted twice when a day ends, when the flush timer and
\* the reload of a period meet, or when saved rows are read back after a crash; and
\* after an uninstall nothing is left of the bundle.  A calendar period that is
\* shorter than the constant passes its rows on to the next one (README, section 5).
NeverOvercounts ==
    svc.up /\ ~ClockWasSet => \A i \in Interval, u \in Uid :
        PeriodLength[i] <= Span[i] => QueryTotal(svc, i, u) <= Cardinality(frontTicks[u])

\* The rows that tables hold of a running period, against what memory has of it.
Covers(stats, tables) ==
    stats.beginTime_ \in DOMAIN tables =>
        \A u \in DOMAIN tables[stats.beginTime_] :
            /\ u \in DOMAIN stats.bundleStats_
            /\ tables[stats.beginTime_][u].totalTime <= stats.bundleStats_[u].totalInFrontTime_

\* What memory holds of the running period is never behind the row of the same
\* period in the database, which it will overwrite at the next save.  A calendar period
\* that is longer than the constant is not read again at its end (README, section 5).
MemoryCoversTable ==
    svc.up /\ ~ClockWasSet => \A i \in Interval :
        PeriodLength[i] >= Span[i] => Covers(svc.currentStats_[i], svc.database_.packageTable[i])

\* The first uid of each bundle.
FirstUid == {u \in Uid : \A v \in Uid : BundleOf[v] = BundleOf[u] => u <= v}

\* An ability in front is tracked by every period, over every end of a day.  The end of
\* a day forgets a later uid of a bundle whose first was not in front (README, section 5).
FrontTracked ==
    svc.up /\ ~ClockWasSet /\ ~ProcessDied => \A i \in Interval, u \in FirstUid : \A a \in front[u] :
        /\ u \in DOMAIN svc.currentStats_[i].bundleStats_
        /\ svc.currentStats_[i].bundleStats_[u].abilities_[a] = FOREGROUND

\* The boot ticks of a day, without the last one: END_OF_THE_DAY settles one tick
\* early.
TicksOfDay(begin) == (begin .. begin + Span[PERIOD_DAILY] - 2)
TicksInFront(u, begin) == {t \in frontTicks[u] : t + scenario.startTime \in TicksOfDay(begin)}

\* A day that is over and has a table was counted exactly: its row holds the ticks
\* the bundle was in front, up to the last tick of the day.
ClosedDayExact ==
    svc.up /\ ~ClockWasSet /\ ~ProcessDied =>
        LET tables == svc.database_.packageTable[PERIOD_DAILY]
        IN  \A t \in DOMAIN tables : t < svc.currentStats_[PERIOD_DAILY].beginTime_ =>
                \A u \in Uid :
                    (IF u \in DOMAIN tables[t] THEN tables[t][u].totalTime ELSE 0)
                    = Cardinality(TicksInFront(u, t))

NoneShared(one, other) == Numbers(one) \cap Numbers(other) = {}
Single(events) == \A e, f \in events : e.id = f.id => e = f

\* A deletion for size takes no event that is younger than the days it is to gain.
OldEnough(e) ==
    /\ e.early \in 0..MAX_DELETE_EVENT_DALIYS
    /\ e.age >= EventHorizon - e.early * PeriodLength[PERIOD_DAILY]

\* Where the events of a uid are: in memory, in the table, or deleted for their age.
Accounts(events, table, u, known) ==
    /\ Single(events) /\ Single(table.rows[u])
    /\ NoneShared(events, table.rows[u])
    /\ NoneShared(events, table.expired[u]) /\ NoneShared(table.rows[u], table.expired[u])
    /\ Numbers(events) \cup Numbers(table.rows[u]) \cup Numbers(table.expired[u]) = known
    /\ \A e \in table.expired[u] : OldEnough(e)

\* Every event reported is either still in memory or in the event table, once, until it
\* is deleted there for its age: seven days before the day the core is in, or less, but
\* not less than one, when the folder had reached its size limit.  When the clock is set
\* back while no process runs, the next one drops the table as one of the future.
EventsAccounted ==
    svc.up /\ ~(ClockWasSet /\ ProcessDied) => \A u \in Uid :
        Accounts(svc.events_[u], svc.database_.eventTable, u, reported[u])

\* A table with rows leaves the database only when MaxFiles newer tables are there or
\* it is older than MaxFiles periods.  A calendar period that is shorter than the constant
\* leaves its rows to the next one (README, section 5).
TablesLeaveWhenOld ==
    [][ ~ClockWasSet => \A i \in Interval : PeriodLength[i] <= Span[i] =>
            LET old == svc.database_.packageTable[i]
                new == svc'.database_.packageTable[i]
            IN  \A t \in DOMAIN old \ DOMAIN new :
                    \/ old[t] = <<>>
                    \/ Cardinality({x \in DOMAIN new : x > t}) >= MaxFiles[i]
                    \/ t + MaxFiles[i] * PeriodLength[i] < SystemTime ]_vars
=============================================================================
