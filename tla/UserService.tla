---------------------------- MODULE UserService ----------------------------
(***************************************************************************)
(* BundleActiveUserService, BundleActivePeriodStats and the uid sets of    *)
(* BundleActiveBundleMgrHelper, for one user.  A service is a record that  *)
(* holds the members the methods below read and write, and the database;   *)
(* every method is an operator from a service to a service.  Each method   *)
(* holds statsMutex_ from beginning to end, so it is one step.             *)
(***************************************************************************)
EXTENDS UsageDatabase

NoBundle == "none"

\* Maps in memory have finitely many keys.
ASSUME FiniteAssumption == IsFiniteSet(Ability) /\ IsFiniteSet(Task)

\* A process that has no BundleActiveUserService for the user yet.
NoService(database) ==
    [up |-> FALSE,
     currentStats_ |-> [i \in Interval |-> [beginTime_ |-> 0, bundleStats_ |-> <<>>]],
     dailyExpiryDate_ |-> 0,
     statsChanged_ |-> FALSE,
     lastForegroundBundle_ |-> NoBundle,
     events_ |-> NoEvents,
     packageUids |-> {},
     database_ |-> database]

-----------------------------------------------------------------------------
(* BundleActivePeriodStats                                                 *)

GetOrCreateUsageStats(bundleStats, u) ==
    IF u \in DOMAIN bundleStats THEN bundleStats
    ELSE [v \in DOMAIN bundleStats \cup {u} |->
            IF v = u THEN NewPackageStats ELSE bundleStats[v]]

\* Update(FLUSH) and Update(SHUTDOWN) settle every bundle of the period.
SettlePeriod(stats, timeStamp) ==
    [stats EXCEPT !.bundleStats_ = [u \in DOMAIN @ |-> SettleAll(@[u], timeStamp)]]

\* Update with an event of one instance.
UpdateStats(p, e) ==
    IF e.eventId \in AbilityEventId THEN UpdateAbility(p, e.timeStamp, e.eventId, e.ability)
    ELSE UpdateLongTimeTask(p, e.timeStamp, e.eventId, e.task)

UpdatePackage(stats, e) ==
    LET bundleStats == GetOrCreateUsageStats(stats.bundleStats_, e.uid)
    IN  [stats EXCEPT !.bundleStats_ =
            [bundleStats EXCEPT ![e.uid] = UpdateStats(bundleStats[e.uid], e)]]

-----------------------------------------------------------------------------
(* Saving and loading                                                      *)

\* A new daily table deletes old events before those of the day are written.
SaveEvents(s) ==
    LET daily == s.currentStats_[PERIOD_DAILY]
        table == IF BeginsDay(s.database_.packageTable[PERIOD_DAILY], daily)
                 THEN DeleteExcessiveEvents(s.database_.eventTable, daily.beginTime_)
                 ELSE s.database_.eventTable
    IN  IF s.events_ = NoEvents THEN table ELSE UpdateEventData(table, s.events_, daily.beginTime_)

RestoreStats(s, forced) ==
    IF s.statsChanged_ \/ forced
    THEN [s EXCEPT
            !.database_ =
                [packageTable |->
                    [i \in Interval |->
                        IF s.currentStats_[i].bundleStats_ = <<>> THEN @.packageTable[i]
                        ELSE UpdateBundleUsageData(@.packageTable[i], i, s.currentStats_[i])],
                 eventTable |-> SaveEvents(s)],
            !.events_ = NoEvents,
            !.statsChanged_ = FALSE]
    ELSE s

\* Mutant: the length of a day decides for every interval whether the table is used.
LoadPeriodOfADay(s, i, timeStamp) ==
    LET tables == s.database_.packageTable[i]
        stats == GetCurrentUsageData(tables)
        usable == /\ tables # <<>>
                  /\ timeStamp > stats.beginTime_
                  /\ timeStamp < stats.beginTime_ + PeriodLength[PERIOD_DAILY]
    IN  [beginTime_ |-> TruncateTo(i, timeStamp),
         bundleStats_ |-> IF usable THEN stats.bundleStats_ ELSE <<>>]

\* The last table of the interval is taken over when timeStamp is inside the period
\* it covers, and then it gets the begin time of the calendar period.
LoadPeriod(s, i, timeStamp) ==
    LET tables == s.database_.packageTable[i]
        stats == GetCurrentUsageData(tables)
        usable == /\ tables # <<>>
                  /\ timeStamp > stats.beginTime_
                  /\ timeStamp < stats.beginTime_ + PeriodLength[i]
    IN  [beginTime_ |-> TruncateTo(i, timeStamp),
         bundleStats_ |-> IF usable THEN stats.bundleStats_ ELSE <<>>]

LoadActiveStats(s, timeStamp, force, timeChanged) ==
    LET loaded == {i \in Interval :
                    force \/ s.currentStats_[i].beginTime_ # TruncateTo(i, timeStamp)}
        read == {i \in loaded : s.database_.packageTable[i] # <<>>}
        DailyBegin == TruncateTo(PERIOD_DAILY, timeStamp)
    IN  [s EXCEPT
            !.currentStats_ =
                [i \in Interval |-> IF i \in loaded THEN LoadPeriod(s, i, timeStamp) ELSE @[i]],
            \* GetCurrentBundleStats registers the uid of every row it reads.
            !.packageUids =
                @ \cup UNION {DOMAIN GetCurrentUsageData(s.database_.packageTable[i]).bundleStats_ :
                                i \in read},
            !.statsChanged_ = FALSE,
            !.events_ = IF PERIOD_DAILY \in loaded THEN NoEvents ELSE @,
            \* UpdateExpiryDate
            !.dailyExpiryDate_ =
                IF timeChanged THEN DailyBegin + PeriodLength[PERIOD_DAILY]
                ELSE TruncateTo(PERIOD_DAILY, timeStamp + PeriodLength[PERIOD_DAILY])]

\* Init: the database is opened, the stats of the running periods are loaded and
\* the STARTUP event (of no bundle) is logged.
InitService(s, timeStamp) ==
    LoadActiveStats([s EXCEPT !.up = TRUE,
                              !.database_ = InitDatabaseTableInfo(@, timeStamp),
                              !.currentStats_ = [i \in Interval |->
                                  [beginTime_ |-> Unknown, bundleStats_ |-> <<>>]]],
                    timeStamp, FALSE, FALSE)

\* RenewTableTime and the reload that follows it in CheckTimeChangeAndGetWallTime.
RenewTime(s, oldTime, newTime) ==
    LoadActiveStats([s EXCEPT !.database_ = RenewTableTime(@, newTime - oldTime)],
                    newTime, TRUE, TRUE)

-----------------------------------------------------------------------------
(* The end of a day                                                        *)

\* Mutant: the day is closed at its expiry, a tick late.
FlushDataInMemLate(s) ==
    [s EXCEPT !.currentStats_ = [i \in Interval |-> SettlePeriod(@[i], s.dailyExpiryDate_)],
              !.statsChanged_ = @ \/ \E i \in Interval : s.currentStats_[i].bundleStats_ # <<>>]

\* END_OF_THE_DAY, one millisecond before the day expires, for every bundle of
\* every period.
FlushDataInMem(s) ==
    [s EXCEPT !.currentStats_ = [i \in Interval |-> SettlePeriod(@[i], s.dailyExpiryDate_ - 1)],
              !.statsChanged_ = @ \/ \E i \in Interval : s.currentStats_[i].bundleStats_ # <<>>]

\* continueAbilities and continueServices: what is open at the end of the day.  A
\* later interval overwrites the entry an earlier one made.
AbilityPeriods(s, u) ==
    {i \in Interval : /\ u \in DOMAIN s.currentStats_[i].bundleStats_
                      /\ \E a \in Ability :
                            s.currentStats_[i].bundleStats_[u].abilities_[a] # Absent}
TaskPeriods(s, u) ==
    {i \in Interval : /\ u \in DOMAIN s.currentStats_[i].bundleStats_
                      /\ AnyLongTimeTaskStarted(s.currentStats_[i].bundleStats_[u])}

\* The uids of a bundle are visited in ascending order, and the loop returns at the
\* first one that has no entry.
ReachedUids(uids, hasEntry) ==
    {u \in uids : \A v \in uids : BundleOf[v] = BundleOf[u] /\ v <= u => v \in hasEntry}

BundlesInMem(s) ==
    {BundleOf[u] : u \in UNION {DOMAIN s.currentStats_[i].bundleStats_ : i \in Interval}}

\* Mutant: the ability map is tested for BACKGROUND the wrong way round.
ContinueAbilitiesInBackground(stats, u, abilities, beginTime) ==
    LET Continue(a, st) ==
            UpdatePackage(st, [eventId |-> BACKGROUND, uid |-> u, ability |-> a,
                               timeStamp |-> beginTime])
    IN  FoldSet(Continue, stats, {a \in Ability : abilities[a] = BACKGROUND})

\* Abilities in front come to front again at the begin of the new day; abilities in
\* the background are skipped.
ContinueAbilities(stats, u, abilities, beginTime) ==
    LET Continue(a, st) ==
            UpdatePackage(st, [eventId |-> FOREGROUND, uid |-> u, ability |-> a,
                               timeStamp |-> beginTime])
    IN  FoldSet(Continue, stats, {a \in Ability : abilities[a] = FOREGROUND})

ContinueServices(stats, u, tasks, beginTime) ==
    LET Continue(t, st) ==
            UpdatePackage(st, [eventId |-> TASK_STARTED, uid |-> u, task |-> t,
                               timeStamp |-> beginTime])
    IN  FoldSet(Continue, stats, tasks)

\* UpdateContinueAbilitiesMemory and UpdateContinueServicesMemory for every bundle
\* and every interval; old is the service before the new day was loaded.
UpdateContinueMemory(s, old) ==
    LET begin == s.currentStats_[PERIOD_DAILY].beginTime_
        known == {u \in s.packageUids : BundleOf[u] \in BundlesInMem(old)}
        inFront == ReachedUids(known, {u \in Uid : AbilityPeriods(old, u) # {}})
        inTask == ReachedUids(known, {u \in Uid : TaskPeriods(old, u) # {}})
        OldStats(u, periods) == old.currentStats_[Max(periods)].bundleStats_[u]
        FrontOf(u, st) ==
            ContinueAbilities(st, u, OldStats(u, AbilityPeriods(old, u)).abilities_, begin)
        TasksOf(u, st) ==
            ContinueServices(st, u, OldStats(u, TaskPeriods(old, u)).longTimeTasks_, begin)
    IN  [s EXCEPT !.currentStats_ =
            [i \in Interval |-> FoldSet(TasksOf, FoldSet(FrontOf, @[i], inFront), inTask)]]

RenewStatsInMemory(s, timeStamp) ==
    LET flushed == FlushDataInMem(s)
        saved == RestoreStats(flushed, TRUE)
        cleaned == [saved EXCEPT !.database_.packageTable = RemoveOldData(@, timeStamp)]
        loaded == LoadActiveStats(cleaned, timeStamp, FALSE, FALSE)
    IN  RestoreStats(UpdateContinueMemory(loaded, flushed), TRUE)

\* The check every report starts with.
RenewIfExpired(s, timeStamp) ==
    IF timeStamp >= s.dailyExpiryDate_ THEN RenewStatsInMemory(s, timeStamp) ELSE s

-----------------------------------------------------------------------------
(* Reports                                                                 *)

\* ReportEvent with the event of an instance.
ReportEvent(s, e) ==
    LET r == RenewIfExpired(s, e.timeStamp)
        launch == e.eventId = FOREGROUND /\ BundleOf[e.uid] # r.lastForegroundBundle_
        UpdatePeriod(stats) ==
            LET updated == UpdatePackage(stats, e)
            IN  IF launch
                THEN [updated EXCEPT !.bundleStats_[e.uid] = IncrementBundleLaunchedCount(@)]
                ELSE updated
    IN  [r EXCEPT !.events_[e.uid] = @ \cup {[id |-> e.id, timeStamp |-> e.timeStamp]},
                  !.lastForegroundBundle_ = IF launch THEN BundleOf[e.uid] ELSE @,
                  !.currentStats_ = [i \in Interval |-> UpdatePeriod(@[i])],
                  !.packageUids = @ \cup {e.uid},
                  !.statsChanged_ = TRUE]

\* ReportEvent with FLUSH: no event is logged and nothing is marked as changed.
ReportFlush(s, timeStamp) ==
    LET r == RenewIfExpired(s, timeStamp)
    IN  [r EXCEPT !.currentStats_ = [i \in Interval |-> SettlePeriod(@[i], timeStamp)]]

\* ReportForShutdown; the SHUTDOWN event itself belongs to no bundle.
ReportForShutdown(s, timeStamp) ==
    [ReportFlush(s, timeStamp) EXCEPT !.statsChanged_ = TRUE]

\* DeleteUninstalledBundleStats: the main instance takes its clones with it.
RemovedUids(u) == IF u \in MainUid THEN {v \in Uid : BundleOf[v] = BundleOf[u]} ELSE {u}

\* DeleteMemUsageStats, for one period.
DeleteMemUsageStats(stats, removed) ==
    [stats EXCEPT !.bundleStats_ = Restrict(@, DOMAIN @ \ removed)]

DeleteUninstalledBundleStats(s, u) ==
    LET \* memory knows the clones by the uid set of the bundle
        removed == IF u \in MainUid THEN RemovedUids(u) \cap s.packageUids ELSE {u}
    IN  [s EXCEPT
            !.currentStats_ = [i \in Interval |-> DeleteMemUsageStats(@[i], removed)],
            !.events_ = [v \in Uid |-> IF v \in removed THEN {} ELSE @[v]],
            !.packageUids = @ \ removed,
            !.database_ = OnPackageUninstalled(@, RemovedUids(u))]

\* QueryBundleStatsInfos over all of time: the tables before the running period and
\* the running period from memory.
QueryTotal(s, i, u) ==
    LET stats == s.currentStats_[i]
    IN  QueryDatabaseUsageStats(s.database_.packageTable[i], u, stats.beginTime_)
        + (IF u \in DOMAIN stats.bundleStats_ THEN stats.bundleStats_[u].totalInFrontTime_ ELSE 0)
=============================================================================
