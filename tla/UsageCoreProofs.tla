--------------------------- MODULE UsageCoreProofs ---------------------------
(***************************************************************************)
(* Proofs about UsageCore for every set of instances, bundles, abilities   *)
(* and tasks, every number and length of intervals and every scenario: an  *)
(* event that was reported is in memory or in the event table, once, until *)
(* it is deleted there for its age; what memory holds of a running period  *)
(* is never behind its table; what is in front is tracked by every period; *)
(* and tables leave only when they are old.                                *)
(*                                                                         *)
(* The methods of the service change many members at a time.  For each of  *)
(* them a predicate (RestoreDone, LoadDone, ...) says what it does to each *)
(* member, and a lemma shows it, so that the proofs that follow look at    *)
(* members only.                                                           *)
(***************************************************************************)
EXTENDS UsageCore, FiniteSetTheorems, WellFoundedInduction, TLAPS

-----------------------------------------------------------------------------
(* What each method of the service does to its members                     *)

ServiceFields == {"up", "currentStats_", "dailyExpiryDate_", "statsChanged_",
                  "lastForegroundBundle_", "events_", "packageUids", "database_"}

\* A record with the members of the class, whatever they hold.
Shape(s) ==
    /\ s = [f \in ServiceFields |-> s[f]]
    /\ s.database_ = [f \in {"packageTable", "eventTable"} |-> s.database_[f]]

\* The database after a save.
Saved(s) ==
    [packageTable |->
        [i \in Interval |->
            IF s.currentStats_[i].bundleStats_ = <<>> THEN s.database_.packageTable[i]
            ELSE UpdateBundleUsageData(s.database_.packageTable[i], i, s.currentStats_[i])],
     eventTable |-> SaveEvents(s)]

RestoreDone(s, r) ==
    /\ Shape(r)
    /\ r.up = s.up /\ r.currentStats_ = s.currentStats_
    /\ r.dailyExpiryDate_ = s.dailyExpiryDate_ /\ r.packageUids = s.packageUids
    /\ r.lastForegroundBundle_ = s.lastForegroundBundle_
    /\ r.database_ = Saved(s) /\ r.events_ = NoEvents /\ r.statsChanged_ = FALSE

\* A save moves events and totals to the database and touches nothing else.
LEMMA RestoreFields ==
    ASSUME NEW s, Shape(s), NEW forced \in BOOLEAN, s.statsChanged_ \/ forced,
           NEW r, r = RestoreStats(s, forced)
    PROVE  RestoreDone(s, r)
<1>1. r = [s EXCEPT !.database_ = Saved(s), !.events_ = NoEvents, !.statsChanged_ = FALSE]
    BY Zenon DEF RestoreStats, Saved
<1>2. Saved(s) = [f \in {"packageTable", "eventTable"} |-> Saved(s)[f]]
    BY DEF Saved
<1> QED BY <1>1, <1>2 DEF Shape, ServiceFields, RestoreDone

\* Nothing to save.
LEMMA RestoreSkips ==
    ASSUME NEW s, ~s.statsChanged_ PROVE RestoreStats(s, FALSE) = s
BY DEF RestoreStats

Loaded(s, timeStamp, force) ==
    {i \in Interval : force \/ s.currentStats_[i].beginTime_ # TruncateTo(i, timeStamp)}

\* Uids of the rows that are read.
ReadUids(s, timeStamp, force) ==
    UNION {DOMAIN GetCurrentUsageData(s.database_.packageTable[i]).bundleStats_ :
             i \in {j \in Loaded(s, timeStamp, force) : s.database_.packageTable[j] # <<>>}}

LoadDone(s, ts, force, changed, r) ==
    /\ Shape(r)
    /\ r.up = s.up /\ r.database_ = s.database_
    /\ r.lastForegroundBundle_ = s.lastForegroundBundle_
    /\ r.currentStats_ = [i \in Interval |-> IF i \in Loaded(s, ts, force)
                                             THEN LoadPeriod(s, i, ts)
                                             ELSE s.currentStats_[i]]
    /\ r.packageUids = s.packageUids \cup ReadUids(s, ts, force)
    /\ r.statsChanged_ = FALSE
    /\ r.events_ = IF PERIOD_DAILY \in Loaded(s, ts, force) THEN NoEvents ELSE s.events_
    /\ r.dailyExpiryDate_ =
         IF changed THEN TruncateTo(PERIOD_DAILY, ts) + PeriodLength[PERIOD_DAILY]
         ELSE TruncateTo(PERIOD_DAILY, ts + PeriodLength[PERIOD_DAILY])

\* A load replaces the periods that are over, and the events when the day is.
LEMMA LoadFields ==
    ASSUME NEW s, Shape(s), NEW ts, NEW force, NEW changed,
           NEW r, r = LoadActiveStats(s, ts, force, changed)
    PROVE  LoadDone(s, ts, force, changed, r)
<1> DEFINE current == [i \in Interval |-> IF i \in Loaded(s, ts, force)
                                          THEN LoadPeriod(s, i, ts) ELSE s.currentStats_[i]]
           uids == s.packageUids \cup ReadUids(s, ts, force)
           events == IF PERIOD_DAILY \in Loaded(s, ts, force) THEN NoEvents ELSE s.events_
           expiry == IF changed THEN TruncateTo(PERIOD_DAILY, ts) + PeriodLength[PERIOD_DAILY]
                     ELSE TruncateTo(PERIOD_DAILY, ts + PeriodLength[PERIOD_DAILY])
<1>1. r = [s EXCEPT !.currentStats_ = current, !.packageUids = uids, !.statsChanged_ = FALSE,
                    !.events_ = events, !.dailyExpiryDate_ = expiry]
    BY Zenon DEF LoadActiveStats, Loaded, ReadUids
<1> HIDE DEF current, uids, events, expiry
<1>2. /\ Shape(r)
      /\ r.up = s.up /\ r.database_ = s.database_
      /\ r.lastForegroundBundle_ = s.lastForegroundBundle_
      /\ r.currentStats_ = current /\ r.packageUids = uids /\ r.statsChanged_ = FALSE
      /\ r.events_ = events /\ r.dailyExpiryDate_ = expiry
    BY <1>1 DEF Shape, ServiceFields
<1> QED BY <1>2 DEF current, uids, events, expiry, LoadDone

\* A service whose database was opened and that knows no period.
Opened(s, timeStamp) ==
    [s EXCEPT !.up = TRUE, !.database_ = InitDatabaseTableInfo(@, timeStamp),
              !.currentStats_ = [i \in Interval |-> [beginTime_ |-> Unknown, bundleStats_ |-> <<>>]]]

OpenedDone(s, ts, r) ==
    /\ Shape(r)
    /\ r.up = TRUE /\ r.database_ = InitDatabaseTableInfo(s.database_, ts)
    /\ r.currentStats_ = [i \in Interval |-> [beginTime_ |-> Unknown, bundleStats_ |-> <<>>]]
    /\ r.packageUids = s.packageUids /\ r.events_ = s.events_
    /\ r.lastForegroundBundle_ = s.lastForegroundBundle_
    /\ r.statsChanged_ = s.statsChanged_ /\ r.dailyExpiryDate_ = s.dailyExpiryDate_

\* Opening the database reads the time of the event table and keeps the rows.
LEMMA OpenedFields ==
    ASSUME NEW s, Shape(s), NEW ts, NEW r, r = Opened(s, ts)
    PROVE  OpenedDone(s, ts, r)
<1> DEFINE db == InitDatabaseTableInfo(s.database_, ts)
           current == [i \in Interval |-> [beginTime_ |-> Unknown, bundleStats_ |-> <<>>]]
<1>1. db = [f \in {"packageTable", "eventTable"} |-> db[f]]
    BY DEF InitDatabaseTableInfo
<1>2. r = [s EXCEPT !.up = TRUE, !.database_ = db, !.currentStats_ = current]
    BY DEF Opened
<1> HIDE DEF db, current
<1>3. /\ Shape(r) /\ r.up = TRUE /\ r.database_ = db /\ r.currentStats_ = current
      /\ r.packageUids = s.packageUids /\ r.events_ = s.events_
      /\ r.lastForegroundBundle_ = s.lastForegroundBundle_
      /\ r.statsChanged_ = s.statsChanged_ /\ r.dailyExpiryDate_ = s.dailyExpiryDate_
    BY <1>1, <1>2 DEF Shape, ServiceFields
<1> QED BY <1>3 DEF db, current, OpenedDone

\* Init is opening the database and loading from it.
LEMMA InitServiceIs == \A s, ts : InitService(s, ts) = LoadActiveStats(Opened(s, ts), ts, FALSE, FALSE)
BY DEF InitService, Opened

FlushDataDone(s, r) ==
    /\ Shape(r)
    /\ r.up = s.up /\ r.database_ = s.database_ /\ r.packageUids = s.packageUids
    /\ r.events_ = s.events_ /\ r.dailyExpiryDate_ = s.dailyExpiryDate_
    /\ r.lastForegroundBundle_ = s.lastForegroundBundle_
    /\ r.currentStats_ =
         [i \in Interval |-> SettlePeriod(s.currentStats_[i], s.dailyExpiryDate_ - 1)]

\* The end of a day settles the periods.
LEMMA FlushDataFields ==
    ASSUME NEW s, Shape(s), NEW r, r = FlushDataInMem(s)
    PROVE  FlushDataDone(s, r)
<1> DEFINE current == [i \in Interval |-> SettlePeriod(s.currentStats_[i], s.dailyExpiryDate_ - 1)]
           changed == s.statsChanged_ \/ \E i \in Interval : s.currentStats_[i].bundleStats_ # <<>>
<1>1. r = [s EXCEPT !.currentStats_ = current, !.statsChanged_ = changed]
    BY DEF FlushDataInMem
<1> HIDE DEF current, changed
<1>2. /\ Shape(r) /\ r.up = s.up /\ r.database_ = s.database_ /\ r.packageUids = s.packageUids
      /\ r.events_ = s.events_ /\ r.dailyExpiryDate_ = s.dailyExpiryDate_
      /\ r.lastForegroundBundle_ = s.lastForegroundBundle_ /\ r.currentStats_ = current
    BY <1>1 DEF Shape, ServiceFields
<1> QED BY <1>2 DEF current, FlushDataDone

\* The tables that are too old are dropped.
Cleaned(s, timeStamp) == [s EXCEPT !.database_.packageTable = RemoveOldData(@, timeStamp)]

CleanedDone(s, ts, r) ==
    /\ Shape(r)
    /\ r.up = s.up /\ r.currentStats_ = s.currentStats_ /\ r.packageUids = s.packageUids
    /\ r.events_ = s.events_ /\ r.dailyExpiryDate_ = s.dailyExpiryDate_
    /\ r.lastForegroundBundle_ = s.lastForegroundBundle_
    /\ r.statsChanged_ = s.statsChanged_
    /\ r.database_.packageTable = RemoveOldData(s.database_.packageTable, ts)
    /\ r.database_.eventTable = s.database_.eventTable

\* Removing old data changes only the database, and of it only package tables.
LEMMA CleanedFields ==
    ASSUME NEW s, Shape(s), NEW ts, NEW r, r = Cleaned(s, ts)
    PROVE  CleanedDone(s, ts, r)
<1> DEFINE tables == RemoveOldData(s.database_.packageTable, ts)
<1>1. r = [s EXCEPT !.database_.packageTable = tables]
    BY DEF Cleaned
<1> HIDE DEF tables
<1>2. r.database_ = [s.database_ EXCEPT !.packageTable = tables]
    BY <1>1 DEF Shape, ServiceFields
<1>3. /\ r = [f \in ServiceFields |-> r[f]]
      /\ r.up = s.up /\ r.currentStats_ = s.currentStats_ /\ r.packageUids = s.packageUids
      /\ r.events_ = s.events_ /\ r.dailyExpiryDate_ = s.dailyExpiryDate_
      /\ r.lastForegroundBundle_ = s.lastForegroundBundle_ /\ r.statsChanged_ = s.statsChanged_
    BY <1>1 DEF Shape, ServiceFields
<1>4. /\ r.database_ = [f \in {"packageTable", "eventTable"} |-> r.database_[f]]
      /\ r.database_.packageTable = tables /\ r.database_.eventTable = s.database_.eventTable
    BY <1>2 DEF Shape
<1> QED BY <1>3, <1>4 DEF Shape, tables, CleanedDone

\* What was open at the end of the day is opened again in one period.
Continued(stats, s, old) ==
    LET begin == s.currentStats_[PERIOD_DAILY].beginTime_
        known == {u \in s.packageUids : BundleOf[u] \in BundlesInMem(old)}
        inFront == ReachedUids(known, {u \in Uid : AbilityPeriods(old, u) # {}})
        inTask == ReachedUids(known, {u \in Uid : TaskPeriods(old, u) # {}})
        OldStats(u, periods) == old.currentStats_[Max(periods)].bundleStats_[u]
        FrontOf(u, st) ==
            ContinueAbilities(st, u, OldStats(u, AbilityPeriods(old, u)).abilities_, begin)
        TasksOf(u, st) ==
            ContinueServices(st, u, OldStats(u, TaskPeriods(old, u)).longTimeTasks_, begin)
    IN  FoldSet(TasksOf, FoldSet(FrontOf, stats, inFront), inTask)

ContinueDone(s, old, r) ==
    /\ Shape(r)
    /\ r.up = s.up /\ r.database_ = s.database_ /\ r.packageUids = s.packageUids
    /\ r.events_ = s.events_ /\ r.dailyExpiryDate_ = s.dailyExpiryDate_
    /\ r.lastForegroundBundle_ = s.lastForegroundBundle_
    /\ r.statsChanged_ = s.statsChanged_
    /\ r.currentStats_ = [i \in Interval |-> Continued(s.currentStats_[i], s, old)]

\* Continuing what runs changes only what is in memory.
LEMMA ContinueFields ==
    ASSUME NEW s, Shape(s), NEW old, NEW r, r = UpdateContinueMemory(s, old)
    PROVE  ContinueDone(s, old, r)
<1> DEFINE current == [i \in Interval |-> Continued(s.currentStats_[i], s, old)]
<1>1. r = [s EXCEPT !.currentStats_ = current]
    BY Zenon DEF UpdateContinueMemory, Continued
<1> HIDE DEF current
<1>2. /\ Shape(r) /\ r.up = s.up /\ r.database_ = s.database_ /\ r.packageUids = s.packageUids
      /\ r.events_ = s.events_ /\ r.dailyExpiryDate_ = s.dailyExpiryDate_
      /\ r.lastForegroundBundle_ = s.lastForegroundBundle_
      /\ r.statsChanged_ = s.statsChanged_ /\ r.currentStats_ = current
    BY <1>1 DEF Shape, ServiceFields
<1> QED BY <1>2 DEF current, ContinueDone

\* The roll over is flush, save, clean, load and continue, in this order.
LEMMA RenewStatsIs ==
    ASSUME NEW s, NEW ts
    PROVE  LET flushed == FlushDataInMem(s)
               cleaned == Cleaned(RestoreStats(flushed, TRUE), ts)
               loaded == LoadActiveStats(cleaned, ts, FALSE, FALSE)
           IN  RenewStatsInMemory(s, ts) = RestoreStats(UpdateContinueMemory(loaded, flushed), TRUE)
BY Zenon DEF RenewStatsInMemory, Cleaned

\* A report of an event of an instance, to a service that was told of the time.
Launches(s, e) == e.eventId = FOREGROUND /\ BundleOf[e.uid] # s.lastForegroundBundle_
Reported(stats, e, launch) ==
    IF launch THEN [UpdatePackage(stats, e) EXCEPT !.bundleStats_[e.uid] = IncrementBundleLaunchedCount(@)]
    ELSE UpdatePackage(stats, e)

ReportDone(q, e, r) ==
    /\ Shape(r)
    /\ r.up = q.up /\ r.database_ = q.database_ /\ r.packageUids = q.packageUids \cup {e.uid}
    /\ r.events_ = [q.events_ EXCEPT ![e.uid] = @ \cup {[id |-> e.id, timeStamp |-> e.timeStamp]}]
    /\ r.dailyExpiryDate_ = q.dailyExpiryDate_
    /\ r.currentStats_ = [i \in Interval |-> Reported(q.currentStats_[i], e, Launches(q, e))]

\* A report adds its event once and changes the periods; the database stays.
LEMMA ReportFields ==
    ASSUME NEW s, NEW e, NEW q, q = RenewIfExpired(s, e.timeStamp), Shape(q),
           NEW r, r = ReportEvent(s, e)
    PROVE  ReportDone(q, e, r)
<1> DEFINE events == [q.events_ EXCEPT ![e.uid] = @ \cup {[id |-> e.id, timeStamp |-> e.timeStamp]}]
           bundle == IF Launches(q, e) THEN BundleOf[e.uid] ELSE q.lastForegroundBundle_
           current == [i \in Interval |-> Reported(q.currentStats_[i], e, Launches(q, e))]
<1>1. r = [q EXCEPT !.events_[e.uid] = @ \cup {[id |-> e.id, timeStamp |-> e.timeStamp]},
                    !.lastForegroundBundle_ = bundle,
                    !.currentStats_ = current, !.packageUids = @ \cup {e.uid},
                    !.statsChanged_ = TRUE]
    BY Zenon DEF ReportEvent, Launches, Reported
<1>2. r = [q EXCEPT !.events_ = events, !.lastForegroundBundle_ = bundle,
                    !.currentStats_ = current, !.packageUids = @ \cup {e.uid},
                    !.statsChanged_ = TRUE]
    BY <1>1
<1> HIDE DEF events, bundle, current
<1>3. /\ Shape(r)
      /\ r.up = q.up /\ r.database_ = q.database_ /\ r.packageUids = q.packageUids \cup {e.uid}
      /\ r.events_ = events /\ r.dailyExpiryDate_ = q.dailyExpiryDate_ /\ r.currentStats_ = current
    BY <1>2 DEF Shape, ServiceFields
<1> QED BY <1>3 DEF events, current, ReportDone

FlushDone(q, ts, r) ==
    /\ Shape(r)
    /\ r.up = q.up /\ r.database_ = q.database_ /\ r.packageUids = q.packageUids
    /\ r.events_ = q.events_ /\ r.dailyExpiryDate_ = q.dailyExpiryDate_
    /\ r.statsChanged_ = q.statsChanged_
    /\ r.currentStats_ = [i \in Interval |-> SettlePeriod(q.currentStats_[i], ts)]

\* A flush settles the periods.
LEMMA FlushFields ==
    ASSUME NEW s, NEW ts, NEW q, q = RenewIfExpired(s, ts), Shape(q),
           NEW r, r = ReportFlush(s, ts)
    PROVE  FlushDone(q, ts, r)
<1> DEFINE current == [i \in Interval |-> SettlePeriod(q.currentStats_[i], ts)]
<1>1. r = [q EXCEPT !.currentStats_ = current]
    BY DEF ReportFlush
<1> HIDE DEF current
<1>2. /\ Shape(r)
      /\ r.up = q.up /\ r.database_ = q.database_ /\ r.packageUids = q.packageUids
      /\ r.events_ = q.events_ /\ r.dailyExpiryDate_ = q.dailyExpiryDate_
      /\ r.statsChanged_ = q.statsChanged_ /\ r.currentStats_ = current
    BY <1>1 DEF Shape, ServiceFields
<1> QED BY <1>2 DEF current, FlushDone

ShutdownDone(q, r) ==
    /\ Shape(r)
    /\ r.up = q.up /\ r.database_ = q.database_ /\ r.packageUids = q.packageUids
    /\ r.events_ = q.events_ /\ r.dailyExpiryDate_ = q.dailyExpiryDate_
    /\ r.currentStats_ = q.currentStats_ /\ r.statsChanged_ = TRUE

\* So does a shutdown, which marks the service as changed.
LEMMA ShutdownFields ==
    ASSUME NEW s, NEW ts, NEW q, q = ReportFlush(s, ts), Shape(q),
           NEW r, r = ReportForShutdown(s, ts)
    PROVE  ShutdownDone(q, r)
<1>1. r = [q EXCEPT !.statsChanged_ = TRUE]
    BY DEF ReportForShutdown
<1> QED BY <1>1 DEF Shape, ServiceFields, ShutdownDone

\* What an uninstall removes from memory.
InMemory(s, u) == IF u \in MainUid THEN RemovedUids(u) \cap s.packageUids ELSE {u}

DeleteDone(s, u, r) ==
    /\ Shape(r)
    /\ r.up = s.up /\ r.packageUids = s.packageUids \ InMemory(s, u)
    /\ r.events_ = [v \in Uid |-> IF v \in InMemory(s, u) THEN {} ELSE s.events_[v]]
    /\ r.database_ = OnPackageUninstalled(s.database_, RemovedUids(u))
    /\ r.dailyExpiryDate_ = s.dailyExpiryDate_
    /\ r.currentStats_ =
         [i \in Interval |-> DeleteMemUsageStats(s.currentStats_[i], InMemory(s, u))]

\* A removal takes instances out of memory and their rows out of the tables.
LEMMA DeleteFields ==
    ASSUME NEW s, Shape(s), NEW u, NEW r, r = DeleteUninstalledBundleStats(s, u)
    PROVE  DeleteDone(s, u, r)
<1> DEFINE events == [v \in Uid |-> IF v \in InMemory(s, u) THEN {} ELSE s.events_[v]]
           db == OnPackageUninstalled(s.database_, RemovedUids(u))
           current == [i \in Interval |-> DeleteMemUsageStats(s.currentStats_[i], InMemory(s, u))]
<1>1. r = [s EXCEPT !.currentStats_ = current, !.events_ = events,
                    !.packageUids = @ \ InMemory(s, u), !.database_ = db]
    BY Zenon DEF DeleteUninstalledBundleStats, InMemory
<1>2. db = [f \in {"packageTable", "eventTable"} |-> db[f]]
    BY DEF OnPackageUninstalled
<1> HIDE DEF events, db, current
<1>3. /\ Shape(r)
      /\ r.up = s.up /\ r.packageUids = s.packageUids \ InMemory(s, u) /\ r.events_ = events
      /\ r.database_ = db /\ r.dailyExpiryDate_ = s.dailyExpiryDate_ /\ r.currentStats_ = current
    BY <1>1, <1>2 DEF Shape, ServiceFields
<1> QED BY <1>3 DEF events, db, current, DeleteDone

\* The tables are moved along with the clock.
Moved(s, timeDiff) == [s EXCEPT !.database_ = RenewTableTime(@, timeDiff)]

MovedDone(s, d, r) ==
    /\ Shape(r)
    /\ r.up = s.up /\ r.packageUids = s.packageUids /\ r.events_ = s.events_
    /\ r.currentStats_ = s.currentStats_
    /\ r.database_ = RenewTableTime(s.database_, d)

\* A clock change moves the times of the tables and keeps their rows.
LEMMA MovedFields ==
    ASSUME NEW s, Shape(s), NEW d, NEW r, r = Moved(s, d)
    PROVE  MovedDone(s, d, r)
<1> DEFINE db == RenewTableTime(s.database_, d)
<1>1. r = [s EXCEPT !.database_ = db]
    BY DEF Moved
<1>2. db = [f \in {"packageTable", "eventTable"} |-> db[f]]
    BY DEF RenewTableTime
<1> HIDE DEF db
<1>3. /\ Shape(r) /\ r.up = s.up /\ r.packageUids = s.packageUids /\ r.events_ = s.events_
      /\ r.currentStats_ = s.currentStats_ /\ r.database_ = db
    BY <1>1, <1>2 DEF Shape, ServiceFields
<1> QED BY <1>3 DEF db, MovedDone

\* RenewTableTime of the service moves the tables, then loads from them by force.
LEMMA RenewTimeIs ==
    \A s, old, new : RenewTime(s, old, new) = LoadActiveStats(Moved(s, new - old), new, TRUE, TRUE)
BY DEF RenewTime, Moved

\* A process without the service.
LEMMA NoServiceFields ==
    ASSUME NEW db, db = [f \in {"packageTable", "eventTable"} |-> db[f]], NEW r, r = NoService(db)
    PROVE  /\ Shape(r)
           /\ r.up = FALSE /\ r.packageUids = {} /\ r.events_ = NoEvents /\ r.database_ = db
           /\ r.currentStats_ = [i \in Interval |-> [beginTime_ |-> 0, bundleStats_ |-> <<>>]]
           /\ r.dailyExpiryDate_ = 0 /\ r.statsChanged_ = FALSE
BY DEF NoService, Shape, ServiceFields
-----------------------------------------------------------------------------
(* Events                                                                  *)

\* What the event table is made of.
TableType(table) ==
    /\ table = [f \in {"time", "rows", "expired"} |-> table[f]]
    /\ table.time \in Nat \cup {Unknown}
    /\ table.rows = [u \in Uid |-> table.rows[u]]
    /\ table.expired = [u \in Uid |-> table.expired[u]]

\* Events are in memory or in the table, once; a removed instance finds all of its own.
Counted(s, known) ==
    /\ s.events_ = [u \in Uid |-> s.events_[u]]
    /\ TableType(s.database_.eventTable)
    /\ \A u \in Uid : Accounts(s.events_[u], s.database_.eventTable, u, known[u])
    /\ \A u \in Uid : s.events_[u] # {} => u \in s.packageUids
    /\ s.database_.eventTable.time = Unknown =>
            s.database_.eventTable.rows = NoEvents /\ s.database_.eventTable.expired = NoEvents

\* A service whose event table exists.
Running(s, known) ==
    Shape(s) /\ s.up = TRUE /\ Counted(s, known) /\ s.database_.eventTable.time # Unknown

\* The time in the name of the event table.
EventTime(s) == s.database_.eventTable.time

\* A new day gains no days beyond the horizon.
LEMMA NoneEarly == 0 \in 0..MAX_DELETE_EVENT_DALIYS
BY HorizonAssumption

\* Events deleted for their age, or for the size of the folder, are accounted for as such.
LEMMA ExpiredAccounts ==
    ASSUME NEW table, TableType(table), table.time # Unknown, NEW begin,
           NEW days \in 0..MAX_DELETE_EVENT_DALIYS, NEW r, r = DeleteEvents(table, begin, days)
    PROVE  /\ TableType(r) /\ r.time = table.time
           /\ \A u \in Uid : \A events, known :
                Accounts(events, table, u, known) => Accounts(events, r, u, known)
<1> DEFINE age(e) == begin - (table.time + e.timeStamp)
           old(u) == {e \in table.rows[u] : age(e) >= Horizon(days)}
           gone(u) == {[id |-> e.id, age |-> age(e), early |-> days] : e \in old(u)}
<1>1. CASE r = table
    BY <1>1
<1>2. CASE r # table
    <2>1. r = [table EXCEPT !.rows = [u \in Uid |-> table.rows[u] \ old(u)],
                            !.expired = [u \in Uid |-> table.expired[u] \cup gone(u)]]
        BY <1>2 DEF DeleteEvents
    <2> HIDE DEF old, gone
    <2>2. /\ r = [f \in {"time", "rows", "expired"} |-> r[f]] /\ r.time = table.time
          /\ r.rows = [u \in Uid |-> table.rows[u] \ old(u)]
          /\ r.expired = [u \in Uid |-> table.expired[u] \cup gone(u)]
        BY <2>1 DEF TableType
    <2>3. TableType(r)
        BY <2>2 DEF TableType
    <2>4. ASSUME NEW u \in Uid, NEW events, NEW known, Accounts(events, table, u, known)
          PROVE  Accounts(events, r, u, known)
        <3> DEFINE R == table.rows[u]
                   X == table.expired[u]
                   O == old(u)
                   G == gone(u)
        <3>1. /\ Single(events) /\ Single(R) /\ NoneShared(events, R)
              /\ NoneShared(events, X) /\ NoneShared(R, X)
              /\ Numbers(events) \cup Numbers(R) \cup Numbers(X) = known
              /\ \A e \in X : OldEnough(e)
            BY <2>4 DEF Accounts
        <3>2. /\ O \subseteq R /\ Numbers(G) = Numbers(O)
              /\ \A e \in G : OldEnough(e)
            <4>1. O \subseteq R /\ \A e \in O : age(e) >= Horizon(days)
                BY DEF old
            <4>2. G = {[id |-> e.id, age |-> age(e), early |-> days] : e \in O}
                BY DEF gone
            <4> HIDE DEF O, G, R, age
            <4>3. Numbers(G) = Numbers(O)
                <5>1. \A e \in G : \E f \in O : e.id = f.id
                    BY <4>2
                <5>2. ASSUME NEW f \in O PROVE \E e \in G : e.id = f.id
                    <6> DEFINE g == [id |-> f.id, age |-> age(f), early |-> days]
                    <6>1. g \in G
                        BY <4>2
                    <6>2. g.id = f.id
                        OBVIOUS
                    <6> QED BY <6>1, <6>2
                <5> QED BY <5>1, <5>2 DEF Numbers
            <4>4. ASSUME NEW e \in G PROVE OldEnough(e)
                <5>1. PICK f \in O : e = [id |-> f.id, age |-> age(f), early |-> days]
                    BY <4>2
                <5>2. e.early = days /\ e.age = age(f) /\ age(f) >= Horizon(days)
                    BY <4>1, <5>1
                <5>3. e.age >= EventHorizon - e.early * PeriodLength[PERIOD_DAILY]
                    BY <5>2 DEF Horizon
                <5> QED BY <5>2, <5>3 DEF OldEnough
            <4> QED BY <4>1, <4>3, <4>4
        <3>3. r.rows[u] = R \ O /\ r.expired[u] = X \cup G
            BY <2>2
        <3> HIDE DEF R, X, O, G
        <3>4. /\ Numbers(O) \subseteq Numbers(R) /\ Numbers(R \ O) \cup Numbers(O) = Numbers(R)
              /\ Numbers(X \cup G) = Numbers(X) \cup Numbers(G)
            BY <3>2 DEF Numbers
        <3>5. Numbers(R \ O) \cap Numbers(O) = {}
            BY <3>1, <3>2 DEF Numbers, Single
        <3>6. Single(R \ O)
            BY <3>1 DEF Single
        <3>7. /\ NoneShared(events, R \ O) /\ NoneShared(events, X \cup G)
              /\ NoneShared(R \ O, X \cup G)
              /\ Numbers(events) \cup Numbers(R \ O) \cup Numbers(X \cup G) = known
            BY <3>1, <3>2, <3>4, <3>5 DEF NoneShared
        <3> QED BY <3>1, <3>2, <3>3, <3>6, <3>7 DEF Accounts
    <2> QED BY <2>2, <2>3, <2>4
<1> QED BY <1>1, <1>2

\* Events that are saved move from memory to the table.
LEMMA WrittenAccounts ==
    ASSUME NEW table, TableType(table), table.time # Unknown, NEW events, NEW begin,
           NEW r, r = UpdateEventData(table, events, begin)
    PROVE  /\ TableType(r) /\ r.time = table.time
           /\ \A u \in Uid : \A known :
                Accounts(events[u], table, u, known) => Accounts({}, r, u, known)
<1> DEFINE new(u) == {[id |-> e.id, timeStamp |-> e.timeStamp - table.time] : e \in events[u]}
<1>1. r = [table EXCEPT !.rows = [u \in Uid |-> table.rows[u] \cup new(u)]]
    BY DEF UpdateEventData, InitEventTable
<1> HIDE DEF new
<1>2. /\ r = [f \in {"time", "rows", "expired"} |-> r[f]] /\ r.time = table.time
      /\ r.rows = [u \in Uid |-> table.rows[u] \cup new(u)] /\ r.expired = table.expired
    BY <1>1 DEF TableType
<1>3. TableType(r)
    BY <1>2 DEF TableType
<1>4. ASSUME NEW u \in Uid, NEW known, Accounts(events[u], table, u, known)
      PROVE  Accounts({}, r, u, known)
    <2> DEFINE E == events[u]
               R == table.rows[u]
               X == table.expired[u]
               N == new(u)
    <2>1. /\ Single(E) /\ Single(R) /\ NoneShared(E, R) /\ NoneShared(E, X) /\ NoneShared(R, X)
          /\ Numbers(E) \cup Numbers(R) \cup Numbers(X) = known
          /\ \A e \in X : OldEnough(e)
        BY <1>4 DEF Accounts
    <2>0. N = {[id |-> e.id, timeStamp |-> e.timeStamp - table.time] : e \in E}
        BY DEF new
    <2>2. Numbers(N) = Numbers(E)
        <3> HIDE DEF E, N
        <3>1. \A e \in N : \E f \in E : e.id = f.id
            BY <2>0
        <3>2. ASSUME NEW f \in E PROVE \E e \in N : e.id = f.id
            <4> DEFINE g == [id |-> f.id, timeStamp |-> f.timeStamp - table.time]
            <4>1. g \in N
                BY <2>0
            <4>2. g.id = f.id
                OBVIOUS
            <4> QED BY <4>1, <4>2
        <3> QED BY <3>1, <3>2 DEF Numbers
    <2>3. Single(N)
        BY <2>0, <2>1 DEF Single
    <2>4. r.rows[u] = R \cup N /\ r.expired[u] = X
        BY <1>2
    <2> HIDE DEF E, R, X, N
    <2>5. Numbers(R \cup N) = Numbers(R) \cup Numbers(E) /\ Numbers({}) = {}
        BY <2>2 DEF Numbers
    <2>6. Single(R \cup N)
        <3> SUFFICES ASSUME NEW e \in R \cup N, NEW f \in R \cup N, e.id = f.id PROVE e = f
            BY DEF Single
        <3>1. ~(e \in R /\ f \in N) /\ ~(e \in N /\ f \in R)
            BY <2>1, <2>2 DEF NoneShared, Numbers
        <3> QED BY <2>1, <2>3, <3>1 DEF Single
    <2>7. Single({}) /\ NoneShared({}, R \cup N) /\ NoneShared({}, X) /\ NoneShared(R \cup N, X)
        BY <2>1, <2>5 DEF NoneShared, Single
    <2> QED BY <2>1, <2>4, <2>5, <2>6, <2>7 DEF Accounts
<1> QED BY <1>2, <1>3, <1>4

\* A save moves events from memory to the table.
LEMMA RestoreCounted ==
    ASSUME NEW s, NEW known, Running(s, known), NEW forced \in BOOLEAN,
           NEW r, r = RestoreStats(s, forced)
    PROVE  /\ Running(r, known) /\ EventTime(r) = EventTime(s)
           /\ forced => r.events_ = NoEvents
<1>1. CASE s.statsChanged_ \/ forced
    <2>1. /\ Shape(r) /\ r.up = TRUE /\ r.packageUids = s.packageUids
          /\ r.events_ = NoEvents /\ r.database_ = Saved(s)
        <3>1. Shape(s)
            BY DEF Running
        <3>2. RestoreDone(s, r)
            BY <1>1, <3>1, RestoreFields
        <3> QED BY <3>2 DEF RestoreDone, Running
    <2> DEFINE table == s.database_.eventTable
               begin == s.currentStats_[PERIOD_DAILY].beginTime_
               kept == IF BeginsDay(s.database_.packageTable[PERIOD_DAILY], s.currentStats_[PERIOD_DAILY])
                       THEN DeleteExcessiveEvents(table, begin) ELSE table
               saved == r.database_.eventTable
    <2>2. saved = IF s.events_ = NoEvents THEN kept ELSE UpdateEventData(kept, s.events_, begin)
        BY <2>1 DEF Saved, SaveEvents
    <2>3. /\ TableType(table) /\ table.time # Unknown
          /\ \A u \in Uid : Accounts(s.events_[u], table, u, known[u])
        BY DEF Running, Counted
    <2> HIDE DEF saved
    <2>4. /\ TableType(kept) /\ kept.time = table.time
          /\ \A u \in Uid : Accounts(s.events_[u], kept, u, known[u])
        <3> DEFINE deleted == DeleteExcessiveEvents(table, begin)
        <3>1. kept \in {deleted, table}
            OBVIOUS
        <3> HIDE DEF kept, deleted, table, begin
        <3>2. /\ TableType(deleted) /\ deleted.time = table.time
              /\ \A u \in Uid : Accounts(s.events_[u], deleted, u, known[u])
            BY <2>3, NoneEarly, ExpiredAccounts DEF deleted, DeleteExcessiveEvents
        <3> QED BY <2>3, <3>1, <3>2
    <2> HIDE DEF kept, table, begin
    <2>5. \A u \in Uid : NoEvents[u] = {}
        BY DEF NoEvents
    <2>6. /\ TableType(saved) /\ saved.time = table.time
          /\ \A u \in Uid : Accounts({}, saved, u, known[u])
        <3>1. CASE s.events_ = NoEvents
            BY <2>2, <2>4, <2>5, <3>1
        <3>2. CASE s.events_ # NoEvents
            BY <2>2, <2>3, <2>4, <3>2, WrittenAccounts
        <3> QED BY <3>1, <3>2
    <2>7. Counted(r, known)
        BY <2>1, <2>3, <2>5, <2>6 DEF Counted, saved, NoEvents
    <2> QED BY <2>1, <2>3, <2>6, <2>7 DEF Running, EventTime, saved, table
<1>2. CASE ~(s.statsChanged_ \/ forced)
    BY <1>2, RestoreSkips
<1> QED BY <1>1, <1>2

\* What does not touch the events keeps the account, when it forgets no uid.
LEMMA SameCounted ==
    ASSUME NEW s, NEW known, Running(s, known), NEW r, Shape(r), r.up = s.up,
           r.events_ = s.events_, r.database_.eventTable = s.database_.eventTable,
           s.packageUids \subseteq r.packageUids
    PROVE  Running(r, known) /\ EventTime(r) = EventTime(s)
BY DEF Running, Counted, EventTime

\* A load finds the events saved.
LEMMA LoadCounted ==
    ASSUME NEW s, NEW known, Running(s, known), s.events_ = NoEvents,
           NEW ts, NEW force \in BOOLEAN, NEW changed \in BOOLEAN,
           NEW r, r = LoadActiveStats(s, ts, force, changed)
    PROVE  Running(r, known) /\ EventTime(r) = EventTime(s) /\ r.events_ = NoEvents
<1>0. Shape(s)
    BY DEF Running
<1>1. /\ Shape(r) /\ r.up = s.up /\ r.database_ = s.database_ /\ r.events_ = s.events_
      /\ s.packageUids \subseteq r.packageUids
    <2>1. LoadDone(s, ts, force, changed, r)
        BY <1>0, LoadFields
    <2> QED BY <2>1 DEF LoadDone
<1> QED BY <1>1, SameCounted

\* The end of a day saves before it loads.
LEMMA RenewStatsCounted ==
    ASSUME NEW s, NEW known, Running(s, known), NEW ts
    PROVE  LET r == RenewStatsInMemory(s, ts)
           IN  Running(r, known) /\ EventTime(r) = EventTime(s)
<1> DEFINE flushed == FlushDataInMem(s)
           saved == RestoreStats(flushed, TRUE)
           cleaned == Cleaned(saved, ts)
           loaded == LoadActiveStats(cleaned, ts, FALSE, FALSE)
           continued == UpdateContinueMemory(loaded, flushed)
           r == RestoreStats(continued, TRUE)
<1> HIDE DEF flushed, saved, cleaned, loaded, continued, r
<1>1. Running(flushed, known) /\ EventTime(flushed) = EventTime(s)
    <2>1. /\ Shape(flushed) /\ flushed.up = s.up /\ flushed.events_ = s.events_
          /\ flushed.database_ = s.database_ /\ flushed.packageUids = s.packageUids
        <3>1. Shape(s) /\ flushed = FlushDataInMem(s)
            BY DEF Running, flushed
        <3>2. FlushDataDone(s, flushed)
            BY <3>1, FlushDataFields
        <3> QED BY <3>2 DEF FlushDataDone
    <2> QED BY <2>1, SameCounted
<1>2. Running(saved, known) /\ EventTime(saved) = EventTime(s) /\ saved.events_ = NoEvents
    BY <1>1, RestoreCounted DEF saved
<1>3. Running(cleaned, known) /\ EventTime(cleaned) = EventTime(s) /\ cleaned.events_ = NoEvents
    <2>1. /\ Shape(cleaned) /\ cleaned.up = saved.up /\ cleaned.events_ = saved.events_
          /\ cleaned.database_.eventTable = saved.database_.eventTable
          /\ cleaned.packageUids = saved.packageUids
        <3>1. Shape(saved) /\ cleaned = Cleaned(saved, ts)
            BY <1>2 DEF Running, cleaned
        <3>2. CleanedDone(saved, ts, cleaned)
            BY <3>1, CleanedFields
        <3> QED BY <3>2 DEF CleanedDone
    <2> QED BY <1>2, <2>1, SameCounted
<1>4. Running(loaded, known) /\ EventTime(loaded) = EventTime(s)
    <2>1. loaded = LoadActiveStats(cleaned, ts, FALSE, FALSE)
        BY DEF loaded
    <2>2. Running(cleaned, known) /\ cleaned.events_ = NoEvents
        BY <1>3
    <2>3. Running(loaded, known) /\ EventTime(loaded) = EventTime(cleaned)
        BY <2>1, <2>2, LoadCounted
    <2> QED BY <1>3, <2>3
<1>5. Running(continued, known) /\ EventTime(continued) = EventTime(s)
    <2>1. /\ Shape(continued) /\ continued.up = loaded.up /\ continued.events_ = loaded.events_
          /\ continued.database_ = loaded.database_ /\ continued.packageUids = loaded.packageUids
        <3>1. Shape(loaded) /\ continued = UpdateContinueMemory(loaded, flushed)
            BY <1>4 DEF Running, continued
        <3>2. ContinueDone(loaded, flushed, continued)
            BY <3>1, ContinueFields
        <3> QED BY <3>2 DEF ContinueDone
    <2> QED BY <1>4, <2>1, SameCounted
<1>6. Running(r, known) /\ EventTime(r) = EventTime(s)
    BY <1>5, RestoreCounted DEF r
<1>7. RenewStatsInMemory(s, ts) = r
    BY RenewStatsIs, Zenon DEF r, continued, loaded, cleaned, saved, flushed
<1> QED BY <1>6, <1>7

\* A day that may have ended, with or without a roll over.
LEMMA RenewCounted ==
    ASSUME NEW s, NEW known, Running(s, known), NEW ts
    PROVE  LET r == RenewIfExpired(s, ts) IN Running(r, known) /\ EventTime(r) = EventTime(s)
BY RenewStatsCounted DEF RenewIfExpired

\* A report adds one event, to memory.
LEMMA ReportCounted ==
    ASSUME NEW s, NEW known, known = [u \in Uid |-> known[u]], Running(s, known),
           NEW e, e.uid \in Uid, e.id \notin known[e.uid]
    PROVE  LET r == ReportEvent(s, e)
           IN  /\ Running(r, [known EXCEPT ![e.uid] = @ \cup {e.id}])
               /\ EventTime(r) = EventTime(s)
<1> DEFINE q == RenewIfExpired(s, e.timeStamp)
           r == ReportEvent(s, e)
           new == [id |-> e.id, timeStamp |-> e.timeStamp]
<1>1. Running(q, known) /\ EventTime(q) = EventTime(s)
    BY RenewCounted
<1>0. new.id = e.id
    OBVIOUS
<1> HIDE DEF q, r, new
<1>2. /\ Shape(r) /\ r.up = q.up /\ r.database_ = q.database_
      /\ r.packageUids = q.packageUids \cup {e.uid}
      /\ r.events_ = [q.events_ EXCEPT ![e.uid] = @ \cup {new}]
    <2>1. Shape(q) /\ q = RenewIfExpired(s, e.timeStamp) /\ r = ReportEvent(s, e)
        BY <1>1 DEF Running, q, r
    <2>2. ReportDone(q, e, r)
        BY <2>1, ReportFields
    <2> QED BY <2>2 DEF ReportDone, new
<1> DEFINE now == [known EXCEPT ![e.uid] = @ \cup {e.id}]
           table == q.database_.eventTable
<1>3. Running(r, now)
    <2>1. /\ q.events_ = [u \in Uid |-> q.events_[u]] /\ q.up = TRUE
          /\ TableType(table) /\ table.time # Unknown
          /\ \A u \in Uid : Accounts(q.events_[u], table, u, known[u])
          /\ \A u \in Uid : q.events_[u] # {} => u \in q.packageUids
        BY <1>1 DEF Running, Counted
    <2>2. /\ r.events_ = [u \in Uid |-> IF u = e.uid THEN q.events_[u] \cup {new} ELSE q.events_[u]]
          /\ now = [u \in Uid |-> IF u = e.uid THEN known[u] \cup {e.id} ELSE known[u]]
          /\ r.database_.eventTable = table
        BY <1>2, <2>1
    <2> HIDE DEF now, table
    <2>3. ASSUME NEW u \in Uid
          PROVE  /\ Accounts(r.events_[u], table, u, now[u])
                 /\ r.events_[u] # {} => u \in r.packageUids
        <3>1. CASE u # e.uid
            BY <1>2, <2>1, <2>2, <3>1
        <3>2. CASE u = e.uid
            <4> DEFINE E == q.events_[u]
            <4>1. /\ Single(E) /\ Single(table.rows[u]) /\ NoneShared(E, table.rows[u])
                  /\ NoneShared(E, table.expired[u]) /\ NoneShared(table.rows[u], table.expired[u])
                  /\ Numbers(E) \cup Numbers(table.rows[u]) \cup Numbers(table.expired[u]) = known[u]
                  /\ \A x \in table.expired[u] : OldEnough(x)
                BY <2>1 DEF Accounts
            <4>2. r.events_[u] = E \cup {new} /\ now[u] = known[u] \cup {e.id} /\ u \in r.packageUids
                BY <1>2, <2>2, <3>2
            <4> HIDE DEF E
            <4>3. Numbers(E \cup {new}) = Numbers(E) \cup {e.id} /\ e.id \notin known[u]
                BY <1>0, <3>2 DEF Numbers
            <4>4. Single(E \cup {new})
                BY <1>0, <4>1, <4>3 DEF Single, Numbers
            <4>5. /\ NoneShared(E \cup {new}, table.rows[u]) /\ NoneShared(E \cup {new}, table.expired[u])
                  /\ Numbers(E \cup {new}) \cup Numbers(table.rows[u])
                        \cup Numbers(table.expired[u]) = now[u]
                BY <4>1, <4>2, <4>3 DEF NoneShared
            <4> QED BY <4>1, <4>2, <4>4, <4>5 DEF Accounts
        <3> QED BY <3>1, <3>2
    <2>4. Counted(r, now)
        BY <2>1, <2>2, <2>3 DEF Counted
    <2> QED BY <1>2, <2>1, <2>2, <2>4 DEF Running
<1> QED BY <1>1, <1>2, <1>3 DEF r, EventTime

\* A FLUSH may end the day and records no event of its own.
LEMMA FlushCounted ==
    ASSUME NEW s, NEW known, Running(s, known), NEW ts
    PROVE  LET r == ReportFlush(s, ts) IN Running(r, known) /\ EventTime(r) = EventTime(s)
<1> DEFINE q == RenewIfExpired(s, ts)
           r == ReportFlush(s, ts)
<1>1. Running(q, known) /\ EventTime(q) = EventTime(s)
    BY RenewCounted
<1> HIDE DEF q, r
<1>2. /\ Shape(r) /\ r.up = q.up /\ r.database_ = q.database_ /\ r.packageUids = q.packageUids
      /\ r.events_ = q.events_
    <2>1. Shape(q) /\ q = RenewIfExpired(s, ts) /\ r = ReportFlush(s, ts)
        BY <1>1 DEF Running, q, r
    <2>2. FlushDone(q, ts, r)
        BY <2>1, FlushFields
    <2> QED BY <2>2 DEF FlushDone
<1>3. Running(r, known) /\ EventTime(r) = EventTime(s)
    BY <1>1, <1>2, SameCounted
<1> QED BY <1>3 DEF r

\* A shutdown saves all.
LEMMA ShutdownCounted ==
    ASSUME NEW s, NEW known, Running(s, known), NEW ts
    PROVE  LET r == RestoreStats(ReportForShutdown(s, ts), TRUE)
           IN  Running(r, known) /\ EventTime(r) = EventTime(s)
<1> DEFINE q == ReportFlush(s, ts)
           p == ReportForShutdown(s, ts)
<1>1. Running(q, known) /\ EventTime(q) = EventTime(s)
    BY FlushCounted
<1> HIDE DEF q, p
<1>2. /\ Shape(p) /\ p.up = q.up /\ p.database_ = q.database_ /\ p.packageUids = q.packageUids
      /\ p.events_ = q.events_
    <2>1. Shape(q) /\ q = ReportFlush(s, ts) /\ p = ReportForShutdown(s, ts)
        BY <1>1 DEF Running, q, p
    <2>2. ShutdownDone(q, p)
        BY <2>1, ShutdownFields
    <2> QED BY <2>2 DEF ShutdownDone
<1>3. Running(p, known) /\ EventTime(p) = EventTime(s)
    BY <1>1, <1>2, SameCounted
<1>4. Running(RestoreStats(p, TRUE), known) /\ EventTime(RestoreStats(p, TRUE)) = EventTime(p)
    BY <1>3, RestoreCounted
<1> QED BY <1>3, <1>4 DEF p

\* After an uninstall nothing is known of the instances that went.
LEMMA DeleteCounted ==
    ASSUME NEW s, NEW known, Running(s, known), NEW u \in Uid
    PROVE  LET r == DeleteUninstalledBundleStats(s, u)
           IN  /\ Running(r, [v \in Uid |-> IF v \in RemovedUids(u) THEN {} ELSE known[v]])
               /\ EventTime(r) = EventTime(s)
<1> DEFINE r == DeleteUninstalledBundleStats(s, u)
           left == [v \in Uid |-> IF v \in RemovedUids(u) THEN {} ELSE known[v]]
           table == s.database_.eventTable
           now == r.database_.eventTable
<1> HIDE DEF r
<1>1. /\ Shape(r)
      /\ r.up = s.up /\ r.packageUids = s.packageUids \ InMemory(s, u)
      /\ r.events_ = [v \in Uid |-> IF v \in InMemory(s, u) THEN {} ELSE s.events_[v]]
      /\ r.database_ = OnPackageUninstalled(s.database_, RemovedUids(u))
    <2>1. Shape(s) /\ r = DeleteUninstalledBundleStats(s, u)
        BY DEF Running, r
    <2>2. DeleteDone(s, u, r)
        BY <2>1, DeleteFields
    <2> QED BY <2>2 DEF DeleteDone
<1>2. TableType(table) /\ table.time # Unknown
    BY DEF Running, Counted
<1>3. now = [table EXCEPT
                !.rows = [v \in Uid |-> IF v \in RemovedUids(u) THEN {} ELSE table.rows[v]],
                !.expired = [v \in Uid |-> IF v \in RemovedUids(u) THEN {} ELSE table.expired[v]]]
    BY <1>1 DEF OnPackageUninstalled
<1> HIDE DEF table, now
<1>4. /\ TableType(now) /\ now.time = table.time
      /\ \A v \in Uid : v \in RemovedUids(u) => now.rows[v] = {} /\ now.expired[v] = {}
      /\ \A v \in Uid : v \notin RemovedUids(u) =>
            now.rows[v] = table.rows[v] /\ now.expired[v] = table.expired[v]
    <2> DEFINE rows == [v \in Uid |-> IF v \in RemovedUids(u) THEN {} ELSE table.rows[v]]
               expired == [v \in Uid |-> IF v \in RemovedUids(u) THEN {} ELSE table.expired[v]]
    <2>1. now = [table EXCEPT !.rows = rows, !.expired = expired]
        BY <1>3
    <2>2. rows = [v \in Uid |-> rows[v]] /\ expired = [v \in Uid |-> expired[v]]
        <3>1. rows = [v \in Uid |-> rows[v]]
            OBVIOUS
        <3>2. expired = [v \in Uid |-> expired[v]]
            OBVIOUS
        <3> HIDE DEF rows, expired
        <3> QED BY <3>1, <3>2
    <2>3. \A v \in Uid : v \in RemovedUids(u) => rows[v] = {} /\ expired[v] = {}
        OBVIOUS
    <2>4. \A v \in Uid : v \notin RemovedUids(u) =>
            rows[v] = table.rows[v] /\ expired[v] = table.expired[v]
        OBVIOUS
    <2> HIDE DEF rows, expired
    <2>5. /\ now = [f \in {"time", "rows", "expired"} |-> now[f]]
          /\ now.time = table.time /\ now.rows = rows /\ now.expired = expired
        BY <1>2, <2>1 DEF TableType
    <2>6. TableType(now)
        BY <1>2, <2>2, <2>5 DEF TableType
    <2> QED BY <2>3, <2>4, <2>5, <2>6
<1>5. InMemory(s, u) \subseteq RemovedUids(u)
    BY DEF InMemory, RemovedUids
<1>l. /\ \A v \in Uid : v \in RemovedUids(u) => left[v] = {}
      /\ \A v \in Uid : v \notin RemovedUids(u) => left[v] = known[v]
    OBVIOUS
<1> HIDE DEF left
<1>6. ASSUME NEW v \in Uid
      PROVE  /\ Accounts(r.events_[v], now, v, left[v])
             /\ r.events_[v] # {} => v \in r.packageUids
    <2>1. Accounts(s.events_[v], table, v, known[v]) /\ (s.events_[v] # {} => v \in s.packageUids)
        BY DEF Running, Counted, table
    <2>2. CASE v \in RemovedUids(u)
        <3>1. r.events_[v] = {}
            <4>1. CASE v \in InMemory(s, u)
                BY <1>1, <4>1
            <4>2. CASE v \notin InMemory(s, u)
                <5>1. v \notin s.packageUids
                    BY <2>2, <4>2 DEF InMemory, RemovedUids
                <5> QED BY <1>1, <2>1, <4>2, <5>1
            <4> QED BY <4>1, <4>2
        <3>2. now.rows[v] = {} /\ now.expired[v] = {} /\ left[v] = {}
            BY <1>4, <1>l, <2>2
        <3>3. Accounts(r.events_[v], now, v, left[v])
            <4>1. Numbers(r.events_[v]) = {} /\ Single(r.events_[v])
                BY <3>1 DEF Numbers, Single
            <4>2. Numbers(now.rows[v]) = {} /\ Single(now.rows[v])
                BY <3>2 DEF Numbers, Single
            <4>3. Numbers(now.expired[v]) = {}
                BY <3>2 DEF Numbers
            <4> QED BY <3>2, <4>1, <4>2, <4>3 DEF Accounts, NoneShared
        <3> QED BY <3>1, <3>3
    <2>3. CASE v \notin RemovedUids(u)
        <3>1. /\ r.events_[v] = s.events_[v] /\ left[v] = known[v] /\ v \notin InMemory(s, u)
              /\ now.rows[v] = table.rows[v] /\ now.expired[v] = table.expired[v]
            <4>1. v \notin InMemory(s, u)
                BY <1>5, <2>3
            <4>2. r.events_[v] = s.events_[v]
                BY <1>1, <4>1
            <4> QED BY <1>4, <1>l, <2>3, <4>1, <4>2
        <3>2. Accounts(r.events_[v], now, v, left[v])
            BY <2>1, <3>1 DEF Accounts
        <3>3. r.events_[v] # {} => v \in r.packageUids
            BY <1>1, <2>1, <3>1
        <3> QED BY <3>2, <3>3
    <2> QED BY <2>2, <2>3
<1>7. r.events_ = [v \in Uid |-> r.events_[v]]
    BY <1>1
<1>8. Counted(r, left)
    BY <1>2, <1>4, <1>6, <1>7 DEF Counted, now
<1>9. Running(r, left) /\ EventTime(r) = EventTime(s)
    BY <1>1, <1>2, <1>4, <1>8 DEF Running, EventTime, table, now
<1> QED BY <1>9 DEF r, left

\* A service that begins keeps the event table, unless it is of the future.
LEMMA InitCounted ==
    ASSUME NEW s, NEW known, Shape(s), Counted(s, known), s.events_ = NoEvents,
           NEW ts \in Nat, EventTime(s) <= ts
    PROVE  LET r == InitService(s, ts)
           IN  Running(r, known) /\ EventTime(r) = IF EventTime(s) = Unknown THEN ts ELSE EventTime(s)
<1> DEFINE o == Opened(s, ts)
           r == LoadActiveStats(o, ts, FALSE, FALSE)
           table == s.database_.eventTable
<1> HIDE DEF o, r
<1>1. /\ Shape(o) /\ o.up = TRUE /\ o.database_ = InitDatabaseTableInfo(s.database_, ts)
      /\ o.packageUids = s.packageUids /\ o.events_ = s.events_
    <2>1. OpenedDone(s, ts, o)
        BY OpenedFields DEF o
    <2> QED BY <2>1 DEF OpenedDone
<1>2. /\ TableType(table) /\ ~(ts < table.time) /\ table.time \in Nat \cup {Unknown}
      /\ (table.time = Unknown => table.rows = NoEvents /\ table.expired = NoEvents)
      /\ \A u \in Uid : Accounts(NoEvents[u], table, u, known[u])
    BY DEF Counted, EventTime, Unknown, TableType
<1> DEFINE daily == s.database_.packageTable[PERIOD_DAILY]
           deleted == DeleteExcessiveEvents(table, LastTable(daily))
           kept == IF daily = <<>> THEN table ELSE deleted
           new == o.database_.eventTable
<1>a. new = InitEventTable(IF ts < kept.time THEN NoEventTable ELSE kept, ts)
    BY <1>1 DEF InitDatabaseTableInfo
<1>b. kept \in {deleted, table}
    OBVIOUS
<1> HIDE DEF table, kept, new
<1>c. deleted = table \/ table.time # Unknown
    BY DEF DeleteExcessiveEvents, DeleteEvents
<1>d. /\ TableType(deleted) /\ deleted.time = table.time
      /\ \A u \in Uid : Accounts(NoEvents[u], deleted, u, known[u])
    <2> HIDE DEF deleted
    <2>1. CASE deleted = table
        BY <1>2, <2>1
    <2>2. CASE table.time # Unknown
        BY <1>2, <2>2, NoneEarly, ExpiredAccounts DEF deleted, DeleteExcessiveEvents
    <2> QED BY <1>c, <2>1, <2>2
<1> HIDE DEF deleted
<1>e. /\ TableType(kept) /\ kept.time = table.time
      /\ \A u \in Uid : Accounts(NoEvents[u], kept, u, known[u])
    BY <1>2, <1>b, <1>d
<1>3. new = InitEventTable(kept, ts)
    BY <1>2, <1>a, <1>e
<1>4. /\ TableType(new) /\ new.time # Unknown
      /\ new.time = IF table.time = Unknown THEN ts ELSE table.time
      /\ \A u \in Uid : Accounts(NoEvents[u], new, u, known[u])
    <2>1. CASE table.time # Unknown
        BY <1>2, <1>3, <1>e, <2>1 DEF InitEventTable
    <2>2. CASE table.time = Unknown
        <3>1. kept = table
            BY <1>b, <1>c, <2>2
        <3>2. new = [NoEventTable EXCEPT !.time = ts]
            BY <1>3, <1>e, <2>2 DEF InitEventTable
        <3>3. /\ new = [f \in {"time", "rows", "expired"} |-> new[f]]
              /\ new.time = ts /\ new.rows = NoEvents /\ new.expired = NoEvents
            BY <3>2 DEF NoEventTable
        <3>4. TableType(new) /\ new.time # Unknown
            BY <3>3 DEF TableType, NoEvents, Unknown
        <3>5. ASSUME NEW u \in Uid PROVE Accounts(NoEvents[u], new, u, known[u])
            <4>1. new.rows[u] = table.rows[u] /\ new.expired[u] = table.expired[u]
                BY <1>2, <2>2, <3>3
            <4> QED BY <1>2, <4>1 DEF Accounts
        <3> QED BY <2>2, <3>3, <3>4, <3>5
    <2> QED BY <2>1, <2>2
<1>5. Running(o, known)
    <2>1. s.events_ = NoEvents /\ o.events_ = [u \in Uid |-> o.events_[u]]
          /\ \A u \in Uid : o.events_[u] # {} => u \in o.packageUids
        BY <1>1 DEF Counted
    <2>2. Counted(o, known)
        BY <1>1, <1>4, <2>1 DEF Counted, new
    <2> QED BY <1>1, <1>4, <2>2 DEF Running, new
<1>6. Running(r, known) /\ EventTime(r) = EventTime(o)
    <2>1. o.events_ = NoEvents /\ r = LoadActiveStats(o, ts, FALSE, FALSE)
        BY <1>1 DEF r
    <2> QED BY <1>5, <2>1, LoadCounted
<1>7. InitService(s, ts) = r
    BY InitServiceIs, Zenon DEF r, o
<1>8. EventTime(o) = IF EventTime(s) = Unknown THEN ts ELSE EventTime(s)
    BY <1>4 DEF EventTime, table, new
<1> QED BY <1>6, <1>7, <1>8

\* Tables that move along with the clock keep their events.
LEMMA RenewTimeCounted ==
    ASSUME NEW s, NEW known, Running(s, known), s.events_ = NoEvents,
           NEW old \in Int, NEW new \in Int, EventTime(s) + (new - old) >= 0
    PROVE  LET r == RenewTime(s, old, new)
           IN  Running(r, known) /\ EventTime(r) = EventTime(s) + (new - old)
<1> DEFINE d == new - old
           m == Moved(s, d)
           r == LoadActiveStats(m, new, TRUE, TRUE)
           table == s.database_.eventTable
<1> HIDE DEF m, r
<1>1. /\ Shape(m) /\ m.up = s.up /\ m.packageUids = s.packageUids /\ m.events_ = s.events_
      /\ m.database_ = RenewTableTime(s.database_, d)
    <2>1. Shape(s) /\ m = Moved(s, d)
        BY DEF Running, m
    <2>2. MovedDone(s, d, m)
        BY <2>1, MovedFields
    <2> QED BY <2>2 DEF MovedDone
<1>2. TableType(table) /\ table.time # Unknown /\ table.time + d \in Nat
    BY DEF Running, Counted, EventTime, TableType
<1>3. m.database_.eventTable = [table EXCEPT !.time = table.time + d]
    BY <1>1, <1>2 DEF RenewTableTime
<1> DEFINE moved == m.database_.eventTable
<1> HIDE DEF table, d, moved
<1>4. /\ TableType(moved) /\ moved.rows = table.rows /\ moved.expired = table.expired
      /\ moved.time = table.time + d /\ moved.time # Unknown
    BY <1>2, <1>3 DEF Unknown, TableType, moved
<1>5. Running(m, known)
    <2>1. /\ s.events_ = [u \in Uid |-> s.events_[u]] /\ s.up = TRUE
          /\ \A u \in Uid : Accounts(s.events_[u], table, u, known[u])
          /\ \A u \in Uid : s.events_[u] # {} => u \in s.packageUids
        BY DEF Running, Counted, table
    <2>2. \A u \in Uid : Accounts(s.events_[u], moved, u, known[u])
        BY <1>4, <2>1 DEF Accounts
    <2>3. Counted(m, known)
        BY <1>1, <1>4, <2>1, <2>2 DEF Counted, moved
    <2> QED BY <1>1, <1>4, <2>1, <2>3 DEF Running, moved
<1>6. Running(r, known) /\ EventTime(r) = EventTime(m)
    <2>1. m.events_ = NoEvents /\ r = LoadActiveStats(m, new, TRUE, TRUE)
        BY <1>1 DEF r
    <2> QED BY <1>5, <2>1, LoadCounted
<1>7. RenewTime(s, old, new) = r
    BY RenewTimeIs, Zenon DEF r, m, d
<1>8. EventTime(m) = EventTime(s) + d
    BY <1>4 DEF EventTime, table, moved
<1> QED BY <1>6, <1>7, <1>8 DEF d

\* A clock that was set is found out: what was counted is saved before the tables move.
LEMMA CheckCounted ==
    ASSUME NEW known, svc.up = TRUE, Running(svc, known), boot \in Nat, offset \in Int, shot \in Int,
           EventTime(svc) + (offset - shot) >= 0
    PROVE  LET r == CheckTimeChange(svc)
           IN  Running(r, known) /\ EventTime(r) = EventTime(svc) + (offset - shot)
<1>1. CASE offset = shot
    <2>1. EventTime(svc) \in Int
        BY DEF Running, Counted, TableType, EventTime, Unknown
    <2> QED BY <1>1, <2>1 DEF CheckTimeChange
<1>2. CASE offset # shot
    <2> DEFINE old == ExpectedSystemTime
               new == SystemTime
               told == ReportFlush(svc, old)
               saved == RestoreStats(told, TRUE)
               r == RenewTime(saved, old, new)
    <2>1. old \in Int /\ new \in Int /\ new - old = offset - shot
        BY DEF ExpectedSystemTime, SystemTime
    <2>2. CheckTimeChange(svc) = r
        BY <1>2 DEF CheckTimeChange
    <2> HIDE DEF old, new, told, saved, r
    <2>3. Running(told, known) /\ EventTime(told) = EventTime(svc)
        BY FlushCounted DEF told
    <2>4. Running(saved, known) /\ EventTime(saved) = EventTime(svc) /\ saved.events_ = NoEvents
        BY <2>3, RestoreCounted DEF saved
    <2>5. Running(r, known) /\ EventTime(r) = EventTime(saved) + (new - old)
        <3>1. EventTime(saved) + (new - old) >= 0
            BY <2>1, <2>4
        <3> QED BY <2>1, <2>4, <3>1, RenewTimeCounted DEF r
    <2> QED BY <2>1, <2>2, <2>4, <2>5
<1> QED BY <1>1, <1>2

-----------------------------------------------------------------------------
(* The clocks                                                              *)

\* Every setting of the clock takes at most its share of the time since 1970 away.
AtLeast(time) ==
    scenario.maxJumps * time >= (scenario.maxJumps - jumps) * scenario.startTime

\* The clocks are after 1970 and within the bounds of the scenario.
ClocksOK ==
    /\ scenario \in Scenario /\ boot \in Nat /\ offset \in Int /\ shot \in Int
    /\ jumps \in Nat /\ crashes \in Nat /\ jumps <= scenario.maxJumps
    /\ SystemTime >= 0
    /\ jumps = 0 => offset = scenario.startTime /\ shot = offset
    /\ AtLeast(offset)

\* The bounds of a scenario are numbers, and its clock changes stay after 1970.
LEMMA ScenarioIs ==
    ASSUME NEW c \in Scenario
    PROVE  /\ c.uids \subseteq Uid /\ c.tasks \subseteq Task
           /\ c.startTime \in Nat /\ c.maxTime \in Nat /\ c.maxEvents \in Nat
           /\ c.maxJumps \in Nat /\ c.maxCrashes \in Nat
           /\ \A d \in ClockJump : d \in Int /\ c.startTime + c.maxJumps * d >= 0
BY CoreAssumption

\* One more setting, and the bound still holds.
LEMMA Share ==
    ASSUME NEW m \in Nat, NEW j \in Nat, NEW start \in Nat, NEW x \in Int, NEW d \in Int,
           m * x >= (m - j) * start, start + m * d >= 0
    PROVE  m * (x + d) >= (m - (j + 1)) * start
<1>1. m * (x + d) = m * x + m * d
    OBVIOUS
<1>2. (m - (j + 1)) * start = (m - j) * start - start
    OBVIOUS
<1>3. m * x \in Int /\ m * d \in Int /\ (m - j) * start \in Int
    OBVIOUS
<1> QED BY <1>1, <1>2, <1>3

\* A setting of the clock that is still to come takes nothing away.
LEMMA ShareWaits ==
    ASSUME NEW m \in Nat, NEW j \in Nat, NEW start \in Nat, NEW x \in Int,
           m * x >= (m - j) * start
    PROVE  m * x >= (m - (j + 1)) * start
<1>1. (m - (j + 1)) * start = (m - j) * start - start
    OBVIOUS
<1>2. m * x \in Int /\ (m - j) * start \in Int
    OBVIOUS
<1> QED BY <1>1, <1>2

\* Time that passes keeps the bound.
LEMMA ShareLater ==
    ASSUME NEW m \in Nat, NEW j \in Nat, NEW start \in Nat, NEW x \in Int, NEW y \in Nat,
           m * x >= (m - j) * start
    PROVE  m * (y + x) >= (m - j) * start
<1>1. m * (y + x) = m * x + m * y
    OBVIOUS
<1>2. m * x \in Int /\ (m - j) * start \in Int /\ m * y \in Nat
    OBVIOUS
<1> QED BY <1>1, <1>2

\* The bound keeps a time after 1970.
LEMMA SharePositive ==
    ASSUME NEW m \in Nat, m > 0, NEW j \in Nat, j <= m, NEW start \in Nat, NEW x \in Int,
           m * x >= (m - j) * start
    PROVE  x >= 0
<1>1. (m - j) * start \in Nat
    <2>1. m - j \in Nat
        OBVIOUS
    <2> QED BY <2>1
<1>2. m * x >= 0
    BY <1>1
<1>3. x < 0 => m * x < 0
    OBVIOUS
<1> QED BY <1>2, <1>3

\* What a step does to the clocks.
SameClocks == UNCHANGED <<scenario, boot, offset, jumps>>

\* A step leaves the clocks alone, is a tick or sets the wall clock.
LEMMA StepClocks ==
    ASSUME [Next]_vars
    PROVE  \/ SameClocks /\ shot' \in {shot, offset} /\ crashes' \in {crashes, crashes + 1}
           \/ boot' = boot + 1 /\ UNCHANGED <<scenario, offset, shot, jumps, crashes>>
           \/ \E d \in ClockJump : /\ jumps < scenario.maxJumps /\ SystemTime + d >= 0
                                   /\ offset' = offset + d /\ jumps' = jumps + 1
                                   /\ UNCHANGED <<scenario, boot, shot, crashes>>
<1>1. CASE \E u \in scenario.uids, id \in AbilityEventId, a \in Ability : AbilityEvent(u, id, a)
    BY <1>1 DEF AbilityEvent, Report, SameClocks
<1>2. CASE \E u \in scenario.uids, id \in TaskEventId, t \in scenario.tasks : TaskEvent(u, id, t)
    BY <1>2 DEF TaskEvent, Report, SameClocks
<1>3. CASE \E u \in scenario.uids : Uninstall(u)
    BY <1>3 DEF Uninstall, SameClocks
<1>4. CASE FlushBegin \/ FlushReport \/ FlushRestore
    BY <1>4 DEF FlushBegin, FlushReport, FlushRestore, history, SameClocks
<1>5. CASE Query \/ ShutDown
    BY <1>5 DEF Query, ShutDown, history, SameClocks
<1>6. CASE Tick
    BY <1>6 DEF Tick
<1>7. CASE \E d \in ClockJump : SetClock(d)
    BY <1>7 DEF SetClock
<1>8. CASE Crash
    BY <1>8 DEF Crash, SameClocks
<1>10. CASE \E days \in 0..MAX_DELETE_EVENT_DALIYS,
               begin \in DOMAIN svc.database_.packageTable[PERIOD_DAILY] :
                 ProcessDataSize(days, begin)
    BY <1>10 DEF ProcessDataSize, history, SameClocks
<1>9. CASE UNCHANGED vars
    BY <1>9 DEF vars, SameClocks
<1> QED BY <1>1, <1>2, <1>3, <1>4, <1>5, <1>6, <1>7, <1>8, <1>9, <1>10 DEF Next

\* The clocks at the start.
LEMMA ClocksInit == Init => ClocksOK
<1> SUFFICES ASSUME Init PROVE ClocksOK
    OBVIOUS
<1>1. /\ scenario \in Scenario /\ boot = 0 /\ offset = scenario.startTime /\ shot = offset
      /\ jumps = 0 /\ crashes = 0
    BY DEF Init
<1>2. scenario.maxJumps \in Nat /\ scenario.startTime \in Nat
    BY <1>1, ScenarioIs
<1>3. scenario.maxJumps * offset = (scenario.maxJumps - jumps) * scenario.startTime
      /\ scenario.maxJumps * offset \in Int
    BY <1>1, <1>2
<1> QED BY <1>1, <1>2, <1>3 DEF ClocksOK, AtLeast, SystemTime

\* Every step keeps the clocks in their bounds.
LEMMA ClocksStep == ClocksOK /\ [Next]_vars => ClocksOK'
<1> SUFFICES ASSUME ClocksOK, [Next]_vars PROVE ClocksOK'
    OBVIOUS
<1>1. /\ scenario \in Scenario /\ boot \in Nat /\ offset \in Int /\ shot \in Int
      /\ jumps \in Nat /\ crashes \in Nat /\ jumps <= scenario.maxJumps
      /\ SystemTime >= 0
      /\ jumps = 0 => offset = scenario.startTime /\ shot = offset
      /\ AtLeast(offset)
    BY DEF ClocksOK
<1>2. /\ scenario.maxJumps \in Nat /\ scenario.startTime \in Nat
      /\ \A d \in ClockJump : d \in Int /\ scenario.startTime + scenario.maxJumps * d >= 0
    BY <1>1, ScenarioIs
<1>3. CASE SameClocks /\ shot' \in {shot, offset} /\ crashes' \in {crashes, crashes + 1}
    <2>1. SystemTime' = SystemTime /\ (AtLeast(offset) => AtLeast(offset)')
        BY <1>3 DEF SameClocks, SystemTime, AtLeast
    <2> QED BY <1>1, <1>3, <2>1 DEF ClocksOK, SameClocks
<1>4. CASE boot' = boot + 1 /\ UNCHANGED <<scenario, offset, shot, jumps, crashes>>
    <2>1. SystemTime' >= 0 /\ (AtLeast(offset) => AtLeast(offset)')
        BY <1>1, <1>4 DEF SystemTime, AtLeast
    <2> QED BY <1>1, <1>4, <2>1 DEF ClocksOK
<1>5. ASSUME NEW d \in ClockJump, jumps < scenario.maxJumps, SystemTime + d >= 0,
             offset' = offset + d, jumps' = jumps + 1, UNCHANGED <<scenario, boot, shot, crashes>>
      PROVE  ClocksOK'
    <2>1. SystemTime' >= 0
        BY <1>1, <1>2, <1>5 DEF SystemTime
    <2>2. AtLeast(offset)'
        BY <1>1, <1>2, <1>5, Share DEF AtLeast
    <2> QED BY <1>1, <1>2, <1>5, <2>1, <2>2 DEF ClocksOK
<1> QED BY <1>3, <1>4, <1>5, StepClocks

-----------------------------------------------------------------------------
(* The account                                                             *)

\* The table of events stays: no process died in a run in which the clock is set.
Accountable == ~(ClockWasSet /\ ProcessDied)

\* The event table is not of the future, and moving it with the clock does not take it
\* before 1970.
TableTimeOK ==
    /\ jumps = 0 => EventTime(svc) <= SystemTime
    /\ crashes = 0 /\ EventTime(svc) # Unknown =>
            AtLeast(EventTime(svc)) /\ AtLeast(EventTime(svc) + (offset - shot))

\* Events have numbers up to how many were reported.
Numbering == reports \in Nat /\ reported \in [Uid -> SUBSET (1 .. reports)]

\* The account, in memory and in the table, and when there is a table.
EventsOK ==
    /\ Shape(svc) /\ svc.up \in BOOLEAN /\ Numbering /\ Counted(svc, reported)
    /\ svc.up => EventTime(svc) # Unknown
    /\ ~svc.up => svc.events_ = NoEvents
    /\ ~svc.up /\ crashes = 0 => EventTime(svc) = Unknown
    /\ flush.pc # "idle" => svc.up
    /\ TableTimeOK

\* The inductive invariant.
EventsInv == ClocksOK /\ (Accountable => EventsOK)

\* A table time after the check: it has moved with the clock.
LEMMA CheckedService ==
    ASSUME ClocksOK, Accountable, EventsOK
    PROVE  LET q == GetUserData(CheckTimeChange(svc))
           IN  /\ Running(q, reported)
               /\ jumps = 0 => EventTime(q) <= SystemTime
               /\ crashes = 0 => AtLeast(EventTime(q))
<1> DEFINE c == CheckTimeChange(svc)
           q == GetUserData(c)
<1>1. /\ scenario \in Scenario /\ boot \in Nat /\ offset \in Int /\ shot \in Int
      /\ jumps \in Nat /\ crashes \in Nat /\ jumps <= scenario.maxJumps
      /\ SystemTime \in Nat
      /\ jumps = 0 => offset = scenario.startTime /\ shot = offset
      /\ AtLeast(offset)
    BY DEF ClocksOK, SystemTime
<1>2. scenario.maxJumps \in Nat /\ scenario.startTime \in Nat
    BY <1>1, ScenarioIs
<1>3. EventTime(svc) \in Int /\ (EventTime(svc) # Unknown => EventTime(svc) \in Nat) /\ EventTime(svc) >= -1
    BY DEF EventsOK, Counted, TableType, EventTime, Unknown
<1> HIDE DEF c, q
<1>4. CASE svc.up = TRUE
    <2>1. Running(svc, reported) /\ EventTime(svc) # Unknown
        BY <1>4 DEF EventsOK, Running, EventTime
    <2>2. EventTime(svc) + (offset - shot) >= 0
        <3>1. CASE jumps = 0
            BY <1>1, <1>3, <2>1, <3>1
        <3>2. CASE jumps # 0
            <4>1. crashes = 0 /\ scenario.maxJumps > 0
                BY <1>1, <1>2, <3>2 DEF Accountable, ClockWasSet, ProcessDied
            <4>2. AtLeast(EventTime(svc) + (offset - shot))
                BY <2>1, <4>1 DEF EventsOK, TableTimeOK
            <4>3. EventTime(svc) + (offset - shot) \in Int
                BY <1>1, <1>3
            <4> QED BY <1>1, <1>2, <4>1, <4>2, <4>3, SharePositive DEF AtLeast
        <3> QED BY <3>1, <3>2
    <2>3. Running(c, reported) /\ EventTime(c) = EventTime(svc) + (offset - shot)
        BY <1>1, <1>4, <2>1, <2>2, CheckCounted DEF c
    <2>4. q = c
        BY <2>3 DEF q, GetUserData, Running
    <2>5. jumps = 0 => EventTime(svc) <= SystemTime
        BY DEF EventsOK, TableTimeOK
    <2>6. crashes = 0 => AtLeast(EventTime(svc) + (offset - shot))
        BY <2>1 DEF EventsOK, TableTimeOK
    <2>7. jumps = 0 => EventTime(c) <= SystemTime
        BY <1>1, <1>3, <2>3, <2>5
    <2> QED BY <2>3, <2>4, <2>6, <2>7 DEF q, c
<1>5. CASE ~svc.up
    <2>1. c = svc
        BY <1>5 DEF c, CheckTimeChange
    <2>2. q = InitService(svc, SystemTime)
        BY <1>5, <2>1 DEF q, GetUserData
    <2>3. /\ Shape(svc) /\ Counted(svc, reported) /\ svc.events_ = NoEvents
          /\ crashes = 0 => EventTime(svc) = Unknown
          /\ jumps = 0 => EventTime(svc) <= SystemTime
        BY <1>5 DEF EventsOK, TableTimeOK
    <2>4. EventTime(svc) <= SystemTime
        <3>1. jumps # 0 => crashes = 0
            BY <1>1 DEF Accountable, ClockWasSet, ProcessDied
        <3> QED BY <1>1, <2>3, <3>1 DEF Unknown
    <2>5. /\ Running(q, reported)
          /\ EventTime(q) = IF EventTime(svc) = Unknown THEN SystemTime ELSE EventTime(svc)
        BY <1>1, <2>2, <2>3, <2>4, InitCounted
    <2>6. AtLeast(SystemTime)
        BY <1>1, <1>2, ShareLater DEF AtLeast, SystemTime
    <2>7. jumps = 0 => EventTime(q) <= SystemTime
        BY <1>1, <2>4, <2>5
    <2>8. crashes = 0 => AtLeast(EventTime(q))
        BY <2>3, <2>5, <2>6
    <2> QED BY <2>5, <2>7, <2>8 DEF q, c
<1> QED BY <1>4, <1>5 DEF EventsOK

\* Nothing was reported at the start.
LEMMA EventsInit == Init => EventsInv
<1> SUFFICES ASSUME Init PROVE EventsInv
    OBVIOUS
<1>1. ClocksOK
    BY ClocksInit
<1>2. /\ Shape(svc) /\ svc.up = FALSE /\ svc.packageUids = {} /\ svc.events_ = NoEvents
      /\ svc.database_ = EmptyDatabase
    <2>1. EmptyDatabase = [f \in {"packageTable", "eventTable"} |-> EmptyDatabase[f]]
        BY DEF EmptyDatabase
    <2>2. svc = NoService(EmptyDatabase)
        BY DEF Init
    <2> QED BY <2>1, <2>2, NoServiceFields
<1>3. /\ reported = NoEvents /\ reports = 0 /\ \A u \in Uid : NoEvents[u] = {}
      /\ NoEvents = [u \in Uid |-> NoEvents[u]] /\ Numbering
    BY DEF Init, NoEvents, Numbering
<1> DEFINE table == svc.database_.eventTable
<1>4. /\ table.time = Unknown /\ table.rows = NoEvents /\ table.expired = NoEvents
      /\ table = [f \in {"time", "rows", "expired"} |-> table[f]] /\ EventTime(svc) = Unknown
    BY <1>2 DEF EmptyDatabase, NoEventTable, EventTime
<1>5. Counted(svc, reported)
    <2> HIDE DEF table
    <2>1. TableType(table)
        BY <1>3, <1>4 DEF TableType
    <2>2. ASSUME NEW u \in Uid PROVE Accounts({}, table, u, {})
        BY <1>3, <1>4 DEF Accounts, Single, NoneShared, Numbers
    <2> QED BY <1>2, <1>3, <1>4, <2>1, <2>2 DEF Counted, table
<1>6. TableTimeOK
    BY <1>1, <1>4 DEF TableTimeOK, ClocksOK, Unknown, SystemTime
<1>7. flush.pc = "idle"
    BY DEF Init, Idle
<1> QED BY <1>1, <1>2, <1>3, <1>4, <1>5, <1>6, <1>7 DEF EventsInv, EventsOK

\* A handler that has looked at the clock.
LEMMA CheckedStep ==
    ASSUME ClocksOK, SameClocks, crashes' = crashes, shot' = offset,
           Running(svc', reported'), Numbering',
           jumps = 0 => EventTime(svc') <= SystemTime,
           crashes = 0 => AtLeast(EventTime(svc'))
    PROVE  EventsOK'
<1>1. Shape(svc') /\ svc'.up = TRUE /\ Counted(svc', reported') /\ EventTime(svc') # Unknown
      /\ EventTime(svc') \in Int
    BY DEF Running, EventTime, Counted, TableType, Unknown
<1>2. EventTime(svc') + (offset - offset) = EventTime(svc')
    BY <1>1 DEF ClocksOK
<1>3. /\ SystemTime' = SystemTime
      /\ \A x : AtLeast(x) <=> scenario'.maxJumps * x >= (scenario'.maxJumps - jumps') * scenario'.startTime
    BY DEF SameClocks, SystemTime, AtLeast
<1>4. TableTimeOK'
    BY <1>2, <1>3 DEF TableTimeOK, SameClocks, AtLeast, EventTime
<1> QED BY <1>1, <1>4 DEF EventsOK, EventTime, Counted, Shape, TableType, Numbering

\* A step of the flush looks at no clock.
LEMMA UncheckedStep ==
    ASSUME ClocksOK, EventsOK, UNCHANGED <<scenario, boot, offset, shot, jumps, crashes, reports, reported>>,
           Running(svc', reported), EventTime(svc') = EventTime(svc)
    PROVE  EventsOK'
<1>1. Shape(svc') /\ svc'.up = TRUE /\ Counted(svc', reported) /\ EventTime(svc') # Unknown
    BY DEF Running, EventTime
<1>2. TableTimeOK'
    BY DEF EventsOK, TableTimeOK, SystemTime, AtLeast, EventTime
<1> QED BY <1>1, <1>2 DEF EventsOK, EventTime, Counted, Shape, TableType, Numbering

\* A report of an ability or a task, with what the check and the roll over do first.
LEMMA ReportStep ==
    ASSUME ClocksOK, Accountable, EventsOK, NEW e, e.uid \in Uid, e.id = reports + 1, Report(e)
    PROVE  EventsOK'
<1> DEFINE q == GetUserData(CheckTimeChange(svc))
<1>1. /\ Running(q, reported)
      /\ jumps = 0 => EventTime(q) <= SystemTime
      /\ crashes = 0 => AtLeast(EventTime(q))
    BY CheckedService
<1>2. /\ svc' = ReportEvent(q, e) /\ shot' = offset /\ SameClocks /\ crashes' = crashes
      /\ reports' = reports + 1 /\ reported' = [reported EXCEPT ![e.uid] = @ \cup {e.id}]
    BY Zenon DEF Report, SameClocks
<1>3. Numbering
    BY DEF EventsOK
<1> HIDE DEF q
<1>4. Running(svc', reported') /\ EventTime(svc') = EventTime(q)
    <2> DEFINE r == ReportEvent(q, e)
               now == [reported EXCEPT ![e.uid] = @ \cup {e.id}]
    <2>1. reported = [u \in Uid |-> reported[u]] /\ e.id \notin reported[e.uid]
        BY <1>3 DEF Numbering
    <2>2. Running(r, now) /\ EventTime(r) = EventTime(q)
        BY <1>1, <2>1, ReportCounted
    <2> HIDE DEF r, now
    <2> QED BY <1>2, <2>2 DEF r, now
<1>5. Numbering'
    BY <1>2, <1>3 DEF Numbering
<1> QED BY <1>1, <1>2, <1>4, <1>5, CheckedStep

\* A removal forgets the events of the instance in memory and in the table.
LEMMA UninstallStep ==
    ASSUME ClocksOK, Accountable, EventsOK, NEW u \in Uid, Uninstall(u)
    PROVE  EventsOK'
<1> DEFINE q == GetUserData(CheckTimeChange(svc))
           left == [v \in Uid |-> IF v \in RemovedUids(u) THEN {} ELSE reported[v]]
<1>1. /\ Running(q, reported)
      /\ jumps = 0 => EventTime(q) <= SystemTime
      /\ crashes = 0 => AtLeast(EventTime(q))
    BY CheckedService
<1>2. /\ svc' = DeleteUninstalledBundleStats(q, u) /\ shot' = offset /\ SameClocks
      /\ crashes' = crashes /\ reports' = reports /\ reported' = left
    BY Zenon DEF Uninstall, SameClocks
<1>3. Numbering'
    BY <1>2 DEF EventsOK, Numbering
<1> HIDE DEF q
<1>4. Running(svc', left) /\ EventTime(svc') = EventTime(q)
    BY <1>1, <1>2, DeleteCounted
<1> HIDE DEF left
<1> QED BY <1>1, <1>2, <1>3, <1>4, CheckedStep

\* A query may open the service and check the clock; it counts nothing.
LEMMA QueryStep == ASSUME ClocksOK, Accountable, EventsOK, Query PROVE EventsOK'
<1> DEFINE q == GetUserData(CheckTimeChange(svc))
<1>1. /\ Running(q, reported)
      /\ jumps = 0 => EventTime(q) <= SystemTime
      /\ crashes = 0 => AtLeast(EventTime(q))
    BY CheckedService
<1>2. /\ svc' = q /\ shot' = offset /\ SameClocks /\ crashes' = crashes
      /\ reports' = reports /\ reported' = reported
    BY DEF Query, SameClocks, history
<1>3. Numbering'
    BY <1>2 DEF EventsOK, Numbering
<1> HIDE DEF q
<1> QED BY <1>1, <1>2, <1>3, CheckedStep

\* A service that is up has its event table.
LEMMA ServiceRuns == ASSUME EventsOK, svc.up PROVE Running(svc, reported)
BY DEF EventsOK, Running, EventTime

\* A shutdown settles and saves.
LEMMA ShutDownStep == ASSUME ClocksOK, EventsOK, ShutDown PROVE EventsOK'
<1>1. /\ svc.up /\ svc' = RestoreStats(ReportForShutdown(svc, SystemTime), TRUE) /\ shot' = offset
      /\ SameClocks /\ crashes' = crashes /\ reports' = reports /\ reported' = reported
    BY DEF ShutDown, SameClocks, history
<1>2. Running(svc', reported) /\ EventTime(svc') = EventTime(svc)
    BY <1>1, ServiceRuns, ShutdownCounted
<1>3. /\ EventTime(svc) # Unknown /\ Numbering'
      /\ jumps = 0 => EventTime(svc) <= SystemTime
      /\ crashes = 0 => AtLeast(EventTime(svc))
    BY <1>1 DEF EventsOK, TableTimeOK, Numbering
<1> QED BY <1>1, <1>2, <1>3, CheckedStep

\* The three parts of a flush save what they find.
LEMMA FlushStep == ASSUME ClocksOK, EventsOK, FlushBegin \/ FlushReport \/ FlushRestore PROVE EventsOK'
<1>1. CASE FlushBegin
    <2>1. svc.up /\ svc' = svc /\ UNCHANGED <<scenario, boot, offset, shot, jumps, crashes, reports, reported>>
        BY <1>1 DEF FlushBegin, history
    <2> QED BY <2>1, ServiceRuns, UncheckedStep
<1>2. CASE FlushReport
    <2>1. svc.up /\ UNCHANGED <<scenario, boot, offset, shot, jumps, crashes, reports, reported>>
          /\ svc' = ReportFlush(svc, flush.timeStamp)
        BY <1>2 DEF FlushReport, history, EventsOK
    <2>2. Running(svc', reported) /\ EventTime(svc') = EventTime(svc)
        BY <2>1, ServiceRuns, FlushCounted
    <2> QED BY <2>1, <2>2, UncheckedStep
<1>3. CASE FlushRestore
    <2>1. svc.up /\ UNCHANGED <<scenario, boot, offset, shot, jumps, crashes, reports, reported>>
          /\ svc' = RestoreStats(svc, FALSE)
        BY <1>3 DEF FlushRestore, history, EventsOK
    <2>2. Running(svc', reported) /\ EventTime(svc') = EventTime(svc)
        BY <2>1, ServiceRuns, RestoreCounted
    <2> QED BY <2>1, <2>2, UncheckedStep
<1> QED BY <1>1, <1>2, <1>3

\* What ProcessDataSize changes: rows of the event table.
LEMMA SizeFields ==
    ASSUME Shape(svc), NEW days, NEW begin, ProcessDataSize(days, begin)
    PROVE  /\ Shape(svc') /\ svc.up /\ svc'.up = svc.up /\ svc'.events_ = svc.events_
           /\ svc'.packageUids = svc.packageUids /\ svc'.currentStats_ = svc.currentStats_
           /\ svc'.dailyExpiryDate_ = svc.dailyExpiryDate_ /\ svc'.statsChanged_ = svc.statsChanged_
           /\ svc'.lastForegroundBundle_ = svc.lastForegroundBundle_
           /\ svc'.database_.packageTable = svc.database_.packageTable
           /\ svc'.database_.eventTable = DeleteEvents(svc.database_.eventTable, begin, days)
           /\ UNCHANGED <<scenario, boot, offset, shot, flush, jumps, crashes, reports, reported,
                          front, frontTicks>>
<1> DEFINE new == DeleteEvents(svc.database_.eventTable, begin, days)
           db == [svc.database_ EXCEPT !.eventTable = new]
<1>1. /\ svc.up /\ svc' = [svc EXCEPT !.database_ = db]
      /\ UNCHANGED <<scenario, boot, offset, shot, flush, jumps, crashes, reports, reported,
                     front, frontTicks>>
    BY DEF ProcessDataSize, history
<1> HIDE DEF new
<1>2. /\ db = [f \in {"packageTable", "eventTable"} |-> db[f]]
      /\ db.packageTable = svc.database_.packageTable /\ db.eventTable = new
    BY DEF Shape
<1> HIDE DEF db
<1>3. Shape(svc')
    BY <1>1, <1>2 DEF Shape, ServiceFields
<1> QED BY <1>1, <1>2, <1>3 DEF Shape, ServiceFields, new

\* A full folder takes old events only.
LEMMA SizeStep ==
    ASSUME ClocksOK, EventsOK, NEW days \in 0..MAX_DELETE_EVENT_DALIYS, NEW begin,
           ProcessDataSize(days, begin)
    PROVE  EventsOK'
<1> DEFINE table == svc.database_.eventTable
           new == DeleteEvents(table, begin, days)
<1>1. Running(svc, reported)
    BY ServiceRuns DEF ProcessDataSize
<1>2. /\ TableType(table) /\ table.time # Unknown
      /\ \A u \in Uid : Accounts(svc.events_[u], table, u, reported[u])
    BY <1>1 DEF Running, Counted
<1> HIDE DEF new
<1>3. /\ Shape(svc') /\ svc'.up = TRUE /\ svc'.events_ = svc.events_
      /\ svc'.packageUids = svc.packageUids /\ svc'.database_.eventTable = new
      /\ UNCHANGED <<scenario, boot, offset, shot, jumps, crashes, reports, reported>>
    BY <1>1, SizeFields DEF Running, new
<1> HIDE DEF table
<1>4. /\ TableType(new) /\ new.time = table.time
      /\ \A u \in Uid : Accounts(svc.events_[u], new, u, reported[u])
    BY <1>2, ExpiredAccounts DEF new
<1>5. Running(svc', reported) /\ EventTime(svc') = EventTime(svc)
    BY <1>1, <1>2, <1>3, <1>4 DEF Running, Counted, EventTime, table
<1> QED BY <1>3, <1>5, UncheckedStep

\* Time passes.
LEMMA TickStep == ASSUME ClocksOK, EventsOK, Tick PROVE EventsOK'
<1>1. boot' = boot + 1 /\ UNCHANGED <<scenario, svc, offset, shot, flush, reports, reported, jumps, crashes>>
    BY DEF Tick
<1>2. EventTime(svc) \in Int /\ SystemTime \in Int /\ SystemTime' = SystemTime + 1
    BY <1>1 DEF EventsOK, Counted, TableType, EventTime, Unknown, ClocksOK, SystemTime
<1>3. TableTimeOK'
    BY <1>1, <1>2 DEF EventsOK, TableTimeOK, AtLeast, EventTime
<1> QED BY <1>1, <1>3 DEF EventsOK, EventTime, Counted, Shape, TableType, Numbering

\* The clock is set.
LEMMA SetClockStep == ASSUME ClocksOK, EventsOK, NEW d \in ClockJump, SetClock(d) PROVE EventsOK'
<1> DEFINE m == scenario.maxJumps
           start == scenario.startTime
           t == EventTime(svc)
           x == t + (offset - shot)
<1>1. /\ jumps' = jumps + 1 /\ offset' = offset + d
      /\ UNCHANGED <<scenario, svc, boot, shot, flush, reports, reported, crashes>>
    BY DEF SetClock
<1>2. /\ m \in Nat /\ start \in Nat /\ d \in Int /\ start + m * d >= 0 /\ jumps \in Nat
      /\ offset \in Int /\ shot \in Int
    BY ScenarioIs DEF ClocksOK
<1>3. t \in Int /\ x \in Int
    BY <1>2 DEF EventsOK, Counted, TableType, EventTime, Unknown
<1>4. ASSUME crashes = 0, t # Unknown
      PROVE  /\ m * t >= (m - (jumps + 1)) * start
             /\ m * (x + d) >= (m - (jumps + 1)) * start
    <2>1. m * t >= (m - jumps) * start /\ m * x >= (m - jumps) * start
        BY <1>4 DEF EventsOK, TableTimeOK, AtLeast
    <2> HIDE DEF m, start, t, x
    <2> QED BY <1>2, <1>3, <2>1, Share, ShareWaits
<1>5. x + d = t + (offset' - shot')
    BY <1>1, <1>2, <1>3
<1>6. jumps' # 0
    BY <1>1, <1>2
<1>7. TableTimeOK'
    BY <1>1, <1>4, <1>5, <1>6 DEF TableTimeOK, AtLeast, EventTime
<1> QED BY <1>1, <1>7 DEF EventsOK, EventTime, Counted, Shape, TableType, Numbering

\* The process dies: what was not saved is forgotten.
LEMMA CrashStep == ASSUME ClocksOK, EventsOK, Crash, jumps = 0 PROVE EventsOK'
<1> DEFINE db == svc.database_
           table == db.eventTable
           left == [u \in Uid |-> Numbers(table.rows[u]) \cup Numbers(table.expired[u])]
<1>1. /\ svc' = NoService(db) /\ reported' = left /\ shot' = offset /\ flush' = Idle
      /\ crashes' = crashes + 1 /\ reports' = reports /\ SameClocks
    BY DEF Crash, SameClocks
<1>2. /\ db = [f \in {"packageTable", "eventTable"} |-> db[f]] /\ TableType(table)
      /\ \A u \in Uid : Accounts(svc.events_[u], table, u, reported[u])
      /\ table.time = Unknown => table.rows = NoEvents /\ table.expired = NoEvents
    BY DEF EventsOK, Counted, Shape
<1> HIDE DEF db
<1>3. /\ Shape(svc') /\ svc'.up = FALSE /\ svc'.packageUids = {} /\ svc'.events_ = NoEvents
      /\ svc'.database_ = db
    BY <1>1, <1>2, NoServiceFields
<1>4. NoEvents = [u \in Uid |-> NoEvents[u]] /\ \A u \in Uid : NoEvents[u] = {}
    BY DEF NoEvents
<1> HIDE DEF table
<1>5. ASSUME NEW u \in Uid
      PROVE  left[u] \subseteq reported[u] /\ Accounts({}, table, u, left[u])
    <2>1. Single({}) /\ NoneShared({}, table.rows[u]) /\ NoneShared({}, table.expired[u]) /\ Numbers({}) = {}
        BY DEF Single, NoneShared, Numbers
    <2> QED BY <1>2, <2>1 DEF Accounts
<1>a. Numbering'
    BY <1>1, <1>5 DEF EventsOK, Numbering
<1> HIDE DEF left
<1>6. Counted(svc', reported')
    <2>1. svc'.database_.eventTable = table
        BY <1>3 DEF table
    <2> QED BY <1>1, <1>2, <1>3, <1>4, <1>5, <2>1 DEF Counted
<1>7. crashes' # 0 /\ SystemTime' = SystemTime /\ jumps' = jumps /\ EventTime(svc') = EventTime(svc)
    BY <1>1, <1>3 DEF ClocksOK, SameClocks, SystemTime, EventTime, db
<1>8. TableTimeOK'
    BY <1>7 DEF EventsOK, TableTimeOK, EventTime
<1>9. flush'.pc = "idle"
    BY <1>1 DEF Idle
<1> QED BY <1>1, <1>3, <1>a, <1>6, <1>7, <1>8, <1>9 DEF EventsOK, EventTime

\* Every step keeps the account.
LEMMA EventsStep == EventsInv /\ [Next]_vars => EventsInv'
<1> SUFFICES ASSUME EventsInv, [Next]_vars, Accountable' PROVE EventsOK'
    BY ClocksStep DEF EventsInv
<1>1. ClocksOK /\ jumps \in Nat /\ crashes \in Nat /\ scenario \in Scenario /\ scenario.uids \subseteq Uid
    BY ScenarioIs DEF EventsInv, ClocksOK
<1>2. /\ jumps' \in {jumps, jumps + 1} /\ crashes' \in {crashes, crashes + 1}
    BY StepClocks DEF SameClocks
<1>3. Accountable /\ EventsOK
    BY <1>1, <1>2 DEF Accountable, ClockWasSet, ProcessDied, EventsInv
<1>4. ASSUME NEW u \in scenario.uids, NEW id \in AbilityEventId, NEW a \in Ability, AbilityEvent(u, id, a)
      PROVE  EventsOK'
    <2> DEFINE e == [id |-> reports + 1, eventId |-> id, uid |-> u, ability |-> a,
                     timeStamp |-> SystemTime]
    <2>1. Report(e) /\ e.uid \in Uid /\ e.id = reports + 1
        BY <1>1, <1>4 DEF AbilityEvent
    <2> QED BY <1>1, <1>3, <2>1, ReportStep
<1>5. ASSUME NEW u \in scenario.uids, NEW id \in TaskEventId, NEW t \in scenario.tasks, TaskEvent(u, id, t)
      PROVE  EventsOK'
    <2> DEFINE e == [id |-> reports + 1, eventId |-> id, uid |-> u, task |-> t,
                     timeStamp |-> SystemTime]
    <2>1. Report(e) /\ e.uid \in Uid /\ e.id = reports + 1
        BY <1>1, <1>5 DEF TaskEvent
    <2> QED BY <1>1, <1>3, <2>1, ReportStep
<1>6. CASE \E u \in scenario.uids : Uninstall(u)
    BY <1>1, <1>3, <1>6, UninstallStep
<1>7. CASE FlushBegin \/ FlushReport \/ FlushRestore
    BY <1>1, <1>3, <1>7, FlushStep
<1>8. CASE Query
    BY <1>1, <1>3, <1>8, QueryStep
<1>9. CASE ShutDown
    BY <1>1, <1>3, <1>9, ShutDownStep
<1>10. CASE Tick
    BY <1>1, <1>3, <1>10, TickStep
<1>11. CASE \E d \in ClockJump : SetClock(d)
    BY <1>1, <1>3, <1>11, SetClockStep
<1>12. CASE Crash
    <2>1. crashes' = crashes + 1 /\ jumps' = jumps
        BY <1>1, <1>12 DEF Crash
    <2>2. jumps = 0
        BY <1>1, <2>1 DEF Accountable, ClockWasSet, ProcessDied
    <2> QED BY <1>1, <1>3, <1>12, <2>2, CrashStep
<1>14. CASE \E days \in 0..MAX_DELETE_EVENT_DALIYS,
               begin \in DOMAIN svc.database_.packageTable[PERIOD_DAILY] :
                 ProcessDataSize(days, begin)
    BY <1>1, <1>3, <1>14, SizeStep
<1>13. CASE UNCHANGED vars
    <2>1. UNCHANGED <<scenario, svc, boot, offset, shot, flush, reports, reported, jumps, crashes>>
        BY <1>13 DEF vars
    <2>2. TableTimeOK'
        BY <1>3, <2>1 DEF EventsOK, TableTimeOK, AtLeast, EventTime, SystemTime
    <2> QED BY <1>3, <2>1, <2>2 DEF EventsOK, EventTime, Counted, Shape, TableType, Numbering
<1> QED BY <1>4, <1>5, <1>6, <1>7, <1>8, <1>9, <1>10, <1>11, <1>12, <1>13, <1>14 DEF Next

\* Every event that was reported is in memory or in the event table, once, until it is
\* deleted there, which happens to no event younger than EventHorizon (seven days), less the
\* days by which a full folder is trimmed: whatever the day changes, the flush, the clock and
\* the shutdown do between the report and the save.
THEOREM EventsAreAccounted == Spec => []EventsAccounted
<1>1. EventsInv => EventsAccounted
    BY DEF EventsInv, EventsOK, Accountable, EventsAccounted, Counted
<1> QED BY EventsInit, EventsStep, <1>1, PTL DEF Spec

-----------------------------------------------------------------------------
(* Calendar periods                                                        *)

\* Intervals have lengths.
LEMMA Intervals ==
    /\ PERIOD_DAILY \in Interval
    /\ \A i \in Interval : Span[i] \in Nat \ {0} /\ PeriodLength[i] \in Nat \ {0}
    /\ PeriodLength[PERIOD_DAILY] = Span[PERIOD_DAILY]
<1>1. Span \in Seq(Nat \ {0}) /\ Span # <<>>
    BY IntervalAssumption
<1>2. Interval = 1..Len(Span) /\ Len(Span) \in Nat \ {0}
    BY <1>1 DEF Interval
<1>3. \A i \in Interval : Span[i] \in Nat \ {0}
    BY <1>1 DEF Interval
<1>4. PERIOD_DAILY \in Interval
    BY <1>2 DEF PERIOD_DAILY
<1> QED BY <1>3, <1>4, IntervalAssumption

\* A begin of a period.
Aligned(i, time) == time \in Int /\ time % Span[i] = 0

\* A multiple is a product, ...
LEMMA Product ==
    ASSUME NEW n \in Int, NEW s \in Nat \ {0}, n % s = 0
    PROVE  \E k \in Int : n = s * k
<1>1. n = s * (n \div s) + (n % s) /\ n \div s \in Int
    OBVIOUS
<1> QED BY <1>1

\* ... and a product is a multiple.
LEMMA Multiple ==
    ASSUME NEW s \in Nat \ {0}, NEW k \in Int
    PROVE  (s * k) % s = 0
<1> DEFINE n == s * k
           d == n \div s
           r == n % s
<1>1. n = s * d + r /\ r \in 0..(s - 1) /\ d \in Int
    OBVIOUS
<1> HIDE DEF d, r
<1>2. r = s * (k - d)
    <2>1. s * (k - d) = s * k - s * d
        BY <1>1
    <2> QED BY <1>1, <2>1
<1>3. CASE k - d >= 1
    <2>1. s * (k - d) >= s
        BY <1>1, <1>3
    <2> QED BY <1>1, <1>2, <2>1
<1>4. CASE k - d <= -1
    <2>1. s * (k - d) <= -s
        BY <1>1, <1>4
    <2> QED BY <1>1, <1>2, <2>1
<1>5. CASE k - d = 0
    BY <1>1, <1>2, <1>5 DEF r
<1> QED BY <1>1, <1>3, <1>4, <1>5

\* Multiples lie a length apart.
LEMMA Apart ==
    ASSUME NEW a \in Int, NEW b \in Int, NEW s \in Nat \ {0}, a % s = 0, b % s = 0, a < b
    PROVE  a + s <= b
<1>1. PICK k \in Int : a = s * k
    BY Product
<1>2. PICK m \in Int : b = s * m
    BY Product
<1>3. k < m
    <2> SUFFICES ASSUME k >= m PROVE FALSE
        OBVIOUS
    <2>1. s * k >= s * m
        OBVIOUS
    <2> QED BY <1>1, <1>2, <2>1
<1>4. s * (k + 1) <= s * m
    BY <1>3
<1>5. s * (k + 1) = s * k + s
    OBVIOUS
<1> QED BY <1>1, <1>2, <1>4, <1>5

\* The begin of the period of a time.
LEMMA Truncated ==
    ASSUME NEW i \in Interval, NEW time \in Int
    PROVE  /\ Aligned(i, TruncateTo(i, time)) /\ TruncateTo(i, time) <= time
           /\ time < TruncateTo(i, time) + Span[i]
<1> DEFINE s == Span[i]
<1>1. s \in Nat \ {0}
    BY Intervals
<1> HIDE DEF s
<1>2. time % s \in 0..(s - 1)
    BY <1>1
<1>3. time - (time % s) = s * (time \div s) /\ time \div s \in Int
    BY <1>1
<1>4. (s * (time \div s)) % s = 0
    BY <1>1, <1>3, Multiple
<1>5. time - (time % s) \in Int /\ time - (time % s) <= time /\ time < time - (time % s) + s
    BY <1>1, <1>2
<1> QED BY <1>1, <1>3, <1>4, <1>5 DEF TruncateTo, Aligned, s

\* No period begins between the begin of the period of a time and that time.
LEMMA LastBegin ==
    ASSUME NEW i \in Interval, NEW time \in Int, NEW t, Aligned(i, t), t <= time
    PROVE  t <= TruncateTo(i, time)
<1> DEFINE b == TruncateTo(i, time)
           s == Span[i]
<1>1. s \in Nat \ {0}
    BY Intervals
<1>2. t \in Int /\ t % s = 0 /\ b \in Int /\ b % s = 0 /\ time < b + s
    BY Truncated DEF Aligned
<1> HIDE DEF b, s
<1>3. b < t => b + s <= t
    BY <1>1, <1>2, Apart
<1> QED BY <1>1, <1>2, <1>3 DEF b

-----------------------------------------------------------------------------
(* What is counted for an instance                                         *)

\* A count goes on.
Onward(p, q) == q \in PackageStatsType /\ p.totalInFrontTime_ <= q.totalInFrontTime_

\* Events that can be reported.
EventOK(e) ==
    /\ e.uid \in Uid /\ e.timeStamp \in Int
    /\ \/ e.eventId \in AbilityEventId /\ e.ability \in Ability
       \/ e.eventId \in TaskEventId /\ e.task \in Task

\* Time is added, never taken away.
LEMMA IncrementOnward ==
    ASSUME NEW p \in PackageStatsType, NEW t \in Int
    PROVE  Onward(p, IncrementTimeUsed(p, t)) /\ Onward(p, IncrementServiceTimeUsed(p, t))
<1>1. /\ p.totalInFrontTime_ \in Int /\ p.lastTimeUsed_ \in Int
      /\ p.totalContiniousTaskUsedTime_ \in Int /\ p.lastContiniousTaskUsed_ \in Int
    BY DEF PackageStatsType
<1>2. Onward(p, IncrementTimeUsed(p, t))
    <2> DEFINE n == p.totalInFrontTime_ + t - p.lastTimeUsed_
    <2>1. n \in Int /\ (t > p.lastTimeUsed_ => n >= p.totalInFrontTime_)
        BY <1>1
    <2>2. IncrementTimeUsed(p, t) = IF t > p.lastTimeUsed_
                                    THEN [p EXCEPT !.totalInFrontTime_ = n, !.lastTimeUsed_ = t] ELSE p
        BY DEF IncrementTimeUsed
    <2> HIDE DEF n
    <2>3. CASE t > p.lastTimeUsed_
        <3>1. [p EXCEPT !.totalInFrontTime_ = n, !.lastTimeUsed_ = t] \in PackageStatsType
            BY <2>1 DEF PackageStatsType
        <3>2. [p EXCEPT !.totalInFrontTime_ = n, !.lastTimeUsed_ = t].totalInFrontTime_ = n
            BY DEF PackageStatsType
        <3> QED BY <2>1, <2>2, <2>3, <3>1, <3>2 DEF Onward
    <2>4. CASE ~(t > p.lastTimeUsed_)
        BY <1>1, <2>2, <2>4 DEF Onward
    <2> QED BY <2>3, <2>4
<1>3. Onward(p, IncrementServiceTimeUsed(p, t))
    <2> DEFINE n == p.totalContiniousTaskUsedTime_ + t - p.lastContiniousTaskUsed_
    <2>1. n \in Int
        BY <1>1
    <2>2. IncrementServiceTimeUsed(p, t) =
            IF t > p.lastContiniousTaskUsed_
            THEN [p EXCEPT !.totalContiniousTaskUsedTime_ = n, !.lastContiniousTaskUsed_ = t] ELSE p
        BY DEF IncrementServiceTimeUsed
    <2> HIDE DEF n
    <2>3. CASE t > p.lastContiniousTaskUsed_
        <3> DEFINE q == [p EXCEPT !.totalContiniousTaskUsedTime_ = n, !.lastContiniousTaskUsed_ = t]
        <3>1. q \in PackageStatsType
            BY <2>1 DEF PackageStatsType
        <3>2. q.totalInFrontTime_ = p.totalInFrontTime_
            BY DEF PackageStatsType
        <3> QED BY <1>1, <2>2, <2>3, <3>1, <3>2 DEF Onward
    <2>4. CASE ~(t > p.lastContiniousTaskUsed_)
        BY <1>1, <2>2, <2>4 DEF Onward
    <2> QED BY <2>3, <2>4
<1> QED BY <1>2, <1>3

\* One thing after the other.
LEMMA OnwardOn ==
    ASSUME NEW p \in PackageStatsType, NEW q, Onward(p, q), NEW r, Onward(q, r)
    PROVE  Onward(p, r)
<1>1. /\ p.totalInFrontTime_ \in Int /\ q.totalInFrontTime_ \in Int /\ r.totalInFrontTime_ \in Int
      /\ r \in PackageStatsType
    BY DEF Onward, PackageStatsType
<1> QED BY <1>1 DEF Onward

\* A new object.
LEMMA NewStats == NewPackageStats \in PackageStatsType
BY DEF NewPackageStats, PackageStatsType

\* An event adds time.
LEMMA UpdateOnward ==
    ASSUME NEW p \in PackageStatsType, NEW e, EventOK(e)
    PROVE  Onward(p, UpdateStats(p, e))
<1> DEFINE t == e.timeStamp
<1>1. t \in Int
    BY DEF EventOK
<1>2. CASE e.eventId \in AbilityEventId /\ e.ability \in Ability
    <2> DEFINE started == [p EXCEPT !.startCount_ = @ + IF StartsNow(p, e.eventId, e.ability) THEN 1 ELSE 0]
               settled == SettleAbility(started, t, e.ability)
               r == RecordAbility(settled, t, e.eventId, e.ability)
    <2>1. UpdateStats(p, e) = r
        BY <1>2 DEF UpdateStats, UpdateAbility
    <2>2. Onward(p, started)
        BY DEF PackageStatsType, Onward
    <2> HIDE DEF started, r, t
    <2>3. Onward(started, settled)
        <3>1. started \in PackageStatsType
            BY <2>2 DEF Onward
        <3>2. Onward(started, started)
            BY <3>1 DEF Onward, PackageStatsType
        <3> QED BY <1>1, <3>1, <3>2, IncrementOnward DEF SettleAbility
    <2> HIDE DEF settled
    <2>4. Onward(settled, r)
        <3>1. settled \in PackageStatsType /\ settled.totalInFrontTime_ \in Int
            BY <2>3 DEF Onward, PackageStatsType
        <3>2. e.eventId \in {FOREGROUND, BACKGROUND, STOP} /\ e.ability \in Ability
            BY <1>2 DEF AbilityEventId
        <3>3. r.totalInFrontTime_ = settled.totalInFrontTime_
            BY <3>1 DEF r, RecordAbility, PackageStatsType
        <3>4. r \in PackageStatsType
            <4> DEFINE last == IF e.eventId = FOREGROUND /\ ~HasFrontAbility(settled) THEN t
                               ELSE settled.lastTimeUsed_
                       value == IF e.eventId = STOP THEN Absent ELSE e.eventId
            <4>1. last \in Int /\ value \in {FOREGROUND, BACKGROUND, Absent}
                BY <1>1, <3>1, <3>2 DEF PackageStatsType
            <4>2. r = [settled EXCEPT !.lastTimeUsed_ = last, !.abilities_[e.ability] = value]
                BY <3>1 DEF r, RecordAbility, PackageStatsType
            <4> HIDE DEF last, value
            <4> QED BY <3>1, <3>2, <4>1, <4>2 DEF PackageStatsType
        <3> QED BY <3>1, <3>3, <3>4 DEF Onward
    <2> QED BY <2>1, <2>2, <2>3, <2>4, OnwardOn DEF Onward
<1>3. CASE e.eventId \notin AbilityEventId /\ e.eventId \in TaskEventId /\ e.task \in Task
    <2> DEFINE settled == SettleTask(p, t, e.task)
               r == RecordTask(settled, t, e.eventId, e.task)
    <2>1. UpdateStats(p, e) = r
        BY <1>3 DEF UpdateStats, UpdateLongTimeTask
    <2> HIDE DEF r, t
    <2>2. Onward(p, settled)
        <3>1. Onward(p, p)
            BY DEF Onward, PackageStatsType
        <3> QED BY <1>1, <3>1, IncrementOnward DEF SettleTask
    <2> HIDE DEF settled
    <2>3. Onward(settled, r)
        <3>1. settled \in PackageStatsType /\ settled.totalInFrontTime_ \in Int
            BY <2>2 DEF Onward, PackageStatsType
        <3>2. r.totalInFrontTime_ = settled.totalInFrontTime_ /\ r \in PackageStatsType
            BY <1>1, <1>3, <3>1 DEF r, RecordTask, PackageStatsType
        <3> QED BY <3>1, <3>2 DEF Onward
    <2> QED BY <2>1, <2>2, <2>3, OnwardOn
<1>4. TaskEventId \cap AbilityEventId = {}
    BY DEF TaskEventId, AbilityEventId, TASK_STARTED, TASK_ENDED, FOREGROUND, BACKGROUND, STOP
<1> QED BY <1>2, <1>3, <1>4 DEF EventOK

\* Settling adds time.
LEMMA SettleOnward ==
    ASSUME NEW p \in PackageStatsType, NEW t \in Int
    PROVE  Onward(p, SettleAll(p, t))
<1> DEFINE q == SettleFront(p, t)
           r == SettleTasks(q, t)
<1>1. Onward(p, q)
    <2>1. Onward(p, p)
        BY DEF Onward, PackageStatsType
    <2> QED BY <2>1, IncrementOnward DEF SettleFront
<1> HIDE DEF q
<1>2. Onward(q, r)
    <2>1. q \in PackageStatsType
        BY <1>1 DEF Onward
    <2>2. Onward(q, q)
        BY <2>1 DEF Onward, PackageStatsType
    <2> QED BY <2>1, <2>2, IncrementOnward DEF SettleTasks
<1> HIDE DEF r
<1>3. SettleAll(p, t) = r
    BY DEF SettleAll, r, q
<1> QED BY <1>1, <1>2, <1>3, OnwardOn

\* A launch is counted, the time stays.
LEMMA LaunchOnward ==
    ASSUME NEW p \in PackageStatsType PROVE Onward(p, IncrementBundleLaunchedCount(p))
BY DEF PackageStatsType, Onward, IncrementBundleLaunchedCount


\* Settling leaves the abilities where they are.
LEMMA SettleFronts ==
    ASSUME NEW p \in PackageStatsType, NEW t \in Int
    PROVE  SettleAll(p, t).abilities_ = p.abilities_
<1>1. ASSUME NEW q \in PackageStatsType
      PROVE  /\ IncrementTimeUsed(q, t).abilities_ = q.abilities_
             /\ IncrementServiceTimeUsed(q, t).abilities_ = q.abilities_
    BY DEF IncrementTimeUsed, IncrementServiceTimeUsed, PackageStatsType
<1> DEFINE q == SettleFront(p, t)
<1>2. q.abilities_ = p.abilities_
    BY <1>1 DEF SettleFront
<1>3. q \in PackageStatsType
    <2>1. IncrementTimeUsed(p, t) \in PackageStatsType
        BY IncrementOnward DEF Onward
    <2> QED BY <2>1 DEF SettleFront
<1> HIDE DEF q
<1>4. SettleTasks(q, t).abilities_ = q.abilities_
    BY <1>1, <1>3 DEF SettleTasks
<1> QED BY <1>2, <1>4 DEF SettleAll, q

\* An event of an ability moves that ability only.
LEMMA UpdateFronts ==
    ASSUME NEW p \in PackageStatsType, NEW e, EventOK(e)
    PROVE  UpdateStats(p, e).abilities_ =
             IF e.eventId \in AbilityEventId
             THEN [p.abilities_ EXCEPT ![e.ability] = IF e.eventId = STOP THEN Absent ELSE e.eventId]
             ELSE p.abilities_
<1> DEFINE t == e.timeStamp
<1>1. ASSUME NEW q \in PackageStatsType
      PROVE  /\ IncrementTimeUsed(q, t) \in PackageStatsType
             /\ IncrementTimeUsed(q, t).abilities_ = q.abilities_
             /\ IncrementServiceTimeUsed(q, t) \in PackageStatsType
             /\ IncrementServiceTimeUsed(q, t).abilities_ = q.abilities_
    <2>1. t \in Int
        BY DEF EventOK
    <2>2. /\ IncrementTimeUsed(q, t) \in PackageStatsType
          /\ IncrementServiceTimeUsed(q, t) \in PackageStatsType
        BY <2>1, IncrementOnward DEF Onward
    <2> QED BY <2>2 DEF IncrementTimeUsed, IncrementServiceTimeUsed, PackageStatsType
<1>2. CASE e.eventId \in AbilityEventId
    <2> DEFINE started == [p EXCEPT !.startCount_ = @ + IF StartsNow(p, e.eventId, e.ability) THEN 1 ELSE 0]
               settled == SettleAbility(started, t, e.ability)
               value == IF e.eventId = STOP THEN Absent ELSE e.eventId
               last == IF e.eventId = FOREGROUND /\ ~HasFrontAbility(settled) THEN t
                       ELSE settled.lastTimeUsed_
               abilities == [p.abilities_ EXCEPT ![e.ability] = value]
    <2>1. UpdateStats(p, e) = RecordAbility(settled, t, e.eventId, e.ability)
        BY <1>2 DEF UpdateStats, UpdateAbility
    <2>2. started \in PackageStatsType /\ started.abilities_ = p.abilities_
        BY DEF PackageStatsType
    <2> HIDE DEF started
    <2>3. settled \in PackageStatsType /\ settled.abilities_ = p.abilities_
        BY <1>1, <2>2 DEF SettleAbility
    <2> HIDE DEF settled
    <2>4. RecordAbility(settled, t, e.eventId, e.ability) =
            [settled EXCEPT !.lastTimeUsed_ = last, !.abilities_[e.ability] = value]
        BY DEF RecordAbility
    <2> HIDE DEF value, last
    <2>5. [settled EXCEPT !.lastTimeUsed_ = last, !.abilities_[e.ability] = value].abilities_ = abilities
        BY <2>3 DEF PackageStatsType
    <2> QED BY <1>2, <2>1, <2>4, <2>5 DEF value
<1>3. CASE e.eventId \notin AbilityEventId
    <2> DEFINE settled == SettleTask(p, t, e.task)
    <2>1. UpdateStats(p, e) = RecordTask(settled, t, e.eventId, e.task)
        BY <1>3 DEF UpdateStats, UpdateLongTimeTask
    <2>2. settled \in PackageStatsType /\ settled.abilities_ = p.abilities_
        BY <1>1 DEF SettleTask
    <2> HIDE DEF settled
    <2>3. RecordTask(settled, t, e.eventId, e.task).abilities_ = settled.abilities_
        BY <2>2 DEF RecordTask, PackageStatsType
    <2> QED BY <1>3, <2>1, <2>2, <2>3
<1> QED BY <1>2, <1>3

-----------------------------------------------------------------------------
(* Loops over sets                                                         *)

\* A set of natural numbers with a member has a least one.
LEMMA Least ==
    ASSUME NEW S, S \subseteq Nat, S # {}
    PROVE  \E n \in S : \A m \in S : n <= m
<1> DEFINE R == {p \in Nat \X Nat : p[1] < p[2]}
<1>1. IsWellFoundedOn(R, Nat)
    BY NatLessThanWellFounded DEF OpToRel
<1>2. \A m, n \in Nat : <<m, n>> \in R <=> m < n
    OBVIOUS
<1> HIDE DEF R
<1>3. PICK n \in S : \A m \in S : ~ (<<m, n>> \in R)
    BY <1>1, WFMin
<1>4. \A m \in S : n <= m
    <2> TAKE m \in S
    <2>1. ~(m < n)
        BY <1>2, <1>3
    <2> QED BY <2>1
<1> QED BY <1>4

\* FoldSet takes one chosen element after the other.
Chosen(t) == CHOOSE x \in t : TRUE

\* The chosen element is one of them.
LEMMA ChosenIn == ASSUME NEW t, t # {} PROVE Chosen(t) \in t
BY DEF Chosen

\* The value of a loop over t: F makes it from the chosen element and the value of a
\* loop over the others.
LoopStep(F, base, it, t) == IF t = {} THEN base ELSE F[<<Chosen(t), it[t \ {Chosen(t)}]>>]

LoopFits(F, base, S, R, it) ==
    it \in [SUBSET S -> R] /\ \A t \in SUBSET S : it[t] = LoopStep(F, base, it, t)

\* Parts of a finite set, without a chosen element.
LEMMA Parts ==
    ASSUME NEW S, IsFiniteSet(S)
    PROVE  /\ \A t \in SUBSET S : Cardinality(t) \in Nat /\ (Cardinality(t) = 0 <=> t = {})
           /\ \A t \in SUBSET S : t # {} => /\ Chosen(t) \in S /\ t \ {Chosen(t)} \in SUBSET S
                                            /\ Cardinality(t \ {Chosen(t)}) = Cardinality(t) - 1
<1>1. \A t \in SUBSET S : IsFiniteSet(t) /\ Cardinality(t) \in Nat
    BY FS_Subset, FS_CardinalityType
<1>2. \A t \in SUBSET S : Cardinality(t) = 0 <=> t = {}
    BY <1>1, FS_EmptySet
<1>3. ASSUME NEW t \in SUBSET S, t # {}
      PROVE  /\ Chosen(t) \in S /\ t \ {Chosen(t)} \in SUBSET S
             /\ Cardinality(t \ {Chosen(t)}) = Cardinality(t) - 1
    BY <1>1, <1>3, ChosenIn, FS_RemoveElement
<1> QED BY <1>1, <1>2, <1>3

\* A function of the parts of a finite set takes these values.
LEMMA LoopExists ==
    ASSUME NEW S, IsFiniteSet(S), NEW R, NEW base \in R, NEW F \in [S \X R -> R]
    PROVE  \E it : LoopFits(F, base, S, R, it)
<1> DEFINE Up(n) == \E it \in [SUBSET S -> R] : \A t \in SUBSET S :
                        Cardinality(t) <= n => it[t] = LoopStep(F, base, it, t)
           bad == {n \in Nat : ~Up(n)}
<1>1. /\ \A t \in SUBSET S : Cardinality(t) \in Nat /\ (Cardinality(t) = 0 <=> t = {})
      /\ \A t \in SUBSET S : t # {} => /\ Chosen(t) \in S /\ t \ {Chosen(t)} \in SUBSET S
                                       /\ Cardinality(t \ {Chosen(t)}) = Cardinality(t) - 1
    BY Parts
<1>2. ASSUME NEW it \in [SUBSET S -> R], NEW t \in SUBSET S PROVE LoopStep(F, base, it, t) \in R
    BY <1>1 DEF LoopStep
<1>3. Up(0)
    <2> DEFINE it == [t \in SUBSET S |-> base]
    <2>1. it \in [SUBSET S -> R]
        OBVIOUS
    <2>2. \A t \in SUBSET S : Cardinality(t) <= 0 => it[t] = LoopStep(F, base, it, t)
        BY <1>1 DEF LoopStep
    <2> HIDE DEF it
    <2> QED BY <2>1, <2>2
<1>4. ASSUME NEW n \in Nat, Up(n) PROVE Up(n + 1)
    <2>1. PICK it \in [SUBSET S -> R] : \A t \in SUBSET S :
                Cardinality(t) <= n => it[t] = LoopStep(F, base, it, t)
        BY <1>4
    <2> DEFINE jt == [t \in SUBSET S |-> LoopStep(F, base, it, t)]
    <2>2. jt \in [SUBSET S -> R]
        BY <1>2
    <2>3. \A t \in SUBSET S : jt[t] = LoopStep(F, base, it, t)
        OBVIOUS
    <2> HIDE DEF jt
    <2>4. ASSUME NEW t \in SUBSET S, Cardinality(t) <= n + 1
          PROVE  LoopStep(F, base, it, t) = LoopStep(F, base, jt, t)
        <3>1. CASE t = {}
            BY <3>1 DEF LoopStep
        <3>2. CASE t # {}
            <4> DEFINE u == t \ {Chosen(t)}
            <4>1. u \in SUBSET S /\ Cardinality(u) <= n
                BY <1>1, <2>4, <3>2
            <4> HIDE DEF u
            <4>2. it[u] = jt[u]
                BY <2>1, <2>3, <4>1
            <4> QED BY <3>2, <4>2 DEF LoopStep, u
        <3> QED BY <3>1, <3>2
    <2> QED BY <2>2, <2>3, <2>4
<1> HIDE DEF Up
<1>5. bad = {}
    <2> SUFFICES ASSUME bad # {} PROVE FALSE
        OBVIOUS
    <2>1. PICK n \in bad : \A m \in bad : n <= m
        BY Least
    <2>2. n # 0 /\ n - 1 \in Nat
        BY <1>3
    <2>3. Up(n - 1)
        BY <2>1, <2>2
    <2>4. Up((n - 1) + 1)
        BY <1>4, <2>2, <2>3
    <2>5. (n - 1) + 1 = n
        OBVIOUS
    <2> QED BY <2>4, <2>5
<1>6. Cardinality(S) \in Nat /\ \A t \in SUBSET S : Cardinality(t) <= Cardinality(S)
    <2>1. \A t \in SUBSET S : Cardinality(t) <= Cardinality(S)
        BY FS_Subset
    <2> QED BY <1>1, <2>1
<1> QED BY <1>5, <1>6 DEF Up, LoopFits

\* What each part keeps, the loop keeps.
LEMMA LoopKeeps ==
    ASSUME NEW S, IsFiniteSet(S), NEW R, NEW it, it[{}] \in R,
           \A t \in SUBSET S : t # {} /\ it[t \ {Chosen(t)}] \in R => it[t] \in R
    PROVE  it[S] \in R
<1> DEFINE bad == {n \in Nat : \E t \in SUBSET S : Cardinality(t) = n /\ it[t] \notin R}
<1>1. /\ \A t \in SUBSET S : Cardinality(t) \in Nat /\ (Cardinality(t) = 0 <=> t = {})
      /\ \A t \in SUBSET S : t # {} => /\ Chosen(t) \in S /\ t \ {Chosen(t)} \in SUBSET S
                                       /\ Cardinality(t \ {Chosen(t)}) = Cardinality(t) - 1
    BY Parts
<1> SUFFICES ASSUME it[S] \notin R PROVE FALSE
    OBVIOUS
<1>2. bad # {} /\ bad \subseteq Nat
    BY <1>1
<1>3. PICK n \in bad : \A m \in bad : n <= m
    BY <1>2, Least
<1>4. PICK t \in SUBSET S : Cardinality(t) = n /\ it[t] \notin R
    BY <1>3
<1> DEFINE u == t \ {Chosen(t)}
<1>5. t # {} /\ it[u] \notin R
    BY <1>4
<1>6. u \in SUBSET S /\ Cardinality(u) = n - 1 /\ Cardinality(u) \in Nat
    BY <1>1, <1>4, <1>5
<1>7. n - 1 \in bad
    BY <1>5, <1>6
<1> QED BY <1>3, <1>7


\* What the element x makes and the others keep, a loop over a set with x has made.
LEMMA LoopMakes ==
    ASSUME NEW S, IsFiniteSet(S), NEW R, NEW Q, NEW x, NEW it, it[{}] \in R,
           \A t \in SUBSET S : t # {} /\ it[t \ {Chosen(t)}] \in R =>
                /\ it[t] \in R
                /\ Chosen(t) = x \/ it[t \ {Chosen(t)}] \in Q => it[t] \in Q
    PROVE  it[S] \in R /\ (x \in S => it[S] \in Q)
<1> DEFINE good(t) == it[t] \in R /\ (x \in t => it[t] \in Q)
           jt == [t \in SUBSET S |-> good(t)]
           G == {TRUE}
<1>1. jt[{}] \in {TRUE}
    OBVIOUS
<1>2. ASSUME NEW t \in SUBSET S, t # {}, jt[t \ {Chosen(t)}] \in {TRUE}
      PROVE  jt[t] \in {TRUE}
    <2> DEFINE u == t \ {Chosen(t)}
    <2>1. u \in SUBSET S /\ good(u)
        BY <1>2
    <2>2. x \in t => Chosen(t) = x \/ x \in u
        OBVIOUS
    <2>3. good(t)
        BY <1>2, <2>1, <2>2
    <2> QED BY <2>3
<1> HIDE DEF good
<1>3. jt[S] = good(S)
    OBVIOUS
<1>4. /\ jt[{}] \in G
      /\ \A t \in SUBSET S : t # {} /\ jt[t \ {Chosen(t)}] \in G => jt[t] \in G
    BY <1>1, <1>2
<1> HIDE DEF jt, G
<1>5. jt[S] \in G
    BY <1>4, LoopKeeps
<1>6. good(S)
    BY <1>3, <1>5 DEF G
<1> QED BY <1>6 DEF good

-----------------------------------------------------------------------------
(* Periods in memory                                                       *)

\* What is kept of some of the instances.
Kept(V) == UNION {[D -> V] : D \in SUBSET Uid}

PeriodType == [beginTime_ : Int, bundleStats_ : Kept(PackageStatsType)]

\* A map of instances, member by member.
LEMMA KeptIs ==
    ASSUME NEW V, NEW b \in Kept(V)
    PROVE  DOMAIN b \subseteq Uid /\ b = [u \in DOMAIN b |-> b[u]] /\ \A u \in DOMAIN b : b[u] \in V
BY DEF Kept

\* A function of some of the instances is such a map.
LEMMA IsKept ==
    ASSUME NEW V, NEW D \in SUBSET Uid, NEW b \in [D -> V]
    PROVE  b \in Kept(V) /\ DOMAIN b = D
BY DEF Kept

\* Nothing kept.
LEMMA NoneKept == ASSUME NEW V PROVE <<>> \in Kept(V) /\ DOMAIN <<>> = {}
<1>1. <<>> \in [{} -> V] /\ DOMAIN <<>> = {}
    OBVIOUS
<1> QED BY <1>1, IsKept

\* A period in which every count goes on.
Grown(a, b) ==
    /\ b \in PeriodType /\ b.beginTime_ = a.beginTime_
    /\ \A u \in DOMAIN a.bundleStats_ :
            u \in DOMAIN b.bundleStats_ /\ Onward(a.bundleStats_[u], b.bundleStats_[u])

\* A period is the same, or one step after the other.
LEMMA GrownSelf == ASSUME NEW a \in PeriodType PROVE Grown(a, a)
<1>1. \A u \in DOMAIN a.bundleStats_ : a.bundleStats_[u] \in PackageStatsType
    BY KeptIs DEF PeriodType
<1>2. ASSUME NEW u \in DOMAIN a.bundleStats_
      PROVE  Onward(a.bundleStats_[u], a.bundleStats_[u])
    BY <1>1 DEF Onward, PackageStatsType
<1> QED BY <1>2 DEF Grown

\* Counts that go on twice have gone on.
LEMMA GrownOn ==
    ASSUME NEW a \in PeriodType, NEW b, Grown(a, b), NEW c, Grown(b, c) PROVE Grown(a, c)
<1>1. \A u \in DOMAIN a.bundleStats_ : a.bundleStats_[u] \in PackageStatsType
    BY KeptIs DEF PeriodType
<1>2. ASSUME NEW u \in DOMAIN a.bundleStats_
      PROVE  u \in DOMAIN c.bundleStats_ /\ Onward(a.bundleStats_[u], c.bundleStats_[u])
    <2>1. u \in DOMAIN b.bundleStats_ /\ Onward(a.bundleStats_[u], b.bundleStats_[u])
        BY DEF Grown
    <2>2. u \in DOMAIN c.bundleStats_ /\ Onward(b.bundleStats_[u], c.bundleStats_[u])
        BY <2>1 DEF Grown
    <2> QED BY <1>1, <2>1, <2>2, OnwardOn
<1> QED BY <1>2 DEF Grown

\* With other maps.
LEMMA GrownBy ==
    ASSUME NEW a \in PeriodType, NEW m \in Kept(PackageStatsType),
           \A u \in DOMAIN a.bundleStats_ : u \in DOMAIN m /\ Onward(a.bundleStats_[u], m[u]),
           NEW b, b = [a EXCEPT !.bundleStats_ = m]
    PROVE  Grown(a, b)
BY DEF PeriodType, Grown

\* An event, for one instance.
LEMMA UpdateGrown ==
    ASSUME NEW a \in PeriodType, NEW e, EventOK(e)
    PROVE  Grown(a, UpdatePackage(a, e)) /\ e.uid \in DOMAIN UpdatePackage(a, e).bundleStats_
<1> DEFINE old == a.bundleStats_
           got == GetOrCreateUsageStats(old, e.uid)
           m == [got EXCEPT ![e.uid] = UpdateStats(got[e.uid], e)]
           D == DOMAIN old \cup {e.uid}
<1>1. /\ DOMAIN old \subseteq Uid /\ old = [u \in DOMAIN old |-> old[u]]
      /\ \A u \in DOMAIN old : old[u] \in PackageStatsType
    BY KeptIs DEF PeriodType
<1>2. e.uid \in Uid
    BY DEF EventOK
<1> HIDE DEF old
<1>3. got \in [D -> PackageStatsType] /\ \A u \in DOMAIN old : got[u] = old[u]
    BY <1>1, NewStats DEF GetOrCreateUsageStats
<1> HIDE DEF got
<1>4. Onward(got[e.uid], UpdateStats(got[e.uid], e))
    BY <1>3, UpdateOnward
<1>5. m \in [D -> PackageStatsType]
    BY <1>3, <1>4 DEF Onward
<1>6. ASSUME NEW u \in DOMAIN old PROVE u \in DOMAIN m /\ Onward(old[u], m[u])
    <2>1. CASE u = e.uid
        BY <1>3, <1>4, <2>1
    <2>2. CASE u # e.uid
        <3>1. m[u] = old[u] /\ old[u] \in PackageStatsType /\ u \in DOMAIN m
            BY <1>1, <1>3, <2>2
        <3> QED BY <3>1 DEF Onward, PackageStatsType
    <2> QED BY <2>1, <2>2
<1>7. m \in Kept(PackageStatsType) /\ e.uid \in DOMAIN m
    <2>1. D \in SUBSET Uid /\ e.uid \in D
        BY <1>1, <1>2
    <2> HIDE DEF D, m
    <2> QED BY <1>5, <2>1, IsKept
<1>8. UpdatePackage(a, e) = [a EXCEPT !.bundleStats_ = m]
    BY DEF UpdatePackage, got, old
<1> HIDE DEF m
<1>9. Grown(a, UpdatePackage(a, e))
    BY <1>6, <1>7, <1>8, GrownBy DEF old
<1>10. UpdatePackage(a, e).bundleStats_ = m
    BY <1>8 DEF PeriodType
<1> QED BY <1>7, <1>9, <1>10

\* A report.
LEMMA ReportGrown ==
    ASSUME NEW a \in PeriodType, NEW e, EventOK(e), NEW launch \in BOOLEAN
    PROVE  Grown(a, Reported(a, e, launch))
<1> DEFINE b == UpdatePackage(a, e)
           m == [b.bundleStats_ EXCEPT ![e.uid] = IncrementBundleLaunchedCount(b.bundleStats_[e.uid])]
           c == [b EXCEPT !.bundleStats_ = m]
<1>1. Grown(a, b) /\ e.uid \in DOMAIN b.bundleStats_
    BY UpdateGrown
<1>2. CASE ~launch
    BY <1>1, <1>2 DEF Reported
<1>3. CASE launch
    <2> HIDE DEF b
    <2>1. b \in PeriodType /\ b.bundleStats_ \in Kept(PackageStatsType)
        BY <1>1 DEF Grown, PeriodType
    <2>2. /\ DOMAIN b.bundleStats_ \subseteq Uid
          /\ \A u \in DOMAIN b.bundleStats_ : b.bundleStats_[u] \in PackageStatsType
        BY <2>1, KeptIs
    <2>3. ASSUME NEW u \in DOMAIN b.bundleStats_ PROVE u \in DOMAIN m /\ Onward(b.bundleStats_[u], m[u])
        <3>1. CASE u = e.uid
            BY <2>2, <3>1, LaunchOnward
        <3>2. CASE u # e.uid
            BY <2>2, <3>2 DEF Onward, PackageStatsType
        <3> QED BY <3>1, <3>2
    <2>4. m \in [DOMAIN b.bundleStats_ -> PackageStatsType]
        BY <2>2, <2>3 DEF Onward
    <2>5. m \in Kept(PackageStatsType)
        BY <2>2, <2>4, IsKept
    <2>6. Reported(a, e, launch) = c
        BY <1>3, <2>1 DEF Reported, b, PeriodType
    <2> HIDE DEF m
    <2>7. Grown(b, c)
        BY <2>1, <2>3, <2>5, GrownBy
    <2> QED BY <1>1, <2>6, <2>7, GrownOn
<1> QED BY <1>2, <1>3

\* The end of a day, a flush or a shutdown.
LEMMA SettleGrown ==
    ASSUME NEW a \in PeriodType, NEW t \in Int
    PROVE  Grown(a, SettlePeriod(a, t))
<1> DEFINE old == a.bundleStats_
           m == [u \in DOMAIN old |-> SettleAll(old[u], t)]
<1>1. /\ DOMAIN old \subseteq Uid /\ \A u \in DOMAIN old : old[u] \in PackageStatsType
    BY KeptIs DEF PeriodType
<1> HIDE DEF old
<1>2. \A u \in DOMAIN old : Onward(old[u], m[u])
    BY <1>1, SettleOnward
<1>3. m \in [DOMAIN old -> PackageStatsType]
    BY <1>2 DEF Onward
<1>4. m \in Kept(PackageStatsType) /\ DOMAIN m = DOMAIN old
    BY <1>1, <1>3, IsKept
<1>5. SettlePeriod(a, t) = [a EXCEPT !.bundleStats_ = m]
    BY DEF SettlePeriod, old
<1> HIDE DEF m
<1> QED BY <1>2, <1>4, <1>5, GrownBy DEF old


\* An ability that a period has in front.
InFront(st, u, a) ==
    u \in DOMAIN st.bundleStats_ /\ st.bundleStats_[u].abilities_[a] = FOREGROUND

\* What an event says of an ability, and what it says nothing of.
Tells(e, u, a) == e.eventId \in AbilityEventId /\ e.uid = u /\ e.ability = a

\* An event brings its ability to front or away from it; the others stay.
LEMMA UpdateInFront ==
    ASSUME NEW a \in PeriodType, NEW e, EventOK(e), NEW u \in Uid, NEW x \in Ability,
           IF Tells(e, u, x) THEN e.eventId = FOREGROUND ELSE InFront(a, u, x)
    PROVE  InFront(UpdatePackage(a, e), u, x)
<1> DEFINE old == a.bundleStats_
           got == GetOrCreateUsageStats(old, e.uid)
           m == [got EXCEPT ![e.uid] = UpdateStats(got[e.uid], e)]
           D == DOMAIN old \cup {e.uid}
<1>1. /\ DOMAIN old \subseteq Uid /\ old = [v \in DOMAIN old |-> old[v]]
      /\ \A v \in DOMAIN old : old[v] \in PackageStatsType
    BY KeptIs DEF PeriodType
<1> HIDE DEF old
<1>2. got \in [D -> PackageStatsType] /\ \A v \in DOMAIN old : got[v] = old[v]
    BY <1>1, NewStats DEF GetOrCreateUsageStats
<1> HIDE DEF got
<1>3. UpdatePackage(a, e) = [a EXCEPT !.bundleStats_ = m]
    BY DEF UpdatePackage, got, old
<1>4. DOMAIN m = D /\ m[e.uid] = UpdateStats(got[e.uid], e) /\ \A v \in D : v # e.uid => m[v] = got[v]
    BY <1>2
<1> HIDE DEF m
<1>5. UpdatePackage(a, e).bundleStats_ = m
    BY <1>3 DEF PeriodType
<1>6. CASE Tells(e, u, x)
    <2>1. e.eventId = FOREGROUND /\ e.uid = u /\ e.ability = x /\ e.eventId \in AbilityEventId
        BY <1>6 DEF Tells
    <2>2. got[u] \in PackageStatsType
        BY <1>2, <2>1
    <2>3. m[u].abilities_ = [got[u].abilities_ EXCEPT ![x] = FOREGROUND]
        BY <1>4, <2>1, <2>2, UpdateFronts DEF FOREGROUND, STOP
    <2>4. m[u].abilities_[x] = FOREGROUND
        BY <2>2, <2>3 DEF PackageStatsType
    <2> QED BY <1>4, <1>5, <2>1, <2>4 DEF InFront
<1>7. CASE ~Tells(e, u, x)
    <2>1. u \in DOMAIN old /\ old[u].abilities_[x] = FOREGROUND
        BY <1>7 DEF InFront, old
    <2>2. u \in D /\ got[u] \in PackageStatsType /\ got[u].abilities_[x] = FOREGROUND
        BY <1>2, <2>1
    <2>3. CASE u # e.uid
        BY <1>4, <1>5, <2>2, <2>3 DEF InFront
    <2>4. CASE u = e.uid
        <3>1. UpdateStats(got[u], e).abilities_[x] = FOREGROUND
            <4>1. CASE e.eventId \in AbilityEventId
                <5>1. e.ability # x
                    BY <1>7, <2>4, <4>1 DEF Tells
                <5>2. UpdateStats(got[u], e).abilities_ =
                        [got[u].abilities_ EXCEPT ![e.ability] = IF e.eventId = STOP THEN Absent ELSE e.eventId]
                    BY <2>2, <4>1, UpdateFronts
                <5> QED BY <2>2, <5>1, <5>2 DEF PackageStatsType
            <4>2. CASE e.eventId \notin AbilityEventId
                BY <2>2, <4>2, UpdateFronts
            <4> QED BY <4>1, <4>2
        <3> QED BY <1>4, <1>5, <2>2, <2>4, <3>1 DEF InFront
    <2> QED BY <2>3, <2>4
<1> QED BY <1>6, <1>7

\* A launch that is counted changes nothing about it.
LEMMA ReportInFront ==
    ASSUME NEW a \in PeriodType, NEW e, EventOK(e), NEW launch \in BOOLEAN,
           NEW u \in Uid, NEW x \in Ability,
           IF Tells(e, u, x) THEN e.eventId = FOREGROUND ELSE InFront(a, u, x)
    PROVE  InFront(Reported(a, e, launch), u, x)
<1> DEFINE b == UpdatePackage(a, e)
           m == [b.bundleStats_ EXCEPT ![e.uid] = IncrementBundleLaunchedCount(b.bundleStats_[e.uid])]
<1>1. Grown(a, b) /\ InFront(b, u, x)
    BY UpdateGrown, UpdateInFront
<1>2. CASE ~launch
    BY <1>1, <1>2 DEF Reported
<1>3. CASE launch
    <2> HIDE DEF b
    <2>1. b \in PeriodType /\ b.bundleStats_ \in Kept(PackageStatsType)
        BY <1>1 DEF Grown, PeriodType
    <2>2. \A v \in DOMAIN b.bundleStats_ : b.bundleStats_[v] \in PackageStatsType
        BY <2>1, KeptIs
    <2>3. Reported(a, e, launch).bundleStats_ = m
        BY <1>3, <2>1 DEF Reported, b, PeriodType
    <2>4. \A p \in PackageStatsType : IncrementBundleLaunchedCount(p).abilities_ = p.abilities_
        BY DEF IncrementBundleLaunchedCount, PackageStatsType
    <2>5. /\ DOMAIN m = DOMAIN b.bundleStats_
          /\ \A v \in DOMAIN m : m[v].abilities_ = b.bundleStats_[v].abilities_
        BY <2>2, <2>4
    <2> HIDE DEF m
    <2> QED BY <1>1, <2>3, <2>5 DEF InFront
<1> QED BY <1>2, <1>3

\* Nor does the end of a day, a flush or a shutdown.
LEMMA SettleInFront ==
    ASSUME NEW a \in PeriodType, NEW t \in Int, NEW u, NEW x, InFront(a, u, x)
    PROVE  InFront(SettlePeriod(a, t), u, x)
<1> DEFINE old == a.bundleStats_
           m == [v \in DOMAIN old |-> SettleAll(old[v], t)]
<1>1. u \in DOMAIN old /\ old[u] \in PackageStatsType /\ old[u].abilities_[x] = FOREGROUND
    BY KeptIs DEF PeriodType, InFront
<1>2. SettlePeriod(a, t).bundleStats_ = m
    BY DEF SettlePeriod, PeriodType
<1> HIDE DEF old
<1>3. u \in DOMAIN m /\ m[u].abilities_ = old[u].abilities_
    BY <1>1, SettleFronts
<1> QED BY <1>1, <1>2, <1>3 DEF InFront

\* An object of a period that began at begin, now: its time of last use is in the period
\* while something runs, and it has counted something only after the period has begun.
FreshStats(p, begin, now) ==
    /\ HasFrontAbility(p) => begin <= p.lastTimeUsed_
    /\ AnyLongTimeTaskStarted(p) => begin <= p.lastContiniousTaskUsed_
    /\ WorthSaving(p) => begin < now

\* So for every object of a period that has begun.
Fresh(st, now) ==
    /\ st.beginTime_ <= now
    /\ \A u \in DOMAIN st.bundleStats_ : FreshStats(st.bundleStats_[u], st.beginTime_, now)

\* An object with the same abilities and tasks.
SameRuns(p, q) ==
    q \in PackageStatsType /\ q.abilities_ = p.abilities_ /\ q.longTimeTasks_ = p.longTimeTasks_

\* Time is added from a time of last use in the period to one that is not of the future.
LEMMA IncrementFresh ==
    ASSUME NEW p \in PackageStatsType, NEW begin \in Int, NEW now \in Int, FreshStats(p, begin, now),
           NEW t \in Int, t <= now, begin <= p.lastTimeUsed_, NEW r, r = IncrementTimeUsed(p, t)
    PROVE  SameRuns(p, r) /\ FreshStats(r, begin, now)
<1> DEFINE n == p.totalInFrontTime_ + t - p.lastTimeUsed_
<1>1. p.totalInFrontTime_ \in Int /\ p.lastTimeUsed_ \in Int
    BY DEF PackageStatsType
<1>2. CASE t > p.lastTimeUsed_
    <2>1. n \in Int
        BY <1>1
    <2>2. r = [p EXCEPT !.totalInFrontTime_ = n, !.lastTimeUsed_ = t]
        BY <1>2 DEF IncrementTimeUsed
    <2> HIDE DEF n
    <2>3. /\ r \in PackageStatsType /\ r.abilities_ = p.abilities_ /\ r.longTimeTasks_ = p.longTimeTasks_
          /\ r.lastTimeUsed_ = t /\ r.lastContiniousTaskUsed_ = p.lastContiniousTaskUsed_
        BY <2>1, <2>2 DEF PackageStatsType
    <2>4. begin <= t /\ begin < now
        BY <1>1, <1>2
    <2> QED BY <2>3, <2>4 DEF SameRuns, FreshStats, AnyLongTimeTaskStarted
<1>3. CASE ~(t > p.lastTimeUsed_)
    <2>1. r = p
        BY <1>3 DEF IncrementTimeUsed
    <2> QED BY <2>1 DEF SameRuns
<1> QED BY <1>2, <1>3

\* So for tasks.
LEMMA IncrementServiceFresh ==
    ASSUME NEW p \in PackageStatsType, NEW begin \in Int, NEW now \in Int, FreshStats(p, begin, now),
           NEW t \in Int, t <= now, begin <= p.lastContiniousTaskUsed_,
           NEW r, r = IncrementServiceTimeUsed(p, t)
    PROVE  SameRuns(p, r) /\ FreshStats(r, begin, now)
<1> DEFINE n == p.totalContiniousTaskUsedTime_ + t - p.lastContiniousTaskUsed_
<1>1. p.totalContiniousTaskUsedTime_ \in Int /\ p.lastContiniousTaskUsed_ \in Int
    BY DEF PackageStatsType
<1>2. CASE t > p.lastContiniousTaskUsed_
    <2>1. n \in Int
        BY <1>1
    <2>2. r = [p EXCEPT !.totalContiniousTaskUsedTime_ = n, !.lastContiniousTaskUsed_ = t]
        BY <1>2 DEF IncrementServiceTimeUsed
    <2> HIDE DEF n
    <2>3. /\ r \in PackageStatsType /\ r.abilities_ = p.abilities_ /\ r.longTimeTasks_ = p.longTimeTasks_
          /\ r.lastContiniousTaskUsed_ = t /\ r.lastTimeUsed_ = p.lastTimeUsed_
        BY <2>1, <2>2 DEF PackageStatsType
    <2>4. begin <= t /\ begin < now
        BY <1>1, <1>2
    <2> QED BY <2>3, <2>4 DEF SameRuns, FreshStats, HasFrontAbility
<1>3. CASE ~(t > p.lastContiniousTaskUsed_)
    <2>1. r = p
        BY <1>3 DEF IncrementServiceTimeUsed
    <2> QED BY <2>1 DEF SameRuns
<1> QED BY <1>2, <1>3

\* Settling at a time that is not of the future ...
LEMMA SettleFreshStats ==
    ASSUME NEW p \in PackageStatsType, NEW begin \in Int, NEW now \in Int, FreshStats(p, begin, now),
           NEW t \in Int, t <= now
    PROVE  FreshStats(SettleAll(p, t), begin, now)
<1> DEFINE q == SettleFront(p, t)
           r == SettleTasks(q, t)
<1>1. SameRuns(p, q) /\ FreshStats(q, begin, now)
    <2>1. CASE HasFrontAbility(p)
        BY <2>1, IncrementFresh DEF SettleFront, FreshStats
    <2>2. CASE ~HasFrontAbility(p)
        BY <2>2 DEF SettleFront, SameRuns
    <2> QED BY <2>1, <2>2
<1>2. q \in PackageStatsType
    BY <1>1 DEF SameRuns
<1> HIDE DEF q
<1>3. FreshStats(r, begin, now)
    <2>1. CASE AnyLongTimeTaskStarted(q)
        BY <1>1, <1>2, <2>1, IncrementServiceFresh DEF SettleTasks, FreshStats
    <2>2. CASE ~AnyLongTimeTaskStarted(q)
        BY <1>1, <2>2 DEF SettleTasks
    <2> QED BY <2>1, <2>2
<1> QED BY <1>3 DEF SettleAll, q

\* ... and an event in the period leave the object so.
LEMMA UpdateFreshStats ==
    ASSUME NEW p \in PackageStatsType, NEW begin \in Int, NEW now \in Int, FreshStats(p, begin, now),
           NEW e, EventOK(e), begin <= e.timeStamp, e.timeStamp <= now
    PROVE  FreshStats(UpdateStats(p, e), begin, now)
<1> DEFINE t == e.timeStamp
           r == UpdateStats(p, e)
<1>1. t \in Int /\ begin <= t /\ t <= now
    BY DEF EventOK
<1>2. CASE e.eventId \in AbilityEventId
    <2> DEFINE a == e.ability
               d == [p EXCEPT !.startCount_ = @ + IF StartsNow(p, e.eventId, a) THEN 1 ELSE 0]
               q == SettleAbility(d, t, a)
    <2>1. r = RecordAbility(q, t, e.eventId, a)
        BY <1>2 DEF UpdateStats, UpdateAbility
    <2>2. /\ d \in PackageStatsType /\ d.abilities_ = p.abilities_ /\ d.longTimeTasks_ = p.longTimeTasks_
          /\ d.lastTimeUsed_ = p.lastTimeUsed_ /\ d.lastContiniousTaskUsed_ = p.lastContiniousTaskUsed_
          /\ d.totalInFrontTime_ = p.totalInFrontTime_
          /\ d.totalContiniousTaskUsedTime_ = p.totalContiniousTaskUsedTime_
        BY DEF PackageStatsType
    <2>3. a \in Ability
        BY <1>2 DEF EventOK, AbilityEventId, TaskEventId, FOREGROUND, BACKGROUND, STOP,
                    TASK_STARTED, TASK_ENDED
    <2> HIDE DEF d, t
    <2>4. FreshStats(d, begin, now)
        BY <2>2 DEF FreshStats, HasFrontAbility, AnyLongTimeTaskStarted, WorthSaving
    <2>5. SameRuns(d, q) /\ FreshStats(q, begin, now)
        <3>1. CASE d.abilities_[a] = FOREGROUND
            <4>1. begin <= d.lastTimeUsed_
                BY <2>3, <2>4, <3>1 DEF FreshStats, HasFrontAbility
            <4> QED BY <1>1, <2>2, <2>4, <3>1, <4>1, IncrementFresh DEF SettleAbility
        <3>2. CASE d.abilities_[a] # FOREGROUND
            BY <2>2, <2>4, <3>2 DEF SettleAbility, SameRuns
        <3> QED BY <3>1, <3>2
    <2> HIDE DEF q
    <2>6. /\ r.lastTimeUsed_ = IF e.eventId = FOREGROUND /\ ~HasFrontAbility(q) THEN t ELSE q.lastTimeUsed_
          /\ r.abilities_ = [q.abilities_ EXCEPT ![a] = IF e.eventId = STOP THEN Absent ELSE e.eventId]
          /\ r.longTimeTasks_ = q.longTimeTasks_ /\ r.lastContiniousTaskUsed_ = q.lastContiniousTaskUsed_
          /\ r.totalInFrontTime_ = q.totalInFrontTime_
          /\ r.totalContiniousTaskUsedTime_ = q.totalContiniousTaskUsedTime_
        BY <2>1, <2>5 DEF RecordAbility, PackageStatsType, SameRuns
    <2> HIDE DEF r
    <2>7. HasFrontAbility(r) => HasFrontAbility(q) \/ e.eventId = FOREGROUND
        <3> SUFFICES ASSUME NEW b \in Ability, r.abilities_[b] = FOREGROUND, e.eventId # FOREGROUND
                     PROVE  q.abilities_[b] = FOREGROUND
            BY DEF HasFrontAbility
        <3>1. FOREGROUND # Absent
            BY DEF FOREGROUND, Absent
        <3> QED BY <2>5, <2>6, <3>1 DEF PackageStatsType, SameRuns
    <2>8. HasFrontAbility(r) => begin <= r.lastTimeUsed_
        BY <1>1, <2>5, <2>6, <2>7 DEF FreshStats
    <2>9. FreshStats(r, begin, now)
        BY <2>5, <2>6, <2>8 DEF FreshStats, AnyLongTimeTaskStarted, WorthSaving
    <2> QED BY <2>9 DEF r
<1>3. CASE e.eventId \notin AbilityEventId
    <2> DEFINE q == SettleTask(p, t, e.task)
    <2>1. r = RecordTask(q, t, e.eventId, e.task)
        BY <1>3 DEF UpdateStats, UpdateLongTimeTask
    <2> HIDE DEF t
    <2>2. SameRuns(p, q) /\ FreshStats(q, begin, now)
        <3>1. CASE e.task \in p.longTimeTasks_
            <4>1. begin <= p.lastContiniousTaskUsed_
                BY <3>1 DEF FreshStats, AnyLongTimeTaskStarted
            <4> QED BY <1>1, <3>1, <4>1, IncrementServiceFresh DEF SettleTask
        <3>2. CASE e.task \notin p.longTimeTasks_
            BY <3>2 DEF SettleTask, SameRuns
        <3> QED BY <3>1, <3>2
    <2> HIDE DEF q
    <2>3. /\ r.lastContiniousTaskUsed_ = IF e.eventId = TASK_STARTED /\ ~AnyLongTimeTaskStarted(q)
                                         THEN t ELSE q.lastContiniousTaskUsed_
          /\ r.longTimeTasks_ = IF e.eventId = TASK_STARTED THEN q.longTimeTasks_ \cup {e.task}
                                ELSE q.longTimeTasks_ \ {e.task}
          /\ r.abilities_ = q.abilities_ /\ r.lastTimeUsed_ = q.lastTimeUsed_
          /\ r.totalInFrontTime_ = q.totalInFrontTime_
          /\ r.totalContiniousTaskUsedTime_ = q.totalContiniousTaskUsedTime_
        BY <2>1, <2>2 DEF RecordTask, PackageStatsType, SameRuns
    <2> HIDE DEF r
    <2>4. AnyLongTimeTaskStarted(r) => AnyLongTimeTaskStarted(q) \/ e.eventId = TASK_STARTED
        BY <2>3 DEF AnyLongTimeTaskStarted
    <2>5. AnyLongTimeTaskStarted(r) => begin <= r.lastContiniousTaskUsed_
        BY <1>1, <2>2, <2>3, <2>4 DEF FreshStats
    <2>6. FreshStats(r, begin, now)
        BY <2>2, <2>3, <2>5 DEF FreshStats, HasFrontAbility, WorthSaving
    <2> QED BY <2>6 DEF r
<1> QED BY <1>2, <1>3

\* A period that is settled ...
LEMMA SettleFresh ==
    ASSUME NEW a \in PeriodType, NEW now \in Int, Fresh(a, now), NEW t \in Int, t <= now
    PROVE  Fresh(SettlePeriod(a, t), now)
<1> DEFINE old == a.bundleStats_
           m == [u \in DOMAIN old |-> SettleAll(old[u], t)]
           begin == a.beginTime_
<1>1. SettlePeriod(a, t).bundleStats_ = m /\ SettlePeriod(a, t).beginTime_ = begin
    BY DEF SettlePeriod, PeriodType
<1>2. \A u \in DOMAIN old : old[u] \in PackageStatsType /\ FreshStats(old[u], begin, now)
    BY KeptIs DEF PeriodType, Fresh
<1>3. begin \in Int /\ begin <= now
    BY DEF PeriodType, Fresh
<1> HIDE DEF old, begin
<1>4. \A u \in DOMAIN m : FreshStats(m[u], begin, now)
    BY <1>2, <1>3, SettleFreshStats
<1> HIDE DEF m
<1> QED BY <1>1, <1>3, <1>4 DEF Fresh

\* ... or takes an event remains so.
LEMMA UpdateFresh ==
    ASSUME NEW a \in PeriodType, NEW now \in Int, Fresh(a, now), NEW e, EventOK(e),
           a.beginTime_ <= e.timeStamp, e.timeStamp <= now
    PROVE  Fresh(UpdatePackage(a, e), now)
<1> DEFINE old == a.bundleStats_
           got == GetOrCreateUsageStats(old, e.uid)
           m == [got EXCEPT ![e.uid] = UpdateStats(got[e.uid], e)]
           D == DOMAIN old \cup {e.uid}
           begin == a.beginTime_
<1>1. /\ old = [v \in DOMAIN old |-> old[v]] /\ begin \in Int /\ begin <= now
      /\ \A v \in DOMAIN old : old[v] \in PackageStatsType /\ FreshStats(old[v], begin, now)
    BY KeptIs DEF PeriodType, Fresh
<1>2. UpdatePackage(a, e) = [a EXCEPT !.bundleStats_ = m]
    BY DEF UpdatePackage
<1>3. UpdatePackage(a, e).bundleStats_ = m /\ UpdatePackage(a, e).beginTime_ = begin
    BY <1>2 DEF PeriodType
<1>4. begin <= e.timeStamp
    OBVIOUS
<1> HIDE DEF old, begin
<1>5. FreshStats(NewPackageStats, begin, now)
    BY DEF FreshStats, NewPackageStats, HasFrontAbility, AnyLongTimeTaskStarted, WorthSaving,
           FOREGROUND, Absent
<1>6. got \in [D -> PackageStatsType] /\ \A v \in D : FreshStats(got[v], begin, now)
    BY <1>1, <1>5, NewStats DEF GetOrCreateUsageStats
<1> HIDE DEF got
<1>7. FreshStats(UpdateStats(got[e.uid], e), begin, now)
    BY <1>1, <1>4, <1>6, UpdateFreshStats
<1>8. \A v \in DOMAIN m : FreshStats(m[v], begin, now)
    BY <1>6, <1>7
<1> HIDE DEF m
<1> QED BY <1>1, <1>3, <1>8 DEF Fresh

\* A launch that is counted changes nothing about it.
LEMMA ReportFresh ==
    ASSUME NEW a \in PeriodType, NEW now \in Int, Fresh(a, now), NEW e, EventOK(e),
           a.beginTime_ <= e.timeStamp, e.timeStamp <= now, NEW launch \in BOOLEAN
    PROVE  Fresh(Reported(a, e, launch), now)
<1> DEFINE b == UpdatePackage(a, e)
           m == [b.bundleStats_ EXCEPT ![e.uid] = IncrementBundleLaunchedCount(b.bundleStats_[e.uid])]
<1>1. Grown(a, b) /\ Fresh(b, now)
    BY UpdateGrown, UpdateFresh
<1>2. CASE ~launch
    BY <1>1, <1>2 DEF Reported
<1>3. CASE launch
    <2> HIDE DEF b
    <2>1. b \in PeriodType /\ b.bundleStats_ \in Kept(PackageStatsType)
        BY <1>1 DEF Grown, PeriodType
    <2>2. \A v \in DOMAIN b.bundleStats_ : b.bundleStats_[v] \in PackageStatsType
        BY <2>1, KeptIs
    <2>3. Reported(a, e, launch).bundleStats_ = m /\ Reported(a, e, launch).beginTime_ = b.beginTime_
        BY <1>3, <2>1 DEF Reported, b, PeriodType
    <2>4. ASSUME NEW p \in PackageStatsType, NEW begin, FreshStats(p, begin, now)
          PROVE  FreshStats(IncrementBundleLaunchedCount(p), begin, now)
        <3> DEFINE q == IncrementBundleLaunchedCount(p)
        <3>1. /\ q.abilities_ = p.abilities_ /\ q.longTimeTasks_ = p.longTimeTasks_
              /\ q.lastTimeUsed_ = p.lastTimeUsed_ /\ q.lastContiniousTaskUsed_ = p.lastContiniousTaskUsed_
              /\ q.totalInFrontTime_ = p.totalInFrontTime_
              /\ q.totalContiniousTaskUsedTime_ = p.totalContiniousTaskUsedTime_
            BY DEF IncrementBundleLaunchedCount, PackageStatsType
        <3> HIDE DEF q
        <3>2. FreshStats(q, begin, now)
            BY <2>4, <3>1 DEF FreshStats, HasFrontAbility, AnyLongTimeTaskStarted, WorthSaving
        <3> QED BY <3>2 DEF q
    <2>5. \A v \in DOMAIN m : FreshStats(m[v], b.beginTime_, now)
        BY <1>1, <2>2, <2>4 DEF Fresh
    <2> HIDE DEF m
    <2> QED BY <1>1, <2>3, <2>5 DEF Fresh
<1> QED BY <1>2, <1>3

\* A period in which, besides, what was in front stays there, and which remains fresh
\* when the events of that time are in it.
Carried(a, b, time) ==
    /\ Grown(a, b)
    /\ \A u \in Uid, x \in Ability : InFront(a, u, x) => InFront(b, u, x)
    /\ \A now \in Int : Fresh(a, now) /\ a.beginTime_ <= time /\ time <= now => Fresh(b, now)

\* A period carries on itself, ...
LEMMA CarriedSelf == ASSUME NEW a \in PeriodType, NEW time PROVE Carried(a, a, time)
BY GrownSelf DEF Carried

\* ... and twice is once.
LEMMA CarriedOn ==
    ASSUME NEW time, NEW a \in PeriodType, NEW b, Carried(a, b, time), NEW c, Carried(b, c, time)
    PROVE  Carried(a, c, time)
<1>1. Grown(a, c)
    BY GrownOn DEF Carried
<1>2. a.beginTime_ = b.beginTime_
    BY DEF Carried, Grown
<1> QED BY <1>1, <1>2 DEF Carried

\* An event that takes nothing away from the front.
LEMMA UpdateCarried ==
    ASSUME NEW a \in PeriodType, NEW e, EventOK(e), e.eventId \in {FOREGROUND, TASK_STARTED}
    PROVE  Carried(a, UpdatePackage(a, e), e.timeStamp)
<1>1. Grown(a, UpdatePackage(a, e))
    BY UpdateGrown
<1>2. e.eventId \in AbilityEventId => e.eventId = FOREGROUND
    BY DEF AbilityEventId, FOREGROUND, BACKGROUND, STOP, TASK_STARTED
<1>3. ASSUME NEW u \in Uid, NEW x \in Ability, InFront(a, u, x)
      PROVE  InFront(UpdatePackage(a, e), u, x)
    <2>1. IF Tells(e, u, x) THEN e.eventId = FOREGROUND ELSE InFront(a, u, x)
        BY <1>2, <1>3 DEF Tells
    <2> QED BY <2>1, UpdateInFront
<1>4. ASSUME NEW now \in Int, Fresh(a, now), a.beginTime_ <= e.timeStamp, e.timeStamp <= now
      PROVE  Fresh(UpdatePackage(a, e), now)
    BY <1>4, UpdateFresh
<1> QED BY <1>1, <1>3, <1>4 DEF Carried

-----------------------------------------------------------------------------
(* What is open at the end of a day is opened again                        *)

\* Abilities in front come to front again, one after the other.
AbilityAgain(st, u, a, begin) ==
    UpdatePackage(st, [eventId |-> FOREGROUND, uid |-> u, ability |-> a, timeStamp |-> begin])
AbilityLoop(it, stats, u, S, begin) ==
    it = [t \in SUBSET S |-> IF t = {} THEN stats
                             ELSE AbilityAgain(it[t \ {Chosen(t)}], u, Chosen(t), begin)]

\* Bringing abilities to front again takes no count away.
LEMMA AbilitiesCarried ==
    ASSUME NEW stats \in PeriodType, NEW u \in Uid, NEW abilities, NEW begin \in Int
    PROVE  LET r == ContinueAbilities(stats, u, abilities, begin)
           IN  Carried(stats, r, begin) /\ \A x \in Ability : abilities[x] = FOREGROUND => InFront(r, u, x)
<1> DEFINE S == {a \in Ability : abilities[a] = FOREGROUND}
           R == {st \in PeriodType : Carried(stats, st, begin)}
           F == [x \in S \X R |-> AbilityAgain(x[2], u, x[1], begin)]
           it == CHOOSE f : AbilityLoop(f, stats, u, S, begin)
<1>1. IsFiniteSet(S) /\ S \subseteq Ability
    BY FiniteAssumption, FS_Subset
<1>2. ContinueAbilities(stats, u, abilities, begin) = it[S]
    BY Zenon DEF ContinueAbilities, FoldSet, MapThenFoldSet, AbilityLoop, AbilityAgain, Chosen
<1> HIDE DEF it, S
<1>3. stats \in R
    BY CarriedSelf
<1>4. ASSUME NEW a \in S, NEW st \in R
      PROVE  /\ AbilityAgain(st, u, a, begin) \in R
             /\ Carried(st, AbilityAgain(st, u, a, begin), begin)
             /\ InFront(AbilityAgain(st, u, a, begin), u, a)
    <2> DEFINE e == [eventId |-> FOREGROUND, uid |-> u, ability |-> a, timeStamp |-> begin]
    <2>1. EventOK(e) /\ e.eventId = FOREGROUND /\ e.timeStamp = begin /\ Tells(e, u, a) /\ a \in Ability
        BY <1>1 DEF EventOK, AbilityEventId, Tells
    <2>2. AbilityAgain(st, u, a, begin) = UpdatePackage(st, e)
        BY DEF AbilityAgain
    <2> HIDE DEF e
    <2>3. Carried(st, UpdatePackage(st, e), begin)
        BY <2>1, UpdateCarried
    <2>4. Carried(stats, UpdatePackage(st, e), begin) /\ UpdatePackage(st, e) \in PeriodType
        BY <2>3, CarriedOn DEF Carried, Grown
    <2>5. InFront(UpdatePackage(st, e), u, a)
        BY <2>1, UpdateInFront
    <2> QED BY <2>2, <2>3, <2>4, <2>5
<1>5. F \in [S \X R -> R] /\ \A a \in S, st \in R : F[<<a, st>>] = AbilityAgain(st, u, a, begin)
    BY <1>4
<1> HIDE DEF F, R
<1>6. \A t \in SUBSET S : t # {} => Chosen(t) \in S /\ t \ {Chosen(t)} \in SUBSET S
    BY <1>1, Parts
<1>7. AbilityLoop(it, stats, u, S, begin)
    <2>1. PICK f : LoopFits(F, stats, S, R, f)
        <3>1. F \in [S \X R -> R] /\ IsFiniteSet(S) /\ stats \in R
            BY <1>1, <1>3, <1>5
        <3> QED BY <3>1, LoopExists, Zenon
    <2>2. ASSUME NEW t \in SUBSET S
          PROVE  f[t] = IF t = {} THEN stats
                        ELSE AbilityAgain(f[t \ {Chosen(t)}], u, Chosen(t), begin)
        BY <1>5, <1>6, <2>1 DEF LoopStep, LoopFits
    <2>3. AbilityLoop(f, stats, u, S, begin)
        BY <2>1, <2>2 DEF AbilityLoop, LoopFits
    <2> QED BY <2>3, Zenon DEF it
<1>8. it[{}] = stats
      /\ \A t \in SUBSET S : t # {} => it[t] = AbilityAgain(it[t \ {Chosen(t)}], u, Chosen(t), begin)
    BY <1>7 DEF AbilityLoop
<1>9. \A t \in SUBSET S : t # {} /\ it[t \ {Chosen(t)}] \in R => it[t] \in R
    BY <1>4, <1>6, <1>8
<1>10. it[S] \in R
    BY <1>1, <1>3, <1>8, <1>9, LoopKeeps
<1>11. ASSUME NEW x \in Ability, abilities[x] = FOREGROUND PROVE InFront(it[S], u, x)
    <2> DEFINE Q == {st \in R : InFront(st, u, x)}
    <2>1. x \in S
        BY <1>11 DEF S
    <2>2. \A t \in SUBSET S : t # {} /\ it[t \ {Chosen(t)}] \in R =>
                /\ it[t] \in R
                /\ Chosen(t) = x \/ it[t \ {Chosen(t)}] \in Q => it[t] \in Q
        <3> SUFFICES ASSUME NEW t \in SUBSET S, t # {}, it[t \ {Chosen(t)}] \in R
                     PROVE  /\ it[t] \in R
                            /\ Chosen(t) = x \/ it[t \ {Chosen(t)}] \in Q => it[t] \in Q
            OBVIOUS
        <3> DEFINE st == it[t \ {Chosen(t)}]
                   a == Chosen(t)
        <3>1. a \in S /\ st \in R /\ it[t] = AbilityAgain(st, u, a, begin)
            BY <1>6, <1>8
        <3> HIDE DEF st, a
        <3>2. it[t] \in R /\ Carried(st, it[t], begin) /\ InFront(it[t], u, a)
            BY <1>4, <3>1
        <3>3. InFront(st, u, x) => InFront(it[t], u, x)
            BY <3>2 DEF Carried
        <3> QED BY <3>2, <3>3 DEF st, a
    <2> HIDE DEF Q
    <2>3. it[{}] \in R
        BY <1>3, <1>8
    <2>4. it[S] \in R /\ (x \in S => it[S] \in Q)
        BY <1>1, <2>2, <2>3, LoopMakes
    <2> QED BY <2>1, <2>4 DEF Q
<1> QED BY <1>2, <1>10, <1>11 DEF R

\* So do the long time tasks.
TaskAgain(st, u, a, begin) ==
    UpdatePackage(st, [eventId |-> TASK_STARTED, uid |-> u, task |-> a, timeStamp |-> begin])
TaskLoop(it, stats, u, S, begin) ==
    it = [t \in SUBSET S |-> IF t = {} THEN stats
                             ELSE TaskAgain(it[t \ {Chosen(t)}], u, Chosen(t), begin)]

\* Starting tasks again takes no count away.
LEMMA TasksCarried ==
    ASSUME NEW stats \in PeriodType, NEW u \in Uid, NEW S \in SUBSET Task, NEW begin \in Int
    PROVE  Carried(stats, ContinueServices(stats, u, S, begin), begin)
<1> DEFINE R == {st \in PeriodType : Carried(stats, st, begin)}
           F == [x \in S \X R |-> TaskAgain(x[2], u, x[1], begin)]
           it == CHOOSE f : TaskLoop(f, stats, u, S, begin)
<1>1. IsFiniteSet(S)
    BY FiniteAssumption, FS_Subset
<1>2. ContinueServices(stats, u, S, begin) = it[S]
    BY Zenon DEF ContinueServices, FoldSet, MapThenFoldSet, TaskLoop, TaskAgain, Chosen
<1> HIDE DEF it
<1>3. stats \in R
    BY CarriedSelf
<1>4. ASSUME NEW a \in S, NEW st \in R PROVE TaskAgain(st, u, a, begin) \in R
    <2> DEFINE e == [eventId |-> TASK_STARTED, uid |-> u, task |-> a, timeStamp |-> begin]
    <2>1. EventOK(e) /\ e.eventId = TASK_STARTED /\ e.timeStamp = begin
        BY <1>1 DEF EventOK, TaskEventId
    <2> HIDE DEF e
    <2>2. Carried(st, UpdatePackage(st, e), begin)
        BY <2>1, UpdateCarried
    <2>3. Carried(stats, UpdatePackage(st, e), begin) /\ UpdatePackage(st, e) \in PeriodType
        BY <2>2, CarriedOn DEF Carried, Grown
    <2> QED BY <2>3 DEF TaskAgain, e
<1>5. F \in [S \X R -> R] /\ \A a \in S, st \in R : F[<<a, st>>] = TaskAgain(st, u, a, begin)
    BY <1>4
<1> HIDE DEF F, R
<1>6. \A t \in SUBSET S : t # {} => Chosen(t) \in S /\ t \ {Chosen(t)} \in SUBSET S
    BY <1>1, Parts
<1>7. TaskLoop(it, stats, u, S, begin)
    <2>1. PICK f : LoopFits(F, stats, S, R, f)
        <3>1. F \in [S \X R -> R] /\ IsFiniteSet(S) /\ stats \in R
            BY <1>1, <1>3, <1>5
        <3> QED BY <3>1, LoopExists, Zenon
    <2>2. ASSUME NEW t \in SUBSET S
          PROVE  f[t] = IF t = {} THEN stats
                        ELSE TaskAgain(f[t \ {Chosen(t)}], u, Chosen(t), begin)
        BY <1>5, <1>6, <2>1 DEF LoopStep, LoopFits
    <2>3. TaskLoop(f, stats, u, S, begin)
        BY <2>1, <2>2 DEF TaskLoop, LoopFits
    <2> QED BY <2>3, Zenon DEF it
<1>8. it[{}] = stats
      /\ \A t \in SUBSET S : t # {} => it[t] = TaskAgain(it[t \ {Chosen(t)}], u, Chosen(t), begin)
    BY <1>7 DEF TaskLoop
<1>9. \A t \in SUBSET S : t # {} /\ it[t \ {Chosen(t)}] \in R => it[t] \in R
    BY <1>4, <1>6, <1>8
<1>10. it[S] \in R
    BY <1>1, <1>3, <1>8, <1>9, LoopKeeps
<1> QED BY <1>2, <1>10 DEF R

\* For every instance that had an ability in front, ...
FrontAgain(st, u, old, begin) ==
    ContinueAbilities(st, u, old.currentStats_[Max(AbilityPeriods(old, u))].bundleStats_[u].abilities_,
                      begin)
FrontLoop(it, stats, old, S, begin) ==
    it = [t \in SUBSET S |-> IF t = {} THEN stats
                             ELSE FrontAgain(it[t \ {Chosen(t)}], Chosen(t), old, begin)]
FrontFold(stats, old, S, begin) == FoldSet(LAMBDA u, st : FrontAgain(st, u, old, begin), stats, S)

\* The last period with abilities of an instance had one of them in front.
HadInFront(old, u, x) == InFront(old.currentStats_[Max(AbilityPeriods(old, u))], u, x)

\* Doing so for one instance after the other takes no count away.
LEMMA FrontsCarried ==
    ASSUME NEW stats \in PeriodType, NEW old, NEW S \in SUBSET Uid, NEW begin \in Int
    PROVE  LET r == FrontFold(stats, old, S, begin)
           IN  /\ Carried(stats, r, begin)
               /\ \A v \in S, x \in Ability : HadInFront(old, v, x) => InFront(r, v, x)
<1> DEFINE R == {st \in PeriodType : Carried(stats, st, begin)}
           F == [x \in S \X R |-> FrontAgain(x[2], x[1], old, begin)]
           it == CHOOSE f : FrontLoop(f, stats, old, S, begin)
<1>1. IsFiniteSet(S)
    BY UidAssumption, FS_Subset
<1>2. FrontFold(stats, old, S, begin) = it[S]
    BY Zenon DEF FrontFold, FoldSet, MapThenFoldSet, FrontLoop, Chosen
<1> HIDE DEF it
<1>3. stats \in R
    BY CarriedSelf
<1>4. ASSUME NEW u \in S, NEW st \in R
      PROVE  /\ FrontAgain(st, u, old, begin) \in R /\ Carried(st, FrontAgain(st, u, old, begin), begin)
             /\ \A x \in Ability : HadInFront(old, u, x) => InFront(FrontAgain(st, u, old, begin), u, x)
    <2> DEFINE abilities == old.currentStats_[Max(AbilityPeriods(old, u))].bundleStats_[u].abilities_
               r == ContinueAbilities(st, u, abilities, begin)
    <2>1. FrontAgain(st, u, old, begin) = r
        BY DEF FrontAgain
    <2>2. \A x : HadInFront(old, u, x) => abilities[x] = FOREGROUND
        BY DEF HadInFront, InFront
    <2> HIDE DEF abilities
    <2>3. Carried(st, r, begin) /\ \A x \in Ability : abilities[x] = FOREGROUND => InFront(r, u, x)
        BY AbilitiesCarried
    <2> HIDE DEF r
    <2>4. Carried(stats, r, begin) /\ r \in PeriodType
        BY <2>3, CarriedOn DEF Carried, Grown
    <2> QED BY <2>1, <2>2, <2>3, <2>4
<1>5. F \in [S \X R -> R] /\ \A u \in S, st \in R : F[<<u, st>>] = FrontAgain(st, u, old, begin)
    BY <1>4
<1> HIDE DEF F, R
<1>6. \A t \in SUBSET S : t # {} => Chosen(t) \in S /\ t \ {Chosen(t)} \in SUBSET S
    BY <1>1, Parts
<1>7. FrontLoop(it, stats, old, S, begin)
    <2>1. PICK f : LoopFits(F, stats, S, R, f)
        <3>1. F \in [S \X R -> R] /\ IsFiniteSet(S) /\ stats \in R
            BY <1>1, <1>3, <1>5
        <3> QED BY <3>1, LoopExists, Zenon
    <2>2. ASSUME NEW t \in SUBSET S
          PROVE  f[t] = IF t = {} THEN stats
                        ELSE FrontAgain(f[t \ {Chosen(t)}], Chosen(t), old, begin)
        BY <1>5, <1>6, <2>1 DEF LoopStep, LoopFits
    <2>3. FrontLoop(f, stats, old, S, begin)
        BY <2>1, <2>2 DEF FrontLoop, LoopFits
    <2> QED BY <2>3, Zenon DEF it
<1>8. it[{}] = stats
      /\ \A t \in SUBSET S : t # {} => it[t] = FrontAgain(it[t \ {Chosen(t)}], Chosen(t), old, begin)
    BY <1>7 DEF FrontLoop
<1>9. \A t \in SUBSET S : t # {} /\ it[t \ {Chosen(t)}] \in R => it[t] \in R
    BY <1>4, <1>6, <1>8
<1>10. it[S] \in R
    BY <1>1, <1>3, <1>8, <1>9, LoopKeeps
<1>11. ASSUME NEW v \in S, NEW x \in Ability, HadInFront(old, v, x) PROVE InFront(it[S], v, x)
    <2> DEFINE Q == {st \in R : InFront(st, v, x)}
    <2>1. \A t \in SUBSET S : t # {} /\ it[t \ {Chosen(t)}] \in R =>
                /\ it[t] \in R
                /\ Chosen(t) = v \/ it[t \ {Chosen(t)}] \in Q => it[t] \in Q
        <3> SUFFICES ASSUME NEW t \in SUBSET S, t # {}, it[t \ {Chosen(t)}] \in R
                     PROVE  /\ it[t] \in R
                            /\ Chosen(t) = v \/ it[t \ {Chosen(t)}] \in Q => it[t] \in Q
            OBVIOUS
        <3> DEFINE st == it[t \ {Chosen(t)}]
                   u == Chosen(t)
        <3>1. u \in S /\ st \in R /\ it[t] = FrontAgain(st, u, old, begin)
            BY <1>6, <1>8
        <3> HIDE DEF st, u
        <3>2. it[t] \in R /\ Carried(st, it[t], begin) /\ (HadInFront(old, u, x) => InFront(it[t], u, x))
            BY <1>4, <3>1
        <3>3. v \in Uid
            OBVIOUS
        <3>4. InFront(st, v, x) => InFront(it[t], v, x)
            BY <3>2, <3>3 DEF Carried
        <3>5. u = v => InFront(it[t], v, x)
            BY <1>11, <3>2
        <3> QED BY <3>2, <3>4, <3>5 DEF st, u
    <2> HIDE DEF Q
    <2>2. it[{}] \in R
        BY <1>3, <1>8
    <2>3. it[S] \in R /\ (v \in S => it[S] \in Q)
        BY <1>1, <2>1, <2>2, LoopMakes
    <2> QED BY <2>3 DEF Q
<1> QED BY <1>2, <1>10, <1>11 DEF R

\* For every instance with a long time task, they start again.
TasksAgain(st, u, old, begin) ==
    ContinueServices(st, u, old.currentStats_[Max(TaskPeriods(old, u))].bundleStats_[u].longTimeTasks_,
                     begin)
TasksLoop(it, stats, old, S, begin) ==
    it = [t \in SUBSET S |-> IF t = {} THEN stats
                             ELSE TasksAgain(it[t \ {Chosen(t)}], Chosen(t), old, begin)]
TasksFold(stats, old, S, begin) == FoldSet(LAMBDA u, st : TasksAgain(st, u, old, begin), stats, S)

\* A set of numbers with a bound has a greatest one.
LEMMA MaxIn ==
    ASSUME NEW S, S \subseteq Int, S # {}, NEW b \in Int, \A x \in S : x <= b
    PROVE  Max(S) \in S /\ \A x \in S : x <= Max(S)
<1> DEFINE T == {b - x : x \in S}
<1>1. T \subseteq Nat /\ T # {}
    <2>1. \A x \in S : b - x \in Nat
        OBVIOUS
    <2>2. PICK x \in S : TRUE
        OBVIOUS
    <2>3. b - x \in T
        OBVIOUS
    <2> QED BY <2>1, <2>3
<1>2. PICK n \in T : \A m \in T : n <= m
    BY <1>1, Least
<1>3. PICK x \in S : n = b - x
    BY <1>2
<1>4. \A y \in S : x >= y
    <2> TAKE y \in S
    <2>1. b - y \in T
        OBVIOUS
    <2>2. b - x <= b - y
        BY <1>2, <1>3, <2>1
    <2> QED BY <2>2
<1>5. Max(S) \in S /\ \A y \in S : Max(S) >= y
    BY <1>4 DEF Max
<1> QED BY <1>5

\* Intervals have a greatest one.
LEMMA MaxInterval == ASSUME NEW S, S \subseteq Interval, S # {} PROVE Max(S) \in S
<1>1. Interval = 1..Len(Span) /\ Len(Span) \in Int
    <2>1. Span \in Seq(Nat \ {0})
        BY IntervalAssumption
    <2> QED BY <2>1 DEF Interval
<1>2. S \subseteq Int /\ \A x \in S : x <= Len(Span)
    BY <1>1
<1> QED BY <1>1, <1>2, MaxIn

\* Nor do the tasks of one instance after the other.
LEMMA TasksAllCarried ==
    ASSUME NEW stats \in PeriodType, NEW old, \A i \in Interval : old.currentStats_[i] \in PeriodType,
           NEW S \in SUBSET Uid, \A u \in S : TaskPeriods(old, u) # {}, NEW begin \in Int
    PROVE  Carried(stats, TasksFold(stats, old, S, begin), begin)
<1> DEFINE R == {st \in PeriodType : Carried(stats, st, begin)}
           F == [x \in S \X R |-> TasksAgain(x[2], x[1], old, begin)]
           it == CHOOSE f : TasksLoop(f, stats, old, S, begin)
<1>1. IsFiniteSet(S)
    BY UidAssumption, FS_Subset
<1>2. TasksFold(stats, old, S, begin) = it[S]
    BY Zenon DEF TasksFold, FoldSet, MapThenFoldSet, TasksLoop, Chosen
<1> HIDE DEF it
<1>3. stats \in R
    BY CarriedSelf
<1>4. ASSUME NEW u \in S, NEW st \in R PROVE TasksAgain(st, u, old, begin) \in R
    <2> DEFINE i == Max(TaskPeriods(old, u))
               kept == old.currentStats_[i].bundleStats_
               tasks == kept[u].longTimeTasks_
    <2>1. TaskPeriods(old, u) \subseteq Interval /\ TaskPeriods(old, u) # {}
        BY DEF TaskPeriods
    <2>2. i \in TaskPeriods(old, u)
        BY <2>1, MaxInterval
    <2>3. kept \in Kept(PackageStatsType) /\ u \in DOMAIN kept
        BY <2>2 DEF TaskPeriods, PeriodType
    <2> HIDE DEF kept, i
    <2>4. kept[u] \in PackageStatsType
        BY <2>3, KeptIs
    <2>5. tasks \in SUBSET Task
        BY <2>4 DEF PackageStatsType
    <2> HIDE DEF tasks
    <2>6. Carried(st, ContinueServices(st, u, tasks, begin), begin)
        BY <2>5, TasksCarried
    <2>7. TasksAgain(st, u, old, begin) = ContinueServices(st, u, tasks, begin)
        BY DEF TasksAgain, tasks, kept, i
    <2>8. Carried(stats, TasksAgain(st, u, old, begin), begin) /\ TasksAgain(st, u, old, begin) \in PeriodType
        BY <2>6, <2>7, CarriedOn DEF Carried, Grown
    <2> QED BY <2>8
<1>5. F \in [S \X R -> R] /\ \A u \in S, st \in R : F[<<u, st>>] = TasksAgain(st, u, old, begin)
    BY <1>4
<1> HIDE DEF F, R
<1>6. \A t \in SUBSET S : t # {} => Chosen(t) \in S /\ t \ {Chosen(t)} \in SUBSET S
    BY <1>1, Parts
<1>7. TasksLoop(it, stats, old, S, begin)
    <2>1. PICK f : LoopFits(F, stats, S, R, f)
        <3>1. F \in [S \X R -> R] /\ IsFiniteSet(S) /\ stats \in R
            BY <1>1, <1>3, <1>5
        <3> QED BY <3>1, LoopExists, Zenon
    <2>2. ASSUME NEW t \in SUBSET S
          PROVE  f[t] = IF t = {} THEN stats
                        ELSE TasksAgain(f[t \ {Chosen(t)}], Chosen(t), old, begin)
        BY <1>5, <1>6, <2>1 DEF LoopStep, LoopFits
    <2>3. TasksLoop(f, stats, old, S, begin)
        BY <2>1, <2>2 DEF TasksLoop, LoopFits
    <2> QED BY <2>3, Zenon DEF it
<1>8. it[{}] = stats
      /\ \A t \in SUBSET S : t # {} => it[t] = TasksAgain(it[t \ {Chosen(t)}], Chosen(t), old, begin)
    BY <1>7 DEF TasksLoop
<1>9. \A t \in SUBSET S : t # {} /\ it[t \ {Chosen(t)}] \in R => it[t] \in R
    BY <1>4, <1>6, <1>8
<1>10. it[S] \in R
    BY <1>1, <1>3, <1>8, <1>9, LoopKeeps
<1> QED BY <1>2, <1>10 DEF R

\* The loop returns at the first uid without an entry: those it reaches have one.
LEMMA Reached ==
    ASSUME NEW uids \in SUBSET Uid, NEW hasEntry
    PROVE  ReachedUids(uids, hasEntry) \in SUBSET Uid /\ ReachedUids(uids, hasEntry) \subseteq hasEntry
<1>1. \A u \in uids : u \in Nat
    BY UidAssumption
<1>2. ASSUME NEW u \in ReachedUids(uids, hasEntry) PROVE u \in uids /\ u \in hasEntry
    <2>1. u \in uids
        BY DEF ReachedUids
    <2>2. BundleOf[u] = BundleOf[u] /\ u <= u
        BY <1>1, <2>1
    <2> QED BY <2>1, <2>2 DEF ReachedUids
<1> QED BY <1>2

\* The first uid of a bundle is reached when it has an entry.
LEMMA FirstReached ==
    ASSUME NEW uids \in SUBSET Uid, NEW hasEntry, NEW u \in FirstUid, u \in uids, u \in hasEntry
    PROVE  u \in ReachedUids(uids, hasEntry)
<1>1. ASSUME NEW v \in uids, BundleOf[v] = BundleOf[u], v <= u PROVE v \in hasEntry
    <2>1. u <= v /\ u \in Nat /\ v \in Nat
        BY <1>1, UidAssumption DEF FirstUid
    <2>2. v = u
        BY <1>1, <2>1
    <2> QED BY <2>2
<1> QED BY <1>1 DEF ReachedUids

\* A period is continued: an ability that was in front in every period comes to front.
LEMMA ContinuedCarried ==
    ASSUME NEW stats \in PeriodType, NEW s, s.packageUids \subseteq Uid,
           s.currentStats_[PERIOD_DAILY].beginTime_ \in Int,
           NEW old, \A i \in Interval : old.currentStats_[i] \in PeriodType
    PROVE  LET r == Continued(stats, s, old)
           IN  /\ Carried(stats, r, s.currentStats_[PERIOD_DAILY].beginTime_)
               /\ \A u \in FirstUid \cap s.packageUids, x \in Ability :
                    (\A i \in Interval : InFront(old.currentStats_[i], u, x)) => InFront(r, u, x)
<1> DEFINE begin == s.currentStats_[PERIOD_DAILY].beginTime_
           known == {u \in s.packageUids : BundleOf[u] \in BundlesInMem(old)}
           entries == {u \in Uid : AbilityPeriods(old, u) # {}}
           inFront == ReachedUids(known, entries)
           inTask == ReachedUids(known, {u \in Uid : TaskPeriods(old, u) # {}})
           mid == FrontFold(stats, old, inFront, begin)
           r == TasksFold(mid, old, inTask, begin)
<1>1. Continued(stats, s, old) = r
    BY Zenon DEF Continued, TasksFold, FrontFold, TasksAgain, FrontAgain
<1>2. known \in SUBSET Uid
    OBVIOUS
<1>3. inFront \in SUBSET Uid /\ inTask \in SUBSET Uid /\ \A u \in inTask : TaskPeriods(old, u) # {}
    <2> HIDE DEF known
    <2> QED BY <1>2, Reached
<1> HIDE DEF inTask
<1>4. ASSUME NEW u \in FirstUid \cap s.packageUids, NEW x \in Ability,
             \A i \in Interval : InFront(old.currentStats_[i], u, x)
      PROVE  u \in inFront /\ HadInFront(old, u, x)
    <2>1. PERIOD_DAILY \in Interval /\ FOREGROUND # Absent /\ u \in Uid
        BY Intervals DEF FOREGROUND, Absent
    <2>2. AbilityPeriods(old, u) # {} /\ AbilityPeriods(old, u) \subseteq Interval
        BY <1>4, <2>1 DEF AbilityPeriods, InFront
    <2>3. Max(AbilityPeriods(old, u)) \in Interval
        BY <2>2, MaxInterval
    <2>4. HadInFront(old, u, x)
        BY <1>4, <2>3 DEF HadInFront
    <2>5. u \in entries
        BY <2>1, <2>2
    <2>6. u \in known
        BY <1>4, <2>1 DEF BundlesInMem, InFront
    <2> HIDE DEF known, entries
    <2>7. u \in inFront
        BY <1>2, <2>5, <2>6, FirstReached
    <2> QED BY <2>4, <2>7
<1> HIDE DEF inFront, known, entries
<1>5. /\ Carried(stats, mid, begin)
      /\ \A u \in inFront, x \in Ability : HadInFront(old, u, x) => InFront(mid, u, x)
    BY <1>3, FrontsCarried
<1> HIDE DEF mid
<1>6. mid \in PeriodType
    BY <1>5 DEF Carried, Grown
<1>7. Carried(mid, r, begin)
    BY <1>3, <1>6, TasksAllCarried
<1> HIDE DEF r
<1>8. Carried(stats, r, begin)
    BY <1>5, <1>7, CarriedOn
<1>9. ASSUME NEW u \in FirstUid \cap s.packageUids, NEW x \in Ability,
             \A i \in Interval : InFront(old.currentStats_[i], u, x)
      PROVE  InFront(r, u, x)
    <2>1. u \in inFront /\ HadInFront(old, u, x) /\ u \in Uid
        BY <1>3, <1>4, <1>9
    <2>2. InFront(mid, u, x)
        BY <1>5, <2>1
    <2> QED BY <1>7, <2>1, <2>2 DEF Carried
<1> QED BY <1>1, <1>8, <1>9

-----------------------------------------------------------------------------
(* Tables                                                                  *)

RowType == [startCount : Int, lastTime : Int, lastTimeContinuousTask : Int,
            totalTime : Int, totalTimeContinuousTask : Int]

\* Tables begin where periods begin, and their rows are numbers of instances.
TablesOK(i, tables) ==
    /\ tables = [t \in DOMAIN tables |-> tables[t]]
    /\ \A t \in DOMAIN tables : Aligned(i, t) /\ tables[t] \in Kept(RowType)

\* Some of the tables.
Fewer(tables, new) ==
    DOMAIN new \subseteq DOMAIN tables /\ new = [t \in DOMAIN new |-> tables[t]]

\* Some of the tables are tables, and memory that covers all covers some.
LEMMA FewerOK ==
    ASSUME NEW i \in Interval, NEW tables, TablesOK(i, tables), NEW new, Fewer(tables, new)
    PROVE  TablesOK(i, new) /\ \A stats : Covers(stats, tables) => Covers(stats, new)
<1>1. \A t \in DOMAIN new : t \in DOMAIN tables /\ new[t] = tables[t]
    BY DEF Fewer
<1>2. new = [t \in DOMAIN new |-> new[t]]
    BY <1>1 DEF Fewer
<1>3. TablesOK(i, new)
    BY <1>1, <1>2 DEF TablesOK
<1>4. ASSUME NEW stats, Covers(stats, tables) PROVE Covers(stats, new)
    BY <1>1, <1>4 DEF Covers
<1> QED BY <1>3, <1>4

\* Dropping the tables that are too many keeps some of them.
LEMMA ExcessiveFewer ==
    ASSUME NEW i, NEW tables PROVE Fewer(tables, DeleteExcessiveTableData(tables, i))
BY DEF DeleteExcessiveTableData, Restrict, Fewer

\* Some of some tables are some of them.
LEMMA FewerFewer ==
    ASSUME NEW a, NEW b, Fewer(a, b), NEW c, Fewer(b, c) PROVE Fewer(a, c)
<1>1. \A t \in DOMAIN c : t \in DOMAIN b /\ t \in DOMAIN a /\ c[t] = a[t]
    BY DEF Fewer
<1>2. c = [t \in DOMAIN c |-> c[t]]
    BY <1>1 DEF Fewer
<1>3. c = [t \in DOMAIN c |-> a[t]]
    BY <1>1, <1>2
<1> QED BY <1>1, <1>3 DEF Fewer

\* A row of an object is a row of numbers, with its total.
LEMMA RowIs ==
    ASSUME NEW p \in PackageStatsType, NEW begin \in Int
    PROVE  RowOf(p, begin) \in RowType /\ RowOf(p, begin).totalTime = p.totalInFrontTime_
<1>1. /\ p.startCount_ \in Int /\ p.lastTimeUsed_ \in Int /\ p.lastContiniousTaskUsed_ \in Int
      /\ p.totalInFrontTime_ \in Int /\ p.totalContiniousTaskUsedTime_ \in Int
    BY DEF PackageStatsType
<1>2. Relative(p.lastTimeUsed_, begin) \in Int /\ Relative(p.lastContiniousTaskUsed_, begin) \in Int
    BY <1>1 DEF Relative
<1> QED BY <1>1, <1>2 DEF RowOf, RowType

\* A row makes an object again, with its total.
LEMMA StatsIs ==
    ASSUME NEW row \in RowType, NEW begin \in Int
    PROVE  /\ StatsOf(row, begin) \in PackageStatsType
           /\ StatsOf(row, begin).totalInFrontTime_ = row.totalTime
<1>1. /\ row.startCount \in Int /\ row.lastTime \in Int /\ row.lastTimeContinuousTask \in Int
      /\ row.totalTime \in Int /\ row.totalTimeContinuousTask \in Int
    BY DEF RowType
<1>2. Absolute(row.lastTime, begin) \in Int /\ Absolute(row.lastTimeContinuousTask, begin) \in Int
    BY <1>1 DEF Absolute
<1> DEFINE last == Absolute(row.lastTime, begin)
           lastTask == Absolute(row.lastTimeContinuousTask, begin)
<1>3. StatsOf(row, begin) =
        [NewPackageStats EXCEPT
            !.startCount_ = row.startCount, !.lastTimeUsed_ = last,
            !.lastContiniousTaskUsed_ = lastTask, !.totalInFrontTime_ = row.totalTime,
            !.totalContiniousTaskUsedTime_ = row.totalTimeContinuousTask]
    BY DEF StatsOf
<1> HIDE DEF last, lastTask
<1> QED BY <1>1, <1>2, <1>3, NewStats DEF PackageStatsType, last, lastTask

\* A save writes the totals of memory to the table of the period and leaves the others.
SaveDone(i, tables, stats, new) ==
    /\ TablesOK(i, new)
    /\ DOMAIN new \subseteq DOMAIN tables \cup {stats.beginTime_}
    /\ Covers(stats, tables) => Covers(stats, new)

\* The update of the tables with a period writes the rows the memory has.
LEMMA SaveTables ==
    ASSUME NEW i \in Interval, NEW tables, TablesOK(i, tables), NEW stats \in PeriodType,
           Aligned(i, stats.beginTime_), NEW new, new = UpdateBundleUsageData(tables, i, stats)
    PROVE  SaveDone(i, tables, stats, new)
<1> DEFINE begin == stats.beginTime_
           kept == stats.bundleStats_
           added == [t \in DOMAIN tables \cup {begin} |-> IF t = begin THEN <<>> ELSE tables[t]]
           created == IF begin \in DOMAIN tables THEN tables
                      ELSE DeleteExcessiveTableData(added, i)
           table == FlushPackageInfo(created[begin], begin, kept)
<1>1. new = IF begin \in DOMAIN created THEN [created EXCEPT ![begin] = table] ELSE created
    BY DEF UpdateBundleUsageData
<1>2. /\ begin \in Int /\ Aligned(i, begin) /\ kept \in Kept(PackageStatsType)
    BY DEF PeriodType
<1>3. DOMAIN kept \subseteq Uid /\ \A u \in DOMAIN kept : kept[u] \in PackageStatsType
    BY <1>2, KeptIs
<1> HIDE DEF begin, kept
<1>4. begin \notin DOMAIN tables => TablesOK(i, added)
    <2>1. \A t \in DOMAIN added : Aligned(i, t) /\ added[t] \in Kept(RowType)
        BY <1>2, NoneKept DEF TablesOK
    <2> QED BY <2>1 DEF TablesOK
<1>5. DOMAIN added = DOMAIN tables \cup {begin} /\ added[begin] = <<>>
    OBVIOUS
<1> HIDE DEF added
<1>6. /\ TablesOK(i, created) /\ DOMAIN created \subseteq DOMAIN tables \cup {begin}
      /\ begin \in DOMAIN created => created[begin] = IF begin \in DOMAIN tables THEN tables[begin] ELSE <<>>
    <2>1. CASE begin \in DOMAIN tables
        BY <2>1
    <2>2. CASE begin \notin DOMAIN tables
        <3>1. Fewer(added, created)
            BY <2>2, ExcessiveFewer
        <3>2. TablesOK(i, created)
            BY <1>4, <2>2, <3>1, FewerOK
        <3> QED BY <1>5, <2>2, <3>1, <3>2 DEF Fewer
    <2> QED BY <2>1, <2>2
<1> HIDE DEF created, table
<1>7. CASE begin \notin DOMAIN created
    <2>1. new = created
        BY <1>1, <1>7
    <2>2. Covers(stats, new)
        BY <1>7, <2>1 DEF Covers, begin
    <2> QED BY <1>6, <2>1, <2>2 DEF SaveDone, begin
<1>8. CASE begin \in DOMAIN created
    <2> DEFINE saved == {u \in DOMAIN kept : WorthSaving(kept[u])}
               old == created[begin]
    <2>1. new = [created EXCEPT ![begin] = table] /\ DOMAIN new = DOMAIN created /\ new[begin] = table
        BY <1>1, <1>6, <1>8 DEF TablesOK
    <2>2. old \in Kept(RowType)
        BY <1>6, <1>8 DEF TablesOK
    <2>3. DOMAIN old \subseteq Uid /\ \A u \in DOMAIN old : old[u] \in RowType
        BY <2>2, KeptIs
    <2>4. table = [u \in DOMAIN old \cup saved |->
                     IF u \in saved THEN RowOf(kept[u], begin) ELSE old[u]]
        BY DEF table, FlushPackageInfo
    <2>5. saved \subseteq DOMAIN kept
        OBVIOUS
    <2> HIDE DEF saved, old
    <2>6. \A u \in saved : RowOf(kept[u], begin) \in RowType
                           /\ RowOf(kept[u], begin).totalTime = kept[u].totalInFrontTime_
        BY <1>2, <1>3, <2>5, RowIs
    <2>7. table \in [DOMAIN old \cup saved -> RowType]
        BY <2>3, <2>4, <2>6
    <2>8. table \in Kept(RowType)
        <3>1. DOMAIN old \cup saved \in SUBSET Uid
            BY <1>3, <2>3, <2>5
        <3> QED BY <2>7, <3>1, IsKept
    <2>9. TablesOK(i, new)
        BY <1>6, <2>1, <2>8 DEF TablesOK
    <2>10. ASSUME Covers(stats, tables) PROVE Covers(stats, new)
        <3>1. ASSUME NEW u \in DOMAIN table
              PROVE  u \in DOMAIN kept /\ table[u].totalTime <= kept[u].totalInFrontTime_
            <4>1. CASE u \in saved
                <5>1. kept[u].totalInFrontTime_ \in Int
                    BY <1>3, <2>5, <4>1 DEF PackageStatsType
                <5>2. table[u].totalTime = kept[u].totalInFrontTime_
                    BY <2>4, <2>6, <4>1
                <5> QED BY <2>5, <4>1, <5>1, <5>2
            <4>2. CASE u \notin saved
                <5>1. u \in DOMAIN old /\ table[u] = old[u]
                    BY <2>4, <3>1, <4>2
                <5>2. begin \in DOMAIN tables /\ old = tables[begin]
                    BY <1>6, <1>8, <5>1, NoneKept DEF old
                <5> QED BY <2>10, <5>1, <5>2 DEF Covers, begin, kept
            <4> QED BY <4>1, <4>2
        <3> QED BY <2>1, <3>1 DEF Covers, begin, kept
    <2> QED BY <1>6, <2>1, <2>9, <2>10 DEF SaveDone, begin
<1> QED BY <1>7, <1>8

\* The last table is read, when there is one.
LEMMA CurrentUsage ==
    ASSUME NEW i \in Interval, NEW tables, TablesOK(i, tables), tables # <<>>,
           NEW b \in Int, \A t \in DOMAIN tables : t <= b
    PROVE  LET stats == GetCurrentUsageData(tables)
           IN  /\ stats \in PeriodType
               /\ stats.beginTime_ = LastTable(tables) /\ LastTable(tables) \in DOMAIN tables
               /\ \A t \in DOMAIN tables : t <= LastTable(tables)
               /\ DOMAIN stats.bundleStats_ = DOMAIN tables[LastTable(tables)]
               /\ \A u \in DOMAIN stats.bundleStats_ :
                    stats.bundleStats_[u].totalInFrontTime_ = tables[LastTable(tables)][u].totalTime
<1> DEFINE time == LastTable(tables)
           m == [u \in DOMAIN tables[time] |-> StatsOf(tables[time][u], time)]
<1>1. DOMAIN tables # {}
    BY NoneKept DEF TablesOK
<1>2. DOMAIN tables \subseteq Int
    BY DEF TablesOK, Aligned
<1>3. time \in DOMAIN tables /\ \A t \in DOMAIN tables : t <= time
    BY <1>1, <1>2, MaxIn DEF LastTable
<1> HIDE DEF time
<1>4. time \in Int /\ tables[time] \in Kept(RowType)
    BY <1>2, <1>3 DEF TablesOK
<1>5. DOMAIN tables[time] \in SUBSET Uid /\ \A u \in DOMAIN tables[time] : tables[time][u] \in RowType
    BY <1>4, KeptIs
<1>6. \A u \in DOMAIN tables[time] : /\ StatsOf(tables[time][u], time) \in PackageStatsType
                                     /\ StatsOf(tables[time][u], time).totalInFrontTime_ = tables[time][u].totalTime
    BY <1>4, <1>5, StatsIs
<1>7. m \in [DOMAIN tables[time] -> PackageStatsType]
    BY <1>6
<1>8. m \in Kept(PackageStatsType) /\ DOMAIN m = DOMAIN tables[time]
    BY <1>5, <1>7, IsKept
<1>9. GetCurrentUsageData(tables) = [beginTime_ |-> time, bundleStats_ |-> m]
    BY DEF GetCurrentUsageData, time
<1>10. \A u \in DOMAIN m : m[u].totalInFrontTime_ = tables[time][u].totalTime
    BY <1>6
<1> HIDE DEF m
<1> QED BY <1>3, <1>4, <1>8, <1>9, <1>10 DEF PeriodType, time

-----------------------------------------------------------------------------
(* Memory and tables of a service                                          *)

\* Periods, tables and uids are what they should be.
Stored(s) ==
    /\ Shape(s) /\ s.packageUids \subseteq Uid
    /\ \A i \in Interval : /\ s.currentStats_[i] \in PeriodType
                           /\ TablesOK(i, s.database_.packageTable[i])

\* Interval i of a service whose periods end at expiry or later: no table begins after
\* the running period, and memory covers its table.
CoveredFor(i, stats, tables, expiry) ==
    /\ Aligned(i, stats.beginTime_) /\ stats.beginTime_ <= expiry
    /\ \A t \in DOMAIN tables : t <= stats.beginTime_
    /\ PeriodLength[i] >= Span[i] => Covers(stats, tables)

Covered(s) ==
    /\ Stored(s) /\ s.dailyExpiryDate_ \in Int
    /\ \A i \in Interval : CoveredFor(i, s.currentStats_[i], s.database_.packageTable[i],
                                      s.dailyExpiryDate_)

\* Counts that go on cover what they covered.
LEMMA GrownCovers ==
    ASSUME NEW a \in PeriodType, NEW b, Grown(a, b), NEW i \in Interval,
           NEW tables, TablesOK(i, tables), NEW expiry, CoveredFor(i, a, tables, expiry)
    PROVE  CoveredFor(i, b, tables, expiry)
<1>1. b.beginTime_ = a.beginTime_
    BY DEF Grown
<1>2. ASSUME Covers(a, tables), a.beginTime_ \in DOMAIN tables,
             NEW u \in DOMAIN tables[a.beginTime_]
      PROVE  /\ u \in DOMAIN b.bundleStats_
             /\ tables[a.beginTime_][u].totalTime <= b.bundleStats_[u].totalInFrontTime_
    <2> DEFINE n == tables[a.beginTime_][u].totalTime
               x == a.bundleStats_[u]
               y == b.bundleStats_[u]
    <2>1. u \in DOMAIN a.bundleStats_ /\ n <= x.totalInFrontTime_
        BY <1>2 DEF Covers
    <2>2. u \in DOMAIN b.bundleStats_ /\ Onward(x, y)
        BY <2>1 DEF Grown
    <2>3. x \in PackageStatsType
        BY <2>1, KeptIs DEF PeriodType
    <2>4. tables[a.beginTime_] \in Kept(RowType)
        BY <1>2 DEF TablesOK
    <2>5. tables[a.beginTime_][u] \in RowType
        BY <1>2, <2>4, KeptIs
    <2>6. n \in Int
        BY <2>5 DEF RowType
    <2> HIDE DEF n, x, y
    <2>7. x.totalInFrontTime_ <= y.totalInFrontTime_ /\ x.totalInFrontTime_ \in Int
          /\ y.totalInFrontTime_ \in Int
        BY <2>2, <2>3 DEF Onward, PackageStatsType
    <2>8. n <= y.totalInFrontTime_
        BY <2>1, <2>6, <2>7 DEF x
    <2> QED BY <2>2, <2>8 DEF n, y
<1>3. Covers(a, tables) => Covers(b, tables)
    BY <1>1, <1>2 DEF Covers
<1> QED BY <1>1, <1>3 DEF CoveredFor

\* What only counts on in memory keeps it ahead of the tables.
LEMMA GrownCovered ==
    ASSUME NEW s, Covered(s), NEW r, Shape(r), r.packageUids \subseteq Uid,
           r.database_.packageTable = s.database_.packageTable,
           r.dailyExpiryDate_ = s.dailyExpiryDate_,
           \A i \in Interval : Grown(s.currentStats_[i], r.currentStats_[i])
    PROVE  Covered(r)
<1>1. ASSUME NEW i \in Interval
      PROVE  /\ r.currentStats_[i] \in PeriodType
             /\ TablesOK(i, r.database_.packageTable[i])
             /\ CoveredFor(i, r.currentStats_[i], r.database_.packageTable[i], r.dailyExpiryDate_)
    <2>1. /\ s.currentStats_[i] \in PeriodType /\ TablesOK(i, s.database_.packageTable[i])
          /\ CoveredFor(i, s.currentStats_[i], s.database_.packageTable[i], s.dailyExpiryDate_)
          /\ Grown(s.currentStats_[i], r.currentStats_[i])
        BY DEF Covered, Stored
    <2>2. CoveredFor(i, r.currentStats_[i], s.database_.packageTable[i], s.dailyExpiryDate_)
        BY <2>1, GrownCovers
    <2> QED BY <2>1, <2>2 DEF Grown
<1>2. r.dailyExpiryDate_ \in Int
    BY DEF Covered
<1> QED BY <1>1, <1>2 DEF Covered, Stored

\* A save.
LEMMA RestoreCovered ==
    ASSUME NEW s, Covered(s), NEW forced \in BOOLEAN, NEW r, r = RestoreStats(s, forced)
    PROVE  Covered(r)
<1>1. CASE ~(s.statsChanged_ \/ forced)
    BY <1>1, RestoreSkips
<1>2. CASE s.statsChanged_ \/ forced
    <2>1. Shape(s)
        BY DEF Covered, Stored
    <2>2. RestoreDone(s, r)
        BY <1>2, <2>1, RestoreFields
    <2>3. /\ Shape(r) /\ r.packageUids = s.packageUids /\ r.currentStats_ = s.currentStats_
          /\ r.dailyExpiryDate_ = s.dailyExpiryDate_ /\ r.database_ = Saved(s)
        BY <2>2 DEF RestoreDone
    <2>4. ASSUME NEW i \in Interval
          PROVE  /\ TablesOK(i, r.database_.packageTable[i])
                 /\ CoveredFor(i, s.currentStats_[i], r.database_.packageTable[i], s.dailyExpiryDate_)
        <3> DEFINE stats == s.currentStats_[i]
                   old == s.database_.packageTable[i]
                   new == r.database_.packageTable[i]
        <3>1. stats \in PeriodType /\ TablesOK(i, old) /\ CoveredFor(i, stats, old, s.dailyExpiryDate_)
            BY DEF Covered, Stored
        <3>2. new = IF stats.bundleStats_ = <<>> THEN old ELSE UpdateBundleUsageData(old, i, stats)
            BY <2>3 DEF Saved
        <3> HIDE DEF stats, old, new
        <3>3. CASE stats.bundleStats_ = <<>>
            BY <3>1, <3>2, <3>3 DEF stats, new
        <3>4. CASE stats.bundleStats_ # <<>>
            <4>1. new = UpdateBundleUsageData(old, i, stats) /\ Aligned(i, stats.beginTime_)
                BY <3>1, <3>2, <3>4 DEF CoveredFor
            <4>2. SaveDone(i, old, stats, new)
                BY <3>1, <4>1, SaveTables
            <4>3. \A t \in DOMAIN new : t \in DOMAIN old \/ t = stats.beginTime_
                BY <4>2 DEF SaveDone
            <4>4. stats.beginTime_ <= stats.beginTime_
                BY <4>1 DEF Aligned
            <4> QED BY <3>1, <4>2, <4>3, <4>4 DEF SaveDone, CoveredFor, stats, new
        <3> QED BY <3>3, <3>4
    <2> QED BY <2>3, <2>4 DEF Covered, Stored
<1> QED BY <1>1, <1>2

\* Fewer tables are covered as well.
LEMMA FewerCovers ==
    ASSUME NEW i \in Interval, NEW stats, NEW tables, TablesOK(i, tables), NEW new, Fewer(tables, new),
           NEW expiry, CoveredFor(i, stats, tables, expiry)
    PROVE  TablesOK(i, new) /\ CoveredFor(i, stats, new, expiry)
<1>1. TablesOK(i, new) /\ (Covers(stats, tables) => Covers(stats, new))
    BY FewerOK
<1>2. DOMAIN new \subseteq DOMAIN tables
    BY DEF Fewer
<1> QED BY <1>1, <1>2 DEF CoveredFor

\* Old tables go.
LEMMA CleanedCovered ==
    ASSUME NEW s, Covered(s), NEW ts, NEW r, r = Cleaned(s, ts)
    PROVE  Covered(r)
<1>1. Shape(s)
    BY DEF Covered, Stored
<1>2. CleanedDone(s, ts, r)
    BY <1>1, CleanedFields
<1>3. /\ Shape(r) /\ r.packageUids = s.packageUids /\ r.currentStats_ = s.currentStats_
      /\ r.dailyExpiryDate_ = s.dailyExpiryDate_
      /\ r.database_.packageTable = RemoveOldData(s.database_.packageTable, ts)
    BY <1>2 DEF CleanedDone
<1>4. ASSUME NEW i \in Interval
      PROVE  /\ TablesOK(i, r.database_.packageTable[i])
             /\ CoveredFor(i, s.currentStats_[i], r.database_.packageTable[i], s.dailyExpiryDate_)
    <2> DEFINE old == s.database_.packageTable[i]
               recent == {t \in DOMAIN old : t >= ts - MaxFiles[i] * PeriodLength[i]}
               mid == Restrict(old, recent)
               new == r.database_.packageTable[i]
    <2>1. TablesOK(i, old) /\ CoveredFor(i, s.currentStats_[i], old, s.dailyExpiryDate_)
        BY DEF Covered, Stored
    <2>2. new = DeleteExcessiveTableData(mid, i)
        BY <1>3 DEF RemoveOldData
    <2> HIDE DEF old, new
    <2>3. recent \subseteq DOMAIN old
        OBVIOUS
    <2> HIDE DEF recent
    <2>4. Fewer(old, mid)
        BY <2>3 DEF Restrict, Fewer
    <2> HIDE DEF mid
    <2>5. Fewer(mid, new)
        BY <2>2, ExcessiveFewer
    <2>6. Fewer(old, new)
        BY <2>4, <2>5, FewerFewer
    <2>7. TablesOK(i, new) /\ CoveredFor(i, s.currentStats_[i], new, s.dailyExpiryDate_)
        BY <2>1, <2>6, FewerCovers
    <2> QED BY <2>7 DEF new
<1> QED BY <1>3, <1>4 DEF Covered, Stored

\* A period that is loaded begins with its calendar period and has the rows of its table.
LEMMA LoadPeriodCovers ==
    ASSUME NEW s, NEW i \in Interval, NEW tables, tables = s.database_.packageTable[i], TablesOK(i, tables),
           NEW ts \in Int, \A t \in DOMAIN tables : t < ts, NEW expiry \in Int, ts <= expiry
    PROVE  LET stats == LoadPeriod(s, i, ts)
           IN  stats \in PeriodType /\ CoveredFor(i, stats, tables, expiry)
<1> DEFINE begin == TruncateTo(i, ts)
           last == GetCurrentUsageData(tables)
           usable == /\ tables # <<>> /\ ts > last.beginTime_
                     /\ ts < last.beginTime_ + PeriodLength[i]
           m == IF usable THEN last.bundleStats_ ELSE <<>>
           stats == LoadPeriod(s, i, ts)
<1>1. stats = [beginTime_ |-> begin, bundleStats_ |-> m]
    BY DEF LoadPeriod
<1>2. Aligned(i, begin) /\ begin <= ts /\ ts < begin + Span[i]
    BY Truncated
<1>3. \A t \in DOMAIN tables : t <= begin
    <2> TAKE t \in DOMAIN tables
    <2>1. Aligned(i, t) /\ t < ts /\ t \in Int
        BY DEF TablesOK, Aligned
    <2>2. t <= ts
        BY <2>1
    <2> QED BY <2>1, <2>2, LastBegin
<1> HIDE DEF begin, last, stats
<1>4. begin \in Int
    BY <1>2 DEF Aligned
<1>5. ASSUME tables # <<>>
      PROVE  /\ last \in PeriodType
             /\ last.beginTime_ = LastTable(tables) /\ LastTable(tables) \in DOMAIN tables
             /\ \A t \in DOMAIN tables : t <= LastTable(tables)
             /\ DOMAIN last.bundleStats_ = DOMAIN tables[LastTable(tables)]
             /\ \A u \in DOMAIN last.bundleStats_ :
                  last.bundleStats_[u].totalInFrontTime_ = tables[LastTable(tables)][u].totalTime
    BY <1>3, <1>4, <1>5, CurrentUsage DEF last
<1>6. m \in Kept(PackageStatsType)
    <2>1. CASE usable
        BY <1>5, <2>1 DEF PeriodType
    <2>2. CASE ~usable
        BY <2>2, NoneKept
    <2> QED BY <2>1, <2>2
<1>7. stats \in PeriodType /\ stats.beginTime_ = begin /\ stats.bundleStats_ = m
    BY <1>1, <1>4, <1>6 DEF PeriodType
<1>8. ASSUME PeriodLength[i] >= Span[i], begin \in DOMAIN tables
      PROVE  /\ DOMAIN m = DOMAIN tables[begin]
             /\ \A u \in DOMAIN m : m[u].totalInFrontTime_ = tables[begin][u].totalTime
    <2>1. tables # <<>>
        BY <1>8, NoneKept
    <2>2. LastTable(tables) = begin
        <3>1. LastTable(tables) <= begin /\ begin <= LastTable(tables) /\ LastTable(tables) \in Int
            BY <1>3, <1>5, <1>8, <2>1 DEF TablesOK, Aligned
        <3> QED BY <1>4, <3>1
    <2>3. usable
        <3>1. begin < ts
            BY <1>8
        <3>2. Span[i] \in Int /\ PeriodLength[i] \in Int
            BY Intervals
        <3>3. ts < begin + PeriodLength[i]
            BY <1>2, <1>4, <1>8, <3>2
        <3> QED BY <1>4, <1>5, <2>1, <2>2, <3>1, <3>3
    <2>4. m = last.bundleStats_
        BY <2>3
    <2> HIDE DEF m, usable
    <2> QED BY <1>5, <2>1, <2>2, <2>4
<1> HIDE DEF m, usable
<1>9. ASSUME PeriodLength[i] >= Span[i] PROVE Covers(stats, tables)
    <2> SUFFICES ASSUME begin \in DOMAIN tables, NEW u \in DOMAIN tables[begin]
                 PROVE  u \in DOMAIN m /\ tables[begin][u].totalTime <= m[u].totalInFrontTime_
        BY <1>7 DEF Covers
    <2>1. tables[begin] \in Kept(RowType)
        BY DEF TablesOK
    <2>2. tables[begin][u] \in RowType
        BY <2>1, KeptIs
    <2>3. tables[begin][u].totalTime \in Int
        BY <2>2 DEF RowType
    <2>4. u \in DOMAIN m /\ m[u].totalInFrontTime_ = tables[begin][u].totalTime
        BY <1>8, <1>9
    <2> QED BY <2>3, <2>4
<1>10. begin <= expiry
    BY <1>2, <1>4
<1>11. CoveredFor(i, stats, tables, expiry)
    BY <1>2, <1>3, <1>7, <1>9, <1>10 DEF CoveredFor
<1> QED BY <1>7, <1>11 DEF stats

\* Uids that are read from tables.
LEMMA ReadUidsOK ==
    ASSUME NEW s, NEW ts, NEW force, NEW b \in Int,
           \A i \in Interval : /\ TablesOK(i, s.database_.packageTable[i])
                               /\ \A t \in DOMAIN s.database_.packageTable[i] : t <= b
    PROVE  ReadUids(s, ts, force) \subseteq Uid
<1>1. ASSUME NEW i \in Interval, s.database_.packageTable[i] # <<>>
      PROVE  DOMAIN GetCurrentUsageData(s.database_.packageTable[i]).bundleStats_ \subseteq Uid
    <2> DEFINE tables == s.database_.packageTable[i]
               last == GetCurrentUsageData(tables)
    <2>1. TablesOK(i, tables) /\ tables # <<>> /\ \A t \in DOMAIN tables : t <= b
        BY <1>1
    <2> HIDE DEF tables
    <2>2. last \in PeriodType
        BY <2>1, CurrentUsage
    <2> HIDE DEF last
    <2>3. DOMAIN last.bundleStats_ \subseteq Uid
        BY <2>2, KeptIs DEF PeriodType
    <2> QED BY <2>3 DEF last, tables
<1>2. Loaded(s, ts, force) \subseteq Interval
    BY DEF Loaded
<1> QED BY <1>1, <1>2 DEF ReadUids

\* A load, when no table begins now or later.
LEMMA LoadCovered ==
    ASSUME NEW s, Stored(s), NEW ts \in Int,
           \A i \in Interval : \A t \in DOMAIN s.database_.packageTable[i] : t <= ts,
           \A i \in Loaded(s, ts, FALSE) : \A t \in DOMAIN s.database_.packageTable[i] : t < ts,
           \A i \in Interval \ Loaded(s, ts, FALSE) :
                \E e \in Int : CoveredFor(i, s.currentStats_[i], s.database_.packageTable[i], e),
           NEW r, r = LoadActiveStats(s, ts, FALSE, FALSE)
    PROVE  Covered(r)
<1> DEFINE expiry == TruncateTo(PERIOD_DAILY, ts + PeriodLength[PERIOD_DAILY])
<1>1. LoadDone(s, ts, FALSE, FALSE, r)
    BY LoadFields DEF Stored
<1>2. /\ Shape(r) /\ r.database_ = s.database_ /\ r.dailyExpiryDate_ = expiry
      /\ r.packageUids = s.packageUids \cup ReadUids(s, ts, FALSE)
      /\ \A i \in Interval : r.currentStats_[i] = IF i \in Loaded(s, ts, FALSE)
                                                  THEN LoadPeriod(s, i, ts) ELSE s.currentStats_[i]
    BY <1>1 DEF LoadDone
<1>3. expiry \in Int /\ ts <= expiry
    <2> DEFINE n == Span[PERIOD_DAILY]
    <2>1. n \in Nat /\ PeriodLength[PERIOD_DAILY] = n /\ PERIOD_DAILY \in Interval
        BY Intervals
    <2>2. ts + n \in Int
        BY <2>1
    <2>3. expiry \in Int /\ ts + n < expiry + n
        BY <2>1, <2>2, Truncated DEF Aligned
    <2> HIDE DEF n, expiry
    <2> QED BY <2>1, <2>3
<1> HIDE DEF expiry
<1>4. r.packageUids \subseteq Uid
    <2>1. ReadUids(s, ts, FALSE) \subseteq Uid
        BY ReadUidsOK DEF Stored
    <2> QED BY <1>2, <2>1 DEF Stored
<1>5. ASSUME NEW i \in Interval
      PROVE  /\ r.currentStats_[i] \in PeriodType
             /\ TablesOK(i, s.database_.packageTable[i])
             /\ CoveredFor(i, r.currentStats_[i], s.database_.packageTable[i], expiry)
    <2> DEFINE tables == s.database_.packageTable[i]
    <2>1. TablesOK(i, tables) /\ s.currentStats_[i] \in PeriodType
        BY DEF Stored
    <2>2. CASE i \in Loaded(s, ts, FALSE)
        <3>1. \A t \in DOMAIN tables : t < ts
            BY <2>2
        <3> HIDE DEF tables
        <3>2. LoadPeriod(s, i, ts) \in PeriodType /\ CoveredFor(i, LoadPeriod(s, i, ts), tables, expiry)
            BY <1>3, <2>1, <3>1, LoadPeriodCovers DEF tables
        <3> QED BY <1>2, <2>1, <2>2, <3>2 DEF tables
    <2>3. CASE i \notin Loaded(s, ts, FALSE)
        <3>1. r.currentStats_[i] = s.currentStats_[i] /\ s.currentStats_[i].beginTime_ = TruncateTo(i, ts)
            BY <1>2, <2>3 DEF Loaded
        <3>2. Aligned(i, TruncateTo(i, ts)) /\ TruncateTo(i, ts) <= ts
            BY Truncated
        <3>3. TruncateTo(i, ts) <= expiry
            BY <1>3, <3>2 DEF Aligned
        <3>4. PICK e \in Int : CoveredFor(i, s.currentStats_[i], tables, e)
            BY <2>3
        <3> QED BY <2>1, <3>1, <3>3, <3>4 DEF CoveredFor
    <2> QED BY <2>2, <2>3
<1> QED BY <1>2, <1>3, <1>4, <1>5 DEF Covered, Stored

\* A load at the end of a day: periods that are over had no table after their own.
LEMMA LoadNextCovered ==
    ASSUME NEW s, Covered(s), NEW ts \in Int, s.dailyExpiryDate_ <= ts,
           NEW r, r = LoadActiveStats(s, ts, FALSE, FALSE)
    PROVE  Covered(r)
<1>1. ASSUME NEW i \in Interval, NEW t \in DOMAIN s.database_.packageTable[i]
      PROVE  t <= ts /\ (i \in Loaded(s, ts, FALSE) => t < ts)
    <2> DEFINE begin == s.currentStats_[i].beginTime_
               now == TruncateTo(i, ts)
    <2>1. /\ Aligned(i, begin) /\ begin <= s.dailyExpiryDate_ /\ t <= begin
          /\ TablesOK(i, s.database_.packageTable[i]) /\ s.dailyExpiryDate_ \in Int
        BY DEF Covered, Stored, CoveredFor
    <2>2. i \in Loaded(s, ts, FALSE) => begin # now
        BY DEF Loaded
    <2> HIDE DEF begin
    <2>3. t \in Int /\ begin \in Int
        BY <2>1 DEF TablesOK, Aligned
    <2>4. begin <= ts
        BY <2>1, <2>3
    <2>5. begin <= now
        BY <2>1, <2>4, LastBegin
    <2>6. now <= ts /\ now \in Int
        <3>1. Aligned(i, now) /\ now <= ts
            BY Truncated
        <3> QED BY <3>1 DEF Aligned
    <2> HIDE DEF now
    <2>7. t <= begin
        BY <2>1
    <2>8. t <= ts /\ (begin # now => t < ts)
        BY <2>3, <2>5, <2>6, <2>7
    <2> QED BY <2>2, <2>8
<1>2. \A i \in Loaded(s, ts, FALSE) : i \in Interval
    BY DEF Loaded
<1>3. \A i \in Interval \ Loaded(s, ts, FALSE) :
            CoveredFor(i, s.currentStats_[i], s.database_.packageTable[i], s.dailyExpiryDate_)
    BY DEF Covered
<1>4. Stored(s) /\ s.dailyExpiryDate_ \in Int
    BY DEF Covered
<1> QED BY <1>1, <1>2, <1>3, <1>4, LoadCovered

\* The begin of a service: tables that begin now or later are dropped first.
LEMMA InitCovered ==
    ASSUME NEW s, Stored(s), NEW ts \in Nat
    PROVE  Covered(InitService(s, ts))
<1> DEFINE o == Opened(s, ts)
<1>1. OpenedDone(s, ts, o)
    BY OpenedFields DEF Stored
<1>2. /\ Shape(o) /\ o.packageUids = s.packageUids
      /\ o.database_ = InitDatabaseTableInfo(s.database_, ts)
      /\ o.currentStats_ = [i \in Interval |-> [beginTime_ |-> Unknown, bundleStats_ |-> <<>>]]
    BY <1>1 DEF OpenedDone
<1> HIDE DEF o
<1>3. ASSUME NEW i \in Interval
      PROVE  /\ TablesOK(i, o.database_.packageTable[i])
             /\ \A t \in DOMAIN o.database_.packageTable[i] : t < ts
    <2> DEFINE old == s.database_.packageTable[i]
               mid == DeleteExcessiveTableData(old, i)
               past == {t \in DOMAIN mid : t < ts}
               new == o.database_.packageTable[i]
    <2>1. TablesOK(i, old)
        BY DEF Stored
    <2>2. new = Restrict(mid, past)
        BY <1>2 DEF InitDatabaseTableInfo
    <2> HIDE DEF old, new
    <2>3. Fewer(old, mid)
        BY ExcessiveFewer
    <2> HIDE DEF mid
    <2>4. Fewer(mid, new) /\ \A t \in DOMAIN new : t < ts
        BY <2>2 DEF Restrict, Fewer
    <2>5. Fewer(old, new)
        BY <2>3, <2>4, FewerFewer
    <2>6. TablesOK(i, new)
        BY <2>1, <2>5, FewerOK
    <2> QED BY <2>4, <2>6 DEF new
<1>4. ASSUME NEW i \in Interval
      PROVE  o.currentStats_[i] \in PeriodType /\ i \in Loaded(o, ts, FALSE)
    <2>1. o.currentStats_[i] = [beginTime_ |-> Unknown, bundleStats_ |-> <<>>]
        BY <1>2
    <2>2. o.currentStats_[i] \in PeriodType
        BY <2>1, NoneKept DEF PeriodType, Unknown
    <2>3. Aligned(i, 0)
        BY Intervals DEF Aligned
    <2>4. 0 <= TruncateTo(i, ts) /\ TruncateTo(i, ts) \in Int
        BY <2>3, LastBegin, Truncated DEF Aligned
    <2>5. Unknown # TruncateTo(i, ts)
        BY <2>4 DEF Unknown
    <2> QED BY <2>1, <2>2, <2>5 DEF Loaded
<1>5. Stored(o)
    BY <1>2, <1>3, <1>4 DEF Stored
<1>6. \A i \in Interval : \A t \in DOMAIN o.database_.packageTable[i] : t <= ts
    <2> TAKE i \in Interval
    <2> TAKE t \in DOMAIN o.database_.packageTable[i]
    <2>1. t < ts /\ t \in Int
        BY <1>3 DEF TablesOK, Aligned
    <2> QED BY <2>1
<1>7. \A i \in Loaded(o, ts, FALSE) : i \in Interval
    BY DEF Loaded
<1>8. \A i \in Loaded(o, ts, FALSE) : \A t \in DOMAIN o.database_.packageTable[i] : t < ts
    <2> TAKE i \in Loaded(o, ts, FALSE)
    <2>1. i \in Interval
        BY <1>7
    <2> QED BY <1>3, <2>1
<1>9. \A i \in Interval \ Loaded(o, ts, FALSE) :
            \E e \in Int : CoveredFor(i, o.currentStats_[i], o.database_.packageTable[i], e)
    <2> TAKE i \in Interval \ Loaded(o, ts, FALSE)
    <2>1. FALSE
        BY <1>4
    <2> QED BY <2>1
<1>10. Covered(LoadActiveStats(o, ts, FALSE, FALSE))
    <2>1. ts \in Int
        OBVIOUS
    <2> QED BY <1>5, <1>6, <1>8, <1>9, <2>1, LoadCovered, Zenon
<1>11. InitService(s, ts) = LoadActiveStats(o, ts, FALSE, FALSE)
    BY InitServiceIs, Zenon DEF o
<1> QED BY <1>10, <1>11

\* The steps of the end of a day: settled, saved, cleaned, loaded, continued and saved again.
RenewDone(s, ts, r) ==
    \E flushed, saved, cleaned, loaded, continued :
        /\ Covered(flushed) /\ FlushDataDone(s, flushed)
        /\ Covered(saved) /\ saved = RestoreStats(flushed, TRUE) /\ saved.packageUids = s.packageUids
        /\ Covered(cleaned) /\ CleanedDone(saved, ts, cleaned)
        /\ Covered(loaded) /\ LoadDone(cleaned, ts, FALSE, FALSE, loaded)
        /\ Covered(continued) /\ ContinueDone(loaded, flushed, continued)
        /\ r = RestoreStats(continued, TRUE) /\ r.currentStats_ = continued.currentStats_
        /\ r.packageUids = continued.packageUids

\* The end of a day.
LEMMA RenewStatsCovered ==
    ASSUME NEW s, Covered(s), NEW ts \in Int, s.dailyExpiryDate_ <= ts
    PROVE  Covered(RenewStatsInMemory(s, ts)) /\ RenewDone(s, ts, RenewStatsInMemory(s, ts))
<1> DEFINE flushed == FlushDataInMem(s)
           saved == RestoreStats(flushed, TRUE)
           cleaned == Cleaned(saved, ts)
           loaded == LoadActiveStats(cleaned, ts, FALSE, FALSE)
           continued == UpdateContinueMemory(loaded, flushed)
           r == RestoreStats(continued, TRUE)
<1>0. RenewStatsInMemory(s, ts) = r
    BY RenewStatsIs, Zenon
<1> HIDE DEF flushed, saved, cleaned, loaded, continued, r
<1>1. /\ Covered(flushed) /\ FlushDataDone(s, flushed) /\ flushed.packageUids = s.packageUids
      /\ flushed.dailyExpiryDate_ = s.dailyExpiryDate_
    <2>1. Shape(s) /\ flushed = FlushDataInMem(s) /\ s.dailyExpiryDate_ - 1 \in Int
        BY DEF Covered, Stored, flushed
    <2>2. FlushDataDone(s, flushed)
        BY <2>1, FlushDataFields
    <2>3. /\ Shape(flushed) /\ flushed.packageUids = s.packageUids /\ flushed.database_ = s.database_
          /\ flushed.dailyExpiryDate_ = s.dailyExpiryDate_
          /\ \A i \in Interval : flushed.currentStats_[i] =
                SettlePeriod(s.currentStats_[i], s.dailyExpiryDate_ - 1)
        BY <2>2 DEF FlushDataDone
    <2>4. \A i \in Interval : s.currentStats_[i] \in PeriodType
        BY DEF Covered, Stored
    <2>5. \A i \in Interval : Grown(s.currentStats_[i], flushed.currentStats_[i])
        BY <2>1, <2>3, <2>4, SettleGrown
    <2>6. flushed.packageUids \subseteq Uid
        BY <2>3 DEF Covered, Stored
    <2>7. Covered(flushed)
        BY <2>3, <2>5, <2>6, GrownCovered
    <2> QED BY <2>2, <2>3, <2>7
<1>2. /\ Covered(saved) /\ saved.dailyExpiryDate_ = s.dailyExpiryDate_
      /\ saved.packageUids = s.packageUids /\ saved = RestoreStats(flushed, TRUE)
    <2>1. Covered(saved)
        BY <1>1, RestoreCovered DEF saved
    <2>2. Shape(flushed) /\ saved = RestoreStats(flushed, TRUE)
        BY <1>1 DEF Covered, Stored, saved
    <2>3. RestoreDone(flushed, saved)
        BY <2>2, RestoreFields
    <2> QED BY <1>1, <2>1, <2>2, <2>3 DEF RestoreDone
<1>3. /\ Covered(cleaned) /\ cleaned.dailyExpiryDate_ = s.dailyExpiryDate_
      /\ cleaned.packageUids = s.packageUids /\ CleanedDone(saved, ts, cleaned)
    <2>1. Covered(cleaned)
        BY <1>2, CleanedCovered DEF cleaned
    <2>2. Shape(saved) /\ cleaned = Cleaned(saved, ts)
        BY <1>2 DEF Covered, Stored, cleaned
    <2>3. CleanedDone(saved, ts, cleaned)
        BY <2>2, CleanedFields
    <2> QED BY <1>2, <2>1, <2>3 DEF CleanedDone
<1>4. Covered(loaded) /\ LoadDone(cleaned, ts, FALSE, FALSE, loaded)
    <2>1. Covered(loaded)
        BY <1>3, LoadNextCovered DEF loaded
    <2>2. Shape(cleaned) /\ loaded = LoadActiveStats(cleaned, ts, FALSE, FALSE)
        BY <1>3 DEF Covered, Stored, loaded
    <2>3. LoadDone(cleaned, ts, FALSE, FALSE, loaded)
        BY <2>2, LoadFields
    <2> QED BY <2>1, <2>3
<1>5. Covered(continued) /\ ContinueDone(loaded, flushed, continued)
    <2>1. Shape(loaded) /\ continued = UpdateContinueMemory(loaded, flushed)
        BY <1>4 DEF Covered, Stored, continued
    <2>2. ContinueDone(loaded, flushed, continued)
        BY <2>1, ContinueFields
    <2>3. /\ Shape(continued) /\ continued.packageUids = loaded.packageUids
          /\ continued.database_ = loaded.database_
          /\ continued.dailyExpiryDate_ = loaded.dailyExpiryDate_
          /\ \A i \in Interval : continued.currentStats_[i] =
                Continued(loaded.currentStats_[i], loaded, flushed)
        BY <2>2 DEF ContinueDone
    <2>4. /\ loaded.packageUids \subseteq Uid
          /\ \A i \in Interval : loaded.currentStats_[i] \in PeriodType
          /\ \A i \in Interval : flushed.currentStats_[i] \in PeriodType
        BY <1>1, <1>4 DEF Covered, Stored
    <2>5. loaded.currentStats_[PERIOD_DAILY].beginTime_ \in Int
        BY <2>4, Intervals DEF PeriodType
    <2>6. \A i \in Interval : Grown(loaded.currentStats_[i], continued.currentStats_[i])
        <3> TAKE i \in Interval
        <3>1. Carried(loaded.currentStats_[i], Continued(loaded.currentStats_[i], loaded, flushed),
                      loaded.currentStats_[PERIOD_DAILY].beginTime_)
            BY <2>4, <2>5, ContinuedCarried
        <3> QED BY <2>3, <3>1 DEF Carried
    <2>7. continued.packageUids \subseteq Uid
        BY <2>3, <2>4
    <2>8. Covered(continued)
        BY <1>4, <2>3, <2>6, <2>7, GrownCovered
    <2> QED BY <2>2, <2>8
<1>6. /\ Covered(r) /\ r = RestoreStats(continued, TRUE)
      /\ r.currentStats_ = continued.currentStats_ /\ r.packageUids = continued.packageUids
    <2>1. Covered(r)
        BY <1>5, RestoreCovered DEF r
    <2>2. Shape(continued) /\ r = RestoreStats(continued, TRUE)
        BY <1>5 DEF Covered, Stored, r
    <2>3. RestoreDone(continued, r)
        BY <2>2, RestoreFields
    <2> QED BY <2>1, <2>2, <2>3 DEF RestoreDone
<1>7. RenewDone(s, ts, r)
    BY <1>1, <1>2, <1>3, <1>4, <1>5, <1>6 DEF RenewDone
<1> QED BY <1>0, <1>6, <1>7

\* A day that may have ended.
LEMMA RenewCovered ==
    ASSUME NEW s, Covered(s), NEW ts \in Int PROVE Covered(RenewIfExpired(s, ts))
<1>1. s.dailyExpiryDate_ \in Int
    BY DEF Covered
<1>2. ts >= s.dailyExpiryDate_ => s.dailyExpiryDate_ <= ts
    BY <1>1
<1> QED BY <1>2, RenewStatsCovered DEF RenewIfExpired

\* A report.
LEMMA ReportCovered ==
    ASSUME NEW s, Covered(s), NEW e, EventOK(e) PROVE Covered(ReportEvent(s, e))
<1> DEFINE q == RenewIfExpired(s, e.timeStamp)
           r == ReportEvent(s, e)
<1>1. Covered(q)
    BY RenewCovered DEF EventOK
<1> HIDE DEF q, r
<1>2. Shape(q) /\ q = RenewIfExpired(s, e.timeStamp) /\ r = ReportEvent(s, e)
    BY <1>1 DEF Covered, Stored, q, r
<1>3. ReportDone(q, e, r)
    BY <1>2, ReportFields
<1>4. /\ Shape(r) /\ r.packageUids = q.packageUids \cup {e.uid} /\ r.database_ = q.database_
      /\ r.dailyExpiryDate_ = q.dailyExpiryDate_
      /\ \A i \in Interval : r.currentStats_[i] = Reported(q.currentStats_[i], e, Launches(q, e))
    BY <1>3 DEF ReportDone
<1>5. \A i \in Interval : Grown(q.currentStats_[i], r.currentStats_[i])
    <2>1. Launches(q, e) \in BOOLEAN
        BY DEF Launches
    <2>2. \A i \in Interval : q.currentStats_[i] \in PeriodType
        BY <1>1 DEF Covered, Stored
    <2> QED BY <1>4, <2>1, <2>2, ReportGrown
<1>6. r.packageUids \subseteq Uid
    BY <1>1, <1>4 DEF Covered, Stored, EventOK
<1>7. Covered(r)
    BY <1>1, <1>4, <1>5, <1>6, GrownCovered
<1> QED BY <1>7 DEF r

\* A flush.
LEMMA FlushCovered ==
    ASSUME NEW s, Covered(s), NEW ts \in Int PROVE Covered(ReportFlush(s, ts))
<1> DEFINE q == RenewIfExpired(s, ts)
           r == ReportFlush(s, ts)
<1>1. Covered(q)
    BY RenewCovered
<1> HIDE DEF q, r
<1>2. Shape(q) /\ q = RenewIfExpired(s, ts) /\ r = ReportFlush(s, ts)
    BY <1>1 DEF Covered, Stored, q, r
<1>3. FlushDone(q, ts, r)
    BY <1>2, FlushFields
<1>4. /\ Shape(r) /\ r.packageUids = q.packageUids /\ r.database_ = q.database_
      /\ r.dailyExpiryDate_ = q.dailyExpiryDate_
      /\ \A i \in Interval : r.currentStats_[i] = SettlePeriod(q.currentStats_[i], ts)
    BY <1>3 DEF FlushDone
<1>5. q.packageUids \subseteq Uid /\ \A i \in Interval : q.currentStats_[i] \in PeriodType
    BY <1>1 DEF Covered, Stored
<1>6. \A i \in Interval : Grown(q.currentStats_[i], r.currentStats_[i])
    BY <1>4, <1>5, SettleGrown
<1>7. Covered(r)
    BY <1>1, <1>4, <1>5, <1>6, GrownCovered
<1> QED BY <1>7 DEF r

\* A shutdown.
LEMMA ShutdownCovered ==
    ASSUME NEW s, Covered(s), NEW ts \in Int PROVE Covered(RestoreStats(ReportForShutdown(s, ts), TRUE))
<1> DEFINE q == ReportFlush(s, ts)
           p == ReportForShutdown(s, ts)
<1>1. Covered(q)
    BY FlushCovered
<1> HIDE DEF q, p
<1>2. Shape(q) /\ q = ReportFlush(s, ts) /\ p = ReportForShutdown(s, ts)
    BY <1>1 DEF Covered, Stored, q, p
<1>3. ShutdownDone(q, p)
    BY <1>2, ShutdownFields
<1>4. /\ Shape(p) /\ p.packageUids = q.packageUids /\ p.database_ = q.database_
      /\ p.dailyExpiryDate_ = q.dailyExpiryDate_ /\ p.currentStats_ = q.currentStats_
    BY <1>3 DEF ShutdownDone
<1>5. Covered(p)
    BY <1>1, <1>4 DEF Covered, Stored
<1>6. Covered(RestoreStats(p, TRUE))
    BY <1>5, RestoreCovered
<1> QED BY <1>6 DEF p

\* An uninstall takes away the rows of what it takes out of memory.
LEMMA DeleteCovered ==
    ASSUME NEW s, Covered(s), NEW u \in Uid PROVE Covered(DeleteUninstalledBundleStats(s, u))
<1> DEFINE r == DeleteUninstalledBundleStats(s, u)
           gone == InMemory(s, u)
           removed == RemovedUids(u)
<1> HIDE DEF r
<1>1. Shape(s) /\ r = DeleteUninstalledBundleStats(s, u)
    BY DEF Covered, Stored, r
<1>2. DeleteDone(s, u, r)
    BY <1>1, DeleteFields
<1>3. /\ Shape(r) /\ r.packageUids = s.packageUids \ gone
      /\ r.database_ = OnPackageUninstalled(s.database_, removed)
      /\ r.dailyExpiryDate_ = s.dailyExpiryDate_
      /\ \A i \in Interval : r.currentStats_[i] = DeleteMemUsageStats(s.currentStats_[i], gone)
    BY <1>2 DEF DeleteDone
<1>4. gone \subseteq removed
    BY DEF InMemory, RemovedUids
<1> HIDE DEF gone, removed
<1>5. ASSUME NEW i \in Interval
      PROVE  /\ r.currentStats_[i] \in PeriodType
             /\ TablesOK(i, r.database_.packageTable[i])
             /\ CoveredFor(i, r.currentStats_[i], r.database_.packageTable[i], s.dailyExpiryDate_)
    <2> DEFINE a == s.currentStats_[i]
               b == r.currentStats_[i]
               old == s.database_.packageTable[i]
               new == r.database_.packageTable[i]
               D == DOMAIN a.bundleStats_ \ gone
               m == [v \in D |-> a.bundleStats_[v]]
    <2>1. a \in PeriodType /\ TablesOK(i, old) /\ CoveredFor(i, a, old, s.dailyExpiryDate_)
        BY DEF Covered, Stored
    <2>2. b = [a EXCEPT !.bundleStats_ = m]
        BY <1>3 DEF DeleteMemUsageStats, Restrict
    <2>3. new = [t \in DOMAIN old |-> Restrict(old[t], DOMAIN old[t] \ removed)]
        BY <1>3 DEF OnPackageUninstalled
    <2> HIDE DEF a, b, old, new
    <2>4. DOMAIN a.bundleStats_ \subseteq Uid
          /\ \A v \in DOMAIN a.bundleStats_ : a.bundleStats_[v] \in PackageStatsType
        BY <2>1, KeptIs DEF PeriodType
    <2>5. m \in [D -> PackageStatsType] /\ D \in SUBSET Uid
        BY <2>4
    <2>6. m \in Kept(PackageStatsType) /\ DOMAIN m = D
        BY <2>5, IsKept
    <2>7. b \in PeriodType /\ b.beginTime_ = a.beginTime_ /\ b.bundleStats_ = m
        BY <2>1, <2>2, <2>6 DEF PeriodType
    <2>8. \A t \in DOMAIN old : /\ DOMAIN old[t] \subseteq Uid
                                /\ \A v \in DOMAIN old[t] : old[t][v] \in RowType
        BY <2>1, KeptIs DEF TablesOK
    <2>9. \A t \in DOMAIN old : Restrict(old[t], DOMAIN old[t] \ removed) \in Kept(RowType)
        <3> TAKE t \in DOMAIN old
        <3> DEFINE E == DOMAIN old[t] \ removed
                   n == [v \in E |-> old[t][v]]
        <3>1. n \in [E -> RowType] /\ E \in SUBSET Uid
            BY <2>8
        <3>2. n \in Kept(RowType)
            BY <3>1, IsKept
        <3> QED BY <3>2 DEF Restrict
    <2>10. TablesOK(i, new) /\ DOMAIN new = DOMAIN old
        <3>1. \A t \in DOMAIN new : Aligned(i, t) /\ new[t] \in Kept(RowType)
            BY <2>1, <2>3, <2>9 DEF TablesOK
        <3> QED BY <2>3, <3>1 DEF TablesOK
    <2>11. ASSUME Covers(a, old) PROVE Covers(b, new)
        <3> SUFFICES ASSUME a.beginTime_ \in DOMAIN new, NEW v \in DOMAIN new[a.beginTime_]
                     PROVE  /\ v \in D
                            /\ new[a.beginTime_][v].totalTime <= m[v].totalInFrontTime_
            BY <2>6, <2>7 DEF Covers
        <3>1. /\ v \in DOMAIN old[a.beginTime_] \ removed
              /\ new[a.beginTime_][v] = old[a.beginTime_][v]
            BY <2>3, <2>10 DEF Restrict
        <3>2. /\ v \in DOMAIN a.bundleStats_
              /\ old[a.beginTime_][v].totalTime <= a.bundleStats_[v].totalInFrontTime_
            BY <2>10, <2>11, <3>1 DEF Covers
        <3>3. v \in D
            BY <1>4, <3>1, <3>2
        <3> QED BY <3>1, <3>2, <3>3
    <2> HIDE DEF m, D
    <2>12. CoveredFor(i, b, new, s.dailyExpiryDate_)
        BY <2>1, <2>7, <2>10, <2>11 DEF CoveredFor
    <2> QED BY <2>7, <2>10, <2>12 DEF b, new
<1>6. Covered(r)
    BY <1>3, <1>5 DEF Covered, Stored
<1> QED BY <1>6 DEF r

-----------------------------------------------------------------------------
(* Memory is ahead of the tables                                           *)

\* While the clock is not set, a service that is up covers its tables; one that is down
\* left tables the next one can read.
CoverOK ==
    /\ Stored(svc)
    /\ svc.up => Covered(svc)
    /\ flush \in [pc : {"idle", "report", "restore"}, timeStamp : Int]

\* The inductive invariant.
CoverInv == EventsInv /\ (jumps = 0 => CoverOK)

\* A process that is not running has tables only.
LEMMA DownStored ==
    ASSUME NEW db, db = [f \in {"packageTable", "eventTable"} |-> db[f]],
           \A i \in Interval : TablesOK(i, db.packageTable[i]),
           NEW r, r = NoService(db)
    PROVE  Stored(r) /\ r.up = FALSE
<1>1. /\ Shape(r) /\ r.up = FALSE /\ r.packageUids = {} /\ r.database_ = db
      /\ r.currentStats_ = [i \in Interval |-> [beginTime_ |-> 0, bundleStats_ |-> <<>>]]
    BY NoServiceFields
<1>2. ASSUME NEW i \in Interval PROVE r.currentStats_[i] \in PeriodType
    <2>1. r.currentStats_[i] = [beginTime_ |-> 0, bundleStats_ |-> <<>>]
        BY <1>1
    <2> QED BY <2>1, NoneKept DEF PeriodType
<1> QED BY <1>1, <1>2 DEF Stored

\* The tables are empty at the start.
LEMMA CoverInit == Init => CoverInv
<1> SUFFICES ASSUME Init PROVE CoverOK
    BY EventsInit DEF CoverInv
<1>1. svc = NoService(EmptyDatabase) /\ flush = [pc |-> "idle", timeStamp |-> 0]
    BY DEF Init, Idle
<1>2. EmptyDatabase = [f \in {"packageTable", "eventTable"} |-> EmptyDatabase[f]]
    BY DEF EmptyDatabase
<1>3. ASSUME NEW i \in Interval PROVE TablesOK(i, EmptyDatabase.packageTable[i])
    <2>1. EmptyDatabase.packageTable[i] = <<>>
        BY DEF EmptyDatabase
    <2>2. <<>> = [t \in DOMAIN <<>> |-> <<>>[t]] /\ DOMAIN <<>> = {}
        OBVIOUS
    <2> QED BY <2>1, <2>2 DEF TablesOK
<1>4. Stored(svc) /\ svc.up = FALSE
    BY <1>1, <1>2, <1>3, DownStored
<1> QED BY <1>1, <1>4 DEF CoverOK

\* A handler that has looked at the clock has a service that covers its tables.
LEMMA CheckedCovered ==
    ASSUME ClocksOK, jumps = 0, CoverOK
    PROVE  Covered(GetUserData(CheckTimeChange(svc)))
<1>1. offset = shot /\ SystemTime \in Nat
    BY DEF ClocksOK, SystemTime
<1>2. CheckTimeChange(svc) = svc
    BY <1>1 DEF CheckTimeChange
<1>3. CASE svc.up
    BY <1>2, <1>3 DEF GetUserData, CoverOK
<1>4. CASE ~svc.up
    <2>1. Covered(InitService(svc, SystemTime))
        BY <1>1, InitCovered DEF CoverOK
    <2> QED BY <1>2, <1>4, <2>1 DEF GetUserData
<1> QED BY <1>3, <1>4

\* A step that leaves the service up and covered, and the flush where it was.
LEMMA CoveredStep ==
    ASSUME CoverOK, Covered(svc'), flush' = flush PROVE CoverOK'
<1>1. Stored(svc')
    BY DEF Covered
<1> QED BY <1>1 DEF CoverOK, Covered, Stored, Shape, CoveredFor

\* A report.
LEMMA ReportCovers ==
    ASSUME ClocksOK, jumps = 0, CoverOK, NEW e, EventOK(e), Report(e) PROVE CoverOK'
<1> DEFINE q == GetUserData(CheckTimeChange(svc))
<1>1. Covered(q)
    BY CheckedCovered
<1>2. svc' = ReportEvent(q, e) /\ flush' = flush
    BY Zenon DEF Report
<1> HIDE DEF q
<1>3. Covered(ReportEvent(q, e))
    BY <1>1, ReportCovered
<1> QED BY <1>2, <1>3, CoveredStep

\* An uninstall.
LEMMA UninstallCovers ==
    ASSUME ClocksOK, jumps = 0, CoverOK, NEW u \in Uid, Uninstall(u) PROVE CoverOK'
<1> DEFINE q == GetUserData(CheckTimeChange(svc))
<1>1. Covered(q)
    BY CheckedCovered
<1>2. svc' = DeleteUninstalledBundleStats(q, u) /\ flush' = flush
    BY Zenon DEF Uninstall
<1> HIDE DEF q
<1>3. Covered(DeleteUninstalledBundleStats(q, u))
    BY <1>1, DeleteCovered
<1> QED BY <1>2, <1>3, CoveredStep

\* The three parts of a flush, with the time the first of them read.
LEMMA FlushCovers ==
    ASSUME ClocksOK, EventsOK, CoverOK, FlushBegin \/ FlushReport \/ FlushRestore PROVE CoverOK'
<1>1. flush \in [pc : {"idle", "report", "restore"}, timeStamp : Int] /\ SystemTime \in Int
    BY DEF CoverOK, ClocksOK, SystemTime
<1>2. flush.pc # "idle" => svc.up
    BY DEF EventsOK
<1>3. flush' \in [pc : {"idle", "report", "restore"}, timeStamp : Int]
    <2>1. CASE FlushBegin
        <3>1. flush' = [pc |-> "report", timeStamp |-> SystemTime]
            BY <2>1 DEF FlushBegin
        <3> QED BY <1>1, <3>1
    <2>2. CASE FlushReport
        <3>1. flush' = [flush EXCEPT !.pc = "restore"]
            BY <2>2 DEF FlushReport
        <3> QED BY <1>1, <3>1
    <2>3. CASE FlushRestore
        BY <2>3 DEF FlushRestore, Idle
    <2> QED BY <2>1, <2>2, <2>3
<1>4. Covered(svc')
    <2>1. CASE FlushBegin
        BY <2>1 DEF FlushBegin, CoverOK
    <2>2. CASE FlushReport
        <3>1. svc.up /\ svc' = ReportFlush(svc, flush.timeStamp) /\ flush.timeStamp \in Int
            BY <1>1, <1>2, <2>2 DEF FlushReport
        <3>2. Covered(ReportFlush(svc, flush.timeStamp))
            BY <3>1, FlushCovered DEF CoverOK
        <3> QED BY <3>1, <3>2
    <2>3. CASE FlushRestore
        <3>1. svc.up /\ svc' = RestoreStats(svc, FALSE)
            BY <1>2, <2>3 DEF FlushRestore
        <3>2. Covered(RestoreStats(svc, FALSE))
            BY <3>1, RestoreCovered DEF CoverOK
        <3> QED BY <3>1, <3>2
    <2> QED BY <2>1, <2>2, <2>3
<1>5. Stored(svc')
    BY <1>4 DEF Covered
<1> QED BY <1>3, <1>4, <1>5 DEF CoverOK, Covered, Stored, Shape, CoveredFor

\* A query.
LEMMA QueryCovers == ASSUME ClocksOK, jumps = 0, CoverOK, Query PROVE CoverOK'
<1>1. Covered(GetUserData(CheckTimeChange(svc)))
    BY CheckedCovered
<1>2. svc' = GetUserData(CheckTimeChange(svc)) /\ flush' = flush
    BY Zenon DEF Query
<1> QED BY <1>1, <1>2, CoveredStep

\* A shutdown.
LEMMA ShutDownCovers == ASSUME ClocksOK, CoverOK, ShutDown PROVE CoverOK'
<1>1. svc.up /\ SystemTime \in Int
    BY DEF ShutDown, ClocksOK, SystemTime
<1>2. svc' = RestoreStats(ReportForShutdown(svc, SystemTime), TRUE) /\ flush' = flush
    BY Zenon DEF ShutDown
<1>3. Covered(RestoreStats(ReportForShutdown(svc, SystemTime), TRUE))
    BY <1>1, ShutdownCovered DEF CoverOK
<1> QED BY <1>2, <1>3, CoveredStep

\* The process dies: its tables stay.
LEMMA CrashCovers == ASSUME CoverOK, Crash PROVE CoverOK'
<1> DEFINE db == svc.database_
           r == NoService(db)
<1>1. svc' = r /\ flush' = [pc |-> "idle", timeStamp |-> 0]
    BY DEF Crash, Idle
<1>2. /\ db = [f \in {"packageTable", "eventTable"} |-> db[f]]
      /\ \A i \in Interval : TablesOK(i, db.packageTable[i])
    BY DEF CoverOK, Stored, Shape
<1> HIDE DEF db
<1>3. Stored(r) /\ r.up = FALSE
    BY <1>2, DownStored
<1> HIDE DEF r
<1> QED BY <1>1, <1>3 DEF CoverOK, Stored, Shape

\* A step that leaves the service and the flush as they are.
LEMMA SameCovers == ASSUME CoverOK, svc' = svc, flush' = flush PROVE CoverOK'
BY DEF CoverOK, Covered, Stored, Shape, CoveredFor

\* A full folder loses events, not tables.
LEMMA SizeCovers ==
    ASSUME CoverOK, NEW days, NEW begin, ProcessDataSize(days, begin) PROVE CoverOK'
<1>1. /\ Shape(svc') /\ svc.up /\ svc'.packageUids = svc.packageUids
      /\ svc'.currentStats_ = svc.currentStats_ /\ svc'.dailyExpiryDate_ = svc.dailyExpiryDate_
      /\ svc'.database_.packageTable = svc.database_.packageTable /\ flush' = flush
    BY SizeFields DEF CoverOK, Stored
<1>2. Covered(svc')
    BY <1>1 DEF CoverOK, Covered, Stored
<1> QED BY <1>1, <1>2, CoveredStep

\* Every step keeps memory ahead of the tables.
LEMMA CoverStep == CoverInv /\ [Next]_vars => CoverInv'
<1> SUFFICES ASSUME CoverInv, [Next]_vars, jumps' = 0 PROVE CoverOK'
    BY EventsStep DEF CoverInv
<1>1. /\ ClocksOK /\ jumps \in Nat /\ scenario \in Scenario
      /\ scenario.uids \subseteq Uid /\ scenario.tasks \subseteq Task
    BY ScenarioIs DEF CoverInv, EventsInv, ClocksOK
<1>2. jumps' \in {jumps, jumps + 1}
    BY StepClocks DEF SameClocks
<1>3. jumps = 0
    BY <1>1, <1>2
<1>4. CoverOK /\ EventsOK /\ SystemTime \in Int
    BY <1>1, <1>3 DEF CoverInv, EventsInv, Accountable, ClockWasSet, ClocksOK, SystemTime
<1>5. ASSUME NEW u \in scenario.uids, NEW id \in AbilityEventId, NEW a \in Ability, AbilityEvent(u, id, a)
      PROVE  CoverOK'
    <2> DEFINE e == [id |-> reports + 1, eventId |-> id, uid |-> u, ability |-> a,
                     timeStamp |-> SystemTime]
    <2>1. Report(e) /\ EventOK(e)
        BY <1>1, <1>4, <1>5 DEF AbilityEvent, EventOK
    <2> QED BY <1>1, <1>3, <1>4, <2>1, ReportCovers
<1>6. ASSUME NEW u \in scenario.uids, NEW id \in TaskEventId, NEW t \in scenario.tasks, TaskEvent(u, id, t)
      PROVE  CoverOK'
    <2> DEFINE e == [id |-> reports + 1, eventId |-> id, uid |-> u, task |-> t,
                     timeStamp |-> SystemTime]
    <2>1. Report(e) /\ EventOK(e)
        BY <1>1, <1>4, <1>6 DEF TaskEvent, EventOK
    <2> QED BY <1>1, <1>3, <1>4, <2>1, ReportCovers
<1>7. CASE \E u \in scenario.uids : Uninstall(u)
    BY <1>1, <1>3, <1>4, <1>7, UninstallCovers
<1>8. CASE FlushBegin \/ FlushReport \/ FlushRestore
    BY <1>1, <1>4, <1>8, FlushCovers
<1>9. CASE Query
    BY <1>1, <1>3, <1>4, <1>9, QueryCovers
<1>10. CASE ShutDown
    BY <1>1, <1>4, <1>10, ShutDownCovers
<1>11. CASE Tick
    <2>1. svc' = svc /\ flush' = flush
        BY <1>11 DEF Tick
    <2> QED BY <1>4, <2>1, SameCovers
<1>12. CASE \E d \in ClockJump : SetClock(d)
    <2>1. jumps' = jumps + 1
        BY <1>12 DEF SetClock
    <2> QED BY <1>3, <2>1
<1>13. CASE Crash
    BY <1>4, <1>13, CrashCovers
<1>14. CASE UNCHANGED vars
    <2>1. svc' = svc /\ flush' = flush
        BY <1>14 DEF vars
    <2> QED BY <1>4, <2>1, SameCovers
<1>15. CASE \E days \in 0..MAX_DELETE_EVENT_DALIYS,
               begin \in DOMAIN svc.database_.packageTable[PERIOD_DAILY] :
                 ProcessDataSize(days, begin)
    BY <1>4, <1>15, SizeCovers
<1> QED BY <1>5, <1>6, <1>7, <1>8, <1>9, <1>10, <1>11, <1>12, <1>13, <1>14, <1>15 DEF Next

\* What memory holds of a running period is never behind the row of the same period in
\* the tables, which the next save overwrites: not after a roll over in the middle of a
\* flush, not after a crash and not after an uninstall.
THEOREM MemoryCoversTables == Spec => []MemoryCoversTable
<1>1. CoverInv => MemoryCoversTable
    <2> SUFFICES ASSUME CoverInv, svc.up, ~ClockWasSet, NEW i \in Interval, PeriodLength[i] >= Span[i]
                 PROVE  Covers(svc.currentStats_[i], svc.database_.packageTable[i])
        BY DEF MemoryCoversTable
    <2>1. jumps = 0
        BY DEF CoverInv, EventsInv, ClocksOK, ClockWasSet
    <2>2. Covered(svc)
        BY <2>1 DEF CoverInv, CoverOK
    <2> QED BY <2>2 DEF Covered, CoveredFor
<1> QED BY CoverInit, CoverStep, <1>1, PTL DEF Spec

-----------------------------------------------------------------------------
(* What is in front is tracked                                             *)

\* Every period has in front what is in front of the first uid of a bundle, and an
\* instance of which something is in front is known.
TrackedIn(s, fr) ==
    \A u \in FirstUid :
        /\ \A i \in Interval, a \in fr[u] : InFront(s.currentStats_[i], u, a)
        /\ fr[u] # {} => u \in s.packageUids

\* What is in front, by uid.
Fronts == [Uid -> SUBSET Ability]

\* A step that keeps the periods and the known instances keeps track.
LEMMA SameTracked ==
    ASSUME NEW s, NEW fr, TrackedIn(s, fr), NEW r,
           r.currentStats_ = s.currentStats_, r.packageUids = s.packageUids
    PROVE  TrackedIn(r, fr)
BY DEF TrackedIn

\* A save keeps track.
LEMMA RestoreTracked ==
    ASSUME NEW s, Covered(s), NEW fr, TrackedIn(s, fr), NEW forced \in BOOLEAN
    PROVE  TrackedIn(RestoreStats(s, forced), fr)
<1> DEFINE r == RestoreStats(s, forced)
<1>1. CASE s.statsChanged_ \/ forced
    <2>1. Shape(s) /\ r = RestoreStats(s, forced)
        BY DEF Covered, Stored
    <2> HIDE DEF r
    <2>2. RestoreDone(s, r)
        BY <1>1, <2>1, RestoreFields
    <2>3. TrackedIn(r, fr)
        BY <2>2, SameTracked DEF RestoreDone
    <2> QED BY <2>3 DEF r
<1>2. CASE ~s.statsChanged_ /\ forced = FALSE
    <2>1. r = s
        BY <1>2, RestoreSkips
    <2> QED BY <2>1
<1> QED BY <1>1, <1>2

\* Periods that are settled keep track.
LEMMA SettleTracked ==
    ASSUME NEW s, \A i \in Interval : s.currentStats_[i] \in PeriodType, NEW fr, TrackedIn(s, fr),
           NEW ts \in Int, NEW r, r.packageUids = s.packageUids,
           \A i \in Interval : r.currentStats_[i] = SettlePeriod(s.currentStats_[i], ts)
    PROVE  TrackedIn(r, fr)
<1>1. ASSUME NEW u \in FirstUid, NEW i \in Interval, NEW a \in fr[u]
      PROVE  InFront(r.currentStats_[i], u, a)
    <2>1. InFront(s.currentStats_[i], u, a) /\ s.currentStats_[i] \in PeriodType
        BY DEF TrackedIn
    <2>2. InFront(SettlePeriod(s.currentStats_[i], ts), u, a)
        BY <2>1, SettleInFront
    <2> QED BY <2>2
<1> QED BY <1>1 DEF TrackedIn

\* The end of a day keeps track of the first uid of each bundle: the new periods know of
\* what the old ones had in front.
LEMMA RenewStatsTracked ==
    ASSUME NEW s, Covered(s), NEW fr \in Fronts, TrackedIn(s, fr), NEW ts, NEW r, RenewDone(s, ts, r)
    PROVE  TrackedIn(r, fr)
<1>0. PICK flushed, saved, cleaned, loaded, continued :
        /\ Covered(flushed) /\ Covered(loaded) /\ FlushDataDone(s, flushed)
        /\ saved.packageUids = s.packageUids /\ CleanedDone(saved, ts, cleaned)
        /\ LoadDone(cleaned, ts, FALSE, FALSE, loaded) /\ ContinueDone(loaded, flushed, continued)
        /\ r.currentStats_ = continued.currentStats_ /\ r.packageUids = continued.packageUids
    BY Zenon DEF RenewDone
<1>1. /\ Covered(flushed) /\ Covered(loaded) /\ FlushDataDone(s, flushed)
      /\ s.packageUids \subseteq r.packageUids /\ r.packageUids = loaded.packageUids
      /\ \A i \in Interval : r.currentStats_[i] = Continued(loaded.currentStats_[i], loaded, flushed)
    <2>1. cleaned.packageUids = s.packageUids
        BY <1>0 DEF CleanedDone
    <2>2. s.packageUids \subseteq loaded.packageUids
        BY <1>0, <2>1 DEF LoadDone
    <2>3. /\ continued.packageUids = loaded.packageUids
          /\ \A i \in Interval : continued.currentStats_[i] = Continued(loaded.currentStats_[i], loaded, flushed)
        BY <1>0 DEF ContinueDone
    <2> QED BY <1>0, <2>2, <2>3
<1>2. /\ \A i \in Interval : s.currentStats_[i] \in PeriodType
      /\ \A i \in Interval : flushed.currentStats_[i] \in PeriodType
      /\ \A i \in Interval : loaded.currentStats_[i] \in PeriodType
      /\ loaded.packageUids \subseteq Uid /\ s.dailyExpiryDate_ - 1 \in Int
    BY <1>1 DEF Covered, Stored
<1>3. loaded.currentStats_[PERIOD_DAILY].beginTime_ \in Int
    BY <1>2, Intervals DEF PeriodType
<1>4. /\ flushed.packageUids = s.packageUids
      /\ \A i \in Interval : flushed.currentStats_[i] =
            SettlePeriod(s.currentStats_[i], s.dailyExpiryDate_ - 1)
    BY <1>1 DEF FlushDataDone
<1>5. TrackedIn(flushed, fr)
    BY <1>2, <1>4, SettleTracked
<1>6. ASSUME NEW u \in FirstUid, NEW i \in Interval, NEW a \in fr[u]
      PROVE  InFront(r.currentStats_[i], u, a)
    <2>1. u \in FirstUid \cap loaded.packageUids /\ a \in Ability
        BY <1>1 DEF TrackedIn, Fronts, FirstUid
    <2>2. \A j \in Interval : InFront(flushed.currentStats_[j], u, a)
        BY <1>5 DEF TrackedIn
    <2>3. InFront(Continued(loaded.currentStats_[i], loaded, flushed), u, a)
        BY <1>2, <1>3, <2>1, <2>2, ContinuedCarried
    <2> QED BY <1>1, <2>3
<1>7. \A u \in FirstUid : fr[u] # {} => u \in r.packageUids
    BY <1>1 DEF TrackedIn
<1> QED BY <1>6, <1>7 DEF TrackedIn

\* A day that may have ended.
LEMMA RenewTracked ==
    ASSUME NEW s, Covered(s), NEW ts \in Int, NEW fr \in Fronts, TrackedIn(s, fr)
    PROVE  TrackedIn(RenewIfExpired(s, ts), fr)
<1>1. s.dailyExpiryDate_ \in Int
    BY DEF Covered
<1>2. CASE ts >= s.dailyExpiryDate_
    <2>1. s.dailyExpiryDate_ <= ts
        BY <1>1, <1>2
    <2>2. RenewDone(s, ts, RenewStatsInMemory(s, ts))
        BY <2>1, RenewStatsCovered
    <2>3. TrackedIn(RenewStatsInMemory(s, ts), fr)
        BY <2>2, RenewStatsTracked
    <2> QED BY <1>2, <2>3 DEF RenewIfExpired
<1>3. CASE ~(ts >= s.dailyExpiryDate_)
    BY <1>3 DEF RenewIfExpired
<1> QED BY <1>2, <1>3

\* An event is about an ability or about a task.
LEMMA AbilityOrTask == \A id : ~(id \in AbilityEventId /\ id \in TaskEventId)
BY DEF AbilityEventId, TaskEventId, FOREGROUND, BACKGROUND, STOP, TASK_STARTED, TASK_ENDED

\* What is in front after an event.
FrontAfter(fr, e) ==
    IF e.eventId \in AbilityEventId
    THEN [fr EXCEPT ![e.uid] = IF e.eventId = FOREGROUND THEN @ \cup {e.ability} ELSE @ \ {e.ability}]
    ELSE fr

\* A report keeps track of what comes to front and of what leaves it.
LEMMA ReportTracked ==
    ASSUME NEW s, Covered(s), NEW e, EventOK(e), NEW fr \in Fronts, TrackedIn(s, fr)
    PROVE  TrackedIn(ReportEvent(s, e), FrontAfter(fr, e))
<1> DEFINE q == RenewIfExpired(s, e.timeStamp)
           r == ReportEvent(s, e)
           new == FrontAfter(fr, e)
<1>1. Covered(q) /\ TrackedIn(q, fr)
    BY RenewCovered, RenewTracked DEF EventOK
<1> HIDE DEF q, r
<1>2. Shape(q) /\ q = RenewIfExpired(s, e.timeStamp) /\ r = ReportEvent(s, e)
    BY <1>1 DEF Covered, Stored, q, r
<1>3. ReportDone(q, e, r)
    BY <1>2, ReportFields
<1>4. /\ r.packageUids = q.packageUids \cup {e.uid}
      /\ \A i \in Interval : r.currentStats_[i] = Reported(q.currentStats_[i], e, Launches(q, e))
    BY <1>3 DEF ReportDone
<1>5. Launches(q, e) \in BOOLEAN /\ \A i \in Interval : q.currentStats_[i] \in PeriodType
    BY <1>1 DEF Launches, Covered, Stored
<1>6. e.uid \in Uid
    BY DEF EventOK
<1>7. ASSUME NEW u \in FirstUid, NEW a \in new[u]
      PROVE  /\ a \in Ability
             /\ Tells(e, u, a) => e.eventId = FOREGROUND
             /\ ~Tells(e, u, a) => a \in fr[u]
             /\ u = e.uid \/ a \in fr[u]
    <2>1. CASE e.eventId \in AbilityEventId
        <3>1. e.ability \in Ability /\ u \in Uid
            BY <2>1, AbilityOrTask DEF EventOK, FirstUid
        <3>2. CASE u = e.uid
            <4>1. new[u] = IF e.eventId = FOREGROUND THEN fr[u] \cup {e.ability} ELSE fr[u] \ {e.ability}
                BY <1>6, <2>1, <3>2 DEF FrontAfter, Fronts
            <4> QED BY <2>1, <3>1, <3>2, <4>1 DEF Tells, Fronts
        <3>3. CASE u # e.uid
            <4>1. new[u] = fr[u]
                BY <1>6, <2>1, <3>1, <3>3 DEF FrontAfter, Fronts
            <4> QED BY <3>1, <3>3, <4>1 DEF Tells, Fronts
        <3> QED BY <3>2, <3>3
    <2>2. CASE e.eventId \notin AbilityEventId
        <3>1. a \in fr[u] /\ u \in Uid
            BY <2>2 DEF FrontAfter, FirstUid
        <3> QED BY <2>2, <3>1 DEF Tells, Fronts
    <2> QED BY <2>1, <2>2
<1> HIDE DEF new
<1>8. ASSUME NEW u \in FirstUid, NEW i \in Interval, NEW a \in new[u]
      PROVE  InFront(r.currentStats_[i], u, a)
    <2>1. IF Tells(e, u, a) THEN e.eventId = FOREGROUND ELSE InFront(q.currentStats_[i], u, a)
        BY <1>1, <1>7 DEF TrackedIn
    <2>2. u \in Uid /\ a \in Ability /\ q.currentStats_[i] \in PeriodType
        BY <1>5, <1>7 DEF FirstUid
    <2>3. InFront(Reported(q.currentStats_[i], e, Launches(q, e)), u, a)
        BY <1>5, <2>1, <2>2, ReportInFront
    <2> QED BY <1>4, <2>3
<1>9. ASSUME NEW u \in FirstUid, new[u] # {} PROVE u \in r.packageUids
    <2>1. PICK a : a \in new[u]
        BY <1>9
    <2>2. u = e.uid \/ a \in fr[u]
        BY <1>7, <2>1
    <2> QED BY <1>1, <1>4, <2>2 DEF TrackedIn
<1>10. TrackedIn(r, new)
    BY <1>8, <1>9 DEF TrackedIn
<1> QED BY <1>10 DEF r, new

\* A flush keeps track.
LEMMA FlushTracked ==
    ASSUME NEW s, Covered(s), NEW ts \in Int, NEW fr \in Fronts, TrackedIn(s, fr)
    PROVE  TrackedIn(ReportFlush(s, ts), fr)
<1> DEFINE q == RenewIfExpired(s, ts)
           r == ReportFlush(s, ts)
<1>1. Covered(q) /\ TrackedIn(q, fr)
    BY RenewCovered, RenewTracked
<1> HIDE DEF q, r
<1>2. Shape(q) /\ q = RenewIfExpired(s, ts) /\ r = ReportFlush(s, ts)
    BY <1>1 DEF Covered, Stored, q, r
<1>3. FlushDone(q, ts, r)
    BY <1>2, FlushFields
<1>4. /\ r.packageUids = q.packageUids
      /\ \A i \in Interval : r.currentStats_[i] = SettlePeriod(q.currentStats_[i], ts)
    BY <1>3 DEF FlushDone
<1>5. \A i \in Interval : q.currentStats_[i] \in PeriodType
    BY <1>1 DEF Covered, Stored
<1>6. TrackedIn(r, fr)
    BY <1>1, <1>4, <1>5, SettleTracked
<1> QED BY <1>6 DEF r

\* A shutdown keeps track.
LEMMA ShutdownTracked ==
    ASSUME NEW s, Covered(s), NEW ts \in Int, NEW fr \in Fronts, TrackedIn(s, fr)
    PROVE  TrackedIn(RestoreStats(ReportForShutdown(s, ts), TRUE), fr)
<1> DEFINE q == ReportFlush(s, ts)
           p == ReportForShutdown(s, ts)
           r == RestoreStats(p, TRUE)
<1>1. Covered(q) /\ TrackedIn(q, fr)
    BY FlushCovered, FlushTracked
<1> HIDE DEF q, p, r
<1>2. Shape(q) /\ q = ReportFlush(s, ts) /\ p = ReportForShutdown(s, ts)
    BY <1>1 DEF Covered, Stored, q, p
<1>3. ShutdownDone(q, p)
    BY <1>2, ShutdownFields
<1>4. /\ Shape(p) /\ p.packageUids = q.packageUids /\ p.currentStats_ = q.currentStats_
    BY <1>3 DEF ShutdownDone
<1>5. TrackedIn(p, fr)
    BY <1>1, <1>4, SameTracked
<1>6. RestoreDone(p, r)
    <2>1. r = RestoreStats(p, TRUE)
        BY DEF r
    <2> QED BY <1>4, <2>1, RestoreFields
<1>7. TrackedIn(r, fr)
    BY <1>5, <1>6, SameTracked DEF RestoreDone
<1> QED BY <1>7 DEF p, r

\* After an uninstall the instances that stay are tracked.
LEMMA DeleteTracked ==
    ASSUME NEW s, Covered(s), NEW u \in Uid, NEW fr \in Fronts, TrackedIn(s, fr)
    PROVE  TrackedIn(DeleteUninstalledBundleStats(s, u),
                     [v \in Uid |-> IF v \in RemovedUids(u) THEN {} ELSE fr[v]])
<1> DEFINE r == DeleteUninstalledBundleStats(s, u)
           gone == InMemory(s, u)
           new == [v \in Uid |-> IF v \in RemovedUids(u) THEN {} ELSE fr[v]]
<1> HIDE DEF r
<1>1. Shape(s) /\ r = DeleteUninstalledBundleStats(s, u)
    BY DEF Covered, Stored, r
<1>2. DeleteDone(s, u, r)
    BY <1>1, DeleteFields
<1>3. /\ r.packageUids = s.packageUids \ gone
      /\ \A i \in Interval : r.currentStats_[i] = DeleteMemUsageStats(s.currentStats_[i], gone)
    BY <1>2 DEF DeleteDone
<1>4. gone \subseteq RemovedUids(u)
    BY DEF InMemory, RemovedUids
<1>5. \A v \in FirstUid : v \in Uid /\ (new[v] # {} => v \notin gone /\ new[v] = fr[v])
    BY <1>4 DEF FirstUid
<1> HIDE DEF gone, new
<1>6. ASSUME NEW v \in FirstUid, NEW i \in Interval, NEW a \in new[v]
      PROVE  InFront(r.currentStats_[i], v, a)
    <2> DEFINE st == s.currentStats_[i]
               D == DOMAIN st.bundleStats_ \ gone
               m == [w \in D |-> st.bundleStats_[w]]
    <2>1. st \in PeriodType
        BY DEF Covered, Stored
    <2>2. v \notin gone /\ a \in fr[v]
        BY <1>5
    <2>3. InFront(st, v, a)
        BY <2>2 DEF TrackedIn
    <2>4. r.currentStats_[i] = [st EXCEPT !.bundleStats_ = m]
        BY <1>3 DEF DeleteMemUsageStats, Restrict
    <2> HIDE DEF st
    <2>5. r.currentStats_[i].bundleStats_ = m
        BY <2>1, <2>4 DEF PeriodType
    <2>6. v \in DOMAIN m /\ m[v] = st.bundleStats_[v]
        BY <2>2, <2>3 DEF InFront
    <2> QED BY <2>3, <2>5, <2>6 DEF InFront
<1>7. \A v \in FirstUid : new[v] # {} => v \in r.packageUids
    BY <1>3, <1>5 DEF TrackedIn
<1>8. TrackedIn(r, new)
    BY <1>6, <1>7 DEF TrackedIn
<1> QED BY <1>8 DEF r, new

\* A service that is up has in front what is in front; nothing was in front before the
\* first one.
TrackOK ==
    /\ front \in Fronts
    /\ svc.up => TrackedIn(svc, front)
    /\ ~svc.up => \A u \in Uid : front[u] = {}

\* The inductive invariant.
TrackInv == CoverInv /\ (jumps = 0 /\ crashes = 0 => TrackOK)

\* Nothing is in front at the start.
LEMMA TrackInit == Init => TrackInv
<1> SUFFICES ASSUME Init PROVE TrackOK
    BY CoverInit DEF TrackInv
<1>1. front = [u \in Uid |-> {}] /\ svc = NoService(EmptyDatabase)
    BY DEF Init
<1>2. EmptyDatabase = [f \in {"packageTable", "eventTable"} |-> EmptyDatabase[f]]
    BY DEF EmptyDatabase
<1>3. svc.up = FALSE
    BY <1>1, <1>2, NoServiceFields
<1> QED BY <1>1, <1>3 DEF TrackOK, Fronts

\* A handler that has looked at the clock has a service that tracks the front.
LEMMA CheckedTracked ==
    ASSUME ClocksOK, jumps = 0, TrackOK
    PROVE  TrackedIn(GetUserData(CheckTimeChange(svc)), front)
<1>1. offset = shot
    BY DEF ClocksOK
<1>2. CheckTimeChange(svc) = svc
    BY <1>1 DEF CheckTimeChange
<1>3. CASE svc.up
    BY <1>2, <1>3 DEF GetUserData, TrackOK
<1>4. CASE ~svc.up
    <2>1. \A u \in FirstUid : front[u] = {}
        BY <1>4 DEF TrackOK, FirstUid
    <2>2. TrackedIn(GetUserData(CheckTimeChange(svc)), front)
        BY <2>1 DEF TrackedIn
    <2> QED BY <2>2
<1> QED BY <1>3, <1>4

\* A handler goes on with a service that is up, covers its tables, has its events
\* accounted and tracks the front.
Checked(q) == Covered(q) /\ Running(q, reported) /\ TrackedIn(q, front)

\* Whether or not it had to create it.
LEMMA HandlerChecked ==
    ASSUME ClocksOK, jumps = 0, EventsOK, CoverOK, TrackOK
    PROVE  Checked(GetUserData(CheckTimeChange(svc)))
<1>1. Accountable
    BY DEF Accountable, ClockWasSet, ClocksOK
<1> QED BY <1>1, CheckedCovered, CheckedTracked, CheckedService DEF Checked

\* A step that leaves a service that is up and tracks the front.
LEMMA TrackedStep ==
    ASSUME NEW r, svc' = r, NEW known, Running(r, known), NEW fr \in Fronts, front' = fr,
           TrackedIn(r, fr)
    PROVE  TrackOK'
<1>1. r.up = TRUE
    BY DEF Running
<1>2. TrackedIn(svc', front')
    BY DEF TrackedIn, InFront
<1> QED BY <1>1, <1>2 DEF TrackOK, TrackedIn, InFront, FirstUid, Fronts

\* A report.
LEMMA ReportTracks ==
    ASSUME ClocksOK, jumps = 0, EventsOK, CoverOK, TrackOK, NEW e, EventOK(e), Report(e),
           e.id = reports + 1, front' = FrontAfter(front, e)
    PROVE  TrackOK'
<1> DEFINE q == GetUserData(CheckTimeChange(svc))
           r == ReportEvent(q, e)
           fr == FrontAfter(front, e)
<1>1. /\ Checked(q) /\ front \in Fronts /\ e.uid \in Uid
      /\ reports \in Nat /\ reported \in [Uid -> SUBSET (1 .. reports)]
    BY HandlerChecked DEF TrackOK, EventsOK, EventOK, Numbering
<1>2. svc' = r
    BY Zenon DEF Report
<1> HIDE DEF q
<1>3. TrackedIn(r, fr)
    BY <1>1, ReportTracked DEF Checked
<1>4. Running(r, [reported EXCEPT ![e.uid] = @ \cup {e.id}])
    <2>1. reported = [u \in Uid |-> reported[u]] /\ e.id \notin reported[e.uid]
        BY <1>1
    <2> QED BY <1>1, <2>1, ReportCounted DEF Checked
<1>5. fr \in Fronts
    <2>1. CASE e.eventId \in AbilityEventId
        <3>1. e.ability \in Ability
            BY <2>1, AbilityOrTask DEF EventOK
        <3> QED BY <1>1, <2>1, <3>1 DEF FrontAfter, Fronts
    <2>2. CASE e.eventId \notin AbilityEventId
        BY <1>1, <2>2 DEF FrontAfter
    <2> QED BY <2>1, <2>2
<1> HIDE DEF r, fr
<1>6. front' = fr
    BY DEF fr
<1> QED BY <1>2, <1>3, <1>4, <1>5, <1>6, TrackedStep

\* An uninstall.
LEMMA UninstallTracks ==
    ASSUME ClocksOK, jumps = 0, EventsOK, CoverOK, TrackOK, NEW u \in Uid, Uninstall(u)
    PROVE  TrackOK'
<1> DEFINE q == GetUserData(CheckTimeChange(svc))
           r == DeleteUninstalledBundleStats(q, u)
           fr == [v \in Uid |-> IF v \in RemovedUids(u) THEN {} ELSE front[v]]
           known == [v \in Uid |-> IF v \in RemovedUids(u) THEN {} ELSE reported[v]]
<1>1. Checked(q) /\ front \in Fronts
    BY HandlerChecked DEF TrackOK
<1>2. svc' = r /\ front' = fr
    BY Zenon DEF Uninstall
<1> HIDE DEF q
<1>3. TrackedIn(r, fr)
    BY <1>1, DeleteTracked DEF Checked
<1>4. Running(r, known)
    BY <1>1, DeleteCounted DEF Checked
<1>5. fr \in Fronts
    BY <1>1 DEF Fronts
<1> HIDE DEF r, fr, known
<1> QED BY <1>2, <1>3, <1>4, <1>5, TrackedStep

\* A query.
LEMMA QueryTracks ==
    ASSUME ClocksOK, jumps = 0, EventsOK, CoverOK, TrackOK, Query PROVE TrackOK'
<1> DEFINE q == GetUserData(CheckTimeChange(svc))
<1>1. Checked(q) /\ front \in Fronts
    BY HandlerChecked DEF TrackOK
<1>2. svc' = q /\ front' = front
    BY Zenon DEF Query, history
<1> HIDE DEF q
<1> QED BY <1>1, <1>2, TrackedStep DEF Checked

\* The three parts of a flush.
LEMMA FlushTracks ==
    ASSUME EventsOK, CoverOK, TrackOK, FlushBegin \/ FlushReport \/ FlushRestore
    PROVE  TrackOK'
<1>1. front' = front /\ front \in Fronts
    BY DEF FlushBegin, FlushReport, FlushRestore, history, TrackOK
<1>2. svc.up /\ Covered(svc) /\ TrackedIn(svc, front)
    BY DEF EventsOK, CoverOK, TrackOK, FlushBegin, FlushReport, FlushRestore
<1>3. Running(svc, reported)
    BY <1>2 DEF Running, EventsOK, EventTime
<1>4. CASE FlushBegin
    <2>1. svc' = svc
        BY <1>4 DEF FlushBegin
    <2> QED BY <1>1, <1>2, <1>3, <2>1, TrackedStep
<1>5. CASE FlushReport
    <2> DEFINE r == ReportFlush(svc, flush.timeStamp)
    <2>1. svc' = r /\ flush.timeStamp \in Int
        BY <1>5 DEF FlushReport, CoverOK
    <2>2. Running(r, reported) /\ TrackedIn(r, front)
        BY <1>1, <1>2, <1>3, <2>1, FlushCounted, FlushTracked
    <2> HIDE DEF r
    <2> QED BY <1>1, <2>1, <2>2, TrackedStep
<1>6. CASE FlushRestore
    <2> DEFINE r == RestoreStats(svc, FALSE)
    <2>1. svc' = r
        BY <1>6 DEF FlushRestore
    <2>2. TrackedIn(r, front)
        BY <1>2, RestoreTracked
    <2>3. Running(r, reported)
        BY <1>3, RestoreCounted
    <2> HIDE DEF r
    <2> QED BY <1>1, <2>1, <2>2, <2>3, TrackedStep
<1> QED BY <1>4, <1>5, <1>6

\* A shutdown.
LEMMA ShutDownTracks ==
    ASSUME ClocksOK, EventsOK, CoverOK, TrackOK, ShutDown PROVE TrackOK'
<1> DEFINE r == RestoreStats(ReportForShutdown(svc, SystemTime), TRUE)
<1>1. svc.up /\ SystemTime \in Int /\ front \in Fronts
    BY DEF ShutDown, ClocksOK, SystemTime, TrackOK
<1>2. Covered(svc) /\ TrackedIn(svc, front) /\ Running(svc, reported)
    BY <1>1 DEF EventsOK, CoverOK, TrackOK, Running, EventTime
<1>3. svc' = r
    BY Zenon DEF ShutDown
<1>4. front' = front
    BY DEF ShutDown, history
<1>5. TrackedIn(r, front)
    BY <1>1, <1>2, ShutdownTracked
<1>6. Running(r, reported)
    BY <1>2, ShutdownCounted
<1> HIDE DEF r
<1> QED BY <1>1, <1>3, <1>4, <1>5, <1>6, TrackedStep

\* A step that leaves the service and what is in front as they are.
LEMMA SameTracks == ASSUME TrackOK, svc' = svc, front' = front PROVE TrackOK'
BY DEF TrackOK, TrackedIn, InFront, FirstUid, Fronts

\* A full folder loses events, and nothing that is in front.
LEMMA SizeTracks ==
    ASSUME CoverOK, TrackOK, NEW days, NEW begin, ProcessDataSize(days, begin) PROVE TrackOK'
<1>1. /\ svc.up /\ svc'.up = svc.up /\ svc'.packageUids = svc.packageUids
      /\ svc'.currentStats_ = svc.currentStats_ /\ front' = front
    BY SizeFields DEF CoverOK, Stored
<1>2. TrackedIn(svc, front)
    BY <1>1 DEF TrackOK
<1>3. TrackedIn(svc', front)
    BY <1>1, <1>2 DEF TrackedIn
<1> QED BY <1>1, <1>3 DEF TrackOK, TrackedIn, InFront, FirstUid, Fronts

\* Every step keeps track of what is in front.
LEMMA TrackStep == TrackInv /\ [Next]_vars => TrackInv'
<1> SUFFICES ASSUME TrackInv, [Next]_vars, jumps' = 0, crashes' = 0 PROVE TrackOK'
    BY CoverStep DEF TrackInv
<1>1. /\ ClocksOK /\ jumps \in Nat /\ crashes \in Nat /\ scenario \in Scenario
      /\ scenario.uids \subseteq Uid /\ scenario.tasks \subseteq Task
    BY ScenarioIs DEF TrackInv, CoverInv, EventsInv, ClocksOK
<1>2. jumps' \in {jumps, jumps + 1} /\ crashes' \in {crashes, crashes + 1}
    BY StepClocks DEF SameClocks
<1>3. jumps = 0 /\ crashes = 0
    BY <1>1, <1>2
<1>4. TrackOK /\ CoverOK /\ EventsOK /\ SystemTime \in Int
    BY <1>1, <1>3 DEF TrackInv, CoverInv, EventsInv, Accountable, ClockWasSet, ClocksOK, SystemTime
<1>5. ASSUME NEW u \in scenario.uids, NEW id \in AbilityEventId, NEW a \in Ability, AbilityEvent(u, id, a)
      PROVE  TrackOK'
    <2> DEFINE e == [id |-> reports + 1, eventId |-> id, uid |-> u, ability |-> a,
                     timeStamp |-> SystemTime]
    <2>1. Report(e) /\ EventOK(e) /\ e.id = reports + 1 /\ front' = FrontAfter(front, e)
        BY <1>1, <1>4, <1>5 DEF AbilityEvent, EventOK, FrontAfter
    <2> HIDE DEF e
    <2> QED BY <1>1, <1>3, <1>4, <2>1, ReportTracks
<1>6. ASSUME NEW u \in scenario.uids, NEW id \in TaskEventId, NEW t \in scenario.tasks, TaskEvent(u, id, t)
      PROVE  TrackOK'
    <2> DEFINE e == [id |-> reports + 1, eventId |-> id, uid |-> u, task |-> t,
                     timeStamp |-> SystemTime]
    <2>1. id \notin AbilityEventId
        BY AbilityOrTask
    <2>2. Report(e) /\ EventOK(e) /\ e.id = reports + 1 /\ front' = FrontAfter(front, e)
        BY <1>1, <1>4, <1>6, <2>1 DEF TaskEvent, EventOK, FrontAfter
    <2> HIDE DEF e
    <2> QED BY <1>1, <1>3, <1>4, <2>2, ReportTracks
<1>7. CASE \E u \in scenario.uids : Uninstall(u)
    BY <1>1, <1>3, <1>4, <1>7, UninstallTracks
<1>8. CASE FlushBegin \/ FlushReport \/ FlushRestore
    BY <1>4, <1>8, FlushTracks
<1>9. CASE Query
    BY <1>1, <1>3, <1>4, <1>9, QueryTracks
<1>10. CASE ShutDown
    BY <1>1, <1>4, <1>10, ShutDownTracks
<1>11. CASE Tick
    <2>1. svc' = svc /\ front' = front
        BY <1>11 DEF Tick
    <2> QED BY <1>4, <2>1, SameTracks
<1>12. CASE \E d \in ClockJump : SetClock(d)
    <2>1. jumps' = jumps + 1
        BY <1>12 DEF SetClock
    <2> QED BY <1>3, <2>1
<1>13. CASE Crash
    <2>1. crashes' = crashes + 1
        BY <1>13 DEF Crash
    <2> QED BY <1>3, <2>1
<1>14. CASE UNCHANGED vars
    <2>1. svc' = svc /\ front' = front
        BY <1>14 DEF vars
    <2> QED BY <1>4, <2>1, SameTracks
<1>15. CASE \E days \in 0..MAX_DELETE_EVENT_DALIYS,
               begin \in DOMAIN svc.database_.packageTable[PERIOD_DAILY] :
                 ProcessDataSize(days, begin)
    BY <1>4, <1>15, SizeTracks
<1> QED BY <1>5, <1>6, <1>7, <1>8, <1>9, <1>10, <1>11, <1>12, <1>13, <1>14, <1>15 DEF Next

\* While the clock is not set and the process lives, every period has in front what is
\* in front of the first uid of a bundle: over the end of any number of days, in the
\* middle of a flush, and after an uninstall of another bundle.
THEOREM FrontIsTracked == Spec => []FrontTracked
<1>1. TrackInv => FrontTracked
    <2> SUFFICES ASSUME TrackInv, svc.up, ~ClockWasSet, ~ProcessDied,
                        NEW i \in Interval, NEW u \in FirstUid, NEW a \in front[u]
                 PROVE  InFront(svc.currentStats_[i], u, a)
        BY DEF FrontTracked, InFront
    <2>1. jumps = 0 /\ crashes = 0
        BY DEF TrackInv, CoverInv, EventsInv, ClocksOK, ClockWasSet, ProcessDied
    <2>2. TrackedIn(svc, front)
        BY <2>1 DEF TrackInv, TrackOK
    <2> QED BY <2>2 DEF TrackedIn
<1> QED BY TrackInit, TrackStep, <1>1, PTL DEF Spec

-----------------------------------------------------------------------------
(* What leaves the tables                                                  *)

\* A finite set of numbers has a greatest one.
LEMMA Greatest ==
    ASSUME NEW S, S \subseteq Int, S # {}, IsFiniteSet(S)
    PROVE  \E m \in S : \A x \in S : x <= m
<1> DEFINE Tops(T) == \E m \in T : \A x \in T : x <= m
           bad == {n \in Nat : \E T \in SUBSET S : T # {} /\ Cardinality(T) = n /\ ~Tops(T)}
<1>1. /\ \A T \in SUBSET S : Cardinality(T) \in Nat /\ (Cardinality(T) = 0 <=> T = {})
      /\ \A T \in SUBSET S : T # {} => /\ Chosen(T) \in S /\ T \ {Chosen(T)} \in SUBSET S
                                       /\ Cardinality(T \ {Chosen(T)}) = Cardinality(T) - 1
    BY Parts
<1>2. SUFFICES ASSUME ~Tops(S) PROVE FALSE
    OBVIOUS
<1>3. bad # {} /\ bad \subseteq Nat
    BY <1>1, <1>2
<1>4. PICK n \in bad : \A m \in bad : n <= m
    <2> HIDE DEF bad
    <2> QED BY <1>3, Least
<1>5. PICK T \in SUBSET S : T # {} /\ Cardinality(T) = n /\ ~Tops(T)
    BY <1>4
<1> DEFINE c == Chosen(T)
           U == T \ {c}
<1>6. c \in T /\ c \in Int /\ U \in SUBSET S /\ Cardinality(U) = n - 1 /\ Cardinality(U) \in Nat
    BY <1>1, <1>5, ChosenIn
<1> HIDE DEF c
<1>7. U # {} => Tops(U)
    <2> SUFFICES ASSUME U # {}, ~Tops(U) PROVE FALSE
        OBVIOUS
    <2>1. Cardinality(U) \in bad
        BY <1>6
    <2>2. n <= n - 1 /\ n \in Nat
        BY <1>4, <1>6, <2>1
    <2> QED BY <2>2
<1>8. CASE U = {}
    <2>1. \A x \in T : x <= c
        BY <1>6, <1>8
    <2> QED BY <1>5, <1>6, <2>1
<1>9. CASE U # {}
    <2>1. PICK m \in U : \A x \in U : x <= m
        BY <1>7, <1>9
    <2>2. m \in Int /\ T \subseteq Int
        BY <1>6
    <2>3. CASE m <= c
        <3>1. \A x \in T : x <= c
            BY <1>6, <2>1, <2>2, <2>3
        <3> QED BY <1>5, <1>6, <3>1
    <2>4. CASE c <= m
        <3>1. \A x \in T : x <= m
            BY <1>6, <2>1, <2>2, <2>4
        <3> QED BY <1>5, <2>1, <3>1
    <2> QED BY <1>6, <2>2, <2>3, <2>4
<1> QED BY <1>8, <1>9

\* The m greatest of a finite set of numbers, when there are as many.
LEMMA GreatestOnes ==
    ASSUME NEW S, S \subseteq Int, IsFiniteSet(S), NEW m \in Nat, m <= Cardinality(S),
           NEW K, K = {x \in S : Cardinality({y \in S : y > x}) < m}
    PROVE  m <= Cardinality(K)
<1> SUFFICES ASSUME ~(m <= Cardinality(K)) PROVE FALSE
    OBVIOUS
<1>1. /\ K \subseteq S /\ IsFiniteSet(K) /\ Cardinality(K) \in Nat /\ Cardinality(S) \in Nat
    BY FS_Subset, FS_CardinalityType
<1>2. S \ K # {}
    BY <1>1
<1>3. IsFiniteSet(S \ K) /\ S \ K \subseteq Int
    BY FS_Subset
<1>4. PICK g \in S \ K : \A x \in S \ K : x <= g
    <2> DEFINE D == S \ K
    <2>1. IsFiniteSet(D) /\ D \subseteq Int /\ D # {}
        BY <1>2, <1>3
    <2> HIDE DEF D
    <2>2. \E g \in D : \A x \in D : x <= g
        BY <2>1, Greatest
    <2> QED BY <2>2 DEF D
<1> DEFINE over == {y \in S : y > g}
<1>5. over \subseteq K
    <2> SUFFICES ASSUME NEW y \in S, y > g, y \notin K PROVE FALSE
        OBVIOUS
    <2>1. y <= g /\ y \in Int /\ g \in Int
        BY <1>4
    <2> QED BY <2>1
<1>6. Cardinality(over) <= Cardinality(K) /\ Cardinality(over) \in Nat
    BY <1>1, <1>5, FS_Subset, FS_CardinalityType
<1>7. Cardinality(over) < m
    BY <1>1, <1>6
<1> QED BY <1>4, <1>7

\* They are not more.
LEMMA NoMore ==
    ASSUME NEW S, S \subseteq Int, IsFiniteSet(S), NEW m \in Nat \ {0},
           NEW K, K = {x \in S : Cardinality({y \in S : y > x}) < m}
    PROVE  Cardinality(K) <= m
<1>0. K \subseteq S /\ K \subseteq Int
    OBVIOUS
<1>1. K \subseteq S /\ K \subseteq Int /\ IsFiniteSet(K) /\ Cardinality(K) \in Nat
    <2>1. K \in SUBSET S
        BY <1>0
    <2>2. IsFiniteSet(K)
        BY <2>1, FS_Subset, Zenon
    <2>3. Cardinality(K) \in Nat
        BY <2>2, FS_CardinalityType, Zenon
    <2> QED BY <1>0, <2>2, <2>3, Zenon
<1>2. CASE K = {}
    <2>1. Cardinality({}) = 0
        BY FS_EmptySet
    <2>2. Cardinality(K) = 0
        BY <1>2, <2>1, Zenon
    <2> QED BY <2>2
<1>3. CASE K # {}
    <2> DEFINE N == {-x : x \in K}
    <2>1. N \subseteq Int /\ N # {} /\ IsFiniteSet(N)
        <3> DEFINE f == [x \in K |-> -x]
        <3>1. f \in Surjection(K, N)
            BY DEF Surjection
        <3>2. \A x \in K : -x \in Int /\ -x \in N
            BY <1>1
        <3>4. PICK x \in K : TRUE
            BY <1>3
        <3>5. -x \in N
            BY <3>2
        <3>6. N \subseteq Int
            <4> SUFFICES ASSUME NEW n \in N PROVE n \in Int
                OBVIOUS
            <4>1. PICK k \in K : n = -k
                OBVIOUS
            <4> QED BY <3>2, <4>1
        <3> HIDE DEF N, f
        <3>3. IsFiniteSet(N)
            BY <1>1, <3>1, FS_Surjection, Zenon
        <3> QED BY <3>3, <3>5, <3>6
    <2>2. PICK g \in N : \A x \in N : x <= g
        <3> HIDE DEF N
        <3> QED BY <2>1, Greatest
    <2>3. PICK l \in K : g = -l
        BY <2>2
    <2>4. \A x \in K : l <= x
        <3> TAKE x \in K
        <3>1. -x \in N /\ x \in Int /\ l \in Int
            BY <1>1
        <3>2. -x <= -l
            BY <2>2, <2>3, <3>1
        <3> QED BY <3>1, <3>2
    <2> DEFINE over == {y \in S : y > l}
    <2>5. K \ {l} \subseteq over
        <3> SUFFICES ASSUME NEW x \in K, x # l PROVE x > l
            BY <1>1
        <3>1. l <= x /\ x \in Int /\ l \in Int
            BY <1>1, <2>4
        <3> QED BY <3>1
    <2>6. IsFiniteSet(over) /\ Cardinality(over) \in Nat
        BY FS_Subset, FS_CardinalityType
    <2>7. Cardinality(K \ {l}) <= Cardinality(over)
        BY <2>5, <2>6, FS_Subset
    <2>8. Cardinality(over) < m
        OBVIOUS
    <2>9. Cardinality(K \ {l}) = Cardinality(K) - 1
        BY <1>1, FS_RemoveElement
    <2> HIDE DEF over
    <2> QED BY <1>1, <2>6, <2>7, <2>8, <2>9
<1> QED BY <1>2, <1>3

\* Tables that are newer.
Newer(tables, t) == {x \in DOMAIN tables : x > t}

\* A table of then is too old: as many newer ones are there as are kept, or its periods
\* are over.
TooOld(i, tables, t, now) ==
    \/ Cardinality(Newer(tables, t)) >= MaxFiles[i]
    \/ t + MaxFiles[i] * PeriodLength[i] < now

\* A table with rows keeps some or is too old, and what is too old remains so.
Ages(i, a, b, now) ==
    /\ \A t \in DOMAIN a : \/ a[t] = <<>>
                           \/ TooOld(i, b, t, now)
                           \/ t \in DOMAIN b /\ b[t] # <<>>
    /\ \A t \in Int : TooOld(i, a, t, now) => TooOld(i, b, t, now)

\* Finitely many tables, that begin at numbers.
Some(tables) == DOMAIN tables \subseteq Int /\ IsFiniteSet(DOMAIN tables)

\* How many tables are kept, and for how long.
LEMMA Kepts ==
    ASSUME NEW i \in Interval
    PROVE  MaxFiles[i] \in Nat \ {0} /\ PeriodLength[i] \in Nat /\ MaxFiles[i] * PeriodLength[i] \in Nat
<1>1. MaxFiles[i] \in Nat \ {0} /\ PeriodLength[i] \in Nat
    BY Intervals, IntervalAssumption
<1> QED BY <1>1

\* Tables that stay age.
LEMMA AgesSelf == ASSUME NEW i, NEW a, NEW now PROVE Ages(i, a, a, now)
BY DEF Ages

\* Twice is once.
LEMMA AgesOn ==
    ASSUME NEW i, NEW now, NEW a, Some(a), NEW b, Ages(i, a, b, now), NEW c, Ages(i, b, c, now)
    PROVE  Ages(i, a, c, now)
<1>1. ASSUME NEW t \in DOMAIN a, a[t] # <<>>, ~TooOld(i, c, t, now) PROVE t \in DOMAIN c /\ c[t] # <<>>
    <2>1. t \in Int /\ ~TooOld(i, b, t, now)
        BY <1>1 DEF Some, Ages
    <2>2. t \in DOMAIN b /\ b[t] # <<>>
        BY <1>1, <2>1 DEF Ages
    <2> QED BY <1>1, <2>2 DEF Ages
<1>2. \A t \in Int : TooOld(i, a, t, now) => TooOld(i, c, t, now)
    BY DEF Ages
<1> QED BY <1>1, <1>2 DEF Ages

\* Tables as they should be now: no more than are kept, and none with rows begins now or
\* later.
Neat(i, tables, now) ==
    /\ Some(tables) /\ Cardinality(DOMAIN tables) <= MaxFiles[i]
    /\ \A t \in DOMAIN tables : tables[t] # <<>> => t < now

\* Of the tables that are too many the oldest go, and none that stays is the less too old.
LEMMA ExcessiveAges ==
    ASSUME NEW i \in Interval, NEW now, NEW a, Some(a), NEW b, b = DeleteExcessiveTableData(a, i)
    PROVE  Some(b) /\ Ages(i, a, b, now) /\ Cardinality(DOMAIN b) <= MaxFiles[i]
<1> DEFINE S == DOMAIN a
           m == MaxFiles[i]
           K == {x \in S : Cardinality({y \in S : y > x}) < m}
<1>1. b = [t \in K |-> a[t]] /\ DOMAIN b = K /\ K \subseteq S
    BY DEF DeleteExcessiveTableData, Restrict
<1>2. S \subseteq Int /\ IsFiniteSet(S) /\ m \in Nat \ {0}
    BY Kepts DEF Some
<1>3. Some(b)
    <2>1. IsFiniteSet(K)
        BY <1>1, <1>2, FS_Subset, Zenon
    <2> QED BY <1>1, <1>2, <2>1 DEF Some
<1>4. Cardinality(K) <= m
    <2> HIDE DEF S, m
    <2> QED BY <1>2, NoMore
<1>5. ASSUME NEW t \in Int, Cardinality({y \in S : y > t}) >= m
      PROVE  Cardinality({x \in K : x > t}) >= m
    <2> DEFINE T == {y \in S : y > t}
               L == {x \in T : Cardinality({y \in T : y > x}) < m}
    <2>1. T \subseteq Int /\ IsFiniteSet(T) /\ Cardinality(T) \in Nat
        <3>1. T \subseteq S
            OBVIOUS
        <3>2. IsFiniteSet(T)
            BY <1>2, <3>1, FS_Subset, Zenon
        <3> QED BY <1>2, <3>1, <3>2, FS_CardinalityType
    <2>2. m <= Cardinality(T)
        BY <1>2, <1>5, <2>1
    <2>3. ASSUME NEW x \in T PROVE {y \in T : y > x} = {y \in S : y > x}
        <3>1. x \in Int /\ x > t
            BY <1>2
        <3>2. \A y \in S : y > x => y > t
            BY <1>2, <3>1
        <3> QED BY <3>2
    <2>4. L = {x \in K : x > t}
        <3>1. \A x : x \in L <=> x \in T /\ Cardinality({y \in T : y > x}) < m
            OBVIOUS
        <3>2. \A x : x \in L <=> x \in T /\ Cardinality({y \in S : y > x}) < m
            BY <2>3, <3>1
        <3>3. \A x : x \in {z \in K : z > t} <=> x \in T /\ Cardinality({y \in S : y > x}) < m
            OBVIOUS
        <3> HIDE DEF L, K, T
        <3> QED BY <3>2, <3>3
    <2> HIDE DEF T, m
    <2>5. m <= Cardinality(L)
        BY <1>2, <2>1, <2>2, GreatestOnes
    <2>6. Cardinality(L) \in Nat
        <3>1. IsFiniteSet(L)
            BY <2>1, FS_Subset
        <3> QED BY <3>1, FS_CardinalityType
    <2> HIDE DEF L
    <2> QED BY <1>2, <2>4, <2>5, <2>6
<1>6. \A t \in Int : TooOld(i, a, t, now) => TooOld(i, b, t, now)
    BY <1>1, <1>5 DEF TooOld, Newer
<1>7. ASSUME NEW t \in DOMAIN a, a[t] # <<>>, ~(t \in DOMAIN b /\ b[t] # <<>>) PROVE TooOld(i, b, t, now)
    <2>1. t \notin K /\ t \in Int
        BY <1>1, <1>2, <1>7
    <2>2. ~(Cardinality({y \in S : y > t}) < m)
        BY <2>1
    <2>3. Cardinality({y \in S : y > t}) \in Nat
        <3>1. IsFiniteSet({y \in S : y > t})
            BY <1>2, FS_Subset
        <3> QED BY <3>1, FS_CardinalityType
    <2>4. Cardinality({y \in S : y > t}) >= m
        BY <1>2, <2>2, <2>3
    <2> QED BY <1>6, <2>1, <2>4 DEF TooOld, Newer
<1> QED BY <1>1, <1>3, <1>4, <1>6, <1>7 DEF Ages

\* No table goes when they are not too many.
LEMMA ExcessiveNone ==
    ASSUME NEW i \in Interval, NEW a, a = [t \in DOMAIN a |-> a[t]], Some(a),
           Cardinality(DOMAIN a) <= MaxFiles[i]
    PROVE  DeleteExcessiveTableData(a, i) = a
<1> DEFINE S == DOMAIN a
<1>1. S \subseteq Int /\ IsFiniteSet(S) /\ Cardinality(S) \in Nat /\ MaxFiles[i] \in Nat
    BY Kepts, FS_CardinalityType DEF Some
<1>2. ASSUME NEW t \in S PROVE Cardinality({x \in S : x > t}) < MaxFiles[i]
    <2> DEFINE T == {x \in S : x > t}
    <2>1. T \subseteq S \ {t}
        BY <1>1
    <2>2. IsFiniteSet(S \ {t}) /\ Cardinality(S \ {t}) = Cardinality(S) - 1
        BY <1>1, FS_RemoveElement
    <2> HIDE DEF T
    <2>3. Cardinality(T) <= Cardinality(S) - 1 /\ Cardinality(T) \in Nat
        BY <2>1, <2>2, FS_Subset, FS_CardinalityType
    <2>4. Cardinality(T) < MaxFiles[i]
        BY <1>1, <2>3
    <2> QED BY <2>4 DEF T
<1>3. {t \in S : Cardinality({x \in S : x > t}) < MaxFiles[i]} = S
    BY <1>2
<1> QED BY <1>3 DEF DeleteExcessiveTableData, Restrict

\* A table with rows is not empty, and a table without is.
LEMMA RowsAre ==
    ASSUME NEW i, NEW tables, TablesOK(i, tables), NEW t \in DOMAIN tables
    PROVE  tables[t] # <<>> <=> DOMAIN tables[t] # {}
<1>1. tables[t] \in Kept(RowType)
    BY DEF TablesOK
<1>2. tables[t] = [u \in DOMAIN tables[t] |-> tables[t][u]]
    BY <1>1, KeptIs
<1>3. DOMAIN tables[t] = {} => tables[t] = <<>>
    BY <1>2
<1>4. DOMAIN <<>> = {}
    OBVIOUS
<1> QED BY <1>3, <1>4

\* A save keeps the tables as they should be, if what it saves was counted after the
\* period began; only the oldest leave.
LEMMA SaveAges ==
    ASSUME NEW i \in Interval, NEW now \in Int, NEW a, TablesOK(i, a), Neat(i, a, now),
           NEW stats \in PeriodType, Aligned(i, stats.beginTime_), Fresh(stats, now),
           NEW b, b = UpdateBundleUsageData(a, i, stats)
    PROVE  Neat(i, b, now) /\ Ages(i, a, b, now)
<1> DEFINE begin == stats.beginTime_
           kept == stats.bundleStats_
           added == [t \in DOMAIN a \cup {begin} |-> IF t = begin THEN <<>> ELSE a[t]]
           created == IF begin \in DOMAIN a THEN a ELSE DeleteExcessiveTableData(added, i)
           table == FlushPackageInfo(created[begin], begin, kept)
<1>1. b = IF begin \in DOMAIN created THEN [created EXCEPT ![begin] = table] ELSE created
    BY DEF UpdateBundleUsageData
<1>2. begin \in Int /\ \A u \in DOMAIN kept : WorthSaving(kept[u]) => begin < now
    BY DEF PeriodType, Fresh, FreshStats
<1>3. Some(a) /\ Cardinality(DOMAIN a) <= MaxFiles[i] /\ \A t \in DOMAIN a : a[t] # <<>> => t < now
    BY DEF Neat
<1> HIDE DEF begin, kept
<1>4. DOMAIN added = DOMAIN a \cup {begin} /\ added[begin] = <<>>
      /\ \A t \in DOMAIN a : t # begin => added[t] = a[t]
    OBVIOUS
<1> HIDE DEF added
<1>5. ASSUME begin \notin DOMAIN a PROVE TablesOK(i, added) /\ Some(added) /\ Ages(i, a, added, now)
    <2>1. TablesOK(i, added)
        <3>1. \A t \in DOMAIN added : Aligned(i, t) /\ added[t] \in Kept(RowType)
            BY <1>4, <1>5, NoneKept DEF TablesOK, begin
        <3>2. added = [t \in DOMAIN added |-> added[t]]
            BY DEF added
        <3> QED BY <3>1, <3>2 DEF TablesOK
    <2>2. Some(added)
        <3>1. IsFiniteSet(DOMAIN a \cup {begin})
            BY <1>3, FS_AddElement DEF Some
        <3> QED BY <1>2, <1>3, <1>4, <3>1 DEF Some
    <2>3. ASSUME NEW t \in Int, TooOld(i, a, t, now) PROVE TooOld(i, added, t, now)
        <3>1. Newer(a, t) \subseteq Newer(added, t) /\ Newer(added, t) \subseteq DOMAIN added
            BY <1>4 DEF Newer
        <3>2. IsFiniteSet(Newer(added, t))
            BY <2>2, <3>1, FS_Subset DEF Some
        <3>3. /\ Cardinality(Newer(a, t)) <= Cardinality(Newer(added, t))
              /\ Cardinality(Newer(a, t)) \in Nat /\ Cardinality(Newer(added, t)) \in Nat
            BY <3>1, <3>2, FS_Subset, FS_CardinalityType
        <3>4. MaxFiles[i] \in Nat
            BY Kepts
        <3>5. Cardinality(Newer(a, t)) >= MaxFiles[i] => Cardinality(Newer(added, t)) >= MaxFiles[i]
            BY <3>3, <3>4
        <3> QED BY <2>3, <3>5 DEF TooOld
    <2>4. \A t \in DOMAIN a : a[t] = <<>> \/ (t \in DOMAIN added /\ added[t] # <<>>)
        BY <1>4, <1>5
    <2> QED BY <2>1, <2>2, <2>3, <2>4 DEF Ages
<1>6. /\ TablesOK(i, created) /\ Some(created) /\ Ages(i, a, created, now)
      /\ Cardinality(DOMAIN created) <= MaxFiles[i]
      /\ \A t \in DOMAIN created : created[t] # <<>> => t \in DOMAIN a /\ created[t] = a[t]
    <2>1. CASE begin \in DOMAIN a
        BY <1>3, <2>1, AgesSelf
    <2>2. CASE begin \notin DOMAIN a
        <3>1. created = DeleteExcessiveTableData(added, i)
            BY <2>2
        <3> HIDE DEF created
        <3>2. TablesOK(i, added) /\ Some(added) /\ Ages(i, a, added, now)
            BY <1>5, <2>2
        <3>3. Fewer(added, created) /\ TablesOK(i, created)
            BY <3>1, <3>2, ExcessiveFewer, FewerOK
        <3>4. /\ Some(created) /\ Ages(i, added, created, now)
              /\ Cardinality(DOMAIN created) <= MaxFiles[i]
            BY <3>1, <3>2, ExcessiveAges
        <3>5. Ages(i, a, created, now)
            BY <1>3, <3>2, <3>4, AgesOn
        <3>6. ASSUME NEW t \in DOMAIN created, created[t] # <<>> PROVE t \in DOMAIN a /\ created[t] = a[t]
            <4>1. t \in DOMAIN added /\ created[t] = added[t]
                BY <3>3 DEF Fewer
            <4>2. t # begin
                BY <1>4, <3>6, <4>1
            <4> QED BY <1>4, <4>1, <4>2
        <3> QED BY <3>3, <3>4, <3>5, <3>6
    <2> QED BY <2>1, <2>2
<1> HIDE DEF created, table
<1>7. CASE begin \notin DOMAIN created
    <2>1. b = created
        BY <1>1, <1>7
    <2> QED BY <1>3, <1>6, <2>1 DEF Neat
<1>8. CASE begin \in DOMAIN created
    <2> DEFINE saved == {u \in DOMAIN kept : WorthSaving(kept[u])}
               old == created[begin]
    <2>1. DOMAIN b = DOMAIN created /\ b[begin] = table
          /\ \A t \in DOMAIN created : t # begin => b[t] = created[t]
        BY <1>1, <1>6, <1>8 DEF TablesOK
    <2>2. DOMAIN table = DOMAIN old \cup saved
        BY DEF table, FlushPackageInfo
    <2>3. old # <<>> <=> DOMAIN old # {}
        BY <1>6, <1>8, RowsAre
    <2>4. saved # {} => begin < now
        BY <1>2
    <2>5. table # <<>> => DOMAIN table # {}
        BY DEF table, FlushPackageInfo
    <2>6. DOMAIN table # {} => table # <<>>
        OBVIOUS
    <2> HIDE DEF saved
    <2>7. table # <<>> => begin < now
        <3>1. old # <<>> => begin \in DOMAIN a /\ a[begin] # <<>>
            BY <1>6, <1>8
        <3> QED BY <1>3, <2>2, <2>3, <2>4, <2>5, <3>1
    <2>8. old # <<>> => table # <<>>
        BY <2>2, <2>3, <2>6
    <2>9. Neat(i, b, now)
        <3>1. ASSUME NEW t \in DOMAIN b, b[t] # <<>> PROVE t < now
            <4>1. CASE t = begin
                BY <2>1, <2>7, <3>1, <4>1
            <4>2. CASE t # begin
                <5>1. t \in DOMAIN a /\ a[t] # <<>>
                    BY <1>6, <2>1, <3>1, <4>2
                <5> QED BY <1>3, <5>1
            <4> QED BY <4>1, <4>2
        <3> QED BY <1>6, <2>1, <3>1 DEF Neat, Some
    <2>10. Ages(i, created, b, now)
        <3>1. \A t \in DOMAIN created : created[t] = <<>> \/ (t \in DOMAIN b /\ b[t] # <<>>)
            BY <2>1, <2>8
        <3>2. \A t : Newer(b, t) = Newer(created, t)
            BY <2>1 DEF Newer
        <3> QED BY <3>1, <3>2 DEF Ages, TooOld
    <2>11. Ages(i, a, b, now)
        BY <1>3, <1>6, <2>10, AgesOn
    <2> QED BY <2>9, <2>11
<1> QED BY <1>7, <1>8

\* What is removed as old is too old.
LEMMA RemoveOldAges ==
    ASSUME NEW i \in Interval, NEW now \in Int, NEW a, Neat(i, a, now), NEW ts \in Int, ts <= now,
           NEW tables, a = tables[i], NEW b, b = RemoveOldData(tables, ts)[i]
    PROVE  Neat(i, b, now) /\ Ages(i, a, b, now)
<1> DEFINE n == MaxFiles[i] * PeriodLength[i]
           recent == {t \in DOMAIN a : t >= ts - n}
           mid == Restrict(a, recent)
<1>1. b = DeleteExcessiveTableData(mid, i)
    BY DEF RemoveOldData
<1>2. n \in Nat
    BY Kepts
<1>3. Some(a) /\ \A t \in DOMAIN a : a[t] # <<>> => t < now
    BY DEF Neat
<1>4. \A t \in DOMAIN a : t \in Int /\ (t \notin recent => t + n < now)
    <2> TAKE t \in DOMAIN a
    <2>1. t \in Int
        BY <1>3 DEF Some
    <2>2. t \notin recent => t < ts - n
        BY <1>2, <2>1
    <2> QED BY <1>2, <2>1, <2>2
<1> HIDE DEF n
<1>5. recent \subseteq DOMAIN a
    OBVIOUS
<1> HIDE DEF recent
<1>6. DOMAIN mid = recent /\ \A t \in recent : mid[t] = a[t]
    BY DEF Restrict
<1> HIDE DEF mid
<1>7. Some(mid)
    <2>1. IsFiniteSet(recent)
        BY <1>3, <1>5, FS_Subset DEF Some
    <2> QED BY <1>3, <1>5, <1>6, <2>1 DEF Some
<1>8. Ages(i, a, mid, now)
    <2>1. \A t \in DOMAIN a : t \notin recent => TooOld(i, mid, t, now)
        BY <1>4 DEF TooOld, n
    <2>2. ASSUME NEW t \in Int, TooOld(i, a, t, now) PROVE TooOld(i, mid, t, now)
        <3>1. CASE \E x \in DOMAIN a : x > t /\ x \notin recent
            <4>1. PICK x \in DOMAIN a : x > t /\ x \notin recent
                BY <3>1
            <4>2. x \in Int /\ x + n < now
                BY <1>4, <4>1
            <4>3. t + n < now
                BY <1>2, <4>1, <4>2
            <4> QED BY <4>3 DEF TooOld, n
        <3>2. CASE ~\E x \in DOMAIN a : x > t /\ x \notin recent
            <4>1. Newer(mid, t) = Newer(a, t)
                BY <1>5, <1>6, <3>2 DEF Newer
            <4> QED BY <2>2, <4>1 DEF TooOld
        <3> QED BY <3>1, <3>2
    <2>3. \A t \in DOMAIN a : t \in recent => a[t] = <<>> \/ (t \in DOMAIN mid /\ mid[t] # <<>>)
        BY <1>6
    <2> QED BY <2>1, <2>2, <2>3 DEF Ages
<1>9. Some(b) /\ Ages(i, mid, b, now) /\ Cardinality(DOMAIN b) <= MaxFiles[i]
    BY <1>1, <1>7, ExcessiveAges
<1>10. Ages(i, a, b, now)
    BY <1>3, <1>8, <1>9, AgesOn
<1>11. \A t \in DOMAIN b : b[t] # <<>> => t < now
    <2>1. Fewer(mid, b)
        BY <1>1, ExcessiveFewer
    <2> QED BY <1>3, <1>5, <1>6, <2>1 DEF Fewer
<1> QED BY <1>9, <1>10, <1>11 DEF Neat

\* Periods are made of days: where one begins, a day begins.
LEMMA BeginsADay ==
    ASSUME NEW i \in Interval, NEW t, Aligned(i, t) PROVE Aligned(PERIOD_DAILY, t)
<1> DEFINE d == Span[PERIOD_DAILY]
           s == Span[i]
<1>1. t \in Int /\ t % s = 0 /\ s % d = 0 /\ s \in Nat \ {0} /\ d \in Nat \ {0}
    BY Intervals, IntervalAssumption DEF Aligned
<1> HIDE DEF d, s
<1>2. PICK k \in Int : t = s * k
    <2>1. t \in Int /\ s \in Nat \ {0} /\ t % s = 0
        BY <1>1
    <2> QED BY <2>1, Product, Zenon
<1>3. PICK n \in Int : s = d * n
    <2>1. s \in Int /\ d \in Nat \ {0} /\ s % d = 0
        BY <1>1
    <2> QED BY <2>1, Product, Zenon
<1>4. s * k = d * (n * k) /\ n * k \in Int
    <2>1. (d * n) * k = d * (n * k)
        BY <1>1
    <2> QED BY <1>3, <2>1
<1>5. (d * (n * k)) % d = 0
    BY <1>1, <1>4, Multiple
<1> QED BY <1>1, <1>2, <1>4, <1>5 DEF Aligned, d

\* A period begins no later than the day.
LEMMA BeginsBefore ==
    ASSUME NEW i \in Interval, NEW ts \in Int
    PROVE  TruncateTo(i, ts) <= TruncateTo(PERIOD_DAILY, ts)
<1>1. Aligned(i, TruncateTo(i, ts)) /\ TruncateTo(i, ts) <= ts
    BY Truncated
<1>2. Aligned(PERIOD_DAILY, TruncateTo(i, ts)) /\ PERIOD_DAILY \in Interval
    BY <1>1, BeginsADay, Intervals
<1> QED BY <1>1, <1>2, LastBegin

\* Intervals that are at least as long as the constant.
Short == {i \in Interval : PeriodLength[i] <= Span[i]}

\* A period that is loaded has the rows of its own table, which began before now.
LEMMA LoadPeriodFresh ==
    ASSUME NEW s, NEW i \in Short, NEW tables, tables = s.database_.packageTable[i], TablesOK(i, tables),
           NEW ts \in Int, \A t \in DOMAIN tables : t <= ts, NEW now \in Int, ts <= now
    PROVE  Fresh(LoadPeriod(s, i, ts), now)
<1> DEFINE begin == TruncateTo(i, ts)
           last == GetCurrentUsageData(tables)
           time == LastTable(tables)
           usable == /\ tables # <<>> /\ ts > last.beginTime_
                     /\ ts < last.beginTime_ + PeriodLength[i]
           m == IF usable THEN last.bundleStats_ ELSE <<>>
           stats == LoadPeriod(s, i, ts)
<1>0. i \in Interval /\ PeriodLength[i] <= Span[i] /\ PeriodLength[i] \in Int /\ Span[i] \in Nat \ {0}
    BY Intervals DEF Short
<1>1. stats = [beginTime_ |-> begin, bundleStats_ |-> m]
    BY DEF LoadPeriod
<1>2. Aligned(i, begin) /\ begin \in Int /\ begin <= ts /\ ts < begin + Span[i]
    BY <1>0, Truncated DEF Aligned
<1> HIDE DEF begin, stats
<1>3. begin <= now
    BY <1>2
<1>4. ASSUME usable, NEW u \in DOMAIN m PROVE FreshStats(m[u], begin, now)
    <2>1. /\ time \in DOMAIN tables /\ Aligned(i, time) /\ last.beginTime_ = time
        BY <1>0, <1>4, CurrentUsage DEF TablesOK
    <2>2. time \in Int /\ time < ts /\ ts < time + PeriodLength[i]
        BY <1>4, <2>1 DEF Aligned
    <2>3. m = last.bundleStats_ /\ last.bundleStats_[u] = StatsOf(tables[time][u], time)
        BY <1>4 DEF GetCurrentUsageData
    <2> HIDE DEF m, last, usable, time
    <2>4. time <= begin
        BY <1>0, <2>1, <2>2, LastBegin DEF begin
    <2>5. ~(time < begin)
        <3>1. time < begin => time + Span[i] <= begin
            BY <1>0, <1>2, <2>1, <2>2, Apart DEF Aligned
        <3> QED BY <1>0, <1>2, <2>2, <3>1
    <2>6. begin < now
        BY <1>2, <2>2, <2>4, <2>5
    <2>7. /\ m[u].abilities_ = [x \in Ability |-> Absent] /\ m[u].longTimeTasks_ = {}
        BY <2>3 DEF StatsOf, NewPackageStats
    <2>8. ~HasFrontAbility(m[u]) /\ ~AnyLongTimeTaskStarted(m[u])
        BY <2>7 DEF HasFrontAbility, AnyLongTimeTaskStarted, Absent, FOREGROUND
    <2> QED BY <2>6, <2>8 DEF FreshStats
<1>5. \A u \in DOMAIN m : FreshStats(m[u], begin, now)
    <2>1. CASE usable
        BY <1>4, <2>1
    <2>2. CASE ~usable
        <3>1. m = <<>> /\ DOMAIN <<>> = {}
            BY <2>2
        <3> HIDE DEF m
        <3> QED BY <3>1
    <2> QED BY <2>1, <2>2
<1> HIDE DEF m
<1> QED BY <1>1, <1>3, <1>5 DEF Fresh, stats

-----------------------------------------------------------------------------
(* Tables and periods of a service, by date                                *)

\* The tables now, ...
DatedTables(s, now) == \A i \in Short : Neat(i, s.database_.packageTable[i], now)

\* ... and the periods.
Dated(s, now) == DatedTables(s, now) /\ \A i \in Short : Fresh(s.currentStats_[i], now)

\* Only what is old has left.
Aged(s, r, now) == \A i \in Short : Ages(i, s.database_.packageTable[i], r.database_.packageTable[i], now)

\* One method after the other.
LEMMA AgedOn ==
    ASSUME NEW now, NEW a, DatedTables(a, now), NEW b, Aged(a, b, now), NEW c, Aged(b, c, now)
    PROVE  Aged(a, c, now)
<1> SUFFICES ASSUME NEW i \in Short
             PROVE  Ages(i, a.database_.packageTable[i], c.database_.packageTable[i], now)
    BY DEF Aged
<1>1. Some(a.database_.packageTable[i])
    BY DEF DatedTables, Neat
<1>2. /\ Ages(i, a.database_.packageTable[i], b.database_.packageTable[i], now)
      /\ Ages(i, b.database_.packageTable[i], c.database_.packageTable[i], now)
    BY DEF Aged
<1> QED BY <1>1, <1>2, AgesOn

\* A method that leaves the tables alone.
LEMMA SameAged ==
    ASSUME NEW now, NEW a, DatedTables(a, now), NEW b,
           b.database_.packageTable = a.database_.packageTable
    PROVE  DatedTables(b, now) /\ Aged(a, b, now)
BY AgesSelf DEF DatedTables, Aged

\* A save.
LEMMA RestoreDated ==
    ASSUME NEW now \in Int, NEW s, Covered(s), Dated(s, now), NEW forced \in BOOLEAN,
           NEW r, r = RestoreStats(s, forced)
    PROVE  Dated(r, now) /\ Aged(s, r, now)
<1>1. CASE ~(s.statsChanged_ \/ forced)
    <2>1. r = s
        BY <1>1, RestoreSkips
    <2> QED BY <2>1, SameAged DEF Dated
<1>2. CASE s.statsChanged_ \/ forced
    <2>1. Shape(s)
        BY DEF Covered, Stored
    <2>2. RestoreDone(s, r)
        BY <1>2, <2>1, RestoreFields
    <2>3. r.currentStats_ = s.currentStats_ /\ r.database_ = Saved(s)
        BY <2>2 DEF RestoreDone
    <2>4. ASSUME NEW i \in Short
          PROVE  /\ Neat(i, r.database_.packageTable[i], now)
                 /\ Ages(i, s.database_.packageTable[i], r.database_.packageTable[i], now)
        <3> DEFINE stats == s.currentStats_[i]
                   old == s.database_.packageTable[i]
                   new == r.database_.packageTable[i]
        <3>1. /\ i \in Interval /\ stats \in PeriodType /\ TablesOK(i, old) /\ Aligned(i, stats.beginTime_)
              /\ Neat(i, old, now) /\ Fresh(stats, now)
            BY DEF Short, Covered, Stored, CoveredFor, Dated, DatedTables
        <3>2. new = IF stats.bundleStats_ = <<>> THEN old ELSE UpdateBundleUsageData(old, i, stats)
            BY <2>3, <3>1 DEF Saved
        <3> HIDE DEF stats, old, new
        <3>3. CASE stats.bundleStats_ = <<>>
            <4>1. new = old
                BY <3>2, <3>3
            <4> QED BY <3>1, <4>1, AgesSelf DEF new, old
        <3>4. CASE stats.bundleStats_ # <<>>
            <4>1. new = UpdateBundleUsageData(old, i, stats)
                BY <3>2, <3>4
            <4>2. Neat(i, new, now) /\ Ages(i, old, new, now)
                BY <3>1, <4>1, SaveAges
            <4> QED BY <4>2 DEF new, old
        <3> QED BY <3>3, <3>4
    <2> QED BY <2>3, <2>4 DEF Dated, DatedTables, Aged
<1> QED BY <1>1, <1>2

\* Periods that are settled, with a time that is not of the future.
LEMMA SettleDated ==
    ASSUME NEW now \in Int, NEW s, Covered(s), Dated(s, now), NEW ts \in Int, ts <= now,
           NEW r, r.database_ = s.database_,
           \A i \in Interval : r.currentStats_[i] = SettlePeriod(s.currentStats_[i], ts)
    PROVE  Dated(r, now) /\ Aged(s, r, now)
<1>1. DatedTables(r, now) /\ Aged(s, r, now)
    BY SameAged DEF Dated
<1>2. ASSUME NEW i \in Short PROVE Fresh(r.currentStats_[i], now)
    <2>1. i \in Interval /\ s.currentStats_[i] \in PeriodType /\ Fresh(s.currentStats_[i], now)
        BY DEF Short, Covered, Stored, Dated
    <2>2. Fresh(SettlePeriod(s.currentStats_[i], ts), now)
        BY <2>1, SettleFresh
    <2> QED BY <2>1, <2>2
<1> QED BY <1>1, <1>2 DEF Dated

\* The end of a day, not later than now.
LEMMA RenewStatsDated ==
    ASSUME NEW now \in Int, NEW s, Covered(s), Dated(s, now), NEW ts \in Int, ts <= now,
           s.dailyExpiryDate_ <= ts, NEW r, RenewDone(s, ts, r)
    PROVE  Dated(r, now) /\ Aged(s, r, now)
<1>1. PICK flushed, saved, cleaned, loaded, continued :
        /\ Covered(flushed) /\ FlushDataDone(s, flushed)
        /\ Covered(saved) /\ saved = RestoreStats(flushed, TRUE) /\ saved.packageUids = s.packageUids
        /\ Covered(cleaned) /\ CleanedDone(saved, ts, cleaned)
        /\ Covered(loaded) /\ LoadDone(cleaned, ts, FALSE, FALSE, loaded)
        /\ Covered(continued) /\ ContinueDone(loaded, flushed, continued)
        /\ r = RestoreStats(continued, TRUE) /\ r.currentStats_ = continued.currentStats_
        /\ r.packageUids = continued.packageUids
    BY Zenon DEF RenewDone
<1>2. Dated(flushed, now) /\ Aged(s, flushed, now)
    <2>1. s.dailyExpiryDate_ - 1 \in Int /\ s.dailyExpiryDate_ - 1 <= now
        BY DEF Covered
    <2>2. /\ flushed.database_ = s.database_
          /\ \A i \in Interval : flushed.currentStats_[i] =
                SettlePeriod(s.currentStats_[i], s.dailyExpiryDate_ - 1)
        BY <1>1 DEF FlushDataDone
    <2> QED BY <2>1, <2>2, SettleDated
<1>3. Dated(saved, now) /\ Aged(flushed, saved, now)
    BY <1>1, <1>2, RestoreDated
<1>4. Dated(cleaned, now) /\ Aged(saved, cleaned, now)
    <2>1. /\ cleaned.currentStats_ = saved.currentStats_
          /\ cleaned.database_.packageTable = RemoveOldData(saved.database_.packageTable, ts)
        BY <1>1 DEF CleanedDone
    <2>2. ASSUME NEW i \in Short
          PROVE  /\ Neat(i, cleaned.database_.packageTable[i], now)
                 /\ Ages(i, saved.database_.packageTable[i], cleaned.database_.packageTable[i], now)
        <3>1. i \in Interval /\ Neat(i, saved.database_.packageTable[i], now)
            BY <1>3 DEF Short, Dated, DatedTables
        <3> QED BY <2>1, <3>1, RemoveOldAges
    <2> QED BY <1>3, <2>1, <2>2 DEF Dated, DatedTables, Aged
<1> DEFINE day == loaded.currentStats_[PERIOD_DAILY].beginTime_
<1>5. /\ Dated(loaded, now) /\ Aged(cleaned, loaded, now) /\ day = TruncateTo(PERIOD_DAILY, ts)
      /\ \A i \in Interval : loaded.currentStats_[i].beginTime_ = TruncateTo(i, ts)
    <2>1. /\ loaded.database_ = cleaned.database_
          /\ \A i \in Interval : loaded.currentStats_[i] = IF i \in Loaded(cleaned, ts, FALSE)
                                                           THEN LoadPeriod(cleaned, i, ts)
                                                           ELSE cleaned.currentStats_[i]
        BY <1>1 DEF LoadDone
    <2>2. DatedTables(loaded, now) /\ Aged(cleaned, loaded, now)
        BY <1>4, <2>1, SameAged DEF Dated
    <2>3. ASSUME NEW i \in Interval
          PROVE  loaded.currentStats_[i].beginTime_ = TruncateTo(i, ts)
        <3>1. CASE i \in Loaded(cleaned, ts, FALSE)
            <4>1. LoadPeriod(cleaned, i, ts).beginTime_ = TruncateTo(i, ts)
                BY DEF LoadPeriod
            <4> QED BY <2>1, <3>1, <4>1
        <3>2. CASE i \notin Loaded(cleaned, ts, FALSE)
            <4>1. cleaned.currentStats_[i].beginTime_ = TruncateTo(i, ts)
                BY <3>2 DEF Loaded
            <4> QED BY <2>1, <3>2, <4>1
        <3> QED BY <3>1, <3>2
    <2>4. ASSUME NEW i \in Short PROVE Fresh(loaded.currentStats_[i], now)
        <3> DEFINE tables == cleaned.database_.packageTable[i]
        <3>1. i \in Interval /\ TablesOK(i, tables) /\ Fresh(cleaned.currentStats_[i], now)
            BY <1>1, <1>4 DEF Short, Covered, Stored, Dated
        <3>2. ASSUME NEW t \in DOMAIN tables PROVE t <= ts
            <4>1. /\ t \in Int /\ t <= cleaned.currentStats_[i].beginTime_
                  /\ cleaned.currentStats_[i].beginTime_ \in Int
                  /\ cleaned.currentStats_[i].beginTime_ <= cleaned.dailyExpiryDate_
                  /\ cleaned.dailyExpiryDate_ \in Int
                BY <1>1, <3>1 DEF Covered, CoveredFor, TablesOK, Aligned
            <4>2. cleaned.dailyExpiryDate_ = s.dailyExpiryDate_
                <5>1. flushed.dailyExpiryDate_ = s.dailyExpiryDate_
                    BY <1>1 DEF FlushDataDone
                <5>2. Shape(flushed) /\ saved = RestoreStats(flushed, TRUE)
                    BY <1>1 DEF Covered, Stored
                <5>3. RestoreDone(flushed, saved)
                    BY <5>2, RestoreFields
                <5> QED BY <1>1, <5>1, <5>3 DEF RestoreDone, CleanedDone
            <4> QED BY <4>1, <4>2
        <3> HIDE DEF tables
        <3>3. Fresh(LoadPeriod(cleaned, i, ts), now)
            BY <3>1, <3>2, LoadPeriodFresh DEF tables
        <3> QED BY <2>1, <3>1, <3>3
    <2> QED BY <2>2, <2>3, <2>4, Intervals DEF Dated
<1>6. Dated(continued, now) /\ Aged(loaded, continued, now)
    <2>1. /\ continued.database_ = loaded.database_
          /\ \A i \in Interval : continued.currentStats_[i] =
                Continued(loaded.currentStats_[i], loaded, flushed)
        BY <1>1 DEF ContinueDone
    <2>2. DatedTables(continued, now) /\ Aged(loaded, continued, now)
        BY <1>5, <2>1, SameAged DEF Dated
    <2>3. /\ loaded.packageUids \subseteq Uid
          /\ \A i \in Interval : loaded.currentStats_[i] \in PeriodType
          /\ \A i \in Interval : flushed.currentStats_[i] \in PeriodType
        BY <1>1 DEF Covered, Stored
    <2>4. day \in Int /\ day <= ts
        BY <1>5, Intervals, Truncated DEF Aligned
    <2> HIDE DEF day
    <2>5. ASSUME NEW i \in Short PROVE Fresh(continued.currentStats_[i], now)
        <3> DEFINE a == loaded.currentStats_[i]
                   b == Continued(a, loaded, flushed)
        <3>1. i \in Interval /\ Fresh(a, now) /\ a \in PeriodType
            BY <1>5, <2>3 DEF Short, Dated
        <3>2. a.beginTime_ <= day
            BY <1>5, <3>1, BeginsBefore
        <3>3. day <= now
            BY <2>4
        <3> HIDE DEF a
        <3>4. Carried(a, b, day)
            BY <2>3, <2>4, <3>1, ContinuedCarried DEF day
        <3> HIDE DEF b
        <3>5. Fresh(b, now)
            BY <3>1, <3>2, <3>3, <3>4 DEF Carried
        <3> QED BY <2>1, <3>1, <3>5 DEF a, b
    <2> QED BY <2>2, <2>5 DEF Dated
<1>7. Dated(r, now) /\ Aged(continued, r, now)
    BY <1>1, <1>6, RestoreDated
<1>8. Aged(s, saved, now)
    BY <1>2, <1>3, AgedOn DEF Dated
<1>9. Aged(s, cleaned, now)
    BY <1>4, <1>8, AgedOn DEF Dated
<1>10. Aged(s, loaded, now)
    BY <1>5, <1>9, AgedOn DEF Dated
<1>11. Aged(s, continued, now)
    BY <1>6, <1>10, AgedOn DEF Dated
<1> QED BY <1>7, <1>11, AgedOn DEF Dated

\* A day that may have ended.
LEMMA RenewDated ==
    ASSUME NEW now \in Int, NEW s, Covered(s), Dated(s, now), NEW ts \in Int, ts <= now
    PROVE  Dated(RenewIfExpired(s, ts), now) /\ Aged(s, RenewIfExpired(s, ts), now)
<1>1. s.dailyExpiryDate_ \in Int
    BY DEF Covered
<1>2. CASE ts >= s.dailyExpiryDate_
    <2>1. s.dailyExpiryDate_ <= ts
        BY <1>1, <1>2
    <2>2. RenewDone(s, ts, RenewStatsInMemory(s, ts))
        BY <2>1, RenewStatsCovered
    <2>3. Dated(RenewStatsInMemory(s, ts), now) /\ Aged(s, RenewStatsInMemory(s, ts), now)
        BY <2>1, <2>2, RenewStatsDated
    <2> QED BY <1>2, <2>3 DEF RenewIfExpired
<1>3. CASE ~(ts >= s.dailyExpiryDate_)
    <2>1. RenewIfExpired(s, ts) = s
        BY <1>3 DEF RenewIfExpired
    <2> QED BY <2>1, SameAged DEF Dated
<1> QED BY <1>2, <1>3

\* A report, now.
LEMMA ReportDated ==
    ASSUME NEW now \in Int, NEW s, Covered(s), Dated(s, now), NEW e, EventOK(e), e.timeStamp = now
    PROVE  Dated(ReportEvent(s, e), now) /\ Aged(s, ReportEvent(s, e), now)
<1> DEFINE q == RenewIfExpired(s, e.timeStamp)
           r == ReportEvent(s, e)
<1>1. Covered(q) /\ Dated(q, now) /\ Aged(s, q, now)
    BY RenewCovered, RenewDated
<1> HIDE DEF q, r
<1>2. Shape(q) /\ q = RenewIfExpired(s, e.timeStamp) /\ r = ReportEvent(s, e)
    BY <1>1 DEF Covered, Stored, q, r
<1>3. ReportDone(q, e, r)
    BY <1>2, ReportFields
<1>4. /\ r.database_ = q.database_
      /\ \A i \in Interval : r.currentStats_[i] = Reported(q.currentStats_[i], e, Launches(q, e))
    BY <1>3 DEF ReportDone
<1>5. DatedTables(r, now) /\ Aged(q, r, now)
    BY <1>1, <1>4, SameAged DEF Dated
<1>6. ASSUME NEW i \in Short PROVE Fresh(r.currentStats_[i], now)
    <2>1. i \in Interval /\ q.currentStats_[i] \in PeriodType /\ Fresh(q.currentStats_[i], now)
        BY <1>1 DEF Short, Covered, Stored, Dated
    <2>2. q.currentStats_[i].beginTime_ <= now /\ now <= now
        BY <2>1 DEF Fresh
    <2>3. Launches(q, e) \in BOOLEAN
        BY DEF Launches
    <2>4. Fresh(Reported(q.currentStats_[i], e, Launches(q, e)), now)
        BY <2>1, <2>2, <2>3, ReportFresh
    <2> QED BY <1>4, <2>1, <2>4
<1>7. Dated(r, now) /\ Aged(s, r, now)
    BY <1>1, <1>5, <1>6, AgedOn DEF Dated
<1> QED BY <1>7 DEF r

\* A flush with a time that is not of the future.
LEMMA FlushDated ==
    ASSUME NEW now \in Int, NEW s, Covered(s), Dated(s, now), NEW ts \in Int, ts <= now
    PROVE  Dated(ReportFlush(s, ts), now) /\ Aged(s, ReportFlush(s, ts), now)
<1> DEFINE q == RenewIfExpired(s, ts)
           r == ReportFlush(s, ts)
<1>1. Covered(q) /\ Dated(q, now) /\ Aged(s, q, now)
    BY RenewCovered, RenewDated
<1> HIDE DEF q, r
<1>2. Shape(q) /\ q = RenewIfExpired(s, ts) /\ r = ReportFlush(s, ts)
    BY <1>1 DEF Covered, Stored, q, r
<1>3. FlushDone(q, ts, r)
    BY <1>2, FlushFields
<1>4. /\ r.database_ = q.database_
      /\ \A i \in Interval : r.currentStats_[i] = SettlePeriod(q.currentStats_[i], ts)
    BY <1>3 DEF FlushDone
<1>5. Dated(r, now) /\ Aged(q, r, now)
    BY <1>1, <1>4, SettleDated
<1>6. Aged(s, r, now)
    BY <1>1, <1>5, AgedOn DEF Dated
<1> QED BY <1>5, <1>6 DEF r

\* A shutdown.
LEMMA ShutdownDated ==
    ASSUME NEW now \in Int, NEW s, Covered(s), Dated(s, now), NEW r,
           r = RestoreStats(ReportForShutdown(s, now), TRUE)
    PROVE  Dated(r, now) /\ Aged(s, r, now)
<1> DEFINE q == ReportFlush(s, now)
           p == ReportForShutdown(s, now)
<1>1. Covered(q) /\ Dated(q, now) /\ Aged(s, q, now)
    BY FlushCovered, FlushDated
<1> HIDE DEF q, p
<1>2. Shape(q) /\ q = ReportFlush(s, now) /\ p = ReportForShutdown(s, now)
    BY <1>1 DEF Covered, Stored, q, p
<1>3. ShutdownDone(q, p)
    BY <1>2, ShutdownFields
<1>4. /\ Shape(p) /\ p.packageUids = q.packageUids /\ p.database_ = q.database_
      /\ p.dailyExpiryDate_ = q.dailyExpiryDate_ /\ p.currentStats_ = q.currentStats_
    BY <1>3 DEF ShutdownDone
<1>5. Covered(p)
    BY <1>1, <1>4 DEF Covered, Stored
<1>6. Dated(p, now) /\ Aged(q, p, now)
    BY <1>1, <1>4, SameAged DEF Dated
<1>7. Dated(r, now) /\ Aged(p, r, now)
    BY <1>5, <1>6, RestoreDated DEF p
<1>8. Aged(s, p, now)
    BY <1>1, <1>6, AgedOn DEF Dated
<1> QED BY <1>6, <1>7, <1>8, AgedOn DEF Dated

\* An uninstall empties tables and drops none.
LEMMA DeleteDated ==
    ASSUME NEW now \in Int, NEW s, Covered(s), Dated(s, now), NEW u \in Uid,
           NEW r, r = DeleteUninstalledBundleStats(s, u)
    PROVE  /\ Dated(r, now)
           /\ \A i \in Short : DOMAIN r.database_.packageTable[i] = DOMAIN s.database_.packageTable[i]
<1> DEFINE gone == InMemory(s, u)
           removed == RemovedUids(u)
<1>1. Covered(r) /\ Shape(s)
    BY DeleteCovered DEF Covered, Stored
<1>2. DeleteDone(s, u, r)
    BY <1>1, DeleteFields
<1>3. /\ r.database_ = OnPackageUninstalled(s.database_, removed)
      /\ \A i \in Interval : r.currentStats_[i] = DeleteMemUsageStats(s.currentStats_[i], gone)
    BY <1>2 DEF DeleteDone
<1> HIDE DEF gone, removed
<1>4. ASSUME NEW i \in Short
      PROVE  /\ DOMAIN r.database_.packageTable[i] = DOMAIN s.database_.packageTable[i]
             /\ Neat(i, r.database_.packageTable[i], now)
             /\ Fresh(r.currentStats_[i], now)
    <2> DEFINE a == s.currentStats_[i]
               b == r.currentStats_[i]
               old == s.database_.packageTable[i]
               new == r.database_.packageTable[i]
    <2>1. /\ i \in Interval /\ a \in PeriodType /\ TablesOK(i, old) /\ TablesOK(i, new)
          /\ Neat(i, old, now) /\ Fresh(a, now)
        BY <1>1 DEF Short, Covered, Stored, Dated, DatedTables
    <2>2. new = [t \in DOMAIN old |-> Restrict(old[t], DOMAIN old[t] \ removed)]
        BY <1>3, <2>1 DEF OnPackageUninstalled
    <2>3. b = [a EXCEPT !.bundleStats_ = Restrict(@, DOMAIN @ \ gone)]
        BY <1>3, <2>1 DEF DeleteMemUsageStats
    <2> HIDE DEF a, b, old, new
    <2>4. Neat(i, new, now)
        <3>1. DOMAIN new = DOMAIN old /\ \A t \in DOMAIN new : DOMAIN new[t] \subseteq DOMAIN old[t]
            BY <2>2 DEF Restrict
        <3>2. \A t \in DOMAIN new : new[t] # <<>> => old[t] # <<>>
            BY <2>1, <3>1, RowsAre
        <3> QED BY <2>1, <3>1, <3>2 DEF Neat, Some
    <2>5. Fresh(b, now)
        <3>1. /\ b.beginTime_ = a.beginTime_
              /\ b.bundleStats_ = Restrict(a.bundleStats_, DOMAIN a.bundleStats_ \ gone)
            BY <2>1, <2>3 DEF PeriodType
        <3>2. \A v \in DOMAIN b.bundleStats_ : v \in DOMAIN a.bundleStats_
                                               /\ b.bundleStats_[v] = a.bundleStats_[v]
            BY <3>1 DEF Restrict
        <3> QED BY <2>1, <3>1, <3>2 DEF Fresh
    <2>6. DOMAIN new = DOMAIN old
        BY <2>2
    <2> QED BY <2>4, <2>5, <2>6 DEF b, old, new
<1> QED BY <1>4 DEF Dated, DatedTables

\* Every table with rows stays as it is.
Keeps(s, r) ==
    \A i \in Short : \A t \in DOMAIN s.database_.packageTable[i] :
        \/ s.database_.packageTable[i][t] = <<>>
        \/ t \in DOMAIN r.database_.packageTable[i] /\ r.database_.packageTable[i][t] # <<>>

\* The begin of a service drops empty tables only.
LEMMA InitDated ==
    ASSUME NEW now \in Nat, NEW s, Stored(s), DatedTables(s, now), NEW r, r = InitService(s, now)
    PROVE  Dated(r, now) /\ Keeps(s, r)
<1> DEFINE o == Opened(s, now)
<1>1. Shape(s) /\ r = LoadActiveStats(o, now, FALSE, FALSE)
    BY InitServiceIs, Zenon DEF Stored
<1>2. Covered(r)
    BY InitCovered
<1> HIDE DEF o
<1>3. OpenedDone(s, now, o)
    BY <1>1, OpenedFields DEF o
<1>4. LoadDone(o, now, FALSE, FALSE, r)
    <2>1. Shape(o)
        BY <1>3 DEF OpenedDone
    <2> QED BY <1>1, <2>1, LoadFields
<1>5. /\ r.database_ = o.database_
      /\ \A i \in Interval : r.currentStats_[i] = IF i \in Loaded(o, now, FALSE)
                                                  THEN LoadPeriod(o, i, now) ELSE o.currentStats_[i]
    BY <1>4 DEF LoadDone
<1>6. ASSUME NEW i \in Short
      PROVE  /\ Neat(i, r.database_.packageTable[i], now)
             /\ Fresh(r.currentStats_[i], now)
             /\ \A t \in DOMAIN s.database_.packageTable[i] :
                  \/ s.database_.packageTable[i][t] = <<>>
                  \/ /\ t \in DOMAIN r.database_.packageTable[i]
                     /\ r.database_.packageTable[i][t] # <<>>
    <2> DEFINE old == s.database_.packageTable[i]
               new == o.database_.packageTable[i]
               past == {t \in DOMAIN old : t < now}
    <2>1. i \in Interval /\ TablesOK(i, old) /\ Neat(i, old, now) /\ TablesOK(i, new)
        BY <1>2, <1>5 DEF Short, Stored, Covered, DatedTables
    <2>2. new = LET tables == DeleteExcessiveTableData(old, i)
                IN  Restrict(tables, {t \in DOMAIN tables : t < now})
        BY <1>3, <2>1 DEF OpenedDone, InitDatabaseTableInfo
    <2> HIDE DEF old, new
    <2>3. DeleteExcessiveTableData(old, i) = old
        BY <2>1, ExcessiveNone DEF TablesOK, Neat
    <2>4. DOMAIN new = past /\ \A t \in past : new[t] = old[t]
        BY <2>2, <2>3 DEF Restrict
    <2>5. Neat(i, new, now)
        <3>1. Some(old) /\ Cardinality(DOMAIN old) <= MaxFiles[i] /\ past \subseteq DOMAIN old
            BY <2>1 DEF Neat
        <3>2. IsFiniteSet(past) /\ Cardinality(past) <= Cardinality(DOMAIN old)
            BY <3>1, FS_Subset DEF Some
        <3>3. /\ Cardinality(past) \in Nat /\ Cardinality(DOMAIN old) \in Nat
              /\ MaxFiles[i] \in Nat
            BY <2>1, <3>1, <3>2, FS_CardinalityType, Kepts DEF Some
        <3>4. Cardinality(past) <= MaxFiles[i]
            BY <3>1, <3>2, <3>3
        <3>5. \A t \in past : t < now
            OBVIOUS
        <3> HIDE DEF past
        <3> QED BY <2>4, <3>1, <3>2, <3>4, <3>5 DEF Neat, Some
    <2>6. \A t \in DOMAIN old : old[t] = <<>> \/ (t \in DOMAIN new /\ new[t] # <<>>)
        BY <2>1, <2>4 DEF Neat
    <2>7. Fresh(r.currentStats_[i], now)
        <3>1. CASE i \in Loaded(o, now, FALSE)
            <4>1. \A t \in DOMAIN new : t <= now
                <5> TAKE t \in DOMAIN new
                <5>1. t < now /\ t \in Int
                    BY <2>1, <2>4 DEF TablesOK, Aligned
                <5> QED BY <5>1
            <4>2. now \in Int /\ now <= now
                OBVIOUS
            <4>3. Fresh(LoadPeriod(o, i, now), now)
                BY <2>1, <4>1, <4>2, LoadPeriodFresh DEF new
            <4> QED BY <1>5, <2>1, <3>1, <4>3
        <3>2. CASE i \notin Loaded(o, now, FALSE)
            <4>1. r.currentStats_[i] = [beginTime_ |-> Unknown, bundleStats_ |-> <<>>]
                BY <1>3, <1>5, <2>1, <3>2 DEF OpenedDone
            <4>2. Unknown <= now /\ DOMAIN <<>> = {}
                BY DEF Unknown
            <4> QED BY <4>1, <4>2 DEF Fresh
        <3> QED BY <3>1, <3>2
    <2> QED BY <1>5, <2>5, <2>6, <2>7 DEF old, new
<1> QED BY <1>6 DEF Dated, DatedTables, Keeps

\* Time passes.
LEMMA DatedLater ==
    ASSUME NEW now \in Int, NEW later \in Int, now <= later, NEW s, Stored(s)
    PROVE  /\ DatedTables(s, now) => DatedTables(s, later)
           /\ Dated(s, now) => Dated(s, later)
<1>1. ASSUME NEW i \in Short, Neat(i, s.database_.packageTable[i], now)
      PROVE  Neat(i, s.database_.packageTable[i], later)
    <2> DEFINE tables == s.database_.packageTable[i]
    <2>1. /\ Some(tables) /\ Cardinality(DOMAIN tables) <= MaxFiles[i]
          /\ \A t \in DOMAIN tables : t \in Int /\ (tables[t] # <<>> => t < now)
        BY <1>1 DEF Neat, Some
    <2> HIDE DEF tables
    <2>2. \A t \in DOMAIN tables : tables[t] # <<>> => t < later
        BY <2>1
    <2>3. Neat(i, tables, later)
        BY <2>1, <2>2 DEF Neat
    <2> QED BY <2>3 DEF tables
<1>2. ASSUME NEW i \in Short, Fresh(s.currentStats_[i], now)
      PROVE  Fresh(s.currentStats_[i], later)
    <2> DEFINE st == s.currentStats_[i]
    <2>1. st.beginTime_ \in Int
        BY DEF Short, Stored, PeriodType
    <2>2. /\ st.beginTime_ <= now
          /\ \A u \in DOMAIN st.bundleStats_ : FreshStats(st.bundleStats_[u], st.beginTime_, now)
        BY <1>2 DEF Fresh
    <2> HIDE DEF st
    <2>3. st.beginTime_ <= later /\ (st.beginTime_ < now => st.beginTime_ < later)
        BY <2>1, <2>2
    <2>4. Fresh(st, later)
        BY <2>2, <2>3 DEF Fresh, FreshStats
    <2> QED BY <2>4 DEF st
<1> QED BY <1>1, <1>2 DEF Dated, DatedTables

-----------------------------------------------------------------------------
(* Tables leave when they are old                                          *)

\* The dates of the service, and of the time a flush has read, while the clock is not set.
AgeOK ==
    /\ flush.pc # "idle" => flush.timeStamp <= SystemTime
    /\ DatedTables(svc, SystemTime)
    /\ svc.up => Dated(svc, SystemTime)

\* The inductive invariant.
AgeInv == CoverInv /\ (jumps = 0 => AgeOK)

\* A table with rows is too old or still there.
Leaves(s, r, now) ==
    \A i \in Short : \A t \in DOMAIN s.database_.packageTable[i] :
        \/ s.database_.packageTable[i][t] = <<>>
        \/ TooOld(i, r.database_.packageTable[i], t, now)
        \/ t \in DOMAIN r.database_.packageTable[i]

\* There are no tables at the start.
LEMMA AgeInit == Init => AgeInv
<1> SUFFICES ASSUME Init PROVE AgeOK
    BY CoverInit DEF AgeInv
<1>1. svc = NoService(EmptyDatabase) /\ flush.pc = "idle"
    BY DEF Init, Idle
<1>2. EmptyDatabase = [f \in {"packageTable", "eventTable"} |-> EmptyDatabase[f]]
    BY DEF EmptyDatabase
<1>3. svc.up = FALSE /\ svc.database_ = EmptyDatabase
    BY <1>1, <1>2, NoServiceFields
<1>4. ASSUME NEW i \in Short PROVE Neat(i, svc.database_.packageTable[i], SystemTime)
    <2>1. svc.database_.packageTable[i] = <<>> /\ i \in Interval
        BY <1>3 DEF EmptyDatabase, Short
    <2>2. DOMAIN <<>> = {} /\ IsFiniteSet({}) /\ Cardinality({}) = 0
        BY FS_EmptySet
    <2>3. Cardinality({}) <= MaxFiles[i]
        BY <2>1, <2>2, Kepts
    <2> QED BY <2>1, <2>2, <2>3 DEF Neat, Some
<1> QED BY <1>1, <1>3, <1>4 DEF AgeOK, DatedTables

\* Tables that are kept when the service begins, and then leave when they are old, ...
LEMMA KeepsAged ==
    ASSUME NEW now, NEW s, \A i \in Short : DOMAIN s.database_.packageTable[i] \subseteq Int,
           NEW q, Keeps(s, q), NEW r, Aged(q, r, now)
    PROVE  Leaves(s, r, now)
<1> SUFFICES ASSUME NEW i \in Short, NEW t \in DOMAIN s.database_.packageTable[i],
                    s.database_.packageTable[i][t] # <<>>
             PROVE  \/ TooOld(i, r.database_.packageTable[i], t, now)
                    \/ t \in DOMAIN r.database_.packageTable[i]
    BY DEF Leaves
<1>1. t \in DOMAIN q.database_.packageTable[i] /\ q.database_.packageTable[i][t] # <<>>
    BY DEF Keeps
<1>2. Ages(i, q.database_.packageTable[i], r.database_.packageTable[i], now)
    BY DEF Aged
<1> QED BY <1>1, <1>2 DEF Ages

\* ... or are all there.
LEMMA KeepsAll ==
    ASSUME NEW now, NEW s, NEW q, Keeps(s, q), NEW r,
           \A i \in Short : DOMAIN r.database_.packageTable[i] = DOMAIN q.database_.packageTable[i]
    PROVE  Leaves(s, r, now)
BY DEF Keeps, Leaves

\* Nothing changes.
LEMMA KeepsSelf == ASSUME NEW s PROVE Keeps(s, s)
BY DEF Keeps

\* A handler that has looked at the clock has a service with dates, and every row.
LEMMA HandlerDated ==
    ASSUME ClocksOK, jumps = 0, CoverOK, AgeOK, NEW q, q = GetUserData(CheckTimeChange(svc))
    PROVE  Covered(q) /\ Dated(q, SystemTime) /\ Keeps(svc, q)
<1>1. offset = shot /\ SystemTime \in Nat
    BY DEF ClocksOK, SystemTime
<1>2. CheckTimeChange(svc) = svc
    BY <1>1 DEF CheckTimeChange
<1>3. CASE svc.up
    <2>1. q = svc
        BY <1>2, <1>3 DEF GetUserData
    <2> QED BY <1>3, <2>1, KeepsSelf DEF CoverOK, AgeOK
<1>4. CASE ~svc.up
    <2>1. q = InitService(svc, SystemTime)
        BY <1>2, <1>4 DEF GetUserData
    <2>2. Dated(q, SystemTime) /\ Keeps(svc, q)
        BY <1>1, <2>1, InitDated DEF CoverOK, AgeOK
    <2> QED BY <2>2, CheckedCovered
<1> QED BY <1>3, <1>4

\* A step that takes the service to r, in no time.
AgedStep(r) ==
    /\ svc' = r /\ boot' = boot /\ offset' = offset
    /\ Dated(r, SystemTime) /\ Leaves(svc, r, SystemTime)

\* It keeps the dates.
LEMMA AgesStep ==
    ASSUME AgeOK, NEW r, AgedStep(r), flush' = flush PROVE AgeOK' /\ Leaves(svc, svc', SystemTime)
<1>1. SystemTime' = SystemTime
    BY DEF AgedStep, SystemTime
<1>2. svc' = r /\ Dated(r, SystemTime) /\ Leaves(svc, r, SystemTime)
    BY DEF AgedStep
<1>3. flush.pc # "idle" => flush.timeStamp <= SystemTime
    BY DEF AgeOK
<1>4. DatedTables(svc', SystemTime') /\ Dated(svc', SystemTime')
    BY <1>1, <1>2 DEF Dated
<1> QED BY <1>1, <1>2, <1>3, <1>4 DEF AgeOK

\* The tables begin at numbers.
LEMMA TablesInt ==
    ASSUME NEW now, NEW s, DatedTables(s, now), NEW i \in Short
    PROVE  DOMAIN s.database_.packageTable[i] \subseteq Int
BY DEF DatedTables, Neat, Some

\* A report.
LEMMA ReportAges ==
    ASSUME ClocksOK, jumps = 0, CoverOK, AgeOK, NEW e, EventOK(e), e.timeStamp = SystemTime, Report(e)
    PROVE  AgeOK' /\ Leaves(svc, svc', SystemTime)
<1> DEFINE q == GetUserData(CheckTimeChange(svc))
           r == ReportEvent(q, e)
<1>1. Covered(q) /\ Dated(q, SystemTime) /\ Keeps(svc, q) /\ SystemTime \in Int
    BY HandlerDated DEF ClocksOK, SystemTime
<1>2. svc' = r /\ flush' = flush /\ boot' = boot /\ offset' = offset
    BY Zenon DEF Report
<1> HIDE DEF q
<1>3. Dated(r, SystemTime) /\ Aged(q, r, SystemTime)
    BY <1>1, ReportDated
<1> HIDE DEF r
<1>4. Leaves(svc, r, SystemTime)
    BY <1>1, <1>3, TablesInt, KeepsAged DEF AgeOK
<1> QED BY <1>2, <1>3, <1>4, AgesStep DEF AgedStep

\* An uninstall.
LEMMA UninstallAges ==
    ASSUME ClocksOK, jumps = 0, CoverOK, AgeOK, NEW u \in Uid, Uninstall(u)
    PROVE  AgeOK' /\ Leaves(svc, svc', SystemTime)
<1> DEFINE q == GetUserData(CheckTimeChange(svc))
           r == DeleteUninstalledBundleStats(q, u)
<1>1. Covered(q) /\ Dated(q, SystemTime) /\ Keeps(svc, q) /\ SystemTime \in Int
    BY HandlerDated DEF ClocksOK, SystemTime
<1>2. svc' = r /\ flush' = flush /\ boot' = boot /\ offset' = offset
    BY Zenon DEF Uninstall
<1> HIDE DEF q
<1>3. /\ Dated(r, SystemTime)
      /\ \A i \in Short : DOMAIN r.database_.packageTable[i] = DOMAIN q.database_.packageTable[i]
    BY <1>1, DeleteDated
<1> HIDE DEF r
<1>4. Leaves(svc, r, SystemTime)
    BY <1>1, <1>3, KeepsAll
<1> QED BY <1>2, <1>3, <1>4, AgesStep DEF AgedStep

\* A query.
LEMMA QueryAges ==
    ASSUME ClocksOK, jumps = 0, CoverOK, AgeOK, Query
    PROVE  AgeOK' /\ Leaves(svc, svc', SystemTime)
<1> DEFINE q == GetUserData(CheckTimeChange(svc))
<1>1. Dated(q, SystemTime) /\ Keeps(svc, q)
    BY HandlerDated
<1>2. svc' = q /\ flush' = flush /\ boot' = boot /\ offset' = offset
    BY Zenon DEF Query
<1> HIDE DEF q
<1>3. Leaves(svc, q, SystemTime)
    BY <1>1, KeepsAll
<1> QED BY <1>1, <1>2, <1>3, AgesStep DEF AgedStep

\* A shutdown.
LEMMA ShutDownAges ==
    ASSUME ClocksOK, CoverOK, AgeOK, ShutDown
    PROVE  AgeOK' /\ Leaves(svc, svc', SystemTime)
<1> DEFINE r == RestoreStats(ReportForShutdown(svc, SystemTime), TRUE)
<1>1. Covered(svc) /\ Dated(svc, SystemTime) /\ SystemTime \in Int
    BY DEF ShutDown, CoverOK, AgeOK, ClocksOK, SystemTime
<1>2. svc' = r
    BY Zenon DEF ShutDown
<1>3. flush' = flush /\ boot' = boot /\ offset' = offset
    BY DEF ShutDown
<1>4. Dated(r, SystemTime) /\ Aged(svc, r, SystemTime)
    BY <1>1, ShutdownDated
<1> HIDE DEF r
<1>5. Leaves(svc, r, SystemTime)
    BY <1>1, <1>4, TablesInt, KeepsSelf, KeepsAged DEF Dated
<1> QED BY <1>2, <1>3, <1>4, <1>5, AgesStep DEF AgedStep

\* The three parts of a flush: the time the first has read is not of the future.
LEMMA FlushAges ==
    ASSUME ClocksOK, EventsOK, CoverOK, AgeOK, FlushBegin \/ FlushReport \/ FlushRestore
    PROVE  AgeOK' /\ Leaves(svc, svc', SystemTime)
<1>1. boot' = boot /\ offset' = offset /\ SystemTime \in Int
    <2>1. boot' = boot /\ offset' = offset
        BY DEF FlushBegin, FlushReport, FlushRestore, history
    <2>2. SystemTime \in Int
        BY DEF ClocksOK, SystemTime
    <2> QED BY <2>1, <2>2
<1>2. svc.up
    BY DEF EventsOK, FlushBegin, FlushReport, FlushRestore
<1>3. Covered(svc) /\ Dated(svc, SystemTime) /\ Keeps(svc, svc)
    BY <1>2, KeepsSelf DEF CoverOK, AgeOK
<1>4. ASSUME NEW r, Dated(r, SystemTime), Leaves(svc, r, SystemTime), svc' = r,
             flush'.pc # "idle" => flush'.timeStamp <= SystemTime
      PROVE  AgeOK' /\ Leaves(svc, svc', SystemTime)
    <2>1. SystemTime' = SystemTime
        BY <1>1 DEF SystemTime
    <2>2. DatedTables(svc', SystemTime') /\ Dated(svc', SystemTime')
        BY <1>4, <2>1 DEF Dated
    <2> QED BY <1>4, <2>1, <2>2 DEF AgeOK
<1>5. CASE FlushBegin
    <2>1. svc' = svc /\ flush' = [pc |-> "report", timeStamp |-> SystemTime]
        BY <1>5 DEF FlushBegin
    <2>2. flush'.timeStamp <= SystemTime
        BY <1>1, <2>1
    <2>3. Leaves(svc, svc, SystemTime)
        BY <1>3, KeepsAll
    <2> QED BY <1>3, <1>4, <2>1, <2>2, <2>3
<1>6. CASE FlushReport
    <2> DEFINE r == ReportFlush(svc, flush.timeStamp)
    <2>1. flush.timeStamp \in Int /\ flush.timeStamp <= SystemTime
        BY <1>6 DEF FlushReport, CoverOK, AgeOK
    <2>2. svc' = r /\ flush'.timeStamp = flush.timeStamp
        BY <1>6 DEF FlushReport, CoverOK
    <2>3. Dated(r, SystemTime) /\ Aged(svc, r, SystemTime)
        BY <1>1, <1>3, <2>1, FlushDated
    <2> HIDE DEF r
    <2>4. Leaves(svc, r, SystemTime)
        BY <1>3, <2>3, TablesInt, KeepsAged DEF Dated
    <2> QED BY <1>4, <2>1, <2>2, <2>3, <2>4
<1>7. CASE FlushRestore
    <2> DEFINE r == RestoreStats(svc, FALSE)
    <2>1. svc' = r /\ flush'.pc = "idle"
        BY <1>7 DEF FlushRestore, Idle
    <2>2. Dated(r, SystemTime) /\ Aged(svc, r, SystemTime)
        BY <1>1, <1>3, RestoreDated
    <2> HIDE DEF r
    <2>3. Leaves(svc, r, SystemTime)
        BY <1>3, <2>2, TablesInt, KeepsAged DEF Dated
    <2> QED BY <1>4, <2>1, <2>2, <2>3
<1> QED BY <1>5, <1>6, <1>7

\* A step that leaves the database as it is.
LEMMA SameLeaves ==
    ASSUME NEW r, svc' = r, r.database_ = svc.database_ PROVE Leaves(svc, svc', SystemTime)
BY DEF Leaves

\* Time passes.
LEMMA TickAges ==
    ASSUME ClocksOK, CoverOK, AgeOK, Tick PROVE AgeOK' /\ Leaves(svc, svc', SystemTime)
<1>1. svc' = svc /\ flush' = flush /\ boot' = boot + 1 /\ offset' = offset
    BY DEF Tick
<1>2. boot \in Int /\ offset \in Int /\ SystemTime = boot + offset /\ SystemTime' = boot + 1 + offset
    BY <1>1 DEF ClocksOK, SystemTime
<1>3. SystemTime \in Int /\ SystemTime' \in Int /\ SystemTime <= SystemTime'
    BY <1>2
<1>4. Stored(svc) /\ flush.timeStamp \in Int
    BY DEF CoverOK
<1>5. /\ DatedTables(svc, SystemTime) => DatedTables(svc, SystemTime')
      /\ Dated(svc, SystemTime) => Dated(svc, SystemTime')
    BY <1>3, <1>4, DatedLater
<1>6. DatedTables(svc', SystemTime') /\ (svc'.up => Dated(svc', SystemTime'))
    BY <1>1, <1>5 DEF AgeOK
<1>7. flush'.pc # "idle" => flush'.timeStamp <= SystemTime'
    BY <1>1, <1>3, <1>4 DEF AgeOK
<1>8. AgeOK'
    BY <1>6, <1>7 DEF AgeOK
<1> QED BY <1>1, <1>8, SameLeaves

\* The process dies: its tables stay.
LEMMA CrashAges ==
    ASSUME CoverOK, AgeOK, Crash PROVE AgeOK' /\ Leaves(svc, svc', SystemTime)
<1> DEFINE r == NoService(svc.database_)
<1>1. svc' = r /\ flush' = [pc |-> "idle", timeStamp |-> 0] /\ boot' = boot /\ offset' = offset
    BY DEF Crash, Idle
<1>2. r.up = FALSE /\ r.database_ = svc.database_
    <2>1. svc.database_ = [f \in {"packageTable", "eventTable"} |-> svc.database_[f]]
        BY DEF CoverOK, Stored, Shape
    <2> QED BY <2>1, NoServiceFields
<1> HIDE DEF r
<1>3. SystemTime' = SystemTime
    BY <1>1 DEF SystemTime
<1>4. DatedTables(svc', SystemTime')
    BY <1>1, <1>2, <1>3 DEF AgeOK, DatedTables
<1>5. AgeOK'
    BY <1>1, <1>2, <1>4 DEF AgeOK
<1> QED BY <1>1, <1>2, <1>5, SameLeaves

\* A full folder loses events, not tables.
LEMMA SizeAges ==
    ASSUME CoverOK, AgeOK, NEW days, NEW begin, ProcessDataSize(days, begin)
    PROVE  AgeOK' /\ Leaves(svc, svc', SystemTime)
<1>1. /\ svc.up /\ svc'.currentStats_ = svc.currentStats_
      /\ svc'.database_.packageTable = svc.database_.packageTable
      /\ UNCHANGED <<boot, offset, flush>>
    BY SizeFields DEF CoverOK, Stored
<1>2. Dated(svc', SystemTime)
    BY <1>1 DEF AgeOK, Dated, DatedTables
<1>3. Leaves(svc, svc', SystemTime)
    BY <1>1 DEF Leaves
<1> QED BY <1>1, <1>2, <1>3, AgesStep DEF AgedStep

\* Every step, as long as the clock is not set.
LEMMA LeavesStep ==
    ASSUME CoverInv, AgeOK, [Next]_vars, jumps = 0
    PROVE  (jumps' = 0 => AgeOK') /\ Leaves(svc, svc', SystemTime)
<1> DEFINE Step == (jumps' = 0 => AgeOK') /\ Leaves(svc, svc', SystemTime)
<1>1. /\ ClocksOK /\ scenario \in Scenario
      /\ scenario.uids \subseteq Uid /\ scenario.tasks \subseteq Task
    BY ScenarioIs DEF CoverInv, EventsInv, ClocksOK
<1>2. CoverOK /\ EventsOK /\ SystemTime \in Int
    BY <1>1 DEF CoverInv, EventsInv, Accountable, ClockWasSet, ClocksOK, SystemTime
<1>3. ASSUME NEW u \in scenario.uids, NEW id \in AbilityEventId, NEW a \in Ability, AbilityEvent(u, id, a)
      PROVE  Step
    <2> DEFINE e == [id |-> reports + 1, eventId |-> id, uid |-> u, ability |-> a,
                     timeStamp |-> SystemTime]
    <2>1. Report(e) /\ EventOK(e) /\ e.timeStamp = SystemTime
        BY <1>1, <1>2, <1>3 DEF AbilityEvent, EventOK
    <2> HIDE DEF e
    <2> QED BY <1>1, <1>2, <2>1, ReportAges
<1>4. ASSUME NEW u \in scenario.uids, NEW id \in TaskEventId, NEW t \in scenario.tasks, TaskEvent(u, id, t)
      PROVE  Step
    <2> DEFINE e == [id |-> reports + 1, eventId |-> id, uid |-> u, task |-> t,
                     timeStamp |-> SystemTime]
    <2>1. Report(e) /\ EventOK(e) /\ e.timeStamp = SystemTime
        BY <1>1, <1>2, <1>4 DEF TaskEvent, EventOK
    <2> HIDE DEF e
    <2> QED BY <1>1, <1>2, <2>1, ReportAges
<1>5. CASE \E u \in scenario.uids : Uninstall(u)
    BY <1>1, <1>2, <1>5, UninstallAges
<1>6. CASE FlushBegin \/ FlushReport \/ FlushRestore
    BY <1>1, <1>2, <1>6, FlushAges
<1>7. CASE Query
    BY <1>1, <1>2, <1>7, QueryAges
<1>8. CASE ShutDown
    BY <1>1, <1>2, <1>8, ShutDownAges
<1>9. CASE Tick
    BY <1>1, <1>2, <1>9, TickAges
<1>10. CASE \E d \in ClockJump : SetClock(d)
    <2>1. jumps' = jumps + 1 /\ svc' = svc
        BY <1>10 DEF SetClock
    <2>2. jumps' # 0
        BY <2>1
    <2> QED BY <2>1, <2>2, SameLeaves
<1>11. CASE Crash
    BY <1>2, <1>11, CrashAges
<1>12. CASE UNCHANGED vars
    <2>1. svc' = svc /\ flush' = flush /\ boot' = boot /\ offset' = offset
        BY <1>12 DEF vars
    <2>2. AgeOK'
        BY <2>1 DEF AgeOK, SystemTime
    <2> QED BY <2>1, <2>2, SameLeaves
<1>13. CASE \E days \in 0..MAX_DELETE_EVENT_DALIYS,
               begin \in DOMAIN svc.database_.packageTable[PERIOD_DAILY] :
                 ProcessDataSize(days, begin)
    BY <1>2, <1>13, SizeAges
<1> QED BY <1>3, <1>4, <1>5, <1>6, <1>7, <1>8, <1>9, <1>10, <1>11, <1>12, <1>13 DEF Next

\* Every step keeps the dates.
LEMMA AgeStep == AgeInv /\ [Next]_vars => AgeInv'
<1> SUFFICES ASSUME AgeInv, [Next]_vars, jumps' = 0 PROVE AgeOK'
    BY CoverStep DEF AgeInv
<1>1. jumps \in Nat
    BY DEF AgeInv, CoverInv, EventsInv, ClocksOK
<1>2. jumps' \in {jumps, jumps + 1}
    BY StepClocks DEF SameClocks
<1>3. jumps = 0
    BY <1>1, <1>2
<1> QED BY <1>3, LeavesStep DEF AgeInv

\* While the clock is not set no save, roll over, renewal or restart loses a table of
\* rows that is neither outdated nor pushed out by the newer ones that are kept.
THEOREM TablesLeaveOnlyWhenOld == Spec => TablesLeaveWhenOld
<1> DEFINE A == ~ClockWasSet => \A i \in Interval : PeriodLength[i] <= Span[i] =>
                    LET old == svc.database_.packageTable[i]
                        new == svc'.database_.packageTable[i]
                    IN  \A t \in DOMAIN old \ DOMAIN new :
                            \/ old[t] = <<>>
                            \/ Cardinality({x \in DOMAIN new : x > t}) >= MaxFiles[i]
                            \/ t + MaxFiles[i] * PeriodLength[i] < SystemTime
<1>1. AgeInv /\ [Next]_vars => A
    <2> SUFFICES ASSUME AgeInv, [Next]_vars, ~ClockWasSet, NEW i \in Interval, PeriodLength[i] <= Span[i],
                        NEW t \in DOMAIN svc.database_.packageTable[i] \ DOMAIN svc'.database_.packageTable[i]
                 PROVE  \/ svc.database_.packageTable[i][t] = <<>>
                        \/ TooOld(i, svc'.database_.packageTable[i], t, SystemTime)
        BY DEF TooOld, Newer
    <2>1. jumps = 0
        BY DEF AgeInv, CoverInv, EventsInv, ClocksOK, ClockWasSet
    <2>2. Leaves(svc, svc', SystemTime)
        BY <2>1, LeavesStep DEF AgeInv
    <2>3. i \in Short
        BY DEF Short
    <2> QED BY <2>2, <2>3 DEF Leaves
<1>2. AgeInv /\ [Next]_vars => [A]_vars
    BY <1>1
<1> QED BY AgeInit, AgeStep, <1>2, PTL DEF Spec, TablesLeaveWhenOld
=============================================================================
