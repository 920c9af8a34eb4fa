---------------------------- MODULE UsageDatabase ----------------------------
(***************************************************************************)
(* BundleActiveUsageDatabase, as far as the usage of packages and the event *)
(* log of one user go.  Pure operators on the content of the database.     *)
(*                                                                         *)
(* packageTable[i] is the database file of interval i: a function from the *)
(* begin times of its tables (the number in a table's name) to the table,  *)
(* and a table is a function from the uids that have a row to the row.     *)
(* sortedTableArray_[i] is DOMAIN packageTable[i].  eventTable is the one  *)
(* table of the event log: its time (Unknown when there is none) and the   *)
(* events of each uid in it, with their times relative to the table's.  Of *)
(* an event only its time counts; the number id tells events of one time   *)
(* apart, as the id of a row does.                                         *)
(***************************************************************************)
EXTENDS PackageStats, FiniteSets, FiniteSetsExt, SequencesExt

CONSTANTS
    Uid,            \* uids of bundle instances, ordered as std::set<int32_t> is
    Bundle,         \* bundle names
    BundleOf,       \* the bundle of a uid: [Uid -> Bundle]
    MainUid,        \* the uids with appIndex 0; the others are clones
    Span,           \* Span[i]: ticks of calendar period i (1: day, then longer)
    PeriodLength,   \* PeriodLength[i]: periodLength_, the constant the code uses
    MaxFiles,       \* MaxFiles[i]: MAX_FILES_EVERY_INTERVAL_TYPE
    EventHorizon,   \* SEVEN_DAY_IN_MILLIS_MAX: older events are deleted
    MAX_DELETE_EVENT_DALIYS \* by how many days less when the folder is full

Interval == DOMAIN Span
PERIOD_DAILY == 1

ASSUME UidAssumption ==
    /\ Uid \subseteq Nat /\ IsFiniteSet(Uid)
    /\ MainUid \subseteq Uid
    /\ BundleOf \in [Uid -> Bundle]
\* Intervals are numbered.  A day is a day, and the other periods are made of days;
\* a month or a year may be longer or shorter than the constant.
ASSUME IntervalAssumption ==
    /\ Span \in Seq(Nat \ {0}) /\ Span # <<>>
    /\ \A i \in Interval : /\ PeriodLength[i] \in Nat \ {0}
                           /\ MaxFiles[i] \in Nat \ {0}
                           /\ Span[i] % Span[PERIOD_DAILY] = 0
    /\ PeriodLength[PERIOD_DAILY] = Span[PERIOD_DAILY]
ASSUME HorizonAssumption == EventHorizon \in Nat /\ MAX_DELETE_EVENT_DALIYS \in Nat

Unknown == -1
NoEvents == [u \in Uid |-> {}]
\* expired is history: the events that were deleted for their age, how old they were,
\* and by how many days early.
NoEventTable == [time |-> Unknown, rows |-> NoEvents, expired |-> NoEvents]
EmptyDatabase == [packageTable |-> [i \in Interval |-> <<>>], eventTable |-> NoEventTable]

\* BundleActiveCalendar::TruncateTo, for periods of equal length.
TruncateTo(i, time) == time - (time % Span[i])

-----------------------------------------------------------------------------
\* FlushPackageInfo writes times relative to the table, GetCurrentBundleStats
\* adds the table's time again; -1 stands for "never" on both sides.
Relative(time, tableTime) == IF time = -1 THEN -1 ELSE time - tableTime
Absolute(time, tableTime) == IF time = -1 THEN -1 ELSE time + tableTime

RowOf(p, tableTime) ==
    [startCount |-> p.startCount_,
     lastTime |-> Relative(p.lastTimeUsed_, tableTime),
     lastTimeContinuousTask |-> Relative(p.lastContiniousTaskUsed_, tableTime),
     totalTime |-> p.totalInFrontTime_,
     totalTimeContinuousTask |-> p.totalContiniousTaskUsedTime_]

StatsOf(row, tableTime) ==
    [NewPackageStats EXCEPT
        !.startCount_ = row.startCount,
        !.lastTimeUsed_ = Absolute(row.lastTime, tableTime),
        !.lastContiniousTaskUsed_ = Absolute(row.lastTimeContinuousTask, tableTime),
        !.totalInFrontTime_ = row.totalTime,
        !.totalContiniousTaskUsedTime_ = row.totalTimeContinuousTask]

WorthSaving(p) == p.totalInFrontTime_ # 0 \/ p.totalContiniousTaskUsedTime_ # 0

\* Mutant: the totals in memory are added to the row instead of replacing it.
FlushPackageInfoAdds(table, tableTime, bundleStats) ==
    LET saved == {u \in DOMAIN bundleStats : WorthSaving(bundleStats[u])}
        Before(u) == IF u \in DOMAIN table THEN table[u].totalTime ELSE 0
    IN  [u \in DOMAIN table \cup saved |->
            IF u \in saved
            THEN [RowOf(bundleStats[u], tableTime) EXCEPT !.totalTime = @ + Before(u)]
            ELSE table[u]]

\* Update the row of every bundle with a nonzero total, insert it if there is none.
FlushPackageInfo(table, tableTime, bundleStats) ==
    LET saved == {u \in DOMAIN bundleStats : WorthSaving(bundleStats[u])}
    IN  [u \in DOMAIN table \cup saved |->
            IF u \in saved THEN RowOf(bundleStats[u], tableTime) ELSE table[u]]

\* Mutant: one table too many is deleted.
DeleteExcessiveOneMore(tables, i) ==
    Restrict(tables, {t \in DOMAIN tables :
                        Cardinality({x \in DOMAIN tables : x > t}) < MaxFiles[i] - 1})

LastTable(tables) == Max(DOMAIN tables)

\* The MaxFiles[i] latest tables are kept.
DeleteExcessiveTableData(tables, i) ==
    Restrict(tables, {t \in DOMAIN tables :
                        Cardinality({x \in DOMAIN tables : x > t}) < MaxFiles[i]})

\* The table is created first if it is missing.  A table so old that the clean up
\* drops it again cannot be written.
UpdateBundleUsageData(tables, i, stats) ==
    LET begin == stats.beginTime_
        created == IF begin \in DOMAIN tables THEN tables
                   ELSE DeleteExcessiveTableData(
                            [t \in DOMAIN tables \cup {begin} |->
                                IF t = begin THEN <<>> ELSE tables[t]], i)
    IN  IF begin \in DOMAIN created
        THEN [created EXCEPT ![begin] = FlushPackageInfo(@, begin, stats.bundleStats_)]
        ELSE created

\* How much older than the day an event has to be, when deleteDays are to be gained.
Horizon(deleteDays) == EventHorizon - deleteDays * PeriodLength[PERIOD_DAILY]

\* Mutant: days to be gained are counted double.
DeleteEventsTooEarly(eventTable, beginTime, deleteDays) ==
    LET Age(e) == beginTime - (eventTable.time + e.timeStamp)
        Old(events) == {e \in events : Age(e) >= Horizon(2 * deleteDays)}
    IN  IF eventTable.time = Unknown \/ beginTime - Horizon(2 * deleteDays) - eventTable.time <= 0
        THEN eventTable
        ELSE [eventTable EXCEPT
                !.rows = [u \in Uid |-> @[u] \ Old(@[u])],
                !.expired = [u \in Uid |-> @[u] \cup
                    {[id |-> e.id, age |-> Age(e), early |-> deleteDays] :
                        e \in Old(eventTable.rows[u])}]]

\* DeleteExcessiveTableData of the event log when a day begins, and, for deleteDays > 0,
\* DeleteExcessiveEventTableData: events that are that much older than the day go, if
\* the table is that old itself.
DeleteEvents(eventTable, beginTime, deleteDays) ==
    LET Age(e) == beginTime - (eventTable.time + e.timeStamp)
        Old(events) == {e \in events : Age(e) >= Horizon(deleteDays)}
    IN  IF eventTable.time = Unknown \/ beginTime - Horizon(deleteDays) - eventTable.time <= 0
        THEN eventTable
        ELSE [eventTable EXCEPT
                !.rows = [u \in Uid |-> @[u] \ Old(@[u])],
                !.expired = [u \in Uid |-> @[u] \cup
                    {[id |-> e.id, age |-> Age(e), early |-> deleteDays] :
                        e \in Old(eventTable.rows[u])}]]

DeleteExcessiveEvents(eventTable, beginTime) == DeleteEvents(eventTable, beginTime, 0)

\* The daily table that UpdateBundleUsageData makes takes the old events with it.
BeginsDay(tables, stats) == stats.bundleStats_ # <<>> /\ stats.beginTime_ \notin DOMAIN tables

InitEventTable(eventTable, currentTime) ==
    IF eventTable.time = Unknown THEN [NoEventTable EXCEPT !.time = currentTime] ELSE eventTable

\* UpdateEventData and FlushEventInfo: the events of the day go to the event table.
UpdateEventData(eventTable, events, beginTime) ==
    LET table == InitEventTable(eventTable, beginTime)
        Rows(u) == {[id |-> e.id, timeStamp |-> e.timeStamp - table.time] : e \in events[u]}
    IN  [table EXCEPT !.rows = [u \in Uid |-> @[u] \cup Rows(u)]]

-----------------------------------------------------------------------------
\* InitDatabaseTableInfo: excess tables go, and the events that are old for the last
\* day; then tables that begin now or later; so does an event table from the future.
InitDatabaseTableInfo(db, currentTime) ==
    LET daily == db.packageTable[PERIOD_DAILY]
        events == IF daily = <<>> THEN db.eventTable
                  ELSE DeleteExcessiveEvents(db.eventTable, LastTable(daily))
    IN  [packageTable |->
            [i \in Interval |->
                LET tables == DeleteExcessiveTableData(db.packageTable[i], i)
                IN  Restrict(tables, {t \in DOMAIN tables : t < currentTime})],
         eventTable |->
            InitEventTable(IF currentTime < events.time THEN NoEventTable ELSE events, currentTime)]

\* Tables older than MaxFiles periods of constant length are dropped.
RemoveOldData(packageTable, currentTime) ==
    [i \in Interval |->
        LET tables == packageTable[i]
            kept == {t \in DOMAIN tables : t >= currentTime - MaxFiles[i] * PeriodLength[i]}
        IN  DeleteExcessiveTableData(Restrict(tables, kept), i)]

\* ExecuteRenameTableName: "alter table ... rename" fails when the new name is taken;
\* the failure is ignored and the table keeps its name.
RenameTable(tables, old, new) ==
    IF new \in DOMAIN tables THEN tables
    ELSE [t \in (DOMAIN tables \ {old}) \cup {new} |->
            IF t = new THEN tables[old] ELSE tables[t]]

\* RenewTableTime visits the tables in ascending order; one that would begin before
\* 0 is dropped.
RenewTables(tables, timeDiff) ==
    LET Renew(cur, old) ==
            IF old + timeDiff < 0 THEN Restrict(cur, DOMAIN cur \ {old})
            ELSE RenameTable(cur, old, old + timeDiff)
    IN  FoldLeft(Renew, tables, SetToSortSeq(DOMAIN tables, <))

RenewTableTime(db, timeDiff) ==
    LET time == db.eventTable.time
    IN  [packageTable |->
            [i \in Interval |->
                DeleteExcessiveTableData(RenewTables(db.packageTable[i], timeDiff), i)],
         eventTable |->
            IF time = Unknown THEN db.eventTable
            ELSE IF time + timeDiff < 0 THEN NoEventTable
            ELSE [db.eventTable EXCEPT !.time = @ + timeDiff]]

\* GetCurrentUsageData reads the last table.
GetCurrentUsageData(tables) ==
    LET time == LastTable(tables)
    IN  [beginTime_ |-> time,
         bundleStats_ |-> [u \in DOMAIN tables[time] |-> StatsOf(tables[time][u], time)]]

\* OnPackageUninstalled: the rows of the removed instances go from every table.
OnPackageUninstalled(db, removed) ==
    [packageTable |->
        [i \in Interval |->
            [t \in DOMAIN db.packageTable[i] |->
                Restrict(db.packageTable[i][t], DOMAIN db.packageTable[i][t] \ removed)]],
     eventTable |->
        [db.eventTable EXCEPT !.rows = [u \in Uid |-> IF u \in removed THEN {} ELSE @[u]],
                              !.expired = [u \in Uid |-> IF u \in removed THEN {} ELSE @[u]]]]

\* QueryDatabaseUsageStats over the tables that begin before endTime, one uid.
QueryDatabaseUsageStats(tables, u, endTime) ==
    MapThenSumSet(LAMBDA t : IF u \in DOMAIN tables[t] THEN tables[t][u].totalTime ELSE 0,
                  {t \in DOMAIN tables : t < endTime})
=============================================================================
