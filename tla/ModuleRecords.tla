---------------------------- MODULE ModuleRecords ----------------------------
(***************************************************************************)
(* Records of modules and forms: how often each module of a bundle was     *)
(* launched and each of its forms clicked.  Every user's service keeps its *)
(* records in memory (moduleRecords_) and saves them with its statistics;  *)
(* all users save in one table, whose name each service remembers for      *)
(* itself (moduleRecordsTableName_) and whose times count from the time in *)
(* its name.  Each instance of a bundle has one module here.               *)
(*                                                                         *)
(* The rows of forms are left out, as none is ever found again:            *)
(* UpdateFormData writes the uid into the column of the form and leaves    *)
(* that of the uid at its default, so that LoadFormData finds no record    *)
(* for the row; and its Update has an argument too many, so that a store   *)
(* that refuses those has no rows of forms at all.                         *)
(*                                                                         *)
(* Handlers hold mutex_ of the core, or run one after the other on the     *)
(* report queue; the flush, which does not hold it, shares the records     *)
(* with them only under databaseMutex_.  Each is one step.                 *)
(***************************************************************************)
EXTENDS Integers, SequencesExt, FiniteSetsExt

CONSTANTS
    Uid,            \* installed instances, of all users
    UserOf,         \* the user of each instance, a number
    RemovedUids,    \* the instances of the user that leave with one: a main instance takes its clones
    Mentioned,      \* those whose key contains the text that stands for the removed one
    Form,           \* forms of a module
    Day,            \* length of a day
    StartTime,      \* the wall clock when the device starts
    ClockJump,      \* by how much the wall clock may be set
    MaxTime,        \* bound: the last tick of the boot clock
    MaxEvents,      \* bound: events
    MaxJumps,       \* bound: how often the clock is set
    MaxDeaths       \* bound: how often the process dies
ASSUME RecordsAssumption ==
    /\ IsFiniteSet(Uid) /\ UserOf \in [Uid -> Nat]
    /\ Mentioned \in [Uid -> SUBSET Uid]
    /\ \A u \in Uid : u \in RemovedUids[u] /\ RemovedUids[u] \subseteq Mentioned[u]
    /\ \A u \in Uid : \A v \in RemovedUids[u] : UserOf[v] = UserOf[u]
    /\ {Day, StartTime} \subseteq Nat \ {0} /\ ClockJump \subseteq Int \ {0}
    /\ {MaxTime, MaxEvents, MaxJumps, MaxDeaths} \subseteq Nat

User == {UserOf[u] : u \in Uid}
UidsOf(n) == {u \in Uid : UserOf[u] = n}
Never == -1
Unknown == -2       \* UNKNOWN_TABLE_NAME

VARIABLES
    svc,        \* the service of each user
    tables,     \* the tables in the database, as they are listed: [time, rows]
    boot,       \* GetBootTimeMs
    offset,     \* GetSystemTimeMs - GetBootTimeMs
    shot,       \* systemTimeShot_ - realTimeShot_: the offset the core has seen
    launches,   \* history: the ticks of the boot clock each module was launched at
    saved,      \* history: the same as of the last save
    clicks,     \* history: the ticks each form was clicked at, since it was loaded
    gone,       \* history: the instances that were removed and not heard of since
    disturbed,  \* history: the instances whose records may be wrong
    events, jumps, deaths   \* history: how many so far

clock == <<boot, offset>>
counts == <<events, jumps, deaths>>
vars == <<svc, tables, clock, shot, launches, saved, clicks, gone, disturbed, counts>>

SystemTime == boot + offset
ExpectedSystemTime == boot + shot
DayOf(t) == t - (t % Day)

\* A service has beginTime_ of its daily statistics, which end a day later.
NoService == [up |-> FALSE, records |-> <<>>, name |-> Unknown, begin |-> 0, changed |-> FALSE]
Override(f, g) == [x \in DOMAIN f \cup DOMAIN g |-> IF x \in DOMAIN g THEN g[x] ELSE f[x]]
Without(f, S) == Restrict(f, DOMAIN f \ S)

Init ==
    /\ svc = [n \in User |-> NoService] /\ tables = <<>>
    /\ boot = 0 /\ offset = StartTime /\ shot = StartTime
    /\ launches = [u \in Uid |-> {}] /\ saved = [u \in Uid |-> {}]
    /\ clicks = [u \in Uid |-> [f \in Form |-> {}]]
    /\ gone = {} /\ disturbed = {}
    /\ events = 0 /\ jumps = 0 /\ deaths = 0

-----------------------------------------------------------------------------
(* BundleActiveModuleRecord, BundleActiveFormRecord                        *)

NewRecord == [launchedCount_ |-> 0, lastModuleUsedTime_ |-> Never, formRecords_ |-> <<>>]

\* GetOrCreateModuleRecord, and the service with what was done to the record.
GetOrCreateModuleRecord(s, u) == IF u \in DOMAIN s.records THEN s.records[u] ELSE NewRecord
WithRecord(s, u, record) == [s EXCEPT !.records = Override(@, [v \in {u} |-> record])]

UpdateModuleRecord(r, t) ==
    IF r.lastModuleUsedTime_ < t
    THEN [r EXCEPT !.lastModuleUsedTime_ = t, !.launchedCount_ = @ + 1]
    ELSE r

UpdateFormRecord(form, t) ==
    IF form.formLastUsedTime_ < t THEN [count_ |-> form.count_ + 1, formLastUsedTime_ |-> t] ELSE form

\* Mutant: a form that is known is entered again.
AddFormRecord(r, f, t) ==
    [r EXCEPT !.formRecords_ =
        Override(@, [g \in {f} |-> [count_ |-> 1, formLastUsedTime_ |-> t]])]

AddOrUpdateOneFormRecord(r, f, t) ==
    LET form == IF f \in DOMAIN r.formRecords_ THEN UpdateFormRecord(r.formRecords_[f], t)
                ELSE [count_ |-> 1, formLastUsedTime_ |-> t]
    IN  [r EXCEPT !.formRecords_ = Override(@, [g \in {f} |-> form])]

RemoveOneFormRecord(r, f) == [r EXCEPT !.formRecords_ = Without(@, {f})]

-----------------------------------------------------------------------------
(* BundleActiveUsageDatabase.  These and the operators of the service work *)
(* on a pair [s |-> a service, t |-> the tables].                          *)

Named(t, name) == {i \in DOMAIN t : t[i].time = name}

\* InitUsageGroupDatabase: the last table that is listed.
LastTable(t) == IF t = <<>> THEN Unknown ELSE Last(t).time

\* The rows of the table the service knows of.
RowsOf(c) ==
    IF Named(c.t, c.s.name) = {} THEN <<>> ELSE c.t[CHOOSE i \in Named(c.t, c.s.name) : TRUE].rows

\* They are replaced; nothing happens, and nobody is told, when there is no table of that
\* name.
WithRows(c, rows) ==
    [s |-> c.s,
     t |-> [i \in DOMAIN c.t |-> IF c.t[i].time = c.s.name THEN [time |-> c.s.name, rows |-> rows]
                                 ELSE c.t[i]]]

\* CreateRecordTable, if the service knows of none; the SQL spares one of that name.
CreateRecordTable(c) ==
    IF c.s.name # Unknown THEN c
    ELSE [s |-> [c.s EXCEPT !.name = c.s.begin],
          t |-> IF Named(c.t, c.s.begin) # {} THEN c.t
                ELSE Append(c.t, [time |-> c.s.begin, rows |-> <<>>])]

Relative(time, base) == IF time = Never THEN Never ELSE time - base
Absolute(time, base) == IF time = Never THEN Never ELSE time + base

RowOf(r, base) ==
    [count |-> r.launchedCount_, last |-> Relative(r.lastModuleUsedTime_, base)]
RecordOfRow(row, base) ==
    [launchedCount_ |-> row.count, lastModuleUsedTime_ |-> Absolute(row.last, base),
     formRecords_ |-> <<>>]

\* Mutant: only the rows that are there are updated.
UpdateModuleDataOnly(c) ==
    LET created == CreateRecordTable(c)
        rows == RowsOf(created)
    IN  WithRows(created,
            [u \in DOMAIN rows |-> IF u \in DOMAIN c.s.records
                                   THEN RowOf(c.s.records[u], created.s.name) ELSE rows[u]])

\* UpdateModuleData: rows are updated, or else inserted.
UpdateModuleData(c) ==
    LET created == CreateRecordTable(c)
    IN  WithRows(created,
            Override(RowsOf(created),
                     [u \in DOMAIN c.s.records |-> RowOf(c.s.records[u], created.s.name)]))

\* LoadModuleAndFormStats: the records of the rows are made anew, without forms.
LoadModuleAndFormStats(c, n) ==
    LET rows == RowsOf(c)
        loaded == [u \in UidsOf(n) \cap DOMAIN rows |-> RecordOfRow(rows[u], c.s.name)]
    IN  [s |-> [c.s EXCEPT !.records = Override(@, loaded)], t |-> c.t]

\* RenewTableTime renames the table the service knows of, unless it is not there, another
\* has the new name, or the new name has a negative time.
RenewTableTime(c, diff) ==
    LET time == c.s.name + diff
    IN  IF Named(c.t, c.s.name) = {} \/ Named(c.t, time) # {} \/ time < 0 THEN c
        ELSE [s |-> [c.s EXCEPT !.name = time],
              t |-> [i \in DOMAIN c.t |-> IF c.t[i].time = c.s.name
                                          THEN [time |-> time, rows |-> c.t[i].rows]
                                          ELSE c.t[i]]]

\* OnPackageUninstalled of the database.
DeleteRows(c, uids) == WithRows(c, Without(RowsOf(c), uids))

-----------------------------------------------------------------------------
(* BundleActiveUserService                                                 *)

RestoreStats(c, forced) ==
    IF ~c.s.changed /\ ~forced THEN c
    ELSE LET restored == IF DOMAIN c.s.records = {} THEN c ELSE UpdateModuleData(c)
         IN  [s |-> [restored.s EXCEPT !.changed = FALSE], t |-> restored.t]

LoadActiveStats(c, t) == [s |-> [c.s EXCEPT !.begin = DayOf(t), !.changed = FALSE], t |-> c.t]

\* RenewStatsInMemory, when the day is over.
RenewIfExpired(c, t) ==
    IF t < c.s.begin + Day THEN c
    ELSE RestoreStats(LoadActiveStats(RestoreStats(c, TRUE), t), TRUE)

InitService(c, n, t) ==
    LET started == [NoService EXCEPT !.up = TRUE, !.name = LastTable(c.t)]
    IN  LoadModuleAndFormStats(LoadActiveStats([s |-> started, t |-> c.t], t), n)

-----------------------------------------------------------------------------
(* BundleActiveCore                                                        *)

Pair(n) == [s |-> svc[n], t |-> tables]

\* CheckTimeChangeAndGetWallTime: the records are saved, the table is renamed and the
\* records are loaded again; only for the user that is asked about, if it has a service.
ClockChanged == offset # shot
Settled(n) == RestoreStats(RenewIfExpired(Pair(n), ExpectedSystemTime), TRUE)
CheckTimeChange(n) ==
    IF ~ClockChanged \/ ~svc[n].up THEN Pair(n)
    ELSE LoadModuleAndFormStats(
            LoadActiveStats(RenewTableTime(Settled(n), offset - shot), SystemTime), n)

\* GetUserDataAndInitializeIfNeeded, after the check of the time every handler begins with.
UserData(n) ==
    IF svc[n].up THEN CheckTimeChange(n) ELSE InitService(Pair(n), n, SystemTime)

\* A handler for the user has left this; it saved last what was launched by then.
Handled(n, c) ==
    /\ svc' = [svc EXCEPT ![n] = c.s]
    /\ tables' = c.t
    /\ shot' = offset

\* A clock that is set back to before the time in the table's name, counted from 1970,
\* would give it a negative one, which the SQL refuses.
RenameRefused(n) == Settled(n).s.name # Unknown /\ Settled(n).s.name + offset - shot < 0

\* Records may be wrong from now on: those the clock change was not handled for, whose
\* times stay and whose table has another name; all of them when the table could not be
\* renamed, or when there are two tables, of which one start of a service reads the last;
\* and those that a handler finds in a state of its own (others).
Disturb(n, others) ==
    disturbed' = disturbed \cup others
        \cup (IF ~ClockChanged THEN {}
              ELSE IF svc[n].up /\ ~RenameRefused(n) THEN Uid \ UidsOf(n) ELSE Uid)
        \cup (IF Len(tables') > 1 THEN Uid ELSE {})

\* What is remembered of the launches and clicks of the user when a handler has begun.
Begun(n) ==
    [saved |-> [u \in Uid |-> IF ClockChanged /\ svc[n].up /\ u \in UidsOf(n) THEN launches[u]
                              ELSE saved[u]],
     clicks |-> [u \in Uid |-> IF ClockChanged /\ u \in UidsOf(n) THEN [f \in Form |-> {}]
                               ELSE clicks[u]]]
SavedIf(n, now, all, known) ==
    saved' = [u \in Uid |-> IF now /\ u \in UidsOf(n) THEN all[u] ELSE known[u]]

Event == events < MaxEvents /\ events' = events + 1 /\ UNCHANGED <<clock, jumps, deaths>>

\* A day, or a table, begins in the future when a flush took a changed clock for the end
\* of a day and the clock was set back: a time that lies one before the table's name
\* is saved as if there were none.
FromTheFuture(s) == SystemTime < s.begin \/ SystemTime < s.name

\* ReportEvent with the event of an ability: ReportModuleEvent counts a launch, then
\* ReportEvent of the service ends the day if it is over.
AbilityEvent(u, isForeground) ==
    LET n == UserOf[u]
        c == UserData(n)
        record == UpdateModuleRecord(GetOrCreateModuleRecord(c.s, u), SystemTime)
        counted == IF isForeground THEN [s |-> WithRecord(c.s, u, record), t |-> c.t] ELSE c
        ended == RenewIfExpired(counted, SystemTime)
        known == [launches EXCEPT ![u] = IF isForeground THEN @ \cup {boot} ELSE @]
    IN  /\ Event
        /\ Handled(n, [s |-> [ended.s EXCEPT !.changed = TRUE], t |-> ended.t])
        /\ launches' = known
        /\ SavedIf(n, SystemTime >= c.s.begin + Day, known, Begun(n).saved)
        /\ clicks' = Begun(n).clicks
        /\ gone' = gone \ {u}
        /\ Disturb(n, IF isForeground /\ FromTheFuture(c.s) THEN {u} ELSE {})

\* ReportFormEvent, without a look at the day.
FormClicked(u, f) ==
    LET n == UserOf[u]
        c == UserData(n)
        record == AddOrUpdateOneFormRecord(GetOrCreateModuleRecord(c.s, u), f, SystemTime)
    IN  /\ Event
        /\ Handled(n, [s |-> [WithRecord(c.s, u, record) EXCEPT !.changed = TRUE], t |-> c.t])
        /\ clicks' = [Begun(n).clicks EXCEPT ![u][f] = @ \cup {boot}]
        /\ saved' = Begun(n).saved
        /\ gone' = gone \ {u}
        /\ Disturb(n, {})
        /\ UNCHANGED launches

\* A form that is removed makes a record if there is none, and is nothing to save.
FormRemoved(u, f) ==
    LET n == UserOf[u]
        c == UserData(n)
        record == RemoveOneFormRecord(GetOrCreateModuleRecord(c.s, u), f)
    IN  /\ Event
        /\ Handled(n, [s |-> WithRecord(c.s, u, record), t |-> c.t])
        /\ clicks' = [Begun(n).clicks EXCEPT ![u][f] = {}]
        /\ saved' = Begun(n).saved
        /\ gone' = gone \ {u}
        /\ Disturb(n, {})
        /\ UNCHANGED launches

\* Mutant: only the removed instance is looked for in memory.
DeleteMemRecordsOfOne(c, u) == [s |-> [c.s EXCEPT !.records = Without(@, {u})], t |-> c.t]

\* DeleteMemRecords looks for the bundle, or for the bundle and the uid of a clone,
\* anywhere in the keys.
DeleteMemRecords(c, u) == [s |-> [c.s EXCEPT !.records = Without(@, Mentioned[u])], t |-> c.t]

\* OnBundleUninstalled
Uninstall(u) ==
    LET n == UserOf[u]
        removed == RemovedUids[u]
    IN  /\ Event
        /\ Handled(n, DeleteRows(DeleteMemRecords(UserData(n), u), removed))
        /\ launches' = [v \in Uid |-> IF v \in removed THEN {} ELSE launches[v]]
        /\ saved' = [v \in Uid |-> IF v \in removed THEN {} ELSE Begun(n).saved[v]]
        /\ clicks' = [v \in Uid |-> IF v \in removed THEN [f \in Form |-> {}] ELSE Begun(n).clicks[v]]
        /\ gone' = gone \cup removed
        /\ Disturb(n, Mentioned[u] \ removed)

\* OnUserRemoved, without a check of the time; a user without a service keeps its rows.
UserRemoved(n) ==
    LET removed == UidsOf(n)
    IN  /\ svc[n].up
        /\ Event
        /\ svc' = [svc EXCEPT ![n] = NoService]
        /\ tables' = DeleteRows(Pair(n), removed).t
        /\ launches' = [v \in Uid |-> IF v \in removed THEN {} ELSE launches[v]]
        /\ saved' = [v \in Uid |-> IF v \in removed THEN {} ELSE saved[v]]
        /\ clicks' = [v \in Uid |-> IF v \in removed THEN [f \in Form |-> {}] ELSE clicks[v]]
        /\ gone' = gone \cup removed
        /\ UNCHANGED <<shot, disturbed>>

\* RestoreToDatabase, the flush, takes the clock as it is.
Flush(n) ==
    LET expired == SystemTime >= svc[n].begin + Day
        c == RestoreStats(RenewIfExpired(Pair(n), SystemTime), FALSE)
    IN  /\ svc[n].up
        /\ svc' = [svc EXCEPT ![n] = c.s]
        /\ tables' = c.t
        /\ SavedIf(n, expired \/ svc[n].changed, launches, saved)
        /\ disturbed' = disturbed \cup (IF Len(tables') > 1 THEN Uid ELSE {})
        /\ UNCHANGED <<clock, shot, launches, clicks, gone, counts>>

\* OnUserSwitched saves the user that is left.
SwitchUser(n) ==
    LET c == RestoreStats(RenewIfExpired(Pair(n), ExpectedSystemTime), TRUE)
    IN  /\ svc[n].up
        /\ svc' = [svc EXCEPT ![n] = c.s]
        /\ tables' = c.t
        /\ SavedIf(n, TRUE, launches, saved)
        /\ disturbed' = disturbed \cup (IF Len(tables') > 1 THEN Uid ELSE {})
        /\ UNCHANGED <<clock, shot, launches, clicks, gone, counts>>

\* RestoreAllData goes through the services in the order of their users.
InOrder(order, users) ==
    /\ DOMAIN order = 1..Cardinality(users)
    /\ ToSet(order) = users
    /\ \A i, j \in DOMAIN order : i < j => order[i] < order[j]
SaveService(all, n) ==
    LET c == RestoreStats([s |-> all.services[n], t |-> all.t], TRUE)
    IN  [services |-> [all.services EXCEPT ![n] = c.s], t |-> c.t]
SaveServices(all, order) == FoldLeft(SaveService, all, order)

\* ShutDown: the first service is told of it, all are saved.
ShutDown ==
    LET Up == {n \in User : svc[n].up}
    IN  /\ Up # {}
        /\ \E order \in [1..Cardinality(Up) -> Up] :
            LET told == RenewIfExpired(Pair(order[1]), SystemTime)
                all == [services |-> [svc EXCEPT ![order[1]] = told.s], t |-> told.t]
            IN  /\ InOrder(order, Up)
                /\ svc' = SaveServices(all, order).services
                /\ tables' = SaveServices(all, order).t
        /\ shot' = offset
        /\ saved' = [u \in Uid |-> IF UserOf[u] \in Up THEN launches[u] ELSE saved[u]]
        /\ disturbed' = IF ClockChanged \/ Len(tables') > 1 THEN Uid ELSE disturbed
        /\ UNCHANGED <<clock, launches, clicks, gone, counts>>

\* A query of module records, or any other.
Query(n) ==
    /\ Handled(n, UserData(n))
    /\ saved' = Begun(n).saved /\ clicks' = Begun(n).clicks
    /\ Disturb(n, {})
    /\ UNCHANGED <<clock, launches, gone, counts>>

\* The process dies and is started again.
Die ==
    /\ deaths < MaxDeaths
    /\ deaths' = deaths + 1
    /\ svc' = [n \in User |-> NoService]
    /\ shot' = offset
    /\ launches' = saved
    /\ clicks' = [u \in Uid |-> [f \in Form |-> {}]]
    /\ disturbed' = IF ClockChanged THEN Uid ELSE disturbed
    /\ UNCHANGED <<tables, clock, saved, gone, events, jumps>>

SetClock(j) ==
    /\ jumps < MaxJumps
    /\ jumps' = jumps + 1
    /\ SystemTime + j > 0
    /\ offset' = offset + j
    /\ UNCHANGED <<svc, tables, boot, shot, launches, saved, clicks, gone, disturbed, events, deaths>>

Tick ==
    /\ boot < MaxTime
    /\ boot' = boot + 1
    /\ UNCHANGED <<svc, tables, offset, shot, launches, saved, clicks, gone, disturbed, counts>>

Next ==
    \/ \E u \in Uid :
        \/ \E isForeground \in BOOLEAN : AbilityEvent(u, isForeground)
        \/ \E f \in Form : FormClicked(u, f) \/ FormRemoved(u, f)
        \/ Uninstall(u)
    \/ \E n \in User : UserRemoved(n) \/ Flush(n) \/ SwitchUser(n) \/ Query(n)
    \/ ShutDown \/ Die \/ Tick
    \/ \E j \in ClockJump : SetClock(j)

Spec == Init /\ [][Next]_vars

-----------------------------------------------------------------------------
RecordOf(u) == IF u \in DOMAIN svc[UserOf[u]].records THEN svc[UserOf[u]].records[u] ELSE NewRecord

\* A module has as many launches as it was launched, at different times, since its bundle
\* was installed: saves, ends of days, changes of the clock and deaths lose none but those
\* a process had not saved when it died, and count none twice.
LaunchesExact ==
    \A u \in Uid \ disturbed :
        svc[UserOf[u]].up => RecordOf(u).launchedCount_ = Cardinality(launches[u])

\* The same for forms, from the last time the records were loaded: clicks are in memory
\* only, and the first event after a change of the clock forgets them too.
ClicksExact ==
    \A u \in Uid \ disturbed : \A f \in Form :
        svc[UserOf[u]].up =>
            (IF f \in DOMAIN RecordOf(u).formRecords_ THEN RecordOf(u).formRecords_[f].count_ ELSE 0)
                = Cardinality(clicks[u][f])

\* Of what was removed, and not heard of since, neither memory nor any table has a record
\* left, so that no restart brings one back.
RemovedIsForgotten ==
    \A u \in gone \ disturbed :
        /\ u \notin DOMAIN svc[UserOf[u]].records
        /\ \A i \in DOMAIN tables : u \notin DOMAIN tables[i].rows
=============================================================================
