# TLA+ models of the device usage statistics service

Models of the service in `services/` that records which applications are used, for
how long and how recently, and of the ways in which scripts and the command line tool
reach it: what is modelled, what TLC checks on small instances and what TLAPS proves
for all of them. Paths are those of the repository; short names like *core* stand for
`services/common/src/bundle_active_core.cpp`.

## 1. The system

| Part | State it keeps | Operations | Talks to |
|---|---|---|---|
| **core** (`bundle_active_core`) | one user service per user, `currentUsedUser_`, the pair of clock readings `realTimeShot_`/`systemTimeShot_`, `bundleUninstalledSet_` and `taskMap_`, `groupChangeObservers_` | report an event, notice a changed clock, save, switch or remove a user, remove or install a bundle, shut down, query, register observers | everything below |
| **report handler** (`bundle_active_report_handler`) | `taskHandlerMap_`: per message id the tasks that wait | run reports, removals, user switches and the 30 minute flush on one serial queue | core |
| **user service** (`bundle_active_user_service`) | statistics of the running day, week, month and year, the events of the day, `moduleRecords_`, `dailyExpiryDate_`, `statsChanged_` | report, roll over to a new day, save, load, renew after a clock change, forget a bundle | database, event list |
| **period and package statistics** | per bundle instance: time in front, abilities and long tasks that run | update by an event, commit time | |
| **module and form records** | launches of each module, clicks of each form | count, forget | user service |
| **event list** | events of the day in time order | insert by binary search, merge, delete the events of a bundle | |
| **usage database** | a table per period and per interval, an event table, tables of modules, forms, group history and durations | create, update, load, rename, drop old ones | |
| **group controller, user history, group handler** (`services/packagegroup`) | per bundle instance a group, its reason, times of last use and promised times; up time and screen time; delayed checks | report, check, set by a client, screen change, uninstall, switch, shut down, save, load | core, database |
| **service** (`bundle_active_service`) | `ready_`, subscriptions | start, checks of permission, user and parameters, merging of answers | core |
| **client library** (`interfaces/innerkits`) | proxy, remembered observer | forward calls, register again after the service died | service |
| **observers** (window visibility, ability state, continuous tasks, power, shutdown) | which windows of which ability are visible, which bundles are | turn callbacks of other services into events | report handler |
| **script bindings** (`frameworks`, `interfaces/kits`) | the observer of a script, calls on their way | parse arguments, call on a worker, merge and answer | client library |
| **command line tool** (`tools`) | none | parse flags, call, print | client library |
| helpers (accounts, bundle manager, configuration, binary search, calendar, upgrade) | caches | conversions and forwarding | |

Hard behaviours: six kinds of threads meet (the report queue, the group queue, IPC
threads, callbacks of other services, timers, workers of scripts), under mutexes that
do not cover the same code; the process may die between any two saves; the clock may be
set; a period ends while applications are in front; timers outlive what they are about;
and notices of deaths, removals and hidden windows arrive late. `PROJECT.json` lists
these at their lines.

What makes each part correct:

* event list: sorted, no read outside of the vector, a removed bundle leaves nothing;
* package statistics: time in front is counted once, however many abilities overlap;
* user service and database: a closed day is exact, nothing is counted twice over
  days, flushes and crashes, no save overwrites more with less, every event is in
  memory or in the table until it is deleted there for its age;
* records: launches and clicks are counted once, what was removed stays removed;
* flush: events that were reported and are only in memory are marked, saved in the end,
  and never thrown away; a key in `taskHandlerMap_` means a flush to come;
* removed bundles: late events of them are dropped for a while, and never for ever;
* groups: the up time is exact, a promised group is kept, a set group stays, changes
  are marked for the save (but for the first use of an entry whose group is set),
  removed bundles stay removed;
* registration: none is lost for good, none of a dead client stays, and the front end
  of a script agrees with what the service holds;
* windows: what is reported in front has a visible window;
* calls: what was accepted comes back, about the caller's own user, with nothing lost
  on the way.

## 2. Modules

| Module | Models | Kind |
|---|---|---|
| `EventList` | the list of events: one action per iteration of `FindBestIndex` and of the erase loop | component |
| `PackageStats` | what an event does to the statistics of a bundle instance | operators of the next two |
| `PackageUsage` | one bundle instance under any sequence of events | component |
| `UsageDatabase` | tables of package statistics and of events | operators of `UserService` |
| `UserService` | one user's service | operators of `UsageCore` |
| `UsageCore` | the core with one user: reports, flush, queries, clock changes, crashes | composition of the four above |
| `ModuleRecords` | records of modules and forms of several users in one table | component with core and database |
| `FlushSchedule` | flush timer, `statsChanged_` and user switches of several users | abstraction of the core for several users |
| `ReportQueue` | messages of the report handler, and the guard of removed bundles with its delayed tasks | component |
| `AppGroup` | group controller, user history and group handler | component |
| `AppObservers` | window visibility, ability state and continuous task observers | component |
| `GroupCallback` | start of the service, observers, death and recovery on both sides: the protocol of registration | abstract specification |
| `Parameters` | values of scripts, their checks, what is asked of the client library | operators |
| `UsageStatistics`, `BundleState`, `UsageStatisticsIdl`, `UsageStatsQuery` | the four front ends: two of napi, taihe, the command line tool; one operator per function or command | operators |
| `ServiceCalls` | each call of the service: checks, what the core is asked, merging | operators |
| `ScriptCalls` | calls of all front ends on their workers, and the observer of a script | composition of the seven above, implements `GroupCallback` |
| `MC*` | values for the constants TLC needs | |
| `*Proofs` | theorems | |

Definitions have the names of the code, with its trailing underscores; `PROJECT.json`
maps each to its lines. Definitions commented "Mutant:" are changed versions that show
that a property can fail; no specification uses them.

### How state and actions correspond

* **`EventList`**: `events_` is a sequence of pairs of time stamp and bundle; `lo`,
  `hi` and `result` are the locals of `FindBestIndex`. C++ indices are shifted by one.
* **`PackageStats`/`PackageUsage`**: `abilities_` and `longTimeTasks_` map each
  ability and task to its last event. History variables hold the ticks in which
  something really was in front.
* **`UsageDatabase`, `UserService`, `UsageCore`**: `svc` is the user's service as a
  record with the fields of the class; `svc.database_` survives a crash. Handlers
  that run under `mutex_` of the core, or alone on the report queue, are one step.
  The flush takes no such mutex, so `FlushReport` and `FlushRestore` are two steps,
  and queries run between them. The four intervals are reduced to two, a day and one
  longer period (`Span` is its real length, `PeriodLength` the constant the code
  uses). `offset` is what the user has set the system clock by. Rows of the event table
  have times relative to the table's, as in the code. `DeleteExcessiveEvents` is the
  deletion of events older than `EventHorizon`, seven days in the code, when a daily
  table is created and when a service starts. A flush submits `ProcessDataSize`
  (`sizeCheck`), which deletes younger ones, one day more at a time, until the folder is
  below its limit; how many days that takes, up to `MAX_DELETE_EVENT_DALIYS`, is left
  open, and so is which daily table `eventBeginTime_` is the time of. `expired` is the
  history of what was deleted, how old it was and how many days early. `reports` numbers
  the events, so that two equal ones are told apart.
* **`ModuleRecords`**: `svc` has the records and the remembered table name of each
  user's service, `tables` the tables of module records in the order in which the store
  lists them. Times are absolute in memory and relative to the table's name in rows, as
  in `UpdateModuleData` and `LoadModuleData`. Histories hold the ticks of launches and
  clicks. `disturbed` collects the instances whose records the code may get wrong, one
  clause for each reason section 5 gives; the properties are about all others. A table
  that cannot be renamed (`RenameRefused`) and times that lie before the table's name
  (`FromTheFuture`) are two of them.
* **`FlushSchedule`**: per user, the kinds of what is in memory only (`unsaved`): events
  that were `reported`, the `startup` event that `Init` of a service adds unmarked, and
  totals that FLUSH `settled`. `taskHandlerMap_` holds handles, not tasks: `hasKey` is the
  key, `pending` the tasks with a handle in its queue, `stray` the tasks whose handle was
  popped by another task and which nobody can cancel any more, `held` the handle of the
  task that runs. `task` is where the serial queue is in a flush or a user switch,
  `holder` where the thread is that has `mutex_` of the core for a clock change or a
  shutdown. `HasEvent` and `SendEvent` are two steps where the other thread may come in
  between. Flush and user switch do not take `mutex_`, and a new day that any of the four
  notices notifies the core from inside the service.
* **`ReportQueue`**: `queue` is the serial queue with what `OnReceiveEvent`, clients and
  power callbacks put there. A removal is two steps (`AddbundleUninstalledUid`, then
  `DelayRemoveBundleUninstalledUid`), since tasks of earlier removals run between them;
  a task starts, after which `ffrt::skip` no longer stops it, and then runs.
* **`AppGroup`**: `userHistory_` has an entry per instance, `historyTable` its saved
  row. `worker` is the check the group queue is at: the clock is read in one step
  (`CheckBegin`), the bundles are checked in further ones, each under the mutex.
  `checkTasks` keeps for each task whether `checkBundleTaskMap_` still knows it. The
  duration table is not a variable because `PutDurationData` follows every
  assignment. `firstUse` is `bundlefirstUseTimeStamp_`; the stamps of events are chosen
  freely from `Stamp`. A user switch and a shutdown check all bundles in one step, although
  the code takes the mutex for each.
* **`AppObservers`**: `abilityWindowMap_` and `appVisibilityMap_` are those of the
  manager; `thread` is where the thread of each kind of callback is between the mutexes
  of `UpdateAppVisibility` and its report. `HandleWindows` goes through the finitely many
  windows of a callback in their order. `windowQueue` and `stateQueue` hold callbacks
  on their way, `shown` and `state` what is on the device.
* **`GroupCallback`**: an observer is a pair of a client and one life of its process,
  which tells the late news of a death from the entry of the next life. `told` and
  `diedObservers` are the notices that have not arrived yet.
* **Front ends**: arguments are tagged values, so that the wrong type and the wrong
  number can be told; an operator for each function gives what it throws or asks.
  `ServiceCalls` goes on from there: which caller may ask, for which user, what the core
  refuses, how rows are merged. Rows are records of bundle, uid, day and time in front.
* **`ScriptCalls`**: `calls` goes from queued over executed, by a worker and in any
  order, to answered. `G` is `GroupCallback` with one client, the process; its actions
  happen inside those of the workers. An argument that ends the process (`Crashes`) is
  the death of that client. `queryLastUseTime` carries the applications asked for
  (`wanted`); `Selected` and `Repeated` are the loops by which the two kinds of front end
  pick the rows of these out of the answer, the second adding a row once for each time
  the application is named.

## 3. Runs

Twelve runs. Deadlock is checked in the runs whose environment never stops; in the others
bounded clocks, events or calls run out.

| Run | What it shows |
|---|---|
| `event_list` | sorted after every insert and merge, with equal and earlier time stamps; probes in range; the loops end; nothing of a removed bundle is left |
| `package_usage` | `FrontTimeExact`, `TaskTimeExact`: overlapping abilities and tasks, double and missing events, ends of days, flushes |
| `usage` | four scenarios: two bundles over days (`ClosedDayExact`, `FrontTracked`, `TablesLeaveWhenOld`), a process that dies (`NeverOvercounts`, `MemoryCoversTable`), a clock that is set forward and back, a folder that reaches its size limit; in all of them each event is in memory or in the table once until it is deleted there for its age (`EventsAccounted`) |
| `module_records` | two users, a clone, a clock change and a death: `LaunchesExact`, `ClicksExact`, `RemovedIsForgotten` |
| `flush_schedule` | two users and two threads: no reported event is unmarked (`UnsavedIsMarked`) or thrown away (`NothingLost`), a key means a flush to come (`FlushFollows`), and what a single user did is saved in the end (`SavedWhenAlone`) |
| `report_queue` | a guard of a removed bundle always has a task that ends it (`GuardHasTimer`) and lasts its time unless an unreachable task is left over (`GuardLasts`) |
| `group` | `UpTimeExact`, `PromiseKept`, `UnsavedEntryIsMarked` (but for the first use of a set entry), `NoRowOfRemovedBundle`, `ForcedStays` under every order of events, checks, late screen changes, sets, removals, shutdowns and restarts |
| `group_callback` | registrations survive deaths of the service and of clients; a client is registered again; dead entries leave |
| `app_observers` | no ghost window stays (`NoGhostWindow`); unless two callbacks about one bundle meet, reports and what is tracked in front agree with the windows (`ReportedStateMatches`, `FrontAgrees`) |
| `script_calls` | front end, client library and service agree once all is quiet (`QuietAgrees`); no front end accepts what is refused later (`NoParameterRefused`); scripts ask about their own user; totals survive merging and selection (`TotalsKept`, two cases excepted by name); accepted calls come back (`CallsEnd`); all of it implements `GroupCallback` (`ImplementsGroupCallback`) |
| `flush_low_space` (violation) | one flush skipped for lack of space ends the 30 minute flush |
| `window_race` (violation) | the report "in front" of one thread overtakes "in the background" of another: a bundle without a window stays in front |

The last two state what a document or comment of the repository says; the findings
in `PROJECT.json` quote it.

### Bounds

* A tick is longer than the threshold for clock changes (`TIME_CHANGE_THRESHOLD_MILLIS`),
  so a change by one tick is always noticed. A day has two ticks, in `ModuleRecords`
  three. The first scenario of `UsageCore` ends after four ticks: two ends of a day and one
  of the longer period; the one with deaths after three, with a third event; the one with clock changes
  after two; the one with the full folder after four.
* Events are kept for three ticks (`EventHorizon`), a day and a half, and for one day less
  when the folder is full, where the code keeps seven days, and down to one. The days and
  the full folder reach both deletions; after a death neither is reached.
* Two tables of each interval are kept where the code keeps 30, 30, 12 and 10: enough to
  reach the limit. Two or three events allow open, close and reopen around each boundary.
  The scenario of the clock starts at tick 4, so that setting the clock back by a day
  leads to valid times.
* `ModuleRecords`: an instance, its clone and an instance of another user; two events,
  an end of a day at the first tick, one clock change by less than a day in either
  direction, one death. Behaviours in which no record can be right any more are not
  followed (`SomeUndisturbed`).
* `ReportQueue`: the guard lasts two of four ticks; three tasks and messages make a
  removal, an installation and a second removal with the task of the first left over.
* `AppGroup`: one instance, three ticks of up time, three inputs, one restart, time
  limits of one and two ticks, so that every level and every overlap of two promises
  is reached. Two stamps of events, so that an event is earlier than the first use or
  not; `MAX_END_TIME` is later than both.
* `AppObservers`: four changes of windows and abilities, two abilities of one bundle and
  one of another: an end, a restart and late callbacks of both threads.
* `GroupCallback`: two clients with three lives each, four incarnations of the service:
  the service can die again while a client recovers from the death before.
* `ScriptCalls`: three calls of one front end at a time (two to register, one to
  unregister), one query with arguments of every type and number up to four, times
  around the present and at the edge of the span that is allowed, two lives of process
  and service. `queryLastUseTime` asks for one application, for two, for one twice, and
  for one that was removed. Names of bundles do not end in a digit (see 5).

### Fairness

* `EventList`: the loops go on once they have begun.
* `FlushSchedule`: weak fairness of the start of the flush task and of each further step
  of both threads: `ffrt` runs a delayed task after its delay, a running task goes on,
  and a handler that holds `mutex_` returns. Nothing is assumed of when reports, queries,
  switches, clock changes or shutdowns begin, nor of space.
  `SavedWhenAlone` is about a device with one user; with two it does not hold (see 5).
* `GroupCallback`: weak fairness of the restart of the service by the system ability
  manager, of `InitNecessaryState` (asks again every two seconds), of notices of death,
  of submitted tasks, and of the services the start waits for. The service does not
  die for ever: `MaxGen` bounds how often. Nobody is obliged to register.
* `ScriptCalls`: the same, and that workers run and the queue of the script is worked
  off. Nobody is obliged to call.

## 4. Proofs

TLAPS proves these for every value of the constants: any number of users, clients,
bundles, events, messages, deaths, any time stamps.

| Module | Theorems | Inductive invariant and why |
|---|---|---|
| `MemoryStatsProofs` | of `EventList`: `ListTypeCorrect`, `ListSorted`, `ProbesInRange`, `DeletedEventsGone`; of `PackageUsage`: `TypeCorrect`, `FrontTimeIsExact`, `TaskTimeIsExact`; of `FlushSchedule`: `FlushTypeCorrect`, `NoEventLost`, `UnsavedMarked`, `KeyMeansFlush` | `ListIInv`: while the search runs, everything before `lo` is earlier and everything from `result` on is not; while the erase loop runs, the part it has passed holds no event of the bundle. Sortedness alone is not kept by an insert at an index nobody knows anything about. `IInv` of `PackageUsage` adds that the times of last use never lie in the future: otherwise the running part would be negative and an update would skip time. `FlushIInv` adds `ReloadIsSafe`: between save and reload of a clock change no event comes into memory, as reports need `mutex_`, and what flush and user switch do beside it at most settles totals; and `ThreadsInOrder`: a service lets one thread in at a time, and a shutdown that is about to call `SendEvent` has marked the service, so that no other thread sends for it |
| `UsageCoreProofs` | `EventsAreAccounted`, `MemoryCoversTables`, `FrontIsTracked`, `TablesLeaveOnlyWhenOld` | `EventsInv`. The account itself (`Counted`) follows each event until the table deletes it, at an age of at least `EventHorizon` less the days a full folder gains, for every daily table that `eventBeginTime_` may be the time of, and needs that events have numbers no larger than `reports`, so that a new one is never one of those saved or deleted; that an instance with events in memory is in `packageUids`, or a removal would miss them; and that the event table exists while a service is up, or a save would have no place for them. The table exists as long as no process finds it in the future, which drops it; hence `ClocksOK` and `TableTimeOK` follow the table's time through every tick, change of the clock and rename: each setting of the clock takes at most its share of the time since 1970 away, so no rename is refused. The methods of the service change many members at a time; for each a predicate (`RestoreDone`, `LoadDone`, `ContinueDone`, ...) says what becomes of every member, and a lemma shows it once. `CoverInv` adds for the second that no table begins after the running period and that periods and tables begin at multiples of their length: then a period that is loaded either has no table or is loaded from it, and a roll over finds no table of the new period. `Grown` says that every step on a period takes no count away; a roll over brings abilities and tasks to front again one by one, in loops that `LoopExists` and `LoopKeeps` unroll. A removal takes rows and counts away together, and old tables that are dropped leave less to cover. `TrackInv` adds for the third that an instance of which something is in front is in `packageUids`, or the loop at the end of a day would pass it by, and that nothing is in front before the first service; `Carried` strengthens `Grown` by what stays in front, and `FirstReached` says that the loop reaches the first instance of a bundle. `AgeInv` adds for the fourth, of intervals whose constant is no longer than the calendar period, that an interval never has more tables than are kept, that no table with rows begins now or later, and that an object has counted something only after its period began (`Fresh`), its time of last use being in the period while something runs: then a save makes a table with rows only of a time that has passed, the oldest table is the one that makes room, and a table that was taken for too old stays so through the saves of one handler |
| `AppGroupProofs` | `TypeCorrect`, `UpTimeIsExact`, `UnsavedEntriesAreMarked`, `NoRowComesBack`, `ForcedGroupStays`, `PromisesAreKept` | `IInv` in three layers. `ClockInv`: base and sum of the up time move together, whatever time stamp they are moved with. `TimesInv`: no time stamp on its way is from before the process started, so no check takes a new entry of a removed bundle for one that was used. `HistoryInv`: entries exist only while the history is loaded, and an entry that a late check makes for a bundle that is gone stays untouched, so no save writes it. That changed entries are marked excepts one difference by name, the first use of an entry whose group is set (see 5). `StepOk` then bounds what one step may do to a table or to a set group. On top, `PromiseInv`: what events promised is held in memory or by the row that will be loaded, with timeouts that are as late as the promise but for the up time lost with earlier processes, and no check uses a time that is still to come; without the rows a reload, without the timeouts a late check could break a promise |
| `ReportQueueProofs` | `TypeCorrect`, `GuardEnds`, `GuardLastsForDelay`, `InstalledAreCounted` | `IInv` adds `NoticesKnown` (every guarded uid had a notice of its removal; no notice and no begun task is of the future) and `TasksAreOfThisRemoval` (tasks on their way are due only after the present guard has lasted, but for those left over). Without them a task of an earlier removal could end the guard early |
| `GroupCallbackProofs` | `RegistrationSurvives`, `DeadProxiesAreReported`, `DeadObserversAreReported` | `CallbackInv` adds that the service watches each living observer, that news of a death is about an earlier life, that an entry of an earlier life is not remembered by the present one, and that a client which remembers has a proxy or a recovery; without these a late death notice could erase the wrong entry |
| `ScriptCallsProofs` | `ImplementsRegistration`, `ScriptsStayRegistered`, `AllAgreeWhenQuiet`, `AskedForTheirUser`, `ParametersPass`, `TotalsAreKept` | for the first no invariant: each step of a front end, a worker or the script's queue is a step of `GroupCallback` for the one process or leaves its variables alone. The second carries `RegistrationSurvives` over to scripts through the instance of `GroupCallbackProofs`. The third needs `QuietInv`: an observer that is set is remembered by the client library or claimed by a call whose answer will make the front end forget it; over napi in the first life exactly one such claim exists; what is registered now is remembered; taihe undoes what is stuck. The last three rest on `QueryInv`: a call that waits for a worker carries a request of the kind its front end makes, one that was carried out an answer to such a request. `NewRequests`, `IdlRequests` and `OldRequests` say what each parser can produce from any arguments, `PerformAnswers` and `StatsAnswers` what the client library, the service and the core make of it. `TotalsAreKept` is about the rows of the applications asked for; it excepts by name two uids of a bundle with one index, where `BundleStateCommon` adds to a copy, and an application taihe is asked about twice. That merging keeps a sum is `SumParts`, by induction over the parts merged, after `SumAdd` has shown that the sum does not depend on the order in which `MapThenSumSet` takes the rows: the library defines it by a recursive function on subsets, which `SumsExist` and `SumsAgree` show to exist and to be one |
| `AppObserversProofs` | `TypeCorrect`, `NoGhostWindows`, `ReportsMatchWindows`, `FrontAgreesWithWindows` | `IInv` in four layers, each needed by the next. `WindowsInv`: the last word on its way about a window says whether it is on the screen, and without one the map says no more than that. `StatesInv`: the same for the states of abilities, and only abilities in front have windows on the screen, as the end of one hides them. `BundlesInv`, for bundles whose callbacks did not meet: what is on the screen is seen once the callbacks on their way are handled, the two threads are not both at the bundle, and what was computed, stored and reported agree as far as the thread at the bundle has come. `TrackedInv`: the same for what is tracked of an ability that is the only one of its bundle. A callback is a fold over its windows, which `FoldSteps` unrolls into one step for each |
| `ModuleRecordsProofs` | `TypeCorrect`, `LaunchesCounted`, `ClicksCounted`, `RemovedForgotten` | `Inv`, for each instance that is not disturbed: `MemoryOK`, its record in memory counts its launches and clicks, and its last launch is the latest of them; `StoredOK`, there is at most one table, whose row counts the launches as of the last save and has its time not before the one in the table's name, since a difference of one in the other direction would be read as no launch at all; `LinkOK`, the service knows the name of that table and has a record for each row, so that no save keeps an older row and no load forgets a record. The properties alone say nothing of rows, and the next load could break them. A lemma for each operator of the code (create, count, save, load, rename, remove) says which of the three it keeps or establishes; a shutdown saves one service after the other, which `FoldLeft` unrolls as in `AppObserversProofs` |

Assumptions are the named ASSUMEs of the modules: bounds and time limits are natural
numbers, as are the age at which events are deleted and the days a full folder takes
off it, instances belong to bundles, groups that are set are groups, arguments of a
script are values with a tag for their type and numbers are integers, the core finds
finitely many rows with numbers in them, there are finitely many windows, abilities and long time tasks, and no ability has the name of the value that stands for none; there are
finitely many instances, with records or without, periods are made of whole days, no
scenario sets the clock to before 1970, what a removal takes along by its key is an instance, what it takes
along by its bundle one of the same user, and the clock starts after 1970. TLC evaluates
them in every run of their module.

Only model-checked:

* liveness (`LoopsEnd`, `SavedWhenAlone`, `Resubscribed`, `DeadObserverLeaves`,
  `CallsEnd`, and the fairness part of `ImplementsGroupCallback`), because the prover
  handles neither fairness nor ENABLED;
* `ClosedDayExact` and `NeverOvercounts` of `UsageCore`: they need the sum over all tables
  next to the ticks of every day. `MemoryCoversTables`, `FrontIsTracked`,
  `TablesLeaveOnlyWhenOld` and `EventsAreAccounted` are what is proved of the same
  operators.

The library's induction theorems take an operator as a parameter, which no installed
prover can instantiate. `AppObserversProofs`, `ModuleRecordsProofs`,
`ScriptCallsProofs` and `UsageCoreProofs` do with the least element of a set of numbers and unroll their
folds and sums that way.

## 5. What else the models showed

The two violated properties are findings. The following are not stated as properties:
no document promises the contrary, or the properties are stated about the other cases.

Time and periods

* After a clock change the statistics come back from the database without the abilities
  that are in front: time until they go to the background is not counted (core 539).
* When the flush or the shutdown is the first to see a changed clock, the jump is
  counted as time in front (core 420).
* A month counts as 30 and a year as 365 days when tables are loaded (user service 299,
  the comment at 294 speaks of the interval). On the 31st a restart starts the month over,
  and the next save overwrites its rows. `MemoryCoversTable` is stated for periods that
  are no longer than the constant; with a `Span` longer than `PeriodLength` it would be
  refuted without that condition. After a month shorter than 30 days the roll over takes
  the old month's table for one of the running month (299): March begins with what
  February counted. `NeverOvercounts` and `TablesLeaveWhenOld` are stated for intervals
  whose constant is no longer than the calendar period.
* A service that starts after the clock was set back takes the event table for one of the
  future, drops it and begins a new one: the events of that day are gone (database 161).
  `EventsAccounted` is stated for the other cases.
* At the end of a day the loop over the instances of a bundle returns at the first that
  was not in front: a clone in front at midnight is forgotten when its main instance is
  idle (user service 383). `FrontTracked` is stated for the first instance of each bundle;
  for a clone it would be refuted in three events. The map of the bundle manager helper (176) is keyed by name as well.
* The stamp of an event is taken when it is observed, and the models stamp it when it is
  handled: the queue between is far shorter than a tick, so that an event from before
  midnight that is handled after it does not occur.
* `RestoreStats` clears the events of the day whether or not the table could be written
  (user service 268).
* Setting the clock back while the service is down leaves times in the future: launches
  are not counted until the clock has passed them (`ModuleRecords`), and no check of a
  group finds a level (`exact` in `AppGroup`). The up time since the last screen change
  is lost as well when the process dies.

* Setting the clock back to before the time in the name of the table of records, counted
  from 1970, would give the table a negative name, which the SQL refuses (database 1199):
  the services keep the old name, and launches are not counted until the clock has
  passed the old times (`RenameRefused` in `ModuleRecords`).
* When a flush is the first to see a changed clock and ends a day by it, and the clock is
  set back, the table begins in the future. A launch one millisecond before its name is
  saved with the difference -1, which is read as no launch (database 1630, 1758), so that
  a second launch in the same moment counts again (`FromTheFuture`).

Flush

* The STARTUP event that `Init` adds to the events in memory is not marked (user service
  35-39): if a query alone starts the service, no flush saves the event until some later
  report marks the service (`startup` in `FlushSchedule`).
* FLUSH brings the totals in memory up to date and is the one event that does not notify
  (user service 222-224). A flush or user switch that does so between save and reload
  of a clock change brings totals into memory that the reload throws away (`settled`).
* After its task a flush pops the first handle of the key (report handler 79-85). When
  another thread sent a flush meanwhile, that is the handle of the new task, which
  `RemoveEvent` can no longer cancel (`stray`): flushes may then come in pairs, never too
  few (`FlushFollows`).
* Flush and user switch read `userStatServices_` without `mutex_`, beside threads that
  insert into the map (core 420, 487). `FlushSchedule` has the order of these steps, not
  the data race on the map itself.

Several users

* The flush of one user may never come: another user's flush holds the only timer, and
  another user's clock change cancels it (core 383, 546).
* A clock change renames the tables for the asking user only. The services of the others
  keep the old name: their saves find no table and write nothing, removals remove nothing
  (core 530, database 1309).
* If the service of a second user is opened before the first table of records exists
  and both save on different days, there are two tables; a restart reads the last one
  listed (database 117).
* `PreservePowerStateInfo` drops the event unless exactly one user is active (core 461);
  a shutdown adds the screen time once for each user, even if the screen is off (user
  history 283).
* A late event of a removed user makes its service again (core 636).

Removed bundles

* The removal of a clone erases the group of the main instance, a set one as well
  (group controller 206, 211), and of bundles whose name it begins; a removal before the
  history is loaded leaves the row (194).
* Records of modules are matched by a part of their key: removing `com.a` removes those
  of `com.ab`, and uid 10 matches 100 (user service 118, 127). The rows stay, and the
  next save of a smaller count overwrites them.
* A form that is removed after its bundle was makes an empty record again, and nothing
  is marked as changed (user service 737).
* `UpdateFormData` writes the uid into the column of the form's id, so that rows of forms
  are not found again (database 1698), and `RemoveFormData` gives six arguments to a
  format with seven places (1723).
* Installing a bundle while the delayed removal of its guard is on its way leaves a task
  that `taskMap_` no longer knows; it ends a later guard early (`leftover` in
  `ReportQueue`). Only events about the state of applications look at the guard (report
  handler 166).

Groups and registrations

* An event of an entry whose group a client has set updates the time of first use and
  returns before anything is marked (user history 192-196): the new first use is lost
  with the process unless some other change saves the entry. `UnsavedEntryIsMarked`
  excepts it.
* `SetAppGroup` for a bundle without an entry answers ERR_OK and sets nothing (group
  controller 422).
* A client that unregisters between the restart of the service and its own recovery is
  told that it was not registered, and the recovery then registers it again
  (client 296, 369): `observer_` is only cleared when the service agrees.
* A client that comes back before its death was handled is turned away (core 903) and
  has to try again.
* `OnStop` tears the service down in a process that may live on (service 301).
* `launcherAppMap_` (bundle manager helper 135) and the bundle manager of the continuous
  task observer (49) are kept for ever.

Front ends

* The help of the command line tool counts intervals from daily at 0 to yearly at 3,
  `ConvertIntervalType` from best at 0; its example `--days 14` is refused, since more than
  seven are; `--user default` (-1) is never resolved for high frequency periods; `help
  <command>` prints the general help.
* The taihe `queryAppStatsInfos` asks for days where napi asks for months, and its
  `queryLastUseTime` for interval 4 where napi asks for 3.
* A wrong second argument leaves the observer of a napi registration behind, so that the
  next one is refused (`app_group_napi` 386). Taihe forgets its observer although
  unregistering failed, while the recovery registers it again (510); its callback runs
  under `callbackMutex_` (451).
* A notice on its way to the script is delivered after the observer was unregistered and
  its reference deleted (`app_group_observer_napi` 34).
* Over taihe, an application that `queryLastUseTime` is asked about twice is added twice
  (`bundle_state_idl_common` 154). Both kinds of front end join name and index as text, so
  that a name that ends in a digit may match another application's; this is left out.
* Merging in `bundle_state_common` (635) adds to a copy for bundles that have a row.
  The old `queryBundleActiveStates` passes its error code where the user is expected, and
  so asks about user 0 (`bundle_state_query` 345).

Assumed of the platform: a death recipient added to an object that is dead already is
told; the serial queues run one task at a time; the store does not refuse a write.

## 6. Not modelled, and why

* **SQL text, upgrade of the store, configuration files, debug mode, event reporter, logs,
  dumps**: input, output and text without a state of their own.
* **Marshalling, and the conversion of results to values of scripts**: field by field.
* **Event statistics and high frequency periods**: pure functions of the saved events,
  without an order of steps that could go wrong.
* **Binary search of table times**: the models say which tables are chosen, by membership.
* **The duration table**: the duration of a group is written with each assignment, and no
  property is about it.
* **A stale `eventBeginTime_`**: it is always the time of a daily table in the models. When
  a start drops the last daily table as one of the future, the code keeps its time
  (database 293) until the next load or roll over.
* **The early return of `HandleTableInfo`** when the store cannot be queried (database
  267): tables and the remembered list of them always agree in the models.
* **`OnStop` in a living process**, and delivery of group notices to scripts: depend on
  threads of the platform that the repository does not show.
* **A store that refuses writes**: the error paths only log; what would be lost is named
  in section 5 (`RestoreStats`) and as a hazard without a property.
