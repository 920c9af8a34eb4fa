------------------------------ MODULE AppGroup ------------------------------
(***************************************************************************)
(* The priority groups of one user's bundles: BundleActiveGroupController, *)
(* BundleActiveUserHistory and BundleActiveGroupHandler.  An event puts a  *)
(* bundle instance in ALIVE or DAILY for some time and submits a delayed   *)
(* check; checks move what has not been used for long to a lower priority  *)
(* (a larger number); SetAppGroup of a client overrules both.  Times are   *)
(* kept on two clocks that go on over a reboot: the time the device was up *)
(* and the time its screen was on.                                         *)
(*                                                                         *)
(* Four threads meet here: the report queue (events, uninstalls, user      *)
(* switches), the serial queue of the group handler (checks and screen     *)
(* changes), IPC threads (SetAppGroup) and the shutdown callback.  The     *)
(* controller's mutex_ makes one report, one check of one bundle or one    *)
(* save atomic and nothing larger.                                         *)
(***************************************************************************)
EXTENDS Integers, FiniteSets, Sequences, Functions

CONSTANTS
    Bundle,           \* names, none of them a part of another one
    Uid, BundleOf,    \* the instances and the bundle of each
    MainUid,          \* the instances with app index 0
    SetGroups,        \* the groups clients ask for
    DirectTimeout,    \* timeoutForDirectlyUse_
    SystemTimeout,    \* timeoutForSystemInteraction_
    NotifyTimeout,    \* timeoutForNotifySeen_
    BootLevel,        \* bootTimeLevel_ of levels 1..4
    ScreenLevel,      \* screenTimeLevel_ of levels 1..4
    Stamp,            \* time stamps of events, on the wall clock
    MAX_END_TIME,     \* the first use of what was never used
    MaxTime,          \* bound: the time the device is up, over all boots
    MaxEvents,        \* bound: events, screen changes, sets, switches and removals
    MaxRestarts       \* bound: how often the process starts again

ASSUME UidAssumption == BundleOf \in [Uid -> Bundle] /\ MainUid \subseteq Uid
ASSUME TimeAssumption ==
    /\ {DirectTimeout, SystemTimeout, NotifyTimeout} \subseteq Nat \ {0}
    /\ BootLevel \in [1 .. 4 -> Nat] /\ ScreenLevel \in [1 .. 4 -> Nat]
    /\ Stamp \subseteq Int /\ MAX_END_TIME \in Int
    /\ {MaxTime, MaxEvents, MaxRestarts} \subseteq Nat
ASSUME SetGroupsAssumption == SetGroups \subseteq {10, 20, 30, 40, 50, 60}

ALIVE == 10
DAILY == 20
FIXED == 30
RARE == 40
NEVER == 60
LEVEL_GROUP == <<ALIVE, DAILY, FIXED, RARE>>
Group == SetGroups \cup {ALIVE, DAILY, FIXED, RARE, NEVER}

\* The control reasons; USAGE is told apart by the event reason a check gives it.
Reason == {"default", "timeout", "usage", "notTimeout", "aliveTimeout", "forced"}

\* The events with a reason, by the message id of the check they submit.
Message == {"default", "notification", "system"}

VARIABLES
    now,                                    \* boot clock of the time service
    bootBasedTimeStamp_, bootBasedDuration_, \* up time: when last added up, and the sum
    screenOnTimeStamp_, ScreenOnDuration_, isScreenOn_,
    screenTasks,                            \* screen changes posted to the queue
    loaded, userHistory_,                   \* the user's entries, once they are loaded
    historyTable,                           \* their rows
    installed,                              \* instances the bundle manager knows
    removed,                                \* removals the service has still to handle
    checkTasks,                             \* delayed checks; mapped: in checkBundleTaskMap_
    periodTask, oneTimeTask,                \* checks submitted with SendEvent
    worker,                                 \* the check the queue is at
    reply,                                  \* the last answer of SetAppGroup
    past, exact,                            \* up time of earlier boots; was any of it lost?
    promise,                                \* until when the last events keep a group
    events, restarts                        \* how many inputs and restarts there have been

clock == <<bootBasedTimeStamp_, bootBasedDuration_, screenOnTimeStamp_, ScreenOnDuration_, isScreenOn_>>
tasks == <<screenTasks, checkTasks, periodTask, oneTimeTask, worker>>
device == <<now, installed, removed, past, exact, restarts>>
vars == <<clock, tasks, device, loaded, userHistory_, historyTable, reply, promise, events>>

-----------------------------------------------------------------------------
\* The two clocks.
GetBootBasedTimeStamp(t) == t - bootBasedTimeStamp_ + bootBasedDuration_
GetScreenOnTimeStamp(t) == ScreenOnDuration_ + (IF isScreenOn_ THEN t - screenOnTimeStamp_ ELSE 0)

\* How long the device has really been up.
UpTime == past + now

\* Mutant: the up time is counted from the old base again.
AddUpDurationsKeepsBase(t) ==
    /\ ScreenOnDuration_' = ScreenOnDuration_ + (t - screenOnTimeStamp_)
    /\ bootBasedDuration_' = bootBasedDuration_ + (t - bootBasedTimeStamp_)
    /\ UNCHANGED <<screenOnTimeStamp_, bootBasedTimeStamp_>>

\* The running stretches are added up; t may be older than now.
AddUpDurations(t) ==
    /\ ScreenOnDuration_' = ScreenOnDuration_ + (t - screenOnTimeStamp_)
    /\ bootBasedDuration_' = bootBasedDuration_ + (t - bootBasedTimeStamp_)
    /\ bootBasedTimeStamp_' = t
    /\ UNCHANGED screenOnTimeStamp_

\* PutDurationData follows every assignment, so the duration table always holds
\* bootBasedDuration_ and ScreenOnDuration_.
UpdateBootBasedAndScreenTime(on, t, isShutdown) ==
    IF isScreenOn_ = on /\ ~isShutdown THEN UNCHANGED clock
    ELSE /\ isScreenOn_' = on
         /\ IF on THEN /\ screenOnTimeStamp_' = t
                       /\ UNCHANGED <<ScreenOnDuration_, bootBasedDuration_, bootBasedTimeStamp_>>
                  ELSE AddUpDurations(t)

-----------------------------------------------------------------------------
\* The entries.
Entry == [lastBoot : Int, lastScreen : Int, currentGroup_ : Group, reasonInGroup_ : Reason,
          aliveTimeout : Int, dailyTimeout : Int, firstUse : Int, isChanged_ : BOOLEAN]

NewEntry(t) == [lastBoot |-> GetBootBasedTimeStamp(t), lastScreen |-> GetScreenOnTimeStamp(t),
                currentGroup_ |-> NEVER, reasonInGroup_ |-> "default",
                aliveTimeout |-> 0, dailyTimeout |-> 0, firstUse |-> MAX_END_TIME,
                isChanged_ |-> FALSE]

Override(f, g) == [x \in DOMAIN f \cup DOMAIN g |-> IF x \in DOMAIN f THEN f[x] ELSE g[x]]

\* GetUserHistory with create: the rows are loaded the first time.
Entries == IF loaded THEN userHistory_ ELSE historyTable

\* GetUsageHistoryForBundle with create, for each of uids.
EntriesWith(uids, t) == Override(Entries, [u \in uids |-> NewEntry(t)])

Saved(history) == [u \in DOMAIN history |-> [history[u] EXCEPT !.isChanged_ = FALSE]]

\* Mutant: every entry is written.
PutBundleHistoryDataAll(history) == userHistory_' = Saved(history) /\ historyTable' = Override(Saved(history), historyTable)

\* PutBundleHistoryData writes what isChanged_ marks and clears the mark.
PutBundleHistoryData(history) ==
    /\ userHistory_' = Saved(history)
    /\ historyTable' = Override(Saved(Restrict(history, {u \in DOMAIN history : history[u].isChanged_})), historyTable)

Larger(a, b) == IF a > b THEN a ELSE b

\* The group an event gives, and for how long.
EventGroup(msg) == IF msg = "notification" THEN DAILY ELSE ALIVE
EventTimeout(msg) == CASE msg = "notification" -> NotifyTimeout
                       [] msg = "system" -> SystemTimeout
                       [] msg = "default" -> DirectTimeout

Until(msg) == GetBootBasedTimeStamp(now) + EventTimeout(msg)

\* Mutant: an event with a short timeout takes a long one back.
ExtendedOrShortened(old, group, msg) == IF EventGroup(msg) = group THEN Until(msg) ELSE old

\* The timeout of a group is raised by an event of that group.
Extended(old, group, msg) == IF EventGroup(msg) = group THEN Larger(Until(msg), old) ELSE old

\* What ReportUsage does to every entry, and to a forced one nothing else: the first use
\* moves back to the stamp of the event and isChanged_ is left as it is.
FirstUse(e, stamp) == [e EXCEPT !.firstUse = IF stamp < @ THEN stamp ELSE @]

\* ReportUsage of an entry that is not forced, after FirstUse.  Only direct use moves the
\* last use.
ReportUsage(e, msg) ==
    [lastBoot |-> IF msg = "default" THEN GetBootBasedTimeStamp(now) ELSE e.lastBoot,
     lastScreen |-> IF msg = "default" THEN GetScreenOnTimeStamp(now) ELSE e.lastScreen,
     currentGroup_ |-> IF e.currentGroup_ > EventGroup(msg) THEN EventGroup(msg) ELSE e.currentGroup_,
     reasonInGroup_ |-> "usage",
     aliveTimeout |-> Extended(e.aliveTimeout, ALIVE, msg),
     dailyTimeout |-> Extended(e.dailyTimeout, DAILY, msg),
     firstUse |-> e.firstUse,
     isChanged_ |-> TRUE]

\* The levels that the time since the last use has reached; GetLevelIndex takes the
\* last one and fails if there is none.
Levels(e, t) == {i \in 1 .. 4 : /\ GetScreenOnTimeStamp(t) - e.lastScreen >= ScreenLevel[i]
                                /\ GetBootBasedTimeStamp(t) - e.lastBoot >= BootLevel[i]}
LastLevel(e, t) == CHOOSE i \in Levels(e, t) : \A j \in Levels(e, t) : j <= i

GetNewGroup(e, t) == LEVEL_GROUP[LastLevel(e, t)]

\* Mutant: the change is not marked.
SetGroupUnmarked(e, group, reason) == [e EXCEPT !.currentGroup_ = group, !.reasonInGroup_ = reason]

\* The SetAppGroup of the user history.
SetGroup(e, group, reason) ==
    IF e.currentGroup_ = group /\ e.reasonInGroup_ = reason THEN e
    ELSE [e EXCEPT !.currentGroup_ = group, !.reasonInGroup_ = reason, !.isChanged_ = TRUE]

Demote(e, group) == IF e.currentGroup_ < group THEN SetGroup(e, group, "timeout") ELSE e

\* What a check does to an entry that has a level.
Checked(e, t) ==
    LET adjusted == GetBootBasedTimeStamp(t)
        newGroup == GetNewGroup(e, t)
    IN  IF e.aliveTimeout > adjusted THEN SetGroup(e, ALIVE, "notTimeout")
        ELSE IF newGroup >= DAILY /\ e.dailyTimeout > adjusted THEN SetGroup(e, DAILY, "aliveTimeout")
        ELSE Demote(e, newGroup)

\* Mutant: a forced group is checked like any other one.
CheckAndUpdateForced(e, t) == IF Levels(e, t) = {} THEN e ELSE Checked(e, t)

\* CheckAndUpdateGroup of one entry at time t.
CheckAndUpdate(e, t) == IF e.reasonInGroup_ = "forced" \/ Levels(e, t) = {} THEN e ELSE Checked(e, t)

-----------------------------------------------------------------------------
NoReply == [bundle |-> "none", group |-> NEVER, ok |-> FALSE]
IdleWorker == [pc |-> "idle", todo |-> {}, at |-> 0, key |-> <<>>]

\* The constructor, CreateUserHistory and InitBundleGroupController.
Init ==
    /\ now = 1 /\ past = 0 /\ exact = TRUE
    /\ bootBasedTimeStamp_ = 1 /\ bootBasedDuration_ = 0
    /\ screenOnTimeStamp_ = 1 /\ ScreenOnDuration_ = 0 /\ isScreenOn_ = FALSE
    /\ screenTasks \in {<<[on |-> on, at |-> 1]>> : on \in BOOLEAN}
    /\ loaded = FALSE /\ userHistory_ = <<>> /\ historyTable = <<>>
    /\ installed = Uid /\ removed = {}
    /\ checkTasks = {} /\ periodTask = TRUE /\ oneTimeTask = FALSE
    /\ worker = IdleWorker
    /\ reply = NoReply /\ promise = <<>> /\ events = 0 /\ restarts = 0

Input == events < MaxEvents /\ events' = events + 1

Tick ==
    /\ UpTime < MaxTime
    /\ now' = now + 1
    /\ UNCHANGED <<clock, tasks, installed, removed, past, exact, restarts, loaded, userHistory_,
                   historyTable, promise, events>>
    /\ reply' = NoReply

IsBundleInstalled(b) == \E u \in MainUid \cap installed : BundleOf[u] = b

\* SendCheckBundleMsg: a check with the same key that is in the map is cancelled.
SendCheckBundleMsg(u, msg) ==
    checkTasks' = {c \in checkTasks : c.key # <<msg, u>> \/ ~c.mapped}
                      \cup {[key |-> <<msg, u>>, at |-> now + EventTimeout(msg), mapped |-> TRUE]}

\* Until when an event just promised the two groups, on the real clock.
Promise(u, msg) ==
    LET old == IF u \in DOMAIN promise THEN promise[u] ELSE [alive |-> 0, daily |-> 0]
        until == UpTime + EventTimeout(msg)
    IN  IF EventGroup(msg) = ALIVE THEN [old EXCEPT !.alive = Larger(until, @)]
                                   ELSE [old EXCEPT !.daily = Larger(until, @)]

\* ReportEvent of the group controller, called by the core for every event.
ReportEvent(u, msg, stamp) ==
    /\ Input
    /\ u \in installed /\ IsBundleInstalled(BundleOf[u])
    /\ LET history == [EntriesWith({u}, now) EXCEPT ![u] = FirstUse(@, stamp)]
       IN  IF history[u].reasonInGroup_ = "forced"
           THEN userHistory_' = history /\ UNCHANGED promise
           ELSE /\ userHistory_' = [history EXCEPT ![u] = ReportUsage(@, msg)]
                /\ promise' = Override([v \in {u} |-> Promise(u, msg)], promise)
    /\ loaded' = TRUE
    /\ SendCheckBundleMsg(u, msg)
    /\ reply' = NoReply
    /\ UNCHANGED <<clock, screenTasks, periodTask, oneTimeTask, worker, device, historyTable>>

\* SetAppGroup of a client.  Every entry of the bundle is set; flush saves the user at
\* every change.  Nothing is an error when there is no entry.
SetAppGroup(b, group, isFlush) ==
    /\ Input
    /\ LET ofBundle == {u \in DOMAIN userHistory_ : BundleOf[u] = b}
           history == [u \in DOMAIN userHistory_ |->
                          IF u \in ofBundle THEN SetGroup(userHistory_[u], group, "forced") ELSE userHistory_[u]]
           repeated == \E u \in ofBundle : /\ userHistory_[u].currentGroup_ = group
                                           /\ userHistory_[u].reasonInGroup_ = "forced"
           done == IsBundleInstalled(b) /\ loaded
       IN  /\ reply' = [bundle |-> b, group |-> group, ok |-> done /\ ~repeated]
           /\ IF ~done THEN UNCHANGED <<userHistory_, historyTable>>
              ELSE IF isFlush /\ history # userHistory_ THEN PutBundleHistoryData(history)
              ELSE userHistory_' = history /\ UNCHANGED historyTable
    /\ UNCHANGED <<clock, tasks, device, loaded, promise>>

\* OnScreenChanged posts the change with the time of the notification.  One that finds
\* the screen as it was has no effect and is left out.
OnScreenChanged(on) ==
    /\ Input
    /\ on # IF screenTasks = <<>> THEN isScreenOn_ ELSE screenTasks[Len(screenTasks)].on
    /\ screenTasks' = Append(screenTasks, [on |-> on, at |-> now])
    /\ reply' = NoReply
    /\ UNCHANGED <<clock, checkTasks, periodTask, oneTimeTask, worker, device, loaded,
                   userHistory_, historyTable, promise>>

ScreenTask ==
    /\ worker.pc = "idle"
    /\ screenTasks # <<>>
    /\ UpdateBootBasedAndScreenTime(Head(screenTasks).on, Head(screenTasks).at, FALSE)
    /\ screenTasks' = Tail(screenTasks)
    /\ reply' = NoReply
    /\ UNCHANGED <<checkTasks, periodTask, oneTimeTask, worker, device, loaded,
                   userHistory_, historyTable, promise, events>>

\* OnStatsReload: a new day or a clock change asks for a check of all bundles.
OnStatsReload ==
    /\ Input
    /\ oneTimeTask' = TRUE
    /\ reply' = NoReply
    /\ UNCHANGED <<clock, screenTasks, checkTasks, periodTask, worker, device, loaded,
                   userHistory_, historyTable, promise>>

\* What CheckEachBundleState goes through: the main instances the bundle manager lists.
AllBundles == MainUid \cap installed

\* ProcessEvent reads the boot clock before it takes the mutex.
CheckBegin(c) ==
    /\ worker.pc = "idle"
    /\ c.at <= now
    /\ checkTasks' = checkTasks \ {c}
    /\ worker' = [pc |-> "check", todo |-> {c.key[2]}, at |-> now, key |-> c.key]
    /\ reply' = NoReply
    /\ UNCHANGED <<clock, screenTasks, periodTask, oneTimeTask, device, loaded,
                   userHistory_, historyTable, promise, events>>

OneTimeCheckBegin ==
    /\ worker.pc = "idle"
    /\ oneTimeTask
    /\ worker' = [pc |-> "check", todo |-> AllBundles, at |-> now, key |-> <<"oneTime">>]
    /\ reply' = NoReply
    /\ UNCHANGED <<clock, screenTasks, checkTasks, periodTask, oneTimeTask, device, loaded,
                   userHistory_, historyTable, promise, events>>

\* The check PeriodCheckBundleState submits names no bundle: it loads the history.
PeriodCheck ==
    /\ worker.pc = "idle"
    /\ periodTask
    /\ periodTask' = FALSE
    /\ loaded' = TRUE /\ userHistory_' = Entries
    /\ worker' = [pc |-> "check", todo |-> {}, at |-> now, key |-> <<"period">>]
    /\ reply' = NoReply
    /\ UNCHANGED <<clock, screenTasks, checkTasks, oneTimeTask, device, historyTable, promise, events>>

\* CheckAndUpdateGroup, under the mutex, with the time read before.
CheckAndUpdateGroup(u) ==
    /\ worker.pc = "check"
    /\ u \in worker.todo
    /\ worker' = [worker EXCEPT !.todo = @ \ {u}]
    /\ loaded' = TRUE
    /\ userHistory_' = [EntriesWith({u}, worker.at) EXCEPT ![u] = CheckAndUpdate(@, worker.at)]
    /\ reply' = NoReply
    /\ UNCHANGED <<clock, screenTasks, checkTasks, periodTask, oneTimeTask, device,
                   historyTable, promise, events>>

\* RestoreToDatabase and the end of the task.  It erases its key from the map also when
\* a newer check is there by now, which can then no longer be cancelled.
CheckSave ==
    /\ worker.pc = "check" /\ worker.todo = {}
    /\ IF loaded THEN PutBundleHistoryData(userHistory_) ELSE UNCHANGED <<userHistory_, historyTable>>
    /\ checkTasks' = {IF c.key = worker.key THEN [c EXCEPT !.mapped = FALSE] ELSE c : c \in checkTasks}
    /\ oneTimeTask' = (oneTimeTask /\ worker.key # <<"oneTime">>)
    /\ worker' = IdleWorker
    /\ reply' = NoReply
    /\ UNCHANGED <<clock, screenTasks, periodTask, device, loaded, promise, events>>

\* CheckEachBundleState of the shutdown callback or of a user switch.
CheckedAll == LET history == EntriesWith(AllBundles, now)
              IN  [u \in DOMAIN history |->
                      IF u \in AllBundles THEN CheckAndUpdate(history[u], now) ELSE history[u]]

\* OnUserSwitched away from this user and back: check, save, and a new period check.
OnUserSwitched ==
    /\ Input
    /\ loaded' = (loaded \/ AllBundles # {})
    /\ PutBundleHistoryData(IF loaded' THEN CheckedAll ELSE <<>>)
    /\ periodTask' = TRUE
    /\ reply' = NoReply
    /\ UNCHANGED <<clock, screenTasks, checkTasks, oneTimeTask, worker, device, promise>>

\* ShutDown, with the RestoreAllData that follows in the core.
ShutDown ==
    /\ Input
    /\ loaded' = (loaded \/ AllBundles # {})
    /\ PutBundleHistoryData(IF loaded' THEN CheckedAll ELSE <<>>)
    /\ UpdateBootBasedAndScreenTime(FALSE, now, TRUE)
    /\ reply' = NoReply
    /\ UNCHANGED <<tasks, device, promise>>

\* The bundle manager removes a bundle, or one clone; the service is told later.
BundleRemoved(u) ==
    /\ Input
    /\ u \in installed
    /\ installed' = installed \ (IF u \in MainUid THEN {v \in Uid : BundleOf[v] = BundleOf[u]} ELSE {u})
    /\ removed' = removed \cup {u}
    /\ reply' = NoReply
    /\ UNCHANGED <<clock, tasks, now, past, exact, restarts, loaded, userHistory_, historyTable, promise>>

\* The rows OnPackageUninstalled deletes: of the bundle, or of the clone.
DeletedRows(u) == IF u \in MainUid THEN {v \in Uid : BundleOf[v] = BundleOf[u]} ELSE {u}

\* OnBundleUninstalled.  DeleteUsageGroupCache goes on after it has erased a clone and
\* erases every entry of the bundle.  Without entries in memory nothing is deleted.
OnBundleUninstalled(u) ==
    /\ u \in removed
    /\ removed' = removed \ {u}
    /\ IF loaded
       THEN LET gone == {v \in Uid : BundleOf[v] = BundleOf[u]}
            IN  /\ userHistory_' = Restrict(userHistory_, DOMAIN userHistory_ \ gone)
                /\ promise' = Restrict(promise, DOMAIN promise \ gone)
                /\ historyTable' = Restrict(historyTable, DOMAIN historyTable \ DeletedRows(u))
       ELSE UNCHANGED <<userHistory_, historyTable, promise>>
    /\ reply' = NoReply
    /\ UNCHANGED <<clock, tasks, now, installed, past, exact, restarts, loaded, events>>

\* The process starts again, with the device or without it.  Up time that was not
\* added up yet, entries that were not saved and all tasks are gone.
Restart(reboot, screenOn) ==
    /\ restarts < MaxRestarts /\ restarts' = restarts + 1
    /\ now' = IF reboot THEN 1 ELSE now
    /\ past' = IF reboot THEN past + now - 1 ELSE past
    /\ exact' = (exact /\ bootBasedTimeStamp_ = now)
    /\ promise' = IF exact' THEN Restrict(promise, {u \in DOMAIN promise :
                                   u \notin DOMAIN userHistory_ \/ ~userHistory_[u].isChanged_})
                            ELSE <<>>
    /\ bootBasedTimeStamp_' = now' /\ screenOnTimeStamp_' = now' /\ isScreenOn_' = FALSE
    /\ UNCHANGED <<bootBasedDuration_, ScreenOnDuration_>>
    /\ screenTasks' = <<[on |-> screenOn, at |-> now']>>
    /\ loaded' = FALSE /\ userHistory_' = <<>>
    /\ checkTasks' = {} /\ periodTask' = TRUE /\ oneTimeTask' = FALSE /\ worker' = IdleWorker
    /\ reply' = NoReply
    /\ removed' = {}
    /\ UNCHANGED <<historyTable, installed, events>>

Next ==
    \/ Tick
    \/ \E u \in Uid, msg \in Message, stamp \in Stamp : ReportEvent(u, msg, stamp)
    \/ \E b \in Bundle, group \in SetGroups, isFlush \in BOOLEAN : SetAppGroup(b, group, isFlush)
    \/ \E on \in BOOLEAN : OnScreenChanged(on)
    \/ ScreenTask
    \/ OnStatsReload
    \/ \E c \in checkTasks : CheckBegin(c)
    \/ OneTimeCheckBegin
    \/ PeriodCheck
    \/ \E u \in Uid : CheckAndUpdateGroup(u)
    \/ CheckSave
    \/ OnUserSwitched
    \/ ShutDown
    \/ \E u \in Uid : BundleRemoved(u)
    \/ \E u \in Uid : OnBundleUninstalled(u)
    \/ \E reboot, screenOn \in BOOLEAN : Restart(reboot, screenOn)

Spec == Init /\ [][Next]_vars

-----------------------------------------------------------------------------
\* QueryAppGroup: the best group of the bundle's instances.
QueryAppGroup(b) ==
    LET groups == {userHistory_[u].currentGroup_ : u \in {v \in DOMAIN userHistory_ : BundleOf[v] = b}} \cup {NEVER}
    IN  CHOOSE g \in groups : \A h \in groups : g <= h

\* Screen changes re-base the up time, with time stamps that may be old when they are
\* applied: as long as no process died with up time it had not added up,
\* GetBootBasedTimeStamp is the time the device has been up.
UpTimeExact == exact => GetBootBasedTimeStamp(now) = UpTime - 1

\* A bundle that was used or seen keeps its group for the promised time, over checks,
\* screen changes, shorter promises and clean reboots.
PromiseKept ==
    \A u \in DOMAIN userHistory_ \cap DOMAIN promise :
        userHistory_[u].reasonInGroup_ # "forced" =>
            /\ promise[u].alive > UpTime => userHistory_[u].currentGroup_ <= ALIVE
            /\ promise[u].daily > UpTime => userHistory_[u].currentGroup_ <= DAILY

\* The row holds what the entry holds; of an entry whose group a client has set the first
\* use may be an earlier one.
RowAgrees(row, e) ==
    \/ row = e
    \/ e.reasonInGroup_ = "forced" /\ row = [e EXCEPT !.firstUse = row.firstUse]

\* What memory holds and the table does not is marked, so that a save finds it: checks,
\* reports, sets and reloads, in any order.  The one exception is the time of the first
\* use, which an event moves without a mark while a client's group is set.
UnsavedEntryIsMarked ==
    \A u \in DOMAIN userHistory_ :
        \/ userHistory_[u].isChanged_
        \/ u \in DOMAIN historyTable /\ RowAgrees(historyTable[u], userHistory_[u])
        \/ userHistory_[u].reasonInGroup_ = "default"

\* A check that outlives its bundle makes a new entry for it, and a bundle may go while
\* a check of it is running, but no save writes a row for a bundle that is gone.
NoRowOfRemovedBundle ==
    [][\A u \in DOMAIN historyTable' \ DOMAIN historyTable :
          \/ IsBundleInstalled(BundleOf[u])
          \/ \E v \in removed \cap MainUid : BundleOf[v] = BundleOf[u]]_vars

\* A group a client has set is only changed by a client that sets this bundle again:
\* events, checks and reloads of an entry leave it alone.
ForcedStays ==
    [][\A u \in DOMAIN userHistory_ :
          (userHistory_[u].reasonInGroup_ = "forced" /\ u \in DOMAIN userHistory_') =>
              /\ userHistory_'[u].reasonInGroup_ = "forced"
              /\ userHistory_'[u].currentGroup_ # userHistory_[u].currentGroup_ =>
                    reply'.bundle = BundleOf[u] /\ reply'.group = userHistory_'[u].currentGroup_]_vars

-----------------------------------------------------------------------------
(* The inductive invariant behind them                                     *)

IsTable(history) == DOMAIN history \subseteq Uid /\ history \in [DOMAIN history -> Entry]

ClockType ==
    /\ now \in Int /\ past \in Int
    /\ bootBasedTimeStamp_ \in Int /\ bootBasedDuration_ \in Int
    /\ exact \in BOOLEAN
    /\ screenTasks \in Seq([on : BOOLEAN, at : Int])
TimesType ==
    /\ screenOnTimeStamp_ \in Int /\ ScreenOnDuration_ \in Int /\ isScreenOn_ \in BOOLEAN
    /\ worker = [pc |-> worker.pc, todo |-> worker.todo, at |-> worker.at, key |-> worker.key]
    /\ worker.at \in Int
HistoryType == loaded \in BOOLEAN /\ IsTable(userHistory_) /\ IsTable(historyTable)
TypeOK == ClockType /\ TimesType /\ HistoryType

\* The base and the sum of the up time move together: their difference is what earlier
\* boots have left, whatever time stamps they are moved with.
BaseAndSum == exact => bootBasedDuration_ - bootBasedTimeStamp_ = past - 1

\* No time stamp on its way is from before the process started.
TimesNotNegative ==
    /\ bootBasedDuration_ >= 0 /\ GetBootBasedTimeStamp(now) >= 0
    /\ worker.pc = "check" => GetBootBasedTimeStamp(worker.at) >= 0
    /\ \A i \in DOMAIN screenTasks : GetBootBasedTimeStamp(screenTasks[i].at) >= 0

EntriesAreLoaded == ~loaded => DOMAIN userHistory_ = {}

\* A bundle is gone when its removal has been handled.  An entry a late check makes for
\* it then is as new, and checks leave it so.
Gone(b) == ~IsBundleInstalled(b) /\ \A v \in removed \cap MainUid : BundleOf[v] # b
Untouched(e) == /\ e.currentGroup_ = NEVER /\ e.reasonInGroup_ = "default" /\ ~e.isChanged_
                /\ e.aliveTimeout = 0 /\ e.dailyTimeout = 0
GoneIsUntouched ==
    \A u \in DOMAIN userHistory_ \ DOMAIN historyTable : Gone(BundleOf[u]) => Untouched(userHistory_[u])

IInv == /\ TypeOK /\ BaseAndSum /\ TimesNotNegative /\ EntriesAreLoaded
        /\ GoneIsUntouched /\ UnsavedEntryIsMarked
=============================================================================
