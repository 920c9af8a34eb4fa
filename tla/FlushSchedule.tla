---------------------------- MODULE FlushSchedule ----------------------------
(***************************************************************************)
(* When is what the users' services hold in memory saved?  The flush timer *)
(* of BundleActiveReportHandler, the statsChanged_ flag of every service   *)
(* that guards it, and the handlers of BundleActiveCore that save, reload  *)
(* and cancel.  Of what a service holds only its kind is kept: events that *)
(* were reported, the STARTUP event its start adds, and totals that FLUSH  *)
(* brought up to date.                                                     *)
(*                                                                         *)
(* Two threads are at work.  Reports, user switches, user removals and the *)
(* flush are tasks of one serial queue.  Queries, which notice changes of  *)
(* the clock, and the shutdown come on other threads and hold mutex_ of    *)
(* the core, as reports and removals do; the flush and the user switch do  *)
(* not take it.  A step of either ends where the other may come in between:*)
(* HasEvent and SendEvent lock taskHandlerMutex_ one after the other.      *)
(***************************************************************************)
EXTENDS Naturals, Sequences, FiniteSets

CONSTANTS
    User,           \* user ids
    MayRunLow       \* TRUE iff the data partition may run low on space
ASSUME ScheduleAssumption == MayRunLow \in BOOLEAN

None == "none"
ASSUME NoneAssumption == None \notin User

VARIABLES
    userStatServices_,  \* the users that have a service
    statsChanged_,      \* statsChanged_ of each service
    unsaved,            \* what each service has in memory only, by kind
    lost,               \* history: the kinds a reload threw away
    currentUsedUser_,   \* the core's current user
    hasKey,             \* MSG_FLUSH_TO_DISK is a key of taskHandlerMap_
    pending,            \* its queue of handles: the users of the tasks that wait
    stray,              \* users of the tasks that wait and whose handle is gone
    held,               \* the handle of the task that runs is still in the queue
    skipped,            \* history: a flush was skipped since the key was last erased
    task,               \* what the serial queue runs
    holder,             \* who holds mutex_ of the core on another thread
    spaceLow            \* IsUserSpaceMemoryLimit()

services == <<userStatServices_, statsChanged_, unsaved, lost>>
timer == <<hasKey, pending, stray, held, skipped>>
flushVars == <<services, currentUsedUser_, timer, task, holder, spaceLow>>

Kind == {"reported", "startup", "settled"}

Idle == [kind |-> "none", user |-> None, to |-> None, pc |-> "none"]
NoHolder == [kind |-> "none", user |-> None, left |-> {}, pc |-> "none"]

FlushInit ==
    /\ userStatServices_ = {}
    /\ statsChanged_ = [u \in User |-> FALSE]
    /\ unsaved = [u \in User |-> {}]
    /\ lost = {}
    /\ currentUsedUser_ = None
    /\ hasKey = FALSE
    /\ pending = <<>>
    /\ stray = <<>>
    /\ held = FALSE
    /\ skipped = FALSE
    /\ task = Idle
    /\ holder = NoHolder
    /\ spaceLow = FALSE

-----------------------------------------------------------------------------
(* Mutexes, timer and services                                             *)

\* A serial queue runs one task at a time; mutex_ is free when no other thread is in
\* a handler of the core.
QueueIdle == task.pc = "none"
CoreLockFree == holder.pc = "none"

\* t is inside ReportEvent or ReportForShutdown of the service of u.
HoldsStatsMutex(t, u) == t.user = u /\ t.pc \in {"renew", "notify", "send"}

SendEvent(u) ==
    /\ hasKey' = TRUE
    /\ pending' = Append(pending, u)
    /\ UNCHANGED <<stray, held, skipped>>

\* Mutant: the handles are cancelled, the key stays.
RemoveEventKeepsKey ==
    /\ hasKey' = hasKey
    /\ pending' = <<>>
    /\ held' = FALSE
    /\ skipped' = FALSE
    /\ UNCHANGED stray

\* RemoveEvent cancels what has a handle and erases the key.
RemoveEvent ==
    /\ hasKey' = FALSE
    /\ pending' = <<>>
    /\ held' = FALSE
    /\ skipped' = FALSE
    /\ UNCHANGED stray

\* Mutant: the flags of all users are cleared.
RestoreStatsClearsAll(users) ==
    /\ unsaved' = [u \in User |-> IF u \in users THEN {} ELSE unsaved[u]]
    /\ statsChanged_' = [u \in User |-> FALSE]

\* Mutant: the flag is not cleared.
RestoreStatsKeepsFlag(users) ==
    /\ unsaved' = [u \in User |-> IF u \in users THEN {} ELSE unsaved[u]]
    /\ UNCHANGED statsChanged_

\* RestoreStats for users: what is in memory is in the database afterwards.
RestoreStats(users) ==
    /\ unsaved' = [u \in User |-> IF u \in users THEN {} ELSE unsaved[u]]
    /\ statsChanged_' = [u \in User |-> IF u \in users THEN FALSE ELSE statsChanged_[u]]

\* A new day begins for u with bundles in memory: FlushDataInMem notifies the core,
\* and there HasEvent finds no key.
MustSend(u, newDay, bundles) == newDay /\ bundles /\ ~statsChanged_[u] /\ ~hasKey

\* FLUSH, or SHUTDOWN with its event, in the service of u.  FLUSH brings the totals of
\* the bundles in memory up to date and marks nothing.  A new day saves everything
\* first; when it must send a flush, this is the part before SendEvent.
Report(u, newDay, bundles, event) ==
    IF MustSend(u, newDay, bundles)
    THEN /\ statsChanged_' = [statsChanged_ EXCEPT ![u] = TRUE]
         /\ unsaved' = [unsaved EXCEPT ![u] = @ \cup event]
    ELSE /\ statsChanged_' = [statsChanged_ EXCEPT ![u] = @ /\ ~newDay]
         /\ unsaved' = [unsaved EXCEPT ![u] =
                          (IF newDay THEN {} ELSE @ \cup event)
                          \cup (IF bundles THEN {"settled"} ELSE {})]

\* The part from SendEvent on.
Renew(u) ==
    /\ SendEvent(u)
    /\ statsChanged_' = [statsChanged_ EXCEPT ![u] = FALSE]
    /\ unsaved' = [unsaved EXCEPT ![u] = {"settled"}]

\* GetUserDataAndInitializeIfNeeded: the start of a service adds the STARTUP event to
\* the events in memory and does not mark it.
InitService(u) == IF u \in userStatServices_ THEN unsaved[u] ELSE unsaved[u] \cup {"startup"}

-----------------------------------------------------------------------------
(* Tasks of the report queue                                               *)

\* OnStatsChanged where nothing can come in between.
OnStatsChanged(u) == IF hasKey THEN UNCHANGED timer ELSE SendEvent(u)

\* Core ReportEvent holds mutex_, and nothing else that schedules or cancels runs
\* beside it.  When the event begins a new day (newDay), everything is saved first and
\* the flag is set from FALSE again.
ReportEvent(u, newDay) ==
    /\ QueueIdle /\ CoreLockFree
    /\ newDay => u \in userStatServices_
    /\ currentUsedUser_' = IF currentUsedUser_ = None THEN u ELSE currentUsedUser_
    /\ userStatServices_' = userStatServices_ \cup {u}
    /\ unsaved' = [unsaved EXCEPT ![u] =
                     (IF newDay THEN {} ELSE InitService(u)) \cup {"reported"}]
    /\ statsChanged_' = [statsChanged_ EXCEPT ![u] = TRUE]
    /\ IF statsChanged_[u] /\ ~newDay THEN UNCHANGED timer ELSE OnStatsChanged(u)
    /\ UNCHANGED <<lost, task, holder, spaceLow>>

\* Core ReportEvent for a launcher: nothing is recorded, but the first event of all
\* still decides who the current user is.
ReportLauncherEvent(u) ==
    /\ QueueIdle /\ CoreLockFree
    /\ currentUsedUser_ = None
    /\ currentUsedUser_' = u
    /\ UNCHANGED <<services, timer, task, holder, spaceLow>>

\* OnUserRemoved: the service goes, and so does everything known of the user.
RemoveUser(u) ==
    /\ QueueIdle /\ CoreLockFree
    /\ u \in userStatServices_
    /\ userStatServices_' = userStatServices_ \ {u}
    /\ RestoreStats({u})
    /\ UNCHANGED <<lost, currentUsedUser_, timer, task, holder, spaceLow>>

\* OnUserSwitched reports FLUSH to the old user, if there is one with a service, ...
SwitchUser(u, newDay, bundles) ==
    LET old == currentUsedUser_
    IN  /\ QueueIdle
        /\ IF old \in userStatServices_
           THEN /\ ~HoldsStatsMutex(holder, old)
                /\ Report(old, newDay, bundles, {})
                /\ task' = [kind |-> "switch", user |-> old, to |-> u,
                            pc |-> IF MustSend(old, newDay, bundles) THEN "renew" ELSE "restore"]
           ELSE /\ task' = [kind |-> "switch", user |-> None, to |-> u, pc |-> "accounts"]
                /\ UNCHANGED <<statsChanged_, unsaved>>
        /\ UNCHANGED <<userStatServices_, lost, currentUsedUser_, timer, holder, spaceLow>>

\* ... saves it ...
SwitchRestore ==
    /\ task.kind = "switch" /\ task.pc = "restore"
    /\ ~HoldsStatsMutex(holder, task.user)
    /\ RestoreStats({task.user})
    /\ task' = [task EXCEPT !.user = None, !.pc = "accounts"]
    /\ UNCHANGED <<userStatServices_, lost, currentUsedUser_, timer, holder, spaceLow>>

\* ... and, unless no account is active, makes sure that some flush is scheduled: it
\* asks HasEvent, without any mutex, ...
SwitchAccounts(anyActive) ==
    /\ task.pc = "accounts"
    /\ currentUsedUser_' = IF anyActive THEN task.to ELSE currentUsedUser_
    /\ task' = IF anyActive /\ ~hasKey THEN [task EXCEPT !.pc = "sendNew"] ELSE Idle
    /\ UNCHANGED <<services, timer, holder, spaceLow>>

\* ... and then calls SendEvent.
SwitchSend ==
    /\ task.pc = "sendNew"
    /\ SendEvent(task.to)
    /\ task' = Idle
    /\ UNCHANGED <<services, currentUsedUser_, holder, spaceLow>>

\* The first flush task that waits is due: all have the same delay.  One of a user who
\* is not the current one only cancels; with little space left it does nothing.
FlushStart ==
    /\ QueueIdle
    /\ stray # <<>> \/ pending # <<>>
    /\ LET u == IF stray # <<>> THEN Head(stray) ELSE Head(pending)
           skip == u = currentUsedUser_ /\ spaceLow
       IN  /\ task' = [kind |-> "flush", user |-> u, to |-> None,
                       pc |-> IF u # currentUsedUser_ THEN "remove"
                              ELSE IF spaceLow THEN "pop" ELSE "report"]
           /\ skipped' = (skipped \/ skip)
    /\ IF stray # <<>>
       THEN stray' = Tail(stray) /\ UNCHANGED <<pending, held>>
       ELSE pending' = Tail(pending) /\ held' = TRUE /\ UNCHANGED stray
    /\ UNCHANGED <<services, currentUsedUser_, hasKey, holder, spaceLow>>

\* RestoreToDatabase reports FLUSH, which saves everything when a new day begins.
FlushReport(newDay, bundles) ==
    /\ task.pc = "report"
    /\ IF task.user \in userStatServices_
       THEN /\ ~HoldsStatsMutex(holder, task.user)
            /\ Report(task.user, newDay, bundles, {})
            /\ task' = [task EXCEPT !.pc =
                          IF MustSend(task.user, newDay, bundles) THEN "renew" ELSE "restore"]
       ELSE /\ task' = [task EXCEPT !.pc = "remove"]
            /\ UNCHANGED <<statsChanged_, unsaved>>
    /\ UNCHANGED <<userStatServices_, lost, currentUsedUser_, timer, holder, spaceLow>>

\* The notification of a new day goes on with SendEvent, and the new day begins.
QueueRenew ==
    /\ task.pc = "renew"
    /\ Renew(task.user)
    /\ task' = [task EXCEPT !.pc = "restore"]
    /\ UNCHANGED <<userStatServices_, lost, currentUsedUser_, holder, spaceLow>>

\* RestoreToDatabaseLocked: RestoreStats(false) saves when the flag is set, ...
FlushRestore ==
    /\ task.kind = "flush" /\ task.pc = "restore"
    /\ ~HoldsStatsMutex(holder, task.user)
    /\ task' = [task EXCEPT !.pc = "remove"]
    /\ RestoreStats({u \in User : u = task.user /\ statsChanged_[u]})
    /\ UNCHANGED <<userStatServices_, lost, currentUsedUser_, timer, holder, spaceLow>>

\* ... then the key is erased ...
FlushRemove ==
    /\ task.pc = "remove"
    /\ task' = [task EXCEPT !.pc = "pop"]
    /\ RemoveEvent
    /\ UNCHANGED <<services, currentUsedUser_, holder, spaceLow>>

\* ... and the lambda of SendEvent pops the handle in front, if there is a key again:
\* its own, or else that of a task sent meanwhile, which nobody can cancel any more.
\* The key stays.
FlushPop ==
    /\ task.pc = "pop"
    /\ task' = Idle
    /\ held' = FALSE
    /\ IF hasKey /\ ~held /\ pending # <<>>
       THEN stray' = Append(stray, Head(pending)) /\ pending' = Tail(pending)
       ELSE UNCHANGED <<stray, pending>>
    /\ UNCHANGED <<services, currentUsedUser_, hasKey, skipped, holder, spaceLow>>

-----------------------------------------------------------------------------
(* Other threads                                                           *)

\* Queries create the service of a user who has none.
Query(u) ==
    /\ CoreLockFree
    /\ userStatServices_' = userStatServices_ \cup {u}
    /\ unsaved' = [unsaved EXCEPT ![u] = InitService(u)]
    /\ UNCHANGED <<statsChanged_, lost, currentUsedUser_, timer, task, holder, spaceLow>>

\* CheckTimeChangeAndGetWallTime: FLUSH, which may begin a new day, ...
TimeChange(u, newDay, bundles) ==
    /\ CoreLockFree
    /\ u \in userStatServices_
    /\ ~HoldsStatsMutex(task, u)
    /\ Report(u, newDay, bundles, {})
    /\ holder' = [kind |-> "timeChange", user |-> u, left |-> {},
                  pc |-> IF MustSend(u, newDay, bundles) THEN "renew" ELSE "save"]
    /\ UNCHANGED <<userStatServices_, lost, currentUsedUser_, timer, task, spaceLow>>

\* The notification of a new day goes on with SendEvent, and the new day begins.
HolderRenew ==
    /\ holder.pc = "renew"
    /\ Renew(holder.user)
    /\ holder' = [holder EXCEPT !.pc = IF holder.kind = "shutDown" THEN "notify" ELSE "save"]
    /\ UNCHANGED <<userStatServices_, lost, currentUsedUser_, task, spaceLow>>

\* Mutant: nothing is saved before the reload.
TimeChangeSaveNothing ==
    /\ holder.kind = "timeChange" /\ holder.pc = "save"
    /\ holder' = [holder EXCEPT !.pc = "reload"]
    /\ UNCHANGED <<services, currentUsedUser_, timer, task, spaceLow>>

\* ... RestoreStats(true), ...
TimeChangeSave ==
    /\ holder.kind = "timeChange" /\ holder.pc = "save"
    /\ ~HoldsStatsMutex(task, holder.user)
    /\ RestoreStats({holder.user})
    /\ holder' = [holder EXCEPT !.pc = "reload"]
    /\ UNCHANGED <<userStatServices_, lost, currentUsedUser_, timer, task, spaceLow>>

\* ... then LoadActiveStats, which forgets what is in memory, ...
TimeChangeReload ==
    /\ holder.pc = "reload"
    /\ ~HoldsStatsMutex(task, holder.user)
    /\ lost' = lost \cup unsaved[holder.user]
    /\ unsaved' = [unsaved EXCEPT ![holder.user] = {}]
    /\ statsChanged_' = [statsChanged_ EXCEPT ![holder.user] = FALSE]
    /\ holder' = [holder EXCEPT !.pc = "remove"]
    /\ UNCHANGED <<userStatServices_, currentUsedUser_, timer, task, spaceLow>>

\* ShutDown reports SHUTDOWN to one service, ReportForShutdown, ...
ShutDown(u, newDay, bundles) ==
    /\ CoreLockFree
    /\ u \in userStatServices_
    /\ ~HoldsStatsMutex(task, u)
    /\ Report(u, newDay, bundles, {"reported"})
    /\ holder' = [kind |-> "shutDown", user |-> u, left |-> userStatServices_,
                  pc |-> IF MustSend(u, newDay, bundles) THEN "renew" ELSE "notify"]
    /\ UNCHANGED <<userStatServices_, lost, currentUsedUser_, timer, task, spaceLow>>

\* ... which notifies: HasEvent ...
ShutDownNotify ==
    /\ holder.pc = "notify"
    /\ statsChanged_' = [statsChanged_ EXCEPT ![holder.user] = TRUE]
    /\ holder' = [holder EXCEPT !.pc =
                    IF ~statsChanged_[holder.user] /\ ~hasKey THEN "send" ELSE "save"]
    /\ UNCHANGED <<userStatServices_, unsaved, lost, currentUsedUser_, timer, task, spaceLow>>

\* ... and SendEvent; ...
ShutDownSend ==
    /\ holder.pc = "send"
    /\ SendEvent(holder.user)
    /\ holder' = [holder EXCEPT !.pc = "save"]
    /\ UNCHANGED <<services, currentUsedUser_, task, spaceLow>>

\* ... RestoreAllData saves one user after the other, ...
ShutDownSave(u) ==
    /\ holder.kind = "shutDown" /\ holder.pc = "save"
    /\ u \in holder.left
    /\ ~HoldsStatsMutex(task, u)
    /\ RestoreStats({u})
    /\ holder' = [holder EXCEPT !.left = @ \ {u},
                                !.pc = IF holder.left = {u} THEN "remove" ELSE "save"]
    /\ UNCHANGED <<userStatServices_, lost, currentUsedUser_, timer, task, spaceLow>>

\* ... and the last step of both is RemoveEvent.
HolderRemove ==
    /\ holder.pc = "remove"
    /\ RemoveEvent
    /\ holder' = NoHolder
    /\ UNCHANGED <<services, currentUsedUser_, task, spaceLow>>

\* Without services RestoreAllData only cancels.
ShutDownNobody ==
    /\ CoreLockFree
    /\ userStatServices_ = {}
    /\ holder' = [NoHolder EXCEPT !.kind = "shutDown", !.pc = "remove"]
    /\ UNCHANGED <<services, currentUsedUser_, timer, task, spaceLow>>

\* The partition runs low, or space is freed.
ChangeSpace ==
    /\ MayRunLow
    /\ spaceLow' = ~spaceLow
    /\ UNCHANGED <<services, currentUsedUser_, timer, task, holder>>

FlushNext ==
    \/ \E u \in User, newDay \in BOOLEAN : ReportEvent(u, newDay)
    \/ \E u \in User : ReportLauncherEvent(u)
    \/ \E u \in User : RemoveUser(u)
    \/ \E u \in User, newDay, bundles \in BOOLEAN : SwitchUser(u, newDay, bundles)
    \/ SwitchRestore
    \/ \E anyActive \in BOOLEAN : SwitchAccounts(anyActive)
    \/ SwitchSend
    \/ FlushStart
    \/ \E newDay, bundles \in BOOLEAN : FlushReport(newDay, bundles)
    \/ QueueRenew
    \/ FlushRestore
    \/ FlushRemove
    \/ FlushPop
    \/ \E u \in User : Query(u)
    \/ \E u \in User, newDay, bundles \in BOOLEAN : TimeChange(u, newDay, bundles)
    \/ HolderRenew
    \/ TimeChangeSave
    \/ TimeChangeReload
    \/ \E u \in User, newDay, bundles \in BOOLEAN : ShutDown(u, newDay, bundles)
    \/ ShutDownNotify
    \/ ShutDownSend
    \/ \E u \in User : ShutDownSave(u)
    \/ HolderRemove
    \/ ShutDownNobody
    \/ ChangeSpace

\* ffrt runs a delayed task when its delay is over, a running task goes on, and the
\* handler of the other thread returns.
FlushFairness ==
    /\ WF_flushVars(FlushStart)
    /\ WF_flushVars(SwitchRestore)
    /\ WF_flushVars(\E anyActive \in BOOLEAN : SwitchAccounts(anyActive))
    /\ WF_flushVars(SwitchSend)
    /\ WF_flushVars(\E newDay, bundles \in BOOLEAN : FlushReport(newDay, bundles))
    /\ WF_flushVars(QueueRenew)
    /\ WF_flushVars(FlushRestore)
    /\ WF_flushVars(FlushRemove)
    /\ WF_flushVars(FlushPop)
    /\ WF_flushVars(HolderRenew)
    /\ WF_flushVars(TimeChangeSave)
    /\ WF_flushVars(TimeChangeReload)
    /\ WF_flushVars(ShutDownNotify)
    /\ WF_flushVars(ShutDownSend)
    /\ WF_flushVars(\E u \in User : ShutDownSave(u))
    /\ WF_flushVars(HolderRemove)

FlushSpec == FlushInit /\ [][FlushNext]_flushVars
FairFlushSpec == FlushSpec /\ FlushFairness

-----------------------------------------------------------------------------
\* Type invariant of the services, the flush timer and the two threads.
FlushTypeOK ==
    /\ userStatServices_ \in SUBSET User
    /\ statsChanged_ \in [User -> BOOLEAN]
    /\ unsaved \in [User -> SUBSET Kind]
    /\ lost \in SUBSET Kind
    /\ currentUsedUser_ \in User \cup {None}
    /\ hasKey \in BOOLEAN
    /\ pending \in Seq(User)
    /\ stray \in Seq(User)
    /\ held \in BOOLEAN
    /\ skipped \in BOOLEAN
    /\ task \in [kind : {"none", "switch", "flush"}, user : User \cup {None},
                 to : User \cup {None},
                 pc : {"none", "report", "renew", "restore", "accounts", "sendNew",
                       "remove", "pop"}]
    /\ holder \in [kind : {"none", "timeChange", "shutDown"}, user : User \cup {None},
                   left : SUBSET User,
                   pc : {"none", "renew", "notify", "send", "save", "reload", "remove"}]
    /\ spaceLow \in BOOLEAN

\* RestoreStats(false) of the flush looks at statsChanged_ only, so an event that was
\* reported and is in memory alone must be marked once the report is over, also after a
\* new day, a reload or a user switch has cleared the flag beside it.
UnsavedIsMarked ==
    \A u \in User : "reported" \in unsaved[u] =>
        u \in userStatServices_ /\ (statsChanged_[u] \/ HoldsStatsMutex(holder, u))

\* The reload after a clock change throws memory away; with the flush and the user
\* switch running beside it without mutex_, no event is lost that way.
NothingLost == lost \subseteq {"settled"}

\* A flush task that will erase the key again is waiting or running.
FlushToCome ==
    \/ pending # <<>>
    \/ stray # <<>>
    \/ task.kind = "flush" /\ task.pc \in {"report", "renew", "restore", "remove"}

\* HasEvent looks at the key only.  When it says that a flush is scheduled, one is,
\* although two threads may send at once, tasks are cancelled behind each other's back
\* and a task may drop the handle of another; a flush that was skipped is the exception.
FlushFollows == hasKey /\ ~skipped => FlushToCome

\* Before the reload of a clock change nothing comes into the user's memory but totals
\* that FLUSH settles.  This is what NothingLost rests on.
ReloadIsSafe == holder.pc = "reload" => unsaved[holder.user] \subseteq {"settled"}

\* Who is served in which step, that a service lets one thread in at a time, and that a
\* shutdown has marked the service before it sends.
ThreadsInOrder ==
    /\ holder.pc \in {"renew", "notify", "send", "save", "reload"} => holder.user \in User
    /\ task.pc \in {"report", "renew", "restore", "remove", "pop"} => task.user \in User
    /\ task.pc \in {"accounts", "sendNew"} => task.to \in User
    /\ task.kind = "switch" => task.to \in User
    /\ \A u \in User : ~(HoldsStatsMutex(task, u) /\ HoldsStatsMutex(holder, u))
    /\ holder.pc = "send" => statsChanged_[holder.user]

\* The inductive invariant.
FlushIInv ==
    FlushTypeOK /\ ThreadsInOrder /\ UnsavedIsMarked /\ ReloadIsSafe /\ NothingLost
    /\ FlushFollows

\* What a user did is saved in the end.
SavedInTheEnd(u) == ("reported" \in unsaved[u]) ~> ("reported" \notin unsaved[u])

\* Nobody but u uses the device.
Alone(u) == userStatServices_ \subseteq {u} /\ currentUsedUser_ \in {u, None}

\* On a device with one user and a partition that never runs low, every event that is
\* reported is saved in the end: no order of reports, new days, clock changes and flush
\* steps leaves statsChanged_ set with no flush to come.
SavedWhenAlone == \A u \in User : [](~spaceLow /\ Alone(u)) => SavedInTheEnd(u)

\* The same when the partition only has space again for good some day: the flush comes
\* back every 30 minutes.
SavedOnceSpaceIsFree == \A u \in User : (<>[]~spaceLow /\ []Alone(u)) => SavedInTheEnd(u)
=============================================================================
