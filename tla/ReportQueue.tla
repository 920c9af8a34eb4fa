----------------------------- MODULE ReportQueue -----------------------------
(***************************************************************************)
(* What comes to BundleActiveCore through the queue of the report handler: *)
(* system events that BundleActiveCommonEventSubscriber and the power and  *)
(* ability callbacks turn into messages, for several users, and the guard  *)
(* against late events of removed bundles: bundleUninstalledSet_ and the   *)
(* delayed tasks of taskMap_ that end it.                                  *)
(*                                                                         *)
(* The queue is serial; the delayed tasks run on other threads, under      *)
(* bundleUninstalledMutex_.  OnBundleUninstalled takes that mutex to add   *)
(* the uid and none to submit the task and to write taskMap_, so a task    *)
(* of an earlier removal may run in between.                               *)
(***************************************************************************)
EXTENDS Naturals, SequencesExt, FiniteSetsExt

CONSTANTS
    Uid,            \* one instance of a bundle each
    UserOf,         \* the user of each uid
    Launcher,       \* the uids of launchers
    Delay,          \* BUNDLE_UNINSTALL_DELAY_TIME
    MaxTime,        \* bound: ticks of the clock
    MaxTimers,      \* bound: delayed tasks
    MaxQueue,       \* bound: messages waiting
    MaxEvents       \* bound: changes of the device

User == {UserOf[u] : u \in Uid}
NoUser == "-1"
NoUid == 0

ASSUME QueueAssumption ==
    /\ DOMAIN UserOf = Uid /\ Launcher \subseteq Uid
    /\ NoUid \notin Uid /\ NoUser \notin User
    /\ {Delay, MaxTime, MaxTimers, MaxQueue, MaxEvents} \subseteq Nat

VARIABLES
    queue,                  \* messages of the report handler
    bundleUninstalledSet_,  \* uids whose events are dropped
    taskMap_,               \* the last delayed task of each uid
    timers,                 \* delayed tasks that have not run, with their due time
    nextTimer,              \* the name of the next task
    removing,               \* the uid OnBundleUninstalled is at, or NoUid
    launcherAppMap_,        \* the bundles of which it is known whether they are launchers
    isInitLauncherAppMap_,
    services,               \* userStatServices_: the users with a service
    counted,                \* the uids with statistics, in memory or saved
    now,                    \* the clock
    installed, activeUsers, \* the device
    events,                 \* changes of the device so far
    guardedSince,           \* history: when the first notice of the last removal was handled
    leftover                \* history: uids installed again while a task was out of reach

guard == <<bundleUninstalledSet_, taskMap_, timers, nextTimer, removing>>
core == <<launcherAppMap_, isInitLauncherAppMap_, services, counted>>
device == <<installed, activeUsers, events>>
history == <<guardedSince, leftover>>
vars == <<queue, guard, core, now, device, history>>

Init ==
    /\ queue = <<>>
    /\ bundleUninstalledSet_ = {} /\ taskMap_ = <<>> /\ timers = {} /\ nextTimer = 1
    /\ removing = NoUid
    /\ launcherAppMap_ = {} /\ isInitLauncherAppMap_ = FALSE /\ services = {} /\ counted = {}
    /\ now = 0
    /\ installed = Uid /\ activeUsers = User /\ events = 0
    /\ guardedSince = <<>> /\ leftover = {}

TimersOf(u) == {t \in timers : t.uid = u}

-----------------------------------------------------------------------------
(* Messages                                                                *)

Message(kind, user, u) == [kind |-> kind, userId |-> user, uid |-> u]
SendEvent(messages) ==
    /\ Len(queue) + Len(messages) <= MaxQueue
    /\ queue' = queue \o messages

\* The system does something the service hears of.
DeviceEvent(messages) ==
    /\ events < MaxEvents
    /\ events' = events + 1
    /\ SendEvent(messages)
    /\ UNCHANGED <<guard, core, now, history>>

\* OnAbilityStateChanged and the window callbacks.  An ability that ends with its bundle
\* is heard of before or after the removal.
AbilityEvent(u) ==
    /\ UserOf[u] \in activeUsers
    /\ DeviceEvent(<<Message("appState", UserOf[u], u)>>)
    /\ UNCHANGED <<installed, activeUsers>>

\* Events of clients that are not about the state of an ability.
OtherEvent(u) ==
    /\ u \in installed
    /\ DeviceEvent(<<Message("other", UserOf[u], u)>>)
    /\ UNCHANGED <<installed, activeUsers>>

\* HandlePackageRemoveEvent: PACKAGE_REMOVED and PACKAGE_FULLY_REMOVED both come.
PackageRemoved(u) ==
    /\ u \in installed
    /\ installed' = installed \ {u}
    /\ \E n \in 1..2 : DeviceEvent([i \in 1..n |-> Message("removed", UserOf[u], u)])
    /\ UNCHANGED activeUsers

\* HandlePackageAddEvent
PackageAdded(u) ==
    /\ u \notin installed
    /\ installed' = installed \cup {u}
    /\ DeviceEvent(<<Message("added", UserOf[u], u)>>)
    /\ UNCHANGED activeUsers

\* HandleUserRemoveEvent
UserRemoved(user) ==
    /\ activeUsers' = activeUsers \ {user}
    /\ user \in activeUsers
    /\ DeviceEvent(<<Message("userRemoved", user, NoUid)>>)
    /\ UNCHANGED installed

\* HandleLockEvent, with the user of the lock screen.
LockEvent(user) ==
    /\ user \in activeUsers
    /\ DeviceEvent(<<Message("system", user, NoUid)>>)
    /\ UNCHANGED <<installed, activeUsers>>

\* OnPowerStateChanged and PreservePowerStateInfo: with more than one active user the
\* event has no user.
PowerEvent ==
    LET user == IF Cardinality(activeUsers) = 1 THEN CHOOSE u \in activeUsers : TRUE ELSE NoUser
    IN  /\ DeviceEvent(<<Message("system", user, NoUid)>>)
        /\ UNCHANGED <<installed, activeUsers>>

-----------------------------------------------------------------------------
(* The queue                                                               *)

isUninstalledApp(u) == u \in bundleUninstalledSet_

\* IsLauncherApp: what the first call learns of all bundles and later ones of theirs is
\* kept for ever; a bundle of which the bundle manager knows nothing, because it does not
\* answer or the bundle is removed, is taken for an application.
Known(u, answers) ==
    launcherAppMap_ \cup
    (IF ~answers THEN {} ELSE IF isInitLauncherAppMap_ THEN {u} \cap installed ELSE installed)
IsLauncherApp(u, answers) == u \in Launcher \cap Known(u, answers)

Next1(kinds) ==
    /\ queue # <<>> /\ removing = NoUid
    /\ Head(queue).kind \in kinds
    /\ queue' = Tail(queue)

\* ProcessReportEvent and ReportEvent of the core.
ProcessReportEvent ==
    LET msg == Head(queue)
        dropped == \/ msg.kind = "appState" /\ isUninstalledApp(msg.uid)
                   \/ msg.userId = NoUser
    IN  /\ Next1({"appState", "other", "system"})
        /\ \E answers \in BOOLEAN :
            LET ignored == dropped \/ IsLauncherApp(msg.uid, answers)
            IN  /\ launcherAppMap_' = IF dropped THEN launcherAppMap_ ELSE Known(msg.uid, answers)
                /\ isInitLauncherAppMap_' = (isInitLauncherAppMap_ \/ ~dropped)
                /\ services' = IF ignored THEN services ELSE services \cup {msg.userId}
                /\ counted' = IF ignored THEN counted ELSE counted \cup ({msg.uid} \ {NoUid})
        /\ UNCHANGED <<guard, now, device, history>>

\* OnBundleUninstalled: the uid is added to the guard ...
OnBundleUninstalled ==
    LET u == Head(queue).uid
    IN  /\ Next1({"removed"})
        /\ bundleUninstalledSet_' = bundleUninstalledSet_ \cup {u}
        /\ removing' = u
        /\ services' = services \cup {UserOf[u]}
        /\ guardedSince' = [v \in DOMAIN guardedSince \cup {u} |->
                                IF v \in DOMAIN guardedSince THEN guardedSince[v] ELSE now]
        /\ UNCHANGED <<leftover, taskMap_, timers, nextTimer, launcherAppMap_, isInitLauncherAppMap_, counted, now, device>>

\* When the task armed now is due.
Due == Delay

\* ... and DelayRemoveBundleUninstalledUid arms the task that ends it, then the
\* statistics of the bundle are deleted.
DelayRemoveBundleUninstalledUid ==
    /\ removing # NoUid
    /\ nextTimer <= MaxTimers
    /\ timers' = timers \cup {[id |-> nextTimer, uid |-> removing, due |-> now + Due, started |-> FALSE]}
    /\ taskMap_' = [v \in DOMAIN taskMap_ \cup {removing} |->
                        IF v = removing THEN nextTimer ELSE taskMap_[v]]
    /\ nextTimer' = nextTimer + 1
    /\ counted' = counted \ {removing}
    /\ removing' = NoUid
    /\ UNCHANGED <<queue, bundleUninstalledSet_, launcherAppMap_, isInitLauncherAppMap_, services, now, device, history>>

\* Mutant: an installed bundle stays guarded until its task runs.
UnguardedKeeps(u) == bundleUninstalledSet_

Unguarded(u) == bundleUninstalledSet_ \ {u}

\* Mutant: a task that is on its way is left to run.
SkippableNone(u) == {t \in TimersOf(u) : t.started}

\* ffrt::skip cancels the last task of the uid unless it has started.
Skippable(u) == {t \in TimersOf(u) : u \in DOMAIN taskMap_ /\ t.id = taskMap_[u] /\ ~t.started}

\* The tasks no skip reaches: begun, behind the task of a later notice, or all of them
\* when the guard has ended before, since then OnBundleInstalled returns at once.
OutOfReach(u) ==
    {t \in TimersOf(u) : \/ t.started \/ ~isUninstalledApp(u)
                         \/ u \notin DOMAIN taskMap_ \/ t.id # taskMap_[u]}

\* OnBundleInstalled
OnBundleInstalled ==
    LET u == Head(queue).uid
        wasGuarded == isUninstalledApp(u)
    IN  /\ Next1({"added"})
        /\ bundleUninstalledSet_' = Unguarded(u)
        /\ timers' = IF wasGuarded THEN timers \ Skippable(u) ELSE timers
        /\ taskMap_' = IF wasGuarded THEN Restrict(taskMap_, DOMAIN taskMap_ \ {u}) ELSE taskMap_
        /\ guardedSince' = Restrict(guardedSince, DOMAIN guardedSince \ {u})
        /\ leftover' = IF OutOfReach(u) # {} THEN leftover \cup {u} ELSE leftover \ {u}
        /\ UNCHANGED <<nextTimer, removing, core, now, device>>

\* OnUserRemoved: the data of the user goes with the service; without a service
\* nothing happens.
OnUserRemoved ==
    LET user == Head(queue).userId
    IN  /\ Next1({"userRemoved"})
        /\ services' = services \ {user}
        /\ counted' = IF user \in services THEN {u \in counted : UserOf[u] # user} ELSE counted
        /\ UNCHANGED <<guard, launcherAppMap_, isInitLauncherAppMap_, now, device, history>>

-----------------------------------------------------------------------------
(* The delayed tasks                                                       *)

\* A task starts when it is due, and from then on it cannot be skipped.
TimerStart(t) ==
    /\ ~t.started /\ t.due <= now
    /\ timers' = (timers \ {t}) \cup {[t EXCEPT !.started = TRUE]}
    /\ UNCHANGED <<queue, bundleUninstalledSet_, taskMap_, nextTimer, removing, core, now, device, history>>

\* It ends the guard of its uid, whoever set it, and forgets the last task of the uid.
TimerRun(t) ==
    /\ t.started
    /\ timers' = timers \ {t}
    /\ bundleUninstalledSet_' = bundleUninstalledSet_ \ {t.uid}
    /\ taskMap_' = Restrict(taskMap_, DOMAIN taskMap_ \ {t.uid})
    /\ UNCHANGED <<queue, nextTimer, removing, core, now, device, history>>

Tick ==
    /\ now < MaxTime
    /\ now' = now + 1
    /\ UNCHANGED <<queue, guard, core, device, history>>

CoreNext ==
    \/ ProcessReportEvent
    \/ OnBundleUninstalled
    \/ DelayRemoveBundleUninstalledUid
    \/ OnBundleInstalled
    \/ OnUserRemoved
    \/ \E t \in timers : TimerStart(t) \/ TimerRun(t)
    \/ Tick

Next ==
    \/ CoreNext
    \/ \E u \in Uid : AbilityEvent(u) \/ OtherEvent(u) \/ PackageRemoved(u) \/ PackageAdded(u)
    \/ \E user \in User : UserRemoved(user) \/ LockEvent(user)
    \/ PowerEvent

Spec == Init /\ [][Next]_vars

-----------------------------------------------------------------------------
MessageType ==
    {m \in [kind : {"appState", "other", "removed", "added", "userRemoved", "system"},
            userId : User \cup {NoUser}, uid : Uid \cup {NoUid}] :
        m.kind \in {"removed", "added"} => m.uid \in Uid}

TypeOK ==
    /\ queue \in Seq(MessageType)
    /\ bundleUninstalledSet_ \subseteq Uid
    /\ taskMap_ \in [DOMAIN taskMap_ -> Nat]
    /\ timers \subseteq [id : Nat, uid : Uid, due : Nat, started : BOOLEAN]
    /\ nextTimer \in Nat /\ now \in Nat
    /\ removing \in Uid \cup {NoUid}
    /\ installed \subseteq Uid /\ activeUsers \subseteq User
    /\ guardedSince \in [DOMAIN guardedSince -> Nat]

\* A guarded uid always has a delayed task on its way that ends the guard, so no bundle
\* is ignored for ever: whichever task a reinstallation cancelled, and whichever erased
\* the entry of another.
GuardHasTimer ==
    \A u \in bundleUninstalledSet_ : TimersOf(u) # {} \/ removing = u

\* The guard lasts for Delay from the first notice of a removal, against all tasks of
\* earlier removals of the uid, save those no skip could reach when it was installed in
\* between: begun, hidden by the second notice of the same removal, or armed by it after
\* the first had ended the guard.
GuardLasts ==
    \A u \in DOMAIN guardedSince :
        u \notin leftover /\ now < guardedSince[u] + Delay => isUninstalledApp(u)

\* An event of an installed bundle is counted as soon as the news of its installation was
\* handled, however many tasks of earlier removals are left.
InstalledIsCounted ==
    [][ \A u \in Uid :
            /\ Len(queue') < Len(queue) /\ Head(queue) = Message("appState", UserOf[u], u)
            /\ u \notin DOMAIN guardedSince /\ u \notin Launcher
            => u \in counted' ]_vars

-----------------------------------------------------------------------------
(* The inductive invariant behind them                                     *)

\* What is guarded had a notice, and so had the uid that is being removed; no notice and
\* no begun task is of the future.
NoticesKnown ==
    /\ bundleUninstalledSet_ \subseteq DOMAIN guardedSince
    /\ removing # NoUid => removing \in DOMAIN guardedSince
    /\ \A u \in DOMAIN guardedSince : guardedSince[u] <= now
    /\ \A t \in timers : t.started => t.due <= now

\* The tasks on their way are those of the present removal, but for those left over.
TasksAreOfThisRemoval ==
    \A t \in timers : t.uid \notin leftover =>
        t.uid \in DOMAIN guardedSince /\ t.due >= guardedSince[t.uid] + Delay

IInv == TypeOK /\ GuardHasTimer /\ NoticesKnown /\ TasksAreOfThisRemoval /\ GuardLasts
=============================================================================
