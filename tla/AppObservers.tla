---------------------------- MODULE AppObservers ----------------------------
(***************************************************************************)
(* The observers that turn callbacks of the window manager, the ability    *)
(* manager and the background task manager into reports:                   *)
(* BundleActiveWindowVisibilityManager, BundleActiveAppStateObserver and   *)
(* BundleActiveContinuousTaskObserver, with their subscription in          *)
(* BundleActiveService.                                                    *)
(*                                                                         *)
(* Callbacks of one manager arrive in order, one at a time; those of       *)
(* different managers run on threads of their own.  The thread of windows  *)
(* and that of ability states meet in UpdateAppVisibility, which computes  *)
(* the visibility of a bundle under one mutex, compares and stores it      *)
(* under another, and reports under none: each is a step.                  *)
(***************************************************************************)
EXTENDS Naturals, SequencesExt, FiniteSetsExt

CONSTANTS
    Ability,        \* page abilities
    BundleOf,       \* the bundle of each ability: the key of appVisibilityMap_
    Window,         \* windows with a bundle name and a uid
    OwnerOf,        \* the ability of each window
    SystemWindow,   \* windows of the desktop, which are skipped
    MaxChanges,     \* bound: changes of windows and abilities
    MaxDeaths       \* bound: deaths of the bundle manager
ASSUME ObserversAssumption ==
    /\ OwnerOf \in [Window -> Ability] /\ SystemWindow \subseteq Window
    /\ DOMAIN BundleOf = Ability /\ "none" \notin Ability
    /\ IsFiniteSet(Window)
    /\ MaxChanges \in Nat /\ MaxDeaths \in Nat

FOREGROUND == "ABILITY_FOREGROUND"
BACKGROUND == "ABILITY_BACKGROUND"
STOP == "ABILITY_STOP"
None == "none"
Bundle == {BundleOf[a] : a \in Ability}
WindowsOf(a) == {w \in Window : OwnerOf[w] = a}

VARIABLES
    enabled,            \* isWindowVisibilityEnable_
    subscribed,         \* the callbacks that were subscribed: "window", "ability"
    abilityWindowMap_,  \* the known windows, and whether each is visible
    appVisibilityMap_,  \* the bundles that are visible
    thread,             \* what the thread of each callback is doing
    bundleMgr_,         \* the cached bundle manager: "none", "live" or "dead"
    tracked,            \* the abilities reported in front
    lastReport,         \* the last report of the window manager about each bundle
    openTasks,          \* the abilities reported with a continuous task
    windowQueue, stateQueue,    \* callbacks on their way
    state, shown, running,      \* the device: abilities, windows and tasks
    disturbed,          \* history: bundles whose callbacks met each other
    changes, deaths     \* history: changes and deaths so far

manager == <<abilityWindowMap_, appVisibilityMap_>>
reports == <<tracked, lastReport>>
tasks == <<bundleMgr_, openTasks, running, deaths>>
queues == <<windowQueue, stateQueue>>
device == <<state, shown, changes>>
vars == <<enabled, subscribed, manager, thread, reports, tasks, queues, device, disturbed>>

Thread == {"window", "ability"}
At(pc, todo, ability, isVisible, event) ==
    [pc |-> pc, todo |-> todo, ability |-> ability, isVisible |-> isVisible, event |-> event]
Idle == At("idle", {}, None, FALSE, None)

Init ==
    /\ enabled \in BOOLEAN
    /\ subscribed = {}
    /\ abilityWindowMap_ = <<>> /\ appVisibilityMap_ = {}
    /\ thread = [t \in Thread |-> Idle]
    /\ bundleMgr_ = None /\ openTasks = {} /\ running = {} /\ deaths = 0
    /\ tracked = {} /\ lastReport = [b \in Bundle |-> BACKGROUND]
    /\ windowQueue = <<>> /\ stateQueue = <<>>
    /\ state = [a \in Ability |-> None] /\ shown = {} /\ changes = 0
    /\ disturbed = {}

-----------------------------------------------------------------------------
(* Subscription at the start of the service                                *)

\* InitService subscribes to ability states first, ...
SubscribeAppState ==
    /\ subscribed = {}
    /\ subscribed' = {"ability"}
    /\ UNCHANGED <<enabled, manager, thread, reports, tasks, queues, device, disturbed>>

\* ... and then to windows.  Either may fail, and nobody tries again.
SubscribeWindowVisibility ==
    /\ enabled
    /\ subscribed = {"ability"}
    /\ subscribed' = {"ability", "window"}
    /\ UNCHANGED <<enabled, manager, thread, reports, tasks, queues, device, disturbed>>

-----------------------------------------------------------------------------
(* BundleActiveWindowVisibilityManager                                     *)

KnownAbilities(map) == {OwnerOf[w] : w \in DOMAIN map}

\* Mutant: a window that is hidden stays as it is.
UpdateWindowKeeps(map, change) ==
    [w \in DOMAIN map \cup {change.window} |->
        IF w = change.window /\ (change.visible \/ w \notin DOMAIN map) THEN change.visible
        ELSE map[w]]

\* HandleNewAbilityWindow and UpdateExistingAbilityWindow: the first window of an
\* ability is kept even when it is invisible.
UpdateWindow(map, change) ==
    IF change.visible \/ OwnerOf[change.window] \notin KnownAbilities(map)
    THEN [w \in DOMAIN map \cup {change.window} |->
            IF w = change.window THEN change.visible ELSE map[w]]
    ELSE Restrict(map, DOMAIN map \ {change.window})

IsAllAbilitiesInvisible(b) ==
    \A w \in DOMAIN abilityWindowMap_ : BundleOf[OwnerOf[w]] = b => ~abilityWindowMap_[w]

\* The bundles a thread is working on, and those it meets when it starts with bs.
WorkingOn(t) ==
    {BundleOf[OwnerOf[w]] : w \in thread[t].todo} \cup
    (IF thread[t].ability = None THEN {} ELSE {BundleOf[thread[t].ability]})
Meets(t, bs) == IF t = "window" THEN bs \cap WorkingOn("ability") ELSE bs \cap WorkingOn("window")

\* The loop of OnWindowVisibilityChanged passes over the windows of the desktop.
HandleWindow(map, change) ==
    IF change.window \in SystemWindow THEN map ELSE UpdateWindow(map, change)
HandleWindows(map, listed) == FoldLeft(HandleWindow, map, listed)

\* The windows of a callback are entered under abilityWindowMapMutex_; the bundles
\* are updated outside of it, one after the other.
OnWindowVisibilityChanged ==
    LET listed == Head(windowQueue)
        windows == {c.window : c \in ToSet(listed)} \ SystemWindow
    IN  /\ windowQueue # <<>>
        /\ thread["window"] = Idle
        /\ windowQueue' = Tail(windowQueue)
        /\ abilityWindowMap_' = HandleWindows(abilityWindowMap_, listed)
        /\ thread' = [thread EXCEPT !["window"] =
                        IF windows = {} THEN Idle ELSE At("compute", windows, None, FALSE, None)]
        /\ disturbed' = disturbed \cup Meets("window", {BundleOf[OwnerOf[w]] : w \in windows})
        /\ UNCHANGED <<enabled, subscribed, appVisibilityMap_, reports, tasks, stateQueue, device>>

\* Where a thread goes after an update: the next window, the report of STOP, the end.
AfterUpdate(th) ==
    IF th.todo # {} THEN At("compute", th.todo, None, FALSE, None)
    ELSE IF th.event # None THEN At("event", {}, th.ability, FALSE, th.event)
    ELSE Idle

\* UpdateAppVisibility computes the visibility of the bundle, ...
ComputeVisibility(t) ==
    LET th == thread[t]
        Compute(a, todo) ==
            thread' = [thread EXCEPT ![t] =
                        At("store", todo, a, ~IsAllAbilitiesInvisible(BundleOf[a]), th.event)]
    IN  /\ th.pc = "compute"
        /\ IF t = "window" THEN \E w \in th.todo : Compute(OwnerOf[w], th.todo \ {w})
           ELSE Compute(th.ability, {})
        /\ UNCHANGED <<enabled, subscribed, manager, reports, tasks, queues, device, disturbed>>

\* Mutant: a bundle that was visible stays so.
StoredKeeps(b, isVisible) == IF isVisible THEN appVisibilityMap_ \cup {b} ELSE appVisibilityMap_

Stored(b, isVisible) == IF isVisible THEN appVisibilityMap_ \cup {b} ELSE appVisibilityMap_ \ {b}

\* ... compares it with what is stored and stores it, ...
StoreVisibility(t) ==
    LET th == thread[t]
        b == BundleOf[th.ability]
    IN  /\ th.pc = "store"
        /\ appVisibilityMap_' = Stored(b, th.isVisible)
        /\ thread' = [thread EXCEPT ![t] =
                        IF (b \in appVisibilityMap_) = th.isVisible THEN AfterUpdate(th)
                        ELSE At("report", th.todo, th.ability, th.isVisible, th.event)]
        /\ UNCHANGED <<enabled, subscribed, abilityWindowMap_, reports, tasks, queues, device, disturbed>>

\* SendEvent; the report queue is serial.
Report(a, event) == tracked' = IF event = FOREGROUND THEN tracked \cup {a} ELSE tracked \ {a}

\* ... and a change is reported (ReportAppStateChanged).
ReportAppStateChanged(t) ==
    LET th == thread[t]
        event == IF th.isVisible THEN FOREGROUND ELSE BACKGROUND
    IN  /\ th.pc = "report"
        /\ Report(th.ability, event)
        /\ lastReport' = [lastReport EXCEPT ![BundleOf[th.ability]] = event]
        /\ thread' = [thread EXCEPT ![t] = AfterUpdate(th)]
        /\ UNCHANGED <<enabled, subscribed, manager, tasks, queues, device, disturbed>>

-----------------------------------------------------------------------------
(* BundleActiveAppStateObserver                                            *)

\* Mutant: windows are not looked at.
ShouldProcessForegroundEventAlways(b) == TRUE

ShouldProcessForegroundEvent(b) == ~enabled \/ ~IsAllAbilitiesInvisible(b)

\* A background callback is reported; one of an ability that comes to front only when
\* a window of its bundle is visible; one of an ability that ended clears its windows
\* first (ClearAbilityWindowInfo).
OnAbilityStateChanged ==
    LET a == Head(stateQueue).ability
        event == Head(stateQueue).event
        b == BundleOf[a]
        skip == event = FOREGROUND /\ ~ShouldProcessForegroundEvent(b)
        clear == event = STOP /\ enabled
        known == IF clear THEN WindowsOf(a) \cap DOMAIN abilityWindowMap_ ELSE {}
    IN  /\ stateQueue # <<>>
        /\ thread["ability"] = Idle
        /\ stateQueue' = Tail(stateQueue)
        /\ thread' = [thread EXCEPT !["ability"] =
                        IF skip THEN Idle
                        ELSE At(IF clear THEN "compute" ELSE "event", {}, a, FALSE, event)]
        /\ abilityWindowMap_' = Restrict(abilityWindowMap_, DOMAIN abilityWindowMap_ \ known)
        /\ disturbed' = disturbed \cup Meets("ability", {b})
                        \cup (IF known \cap shown # {} THEN {b} ELSE {})
        /\ UNCHANGED <<enabled, subscribed, appVisibilityMap_, reports, tasks, windowQueue, device>>

ReportAbilityState ==
    LET th == thread["ability"]
    IN  /\ th.pc = "event"
        /\ Report(th.ability, th.event)
        /\ thread' = [thread EXCEPT !["ability"] = Idle]
        /\ UNCHANGED <<enabled, subscribed, manager, lastReport, tasks, queues, device, disturbed>>

-----------------------------------------------------------------------------
(* BundleActiveContinuousTaskObserver                                      *)

\* GetBundleMgr: the proxy is cached and never fetched again.
GetBundleMgr == IF bundleMgr_ = None THEN "live" ELSE bundleMgr_

\* ReportContinuousTaskEvent: without a bundle name nothing is reported.
ReportContinuousTaskEvent(a, isStart) ==
    /\ bundleMgr_' = GetBundleMgr
    /\ openTasks' = IF GetBundleMgr # "live" THEN openTasks
                    ELSE IF isStart THEN openTasks \cup {a} ELSE openTasks \ {a}

OnContinuousTask(a) ==
    /\ changes < MaxChanges /\ changes' = changes + 1
    /\ running' = SymDiff(running, {a})
    /\ ReportContinuousTaskEvent(a, a \notin running)
    /\ UNCHANGED <<enabled, subscribed, manager, thread, reports, deaths, queues, state, shown, disturbed>>

\* The bundle manager dies and starts again: the proxy of the observer is dead.
BundleMgrDies ==
    /\ deaths < MaxDeaths
    /\ deaths' = deaths + 1
    /\ bundleMgr_' = IF bundleMgr_ = None THEN None ELSE "dead"
    /\ UNCHANGED <<enabled, subscribed, manager, thread, reports, openTasks, running, queues, device, disturbed>>

-----------------------------------------------------------------------------
(* The device                                                              *)

\* Windows change their visibility; the window manager tells of it in one callback.
ChangeWindows(ws) ==
    /\ shown' = SymDiff(shown, ws)
    /\ windowQueue' = IF "window" \notin subscribed \/ ws = {} THEN windowQueue
                      ELSE Append(windowQueue,
                               SetToSeq({[window |-> w, visible |-> w \notin shown] : w \in ws}))

\* The bundles whose change is not reported, because nobody has subscribed.
Unheard(ws, abilities) ==
    (IF "window" \in subscribed THEN {} ELSE {BundleOf[OwnerOf[w]] : w \in ws}) \cup
    (IF "ability" \in subscribed THEN {} ELSE {BundleOf[a] : a \in abilities})

\* A window is shown, covered or uncovered; two when one covers the other.
WindowsChange ==
    /\ changes < MaxChanges /\ changes' = changes + 1
    /\ \E v, w \in Window :
        /\ \A x \in {v, w} : x \in shown \/ state[OwnerOf[x]] = FOREGROUND
        /\ ChangeWindows({v, w})
        /\ disturbed' = disturbed \cup Unheard({v, w}, {})
    /\ UNCHANGED <<enabled, subscribed, manager, thread, reports, tasks, stateQueue, state>>

\* An ability starts, goes to the background or ends; then its windows are hidden.
AbilityChanges(a, event) ==
    LET hidden == IF event = FOREGROUND THEN {} ELSE shown \cap WindowsOf(a)
    IN  /\ changes < MaxChanges /\ changes' = changes + 1
        /\ event # state[a]
        /\ state[a] # None \/ event = FOREGROUND
        /\ state' = [state EXCEPT ![a] = IF event = STOP THEN None ELSE event]
        /\ ChangeWindows(hidden)
        /\ disturbed' = disturbed \cup Unheard(hidden, {a})
        /\ stateQueue' = IF "ability" \in subscribed
                         THEN Append(stateQueue, [ability |-> a, event |-> event]) ELSE stateQueue
        /\ UNCHANGED <<enabled, subscribed, manager, thread, reports, tasks>>

Next ==
    \/ SubscribeAppState
    \/ SubscribeWindowVisibility
    \/ OnWindowVisibilityChanged
    \/ \E t \in Thread : ComputeVisibility(t) \/ StoreVisibility(t) \/ ReportAppStateChanged(t)
    \/ OnAbilityStateChanged
    \/ ReportAbilityState
    \/ \E a \in Ability : OnContinuousTask(a)
    \/ BundleMgrDies
    \/ WindowsChange
    \/ \E a \in Ability, event \in {FOREGROUND, BACKGROUND, STOP} : AbilityChanges(a, event)

Spec == Init /\ [][Next]_vars

-----------------------------------------------------------------------------
AtRest == windowQueue = <<>> /\ stateQueue = <<>> /\ \A t \in Thread : thread[t] = Idle
Counted(w) == w \notin SystemWindow
HasVisibleWindow(b) == \E w \in shown : Counted(w) /\ BundleOf[OwnerOf[w]] = b

\* A window the manager takes for visible is on the screen, or the news that it was
\* hidden is on its way: no end of an ability and no late callback leaves a ghost.
NoGhostWindow ==
    \A w \in DOMAIN abilityWindowMap_ : abilityWindowMap_[w] =>
        \/ w \in shown
        \/ \E i \in DOMAIN windowQueue :
               [window |-> w, visible |-> FALSE] \in ToSet(windowQueue[i])

\* When all callbacks of a bundle were handled and none of them met another one of the
\* same bundle, the last report about it says whether it has a visible window.
ReportedStateMatches ==
    enabled /\ AtRest => \A b \in Bundle \ disturbed :
        (lastReport[b] = FOREGROUND) <=> HasVisibleWindow(b)

\* The same for what is tracked of a bundle with one ability, whose own callbacks report
\* too: it is in front if and only if it has a visible window, or, when the windows are
\* not looked at, if its last state says so.  Two abilities of a bundle refute it.
OnlyAbility(a) == \A c \in Ability : BundleOf[c] = BundleOf[a] => c = a
FrontAgrees ==
    AtRest /\ "ability" \in subscribed => \A a \in Ability :
        OnlyAbility(a) /\ BundleOf[a] \notin disturbed =>
            (a \in tracked <=> IF enabled THEN \E w \in shown : Counted(w) /\ OwnerOf[w] = a
                               ELSE state[a] = FOREGROUND)

\* The comment on ReportAppStateChanged: "foreground, that is there is a visible window;
\* background, that is there is none".
ForegroundHasVisibleWindow ==
    enabled /\ subscribed = Thread /\ AtRest => \A b \in Bundle :
        lastReport[b] = FOREGROUND => HasVisibleWindow(b)
=============================================================================
