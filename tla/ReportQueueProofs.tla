-------------------------- MODULE ReportQueueProofs --------------------------
(***************************************************************************)
(* Proofs about ReportQueue for any set of uids and users, any delay and   *)
(* any number of messages and tasks: the guard against late events of      *)
(* removed bundles ends, lasts, and does not touch installed bundles.      *)
(***************************************************************************)
EXTENDS ReportQueue, TLAPS, FiniteSetTheorems

\* Sending typed messages leaves a typed queue, and appends.
LEMMA SendIsTyped ==
    ASSUME queue \in Seq(MessageType), NEW messages \in Seq(MessageType), SendEvent(messages)
    PROVE  queue' \in Seq(MessageType) /\ Len(queue') >= Len(queue)
BY DEF SendEvent

\* What one or two typed messages do when the system sends them.
LEMMA EventIsTyped ==
    ASSUME TypeOK, NEW messages \in Seq(MessageType), DeviceEvent(messages)
    PROVE  /\ UNCHANGED <<guard, core, now, history>>
           /\ queue' \in Seq(MessageType) /\ Len(queue') >= Len(queue)
BY SendIsTyped DEF DeviceEvent, TypeOK

LEMMA OneMessage ==
    ASSUME TypeOK, NEW m \in MessageType, DeviceEvent(<<m>>)
    PROVE  /\ UNCHANGED <<guard, core, now, history>>
           /\ queue' \in Seq(MessageType) /\ Len(queue') >= Len(queue)
<1>1. <<m>> \in Seq(MessageType)
    OBVIOUS
<1> QED BY <1>1, EventIsTyped

\* What handling the head of the queue leaves of it.
LEMMA NextIsTyped ==
    ASSUME queue \in Seq(MessageType), NEW kinds, Next1(kinds)
    PROVE  /\ queue' \in Seq(MessageType)
           /\ Head(queue) \in MessageType /\ Head(queue).kind \in kinds
           /\ removing = NoUid
<1>1. queue # <<>> /\ queue' = Tail(queue)
    BY DEF Next1
<1>2. Head(queue) \in MessageType /\ Tail(queue) \in Seq(MessageType)
    BY <1>1
<1> QED BY <1>1, <1>2 DEF Next1

\* An event of the device changes only the device and the queue, which grows.
DeviceOnly ==
    /\ UNCHANGED <<guard, core, now, history>>
    /\ queue' \in Seq(MessageType) /\ Len(queue') >= Len(queue)
    /\ installed' \subseteq Uid /\ activeUsers' \subseteq User

DeviceNext ==
    \/ \E u \in Uid : AbilityEvent(u) \/ OtherEvent(u) \/ PackageRemoved(u) \/ PackageAdded(u)
    \/ \E user \in User : UserRemoved(user) \/ LockEvent(user)
    \/ PowerEvent

LEMMA DeviceStep == TypeOK /\ DeviceNext => DeviceOnly
<1> SUFFICES ASSUME TypeOK, DeviceNext PROVE DeviceOnly
    OBVIOUS
<1>u. \A u \in Uid : UserOf[u] \in User \cup {NoUser}
    BY DEF User
<1>1. ASSUME NEW u \in Uid, AbilityEvent(u) PROVE DeviceOnly
    <2>1. Message("appState", UserOf[u], u) \in MessageType
        BY <1>u DEF Message, MessageType
    <2> QED BY <1>1, <2>1, OneMessage DEF AbilityEvent, DeviceOnly, TypeOK
<1>2. ASSUME NEW u \in Uid, OtherEvent(u) PROVE DeviceOnly
    <2>1. Message("other", UserOf[u], u) \in MessageType
        BY <1>u DEF Message, MessageType
    <2> QED BY <1>2, <2>1, OneMessage DEF OtherEvent, DeviceOnly, TypeOK
<1>3. ASSUME NEW u \in Uid, PackageRemoved(u) PROVE DeviceOnly
    <2>1. Message("removed", UserOf[u], u) \in MessageType
        BY <1>u DEF Message, MessageType
    <2>2. PICK n \in 1..2 : DeviceEvent([i \in 1..n |-> Message("removed", UserOf[u], u)])
        BY <1>3 DEF PackageRemoved
    <2>3. [i \in 1..n |-> Message("removed", UserOf[u], u)] \in Seq(MessageType)
        BY <2>1
    <2> QED BY <1>3, <2>2, <2>3, EventIsTyped DEF PackageRemoved, DeviceOnly, TypeOK
<1>4. ASSUME NEW u \in Uid, PackageAdded(u) PROVE DeviceOnly
    <2>1. Message("added", UserOf[u], u) \in MessageType
        BY <1>u DEF Message, MessageType
    <2> QED BY <1>4, <2>1, OneMessage DEF PackageAdded, DeviceOnly, TypeOK
<1>5. ASSUME NEW user \in User, UserRemoved(user) PROVE DeviceOnly
    <2>1. Message("userRemoved", user, NoUid) \in MessageType
        BY DEF Message, MessageType
    <2> QED BY <1>5, <2>1, OneMessage DEF UserRemoved, DeviceOnly, TypeOK
<1>6. ASSUME NEW user \in User, LockEvent(user) PROVE DeviceOnly
    <2>1. Message("system", user, NoUid) \in MessageType
        BY DEF Message, MessageType
    <2> QED BY <1>6, <2>1, OneMessage DEF LockEvent, DeviceOnly, TypeOK
<1>7. ASSUME PowerEvent PROVE DeviceOnly
    <2> DEFINE user == IF Cardinality(activeUsers) = 1 THEN CHOOSE u \in activeUsers : TRUE
                       ELSE NoUser
    <2>1. Cardinality(activeUsers) = 1 => activeUsers # {}
        BY FS_EmptySet
    <2>2. user \in User \cup {NoUser}
        BY <2>1 DEF TypeOK
    <2>3. Message("system", user, NoUid) \in MessageType
        BY <2>2 DEF Message, MessageType
    <2>4. DeviceEvent(<<Message("system", user, NoUid)>>) /\ UNCHANGED <<installed, activeUsers>>
        BY <1>7 DEF PowerEvent
    <2> HIDE DEF user
    <2>5. UNCHANGED <<guard, core, now, history>> /\ queue' \in Seq(MessageType)
          /\ Len(queue') >= Len(queue)
        BY <2>3, <2>4, OneMessage
    <2>6. installed' \subseteq Uid /\ activeUsers' \subseteq User
        BY <2>4 DEF TypeOK
    <2> QED BY <2>5, <2>6 DEF DeviceOnly
<1> QED BY <1>1, <1>2, <1>3, <1>4, <1>5, <1>6, <1>7 DEF DeviceNext

\* Nothing is guarded and no task is on its way at the start.
LEMMA InitIInv == Init => IInv
BY QueueAssumption DEF Init, IInv, TypeOK, GuardHasTimer, NoticesKnown, TasksAreOfThisRemoval, GuardLasts, User

\* A change of the device, or of nothing, leaves the guard alone.
LEMMA DeviceKeeps ==
    ASSUME IInv, DeviceOnly \/ UNCHANGED vars PROVE IInv'
<1>1. UNCHANGED <<guard, now, history>>
    BY DEF DeviceOnly, vars
<1>2. queue' \in Seq(MessageType) /\ installed' \subseteq Uid /\ activeUsers' \subseteq User
    BY DEF DeviceOnly, vars, device, IInv, TypeOK
<1> QED
    BY <1>1, <1>2 DEF IInv, TypeOK, GuardHasTimer, NoticesKnown, TasksAreOfThisRemoval, GuardLasts,
        guard, history, TimersOf, isUninstalledApp

\* Events and removals of users leave the guard alone, too.
LEMMA OtherMessages ==
    ASSUME IInv, ProcessReportEvent \/ OnUserRemoved PROVE IInv'
<1>1. UNCHANGED <<guard, now, history, device>>
    BY DEF ProcessReportEvent, OnUserRemoved
<1>2. queue' \in Seq(MessageType)
    <2>1. \E kinds : Next1(kinds)
        BY DEF ProcessReportEvent, OnUserRemoved
    <2> QED BY <2>1, NextIsTyped DEF IInv, TypeOK
<1> QED
    BY <1>1, <1>2 DEF IInv, TypeOK, GuardHasTimer, NoticesKnown, TasksAreOfThisRemoval, GuardLasts,
        guard, history, device, TimersOf, isUninstalledApp

\* The first half of a removal: guarded, with the task still to come.
LEMMA UninstalledStep ==
    ASSUME IInv, OnBundleUninstalled PROVE IInv'
<1> DEFINE u == Head(queue).uid
<1>1. queue' \in Seq(MessageType) /\ u \in Uid /\ removing = NoUid
    BY NextIsTyped DEF OnBundleUninstalled, IInv, TypeOK, MessageType
<1>2. /\ bundleUninstalledSet_' = bundleUninstalledSet_ \cup {u} /\ removing' = u
      /\ guardedSince' = [v \in DOMAIN guardedSince \cup {u} |->
                            IF v \in DOMAIN guardedSince THEN guardedSince[v] ELSE now]
      /\ UNCHANGED <<leftover, taskMap_, timers, nextTimer, now, installed, activeUsers>>
    BY DEF OnBundleUninstalled, device
<1> HIDE DEF u
<1>3. TypeOK'
    BY <1>1, <1>2 DEF IInv, TypeOK
<1>4. GuardHasTimer'
    BY <1>1, <1>2, QueueAssumption DEF IInv, TypeOK, GuardHasTimer, TimersOf
<1>5. NoticesKnown'
    BY <1>1, <1>2 DEF IInv, TypeOK, NoticesKnown
<1>6. TasksAreOfThisRemoval'
    BY <1>1, <1>2 DEF IInv, TypeOK, TasksAreOfThisRemoval
<1>7. GuardLasts'
    BY <1>1, <1>2 DEF IInv, TypeOK, GuardLasts, isUninstalledApp
<1> QED BY <1>3, <1>4, <1>5, <1>6, <1>7 DEF IInv

\* The second half: the task is due Delay from now, which is not before the first notice.
LEMMA DelayStep ==
    ASSUME IInv, DelayRemoveBundleUninstalledUid PROVE IInv'
<1> DEFINE t == [id |-> nextTimer, uid |-> removing, due |-> now + Delay, started |-> FALSE]
<1>1. /\ removing \in Uid /\ removing' = NoUid /\ timers' = timers \cup {t}
      /\ nextTimer' = nextTimer + 1
      /\ taskMap_' = [v \in DOMAIN taskMap_ \cup {removing} |->
                        IF v = removing THEN nextTimer ELSE taskMap_[v]]
      /\ UNCHANGED <<queue, bundleUninstalledSet_, guardedSince, leftover, now, installed, activeUsers>>
    BY DEF DelayRemoveBundleUninstalledUid, IInv, TypeOK, Due, device, history
<1>2. t \in [id : Nat, uid : Uid, due : Nat, started : BOOLEAN]
    BY <1>1, QueueAssumption DEF IInv, TypeOK
<1>3. t.uid = removing /\ t.due = now + Delay /\ t.started = FALSE
    OBVIOUS
<1> HIDE DEF t
<1>4. TypeOK'
    BY <1>1, <1>2 DEF IInv, TypeOK
<1>5. GuardHasTimer'
    BY <1>1, <1>3 DEF IInv, GuardHasTimer, TimersOf
<1>6. NoticesKnown'
    BY <1>1, <1>3 DEF IInv, NoticesKnown
<1>7. TasksAreOfThisRemoval'
    <2>1. removing \in DOMAIN guardedSince /\ guardedSince[removing] <= now
        BY <1>1, QueueAssumption DEF IInv, NoticesKnown
    <2>2. t.due >= guardedSince[t.uid] + Delay
        BY <1>3, <2>1, QueueAssumption DEF IInv, TypeOK
    <2> QED BY <1>1, <1>3, <2>1, <2>2 DEF IInv, TasksAreOfThisRemoval
<1>8. GuardLasts'
    BY <1>1 DEF IInv, GuardLasts, isUninstalledApp
<1> QED BY <1>4, <1>5, <1>6, <1>7, <1>8 DEF IInv

\* An installation ends the guard of its uid, and what it cannot cancel is left over.
LEMMA InstalledStep ==
    ASSUME IInv, OnBundleInstalled PROVE IInv'
<1> DEFINE u == Head(queue).uid
<1>1. queue' \in Seq(MessageType) /\ u \in Uid /\ removing = NoUid
    BY NextIsTyped DEF OnBundleInstalled, IInv, TypeOK, MessageType
<1>2. /\ bundleUninstalledSet_' = bundleUninstalledSet_ \ {u}
      /\ timers' = IF isUninstalledApp(u) THEN timers \ Skippable(u) ELSE timers
      /\ taskMap_' = IF isUninstalledApp(u) THEN Restrict(taskMap_, DOMAIN taskMap_ \ {u}) ELSE taskMap_
      /\ guardedSince' = Restrict(guardedSince, DOMAIN guardedSince \ {u})
      /\ leftover' = IF OutOfReach(u) # {} THEN leftover \cup {u} ELSE leftover \ {u}
      /\ UNCHANGED <<nextTimer, removing, now, installed, activeUsers>>
    BY DEF OnBundleInstalled, Unguarded, device
<1> HIDE DEF u
<1>3. timers' \subseteq timers /\ \A t \in timers : t.uid # u => t \in timers'
    BY <1>2 DEF Skippable, TimersOf
<1>4. \A t \in timers' : t.uid = u => u \in leftover'
    BY <1>2 DEF Skippable, OutOfReach, TimersOf
<1>5. /\ DOMAIN guardedSince' = DOMAIN guardedSince \ {u}
      /\ \A v \in DOMAIN guardedSince' : guardedSince'[v] = guardedSince[v]
    BY <1>2 DEF Restrict
<1>6. \A v : v # u => (v \in leftover' <=> v \in leftover)
    BY <1>2
<1>7. TypeOK'
    <2>1. taskMap_' \in [DOMAIN taskMap_' -> Nat]
        BY <1>2 DEF Restrict, IInv, TypeOK
    <2>2. guardedSince' \in [DOMAIN guardedSince' -> Nat]
        BY <1>2 DEF Restrict, IInv, TypeOK
    <2> QED BY <1>1, <1>2, <1>3, <2>1, <2>2 DEF IInv, TypeOK
<1>8. GuardHasTimer'
    BY <1>1, <1>2, <1>3 DEF IInv, TypeOK, GuardHasTimer, TimersOf
<1>9. NoticesKnown'
    BY <1>1, <1>2, <1>3, <1>5 DEF IInv, NoticesKnown
<1>10. TasksAreOfThisRemoval'
    BY <1>3, <1>4, <1>5, <1>6 DEF IInv, TasksAreOfThisRemoval
<1>11. GuardLasts'
    BY <1>2, <1>5, <1>6 DEF IInv, GuardLasts, isUninstalledApp
<1> QED BY <1>7, <1>8, <1>9, <1>10, <1>11 DEF IInv

\* A task begins when it is due.
LEMMA TimerStartStep ==
    ASSUME IInv, NEW t \in timers, TimerStart(t) PROVE IInv'
<1> DEFINE s == [t EXCEPT !.started = TRUE]
<1>1. /\ timers' = (timers \ {t}) \cup {s} /\ t.due <= now
      /\ UNCHANGED <<queue, bundleUninstalledSet_, taskMap_, nextTimer, removing, guardedSince,
                     leftover, now, installed, activeUsers>>
    BY DEF TimerStart, device, history
<1>2. /\ s \in [id : Nat, uid : Uid, due : Nat, started : BOOLEAN]
      /\ s.uid = t.uid /\ s.due = t.due
    BY DEF IInv, TypeOK
<1> HIDE DEF s
<1>3. TypeOK'
    BY <1>1, <1>2 DEF IInv, TypeOK
<1>4. GuardHasTimer'
    <2> SUFFICES ASSUME NEW u \in bundleUninstalledSet_ PROVE TimersOf(u)' # {} \/ removing = u
        BY <1>1 DEF GuardHasTimer
    <2>1. CASE t.uid = u
        BY <2>1, <1>1, <1>2 DEF TimersOf
    <2>2. CASE t.uid # u
        BY <2>2, <1>1 DEF TimersOf, IInv, GuardHasTimer
    <2> QED BY <2>1, <2>2
<1>5. NoticesKnown'
    BY <1>1, <1>2 DEF IInv, NoticesKnown
<1>6. TasksAreOfThisRemoval'
    BY <1>1, <1>2 DEF IInv, TasksAreOfThisRemoval
<1>7. GuardLasts'
    BY <1>1 DEF IInv, GuardLasts, isUninstalledApp
<1> QED BY <1>3, <1>4, <1>5, <1>6, <1>7 DEF IInv

\* A task that ends the guard of a uid belongs to its present removal, unless it was left
\* over, and so Delay has passed.
LEMMA TimerRunStep ==
    ASSUME IInv, NEW t \in timers, TimerRun(t) PROVE IInv'
<1>1. /\ t.started /\ timers' = timers \ {t}
      /\ bundleUninstalledSet_' = bundleUninstalledSet_ \ {t.uid}
      /\ taskMap_' = Restrict(taskMap_, DOMAIN taskMap_ \ {t.uid})
      /\ UNCHANGED <<queue, nextTimer, removing, guardedSince, leftover, now, installed, activeUsers>>
    BY DEF TimerRun, device, history
<1>2. TypeOK'
    <2>1. taskMap_' \in [DOMAIN taskMap_' -> Nat]
        BY <1>1 DEF Restrict, IInv, TypeOK
    <2> QED BY <1>1, <2>1 DEF IInv, TypeOK
<1>3. GuardHasTimer'
    BY <1>1 DEF IInv, GuardHasTimer, TimersOf
<1>4. NoticesKnown' /\ TasksAreOfThisRemoval'
    BY <1>1 DEF IInv, NoticesKnown, TasksAreOfThisRemoval
<1>5. GuardLasts'
    <2> SUFFICES ASSUME NEW u \in DOMAIN guardedSince, u \notin leftover,
                        now < guardedSince[u] + Delay
                 PROVE  u \in bundleUninstalledSet_'
        BY <1>1 DEF GuardLasts, isUninstalledApp
    <2>1. u \in bundleUninstalledSet_
        BY DEF IInv, GuardLasts, isUninstalledApp
    <2>2. ASSUME t.uid = u PROVE FALSE
        <3>1. t.due >= guardedSince[u] + Delay /\ t.due <= now
            BY <1>1, <2>2 DEF IInv, TasksAreOfThisRemoval, NoticesKnown
        <3> QED BY <3>1, QueueAssumption DEF IInv, TypeOK
    <2> QED BY <1>1, <2>1, <2>2
<1> QED BY <1>2, <1>3, <1>4, <1>5 DEF IInv

\* Time only weakens what the guard promises.
LEMMA TickStep ==
    ASSUME IInv, Tick PROVE IInv'
<1>1. /\ now' = now + 1 /\ now \in Nat
      /\ UNCHANGED <<queue, bundleUninstalledSet_, taskMap_, timers, nextTimer, removing,
                     guardedSince, leftover, installed, activeUsers>>
    BY DEF Tick, guard, device, history, IInv, TypeOK
<1>2. TypeOK' /\ GuardHasTimer' /\ TasksAreOfThisRemoval'
    BY <1>1 DEF IInv, TypeOK, GuardHasTimer, TasksAreOfThisRemoval, TimersOf
<1>3. NoticesKnown'
    BY <1>1 DEF IInv, TypeOK, NoticesKnown
<1>4. GuardLasts'
    BY <1>1, QueueAssumption DEF IInv, TypeOK, GuardLasts, isUninstalledApp
<1> QED BY <1>2, <1>3, <1>4 DEF IInv

LEMMA NextIInv == IInv /\ [Next]_vars => IInv'
<1> SUFFICES ASSUME IInv, [Next]_vars PROVE IInv'
    OBVIOUS
<1>1. CASE DeviceNext \/ UNCHANGED vars
    BY <1>1, DeviceStep, DeviceKeeps DEF IInv
<1>2. CASE CoreNext
    BY <1>2, OtherMessages, UninstalledStep, DelayStep, InstalledStep, TimerStartStep,
        TimerRunStep, TickStep DEF CoreNext
<1> QED BY <1>1, <1>2 DEF Next, DeviceNext

\* Every message, task and notice has its type.
THEOREM TypeCorrect == Spec => []TypeOK
<1>1. IInv => TypeOK
    BY DEF IInv
<1> QED BY InitIInv, NextIInv, <1>1, PTL DEF Spec

\* No bundle is ignored for ever: while its uid is in bundleUninstalledSet_ a task that
\* takes it out is on its way, whatever was installed, removed and skipped before.
THEOREM GuardEnds == Spec => []GuardHasTimer
<1>1. IInv => GuardHasTimer
    BY DEF IInv
<1> QED BY InitIInv, NextIInv, <1>1, PTL DEF Spec

\* The guard of a removal lasts for the whole delay unless a task of an earlier removal
\* was out of reach when the bundle was installed in between.
THEOREM GuardLastsForDelay == Spec => []GuardLasts
<1>1. IInv => GuardLasts
    BY DEF IInv
<1> QED BY InitIInv, NextIInv, <1>1, PTL DEF Spec

\* An ability event of an installed bundle is counted, whatever tasks are left over.
THEOREM InstalledAreCounted == Spec => InstalledIsCounted
<1>1. ASSUME IInv, [Next]_vars, NEW u \in Uid, Len(queue') < Len(queue),
             Head(queue) = Message("appState", UserOf[u], u),
             u \notin DOMAIN guardedSince, u \notin Launcher
      PROVE  u \in counted'
    <2>1. CASE DeviceNext
        BY <2>1, <1>1, DeviceStep DEF IInv, TypeOK, DeviceOnly
    <2>2. CASE UNCHANGED vars
        BY <2>2, <1>1 DEF vars, IInv, TypeOK
    <2>3. Head(queue).kind = "appState" /\ Head(queue).uid = u /\ Head(queue).userId = UserOf[u]
        BY <1>1 DEF Message
    <2>4. CASE ProcessReportEvent
        <3>1. ~isUninstalledApp(u)
            BY <1>1 DEF IInv, NoticesKnown, isUninstalledApp
        <3>2. UserOf[u] # NoUser /\ u # NoUid
            BY QueueAssumption DEF User
        <3>3. \A answers \in BOOLEAN : ~IsLauncherApp(u, answers)
            BY <1>1 DEF IsLauncherApp
        <3> QED BY <2>3, <2>4, <3>1, <3>2, <3>3 DEF ProcessReportEvent
    <2>5. CASE OnBundleUninstalled \/ OnBundleInstalled \/ OnUserRemoved
        BY <2>3, <2>5 DEF OnBundleUninstalled, OnBundleInstalled, OnUserRemoved, Next1
    <2>6. ASSUME queue' = queue PROVE FALSE
        BY <2>6, <1>1 DEF IInv, TypeOK
    <2>7. CASE DelayRemoveBundleUninstalledUid \/ Tick
        BY <2>6, <2>7 DEF DelayRemoveBundleUninstalledUid, Tick
    <2>8. CASE \E t \in timers : TimerStart(t) \/ TimerRun(t)
        BY <2>6, <2>8 DEF TimerStart, TimerRun
    <2> QED BY <1>1, <2>1, <2>2, <2>4, <2>5, <2>7, <2>8 DEF Next, DeviceNext, CoreNext
<1>2. IInv /\ [Next]_vars =>
        [ \A u \in Uid :
            /\ Len(queue') < Len(queue) /\ Head(queue) = Message("appState", UserOf[u], u)
            /\ u \notin DOMAIN guardedSince /\ u \notin Launcher
            => u \in counted' ]_vars
    BY <1>1
<1> QED BY InitIInv, NextIInv, <1>2, PTL DEF Spec, InstalledIsCounted
=============================================================================
