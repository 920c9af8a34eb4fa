--------------------------- MODULE AppGroupProofs ---------------------------
(***************************************************************************)
(* Proofs about AppGroup, for any bundles, time limits and bounds: the up  *)
(* time that all group decisions rest on is exact, what is not saved is    *)
(* marked, a group set by a client stays, and no save brings back the row  *)
(* of a bundle that is gone.                                               *)
(***************************************************************************)
EXTENDS AppGroup, SequenceTheorems, TLAPS

\* What the exact up time rests on.
ClockInv == ClockType /\ BaseAndSum

\* Adding up, with whatever time stamp, keeps the difference of sum and base.
LEMMA AddUpKeepsDifference ==
    ASSUME ClockInv, NEW on \in BOOLEAN, NEW t \in Int, NEW s \in BOOLEAN,
           UpdateBootBasedAndScreenTime(on, t, s)
    PROVE  /\ bootBasedTimeStamp_' \in Int /\ bootBasedDuration_' \in Int
           /\ bootBasedDuration_' - bootBasedTimeStamp_' = bootBasedDuration_ - bootBasedTimeStamp_
<1>1. \/ UNCHANGED <<bootBasedDuration_, bootBasedTimeStamp_>>
      \/ /\ bootBasedDuration_' = bootBasedDuration_ + (t - bootBasedTimeStamp_)
         /\ bootBasedTimeStamp_' = t
    BY DEF UpdateBootBasedAndScreenTime, AddUpDurations, clock
<1> QED BY <1>1 DEF ClockInv, ClockType

\* Events, sets, checks, saves, switches and removals leave the clocks alone.
LEMMA ClocksLeftAlone ==
    ASSUME \/ \E u \in Uid, msg \in Message, stamp \in Stamp : ReportEvent(u, msg, stamp)
           \/ \E b \in Bundle, group \in SetGroups, isFlush \in BOOLEAN : SetAppGroup(b, group, isFlush)
           \/ OnStatsReload
           \/ \E c \in checkTasks : CheckBegin(c)
           \/ OneTimeCheckBegin \/ PeriodCheck \/ CheckSave \/ OnUserSwitched
           \/ \E u \in Uid : CheckAndUpdateGroup(u) \/ BundleRemoved(u) \/ OnBundleUninstalled(u)
    PROVE  UNCHANGED <<bootBasedTimeStamp_, bootBasedDuration_, screenTasks, now, past, exact>>
<1> USE DEF clock, device, tasks
<1>1. ASSUME NEW u \in Uid, NEW msg \in Message, NEW stamp \in Stamp, ReportEvent(u, msg, stamp)
      PROVE  UNCHANGED <<bootBasedTimeStamp_, bootBasedDuration_, screenTasks, now, past, exact>>
    BY <1>1 DEF ReportEvent
<1>2. ASSUME NEW b \in Bundle, NEW group \in SetGroups, NEW f \in BOOLEAN, SetAppGroup(b, group, f)
      PROVE  UNCHANGED <<bootBasedTimeStamp_, bootBasedDuration_, screenTasks, now, past, exact>>
    BY <1>2 DEF SetAppGroup
<1>3. ASSUME NEW c \in checkTasks, CheckBegin(c)
      PROVE  UNCHANGED <<bootBasedTimeStamp_, bootBasedDuration_, screenTasks, now, past, exact>>
    BY <1>3 DEF CheckBegin
<1>4. ASSUME OnStatsReload \/ OneTimeCheckBegin \/ PeriodCheck \/ CheckSave \/ OnUserSwitched
      PROVE  UNCHANGED <<bootBasedTimeStamp_, bootBasedDuration_, screenTasks, now, past, exact>>
    BY <1>4 DEF OnStatsReload, OneTimeCheckBegin, PeriodCheck, CheckSave, OnUserSwitched
<1>5. ASSUME NEW u \in Uid, CheckAndUpdateGroup(u) \/ BundleRemoved(u) \/ OnBundleUninstalled(u)
      PROVE  UNCHANGED <<bootBasedTimeStamp_, bootBasedDuration_, screenTasks, now, past, exact>>
    BY <1>5 DEF CheckAndUpdateGroup, BundleRemoved, OnBundleUninstalled
<1> QED BY <1>1, <1>2, <1>3, <1>4, <1>5

\* Every step keeps the base and the sum of the up time together.
LEMMA ClockStep == ClockInv /\ [Next]_vars => ClockInv'
<1> SUFFICES ASSUME ClockInv, [Next]_vars PROVE ClockInv'
    OBVIOUS
<1> USE DEF ClockInv, ClockType, BaseAndSum
<1>1. CASE Tick
    BY <1>1 DEF Tick, clock, tasks
<1>2. ASSUME NEW on \in BOOLEAN, OnScreenChanged(on) PROVE ClockInv'
    <2>1. PICK task \in [on : BOOLEAN, at : Int] : screenTasks' = Append(screenTasks, task)
        BY <1>2 DEF OnScreenChanged
    <2>2. screenTasks' \in Seq([on : BOOLEAN, at : Int])
        BY <2>1, AppendProperties
    <2> QED BY <1>2, <2>2 DEF OnScreenChanged, clock, device
<1>3. CASE ScreenTask
    <2>1. Head(screenTasks) \in [on : BOOLEAN, at : Int] /\ Tail(screenTasks) \in Seq([on : BOOLEAN, at : Int])
        <3>1. screenTasks # << >>
            BY <1>3 DEF ScreenTask
        <3> QED BY <3>1, HeadTailProperties
    <2>2. PICK on \in BOOLEAN, t \in Int : UpdateBootBasedAndScreenTime(on, t, FALSE)
        BY <1>3, <2>1 DEF ScreenTask
    <2>3. /\ bootBasedTimeStamp_' \in Int /\ bootBasedDuration_' \in Int
          /\ bootBasedDuration_' - bootBasedTimeStamp_' = bootBasedDuration_ - bootBasedTimeStamp_
        BY <2>2, AddUpKeepsDifference
    <2> QED BY <1>3, <2>1, <2>3 DEF ScreenTask, device
<1>4. CASE ShutDown
    <2>1. UpdateBootBasedAndScreenTime(FALSE, now, TRUE)
        BY <1>4 DEF ShutDown
    <2>2. /\ bootBasedTimeStamp_' \in Int /\ bootBasedDuration_' \in Int
          /\ bootBasedDuration_' - bootBasedTimeStamp_' = bootBasedDuration_ - bootBasedTimeStamp_
        BY <2>1, AddUpKeepsDifference
    <2> QED BY <1>4, <2>2 DEF ShutDown, device, tasks
<1>5. ASSUME NEW reboot \in BOOLEAN, NEW on \in BOOLEAN, Restart(reboot, on) PROVE ClockInv'
    <2>1. /\ now' = IF reboot THEN 1 ELSE now
          /\ past' = IF reboot THEN past + now - 1 ELSE past
          /\ exact' = (exact /\ bootBasedTimeStamp_ = now)
          /\ bootBasedTimeStamp_' = now' /\ bootBasedDuration_' = bootBasedDuration_
          /\ screenTasks' = <<[on |-> on, at |-> now']>>
        BY <1>5 DEF Restart
    <2>2. now' \in Int /\ past' \in Int
        BY <2>1
    <2>3. screenTasks' \in Seq([on : BOOLEAN, at : Int])
        BY <2>1, <2>2
    <2>4. exact' \in BOOLEAN /\ (exact' => exact /\ bootBasedTimeStamp_ = now)
        BY <2>1
    <2>5. exact' => bootBasedDuration_' - bootBasedTimeStamp_' = past' - 1
        BY <2>1, <2>4
    <2> QED BY <2>1, <2>2, <2>3, <2>4, <2>5
<1>6. CASE UNCHANGED <<bootBasedTimeStamp_, bootBasedDuration_, screenTasks, now, past, exact>>
    BY <1>6
<1>7. CASE UNCHANGED vars
    BY <1>7 DEF vars, clock, tasks, device
<1> QED BY <1>1, <1>2, <1>3, <1>4, <1>5, <1>6, <1>7, ClocksLeftAlone DEF Next

\* Screen changes that are applied late, shutdowns, reboots and restarts of the process,
\* in any number and order: unless a process died with up time it had not added up,
\* GetBootBasedTimeStamp is the time the device has been up.
THEOREM UpTimeIsExact == Spec => []UpTimeExact
<1>1. Init => ClockInv
    <2> SUFFICES ASSUME Init PROVE ClockInv
        OBVIOUS
    <2>1. PICK on \in BOOLEAN : screenTasks = <<[on |-> on, at |-> 1]>>
        BY DEF Init
    <2>2. screenTasks \in Seq([on : BOOLEAN, at : Int])
        BY <2>1
    <2> QED BY <2>2 DEF Init, ClockInv, ClockType, BaseAndSum
<1>2. ClockInv => UpTimeExact
    BY DEF ClockInv, ClockType, BaseAndSum, UpTimeExact, GetBootBasedTimeStamp, UpTime
<1> QED BY <1>1, <1>2, ClockStep, PTL DEF Spec

-----------------------------------------------------------------------------
(* Helpers: what they return and what they leave alone                     *)

LEMMA OverrideIsTable ==
    ASSUME NEW f, NEW g, IsTable(f), IsTable(g)
    PROVE  IsTable(Override(f, g))
BY DEF IsTable, Override

LEMMA RestrictIsTable ==
    ASSUME NEW f, NEW S, IsTable(f), S \subseteq DOMAIN f
    PROVE  IsTable(Restrict(f, S)) /\ DOMAIN Restrict(f, S) = S
           /\ \A u \in S : Restrict(f, S)[u] = f[u]
BY DEF IsTable, Restrict

SameGroup(d, e) == d.reasonInGroup_ = e.reasonInGroup_ /\ d.currentGroup_ = e.currentGroup_

\* An entry without its mark.
LEMMA EntryUnmarked ==
    ASSUME NEW e \in Entry
    PROVE  LET r == [e EXCEPT !.isChanged_ = FALSE]
           IN  /\ r \in Entry /\ ~r.isChanged_
               /\ ~e.isChanged_ => r = e
               /\ r.reasonInGroup_ = e.reasonInGroup_ /\ r.currentGroup_ = e.currentGroup_
BY DEF Entry

LEMMA SavedIsTable ==
    ASSUME NEW h, IsTable(h)
    PROVE  /\ IsTable(Saved(h)) /\ DOMAIN Saved(h) = DOMAIN h
           /\ \A u \in DOMAIN h : /\ Saved(h)[u] = [h[u] EXCEPT !.isChanged_ = FALSE]
                                  /\ h[u] \in Entry
<1>1. \A u \in DOMAIN h : h[u] \in Entry
    BY DEF IsTable
<1>2. \A u \in DOMAIN h : [h[u] EXCEPT !.isChanged_ = FALSE] \in Entry
    BY <1>1, EntryUnmarked
<1> QED BY <1>1, <1>2 DEF Saved, IsTable

LEMMA AdjustedTimesAreInts ==
    ASSUME ClockType, TimesType, NEW t \in Int
    PROVE  GetBootBasedTimeStamp(t) \in Int /\ GetScreenOnTimeStamp(t) \in Int
BY DEF ClockType, TimesType, GetBootBasedTimeStamp, GetScreenOnTimeStamp

LEMMA NewEntryIsUntouched ==
    ASSUME ClockType, TimesType, NEW t \in Int
    PROVE  NewEntry(t) \in Entry /\ Untouched(NewEntry(t))
<1>1. NEVER \in Group /\ "default" \in Reason
    BY DEF Group, Reason
<1>2. MAX_END_TIME \in Int
    BY TimeAssumption
<1> QED BY <1>1, <1>2, AdjustedTimesAreInts DEF NewEntry, Entry, Untouched

LEMMA SetGroupMarks ==
    ASSUME NEW e \in Entry, NEW group \in Group, NEW reason \in Reason
    PROVE  LET r == SetGroup(e, group, reason)
           IN  /\ r \in Entry /\ (r = e \/ r.isChanged_)
               /\ r.currentGroup_ = group /\ r.reasonInGroup_ = reason
BY DEF SetGroup, Entry

\* GetLevelIndex finds a level if there is one.
LEMMA LastLevelIsLevel ==
    ASSUME NEW e, NEW t, Levels(e, t) # {}
    PROVE  LastLevel(e, t) \in 1 .. 4
<1>1. Levels(e, t) \subseteq 1 .. 4
    BY DEF Levels
<1>2. \E i \in Levels(e, t) : \A j \in Levels(e, t) : j <= i
    <2>1. CASE 4 \in Levels(e, t)
        BY <1>1, <2>1
    <2>2. CASE 4 \notin Levels(e, t) /\ 3 \in Levels(e, t)
        BY <1>1, <2>2
    <2>3. CASE 4 \notin Levels(e, t) /\ 3 \notin Levels(e, t) /\ 2 \in Levels(e, t)
        BY <1>1, <2>3
    <2>4. CASE 4 \notin Levels(e, t) /\ 3 \notin Levels(e, t) /\ 2 \notin Levels(e, t)
        BY <1>1, <2>4
    <2> QED BY <2>1, <2>2, <2>3, <2>4
<1>3. LastLevel(e, t) \in Levels(e, t)
    BY <1>2 DEF LastLevel
<1> QED BY <1>1, <1>3

\* A check leaves an entry as it is or marks it; it never touches a forced group, and
\* cannot demote what is as new.
LEMMA CheckMarks ==
    ASSUME ClockType, TimesType, NEW e \in Entry, NEW t \in Int
    PROVE  LET r == CheckAndUpdate(e, t)
           IN  /\ r \in Entry /\ (r = e \/ r.isChanged_)
               /\ e.reasonInGroup_ = "forced" => r = e
               /\ Untouched(e) /\ GetBootBasedTimeStamp(t) >= 0 => r = e
<1>1. CASE e.reasonInGroup_ = "forced" \/ Levels(e, t) = {}
    BY <1>1 DEF CheckAndUpdate
<1>2. ASSUME e.reasonInGroup_ # "forced", Levels(e, t) # {}
      PROVE  LET r == Checked(e, t)
             IN  /\ r \in Entry /\ (r = e \/ r.isChanged_)
                 /\ Untouched(e) /\ GetBootBasedTimeStamp(t) >= 0 => r = e
    <2> DEFINE g == GetNewGroup(e, t)
    <2>1. g \in {ALIVE, DAILY, FIXED, RARE} /\ g \in Int /\ g <= NEVER
        BY <1>2, LastLevelIsLevel DEF GetNewGroup, LEVEL_GROUP, ALIVE, DAILY, FIXED, RARE, NEVER
    <2>2. g \in Group /\ ALIVE \in Group /\ DAILY \in Group
        BY <2>1 DEF Group
    <2>3. {"notTimeout", "aliveTimeout", "timeout"} \subseteq Reason
        BY DEF Reason
    <2> HIDE DEF g
    <2>4. Demote(e, g) \in Entry /\ (Demote(e, g) = e \/ Demote(e, g).isChanged_)
        BY <2>2, <2>3, SetGroupMarks DEF Demote
    <2>5. Untouched(e) => Demote(e, g) = e
        BY <2>1 DEF Demote, Untouched, NEVER
    <2>6. /\ SetGroup(e, ALIVE, "notTimeout") \in Entry
          /\ SetGroup(e, ALIVE, "notTimeout") = e \/ SetGroup(e, ALIVE, "notTimeout").isChanged_
          /\ SetGroup(e, DAILY, "aliveTimeout") \in Entry
          /\ SetGroup(e, DAILY, "aliveTimeout") = e \/ SetGroup(e, DAILY, "aliveTimeout").isChanged_
        BY <2>2, <2>3, SetGroupMarks
    <2>7. GetBootBasedTimeStamp(t) \in Int
        BY AdjustedTimesAreInts
    <2>8. Checked(e, t) =
            IF e.aliveTimeout > GetBootBasedTimeStamp(t) THEN SetGroup(e, ALIVE, "notTimeout")
            ELSE IF g >= DAILY /\ e.dailyTimeout > GetBootBasedTimeStamp(t)
                 THEN SetGroup(e, DAILY, "aliveTimeout") ELSE Demote(e, g)
        BY DEF Checked, g
    <2>9. Untouched(e) /\ GetBootBasedTimeStamp(t) >= 0 =>
            ~(e.aliveTimeout > GetBootBasedTimeStamp(t)) /\ ~(e.dailyTimeout > GetBootBasedTimeStamp(t))
        BY <2>7 DEF Untouched
    <2> QED BY <2>4, <2>5, <2>6, <2>8, <2>9
<1> QED BY <1>1, <1>2 DEF CheckAndUpdate

\* The first use moves and nothing else does: no mark, no group, no timeout.
LEMMA FirstUseMoves ==
    ASSUME NEW e \in Entry, NEW stamp \in Stamp
    PROVE  LET r == FirstUse(e, stamp)
           IN  /\ r \in Entry /\ r = [e EXCEPT !.firstUse = r.firstUse]
               /\ SameGroup(r, e) /\ r.isChanged_ = e.isChanged_
               /\ r.aliveTimeout = e.aliveTimeout /\ r.dailyTimeout = e.dailyTimeout
<1>1. e.firstUse \in Int /\ stamp \in Int
    BY TimeAssumption DEF Entry
<1> QED BY <1>1 DEF FirstUse, Entry, SameGroup

\* The row of an entry with a group a client has set still agrees with it when the first
\* use moves.
LEMMA RowStillAgrees ==
    ASSUME NEW e \in Entry, NEW r \in Entry, NEW row, e.reasonInGroup_ = "forced",
           r = [e EXCEPT !.firstUse = r.firstUse], RowAgrees(row, e)
    PROVE  RowAgrees(row, r)
<1>1. r.reasonInGroup_ = "forced"
    BY DEF Entry
<1>2. row \in [DOMAIN e -> {row[x] : x \in DOMAIN row}] /\ row = [e EXCEPT !.firstUse = row.firstUse]
    BY DEF RowAgrees, Entry
<1>3. row = [r EXCEPT !.firstUse = row.firstUse]
    BY <1>2 DEF Entry
<1> QED BY <1>1, <1>3 DEF RowAgrees

\* A report marks its entry and gives it a reason.
LEMMA ReportMarks ==
    ASSUME ClockType, TimesType, NEW e \in Entry, NEW msg \in Message
    PROVE  ReportUsage(e, msg) \in Entry /\ ReportUsage(e, msg).isChanged_
<1>1. EventTimeout(msg) \in Int
    <2>1. DirectTimeout \in Int /\ SystemTimeout \in Int /\ NotifyTimeout \in Int
        BY TimeAssumption
    <2>2. CASE msg = "default"
        BY <2>1, <2>2 DEF EventTimeout
    <2>3. CASE msg = "notification"
        BY <2>1, <2>3 DEF EventTimeout
    <2>4. CASE msg = "system"
        BY <2>1, <2>4 DEF EventTimeout
    <2> QED BY <2>2, <2>3, <2>4 DEF Message
<1>2. Until(msg) \in Int /\ GetBootBasedTimeStamp(now) \in Int /\ GetScreenOnTimeStamp(now) \in Int
    <2>1. now \in Int
        BY DEF ClockType
    <2>2. GetBootBasedTimeStamp(now) \in Int /\ GetScreenOnTimeStamp(now) \in Int
        BY <2>1, AdjustedTimesAreInts
    <2> QED BY <1>1, <2>2 DEF Until
<1>3. ALIVE \in Group /\ DAILY \in Group /\ EventGroup(msg) \in {ALIVE, DAILY} /\ "usage" \in Reason
    <2>1. EventGroup(msg) \in {ALIVE, DAILY}
        BY DEF EventGroup
    <2> QED BY <2>1 DEF Group, Reason
<1>4. \A old \in Int, group \in Group : Extended(old, group, msg) \in Int
    BY <1>2 DEF Extended, Larger
<1> QED BY <1>2, <1>3, <1>4 DEF ReportUsage, Entry

-----------------------------------------------------------------------------
(* No time stamp on its way is from before the process started             *)

TimesInv == TimesType /\ TimesNotNegative

LEMMA TaskIsTyped ==
    ASSUME ClockType, NEW i \in DOMAIN screenTasks
    PROVE  screenTasks[i] \in [on : BOOLEAN, at : Int] /\ screenTasks[i].at \in Int
<1>1. screenTasks[i] \in [on : BOOLEAN, at : Int]
    BY ElementOfSeq, LenProperties DEF ClockType
<1> QED BY <1>1

\* Adding up at a time stamp that is not negative on the adjusted clock.
LEMMA AddUpStaysPositive ==
    ASSUME ClockType, TimesInv, NEW on \in BOOLEAN, NEW t \in Int, NEW s \in BOOLEAN,
           GetBootBasedTimeStamp(t) >= 0, UpdateBootBasedAndScreenTime(on, t, s)
    PROVE  /\ screenOnTimeStamp_' \in Int /\ ScreenOnDuration_' \in Int /\ isScreenOn_' \in BOOLEAN
           /\ bootBasedDuration_' >= 0
           /\ \A x \in Int : GetBootBasedTimeStamp(x)' = GetBootBasedTimeStamp(x)
<1> USE DEF ClockType, TimesInv, TimesType, TimesNotNegative, GetBootBasedTimeStamp
<1>1. CASE isScreenOn_ = on /\ ~s
    BY <1>1 DEF UpdateBootBasedAndScreenTime, clock
<1>2. CASE ~(isScreenOn_ = on /\ ~s) /\ on
    BY <1>2 DEF UpdateBootBasedAndScreenTime
<1>3. CASE ~(isScreenOn_ = on /\ ~s) /\ ~on
    <2>1. /\ isScreenOn_' = on /\ screenOnTimeStamp_' = screenOnTimeStamp_
          /\ ScreenOnDuration_' = ScreenOnDuration_ + (t - screenOnTimeStamp_)
          /\ bootBasedDuration_' = bootBasedDuration_ + (t - bootBasedTimeStamp_)
          /\ bootBasedTimeStamp_' = t
        BY <1>3 DEF UpdateBootBasedAndScreenTime, AddUpDurations
    <2> QED BY <2>1
<1> QED BY <1>1, <1>2, <1>3

LEMMA TimesStep == ClockType /\ TimesInv /\ [Next]_vars => TimesInv'
<1> SUFFICES ASSUME ClockType, TimesInv, [Next]_vars PROVE TimesInv'
    OBVIOUS
<1>n. now \in Int /\ GetBootBasedTimeStamp(now) >= 0
    BY DEF ClockType, TimesInv, TimesNotNegative
<1>0. ASSUME UNCHANGED <<clock, now, screenTasks>>,
             \/ UNCHANGED worker
             \/ worker' = IdleWorker
             \/ \E todo, key : worker' = [pc |-> "check", todo |-> todo, at |-> now, key |-> key]
             \/ \E todo : worker' = [worker EXCEPT !.todo = todo]
      PROVE  TimesInv'
    <2>1. /\ worker' = [pc |-> worker'.pc, todo |-> worker'.todo, at |-> worker'.at, key |-> worker'.key]
          /\ worker'.at \in Int
          /\ worker'.pc = "check" => worker'.at = now \/ (worker.pc = "check" /\ worker'.at = worker.at)
        <3>1. CASE UNCHANGED worker
            BY <3>1 DEF TimesInv, TimesType
        <3>2. CASE worker' = IdleWorker
            BY <3>2 DEF IdleWorker
        <3>3. CASE \E todo, key : worker' = [pc |-> "check", todo |-> todo, at |-> now, key |-> key]
            BY <3>3, <1>n
        <3>4. CASE \E todo : worker' = [worker EXCEPT !.todo = todo]
            BY <3>4 DEF TimesInv, TimesType
        <3> QED BY <1>0, <3>1, <3>2, <3>3, <3>4
    <2>2. TimesType'
        BY <1>0, <2>1 DEF TimesInv, TimesType, clock
    <2>3. TimesNotNegative'
        BY <1>0, <2>1 DEF TimesInv, TimesNotNegative, GetBootBasedTimeStamp, clock
    <2> QED BY <2>2, <2>3 DEF TimesInv
<1> USE DEF device, tasks
<1>1. CASE Tick
    <2>1. now' = now + 1 /\ UNCHANGED <<clock, tasks>>
        BY <1>1 DEF Tick
    <2> QED BY <2>1, <1>n DEF TimesInv, TimesType, TimesNotNegative, GetBootBasedTimeStamp, clock, ClockType
<1>2. ASSUME NEW u \in Uid, NEW msg \in Message, NEW stamp \in Stamp, ReportEvent(u, msg, stamp)
      PROVE  TimesInv'
    BY <1>0, <1>2 DEF ReportEvent
<1>3. ASSUME NEW b \in Bundle, NEW group \in SetGroups, NEW f \in BOOLEAN, SetAppGroup(b, group, f)
      PROVE  TimesInv'
    BY <1>0, <1>3 DEF SetAppGroup
<1>4. ASSUME NEW on \in BOOLEAN, OnScreenChanged(on) PROVE TimesInv'
    <2> DEFINE task == [on |-> on, at |-> now]
    <2>1. screenTasks' = Append(screenTasks, task) /\ UNCHANGED <<clock, worker, now>>
        BY <1>4 DEF OnScreenChanged
    <2>2. task \in [on : BOOLEAN, at : Int] /\ task.at = now
        BY <1>n
    <2> HIDE DEF task
    <2>3. \A i \in DOMAIN screenTasks' :
            \/ i \in DOMAIN screenTasks /\ screenTasks'[i] = screenTasks[i]
            \/ screenTasks'[i] = task
        BY <2>1, <2>2, AppendProperties DEF ClockType
    <2>4. ASSUME NEW i \in DOMAIN screenTasks'
          PROVE  screenTasks'[i].at - bootBasedTimeStamp_ + bootBasedDuration_ >= 0
        BY <2>2, <2>3, <1>n DEF TimesInv, TimesNotNegative, GetBootBasedTimeStamp
    <2>5. \A i \in DOMAIN screenTasks' : GetBootBasedTimeStamp(screenTasks[i].at)' >= 0
        BY <2>1, <2>4 DEF GetBootBasedTimeStamp, clock
    <2> QED BY <2>1, <2>5 DEF TimesInv, TimesType, TimesNotNegative, GetBootBasedTimeStamp, clock
<1>5. CASE ScreenTask
    <2>1. /\ screenTasks # <<>> /\ screenTasks' = Tail(screenTasks) /\ worker.pc = "idle"
          /\ UNCHANGED <<worker, now>>
          /\ UpdateBootBasedAndScreenTime(Head(screenTasks).on, Head(screenTasks).at, FALSE)
        BY <1>5 DEF ScreenTask
    <2>2. /\ Head(screenTasks) \in [on : BOOLEAN, at : Int] /\ Head(screenTasks) = screenTasks[1]
          /\ 1 \in DOMAIN screenTasks
          /\ \A i \in DOMAIN screenTasks' : i + 1 \in DOMAIN screenTasks /\ screenTasks'[i] = screenTasks[i + 1]
        <3> DEFINE T == [on : BOOLEAN, at : Int]
        <3>1. screenTasks \in Seq(T)
            BY DEF ClockType
        <3> HIDE DEF T
        <3>2. Len(screenTasks) \in Nat /\ Len(screenTasks) # 0 /\ DOMAIN screenTasks = 1 .. Len(screenTasks)
            BY <2>1, <3>1
        <3>3. /\ Tail(screenTasks) \in Seq(T) /\ Len(Tail(screenTasks)) = Len(screenTasks) - 1
              /\ \A i \in 1 .. Len(Tail(screenTasks)) : Tail(screenTasks)[i] = screenTasks[i + 1]
              /\ Head(screenTasks) \in T
            BY <2>1, <3>1, HeadTailProperties
        <3>4. DOMAIN screenTasks' = 1 .. Len(screenTasks) - 1
            BY <2>1, <3>3, LenProperties
        <3>5. Head(screenTasks) = screenTasks[1]
            BY <2>1, <3>1
        <3> QED BY <2>1, <3>2, <3>3, <3>4, <3>5 DEF T
    <2>3. Head(screenTasks).on \in BOOLEAN /\ Head(screenTasks).at \in Int
          /\ GetBootBasedTimeStamp(Head(screenTasks).at) >= 0
        BY <2>2 DEF TimesInv, TimesNotNegative
    <2>4. /\ screenOnTimeStamp_' \in Int /\ ScreenOnDuration_' \in Int /\ isScreenOn_' \in BOOLEAN
          /\ bootBasedDuration_' >= 0
          /\ \A x \in Int : GetBootBasedTimeStamp(x)' = GetBootBasedTimeStamp(x)
        BY <2>1, <2>3, AddUpStaysPositive
    <2>5. GetBootBasedTimeStamp(now)' >= 0
        BY <2>1, <2>4, <1>n DEF GetBootBasedTimeStamp
    <2>6. \A i \in DOMAIN screenTasks' : GetBootBasedTimeStamp(screenTasks[i].at)' >= 0
        <3> SUFFICES ASSUME NEW i \in DOMAIN screenTasks'
                     PROVE  GetBootBasedTimeStamp(screenTasks[i].at)' >= 0
            OBVIOUS
        <3>1. i + 1 \in DOMAIN screenTasks /\ screenTasks'[i] = screenTasks[i + 1]
            BY <2>2
        <3>2. screenTasks[i + 1].at \in Int /\ GetBootBasedTimeStamp(screenTasks[i + 1].at) >= 0
            BY <3>1, TaskIsTyped DEF TimesInv, TimesNotNegative
        <3> QED BY <3>1, <3>2, <2>4 DEF GetBootBasedTimeStamp
    <2>7. TimesType'
        BY <2>1, <2>4 DEF TimesInv, TimesType
    <2>8. TimesNotNegative'
        BY <2>1, <2>4, <2>5, <2>6 DEF TimesNotNegative
    <2> QED BY <2>7, <2>8 DEF TimesInv
<1>6. CASE OnStatsReload \/ OneTimeCheckBegin \/ PeriodCheck \/ CheckSave \/ OnUserSwitched
    <2>1. CASE OnStatsReload
        BY <1>0, <2>1 DEF OnStatsReload
    <2>2. CASE OneTimeCheckBegin
        BY <1>0, <2>2 DEF OneTimeCheckBegin
    <2>3. CASE PeriodCheck
        BY <1>0, <2>3 DEF PeriodCheck
    <2>4. CASE CheckSave
        BY <1>0, <2>4 DEF CheckSave
    <2>5. CASE OnUserSwitched
        BY <1>0, <2>5 DEF OnUserSwitched
    <2> QED BY <1>6, <2>1, <2>2, <2>3, <2>4, <2>5
<1>7. ASSUME NEW c \in checkTasks, CheckBegin(c) PROVE TimesInv'
    BY <1>0, <1>7 DEF CheckBegin
<1>8. ASSUME NEW u \in Uid, CheckAndUpdateGroup(u) PROVE TimesInv'
    BY <1>0, <1>8 DEF CheckAndUpdateGroup
<1>9. ASSUME NEW u \in Uid, BundleRemoved(u) \/ OnBundleUninstalled(u) PROVE TimesInv'
    BY <1>0, <1>9 DEF BundleRemoved, OnBundleUninstalled
<1>10. CASE ShutDown
    <2>1. UpdateBootBasedAndScreenTime(FALSE, now, TRUE) /\ UNCHANGED <<tasks, now>>
        BY <1>10 DEF ShutDown
    <2>2. /\ screenOnTimeStamp_' \in Int /\ ScreenOnDuration_' \in Int /\ isScreenOn_' \in BOOLEAN
          /\ bootBasedDuration_' >= 0
          /\ \A x \in Int : GetBootBasedTimeStamp(x)' = GetBootBasedTimeStamp(x)
        BY <2>1, <1>n, AddUpStaysPositive
    <2>3. TimesType'
        BY <2>1, <2>2 DEF TimesInv, TimesType
    <2>4. \A i \in DOMAIN screenTasks : screenTasks[i].at \in Int
        BY TaskIsTyped
    <2>5. TimesNotNegative'
        BY <2>1, <2>2, <2>4, <1>n DEF TimesInv, TimesType, TimesNotNegative, GetBootBasedTimeStamp
    <2> QED BY <2>3, <2>5 DEF TimesInv
<1>11. ASSUME NEW reboot \in BOOLEAN, NEW on \in BOOLEAN, Restart(reboot, on) PROVE TimesInv'
    <2>1. /\ now' = IF reboot THEN 1 ELSE now
          /\ bootBasedTimeStamp_' = now' /\ screenOnTimeStamp_' = now' /\ isScreenOn_' = FALSE
          /\ UNCHANGED <<bootBasedDuration_, ScreenOnDuration_>>
          /\ screenTasks' = <<[on |-> on, at |-> now']>> /\ worker' = IdleWorker
        BY <1>11 DEF Restart
    <2>2. now' \in Int
        BY <2>1, <1>n
    <2>3. \A i \in DOMAIN screenTasks' : screenTasks'[i].at = now'
        <3> DEFINE task == [on |-> on, at |-> now']
        <3>1. screenTasks' = <<task>> /\ task.at = now'
            BY <2>1
        <3> HIDE DEF task
        <3>2. \A i \in DOMAIN screenTasks' : screenTasks'[i] = task
            BY <3>1
        <3> QED BY <3>1, <3>2
    <2>4. TimesType'
        <3>1. /\ worker' = [pc |-> worker'.pc, todo |-> worker'.todo, at |-> worker'.at, key |-> worker'.key]
              /\ worker'.at \in Int
            BY <2>1 DEF IdleWorker
        <3>2. screenOnTimeStamp_' \in Int /\ ScreenOnDuration_' \in Int
            BY <2>1, <2>2 DEF TimesInv, TimesType
        <3>3. isScreenOn_' \in BOOLEAN
            BY <2>1
        <3> QED BY <3>1, <3>2, <3>3 DEF TimesType
    <2>5. bootBasedDuration_ \in Int /\ bootBasedDuration_ >= 0
        BY DEF TimesInv, TimesNotNegative, ClockType
    <2>6. \A i \in DOMAIN screenTasks' : GetBootBasedTimeStamp(screenTasks[i].at)' >= 0
        BY <2>1, <2>2, <2>3, <2>5 DEF GetBootBasedTimeStamp
    <2>7. TimesNotNegative'
        <3>1. worker'.pc # "check"
            BY <2>1 DEF IdleWorker
        <3>2. GetBootBasedTimeStamp(now)' >= 0 /\ bootBasedDuration_' >= 0
            BY <2>1, <2>2, <2>5 DEF GetBootBasedTimeStamp
        <3> QED BY <2>6, <3>1, <3>2 DEF TimesNotNegative
    <2> QED BY <2>4, <2>7 DEF TimesInv
<1>12. CASE UNCHANGED vars
    BY <1>0, <1>12 DEF vars
<1> QED BY <1>1, <1>2, <1>3, <1>4, <1>5, <1>6, <1>7, <1>8, <1>9, <1>10, <1>11, <1>12 DEF Next

-----------------------------------------------------------------------------
(* The entries and their rows                                              *)

HistoryInv == HistoryType /\ EntriesAreLoaded /\ GoneIsUntouched /\ UnsavedEntryIsMarked

\* What entries must be like to replace those in memory.
Good(h) ==
    /\ IsTable(h)
    /\ \A u \in DOMAIN h : \/ h[u].isChanged_
                           \/ u \in DOMAIN historyTable /\ RowAgrees(historyTable[u], h[u])
                           \/ h[u].reasonInGroup_ = "default"
    /\ \A u \in DOMAIN h \ DOMAIN historyTable : Gone(BundleOf[u]) => Untouched(h[u])

Extends(h) == \A u \in DOMAIN userHistory_ : u \in DOMAIN h /\ h[u] = userHistory_[u]

KeepsForced(h) ==
    \A u \in DOMAIN userHistory_ :
        u \in DOMAIN h /\ userHistory_[u].reasonInGroup_ = "forced" => SameGroup(h[u], userHistory_[u])

\* What a step does to rows and to groups that clients have set.
RowsOk == \A u \in DOMAIN historyTable' \ DOMAIN historyTable : ~Gone(BundleOf[u])
ForcedOk ==
    \A u \in DOMAIN userHistory_ :
        (userHistory_[u].reasonInGroup_ = "forced" /\ u \in DOMAIN userHistory_') =>
            /\ userHistory_'[u].reasonInGroup_ = "forced"
            /\ userHistory_'[u].currentGroup_ # userHistory_[u].currentGroup_ =>
                  reply'.bundle = BundleOf[u] /\ reply'.group = userHistory_'[u].currentGroup_
StepOk == HistoryInv' /\ RowsOk /\ ForcedOk

LEMMA EntriesGood == HistoryInv => Good(Entries) /\ Extends(Entries)
<1> SUFFICES ASSUME HistoryInv PROVE Good(Entries) /\ Extends(Entries)
    OBVIOUS
<1> USE DEF HistoryInv, HistoryType
<1>1. CASE loaded
    BY <1>1 DEF Entries, Good, Extends, GoneIsUntouched, UnsavedEntryIsMarked
<1>2. CASE ~loaded
    BY <1>2 DEF Entries, Good, Extends, EntriesAreLoaded, RowAgrees
<1> QED BY <1>1, <1>2

\* A new entry is as new, whether or not its bundle is still there.
LEMMA EntriesWithGood ==
    ASSUME ClockType, TimesType, HistoryInv, NEW uids \in SUBSET Uid, NEW t \in Int
    PROVE  LET h == EntriesWith(uids, t)
           IN  Good(h) /\ Extends(h) /\ uids \subseteq DOMAIN h
<1> DEFINE n == [u \in uids |-> NewEntry(t)]
           h == EntriesWith(uids, t)
<1>1. IsTable(n) /\ DOMAIN n = uids /\ \A u \in uids : Untouched(n[u])
    BY NewEntryIsUntouched DEF IsTable
<1>2. Good(Entries) /\ Extends(Entries)
    BY EntriesGood
<1>3. h = Override(Entries, n)
    BY DEF EntriesWith
<1> HIDE DEF n, h
<1>4. /\ DOMAIN h = DOMAIN Entries \cup uids
      /\ \A u \in DOMAIN Entries : h[u] = Entries[u]
      /\ \A u \in uids \ DOMAIN Entries : h[u] = n[u]
    BY <1>1, <1>3 DEF Override
<1>5. IsTable(h)
    BY <1>1, <1>2, <1>3, OverrideIsTable DEF Good
<1>6. Good(h)
    BY <1>1, <1>2, <1>4, <1>5 DEF Good, Untouched
<1>7. Extends(h)
    BY <1>2, <1>4 DEF Extends
<1> QED BY <1>4, <1>6, <1>7 DEF h

\* Entries that are marked when they change stay good, unless they are of a bundle that
\* is gone and have no row.
LEMMA ChangesGood ==
    ASSUME NEW h, NEW g, Good(h), DOMAIN g = DOMAIN h, g = [u \in DOMAIN h |-> g[u]],
           \A u \in DOMAIN h :
               \/ g[u] = h[u]
               \/ g[u] \in Entry /\ g[u].isChanged_ /\ (u \in DOMAIN historyTable \/ ~Gone(BundleOf[u]))
    PROVE  Good(g)
<1>1. \A u \in DOMAIN h : h[u] \in Entry
    BY DEF Good, IsTable
<1>2. IsTable(g)
    BY <1>1 DEF Good, IsTable
<1> QED BY <1>2 DEF Good

\* A step that changes no row.
LEMMA KeepStep ==
    ASSUME Good(userHistory_)', loaded' \in BOOLEAN, ~loaded' => DOMAIN userHistory_' = {},
           IsTable(historyTable), UNCHANGED historyTable
    PROVE  HistoryInv' /\ RowsOk
BY DEF Good, HistoryInv, HistoryType, EntriesAreLoaded, GoneIsUntouched, UnsavedEntryIsMarked, RowsOk

\* A save: what is written was marked, and so it is of no bundle that is gone.
LEMMA SaveStep ==
    ASSUME NEW h, HistoryInv, Good(h), PutBundleHistoryData(h), loaded' \in BOOLEAN,
           ~loaded' => DOMAIN h = {}, UNCHANGED <<installed, removed>>
    PROVE  /\ HistoryInv' /\ RowsOk
           /\ DOMAIN userHistory_' = DOMAIN h
           /\ \A u \in DOMAIN h : SameGroup(userHistory_'[u], h[u])
<1> DEFINE marked == {u \in DOMAIN h : h[u].isChanged_}
           rows == Restrict(h, marked)
<1>0. IsTable(h) /\ IsTable(historyTable)
    BY DEF Good, HistoryInv, HistoryType
<1>g. /\ \A u \in DOMAIN h : \/ h[u].isChanged_
                             \/ u \in DOMAIN historyTable /\ RowAgrees(historyTable[u], h[u])
                             \/ h[u].reasonInGroup_ = "default"
      /\ \A u \in DOMAIN h \ DOMAIN historyTable : Gone(BundleOf[u]) => Untouched(h[u])
    BY DEF Good
<1>1. IsTable(rows) /\ DOMAIN rows = marked /\ \A u \in marked : rows[u] = h[u]
    BY <1>0, RestrictIsTable
<1>2. userHistory_' = Saved(h) /\ historyTable' = Override(Saved(rows), historyTable)
    BY DEF PutBundleHistoryData
<1>3. /\ IsTable(Saved(h)) /\ DOMAIN Saved(h) = DOMAIN h
      /\ \A u \in DOMAIN h : /\ Saved(h)[u] = [h[u] EXCEPT !.isChanged_ = FALSE]
                             /\ h[u] \in Entry
    BY <1>0, SavedIsTable
<1> HIDE DEF rows
<1>4. /\ IsTable(Saved(rows)) /\ DOMAIN Saved(rows) = marked
      /\ \A u \in marked : Saved(rows)[u] = [rows[u] EXCEPT !.isChanged_ = FALSE]
    BY <1>1, SavedIsTable
<1>5. IsTable(historyTable')
    BY <1>0, <1>2, <1>4, OverrideIsTable
<1>6. /\ DOMAIN historyTable' = marked \cup DOMAIN historyTable
      /\ \A u \in marked : historyTable'[u] = userHistory_'[u]
      /\ \A u \in DOMAIN historyTable \ marked : historyTable'[u] = historyTable[u]
    BY <1>1, <1>2, <1>3, <1>4 DEF Override
<1>7. \A u \in DOMAIN h : /\ SameGroup(userHistory_'[u], h[u])
                          /\ u \notin marked => userHistory_'[u] = h[u]
    BY <1>2, <1>3, EntryUnmarked DEF SameGroup
<1>8. UnsavedEntryIsMarked'
    <2> SUFFICES ASSUME NEW u \in DOMAIN userHistory_'
                 PROVE  \/ u \in DOMAIN historyTable' /\ RowAgrees(historyTable[u], userHistory_[u])' 
                        \/ userHistory_'[u].reasonInGroup_ = "default"
        BY DEF UnsavedEntryIsMarked
    <2>1. u \in DOMAIN h
        BY <1>2, <1>3
    <2>2. CASE u \in marked
        BY <1>6, <2>2 DEF RowAgrees
    <2>3. CASE u \notin marked
        <3>1. ~h[u].isChanged_ /\ userHistory_'[u] = h[u]
            BY <1>7, <2>1, <2>3
        <3>2. \/ u \in DOMAIN historyTable /\ RowAgrees(historyTable[u], h[u])
              \/ h[u].reasonInGroup_ = "default"
            BY <1>g, <2>1, <3>1
        <3> QED BY <1>6, <2>3, <3>1, <3>2 DEF RowAgrees
    <2> QED BY <2>2, <2>3
<1>9. GoneIsUntouched'
    <2> SUFFICES ASSUME NEW u \in DOMAIN userHistory_' \ DOMAIN historyTable', Gone(BundleOf[u])'
                 PROVE  Untouched(userHistory_[u])'
        BY DEF GoneIsUntouched
    <2>1. u \in DOMAIN h /\ u \notin marked /\ u \notin DOMAIN historyTable
        BY <1>2, <1>3, <1>6
    <2>2. Gone(BundleOf[u])
        BY DEF Gone, IsBundleInstalled
    <2>3. Untouched(h[u]) /\ userHistory_'[u] = h[u]
        <3>1. Untouched(h[u])
            BY <1>g, <2>1, <2>2
        <3> QED BY <1>7, <2>1, <3>1
    <2> QED BY <2>3 DEF Untouched
<1>10. RowsOk
    <2> SUFFICES ASSUME NEW u \in DOMAIN historyTable' \ DOMAIN historyTable, Gone(BundleOf[u])
                 PROVE  FALSE
        BY DEF RowsOk
    <2>1. u \in DOMAIN h /\ h[u].isChanged_
        BY <1>6
    <2>2. Untouched(h[u])
        BY <1>g, <2>1
    <2> QED BY <2>1, <2>2 DEF Untouched
<1>11. HistoryType' /\ EntriesAreLoaded'
    BY <1>2, <1>3, <1>5 DEF HistoryType, EntriesAreLoaded
<1> QED BY <1>2, <1>3, <1>7, <1>8, <1>9, <1>10, <1>11 DEF HistoryInv

-----------------------------------------------------------------------------
(* One lemma per kind of step                                              *)

\* A step that leaves entries and rows alone.
LEMMA NothingStep ==
    ASSUME HistoryInv, UNCHANGED <<loaded, userHistory_, historyTable, installed, removed>>
    PROVE  StepOk
<1>1. HistoryInv' /\ RowsOk
    BY DEF HistoryInv, HistoryType, EntriesAreLoaded, GoneIsUntouched, UnsavedEntryIsMarked,
        RowsOk, Gone, IsBundleInstalled, Untouched
<1>2. ForcedOk
    BY DEF ForcedOk
<1> QED BY <1>1, <1>2 DEF StepOk

\* A step that replaces entries by good ones, which keep what clients have set.
LEMMA ReplaceStep ==
    ASSUME NEW h, HistoryInv, Good(h), KeepsForced(h), userHistory_' = h, loaded' = TRUE,
           UNCHANGED <<historyTable, installed, removed>>
    PROVE  StepOk
<1>1. Good(userHistory_)'
    BY DEF Good, Gone, IsBundleInstalled, Untouched
<1>2. HistoryInv' /\ RowsOk
    BY <1>1, KeepStep DEF HistoryInv, HistoryType
<1>3. ForcedOk
    BY DEF ForcedOk, KeepsForced, SameGroup
<1> QED BY <1>2, <1>3 DEF StepOk

LEMMA SavedStep ==
    ASSUME NEW h, HistoryInv, Good(h), KeepsForced(h), PutBundleHistoryData(h),
           loaded' \in BOOLEAN, ~loaded' => DOMAIN h = {}, UNCHANGED <<installed, removed>>
    PROVE  StepOk
<1>1. /\ HistoryInv' /\ RowsOk
      /\ DOMAIN userHistory_' = DOMAIN h
      /\ \A u \in DOMAIN h : SameGroup(userHistory_'[u], h[u])
    BY SaveStep
<1>2. ForcedOk
    BY <1>1 DEF ForcedOk, KeepsForced, SameGroup
<1> QED BY <1>1, <1>2 DEF StepOk

LEMMA ExtendsKeepsForced == ASSUME NEW h, Extends(h) PROVE KeepsForced(h)
BY DEF Extends, KeepsForced, SameGroup

\* What a report does to the entries: f when a client has set the group of u, else g.
LEMMA ReportedEntries ==
    ASSUME ClockType, TimesInv, HistoryInv, NEW u \in Uid, NEW msg \in Message, NEW stamp \in Stamp,
           ReportEvent(u, msg, stamp)
    PROVE  LET h == EntriesWith({u}, now)
               r == FirstUse(h[u], stamp)
               f == [h EXCEPT ![u] = r]
               g == [h EXCEPT ![u] = ReportUsage(r, msg)]
           IN  /\ Good(h) /\ Extends(h) /\ u \in DOMAIN h
               /\ h[u] \in Entry /\ r \in Entry
               /\ IF r.reasonInGroup_ = "forced" THEN userHistory_' = f /\ UNCHANGED promise
                  ELSE /\ userHistory_' = g
                       /\ promise' = Override([v \in {u} |-> Promise(u, msg)], promise)
<1> DEFINE h == EntriesWith({u}, now)
           r == FirstUse(h[u], stamp)
<1>1. now \in Int /\ {u} \in SUBSET Uid
    BY DEF ClockType
<1>2. Good(h) /\ Extends(h) /\ u \in DOMAIN h
    BY <1>1, EntriesWithGood DEF TimesInv
<1>9. h = EntriesWith({u}, now) /\ r = FirstUse(h[u], stamp)
    OBVIOUS
<1> HIDE DEF h, r
<1>3. h[u] \in Entry /\ h = [v \in DOMAIN h |-> h[v]]
    BY <1>2 DEF Good, IsTable
<1>4. r \in Entry
    BY <1>3, <1>9, FirstUseMoves
<1> DEFINE f == [h EXCEPT ![u] = r]
           g == [h EXCEPT ![u] = ReportUsage(r, msg)]
<1>5. f[u] = r /\ [f EXCEPT ![u] = ReportUsage(f[u], msg)] = g
    BY <1>2, <1>3
<1>6. f = [EntriesWith({u}, now) EXCEPT ![u] = FirstUse(EntriesWith({u}, now)[u], stamp)]
    BY <1>9
<1>7. IF f[u].reasonInGroup_ = "forced" THEN userHistory_' = f /\ UNCHANGED promise
      ELSE /\ userHistory_' = [f EXCEPT ![u] = ReportUsage(f[u], msg)]
           /\ promise' = Override([v \in {u} |-> Promise(u, msg)], promise)
    BY <1>6, Zenon DEF ReportEvent
<1> HIDE DEF f, g
<1>8. IF r.reasonInGroup_ = "forced" THEN userHistory_' = f /\ UNCHANGED promise
      ELSE userHistory_' = g /\ promise' = Override([v \in {u} |-> Promise(u, msg)], promise)
    BY <1>5, <1>7
<1> QED BY <1>2, <1>3, <1>4, <1>8 DEF f, g, h, r

LEMMA ReportStep ==
    ASSUME ClockType, TimesInv, HistoryInv, NEW u \in Uid, NEW msg \in Message, NEW stamp \in Stamp,
           ReportEvent(u, msg, stamp)
    PROVE  StepOk
<1> DEFINE h == EntriesWith({u}, now)
           r == FirstUse(h[u], stamp)
           f == [h EXCEPT ![u] = r]
           g == [h EXCEPT ![u] = ReportUsage(r, msg)]
<1>1. /\ Good(h) /\ Extends(h) /\ u \in DOMAIN h
      /\ h[u] \in Entry /\ r \in Entry
      /\ userHistory_' = IF r.reasonInGroup_ = "forced" THEN f ELSE g
    BY ReportedEntries
<1>0. r = FirstUse(h[u], stamp)
    OBVIOUS
<1> HIDE DEF h, r
<1>2. r = [h[u] EXCEPT !.firstUse = r.firstUse] /\ SameGroup(r, h[u]) /\ r.isChanged_ = h[u].isChanged_
    BY <1>0, <1>1, FirstUseMoves
<1>3. IsBundleInstalled(BundleOf[u]) /\ loaded' = TRUE /\ UNCHANGED <<historyTable, installed, removed>>
    BY DEF ReportEvent, device
<1>4. ~Gone(BundleOf[u])
    BY <1>3 DEF Gone
<1>5. CASE r.reasonInGroup_ = "forced"
    <2>1. /\ DOMAIN f = DOMAIN h
          /\ \A v \in DOMAIN h : f[v] = IF v = u THEN r ELSE h[v]
          /\ IsTable(f)
        BY <1>1 DEF Good, IsTable
    <2>2. h[u].reasonInGroup_ = "forced"
        BY <1>2, <1>5 DEF SameGroup
    <2> HIDE DEF f
    <2>3. \/ h[u].isChanged_
          \/ u \in DOMAIN historyTable /\ RowAgrees(historyTable[u], h[u])
        BY <1>1, <2>2 DEF Good
    <2>4. \/ r.isChanged_
          \/ u \in DOMAIN historyTable /\ RowAgrees(historyTable[u], r)
        BY <1>1, <1>2, <2>2, <2>3, RowStillAgrees
    <2>5. Good(f)
        <3>1. ASSUME NEW v \in DOMAIN f
              PROVE  \/ f[v].isChanged_
                     \/ v \in DOMAIN historyTable /\ RowAgrees(historyTable[v], f[v])
                     \/ f[v].reasonInGroup_ = "default"
            <4>1. CASE v = u
                BY <2>1, <2>4, <4>1
            <4>2. CASE v # u
                BY <1>1, <2>1, <4>2 DEF Good
            <4> QED BY <4>1, <4>2
        <3>2. ASSUME NEW v \in DOMAIN f \ DOMAIN historyTable, Gone(BundleOf[v]) PROVE Untouched(f[v])
            BY <1>1, <1>4, <2>1, <3>2 DEF Good
        <3> QED BY <2>1, <3>1, <3>2 DEF Good
    <2>6. KeepsForced(f)
        BY <1>1, <1>2, <2>1 DEF Extends, KeepsForced, SameGroup
    <2> QED BY <1>1, <1>3, <1>5, <2>5, <2>6, ReplaceStep
<1>6. CASE r.reasonInGroup_ # "forced"
    <2>2. ReportUsage(r, msg) \in Entry /\ ReportUsage(r, msg).isChanged_
        BY <1>1, ReportMarks DEF TimesInv
    <2>3. /\ DOMAIN g = DOMAIN h /\ g = [v \in DOMAIN h |-> g[v]]
          /\ \A v \in DOMAIN h : g[v] = IF v = u THEN ReportUsage(r, msg) ELSE h[v]
        BY <1>1 DEF Good, IsTable
    <2> HIDE DEF g
    <2>5. Good(g)
        BY <1>1, <1>4, <2>2, <2>3, ChangesGood
    <2>6. KeepsForced(g)
        BY <1>1, <1>2, <1>6, <2>3 DEF Extends, KeepsForced, SameGroup
    <2> QED BY <1>1, <1>3, <1>6, <2>5, <2>6, ReplaceStep
<1> QED BY <1>5, <1>6

\* A check with the time read when its task began.
LEMMA CheckStep ==
    ASSUME ClockType, TimesInv, HistoryInv, NEW u \in Uid, CheckAndUpdateGroup(u)
    PROVE  StepOk
<1> DEFINE h == EntriesWith({u}, worker.at)
           e == CheckAndUpdate(h[u], worker.at)
           g == [h EXCEPT ![u] = e]
<1>1. /\ worker.at \in Int /\ {u} \in SUBSET Uid
      /\ GetBootBasedTimeStamp(worker.at) >= 0
    BY DEF CheckAndUpdateGroup, TimesInv, TimesType, TimesNotNegative
<1>2. Good(h) /\ Extends(h) /\ u \in DOMAIN h
    BY <1>1, EntriesWithGood DEF TimesInv
<1>3. userHistory_' = g /\ loaded' = TRUE /\ UNCHANGED <<historyTable, installed, removed>>
    BY DEF CheckAndUpdateGroup, device
<1> HIDE DEF h
<1>4. h[u] \in Entry
    BY <1>2 DEF Good, IsTable
<1>5. /\ e \in Entry /\ (e = h[u] \/ e.isChanged_)
      /\ h[u].reasonInGroup_ = "forced" => e = h[u]
      /\ Untouched(h[u]) => e = h[u]
    BY <1>1, <1>4, CheckMarks DEF TimesInv
<1>6. /\ DOMAIN g = DOMAIN h /\ g = [v \in DOMAIN h |-> g[v]]
      /\ \A v \in DOMAIN h : g[v] = IF v = u THEN e ELSE h[v]
    BY <1>2 DEF Good, IsTable
<1> HIDE DEF g, e
<1>7. e = h[u] \/ u \in DOMAIN historyTable \/ ~Gone(BundleOf[u])
    BY <1>2, <1>5 DEF Good
<1>8. Good(g)
    BY <1>2, <1>5, <1>6, <1>7, ChangesGood
<1>9. KeepsForced(g)
    BY <1>2, <1>5, <1>6 DEF Extends, KeepsForced, SameGroup
<1> QED BY <1>3, <1>8, <1>9, ReplaceStep

\* The check of all bundles that are installed.
LEMMA CheckedAllGood ==
    ASSUME ClockType, TimesInv, HistoryInv
    PROVE  Good(CheckedAll) /\ KeepsForced(CheckedAll)
<1> DEFINE h == EntriesWith(AllBundles, now)
           g == CheckedAll
<1>1. now \in Int /\ AllBundles \in SUBSET Uid
    BY UidAssumption DEF ClockType, AllBundles
<1>2. Good(h) /\ Extends(h) /\ AllBundles \subseteq DOMAIN h
    BY <1>1, EntriesWithGood DEF TimesInv
<1>3. g = [u \in DOMAIN h |-> IF u \in AllBundles THEN CheckAndUpdate(h[u], now) ELSE h[u]]
    BY DEF CheckedAll
<1> HIDE DEF h, g
<1>4. \A u \in DOMAIN h : h[u] \in Entry
    BY <1>2 DEF Good, IsTable
<1>5. ASSUME NEW u \in DOMAIN h
      PROVE  /\ g[u] = h[u] \/ (g[u] \in Entry /\ g[u].isChanged_ /\ ~Gone(BundleOf[u]))
             /\ h[u].reasonInGroup_ = "forced" => g[u] = h[u]
    <2>1. CASE u \in AllBundles
        <3>1. ~Gone(BundleOf[u])
            BY <2>1 DEF Gone, IsBundleInstalled, AllBundles
        <3>2. LET r == CheckAndUpdate(h[u], now)
              IN  r \in Entry /\ (r = h[u] \/ r.isChanged_) /\ (h[u].reasonInGroup_ = "forced" => r = h[u])
            BY <1>1, <1>4, CheckMarks DEF TimesInv
        <3> QED BY <1>3, <2>1, <3>1, <3>2
    <2>2. CASE u \notin AllBundles
        BY <1>3, <2>2
    <2> QED BY <2>1, <2>2
<1>6. DOMAIN g = DOMAIN h /\ g = [u \in DOMAIN h |-> g[u]]
    BY <1>3
<1>7. Good(g)
    BY <1>2, <1>5, <1>6, ChangesGood
<1>8. KeepsForced(g)
    BY <1>2, <1>5, <1>6 DEF Extends, KeepsForced, SameGroup
<1> QED BY <1>7, <1>8 DEF g

LEMMA SwitchOrShutDownStep ==
    ASSUME ClockType, TimesInv, HistoryInv, OnUserSwitched \/ ShutDown
    PROVE  StepOk
<1> DEFINE h == IF loaded' THEN CheckedAll ELSE <<>>
<1>1. /\ loaded' = (loaded \/ AllBundles # {}) /\ PutBundleHistoryData(h)
      /\ UNCHANGED <<installed, removed>>
    BY DEF OnUserSwitched, ShutDown, device
<1>2. loaded' \in BOOLEAN
    BY <1>1
<1>3. CASE loaded'
    BY <1>1, <1>2, <1>3, CheckedAllGood, SavedStep
<1>4. CASE ~loaded'
    <2>1. Good(<<>>) /\ KeepsForced(<<>>) /\ DOMAIN <<>> = {}
        BY DEF Good, KeepsForced, IsTable
    <2>2. PutBundleHistoryData(<<>>)
        BY <1>1, <1>4
    <2> QED BY <1>1, <1>2, <2>1, <2>2, SavedStep
<1> QED BY <1>3, <1>4

\* A client sets all entries of a bundle, and nothing else.
LEMMA SetStep ==
    ASSUME HistoryInv, NEW b \in Bundle, NEW group \in SetGroups, NEW isFlush \in BOOLEAN,
           SetAppGroup(b, group, isFlush)
    PROVE  StepOk
<1> DEFINE ofBundle == {u \in DOMAIN userHistory_ : BundleOf[u] = b}
           h == [u \in DOMAIN userHistory_ |->
                    IF u \in ofBundle THEN SetGroup(userHistory_[u], group, "forced") ELSE userHistory_[u]]
           done == IsBundleInstalled(b) /\ loaded
<1>1. /\ reply'.bundle = b /\ reply'.group = group
      /\ IF ~done THEN UNCHANGED <<userHistory_, historyTable>>
         ELSE IF isFlush /\ h # userHistory_ THEN PutBundleHistoryData(h)
         ELSE userHistory_' = h /\ UNCHANGED historyTable
      /\ UNCHANGED <<loaded, installed, removed>>
    BY DEF SetAppGroup, device
<1>2. CASE ~done
    BY <1>1, <1>2, NothingStep
<1>3. CASE done
    <2>1. Good(userHistory_) /\ loaded = TRUE
        BY <1>3, EntriesGood DEF Entries
    <2>2. \A u \in DOMAIN userHistory_ : userHistory_[u] \in Entry
        BY <2>1 DEF Good, IsTable
    <2>3. group \in Group /\ "forced" \in Reason
        BY DEF Group, Reason
    <2>4. \A u \in DOMAIN userHistory_ :
            LET r == SetGroup(userHistory_[u], group, "forced")
            IN  /\ r \in Entry /\ (r = userHistory_[u] \/ r.isChanged_)
                /\ r.currentGroup_ = group /\ r.reasonInGroup_ = "forced"
        BY <2>2, <2>3, SetGroupMarks
    <2>5. \A u \in ofBundle : ~Gone(BundleOf[u])
        BY <1>3 DEF Gone
    <2>6. /\ DOMAIN h = DOMAIN userHistory_ /\ h = [u \in DOMAIN userHistory_ |-> h[u]]
          /\ \A u \in DOMAIN userHistory_ :
                h[u] = userHistory_[u] \/ (h[u] \in Entry /\ h[u].isChanged_ /\ ~Gone(BundleOf[u]))
        BY <2>4, <2>5
    <2>7. \A u \in DOMAIN userHistory_ : userHistory_[u].reasonInGroup_ = "forced" =>
            /\ h[u].reasonInGroup_ = "forced"
            /\ h[u].currentGroup_ # userHistory_[u].currentGroup_ => BundleOf[u] = b /\ h[u].currentGroup_ = group
        BY <2>4
    <2> HIDE DEF h
    <2>8. Good(h)
        BY <2>1, <2>6, ChangesGood
    <2>9. CASE isFlush /\ h # userHistory_
        <3>1. PutBundleHistoryData(h) /\ loaded' = TRUE
            BY <1>1, <1>3, <2>1, <2>9
        <3>2. /\ HistoryInv' /\ RowsOk
              /\ DOMAIN userHistory_' = DOMAIN h
              /\ \A u \in DOMAIN h : SameGroup(userHistory_'[u], h[u])
            BY <1>1, <2>8, <3>1, SaveStep
        <3>3. ForcedOk
            BY <1>1, <2>6, <2>7, <3>2 DEF ForcedOk, SameGroup
        <3> QED BY <3>2, <3>3 DEF StepOk
    <2>10. CASE ~(isFlush /\ h # userHistory_)
        <3>1. userHistory_' = h /\ UNCHANGED historyTable
            BY <1>1, <1>3, <2>10
        <3>2. Good(userHistory_)'
            BY <1>1, <2>8, <3>1 DEF Good, Gone, IsBundleInstalled, Untouched
        <3>3. HistoryInv' /\ RowsOk
            BY <1>1, <2>1, <3>1, <3>2, KeepStep DEF HistoryInv, HistoryType
        <3>4. ForcedOk
            BY <1>1, <2>6, <2>7, <3>1 DEF ForcedOk
        <3> QED BY <3>3, <3>4 DEF StepOk
    <2> QED BY <2>9, <2>10
<1> QED BY <1>2, <1>3

\* The end of a check saves what is in memory.
LEMMA CheckSaveStep ==
    ASSUME HistoryInv, CheckSave
    PROVE  StepOk
<1>1. /\ IF loaded THEN PutBundleHistoryData(userHistory_) ELSE UNCHANGED <<userHistory_, historyTable>>
      /\ UNCHANGED <<loaded, installed, removed>>
    BY DEF CheckSave, device
<1>2. CASE loaded
    <2>1. Good(userHistory_) /\ Extends(userHistory_)
        BY <1>2, EntriesGood DEF Entries
    <2>2. loaded' \in BOOLEAN /\ loaded'
        BY <1>1, <1>2 DEF HistoryInv, HistoryType
    <2> QED BY <1>1, <1>2, <2>1, <2>2, ExtendsKeepsForced, SavedStep
<1>3. CASE ~loaded
    BY <1>1, <1>3, NothingStep
<1> QED BY <1>2, <1>3

LEMMA PeriodCheckStep ==
    ASSUME HistoryInv, PeriodCheck
    PROVE  StepOk
<1>1. userHistory_' = Entries /\ loaded' = TRUE /\ UNCHANGED <<historyTable, installed, removed>>
    BY DEF PeriodCheck, device
<1> QED BY <1>1, EntriesGood, ExtendsKeepsForced, ReplaceStep

\* A bundle that is removed is not gone before its removal is handled.
LEMMA RemovedStep ==
    ASSUME HistoryInv, NEW u \in Uid, BundleRemoved(u)
    PROVE  StepOk
<1>1. /\ installed' = installed \ (IF u \in MainUid THEN {v \in Uid : BundleOf[v] = BundleOf[u]} ELSE {u})
      /\ removed' = removed \cup {u}
      /\ UNCHANGED <<loaded, userHistory_, historyTable>>
    BY DEF BundleRemoved
<1>2. \A b : Gone(b)' => Gone(b)
    BY <1>1, UidAssumption DEF Gone, IsBundleInstalled
<1>3. GoneIsUntouched'
    BY <1>1, <1>2 DEF HistoryInv, GoneIsUntouched, Untouched
<1>4. HistoryInv' /\ RowsOk
    BY <1>1, <1>3 DEF HistoryInv, HistoryType, EntriesAreLoaded, UnsavedEntryIsMarked, RowsOk
<1>5. ForcedOk
    BY <1>1 DEF ForcedOk
<1> QED BY <1>4, <1>5 DEF StepOk

\* When it is handled, no entry of the bundle is left in memory.
LEMMA UninstalledStep ==
    ASSUME HistoryInv, NEW u \in Uid, OnBundleUninstalled(u)
    PROVE  StepOk
<1> DEFINE gone == {v \in Uid : BundleOf[v] = BundleOf[u]}
<1>1. removed' = removed \ {u} /\ UNCHANGED <<loaded, installed>>
    BY DEF OnBundleUninstalled
<1>2. \A b : b # BundleOf[u] /\ Gone(b)' => Gone(b)
    BY <1>1 DEF Gone, IsBundleInstalled
<1>3. CASE loaded
    <2>1. /\ userHistory_' = Restrict(userHistory_, DOMAIN userHistory_ \ gone)
          /\ historyTable' = Restrict(historyTable, DOMAIN historyTable \ DeletedRows(u))
        BY <1>3 DEF OnBundleUninstalled
    <2>2. IsTable(userHistory_) /\ IsTable(historyTable) /\ DeletedRows(u) \subseteq gone
        BY DEF HistoryInv, HistoryType, DeletedRows
    <2>3. /\ IsTable(userHistory_') /\ DOMAIN userHistory_' = DOMAIN userHistory_ \ gone
          /\ \A v \in DOMAIN userHistory_ \ gone : userHistory_'[v] = userHistory_[v]
        BY <2>1, <2>2, RestrictIsTable
    <2>4. /\ IsTable(historyTable') /\ DOMAIN historyTable' = DOMAIN historyTable \ DeletedRows(u)
          /\ \A v \in DOMAIN historyTable \ DeletedRows(u) : historyTable'[v] = historyTable[v]
        BY <2>1, <2>2, RestrictIsTable
    <2>5. \A v \in DOMAIN userHistory_' : v \in Uid /\ BundleOf[v] # BundleOf[u]
        BY <2>2, <2>3 DEF IsTable
    <2> HIDE DEF gone
    <2>6. UnsavedEntryIsMarked'
        BY <2>2, <2>3, <2>4 DEF HistoryInv, UnsavedEntryIsMarked
    <2>7. GoneIsUntouched'
        <3> SUFFICES ASSUME NEW v \in DOMAIN userHistory_' \ DOMAIN historyTable', Gone(BundleOf[v])'
                     PROVE  Untouched(userHistory_[v])'
            BY DEF GoneIsUntouched
        <3>1. v \in DOMAIN userHistory_ \ DOMAIN historyTable
            BY <2>2, <2>3, <2>4
        <3>2. Gone(BundleOf[v])
            BY <1>2, <2>5
        <3>3. Untouched(userHistory_[v])
            BY <3>1, <3>2 DEF HistoryInv, GoneIsUntouched
        <3> QED BY <2>3, <3>3 DEF Untouched
    <2>8. HistoryType' /\ EntriesAreLoaded'
        BY <1>1, <1>3, <2>3, <2>4 DEF HistoryInv, HistoryType, EntriesAreLoaded
    <2>9. RowsOk
        BY <2>4 DEF RowsOk
    <2>10. ForcedOk
        BY <2>3 DEF ForcedOk
    <2> QED BY <2>6, <2>7, <2>8, <2>9, <2>10 DEF StepOk, HistoryInv
<1>4. CASE ~loaded
    <2>1. UNCHANGED <<userHistory_, historyTable>> /\ DOMAIN userHistory_ = {}
        BY <1>4 DEF OnBundleUninstalled, HistoryInv, EntriesAreLoaded
    <2>2. HistoryInv'
        BY <1>1, <2>1 DEF HistoryInv, HistoryType, EntriesAreLoaded, GoneIsUntouched, UnsavedEntryIsMarked
    <2> QED BY <2>1, <2>2 DEF StepOk, RowsOk, ForcedOk
<1> QED BY <1>3, <1>4

\* A process that starts again has no entries yet.
LEMMA RestartStep ==
    ASSUME HistoryInv, NEW reboot \in BOOLEAN, NEW on \in BOOLEAN, Restart(reboot, on)
    PROVE  StepOk
<1>1. loaded' = FALSE /\ userHistory_' = <<>> /\ DOMAIN userHistory_' = {} /\ UNCHANGED historyTable
    BY DEF Restart
<1>2. IsTable(userHistory_)' /\ IsTable(historyTable)'
    BY <1>1 DEF HistoryInv, HistoryType, IsTable
<1>3. EntriesAreLoaded' /\ GoneIsUntouched' /\ UnsavedEntryIsMarked'
    BY <1>1 DEF EntriesAreLoaded, GoneIsUntouched, UnsavedEntryIsMarked
<1>4. HistoryInv'
    BY <1>1, <1>2, <1>3 DEF HistoryInv, HistoryType
<1> QED BY <1>1, <1>4 DEF StepOk, RowsOk, ForcedOk

LEMMA HistoryStep == ClockType /\ TimesInv /\ HistoryInv /\ [Next]_vars => StepOk
<1> SUFFICES ASSUME ClockType, TimesInv, HistoryInv, [Next]_vars PROVE StepOk
    OBVIOUS
<1>1. CASE Tick \/ OnStatsReload
    BY <1>1, NothingStep DEF Tick, OnStatsReload, device
<1>4. CASE ScreenTask
    BY <1>4, NothingStep DEF ScreenTask, device
<1>5. CASE OneTimeCheckBegin
    BY <1>5, NothingStep DEF OneTimeCheckBegin, device
<1>6. CASE UNCHANGED vars
    BY <1>6, NothingStep DEF vars, device
<1>2. ASSUME NEW on \in BOOLEAN, OnScreenChanged(on) PROVE StepOk
    BY <1>2, NothingStep DEF OnScreenChanged, device
<1>3. ASSUME NEW c \in checkTasks, CheckBegin(c) PROVE StepOk
    BY <1>3, NothingStep DEF CheckBegin, device
<1> QED
    BY <1>1, <1>2, <1>3, <1>4, <1>5, <1>6, ReportStep, SetStep, PeriodCheckStep, CheckStep, CheckSaveStep,
        SwitchOrShutDownStep, RemovedStep, UninstalledStep, RestartStep DEF Next

-----------------------------------------------------------------------------
LEMMA InitIInv == Init => IInv
<1> SUFFICES ASSUME Init PROVE IInv
    OBVIOUS
<1>1. PICK on \in BOOLEAN : screenTasks = <<[on |-> on, at |-> 1]>>
    BY DEF Init
<1>2. screenTasks \in Seq([on : BOOLEAN, at : Int]) /\ \A i \in DOMAIN screenTasks : screenTasks[i].at = 1
    <2> DEFINE task == [on |-> on, at |-> 1]
    <2>1. screenTasks = <<task>> /\ task.at = 1 /\ task \in [on : BOOLEAN, at : Int]
        BY <1>1
    <2> HIDE DEF task
    <2>2. \A i \in DOMAIN screenTasks : screenTasks[i] = task
        BY <2>1
    <2> QED BY <2>1, <2>2
<1>3. ClockType /\ BaseAndSum
    BY <1>2 DEF Init, ClockType, BaseAndSum
<1>4. TimesType
    <2>1. worker = IdleWorker /\ screenOnTimeStamp_ = 1 /\ ScreenOnDuration_ = 0 /\ isScreenOn_ = FALSE
        BY DEF Init
    <2>2. worker.at \in Int /\ worker = [pc |-> worker.pc, todo |-> worker.todo, at |-> worker.at, key |-> worker.key]
        BY <2>1 DEF IdleWorker
    <2>3. isScreenOn_ \in BOOLEAN
        BY <2>1, Zenon
    <2>4. screenOnTimeStamp_ \in Int /\ ScreenOnDuration_ \in Int
        BY <2>1, SMT
    <2> QED BY <2>2, <2>3, <2>4 DEF TimesType
<1>5. TimesNotNegative
    <2>1. worker.pc # "check" /\ DOMAIN userHistory_ = {} /\ DOMAIN historyTable = {} /\ now = 1
            /\ bootBasedTimeStamp_ = 1 /\ bootBasedDuration_ = 0
        BY DEF Init, IdleWorker
    <2> QED BY <1>2, <2>1 DEF TimesNotNegative, GetBootBasedTimeStamp
<1>6. HistoryType /\ EntriesAreLoaded /\ GoneIsUntouched /\ UnsavedEntryIsMarked
    <2>1. userHistory_ = <<>> /\ historyTable = <<>> /\ loaded \in BOOLEAN
        BY DEF Init
    <2>2. DOMAIN userHistory_ = {} /\ DOMAIN historyTable = {}
        BY <2>1
    <2>3. IsTable(userHistory_) /\ IsTable(historyTable)
        BY <2>1, <2>2 DEF IsTable
    <2> QED BY <2>1, <2>2, <2>3 DEF HistoryType, EntriesAreLoaded, GoneIsUntouched, UnsavedEntryIsMarked
<1> QED BY <1>3, <1>4, <1>5, <1>6 DEF IInv, TypeOK

LEMMA NextIInv == IInv /\ [Next]_vars => IInv' /\ StepOk
BY ClockStep, TimesStep, HistoryStep DEF IInv, TypeOK, ClockInv, TimesInv, HistoryInv, StepOk

\* Every variable keeps its type, in memory and in the table.
THEOREM TypeCorrect == Spec => []TypeOK
<1>1. IInv => TypeOK
    BY DEF IInv
<1> QED BY InitIInv, NextIInv, <1>1, PTL DEF Spec

\* Reports, checks, sets, saves, switches, removals and restarts, in any order: an entry
\* that differs from its row is marked, so that the next save writes it, unless all that
\* differs is the first use of an entry whose group a client has set.
THEOREM UnsavedEntriesAreMarked == Spec => []UnsavedEntryIsMarked
<1>1. IInv => UnsavedEntryIsMarked
    BY DEF IInv
<1> QED BY InitIInv, NextIInv, <1>1, PTL DEF Spec

\* A check that comes after its bundle is gone makes an entry for it, but no save writes
\* a row of it.
THEOREM NoRowComesBack == Spec => NoRowOfRemovedBundle
<1>1. IInv /\ [Next]_vars =>
        [\A u \in DOMAIN historyTable' \ DOMAIN historyTable :
            \/ IsBundleInstalled(BundleOf[u])
            \/ \E v \in removed \cap MainUid : BundleOf[v] = BundleOf[u]]_vars
    BY NextIInv DEF StepOk, RowsOk, Gone
<1> QED BY InitIInv, NextIInv, <1>1, PTL DEF Spec, NoRowOfRemovedBundle

\* A group set by a client is changed only by a client that sets this bundle.
THEOREM ForcedGroupStays == Spec => ForcedStays
<1>1. IInv /\ [Next]_vars =>
        [\A u \in DOMAIN userHistory_ :
            (userHistory_[u].reasonInGroup_ = "forced" /\ u \in DOMAIN userHistory_') =>
                /\ userHistory_'[u].reasonInGroup_ = "forced"
                /\ userHistory_'[u].currentGroup_ # userHistory_[u].currentGroup_ =>
                      reply'.bundle = BundleOf[u] /\ reply'.group = userHistory_'[u].currentGroup_]_vars
    BY NextIInv DEF StepOk, ForcedOk
<1> QED BY InitIInv, NextIInv, <1>1, PTL DEF Spec, ForcedStays

-----------------------------------------------------------------------------
(* What events promised is kept                                            *)

\* Up time and adjusted time differ by what was lost with earlier processes.
Offset == bootBasedDuration_ - bootBasedTimeStamp_ - past

\* An entry holds a promise when the timeouts that checks compare with are as late.
Holds(e, p) ==
    /\ p.alive > UpTime => e.currentGroup_ <= ALIVE /\ e.aliveTimeout >= p.alive + Offset
    /\ p.daily > UpTime => e.currentGroup_ <= DAILY /\ e.dailyTimeout >= p.daily + Offset
Promised(e, p) == e.reasonInGroup_ # "default" /\ (e.reasonInGroup_ # "forced" => Holds(e, p))
Held(h) == \A u \in DOMAIN promise : u \in DOMAIN h /\ Promised(h[u], promise[u])

\* A promise is held in memory, or by the rows that will be loaded, and no check uses a
\* time that is still to come.
PromiseType == \A u \in DOMAIN promise : promise[u] \in [alive : Int, daily : Int]
CheckIsNotAhead == worker.pc = "check" => worker.at <= now
PromiseInv == PromiseType /\ Held(Entries) /\ UpTime >= 0 /\ CheckIsNotAhead

LEMMA TimesAreInts == ASSUME ClockType PROVE UpTime \in Int /\ Offset \in Int
BY DEF ClockType, UpTime, Offset

LEMMA GroupsAreInts ==
    /\ Group \subseteq Int /\ \A g \in Group : g >= ALIVE
    /\ ALIVE \in Group /\ DAILY \in Group /\ FIXED \in Group /\ RARE \in Group
BY SetGroupsAssumption DEF Group, ALIVE, DAILY, FIXED, RARE, NEVER

\* A check at a time that has come keeps what was promised.
LEMMA CheckKeepsPromise ==
    ASSUME ClockType, TimesType, NEW e \in Entry, NEW p \in [alive : Int, daily : Int],
           Promised(e, p), NEW t \in Int, t <= now
    PROVE  Promised(CheckAndUpdate(e, t), p)
<1>1. CASE e.reasonInGroup_ = "forced" \/ Levels(e, t) = {}
    BY <1>1 DEF CheckAndUpdate
<1>2. CASE e.reasonInGroup_ # "forced" /\ Levels(e, t) # {}
    <2> DEFINE g == GetNewGroup(e, t)
               adjusted == GetBootBasedTimeStamp(t)
    <2>1. g \in {ALIVE, DAILY, FIXED, RARE}
        BY <1>2, LastLevelIsLevel DEF GetNewGroup, LEVEL_GROUP
    <2>2. g \in Group /\ g \in Int /\ g >= ALIVE
        BY <2>1, GroupsAreInts
    <2>3. adjusted \in Int /\ adjusted <= UpTime + Offset
        BY DEF ClockType, GetBootBasedTimeStamp, UpTime, Offset
    <2>4. CheckAndUpdate(e, t) =
            IF e.aliveTimeout > adjusted THEN SetGroup(e, ALIVE, "notTimeout")
            ELSE IF g >= DAILY /\ e.dailyTimeout > adjusted
                 THEN SetGroup(e, DAILY, "aliveTimeout") ELSE Demote(e, g)
        BY <1>2 DEF CheckAndUpdate, Checked
    <2> HIDE DEF g, adjusted
    <2>5. ASSUME NEW group \in Group, NEW reason \in Reason \ {"default", "forced"}
          PROVE  LET r == SetGroup(e, group, reason)
                 IN  /\ r.reasonInGroup_ \notin {"default", "forced"} /\ r.currentGroup_ = group
                     /\ r.aliveTimeout = e.aliveTimeout /\ r.dailyTimeout = e.dailyTimeout
        BY DEF SetGroup, Entry
    <2>6. /\ e.aliveTimeout \in Int /\ e.dailyTimeout \in Int /\ e.currentGroup_ \in Int
          /\ e.currentGroup_ >= ALIVE /\ p.alive \in Int /\ p.daily \in Int
          /\ UpTime \in Int /\ Offset \in Int
        BY GroupsAreInts, TimesAreInts DEF Entry
    <2>7. {"notTimeout", "aliveTimeout", "timeout"} \subseteq Reason \ {"default", "forced"}
        BY DEF Reason
    <2>h. Holds(e, p)
        BY <1>2 DEF Promised
    <2>8. CASE e.aliveTimeout > adjusted
        <3> DEFINE r == SetGroup(e, ALIVE, "notTimeout")
        <3>1. CheckAndUpdate(e, t) = r
            BY <2>4, <2>8
        <3>2. /\ r.reasonInGroup_ \notin {"default", "forced"} /\ r.currentGroup_ = ALIVE
              /\ r.aliveTimeout = e.aliveTimeout /\ r.dailyTimeout = e.dailyTimeout
            BY <2>5, <2>7, GroupsAreInts
        <3> HIDE DEF r
        <3> QED BY <2>h, <2>6, <3>1, <3>2 DEF Promised, Holds, ALIVE, DAILY
    <2>9. CASE ~(e.aliveTimeout > adjusted)
        <3>0. ~(p.alive > UpTime)
            BY <2>3, <2>6, <2>9, <2>h DEF Holds
        <3>1. CASE g >= DAILY /\ e.dailyTimeout > adjusted
            <4> DEFINE r == SetGroup(e, DAILY, "aliveTimeout")
            <4>1. CheckAndUpdate(e, t) = r
                BY <2>4, <2>9, <3>1
            <4>2. /\ r.reasonInGroup_ \notin {"default", "forced"} /\ r.currentGroup_ = DAILY
                  /\ r.aliveTimeout = e.aliveTimeout /\ r.dailyTimeout = e.dailyTimeout
                BY <2>5, <2>7, GroupsAreInts
            <4> HIDE DEF r
            <4> QED BY <2>h, <2>6, <3>0, <4>1, <4>2 DEF Promised, Holds, ALIVE, DAILY
        <3>2. CASE ~(g >= DAILY /\ e.dailyTimeout > adjusted)
            <4>1. CheckAndUpdate(e, t) = Demote(e, g)
                BY <2>4, <2>9, <3>2
            <4>2. p.daily > UpTime => g = ALIVE
                BY <2>1, <2>3, <2>6, <2>h, <3>2 DEF Holds, ALIVE, DAILY, FIXED, RARE
            <4>3. CASE e.currentGroup_ < g
                <5> DEFINE r == SetGroup(e, g, "timeout")
                <5>1. CheckAndUpdate(e, t) = r
                    BY <4>1, <4>3 DEF Demote
                <5>2. /\ r.reasonInGroup_ \notin {"default", "forced"}
                      /\ r.aliveTimeout = e.aliveTimeout /\ r.dailyTimeout = e.dailyTimeout
                    BY <2>2, <2>5, <2>7
                <5>3. ~(p.daily > UpTime)
                    BY <2>6, <4>2, <4>3 DEF ALIVE
                <5> HIDE DEF r
                <5> QED BY <3>0, <5>1, <5>2, <5>3 DEF Promised, Holds
            <4>4. CASE ~(e.currentGroup_ < g)
                BY <4>1, <4>4 DEF Demote
            <4> QED BY <4>3, <4>4
        <3> QED BY <3>1, <3>2
    <2> QED BY <2>8, <2>9
<1> QED BY <1>1, <1>2

\* An event keeps what was promised before and holds what it promises.
LEMMA ReportKeepsPromise ==
    ASSUME ClockType, TimesType, UpTime >= 0, PromiseType, NEW u, NEW e \in Entry, NEW msg \in Message,
           e.reasonInGroup_ # "forced", u \in DOMAIN promise => Promised(e, promise[u])
    PROVE  Promise(u, msg) \in [alive : Int, daily : Int] /\ Promised(ReportUsage(e, msg), Promise(u, msg))
<1> DEFINE old == IF u \in DOMAIN promise THEN promise[u] ELSE [alive |-> 0, daily |-> 0]
           r == ReportUsage(e, msg)
           p == Promise(u, msg)
           T == EventTimeout(msg)
<1>1. T \in Int
    <2>1. DirectTimeout \in Int /\ SystemTimeout \in Int /\ NotifyTimeout \in Int
        BY TimeAssumption
    <2>2. CASE msg = "default"
        BY <2>1, <2>2 DEF EventTimeout
    <2>3. CASE msg = "notification"
        BY <2>1, <2>3 DEF EventTimeout
    <2>4. CASE msg = "system"
        BY <2>1, <2>4 DEF EventTimeout
    <2> QED BY <2>2, <2>3, <2>4 DEF Message
<1> HIDE DEF T
<1>2. UpTime \in Int /\ Offset \in Int /\ Until(msg) = UpTime + Offset + T /\ Until(msg) \in Int
    BY <1>1, TimesAreInts DEF ClockType, Until, GetBootBasedTimeStamp, UpTime, Offset, T
<1>3. old \in [alive : Int, daily : Int]
    BY DEF PromiseType
<1>4. Holds(e, old)
    <2>1. CASE u \in DOMAIN promise
        BY <2>1 DEF Promised
    <2>2. CASE u \notin DOMAIN promise
        BY <1>2, <2>2 DEF Holds
    <2> QED BY <2>1, <2>2
<1>5. p = IF EventGroup(msg) = ALIVE THEN [old EXCEPT !.alive = Larger(UpTime + T, old.alive)]
          ELSE [old EXCEPT !.daily = Larger(UpTime + T, old.daily)]
    BY DEF Promise, T
<1> HIDE DEF old, p
<1>6. /\ p \in [alive : Int, daily : Int]
      /\ p.alive = IF EventGroup(msg) = ALIVE THEN Larger(UpTime + T, old.alive) ELSE old.alive
      /\ p.daily = IF EventGroup(msg) = ALIVE THEN old.daily ELSE Larger(UpTime + T, old.daily)
    BY <1>1, <1>2, <1>3, <1>5 DEF Larger
<1>7. /\ r.reasonInGroup_ = "usage"
      /\ r.currentGroup_ = IF e.currentGroup_ > EventGroup(msg) THEN EventGroup(msg) ELSE e.currentGroup_
      /\ r.aliveTimeout = Extended(e.aliveTimeout, ALIVE, msg)
      /\ r.dailyTimeout = Extended(e.dailyTimeout, DAILY, msg)
    BY DEF ReportUsage
<1> HIDE DEF r
<1>8. e.currentGroup_ \in Int /\ e.aliveTimeout \in Int /\ e.dailyTimeout \in Int
    BY GroupsAreInts DEF Entry
<1>9. old.alive \in Int /\ old.daily \in Int
    BY <1>3
<1>10. CASE EventGroup(msg) = ALIVE
    <2>1. /\ p.alive = Larger(UpTime + T, old.alive) /\ p.daily = old.daily
          /\ r.aliveTimeout = Larger(UpTime + Offset + T, e.aliveTimeout)
          /\ r.dailyTimeout = e.dailyTimeout
          /\ r.currentGroup_ <= ALIVE /\ r.currentGroup_ <= DAILY
        BY <1>2, <1>6, <1>7, <1>8, <1>10 DEF Extended, ALIVE, DAILY
    <2>2. Holds(r, p)
        BY <1>1, <1>2, <1>4, <1>8, <1>9, <2>1 DEF Holds, Larger
    <2> QED BY <1>6, <1>7, <2>2 DEF Promised, p, r
<1>11. CASE EventGroup(msg) # ALIVE
    <2>0. EventGroup(msg) = DAILY
        BY <1>11 DEF EventGroup
    <2>1. /\ p.alive = old.alive /\ p.daily = Larger(UpTime + T, old.daily)
          /\ r.dailyTimeout = Larger(UpTime + Offset + T, e.dailyTimeout)
          /\ r.aliveTimeout = e.aliveTimeout
          /\ r.currentGroup_ <= e.currentGroup_ /\ r.currentGroup_ <= DAILY /\ r.currentGroup_ \in Int
        BY <1>2, <1>6, <1>7, <1>8, <1>11, <2>0 DEF Extended, ALIVE, DAILY
    <2>2. Holds(r, p)
        BY <1>1, <1>2, <1>4, <1>8, <1>9, <2>1 DEF Holds, Larger, ALIVE
    <2> QED BY <1>6, <1>7, <2>2 DEF Promised, p, r
<1> QED BY <1>10, <1>11

-----------------------------------------------------------------------------
\* Entries that are added do not matter, and a save only clears marks.
LEMMA EntriesWithHeld ==
    ASSUME Held(Entries), NEW uids, NEW t
    PROVE  Held(EntriesWith(uids, t))
BY DEF Held, EntriesWith, Override

LEMMA SavedHeld ==
    ASSUME NEW h, IsTable(h), Held(h), PutBundleHistoryData(h)
    PROVE  \A u \in DOMAIN promise : u \in DOMAIN userHistory_' /\ Promised(userHistory_'[u], promise[u])
<1>1. /\ DOMAIN Saved(h) = DOMAIN h
      /\ \A u \in DOMAIN h : Saved(h)[u] = [h[u] EXCEPT !.isChanged_ = FALSE] /\ h[u] \in Entry
    BY SavedIsTable
<1>2. \A e \in Entry : LET r == [e EXCEPT !.isChanged_ = FALSE]
                       IN  /\ r.reasonInGroup_ = e.reasonInGroup_ /\ r.currentGroup_ = e.currentGroup_
                           /\ r.aliveTimeout = e.aliveTimeout /\ r.dailyTimeout = e.dailyTimeout
    BY DEF Entry
<1>3. userHistory_' = Saved(h)
    BY DEF PutBundleHistoryData
<1>4. ASSUME NEW u \in DOMAIN promise
      PROVE  u \in DOMAIN userHistory_' /\ Promised(userHistory_'[u], promise[u])
    <2> DEFINE e == h[u]
               r == [e EXCEPT !.isChanged_ = FALSE]
    <2>1. u \in DOMAIN h /\ Promised(e, promise[u]) /\ e \in Entry
        BY <1>1, <1>4 DEF Held
    <2>2. userHistory_'[u] = r /\ u \in DOMAIN userHistory_'
        BY <1>1, <1>3, <2>1
    <2>3. /\ r.reasonInGroup_ = e.reasonInGroup_ /\ r.currentGroup_ = e.currentGroup_
          /\ r.aliveTimeout = e.aliveTimeout /\ r.dailyTimeout = e.dailyTimeout
        BY <1>2, <2>1
    <2> HIDE DEF e, r
    <2> QED BY <2>1, <2>2, <2>3 DEF Promised, Holds
<1> QED BY <1>4

\* What the time does in a step of a running process.
Runs == Offset' = Offset /\ UpTime' >= UpTime /\ CheckIsNotAhead'

\* No promise is made, some may go, and those that stay are held.
LEMMA StillHeld ==
    ASSUME ClockType, ClockType', PromiseInv, Runs, NEW h,
           h = IF loaded' THEN userHistory_' ELSE historyTable',
           \A u \in DOMAIN promise' : /\ u \in DOMAIN promise /\ promise'[u] = promise[u]
                                      /\ u \in DOMAIN h /\ Promised(h[u], promise[u])
    PROVE  PromiseInv'
<1>1. Entries' = h
    BY DEF Entries
<1>2. UpTime \in Int /\ Offset \in Int /\ UpTime' \in Int
    <2>1. UpTime \in Int /\ Offset \in Int
        BY TimesAreInts
    <2>2. UpTime' \in Int
        BY DEF ClockType, UpTime
    <2> QED BY <2>1, <2>2
<1>3. PromiseType'
    BY DEF PromiseInv, PromiseType
<1>4. ASSUME NEW u \in DOMAIN promise'
      PROVE  u \in DOMAIN Entries' /\ Promised(Entries[u], promise[u])'
    <2>1. u \in DOMAIN h /\ Promised(h[u], promise[u]) /\ promise'[u] = promise[u] /\ Entries'[u] = h[u]
        BY <1>1
    <2>2. promise[u].alive \in Int /\ promise[u].daily \in Int
        BY DEF PromiseInv, PromiseType
    <2>3. /\ promise[u].alive > UpTime' => promise[u].alive > UpTime
          /\ promise[u].daily > UpTime' => promise[u].daily > UpTime
        BY <1>2, <2>2 DEF Runs
    <2> QED BY <1>1, <2>1, <2>3 DEF Promised, Holds, Runs
<1>5. Held(Entries)'
    BY <1>4 DEF Held
<1>6. UpTime' >= 0
    BY <1>2 DEF Runs, PromiseInv
<1> QED BY <1>3, <1>5, <1>6 DEF PromiseInv, Runs

-----------------------------------------------------------------------------
(* The time goes on and the entries keep what was promised                 *)

LEMMA TimeRuns ==
    ASSUME ClockInv, TimesType, CheckIsNotAhead, [Next]_vars,
           ~ \E reboot, on \in BOOLEAN : Restart(reboot, on)
    PROVE  Runs
<1> USE DEF device, tasks
<1>t. ClockType /\ now \in Int /\ past \in Int
    BY DEF ClockInv, ClockType
<1>0. ASSUME UNCHANGED <<bootBasedTimeStamp_, bootBasedDuration_, now, past>>,
             \/ UNCHANGED worker
             \/ worker' = IdleWorker
             \/ \E todo, key : worker' = [pc |-> "check", todo |-> todo, at |-> now, key |-> key]
             \/ \E todo : worker' = [worker EXCEPT !.todo = todo]
      PROVE  Runs
    <2>1. worker'.pc = "check" => worker'.at = now \/ (worker.pc = "check" /\ worker'.at = worker.at)
        <3>1. CASE worker' = IdleWorker
            BY <3>1 DEF IdleWorker
        <3>2. CASE \E todo, key : worker' = [pc |-> "check", todo |-> todo, at |-> now, key |-> key]
            BY <3>2
        <3>3. CASE \E todo : worker' = [worker EXCEPT !.todo = todo]
            BY <3>3 DEF TimesType
        <3> QED BY <1>0, <3>1, <3>2, <3>3
    <2>2. CheckIsNotAhead'
        BY <1>0, <1>t, <2>1 DEF CheckIsNotAhead
    <2> QED BY <1>0, <1>t, <2>2 DEF Runs, Offset, UpTime
<1>1. CASE Tick
    <2>1. now' = now + 1 /\ UNCHANGED <<clock, worker, past>>
        BY <1>1 DEF Tick
    <2>2. CheckIsNotAhead'
        BY <2>1, <1>t DEF CheckIsNotAhead, TimesType
    <2> QED BY <1>t, <2>1, <2>2 DEF Runs, Offset, UpTime, clock
<1>2. ASSUME NEW u \in Uid, NEW msg \in Message, NEW stamp \in Stamp, ReportEvent(u, msg, stamp)
      PROVE  Runs
    BY <1>0, <1>2 DEF ReportEvent, clock
<1>3. ASSUME NEW b \in Bundle, NEW group \in SetGroups, NEW f \in BOOLEAN, SetAppGroup(b, group, f)
      PROVE  Runs
    BY <1>0, <1>3 DEF SetAppGroup, clock
<1>4. ASSUME NEW on \in BOOLEAN, OnScreenChanged(on) PROVE Runs
    BY <1>0, <1>4 DEF OnScreenChanged, clock
<1>5. ASSUME ScreenTask \/ ShutDown PROVE Runs
    <2>1. PICK on \in BOOLEAN, t \in Int, s \in BOOLEAN : UpdateBootBasedAndScreenTime(on, t, s)
        <3>1. CASE ScreenTask
            <4>1. screenTasks # << >>
                BY <3>1 DEF ScreenTask
            <4>2. Head(screenTasks) \in [on : BOOLEAN, at : Int]
                BY <1>t, <4>1, HeadTailProperties DEF ClockType
            <4> QED BY <3>1, <4>2 DEF ScreenTask
        <3>2. CASE ShutDown
            BY <1>t, <3>2 DEF ShutDown
        <3> QED BY <1>5, <3>1, <3>2
    <2>2. bootBasedDuration_' - bootBasedTimeStamp_' = bootBasedDuration_ - bootBasedTimeStamp_
        BY <2>1, AddUpKeepsDifference
    <2>3. UNCHANGED <<worker, now, past>>
        BY <1>5 DEF ScreenTask, ShutDown
    <2> QED BY <1>t, <2>2, <2>3 DEF Runs, Offset, UpTime, CheckIsNotAhead
<1>6. CASE OnStatsReload \/ OneTimeCheckBegin \/ PeriodCheck \/ CheckSave \/ OnUserSwitched
    <2>1. CASE OnStatsReload
        BY <1>0, <2>1 DEF OnStatsReload, clock
    <2>2. CASE OneTimeCheckBegin
        BY <1>0, <2>2 DEF OneTimeCheckBegin, clock
    <2>3. CASE PeriodCheck
        BY <1>0, <2>3 DEF PeriodCheck, clock
    <2>4. CASE CheckSave
        BY <1>0, <2>4 DEF CheckSave, clock
    <2>5. CASE OnUserSwitched
        BY <1>0, <2>5 DEF OnUserSwitched, clock
    <2> QED BY <1>6, <2>1, <2>2, <2>3, <2>4, <2>5
<1>7. ASSUME NEW c \in checkTasks, CheckBegin(c) PROVE Runs
    BY <1>0, <1>7 DEF CheckBegin, clock
<1>8. ASSUME NEW u \in Uid, CheckAndUpdateGroup(u) PROVE Runs
    BY <1>0, <1>8 DEF CheckAndUpdateGroup, clock
<1>9. ASSUME NEW u \in Uid, BundleRemoved(u) \/ OnBundleUninstalled(u) PROVE Runs
    BY <1>0, <1>9 DEF BundleRemoved, OnBundleUninstalled, clock
<1>10. CASE UNCHANGED vars
    BY <1>0, <1>10 DEF vars, clock
<1> QED BY <1>1, <1>2, <1>3, <1>4, <1>5, <1>6, <1>7, <1>8, <1>9, <1>10 DEF Next

\* A step that leaves entries, rows and promises alone.
LEMMA NothingHeld ==
    ASSUME ClockType, ClockType', PromiseInv, Runs, UNCHANGED <<loaded, userHistory_, historyTable, promise>>
    PROVE  PromiseInv'
<1>1. Entries = IF loaded' THEN userHistory_' ELSE historyTable'
    BY DEF Entries
<1>2. \A u \in DOMAIN promise' : /\ u \in DOMAIN promise /\ promise'[u] = promise[u]
                                 /\ u \in DOMAIN Entries /\ Promised(Entries[u], promise[u])
    BY DEF PromiseInv, Held
<1> QED BY <1>1, <1>2, StillHeld

\* A step that replaces the entries by others that hold the same promises.
LEMMA ReplaceHeld ==
    ASSUME ClockType, ClockType', PromiseInv, Runs, NEW h, Held(h), userHistory_' = h, loaded' = TRUE,
           UNCHANGED promise
    PROVE  PromiseInv'
<1>1. \A u \in DOMAIN promise' : /\ u \in DOMAIN promise /\ promise'[u] = promise[u]
                                 /\ u \in DOMAIN h /\ Promised(h[u], promise[u])
    BY DEF Held
<1> QED BY <1>1, StillHeld

\* A step that saves entries that hold them.
LEMMA SaveHeld ==
    ASSUME ClockType, ClockType', PromiseInv, Runs, NEW h, IsTable(h), Held(h), PutBundleHistoryData(h),
           loaded' = TRUE, UNCHANGED promise
    PROVE  PromiseInv'
<1>1. \A u \in DOMAIN promise' : /\ u \in DOMAIN promise /\ promise'[u] = promise[u]
                                 /\ u \in DOMAIN userHistory_' /\ Promised(userHistory_'[u], promise[u])
    BY SavedHeld
<1> QED BY <1>1, StillHeld

\* What the steps of a running process start from.
Running == ClockType /\ ClockType' /\ TimesInv /\ HistoryInv /\ PromiseInv /\ Runs

LEMMA EventHeld ==
    ASSUME Running, NEW u \in Uid, NEW msg \in Message, NEW stamp \in Stamp, ReportEvent(u, msg, stamp)
    PROVE  PromiseInv'
<1> USE DEF Running
<1> DEFINE h == EntriesWith({u}, now)
           q == FirstUse(h[u], stamp)
           f == [h EXCEPT ![u] = q]
           r == ReportUsage(q, msg)
           g == [h EXCEPT ![u] = r]
           p == Promise(u, msg)
<1>1. /\ Good(h) /\ u \in DOMAIN h
      /\ h[u] \in Entry /\ q \in Entry
      /\ IF q.reasonInGroup_ = "forced" THEN userHistory_' = f /\ UNCHANGED promise
         ELSE userHistory_' = g /\ promise' = Override([v \in {u} |-> p], promise)
    BY ReportedEntries
<1>7. h = EntriesWith({u}, now) /\ q = FirstUse(h[u], stamp)
    OBVIOUS
<1> HIDE DEF h, q
<1>2. SameGroup(q, h[u]) /\ q.aliveTimeout = h[u].aliveTimeout /\ q.dailyTimeout = h[u].dailyTimeout
    BY <1>1, <1>7, FirstUseMoves
<1>3. Held(h)
    BY <1>7, EntriesWithHeld DEF PromiseInv
<1>4. loaded' = TRUE /\ UNCHANGED <<bootBasedTimeStamp_, bootBasedDuration_, now, past>>
    BY DEF ReportEvent, clock, device
<1>0. u \in DOMAIN promise => Promised(q, promise[u])
    BY <1>2, <1>3 DEF Held, Promised, Holds, SameGroup
<1>5. CASE q.reasonInGroup_ = "forced"
    <2>1. DOMAIN f = DOMAIN h /\ \A v \in DOMAIN h : f[v] = IF v = u THEN q ELSE h[v]
        BY <1>1 DEF Good, IsTable
    <2>2. userHistory_' = f /\ UNCHANGED promise
        BY <1>1, <1>5
    <2> HIDE DEF f
    <2>3. Held(f)
        BY <1>0, <1>3, <2>1 DEF Held
    <2> QED BY <1>4, <2>2, <2>3, ReplaceHeld
<1>6. CASE q.reasonInGroup_ # "forced"
    <2>1. IsTable(h)
        BY <1>1 DEF Good
    <2>2. p \in [alive : Int, daily : Int] /\ Promised(r, p)
        <3>1. UpTime >= 0 /\ PromiseType /\ TimesType
            BY DEF PromiseInv, TimesInv
        <3> QED BY <1>0, <1>1, <1>6, <3>1, ReportKeepsPromise
    <2>3. userHistory_' = g /\ promise' = Override([v \in {u} |-> p], promise)
        BY <1>1, <1>6
    <2> HIDE DEF r, p
    <2>4. DOMAIN g = DOMAIN h /\ \A v \in DOMAIN h : g[v] = IF v = u THEN r ELSE h[v]
        BY <2>1 DEF IsTable
    <2>5. /\ DOMAIN promise' = {u} \cup DOMAIN promise
          /\ \A v \in DOMAIN promise' : promise'[v] = IF v = u THEN p ELSE promise[v]
        BY <2>3 DEF Override
    <2>6. UpTime' = UpTime /\ Offset' = Offset
        BY <1>4 DEF UpTime, Offset
    <2>7. ASSUME NEW v \in DOMAIN promise'
          PROVE  /\ promise'[v] \in [alive : Int, daily : Int]
                 /\ v \in DOMAIN userHistory_' /\ Promised(userHistory_'[v], promise'[v])
        <3>1. CASE v = u
            BY <1>1, <2>2, <2>3, <2>4, <2>5, <3>1
        <3>2. CASE v # u
            <4>1. v \in DOMAIN promise /\ promise'[v] = promise[v]
                BY <2>5, <2>7, <3>2
            <4>2. v \in DOMAIN h /\ Promised(h[v], promise[v])
                BY <1>3, <4>1 DEF Held
            <4> QED BY <2>3, <2>4, <3>2, <4>1, <4>2 DEF PromiseInv, PromiseType
        <3> QED BY <3>1, <3>2
    <2>8. Entries' = userHistory_'
        BY <1>4 DEF Entries
    <2>9. Held(Entries)'
        BY <2>6, <2>7, <2>8 DEF Held, Promised, Holds
    <2>10. PromiseType'
        BY <2>7 DEF PromiseType
    <2> QED BY <2>6, <2>9, <2>10 DEF PromiseInv, Runs
<1> QED BY <1>5, <1>6

LEMMA CheckHeld ==
    ASSUME Running, NEW u \in Uid, CheckAndUpdateGroup(u)
    PROVE  PromiseInv'
<1> USE DEF Running
<1> DEFINE h == EntriesWith({u}, worker.at)
           e == CheckAndUpdate(h[u], worker.at)
           g == [h EXCEPT ![u] = e]
<1>1. worker.at \in Int /\ worker.at <= now /\ {u} \in SUBSET Uid
    BY DEF CheckAndUpdateGroup, TimesInv, TimesType, PromiseInv, CheckIsNotAhead
<1>2. IsTable(h)
    BY <1>1, EntriesWithGood DEF TimesInv, Good
<1>3. Held(h)
    BY EntriesWithHeld DEF PromiseInv
<1>4. userHistory_' = g /\ loaded' = TRUE /\ UNCHANGED promise
    BY DEF CheckAndUpdateGroup
<1> HIDE DEF h
<1>5. u \in DOMAIN promise => Promised(e, promise[u])
    <2>1. u \in DOMAIN promise => h[u] \in Entry /\ Promised(h[u], promise[u])
        BY <1>2, <1>3 DEF Held, IsTable
    <2>2. u \in DOMAIN promise => promise[u] \in [alive : Int, daily : Int]
        BY DEF PromiseInv, PromiseType
    <2> QED BY <1>1, <2>1, <2>2, CheckKeepsPromise DEF TimesInv
<1>6. DOMAIN g = DOMAIN h /\ \A v \in DOMAIN h : g[v] = IF v = u THEN e ELSE h[v]
    BY <1>2 DEF IsTable
<1> HIDE DEF g, e
<1>7. Held(g)
    BY <1>3, <1>5, <1>6 DEF Held
<1> QED BY <1>4, <1>7, ReplaceHeld

LEMMA CheckedAllHeld ==
    ASSUME Running
    PROVE  Held(CheckedAll)
<1> USE DEF Running
<1> DEFINE h == EntriesWith(AllBundles, now)
           g == CheckedAll
<1>1. now \in Int /\ AllBundles \in SUBSET Uid
    BY UidAssumption DEF ClockType, AllBundles
<1>2. IsTable(h)
    BY <1>1, EntriesWithGood DEF TimesInv, Good
<1>3. Held(h)
    BY EntriesWithHeld DEF PromiseInv
<1>4. g = [u \in DOMAIN h |-> IF u \in AllBundles THEN CheckAndUpdate(h[u], now) ELSE h[u]]
    BY DEF CheckedAll
<1> HIDE DEF h, g
<1>5. ASSUME NEW u \in DOMAIN promise
      PROVE  u \in DOMAIN g /\ Promised(g[u], promise[u])
    <2>1. u \in DOMAIN h /\ h[u] \in Entry /\ Promised(h[u], promise[u])
        BY <1>2, <1>3 DEF Held, IsTable
    <2>2. promise[u] \in [alive : Int, daily : Int]
        BY DEF PromiseInv, PromiseType
    <2>3. Promised(CheckAndUpdate(h[u], now), promise[u])
        BY <1>1, <2>1, <2>2, CheckKeepsPromise DEF TimesInv
    <2> QED BY <1>4, <2>1, <2>3
<1> QED BY <1>5 DEF Held, g

LEMMA SwitchOrShutDownHeld ==
    ASSUME Running, OnUserSwitched \/ ShutDown
    PROVE  PromiseInv'
<1> USE DEF Running
<1>1. /\ loaded' = (loaded \/ AllBundles # {})
      /\ PutBundleHistoryData(IF loaded' THEN CheckedAll ELSE <<>>)
      /\ UNCHANGED promise
    BY DEF OnUserSwitched, ShutDown
<1>2. CASE loaded'
    <2>1. IsTable(CheckedAll)
        BY CheckedAllGood DEF Good
    <2>2. PutBundleHistoryData(CheckedAll) /\ loaded' = TRUE
        BY <1>1, <1>2
    <2> QED BY <1>1, <2>1, <2>2, CheckedAllHeld, SaveHeld
<1>3. CASE ~loaded'
    <2>1. PutBundleHistoryData(<<>>) /\ ~loaded
        BY <1>1, <1>3
    <2>2. historyTable' = Override(Saved(Restrict(<<>>, {})), historyTable)
        <3>1. {u \in DOMAIN <<>> : (<<>>)[u].isChanged_} = {}
            OBVIOUS
        <3> QED BY <2>1, <3>1 DEF PutBundleHistoryData
    <2>3. DOMAIN Saved(Restrict(<<>>, {})) = {}
        BY DEF Saved, Restrict
    <2>4. DOMAIN historyTable' = DOMAIN historyTable /\ \A u \in DOMAIN historyTable : historyTable'[u] = historyTable[u]
        BY <2>2, <2>3 DEF Override
    <2>5. \A u \in DOMAIN promise' : /\ u \in DOMAIN promise /\ promise'[u] = promise[u]
                                     /\ u \in DOMAIN historyTable' /\ Promised(historyTable'[u], promise[u])
        BY <1>1, <2>1, <2>4 DEF PromiseInv, Held, Entries
    <2> QED BY <1>3, <2>5, StillHeld
<1> QED BY <1>2, <1>3

LEMMA SetHeld ==
    ASSUME Running, NEW b \in Bundle, NEW group \in SetGroups, NEW isFlush \in BOOLEAN,
           SetAppGroup(b, group, isFlush)
    PROVE  PromiseInv'
<1> USE DEF Running
<1> DEFINE h == [u \in DOMAIN userHistory_ |->
                    IF u \in {v \in DOMAIN userHistory_ : BundleOf[v] = b}
                    THEN SetGroup(userHistory_[u], group, "forced") ELSE userHistory_[u]]
           done == IsBundleInstalled(b) /\ loaded
<1>1. /\ IF ~done THEN UNCHANGED <<userHistory_, historyTable>>
         ELSE IF isFlush /\ h # userHistory_ THEN PutBundleHistoryData(h)
         ELSE userHistory_' = h /\ UNCHANGED historyTable
      /\ UNCHANGED <<loaded, promise>>
    BY DEF SetAppGroup
<1>2. CASE ~done
    BY <1>1, <1>2, NothingHeld
<1>3. CASE done
    <2>1. Entries = userHistory_ /\ loaded' = TRUE
        BY <1>1, <1>3 DEF Entries, HistoryInv, HistoryType
    <2>2. Held(userHistory_) /\ IsTable(userHistory_)
        BY <2>1 DEF PromiseInv, HistoryInv, HistoryType
    <2>3. \A u \in DOMAIN userHistory_ : userHistory_[u] \in Entry
        BY <2>2 DEF IsTable
    <2>4. \A u \in DOMAIN userHistory_ :
            LET r == SetGroup(userHistory_[u], group, "forced") IN r \in Entry /\ r.reasonInGroup_ = "forced"
        BY <2>3, SetGroupMarks DEF Group, Reason
    <2>5. IsTable(h)
        BY <2>2, <2>3, <2>4 DEF IsTable
    <2>6. /\ DOMAIN h = DOMAIN userHistory_
          /\ \A u \in DOMAIN userHistory_ : h[u] = userHistory_[u] \/ h[u].reasonInGroup_ = "forced"
        BY <2>4
    <2> HIDE DEF h
    <2>7. Held(h)
        BY <2>2, <2>6 DEF Held, Promised
    <2>8. CASE isFlush /\ h # userHistory_
        BY <1>1, <1>3, <2>1, <2>5, <2>7, <2>8, SaveHeld
    <2>9. CASE ~(isFlush /\ h # userHistory_)
        BY <1>1, <1>3, <2>1, <2>7, <2>9, ReplaceHeld
    <2> QED BY <2>8, <2>9
<1> QED BY <1>2, <1>3

LEMMA SaveOrLoadHeld ==
    ASSUME Running, CheckSave \/ PeriodCheck
    PROVE  PromiseInv'
<1> USE DEF Running
<1>1. CASE PeriodCheck
    <2>1. userHistory_' = Entries /\ loaded' = TRUE /\ UNCHANGED promise /\ Held(Entries)
        BY <1>1 DEF PeriodCheck, PromiseInv
    <2> QED BY <2>1, ReplaceHeld
<1>2. CASE CheckSave
    <2>1. /\ IF loaded THEN PutBundleHistoryData(userHistory_) ELSE UNCHANGED <<userHistory_, historyTable>>
          /\ UNCHANGED <<loaded, promise>>
        BY <1>2 DEF CheckSave
    <2>2. CASE loaded
        <3>1. Held(userHistory_) /\ IsTable(userHistory_) /\ loaded' = TRUE
            BY <2>1, <2>2 DEF PromiseInv, Entries, HistoryInv, HistoryType
        <3> QED BY <2>1, <2>2, <3>1, SaveHeld
    <2>3. CASE ~loaded
        BY <2>1, <2>3, NothingHeld
    <2> QED BY <2>2, <2>3
<1> QED BY <1>1, <1>2

LEMMA UninstalledHeld ==
    ASSUME Running, NEW u \in Uid, OnBundleUninstalled(u)
    PROVE  PromiseInv'
<1> USE DEF Running
<1> DEFINE gone == {v \in Uid : BundleOf[v] = BundleOf[u]}
<1>1. CASE loaded
    <2>1. /\ userHistory_' = Restrict(userHistory_, DOMAIN userHistory_ \ gone)
          /\ promise' = Restrict(promise, DOMAIN promise \ gone)
          /\ loaded'
        BY <1>1 DEF OnBundleUninstalled
    <2> HIDE DEF gone
    <2>2. DOMAIN promise' = DOMAIN promise \ gone /\ \A v \in DOMAIN promise' : promise'[v] = promise[v]
        BY <2>1 DEF Restrict
    <2>3. /\ DOMAIN userHistory_' = DOMAIN userHistory_ \ gone
          /\ \A v \in DOMAIN userHistory_' : userHistory_'[v] = userHistory_[v]
        BY <2>1 DEF Restrict
    <2>4. Held(userHistory_)
        BY <1>1 DEF PromiseInv, Entries
    <2>5. \A v \in DOMAIN promise' : /\ v \in DOMAIN promise /\ promise'[v] = promise[v]
                                     /\ v \in DOMAIN userHistory_' /\ Promised(userHistory_'[v], promise[v])
        BY <2>2, <2>3, <2>4 DEF Held
    <2> QED BY <2>1, <2>5, StillHeld
<1>2. CASE ~loaded
    BY <1>2, NothingHeld DEF OnBundleUninstalled
<1> QED BY <1>1, <1>2

\* A process that starts again holds what was saved, unless up time was lost.
LEMMA RestartHeld ==
    ASSUME ClockType, ClockType', HistoryInv, PromiseInv,
           NEW reboot \in BOOLEAN, NEW on \in BOOLEAN, Restart(reboot, on)
    PROVE  PromiseInv'
<1>1. /\ now' = (IF reboot THEN 1 ELSE now)
      /\ past' = (IF reboot THEN past + now - 1 ELSE past)
      /\ exact' = (exact /\ bootBasedTimeStamp_ = now)
      /\ bootBasedTimeStamp_' = now' /\ bootBasedDuration_' = bootBasedDuration_
      /\ loaded' = FALSE /\ historyTable' = historyTable /\ worker' = IdleWorker
    BY DEF Restart
<1>2. promise' = IF exact' THEN Restrict(promise, {u \in DOMAIN promise :
                                   u \notin DOMAIN userHistory_ \/ ~userHistory_[u].isChanged_})
                          ELSE <<>>
    BY DEF Restart
<1>3. UpTime' = UpTime /\ UpTime \in Int
    BY <1>1 DEF ClockType, UpTime
<1>4. CheckIsNotAhead'
    BY <1>1 DEF CheckIsNotAhead, IdleWorker
<1>5. CASE exact'
    <2>0. bootBasedTimeStamp_ = now
        BY <1>1, <1>5, Zenon
    <2>1. Offset' = Offset
        BY <1>1, <2>0 DEF ClockType, Offset
    <2>2. Runs
        BY <1>3, <1>4, <2>1 DEF Runs
    <2>3. \A u \in DOMAIN promise' : /\ u \in DOMAIN promise /\ promise'[u] = promise[u]
                                     /\ u \notin DOMAIN userHistory_ \/ ~userHistory_[u].isChanged_
        BY <1>2, <1>5 DEF Restrict
    <2>4. ASSUME NEW u \in DOMAIN promise'
          PROVE  u \in DOMAIN historyTable /\ Promised(historyTable[u], promise[u])
        <3>1. u \in DOMAIN Entries /\ Promised(Entries[u], promise[u])
            BY <2>3 DEF PromiseInv, Held
        <3>2. CASE loaded
            <4>1. Entries = userHistory_ /\ ~userHistory_[u].isChanged_
                BY <2>3, <3>1, <3>2 DEF Entries
            <4>2. userHistory_[u].reasonInGroup_ # "default"
                BY <3>1, <4>1 DEF Promised
            <4>3. u \in DOMAIN historyTable /\ RowAgrees(historyTable[u], userHistory_[u])
                BY <3>1, <4>1, <4>2 DEF HistoryInv, UnsavedEntryIsMarked
            <4>4. userHistory_[u] \in Entry
                BY <3>1, <4>1 DEF HistoryInv, HistoryType, IsTable
            <4> QED BY <3>1, <4>1, <4>3, <4>4 DEF RowAgrees, Promised, Holds, Entry
        <3>3. CASE ~loaded
            BY <3>1, <3>3 DEF Entries
        <3> QED BY <3>2, <3>3
    <2>5. \A u \in DOMAIN promise' : /\ u \in DOMAIN promise /\ promise'[u] = promise[u]
                                     /\ u \in DOMAIN historyTable' /\ Promised(historyTable'[u], promise[u])
        BY <1>1, <2>3, <2>4
    <2> QED BY <1>1, <2>2, <2>5, StillHeld
<1>6. CASE ~exact'
    <2>1. DOMAIN promise' = {}
        BY <1>2, <1>6
    <2> QED BY <1>3, <1>4, <2>1 DEF PromiseInv, PromiseType, Held
<1> QED BY <1>5, <1>6

LEMMA PromiseStep == IInv /\ PromiseInv /\ [Next]_vars => PromiseInv'
<1> SUFFICES ASSUME IInv, PromiseInv, [Next]_vars PROVE PromiseInv'
    OBVIOUS
<1>0. ClockInv /\ ClockType /\ TimesInv /\ HistoryInv
    BY DEF IInv, TypeOK, ClockInv, TimesInv, HistoryInv
<1>1. ClockType'
    BY NextIInv DEF IInv, TypeOK
<1>2. ASSUME NEW reboot \in BOOLEAN, NEW on \in BOOLEAN, Restart(reboot, on) PROVE PromiseInv'
    BY <1>0, <1>1, <1>2, RestartHeld
<1>3. CASE ~ \E reboot, on \in BOOLEAN : Restart(reboot, on)
    <2>1. Running
        BY <1>0, <1>1, <1>3, TimeRuns DEF Running, TimesInv, PromiseInv
    <2> USE DEF Running
    <2>2. CASE Tick \/ OnStatsReload \/ ScreenTask \/ OneTimeCheckBegin
        BY <2>1, <2>2, NothingHeld DEF Tick, OnStatsReload, ScreenTask, OneTimeCheckBegin
    <2>3. ASSUME NEW on \in BOOLEAN, OnScreenChanged(on) PROVE PromiseInv'
        BY <2>1, <2>3, NothingHeld DEF OnScreenChanged
    <2>4. ASSUME NEW c \in checkTasks, CheckBegin(c) PROVE PromiseInv'
        BY <2>1, <2>4, NothingHeld DEF CheckBegin
    <2>5. ASSUME NEW u \in Uid, BundleRemoved(u) PROVE PromiseInv'
        BY <2>1, <2>5, NothingHeld DEF BundleRemoved
    <2>6. CASE UNCHANGED vars
        BY <2>1, <2>6, NothingHeld DEF vars
    <2> HIDE DEF Running
    <2> QED BY <1>3, <2>1, <2>2, <2>3, <2>4, <2>5, <2>6, EventHeld, SetHeld, SaveOrLoadHeld, CheckHeld,
               SwitchOrShutDownHeld, UninstalledHeld DEF Next
<1> QED BY <1>2, <1>3

\* Late checks, checks of other threads, shorter events, screen changes, saves and
\* reboots: until the time the last events promised, a bundle that was used or seen
\* stays in the group they gave it, unless a client sets another one.
THEOREM PromisesAreKept == Spec => []PromiseKept
<1>1. Init => PromiseInv
    <2> SUFFICES ASSUME Init PROVE PromiseInv
        OBVIOUS
    <2>1. DOMAIN promise = {} /\ now = 1 /\ past = 0 /\ worker.pc # "check"
        BY DEF Init, IdleWorker
    <2> QED BY <2>1 DEF PromiseInv, PromiseType, Held, CheckIsNotAhead, UpTime
<1>2. IInv /\ PromiseInv => PromiseKept
    <2> SUFFICES ASSUME IInv, PromiseInv, NEW u \in DOMAIN userHistory_ \cap DOMAIN promise,
                        userHistory_[u].reasonInGroup_ # "forced"
                 PROVE  /\ promise[u].alive > UpTime => userHistory_[u].currentGroup_ <= ALIVE
                        /\ promise[u].daily > UpTime => userHistory_[u].currentGroup_ <= DAILY
        BY DEF PromiseKept
    <2>1. Entries = userHistory_
        BY DEF IInv, EntriesAreLoaded, Entries
    <2> QED BY <2>1 DEF PromiseInv, Held, Promised, Holds
<1> QED BY InitIInv, NextIInv, PromiseStep, <1>1, <1>2, PTL DEF Spec
=============================================================================
