------------------------- MODULE AppObserversProofs -------------------------
(***************************************************************************)
(* Proofs about AppObservers, for any number of bundles, abilities and     *)
(* windows and for every order of their callbacks: no window is taken for  *)
(* visible for good that is not, and a bundle whose callbacks did not meet *)
(* is reported and tracked as what it is when everything was handled.      *)
(***************************************************************************)
EXTENDS AppObservers, FiniteSetTheorems, TLAPS

-----------------------------------------------------------------------------
(* Induction, and folds along a sequence                                   *)

\* A set of natural numbers with a member has a least one.
LEMMA Least ==
    ASSUME NEW S, S \subseteq Nat, S # {}
    PROVE  \E n \in S : \A m \in S : n <= m
<1> DEFINE R == {p \in Nat \X Nat : p[1] < p[2]}
<1>1. IsWellFoundedOn(R, Nat)
    BY NatLessThanWellFounded DEF OpToRel
<1>2. \A m, n \in Nat : <<m, n>> \in R <=> m < n
    OBVIOUS
<1> HIDE DEF R
<1>3. PICK n \in S : \A m \in S : ~ (<<m, n>> \in R)
    BY <1>1, WFMin
<1>4. \A m \in S : n <= m
  <2> TAKE m \in S
  <2>1. ~(m < n)
    BY <1>2, <1>3
  <2> QED BY <2>1
<1> QED BY <1>4

\* So a set that holds 0 and the successor of each of its members holds every number.
LEMMA Induction ==
    ASSUME NEW S, 0 \in S, \A n \in Nat : n \in S => n + 1 \in S
    PROVE  \A n \in Nat : n \in S
<1> SUFFICES ASSUME NEW k \in Nat, k \notin S PROVE FALSE
    OBVIOUS
<1>1. PICK n \in Nat \ S : \A m \in Nat \ S : n <= m
    BY Least
<1>2. n # 0 /\ n - 1 \in Nat /\ n - 1 \in S
    BY <1>1
<1> QED BY <1>2

\* The largest of 1..k is k, ...
LEMMA MaxOfInterval ==
    ASSUME NEW k \in Nat, NEW t, t \subseteq 1..k, k \in t
    PROVE  Max(t) = k
<1>1. \A y \in t : k >= y
    OBVIOUS
<1>2. \A x \in t : (\A y \in t : x >= y) => x = k
    OBVIOUS
<1> QED BY <1>1, <1>2 DEF Max

\* ... and one above all members of a set is the largest when it is added.
LEMMA MaxOfLarger ==
    ASSUME NEW k \in Nat, NEW t, t \subseteq 1..(k + 1), k + 1 \in t
    PROVE  Max(t) = k + 1
<1>1. k + 1 \in Nat
    OBVIOUS
<1> QED BY <1>1, MaxOfInterval

\* f holds the maps after each step of the loop over s.
Steps(f, map, s, n) ==
    /\ f[0] = map
    /\ \A k \in 1..n : f[k] = HandleWindow(f[k - 1], s[k])
    /\ HandleWindows(map, s) = f[n]

\* A fold over the windows of a callback is a chain of single steps of the loop.
LEMMA FoldSteps ==
    ASSUME NEW map, NEW s, NEW n \in Nat, DOMAIN s = 1..n
    PROVE  \E f : Steps(f, map, s, n)
<1> DEFINE Body(it, D) == [t \in SUBSET D |->
                IF t = {} THEN map ELSE HandleWindow(it[t \ {Max(t)}], s[Max(t)])]
           iter == CHOOSE it : it = Body(it, DOMAIN s)
           Known == {k \in Nat : \E it : it = Body(it, 1..k)}
<1>1. HandleWindows(map, s) = iter[DOMAIN s]
    BY Zenon DEF HandleWindows, FoldLeft, MapThenFoldSet
<1>2. 0 \in Known
  <2>1. [t \in SUBSET (1..0) |-> map] = Body([t \in SUBSET (1..0) |-> map], 1..0)
    OBVIOUS
  <2> QED BY <2>1
<1>3. ASSUME NEW k \in Nat, k \in Known
      PROVE  k + 1 \in Known
  <2>1. PICK g : g = Body(g, 1..k)
    BY <1>3
  <2> DEFINE h == [t \in SUBSET (1..(k + 1)) |->
                     IF k + 1 \notin t THEN g[t] ELSE HandleWindow(g[t \ {k + 1}], s[k + 1])]
  <2>2. ASSUME NEW t \in SUBSET (1..(k + 1)), t # {}
        PROVE  h[t] = HandleWindow(h[t \ {Max(t)}], s[Max(t)])
    <3>1. CASE k + 1 \in t
      <4>1. Max(t) = k + 1
        BY <3>1, MaxOfLarger
      <4>2. h[t \ {k + 1}] = g[t \ {k + 1}]
        OBVIOUS
      <4> QED BY <3>1, <4>1, <4>2
    <3>2. CASE k + 1 \notin t
      <4>1. t \in SUBSET (1..k)
        BY <3>2
      <4>2. g[t] = HandleWindow(g[t \ {Max(t)}], s[Max(t)])
        BY <2>1, <2>2, <4>1
      <4>3. h[t \ {Max(t)}] = g[t \ {Max(t)}]
        BY <3>2
      <4> QED BY <3>2, <4>2, <4>3
    <3> QED BY <3>1, <3>2
  <2>3. h[{}] = map
    <3>1. g[{}] = map
      BY <2>1
    <3> QED BY <3>1
  <2> HIDE DEF h
  <2>4. h = Body(h, 1..(k + 1))
    <3>1. h = [t \in SUBSET (1..(k + 1)) |-> h[t]]
      BY DEF h
    <3>2. h = [t \in SUBSET (1..(k + 1)) |->
                IF t = {} THEN map ELSE HandleWindow(h[t \ {Max(t)}], s[Max(t)])]
      BY <2>2, <2>3, <3>1, Zenon
    <3> QED BY <3>2
  <2>5. \E it : it = Body(it, 1..(k + 1))
    <3> HIDE DEF Body
    <3> QED BY <2>4
  <2>6. k + 1 \in Nat
    OBVIOUS
  <2> HIDE DEF Body
  <2> QED BY <2>5, <2>6, Zenon
<1>4. n \in Known
  <2> HIDE DEF Known
  <2> QED BY <1>2, <1>3, Induction
<1>5. iter = Body(iter, DOMAIN s)
    BY <1>4
<1> DEFINE f == [k \in 0..n |-> iter[1..k]]
<1>6. f[0] = map
  <2>1. iter[{}] = map
    BY <1>5
  <2>2. 1..0 = {}
    OBVIOUS
  <2> QED BY <2>1, <2>2
<1>7. ASSUME NEW k \in 1..n
      PROVE  f[k] = HandleWindow(f[k - 1], s[k])
  <2> DEFINE t == 1..k
  <2>1. t \in SUBSET DOMAIN s /\ t # {} /\ Max(t) = k /\ t \ {k} = 1..(k - 1)
    <3>1. t \subseteq 1..k /\ k \in t /\ k \in Nat
      OBVIOUS
    <3>2. Max(t) = k
      BY <3>1, MaxOfInterval
    <3>3. t \ {k} = 1..(k - 1) /\ t \subseteq 1..n
      OBVIOUS
    <3> QED BY <3>1, <3>2, <3>3
  <2>2. t \in SUBSET DOMAIN s /\ t # {}
    BY <2>1
  <2> HIDE DEF t, iter
  <2>3. iter[t] = HandleWindow(iter[t \ {Max(t)}], s[Max(t)])
    BY <1>5, <2>2
  <2>4. f[k] = iter[t] /\ f[k - 1] = iter[t \ {Max(t)}]
    <3>1. k \in 0..n /\ k - 1 \in 0..n
      OBVIOUS
    <3> QED BY <2>1, <3>1 DEF t
  <2> QED BY <2>1, <2>3, <2>4
<1> HIDE DEF iter
<1>8. f[n] = iter[DOMAIN s]
    OBVIOUS
<1> HIDE DEF f
<1>9. HandleWindows(map, s) = f[n]
    BY <1>1, <1>8
<1> QED BY <1>6, <1>7, <1>9 DEF Steps
-----------------------------------------------------------------------------
(* The state                                                               *)

KnownWindow == Window \ SystemWindow
Change == [window : Window, visible : BOOLEAN]

\* A callback tells of each window once.
Callback == {s \in Seq(Change) : \A i, j \in DOMAIN s : s[i].window = s[j].window => i = j}
Event == {FOREGROUND, BACKGROUND, STOP}
StateCallback == [ability : Ability, event : Event]
WindowMap == UNION {[D -> BOOLEAN] : D \in SUBSET KnownWindow}
ThreadState ==
    [pc : {"idle", "compute", "store", "report", "event"}, todo : SUBSET KnownWindow,
     ability : Ability \cup {None}, isVisible : BOOLEAN, event : Event \cup {None}]

TypeOK ==
    /\ enabled \in BOOLEAN /\ subscribed \in {{}, {"ability"}, Thread}
    /\ abilityWindowMap_ \in WindowMap /\ appVisibilityMap_ \subseteq Bundle
    /\ thread \in [Thread -> ThreadState]
    /\ bundleMgr_ \in {None, "live", "dead"} /\ openTasks \subseteq Ability
    /\ tracked \subseteq Ability /\ lastReport \in [Bundle -> {FOREGROUND, BACKGROUND}]
    /\ windowQueue \in Seq(Callback) /\ stateQueue \in Seq(StateCallback)
    /\ state \in [Ability -> {None, FOREGROUND, BACKGROUND}]
    /\ shown \subseteq Window /\ running \subseteq Ability /\ disturbed \subseteq Bundle
    /\ changes \in 0..MaxChanges /\ deaths \in 0..MaxDeaths

\* What a thread keeps at each of its steps.
Proper(t, th) ==
    /\ t = "window" => th.event = None /\ th.pc # "event"
    /\ t = "ability" => th.todo = {} /\ (th.pc \in {"compute", "store", "report"} => th.event = STOP)
    /\ th.pc = "idle" => th = Idle
    /\ th.pc \in {"store", "report", "event"} => th.ability # None
    /\ th.pc = "compute" => (t = "window" <=> th.ability = None)
    /\ th.pc # "idle" => (t = "ability" <=> th.event # None)
ThreadOK == \A t \in Thread : Proper(t, thread[t])

\* Nothing comes from a manager that is not subscribed to.
Unsubscribed ==
    /\ "window" \notin subscribed =>
        windowQueue = <<>> /\ DOMAIN abilityWindowMap_ = {} /\ thread["window"] = Idle
    /\ "ability" \notin subscribed => stateQueue = <<>> /\ thread["ability"] = Idle
    /\ ~enabled => "window" \notin subscribed /\ thread["ability"].pc \in {"idle", "event"}

-----------------------------------------------------------------------------
(* What is on its way                                                      *)

Mentions(s, w) == \E k \in DOMAIN s : s[k].window = w
Says(s, w, visible) == \E k \in DOMAIN s : s[k] = [window |-> w, visible |-> visible]
Silent(q, w) == \A i \in DOMAIN q : ~Mentions(q[i], w)
LastWord(q, w, visible) ==
    \E i \in DOMAIN q : /\ Says(q[i], w, visible)
                        /\ \A j \in DOMAIN q : j > i => ~Mentions(q[j], w)
Seen(map, w) == w \in DOMAIN map /\ map[w]

\* The last callback about a window says what it is; without one the manager does not
\* take a window for visible that is not.
WindowOK(w) ==
    \/ IF w \in shown THEN LastWord(windowQueue, w, TRUE) ELSE LastWord(windowQueue, w, FALSE)
    \/ Silent(windowQueue, w) /\ (Seen(abilityWindowMap_, w) => w \in shown)
WindowsInv == \A w \in Window : WindowOK(w)

NoEvent(q, a) == \A i \in DOMAIN q : q[i].ability # a
LastEvent(q, a, isFront) ==
    \E i \in DOMAIN q : /\ q[i].ability = a
                        /\ (q[i].event = FOREGROUND) <=> isFront
                        /\ \A j \in DOMAIN q : j > i => q[j].ability # a
InFront(a) == state[a] = FOREGROUND
Handling(a) == thread["ability"].ability = a

\* The last callback about an ability, or the one being handled, says what it is, and only
\* abilities in front have windows on the screen.
StateOK(a) ==
    \/ LastEvent(stateQueue, a, InFront(a))
    \/ /\ NoEvent(stateQueue, a)
       /\ Handling(a) => (thread["ability"].event = FOREGROUND <=> InFront(a))
StatesInv == (\A w \in shown : InFront(OwnerOf[w])) /\ \A a \in Ability : StateOK(a)

-----------------------------------------------------------------------------
(* Bundles whose callbacks did not meet                                    *)

SeenBundle(b) == \E w \in DOMAIN abilityWindowMap_ : BundleOf[OwnerOf[w]] = b /\ abilityWindowMap_[w]
Doing(t, pc, b) ==
    thread[t].pc = pc /\ thread[t].ability # None /\ BundleOf[thread[t].ability] = b
Reporting(b) == \E t \in Thread : Doing(t, "report", b)

\* Every window on the screen is told of or known; the threads work on different bundles;
\* what is stored is right when nobody works on the bundle; a thread keeps what it has
\* found out; what is stored was reported, or is about to be; and an ability comes to front
\* only with a visible window.
ShownIsSeen(b) ==
    \A w \in KnownWindow : BundleOf[OwnerOf[w]] = b /\ Silent(windowQueue, w) =>
        (w \in shown => Seen(abilityWindowMap_, w))
Apart(b) == ~(b \in WorkingOn("window") /\ b \in WorkingOn("ability"))
StoredIsSeen(b) ==
    (\A t \in Thread : b \notin WorkingOn(t)) => (b \in appVisibilityMap_ <=> SeenBundle(b))
FoundIsSeen(b) ==
    \A t \in Thread :
        /\ Doing(t, "store", b) \/ Doing(t, "report", b) => (thread[t].isVisible <=> SeenBundle(b))
        /\ Doing(t, "report", b) \/ Doing(t, "event", b) => (b \in appVisibilityMap_ <=> SeenBundle(b))
ReportedIsStored(b) == ~Reporting(b) => (lastReport[b] = FOREGROUND <=> b \in appVisibilityMap_)
FrontIsSeen(b) ==
    Doing("ability", "event", b) /\ thread["ability"].event = FOREGROUND => SeenBundle(b)
BundleOK(b) ==
    /\ ShownIsSeen(b) /\ Apart(b) /\ StoredIsSeen(b)
    /\ FoundIsSeen(b) /\ ReportedIsStored(b) /\ FrontIsSeen(b)
BundlesInv == enabled => \A b \in Bundle \ disturbed : BundleOK(b)

\* An ability that is tracked belongs to a visible bundle; one of a visible bundle that is
\* not tracked is in front no more, or the news that it is comes.
FrontComes(a) ==
    \/ \E i \in DOMAIN stateQueue : stateQueue[i] = [ability |-> a, event |-> FOREGROUND]
    \/ Handling(a) /\ thread["ability"].event = FOREGROUND
TrackedOK(a) ==
    ~Reporting(BundleOf[a]) =>
        /\ a \in tracked => BundleOf[a] \in appVisibilityMap_
        /\ BundleOf[a] \in appVisibilityMap_ /\ a \notin tracked /\ InFront(a) => FrontComes(a)
TrackedInv ==
    \A a \in Ability : BundleOf[a] \notin disturbed =>
        IF enabled THEN OnlyAbility(a) => TrackedOK(a)
        ELSE NoEvent(stateQueue, a) /\ ~Handling(a) => (a \in tracked <=> InFront(a))

TypeInv == TypeOK /\ ThreadOK /\ Unsubscribed
IInv == TypeInv /\ WindowsInv /\ StatesInv /\ BundlesInv /\ TrackedInv

-----------------------------------------------------------------------------
(* What a callback does to the map                                         *)

\* One window of a callback decides on itself and on no other window.
LEMMA HandleStep ==
    ASSUME NEW map \in WindowMap, NEW c \in Change
    PROVE  /\ HandleWindow(map, c) \in WindowMap
           /\ \A w \in Window : Seen(HandleWindow(map, c), w) <=>
                IF w = c.window /\ w \notin SystemWindow THEN c.visible ELSE Seen(map, w)
<1> DEFINE W == c.window
           entered == [w \in DOMAIN map \cup {W} |-> IF w = W THEN c.visible ELSE map[w]]
           removed == Restrict(map, DOMAIN map \ {W})
<1>1. PICK D \in SUBSET KnownWindow : map \in [D -> BOOLEAN]
    BY DEF WindowMap
<1>2. W \in Window /\ c.visible \in BOOLEAN
    BY DEF Change
<1>3. CASE W \in SystemWindow
    BY <1>3 DEF HandleWindow
<1>4. ASSUME W \notin SystemWindow, HandleWindow(map, c) = entered
      PROVE  /\ HandleWindow(map, c) \in WindowMap
             /\ \A w \in Window : Seen(HandleWindow(map, c), w) <=>
                    IF w = c.window /\ w \notin SystemWindow THEN c.visible ELSE Seen(map, w)
  <2>1. D \cup {W} \in SUBSET KnownWindow /\ entered \in [D \cup {W} -> BOOLEAN]
    BY <1>1, <1>2, <1>4 DEF KnownWindow
  <2>2. entered \in WindowMap
    BY <2>1 DEF WindowMap
  <2> QED BY <1>1, <1>2, <1>4, <2>2 DEF Seen
<1>5. ASSUME W \notin SystemWindow, ~c.visible, HandleWindow(map, c) = removed
      PROVE  /\ HandleWindow(map, c) \in WindowMap
             /\ \A w \in Window : Seen(HandleWindow(map, c), w) <=>
                    IF w = c.window /\ w \notin SystemWindow THEN c.visible ELSE Seen(map, w)
  <2>1. D \ {W} \in SUBSET KnownWindow /\ removed \in [D \ {W} -> BOOLEAN]
    BY <1>1 DEF Restrict
  <2>2. removed \in WindowMap
    BY <2>1 DEF WindowMap
  <2> QED BY <1>1, <1>5, <2>2 DEF Seen, Restrict
<1> QED BY <1>3, <1>4, <1>5 DEF HandleWindow, UpdateWindow

\* A callback decides on the windows it tells of, but for those of the desktop.
LEMMA CallbackHandled ==
    ASSUME NEW map \in WindowMap, NEW s \in Callback
    PROVE  /\ HandleWindows(map, s) \in WindowMap
           /\ \A w \in Window : Seen(HandleWindows(map, s), w) <=>
                IF w \in SystemWindow \/ ~Mentions(s, w) THEN Seen(map, w) ELSE Says(s, w, TRUE)
<1> DEFINE n == Len(s)
<1>1. n \in Nat /\ DOMAIN s = 1..n /\ s \in Seq(Change)
      /\ (\A i \in 1..n : s[i] \in Change)
      /\ (\A i, j \in 1..n : s[i].window = s[j].window => i = j)
    BY DEF Callback
<1> HIDE DEF n
<1>2. PICK f : /\ f[0] = map
               /\ \A k \in 1..n : f[k] = HandleWindow(f[k - 1], s[k])
               /\ HandleWindows(map, s) = f[n]
  <2>1. n \in Nat /\ DOMAIN s = 1..n
    BY <1>1
  <2>2. PICK f : Steps(f, map, s, n)
    BY <2>1, FoldSteps
  <2> QED BY <2>2 DEF Steps
<1> DEFINE Right(k) ==
        \A w \in Window : Seen(f[k], w) <=>
            IF w \in SystemWindow \/ (\A i \in 1..k : s[i].window # w) THEN Seen(map, w)
            ELSE \E i \in 1..k : s[i] = [window |-> w, visible |-> TRUE]
           Good == {k \in Nat : k <= n => f[k] \in WindowMap /\ Right(k)}
<1>3. 0 \in Good
  <2>1. 1..0 = {}
    OBVIOUS
  <2> QED BY <1>2, <2>1
<1>4. ASSUME NEW k \in Nat, k \in Good
      PROVE  k + 1 \in Good
  <2> SUFFICES ASSUME k + 1 <= n
               PROVE  f[k + 1] \in WindowMap /\ Right(k + 1)
    OBVIOUS
  <2>1. f[k] \in WindowMap /\ Right(k)
    BY <1>1, <1>4
  <2>2. k + 1 \in 1..n /\ (k + 1) - 1 = k
    BY <1>1
  <2>3. f[k + 1] = HandleWindow(f[k], s[k + 1]) /\ s[k + 1] \in Change
    BY <1>1, <1>2, <2>2
  <2>4. f[k + 1] \in WindowMap
    BY <2>1, <2>3, HandleStep
  <2>5. ASSUME NEW w \in Window
        PROVE  Seen(f[k + 1], w) <=>
                  IF w \in SystemWindow \/ (\A i \in 1..(k + 1) : s[i].window # w) THEN Seen(map, w)
                  ELSE \E i \in 1..(k + 1) : s[i] = [window |-> w, visible |-> TRUE]
    <3>1. Seen(f[k + 1], w) <=>
            IF w = s[k + 1].window /\ w \notin SystemWindow THEN s[k + 1].visible ELSE Seen(f[k], w)
      BY <2>1, <2>3, HandleStep
    <3>2. 1..(k + 1) = 1..k \cup {k + 1}
      OBVIOUS
    <3>3. CASE w = s[k + 1].window /\ w \notin SystemWindow
      <4>1. \A i \in 1..k : s[i].window # w
        BY <1>1, <2>2, <3>3
      <4>2. s[k + 1] = [window |-> w, visible |-> s[k + 1].visible]
            /\ s[k + 1].visible \in BOOLEAN
        BY <2>3, <3>3 DEF Change
      <4>3. s[k + 1] = [window |-> w, visible |-> TRUE] <=> s[k + 1].visible
        <5>1. CASE s[k + 1].visible = TRUE
          BY <4>2, <5>1
        <5>2. CASE s[k + 1].visible = FALSE
          <6>1. [window |-> w, visible |-> TRUE] # s[k + 1]
            BY <5>2
          <6> QED BY <5>2, <6>1
        <5> QED BY <4>2, <5>1, <5>2
      <4> QED BY <3>1, <3>2, <3>3, <4>1, <4>3
    <3>4. CASE w # s[k + 1].window \/ w \in SystemWindow
      <4>1. w # s[k + 1].window => s[k + 1] # [window |-> w, visible |-> TRUE]
        OBVIOUS
      <4> QED BY <2>1, <3>1, <3>2, <3>4, <4>1
    <3> QED BY <3>3, <3>4
  <2> QED BY <2>4, <2>5
<1>5. n \in Good
  <2> HIDE DEF Good
  <2> QED BY <1>1, <1>3, <1>4, Induction
<1>6. HandleWindows(map, s) \in WindowMap /\ Right(n)
    BY <1>1, <1>2, <1>5
<1>7. ASSUME NEW w \in Window
      PROVE  Seen(HandleWindows(map, s), w) <=>
                IF w \in SystemWindow \/ ~Mentions(s, w) THEN Seen(map, w) ELSE Says(s, w, TRUE)
  <2>1. ~Mentions(s, w) <=> \A i \in 1..n : s[i].window # w
    BY <1>1 DEF Mentions
  <2>2. Says(s, w, TRUE) <=> \E i \in 1..n : s[i] = [window |-> w, visible |-> TRUE]
    BY <1>1 DEF Says
  <2>3. Seen(HandleWindows(map, s), w) <=>
            IF w \in SystemWindow \/ (\A i \in 1..n : s[i].window # w) THEN Seen(map, w)
            ELSE \E i \in 1..n : s[i] = [window |-> w, visible |-> TRUE]
    BY <1>2, <1>6
  <2> QED BY <2>1, <2>2, <2>3
<1> QED BY <1>2, <1>6, <1>7

\* A set of changes, one for each window, becomes a callback.
LEMMA CallbackOfSet ==
    ASSUME NEW S \in SUBSET Change, IsFiniteSet(S),
           \A c, d \in S : c.window = d.window => c = d
    PROVE  /\ SetToSeq(S) \in Callback
           /\ \A c : (\E k \in DOMAIN SetToSeq(S) : SetToSeq(S)[k] = c) <=> c \in S
<1> DEFINE n == Cardinality(S)
           s == SetToSeq(S)
<1>1. n \in Nat /\ ExistsBijection(1..n, S)
    BY FS_CardinalityType
<1>2. PICK g : g \in Bijection(1..n, S)
    BY <1>1 DEF ExistsBijection
<1>3. g \in [1..n -> S] /\ IsInjective(g)
    BY <1>2 DEF Bijection, Injection, IsInjective
<1>4. s \in [1..n -> S] /\ IsInjective(s)
    BY <1>3 DEF SetToSeq
<1>5. s \in Injection(1..n, S)
    BY <1>4 DEF Injection, IsInjective
<1>6. Cardinality(1..n) = n
  <2>1. IF 1 > n THEN 0 = n ELSE n - 1 + 1 = n
    BY <1>1
  <2> QED BY <1>1, <2>1, FS_Interval
<1>7. s \in Surjection(1..n, S)
  <2> HIDE DEF s, n
  <2> QED BY <1>5, <1>6, FS_Injection DEF n
<1>8. \A c \in S : \E k \in 1..n : s[k] = c
    BY <1>7 DEF Surjection
<1>9. s \in Seq(Change)
    BY <1>1, <1>4
<1> HIDE DEF s, n
<1>10. DOMAIN s = 1..n /\ \A i \in 1..n : s[i] \in S
    BY <1>4
<1>11. s \in Callback
    BY <1>4, <1>9, <1>10 DEF Callback, IsInjective
<1> QED BY <1>8, <1>10, <1>11 DEF s

-----------------------------------------------------------------------------
(* The queues                                                              *)

\* A callback put into the queue has the last word on the windows it tells of.
LEMMA WordAppended ==
    ASSUME NEW q \in Seq(Callback), NEW s \in Callback, NEW w, NEW v \in BOOLEAN
    PROVE  /\ Append(q, s) \in Seq(Callback)
           /\ Says(s, w, v) => LastWord(Append(q, s), w, v)
           /\ ~Mentions(s, w) /\ LastWord(q, w, v) => LastWord(Append(q, s), w, v)
           /\ Silent(Append(q, s), w) <=> Silent(q, w) /\ ~Mentions(s, w)
<1> DEFINE n == Len(q)
           r == Append(q, s)
<1>1. /\ n \in Nat /\ DOMAIN q = 1..n /\ DOMAIN r = 1..(n + 1)
      /\ \A i \in 1..n : r[i] = q[i]
      /\ r[n + 1] = s /\ r \in Seq(Callback)
    OBVIOUS
<1>2. 1..(n + 1) = 1..n \cup {n + 1} /\ \A i \in 1..n : n + 1 > i
    BY <1>1
<1> HIDE DEF n, r
<1>3. Says(s, w, v) => LastWord(r, w, v)
  <2>1. n + 1 \in DOMAIN r /\ \A j \in DOMAIN r : ~(j > n + 1)
    BY <1>1
  <2> QED BY <1>1, <2>1 DEF LastWord
<1>4. ~Mentions(s, w) /\ LastWord(q, w, v) => LastWord(r, w, v)
  <2> SUFFICES ASSUME ~Mentions(s, w), LastWord(q, w, v) PROVE LastWord(r, w, v)
    OBVIOUS
  <2>1. PICK i \in 1..n : Says(q[i], w, v) /\ \A j \in 1..n : j > i => ~Mentions(q[j], w)
    BY <1>1 DEF LastWord
  <2>2. i \in DOMAIN r /\ Says(r[i], w, v) /\ \A j \in DOMAIN r : j > i => ~Mentions(r[j], w)
    BY <1>1, <1>2, <2>1
  <2> QED BY <2>2 DEF LastWord
<1>5. Silent(r, w) <=> Silent(q, w) /\ ~Mentions(s, w)
    BY <1>1, <1>2 DEF Silent
<1> QED BY <1>1, <1>3, <1>4, <1>5 DEF r

\* A callback taken from the queue had the last word, or a later one has it.
LEMMA WordHandled ==
    ASSUME NEW q \in Seq(Callback), q # <<>>, NEW w, NEW v \in BOOLEAN
    PROVE  /\ Head(q) \in Callback /\ Tail(q) \in Seq(Callback)
           /\ LastWord(q, w, v) =>
                LastWord(Tail(q), w, v) \/ (Silent(Tail(q), w) /\ Says(Head(q), w, v))
           /\ Silent(q, w) <=> Silent(Tail(q), w) /\ ~Mentions(Head(q), w)
<1> DEFINE n == Len(q)
           r == Tail(q)
<1>1. /\ n \in Nat /\ n >= 1 /\ DOMAIN q = 1..n /\ DOMAIN r = 1..(n - 1)
      /\ \A i \in 1..(n - 1) : r[i] = q[i + 1]
      /\ Head(q) = q[1] /\ Head(q) \in Callback /\ r \in Seq(Callback)
    OBVIOUS
<1> HIDE DEF n, r
<1>2. LastWord(q, w, v) => LastWord(r, w, v) \/ (Silent(r, w) /\ Says(Head(q), w, v))
  <2> SUFFICES ASSUME LastWord(q, w, v)
               PROVE  LastWord(r, w, v) \/ (Silent(r, w) /\ Says(Head(q), w, v))
    OBVIOUS
  <2>1. PICK i \in 1..n : Says(q[i], w, v) /\ \A j \in 1..n : j > i => ~Mentions(q[j], w)
    BY <1>1 DEF LastWord
  <2>2. CASE i = 1
    <3>1. \A j \in 1..(n - 1) : j + 1 \in 1..n /\ j + 1 > i
      BY <1>1, <2>2
    <3> QED BY <1>1, <2>1, <2>2, <3>1 DEF Silent
  <2>3. CASE i # 1
    <3>1. i - 1 \in 1..(n - 1) /\ (i - 1) + 1 = i
      BY <1>1, <2>3
    <3>2. \A j \in 1..(n - 1) : j > i - 1 => j + 1 \in 1..n /\ j + 1 > i
      BY <1>1, <2>3
    <3>3. Says(r[i - 1], w, v) /\ \A j \in 1..(n - 1) : j > i - 1 => ~Mentions(r[j], w)
      BY <1>1, <2>1, <3>1, <3>2
    <3> QED BY <1>1, <3>1, <3>3 DEF LastWord
  <2> QED BY <2>2, <2>3
<1>3. Silent(q, w) <=> Silent(r, w) /\ ~Mentions(Head(q), w)
  <2>1. ASSUME Silent(q, w)
        PROVE  Silent(r, w) /\ ~Mentions(Head(q), w)
    <3>1. 1 \in 1..n /\ \A j \in 1..(n - 1) : j + 1 \in 1..n
      BY <1>1
    <3> QED BY <1>1, <2>1, <3>1 DEF Silent
  <2>2. ASSUME Silent(r, w), ~Mentions(Head(q), w), NEW i \in 1..n
        PROVE  ~Mentions(q[i], w)
    <3>1. i = 1 \/ (i - 1 \in 1..(n - 1) /\ (i - 1) + 1 = i)
      BY <1>1
    <3> QED BY <1>1, <2>2, <3>1 DEF Silent
  <2> QED BY <1>1, <2>1, <2>2 DEF Silent
<1> QED BY <1>1, <1>2, <1>3 DEF r

\* The same for callbacks of abilities: one put into the queue is the last, ...
LEMMA EventAppended ==
    ASSUME NEW q \in Seq(StateCallback), NEW e \in StateCallback, NEW a, NEW v \in BOOLEAN
    PROVE  /\ Append(q, e) \in Seq(StateCallback)
           /\ e.ability = a /\ (e.event = FOREGROUND <=> v) => LastEvent(Append(q, e), a, v)
           /\ e.ability # a /\ LastEvent(q, a, v) => LastEvent(Append(q, e), a, v)
           /\ NoEvent(Append(q, e), a) <=> NoEvent(q, a) /\ e.ability # a
<1> DEFINE n == Len(q)
           r == Append(q, e)
<1>1. /\ n \in Nat /\ DOMAIN q = 1..n /\ DOMAIN r = 1..(n + 1)
      /\ \A i \in 1..n : r[i] = q[i]
      /\ r[n + 1] = e /\ r \in Seq(StateCallback)
    OBVIOUS
<1>2. 1..(n + 1) = 1..n \cup {n + 1} /\ \A i \in 1..n : n + 1 > i
    BY <1>1
<1> HIDE DEF n, r
<1>3. e.ability = a /\ (e.event = FOREGROUND <=> v) => LastEvent(r, a, v)
  <2>1. n + 1 \in DOMAIN r /\ \A j \in DOMAIN r : ~(j > n + 1)
    BY <1>1
  <2> QED BY <1>1, <2>1 DEF LastEvent
<1>4. e.ability # a /\ LastEvent(q, a, v) => LastEvent(r, a, v)
  <2> SUFFICES ASSUME e.ability # a, LastEvent(q, a, v) PROVE LastEvent(r, a, v)
    OBVIOUS
  <2>1. PICK i \in 1..n : /\ q[i].ability = a /\ (q[i].event = FOREGROUND <=> v)
                          /\ \A j \in 1..n : j > i => q[j].ability # a
    BY <1>1 DEF LastEvent
  <2>2. /\ i \in DOMAIN r /\ r[i].ability = a /\ (r[i].event = FOREGROUND <=> v)
        /\ \A j \in DOMAIN r : j > i => r[j].ability # a
    BY <1>1, <1>2, <2>1
  <2> QED BY <2>2 DEF LastEvent
<1>5. NoEvent(r, a) <=> NoEvent(q, a) /\ e.ability # a
    BY <1>1, <1>2 DEF NoEvent
<1> QED BY <1>1, <1>3, <1>4, <1>5 DEF r

\* ... and one taken from it was the last of its ability, or a later one is.
LEMMA EventHandled ==
    ASSUME NEW q \in Seq(StateCallback), q # <<>>, NEW a, NEW v \in BOOLEAN
    PROVE  /\ Head(q) \in StateCallback /\ Tail(q) \in Seq(StateCallback)
           /\ LastEvent(q, a, v) =>
                \/ LastEvent(Tail(q), a, v)
                \/ /\ NoEvent(Tail(q), a)
                   /\ Head(q).ability = a /\ (Head(q).event = FOREGROUND <=> v)
           /\ NoEvent(q, a) <=> NoEvent(Tail(q), a) /\ Head(q).ability # a
<1> DEFINE n == Len(q)
           r == Tail(q)
<1>1. /\ n \in Nat /\ n >= 1 /\ DOMAIN q = 1..n /\ DOMAIN r = 1..(n - 1)
      /\ \A i \in 1..(n - 1) : r[i] = q[i + 1]
      /\ Head(q) = q[1] /\ Head(q) \in StateCallback /\ r \in Seq(StateCallback)
    OBVIOUS
<1> HIDE DEF n, r
<1>2. LastEvent(q, a, v) =>
        \/ LastEvent(r, a, v)
        \/ NoEvent(r, a) /\ Head(q).ability = a /\ (Head(q).event = FOREGROUND <=> v)
  <2> SUFFICES ASSUME LastEvent(q, a, v)
               PROVE  \/ LastEvent(r, a, v)
                      \/ NoEvent(r, a) /\ Head(q).ability = a /\ (Head(q).event = FOREGROUND <=> v)
    OBVIOUS
  <2>1. PICK i \in 1..n : /\ q[i].ability = a /\ (q[i].event = FOREGROUND <=> v)
                          /\ \A j \in 1..n : j > i => q[j].ability # a
    BY <1>1 DEF LastEvent
  <2>2. CASE i = 1
    <3>1. \A j \in 1..(n - 1) : j + 1 \in 1..n /\ j + 1 > i
      BY <1>1, <2>2
    <3> QED BY <1>1, <2>1, <2>2, <3>1 DEF NoEvent
  <2>3. CASE i # 1
    <3>1. i - 1 \in 1..(n - 1) /\ (i - 1) + 1 = i
      BY <1>1, <2>3
    <3>2. \A j \in 1..(n - 1) : j > i - 1 => j + 1 \in 1..n /\ j + 1 > i
      BY <1>1, <2>3
    <3>3. /\ r[i - 1].ability = a /\ (r[i - 1].event = FOREGROUND <=> v)
          /\ \A j \in 1..(n - 1) : j > i - 1 => r[j].ability # a
      BY <1>1, <2>1, <3>1, <3>2
    <3> QED BY <1>1, <3>1, <3>3 DEF LastEvent
  <2> QED BY <2>2, <2>3
<1>3. \A i \in 1..n : i = 1 \/ (i - 1 \in 1..(n - 1) /\ (i - 1) + 1 = i)
    BY <1>1
<1>4. 1 \in 1..n /\ \A j \in 1..(n - 1) : j + 1 \in 1..n
    BY <1>1
<1>5. NoEvent(q, a) <=> NoEvent(r, a) /\ Head(q).ability # a
  <2>1. ASSUME NoEvent(r, a), Head(q).ability # a, NEW i \in 1..n
        PROVE  q[i].ability # a
    <3>1. CASE i = 1
      BY <1>1, <2>1, <3>1
    <3>2. CASE i # 1
      <4>1. i - 1 \in 1..(n - 1) /\ (i - 1) + 1 = i
        BY <1>3, <2>1, <3>2
      <4>2. q[i] = r[i - 1]
        BY <1>1, <4>1
      <4>3. \A j \in 1..(n - 1) : r[j].ability # a
        BY <1>1, <2>1 DEF NoEvent
      <4> QED BY <4>1, <4>2, <4>3
    <3> QED BY <3>1, <3>2
  <2>2. ASSUME NoEvent(q, a) PROVE NoEvent(r, a) /\ Head(q).ability # a
    <3>1. \A i \in 1..n : q[i].ability # a
      BY <1>1, <2>2 DEF NoEvent
    <3>2. ASSUME NEW j \in 1..(n - 1) PROVE r[j].ability # a
      <4>1. j + 1 \in 1..n /\ r[j] = q[j + 1]
        BY <1>1, <1>4
      <4> QED BY <3>1, <4>1
    <3> QED BY <1>1, <1>4, <3>1, <3>2 DEF NoEvent
  <2>3. ASSUME NoEvent(r, a), Head(q).ability # a PROVE NoEvent(q, a)
    BY <1>1, <2>1, <2>3 DEF NoEvent
  <2> QED BY <2>2, <2>3
<1> QED BY <1>1, <1>2, <1>5 DEF r

\* What is in a queue, whoever it is about.
LEMMA InAppended ==
    ASSUME NEW q \in Seq(StateCallback), NEW e \in StateCallback
    PROVE  \A d : (\E i \in DOMAIN Append(q, e) : Append(q, e)[i] = d) <=>
                    (d = e \/ \E i \in DOMAIN q : q[i] = d)
<1> DEFINE n == Len(q)
           r == Append(q, e)
<1>1. /\ n \in Nat /\ DOMAIN q = 1..n /\ DOMAIN r = 1..(n + 1)
      /\ \A i \in 1..n : r[i] = q[i]
      /\ r[n + 1] = e
    OBVIOUS
<1>2. 1..(n + 1) = 1..n \cup {n + 1}
    BY <1>1
<1> HIDE DEF n, r
<1>3. \A d : (\E i \in DOMAIN r : r[i] = d) <=> (d = e \/ \E i \in DOMAIN q : q[i] = d)
    BY <1>1, <1>2
<1> QED BY <1>3 DEF r

\* What leaves a queue was at its head.
LEMMA InHandled ==
    ASSUME NEW q \in Seq(StateCallback), q # <<>>
    PROVE  \A d : (\E i \in DOMAIN q : q[i] = d) <=>
                    (d = Head(q) \/ \E i \in DOMAIN Tail(q) : Tail(q)[i] = d)
<1> DEFINE n == Len(q)
           r == Tail(q)
<1>1. /\ n \in Nat /\ n >= 1 /\ DOMAIN q = 1..n /\ DOMAIN r = 1..(n - 1)
      /\ \A i \in 1..(n - 1) : r[i] = q[i + 1]
      /\ Head(q) = q[1]
    OBVIOUS
<1> HIDE DEF n, r
<1>2. \A i \in 1..n : i = 1 \/ (i - 1 \in 1..(n - 1) /\ (i - 1) + 1 = i)
    BY <1>1
<1>3. 1 \in 1..n /\ \A j \in 1..(n - 1) : j + 1 \in 1..n
    BY <1>1
<1>4. \A d : (\E i \in DOMAIN q : q[i] = d) <=> (d = Head(q) \/ \E i \in DOMAIN r : r[i] = d)
    BY <1>1, <1>2, <1>3
<1> QED BY <1>4 DEF r

\* What the window manager tells of ws.
Told(ws) == SetToSeq({[window |-> w, visible |-> w \notin shown] : w \in ws})

\* The callback of a change tells of the windows that changed and what they are now.
LEMMA ChangesTold ==
    ASSUME NEW ws \in SUBSET Window
    PROVE  /\ Told(ws) \in Callback
           /\ \A w : Mentions(Told(ws), w) <=> w \in ws
           /\ \A w : \A v \in BOOLEAN : Says(Told(ws), w, v) <=> w \in ws /\ (v <=> w \notin shown)
<1> DEFINE changeOf == [w \in ws |-> [window |-> w, visible |-> w \notin shown]]
           S == {[window |-> w, visible |-> w \notin shown] : w \in ws}
           s == SetToSeq(S)
<1>1. IsFiniteSet(ws)
    BY ObserversAssumption, FS_Subset
<1>2. IsFiniteSet(S)
  <2>1. changeOf \in Surjection(ws, S)
    BY DEF Surjection
  <2> QED BY <1>1, <2>1, FS_Surjection
<1>3. S \in SUBSET Change /\ \A c, d \in S : c.window = d.window => c = d
  <2>1. ASSUME NEW c \in S
        PROVE  c \in Change /\ c.window \in ws /\ c.visible = (c.window \notin shown)
    <3>1. PICK w \in ws : c = [window |-> w, visible |-> w \notin shown]
      OBVIOUS
    <3>2. w \in Window /\ (w \notin shown) \in BOOLEAN
      OBVIOUS
    <3> QED BY <3>1, <3>2 DEF Change
  <2>2. ASSUME NEW c \in S, NEW d \in S, c.window = d.window
        PROVE  c = d
    <3>1. c \in Change /\ d \in Change /\ c.visible = d.visible
      BY <2>1, <2>2
    <3> QED BY <2>2, <3>1 DEF Change
  <2> QED BY <2>1, <2>2
<1>4. \A w : (\E c \in S : c.window = w) <=> w \in ws
  <2>1. ASSUME NEW w \in ws
        PROVE  \E c \in S : c.window = w
    <3>1. [window |-> w, visible |-> w \notin shown] \in S
      OBVIOUS
    <3> QED BY <3>1
  <2>2. ASSUME NEW c \in S
        PROVE  c.window \in ws
    <3>1. PICK w \in ws : c = [window |-> w, visible |-> w \notin shown]
      OBVIOUS
    <3> QED BY <3>1
  <2> QED BY <2>1, <2>2
<1> HIDE DEF S
<1>5. s \in Callback /\ \A c : (\E k \in DOMAIN s : s[k] = c) <=> c \in S
    BY <1>2, <1>3, CallbackOfSet
<1> HIDE DEF s
<1>6. ASSUME NEW w
      PROVE  Mentions(s, w) <=> w \in ws
  <2>1. Mentions(s, w) <=> \E c \in S : c.window = w
    BY <1>5 DEF Mentions
  <2> QED BY <2>1, <1>4
<1>7. ASSUME NEW w, NEW v \in BOOLEAN
      PROVE  Says(s, w, v) <=> w \in ws /\ (v <=> w \notin shown)
  <2>1. Says(s, w, v) <=> [window |-> w, visible |-> v] \in S
    BY <1>5 DEF Says
  <2>2. [window |-> w, visible |-> v] \in S <=>
            \E x \in ws : [window |-> w, visible |-> v] = [window |-> x, visible |-> x \notin shown]
    BY DEF S
  <2>3. \A x : [window |-> w, visible |-> v] = [window |-> x, visible |-> x \notin shown]
                <=> w = x /\ v = (x \notin shown)
    BY Zenon
  <2>4. v = (w \notin shown) <=> (v <=> w \notin shown)
    OBVIOUS
  <2> QED BY <2>1, <2>2, <2>3, <2>4
<1> QED BY <1>5, <1>6, <1>7 DEF Told, s, S

\* The windows on the screen change, and a subscribed manager is told.
LEMMA ChangeWindowsIs ==
    ASSUME NEW ws, ChangeWindows(ws)
    PROVE  /\ shown' = (shown \ ws) \cup (ws \ shown)
           /\ windowQueue' = IF "window" \notin subscribed \/ ws = {} THEN windowQueue
                             ELSE Append(windowQueue, Told(ws))
    BY DEF ChangeWindows, Told, SymDiff

-----------------------------------------------------------------------------
(* What the threads do                                                     *)

\* When one thread goes on, the other stays where it is.
LEMMA ThreadMoved ==
    ASSUME thread \in [Thread -> ThreadState], ThreadOK, NEW t \in Thread,
           NEW th \in ThreadState, Proper(t, th), thread' = [thread EXCEPT ![t] = th]
    PROVE  /\ thread' \in [Thread -> ThreadState] /\ ThreadOK'
           /\ thread'[t] = th /\ \A u \in Thread : u # t => thread'[u] = thread[u]
    BY DEF ThreadOK

\* A thread that waits is in a proper state.
LEMMA IdleIsProper == Idle \in ThreadState /\ \A t \in Thread : Proper(t, Idle)
    BY DEF Idle, At, ThreadState, Proper, Event

\* After an update the thread of windows takes the next window or waits, that of abilities
\* reports the end of the ability (the tail of UpdateAppVisibility).
LEMMA AfterUpdateIs ==
    ASSUME NEW t \in Thread, NEW th \in ThreadState, Proper(t, th), th.pc \in {"store", "report"}
    PROVE  /\ AfterUpdate(th) \in ThreadState /\ Proper(t, AfterUpdate(th))
           /\ t = "window" => AfterUpdate(th) =
                IF th.todo = {} THEN Idle ELSE At("compute", th.todo, None, FALSE, None)
           /\ t = "ability" => AfterUpdate(th) = At("event", {}, th.ability, FALSE, th.event)
<1>1. th.todo \in SUBSET KnownWindow /\ th.ability \in Ability \cup {None} /\ th.event \in Event \cup {None}
    BY DEF ThreadState
<1>2. CASE t = "window"
  <2>1. th.event = None
    BY <1>2 DEF Proper
  <2>2. CASE th.todo = {}
    BY <1>2, <2>1, <2>2, IdleIsProper DEF AfterUpdate
  <2>3. CASE th.todo # {}
    <3>1. AfterUpdate(th) = At("compute", th.todo, None, FALSE, None)
      BY <2>3 DEF AfterUpdate
    <3> QED BY <1>1, <1>2, <2>3, <3>1 DEF Proper, At, ThreadState
  <2> QED BY <2>2, <2>3
<1>3. CASE t = "ability"
  <2>1. th.event # None /\ th.todo = {} /\ th.ability # None
    BY <1>3 DEF Proper
  <2>2. AfterUpdate(th) = At("event", {}, th.ability, FALSE, th.event)
    BY <2>1 DEF AfterUpdate
  <2> QED BY <1>1, <1>3, <2>1, <2>2 DEF Proper, At, ThreadState
<1> QED BY <1>2, <1>3 DEF Thread

\* OnWindowVisibilityChanged leaves the windows it was told of to be worked on.
LEMMA CallbackBegun ==
    ASSUME TypeInv, OnWindowVisibilityChanged
    PROVE  LET windows == {w \in KnownWindow : Mentions(Head(windowQueue), w)}
               th == IF windows = {} THEN Idle ELSE At("compute", windows, None, FALSE, None)
           IN  /\ thread["window"] = Idle
               /\ th \in ThreadState /\ Proper("window", th)
               /\ thread' = [thread EXCEPT !["window"] = th]
               /\ disturbed' = disturbed \cup Meets("window", {BundleOf[OwnerOf[w]] : w \in windows})
<1> DEFINE listed == Head(windowQueue)
           windows == {w \in KnownWindow : Mentions(listed, w)}
<1>1. windowQueue # <<>> /\ listed \in Callback
    BY WordHandled DEF TypeInv, TypeOK, OnWindowVisibilityChanged
<1>2. {c.window : c \in ToSet(listed)} \ SystemWindow = windows
  <2> HIDE DEF listed
  <2>1. listed \in Seq(Change)
    BY <1>1 DEF Callback
  <2>2. \A w : w \in {c.window : c \in ToSet(listed)} <=> Mentions(listed, w)
    BY DEF ToSet, Mentions
  <2>3. \A k \in DOMAIN listed : listed[k].window \in Window
    <3>1. \A k \in DOMAIN listed : listed[k] \in Change
      BY <2>1
    <3> QED BY <3>1 DEF Change
  <2>4. \A w : Mentions(listed, w) => w \in Window
    BY <2>3 DEF Mentions
  <2> QED BY <2>2, <2>4 DEF KnownWindow
<1>3. windows \in SUBSET KnownWindow
    OBVIOUS
<1> HIDE DEF windows
<1>4. windows # {} => /\ At("compute", windows, None, FALSE, None) \in ThreadState
                      /\ Proper("window", At("compute", windows, None, FALSE, None))
    BY <1>3 DEF Proper, At, ThreadState
<1> QED BY <1>2, <1>4, IdleIsProper DEF OnWindowVisibilityChanged, Thread, windows

\* ComputeVisibility finds out whether the manager sees a window of the bundle.
LEMMA VisibilityComputed ==
    ASSUME TypeInv, NEW t \in Thread, ComputeVisibility(t)
    PROVE  \E a \in Ability, todo \in SUBSET KnownWindow, v \in BOOLEAN :
            LET th == At("store", todo, a, v, thread[t].event)
            IN  /\ thread[t].pc = "compute"
                /\ v <=> SeenBundle(BundleOf[a])
                /\ th \in ThreadState /\ Proper(t, th) /\ thread' = [thread EXCEPT ![t] = th]
                /\ t = "ability" => a = thread[t].ability /\ todo = thread[t].todo
                /\ t = "window" => \E w \in thread[t].todo :
                                        a = OwnerOf[w] /\ todo = thread[t].todo \ {w}
<1> DEFINE th == thread[t]
<1>1. /\ th \in ThreadState /\ Proper(t, th) /\ thread \in [Thread -> ThreadState]
      /\ th.pc = "compute" /\ \A w \in Window : OwnerOf[w] \in Ability
    BY ObserversAssumption DEF TypeInv, TypeOK, ThreadOK, ComputeVisibility
<1>2. \A b : (~IsAllAbilitiesInvisible(b)) \in BOOLEAN /\ (~IsAllAbilitiesInvisible(b) <=> SeenBundle(b))
    BY DEF IsAllAbilitiesInvisible, SeenBundle
<1>3. ASSUME NEW a \in Ability, NEW todo \in SUBSET KnownWindow,
             t = "ability" => todo = {}
      PROVE  LET next == At("store", todo, a, ~IsAllAbilitiesInvisible(BundleOf[a]), th.event)
             IN  next \in ThreadState /\ Proper(t, next)
  <2>1. a # None
    BY <1>3, ObserversAssumption DEF None
  <2>2. th.event \in Event \cup {None}
    BY <1>1 DEF ThreadState
  <2> QED BY <1>1, <1>2, <1>3, <2>1, <2>2 DEF Proper, At, ThreadState
<1>4. CASE t = "window"
  <2>1. PICK w \in th.todo :
            thread' = [thread EXCEPT ![t] = At("store", th.todo \ {w}, OwnerOf[w],
                                               ~IsAllAbilitiesInvisible(BundleOf[OwnerOf[w]]), th.event)]
    BY <1>4 DEF ComputeVisibility
  <2>2. OwnerOf[w] \in Ability /\ th.todo \ {w} \in SUBSET KnownWindow
    BY <1>1 DEF ThreadState, KnownWindow
  <2> DEFINE a == OwnerOf[w]
             v == ~IsAllAbilitiesInvisible(BundleOf[a])
             next == At("store", th.todo \ {w}, a, v, th.event)
  <2>3. /\ next \in ThreadState /\ Proper(t, next)
        /\ v \in BOOLEAN /\ (v <=> SeenBundle(BundleOf[a]))
    BY <1>2, <1>3, <1>4, <2>2
  <2>4. /\ thread' = [thread EXCEPT ![t] = next] /\ th.pc = "compute"
        /\ w \in thread[t].todo /\ th.event = thread[t].event /\ t # "ability"
    BY <1>1, <1>4, <2>1
  <2> HIDE DEF v, next
  <2>5. \E x \in thread[t].todo : a = OwnerOf[x] /\ th.todo \ {w} = thread[t].todo \ {x}
    BY <2>4
  <2> HIDE DEF a
  <2> QED BY <1>1, <1>4, <2>2, <2>3, <2>4, <2>5 DEF next, a
<1>5. CASE t = "ability"
  <2>1. th.todo = {} /\ th.ability \in Ability
    BY <1>1, <1>5 DEF Proper, ThreadState
  <2>2. thread' = [thread EXCEPT ![t] = At("store", {}, th.ability,
                                           ~IsAllAbilitiesInvisible(BundleOf[th.ability]), th.event)]
    BY <1>5 DEF ComputeVisibility
  <2> DEFINE a == th.ability
             v == ~IsAllAbilitiesInvisible(BundleOf[a])
             next == At("store", {}, a, v, th.event)
  <2>3. /\ next \in ThreadState /\ Proper(t, next) /\ a \in Ability
        /\ v \in BOOLEAN /\ (v <=> SeenBundle(BundleOf[a]))
    BY <1>2, <1>3, <2>1
  <2>4. /\ thread' = [thread EXCEPT ![t] = next] /\ th.pc = "compute"
        /\ a = thread[t].ability /\ thread[t].todo = {} /\ th.event = thread[t].event /\ t # "window"
    BY <1>1, <1>5, <2>1, <2>2
  <2>5. thread[t].pc = "compute" /\ {} \in SUBSET KnownWindow
    BY <1>1
  <2> HIDE DEF v, next, a
  <2> QED BY <2>3, <2>4, <2>5 DEF next
<1> QED BY <1>4, <1>5 DEF Thread

\* StoreVisibility goes on to a report when the visibility changed, else to what is left.
LEMMA VisibilityStored ==
    ASSUME TypeInv, NEW t \in Thread, StoreVisibility(t)
    PROVE  LET th == thread[t]
               next == IF (BundleOf[th.ability] \in appVisibilityMap_) = th.isVisible THEN AfterUpdate(th)
                       ELSE At("report", th.todo, th.ability, th.isVisible, th.event)
           IN  /\ th.pc = "store" /\ th.ability \in Ability
               /\ next \in ThreadState /\ Proper(t, next) /\ thread' = [thread EXCEPT ![t] = next]
<1> DEFINE th == thread[t]
<1>1. th \in ThreadState /\ Proper(t, th) /\ th.pc = "store" /\ th.ability \in Ability
    BY DEF TypeInv, TypeOK, ThreadOK, StoreVisibility, ThreadState, Proper
<1>2. /\ At("report", th.todo, th.ability, th.isVisible, th.event) \in ThreadState
      /\ Proper(t, At("report", th.todo, th.ability, th.isVisible, th.event))
  <2>1. /\ th.todo \in SUBSET KnownWindow /\ th.isVisible \in BOOLEAN
        /\ th.event \in Event \cup {None}
    BY <1>1 DEF ThreadState
  <2> QED BY <1>1, <2>1 DEF Proper, At, ThreadState
<1> QED BY <1>1, <1>2, AfterUpdateIs DEF StoreVisibility

\* ReportAppStateChanged goes on to what is left.
LEMMA ChangeReported ==
    ASSUME TypeInv, NEW t \in Thread, ReportAppStateChanged(t)
    PROVE  /\ thread[t].pc = "report" /\ thread[t].ability \in Ability
           /\ AfterUpdate(thread[t]) \in ThreadState /\ Proper(t, AfterUpdate(thread[t]))
           /\ thread' = [thread EXCEPT ![t] = AfterUpdate(thread[t])]
<1>1. /\ thread[t] \in ThreadState /\ Proper(t, thread[t]) /\ thread[t].pc = "report"
      /\ thread[t].ability \in Ability
    BY DEF TypeInv, TypeOK, ThreadOK, ReportAppStateChanged, ThreadState, Proper
<1> QED BY <1>1, AfterUpdateIs DEF ReportAppStateChanged

\* What a callback of the ability a begins: the windows it clears, and the work it leaves.
Begins(a, event, known, th) ==
    /\ thread["ability"] = Idle /\ stateQueue # <<>>
    /\ Head(stateQueue) = [ability |-> a, event |-> event]
    /\ known = IF event = STOP /\ enabled THEN WindowsOf(a) \cap DOMAIN abilityWindowMap_ ELSE {}
    /\ abilityWindowMap_' = Restrict(abilityWindowMap_, DOMAIN abilityWindowMap_ \ known)
    /\ disturbed' = disturbed \cup Meets("ability", {BundleOf[a]})
                        \cup (IF known \cap shown # {} THEN {BundleOf[a]} ELSE {})
    /\ Proper("ability", th) /\ thread' = [thread EXCEPT !["ability"] = th]
    /\ \/ event = FOREGROUND /\ enabled /\ ~SeenBundle(BundleOf[a]) /\ th = Idle
       \/ event = STOP /\ enabled /\ th = At("compute", {}, a, FALSE, event)
       \/ /\ ~(event = STOP /\ enabled)
          /\ event = FOREGROUND /\ enabled => SeenBundle(BundleOf[a])
          /\ th = At("event", {}, a, FALSE, event)

\* A callback of an ability is passed over, or clears windows first, or is only reported.
LEMMA EventBegun ==
    ASSUME TypeInv, OnAbilityStateChanged
    PROVE  \E a \in Ability, event \in Event, known \in SUBSET Window, th \in ThreadState :
                Begins(a, event, known, th)
<1> DEFINE a == Head(stateQueue).ability
           event == Head(stateQueue).event
           known == IF event = STOP /\ enabled THEN WindowsOf(a) \cap DOMAIN abilityWindowMap_ ELSE {}
           skip == event = FOREGROUND /\ ~ShouldProcessForegroundEvent(BundleOf[a])
           th == IF skip THEN Idle
                 ELSE At(IF event = STOP /\ enabled THEN "compute" ELSE "event", {}, a, FALSE, event)
<1>1. /\ stateQueue # <<>> /\ a \in Ability /\ event \in Event
      /\ Head(stateQueue) = [ability |-> a, event |-> event]
  <2>1. stateQueue # <<>> /\ Head(stateQueue) \in StateCallback
    BY EventHandled DEF TypeInv, TypeOK, OnAbilityStateChanged
  <2> QED BY <2>1 DEF StateCallback
<1>2. skip <=> event = FOREGROUND /\ enabled /\ ~SeenBundle(BundleOf[a])
    BY DEF ShouldProcessForegroundEvent, IsAllAbilitiesInvisible, SeenBundle
<1>3. /\ thread["ability"] = Idle /\ thread' = [thread EXCEPT !["ability"] = th]
      /\ abilityWindowMap_' = Restrict(abilityWindowMap_, DOMAIN abilityWindowMap_ \ known)
      /\ disturbed' = disturbed \cup Meets("ability", {BundleOf[a]})
                         \cup (IF known \cap shown # {} THEN {BundleOf[a]} ELSE {})
    BY DEF OnAbilityStateChanged
<1>4. known \in SUBSET Window
    BY DEF WindowsOf
<1> HIDE DEF a, event, known
<1>5. th \in ThreadState /\ Proper("ability", th)
  <2>1. a # None /\ event # None
    BY <1>1, ObserversAssumption DEF None, Event, FOREGROUND, BACKGROUND, STOP
  <2>2. event = STOP => /\ At("compute", {}, a, FALSE, event) \in ThreadState
                        /\ Proper("ability", At("compute", {}, a, FALSE, event))
    BY <1>1, <2>1 DEF Proper, At, ThreadState
  <2>3. /\ At("event", {}, a, FALSE, event) \in ThreadState
        /\ Proper("ability", At("event", {}, a, FALSE, event))
    BY <1>1, <2>1 DEF Proper, At, ThreadState
  <2> QED BY <2>2, <2>3, IdleIsProper DEF Thread
<1>6. \/ event = FOREGROUND /\ enabled /\ ~SeenBundle(BundleOf[a]) /\ th = Idle
      \/ event = STOP /\ enabled /\ th = At("compute", {}, a, FALSE, event)
      \/ /\ ~(event = STOP /\ enabled)
         /\ event = FOREGROUND /\ enabled => SeenBundle(BundleOf[a])
         /\ th = At("event", {}, a, FALSE, event)
    BY <1>2 DEF FOREGROUND, STOP
<1> HIDE DEF skip, th
<1>7. known = IF event = STOP /\ enabled THEN WindowsOf(a) \cap DOMAIN abilityWindowMap_ ELSE {}
    BY DEF known
<1>8. Begins(a, event, known, th)
    BY <1>1, <1>3, <1>5, <1>6, <1>7, Zenon DEF Begins
<1> QED BY <1>1, <1>4, <1>5, <1>8, Zenon

-----------------------------------------------------------------------------
(* Types                                                                   *)

\* A map without some windows is a map that sees the others as before.
LEMMA MapRestricted ==
    ASSUME NEW map \in WindowMap, NEW S
    PROVE  /\ Restrict(map, DOMAIN map \ S) \in WindowMap
           /\ \A w : Seen(Restrict(map, DOMAIN map \ S), w) <=> Seen(map, w) /\ w \notin S
<1>1. PICK D \in SUBSET KnownWindow : map \in [D -> BOOLEAN]
    BY DEF WindowMap
<1>2. D \ S \in SUBSET KnownWindow /\ Restrict(map, DOMAIN map \ S) \in [D \ S -> BOOLEAN]
    BY <1>1 DEF Restrict
<1>3. Restrict(map, DOMAIN map \ S) \in WindowMap
    BY <1>2 DEF WindowMap
<1>4. \A w : Seen(Restrict(map, DOMAIN map \ S), w) <=> Seen(map, w) /\ w \notin S
    BY <1>1 DEF Restrict, Seen
<1> QED BY <1>3, <1>4

\* The map of a manager that was told nothing.
LEMMA EmptyMap == <<>> \in WindowMap /\ DOMAIN <<>> = {}
<1>1. <<>> \in [{} -> BOOLEAN] /\ {} \in SUBSET KnownWindow
    OBVIOUS
<1> QED BY <1>1 DEF WindowMap

\* The service starts in a state that is well formed.
LEMMA TypeInit == Init => TypeInv
<1> SUFFICES ASSUME Init PROVE TypeInv
    OBVIOUS
<1>1. \A t \in Thread : thread[t] = Idle
    BY DEF Init
<1>2. TypeOK
    BY EmptyMap, IdleIsProper, ObserversAssumption DEF Init, TypeOK, None, Bundle
<1>3. ThreadOK
    BY <1>1, IdleIsProper DEF ThreadOK
<1>4. Unsubscribed
    BY <1>1, EmptyMap DEF Init, Unsubscribed, Thread, Idle, At
<1> QED BY <1>2, <1>3, <1>4 DEF TypeInv

\* A window or an ability changes; what is told of it is well formed.
LEMMA DeviceTyped ==
    ASSUME TypeInv, NEW ws \in SUBSET Window, ChangeWindows(ws)
    PROVE  shown' \subseteq Window /\ windowQueue' \in Seq(Callback)
<1>1. Told(ws) \in Callback
    BY ChangesTold
<1>2. windowQueue \in Seq(Callback) /\ shown \subseteq Window
    BY DEF TypeInv, TypeOK
<1>3. Append(windowQueue, Told(ws)) \in Seq(Callback)
    BY <1>1, <1>2
<1> QED BY <1>2, <1>3, ChangeWindowsIs

\* The bundle of an ability is a bundle.
LEMMA BundleOfAbility == \A a \in Ability : BundleOf[a] \in Bundle
    BY DEF Bundle

\* Threads work on bundles.
LEMMA WorkingOnBundles == TypeInv => \A t \in Thread : WorkingOn(t) \subseteq Bundle
<1> SUFFICES ASSUME TypeInv, NEW t \in Thread PROVE WorkingOn(t) \subseteq Bundle
    OBVIOUS
<1>1. thread[t].todo \subseteq KnownWindow /\ thread[t].ability \in Ability \cup {None}
    BY DEF TypeInv, TypeOK, ThreadState
<1>2. \A w \in KnownWindow : OwnerOf[w] \in Ability
    BY ObserversAssumption DEF KnownWindow
<1> QED BY <1>1, <1>2, BundleOfAbility DEF WorkingOn

\* Every step keeps states well formed and threads proper.
LEMMA TypeStep == TypeInv /\ [Next]_vars => TypeInv'
<1> SUFFICES ASSUME TypeInv, [Next]_vars PROVE TypeInv'
    OBVIOUS
<1> USE DEF TypeInv
<1>1. CASE SubscribeAppState
    BY <1>1 DEF SubscribeAppState, TypeOK, ThreadOK, Unsubscribed, manager, reports, tasks, queues,
                device, Thread
<1>2. CASE SubscribeWindowVisibility
    BY <1>2 DEF SubscribeWindowVisibility, TypeOK, ThreadOK, Unsubscribed, manager, reports, tasks,
                queues, device, Thread
<1>3. CASE OnWindowVisibilityChanged
  <2>1. /\ thread' \in [Thread -> ThreadState] /\ ThreadOK'
        /\ thread'["ability"] = thread["ability"]
    BY <1>3, CallbackBegun, ThreadMoved DEF TypeOK, Thread
  <2>2. windowQueue # <<>> /\ Head(windowQueue) \in Callback /\ windowQueue' \in Seq(Callback)
    BY <1>3, WordHandled DEF OnWindowVisibilityChanged, TypeOK
  <2>3. abilityWindowMap_' \in WindowMap
    BY <1>3, <2>2, CallbackHandled DEF OnWindowVisibilityChanged, TypeOK
  <2>4. disturbed' \subseteq Bundle
    BY <1>3, CallbackBegun, WorkingOnBundles DEF TypeOK, Meets, Thread
  <2>5. "window" \in subscribed
    BY <2>2 DEF Unsubscribed
  <2>6. UNCHANGED <<enabled, subscribed, appVisibilityMap_, reports, tasks, stateQueue, device>>
    BY <1>3 DEF OnWindowVisibilityChanged
  <2>7. TypeOK'
    BY <2>1, <2>2, <2>3, <2>4, <2>6 DEF TypeOK, reports, tasks, device
  <2>8. Unsubscribed'
    BY <2>1, <2>5, <2>6 DEF Unsubscribed
  <2> QED BY <2>1, <2>7, <2>8
<1>4. ASSUME NEW t \in Thread, ComputeVisibility(t)
      PROVE  TypeInv'
  <2>1. PICK a \in Ability, todo \in SUBSET KnownWindow, v \in BOOLEAN :
            LET th == At("store", todo, a, v, thread[t].event)
            IN  /\ thread[t].pc = "compute"
                /\ th \in ThreadState /\ Proper(t, th) /\ thread' = [thread EXCEPT ![t] = th]
    BY <1>4, VisibilityComputed
  <2>2. /\ thread' \in [Thread -> ThreadState] /\ ThreadOK'
        /\ \A u \in Thread : u # t => thread'[u] = thread[u]
    BY <2>1, ThreadMoved DEF TypeOK
  <2>3. thread[t] # Idle
    BY <2>1 DEF Idle, At
  <2>4. UNCHANGED <<enabled, subscribed, manager, reports, tasks, queues, device, disturbed>>
    BY <1>4 DEF ComputeVisibility
  <2>5. TypeOK'
    BY <2>2, <2>4 DEF TypeOK, manager, reports, tasks, queues, device
  <2>6. Unsubscribed'
    BY <2>1, <2>2, <2>3, <2>4 DEF Unsubscribed, Thread, manager, queues
  <2> QED BY <2>2, <2>5, <2>6
<1>5. ASSUME NEW t \in Thread, StoreVisibility(t)
      PROVE  TypeInv'
  <2>1. /\ thread[t].pc = "store" /\ thread[t].ability \in Ability
        /\ \E next \in ThreadState : Proper(t, next) /\ thread' = [thread EXCEPT ![t] = next]
    BY <1>5, VisibilityStored
  <2>2. /\ thread' \in [Thread -> ThreadState] /\ ThreadOK'
        /\ \A u \in Thread : u # t => thread'[u] = thread[u]
    BY <2>1, ThreadMoved DEF TypeOK
  <2>3. thread[t] # Idle
    BY <2>1 DEF Idle, At
  <2>4. UNCHANGED <<enabled, subscribed, abilityWindowMap_, reports, tasks, queues, device, disturbed>>
    BY <1>5 DEF StoreVisibility
  <2>5. appVisibilityMap_' \subseteq Bundle
    BY <1>5, <2>1, BundleOfAbility DEF StoreVisibility, Stored, TypeOK
  <2>6. TypeOK'
    BY <2>2, <2>4, <2>5 DEF TypeOK, reports, tasks, queues, device
  <2>7. Unsubscribed'
    BY <2>1, <2>2, <2>3, <2>4 DEF Unsubscribed, Thread, queues
  <2> QED BY <2>2, <2>6, <2>7
<1>6. ASSUME NEW t \in Thread, ReportAppStateChanged(t)
      PROVE  TypeInv'
  <2>1. /\ thread[t].pc = "report" /\ thread[t].ability \in Ability
        /\ \E next \in ThreadState : Proper(t, next) /\ thread' = [thread EXCEPT ![t] = next]
    BY <1>6, ChangeReported
  <2>2. /\ thread' \in [Thread -> ThreadState] /\ ThreadOK'
        /\ \A u \in Thread : u # t => thread'[u] = thread[u]
    BY <2>1, ThreadMoved DEF TypeOK
  <2>3. thread[t] # Idle
    BY <2>1 DEF Idle, At
  <2>4. UNCHANGED <<enabled, subscribed, manager, tasks, queues, device, disturbed>>
    BY <1>6 DEF ReportAppStateChanged
  <2>5. tracked' \subseteq Ability /\ lastReport' \in [Bundle -> {FOREGROUND, BACKGROUND}]
    BY <1>6, <2>1, BundleOfAbility DEF ReportAppStateChanged, Report, TypeOK
  <2>6. TypeOK'
    BY <2>2, <2>4, <2>5 DEF TypeOK, manager, tasks, queues, device
  <2>7. Unsubscribed'
    BY <2>1, <2>2, <2>3, <2>4 DEF Unsubscribed, Thread, manager, queues
  <2> QED BY <2>2, <2>6, <2>7
<1>7. CASE OnAbilityStateChanged
  <2>0. PICK a \in Ability, event \in Event, known \in SUBSET Window, th \in ThreadState :
          Begins(a, event, known, th)
    BY <1>7, EventBegun, Zenon
  <2>1. /\ abilityWindowMap_' = Restrict(abilityWindowMap_, DOMAIN abilityWindowMap_ \ known)
        /\ disturbed' = disturbed \cup Meets("ability", {BundleOf[a]})
                            \cup (IF known \cap shown # {} THEN {BundleOf[a]} ELSE {})
        /\ Proper("ability", th) /\ thread' = [thread EXCEPT !["ability"] = th]
        /\ ~enabled => th = At("event", {}, a, FALSE, event)
    BY <2>0 DEF Begins
  <2>2. /\ thread' \in [Thread -> ThreadState] /\ ThreadOK'
        /\ thread'["window"] = thread["window"]
        /\ ~enabled => thread'["ability"].pc = "event"
    <3>1. /\ thread' \in [Thread -> ThreadState] /\ ThreadOK'
          /\ thread'["ability"] = th /\ thread'["window"] = thread["window"]
      BY <2>1, ThreadMoved DEF TypeOK, Thread
    <3>2. ~enabled => th.pc = "event"
      BY <2>1 DEF At
    <3> QED BY <3>1, <3>2
  <2>3. stateQueue # <<>> /\ stateQueue' \in Seq(StateCallback)
    BY <1>7, EventHandled DEF OnAbilityStateChanged, TypeOK
  <2>4. /\ abilityWindowMap_' \in WindowMap
        /\ DOMAIN abilityWindowMap_ = {} => DOMAIN abilityWindowMap_' = {}
    BY <2>1, MapRestricted DEF TypeOK, Restrict
  <2>5. disturbed' \subseteq Bundle
    BY <2>1, BundleOfAbility DEF TypeOK, Meets
  <2>6. "ability" \in subscribed
    BY <2>3 DEF Unsubscribed
  <2>7. UNCHANGED <<enabled, subscribed, appVisibilityMap_, reports, tasks, windowQueue, device>>
    BY <1>7 DEF OnAbilityStateChanged
  <2>8. TypeOK'
    BY <2>2, <2>3, <2>4, <2>7, <2>5 DEF TypeOK, reports, tasks, device
  <2>9. Unsubscribed'
    BY <2>2, <2>4, <2>6, <2>7 DEF Unsubscribed
  <2> QED BY <2>2, <2>8, <2>9
<1>8. CASE ReportAbilityState
  <2>1. /\ thread' \in [Thread -> ThreadState] /\ ThreadOK'
        /\ thread'["window"] = thread["window"] /\ thread'["ability"] = Idle
    BY <1>8, IdleIsProper, ThreadMoved DEF ReportAbilityState, TypeOK, Thread
  <2>2. UNCHANGED <<enabled, subscribed, manager, lastReport, tasks, queues, device, disturbed>>
    BY <1>8 DEF ReportAbilityState
  <2>3. thread["ability"].ability \in Ability
    BY <1>8 DEF ReportAbilityState, TypeOK, ThreadOK, Proper, Thread, ThreadState
  <2>4. tracked' \subseteq Ability
    BY <1>8, <2>3 DEF ReportAbilityState, Report, TypeOK
  <2>5. TypeOK'
    BY <2>1, <2>2, <2>4 DEF TypeOK, manager, tasks, queues, device
  <2>6. Unsubscribed'
    BY <2>1, <2>2 DEF Unsubscribed, manager, queues, Idle, At
  <2> QED BY <2>1, <2>5, <2>6
<1>9. ASSUME NEW a \in Ability, OnContinuousTask(a)
      PROVE  TypeInv'
  <2>1. /\ running' \subseteq Ability /\ openTasks' \subseteq Ability
        /\ bundleMgr_' \in {None, "live", "dead"} /\ changes' \in 0..MaxChanges
    BY <1>9, ObserversAssumption DEF OnContinuousTask, ReportContinuousTaskEvent, GetBundleMgr, TypeOK, SymDiff
  <2>2. UNCHANGED <<enabled, subscribed, manager, thread, reports, deaths, queues, state, shown, disturbed>>
    BY <1>9 DEF OnContinuousTask
  <2> QED BY <2>1, <2>2 DEF TypeOK, ThreadOK, Unsubscribed, manager, reports, queues
<1>10. CASE BundleMgrDies
  <2>1. bundleMgr_' \in {None, "live", "dead"} /\ deaths' \in 0..MaxDeaths
    BY <1>10, ObserversAssumption DEF BundleMgrDies, TypeOK
  <2> QED BY <1>10, <2>1 DEF BundleMgrDies, TypeOK, ThreadOK, Unsubscribed, manager, reports, queues, device
<1>11. CASE WindowsChange
  <2>1. PICK v, w \in Window : /\ ChangeWindows({v, w}) /\ changes < MaxChanges /\ changes' = changes + 1
                               /\ disturbed' = disturbed \cup Unheard({v, w}, {})
    BY <1>11 DEF WindowsChange
  <2>2. shown' \subseteq Window /\ windowQueue' \in Seq(Callback)
    BY <2>1, DeviceTyped
  <2>3. disturbed' \subseteq Bundle /\ changes' \in 0..MaxChanges
    BY <2>1, ObserversAssumption, BundleOfAbility DEF Unheard, TypeOK
  <2>4. "window" \notin subscribed => windowQueue' = windowQueue
    BY <2>1, ChangeWindowsIs
  <2>5. UNCHANGED <<enabled, subscribed, manager, thread, reports, tasks, stateQueue, state>>
    BY <1>11 DEF WindowsChange
  <2> QED BY <2>2, <2>3, <2>4, <2>5 DEF TypeOK, ThreadOK, Unsubscribed, manager, reports, tasks
<1>12. ASSUME NEW a \in Ability, NEW event \in {FOREGROUND, BACKGROUND, STOP}, AbilityChanges(a, event)
       PROVE  TypeInv'
  <2> DEFINE hidden == IF event = FOREGROUND THEN {} ELSE shown \cap WindowsOf(a)
  <2>1. hidden \in SUBSET Window /\ ChangeWindows(hidden)
    BY <1>12 DEF AbilityChanges, WindowsOf
  <2>2. shown' \subseteq Window /\ windowQueue' \in Seq(Callback)
    BY <2>1, DeviceTyped
  <2>3. disturbed' \subseteq Bundle
    <3>1. disturbed' = disturbed \cup Unheard(hidden, {a})
      BY <1>12 DEF AbilityChanges
    <3>2. Unheard(hidden, {a}) \subseteq Bundle
      BY <2>1, ObserversAssumption, BundleOfAbility DEF Unheard
    <3> QED BY <3>1, <3>2 DEF TypeOK
  <2>4. changes' \in 0..MaxChanges
    BY <1>12, ObserversAssumption DEF AbilityChanges, TypeOK
  <2>5. "window" \notin subscribed => windowQueue' = windowQueue
    BY <2>1, ChangeWindowsIs
  <2>6. /\ state' \in [Ability -> {None, FOREGROUND, BACKGROUND}]
        /\ stateQueue' \in Seq(StateCallback)
        /\ "ability" \notin subscribed => stateQueue' = stateQueue
    <3>1. [ability |-> a, event |-> event] \in StateCallback
      BY DEF StateCallback, Event
    <3>2. state' = [state EXCEPT ![a] = IF event = STOP THEN None ELSE event]
      BY <1>12 DEF AbilityChanges
    <3>3. stateQueue' = IF "ability" \in subscribed
                        THEN Append(stateQueue, [ability |-> a, event |-> event]) ELSE stateQueue
      BY <1>12 DEF AbilityChanges
    <3>4. stateQueue \in Seq(StateCallback)
      BY DEF TypeOK
    <3> QED BY <3>1, <3>2, <3>3, <3>4 DEF TypeOK
  <2>7. UNCHANGED <<enabled, subscribed, manager, thread, reports, tasks>>
    BY <1>12 DEF AbilityChanges
  <2> QED BY <2>2, <2>3, <2>4, <2>5, <2>6, <2>7 DEF TypeOK, ThreadOK, Unsubscribed, manager, reports, tasks
<1>13. CASE UNCHANGED vars
    BY <1>13 DEF vars, TypeOK, ThreadOK, Unsubscribed, manager, reports, tasks, queues, device
<1> QED BY <1>1, <1>2, <1>3, <1>4, <1>5, <1>6, <1>7, <1>8, <1>9, <1>10, <1>11, <1>12, <1>13 DEF Next

-----------------------------------------------------------------------------
(* No ghosts                                                               *)

\* What a step does to the windows the manager knows and to those there are.
LEMMA WindowsTouched ==
    ASSUME [Next]_vars
    PROVE  \/ OnWindowVisibilityChanged
           \/ OnAbilityStateChanged
           \/ \E ws \in SUBSET Window : ChangeWindows(ws) /\ UNCHANGED <<abilityWindowMap_, subscribed>>
           \/ UNCHANGED <<windowQueue, abilityWindowMap_, shown>>
<1>1. CASE WindowsChange
  <2>1. PICK v, w \in Window : ChangeWindows({v, w})
    BY <1>1 DEF WindowsChange
  <2> QED BY <1>1, <2>1 DEF WindowsChange, manager
<1>2. ASSUME NEW a \in Ability, NEW event \in {FOREGROUND, BACKGROUND, STOP}, AbilityChanges(a, event)
      PROVE  \E ws \in SUBSET Window : ChangeWindows(ws) /\ UNCHANGED <<abilityWindowMap_, subscribed>>
  <2> DEFINE hidden == IF event = FOREGROUND THEN {} ELSE shown \cap WindowsOf(a)
  <2>1. hidden \in SUBSET Window /\ ChangeWindows(hidden)
    BY <1>2 DEF AbilityChanges, WindowsOf
  <2> QED BY <1>2, <2>1 DEF AbilityChanges, manager
<1>3. SubscribeAppState \/ SubscribeWindowVisibility \/ ReportAbilityState \/ BundleMgrDies
        => UNCHANGED <<windowQueue, abilityWindowMap_, shown>>
    BY DEF SubscribeAppState, SubscribeWindowVisibility, ReportAbilityState, BundleMgrDies, manager,
           queues, device
<1>4. ASSUME NEW t \in Thread
      PROVE  ComputeVisibility(t) \/ StoreVisibility(t) \/ ReportAppStateChanged(t)
                => UNCHANGED <<windowQueue, abilityWindowMap_, shown>>
    BY DEF ComputeVisibility, StoreVisibility, ReportAppStateChanged, manager, queues, device
<1>5. ASSUME NEW a \in Ability
      PROVE  OnContinuousTask(a) => UNCHANGED <<windowQueue, abilityWindowMap_, shown>>
    BY DEF OnContinuousTask, manager, queues
<1>6. UNCHANGED vars => UNCHANGED <<windowQueue, abilityWindowMap_, shown>>
    BY DEF vars, manager, queues, device
<1> QED BY <1>1, <1>2, <1>3, <1>4, <1>5, <1>6 DEF Next

\* A window is told of, or stays as it is.
LEMMA WindowTold ==
    ASSUME TypeInv, NEW ws \in SUBSET Window, ChangeWindows(ws), NEW w \in Window
    PROVE  /\ w \in shown' <=> (IF w \in ws THEN w \notin shown ELSE w \in shown)
           /\ w \in ws /\ "window" \in subscribed =>
                /\ ~Silent(windowQueue', w)
                /\ IF w \in shown' THEN LastWord(windowQueue', w, TRUE) ELSE LastWord(windowQueue', w, FALSE)
           /\ w \notin ws =>
                /\ Silent(windowQueue', w) <=> Silent(windowQueue, w)
                /\ \A v \in BOOLEAN : LastWord(windowQueue, w, v) => LastWord(windowQueue', w, v)
           /\ "window" \notin subscribed => windowQueue' = <<>> /\ windowQueue = <<>>
<1>1. windowQueue \in Seq(Callback) /\ Told(ws) \in Callback
    BY ChangesTold DEF TypeInv, TypeOK
<1>2. w \in shown' <=> (IF w \in ws THEN w \notin shown ELSE w \in shown)
    BY ChangeWindowsIs
<1>3. "window" \notin subscribed => windowQueue' = <<>> /\ windowQueue = <<>>
    BY ChangeWindowsIs DEF TypeInv, Unsubscribed
<1>4. CASE "window" \notin subscribed \/ ws = {}
  <2>1. windowQueue' = windowQueue
    BY <1>4, ChangeWindowsIs
  <2> QED BY <1>2, <1>3, <1>4, <2>1
<1>5. CASE ~("window" \notin subscribed \/ ws = {})
  <2>1. windowQueue' = Append(windowQueue, Told(ws))
    BY <1>5, ChangeWindowsIs
  <2>2. Mentions(Told(ws), w) <=> w \in ws
    BY ChangesTold
  <2>3. w \in ws => (w \in shown' => Says(Told(ws), w, TRUE)) /\ (w \notin shown' => Says(Told(ws), w, FALSE))
    BY <1>2, ChangesTold
  <2>4. \A v \in BOOLEAN :
            /\ Says(Told(ws), w, v) => LastWord(windowQueue', w, v)
            /\ ~Mentions(Told(ws), w) /\ LastWord(windowQueue, w, v) => LastWord(windowQueue', w, v)
    BY <1>1, <2>1, WordAppended
  <2>5. Silent(windowQueue', w) <=> Silent(windowQueue, w) /\ ~Mentions(Told(ws), w)
    BY <1>1, <2>1, WordAppended
  <2> QED BY <1>2, <1>3, <1>5, <2>2, <2>3, <2>4, <2>5
<1> QED BY <1>4, <1>5

\* A callback is handled: the manager takes the windows it tells of for what it says.
LEMMA WindowHandled ==
    ASSUME TypeInv, OnWindowVisibilityChanged, NEW w \in Window
    PROVE  /\ \A v \in BOOLEAN : LastWord(windowQueue, w, v) =>
                \/ LastWord(windowQueue', w, v)
                \/ /\ Silent(windowQueue', w)
                   /\ w \notin SystemWindow => (Seen(abilityWindowMap_', w) <=> v)
           /\ Silent(windowQueue, w) => /\ Silent(windowQueue', w)
                                        /\ Seen(abilityWindowMap_', w) <=> Seen(abilityWindowMap_, w)
           /\ w \in SystemWindow => ~Seen(abilityWindowMap_', w)
           /\ shown' = shown
<1> DEFINE s == Head(windowQueue)
<1>1. /\ windowQueue \in Seq(Callback) /\ windowQueue # <<>> /\ windowQueue' = Tail(windowQueue)
      /\ shown' = shown /\ abilityWindowMap_' = HandleWindows(abilityWindowMap_, s)
      /\ abilityWindowMap_ \in WindowMap
    BY DEF OnWindowVisibilityChanged, TypeInv, TypeOK, device
<1>2. s \in Callback
    BY <1>1, WordHandled
<1>3. Seen(abilityWindowMap_', w) <=>
        IF w \in SystemWindow \/ ~Mentions(s, w) THEN Seen(abilityWindowMap_, w) ELSE Says(s, w, TRUE)
    BY <1>1, <1>2, CallbackHandled
<1>4. w \in SystemWindow => ~Seen(abilityWindowMap_, w)
    BY <1>1 DEF Seen, WindowMap, KnownWindow
<1> HIDE DEF s
<1>5. \A v \in BOOLEAN : Says(s, w, v) => Mentions(s, w) /\ (Says(s, w, TRUE) <=> v)
  <2> SUFFICES ASSUME NEW v \in BOOLEAN, Says(s, w, v)
               PROVE  Mentions(s, w) /\ (Says(s, w, TRUE) <=> v)
    OBVIOUS
  <2>1. PICK k \in DOMAIN s : s[k] = [window |-> w, visible |-> v]
    BY DEF Says
  <2>2. \A j \in DOMAIN s : s[j].window = w => j = k
    BY <1>2, <2>1 DEF Callback
  <2>3. Says(s, w, TRUE) => s[k] = [window |-> w, visible |-> TRUE]
    BY <2>2 DEF Says
  <2>4. s[k].visible = v /\ s[k].window = w
    BY <2>1
  <2>5. Says(s, w, TRUE) => v = TRUE
    BY <2>3, <2>4
  <2> QED BY <2>4, <2>5 DEF Mentions
<1>6. \A v \in BOOLEAN : LastWord(windowQueue, w, v) =>
        LastWord(windowQueue', w, v) \/ (Silent(windowQueue', w) /\ Says(s, w, v))
    BY <1>1, WordHandled DEF s
<1>7. Silent(windowQueue, w) <=> Silent(windowQueue', w) /\ ~Mentions(s, w)
    BY <1>1, WordHandled DEF s
<1> QED BY <1>1, <1>3, <1>4, <1>5, <1>6, <1>7

\* The end of an ability only takes windows away (ClearAbilityWindowInfo).
LEMMA MapCleared ==
    ASSUME TypeInv, OnAbilityStateChanged
    PROVE  /\ \A w : Seen(abilityWindowMap_', w) => Seen(abilityWindowMap_, w)
           /\ UNCHANGED <<windowQueue, shown>>
    BY EventBegun, MapRestricted DEF Begins, OnAbilityStateChanged, device, TypeInv, TypeOK

\* Every step keeps what is known of each window right, or the news of it on its way.
LEMMA WindowsStep == TypeInv /\ WindowsInv /\ [Next]_vars => WindowsInv'
<1> SUFFICES ASSUME TypeInv, WindowsInv, [Next]_vars, NEW w \in Window PROVE WindowOK(w)'
    BY DEF WindowsInv
<1>1. WindowOK(w)
    BY DEF WindowsInv
<1>2. CASE OnWindowVisibilityChanged
  <2>1. CASE w \in SystemWindow
    BY <1>1, <1>2, <2>1, WindowHandled DEF WindowOK
  <2>2. CASE w \notin SystemWindow
    BY <1>1, <1>2, <2>2, WindowHandled DEF WindowOK
  <2> QED BY <2>1, <2>2
<1>3. CASE OnAbilityStateChanged
    BY <1>1, <1>3, MapCleared DEF WindowOK
<1>4. ASSUME NEW ws \in SUBSET Window, ChangeWindows(ws), UNCHANGED <<abilityWindowMap_, subscribed>>
      PROVE  WindowOK(w)'
  <2>1. CASE "window" \in subscribed
    <3>1. CASE w \in ws
      BY <1>4, <2>1, <3>1, WindowTold DEF WindowOK
    <3>2. CASE w \notin ws
      BY <1>1, <1>4, <2>1, <3>2, WindowTold DEF WindowOK
    <3> QED BY <3>1, <3>2
  <2>2. CASE "window" \notin subscribed
    <3>1. windowQueue' = <<>> /\ DOMAIN abilityWindowMap_ = {}
      BY <1>4, <2>2, WindowTold DEF TypeInv, Unsubscribed
    <3>2. Silent(windowQueue', w) /\ ~Seen(abilityWindowMap_', w)
      BY <1>4, <3>1, EmptyMap DEF Silent, Seen
    <3> QED BY <3>2 DEF WindowOK
  <2> QED BY <2>1, <2>2
<1>5. CASE UNCHANGED <<windowQueue, abilityWindowMap_, shown>>
    BY <1>1, <1>5 DEF WindowOK
<1> QED BY <1>2, <1>3, <1>4, <1>5, WindowsTouched

\* At the start no window is known.
LEMMA WindowsInit == Init => WindowsInv
    BY EmptyMap DEF Init, WindowsInv, WindowOK, Silent, Seen

\* A window seen but not shown is told of by the last word about it.
LEMMA NoGhosts == WindowsInv /\ TypeInv => NoGhostWindow
<1> SUFFICES ASSUME WindowsInv, TypeInv, NEW w \in DOMAIN abilityWindowMap_, abilityWindowMap_[w],
                    w \notin shown
             PROVE  \E i \in DOMAIN windowQueue :
                        [window |-> w, visible |-> FALSE] \in ToSet(windowQueue[i])
    BY DEF NoGhostWindow
<1>1. w \in Window
    BY DEF TypeInv, TypeOK, WindowMap, KnownWindow
<1>2. LastWord(windowQueue, w, FALSE)
    BY <1>1 DEF WindowsInv, WindowOK, Seen
<1> QED BY <1>2 DEF LastWord, Says, ToSet

-----------------------------------------------------------------------------
(* The state of an ability                                                 *)

\* At its steps the thread of ability states keeps the ability and what happened to it.
LEMMA HandlingKept ==
    ASSUME TypeInv, NEW t \in Thread,
           ComputeVisibility(t) \/ StoreVisibility(t) \/ ReportAppStateChanged(t)
    PROVE  /\ thread'["ability"].ability = thread["ability"].ability
           /\ thread'["ability"].event = thread["ability"].event
<1>1. CASE t = "window"
    BY <1>1, VisibilityComputed, VisibilityStored, ChangeReported DEF TypeInv, TypeOK, Thread
<1>2. CASE t = "ability"
  <2>1. thread \in [Thread -> ThreadState] /\ t \in Thread /\ thread[t] \in ThreadState /\ Proper(t, thread[t])
    BY DEF TypeInv, TypeOK, ThreadOK
  <2>2. CASE ComputeVisibility(t)
    <3>1. PICK a, todo, v : /\ a = thread[t].ability
                            /\ thread' = [thread EXCEPT ![t] = At("store", todo, a, v, thread[t].event)]
      BY <1>2, <2>2, VisibilityComputed
    <3> QED BY <1>2, <2>1, <3>1 DEF At
  <2>3. thread[t].pc \in {"store", "report"} =>
            AfterUpdate(thread[t]) = At("event", {}, thread[t].ability, FALSE, thread[t].event)
    BY <1>2, <2>1, AfterUpdateIs
  <2>4. CASE StoreVisibility(t)
    <3>1. /\ thread[t].pc = "store"
          /\ thread' = [thread EXCEPT ![t] =
                IF (BundleOf[thread[t].ability] \in appVisibilityMap_) = thread[t].isVisible
                THEN AfterUpdate(thread[t])
                ELSE At("report", thread[t].todo, thread[t].ability, thread[t].isVisible, thread[t].event)]
      BY <2>4, VisibilityStored
    <3> QED BY <1>2, <2>1, <2>3, <3>1 DEF At
  <2>5. CASE ReportAppStateChanged(t)
    <3>1. thread[t].pc = "report" /\ thread' = [thread EXCEPT ![t] = AfterUpdate(thread[t])]
      BY <2>5, ChangeReported
    <3> QED BY <1>2, <2>1, <2>3, <3>1 DEF At
  <2> QED BY <2>2, <2>4, <2>5
<1> QED BY <1>1, <1>2 DEF Thread

\* What a step does to the queue of ability states and to the abilities.
LEMMA StatesTouched ==
    ASSUME TypeInv, [Next]_vars
    PROVE  \/ OnAbilityStateChanged \/ ReportAbilityState \/ WindowsChange
           \/ \E a \in Ability, event \in {FOREGROUND, BACKGROUND, STOP} : AbilityChanges(a, event)
           \/ /\ UNCHANGED <<stateQueue, state, shown>>
              /\ thread'["ability"].ability = thread["ability"].ability
              /\ thread'["ability"].event = thread["ability"].event
<1>1. ASSUME NEW t \in Thread, ComputeVisibility(t) \/ StoreVisibility(t) \/ ReportAppStateChanged(t)
      PROVE  /\ UNCHANGED <<stateQueue, state, shown>>
             /\ thread'["ability"].ability = thread["ability"].ability
             /\ thread'["ability"].event = thread["ability"].event
    BY <1>1, HandlingKept DEF ComputeVisibility, StoreVisibility, ReportAppStateChanged, queues, device
<1>2. CASE OnWindowVisibilityChanged
    BY <1>2, CallbackBegun DEF OnWindowVisibilityChanged, TypeInv, TypeOK, Thread, device
<1>3. SubscribeAppState \/ SubscribeWindowVisibility \/ BundleMgrDies
        => UNCHANGED <<stateQueue, state, shown, thread>>
    BY DEF SubscribeAppState, SubscribeWindowVisibility, BundleMgrDies, queues, device
<1>4. ASSUME NEW a \in Ability
      PROVE  OnContinuousTask(a) => UNCHANGED <<stateQueue, state, shown, thread>>
    BY DEF OnContinuousTask, queues
<1>5. UNCHANGED vars => UNCHANGED <<stateQueue, state, shown, thread>>
    BY DEF vars, queues, device
<1> QED BY <1>1, <1>2, <1>3, <1>4, <1>5 DEF Next

\* Every step keeps the last callback of an ability right, or its handling.
LEMMA StatesStep == TypeInv /\ StatesInv /\ [Next]_vars => StatesInv'
<1> SUFFICES ASSUME TypeInv, StatesInv, [Next]_vars PROVE StatesInv'
    OBVIOUS
<1>1. /\ OwnerOf \in [Window -> Ability] /\ None \notin Ability /\ Idle.ability = None
      /\ FOREGROUND # BACKGROUND /\ FOREGROUND # STOP /\ FOREGROUND # None
      /\ stateQueue \in Seq(StateCallback) /\ shown \subseteq Window
    BY ObserversAssumption DEF TypeInv, TypeOK, None, Idle, At, FOREGROUND, BACKGROUND, STOP
<1>2. CASE OnAbilityStateChanged
  <2>0. PICK a \in Ability, event \in Event, known \in SUBSET Window, th \in ThreadState :
          Begins(a, event, known, th)
    BY <1>2, EventBegun, Zenon
  <2>1. /\ thread["ability"] = Idle /\ stateQueue # <<>>
        /\ Head(stateQueue) = [ability |-> a, event |-> event]
        /\ thread'["ability"] = th
        /\ th.ability # None => th.ability = a /\ th.event = event
    <3>1. /\ thread["ability"] = Idle /\ stateQueue # <<>>
          /\ Head(stateQueue) = [ability |-> a, event |-> event]
          /\ thread' = [thread EXCEPT !["ability"] = th]
          /\ \/ th = Idle
             \/ th = At("compute", {}, a, FALSE, event)
             \/ th = At("event", {}, a, FALSE, event)
      BY <2>0 DEF Begins
    <3>2. thread'["ability"] = th
      BY <3>1 DEF TypeInv, TypeOK, Thread
    <3>3. th.ability # None => th.ability = a /\ th.event = event
      BY <3>1 DEF Idle, At
    <3> QED BY <3>1, <3>2, <3>3
  <2>2. stateQueue' = Tail(stateQueue) /\ state' = state /\ shown' = shown
    BY <1>2 DEF OnAbilityStateChanged, device
  <2>3. Head(stateQueue).ability = a /\ Head(stateQueue).event = event
    BY <2>1
  <2>4. ASSUME NEW c \in Ability
        PROVE  StateOK(c)'
    <3>1. StateOK(c)
      BY DEF StatesInv
    <3>2. LastEvent(stateQueue, c, InFront(c)) =>
            \/ LastEvent(stateQueue', c, InFront(c))
            \/ NoEvent(stateQueue', c) /\ a = c /\ (event = FOREGROUND <=> InFront(c))
      BY <1>1, <2>1, <2>2, <2>3, EventHandled DEF InFront
    <3>3. NoEvent(stateQueue, c) <=> NoEvent(stateQueue', c) /\ a # c
      BY <1>1, <2>1, <2>2, <2>3, EventHandled
    <3>4. InFront(c)' <=> InFront(c)
      BY <2>2 DEF InFront
    <3>5. Handling(c)' => a = c /\ thread'["ability"].event = event
      BY <1>1, <2>1 DEF Handling
    <3>6. CASE LastEvent(stateQueue, c, InFront(c)) /\ LastEvent(stateQueue', c, InFront(c))
      BY <2>2, <3>6 DEF StateOK, InFront
    <3>7. CASE /\ LastEvent(stateQueue, c, InFront(c))
               /\ NoEvent(stateQueue', c) /\ a = c /\ (event = FOREGROUND <=> InFront(c))
      BY <3>4, <3>5, <3>7 DEF StateOK
    <3>8. CASE NoEvent(stateQueue, c)
      BY <3>3, <3>5, <3>8 DEF StateOK
    <3> QED BY <3>1, <3>2, <3>6, <3>7, <3>8 DEF StateOK
  <2> QED BY <2>2, <2>4 DEF StatesInv, InFront
<1>3. CASE ReportAbilityState
  <2>1. thread'["ability"].ability = None /\ UNCHANGED <<stateQueue, state, shown>>
    BY <1>1, <1>3 DEF ReportAbilityState, TypeInv, TypeOK, Thread, queues, device
  <2> QED BY <1>1, <2>1 DEF StatesInv, StateOK, InFront, Handling
<1>4. CASE WindowsChange
  <2>1. PICK v, w \in Window : /\ \A x \in {v, w} : x \in shown \/ state[OwnerOf[x]] = FOREGROUND
                               /\ ChangeWindows({v, w})
    BY <1>4 DEF WindowsChange
  <2>2. shown' \subseteq shown \cup {v, w} /\ UNCHANGED <<state, stateQueue, thread>>
    BY <1>4, <2>1, ChangeWindowsIs DEF WindowsChange
  <2>3. \A x \in shown' : InFront(OwnerOf[x])'
    BY <2>1, <2>2 DEF StatesInv, InFront
  <2> QED BY <2>2, <2>3 DEF StatesInv, StateOK, InFront, Handling
<1>5. ASSUME NEW a \in Ability, NEW event \in {FOREGROUND, BACKGROUND, STOP}, AbilityChanges(a, event)
      PROVE  StatesInv'
  <2> DEFINE hidden == IF event = FOREGROUND THEN {} ELSE shown \cap WindowsOf(a)
             e == [ability |-> a, event |-> event]
  <2>1. /\ state' = [state EXCEPT ![a] = IF event = STOP THEN None ELSE event]
        /\ stateQueue' = IF "ability" \in subscribed THEN Append(stateQueue, e) ELSE stateQueue
        /\ thread' = thread /\ ChangeWindows(hidden)
    BY <1>5 DEF AbilityChanges
  <2>2. shown' = shown \ hidden
    <3>1. hidden \subseteq shown
      OBVIOUS
    <3> QED BY <2>1, <3>1, ChangeWindowsIs
  <2>3. e \in StateCallback /\ e.ability = a /\ e.event = event
    BY DEF StateCallback, Event
  <2>4. /\ state'[a] = FOREGROUND <=> event = FOREGROUND
        /\ \A c \in Ability : c # a => state'[c] = state[c]
    BY <1>1, <2>1 DEF TypeInv, TypeOK
  <2>5. ASSUME NEW x \in shown'
        PROVE  InFront(OwnerOf[x])'
    <3>1. x \in shown /\ OwnerOf[x] \in Ability /\ InFront(OwnerOf[x])
      BY <1>1, <2>2 DEF StatesInv
    <3>2. OwnerOf[x] = a => event = FOREGROUND
      BY <1>1, <2>2, <3>1 DEF WindowsOf
    <3> QED BY <2>4, <3>1, <3>2 DEF InFront
  <2>6. ASSUME NEW c \in Ability
        PROVE  StateOK(c)'
    <3>1. CASE "ability" \notin subscribed
      <4>1. stateQueue' = <<>> /\ thread'["ability"].ability = None
        BY <1>1, <2>1, <3>1 DEF TypeInv, Unsubscribed
      <4> QED BY <1>1, <4>1 DEF StateOK, NoEvent, Handling
    <3>2. CASE "ability" \in subscribed
      <4> HIDE DEF e
      <4>1. stateQueue' = Append(stateQueue, e)
        BY <2>1, <3>2
      <4>2. CASE c = a
        <5>1. \A v \in BOOLEAN : (event = FOREGROUND <=> v) => LastEvent(stateQueue', a, v)
          BY <1>1, <2>3, <4>1, EventAppended
        <5>2. InFront(c)' \in BOOLEAN /\ (event = FOREGROUND <=> InFront(c)')
          BY <2>4, <4>2 DEF InFront
        <5> QED BY <4>2, <5>1, <5>2 DEF StateOK
      <4>3. CASE c # a
        <5>1. \A v \in BOOLEAN : LastEvent(stateQueue, c, v) => LastEvent(stateQueue', c, v)
          BY <1>1, <2>3, <4>1, <4>3, EventAppended
        <5>2. NoEvent(stateQueue, c) => NoEvent(stateQueue', c)
          BY <1>1, <2>3, <4>1, <4>3, EventAppended
        <5>3. InFront(c)' = InFront(c) /\ InFront(c) \in BOOLEAN /\ Handling(c)' = Handling(c)
          BY <2>1, <2>4, <4>3 DEF InFront, Handling
        <5>4. StateOK(c)
          BY DEF StatesInv
        <5>5. CASE LastEvent(stateQueue, c, InFront(c))
          BY <5>1, <5>3, <5>5 DEF StateOK
        <5>6. CASE NoEvent(stateQueue, c) /\ (Handling(c) => (thread["ability"].event = FOREGROUND <=> InFront(c)))
          BY <2>1, <5>2, <5>3, <5>6 DEF StateOK
        <5> QED BY <5>4, <5>5, <5>6 DEF StateOK
      <4> QED BY <4>2, <4>3
    <3> QED BY <3>1, <3>2
  <2> QED BY <2>5, <2>6 DEF StatesInv
<1>6. CASE /\ UNCHANGED <<stateQueue, state, shown>>
           /\ thread'["ability"].ability = thread["ability"].ability
           /\ thread'["ability"].event = thread["ability"].event
    BY <1>6 DEF StatesInv, StateOK, InFront, Handling
<1> QED BY <1>2, <1>3, <1>4, <1>5, <1>6, StatesTouched

\* At the start no ability runs.
LEMMA StatesInit == Init => StatesInv
<1> SUFFICES ASSUME Init PROVE StatesInv
    OBVIOUS
<1>1. stateQueue = <<>> /\ shown = {} /\ thread["ability"].ability = None
    BY DEF Init, Thread, Idle, At
<1>2. None \notin Ability
    BY ObserversAssumption DEF None
<1> QED BY <1>1, <1>2 DEF StatesInv, StateOK, NoEvent, Handling

-----------------------------------------------------------------------------
(* The bundles whose callbacks did not meet                                *)

\* A thread works on the bundle it does something for; at rest it works on none.
LEMMA WorkOfThread ==
    ASSUME TypeInv, NEW t \in Thread
    PROVE  /\ \A b : (\E pc : Doing(t, pc, b)) => b \in WorkingOn(t)
           /\ thread[t] = Idle => WorkingOn(t) = {} /\ \A b, pc : ~Doing(t, pc, b)
           /\ t = "ability" => \A b : b \in WorkingOn(t) <=>
                                thread[t].ability # None /\ b = BundleOf[thread[t].ability]
    BY DEF TypeInv, ThreadOK, Proper, WorkingOn, Doing, Idle, At

\* What another thread does, and what a thread that stays does, is the same as before.
LEMMA OtherThread ==
    ASSUME NEW t, thread'[t] = thread[t]
    PROVE  /\ WorkingOn(t)' = WorkingOn(t)
           /\ \A pc, b : Doing(t, pc, b)' <=> Doing(t, pc, b)
    BY DEF WorkingOn, Doing

\* OnWindowVisibilityChanged keeps a bundle in order unless its callbacks meet.
LEMMA BundleCallback ==
    ASSUME TypeInv, WindowsInv, OnWindowVisibilityChanged, TypeInv', NEW b \in Bundle,
           b \notin disturbed', BundleOK(b)
    PROVE  BundleOK(b)'
<1> DEFINE windows == {w \in KnownWindow : Mentions(Head(windowQueue), w)}
           th == IF windows = {} THEN Idle ELSE At("compute", windows, None, FALSE, None)
           touched == {BundleOf[OwnerOf[w]] : w \in windows}
<1>1. /\ thread["window"] = Idle /\ thread' = [thread EXCEPT !["window"] = th]
      /\ disturbed' = disturbed \cup Meets("window", touched)
    BY CallbackBegun
<1>2. thread'["window"] = th /\ thread'["ability"] = thread["ability"]
    BY <1>1 DEF TypeInv, TypeOK, Thread
<1>3. b \in touched => b \notin WorkingOn("ability")
    BY <1>1 DEF Meets
<1>4. \A w \in Window : ~Mentions(Head(windowQueue), w) =>
            (Seen(abilityWindowMap_', w) <=> Seen(abilityWindowMap_, w))
    BY WordHandled, CallbackHandled DEF OnWindowVisibilityChanged, TypeInv, TypeOK
<1>5. /\ WorkingOn("window")' = touched /\ WorkingOn("window") = {}
      /\ \A pc : Doing("window", pc, b)' => FALSE
      /\ \A pc : Doing("window", pc, b) => FALSE
      /\ WorkingOn("ability")' = WorkingOn("ability")
      /\ \A pc : Doing("ability", pc, b)' <=> Doing("ability", pc, b)
  <2>1. th.todo = windows /\ th.ability = None
    BY DEF Idle, At
  <2>2. WorkingOn("window")' = touched /\ \A pc : Doing("window", pc, b)' => FALSE
    BY <1>2, <2>1 DEF WorkingOn, Doing
  <2> QED BY <1>1, <1>2, <2>2, WorkOfThread, OtherThread DEF Thread
<1>6. b \notin touched => (SeenBundle(b)' <=> SeenBundle(b))
  <2> SUFFICES ASSUME b \notin touched PROVE SeenBundle(b)' <=> SeenBundle(b)
    OBVIOUS
  <2>1. \A w \in KnownWindow : BundleOf[OwnerOf[w]] = b => ~Mentions(Head(windowQueue), w)
    OBVIOUS
  <2>2. DOMAIN abilityWindowMap_ \subseteq KnownWindow /\ DOMAIN abilityWindowMap_' \subseteq KnownWindow
    BY DEF TypeInv, TypeOK, WindowMap
  <2> QED BY <1>4, <2>1, <2>2 DEF KnownWindow, SeenBundle, Seen
<1>7. UNCHANGED <<enabled, appVisibilityMap_, lastReport, shown>>
    BY DEF OnWindowVisibilityChanged, reports, device
<1>8. Doing("ability", "store", b) \/ Doing("ability", "report", b) \/ Doing("ability", "event", b)
        => b \notin touched
    BY <1>3, WorkOfThread DEF Thread
<1> HIDE DEF touched
<1>9. ShownIsSeen(b)'
  <2> SUFFICES ASSUME NEW w \in KnownWindow, BundleOf[OwnerOf[w]] = b, Silent(windowQueue', w),
                      w \in shown'
               PROVE  Seen(abilityWindowMap_', w)
    BY DEF ShownIsSeen
  <2>1. w \in Window /\ w \notin SystemWindow /\ w \in shown
    BY <1>7 DEF KnownWindow
  <2>2. CASE Silent(windowQueue, w)
    BY <2>1, <2>2, WindowHandled DEF BundleOK, ShownIsSeen
  <2>3. CASE ~Silent(windowQueue, w)
    <3>1. LastWord(windowQueue, w, TRUE)
      BY <2>1, <2>3 DEF WindowsInv, WindowOK
    <3>2. ~LastWord(windowQueue', w, TRUE)
      BY DEF LastWord, Silent, Says, Mentions
    <3> QED BY <2>1, <3>1, <3>2, WindowHandled
  <2> QED BY <2>2, <2>3
<1>10. Apart(b)'
    BY <1>3, <1>5 DEF Apart
<1>11. StoredIsSeen(b)'
    BY <1>5, <1>6, <1>7 DEF BundleOK, StoredIsSeen, Thread
<1>12. FoundIsSeen(b)'
    BY <1>2, <1>5, <1>6, <1>7, <1>8 DEF BundleOK, FoundIsSeen, Thread
<1>13. ReportedIsStored(b)'
    BY <1>5, <1>7 DEF BundleOK, ReportedIsStored, Reporting, Thread
<1>14. FrontIsSeen(b)'
    BY <1>2, <1>5, <1>6, <1>8 DEF BundleOK, FrontIsSeen
<1> QED BY <1>9, <1>10, <1>11, <1>12, <1>13, <1>14 DEF BundleOK

\* So does ComputeVisibility, ...
LEMMA BundleComputed ==
    ASSUME TypeInv, NEW t \in Thread, ComputeVisibility(t), NEW b, BundleOK(b)
    PROVE  BundleOK(b)'
<1>1. PICK a \in Ability, todo \in SUBSET KnownWindow, v \in BOOLEAN :
        LET th == At("store", todo, a, v, thread[t].event)
        IN  /\ thread[t].pc = "compute"
            /\ v <=> SeenBundle(BundleOf[a])
            /\ th \in ThreadState /\ Proper(t, th) /\ thread' = [thread EXCEPT ![t] = th]
            /\ t = "ability" => a = thread[t].ability /\ todo = thread[t].todo
            /\ t = "window" => \E w \in thread[t].todo : a = OwnerOf[w] /\ todo = thread[t].todo \ {w}
    BY VisibilityComputed
<1>2. /\ thread'[t] = At("store", todo, a, v, thread[t].event)
      /\ \A u \in Thread : u # t => thread'[u] = thread[u]
    BY <1>1 DEF TypeInv, TypeOK
<1>3. thread'[t].pc = "store" /\ thread'[t].ability = a /\ thread'[t].isVisible = v /\ thread'[t].todo = todo
    BY <1>2 DEF At
<1>4. a # None /\ Proper(t, thread[t]) /\ thread[t].pc = "compute"
    BY <1>1, ObserversAssumption DEF None, TypeInv, ThreadOK
<1>5. WorkingOn(t)' = WorkingOn(t)
  <2>1. CASE t = "window"
    <3>1. thread[t].ability = None
      BY <1>4, <2>1 DEF Proper
    <3> QED BY <1>1, <1>3, <1>4, <2>1, <3>1 DEF WorkingOn
  <2>2. CASE t = "ability"
    BY <1>1, <1>3, <1>4, <2>2 DEF WorkingOn
  <2> QED BY <2>1, <2>2 DEF Thread
<1>6. \A u \in Thread : WorkingOn(u)' = WorkingOn(u)
    BY <1>2, <1>5, OtherThread
<1>7. /\ Doing(t, "store", b)' => (v <=> SeenBundle(b))
      /\ \A pc \in {"report", "event"} : ~Doing(t, pc, b)' /\ ~Doing(t, pc, b)
      /\ \A u \in Thread : u # t => \A pc : (Doing(u, pc, b)' <=> Doing(u, pc, b))
    BY <1>1, <1>2, <1>3, <1>4, OtherThread DEF Doing
<1>8. UNCHANGED <<enabled, abilityWindowMap_, appVisibilityMap_, lastReport, windowQueue, shown>>
    BY DEF ComputeVisibility, manager, reports, queues, device
<1>9. SeenBundle(b)' <=> SeenBundle(b)
    BY <1>8 DEF SeenBundle
<1>10. ShownIsSeen(b)' /\ Apart(b)' /\ StoredIsSeen(b)'
    BY <1>6, <1>8, <1>9 DEF BundleOK, ShownIsSeen, Apart, StoredIsSeen, Thread
<1>11. FoundIsSeen(b)'
    BY <1>2, <1>3, <1>7, <1>8, <1>9 DEF BundleOK, FoundIsSeen
<1>12. ReportedIsStored(b)'
    BY <1>7, <1>8 DEF BundleOK, ReportedIsStored, Reporting
<1>13. FrontIsSeen(b)'
    BY <1>2, <1>7, <1>9 DEF BundleOK, FrontIsSeen, Thread
<1> QED BY <1>10, <1>11, <1>12, <1>13 DEF BundleOK

\* After an update the thread works on what is left, or reports the end of the ability.
LEMMA AfterWork ==
    ASSUME NEW t \in Thread, NEW th \in ThreadState, Proper(t, th), th.pc \in {"store", "report"},
           thread'[t] = AfterUpdate(th)
    PROVE  /\ WorkingOn(t)' \subseteq {BundleOf[OwnerOf[w]] : w \in th.todo} \cup {BundleOf[th.ability]}
           /\ {BundleOf[OwnerOf[w]] : w \in th.todo} \subseteq WorkingOn(t)'
           /\ \A b : ~Doing(t, "store", b)' /\ ~Doing(t, "report", b)'
           /\ \A b : Doing(t, "event", b)' => t = "ability" /\ b = BundleOf[th.ability]
           /\ t = "ability" => thread'[t].event = STOP
<1>1. CASE t = "window"
  <2>1. CASE th.todo = {}
    <3>1. thread'[t].todo = {} /\ thread'[t].ability = None
      BY <1>1, <2>1, AfterUpdateIs DEF Idle, At
    <3> QED BY <1>1, <2>1, <3>1 DEF WorkingOn, Doing
  <2>2. CASE th.todo # {}
    <3>1. thread'[t].todo = th.todo /\ thread'[t].ability = None
      BY <1>1, <2>2, AfterUpdateIs DEF At
    <3> QED BY <1>1, <3>1 DEF WorkingOn, Doing
  <2> QED BY <2>1, <2>2
<1>2. CASE t = "ability"
  <2>1. /\ thread'[t].pc = "event" /\ thread'[t].todo = {} /\ thread'[t].ability = th.ability
        /\ thread'[t].event = th.event /\ th.event = STOP /\ th.todo = {}
    BY <1>2, AfterUpdateIs DEF At, Proper
  <2> QED BY <1>2, <2>1 DEF WorkingOn, Doing
<1> QED BY <1>1, <1>2 DEF Thread

\* ... StoreVisibility, ...
LEMMA BundleStored ==
    ASSUME TypeInv, NEW t \in Thread, StoreVisibility(t), NEW b, BundleOK(b)
    PROVE  BundleOK(b)'
<1> DEFINE th == thread[t]
           own == BundleOf[th.ability]
<1>1. /\ th.pc = "store" /\ th.ability \in Ability /\ th.ability # None
      /\ th \in ThreadState /\ Proper(t, th)
      /\ thread \in [Thread -> ThreadState]
    BY VisibilityStored DEF TypeInv, TypeOK, ThreadOK, Proper
<1>2. /\ thread'[t] = IF (own \in appVisibilityMap_) = th.isVisible THEN AfterUpdate(th)
                      ELSE At("report", th.todo, th.ability, th.isVisible, th.event)
      /\ \A u \in Thread : u # t => thread'[u] = thread[u]
    BY <1>1, VisibilityStored
<1>3. /\ appVisibilityMap_' = Stored(own, th.isVisible)
      /\ UNCHANGED <<abilityWindowMap_, lastReport, windowQueue, shown>>
    BY DEF StoreVisibility, reports, queues, device
<1>4. SeenBundle(b)' <=> SeenBundle(b)
    BY <1>3 DEF SeenBundle
<1>5. \A u \in Thread : u # t =>
        /\ WorkingOn(u)' = WorkingOn(u)
        /\ \A pc : Doing(u, pc, b)' <=> Doing(u, pc, b)
    BY <1>2, OtherThread
<1>6. WorkingOn(t) = {BundleOf[OwnerOf[w]] : w \in th.todo} \cup {own}
    BY <1>1 DEF WorkingOn
<1>7. th.isVisible \in BOOLEAN
    BY <1>1 DEF ThreadState
<1>8. /\ WorkingOn(t)' \subseteq WorkingOn(t)
      /\ WorkingOn(t) \ {own} \subseteq WorkingOn(t)'
      /\ ~Doing(t, "store", b)' /\ ~Doing(t, "report", b) /\ ~Doing(t, "event", b)
      /\ Doing(t, "event", b)' => t = "ability" /\ b = own /\ thread'[t].event = STOP
      /\ Doing(t, "report", b)' <=> b = own /\ ~((own \in appVisibilityMap_) = th.isVisible)
      /\ Doing(t, "report", b)' => thread'[t].isVisible = th.isVisible
  <2>1. CASE (own \in appVisibilityMap_) = th.isVisible
    <3>1. thread'[t] = AfterUpdate(th)
      BY <1>2, <2>1
    <3> HIDE DEF th
    <3>2. /\ WorkingOn(t)' \subseteq {BundleOf[OwnerOf[w]] : w \in th.todo} \cup {own}
          /\ {BundleOf[OwnerOf[w]] : w \in th.todo} \subseteq WorkingOn(t)'
          /\ ~Doing(t, "store", b)' /\ ~Doing(t, "report", b)'
          /\ Doing(t, "event", b)' => t = "ability" /\ b = own
          /\ t = "ability" => thread'[t].event = STOP
      BY <1>1, <3>1, AfterWork
    <3>3. ~Doing(t, "report", b) /\ ~Doing(t, "event", b)
      BY <1>1 DEF Doing, th
    <3> QED BY <1>6, <2>1, <3>2, <3>3
  <2>2. CASE ~((own \in appVisibilityMap_) = th.isVisible)
    <3>1. /\ thread'[t].pc = "report" /\ thread'[t].ability = th.ability
          /\ thread'[t].todo = th.todo /\ thread'[t].isVisible = th.isVisible
      BY <1>2, <2>2 DEF At
    <3>2. WorkingOn(t)' = WorkingOn(t)
      BY <3>1 DEF WorkingOn
    <3> QED BY <1>1, <2>2, <3>1, <3>2 DEF Doing
  <2> QED BY <2>1, <2>2
<1>9. /\ b # own => (b \in appVisibilityMap_' <=> b \in appVisibilityMap_)
      /\ own \in appVisibilityMap_' <=> th.isVisible
    BY <1>3, <1>7 DEF Stored
\* Its own bundle: what was found out is stored.
<1>10. CASE b = own
  <2>1. Doing(t, "store", b)
    BY <1>1, <1>10 DEF Doing
  <2>2. th.isVisible <=> SeenBundle(b)
    BY <2>1 DEF BundleOK, FoundIsSeen
  <2>3. \A u \in Thread : u # t => b \notin WorkingOn(u) /\ \A pc : ~Doing(u, pc, b)
    BY <1>6, <1>10, WorkOfThread DEF BundleOK, Apart, Thread
  <2>4. ~Reporting(b)
    BY <1>8, <2>3 DEF Reporting
  <2> HIDE DEF th, own
  <2>5. ShownIsSeen(b)'
    BY <1>3 DEF BundleOK, ShownIsSeen
  <2>6. Apart(b)'
    BY <1>5, <2>3 DEF Apart, Thread
  <2>7. StoredIsSeen(b)'
    BY <1>4, <1>9, <1>10, <2>2 DEF StoredIsSeen
  <2>8. FoundIsSeen(b)'
    <3>1. ASSUME NEW u \in Thread, u # t
          PROVE  \A pc : ~Doing(u, pc, b)'
      BY <1>5, <2>3, <3>1
    <3>2. Doing(t, "report", b)' => (thread'[t].isVisible <=> SeenBundle(b)')
      BY <1>4, <1>8, <2>2
    <3>3. b \in appVisibilityMap_' <=> SeenBundle(b)'
      BY <1>4, <1>9, <1>10, <2>2
    <3>4. ~Doing(t, "store", b)'
      BY <1>8
    <3> QED BY <3>1, <3>2, <3>3, <3>4 DEF FoundIsSeen
  <2>9. ReportedIsStored(b)'
    <3> SUFFICES ASSUME ~Reporting(b)'
                 PROVE  lastReport[b]' = FOREGROUND <=> b \in appVisibilityMap_'
      BY DEF ReportedIsStored
    <3>1. (own \in appVisibilityMap_) = th.isVisible
      BY <1>8, <1>10 DEF Reporting
    <3> QED BY <1>3, <1>9, <1>10, <2>4, <3>1 DEF BundleOK, ReportedIsStored
  <2>10. FrontIsSeen(b)'
    <3>1. Doing("ability", "event", b)' => thread'["ability"].event = STOP
      BY <1>5, <1>8, <2>3 DEF Thread
    <3> QED BY <3>1 DEF FrontIsSeen, FOREGROUND, STOP
  <2> QED BY <2>5, <2>6, <2>7, <2>8, <2>9, <2>10 DEF BundleOK
\* Another bundle is not affected.
<1>11. CASE b # own
  <2>1. \A u \in Thread : b \in WorkingOn(u)' <=> b \in WorkingOn(u)
    BY <1>5, <1>8, <1>11
  <2>2. \A pc \in {"store", "report", "event"} : ~Doing(t, pc, b)' /\ ~Doing(t, pc, b)
    BY <1>1, <1>8, <1>11 DEF Doing
  <2>3. \A u \in Thread, pc \in {"store", "report", "event"} : Doing(u, pc, b)' <=> Doing(u, pc, b)
    BY <1>5, <2>2
  <2> HIDE DEF th, own
  <2>4. ShownIsSeen(b)' /\ Apart(b)' /\ StoredIsSeen(b)'
    BY <1>3, <1>4, <1>9, <1>11, <2>1 DEF BundleOK, ShownIsSeen, Apart, StoredIsSeen, Thread
  <2>5. FoundIsSeen(b)'
    BY <1>2, <1>4, <1>5, <1>9, <1>11, <2>2, <2>3 DEF BundleOK, FoundIsSeen
  <2>6. ReportedIsStored(b)'
    BY <1>3, <1>9, <1>11, <2>3 DEF BundleOK, ReportedIsStored, Reporting
  <2>7. FrontIsSeen(b)'
    BY <1>2, <1>4, <2>2, <2>3 DEF BundleOK, FrontIsSeen, Thread
  <2> QED BY <2>4, <2>5, <2>6, <2>7 DEF BundleOK
<1> QED BY <1>10, <1>11

\* ... ReportAppStateChanged, ...
LEMMA BundleReported ==
    ASSUME TypeInv, NEW t \in Thread, ReportAppStateChanged(t), NEW b, BundleOK(b)
    PROVE  BundleOK(b)'
<1> DEFINE th == thread[t]
           own == BundleOf[th.ability]
<1>1. /\ th.pc = "report" /\ th.ability \in Ability /\ th.ability # None
      /\ th \in ThreadState /\ Proper(t, th)
      /\ thread \in [Thread -> ThreadState] /\ own \in Bundle
    BY ChangeReported, BundleOfAbility DEF TypeInv, TypeOK, ThreadOK, Proper
<1>2. thread'[t] = AfterUpdate(th) /\ \A u \in Thread : u # t => thread'[u] = thread[u]
    BY <1>1, ChangeReported
<1>3. /\ lastReport' = [lastReport EXCEPT ![own] = IF th.isVisible THEN FOREGROUND ELSE BACKGROUND]
      /\ UNCHANGED <<abilityWindowMap_, appVisibilityMap_, windowQueue, shown>>
    BY DEF ReportAppStateChanged, manager, queues, device
<1>4. SeenBundle(b)' <=> SeenBundle(b)
    BY <1>3 DEF SeenBundle
<1>5. \A u \in Thread : u # t =>
        /\ WorkingOn(u)' = WorkingOn(u)
        /\ \A pc : Doing(u, pc, b)' <=> Doing(u, pc, b)
    BY <1>2, OtherThread
<1>6. WorkingOn(t) = {BundleOf[OwnerOf[w]] : w \in th.todo} \cup {own}
    BY <1>1 DEF WorkingOn
<1>7. th.isVisible \in BOOLEAN
    BY <1>1 DEF ThreadState
<1>8. /\ WorkingOn(t)' \subseteq WorkingOn(t)
      /\ WorkingOn(t) \ {own} \subseteq WorkingOn(t)'
      /\ \A pc \in {"store", "report"} : ~Doing(t, pc, b)'
      /\ Doing(t, "event", b)' => t = "ability" /\ b = own /\ thread'[t].event = STOP
  <2> HIDE DEF th
  <2> QED BY <1>1, <1>2, <1>6, AfterWork
<1>9. /\ lastReport'[own] = FOREGROUND <=> th.isVisible
      /\ b # own => lastReport'[b] = lastReport[b]
    BY <1>1, <1>3, <1>7 DEF TypeInv, TypeOK, FOREGROUND, BACKGROUND
<1>10. CASE b = own
  <2>1. Doing(t, "report", b)
    BY <1>1, <1>10 DEF Doing
  <2>2. (th.isVisible <=> SeenBundle(b)) /\ (b \in appVisibilityMap_ <=> SeenBundle(b))
    BY <2>1 DEF BundleOK, FoundIsSeen
  <2>3. \A u \in Thread : u # t => b \notin WorkingOn(u) /\ \A pc : ~Doing(u, pc, b)
    BY <1>6, <1>10, WorkOfThread DEF BundleOK, Apart, Thread
  <2> HIDE DEF th, own
  <2>4. ShownIsSeen(b)' /\ StoredIsSeen(b)'
    BY <1>3, <1>4, <2>2 DEF BundleOK, ShownIsSeen, StoredIsSeen
  <2>5. Apart(b)'
    BY <1>5, <2>3 DEF Apart, Thread
  <2>6. FoundIsSeen(b)'
    <3>1. \A u \in Thread, pc \in {"store", "report"} : ~Doing(u, pc, b)'
      BY <1>5, <1>8, <2>3
    <3> QED BY <1>3, <1>4, <2>2, <3>1 DEF FoundIsSeen
  <2>7. ReportedIsStored(b)'
    BY <1>3, <1>9, <1>10, <2>2 DEF ReportedIsStored
  <2>8. FrontIsSeen(b)'
    <3>1. Doing("ability", "event", b)' => thread'["ability"].event = STOP
      BY <1>5, <1>8, <2>3 DEF Thread
    <3> QED BY <3>1 DEF FrontIsSeen, FOREGROUND, STOP
  <2> QED BY <2>4, <2>5, <2>6, <2>7, <2>8 DEF BundleOK
<1>11. CASE b # own
  <2>1. \A u \in Thread : b \in WorkingOn(u)' <=> b \in WorkingOn(u)
    BY <1>5, <1>8, <1>11
  <2>2. \A pc \in {"store", "report", "event"} : ~Doing(t, pc, b)' /\ ~Doing(t, pc, b)
    BY <1>1, <1>8, <1>11 DEF Doing
  <2>3. \A u \in Thread, pc \in {"store", "report", "event"} : Doing(u, pc, b)' <=> Doing(u, pc, b)
    BY <1>5, <2>2
  <2> HIDE DEF th, own
  <2>4. ShownIsSeen(b)' /\ Apart(b)' /\ StoredIsSeen(b)'
    BY <1>3, <1>4, <2>1 DEF BundleOK, ShownIsSeen, Apart, StoredIsSeen, Thread
  <2>5. FoundIsSeen(b)'
    BY <1>2, <1>3, <1>4, <2>2, <2>3 DEF BundleOK, FoundIsSeen
  <2>6. ReportedIsStored(b)'
    BY <1>3, <1>9, <1>11, <2>3 DEF BundleOK, ReportedIsStored, Reporting
  <2>7. FrontIsSeen(b)'
    BY <1>2, <1>4, <2>2, <2>3 DEF BundleOK, FrontIsSeen, Thread
  <2> QED BY <2>4, <2>5, <2>6, <2>7 DEF BundleOK
<1> QED BY <1>10, <1>11

\* ... OnAbilityStateChanged, unless it clears windows that are on the screen, ...
LEMMA BundleEvent ==
    ASSUME TypeInv, TypeInv', enabled, OnAbilityStateChanged, NEW b \in Bundle, b \notin disturbed',
           BundleOK(b)
    PROVE  BundleOK(b)'
<1>0. PICK a \in Ability, event \in Event, known \in SUBSET Window, th \in ThreadState :
        Begins(a, event, known, th)
    BY EventBegun, Zenon
<1>1. /\ thread["ability"] = Idle
      /\ known = IF event = STOP /\ enabled THEN WindowsOf(a) \cap DOMAIN abilityWindowMap_ ELSE {}
      /\ abilityWindowMap_' = Restrict(abilityWindowMap_, DOMAIN abilityWindowMap_ \ known)
      /\ disturbed' = disturbed \cup Meets("ability", {BundleOf[a]})
                          \cup (IF known \cap shown # {} THEN {BundleOf[a]} ELSE {})
      /\ thread' = [thread EXCEPT !["ability"] = th]
      /\ \/ event = FOREGROUND /\ enabled /\ ~SeenBundle(BundleOf[a]) /\ th = Idle
         \/ event = STOP /\ enabled /\ th = At("compute", {}, a, FALSE, event)
         \/ /\ ~(event = STOP /\ enabled)
            /\ event = FOREGROUND /\ enabled => SeenBundle(BundleOf[a])
            /\ th = At("event", {}, a, FALSE, event)
    BY <1>0 DEF Begins
<1> DEFINE own == BundleOf[a]
<1>2. thread'["ability"] = th /\ thread'["window"] = thread["window"]
    BY <1>1 DEF TypeInv, TypeOK, Thread
<1>3. b = own => b \notin WorkingOn("window") /\ known \cap shown = {}
    BY <1>1 DEF Meets
<1>4. UNCHANGED <<appVisibilityMap_, lastReport, windowQueue, shown>>
    BY DEF OnAbilityStateChanged, reports, device
<1>5. /\ WorkingOn("ability") = {} /\ \A pc : ~Doing("ability", pc, b)
      /\ WorkingOn("window")' = WorkingOn("window")
      /\ \A pc : Doing("window", pc, b)' <=> Doing("window", pc, b)
    BY <1>1, <1>2, WorkOfThread, OtherThread DEF Thread
<1>6. \A w : Seen(abilityWindowMap_', w) <=> Seen(abilityWindowMap_, w) /\ w \notin known
  <2>1. abilityWindowMap_ \in WindowMap
    BY DEF TypeInv, TypeOK
  <2>2. abilityWindowMap_' = Restrict(abilityWindowMap_, DOMAIN abilityWindowMap_ \ known)
    BY <1>1
  <2> QED BY <2>1, <2>2, MapRestricted
<1>7. known = {} \/ (event = STOP /\ th = At("compute", {}, a, FALSE, event))
  <2>1. CASE event = STOP /\ enabled
    <3>1. event # FOREGROUND
      BY <2>1 DEF FOREGROUND, STOP
    <3> QED BY <1>1, <2>1, <3>1, Zenon
  <2>2. CASE ~(event = STOP /\ enabled)
    <3>1. known = IF event = STOP /\ enabled THEN WindowsOf(a) \cap DOMAIN abilityWindowMap_ ELSE {}
      BY <1>1, Zenon
    <3> QED BY <2>2, <3>1, Zenon
  <2> QED BY <2>1, <2>2
<1>8. \A w \in known : BundleOf[OwnerOf[w]] = own
    BY <1>1 DEF WindowsOf
<1>9. b # own \/ known = {} => (SeenBundle(b)' <=> SeenBundle(b))
  <2>1. DOMAIN abilityWindowMap_ \subseteq KnownWindow /\ DOMAIN abilityWindowMap_' \subseteq KnownWindow
    BY DEF TypeInv, TypeOK, WindowMap
  <2>2. ASSUME b # own \/ known = {}
        PROVE  \A w : BundleOf[OwnerOf[w]] = b =>
                    (Seen(abilityWindowMap_', w) <=> Seen(abilityWindowMap_, w))
    BY <1>6, <1>8, <2>2
  <2> QED BY <2>1, <2>2 DEF SeenBundle, Seen
<1>10. /\ WorkingOn("ability")' \subseteq {own}
       /\ th # Idle => WorkingOn("ability")' = {own}
       /\ \A pc \in {"store", "report"} : ~Doing("ability", pc, b)'
       /\ Doing("ability", "event", b)' => /\ b = own /\ known = {}
                                           /\ thread'["ability"].event = FOREGROUND => SeenBundle(b)
  <2>1. a # None
    BY ObserversAssumption DEF None
  <2>2. CASE th = Idle
    BY <1>2, <2>2 DEF WorkingOn, Doing, Idle, At
  <2>3. CASE event = STOP /\ th = At("compute", {}, a, FALSE, event)
    BY <1>2, <2>1, <2>3 DEF WorkingOn, Doing, Idle, At
  <2>4. CASE /\ known = {} /\ th = At("event", {}, a, FALSE, event)
             /\ event = FOREGROUND => SeenBundle(own)
    BY <1>2, <2>1, <2>4 DEF WorkingOn, Doing, Idle, At
  <2> QED BY <1>1, <2>2, <2>3, <2>4
<1>11. ShownIsSeen(b)'
  <2> SUFFICES ASSUME NEW w \in KnownWindow, BundleOf[OwnerOf[w]] = b, Silent(windowQueue', w),
                      w \in shown'
               PROVE  Seen(abilityWindowMap_', w)
    BY DEF ShownIsSeen
  <2>1. Seen(abilityWindowMap_, w)
    BY <1>4 DEF BundleOK, ShownIsSeen
  <2>2. w \notin known
    BY <1>3, <1>4, <1>8
  <2> QED BY <1>6, <2>1, <2>2
<1> HIDE DEF own
<1>12. Apart(b)'
    BY <1>3, <1>5, <1>10 DEF Apart
<1>13. StoredIsSeen(b)'
  <2> SUFFICES ASSUME \A t \in Thread : b \notin WorkingOn(t)'
               PROVE  b \in appVisibilityMap_' <=> SeenBundle(b)'
    BY DEF StoredIsSeen
  <2>1. \A t \in Thread : b \notin WorkingOn(t)
    BY <1>5 DEF Thread
  <2>2. b # own \/ known = {}
    BY <1>7, <1>10 DEF Thread, At, Idle
  <2> QED BY <1>4, <1>9, <2>1, <2>2 DEF BundleOK, StoredIsSeen
<1>14. \A pc : Doing("window", pc, b) => b # own
    BY <1>3, WorkOfThread DEF Thread
<1>15. FoundIsSeen(b)'
  <2>1. CASE Doing("ability", "event", b)'
    <3>1. b = own /\ known = {}
      BY <1>10, <2>1
    <3>2. \A t \in Thread : b \notin WorkingOn(t)
      BY <1>3, <1>5, <3>1 DEF Thread
    <3>3. b \in appVisibilityMap_' <=> SeenBundle(b)'
      BY <1>4, <1>9, <3>1, <3>2 DEF BundleOK, StoredIsSeen
    <3>4. \A pc : ~Doing("window", pc, b)'
      BY <1>5, <1>14, <3>1
    <3> QED BY <1>10, <3>3, <3>4 DEF FoundIsSeen, Thread
  <2>2. CASE ~Doing("ability", "event", b)'
    <3>1. \A pc \in {"store", "report", "event"} : ~Doing("ability", pc, b)'
      BY <1>10, <2>2
    <3>2. \A pc : Doing("window", pc, b)' => Doing("window", pc, b) /\ (SeenBundle(b)' <=> SeenBundle(b))
      BY <1>5, <1>9, <1>14
    <3> QED BY <1>2, <1>4, <3>1, <3>2 DEF BundleOK, FoundIsSeen, Thread
  <2> QED BY <2>1, <2>2
<1>16. ReportedIsStored(b)'
    BY <1>4, <1>5, <1>10 DEF BundleOK, ReportedIsStored, Reporting, Thread
<1>17. FrontIsSeen(b)'
    BY <1>9, <1>10 DEF FrontIsSeen
<1> QED BY <1>11, <1>12, <1>13, <1>15, <1>16, <1>17 DEF BundleOK

\* ... and ReportAbilityState.
LEMMA BundleEventReported ==
    ASSUME TypeInv, ReportAbilityState, NEW b, BundleOK(b)
    PROVE  BundleOK(b)'
<1>1. /\ thread["ability"].pc = "event" /\ thread["ability"].ability # None
      /\ thread'["ability"] = Idle /\ thread'["window"] = thread["window"]
    BY DEF ReportAbilityState, TypeInv, TypeOK, ThreadOK, Proper, Thread
<1>2. UNCHANGED <<abilityWindowMap_, appVisibilityMap_, lastReport, windowQueue, shown>>
    BY DEF ReportAbilityState, manager, queues, device
<1>3. /\ WorkingOn("window")' = WorkingOn("window")
      /\ \A pc : Doing("window", pc, b)' <=> Doing("window", pc, b)
    BY <1>1, OtherThread
<1>4. WorkingOn("ability")' = {} /\ \A pc : ~Doing("ability", pc, b)'
    BY <1>1 DEF WorkingOn, Doing, Idle, At
<1>5. b \in WorkingOn("ability") => Doing("ability", "event", b)
    BY <1>1, WorkOfThread DEF Doing, Thread
<1>6. SeenBundle(b)' <=> SeenBundle(b)
    BY <1>2 DEF SeenBundle
<1>7. ShownIsSeen(b)' /\ Apart(b)'
    BY <1>2, <1>4 DEF BundleOK, ShownIsSeen, Apart
<1>8. StoredIsSeen(b)'
    BY <1>2, <1>3, <1>5, <1>6 DEF BundleOK, StoredIsSeen, FoundIsSeen, Thread
<1>9. FoundIsSeen(b)'
    BY <1>1, <1>2, <1>3, <1>4, <1>6 DEF BundleOK, FoundIsSeen, Thread
<1>10. ~Doing("ability", "report", b)
    BY <1>1 DEF Doing
<1>11. ReportedIsStored(b)'
    BY <1>2, <1>3, <1>4, <1>10 DEF BundleOK, ReportedIsStored, Reporting, Thread
<1>12. FrontIsSeen(b)'
    BY <1>4 DEF FrontIsSeen
<1> QED BY <1>7, <1>8, <1>9, <1>11, <1>12 DEF BundleOK

\* What depends on the manager, the threads and the reports only.
LEMMA BundleFramed ==
    ASSUME NEW b, UNCHANGED <<thread, abilityWindowMap_, appVisibilityMap_, lastReport>>, BundleOK(b),
           ShownIsSeen(b)'
    PROVE  BundleOK(b)'
<1>1. SeenBundle(b)' <=> SeenBundle(b)
    BY DEF SeenBundle
<1>2. \A t \in Thread : WorkingOn(t)' = WorkingOn(t) /\ \A pc : Doing(t, pc, b)' <=> Doing(t, pc, b)
    BY OtherThread
<1>3. Apart(b)' /\ StoredIsSeen(b)'
    BY <1>1, <1>2 DEF BundleOK, Apart, StoredIsSeen, Thread
<1>4. FoundIsSeen(b)' /\ ReportedIsStored(b)' /\ FrontIsSeen(b)'
    BY <1>1, <1>2 DEF BundleOK, FoundIsSeen, ReportedIsStored, Reporting, FrontIsSeen, Thread
<1> QED BY <1>3, <1>4 DEF BundleOK

\* A change of windows is told to the manager, or the bundle is disturbed.
LEMMA BundleDevice ==
    ASSUME TypeInv, NEW ws \in SUBSET Window, ChangeWindows(ws), NEW b, BundleOK(b),
           "window" \notin subscribed => \A w \in ws : BundleOf[OwnerOf[w]] # b,
           UNCHANGED abilityWindowMap_
    PROVE  ShownIsSeen(b)'
<1> SUFFICES ASSUME NEW w \in KnownWindow, BundleOf[OwnerOf[w]] = b, Silent(windowQueue', w), w \in shown'
             PROVE  Seen(abilityWindowMap_', w)
    BY DEF ShownIsSeen
<1>1. w \in Window
    BY DEF KnownWindow
<1>2. w \notin ws
    BY <1>1, WindowTold
<1>3. Silent(windowQueue, w) /\ w \in shown
    BY <1>1, <1>2, WindowTold
<1> QED BY <1>3 DEF BundleOK, ShownIsSeen

\* Steps that touch neither the manager nor its threads, reports and windows.
LEMMA BundlesTouched ==
    ASSUME [Next]_vars
    PROVE  \/ OnWindowVisibilityChanged
           \/ \E t \in Thread : ComputeVisibility(t) \/ StoreVisibility(t) \/ ReportAppStateChanged(t)
           \/ OnAbilityStateChanged \/ ReportAbilityState
           \/ \E ws \in SUBSET Window, abilities \in SUBSET Ability :
                /\ ChangeWindows(ws) /\ disturbed' = disturbed \cup Unheard(ws, abilities)
                /\ UNCHANGED <<enabled, thread, abilityWindowMap_, appVisibilityMap_, lastReport>>
           \/ UNCHANGED <<enabled, thread, abilityWindowMap_, appVisibilityMap_, lastReport,
                          windowQueue, shown, disturbed>>
<1>1. CASE WindowsChange
  <2>1. PICK v, w \in Window :
            ChangeWindows({v, w}) /\ disturbed' = disturbed \cup Unheard({v, w}, {})
    BY <1>1 DEF WindowsChange
  <2>2. {v, w} \in SUBSET Window /\ {} \in SUBSET Ability
    OBVIOUS
  <2> QED BY <1>1, <2>1, <2>2 DEF WindowsChange, manager, reports
<1>2. ASSUME NEW a \in Ability, NEW event \in {FOREGROUND, BACKGROUND, STOP}, AbilityChanges(a, event)
      PROVE  \E ws \in SUBSET Window, abilities \in SUBSET Ability :
                /\ ChangeWindows(ws) /\ disturbed' = disturbed \cup Unheard(ws, abilities)
                /\ UNCHANGED <<enabled, thread, abilityWindowMap_, appVisibilityMap_, lastReport>>
  <2> DEFINE hidden == IF event = FOREGROUND THEN {} ELSE shown \cap WindowsOf(a)
  <2>1. /\ hidden \in SUBSET Window /\ ChangeWindows(hidden)
        /\ disturbed' = disturbed \cup Unheard(hidden, {a})
    BY <1>2 DEF AbilityChanges, WindowsOf
  <2>2. {a} \in SUBSET Ability
    OBVIOUS
  <2> QED BY <1>2, <2>1, <2>2 DEF AbilityChanges, manager, reports
<1>3. SubscribeAppState \/ SubscribeWindowVisibility \/ BundleMgrDies
        => UNCHANGED <<enabled, thread, abilityWindowMap_, appVisibilityMap_, lastReport,
                       windowQueue, shown, disturbed>>
    BY DEF SubscribeAppState, SubscribeWindowVisibility, BundleMgrDies, manager, reports, queues, device
<1>4. ASSUME NEW a \in Ability
      PROVE  OnContinuousTask(a)
        => UNCHANGED <<enabled, thread, abilityWindowMap_, appVisibilityMap_, lastReport,
                       windowQueue, shown, disturbed>>
    BY DEF OnContinuousTask, manager, reports, queues
<1>5. UNCHANGED vars
        => UNCHANGED <<enabled, thread, abilityWindowMap_, appVisibilityMap_, lastReport,
                       windowQueue, shown, disturbed>>
    BY DEF vars, manager, reports, queues, device
<1> QED BY <1>1, <1>2, <1>3, <1>4, <1>5 DEF Next

\* A bundle once disturbed stays so.
LEMMA HistoryGrows == [Next]_vars => enabled' = enabled /\ disturbed \subseteq disturbed'
<1>1. OnWindowVisibilityChanged \/ OnAbilityStateChanged \/ ReportAbilityState
        => enabled' = enabled /\ disturbed \subseteq disturbed'
    BY DEF OnWindowVisibilityChanged, OnAbilityStateChanged, ReportAbilityState
<1>2. ASSUME NEW t \in Thread
      PROVE  ComputeVisibility(t) \/ StoreVisibility(t) \/ ReportAppStateChanged(t)
                => enabled' = enabled /\ disturbed \subseteq disturbed'
    BY DEF ComputeVisibility, StoreVisibility, ReportAppStateChanged
<1> QED BY <1>1, <1>2, BundlesTouched

\* Every step keeps the bundles in order whose callbacks did not meet.
LEMMA BundlesStep == TypeInv /\ WindowsInv /\ BundlesInv /\ [Next]_vars => BundlesInv'
<1> SUFFICES ASSUME TypeInv, WindowsInv, BundlesInv, [Next]_vars, enabled',
                    NEW b \in Bundle, b \notin disturbed'
             PROVE  BundleOK(b)'
    BY DEF BundlesInv, Bundle
<1>1. enabled /\ b \notin disturbed /\ BundleOK(b)
    BY HistoryGrows DEF BundlesInv
<1>2. TypeInv'
    BY TypeStep
<1>3. CASE OnWindowVisibilityChanged
    BY <1>1, <1>2, <1>3, BundleCallback
<1>4. ASSUME NEW t \in Thread, ComputeVisibility(t) \/ StoreVisibility(t) \/ ReportAppStateChanged(t)
      PROVE  BundleOK(b)'
    BY <1>1, <1>4, BundleComputed, BundleStored, BundleReported
<1>5. CASE OnAbilityStateChanged
    BY <1>1, <1>2, <1>5, BundleEvent
<1>6. CASE ReportAbilityState
    BY <1>1, <1>6, BundleEventReported
<1>7. ASSUME NEW ws \in SUBSET Window, NEW abilities \in SUBSET Ability, ChangeWindows(ws),
             disturbed' = disturbed \cup Unheard(ws, abilities),
             UNCHANGED <<enabled, thread, abilityWindowMap_, appVisibilityMap_, lastReport>>
      PROVE  BundleOK(b)'
  <2>1. "window" \notin subscribed => \A w \in ws : BundleOf[OwnerOf[w]] # b
    BY <1>7 DEF Unheard
  <2>2. ShownIsSeen(b)'
    BY <1>1, <1>7, <2>1, BundleDevice
  <2> QED BY <1>1, <1>7, <2>2, BundleFramed
<1>8. CASE UNCHANGED <<enabled, thread, abilityWindowMap_, appVisibilityMap_, lastReport,
                       windowQueue, shown, disturbed>>
  <2>1. ShownIsSeen(b)'
    BY <1>1, <1>8 DEF BundleOK, ShownIsSeen
  <2> QED BY <1>1, <1>8, <2>1, BundleFramed
<1> QED BY <1>3, <1>4, <1>5, <1>6, <1>7, <1>8, BundlesTouched

\* At the start nothing is visible and nothing was reported.
LEMMA BundlesInit == Init => BundlesInv
<1> SUFFICES ASSUME Init, NEW b \in Bundle PROVE BundleOK(b)
    BY DEF BundlesInv
<1>1. TypeInv /\ \A t \in Thread : thread[t] = Idle
    BY TypeInit DEF Init
<1>2. \A t \in Thread : WorkingOn(t) = {} /\ \A pc : ~Doing(t, pc, b)
    BY <1>1, WorkOfThread
<1>3. ~SeenBundle(b) /\ b \notin appVisibilityMap_ /\ lastReport[b] # FOREGROUND /\ shown = {}
    BY EmptyMap DEF Init, SeenBundle, FOREGROUND, BACKGROUND
<1> QED BY <1>2, <1>3 DEF BundleOK, ShownIsSeen, Apart, StoredIsSeen, FoundIsSeen, ReportedIsStored,
           Reporting, FrontIsSeen, Thread

\* With no callback on its way the windows seen are those on the screen.
LEMMA AtRestMatches == TypeInv /\ WindowsInv /\ BundlesInv => ReportedStateMatches
<1> SUFFICES ASSUME TypeInv, WindowsInv, BundlesInv, enabled, AtRest, NEW b \in Bundle \ disturbed
             PROVE  lastReport[b] = FOREGROUND <=> HasVisibleWindow(b)
    BY DEF ReportedStateMatches
<1>1. BundleOK(b)
    BY DEF BundlesInv
<1>2. \A t \in Thread : WorkingOn(t) = {} /\ \A pc : ~Doing(t, pc, b)
    BY WorkOfThread DEF AtRest
<1>3. lastReport[b] = FOREGROUND <=> SeenBundle(b)
    BY <1>1, <1>2 DEF BundleOK, StoredIsSeen, ReportedIsStored, Reporting
<1>4. \A w \in KnownWindow : BundleOf[OwnerOf[w]] = b =>
            (w \in shown <=> Seen(abilityWindowMap_, w))
  <2>1. \A w : Silent(windowQueue, w) /\ \A v \in BOOLEAN : ~LastWord(windowQueue, w, v)
    BY DEF AtRest, Silent, LastWord
  <2> QED BY <1>1, <2>1 DEF BundleOK, ShownIsSeen, WindowsInv, WindowOK, KnownWindow
<1>5. SeenBundle(b) <=> \E w \in KnownWindow : BundleOf[OwnerOf[w]] = b /\ Seen(abilityWindowMap_, w)
  <2>1. DOMAIN abilityWindowMap_ \subseteq KnownWindow
    BY DEF TypeInv, TypeOK, WindowMap
  <2> QED BY <2>1 DEF SeenBundle, Seen
<1>6. HasVisibleWindow(b) <=> \E w \in KnownWindow : BundleOf[OwnerOf[w]] = b /\ w \in shown
    BY DEF HasVisibleWindow, Counted, KnownWindow, TypeInv, TypeOK
<1> QED BY <1>3, <1>4, <1>5, <1>6

-----------------------------------------------------------------------------
(* What is tracked                                                         *)

CameToFront(a) == [ability |-> a, event |-> FOREGROUND]
NewsOfFront(a) == \E i \in DOMAIN stateQueue : stateQueue[i] = CameToFront(a)

\* The case of a manager whose windows are not looked at.
TrackedPlain(a) == NoEvent(stateQueue, a) /\ ~Handling(a) => (a \in tracked <=> InFront(a))

\* Nothing changes for an ability when its queue, its thread and its reports do not.
LEMMA TrackedFramed ==
    ASSUME NEW a, UNCHANGED <<stateQueue, state>>,
           thread'["ability"].ability = thread["ability"].ability,
           thread'["ability"].event = thread["ability"].event,
           a \in tracked' <=> a \in tracked
    PROVE  /\ FrontComes(a)' <=> FrontComes(a)
           /\ TrackedPlain(a) => TrackedPlain(a)'
           /\ /\ BundleOf[a] \in appVisibilityMap_' <=> BundleOf[a] \in appVisibilityMap_
              /\ Reporting(BundleOf[a]) => Reporting(BundleOf[a])'
              /\ TrackedOK(a)
              => TrackedOK(a)'
<1>1. FrontComes(a)' <=> FrontComes(a)
    BY DEF FrontComes, Handling
<1>2. TrackedPlain(a) => TrackedPlain(a)'
    BY DEF TrackedPlain, Handling, InFront
<1> QED BY <1>1, <1>2 DEF TrackedOK, InFront

\* Storing a visibility that changed leads to its report.
LEMMA TrackedStored ==
    ASSUME TypeInv, NEW t \in Thread, StoreVisibility(t), NEW a \in Ability,
           BundleOK(BundleOf[a]), TrackedOK(a)
    PROVE  TrackedOK(a)'
<1> DEFINE th == thread[t]
           own == BundleOf[th.ability]
           b == BundleOf[a]
<1>1. /\ th.pc = "store" /\ th.ability \in Ability /\ th.ability # None
      /\ th \in ThreadState /\ Proper(t, th) /\ thread \in [Thread -> ThreadState]
    BY VisibilityStored DEF TypeInv, TypeOK, ThreadOK, Proper
<1>2. /\ thread'[t] = IF (own \in appVisibilityMap_) = th.isVisible THEN AfterUpdate(th)
                      ELSE At("report", th.todo, th.ability, th.isVisible, th.event)
      /\ \A u \in Thread : u # t => thread'[u] = thread[u]
    BY <1>1, VisibilityStored
<1>3. appVisibilityMap_' = Stored(own, th.isVisible) /\ UNCHANGED <<tracked, stateQueue, state>>
    BY DEF StoreVisibility, reports, queues, device
<1>4. /\ thread'["ability"].ability = thread["ability"].ability
      /\ thread'["ability"].event = thread["ability"].event
    BY HandlingKept
<1>5. \A u \in Thread : u # t => (Doing(u, "report", b)' <=> Doing(u, "report", b))
    BY <1>2, OtherThread
<1>6. th.isVisible \in BOOLEAN
    BY <1>1 DEF ThreadState
<1>7. ~Doing(t, "report", b)
    BY <1>1 DEF Doing
<1>8. CASE b = own /\ ~((own \in appVisibilityMap_) = th.isVisible)
  <2>1. thread'[t].pc = "report" /\ thread'[t].ability = th.ability
    BY <1>2, <1>8 DEF At
  <2>2. Reporting(b)'
    BY <1>1, <1>8, <2>1 DEF Reporting, Doing
  <2> QED BY <2>2 DEF TrackedOK
<1>9. CASE ~(b = own /\ ~((own \in appVisibilityMap_) = th.isVisible))
  <2>1. b \in appVisibilityMap_' <=> b \in appVisibilityMap_
    BY <1>3, <1>6, <1>9 DEF Stored
  <2>2. Reporting(b) => Reporting(b)'
    BY <1>5, <1>7 DEF Reporting
  <2> QED BY <1>3, <1>4, <2>1, <2>2, TrackedFramed
<1> QED BY <1>8, <1>9

\* A report of the visibility of a bundle is one about its only ability.
LEMMA TrackedReported ==
    ASSUME TypeInv, NEW t \in Thread, ReportAppStateChanged(t), NEW a \in Ability,
           OnlyAbility(a), BundleOK(BundleOf[a]), TrackedOK(a)
    PROVE  TrackedOK(a)'
<1> DEFINE th == thread[t]
           own == BundleOf[th.ability]
           b == BundleOf[a]
<1>1. /\ th.pc = "report" /\ th.ability \in Ability /\ th.ability # None
      /\ th \in ThreadState /\ Proper(t, th) /\ thread \in [Thread -> ThreadState]
    BY ChangeReported DEF TypeInv, TypeOK, ThreadOK, Proper
<1>2. thread'[t] = AfterUpdate(th) /\ \A u \in Thread : u # t => thread'[u] = thread[u]
    BY <1>1, ChangeReported
<1>3. /\ tracked' = IF th.isVisible THEN tracked \cup {th.ability} ELSE tracked \ {th.ability}
      /\ UNCHANGED <<appVisibilityMap_, stateQueue, state>>
    BY DEF ReportAppStateChanged, Report, FOREGROUND, BACKGROUND, manager, queues, device
<1>4. CASE b = own
  <2>1. th.ability = a
    BY <1>1, <1>4 DEF OnlyAbility
  <2>2. Doing(t, "report", b)
    BY <1>1, <1>4 DEF Doing
  <2>3. th.isVisible <=> b \in appVisibilityMap_
    BY <2>2 DEF BundleOK, FoundIsSeen
  <2>4. a \in tracked' <=> b \in appVisibilityMap_'
    BY <1>3, <2>1, <2>3
  <2> QED BY <2>4 DEF TrackedOK
<1>5. CASE b # own
  <2>1. ~Doing(t, "report", b)
    BY <1>5 DEF Doing
  <2>2. \A u \in Thread : u # t => (Doing(u, "report", b)' <=> Doing(u, "report", b))
    BY <1>2, OtherThread
  <2>3. Reporting(b) => Reporting(b)'
    BY <2>1, <2>2 DEF Reporting
  <2>4. a \in tracked' <=> a \in tracked
    BY <1>3, <1>5
  <2>5. /\ thread'["ability"].ability = thread["ability"].ability
        /\ thread'["ability"].event = thread["ability"].event
    BY HandlingKept
  <2> QED BY <1>3, <2>3, <2>4, <2>5, TrackedFramed
<1> QED BY <1>4, <1>5

\* A callback is taken from the queue: that of an ability in front of a visible bundle is
\* not passed over.
LEMMA TrackedEvent ==
    ASSUME TypeInv, enabled, OnAbilityStateChanged, NEW a \in Ability, BundleOf[a] \notin disturbed',
           BundleOK(BundleOf[a]), TrackedOK(a)
    PROVE  TrackedOK(a)'
<1> DEFINE b == BundleOf[a]
<1>0. PICK c \in Ability, event \in Event, known \in SUBSET Window, th \in ThreadState :
        Begins(c, event, known, th)
    BY EventBegun, Zenon
<1>1. /\ thread["ability"] = Idle /\ stateQueue # <<>>
      /\ Head(stateQueue) = [ability |-> c, event |-> event]
      /\ disturbed' = disturbed \cup Meets("ability", {BundleOf[c]})
                          \cup (IF known \cap shown # {} THEN {BundleOf[c]} ELSE {})
      /\ thread' = [thread EXCEPT !["ability"] = th]
      /\ \/ event = FOREGROUND /\ enabled /\ ~SeenBundle(BundleOf[c]) /\ th = Idle
         \/ event = STOP /\ enabled /\ th = At("compute", {}, c, FALSE, event)
         \/ /\ ~(event = STOP /\ enabled)
            /\ event = FOREGROUND /\ enabled => SeenBundle(BundleOf[c])
            /\ th = At("event", {}, c, FALSE, event)
    BY <1>0 DEF Begins
<1>2. thread'["ability"] = th /\ thread'["window"] = thread["window"]
    BY <1>1 DEF TypeInv, TypeOK, Thread
<1>3. UNCHANGED <<appVisibilityMap_, tracked, state>> /\ stateQueue' = Tail(stateQueue)
    BY DEF OnAbilityStateChanged, reports, device
<1>4. Reporting(b)' <=> Reporting(b)
  <2>1. ~Doing("ability", "report", b)
    BY <1>1, WorkOfThread DEF Thread
  <2>2. th.pc # "report"
    BY <1>1 DEF Idle, At
  <2>3. ~Doing("ability", "report", b)'
    BY <1>2, <2>2 DEF Doing
  <2>4. Doing("window", "report", b)' <=> Doing("window", "report", b)
    BY <1>2, OtherThread
  <2> QED BY <2>1, <2>3, <2>4 DEF Reporting, Thread
<1>5. ~Handling(a)
    BY <1>1, ObserversAssumption DEF Handling, Idle, At, None
<1>6. NewsOfFront(a) => Head(stateQueue) = CameToFront(a) \/ NewsOfFront(a)'
  <2>1. stateQueue \in Seq(StateCallback) /\ stateQueue # <<>>
    BY <1>1 DEF TypeInv, TypeOK
  <2>2. \A d : (\E i \in DOMAIN stateQueue : stateQueue[i] = d) =>
                    (d = Head(stateQueue) \/ \E i \in DOMAIN stateQueue' : stateQueue'[i] = d)
    BY <1>3, <2>1, InHandled
  <2> QED BY <2>2 DEF NewsOfFront
<1>7. ASSUME b \in appVisibilityMap_, Head(stateQueue) = CameToFront(a)
      PROVE  Handling(a)' /\ thread'["ability"].event = FOREGROUND
  <2>1. c = a /\ event = FOREGROUND
    BY <1>1, <1>7 DEF CameToFront
  <2>2. b \notin WorkingOn("window")
    BY <1>1, <2>1 DEF Meets
  <2>3. WorkingOn("ability") = {}
    BY <1>1, WorkOfThread DEF Thread
  <2>4. SeenBundle(b)
    BY <1>7, <2>2, <2>3 DEF BundleOK, StoredIsSeen, Thread
  <2>5. th = At("event", {}, a, FALSE, FOREGROUND)
    BY <1>1, <2>1, <2>4 DEF FOREGROUND, STOP
  <2> QED BY <1>2, <2>5 DEF Handling, At
<1>8. ASSUME ~Reporting(b), b \in appVisibilityMap_, a \notin tracked, InFront(a)
      PROVE  FrontComes(a)'
  <2>1. NewsOfFront(a)
    BY <1>5, <1>8 DEF TrackedOK, FrontComes, NewsOfFront, CameToFront
  <2> QED BY <1>6, <1>7, <1>8, <2>1 DEF FrontComes, NewsOfFront, CameToFront
<1> QED BY <1>3, <1>4, <1>8 DEF TrackedOK, InFront

\* The event of an ability is reported.
LEMMA TrackedEventReported ==
    ASSUME TypeInv, StatesInv, ReportAbilityState, NEW a \in Ability
    PROVE  /\ TrackedPlain(a) => TrackedPlain(a)'
           /\ OnlyAbility(a) /\ BundleOK(BundleOf[a]) /\ TrackedOK(a) => TrackedOK(a)'
<1> DEFINE th == thread["ability"]
           b == BundleOf[a]
<1>1. /\ th.pc = "event" /\ th.ability # None /\ th.ability \in Ability
      /\ thread'["ability"] = Idle /\ thread'["window"] = thread["window"]
    BY DEF ReportAbilityState, TypeInv, TypeOK, ThreadOK, Proper, Thread, ThreadState
<1>2. /\ tracked' = IF th.event = FOREGROUND THEN tracked \cup {th.ability} ELSE tracked \ {th.ability}
      /\ UNCHANGED <<appVisibilityMap_, stateQueue, state>>
    BY DEF ReportAbilityState, Report, manager, queues, device
<1>3. ~Handling(a)'
    BY <1>1, ObserversAssumption DEF Handling, Idle, At, None
<1>4. Reporting(b)' <=> Reporting(b)
  <2>1. ~Doing("ability", "report", b) /\ ~Doing("ability", "report", b)'
    BY <1>1 DEF Doing, Idle, At
  <2>2. Doing("window", "report", b)' <=> Doing("window", "report", b)
    BY <1>1, OtherThread
  <2> QED BY <2>1, <2>2 DEF Reporting, Thread
<1>5. InFront(a)' <=> InFront(a)
    BY <1>2 DEF InFront
<1>6. StateOK(a)
    BY DEF StatesInv
<1>7. CASE th.ability = a
  <2>1. Handling(a)
    BY <1>7 DEF Handling
  <2>2. a \in tracked' <=> th.event = FOREGROUND
    BY <1>2, <1>7
  <2>3. TrackedPlain(a)'
    <3> SUFFICES ASSUME NoEvent(stateQueue, a) PROVE a \in tracked' <=> InFront(a)'
      BY <1>2 DEF TrackedPlain
    <3>1. ~LastEvent(stateQueue, a, InFront(a))
      BY DEF LastEvent, NoEvent
    <3> QED BY <1>5, <1>6, <2>1, <2>2, <3>1 DEF StateOK
  <2>4. ASSUME BundleOK(b)
        PROVE  TrackedOK(a)'
    <3>1. Doing("ability", "event", b)
      BY <1>1, <1>7 DEF Doing
    <3>2. th.event = FOREGROUND => b \in appVisibilityMap_
      BY <2>4, <3>1 DEF BundleOK, FoundIsSeen, FrontIsSeen, Thread
    <3>3. th.event # FOREGROUND /\ InFront(a) => NewsOfFront(a)
      <4> SUFFICES ASSUME th.event # FOREGROUND, InFront(a) PROVE NewsOfFront(a)
        OBVIOUS
      <4>1. LastEvent(stateQueue, a, InFront(a))
        BY <1>6, <2>1 DEF StateOK
      <4>2. PICK i \in DOMAIN stateQueue : /\ stateQueue[i].ability = a
                                           /\ stateQueue[i].event = FOREGROUND <=> InFront(a)
        BY <4>1 DEF LastEvent
      <4>3. stateQueue[i] \in StateCallback
        BY DEF TypeInv, TypeOK
      <4>4. stateQueue[i] = CameToFront(a)
        BY <4>2, <4>3 DEF StateCallback, CameToFront
      <4> QED BY <4>4 DEF NewsOfFront
    <3>4. NewsOfFront(a) => FrontComes(a)'
      BY <1>2 DEF NewsOfFront, FrontComes, CameToFront
    <3> QED BY <1>2, <1>5, <2>2, <3>2, <3>3, <3>4 DEF TrackedOK
  <2> QED BY <2>3, <2>4
<1>8. CASE th.ability # a
  <2>1. ~Handling(a) /\ (a \in tracked' <=> a \in tracked)
    BY <1>2, <1>8 DEF Handling
  <2>2. FrontComes(a) => FrontComes(a)'
    BY <1>2, <2>1 DEF FrontComes
  <2>3. TrackedPlain(a) => TrackedPlain(a)'
    BY <1>2, <1>5, <2>1 DEF TrackedPlain
  <2> QED BY <1>2, <1>4, <1>5, <2>1, <2>2, <2>3 DEF TrackedOK
<1> QED BY <1>7, <1>8

\* An ability that comes to front is told of.
LEMMA TrackedAbility ==
    ASSUME TypeInv, NEW c \in Ability, NEW event \in {FOREGROUND, BACKGROUND, STOP},
           AbilityChanges(c, event), NEW a \in Ability, BundleOf[a] \notin disturbed'
    PROVE  /\ TrackedPlain(a) => TrackedPlain(a)'
           /\ TrackedOK(a) => TrackedOK(a)'
<1> DEFINE e == [ability |-> c, event |-> event]
           hidden == IF event = FOREGROUND THEN {} ELSE shown \cap WindowsOf(c)
<1>1. /\ state' = [state EXCEPT ![c] = IF event = STOP THEN None ELSE event]
      /\ stateQueue' = IF "ability" \in subscribed THEN Append(stateQueue, e) ELSE stateQueue
      /\ disturbed' = disturbed \cup Unheard(hidden, {c})
      /\ UNCHANGED <<thread, tracked, appVisibilityMap_>>
    BY DEF AbilityChanges, manager, reports
<1>2. e \in StateCallback /\ e.ability = c /\ e.event = event /\ stateQueue \in Seq(StateCallback)
    BY DEF StateCallback, Event, TypeInv, TypeOK
<1>3. InFront(c)' => event = FOREGROUND
    BY <1>1 DEF InFront, TypeInv, TypeOK, FOREGROUND, None
<1>4. a # c => (InFront(a)' <=> InFront(a))
    BY <1>1 DEF InFront, TypeInv, TypeOK
<1>5. \A b : Reporting(b)' <=> Reporting(b)
    BY <1>1 DEF Reporting, Doing
<1>6. Handling(a)' <=> Handling(a)
    BY <1>1 DEF Handling
<1> HIDE DEF hidden
<1>7. CASE "ability" \notin subscribed
  <2>1. a # c
    BY <1>1, <1>7 DEF Unheard
  <2>2. stateQueue' = stateQueue
    BY <1>1, <1>7
  <2> QED BY <1>1, <1>4, <1>5, <1>6, <2>1, <2>2 DEF TrackedPlain, TrackedOK, FrontComes
<1>8. CASE "ability" \in subscribed
  <2>1. stateQueue' = Append(stateQueue, e)
    BY <1>1, <1>8
  <2>2. c = a /\ event = FOREGROUND => e = CameToFront(a)
    BY DEF CameToFront
  <2> HIDE DEF e
  <2>3. e = CameToFront(a) \/ NewsOfFront(a) => NewsOfFront(a)'
    BY <1>2, <2>1, InAppended DEF NewsOfFront
  <2>4. NoEvent(stateQueue', a) => NoEvent(stateQueue, a) /\ c # a
    <3>1. \A v \in BOOLEAN : NoEvent(Append(stateQueue, e), a) <=> NoEvent(stateQueue, a) /\ e.ability # a
      BY <1>2, EventAppended
    <3> QED BY <1>2, <2>1, <3>1
  <2>5. TrackedPlain(a) => TrackedPlain(a)'
    BY <1>1, <1>4, <1>6, <2>4 DEF TrackedPlain
  <2>6. FrontComes(a) => FrontComes(a)'
    BY <1>1, <1>6, <2>3 DEF FrontComes, NewsOfFront, CameToFront
  <2>7. InFront(a)' => InFront(a) \/ FrontComes(a)'
    BY <1>3, <1>4, <2>2, <2>3 DEF FrontComes, NewsOfFront, CameToFront
  <2> QED BY <1>1, <1>5, <2>5, <2>6, <2>7 DEF TrackedOK
<1> QED BY <1>7, <1>8

\* What a step does to what is tracked and to what decides on it.
LEMMA TrackedTouched ==
    ASSUME [Next]_vars
    PROVE  \/ \E t \in Thread : ComputeVisibility(t) \/ StoreVisibility(t) \/ ReportAppStateChanged(t)
           \/ OnWindowVisibilityChanged \/ OnAbilityStateChanged \/ ReportAbilityState
           \/ \E a \in Ability, event \in {FOREGROUND, BACKGROUND, STOP} : AbilityChanges(a, event)
           \/ UNCHANGED <<stateQueue, state, thread, tracked, appVisibilityMap_>>
<1>1. SubscribeAppState \/ SubscribeWindowVisibility \/ BundleMgrDies \/ WindowsChange
        => UNCHANGED <<stateQueue, state, thread, tracked, appVisibilityMap_>>
    BY DEF SubscribeAppState, SubscribeWindowVisibility, BundleMgrDies, WindowsChange,
           manager, reports, queues, device
<1>2. ASSUME NEW a \in Ability
      PROVE  OnContinuousTask(a) => UNCHANGED <<stateQueue, state, thread, tracked, appVisibilityMap_>>
    BY DEF OnContinuousTask, manager, reports, queues
<1>3. UNCHANGED vars => UNCHANGED <<stateQueue, state, thread, tracked, appVisibilityMap_>>
    BY DEF vars, manager, reports, queues, device
<1> QED BY <1>1, <1>2, <1>3 DEF Next

\* Without windows no thread computes anything.
LEMMA NothingComputed ==
    ASSUME TypeInv, ~enabled, NEW t \in Thread
    PROVE  ~ComputeVisibility(t) /\ ~StoreVisibility(t) /\ ~ReportAppStateChanged(t)
<1>1. thread["window"].pc = "idle" /\ thread["ability"].pc \in {"idle", "event"}
    BY DEF TypeInv, Unsubscribed, Idle, At
<1> QED BY <1>1 DEF ComputeVisibility, StoreVisibility, ReportAppStateChanged, Thread

\* A callback of windows reports nothing at once.
LEMMA WindowThreadReportsLater ==
    ASSUME TypeInv, OnWindowVisibilityChanged
    PROVE  /\ thread'["ability"] = thread["ability"]
           /\ \A b : Reporting(b)' <=> Reporting(b)
           /\ UNCHANGED <<enabled, stateQueue, state, tracked, appVisibilityMap_>>
<1>1. /\ thread["window"] = Idle /\ thread'["ability"] = thread["ability"]
      /\ thread'["window"] = Idle \/ \E ws : thread'["window"] = At("compute", ws, None, FALSE, None)
    BY CallbackBegun DEF TypeInv, TypeOK, Thread
<1>2. \A b : ~Doing("window", "report", b) /\ ~Doing("window", "report", b)'
  <2>1. thread["window"].pc # "report"
    BY <1>1 DEF Idle, At
  <2>2. thread'["window"].pc # "report"
    <3>1. Idle.pc # "report" /\ \A ws : At("compute", ws, None, FALSE, None).pc # "report"
      BY DEF Idle, At
    <3> QED BY <1>1, <3>1
  <2> QED BY <2>1, <2>2 DEF Doing
<1>3. \A b : Doing("ability", "report", b)' <=> Doing("ability", "report", b)
    BY <1>1 DEF Doing
<1> QED BY <1>1, <1>2, <1>3 DEF Reporting, Thread, OnWindowVisibilityChanged, reports, device

\* The case of a manager whose windows are not looked at.
LEMMA TrackedPlainStep ==
    ASSUME TypeInv, StatesInv, [Next]_vars, ~enabled, NEW a \in Ability, BundleOf[a] \notin disturbed',
           TrackedPlain(a)
    PROVE  TrackedPlain(a)'
<1>1. CASE OnWindowVisibilityChanged
    BY <1>1, WindowThreadReportsLater, TrackedFramed
<1>2. CASE OnAbilityStateChanged
  <2>0. PICK c \in Ability, event \in Event, known \in SUBSET Window, th \in ThreadState :
          Begins(c, event, known, th)
    BY <1>2, EventBegun, Zenon
  <2>1. /\ thread["ability"] = Idle /\ stateQueue # <<>>
        /\ Head(stateQueue) = [ability |-> c, event |-> event]
        /\ thread' = [thread EXCEPT !["ability"] = th]
        /\ th = At("event", {}, c, FALSE, event)
    BY <2>0 DEF Begins
  <2>2. thread'["ability"].ability = c
    BY <2>1 DEF TypeInv, TypeOK, Thread, At
  <2>3. ~Handling(a)
    BY <2>1, ObserversAssumption DEF Handling, Idle, At, None
  <2>4. UNCHANGED <<tracked, state>> /\ stateQueue' = Tail(stateQueue)
    BY <1>2 DEF OnAbilityStateChanged, reports, device
  <2>5. NoEvent(stateQueue', a) /\ c # a => NoEvent(stateQueue, a)
    <3>1. \A v \in BOOLEAN : NoEvent(stateQueue, a) <=>
                NoEvent(Tail(stateQueue), a) /\ Head(stateQueue).ability # a
      BY <2>1, EventHandled DEF TypeInv, TypeOK
    <3>2. Head(stateQueue).ability = c
      BY <2>1
    <3> QED BY <2>4, <3>1, <3>2
  <2> QED BY <2>2, <2>3, <2>4, <2>5 DEF TrackedPlain, Handling, InFront
<1>3. CASE ReportAbilityState
    BY <1>3, TrackedEventReported
<1>4. ASSUME NEW c \in Ability, NEW event \in {FOREGROUND, BACKGROUND, STOP}, AbilityChanges(c, event)
      PROVE  TrackedPlain(a)'
    BY <1>4, TrackedAbility
<1>5. CASE UNCHANGED <<stateQueue, state, thread, tracked, appVisibilityMap_>>
    BY <1>5, TrackedFramed
<1> QED BY <1>1, <1>2, <1>3, <1>4, <1>5, TrackedTouched, NothingComputed

\* The case of a manager whose windows are looked at.
LEMMA TrackedOKStep ==
    ASSUME TypeInv, StatesInv, [Next]_vars, enabled, NEW a \in Ability, BundleOf[a] \notin disturbed',
           OnlyAbility(a), BundleOK(BundleOf[a]), TrackedOK(a)
    PROVE  TrackedOK(a)'
<1>1. CASE OnWindowVisibilityChanged
    BY <1>1, WindowThreadReportsLater, TrackedFramed
<1>2. ASSUME NEW t \in Thread, ComputeVisibility(t)
      PROVE  TrackedOK(a)'
  <2>1. /\ thread[t].pc = "compute" /\ \A u \in Thread : u # t => thread'[u] = thread[u]
    <3>1. \E th : thread[t].pc = "compute" /\ thread' = [thread EXCEPT ![t] = th]
      BY <1>2, VisibilityComputed
    <3> QED BY <3>1 DEF TypeInv, TypeOK
  <2>2. Reporting(BundleOf[a]) => Reporting(BundleOf[a])'
    BY <2>1 DEF Reporting, Doing
  <2>3. UNCHANGED <<stateQueue, state, tracked, appVisibilityMap_>>
    BY <1>2 DEF ComputeVisibility, manager, reports, queues, device
  <2> QED BY <1>2, <2>2, <2>3, HandlingKept, TrackedFramed
<1>3. ASSUME NEW t \in Thread, StoreVisibility(t) \/ ReportAppStateChanged(t)
      PROVE  TrackedOK(a)'
    BY <1>3, TrackedStored, TrackedReported
<1>4. CASE OnAbilityStateChanged
    BY <1>4, TrackedEvent
<1>5. CASE ReportAbilityState
    BY <1>5, TrackedEventReported
<1>6. ASSUME NEW c \in Ability, NEW event \in {FOREGROUND, BACKGROUND, STOP}, AbilityChanges(c, event)
      PROVE  TrackedOK(a)'
    BY <1>6, TrackedAbility
<1>7. CASE UNCHANGED <<stateQueue, state, thread, tracked, appVisibilityMap_>>
  <2>1. Reporting(BundleOf[a])' <=> Reporting(BundleOf[a])
    BY <1>7 DEF Reporting, Doing
  <2> QED BY <1>7, <2>1, TrackedFramed
<1> QED BY <1>1, <1>2, <1>3, <1>4, <1>5, <1>6, <1>7, TrackedTouched

\* Every step keeps what is tracked in agreement with what is stored, or the news on its way.
LEMMA TrackedStep == TypeInv /\ StatesInv /\ BundlesInv /\ TrackedInv /\ [Next]_vars => TrackedInv'
<1> SUFFICES ASSUME TypeInv, StatesInv, BundlesInv, TrackedInv, [Next]_vars,
                    NEW a \in Ability, BundleOf[a] \notin disturbed'
             PROVE  IF enabled' THEN OnlyAbility(a) => TrackedOK(a)' ELSE TrackedPlain(a)'
    BY DEF TrackedInv, TrackedPlain, OnlyAbility
<1>1. enabled' = enabled /\ BundleOf[a] \notin disturbed /\ BundleOf[a] \in Bundle
    BY HistoryGrows, BundleOfAbility
<1>2. CASE enabled
  <2>1. BundleOK(BundleOf[a]) /\ (OnlyAbility(a) => TrackedOK(a))
    BY <1>1, <1>2 DEF BundlesInv, TrackedInv
  <2> QED BY <1>1, <1>2, <2>1, TrackedOKStep
<1>3. CASE ~enabled
  <2>1. TrackedPlain(a)
    BY <1>1, <1>3 DEF TrackedInv, TrackedPlain
  <2> QED BY <1>1, <1>3, <2>1, TrackedPlainStep
<1> QED BY <1>2, <1>3

\* At the start nothing is tracked.
LEMMA TrackedInit == Init => TrackedInv
<1> SUFFICES ASSUME Init PROVE TrackedInv
    OBVIOUS
<1>1. \A a \in Ability : tracked = {} /\ ~InFront(a) /\ appVisibilityMap_ = {}
    BY DEF Init, InFront, FOREGROUND, None
<1> QED BY <1>1 DEF TrackedInv, TrackedOK

\* With no callback on its way what is tracked is what has a window on the screen.
LEMMA AtRestAgrees == TypeInv /\ WindowsInv /\ StatesInv /\ BundlesInv /\ TrackedInv => FrontAgrees
<1> SUFFICES ASSUME TypeInv, WindowsInv, StatesInv, BundlesInv, TrackedInv, AtRest,
                    NEW a \in Ability, OnlyAbility(a), BundleOf[a] \notin disturbed
             PROVE  a \in tracked <=> IF enabled THEN \E w \in shown : Counted(w) /\ OwnerOf[w] = a
                                      ELSE state[a] = FOREGROUND
    BY DEF FrontAgrees
<1> DEFINE b == BundleOf[a]
<1>1. NoEvent(stateQueue, a) /\ ~NewsOfFront(a) /\ ~Handling(a)
    BY ObserversAssumption DEF AtRest, NoEvent, NewsOfFront, Handling, Thread, Idle, At, None
<1>2. CASE ~enabled
    BY <1>1, <1>2 DEF TrackedInv, InFront
<1>3. CASE enabled
  <2>1. TrackedOK(a) /\ BundleOK(b)
    BY <1>3, BundleOfAbility DEF TrackedInv, BundlesInv
  <2>2. \A t \in Thread : WorkingOn(t) = {} /\ \A pc : ~Doing(t, pc, b)
    BY WorkOfThread DEF AtRest
  <2>3. b \in appVisibilityMap_ <=> SeenBundle(b)
    BY <2>1, <2>2 DEF BundleOK, StoredIsSeen
  <2>4. \A w : Silent(windowQueue, w) /\ \A v \in BOOLEAN : ~LastWord(windowQueue, w, v)
    BY DEF AtRest, Silent, LastWord
  <2>5. ~FrontComes(a) /\ ~Reporting(b)
    BY <1>1, <2>2 DEF FrontComes, NewsOfFront, CameToFront, Reporting
  <2>6. ASSUME a \in tracked
        PROVE  \E w \in shown : Counted(w) /\ OwnerOf[w] = a
    <3>1. SeenBundle(b)
      BY <2>1, <2>3, <2>5, <2>6 DEF TrackedOK
    <3>2. PICK w \in KnownWindow : BundleOf[OwnerOf[w]] = b /\ Seen(abilityWindowMap_, w)
      BY <3>1 DEF SeenBundle, Seen, TypeInv, TypeOK, WindowMap
    <3>3. w \in Window /\ w \notin SystemWindow /\ OwnerOf[w] \in Ability
      BY ObserversAssumption DEF KnownWindow
    <3>4. w \in shown
      BY <2>4, <3>2, <3>3 DEF WindowsInv, WindowOK
    <3> QED BY <3>2, <3>3, <3>4 DEF OnlyAbility, Counted
  <2>7. ASSUME NEW w \in shown, Counted(w), OwnerOf[w] = a
        PROVE  a \in tracked
    <3>1. w \in KnownWindow
      BY <2>7 DEF Counted, KnownWindow, TypeInv, TypeOK
    <3>2. Seen(abilityWindowMap_, w)
      BY <2>1, <2>4, <2>7, <3>1 DEF BundleOK, ShownIsSeen
    <3>3. SeenBundle(b)
      BY <2>7, <3>2 DEF SeenBundle, Seen
    <3>4. InFront(a)
      BY <2>7 DEF StatesInv
    <3> QED BY <2>1, <2>3, <2>5, <3>3, <3>4 DEF TrackedOK
  <2> QED BY <1>3, <2>6, <2>7
<1> QED BY <1>2, <1>3

-----------------------------------------------------------------------------
(* The theorems                                                            *)

\* The manager's map, the stored visibilities, the reports, the queues, the device and the
\* threads at each of their steps are what IInv says in every reachable state.
THEOREM InvariantHolds == Spec => []IInv
<1>1. Init => IInv
    BY TypeInit, WindowsInit, StatesInit, BundlesInit, TrackedInit DEF IInv
<1>2. IInv /\ [Next]_vars => IInv'
    BY TypeStep, WindowsStep, StatesStep, BundlesStep, TrackedStep DEF IInv
<1> QED BY <1>1, <1>2, PTL DEF Spec

\* Every variable keeps its type: the map has windows of the manager only, a thread that
\* stores or reports has an ability, every callback tells of each window once.
THEOREM TypeCorrect == Spec => []TypeOK
<1>1. IInv => TypeOK
    BY DEF IInv, TypeInv
<1> QED BY <1>1, InvariantHolds, PTL

\* A window the manager takes for visible (UpdateWindow) is on the screen, or the callback
\* that it was hidden is on its way, whatever the order in which callbacks of windows and
\* ends of abilities (ClearAbilityWindowInfo) are handled.
THEOREM NoGhostWindows == Spec => []NoGhostWindow
<1>1. IInv => NoGhostWindow
    BY NoGhosts DEF IInv
<1> QED BY <1>1, InvariantHolds, PTL

\* When all callbacks were handled, the last report about a bundle (ReportAppStateChanged)
\* says whether it has a visible window, unless its callbacks met on the two threads.
THEOREM ReportsMatchWindows == Spec => []ReportedStateMatches
<1>1. IInv => ReportedStateMatches
    BY AtRestMatches DEF IInv
<1> QED BY <1>1, InvariantHolds, PTL

\* When all callbacks were handled, the only ability of a bundle is tracked in front exactly
\* when it has a visible window, or, when the windows are not looked at, when it is in
\* front (OnAbilityStateChanged, ShouldProcessForegroundEvent).
THEOREM FrontAgreesWithWindows == Spec => []FrontAgrees
<1>1. IInv => FrontAgrees
    BY AtRestAgrees DEF IInv
<1> QED BY <1>1, InvariantHolds, PTL
=============================================================================
