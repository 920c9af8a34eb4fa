-------------------------- MODULE MemoryStatsProofs ---------------------------
(***************************************************************************)
(* Proofs about what a service keeps in memory and when it is saved.  Of   *)
(* EventList, for every set of time stamps, every set of bundles and every *)
(* bound on the length of the list.  Of PackageUsage, that the totals of a *)
(* BundleActivePackageStats object are exactly the times the bundle was in *)
(* front and had a continuous task, for every set of abilities and of      *)
(* tasks and every order of events.  Of FlushSchedule, for any set of      *)
(* users and whether or not the partition may run low: no event is lost in *)
(* a reload, what was reported and is in memory only is marked, and a user *)
(* with a key in taskHandlerMap_ has a flush on its way.                   *)
(***************************************************************************)
EXTENDS EventList, PackageUsage, FlushSchedule, SequenceTheorems, TLAPS

\* Inserting an element into a sequence (std::vector::insert): the length grows
\* by one, the elements before the position stay, the others move up by one.
LEMMA InsertAtProps ==
    ASSUME NEW S, NEW s \in Seq(S), NEW i \in 1..(Len(s) + 1), NEW e \in S
    PROVE  /\ InsertAt(s, i, e) \in Seq(S)
           /\ Len(InsertAt(s, i, e)) = Len(s) + 1
           /\ \A k \in 1..(i - 1) : InsertAt(s, i, e)[k] = s[k]
           /\ InsertAt(s, i, e)[i] = e
           /\ \A k \in (i + 1)..(Len(s) + 1) : InsertAt(s, i, e)[k] = s[k - 1]
<1> DEFINE a == SubSeq(s, 1, i - 1)
           b == SubSeq(s, i, Len(s))
           ae == a \o <<e>>
<1>0. Len(s) \in Nat /\ \A k \in 1..Len(s) : s[k] \in S
  OBVIOUS
<1>1. /\ a \in Seq(S) /\ Len(a) = i - 1
      /\ \A k \in 1..(i - 1) : a[k] = s[k]
  <2>1. /\ a \in Seq(S)
        /\ Len(a) = IF 1 <= i - 1 THEN (i - 1) - 1 + 1 ELSE 0
        /\ \A k \in 1..((i - 1) - 1 + 1) : a[k] = s[1 + k - 1]
    BY <1>0, SubSeqProperties
  <2> QED BY <2>1, <1>0
<1>2. /\ b \in Seq(S) /\ Len(b) = Len(s) - i + 1
      /\ \A k \in 1..(Len(s) - i + 1) : b[k] = s[i + k - 1]
  <2>1. /\ b \in Seq(S)
        /\ Len(b) = IF i <= Len(s) THEN Len(s) - i + 1 ELSE 0
        /\ \A k \in 1..(Len(s) - i + 1) : b[k] = s[i + k - 1]
    BY <1>0, SubSeqProperties
  <2> QED BY <2>1, <1>0
<1>3. /\ <<e>> \in Seq(S) /\ Len(<<e>>) = 1 /\ <<e>>[1] = e
  OBVIOUS
<1> HIDE DEF a, b
<1>4. /\ ae \in Seq(S) /\ Len(ae) = i
      /\ \A k \in 1..i : ae[k] = IF k <= i - 1 THEN a[k] ELSE <<e>>[k - (i - 1)]
  <2>1. /\ ae \in Seq(S) /\ Len(ae) = Len(a) + Len(<<e>>)
        /\ \A k \in 1..(Len(a) + Len(<<e>>)) :
              ae[k] = IF k <= Len(a) THEN a[k] ELSE <<e>>[k - Len(a)]
    BY <1>1, <1>3, ConcatProperties
  <2> QED BY <2>1, <1>1, <1>3
<1> HIDE DEF ae
<1>5. /\ ae \o b \in Seq(S) /\ Len(ae \o b) = Len(s) + 1
      /\ \A k \in 1..(Len(s) + 1) :
            (ae \o b)[k] = IF k <= i THEN ae[k] ELSE b[k - i]
  <2>1. /\ ae \o b \in Seq(S) /\ Len(ae \o b) = Len(ae) + Len(b)
        /\ \A k \in 1..(Len(ae) + Len(b)) :
              (ae \o b)[k] = IF k <= Len(ae) THEN ae[k] ELSE b[k - Len(ae)]
    BY <1>2, <1>4, ConcatProperties
  <2>2. Len(ae) + Len(b) = Len(s) + 1
    BY <1>0, <1>2, <1>4
  <2> QED BY <2>1, <2>2, <1>4
<1>6. InsertAt(s, i, e) = ae \o b
  BY DEF InsertAt, ae, a, b
<1>7. \A k \in 1..(i - 1) : (ae \o b)[k] = s[k]
  BY <1>0, <1>1, <1>4, <1>5
<1>8. (ae \o b)[i] = e
  BY <1>0, <1>3, <1>4, <1>5
<1>9. ASSUME NEW k \in (i + 1)..(Len(s) + 1)
      PROVE  (ae \o b)[k] = s[k - 1]
  <2>1. (ae \o b)[k] = b[k - i] /\ k - i \in 1..(Len(s) - i + 1)
    BY <1>0, <1>5
  <2>2. b[k - i] = s[i + (k - i) - 1]
    BY <2>1, <1>2
  <2>3. i + (k - i) - 1 = k - 1
    BY <1>0
  <2> QED BY <2>1, <2>2, <2>3
<1> QED BY <1>5, <1>6, <1>7, <1>8, <1>9

\* Erasing an element (std::vector::erase): the length shrinks by one and the
\* elements behind the position move down by one.
LEMMA RemoveAtProps ==
    ASSUME NEW S, NEW s \in Seq(S), NEW i \in 1..Len(s)
    PROVE  /\ RemoveAt(s, i) \in Seq(S)
           /\ Len(RemoveAt(s, i)) = Len(s) - 1
           /\ \A k \in 1..(Len(s) - 1) :
                RemoveAt(s, i)[k] = IF k < i THEN s[k] ELSE s[k + 1]
<1> DEFINE a == SubSeq(s, 1, i - 1)
           b == SubSeq(s, i + 1, Len(s))
<1>0. Len(s) \in Nat /\ \A k \in 1..Len(s) : s[k] \in S
  OBVIOUS
<1>1. /\ a \in Seq(S) /\ Len(a) = i - 1
      /\ \A k \in 1..(i - 1) : a[k] = s[k]
  <2>1. /\ a \in Seq(S)
        /\ Len(a) = IF 1 <= i - 1 THEN (i - 1) - 1 + 1 ELSE 0
        /\ \A k \in 1..((i - 1) - 1 + 1) : a[k] = s[1 + k - 1]
    BY <1>0, SubSeqProperties
  <2> QED BY <2>1, <1>0
<1>2. /\ b \in Seq(S) /\ Len(b) = Len(s) - i
      /\ \A k \in 1..(Len(s) - i) : b[k] = s[i + k]
  <2>1. /\ b \in Seq(S)
        /\ Len(b) = IF i + 1 <= Len(s) THEN Len(s) - (i + 1) + 1 ELSE 0
        /\ \A k \in 1..(Len(s) - (i + 1) + 1) : b[k] = s[(i + 1) + k - 1]
    BY <1>0, SubSeqProperties
  <2> QED BY <2>1, <1>0
<1> HIDE DEF a, b
<1>3. /\ a \o b \in Seq(S) /\ Len(a \o b) = Len(s) - 1
      /\ \A k \in 1..(Len(s) - 1) :
            (a \o b)[k] = IF k <= i - 1 THEN a[k] ELSE b[k - (i - 1)]
  <2>1. /\ a \o b \in Seq(S) /\ Len(a \o b) = Len(a) + Len(b)
        /\ \A k \in 1..(Len(a) + Len(b)) :
              (a \o b)[k] = IF k <= Len(a) THEN a[k] ELSE b[k - Len(a)]
    BY <1>1, <1>2, ConcatProperties
  <2>2. Len(a) + Len(b) = Len(s) - 1
    BY <1>0, <1>1, <1>2
  <2> QED BY <2>1, <2>2, <1>1
<1>4. RemoveAt(s, i) = a \o b
  BY DEF RemoveAt, a, b
<1>5. ASSUME NEW k \in 1..(Len(s) - 1)
      PROVE  (a \o b)[k] = IF k < i THEN s[k] ELSE s[k + 1]
  <2>1. CASE k < i
    BY <2>1, <1>0, <1>1, <1>3
  <2>2. CASE k >= i
    <3>1. (a \o b)[k] = b[k - (i - 1)] /\ k - (i - 1) \in 1..(Len(s) - i)
      BY <2>2, <1>0, <1>3
    <3>2. b[k - (i - 1)] = s[i + (k - (i - 1))]
      BY <3>1, <1>2
    <3>3. i + (k - (i - 1)) = k + 1
      BY <1>0
    <3>4. (a \o b)[k] = s[k + 1]
      BY <3>1, <3>2, <3>3
    <3>5. ~(k < i)
      BY <2>2, <1>0
    <3> QED BY <3>4, <3>5
  <2>3. k < i \/ k >= i
    BY <1>0
  <2> QED BY <2>1, <2>2, <2>3, Zenon
<1> QED BY <1>3, <1>4, <1>5
-----------------------------------------------------------------------------
\* The probe of FindBestIndex lies between lo and hi.
LEMMA MidBetween ==
    ASSUME lo \in Int, hi \in Int, lo <= hi
    PROVE  Mid \in Int /\ lo <= Mid /\ Mid <= hi
BY DEF Mid

\* Initially the list is empty and no loop is running.
LEMMA InitListIInv == ListInit => ListIInv
BY DEF ListInit, ListIInv, ListTypeOK, Sorted, SearchInv, EraseInv

\* Every step of Insert, FindBestIndex, Clear and DeleteMemEvent keeps the list
\* in order and what the two loops know.
LEMMA NextListIInv == ListIInv /\ [ListNext]_listVars => ListIInv'
<1> SUFFICES ASSUME ListIInv, [ListNext]_listVars PROVE ListIInv'
  OBVIOUS
<1> USE DEF ListIInv
<1>0. Len(events_) \in Nat
  BY DEF ListTypeOK
<1>t. \A i \in 1..Len(events_) : events_[i] \in Event /\ events_[i].timeStamp_ \in Int
  <2>1. \A i \in 1..Len(events_) : events_[i] \in Event
    BY <1>0 DEF ListTypeOK
  <2>2. \A e \in Event : e.timeStamp_ \in Int
    BY TimeAssumption DEF Event
  <2> QED BY <2>1, <2>2
<1>e. event.timeStamp_ \in Int
  BY TimeAssumption DEF ListTypeOK, Event
<1>1. ASSUME NEW e \in Event, InsertAtEnd(e) PROVE ListIInv'
  <2>1. /\ Len(events_') = Len(events_) + 1
        /\ \A i \in 1..Len(events_) : events_'[i] = events_[i]
        /\ events_'[Len(events_) + 1] = e
    BY <1>1, <1>0 DEF InsertAtEnd, ListTypeOK
  <2>2. ListTypeOK'
    BY <1>1 DEF InsertAtEnd, ListTypeOK
  <2>3. e.timeStamp_ \in Int
    BY TimeAssumption DEF Event
  <2>4. \A i \in 1..Len(events_) : events_[i].timeStamp_ <= e.timeStamp_
    BY <1>0, <1>1, <1>t, <2>3 DEF InsertAtEnd, Sorted
  <2>5. Sorted'
    BY <1>0, <1>t, <2>1, <2>3, <2>4 DEF Sorted
  <2> QED BY <1>1, <2>2, <2>5 DEF InsertAtEnd, SearchInv, EraseInv
<1>2. ASSUME NEW e \in Event, BeginSearch(e) PROVE ListIInv'
  <2>1. ListTypeOK'
    BY <1>0, <1>2 DEF BeginSearch, ListTypeOK
  <2>2. Sorted'
    BY <1>2 DEF BeginSearch, Sorted
  <2>3. SearchInv'
    BY <1>0, <1>2 DEF BeginSearch, SearchInv
  <2> QED BY <1>2, <2>1, <2>2, <2>3 DEF BeginSearch, EraseInv
<1>3. CASE SearchStep
  <2>1. Mid \in Int /\ lo <= Mid /\ Mid <= hi
    BY <1>3, MidBetween DEF SearchStep, ListTypeOK
  <2>2. ListTypeOK'
    BY <1>3, <2>1 DEF SearchStep, ListTypeOK
  <2>3. Sorted' /\ EraseInv'
    BY <1>3 DEF SearchStep, Sorted, EraseInv
  <2>4. /\ 0 <= lo /\ lo <= result /\ result <= Len(events_) /\ hi = result - 1
        /\ \A i \in 1..lo : events_[i].timeStamp_ < event.timeStamp_
        /\ \A i \in (result + 1)..Len(events_) : events_[i].timeStamp_ >= event.timeStamp_
    BY <1>3 DEF SearchStep, SearchInv
  <2>m. Mid + 1 \in 1..Len(events_) /\ At(Mid) = events_[Mid + 1].timeStamp_
    BY <1>0, <2>1, <2>4 DEF At, ListTypeOK
  <2>5. CASE At(Mid) >= event.timeStamp_ /\ hi' = Mid - 1 /\ result' = Mid /\ lo' = lo
    <3>1. \A i \in (Mid + 1)..Len(events_) : events_[i].timeStamp_ >= event.timeStamp_
      <4> SUFFICES ASSUME NEW i \in (Mid + 1)..Len(events_)
                   PROVE  events_[i].timeStamp_ >= event.timeStamp_
        OBVIOUS
      <4>1. i \in 1..Len(events_) /\ (Mid + 1 = i \/ Mid + 1 < i)
        BY <1>0, <2>1, <2>4, <2>m
      <4>2. events_[Mid + 1].timeStamp_ <= events_[i].timeStamp_
        BY <4>1, <1>t, <2>m DEF Sorted
      <4> QED BY <4>1, <4>2, <1>e, <1>t, <2>5, <2>m
    <3> QED BY <1>0, <1>3, <2>1, <2>2, <2>3, <2>4, <2>5, <3>1 DEF SearchStep, SearchInv, ListTypeOK
  <2>6. CASE At(Mid) < event.timeStamp_ /\ lo' = Mid + 1 /\ hi' = hi /\ result' = result
    <3>1. \A i \in 1..(Mid + 1) : events_[i].timeStamp_ < event.timeStamp_
      <4> SUFFICES ASSUME NEW i \in 1..(Mid + 1)
                   PROVE  events_[i].timeStamp_ < event.timeStamp_
        OBVIOUS
      <4>1. i \in 1..Len(events_) /\ (Mid + 1 = i \/ i < Mid + 1)
        BY <1>0, <2>1, <2>4, <2>m
      <4>2. events_[i].timeStamp_ <= events_[Mid + 1].timeStamp_
        BY <4>1, <1>t, <2>m DEF Sorted
      <4> QED BY <4>1, <4>2, <1>e, <1>t, <2>6, <2>m
    <3> QED BY <1>0, <1>3, <2>1, <2>2, <2>3, <2>4, <2>6, <3>1 DEF SearchStep, SearchInv, ListTypeOK
  <2> QED BY <1>3, <2>5, <2>6 DEF SearchStep
<1>4. CASE InsertAtIndex
  <2>1. /\ result \in 0..Len(events_)
        /\ \A i \in 1..result : events_[i].timeStamp_ < event.timeStamp_
        /\ \A i \in (result + 1)..Len(events_) : events_[i].timeStamp_ >= event.timeStamp_
    BY <1>0, <1>4 DEF InsertAtIndex, SearchInv, ListTypeOK
  <2>2. /\ events_' \in Seq(Event)
        /\ Len(events_') = Len(events_) + 1
        /\ \A k \in 1..result : events_'[k] = events_[k]
        /\ events_'[result + 1] = event
        /\ \A k \in (result + 2)..(Len(events_) + 1) : events_'[k] = events_[k - 1]
    <3>1. PICK p \in 1..(Len(events_) + 1) : p = result + 1
      BY <1>0, <2>1
    <3>2. events_' = InsertAt(events_, p, event)
      BY <1>4, <3>1 DEF InsertAtIndex
    <3>3. events_ \in Seq(Event) /\ event \in Event
      BY DEF ListTypeOK
    <3>4. /\ InsertAt(events_, p, event) \in Seq(Event)
          /\ Len(InsertAt(events_, p, event)) = Len(events_) + 1
          /\ \A k \in 1..(p - 1) : InsertAt(events_, p, event)[k] = events_[k]
          /\ InsertAt(events_, p, event)[p] = event
          /\ \A k \in (p + 1)..(Len(events_) + 1) :
                InsertAt(events_, p, event)[k] = events_[k - 1]
      BY <3>3, InsertAtProps
    <3>5. p - 1 = result /\ p + 1 = result + 2
      BY <1>0, <2>1, <3>1
    <3> QED BY <3>1, <3>2, <3>4, <3>5
  <2>3. ListTypeOK'
    BY <1>4, <2>2 DEF InsertAtIndex, ListTypeOK
  <2>4. Sorted'
    <3> SUFFICES ASSUME NEW i \in 1..(Len(events_) + 1), NEW j \in 1..(Len(events_) + 1), i < j
                 PROVE  events_'[i].timeStamp_ <= events_'[j].timeStamp_
      BY <2>2 DEF Sorted
    <3>1. CASE j < result + 1
      <4>1. events_'[i] = events_[i] /\ events_'[j] = events_[j]
        <5>1. i \in 1..result /\ j \in 1..result
          BY <3>1, <1>0, <2>1
        <5> QED BY <5>1, <2>2
      <4> QED BY <3>1, <4>1, <1>0, <2>1 DEF Sorted
    <3>2. CASE j = result + 1
      <4>1. events_'[i] = events_[i] /\ events_'[j] = event
        <5>1. i \in 1..result /\ j = result + 1
          BY <3>2, <1>0, <2>1
        <5> QED BY <5>1, <2>2
      <4>2. events_[i].timeStamp_ < event.timeStamp_ /\ events_[i].timeStamp_ \in Int
        BY <3>2, <1>0, <1>t, <2>1
      <4> QED BY <4>1, <4>2, <1>e
    <3>3. CASE j > result + 1 /\ i < result + 1
      <4>1. events_'[i] = events_[i] /\ events_'[j] = events_[j - 1]
        <5>1. i \in 1..result /\ j \in (result + 2)..(Len(events_) + 1)
          BY <3>3, <1>0, <2>1
        <5> QED BY <5>1, <2>2
      <4>2. events_[i].timeStamp_ < event.timeStamp_
            /\ events_[j - 1].timeStamp_ >= event.timeStamp_
            /\ events_[i].timeStamp_ \in Int /\ events_[j - 1].timeStamp_ \in Int
        <5>1. i \in 1..result /\ j - 1 \in (result + 1)..Len(events_)
              /\ i \in 1..Len(events_) /\ j - 1 \in 1..Len(events_)
          BY <3>3, <1>0, <2>1
        <5> QED BY <5>1, <1>t, <2>1
      <4> QED BY <4>1, <4>2, <1>e
    <3>4. CASE i = result + 1
      <4>1. events_'[i] = event /\ events_'[j] = events_[j - 1]
        <5>1. i = result + 1 /\ j \in (result + 2)..(Len(events_) + 1)
          BY <3>4, <1>0, <2>1
        <5> QED BY <5>1, <2>2
      <4>2. events_[j - 1].timeStamp_ >= event.timeStamp_
            /\ events_[j - 1].timeStamp_ \in Int
        <5>1. j - 1 \in (result + 1)..Len(events_) /\ j - 1 \in 1..Len(events_)
          BY <3>4, <1>0, <2>1
        <5> QED BY <5>1, <1>t, <2>1
      <4> QED BY <4>1, <4>2, <1>e
    <3>5. CASE i > result + 1
      <4>1. events_'[i] = events_[i - 1] /\ events_'[j] = events_[j - 1]
        <5>1. i \in (result + 2)..(Len(events_) + 1) /\ j \in (result + 2)..(Len(events_) + 1)
          BY <3>5, <1>0, <2>1
        <5> QED BY <5>1, <2>2
      <4>2. i - 1 \in 1..Len(events_) /\ j - 1 \in 1..Len(events_) /\ i - 1 < j - 1
        BY <3>5, <1>0, <2>1
      <4>3. events_[i - 1].timeStamp_ <= events_[j - 1].timeStamp_
        BY <4>2 DEF Sorted
      <4> QED BY <4>1, <4>3
    <3> QED BY <3>1, <3>2, <3>3, <3>4, <3>5, <1>0, <2>1
  <2> QED BY <1>4, <2>3, <2>4 DEF InsertAtIndex, SearchInv, EraseInv
<1>5. CASE Clear
  BY <1>5 DEF Clear, ListTypeOK, Sorted, SearchInv, EraseInv
<1>6. ASSUME NEW b \in Bundle, BeginErase(b) PROVE ListIInv'
  BY <1>0, <1>6 DEF BeginErase, ListTypeOK, Sorted, SearchInv, EraseInv
<1>7. CASE EraseStep
  <2>1. eventIter \in Nat /\ eventIter < Len(events_)
        /\ \A i \in 1..eventIter : events_[i].bundleName_ # deleted
    BY <1>7 DEF EraseStep, EraseInv, ListTypeOK
  <2>2. CASE events_[eventIter + 1].bundleName_ = deleted
             /\ events_' = RemoveAt(events_, eventIter + 1) /\ eventIter' = eventIter
    <3>1. /\ events_' \in Seq(Event)
          /\ Len(events_') = Len(events_) - 1
          /\ \A k \in 1..(Len(events_) - 1) :
                events_'[k] = IF k < eventIter + 1 THEN events_[k] ELSE events_[k + 1]
      <4>1. eventIter + 1 \in 1..Len(events_)
        BY <1>0, <2>1
      <4> QED BY <2>2, <4>1, RemoveAtProps DEF ListTypeOK
    <3>2. ListTypeOK'
      BY <1>7, <2>2, <3>1 DEF EraseStep, ListTypeOK
    <3>3. Sorted'
      <4> SUFFICES ASSUME NEW i \in 1..(Len(events_) - 1), NEW j \in 1..(Len(events_) - 1), i < j
                   PROVE  events_'[i].timeStamp_ <= events_'[j].timeStamp_
        BY <3>1 DEF Sorted
      <4>1. PICK k \in 1..Len(events_), l \in 1..Len(events_) :
                k < l /\ events_'[i] = events_[k] /\ events_'[j] = events_[l]
        <5> DEFINE to(n) == IF n < eventIter + 1 THEN n ELSE n + 1
        <5>1. \A n \in 1..(Len(events_) - 1) :
                  to(n) \in 1..Len(events_) /\ events_'[n] = events_[to(n)]
          BY <1>0, <2>1, <3>1
        <5>2. to(i) < to(j)
          BY <1>0, <2>1
        <5> HIDE DEF to
        <5> QED BY <5>1, <5>2
      <4> QED BY <4>1 DEF Sorted
    <3>4. EraseInv'
      BY <1>0, <1>7, <2>1, <2>2, <3>1 DEF EraseStep, EraseInv
    <3> QED BY <1>7, <3>2, <3>3, <3>4 DEF EraseStep, SearchInv
  <2>3. CASE events_[eventIter + 1].bundleName_ # deleted
             /\ eventIter' = eventIter + 1 /\ events_' = events_
    BY <1>0, <1>7, <2>1, <2>3 DEF EraseStep, ListTypeOK, Sorted, SearchInv, EraseInv
  <2> QED BY <1>7, <2>2, <2>3 DEF EraseStep
<1>8. CASE EndErase
  BY <1>0, <1>8 DEF EndErase, ListTypeOK, Sorted, SearchInv, EraseInv
<1>9. CASE UNCHANGED listVars
  BY <1>9 DEF listVars, ListTypeOK, Sorted, SearchInv, EraseInv
<1> QED
  BY <1>1, <1>2, <1>3, <1>4, <1>5, <1>6, <1>7, <1>8, <1>9 DEF ListNext

\* The inductive invariant holds in every reachable state.
THEOREM ListInvariance == ListSpec => []ListIInv
BY InitListIInv, NextListIInv, PTL DEF ListSpec

\* Type correctness of the list and of the loops' locals.
THEOREM ListTypeCorrect == ListSpec => []ListTypeOK
<1>1. ListIInv => ListTypeOK
  BY DEF ListIInv
<1> QED BY <1>1, ListInvariance, PTL

\* The event list is in time stamp order in every reachable state, whatever the
\* time stamps and the order in which the events are reported.
THEOREM ListSorted == ListSpec => []Sorted
<1>1. ListIInv => Sorted
  BY DEF ListIInv
<1> QED BY <1>1, ListInvariance, PTL

\* FindBestIndex never reads outside the vector.
THEOREM ProbesInRange == ListSpec => []IndexInRange
<1>1. ListIInv => IndexInRange
  <2> SUFFICES ASSUME ListIInv, pc = "search", lo <= hi
               PROVE  Mid \in 0..(Len(events_) - 1)
    BY DEF IndexInRange
  <2>1. Mid \in Int /\ lo <= Mid /\ Mid <= hi
    BY MidBetween DEF ListIInv, ListTypeOK
  <2> QED BY <2>1 DEF ListIInv, SearchInv, ListTypeOK
<1> QED BY <1>1, ListInvariance, PTL

\* DeleteMemEvent leaves no event of the uninstalled bundle behind.
THEOREM DeletedEventsGone == ListSpec => EraseComplete
<1>1. ListIInv /\ [ListNext]_listVars =>
        ((pc = "erase" /\ pc' = "idle") =>
            \A i \in 1..Len(events_') : events_'[i].bundleName_ # deleted)
  <2> SUFFICES ASSUME ListIInv, [ListNext]_listVars, pc = "erase", pc' = "idle",
                      NEW i \in 1..Len(events_')
               PROVE  events_'[i].bundleName_ # deleted
    OBVIOUS
  <2>1. EndErase
    BY DEF ListNext, listVars, InsertAtEnd, BeginSearch, SearchStep, InsertAtIndex, Clear,
           BeginErase, EraseStep
  <2> QED BY <2>1 DEF EndErase, ListIInv, EraseInv, ListTypeOK
<1> QED BY <1>1, ListInvariance, PTL DEF ListSpec, EraseComplete
-----------------------------------------------------------------------------
USE DEF FOREGROUND, BACKGROUND, STOP, TASK_STARTED, TASK_ENDED, Absent

\* What IncrementTimeUsed does to an object whose lastTimeUsed_ is not in the
\* future: the time since then moves from the running part into the total, and
\* nothing else changes.
LEMMA IncrementTimeUsedProps ==
    ASSUME NEW p \in PackageStatsType, NEW t \in Int, p.lastTimeUsed_ <= t
    PROVE  LET q == IncrementTimeUsed(p, t) IN
           /\ q \in PackageStatsType
           /\ q.lastTimeUsed_ = t
           /\ q.totalInFrontTime_ = p.totalInFrontTime_ + (t - p.lastTimeUsed_)
           /\ q.abilities_ = p.abilities_
           /\ q.longTimeTasks_ = p.longTimeTasks_
           /\ q.lastContiniousTaskUsed_ = p.lastContiniousTaskUsed_
           /\ q.totalContiniousTaskUsedTime_ = p.totalContiniousTaskUsedTime_
<1>0. p.lastTimeUsed_ \in Int
  BY DEF PackageStatsType
<1>1. CASE t > p.lastTimeUsed_
  <2>1. PICK n \in Int : n = p.totalInFrontTime_ + t - p.lastTimeUsed_
    BY DEF PackageStatsType
  <2>2. IncrementTimeUsed(p, t) = [p EXCEPT !.totalInFrontTime_ = n, !.lastTimeUsed_ = t]
    BY <1>1, <2>1 DEF IncrementTimeUsed
  <2>3. [p EXCEPT !.totalInFrontTime_ = n, !.lastTimeUsed_ = t] \in PackageStatsType
    BY DEF PackageStatsType
  <2>4. n = p.totalInFrontTime_ + (t - p.lastTimeUsed_)
    BY <2>1 DEF PackageStatsType
  <2> QED BY <2>2, <2>3, <2>4 DEF PackageStatsType
<1>2. CASE t = p.lastTimeUsed_
  <2>1. IncrementTimeUsed(p, t) = p
    BY <1>0, <1>2 DEF IncrementTimeUsed
  <2> QED BY <1>0, <1>2, <2>1 DEF PackageStatsType
<1> QED BY <1>0, <1>1, <1>2

\* The same for IncrementServiceTimeUsed and continuous tasks.
LEMMA IncrementServiceTimeUsedProps ==
    ASSUME NEW p \in PackageStatsType, NEW t \in Int, p.lastContiniousTaskUsed_ <= t
    PROVE  LET q == IncrementServiceTimeUsed(p, t) IN
           /\ q \in PackageStatsType
           /\ q.lastContiniousTaskUsed_ = t
           /\ q.totalContiniousTaskUsedTime_
                = p.totalContiniousTaskUsedTime_ + (t - p.lastContiniousTaskUsed_)
           /\ q.abilities_ = p.abilities_
           /\ q.longTimeTasks_ = p.longTimeTasks_
           /\ q.lastTimeUsed_ = p.lastTimeUsed_
           /\ q.totalInFrontTime_ = p.totalInFrontTime_
<1>0. p.lastContiniousTaskUsed_ \in Int
  BY DEF PackageStatsType
<1>1. CASE t > p.lastContiniousTaskUsed_
  <2>1. PICK n \in Int : n = p.totalContiniousTaskUsedTime_ + t - p.lastContiniousTaskUsed_
    BY DEF PackageStatsType
  <2>2. IncrementServiceTimeUsed(p, t) = [p EXCEPT !.totalContiniousTaskUsedTime_ = n, !.lastContiniousTaskUsed_ = t]
    BY <1>1, <2>1 DEF IncrementServiceTimeUsed
  <2>3. [p EXCEPT !.totalContiniousTaskUsedTime_ = n, !.lastContiniousTaskUsed_ = t] \in PackageStatsType
    BY DEF PackageStatsType
  <2>4. n = p.totalContiniousTaskUsedTime_ + (t - p.lastContiniousTaskUsed_)
    BY <2>1 DEF PackageStatsType
  <2> QED BY <2>2, <2>3, <2>4 DEF PackageStatsType
<1>2. CASE t = p.lastContiniousTaskUsed_
  <2>1. IncrementServiceTimeUsed(p, t) = p
    BY <1>0, <1>2 DEF IncrementServiceTimeUsed
  <2> QED BY <1>0, <1>2, <2>1 DEF PackageStatsType
<1> QED BY <1>0, <1>1, <1>2

\* What the time of a bundle in front is, total and running part together.
Counted(p, t) ==
    p.totalInFrontTime_ + (IF HasFrontAbility(p) THEN t - p.lastTimeUsed_ ELSE 0)

\* The same for the time of its continuous tasks.
TaskCounted(p, t) ==
    p.totalContiniousTaskUsedTime_
        + (IF AnyLongTimeTaskStarted(p) THEN t - p.lastContiniousTaskUsed_ ELSE 0)

\* p and q agree on everything that has to do with continuous tasks.
SameTasks(p, q) ==
    /\ q.longTimeTasks_ = p.longTimeTasks_
    /\ q.lastContiniousTaskUsed_ = p.lastContiniousTaskUsed_
    /\ q.totalContiniousTaskUsedTime_ = p.totalContiniousTaskUsedTime_

\* p and q agree on everything that has to do with abilities in front.
SameFront(p, q) ==
    /\ q.abilities_ = p.abilities_
    /\ q.lastTimeUsed_ = p.lastTimeUsed_
    /\ q.totalInFrontTime_ = p.totalInFrontTime_

\* An ability event keeps the time counted so far, whatever the ability did
\* before and whatever other abilities are in front.
LEMMA UpdateAbilityProps ==
    ASSUME NEW p \in PackageStatsType, NEW t \in Int, p.lastTimeUsed_ <= t,
           NEW e \in AbilityEventId, NEW a \in Ability
    PROVE  LET q == UpdateAbility(p, t, e, a) IN
           /\ q \in PackageStatsType
           /\ q.lastTimeUsed_ <= t
           /\ Counted(q, t) = Counted(p, t)
           /\ SameTasks(p, q)
<1> DEFINE p1 == [p EXCEPT !.startCount_ = @ + IF StartsNow(p, e, a) THEN 1 ELSE 0]
           p2 == SettleAbility(p1, t, a)
           q  == RecordAbility(p2, t, e, a)
<1>1. /\ p1 \in PackageStatsType /\ SameFront(p, p1) /\ SameTasks(p, p1)
  BY DEF PackageStatsType, SameFront, SameTasks
<1> HIDE DEF p1
<1>2. /\ p2 \in PackageStatsType /\ SameTasks(p, p2)
      /\ p2.abilities_ = p.abilities_
      /\ p2.lastTimeUsed_ <= t
      /\ \/ SameFront(p, p2) /\ p.abilities_[a] # FOREGROUND
         \/ /\ p.abilities_[a] = FOREGROUND
            /\ p2.lastTimeUsed_ = t
            /\ p2.totalInFrontTime_ = p.totalInFrontTime_ + (t - p.lastTimeUsed_)
  <2>1. p1.lastTimeUsed_ <= t
    BY <1>1 DEF SameFront
  <2>2. CASE p.abilities_[a] = FOREGROUND
    <3>1. p2 = IncrementTimeUsed(p1, t)
      BY <2>2, <1>1 DEF SettleAbility, SameFront
    <3> QED BY <3>1, <2>1, <2>2, <1>1, IncrementTimeUsedProps DEF SameFront, SameTasks
  <2>3. CASE p.abilities_[a] # FOREGROUND
    <3>1. p2 = p1
      BY <2>3, <1>1 DEF SettleAbility, SameFront
    <3> QED BY <3>1, <2>1, <2>3, <1>1 DEF SameFront, SameTasks
  <2> QED BY <2>2, <2>3
<1> HIDE DEF p2
<1>3. /\ q \in PackageStatsType /\ SameTasks(p2, q)
      /\ q.totalInFrontTime_ = p2.totalInFrontTime_
      /\ q.abilities_ = [p2.abilities_ EXCEPT ![a] = IF e = STOP THEN Absent ELSE e]
      /\ q.lastTimeUsed_ = IF e = FOREGROUND /\ ~HasFrontAbility(p2)
                           THEN t ELSE p2.lastTimeUsed_
  BY <1>2 DEF RecordAbility, PackageStatsType, SameTasks, AbilityEventId
<1>4. UpdateAbility(p, t, e, a) = q
  BY DEF UpdateAbility, p1, p2
<1> HIDE DEF q
<1>5. SameTasks(p, q)
  BY <1>2, <1>3 DEF SameTasks
<1>6. q.lastTimeUsed_ <= t
  BY <1>2, <1>3
<1>t. /\ p.totalInFrontTime_ \in Int /\ p.lastTimeUsed_ \in Int
      /\ p2.totalInFrontTime_ \in Int /\ p2.lastTimeUsed_ \in Int
      /\ p.abilities_ \in [Ability -> {FOREGROUND, BACKGROUND, Absent}]
  BY <1>2 DEF PackageStatsType
<1>7. Counted(p2, t) = Counted(p, t)
  <2>1. HasFrontAbility(p2) <=> HasFrontAbility(p)
    BY <1>2 DEF HasFrontAbility
  <2>2. p.abilities_[a] = FOREGROUND => HasFrontAbility(p)
    BY DEF HasFrontAbility
  <2> QED BY <1>2, <1>t, <2>1, <2>2 DEF Counted, SameFront
<1>8. Counted(q, t) = Counted(p2, t)
  <2>1. CASE e = FOREGROUND
    <3>1. HasFrontAbility(q)
      BY <1>2, <1>3, <1>t, <2>1 DEF HasFrontAbility
    <3> QED BY <1>3, <1>t, <2>1, <3>1 DEF Counted
  <2>2. CASE e # FOREGROUND
    <3>1. q.lastTimeUsed_ = p2.lastTimeUsed_
      BY <1>3, <2>2
    <3>2. CASE HasFrontAbility(q)
      <4>1. HasFrontAbility(p2)
        BY <1>2, <1>3, <1>t, <2>2, <3>2 DEF HasFrontAbility
      <4> QED BY <1>3, <3>1, <3>2, <4>1 DEF Counted
    <3>3. CASE ~HasFrontAbility(q) /\ HasFrontAbility(p2)
      <4>1. p.abilities_[a] = FOREGROUND
        BY <1>2, <1>3, <1>t, <3>3 DEF HasFrontAbility
      <4>2. p2.lastTimeUsed_ = t
        BY <1>2, <4>1
      <4> QED BY <1>3, <1>t, <3>3, <4>2 DEF Counted
    <3>4. CASE ~HasFrontAbility(q) /\ ~HasFrontAbility(p2)
      BY <1>3, <3>4 DEF Counted
    <3> QED BY <3>2, <3>3, <3>4
  <2> QED BY <2>1, <2>2
<1> QED BY <1>3, <1>4, <1>5, <1>6, <1>7, <1>8

\* A continuous task event keeps the time counted so far.
LEMMA UpdateLongTimeTaskProps ==
    ASSUME NEW p \in PackageStatsType, NEW t \in Int, p.lastContiniousTaskUsed_ <= t,
           NEW e \in TaskEventId, NEW k \in Task
    PROVE  LET q == UpdateLongTimeTask(p, t, e, k) IN
           /\ q \in PackageStatsType
           /\ q.lastContiniousTaskUsed_ <= t
           /\ TaskCounted(q, t) = TaskCounted(p, t)
           /\ SameFront(p, q)
<1> DEFINE p2 == SettleTask(p, t, k)
           q  == RecordTask(p2, t, e, k)
<1>2. /\ p2 \in PackageStatsType /\ SameFront(p, p2)
      /\ p2.longTimeTasks_ = p.longTimeTasks_
      /\ p2.lastContiniousTaskUsed_ <= t
      /\ \/ SameTasks(p, p2) /\ k \notin p.longTimeTasks_
         \/ /\ k \in p.longTimeTasks_
            /\ p2.lastContiniousTaskUsed_ = t
            /\ p2.totalContiniousTaskUsedTime_
                 = p.totalContiniousTaskUsedTime_ + (t - p.lastContiniousTaskUsed_)
  BY IncrementServiceTimeUsedProps DEF SettleTask, SameFront, SameTasks
<1> HIDE DEF p2
<1>3. /\ q \in PackageStatsType /\ SameFront(p2, q)
      /\ q.totalContiniousTaskUsedTime_ = p2.totalContiniousTaskUsedTime_
      /\ q.longTimeTasks_ = IF e = TASK_STARTED THEN p2.longTimeTasks_ \cup {k}
                            ELSE p2.longTimeTasks_ \ {k}
      /\ q.lastContiniousTaskUsed_ =
            IF e = TASK_STARTED /\ ~AnyLongTimeTaskStarted(p2)
            THEN t ELSE p2.lastContiniousTaskUsed_
  BY <1>2 DEF RecordTask, PackageStatsType, SameFront
<1>4. UpdateLongTimeTask(p, t, e, k) = q
  BY DEF UpdateLongTimeTask, p2
<1> HIDE DEF q
<1>5. SameFront(p, q)
  BY <1>2, <1>3 DEF SameFront
<1>6. q.lastContiniousTaskUsed_ <= t
  BY <1>2, <1>3
<1>t. /\ p.totalContiniousTaskUsedTime_ \in Int /\ p.lastContiniousTaskUsed_ \in Int
      /\ p2.totalContiniousTaskUsedTime_ \in Int /\ p2.lastContiniousTaskUsed_ \in Int
  BY <1>2 DEF PackageStatsType
<1>7. TaskCounted(p2, t) = TaskCounted(p, t)
  BY <1>2, <1>t DEF TaskCounted, SameTasks, AnyLongTimeTaskStarted
<1>8. TaskCounted(q, t) = TaskCounted(p2, t)
  BY <1>2, <1>3, <1>t DEF TaskCounted, SameTasks, AnyLongTimeTaskStarted
<1> QED BY <1>3, <1>4, <1>5, <1>6, <1>7, <1>8

\* END_OF_THE_DAY, SHUTDOWN and FLUSH keep the time counted so far.
LEMMA SettleAllProps ==
    ASSUME NEW p \in PackageStatsType, NEW t \in Int,
           p.lastTimeUsed_ <= t, p.lastContiniousTaskUsed_ <= t
    PROVE  LET q == SettleAll(p, t) IN
           /\ q \in PackageStatsType
           /\ q.lastTimeUsed_ <= t /\ q.lastContiniousTaskUsed_ <= t
           /\ Counted(q, t) = Counted(p, t)
           /\ TaskCounted(q, t) = TaskCounted(p, t)
<1> DEFINE r == SettleFront(p, t)
           q == SettleTasks(r, t)
<1>1. /\ r \in PackageStatsType /\ SameTasks(p, r)
      /\ r.abilities_ = p.abilities_ /\ r.lastTimeUsed_ <= t
      /\ Counted(r, t) = Counted(p, t)
  <2>1. CASE HasFrontAbility(p)
    <3>1. r = IncrementTimeUsed(p, t)
      BY <2>1 DEF SettleFront
    <3>2. /\ r \in PackageStatsType /\ SameTasks(p, r)
          /\ r.abilities_ = p.abilities_ /\ r.lastTimeUsed_ = t
          /\ r.totalInFrontTime_ = p.totalInFrontTime_ + (t - p.lastTimeUsed_)
      BY <3>1, IncrementTimeUsedProps DEF SameTasks
    <3>3. HasFrontAbility(r)
      BY <2>1, <3>2 DEF HasFrontAbility
    <3>4. p.totalInFrontTime_ \in Int /\ p.lastTimeUsed_ \in Int
      BY DEF PackageStatsType
    <3> QED BY <2>1, <3>2, <3>3, <3>4 DEF Counted
  <2>2. CASE ~HasFrontAbility(p)
    BY <2>2 DEF SettleFront, SameTasks
  <2> QED BY <2>1, <2>2
<1> HIDE DEF r
<1>2. /\ q \in PackageStatsType /\ SameFront(r, q)
      /\ q.lastContiniousTaskUsed_ <= t
      /\ TaskCounted(q, t) = TaskCounted(r, t)
  <2>0. r.lastContiniousTaskUsed_ <= t
    BY <1>1 DEF SameTasks
  <2>1. CASE AnyLongTimeTaskStarted(r)
    <3>1. q = IncrementServiceTimeUsed(r, t)
      BY <2>1 DEF SettleTasks
    <3>2. /\ q \in PackageStatsType /\ SameFront(r, q)
          /\ q.longTimeTasks_ = r.longTimeTasks_ /\ q.lastContiniousTaskUsed_ = t
          /\ q.totalContiniousTaskUsedTime_
               = r.totalContiniousTaskUsedTime_ + (t - r.lastContiniousTaskUsed_)
      BY <1>1, <2>0, <3>1, IncrementServiceTimeUsedProps DEF SameFront
    <3>3. r.totalContiniousTaskUsedTime_ \in Int /\ r.lastContiniousTaskUsed_ \in Int
      BY <1>1 DEF PackageStatsType
    <3> QED BY <2>1, <3>2, <3>3 DEF TaskCounted, AnyLongTimeTaskStarted
  <2>2. CASE ~AnyLongTimeTaskStarted(r)
    BY <1>1, <2>0, <2>2 DEF SettleTasks, SameFront
  <2> QED BY <2>1, <2>2
<1>3. SettleAll(p, t) = q
  BY DEF SettleAll, r
<1> HIDE DEF q
<1>4. q.lastTimeUsed_ <= t /\ Counted(q, t) = Counted(r, t)
  BY <1>1, <1>2 DEF SameFront, Counted, HasFrontAbility
<1>5. TaskCounted(r, t) = TaskCounted(p, t)
  BY <1>1 DEF SameTasks, TaskCounted, AnyLongTimeTaskStarted
<1> QED BY <1>1, <1>2, <1>3, <1>4, <1>5
-----------------------------------------------------------------------------
\* A fresh object has counted nothing.
LEMMA InitIInv == Init => IInv
BY DEF Init, IInv, TypeOK, LastNotInFuture, FrontTimeExact, TaskTimeExact,
       NewPackageStats, PackageStatsType, HasFrontAbility, AnyLongTimeTaskStarted

\* Every event and every tick of the clock keeps the object in step with the
\* stop watches.
LEMMA NextIInv == IInv /\ [Next]_vars => IInv'
<1> SUFFICES ASSUME IInv, [Next]_vars PROVE IInv'
  OBVIOUS
<1>0. /\ stats \in PackageStatsType /\ now \in Nat /\ frontTime \in Nat /\ taskTime \in Nat
      /\ stats.lastTimeUsed_ <= now /\ stats.lastContiniousTaskUsed_ <= now
      /\ Counted(stats, now) = frontTime /\ TaskCounted(stats, now) = taskTime
  BY DEF IInv, TypeOK, LastNotInFuture, FrontTimeExact, TaskTimeExact, Counted, TaskCounted
<1>s. ASSUME /\ stats' \in PackageStatsType /\ now' = now
             /\ frontTime' = frontTime /\ taskTime' = taskTime
             /\ stats'.lastTimeUsed_ <= now /\ stats'.lastContiniousTaskUsed_ <= now
             /\ Counted(stats', now) = frontTime /\ TaskCounted(stats', now) = taskTime
      PROVE  IInv'
  BY <1>0, <1>s DEF IInv, TypeOK, LastNotInFuture, FrontTimeExact, TaskTimeExact,
                    Counted, TaskCounted, HasFrontAbility, AnyLongTimeTaskStarted
<1>1. CASE Tick
  <2>1. stats.totalInFrontTime_ \in Int /\ stats.lastTimeUsed_ \in Int
        /\ stats.totalContiniousTaskUsedTime_ \in Int /\ stats.lastContiniousTaskUsed_ \in Int
    BY <1>0 DEF PackageStatsType
  <2>2. TypeOK' /\ LastNotInFuture'
    BY <1>0, <1>1, <2>1 DEF Tick, TypeOK, LastNotInFuture
  <2>3. FrontTimeExact'
    BY <1>0, <1>1, <2>1 DEF Tick, FrontTimeExact, Counted, HasFrontAbility
  <2>4. TaskTimeExact'
    BY <1>0, <1>1, <2>1 DEF Tick, TaskTimeExact, TaskCounted, AnyLongTimeTaskStarted
  <2> QED BY <2>2, <2>3, <2>4 DEF IInv
<1>2. ASSUME NEW e \in AbilityEventId, NEW a \in Ability, AbilityEvent(e, a) PROVE IInv'
  <2>1. /\ stats' \in PackageStatsType /\ stats'.lastTimeUsed_ <= now
        /\ Counted(stats', now) = Counted(stats, now) /\ SameTasks(stats, stats')
    BY <1>0, <1>2, UpdateAbilityProps DEF AbilityEvent
  <2>2. TaskCounted(stats', now) = TaskCounted(stats, now)
        /\ stats'.lastContiniousTaskUsed_ <= now
    BY <1>0, <2>1 DEF SameTasks, TaskCounted, AnyLongTimeTaskStarted
  <2> QED BY <1>0, <1>2, <1>s, <2>1, <2>2 DEF AbilityEvent
<1>3. ASSUME NEW e \in TaskEventId, NEW t \in Task, TaskEvent(e, t) PROVE IInv'
  <2>1. /\ stats' \in PackageStatsType /\ stats'.lastContiniousTaskUsed_ <= now
        /\ TaskCounted(stats', now) = TaskCounted(stats, now) /\ SameFront(stats, stats')
    BY <1>0, <1>3, UpdateLongTimeTaskProps DEF TaskEvent
  <2>2. Counted(stats', now) = Counted(stats, now) /\ stats'.lastTimeUsed_ <= now
    BY <1>0, <2>1 DEF SameFront, Counted, HasFrontAbility
  <2> QED BY <1>0, <1>3, <1>s, <2>1, <2>2 DEF TaskEvent
<1>4. CASE CloseEvent
  BY <1>0, <1>4, <1>s, SettleAllProps DEF CloseEvent
<1>5. CASE UNCHANGED vars
  BY <1>5 DEF vars, IInv, TypeOK, LastNotInFuture, FrontTimeExact, TaskTimeExact,
              HasFrontAbility, AnyLongTimeTaskStarted
<1> QED BY <1>1, <1>2, <1>3, <1>4, <1>5 DEF Next

\* The inductive invariant holds in every reachable state.
THEOREM Invariance == Spec => []IInv
BY InitIInv, NextIInv, PTL DEF Spec

\* Type correctness of the object and the stop watches.
THEOREM TypeCorrect == Spec => []TypeOK
<1>1. IInv => TypeOK
  BY DEF IInv
<1> QED BY <1>1, Invariance, PTL

\* totalInFrontTime_ measures the time in front exactly, for any abilities and
\* any order of events.
THEOREM FrontTimeIsExact == Spec => []FrontTimeExact
<1>1. IInv => FrontTimeExact
  BY DEF IInv
<1> QED BY <1>1, Invariance, PTL

\* totalContiniousTaskUsedTime_ measures the time with a continuous task exactly.
THEOREM TaskTimeIsExact == Spec => []TaskTimeExact
<1>1. IInv => TaskTimeExact
  BY DEF IInv
<1> QED BY <1>1, Invariance, PTL

-----------------------------------------------------------------------------
(* The flush schedule                                                      *)

\* No service, no task and nothing unsaved at the start.
LEMMA InitFlushIInv == FlushInit => FlushIInv
<1> SUFFICES ASSUME FlushInit PROVE FlushIInv
    OBVIOUS
<1>1. statsChanged_ \in [User -> BOOLEAN] /\ unsaved \in [User -> SUBSET Kind]
      /\ pending \in Seq(User) /\ stray \in Seq(User)
    BY DEF FlushInit
<1>2. FlushTypeOK
    BY <1>1 DEF FlushInit, FlushTypeOK, Idle, NoHolder
<1>3. ThreadsInOrder /\ ReloadIsSafe
    BY DEF FlushInit, ThreadsInOrder, ReloadIsSafe, HoldsStatsMutex, Idle, NoHolder
<1>4. UnsavedIsMarked /\ NothingLost /\ FlushFollows
    BY DEF FlushInit, UnsavedIsMarked, NothingLost, FlushFollows
<1> QED
    BY <1>2, <1>3, <1>4 DEF FlushIInv

\* The types of what a service holds, of the timer and of the two threads.
ServicesType == statsChanged_ \in [User -> BOOLEAN] /\ unsaved \in [User -> SUBSET Kind]
TimerType == /\ hasKey \in BOOLEAN /\ pending \in Seq(User) /\ stray \in Seq(User)
             /\ held \in BOOLEAN /\ skipped \in BOOLEAN

\* What the parts of the handlers make of the types.
LEMMA PartsKeepType ==
    ASSUME FlushTypeOK, NEW u \in User
    PROVE  /\ \A newDay, bundles \in BOOLEAN, kinds \in SUBSET Kind :
                Report(u, newDay, bundles, kinds) => ServicesType'
           /\ Renew(u) => ServicesType' /\ TimerType'
           /\ \A users \in SUBSET User : RestoreStats(users) => ServicesType'
           /\ SendEvent(u) => TimerType'
           /\ OnStatsChanged(u) => TimerType'
           /\ RemoveEvent => TimerType'
           /\ InitService(u) \in SUBSET Kind
<1> USE DEF FlushTypeOK, ServicesType, TimerType, Kind
<1>1. ASSUME NEW newDay \in BOOLEAN, NEW bundles \in BOOLEAN, NEW kinds \in SUBSET Kind,
             Report(u, newDay, bundles, kinds)
      PROVE  ServicesType'
    <2>1. unsaved[u] \in SUBSET Kind /\ statsChanged_[u] \in BOOLEAN
        OBVIOUS
    <2>2. CASE MustSend(u, newDay, bundles)
        <3>1. unsaved[u] \cup kinds \in SUBSET Kind
            BY <2>1
        <3>2. statsChanged_' = [statsChanged_ EXCEPT ![u] = TRUE]
              /\ unsaved' = [unsaved EXCEPT ![u] = unsaved[u] \cup kinds]
            BY <1>1, <2>2 DEF Report
        <3> QED BY <3>1, <3>2
    <2>3. CASE ~MustSend(u, newDay, bundles)
        <3> DEFINE flag == statsChanged_[u] /\ ~newDay
                   mem == (IF newDay THEN {} ELSE unsaved[u] \cup kinds)
                          \cup (IF bundles THEN {"settled"} ELSE {})
        <3>1. flag \in BOOLEAN
            OBVIOUS
        <3>2. mem \in SUBSET Kind
            BY <2>1
        <3>3. statsChanged_' = [statsChanged_ EXCEPT ![u] = flag]
              /\ unsaved' = [unsaved EXCEPT ![u] = mem]
            BY <1>1, <2>3 DEF Report
        <3> HIDE DEF flag, mem
        <3> QED BY <3>1, <3>2, <3>3
    <2> QED BY <2>2, <2>3
<1>2. SendEvent(u) => TimerType'
    <2> SUFFICES ASSUME SendEvent(u) PROVE TimerType'
        OBVIOUS
    <2>1. Append(pending, u) \in Seq(User)
        OBVIOUS
    <2> QED BY <2>1 DEF SendEvent
<1>3. Renew(u) => ServicesType' /\ TimerType'
    BY <1>2 DEF Renew
<1>4. \A users \in SUBSET User : RestoreStats(users) => ServicesType'
    BY DEF RestoreStats
<1>5. OnStatsChanged(u) => TimerType'
    BY <1>2 DEF OnStatsChanged, timer
<1>6. RemoveEvent => TimerType'
    <2> SUFFICES ASSUME RemoveEvent PROVE TimerType'
        OBVIOUS
    <2>1. <<>> \in Seq(User)
        OBVIOUS
    <2> QED BY <2>1 DEF RemoveEvent
<1>7. InitService(u) \in SUBSET Kind
    BY DEF InitService
<1> QED BY <1>1, <1>2, <1>3, <1>4, <1>5, <1>6, <1>7

\* Every handler preserves the type invariant.
LEMMA NextFlushTypeOK ==
    FlushTypeOK /\ ThreadsInOrder /\ [FlushNext]_flushVars => FlushTypeOK'
<1> SUFFICES ASSUME FlushTypeOK, ThreadsInOrder, [FlushNext]_flushVars PROVE FlushTypeOK'
    OBVIOUS
<1>0. ServicesType /\ TimerType
    BY DEF FlushTypeOK, ServicesType, TimerType
<1>k. {} \in SUBSET Kind /\ {"reported"} \in SUBSET Kind
    BY DEF Kind
<1> DEFINE Rest == /\ userStatServices_' \in SUBSET User
                   /\ lost' \in SUBSET Kind
                   /\ currentUsedUser_' \in User \cup {None}
                   /\ task' \in [kind : {"none", "switch", "flush"}, user : User \cup {None},
                        to : User \cup {None},
                        pc : {"none", "report", "renew", "restore", "accounts", "sendNew",
                              "remove", "pop"}]
                   /\ holder' \in [kind : {"none", "timeChange", "shutDown"},
                        user : User \cup {None}, left : SUBSET User,
                        pc : {"none", "renew", "notify", "send", "save", "reload", "remove"}]
                   /\ spaceLow' \in BOOLEAN
<1>r. ServicesType' /\ TimerType' /\ Rest => FlushTypeOK'
    BY DEF ServicesType, TimerType, FlushTypeOK
<1>s. UNCHANGED services => ServicesType' /\ UNCHANGED <<userStatServices_, lost>>
    BY <1>0 DEF services, ServicesType
<1>m. UNCHANGED timer => TimerType'
    BY <1>0 DEF timer, TimerType
<1> HIDE DEF Rest
<1>1. CASE UNCHANGED flushVars
    BY <1>1 DEF flushVars, services, timer, FlushTypeOK
<1>2. ASSUME NEW u \in User, NEW newDay \in BOOLEAN, ReportEvent(u, newDay) PROVE FlushTypeOK'
    <2>1. ServicesType'
        <3>1. InitService(u) \in SUBSET Kind
            BY PartsKeepType
        <3> QED BY <3>1, <1>2, <1>0 DEF ReportEvent, ServicesType, Kind
    <2>2. TimerType'
        BY <1>2, <1>m, PartsKeepType DEF ReportEvent
    <2>3. Rest
        BY <1>2 DEF ReportEvent, FlushTypeOK, Rest
    <2> QED BY <1>r, <2>1, <2>2, <2>3
<1>3. ASSUME NEW u \in User, ReportLauncherEvent(u) PROVE FlushTypeOK'
    <2>1. Rest
        BY <1>3, <1>s DEF ReportLauncherEvent, FlushTypeOK, Rest
    <2> QED BY <1>3, <1>r, <1>s, <1>m, <2>1 DEF ReportLauncherEvent
<1>4. ASSUME NEW u \in User, RemoveUser(u) PROVE FlushTypeOK'
    <2>1. ServicesType'
        BY <1>4, PartsKeepType DEF RemoveUser
    <2>2. Rest
        BY <1>4 DEF RemoveUser, FlushTypeOK, Rest
    <2> QED BY <1>4, <1>r, <1>m, <2>1, <2>2 DEF RemoveUser
<1>5. ASSUME NEW u \in User, NEW newDay \in BOOLEAN, NEW bundles \in BOOLEAN,
             SwitchUser(u, newDay, bundles)
      PROVE  FlushTypeOK'
    <2>1. ServicesType'
        <3>1. CASE currentUsedUser_ \in userStatServices_
            <4>1. currentUsedUser_ \in User
                BY <3>1 DEF FlushTypeOK
            <4>2. Report(currentUsedUser_, newDay, bundles, {})
                BY <1>5, <3>1 DEF SwitchUser
            <4> QED BY <4>1, <4>2, <1>k, PartsKeepType
        <3>2. CASE currentUsedUser_ \notin userStatServices_
            BY <1>5, <1>0, <3>2 DEF SwitchUser, ServicesType
        <3> QED BY <3>1, <3>2
    <2>2. Rest
        BY <1>5 DEF SwitchUser, FlushTypeOK, Rest
    <2> QED BY <1>5, <1>r, <1>m, <2>1, <2>2 DEF SwitchUser
<1>6. CASE SwitchRestore
    <2>1. task.user \in User
        BY <1>6 DEF SwitchRestore, ThreadsInOrder
    <2>2. ServicesType'
        BY <1>6, <2>1, PartsKeepType DEF SwitchRestore
    <2>3. Rest
        BY <1>6 DEF SwitchRestore, FlushTypeOK, Rest
    <2> QED BY <1>6, <1>r, <1>m, <2>2, <2>3 DEF SwitchRestore
<1>7. ASSUME NEW anyActive \in BOOLEAN, SwitchAccounts(anyActive) PROVE FlushTypeOK'
    <2>1. Rest
        BY <1>7, <1>s DEF SwitchAccounts, FlushTypeOK, Rest, Idle
    <2> QED BY <1>7, <1>r, <1>s, <1>m, <2>1 DEF SwitchAccounts
<1>8. CASE SwitchSend
    <2>1. task.to \in User
        BY <1>8 DEF SwitchSend, ThreadsInOrder
    <2>2. TimerType'
        BY <1>8, <2>1, PartsKeepType DEF SwitchSend
    <2>3. Rest
        BY <1>8, <1>s DEF SwitchSend, FlushTypeOK, Rest, Idle
    <2> QED BY <1>8, <1>r, <1>s, <2>2, <2>3 DEF SwitchSend
<1>9. CASE FlushStart
    <2>1. TimerType' /\ \E u \in User : task'.user = u /\ task' = [kind |-> "flush", user |-> u,
              to |-> None, pc |-> IF u # currentUsedUser_ THEN "remove"
                                  ELSE IF spaceLow THEN "pop" ELSE "report"]
        <3>1. CASE stray # <<>>
            <4>1. Head(stray) \in User /\ Tail(stray) \in Seq(User)
                BY <3>1, <1>0 DEF TimerType
            <4> QED BY <1>9, <1>0, <3>1, <4>1 DEF FlushStart, TimerType, FlushTypeOK
        <3>2. CASE stray = <<>>
            <4>1. Head(pending) \in User /\ Tail(pending) \in Seq(User)
                BY <3>2, <1>0, <1>9 DEF TimerType, FlushStart
            <4> QED BY <1>9, <1>0, <3>2, <4>1 DEF FlushStart, TimerType, FlushTypeOK
        <3> QED BY <3>1, <3>2
    <2>2. Rest
        BY <1>9, <1>s, <2>1 DEF FlushStart, FlushTypeOK, Rest
    <2> QED BY <1>9, <1>r, <1>s, <2>1, <2>2 DEF FlushStart
<1>10. ASSUME NEW newDay \in BOOLEAN, NEW bundles \in BOOLEAN, FlushReport(newDay, bundles)
       PROVE  FlushTypeOK'
    <2>1. ServicesType'
        <3>1. CASE task.user \in userStatServices_
            <4>1. task.user \in User
                BY <3>1 DEF FlushTypeOK
            <4>2. Report(task.user, newDay, bundles, {})
                BY <1>10, <3>1 DEF FlushReport
            <4> QED BY <4>1, <4>2, <1>k, PartsKeepType
        <3>2. CASE task.user \notin userStatServices_
            BY <1>10, <1>0, <3>2 DEF FlushReport, ServicesType
        <3> QED BY <3>1, <3>2
    <2>2. Rest
        <3>1. PICK p \in {"renew", "restore", "remove"} : task' = [task EXCEPT !.pc = p]
            BY <1>10 DEF FlushReport
        <3>2. UNCHANGED <<userStatServices_, lost, currentUsedUser_, holder, spaceLow>>
            BY <1>10 DEF FlushReport
        <3>3. task' \in [kind : {"none", "switch", "flush"}, user : User \cup {None},
                         to : User \cup {None},
                         pc : {"none", "report", "renew", "restore", "accounts", "sendNew",
                               "remove", "pop"}]
            BY <3>1 DEF FlushTypeOK
        <3> QED BY <3>2, <3>3 DEF FlushTypeOK, Rest
    <2>3. TimerType'
        BY <1>10, <1>m DEF FlushReport
    <2> QED BY <1>r, <2>1, <2>2, <2>3
<1>11. CASE QueueRenew
    <2>1. task.user \in User
        BY <1>11 DEF QueueRenew, ThreadsInOrder
    <2>2. ServicesType' /\ TimerType'
        BY <1>11, <2>1, PartsKeepType DEF QueueRenew
    <2>3. Rest
        BY <1>11 DEF QueueRenew, FlushTypeOK, Rest
    <2> QED BY <1>r, <2>2, <2>3
<1>12. CASE FlushRestore
    <2>1. task.user \in User
        BY <1>12 DEF FlushRestore, ThreadsInOrder
    <2>2. ServicesType'
        <3>1. {u \in User : u = task.user /\ statsChanged_[u]} \in SUBSET User
            OBVIOUS
        <3> QED BY <1>12, <2>1, <3>1, PartsKeepType DEF FlushRestore
    <2>3. Rest
        BY <1>12 DEF FlushRestore, FlushTypeOK, Rest
    <2> QED BY <1>12, <1>r, <1>m, <2>2, <2>3 DEF FlushRestore
<1>13. CASE FlushRemove
    <2>1. task.user \in User
        BY <1>13 DEF FlushRemove, ThreadsInOrder
    <2>2. TimerType'
        BY <1>13, <2>1, PartsKeepType DEF FlushRemove
    <2>3. Rest
        BY <1>13, <1>s DEF FlushRemove, FlushTypeOK, Rest
    <2> QED BY <1>13, <1>r, <1>s, <2>2, <2>3 DEF FlushRemove
<1>14. CASE FlushPop
    <2>1. TimerType'
        <3>1. CASE hasKey /\ ~held /\ pending # <<>>
            <4>1. Head(pending) \in User /\ Tail(pending) \in Seq(User)
                BY <3>1, <1>0 DEF TimerType
            <4>2. Append(stray, Head(pending)) \in Seq(User)
                BY <4>1, <1>0 DEF TimerType
            <4> QED BY <1>14, <1>0, <3>1, <4>1, <4>2 DEF FlushPop, TimerType
        <3>2. CASE ~(hasKey /\ ~held /\ pending # <<>>)
            BY <1>14, <1>0, <3>2 DEF FlushPop, TimerType
        <3> QED BY <3>1, <3>2
    <2>2. Rest
        BY <1>14, <1>s DEF FlushPop, FlushTypeOK, Rest, Idle
    <2> QED BY <1>14, <1>r, <1>s, <2>1, <2>2 DEF FlushPop
<1>15. ASSUME NEW u \in User, Query(u) PROVE FlushTypeOK'
    <2>1. ServicesType'
        <3>1. InitService(u) \in SUBSET Kind
            BY PartsKeepType
        <3> QED BY <3>1, <1>15, <1>0 DEF Query, ServicesType
    <2>2. Rest
        BY <1>15 DEF Query, FlushTypeOK, Rest
    <2> QED BY <1>15, <1>r, <1>m, <2>1, <2>2 DEF Query
<1>16. ASSUME NEW u \in User, NEW newDay \in BOOLEAN, NEW bundles \in BOOLEAN,
              TimeChange(u, newDay, bundles)
       PROVE  FlushTypeOK'
    <2>1. ServicesType'
        BY <1>16, <1>k, PartsKeepType DEF TimeChange
    <2>2. Rest
        BY <1>16 DEF TimeChange, FlushTypeOK, Rest
    <2> QED BY <1>16, <1>r, <1>m, <2>1, <2>2 DEF TimeChange
<1>17. CASE HolderRenew
    <2>1. holder.user \in User
        BY <1>17 DEF HolderRenew, ThreadsInOrder
    <2>2. ServicesType' /\ TimerType'
        BY <1>17, <2>1, PartsKeepType DEF HolderRenew
    <2>3. Rest
        BY <1>17 DEF HolderRenew, FlushTypeOK, Rest
    <2> QED BY <1>r, <2>2, <2>3
<1>18. CASE TimeChangeSave
    <2>1. holder.user \in User
        BY <1>18 DEF TimeChangeSave, ThreadsInOrder
    <2>2. ServicesType'
        BY <1>18, <2>1, PartsKeepType DEF TimeChangeSave
    <2>3. Rest
        BY <1>18 DEF TimeChangeSave, FlushTypeOK, Rest
    <2> QED BY <1>18, <1>r, <1>m, <2>2, <2>3 DEF TimeChangeSave
<1>19. CASE TimeChangeReload
    <2>1. holder.user \in User
        BY <1>19 DEF TimeChangeReload, ThreadsInOrder
    <2>2. ServicesType'
        BY <1>19, <1>0, <1>k, <2>1 DEF TimeChangeReload, ServicesType
    <2>3. unsaved[holder.user] \in SUBSET Kind
        BY <1>0, <2>1 DEF ServicesType
    <2>4. Rest
        BY <1>19, <2>3 DEF TimeChangeReload, FlushTypeOK, Rest
    <2> QED BY <1>19, <1>r, <1>m, <2>2, <2>4 DEF TimeChangeReload
<1>20. ASSUME NEW u \in User, NEW newDay \in BOOLEAN, NEW bundles \in BOOLEAN,
              ShutDown(u, newDay, bundles)
       PROVE  FlushTypeOK'
    <2>1. ServicesType'
        BY <1>20, <1>k, PartsKeepType DEF ShutDown
    <2>2. Rest
        BY <1>20 DEF ShutDown, FlushTypeOK, Rest
    <2> QED BY <1>20, <1>r, <1>m, <2>1, <2>2 DEF ShutDown
<1>21. CASE ShutDownNotify
    <2>1. ServicesType'
        BY <1>21, <1>0 DEF ShutDownNotify, ServicesType
    <2>2. Rest
        BY <1>21 DEF ShutDownNotify, FlushTypeOK, Rest
    <2> QED BY <1>21, <1>r, <1>m, <2>1, <2>2 DEF ShutDownNotify
<1>22. CASE ShutDownSend
    <2>1. holder.user \in User
        BY <1>22 DEF ShutDownSend, ThreadsInOrder
    <2>2. TimerType'
        BY <1>22, <2>1, PartsKeepType DEF ShutDownSend
    <2>3. Rest
        BY <1>22, <1>s DEF ShutDownSend, FlushTypeOK, Rest
    <2> QED BY <1>22, <1>r, <1>s, <2>2, <2>3 DEF ShutDownSend
<1>23. ASSUME NEW u \in User, ShutDownSave(u) PROVE FlushTypeOK'
    <2>1. ServicesType'
        BY <1>23, PartsKeepType DEF ShutDownSave
    <2>2. Rest
        BY <1>23 DEF ShutDownSave, FlushTypeOK, Rest
    <2> QED BY <1>23, <1>r, <1>m, <2>1, <2>2 DEF ShutDownSave
<1>24. CASE HolderRemove
    <2>1. TimerType'
        <3>1. <<>> \in Seq(User)
            OBVIOUS
        <3> QED BY <1>24, <1>0, <3>1 DEF HolderRemove, RemoveEvent, TimerType
    <2>2. Rest
        BY <1>24, <1>s DEF HolderRemove, FlushTypeOK, Rest, NoHolder
    <2> QED BY <1>24, <1>r, <1>s, <2>1, <2>2 DEF HolderRemove
<1>25. CASE ShutDownNobody
    <2>1. Rest
        BY <1>25, <1>s DEF ShutDownNobody, FlushTypeOK, Rest, NoHolder
    <2> QED BY <1>25, <1>r, <1>s, <1>m, <2>1 DEF ShutDownNobody
<1>26. CASE ChangeSpace
    <2>1. Rest
        BY <1>26, <1>s DEF ChangeSpace, FlushTypeOK, Rest
    <2> QED BY <1>26, <1>r, <1>s, <1>m, <2>1 DEF ChangeSpace
<1> QED
    BY <1>1, <1>2, <1>3, <1>4, <1>5, <1>6, <1>7, <1>8, <1>9, <1>10, <1>11, <1>12, <1>13,
       <1>14, <1>15, <1>16, <1>17, <1>18, <1>19, <1>20, <1>21, <1>22, <1>23, <1>24, <1>25,
       <1>26 DEF FlushNext

\* Users, mutexes and the mark of a shutdown: no handler gets into a service another
\* thread is in.
LEMMA NextThreadsInOrder ==
    FlushTypeOK /\ ThreadsInOrder /\ [FlushNext]_flushVars => ThreadsInOrder'
<1> SUFFICES ASSUME FlushTypeOK, ThreadsInOrder, [FlushNext]_flushVars PROVE ThreadsInOrder'
    OBVIOUS
<1> USE NoneAssumption DEF ThreadsInOrder, HoldsStatsMutex, FlushTypeOK
<1>1. CASE UNCHANGED flushVars
    BY <1>1 DEF flushVars, services
<1>2. ASSUME NEW u \in User, NEW newDay \in BOOLEAN, ReportEvent(u, newDay)
      PROVE  ThreadsInOrder'
    BY <1>2 DEF ReportEvent, CoreLockFree
<1>3. ASSUME NEW u \in User, ReportLauncherEvent(u) PROVE ThreadsInOrder'
    BY <1>3 DEF ReportLauncherEvent, services
<1>4. ASSUME NEW u \in User, RemoveUser(u) PROVE ThreadsInOrder'
    BY <1>4 DEF RemoveUser, CoreLockFree
<1>5. ASSUME NEW u \in User, NEW newDay \in BOOLEAN, NEW bundles \in BOOLEAN,
             SwitchUser(u, newDay, bundles)
      PROVE  ThreadsInOrder'
    <2>1. CASE currentUsedUser_ \in userStatServices_
        <3>1. \A v \in User : ~(currentUsedUser_ = v /\ HoldsStatsMutex(holder, v))
            BY <1>5, <2>1 DEF SwitchUser
        <3>2. holder.pc = "send" => statsChanged_'[holder.user]
            <4> SUFFICES ASSUME holder.pc = "send" PROVE statsChanged_'[holder.user]
                OBVIOUS
            <4>1. holder.user \in User /\ holder.user # currentUsedUser_
                BY <3>1
            <4> QED BY <1>5, <2>1, <4>1 DEF SwitchUser, Report
        <3>3. holder' = holder /\ task'.user = currentUsedUser_ /\ task'.to = u
              /\ task'.kind = "switch" /\ task'.pc \in {"renew", "restore"}
            BY <1>5, <2>1 DEF SwitchUser
        <3> QED BY <2>1, <3>1, <3>2, <3>3
    <2>2. CASE currentUsedUser_ \notin userStatServices_
        BY <1>5, <2>2 DEF SwitchUser
    <2> QED BY <2>1, <2>2
<1>6. CASE SwitchRestore
    <2>1. task.kind = "switch" /\ task.to \in User
        BY <1>6 DEF SwitchRestore
    <2>2. holder.pc = "send" => statsChanged_'[holder.user]
        BY <1>6 DEF SwitchRestore, RestoreStats
    <2> QED BY <1>6, <2>1, <2>2 DEF SwitchRestore
<1>7. ASSUME NEW anyActive \in BOOLEAN, SwitchAccounts(anyActive) PROVE ThreadsInOrder'
    BY <1>7 DEF SwitchAccounts, Idle, services
<1>8. CASE SwitchSend
    BY <1>8 DEF SwitchSend, Idle, services
<1>9. CASE FlushStart
    <2>1. task'.kind = "flush" /\ task'.pc \in {"remove", "pop", "report"}
          /\ UNCHANGED <<holder, statsChanged_>>
        BY <1>9 DEF FlushStart, services
    <2>2. task'.user \in User
        <3>1. CASE stray # <<>>
            BY <1>9, <3>1 DEF FlushStart
        <3>2. CASE stray = <<>>
            BY <1>9, <3>2 DEF FlushStart
        <3> QED BY <3>1, <3>2
    <2> QED BY <2>1, <2>2
<1>10. ASSUME NEW newDay \in BOOLEAN, NEW bundles \in BOOLEAN, FlushReport(newDay, bundles)
       PROVE  ThreadsInOrder'
    <2>0. task.user \in User /\ holder' = holder /\ task'.user = task.user
          /\ task'.to = task.to /\ task'.kind = task.kind
          /\ task'.pc \in {"renew", "restore", "remove"}
        BY <1>10 DEF FlushReport
    <2>1. CASE task.user \in userStatServices_
        <3>1. holder.pc = "send" => statsChanged_'[holder.user]
            <4> SUFFICES ASSUME holder.pc = "send" PROVE statsChanged_'[holder.user]
                OBVIOUS
            <4>1. holder.user \in User /\ holder.user # task.user
                BY <1>10, <2>1 DEF FlushReport
            <4> QED BY <1>10, <2>1, <4>1 DEF FlushReport, Report
        <3> QED BY <1>10, <2>0, <2>1, <3>1 DEF FlushReport
    <2>2. CASE task.user \notin userStatServices_
        BY <1>10, <2>0, <2>2 DEF FlushReport
    <2> QED BY <2>1, <2>2
<1>11. CASE QueueRenew
    <2>1. holder.pc = "send" => statsChanged_'[holder.user]
        <3> SUFFICES ASSUME holder.pc = "send" PROVE statsChanged_'[holder.user]
            OBVIOUS
        <3>1. holder.user \in User /\ holder.user # task.user
            BY <1>11 DEF QueueRenew
        <3> QED BY <1>11, <3>1 DEF QueueRenew, Renew
    <2> QED BY <1>11, <2>1 DEF QueueRenew
<1>12. CASE FlushRestore
    <2>1. holder.pc = "send" => statsChanged_'[holder.user]
        BY <1>12 DEF FlushRestore, RestoreStats
    <2> QED BY <1>12, <2>1 DEF FlushRestore
<1>13. CASE FlushRemove
    BY <1>13 DEF FlushRemove, services
<1>14. CASE FlushPop
    BY <1>14 DEF FlushPop, Idle, services
<1>15. ASSUME NEW u \in User, Query(u) PROVE ThreadsInOrder'
    BY <1>15 DEF Query, CoreLockFree
<1>16. ASSUME NEW u \in User, NEW newDay \in BOOLEAN, NEW bundles \in BOOLEAN,
              TimeChange(u, newDay, bundles)
       PROVE  ThreadsInOrder'
    <2>1. task' = task /\ holder'.user = u /\ holder'.pc \in {"renew", "save"}
          /\ ~(task.user = u /\ task.pc \in {"renew", "notify", "send"})
        BY <1>16 DEF TimeChange
    <2> QED BY <2>1
<1>17. CASE HolderRenew
    BY <1>17 DEF HolderRenew
<1>18. CASE TimeChangeSave
    BY <1>18 DEF TimeChangeSave
<1>19. CASE TimeChangeReload
    BY <1>19 DEF TimeChangeReload
<1>20. ASSUME NEW u \in User, NEW newDay \in BOOLEAN, NEW bundles \in BOOLEAN,
              ShutDown(u, newDay, bundles)
       PROVE  ThreadsInOrder'
    <2>1. task' = task /\ holder'.user = u /\ holder'.pc \in {"renew", "notify"}
          /\ ~(task.user = u /\ task.pc \in {"renew", "notify", "send"})
        BY <1>20 DEF ShutDown
    <2> QED BY <2>1
<1>21. CASE ShutDownNotify
    BY <1>21 DEF ShutDownNotify
<1>22. CASE ShutDownSend
    BY <1>22 DEF ShutDownSend
<1>23. ASSUME NEW u \in User, ShutDownSave(u) PROVE ThreadsInOrder'
    BY <1>23 DEF ShutDownSave
<1>24. CASE HolderRemove
    BY <1>24 DEF HolderRemove, NoHolder
<1>25. CASE ShutDownNobody
    BY <1>25 DEF ShutDownNobody, NoHolder
<1>26. CASE ChangeSpace
    BY <1>26 DEF ChangeSpace, services
<1> HIDE DEF ThreadsInOrder, HoldsStatsMutex, FlushTypeOK
<1> QED
    BY <1>1, <1>2, <1>3, <1>4, <1>5, <1>6, <1>7, <1>8, <1>9, <1>10, <1>11, <1>12, <1>13,
       <1>14, <1>15, <1>16, <1>17, <1>18, <1>19, <1>20, <1>21, <1>22, <1>23, <1>24, <1>25,
       <1>26 DEF FlushNext

\* Sending puts a task behind the key, erasing the key takes both away, and a task that
\* starts or ends leaves another or erases the key.
LEMMA NextFlushFollows == FlushTypeOK /\ FlushFollows /\ [FlushNext]_flushVars => FlushFollows'
<1> SUFFICES ASSUME FlushTypeOK, FlushFollows, [FlushNext]_flushVars PROVE FlushFollows'
    OBVIOUS
<1> USE DEF FlushFollows, FlushToCome
<1>0. pending \in Seq(User) /\ stray \in Seq(User)
    BY DEF FlushTypeOK
<1>s. ASSUME NEW u, SendEvent(u) PROVE FlushFollows'
    BY <1>s, <1>0 DEF SendEvent
<1>r. ASSUME RemoveEvent PROVE FlushFollows'
    BY <1>r DEF RemoveEvent
<1>u. ASSUME UNCHANGED timer, task' = task PROVE FlushFollows'
    BY <1>u DEF timer
<1>o. ASSUME NEW u, OnStatsChanged(u), task' = task PROVE FlushFollows'
    BY <1>o, <1>s, <1>u DEF OnStatsChanged
<1>w. ASSUME UNCHANGED timer, task.kind = "switch" \/ task.pc \in {"none", "accounts"}
      PROVE  FlushFollows'
    BY <1>w DEF timer
<1>1. CASE UNCHANGED flushVars
    BY <1>1, <1>u DEF flushVars
<1>2. ASSUME NEW u \in User, NEW newDay \in BOOLEAN, ReportEvent(u, newDay)
      PROVE  FlushFollows'
    BY <1>2, <1>u, <1>o DEF ReportEvent
<1>3. ASSUME NEW u \in User, NEW newDay \in BOOLEAN, NEW bundles \in BOOLEAN,
             SwitchUser(u, newDay, bundles)
      PROVE  FlushFollows'
    BY <1>3, <1>w DEF SwitchUser, QueueIdle
<1>4. CASE SwitchRestore
    BY <1>4, <1>w DEF SwitchRestore
<1>5. ASSUME NEW anyActive \in BOOLEAN, SwitchAccounts(anyActive) PROVE FlushFollows'
    BY <1>5, <1>w DEF SwitchAccounts
<1>6. CASE FlushStart
    <2>1. task'.kind = "flush" /\ task'.pc \in {"remove", "pop", "report"}
          /\ (task'.pc = "pop" => skipped')
        BY <1>6 DEF FlushStart
    <2> QED BY <2>1
<1>7. ASSUME NEW newDay \in BOOLEAN, NEW bundles \in BOOLEAN, FlushReport(newDay, bundles)
      PROVE  FlushFollows'
    <2>1. task.pc = "report" /\ task'.kind = task.kind /\ UNCHANGED timer
          /\ task'.pc \in {"renew", "restore", "remove"}
        BY <1>7 DEF FlushReport, FlushTypeOK
    <2> QED BY <2>1 DEF timer
<1>8. CASE FlushRestore
    BY <1>8 DEF FlushRestore, timer, FlushTypeOK
<1>9. CASE FlushPop
    BY <1>9, <1>0 DEF FlushPop
<1> QED
    BY <1>1, <1>2, <1>3, <1>4, <1>5, <1>6, <1>7, <1>8, <1>9, <1>s, <1>r, <1>u DEF FlushNext,
       ReportLauncherEvent, RemoveUser, SwitchSend, QueueRenew, Renew, FlushRemove, Query,
       TimeChange, HolderRenew, TimeChangeSave, TimeChangeReload, ShutDown, ShutDownNotify,
       ShutDownSend, ShutDownSave, HolderRemove, ShutDownNobody, ChangeSpace

\* Memory, flag and reload.
Marked == UnsavedIsMarked /\ ReloadIsSafe /\ NothingLost

\* No handler leaves a reported event unmarked or reloads what is not saved.
LEMMA NextMarked ==
    FlushTypeOK /\ ThreadsInOrder /\ Marked /\ [FlushNext]_flushVars => Marked'
<1> SUFFICES ASSUME FlushTypeOK, ThreadsInOrder, Marked, [FlushNext]_flushVars PROVE Marked'
    OBVIOUS
<1> USE NoneAssumption DEF FlushTypeOK, Marked, UnsavedIsMarked, ReloadIsSafe, NothingLost,
        HoldsStatsMutex, Kind
<1>1. CASE UNCHANGED flushVars
    BY <1>1 DEF flushVars, services
<1>r. ASSUME NEW users \in SUBSET User, RestoreStats(users),
             UNCHANGED <<userStatServices_, lost>>,
             \/ holder' = holder
             \/ /\ holder.pc = "save" /\ holder'.pc \in {"save", "remove", "reload"}
                /\ holder'.pc = "reload" => holder'.user \in users
      PROVE  Marked'
    <2>1. \A v \in User : IF v \in users THEN unsaved'[v] = {}
                          ELSE unsaved'[v] = unsaved[v] /\ statsChanged_'[v] = statsChanged_[v]
        BY <1>r DEF RestoreStats
    <2>2. UnsavedIsMarked'
        <3> SUFFICES ASSUME NEW v \in User, "reported" \in unsaved'[v]
                     PROVE  v \in userStatServices_'
                            /\ (statsChanged_'[v] \/ HoldsStatsMutex(holder', v))
            OBVIOUS
        <3>1. "reported" \in unsaved[v] /\ statsChanged_'[v] = statsChanged_[v]
            BY <2>1
        <3>2. v \in userStatServices_ /\ (statsChanged_[v] \/ HoldsStatsMutex(holder, v))
            BY <3>1
        <3>3. HoldsStatsMutex(holder, v) => holder' = holder
            BY <1>r
        <3> QED BY <1>r, <3>1, <3>2, <3>3
    <2>3. ReloadIsSafe'
        <3> SUFFICES ASSUME holder'.pc = "reload" PROVE unsaved'[holder'.user] \subseteq {"settled"}
            OBVIOUS
        <3>1. CASE holder' = holder
            BY <2>1, <3>1 DEF ThreadsInOrder
        <3>2. CASE holder' # holder
            BY <1>r, <2>1, <3>2
        <3> QED BY <3>1, <3>2
    <2>4. NothingLost'
        BY <1>r
    <2> QED BY <2>2, <2>3, <2>4
<1>2. ASSUME NEW u \in User, NEW newDay \in BOOLEAN, ReportEvent(u, newDay) PROVE Marked'
    BY <1>2 DEF ReportEvent, CoreLockFree
<1>3. ASSUME NEW u \in User, ReportLauncherEvent(u) PROVE Marked'
    BY <1>3 DEF ReportLauncherEvent, services
<1>4. ASSUME NEW u \in User, RemoveUser(u) PROVE Marked'
    BY <1>4 DEF RemoveUser, RestoreStats, CoreLockFree
<1>5. ASSUME NEW u \in User, NEW newDay \in BOOLEAN, NEW bundles \in BOOLEAN,
             Report(u, newDay, bundles, {}), UNCHANGED <<userStatServices_, lost>>,
             holder' = holder \/ (CoreLockFree /\ holder'.pc \in {"renew", "save"})
      PROVE  Marked'
    <2>1. CASE MustSend(u, newDay, bundles)
        BY <1>5, <2>1 DEF Report, CoreLockFree
    <2>2. CASE ~MustSend(u, newDay, bundles)
        <3> DEFINE mem == (IF newDay THEN {} ELSE unsaved[u] \cup {})
                          \cup (IF bundles THEN {"settled"} ELSE {})
        <3>1. statsChanged_' = [statsChanged_ EXCEPT ![u] = statsChanged_[u] /\ ~newDay]
              /\ unsaved' = [unsaved EXCEPT ![u] = mem]
            BY <1>5, <2>2 DEF Report
        <3>2. mem \subseteq unsaved[u] \cup {"settled"} /\ (newDay => mem \subseteq {"settled"})
            OBVIOUS
        <3> HIDE DEF mem
        <3>3. \A v \in User \ {u} : unsaved'[v] = unsaved[v] /\ statsChanged_'[v] = statsChanged_[v]
            BY <3>1
        <3>4. unsaved'[u] = mem /\ statsChanged_'[u] = (statsChanged_[u] /\ ~newDay)
            BY <3>1
        <3>5. UnsavedIsMarked'
            <4> SUFFICES ASSUME NEW v \in User, "reported" \in unsaved'[v]
                         PROVE  v \in userStatServices_
                                /\ (statsChanged_'[v] \/ HoldsStatsMutex(holder', v))
                BY <1>5
            <4>1. "reported" \in unsaved[v] /\ (v = u => ~newDay)
                BY <3>2, <3>3, <3>4
            <4> QED BY <1>5, <3>3, <3>4, <4>1 DEF CoreLockFree
        <3>6. ReloadIsSafe'
            <4> SUFFICES ASSUME holder'.pc = "reload"
                         PROVE  unsaved'[holder'.user] \subseteq {"settled"}
                OBVIOUS
            <4>1. holder' = holder /\ holder.user \in User
                BY <1>5 DEF ThreadsInOrder
            <4>2. CASE holder.user = u
                BY <3>2, <3>4, <4>1, <4>2
            <4>3. CASE holder.user # u
                BY <3>3, <4>1, <4>3
            <4> QED BY <4>2, <4>3
        <3>7. NothingLost'
            BY <1>5
        <3> HIDE DEF UnsavedIsMarked, ReloadIsSafe, NothingLost
        <3> QED BY <3>5, <3>6, <3>7
    <2> QED BY <2>1, <2>2
<1>6. ASSUME NEW u \in User, NEW newDay \in BOOLEAN, NEW bundles \in BOOLEAN,
             SwitchUser(u, newDay, bundles)
      PROVE  Marked'
    <2>1. CASE currentUsedUser_ \in userStatServices_
        <3>1. currentUsedUser_ \in User /\ Report(currentUsedUser_, newDay, bundles, {})
              /\ UNCHANGED <<userStatServices_, lost, holder>>
            BY <1>6, <2>1 DEF SwitchUser
        <3> QED BY <1>5, <3>1
    <2>2. CASE currentUsedUser_ \notin userStatServices_
        BY <1>6, <2>2 DEF SwitchUser
    <2> QED BY <2>1, <2>2
<1>7. CASE SwitchRestore
    <2>1. RestoreStats({task.user}) /\ UNCHANGED <<userStatServices_, lost, holder>>
          /\ {task.user} \in SUBSET User
        BY <1>7 DEF SwitchRestore, ThreadsInOrder
    <2> QED BY <2>1, <1>r
<1>8. ASSUME NEW anyActive \in BOOLEAN, SwitchAccounts(anyActive) PROVE Marked'
    BY <1>8 DEF SwitchAccounts, services
<1>9. CASE SwitchSend
    BY <1>9 DEF SwitchSend, services
<1>10. CASE FlushStart
    BY <1>10 DEF FlushStart, services
<1>11. ASSUME NEW newDay \in BOOLEAN, NEW bundles \in BOOLEAN, FlushReport(newDay, bundles)
       PROVE  Marked'
    <2>1. CASE task.user \in userStatServices_
        <3>1. task.user \in User /\ Report(task.user, newDay, bundles, {})
              /\ UNCHANGED <<userStatServices_, lost, holder>>
            BY <1>11, <2>1 DEF FlushReport
        <3> QED BY <1>5, <3>1
    <2>2. CASE task.user \notin userStatServices_
        BY <1>11, <2>2 DEF FlushReport
    <2> QED BY <2>1, <2>2
<1>12. CASE QueueRenew
    BY <1>12 DEF QueueRenew, Renew, ThreadsInOrder
<1>13. CASE FlushRestore
    <2>1. {v \in User : v = task.user /\ statsChanged_[v]} \in SUBSET User
        OBVIOUS
    <2>2. UNCHANGED <<userStatServices_, lost, holder>>
          /\ RestoreStats({v \in User : v = task.user /\ statsChanged_[v]})
        BY <1>13 DEF FlushRestore
    <2> QED BY <2>1, <2>2, <1>r
<1>14. CASE FlushRemove
    BY <1>14 DEF FlushRemove, services
<1>15. CASE FlushPop
    BY <1>15 DEF FlushPop, services
<1>16. ASSUME NEW u \in User, Query(u) PROVE Marked'
    BY <1>16 DEF Query, InitService, CoreLockFree
<1>17. ASSUME NEW u \in User, NEW newDay \in BOOLEAN, NEW bundles \in BOOLEAN,
              TimeChange(u, newDay, bundles)
       PROVE  Marked'
    <2>1. holder'.pc \in {"renew", "save"}
        BY <1>17 DEF TimeChange
    <2> QED BY <1>5, <1>17, <2>1 DEF TimeChange
<1>18. CASE HolderRenew
    BY <1>18 DEF HolderRenew, Renew, ThreadsInOrder
<1>19. CASE TimeChangeSave
    <2>1. RestoreStats({holder.user}) /\ UNCHANGED <<userStatServices_, lost>>
          /\ {holder.user} \in SUBSET User /\ holder'.pc = "reload" /\ holder.pc = "save"
          /\ holder'.user \in {holder.user}
        BY <1>19 DEF TimeChangeSave, ThreadsInOrder
    <2> QED BY <2>1, <1>r
<1>20. CASE TimeChangeReload
    BY <1>20 DEF TimeChangeReload, ThreadsInOrder
<1>21. ASSUME NEW u \in User, NEW newDay \in BOOLEAN, NEW bundles \in BOOLEAN,
              ShutDown(u, newDay, bundles)
       PROVE  Marked'
    <2>0. UNCHANGED <<userStatServices_, lost>> /\ u \in userStatServices_
          /\ Report(u, newDay, bundles, {"reported"}) /\ holder.pc = "none"
          /\ holder'.user = u /\ holder'.pc \in {"renew", "notify"}
        BY <1>21 DEF ShutDown, CoreLockFree
    <2>1. CASE MustSend(u, newDay, bundles)
        BY <2>0, <2>1 DEF Report
    <2>2. CASE ~MustSend(u, newDay, bundles)
        BY <2>0, <2>2 DEF Report
    <2> QED BY <2>1, <2>2
<1>22. CASE ShutDownNotify
    BY <1>22 DEF ShutDownNotify, ThreadsInOrder
<1>23. CASE ShutDownSend
    BY <1>23 DEF ShutDownSend, services, ThreadsInOrder
<1>24. ASSUME NEW u \in User, ShutDownSave(u) PROVE Marked'
    <2>1. RestoreStats({u}) /\ UNCHANGED <<userStatServices_, lost>> /\ holder.pc = "save"
          /\ holder'.pc \in {"save", "remove"}
        BY <1>24 DEF ShutDownSave
    <2> QED BY <2>1, <1>r
<1>25. CASE HolderRemove
    BY <1>25 DEF HolderRemove, services, NoHolder
<1>26. CASE ShutDownNobody
    BY <1>26 DEF ShutDownNobody, services, NoHolder, CoreLockFree
<1>27. CASE ChangeSpace
    BY <1>27 DEF ChangeSpace, services
<1> QED
    BY <1>1, <1>2, <1>3, <1>4, <1>6, <1>7, <1>8, <1>9, <1>10, <1>11, <1>12, <1>13,
       <1>14, <1>15, <1>16, <1>17, <1>18, <1>19, <1>20, <1>21, <1>22, <1>23, <1>24, <1>25,
       <1>26, <1>27 DEF FlushNext

\* Every handler preserves the inductive invariant.
LEMMA NextFlushIInv == FlushIInv /\ [FlushNext]_flushVars => FlushIInv'
BY NextFlushTypeOK, NextThreadsInOrder, NextFlushFollows, NextMarked DEF FlushIInv, Marked

\* The inductive invariant holds in every reachable state.
THEOREM FlushInvariance == FlushSpec => []FlushIInv
<1>1. FlushInit => FlushIInv
    BY InitFlushIInv
<1>2. FlushIInv /\ [FlushNext]_flushVars => FlushIInv'
    BY NextFlushIInv
<1> QED
    BY <1>1, <1>2, PTL DEF FlushSpec

\* Type correctness of the flush schedule.
THEOREM FlushTypeCorrect == FlushSpec => []FlushTypeOK
<1>1. FlushIInv => FlushTypeOK
    BY DEF FlushIInv
<1> QED
    BY <1>1, FlushInvariance, PTL

\* No reload after a clock change throws away an event that was not saved, for any
\* number of users and any interleaving with the flush and with user switches.
THEOREM NoEventLost == FlushSpec => []NothingLost
<1>1. FlushIInv => NothingLost
    BY DEF FlushIInv
<1> QED
    BY <1>1, FlushInvariance, PTL

\* Every event that was reported and is in memory only is marked by statsChanged_ as soon
\* as its report is over, so the next RestoreStats(false) saves it.
THEOREM UnsavedMarked == FlushSpec => []UnsavedIsMarked
<1>1. FlushIInv => UnsavedIsMarked
    BY DEF FlushIInv
<1> QED
    BY <1>1, FlushInvariance, PTL

\* When HasEvent says that a flush is scheduled, a task that erases the key is waiting or
\* running, whatever two threads send, cancel and pop, unless a flush was skipped.
THEOREM KeyMeansFlush == FlushSpec => []FlushFollows
<1>1. FlushIInv => FlushFollows
    BY DEF FlushIInv
<1> QED
    BY <1>1, FlushInvariance, PTL
=============================================================================
