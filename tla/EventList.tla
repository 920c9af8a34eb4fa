------------------------------ MODULE EventList ------------------------------
(***************************************************************************)
(* BundleActiveEventList: the vector of today's events that a period       *)
(* keeps in memory until they are written to the event table.  The list is *)
(* kept in time stamp order by Insert: an event that is not older than the *)
(* last one is appended, an older one (reported by another thread, or      *)
(* synthesised in the past like the STARTUP event) is put where the binary *)
(* search FindBestIndex says.  The search is modelled iteration by         *)
(* iteration, so that its termination and its index bounds can be stated.  *)
(*                                                                         *)
(* events_ is 1-based here and 0-based in the code: lo, hi and result are  *)
(* the code's numbers, and At(i) is the code's events_[i].                 *)
(***************************************************************************)
EXTENDS Integers, Sequences, SequencesExt

CONSTANTS
    Time,       \* time stamps the events carry
    Bundle,     \* bundle names with their uid: the owner of an event
    MaxEvents   \* bound: events in the list

ASSUME TimeAssumption == Time \subseteq Int
ASSUME MaxEventsAssumption == MaxEvents \in Nat

VARIABLES
    events_,    \* the list, as a sequence of events
    pc,         \* "idle", "search" (in FindBestIndex) or "erase" (in DeleteMemEvent)
    event,      \* the event being inserted (meaningful in "search")
    lo, hi, result,     \* the locals of FindBestIndex
    eventIter, deleted  \* the iterator of DeleteMemEvent, the bundle it erases

listVars == <<events_, pc, event, lo, hi, result, eventIter, deleted>>

Event == [timeStamp_ : Time, bundleName_ : Bundle]

At(i) == events_[i + 1].timeStamp_

\* Mutant: the sum of the bounds is halved and lo is added all the same.
MidOfSum == (hi + lo) \div 2 + lo

\* (hi - lo) / 2 + lo
Mid == (hi - lo) \div 2 + lo

ListInit ==
    /\ events_ = <<>>
    /\ pc = "idle"
    /\ event \in Event
    /\ lo = 0 /\ hi = -1 /\ result = 0
    /\ eventIter = 0 /\ deleted \in Bundle

\* The fast path of Insert: an empty list, or an event not older than back().
InsertAtEnd(e) ==
    /\ pc = "idle"
    /\ Len(events_) < MaxEvents
    /\ Len(events_) # 0 => e.timeStamp_ >= events_[Len(events_)].timeStamp_
    /\ events_' = Append(events_, e)
    /\ UNCHANGED <<pc, event, lo, hi, result, eventIter, deleted>>

\* The slow path of Insert calls FindBestIndex: its locals are set up.
BeginSearch(e) ==
    /\ pc = "idle"
    /\ Len(events_) < MaxEvents
    /\ Len(events_) # 0
    /\ e.timeStamp_ < events_[Len(events_)].timeStamp_
    /\ pc' = "search"
    /\ event' = e
    /\ lo' = 0
    /\ hi' = Len(events_) - 1
    /\ result' = Len(events_)
    /\ UNCHANGED <<events_, eventIter, deleted>>

\* Mutant: the upper half starts at mid, so the same mid may be probed for ever.
SearchStepHiMid ==
    /\ pc = "search"
    /\ lo <= hi
    /\ \/ At(Mid) >= event.timeStamp_ /\ hi' = Mid /\ result' = Mid /\ lo' = lo
       \/ At(Mid) < event.timeStamp_ /\ lo' = Mid + 1 /\ UNCHANGED <<hi, result>>
    /\ UNCHANGED <<events_, pc, event, eventIter, deleted>>

\* Mutant: mid is not remembered when it is a candidate.
SearchStepNoResult ==
    /\ pc = "search"
    /\ lo <= hi
    /\ \/ At(Mid) >= event.timeStamp_ /\ hi' = Mid - 1 /\ lo' = lo
       \/ At(Mid) < event.timeStamp_ /\ lo' = Mid + 1 /\ hi' = hi
    /\ UNCHANGED <<events_, pc, event, result, eventIter, deleted>>

\* One iteration of the loop of FindBestIndex.
SearchStep ==
    /\ pc = "search"
    /\ lo <= hi
    /\ \/ /\ At(Mid) >= event.timeStamp_
          /\ hi' = Mid - 1
          /\ result' = Mid
          /\ UNCHANGED lo
       \/ /\ At(Mid) < event.timeStamp_
          /\ lo' = Mid + 1
          /\ UNCHANGED <<hi, result>>
    /\ UNCHANGED <<events_, pc, event, eventIter, deleted>>

\* FindBestIndex returned: events_.insert(events_.begin() + insertIdx, event).
InsertAtIndex ==
    /\ pc = "search"
    /\ lo > hi
    /\ events_' = InsertAt(events_, result + 1, event)
    /\ pc' = "idle"
    /\ lo' = 0 /\ hi' = -1 /\ result' = 0
    /\ UNCHANGED <<event, eventIter, deleted>>

\* RestoreStats clears the list once it has been handed to the database.
Clear ==
    /\ pc = "idle"
    /\ events_' = <<>>
    /\ UNCHANGED <<pc, event, lo, hi, result, eventIter, deleted>>

\* DeleteMemEvent walks the vector with an iterator and erases the events of an
\* uninstalled bundle; erase() returns the next position, so the iterator stays.
BeginErase(b) ==
    /\ pc = "idle"
    /\ pc' = "erase"
    /\ eventIter' = 0
    /\ deleted' = b
    /\ UNCHANGED <<events_, event, lo, hi, result>>

\* Mutant: the iterator also advances after an erase and skips an event.
EraseStepSkips ==
    /\ pc = "erase"
    /\ eventIter < Len(events_)
    /\ events_' = IF events_[eventIter + 1].bundleName_ = deleted
                  THEN RemoveAt(events_, eventIter + 1) ELSE events_
    /\ eventIter' = eventIter + 1
    /\ UNCHANGED <<pc, event, lo, hi, result, deleted>>

EraseStep ==
    /\ pc = "erase"
    /\ eventIter < Len(events_)
    /\ \/ /\ events_[eventIter + 1].bundleName_ = deleted
          /\ events_' = RemoveAt(events_, eventIter + 1)
          /\ UNCHANGED eventIter
       \/ /\ events_[eventIter + 1].bundleName_ # deleted
          /\ eventIter' = eventIter + 1
          /\ UNCHANGED events_
    /\ UNCHANGED <<pc, event, lo, hi, result, deleted>>

EndErase ==
    /\ pc = "erase"
    /\ eventIter >= Len(events_)
    /\ pc' = "idle"
    /\ eventIter' = 0
    /\ UNCHANGED <<events_, event, lo, hi, result, deleted>>

ListNext ==
    \/ \E e \in Event : InsertAtEnd(e) \/ BeginSearch(e)
    \/ SearchStep
    \/ InsertAtIndex
    \/ Clear
    \/ \E b \in Bundle : BeginErase(b)
    \/ EraseStep
    \/ EndErase

\* The search runs to its end inside one call: a thread that holds statsMutex_
\* and does not block between two iterations.
Fairness ==
    /\ WF_listVars(SearchStep) /\ WF_listVars(InsertAtIndex)
    /\ WF_listVars(EraseStep) /\ WF_listVars(EndErase)

ListSpec == ListInit /\ [][ListNext]_listVars

FairSpec == ListSpec /\ Fairness

-----------------------------------------------------------------------------
\* Type invariant of the list and of the locals of the two loops.
ListTypeOK ==
    /\ events_ \in Seq(Event)
    /\ pc \in {"idle", "search", "erase"}
    /\ event \in Event
    /\ lo \in Int /\ hi \in Int /\ result \in Int
    /\ eventIter \in Nat /\ deleted \in Bundle

\* The list stays in time stamp order whatever the order in which events are
\* reported: Insert with FindBestIndex, Clear and DeleteMemEvent keep it.
\* QueryBundleEvents and the event table rely on it.
Sorted ==
    \A i, j \in 1..Len(events_) :
        i < j => events_[i].timeStamp_ <= events_[j].timeStamp_

\* What the loop of FindBestIndex knows at each iteration: everything left of
\* lo is older than the event, everything from result on is not, and the
\* unexplored range ends where result begins.
SearchInv ==
    pc = "search" =>
        /\ 0 <= lo /\ lo <= result /\ result <= Len(events_)
        /\ hi = result - 1
        /\ \A i \in 1..lo : events_[i].timeStamp_ < event.timeStamp_
        /\ \A i \in (result + 1)..Len(events_) :
               events_[i].timeStamp_ >= event.timeStamp_

\* DeleteMemEvent leaves no event of the uninstalled bundle before its iterator,
\* and so none at all when the iterator reaches the end.
EraseInv ==
    pc = "erase" =>
        /\ eventIter <= Len(events_)
        /\ \A i \in 1..eventIter : events_[i].bundleName_ # deleted

\* The inductive invariant: the order of the list together with what the two
\* loops know about the part they have visited.
ListIInv == ListTypeOK /\ Sorted /\ SearchInv /\ EraseInv

\* While FindBestIndex is running, events_[mid] is inside the vector: the code
\* indexes it without a check.
IndexInRange ==
    (pc = "search" /\ lo <= hi) => Mid \in 0..(Len(events_) - 1)

\* When DeleteMemEvent returns, the list holds no event of the uninstalled
\* bundle: what RestoreStats writes later cannot bring its history back.
EraseComplete ==
    [][(pc = "erase" /\ pc' = "idle") =>
          \A i \in 1..Len(events_') : events_'[i].bundleName_ # deleted]_listVars

\* The loops of FindBestIndex and DeleteMemEvent terminate: the thread that runs
\* them holds statsMutex_, so a loop that spins would block every query.
LoopsEnd == (pc # "idle") ~> (pc = "idle")

=============================================================================
