---------------------------- MODULE MCUsageCore ----------------------------
(***************************************************************************)
(* Instances of UsageCore for TLC: which uids there are and how long the   *)
(* periods are.  A day has two ticks; the longer period stands for a week, *)
(* a month or a year.                                                      *)
(***************************************************************************)
EXTENDS UsageCore

\* Two bundles, the first with its main instance (uid 1) and a clone (uid 2).
Instances == <<"app1", "app1", "app2">>

\* A day of 2 ticks and a period of 2 days.
ShortDays == <<2, 4>>

\* Two tables of each interval are kept: the running period and the one before.
TwoOfEach == <<2, 2>>

\* Days of two bundles, no fault.
Days == [uids |-> {1, 3}, tasks |-> {}, startTime |-> 0, maxTime |-> 4,
         maxEvents |-> 2, maxJumps |-> 0, maxCrashes |-> 0, folderFills |-> FALSE]

\* One bundle with a long time task; the process dies once.
Deaths == [Days EXCEPT !.uids = {1}, !.tasks = Task, !.maxTime = 3, !.maxEvents = 3,
                       !.maxCrashes = 1]

\* One bundle; the wall clock, which starts on the third day, is set twice.
Clocks == [Days EXCEPT !.uids = {1}, !.startTime = 4, !.maxTime = 2, !.maxEvents = 3,
                      !.maxJumps = 2]

\* One bundle; the folder of the database reaches its limit.
Full == [Days EXCEPT !.uids = {1}, !.folderFills = TRUE]

Faults == {Days, Deaths, Clocks, Full}
\* Clock changes: half a short day forward, a whole one back.
Jumps == {1, -2}
=============================================================================
