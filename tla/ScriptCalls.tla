----------------------------- MODULE ScriptCalls -----------------------------
(***************************************************************************)
(* Calls that the scripts of one process make of the service.  A function  *)
(* of a script interface parses its arguments (UsageStatistics and the     *)
(* other front ends) and queues the work; a worker calls the service over  *)
(* the client library; then the answer is put on the queue of the script.  *)
(* Workers run side by side, so that calls are carried out and answered in *)
(* any order.                                                              *)
(*                                                                         *)
(* The observer of app groups is the state of a front end: it remembers    *)
(* the observer it has, besides the client library, which remembers the    *)
(* one to register again, and the service, which has the one it notifies.  *)
(* The three are changed by different threads at different times.  The     *)
(* client library and the service are those of GroupCallback, which this   *)
(* module is shown to implement for one process; the process makes queries *)
(* or registers observers, in one of the two script interfaces that do.    *)
(***************************************************************************)
EXTENDS ServiceCalls

CONSTANTS
    Process,        \* the process of the scripts, a client of the service
    Argvs,          \* arguments the scripts pass
    IdlArgs,        \* the same for statically typed scripts: [name, begin, end, num]
    CommandLines,   \* options passed to the command line tool
    Wanted,         \* what queryLastUseTime is asked for: lists of <<bundle, index>>
    Callers,        \* external: what the service finds out about the caller of a query
    MaxCalls,       \* bound: calls of one life of the process
    MaxGen,         \* bound: how often the service is started
    MaxLife         \* bound: how often the process is started
ASSUME ScriptCallsAssumption == {MaxCalls, MaxGen, MaxLife} \subseteq Nat \ {0}
ASSUME ArgumentsAssumption ==
    /\ Argvs \subseteq Seq([type : STRING, num : Int, str : STRING])
    /\ \A a \in IdlArgs : {a.begin, a.end, a.num} \subseteq Int
    /\ Wanted \subseteq Seq(STRING \X Int)

VARIABLES
    depsReady, service, gen,                                    \* of GroupCallback
    groupChangeObservers_, recipientMap_, diedObservers,
    life, bundleActiveProxy_, observer_, told, recovering,
    front,          \* what the process uses: "queries", "napi" or "taihe" observers
    observer,       \* registerObserver, groupChangeObserver_: none, set, or stuck
    calls           \* the calls the process has made

G == INSTANCE GroupCallback WITH Client <- {Process}
New == INSTANCE UsageStatistics
Old == INSTANCE BundleState
Idl == INSTANCE UsageStatisticsIdl
Cli == INSTANCE UsageStatsQuery

callVars == <<front, observer, calls>>
groupVars == <<depsReady, service, gen, groupChangeObservers_, recipientMap_, diedObservers,
               life, bundleActiveProxy_, observer_, told, recovering>>
vars == <<groupVars, callVars>>

-----------------------------------------------------------------------------
(* Calls                                                                   *)

\* What the calls of all front ends come to, each with its front end.
Of(name, outcomes) == {[front |-> name, outcome |-> outcome] : outcome \in outcomes}
Outcomes ==
    Of("usageStatistics", UNION {New!Calls(argv) : argv \in Argvs})
    \cup Of("bundleState", UNION {Old!Calls(argv) : argv \in Argvs})
    \cup Of("taihe", UNION {Idl!Calls(a.name, a.begin, a.end, a.num) : a \in IdlArgs})
    \cup Of("tool", UNION {Cli!Main(options) : options \in CommandLines})

NotYet == Error("none")
Query(of, request, wanted) ==
    [what |-> "query", front |-> of.front, api |-> of.outcome.api, request |-> request,
     wanted |-> wanted, phase |-> "queued", answer |-> NotYet, account |-> NoUser]
ObserverCall(what) ==
    [what |-> what, front |-> front, api |-> what, request |-> Nothing, wanted |-> <<>>, phase |-> "queued",
     answer |-> NotYet, account |-> NoUser]

Called(call) == calls' = Append(calls, call)
Executed(i, answer, account) ==
    calls' = [calls EXCEPT ![i].phase = "executed", ![i].answer = answer, ![i].account = account]

\* What is left of an answered call.
Over(call) ==
    [call EXCEPT !.phase = "answered", !.request = Nothing, !.wanted = <<>>, !.answer = NotYet,
                 !.account = NoUser]

\* Mutant: a call that failed is never answered.
AnsweredIfGood(i) ==
    /\ calls[i].answer.ret = "ERR_OK"
    /\ calls' = [calls EXCEPT ![i] = Over(@)]

\* GetCallbackPromiseResult: the callback is called or the promise settled.
Answered(i) == calls' = [calls EXCEPT ![i] = Over(@)]

Phase(i, what, phase) == calls[i].what \in what /\ calls[i].phase = phase

\* Whether a call of the client library reaches the service.
Reaches == G!Arrives(G!GetBundleActiveProxy(Process))
Registered == groupChangeObservers_[Process] # G!None

-----------------------------------------------------------------------------
(* Queries and settings                                                    *)

\* A script calls a function.  One that only throws, or is answered at once, changes
\* nothing; one that ends the process is ClientDie.
Queue(of) ==
    /\ front = "queries"
    /\ of.outcome.how \in {"async", "sync"}
    /\ \E wanted \in IF of.outcome.api = "queryLastUseTime" THEN Wanted ELSE {<<>>} :
          Called(Query(of, of.outcome.request, wanted))
    /\ UNCHANGED <<groupVars, front, observer>>

ProcessDie ==
    /\ G!ClientDie(Process)
    /\ observer' = "none"
    /\ calls' = <<>>
    /\ UNCHANGED front

Crashes(of) ==
    /\ front = "queries"
    /\ of.outcome.how = "crash"
    /\ ProcessDie

\* What the front ends make of the rows they get: sums by a key of the rows, or the first
\* row of each key, the rows coming by bundle and uid.
SumBy(Key(_), rows) == {MergeSamePackageStats({row \in rows : Key(row) = Key(one)}) : one \in rows}
FirstBy(Key(_), rows) ==
    {row \in rows : \A other \in rows : Key(other) = Key(row) => row.uid <= other.uid}

Bundle(row) == row.bundle
Application(row) == <<row.bundle, row.appIndex>>

\* QueryBundleStatsInfos of BundleStateCommon and BundleStateIDLCommon.
MergeByBundle(rows) == SumBy(Bundle, rows)

\* Mutant: as MergeAppOfCommon.
MergeAppStatsInfosIntoCopy(rows) == FirstBy(Application, rows)

\* MergeAppStatsInfos of BundleStateIDLCommon.
MergeAppStatsInfos(rows) == SumBy(Application, rows)

\* QueryAppStatsInfos and QueryLastUseTime of BundleStateCommon add the later rows to a
\* copy of the first.
MergeAppOfCommon(rows) == FirstBy(Application, rows)

\* QueryLastUseTime of either looks at the rows once for each bundle and index asked for,
\* so that a row is kept only if it is asked for, and once more for every repetition.
\* Both compare the name with the index behind it, as a text: no name ends in a digit here.
WantedAt(call, row) == {n \in DOMAIN call.wanted : call.wanted[n] = Application(row)}
Selected(call, rows) ==
    {row \in rows : call.api = "queryLastUseTime" => WantedAt(call, row) # {}}
Repeated(call, rows) ==
    {[row EXCEPT !.front = IF call.api = "queryLastUseTime" THEN Cardinality(WantedAt(call, row)) * @
                           ELSE @] : row \in Selected(call, rows)}

AppApis == {"queryAppStatsInfos", "queryLastUseTime"}
Shown(call, rows) ==
    CASE call.api \in {"queryBundleStatsInfos", "queryBundleStateInfos"} -> MergeByBundle(rows)
      [] call.api \in AppApis /\ call.front = "taihe" -> MergeAppStatsInfos(Repeated(call, rows))
      [] call.api \in AppApis /\ call.front # "taihe" -> MergeAppOfCommon(Selected(call, rows))
      [] OTHER -> rows

\* The worker's part of a query, with the whole call of the service.
Execute(i) ==
    /\ Phase(i, {"query"}, "queued")
    /\ IF Reaches
       THEN \E caller \in Callers : \E answer \in Perform(calls[i].request, caller) :
              Executed(i, [answer EXCEPT !.found = Shown(calls[i], @)], caller.account)
       ELSE Executed(i, Error("ERR_GET_SYSTEM_ABILITY_FAILED"), NoUser)
    /\ G!OtherCall(Process)
    /\ UNCHANGED <<front, observer>>

\* The answer on the queue of the script.
AnswerQuery(i) ==
    /\ Phase(i, {"query"}, "executed")
    /\ Answered(i)
    /\ UNCHANGED <<groupVars, front, observer>>

-----------------------------------------------------------------------------
(* Observers, over napi: bundle_active_app_group_napi.cpp                  *)

\* Whether a call of the client library to register or unregister is a success.
RegisterResult == IF Reaches /\ ~Registered THEN "ERR_OK" ELSE "error"
UnRegisterResult == IF Reaches /\ Registered THEN "ERR_OK" ELSE "error"

\* RegisterAppGroupCallBack takes the observer while it parses.  A second argument that
\* is no callback is refused when the observer is already taken.
ParseRegister(argv) ==
    /\ front = "napi"
    /\ Len(argv) \in {1, 2} /\ observer = "none" /\ IsFunction(Arg(argv, 0))
    /\ IF Len(argv) = 2 /\ ~IsFunction(Arg(argv, 1))
       THEN observer' = "stuck" /\ UNCHANGED calls
       ELSE observer' = "set" /\ Called(ObserverCall("register"))
    /\ UNCHANGED <<groupVars, front>>

ParseUnRegister(argv) ==
    /\ front = "napi"
    /\ Len(argv) \in {0, 1} /\ (Len(argv) = 1 => IsFunction(Arg(argv, 0)))
    /\ observer # "none"
    /\ Called(ObserverCall("unregister"))
    /\ UNCHANGED <<groupVars, front, observer>>

\* RegisterAppGroupCallBackAsync and UnRegisterAppGroupCallBackAsync.
ExecuteRegister(i) ==
    /\ front = "napi"
    /\ Phase(i, {"register"}, "queued")
    /\ Executed(i, Error(RegisterResult), NoUser)
    /\ G!RegisterAppGroupCallBack(Process)
    /\ UNCHANGED <<front, observer>>

\* Mutant: the client library forgets the observer whatever the service answers.
ExecuteUnRegisterForgets(i) ==
    /\ Phase(i, {"unregister"}, "queued")
    /\ Executed(i, Error(UnRegisterResult), NoUser)
    /\ observer_' = [observer_ EXCEPT ![Process] = FALSE]
    /\ UNCHANGED <<depsReady, service, gen, groupChangeObservers_, recipientMap_, diedObservers,
                   life, bundleActiveProxy_, told, recovering, front, observer>>

ExecuteUnRegister(i) ==
    /\ front = "napi"
    /\ Phase(i, {"unregister"}, "queued")
    /\ Executed(i, Error(UnRegisterResult), NoUser)
    /\ G!UnRegisterAppGroupCallBack(Process)
    /\ UNCHANGED <<front, observer>>

\* Mutant: the observer is kept although it could not be registered.
RegisterAppGroupCallBackAsyncCBKeeps(i) ==
    /\ Phase(i, {"register"}, "executed")
    /\ Answered(i)
    /\ UNCHANGED <<groupVars, front, observer>>

\* RegisterAppGroupCallBackAsyncCB forgets an observer that could not be registered,
\* UnRegisterAppGroupCallBackAsyncCB one that is no longer.
RegisterAppGroupCallBackAsyncCB(i) ==
    /\ Phase(i, {"register"}, "executed")
    /\ observer' = IF calls[i].answer.ret = "ERR_OK" THEN observer ELSE "none"
    /\ Answered(i)
    /\ UNCHANGED <<groupVars, front>>

UnRegisterAppGroupCallBackAsyncCB(i) ==
    /\ Phase(i, {"unregister"}, "executed")
    /\ observer' = IF calls[i].answer.ret = "ERR_OK" THEN "none" ELSE observer
    /\ Answered(i)
    /\ UNCHANGED <<groupVars, front>>

-----------------------------------------------------------------------------
(* Observers, of statically typed scripts                                  *)

\* RegisterAppGroupCallBackAsync of taihe holds callbackMutex_ from here to the end of
\* UndoRegister, so that there is one call at a time.
NoCall == \A i \in DOMAIN calls : calls[i].phase = "answered"
TaiheRegister ==
    /\ front = "taihe"
    /\ NoCall /\ observer = "none"
    /\ observer' = IF RegisterResult = "ERR_OK" THEN "set" ELSE "stuck"
    /\ Called([ObserverCall("register") EXCEPT
                    !.phase = IF RegisterResult = "ERR_OK" THEN "answered" ELSE "executed"])
    /\ G!RegisterAppGroupCallBack(Process)
    /\ UNCHANGED front

\* What could not be registered is unregistered and forgotten.
UndoRegister(i) ==
    /\ front = "taihe"
    /\ Phase(i, {"register"}, "executed")
    /\ observer' = "none"
    /\ Answered(i)
    /\ G!UnRegisterAppGroupCallBack(Process)
    /\ UNCHANGED front

\* UnregisterAppGroupCallBackAsync forgets the observer whatever the result.
TaiheUnregister ==
    /\ front = "taihe"
    /\ NoCall /\ observer = "set"
    /\ observer' = "none"
    /\ Called([ObserverCall("unregister") EXCEPT !.phase = "answered"])
    /\ G!UnRegisterAppGroupCallBack(Process)
    /\ UNCHANGED front

-----------------------------------------------------------------------------
\* The steps of the service and of the client library that are not calls.
Around ==
    /\ \/ G!OnStart \/ G!DepsStarted \/ G!InitNecessaryState \/ G!ServiceDie
       \/ G!OnRemoteDied(Process) \/ G!OnServiceDiedInner(Process)
       \/ \E o \in G!Observer : G!OnObserverDiedInner(o)
    /\ UNCHANGED callVars

Init ==
    /\ G!Init
    /\ front \in {"queries", "napi", "taihe"}
    /\ observer = "none"
    /\ calls = <<>>

MayCall == Len(calls) < (IF front = "queries" THEN 1 ELSE MaxCalls)

AScriptCalls ==
    /\ MayCall
    /\ \/ \E of \in Outcomes : Queue(of) \/ Crashes(of)
       \/ \E argv \in Argvs : ParseRegister(argv) \/ ParseUnRegister(argv)
       \/ TaiheRegister \/ TaiheUnregister

Work(i) == Execute(i) \/ ExecuteRegister(i) \/ ExecuteUnRegister(i)
Deliver(i) ==
    \/ AnswerQuery(i)
    \/ front = "napi" /\ (RegisterAppGroupCallBackAsyncCB(i) \/ UnRegisterAppGroupCallBackAsyncCB(i))
    \/ UndoRegister(i)

Next ==
    \/ AScriptCalls
    \/ \E i \in DOMAIN calls : Work(i) \/ Deliver(i)
    \/ front # "queries" /\ ProcessDie
    \/ Around

Spec == Init /\ [][Next]_vars

\* Workers run and the script's queue is worked off; the service and the client library
\* are as in GroupCallback.
Fairness ==
    /\ \A i \in 1 .. MaxCalls :
            /\ WF_vars(i \in DOMAIN calls /\ Work(i))
            /\ WF_vars(i \in DOMAIN calls /\ Deliver(i))
    /\ WF_vars(G!OnStart /\ UNCHANGED callVars) /\ WF_vars(G!DepsStarted /\ UNCHANGED callVars)
    /\ WF_vars(G!InitNecessaryState /\ UNCHANGED callVars)
    /\ WF_vars(G!OnRemoteDied(Process) /\ UNCHANGED callVars)
    /\ WF_vars(G!OnServiceDiedInner(Process) /\ UNCHANGED callVars)
    /\ \A o \in G!Observer : WF_vars(G!OnObserverDiedInner(o) /\ UNCHANGED callVars)

FairSpec == Spec /\ Fairness
-----------------------------------------------------------------------------
\* A call whose parameters a script was not refused for comes back (GetCallbackPromiseResult),
\* whether it could be carried out or not, unless its process dies.
Pending(i) == i \in DOMAIN calls /\ calls[i].phase # "answered"
CallsEnd == \A i \in 1 .. MaxCalls : Pending(i) ~> ~Pending(i)

\* Nothing is on its way: no call, no news of a death, no recovery, no restart.
Quiet ==
    /\ NoCall
    /\ service = "up" /\ ~told[Process] /\ recovering[Process] = 0 /\ diedObservers = {}
RegisteredNow == groupChangeObservers_[Process] = life[Process]

\* When nothing is on its way the front end, the client library and the service agree
\* about the observer, in whatever order the answers and the deaths came: what the
\* script may unregister (registerObserver) is registered.  Over napi what it may not
\* unregister is not registered either, and an observer stuck by a wrong second argument
\* is never notified; but in a later life of the process a worker may unregister the
\* observer of the earlier life before another registers the new one, which the late
\* answer then makes the front end forget.  Taihe forgets an observer it could not
\* unregister, which may stay.
QuietAgrees ==
    Quiet =>
        /\ observer = "set" => RegisteredNow /\ observer_[Process]
        /\ front = "napi" /\ observer # "set" /\ RegisteredNow => life[Process] > 1
        /\ front = "taihe" => observer # "stuck"

Done(i) == calls[i].what = "query" /\ calls[i].phase = "executed"

\* What usageStatistics and taihe let through, by their own checks of the parameters
\* (TimesInOrder, MaxNumInRange, IntervalInRange), neither the client library nor the
\* service nor the core refuses for a parameter, but for times that begin after now.
NoParameterRefused ==
    \A i \in DOMAIN calls :
        Done(i) /\ calls[i].front \in {"usageStatistics", "taihe"}
        /\ calls[i].answer.ret \in ParameterErrors => calls[i].request.begin > Now

\* The core is asked about the user the caller belongs to, whichever script asks, as no
\* script can name a user; but queryBundleActiveStates names user 0 by mistake.
ScriptsAskForTheirUser ==
    \A i \in DOMAIN calls :
        Done(i) /\ calls[i].front # "tool" /\ calls[i].answer.core # NoCore =>
            \/ calls[i].answer.core.userId = calls[i].account
            \/ calls[i].api = "queryBundleActiveStates" /\ calls[i].answer.core.userId = 0

\* The front time a script is shown is what the core found, of the applications it asked
\* about, through the merging of the service (MergePackageStats) and of the front end; but
\* where BundleStateCommon merges into a copy, as it does for two uids of a bundle with one
\* index, and where taihe adds what queryLastUseTime was asked for twice.
IsMeant(call, row, n) == call.wanted[n] = <<row.bundle, AppIndex[row.uid]>>
Meant(call, rows) ==
    {row \in rows : call.api = "queryLastUseTime" => \E n \in DOMAIN call.wanted : IsMeant(call, row, n)}
TwoWithOneIndex(rows) ==
    \E one, other \in rows :
        one.uid # other.uid /\ one.bundle = other.bundle /\ AppIndex[one.uid] = AppIndex[other.uid]
MeantTwice(call, rows) ==
    \E row \in rows : \E m, n \in DOMAIN call.wanted :
        m # n /\ IsMeant(call, row, m) /\ IsMeant(call, row, n)
TotalsKept ==
    \A i \in DOMAIN calls :
        Done(i) /\ calls[i].request.method = "QueryBundleStatsInfoByInterval" =>
            LET meant == Meant(calls[i], calls[i].answer.rows)
            IN  \/ FrontTime(calls[i].answer.found) = FrontTime(meant)
                \/ /\ calls[i].api \in AppApis /\ calls[i].front = "usageStatistics"
                   /\ TwoWithOneIndex(meant)
                \/ /\ calls[i].api = "queryLastUseTime" /\ calls[i].front = "taihe"
                   /\ MeantTwice(calls[i], meant)

\* GroupCallback is what all of this does to the registration.
ImplementsGroupCallback == G!FairSpec
=============================================================================
