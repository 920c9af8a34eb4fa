---------------------------- MODULE ServiceCalls ----------------------------
(***************************************************************************)
(* The calls of the service's interface: whom BundleActiveService turns    *)
(* away, and what it asks of the core for whom.  Perform(request, caller)  *)
(* is the set of answers to a request of a caller, each with the error     *)
(* code, the request as the core gets it, the rows of statistics the core  *)
(* finds, and what the service makes of these.                             *)
(***************************************************************************)
EXTENDS Parameters, FiniteSetsExt

CONSTANTS
    Findings,       \* external: the rows of statistics the core may find
    AppIndex        \* external: the index of the application of a uid, -1 if there is none

ASSUME FindingsAssumption ==
    \A rows \in Findings :
        /\ IsFiniteSet(rows)
        /\ rows \subseteq [bundle : STRING, uid : Int, day : Int, front : Int]

AccountFails == -2
NoCore == Ask("nothing")
Answer(ret, core, rows) == [ret |-> ret, core |-> core, rows |-> rows, found |-> rows]
Error(ret) == Answer(ret, NoCore, {})

\* A caller's token is of an application (hap), a native process or a shell.
CheckBundleIsSystemAppAndHasPermission(caller) ==
    CASE ~caller.system -> "ERR_NOT_SYSTEM_APP"
      [] caller.system /\ ~caller.permitted -> "ERR_PERMISSION_DENIED"
      [] OTHER -> "ERR_OK"

CheckNativePermission(caller) ==
    IF caller.permitted /\ caller.token \in {"native", "shell"} THEN "ERR_OK"
    ELSE "ERR_PERMISSION_DENIED"

CheckSystemAppOrNativePermission(caller) ==
    IF caller.token = "hap" THEN CheckBundleIsSystemAppAndHasPermission(caller)
    ELSE CheckNativePermission(caller)

\* ConvertIntervalType: 0 is the best fit, which is 4 in the service, and 1..4 are 0..3.
PERIOD_BEST_SERVICE == 4
ConvertIntervalType(interval) ==
    CASE interval = 0 -> PERIOD_BEST_SERVICE
      [] interval \in 1 .. 4 -> interval - 1
      [] OTHER -> -1

-----------------------------------------------------------------------------
(* Merging                                                                 *)

\* The front time of rows.
FrontTime(rows) == MapThenSumSet(LAMBDA row : row.front, rows)

\* MergeSamePackageStats, of the rows with one key.
MergeSamePackageStats(rows) == [(CHOOSE row \in rows : TRUE) EXCEPT !.front = FrontTime(rows)]

\* Mutant: one row is taken for all of them.
MergeSamePackageStatsNot(rows) == CHOOSE row \in rows : TRUE

\* MergePackageStats: one row for each bundle and uid.
MergePackageStats(rows) ==
    {MergeSamePackageStats({row \in rows : row.bundle = one.bundle /\ row.uid = one.uid}) :
        one \in rows}

\* GetNameAndIndexForUid, for each row.
WithIndex(rows) ==
    {[bundle |-> row.bundle, uid |-> row.uid, day |-> row.day, front |-> row.front,
      appIndex |-> AppIndex[row.uid]] : row \in rows}

-----------------------------------------------------------------------------
(* The core                                                                *)

\* QueryBundleStatsInfos and QueryBundleEvents of the core refuse a span of time that is
\* empty or begins after now; the user service refuses an interval it has no statistics of.
CoreTimes(request) == request.begin <= Now /\ request.begin < request.end
CoreStatsInfos(request) ==
    CASE ~CoreTimes(request) -> {Error("ERR_QUERY_TIME_OUT_OF_RANGE")}
      [] CoreTimes(request) /\ request.interval \notin 0 .. PERIOD_BEST_SERVICE ->
            {Error("ERR_USAGE_STATS_INTERVAL_NUMBER")}
      [] OTHER -> {Answer("ERR_OK", request, rows) : rows \in Findings}
CoreEvents(request) ==
    IF CoreTimes(request) THEN {Answer("ERR_OK", request, {})}
    ELSE {Error("ERR_QUERY_TIME_OUT_OF_RANGE")}
CoreOther(request) == {Answer("ERR_OK", request, {})}

-----------------------------------------------------------------------------
(* The calls                                                               *)

\* What most calls do first: find the user, if it is not given, and then see whether the
\* caller may ask.
GetUserId(request, caller) ==
    IF request.userId = NoUser THEN caller.account ELSE request.userId
ForUser(request, caller) == [request EXCEPT !.userId = GetUserId(request, caller)]

\* A user there is none of is no error, but for the calls about groups.
NoUserAnswer(request, caller) ==
    CASE request.method \in {"SetAppGroup", "QueryAppGroup"} ->
            "ERR_SYSTEM_ABILITY_SUPPORT_FAILED"
      [] request.method \notin {"SetAppGroup", "QueryAppGroup"}
         /\ GetUserId(request, caller) = AccountFails -> "ERR_ACCOUNT"
      [] OTHER -> "ERR_OK"

Permitted(check, answers) == IF check = "ERR_OK" THEN answers ELSE {Error(check)}
Allowed(request, caller, answers) ==
    Permitted(CheckSystemAppOrNativePermission(caller), answers)
SystemApp(caller, answers) == IF caller.system THEN answers ELSE {Error("ERR_NOT_SYSTEM_APP")}

\* IsBundleIdle: an application asks about itself, or one that may asks about any.
IsBundleIdle(request, caller) ==
    IF caller.name = request.bundleName THEN SystemApp(caller, CoreOther(request))
    ELSE Allowed(request, caller, CoreOther(request))

QueryBundleStatsInfoByInterval(request, caller) ==
    Allowed(request, caller,
        {[answer EXCEPT !.found = MergePackageStats(WithIndex(@))] :
            answer \in CoreStatsInfos([request EXCEPT !.interval = ConvertIntervalType(@)])})

QueryBundleEvents(request, caller) == Allowed(request, caller, CoreEvents(request))

\* QueryCurrentBundleEvents answers a caller with no bundle with nothing.
QueryCurrentBundleEvents(request, caller) ==
    IF caller.name = "" THEN {Error("ERR_OK")}
    ELSE SystemApp(caller, CoreEvents([request EXCEPT !.bundleName = caller.name]))

SetAppGroup(request, caller) ==
    IF caller.name = request.bundleName THEN {Error("ERR_PERMISSION_DENIED")}
    ELSE Allowed(request, caller, CoreOther(request))

QueryAppGroup(request, caller) ==
    IF request.bundleName = ""
    THEN SystemApp(caller, CoreOther([request EXCEPT !.bundleName = caller.name]))
    ELSE Allowed(request, caller, CoreOther(request))

\* QueryBundleTodayLatestUsedTime: the statistics of today.
QueryBundleTodayLatestUsedTime(request, caller) ==
    Allowed(request, caller,
            CoreStatsInfos([request EXCEPT !.interval = 0, !.begin = 0, !.end = Now]))

\* The calls that only look at the user and the permission.
QueryForUser(request, caller) == Allowed(request, caller, CoreOther(request))

\* IsBundleUsePeriod looks at the permission of a native caller first.
IsBundleUsePeriod(request, caller) ==
    Permitted(CheckNativePermission(caller),
              IF GetUserId(request, caller) < 0 THEN {Error(NoUserAnswer(request, caller))}
              ELSE CoreOther(ForUser(request, caller)))

\* QueryHighFrequencyUsageBundleInfos takes the user as it comes, -1 as well.
TOPN_QUERY_MAX_DAY_RANGE == 7

\* The bundles started most often; how often that is, is left out.
Most(rows, maxNum) ==
    IF Cardinality(rows) <= maxNum THEN {rows} ELSE {some \in SUBSET rows : Cardinality(some) = maxNum}

QueryHighFrequencyUsageBundleInfos(request, caller) ==
    IF request.maxNum <= 0 \/ request.days \notin 1 .. TOPN_QUERY_MAX_DAY_RANGE
    THEN {Error("ERR_PARAM_ERROR")}
    ELSE IF CheckSystemAppOrNativePermission(caller) # "ERR_OK"
         THEN {Error("ERR_PERMISSION_DENIED")}
         ELSE UNION {{[answer EXCEPT !.found = most] :
                          most \in Most(MergePackageStats(answer.found), request.maxNum)} :
                     answer \in CoreStatsInfos([request EXCEPT !.interval = 0, !.begin = Now - 1,
                                                               !.end = Now])}

\* The limits the client library or the service look at before anything else.
MaxNumRefused(request) ==
    /\ request.method \in {"QueryBundleEvents", "QueryCurrentBundleEvents",
                           "QueryModuleUsageRecords"}
    /\ ~MaxNumInRange(request.maxNum)

AsUser(request, caller) ==
    CASE request.method = "IsBundleIdle" -> IsBundleIdle(request, caller)
      [] request.method = "QueryBundleStatsInfoByInterval" ->
            QueryBundleStatsInfoByInterval(request, caller)
      [] request.method = "QueryBundleEvents" -> QueryBundleEvents(request, caller)
      [] request.method = "QueryCurrentBundleEvents" -> QueryCurrentBundleEvents(request, caller)
      [] request.method = "SetAppGroup" -> SetAppGroup(request, caller)
      [] request.method = "QueryAppGroup" -> QueryAppGroup(request, caller)
      [] request.method = "QueryBundleTodayLatestUsedTime" ->
            QueryBundleTodayLatestUsedTime(request, caller)
      [] OTHER -> QueryForUser(request, caller)

Perform(request, caller) ==
    CASE MaxNumRefused(request) -> {Error("ERR_MAX_RECORDS_NUM_BIGER_THEN_ONE_THOUSAND")}
      [] request.method = "QueryHighFrequencyUsageBundleInfos" ->
            QueryHighFrequencyUsageBundleInfos(request, caller)
      [] request.method = "IsBundleUsePeriod" -> IsBundleUsePeriod(request, caller)
      [] OTHER ->
            IF GetUserId(request, caller) < 0 THEN {Error(NoUserAnswer(request, caller))}
            ELSE AsUser(ForUser(request, caller), caller)

ParameterErrors ==
    {"ERR_PARAM_ERROR", "ERR_QUERY_TIME_OUT_OF_RANGE", "ERR_USAGE_STATS_INTERVAL_NUMBER",
     "ERR_MAX_RECORDS_NUM_BIGER_THEN_ONE_THOUSAND"}
=============================================================================
