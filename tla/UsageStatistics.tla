--------------------------- MODULE UsageStatistics ---------------------------
(***************************************************************************)
(* The script interface usageStatistics, but for the registration of group *)
(* observers: bundle_state_query_napi.cpp and the queries and settings of  *)
(* bundle_active_app_group_napi.cpp.  Each operator is a function of the   *)
(* interface, with its arguments, and gives what comes of a call of it.    *)
(***************************************************************************)
EXTENDS Parameters

\* ParseQueryModuleUsageRecords: an argument that is no number is the callback.
ParseQueryModuleUsageRecords(argv) ==
    LET first == Arg(argv, 0)
    IN  CASE Len(argv) = 0 -> [valid |-> TRUE, maxNum |-> MAXNUM_UP_LIMIT]
          [] Len(argv) = 1 /\ ~IsNumber(first) ->
                [valid |-> IsFunction(first), maxNum |-> MAXNUM_UP_LIMIT]
          [] OTHER ->
                [valid |-> IsNumber(first) /\ MaxNumInRange(first.num) /\ CallbackValid(argv, 2),
                 maxNum |-> GetNumberValue(first)]

QueryModuleUsageRecords(argv) ==
    LET params == ParseQueryModuleUsageRecords(argv)
    IN  Accept("queryModuleUsageRecords", params.valid,
               [Ask("QueryModuleUsageRecords") EXCEPT !.maxNum = params.maxNum])

\* ParseIsIdleStateParameters: the assertion on the number of arguments returns with no
\* error code and without the data of the call, which the caller then uses.
IsIdleState(argv) ==
    IF Len(argv) \notin {1, 2} THEN Crash("isIdleState")
    ELSE Accept("isIdleState", NameValid(Arg(argv, 0)) /\ CallbackValid(argv, 2),
                [Ask("IsBundleIdle") EXCEPT !.bundleName = GetTypeStringValue(Arg(argv, 0))])

ParseIsIdleStateSyncParameters(argv) == Len(argv) = 1 /\ NameValid(Arg(argv, 0))

\* IsIdleStateSync looks at no error code: it throws and asks all the same.
IsIdleStateSync(argv) ==
    LET valid == ParseIsIdleStateSyncParameters(argv)
    IN  Outcome("isIdleStateSync", ~valid, "sync",
                [Ask("IsBundleIdle") EXCEPT
                    !.bundleName = IF valid THEN GetTypeStringValue(Arg(argv, 0)) ELSE ""])

\* ParseQueryCurrentBundleEventsParameters: a third argument is the callback or maxNum.
ParseQueryCurrentBundleEventsParameters(argv) ==
    LET third == Arg(argv, 2)
        maxNum == IF IsNumber(third) THEN third.num ELSE MAXNUM_UP_LIMIT
    IN  [valid |-> /\ Len(argv) \in {2, 3}
                   /\ Len(argv) = 3 => IsFunction(third) \/ IsNumber(third)
                   /\ MaxNumInRange(maxNum)
                   /\ TimesValid(Arg(argv, 0), Arg(argv, 1)),
         maxNum |-> maxNum]

AskEvents(argv, api, method) ==
    LET params == ParseQueryCurrentBundleEventsParameters(argv)
    IN  Accept(api, params.valid,
               [AskTimes(method, GetNumberValue(Arg(argv, 0)), GetNumberValue(Arg(argv, 1)))
                EXCEPT !.maxNum = params.maxNum])

QueryCurrentBundleEvents(argv) ==
    AskEvents(argv, "queryCurrentBundleEvents", "QueryCurrentBundleEvents")

\* QueryBundleEventsAsync asks for user -1, the one of the caller.
QueryBundleEvents(argv) == AskEvents(argv, "queryBundleEvents", "QueryBundleEvents")

ParseQueryBundleStatsInfoByInterval(argv) ==
    /\ IsNumber(Arg(argv, 0)) /\ IntervalInRange(Arg(argv, 0).num)
    /\ TimesValid(Arg(argv, 1), Arg(argv, 2))
    /\ CallbackValid(argv, 4)

QueryBundleStatsInfoByInterval(argv) ==
    Accept("queryBundleStatsInfoByInterval", ParseQueryBundleStatsInfoByInterval(argv),
           [AskTimes("QueryBundleStatsInfoByInterval",
                     GetNumberValue(Arg(argv, 1)), GetNumberValue(Arg(argv, 2)))
            EXCEPT !.interval = GetNumberValue(Arg(argv, 0))])

\* The parameters of ParseQueryBundleStatsInfos, ParseAppStatsInfos and ParseDeviceEventStates.
TimesAndCallback(argv) == TimesValid(Arg(argv, 0), Arg(argv, 1)) /\ CallbackValid(argv, 3)

Begin(argv) == GetNumberValue(Arg(argv, 0))
End(argv) == GetNumberValue(Arg(argv, 1))

ParseQueryBundleStatsInfos(argv) == TimesAndCallback(argv)
QueryBundleStatsInfos(argv) ==
    Accept("queryBundleStatsInfos", ParseQueryBundleStatsInfos(argv),
           AskStatsInfos(Begin(argv), End(argv)))

ParseAppStatsInfos(argv) == TimesAndCallback(argv)
QueryAppStatsInfos(argv) ==
    Accept("queryAppStatsInfos", ParseAppStatsInfos(argv),
           AskAppStatsInfos(Begin(argv), End(argv)))

\* ParseLastUseTime takes one argument, so that there is never a callback.
ParseLastUseTime(argv) == Len(argv) = 1 /\ Arg(argv, 0).type = "object"
QueryLastUseTime(argv) ==
    Accept("queryLastUseTime", ParseLastUseTime(argv), AskLastUseTime)

ParseDeviceEventStates(argv) == TimesAndCallback(argv)
QueryDeviceEventStats(argv) ==
    Accept("queryDeviceEventStats", ParseDeviceEventStates(argv),
           AskTimes("QueryDeviceEventStats", Begin(argv), End(argv)))
QueryNotificationEventStats(argv) ==
    Accept("queryNotificationEventStats", ParseDeviceEventStates(argv),
           AskTimes("QueryNotificationEventStats", Begin(argv), End(argv)))

-----------------------------------------------------------------------------
(* Groups                                                                  *)

\* ParseQueryAppGroupParameters: without a name it is about the caller.
ParseQueryAppGroupParameters(argv) ==
    LET first == Arg(argv, 0)
    IN  CASE Len(argv) = 0 -> [valid |-> TRUE, bundleName |-> ""]
          [] Len(argv) = 1 /\ IsFunction(first) -> [valid |-> TRUE, bundleName |-> ""]
          [] OTHER -> [valid |-> NameValid(first) /\ CallbackValid(argv, 2),
                       bundleName |-> GetTypeStringValue(first)]

AskAppGroup(bundleName) == [Ask("QueryAppGroup") EXCEPT !.bundleName = bundleName]

QueryAppGroup(argv) ==
    LET params == ParseQueryAppGroupParameters(argv)
    IN  Accept("queryAppGroup", params.valid, AskAppGroup(params.bundleName))

ParseQueryAppGroupSyncParameters(argv) ==
    Len(argv) = 0 \/ (Len(argv) = 1 /\ GetTypeStringValue(Arg(argv, 0)) # "")

\* QueryAppGroupSync looks at no error code either.
QueryAppGroupSync(argv) ==
    Outcome("queryAppGroupSync", ~ParseQueryAppGroupSyncParameters(argv), "sync",
            AskAppGroup(IF Len(argv) = 1 THEN GetTypeStringValue(Arg(argv, 0)) ELSE ""))

GetAppGroupParameters(v) == IsNumber(v) /\ v.num \in GROUP_TYPE

ParseSetAppGroupParameters(argv) ==
    /\ NameValid(Arg(argv, 0))
    /\ GetAppGroupParameters(Arg(argv, 1))
    /\ CallbackValid(argv, 3)

SetAppGroup(argv) ==
    Accept("setAppGroup", ParseSetAppGroupParameters(argv),
           [Ask("SetAppGroup") EXCEPT !.bundleName = GetTypeStringValue(Arg(argv, 0)),
                                      !.newGroup = GetNumberValue(Arg(argv, 1))])

-----------------------------------------------------------------------------
\* What calls of the functions with these arguments come to.
Calls(argv) ==
    {QueryModuleUsageRecords(argv), IsIdleState(argv), IsIdleStateSync(argv),
     QueryCurrentBundleEvents(argv), QueryBundleEvents(argv),
     QueryBundleStatsInfoByInterval(argv), QueryBundleStatsInfos(argv),
     QueryAppStatsInfos(argv), QueryLastUseTime(argv), QueryDeviceEventStats(argv),
     QueryNotificationEventStats(argv), QueryAppGroup(argv), QueryAppGroupSync(argv),
     SetAppGroup(argv)}
=============================================================================
