------------------------- MODULE UsageStatisticsIdl -------------------------
(***************************************************************************)
(* The same interface for statically typed scripts, but for the            *)
(* registration of group observers: the functions of                       *)
(* ohos.resourceschedule.usageStatistics.impl.cpp.  The language checks    *)
(* the types, each function does its work on the spot, and an error is     *)
(* thrown.                                                                 *)
(***************************************************************************)
EXTENDS Parameters

CheckBeginTimeAndEndTime(begin, end) == TimesInOrder(begin, end)
CheckInterval(interval) == IntervalInRange(interval)
CheckMaxNum(maxNum) == MaxNumInRange(maxNum)
CheckEventMaxNum(maxNum) == MaxNumInRange(maxNum)
CheckNewGroupType(newGroup) == newGroup \in GROUP_TYPE

Do(api, valid, request) ==
    IF valid THEN Outcome(api, FALSE, "sync", request) ELSE Thrown(api)

\* No name is looked at here: an empty one is left to the service.
IsIdleStateSync(bundleName) ==
    Do("isIdleStateSync", TRUE, [Ask("IsBundleIdle") EXCEPT !.bundleName = bundleName])

QueryAppGroupSync == Do("queryAppGroupSync", TRUE, Ask("QueryAppGroup"))
QueryAppGroupSyncByBundleName(bundleName) ==
    Do("queryAppGroupSync", TRUE, [Ask("QueryAppGroup") EXCEPT !.bundleName = bundleName])

SetAppGroupSync(bundleName, newGroup) ==
    Do("setAppGroup", CheckNewGroupType(newGroup),
       [Ask("SetAppGroup") EXCEPT !.bundleName = bundleName, !.newGroup = newGroup])

QueryBundleStatsInfosAsync(begin, end) ==
    Do("queryBundleStatsInfos", CheckBeginTimeAndEndTime(begin, end), AskStatsInfos(begin, end))

\* QueryAppStatsInfos of BundleStateIDLCommon asks for BY_DAILY for short ranges.
QueryAppStatsInfosAsync(begin, end) ==
    Do("queryAppStatsInfos", CheckBeginTimeAndEndTime(begin, end),
       [AskStatsInfos(begin, end) EXCEPT !.interval = IF end - begin <= INTERVAL_TIME THEN 1 ELSE 0])

INTERVAL_TYPE_YEAR == 4
QueryLastUseTimeAsync ==
    Do("queryLastUseTime", TRUE,
       [AskTimes("QueryBundleStatsInfoByInterval", 0, MAX_TIME)
        EXCEPT !.interval = INTERVAL_TYPE_YEAR])

QueryBundleStatsInfoByIntervalAsync(byInterval, begin, end) ==
    Do("queryBundleStatsInfoByInterval",
       CheckBeginTimeAndEndTime(begin, end) /\ CheckInterval(byInterval),
       [AskTimes("QueryBundleStatsInfoByInterval", begin, end) EXCEPT !.interval = byInterval])

QueryEventsByLimit(api, method, begin, end, maxNum) ==
    Do(api, CheckBeginTimeAndEndTime(begin, end) /\ CheckEventMaxNum(maxNum),
       [AskTimes(method, begin, end) EXCEPT !.maxNum = maxNum])

QueryBundleEventsAsyncByLimit(begin, end, maxNum) ==
    QueryEventsByLimit("queryBundleEvents", "QueryBundleEvents", begin, end, maxNum)
QueryBundleEventsAsync(begin, end) == QueryBundleEventsAsyncByLimit(begin, end, MAXNUM_UP_LIMIT)

QueryCurrentBundleEventsAsyncByLimit(begin, end, maxNum) ==
    QueryEventsByLimit("queryCurrentBundleEvents", "QueryCurrentBundleEvents", begin, end, maxNum)
QueryCurrentBundleEventsAsync(begin, end) ==
    QueryCurrentBundleEventsAsyncByLimit(begin, end, MAXNUM_UP_LIMIT)

QueryDeviceEventStatsAsync(begin, end) ==
    Do("queryDeviceEventStats", CheckBeginTimeAndEndTime(begin, end),
       AskTimes("QueryDeviceEventStats", begin, end))
QueryNotificationEventStatsAsync(begin, end) ==
    Do("queryNotificationEventStats", CheckBeginTimeAndEndTime(begin, end),
       AskTimes("QueryNotificationEventStats", begin, end))

QueryModuleUsageRecordsAsyncByMaxNum(maxNum) ==
    Do("queryModuleUsageRecords", CheckMaxNum(maxNum),
       [Ask("QueryModuleUsageRecords") EXCEPT !.maxNum = maxNum])
QueryModuleUsageRecordsAsync ==
    Do("queryModuleUsageRecords", TRUE, Ask("QueryModuleUsageRecords"))

-----------------------------------------------------------------------------
\* What calls with this name, these times and this number, be it an interval, a limit or
\* a group, come to.
Calls(bundleName, begin, end, num) ==
    {IsIdleStateSync(bundleName), QueryAppGroupSync, QueryAppGroupSyncByBundleName(bundleName),
     SetAppGroupSync(bundleName, num), QueryBundleStatsInfosAsync(begin, end),
     QueryAppStatsInfosAsync(begin, end), QueryLastUseTimeAsync,
     QueryBundleStatsInfoByIntervalAsync(num, begin, end),
     QueryBundleEventsAsyncByLimit(begin, end, num), QueryBundleEventsAsync(begin, end),
     QueryCurrentBundleEventsAsyncByLimit(begin, end, num),
     QueryCurrentBundleEventsAsync(begin, end), QueryDeviceEventStatsAsync(begin, end),
     QueryNotificationEventStatsAsync(begin, end), QueryModuleUsageRecordsAsyncByMaxNum(num),
     QueryModuleUsageRecordsAsync}
=============================================================================
