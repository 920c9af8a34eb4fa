---------------------------- MODULE BundleState ----------------------------
(***************************************************************************)
(* The script interface bundleState, which usageStatistics replaces:       *)
(* bundle_state_query.cpp.  Its functions assert the number of arguments   *)
(* and the type of the callback.  A failed assertion throws and ends the   *)
(* parsing, with no error code, so that the call goes on with what has     *)
(* been parsed.  Other errors are answered instead of thrown.              *)
(***************************************************************************)
EXTENDS Parameters

\* What the assertions find, for a function of n arguments with the callback.
CountAsserted(argv, n) == Len(argv) \notin {n - 1, n}
CallbackAsserted(argv, n) == Len(argv) = n /\ ~IsFunction(Arg(argv, n - 1))

\* A call of a function of n arguments: unparsed is the request if the count is asserted.
Call(api, argv, n, valid, unparsed, request) ==
    CASE CountAsserted(argv, n) -> Outcome(api, TRUE, "async", unparsed)
      [] ~CountAsserted(argv, n) /\ valid ->
            Outcome(api, CallbackAsserted(argv, n), "async", request)
      [] OTHER -> Outcome(api, CallbackAsserted(argv, n), "refused", Nothing)

\* ParseIsIdleStateParameters
IsIdleState(argv) ==
    Call("isIdleState", argv, 2, NameValid(Arg(argv, 0)), Ask("IsBundleIdle"),
         [Ask("IsBundleIdle") EXCEPT !.bundleName = GetTypeStringValue(Arg(argv, 0))])

\* ParsePriorityGroupParameters makes the data of the call itself, so that an assertion
\* leaves none, which QueryAppUsagePriorityGroup then uses.
QueryAppUsagePriorityGroup(argv) ==
    LET api == "queryAppUsagePriorityGroup"
        named == GetTypeStringValue(Arg(argv, 0)) # ""
        noName == Len(argv) = 0 \/ (Len(argv) = 1 /\ IsFunction(Arg(argv, 0)))
        asserted == Len(argv) > 2 \/ CallbackAsserted(argv, 2)
    IN  CASE Len(argv) > 2 -> Crash(api)
          [] Len(argv) <= 2 /\ ~noName /\ ~named -> Outcome(api, asserted, "refused", Nothing)
          [] Len(argv) <= 2 /\ (noName \/ named) /\ asserted -> Crash(api)
          [] OTHER -> Outcome(api, FALSE, "async",
                        [Ask("QueryAppGroup") EXCEPT
                            !.bundleName = IF noName THEN "" ELSE GetTypeStringValue(Arg(argv, 0))])

\* ParseStatesParameters
QueryStates(api, argv, request) ==
    Call(api, argv, 3, TimesValid(Arg(argv, 0), Arg(argv, 1)), request,
         [request EXCEPT !.begin = GetNumberValue(Arg(argv, 0)),
                         !.end = GetNumberValue(Arg(argv, 1))])

\* Mutant: as QueryBundleActiveStates below.
QueryCurrentBundleActiveStatesOfUser0(argv) ==
    QueryStates("queryCurrentBundleActiveStates", argv,
                [Ask("QueryCurrentBundleEvents") EXCEPT !.userId = 0])

QueryCurrentBundleActiveStates(argv) ==
    QueryStates("queryCurrentBundleActiveStates", argv, Ask("QueryCurrentBundleEvents"))

\* QueryBundleEventsAsync passes its error code, which is 0, where the client library
\* takes a user.
QueryBundleActiveStates(argv) ==
    QueryStates("queryBundleActiveStates", argv, [Ask("QueryBundleEvents") EXCEPT !.userId = 0])

\* ParseAppUsageParametersByInterval
QueryBundleStateInfoByInterval(argv) ==
    Call("queryBundleStateInfoByInterval", argv, 4,
         /\ IsNumber(Arg(argv, 0)) /\ IntervalInRange(Arg(argv, 0).num)
         /\ TimesValid(Arg(argv, 1), Arg(argv, 2)),
         Ask("QueryBundleStatsInfoByInterval"),
         [AskTimes("QueryBundleStatsInfoByInterval",
                   GetNumberValue(Arg(argv, 1)), GetNumberValue(Arg(argv, 2)))
          EXCEPT !.interval = GetNumberValue(Arg(argv, 0))])

\* ParseAppUsageParameters
QueryBundleStateInfos(argv) ==
    Call("queryBundleStateInfos", argv, 3, TimesValid(Arg(argv, 0), Arg(argv, 1)),
         AskStatsInfos(-1, -1),
         AskStatsInfos(GetNumberValue(Arg(argv, 0)), GetNumberValue(Arg(argv, 1))))

-----------------------------------------------------------------------------
\* What calls of the functions with these arguments come to.
Calls(argv) ==
    {IsIdleState(argv), QueryAppUsagePriorityGroup(argv), QueryCurrentBundleActiveStates(argv),
     QueryBundleActiveStates(argv), QueryBundleStateInfoByInterval(argv),
     QueryBundleStateInfos(argv)}
=============================================================================
