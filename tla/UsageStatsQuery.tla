--------------------------- MODULE UsageStatsQuery ---------------------------
(***************************************************************************)
(* The command line tool ohos-usageStatsQuery, main.cpp.  A command has    *)
(* options, which are a value or undefined, and writes a result, an error  *)
(* ("refused") or its help ("none").  A value that is no number of the     *)
(* width of its option counts as one that was not given.                   *)
(***************************************************************************)
EXTENDS Parameters

ParseArg(options, key) == GetTypeStringValue(options[key])
ParseArgNumber(options, key, default) ==
    IF IsNumber(options[key]) THEN options[key].num ELSE default
ParseArgInt(options, key, default) == ParseArgNumber(options, key, default)
ParseArgLong(options, key) == ParseArgNumber(options, key, 0)

CheckHelpFlag(options) == options.help
ShowHelp(api) == Outcome(api, FALSE, "none", Nothing)

DEFAULT_USER_ID == NoUser
DEFAULT_INTERVAL_TYPE == -1
DEFAULT_HIGH_FREQ_COUNT == 20
DEFAULT_DAY_RANGE == 7
MAX_INTERVAL_TYPE == 3
UserOf(options) == ParseArgInt(options, "user", DEFAULT_USER_ID)

Command(api, options, valid, request) ==
    CASE CheckHelpFlag(options) -> ShowHelp(api)
      [] ~CheckHelpFlag(options) /\ valid ->
            Outcome(api, FALSE, "sync", [request EXCEPT !.userId = UserOf(options)])
      [] OTHER -> Refused(api)

\* The commands about one bundle.
BundleCommand(api, options, method) ==
    Command(api, options, ParseArg(options, "bundle") # "",
            [Ask(method) EXCEPT !.bundleName = ParseArg(options, "bundle")])

CmdCheckBundleIdle(options) == BundleCommand("check-bundle-idle", options, "IsBundleIdle")
CmdCheckBundlePeriod(options) ==
    BundleCommand("check-bundle-period", options, "IsBundleUsePeriod")
CmdQueryAppGroup(options) == BundleCommand("query-app-group", options, "QueryAppGroup")
CmdQueryLatestUsedTime(options) ==
    BundleCommand("query-latest-used-time", options, "QueryBundleTodayLatestUsedTime")

\* The commands about a span of time.
TimesGiven(begin, end) == begin > 0 /\ end > begin
TimesCommand(api, options, valid, request) ==
    LET begin == ParseArgLong(options, "begin")
        end == ParseArgLong(options, "end")
    IN  Command(api, options, valid /\ TimesGiven(begin, end),
                [request EXCEPT !.begin = begin, !.end = end])

CmdQueryStatsInterval(options) ==
    LET interval == ParseArgInt(options, "interval", DEFAULT_INTERVAL_TYPE)
    IN  TimesCommand("query-stats-interval", options, interval \in 0 .. MAX_INTERVAL_TYPE,
                     [Ask("QueryBundleStatsInfoByInterval") EXCEPT !.interval = interval])

CmdQueryEvents(options) ==
    LET maxNum == ParseArgInt(options, "max", MAXNUM_UP_LIMIT)
    IN  TimesCommand("query-events", options, MaxNumInRange(maxNum),
                     [Ask("QueryBundleEvents") EXCEPT !.maxNum = maxNum])

CmdQueryNotificationStats(options) ==
    TimesCommand("query-notification-stats", options, TRUE, Ask("QueryNotificationEventStats"))

\* The days are left to the service.
CmdQueryHighFreqBundle(options) ==
    LET maxNum == ParseArgInt(options, "max", DEFAULT_HIGH_FREQ_COUNT)
    IN  Command("query-high-freq-bundle", options, MaxNumInRange(maxNum),
                [Ask("QueryHighFrequencyUsageBundleInfos") EXCEPT
                    !.maxNum = maxNum,
                    !.days = ParseArgInt(options, "days", DEFAULT_DAY_RANGE)])

CmdQueryModuleRecords(options) ==
    LET maxNum == ParseArgInt(options, "max", MAXNUM_UP_LIMIT)
    IN  Command("query-module-records", options, MaxNumInRange(maxNum),
                [Ask("QueryModuleUsageRecords") EXCEPT !.maxNum = maxNum])

CmdQueryHighFreqPeriod(options) ==
    Command("query-high-freq-period", options, TRUE, Ask("QueryHighFrequencyPeriodBundle"))

\* InitCommands: what the commands come to with these options.
Commands(options) ==
    {CmdCheckBundleIdle(options), CmdCheckBundlePeriod(options), CmdQueryStatsInterval(options),
     CmdQueryEvents(options), CmdQueryAppGroup(options), CmdQueryHighFreqBundle(options),
     CmdQueryModuleRecords(options), CmdQueryNotificationStats(options),
     CmdQueryHighFreqPeriod(options), CmdQueryLatestUsedTime(options)}

\* main: help and a wrong command line end before any command is carried out.
Main(options) ==
    Commands(options) \cup {ShowHelp("help"), Refused("unknown command"), Refused("no command")}
=============================================================================
