----------------------------- MODULE Parameters -----------------------------
(***************************************************************************)
(* What the front ends of the service share: the values a script passes,   *)
(* the checks of BundleStateCommon and of the functions that parse the     *)
(* arguments, and what comes of a call.                                    *)
(*                                                                         *)
(* A call throws or not, and it is queued for a worker ("async"), carried  *)
(* out on the spot ("sync"), answered with an error at once ("refused"),   *)
(* nothing at all ("none"), or the end of the process ("crash").  Whether  *)
(* the answer goes to a callback or to a promise makes no difference here. *)
(***************************************************************************)
EXTENDS Integers, Sequences

CONSTANTS
    MAXNUM_UP_LIMIT,        \* the records a query may ask for, 1000 in the code
    INTERVAL_TIME,          \* thirty days
    Now                     \* the time of the queries
ASSUME ParametersAssumption == {MAXNUM_UP_LIMIT, INTERVAL_TIME, Now} \subseteq Nat \ {0}

-----------------------------------------------------------------------------
(* Values of a script                                                      *)

Number(n) == [type |-> "number", num |-> n, str |-> ""]
String(s) == [type |-> "string", num |-> -1, str |-> s]
Function == [type |-> "function", num |-> -1, str |-> ""]
Object == [type |-> "object", num |-> -1, str |-> ""]
Undefined == [type |-> "undefined", num |-> -1, str |-> ""]

\* The i-th argument, the first being 0; what was not passed is undefined.
Arg(argv, i) == IF i < Len(argv) THEN argv[i + 1] ELSE Undefined

IsFunction(v) == v.type = "function"

\* GetInt64NumberValue and GetInt32NumberValue: a number, or nothing, which leaves the
\* parameter at the -1 it begins with.
IsNumber(v) == v.type = "number"
GetNumberValue(v) == IF IsNumber(v) THEN v.num ELSE -1

\* GetTypeStringValue: the string, or an empty one.
GetTypeStringValue(v) == v.str

-----------------------------------------------------------------------------
(* Checks                                                                  *)

TIME_NUMBER_MIN == 0
INTERVAL_NUMBER_MIN == 0
INTERVAL_NUMBER_MAX == 4
GROUP_TYPE == {10, 20, 30, 40, 50, 60}
YEAR_TYPE == 3
MAX_TIME == 20000000

IntervalInRange(n) == n \in INTERVAL_NUMBER_MIN .. INTERVAL_NUMBER_MAX
MaxNumInRange(n) == n \in 1 .. MAXNUM_UP_LIMIT

\* Mutant: a span of time may be empty.
TimesNotReversed(begin, end) == begin >= TIME_NUMBER_MIN /\ end >= begin

TimesInOrder(begin, end) == begin >= TIME_NUMBER_MIN /\ end > begin

TimesValid(begin, end) ==
    IsNumber(begin) /\ IsNumber(end) /\ TimesInOrder(begin.num, end.num)

NameValid(v) == v.type = "string" /\ v.str # ""

\* The callback is the last of n arguments, and may be left out.
CallbackValid(argv, n) ==
    Len(argv) = n - 1 \/ (Len(argv) = n /\ IsFunction(Arg(argv, n - 1)))

-----------------------------------------------------------------------------
(* Requests of the client library, with the defaults of its parameters     *)

NoUser == -1
Ask(method) ==
    [method |-> method, userId |-> NoUser, bundleName |-> "", begin |-> -1, end |-> -1,
     interval |-> -1, maxNum |-> MAXNUM_UP_LIMIT, newGroup |-> -1, days |-> 7]

AskTimes(method, begin, end) == [Ask(method) EXCEPT !.begin = begin, !.end = end]

\* QueryBundleStatsInfos of BundleStateCommon: the interval is left to the service.
AskStatsInfos(begin, end) ==
    [AskTimes("QueryBundleStatsInfoByInterval", begin, end) EXCEPT !.interval = 0]

\* QueryAppStatsInfos: BY_MONTHLY, as if it were the finest, for short ranges.
AskAppStatsInfos(begin, end) ==
    [AskStatsInfos(begin, end) EXCEPT !.interval = IF end - begin <= INTERVAL_TIME THEN 3 ELSE 0]

\* QueryLastUseTime: everything there is by month.
AskLastUseTime ==
    [AskTimes("QueryBundleStatsInfoByInterval", 0, MAX_TIME) EXCEPT !.interval = YEAR_TYPE]

-----------------------------------------------------------------------------
(* What comes of a call                                                    *)

Outcome(api, thrown, how, request) ==
    [api |-> api, thrown |-> thrown, how |-> how, request |-> request]
Nothing == Ask("none")

Thrown(api) == Outcome(api, TRUE, "none", Nothing)          \* HandleParamErr
Refused(api) == Outcome(api, FALSE, "refused", Nothing)     \* JSParaError
Crash(api) == Outcome(api, TRUE, "crash", Nothing)

\* AsyncInit, SettingAsyncWorkData and the async work, if the parameters are right.
Accept(api, valid, request) ==
    IF valid THEN Outcome(api, FALSE, "async", request) ELSE Thrown(api)
=============================================================================
