SPECIFICATION FairSpec
CONSTANTS
    Process = process
    Argvs <- MCArgvs
    IdlArgs <- MCIdlArgs
    CommandLines <- MCCommandLines
    Wanted <- MCWanted
    Callers <- MCCallers
    Findings <- MCFindings
    AppIndex <- MCAppIndex
    MaxCalls = 3
    MaxGen = 2
    MaxLife = 2
    MAXNUM_UP_LIMIT = 1000
    INTERVAL_TIME = 30
    Now = 50
INVARIANTS
    QuietAgrees
    NoParameterRefused
    ScriptsAskForTheirUser
    TotalsKept
PROPERTIES
    CallsEnd
    ImplementsGroupCallback
CHECK_DEADLOCK FALSE
