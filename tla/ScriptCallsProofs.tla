-------------------------- MODULE ScriptCallsProofs --------------------------
(***************************************************************************)
(* ScriptCalls implements the registration of GroupCallback: every step of *)
(* a front end, of a worker and of the queue of the script is a step of    *)
(* GroupCallback for the one process, or leaves its variables alone.  What *)
(* is proved of GroupCallback therefore holds below every front end, and   *)
(* with it follows that the front end agrees with the service in the end.  *)
(* Then what every query of a script comes to, whatever its arguments,     *)
(* whoever calls and in whatever order the workers run: the core is asked  *)
(* about the user of the caller, what the front end let through is refused *)
(* for no parameter later, and a script is shown the front time that was   *)
(* found.  The requests of each front end are described first, then the    *)
(* answers, the sums of their rows, and the calls that carry both.         *)
(***************************************************************************)
EXTENDS ScriptCalls, SequenceTheorems, FiniteSetTheorems, TLAPS

GP == INSTANCE GroupCallbackProofs WITH Client <- {Process}

GStep == G!Next \/ UNCHANGED groupVars

-----------------------------------------------------------------------------
\* The calls of the client library and the end of the process are steps of GroupCallback.
LEMMA ProcessSteps ==
    /\ G!RegisterAppGroupCallBack(Process) => G!Next
    /\ G!UnRegisterAppGroupCallBack(Process) => G!Next
    /\ G!OtherCall(Process) => G!Next
    /\ G!ClientDie(Process) => G!Next
    /\ G!OnRemoteDied(Process) => G!Next
    /\ G!OnServiceDiedInner(Process) => G!Next
BY DEF G!Next

LEMMA AroundStep == Around => G!Next
BY DEF Around, G!Next

\* What a script calls is queued; taihe registers at once; a crash ends the process.
LEMMA ScriptStep == AScriptCalls => GStep
<1>1. ASSUME NEW of \in Outcomes, Queue(of) PROVE GStep
    BY <1>1 DEF Queue, GStep
<1>2. ASSUME NEW of \in Outcomes, Crashes(of) PROVE GStep
    BY <1>2, ProcessSteps DEF Crashes, ProcessDie, GStep
<1>3. ASSUME NEW argv \in Argvs, ParseRegister(argv) \/ ParseUnRegister(argv) PROVE GStep
    BY <1>3 DEF ParseRegister, ParseUnRegister, GStep
<1>4. CASE TaiheRegister \/ TaiheUnregister
    BY <1>4, ProcessSteps DEF TaiheRegister, TaiheUnregister, GStep
<1> QED BY <1>1, <1>2, <1>3, <1>4 DEF AScriptCalls

\* A worker carries out one call of the client library.
LEMMA WorkStep == ASSUME NEW i \in DOMAIN calls, Work(i) PROVE GStep
BY ProcessSteps DEF Work, Execute, ExecuteRegister, ExecuteUnRegister, GStep

\* Answers change the front end only, but for the undoing of a failed registration.
LEMMA DeliverStep == ASSUME NEW i \in DOMAIN calls, Deliver(i) PROVE GStep
BY ProcessSteps DEF Deliver, AnswerQuery, RegisterAppGroupCallBackAsyncCB,
    UnRegisterAppGroupCallBackAsyncCB, UndoRegister, GStep

LEMMA NextStep == [Next]_vars => GStep
<1>1. CASE UNCHANGED vars
    BY <1>1 DEF vars, GStep
<1>2. CASE ProcessDie
    BY <1>2, ProcessSteps DEF ProcessDie, GStep
<1> QED BY <1>1, <1>2, ScriptStep, WorkStep, DeliverStep, AroundStep DEF Next, GStep

-----------------------------------------------------------------------------
\* Initial states map to initial states and steps to steps, or to none: whatever scripts
\* call, in whatever order workers run and answers come, client library and service
\* behave as GroupCallback says of one client.
THEOREM ImplementsRegistration == Spec => G!Spec
<1>1. Init => G!Init
    BY DEF Init
<1>2. [Next]_vars => [G!Next]_(G!vars)
    BY NextStep DEF GStep, groupVars, G!vars, G!serviceVars, G!registryVars, G!clientVars
<1> QED BY <1>1, <1>2, PTL DEF Spec, G!Spec

\* The two instances of GroupCallback are one.
LEMMA SameRegistration ==
    /\ G!Init <=> GP!Init
    /\ [G!Next]_(G!vars) => [GP!Next]_(GP!vars)
    /\ G!RememberedIsRegistered <=> GP!RememberedIsRegistered
<1>1. (G!Init <=> GP!Init) /\ (G!RememberedIsRegistered <=> GP!RememberedIsRegistered)
    BY DEF G!Init, GP!Init, G!RememberedIsRegistered, GP!RememberedIsRegistered, G!None, GP!None
<1>2. [G!Next]_(G!vars) => [GP!Next]_(GP!vars)
    BY DEF G!Next, GP!Next, G!vars, GP!vars,
        G!GetBundleActiveProxy, G!Arrives, G!AddObserverDeathRecipient, G!Register,
        G!OnStart, G!DepsStarted, G!InitNecessaryState, G!ServiceDie,
        G!RegisterAppGroupCallBack, G!UnRegisterAppGroupCallBack, G!OtherCall,
        G!OnRemoteDied, G!OnServiceDiedInner, G!ClientDie, G!EraseObserver,
        G!OnObserverDiedInner, G!Observer, G!None, G!serviceVars, G!registryVars,
        G!clientVars,
        GP!GetBundleActiveProxy, GP!Arrives, GP!AddObserverDeathRecipient, GP!Register,
        GP!OnStart, GP!DepsStarted, GP!InitNecessaryState, GP!ServiceDie,
        GP!RegisterAppGroupCallBack, GP!UnRegisterAppGroupCallBack, GP!OtherCall,
        GP!OnRemoteDied, GP!OnServiceDiedInner, GP!ClientDie, GP!EraseObserver,
        GP!OnObserverDiedInner, GP!Observer, GP!None, GP!serviceVars, GP!registryVars,
        GP!clientVars
<1> QED BY <1>1, <1>2

\* What RegistrationSurvives says of clients in general, for an observer that a script
\* registers through any front end.
THEOREM ScriptsStayRegistered == Spec => []G!RememberedIsRegistered
<1>1. GP!Spec => []GP!RememberedIsRegistered
    BY GP!RegistrationSurvives, ScriptCallsAssumption
<1> QED BY <1>1, ImplementsRegistration, SameRegistration, PTL DEF G!Spec, GP!Spec

-----------------------------------------------------------------------------
(* When nothing is on its way, all agree about the observer                *)

\* Calls form a sequence of records.
Fields == {"what", "front", "api", "request", "wanted", "phase", "answer", "account"}
CallsType ==
    /\ calls \in Seq({calls[i] : i \in DOMAIN calls})
    /\ \A i \in DOMAIN calls : DOMAIN calls[i] = Fields

\* A call claims the observer of the front end when its answer will make the front end
\* forget it, or when it has yet to be carried out and may register it.
Claim(c) ==
    \/ c.what = "register" /\ c.phase = "queued"
    \/ c.what = "register" /\ c.phase = "executed" /\ c.answer.ret # "ERR_OK"
    \/ c.what = "unregister" /\ c.phase = "executed" /\ c.answer.ret = "ERR_OK"
Claiming == {i \in DOMAIN calls : Claim(calls[i])}

\* An observer that is set is remembered by the client library, or a call claims it.
SetHasClaim == observer = "set" => observer_[Process] \/ Claiming # {}

\* In the first life of the process, over napi, one call or the client library claims it
\* and no two of them, and nobody does when it is not set.
OneClaim ==
    front = "napi" /\ life[Process] = 1 =>
        /\ \A i, j \in Claiming : i = j
        /\ observer_[Process] => Claiming = {}
        /\ observer # "set" => Claiming = {} /\ ~observer_[Process]

\* What is registered now, the client library remembers.
RegisteredIsRemembered == RegisteredNow => observer_[Process]

\* Taihe is going to undo what is stuck.
StuckIsUndone == front = "taihe" /\ observer = "stuck" => Claiming # {}

QuietInv == CallsType /\ SetHasClaim /\ OneClaim /\ RegisteredIsRemembered /\ StuckIsUndone

-----------------------------------------------------------------------------
\* Every sequence is one of its own elements.
LEMMA OwnElements ==
    ASSUME NEW T, NEW s \in Seq(T) PROVE s \in Seq({s[i] : i \in DOMAIN s})
<1> DEFINE R == {s[i] : i \in DOMAIN s}
<1>1. Len(s) \in Nat /\ s \in [1 .. Len(s) -> T] /\ DOMAIN s = 1 .. Len(s)
    BY LenProperties
<1>2. s \in [1 .. Len(s) -> R]
    BY <1>1
<1> QED BY <1>1, <1>2, SeqDef

\* A call that is made comes behind the others.
LEMMA NewCall ==
    ASSUME CallsType, NEW c, DOMAIN c = Fields, Called(c)
    PROVE  /\ CallsType'
           /\ \E n : /\ n \notin DOMAIN calls /\ DOMAIN calls' = DOMAIN calls \cup {n}
                     /\ calls'[n] = c
                     /\ \A i \in DOMAIN calls : calls'[i] = calls[i]
<1> DEFINE T == {calls[i] : i \in DOMAIN calls} \cup {c}
           n == Len(calls) + 1
<1>1. calls \in Seq(T)
    BY SeqMonotonic DEF CallsType
<1>2. /\ calls' \in Seq(T) /\ Len(calls') = n /\ calls'[n] = c
      /\ \A i \in 1 .. Len(calls) : calls'[i] = calls[i]
    BY <1>1, AppendProperties DEF Called
<1>3. Len(calls) \in Nat /\ DOMAIN calls = 1 .. Len(calls) /\ DOMAIN calls' = 1 .. n
    BY <1>1, <1>2, LenProperties
<1>4. DOMAIN calls' = DOMAIN calls \cup {n} /\ n \notin DOMAIN calls
    BY <1>3
<1> HIDE DEF n
<1>5. calls' \in Seq({calls'[i] : i \in DOMAIN calls'})
    BY <1>2, OwnElements
<1>6. \A i \in DOMAIN calls' : DOMAIN calls'[i] = Fields
    BY <1>2, <1>3, <1>4 DEF CallsType
<1> QED BY <1>2, <1>3, <1>4, <1>5, <1>6 DEF CallsType, Fields

LEMMA NewClaim ==
    ASSUME CallsType, NEW c, DOMAIN c = Fields, Called(c)
    PROVE  CallsType' /\ \E n : /\ n \notin Claiming
                                /\ Claiming' = IF Claim(c) THEN Claiming \cup {n} ELSE Claiming
<1>1. PICK n : /\ n \notin DOMAIN calls /\ DOMAIN calls' = DOMAIN calls \cup {n}
               /\ calls'[n] = c
               /\ \A i \in DOMAIN calls : calls'[i] = calls[i]
    BY NewCall
<1>2. n \notin Claiming /\ Claiming' = IF Claim(c) THEN Claiming \cup {n} ELSE Claiming
    BY <1>1 DEF Claiming, Claim
<1> QED BY <1>2, NewCall

\* A call that goes on stays at its place.
LEMMA CallGoesOn ==
    ASSUME CallsType, NEW i \in DOMAIN calls, NEW c, DOMAIN c = Fields,
           calls' = [calls EXCEPT ![i] = c]
    PROVE  /\ CallsType' /\ DOMAIN calls' = DOMAIN calls
           /\ \A j \in DOMAIN calls : calls'[j] = IF j = i THEN c ELSE calls[j]
<1> DEFINE T == {calls[j] : j \in DOMAIN calls} \cup {c}
<1>1. calls \in Seq(T)
    BY SeqMonotonic DEF CallsType
<1>2. DOMAIN calls = 1 .. Len(calls)
    BY <1>1, LenProperties
<1>3. calls' \in Seq(T) /\ Len(calls') = Len(calls)
    BY <1>1, <1>2, ExceptSeq
<1>4. DOMAIN calls' = DOMAIN calls /\ \A j \in DOMAIN calls : calls'[j] = IF j = i THEN c ELSE calls[j]
    OBVIOUS
<1> HIDE DEF T
<1>5. \A s \in Seq(T) : s \in Seq({s[j] : j \in DOMAIN s})
    BY OwnElements
<1>6. calls' \in Seq({calls'[j] : j \in DOMAIN calls'})
    BY <1>3, <1>5
<1>7. \A j \in DOMAIN calls' : DOMAIN calls'[j] = Fields
    BY <1>4 DEF CallsType
<1> QED BY <1>4, <1>6, <1>7 DEF CallsType, Fields

LEMMA ClaimGoesOn ==
    ASSUME CallsType, NEW i \in DOMAIN calls, NEW c, DOMAIN c = Fields,
           calls' = [calls EXCEPT ![i] = c]
    PROVE  CallsType' /\ Claiming' = (Claiming \ {i}) \cup (IF Claim(c) THEN {i} ELSE {})
<1>1. /\ CallsType' /\ DOMAIN calls' = DOMAIN calls
      /\ \A j \in DOMAIN calls : calls'[j] = IF j = i THEN c ELSE calls[j]
    BY CallGoesOn
<1> QED BY <1>1 DEF Claiming, Claim

\* An answered call claims nothing any more.
LEMMA AnsweredEffect ==
    ASSUME CallsType, NEW i \in DOMAIN calls, Answered(i)
    PROVE  CallsType' /\ Claiming' = Claiming \ {i}
<1> DEFINE c == Over(calls[i])
<1>1. DOMAIN c = Fields /\ c.phase = "answered" /\ calls' = [calls EXCEPT ![i] = c]
    BY DEF CallsType, Fields, Answered, Over
<1> HIDE DEF c
<1> QED BY <1>1, ClaimGoesOn DEF Claim

\* A call that was carried out claims what its answer says.
LEMMA ExecutedEffect ==
    ASSUME CallsType, NEW i \in DOMAIN calls, NEW answer, NEW account,
           Executed(i, answer, account)
    PROVE  /\ CallsType'
           /\ \/ calls[i].what = "register" /\ answer.ret # "ERR_OK"
              \/ calls[i].what = "unregister" /\ answer.ret = "ERR_OK"
              => Claiming' = Claiming \cup {i}
           /\ calls[i].what = "register" /\ answer.ret = "ERR_OK" => Claiming' = Claiming \ {i}
           /\ calls[i].what = "unregister" /\ answer.ret # "ERR_OK" => Claiming' = Claiming \ {i}
           /\ calls[i].what = "query" => Claiming' = Claiming \ {i}
<1> DEFINE c == [calls[i] EXCEPT !.phase = "executed", !.answer = answer, !.account = account]
<1>1. DOMAIN c = Fields /\ c.phase = "executed" /\ c.what = calls[i].what /\ c.answer = answer
    BY DEF CallsType, Fields
<1>2. calls' = [calls EXCEPT ![i] = c]
    BY DEF Executed
<1> HIDE DEF c
<1> QED BY <1>1, <1>2, ClaimGoesOn DEF Claim

-----------------------------------------------------------------------------
\* What is known of the registration from GroupCallback.
LEMMA RegistrationFacts ==
    GP!CallbackInv =>
        /\ life[Process] \in Nat \ {0} /\ groupChangeObservers_[Process] \in Nat
        /\ groupChangeObservers_[Process] <= life[Process]
        /\ DOMAIN life = {Process} /\ DOMAIN observer_ = {Process}
        /\ DOMAIN groupChangeObservers_ = {Process}
<1> SUFFICES ASSUME GP!CallbackInv
             PROVE  /\ life[Process] \in Nat \ {0} /\ groupChangeObservers_[Process] \in Nat
                    /\ groupChangeObservers_[Process] <= life[Process]
                    /\ DOMAIN life = {Process} /\ DOMAIN observer_ = {Process}
                    /\ DOMAIN groupChangeObservers_ = {Process}
    OBVIOUS
<1>1. /\ life \in [{Process} -> 1 .. MaxLife] /\ groupChangeObservers_ \in [{Process} -> 0 .. MaxLife]
      /\ observer_ \in [{Process} -> BOOLEAN]
    BY DEF GP!CallbackInv, GP!TypeOK
<1>2. groupChangeObservers_[Process] \notin {0, life[Process]} =>
        groupChangeObservers_[Process] < life[Process]
    <2> SUFFICES ASSUME groupChangeObservers_[Process] \notin {0, life[Process]}
                 PROVE  groupChangeObservers_[Process] < life[Process]
        OBVIOUS
    <2> DEFINE o == <<Process, groupChangeObservers_[Process]>>
    <2>1. o \in diedObservers
        BY DEF GP!CallbackInv, GP!DeadObserverIsReported, GP!None
    <2>2. o[2] < life[o[1]]
        BY <2>1 DEF GP!CallbackInv, GP!NewsIsOld
    <2> QED BY <2>2
<1>3. MaxLife \in Nat
    BY ScriptCallsAssumption
<1> QED BY <1>1, <1>2, <1>3

\* What the registration of the process is after a step that no front end ordered, ...
Kept ==
    /\ life'[Process] = life[Process] /\ observer_'[Process] = observer_[Process]
    /\ RegisteredNow' => RegisteredNow \/ observer_[Process]

LEMMA RegisterEffect ==
    ASSUME GP!CallbackInv, G!Register(Process), UNCHANGED life
    PROVE  /\ RegisterResult = "ERR_OK" =>
                observer_'[Process] /\ life'[Process] = life[Process]
           /\ RegisterResult # "ERR_OK" => Kept
           /\ observer_[Process] => Kept
<1>1. Reaches /\ ~Registered =>
        observer_' = [observer_ EXCEPT ![Process] = TRUE]
    BY DEF G!Register, Reaches, Registered, G!None
<1>2. ~(Reaches /\ ~Registered) => UNCHANGED <<observer_, groupChangeObservers_>>
    BY DEF G!Register, Reaches, Registered, G!None
<1> QED BY <1>1, <1>2, RegistrationFacts DEF RegisterResult, Kept, RegisteredNow

LEMMA AroundKeeps == GP!CallbackInv /\ Around => Kept
<1> SUFFICES ASSUME GP!CallbackInv, Around PROVE Kept
    OBVIOUS
<1>1. CASE G!OnStart \/ G!DepsStarted \/ G!InitNecessaryState
    BY <1>1 DEF Kept, RegisteredNow, G!OnStart, G!DepsStarted, G!InitNecessaryState,
        G!registryVars, G!clientVars
<1>2. CASE G!ServiceDie
    BY <1>2, RegistrationFacts DEF Kept, RegisteredNow, G!ServiceDie, G!None
<1>3. CASE G!OnRemoteDied(Process)
    BY <1>3 DEF Kept, RegisteredNow, G!OnRemoteDied, G!registryVars
<1>4. CASE G!OnServiceDiedInner(Process)
    BY <1>4, RegisterEffect DEF Kept, RegisteredNow, G!OnServiceDiedInner
<1>5. ASSUME NEW o \in G!Observer, G!OnObserverDiedInner(o) PROVE Kept
    BY <1>5, RegistrationFacts
        DEF Kept, RegisteredNow, G!OnObserverDiedInner, G!EraseObserver, G!clientVars, G!None
<1> QED BY <1>1, <1>2, <1>3, <1>4, <1>5 DEF Around

LEMMA OtherCallKeeps == G!OtherCall(Process) => Kept
BY DEF G!OtherCall, Kept, RegisteredNow, G!registryVars

\* ... after it was unregistered, ...
LEMMA UnRegisterEffect ==
    ASSUME GP!CallbackInv, G!UnRegisterAppGroupCallBack(Process)
    PROVE  /\ UnRegisterResult = "ERR_OK" =>
                /\ ~observer_'[Process] /\ ~RegisteredNow' /\ life'[Process] = life[Process]
                /\ life[Process] = 1 => RegisteredNow
           /\ UnRegisterResult # "ERR_OK" => Kept
<1>1. Reaches /\ Registered =>
        /\ observer_' = [observer_ EXCEPT ![Process] = FALSE]
        /\ groupChangeObservers_' = [groupChangeObservers_ EXCEPT ![Process] = 0]
    BY DEF G!UnRegisterAppGroupCallBack, Reaches, Registered, G!None
<1>2. ~(Reaches /\ Registered) => UNCHANGED <<observer_, groupChangeObservers_>>
    BY DEF G!UnRegisterAppGroupCallBack, Reaches, Registered, G!None
<1>3. UNCHANGED life
    BY DEF G!UnRegisterAppGroupCallBack
<1> QED BY <1>1, <1>2, <1>3, RegistrationFacts
    DEF UnRegisterResult, Kept, RegisteredNow, Registered, G!None

\* ... and in its next life.
LEMMA ProcessDieEffect ==
    ASSUME GP!CallbackInv, G!ClientDie(Process)
    PROVE  ~observer_'[Process] /\ ~RegisteredNow' /\ life'[Process] # 1
BY RegistrationFacts DEF G!ClientDie, RegisteredNow

-----------------------------------------------------------------------------
\* A step that leaves front end and calls alone, ...
LEMMA KeptQuiet ==
    ASSUME GP!CallbackInv, QuietInv, Kept, UNCHANGED callVars PROVE QuietInv'
<1>1. CallsType' /\ Claiming' = Claiming
    BY DEF QuietInv, CallsType, callVars, Claiming
<1> QED BY <1>1 DEF QuietInv, SetHasClaim, OneClaim, RegisteredIsRemembered, StuckIsUndone,
    Kept, callVars

\* ... the end of the process, ...
LEMMA ProcessDieStep ==
    ASSUME GP!CallbackInv, QuietInv, ProcessDie PROVE QuietInv'
<1>1. calls' = <<>> /\ DOMAIN calls' = {}
    BY DEF ProcessDie
<1>2. CallsType'
    BY <1>1, EmptySeq DEF CallsType
<1>3. observer' = "none" /\ ~observer_'[Process] /\ ~RegisteredNow' /\ life'[Process] # 1
    BY ProcessDieEffect DEF ProcessDie
<1> QED BY <1>2, <1>3 DEF QuietInv, SetHasClaim, OneClaim, RegisteredIsRemembered, StuckIsUndone

\* ... and queries do not disturb what is claimed.
LEMMA QueueStep ==
    ASSUME QuietInv, NEW of \in Outcomes, Queue(of) PROVE QuietInv'
<1>0. PICK wanted : Called(Query(of, of.outcome.request, wanted))
    BY DEF Queue
<1> DEFINE c == Query(of, of.outcome.request, wanted)
<1>1. DOMAIN c = Fields /\ c.what = "query" /\ Called(c)
    BY <1>0 DEF Query, Fields
<1> HIDE DEF c
<1>2. CallsType' /\ Claiming' = Claiming
    BY <1>1, NewClaim DEF QuietInv, Claim
<1> QED BY <1>2 DEF Queue, groupVars, QuietInv, SetHasClaim, OneClaim, RegisteredIsRemembered,
    RegisteredNow, StuckIsUndone

LEMMA QueryStep ==
    ASSUME GP!CallbackInv, QuietInv, NEW i \in DOMAIN calls, Execute(i) \/ AnswerQuery(i)
    PROVE  QuietInv'
<1>1. calls[i].what = "query" /\ i \notin Claiming
    BY DEF Execute, AnswerQuery, Phase, Claiming, Claim
<1>2. CallsType' /\ Claiming' = Claiming
    <2>1. CASE Execute(i)
        <3>1. PICK answer, account : Executed(i, answer, account)
            BY <2>1 DEF Execute
        <3> QED BY <1>1, <3>1, ExecutedEffect DEF QuietInv
    <2>2. CASE AnswerQuery(i)
        BY <1>1, <2>2, AnsweredEffect DEF AnswerQuery, QuietInv
    <2> QED BY <2>1, <2>2
<1>3. Kept /\ UNCHANGED <<front, observer>>
    BY OtherCallKeeps DEF Execute, AnswerQuery, groupVars, Kept, RegisteredNow
<1> QED BY <1>2, <1>3 DEF QuietInv, SetHasClaim, OneClaim, RegisteredIsRemembered, StuckIsUndone, Kept

\* Over napi: an observer is taken, ...
LEMMA ParseStep ==
    ASSUME QuietInv, NEW argv \in Argvs, ParseRegister(argv) \/ ParseUnRegister(argv)
    PROVE  QuietInv'
<1>1. UNCHANGED <<groupVars, front>> /\ front = "napi"
    BY DEF ParseRegister, ParseUnRegister
<1>2. CASE ParseRegister(argv) /\ observer' = "stuck" /\ UNCHANGED calls
    <2>1. CallsType' /\ Claiming' = Claiming /\ observer = "none"
        BY <1>2 DEF QuietInv, CallsType, Claiming, ParseRegister
    <2> QED BY <1>1, <1>2, <2>1 DEF groupVars, QuietInv, SetHasClaim, OneClaim,
        RegisteredIsRemembered, RegisteredNow, StuckIsUndone
<1>3. CASE ParseRegister(argv) /\ observer' = "set" /\ Called(ObserverCall("register"))
    <2> DEFINE c == ObserverCall("register")
    <2>1. DOMAIN c = Fields /\ c.what = "register" /\ c.phase = "queued" /\ Called(c)
        BY <1>3 DEF ObserverCall, Fields
    <2> HIDE DEF c
    <2>2. CallsType' /\ \E n : Claiming' = Claiming \cup {n}
        BY <2>1, NewClaim DEF QuietInv, Claim
    <2>3. observer = "none"
        BY <1>3 DEF ParseRegister
    <2> QED BY <1>1, <1>3, <2>2, <2>3 DEF groupVars, QuietInv, SetHasClaim, OneClaim,
        RegisteredIsRemembered, RegisteredNow, StuckIsUndone
<1>4. CASE ParseUnRegister(argv)
    <2> DEFINE c == ObserverCall("unregister")
    <2>1. DOMAIN c = Fields /\ c.what = "unregister" /\ c.phase = "queued" /\ Called(c)
        BY <1>4 DEF ObserverCall, Fields, ParseUnRegister
    <2> HIDE DEF c
    <2>2. CallsType' /\ Claiming' = Claiming /\ UNCHANGED observer
        BY <1>4, <2>1, NewClaim DEF QuietInv, Claim, ParseUnRegister
    <2> QED BY <1>1, <2>2 DEF groupVars, QuietInv, SetHasClaim, OneClaim,
        RegisteredIsRemembered, RegisteredNow, StuckIsUndone
<1> QED BY <1>2, <1>3, <1>4 DEF ParseRegister

\* ... a worker registers it, or fails to, ...
LEMMA ExecuteRegisterStep ==
    ASSUME GP!CallbackInv, QuietInv, NEW i \in DOMAIN calls, ExecuteRegister(i) PROVE QuietInv'
<1>1. /\ calls[i].what = "register" /\ calls[i].phase = "queued" /\ i \in Claiming
      /\ front = "napi" /\ UNCHANGED <<front, observer>>
    BY DEF ExecuteRegister, Phase, Claiming, Claim
<1>2. /\ CallsType'
      /\ RegisterResult # "ERR_OK" => Claiming' = Claiming
      /\ RegisterResult = "ERR_OK" => Claiming' = Claiming \ {i}
    <2> DEFINE answer == Error(RegisterResult)
    <2>1. answer.ret = RegisterResult /\ Executed(i, answer, NoUser)
        BY DEF ExecuteRegister, Error, Answer
    <2> HIDE DEF answer
    <2> QED BY <1>1, <2>1, ExecutedEffect DEF QuietInv
<1>3. G!Register(Process) /\ UNCHANGED life
    BY DEF ExecuteRegister, G!RegisterAppGroupCallBack
<1>4. CASE RegisterResult # "ERR_OK"
    <2>1. Kept /\ Claiming' = Claiming
        BY <1>2, <1>3, <1>4, RegisterEffect
    <2> QED BY <1>1, <1>2, <2>1 DEF QuietInv, SetHasClaim, OneClaim, RegisteredIsRemembered,
        StuckIsUndone, Kept
<1>5. CASE RegisterResult = "ERR_OK"
    <2>1. observer_'[Process] /\ life'[Process] = life[Process] /\ Claiming' = Claiming \ {i}
        BY <1>2, <1>3, <1>5, RegisterEffect
    <2> QED BY <1>1, <1>2, <2>1 DEF QuietInv, SetHasClaim, OneClaim, RegisteredIsRemembered,
        StuckIsUndone
<1> QED BY <1>4, <1>5

\* ... unregisters it, or fails to, ...
LEMMA ExecuteUnRegisterStep ==
    ASSUME GP!CallbackInv, QuietInv, NEW i \in DOMAIN calls, ExecuteUnRegister(i) PROVE QuietInv'
<1>1. /\ calls[i].what = "unregister" /\ calls[i].phase = "queued" /\ i \notin Claiming
      /\ front = "napi" /\ UNCHANGED <<front, observer>>
    BY DEF ExecuteUnRegister, Phase, Claiming, Claim
<1>2. /\ CallsType'
      /\ UnRegisterResult = "ERR_OK" => Claiming' = Claiming \cup {i}
      /\ UnRegisterResult # "ERR_OK" => Claiming' = Claiming
    <2> DEFINE answer == Error(UnRegisterResult)
    <2>1. answer.ret = UnRegisterResult /\ Executed(i, answer, NoUser)
        BY DEF ExecuteUnRegister, Error, Answer
    <2> HIDE DEF answer
    <2> QED BY <1>1, <2>1, ExecutedEffect DEF QuietInv
<1>3. G!UnRegisterAppGroupCallBack(Process)
    BY DEF ExecuteUnRegister
<1>4. CASE UnRegisterResult # "ERR_OK"
    <2>1. Kept /\ Claiming' = Claiming
        BY <1>2, <1>3, <1>4, UnRegisterEffect
    <2> QED BY <1>1, <1>2, <2>1 DEF QuietInv, SetHasClaim, OneClaim, RegisteredIsRemembered,
        StuckIsUndone, Kept
<1>5. CASE UnRegisterResult = "ERR_OK"
    <2>1. /\ ~observer_'[Process] /\ ~RegisteredNow' /\ life'[Process] = life[Process]
          /\ life[Process] = 1 => RegisteredNow
          /\ Claiming' = Claiming \cup {i}
        BY <1>2, <1>3, <1>5, UnRegisterEffect
    <2>2. OneClaim'
        <3> SUFFICES ASSUME life[Process] = 1
                     PROVE  /\ \A j, k \in Claiming' : j = k
                            /\ observer' = "set"
            BY <1>1, <2>1 DEF OneClaim
        <3>1. observer_[Process]
            BY <2>1 DEF QuietInv, RegisteredIsRemembered
        <3>2. Claiming = {} /\ observer = "set"
            BY <1>1, <3>1 DEF QuietInv, OneClaim
        <3> QED BY <1>1, <2>1, <3>2
    <2> QED BY <1>1, <1>2, <2>1, <2>2 DEF QuietInv, SetHasClaim, RegisteredIsRemembered, StuckIsUndone
<1> QED BY <1>4, <1>5

\* ... and the answer reaches the front end.
LEMMA AnswerStep ==
    ASSUME QuietInv, NEW i \in DOMAIN calls, front = "napi",
           RegisterAppGroupCallBackAsyncCB(i) \/ UnRegisterAppGroupCallBackAsyncCB(i)
    PROVE  QuietInv'
<1>1. UNCHANGED <<groupVars, front>> /\ Answered(i)
    BY DEF RegisterAppGroupCallBackAsyncCB, UnRegisterAppGroupCallBackAsyncCB
<1>2. CallsType' /\ Claiming' = Claiming \ {i}
    BY <1>1, AnsweredEffect DEF QuietInv
<1>3. observer' = IF i \in Claiming THEN "none" ELSE observer
    BY DEF RegisterAppGroupCallBackAsyncCB, UnRegisterAppGroupCallBackAsyncCB, Phase, Claiming, Claim
<1>4. CASE i \in Claiming
    <2>1. OneClaim'
        BY <1>1, <1>2, <1>3, <1>4 DEF QuietInv, OneClaim, groupVars
    <2> QED BY <1>1, <1>2, <1>3, <1>4, <2>1 DEF groupVars, QuietInv, SetHasClaim,
        RegisteredIsRemembered, RegisteredNow, StuckIsUndone
<1>5. CASE i \notin Claiming
    <2>1. Claiming' = Claiming
        BY <1>2, <1>5
    <2> QED BY <1>1, <1>2, <1>3, <1>5, <2>1 DEF groupVars, QuietInv, SetHasClaim, OneClaim,
        RegisteredIsRemembered, RegisteredNow, StuckIsUndone
<1> QED BY <1>4, <1>5

\* Taihe registers and unregisters in one go, and undoes what failed.
LEMMA TaiheStep ==
    ASSUME GP!CallbackInv, QuietInv, TaiheRegister \/ TaiheUnregister PROVE QuietInv'
<1>1. CASE TaiheRegister
    <2> DEFINE c == [ObserverCall("register") EXCEPT
                        !.phase = IF RegisterResult = "ERR_OK" THEN "answered" ELSE "executed"]
    <2>1. /\ DOMAIN c = Fields /\ Called(c) /\ c.what = "register" /\ c.answer = NotYet
          /\ c.phase = IF RegisterResult = "ERR_OK" THEN "answered" ELSE "executed"
        BY <1>1 DEF TaiheRegister, ObserverCall, Fields
    <2>2. NotYet.ret # "ERR_OK"
        BY DEF NotYet, Error, Answer
    <2> HIDE DEF c
    <2>3. CallsType' /\ (RegisterResult # "ERR_OK" => Claiming' # {})
        BY <2>1, <2>2, NewClaim DEF QuietInv, Claim
    <2>4. G!Register(Process) /\ UNCHANGED life
        BY <1>1 DEF TaiheRegister, G!RegisterAppGroupCallBack
    <2>5. /\ front = "taihe" /\ front' = front
          /\ observer' = IF RegisterResult = "ERR_OK" THEN "set" ELSE "stuck"
        BY <1>1 DEF TaiheRegister
    <2>6. RegisteredIsRemembered' /\ (RegisterResult = "ERR_OK" => observer_'[Process])
        BY <2>4, RegisterEffect DEF QuietInv, RegisteredIsRemembered, Kept
    <2> QED BY <2>3, <2>5, <2>6 DEF QuietInv, SetHasClaim, OneClaim, StuckIsUndone
<1>2. CASE TaiheUnregister
    <2> DEFINE c == [ObserverCall("unregister") EXCEPT !.phase = "answered"]
    <2>1. DOMAIN c = Fields /\ Called(c)
        BY <1>2 DEF TaiheUnregister, ObserverCall, Fields
    <2> HIDE DEF c
    <2>2. CallsType'
        BY <2>1, NewClaim DEF QuietInv
    <2>3. front = "taihe" /\ front' = front /\ observer' = "none"
        BY <1>2 DEF TaiheUnregister
    <2>4. RegisteredIsRemembered'
        BY <1>2, UnRegisterEffect DEF TaiheUnregister, QuietInv, RegisteredIsRemembered, Kept
    <2> QED BY <2>2, <2>3, <2>4 DEF QuietInv, SetHasClaim, OneClaim, StuckIsUndone
<1> QED BY <1>1, <1>2

LEMMA UndoStep ==
    ASSUME GP!CallbackInv, QuietInv, NEW i \in DOMAIN calls, UndoRegister(i) PROVE QuietInv'
<1>1. CallsType'
    BY AnsweredEffect DEF UndoRegister, QuietInv
<1>2. front = "taihe" /\ front' = front /\ observer' = "none"
    BY DEF UndoRegister
<1>3. RegisteredIsRemembered'
    BY UnRegisterEffect DEF UndoRegister, QuietInv, RegisteredIsRemembered, Kept
<1> QED BY <1>1, <1>2, <1>3 DEF QuietInv, SetHasClaim, OneClaim, StuckIsUndone

LEMMA QuietNext == GP!CallbackInv /\ QuietInv /\ [Next]_vars => QuietInv'
<1> SUFFICES ASSUME GP!CallbackInv, QuietInv, [Next]_vars PROVE QuietInv'
    OBVIOUS
<1>1. CASE UNCHANGED vars
    BY <1>1, KeptQuiet DEF vars, groupVars, Kept, RegisteredNow
<1>2. CASE ProcessDie
    BY <1>2, ProcessDieStep
<1>3. CASE AScriptCalls
    BY <1>3, QueueStep, ProcessDieStep, ParseStep, TaiheStep DEF AScriptCalls, Crashes
<1>4. ASSUME NEW i \in DOMAIN calls, Work(i) PROVE QuietInv'
    BY <1>4, QueryStep, ExecuteRegisterStep, ExecuteUnRegisterStep DEF Work
<1>5. ASSUME NEW i \in DOMAIN calls, Deliver(i) PROVE QuietInv'
    BY <1>5, QueryStep, AnswerStep, UndoStep DEF Deliver
<1>6. CASE Around
    BY <1>6, AroundKeeps, KeptQuiet DEF Around
<1> QED BY <1>1, <1>2, <1>3, <1>4, <1>5, <1>6 DEF Next

LEMMA RegistrationInvariant == Spec => []GP!CallbackInv
<1>1. Spec => GP!Spec
    BY ImplementsRegistration, SameRegistration, PTL DEF G!Spec, GP!Spec
<1>2. GP!Spec => []GP!CallbackInv
    BY GP!CallbackInvariant, ScriptCallsAssumption
<1> QED BY <1>1, <1>2

LEMMA QuietInvariant == Spec => []QuietInv
<1>1. Init => QuietInv
    <2> SUFFICES ASSUME Init PROVE QuietInv
        OBVIOUS
    <2>1. calls = <<>> /\ DOMAIN calls = {} /\ observer = "none"
        BY DEF Init
    <2>2. ~observer_[Process] /\ ~RegisteredNow
        BY DEF Init, G!Init, RegisteredNow, G!None
    <2> QED BY <2>1, <2>2, EmptySeq DEF QuietInv, CallsType, SetHasClaim, OneClaim, Claiming,
        RegisteredIsRemembered, StuckIsUndone
<1> QED BY <1>1, QuietNext, RegistrationInvariant, PTL DEF Spec

\* Whatever the order of calls, answers and deaths: once nothing is on its way, the front
\* end, the client library and the service agree about the observer (registerObserver,
\* observer_ and groupChangeObservers_).
THEOREM AllAgreeWhenQuiet == Spec => []QuietAgrees
<1>1. GP!CallbackInv /\ QuietInv => QuietAgrees
    <2> SUFFICES ASSUME GP!CallbackInv, QuietInv, Quiet
                 PROVE  /\ observer = "set" => RegisteredNow /\ observer_[Process]
                        /\ front = "napi" /\ observer # "set" /\ RegisteredNow => life[Process] > 1
                        /\ front = "taihe" => observer # "stuck"
        BY DEF QuietAgrees
    <2>1. Claiming = {}
        BY DEF Quiet, NoCall, Claiming, Claim
    <2>2. observer_[Process] => RegisteredNow
        BY DEF GP!CallbackInv, GP!RememberedIsRegistered, Quiet, RegisteredNow
    <2>3. life[Process] \in Nat \ {0}
        BY RegistrationFacts
    <2> QED BY <2>1, <2>2, <2>3 DEF QuietInv, SetHasClaim, OneClaim, RegisteredIsRemembered,
        StuckIsUndone
<1> QED BY <1>1, RegistrationInvariant, QuietInvariant, PTL

-----------------------------------------------------------------------------
(* Requests                                                                *)

RequestFields ==
    {"method", "userId", "bundleName", "begin", "end", "interval", "maxNum", "newGroup", "days"}

\* A request of a method scripts have, which names no user.
ScriptMethods ==
    {"none", "IsBundleIdle", "QueryAppGroup", "SetAppGroup", "QueryBundleStatsInfoByInterval",
     "QueryBundleEvents", "QueryCurrentBundleEvents", "QueryModuleUsageRecords",
     "QueryDeviceEventStats", "QueryNotificationEventStats"}
OfScript(r) == DOMAIN r = RequestFields /\ r.method \in ScriptMethods
Anonymous(r) == OfScript(r) /\ r.userId = NoUser

\* A request whose parameters are right.
EventMethods == {"QueryBundleEvents", "QueryCurrentBundleEvents"}
InOrder(r) ==
    /\ r.begin \in Int
    /\ r.method = "QueryBundleStatsInfoByInterval" => r.begin < r.end /\ r.interval \in 0 .. 4
    /\ r.method \in EventMethods => r.begin < r.end /\ MaxNumInRange(r.maxNum)
    /\ r.method = "QueryModuleUsageRecords" => MaxNumInRange(r.maxNum)

\* The arguments of a script are values, and numbers are integers.
LEMMA NumberIsInt ==
    ASSUME NEW argv \in Argvs, NEW i \in Nat PROVE GetNumberValue(Arg(argv, i)) \in Int
<1> DEFINE V == [type : STRING, num : Int, str : STRING]
<1>1. argv \in Seq(V)
    BY ArgumentsAssumption
<1>2. CASE i < Len(argv)
    <2>1. Len(argv) \in Nat /\ i + 1 \in 1 .. Len(argv)
        BY <1>1, <1>2, LenProperties
    <2>2. argv[i + 1] \in V
        BY <1>1, <2>1, ElementOfSeq
    <2> QED BY <1>2, <2>2 DEF Arg, GetNumberValue
<1>3. CASE ~(i < Len(argv))
    BY <1>3 DEF Arg, Undefined, GetNumberValue
<1> QED BY <1>2, <1>3

Good(r) == Anonymous(r) /\ InOrder(r)

\* What a request is by default, and with times.
LEMMA AskFacts ==
    ASSUME NEW m
    PROVE  /\ DOMAIN Ask(m) = RequestFields /\ Ask(m).method = m /\ Ask(m).userId = NoUser
           /\ Ask(m).begin = -1
BY DEF Ask, RequestFields, NoUser

LEMMA AskTimesFacts ==
    ASSUME NEW m, NEW b, NEW e
    PROVE  LET r == AskTimes(m, b, e)
           IN  DOMAIN r = RequestFields /\ r.method = m /\ r.userId = NoUser /\ r.begin = b /\ r.end = e
BY AskFacts DEF AskTimes, RequestFields

LEMMA NothingIsGood == Good(Nothing)
BY AskFacts DEF Good, Anonymous, OfScript, ScriptMethods, InOrder, EventMethods, Nothing

\* Requests about a bundle, ...
PlainMethods == {"IsBundleIdle", "QueryAppGroup", "SetAppGroup"}
LEMMA BundleRequest ==
    ASSUME NEW m \in PlainMethods, NEW name, NEW group
    PROVE  /\ Good(Ask(m)) /\ Good([Ask(m) EXCEPT !.bundleName = name])
           /\ Good([Ask(m) EXCEPT !.bundleName = name, !.newGroup = group])
BY AskFacts DEF PlainMethods, Good, Anonymous, OfScript, ScriptMethods, RequestFields, InOrder, EventMethods

\* ... for statistics, ...
LEMMA IntervalRequest ==
    ASSUME NEW b \in Int, NEW e \in Int, b < e, NEW i \in 0 .. 4
    PROVE  Good([AskTimes("QueryBundleStatsInfoByInterval", b, e) EXCEPT !.interval = i])
BY AskTimesFacts DEF Good, Anonymous, OfScript, ScriptMethods, RequestFields, InOrder, EventMethods

LEMMA StatsRequest ==
    ASSUME NEW b \in Int, NEW e \in Int, b < e, NEW i \in 0 .. 4
    PROVE  /\ Good(AskStatsInfos(b, e)) /\ Good(AskAppStatsInfos(b, e))
           /\ Good([AskStatsInfos(b, e) EXCEPT !.interval = i])
<1> DEFINE r == AskStatsInfos(b, e)
           t == AskTimes("QueryBundleStatsInfoByInterval", b, e)
<1>1. DOMAIN t = RequestFields /\ t.begin = b /\ t.end = e /\ Anonymous(t) /\ t.method = "QueryBundleStatsInfoByInterval"
    BY AskTimesFacts DEF Anonymous, OfScript, ScriptMethods
<1> HIDE DEF t
<1>2. r = [t EXCEPT !.interval = 0]
    BY DEF AskStatsInfos, t
<1>3. /\ DOMAIN r = RequestFields /\ r.begin = b /\ r.end = e /\ Anonymous(r)
      /\ r.method = "QueryBundleStatsInfoByInterval" /\ r.interval = 0
    BY <1>1, <1>2 DEF Anonymous, OfScript, RequestFields
<1> HIDE DEF r
<1>4. ASSUME NEW j \in 0 .. 4 PROVE Good([r EXCEPT !.interval = j])
    BY <1>3 DEF Good, InOrder, EventMethods, Anonymous, OfScript, RequestFields
<1>5. Good(r)
    BY <1>3 DEF Good, InOrder, EventMethods
<1>6. Good(AskAppStatsInfos(b, e))
    <2> DEFINE j == IF e - b <= INTERVAL_TIME THEN 3 ELSE 0
    <2>1. j \in 0 .. 4
        OBVIOUS
    <2>2. AskAppStatsInfos(b, e) = [r EXCEPT !.interval = j]
        BY DEF AskAppStatsInfos, r
    <2> QED BY <1>4, <2>1, <2>2
<1> QED BY <1>4, <1>5, <1>6 DEF r

LEMMA LastUseRequest == Good(AskLastUseTime)
<1>1. 0 < MAX_TIME /\ MAX_TIME \in Int
    BY SMT DEF MAX_TIME
<1>2. AskLastUseTime = [AskTimes("QueryBundleStatsInfoByInterval", 0, MAX_TIME) EXCEPT !.interval = 3]
    BY DEF AskLastUseTime, YEAR_TYPE
<1>3. Good([AskTimes("QueryBundleStatsInfoByInterval", 0, MAX_TIME) EXCEPT !.interval = 3])
    <2>1. 0 \in Int /\ 3 \in 0 .. 4
        OBVIOUS
    <2> QED BY <1>1, <2>1, IntervalRequest
<1> QED BY <1>2, <1>3

\* ... for events and records, ...
LEMMA EventsRequest ==
    ASSUME NEW m \in EventMethods, NEW b \in Int, NEW e \in Int, b < e, NEW n, MaxNumInRange(n)
    PROVE  Good([AskTimes(m, b, e) EXCEPT !.maxNum = n])
BY AskTimesFacts DEF Good, Anonymous, OfScript, ScriptMethods, RequestFields, InOrder, EventMethods

LEMMA RecordsRequest ==
    ASSUME NEW n, MaxNumInRange(n)
    PROVE  Good([Ask("QueryModuleUsageRecords") EXCEPT !.maxNum = n])
BY AskFacts DEF Good, Anonymous, OfScript, ScriptMethods, RequestFields, InOrder, EventMethods

\* ... and for numbers of device events.
LEMMA DeviceRequest ==
    ASSUME NEW m \in {"QueryDeviceEventStats", "QueryNotificationEventStats"}, NEW b \in Int, NEW e
    PROVE  Good(AskTimes(m, b, e))
BY AskTimesFacts DEF Good, Anonymous, OfScript, ScriptMethods, InOrder, EventMethods

LEMMA AcceptedIsGood ==
    ASSUME NEW api, NEW valid, NEW r, valid => Good(r)
    PROVE  Good(Accept(api, valid, r).request)
<1>1. CASE valid
    BY <1>1 DEF Accept, Outcome
<1>2. CASE ~valid
    BY <1>2, NothingIsGood DEF Accept, Thrown, Outcome
<1> QED BY <1>1, <1>2

-----------------------------------------------------------------------------
(* The requests of usageStatistics                                         *)

LEMMA NewBasics ==
    /\ \A m : New!Ask(m) = Ask(m)
    /\ \A m, b, e : New!AskTimes(m, b, e) = AskTimes(m, b, e)
    /\ \A b, e : New!AskStatsInfos(b, e) = AskStatsInfos(b, e)
    /\ \A b, e : New!AskAppStatsInfos(b, e) = AskAppStatsInfos(b, e)
    /\ New!AskLastUseTime = AskLastUseTime /\ New!Nothing = Nothing
    /\ \A api, valid, r : New!Accept(api, valid, r) = Accept(api, valid, r)
    /\ \A api, thrown, how, r : New!Outcome(api, thrown, how, r) = Outcome(api, thrown, how, r)
    /\ \A argv, i : New!Arg(argv, i) = Arg(argv, i)
    /\ \A v : New!GetNumberValue(v) = GetNumberValue(v)
    /\ \A v, w : New!TimesValid(v, w) <=> TimesValid(v, w)
    /\ \A n : New!MaxNumInRange(n) <=> MaxNumInRange(n)
<1>1. \A m : New!Ask(m) = Ask(m)
    BY DEF New!Ask, Ask, New!NoUser, NoUser
<1>2. \A m, b, e : New!AskTimes(m, b, e) = AskTimes(m, b, e)
    BY <1>1 DEF New!AskTimes, AskTimes
<1>3. \A b, e : New!AskStatsInfos(b, e) = AskStatsInfos(b, e)
    BY <1>2 DEF New!AskStatsInfos, AskStatsInfos
<1>4. \A b, e : New!AskAppStatsInfos(b, e) = AskAppStatsInfos(b, e)
    BY <1>3 DEF New!AskAppStatsInfos, AskAppStatsInfos
<1>5. New!MAX_TIME = MAX_TIME
    BY SMT DEF New!MAX_TIME, MAX_TIME
<1>6. New!AskLastUseTime = AskLastUseTime
    BY <1>2, <1>5 DEF New!AskLastUseTime, AskLastUseTime, New!YEAR_TYPE, YEAR_TYPE
<1>7. New!Nothing = Nothing
    BY <1>1 DEF New!Nothing, Nothing
<1>8. \A api, thrown, how, r : New!Outcome(api, thrown, how, r) = Outcome(api, thrown, how, r)
    BY DEF New!Outcome, Outcome
<1>9. \A api, valid, r : New!Accept(api, valid, r) = Accept(api, valid, r)
    BY <1>7, <1>8 DEF New!Accept, Accept, New!Thrown, Thrown
<1>10. \A argv, i : New!Arg(argv, i) = Arg(argv, i)
    BY DEF New!Arg, Arg, New!Undefined, Undefined
<1>11. \A v : New!GetNumberValue(v) = GetNumberValue(v)
    BY DEF New!GetNumberValue, GetNumberValue, New!IsNumber, IsNumber
<1>12. \A v, w : New!TimesValid(v, w) <=> TimesValid(v, w)
    BY DEF New!TimesValid, TimesValid, New!IsNumber, IsNumber, New!TimesInOrder, TimesInOrder,
        New!TIME_NUMBER_MIN, TIME_NUMBER_MIN
<1>13. \A n : New!MaxNumInRange(n) <=> MaxNumInRange(n)
    BY DEF New!MaxNumInRange, MaxNumInRange
<1> QED BY <1>1, <1>2, <1>3, <1>4, <1>6, <1>7, <1>8, <1>9, <1>10, <1>11, <1>12, <1>13

\* Times that are let through are in order.
LEMMA TimesAreInOrder ==
    ASSUME NEW argv \in Argvs, NEW i \in Nat, NEW j \in Nat, TimesValid(Arg(argv, i), Arg(argv, j))
    PROVE  GetNumberValue(Arg(argv, i)) < GetNumberValue(Arg(argv, j))
BY DEF TimesValid, TimesInOrder, GetNumberValue

LEMMA NewRequests ==
    ASSUME NEW argv \in Argvs, NEW o \in New!Calls(argv)
    PROVE  Good(o.request)
<1> DEFINE num(i) == GetNumberValue(Arg(argv, i))
<1>0. \A i \in Nat : num(i) \in Int
    BY NumberIsInt
<1>t. \A i, j \in Nat : TimesValid(Arg(argv, i), Arg(argv, j)) => num(i) < num(j)
    BY TimesAreInOrder
<1>o. \A api, thrown, how, r : Outcome(api, thrown, how, r).request = r
    BY DEF Outcome
<1>1. Good(New!QueryModuleUsageRecords(argv).request)
    <2> DEFINE p == New!ParseQueryModuleUsageRecords(argv)
    <2>1. p.valid => MaxNumInRange(p.maxNum)
        <3>0. MaxNumInRange(MAXNUM_UP_LIMIT)
            BY ParametersAssumption DEF MaxNumInRange
        <3>1. CASE Len(argv) = 0
            BY <3>0, <3>1 DEF New!ParseQueryModuleUsageRecords
        <3>2. CASE Len(argv) # 0
            BY <3>0, <3>2, NewBasics DEF New!ParseQueryModuleUsageRecords, New!GetNumberValue, New!IsNumber
        <3> QED BY <3>1, <3>2
    <2> HIDE DEF p
    <2> QED BY <2>1, RecordsRequest, AcceptedIsGood, NewBasics DEF New!QueryModuleUsageRecords, p
<1>2. Good(New!IsIdleState(argv).request)
    <2>1. CASE Len(argv) \notin {1, 2}
        <3>1. New!IsIdleState(argv).request = New!Nothing
            BY <2>1 DEF New!IsIdleState, New!Crash, New!Outcome
        <3> QED BY <3>1, NothingIsGood, NewBasics
    <2>2. CASE Len(argv) \in {1, 2}
        BY <2>2, BundleRequest, AcceptedIsGood, NewBasics DEF PlainMethods, New!IsIdleState
    <2> QED BY <2>1, <2>2
<1>3. Good(New!IsIdleStateSync(argv).request)
    <2> DEFINE name == IF New!ParseIsIdleStateSyncParameters(argv)
                       THEN New!GetTypeStringValue(New!Arg(argv, 0)) ELSE ""
    <2>1. New!IsIdleStateSync(argv).request = [New!Ask("IsBundleIdle") EXCEPT !.bundleName = name]
        BY DEF New!IsIdleStateSync, New!Outcome
    <2> HIDE DEF name
    <2> QED BY <2>1, BundleRequest, NewBasics DEF PlainMethods
<1>4. ASSUME NEW api, NEW m \in EventMethods PROVE Good(New!AskEvents(argv, api, m).request)
    <2> DEFINE p == New!ParseQueryCurrentBundleEventsParameters(argv)
    <2>1. p.valid => MaxNumInRange(p.maxNum) /\ TimesValid(Arg(argv, 0), Arg(argv, 1))
        BY NewBasics DEF New!ParseQueryCurrentBundleEventsParameters
    <2> HIDE DEF p
    <2>2. p.valid => num(0) \in Int /\ num(1) \in Int /\ num(0) < num(1)
        BY <1>0, <1>t, <2>1
    <2>3. p.valid => Good([AskTimes(m, num(0), num(1)) EXCEPT !.maxNum = p.maxNum])
        BY <2>1, <2>2, EventsRequest
    <2> HIDE DEF num
    <2> QED BY <2>3, AcceptedIsGood, NewBasics DEF New!AskEvents, p, num
<1>5. Good(New!QueryBundleStatsInfoByInterval(argv).request)
    <2> DEFINE valid == New!ParseQueryBundleStatsInfoByInterval(argv)
    <2>1. valid => num(0) \in 0 .. 4 /\ TimesValid(Arg(argv, 1), Arg(argv, 2))
        BY NewBasics DEF New!ParseQueryBundleStatsInfoByInterval, New!IntervalInRange,
            New!INTERVAL_NUMBER_MIN, New!INTERVAL_NUMBER_MAX, New!IsNumber, GetNumberValue, IsNumber
    <2> HIDE DEF valid
    <2>2. valid => num(1) \in Int /\ num(2) \in Int /\ num(1) < num(2)
        BY <1>0, <1>t, <2>1
    <2>3. valid => Good([AskTimes("QueryBundleStatsInfoByInterval", num(1), num(2))
                         EXCEPT !.interval = num(0)])
        BY <2>1, <2>2, IntervalRequest
    <2> HIDE DEF num
    <2> QED BY <2>3, AcceptedIsGood, NewBasics DEF New!QueryBundleStatsInfoByInterval, valid, num
<1>6. /\ Good(New!QueryBundleStatsInfos(argv).request) /\ Good(New!QueryAppStatsInfos(argv).request)
    <2> DEFINE valid == New!TimesAndCallback(argv)
    <2>1. valid => num(0) \in Int /\ num(1) \in Int /\ num(0) < num(1)
        BY <1>0, <1>t, NewBasics DEF New!TimesAndCallback
    <2> HIDE DEF valid
    <2>2. valid => Good(AskStatsInfos(num(0), num(1))) /\ Good(AskAppStatsInfos(num(0), num(1)))
        <3>1. 0 \in 0 .. 4
            OBVIOUS
        <3> QED BY <2>1, <3>1, StatsRequest
    <2> HIDE DEF num
    <2> QED BY <2>2, AcceptedIsGood, NewBasics
        DEF New!QueryBundleStatsInfos, New!QueryAppStatsInfos, New!ParseQueryBundleStatsInfos,
            New!ParseAppStatsInfos, New!Begin, New!End, valid, num
<1>7. Good(New!QueryLastUseTime(argv).request)
    BY LastUseRequest, AcceptedIsGood, NewBasics DEF New!QueryLastUseTime
<1>8. /\ Good(New!QueryDeviceEventStats(argv).request)
      /\ Good(New!QueryNotificationEventStats(argv).request)
    <2>1. ASSUME NEW m \in {"QueryDeviceEventStats", "QueryNotificationEventStats"}
          PROVE  Good(AskTimes(m, num(0), num(1)))
        BY <1>0, DeviceRequest
    <2> HIDE DEF num
    <2> QED BY <2>1, AcceptedIsGood, NewBasics
        DEF New!QueryDeviceEventStats, New!QueryNotificationEventStats, New!Begin, New!End, num
<1>9. Good(New!QueryAppGroup(argv).request) /\ Good(New!QueryAppGroupSync(argv).request)
    <2> DEFINE name == IF Len(argv) = 1 THEN New!GetTypeStringValue(New!Arg(argv, 0)) ELSE ""
    <2>1. New!QueryAppGroupSync(argv).request = [New!Ask("QueryAppGroup") EXCEPT !.bundleName = name]
        BY DEF New!QueryAppGroupSync, New!Outcome, New!AskAppGroup
    <2> HIDE DEF name
    <2>2. Good(New!QueryAppGroupSync(argv).request)
        BY <2>1, BundleRequest, NewBasics DEF PlainMethods
    <2>3. Good(New!QueryAppGroup(argv).request)
        BY BundleRequest, AcceptedIsGood, NewBasics DEF PlainMethods, New!QueryAppGroup, New!AskAppGroup
    <2> QED BY <2>2, <2>3
<1>10. Good(New!SetAppGroup(argv).request)
    BY BundleRequest, AcceptedIsGood, NewBasics DEF PlainMethods, New!SetAppGroup
<1> QED BY <1>1, <1>2, <1>3, <1>4, <1>5, <1>6, <1>7, <1>8, <1>9, <1>10
    DEF New!Calls, New!QueryCurrentBundleEvents, New!QueryBundleEvents, EventMethods

-----------------------------------------------------------------------------
(* The requests of statically typed scripts                                *)

LEMMA IdlBasics ==
    /\ \A m : Idl!Ask(m) = Ask(m)
    /\ \A m, b, e : Idl!AskTimes(m, b, e) = AskTimes(m, b, e)
    /\ \A b, e : Idl!AskStatsInfos(b, e) = AskStatsInfos(b, e)
    /\ Idl!Nothing = Nothing /\ Idl!MAX_TIME = MAX_TIME
    /\ \A api, thrown, how, r : Idl!Outcome(api, thrown, how, r) = Outcome(api, thrown, how, r)
    /\ \A v, w : Idl!CheckBeginTimeAndEndTime(v, w) <=> TimesInOrder(v, w)
    /\ \A n : Idl!CheckMaxNum(n) <=> MaxNumInRange(n)
    /\ \A n : Idl!CheckEventMaxNum(n) <=> MaxNumInRange(n)
    /\ \A n : Idl!CheckInterval(n) => n \in 0 .. 4
<1>1. \A m : Idl!Ask(m) = Ask(m)
    BY DEF Idl!Ask, Ask, Idl!NoUser, NoUser
<1>2. \A m, b, e : Idl!AskTimes(m, b, e) = AskTimes(m, b, e)
    BY <1>1 DEF Idl!AskTimes, AskTimes
<1>3. \A b, e : Idl!AskStatsInfos(b, e) = AskStatsInfos(b, e)
    BY <1>2 DEF Idl!AskStatsInfos, AskStatsInfos
<1>4. Idl!MAX_TIME = MAX_TIME
    BY SMT DEF Idl!MAX_TIME, MAX_TIME
<1>5. Idl!Nothing = Nothing
    BY <1>1 DEF Idl!Nothing, Nothing
<1>6. \A api, thrown, how, r : Idl!Outcome(api, thrown, how, r) = Outcome(api, thrown, how, r)
    BY DEF Idl!Outcome, Outcome
<1>7. \A v, w : Idl!CheckBeginTimeAndEndTime(v, w) <=> TimesInOrder(v, w)
    BY DEF Idl!CheckBeginTimeAndEndTime, Idl!TimesInOrder, TimesInOrder,
        Idl!TIME_NUMBER_MIN, TIME_NUMBER_MIN
<1>8. \A n : Idl!MaxNumInRange(n) <=> MaxNumInRange(n)
    BY DEF Idl!MaxNumInRange, MaxNumInRange
<1>9. \A n : Idl!CheckInterval(n) => n \in 0 .. 4
    BY DEF Idl!CheckInterval, Idl!IntervalInRange, Idl!INTERVAL_NUMBER_MIN, Idl!INTERVAL_NUMBER_MAX
<1> QED BY <1>1, <1>2, <1>3, <1>4, <1>5, <1>6, <1>7, <1>8, <1>9
    DEF Idl!CheckMaxNum, Idl!CheckEventMaxNum

LEMMA DoneIsGood ==
    ASSUME NEW api, NEW valid, NEW r, valid => Good(r)
    PROVE  Good(Idl!Do(api, valid, r).request)
<1>1. CASE valid
    BY <1>1, IdlBasics DEF Idl!Do, Outcome
<1>2. CASE ~valid
    BY <1>2, NothingIsGood, IdlBasics DEF Idl!Do, Idl!Thrown, Outcome
<1> QED BY <1>1, <1>2

LEMMA IdlRequests ==
    ASSUME NEW a \in IdlArgs, NEW o \in Idl!Calls(a.name, a.begin, a.end, a.num)
    PROVE  Good(o.request)
<1> DEFINE name == a.name
           b == a.begin
           e == a.end
           n == a.num
<1>0. b \in Int /\ e \in Int /\ n \in Int
    BY ArgumentsAssumption
<1>o. o \in Idl!Calls(name, b, e, n)
    OBVIOUS
<1>t. TimesInOrder(b, e) => b < e
    BY <1>0 DEF TimesInOrder
<1>m. MaxNumInRange(MAXNUM_UP_LIMIT)
    BY ParametersAssumption DEF MaxNumInRange
<1> HIDE DEF name, b, e, n
<1>1. Good(Idl!IsIdleStateSync(name).request)
    BY BundleRequest, DoneIsGood, IdlBasics DEF PlainMethods, Idl!IsIdleStateSync
<1>2. Good(Idl!QueryAppGroupSync.request) /\ Good(Idl!QueryAppGroupSyncByBundleName(name).request)
    BY BundleRequest, DoneIsGood, IdlBasics
    DEF PlainMethods, Idl!QueryAppGroupSync, Idl!QueryAppGroupSyncByBundleName
<1>3. Good(Idl!SetAppGroupSync(name, n).request)
    BY BundleRequest, DoneIsGood, IdlBasics DEF PlainMethods, Idl!SetAppGroupSync
<1>4. ASSUME TimesInOrder(b, e), NEW i \in 0 .. 4
      PROVE  /\ Good(AskStatsInfos(b, e)) /\ Good([AskStatsInfos(b, e) EXCEPT !.interval = i])
             /\ Good([AskTimes("QueryBundleStatsInfoByInterval", b, e) EXCEPT !.interval = i])
    BY <1>0, <1>t, <1>4, StatsRequest, IntervalRequest
<1>5. Good(Idl!QueryBundleStatsInfosAsync(b, e).request)
    <2>1. 0 \in 0 .. 4
        OBVIOUS
    <2> QED BY <1>4, <2>1, DoneIsGood, IdlBasics DEF Idl!QueryBundleStatsInfosAsync
<1>6. Good(Idl!QueryAppStatsInfosAsync(b, e).request)
    <2> DEFINE i == IF e - b <= INTERVAL_TIME THEN 1 ELSE 0
    <2>1. i \in 0 .. 4
        OBVIOUS
    <2> HIDE DEF i
    <2> QED BY <1>4, <2>1, DoneIsGood, IdlBasics DEF Idl!QueryAppStatsInfosAsync, i
<1>7. Good(Idl!QueryLastUseTimeAsync.request)
    <2>1. 0 < MAX_TIME /\ MAX_TIME \in Int /\ 0 \in Int /\ 4 \in 0 .. 4
        BY SMT DEF MAX_TIME
    <2>2. Good([AskTimes("QueryBundleStatsInfoByInterval", 0, MAX_TIME) EXCEPT !.interval = 4])
        BY <2>1, IntervalRequest
    <2> QED BY <2>2, DoneIsGood, IdlBasics DEF Idl!QueryLastUseTimeAsync, Idl!INTERVAL_TYPE_YEAR
<1>8. Good(Idl!QueryBundleStatsInfoByIntervalAsync(n, b, e).request)
    BY <1>4, DoneIsGood, IdlBasics DEF Idl!QueryBundleStatsInfoByIntervalAsync
<1>9. ASSUME NEW api, NEW m \in EventMethods, NEW num
      PROVE  Good(Idl!QueryEventsByLimit(api, m, b, e, num).request)
    <2>1. TimesInOrder(b, e) /\ MaxNumInRange(num) =>
            Good([AskTimes(m, b, e) EXCEPT !.maxNum = num])
        BY <1>0, <1>t, EventsRequest
    <2> QED BY <2>1, DoneIsGood, IdlBasics DEF Idl!QueryEventsByLimit
<1>10. ASSUME NEW m \in {"QueryDeviceEventStats", "QueryNotificationEventStats"}
       PROVE  Good(AskTimes(m, b, e))
    BY <1>0, DeviceRequest
<1>11. /\ Good(Idl!QueryDeviceEventStatsAsync(b, e).request)
       /\ Good(Idl!QueryNotificationEventStatsAsync(b, e).request)
    BY <1>10, DoneIsGood, IdlBasics
    DEF Idl!QueryDeviceEventStatsAsync, Idl!QueryNotificationEventStatsAsync
<1>12. Good(Idl!QueryModuleUsageRecordsAsyncByMaxNum(n).request)
    BY RecordsRequest, DoneIsGood, IdlBasics DEF Idl!QueryModuleUsageRecordsAsyncByMaxNum
<1>13. Good(Idl!QueryModuleUsageRecordsAsync.request)
    <2>1. Good(Ask("QueryModuleUsageRecords"))
        <3>1. Ask("QueryModuleUsageRecords").maxNum = MAXNUM_UP_LIMIT
            BY DEF Ask
        <3> QED BY <1>m, <3>1, AskFacts
            DEF Good, Anonymous, OfScript, ScriptMethods, InOrder, EventMethods
    <2> QED BY <2>1, DoneIsGood, IdlBasics DEF Idl!QueryModuleUsageRecordsAsync
<1> QED BY <1>o, <1>1, <1>2, <1>3, <1>5, <1>6, <1>7, <1>8, <1>9, <1>11, <1>12, <1>13
    DEF Idl!Calls, Idl!QueryBundleEventsAsync, Idl!QueryBundleEventsAsyncByLimit,
        Idl!QueryCurrentBundleEventsAsync, Idl!QueryCurrentBundleEventsAsyncByLimit, EventMethods

-----------------------------------------------------------------------------
(* The requests of bundleState                                             *)

\* A request names no user, but for the one mistake.
Whose(api, r) ==
    /\ OfScript(r)
    /\ r.userId = NoUser \/ (api = "queryBundleActiveStates" /\ r.userId = 0)

LEMMA OldBasics ==
    /\ \A m : Old!Ask(m) = Ask(m)
    /\ \A m, b, e : Old!AskTimes(m, b, e) = AskTimes(m, b, e)
    /\ \A b, e : Old!AskStatsInfos(b, e) = AskStatsInfos(b, e)
    /\ Old!Nothing = Nothing
    /\ \A api, thrown, how, r : Old!Outcome(api, thrown, how, r) = Outcome(api, thrown, how, r)
<1>1. \A m : Old!Ask(m) = Ask(m)
    BY DEF Old!Ask, Ask, Old!NoUser, NoUser
<1>2. \A m, b, e : Old!AskTimes(m, b, e) = AskTimes(m, b, e)
    BY <1>1 DEF Old!AskTimes, AskTimes
<1>3. \A b, e : Old!AskStatsInfos(b, e) = AskStatsInfos(b, e)
    BY <1>2 DEF Old!AskStatsInfos, AskStatsInfos
<1>4. Old!Nothing = Nothing
    BY <1>1 DEF Old!Nothing, Nothing
<1>5. \A api, thrown, how, r : Old!Outcome(api, thrown, how, r) = Outcome(api, thrown, how, r)
    BY DEF Old!Outcome, Outcome
<1> QED BY <1>1, <1>2, <1>3, <1>4, <1>5

\* Such a request is made.
Mine(o) == Whose(o.api, o.request)

LEMMA OutcomeIsMine ==
    ASSUME NEW api, NEW thrown, NEW how, NEW r, Whose(api, r)
    PROVE  Mine(Old!Outcome(api, thrown, how, r))
BY OldBasics DEF Outcome, Mine

LEMMA OldCall ==
    ASSUME NEW api, NEW argv, NEW n, NEW valid, NEW unparsed, NEW r,
           Whose(api, unparsed), Whose(api, r)
    PROVE  Mine(Old!Call(api, argv, n, valid, unparsed, r))
<1> DEFINE c == Old!CountAsserted(argv, n)
           k == Old!CallbackAsserted(argv, n)
<1>0. Whose(api, Old!Nothing)
    BY NothingIsGood, OldBasics DEF Good, Anonymous, Whose
<1>1. CASE c
    <2>1. Old!Call(api, argv, n, valid, unparsed, r) = Old!Outcome(api, TRUE, "async", unparsed)
        BY <1>1 DEF Old!Call
    <2> QED BY <2>1, OutcomeIsMine
<1>2. CASE ~c /\ valid
    <2>1. Old!Call(api, argv, n, valid, unparsed, r) = Old!Outcome(api, k, "async", r)
        BY <1>2 DEF Old!Call
    <2> HIDE DEF k
    <2> QED BY <2>1, OutcomeIsMine
<1>3. CASE ~c /\ ~valid
    <2>1. Old!Call(api, argv, n, valid, unparsed, r) = Old!Outcome(api, k, "refused", Old!Nothing)
        BY <1>3 DEF Old!Call
    <2> HIDE DEF k
    <2> QED BY <1>0, <2>1, OutcomeIsMine
<1> QED BY <1>1, <1>2, <1>3

LEMMA OldRequests ==
    ASSUME NEW argv \in Argvs, NEW o \in Old!Calls(argv)
    PROVE  Mine(o)
<1>s. ASSUME NEW m \in ScriptMethods, NEW api
      PROVE  Whose(api, Ask(m)) /\ \A b, e : Whose(api, AskTimes(m, b, e))
    BY AskFacts, AskTimesFacts DEF Whose, OfScript
<1>w. \A r, api : Good(r) => Whose(api, r)
    BY DEF Good, Anonymous, Whose
<1>1. Mine(Old!IsIdleState(argv))
    <2> DEFINE name == Old!GetTypeStringValue(Old!Arg(argv, 0))
    <2> HIDE DEF name
    <2>1. Whose("isIdleState", Old!Ask("IsBundleIdle"))
        BY <1>s, OldBasics DEF ScriptMethods
    <2>2. Whose("isIdleState", [Old!Ask("IsBundleIdle") EXCEPT !.bundleName = name])
        BY <1>w, BundleRequest, OldBasics DEF PlainMethods
    <2> QED BY <2>1, <2>2, OldCall DEF Old!IsIdleState, name
<1>2. Mine(Old!QueryAppUsagePriorityGroup(argv))
    <2> DEFINE q == Old!QueryAppUsagePriorityGroup(argv)
               api == "queryAppUsagePriorityGroup"
               named == Old!GetTypeStringValue(Old!Arg(argv, 0)) # ""
               noName == Len(argv) = 0 \/ (Len(argv) = 1 /\ Old!IsFunction(Old!Arg(argv, 0)))
               asserted == Len(argv) > 2 \/ Old!CallbackAsserted(argv, 2)
               name == IF noName THEN "" ELSE Old!GetTypeStringValue(Old!Arg(argv, 0))
               long == Len(argv) > 2
               short == Len(argv) <= 2
    <2>0. \A thrown, how : Mine(Old!Outcome(api, thrown, how, Old!Nothing))
        BY <1>w, NothingIsGood, OldBasics, OutcomeIsMine
    <2>c. Mine(Old!Crash(api))
        BY <2>0 DEF Old!Crash
    <2>r. Mine(Old!Outcome(api, FALSE, "async", [Old!Ask("QueryAppGroup") EXCEPT !.bundleName = name]))
        <3> HIDE DEF name, api
        <3>1. Good([Ask("QueryAppGroup") EXCEPT !.bundleName = name])
            BY BundleRequest DEF PlainMethods
        <3> QED BY <1>w, <3>1, OldBasics, OutcomeIsMine
    <2>5. long \/ short
        <3>1. Len(argv) \in Nat
            BY ArgumentsAssumption, LenProperties
        <3> QED BY <3>1
    <2>e. q = CASE long -> Old!Crash(api)
                [] short /\ ~noName /\ ~named -> Old!Outcome(api, asserted, "refused", Old!Nothing)
                [] short /\ (noName \/ named) /\ asserted -> Old!Crash(api)
                [] OTHER -> Old!Outcome(api, FALSE, "async",
                                [Old!Ask("QueryAppGroup") EXCEPT !.bundleName = name])
        BY Zenon DEF Old!QueryAppUsagePriorityGroup
    <2> HIDE DEF q, api, named, noName, asserted, name, long, short
    <2> QED BY <2>0, <2>c, <2>r, <2>5, <2>e, Zenon DEF q
<1>3. ASSUME NEW api, NEW r, Whose(api, r) PROVE Mine(Old!QueryStates(api, argv, r))
    <2>1. ASSUME NEW b, NEW e PROVE Whose(api, [r EXCEPT !.begin = b, !.end = e])
        BY <1>3 DEF Whose, OfScript, RequestFields
    <2> QED BY <1>3, <2>1, OldCall, Zenon DEF Old!QueryStates
<1>4. Mine(Old!QueryCurrentBundleActiveStates(argv))
    <2>1. \A api : Whose(api, Old!Ask("QueryCurrentBundleEvents"))
        BY <1>s, OldBasics DEF ScriptMethods
    <2> QED BY <1>3, <2>1 DEF Old!QueryCurrentBundleActiveStates
<1>5. Mine(Old!QueryBundleActiveStates(argv))
    <2> DEFINE r == Ask("QueryBundleEvents")
    <2>1. DOMAIN r = RequestFields /\ r.method = "QueryBundleEvents"
        BY AskFacts
    <2> HIDE DEF r
    <2>2. Whose("queryBundleActiveStates", [r EXCEPT !.userId = 0])
        BY <2>1 DEF Whose, OfScript, ScriptMethods, RequestFields
    <2> QED BY <1>3, <2>2, OldBasics DEF Old!QueryBundleActiveStates, r
<1>6. ASSUME NEW api, NEW b, NEW e, NEW i
      PROVE  /\ Whose(api, AskTimes("QueryBundleStatsInfoByInterval", b, e))
             /\ Whose(api, [AskTimes("QueryBundleStatsInfoByInterval", b, e) EXCEPT !.interval = i])
             /\ Whose(api, AskStatsInfos(b, e))
    <2>1. ASSUME NEW j
          PROVE  Whose(api, [AskTimes("QueryBundleStatsInfoByInterval", b, e) EXCEPT !.interval = j])
        BY AskTimesFacts DEF Whose, OfScript, ScriptMethods, RequestFields
    <2>2. Whose(api, AskTimes("QueryBundleStatsInfoByInterval", b, e))
        BY <1>s DEF ScriptMethods
    <2> QED BY <2>1, <2>2 DEF AskStatsInfos
<1>7. Mine(Old!QueryBundleStateInfoByInterval(argv))
    <2>1. \A api : Whose(api, Ask("QueryBundleStatsInfoByInterval"))
        BY <1>s DEF ScriptMethods
    <2> QED BY <1>6, <2>1, OldCall, OldBasics, Zenon DEF Old!QueryBundleStateInfoByInterval
<1>8. Mine(Old!QueryBundleStateInfos(argv))
    BY <1>6, OldCall, OldBasics, Zenon DEF Old!QueryBundleStateInfos
<1> QED BY <1>1, <1>2, <1>4, <1>5, <1>7, <1>8 DEF Old!Calls

-----------------------------------------------------------------------------
(* The answers of the service                                              *)

AnswerFields == {"ret", "core", "rows", "found"}

\* An answer to a request of a user: the core is asked about this user, if at all, and no
\* parameter is refused when they are right.
Passed(r, answer) == answer.ret \in ParameterErrors => r.begin > Now
Suits(r, answer) ==
    /\ DOMAIN answer = AnswerFields
    /\ answer.core = NoCore \/ answer.core.userId = r.userId
    /\ InOrder(r) => Passed(r, answer)

LEMMA ErrorSuits ==
    ASSUME NEW r, NEW ret, InOrder(r) => ret \notin ParameterErrors
    PROVE  Suits(r, Error(ret))
<1>1. /\ DOMAIN Error(ret) = AnswerFields /\ Error(ret).ret = ret /\ Error(ret).core = NoCore
    BY DEF Error, Answer, AnswerFields
<1> QED BY <1>1 DEF Suits, Passed

\* A request that reaches the core, with other parameters that are of no account.
LEMMA AnswerSuits ==
    ASSUME NEW r, NEW core, core.userId = r.userId, NEW rows
    PROVE  Suits(r, Answer("ERR_OK", core, rows))
<1>1. LET a == Answer("ERR_OK", core, rows)
      IN  DOMAIN a = AnswerFields /\ a.ret = "ERR_OK" /\ a.core = core
    BY DEF Answer, AnswerFields
<1>2. "ERR_OK" \notin ParameterErrors
    BY DEF ParameterErrors
<1> QED BY <1>1, <1>2 DEF Suits, Passed

LEMMA FoundSuits ==
    ASSUME NEW r, NEW answer, Suits(r, answer), NEW found
    PROVE  Suits(r, [answer EXCEPT !.found = found])
BY DEF Suits, Passed, AnswerFields

\* Permission errors are of no parameter.
LEMMA AllowedSuits ==
    ASSUME NEW r, NEW q, NEW caller, NEW answers, \A answer \in answers : Suits(r, answer)
    PROVE  /\ \A answer \in Allowed(q, caller, answers) : Suits(r, answer)
           /\ \A answer \in SystemApp(caller, answers) : Suits(r, answer)
<1> DEFINE check == CheckSystemAppOrNativePermission(caller)
<1>1. check \in {"ERR_NOT_SYSTEM_APP", "ERR_PERMISSION_DENIED", "ERR_OK"}
    <2>1. CheckBundleIsSystemAppAndHasPermission(caller)
            \in {"ERR_NOT_SYSTEM_APP", "ERR_PERMISSION_DENIED", "ERR_OK"}
        BY Zenon DEF CheckBundleIsSystemAppAndHasPermission
    <2>2. CheckNativePermission(caller) \in {"ERR_PERMISSION_DENIED", "ERR_OK"}
        BY DEF CheckNativePermission
    <2> QED BY <2>1, <2>2 DEF CheckSystemAppOrNativePermission
<1>2. {"ERR_NOT_SYSTEM_APP", "ERR_PERMISSION_DENIED", "ERR_OK"} \cap ParameterErrors = {}
    BY DEF ParameterErrors
<1> HIDE DEF check
<1>3. Suits(r, Error(check)) /\ Suits(r, Error("ERR_NOT_SYSTEM_APP"))
    BY <1>1, <1>2, ErrorSuits
<1> QED BY <1>3 DEF Allowed, Permitted, SystemApp, check

\* What the core makes of a request.
LEMMA CoreSuits ==
    ASSUME NEW r
    PROVE  /\ \A core : core.userId = r.userId => \A answer \in CoreOther(core) : Suits(r, answer)
           /\ r.method \in EventMethods =>
                \A core : core.userId = r.userId /\ core.begin = r.begin /\ core.end = r.end =>
                    \A answer \in CoreEvents(core) : Suits(r, answer)
           /\ r.method = "QueryBundleStatsInfoByInterval" =>
                \A core : /\ core.userId = r.userId /\ core.begin = r.begin /\ core.end = r.end
                          /\ InOrder(r) => core.interval \in 0 .. PERIOD_BEST_SERVICE
                          => \A answer \in CoreStatsInfos(core) : Suits(r, answer)
<1>1. ASSUME NEW core, core.userId = r.userId
      PROVE  \A answer \in CoreOther(core) : Suits(r, answer)
    BY <1>1, AnswerSuits DEF CoreOther
<1>2. ASSUME NEW core, core.begin = r.begin, core.end = r.end, InOrder(r), ~CoreTimes(core),
             r.method \in EventMethods \cup {"QueryBundleStatsInfoByInterval"}
      PROVE  r.begin > Now
    BY <1>2, ParametersAssumption DEF CoreTimes, InOrder, EventMethods
<1>3. ASSUME NEW core, core.begin = r.begin, core.end = r.end, ~CoreTimes(core),
             r.method \in EventMethods \cup {"QueryBundleStatsInfoByInterval"}
      PROVE  Suits(r, Error("ERR_QUERY_TIME_OUT_OF_RANGE"))
    <2>1. DOMAIN Error("ERR_QUERY_TIME_OUT_OF_RANGE") = AnswerFields
          /\ Error("ERR_QUERY_TIME_OUT_OF_RANGE").core = NoCore
        BY DEF Error, Answer, AnswerFields
    <2> QED BY <1>2, <1>3, <2>1 DEF Suits, Passed
<1>4. ASSUME NEW core, core.userId = r.userId, core.begin = r.begin, core.end = r.end,
             r.method \in EventMethods
      PROVE  \A answer \in CoreEvents(core) : Suits(r, answer)
    BY <1>3, <1>4, AnswerSuits DEF CoreEvents
<1>5. ASSUME NEW core, core.userId = r.userId, core.begin = r.begin, core.end = r.end,
             InOrder(r) => core.interval \in 0 .. PERIOD_BEST_SERVICE,
             r.method = "QueryBundleStatsInfoByInterval"
      PROVE  \A answer \in CoreStatsInfos(core) : Suits(r, answer)
    <2> DEFINE ok == core.interval \in 0 .. PERIOD_BEST_SERVICE
    <2>1. CASE ~CoreTimes(core)
        <3>1. CoreStatsInfos(core) = {Error("ERR_QUERY_TIME_OUT_OF_RANGE")}
            BY <2>1, Zenon DEF CoreStatsInfos
        <3> QED BY <1>3, <1>5, <2>1, <3>1
    <2>2. CASE CoreTimes(core) /\ ~ok
        <3>1. CoreStatsInfos(core) = {Error("ERR_USAGE_STATS_INTERVAL_NUMBER")}
            BY <2>2, Zenon DEF CoreStatsInfos
        <3> QED BY <1>5, <2>2, <3>1, ErrorSuits
    <2>3. CASE CoreTimes(core) /\ ok
        <3>1. CoreStatsInfos(core) = {Answer("ERR_OK", core, rows) : rows \in Findings}
            BY <2>3, Zenon DEF CoreStatsInfos
        <3> QED BY <1>5, <3>1, AnswerSuits
    <2> QED BY <2>1, <2>2, <2>3
<1> QED BY <1>1, <1>4, <1>5

LEMMA IntervalIsKnown ==
    ASSUME NEW i \in 0 .. 4 PROVE ConvertIntervalType(i) \in 0 .. PERIOD_BEST_SERVICE
<1>1. CASE i = 0
    <2>1. ConvertIntervalType(i) = PERIOD_BEST_SERVICE
        <3>1. ~(i \in 1 .. 4)
            BY <1>1
        <3> QED BY <1>1, <3>1, Zenon DEF ConvertIntervalType
    <2> QED BY <2>1 DEF PERIOD_BEST_SERVICE
<1>2. CASE i # 0
    <2>1. i \in 1 .. 4
        BY <1>2
    <2>2. ConvertIntervalType(i) = i - 1
        BY <1>2, <2>1, Zenon DEF ConvertIntervalType
    <2> QED BY <2>1, <2>2 DEF PERIOD_BEST_SERVICE
<1> QED BY <1>1, <1>2

\* The calls, once the user is known.
LEMMA UserAnswers ==
    ASSUME NEW r, OfScript(r), NEW caller, NEW answer \in AsUser(r, caller)
    PROVE  Suits(r, answer)
<1>n. ASSUME NEW name
      PROVE  LET q == [r EXCEPT !.bundleName = name]
             IN  q.userId = r.userId /\ q.begin = r.begin /\ q.end = r.end
    BY DEF OfScript, RequestFields
<1>e. \A ret \in {"ERR_OK", "ERR_PERMISSION_DENIED"} : Suits(r, Error(ret))
    BY ErrorSuits DEF ParameterErrors
<1>o. \A a \in CoreOther(r) : Suits(r, a)
    BY CoreSuits
<1>1. \A a \in IsBundleIdle(r, caller) : Suits(r, a)
    BY <1>o, AllowedSuits DEF IsBundleIdle
<1>2. ASSUME r.method = "QueryBundleStatsInfoByInterval"
      PROVE  \A a \in QueryBundleStatsInfoByInterval(r, caller) : Suits(r, a)
    <2> DEFINE i == ConvertIntervalType(r.interval)
               q == [r EXCEPT !.interval = i]
               merged == {[a EXCEPT !.found = MergePackageStats(WithIndex(@))] : a \in CoreStatsInfos(q)}
    <2>1. q.userId = r.userId /\ q.begin = r.begin /\ q.end = r.end /\ q.interval = i
        BY DEF OfScript, RequestFields
    <2>2. InOrder(r) => i \in 0 .. PERIOD_BEST_SERVICE
        BY <1>2, IntervalIsKnown DEF InOrder
    <2> HIDE DEF q, i
    <2>3. \A a \in CoreStatsInfos(q) : Suits(r, a)
        BY <1>2, <2>1, <2>2, CoreSuits
    <2>4. \A a \in merged : Suits(r, a)
        BY <2>3, FoundSuits
    <2>5. QueryBundleStatsInfoByInterval(r, caller) = Allowed(r, caller, merged)
        BY DEF QueryBundleStatsInfoByInterval, q, i
    <2> HIDE DEF merged
    <2> QED BY <2>4, <2>5, AllowedSuits
<1>3. ASSUME r.method \in EventMethods
      PROVE  /\ \A a \in QueryBundleEvents(r, caller) : Suits(r, a)
             /\ \A a \in QueryCurrentBundleEvents(r, caller) : Suits(r, a)
    <2>1. \A a \in CoreEvents(r) : Suits(r, a)
        BY <1>3, CoreSuits
    <2> DEFINE q == [r EXCEPT !.bundleName = caller.name]
    <2>2. q.userId = r.userId /\ q.begin = r.begin /\ q.end = r.end
        BY <1>n
    <2>c. QueryCurrentBundleEvents(r, caller) \in {{Error("ERR_OK")}, SystemApp(caller, CoreEvents(q))}
        BY DEF QueryCurrentBundleEvents
    <2> HIDE DEF q
    <2>3. \A a \in CoreEvents(q) : Suits(r, a)
        BY <1>3, <2>2, CoreSuits
    <2> QED BY <1>e, <2>1, <2>3, <2>c, AllowedSuits DEF QueryBundleEvents
<1>4. \A a \in SetAppGroup(r, caller) : Suits(r, a)
    BY <1>e, <1>o, AllowedSuits DEF SetAppGroup
<1>5. \A a \in QueryAppGroup(r, caller) : Suits(r, a)
    <2> DEFINE q == [r EXCEPT !.bundleName = caller.name]
    <2>1. q.userId = r.userId
        BY <1>n
    <2>c. QueryAppGroup(r, caller) \in {SystemApp(caller, CoreOther(q)), Allowed(r, caller, CoreOther(r))}
        BY DEF QueryAppGroup
    <2> HIDE DEF q
    <2>2. \A a \in CoreOther(q) : Suits(r, a)
        BY <2>1, CoreSuits
    <2> QED BY <1>o, <2>2, <2>c, AllowedSuits
<1>6. \A a \in QueryForUser(r, caller) : Suits(r, a)
    BY <1>o, AllowedSuits DEF QueryForUser
<1>7. CASE r.method = "IsBundleIdle"
    <2>1. AsUser(r, caller) = IsBundleIdle(r, caller)
        BY <1>7, Zenon DEF AsUser
    <2> QED BY <1>1, <2>1
<1>8. CASE r.method = "QueryBundleStatsInfoByInterval"
    <2>1. AsUser(r, caller) = QueryBundleStatsInfoByInterval(r, caller)
        BY <1>8, Zenon DEF AsUser
    <2> QED BY <1>2, <1>8, <2>1
<1>9. CASE r.method = "QueryBundleEvents"
    <2>1. AsUser(r, caller) = QueryBundleEvents(r, caller)
        BY <1>9, Zenon DEF AsUser
    <2> QED BY <1>3, <1>9, <2>1 DEF EventMethods
<1>10. CASE r.method = "QueryCurrentBundleEvents"
    <2>1. AsUser(r, caller) = QueryCurrentBundleEvents(r, caller)
        BY <1>10, Zenon DEF AsUser
    <2> QED BY <1>3, <1>10, <2>1 DEF EventMethods
<1>11. CASE r.method = "SetAppGroup"
    <2>1. AsUser(r, caller) = SetAppGroup(r, caller)
        BY <1>11, Zenon DEF AsUser
    <2> QED BY <1>4, <2>1
<1>12. CASE r.method = "QueryAppGroup"
    <2>1. AsUser(r, caller) = QueryAppGroup(r, caller)
        BY <1>12, Zenon DEF AsUser
    <2> QED BY <1>5, <2>1
<1>13. CASE r.method \in {"none", "QueryModuleUsageRecords", "QueryDeviceEventStats",
                         "QueryNotificationEventStats"}
    <2>1. AsUser(r, caller) = QueryForUser(r, caller)
        BY <1>13, Zenon DEF AsUser
    <2> QED BY <1>6, <2>1
<1> QED BY <1>7, <1>8, <1>9, <1>10, <1>11, <1>12, <1>13 DEF OfScript, ScriptMethods

\* An answer to a request, with the user found by the account of the caller.
AnswerTo(r, caller, answer) ==
    /\ DOMAIN answer = AnswerFields
    /\ answer.core = NoCore \/ answer.core.userId = GetUserId(r, caller)
    /\ InOrder(r) => Passed(r, answer)

LEMMA PerformAnswers ==
    ASSUME NEW r, OfScript(r), NEW caller, NEW answer \in Perform(r, caller)
    PROVE  AnswerTo(r, caller, answer)
<1> DEFINE q == ForUser(r, caller)
<1>1. /\ OfScript(q) /\ q.userId = GetUserId(r, caller) /\ q.begin = r.begin
      /\ InOrder(r) => InOrder(q)
    <2> DEFINE u == GetUserId(r, caller)
    <2> HIDE DEF u
    <2> QED BY DEF OfScript, RequestFields, ForUser, InOrder, u
<1> HIDE DEF q
<1>2. \A a : Suits(q, a) => AnswerTo(r, caller, a)
    BY <1>1 DEF Suits, AnswerTo, Passed
<1>3. ASSUME NEW ret, InOrder(r) => ret \notin ParameterErrors
      PROVE  AnswerTo(r, caller, Error(ret))
    <2>1. DOMAIN Error(ret) = AnswerFields /\ Error(ret).ret = ret /\ Error(ret).core = NoCore
        BY DEF Error, Answer, AnswerFields
    <2> QED BY <1>3, <2>1 DEF AnswerTo, Passed
<1>4. CASE MaxNumRefused(r)
    <2>1. Perform(r, caller) = {Error("ERR_MAX_RECORDS_NUM_BIGER_THEN_ONE_THOUSAND")}
        <3>1. /\ r.method # "QueryHighFrequencyUsageBundleInfos" /\ r.method # "IsBundleUsePeriod"
            BY DEF OfScript, ScriptMethods
        <3> QED BY <1>4, <3>1, Zenon DEF Perform
    <2>2. ~InOrder(r)
        BY <1>4 DEF MaxNumRefused, InOrder, EventMethods
    <2> QED BY <1>3, <2>1, <2>2
<1>5. CASE ~MaxNumRefused(r)
    <2>0. /\ r.method # "QueryHighFrequencyUsageBundleInfos" /\ r.method # "IsBundleUsePeriod"
        BY DEF OfScript, ScriptMethods
    <2>1. Perform(r, caller) = IF GetUserId(r, caller) < 0 THEN {Error(NoUserAnswer(r, caller))}
                               ELSE AsUser(q, caller)
        BY <1>5, <2>0, Zenon DEF Perform, q
    <2>2. NoUserAnswer(r, caller) \in {"ERR_SYSTEM_ABILITY_SUPPORT_FAILED", "ERR_ACCOUNT", "ERR_OK"}
        BY Zenon DEF NoUserAnswer
    <2>3. AnswerTo(r, caller, Error(NoUserAnswer(r, caller)))
        BY <1>3, <2>2 DEF ParameterErrors
    <2>4. \A a \in AsUser(q, caller) : AnswerTo(r, caller, a)
        BY <1>1, <1>2, UserAnswers
    <2> QED BY <2>1, <2>3, <2>4
<1> QED BY <1>4, <1>5

-----------------------------------------------------------------------------
(* The front time of rows                                                  *)

\* A set of natural numbers with a member has a least one.
LEMMA Least ==
    ASSUME NEW S, S \subseteq Nat, S # {}
    PROVE  \E n \in S : \A m \in S : n <= m
<1> DEFINE R == {p \in Nat \X Nat : p[1] < p[2]}
<1>1. IsWellFoundedOn(R, Nat)
    BY NatLessThanWellFounded DEF OpToRel
<1>2. \A m, n \in Nat : <<m, n>> \in R <=> m < n
    OBVIOUS
<1> HIDE DEF R
<1>3. PICK n \in S : \A m \in S : ~ (<<m, n>> \in R)
    BY <1>1, WFMin
<1>4. \A m \in S : n <= m
    <2> TAKE m \in S
    <2>1. ~(m < n)
        BY <1>2, <1>3
    <2> QED BY <2>1
<1> QED BY <1>4

\* What holds of the empty set, and of a set with one more element when it holds of the
\* set, holds of every finite set.
LEMMA SetInduction ==
    ASSUME NEW S, IsFiniteSet(S), NEW P, {} \in P,
           \A T \in SUBSET S : \A x \in S \ T : T \in P => T \cup {x} \in P
    PROVE  S \in P
<1> SUFFICES ASSUME S \notin P PROVE FALSE
    OBVIOUS
<1> DEFINE sizes == {Cardinality(T) : T \in (SUBSET S) \ P}
<1>1. \A T \in SUBSET S : IsFiniteSet(T) /\ Cardinality(T) \in Nat
    BY FS_Subset, FS_CardinalityType
<1>2. sizes \subseteq Nat /\ sizes # {}
    BY <1>1
<1>3. PICK T \in (SUBSET S) \ P : \A U \in (SUBSET S) \ P : Cardinality(T) <= Cardinality(U)
    <2>1. PICK n \in sizes : \A m \in sizes : n <= m
        BY <1>2, Least
    <2> QED BY <2>1
<1>4. PICK x \in T : TRUE
    BY <1>3
<1> DEFINE U == T \ {x}
<1>5. U \in SUBSET S /\ x \in S \ U /\ T = U \cup {x}
    BY <1>3, <1>4
<1>6. Cardinality(U) = Cardinality(T) - 1 /\ Cardinality(T) \in Nat
    BY <1>1, <1>3, <1>4, FS_RemoveElement
<1>7. U \in P
    BY <1>1, <1>3, <1>5, <1>6
<1> QED BY <1>3, <1>5, <1>7

-----------------------------------------------------------------------------
\* The front time of rows is defined by a function of their subsets that takes one chosen
\* row after another.
Chosen(t) == CHOOSE x \in t : TRUE
Sums(it, D) ==
    it = [t \in SUBSET D |-> IF t = {} THEN 0 ELSE Chosen(t).front + it[t \ {Chosen(t)}]]

\* MapThenSumSet, of the front times, is the value of this function at all rows.
LEMMA FrontTimeIs ==
    ASSUME NEW S
    PROVE  FrontTime(S) = (CHOOSE it : Sums(it, S))[S]
BY Zenon DEF FrontTime, MapThenSumSet, MapThenFoldSet, Sums, Chosen

SumOf(it, t) == IF t = {} THEN 0 ELSE Chosen(t).front + it[t \ {Chosen(t)}]

\* The chosen row is one of them.
LEMMA ChosenIn == ASSUME NEW t, t # {} PROVE Chosen(t) \in t
BY DEF Chosen

\* There is such a function, ...
LEMMA SumsExist ==
    ASSUME NEW S, IsFiniteSet(S) PROVE \E it : Sums(it, S)
<1> DEFINE Up(n) == \E it : /\ it = [t \in SUBSET S |-> it[t]]
                            /\ \A t \in SUBSET S : Cardinality(t) <= n => it[t] = SumOf(it, t)
           bad == {n \in Nat : ~Up(n)}
<1>1. \A t \in SUBSET S : IsFiniteSet(t) /\ Cardinality(t) \in Nat
    BY FS_Subset, FS_CardinalityType
<1>2. \A t \in SUBSET S : t # {} => /\ t \ {Chosen(t)} \in SUBSET S
                                    /\ Cardinality(t \ {Chosen(t)}) = Cardinality(t) - 1
    BY <1>1, ChosenIn, FS_RemoveElement
<1>3. \A t \in SUBSET S : Cardinality(t) = 0 <=> t = {}
    BY <1>1, FS_EmptySet
<1>4. Up(0)
    <2> DEFINE it == [t \in SUBSET S |-> 0]
    <2>1. it = [t \in SUBSET S |-> it[t]]
        OBVIOUS
    <2>2. \A t \in SUBSET S : Cardinality(t) <= 0 => it[t] = SumOf(it, t)
        BY <1>1, <1>3 DEF SumOf
    <2> HIDE DEF it
    <2> QED BY <2>1, <2>2
<1>5. ASSUME NEW n \in Nat, Up(n) PROVE Up(n + 1)
    <2>1. PICK it : /\ it = [t \in SUBSET S |-> it[t]]
                    /\ \A t \in SUBSET S : Cardinality(t) <= n => it[t] = SumOf(it, t)
        BY <1>5
    <2> DEFINE jt == [t \in SUBSET S |-> IF Cardinality(t) <= n THEN it[t] ELSE SumOf(it, t)]
    <2>2. \A t \in SUBSET S : Cardinality(t) <= n => jt[t] = it[t]
        OBVIOUS
    <2>3. \A t \in SUBSET S : Cardinality(t) <= n + 1 => jt[t] = SumOf(it, t)
        BY <2>1
    <2>4. jt = [t \in SUBSET S |-> jt[t]]
        OBVIOUS
    <2> HIDE DEF jt
    <2>5. \A t \in SUBSET S : Cardinality(t) <= n + 1 => SumOf(it, t) = SumOf(jt, t)
        <3> TAKE t \in SUBSET S
        <3> SUFFICES ASSUME Cardinality(t) <= n + 1, t # {}
                     PROVE  it[t \ {Chosen(t)}] = jt[t \ {Chosen(t)}]
            BY DEF SumOf
        <3> DEFINE u == t \ {Chosen(t)}
        <3>1. u \in SUBSET S /\ Cardinality(u) <= n
            BY <1>1, <1>2
        <3> HIDE DEF u
        <3>2. it[u] = jt[u]
            BY <2>2, <3>1
        <3> QED BY <3>2 DEF u
    <2> QED BY <2>3, <2>4, <2>5
<1> HIDE DEF Up
<1>6. bad = {}
    <2> SUFFICES ASSUME bad # {} PROVE FALSE
        OBVIOUS
    <2>1. PICK n \in bad : \A m \in bad : n <= m
        BY Least
    <2>2. n # 0 /\ n - 1 \in Nat
        BY <1>4
    <2>3. Up(n - 1)
        BY <2>1, <2>2
    <2>4. Up((n - 1) + 1)
        BY <1>5, <2>2, <2>3
    <2>5. (n - 1) + 1 = n
        OBVIOUS
    <2> QED BY <2>4, <2>5
<1>7. Cardinality(S) \in Nat /\ \A t \in SUBSET S : Cardinality(t) <= Cardinality(S)
    BY <1>1, FS_Subset
<1>8. PICK it : /\ it = [t \in SUBSET S |-> it[t]]
                /\ \A t \in SUBSET S : Cardinality(t) <= Cardinality(S) => it[t] = SumOf(it, t)
    BY <1>6, <1>7 DEF Up
<1>9. it = [t \in SUBSET S |-> SumOf(it, t)]
    BY <1>7, <1>8
<1> QED BY <1>9, Zenon DEF Sums, SumOf

\* ... and any two agree.
LEMMA SumsAgree ==
    ASSUME NEW S, IsFiniteSet(S), NEW D, NEW E, S \subseteq D, S \subseteq E,
           NEW it, NEW jt, Sums(it, D), Sums(jt, E)
    PROVE  it[S] = jt[S]
<1> DEFINE bad == {n \in Nat : \E t \in SUBSET S : Cardinality(t) = n /\ it[t] # jt[t]}
<1>1. \A t \in SUBSET S : IsFiniteSet(t) /\ Cardinality(t) \in Nat
    BY FS_Subset, FS_CardinalityType
<1>2. \A t \in SUBSET S : it[t] = SumOf(it, t) /\ jt[t] = SumOf(jt, t)
    <2> TAKE t \in SUBSET S
    <2>1. t \in SUBSET D /\ t \in SUBSET E
        OBVIOUS
    <2> QED BY <2>1 DEF Sums, SumOf
<1> SUFFICES ASSUME bad # {} PROVE FALSE
    BY <1>1
<1>3. PICK n \in bad : \A m \in bad : n <= m
    BY Least
<1>4. PICK t \in SUBSET S : Cardinality(t) = n /\ it[t] # jt[t]
    OBVIOUS
<1>5. t # {}
    BY <1>2, <1>4 DEF SumOf
<1> DEFINE u == t \ {Chosen(t)}
<1>6. u \in SUBSET S /\ Cardinality(u) = n - 1 /\ Cardinality(u) \in Nat
    BY <1>1, <1>4, <1>5, ChosenIn, FS_RemoveElement
<1>7. it[u] = jt[u]
    BY <1>3, <1>6
<1> QED BY <1>2, <1>4, <1>5, <1>7 DEF SumOf

\* The front time of some rows is that of one of them and of the others.
LEMMA SumStep ==
    ASSUME NEW S, IsFiniteSet(S)
    PROVE  /\ S = {} => FrontTime(S) = 0
           /\ S # {} => FrontTime(S) = Chosen(S).front + FrontTime(S \ {Chosen(S)})
<1> DEFINE it == CHOOSE f : Sums(f, S)
           U == S \ {Chosen(S)}
           jt == CHOOSE f : Sums(f, U)
<1>1. IsFiniteSet(U)
    BY FS_RemoveElement
<1>2. Sums(it, S) /\ Sums(jt, U)
    BY <1>1, SumsExist
<1>3. FrontTime(S) = it[S] /\ FrontTime(U) = jt[U]
    BY FrontTimeIs
<1> HIDE DEF it, jt
<1>4. it[U] = jt[U]
    BY <1>1, <1>2, SumsAgree
<1>5. it[S] = SumOf(it, S)
    <2>1. S \in SUBSET S
        OBVIOUS
    <2> QED BY <1>2, <2>1 DEF Sums, SumOf
<1> QED BY <1>3, <1>4, <1>5 DEF SumOf

\* A finite set of rows.
Counted(S) == IsFiniteSet(S) /\ \A row \in S : row.front \in Int

\* So is each part of it.
LEMMA SubsetCounted == ASSUME NEW S, Counted(S), NEW T \in SUBSET S PROVE Counted(T)
BY FS_Subset DEF Counted

\* The front time of rows is a number.
LEMMA SumInt == ASSUME NEW S, Counted(S) PROVE FrontTime(S) \in Int
<1> DEFINE bad == {n \in Nat : \E t \in SUBSET S : Cardinality(t) = n /\ FrontTime(t) \notin Int}
<1>1. \A t \in SUBSET S : IsFiniteSet(t) /\ Cardinality(t) \in Nat
    BY FS_Subset, FS_CardinalityType DEF Counted
<1> SUFFICES ASSUME bad # {} PROVE FALSE
    BY <1>1
<1>2. PICK n \in bad : \A m \in bad : n <= m
    BY Least
<1>3. PICK t \in SUBSET S : Cardinality(t) = n /\ FrontTime(t) \notin Int
    OBVIOUS
<1>4. t # {}
    <2>1. FrontTime({}) = 0
        BY SumStep, FS_EmptySet
    <2> QED BY <1>3, <2>1
<1> DEFINE u == t \ {Chosen(t)}
<1>5. u \in SUBSET S /\ Cardinality(u) = n - 1 /\ Cardinality(u) \in Nat
    BY <1>1, <1>3, <1>4, ChosenIn, FS_RemoveElement
<1>6. FrontTime(u) \in Int
    BY <1>2, <1>5
<1>7. Chosen(t).front \in Int
    BY <1>4, ChosenIn DEF Counted
<1> QED BY <1>1, <1>3, <1>4, <1>6, <1>7, SumStep

\* It does not matter which row is taken.
LEMMA SumAdd ==
    ASSUME NEW S, Counted(S), NEW row \in S
    PROVE  FrontTime(S) = row.front + FrontTime(S \ {row})
<1> DEFINE Off(t) == \E x \in t : FrontTime(t) # x.front + FrontTime(t \ {x})
           bad == {n \in Nat : \E t \in SUBSET S : Cardinality(t) = n /\ Off(t)}
<1>1. \A t \in SUBSET S : /\ IsFiniteSet(t) /\ Cardinality(t) \in Nat /\ FrontTime(t) \in Int
                          /\ \A x \in t : /\ x.front \in Int /\ t \ {x} \in SUBSET S
                                          /\ Cardinality(t \ {x}) = Cardinality(t) - 1
    BY SubsetCounted, SumInt, FS_CardinalityType, FS_RemoveElement DEF Counted
<1> SUFFICES ASSUME bad # {} PROVE FALSE
    BY <1>1
<1>2. PICK n \in bad : \A m \in bad : n <= m
    BY Least
<1>3. PICK t \in SUBSET S : Cardinality(t) = n /\ Off(t)
    OBVIOUS
<1>4. PICK x \in t : FrontTime(t) # x.front + FrontTime(t \ {x})
    BY <1>3
<1> DEFINE y == Chosen(t)
<1>5. y \in t /\ FrontTime(t) = y.front + FrontTime(t \ {y})
    BY <1>1, <1>4, ChosenIn, SumStep
<1>6. x # y
    BY <1>4, <1>5
<1> HIDE DEF y
<1> DEFINE u == t \ {x}
           v == t \ {y}
<1>7. u \in SUBSET S /\ v \in SUBSET S /\ Cardinality(u) = n - 1 /\ Cardinality(v) = n - 1
    BY <1>1, <1>3, <1>4, <1>5
<1>8. n - 1 \in Nat
    BY <1>1, <1>7
<1>9. ~Off(u) /\ ~Off(v)
    <2>1. n - 1 \notin bad
        <3>1. n \in Nat
            BY <1>2
        <3> HIDE DEF bad
        <3> QED BY <1>2, <3>1
    <2> QED BY <1>7, <1>8, <2>1
<1>10. y \in u /\ x \in v /\ u \ {y} = v \ {x}
    BY <1>4, <1>5, <1>6
<1>11. FrontTime(u) = y.front + FrontTime(u \ {y}) /\ FrontTime(v) = x.front + FrontTime(v \ {x})
    BY <1>9, <1>10
<1>12. x.front \in Int /\ y.front \in Int /\ FrontTime(u \ {y}) \in Int
    BY <1>1, <1>4, <1>5, <1>7, <1>10
<1> HIDE DEF u, v
<1>13. FrontTime(t) = y.front + FrontTime(v) /\ FrontTime(t) # x.front + FrontTime(u)
    BY <1>4, <1>5 DEF u, v
<1> QED BY <1>10, <1>11, <1>12, <1>13

\* The front time of two sets of rows with none in common is that of both.
LEMMA SumUnion ==
    ASSUME NEW A, Counted(A), NEW B, Counted(B), A \cap B = {}
    PROVE  FrontTime(A \cup B) = FrontTime(A) + FrontTime(B)
<1> DEFINE P == {T \in SUBSET B : FrontTime(A \cup T) = FrontTime(A) + FrontTime(T)}
<1>0. Counted(A \cup B)
    BY FS_Union DEF Counted
<1>1. {} \in P
    <2>1. A \cup {} = A /\ {} \in SUBSET B
        OBVIOUS
    <2>2. FrontTime({}) = 0 /\ FrontTime(A) \in Int
        BY SumStep, SumInt, FS_EmptySet
    <2> QED BY <2>1, <2>2
<1>2. ASSUME NEW T \in SUBSET B, NEW x \in B \ T, T \in P PROVE T \cup {x} \in P
    <2> DEFINE U == T \cup {x}
    <2>1. /\ U \in SUBSET B /\ A \cup U \in SUBSET (A \cup B) /\ A \in SUBSET (A \cup B)
          /\ x \in U /\ x \in A \cup U /\ U \ {x} = T /\ (A \cup U) \ {x} = A \cup T
        OBVIOUS
    <2>2. Counted(U) /\ Counted(A \cup U) /\ Counted(T)
        BY <1>0, <2>1, SubsetCounted
    <2>3. /\ FrontTime(U) = x.front + FrontTime(T)
          /\ FrontTime(A \cup U) = x.front + FrontTime(A \cup T)
        BY <2>1, <2>2, SumAdd
    <2>4. x.front \in Int /\ FrontTime(T) \in Int /\ FrontTime(A) \in Int
        BY <2>2, SumInt DEF Counted
    <2> QED BY <1>2, <2>1, <2>3, <2>4
<1>3. B \in P
    <2>1. \A T \in SUBSET B : \A x \in B \ T : T \in P => T \cup {x} \in P
        BY <1>2
    <2> HIDE DEF P
    <2> QED BY <1>1, <2>1, SetInduction DEF Counted
<1> QED BY <1>3

\* When rows are merged, part by part, each part to a row of its front time and no two to
\* the same, their front time stays.
LEMMA SumParts ==
    ASSUME NEW parts, IsFiniteSet(parts), NEW merged,
           \A p \in parts : Counted(p) /\ merged[p].front = FrontTime(p),
           \A p, q \in parts : p # q => p \cap q = {} /\ merged[p] # merged[q]
    PROVE  FrontTime({merged[p] : p \in parts}) = FrontTime(UNION parts)
<1> DEFINE Image(Q) == {merged[p] : p \in Q}
           P == {Q \in SUBSET parts : /\ Counted(Image(Q)) /\ Counted(UNION Q)
                                      /\ FrontTime(Image(Q)) = FrontTime(UNION Q)}
<1>1. {} \in P
    <2>1. Image({}) = {} /\ UNION {} = {} /\ {} \in SUBSET parts
        OBVIOUS
    <2>2. Counted({})
        BY FS_EmptySet DEF Counted
    <2> HIDE DEF Image
    <2> QED BY <2>1, <2>2
<1>2. ASSUME NEW Q \in SUBSET parts, NEW p \in parts \ Q, Q \in P PROVE Q \cup {p} \in P
    <2> DEFINE R == Q \cup {p}
               m == merged[p]
    <2>1. R \in SUBSET parts /\ Image(R) = Image(Q) \cup {m} /\ UNION R = (UNION Q) \cup p
        OBVIOUS
    <2>2. m \notin Image(Q) /\ (UNION Q) \cap p = {}
        OBVIOUS
    <2>3. Counted(Image(Q)) /\ Counted(UNION Q) /\ FrontTime(Image(Q)) = FrontTime(UNION Q)
        BY <1>2
    <2>4. Counted(p) /\ FrontTime(p) \in Int /\ m.front = FrontTime(p)
        BY SumInt
    <2> HIDE DEF Image, R, m, P
    <2>5. Counted(Image(R)) /\ Counted(UNION R)
        <3>1. Counted(Image(Q) \cup {m})
            BY <2>3, <2>4, FS_AddElement DEF Counted
        <3>2. Counted((UNION Q) \cup p)
            BY <2>3, <2>4, FS_Union DEF Counted
        <3> QED BY <2>1, <3>1, <3>2
    <2>6. FrontTime(Image(R)) = m.front + FrontTime(Image(Q))
        <3>1. m \in Image(R) /\ Image(R) \ {m} = Image(Q)
            BY <2>1, <2>2
        <3> QED BY <2>5, <3>1, SumAdd
    <2>7. FrontTime(UNION R) = FrontTime(UNION Q) + FrontTime(p)
        BY <2>1, <2>2, <2>3, <2>4, SumUnion
    <2>8. FrontTime(UNION Q) \in Int
        BY <2>3, SumInt
    <2>9. FrontTime(Image(R)) = FrontTime(UNION R)
        BY <2>3, <2>4, <2>6, <2>7, <2>8
    <2> QED BY <2>1, <2>5, <2>9 DEF P, R
<1>3. parts \in P
    <2>1. \A Q \in SUBSET parts : \A p \in parts \ Q : Q \in P => Q \cup {p} \in P
        BY <1>2
    <2> HIDE DEF P
    <2> QED BY <1>1, <2>1, SetInduction
<1> QED BY <1>3

-----------------------------------------------------------------------------
\* Finitely many rows give finitely many of whatever is made of each.
LEMMA ImageFinite ==
    ASSUME NEW S, IsFiniteSet(S), NEW f, f = [x \in S |-> f[x]]
    PROVE  IsFiniteSet({f[x] : x \in S})
<1>1. f \in Surjection(S, {f[x] : x \in S})
    BY Zenon DEF Surjection
<1> QED BY <1>1, FS_Surjection

\* Rows with one key are of one part.
Part(S, key, k) == {row \in S : key[row] = k}

\* Merging by a key that the merged row keeps.
LEMMA SumByKey ==
    ASSUME NEW S, Counted(S), NEW key, NEW merge, NEW kept,
           \A one \in S : LET p == Part(S, key, key[one])
                          IN  merge[p].front = FrontTime(p) /\ kept[merge[p]] = key[one]
    PROVE  FrontTime({merge[Part(S, key, key[one])] : one \in S}) = FrontTime(S)
<1> DEFINE f == [one \in S |-> Part(S, key, key[one])]
           parts == {f[one] : one \in S}
<1>1. IsFiniteSet(parts)
    <2>1. f = [one \in S |-> f[one]]
        OBVIOUS
    <2> HIDE DEF f
    <2> QED BY <2>1, ImageFinite DEF Counted
<1>2. \A p \in parts : Counted(p) /\ merge[p].front = FrontTime(p)
    <2> TAKE p \in parts
    <2>1. p \in SUBSET S
        BY DEF Part
    <2> QED BY <2>1, SubsetCounted
<1>3. \A p, q \in parts : p # q => p \cap q = {} /\ merge[p] # merge[q]
    <2> SUFFICES ASSUME NEW p \in parts, NEW q \in parts, p # q
                 PROVE  p \cap q = {} /\ merge[p] # merge[q]
        OBVIOUS
    <2>1. PICK one \in S, other \in S :
            p = Part(S, key, key[one]) /\ q = Part(S, key, key[other])
        OBVIOUS
    <2>2. key[one] # key[other]
        BY <2>1
    <2>3. p \cap q = {}
        BY <2>1, <2>2 DEF Part
    <2>4. kept[merge[p]] = key[one] /\ kept[merge[q]] = key[other]
        BY <2>1
    <2> QED BY <2>2, <2>3, <2>4
<1>4. UNION parts = S
    BY DEF Part
<1>5. {merge[Part(S, key, key[one])] : one \in S} = {merge[p] : p \in parts}
    OBVIOUS
<1> HIDE DEF parts
<1>6. FrontTime({merge[p] : p \in parts}) = FrontTime(UNION parts)
    BY <1>1, <1>2, <1>3, SumParts
<1> QED BY <1>4, <1>5, <1>6

-----------------------------------------------------------------------------
\* Rows as they come from the core, and with the index of their application.
RowFields == {"bundle", "uid", "day", "front"}
Found(S) ==
    IsFiniteSet(S) /\ S \subseteq [bundle : STRING, uid : Int, day : Int, front : Int]
Indexed(S) ==
    /\ IsFiniteSet(S)
    /\ \A row \in S : /\ DOMAIN row = RowFields \cup {"appIndex"} /\ row = [x \in DOMAIN row |-> row[x]]
                      /\ row.uid \in Int /\ row.front \in Int /\ row.appIndex = AppIndex[row.uid]

\* Adding the index of the application changes no front time.
LEMMA WithIndexKeeps ==
    ASSUME NEW S, Found(S)
    PROVE  /\ Indexed(WithIndex(S)) /\ FrontTime(WithIndex(S)) = FrontTime(S)
           /\ \A w \in WithIndex(S) : \E row \in S : row.bundle = w.bundle /\ row.uid = w.uid
<1> DEFINE w(row) == [bundle |-> row.bundle, uid |-> row.uid, day |-> row.day,
                      front |-> row.front, appIndex |-> AppIndex[row.uid]]
           f == [row \in S |-> w(row)]
           key == [row \in S |-> row]
           merge == [p \in SUBSET S |-> f[Chosen(p)]]
           kept == [r \in {f[row] : row \in S} |->
                        [bundle |-> r.bundle, uid |-> r.uid, day |-> r.day, front |-> r.front]]
<1>1. WithIndex(S) = {f[row] : row \in S}
    BY DEF WithIndex
<1>2. Indexed(WithIndex(S))
    <2>1. IsFiniteSet({f[row] : row \in S})
        <3>1. f = [row \in S |-> f[row]]
            OBVIOUS
        <3> HIDE DEF f
        <3> QED BY <3>1, ImageFinite DEF Found
    <2>2. \A row \in S : /\ DOMAIN w(row) = RowFields \cup {"appIndex"}
                         /\ w(row).uid \in Int /\ w(row).front \in Int
                         /\ w(row).appIndex = AppIndex[w(row).uid]
        BY DEF Found, RowFields
    <2> QED BY <1>1, <2>1, <2>2 DEF Indexed
<1>3. Counted(S)
    BY DEF Counted, Found
<1>4. \A one \in S : Part(S, key, key[one]) = {one}
    BY DEF Part
<1>5. \A one \in S : merge[{one}] = f[one]
    <2> TAKE one \in S
    <2>1. Chosen({one}) = one
        BY ChosenIn
    <2> QED BY <2>1
<1>6. \A one \in S : FrontTime({one}) = one.front
    <2> TAKE one \in S
    <2>1. Counted({one}) /\ one \in {one} /\ one.front \in Int
        BY <1>3, SubsetCounted DEF Counted
    <2> DEFINE none == {one} \ {one}
    <2>2. none = {}
        OBVIOUS
    <2>3. FrontTime(none) = 0
        BY <2>2, SumStep, FS_EmptySet
    <2>4. FrontTime({one}) = one.front + FrontTime(none)
        BY <2>1, SumAdd
    <2> HIDE DEF none
    <2> QED BY <2>1, <2>3, <2>4
<1>7. \A one \in S : f[one].front = one.front /\ kept[f[one]] = one
    BY DEF Found
<1>8. \A one \in S : key[one] = one
    OBVIOUS
<1> HIDE DEF f, merge, key, kept
<1>9. {merge[Part(S, key, key[one])] : one \in S} = {f[one] : one \in S}
    BY <1>4, <1>5
<1>10. \A one \in S : LET p == Part(S, key, key[one])
                      IN  merge[p].front = FrontTime(p) /\ kept[merge[p]] = key[one]
    BY <1>4, <1>5, <1>6, <1>7, <1>8
<1>11. FrontTime({merge[Part(S, key, key[one])] : one \in S}) = FrontTime(S)
    BY <1>3, <1>10, SumByKey
<1>12. \A r \in WithIndex(S) : \E row \in S : row.bundle = r.bundle /\ row.uid = r.uid
    BY <1>1 DEF f
<1> QED BY <1>1, <1>2, <1>9, <1>11, <1>12

\* Merging rows keeps what they have in common.
Like(m, row) ==
    /\ DOMAIN m = DOMAIN row
    /\ m.bundle = row.bundle /\ m.uid = row.uid /\ m.appIndex = row.appIndex

LEMMA MergedRow ==
    ASSUME NEW S, Indexed(S), NEW p \in SUBSET S, p # {}
    PROVE  LET m == MergeSamePackageStats(p)
           IN  /\ m.front = FrontTime(p) /\ m.front \in Int /\ m = [x \in DOMAIN m |-> m[x]]
               /\ \E row \in p : Like(m, row)
<1> DEFINE row == Chosen(p)
<1>1. row \in p
    BY ChosenIn
<1>2. MergeSamePackageStats(p) = [row EXCEPT !.front = FrontTime(p)]
    BY DEF MergeSamePackageStats, Chosen
<1>3. FrontTime(p) \in Int
    BY SubsetCounted, SumInt DEF Counted, Indexed
<1>4. DOMAIN row = RowFields \cup {"appIndex"}
    BY <1>1 DEF Indexed
<1> HIDE DEF row
<1>5. LET m == MergeSamePackageStats(p) IN m = [x \in DOMAIN m |-> m[x]]
    BY <1>2
<1> QED BY <1>1, <1>2, <1>3, <1>4, <1>5 DEF RowFields, Like

\* So rows that are merged by such a key, to the rows merged, have the same front time.
LEMMA MergeKeeps ==
    ASSUME NEW S, Indexed(S), NEW key, NEW kept,
           \A p \in SUBSET S : \A row \in p :
                Like(MergeSamePackageStats(p), row) => kept[MergeSamePackageStats(p)] = key[row]
    PROVE  FrontTime({MergeSamePackageStats(Part(S, key, key[one])) : one \in S}) = FrontTime(S)
<1> DEFINE merge == [p \in SUBSET S |-> MergeSamePackageStats(p)]
<1>1. Counted(S)
    BY DEF Counted, Indexed
<1>2. ASSUME NEW one \in S
      PROVE  LET p == Part(S, key, key[one])
             IN  /\ merge[p] = MergeSamePackageStats(p)
                 /\ merge[p].front = FrontTime(p) /\ kept[merge[p]] = key[one]
    <2> DEFINE p == Part(S, key, key[one])
               m == MergeSamePackageStats(p)
    <2>1. p \in SUBSET S /\ p # {} /\ \A row \in p : key[row] = key[one]
        BY DEF Part
    <2> HIDE DEF p
    <2>2. m.front = FrontTime(p)
        BY <2>1, MergedRow
    <2>3. PICK row \in p : Like(m, row)
        BY <2>1, MergedRow
    <2>4. kept[m] = key[one]
        BY <2>1, <2>3
    <2>5. merge[p] = m
        BY <2>1
    <2> QED BY <2>2, <2>4, <2>5 DEF p
<1> HIDE DEF merge
<1>3. {MergeSamePackageStats(Part(S, key, key[one])) : one \in S}
        = {merge[Part(S, key, key[one])] : one \in S}
    BY <1>2
<1>4. \A one \in S : LET p == Part(S, key, key[one])
                     IN  merge[p].front = FrontTime(p) /\ kept[merge[p]] = key[one]
    BY <1>2
<1>5. FrontTime({merge[Part(S, key, key[one])] : one \in S}) = FrontTime(S)
    BY <1>1, <1>4, SumByKey
<1> QED BY <1>3, <1>5

\* The service makes one row of the rows of a bundle and uid.
LEMMA MergePackageStatsKeeps ==
    ASSUME NEW S, Indexed(S)
    PROVE  LET M == MergePackageStats(S)
           IN  /\ Indexed(M) /\ FrontTime(M) = FrontTime(S)
               /\ \A a, b \in M : a.bundle = b.bundle /\ a.uid = b.uid => a = b
               /\ \A a \in M : \E row \in S : row.bundle = a.bundle /\ row.uid = a.uid
<1> DEFINE M == MergePackageStats(S)
           key == [row \in S |-> <<row.bundle, row.uid>>]
           part(one) == Part(S, key, key[one])
           f == [one \in S |-> MergeSamePackageStats(part(one))]
           kept == [m \in {MergeSamePackageStats(p) : p \in SUBSET S} |-> <<m.bundle, m.uid>>]
<1>1. ASSUME NEW one \in S
      PROVE  part(one) = {row \in S : row.bundle = one.bundle /\ row.uid = one.uid}
    BY DEF Part
<1>2. M = {f[one] : one \in S}
    BY <1>1 DEF MergePackageStats
<1>3. ASSUME NEW one \in S
      PROVE  LET m == f[one]
             IN  /\ DOMAIN m = RowFields \cup {"appIndex"} /\ m.front \in Int /\ m.uid \in Int
                 /\ m.bundle = one.bundle /\ m.uid = one.uid /\ m.appIndex = AppIndex[m.uid]
    <2> DEFINE p == part(one)
               m == MergeSamePackageStats(p)
    <2>1. p \in SUBSET S /\ p # {} /\ \A row \in p : row.bundle = one.bundle /\ row.uid = one.uid
        BY <1>1
    <2> HIDE DEF p
    <2>2. m.front \in Int /\ \E row \in p : Like(m, row)
        BY <2>1, MergedRow
    <2>3. f[one] = m
        BY DEF p
    <2> HIDE DEF m, f
    <2> QED BY <2>1, <2>2, <2>3 DEF Indexed, Like
<1>r. ASSUME NEW one \in S PROVE f[one] = [x \in DOMAIN f[one] |-> f[one][x]]
    <2> DEFINE p == part(one)
    <2>1. p \in SUBSET S /\ p # {}
        BY <1>1
    <2> HIDE DEF p
    <2>2. LET m == MergeSamePackageStats(p) IN m = [x \in DOMAIN m |-> m[x]]
        BY <2>1, MergedRow
    <2>3. f[one] = MergeSamePackageStats(p)
        BY DEF p
    <2> QED BY <2>2, <2>3
<1>4. f = [one \in S |-> f[one]]
    OBVIOUS
<1>5. \A p \in SUBSET S : \A row \in p :
        Like(MergeSamePackageStats(p), row) => kept[MergeSamePackageStats(p)] = key[row]
    BY DEF Like
<1>6. \A one, other \in S : one.bundle = other.bundle /\ one.uid = other.uid => f[one] = f[other]
    OBVIOUS
<1>7. M = {MergeSamePackageStats(Part(S, key, key[one])) : one \in S}
    BY <1>2
<1> HIDE DEF f, M, kept, key
<1>8. FrontTime(M) = FrontTime(S)
    <2>1. FrontTime({MergeSamePackageStats(Part(S, key, key[one])) : one \in S}) = FrontTime(S)
        BY <1>5, MergeKeeps
    <2> QED BY <1>7, <2>1
<1>9. IsFiniteSet(M)
    BY <1>2, <1>4, ImageFinite DEF Indexed
<1>10. Indexed(M)
    <2>1. \A m \in M : m = [x \in DOMAIN m |-> m[x]]
        BY <1>2, <1>r
    <2>2. \A m \in M : /\ DOMAIN m = RowFields \cup {"appIndex"}
                       /\ m.uid \in Int /\ m.front \in Int /\ m.appIndex = AppIndex[m.uid]
        BY <1>2, <1>3
    <2> QED BY <1>9, <2>1, <2>2 DEF Indexed
<1>11. \A a, b \in M : a.bundle = b.bundle /\ a.uid = b.uid => a = b
    BY <1>2, <1>3, <1>6
<1>12. \A a \in M : \E row \in S : row.bundle = a.bundle /\ row.uid = a.uid
    BY <1>2, <1>3
<1> QED BY <1>8, <1>10, <1>11, <1>12 DEF M

\* So do the front ends that sum by bundle or by application.
LEMMA SumsKeep ==
    ASSUME NEW S, Indexed(S)
    PROVE  FrontTime(MergeByBundle(S)) = FrontTime(S) /\ FrontTime(MergeAppStatsInfos(S)) = FrontTime(S)
<1>1. FrontTime(MergeByBundle(S)) = FrontTime(S)
    <2> DEFINE M == MergeByBundle(S)
               key == [row \in S |-> row.bundle]
               kept == [m \in {MergeSamePackageStats(p) : p \in SUBSET S} |-> m.bundle]
    <2>1. \A one \in S : Part(S, key, key[one]) = {row \in S : row.bundle = one.bundle}
        BY DEF Part
    <2>2. M = {MergeSamePackageStats({row \in S : row.bundle = one.bundle}) : one \in S}
        BY DEF MergeByBundle, SumBy, Bundle
    <2>3. \A p \in SUBSET S : \A row \in p :
            Like(MergeSamePackageStats(p), row) => kept[MergeSamePackageStats(p)] = key[row]
        BY DEF Like
    <2> HIDE DEF M, key, kept
    <2>4. M = {MergeSamePackageStats(Part(S, key, key[one])) : one \in S}
        BY <2>1, <2>2
    <2>5. FrontTime({MergeSamePackageStats(Part(S, key, key[one])) : one \in S}) = FrontTime(S)
        BY <2>3, MergeKeeps
    <2> QED BY <2>4, <2>5 DEF M
<1>2. FrontTime(MergeAppStatsInfos(S)) = FrontTime(S)
    <2> DEFINE M == MergeAppStatsInfos(S)
               key == [row \in S |-> Application(row)]
               kept == [m \in {MergeSamePackageStats(p) : p \in SUBSET S} |-> Application(m)]
    <2>1. \A one \in S : Part(S, key, key[one]) = {row \in S : Application(row) = Application(one)}
        BY DEF Part
    <2>2. M = {MergeSamePackageStats({row \in S : Application(row) = Application(one)}) : one \in S}
        BY DEF MergeAppStatsInfos, SumBy
    <2>3. \A p \in SUBSET S : \A row \in p :
            Like(MergeSamePackageStats(p), row) => kept[MergeSamePackageStats(p)] = key[row]
        BY DEF Application, Like
    <2> HIDE DEF M, key, kept
    <2>4. M = {MergeSamePackageStats(Part(S, key, key[one])) : one \in S}
        BY <2>1, <2>2
    <2>5. FrontTime({MergeSamePackageStats(Part(S, key, key[one])) : one \in S}) = FrontTime(S)
        BY <2>3, MergeKeeps
    <2> QED BY <2>4, <2>5 DEF M
<1> QED BY <1>1, <1>2

\* What a front end that takes the first row of an application loses is another uid of the
\* bundle with the same index.
LEMMA FirstKeeps ==
    ASSUME NEW S, NEW M, Indexed(M),
           \A a, b \in M : a.bundle = b.bundle /\ a.uid = b.uid => a = b,
           \A a \in M : \E row \in S : row.bundle = a.bundle /\ row.uid = a.uid,
           ~TwoWithOneIndex(S)
    PROVE  MergeAppOfCommon(M) = M
<1>1. ASSUME NEW a \in M, NEW b \in M, Application(a) = Application(b) PROVE b = a
    <2>1. a.bundle = b.bundle /\ a.appIndex = b.appIndex
        BY <1>1 DEF Application
    <2>2. AppIndex[a.uid] = AppIndex[b.uid]
        BY <2>1 DEF Indexed
    <2>3. PICK one \in S : one.bundle = a.bundle /\ one.uid = a.uid
        OBVIOUS
    <2>4. PICK other \in S : other.bundle = b.bundle /\ other.uid = b.uid
        OBVIOUS
    <2>5. a.uid = b.uid
        BY <2>1, <2>2, <2>3, <2>4 DEF TwoWithOneIndex
    <2> QED BY <2>1, <2>5
<1>2. \A a \in M : a.uid <= a.uid
    BY DEF Indexed
<1>3. MergeAppOfCommon(M) = {row \in M : \A other \in M :
                                Application(other) = Application(row) => row.uid <= other.uid}
    BY DEF MergeAppOfCommon, FirstBy
<1> QED BY <1>1, <1>2, <1>3

-----------------------------------------------------------------------------
(* What scripts are shown                                                  *)

\* The front ends that check parameters as the service does.
Checking == {"usageStatistics", "taihe"}

\* An answer with what the service makes of the rows the core found.
Summed(answer) ==
    /\ DOMAIN answer = AnswerFields
    /\ Found(answer.rows) /\ answer.found = MergePackageStats(WithIndex(answer.rows))

\* An error has no rows, ...
LEMMA ErrorIsSummed == ASSUME NEW ret PROVE Summed(Error(ret))
<1>1. /\ DOMAIN Error(ret) = AnswerFields /\ Error(ret).rows = {} /\ Error(ret).found = {}
    BY DEF Error, Answer, AnswerFields
<1>2. WithIndex({}) = {} /\ MergePackageStats({}) = {}
    BY DEF WithIndex, MergePackageStats
<1>3. Found({})
    BY FS_EmptySet DEF Found
<1> QED BY <1>1, <1>2, <1>3 DEF Summed

\* ... the service merges what the core answers, ...
LEMMA CoreIsSummed ==
    ASSUME NEW core, NEW answer \in CoreStatsInfos(core)
    PROVE  Summed([answer EXCEPT !.found = MergePackageStats(WithIndex(@))])
<1> DEFINE ok == core.interval \in 0 .. PERIOD_BEST_SERVICE
           over(a) == [a EXCEPT !.found = MergePackageStats(WithIndex(a.found))]
<1>1. ASSUME NEW ret PROVE Summed(over(Error(ret)))
    <2>1. WithIndex({}) = {} /\ MergePackageStats({}) = {}
        BY DEF WithIndex, MergePackageStats
    <2>2. over(Error(ret)) = Error(ret)
        BY <2>1 DEF Error, Answer
    <2> QED BY <2>2, ErrorIsSummed
<1>2. ASSUME NEW rows \in Findings PROVE Summed(over(Answer("ERR_OK", core, rows)))
    <2>1. Found(rows)
        BY FindingsAssumption DEF Found
    <2> DEFINE a == Answer("ERR_OK", core, rows)
    <2>2. DOMAIN a = AnswerFields /\ a.rows = rows /\ a.found = rows
        BY DEF Answer, AnswerFields
    <2> HIDE DEF a
    <2>3. /\ DOMAIN over(a) = AnswerFields /\ over(a).rows = rows
          /\ over(a).found = MergePackageStats(WithIndex(rows))
        BY <2>2 DEF AnswerFields
    <2> HIDE DEF over
    <2>4. Summed(over(a))
        BY <2>1, <2>3 DEF Summed
    <2> QED BY <2>4 DEF a
<1> HIDE DEF over
<1>3. CASE ~CoreTimes(core)
    <2>1. CoreStatsInfos(core) = {Error("ERR_QUERY_TIME_OUT_OF_RANGE")}
        BY <1>3, Zenon DEF CoreStatsInfos
    <2>2. Summed(over(answer))
        BY <1>1, <2>1
    <2> QED BY <2>2 DEF over
<1>4. CASE CoreTimes(core) /\ ~ok
    <2>1. CoreStatsInfos(core) = {Error("ERR_USAGE_STATS_INTERVAL_NUMBER")}
        BY <1>4, Zenon DEF CoreStatsInfos
    <2>2. Summed(over(answer))
        BY <1>1, <2>1
    <2> QED BY <2>2 DEF over
<1>5. CASE CoreTimes(core) /\ ok
    <2>1. CoreStatsInfos(core) = {Answer("ERR_OK", core, rows) : rows \in Findings}
        BY <1>5, Zenon DEF CoreStatsInfos
    <2>2. Summed(over(answer))
        BY <1>2, <2>1
    <2> QED BY <2>2 DEF over
<1> QED BY <1>3, <1>4, <1>5

\* ... and so every answer to such a query is merged rows, for every request and caller.
LEMMA StatsAnswers ==
    ASSUME NEW r, "method" \in DOMAIN r, r.method = "QueryBundleStatsInfoByInterval",
           NEW caller, NEW answer \in Perform(r, caller)
    PROVE  Summed(answer)
<1>1. ~MaxNumRefused(r)
    BY DEF MaxNumRefused
<1>2. Perform(r, caller) = IF GetUserId(r, caller) < 0 THEN {Error(NoUserAnswer(r, caller))}
                           ELSE AsUser(ForUser(r, caller), caller)
    BY <1>1, Zenon DEF Perform
<1>3. CASE GetUserId(r, caller) < 0
    BY <1>2, <1>3, ErrorIsSummed
<1>4. CASE ~(GetUserId(r, caller) < 0)
    <2> DEFINE q == ForUser(r, caller)
               core == [q EXCEPT !.interval = ConvertIntervalType(@)]
               merged == {[a EXCEPT !.found = MergePackageStats(WithIndex(@))] : a \in CoreStatsInfos(core)}
    <2>1. q.method = "QueryBundleStatsInfoByInterval"
        BY DEF ForUser
    <2>2. AsUser(q, caller) = QueryBundleStatsInfoByInterval(q, caller)
        <3> HIDE DEF q
        <3> QED BY <2>1, Zenon DEF AsUser
    <2>3. answer \in Allowed(q, caller, merged)
        BY <1>2, <1>4, <2>2 DEF QueryBundleStatsInfoByInterval
    <2>4. \A a \in merged : Summed(a)
        BY CoreIsSummed
    <2> HIDE DEF merged
    <2> QED BY <2>3, <2>4, ErrorIsSummed DEF Allowed, Permitted
<1> QED BY <1>3, <1>4

\* What a script is shown of such an answer.
KeptFor(call, shown, rows) ==
    LET meant == Meant(call, rows)
    IN  \/ FrontTime(shown) = FrontTime(meant)
        \/ call.api \in AppApis /\ call.front = "usageStatistics" /\ TwoWithOneIndex(meant)
        \/ call.api = "queryLastUseTime" /\ call.front = "taihe" /\ MeantTwice(call, meant)

\* The rows that are kept are the merged rows of those that are meant, ...
LEMMA KeptIsMeant ==
    ASSUME NEW call, NEW S, Found(S)
    PROVE  Selected(call, MergePackageStats(WithIndex(S))) = MergePackageStats(WithIndex(Meant(call, S)))
<1> DEFINE W == WithIndex(S)
           V == WithIndex(Meant(call, S))
           same(one, T) == {row \in T : row.bundle = one.bundle /\ row.uid = one.uid}
           kept(row) == call.api = "queryLastUseTime" => WantedAt(call, row) # {}
           plain(row) == [bundle |-> row.bundle, uid |-> row.uid, day |-> row.day,
                          front |-> row.front, appIndex |-> AppIndex[row.uid]]
<1>1. Indexed(W)
    BY WithIndexKeeps
<1>2. V = {row \in W : kept(row)}
    <2>1. W = {plain(row) : row \in S} /\ V = {plain(row) : row \in Meant(call, S)}
        BY DEF WithIndex
    <2>2. ASSUME NEW row \in S PROVE kept(plain(row)) <=> row \in Meant(call, S)
        BY DEF WantedAt, Application, Meant, IsMeant
    <2>3. Meant(call, S) \subseteq S
        BY DEF Meant
    <2> HIDE DEF W, V, kept, plain
    <2> QED BY <2>1, <2>2, <2>3
<1>3. \A one, other \in W : one.bundle = other.bundle /\ one.uid = other.uid => (kept(one) <=> kept(other))
    BY <1>1 DEF Indexed, WantedAt, Application
<1>4. \A one \in W : LET m == MergeSamePackageStats(same(one, W)) IN kept(m) <=> kept(one)
    <2> TAKE one \in W
    <2> DEFINE p == same(one, W)
               m == MergeSamePackageStats(p)
    <2>1. p \in SUBSET W /\ p # {} /\ \A row \in p : row \in W /\ row.bundle = one.bundle /\ row.uid = one.uid
        OBVIOUS
    <2> HIDE DEF p, W
    <2>2. PICK row \in p : Like(m, row)
        BY <1>1, <2>1, MergedRow
    <2>3. Application(m) = Application(row)
        BY <2>2 DEF Like, Application
    <2>4. kept(m) <=> kept(row)
        BY <2>3 DEF WantedAt
    <2> QED BY <1>3, <2>1, <2>2, <2>4 DEF p
<1>5. MergePackageStats(W) = {MergeSamePackageStats(same(one, W)) : one \in W}
    BY DEF MergePackageStats
<1>6. MergePackageStats(V) = {MergeSamePackageStats(same(one, V)) : one \in V}
    BY DEF MergePackageStats
<1>7. Selected(call, MergePackageStats(W)) = {m \in MergePackageStats(W) : kept(m)}
    BY DEF Selected
<1> HIDE DEF W, V, kept
<1>8. \A one \in V : one \in W /\ same(one, V) = same(one, W)
    BY <1>2, <1>3
<1> HIDE DEF same
<1>9. {m \in MergePackageStats(W) : kept(m)} = MergePackageStats(V)
    BY <1>2, <1>4, <1>5, <1>6, <1>8
<1> QED BY <1>7, <1>9 DEF W, V

\* ... and are repeated as often as they are asked for.
LEMMA RepeatedIsKept ==
    ASSUME NEW call, NEW M, Indexed(M), NEW S,
           \A a \in Selected(call, M) : \E row \in Meant(call, S) : row.bundle = a.bundle /\ row.uid = a.uid,
           call.api = "queryLastUseTime" => ~MeantTwice(call, Meant(call, S))
    PROVE  Repeated(call, M) = Selected(call, M)
<1> DEFINE r(row) == [row EXCEPT !.front = IF call.api = "queryLastUseTime"
                                           THEN Cardinality(WantedAt(call, row)) * @ ELSE @]
<1>1. ASSUME NEW row \in Selected(call, M) PROVE r(row) = row
    <2>1. /\ row \in M /\ DOMAIN row = RowFields \cup {"appIndex"} /\ row.front \in Int
          /\ row.appIndex = AppIndex[row.uid] /\ row = [x \in DOMAIN row |-> row[x]]
        BY DEF Selected, Indexed
    <2>0. [row EXCEPT !.front = row.front] = row
        BY <2>1 DEF RowFields
    <2>2. CASE call.api # "queryLastUseTime"
        BY <2>0, <2>2
    <2>3. CASE call.api = "queryLastUseTime"
        <3>1. PICK n : n \in WantedAt(call, row)
            BY <2>3 DEF Selected
        <3>2. PICK meant \in Meant(call, S) : meant.bundle = row.bundle /\ meant.uid = row.uid
            OBVIOUS
        <3>3. \A m \in WantedAt(call, row) : m \in DOMAIN call.wanted /\ IsMeant(call, meant, m)
            BY <2>1, <3>2 DEF WantedAt, IsMeant, Application
        <3>4. WantedAt(call, row) = {n}
            BY <2>3, <3>1, <3>3 DEF MeantTwice
        <3>5. Cardinality(WantedAt(call, row)) = 1
            BY <3>4, FS_Singleton
        <3>6. r(row) = [row EXCEPT !.front = 1 * @]
            BY <2>3, <3>5
        <3>7. 1 * row.front = row.front
            BY <2>1
        <3> QED BY <2>0, <3>6, <3>7
    <2> QED BY <2>2, <2>3
<1>2. Repeated(call, M) = {r(row) : row \in Selected(call, M)}
    BY DEF Repeated
<1> HIDE DEF r
<1> QED BY <1>1, <1>2

\* The front end keeps the front time in turn, or takes the first row of an application.
LEMMA ShownKeeps ==
    ASSUME NEW call, call.api \in AppApis => call.front \in Checking,
           NEW answer, Summed(answer)
    PROVE  KeptFor(call, Shown(call, answer.found), answer.rows)
<1> DEFINE S == Meant(call, answer.rows)
           W == WithIndex(S)
           K == MergePackageStats(W)
           N == answer.found
<1>0. /\ Found(S) /\ Found(answer.rows) /\ N = MergePackageStats(WithIndex(answer.rows))
      /\ Selected(call, N) = K
    <2>1. Found(answer.rows) /\ N = MergePackageStats(WithIndex(answer.rows))
        BY DEF Summed
    <2>2. S \subseteq answer.rows
        BY DEF Meant
    <2>3. Found(S)
        BY <2>1, <2>2, FS_Subset DEF Found
    <2> QED BY <2>1, <2>3, KeptIsMeant
<1>a. Indexed(N)
    BY <1>0, WithIndexKeeps, MergePackageStatsKeeps
<1>b. S = Meant(call, answer.rows)
    OBVIOUS
<1> HIDE DEF S, N
<1>1. /\ Indexed(W) /\ FrontTime(W) = FrontTime(S)
      /\ \A w \in W : \E row \in S : row.bundle = w.bundle /\ row.uid = w.uid
    BY <1>0, WithIndexKeeps
<1> HIDE DEF W
<1>2. /\ Indexed(K) /\ FrontTime(K) = FrontTime(W)
      /\ \A a, b \in K : a.bundle = b.bundle /\ a.uid = b.uid => a = b
      /\ \A a \in K : \E row \in W : row.bundle = a.bundle /\ row.uid = a.uid
    BY <1>1, MergePackageStatsKeeps
<1> HIDE DEF K
<1>3. \A a \in K : \E row \in S : row.bundle = a.bundle /\ row.uid = a.uid
    BY <1>1, <1>2
<1>4. FrontTime(MergeByBundle(K)) = FrontTime(S) /\ FrontTime(MergeAppStatsInfos(K)) = FrontTime(S)
    BY <1>1, <1>2, SumsKeep
<1>5. ~TwoWithOneIndex(S) => FrontTime(MergeAppOfCommon(K)) = FrontTime(S)
    BY <1>1, <1>2, <1>3, FirstKeeps
<1>c. call.api # "queryLastUseTime" => K = N
    BY <1>0 DEF Selected
<1>d. call.api # "queryLastUseTime" \/ ~MeantTwice(call, S) => Repeated(call, N) = K
    BY <1>a, <1>b, <1>0, <1>3, RepeatedIsKept
<1>6. CASE call.api \in {"queryBundleStatsInfos", "queryBundleStateInfos"}
    <2>1. call.api \notin AppApis
        BY <1>6 DEF AppApis
    <2>2. Shown(call, N) = MergeByBundle(N)
        BY <1>6, <2>1, Zenon DEF Shown
    <2> QED BY <1>4, <1>6, <1>c, <2>2 DEF KeptFor, S, N
<1>7. CASE call.api \in AppApis /\ call.front = "taihe"
    <2>1. call.api \notin {"queryBundleStatsInfos", "queryBundleStateInfos"}
        BY <1>7 DEF AppApis
    <2>2. Shown(call, N) = MergeAppStatsInfos(Repeated(call, N))
        BY <1>7, <2>1, Zenon DEF Shown
    <2> QED BY <1>4, <1>7, <1>d, <2>2 DEF KeptFor, S, N
<1>8. CASE call.api \in AppApis /\ call.front # "taihe"
    <2>1. call.api \notin {"queryBundleStatsInfos", "queryBundleStateInfos"}
        BY <1>8 DEF AppApis
    <2>2. Shown(call, N) = MergeAppOfCommon(K)
        BY <1>0, <1>8, <2>1, Zenon DEF Shown
    <2>3. call.front = "usageStatistics"
        BY <1>8 DEF Checking
    <2> QED BY <1>5, <1>8, <2>2, <2>3 DEF KeptFor, S, N
<1>9. CASE call.api \notin AppApis \cup {"queryBundleStatsInfos", "queryBundleStateInfos"}
    <2>1. Shown(call, N) = N
        BY <1>9, Zenon DEF Shown
    <2>2. call.api # "queryLastUseTime"
        BY <1>9 DEF AppApis
    <2> QED BY <1>1, <1>2, <1>c, <2>1, <2>2 DEF KeptFor, S, N
<1> QED BY <1>6, <1>7, <1>8, <1>9

-----------------------------------------------------------------------------
(* The calls                                                               *)

\* The invariant: a call that waits for a worker carries a request of the kind its front
\* end makes, and one that was carried out an answer to such a request.
Asked(c) == Whose(c.api, c.request) /\ (c.front \in Checking => InOrder(c.request))
Told(c) ==
    /\ c.answer.core # NoCore =>
        \/ c.answer.core.userId = c.account
        \/ c.api = "queryBundleActiveStates" /\ c.answer.core.userId = 0
    /\ c.front \in Checking => Passed(c.request, c.answer)
\* What the tool's calls have in common with those of scripts: a request with a method,
\* and then the front time of what was found.
Typed(c) == "method" \in DOMAIN c.request /\ (c.api \in AppApis => c.front \in Checking)
Shows(c) ==
    c.request.method = "QueryBundleStatsInfoByInterval" =>
        KeptFor(c, c.answer.found, c.answer.rows)
Known(c) ==
    /\ c.what = "query" /\ c.front # "tool" =>
        (c.phase = "queued" => Asked(c)) /\ (c.phase = "executed" => Told(c))
    /\ c.what = "query" =>
        (c.phase = "queued" => Typed(c)) /\ (c.phase = "executed" => Shows(c))
QueryInv == \A i \in DOMAIN calls : Known(calls[i])

\* A script makes requests of this kind.
LEMMA RequestsKnown ==
    ASSUME NEW of \in Outcomes, of.front # "tool"
    PROVE  /\ Whose(of.outcome.api, of.outcome.request)
           /\ of.front \in Checking => InOrder(of.outcome.request)
<1>1. \A name, outcomes : of \in Of(name, outcomes) => of.front = name /\ of.outcome \in outcomes
    BY DEF Of
<1>2. CASE of \in Of("usageStatistics", UNION {New!Calls(argv) : argv \in Argvs})
    <2>1. Good(of.outcome.request)
        BY <1>1, <1>2, NewRequests
    <2> QED BY <2>1 DEF Good, Anonymous, Whose
<1>3. CASE of \in Of("bundleState", UNION {Old!Calls(argv) : argv \in Argvs})
    <2>1. of.front = "bundleState" /\ Mine(of.outcome)
        BY <1>1, <1>3, OldRequests
    <2> QED BY <2>1 DEF Mine, Checking
<1>4. CASE of \in Of("taihe", UNION {Idl!Calls(a.name, a.begin, a.end, a.num) : a \in IdlArgs})
    <2>1. Good(of.outcome.request)
        BY <1>1, <1>4, IdlRequests
    <2> QED BY <2>1 DEF Good, Anonymous, Whose
<1>5. of \notin Of("tool", UNION {Cli!Main(options) : options \in CommandLines})
    BY <1>1
<1> QED BY <1>2, <1>3, <1>4, <1>5 DEF Outcomes

\* The tool's requests name a method, and no command of it merges rows of applications.
LEMMA ToolRequests ==
    ASSUME NEW options, NEW o \in Cli!Main(options)
    PROVE  "method" \in DOMAIN o.request /\ o.api \notin AppApis
<1> DEFINE fine(r) == "method" \in DOMAIN r
           right(u) == fine(u.request) /\ u.api \notin AppApis
<1>1. \A m : fine(Cli!Ask(m)) /\ fine(Cli!Nothing)
    BY DEF Cli!Ask, Cli!Nothing
<1>2. ASSUME NEW r, fine(r)
      PROVE  /\ \A v : fine([r EXCEPT !.userId = v]) /\ fine([r EXCEPT !.bundleName = v])
                      /\ fine([r EXCEPT !.interval = v]) /\ fine([r EXCEPT !.maxNum = v])
             /\ \A v, w : fine([r EXCEPT !.begin = v, !.end = w])
                         /\ fine([r EXCEPT !.maxNum = v, !.days = w])
    BY <1>2
<1>3. ASSUME NEW api, api \notin AppApis, NEW thrown, NEW how, NEW r, fine(r)
      PROVE  right(Cli!Outcome(api, thrown, how, r))
    BY <1>3 DEF Cli!Outcome
<1> HIDE DEF fine
<1>4. ASSUME NEW api, api \notin AppApis
      PROVE  right(Cli!ShowHelp(api)) /\ right(Cli!Refused(api))
    BY <1>1, <1>3, <1>4 DEF Cli!ShowHelp, Cli!Refused
<1> HIDE DEF right
<1>5. ASSUME NEW api, api \notin AppApis, NEW valid, NEW r, fine(r)
      PROVE  right(Cli!Command(api, options, valid, r))
    <2> DEFINE v == Cli!UserOf(options)
               q == [r EXCEPT !.userId = v]
    <2>1. fine(q)
        BY <1>2, <1>5
    <2>2. right(Cli!Outcome(api, FALSE, "sync", q))
        BY <1>3, <1>5, <2>1
    <2>3. Cli!Command(api, options, valid, r) \in
            {Cli!ShowHelp(api), Cli!Outcome(api, FALSE, "sync", q), Cli!Refused(api)}
        BY Zenon DEF Cli!Command
    <2> QED BY <1>4, <1>5, <2>2, <2>3
<1>6. ASSUME NEW api, api \notin AppApis, NEW m PROVE right(Cli!BundleCommand(api, options, m))
    BY <1>1, <1>2, <1>5, <1>6 DEF Cli!BundleCommand
<1>7. ASSUME NEW api, api \notin AppApis, NEW valid, NEW r, fine(r)
      PROVE  right(Cli!TimesCommand(api, options, valid, r))
    BY <1>2, <1>5, <1>7 DEF Cli!TimesCommand
<1>8. /\ right(Cli!CmdCheckBundleIdle(options)) /\ right(Cli!CmdCheckBundlePeriod(options))
      /\ right(Cli!CmdQueryAppGroup(options)) /\ right(Cli!CmdQueryLatestUsedTime(options))
    BY <1>6 DEF Cli!CmdCheckBundleIdle, Cli!CmdCheckBundlePeriod, Cli!CmdQueryAppGroup,
        Cli!CmdQueryLatestUsedTime, AppApis
<1>9. /\ right(Cli!CmdQueryStatsInterval(options)) /\ right(Cli!CmdQueryEvents(options))
      /\ right(Cli!CmdQueryNotificationStats(options))
    BY <1>1, <1>2, <1>7 DEF Cli!CmdQueryStatsInterval, Cli!CmdQueryEvents,
        Cli!CmdQueryNotificationStats, AppApis
<1>10. /\ right(Cli!CmdQueryHighFreqBundle(options)) /\ right(Cli!CmdQueryModuleRecords(options))
       /\ right(Cli!CmdQueryHighFreqPeriod(options))
    BY <1>1, <1>2, <1>5 DEF Cli!CmdQueryHighFreqBundle, Cli!CmdQueryModuleRecords,
        Cli!CmdQueryHighFreqPeriod, AppApis
<1>11. /\ right(Cli!ShowHelp("help"))
       /\ right(Cli!Refused("unknown command")) /\ right(Cli!Refused("no command"))
    BY <1>4 DEF AppApis
<1>12. right(o)
    BY <1>8, <1>9, <1>10, <1>11 DEF Cli!Main, Cli!Commands
<1> QED BY <1>12 DEF right, fine

\* No function of bundleState merges rows of applications.
LEMMA OldApis ==
    ASSUME NEW argv, NEW o \in Old!Calls(argv)
    PROVE  o.api \notin AppApis
<1> DEFINE right(u) == u.api \notin AppApis
<1>1. ASSUME NEW api, api \notin AppApis, NEW thrown, NEW how, NEW r
      PROVE  right(Old!Outcome(api, thrown, how, r))
    BY <1>1 DEF Old!Outcome
<1> HIDE DEF right
<1>2. ASSUME NEW api, api \notin AppApis, NEW n, NEW valid, NEW unparsed, NEW r
      PROVE  right(Old!Call(api, argv, n, valid, unparsed, r))
    <2>1. Old!Call(api, argv, n, valid, unparsed, r) \in
            {Old!Outcome(api, TRUE, "async", unparsed),
             Old!Outcome(api, Old!CallbackAsserted(argv, n), "async", r),
             Old!Outcome(api, Old!CallbackAsserted(argv, n), "refused", Old!Nothing)}
        BY Zenon DEF Old!Call
    <2> QED BY <1>1, <1>2, <2>1
<1>3. right(Old!IsIdleState(argv))
    BY <1>2 DEF Old!IsIdleState, AppApis
<1>4. right(Old!QueryAppUsagePriorityGroup(argv))
    <2> DEFINE api == "queryAppUsagePriorityGroup"
               asserted == Len(argv) > 2 \/ Old!CallbackAsserted(argv, 2)
               noName == Len(argv) = 0 \/ (Len(argv) = 1 /\ Old!IsFunction(Old!Arg(argv, 0)))
               name == IF noName THEN "" ELSE Old!GetTypeStringValue(Old!Arg(argv, 0))
               named == Old!GetTypeStringValue(Old!Arg(argv, 0)) # ""
               long == Len(argv) > 2
               short == Len(argv) <= 2
               q == [Old!Ask("QueryAppGroup") EXCEPT !.bundleName = name]
    <2>1. Old!QueryAppUsagePriorityGroup(argv) =
            CASE long -> Old!Crash(api)
              [] short /\ ~noName /\ ~named -> Old!Outcome(api, asserted, "refused", Old!Nothing)
              [] short /\ (noName \/ named) /\ asserted -> Old!Crash(api)
              [] OTHER -> Old!Outcome(api, FALSE, "async", q)
        BY Zenon DEF Old!QueryAppUsagePriorityGroup
    <2>2. api \notin AppApis
        BY DEF AppApis
    <2>3. /\ right(Old!Crash(api)) /\ right(Old!Outcome(api, asserted, "refused", Old!Nothing))
          /\ right(Old!Outcome(api, FALSE, "async", q))
        <3> HIDE DEF api, asserted, q
        <3> QED BY <1>1, <2>2 DEF Old!Crash
    <2> HIDE DEF api, asserted, noName, named, long, short, q
    <2>4. Old!QueryAppUsagePriorityGroup(argv) \in
            {Old!Crash(api), Old!Outcome(api, asserted, "refused", Old!Nothing),
             Old!Outcome(api, FALSE, "async", q)}
        BY <2>1, Zenon
    <2> QED BY <2>3, <2>4
<1>5. right(Old!QueryCurrentBundleActiveStates(argv)) /\ right(Old!QueryBundleActiveStates(argv))
    BY <1>2 DEF Old!QueryCurrentBundleActiveStates, Old!QueryBundleActiveStates, Old!QueryStates,
        AppApis
<1>6. right(Old!QueryBundleStateInfoByInterval(argv)) /\ right(Old!QueryBundleStateInfos(argv))
    BY <1>2 DEF Old!QueryBundleStateInfoByInterval, Old!QueryBundleStateInfos, AppApis
<1>7. right(o)
    BY <1>3, <1>4, <1>5, <1>6 DEF Old!Calls
<1> QED BY <1>7 DEF right

\* So with every request there is.
LEMMA RequestsTyped ==
    ASSUME NEW of \in Outcomes
    PROVE  /\ "method" \in DOMAIN of.outcome.request
           /\ of.outcome.api \in AppApis => of.front \in Checking
<1>1. \A name, outcomes : of \in Of(name, outcomes) => of.front = name /\ of.outcome \in outcomes
    BY DEF Of
<1>2. CASE of.front # "tool"
    <2>1. "method" \in DOMAIN of.outcome.request
        BY <1>2, RequestsKnown DEF Whose, OfScript, RequestFields
    <2>2. CASE of \in Of("bundleState", UNION {Old!Calls(argv) : argv \in Argvs})
        <3>1. of.outcome.api \notin AppApis
            BY <1>1, <2>2, OldApis
        <3> QED BY <2>1, <3>1
    <2>3. CASE of \notin Of("bundleState", UNION {Old!Calls(argv) : argv \in Argvs})
        <3>1. of.front \in Checking
            BY <1>1, <1>2, <2>3 DEF Outcomes, Checking
        <3> QED BY <2>1, <3>1
    <2> QED BY <2>2, <2>3
<1>3. CASE of.front = "tool"
    <2>1. of \in Of("tool", UNION {Cli!Main(options) : options \in CommandLines})
        BY <1>1, <1>3 DEF Outcomes
    <2> QED BY <1>1, <2>1, ToolRequests
<1> QED BY <1>2, <1>3

-----------------------------------------------------------------------------
\* One call changes, or comes new.
LEMMA NewKnown ==
    ASSUME CallsType, QueryInv, NEW c, DOMAIN c = Fields, Called(c), Known(c)
    PROVE  QueryInv'
<1>1. PICK n : /\ DOMAIN calls' = DOMAIN calls \cup {n} /\ calls'[n] = c
               /\ \A i \in DOMAIN calls : calls'[i] = calls[i]
    BY NewCall
<1>2. \A i \in DOMAIN calls' : Known(calls'[i])
    BY <1>1 DEF QueryInv
<1> QED BY <1>2 DEF QueryInv, Known, Asked, Told, Passed, Typed, Shows, KeptFor

LEMMA StillKnown ==
    ASSUME CallsType, QueryInv, NEW i \in DOMAIN calls, NEW c, DOMAIN c = Fields,
           calls' = [calls EXCEPT ![i] = c], Known(c)
    PROVE  QueryInv'
<1>1. DOMAIN calls' = DOMAIN calls /\ \A j \in DOMAIN calls : calls'[j] = IF j = i THEN c ELSE calls[j]
    BY CallGoesOn
<1>2. \A j \in DOMAIN calls' : Known(calls'[j])
    BY <1>1 DEF QueryInv
<1> QED BY <1>2 DEF QueryInv, Known, Asked, Told, Passed, Typed, Shows, KeptFor

LEMMA AnsweredKnown ==
    ASSUME CallsType, QueryInv, NEW i \in DOMAIN calls, Answered(i) PROVE QueryInv'
<1> DEFINE c == Over(calls[i])
<1>1. DOMAIN c = Fields /\ c.phase = "answered" /\ calls' = [calls EXCEPT ![i] = c]
    BY DEF CallsType, Fields, Answered, Over
<1> HIDE DEF c
<1> QED BY <1>1, StillKnown DEF Known

LEMMA ExecutedKnown ==
    ASSUME CallsType, QueryInv, NEW i \in DOMAIN calls, NEW answer, NEW account,
           Executed(i, answer, account),
           \A c : /\ c.what = calls[i].what /\ c.front = calls[i].front /\ c.api = calls[i].api
                  /\ c.request = calls[i].request /\ c.wanted = calls[i].wanted
                  /\ c.answer = answer /\ c.account = account
                  /\ c.phase = "executed"
                  => Known(c)
    PROVE  QueryInv'
<1> DEFINE c == [calls[i] EXCEPT !.phase = "executed", !.answer = answer, !.account = account]
<1>1. /\ DOMAIN c = Fields
      /\ c.what = calls[i].what /\ c.front = calls[i].front /\ c.api = calls[i].api
      /\ c.request = calls[i].request /\ c.wanted = calls[i].wanted
      /\ c.answer = answer /\ c.account = account
      /\ c.phase = "executed"
    BY DEF CallsType, Fields
<1>2. calls' = [calls EXCEPT ![i] = c]
    BY DEF Executed
<1> HIDE DEF c
<1> QED BY <1>1, <1>2, StillKnown

\* A query is made, ...
LEMMA QueueKnown ==
    ASSUME CallsType, QueryInv, NEW of \in Outcomes, Queue(of) PROVE QueryInv'
<1>0. PICK wanted : Called(Query(of, of.outcome.request, wanted))
    BY DEF Queue
<1> DEFINE c == Query(of, of.outcome.request, wanted)
<1>1. /\ DOMAIN c = Fields /\ Called(c) /\ c.phase = "queued" /\ c.front = of.front
      /\ c.api = of.outcome.api /\ c.request = of.outcome.request
    BY <1>0 DEF Query, Fields
<1> HIDE DEF c
<1>2. Known(c)
    BY <1>1, RequestsKnown, RequestsTyped DEF Known, Asked, Typed
<1> QED BY <1>1, <1>2, NewKnown

\* ... and carried out.
LEMMA ExecuteKnown ==
    ASSUME CallsType, QueryInv, NEW i \in DOMAIN calls, Execute(i) PROVE QueryInv'
<1> DEFINE r == calls[i].request
           asked == calls[i].front # "tool" => Asked(calls[i])
<1>1. calls[i].what = "query" /\ asked /\ Typed(calls[i])
    BY DEF Execute, Phase, QueryInv, Known
<1> DEFINE Good1(answer, account) ==
               \A c : /\ c.front = calls[i].front /\ c.api = calls[i].api
                      /\ c.request = r /\ c.wanted = calls[i].wanted
                      /\ c.answer = answer /\ c.account = account
                      => (c.front # "tool" => Told(c)) /\ Shows(c)
<1>2. CASE Reaches
    <2>1. PICK caller \in Callers : \E answer \in Perform(r, caller) :
            Executed(i, [answer EXCEPT !.found = Shown(calls[i], @)], caller.account)
        BY <1>2 DEF Execute
    <2>a. PICK answer \in Perform(r, caller) :
            Executed(i, [answer EXCEPT !.found = Shown(calls[i], @)], caller.account)
        BY <2>1
    <2> DEFINE shown == Shown(calls[i], answer.found)
               told1 == [answer EXCEPT !.found = shown]
    <2>2. ASSUME calls[i].front # "tool"
          PROVE  /\ OfScript(r) /\ AnswerTo(r, caller, answer)
                 /\ r.userId = NoUser \/ (calls[i].api = "queryBundleActiveStates" /\ r.userId = 0)
                 /\ calls[i].front \in Checking => InOrder(r)
        BY <1>1, <2>2, PerformAnswers DEF Asked, Whose
    <2>s. ASSUME r.method = "QueryBundleStatsInfoByInterval"
          PROVE  /\ Summed(answer)
                 /\ KeptFor(calls[i], shown, answer.rows)
        <3>1. Summed(answer)
            BY <1>1, <2>s, StatsAnswers DEF Typed
        <3> QED BY <1>1, <3>1, ShownKeeps DEF Typed
    <2> HIDE DEF shown
    <2>3. ASSUME calls[i].front # "tool" PROVE told1.core = answer.core /\ told1.ret = answer.ret
        BY <2>2, <2>3 DEF AnswerTo, AnswerFields
    <2>t. ASSUME r.method = "QueryBundleStatsInfoByInterval"
          PROVE  told1.found = shown /\ told1.rows = answer.rows
        BY <2>s, <2>t DEF Summed, AnswerFields
    <2>4. Executed(i, told1, caller.account)
        BY <2>a DEF shown
    <2> HIDE DEF told1, r
    <2>5. ASSUME NEW c, c.front = calls[i].front, c.api = calls[i].api,
                 c.request = r, c.wanted = calls[i].wanted, c.answer = told1, c.account = caller.account
          PROVE  (c.front # "tool" => Told(c)) /\ Shows(c)
        <3>1. c.front # "tool" => Told(c)
            BY <2>2, <2>3, <2>5 DEF Told, AnswerTo, GetUserId, NoUser, Passed
        <3>2. ASSUME r.method = "QueryBundleStatsInfoByInterval" PROVE KeptFor(c, c.answer.found, c.answer.rows)
            <4>1. KeptFor(calls[i], shown, answer.rows) /\ c.answer.found = shown /\ c.answer.rows = answer.rows
                BY <2>s, <2>t, <2>5, <3>2
            <4>2. Meant(c, answer.rows) = Meant(calls[i], answer.rows)
                BY <2>5 DEF Meant, IsMeant
            <4> DEFINE meant == Meant(calls[i], answer.rows)
            <4>3. MeantTwice(c, meant) <=> MeantTwice(calls[i], meant)
                BY <2>5 DEF MeantTwice, IsMeant
            <4> HIDE DEF meant
            <4> QED BY <2>5, <4>1, <4>2, <4>3 DEF KeptFor, meant
        <3>3. Shows(c)
            BY <2>5, <3>2 DEF Shows
        <3> QED BY <3>1, <3>3
    <2>6. Good1(told1, caller.account)
        BY <2>5
    <2> QED BY <1>1, <2>4, <2>6, ExecutedKnown DEF Known, r
<1>3. CASE ~Reaches
    <2> DEFINE answer == Error("ERR_GET_SYSTEM_ABILITY_FAILED")
    <2>1. Executed(i, answer, NoUser)
        BY <1>3 DEF Execute
    <2>2. answer.core = NoCore /\ answer.ret \notin ParameterErrors /\ answer.found = answer.rows
        BY DEF Error, Answer, ParameterErrors
    <2> HIDE DEF answer
    <2>3. Good1(answer, NoUser)
        <3>1. answer.rows = {} /\ \A c : Meant(c, {}) = {}
            BY DEF answer, Error, Answer, Meant
        <3> QED BY <2>2, <3>1 DEF Told, Passed, Shows, KeptFor
    <2> QED BY <1>1, <2>1, <2>3, ExecutedKnown DEF Known
<1> QED BY <1>2, <1>3

\* Calls of observers do not matter.
LEMMA ObserverKnown ==
    ASSUME CallsType, QueryInv,
           NEW c, c \in {ObserverCall("register"), ObserverCall("unregister")},
           NEW phase, Called(c) \/ Called([c EXCEPT !.phase = phase])
    PROVE  QueryInv'
<1>1. /\ DOMAIN c = Fields /\ c.what # "query"
      /\ DOMAIN [c EXCEPT !.phase = phase] = Fields /\ [c EXCEPT !.phase = phase].what # "query"
    BY DEF ObserverCall, Fields
<1> QED BY <1>1, NewKnown DEF Known

LEMMA ObserverExecuted ==
    ASSUME CallsType, QueryInv, NEW i \in DOMAIN calls, ExecuteRegister(i) \/ ExecuteUnRegister(i)
    PROVE  QueryInv'
<1>1. calls[i].what # "query"
    BY DEF ExecuteRegister, ExecuteUnRegister, Phase
<1>2. PICK answer : Executed(i, answer, NoUser)
    BY DEF ExecuteRegister, ExecuteUnRegister
<1> QED BY <1>1, <1>2, ExecutedKnown DEF Known

LEMMA QueryNext == CallsType /\ QueryInv /\ [Next]_vars => QueryInv'
<1> SUFFICES ASSUME CallsType, QueryInv, [Next]_vars PROVE QueryInv'
    OBVIOUS
<1>1. CASE UNCHANGED calls
    BY <1>1 DEF QueryInv, Known, Asked, Told, Passed, Typed, Shows, KeptFor
<1>2. CASE ProcessDie
    <2>1. calls' = <<>> /\ DOMAIN calls' = {}
        BY <1>2 DEF ProcessDie
    <2> QED BY <2>1 DEF QueryInv
<1>3. CASE AScriptCalls
    <2>1. CASE \E of \in Outcomes : Queue(of) \/ Crashes(of)
        BY <1>2, <2>1, QueueKnown DEF Crashes
    <2>2. CASE \E argv \in Argvs : ParseRegister(argv) \/ ParseUnRegister(argv)
        BY <1>1, <2>2, ObserverKnown DEF ParseRegister, ParseUnRegister
    <2>3. CASE TaiheRegister \/ TaiheUnregister
        BY <2>3, ObserverKnown DEF TaiheRegister, TaiheUnregister
    <2> QED BY <1>3, <2>1, <2>2, <2>3 DEF AScriptCalls
<1>4. ASSUME NEW i \in DOMAIN calls, Work(i) PROVE QueryInv'
    BY <1>4, ExecuteKnown, ObserverExecuted DEF Work
<1>5. ASSUME NEW i \in DOMAIN calls, Deliver(i) PROVE QueryInv'
    BY <1>5, AnsweredKnown DEF Deliver, AnswerQuery, RegisterAppGroupCallBackAsyncCB,
        UnRegisterAppGroupCallBackAsyncCB, UndoRegister
<1>6. CASE Around
    BY <1>1, <1>6 DEF Around, callVars
<1> QED BY <1>1, <1>2, <1>3, <1>4, <1>5, <1>6 DEF Next, vars, callVars

LEMMA QueryInvariant == Spec => []QueryInv
<1>1. Init => QueryInv
    <2> SUFFICES ASSUME Init PROVE QueryInv
        OBVIOUS
    <2>1. calls = <<>> /\ DOMAIN calls = {}
        BY DEF Init
    <2> QED BY <2>1 DEF QueryInv
<1>2. QuietInv => CallsType
    BY DEF QuietInv
<1> QED BY <1>1, <1>2, QueryNext, QuietInvariant, PTL DEF Spec

\* Whichever script asks, with whatever arguments, the core is asked about the user the
\* caller belongs to, but for the one function that names user 0 (QueryBundleEventsAsync
\* of bundleState).
THEOREM AskedForTheirUser == Spec => []ScriptsAskForTheirUser
<1>1. QueryInv => ScriptsAskForTheirUser
    BY DEF QueryInv, Known, Told, ScriptsAskForTheirUser, Done
<1> QED BY <1>1, QueryInvariant, PTL

\* Whatever the parsing of usageStatistics and the checks of taihe let through, neither the
\* client library nor the service nor the core refuses for a parameter, but for times that
\* begin after now.
THEOREM ParametersPass == Spec => []NoParameterRefused
<1>1. QueryInv => NoParameterRefused
    BY DEF QueryInv, Known, Told, Passed, NoParameterRefused, Done, Checking
<1> QED BY <1>1, QueryInvariant, PTL

\* The front time a script is shown is the front time the core found of the applications
\* asked about, whatever rows there are and whatever is asked for, through the merging of
\* the service (MergePackageStats) and of the front end; but where BundleStateCommon adds
\* to a copy, for two uids of a bundle with one index, and where MergeAppStatsInfos of taihe
\* adds what QueryLastUseTime was asked for twice.
THEOREM TotalsAreKept == Spec => []TotalsKept
<1>1. QueryInv => TotalsKept
    BY DEF QueryInv, Known, Shows, KeptFor, TotalsKept, Done
<1> QED BY <1>1, QueryInvariant, PTL
=============================================================================
