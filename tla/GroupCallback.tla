---------------------------- MODULE GroupCallback ----------------------------
(***************************************************************************)
(* Observers of app groups.  A client process registers one observer with  *)
(* the service (groupChangeObservers_, keyed by the client's token) and    *)
(* remembers it (observer_).  Each side watches the other die: the service *)
(* drops the observer of a dead client, and the client, told that the      *)
(* service died, waits until the service is there again and registers the  *)
(* remembered observer a second time.                                      *)
(*                                                                         *)
(* Calls to the service are synchronous and made under mutex_ of the       *)
(* client; the service works under callbackMutex_.  What makes this hard   *)
(* is that both processes die at any time and that news of a death is late.*)
(* Clients are assumed to hold the permission the service asks for.        *)
(***************************************************************************)
EXTENDS Naturals

CONSTANTS
    Client,         \* client processes, each with its token
    MaxGen,         \* bound: how often the service is started
    MaxLife         \* bound: how often a client process is started
ASSUME CallbackAssumption == MaxGen \in Nat \ {0} /\ MaxLife \in Nat \ {0}

VARIABLES
    depsReady,              \* the services the start waits for are there
    service,                \* state of the service's process
    gen,                    \* incarnation of the service
    groupChangeObservers_,  \* per token the life of the client that registered, or 0
    recipientMap_,          \* observers whose death the service watches
    diedObservers,          \* deaths of observers the service has yet to handle
    life,                   \* life of each client process
    bundleActiveProxy_,     \* incarnation the client's proxy stands for, or 0
    observer_,              \* the client remembers its observer
    told,                   \* the client has yet to handle the service's death
    recovering              \* OnServiceDiedInner tasks that have yet to end

serviceVars == <<depsReady, service, gen>>
registryVars == <<groupChangeObservers_, recipientMap_, diedObservers>>
clientVars == <<life, bundleActiveProxy_, observer_, told, recovering>>
vars == <<serviceVars, registryVars, clientVars>>

\* An observer is an object of one life of one client.
Observer == Client \X (1 .. MaxLife)
None == 0

Init ==
    /\ depsReady = FALSE
    /\ service = "down"
    /\ gen = 0
    /\ groupChangeObservers_ = [c \in Client |-> None]
    /\ recipientMap_ = {}
    /\ diedObservers = {}
    /\ life = [c \in Client |-> 1]
    /\ bundleActiveProxy_ = [c \in Client |-> None]
    /\ observer_ = [c \in Client |-> FALSE]
    /\ told = [c \in Client |-> FALSE]
    /\ recovering = [c \in Client |-> 0]

-----------------------------------------------------------------------------
(* The service's process                                                   *)

\* The system ability manager starts the process.
OnStart ==
    /\ service = "down"
    /\ gen < MaxGen
    /\ service' = "starting"
    /\ gen' = gen + 1
    /\ UNCHANGED <<depsReady, registryVars, clientVars>>

\* The services InitNecessaryState asks for have all been started.
DepsStarted ==
    /\ ~depsReady
    /\ depsReady' = TRUE
    /\ UNCHANGED <<service, gen, registryVars, clientVars>>

\* InitNecessaryState asks again every two seconds; then it initialises the service,
\* with an empty registry, and publishes it.
InitNecessaryState ==
    /\ service = "starting"
    /\ depsReady
    /\ service' = "up"
    /\ UNCHANGED <<depsReady, gen, registryVars, clientVars>>

\* The process dies, and what it knew dies with it.  A client that has a proxy of it
\* is going to be told.  The last incarnation stays.
ServiceDie ==
    /\ service # "down"
    /\ gen < MaxGen
    /\ service' = "down"
    /\ groupChangeObservers_' = [c \in Client |-> None]
    /\ recipientMap_' = {}
    /\ diedObservers' = {}
    /\ told' = [c \in Client |-> told[c] \/ bundleActiveProxy_[c] = gen]
    /\ UNCHANGED <<depsReady, gen, life, bundleActiveProxy_, observer_, recovering>>

-----------------------------------------------------------------------------
(* Calls of the clients                                                    *)

\* GetBundleActiveProxy: the proxy the client has, or else one of a published service,
\* which comes with a death recipient.
GetBundleActiveProxy(c) ==
    IF bundleActiveProxy_[c] = None /\ service = "up" THEN gen ELSE bundleActiveProxy_[c]

\* A call over this proxy arrives.
Arrives(proxy) == service = "up" /\ proxy = gen

\* Mutant: nobody watches the observer.
AddObserverDeathRecipientNot(o) == UNCHANGED recipientMap_

AddObserverDeathRecipient(o) == recipientMap_' = recipientMap_ \cup {o}

\* RegisterAppGroupCallBack: a token that is registered is turned away.
Register(c) ==
    /\ bundleActiveProxy_' = [bundleActiveProxy_ EXCEPT ![c] = GetBundleActiveProxy(c)]
    /\ IF Arrives(GetBundleActiveProxy(c)) /\ groupChangeObservers_[c] = None
       THEN /\ groupChangeObservers_' = [groupChangeObservers_ EXCEPT ![c] = life[c]]
            /\ AddObserverDeathRecipient(<<c, life[c]>>)
            /\ observer_' = [observer_ EXCEPT ![c] = TRUE]
       ELSE UNCHANGED <<groupChangeObservers_, recipientMap_, observer_>>

RegisterAppGroupCallBack(c) ==
    /\ Register(c)
    /\ UNCHANGED <<serviceVars, diedObservers, life, told, recovering>>

\* UnRegisterAppGroupCallBack erases the entry of the token, whichever observer of the
\* token it holds.
UnRegisterAppGroupCallBack(c) ==
    /\ bundleActiveProxy_' = [bundleActiveProxy_ EXCEPT ![c] = GetBundleActiveProxy(c)]
    /\ IF Arrives(GetBundleActiveProxy(c)) /\ groupChangeObservers_[c] # None
       THEN /\ groupChangeObservers_' = [groupChangeObservers_ EXCEPT ![c] = None]
            /\ recipientMap_' = recipientMap_ \ {<<c, groupChangeObservers_[c]>>}
            /\ observer_' = [observer_ EXCEPT ![c] = FALSE]
       ELSE UNCHANGED <<groupChangeObservers_, recipientMap_, observer_>>
    /\ UNCHANGED <<serviceVars, diedObservers, life, told, recovering>>

\* Any other call of the client library finds the proxy in the same way.
OtherCall(c) ==
    /\ bundleActiveProxy_' = [bundleActiveProxy_ EXCEPT ![c] = GetBundleActiveProxy(c)]
    /\ UNCHANGED <<serviceVars, registryVars, life, observer_, told, recovering>>

-----------------------------------------------------------------------------
(* The client is told that the service died                                *)

\* Mutant: the dead proxy is kept.
OnRemoteDiedKeepsProxy(c) ==
    /\ told[c]
    /\ told' = [told EXCEPT ![c] = FALSE]
    /\ recovering' = [recovering EXCEPT ![c] = @ + 1]
    /\ UNCHANGED <<serviceVars, registryVars, life, bundleActiveProxy_, observer_>>

\* OnRemoteDied: forget the proxy, and submit OnServiceDiedInner with a delay.
OnRemoteDied(c) ==
    /\ told[c]
    /\ told' = [told EXCEPT ![c] = FALSE]
    /\ bundleActiveProxy_' = [bundleActiveProxy_ EXCEPT ![c] = None]
    /\ recovering' = [recovering EXCEPT ![c] = @ + 1]
    /\ UNCHANGED <<serviceVars, registryVars, life, observer_>>

\* Mutant: a client that finds no service gives up.
OnServiceDiedInnerOnce(c) ==
    /\ recovering[c] > 0
    /\ recovering' = [recovering EXCEPT ![c] = @ - 1]
    /\ IF observer_[c] THEN Register(c)
       ELSE UNCHANGED <<groupChangeObservers_, recipientMap_, bundleActiveProxy_, observer_>>
    /\ UNCHANGED <<serviceVars, diedObservers, life, told>>

\* OnServiceDiedInner sleeps until there is a proxy, and registers what it remembers.
OnServiceDiedInner(c) ==
    /\ recovering[c] > 0
    /\ GetBundleActiveProxy(c) # None
    /\ recovering' = [recovering EXCEPT ![c] = @ - 1]
    /\ IF observer_[c]
       THEN Register(c)
       ELSE /\ bundleActiveProxy_' = [bundleActiveProxy_ EXCEPT ![c] = GetBundleActiveProxy(c)]
            /\ UNCHANGED <<groupChangeObservers_, recipientMap_, observer_>>
    /\ UNCHANGED <<serviceVars, diedObservers, life, told>>

-----------------------------------------------------------------------------
(* The service is told that a client died                                  *)

\* A client process dies, and is started again knowing nothing.  The service is told
\* if it watches the observer.
ClientDie(c) ==
    /\ life[c] < MaxLife
    /\ life' = [life EXCEPT ![c] = @ + 1]
    /\ diedObservers' = diedObservers \cup ({<<c, life[c]>>} \cap recipientMap_)
    /\ bundleActiveProxy_' = [bundleActiveProxy_ EXCEPT ![c] = None]
    /\ observer_' = [observer_ EXCEPT ![c] = FALSE]
    /\ told' = [told EXCEPT ![c] = FALSE]
    /\ recovering' = [recovering EXCEPT ![c] = 0]
    /\ UNCHANGED <<serviceVars, groupChangeObservers_, recipientMap_>>

\* Mutant: the entry of the token goes, whichever observer it holds.
EraseByToken(o) ==
    groupChangeObservers_' = [groupChangeObservers_ EXCEPT ![o[1]] = None]

\* Mutant: no entry goes.
EraseNone(o) == UNCHANGED groupChangeObservers_

\* The entry that holds this very object goes.
EraseObserver(o) ==
    groupChangeObservers_' =
        [c \in Client |-> IF <<c, groupChangeObservers_[c]>> = o THEN None
                          ELSE groupChangeObservers_[c]]

\* OnObserverDied hands the object to the group queue, which runs OnObserverDiedInner.
OnObserverDiedInner(o) ==
    /\ o \in diedObservers
    /\ diedObservers' = diedObservers \ {o}
    /\ EraseObserver(o)
    /\ recipientMap_' = recipientMap_ \ {o}
    /\ UNCHANGED <<serviceVars, clientVars>>

-----------------------------------------------------------------------------
Next ==
    \/ OnStart \/ DepsStarted \/ InitNecessaryState \/ ServiceDie
    \/ \E c \in Client :
        \/ RegisterAppGroupCallBack(c) \/ UnRegisterAppGroupCallBack(c)
        \/ OtherCall(c) \/ OnRemoteDied(c) \/ OnServiceDiedInner(c)
        \/ ClientDie(c)
    \/ \E o \in Observer : OnObserverDiedInner(o)

Spec == Init /\ [][Next]_vars

\* The manager restarts the service, the services it waits for come, notices of death
\* arrive and submitted tasks run.  Nobody is obliged to register or to die.
Fairness ==
    /\ WF_vars(OnStart) /\ WF_vars(DepsStarted) /\ WF_vars(InitNecessaryState)
    /\ \A c \in Client : WF_vars(OnRemoteDied(c)) /\ WF_vars(OnServiceDiedInner(c))
    /\ \A o \in Observer : WF_vars(OnObserverDiedInner(o))

FairSpec == Spec /\ Fairness

-----------------------------------------------------------------------------
\* Type invariant.  A client has at most one recovery task per death of the service.
TypeOK ==
    /\ depsReady \in BOOLEAN
    /\ service \in {"down", "starting", "up"}
    /\ gen \in 0 .. MaxGen
    /\ groupChangeObservers_ \in [Client -> 0 .. MaxLife]
    /\ recipientMap_ \subseteq Observer
    /\ diedObservers \subseteq Observer
    /\ life \in [Client -> 1 .. MaxLife]
    /\ bundleActiveProxy_ \in [Client -> 0 .. MaxGen]
    /\ observer_ \in [Client -> BOOLEAN]
    /\ told \in [Client -> BOOLEAN]
    /\ recovering \in [Client -> 0 .. MaxGen]

\* The proxy of the incarnation that is published now.
ProxyIsLive(c) == Arrives(bundleActiveProxy_[c])

\* OnRemoteDied: a client whose proxy is dead is going to be told.  GetBundleActiveProxy
\* never replaces a proxy, so a dead one nobody reports would make every later call of
\* the client fail.
DeadProxyIsReported ==
    \A c \in Client :
        bundleActiveProxy_[c] # None /\ ~ProxyIsLive(c) => told[c]

\* The service keeps an observer of a dead client only until OnObserverDiedInner has
\* run: such an entry would turn every later life of the client away.
DeadObserverIsReported ==
    \A c \in Client :
        groupChangeObservers_[c] \notin {None, life[c]}
            => <<c, groupChangeObservers_[c]>> \in diedObservers

\* A client that was told its observer is registered, and did not unregister it, is
\* registered with that observer, or a recovery is on its way.  Neither the death of
\* the service nor late news of an earlier life of the client takes the registration
\* away for good.
RememberedIsRegistered ==
    \A c \in Client :
        observer_[c] => \/ groupChangeObservers_[c] = life[c]
                        \/ told[c]
                        \/ recovering[c] > 0

\* After a death of the service the observer a client remembers is registered again
\* (OnServiceDiedInner), unless the client unregisters it or dies.
Resubscribed ==
    \A c \in Client :
        observer_[c] ~> (groupChangeObservers_[c] = life[c] \/ ~observer_[c])

\* The entry of a dead client leaves the registry, so that its next life can register.
DeadObserverLeaves ==
    \A c \in Client :
        (groupChangeObservers_[c] # None)
            ~> (groupChangeObservers_[c] \in {None, life[c]})

=============================================================================
