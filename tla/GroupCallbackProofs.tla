------------------------- MODULE GroupCallbackProofs -------------------------
(***************************************************************************)
(* Proofs about GroupCallback, for every set of clients and every number   *)
(* of deaths of the service and of the clients.                            *)
(***************************************************************************)
EXTENDS GroupCallback, TLAPS

\* The parts of the inductive invariant that no run asks for on their own: the service
\* watches every observer of a living client, news of a death is about an earlier life,
\* a client that finds an entry of an earlier life has not been told it is registered,
\* and one that has been told has a proxy or a recovery.
Watched ==
    \A c \in Client :
        groupChangeObservers_[c] = life[c] => <<c, life[c]>> \in recipientMap_
NewsIsOld == \A o \in diedObservers : o[2] < life[o[1]]
OldEntryNotRemembered ==
    \A c \in Client : groupChangeObservers_[c] \notin {None, life[c]} => ~observer_[c]
RememberedHasProxy ==
    \A c \in Client :
        observer_[c] => bundleActiveProxy_[c] # None \/ told[c] \/ recovering[c] > 0
Deaths == IF service = "down" THEN gen ELSE gen - 1
OneRecoveryPerDeath ==
    \A c \in Client : /\ recovering[c] <= Deaths
                      /\ told[c] => recovering[c] < Deaths
Started == gen = 0 => service = "down"

CallbackInv ==
    /\ TypeOK /\ Started /\ DeadProxyIsReported /\ DeadObserverIsReported
    /\ RememberedIsRegistered /\ Watched /\ NewsIsOld /\ OldEntryNotRemembered
    /\ RememberedHasProxy /\ OneRecoveryPerDeath

-----------------------------------------------------------------------------
\* What GetBundleActiveProxy returns: a proxy the client had, or one of the service
\* that is published now.
LEMMA ProxyFact ==
    ASSUME TypeOK, NEW c \in Client
    PROVE  /\ GetBundleActiveProxy(c) \in 0 .. MaxGen
           /\ bundleActiveProxy_[c] # None => GetBundleActiveProxy(c) = bundleActiveProxy_[c]
           /\ bundleActiveProxy_[c] = None /\ GetBundleActiveProxy(c) # None
                => Arrives(GetBundleActiveProxy(c))
    BY DEF TypeOK, GetBundleActiveProxy, Arrives, None

\* The types of what Register assigns.
LEMMA RegisterType ==
    ASSUME TypeOK, NEW c \in Client, Register(c)
    PROVE  /\ bundleActiveProxy_' \in [Client -> 0 .. MaxGen]
           /\ groupChangeObservers_' \in [Client -> 0 .. MaxLife]
           /\ recipientMap_' \subseteq Observer
           /\ observer_' \in [Client -> BOOLEAN]
<1>1. bundleActiveProxy_' \in [Client -> 0 .. MaxGen]
    <2>1. PICK p \in 0 .. MaxGen : bundleActiveProxy_' = [bundleActiveProxy_ EXCEPT ![c] = p]
        BY ProxyFact DEF Register
    <2> QED BY <2>1 DEF TypeOK
<1>2. PICK l \in 1 .. MaxLife : l = life[c]
    BY DEF TypeOK
<1>3. \/ /\ groupChangeObservers_' = [groupChangeObservers_ EXCEPT ![c] = l]
         /\ recipientMap_' = recipientMap_ \cup {<<c, l>>}
         /\ observer_' = [observer_ EXCEPT ![c] = TRUE]
      \/ UNCHANGED <<groupChangeObservers_, recipientMap_, observer_>>
    BY <1>2 DEF Register, AddObserverDeathRecipient
<1>4. groupChangeObservers_' \in [Client -> 0 .. MaxLife]
    BY <1>3, CallbackAssumption DEF TypeOK
<1>5. recipientMap_' \subseteq Observer
    BY <1>3 DEF TypeOK, Observer
<1>6. observer_' \in [Client -> BOOLEAN]
    BY <1>3 DEF TypeOK
<1> QED BY <1>1, <1>4, <1>5, <1>6

\* What Register does to each client: the client that calls is registered with its
\* present observer and remembers it, or nothing but its proxy changes.
LEMMA RegisterEffect ==
    ASSUME TypeOK, NEW c \in Client, Register(c)
    PROVE  /\ \A d \in Client \ {c} :
                /\ groupChangeObservers_'[d] = groupChangeObservers_[d]
                /\ observer_'[d] = observer_[d]
                /\ bundleActiveProxy_'[d] = bundleActiveProxy_[d]
           /\ bundleActiveProxy_'[c] = GetBundleActiveProxy(c)
           /\ recipientMap_ \subseteq recipientMap_'
           /\ \/ /\ Arrives(GetBundleActiveProxy(c)) /\ groupChangeObservers_[c] = None
                 /\ groupChangeObservers_'[c] = life[c]
                 /\ observer_'[c] = TRUE
                 /\ <<c, life[c]>> \in recipientMap_'
              \/ /\ ~Arrives(GetBundleActiveProxy(c)) \/ groupChangeObservers_[c] # None
                 /\ groupChangeObservers_'[c] = groupChangeObservers_[c]
                 /\ observer_'[c] = observer_[c]
<1>1. bundleActiveProxy_' = [bundleActiveProxy_ EXCEPT ![c] = GetBundleActiveProxy(c)]
    BY DEF Register
<1>2. CASE Arrives(GetBundleActiveProxy(c)) /\ groupChangeObservers_[c] = None
    BY <1>1, <1>2 DEF Register, AddObserverDeathRecipient, TypeOK
<1>3. CASE ~(Arrives(GetBundleActiveProxy(c)) /\ groupChangeObservers_[c] = None)
    BY <1>1, <1>3 DEF Register, TypeOK
<1> QED BY <1>2, <1>3

\* One step of the model keeps the type invariant.
LEMMA TypeStep == CallbackInv /\ [Next]_vars => TypeOK'
<1> SUFFICES ASSUME CallbackInv, [Next]_vars PROVE TypeOK'
    OBVIOUS
<1> USE CallbackAssumption DEF CallbackInv, TypeOK, Observer, None
<1>1. CASE OnStart
    BY <1>1 DEF OnStart, registryVars, clientVars
<1>2. CASE DepsStarted
    BY <1>2 DEF DepsStarted, registryVars, clientVars
<1>3. CASE InitNecessaryState
    BY <1>3 DEF InitNecessaryState, registryVars, clientVars
<1>4. CASE ServiceDie
    BY <1>4 DEF ServiceDie
<1>5. ASSUME NEW c \in Client, RegisterAppGroupCallBack(c) PROVE TypeOK'
    BY <1>5, RegisterType DEF RegisterAppGroupCallBack, serviceVars
<1>6. ASSUME NEW c \in Client, UnRegisterAppGroupCallBack(c) PROVE TypeOK'
    <2>1. PICK p \in 0 .. MaxGen : bundleActiveProxy_' = [bundleActiveProxy_ EXCEPT ![c] = p]
        BY <1>6, ProxyFact DEF UnRegisterAppGroupCallBack
    <2>2. bundleActiveProxy_' \in [Client -> 0 .. MaxGen]
        BY <2>1
    <2>3. /\ groupChangeObservers_' \in [Client -> 0 .. MaxLife]
          /\ recipientMap_' \subseteq Observer
        BY <1>6 DEF UnRegisterAppGroupCallBack
    <2>4. observer_' \in [Client -> BOOLEAN]
        BY <1>6 DEF UnRegisterAppGroupCallBack
    <2> QED BY <1>6, <2>2, <2>3, <2>4 DEF UnRegisterAppGroupCallBack, serviceVars
<1>7. ASSUME NEW c \in Client, OnRemoteDied(c) PROVE TypeOK'
    BY <1>7 DEF OnRemoteDied, OneRecoveryPerDeath, Deaths, serviceVars, registryVars
<1>8. ASSUME NEW c \in Client, OnServiceDiedInner(c) PROVE TypeOK'
    <2>1. recovering' \in [Client -> 0 .. MaxGen]
        BY <1>8 DEF OnServiceDiedInner
    <2>2. CASE observer_[c]
        BY <1>8, <2>1, <2>2, RegisterType DEF OnServiceDiedInner, serviceVars
    <2>3. CASE ~observer_[c]
        <3>1. PICK p \in 0 .. MaxGen : bundleActiveProxy_' = [bundleActiveProxy_ EXCEPT ![c] = p]
            BY <1>8, <2>3, ProxyFact DEF OnServiceDiedInner
        <3>2. bundleActiveProxy_' \in [Client -> 0 .. MaxGen]
            BY <3>1
        <3> QED BY <1>8, <2>1, <2>3, <3>2 DEF OnServiceDiedInner, serviceVars
    <2> QED BY <2>2, <2>3
<1>9. ASSUME NEW c \in Client, ClientDie(c) PROVE TypeOK'
    BY <1>9 DEF ClientDie, serviceVars
<1>10. ASSUME NEW o \in Observer, OnObserverDiedInner(o) PROVE TypeOK'
    BY <1>10 DEF OnObserverDiedInner, EraseObserver, serviceVars, clientVars
<1>11. ASSUME NEW c \in Client, OtherCall(c) PROVE TypeOK'
    <2>1. PICK p \in 0 .. MaxGen : bundleActiveProxy_' = [bundleActiveProxy_ EXCEPT ![c] = p]
        BY <1>11, ProxyFact DEF OtherCall
    <2>2. bundleActiveProxy_' \in [Client -> 0 .. MaxGen]
        BY <2>1
    <2> QED BY <1>11, <2>2 DEF OtherCall, serviceVars, registryVars
<1>12. CASE UNCHANGED vars
    BY <1>12 DEF vars, serviceVars, registryVars, clientVars
<1> QED
    BY <1>1, <1>2, <1>3, <1>4, <1>5, <1>6, <1>7, <1>8, <1>9, <1>10, <1>11, <1>12 DEF Next

\* The service's own steps, and the client's step when it is told of a death.
LEMMA ServiceStep ==
    ASSUME CallbackInv, TypeOK',
           OnStart \/ DepsStarted \/ InitNecessaryState \/ ServiceDie
    PROVE  CallbackInv'
<1> USE DEF CallbackInv, None
<1>1. CASE OnStart
    BY <1>1 DEF OnStart, registryVars, clientVars, TypeOK, Started, DeadProxyIsReported, ProxyIsLive,
        Arrives, DeadObserverIsReported, RememberedIsRegistered, Watched, NewsIsOld,
        OldEntryNotRemembered, RememberedHasProxy, OneRecoveryPerDeath, Deaths
<1>2. CASE DepsStarted
    BY <1>2 DEF DepsStarted, registryVars, clientVars, TypeOK, Started, DeadProxyIsReported, ProxyIsLive,
        Arrives, DeadObserverIsReported, RememberedIsRegistered, Watched, NewsIsOld,
        OldEntryNotRemembered, RememberedHasProxy, OneRecoveryPerDeath, Deaths
<1>3. CASE InitNecessaryState
    BY <1>3 DEF InitNecessaryState, registryVars, clientVars, TypeOK, Started, DeadProxyIsReported,
        ProxyIsLive, Arrives, DeadObserverIsReported, RememberedIsRegistered, Watched, NewsIsOld,
        OldEntryNotRemembered, RememberedHasProxy, OneRecoveryPerDeath, Deaths
<1>4. CASE ServiceDie
    <2>1. Started' /\ Watched' /\ NewsIsOld' /\ DeadObserverIsReported' /\ OldEntryNotRemembered'
        BY <1>4 DEF ServiceDie, TypeOK, Started, Watched, NewsIsOld, DeadObserverIsReported,
            OldEntryNotRemembered
    <2>2. DeadProxyIsReported'
        BY <1>4 DEF ServiceDie, TypeOK, DeadProxyIsReported, ProxyIsLive, Arrives
    <2>3. RememberedIsRegistered' /\ RememberedHasProxy'
        BY <1>4 DEF ServiceDie, TypeOK, DeadProxyIsReported, ProxyIsLive, Arrives,
            RememberedIsRegistered, RememberedHasProxy
    <2>4. OneRecoveryPerDeath'
        BY <1>4 DEF ServiceDie, TypeOK, OneRecoveryPerDeath, Deaths, Started
    <2> QED BY <2>1, <2>2, <2>3, <2>4
<1> QED BY <1>1, <1>2, <1>3, <1>4

\* A client registers, on its own account or in a recovery task (which then ends).
LEMMA RegisterStep ==
    ASSUME CallbackInv, TypeOK', NEW c \in Client, Register(c),
           UNCHANGED <<serviceVars, diedObservers, life, told>>,
           \A d \in Client \ {c} : recovering'[d] = recovering[d],
           \/ recovering'[c] = recovering[c]
           \/ GetBundleActiveProxy(c) # None /\ recovering'[c] = recovering[c] - 1
    PROVE  CallbackInv'
<1> USE DEF CallbackInv, None
<1>1. /\ \A d \in Client \ {c} :
           /\ groupChangeObservers_'[d] = groupChangeObservers_[d]
           /\ observer_'[d] = observer_[d]
           /\ bundleActiveProxy_'[d] = bundleActiveProxy_[d]
      /\ bundleActiveProxy_'[c] = GetBundleActiveProxy(c)
      /\ recipientMap_ \subseteq recipientMap_'
    BY RegisterEffect
<1>2. \/ /\ Arrives(GetBundleActiveProxy(c)) /\ groupChangeObservers_[c] = None
         /\ groupChangeObservers_'[c] = life[c]
         /\ observer_'[c] = TRUE
         /\ <<c, life[c]>> \in recipientMap_'
      \/ /\ ~Arrives(GetBundleActiveProxy(c)) \/ groupChangeObservers_[c] # None
         /\ groupChangeObservers_'[c] = groupChangeObservers_[c]
         /\ observer_'[c] = observer_[c]
    BY RegisterEffect
<1>3. /\ bundleActiveProxy_[c] # None => GetBundleActiveProxy(c) = bundleActiveProxy_[c]
      /\ bundleActiveProxy_[c] = None /\ GetBundleActiveProxy(c) # None
           => Arrives(GetBundleActiveProxy(c))
    BY ProxyFact
<1>4. DeadProxyIsReported'
    BY <1>1, <1>3 DEF DeadProxyIsReported, ProxyIsLive, Arrives, TypeOK, serviceVars
<1>5. DeadObserverIsReported'
    BY <1>1, <1>2 DEF DeadObserverIsReported, TypeOK
<1>6. RememberedIsRegistered'
    <2>1. ASSUME NEW d \in Client \ {c}, observer_'[d]
          PROVE  groupChangeObservers_'[d] = life'[d] \/ told'[d] \/ recovering'[d] > 0
        BY <1>1, <2>1 DEF RememberedIsRegistered
    <2>2. ASSUME observer_'[c]
          PROVE  groupChangeObservers_'[c] = life'[c] \/ told'[c] \/ recovering'[c] > 0
        <3>1. CASE groupChangeObservers_'[c] = life[c]
            BY <3>1
        <3>2. CASE /\ ~Arrives(GetBundleActiveProxy(c)) \/ groupChangeObservers_[c] # None
                   /\ groupChangeObservers_'[c] = groupChangeObservers_[c]
                   /\ observer_'[c] = observer_[c]
            <4>1. CASE groupChangeObservers_[c] # None
                BY <2>2, <3>2, <4>1 DEF OldEntryNotRemembered
            <4>2. CASE ~Arrives(GetBundleActiveProxy(c)) /\ GetBundleActiveProxy(c) # None
                BY <1>3, <4>2 DEF DeadProxyIsReported, ProxyIsLive
            <4>3. CASE GetBundleActiveProxy(c) = None
                BY <2>2, <3>2, <4>3 DEF RememberedIsRegistered
            <4> QED BY <3>2, <4>1, <4>2, <4>3
        <3> QED BY <1>2, <3>1, <3>2
    <2> QED BY <2>1, <2>2 DEF RememberedIsRegistered
<1>7. Watched'
    BY <1>1, <1>2 DEF Watched, TypeOK
<1>8. NewsIsOld' /\ Started'
    BY DEF NewsIsOld, Started, serviceVars
<1>9. OldEntryNotRemembered'
    BY <1>1, <1>2 DEF OldEntryNotRemembered
<1>10. RememberedHasProxy'
    <2>1. GetBundleActiveProxy(c) = None => bundleActiveProxy_[c] = None
        BY <1>3
    <2>2. Arrives(GetBundleActiveProxy(c)) => GetBundleActiveProxy(c) # None
        BY DEF Arrives, Started, TypeOK
    <2> QED BY <1>1, <1>2, <2>1, <2>2 DEF RememberedHasProxy
<1>11. OneRecoveryPerDeath'
    BY DEF OneRecoveryPerDeath, Deaths, TypeOK, serviceVars
<1> QED BY <1>4, <1>5, <1>6, <1>7, <1>8, <1>9, <1>10, <1>11

\* A client unregisters.
LEMMA UnRegisterStep ==
    ASSUME CallbackInv, TypeOK', NEW c \in Client, UnRegisterAppGroupCallBack(c)
    PROVE  CallbackInv'
<1> USE DEF CallbackInv, None
<1>1. /\ bundleActiveProxy_' = [bundleActiveProxy_ EXCEPT ![c] = GetBundleActiveProxy(c)]
      /\ UNCHANGED <<service, gen, diedObservers, life, told, recovering>>
    BY DEF UnRegisterAppGroupCallBack, serviceVars
<1>2. \/ /\ groupChangeObservers_' = [groupChangeObservers_ EXCEPT ![c] = None]
         /\ recipientMap_' = recipientMap_ \ {<<c, groupChangeObservers_[c]>>}
         /\ observer_' = [observer_ EXCEPT ![c] = FALSE]
      \/ UNCHANGED <<groupChangeObservers_, recipientMap_, observer_>>
    BY DEF UnRegisterAppGroupCallBack
<1>3. /\ bundleActiveProxy_[c] # None => GetBundleActiveProxy(c) = bundleActiveProxy_[c]
      /\ bundleActiveProxy_[c] = None /\ GetBundleActiveProxy(c) # None
           => Arrives(GetBundleActiveProxy(c))
    BY ProxyFact
<1>4. DeadProxyIsReported' /\ RememberedHasProxy'
    BY <1>1, <1>2, <1>3 DEF DeadProxyIsReported, RememberedHasProxy, ProxyIsLive, Arrives, TypeOK
<1>5. DeadObserverIsReported' /\ RememberedIsRegistered' /\ OldEntryNotRemembered'
    BY <1>1, <1>2 DEF DeadObserverIsReported, RememberedIsRegistered, OldEntryNotRemembered, TypeOK
<1>6. Watched'
    BY <1>1, <1>2 DEF Watched, TypeOK
<1>7. NewsIsOld' /\ Started' /\ OneRecoveryPerDeath'
    BY <1>1 DEF NewsIsOld, Started, OneRecoveryPerDeath, Deaths
<1> QED BY <1>4, <1>5, <1>6, <1>7

\* A client makes another call, which may give it a proxy.
LEMMA OtherCallStep ==
    ASSUME CallbackInv, TypeOK', NEW c \in Client, OtherCall(c)
    PROVE  CallbackInv'
<1> USE DEF CallbackInv, None
<1>1. /\ bundleActiveProxy_' = [bundleActiveProxy_ EXCEPT ![c] = GetBundleActiveProxy(c)]
      /\ UNCHANGED <<service, gen, groupChangeObservers_, recipientMap_, diedObservers, life,
                     observer_, told, recovering>>
    BY DEF OtherCall, serviceVars, registryVars
<1>2. /\ bundleActiveProxy_[c] # None => GetBundleActiveProxy(c) = bundleActiveProxy_[c]
      /\ bundleActiveProxy_[c] = None /\ GetBundleActiveProxy(c) # None
           => Arrives(GetBundleActiveProxy(c))
    BY ProxyFact
<1>3. DeadProxyIsReported' /\ RememberedHasProxy'
    BY <1>1, <1>2 DEF DeadProxyIsReported, RememberedHasProxy, ProxyIsLive, Arrives, TypeOK
<1>4. DeadObserverIsReported' /\ RememberedIsRegistered' /\ OldEntryNotRemembered'
    BY <1>1 DEF DeadObserverIsReported, RememberedIsRegistered, OldEntryNotRemembered
<1>5. Watched' /\ NewsIsOld' /\ Started' /\ OneRecoveryPerDeath'
    BY <1>1 DEF Watched, NewsIsOld, Started, OneRecoveryPerDeath, Deaths
<1> QED BY <1>3, <1>4, <1>5

\* A death is handled, on either side, or a client dies.
LEMMA DeathStep ==
    ASSUME CallbackInv, TypeOK',
           \/ \E c \in Client : OnRemoteDied(c) \/ ClientDie(c)
           \/ \E o \in Observer : OnObserverDiedInner(o)
    PROVE  CallbackInv'
<1> USE DEF CallbackInv, None
<1>1. ASSUME NEW c \in Client, OnRemoteDied(c) PROVE CallbackInv'
    BY <1>1 DEF OnRemoteDied, serviceVars, registryVars, TypeOK, Started, DeadProxyIsReported,
        ProxyIsLive, Arrives, DeadObserverIsReported, RememberedIsRegistered, Watched, NewsIsOld,
        OldEntryNotRemembered, RememberedHasProxy, OneRecoveryPerDeath, Deaths
<1>2. ASSUME NEW c \in Client, ClientDie(c) PROVE CallbackInv'
    <2>1. PICK l \in 1 .. MaxLife : l = life[c]
        BY DEF TypeOK
    <2>2. /\ life' = [life EXCEPT ![c] = l + 1]
          /\ bundleActiveProxy_' = [bundleActiveProxy_ EXCEPT ![c] = None]
          /\ observer_' = [observer_ EXCEPT ![c] = FALSE]
          /\ told' = [told EXCEPT ![c] = FALSE]
          /\ recovering' = [recovering EXCEPT ![c] = 0]
          /\ UNCHANGED <<depsReady, service, gen, groupChangeObservers_, recipientMap_>>
        BY <1>2, <2>1 DEF ClientDie, serviceVars
    <2>3. /\ diedObservers \subseteq diedObservers'
          /\ <<c, l>> \in recipientMap_ => <<c, l>> \in diedObservers'
          /\ \A o \in diedObservers' : o \in diedObservers \/ o = <<c, l>>
        BY <1>2, <2>1 DEF ClientDie
    <2>4. NewsIsOld'
        <3> SUFFICES ASSUME NEW o \in diedObservers' PROVE o[2] < life'[o[1]]
            BY DEF NewsIsOld
        <3>1. CASE o = <<c, l>>
            BY <2>1, <2>2, <3>1 DEF TypeOK
        <3>2. CASE o \in diedObservers
            <4>1. PICK d \in Client, k \in 1 .. MaxLife : o = <<d, k>>
                BY <3>2 DEF TypeOK, Observer
            <4>2. k < life[d]
                BY <3>2, <4>1 DEF NewsIsOld
            <4> QED BY <2>1, <2>2, <4>1, <4>2 DEF TypeOK
        <3> QED BY <2>3, <3>1, <3>2
    <2>5. DeadObserverIsReported'
        <3>1. groupChangeObservers_[c] = l => <<c, l>> \in recipientMap_
            BY <2>1 DEF Watched
        <3> QED BY <2>1, <2>2, <2>3, <3>1 DEF DeadObserverIsReported, TypeOK
    <2>6. Watched'
        <3>1. groupChangeObservers_[c] # l + 1
            <4>1. CASE groupChangeObservers_[c] \in {None, l}
                BY <4>1
            <4>2. CASE groupChangeObservers_[c] \notin {None, l}
                <5>1. <<c, groupChangeObservers_[c]>> \in diedObservers
                    BY <2>1, <4>2 DEF DeadObserverIsReported
                <5>2. groupChangeObservers_[c] < l
                    BY <2>1, <5>1 DEF NewsIsOld
                <5> QED BY <5>2 DEF TypeOK
            <4> QED BY <4>1, <4>2
        <3> QED BY <2>2, <3>1 DEF Watched, TypeOK
    <2>7. DeadProxyIsReported' /\ RememberedIsRegistered' /\ RememberedHasProxy' /\ OldEntryNotRemembered'
        <3>1. \A d \in Client : observer_'[d] => d # c
            BY <2>2 DEF TypeOK
        <3>2. RememberedIsRegistered' /\ RememberedHasProxy' /\ OldEntryNotRemembered'
            BY <2>2, <3>1 DEF RememberedIsRegistered, RememberedHasProxy, OldEntryNotRemembered, TypeOK
        <3>3. DeadProxyIsReported'
            BY <2>2 DEF DeadProxyIsReported, ProxyIsLive, Arrives, TypeOK
        <3> QED BY <3>2, <3>3
    <2>8. Started' /\ OneRecoveryPerDeath'
        BY <2>2 DEF Started, OneRecoveryPerDeath, Deaths, TypeOK
    <2> QED BY <2>4, <2>5, <2>6, <2>7, <2>8
<1>3. ASSUME NEW o \in Observer, OnObserverDiedInner(o) PROVE CallbackInv'
    <2>1. PICK c \in Client, l \in 1 .. MaxLife : o = <<c, l>>
        BY DEF Observer
    <2>2. l < life[c]
        BY <1>3, <2>1 DEF OnObserverDiedInner, NewsIsOld
    <2>3. \A d \in Client : \/ groupChangeObservers_'[d] = groupChangeObservers_[d]
                            \/ d = c /\ groupChangeObservers_[d] = l /\ groupChangeObservers_'[d] = None
        BY <1>3, <2>1 DEF OnObserverDiedInner, EraseObserver, TypeOK
    <2>4. groupChangeObservers_[c] = l => groupChangeObservers_'[c] = None
        BY <1>3, <2>1 DEF OnObserverDiedInner, EraseObserver
    <2>5. /\ diedObservers' = diedObservers \ {<<c, l>>}
          /\ recipientMap_' = recipientMap_ \ {<<c, l>>}
          /\ UNCHANGED <<serviceVars, clientVars>>
        BY <1>3, <2>1 DEF OnObserverDiedInner
    <2>6. DeadObserverIsReported' /\ OldEntryNotRemembered'
        BY <2>3, <2>4, <2>5 DEF DeadObserverIsReported, OldEntryNotRemembered, TypeOK, clientVars
    <2>7. Watched'
        BY <2>2, <2>3, <2>5 DEF Watched, TypeOK, clientVars
    <2>8. RememberedIsRegistered'
        BY <2>2, <2>3, <2>5 DEF RememberedIsRegistered, TypeOK, clientVars
    <2>9. Started' /\ NewsIsOld' /\ RememberedHasProxy' /\ OneRecoveryPerDeath' /\ DeadProxyIsReported'
        BY <2>5 DEF Started, NewsIsOld, RememberedHasProxy, OneRecoveryPerDeath, Deaths,
            DeadProxyIsReported, ProxyIsLive, Arrives, serviceVars, clientVars
    <2> QED BY <2>6, <2>7, <2>8, <2>9
<1> QED BY <1>1, <1>2, <1>3

-----------------------------------------------------------------------------
\* The inductive invariant holds in every reachable state.
THEOREM CallbackInvariant == Spec => []CallbackInv
<1>1. Init => CallbackInv
    <2> SUFFICES ASSUME Init PROVE CallbackInv
        OBVIOUS
    <2>1. TypeOK
        <3>1. 0 \in 0 .. MaxGen /\ 0 \in 0 .. MaxLife /\ 1 \in 1 .. MaxLife
            BY CallbackAssumption
        <3> QED BY <3>1, Zenon DEF Init, TypeOK, None
    <2>2. Started /\ OneRecoveryPerDeath
        BY DEF Init, Started, OneRecoveryPerDeath, Deaths
    <2>3. /\ DeadProxyIsReported /\ DeadObserverIsReported /\ RememberedIsRegistered
          /\ OldEntryNotRemembered /\ RememberedHasProxy
        BY DEF Init, DeadProxyIsReported, DeadObserverIsReported, RememberedIsRegistered,
            OldEntryNotRemembered, RememberedHasProxy, None
    <2>4. Watched /\ NewsIsOld
        BY DEF Init, Watched, NewsIsOld, None
    <2> QED BY <2>1, <2>2, <2>3, <2>4 DEF CallbackInv
<1>2. CallbackInv /\ [Next]_vars => CallbackInv'
    <2> SUFFICES ASSUME CallbackInv, [Next]_vars PROVE CallbackInv'
        OBVIOUS
    <2>0. TypeOK' /\ TypeOK
        BY TypeStep DEF CallbackInv
    <2>1. CASE OnStart \/ DepsStarted \/ InitNecessaryState \/ ServiceDie
        BY <2>0, <2>1, ServiceStep
    <2>2. ASSUME NEW c \in Client, RegisterAppGroupCallBack(c) PROVE CallbackInv'
        BY <2>0, <2>2, RegisterStep DEF RegisterAppGroupCallBack
    <2>3. ASSUME NEW c \in Client, UnRegisterAppGroupCallBack(c) PROVE CallbackInv'
        BY <2>0, <2>3, UnRegisterStep
    <2>4. ASSUME NEW c \in Client, OnServiceDiedInner(c) PROVE CallbackInv'
        <3>1. /\ UNCHANGED <<serviceVars, diedObservers, life, told>>
              /\ \A d \in Client \ {c} : recovering'[d] = recovering[d]
              /\ GetBundleActiveProxy(c) # None /\ recovering'[c] = recovering[c] - 1
            BY <2>0, <2>4 DEF OnServiceDiedInner, TypeOK
        <3>2. CASE observer_[c]
            <4>1. Register(c)
                BY <2>4, <3>2 DEF OnServiceDiedInner
            <4> QED BY <2>0, <3>1, <4>1, RegisterStep
        <3>3. CASE ~observer_[c]
            <4>1. /\ bundleActiveProxy_' = [bundleActiveProxy_ EXCEPT ![c] = GetBundleActiveProxy(c)]
                  /\ UNCHANGED <<groupChangeObservers_, recipientMap_, observer_>>
                BY <2>4, <3>3 DEF OnServiceDiedInner
            <4>2. DeadProxyIsReported'
                BY <2>0, <3>1, <4>1, ProxyFact DEF CallbackInv, DeadProxyIsReported, ProxyIsLive, Arrives,
                    TypeOK, serviceVars
            <4>3. RememberedIsRegistered' /\ RememberedHasProxy'
                BY <2>0, <3>1, <3>3, <4>1 DEF CallbackInv, RememberedIsRegistered, RememberedHasProxy, TypeOK
            <4>4. OneRecoveryPerDeath'
                BY <2>0, <3>1 DEF CallbackInv, OneRecoveryPerDeath, Deaths, TypeOK, serviceVars
            <4>5. /\ Started' /\ DeadObserverIsReported' /\ Watched' /\ NewsIsOld'
                  /\ OldEntryNotRemembered'
                BY <3>1, <4>1 DEF CallbackInv, Started, DeadObserverIsReported, Watched, NewsIsOld,
                    OldEntryNotRemembered, serviceVars
            <4> QED BY <2>0, <4>2, <4>3, <4>4, <4>5 DEF CallbackInv
        <3> QED BY <3>2, <3>3
    <2>5. CASE \/ \E c \in Client : OnRemoteDied(c) \/ ClientDie(c)
               \/ \E o \in Observer : OnObserverDiedInner(o)
        BY <2>0, <2>5, DeathStep
    <2>6. ASSUME NEW c \in Client, OtherCall(c) PROVE CallbackInv'
        BY <2>0, <2>6, OtherCallStep
    <2>7. CASE UNCHANGED vars
        BY <2>7 DEF CallbackInv, vars, serviceVars, registryVars, clientVars, TypeOK, Started,
            DeadProxyIsReported, ProxyIsLive, Arrives, DeadObserverIsReported, RememberedIsRegistered,
            Watched, NewsIsOld, OldEntryNotRemembered, RememberedHasProxy, OneRecoveryPerDeath, Deaths
    <2> QED BY <2>1, <2>2, <2>3, <2>4, <2>5, <2>6, <2>7 DEF Next
<1> QED BY <1>1, <1>2, PTL DEF Spec

\* However often the service and the clients die: a client that was told it is
\* registered (observer_) stays registered with its own observer, or a recovery is on
\* its way.
THEOREM RegistrationSurvives == Spec => []RememberedIsRegistered
<1>1. CallbackInv => RememberedIsRegistered
    BY DEF CallbackInv
<1> QED BY <1>1, CallbackInvariant, PTL

\* However late the news of a death is: a proxy of a dead service in a client is going
\* to be reported and dropped.
THEOREM DeadProxiesAreReported == Spec => []DeadProxyIsReported
<1>1. CallbackInv => DeadProxyIsReported
    BY DEF CallbackInv
<1> QED BY <1>1, CallbackInvariant, PTL

\* So is a dead observer in the registry of the service, whichever life of its client it
\* was registered in.
THEOREM DeadObserversAreReported == Spec => []DeadObserverIsReported
<1>1. CallbackInv => DeadObserverIsReported
    BY DEF CallbackInv
<1> QED BY <1>1, CallbackInvariant, PTL

=============================================================================
