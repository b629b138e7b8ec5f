--------------------------- MODULE CcxtProxyProofs ---------------------------
(***************************************************************************)
(* The safety of the shared price proxy for any number of strategies,      *)
(* service threads and waiting clean-ups.                                  *)
(***************************************************************************)
EXTENDS CcxtProxy, FiniteSetTheorems, TLAPS

\* The reference count is the number of registered strategies.
CountsRegistered == refs = Cardinality(Registered)

\* The lock is held by the strategy that polls the port, on behalf of a service,
\* or by a clean-up that has asked the service of nobody to stop.
LockShape ==
    /\ \A b \in Bots : bot[b] = "waiting" <=> lock = b
    /\ lock \in Bots => proxy # NoService
    /\ lock = Cleaner => refs = 0 /\ proxy # NoService /\ stopping[proxy]

\* Only a clean-up asks the managed service to stop, and it keeps the lock.
StoppedByCleaner == proxy # NoService /\ stopping[proxy] => lock = Cleaner

Inv ==
    /\ TypeOK
    /\ CountsRegistered
    /\ LockShape
    /\ StoppedByCleaner
    /\ NoLeakedService
    /\ UnusedIsCleaned

-----------------------------------------------------------------------------
(* Counting. *)

\* A set of strategies is finite, and so has a count.
LEMMA RegisteredFinite ==
    /\ IsFiniteSet(Registered)
    /\ Cardinality(Registered) \in Nat
<1>1. Registered \subseteq Bots
    BY DEF Registered
<1>2. IsFiniteSet(Registered)
    BY <1>1, FS_Subset, ProxyConstants
<1> QED
    BY <1>2, FS_CardinalityType

\* A strategy that is registered is counted.
LEMMA RegisteredCounts ==
    ASSUME TypeOK, CountsRegistered, NEW b \in Bots, bot[b] # "out"
    PROVE  refs > 0
<1>1. b \in Registered
    BY DEF Registered
<1>2. Cardinality(Registered) # 0
    BY <1>1, RegisteredFinite, FS_EmptySet
<1> QED
    BY <1>2, RegisteredFinite DEF CountsRegistered

\* A step that moves no strategy in or out of the proxy keeps the count.
LEMMA SameRegistered ==
    ASSUME TypeOK, CountsRegistered, refs' = refs,
           \A b \in Bots : bot'[b] = "out" <=> bot[b] = "out"
    PROVE  CountsRegistered'
<1>1. Registered' = Registered
    BY DEF Registered
<1> QED
    BY <1>1 DEF CountsRegistered

-----------------------------------------------------------------------------
(* The invariant holds initially and is kept by every step. *)

\* Nobody is registered, and no service or clean-up thread runs.
LEMMA InitInv == Init => Inv
<1> SUFFICES ASSUME Init PROVE Inv
    OBVIOUS
<1>1. TypeOK
    BY ProxyConstants DEF Init, TypeOK, BotStates, ServiceStates
<1>2. Registered = {}
    BY DEF Init, Registered
<1>3. CountsRegistered
    BY <1>2, FS_EmptySet DEF Init, CountsRegistered
<1>4. LockShape /\ StoppedByCleaner
    BY ProxyConstants DEF Init, LockShape, StoppedByCleaner
<1>5. NoLeakedService /\ UnusedIsCleaned
    BY DEF Init, NoLeakedService, UnusedIsCleaned, Alive
<1> QED
    BY <1>1, <1>3, <1>4, <1>5 DEF Inv

\* A strategy registers: the count grows with the set.
LEMMA RegisterKeeps ==
    ASSUME Inv, NEW b \in Bots, Register(b)
    PROVE  Inv'
<1> USE DEF Inv
<1>1. TypeOK'
    BY DEF TypeOK, Register, BotStates
<1>2. Registered' = Registered \cup {b} /\ b \notin Registered
    BY DEF Registered, Register, TypeOK
<1>3. CountsRegistered'
    BY <1>2, RegisteredFinite, FS_AddElement DEF CountsRegistered, Register
<1>4. LockShape' /\ StoppedByCleaner'
    BY ProxyConstants DEF Register, LockFree, LockShape, StoppedByCleaner, TypeOK
<1>5. NoLeakedService' /\ UnusedIsCleaned'
    BY DEF Register, NoLeakedService, UnusedIsCleaned, Alive, TypeOK
<1> QED
    BY <1>1, <1>3, <1>4, <1>5

\* A strategy leaves: the last one leaves a clean-up behind, or no live service.
LEMMA UnregisterKeeps ==
    ASSUME Inv, NEW b \in Bots, Unregister(b)
    PROVE  Inv'
<1> USE DEF Inv
<1>1. refs > 0
    BY RegisteredCounts DEF Unregister
<1>2. TypeOK'
  <2>1. cleanups' \in 0..MaxCleanups /\ proxy' \in Services \cup {NoService}
    BY ProxyConstants DEF TypeOK, Unregister, Alive
  <2> QED
    BY <1>1, <2>1 DEF TypeOK, Unregister, BotStates
<1>3. Registered' = Registered \ {b} /\ b \in Registered
    BY DEF Registered, Unregister, TypeOK
<1>4. CountsRegistered'
    BY <1>3, RegisteredFinite, FS_RemoveElement DEF CountsRegistered, Unregister
<1>5. LockShape' /\ StoppedByCleaner'
    BY ProxyConstants DEF Unregister, LockFree, LockShape, StoppedByCleaner, TypeOK
<1>6. NoLeakedService'
    BY DEF Unregister, NoLeakedService, Alive, TypeOK
<1>7. UnusedIsCleaned'
    BY <1>1 DEF Unregister, UnusedIsCleaned, Alive, TypeOK
<1> QED
    BY <1>2, <1>4, <1>5, <1>6, <1>7

\* A start begins, is skipped, fails, or ends with the port open.
LEMMA StartKeeps ==
    ASSUME Inv, NEW b \in Bots,
           NeedProxy(b) \/ StartSkipped(b) \/ StartRaised(b) \/ PortSeen(b)
    PROVE  Inv'
<1> USE DEF Inv, NeedProxy, StartSkipped, StartRaised, PortSeen
<1>1. TypeOK'
    BY DEF TypeOK, BotStates
<1>2. CountsRegistered'
    BY SameRegistered DEF TypeOK
<1>3. LockShape' /\ StoppedByCleaner'
    BY ProxyConstants DEF LockFree, LockShape, StoppedByCleaner, TypeOK
<1>4. NoLeakedService'
  <2>1. CASE StartRaised(b)
    BY <2>1 DEF NoLeakedService, Alive, TypeOK
  <2>2. CASE proxy' = proxy /\ svc' = svc /\ stopping' = stopping
    BY <2>2 DEF NoLeakedService
  <2> QED
    BY <2>1, <2>2
<1>5. UnusedIsCleaned'
  <2>1. refs' > 0
    BY RegisteredCounts
  <2> QED
    BY <2>1 DEF UnusedIsCleaned, TypeOK
<1> QED
    BY <1>1, <1>2, <1>3, <1>4, <1>5

\* A service is started: its starter is registered, and no other one is alive.
LEMMA StartServiceKeeps ==
    ASSUME Inv, NEW b \in Bots, StartService(b)
    PROVE  Inv'
<1> USE DEF Inv
<1>1. PICK s \in Services :
        /\ svc[s] = "dead" /\ proxy' = s /\ ~Alive(proxy)
        /\ svc' = [svc EXCEPT ![s] = "loading"]
        /\ stopping' = [stopping EXCEPT ![s] = FALSE]
    BY DEF StartService
<1>2. refs > 0
    BY RegisteredCounts DEF StartService
<1>3. TypeOK'
    BY <1>1 DEF TypeOK, StartService, BotStates, ServiceStates
<1>4. CountsRegistered'
    BY SameRegistered DEF StartService, TypeOK
<1>5. LockShape' /\ StoppedByCleaner'
    BY <1>1, ProxyConstants
    DEF StartService, LockFree, LockShape, StoppedByCleaner, TypeOK
<1>6. NoLeakedService'
  <2> SUFFICES ASSUME NEW t \in Services, t # s, svc'[t] \in {"loading", "serving"}
               PROVE  stopping'[t]
    BY <1>1 DEF NoLeakedService
  <2>1. svc[t] = svc'[t] /\ stopping'[t] = stopping[t]
    BY <1>1 DEF TypeOK
  <2>2. t # proxy
    BY <1>1, <2>1, ProxyConstants DEF Alive, TypeOK
  <2> QED
    BY <2>1, <2>2 DEF NoLeakedService
<1>7. UnusedIsCleaned'
    BY <1>2 DEF StartService, UnusedIsCleaned, TypeOK
<1> QED
    BY <1>3, <1>4, <1>5, <1>6, <1>7

\* A start gives up: the service it drops has been asked to stop.
LEMMA GiveUpKeeps ==
    ASSUME Inv, NEW b \in Bots, GiveUp(b)
    PROVE  Inv'
<1> USE DEF Inv
<1>1. lock = b /\ proxy \in Services
    BY DEF GiveUp, LockShape, TypeOK
<1>2. TypeOK'
    BY <1>1 DEF TypeOK, GiveUp, BotStates
<1>3. CountsRegistered'
    BY SameRegistered DEF GiveUp, TypeOK
<1>4. LockShape' /\ StoppedByCleaner'
    BY <1>1, ProxyConstants DEF GiveUp, LockShape, StoppedByCleaner, TypeOK
<1>5. NoLeakedService' /\ UnusedIsCleaned'
    BY <1>1 DEF GiveUp, NoLeakedService, UnusedIsCleaned, Alive, TypeOK
<1> QED
    BY <1>2, <1>3, <1>4, <1>5

\* Clean-up threads stop a service only when nobody is registered.
LEMMA CleanupKeeps ==
    ASSUME Inv, CleanupStep
    PROVE  Inv'
<1> USE DEF Inv
<1>1. bot' = bot /\ refs' = refs
    BY DEF CleanupStep, CleanupAborted, CleanupNothing, CleanupStop, CleanupJoined
<1>2. CountsRegistered'
    BY <1>1, SameRegistered
<1>3. CASE CleanupAborted
  <2>1. cleanups' \in 0..MaxCleanups
    BY <1>3, ProxyConstants DEF CleanupAborted, TypeOK
  <2>2. TypeOK' /\ LockShape' /\ StoppedByCleaner'
    BY <1>3, <2>1 DEF CleanupAborted, TypeOK, LockShape, StoppedByCleaner
  <2>3. NoLeakedService' /\ UnusedIsCleaned'
    BY <1>3 DEF CleanupAborted, NoLeakedService, UnusedIsCleaned, Alive
  <2> QED
    BY <1>2, <2>2, <2>3
<1>4. CASE CleanupNothing
  <2>1. TypeOK' /\ LockShape' /\ StoppedByCleaner'
    BY <1>4, ProxyConstants
    DEF CleanupNothing, LockFree, TypeOK, LockShape, StoppedByCleaner
  <2>2. NoLeakedService' /\ UnusedIsCleaned'
    BY <1>4 DEF CleanupNothing, TypeOK, NoLeakedService, UnusedIsCleaned, Alive
  <2> QED
    BY <1>2, <2>1, <2>2
<1>5. CASE CleanupStop
  <2>1. proxy \in Services
    BY <1>5 DEF CleanupStop, Alive, TypeOK
  <2>2. TypeOK' /\ LockShape' /\ StoppedByCleaner'
    BY <1>5, <2>1, ProxyConstants
    DEF CleanupStop, LockFree, TypeOK, LockShape, StoppedByCleaner
  <2>3. NoLeakedService' /\ UnusedIsCleaned'
    BY <1>5, <2>1 DEF CleanupStop, TypeOK, NoLeakedService, UnusedIsCleaned
  <2> QED
    BY <1>2, <2>2, <2>3
<1>6. CASE CleanupJoined
  <2>1. TypeOK' /\ LockShape' /\ StoppedByCleaner'
    BY <1>6, ProxyConstants
    DEF CleanupJoined, TypeOK, LockShape, StoppedByCleaner
  <2>2. NoLeakedService' /\ UnusedIsCleaned'
    BY <1>6 DEF CleanupJoined, TypeOK, LockShape, NoLeakedService,
        UnusedIsCleaned, Alive
  <2> QED
    BY <1>2, <2>1, <2>2
<1> QED
    BY <1>3, <1>4, <1>5, <1>6 DEF CleanupStep

\* A service thread never comes back to life by itself.
LEMMA ServiceKeeps ==
    ASSUME Inv, NEW s \in Services, ServiceStep(s)
    PROVE  Inv'
<1> USE DEF Inv, ServiceStep, ServiceLoaded, ServiceStops, ServiceEnds
<1>1. TypeOK'
    BY DEF TypeOK, ServiceStates
<1>2. CountsRegistered'
    BY SameRegistered
<1>3. LockShape' /\ StoppedByCleaner'
    BY DEF LockShape, StoppedByCleaner
<1>4. NoLeakedService' /\ UnusedIsCleaned'
    BY DEF NoLeakedService, UnusedIsCleaned, Alive, TypeOK
<1> QED
    BY <1>1, <1>2, <1>3, <1>4

\* Whichever thread steps, count, lock and service stay in agreement.
LEMMA StepInv == Inv /\ [Next]_vars => Inv'
<1> SUFFICES ASSUME Inv, [Next]_vars PROVE Inv'
    OBVIOUS
<1>1. ASSUME NEW b \in Bots, BotStep(b) PROVE Inv'
    BY <1>1, RegisterKeeps, UnregisterKeeps, StartKeeps, StartServiceKeeps,
       GiveUpKeeps DEF BotStep, StartStep
<1>2. ASSUME UNCHANGED vars PROVE Inv'
  <2>1. CountsRegistered'
    BY <1>2, SameRegistered DEF Inv, vars
  <2> QED
    BY <1>2, <2>1 DEF Inv, vars, TypeOK, LockShape, StoppedByCleaner,
       NoLeakedService, UnusedIsCleaned, Alive
<1> QED
    BY <1>1, <1>2, CleanupKeeps, ServiceKeeps DEF Next

-----------------------------------------------------------------------------
(* Results. *)

\* In every reachable state the count, the lock and the service agree.
THEOREM ProxyInvariance == Spec => []Inv
BY InitInv, StepInv, PTL DEF Spec

\* Every variable always holds a value of its kind.
THEOREM ProxyTypeCorrect == Spec => []TypeOK
<1>1. Inv => TypeOK
    BY DEF Inv
<1> QED
    BY ProxyInvariance, <1>1, PTL

\* However registrations, starts and clean-ups get the lock, the managed service
\* is never asked to stop while a strategy is registered.
THEOREM NeverStoppedUnderUse == Spec => []NotStoppedUnderUse
<1>1. Inv => NotStoppedUnderUse
    BY DEF Inv, NotStoppedUnderUse, StoppedByCleaner, LockShape
<1> QED
    BY ProxyInvariance, <1>1, PTL

\* A live service that is no longer referenced has been asked to stop.
THEOREM NoServiceLeaks == Spec => []NoLeakedService
<1>1. Inv => NoLeakedService
    BY DEF Inv
<1> QED
    BY ProxyInvariance, <1>1, PTL

\* A live managed service without users always has a clean-up coming.
THEOREM UnusedServiceIsCleaned == Spec => []UnusedIsCleaned
<1>1. Inv => UnusedIsCleaned
    BY DEF Inv
<1> QED
    BY ProxyInvariance, <1>1, PTL

-----------------------------------------------------------------------------
(* The proxy implements SharedService. *)

\* A step changes the stage of the service it moves, and of no other.
LEMMA OneStage ==
    ASSUME NEW s \in Services, NEW new, StageOf(s)' = new,
           \A r \in Services \ {s} : StageOf(r)' = StageOf(r)
    PROVE  Stage' = [Stage EXCEPT ![s] = new]
BY DEF Stage

\* Only the service that is managed can be up without having been told to stop.
LEMMA OnlyProxyUp ==
    ASSUME Inv, NEW r \in Services, Shared!IsUp(r)
    PROVE  r = proxy /\ Alive(proxy)
<1>1. svc[r] \in {"loading", "serving"} /\ ~stopping[r]
    BY DEF Shared!IsUp, Stage, StageOf, Inv, TypeOK, ServiceStates
<1> QED
    BY <1>1, ProxyConstants DEF Inv, NoLeakedService, Alive

\* A lock that passes between nobody and the clean-ups is no start.
LEMMA SameStage ==
    ASSUME UNCHANGED <<svc, stopping>>,
           UNCHANGED <<lock, proxy>> \/ (lock \notin Bots /\ lock' \notin Bots)
    PROVE  Stage' = Stage
BY DEF Stage, StageOf

\* Registering and leaving are all that changes the users.
LEMMA SameUsers ==
    ASSUME TypeOK, \A b \in Bots : bot'[b] = "out" <=> bot[b] = "out"
    PROVE  Registered' = Registered
BY DEF Registered

\* A strategy's steps, as its users see them.
LEMMA BotShares ==
    ASSUME Inv, NEW b \in Bots, BotStep(b)
    PROVE  [Shared!Next]_Shared!shared
<1> USE DEF Inv, LockFree
<1>1. CASE Register(b)
    <2>1. Registered' = Registered \cup {b} /\ b \notin Registered
        BY <1>1 DEF Register, Registered, TypeOK
    <2>2. Stage' = Stage
        BY <1>1, SameStage DEF Register
    <2> QED
        BY <2>1, <2>2 DEF Shared!Next, Shared!Join
<1>2. CASE Unregister(b)
    <2>1. Registered' = Registered \ {b} /\ b \in Registered
        BY <1>2 DEF Unregister, Registered, TypeOK
    <2>2. Stage' = Stage
        BY <1>2, SameStage, ProxyConstants DEF Unregister
    <2> QED
        BY <2>1, <2>2 DEF Shared!Next, Shared!Leave
<1>3. ASSUME ~Register(b), ~Unregister(b) PROVE Registered' = Registered
    BY <1>3, SameUsers DEF BotStep, StartStep, NeedProxy, StartSkipped, StartService,
        StartRaised, PortSeen, GiveUp, TypeOK
<1>4. CASE NeedProxy(b) \/ StartSkipped(b) \/ StartRaised(b)
    <2>1. Stage' = Stage
        BY <1>4, SameStage, ProxyConstants DEF NeedProxy, StartSkipped, StartRaised
    <2>2. ~Register(b) /\ ~Unregister(b)
        BY <1>4 DEF NeedProxy, StartSkipped, StartRaised, Register, Unregister, TypeOK
    <2> QED
        BY <1>3, <2>1, <2>2 DEF Shared!shared
<1>5. CASE StartService(b)
    <2>1. PICK s \in Services :
            /\ svc[s] = "dead" /\ proxy' = s /\ ~Alive(proxy)
            /\ svc' = [svc EXCEPT ![s] = "loading"]
            /\ stopping' = [stopping EXCEPT ![s] = FALSE]
            /\ lock = Nobody /\ lock' = b /\ bot[b] = "starting"
        BY <1>5 DEF StartService
    <2>2. StageOf(s) = "off" /\ StageOf(s)' = "starting"
        BY <2>1 DEF StageOf, TypeOK
    <2>3. ASSUME NEW r \in Services \ {s} PROVE StageOf(r)' = StageOf(r)
        BY <2>1, ProxyConstants DEF StageOf, TypeOK
    <2>4. Stage' = [Stage EXCEPT ![s] = "starting"]
        BY <2>2, <2>3, OneStage
    <2>5. \A r \in Services : ~Shared!IsUp(r)
        BY <2>1, OnlyProxyUp
    <2>6. Registered # {} /\ Registered' = Registered
        BY <2>1, <1>5, SameUsers DEF Registered, StartService, TypeOK
    <2>7. Shared!Start(s)
        BY <2>2, <2>4, <2>5, <2>6 DEF Shared!Start, Shared!Becomes, Stage
    <2> QED
        BY <2>7 DEF Shared!Next, Shared!ServiceStep
<1>6. CASE PortSeen(b) \/ GiveUp(b)
    <2>1. lock = b /\ proxy \in Services /\ ~stopping[proxy] /\ lock' \notin Bots
        BY <1>6, ProxyConstants
            DEF PortSeen, GiveUp, LockShape, StoppedByCleaner, TypeOK
    <2>2. Registered' = Registered
        BY <1>6, SameUsers DEF PortSeen, GiveUp, TypeOK
    <2>3. svc' = svc /\ \A r \in Services \ {proxy} : stopping'[r] = stopping[r]
        BY <1>6 DEF PortSeen, GiveUp, TypeOK
    <2>4. \A r \in Services \ {proxy} : StageOf(r)' = StageOf(r)
        <3>1. proxy' \in {proxy, NoService}
            BY <1>6 DEF PortSeen, GiveUp
        <3> QED
            BY <2>3, <3>1, ProxyConstants DEF StageOf
    <2>5. CASE svc[proxy] = "dead"
        <3>1. StageOf(proxy) = "off" /\ \A r \in Services : r = proxy => StageOf(r)' = "off"
            BY <2>3, <2>5 DEF StageOf
        <3>2. Stage' = Stage
            BY <2>4, <3>1 DEF Stage
        <3> QED
            BY <2>2, <3>2 DEF Shared!shared
    <2>6. CASE svc[proxy] # "dead"
        <3>1. PICK s \in Services : s = proxy
            BY <2>1
        <3>2. StageOf(s) = (IF svc[s] = "closing" THEN "failing" ELSE "starting")
            BY <2>1, <2>6, <3>1 DEF StageOf
        <3>3. CASE PortSeen(b)
            <4>1. StageOf(s)' = (IF svc[s] = "closing" THEN "failing" ELSE "up")
                BY <2>1, <2>3, <2>6, <3>1, <3>3 DEF StageOf, PortSeen
            <4>2. Stage' = [Stage EXCEPT ![s] = StageOf(s)']
                BY <2>4, <3>1, OneStage
            <4>3. CASE svc[s] = "closing"
                <5>1. Stage' = Stage
                    BY <3>2, <4>1, <4>2, <4>3 DEF Stage
                <5> QED
                    BY <2>2, <5>1 DEF Shared!shared
            <4>4. CASE svc[s] # "closing"
                <5>1. Shared!Confirm(s)
                    BY <2>2, <3>2, <4>1, <4>2, <4>4 DEF Shared!Confirm, Shared!Becomes, Stage
                <5> QED
                    BY <5>1 DEF Shared!Next, Shared!ServiceStep
            <4> QED
                BY <4>3, <4>4
        <3>4. CASE GiveUp(b)
            <4>1. StageOf(s)' = "asked"
                BY <2>3, <2>6, <3>1, <3>4 DEF StageOf, GiveUp, TypeOK
            <4>2. Stage' = [Stage EXCEPT ![s] = "asked"]
                BY <2>4, <3>1, <4>1, OneStage
            <4>3. Shared!GiveUp(s) \/ Shared!Hurry(s)
                BY <2>2, <3>2, <4>2 DEF Shared!GiveUp, Shared!Hurry, Shared!Becomes, Stage
            <4> QED
                BY <4>3 DEF Shared!Next, Shared!ServiceStep
        <3> QED
            BY <1>6, <3>3, <3>4
    <2> QED
        BY <2>5, <2>6
<1> QED
    BY <1>1, <1>2, <1>4, <1>5, <1>6 DEF BotStep, StartStep

\* A clean-up's steps, as the users see them: it retires a service nobody uses.
LEMMA CleanupShares ==
    ASSUME Inv, CleanupStep
    PROVE  [Shared!Next]_Shared!shared
<1> USE DEF Inv, LockFree
<1>1. Registered' = Registered
    BY DEF CleanupStep, CleanupAborted, CleanupNothing, CleanupStop, CleanupJoined,
        Registered
<1>2. CASE CleanupAborted \/ CleanupNothing \/ CleanupJoined
    <2>1. Stage' = Stage
        BY <1>2, SameStage, ProxyConstants
            DEF CleanupAborted, CleanupNothing, CleanupJoined
    <2> QED
        BY <1>1, <2>1 DEF Shared!shared
<1>3. CASE CleanupStop
    <2>1. PICK s \in Services : s = proxy
        BY <1>3 DEF CleanupStop, Alive, TypeOK
    <2>2. svc[s] # "dead" /\ ~stopping[s] /\ lock \notin Bots /\ lock' \notin Bots
        BY <1>3, <2>1, ProxyConstants DEF CleanupStop, Alive, StoppedByCleaner
    <2>3. StageOf(s) = (IF svc[s] = "closing" THEN "failing" ELSE "up")
        BY <2>2 DEF StageOf
    <2>4. StageOf(s)' = "asked" /\ \A r \in Services \ {s} : StageOf(r)' = StageOf(r)
        BY <1>3, <2>1, <2>2 DEF StageOf, CleanupStop, TypeOK
    <2>5. Stage' = [Stage EXCEPT ![s] = "asked"]
        BY <2>4, OneStage
    <2>6. Registered = {}
        BY <1>3, RegisteredFinite, FS_EmptySet DEF CleanupStop, CountsRegistered
    <2>7. Shared!Retire(s) \/ Shared!Hurry(s)
        BY <1>1, <2>3, <2>5, <2>6 DEF Shared!Retire, Shared!Hurry, Shared!Becomes, Stage
    <2> QED
        BY <2>7 DEF Shared!Next, Shared!ServiceStep
<1> QED
    BY <1>2, <1>3 DEF CleanupStep

\* A service thread's steps: it fails by itself, or ends.
LEMMA ServiceShares ==
    ASSUME Inv, NEW s \in Services, ServiceStep(s)
    PROVE  [Shared!Next]_Shared!shared
<1> USE DEF Inv
<1>1. UNCHANGED <<bot, lock, proxy, stopping>>
    BY DEF ServiceStep, ServiceLoaded, ServiceStops, ServiceEnds
<1>2. Registered' = Registered
    BY <1>1 DEF Registered
<1>3. \A r \in Services \ {s} : StageOf(r)' = StageOf(r)
    BY <1>1 DEF ServiceStep, ServiceLoaded, ServiceStops, ServiceEnds, StageOf, TypeOK
<1>4. Stage' = [Stage EXCEPT ![s] = StageOf(s)']
    BY <1>3, OneStage
<1>5. CASE ServiceEnds(s)
    <2>1. StageOf(s) \in {"failing", "asked"} /\ StageOf(s)' = "off"
        BY <1>5 DEF ServiceEnds, StageOf, TypeOK
    <2>2. Shared!End(s)
        BY <1>2, <1>4, <2>1 DEF Shared!End, Shared!Becomes, Stage
    <2> QED
        BY <2>2 DEF Shared!Next, Shared!ServiceStep
<1>6. CASE ServiceLoaded(s) \/ ServiceStops(s)
    <2>1. \/ StageOf(s)' = StageOf(s)
          \/ StageOf(s) \in {"starting", "up"} /\ StageOf(s)' = "failing"
        BY <1>1, <1>6 DEF ServiceLoaded, ServiceStops, StageOf, TypeOK
    <2>2. CASE StageOf(s)' = StageOf(s)
        <3>1. Stage' = Stage
            BY <1>4, <2>2 DEF Stage
        <3> QED
            BY <1>2, <3>1 DEF Shared!shared
    <2>3. CASE StageOf(s) \in {"starting", "up"} /\ StageOf(s)' = "failing"
        <3>1. Shared!Fail(s)
            BY <1>2, <1>4, <2>3 DEF Shared!Fail, Shared!IsUp, Shared!Becomes, Stage
        <3> QED
            BY <3>1 DEF Shared!Next, Shared!ServiceStep
    <2> QED
        BY <2>1, <2>2, <2>3
<1> QED
    BY <1>5, <1>6 DEF ServiceStep

\* The proxy, with its count, its lock and its clean-up threads, implements the
\* promise: one service at a time, started for its users, and told to stop only when
\* it has none or is too long in starting.
THEOREM ProxyKeepsShared == Spec => KeepsShared
<1>1. Init => Shared!Init
    BY DEF Init, Shared!Init, Registered, Stage, StageOf
<1>2. Inv /\ [Next]_vars => [Shared!Next]_Shared!shared
    <2> SUFFICES ASSUME Inv, [Next]_vars PROVE [Shared!Next]_Shared!shared
        OBVIOUS
    <2>1. CASE UNCHANGED vars
        BY <2>1 DEF vars, Shared!shared, Registered, Stage, StageOf
    <2> QED
        BY <2>1, BotShares, CleanupShares, ServiceShares DEF Next
<1> QED
    BY <1>1, <1>2, ProxyInvariance, PTL DEF Spec, KeepsShared, Shared!Spec
=============================================================================
