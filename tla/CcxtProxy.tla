------------------------------ MODULE CcxtProxy ------------------------------
(***************************************************************************)
(* The price proxy that the strategies of one process share                *)
(* (definitions/ccxt_manager.py, CCXTManager, and the life of the          *)
(* AsyncPriceService of proxy_ccxt.py that it runs in a thread).           *)
(*                                                                         *)
(* Bot threads register, start the proxy when its port is closed and       *)
(* unregister; the last one to leave schedules a clean-up thread. All of   *)
(* this happens under one lock, which two of them keep for several         *)
(* seconds: the bot that waits for the port, and the clean-up that waits   *)
(* for the service thread.                                                 *)
(***************************************************************************)
EXTENDS Integers, FiniteSets

CONSTANTS
    Bots,         \* the strategy threads of the process
    Services,     \* AsyncPriceService threads that may be alive at a time
    MaxCleanups,  \* bound on the clean-up threads scheduled and not yet run
    NoService,    \* Python's None
    Nobody,       \* the lock is free
    Cleaner       \* a clean-up thread holds the lock

ASSUME ProxyConstants ==
    /\ IsFiniteSet(Bots)
    /\ MaxCleanups \in Nat \ {0}
    /\ NoService \notin Services
    /\ Nobody \notin Bots /\ Cleaner \notin Bots /\ Nobody # Cleaner

VARIABLES
    bot,       \* where each strategy thread is
    refs,      \* _proxy_ref_count
    lock,      \* the holder of _proxy_lock between two steps
    proxy,     \* _proxy_service_instance and _proxy_service_thread
    svc,       \* the life of each service thread
    stopping,  \* its stop_event is set
    cleanups   \* ProxyCleanup threads that have not taken the lock yet

vars == <<bot, refs, lock, proxy, svc, stopping, cleanups>>

-----------------------------------------------------------------------------

BotStates == {"out", "idle", "starting", "waiting"}
ServiceStates == {"dead", "loading", "serving", "closing"}

Registered == {b \in Bots : bot[b] # "out"}

Alive(s) == s # NoService /\ svc[s] # "dead"

\* is_port_open("127.0.0.1", 2233): the listening socket is gone once a service
\* starts closing.
PortOpen == \E s \in Services : svc[s] = "serving"

LockFree == lock = Nobody

-----------------------------------------------------------------------------
(* Strategy threads. The variants GiveUpSilently, UnregisterAnyone,
   UnregisterForgets and CleanupStopUnchecked are not part of Next: each omits
   one check or call that the properties below depend on. *)

Register(b) ==
    /\ LockFree /\ bot[b] = "out"
    /\ bot' = [bot EXCEPT ![b] = "idle"]
    /\ refs' = refs + 1
    /\ UNCHANGED <<lock, proxy, svc, stopping, cleanups>>

\* ccxt_call_fetch_tickers finds the port closed and hands _start_proxy to a
\* worker thread. With the port open it just fetches.
NeedProxy(b) ==
    /\ bot[b] = "idle" /\ ~PortOpen
    /\ bot' = [bot EXCEPT ![b] = "starting"]
    /\ UNCHANGED <<refs, lock, proxy, svc, stopping, cleanups>>

\* _start_proxy finds the service running, or the port taken.
StartSkipped(b) ==
    /\ LockFree /\ bot[b] = "starting"
    /\ Alive(proxy) \/ PortOpen
    /\ bot' = [bot EXCEPT ![b] = "idle"]
    /\ UNCHANGED <<refs, lock, proxy, svc, stopping, cleanups>>

\* The service thread is started; the lock is kept while the port is polled.
StartService(b) ==
    /\ LockFree /\ bot[b] = "starting"
    /\ ~Alive(proxy) /\ ~PortOpen
    /\ \E s \in Services :
        /\ svc[s] = "dead"
        /\ svc' = [svc EXCEPT ![s] = "loading"]
        /\ stopping' = [stopping EXCEPT ![s] = FALSE]
        /\ proxy' = s
    /\ bot' = [bot EXCEPT ![b] = "waiting"]
    /\ lock' = b
    /\ UNCHANGED <<refs, cleanups>>

\* The service object or its thread cannot be created.
StartRaised(b) ==
    /\ LockFree /\ bot[b] = "starting"
    /\ ~Alive(proxy) /\ ~PortOpen
    /\ proxy' = NoService
    /\ bot' = [bot EXCEPT ![b] = "idle"]
    /\ UNCHANGED <<refs, lock, svc, stopping, cleanups>>

\* The port is open, whoever opened it.
PortSeen(b) ==
    /\ bot[b] = "waiting" /\ PortOpen
    /\ bot' = [bot EXCEPT ![b] = "idle"]
    /\ lock' = Nobody
    /\ UNCHANGED <<refs, proxy, svc, stopping, cleanups>>

GiveUpSilently(b) ==
    /\ bot[b] = "waiting"
    /\ bot' = [bot EXCEPT ![b] = "idle"]
    /\ lock' = Nobody /\ proxy' = NoService
    /\ UNCHANGED <<refs, svc, stopping, cleanups>>

\* The port stayed closed for ten checks: the service is asked to stop and
\* forgotten. It may be serving by now.
GiveUp(b) ==
    /\ bot[b] = "waiting"
    /\ bot' = [bot EXCEPT ![b] = "idle"]
    /\ lock' = Nobody /\ proxy' = NoService
    /\ stopping' = [stopping EXCEPT ![proxy] = TRUE]
    /\ UNCHANGED <<refs, svc, cleanups>>

UnregisterAnyone(b) ==
    /\ LockFree
    /\ bot' = [bot EXCEPT ![b] = "out"]
    /\ refs' = refs - 1
    /\ UNCHANGED <<lock, proxy, svc, stopping, cleanups>>

UnregisterForgets(b) ==
    /\ LockFree /\ bot[b] = "idle"
    /\ bot' = [bot EXCEPT ![b] = "out"]
    /\ refs' = refs - 1
    /\ UNCHANGED <<lock, proxy, svc, stopping, cleanups>>

\* The strategy ends. The last one schedules the clean-up of a live service.
Unregister(b) ==
    /\ LockFree /\ bot[b] = "idle"
    /\ bot' = [bot EXCEPT ![b] = "out"]
    /\ refs' = refs - 1
    /\ IF refs = 1 /\ Alive(proxy)
       THEN /\ cleanups < MaxCleanups
            /\ cleanups' = cleanups + 1
       ELSE UNCHANGED cleanups
    /\ proxy' = IF refs = 1 /\ ~Alive(proxy) THEN NoService ELSE proxy
    /\ UNCHANGED <<lock, svc, stopping>>

-----------------------------------------------------------------------------
(* Clean-up threads. *)

\* A strategy has registered since the clean-up was scheduled.
CleanupAborted ==
    /\ LockFree /\ cleanups > 0 /\ refs > 0
    /\ cleanups' = cleanups - 1
    /\ UNCHANGED <<bot, refs, lock, proxy, svc, stopping>>

\* The service has already terminated.
CleanupNothing ==
    /\ LockFree /\ cleanups > 0 /\ refs = 0 /\ ~Alive(proxy)
    /\ proxy' = NoService
    /\ cleanups' = cleanups - 1
    /\ UNCHANGED <<bot, refs, lock, svc, stopping>>

CleanupStopUnchecked ==
    /\ LockFree /\ cleanups > 0 /\ Alive(proxy)
    /\ stopping' = [stopping EXCEPT ![proxy] = TRUE]
    /\ cleanups' = cleanups - 1
    /\ lock' = Cleaner
    /\ UNCHANGED <<bot, refs, proxy, svc>>

\* The service is asked to stop, and its thread joined under the lock.
CleanupStop ==
    /\ LockFree /\ cleanups > 0 /\ refs = 0 /\ Alive(proxy)
    /\ stopping' = [stopping EXCEPT ![proxy] = TRUE]
    /\ cleanups' = cleanups - 1
    /\ lock' = Cleaner
    /\ UNCHANGED <<bot, refs, proxy, svc>>

\* The join returns, or times out after ten seconds with the thread alive.
CleanupJoined ==
    /\ lock = Cleaner
    /\ proxy' = NoService /\ lock' = Nobody
    /\ UNCHANGED <<bot, refs, svc, stopping, cleanups>>

-----------------------------------------------------------------------------
(* Service threads. *)

\* initialize() ends: the server listens, unless its port is taken, in which
\* case run() goes on to its cleanup as it does when initialize() raises.
ServiceLoaded(s) ==
    /\ svc[s] = "loading"
    /\ \/ ~PortOpen /\ svc' = [svc EXCEPT ![s] = "serving"]
       \/ svc' = [svc EXCEPT ![s] = "closing"]
    /\ UNCHANGED <<bot, refs, lock, proxy, stopping, cleanups>>

ServiceStops(s) ==
    /\ svc[s] = "serving" /\ stopping[s]
    /\ svc' = [svc EXCEPT ![s] = "closing"]
    /\ UNCHANGED <<bot, refs, lock, proxy, stopping, cleanups>>

ServiceEnds(s) ==
    /\ svc[s] = "closing"
    /\ svc' = [svc EXCEPT ![s] = "dead"]
    /\ UNCHANGED <<bot, refs, lock, proxy, stopping, cleanups>>

-----------------------------------------------------------------------------

Init ==
    /\ bot = [b \in Bots |-> "out"] /\ refs = 0
    /\ lock = Nobody /\ proxy = NoService
    /\ svc = [s \in Services |-> "dead"]
    /\ stopping = [s \in Services |-> FALSE]
    /\ cleanups = 0

StartStep(b) ==
    \/ StartSkipped(b) \/ StartService(b) \/ StartRaised(b)
    \/ PortSeen(b) \/ GiveUp(b)

BotStep(b) == Register(b) \/ NeedProxy(b) \/ StartStep(b) \/ Unregister(b)

CleanupStep == CleanupAborted \/ CleanupNothing \/ CleanupStop \/ CleanupJoined

ServiceStep(s) == ServiceLoaded(s) \/ ServiceStops(s) \/ ServiceEnds(s)

Next ==
    \/ \E b \in Bots : BotStep(b)
    \/ CleanupStep
    \/ \E s \in Services : ServiceStep(s)

\* Threads that can run do run: the loading of markets, the joins and the wait
\* for the port are all bounded.
Spec ==
    /\ Init /\ [][Next]_vars
    /\ WF_vars(CleanupStep)
    /\ \A b \in Bots : WF_vars(StartStep(b))
    /\ \A s \in Services : WF_vars(ServiceStep(s))

-----------------------------------------------------------------------------
(* Properties. *)

\* Every variable holds a value of its kind.
TypeOK ==
    /\ bot \in [Bots -> BotStates]
    /\ refs \in Nat
    /\ lock \in Bots \cup {Nobody, Cleaner}
    /\ proxy \in Services \cup {NoService}
    /\ svc \in [Services -> ServiceStates]
    /\ stopping \in [Services -> BOOLEAN]
    /\ cleanups \in 0..MaxCleanups

\* The shared service is never asked to stop while a strategy is registered,
\* whatever the order in which clean-ups, registrations and starts get the lock.
NotStoppedUnderUse ==
    proxy # NoService /\ stopping[proxy] => refs = 0

\* No service is lost: one that is alive and no longer referenced is on its way
\* out, so that at most one service is meant to stay.
NoLeakedService ==
    \A s \in Services \ {proxy} :
        svc[s] \in {"loading", "serving"} => stopping[s]

\* A live service that nobody uses has a clean-up coming, or under way.
UnusedIsCleaned ==
    Alive(proxy) /\ refs = 0 => cleanups > 0 \/ lock = Cleaner

\* The proxy keeps the promise of SharedService, whoever gets the lock when, however
\* long a service takes to load or to end, and whether joins and waits time out.
StageOf(s) ==
    IF svc[s] = "dead" THEN "off"
    ELSE IF stopping[s] THEN "asked"
    ELSE IF svc[s] = "closing" THEN "failing"
    ELSE IF s = proxy /\ lock \in Bots THEN "starting"
    ELSE "up"

Stage == [s \in Services |-> StageOf(s)]

Shared == INSTANCE SharedService
            WITH Users <- Bots, using <- Registered, stage <- Stage

KeepsShared == Shared!Spec

\* When the last strategy has gone every service ends, unless one comes back.
ProxyEnds == refs = 0 ~> (refs > 0 \/ \A s \in Services : svc[s] = "dead")
=============================================================================
