---------------------------- MODULE RpcPoolProofs ----------------------------
(***************************************************************************)
(* The accounts of the RPC pool, for any number of bots, coroutines and    *)
(* permits.                                                                *)
(***************************************************************************)
EXTENDS RpcPool, FiniteSetTheorems, TLAPS

\* The types, without the upper bounds that follow from the accounts.
Shape ==
    /\ phase \in [Bots -> Phases]
    /\ signalled \in [Bots -> BOOLEAN]
    /\ at \in [Callers -> Stages]
    /\ attempt \in [Callers -> 0..MaxAttempts - 1]
    /\ permits \in Nat
    /\ orphans \in [Bots -> Nat]
    /\ lost \in Nat

Inv == Shape /\ CounterIsPending /\ PermitsAccounted

-----------------------------------------------------------------------------
(* Counting. *)

FlightStages == {"posted", "backoff"}
HeldStages == {"granted", "posted", "backoff"}

In(s, S) == IF s \in S THEN 1 ELSE 0

\* The coroutines are finitely many, and so are those in some of the stages.
LEMMA Counted ==
    /\ IsFiniteSet(InFlight) /\ Cardinality(InFlight) \in Nat
    /\ IsFiniteSet(Holders) /\ Cardinality(Holders) \in Nat
<1>1. InFlight \subseteq Callers /\ Holders \subseteq Callers
    BY DEF InFlight, Holders
<1>2. IsFiniteSet(InFlight) /\ IsFiniteSet(Holders)
    BY <1>1, FS_Subset, PoolConstants
<1> QED
    BY <1>2, FS_CardinalityType

\* A set that an element joins, leaves, stays in or stays out of.
LEMMA OneMoves ==
    ASSUME NEW S, NEW T, NEW c, IsFiniteSet(S),
           S \ {c} = T \ {c}
    PROVE  Cardinality(T) = Cardinality(S) + In(c, T) - In(c, S)
<1>1. Cardinality(S) \in Nat
    BY FS_CardinalityType
<1>2. CASE c \in S /\ c \in T
    <2>1. S = T
        BY <1>2
    <2> QED
        BY <1>1, <1>2, <2>1 DEF In
<1>3. CASE c \notin S /\ c \notin T
    <2>1. S = T
        BY <1>3
    <2> QED
        BY <1>1, <1>3, <2>1 DEF In
<1>4. CASE c \notin S /\ c \in T
    <2>1. T = S \cup {c}
        BY <1>4
    <2>2. Cardinality(T) = Cardinality(S) + 1
        BY <1>4, <2>1, FS_AddElement
    <2> QED
        BY <1>1, <1>4, <2>2 DEF In
<1>5. CASE c \in S /\ c \notin T
    <2>1. T = S \ {c}
        BY <1>5
    <2>2. Cardinality(T) = Cardinality(S) - 1
        BY <1>5, <2>1, FS_RemoveElement
    <2> QED
        BY <1>1, <1>5, <2>2 DEF In
<1> QED
    BY <1>2, <1>3, <1>4, <1>5

\* What the two counts become when a coroutine changes its stage.
LEMMA StageMoves ==
    ASSUME Shape, NEW c \in Callers, NEW s \in Stages, at' = [at EXCEPT ![c] = s]
    PROVE  /\ Cardinality(InFlight') = Cardinality(InFlight)
                  + In(s, FlightStages) - In(at[c], FlightStages)
           /\ Cardinality(Holders') = Cardinality(Holders)
                  + In(s, HeldStages) - In(at[c], HeldStages)
<1>1. InFlight \ {c} = InFlight' \ {c} /\ Holders \ {c} = Holders' \ {c}
    BY DEF InFlight, Holders, Shape
<1>2. /\ (c \in InFlight' <=> s \in FlightStages)
      /\ (c \in InFlight <=> at[c] \in FlightStages)
      /\ (c \in Holders' <=> s \in HeldStages)
      /\ (c \in Holders <=> at[c] \in HeldStages)
    BY DEF InFlight, Holders, Shape, FlightStages, HeldStages
<1>3. Cardinality(InFlight') = Cardinality(InFlight)
          + In(c, InFlight') - In(c, InFlight)
    BY <1>1, Counted, OneMoves
<1>4. Cardinality(Holders') = Cardinality(Holders)
          + In(c, Holders') - In(c, Holders)
    BY <1>1, Counted, OneMoves
<1> QED
    BY <1>2, <1>3, <1>4 DEF In

\* What each stage counts for; the counter is a number.
LEMMA CountsAreInt ==
    ASSUME Inv
    PROVE  /\ counter \in Nat /\ permits \in Nat /\ lost \in Nat
           /\ In("idle", FlightStages) = 0 /\ In("idle", HeldStages) = 0
           /\ In("fetching", FlightStages) = 0 /\ In("fetching", HeldStages) = 0
           /\ In("queued", FlightStages) = 0 /\ In("queued", HeldStages) = 0
           /\ In("granted", FlightStages) = 0 /\ In("granted", HeldStages) = 1
           /\ In("posted", FlightStages) = 1 /\ In("posted", HeldStages) = 1
           /\ In("backoff", FlightStages) = 1 /\ In("backoff", HeldStages) = 1
BY Counted DEF Inv, Shape, CounterIsPending, In, FlightStages, HeldStages

\* A coroutine changes its stage and the accounts follow.
LEMMA AccountsKeep ==
    ASSUME Inv, Shape', NEW c \in Callers, NEW s \in Stages,
           at' = [at EXCEPT ![c] = s],
           counter' = counter + In(s, FlightStages) - In(at[c], FlightStages),
           permits' + lost' =
               permits + lost - In(s, HeldStages) + In(at[c], HeldStages)
    PROVE  Inv'
<1>1. /\ Cardinality(InFlight') = Cardinality(InFlight)
             + In(s, FlightStages) - In(at[c], FlightStages)
      /\ Cardinality(Holders') = Cardinality(Holders)
             + In(s, HeldStages) - In(at[c], HeldStages)
    BY StageMoves DEF Inv
<1>2. /\ In(s, FlightStages) \in Int /\ In(at[c], FlightStages) \in Int
      /\ In(s, HeldStages) \in Int /\ In(at[c], HeldStages) \in Int
    BY DEF In
<1>3. CounterIsPending'
    BY <1>1 DEF Inv, CounterIsPending
<1>4. PermitsAccounted'
    BY <1>1, <1>2, Counted, PoolConstants DEF Inv, Shape, PermitsAccounted
<1> QED
    BY <1>3, <1>4 DEF Inv

-----------------------------------------------------------------------------
(* The invariant holds initially and is kept by every step. *)

\* All permits are free and no request is under way.
LEMMA InitInv == Init => Inv
<1> SUFFICES ASSUME Init PROVE Inv
    OBVIOUS
<1>1. Shape
    BY PoolConstants DEF Init, Shape, Phases, Stages
<1>2. InFlight = {} /\ Holders = {}
    BY DEF Init, InFlight, Holders
<1>3. Cardinality(InFlight) = 0 /\ Cardinality(Holders) = 0
    BY <1>2, FS_EmptySet
<1> QED
    BY <1>1, <1>3, PoolConstants DEF Init, Inv, CounterIsPending, PermitsAccounted

\* A bot thread that moves on in its life, and touches neither calls nor permits.
LEMMA LifeKeeps ==
    ASSUME Inv, UNCHANGED <<callVars, poolVars>>,
           phase' \in [Bots -> Phases], signalled' \in [Bots -> BOOLEAN]
    PROVE  Inv'
BY DEF Inv, Shape, CounterIsPending, PermitsAccounted, InFlight, Holders, callVars,
    poolVars

\* A coroutine begins a call, gets its permit, or is told of it.
LEMMA EntryKeeps ==
    ASSUME Inv, NEW c \in Callers, Begin(c) \/ Grant(c) \/ Resume(c)
    PROVE  Inv'
<1>1. CASE Begin(c)
    <2>1. /\ at[c] = "idle" /\ at' = [at EXCEPT ![c] = "queued"]
          /\ UNCHANGED <<attempt, poolVars, botVars>>
        BY <1>1 DEF Begin, Enter, HasTurn
    <2>2. Shape'
        BY <2>1 DEF Inv, Shape, Stages, poolVars, botVars
    <2>3. counter' = counter + In("queued", FlightStages) - In(at[c], FlightStages)
        BY <2>1, CountsAreInt DEF poolVars
    <2>4. permits' + lost' =
              permits + lost - In("queued", HeldStages) + In(at[c], HeldStages)
        BY <2>1, CountsAreInt DEF poolVars
    <2> QED
        BY <2>1, <2>2, <2>3, <2>4, AccountsKeep DEF Stages
<1>2. CASE Grant(c)
    <2>1. Shape'
        BY <1>2 DEF Grant, Inv, Shape, Stages, botVars
    <2>2. counter' = counter + In("granted", FlightStages) - In(at[c], FlightStages)
        BY <1>2, CountsAreInt DEF Grant
    <2>3. permits' + lost' =
              permits + lost - In("granted", HeldStages) + In(at[c], HeldStages)
        BY <1>2, CountsAreInt DEF Grant
    <2> QED
        BY <1>2, <2>1, <2>2, <2>3, AccountsKeep DEF Grant, Stages
<1>3. CASE Resume(c)
    <2>1. Shape'
        BY <1>3 DEF Resume, Inv, Shape, Stages, botVars
    <2>2. counter' = counter + In("posted", FlightStages) - In(at[c], FlightStages)
        BY <1>3, CountsAreInt DEF Resume
    <2>3. permits' + lost' =
              permits + lost - In("posted", HeldStages) + In(at[c], HeldStages)
        BY <1>3, CountsAreInt DEF Resume
    <2> QED
        BY <1>3, <2>1, <2>2, <2>3, AccountsKeep DEF Resume, Stages
<1> QED
    BY <1>1, <1>2, <1>3

\* A request fails and is tried again: the call keeps its permit and its count.
LEMMA RetryKeeps ==
    ASSUME Inv, NEW c \in Callers, Failed(c) \/ Retry(c)
    PROVE  Inv'
<1>1. CASE Failed(c)
    <2>1. Shape'
        BY <1>1 DEF Failed, Inv, Shape, Stages, poolVars, botVars
    <2>2. counter' = counter + In("backoff", FlightStages) - In(at[c], FlightStages)
        BY <1>1, CountsAreInt DEF Failed, poolVars
    <2>3. permits' + lost' =
              permits + lost - In("backoff", HeldStages) + In(at[c], HeldStages)
        BY <1>1, CountsAreInt DEF Failed, poolVars
    <2> QED
        BY <1>1, <2>1, <2>2, <2>3, AccountsKeep DEF Failed, Stages
<1>2. CASE Retry(c)
    <2>1. Shape'
        BY <1>2, PoolConstants DEF Retry, Inv, Shape, Stages, poolVars, botVars
    <2>2. counter' = counter + In("posted", FlightStages) - In(at[c], FlightStages)
        BY <1>2, CountsAreInt DEF Retry, poolVars
    <2>3. permits' + lost' =
              permits + lost - In("posted", HeldStages) + In(at[c], HeldStages)
        BY <1>2, CountsAreInt DEF Retry, poolVars
    <2> QED
        BY <1>2, <2>1, <2>2, <2>3, AccountsKeep DEF Retry, Stages
<1> QED
    BY <1>1, <1>2

\* A call ends, in whatever way: its permit and its count are given back together.
LEMMA LeavesKeep ==
    ASSUME Inv, NEW c \in Callers, Leaves(c)
    PROVE  Inv'
<1>1. at[c] \in {"posted", "backoff"} /\ Leave(c)
    BY DEF Leaves, Answered, GivenUp, Aborted, Raised, CancelCall
<1>2. /\ at' = [at EXCEPT ![c] = "idle"]
      /\ attempt' = [attempt EXCEPT ![c] = 0]
      /\ permits' = permits + 1 /\ counter' = counter - 1
      /\ UNCHANGED <<orphans, lost, botVars>>
    BY <1>1 DEF Leave, Release, Out
<1>3. Shape'
    BY <1>2, PoolConstants DEF Inv, Shape, Stages, botVars
<1>4. counter' = counter + In("idle", FlightStages) - In(at[c], FlightStages)
    BY <1>1, <1>2, CountsAreInt
<1>5. permits' + lost' =
          permits + lost - In("idle", HeldStages) + In(at[c], HeldStages)
    BY <1>1, <1>2, CountsAreInt
<1> QED
    BY <1>2, <1>3, <1>4, <1>5, AccountsKeep DEF Stages

\* A waiting coroutine is cancelled, or a thread gets the permit of one that was.
LEMMA CancelKeeps ==
    ASSUME Inv,
           \/ \E c \in Callers : CancelWait(c)
           \/ \E b \in Bots : OrphanGets(b)
    PROVE  Inv'
<1>1. ASSUME NEW c \in Callers, CancelWait(c)
      PROVE  Inv'
    <2>1. /\ at' = [at EXCEPT ![c] = "idle"]
          /\ attempt' = [attempt EXCEPT ![c] = 0]
          /\ UNCHANGED <<permits, counter, botVars>>
        BY <1>1 DEF CancelWait, Out
    <2>2. \/ at[c] = "granted" /\ lost' = lost + 1 /\ UNCHANGED orphans
          \/ /\ at[c] = "queued" /\ UNCHANGED lost
             /\ \/ orphans' = [orphans EXCEPT ![BotOf[c]] = @ + 1]
                \/ UNCHANGED orphans
        BY <1>1 DEF CancelWait
    <2>3. Shape'
        BY <2>1, <2>2, PoolConstants DEF Inv, Shape, Stages, botVars
    <2>4. counter' = counter + In("idle", FlightStages) - In(at[c], FlightStages)
        BY <2>1, <2>2, CountsAreInt
    <2>5. permits' + lost' =
              permits + lost - In("idle", HeldStages) + In(at[c], HeldStages)
        BY <2>1, <2>2, CountsAreInt
    <2> QED
        BY <2>1, <2>3, <2>4, <2>5, AccountsKeep DEF Stages
<1>2. ASSUME NEW b \in Bots, OrphanGets(b)
      PROVE  Inv'
    <2>1. InFlight' = InFlight /\ Holders' = Holders
        BY <1>2 DEF OrphanGets, InFlight, Holders, callVars
    <2>2. Shape'
        BY <1>2 DEF OrphanGets, Inv, Shape, callVars, botVars
    <2>3. CounterIsPending'
        BY <1>2, <2>1 DEF OrphanGets, Inv, CounterIsPending
    <2>4. PermitsAccounted'
        BY <1>2, <2>1, Counted, PoolConstants DEF OrphanGets, Inv, Shape,
            PermitsAccounted
    <2> QED
        BY <2>2, <2>3, <2>4 DEF Inv
<1> QED
    BY <1>1, <1>2

\* A price fetch begins, ends or is cancelled: no permit and no count changes.
LEMMA FetchKeeps ==
    ASSUME Inv, NEW c \in Callers, Fetch(c) \/ CancelFetch(c)
    PROVE  Inv'
<1>1. PICK s \in {"idle", "fetching"} :
          at[c] \in {"idle", "fetching"} /\ Turns(c, s)
    BY DEF Fetch, FetchBegins, FetchEnds, CancelFetch
<1>2. Shape'
    BY <1>1 DEF Turns, Inv, Shape, Stages, poolVars, botVars
<1>3. counter' = counter + In(s, FlightStages) - In(at[c], FlightStages)
    BY <1>1, CountsAreInt DEF Turns, poolVars
<1>4. permits' + lost' = permits + lost - In(s, HeldStages) + In(at[c], HeldStages)
    BY <1>1, CountsAreInt DEF Turns, poolVars
<1> QED
    BY <1>1, <1>2, <1>3, <1>4, AccountsKeep DEF Turns, Stages

\* Whichever thread steps, the accounts stay right.
LEMMA StepInv == Inv /\ [Next]_vars => Inv'
<1> SUFFICES ASSUME Inv, [Next]_vars PROVE Inv'
    OBVIOUS
<1>1. CASE UNCHANGED vars
    BY <1>1, LifeKeeps DEF vars, botVars, Inv, Shape
<1>2. ASSUME NEW c \in Callers, Begin(c) \/ Grant(c) \/ CallStep(c) \/ Fetch(c)
      PROVE  Inv'
    BY <1>2, EntryKeeps, RetryKeeps, LeavesKeep, CancelKeeps, FetchKeeps DEF CallStep
<1>3. ASSUME NEW b \in Bots, BotStep(b), ~OrphanGets(b)
      PROVE  Inv'
    <2>1. UNCHANGED <<callVars, poolVars>>
        BY <1>3 DEF BotStep, StartLoop, Signal, LoopEnds, InitFails, Waits, WaitOver,
            WaitExpires, Close, Closed, Restart, Goes
    <2>2. phase' \in [Bots -> Phases]
        BY <1>3 DEF BotStep, StartLoop, Signal, LoopEnds, InitFails, Waits, WaitOver,
            WaitExpires, Close, Closed, Restart, Goes, Inv, Shape, Phases
    <2>3. signalled' \in [Bots -> BOOLEAN]
        BY <1>3 DEF BotStep, StartLoop, Signal, LoopEnds, InitFails, Waits, WaitOver,
            WaitExpires, Close, Closed, Restart, Goes, Inv, Shape
    <2> QED
        BY <2>1, <2>2, <2>3, LifeKeeps
<1> QED
    BY <1>1, <1>2, <1>3, CancelKeeps DEF Next

-----------------------------------------------------------------------------
(* Results. *)

\* In every reachable state permits and calls under way are accounted for.
THEOREM PoolInvariance == Spec => []Inv
BY InitInv, StepInv, PTL DEF Spec

\* Every variable always holds a value of its kind: the semaphore stays between
\* zero and its initial value, so that release() never raises, and the counter of
\* pending RPCs is never negative.
THEOREM PoolTypeCorrect == Spec => []TypeOK
<1>1. Inv => TypeOK
    BY Counted, PoolConstants DEF Inv, Shape, TypeOK, CounterIsPending,
        PermitsAccounted
<1> QED
    BY PoolInvariance, <1>1, PTL

\* The counter that every shutdown waits for is the number of requests under way.
THEOREM CounterIsRight == Spec => []CounterIsPending
<1>1. Inv => CounterIsPending
    BY DEF Inv
<1> QED
    BY PoolInvariance, <1>1, PTL

\* A permit is free, held by a live call, or lost to a cancelled coroutine.
THEOREM NoOtherPermitLost == Spec => []PermitsAccounted
<1>1. Inv => PermitsAccounted
    BY DEF Inv
<1> QED
    BY PoolInvariance, <1>1, PTL

\* At most max_concurrent_tasks requests are under way, those of all bots together.
THEOREM ConcurrencyIsBounded == Spec => [](counter <= Permits)
<1>1. Inv => counter <= Permits
    <2>1. InFlight \subseteq Holders
        BY DEF InFlight, Holders
    <2>2. Cardinality(InFlight) <= Cardinality(Holders)
        BY <2>1, Counted, FS_Subset
    <2> QED
        BY <2>2, Counted, PoolConstants DEF Inv, Shape, CounterIsPending,
            PermitsAccounted
<1> QED
    BY PoolInvariance, <1>1, PTL

\* A shutdown whose wait did not expire finds no request under way.
THEOREM WaitsForPending == Spec => WaitIsHonest
<1>1. Inv /\ [Next]_vars =>
        [\A b \in Bots : phase[b] = "waiting" /\ phase'[b] = "cancelling"
            => CallsOf(b) \cap InFlight' = {}]_vars
    <2> SUFFICES ASSUME Inv, Next, NEW b \in Bots,
                        phase[b] = "waiting", phase'[b] = "cancelling"
                 PROVE  InFlight' = {}
        BY DEF vars
    <2>1. \E d \in Bots : BotStep(d)
        BY DEF Next, Begin, Enter, Grant, CallStep, Resume, Failed, Retry, Leaves,
            Answered, GivenUp, Aborted, Raised, CancelCall, CancelWait, Leave, Fetch,
            FetchBegins, FetchEnds, CancelFetch, Turns, botVars
    <2>2. PICK d \in Bots : BotStep(d)
        BY <2>1
    <2>3. phase' # phase /\ d = b
        BY <2>2 DEF BotStep, StartLoop, Signal, LoopEnds, InitFails, Waits, WaitOver,
            WaitExpires, Close, Closed, Restart, OrphanGets, Goes, botVars, Inv, Shape
    <2>4. WaitOver(b)
        BY <2>2, <2>3 DEF BotStep, StartLoop, Signal, LoopEnds, InitFails, Waits,
            WaitExpires, Close, Closed, Restart, OrphanGets, Goes, botVars, Inv, Shape,
            InLoop, Cancelling
    <2>5. Cardinality(InFlight) = 0
        BY <2>4, Counted DEF WaitOver, Inv, CounterIsPending
    <2>6. InFlight = {}
        BY <2>5, Counted, FS_EmptySet
    <2> QED
        BY <2>4, <2>6 DEF WaitOver, Goes, InFlight, callVars
<1> QED
    BY PoolInvariance, <1>1, PTL DEF Spec, WaitIsHonest

-----------------------------------------------------------------------------
(* What a lost permit means for the rest of the process. *)

\* A permit that is lost is never found again, whichever thread steps.
LEMMA LostStays == Inv /\ [Next]_vars => lost' \in {lost, lost + 1}
<1> SUFFICES ASSUME Inv, [Next]_vars PROVE lost' \in {lost, lost + 1}
    OBVIOUS
<1>1. CASE UNCHANGED vars
    BY <1>1 DEF vars, poolVars
<1>2. ASSUME NEW c \in Callers, Begin(c) \/ Grant(c) \/ CallStep(c) \/ Fetch(c)
      PROVE  lost' \in {lost, lost + 1}
    BY <1>2 DEF Begin, Enter, Grant, CallStep, Resume, Failed, Retry, Leaves,
        Answered, GivenUp, Aborted, Raised, CancelCall, Leave, Release, CancelWait,
        Fetch, FetchBegins, FetchEnds, CancelFetch, Turns, poolVars
<1>3. ASSUME NEW b \in Bots, BotStep(b)
      PROVE  lost' \in {lost, lost + 1}
    BY <1>3 DEF BotStep, StartLoop, Signal, LoopEnds, InitFails, Waits, WaitOver,
        WaitExpires, Close, Closed, Restart, OrphanGets, Goes, poolVars
<1> QED
    BY <1>1, <1>2, <1>3 DEF Next

\* The requests under way have the permits that are left.
LEMMA CapacityLeft == Inv => counter + lost <= Permits
<1> SUFFICES ASSUME Inv PROVE counter + lost <= Permits
    OBVIOUS
<1>1. InFlight \subseteq Holders
    BY DEF InFlight, Holders
<1>2. Cardinality(InFlight) <= Cardinality(Holders)
    BY <1>1, Counted, FS_Subset
<1> QED
    BY <1>2, Counted, PoolConstants DEF Inv, Shape, CounterIsPending,
        PermitsAccounted

\* A bot that is cancelled while it waits for a permit narrows the semaphore for
\* every bot of the process, those started later included, until the process ends.
THEOREM LeaksAreForGood ==
    ASSUME NEW n \in Nat
    PROVE  Spec => [](lost >= n => [](counter <= Permits - n))
<1>1. Inv /\ lost >= n => counter <= Permits - n
    BY CapacityLeft, CountsAreInt, PoolConstants
<1>2. Inv /\ lost >= n /\ [Next]_vars => (lost >= n)'
    BY LostStays, CountsAreInt
<1> QED
    BY PoolInvariance, <1>1, <1>2, PTL DEF Spec

\* Once cancelled coroutines have cost all the permits, no bot has a call at the
\* wallet ever again: a restart of the strategies does not help.
THEOREM StarvedForGood == Spec => [](lost = Permits => [](Holders = {}))
<1>1. ASSUME Inv, lost = Permits
      PROVE  Holders = {}
    <2>1. Cardinality(Holders) = 0
        BY <1>1, Counted, CountsAreInt, PoolConstants DEF Inv, PermitsAccounted
    <2> QED
        BY <2>1, Counted, FS_EmptySet
<1>2. ASSUME Inv, lost = Permits, [Next]_vars
      PROVE  lost' = Permits
    <2>1. Inv'
        BY <1>2, StepInv
    <2>2. lost' <= Permits /\ lost' \in Nat
      <3>1. Holders' \subseteq Callers
        BY DEF Holders
      <3>2. Cardinality(Holders') \in Nat
        BY <3>1, FS_Subset, FS_CardinalityType, PoolConstants
      <3> QED
        BY <2>1, <3>2, PoolConstants DEF Inv, Shape, PermitsAccounted
    <2> QED
        BY <1>2, <2>2, LostStays, PoolConstants
<1>3. Inv /\ lost = Permits => Holders = {}
    BY <1>1
<1>4. Inv /\ lost = Permits /\ [Next]_vars => (lost = Permits)'
    BY <1>2
<1> QED
    BY PoolInvariance, <1>3, <1>4, PTL DEF Spec
=============================================================================
