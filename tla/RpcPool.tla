------------------------------- MODULE RpcPool -------------------------------
(***************************************************************************)
(* The wallet RPCs of the bots of one process (rpc_wrapper of              *)
(* definitions/xbridge_manager.py, rpc.py, shutdown.py, and the life of a  *)
(* bot's event loop in starter.py).                                        *)
(*                                                                         *)
(* The semaphore and the counter of pending RPCs are class attributes that *)
(* all bot threads use, each from its own event loop. A bot has a main     *)
(* coroutine and, in a gather, one for each pair. A bot that ends waits    *)
(* for the counter and cancels its orders; its loop then cancels the       *)
(* coroutines that a failed start has abandoned.                           *)
(***************************************************************************)
EXTENDS Integers, FiniteSets

CONSTANTS
    Bots,         \* the bot threads of the process
    Callers,      \* their coroutines
    BotOf,        \* the bot of each coroutine
    Mains,        \* the coroutines that run main(), one for each bot
    Permits,      \* max_concurrent_tasks
    MaxAttempts,  \* max_err_count of rpc_call
    MaxRetries    \* max_retries of the error handler, for transient errors

ASSUME PoolConstants ==
    /\ IsFiniteSet(Callers)
    /\ BotOf \in [Callers -> Bots]
    /\ Mains \subseteq Callers
    /\ Permits \in Nat \ {0} /\ MaxAttempts \in Nat \ {0}
    /\ MaxRetries \in Nat

VARIABLES
    phase,      \* where each bot thread is in its life
    signalled,  \* its shutdown_event is set
    at,         \* where each coroutine is in its call
    attempt,    \* err_count of rpc_call
    permits,    \* the value of _rpc_semaphore
    counter,    \* _active_rpc_counter
    orphans,    \* threads in acquire() on behalf of a cancelled coroutine
    lost        \* permits obtained for a coroutine that was gone: history

callVars == <<at, attempt>>
poolVars == <<permits, counter, orphans, lost>>
botVars == <<phase, signalled>>
vars == <<callVars, poolVars, botVars>>

-----------------------------------------------------------------------------

Phases == {"starting", "running", "waiting", "cancelling", "hurrying",
           "closing", "closed"}

\* Fetching a price from the exchange, which takes no permit; waiting for a permit,
\* with one that the coroutine does not know of yet, with a request under way, and
\* between two requests.
Stages == {"idle", "fetching", "queued", "granted", "posted", "backoff"}

CallsOf(b) == {c \in Callers : BotOf[c] = b}
MainsOf(b) == Mains \cap CallsOf(b)

AllIdle(S) == \A c \in S : at[c] = "idle"

InLoop(b) == phase[b] \in {"starting", "running"}
Cancelling(b) == phase[b] \in {"cancelling", "hurrying"}

\* The coroutines of a closing loop get nothing but their cancellation.
Alive(c) == phase[BotOf[c]] \notin {"closing", "closed"}

Stopped(c) == signalled[BotOf[c]]

\* The calls that the counter counts, and those that hold a permit.
InFlight == {c \in Callers : at[c] \in {"posted", "backoff"}}
Holders == {c \in Callers : at[c] \in {"granted", "posted", "backoff"}}

-----------------------------------------------------------------------------
(* rpc_wrapper and rpc_call. The variants FailUncounted, GiveUpHolding,
   RetryForever, RaiseHolding, WaitPatiently and CancelUncounted are not part of
   Next: each changes one step that the properties below depend on. *)

\* dxCancelOrder, dxGetMyOrders and dxflushcancelledorders are exempt from the
\* shutdown check. It comes before the wait for a permit and is not repeated
\* after it. A call that is refused changes nothing.
Enter(c, exempt) ==
    /\ exempt \/ ~Stopped(c)
    /\ at' = [at EXCEPT ![c] = "queued"]
    /\ UNCHANGED <<attempt, poolVars, botVars>>

\* The main coroutine calls when it has no gather to wait for, the others in a
\* gather.
HasTurn(c) ==
    /\ InLoop(BotOf[c])
    /\ IF c \in Mains THEN AllIdle(CallsOf(BotOf[c])) ELSE AllIdle(MainsOf(BotOf[c]))

\* A bot whose loop has ended only cancels its orders.
Begin(c) ==
    /\ at[c] = "idle"
    /\ \/ HasTurn(c) /\ \E exempt \in BOOLEAN : Enter(c, exempt)
       \/ Cancelling(BotOf[c]) /\ c \in Mains /\ Enter(c, TRUE)

\* acquire() returns in a thread of the default executor ...
Grant(c) ==
    /\ at[c] = "queued" /\ Alive(c) /\ permits > 0
    /\ permits' = permits - 1
    /\ at' = [at EXCEPT ![c] = "granted"]
    /\ UNCHANGED <<attempt, counter, orphans, lost, botVars>>

\* ... and the coroutine goes on in its loop: the call is counted and posted.
Resume(c) ==
    /\ at[c] = "granted" /\ Alive(c)
    /\ counter' = counter + 1
    /\ at' = [at EXCEPT ![c] = "posted"]
    /\ UNCHANGED <<attempt, permits, orphans, lost, botVars>>

Release ==
    /\ permits' = permits + 1 /\ counter' = counter - 1
    /\ UNCHANGED <<orphans, lost>>

\* The coroutine is out of its call.
Out(c) ==
    /\ at' = [at EXCEPT ![c] = "idle"]
    /\ attempt' = [attempt EXCEPT ![c] = 0]

\* The call is over, with a result or an exception: the finally clause counts it
\* out and __aexit__ releases its permit.
Leave(c) == Release /\ Out(c) /\ UNCHANGED botVars

\* A call that counts itself out and keeps its permit.
LeaveHolding(c) ==
    /\ counter' = counter - 1 /\ Out(c)
    /\ UNCHANGED <<permits, orphans, lost, botVars>>

\* The wallet answers: a result, an error object, or no result.
Answered(c) == at[c] = "posted" /\ Alive(c) /\ Leave(c)

FailUncounted(c) ==
    /\ at[c] = "posted" /\ Alive(c)
    /\ at' = [at EXCEPT ![c] = "backoff"]
    /\ counter' = counter - 1
    /\ UNCHANGED <<attempt, permits, orphans, lost, botVars>>

\* The request fails or times out, and will be tried again ...
Failed(c) ==
    /\ at[c] = "posted" /\ Alive(c)
    /\ at' = [at EXCEPT ![c] = "backoff"]
    /\ UNCHANGED <<attempt, poolVars, botVars>>

GiveUpHolding(c) ==
    /\ at[c] = "posted" /\ Alive(c) /\ attempt[c] >= MaxRetries
    /\ LeaveHolding(c)

\* ... unless the error is transient and the error handler has had enough of it.
GivenUp(c) ==
    /\ at[c] = "posted" /\ Alive(c) /\ attempt[c] >= MaxRetries
    /\ Leave(c)

\* A stop that is signalled before the backoff is over ends the call.
Aborted(c) == at[c] = "backoff" /\ Alive(c) /\ Stopped(c) /\ Leave(c)

RetryForever(c) ==
    /\ at[c] = "backoff" /\ Alive(c) /\ ~Stopped(c)
    /\ attempt' = [attempt EXCEPT ![c] = @ + 1]
    /\ at' = [at EXCEPT ![c] = "posted"]
    /\ UNCHANGED <<poolVars, botVars>>

Retry(c) ==
    /\ at[c] = "backoff" /\ Alive(c) /\ ~Stopped(c)
    /\ attempt[c] + 1 < MaxAttempts
    /\ attempt' = [attempt EXCEPT ![c] = @ + 1]
    /\ at' = [at EXCEPT ![c] = "posted"]
    /\ UNCHANGED <<poolVars, botVars>>

RaiseHolding(c) ==
    /\ at[c] = "backoff" /\ Alive(c) /\ ~Stopped(c)
    /\ attempt[c] + 1 = MaxAttempts
    /\ LeaveHolding(c)

\* RpcTimeoutError after the last backoff.
Raised(c) ==
    /\ at[c] = "backoff" /\ Alive(c) /\ ~Stopped(c)
    /\ attempt[c] + 1 = MaxAttempts
    /\ Leave(c)

-----------------------------------------------------------------------------
(* Price fetches: the tickers of a cycle by the main coroutine, the price of one
   token by a pair. Errors of the network, of the exchange and of the proxy are
   tried again without end, and no stop is looked at in between. *)

Turns(c, s) ==
    /\ at' = [at EXCEPT ![c] = s]
    /\ UNCHANGED <<attempt, poolVars, botVars>>

FetchBegins(c) == at[c] = "idle" /\ HasTurn(c) /\ Turns(c, "fetching")
FetchEnds(c) == at[c] = "fetching" /\ Alive(c) /\ Turns(c, "idle")

\* The fetch of a pair that a failed start has abandoned.
CancelFetch(c) ==
    at[c] = "fetching" /\ phase[BotOf[c]] = "closing" /\ Turns(c, "idle")

Fetch(c) == FetchBegins(c) \/ FetchEnds(c)

-----------------------------------------------------------------------------
(* The life of a bot thread. *)

Goes(b, p) ==
    /\ phase' = [phase EXCEPT ![b] = p]
    /\ UNCHANGED <<signalled, callVars, poolVars>>

\* main_init_loop is done.
StartLoop(b) ==
    /\ phase[b] = "starting" /\ ~signalled[b] /\ AllIdle(CallsOf(b))
    /\ Goes(b, "running")

Signal(b) ==
    /\ phase[b] \notin {"closing", "closed"} /\ ~signalled[b]
    /\ signalled' = [signalled EXCEPT ![b] = TRUE]
    /\ UNCHANGED <<phase, callVars, poolVars>>

\* main() returns; its gathers are over.
LoopEnds(b) ==
    /\ InLoop(b) /\ signalled[b] /\ AllIdle(CallsOf(b))
    /\ Goes(b, "waiting")

\* A pair raises in the gather of main_init_loop, before its own call or after it,
\* and main() ends; the calls of the other pairs go on.
InitFails(b) ==
    /\ phase[b] = "starting" /\ AllIdle(MainsOf(b))
    /\ Goes(b, "waiting")

WaitPatiently(b) == phase[b] = "waiting" /\ counter <= 0 /\ Goes(b, "hurrying")

\* wait_for_pending_rpcs sees no call of any bot, or gives up after 30 seconds.
WaitOver(b) == phase[b] = "waiting" /\ counter <= 0 /\ Goes(b, "cancelling")
WaitExpires(b) == phase[b] = "waiting" /\ Goes(b, "hurrying")

\* cancel_own_orders is done, and the bot unregisters: asyncio.run cancels the
\* coroutines that are left.
Close(b) == Cancelling(b) /\ AllIdle(MainsOf(b)) /\ Goes(b, "closing")

CancelUncounted(c) ==
    /\ phase[BotOf[c]] = "closing" /\ at[c] \in {"posted", "backoff"}
    /\ permits' = permits + 1 /\ Out(c)
    /\ UNCHANGED <<counter, orphans, lost, botVars>>

\* A coroutine that is cancelled in a call leaves it as an exception would ...
CancelCall(c) ==
    /\ phase[BotOf[c]] = "closing" /\ at[c] \in {"posted", "backoff"}
    /\ Leave(c)

\* ... but one that is cancelled in __aenter__ gives nothing back: the thread in
\* acquire() has its permit, or will get one, unless the executor had not begun it.
CancelWait(c) ==
    /\ phase[BotOf[c]] = "closing"
    /\ \/ /\ at[c] = "granted"
          /\ lost' = lost + 1
          /\ UNCHANGED orphans
       \/ /\ at[c] = "queued"
          /\ orphans' = [orphans EXCEPT ![BotOf[c]] = @ + 1]
          /\ UNCHANGED lost
       \/ at[c] = "queued" /\ UNCHANGED <<orphans, lost>>
    /\ Out(c)
    /\ UNCHANGED <<permits, counter, botVars>>

OrphanGets(b) ==
    /\ orphans[b] > 0 /\ permits > 0
    /\ orphans' = [orphans EXCEPT ![b] = @ - 1]
    /\ permits' = permits - 1 /\ lost' = lost + 1
    /\ UNCHANGED <<counter, callVars, botVars>>

\* asyncio.run joins the threads of the executor before the bot thread ends.
Closed(b) ==
    /\ phase[b] = "closing" /\ AllIdle(CallsOf(b)) /\ orphans[b] = 0
    /\ phase' = [phase EXCEPT ![b] = "closed"]
    /\ signalled' = [signalled EXCEPT ![b] = FALSE]
    /\ UNCHANGED <<callVars, poolVars>>

\* The strategy is started again, with a new loop and a new controller.
Restart(b) == phase[b] = "closed" /\ Goes(b, "starting")

-----------------------------------------------------------------------------

Init ==
    /\ phase = [b \in Bots |-> "starting"]
    /\ signalled = [b \in Bots |-> FALSE]
    /\ at = [c \in Callers |-> "idle"]
    /\ attempt = [c \in Callers |-> 0]
    /\ permits = Permits /\ counter = 0
    /\ orphans = [b \in Bots |-> 0]
    /\ lost = 0

Leaves(c) == Answered(c) \/ GivenUp(c) \/ Aborted(c) \/ Raised(c) \/ CancelCall(c)

CallStep(c) ==
    \/ Resume(c) \/ Failed(c) \/ Retry(c) \/ Leaves(c) \/ CancelWait(c)
    \/ CancelFetch(c)

Waits(b) == WaitOver(b) \/ WaitExpires(b)

BotStep(b) ==
    \/ StartLoop(b) \/ Signal(b) \/ LoopEnds(b) \/ InitFails(b) \/ Waits(b)
    \/ Close(b) \/ OrphanGets(b) \/ Closed(b) \/ Restart(b)

Next ==
    \/ \E c \in Callers : Begin(c) \/ Grant(c) \/ CallStep(c) \/ Fetch(c)
    \/ \E b \in Bots : BotStep(b)

\* A request ends within its timeout, and so does every sleep. A thread that waits
\* for a permit gets one if permits keep coming: a release wakes the waiter that
\* has waited longest. After a stop the cycle under way makes finitely many calls
\* and fetches, and the cancelling of orders finitely many calls, so the loop ends if
\* each of them does. Nothing is assumed of a price fetch: it may fail for ever.
Spec ==
    /\ Init /\ [][Next]_vars
    /\ \A c \in Callers : WF_vars(CallStep(c)) /\ SF_vars(Grant(c))
    /\ \A b \in Bots :
        /\ SF_vars(LoopEnds(b) \/ Close(b)) /\ WF_vars(Waits(b) \/ Closed(b))
        /\ SF_vars(OrphanGets(b))

-----------------------------------------------------------------------------
(* Properties. *)

\* Every variable holds a value of its kind.
TypeOK ==
    /\ phase \in [Bots -> Phases]
    /\ signalled \in [Bots -> BOOLEAN]
    /\ at \in [Callers -> Stages]
    /\ attempt \in [Callers -> 0..MaxAttempts - 1]
    /\ permits \in 0..Permits
    /\ counter \in Nat
    /\ orphans \in [Bots -> Nat]
    /\ lost \in 0..Permits

\* Through retries, aborts, exceptions and cancellations, the counter that every
\* shutdown waits for is the number of requests under way.
CounterIsPending == counter = Cardinality(InFlight)

\* A permit is free, held by a live call, or was obtained for a coroutine that had
\* been cancelled: nothing else loses one.
PermitsAccounted == permits + Cardinality(Holders) + lost = Permits

\* A shutdown whose wait did not expire goes on, to cancel the bot's orders, with
\* none of the bot's requests under way.
WaitIsHonest ==
    [][\A b \in Bots :
        phase[b] = "waiting" /\ phase'[b] = "cancelling"
            => CallsOf(b) \cap InFlight' = {}]_vars

\* Every call gets its permit in the end, or is cancelled, unless cancelled
\* coroutines have cost all the permits.
CallsGetThrough ==
    \A c \in Callers : at[c] = "queued" ~> (at[c] # "queued" \/ lost = Permits)

\* A bot that is told to stop ends, however the calls and the fetches of the other
\* bots go, unless one of its own coroutines sits in a price fetch for ever.
StopsAlone ==
    \A b \in Bots :
        signalled[b] ~> \/ phase[b] = "closed" \/ lost = Permits
                        \/ \E c \in CallsOf(b) : [](at[c] = "fetching")

=============================================================================
