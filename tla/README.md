# Verification of the XBridge trading bots

TLA+ modules, TLC instances and TLAPS proofs for the trading bots of this
repository: makers that keep one order per pair on the XBridge DEX, priced from
a centralised exchange (CEX) and replaced as the market moves; and the two beta
strategies that swap on THORChain as well.

## 1. The system

| Component | State it keeps | Operations | Talks to |
|---|---|---|---|
| **DexPair** (`definitions/pair.py`) with **PingPong** and **BasicSeller** (`strategies/`) | tracked order, virtual order, last completed order (also a YAML file), disabled flag, live price | create, query, cancel and replace an order; book a completed one; disable | XBridge wallet, tokens, strategy hooks |
| **MainController, main, run_async_main** (`definitions/starter.py`), **ShutdownCoordinator** | shutdown event, price and balance timers | startup tasks, init loop, main loop, orderly shutdown | every pair, the CCXT manager |
| **XBridgeManager, rpc_call** (`definitions/xbridge_manager.py`, `rpc.py`) | RPC semaphore, pending counter, UTXO cache (all class-wide) | wrapped RPCs with retries and a shutdown bail-out, `cancelallorders` | Blocknet wallet |
| **ErrorHandler** (`definitions/error_handler.py`) | none | classify: retry, continue, abort and signal shutdown | controller |
| **CCXTManager** (`definitions/ccxt_manager.py`) | reference count, proxy instance, proxy thread, proxy lock (all class-wide) | register, unregister, start and clean up the shared price proxy | bot threads, proxy service |
| **Price proxy** (`proxy_ccxt.py`) | ticker cache, symbol list, refresh lock | serve tickers, periodic refresh | CEX |
| **Tokens** (`definitions/token.py`) | CEX price, balances, address file | update price, request address | CCXT manager, wallet |
| **BaseStrategy, GUI frames, GUI shutdown** (`strategies/base_strategy.py`, `gui/`) | bot thread handle, `is_running`; `started`, `stopping` | start, stop with a bounded join, finalise and reload, close the application | controller through the event loop |
| **AsyncUpdater** (`gui/utils`) | queue, running flag, fetcher thread | start, stop, fetch, drain | Tk main thread |
| **ArbitrageStrategy, TradeState** (`strategies/arbitrage_strategy.py`, `definitions/trade_state.py`; beta) | a state file per trade, the pause file | take an XBridge order, swap the proceeds on THORChain, resume, wait for a refund | wallet, THORChain |
| **ThorChainContinuousStrategy** (`strategies/thorchain_continuous_strategy.py`; beta) | ledger (anchor rate, last direction and amounts; also a file), failure count, the pause file | anchor trade, evaluate, swap, verify growth, pause | wallet, THORChain |
| **Range maker** (beta) | a grid of prices | generate the grid | none when live |

### What is hard

* *Every await is an interleaving point.* A pair's coroutine reads its order,
  waits for an RPC, and acts on what it read, while a taker takes the order, the
  user stops the bot or another strategy cancels everything in the wallet.
* *RPCs are retried and lost.* `rpc_call` repeats a request whose answer did not
  arrive, `dxMakeOrder` included; a lost answer leaves an order nobody tracks.
* *Restarts keep only two things*: the wallet's orders and the history file,
  written in place. The beta strategies keep a file per trade, or one ledger, and
  these are written in place too.
* *A trade has two legs on two systems.* Money is out between them, and what the
  records say decides whether a leg is repeated, skipped or forgotten.
* *A stop is a signal plus a bounded wait*, and some calls refuse to run once it
  is given.
* *Threads share class-wide state*: the proxy's reference count and lock, the
  RPC counter, the UTXO cache.

### What makes each component correct

* Pair: the exchange holds no open order of the pair that the pair does not
  track; what is booked is what was traded; sides alternate; a buy keeps the
  spread below the sell it answers; a seller's orders keep up with its floor in USD;
  a disabled pair is silent; a stop ends.
* Shared proxy: never stopped under a registered strategy, stopped when the last
  one has gone, never two of them.
* Threads and frames: a stopped frame has no bot, and one frame never runs two;
  a stop frees the frame; a bot that died is noticed; closing the application
  waits for what it has to stop.
* Price cache: a request sees a price of a recent refresh, never another pair's.
* Arbitrage: the records are true; an order that was taken leaves a trace; the
  second leg is sent after the first is finished, and once; trading is paused while
  a refund is due.
* Continuous swaps: the ledger describes the last swap; swaps alternate, pay with
  what the last one brought and beat it by the spread; a lasting offer is taken.

`PROJECT.json` lists the hazards by source line.

## 2. Modules

| Module | Models | Extends |
|---|---|---|
| `TradeLedger` | abstract: what a PingPong pair promises of its books | |
| `MakerPair` | one pair, its wallet and its process: the program's core | instantiates `TradeLedger` |
| `MakerPairProofs` | its theorems | `MakerPair`, `TLAPS` |
| `SharedService` | abstract: what the strategies are promised of the price proxy | |
| `CcxtProxy` | the price proxy shared by the strategies of a process | instantiates `SharedService` |
| `BotThreads` | one GUI frame with its instances, bot and stopper threads, and the closing of the application | |
| `RpcPool` | the wallet calls of all bots of a process: semaphore, pending counter, retries, and the bots' loops as they start, fail, stop and close | |
| `PriceProxy` | the ticker cache of the price proxy, its refreshes, and the prices the bots take from it | |
| `TwoLegTrade` | abstract: what the arbitrage strategy promises of a trade's two legs | |
| `ArbitrageSaga` | arbitrage trades with their records, crashes and resumptions | instantiates `TwoLegTrade` |
| `ThorContinuous` | the continuous strategy, its ledger and the market | |
| `CcxtProxyProofs`, `BotThreadsProofs`, `RpcPoolProofs`, `PriceProxyProofs`, `ArbitrageSagaProofs`, `ThorContinuousProofs` | their theorems | the module each names, `TLAPS` |
| `MCMakerPair`, `MCCcxtProxy`, `MCBotThreads`, `MCRpcPool`, `MCPriceProxy`, `MCArbitrageSaga`, `MCThorContinuous` | the instances TLC runs | the module each names |

The modules meet in the code as follows. `RpcPool` is the inside of the RPC awaits
of `MakerPair`; `CcxtProxy` starts and ends the service whose cache is
`PriceProxy`, which sets the price that `MakerPair` reads; `BotThreads` starts and
stops the process of a `MakerPair`. `ArbitrageSaga` and `ThorContinuous` share the
pause file and the guarded swap function. Each is checked alone: what it takes from
another is a free choice of its environment.

Each module with properties also holds a few operators that are not part of
`Next`: variants of an operation with one guard, call or assignment wrong. Put in
the operation's place, each makes the property it is paired with fail
(`PROJECT.json`, "mutants"), which shows that the property depends on that part
of the code.

## 3. MakerPair: one maker pair, its wallet and its process

### State

| Variable | Code |
|---|---|
| `pc` | where the pair's coroutine waits (`getorderstatus`, `makeorder`, `cancelorder`, `request_addr`), between cycles (`idle`), a cycle that fetches its prices (`tickers`), or the phase of the process (`startup`, `init`, which ends with the first fetch, `closing`, `stopped`, `crashed`) |
| `order`, `current`, `history`, `disabled` | `DexPair.order` (its id), `current_order`, `order_history`, `disabled` |
| `price` | `cex.usd_price` of the maker and the taker token as of this cycle, `NoPrice` if one is unknown; `CexPair.price` is their quotient (`Market`) |
| `shutdown` | `MainController.shutdown_event` |
| `file` | the strategy's `_last_order.yaml` of the pair |
| `book` | the wallet and exchange: status and terms of each order id |
| `last` | the last order the pending `dxMakeOrder` call has created |
| `lossy` | ghost: an RPC outcome was lost since the last complete startup sweep |

### Actions

One step is the code from one await to the next. `FetchTickers` begins a cycle of
`main_loop`; `StatusCheck` is the rest of it, from the prices to the pair's first RPC,
and `InitPair` the same in `main_init_loop`; a fetch that is over only after a stop was
signalled is `FetchInterrupted`. `StatusLive`, `StatusFinished`, `StatusClosed`,
`StatusFailed` and `StatusLost` are what `status_check` does with each answer of
`dxGetOrder`; `AddressReply` finishes `at_order_finished`; `ExecuteMake` is one
execution of `dxMakeOrder` at the wallet (possibly repeated), and `MakeAnswered`,
`MakeRejected`, `MakeUnanswered` are how that call ends; `CancelReturned` and
`CancelRaised` end `check_price_variation`. `Start`, `SweepOrders`,
`SweepRaised`, `LeaveMain`, `CloseOrders` are the life of the
process, `RequestStop` and `Crash` its interruptions, `Exchange` and `Forget` the
outside world. `CreateOrder` and `RenewOrder` are the code all placing paths
share, early returns included.

### Abstractions

* A virtual order is its side, the price it was based on and its price. Amounts,
  addresses, partial orders and formatting are left out; whether the balance
  covers an order is a free choice.
* `controller.disabled_coins` is always the empty list, so the branch it guards
  is left out.
* Prices are natural numbers. The tokens' prices are in USD, an order's price is in
  units of 1/`Precision` taker token and cut to a whole number of them, as `truncate`
  cuts decimals (`Market`, `SellBase`); `CexPair.price` is the quotient of two BTC
  prices, which is that of the USD prices. Both tokens are read at one moment of the
  cycle. A cycle within `CCXT_PRICE_REFRESH` of the last one, which asks for no price,
  is one whose fetch brings the same prices.
* An unknown price raises inside the strategy: `safe_thread_loop` swallows that
  in the main loop, and the init loop ends the bot. Both are modelled.
* A status string that `_map_order_status` does not list is treated as open, as
  the code does. `open` stands for open and new, and so on (see the module).
* A request executes, if at all, while its call is pending; a wallet that
  executes a request after the client gave up on it would add orders in states
  the model already marks `lossy`.
* A write of the history file succeeds, fails before the file is opened, or
  fails after it was truncated (the reader then finds `None`).
* An error object in a `dxMakeOrder` reply may or may not disable the pair: a code
  outside `{1019, 1018, 1026, 1032}` does; a JSON-RPC error envelope has no
  top-level code and does not.
* One pair. Several pairs share the process's phase but no order state.

### Properties

| Property | Kind | Meaning |
|---|---|---|
| `TypeOK` | invariant | types; catches an error object kept as the order |
| `OpenOrdersTracked` | invariant | without a lost RPC, never two open orders, through stops, crashes and restarts; while trading and without a stop, the only one is the tracked one |
| `SightLostInRace` | action | a running pair loses sight of an active order only when a taker overtakes its cancel |
| `KeepsBooks` | refinement | the pair implements `TradeLedger` |
| `BookedIsTraded` | action, proved only | the recorded trade is what the exchange executed under the tracked id |
| `HistoryAlternates` | action, proved only | a running PingPong bot books sell, buy, sell, ... |
| `GuaranteedSpread` | action | a booked buy is at most the sell before it less the spread |
| `RespectsFloor` | action | an open order that BasicSeller has just placed, or looked at and left in place, brings the floor in USD at what the taker token is worth in this cycle, less the tolerance and a unit of precision |
| `DisabledIsFinal` | action | a disabled pair stays disabled and places nothing until it restarts |
| `StopTerminates` | liveness | a stop request ends in a stopped (or killed) process, or the process stays in a price fetch for ever |
| `SingleActiveOrder` | refuted | README.md:115, "Single active order per pair" |
| `StopCancelsOwnOrders` | refuted | shutdown.py:44, "Cancel strategy's own orders" |

`TradeLedger` is the books without the trading: a trade is executed, entered, saved or
not, forgotten by the exchange, and read again after a restart; an entry is an executed
trade that answers the one in the ledger, or that one once more (a renewal that fails
for want of a price leaves the finished order tracked, and the next cycle books it
again). The refinement maps `up` to
`pc \notin Down`, `ledger` to `history`, `stored` to `file` and `done` to the finished
orders of `book`; orders that are not finished, prices, virtual orders, stops and RPCs
are invisible. It says more than `BookedIsTraded` and `HistoryAlternates` together:
those speak of steps of a running bot, it also ties what a restart reads to what was
saved. It says nothing of the trades a pair loses sight of; those are
`SightLostInRace` and `lossy`.

`RespectsFloor` is a property of steps because no state property holds: the floor is
in USD, the order in taker tokens, and between two cycles the taker may lose any part
of its value under an order that is on the book. What the code does about it is the
drift check, which BasicSeller makes against the floor, not against the market, while
its token is worth less than the floor (`calculate_variation_based_on_side`). The
mutant `PriceInRangeOfMarket` measures from the market and keeps an order below the
floor. The tolerance in the property is the one the check grants, and no offset is
asked for: the drift is measured from the base price, before the offset.

### Fairness

`WF_vars(BotStep)`: the bot's coroutine goes on. Each RPC of the wallet ends because
`rpc_call` bounds every attempt by a 30 s time-out and the attempts by five, and
the main loop polls the shutdown event every `SLEEP_INTERVAL`. Nothing is assumed
of the exchange, of takers, of the user or of the wallet executing a request, nor of
the end of a price fetch (`FetchEnds`): `ccxt_call_fetch_tickers`
(ccxt_manager.py:234-264) tries again for as long as the exchange or the proxy fails,
since the error handler answers True for an operational error, and does not look at
the shutdown event. `StopTerminates` therefore names a process that stays in a fetch,
the one that was under way at the stop or one it still begins (a stop that comes
during the startup sweep is first looked at after the fetch of `main_init_loop`).

## 4. Runs

| Run | Module, configuration | Bounds | What it shows |
|---|---|---|---|
| `pingpong` | `MCMakerPair`, `PingPong.cfg` | two prices further apart than the tolerance, two order ids (symmetric), offset 5, spread 10, tolerance 20 | one open order, how sight of one is lost, the spread, and that the pair implements `TradeLedger`, under lost and repeated RPCs, takers, stops, crashes, restarts (1,206,428 states) |
| `seller` | `MCMakerPair`, `Seller.cfg` | three quotes of the two tokens, around a floor of 120 USD; 10,000 units to a taker token, tolerance 1 %, no offset; two ids | floor, disabling, termination of a stop (329,332 states) |
| `single_order` | `MCMakerPair`, `SingleOrder.cfg` | as `pingpong` | refutes `SingleActiveOrder` |
| `stop_cancels` | `MCMakerPair`, `StopCancels.cfg` | one price | refutes `StopCancelsOwnOrders` |
| `ccxt_proxy` | `MCCcxtProxy`, `CcxtProxy.cfg` | two strategies, three service threads, three waiting clean-ups | that the shared proxy implements `SharedService`, leaks no service and ends (18,885 states) |
| `frame` | `MCBotThreads`, `Frame.cfg` | four instances, one save in flight, two close requests | the frame's races and liveness (313,560 states) |
| `one_live_bot` | `MCBotThreads`, `OneLiveBot.cfg` | three instances | refutes `OneLiveBot` |
| `exit_after_stops` | `MCBotThreads`, `ExitAfterStops.cfg` | three instances, two close requests | refutes `ExitAfterStops` |
| `rpc_pool` | `MCRpcPool`, `RpcPool.cfg` | two bots, three coroutines, two permits, two attempts, one retry | the accounts of the pool, calls and stops that get through (26,045 states) |
| `price_proxy` | `MCPriceProxy`, `PriceProxy.cfg` | two bots, two symbols of different market types, two attempts, one move of the market | what overlapping refreshes do to prices and answers, and that requests end (305,967 states) |
| `arbitrage` | `MCArbitrageSaga`, `ArbitrageSaga.cfg` | two trades, the files of one may fail, two sends of a second leg | records, traces, the second leg and the pause under crashes and resumptions, that executions end, and that the saga implements `TwoLegTrade` (377,414 states) |
| `thor_continuous` | `MCThorContinuous`, `ThorContinuous.cfg` | four rates around 1.0, spread 40 %, two failures to the threshold | the ledger, alternation, the spread, and that a lasting offer is taken (849,055 states) |

Why the bounds are enough. *Order ids*: every action touches at most the tracked
order and one that escaped it; two ids let an order be untracked while another is
placed, and `Forget` returns an id that is over for reuse. *Prices*: the price
check compares one base price with one live price and has three outcomes; two
prices give a rise, a fall and no change. The seller's three quotes give a token that
is worth more than the floor or less than it at the same market price, which only the
floor tells apart, and a taker that falls by less than the tolerance, so that an order
below the floor is kept, and by half. *Services*: one service thread is
managed and at most one given up per wait for the port; a third one lets a
service that is still ending meet two successors. *Instances*: losing a bot takes
a start and a reload; a third instance is started beside it, a fourth is the
reload after that. *Coroutines and permits*: a main coroutine and one of its pairs
meet in one bot (a start that fails abandons the pair's call), a second bot waits
for the counter and for permits that the first holds; with two permits one can be
lost while the other still circulates, and both can be. *Symbols*: two market types
give a refresh with a gap between two answers, into which the other refresh falls; a
price that goes back needs two versions of the market and no more. *Trades*: two
trades meet in one cycle, in one resumption and at the one pause file, and share
nothing else; the files of one fail and those of the other do not, so that a
property that excuses a failed save is also seen without the excuse. A third send
of a second leg leads to no state that the second does not lead to. *Rates*: four
rates around 1.0 give rises and falls by less than the spread and by more, an anchor
that is exactly 1.0, and falls by more than the spread with the product of rate and
anchor above and below 1, which is what the code's double inversion asks about.

### What the two refuted promises show

* `single_order`: the bot places an order, the price drifts, `status_check`
  decides to cancel; a taker takes the order before `dxCancelOrder` arrives; the
  wallet refuses; `cancel_myorder_async` ignores the answer, forgets the order and
  `reinit_virtual_order_after_price_variation` places a second one. The first is
  in a swap and will complete unseen: it is never booked. A restart during a swap
  leads to the same state, since the startup sweep looks at open orders only.
* `stop_cancels`: a stop is signalled while the cycle is on its way to
  `dxGetOrder`; `rpc_wrapper` returns `None` at once; `check_order_status` takes
  that for a lost order and clears `DexPair.order`; `cancel_own_orders` finds
  nothing to cancel. The order stays open, and its next owner is the startup
  sweep of the next run, if there is one.

Two observations without a run. The repository's README says of BasicSeller
(README.md:154) that below the floor the order price is the floor price; the code
applies the offset on top of the floor, so the two agree only without an offset, as in
the run `seller`. And `RespectsFloor` without its tolerance fails: an order that was
placed at the floor is kept while the taker falls by less than the tolerance.

## 5. CcxtProxy: the shared price proxy

| Variable | Code |
|---|---|
| `bot` | a strategy thread: not registered, between fetches, on its way into `_start_proxy`, or polling the port in it |
| `refs`, `lock` | `_proxy_ref_count`; who holds `_proxy_lock` across two steps |
| `proxy` | `_proxy_service_instance` and `_proxy_service_thread`, always set and cleared together |
| `svc`, `stopping` | each `AsyncPriceService` thread: loading markets, serving, closing, dead; its `stop_event` |
| `cleanups` | `ProxyCleanup` threads that wait for the lock |

The lock is free between two steps except in the two places where the code keeps
it for seconds: while `_start_proxy` polls the port (`PortSeen`, `GiveUp`) and
while `_cleanup_proxy` joins the service thread (`CleanupJoined`, after the thread
ended or after 10 s). So a clean-up, a registration and a start can be ordered in
any way around each other and around the service's own life.

| Property | Kind | Meaning |
|---|---|---|
| `KeepsShared` | refinement | the manager implements `SharedService` |
| `NotStoppedUnderUse` | invariant, proved only | the managed service is not asked to stop while a strategy is registered |
| `NoLeakedService` | invariant | a live service that is no longer referenced has been told to stop |
| `UnusedIsCleaned` | invariant | a managed live service without users has a clean-up coming |
| `ProxyEnds` | liveness | once no strategy is left, every service ends, or one comes back |

`SharedService` is the service without its management: users join and leave; a service
is started when somebody uses it and no other is up, and, once it is known to be up,
is told to stop only when nobody does. The refinement maps `using` to the registered
strategies and gives each service a stage (`StageOf`): `off` for a thread that is
dead, `asked` once it was told to stop, `failing` while it closes by itself,
`starting` while it is the managed one and its starter still waits for the port, `up`
otherwise. It says more than `NotStoppedUnderUse`: not only the managed service, but
none that serves is ever retired under a user, and no second one is started beside
it.

Assumptions. A service thread is scheduled within the 10 s its starter waits, so
that `AsyncPriceService.stop`, which does nothing before the service has a loop,
reaches it. A strategy thread stays in `_start_proxy` until it returns: the GUI
never cancels one, and Ctrl+C in the command-line bots ends the process. A proxy
run by hand beside the bots (`proxy_ccxt.py` as a program) is left out. Fairness:
threads that can run do, since the market loading, the joins and the wait for the
port are bounded.

## 6. BotThreads: one GUI frame

| Variable | Code |
|---|---|
| `inst` | the frame's `config_manager.strategy_instance`; every reload makes the next one, with a configuration manager and a controller of its own |
| `phase`, `isRunning`, `signalled` | per instance: its bot thread in `run_async_main`, its `is_running`, its controller's `shutdown_event` |
| `started`, `stopping` | the frame's flags, which enable its buttons |
| `stopper`, `target`, `reload` | the stopper thread: where it is in `BaseStrategy.stop`, on which instance, and what `_finalize_stop` will do |
| `window`, `saves` | the configuration window; saves whose reload is queued |
| `coord`, `exited` | a shutdown coordinator for each close request; the end of the process |
| `lost` | ghost: which of the three known ways let a bot out of hand |

A bot has a controller only from `BotRegisters` on: registration may wait for the
proxy lock for as long as the shared proxy takes to start. STOP before that
signals nobody. The stopper looks at the loop, waits for `resource_lock` and calls
into the loop in two steps (`StopperEnters`, then `StopperSignals` or
`StopperRaises`); if the loop closed in between, the stopper thread dies and the
frame stays "stopping", with START and STOP both disabled. A save of the
configuration reaches the main thread as a callback; by then the window may be
closed and the bot started, and `Replace` swaps the instance under it.

| Property | Kind | Meaning |
|---|---|---|
| `RunningIsStoppable` | invariant | a running bot the frame no longer holds has been signalled, except after an early STOP or a late reload |
| `OutlivesByTimeout` | invariant | a bot outlives its frame's hold only after a join time-out or a late reload |
| `StopFinishes` | liveness | a stop frees the frame however long the bot hangs, except when the stopper died |
| `CloseExits` | liveness | closing the window ends the process |
| `OneLiveBot` | refuted | base_frames.py:145, base_frames.py:76 |
| `ExitAfterStops` | refuted | gui_shutdown_coordinator.py:79 |

Fairness: the stopper (its join has a time-out), the Tk main thread's callbacks,
the coordinators. Nothing of the bots, which may hang in a price fetch that
nothing bounds, nor of the user. The stopper's wait for `resource_lock`
(base_strategy.py:195) has no time-out of its own: it is bounded because the RPC that
the bot makes under that lock is (starter.py:150). The end of the process is that of
the Tk main loop: the bot threads are daemons; that the interpreter then joins the
threads of its executors is left out.

Abstractions: the flags of a frame are tested and set in one step (the GUI thread
and a coordinator could interleave within a line of `stop`); the buttons are
disabled once the application is closing, which `initiate_shutdown` intends with
its grab; a frame whose configuration failed to load has no instance to start and
is left out. `_critical_error_handler` is not a step: `run_async_main` re-raises
`RPCConfigError` only, which nothing in a bot thread raises, so a bot that dies
ends unnoticed (`BotLeaves`, `BotEnds`), the frame still showing it as started.

What the refuted promises show. `one_live_bot`: START, STOP before the bot has
registered, the join times out, `_finalize_stop` frees START, START again: two
bots of one strategy, the first of which was never signalled and trades on.
`exit_after_stops`: STOP, then the window is closed; `frame.stop` answers `None`
for a frame that is already stopping, nothing is joined, and the process ends
while the daemon bot thread is still cancelling its orders.

## 7. RpcPool: the wallet calls of all bots

`XBridgeManager` keeps the semaphore and the counter of pending RPCs in class
attributes: every bot thread of the process uses them, each from its own loop.

| Variable | Code |
|---|---|
| `phase` | per bot: `main_init_loop`, `main_loop`, `wait_for_pending_rpcs`, `cancel_own_orders` (`cancelling` after a wait that saw the counter at zero, `hurrying` after one that expired), `asyncio.run` cancelling what is left, ended |
| `signalled` | its `shutdown_event` |
| `at`, `attempt` | per coroutine: outside `rpc_wrapper`, in a price fetch (which takes no permit), waiting in `__aenter__`, given a permit by the executor thread, in a request, in a backoff; its `err_count` |
| `permits`, `counter` | `_rpc_semaphore`, `_active_rpc_counter` |
| `orphans`, `lost` | threads that wait in `acquire()` for a coroutine that is gone; ghost: permits such threads have obtained |

`Begin`, `Grant`, `Resume` are the way in: the shutdown check, which is not repeated
after the wait for a permit; the executor thread's `acquire`; the return of the
coroutine to its loop, where it is counted. `Answered`, `Failed`, `GivenUp`,
`Aborted`, `Retry`, `Raised` are `rpc_call`. `FetchBegins` and `FetchEnds` are the
calls of the exchange that a cycle makes between those of the wallet. `StartLoop`, `Signal`, `LoopEnds`,
`InitFails`, `WaitOver`, `WaitExpires`, `Close`, `Closed`, `Restart` are the life of a
bot thread; `CancelCall`, `CancelWait` and `CancelFetch` what `asyncio.run` does to the
coroutines that a failed `gather` abandoned.

| Property | Kind | Meaning |
|---|---|---|
| `CounterIsPending` | invariant | the counter is the number of requests under way, whatever ends them |
| `PermitsAccounted` | invariant | a permit is free, held by a live call, or lost to a cancelled waiter |
| `WaitIsHonest` | action | a shutdown whose wait did not expire finds none of its bot's requests under way |
| `CallsGetThrough` | liveness | a waiting call gets a permit or is cancelled, unless all permits are lost |
| `StopsAlone` | liveness | a bot told to stop ends however busy the other bots keep the counter, unless all permits are lost or one of its coroutines stays in a price fetch for ever |

What TLC shows beside the properties. `lost` can grow: when a pair raises in the
`gather` of `main_init_loop`, the other pairs' coroutines live on until
`asyncio.run` cancels them, and one that is then in `__aenter__` (rpc.py:20) leaves
a thread that takes a permit and gives it to nobody. The semaphore is never
rebuilt, so each such loss lasts as long as the process. Once all permits are lost
every bot hangs in its next call, and a bot thread that is ending hangs in
`asyncio.run`, which joins its executor. That state is a deadlock of the model, so
the run has `CHECK_DEADLOCK FALSE`, and the two liveness properties name it.

Fairness. Weak for the steps of a call: every attempt has a 30 s time-out and
every backoff an end. Strong for the grant of a permit, to a live or to a
cancelled waiter: `threading.Semaphore` wakes its oldest waiter. None for a price
fetch: the calls to the exchange are repeated for as long as they fail, whatever is
signalled (`ccxt_call_fetch_tickers`, ccxt_manager.py:234-264, and
`_ccxt_blocking_call_with_retry` beside it), so `StopsAlone` names the fetch that never
ends; without that excuse TLC refutes it. Strong for the end of `main` and of the
clean-up: after a stop the cycle under way makes finitely many calls and fetches, and
ends if each of them does. Weak for the shutdown's wait, which has a time-out. Nothing of stops,
failures, restarts or new calls.

Abstractions: what a call returns (that is `MakerPair`'s); which executor thread
serves which waiter (`CancelWait` lets the executor not have begun one); one
level of `gather` at a time; CANCEL ALL, which uses a short-lived loop of its own,
and the test call of the constructor, which runs before the bot starts.

## 8. PriceProxy: the ticker cache

`PriceFetcher` keeps one map of tickers for all bots. A request that misses one of
its symbols refreshes the whole map under `_refresh_lock`, after a second look; the
periodic task refreshes it every 15 s without the lock. A refresh empties the map,
then asks the exchange for one market type after the other and stores each answer
as it comes.

| Variable | Code |
|---|---|
| `tickers`, `tracked`, `lock` | `tickers`, `symbols_list`, `_refresh_lock` |
| `pc` | per request and for the periodic task: idle, waiting for the lock, waiting for the exchange (`fetching` before it reads its prices, `quoted` after), in the backoff of `async_retry` |
| `attempt`, `todo`, `batch`, `got` | its attempt, the symbols it has yet to store, those it has asked for, the answer |
| `price` | `Token.cex.cex_price` of each bot |
| `now` | the market: a price is the version it was read from |
| `crossed`, `tainted` | history: a refresh during which another one ran, and the cached symbols such a refresh stored |

| Property | Kind | Meaning |
|---|---|---|
| `PricesMoveForward` | action | a bot's price goes back to an older one only through a symbol that overlapping refreshes stored |
| `AnswersComplete` | action | an answer that changes a price has one for every symbol asked for, unless the request's own refresh overlapped with another one |
| `RequestsEnd` | liveness | every request is answered, with prices or an error |

Both exceptions are real: without either, TLC finds a counterexample. A request and
the periodic task fetch at once; the one whose answer is older stores it last, and
the next request reads a price older than the one before. Or the periodic task
empties the cache between the two answers of a request, which then answers `Ticker
data not found after refresh` for the first symbol though no fetch has failed; the
bot keeps the price it had (`_update_token_price` raises on the error object). The
comment at proxy_ccxt.py:205, "Use a lock to prevent concurrent refreshes
(dogpiling)", is true of requests only.

Fairness. Weak for the steps of a refresh: a fetch has a 10 s time-out, a backoff
an end, and attempts are counted. Strong for the entry of a waiting request:
`asyncio.Lock` serves its waiters in order. None for requests, for the periodic
task or for the market.

Abstractions: the exchange answers every symbol it is asked for; symbols are valid;
the `BLOCK` ticker, which has a cache entry of its own, is left out, as are the
60 s after which a bot gives up a request (the service finishes it, as it would
another bot's), the direct fetch while the port is closed, and the stop of the
service (`CcxtProxy`).

## 9. ArbitrageSaga: the two legs of an arbitrage trade

`execute_arbitrage` takes an XBridge order, waits until it is finished, and swaps
what it got on THORChain. `TradeState` writes the status of the trade into a file of
its own before and after each leg. `resume_interrupted_trades` goes on from these
files after a restart.

| Variable | Code |
|---|---|
| `mode`, `at`, `todo` | what the process runs; the await at which each trade's coroutine is; the resumption's list |
| `file`, `txid`, `archived` | status and `thorchain_txid` in the trade's state file (`torn`: not JSON); the reason in the name of the archived file |
| `paused` | `TRADING_PAUSED.json` exists |
| `order`, `sends`, `swap` | the wallet and THORChain: the order of the first leg, the transactions sent for the second, what became of the last of them |
| `evidence` | a receipt that passes for the refund has come since the wait began |
| `swapFn` | `guarded`: `execute_thorchain_swap` as published, which calls `sys.exit` outside test mode; `sending`: the function its caller is written for (see below) |
| `unsaved`, `unbooked` | history: a save of this trade failed; a send whose answer reached no state file |

| Property | Kind | Meaning |
|---|---|---|
| `RecordTruth` | invariant | what a state file says has happened has happened, and no second leg is sent before the first is finished |
| `NoBlindSpot` | invariant | an order that was taken has a state file, an archived one or a completed swap, unless a save failed |
| `SecondLegOnce` | invariant | over all crashes and resumptions the second leg is sent once, unless the answer of a send reached no file |
| `PauseHolds` | invariant | trading stays paused while a record awaits its refund, until some waiting trade has seen a receipt |
| `ExecutionEnds` | liveness | an execution ends whatever the wallet and THORChain do |
| `KeepsPromise` | refinement | the saga implements `TwoLegTrade` |

`TwoLegTrade` is the promise without the machinery: take, finish, send, end, in this
order for each trade, and the second leg once, unless the strategy has lost track of
it. The refinement maps `first` to `order`, `second` to `swap` and `lost` to
`unbooked`; files, coroutines, crashes, resumptions and the pause are invisible.

`sending` is not code that can run today. As published `execute_thorchain_swap` exits
outside test mode (thorchain_def.py:164-170), and behind that guard a line forces test
mode on (173) and another returns a made-up transaction id (191-200), so the
`sendtoaddress` at 202-221 is not reached in any mode. What the model takes as
`sending` is what the strategies around the call rely on, and what the tests put in
its place: a function that has the coin's wallet send and answers a transaction id,
`None`, or an error object, since `if thor_txid` (arbitrage_strategy.py:783) tells only
the falsy from the rest and `rpc_call` returns what the node's answer holds. All that
follows the call is code of the repository, as it stands.

The excuses are the code's. *Unbooked*: `rpc_call` repeats `sendtoaddress` when the
answer does not come, and gives up on it (what the wallet sends after that is left out;
it would be one more send of this kind); a kill between the send and the save leaves
`XBRIDGE_CONFIRMED`, from which the resumption swaps again; a failed save does too.
*Unsaved*: `save` truncates the file before it writes and swallows its errors, so a
failed one leaves the file as it was or torn, as a kill inside it does; a torn file is
one that `get_unfinished_trades` skips. Three more facts shape the model. An error object
from the node is truthy and becomes the transaction id (`txid` `error`), whose
status is then pending until the monitor gives up. The monitors' timeouts archive
a trade, or declare a refund, that may yet complete. And one pause file serves all
trades: the receipt that lifts the pause of one lifts that of the others, which is
why `PauseHolds` says "some". It speaks of the pause, not of the trades: a pair looks
for the pause file once, when its cycle begins (`Cycle`), so one that is past that
still takes an order, though the comment where the file is written
(arbitrage_strategy.py:626) says that new trades are halted immediately.

Fairness: weak for the step of each coroutine, since its poll loops count their
time and its requests have timeouts. Nothing of the wallet, of THORChain or of
restarts.

Abstractions: amounts, balances, profits, reports and log texts; each check of a
pair draws a new trade, and a trade is checked once; the two checks of a cycle (one
per direction) are one; `resume_interrupted_trades`, which the start-up is meant to
run (main_arbitrage.py:56) and which only tests call, has the process to itself, as
it has there; the archive `execution-error` is left out, because no exception
reaches it that is not handled before.

## 10. ThorContinuous: swaps there and back

The strategy swaps TOKEN1 for TOKEN2 and back. Its ledger holds the rate of the last
verified swap (the anchor), its direction, and the amounts of the last swap. The
first swap, the anchor trade, is unconditional.

| Variable | Code |
|---|---|
| `mode` | dry; live as published (`guarded`); live with the swap function that `_execute_live_swap` is written for (`sending`, see section 9) |
| `at`, `quote` | the await at which the turn is; the rate that is evaluated |
| `mem`, `file` | `ContinuousTradeState.state_data` and its file; `booked` is the direction of the swap that last wrote `last_sent` and `last_received` |
| `attempted`, `failures` | `_anchor_execution_attempted`; `consecutive_failures` up to one below the threshold, above which it makes no difference |
| `paused` | the pause file, which the arbitrage strategy shares |
| `market`, `swap` | the rate THORChain offers (0: none); the last swap sent |
| `last`, `unsaved`, `loose` | history: the swap before; the last save failed; a swap went out, or a ledger was lost, unbooked |

| Property | Kind | Meaning |
|---|---|---|
| `LedgerTruth` | invariant | between swaps the ledger, in memory and on disk, describes the last swap that went out |
| `Alternates` | invariant | a swap goes against the one before and pays with what that brought; the anchor trade comes first and only then |
| `SpreadHeld` | invariant | a swap executed at the rate it was evaluated at beats the one before by the target spread |
| `OfferTaken` | liveness | a lasting offer is taken, time and again |

`loose` collects the ways in which the code loses a swap; without that excuse TLC
refutes the first three. A swap whose answer was lost is sent again or given up. One
that is not confirmed within `thor_monitor_timeout` counts as failed, and the same
direction is swapped again. The outbound fee is looked at after the send. The
amount received is looked for at the vault's inbound address
(`get_actual_swap_received`). A swap after which the balances have not both grown
leaves anchor and direction as they were ("pausing", says the log, and the bot
trades on), while `last_received` is already the new one: the next amount is in the
other token. A loaded anchor of exactly 1.0 is reset, and the bot starts over with an
unconditional swap.

`OfferTaken` names what stops the bot for good. In dry mode balances are never
fetched, so `_project_dual_accumulation` sees no growth and nothing follows the
anchor trade. A buy-back is tested against `1/q` although the rate has been
converted already (`_calculate_asymmetry`), so it needs a product of rate and anchor
above 1. A failed anchor trade is not tried again in the life of the process. The
circuit breaker is not among them: the reason it saves is read by nobody, and its
`archive`, which would clear the state file, fails on the direction, an `Enum` that
`yaml.safe_dump` has no form for. After a failed anchor trade there is no direction
yet, and the archive does remove the file; but `_execute_anchor_trade` saves the ledger
and the reason again (thorchain_continuous_strategy.py:1346), and the outcomes of that
save, failed ones included, are those of `AnchorSwapFails`.

As published the strategy runs dry (main_thorchain_continuous.py:37-50), and a live
swap ends in the guard of `execute_thorchain_swap`; `sending` is what `_execute_live_swap`
expects of it (`if not txid`, thorchain_continuous_strategy.py:1231). A transaction that
the wallet sends after `rpc_call` has given up is left out; it would be `loose`.
Fairness: weak for the turn, whose awaits have timeouts. Nothing of THORChain, the
market or the user.

Abstractions: amounts, metrics, reports; balances are folded into `market` (0 also
when they allow no trade) and into the choice between `BothGrown` and
`NotBothGrown`; `log_trade`, whose `json.dumps` fails on the `Enum` and which
swallows that; one directory is used in one mode only, though a dry run and a live
one write the same state file.

## 11. Proofs

`MakerPairProofs` proves, for every set of quotes and order ids and every precision,
offset, spread, tolerance and floor that satisfy `ConstantsAssumption`:

| Theorem | States |
|---|---|
| `TypeCorrect` | `Spec => []TypeOK` |
| `OrdersStayTracked` | `Spec => []OpenOrdersTracked` |
| `SightIsLostInRace` | `Spec => SightLostInRace` |
| `PairKeepsBooks` | `Strategy = "pingpong" => (Spec => KeepsBooks)` |
| `BookingIsFaithful` | `Spec => BookedIsTraded` |
| `SidesAlternate` | `Strategy = "pingpong" => (Spec => HistoryAlternates)` |
| `SpreadGuaranteed` | `Spec => GuaranteedSpread` |
| `DisabledStaysDisabled` | `Spec => DisabledIsFinal` |
| `FloorRespected` | `Strategy = "basic_seller" => (Spec => RespectsFloor)` |

All rest on `Invariance`, `Spec => []Inv`, where `Inv` is `TypeOK` and

* `PhaseShape`: what each value of `pc` says of the tracked order and of the last
  order of a pending placement (a cycle that waits for `dxMakeOrder` tracks none);
* `CurrentFollows`: the side of the virtual order follows from the history, which
  is what alternation needs;
* `TrackedTerms`: the virtual order carries the terms of the tracked order on the
  exchange. `BookedIsTraded` is not inductive without it: `at_order_finished`
  records the virtual order, so no step may rebuild it while an order is tracked;
* `Tracked` and `OneOpen`, the two halves of `OpenOrdersTracked`, each with what
  makes it inductive. `Tracked` has to hold in a pending placement even after a stop,
  because a repeated `dxMakeOrder` is what could open a second order there. `OneOpen`
  holds in every phase: no action but `ExecuteMake` opens an order
  (`OnlyMakeOpens`), and none but a complete sweep, which leaves nothing open, takes
  back that a call was lost (`OnlySweepClears`);
* `KnownTerms`: what is on the exchange has the terms of an order.

The proof that a step preserves `Inv` is a lemma for each conjunct (`TypeStep`,
`PhaseStep`, `FollowsStep`, `TermsStep`, `KnownStep`, `OrphanStep`, `OneOpenStep`) with
one step for each action that can disturb it. TLC checked `Inv` on the instance of
`pingpong` as an invariant too. The action properties follow from `Inv` by a
case split on the actions that touch the history, the disabled flag or the book.

`FloorRespected` needs two facts more (`SellerInv`): the price of a seller's virtual
order is at least its base, and one that is being placed was made from the prices of
this cycle. The rest is arithmetic over the two divisions of the code, for all prices of
both tokens: `SellBaseBringsFloor` (the base, cut to the precision, brings the floor up
to one unit), `FloorArithmetic` and `CloseToBase` (so does what is within the tolerance
of it). An order is either new (`PlacedBringsFloor`) or was found in range of the base
(`KeptBringsFloor`).

`SightIsLostInRace` is the counterpart of the run `single_order`, which refutes
`SingleActiveOrder`: the race of a cancel and a taker is not one way among others but
the only one within a run whose RPCs arrive; a restart during a swap, which no step of
a trading bot is, remains beside it. `PairKeepsBooks` maps each step to a step of `TradeLedger` or to
a stutter: the steps that touch the history are `Enter` (`FollowsAnswers` turns
`CurrentFollows` into its `Answers`), `Start` and the ends of the process; those that
finish or drop an order are `Execute` and `Forget` (`ExecutedStep`).

`CcxtProxyProofs` proves, for every finite set of strategies and any number of
service and clean-up threads:

| Theorem | States |
|---|---|
| `ProxyTypeCorrect` | `Spec => []TypeOK` |
| `ProxyKeepsShared` | `Spec => KeepsShared` |
| `NeverStoppedUnderUse` | `Spec => []NotStoppedUnderUse` |
| `NoServiceLeaks` | `Spec => []NoLeakedService` |
| `UnusedServiceIsCleaned` | `Spec => []UnusedIsCleaned` |

They rest on `ProxyInvariance`. The strengthening says that the reference counter
equals the number of registered strategies (`CountsRegistered`: the code keeps the
two side by side and decides by the counter), what the holder of the lock may
assume (`LockShape`), and that the managed service is asked to stop only by the
clean-up that holds the lock (`StoppedByCleaner`). `NotStoppedUnderUse` follows:
such a clean-up has seen the counter at zero under the lock that a registration
needs. `ProxyKeepsShared` takes each action to the step of `SharedService` it stands
for. That no second service is up when one is started comes from `NoLeakedService`:
`_start_proxy` looks only at the thread it manages, and every other live one has
been told to stop.

`BotThreadsProofs` proves, for any number of instances, saves and close requests:

| Theorem | States |
|---|---|
| `FrameTypeCorrect` | `Spec => []TypeOK` |
| `RunningBotsAreStoppable` | `Spec => []RunningIsStoppable` |
| `BotsOutliveByTimeout` | `Spec => []OutlivesByTimeout` |
| `OneBotUntilLost` | `Spec => [](NobodyLost => OneLiveBot)` |
| `OwnStopIsAwaited` | for each close request `c`: `Spec => [](coord[c] = "joining" => [](coord[c] = "quitting" => ~StopperAtWork))` |

The invariant has two parts. `Hold` ties the frame's flags to the current instance:
while the frame is started or stopping, the instance it holds is the running one
(`HeldIsRunning`), and instances that are replaced or not yet made are idle.
`Release` says on what grounds the frame lets go: a bot whose join is over has ended
or is on record as lost to the time-out, and one that was never signalled is on
record as unheard. `OneBotUntilLost` is the counterpart of the run `one_live_bot`,
which refutes `OneLiveBot`: a join that times out and a save that replaces the
running instance are the only ways to a second bot. `OwnStopIsAwaited` is the
counterpart of `exit_after_stops`: a coordinator that was given the stopper to join
waits until it is done, and no later stop of this frame can begin
(`OverStaysOver`). So what the run shows is the only way: a request that found the
stop under way and was given nothing to join.

`RpcPoolProofs` proves, for any set of bots, any finite set of coroutines and any
number of permits, attempts and retries:

| Theorem | States |
|---|---|
| `PoolTypeCorrect` | `Spec => []TypeOK` |
| `CounterIsRight` | `Spec => []CounterIsPending` |
| `NoOtherPermitLost` | `Spec => []PermitsAccounted` |
| `ConcurrencyIsBounded` | `Spec => [](counter <= Permits)` |
| `WaitsForPending` | `Spec => WaitIsHonest` |
| `LeaksAreForGood` | for each `n`: `Spec => [](lost >= n => [](counter <= Permits - n))` |
| `StarvedForGood` | `Spec => [](lost = Permits => [](Holders = {}))` |

The invariant is the two accounts and the types without their upper bounds
(`Shape`): that no more than `Permits` are free or lost follows from
`PermitsAccounted`. Its steps rest on one lemma on cardinality (`OneMoves`: a set
that one element joins or leaves), applied to the calls under way and to the
holders of permits. `WaitsForPending` needs `CounterIsPending`: the shutdown looks
at a number, the property speaks of the bot's own calls. The last two say what the
exceptions of the liveness properties cost: `lost` never falls (`LostStays`), so the
permits that cancelled waiters took are missing to every later bot of the process
(`CapacityLeft`), and when all are gone, no bot ever has a call at the wallet again.
TLC reaches that state on the instance of `rpc_pool`.

`PriceProxyProofs` proves, for any symbols, bots, market types, retries and moves of
the market:

| Theorem | States |
|---|---|
| `PriceTypeCorrect` | `Spec => []TypeOK` |
| `AnswersAreComplete` | `Spec => AnswersComplete` |
| `PricesGoForward` | `Spec => PricesMoveForward` |
| `LockedRefreshesAreSafe` | `Spec /\ [](pc[Periodic] = "idle") => NeverBack /\ AlwaysComplete` |

The invariant says that of two refreshes under way both are crossed (`Overlap`);
that one that is not crossed has stored or has yet to store all that its request
wants (`Filled`, with `Asked` and `Working`), and brings prices that are at least as
new as all that was ever seen (`Newest`, with `Past`); and that a cached price no
crossed refresh stored is at least every price taken from it (`Ahead`).
`LockedRefreshesAreSafe` names the cause of the exceptions: `NeverBack` and
`AlwaysComplete` are the two properties without them, and they hold in every
behaviour in which the periodic task, the one refresh without the lock, does not run
(`LoneRefresh`: then no two refreshes meet and nothing is ever crossed).

`ArbitrageSagaProofs` proves, for any number of trades, failing disks and sends:

| Theorem | States |
|---|---|
| `SagaTypeCorrect` | `Spec => []TypeOK` |
| `RecordsAreTrue` | `Spec => []RecordTruth` |
| `OrdersLeaveATrace` | `Spec => []NoBlindSpot` |
| `NoSecondSend` | `Spec => []SecondLegOnce` |
| `PauseIsKept` | `Spec => []PauseHolds` |
| `SagaKeepsPromise` | `Spec => KeepsPromise` |
| `PublishedCodeIsOneLegged` | `Spec => [](swapFn = "guarded" => ~paused /\ \A t \in Trades : sends[t] = 0)` |

They rest on `SagaInvariance`: where order, send and file may stand for each place of
a coroutine. The refinement takes from it that a send which is not excused is the
first one (`Unsent`) and that only a finished first leg can be lost track of
(`LosesTrack`); each step of the saga is then a step of `TwoLegTrade` or leaves its
variables alone (`NextLegs`). `PublishedCodeIsOneLegged` is what the guard of
`execute_thorchain_swap` (thorchain_def.py:163-170) makes of it: as published, a
trade that was begun is never finished by any number of resumptions, since no
status from which the second leg is monitored is ever written.

`ThorContinuousProofs` proves, for any rates, target spread and failure threshold:

| Theorem | States |
|---|---|
| `ThorTypeCorrect` | `Spec => []TypeOK` |
| `LedgerIsTrue` | `Spec => []LedgerTruth` |
| `SwapsAlternate` | `Spec => []Alternates` |
| `SpreadIsHeld` | `Spec => []SpreadHeld` |
| `SentMeetsConditions` | `Spec => []Picky` |
| `StuckBelowParity` | `ASSUME BelowParity`: `Spec => [](InFlight => IsAnchor /\ swap.dir = "T1toT2")` |

`LedgerTruth` speaks of the time between swaps; `FlightTruth` carries it over a
swap, when the ledger describes the one before. `Chosen` keeps what a quote was
accepted for until the turn ends.

`SentMeetsConditions` says that an accepted quote still meets every condition when it
is sent: nothing between the evaluation and the swap moves the anchor or the
direction under it. With it `StuckBelowParity` draws the consequence of the double
inversion in `_calculate_asymmetry`: a buy-back needs a product of rate and anchor
above 1, so on a pair whose rate, in TOKEN2 per TOKEN1, is never above 1.0
(`BelowParity`, an assumption of this theorem alone), no swap but the anchor trade
is ever sent, however good the offer.

With TLC only: `StopTerminates`, `ProxyEnds`, `StopFinishes`, `CloseExits`,
`CallsGetThrough`, `StopsAlone`, `RequestsEnd`, `ExecutionEnds` and `OfferTaken` are
liveness under fairness, which the installed back ends do not prove.

## 12. What is not modelled

Not modelled, and why:

* amounts, addresses, partial orders, formatting: data that no property tells
  apart;
* how a CEX price fetch fails: `MakerPair` and `RpcPool` have the fetch as a wait that
  may never end, `BotThreads` leaves the bot free to hang; the retries, the proxy's
  port and the errors inside it are not told apart;
* `sendtoaddress` requests that the coin's wallet carries out after the client gave
  up on them;
* several pairs in one `gather`, and two makers on one wallet, whose startup sweep
  cancels each other's orders (`MakerPair` sees such a sweep as an order closed by
  the exchange);
* the UTXO cache of `XBridgeManager` and the order books of `CCXTManager`: what they
  hold decides amounts and display prices only;
* the range maker: a grid computed with floating-point weights; live, it places no
  order of its own, and its query for fills answers nothing outside back-tests;
* `AsyncUpdater` and the panels: display, on which no state of a bot depends. Two
  races are there to see: the fetcher peeks at the queue for its stop sentinel while
  the GUI drains it (async_updater.py:105), and a start after a join that timed out
  runs a second fetcher (async_updater.py:70);
* configuration, logging, RPC detection, command line, dialogs, back-testing and log
  parsing: set-up and offline tools without interleavings of their own.

What could follow: two `MakerPair`-like bots on one wallet, composed by `INSTANCE`,
with startup sweeps and CANCEL ALL; the UTXO cache under bots that miss it together;
the arbitrage and the continuous strategy on one pause file.
