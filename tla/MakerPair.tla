------------------------------ MODULE MakerPair ------------------------------
(***************************************************************************)
(* One trading pair of a maker bot (definitions/pair.py, DexPair) driven   *)
(* by PingPongStrategy or BasicSellerStrategy, with the XBridge wallet it  *)
(* trades through and the life of the process that runs it.                *)
(*                                                                         *)
(* A step is the code between two awaits: pc names the RPC the pair's      *)
(* coroutine is waiting for, or the phase of the process.  While it waits  *)
(* the exchange moves, a stop may be requested and the process may die.    *)
(* An order dictionary is abstracted to its side, the price it was based   *)
(* on (org_pprice) and its price (dex_price), in taker tokens for a maker  *)
(* token; amounts are left out.                                            *)
(***************************************************************************)
EXTENDS Integers, FiniteSets

CONSTANTS
    Strategy,    \* "pingpong" or "basic_seller"
    Quotes,      \* the live CEX prices of the two tokens that may be observed
    Precision,   \* a taker token, in the unit of an order's price
    SellOffset,  \* sell_price_offset, in percent
    Spread,      \* spread of the buy side, in percent
    Tolerance,   \* price_variation_tolerance, in percent
    Floor,       \* min_sell_price_usd, 0 for none
    OrderIds,    \* ids the exchange gives to orders (bounds those remembered)
    NoId,        \* no order: Python's None
    NoVirtual,   \* no virtual order and no order history
    NoPrice      \* the CEX price of a token is unknown

ASSUME ConstantsAssumption ==
    /\ Strategy \in {"pingpong", "basic_seller"}
    /\ Quotes \subseteq [maker: Nat, taker: Nat \ {0}]
    /\ Precision \in Nat \ {0}
    /\ SellOffset \in Nat
    /\ Spread \in 0..100
    /\ Tolerance \in Nat
    /\ Floor \in Nat
    /\ NoId \notin OrderIds
    /\ NoPrice \notin Quotes
    /\ NoVirtual \notin [side: {"SELL", "BUY"}, org: Nat, price: Nat]

VARIABLES
    pc,        \* the awaited RPC or the phase of the process
    order,     \* DexPair.order: the id of the tracked order
    current,   \* DexPair.current_order: the virtual order
    history,   \* DexPair.order_history: the last completed order
    disabled,  \* DexPair.disabled
    price,     \* cex.usd_price of the two tokens, as of this cycle
    shutdown,  \* MainController.shutdown_event
    file,      \* the <strategy>_<pair>_last_order.yaml file
    book,      \* the exchange: every order of this bot it still knows
    last,      \* the last order the pending dxMakeOrder call has created
    lossy      \* an RPC outcome was lost since the last complete sweep

vars == <<pc, order, current, history, disabled, price, shutdown, file, book,
          last, lossy>>

-----------------------------------------------------------------------------
(* Orders and prices. *)

Virtual == [side: {"SELL", "BUY"}, org: Nat, price: Nat]

Phases == {"stopped", "crashed", "startup", "init", "idle", "tickers",
           "getorderstatus", "makeorder", "cancelorder", "request_addr", "closing"}
Down == {"stopped", "crashed"}

\* A price fetch is under way: the first one of the process, or that of a cycle.
Fetching == {"init", "tickers"}
Trading == Phases \ (Down \cup {"startup", "closing"})

\* "open" stands for open and new; "swapping" for created, initialized and
\* committed; "closed" for canceled and expired; "failed" for offline,
\* invalid, rolled back and rollback failed.
OrderStatus == {"unused", "open", "swapping", "finished", "closed", "failed"}
Slot == [st: OrderStatus, terms: Virtual \cup {NoVirtual}]
Unused == [st |-> "unused", terms |-> NoVirtual]

Open == {i \in OrderIds : book[i].st = "open"}
Active == {i \in OrderIds : book[i].st \in {"open", "swapping"}}
SetStatus(i, st) == book' = [book EXCEPT ![i].st = st]

Markup(p) == (p * (100 + SellOffset)) \div 100
Discount(p) == (p * (100 - Spread)) \div 100

\* CexPair.price, cut to the unit of an order's price as truncate does.
Market(q) == (Precision * q.maker) \div q.taker

\* calculate_sell_price: PingPong sells at market. So does BasicSeller, unless its
\* token is worth less than the floor in USD: then it asks for the floor, in
\* taker tokens at what one is worth now.
SellBase(q) ==
    IF Strategy = "basic_seller" /\ q.maker < Floor
    THEN (Precision * Floor) \div q.taker
    ELSE Market(q)

BuyBaseLive(h, q) == Market(q)
BuyBase(h, q) == IF h.price < Market(q) THEN h.price ELSE Market(q)

SellOrder(q) ==
    [side |-> "SELL", org |-> SellBase(q), price |-> Markup(SellBase(q))]
BuyOrder(h, q) ==
    [side |-> "BUY", org |-> BuyBase(h, q), price |-> Discount(BuyBase(h, q))]

\* init_virtual_order_logic: PingPong answers a completed sell with a buy and
\* everything else with a sell; BasicSeller only sells.
VirtualOrderSellOnly(h, q) == SellOrder(q)
VirtualOrder(h, q) ==
    IF Strategy = "pingpong" /\ h # NoVirtual /\ h.side = "SELL"
    THEN BuyOrder(h, q)
    ELSE SellOrder(q)

\* A buy is locked in place while the market is above the last sell.
PriceLocked(c, h, q) ==
    Strategy = "pingpong" /\ c.side = "BUY" /\ h # NoVirtual /\ Market(q) > h.price

WithinTolerance(p, org) ==
    /\ (100 - Tolerance) * org < 100 * p
    /\ 100 * p < (100 + Tolerance) * org

\* check_price_in_range: BasicSeller measures the drift from its floor, too.
PriceInRangeOfMarket(c, h, q) ==
    PriceLocked(c, h, q) \/ WithinTolerance(Market(q), c.org)
PriceInRange(c, h, q) ==
    PriceLocked(c, h, q) \/ WithinTolerance(SellBase(q), c.org)

-----------------------------------------------------------------------------
(* The pair's coroutine. *)

EnabledAlways == TRUE
PairEnabled == ~disabled

MainLoopIgnoresStop == pc = "idle"
MainLoopRuns == pc = "idle" /\ ~shutdown

\* create_order on entry with the virtual order c and the tracked order o: the
\* early returns leave the tracked order alone; past them it is forgotten, and
\* dxMakeOrder is called if the free balance covers the order.
CreateOrder(c, o) ==
    /\ current' = c
    /\ IF PairEnabled /\ ~shutdown
       THEN order' = NoId /\ pc' \in {"idle", "makeorder"}
       ELSE order' = o /\ pc' = "idle"

\* init_virtual_order followed by create_order. Without a price the virtual
\* order cannot be computed: safe_thread_loop swallows the exception.
RenewOrder(h, o) ==
    IF price = NoPrice
    THEN order' = o /\ pc' = "idle" /\ UNCHANGED current
    ELSE CreateOrder(VirtualOrder(h, price), o)

\* A cycle of main_loop begins: the balances are refreshed, and the tickers are
\* asked for, once more for as long as the exchange or the proxy fails.
FetchTickers ==
    /\ MainLoopRuns
    /\ pc' = "tickers"
    /\ UNCHANGED <<order, current, history, disabled, price, shutdown, file, book,
                   last, lossy>>

\* The tickers are there and the cycle reaches the pair: status_check either asks
\* for the tracked order or replaces a missing one.
StatusCheck ==
    /\ pc = "tickers" /\ ~shutdown
    /\ \E q \in Quotes \cup {NoPrice} :
        /\ price' = q
        /\ CASE ~PairEnabled -> pc' = "idle" /\ UNCHANGED <<order, current>>
             [] PairEnabled /\ order # NoId ->
                    pc' = "getorderstatus" /\ UNCHANGED <<order, current>>
             [] PairEnabled /\ order = NoId /\ q = NoPrice ->
                    pc' = "idle" /\ UNCHANGED <<order, current>>
             [] PairEnabled /\ order = NoId /\ q # NoPrice ->
                    CreateOrder(VirtualOrder(history, q), NoId)
    /\ UNCHANGED <<history, disabled, shutdown, file, book, last, lossy>>

\* They are there too late: main_loop and process_pairs return at once.
FetchInterrupted ==
    /\ pc \in Fetching /\ shutdown
    /\ pc' = "idle"
    /\ UNCHANGED <<order, current, history, disabled, price, shutdown, file, book,
                   last, lossy>>

\* handle_status_open and the STATUS_OTHERS branch: only an open order whose
\* price has drifted is cancelled.
StatusLive ==
    /\ pc = "getorderstatus" /\ order \in Active
    /\ pc' = IF /\ book[order].st = "open" /\ price # NoPrice
                /\ ~PriceInRange(current, history, price)
             THEN "cancelorder" ELSE "idle"
    /\ UNCHANGED <<order, current, history, disabled, price, shutdown, file,
                   book, last, lossy>>

\* at_order_finished up to the await of the new taker address, which is skipped
\* during a shutdown. The write may fail before or after the file is truncated;
\* the error handler swallows that.
StatusFinished ==
    /\ pc = "getorderstatus" /\ order # NoId /\ book[order].st = "finished"
    /\ history' = current
    /\ file' \in {current, file, NoVirtual}
    /\ pc' = "request_addr"
    /\ UNCHANGED <<order, current, disabled, price, shutdown, book, last, lossy>>

\* handle_finished_order, whatever became of the address request.
AddressReply ==
    /\ pc = "request_addr"
    /\ IF Strategy = "pingpong"
       THEN RenewOrder(history, order) /\ UNCHANGED disabled
       ELSE disabled' = TRUE /\ pc' = "idle" /\ UNCHANGED <<order, current>>
    /\ UNCHANGED <<history, price, shutdown, file, book, last, lossy>>

\* handle_status_default after canceled or expired.
StatusClosed ==
    /\ pc = "getorderstatus" /\ order # NoId /\ book[order].st = "closed"
    /\ RenewOrder(history, NoId)
    /\ UNCHANGED <<history, disabled, price, shutdown, file, book, last, lossy>>

\* handle_error_swap_status.
StatusFailed ==
    /\ pc = "getorderstatus" /\ order # NoId /\ book[order].st = "failed"
    /\ disabled' = TRUE /\ pc' = "idle"
    /\ UNCHANGED <<order, current, history, price, shutdown, file, book, last,
                   lossy>>

\* No usable status: rpc_wrapper refused or aborted the call because of the
\* shutdown, or the call failed. The order is forgotten and replaced.
StatusLost ==
    /\ pc = "getorderstatus"
    /\ \/ shutdown /\ UNCHANGED lossy
       \/ lossy' = TRUE
    /\ RenewOrder(history, NoId)
    /\ UNCHANGED <<history, disabled, price, shutdown, file, book, last>>

\* dxMakeOrder executes on the exchange. rpc_call repeats a call whose answer
\* did not arrive, so one call may create several orders.
ExecuteMake ==
    /\ pc = "makeorder"
    /\ \E i \in OrderIds :
        /\ book[i].st = "unused"
        /\ book' = [book EXCEPT ![i] = [st |-> "open", terms |-> current]]
        /\ last' = i
    /\ lossy' = (lossy \/ last # NoId)
    /\ UNCHANGED <<pc, order, current, history, disabled, price, shutdown, file>>

\* The answer carries the order the last execution created.
MakeAnswered ==
    /\ pc = "makeorder" /\ last # NoId
    /\ order' = last /\ last' = NoId /\ pc' = "idle"
    /\ UNCHANGED <<current, history, disabled, price, shutdown, file, book, lossy>>

\* An error object comes back: a code outside the tolerated set disables the
\* pair; either way the strategy resets the order.
MakeRejectedKeepsError ==
    /\ pc = "makeorder"
    /\ disabled' \in {disabled, TRUE}
    /\ order' = "error" /\ last' = NoId /\ pc' = "idle"
    /\ lossy' = (lossy \/ last # NoId)
    /\ UNCHANGED <<current, history, price, shutdown, file, book>>

MakeRejected ==
    /\ pc = "makeorder"
    /\ disabled' \in {disabled, TRUE}
    /\ order' = NoId /\ last' = NoId /\ pc' = "idle"
    /\ lossy' = (lossy \/ last # NoId)
    /\ UNCHANGED <<current, history, price, shutdown, file, book>>

\* rpc_wrapper returns None or raises: the tracked order stays None.
MakeUnanswered ==
    /\ pc = "makeorder"
    /\ last' = NoId /\ pc' = "idle" /\ lossy' = TRUE
    /\ UNCHANGED <<order, current, history, disabled, price, shutdown, file, book>>

\* What dxCancelOrder may do to the tracked order before control returns: an
\* open order is cancelled, or the call is lost on the way; an order that is
\* no longer open refuses. The result is not looked at.
CancelExecutes ==
    IF book[order].st = "open"
    THEN \/ SetStatus(order, "closed") /\ UNCHANGED lossy
         \/ UNCHANGED book /\ lossy' = TRUE
    ELSE UNCHANGED <<book, lossy>>

\* check_price_variation once the cancel call has returned: the order is
\* forgotten and the virtual order is rebuilt and placed.
CancelReturned ==
    /\ pc = "cancelorder"
    /\ CancelExecutes
    /\ RenewOrder(history, NoId)
    /\ UNCHANGED <<history, disabled, price, shutdown, file, last>>

\* The cancel call raises, executed or not: the tracked order is kept.
CancelRaisedForgets ==
    /\ pc = "cancelorder"
    /\ \/ UNCHANGED book
       \/ book[order].st = "open" /\ SetStatus(order, "closed")
    /\ pc' = "idle" /\ order' = NoId
    /\ UNCHANGED <<current, history, disabled, price, shutdown, file, last, lossy>>

CancelRaisedAfterRenewal ==
    /\ pc = "cancelorder"
    /\ \/ UNCHANGED book
       \/ book[order].st = "open" /\ SetStatus(order, "closed")
    /\ pc' = "idle" /\ current' = VirtualOrder(history, price)
    /\ UNCHANGED <<order, history, disabled, price, shutdown, file, last, lossy>>

CancelRaised ==
    /\ pc = "cancelorder"
    /\ \/ UNCHANGED book
       \/ book[order].st = "open" /\ SetStatus(order, "closed")
    /\ pc' = "idle"
    /\ UNCHANGED <<order, current, history, disabled, price, shutdown, file, last,
                   lossy>>

-----------------------------------------------------------------------------
(* The process. *)

\* A process that is gone has lost everything but the history file.
Forgotten ==
    /\ order' = NoId /\ current' = NoVirtual /\ history' = NoVirtual
    /\ disabled' = FALSE /\ price' = NoPrice /\ shutdown' = FALSE
    /\ last' = NoId

\* A new process, or new Pair objects: the history is read from the file.
Start ==
    /\ pc \in Down
    /\ pc' = "startup" /\ history' = file
    /\ UNCHANGED <<order, current, disabled, price, shutdown, file, book, last,
                   lossy>>

\* The startup task cancelallorders cancels what the wallet lists as open; a
\* list or a cancel call that gets lost is skipped over.
SweepOrders ==
    /\ pc = "startup"
    /\ \E S \in SUBSET Open :
        /\ book' = [i \in OrderIds |->
                       IF i \in S THEN [book[i] EXCEPT !.st = "closed"] ELSE book[i]]
        /\ lossy' = (S # Open)
    /\ pc' = "init"
    /\ UNCHANGED <<order, current, history, disabled, price, shutdown, file, last>>

\* A call of the sweep that fails with an exception ends the bot.
SweepRaised ==
    /\ pc = "startup"
    /\ pc' = "closing" /\ lossy' = TRUE
    /\ UNCHANGED <<order, current, history, disabled, price, shutdown, file, book,
                   last>>

\* main_init_loop has its tickers and reaches thread_init_async_action: an unknown
\* price raises, which ends the bot.
InitPair ==
    /\ pc = "init" /\ ~shutdown
    /\ \E q \in Quotes \cup {NoPrice} :
        /\ price' = q
        /\ IF q = NoPrice
           THEN pc' = "closing" /\ UNCHANGED <<order, current>>
           ELSE CreateOrder(VirtualOrder(history, q), order)
    /\ UNCHANGED <<history, disabled, shutdown, file, book, last, lossy>>

\* The loop is not entered, or left, once the shutdown is signalled.
LeaveMain ==
    /\ pc = "idle" /\ shutdown
    /\ pc' = "closing"
    /\ UNCHANGED <<order, current, history, disabled, price, shutdown, file, book,
                   last, lossy>>

\* unified_shutdown: cancel_own_orders cancels the tracked order and the thread
\* ends, whether or not the call raised.
CloseOrders ==
    /\ pc = "closing"
    /\ IF order = NoId THEN UNCHANGED <<book, lossy>> ELSE CancelExecutes
    /\ pc' = "stopped" /\ Forgotten
    /\ UNCHANGED file

\* The user stops the bot, or a critical error signals the shutdown.
RequestStop ==
    /\ pc \notin Down /\ ~shutdown
    /\ shutdown' = TRUE
    /\ UNCHANGED <<pc, order, current, history, disabled, price, file, book, last,
                   lossy>>

\* The process is killed.
Crash ==
    /\ pc \notin Down
    /\ pc' = "crashed" /\ Forgotten
    /\ UNCHANGED <<file, book, lossy>>

-----------------------------------------------------------------------------
(* The exchange: a counterparty takes an order, the swap completes or fails, *)
(* an order expires, and the wallet forgets orders that are over.            *)

Advance(from, to) ==
    \E i \in OrderIds :
        /\ book[i].st = from
        /\ SetStatus(i, to)

Exchange ==
    /\ \/ Advance("open", "swapping")
       \/ Advance("open", "closed")
       \/ Advance("swapping", "finished")
       \/ Advance("swapping", "failed")
    /\ UNCHANGED <<pc, order, current, history, disabled, price, shutdown, file,
                   last, lossy>>

Forget ==
    /\ \E i \in OrderIds \ {order, last} :
        /\ book[i].st \in {"finished", "closed", "failed"}
        /\ book' = [book EXCEPT ![i] = Unused]
    /\ UNCHANGED <<pc, order, current, history, disabled, price, shutdown, file,
                   last, lossy>>

-----------------------------------------------------------------------------

Init ==
    /\ pc = "stopped" /\ order = NoId /\ current = NoVirtual
    /\ history = NoVirtual /\ disabled = FALSE /\ price = NoPrice
    /\ shutdown = FALSE /\ file = NoVirtual
    /\ book = [i \in OrderIds |-> Unused]
    /\ last = NoId /\ lossy = FALSE

\* Steps of the bot: each RPC ends, by an answer or a timeout. A price fetch need
\* not end: it is tried again for as long as it fails, whatever is signalled.
BotStep ==
    \/ SweepOrders \/ SweepRaised \/ FetchTickers
    \/ StatusLive \/ StatusFinished \/ AddressReply \/ StatusClosed
    \/ StatusFailed \/ StatusLost
    \/ MakeAnswered \/ MakeRejected \/ MakeUnanswered
    \/ CancelReturned \/ CancelRaised
    \/ LeaveMain \/ CloseOrders

FetchEnds == InitPair \/ StatusCheck \/ FetchInterrupted

Next ==
    \/ BotStep \/ FetchEnds
    \/ ExecuteMake
    \/ Start \/ RequestStop \/ Crash
    \/ Exchange \/ Forget

Spec == Init /\ [][Next]_vars /\ WF_vars(BotStep)

-----------------------------------------------------------------------------
(* Properties. *)

\* Every variable holds a value of its kind.
TypeOK ==
    /\ pc \in Phases
    /\ order \in OrderIds \cup {NoId}
    /\ current \in Virtual \cup {NoVirtual}
    /\ history \in Virtual \cup {NoVirtual}
    /\ disabled \in BOOLEAN
    /\ price \in Quotes \cup {NoPrice}
    /\ shutdown \in BOOLEAN
    /\ file \in Virtual \cup {NoVirtual}
    /\ book \in [OrderIds -> Slot]
    /\ last \in OrderIds \cup {NoId}
    /\ lossy \in BOOLEAN

\* As long as no RPC outcome is lost, the pair has at most one order on the order
\* book, through drifts, stops, crashes and restarts; and while it trades and no
\* stop is under way that is the order it tracks or is just creating.
OpenOrdersTracked ==
    ~lossy =>
        /\ Cardinality(Open) <= 1
        /\ pc \in Trading /\ ~shutdown => Open \subseteq {order, last}

\* at_order_finished records the virtual order as the completed trade: what it
\* records is what the exchange executed under the tracked id.
BookedIsTraded ==
    [][(pc \notin Down /\ pc' \notin Down /\ history' # history) =>
        book[order] = [st |-> "finished", terms |-> history']]_vars

\* A running PingPong bot records a sell, then a buy, then a sell.
Completes(side) == pc \notin Down /\ pc' \notin Down /\ history' # history
                   /\ history'.side = side
HistoryAlternates ==
    [][/\ Completes("BUY") => history # NoVirtual /\ history.side = "SELL"
       /\ Completes("SELL") => history = NoVirtual \/ history.side = "BUY"]_vars

\* A recorded buy costs at most the sell before it less the spread, whatever
\* the market did between the two.
GuaranteedSpread ==
    [][Completes("BUY") =>
        100 * history'.price <= (100 - Spread) * history.price]_vars

\* Once a pair is disabled it stays so and places no order until it restarts.
DisabledIsFinal ==
    [][(disabled /\ pc' \notin Down) =>
        disabled' /\ \A i \in OrderIds :
                        book[i].st = "unused" => book'[i].st = "unused"]_vars

\* A stop request ends in a stopped process, unless the process dies first, or
\* stays for ever in a price fetch that is under way or that it still begins.
StopTerminates == shutdown ~> (pc \in Down \/ [](pc \in Fetching))

\* BasicSeller minds its floor while the market of both tokens moves: an open order
\* that it has just placed, or looked at and left in place, brings the floor in USD
\* at what the taker token is worth in this cycle, less the tolerance of the drift
\* and a unit of precision.
BringsFloor(terms, q) ==
    100 * Precision * Floor < (100 + Tolerance) * (terms.price + 1) * q.taker
RespectsFloor ==
    [][/\ pc \in {"getorderstatus", "makeorder"} /\ pc' = "idle" /\ price # NoPrice
       /\ order' # NoId /\ book'[order'].st = "open"
       => BringsFloor(book'[order'].terms, price)]_vars

\* A running bot loses sight of an active order only when it cancels it while a
\* taker gets it first: the cancel is refused, and taken for a success. Polling,
\* booking, replacing and restarting lose none, without a lost RPC or a stop.
OutOfSight == Active \ {order, last}
SightLostInRace ==
    [][(pc \in Trading /\ pc' \in Trading /\ ~lossy' /\ ~shutdown) =>
        \A i \in OutOfSight' \ OutOfSight :
            i = order /\ pc = "cancelorder" /\ book[i].st = "swapping"]_vars

\* The pair keeps the promise of TradeLedger: whatever drifts, locks, races, lost
\* calls, stops, crashes and failing saves do to its orders.
Executed == [i \in OrderIds |->
                IF book[i].st = "finished" THEN book[i].terms ELSE NoVirtual]

Books == INSTANCE TradeLedger
            WITH Ids <- OrderIds, Trades <- Virtual, NoTrade <- NoVirtual,
                 up <- pc \notin Down, ledger <- history, stored <- file,
                 done <- Executed

KeepsBooks == Books!Spec

\* README.md:115 promises a single active order per pair. No lost RPC and no
\* stop is needed to break it: a restart does not see the swap in progress,
\* and a cancel that loses the race against a taker is taken for a success.
SingleActiveOrder ==
    (pc \in Trading /\ ~lossy /\ ~shutdown) => Cardinality(Active) <= 1

\* unified_shutdown cancels the strategy's own orders (shutdown.py:44): without
\* a lost RPC none is left open by a bot that stopped in order.
StopCancelsOwnOrders == (pc = "stopped" /\ ~lossy) => Open = {}
=============================================================================
