---------------------------- MODULE ThorContinuous ----------------------------
(***************************************************************************)
(* The continuous THORChain strategy                                       *)
(* (strategies/thorchain_continuous_strategy.py).                          *)
(*                                                                         *)
(* The bot swaps TOKEN1 for TOKEN2 and back. Its ledger holds the rate of  *)
(* the last verified swap, the anchor, and its direction; the next swap    *)
(* goes the other way, pays with what the last one brought, and has to     *)
(* beat the anchor. The first swap, the anchor trade, is unconditional.    *)
(*                                                                         *)
(* An action is the code of a turn from one await to the next. THORChain,  *)
(* the market, the pause file (which the arbitrage strategy shares) and    *)
(* the end of the process come between. Rates are TOKEN2 per TOKEN1.       *)
(***************************************************************************)
EXTENDS Integers

CONSTANTS
    Rates,        \* bound: the rates the market takes
    One,          \* the rate 1.0 in the unit of Rates
    Target,       \* target_spread, in percent
    MaxFailures,  \* max_failure_threshold
    DiskFails     \* bound: whether writing a file may fail

ASSUME ThorConstants ==
    /\ Rates \subseteq Nat \ {0}
    /\ One \in Nat \ {0} /\ Target \in Nat
    /\ MaxFailures \in Nat \ {0}
    /\ DiskFails \in BOOLEAN

VARIABLES
    mode,       \* dry, live as published (guarded), or live with the swap function
                \* that _execute_live_swap is written for (sending)
    up,         \* the process runs
    at,         \* where the turn waits
    mem,        \* the ledger: anchor_rate, last_direction, last_sent/last_received
    attempted,  \* _anchor_execution_attempted
    failures,   \* consecutive_failures, until the next one reaches the threshold
    quote,      \* rate of the quote that is evaluated
    file,       \* the ledger in the state file; Fresh stands for no file
    paused,     \* TRADING_PAUSED.json exists
    market,     \* the rate THORChain offers; 0: no quotes, the path is halted, or
                \* the balances allow no trade
    swap,       \* the last swap sent, and what became of it
    last,       \* history: the one before it, until the turn ends
    unsaved,    \* history: the last save failed
    loose       \* history: a swap went out, or a ledger was lost, unbooked

turnVars  == <<at, attempted, failures, quote>>
diskVars  == <<file, unsaved>>
worldVars == <<market, swap, last>>
vars == <<mode, up, turnVars, mem, diskVars, paused, worldVars, loose>>

-----------------------------------------------------------------------------

Directions == {"T1toT2", "T2toT1"}
Opposite(d) == IF d = "T1toT2" THEN "T2toT1" ELSE "T1toT2"

Places == {"idle", "polling", "routing", "revalidating", "sending", "sent",
           "monitoring", "phantom", "parsing", "booking"}

\* "booked" is the direction of the swap that last wrote last_sent and
\* last_received: its amounts are in that swap's tokens.
Ledgers == [anchor : Rates \cup {0}, dir : Directions \cup {"none"},
            booked : Directions \cup {"none"}]
Fresh == [anchor |-> 0, dir |-> "none", booked |-> "none"]

Swaps == [dir : Directions \cup {"none"}, rate : Rates \cup {0},
          state : {"none", "pending", "success", "refunded"}]
NoSwap == [dir |-> "none", rate |-> 0, state |-> "none"]

IsAnchor == mem.anchor = 0
Offers == market # 0

RepeatDirection == IF IsAnchor \/ mem.dir # "T2toT1" THEN "T1toT2" ELSE "T2toT1"

\* _get_next_direction goes by the last verified swap, which is not always the
\* last to go out.
Direction == IF IsAnchor THEN "T1toT2"
             ELSE IF mem.dir = "none" THEN "T2toT1" ELSE Opposite(mem.dir)

\* sent and received as TOKEN2 per TOKEN1, whichever of them was sent.
UninvertedRate(s) == IF s.dir = "T1toT2" THEN s.rate ELSE (One * One) \div s.rate
EffectiveRate(s) == s.rate

SpreadMet(q, a, d) ==
    IF d = "T1toT2" THEN 100 * (q - a) >= Target * a ELSE 100 * (a - q) >= Target * a

\* _calculate_asymmetry inverts the rate of a buy-back, which its caller has
\* converted to TOKEN2 per TOKEN1 already: it compares 1/q with the anchor.
AsymmetryPositive(q, a, d) == IF d = "T1toT2" THEN q > a ELSE q * a > One * One

\* _project_dual_accumulation starts from the fetched balances. In dry mode none are
\* fetched, and from zero it never grows both tokens.
ProjectsGrowth == mode # "dry"

MeetsWithoutSpread ==
    /\ ProjectsGrowth
    /\ AsymmetryPositive(quote, mem.anchor, Direction)

MeetsConditions ==
    /\ ProjectsGrowth
    /\ SpreadMet(quote, mem.anchor, Direction)
    /\ AsymmetryPositive(quote, mem.anchor, Direction)

-----------------------------------------------------------------------------
(* ContinuousTradeState: save swallows its errors, and one that fails after *)
(* the file was truncated leaves an empty file, read as none.               *)

Save(r) ==
    \/ file' = r /\ unsaved' = FALSE
    \/ DiskFails /\ file' \in {file, Fresh} /\ unsaved' = TRUE

\* On an early return only the anchor trade saves: a reason that nothing reads.
SavesReason == IF IsAnchor THEN Save(mem) ELSE UNCHANGED diskVars

\* A loaded anchor of 1.0 is taken for a default.
Load(r) == IF r.anchor = One THEN [r EXCEPT !.anchor = 0] ELSE r

GoTo(p) == at' = p /\ UNCHANGED <<attempted, failures, quote>>
Ends == at' = "idle" /\ quote' = 0 /\ last' = NoSwap /\ UNCHANGED attempted

-----------------------------------------------------------------------------
(* A turn: process_pair_async.                                              *)

CanBegin == up /\ at = "idle" /\ ~paused

\* One attempt in the life of the process, whatever comes of it.
AnchorBegins ==
    /\ CanBegin /\ IsAnchor /\ ~attempted
    /\ attempted' = TRUE
    /\ \/ at' = "polling" /\ UNCHANGED diskVars
       \/ ~Offers /\ mode # "dry" /\ Save(mem) /\ UNCHANGED at   \* balance
    /\ UNCHANGED <<mode, up, mem, failures, quote, paused, worldVars, loose>>

TradeBegins ==
    /\ CanBegin /\ ~IsAnchor
    /\ GoTo("polling")
    /\ UNCHANGED <<mode, up, mem, diskVars, paused, worldVars, loose>>

Quoted ==
    /\ at = "polling" /\ Offers
    /\ at' = "routing" /\ quote' = market
    /\ UNCHANGED <<mode, up, attempted, failures, mem, diskVars, paused, worldVars, loose>>

\* No quote, an inactive path, or balances that do not allow the trade.
NoOpportunity ==
    /\ at \in {"polling", "routing", "revalidating"} /\ ~Offers
    /\ Ends /\ SavesReason
    /\ UNCHANGED <<mode, up, failures, mem, paused, market, swap, loose>>

ConditionsMet ==
    /\ at = "routing" /\ Offers
    /\ IsAnchor \/ MeetsConditions
    /\ GoTo("revalidating")
    /\ UNCHANGED <<mode, up, mem, diskVars, paused, worldVars, loose>>

ConditionsNotMet ==
    /\ at = "routing"
    /\ ~IsAnchor /\ ~MeetsConditions
    /\ Ends
    /\ UNCHANGED <<mode, up, failures, mem, diskVars, paused, market, swap, loose>>

\* _prepare_swap_result and the end of _execute_anchor_trade, without an await.
AnchorBooks(s) ==
    LET new == [anchor |-> EffectiveRate(s), dir |-> s.dir, booked |-> s.dir]
    IN /\ mem' = new /\ Save(new)
       /\ loose' = FALSE
       /\ Ends

\* _revalidate_quote: the fresh quote is executed, its rate not looked at again.
DrySwap ==
    /\ at = "revalidating" /\ Offers /\ mode = "dry"
    /\ swap' = [dir |-> Direction, rate |-> market, state |-> "success"]
    /\ AnchorBooks(swap')
    /\ UNCHANGED <<mode, up, failures, paused, market>>

LiveSwap ==
    /\ at = "revalidating" /\ Offers /\ mode = "sending"
    /\ GoTo("sending")
    /\ UNCHANGED <<mode, up, mem, diskVars, paused, worldVars, loose>>

-----------------------------------------------------------------------------
(* The live swap: _execute_live_swap, _monitor_thorchain_swap.              *)

\* rpc_call repeats sendtoaddress when no answer comes.
SendRepeated ==
    /\ at = "sent"
    /\ GoTo("sending")
    /\ loose' = TRUE
    /\ UNCHANGED <<mode, up, mem, diskVars, paused, worldVars>>

\* A None, when it gives up (what the node does after that is left out); or the fees
\* are abnormal, which is looked at after the send.
SendFailed ==
    /\ at \in {"sending", "sent"}
    /\ loose' = (loose \/ at = "sent")
    /\ Ends /\ SavesReason
    /\ UNCHANGED <<mode, up, failures, mem, paused, market, swap>>

SendAnswered ==
    /\ at = "sent"
    /\ GoTo("monitoring")
    /\ UNCHANGED <<mode, up, mem, diskVars, paused, worldVars, loose>>

\* The node's refusal, an error object, is not falsy and passes for a transaction id.
SendRefused ==
    /\ at = "sending"
    /\ GoTo("phantom")
    /\ UNCHANGED <<mode, up, mem, diskVars, paused, worldVars, loose>>

SwapSucceeded ==
    /\ at = "monitoring" /\ swap.state = "success"
    /\ GoTo("parsing")
    /\ UNCHANGED <<mode, up, mem, diskVars, paused, worldVars, loose>>

\* _increment_failures never forgets a failure. From its threshold on it saves a
\* reason that nothing reads, and the bot trades on: the archive that would clear the
\* state file fails, because its dump has no form for the direction, an Enum.
CountFailure ==
    failures' = IF failures + 1 < MaxFailures THEN failures + 1 ELSE failures

BreakerSaves == IF failures + 1 >= MaxFailures THEN Save(mem) ELSE UNCHANGED diskVars

\* A failure of the anchor trade pauses nothing but this process. Here there is no
\* direction yet, so the archive of the breaker works and removes the state file; the
\* reason is saved after that, and with it the ledger, or the save fails.
AnchorSwapFails ==
    /\ IsAnchor /\ at \in {"monitoring", "phantom"}
    /\ CountFailure /\ Save(mem)
    /\ loose' = (loose \/ at = "monitoring")
    /\ Ends
    /\ UNCHANGED <<mode, up, mem, paused, market, swap>>

NeverExpires ==
    /\ ~IsAnchor
    /\ at = "phantom"
    /\ CountFailure /\ BreakerSaves
    /\ loose' = (loose \/ at = "monitoring")
    /\ Ends
    /\ UNCHANGED <<mode, up, mem, paused, market, swap>>

\* thor_monitor_timeout, whatever becomes of the swap later.
SwapExpires ==
    /\ ~IsAnchor
    /\ at \in {"monitoring", "phantom"}
    /\ CountFailure /\ BreakerSaves
    /\ loose' = (loose \/ at = "monitoring")
    /\ Ends
    /\ UNCHANGED <<mode, up, mem, paused, market, swap>>

\* The pause file is written first; if that fails nothing is saved after it.
SwapRefunded ==
    /\ ~IsAnchor
    /\ at = "monitoring" /\ swap.state = "refunded"
    /\ CountFailure
    /\ \/ paused' = TRUE /\ Save(mem)
       \/ DiskFails /\ UNCHANGED paused /\ BreakerSaves
    /\ loose' = TRUE
    /\ Ends
    /\ UNCHANGED <<mode, up, mem, market, swap>>

\* get_actual_swap_received finds no output to the address it looks for.
NotParsed ==
    /\ at = "parsing"
    /\ loose' = TRUE
    /\ Ends /\ SavesReason
    /\ UNCHANGED <<mode, up, failures, mem, paused, market, swap>>

AnchorParsed ==
    /\ at = "parsing" /\ IsAnchor
    /\ AnchorBooks(swap)
    /\ UNCHANGED <<mode, up, failures, paused, market, swap>>

\* last_sent and last_received are overwritten before the balances are awaited.
Parsed ==
    /\ at = "parsing" /\ ~IsAnchor
    /\ mem' = [mem EXCEPT !.booked = swap.dir]
    /\ GoTo("booking")
    /\ UNCHANGED <<mode, up, diskVars, paused, worldVars, loose>>

-----------------------------------------------------------------------------
(* _update_anchor_and_metrics, after the balances.                          *)

SavesFirst ==
    /\ at = "booking"
    /\ mem' = [mem EXCEPT !.anchor = EffectiveRate(swap), !.dir = Direction]
    /\ Save(mem)
    /\ loose' = FALSE
    /\ Ends
    /\ UNCHANGED <<mode, up, failures, paused, market, swap>>

BothGrown ==
    /\ at = "booking"
    /\ mem' = [mem EXCEPT !.anchor = EffectiveRate(swap), !.dir = Direction]
    /\ Save(mem')
    /\ loose' = FALSE
    /\ Ends
    /\ UNCHANGED <<mode, up, failures, paused, market, swap>>

\* "pausing", says the log: the anchor and the direction stay those of the swap
\* before, and the bot trades on.
NotBothGrown ==
    /\ at = "booking"
    /\ Save(mem)
    /\ loose' = TRUE
    /\ Ends
    /\ UNCHANGED <<mode, up, failures, mem, paused, market, swap>>

-----------------------------------------------------------------------------
(* The process.                                                             *)

\* A swap is out, and the ledger does not describe it yet.
InFlight == at \in {"sent", "monitoring", "parsing", "booking"}

ProcessEnds ==
    /\ up' = FALSE /\ at' = "idle" /\ last' = NoSwap
    /\ mem' = Fresh /\ attempted' = FALSE /\ failures' = 0 /\ quote' = 0
    /\ unsaved' = FALSE

\* The code as it is published: execute_thorchain_swap calls sys.exit, and the send
\* behind it is not reached in any mode (thorchain_def.py:164-200).
GuardExits ==
    /\ at = "revalidating" /\ Offers /\ mode = "guarded"
    /\ ProcessEnds
    /\ loose' = (loose \/ unsaved)
    /\ UNCHANGED <<mode, file, paused, market, swap>>

Crash ==
    /\ up
    /\ ProcessEnds
    /\ loose' = (loose \/ unsaved \/ InFlight)
    /\ UNCHANGED <<mode, file, paused, market, swap>>

\* Killed while the state file is truncated.
CrashInSave ==
    /\ DiskFails /\ at # "idle"
    /\ IsAnchor \/ at \in {"monitoring", "phantom", "booking"}
    /\ ProcessEnds
    /\ file' = Fresh
    /\ loose' = TRUE
    /\ UNCHANGED <<mode, paused, market, swap>>

\* A dry run starts without history.
StartDry ==
    /\ ~up /\ mode = "dry"
    /\ up' = TRUE
    /\ swap' = NoSwap /\ last' = NoSwap /\ loose' = FALSE
    /\ UNCHANGED <<mode, turnVars, mem, diskVars, paused, market>>

StartLive ==
    /\ ~up /\ mode # "dry"
    /\ up' = TRUE
    /\ mem' = Load(file)
    /\ IF file.anchor = One THEN Save(mem') ELSE UNCHANGED diskVars
    /\ loose' = (loose \/ file.anchor = One)
    /\ UNCHANGED <<mode, turnVars, paused, worldVars>>

-----------------------------------------------------------------------------
(* The world.                                                               *)

NodeSends ==
    /\ at = "sending"
    /\ at' = "sent"
    /\ swap' = [dir |-> Direction, rate |-> 0, state |-> "pending"]
    /\ last' = swap
    /\ UNCHANGED <<mode, up, attempted, failures, quote, mem, diskVars, paused,
                   market, loose>>

SwapEnds ==
    /\ swap.state = "pending"
    /\ \/ \E r \in Rates : swap' = [swap EXCEPT !.state = "success", !.rate = r]
       \/ swap' = [swap EXCEPT !.state = "refunded"]
    /\ UNCHANGED <<mode, up, turnVars, mem, diskVars, paused, market, last, loose>>

Move ==
    /\ market' \in Rates \cup {0}
    /\ UNCHANGED <<mode, up, turnVars, mem, diskVars, paused, swap, last, loose>>

\* Removed by hand or by the arbitrage strategy, or written by the latter. Only the
\* start of a turn looks at it.
PauseFile ==
    /\ at = "idle"
    /\ paused' = ~paused
    /\ UNCHANGED <<mode, up, turnVars, mem, diskVars, worldVars, loose>>

-----------------------------------------------------------------------------

Init ==
    /\ mode \in {"dry", "guarded", "sending"}
    /\ up = TRUE /\ at = "idle"
    /\ mem = Fresh /\ attempted = FALSE /\ failures = 0 /\ quote = 0
    /\ file = Fresh /\ paused = FALSE
    /\ market \in Rates \cup {0}
    /\ swap = NoSwap /\ last = NoSwap
    /\ unsaved = FALSE /\ loose = FALSE

Turn ==
    \/ AnchorBegins \/ TradeBegins
    \/ Quoted \/ NoOpportunity \/ ConditionsMet \/ ConditionsNotMet
    \/ DrySwap \/ LiveSwap \/ GuardExits
    \/ SendRepeated \/ SendFailed \/ SendAnswered \/ SendRefused
    \/ SwapSucceeded \/ AnchorSwapFails \/ SwapExpires \/ SwapRefunded
    \/ NotParsed \/ AnchorParsed \/ Parsed \/ BothGrown \/ NotBothGrown

Next ==
    \/ Turn
    \/ Crash \/ CrashInSave \/ StartDry \/ StartLive
    \/ NodeSends \/ SwapEnds \/ Move \/ PauseFile

\* The main loop begins a turn every interval, and every await of a turn has its
\* timeout. Nothing is assumed of THORChain, the market or the wallet.
Spec == Init /\ [][Next]_vars /\ WF_vars(Turn)

-----------------------------------------------------------------------------

TypeOK ==
    /\ mode \in {"dry", "guarded", "sending"}
    /\ up \in BOOLEAN /\ at \in Places
    /\ mem \in Ledgers /\ file \in Ledgers
    /\ attempted \in BOOLEAN /\ failures \in 0..MaxFailures - 1
    /\ quote \in Rates \cup {0}
    /\ paused \in BOOLEAN
    /\ market \in Rates \cup {0}
    /\ swap \in Swaps /\ last \in Swaps
    /\ unsaved \in BOOLEAN /\ loose \in BOOLEAN

Describes(r) ==
    IF swap.state = "none" THEN r = Fresh
    ELSE /\ swap.state = "success"
         /\ r = [anchor |-> swap.rate, dir |-> swap.dir, booked |-> swap.dir]

\* Between swaps the ledger, in memory and on disk, describes the last swap that
\* went out, over restarts too, unless that swap was never booked: its answer or
\* its result was lost, it failed, its growth was not verified, or the process
\* ended before the ledger was saved.
LedgerTruth ==
    ~loose /\ ~InFlight
        => /\ up => Describes(mem)
           /\ mode # "dry" /\ ~unsaved => Describes(file)

\* A swap goes against the swap before it and pays with what that one brought;
\* the anchor trade comes first and only then. With the same exceptions: after
\* one of them a direction may repeat, with an amount in the other token.
Alternates ==
    ~loose /\ at \in {"sent", "monitoring", "parsing"}
        => IF IsAnchor THEN last = NoSwap
           ELSE /\ last.state = "success"
                /\ swap.dir = Opposite(last.dir)
                /\ mem.booked = last.dir

\* A swap executed at the rate it was evaluated at beats the swap before it by
\* the target spread. (The fresh quote that it executes may be another one.)
SpreadHeld ==
    ~loose /\ at = "booking" /\ swap.rate = quote
        => SpreadMet(swap.rate, last.rate, swap.dir)

\* A lasting offer is taken, time and again: no failure or timeout leaves the bot
\* sitting. Not in dry mode, and not a buy-back unless the product of rate and
\* anchor exceeds 1, which is what the double inversion demands.
Offered ==
    /\ up /\ mode = "sending" /\ ~paused /\ Offers /\ ~IsAnchor
    /\ SpreadMet(market, mem.anchor, Direction)
    /\ Direction = "T2toT1" => mem.anchor * market > One * One

OfferTaken == <>[]Offered => []<>(at = "sending")
=============================================================================
