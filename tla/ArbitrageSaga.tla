---------------------------- MODULE ArbitrageSaga ----------------------------
(***************************************************************************)
(* The two-legged trades of the arbitrage strategy                         *)
(* (strategies/arbitrage_strategy.py, definitions/trade_state.py, the swap *)
(* of beta/thorchain_def.py and take_order of xbridge_manager.py).         *)
(*                                                                         *)
(* A trade takes an XBridge order and, once that is finished, swaps what   *)
(* it got on THORChain. Before and after each leg the state of the trade   *)
(* is saved in a file of its own; after a restart the files tell where to  *)
(* go on. A refunded swap pauses all trading until the refund is seen.     *)
(*                                                                         *)
(* An action is the code from one await to the next. The wallet, THORChain *)
(* and the process (which may end at any await, and inside a save) move    *)
(* between them.                                                           *)
(***************************************************************************)
EXTENDS Integers, FiniteSets

CONSTANTS
    Trades,    \* check_ids: each check of a pair draws a new one
    BadDisk,   \* bound: those of them whose files may fail to be written
    MaxSends   \* bound: sends of one trade's second leg

ASSUME SagaConstants == BadDisk \subseteq Trades /\ MaxSends \in Nat \ {0}

VARIABLES
    swapFn,    \* execute_thorchain_swap as published, or as its caller expects it
    mode,      \* what the process runs: nothing, its main loop, or the resumption
    at,        \* where each trade's coroutine waits
    todo,      \* unfinished_trades not yet handled by the resumption
    file,      \* status in the trade's state file
    txid,      \* thorchain_txid of the trade's record
    archived,  \* reason in the name of the trade's archived file
    paused,    \* TRADING_PAUSED.json exists
    order,     \* the XBridge order of the first leg, in the wallet
    sends,     \* transactions the wallet has sent for the second leg
    swap,      \* what became of the last of them on THORChain
    evidence,  \* a receipt that passes for the refund, since the wait began
    unsaved,   \* history: a save of this trade failed, or was cut short
    unbooked   \* history: a send whose answer reached no state file

diskVars  == <<file, txid, archived, paused>>
worldVars == <<order, sends, swap, evidence>>
ghostVars == <<unsaved, unbooked>>
vars == <<swapFn, mode, at, todo, diskVars, worldVars, ghostVars>>

-----------------------------------------------------------------------------

\* The awaits of a check (order book, inbound addresses, quote) and of an execution
\* (dxTakeOrder, the order's status, a new quote, sendtoaddress before and after
\* the node has acted on it, the swap's status, listtransactions).
Waits == {"checking", "routing", "evaluating", "taking", "xb_monitor", "quoting",
          "swapping", "sent", "thor_monitor", "verifying"}

Statuses == {"INITIATED", "XBRIDGE_INITIATED", "XBRIDGE_CONFIRMED",
             "THORCHAIN_INITIATED", "AWAITING_REFUND"}

Reasons == {"xbridge-init-failed", "xbridge-monitor-failed", "resumed-xb-failed",
            "resumed-unprofitable", "unknown-resume-status", "refund-confirmed"}

Running == mode # "down"
Busy(t) == at[t] \in Waits
AllQuiet == \A t \in Trades : ~Busy(t)

\* get_unfinished_trades: a file that is not JSON is skipped.
Unfinished == {t \in Trades : file[t] \in Statuses}

-----------------------------------------------------------------------------
(* TradeState: save overwrites the file in place and swallows its errors,   *)
(* archive and delete do nothing without a file.                            *)

\* A save that fails does so before the file is truncated, or after.
Save(t, s) ==
    \/ file' = [file EXCEPT ![t] = s] /\ UNCHANGED unsaved
    \/ /\ t \in BadDisk
       /\ unsaved' = [unsaved EXCEPT ![t] = TRUE]
       /\ file' \in {file, [file EXCEPT ![t] = "torn"]}

Delete(t) == file' = [file EXCEPT ![t] = "none"]

Archive(t, reason) ==
    \/ /\ file[t] # "none"
       /\ file' = [file EXCEPT ![t] = "none"]
       /\ archived' = [archived EXCEPT ![t] = reason]
    \/ /\ file[t] = "none" \/ t \in BadDisk   \* no file, or the move fails
       /\ UNCHANGED <<file, archived>>

GoTo(t, w) == at' = [at EXCEPT ![t] = w]
Ends(t) == GoTo(t, "ended")

-----------------------------------------------------------------------------
(* The XBridge leg: process_pair_async and execute_arbitrage.               *)

\* One turn of the main loop: the coroutines of the gather look for the pause
\* file before their first await, hence all at once.
Cycle(S) ==
    /\ mode = "loop" /\ AllQuiet
    /\ ~paused
    /\ S # {} /\ S \subseteq {t \in Trades : at[t] = "new"}
    /\ at' = [t \in Trades |-> IF t \in S THEN "checking" ELSE at[t]]
    /\ UNCHANGED <<swapFn, mode, todo, diskVars, worldVars, ghostVars>>

\* A check keeps its findings in local variables until it executes.
OnlyMoves == UNCHANGED <<swapFn, mode, todo, diskVars, worldVars, ghostVars>>

OrderFound(t) == at[t] = "checking" /\ GoTo(t, "routing") /\ OnlyMoves

\* No order book, or no order that the balance of the cycle's start can pay.
NoAffordableOrder(t) == at[t] = "checking" /\ Ends(t) /\ OnlyMoves

PathActive(t) == at[t] = "routing" /\ GoTo(t, "evaluating") /\ OnlyMoves

PathHalted(t) == at[t] = "routing" /\ Ends(t) /\ OnlyMoves

\* No valid quote, too little profit, or a dry run.
NotProfitable(t) == at[t] = "evaluating" /\ Ends(t) /\ OnlyMoves

TakeBeforeSave(t) ==
    /\ at[t] = "evaluating"
    /\ GoTo(t, "taking") /\ OnlyMoves

ExecuteArbitrage(t) ==
    /\ at[t] = "evaluating"
    /\ Save(t, "INITIATED")
    /\ GoTo(t, "taking")
    /\ UNCHANGED <<swapFn, mode, todo, txid, archived, paused, worldVars, unbooked>>

\* take_order has returned the wallet's answer, with the order's id.
TakeAnswered(t) ==
    /\ at[t] = "taking" /\ order[t] # "none"
    /\ Save(t, "XBRIDGE_INITIATED")
    /\ GoTo(t, "xb_monitor")
    /\ UNCHANGED <<swapFn, mode, todo, txid, archived, paused, worldVars, unbooked>>

\* It has returned None, or the wallet's refusal, which has no id. The answer to
\* a request that the wallet did carry out may be lost.
TakeFailed(t) ==
    /\ at[t] = "taking"
    /\ Archive(t, "xbridge-init-failed")
    /\ Ends(t)
    /\ UNCHANGED <<swapFn, mode, todo, txid, paused, worldVars, ghostVars>>

AnyEndCompletes(t) ==
    /\ at[t] = "xb_monitor" /\ order[t] \in {"finished", "failed"}
    /\ Save(t, "XBRIDGE_CONFIRMED")
    /\ GoTo(t, "quoting")
    /\ UNCHANGED <<swapFn, mode, todo, txid, archived, paused, worldVars, unbooked>>

XBridgeCompleted(t) ==
    /\ at[t] = "xb_monitor" /\ order[t] = "finished"
    /\ Save(t, "XBRIDGE_CONFIRMED")
    /\ GoTo(t, "quoting")
    /\ UNCHANGED <<swapFn, mode, todo, txid, archived, paused, worldVars, unbooked>>

NoMonitorTimeout(t) ==
    /\ at[t] = "xb_monitor" /\ order[t] = "failed"
    /\ Archive(t, "xbridge-monitor-failed")
    /\ Ends(t)
    /\ UNCHANGED <<swapFn, mode, todo, txid, paused, worldVars, ghostVars>>

\* A failure status, or xb_monitor_timeout, whatever the order does later.
XBridgeNotCompleted(t) ==
    /\ at[t] = "xb_monitor"
    /\ Archive(t, IF mode = "resume" THEN "resumed-xb-failed"
                                     ELSE "xbridge-monitor-failed")
    /\ Ends(t)
    /\ UNCHANGED <<swapFn, mode, todo, txid, paused, worldVars, ghostVars>>

-----------------------------------------------------------------------------
(* The THORChain leg: _reevaluate_and_execute_thorchain,                    *)
(* execute_thorchain_swap and _resume_from_thor_initiated.                  *)

\* An invalid quote, or no RPC configuration: logged, and the file stays.
NoUsableQuote(t) == at[t] = "quoting" /\ Ends(t) /\ OnlyMoves

NoLongerProfitable(t) ==
    /\ at[t] = "quoting"
    /\ Archive(t, "resumed-unprofitable")
    /\ Ends(t)
    /\ UNCHANGED <<swapFn, mode, todo, txid, paused, worldVars, ghostVars>>

StillProfitable(t) ==
    /\ at[t] = "quoting" /\ swapFn = "sending"
    /\ GoTo(t, "swapping") /\ OnlyMoves

\* What the end of the process leaves: no coroutine, and no trace of a send that
\* was not answered.
ProcessEnds ==
    /\ mode' = "down"
    /\ at' = [t \in Trades |-> IF Busy(t) THEN "ended" ELSE at[t]]
    /\ todo' = {}
    /\ unbooked' = [t \in Trades |-> unbooked[t] \/ at[t] = "sent"]

\* The code as it is published: sys.exit(1) outside test mode. The send that follows
\* it (thorchain_def.py:202-221) is not reached in any mode: line 173 forces test mode
\* on and line 200 returns a made-up id. "sending" is the function that the code
\* around the call is written for, and that tests put in its place: one that asks
\* the coin's wallet to send, and answers an id, None, or, through rpc_call, the
\* node's error object.
SwapGuardExits(t) ==
    /\ at[t] = "quoting" /\ swapFn = "guarded"
    /\ ProcessEnds
    /\ UNCHANGED <<swapFn, diskVars, worldVars, unsaved>>

\* rpc_call repeats sendtoaddress when no answer comes.
RepeatSend(t) ==
    /\ at[t] = "sent"
    /\ GoTo(t, "swapping")
    /\ unbooked' = [unbooked EXCEPT ![t] = TRUE]
    /\ UNCHANGED <<swapFn, mode, todo, diskVars, worldVars, unsaved>>

\* A None, when it gives up, is logged as a failure, and the file stays. A send that
\* the node carries out after that is left out.
SwapNotInitiated(t) ==
    /\ at[t] \in {"swapping", "sent"}
    /\ unbooked' = [unbooked EXCEPT ![t] = @ \/ at[t] = "sent"]
    /\ Ends(t)
    /\ UNCHANGED <<swapFn, mode, todo, diskVars, worldVars, unsaved>>

\* The answer of the last send, or the node's refusal: an error object, which is not
\* falsy and so passes for a transaction id. What is not saved stays in memory only.
SwapInitiated(t) ==
    /\ \/ at[t] = "sent" /\ txid' = [txid EXCEPT ![t] = "real"]
       \/ at[t] = "swapping" /\ txid' = [txid EXCEPT ![t] = "error"]
    /\ Save(t, "THORCHAIN_INITIATED")
    /\ unbooked' = [unbooked EXCEPT ![t] = @ \/ file'[t] # "THORCHAIN_INITIATED"]
    /\ GoTo(t, "thor_monitor")
    /\ UNCHANGED <<swapFn, mode, todo, archived, paused, worldVars>>

\* get_thorchain_tx_status: what is not known, or not found, is pending.
TxStatus(t) == IF txid[t] = "real" THEN swap[t] ELSE "pending"

ThorchainCompleted(t) ==
    /\ at[t] = "thor_monitor" /\ TxStatus(t) = "success"
    /\ Delete(t)
    /\ Ends(t)
    /\ UNCHANGED <<swapFn, mode, todo, txid, archived, paused, worldVars, ghostVars>>

\* Refunded, or thor_monitor_timeout: pause, then record the wait and its start.
ThorchainNotCompleted(t) ==
    /\ at[t] = "thor_monitor"
    /\ paused' = TRUE
    /\ Save(t, "AWAITING_REFUND")
    /\ Ends(t)
    /\ UNCHANGED <<swapFn, mode, todo, txid, archived, worldVars, unbooked>>

\* The pause file could not be written: an exception before anything is saved. If
\* the resumption monitored the swap, it ends too.
PauseNotWritten(t) ==
    /\ t \in BadDisk /\ at[t] = "thor_monitor"
    /\ Ends(t)
    /\ todo' \in {todo, {}}
    /\ UNCHANGED <<swapFn, mode, diskVars, worldVars, ghostVars>>

-----------------------------------------------------------------------------
(* resume_interrupted_trades: one record after the other. Nothing in src    *)
(* calls it but the tests; like theirs, a call has the process to itself.   *)

Resume ==
    /\ mode = "loop" /\ AllQuiet
    /\ Unfinished # {}
    /\ mode' = "resume"
    /\ todo' = Unfinished
    /\ UNCHANGED <<swapFn, at, diskVars, worldVars, ghostVars>>

ResendHandler(s) ==
    CASE s = "XBRIDGE_INITIATED" -> "xb_monitor"
      [] s \in {"XBRIDGE_CONFIRMED", "THORCHAIN_INITIATED"} -> "quoting"
      [] s = "AWAITING_REFUND" -> "verifying"

StatusHandler(s) == s

HandlerOf(s) ==
    CASE s = "XBRIDGE_INITIATED" -> "xb_monitor"
      [] s = "XBRIDGE_CONFIRMED" -> "quoting"
      [] s = "THORCHAIN_INITIATED" -> "thor_monitor"
      [] s = "AWAITING_REFUND" -> "verifying"

ResumeTrade(t) ==
    /\ mode = "resume" /\ AllQuiet /\ t \in todo
    /\ todo' = todo \ {t}
    /\ IF file[t] \in Statuses \ {"INITIATED"}
       THEN /\ GoTo(t, HandlerOf(file[t]))
            /\ UNCHANGED <<file, archived>>
       ELSE /\ Archive(t, "unknown-resume-status")
            /\ UNCHANGED at
    /\ UNCHANGED <<swapFn, mode, txid, paused, worldVars, ghostVars>>

Resumed ==
    /\ mode = "resume" /\ AllQuiet /\ todo = {}
    /\ mode' = "loop"
    /\ UNCHANGED <<swapFn, at, todo, diskVars, worldVars, ghostVars>>

\* _resume_from_awaiting_refund: any receipt since the wait began will do, and
\* the one pause file is removed whoever else waits.
RefundConfirmed(t) ==
    /\ at[t] = "verifying" /\ evidence[t]
    /\ paused' = FALSE
    /\ Archive(t, "refund-confirmed")
    /\ Ends(t)
    /\ UNCHANGED <<swapFn, mode, todo, txid, worldVars, ghostVars>>

LiftUnverified(t) ==
    /\ at[t] = "verifying"
    /\ paused' = FALSE
    /\ Ends(t)
    /\ UNCHANGED <<swapFn, mode, todo, file, txid, archived, worldVars, ghostVars>>

\* Also when listtransactions fails.
RefundNotSeen(t) == at[t] = "verifying" /\ Ends(t) /\ OnlyMoves

-----------------------------------------------------------------------------
(* The process.                                                             *)

\* Killed, or stopped by an exception that the coroutines do not catch.
Crash ==
    /\ Running
    /\ ProcessEnds
    /\ UNCHANGED <<swapFn, diskVars, worldVars, unsaved>>

\* The places where the next thing the coroutine may do is to save.
Saves(t) ==
    \/ at[t] \in {"evaluating", "sent", "thor_monitor"}
    \/ at[t] = "taking" /\ order[t] # "none"
    \/ at[t] = "xb_monitor" /\ order[t] = "finished"

\* Killed between the truncation of the file and the end of json.dump.
CrashInSave(t) ==
    /\ t \in BadDisk /\ Saves(t)
    /\ ProcessEnds
    /\ file' = [file EXCEPT ![t] = "torn"]
    /\ unsaved' = [unsaved EXCEPT ![t] = TRUE]
    /\ paused' = (paused \/ at[t] = "thor_monitor")
    /\ UNCHANGED <<swapFn, txid, archived, worldVars>>

\* Killed between the pause file and the record of the wait.
CrashAfterPause(t) ==
    /\ at[t] = "thor_monitor"
    /\ paused' = TRUE
    /\ ProcessEnds
    /\ UNCHANGED <<swapFn, file, txid, archived, worldVars, unsaved>>

\* Killed between the removal of the pause file and the archival.
CrashAfterLift(t) ==
    /\ at[t] = "verifying" /\ evidence[t]
    /\ paused' = FALSE
    /\ ProcessEnds
    /\ UNCHANGED <<swapFn, file, txid, archived, worldVars, unsaved>>

Start ==
    /\ mode = "down"
    /\ mode' = "loop"
    /\ UNCHANGED <<swapFn, at, todo, diskVars, worldVars, ghostVars>>

-----------------------------------------------------------------------------
(* The wallet and THORChain, which go on whatever the process does.         *)

NodeTakes(t) ==
    /\ at[t] = "taking" /\ order[t] = "none"
    /\ order' = [order EXCEPT ![t] = "taken"]
    /\ UNCHANGED <<swapFn, mode, at, todo, diskVars, sends, swap, evidence, ghostVars>>

OrderEnds(t) ==
    /\ order[t] = "taken"
    /\ \E s \in {"finished", "failed"} : order' = [order EXCEPT ![t] = s]
    /\ UNCHANGED <<swapFn, mode, at, todo, diskVars, sends, swap, evidence, ghostVars>>

NodeSends(t) ==
    /\ at[t] = "swapping" /\ sends[t] < MaxSends
    /\ sends' = [sends EXCEPT ![t] = @ + 1]
    /\ swap' = [swap EXCEPT ![t] = "pending"]
    /\ GoTo(t, "sent")
    /\ UNCHANGED <<swapFn, mode, todo, diskVars, order, evidence, ghostVars>>

SwapEnds(t) ==
    /\ swap[t] = "pending"
    /\ \E s \in {"success", "refunded"} : swap' = [swap EXCEPT ![t] = s]
    /\ UNCHANGED <<swapFn, mode, at, todo, diskVars, order, sends, evidence, ghostVars>>

\* A refund, or any other receipt of the wallet, of the token and the amount that
\* the trades of S wait for. One that comes before a wait begins is not counted.
Receipt(S) ==
    /\ S # {} /\ S \subseteq {t \in Trades : file[t] = "AWAITING_REFUND"}
    /\ evidence' = [t \in Trades |-> evidence[t] \/ t \in S]
    /\ UNCHANGED <<swapFn, mode, at, todo, diskVars, order, sends, swap, ghostVars>>

-----------------------------------------------------------------------------

Init ==
    /\ swapFn \in {"guarded", "sending"}
    /\ mode = "loop"
    /\ at = [t \in Trades |-> "new"]
    /\ todo = {}
    /\ file = [t \in Trades |-> "none"]
    /\ txid = [t \in Trades |-> "none"]
    /\ archived = [t \in Trades |-> "no"]
    /\ paused = FALSE
    /\ order = [t \in Trades |-> "none"]
    /\ sends = [t \in Trades |-> 0]
    /\ swap = [t \in Trades |-> "none"]
    /\ evidence = [t \in Trades |-> FALSE]
    /\ unsaved = [t \in Trades |-> FALSE]
    /\ unbooked = [t \in Trades |-> FALSE]

\* A coroutine resumes: what it waited for has come, or its timeout has.
Step(t) ==
    \/ OrderFound(t) \/ NoAffordableOrder(t) \/ PathActive(t) \/ PathHalted(t)
    \/ NotProfitable(t) \/ ExecuteArbitrage(t)
    \/ TakeAnswered(t) \/ TakeFailed(t)
    \/ XBridgeCompleted(t) \/ XBridgeNotCompleted(t)
    \/ NoUsableQuote(t) \/ NoLongerProfitable(t)
    \/ StillProfitable(t) \/ SwapGuardExits(t)
    \/ RepeatSend(t) \/ SwapNotInitiated(t) \/ SwapInitiated(t)
    \/ ThorchainCompleted(t) \/ ThorchainNotCompleted(t) \/ PauseNotWritten(t)
    \/ RefundConfirmed(t) \/ RefundNotSeen(t)

World(t) == NodeTakes(t) \/ OrderEnds(t) \/ NodeSends(t) \/ SwapEnds(t)

CrashInside(t) == CrashInSave(t) \/ CrashAfterPause(t) \/ CrashAfterLift(t)

Next ==
    \/ \E S \in SUBSET Trades : Cycle(S) \/ Receipt(S)
    \/ \E t \in Trades : Step(t) \/ World(t) \/ ResumeTrade(t) \/ CrashInside(t)
    \/ Resume \/ Resumed \/ Crash \/ Start

\* Every await of an execution has its timeout: the poll loops their own, the
\* requests those of rpc_call and aiohttp. Of the wallet nothing is assumed.
Fairness == \A t \in Trades : WF_vars(Step(t))

Spec == Init /\ [][Next]_vars /\ Fairness

-----------------------------------------------------------------------------

TypeOK ==
    /\ swapFn \in {"guarded", "sending"}
    /\ mode \in {"down", "loop", "resume"}
    /\ at \in [Trades -> Waits \cup {"new", "ended"}]
    /\ todo \subseteq Trades
    /\ file \in [Trades -> Statuses \cup {"none", "torn"}]
    /\ txid \in [Trades -> {"none", "real", "error"}]
    /\ archived \in [Trades -> Reasons \cup {"no"}]
    /\ paused \in BOOLEAN
    /\ order \in [Trades -> {"none", "taken", "finished", "failed"}]
    /\ sends \in [Trades -> 0..MaxSends]
    /\ swap \in [Trades -> {"none", "pending", "success", "refunded"}]
    /\ evidence \in [Trades -> BOOLEAN]
    /\ unsaved \in [Trades -> BOOLEAN]
    /\ unbooked \in [Trades -> BOOLEAN]

\* What a record says has happened: after a crash the resumption acts on it
\* without asking the wallet again.
RecordTruth ==
    \A t \in Trades :
        /\ file[t] = "XBRIDGE_INITIATED" => order[t] # "none"
        /\ file[t] \in {"XBRIDGE_CONFIRMED", "THORCHAIN_INITIATED", "AWAITING_REFUND"}
               => order[t] = "finished"
        /\ file[t] \in {"THORCHAIN_INITIATED", "AWAITING_REFUND"} /\ txid[t] = "real"
               => sends[t] > 0
        /\ sends[t] > 0 => order[t] = "finished"

\* An order that the wallet took leaves a trace that somebody can find: a state
\* file, an archived one, or the swap that completes the trade. Only a save that
\* failed, or that the process did not survive, excuses the lack of one.
NoBlindSpot ==
    \A t \in Trades :
        order[t] # "none" /\ ~unsaved[t]
            => \/ file[t] # "none"
               \/ archived[t] # "no"
               \/ swap[t] = "success"

\* The second leg is sent once, over all crashes and resumptions, unless the
\* answer of an earlier send reached no state file.
SecondLegOnce == \A t \in Trades : sends[t] > 1 => unbooked[t]

\* As long as a record awaits its refund trading is paused, until the wallet has
\* received what passes for a refund of one of the trades. (Of one: a single
\* receipt lifts the pause of all.)
PauseHolds ==
    (\E t \in Trades : file[t] = "AWAITING_REFUND") /\ ~paused
        => \E u \in Trades : evidence[u]

\* Whatever the wallet and THORChain do, an execution ends, and with it the turn
\* of the main loop, which waits for all of them.
ExecutionEnds == \A t \in Trades : Busy(t) ~> ~Busy(t)

\* The strategy keeps the promise of TwoLegTrade: whatever the records, the crashes,
\* the resumptions and the lost answers do, the legs of a trade move as it allows.
Legs == INSTANCE TwoLegTrade
            WITH first <- order, second <- swap, lost <- unbooked

KeepsPromise == Legs!Spec
=============================================================================
