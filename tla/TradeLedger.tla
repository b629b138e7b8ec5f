------------------------------ MODULE TradeLedger ------------------------------
(***************************************************************************)
(* What a PingPong pair promises of its books, for a reader who does not   *)
(* care how it trades: its ledger holds the last trade it made, each trade *)
(* it enters was executed by the exchange and answers the one before it, a *)
(* buy at a gain of the spread, and a restart finds the ledger as it was   *)
(* last saved. There are no orders, statuses, prices or RPCs here. Two     *)
(* excuses: a save may leave the file as it was, or empty; and a trade the *)
(* bot has lost sight of is never entered. MakerPair implements this.      *)
(***************************************************************************)
EXTENDS Integers

CONSTANTS
    Ids,      \* ids of the trades the exchange remembers
    Trades,   \* records with a side and a price
    NoTrade,
    Spread    \* in percent

VARIABLES
    up,       \* the bot runs
    ledger,   \* the last trade it has entered
    stored,   \* the ledger in its file
    done      \* the trades executed, as long as the exchange remembers them

books == <<up, ledger, stored, done>>

-----------------------------------------------------------------------------

\* A sell is answered by a buy that costs less by the spread; all else by a sell.
Answers(t, before) ==
    IF before # NoTrade /\ before.side = "SELL"
    THEN t.side = "BUY" /\ 100 * t.price <= (100 - Spread) * before.price
    ELSE t.side = "SELL"

Init ==
    /\ up = FALSE
    /\ ledger = NoTrade /\ stored = NoTrade
    /\ done = [i \in Ids |-> NoTrade]

Start ==
    /\ ~up /\ up' = TRUE
    /\ ledger' = stored
    /\ UNCHANGED <<stored, done>>

End ==
    /\ up /\ up' = FALSE
    /\ ledger' = NoTrade
    /\ UNCHANGED <<stored, done>>

\* The trade that is entered may be the one in the ledger, once more.
Enter(i) ==
    /\ up /\ done[i] # NoTrade
    /\ ledger' = done[i]
    /\ ledger' = ledger \/ Answers(ledger', ledger)
    /\ stored' \in {ledger', stored, NoTrade}
    /\ UNCHANGED <<up, done>>

Execute(i) ==
    /\ done[i] = NoTrade
    /\ done'[i] \in Trades
    /\ done' = [done EXCEPT ![i] = done'[i]]
    /\ UNCHANGED <<up, ledger, stored>>

Forget(i) ==
    /\ done' = [done EXCEPT ![i] = NoTrade]
    /\ UNCHANGED <<up, ledger, stored>>

Next ==
    \/ Start \/ End
    \/ \E i \in Ids : Enter(i) \/ Execute(i) \/ Forget(i)

Spec == Init /\ [][Next]_books
=============================================================================
