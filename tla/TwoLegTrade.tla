------------------------------ MODULE TwoLegTrade ------------------------------
(***************************************************************************)
(* What the arbitrage strategy promises of the two legs of a trade, for a  *)
(* reader who does not care how: the second leg is sent after the first is *)
(* finished, and sent once. There are no processes, records, answers or    *)
(* crashes here, but one excuse: the strategy may lose track of whether a  *)
(* second leg went out, and may then send it again. ArbitrageSaga          *)
(* implements this.                                                        *)
(***************************************************************************)
CONSTANT Trades

VARIABLES
    first,   \* the XBridge order of each trade
    second,  \* its swap on THORChain
    lost     \* the strategy cannot tell whether the second leg was sent

legs == <<first, second, lost>>

Init ==
    /\ first = [t \in Trades |-> "none"]
    /\ second = [t \in Trades |-> "none"]
    /\ lost = [t \in Trades |-> FALSE]

Take(t) ==
    /\ first[t] = "none"
    /\ first' = [first EXCEPT ![t] = "taken"]
    /\ UNCHANGED <<second, lost>>

FirstEnds(t) ==
    /\ first[t] = "taken"
    /\ \E s \in {"finished", "failed"} : first' = [first EXCEPT ![t] = s]
    /\ UNCHANGED <<second, lost>>

SendSecond(t) ==
    /\ first[t] = "finished"
    /\ second[t] = "none" \/ lost[t]
    /\ second' = [second EXCEPT ![t] = "pending"]
    /\ UNCHANGED <<first, lost>>

SecondEnds(t) ==
    /\ second[t] = "pending"
    /\ \E s \in {"success", "refunded"} : second' = [second EXCEPT ![t] = s]
    /\ UNCHANGED <<first, lost>>

\* A crash may do this to several trades at once.
LoseTrack(S) ==
    /\ S \subseteq {t \in Trades : first[t] = "finished"}
    /\ lost' = [t \in Trades |-> lost[t] \/ t \in S]
    /\ UNCHANGED <<first, second>>

Next ==
    \/ \E t \in Trades : Take(t) \/ FirstEnds(t) \/ SendSecond(t) \/ SecondEnds(t)
    \/ \E S \in SUBSET Trades : LoseTrack(S)

Spec == Init /\ [][Next]_legs
=============================================================================
