--------------------------- MODULE MakerPairProofs ---------------------------
(***************************************************************************)
(* What MakerPair guarantees for every market, every set of order ids and  *)
(* every percentage: type correctness, and the safety properties the runs  *)
(* check on small instances.                                               *)
(***************************************************************************)
EXTENDS MakerPair, FiniteSetTheorems, TLAPS

-----------------------------------------------------------------------------
(* Prices. *)

\* A percentage of a natural number is a natural number.
LEMMA PercentNat ==
    ASSUME NEW p \in Nat, NEW k \in Nat
    PROVE  (p * k) \div 100 \in Nat
<1>1. p * k \in Nat
    OBVIOUS
<1>2. \A x \in Nat : x \div 100 \in Nat
    OBVIOUS
<1> QED
    BY <1>1, <1>2

\* Division by a positive number rounds down, by less than one.
LEMMA DivisionRounds ==
    ASSUME NEW a \in Nat, NEW t \in Nat \ {0}
    PROVE  a \div t \in Nat /\ a < (a \div t + 1) * t
OBVIOUS

\* The pair's price is a natural number.
LEMMA MarketNat ==
    ASSUME NEW q \in Quotes
    PROVE  Market(q) \in Nat
<1>1. q.maker \in Nat /\ q.taker \in Nat \ {0} /\ Precision \in Nat
    BY ConstantsAssumption
<1>2. Precision * q.maker \in Nat
    BY <1>1
<1> QED
    BY <1>1, <1>2, DivisionRounds DEF Market

\* What a seller bases its price on is a natural number.
LEMMA SellBaseNat ==
    ASSUME NEW q \in Quotes
    PROVE  SellBase(q) \in Nat
<1>1. q.taker \in Nat \ {0} /\ Precision * Floor \in Nat
    BY ConstantsAssumption
<1> QED
    BY <1>1, MarketNat, DivisionRounds DEF SellBase

\* What BasicSeller bases its price on brings the floor at what the taker token is
\* worth, up to a unit of precision.
LEMMA SellBaseBringsFloor ==
    ASSUME Strategy = "basic_seller", NEW q \in Quotes
    PROVE  Precision * Floor < (SellBase(q) + 1) * q.taker
<1>1. q.maker \in Nat /\ q.taker \in Nat \ {0} /\ Precision \in Nat /\ Floor \in Nat
    BY ConstantsAssumption
<1>2. Precision * Floor \in Nat /\ Precision * q.maker \in Nat
    BY <1>1
<1>3. CASE q.maker < Floor
    BY <1>1, <1>2, <1>3, DivisionRounds DEF SellBase
<1>4. CASE ~(q.maker < Floor)
    <2>1. Precision * Floor <= Precision * q.maker
        BY <1>1, <1>4
    <2>2. SellBase(q) = (Precision * q.maker) \div q.taker
        BY <1>4 DEF SellBase, Market
    <2>3. Precision * q.maker < (SellBase(q) + 1) * q.taker
        BY <1>1, <1>2, <2>2, DivisionRounds
    <2>4. (SellBase(q) + 1) * q.taker \in Nat
        BY <1>1, SellBaseNat
    <2> QED
        BY <1>2, <2>1, <2>3, <2>4
<1> QED
    BY <1>3, <1>4

\* The offset does not lower a price.
LEMMA MarkupRaises ==
    ASSUME NEW p \in Nat
    PROVE  Markup(p) \in Nat /\ p <= Markup(p)
<1>1. SellOffset \in Nat
    BY ConstantsAssumption
<1>2. p * (100 + SellOffset) = 100 * p + p * SellOffset /\ p * SellOffset \in Nat
    BY <1>1
<1>3. \A x, y \in Nat : x <= (100 * x + y) \div 100 /\ (100 * x + y) \div 100 \in Nat
    OBVIOUS
<1> QED
    BY <1>2, <1>3 DEF Markup

\* Every virtual order has the shape of one, whatever the last order was.
LEMMA VirtualOrderType ==
    ASSUME NEW h \in Virtual \cup {NoVirtual}, NEW q \in Quotes
    PROVE  VirtualOrder(h, q) \in Virtual
<1>1. Market(q) \in Nat /\ 100 - Spread \in Nat
    BY ConstantsAssumption, MarketNat
<1>2. SellOrder(q) \in Virtual
    BY SellBaseNat, MarkupRaises DEF SellOrder, Virtual
<1>3. ASSUME h # NoVirtual
      PROVE  BuyOrder(h, q) \in Virtual
    <2>1. BuyBase(h, q) \in Nat
        BY <1>1, <1>3 DEF BuyBase, Virtual
    <2>2. Discount(BuyBase(h, q)) \in Nat
        BY <1>1, <2>1, PercentNat DEF Discount
    <2> QED
        BY <2>1, <2>2 DEF BuyOrder, Virtual
<1> QED
    BY <1>2, <1>3 DEF VirtualOrder

\* A buy order is priced at the sell it answers less the spread, or below.
LEMMA BuyBelowSell ==
    ASSUME NEW h \in Virtual, NEW q \in Quotes
    PROVE  100 * BuyOrder(h, q).price <= (100 - Spread) * h.price
<1> DEFINE b == BuyBase(h, q)
           k == 100 - Spread
<1>1. Market(q) \in Nat /\ h.price \in Nat /\ k \in Nat
    BY ConstantsAssumption, MarketNat DEF Virtual
<1>2. b \in Nat /\ b <= h.price
    BY <1>1 DEF BuyBase
<1>3. BuyOrder(h, q).price = (b * k) \div 100
    BY DEF BuyOrder, Discount
<1> HIDE DEF b, k
<1>4. b * k \in Nat /\ b * k <= k * h.price
    BY <1>1, <1>2
<1>5. \A x \in Nat : 100 * (x \div 100) <= x
    OBVIOUS
<1>6. (b * k) \div 100 \in Nat
    BY <1>1, <1>2, PercentNat
<1>7. 100 * ((b * k) \div 100) <= b * k
    BY <1>4, <1>5
<1>8. k * h.price \in Nat
    BY <1>1
<1> QED
    BY <1>3, <1>4, <1>6, <1>7, <1>8 DEF k

-----------------------------------------------------------------------------
(* The inductive invariant. *)

\* What is known about the pair from the phase it is in.
PhaseShape ==
    /\ pc \in Down \cup {"startup", "init"} => current = NoVirtual
    /\ pc \in Down \cup {"startup", "init", "makeorder"} => order = NoId
    /\ pc \in {"getorderstatus", "cancelorder", "request_addr"} => order # NoId
    /\ (pc = "makeorder" \/ order # NoId) => current # NoVirtual
    /\ pc # "makeorder" => last = NoId
    /\ pc = "request_addr" => book[order].st = "finished"
    /\ disabled => pc \in {"idle", "tickers", "closing"}

\* The virtual order is the last completed one or answers it.
Follows(c, h) == \E q \in Quotes : c = VirtualOrder(h, q)
CurrentFollows ==
    current # NoVirtual => current = history \/ Follows(current, history)

\* The tracked order was placed with the terms of the virtual order, unless a
\* stop came after the virtual order was renewed and before it was placed.
TrackedTerms ==
    /\ order # NoId =>
        /\ book[order].st # "unused"
        /\ book[order].terms = current \/ (shutdown /\ pc \in {"idle", "closing"})
    /\ last # NoId =>
        /\ book[last].st # "unused"
        /\ book[last].terms = current

\* While it trades, the pair's open orders are those it tracks or is creating,
\* unless a stop has made it forget one; a call that creates an order is not
\* affected by a stop that comes after it.
Tracked ==
    ~lossy /\ pc \in Trading /\ (~shutdown \/ pc = "makeorder") =>
        Open \subseteq {order, last}

\* No order is open twice over, in any phase.
OneOpen == ~lossy => \A i, j \in Open : i = j

\* What is on the exchange has the terms of an order.
KnownTerms == \A i \in OrderIds : book[i].st # "unused" => book[i].terms \in Virtual

Inv ==
    /\ TypeOK
    /\ PhaseShape
    /\ CurrentFollows
    /\ TrackedTerms
    /\ KnownTerms
    /\ Tracked
    /\ OneOpen

-----------------------------------------------------------------------------
(* Placing and renewing the virtual order. *)

\* create_order either leaves the tracked order alone or forgets it, and it
\* only calls the exchange for an enabled pair of a running bot.
LEMMA CreateOrderEffect ==
    ASSUME NEW c, NEW o, CreateOrder(c, o)
    PROVE  /\ current' = c
           /\ order' \in {o, NoId}
           /\ pc' \in {"idle", "makeorder"}
           /\ pc' = "makeorder" => order' = NoId /\ ~disabled /\ ~shutdown
           /\ order' # NoId => disabled \/ shutdown
BY DEF CreateOrder, PairEnabled

\* init_virtual_order and create_order: the same, and the virtual order is
\* left alone or renewed from the history.
LEMMA RenewOrderEffect ==
    ASSUME TypeOK, NEW h \in Virtual \cup {NoVirtual}, NEW o, RenewOrder(h, o)
    PROVE  /\ current' = current \/ Follows(current', h)
           /\ order' \in {o, NoId}
           /\ pc' \in {"idle", "makeorder"}
           /\ pc' = "makeorder" =>
                Follows(current', h) /\ order' = NoId /\ ~disabled /\ ~shutdown
           /\ pc' = "makeorder" =>
                price \in Quotes /\ current' = VirtualOrder(h, price)
           /\ order' # NoId => disabled \/ shutdown \/ current' = current
<1>1. CASE price = NoPrice
    BY <1>1 DEF RenewOrder
<1>2. CASE price # NoPrice
    <2>1. price \in Quotes
        BY <1>2 DEF TypeOK
    <2>2. CreateOrder(VirtualOrder(h, price), o)
        BY <1>2 DEF RenewOrder
    <2>3. Follows(VirtualOrder(h, price), h)
        BY <2>1 DEF Follows
    <2> QED
        BY <2>1, <2>2, <2>3, CreateOrderEffect
<1> QED
    BY <1>1, <1>2

\* What follows an order is an order.
LEMMA FollowsType ==
    ASSUME NEW h \in Virtual \cup {NoVirtual}, NEW c, Follows(c, h)
    PROVE  c \in Virtual /\ c # NoVirtual
BY VirtualOrderType, ConstantsAssumption DEF Follows, Virtual

\* A renewal keeps the types of what it changes.
LEMMA RenewOrderType ==
    ASSUME TypeOK, NEW o \in OrderIds \cup {NoId}, RenewOrder(history, o)
    PROVE  /\ pc' \in Phases
           /\ order' \in OrderIds \cup {NoId}
           /\ current' \in Virtual \cup {NoVirtual}
BY RenewOrderEffect, FollowsType DEF TypeOK, Phases

\* The exchange and the cancel calls only change the status of known orders.
LEMMA SetStatusType ==
    ASSUME TypeOK, NEW i \in OrderIds, NEW st \in OrderStatus, SetStatus(i, st)
    PROVE  /\ book' \in [OrderIds -> Slot]
           /\ book'[i].st = st
           /\ \A j \in OrderIds : book'[j].terms = book[j].terms
           /\ \A j \in OrderIds \ {i} : book'[j] = book[j]
BY DEF SetStatus, TypeOK, Slot

-----------------------------------------------------------------------------
(* Type correctness. *)

LEMMA InitInv == Init => Inv
<1> SUFFICES ASSUME Init PROVE Inv
    OBVIOUS
<1>1. Unused \in Slot /\ Unused.st = "unused"
    BY DEF Unused, Slot, OrderStatus
<1>2. book \in [OrderIds -> Slot] /\ \A i \in OrderIds : book[i].st = "unused"
    BY <1>1 DEF Init
<1>3. TypeOK
    BY <1>2 DEF Init, TypeOK, Phases
<1>4. PhaseShape /\ CurrentFollows /\ TrackedTerms
    BY DEF Init, PhaseShape, CurrentFollows, TrackedTerms, Down
<1>5. KnownTerms /\ Tracked /\ OneOpen
    BY <1>1, <1>2 DEF Init, KnownTerms, Tracked, OneOpen, Open
<1> QED
    BY <1>3, <1>4, <1>5 DEF Inv

\* CancelExecutes closes an open order, or changes nothing on the exchange.
LEMMA CancelExecutesEffect ==
    ASSUME TypeOK, order \in OrderIds, CancelExecutes
    PROVE  /\ book' \in [OrderIds -> Slot]
           /\ lossy' \in BOOLEAN
           /\ lossy => lossy'
           /\ book'[order].st = "open" => lossy'
           /\ \A j \in OrderIds : book'[j].terms = book[j].terms
           /\ \A j \in OrderIds : \/ book'[j].st = book[j].st
                                  \/ j = order /\ book'[j].st = "closed"
<1>1. CASE SetStatus(order, "closed") /\ UNCHANGED lossy
    <2>1. "closed" \in OrderStatus
        BY DEF OrderStatus
    <2> QED
        BY <1>1, <2>1, SetStatusType DEF TypeOK
<1>2. CASE UNCHANGED book /\ lossy' = TRUE
    BY <1>2 DEF TypeOK
<1>3. CASE book[order].st # "open" /\ UNCHANGED <<book, lossy>>
    BY <1>3 DEF TypeOK
<1> QED
    BY <1>1, <1>2, <1>3 DEF CancelExecutes

\* It touches no finished order.
LEMMA CancelKeepsFinished ==
    ASSUME TypeOK, NEW i \in OrderIds, order # NoId, CancelExecutes
    PROVE  \/ book'[i] = book[i]
           \/ book[i].st # "finished" /\ book'[i].st # "finished"
<1>1. order \in OrderIds /\ "closed" \in OrderStatus
    BY DEF TypeOK, OrderStatus
<1> QED
    BY <1>1, SetStatusType DEF CancelExecutes

\* Every step keeps every variable a value of its kind.
LEMMA TypeStep == Inv /\ [Next]_vars => TypeOK'
<1> SUFFICES ASSUME Inv, [Next]_vars PROVE TypeOK'
    OBVIOUS
<1> USE DEF Inv
<1>1. CASE SweepOrders
    <2>1. PICK S \in SUBSET Open :
            /\ book' = [i \in OrderIds |->
                    IF i \in S THEN [book[i] EXCEPT !.st = "closed"] ELSE book[i]]
            /\ lossy' = (S # Open)
        BY <1>1 DEF SweepOrders
    <2>2. \A i \in OrderIds : [book[i] EXCEPT !.st = "closed"] \in Slot
        BY DEF TypeOK, Slot, OrderStatus
    <2>3. book' \in [OrderIds -> Slot]
        BY <2>1, <2>2 DEF TypeOK
    <2> QED
        BY <1>1, <2>1, <2>3 DEF SweepOrders, TypeOK, Phases
<1>2. CASE SweepRaised
    BY <1>2 DEF SweepRaised, TypeOK, Phases
<1>3. CASE InitPair
    <2>1. PICK q \in Quotes \cup {NoPrice} :
            /\ price' = q
            /\ IF q = NoPrice
               THEN pc' = "closing" /\ UNCHANGED <<order, current>>
               ELSE CreateOrder(VirtualOrder(history, q), order)
        BY <1>3 DEF InitPair
    <2>2. q # NoPrice => VirtualOrder(history, q) \in Virtual
        BY VirtualOrderType DEF TypeOK
    <2> QED
        BY <1>3, <2>1, <2>2, CreateOrderEffect DEF InitPair, TypeOK, Phases
<1>4. CASE StatusCheck
    <2>1. PICK q \in Quotes \cup {NoPrice} :
            /\ price' = q
            /\ \/ pc' \in {"idle", "getorderstatus"} /\ UNCHANGED <<order, current>>
               \/ q # NoPrice /\ CreateOrder(VirtualOrder(history, q), NoId)
        BY <1>4 DEF StatusCheck
    <2>2. q # NoPrice => VirtualOrder(history, q) \in Virtual
        BY VirtualOrderType DEF TypeOK
    <2> QED
        BY <1>4, <2>1, <2>2, CreateOrderEffect DEF StatusCheck, TypeOK, Phases
<1>5. CASE StatusLive
    BY <1>5 DEF StatusLive, TypeOK, Phases
<1>6. CASE StatusFinished
    BY <1>6 DEF StatusFinished, TypeOK, Phases
<1>7. CASE AddressReply
    BY <1>7, RenewOrderType DEF AddressReply, TypeOK, Phases
<1>8. CASE StatusClosed
    BY <1>8, RenewOrderType DEF StatusClosed, TypeOK
<1>9. CASE StatusFailed
    BY <1>9 DEF StatusFailed, TypeOK, Phases
<1>10. CASE StatusLost
    BY <1>10, RenewOrderType DEF StatusLost, TypeOK
<1>11. CASE MakeAnswered
    BY <1>11 DEF MakeAnswered, TypeOK, Phases
<1>12. CASE MakeRejected
    BY <1>12 DEF MakeRejected, TypeOK, Phases
<1>13. CASE MakeUnanswered
    BY <1>13 DEF MakeUnanswered, TypeOK, Phases
<1>14. CASE CancelReturned
    BY <1>14, RenewOrderType, CancelExecutesEffect
        DEF CancelReturned, TypeOK, PhaseShape
<1>15. CASE CancelRaised
    <2>1. book' \in [OrderIds -> Slot]
        <3>1. order \in OrderIds /\ "closed" \in OrderStatus
            BY <1>15 DEF CancelRaised, TypeOK, PhaseShape, OrderStatus
        <3> QED
            BY <1>15, <3>1, SetStatusType DEF CancelRaised, TypeOK
    <2> QED
        BY <1>15, <2>1 DEF CancelRaised, TypeOK, Phases
<1>16. CASE LeaveMain
    BY <1>16 DEF LeaveMain, TypeOK, Phases
<1>17. CASE CloseOrders
    <2>1. book' \in [OrderIds -> Slot] /\ lossy' \in BOOLEAN
        BY <1>17, CancelExecutesEffect DEF CloseOrders, TypeOK
    <2> QED
        BY <1>17, <2>1 DEF CloseOrders, Forgotten, TypeOK, Phases
<1>18. CASE ExecuteMake
    <2>1. PICK i \in OrderIds :
            /\ book' = [book EXCEPT ![i] = [st |-> "open", terms |-> current]]
            /\ last' = i
        BY <1>18 DEF ExecuteMake
    <2>2. [st |-> "open", terms |-> current] \in Slot
        BY DEF TypeOK, Slot, OrderStatus
    <2> QED
        BY <1>18, <2>1, <2>2 DEF ExecuteMake, TypeOK
<1>19. CASE Start
    BY <1>19 DEF Start, TypeOK, Phases
<1>20. CASE RequestStop
    BY <1>20 DEF RequestStop, TypeOK, Phases
<1>21. CASE Crash
    BY <1>21 DEF Crash, Forgotten, TypeOK, Phases
<1>22. CASE Exchange
    <2>1. PICK i \in OrderIds, st \in OrderStatus : SetStatus(i, st)
        BY <1>22 DEF Exchange, Advance, OrderStatus
    <2> QED
        BY <1>22, <2>1, SetStatusType DEF Exchange, TypeOK
<1>23. CASE Forget
    <2>1. Unused \in Slot
        BY DEF Unused, Slot, OrderStatus
    <2> QED
        BY <1>23, <2>1 DEF Forget, TypeOK
<1>24. CASE UNCHANGED vars
    BY <1>24 DEF vars, TypeOK
<1>25. CASE FetchTickers
    BY <1>25 DEF FetchTickers, MainLoopRuns, TypeOK, Phases
<1>26. CASE FetchInterrupted
    BY <1>26 DEF FetchInterrupted, Fetching, TypeOK, Phases
<1> QED
    BY <1>1, <1>2, <1>3, <1>4, <1>5, <1>6, <1>7, <1>8, <1>9, <1>10, <1>11, <1>12,
        <1>13, <1>14, <1>15, <1>16, <1>17, <1>18, <1>19, <1>20, <1>21, <1>22, <1>23, <1>24,
        <1>25, <1>26 DEF Next, BotStep, FetchEnds

-----------------------------------------------------------------------------
(* What is known in each phase. *)

\* The exchange only moves orders that are not over, and only to a status that
\* is neither unused nor open.
LEMMA ExchangeEffect ==
    ASSUME TypeOK, Exchange
    PROVE  \E i \in OrderIds :
             /\ book[i].st \in {"open", "swapping"}
             /\ book'[i].st \notin {"unused", "open"}
             /\ \A j \in OrderIds : book'[j].terms = book[j].terms
             /\ \A j \in OrderIds \ {i} : book'[j] = book[j]
<1>1. PICK i \in OrderIds, st \in {"swapping", "closed", "finished", "failed"} :
        book[i].st \in {"open", "swapping"} /\ SetStatus(i, st)
    BY DEF Exchange, Advance
<1> QED
    BY <1>1, SetStatusType DEF OrderStatus

\* The startup sweep only closes orders that are open.
LEMMA SweepEffect ==
    ASSUME TypeOK, SweepOrders
    PROVE  /\ \A j \in OrderIds : book'[j].terms = book[j].terms
           /\ \A j \in OrderIds : book'[j].st \in {"open", "closed"} \/ book'[j] = book[j]
           /\ ~lossy' => \A j \in OrderIds : book'[j].st # "open"
<1>1. PICK S \in SUBSET Open :
        /\ book' = [i \in OrderIds |->
                IF i \in S THEN [book[i] EXCEPT !.st = "closed"] ELSE book[i]]
        /\ lossy' = (S # Open)
    BY DEF SweepOrders
<1>2. \A j \in OrderIds : book[j] \in Slot
    BY DEF TypeOK
<1> QED
    BY <1>1, <1>2 DEF Open, Slot

\* Every step keeps what is known of the phase it ends in.
LEMMA PhaseStep == Inv /\ [Next]_vars => PhaseShape'
<1> SUFFICES ASSUME Inv, [Next]_vars PROVE PhaseShape'
    OBVIOUS
<1> USE DEF Inv, PhaseShape, Down
<1>1. CASE SweepOrders
    BY <1>1 DEF SweepOrders
<1>2. CASE SweepRaised
    BY <1>2 DEF SweepRaised
<1>3. CASE InitPair
    <2>1. PICK q \in Quotes \cup {NoPrice} :
            IF q = NoPrice
            THEN pc' = "closing" /\ UNCHANGED <<order, current>>
            ELSE CreateOrder(VirtualOrder(history, q), order)
        BY <1>3 DEF InitPair
    <2>2. q # NoPrice => VirtualOrder(history, q) # NoVirtual
        BY VirtualOrderType, ConstantsAssumption DEF TypeOK, Virtual
    <2> QED
        BY <1>3, <2>1, <2>2, CreateOrderEffect DEF InitPair
<1>4. CASE StatusCheck
    <2>1. PICK q \in Quotes \cup {NoPrice} :
            \/ pc' = "idle" /\ UNCHANGED <<order, current>>
            \/ pc' = "getorderstatus" /\ UNCHANGED <<order, current>>
               /\ order # NoId /\ ~disabled
            \/ q # NoPrice /\ CreateOrder(VirtualOrder(history, q), NoId)
        BY <1>4 DEF StatusCheck, PairEnabled
    <2>2. q # NoPrice => VirtualOrder(history, q) # NoVirtual
        BY VirtualOrderType, ConstantsAssumption DEF TypeOK, Virtual
    <2> QED
        BY <1>4, <2>1, <2>2, CreateOrderEffect DEF StatusCheck
<1>5. CASE StatusLive
    BY <1>5 DEF StatusLive
<1>6. CASE StatusFinished
    BY <1>6 DEF StatusFinished
<1>7. CASE AddressReply
    BY <1>7, RenewOrderEffect, FollowsType DEF AddressReply, TypeOK
<1>8. CASE StatusClosed
    BY <1>8, RenewOrderEffect, FollowsType DEF StatusClosed, TypeOK
<1>9. CASE StatusFailed
    BY <1>9 DEF StatusFailed
<1>10. CASE StatusLost
    BY <1>10, RenewOrderEffect, FollowsType DEF StatusLost, TypeOK
<1>11. CASE MakeAnswered
    BY <1>11 DEF MakeAnswered
<1>12. CASE MakeRejected
    BY <1>12 DEF MakeRejected
<1>13. CASE MakeUnanswered
    BY <1>13 DEF MakeUnanswered
<1>14. CASE CancelReturned
    BY <1>14, RenewOrderEffect, FollowsType DEF CancelReturned, TypeOK
<1>15. CASE CancelRaised
    BY <1>15 DEF CancelRaised
<1>16. CASE LeaveMain
    BY <1>16 DEF LeaveMain
<1>17. CASE CloseOrders
    BY <1>17 DEF CloseOrders, Forgotten
<1>18. CASE ExecuteMake
    BY <1>18 DEF ExecuteMake
<1>19. CASE Start
    BY <1>19 DEF Start
<1>20. CASE RequestStop
    BY <1>20 DEF RequestStop
<1>21. CASE Crash
    BY <1>21 DEF Crash, Forgotten
<1>22. CASE Exchange
    BY <1>22, ExchangeEffect DEF Exchange, TypeOK
<1>23. CASE Forget
    BY <1>23 DEF Forget, TypeOK
<1>24. CASE UNCHANGED vars
    BY <1>24 DEF vars
<1>25. CASE FetchTickers
    BY <1>25 DEF FetchTickers, MainLoopRuns
<1>26. CASE FetchInterrupted
    BY <1>26 DEF FetchInterrupted, Fetching
<1> QED
    BY <1>1, <1>2, <1>3, <1>4, <1>5, <1>6, <1>7, <1>8, <1>9, <1>10, <1>11, <1>12,
        <1>13, <1>14, <1>15, <1>16, <1>17, <1>18, <1>19, <1>20, <1>21, <1>22, <1>23, <1>24,
        <1>25, <1>26 DEF Next, BotStep, FetchEnds

-----------------------------------------------------------------------------
(* The virtual order and the tracked order. *)

\* Every step keeps the virtual order equal to, or an answer to, the last
\* completed order.
LEMMA FollowsStep == Inv /\ [Next]_vars => CurrentFollows'
<1> SUFFICES ASSUME Inv, [Next]_vars PROVE CurrentFollows'
    OBVIOUS
<1> USE DEF Inv
<1>1. CASE SweepOrders
    BY <1>1 DEF SweepOrders, CurrentFollows, Follows
<1>2. CASE SweepRaised
    BY <1>2 DEF SweepRaised, CurrentFollows, Follows
<1>3. CASE InitPair
    <2>1. PICK q \in Quotes \cup {NoPrice} :
            IF q = NoPrice THEN UNCHANGED current
            ELSE CreateOrder(VirtualOrder(history, q), order)
        BY <1>3 DEF InitPair
    <2> QED
        BY <1>3, <2>1, CreateOrderEffect DEF InitPair, CurrentFollows, Follows
<1>4. CASE StatusCheck
    <2>1. PICK q \in Quotes \cup {NoPrice} :
            \/ UNCHANGED current
            \/ q # NoPrice /\ CreateOrder(VirtualOrder(history, q), NoId)
        BY <1>4 DEF StatusCheck
    <2> QED
        BY <1>4, <2>1, CreateOrderEffect DEF StatusCheck, CurrentFollows, Follows
<1>5. CASE StatusLive
    BY <1>5 DEF StatusLive, CurrentFollows, Follows
<1>6. CASE StatusFinished
    BY <1>6 DEF StatusFinished, CurrentFollows, Follows
<1>7. CASE AddressReply
    BY <1>7, RenewOrderEffect DEF AddressReply, CurrentFollows, Follows, TypeOK
<1>8. CASE StatusClosed
    BY <1>8, RenewOrderEffect DEF StatusClosed, CurrentFollows, Follows, TypeOK
<1>9. CASE StatusFailed
    BY <1>9 DEF StatusFailed, CurrentFollows, Follows
<1>10. CASE StatusLost
    BY <1>10, RenewOrderEffect DEF StatusLost, CurrentFollows, Follows, TypeOK
<1>11. CASE MakeAnswered
    BY <1>11 DEF MakeAnswered, CurrentFollows, Follows
<1>12. CASE MakeRejected
    BY <1>12 DEF MakeRejected, CurrentFollows, Follows
<1>13. CASE MakeUnanswered
    BY <1>13 DEF MakeUnanswered, CurrentFollows, Follows
<1>14. CASE CancelReturned
    BY <1>14, RenewOrderEffect DEF CancelReturned, CurrentFollows, Follows, TypeOK
<1>15. CASE CancelRaised
    BY <1>15 DEF CancelRaised, CurrentFollows, Follows
<1>16. CASE LeaveMain
    BY <1>16 DEF LeaveMain, CurrentFollows, Follows
<1>17. CASE CloseOrders
    BY <1>17 DEF CloseOrders, Forgotten, CurrentFollows
<1>18. CASE ExecuteMake
    BY <1>18 DEF ExecuteMake, CurrentFollows, Follows
<1>19. CASE Start
    BY <1>19 DEF Start, CurrentFollows, PhaseShape
<1>20. CASE RequestStop
    BY <1>20 DEF RequestStop, CurrentFollows, Follows
<1>21. CASE Crash
    BY <1>21 DEF Crash, Forgotten, CurrentFollows
<1>22. CASE Exchange
    BY <1>22 DEF Exchange, CurrentFollows, Follows
<1>23. CASE Forget
    BY <1>23 DEF Forget, CurrentFollows, Follows
<1>24. CASE UNCHANGED vars
    BY <1>24 DEF vars, CurrentFollows, Follows
<1>25. CASE FetchTickers
    BY <1>25 DEF FetchTickers, MainLoopRuns, CurrentFollows, Follows
<1>26. CASE FetchInterrupted
    BY <1>26 DEF FetchInterrupted, Fetching, CurrentFollows, Follows
<1> QED
    BY <1>1, <1>2, <1>3, <1>4, <1>5, <1>6, <1>7, <1>8, <1>9, <1>10, <1>11, <1>12,
        <1>13, <1>14, <1>15, <1>16, <1>17, <1>18, <1>19, <1>20, <1>21, <1>22, <1>23, <1>24,
        <1>25, <1>26 DEF Next, BotStep, FetchEnds

\* Every step keeps the tracked order placed with the terms of the virtual
\* order.
LEMMA TermsStep == Inv /\ [Next]_vars => TrackedTerms'
<1> SUFFICES ASSUME Inv, [Next]_vars PROVE TrackedTerms'
    OBVIOUS
<1> USE DEF Inv
<1>1. CASE SweepOrders
    BY <1>1, SweepEffect DEF SweepOrders, TrackedTerms, PhaseShape, TypeOK
<1>2. CASE SweepRaised
    BY <1>2 DEF SweepRaised, TrackedTerms, PhaseShape
<1>3. CASE InitPair
    <2>1. PICK q \in Quotes \cup {NoPrice} :
            IF q = NoPrice THEN UNCHANGED order
            ELSE CreateOrder(VirtualOrder(history, q), order)
        BY <1>3 DEF InitPair
    <2> QED
        BY <1>3, <2>1, CreateOrderEffect DEF InitPair, TrackedTerms, PhaseShape
<1>4. CASE StatusCheck
    <2>1. PICK q \in Quotes \cup {NoPrice} :
            \/ pc' \in {"idle", "getorderstatus"} /\ UNCHANGED <<order, current>>
            \/ q # NoPrice /\ CreateOrder(VirtualOrder(history, q), NoId)
        BY <1>4 DEF StatusCheck
    <2> QED
        BY <1>4, <2>1, CreateOrderEffect
            DEF StatusCheck, TrackedTerms, PhaseShape
<1>5. CASE StatusLive
    BY <1>5 DEF StatusLive, TrackedTerms, PhaseShape
<1>6. CASE StatusFinished
    BY <1>6 DEF StatusFinished, TrackedTerms, PhaseShape
<1>7. CASE AddressReply
    BY <1>7, RenewOrderEffect DEF AddressReply, TrackedTerms, PhaseShape, TypeOK
<1>8. CASE StatusClosed
    BY <1>8, RenewOrderEffect DEF StatusClosed, TrackedTerms, PhaseShape, TypeOK
<1>9. CASE StatusFailed
    BY <1>9 DEF StatusFailed, TrackedTerms, PhaseShape
<1>10. CASE StatusLost
    BY <1>10, RenewOrderEffect DEF StatusLost, TrackedTerms, PhaseShape, TypeOK
<1>11. CASE MakeAnswered
    BY <1>11 DEF MakeAnswered, TrackedTerms, PhaseShape
<1>12. CASE MakeRejected
    BY <1>12 DEF MakeRejected, TrackedTerms, PhaseShape
<1>13. CASE MakeUnanswered
    BY <1>13 DEF MakeUnanswered, TrackedTerms, PhaseShape
<1>14. CASE CancelReturned
    BY <1>14, RenewOrderEffect DEF CancelReturned, TrackedTerms, PhaseShape, TypeOK
<1>15. CASE CancelRaised
    <2>1. /\ \A j \in OrderIds : book'[j].terms = book[j].terms
          /\ book'[order].st # "unused"
        <3>1. order \in OrderIds /\ "closed" \in OrderStatus
            BY <1>15 DEF CancelRaised, TypeOK, PhaseShape, OrderStatus
        <3> QED
            BY <1>15, <3>1, SetStatusType, ConstantsAssumption
                DEF CancelRaised, TrackedTerms, TypeOK
    <2> QED
        BY <1>15, <2>1 DEF CancelRaised, TrackedTerms, PhaseShape, TypeOK
<1>16. CASE LeaveMain
    BY <1>16 DEF LeaveMain, TrackedTerms, PhaseShape
<1>17. CASE CloseOrders
    BY <1>17 DEF CloseOrders, Forgotten, TrackedTerms
<1>18. CASE ExecuteMake
    BY <1>18 DEF ExecuteMake, TrackedTerms, PhaseShape, TypeOK
<1>19. CASE Start
    BY <1>19 DEF Start, TrackedTerms, PhaseShape
<1>20. CASE RequestStop
    BY <1>20 DEF RequestStop, TrackedTerms, PhaseShape
<1>21. CASE Crash
    BY <1>21 DEF Crash, Forgotten, TrackedTerms
<1>22. CASE Exchange
    BY <1>22, ExchangeEffect DEF Exchange, TrackedTerms, TypeOK
<1>23. CASE Forget
    BY <1>23 DEF Forget, TrackedTerms, TypeOK
<1>24. CASE UNCHANGED vars
    BY <1>24 DEF vars, TrackedTerms
<1>25. CASE FetchTickers
    BY <1>25 DEF FetchTickers, MainLoopRuns, TrackedTerms, PhaseShape
<1>26. CASE FetchInterrupted
    BY <1>26 DEF FetchInterrupted, Fetching, TrackedTerms, PhaseShape
<1> QED
    BY <1>1, <1>2, <1>3, <1>4, <1>5, <1>6, <1>7, <1>8, <1>9, <1>10, <1>11, <1>12,
        <1>13, <1>14, <1>15, <1>16, <1>17, <1>18, <1>19, <1>20, <1>21, <1>22, <1>23, <1>24,
        <1>25, <1>26 DEF Next, BotStep, FetchEnds

\* A step keeps the terms of an order, places the virtual order, or forgets it.
LEMMA TermsOnBook ==
    ASSUME Inv, [Next]_vars, NEW i \in OrderIds, book'[i].st # "unused"
    PROVE  \/ book[i].st # "unused" /\ book'[i].terms = book[i].terms
           \/ current # NoVirtual /\ book'[i].terms = current
<1> USE DEF Inv
<1>1. CASE ExecuteMake
    BY <1>1 DEF ExecuteMake, TypeOK, PhaseShape
<1>2. CASE SweepOrders
    <2>1. PICK S \in SUBSET Open :
            book' = [j \in OrderIds |->
                    IF j \in S THEN [book[j] EXCEPT !.st = "closed"] ELSE book[j]]
        BY <1>2 DEF SweepOrders
    <2>2. i \in S => book[i].st = "open"
        BY <2>1 DEF Open
    <2>3. book[i] \in Slot
        BY DEF TypeOK
    <2> QED
        BY <2>1, <2>2, <2>3 DEF Slot
<1>3. CASE Exchange
    BY <1>3, ExchangeEffect
<1>4. CASE Forget
    BY <1>4 DEF Forget, Unused, TypeOK
<1>5. CASE CancelReturned
    <2>1. order \in OrderIds /\ CancelExecutes
        BY <1>5 DEF CancelReturned, TypeOK, PhaseShape
    <2> QED
        BY <1>5, <2>1, CancelExecutesEffect, ConstantsAssumption
            DEF TrackedTerms, CancelReturned
<1>6. CASE CancelRaised
    <2>1. order \in OrderIds /\ "closed" \in OrderStatus
        BY <1>6 DEF CancelRaised, TypeOK, PhaseShape, OrderStatus
    <2> QED
        BY <1>6, <2>1, SetStatusType DEF CancelRaised
<1>7. CASE CloseOrders
    <2>1. CASE order = NoId
        BY <1>7, <2>1 DEF CloseOrders
    <2>2. CASE order # NoId
        BY <1>7, <2>2, CancelExecutesEffect DEF CloseOrders, TrackedTerms, TypeOK
    <2> QED
        BY <2>1, <2>2
<1>8. CASE UNCHANGED book
    BY <1>8
<1> QED
    BY <1>1, <1>2, <1>3, <1>4, <1>5, <1>6, <1>7, <1>8
        DEF Next, BotStep, FetchEnds, SweepRaised, FetchTickers, MainLoopRuns,
            FetchInterrupted, Fetching, InitPair, StatusCheck, StatusLive,
            StatusFinished, AddressReply, StatusClosed, StatusFailed, StatusLost,
            MakeAnswered, MakeRejected, MakeUnanswered, LeaveMain, Start,
            RequestStop, Crash, vars

\* So what is on the exchange has the terms of an order.
LEMMA KnownStep == Inv /\ [Next]_vars => KnownTerms'
<1> SUFFICES ASSUME Inv, [Next]_vars, NEW i \in OrderIds, book'[i].st # "unused"
             PROVE  book'[i].terms \in Virtual
    BY DEF KnownTerms
<1> QED
    BY TermsOnBook DEF Inv, KnownTerms, TypeOK

-----------------------------------------------------------------------------
(* No order is orphaned. *)

\* Every step keeps the open orders tracked, as long as nothing is lost.
LEMMA OrphanStep == Inv /\ [Next]_vars => Tracked'
<1> SUFFICES ASSUME Inv, [Next]_vars, pc' \in Trading, ~lossy',
                    ~shutdown' \/ pc' = "makeorder",
                    NEW j \in OrderIds, book'[j].st = "open"
             PROVE  j \in {order', last'}
    BY DEF Tracked, Open
<1> USE DEF Inv, Trading, Phases, Down
<1>1. pc \in Trading /\ ~lossy /\ (~shutdown \/ pc = "makeorder") /\ book[j].st = "open"
        => j \in {order, last}
    BY DEF Tracked, Open
<1>2. book[j] \in Slot
    BY DEF TypeOK
<1>3. CASE SweepOrders
    BY <1>3, SweepEffect DEF SweepOrders
<1>4. CASE SweepRaised
    BY <1>4, <1>1 DEF SweepRaised, PhaseShape
<1>5. CASE InitPair
    <2>1. PICK q \in Quotes \cup {NoPrice} :
            \/ pc' = "closing"
            \/ CreateOrder(VirtualOrder(history, q), order)
        BY <1>5 DEF InitPair
    <2> QED
        BY <1>5, <1>1, <2>1, CreateOrderEffect DEF InitPair, PhaseShape
<1>6. CASE StatusCheck
    <2>1. PICK q \in Quotes \cup {NoPrice} :
            \/ UNCHANGED order
            \/ order = NoId /\ CreateOrder(VirtualOrder(history, q), NoId)
        BY <1>6 DEF StatusCheck
    <2> QED
        BY <1>6, <1>1, <2>1, CreateOrderEffect DEF StatusCheck
<1>7. CASE StatusLive
    BY <1>7, <1>1 DEF StatusLive, PhaseShape
<1>8. CASE StatusFinished
    BY <1>8, <1>1 DEF StatusFinished, PhaseShape
<1>9. CASE AddressReply
    <2>1. j # order /\ last = NoId
        BY <1>9 DEF AddressReply, PhaseShape
    <2> QED
        BY <1>9, <1>1, <2>1, RenewOrderEffect DEF AddressReply, TypeOK
<1>10. CASE StatusClosed
    BY <1>10, <1>1, RenewOrderEffect DEF StatusClosed, PhaseShape, TypeOK
<1>11. CASE StatusFailed
    BY <1>11, <1>1 DEF StatusFailed, PhaseShape
<1>12. CASE StatusLost
    BY <1>12, RenewOrderEffect DEF StatusLost, TypeOK
<1>13. CASE MakeAnswered
    BY <1>13, <1>1 DEF MakeAnswered, PhaseShape
<1>14. CASE MakeRejected
    BY <1>14, <1>1 DEF MakeRejected, PhaseShape
<1>15. CASE MakeUnanswered
    BY <1>15, <1>1 DEF MakeUnanswered, PhaseShape
<1>16. CASE CancelReturned
    <2>1. order \in OrderIds /\ last = NoId
        BY <1>16 DEF CancelReturned, TypeOK, PhaseShape
    <2>2. CancelExecutes /\ UNCHANGED <<shutdown, last>> /\ pc \in Trading
        BY <1>16 DEF CancelReturned
    <2>3. book[j].st = "open" /\ j # order /\ ~lossy
        BY <2>1, <2>2, CancelExecutesEffect
    <2>4. ~shutdown
        BY <1>16, RenewOrderEffect DEF CancelReturned, TypeOK
    <2> QED
        BY <1>1, <2>1, <2>2, <2>3, <2>4
<1>17. CASE CancelRaised
    <2>1. order \in OrderIds /\ "closed" \in OrderStatus
        BY <1>17 DEF CancelRaised, TypeOK, PhaseShape, OrderStatus
    <2>2. j # order => book'[j] = book[j]
        BY <1>17, <2>1, SetStatusType DEF CancelRaised
    <2> QED
        BY <1>17, <1>1, <2>2 DEF CancelRaised
<1>18. CASE LeaveMain
    BY <1>18, <1>1 DEF LeaveMain, PhaseShape
<1>19. CASE CloseOrders
    BY <1>19 DEF CloseOrders
<1>20. CASE ExecuteMake
    BY <1>20, <1>1 DEF ExecuteMake, PhaseShape, TypeOK
<1>21. CASE Start
    BY <1>21, <1>1 DEF Start, PhaseShape
<1>22. CASE RequestStop
    BY <1>22, <1>1 DEF RequestStop, PhaseShape
<1>23. CASE Crash
    BY <1>23 DEF Crash
<1>24. CASE Exchange
    BY <1>24, <1>1, ExchangeEffect DEF Exchange
<1>25. CASE Forget
    BY <1>25, <1>1 DEF Forget, Unused, TypeOK
<1>26. CASE UNCHANGED vars
    BY <1>26, <1>1 DEF vars
<1>27. CASE FetchTickers
    BY <1>27, <1>1 DEF FetchTickers, MainLoopRuns, PhaseShape
<1>28. CASE FetchInterrupted
    BY <1>28, <1>1 DEF FetchInterrupted, Fetching, PhaseShape
<1> QED
    BY <1>3, <1>4, <1>5, <1>6, <1>7, <1>8, <1>9, <1>10, <1>11, <1>12,
        <1>13, <1>14, <1>15, <1>16, <1>17, <1>18, <1>19, <1>20, <1>21, <1>22, <1>23, <1>24, <1>25, <1>26,
        <1>27, <1>28 DEF Next, BotStep, FetchEnds

\* Only a call that creates an order adds to the open ones, or to the active ones;
\* and an order that is open goes on to a swap, never back.
LEMMA OnlyMakeOpens ==
    ASSUME Inv, [Next]_vars, ~ExecuteMake
    PROVE  Open' \subseteq Open /\ Active' \subseteq Active
<1> USE DEF Inv
<1> SUFFICES ASSUME NEW i \in OrderIds, book'[i].st \in {"open", "swapping"}
             PROVE  \/ book'[i].st = book[i].st
                    \/ book[i].st = "open" /\ book'[i].st = "swapping"
    BY DEF Open, Active
<1>1. CASE SweepOrders
    <2>1. PICK S \in SUBSET Open :
            book' = [j \in OrderIds |->
                    IF j \in S THEN [book[j] EXCEPT !.st = "closed"] ELSE book[j]]
        BY <1>1 DEF SweepOrders
    <2> QED
        BY <2>1 DEF Open
<1>2. CASE Exchange
    BY <1>2, ExchangeEffect
<1>3. CASE Forget
    BY <1>3 DEF Forget, Unused, TypeOK
<1>4. CASE CancelReturned
    <2>1. order \in OrderIds /\ CancelExecutes
        BY <1>4 DEF CancelReturned, TypeOK, PhaseShape
    <2> QED
        BY <2>1, CancelExecutesEffect
<1>5. CASE CancelRaised
    <2>1. order \in OrderIds /\ "closed" \in OrderStatus
        BY <1>5 DEF CancelRaised, TypeOK, PhaseShape, OrderStatus
    <2> QED
        BY <1>5, <2>1, SetStatusType DEF CancelRaised
<1>6. CASE CloseOrders
    BY <1>6, CancelExecutesEffect DEF CloseOrders, TypeOK
<1>7. CASE UNCHANGED book
    BY <1>7
<1> QED
    BY <1>1, <1>2, <1>3, <1>4, <1>5, <1>6, <1>7
        DEF Next, BotStep, FetchEnds, SweepRaised, FetchTickers, MainLoopRuns,
            FetchInterrupted, Fetching, InitPair, StatusCheck, StatusLive,
            StatusFinished, AddressReply, StatusClosed, StatusFailed, StatusLost,
            MakeAnswered, MakeRejected, MakeUnanswered, LeaveMain, Start,
            RequestStop, Crash, vars

\* Only a complete sweep, which leaves nothing open, forgets that a call was lost.
LEMMA OnlySweepClears ==
    ASSUME Inv, [Next]_vars, lossy, ~lossy'
    PROVE  Open' = {}
<1> USE DEF Inv
<1>1. SweepOrders
    <2>1. ~CancelReturned /\ ~CloseOrders
        BY CancelExecutesEffect DEF CancelReturned, CloseOrders, TypeOK, PhaseShape
    <2>2. ~UNCHANGED lossy /\ lossy' # TRUE
        OBVIOUS
    <2> QED
        BY <2>1, <2>2
            DEF Next, BotStep, FetchEnds, SweepRaised, FetchTickers, MainLoopRuns,
                FetchInterrupted, Fetching, InitPair, StatusCheck, StatusLive,
                StatusFinished, AddressReply, StatusClosed, StatusFailed,
                StatusLost, MakeAnswered, MakeRejected, MakeUnanswered,
                CancelRaised, LeaveMain, ExecuteMake, Start, RequestStop, Crash,
                Exchange, Forget, vars
<1> QED
    BY <1>1, SweepEffect DEF Open

\* Every step keeps the order book down to one order, as long as nothing is lost.
LEMMA OneOpenStep == Inv /\ [Next]_vars => OneOpen'
<1> SUFFICES ASSUME Inv, [Next]_vars, ~lossy' PROVE \A i, j \in Open' : i = j
    BY DEF OneOpen
<1> USE DEF Inv
<1>1. CASE lossy
    BY <1>1, OnlySweepClears
<1>2. CASE ~lossy /\ ExecuteMake
    <2>1. last = NoId /\ order = NoId
        BY <1>2 DEF ExecuteMake, PhaseShape
    <2>2. Open = {}
        BY <1>2, <2>1, ConstantsAssumption
            DEF ExecuteMake, Tracked, Open, Trading, Phases, Down
    <2> QED
        BY <1>2, <2>2 DEF ExecuteMake, Open, TypeOK
<1>3. CASE ~lossy /\ ~ExecuteMake
    BY <1>3, OnlyMakeOpens DEF OneOpen
<1> QED
    BY <1>1, <1>2, <1>3

-----------------------------------------------------------------------------
(* Theorems. *)

\* In every state the bot and the exchange can reach, the phase says what is
\* tracked, the virtual order answers the history, the tracked order has the
\* terms of the virtual order, and no open order is orphaned.
THEOREM Invariance == Spec => []Inv
<1>1. Inv /\ [Next]_vars => Inv'
    BY TypeStep, PhaseStep, FollowsStep, TermsStep, KnownStep, OrphanStep, OneOpenStep DEF Inv
<1> QED
    BY InitInv, <1>1, PTL DEF Spec

\* Every variable always holds a value of its kind.
THEOREM TypeCorrect == Spec => []TypeOK
<1>1. Inv => TypeOK
    BY DEF Inv
<1> QED
    BY Invariance, <1>1, PTL

\* However status checks, cancels, replacements, stops, crashes and restarts are
\* interleaved with the exchange, as long as no RPC outcome is lost the pair never
\* has two open orders, and without a stop its only one is the one it tracks.
THEOREM OrdersStayTracked == Spec => []OpenOrdersTracked
<1>1. Inv => OpenOrdersTracked
    <2> SUFFICES ASSUME Inv, ~lossy PROVE Cardinality(Open) <= 1
        BY DEF Inv, Tracked, OpenOrdersTracked
    <2>1. CASE Open = {}
        BY <2>1, FS_EmptySet
    <2>2. CASE Open # {}
        <3>1. PICK i : i \in Open
            BY <2>2
        <3>2. Open = {i}
            BY <3>1 DEF Inv, OneOpen
        <3>3. Cardinality({i}) = 1
            BY FS_Singleton
        <3> QED
            BY <3>2, <3>3
    <2> QED
        BY <2>1, <2>2
<1> QED
    BY Invariance, <1>1, PTL

\* A call that creates an order gets it tracked, unless an earlier one is lost.
LEMMA LastIsKept ==
    ASSUME Inv, [Next]_vars, last # NoId, pc' \in Trading, ~lossy'
    PROVE  last \in {order', last'}
<1>1. pc = "makeorder"
    BY DEF Inv, PhaseShape
<1> QED
    BY <1>1 DEF Next, BotStep, FetchEnds, SweepOrders, SweepRaised, FetchTickers,
        MainLoopRuns, FetchInterrupted, Fetching, InitPair, StatusCheck, StatusLive,
        StatusFinished, AddressReply, StatusClosed, StatusFailed, StatusLost,
        ExecuteMake, MakeAnswered, MakeRejected, MakeUnanswered, CancelReturned,
        CancelRaised, LeaveMain, CloseOrders, Start, RequestStop, Crash, Exchange,
        Forget, Trading, Down, vars

\* A bot that trades undisturbed loses sight of an order only in the race between a
\* cancel and a taker. With OrdersStayTracked this is what holds of the documented
\* single active order.
THEOREM SightIsLostInRace == Spec => SightLostInRace
<1>1. Inv /\ [Next]_vars =>
        [(pc \in Trading /\ pc' \in Trading /\ ~lossy' /\ ~shutdown) =>
            \A i \in OutOfSight' \ OutOfSight :
                i = order /\ pc = "cancelorder" /\ book[i].st = "swapping"]_vars
    <2> SUFFICES ASSUME Inv, [Next]_vars, pc \in Trading, pc' \in Trading,
                        ~lossy', ~shutdown, NEW i \in OutOfSight' \ OutOfSight
                 PROVE  i = order /\ pc = "cancelorder" /\ book[i].st = "swapping"
        OBVIOUS
    <2> USE DEF Inv
    <2>1. i \in OrderIds /\ i \in Active' /\ i # order' /\ i # last' /\ i # NoId
        BY ConstantsAssumption DEF OutOfSight, Active
    <2>2. i \in Active /\ i \in {order, last}
        <3>1. CASE ExecuteMake
            BY <2>1, <3>1 DEF ExecuteMake, Active, OutOfSight, TypeOK
        <3>2. CASE ~ExecuteMake
            BY <2>1, <3>2, OnlyMakeOpens DEF OutOfSight
        <3> QED
            BY <3>1, <3>2
    <2>3. i # last
        BY <2>1, LastIsKept
    <2>4. i = order
        BY <2>2, <2>3
    <2>5. CASE CancelReturned
        <3>1. book[i].st = "open" => book'[i].st = "closed"
            BY <2>1, <2>4, <2>5, CancelExecutesEffect DEF CancelReturned
        <3> QED
            BY <2>1, <2>2, <2>4, <2>5, <3>1 DEF CancelReturned, Active
    <2>6. CASE UNCHANGED order
        BY <2>1, <2>2, <2>4, <2>6
    <2>7. CASE InitPair
        BY <2>1, <2>2, <2>4, <2>7 DEF InitPair, PhaseShape
    <2>8. CASE StatusCheck
        BY <2>1, <2>2, <2>4, <2>8 DEF StatusCheck
    <2>9. CASE AddressReply
        BY <2>1, <2>2, <2>4, <2>9 DEF AddressReply, PhaseShape, Active
    <2>10. CASE StatusClosed
        BY <2>1, <2>2, <2>4, <2>10 DEF StatusClosed, Active
    <2>11. ~StatusLost
        BY DEF StatusLost
    <2>12. CASE MakeAnswered \/ MakeRejected
        BY <2>1, <2>2, <2>4, <2>12 DEF MakeAnswered, MakeRejected, PhaseShape
    <2>13. ~Crash /\ ~CloseOrders
        BY DEF Crash, CloseOrders, Trading, Down
    <2> QED
        BY <2>5, <2>6, <2>7, <2>8, <2>9, <2>10, <2>11, <2>12, <2>13
            DEF Next, BotStep, FetchEnds, SweepOrders, SweepRaised, FetchTickers,
                FetchInterrupted, StatusLive, StatusFinished, StatusFailed,
                ExecuteMake, MakeUnanswered, CancelRaised, LeaveMain, Start,
                RequestStop, Exchange, Forget, vars
<1> QED
    BY Invariance, <1>1, PTL DEF Spec, SightLostInRace

\* A running bot only changes its history by recording a finished order.
LEMMA OnlyFinishedBooks ==
    ASSUME [Next]_vars, pc \notin Down, pc' \notin Down, history' # history
    PROVE  StatusFinished
<1>1. CASE SweepOrders \/ SweepRaised \/ FetchTickers \/ FetchEnds
    BY <1>1 DEF FetchEnds, SweepOrders, SweepRaised, FetchTickers, MainLoopRuns,
        FetchInterrupted, Fetching, InitPair, StatusCheck
<1>2. CASE StatusLive \/ AddressReply \/ StatusClosed \/ StatusFailed \/ StatusLost
    BY <1>2 DEF StatusLive, AddressReply, StatusClosed, StatusFailed, StatusLost
<1>3. CASE MakeAnswered \/ MakeRejected \/ MakeUnanswered \/ ExecuteMake
    BY <1>3 DEF MakeAnswered, MakeRejected, MakeUnanswered, ExecuteMake
<1>4. CASE CancelReturned \/ CancelRaised \/ LeaveMain \/ CloseOrders
    BY <1>4 DEF CancelReturned, CancelRaised, LeaveMain, CloseOrders, Down
<1>5. CASE Start \/ RequestStop \/ Crash \/ Exchange \/ Forget
    BY <1>5 DEF Start, RequestStop, Crash, Exchange, Forget, Down
<1>6. CASE UNCHANGED vars
    BY <1>6 DEF vars
<1> QED
    BY <1>1, <1>2, <1>3, <1>4, <1>5, <1>6 DEF Next, BotStep, FetchEnds

\* The trade a running bot records is the one the exchange executed under the
\* tracked id: no renewal of the virtual order slips in between.
THEOREM BookingIsFaithful == Spec => BookedIsTraded
<1>1. Inv /\ [Next]_vars =>
        [(pc \notin Down /\ pc' \notin Down /\ history' # history) =>
            book[order] = [st |-> "finished", terms |-> history']]_vars
    <2> SUFFICES ASSUME Inv, [Next]_vars,
                        pc \notin Down, pc' \notin Down, history' # history
                 PROVE  book[order] = [st |-> "finished", terms |-> history']
        OBVIOUS
    <2>1. StatusFinished
        BY OnlyFinishedBooks
    <2>2. order \in OrderIds /\ book[order] \in Slot
        BY <2>1 DEF StatusFinished, Inv, TypeOK
    <2>3. book[order].st = "finished" /\ book[order].terms = current
        BY <2>1 DEF StatusFinished, Inv, TrackedTerms
    <2> QED
        BY <2>1, <2>2, <2>3 DEF StatusFinished, Slot
<1> QED
    BY Invariance, <1>1, PTL DEF Spec, BookedIsTraded

\* What a running bot records answers what it recorded before.
LEMMA CompletedFollows ==
    ASSUME Inv, [Next]_vars, NEW side, Completes(side)
    PROVE  /\ history' \in Virtual
           /\ Follows(history', history)
<1>1. StatusFinished
    BY OnlyFinishedBooks DEF Completes
<1>2. history' = current /\ history' # history
    BY <1>1 DEF StatusFinished, Completes
<1>3. current # NoVirtual
    BY <1>1 DEF StatusFinished, Inv, PhaseShape
<1> QED
    BY <1>2, <1>3 DEF Inv, CurrentFollows, TypeOK

\* A running PingPong bot records a sell, then a buy, then a sell, for every
\* market and whatever fails in between.
THEOREM SidesAlternate == Strategy = "pingpong" => (Spec => HistoryAlternates)
<1> SUFFICES ASSUME Strategy = "pingpong" PROVE Spec => HistoryAlternates
    OBVIOUS
<1>1. Inv /\ [Next]_vars =>
        [/\ Completes("BUY") => history # NoVirtual /\ history.side = "SELL"
         /\ Completes("SELL") => history = NoVirtual \/ history.side = "BUY"]_vars
    <2> SUFFICES ASSUME Inv, [Next]_vars
                 PROVE
            /\ Completes("BUY") => history # NoVirtual /\ history.side = "SELL"
            /\ Completes("SELL") => history = NoVirtual \/ history.side = "BUY"
        OBVIOUS
    <2>1. ASSUME NEW side, Completes(side)
          PROVE  IF history # NoVirtual /\ history.side = "SELL"
                 THEN side = "BUY" ELSE side = "SELL"
        BY <2>1, CompletedFollows
            DEF Completes, Follows, VirtualOrder, SellOrder, BuyOrder
    <2>2. history # NoVirtual => history.side \in {"SELL", "BUY"}
        BY DEF Inv, TypeOK, Virtual
    <2> QED
        BY <2>1, <2>2
<1> QED
    BY Invariance, <1>1, PTL DEF Spec, HistoryAlternates

\* A buy a running bot records costs at most the sell before it less the
\* spread, for every spread and every path of the market in between.
THEOREM SpreadGuaranteed == Spec => GuaranteedSpread
<1>1. Inv /\ [Next]_vars =>
        [Completes("BUY") =>
            100 * history'.price <= (100 - Spread) * history.price]_vars
    <2> SUFFICES ASSUME Inv, [Next]_vars, Completes("BUY")
                 PROVE  100 * history'.price <= (100 - Spread) * history.price
        OBVIOUS
    <2>1. history'.side = "BUY" /\ Follows(history', history)
        BY CompletedFollows DEF Completes
    <2>2. PICK q \in Quotes : history' = VirtualOrder(history, q)
        BY <2>1 DEF Follows
    <2>3. history # NoVirtual /\ history' = BuyOrder(history, q)
        BY <2>1, <2>2 DEF VirtualOrder, SellOrder
    <2> QED
        BY <2>3, BuyBelowSell DEF Inv, TypeOK
<1> QED
    BY Invariance, <1>1, PTL DEF Spec, GuaranteedSpread

\* A disabled pair, whether its order failed, was rejected, or completed the
\* seller's sale, never places another order in the life of its process.
THEOREM DisabledStaysDisabled == Spec => DisabledIsFinal
<1>1. Inv /\ [Next]_vars =>
        [(disabled /\ pc' \notin Down) =>
            disabled' /\ \A i \in OrderIds :
                book[i].st = "unused" => book'[i].st = "unused"]_vars
    <2> SUFFICES ASSUME Inv, [Next]_vars, disabled, pc' \notin Down
                 PROVE  /\ disabled'
                        /\ \A i \in OrderIds :
                            book[i].st = "unused" => book'[i].st = "unused"
        OBVIOUS
    <2>1. pc \in {"idle", "tickers", "closing"}
        BY DEF Inv, PhaseShape
    <2>2. CASE FetchTickers \/ StatusCheck \/ FetchInterrupted
        BY <2>2 DEF FetchTickers, StatusCheck, FetchInterrupted, PairEnabled
    <2>3. CASE LeaveMain \/ RequestStop
        BY <2>3 DEF LeaveMain, RequestStop
    <2>4. CASE Exchange
        BY <2>4, ExchangeEffect DEF Exchange, Inv
    <2>5. CASE Forget
        BY <2>5 DEF Forget, Unused, Inv, TypeOK
    <2>6. CASE UNCHANGED vars
        BY <2>6 DEF vars
    <2>7. ~(CloseOrders \/ Crash)
        BY DEF CloseOrders, Crash, Down
    <2>8. ~(SweepOrders \/ SweepRaised \/ InitPair \/ Start)
        BY <2>1 DEF SweepOrders, SweepRaised, InitPair, Start, Down
    <2>9. ~(StatusLive \/ StatusFinished \/ AddressReply \/ StatusClosed
            \/ StatusFailed \/ StatusLost)
        BY <2>1 DEF StatusLive, StatusFinished, AddressReply, StatusClosed,
            StatusFailed, StatusLost
    <2>10. ~(MakeAnswered \/ MakeRejected \/ MakeUnanswered \/ CancelReturned
            \/ CancelRaised \/ ExecuteMake)
        BY <2>1 DEF MakeAnswered, MakeRejected, MakeUnanswered, CancelReturned,
            CancelRaised, ExecuteMake
    <2> QED
        BY <2>2, <2>3, <2>4, <2>5, <2>6, <2>7, <2>8, <2>9, <2>10 DEF Next, BotStep, FetchEnds
<1> QED
    BY Invariance, <1>1, PTL DEF Spec, DisabledIsFinal

-----------------------------------------------------------------------------
(* The floor of the seller. *)

\* The seller's virtual order is not priced below its base, and one that is being
\* placed has its base from the prices of this cycle.
SellerInv ==
    /\ current # NoVirtual => current.org <= current.price
    /\ pc = "makeorder" => price \in Quotes /\ current = SellOrder(price)

\* A base price k that brings f brings it at a price x that is within r percent of
\* it, up to a unit.
LEMMA FloorArithmetic ==
    ASSUME NEW f \in Nat, NEW k \in Nat, NEW x \in Nat, NEW r \in Nat, NEW t \in Nat \ {0},
           f < (k + 1) * t, 100 * (k + 1) <= r * (x + 1)
    PROVE  100 * f < r * (x + 1) * t
<1> DEFINE y == r * (x + 1)
<1>1. y \in Nat /\ (k + 1) * t \in Nat
    OBVIOUS
<1>2. 100 * (k + 1) <= y
    OBVIOUS
<1> HIDE DEF y
<1>3. 100 * (k + 1) * t <= y * t /\ y * t \in Nat
    BY <1>1, <1>2
<1>4. 100 * f < 100 * ((k + 1) * t)
    BY <1>1
<1>5. 100 * ((k + 1) * t) = 100 * (k + 1) * t
    OBVIOUS
<1> QED
    BY <1>1, <1>3, <1>4, <1>5 DEF y

\* What the seller places, or keeps after a look at the prices, brings its floor.
LEMMA CloseToBase ==
    ASSUME Strategy = "basic_seller", NEW q \in Quotes, NEW c \in Virtual,
           100 * (SellBase(q) + 1) <= (100 + Tolerance) * (c.price + 1)
    PROVE  BringsFloor(c, q)
<1>1. SellBase(q) \in Nat /\ c.price \in Nat /\ q.taker \in Nat \ {0}
    BY ConstantsAssumption, SellBaseNat DEF Virtual
<1>2. Precision \in Nat /\ Floor \in Nat /\ 100 + Tolerance \in Nat
    BY ConstantsAssumption
<1>3. Precision * Floor \in Nat /\ 100 * (Precision * Floor) = 100 * Precision * Floor
    BY <1>2
<1>4. 100 * (Precision * Floor) < (100 + Tolerance) * (c.price + 1) * q.taker
    BY <1>1, <1>2, <1>3, SellBaseBringsFloor, FloorArithmetic
<1> QED
    BY <1>3, <1>4 DEF BringsFloor

\* The seller places an order that brings its floor.
LEMMA PlacedBringsFloor ==
    ASSUME Strategy = "basic_seller", NEW q \in Quotes
    PROVE  /\ SellOrder(q).org <= SellOrder(q).price
           /\ BringsFloor(SellOrder(q), q)
<1>1. SellBase(q) \in Nat /\ Markup(SellBase(q)) \in Nat /\ SellBase(q) <= Markup(SellBase(q))
    BY SellBaseNat, MarkupRaises
<1>2. SellOrder(q) \in Virtual /\ SellOrder(q).price = Markup(SellBase(q))
    BY <1>1 DEF SellOrder, Virtual
<1>3. \A k, x, r \in Nat : k <= x => 100 * (k + 1) <= (100 + r) * (x + 1)
    OBVIOUS
<1>4. Tolerance \in Nat
    BY ConstantsAssumption
<1>5. 100 * (SellBase(q) + 1) <= (100 + Tolerance) * (SellOrder(q).price + 1)
    BY <1>1, <1>2, <1>3, <1>4
<1> QED
    BY <1>1, <1>2, <1>5, CloseToBase DEF SellOrder

\* An order that the seller finds in range brings its floor.
LEMMA KeptBringsFloor ==
    ASSUME Strategy = "basic_seller", NEW q \in Quotes, NEW c \in Virtual, NEW h,
           c.org <= c.price, PriceInRange(c, h, q)
    PROVE  BringsFloor(c, q)
<1>1. 100 * SellBase(q) < (100 + Tolerance) * c.org
    BY DEF PriceInRange, PriceLocked, WithinTolerance
<1>2. SellBase(q) \in Nat /\ Tolerance \in Nat /\ c.org \in Nat /\ c.price \in Nat
    BY ConstantsAssumption, SellBaseNat DEF Virtual
<1>3. (100 + Tolerance) * c.org <= (100 + Tolerance) * c.price
    BY <1>2
<1>4. (100 + Tolerance) * (c.price + 1) = (100 + Tolerance) * c.price + 100 + Tolerance
    BY <1>2
<1>5. (100 + Tolerance) * c.org \in Nat /\ (100 + Tolerance) * c.price \in Nat
    BY <1>2
<1>6. 100 * (SellBase(q) + 1) <= (100 + Tolerance) * (c.price + 1)
    BY <1>1, <1>2, <1>3, <1>4, <1>5
<1> QED
    BY <1>6, CloseToBase

\* A step leaves the virtual order alone, renews it or forgets it.
LEMMA CurrentStep ==
    ASSUME Inv, [Next]_vars, current' # current, current' # NoVirtual
    PROVE  Follows(current', history)
<1>1. CASE InitPair
    BY <1>1, CreateOrderEffect DEF InitPair, Follows
<1>2. CASE StatusCheck
    <2>1. PICK q \in Quotes \cup {NoPrice} :
            \/ UNCHANGED current
            \/ q # NoPrice /\ CreateOrder(VirtualOrder(history, q), NoId)
        BY <1>2 DEF StatusCheck
    <2> QED
        BY <2>1, CreateOrderEffect DEF Follows
<1>3. CASE AddressReply
    BY <1>3, RenewOrderEffect DEF AddressReply, Inv, TypeOK
<1>4. CASE StatusClosed
    BY <1>4, RenewOrderEffect DEF StatusClosed, Inv, TypeOK
<1>5. CASE StatusLost
    BY <1>5, RenewOrderEffect DEF StatusLost, Inv, TypeOK
<1>6. CASE CancelReturned
    BY <1>6, RenewOrderEffect DEF CancelReturned, Inv, TypeOK
<1>7. CASE SweepOrders \/ SweepRaised \/ FetchTickers \/ FetchInterrupted
    BY <1>7 DEF SweepOrders, SweepRaised, FetchTickers, FetchInterrupted
<1>13. CASE StatusLive \/ StatusFinished \/ StatusFailed
    BY <1>13 DEF StatusLive, StatusFinished, StatusFailed
<1>8. CASE MakeAnswered \/ MakeRejected \/ MakeUnanswered \/ ExecuteMake
    BY <1>8 DEF MakeAnswered, MakeRejected, MakeUnanswered, ExecuteMake
<1>9. CASE CancelRaised \/ LeaveMain \/ Start \/ RequestStop
    BY <1>9 DEF CancelRaised, LeaveMain, Start, RequestStop
<1>10. CASE Exchange \/ Forget
    BY <1>10 DEF Exchange, Forget
<1>11. CASE CloseOrders \/ Crash
    BY <1>11 DEF CloseOrders, Crash, Forgotten
<1>12. CASE UNCHANGED vars
    BY <1>12 DEF vars
<1> QED
    BY <1>1, <1>2, <1>3, <1>4, <1>5, <1>6, <1>7, <1>8, <1>9, <1>10, <1>11, <1>12,
        <1>13 DEF Next, BotStep, FetchEnds

\* Every step keeps what the seller's placing and keeping rely on.
LEMMA SellerStep ==
    ASSUME Strategy = "basic_seller", Inv, SellerInv, [Next]_vars
    PROVE  SellerInv'
<1> USE DEF Inv
<1>1. current' # NoVirtual => current'.org <= current'.price
    <2>1. CASE current' = current
        BY <2>1 DEF SellerInv
    <2>2. CASE current' # current /\ current' # NoVirtual
        BY <2>2, CurrentStep, PlacedBringsFloor DEF Follows, VirtualOrder
    <2> QED
        BY <2>1, <2>2
<1>2. ASSUME pc' = "makeorder" PROVE price' \in Quotes /\ current' = SellOrder(price')
    <2>1. CASE pc = "makeorder"
        <3>1. UNCHANGED <<price, current>>
            BY <1>2, <2>1 DEF Next, BotStep, FetchEnds, SweepOrders, SweepRaised,
                FetchTickers, MainLoopRuns, FetchInterrupted, Fetching, InitPair,
                StatusCheck, StatusLive, StatusFinished, AddressReply, StatusClosed,
                StatusFailed, StatusLost, ExecuteMake, MakeAnswered, MakeRejected,
                MakeUnanswered, CancelReturned, CancelRaised, LeaveMain,
                CloseOrders, Start, RequestStop, Crash, Exchange, Forget, vars
        <3> QED
            BY <2>1, <3>1 DEF SellerInv
    <2>2. CASE InitPair
        <3>1. PICK q \in Quotes :
                price' = q /\ CreateOrder(VirtualOrder(history, q), order)
            BY <1>2, <2>2 DEF InitPair
        <3> QED
            BY <3>1, CreateOrderEffect DEF VirtualOrder
    <2>3. CASE StatusCheck
        <3>1. PICK q \in Quotes :
                price' = q /\ CreateOrder(VirtualOrder(history, q), NoId)
            BY <1>2, <2>3 DEF StatusCheck
        <3> QED
            BY <3>1, CreateOrderEffect DEF VirtualOrder
    <2>4. ASSUME NEW o, RenewOrder(history, o), UNCHANGED price
          PROVE  price' \in Quotes /\ current' = SellOrder(price')
        BY <1>2, <2>4, RenewOrderEffect DEF VirtualOrder, TypeOK
    <2>5. CASE StatusClosed \/ StatusLost \/ CancelReturned
        BY <2>4, <2>5 DEF StatusClosed, StatusLost, CancelReturned
    <2>6. ~AddressReply
        BY <1>2 DEF AddressReply
    <2> QED
        BY <1>2, <2>1, <2>2, <2>3, <2>5, <2>6
            DEF Next, BotStep, FetchEnds, SweepOrders, SweepRaised, FetchTickers,
                FetchInterrupted, StatusLive, StatusFinished, StatusFailed,
                ExecuteMake, MakeAnswered, MakeRejected, MakeUnanswered,
                CancelRaised, LeaveMain, CloseOrders, Start, RequestStop, Crash,
                Exchange, Forget, Forgotten, vars
<1> QED
    BY <1>1, <1>2 DEF SellerInv

\* A seller leaves a status check or a placement with an open order that brings its
\* floor in USD at the prices of the cycle, within the tolerance of the drift, for
\* every market of the two tokens, every floor, offset and tolerance.
THEOREM FloorRespected == Strategy = "basic_seller" => (Spec => RespectsFloor)
<1> SUFFICES ASSUME Strategy = "basic_seller" PROVE Spec => RespectsFloor
    OBVIOUS
<1>1. Init => SellerInv
    BY DEF Init, SellerInv
<1>2. Inv /\ SellerInv /\ [Next]_vars => SellerInv'
    BY SellerStep
<1>3. Inv /\ SellerInv /\ [Next]_vars =>
        [/\ pc \in {"getorderstatus", "makeorder"} /\ pc' = "idle" /\ price # NoPrice
         /\ order' # NoId /\ book'[order'].st = "open"
         => BringsFloor(book'[order'].terms, price)]_vars
    <2> SUFFICES ASSUME Inv, SellerInv, [Next]_vars,
                        pc \in {"getorderstatus", "makeorder"}, pc' = "idle",
                        price # NoPrice, order' # NoId, book'[order'].st = "open"
                 PROVE  BringsFloor(book'[order'].terms, price)
        OBVIOUS
    <2> USE DEF Inv
    <2>1. CASE MakeAnswered
        <3>1. order' = last /\ last # NoId /\ book' = book
            BY <2>1 DEF MakeAnswered
        <3>2. book[last].terms = SellOrder(price) /\ price \in Quotes
            BY <2>1, <3>1 DEF MakeAnswered, TrackedTerms, SellerInv
        <3> QED
            BY <3>1, <3>2, PlacedBringsFloor
    <2>2. CASE StatusLive
        <3>1. order' = order /\ book' = book /\ price \in Quotes
            BY <2>2 DEF StatusLive, TypeOK
        <3>2. PriceInRange(current, history, price)
            BY <2>2, <3>1 DEF StatusLive
        <3>3. book[order].terms = current /\ current \in Virtual /\ current.org <= current.price
            BY <2>2, <3>1 DEF StatusLive, TrackedTerms, PhaseShape, SellerInv, TypeOK
        <3> QED
            BY <3>1, <3>2, <3>3, KeptBringsFloor
    <2>3. ~StatusClosed /\ ~StatusLost
        BY RenewOrderEffect DEF StatusClosed, StatusLost, TypeOK
    <2>4. ~StatusFailed /\ ~MakeRejected /\ ~MakeUnanswered
        BY DEF StatusFailed, MakeRejected, MakeUnanswered, PhaseShape
    <2> QED
        BY <2>1, <2>2, <2>3, <2>4
            DEF Next, BotStep, FetchEnds, SweepOrders, SweepRaised, FetchTickers,
                MainLoopRuns, FetchInterrupted, Fetching, InitPair, StatusCheck,
                StatusFinished, AddressReply, ExecuteMake, CancelReturned,
                CancelRaised, LeaveMain, CloseOrders, Start, RequestStop, Crash,
                Exchange, Forget, vars
<1> QED
    BY <1>1, <1>2, <1>3, Invariance, PTL DEF Spec, RespectsFloor

-----------------------------------------------------------------------------
(* A PingPong pair implements TradeLedger. *)

\* What answers the ledger for the pair answers it for TradeLedger.
LEMMA FollowsAnswers ==
    ASSUME Strategy = "pingpong", NEW c, NEW h \in Virtual \cup {NoVirtual},
           Follows(c, h)
    PROVE  Books!Answers(c, h)
<1>1. PICK q \in Quotes : c = VirtualOrder(h, q)
    BY DEF Follows
<1>2. CASE h # NoVirtual /\ h.side = "SELL"
    <2>1. c = BuyOrder(h, q) /\ c.side = "BUY"
        BY <1>1, <1>2 DEF VirtualOrder, BuyOrder
    <2> QED
        BY <1>2, <2>1, BuyBelowSell DEF Books!Answers
<1>3. CASE ~(h # NoVirtual /\ h.side = "SELL")
    BY <1>1, <1>3 DEF VirtualOrder, SellOrder, Books!Answers
<1> QED
    BY <1>2, <1>3

\* Steps that finish no order, forget none and book none leave the books alone.
LEMMA SameBooks ==
    ASSUME UNCHANGED <<history, file>>, pc \in Down <=> pc' \in Down,
           \A i \in OrderIds : Executed'[i] = Executed[i]
    PROVE  UNCHANGED Books!books
<1>1. Executed' = Executed
    BY DEF Executed
<1> QED
    BY <1>1 DEF Books!books

\* Only the exchange, and the wallet that forgets, change what is executed.
LEMMA ExecutedStep ==
    ASSUME Inv, [Next]_vars, ~Exchange, ~Forget
    PROVE  \A i \in OrderIds : Executed'[i] = Executed[i]
<1> USE DEF Inv
<1> SUFFICES ASSUME NEW i \in OrderIds
             PROVE  \/ book'[i] = book[i]
                    \/ book[i].st # "finished" /\ book'[i].st # "finished"
    BY DEF Executed
<1>1. CASE SweepOrders
    <2>1. PICK S \in SUBSET Open :
            book' = [j \in OrderIds |->
                    IF j \in S THEN [book[j] EXCEPT !.st = "closed"] ELSE book[j]]
        BY <1>1 DEF SweepOrders
    <2>2. i \in S => book[i].st = "open" /\ book[i] \in Slot
        BY <2>1 DEF Open, TypeOK
    <2> QED
        BY <2>1, <2>2 DEF Slot
<1>2. CASE ExecuteMake
    BY <1>2 DEF ExecuteMake, TypeOK
<1>3. CASE CancelReturned
    BY <1>3, CancelKeepsFinished DEF CancelReturned, PhaseShape
<1>4. CASE CancelRaised
    <2>1. order \in OrderIds /\ "closed" \in OrderStatus
        BY <1>4 DEF CancelRaised, TypeOK, PhaseShape, OrderStatus
    <2> QED
        BY <1>4, <2>1, SetStatusType DEF CancelRaised
<1>5. CASE CloseOrders
    BY <1>5, CancelKeepsFinished DEF CloseOrders
<1>6. CASE UNCHANGED book
    BY <1>6
<1> QED
    BY <1>1, <1>2, <1>3, <1>4, <1>5, <1>6
        DEF Next, BotStep, FetchEnds, SweepRaised, FetchTickers, MainLoopRuns,
            FetchInterrupted, Fetching, InitPair, StatusCheck, StatusLive,
            StatusFinished, AddressReply, StatusClosed, StatusFailed, StatusLost,
            MakeAnswered, MakeRejected, MakeUnanswered, LeaveMain, Start,
            RequestStop, Crash, vars

\* Every step of the pair is a step of the ledger, or none.
LEMMA BooksStep ==
    ASSUME Strategy = "pingpong", Inv, [Next]_vars
    PROVE  [Books!Next]_Books!books
<1> USE DEF Inv
<1>1. CASE Exchange
    <2>1. PICK i \in OrderIds :
            /\ book[i].st \in {"open", "swapping"}
            /\ \A j \in OrderIds : book'[j].terms = book[j].terms
            /\ \A j \in OrderIds \ {i} : book'[j] = book[j]
        BY <1>1, ExchangeEffect
    <2>2. Executed[i] = NoVirtual /\ book[i].terms \in Virtual
        BY <2>1 DEF Executed, KnownTerms
    <2>3. UNCHANGED <<pc, history, file>>
        BY <1>1 DEF Exchange
    <2>4. CASE book'[i].st = "finished"
        <3>1. Executed'[i] \in Virtual
            BY <2>1, <2>2, <2>4 DEF Executed
        <3>2. Executed' = [Executed EXCEPT ![i] = Executed'[i]]
            BY <2>1 DEF Executed
        <3>3. Books!Execute(i)
            BY <2>2, <2>3, <3>1, <3>2 DEF Books!Execute
        <3> QED
            BY <3>3 DEF Books!Next
    <2>5. CASE book'[i].st # "finished"
        BY <2>1, <2>3, <2>5, SameBooks DEF Executed
    <2> QED
        BY <2>4, <2>5
<1>2. CASE Forget
    <2>1. PICK i \in OrderIds : book' = [book EXCEPT ![i] = Unused]
        BY <1>2 DEF Forget
    <2>2. Executed' = [Executed EXCEPT ![i] = NoVirtual]
        BY <2>1 DEF Executed, Unused, TypeOK
    <2>3. Books!Forget(i)
        BY <1>2, <2>2 DEF Forget, Books!Forget
    <2> QED
        BY <2>3 DEF Books!Next
<1>3. ASSUME ~Exchange, ~Forget
      PROVE  \A i \in OrderIds : Executed'[i] = Executed[i]
    BY <1>3, ExecutedStep
<1>4. CASE StatusFinished
    <2>1. order \in OrderIds /\ Executed[order] = current /\ current # NoVirtual
        BY <1>4 DEF StatusFinished, PhaseShape, TrackedTerms, Executed, TypeOK
    <2>2. current = history \/ Books!Answers(current, history)
        BY <2>1, FollowsAnswers DEF CurrentFollows, TypeOK
    <2>3. Executed' = Executed
        BY <1>4 DEF StatusFinished, Executed
    <2>4. Books!Enter(order)
        BY <1>4, <2>1, <2>2, <2>3 DEF StatusFinished, Books!Enter, Down
    <2> QED
        BY <2>1, <2>4 DEF Books!Next
<1>5. CASE Start
    <2>1. Executed' = Executed
        BY <1>5 DEF Start, Executed
    <2>2. Books!Start
        BY <1>5, <2>1 DEF Start, Books!Start, Down
    <2> QED
        BY <2>2 DEF Books!Next
<1>6. CASE CloseOrders \/ Crash
    <2>1. ~Exchange /\ ~Forget
        BY <1>6 DEF CloseOrders, Crash, Exchange, Forget, Down
    <2>2. Executed' = Executed
        BY <2>1, <1>3 DEF Executed
    <2>3. Books!End
        BY <1>6, <2>2 DEF CloseOrders, Crash, Forgotten, Books!End, Down
    <2> QED
        BY <2>3 DEF Books!Next
<1>7. ASSUME ~Exchange, ~Forget, ~StatusFinished, ~Start, ~CloseOrders, ~Crash
      PROVE  UNCHANGED Books!books
    <2>1. UNCHANGED <<history, file>>
        BY <1>7 DEF Next, BotStep, FetchEnds, SweepOrders, SweepRaised,
            FetchTickers, MainLoopRuns, FetchInterrupted, Fetching, InitPair,
            StatusCheck, StatusLive, AddressReply, StatusClosed, StatusFailed,
            StatusLost, ExecuteMake, MakeAnswered, MakeRejected, MakeUnanswered,
            CancelReturned, CancelRaised, LeaveMain, RequestStop, vars
    <2>2. CASE AddressReply \/ StatusClosed \/ StatusLost \/ CancelReturned
        <3>1. pc \notin Down /\ (pc' = "idle" \/ \E o : RenewOrder(history, o))
            BY <2>2 DEF AddressReply, StatusClosed, StatusLost, CancelReturned, Down
        <3> QED
            BY <2>1, <3>1, <1>3, <1>7, SameBooks, RenewOrderEffect DEF TypeOK, Down
    <2>3. CASE ~(AddressReply \/ StatusClosed \/ StatusLost \/ CancelReturned)
        <3>1. pc \in Down <=> pc' \in Down
            BY <1>7, <2>3, CreateOrderEffect DEF Next, BotStep, FetchEnds,
                SweepOrders, SweepRaised, FetchTickers, MainLoopRuns,
                FetchInterrupted, Fetching, InitPair, StatusCheck, StatusLive,
                StatusFailed, ExecuteMake, MakeAnswered, MakeRejected,
                MakeUnanswered, CancelRaised, LeaveMain, RequestStop, vars, Down
        <3> QED
            BY <1>3, <1>7, <2>1, <3>1, SameBooks
    <2> QED
        BY <2>2, <2>3
<1> QED
    BY <1>1, <1>2, <1>4, <1>5, <1>6, <1>7

\* A PingPong pair keeps its books as TradeLedger promises, for every market, every
\* spread and every number of orders: each trade it enters was executed and answers
\* the one before it, and its file is what a save or a failed save leaves.
THEOREM PairKeepsBooks == Strategy = "pingpong" => (Spec => KeepsBooks)
<1> SUFFICES ASSUME Strategy = "pingpong" PROVE Spec => KeepsBooks
    OBVIOUS
<1>1. Init => Books!Init
    BY DEF Init, Books!Init, Executed, Unused, Down
<1>2. Inv /\ [Next]_vars => [Books!Next]_Books!books
    BY BooksStep
<1> QED
    BY <1>1, <1>2, Invariance, PTL DEF Spec, KeepsBooks, Books!Spec
=============================================================================
