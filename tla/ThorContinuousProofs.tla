------------------------- MODULE ThorContinuousProofs -------------------------
(***************************************************************************)
(* What ThorContinuous keeps, for all rates, target spreads, thresholds    *)
(* and failing disks.                                                      *)
(*                                                                         *)
(* The ledger describes the last swap between swaps, and the swap before   *)
(* it while one is in flight: Told carries LedgerTruth over a swap and     *)
(* gives Alternates. Chosen keeps, from the evaluation to the end of the   *)
(* turn, what the quote was accepted for, and gives SpreadHeld.            *)
(***************************************************************************)
EXTENDS ThorContinuous, TLAPS

Told(r, s) ==
    IF s.state = "none" THEN r = Fresh
    ELSE /\ s.state = "success"
         /\ r = [anchor |-> s.rate, dir |-> s.dir, booked |-> s.dir]

GoodSwap(s) ==
    /\ s.state = "none" => s = NoSwap
    /\ s.state # "none" => s.dir \in Directions
    /\ s.state = "success" => s.rate \in Rates

SwapsGood == GoodSwap(swap) /\ GoodSwap(last)

DownIsEmpty == ~up => at = "idle" /\ mem = Fresh /\ ~unsaved

LivePlaces == {"sending", "sent", "monitoring", "phantom", "parsing", "booking"}

OnlyLive ==
    /\ at \in LivePlaces => mode = "sending"
    /\ mode = "dry" => swap.state # "pending"

FlightKnown ==
    /\ InFlight => swap.dir = Direction /\ swap.state # "none"
    /\ at \in {"parsing", "booking"} => swap.state = "success"
    /\ at = "booking" => ~IsAnchor /\ mem.booked = swap.dir

Chosen ==
    at \in LivePlaces \cup {"revalidating"}
        => IsAnchor \/ SpreadMet(quote, mem.anchor, Direction)

FlightTruth ==
    /\ ~loose /\ at \in {"sent", "monitoring", "parsing"} => Told(mem, last)
    /\ ~loose /\ at = "booking"
           => /\ last.state = "success"
              /\ mem = [anchor |-> last.rate, dir |-> last.dir, booked |-> swap.dir]

IInv ==
    /\ TypeOK /\ SwapsGood /\ DownIsEmpty /\ OnlyLive
    /\ FlightKnown /\ Chosen /\ LedgerTruth /\ FlightTruth

-----------------------------------------------------------------------------
(* Records.                                                                 *)

\* The empty ledger, and the swap before the first, have their types.
LEMMA EmptyTyped == Fresh \in Ledgers /\ NoSwap \in Swaps
    BY DEF Fresh, Ledgers, NoSwap, Swaps

\* What save leaves in the file is a ledger: the new one, the old one or none.
LEMMA SaveTyped ==
    ASSUME file \in Ledgers, NEW r \in Ledgers, Save(r)
    PROVE file' \in Ledgers /\ unsaved' \in BOOLEAN
    BY EmptyTyped DEF Save

\* A ledger that describes a finished swap has its type.
LEMMA BookedTyped ==
    ASSUME NEW s \in Swaps, GoodSwap(s), s.state = "success"
    PROVE [anchor |-> s.rate, dir |-> s.dir, booked |-> s.dir] \in Ledgers
    BY DEF GoodSwap, Ledgers

\* The next direction is one.
LEMMA DirectionTyped == ASSUME mem \in Ledgers PROVE Direction \in Directions
    BY DEF Direction, Directions, Opposite

-----------------------------------------------------------------------------
(* Steps of a turn that wait for the next answer.                           *)

\* A turn begins, with nothing in flight.
LEMMA TradeBeginsKeeps ==
    ASSUME IInv, TradeBegins PROVE IInv'
<1>1. TypeOK'
    BY ThorConstants DEF TradeBegins, CanBegin, GoTo, turnVars, diskVars,
       worldVars, IInv, TypeOK, Places
<1>2. SwapsGood' /\ DownIsEmpty' /\ OnlyLive'
    BY ThorConstants DEF TradeBegins, CanBegin, GoTo, turnVars, diskVars,
       worldVars, IInv, TypeOK, SwapsGood, GoodSwap, NoSwap, OnlyLive, LivePlaces,
       DownIsEmpty
<1>3. FlightKnown' /\ Chosen'
    BY DEF TradeBegins, CanBegin, GoTo, turnVars, diskVars, worldVars, IInv,
       FlightKnown, InFlight, Chosen, LivePlaces
<1>4. LedgerTruth' /\ FlightTruth'
    BY DEF TradeBegins, CanBegin, GoTo, turnVars, diskVars, worldVars, IInv,
       TypeOK, Ledgers, Swaps, SwapsGood, GoodSwap, DownIsEmpty, OnlyLive,
       FlightKnown, LedgerTruth, FlightTruth, Describes, InFlight
<1> QED
    BY <1>1, <1>2, <1>3, <1>4 DEF IInv

\* The quote comes: nothing is chosen yet.
LEMMA QuotedKeeps ==
    ASSUME IInv, Quoted PROVE IInv'
<1>1. TypeOK'
    BY ThorConstants DEF Quoted, Offers, turnVars, diskVars, worldVars, IInv,
       TypeOK, Places
<1>2. SwapsGood' /\ DownIsEmpty' /\ OnlyLive'
    BY ThorConstants DEF Quoted, Offers, turnVars, diskVars, worldVars, IInv,
       TypeOK, SwapsGood, GoodSwap, NoSwap, OnlyLive, LivePlaces, DownIsEmpty
<1>3. FlightKnown' /\ Chosen'
    BY DEF Quoted, Offers, turnVars, diskVars, worldVars, IInv, FlightKnown,
       InFlight, Chosen, LivePlaces
<1>4. LedgerTruth' /\ FlightTruth'
    BY DEF Quoted, Offers, turnVars, diskVars, worldVars, IInv, TypeOK, Ledgers,
       Swaps, SwapsGood, GoodSwap, DownIsEmpty, OnlyLive, FlightKnown,
       LedgerTruth, FlightTruth, Describes, InFlight
<1> QED
    BY <1>1, <1>2, <1>3, <1>4 DEF IInv

\* The quote is chosen: it beats the anchor by the spread.
LEMMA ConditionsMetKeeps ==
    ASSUME IInv, ConditionsMet PROVE IInv'
<1>1. TypeOK'
    BY ThorConstants DEF ConditionsMet, GoTo, MeetsConditions, turnVars, diskVars,
       worldVars, IInv, TypeOK, Places
<1>2. SwapsGood' /\ DownIsEmpty' /\ OnlyLive'
    BY ThorConstants DEF ConditionsMet, GoTo, MeetsConditions, turnVars, diskVars,
       worldVars, IInv, TypeOK, SwapsGood, GoodSwap, NoSwap, OnlyLive, LivePlaces,
       DownIsEmpty
<1>3. FlightKnown' /\ Chosen'
    BY DEF ConditionsMet, GoTo, MeetsConditions, turnVars, FlightKnown, InFlight,
       Direction, IsAnchor, Chosen
<1>4. LedgerTruth' /\ FlightTruth'
    BY DEF ConditionsMet, GoTo, MeetsConditions, turnVars, diskVars, worldVars,
       IInv, TypeOK, Ledgers, Swaps, SwapsGood, GoodSwap, DownIsEmpty, OnlyLive,
       FlightKnown, LedgerTruth, FlightTruth, Describes, InFlight
<1> QED
    BY <1>1, <1>2, <1>3, <1>4 DEF IInv

\* Only a process that sends gets here.
LEMMA LiveSwapKeeps ==
    ASSUME IInv, LiveSwap PROVE IInv'
<1>1. TypeOK'
    BY ThorConstants DEF LiveSwap, GoTo, turnVars, diskVars, worldVars, IInv,
       TypeOK, Places
<1>2. SwapsGood' /\ DownIsEmpty' /\ OnlyLive'
    BY ThorConstants DEF LiveSwap, GoTo, turnVars, diskVars, worldVars, IInv,
       TypeOK, SwapsGood, GoodSwap, NoSwap, OnlyLive, DownIsEmpty
<1>3. FlightKnown' /\ Chosen'
    BY DEF LiveSwap, GoTo, turnVars, diskVars, worldVars, IInv, FlightKnown,
       InFlight, Direction, IsAnchor, Chosen
<1>4. LedgerTruth' /\ FlightTruth'
    BY DEF LiveSwap, GoTo, turnVars, diskVars, worldVars, IInv, TypeOK, Ledgers,
       Swaps, SwapsGood, GoodSwap, DownIsEmpty, OnlyLive, FlightKnown,
       LedgerTruth, FlightTruth, Describes, InFlight
<1> QED
    BY <1>1, <1>2, <1>3, <1>4 DEF IInv

\* The first send is forgotten, and recorded as such.
LEMMA SendRepeatedKeeps ==
    ASSUME IInv, SendRepeated PROVE IInv'
<1>1. TypeOK'
    BY ThorConstants DEF SendRepeated, GoTo, turnVars, diskVars, worldVars, IInv,
       TypeOK, Places
<1>2. SwapsGood' /\ DownIsEmpty' /\ OnlyLive'
    BY ThorConstants DEF SendRepeated, GoTo, turnVars, diskVars, worldVars, IInv,
       TypeOK, SwapsGood, GoodSwap, NoSwap, OnlyLive, LivePlaces, DownIsEmpty
<1>3. FlightKnown' /\ Chosen'
    BY DEF SendRepeated, GoTo, turnVars, diskVars, worldVars, IInv, FlightKnown,
       InFlight, Direction, IsAnchor, Chosen, LivePlaces
<1>4. LedgerTruth' /\ FlightTruth'
    BY DEF SendRepeated, LedgerTruth, FlightTruth
<1> QED
    BY <1>1, <1>2, <1>3, <1>4 DEF IInv

\* The swap in flight gets its transaction id.
LEMMA SendAnsweredKeeps ==
    ASSUME IInv, SendAnswered PROVE IInv'
<1>1. TypeOK'
    BY ThorConstants DEF SendAnswered, GoTo, turnVars, diskVars, worldVars, IInv,
       TypeOK, Places
<1>2. SwapsGood' /\ DownIsEmpty' /\ OnlyLive'
    BY ThorConstants DEF SendAnswered, GoTo, turnVars, diskVars, worldVars, IInv,
       TypeOK, SwapsGood, GoodSwap, NoSwap, OnlyLive, LivePlaces, DownIsEmpty
<1>3. FlightKnown' /\ Chosen'
    BY DEF SendAnswered, GoTo, turnVars, diskVars, worldVars, IInv, FlightKnown,
       InFlight, Direction, IsAnchor, Chosen, LivePlaces
<1>4. LedgerTruth' /\ FlightTruth'
    BY DEF SendAnswered, GoTo, turnVars, diskVars, worldVars, IInv, TypeOK,
       Ledgers, Swaps, SwapsGood, GoodSwap, LedgerTruth, FlightTruth, InFlight
<1> QED
    BY <1>1, <1>2, <1>3, <1>4 DEF IInv

\* No swap went out: the ledger still describes the last one.
LEMMA SendRefusedKeeps ==
    ASSUME IInv, SendRefused PROVE IInv'
<1>1. TypeOK'
    BY ThorConstants DEF SendRefused, GoTo, turnVars, diskVars, worldVars, IInv,
       TypeOK, Places
<1>2. SwapsGood' /\ DownIsEmpty' /\ OnlyLive'
    BY ThorConstants DEF SendRefused, GoTo, turnVars, diskVars, worldVars, IInv,
       TypeOK, SwapsGood, GoodSwap, NoSwap, OnlyLive, LivePlaces, DownIsEmpty
<1>3. FlightKnown' /\ Chosen'
    BY DEF SendRefused, GoTo, turnVars, diskVars, worldVars, IInv, FlightKnown,
       InFlight, Direction, IsAnchor, Chosen, LivePlaces
<1>4. LedgerTruth' /\ FlightTruth'
    BY DEF SendRefused, GoTo, turnVars, diskVars, worldVars, IInv, TypeOK,
       Ledgers, Swaps, SwapsGood, GoodSwap, DownIsEmpty, OnlyLive, FlightKnown,
       LedgerTruth, FlightTruth, Describes, InFlight
<1> QED
    BY <1>1, <1>2, <1>3, <1>4 DEF IInv

\* The swap in flight has succeeded.
LEMMA SwapSucceededKeeps ==
    ASSUME IInv, SwapSucceeded PROVE IInv'
<1>1. TypeOK'
    BY ThorConstants DEF SwapSucceeded, GoTo, turnVars, diskVars, worldVars, IInv,
       TypeOK, Places
<1>2. SwapsGood' /\ DownIsEmpty' /\ OnlyLive'
    BY ThorConstants DEF SwapSucceeded, GoTo, turnVars, diskVars, worldVars, IInv,
       TypeOK, SwapsGood, GoodSwap, NoSwap, OnlyLive, LivePlaces, DownIsEmpty
<1>3. FlightKnown' /\ Chosen'
    BY DEF SwapSucceeded, GoTo, turnVars, diskVars, worldVars, IInv, FlightKnown,
       InFlight, Direction, IsAnchor, Chosen, LivePlaces
<1>4. LedgerTruth' /\ FlightTruth'
    BY DEF SwapSucceeded, GoTo, turnVars, diskVars, worldVars, IInv, TypeOK,
       Ledgers, Swaps, SwapsGood, GoodSwap, LedgerTruth, FlightTruth, InFlight
<1> QED
    BY <1>1, <1>2, <1>3, <1>4 DEF IInv

\* The amounts of the swap are in the ledger, its rate and direction are not.
LEMMA ParsedKeeps ==
    ASSUME IInv, Parsed PROVE IInv'
<1>1. TypeOK'
    BY ThorConstants DEF Parsed, GoTo, turnVars, diskVars, worldVars, IInv,
       TypeOK, Places, Ledgers, Swaps
<1>2. SwapsGood' /\ DownIsEmpty' /\ OnlyLive'
    BY ThorConstants DEF Parsed, GoTo, turnVars, diskVars, worldVars, IInv,
       TypeOK, SwapsGood, GoodSwap, NoSwap, OnlyLive, LivePlaces, DownIsEmpty
<1>3. FlightKnown' /\ Chosen'
    BY DEF Parsed, GoTo, turnVars, diskVars, worldVars, IInv, FlightKnown,
       InFlight, Direction, IsAnchor, Chosen, LivePlaces
<1>4. LedgerTruth' /\ FlightTruth'
    BY DEF Parsed, GoTo, turnVars, diskVars, worldVars, IInv, TypeOK, Ledgers,
       Swaps, SwapsGood, GoodSwap, DownIsEmpty, OnlyLive, FlightKnown,
       LedgerTruth, FlightTruth, Describes, Told, InFlight, Fresh, IsAnchor
<1> QED
    BY <1>1, <1>2, <1>3, <1>4 DEF IInv

-----------------------------------------------------------------------------
(* Steps that end a turn, or begin it, without booking a swap.              *)

EndsUnbooked ==
    /\ at' \in {"idle", "polling"} /\ mem' = mem
    /\ Save(mem) \/ UNCHANGED diskVars
    /\ UNCHANGED <<mode, up, market, swap>> /\ last' \in {last, NoSwap}
    /\ loose' = TRUE \/ (loose' = loose /\ ~InFlight)
    /\ up /\ TypeOK'

\* The ledger stays as it is: it describes the last swap, or one is lost on record.
LEMMA EndsUnbookedKeeps ==
    ASSUME IInv, EndsUnbooked PROVE IInv'
<1>1. TypeOK'
    BY DEF EndsUnbooked
<1>2. SwapsGood' /\ DownIsEmpty' /\ OnlyLive'
    BY ThorConstants DEF EndsUnbooked, Save, turnVars, diskVars, worldVars, IInv,
       TypeOK, SwapsGood, GoodSwap, NoSwap, Directions, Direction, Opposite,
       OnlyLive, LivePlaces, DownIsEmpty
<1>3. FlightKnown' /\ Chosen'
    BY DEF EndsUnbooked, Save, turnVars, diskVars, worldVars, IInv, FlightKnown,
       InFlight, Chosen, LivePlaces
<1>4. LedgerTruth' /\ FlightTruth'
    BY DEF EndsUnbooked, Save, turnVars, diskVars, worldVars, IInv, TypeOK,
       Ledgers, Swaps, LedgerTruth, FlightTruth, Describes
<1> QED
    BY <1>1, <1>2, <1>3, <1>4 DEF IInv

\* The anchor trade begins, or is given up for want of balance.
LEMMA AnchorBeginsKeeps ==
    ASSUME IInv, AnchorBegins PROVE IInv'
<1>1. file' \in Ledgers /\ unsaved' \in BOOLEAN
    BY SaveTyped DEF AnchorBegins, diskVars, IInv, TypeOK
<1>2. TypeOK'
    BY ThorConstants, <1>1 DEF AnchorBegins, worldVars, IInv, TypeOK, Places
<1>3. EndsUnbooked
    BY <1>2 DEF AnchorBegins, CanBegin, turnVars, diskVars, worldVars, IInv,
       TypeOK, DownIsEmpty, InFlight, EndsUnbooked
<1> QED
    BY <1>3, EndsUnbookedKeeps

\* No quote: nothing was sent.
LEMMA NoOpportunityKeeps ==
    ASSUME IInv, NoOpportunity PROVE IInv'
<1>1. file' \in Ledgers /\ unsaved' \in BOOLEAN
    BY SaveTyped DEF NoOpportunity, Ends, SavesReason, turnVars, diskVars,
       worldVars, IInv, TypeOK
<1>2. TypeOK'
    BY ThorConstants, EmptyTyped, <1>1 DEF NoOpportunity, Ends, worldVars, IInv,
       TypeOK, Places
<1>3. EndsUnbooked
    BY <1>2 DEF NoOpportunity, Ends, SavesReason, turnVars, diskVars, worldVars,
       IInv, TypeOK, DownIsEmpty, InFlight, EndsUnbooked
<1> QED
    BY <1>3, EndsUnbookedKeeps

\* The quote is declined.
LEMMA ConditionsNotMetKeeps ==
    ASSUME IInv, ConditionsNotMet PROVE IInv'
<1>1. file' \in Ledgers /\ unsaved' \in BOOLEAN
    BY SaveTyped DEF ConditionsNotMet, diskVars, worldVars, IInv, TypeOK
<1>2. TypeOK'
    BY ThorConstants, EmptyTyped, <1>1 DEF ConditionsNotMet, Ends, IInv, TypeOK,
       Places
<1>3. EndsUnbooked
    BY <1>2 DEF ConditionsNotMet, Ends, turnVars, diskVars, worldVars, IInv,
       TypeOK, DownIsEmpty, InFlight, EndsUnbooked
<1> QED
    BY <1>3, EndsUnbookedKeeps

\* The send is given up; if it went out that is on record.
LEMMA SendFailedKeeps ==
    ASSUME IInv, SendFailed PROVE IInv'
<1>1. file' \in Ledgers /\ unsaved' \in BOOLEAN
    BY SaveTyped DEF SendFailed, Ends, SavesReason, turnVars, diskVars, worldVars,
       IInv, TypeOK
<1>2. TypeOK'
    BY ThorConstants, EmptyTyped, <1>1 DEF SendFailed, Ends, worldVars, IInv,
       TypeOK, Places
<1>3. EndsUnbooked
    BY <1>2 DEF SendFailed, Ends, SavesReason, turnVars, diskVars, worldVars,
       IInv, TypeOK, DownIsEmpty, InFlight, EndsUnbooked
<1> QED
    BY <1>3, EndsUnbookedKeeps

\* The anchor swap failed, and is on record.
LEMMA AnchorSwapFailsKeeps ==
    ASSUME IInv, AnchorSwapFails PROVE IInv'
<1>1. file' \in Ledgers /\ unsaved' \in BOOLEAN
    BY SaveTyped DEF AnchorSwapFails, worldVars, IInv, TypeOK
<1>2. TypeOK'
  <2>1. failures' \in 0..MaxFailures - 1
      BY ThorConstants DEF AnchorSwapFails, CountFailure, IInv, TypeOK
  <2>2. loose' \in BOOLEAN /\ paused' \in BOOLEAN
      BY DEF AnchorSwapFails, IInv, TypeOK
  <2> QED
      BY EmptyTyped, <1>1, <2>1, <2>2 DEF AnchorSwapFails, Ends, turnVars,
         diskVars, worldVars, IInv, TypeOK, Places
<1>3. EndsUnbooked
    BY <1>2 DEF AnchorSwapFails, CountFailure, Ends, turnVars, diskVars,
       worldVars, IInv, TypeOK, DownIsEmpty, InFlight, EndsUnbooked
<1> QED
    BY <1>3, EndsUnbookedKeeps

\* The swap is given up, and is on record.
LEMMA SwapExpiresKeeps ==
    ASSUME IInv, SwapExpires PROVE IInv'
<1>1. file' \in Ledgers /\ unsaved' \in BOOLEAN
    BY SaveTyped DEF SwapExpires, CountFailure, BreakerSaves, turnVars, diskVars,
       worldVars, IInv, TypeOK
<1>2. TypeOK'
  <2>1. failures' \in 0..MaxFailures - 1
      BY ThorConstants DEF SwapExpires, CountFailure, IInv, TypeOK
  <2>2. loose' \in BOOLEAN /\ paused' \in BOOLEAN
      BY DEF SwapExpires, IInv, TypeOK
  <2> QED
      BY EmptyTyped, <1>1, <2>1, <2>2 DEF SwapExpires, Ends, turnVars, diskVars,
         worldVars, IInv, TypeOK, Places
<1>3. EndsUnbooked
    BY <1>2 DEF SwapExpires, CountFailure, BreakerSaves, Ends, turnVars, diskVars,
       worldVars, IInv, TypeOK, DownIsEmpty, InFlight, EndsUnbooked
<1> QED
    BY <1>3, EndsUnbookedKeeps

\* The swap was refunded, and is on record.
LEMMA SwapRefundedKeeps ==
    ASSUME IInv, SwapRefunded PROVE IInv'
<1>1. file' \in Ledgers /\ unsaved' \in BOOLEAN
    BY SaveTyped DEF SwapRefunded, CountFailure, BreakerSaves, diskVars,
       worldVars, IInv, TypeOK
<1>2. TypeOK'
  <2>1. failures' \in 0..MaxFailures - 1
      BY ThorConstants DEF SwapRefunded, CountFailure, IInv, TypeOK
  <2>2. loose' \in BOOLEAN /\ paused' \in BOOLEAN
      BY DEF SwapRefunded, IInv, TypeOK
  <2> QED
      BY EmptyTyped, <1>1, <2>1, <2>2 DEF SwapRefunded, Ends, turnVars, diskVars,
         worldVars, IInv, TypeOK, Places
<1>3. EndsUnbooked
    BY <1>2 DEF SwapRefunded, CountFailure, BreakerSaves, Ends, turnVars,
       diskVars, worldVars, IInv, TypeOK, DownIsEmpty, InFlight, EndsUnbooked
<1> QED
    BY <1>3, EndsUnbookedKeeps

\* The result of the swap is lost, and is on record.
LEMMA NotParsedKeeps ==
    ASSUME IInv, NotParsed PROVE IInv'
<1>1. file' \in Ledgers /\ unsaved' \in BOOLEAN
    BY SaveTyped DEF NotParsed, Ends, SavesReason, turnVars, diskVars, worldVars,
       IInv, TypeOK
<1>2. TypeOK'
    BY ThorConstants, EmptyTyped, <1>1 DEF NotParsed, Ends, worldVars, IInv,
       TypeOK, Places
<1>3. EndsUnbooked
    BY <1>2 DEF NotParsed, Ends, SavesReason, turnVars, diskVars, worldVars, IInv,
       TypeOK, DownIsEmpty, InFlight, EndsUnbooked
<1> QED
    BY <1>3, EndsUnbookedKeeps

\* The swap is not booked, and is on record.
LEMMA NotBothGrownKeeps ==
    ASSUME IInv, NotBothGrown PROVE IInv'
<1>1. file' \in Ledgers /\ unsaved' \in BOOLEAN
    BY SaveTyped DEF NotBothGrown, worldVars, IInv, TypeOK
<1>2. TypeOK'
    BY ThorConstants, EmptyTyped, <1>1 DEF NotBothGrown, Ends, turnVars, diskVars,
       worldVars, IInv, TypeOK, Places
<1>3. EndsUnbooked
    BY <1>2 DEF NotBothGrown, Ends, turnVars, diskVars, worldVars, IInv, TypeOK,
       DownIsEmpty, InFlight, EndsUnbooked
<1> QED
    BY <1>3, EndsUnbookedKeeps

-----------------------------------------------------------------------------
(* Steps that book a swap.                                                  *)

BooksSwap ==
    /\ at' = "idle" /\ up
    /\ swap'.state = "success"
    /\ mem' = [anchor |-> swap'.rate, dir |-> swap'.dir, booked |-> swap'.dir]
    /\ Save(mem')
    /\ UNCHANGED <<mode, up>> /\ last' = NoSwap
    /\ TypeOK' /\ SwapsGood'

\* The ledger describes the swap that it books, the last one.
LEMMA BooksSwapKeeps ==
    ASSUME IInv, BooksSwap PROVE IInv'
<1>1. TypeOK'
    BY DEF BooksSwap
<1>2. SwapsGood' /\ DownIsEmpty' /\ OnlyLive'
    BY DEF BooksSwap, DownIsEmpty, OnlyLive, LivePlaces
<1>3. FlightKnown' /\ Chosen'
    BY DEF BooksSwap, Save, turnVars, diskVars, worldVars, IInv, FlightKnown,
       InFlight, Chosen, LivePlaces
<1>4. LedgerTruth' /\ FlightTruth'
    BY DEF BooksSwap, Save, turnVars, diskVars, worldVars, LedgerTruth,
       FlightTruth, Describes
<1> QED
    BY <1>1, <1>2, <1>3, <1>4 DEF IInv

\* A dry swap is the quote it simulates.
LEMMA DrySwapKeeps ==
    ASSUME IInv, DrySwap PROVE IInv'
<1>1. swap' \in Swaps /\ GoodSwap(swap') /\ swap'.state = "success"
    BY DirectionTyped DEF DrySwap, AnchorBooks, Ends, turnVars, diskVars,
       worldVars, IInv, TypeOK, GoodSwap, Swaps, Offers
<1>2. mem' = [anchor |-> swap'.rate, dir |-> swap'.dir, booked |-> swap'.dir]
    BY DEF DrySwap, AnchorBooks, Ends, turnVars, diskVars, worldVars,
       EffectiveRate
<1>3. mem' \in Ledgers
    BY <1>1, <1>2, BookedTyped
<1>4. Save(mem')
    BY <1>2 DEF DrySwap, AnchorBooks
<1>5. file' \in Ledgers /\ unsaved' \in BOOLEAN
    BY <1>3, <1>4, EmptyTyped DEF Save, IInv, TypeOK
<1>6. TypeOK'
    BY ThorConstants, EmptyTyped, <1>1, <1>3, <1>5 DEF DrySwap, AnchorBooks, Ends,
       turnVars, diskVars, worldVars, IInv, TypeOK, Places
<1>7. SwapsGood'
    BY <1>1 DEF DrySwap, AnchorBooks, Ends, SwapsGood, GoodSwap, NoSwap
<1>8. BooksSwap
    BY <1>1, <1>2, <1>4, <1>6, <1>7 DEF DrySwap, AnchorBooks, Ends, turnVars,
       diskVars, worldVars, IInv, DownIsEmpty, BooksSwap
<1> QED
    BY <1>8, BooksSwapKeeps

\* The anchor swap has succeeded.
LEMMA AnchorParsedKeeps ==
    ASSUME IInv, AnchorParsed PROVE IInv'
<1>1. swap' \in Swaps /\ GoodSwap(swap') /\ swap'.state = "success"
    BY DirectionTyped DEF AnchorParsed, IInv, TypeOK, FlightKnown, SwapsGood
<1>2. mem' = [anchor |-> swap'.rate, dir |-> swap'.dir, booked |-> swap'.dir]
    BY DEF AnchorParsed, AnchorBooks, Ends, turnVars, diskVars, worldVars,
       EffectiveRate
<1>3. mem' \in Ledgers
    BY <1>1, <1>2, BookedTyped
<1>4. Save(mem')
    BY <1>2 DEF AnchorParsed, AnchorBooks
<1>5. file' \in Ledgers /\ unsaved' \in BOOLEAN
    BY <1>3, <1>4, EmptyTyped DEF Save, IInv, TypeOK
<1>6. TypeOK'
    BY ThorConstants, EmptyTyped, <1>1, <1>3, <1>5 DEF AnchorParsed, AnchorBooks,
       Ends, turnVars, diskVars, worldVars, IInv, TypeOK, Places
<1>7. SwapsGood'
    BY <1>1 DEF AnchorParsed, AnchorBooks, Ends, SwapsGood, GoodSwap, NoSwap
<1>8. BooksSwap
    BY <1>1, <1>2, <1>4, <1>6, <1>7 DEF AnchorParsed, AnchorBooks, Ends, turnVars,
       diskVars, worldVars, IInv, DownIsEmpty, BooksSwap
<1> QED
    BY <1>8, BooksSwapKeeps

\* The amounts are in the ledger already; the rate and the direction follow.
LEMMA BothGrownKeeps ==
    ASSUME IInv, BothGrown PROVE IInv'
<1>1. swap' \in Swaps /\ GoodSwap(swap') /\ swap'.state = "success"
    BY DirectionTyped DEF BothGrown, Ends, turnVars, diskVars, IInv, TypeOK,
       FlightKnown, SwapsGood
<1>2. mem' = [anchor |-> swap'.rate, dir |-> swap'.dir, booked |-> swap'.dir]
    BY DEF BothGrown, Ends, turnVars, diskVars, worldVars, EffectiveRate, IInv,
       FlightKnown, InFlight, TypeOK, Ledgers
<1>3. mem' \in Ledgers
    BY <1>1, <1>2, BookedTyped
<1>4. Save(mem')
    BY <1>2 DEF BothGrown
<1>5. file' \in Ledgers /\ unsaved' \in BOOLEAN
    BY <1>3, <1>4, EmptyTyped DEF Save, IInv, TypeOK
<1>6. TypeOK'
    BY ThorConstants, EmptyTyped, <1>1, <1>3, <1>5 DEF BothGrown, Ends, turnVars,
       diskVars, worldVars, IInv, TypeOK, Places
<1>7. SwapsGood'
    BY <1>1 DEF BothGrown, Ends, SwapsGood, GoodSwap, NoSwap
<1>8. BooksSwap
    BY <1>1, <1>2, <1>4, <1>6, <1>7 DEF BothGrown, Ends, turnVars, diskVars,
       worldVars, IInv, DownIsEmpty, BooksSwap
<1> QED
    BY <1>8, BooksSwapKeeps

-----------------------------------------------------------------------------
(* The process and the world.                                               *)

\* The published code exits: what was not saved is on record.
LEMMA GuardExitsKeeps ==
    ASSUME IInv, GuardExits PROVE IInv'
<1>1. TypeOK'
  <2>1. mem' \in Ledgers
      BY EmptyTyped DEF GuardExits, ProcessEnds, turnVars
  <2>2. file' \in Ledgers
      BY EmptyTyped DEF GuardExits, worldVars, IInv, TypeOK
  <2>3. failures' \in 0..MaxFailures - 1
      BY ThorConstants DEF GuardExits, ProcessEnds, turnVars
  <2>4. loose' \in BOOLEAN
      BY DEF GuardExits
  <2> QED
      BY ThorConstants, EmptyTyped, <2>1, <2>2, <2>3, <2>4 DEF GuardExits,
         ProcessEnds, turnVars, diskVars, worldVars, IInv, TypeOK, Places
<1>2. SwapsGood' /\ DownIsEmpty' /\ OnlyLive'
    BY ThorConstants DEF GuardExits, ProcessEnds, turnVars, diskVars, worldVars,
       IInv, TypeOK, SwapsGood, GoodSwap, NoSwap, OnlyLive, LivePlaces,
       DownIsEmpty
<1>3. FlightKnown' /\ Chosen'
    BY DEF GuardExits, ProcessEnds, turnVars, diskVars, worldVars, IInv,
       FlightKnown, InFlight, Chosen, LivePlaces
<1>4. LedgerTruth' /\ FlightTruth'
    BY DEF GuardExits, ProcessEnds, turnVars, diskVars, worldVars, IInv, TypeOK,
       Ledgers, Swaps, SwapsGood, GoodSwap, DownIsEmpty, OnlyLive, FlightKnown,
       LedgerTruth, FlightTruth, Describes, InFlight
<1> QED
    BY <1>1, <1>2, <1>3, <1>4 DEF IInv

\* What was not saved, or in flight, is on record.
LEMMA CrashKeeps ==
    ASSUME IInv, Crash PROVE IInv'
<1>1. TypeOK'
  <2>1. mem' \in Ledgers
      BY EmptyTyped DEF Crash, ProcessEnds, turnVars
  <2>2. file' \in Ledgers
      BY EmptyTyped DEF Crash, worldVars, IInv, TypeOK
  <2>3. failures' \in 0..MaxFailures - 1
      BY ThorConstants DEF Crash, ProcessEnds, turnVars
  <2>4. loose' \in BOOLEAN
      BY DEF Crash
  <2> QED
      BY ThorConstants, EmptyTyped, <2>1, <2>2, <2>3, <2>4 DEF Crash, ProcessEnds,
         turnVars, diskVars, worldVars, IInv, TypeOK, Places
<1>2. SwapsGood' /\ DownIsEmpty' /\ OnlyLive'
    BY ThorConstants DEF Crash, ProcessEnds, turnVars, diskVars, worldVars, IInv,
       TypeOK, SwapsGood, GoodSwap, NoSwap, OnlyLive, LivePlaces, DownIsEmpty
<1>3. FlightKnown' /\ Chosen'
    BY DEF Crash, ProcessEnds, turnVars, diskVars, worldVars, IInv, FlightKnown,
       InFlight, Chosen, LivePlaces
<1>4. LedgerTruth' /\ FlightTruth'
    BY DEF Crash, ProcessEnds, turnVars, diskVars, worldVars, IInv, TypeOK,
       Ledgers, Swaps, LedgerTruth, FlightTruth, Describes
<1> QED
    BY <1>1, <1>2, <1>3, <1>4 DEF IInv

\* The lost ledger is on record.
LEMMA CrashInSaveKeeps ==
    ASSUME IInv, CrashInSave PROVE IInv'
<1>1. TypeOK'
  <2>1. mem' \in Ledgers
      BY EmptyTyped DEF CrashInSave, ProcessEnds, turnVars
  <2>2. file' \in Ledgers
      BY EmptyTyped DEF CrashInSave
  <2>3. failures' \in 0..MaxFailures - 1
      BY ThorConstants DEF CrashInSave, ProcessEnds, turnVars
  <2>4. loose' \in BOOLEAN
      BY DEF CrashInSave
  <2> QED
      BY ThorConstants, EmptyTyped, <2>1, <2>2, <2>3, <2>4 DEF CrashInSave,
         ProcessEnds, turnVars, diskVars, worldVars, IInv, TypeOK, Places
<1>2. SwapsGood' /\ DownIsEmpty' /\ OnlyLive'
    BY ThorConstants DEF CrashInSave, ProcessEnds, turnVars, diskVars, worldVars,
       IInv, TypeOK, SwapsGood, GoodSwap, NoSwap, OnlyLive, LivePlaces,
       DownIsEmpty
<1>3. FlightKnown' /\ Chosen'
    BY DEF CrashInSave, ProcessEnds, turnVars, diskVars, worldVars, IInv,
       FlightKnown, InFlight, Chosen, LivePlaces
<1>4. LedgerTruth' /\ FlightTruth'
    BY DEF CrashInSave, LedgerTruth, FlightTruth
<1> QED
    BY <1>1, <1>2, <1>3, <1>4 DEF IInv

\* A dry run has nothing before it.
LEMMA StartDryKeeps ==
    ASSUME IInv, StartDry PROVE IInv'
<1>1. TypeOK'
  <2>1. swap' \in Swaps /\ last' \in Swaps
      BY EmptyTyped DEF StartDry
  <2> QED
      BY ThorConstants, <2>1 DEF StartDry, turnVars, diskVars, IInv, TypeOK
<1>2. SwapsGood' /\ DownIsEmpty' /\ OnlyLive'
    BY ThorConstants DEF StartDry, turnVars, diskVars, worldVars, IInv, TypeOK,
       SwapsGood, GoodSwap, NoSwap, Directions, OnlyLive, DownIsEmpty
<1>3. FlightKnown' /\ Chosen'
    BY DEF StartDry, turnVars, diskVars, worldVars, IInv, FlightKnown, InFlight,
       Direction, IsAnchor, DownIsEmpty, Chosen
<1>4. LedgerTruth' /\ FlightTruth'
    BY DEF StartDry, turnVars, diskVars, worldVars, IInv, TypeOK, Ledgers, Swaps,
       SwapsGood, GoodSwap, DownIsEmpty, OnlyLive, FlightKnown, LedgerTruth,
       FlightTruth, Describes, NoSwap
<1> QED
    BY <1>1, <1>2, <1>3, <1>4 DEF IInv

\* The ledger that is loaded is the one that was saved, but for an anchor of 1.0.
LEMMA StartLiveKeeps ==
    ASSUME IInv, StartLive PROVE IInv'
<1>1. TypeOK'
  <2>1. mem' \in Ledgers
      BY DEF StartLive, Load, IInv, TypeOK, Ledgers
  <2>2. file' \in Ledgers
      BY <2>1, EmptyTyped DEF StartLive, Load, Save, diskVars, IInv, TypeOK
  <2> QED
      BY ThorConstants, <2>1, <2>2 DEF StartLive, Load, Save, turnVars, diskVars,
         worldVars, IInv, TypeOK
<1>2. SwapsGood' /\ DownIsEmpty' /\ OnlyLive'
    BY ThorConstants DEF StartLive, Load, Save, turnVars, diskVars, worldVars,
       IInv, TypeOK, SwapsGood, GoodSwap, NoSwap, OnlyLive, DownIsEmpty
<1>3. FlightKnown' /\ Chosen'
    BY DEF StartLive, Load, Save, turnVars, diskVars, worldVars, IInv,
       FlightKnown, InFlight, DownIsEmpty, Chosen, LivePlaces
<1>4. LedgerTruth' /\ FlightTruth'
    BY DEF StartLive, Load, Save, turnVars, diskVars, worldVars, IInv, TypeOK,
       Ledgers, Swaps, SwapsGood, GoodSwap, DownIsEmpty, OnlyLive, FlightKnown,
       LedgerTruth, FlightTruth, Describes, InFlight
<1> QED
    BY <1>1, <1>2, <1>3, <1>4 DEF IInv

\* A swap goes out: the ledger describes the one before it.
LEMMA NodeSendsKeeps ==
    ASSUME IInv, NodeSends PROVE IInv'
<1>1. TypeOK'
    BY ThorConstants DEF NodeSends, turnVars, diskVars, worldVars, IInv, TypeOK,
       Places, Ledgers, Swaps, Directions, Direction, Opposite
<1>2. SwapsGood' /\ DownIsEmpty' /\ OnlyLive'
    BY ThorConstants DEF NodeSends, turnVars, diskVars, worldVars, IInv, TypeOK,
       SwapsGood, GoodSwap, NoSwap, Directions, Direction, Opposite, OnlyLive,
       LivePlaces, DownIsEmpty
<1>3. FlightKnown' /\ Chosen'
    BY DEF NodeSends, turnVars, diskVars, worldVars, IInv, FlightKnown, Direction,
       IsAnchor, Chosen, LivePlaces
<1>4. LedgerTruth' /\ FlightTruth'
    BY DEF NodeSends, turnVars, diskVars, worldVars, IInv, TypeOK, Ledgers, Swaps,
       SwapsGood, GoodSwap, DownIsEmpty, OnlyLive, FlightKnown, LedgerTruth,
       FlightTruth, Describes, Told, InFlight
<1> QED
    BY <1>1, <1>2, <1>3, <1>4 DEF IInv

\* A pending swap is in flight or on record.
LEMMA SwapEndsKeeps ==
    ASSUME IInv, SwapEnds PROVE IInv'
<1>1. TypeOK'
  <2>1. swap' \in Swaps
      BY ThorConstants DEF SwapEnds, IInv, TypeOK, Swaps
  <2> QED
      BY ThorConstants, <2>1 DEF SwapEnds, turnVars, diskVars, IInv, TypeOK,
         Offers
<1>2. SwapsGood' /\ DownIsEmpty' /\ OnlyLive'
    BY ThorConstants DEF SwapEnds, turnVars, diskVars, worldVars, IInv, TypeOK,
       SwapsGood, GoodSwap, NoSwap, Directions, OnlyLive, Swaps, DownIsEmpty
<1>3. FlightKnown' /\ Chosen'
    BY DEF SwapEnds, turnVars, diskVars, worldVars, IInv, FlightKnown, InFlight,
       Direction, IsAnchor, TypeOK, Swaps, Chosen
<1>4. LedgerTruth' /\ FlightTruth'
    BY DEF SwapEnds, turnVars, diskVars, worldVars, IInv, TypeOK, Ledgers, Swaps,
       SwapsGood, GoodSwap, DownIsEmpty, OnlyLive, FlightKnown, LedgerTruth,
       FlightTruth, Describes, InFlight
<1> QED
    BY <1>1, <1>2, <1>3, <1>4 DEF IInv

\* The market moves.
LEMMA MoveKeeps ==
    ASSUME IInv, Move PROVE IInv'
<1>1. TypeOK'
    BY ThorConstants DEF Move, turnVars, diskVars, IInv, TypeOK
<1>2. SwapsGood' /\ DownIsEmpty' /\ OnlyLive'
    BY ThorConstants DEF Move, turnVars, diskVars, worldVars, IInv, TypeOK,
       SwapsGood, GoodSwap, NoSwap, Directions, OnlyLive, DownIsEmpty
<1>3. FlightKnown' /\ Chosen'
    BY DEF Move, turnVars, diskVars, worldVars, IInv, FlightKnown, InFlight,
       Direction, IsAnchor, Chosen
<1>4. LedgerTruth' /\ FlightTruth'
    BY DEF Move, turnVars, diskVars, worldVars, IInv, TypeOK, Ledgers, Swaps,
       SwapsGood, GoodSwap, DownIsEmpty, OnlyLive, FlightKnown, LedgerTruth,
       FlightTruth, Describes, InFlight
<1> QED
    BY <1>1, <1>2, <1>3, <1>4 DEF IInv

\* The pause file comes and goes.
LEMMA PauseFileKeeps ==
    ASSUME IInv, PauseFile PROVE IInv'
<1>1. TypeOK'
    BY ThorConstants DEF PauseFile, turnVars, diskVars, worldVars, IInv, TypeOK
<1>2. SwapsGood' /\ DownIsEmpty' /\ OnlyLive'
    BY ThorConstants DEF PauseFile, turnVars, diskVars, worldVars, IInv, TypeOK,
       SwapsGood, GoodSwap, NoSwap, Directions, OnlyLive, DownIsEmpty
<1>3. FlightKnown' /\ Chosen'
    BY DEF PauseFile, turnVars, diskVars, worldVars, IInv, FlightKnown, InFlight,
       Direction, IsAnchor, Chosen
<1>4. LedgerTruth' /\ FlightTruth'
    BY DEF PauseFile, turnVars, diskVars, worldVars, IInv, TypeOK, Ledgers, Swaps,
       SwapsGood, GoodSwap, DownIsEmpty, OnlyLive, FlightKnown, LedgerTruth,
       FlightTruth, Describes, InFlight
<1> QED
    BY <1>1, <1>2, <1>3, <1>4 DEF IInv

-----------------------------------------------------------------------------
(* The specification.                                                       *)

\* The invariant holds at the start.
LEMMA InitIInv == Init => IInv
<1> SUFFICES ASSUME Init PROVE IInv
    OBVIOUS
<1>1. TypeOK
  <2>1. failures \in 0..MaxFailures - 1
      BY ThorConstants DEF Init
  <2> QED
      BY <2>1, EmptyTyped DEF Init, TypeOK, Places
<1>2. SwapsGood /\ LedgerTruth
    BY DEF Init, SwapsGood, GoodSwap, NoSwap, LedgerTruth, Describes
<1>3. DownIsEmpty /\ OnlyLive /\ FlightKnown /\ Chosen /\ FlightTruth
    BY DEF Init, DownIsEmpty, OnlyLive, LivePlaces, NoSwap, FlightKnown, InFlight,
       Chosen, FlightTruth
<1> QED
    BY <1>1, <1>2, <1>3 DEF IInv

\* Every step, of the turn, the process or the world, keeps it.
LEMMA NextIInv == IInv /\ [Next]_vars => IInv'
<1> SUFFICES ASSUME IInv, [Next]_vars PROVE IInv'
    OBVIOUS
<1>1. CASE AnchorBegins
    BY <1>1, AnchorBeginsKeeps
<1>2. CASE TradeBegins
    BY <1>2, TradeBeginsKeeps
<1>3. CASE Quoted
    BY <1>3, QuotedKeeps
<1>4. CASE NoOpportunity
    BY <1>4, NoOpportunityKeeps
<1>5. CASE ConditionsMet
    BY <1>5, ConditionsMetKeeps
<1>6. CASE ConditionsNotMet
    BY <1>6, ConditionsNotMetKeeps
<1>7. CASE DrySwap
    BY <1>7, DrySwapKeeps
<1>8. CASE LiveSwap
    BY <1>8, LiveSwapKeeps
<1>9. CASE GuardExits
    BY <1>9, GuardExitsKeeps
<1>10. CASE SendRepeated
    BY <1>10, SendRepeatedKeeps
<1>11. CASE SendFailed
    BY <1>11, SendFailedKeeps
<1>12. CASE SendAnswered
    BY <1>12, SendAnsweredKeeps
<1>13. CASE SendRefused
    BY <1>13, SendRefusedKeeps
<1>14. CASE SwapSucceeded
    BY <1>14, SwapSucceededKeeps
<1>15. CASE AnchorSwapFails
    BY <1>15, AnchorSwapFailsKeeps
<1>16. CASE SwapExpires
    BY <1>16, SwapExpiresKeeps
<1>17. CASE SwapRefunded
    BY <1>17, SwapRefundedKeeps
<1>18. CASE NotParsed
    BY <1>18, NotParsedKeeps
<1>19. CASE AnchorParsed
    BY <1>19, AnchorParsedKeeps
<1>20. CASE Parsed
    BY <1>20, ParsedKeeps
<1>21. CASE BothGrown
    BY <1>21, BothGrownKeeps
<1>22. CASE NotBothGrown
    BY <1>22, NotBothGrownKeeps
<1>23. CASE Crash
    BY <1>23, CrashKeeps
<1>24. CASE CrashInSave
    BY <1>24, CrashInSaveKeeps
<1>25. CASE StartDry
    BY <1>25, StartDryKeeps
<1>26. CASE StartLive
    BY <1>26, StartLiveKeeps
<1>27. CASE NodeSends
    BY <1>27, NodeSendsKeeps
<1>28. CASE SwapEnds
    BY <1>28, SwapEndsKeeps
<1>29. CASE Move
    BY <1>29, MoveKeeps
<1>30. CASE PauseFile
    BY <1>30, PauseFileKeeps
<1>31. CASE UNCHANGED vars
    BY <1>31 DEF vars, turnVars, diskVars, worldVars, IInv, TypeOK, SwapsGood,
       GoodSwap, DownIsEmpty, OnlyLive, FlightKnown, InFlight, Direction,
       IsAnchor, Chosen, LedgerTruth, FlightTruth, Describes
<1> QED
    BY <1>1, <1>2, <1>3, <1>4, <1>5, <1>6, <1>7, <1>8, <1>9, <1>10, <1>11, <1>12,
       <1>13, <1>14, <1>15, <1>16, <1>17, <1>18, <1>19, <1>20, <1>21, <1>22,
       <1>23, <1>24, <1>25, <1>26, <1>27, <1>28, <1>29, <1>30, <1>31 DEF Next,
       Turn

\* The ledger and the swaps as process_pair_async and its helpers keep them, in
\* every reachable state.
THEOREM LedgerInvariance == Spec => []IInv
<1>1. QED
    BY InitIInv, NextIInv, PTL DEF Spec

\* Every variable of the strategy, its state file and its swaps has its type; in
\* particular every rate that is booked is one of the market's.
THEOREM ThorTypeCorrect == Spec => []TypeOK
<1>1. IInv => TypeOK
    BY DEF IInv
<1> QED
    BY <1>1, LedgerInvariance, PTL

\* ContinuousTradeState describes the last swap between swaps, in memory and on
\* disk, unless that swap or a save was lost on record.
THEOREM LedgerIsTrue == Spec => []LedgerTruth
<1>1. IInv => LedgerTruth
    BY DEF IInv
<1> QED
    BY <1>1, LedgerInvariance, PTL

\* _get_next_direction alternates: a swap goes against the one before it and pays
\* with its proceeds.
THEOREM SwapsAlternate == Spec => []Alternates
<1>1. ASSUME IInv PROVE Alternates
  <2> SUFFICES ASSUME ~loose, at \in {"sent", "monitoring", "parsing"}
               PROVE IF IsAnchor THEN last = NoSwap
                     ELSE /\ last.state = "success"
                          /\ swap.dir = Opposite(last.dir)
                          /\ mem.booked = last.dir
      BY DEF Alternates
  <2>1. Told(mem, last) /\ swap.dir = Direction /\ GoodSwap(last)
      BY <1>1 DEF IInv, FlightTruth, FlightKnown, InFlight, SwapsGood
  <2>2. CASE last.state = "none"
      BY <2>1, <2>2 DEF Told, Fresh, IsAnchor, GoodSwap
  <2>3. CASE last.state # "none"
    <3>1. /\ last.state = "success" /\ last.rate \in Rates /\ last.dir \in Directions
          /\ mem.anchor = last.rate /\ mem.dir = last.dir /\ mem.booked = last.dir
        BY <2>1, <2>3 DEF Told, GoodSwap
    <3>2. ~IsAnchor
        BY <3>1, ThorConstants DEF IsAnchor
    <3> QED
        BY <2>1, <3>1, <3>2 DEF Direction, Directions
  <2> QED
      BY <2>2, <2>3
<1> QED
    BY <1>1, LedgerInvariance, PTL

\* _validate_opportunity_conditions holds until the swap is booked: one executed at
\* the rate it was evaluated at beats the swap before it by the target spread.
THEOREM SpreadIsHeld == Spec => []SpreadHeld
<1>1. ASSUME IInv PROVE SpreadHeld
  <2> SUFFICES ASSUME ~loose, at = "booking", swap.rate = quote
               PROVE SpreadMet(swap.rate, last.rate, swap.dir)
      BY DEF SpreadHeld
  <2>1. SpreadMet(quote, mem.anchor, Direction)
      BY <1>1 DEF IInv, Chosen, LivePlaces, FlightKnown
  <2>2. mem.anchor = last.rate /\ swap.dir = Direction
      BY <1>1 DEF IInv, FlightTruth, FlightKnown, InFlight
  <2> QED
      BY <2>1, <2>2
<1> QED
    BY <1>1, LedgerInvariance, PTL

-----------------------------------------------------------------------------
(* What a quote was accepted for.                                           *)

Accepted == LivePlaces \cup {"revalidating"}

\* From its acceptance to the end of the turn a swap that is not the anchor trade
\* meets every condition of _validate_opportunity_conditions, the double inversion
\* of _calculate_asymmetry included.
Picky == at \in Accepted => IsAnchor \/ MeetsConditions

\* A turn leaves the places before acceptance by ConditionsMet alone; after it
\* neither the quote nor the swap it is compared with changes until the turn ends.
LEMMA AcceptedKeeps ==
    ASSUME IInv, [Next]_vars
    PROVE  \/ at' \notin Accepted
           \/ ConditionsMet
           \/ /\ at \in Accepted
              /\ UNCHANGED <<mode, quote>>
              /\ mem'.anchor = mem.anchor /\ mem'.dir = mem.dir
<1> USE DEF Accepted, LivePlaces
<1>1. CASE UNCHANGED vars
    BY <1>1 DEF vars, turnVars
<1>2. CASE AnchorBegins \/ TradeBegins \/ Quoted \/ NoOpportunity \/ ConditionsNotMet
    BY <1>2 DEF AnchorBegins, TradeBegins, CanBegin, Quoted, NoOpportunity,
       ConditionsNotMet, GoTo, Ends
<1>3. CASE DrySwap \/ AnchorParsed \/ BothGrown \/ NotBothGrown \/ NotParsed
           \/ SendFailed \/ AnchorSwapFails \/ SwapExpires \/ SwapRefunded
    BY <1>3 DEF DrySwap, AnchorParsed, AnchorBooks, BothGrown, NotBothGrown,
       NotParsed, SendFailed, AnchorSwapFails, SwapExpires, SwapRefunded, Ends
<1>4. CASE GuardExits \/ Crash \/ CrashInSave
    BY <1>4 DEF GuardExits, Crash, CrashInSave, ProcessEnds
<1>5. CASE LiveSwap \/ SendRepeated \/ SendAnswered \/ SendRefused \/ SwapSucceeded
    BY <1>5 DEF LiveSwap, SendRepeated, SendAnswered, SendRefused, SwapSucceeded, GoTo
<1>6. CASE Parsed
    BY <1>6 DEF Parsed, GoTo, IInv, TypeOK, Ledgers
<1>7. CASE StartDry \/ StartLive
    BY <1>7 DEF StartDry, StartLive, turnVars, IInv, DownIsEmpty
<1>8. CASE NodeSends \/ SwapEnds \/ Move \/ PauseFile
    BY <1>8 DEF NodeSends, SwapEnds, Move, PauseFile, turnVars
<1>9. CASE ConditionsMet
    BY <1>9
<1> QED
    BY <1>1, <1>2, <1>3, <1>4, <1>5, <1>6, <1>7, <1>8, <1>9 DEF Next, Turn

\* So what was accepted stays acceptable.
LEMMA PickyKept == IInv /\ Picky /\ [Next]_vars => Picky'
<1> SUFFICES ASSUME IInv, Picky, [Next]_vars PROVE Picky'
    OBVIOUS
<1>1. CASE ConditionsMet
    BY <1>1 DEF ConditionsMet, GoTo, Picky, IsAnchor, MeetsConditions,
       ProjectsGrowth, Direction
<1>2. CASE /\ at \in Accepted
           /\ UNCHANGED <<mode, quote>>
           /\ mem'.anchor = mem.anchor /\ mem'.dir = mem.dir
    BY <1>2 DEF Picky, IsAnchor, MeetsConditions, ProjectsGrowth, Direction
<1>3. CASE at' \notin Accepted
    BY <1>3 DEF Picky
<1> QED
    BY <1>1, <1>2, <1>3, AcceptedKeeps

\* A swap after the anchor trade is sent only for a quote that met every condition
\* of _validate_opportunity_conditions; a dry run executes the anchor trade only.
THEOREM SentMeetsConditions == Spec => []Picky
<1>1. Init => Picky
    BY DEF Init, Picky, Accepted, LivePlaces
<1> QED
    BY <1>1, PickyKept, LedgerInvariance, PTL DEF Spec

-----------------------------------------------------------------------------
(* Below parity.                                                            *)

\* No ledger, in memory or in the file, tells of a buy-back.
OneWay == mem.dir # "T2toT1" /\ file.dir # "T2toT1"

\* The market never gives more than one TOKEN2 for a TOKEN1.
BelowParity == \A r \in Rates : r <= One

\* The product that the double inversion compares with 1 is at most 1 when neither
\* factor is above 1.
LEMMA ProductBelowOne ==
    ASSUME NEW q \in Nat, NEW a \in Nat, q <= One, a <= One
    PROVE  ~(q * a > One * One)
<1>1. One \in Nat
    BY ThorConstants
<1>2. q * a <= One * a
    BY <1>1
<1>3. One * a <= One * One
    BY <1>1
<1>4. q * a \in Nat /\ One * a \in Nat /\ One * One \in Nat
    BY <1>1
<1> QED
    BY <1>2, <1>3, <1>4

\* With every rate at most 1, a swap after the anchor trade, which is a buy-back,
\* is never accepted.
LEMMA OnlyAnchorsAccepted ==
    ASSUME IInv, Picky, OneWay, BelowParity, at \in Accepted
    PROVE  IsAnchor
<1> SUFFICES ASSUME ~IsAnchor PROVE FALSE
    OBVIOUS
<1>1. Direction = "T2toT1"
    BY DEF Direction, Opposite, OneWay, IInv, TypeOK, Ledgers, Directions
<1>2. quote * mem.anchor > One * One
    BY <1>1 DEF Picky, MeetsConditions, AsymmetryPositive
<1>3. quote \in Rates \cup {0} /\ mem.anchor \in Rates \cup {0}
    BY DEF IInv, TypeOK, Ledgers
<1>4. ASSUME NEW r \in Rates \cup {0} PROVE r \in Nat /\ r <= One
  <2>1. CASE r \in Rates
    BY <2>1, ThorConstants DEF BelowParity
  <2>2. CASE r = 0
    BY <2>2, ThorConstants
  <2> QED
    BY <2>1, <2>2
<1> QED
    BY <1>2, <1>3, <1>4, ProductBelowOne

\* What a save leaves tells of no buy-back if neither ledger does.
LEMMA SaveOneWay ==
    ASSUME NEW r, Save(r), r.dir # "T2toT1", file.dir # "T2toT1"
    PROVE  file'.dir # "T2toT1"
BY DEF Save, Fresh

\* An anchor trade that is booked is not a buy-back either.
LEMMA OneWayKept ==
    ASSUME BelowParity
    PROVE  IInv /\ Picky /\ OneWay /\ [Next]_vars => OneWay'
<1> SUFFICES ASSUME IInv, Picky, OneWay, [Next]_vars PROVE OneWay'
    OBVIOUS
<1> USE DEF OneWay
<1>1. CASE UNCHANGED <<mem, diskVars>>
    BY <1>1 DEF diskVars
<1>2. CASE UNCHANGED mem /\ Save(mem)
    BY <1>2, SaveOneWay
<1>3. CASE DrySwap \/ AnchorParsed
  <2>1. IsAnchor
    BY <1>3, OnlyAnchorsAccepted DEF DrySwap, AnchorParsed, Accepted
  <2>2. PICK s : AnchorBooks(s) /\ s.dir = Direction
    BY <1>3 DEF DrySwap, AnchorParsed, IInv, FlightKnown, InFlight
  <2>3. mem'.dir = "T1toT2" /\ Save(mem')
    BY <2>1, <2>2 DEF AnchorBooks, Direction
  <2> QED
    BY <2>3, SaveOneWay
<1>4. CASE BothGrown
  <2>1. at = "booking" /\ ~IsAnchor
    BY <1>4 DEF BothGrown, IInv, FlightKnown
  <2> QED
    BY <2>1, OnlyAnchorsAccepted DEF Accepted, LivePlaces
<1>5. CASE Parsed
    BY <1>5 DEF Parsed, diskVars, IInv, TypeOK, Ledgers
<1>6. CASE Crash \/ CrashInSave \/ GuardExits
    BY <1>6 DEF Crash, CrashInSave, GuardExits, ProcessEnds, Fresh
<1>7. CASE StartLive
  <2>1. mem'.dir # "T2toT1"
    BY <1>7 DEF StartLive, Load, IInv, TypeOK, Ledgers
  <2>2. Save(mem') \/ UNCHANGED file
    BY <1>7 DEF StartLive, diskVars
  <2> QED
    BY <2>1, <2>2, SaveOneWay
<1>8. CASE \/ AnchorBegins \/ TradeBegins \/ Quoted \/ NoOpportunity \/ ConditionsMet
           \/ ConditionsNotMet \/ LiveSwap \/ SendRepeated \/ SendFailed
           \/ SendAnswered \/ SendRefused \/ SwapSucceeded
  <2>1. UNCHANGED mem /\ (Save(mem) \/ UNCHANGED diskVars)
    BY <1>8 DEF AnchorBegins, TradeBegins, Quoted, NoOpportunity, ConditionsMet,
       ConditionsNotMet, LiveSwap, SendRepeated, SendFailed, SendAnswered,
       SendRefused, SwapSucceeded, SavesReason
  <2> QED
    BY <1>1, <1>2, <2>1
<1>9. CASE \/ AnchorSwapFails \/ SwapExpires \/ SwapRefunded \/ NotParsed
           \/ NotBothGrown
  <2>1. UNCHANGED mem /\ (Save(mem) \/ UNCHANGED diskVars)
    BY <1>9 DEF AnchorSwapFails, SwapExpires, SwapRefunded, NotParsed, NotBothGrown,
       SavesReason, BreakerSaves
  <2> QED
    BY <1>1, <1>2, <2>1
<1>10. CASE StartDry \/ NodeSends \/ SwapEnds \/ Move \/ PauseFile \/ UNCHANGED vars
    BY <1>1, <1>10 DEF StartDry, NodeSends, SwapEnds, Move, PauseFile, vars
<1> QED
    BY <1>3, <1>4, <1>5, <1>6, <1>7, <1>8, <1>9, <1>10 DEF Next, Turn

\* On a pair whose rate, in TOKEN2 per TOKEN1, stays at 1 or below, the strategy is
\* not continuous: whatever the spreads it only ever makes anchor trades, in one
\* direction, and never buys TOKEN1 back.
THEOREM StuckBelowParity ==
    ASSUME BelowParity
    PROVE  Spec => [](InFlight => IsAnchor /\ swap.dir = "T1toT2")
<1>1. Init => OneWay
    BY DEF Init, OneWay, Fresh
<1>2. IInv /\ Picky /\ OneWay => (InFlight => IsAnchor /\ swap.dir = "T1toT2")
  <2> SUFFICES ASSUME IInv, Picky, OneWay, InFlight
               PROVE  IsAnchor /\ swap.dir = "T1toT2"
    OBVIOUS
  <2>1. IsAnchor
    BY OnlyAnchorsAccepted DEF InFlight, Accepted, LivePlaces
  <2> QED
    BY <2>1 DEF IInv, FlightKnown, Direction
<1> QED
    BY <1>1, <1>2, OneWayKept, LedgerInvariance, SentMeetsConditions, PTL DEF Spec
=============================================================================
