------------------------ MODULE ArbitrageSagaProofs ------------------------
(***************************************************************************)
(* The safety of the two-legged trades for any number of trades, of faults *)
(* of the disk, of crashes and of resumptions.                             *)
(***************************************************************************)
EXTENDS ArbitrageSaga, TLAPS

BeforeTake == {"new", "checking", "routing", "evaluating"}
AfterFirst == {"quoting", "swapping", "sent", "thor_monitor", "verifying"}

\* What the position of a coroutine says of the two legs.
Placed(t) ==
    /\ at[t] \in BeforeTake => order[t] = "none"
    /\ at[t] = "taking" => sends[t] = 0
    /\ at[t] = "xb_monitor" => order[t] # "none"
    /\ at[t] \in AfterFirst => order[t] = "finished"
    /\ at[t] = "sent" => sends[t] > 0

\* RecordTruth, trade by trade. A transaction id is known of a send only.
Recorded(t) ==
    /\ file[t] = "XBRIDGE_INITIATED" => order[t] # "none"
    /\ file[t] \in {"XBRIDGE_CONFIRMED", "THORCHAIN_INITIATED", "AWAITING_REFUND"}
           => order[t] = "finished"
    /\ txid[t] = "real" => sends[t] > 0
    /\ sends[t] > 0 => order[t] = "finished"

\* NoBlindSpot, and the file that stands for a trade while it is executed.
Traced(t) ==
    ~unsaved[t] =>
        /\ at[t] \in Waits \ BeforeTake => file[t] # "none"
        /\ order[t] # "none" => \/ file[t] # "none"
                                \/ archived[t] # "no"
                                \/ swap[t] = "success"

\* A second leg that was sent, and is not being answered, is either booked as such
\* by the file or known not to be: nothing leads to another send unnoticed.
Booked(t) ==
    sends[t] > 0 /\ ~unbooked[t] =>
        /\ sends[t] = 1
        /\ at[t] \notin {"xb_monitor", "quoting", "swapping"}
        /\ file[t] \in {"INITIATED", "XBRIDGE_INITIATED", "XBRIDGE_CONFIRMED"}
               => at[t] = "sent"

Sound(t) == Placed(t) /\ Recorded(t) /\ Traced(t) /\ Booked(t)

Inv == TypeOK /\ (\A t \in Trades : Sound(t)) /\ PauseHolds

\* The invariant is the conjunction of what the run checks, made inductive.
THEOREM InvImplies ==
    Inv => TypeOK /\ RecordTruth /\ NoBlindSpot /\ SecondLegOnce /\ PauseHolds
<1> SUFFICES ASSUME Inv PROVE RecordTruth /\ NoBlindSpot /\ SecondLegOnce
    BY DEF Inv
<1>1. RecordTruth
    BY DEF Inv, Sound, Recorded, RecordTruth
<1>2. NoBlindSpot
    BY DEF Inv, Sound, Traced, NoBlindSpot
<1>3. SecondLegOnce
    BY SagaConstants DEF Inv, TypeOK, Sound, Booked, SecondLegOnce
<1> QED
    BY <1>1, <1>2, <1>3

\* Nothing has begun.
LEMMA InitInv == Init => Inv
<1> SUFFICES ASSUME Init PROVE Inv
    OBVIOUS
<1>1. TypeOK
  <2>1. sends \in [Trades -> 0..MaxSends] /\ todo \subseteq Trades
    BY SagaConstants DEF Init
  <2>2. /\ evidence \in [Trades -> BOOLEAN] /\ unsaved \in [Trades -> BOOLEAN]
        /\ unbooked \in [Trades -> BOOLEAN] /\ paused \in BOOLEAN
    BY DEF Init
  <2> QED
    BY <2>1, <2>2 DEF Init, TypeOK
<1>2. \A t \in Trades : Sound(t)
    BY DEF Init, Sound, Placed, Recorded, Traced, Booked, AfterFirst, Waits, BeforeTake
<1>3. PauseHolds
    BY DEF Init, PauseHolds
<1> QED
    BY <1>1, <1>2, <1>3 DEF Inv

-----------------------------------------------------------------------------
(* Each step keeps the types. *)

\* A save, done or failed, keeps the types of what it writes.
LEMMA SaveType ==
    ASSUME TypeOK, NEW t \in Trades, NEW s \in Statuses, Save(t, s)
    PROVE  /\ file' \in [Trades -> Statuses \cup {"none", "torn"}]
           /\ unsaved' \in [Trades -> BOOLEAN]
BY DEF TypeOK, Save

\* An archival keeps the types of what it writes.
LEMMA ArchiveType ==
    ASSUME TypeOK, NEW t \in Trades, NEW r \in Reasons, Archive(t, r)
    PROVE  /\ file' \in [Trades -> Statuses \cup {"none", "torn"}]
           /\ archived' \in [Trades -> Reasons \cup {"no"}]
BY DEF TypeOK, Archive

\* The end of the process keeps the types of what it loses.
LEMMA ProcessEndsType ==
    ASSUME TypeOK, ProcessEnds
    PROVE  /\ mode' \in {"down", "loop", "resume"}
           /\ at' \in [Trades -> Waits \cup {"new", "ended"}]
           /\ todo' \subseteq Trades
           /\ unbooked' \in [Trades -> BOOLEAN]
BY DEF TypeOK, ProcessEnds

\* Steps that only move a coroutine.
LEMMA CheckTypes ==
    ASSUME TypeOK, NEW t \in Trades,
           \/ OrderFound(t) \/ NoAffordableOrder(t) \/ PathActive(t) \/ PathHalted(t)
           \/ NotProfitable(t) \/ NoUsableQuote(t) \/ StillProfitable(t)
           \/ RefundNotSeen(t)
    PROVE  TypeOK'
BY DEF TypeOK, OrderFound, NoAffordableOrder, PathActive, PathHalted, NotProfitable,
       NoUsableQuote, StillProfitable, RefundNotSeen, OnlyMoves, GoTo, Ends, Waits,
       diskVars, worldVars, ghostVars

\* Steps that save.
LEMMA SaveTypes ==
    ASSUME TypeOK, NEW t \in Trades,
           \/ ExecuteArbitrage(t) \/ TakeAnswered(t) \/ XBridgeCompleted(t)
           \/ SwapInitiated(t) \/ ThorchainNotCompleted(t)
    PROVE  TypeOK'
<1> USE DEF GoTo, Ends, Waits, diskVars, worldVars, ghostVars
<1>1. CASE ExecuteArbitrage(t)
    BY <1>1, SaveType DEF TypeOK, ExecuteArbitrage, Statuses
<1>2. CASE TakeAnswered(t)
    BY <1>2, SaveType DEF TypeOK, TakeAnswered, Statuses
<1>3. CASE XBridgeCompleted(t)
    BY <1>3, SaveType DEF TypeOK, XBridgeCompleted, Statuses
<1>4. CASE SwapInitiated(t)
    BY <1>4, SaveType DEF TypeOK, SwapInitiated, Statuses
<1>5. CASE ThorchainNotCompleted(t)
    BY <1>5, SaveType DEF TypeOK, ThorchainNotCompleted, Statuses
<1> QED
    BY <1>1, <1>2, <1>3, <1>4, <1>5

\* Steps that archive.
LEMMA ArchiveTypes ==
    ASSUME TypeOK, NEW t \in Trades,
           \/ TakeFailed(t) \/ XBridgeNotCompleted(t) \/ NoLongerProfitable(t)
           \/ RefundConfirmed(t) \/ ResumeTrade(t)
    PROVE  TypeOK'
<1> USE DEF GoTo, Ends, Waits, diskVars, worldVars, ghostVars
<1>1. CASE TakeFailed(t)
    BY <1>1, ArchiveType DEF TypeOK, TakeFailed, Reasons
<1>2. CASE XBridgeNotCompleted(t)
    BY <1>2, ArchiveType DEF TypeOK, XBridgeNotCompleted, Reasons
<1>3. CASE NoLongerProfitable(t)
    BY <1>3, ArchiveType DEF TypeOK, NoLongerProfitable, Reasons
<1>4. CASE RefundConfirmed(t)
    BY <1>4, ArchiveType DEF TypeOK, RefundConfirmed, Reasons
<1>5. CASE ResumeTrade(t)
  <2>1. CASE file[t] \in Statuses \ {"INITIATED"}
    BY <1>5, <2>1 DEF TypeOK, ResumeTrade, HandlerOf, Statuses
  <2>2. CASE ~(file[t] \in Statuses \ {"INITIATED"})
    BY <1>5, <2>2, ArchiveType DEF TypeOK, ResumeTrade, Reasons
  <2> QED
    BY <2>1, <2>2
<1> QED
    BY <1>1, <1>2, <1>3, <1>4, <1>5

\* The other steps of a coroutine.
LEMMA OtherTypes ==
    ASSUME TypeOK, NEW t \in Trades,
           \/ RepeatSend(t) \/ SwapNotInitiated(t) \/ ThorchainCompleted(t)
           \/ PauseNotWritten(t) \/ World(t)
    PROVE  TypeOK'
<1> USE SagaConstants DEF GoTo, Ends, Waits, diskVars, worldVars, ghostVars
<1>1. CASE RepeatSend(t) \/ SwapNotInitiated(t)
    BY <1>1 DEF TypeOK, RepeatSend, SwapNotInitiated
<1>2. CASE ThorchainCompleted(t) \/ PauseNotWritten(t)
    BY <1>2 DEF TypeOK, ThorchainCompleted, PauseNotWritten, Delete
<1>3. CASE World(t)
    BY <1>3 DEF TypeOK, World, NodeTakes, OrderEnds, NodeSends, SwapEnds
<1> QED
    BY <1>1, <1>2, <1>3

\* Steps of the loop, the process, the wallet and THORChain.
LEMMA ProcessTypes ==
    ASSUME TypeOK,
           \/ Crash \/ Start \/ Resume \/ Resumed
           \/ \E t \in Trades : SwapGuardExits(t) \/ CrashInside(t)
           \/ \E S \in SUBSET Trades : Cycle(S) \/ Receipt(S)
    PROVE  TypeOK'
<1> USE DEF Waits, diskVars, worldVars, ghostVars
<1>1. CASE Crash \/ \E t \in Trades : SwapGuardExits(t)
    BY <1>1, ProcessEndsType DEF TypeOK, Crash, SwapGuardExits
<1>2. CASE Start \/ Resume \/ Resumed
    BY <1>2 DEF TypeOK, Start, Resume, Resumed, Unfinished
<1>3. CASE \E t \in Trades : CrashInside(t)
  <2> SUFFICES ASSUME NEW t \in Trades, CrashInside(t) PROVE TypeOK'
    BY <1>3
  <2>1. CASE CrashInSave(t)
    <3>1. /\ file' \in [Trades -> Statuses \cup {"none", "torn"}]
          /\ unsaved' \in [Trades -> BOOLEAN]
      BY <2>1 DEF TypeOK, CrashInSave
    <3>2. paused' \in BOOLEAN
      BY <2>1 DEF CrashInSave
    <3> QED
      BY <2>1, <3>1, <3>2, ProcessEndsType DEF TypeOK, CrashInSave
  <2>2. CASE CrashAfterPause(t) \/ CrashAfterLift(t)
    BY <2>2, ProcessEndsType DEF TypeOK, CrashAfterPause, CrashAfterLift
  <2> QED
    BY <2>1, <2>2 DEF CrashInside
<1>4. CASE \E S \in SUBSET Trades : Cycle(S) \/ Receipt(S)
  <2> SUFFICES ASSUME NEW S \in SUBSET Trades, Cycle(S) \/ Receipt(S) PROVE TypeOK'
    BY <1>4
  <2>1. CASE Cycle(S)
    <3>1. at' \in [Trades -> Waits \cup {"new", "ended"}]
      BY <2>1 DEF TypeOK, Cycle
    <3> QED
      BY <2>1, <3>1 DEF TypeOK, Cycle
  <2>2. CASE Receipt(S)
    <3>1. evidence' \in [Trades -> BOOLEAN]
      BY <2>2 DEF TypeOK, Receipt
    <3> QED
      BY <2>2, <3>1 DEF TypeOK, Receipt
  <2> QED
    BY <2>1, <2>2
<1> QED
    BY <1>1, <1>2, <1>3, <1>4

-----------------------------------------------------------------------------
(* Each step keeps what the positions, the files and the two legs say of each *)
(* other.                                                                    *)

Same(t) ==
    /\ at'[t] = at[t] /\ file'[t] = file[t] /\ txid'[t] = txid[t]
    /\ archived'[t] = archived[t] /\ order'[t] = order[t] /\ sends'[t] = sends[t]
    /\ swap'[t] = swap[t] /\ unsaved'[t] = unsaved[t] /\ unbooked'[t] = unbooked[t]

\* A trade that a step does not touch stays as it is.
LEMMA SameIsSound ==
    ASSUME NEW t \in Trades, Sound(t), Same(t)
    PROVE  Sound(t)'
BY DEF Sound, Placed, Recorded, Traced, Booked, Same

\* A coroutine moves, and nothing else does.
LEMMA CheckSound ==
    ASSUME TypeOK, \A u \in Trades : Sound(u), NEW t \in Trades,
           \/ OrderFound(t) \/ NoAffordableOrder(t) \/ PathActive(t) \/ PathHalted(t)
           \/ NotProfitable(t) \/ NoUsableQuote(t) \/ StillProfitable(t)
           \/ RefundNotSeen(t)
    PROVE  \A u \in Trades : Sound(u)'
<1> USE DEF OrderFound, NoAffordableOrder, PathActive, PathHalted, NotProfitable,
            NoUsableQuote, StillProfitable, RefundNotSeen, OnlyMoves, GoTo, Ends,
            diskVars, worldVars, ghostVars
<1>1. Sound(t)'
  <2> USE DEF TypeOK, BeforeTake, AfterFirst, Waits
  <2>1. Placed(t)' /\ Recorded(t)'
    BY DEF Sound, Placed, Recorded
  <2>2. Traced(t)'
    BY DEF Sound, Traced
  <2>3. Booked(t)'
    BY DEF Sound, Booked, Placed, Recorded
  <2> QED
    BY <2>1, <2>2, <2>3 DEF Sound
<1>2. ASSUME NEW u \in Trades, u # t PROVE Same(u)
  BY <1>2 DEF Same, TypeOK
<1> QED
  BY <1>1, <1>2, SameIsSound

\* A coroutine moves on after a save, whether the save succeeds or not.
LEMMA SaveSound ==
    ASSUME TypeOK, \A u \in Trades : Sound(u), NEW t \in Trades,
           \/ ExecuteArbitrage(t) \/ TakeAnswered(t) \/ XBridgeCompleted(t)
           \/ SwapInitiated(t) \/ ThorchainNotCompleted(t)
    PROVE  \A u \in Trades : Sound(u)'
<1> USE DEF GoTo, Ends, Save, diskVars, worldVars, ghostVars
<1>1. CASE ExecuteArbitrage(t)
  <2> USE DEF TypeOK, BeforeTake, AfterFirst, Waits, Statuses
  <2>1. Sound(t)'
    BY <1>1 DEF ExecuteArbitrage, Sound, Placed, Recorded, Traced, Booked
  <2>2. ASSUME NEW u \in Trades, u # t PROVE Same(u)
    BY <1>1, <2>2 DEF Same, ExecuteArbitrage
  <2> QED
    BY <2>1, <2>2, SameIsSound
<1>2. CASE TakeAnswered(t)
  <2> USE DEF TypeOK, BeforeTake, AfterFirst, Waits, Statuses
  <2>1. Sound(t)'
    BY <1>2 DEF TakeAnswered, Sound, Placed, Recorded, Traced, Booked
  <2>2. ASSUME NEW u \in Trades, u # t PROVE Same(u)
    BY <1>2, <2>2 DEF Same, TakeAnswered
  <2> QED
    BY <2>1, <2>2, SameIsSound
<1>3. CASE XBridgeCompleted(t)
  <2> USE DEF TypeOK, BeforeTake, AfterFirst, Waits, Statuses
  <2>1. Sound(t)'
    BY <1>3 DEF XBridgeCompleted, Sound, Placed, Recorded, Traced, Booked
  <2>2. ASSUME NEW u \in Trades, u # t PROVE Same(u)
    BY <1>3, <2>2 DEF Same, XBridgeCompleted
  <2> QED
    BY <2>1, <2>2, SameIsSound
<1>4. CASE SwapInitiated(t)
  <2> USE DEF TypeOK, BeforeTake, AfterFirst, Waits, Statuses
  <2>1. Placed(t)' /\ Recorded(t)'
    BY <1>4 DEF SwapInitiated, Sound, Placed, Recorded
  <2>2. Traced(t)'
    BY <1>4 DEF SwapInitiated, Sound, Traced
  <2>3. Booked(t)'
    BY <1>4 DEF SwapInitiated, Sound, Booked
  <2>4. ASSUME NEW u \in Trades, u # t PROVE Same(u)
    BY <1>4, <2>4 DEF Same, SwapInitiated
  <2> QED
    BY <2>1, <2>2, <2>3, <2>4, SameIsSound DEF Sound
<1>5. CASE ThorchainNotCompleted(t)
  <2> USE DEF TypeOK, BeforeTake, AfterFirst, Waits, Statuses
  <2>1. Sound(t)'
    BY <1>5 DEF ThorchainNotCompleted, Sound, Placed, Recorded, Traced, Booked
  <2>2. ASSUME NEW u \in Trades, u # t PROVE Same(u)
    BY <1>5, <2>2 DEF Same, ThorchainNotCompleted
  <2> QED
    BY <2>1, <2>2, SameIsSound
<1> QED
  BY <1>1, <1>2, <1>3, <1>4, <1>5

\* A coroutine ends with an archival, or the resumption takes up a record.
LEMMA ArchiveSound ==
    ASSUME TypeOK, \A u \in Trades : Sound(u), NEW t \in Trades,
           \/ TakeFailed(t) \/ XBridgeNotCompleted(t) \/ NoLongerProfitable(t)
           \/ RefundConfirmed(t) \/ ResumeTrade(t)
    PROVE  \A u \in Trades : Sound(u)'
<1> USE DEF GoTo, Ends, Archive, diskVars, worldVars, ghostVars
<1>1. ASSUME NEW r \in Reasons, Archive(t, r), at' = [at EXCEPT ![t] = "ended"] \/ at' = at,
             UNCHANGED <<txid, order, sends, swap, unsaved, unbooked>>,
             at'[t] \notin Waits, at[t] # "sent"
      PROVE  \A u \in Trades : Sound(u)'
  <2> USE DEF TypeOK, BeforeTake, AfterFirst, Waits, Reasons
  <2>1. Placed(t)' /\ Recorded(t)'
    BY <1>1 DEF Sound, Placed, Recorded
  <2>2. Traced(t)'
    BY <1>1 DEF Sound, Traced
  <2>3. Booked(t)'
    BY <1>1 DEF Sound, Booked, Placed
  <2>4. ASSUME NEW u \in Trades, u # t PROVE Same(u)
    BY <1>1, <2>4 DEF Same
  <2> QED
    BY <2>1, <2>2, <2>3, <2>4, SameIsSound DEF Sound
<1>2. CASE TakeFailed(t)
  BY <1>1, <1>2 DEF TakeFailed, TypeOK, Waits, Reasons
<1>3. CASE XBridgeNotCompleted(t)
  BY <1>1, <1>3 DEF XBridgeNotCompleted, TypeOK, Waits, Reasons
<1>4. CASE NoLongerProfitable(t)
  BY <1>1, <1>4 DEF NoLongerProfitable, TypeOK, Waits, Reasons
<1>5. CASE RefundConfirmed(t)
  BY <1>1, <1>5 DEF RefundConfirmed, TypeOK, Waits, Reasons
<1>6. CASE ResumeTrade(t) /\ file[t] \notin Statuses \ {"INITIATED"}
  BY <1>1, <1>6 DEF ResumeTrade, AllQuiet, Busy, TypeOK, Reasons
<1>7. CASE ResumeTrade(t) /\ file[t] \in Statuses \ {"INITIATED"}
  <2> USE DEF TypeOK, BeforeTake, AfterFirst, Waits, Statuses, HandlerOf
  <2>0. at[t] \notin Waits
    BY <1>7 DEF ResumeTrade, AllQuiet, Busy
  <2>1. Placed(t)' /\ Recorded(t)'
    BY <1>7 DEF ResumeTrade, Sound, Placed, Recorded
  <2>2. Traced(t)'
    BY <1>7 DEF ResumeTrade, Sound, Traced
  <2>3. Booked(t)'
    BY <1>7, <2>0 DEF ResumeTrade, Sound, Booked
  <2>4. ASSUME NEW u \in Trades, u # t PROVE Same(u)
    BY <1>7, <2>4 DEF Same, ResumeTrade
  <2> QED
    BY <2>1, <2>2, <2>3, <2>4, SameIsSound DEF Sound
<1> QED
  BY <1>2, <1>3, <1>4, <1>5, <1>6, <1>7

\* The second leg, up to the answer of its send, and its end.
LEMMA SwapSound ==
    ASSUME TypeOK, \A u \in Trades : Sound(u), NEW t \in Trades,
           \/ RepeatSend(t) \/ SwapNotInitiated(t) \/ ThorchainCompleted(t)
           \/ PauseNotWritten(t)
    PROVE  \A u \in Trades : Sound(u)'
<1> USE DEF GoTo, Ends, Delete, diskVars, worldVars, ghostVars
<1>1. CASE RepeatSend(t) \/ SwapNotInitiated(t) \/ PauseNotWritten(t)
  <2> USE DEF RepeatSend, SwapNotInitiated, PauseNotWritten, TypeOK, BeforeTake,
              AfterFirst, Waits
  <2>1. Placed(t)' /\ Recorded(t)'
    BY <1>1 DEF Sound, Placed, Recorded
  <2>2. Traced(t)'
    BY <1>1 DEF Sound, Traced
  <2>3. Booked(t)'
    <3>1. CASE RepeatSend(t)
      BY <3>1 DEF Booked
    <3>2. CASE SwapNotInitiated(t)
      BY <3>2 DEF Sound, Booked
    <3>3. CASE PauseNotWritten(t)
      BY <3>3 DEF Sound, Booked
    <3> QED
      BY <1>1, <3>1, <3>2, <3>3
  <2>4. ASSUME NEW u \in Trades, u # t PROVE Same(u)
    BY <1>1, <2>4 DEF Same
  <2> QED
    BY <2>1, <2>2, <2>3, <2>4, SameIsSound DEF Sound
<1>2. CASE ThorchainCompleted(t)
  <2> USE DEF ThorchainCompleted, TypeOK, BeforeTake, AfterFirst, Waits
  <2>1. swap[t] = "success"
    BY <1>2 DEF TxStatus
  <2>2. Sound(t)'
    BY <1>2, <2>1 DEF Sound, Placed, Recorded, Traced, Booked
  <2>3. ASSUME NEW u \in Trades, u # t PROVE Same(u)
    BY <1>2, <2>3 DEF Same
  <2> QED
    BY <2>2, <2>3, SameIsSound
<1> QED
  BY <1>1, <1>2

\* The wallet takes an order only for a trade that waits for it, and sends only
\* for one whose first leg is finished and whose earlier sends are known.
LEMMA WorldSound ==
    ASSUME TypeOK, \A u \in Trades : Sound(u), NEW t \in Trades, World(t)
    PROVE  \A u \in Trades : Sound(u)'
<1> USE DEF GoTo, diskVars, ghostVars, TypeOK, BeforeTake, AfterFirst, Waits
<1>1. CASE NodeTakes(t)
  <2>1. Sound(t)'
    BY <1>1 DEF NodeTakes, Sound, Placed, Recorded, Traced, Booked
  <2>2. ASSUME NEW u \in Trades, u # t PROVE Same(u)
    BY <1>1, <2>2 DEF Same, NodeTakes
  <2> QED
    BY <2>1, <2>2, SameIsSound
<1>2. CASE OrderEnds(t)
  <2>1. Sound(t)'
    BY <1>2 DEF OrderEnds, Sound, Placed, Recorded, Traced, Booked
  <2>2. ASSUME NEW u \in Trades, u # t PROVE Same(u)
    BY <1>2, <2>2 DEF Same, OrderEnds
  <2> QED
    BY <2>1, <2>2, SameIsSound
<1>3. CASE NodeSends(t)
  <2> USE SagaConstants DEF NodeSends
  <2>1. sends[t] \in Nat /\ sends'[t] = sends[t] + 1
    BY <1>3
  <2>2. Placed(t)' /\ Recorded(t)'
    BY <1>3, <2>1 DEF Sound, Placed, Recorded
  <2>3. Traced(t)'
    BY <1>3 DEF Sound, Traced
  <2>4. Booked(t)'
    BY <1>3, <2>1 DEF Sound, Booked
  <2>5. ASSUME NEW u \in Trades, u # t PROVE Same(u)
    BY <1>3, <2>5 DEF Same
  <2> QED
    BY <2>2, <2>3, <2>4, <2>5, SameIsSound DEF Sound
<1>4. CASE SwapEnds(t)
  <2>1. Sound(t)'
    BY <1>4 DEF SwapEnds, Sound, Placed, Recorded, Traced, Booked
  <2>2. ASSUME NEW u \in Trades, u # t PROVE Same(u)
    BY <1>4, <2>2 DEF Same, SwapEnds
  <2> QED
    BY <2>1, <2>2, SameIsSound
<1> QED
  BY <1>1, <1>2, <1>3, <1>4 DEF World

\* The end of the process, in whatever a coroutine was doing, loses coroutines and
\* at most the file that was being written.
LEMMA EndSound ==
    ASSUME TypeOK, \A u \in Trades : Sound(u),
           Crash \/ \E t \in Trades : SwapGuardExits(t) \/ CrashInside(t)
    PROVE  \A u \in Trades : Sound(u)'
<1> SUFFICES ASSUME NEW u \in Trades PROVE Sound(u)'
    OBVIOUS
<1>1. /\ ProcessEnds
      /\ UNCHANGED <<txid, archived, order, sends, swap>>
      /\ \/ file'[u] = file[u] /\ unsaved'[u] = unsaved[u]
         \/ file'[u] = "torn" /\ unsaved'[u] = TRUE
  BY DEF Crash, SwapGuardExits, CrashInside, CrashInSave, CrashAfterPause,
         CrashAfterLift, diskVars, worldVars, TypeOK
<1> USE <1>1 DEF ProcessEnds, Busy, TypeOK, BeforeTake, AfterFirst, Waits
<1>2. Placed(u)' /\ Recorded(u)'
  BY DEF Sound, Placed, Recorded
<1>3. Traced(u)'
  BY DEF Sound, Traced
<1>4. Booked(u)'
  BY DEF Sound, Booked
<1> QED
  BY <1>2, <1>3, <1>4 DEF Sound

\* Turns of the main loop, starts, resumptions and receipts move at most new trades.
LEMMA LoopSound ==
    ASSUME TypeOK, \A u \in Trades : Sound(u),
           \/ Start \/ Resume \/ Resumed
           \/ \E S \in SUBSET Trades : Cycle(S) \/ Receipt(S)
    PROVE  \A u \in Trades : Sound(u)'
<1> USE DEF diskVars, worldVars, ghostVars
<1>1. CASE Start \/ Resume \/ Resumed \/ \E S \in SUBSET Trades : Receipt(S)
  BY <1>1, SameIsSound DEF Same, Start, Resume, Resumed, Receipt
<1>2. ASSUME NEW S \in SUBSET Trades, Cycle(S) PROVE \A u \in Trades : Sound(u)'
  <2>1. ASSUME NEW u \in S PROVE Sound(u)'
    BY <1>2, <2>1 DEF Cycle, TypeOK, Sound, Placed, Recorded, Traced, Booked,
                      BeforeTake, AfterFirst, Waits
  <2>2. ASSUME NEW u \in Trades \ S PROVE Same(u)
    BY <1>2, <2>2 DEF Cycle, Same
  <2> QED
    BY <2>1, <2>2, SameIsSound
<1> QED
  BY <1>1, <1>2

-----------------------------------------------------------------------------
(* The pause. *)

\* Only a step that starts a wait, which pauses first, and one that has seen a
\* receipt matter to the pause.
LEMMA PauseKept ==
    ASSUME TypeOK, PauseHolds, [Next]_vars
    PROVE  PauseHolds'
<1> USE DEF PauseHolds, TypeOK, diskVars, worldVars, ghostVars
<1>1. ASSUME \A u \in Trades : evidence[u] => evidence'[u],
             \/ paused'
             \/ \E u \in Trades : evidence[u]
             \/ /\ paused' = paused
                /\ \A u \in Trades :
                       file'[u] = "AWAITING_REFUND" => file[u] = "AWAITING_REFUND"
      PROVE  PauseHolds'
  BY <1>1
<1>2. CASE UNCHANGED vars
  BY <1>2 DEF vars
<1>3. ASSUME NEW t \in Trades, Step(t) PROVE PauseHolds'
  <2>1. CASE \/ OrderFound(t) \/ NoAffordableOrder(t) \/ PathActive(t) \/ PathHalted(t)
             \/ NotProfitable(t) \/ NoUsableQuote(t) \/ StillProfitable(t)
             \/ RefundNotSeen(t)
    BY <1>1, <2>1 DEF OrderFound, NoAffordableOrder, PathActive, PathHalted,
        NotProfitable, NoUsableQuote, StillProfitable, RefundNotSeen, OnlyMoves
  <2>2. CASE \/ ExecuteArbitrage(t) \/ TakeAnswered(t) \/ XBridgeCompleted(t)
             \/ SwapInitiated(t)
    BY <1>1, <2>2 DEF ExecuteArbitrage, TakeAnswered, XBridgeCompleted,
        SwapInitiated, Save
  <2>3. CASE \/ TakeFailed(t) \/ XBridgeNotCompleted(t) \/ NoLongerProfitable(t)
    BY <1>1, <2>3 DEF TakeFailed, XBridgeNotCompleted, NoLongerProfitable, Archive
  <2>4. CASE \/ SwapGuardExits(t) \/ RepeatSend(t) \/ SwapNotInitiated(t)
             \/ PauseNotWritten(t)
    BY <1>1, <2>4 DEF SwapGuardExits, RepeatSend, SwapNotInitiated, PauseNotWritten
  <2>5. CASE ThorchainCompleted(t)
    BY <1>1, <2>5 DEF ThorchainCompleted, Delete
  <2>6. CASE ThorchainNotCompleted(t)
    BY <1>1, <2>6 DEF ThorchainNotCompleted
  <2>7. CASE RefundConfirmed(t)
    BY <1>1, <2>7 DEF RefundConfirmed
  <2> QED
    BY <1>3, <2>1, <2>2, <2>3, <2>4, <2>5, <2>6, <2>7 DEF Step
<1>4. ASSUME NEW t \in Trades, World(t) PROVE PauseHolds'
  BY <1>1, <1>4 DEF World, NodeTakes, OrderEnds, NodeSends, SwapEnds
<1>5. ASSUME NEW t \in Trades, ResumeTrade(t) PROVE PauseHolds'
  BY <1>1, <1>5 DEF ResumeTrade, Archive
<1>6. ASSUME NEW t \in Trades, CrashInside(t) PROVE PauseHolds'
  BY <1>1, <1>6 DEF CrashInside, CrashInSave, CrashAfterPause, CrashAfterLift
<1>7. CASE Crash \/ Start \/ Resume \/ Resumed
  BY <1>1, <1>7 DEF Crash, Start, Resume, Resumed
<1>8. ASSUME NEW S \in SUBSET Trades, Cycle(S) \/ Receipt(S) PROVE PauseHolds'
  BY <1>1, <1>8 DEF Cycle, Receipt
<1> QED
  BY <1>2, <1>3, <1>4, <1>5, <1>6, <1>7, <1>8 DEF Next

-----------------------------------------------------------------------------

\* Every step keeps the invariant.
LEMMA NextInv == Inv /\ [Next]_vars => Inv'
<1> SUFFICES ASSUME Inv, [Next]_vars PROVE Inv'
    OBVIOUS
<1> USE DEF Inv
<1>1. PauseHolds'
  BY PauseKept
<1>2. CASE UNCHANGED vars
  <2>1. TypeOK'
    BY <1>2 DEF TypeOK, vars, diskVars, worldVars, ghostVars
  <2>2. \A t \in Trades : Sound(t)'
    BY <1>2, SameIsSound DEF Same, vars, diskVars, worldVars, ghostVars
  <2> QED
    BY <1>1, <2>1, <2>2
<1>3. ASSUME NEW t \in Trades, Step(t) PROVE TypeOK' /\ \A u \in Trades : Sound(u)'
  BY <1>3, CheckTypes, CheckSound, SaveTypes, SaveSound, ArchiveTypes, ArchiveSound,
     OtherTypes, SwapSound, ProcessTypes, EndSound DEF Step
<1>4. ASSUME NEW t \in Trades, World(t) PROVE TypeOK' /\ \A u \in Trades : Sound(u)'
  BY <1>4, OtherTypes, WorldSound
<1>5. ASSUME NEW t \in Trades, ResumeTrade(t)
      PROVE TypeOK' /\ \A u \in Trades : Sound(u)'
  BY <1>5, ArchiveTypes, ArchiveSound
<1>6. ASSUME NEW t \in Trades, CrashInside(t)
      PROVE TypeOK' /\ \A u \in Trades : Sound(u)'
  BY <1>6, ProcessTypes, EndSound
<1>7. CASE Crash
  BY <1>1, <1>7, ProcessTypes, EndSound
<1>8. CASE Start \/ Resume \/ Resumed
  BY <1>1, <1>8, ProcessTypes, LoopSound
<1>9. ASSUME NEW S \in SUBSET Trades, Cycle(S) \/ Receipt(S)
      PROVE TypeOK' /\ \A u \in Trades : Sound(u)'
  BY <1>9, ProcessTypes, LoopSound
<1> QED
  BY <1>1, <1>2, <1>3, <1>4, <1>5, <1>6, <1>7, <1>8, <1>9 DEF Next

\* The inductive invariant holds in every state.
THEOREM SagaInvariance == Spec => []Inv
BY InitInv, NextInv, PTL DEF Spec

\* Every variable keeps its type, whatever fails.
THEOREM SagaTypeCorrect == Spec => []TypeOK
BY SagaInvariance, InvImplies, PTL

\* What a state file claims has happened has happened, and a second leg is never
\* sent before the first is finished, over crashes, resumptions and failed saves.
THEOREM RecordsAreTrue == Spec => []RecordTruth
BY SagaInvariance, InvImplies, PTL

\* No order that the wallet took is forgotten, but for failed saves.
THEOREM OrdersLeaveATrace == Spec => []NoBlindSpot
BY SagaInvariance, InvImplies, PTL

\* No second leg is sent twice, but for a send whose answer reached no file.
THEOREM NoSecondSend == Spec => []SecondLegOnce
BY SagaInvariance, InvImplies, PTL

\* Trading stays paused while a refund is awaited, until a receipt passes for one.
THEOREM PauseIsKept == Spec => []PauseHolds
BY SagaInvariance, InvImplies, PTL

-----------------------------------------------------------------------------
(* The strategy implements TwoLegTrade.                                     *)

\* There is no swap on THORChain before the wallet has sent something.
Unsent == \A t \in Trades : sends[t] = 0 => swap[t] = "none"

\* A step of a coroutine that answers no send leaves the legs alone.
LEMMA StepLegs ==
    ASSUME Inv, NEW t \in Trades, Step(t),
           ~SwapGuardExits(t), ~RepeatSend(t), ~SwapNotInitiated(t), ~SwapInitiated(t)
    PROVE  UNCHANGED <<order, sends, swap, unbooked>>
<1>1. CASE \/ OrderFound(t) \/ NoAffordableOrder(t) \/ PathActive(t) \/ PathHalted(t)
           \/ NotProfitable(t) \/ NoUsableQuote(t) \/ StillProfitable(t)
           \/ RefundNotSeen(t)
    BY <1>1 DEF OrderFound, NoAffordableOrder, PathActive, PathHalted, NotProfitable,
       NoUsableQuote, StillProfitable, RefundNotSeen, OnlyMoves, worldVars, ghostVars
<1>2. CASE \/ ExecuteArbitrage(t) \/ TakeAnswered(t) \/ TakeFailed(t)
           \/ XBridgeCompleted(t) \/ XBridgeNotCompleted(t) \/ NoLongerProfitable(t)
    BY <1>2 DEF ExecuteArbitrage, TakeAnswered, TakeFailed, XBridgeCompleted,
       XBridgeNotCompleted, NoLongerProfitable, worldVars, ghostVars
<1>3. CASE \/ ThorchainCompleted(t) \/ ThorchainNotCompleted(t) \/ PauseNotWritten(t)
           \/ RefundConfirmed(t)
    BY <1>3 DEF ThorchainCompleted, ThorchainNotCompleted, PauseNotWritten,
       RefundConfirmed, worldVars, ghostVars
<1> QED
    BY <1>1, <1>2, <1>3 DEF Step

\* Losing track of the trades whose send is not answered yet, or of some of them.
LEMMA LosesTrack ==
    ASSUME Inv, NEW S \in SUBSET {t \in Trades : order[t] = "finished"},
           unbooked' = [t \in Trades |-> unbooked[t] \/ t \in S],
           UNCHANGED <<order, sends, swap>>
    PROVE  Legs!Next
<1>1. Legs!LoseTrack(S)
    BY DEF Legs!LoseTrack
<1> QED
    BY <1>1 DEF Legs!Next

\* The answer of a send, the end of the process and a crash are at most that.
LEMMA AnswerLegs ==
    ASSUME Inv, NEW t \in Trades,
           RepeatSend(t) \/ SwapNotInitiated(t) \/ SwapInitiated(t)
    PROVE  UNCHANGED <<order, sends, swap>> /\ [Legs!Next]_Legs!legs
<1> DEFINE S == {u \in {t} : unbooked'[u]}
<1>1. UNCHANGED <<order, sends, swap>>
    BY DEF RepeatSend, SwapNotInitiated, SwapInitiated, worldVars
<1>2. order[t] = "finished"
    BY DEF Inv, Sound, Placed, AfterFirst, RepeatSend, SwapNotInitiated, SwapInitiated
<1>3. \E b \in BOOLEAN : unbooked' = [unbooked EXCEPT ![t] = unbooked[t] \/ b]
  <2>1. CASE RepeatSend(t)
    BY <2>1 DEF RepeatSend, Inv, TypeOK
  <2>2. CASE SwapNotInitiated(t)
    BY <2>2 DEF SwapNotInitiated
  <2>3. CASE SwapInitiated(t)
    BY <2>3 DEF SwapInitiated
  <2> QED
    BY <2>1, <2>2, <2>3
<1>4. unbooked' = [u \in Trades |-> unbooked[u] \/ u \in S]
  <2>1. PICK b \in BOOLEAN : unbooked' = [unbooked EXCEPT ![t] = unbooked[t] \/ b]
    BY <1>3
  <2>2. unbooked \in [Trades -> BOOLEAN]
    BY DEF Inv, TypeOK
  <2>3. \A u \in Trades : unbooked'[u] = (unbooked[u] \/ u \in S)
    BY <2>1, <2>2
  <2> QED
    BY <2>1, <2>2, <2>3
<1> QED
    BY <1>1, <1>2, <1>4, LosesTrack

\* The end of the process forgets the sends that were not answered.
LEMMA EndLegs ==
    ASSUME Inv, ProcessEnds, UNCHANGED <<order, sends, swap>>
    PROVE  [Legs!Next]_Legs!legs
<1> DEFINE S == {t \in Trades : at[t] = "sent"}
<1>1. S \subseteq {t \in Trades : order[t] = "finished"}
    BY DEF Inv, Sound, Placed, AfterFirst
<1>2. unbooked' = [t \in Trades |-> unbooked[t] \/ t \in S]
    BY DEF ProcessEnds
<1> QED
    BY <1>1, <1>2, LosesTrack

\* What the wallet and THORChain do are the legs themselves. A send is the first one
\* of its trade, unless an earlier one is lost.
LEMMA WorldLegs ==
    ASSUME Inv, Unsent, NEW t \in Trades, World(t)
    PROVE  Unsent' /\ Legs!Next
<1>1. CASE NodeTakes(t)
  <2>1. Legs!Take(t)
    BY <1>1 DEF NodeTakes, ghostVars, Legs!Take
  <2>2. Unsent'
    BY <1>1 DEF NodeTakes, Unsent
  <2> QED
    BY <2>1, <2>2 DEF Legs!Next
<1>2. CASE OrderEnds(t)
  <2>1. Legs!FirstEnds(t)
    BY <1>2 DEF OrderEnds, ghostVars, Legs!FirstEnds
  <2>2. Unsent'
    BY <1>2 DEF OrderEnds, Unsent
  <2> QED
    BY <2>1, <2>2 DEF Legs!Next
<1>3. CASE NodeSends(t)
  <2>1. order[t] = "finished"
    BY <1>3 DEF NodeSends, Inv, Sound, Placed, AfterFirst
  <2>2. sends[t] = 0 \/ unbooked[t]
    BY <1>3, SagaConstants DEF NodeSends, Inv, TypeOK, Sound, Booked
  <2>3. swap[t] = "none" \/ unbooked[t]
    BY <2>2 DEF Unsent
  <2>4. Legs!SendSecond(t)
    BY <1>3, <2>1, <2>3 DEF NodeSends, ghostVars, Legs!SendSecond
  <2>5. Unsent'
    BY <1>3, SagaConstants DEF NodeSends, Unsent, Inv, TypeOK
  <2> QED
    BY <2>4, <2>5 DEF Legs!Next
<1>4. CASE SwapEnds(t)
  <2>1. Legs!SecondEnds(t)
    BY <1>4 DEF SwapEnds, ghostVars, Legs!SecondEnds
  <2>2. Unsent'
    BY <1>4 DEF SwapEnds, Unsent, Inv, TypeOK
  <2> QED
    BY <2>1, <2>2 DEF Legs!Next
<1> QED
    BY <1>1, <1>2, <1>3, <1>4 DEF World

\* Every step of the strategy is a step of the promise, or none.
LEMMA NextLegs ==
    Inv /\ Unsent /\ [Next]_vars => Unsent' /\ [Legs!Next]_Legs!legs
<1> SUFFICES ASSUME Inv, Unsent, [Next]_vars
             PROVE  Unsent' /\ [Legs!Next]_Legs!legs
    OBVIOUS
<1>1. ASSUME UNCHANGED <<order, sends, swap>>
      PROVE  Unsent' /\ (UNCHANGED unbooked => UNCHANGED Legs!legs)
    BY <1>1 DEF Unsent, Legs!legs
<1>2. CASE UNCHANGED vars
    BY <1>1, <1>2 DEF vars, worldVars, ghostVars
<1>3. ASSUME NEW t \in Trades, Step(t) PROVE Unsent' /\ [Legs!Next]_Legs!legs
  <2>1. CASE SwapGuardExits(t)
    BY <1>1, <2>1, EndLegs DEF SwapGuardExits, worldVars
  <2>2. CASE RepeatSend(t) \/ SwapNotInitiated(t) \/ SwapInitiated(t)
    BY <1>1, <2>2, AnswerLegs
  <2> QED
    BY <1>1, <1>3, <2>1, <2>2, StepLegs
<1>4. ASSUME NEW t \in Trades, World(t) PROVE Unsent' /\ [Legs!Next]_Legs!legs
    BY <1>4, WorldLegs
<1>5. ASSUME NEW t \in Trades, ResumeTrade(t)
      PROVE  Unsent' /\ [Legs!Next]_Legs!legs
    BY <1>1, <1>5 DEF ResumeTrade, worldVars, ghostVars
<1>6. ASSUME NEW t \in Trades, CrashInside(t)
      PROVE  Unsent' /\ [Legs!Next]_Legs!legs
    BY <1>1, <1>6, EndLegs
       DEF CrashInside, CrashInSave, CrashAfterPause, CrashAfterLift, worldVars
<1>7. CASE Crash
    BY <1>1, <1>7, EndLegs DEF Crash, worldVars
<1>8. CASE Resume \/ Resumed \/ Start
    BY <1>1, <1>8 DEF Resume, Resumed, Start, worldVars, ghostVars
<1>9. ASSUME NEW S \in SUBSET Trades, Cycle(S) \/ Receipt(S)
      PROVE  Unsent' /\ [Legs!Next]_Legs!legs
    BY <1>1, <1>9 DEF Cycle, Receipt, worldVars, ghostVars
<1> QED
    BY <1>2, <1>3, <1>4, <1>5, <1>6, <1>7, <1>8, <1>9 DEF Next

\* The saga of records, crashes, resumptions and lost answers implements the promise:
\* the first leg, then the second one, once unless the strategy lost track of it.
THEOREM SagaKeepsPromise == Spec => KeepsPromise
<1>1. Init => Legs!Init /\ Unsent
    BY DEF Init, Legs!Init, Unsent
<1> QED
    BY <1>1, SagaInvariance, NextLegs, PTL DEF Spec, KeepsPromise, Legs!Spec

-----------------------------------------------------------------------------
(* The code as it is published.                                             *)

\* No second leg of this trade has been sent, or could be on record.
OneLegged(t) ==
    /\ sends[t] = 0
    /\ at[t] \notin {"swapping", "sent", "thor_monitor", "verifying"}
    /\ file[t] \notin {"THORCHAIN_INITIATED", "AWAITING_REFUND"}

GuardHolds == swapFn = "guarded" => ~paused /\ \A t \in Trades : OneLegged(t)

\* A step of the first leg, or of the check before it.
LEMMA FirstLegGuarded ==
    ASSUME TypeOK, GuardHolds, swapFn = "guarded", NEW t \in Trades,
           \/ OrderFound(t) \/ NoAffordableOrder(t) \/ PathActive(t) \/ PathHalted(t)
           \/ NotProfitable(t) \/ NoUsableQuote(t) \/ RefundNotSeen(t)
           \/ ExecuteArbitrage(t) \/ TakeAnswered(t) \/ TakeFailed(t)
           \/ XBridgeCompleted(t) \/ XBridgeNotCompleted(t) \/ NoLongerProfitable(t)
    PROVE  GuardHolds'
<1> USE DEF GuardHolds, OneLegged, TypeOK
<1>1. CASE \/ OrderFound(t) \/ NoAffordableOrder(t) \/ PathActive(t) \/ PathHalted(t)
           \/ NotProfitable(t) \/ NoUsableQuote(t) \/ RefundNotSeen(t)
    BY <1>1 DEF OrderFound, NoAffordableOrder, PathActive, PathHalted, NotProfitable,
       NoUsableQuote, RefundNotSeen, OnlyMoves, GoTo, Ends, diskVars, worldVars
<1>2. CASE ExecuteArbitrage(t) \/ TakeAnswered(t) \/ XBridgeCompleted(t)
    BY <1>2 DEF ExecuteArbitrage, TakeAnswered, XBridgeCompleted, Save, GoTo, worldVars
<1>3. CASE TakeFailed(t) \/ XBridgeNotCompleted(t) \/ NoLongerProfitable(t)
    BY <1>3 DEF TakeFailed, XBridgeNotCompleted, NoLongerProfitable, Archive, GoTo,
       Ends, worldVars
<1> QED
    BY <1>1, <1>2, <1>3

\* No coroutine comes to the second leg, and no file takes one there after a crash.
LEMMA GuardKept == Inv /\ GuardHolds /\ [Next]_vars => GuardHolds'
<1> SUFFICES ASSUME TypeOK, GuardHolds, [Next]_vars, swapFn' = "guarded"
             PROVE  GuardHolds'
    BY DEF Inv, GuardHolds
<1> USE DEF GuardHolds, OneLegged
<1>0. swapFn = "guarded"
    BY DEF Next, Step, World, CrashInside, OrderFound, NoAffordableOrder, PathActive,
       PathHalted, NotProfitable, NoUsableQuote, RefundNotSeen, OnlyMoves,
       ExecuteArbitrage, TakeAnswered, TakeFailed, XBridgeCompleted,
       XBridgeNotCompleted, NoLongerProfitable, StillProfitable, SwapGuardExits,
       RepeatSend, SwapNotInitiated, SwapInitiated, ThorchainCompleted,
       ThorchainNotCompleted, PauseNotWritten, RefundConfirmed, NodeTakes, OrderEnds,
       NodeSends, SwapEnds, ResumeTrade, CrashInSave, CrashAfterPause, CrashAfterLift,
       Resume, Resumed, Crash, Start, Cycle, Receipt, vars
<1>1. CASE UNCHANGED vars
    BY <1>1 DEF vars, diskVars, worldVars
<1>2. ASSUME NEW t \in Trades, Step(t) PROVE GuardHolds'
  <2>1. /\ ~StillProfitable(t) /\ ~RepeatSend(t) /\ ~SwapNotInitiated(t)
        /\ ~SwapInitiated(t) /\ ~ThorchainCompleted(t) /\ ~ThorchainNotCompleted(t)
        /\ ~PauseNotWritten(t) /\ ~RefundConfirmed(t)
    BY <1>0 DEF StillProfitable, RepeatSend, SwapNotInitiated, SwapInitiated,
       ThorchainCompleted, ThorchainNotCompleted, PauseNotWritten, RefundConfirmed
  <2>2. CASE SwapGuardExits(t)
    BY <1>0, <2>2 DEF SwapGuardExits, ProcessEnds, diskVars, worldVars, TypeOK
  <2> QED
    BY <1>0, <1>2, <2>1, <2>2, FirstLegGuarded DEF Step
<1>3. ASSUME NEW t \in Trades, World(t) PROVE GuardHolds'
    BY <1>0, <1>3 DEF World, NodeTakes, OrderEnds, NodeSends, SwapEnds, diskVars
<1>4. ASSUME NEW t \in Trades, ResumeTrade(t) PROVE GuardHolds'
  <2>1. file[t] \in {"XBRIDGE_INITIATED", "XBRIDGE_CONFIRMED"}
           => HandlerOf(file[t]) \in {"xb_monitor", "quoting"}
    BY DEF HandlerOf
  <2>2. CASE file[t] \in Statuses \ {"INITIATED"}
    <3>1. file[t] \in {"XBRIDGE_INITIATED", "XBRIDGE_CONFIRMED"}
      BY <1>0, <2>2 DEF Statuses
    <3> QED
      BY <1>0, <1>4, <2>1, <2>2, <3>1 DEF ResumeTrade, GoTo, worldVars, TypeOK
  <2>3. CASE ~(file[t] \in Statuses \ {"INITIATED"})
    BY <1>0, <1>4, <2>3 DEF ResumeTrade, Archive, worldVars, TypeOK
  <2> QED
    BY <2>2, <2>3
<1>5. CASE Crash \/ \E t \in Trades : CrashInside(t)
    BY <1>0, <1>5 DEF Crash, CrashInside, CrashInSave, CrashAfterPause, CrashAfterLift,
       ProcessEnds, diskVars, worldVars, TypeOK
<1>6. CASE Resume \/ Resumed \/ Start
    BY <1>0, <1>6 DEF Resume, Resumed, Start, diskVars, worldVars
<1>7. ASSUME NEW S \in SUBSET Trades, Cycle(S) \/ Receipt(S) PROVE GuardHolds'
    BY <1>0, <1>7 DEF Cycle, Receipt, diskVars, worldVars
<1> QED
    BY <1>1, <1>2, <1>3, <1>4, <1>5, <1>6, <1>7 DEF Next

\* With the sys.exit(1) that execute_thorchain_swap has outside test mode, an
\* arbitrage is its first leg only: over all restarts and resumptions no second leg
\* is ever sent, whatever the first ones brought, and so trading never pauses.
THEOREM PublishedCodeIsOneLegged ==
    Spec => [](swapFn = "guarded" => ~paused /\ \A t \in Trades : sends[t] = 0)
<1>1. Init => GuardHolds
    BY DEF Init, GuardHolds, OneLegged
<1>2. GuardHolds =>
        (swapFn = "guarded" => ~paused /\ \A t \in Trades : sends[t] = 0)
    BY DEF GuardHolds, OneLegged
<1> QED
    BY <1>1, <1>2, GuardKept, SagaInvariance, PTL DEF Spec
=============================================================================
