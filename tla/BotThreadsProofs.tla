-------------------------- MODULE BotThreadsProofs --------------------------
(***************************************************************************)
(* Which bots a frame may lose hold of, for any number of instances, saves *)
(* and close requests.                                                     *)
(***************************************************************************)
EXTENDS BotThreads, FiniteSetTheorems, TLAPS

Held(i) == started /\ i = inst

\* Its controller has not been told to stop, or does not exist yet.
Unheard(i) == phase[i] \in {"registering", "running"} /\ ~signalled[i]

\* The bound on instances leaves room for the reload of a started frame, and the
\* configuration window is closed while a frame is started.
RoomForReload ==
    /\ inst + saves + (IF started THEN 1 ELSE 0) <= MaxInstances
    /\ window => ~started

\* Instances that are not made yet have no bot.
FutureIsIdle == \A i \in Instances : i > inst => phase[i] = "none"

\* Until a stop is done with it, a bot of a started frame is marked as running.
HeldIsRunning ==
    started /\ stopper # "finalizing" /\ phase[inst] # "none" => isRunning[inst]

\* An instance that replaced the one being stopped has not been started.
ReplacedIsIdle ==
    /\ stopper \in {"signalling", "joining", "finalizing", "raised"}
    /\ target # inst
    => phase[inst] = "none"

\* A stopper that waits for a bot has signalled it, or came before its controller.
JoinedIsTold ==
    stopper = "joining" /\ Unheard(target) => "early" \in lost[target]

\* What the frame is about to let go of is over, or out of hand in a known way.
FinalizedIsLost ==
    stopper = "finalizing" =>
        /\ Live(inst) => lost[inst] \cap {"timeout", "reload"} # {}
        /\ Unheard(inst) => lost[inst] \cap {"early", "reload"} # {}

OutlivesKnown ==
    \A i \in Instances :
        Live(i) /\ ~Held(i) => lost[i] \cap {"timeout", "reload"} # {}

UnheardKnown ==
    \A i \in Instances :
        Unheard(i) /\ ~Held(i) => lost[i] \cap {"early", "reload"} # {}

\* What the frame's own state says of the bots ...
Hold ==
    /\ TypeOK
    /\ RoomForReload
    /\ FutureIsIdle
    /\ HeldIsRunning
    /\ ReplacedIsIdle

\* ... and what becomes of those it lets go of.
Release ==
    /\ JoinedIsTold
    /\ FinalizedIsLost
    /\ OutlivesKnown
    /\ UnheardKnown

Inv == Hold /\ Release

-----------------------------------------------------------------------------

\* A new frame holds no bot, and its first instance is idle.
LEMMA InitInv == Init => Inv
<1> SUFFICES ASSUME Init PROVE Inv
    OBVIOUS
<1>1. 1 \in Instances /\ MaxInstances \in Nat /\ MaxInstances >= 1 /\ MaxSaves \in Nat
    BY BotThreadsConstants DEF Instances
<1>2. TypeOK
  <2>1. /\ inst \in Instances /\ target \in Instances /\ saves \in 0..MaxSaves
        /\ stopper \in StopperStates /\ stopper = "none"
    BY <1>1 DEF Init, StopperStates
  <2>3. {started, stopping, reload, window, exited} \subseteq BOOLEAN /\ ~stopping
    BY Zenon DEF Init
  <2>2. /\ phase \in [Instances -> Phases]
        /\ isRunning \in [Instances -> BOOLEAN]
        /\ signalled \in [Instances -> BOOLEAN]
        /\ coord \in [Closers -> CoordStates]
        /\ lost \in [Instances -> SUBSET {"early", "timeout", "reload"}]
    BY DEF Init, Phases, CoordStates
  <2> QED
    BY <2>1, <2>2, <2>3 DEF TypeOK
<1>3. RoomForReload /\ FutureIsIdle /\ HeldIsRunning /\ ReplacedIsIdle
    BY <1>1 DEF Init, RoomForReload, FutureIsIdle, HeldIsRunning, ReplacedIsIdle
<1>4. Release
    BY <1>1 DEF Init, Release, JoinedIsTold, FinalizedIsLost, OutlivesKnown,
        UnheardKnown, Live, Unheard
<1> QED
    BY <1>2, <1>3, <1>4 DEF Inv, Hold

\* A step that leaves the frame, the bots and the instance alone.
LEMMA QuietKeeps ==
    ASSUME Inv, UNCHANGED <<frame, bots, inst, saves, lost>>,
           window' \in BOOLEAN, window' => ~started,
           coord' \in [Closers -> CoordStates], exited' \in BOOLEAN
    PROVE  Inv'
<1> USE DEF Inv, Hold, frame, bots
<1>1. TypeOK'
    BY DEF TypeOK
<1>2. RoomForReload' /\ FutureIsIdle' /\ HeldIsRunning' /\ ReplacedIsIdle'
    BY DEF RoomForReload, FutureIsIdle, HeldIsRunning, ReplacedIsIdle
<1>3. Release'
    BY DEF Release, JoinedIsTold, FinalizedIsLost, OutlivesKnown, UnheardKnown,
        Live, Unheard, Held
<1> QED
    BY <1>1, <1>2, <1>3

\* A bot registers, leaves its loop, or ends.
LEMMA BotKeeps ==
    ASSUME Inv, NEW i \in Instances, BotStep(i)
    PROVE  Inv'
<1> USE DEF Inv, Hold, BotStep, BotRegisters, BotLeaves, BotEnds, frame, config
<1>1. TypeOK'
  <2>1. /\ phase' \in [Instances -> Phases]
        /\ isRunning' \in [Instances -> BOOLEAN]
        /\ signalled' \in [Instances -> BOOLEAN]
    BY DEF TypeOK, Phases
  <2> QED
    BY <2>1 DEF TypeOK
<1>2. RoomForReload' /\ FutureIsIdle'
    BY DEF RoomForReload, FutureIsIdle, TypeOK
<1>3. HeldIsRunning' /\ ReplacedIsIdle'
    BY DEF HeldIsRunning, ReplacedIsIdle, TypeOK
<1>4. \A j \in Instances : (Live(j)' => Live(j)) /\ (Unheard(j)' => Unheard(j))
    BY DEF Live, Unheard, TypeOK
<1>5. Release'
    BY <1>4 DEF Release, JoinedIsTold, FinalizedIsLost, OutlivesKnown,
        UnheardKnown, Held, TypeOK
<1> QED
    BY <1>1, <1>2, <1>3, <1>5

\* START: the current instance gets its bot, and the frame holds it.
LEMMA StartKeeps ==
    ASSUME Inv, ClickStart
    PROVE  Inv'
<1> USE DEF Inv, Hold
<1>1. stopper = "none"
    BY DEF ClickStart, StartEnabled, TypeOK
<1>2. TypeOK'
    BY <1>1 DEF TypeOK, ClickStart, config, Phases
<1>3. RoomForReload'
    BY DEF RoomForReload, ClickStart, StartEnabled, Room, config
<1>4. FutureIsIdle' /\ HeldIsRunning' /\ ReplacedIsIdle'
    BY <1>1 DEF FutureIsIdle, HeldIsRunning, ReplacedIsIdle, ClickStart, config,
        TypeOK, Instances
<1>5. Release'
    BY <1>1 DEF Release, JoinedIsTold, FinalizedIsLost, OutlivesKnown,
        UnheardKnown, Live, Unheard, Held, ClickStart, config, TypeOK
<1> QED
    BY <1>2, <1>3, <1>4, <1>5

\* STOP, or a coordinator that stops the frame.
LEMMA StopKeeps ==
    ASSUME Inv, NEW r \in BOOLEAN, StopFrame(r),
           coord' \in [Closers -> CoordStates]
    PROVE  Inv'
<1> USE DEF Inv, Hold, StopFrame, bots, config
<1>1. stopper = "none"
    BY DEF TypeOK
<1>2. TypeOK'
    BY DEF TypeOK, StopperStates
<1>3. RoomForReload' /\ FutureIsIdle'
    BY DEF RoomForReload, FutureIsIdle
<1>4. HeldIsRunning' /\ ReplacedIsIdle'
    BY <1>1 DEF HeldIsRunning, ReplacedIsIdle
<1>5. Release'
    BY DEF Release, JoinedIsTold, FinalizedIsLost, OutlivesKnown, UnheardKnown,
        Live, Unheard, Held
<1> QED
    BY <1>2, <1>3, <1>4, <1>5

\* A saved configuration makes the next instance, for which there is room.
LEMMA ReloadKeeps ==
    ASSUME Inv, ReloadSaved
    PROVE  Inv'
<1> USE DEF Inv, Hold, ReloadSaved, Replace, frame, bots
<1>1. inst' \in Instances /\ inst' = inst + 1 /\ inst \in Nat
    BY BotThreadsConstants DEF RoomForReload, TypeOK, Instances
<1>2. phase[inst'] = "none"
    BY <1>1 DEF FutureIsIdle
<1>3. lost' \in [Instances -> SUBSET {"early", "timeout", "reload"}]
    BY DEF TypeOK
<1>4. TypeOK'
    BY <1>1, <1>3, BotThreadsConstants DEF TypeOK
<1>5. RoomForReload' /\ FutureIsIdle'
    BY <1>1, BotThreadsConstants DEF RoomForReload, FutureIsIdle, TypeOK, Instances
<1>6. HeldIsRunning' /\ ReplacedIsIdle'
    BY <1>2 DEF HeldIsRunning, ReplacedIsIdle
<1>7. \A i \in Instances : lost[i] \subseteq lost'[i]
    BY DEF TypeOK
<1>8. JoinedIsTold'
    BY <1>7 DEF Release, JoinedIsTold, Unheard, TypeOK
<1>9. FinalizedIsLost'
    BY <1>2 DEF FinalizedIsLost, Live, Unheard
<1>10. Held(inst) /\ Live(inst) => "reload" \in lost'[inst]
    BY DEF Held, TypeOK
<1>11. OutlivesKnown'
    BY <1>2, <1>7, <1>10 DEF Release, OutlivesKnown, Live, Held
<1>12. UnheardKnown'
    BY <1>2, <1>7, <1>10 DEF Release, UnheardKnown, Live, Unheard, Held
<1> QED
    BY <1>4, <1>5, <1>6, <1>8, <1>9, <1>11, <1>12 DEF Release

\* The stopper chooses its instance: a bot without a controller goes on record.
LEMMA EntersKeeps ==
    ASSUME Inv, StopperEnters
    PROVE  Inv'
<1> USE DEF Inv, Hold, StopperEnters, bots, config
<1>1. TypeOK'
    BY DEF TypeOK, StopperStates
<1>2. RoomForReload' /\ FutureIsIdle'
    BY DEF RoomForReload, FutureIsIdle
<1>3. HeldIsRunning' /\ ReplacedIsIdle'
    BY DEF HeldIsRunning, ReplacedIsIdle, TypeOK
<1>4. \A i \in Instances : lost[i] \subseteq lost'[i]
    BY DEF TypeOK
<1>5. JoinedIsTold'
    BY DEF JoinedIsTold, Unheard, LoopRunning, TypeOK
<1>6. FinalizedIsLost'
    BY DEF FinalizedIsLost, HeldIsRunning, Live, Unheard, TypeOK
<1>7. OutlivesKnown' /\ UnheardKnown'
    BY <1>4 DEF Release, OutlivesKnown, UnheardKnown, Live, Unheard, Held
<1> QED
    BY <1>1, <1>2, <1>3, <1>5, <1>6, <1>7 DEF Release

\* The signal is delivered, or the stopper dies on a closed loop.
LEMMA SignalKeeps ==
    ASSUME Inv, StopperSignals \/ StopperRaises
    PROVE  Inv'
<1> USE DEF Inv, Hold, StopperSignals, StopperRaises, bots, config
<1>1. TypeOK'
    BY DEF TypeOK, StopperStates
<1>2. RoomForReload' /\ FutureIsIdle' /\ HeldIsRunning' /\ ReplacedIsIdle'
    BY DEF RoomForReload, FutureIsIdle, HeldIsRunning, ReplacedIsIdle
<1>3. \A i \in Instances : (Live(i)' => Live(i)) /\ (Unheard(i)' => Unheard(i))
    BY DEF Live, Unheard, TypeOK
<1>4. Release'
    BY <1>3 DEF Release, JoinedIsTold, FinalizedIsLost, OutlivesKnown,
        UnheardKnown, Unheard, Held, TypeOK
<1> QED
    BY <1>1, <1>2, <1>4

\* The join is over: the bot has ended, or is on record as a time-out.
LEMMA DoneKeeps ==
    ASSUME Inv, StopperJoined \/ StopperExpires
    PROVE  Inv'
<1> USE DEF Inv, Hold, StopperJoined, StopperExpires, StopperDone, config
<1>1. TypeOK'
    BY DEF TypeOK, StopperStates
<1>2. RoomForReload' /\ FutureIsIdle' /\ HeldIsRunning' /\ ReplacedIsIdle'
    BY DEF RoomForReload, FutureIsIdle, HeldIsRunning, ReplacedIsIdle
<1>3. \A i \in Instances : lost[i] \subseteq lost'[i]
    BY DEF TypeOK
<1>4. Live(target) => "timeout" \in lost'[target]
    BY DEF TypeOK
<1>5. FinalizedIsLost'
  <2>1. CASE target = inst
    BY <1>3, <1>4, <2>1 DEF Release, JoinedIsTold, FinalizedIsLost, Live, Unheard,
        TypeOK
  <2>2. CASE target # inst
    BY <2>2 DEF ReplacedIsIdle, FinalizedIsLost, Live, Unheard
  <2> QED
    BY <2>1, <2>2
<1>6. JoinedIsTold' /\ OutlivesKnown' /\ UnheardKnown'
    BY <1>3 DEF Release, JoinedIsTold, OutlivesKnown, UnheardKnown, Live, Unheard,
        Held
<1> QED
    BY <1>1, <1>2, <1>5, <1>6 DEF Release

\* The frame lets go, and reloads its configuration unless the application closes.
LEMMA FinalizeKeeps ==
    ASSUME Inv, Finalize
    PROVE  Inv'
<1> USE DEF Inv, Hold, Finalize, Replace, bots
<1>1. started
    BY DEF TypeOK
<1>2. lost' = lost
    BY DEF TypeOK
<1>3. inst' \in Instances /\ inst \in Nat /\ inst' \in {inst, inst + 1}
    BY <1>1, BotThreadsConstants DEF RoomForReload, TypeOK, Instances
<1>4. TypeOK'
    BY <1>2, <1>3 DEF TypeOK, StopperStates
<1>5. RoomForReload'
  <2>1. inst + saves + 1 <= MaxInstances /\ saves \in Nat /\ MaxInstances \in Nat
    BY <1>1, BotThreadsConstants DEF RoomForReload, TypeOK
  <2>2. saves' = saves /\ ~started'
    OBVIOUS
  <2> HIDE DEF Finalize
  <2>3. CASE inst' = inst
    BY <2>1, <2>2, <2>3, <1>3 DEF RoomForReload
  <2>4. CASE inst' = inst + 1
    BY <2>1, <2>2, <2>4, <1>3 DEF RoomForReload
  <2> QED
    BY <1>3, <2>3, <2>4
<1>6. HeldIsRunning' /\ ReplacedIsIdle'
    BY DEF HeldIsRunning, ReplacedIsIdle
<1>7. JoinedIsTold' /\ FinalizedIsLost'
    BY DEF JoinedIsTold, FinalizedIsLost
<1>8. OutlivesKnown' /\ UnheardKnown'
    BY <1>2 DEF Release, FinalizedIsLost, OutlivesKnown, UnheardKnown, Live,
        Unheard, Held
<1>9. FutureIsIdle'
    BY <1>3, BotThreadsConstants DEF FutureIsIdle, TypeOK, Instances
<1> QED
    BY <1>4, <1>5, <1>6, <1>7, <1>8, <1>9 DEF Release

\* The user's actions on the frame and on the configuration window.
LEMMA ClickKeeps == Inv /\ Click => Inv'
<1> SUFFICES ASSUME Inv, Click PROVE Inv'
    OBVIOUS
<1>1. CASE ClickStop
    BY <1>1, StopKeeps DEF ClickStop, Inv, Hold, TypeOK
<1>2. CASE OpenWindow \/ CloseWindow
    BY <1>2, QuietKeeps DEF OpenWindow, CloseWindow, StartEnabled, Inv, Hold,
        TypeOK, RoomForReload
<1>3. CASE SaveConfig
  <2>1. ~started
    BY <1>3 DEF SaveConfig, Inv, Hold, RoomForReload
  <2>2. TypeOK'
    BY <1>3, BotThreadsConstants DEF SaveConfig, Inv, Hold, TypeOK, frame, bots
  <2>5. RoomForReload'
    BY <1>3, <2>1, BotThreadsConstants DEF SaveConfig, Room, Inv, Hold, TypeOK,
        RoomForReload, Instances, frame
  <2>3. FutureIsIdle' /\ HeldIsRunning' /\ ReplacedIsIdle'
    BY <1>3 DEF SaveConfig, Inv, Hold, FutureIsIdle, HeldIsRunning,
        ReplacedIsIdle, frame, bots
  <2>4. Release'
    BY <1>3 DEF SaveConfig, Inv, Release, JoinedIsTold, FinalizedIsLost,
        OutlivesKnown, UnheardKnown, Live, Unheard, Held, frame, bots
  <2> QED
    BY <2>2, <2>3, <2>4, <2>5 DEF Inv, Hold
<1>4. ASSUME NEW c \in Closers, CloseApp(c) PROVE Inv'
  <2>1. coord' \in [Closers -> CoordStates]
    BY <1>4 DEF CloseApp, Inv, Hold, TypeOK, CoordStates
  <2> QED
    BY <1>4, <2>1, QuietKeeps DEF CloseApp, config, Inv, Hold, TypeOK,
        RoomForReload
<1> QED
    BY <1>1, <1>2, <1>3, <1>4, StartKeeps DEF Click

\* A coordinator stops the frame, waits, and exits.
LEMMA CoordKeeps ==
    ASSUME Inv, NEW c \in Closers, CoordStep(c)
    PROVE  Inv'
<1>1. coord' \in [Closers -> CoordStates]
    BY DEF CoordStep, CoordStops, CoordJoined, Exit, Inv, Hold, TypeOK, CoordStates
<1>2. CASE StopFrame(FALSE)
    BY <1>1, <1>2, StopKeeps
<1>3. ASSUME UNCHANGED <<frame, bots, config, lost>>, exited' \in BOOLEAN PROVE Inv'
    BY <1>1, <1>3, QuietKeeps DEF config, Inv, Hold, TypeOK, RoomForReload
<1>4. CASE CoordJoined(c) \/ Exit(c) \/ UNCHANGED <<frame, bots, config, exited, lost>>
    BY <1>3, <1>4 DEF CoordJoined, Exit, Inv, Hold, TypeOK
<1> QED
    BY <1>2, <1>4 DEF CoordStep, CoordStops

\* Whichever thread steps, the frame and the bots stay in agreement.
LEMMA StepInv == Inv /\ [Next]_vars => Inv'
<1> SUFFICES ASSUME Inv, [Next]_vars PROVE Inv'
    OBVIOUS
<1>1. CASE StopperStep
    BY <1>1, EntersKeeps, SignalKeeps, DoneKeeps, FinalizeKeeps DEF StopperStep
<1>2. CASE UNCHANGED vars
    BY <1>2, QuietKeeps DEF vars, config, Inv, Hold, TypeOK, RoomForReload
<1> QED
    BY <1>1, <1>2, BotKeeps, ClickKeeps, ReloadKeeps, CoordKeeps DEF Next

-----------------------------------------------------------------------------
(* Results. *)

\* The frame's flags, the stopper and the bots agree in every reachable state.
THEOREM FrameInvariance == Spec => []Inv
BY InitInv, StepInv, PTL DEF Spec

\* Every variable always holds a value of its kind, whatever the bounds.
THEOREM FrameTypeCorrect == Spec => []TypeOK
<1>1. Inv => TypeOK
    BY DEF Inv, Hold
<1> QED
    BY FrameInvariance, <1>1, PTL

\* A running bot that the frame has let go of has been signalled, unless STOP came
\* before its controller or a saved configuration replaced its instance.
THEOREM RunningBotsAreStoppable == Spec => []RunningIsStoppable
<1>1. Inv => RunningIsStoppable
    BY DEF Inv, Release, UnheardKnown, Unheard, Held, RunningIsStoppable
<1> QED
    BY FrameInvariance, <1>1, PTL

\* A bot that outlives the frame's hold on it was given up by the join's time-out,
\* or replaced by a saved configuration.
THEOREM BotsOutliveByTimeout == Spec => []OutlivesByTimeout
<1>1. Inv => OutlivesByTimeout
    BY DEF Inv, Release, OutlivesKnown, Held, OutlivesByTimeout
<1> QED
    BY FrameInvariance, <1>1, PTL

\* No join has timed out on a bot and no saved configuration has replaced one.
NobodyLost == \A i \in Instances : lost[i] \cap {"timeout", "reload"} = {}

\* The promise of a single bot per frame holds up to those two events: they are
\* the only way to a second bot.
THEOREM OneBotUntilLost == Spec => [](NobodyLost => OneLiveBot)
<1>1. ASSUME Inv, NobodyLost PROVE OneLiveBot
  <2> DEFINE L == {i \in Instances : Live(i)}
  <2>1. L \subseteq {inst}
    BY <1>1 DEF Inv, Release, OutlivesKnown, Held, NobodyLost
  <2>2. L = {} \/ L = {inst}
    BY <2>1
  <2>3. Cardinality(L) = 0 \/ Cardinality(L) = 1
    BY <2>2, FS_EmptySet, FS_Singleton
  <2> QED
    BY <2>3 DEF OneLiveBot
<1>2. Inv => (NobodyLost => OneLiveBot)
    BY <1>1
<1> QED
    BY FrameInvariance, <1>2, PTL

-----------------------------------------------------------------------------
(* Which stops the closing of the application waits for. *)

StopperAtWork == stopper \in {"entering", "signalling", "joining"}

\* A request to close that has stopped the frame keeps it from being started.
FrameIsOver == stopper = "none" => ~started

Awaits == \A c \in Closers : coord[c] = "joining" => FrameIsOver

\* The coordinator of a request waits for the stop it began, or has seen it end.
StopOf(c) ==
    /\ coord[c] \in {"joining", "quitting"}
    /\ FrameIsOver
    /\ coord[c] = "quitting" => ~StopperAtWork

\* Once a request to close is under way the frame is not started, and only an idle
\* stopper begins a stop, of a frame that is started.
LEMMA OverStaysOver ==
    ASSUME Inv, [Next]_vars, NEW c \in Closers, coord[c] # "none", FrameIsOver
    PROVE  FrameIsOver' /\ (StopperAtWork' => StopperAtWork)
<1> USE DEF FrameIsOver, StopperAtWork
<1>1. CASE UNCHANGED vars
    BY <1>1 DEF vars, frame
<1>2. CASE Click \/ ReloadSaved
  <2>1. ~ClickStart
    BY DEF ClickStart, StartEnabled
  <2>2. ~ClickStop
    BY DEF ClickStop, StopFrame, Inv, Hold, TypeOK
  <2> QED
    BY <1>2, <2>1, <2>2 DEF Click, OpenWindow, CloseWindow, SaveConfig, CloseApp,
        ReloadSaved, frame
<1>3. ASSUME NEW i \in Instances, BotStep(i)
      PROVE  FrameIsOver' /\ (StopperAtWork' => StopperAtWork)
    BY <1>3 DEF BotStep, BotRegisters, BotLeaves, BotEnds, frame
<1>4. CASE StopperStep
    BY <1>4 DEF StopperStep, StopperEnters, StopperSignals, StopperRaises,
        StopperJoined, StopperExpires, StopperDone, Finalize
<1>5. ASSUME NEW d \in Closers, CoordStep(d)
      PROVE  FrameIsOver' /\ (StopperAtWork' => StopperAtWork)
  <2>1. ~StopFrame(FALSE)
    BY DEF StopFrame, Inv, Hold, TypeOK
  <2>2. UNCHANGED frame
    BY <1>5, <2>1, Zenon DEF CoordStep, CoordStops, CoordJoined, Exit
  <2> QED
    BY <2>2 DEF frame
<1> QED
    BY <1>1, <1>2, <1>3, <1>4, <1>5 DEF Next

\* What a step does to one coordinator.
LEMMA CoordMoves ==
    ASSUME Inv, [Next]_vars, NEW c \in Closers
    PROVE  \/ coord'[c] = coord[c]
           \/ coord[c] = "none" /\ coord'[c] = "stopping"
           \/ coord[c] = "stopping" /\ coord'[c] = "joining" /\ stopper' = "entering"
           \/ coord[c] = "stopping" /\ coord'[c] = "quitting"
           \/ coord[c] = "joining" /\ coord'[c] = "quitting" /\ ~StopperAtWork
<1>0. coord \in [Closers -> CoordStates]
    BY DEF Inv, Hold, TypeOK
<1>1. CASE UNCHANGED coord
    BY <1>1
<1>2. ASSUME NEW d \in Closers, CloseApp(d) \/ CoordStops(d) \/ CoordJoined(d)
      PROVE  \/ coord'[c] = coord[c]
             \/ coord[c] = "none" /\ coord'[c] = "stopping"
             \/ coord[c] = "stopping" /\ coord'[c] = "joining" /\ stopper' = "entering"
             \/ coord[c] = "stopping" /\ coord'[c] = "quitting"
             \/ coord[c] = "joining" /\ coord'[c] = "quitting" /\ ~StopperAtWork
    BY <1>0, <1>2 DEF CloseApp, CoordStops, StopFrame, CoordJoined, StopperAtWork
<1>3. UNCHANGED coord \/ \E d \in Closers : CloseApp(d) \/ CoordStops(d) \/ CoordJoined(d)
    BY DEF Next, Click, ClickStart, ClickStop, OpenWindow, CloseWindow, SaveConfig,
        ReloadSaved, BotStep, BotRegisters, BotLeaves, BotEnds, StopperStep,
        StopperEnters, StopperSignals, StopperRaises, StopperJoined, StopperExpires,
        StopperDone, Finalize, CoordStep, Exit, vars
<1> QED
    BY <1>1, <1>2, <1>3

\* A stop that a request to close has begun is the last of this frame.
LEMMA AwaitsKept == Inv /\ Awaits /\ [Next]_vars => Awaits'
<1> SUFFICES ASSUME Inv, Awaits, [Next]_vars, NEW c \in Closers,
                    coord'[c] = "joining"
             PROVE  FrameIsOver'
    BY DEF Awaits
<1>1. CASE coord[c] = "joining"
    BY <1>1, OverStaysOver DEF Awaits
<1>2. CASE coord[c] # "joining"
  <2>1. stopper' = "entering"
    BY <1>2, CoordMoves
  <2> QED
    BY <2>1 DEF FrameIsOver
<1> QED
    BY <1>1, <1>2

\* ExitAfterStops fails for the requests that find a stop under way. A request whose
\* own coordinator stopped the frame never asks the main loop to quit while the
\* stopper is at work, whatever the user and the other requests do meanwhile.
THEOREM OwnStopIsAwaited ==
    ASSUME NEW c \in Closers
    PROVE  Spec => [](coord[c] = "joining" =>
                        [](coord[c] = "quitting" => ~StopperAtWork))
<1>1. Init => Awaits
    BY DEF Init, Awaits, FrameIsOver
<1>2. Awaits /\ coord[c] = "joining" => StopOf(c)
    BY DEF Awaits, StopOf
<1>3. ASSUME Inv, StopOf(c), [Next]_vars PROVE StopOf(c)'
  <2>1. FrameIsOver' /\ (StopperAtWork' => StopperAtWork)
    BY <1>3, OverStaysOver DEF StopOf
  <2>2. \/ coord'[c] = coord[c]
        \/ coord'[c] = "quitting" /\ ~StopperAtWork
    BY <1>3, CoordMoves DEF StopOf
  <2> QED
    BY <1>3, <2>1, <2>2 DEF StopOf
<1>4. Inv /\ StopOf(c) /\ [Next]_vars => StopOf(c)'
    BY <1>3
<1>5. StopOf(c) => (coord[c] = "quitting" => ~StopperAtWork)
    BY DEF StopOf
<1> QED
    BY FrameInvariance, AwaitsKept, <1>1, <1>2, <1>4, <1>5, PTL DEF Spec
=============================================================================
