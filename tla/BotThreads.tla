----------------------------- MODULE BotThreads -----------------------------
(***************************************************************************)
(* One strategy frame of the GUI: the START, STOP and CONFIGURE buttons,   *)
(* the strategy instances they create, start, stop and replace, the bot    *)
(* and stopper threads, and the coordinators that close the application    *)
(* (gui/frames/base_frames.py, strategies/base_strategy.py,                *)
(* definitions/starter.py, gui/config_windows/base_config_window.py,       *)
(* gui/shutdown/gui_shutdown_coordinator.py).                              *)
(*                                                                         *)
(* Every reload of the configuration makes a new strategy instance with a  *)
(* configuration manager of its own; the bot threads of earlier instances  *)
(* keep theirs. What a bot does while it runs is the subject of MakerPair. *)
(***************************************************************************)
EXTENDS Integers, FiniteSets

CONSTANTS
    MaxInstances,  \* bound on the strategy instances created by reloads
    MaxSaves,      \* bound on the saves whose reload has not run yet
    Closers        \* the requests to close the application

ASSUME BotThreadsConstants ==
    /\ MaxInstances \in Nat \ {0}
    /\ MaxSaves \in Nat
    /\ IsFiniteSet(Closers)

VARIABLES
    inst,       \* config_manager.strategy_instance of the frame
    phase,      \* the bot thread of each instance
    isRunning,  \* is_running of each instance
    signalled,  \* shutdown_event of each instance's controller
    started,    \* the frame's flags
    stopping,
    stopper,    \* the stopper thread, up to the end of _finalize_stop
    target,     \* the instance it stops
    reload,     \* its reload_config
    window,     \* the configuration window is open
    saves,      \* saved configurations that wait to be reloaded
    coord,      \* the GUIShutdownCoordinator of each close request
    exited,     \* the process is over, its daemon threads with it
    lost        \* history: how each instance's bot got out of hand

frame == <<started, stopping, stopper, target, reload>>
bots == <<phase, isRunning, signalled>>
config == <<inst, window, saves>>
vars == <<frame, bots, config, coord, exited, lost>>

-----------------------------------------------------------------------------

Instances == 1..MaxInstances

Phases == {"none", "registering", "running", "closing", "ended"}
StopperStates ==
    {"none", "entering", "signalling", "joining", "finalizing", "raised"}
CoordStates == {"none", "stopping", "joining", "quitting"}

Live(i) == phase[i] \in {"registering", "running", "closing"}

\* config_manager.controller is set, and its loop still runs.
LoopRunning(i) == phase[i] \in {"running", "closing"}

\* update_button_states; the configuration window and the closing of the
\* application disable START and CONFIGURE too.
StartEnabled ==
    /\ ~started /\ ~stopping /\ ~window
    /\ \A c \in Closers : coord[c] = "none"

\* The bound on instances leaves one for every reload that is due.
Room(n) == inst + saves + n <= MaxInstances

-----------------------------------------------------------------------------
(* The bot thread (run_async_main). *)

\* The strategy is registered with the proxy, whose lock it may have had to wait
\* for; only now does it have a controller that a stop can reach.
BotRegisters(i) ==
    /\ phase[i] = "registering"
    /\ phase' = [phase EXCEPT ![i] = "running"]
    /\ isRunning' = [isRunning EXCEPT ![i] = TRUE]
    /\ UNCHANGED <<signalled, frame, config, coord, exited, lost>>

\* main returns: it saw the shutdown event, or a critical error set it.
BotLeaves(i) ==
    /\ phase[i] = "running"
    /\ phase' = [phase EXCEPT ![i] = "closing"]
    /\ signalled' = [signalled EXCEPT ![i] = TRUE]
    /\ UNCHANGED <<isRunning, frame, config, coord, exited, lost>>

\* unified_shutdown and unregister_strategy are over and the loop is closed. The
\* frame is not told, and is_running stays set.
BotEnds(i) ==
    /\ phase[i] = "closing"
    /\ phase' = [phase EXCEPT ![i] = "ended"]
    /\ UNCHANGED <<isRunning, signalled, frame, config, coord, exited, lost>>

-----------------------------------------------------------------------------
(* The buttons. *)

ClickStart ==
    /\ StartEnabled /\ ~isRunning[inst] /\ Room(1)
    /\ phase' = [phase EXCEPT ![inst] = "registering"]
    /\ isRunning' = [isRunning EXCEPT ![inst] = TRUE]
    /\ started' = TRUE /\ stopping' = FALSE
    /\ UNCHANGED <<signalled, stopper, target, reload, config, coord, exited, lost>>

StopFrameAnytime(reload_config) ==
    /\ ~stopping
    /\ stopping' = TRUE /\ stopper' = "entering" /\ reload' = reload_config
    /\ UNCHANGED <<started, target, bots, config, exited, lost>>

\* BaseStrategyFrame.stop: the work is left to a stopper thread.
StopFrame(reload_config) ==
    /\ started /\ ~stopping
    /\ stopping' = TRUE /\ stopper' = "entering" /\ reload' = reload_config
    /\ UNCHANGED <<started, target, bots, config, exited, lost>>

ClickStop == StopFrame(TRUE) /\ UNCHANGED coord

OpenWindow ==
    /\ StartEnabled
    /\ window' = TRUE
    /\ UNCHANGED <<inst, saves, frame, bots, coord, exited, lost>>

CloseWindow ==
    /\ window
    /\ window' = FALSE
    /\ UNCHANGED <<inst, saves, frame, bots, coord, exited, lost>>

\* The save worker writes the file and queues a reload on the main thread.
SaveConfig ==
    /\ window /\ saves < MaxSaves /\ Room(1)
    /\ saves' = saves + 1
    /\ UNCHANGED <<inst, window, frame, bots, coord, exited, lost>>

\* initialize_config: the instance is replaced, whatever its bot is doing.
Replace ==
    /\ inst' = inst + 1
    /\ lost' = IF Live(inst) /\ started'
               THEN [lost EXCEPT ![inst] = @ \cup {"reload"}] ELSE lost

ReloadSaved ==
    /\ saves > 0
    /\ saves' = saves - 1
    /\ UNCHANGED <<window, frame, bots, coord, exited>>
    /\ Replace

-----------------------------------------------------------------------------
(* The stopper thread (BaseStrategy.stop). StopFrameAnytime, SignalLost,
   LeavesEarly, WaitsForEver and JoinsFinalized are not part of Next: each is
   the operation after it with one thing wrong. *)

\* It stops the instance the frame has by now. A bot without a controller cannot
\* be signalled, which goes to the log.
StopperEnters ==
    /\ stopper = "entering"
    /\ target' = inst
    /\ stopper' = IF ~isRunning[inst] THEN "finalizing"
                  ELSE IF LoopRunning(inst) THEN "signalling" ELSE "joining"
    /\ lost' = IF phase[inst] = "registering"
               THEN [lost EXCEPT ![inst] = @ \cup {"early"}] ELSE lost
    /\ UNCHANGED <<started, stopping, reload, bots, config, coord, exited>>

SignalLost ==
    /\ stopper = "signalling" /\ LoopRunning(target)
    /\ stopper' = "joining"
    /\ UNCHANGED <<started, stopping, target, reload, bots, config, coord, exited, lost>>

\* The loop was running when it was looked at, before resource_lock was awaited.
StopperSignals ==
    /\ stopper = "signalling" /\ LoopRunning(target)
    /\ signalled' = [signalled EXCEPT ![target] = TRUE]
    /\ stopper' = "joining"
    /\ UNCHANGED <<started, stopping, target, reload, phase, isRunning, config, coord, exited, lost>>

\* call_soon_threadsafe on a loop closed since then: the stopper thread dies.
StopperRaises ==
    /\ stopper = "signalling" /\ ~LoopRunning(target)
    /\ stopper' = "raised"
    /\ UNCHANGED <<started, stopping, target, reload, bots, config, coord, exited, lost>>

StopperDone ==
    /\ isRunning' = [isRunning EXCEPT ![target] = FALSE]
    /\ stopper' = "finalizing"
    /\ UNCHANGED <<started, stopping, target, reload, phase, signalled, config, coord, exited>>

LeavesEarly == stopper = "joining" /\ UNCHANGED lost /\ StopperDone

StopperJoined ==
    stopper = "joining" /\ ~Live(target) /\ UNCHANGED lost /\ StopperDone

WaitsForEver ==
    stopper = "joining" /\ ~Live(target) /\ UNCHANGED lost /\ StopperDone

\* The bot is still alive after 45 seconds.
StopperExpires ==
    /\ stopper = "joining" /\ Live(target)
    /\ lost' = [lost EXCEPT ![target] = @ \cup {"timeout"}]
    /\ StopperDone

\* _finalize_stop, on the main thread.
Finalize ==
    /\ stopper = "finalizing"
    /\ started' = FALSE /\ stopping' = FALSE /\ stopper' = "none"
    /\ UNCHANGED <<target, reload, bots, window, saves, coord, exited>>
    /\ IF reload THEN Replace ELSE UNCHANGED <<inst, lost>>

-----------------------------------------------------------------------------
(* Closing the application: each request has a coordinator of its own. *)

CloseApp(c) ==
    /\ coord[c] = "none"
    /\ coord' = [coord EXCEPT ![c] = "stopping"]
    /\ UNCHANGED <<frame, bots, config, exited, lost>>

\* The thread to wait for is there only if this request stopped the frame.
CoordStops(c) ==
    /\ coord[c] = "stopping"
    /\ \/ /\ StopFrame(FALSE)
          /\ coord' = [coord EXCEPT ![c] = "joining"]
       \/ /\ ~started \/ stopping
          /\ coord' = [coord EXCEPT ![c] = "quitting"]
          /\ UNCHANGED <<frame, bots, config, exited, lost>>

JoinsFinalized(c) ==
    /\ coord[c] = "joining" /\ stopper = "finalizing"
    /\ coord' = [coord EXCEPT ![c] = "quitting"]
    /\ UNCHANGED <<frame, bots, config, exited, lost>>

\* The stopper thread is over, however it ended.
CoordJoined(c) ==
    /\ coord[c] = "joining" /\ stopper \in {"none", "finalizing", "raised"}
    /\ coord' = [coord EXCEPT ![c] = "quitting"]
    /\ UNCHANGED <<frame, bots, config, exited, lost>>

\* _finalize_gui_exit ends the main loop, and with it the process.
Exit(c) ==
    /\ coord[c] = "quitting"
    /\ exited' = TRUE
    /\ UNCHANGED <<frame, bots, config, coord, lost>>

-----------------------------------------------------------------------------

Init ==
    /\ inst = 1
    /\ phase = [i \in Instances |-> "none"]
    /\ isRunning = [i \in Instances |-> FALSE]
    /\ signalled = [i \in Instances |-> FALSE]
    /\ started = FALSE /\ stopping = FALSE
    /\ stopper = "none" /\ target = 1 /\ reload = FALSE
    /\ window = FALSE /\ saves = 0
    /\ coord = [c \in Closers |-> "none"]
    /\ exited = FALSE
    /\ lost = [i \in Instances |-> {}]

BotStep(i) == BotRegisters(i) \/ BotLeaves(i) \/ BotEnds(i)

Click ==
    \/ ClickStart \/ ClickStop \/ OpenWindow \/ CloseWindow \/ SaveConfig
    \/ \E c \in Closers : CloseApp(c)

StopperStep ==
    /\ ~exited
    /\ \/ StopperEnters \/ StopperSignals \/ StopperRaises
       \/ StopperJoined \/ StopperExpires \/ Finalize

CoordStep(c) == ~exited /\ (CoordStops(c) \/ CoordJoined(c) \/ Exit(c))

Next ==
    \/ ~exited /\ (Click \/ ReloadSaved)
    \/ ~exited /\ \E i \in Instances : BotStep(i)
    \/ StopperStep
    \/ \E c \in Closers : CoordStep(c)

\* The stopper's join is bounded and the main thread runs its callbacks. Nothing
\* is asked of the bots, which may hang in a price fetch, nor of the user.
Spec ==
    /\ Init /\ [][Next]_vars
    /\ WF_vars(StopperStep)
    /\ \A c \in Closers : WF_vars(CoordStep(c))

-----------------------------------------------------------------------------
(* Properties. *)

\* Every variable holds a value of its kind, and a stop is of a started frame.
TypeOK ==
    /\ inst \in Instances /\ target \in Instances
    /\ phase \in [Instances -> Phases]
    /\ isRunning \in [Instances -> BOOLEAN]
    /\ signalled \in [Instances -> BOOLEAN]
    /\ {started, stopping, reload, window, exited} \subseteq BOOLEAN
    /\ stopper \in StopperStates
    /\ saves \in 0..MaxSaves
    /\ coord \in [Closers -> CoordStates]
    /\ lost \in [Instances -> SUBSET {"early", "timeout", "reload"}]
    /\ stopping => started
    /\ stopping <=> stopper # "none"

\* A bot the frame no longer holds has been told to end, unless STOP came before
\* it had a controller or a saved configuration replaced its instance.
RunningIsStoppable ==
    \A i \in Instances :
        phase[i] = "running" /\ ~(started /\ i = inst) /\ ~signalled[i]
            => lost[i] \cap {"early", "reload"} # {}

\* A bot outlives its frame's hold on it only when the join timed out or a saved
\* configuration replaced its instance.
OutlivesByTimeout ==
    \A i \in Instances :
        Live(i) /\ ~(started /\ i = inst)
            => lost[i] \cap {"timeout", "reload"} # {}

\* A stop ends by freeing the frame's buttons, however long the bot hangs, unless
\* the bot's loop closed while its stopper waited for resource_lock.
StopFinishes == stopping ~> (~stopping \/ stopper = "raised" \/ exited)

\* Closing the window ends the process, whatever the bots and stoppers do.
CloseExits == (\E c \in Closers : coord[c] # "none") ~> exited

\* The frame never has two bots at work: _pre_start_validation refuses to start
\* a strategy whose "Bot thread already running".
OneLiveBot == Cardinality({i \in Instances : Live(i)}) <= 1

\* The application exits only when no stopper thread is at work: the coordinator
\* waits "for all stopper threads to complete".
ExitAfterStops == exited => stopper \notin {"entering", "signalling", "joining"}
=============================================================================
