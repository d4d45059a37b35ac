------------------------------- MODULE Worker -------------------------------
(***************************************************************************)
(* The life of the bot process: the main thread's Worker.run loop, the     *)
(* FreqtradeBot instance it drives, and the RPC threads (Telegram, REST)   *)
(* that assign the instance's `state` without any lock while the main      *)
(* thread reads it.                                                        *)
(*                                                                         *)
(* A step of the main thread lies between two accesses to the shared       *)
(* `state`.  /start and /stop test `state` before they assign it: a test   *)
(* that is stale by then makes the assignment change nothing, so that one  *)
(* step does for both.  /pause tests and assigns twice and is four steps.  *)
(***************************************************************************)
EXTENDS Naturals

CONSTANTS
  Clients,       \* RPC threads that may issue commands
  InitialState   \* config["initial_state"], State.STOPPED when it is not set

RUNNING == "RUNNING"
PAUSED  == "PAUSED"
STOPPED == "STOPPED"
RELOAD  == "RELOAD_CONFIG"

States == {RUNNING, PAUSED, STOPPED, RELOAD}

ASSUME InitialStateAssumption == InitialState \in States \ {RELOAD}

\* The two states in which Worker._worker calls FreqtradeBot.process.
Active == {RUNNING, PAUSED}

VARIABLES
  state,    \* FreqtradeBot.state of the current instance
  old,      \* run()'s local `state`: what the previous _worker call returned
  seen,     \* _worker's local `state`: what this call read
  wpc,      \* where the main thread is
  rpcUp,    \* the RPC modules of the current instance take commands
  cpc,      \* where each RPC thread is inside _rpc_pause
  started,  \* history: startup() was run on the current instance
  late      \* history: process() calls begun since `state` became STOPPED

workerVars == <<state, old, seen, wpc, rpcUp, cpc, started, late>>

WorkerPc == {"top", "startup", "dispatch", "process", "stopped", "cleanup",
             "create", "init", "exited"}
ClientPc == {"idle", "writePaused", "readAgain", "writeAgain"}

WorkerInit ==
  /\ state = STOPPED
  /\ old = "none" /\ seen = "none"
  /\ wpc = "create"
  /\ rpcUp = FALSE
  /\ cpc = [c \in Clients |-> "idle"]
  /\ started = FALSE
  /\ late = 0

(***************************************************************************)
(* The main thread.                                                        *)
(***************************************************************************)

\* Mutant: a worker that forgets that a reloaded instance is a new one.
NeedsStartupAfterStopOnly(new, prev) ==
  new \in Active /\ prev \notin Active \cup {RELOAD}

\* startup() is due when the bot becomes active, not on RUNNING <-> PAUSED.
NeedsStartup(new, prev) == new \in Active /\ prev \notin Active

\* Mutant: `state` is read once per instance, not once per iteration.
StaleState == IF seen = "none" \/ old = RELOAD THEN state ELSE seen

\* `state = self.freqtrade.state`
ReadState == state

\* The head of _worker: read the state, run startup() on a transition into an
\* active state, then dispatch.  RELOAD_CONFIG is dispatched to nothing: the
\* call returns it and run() calls _reconfigure.
WorkerTop ==
  /\ wpc = "top"
  /\ seen' = ReadState
  /\ old' = IF seen' = RELOAD THEN RELOAD ELSE old
  /\ wpc' = CASE seen' = RELOAD -> "cleanup"
              [] seen' = STOPPED -> "stopped"
              [] NeedsStartup(seen', old) -> "startup"
              [] OTHER -> "dispatch"
  /\ UNCHANGED <<state, rpcUp, cpc, started, late>>

\* FreqtradeBot.startup; the iteration goes on without reading state again.
Startup ==
  /\ wpc = "startup"
  /\ wpc' = "dispatch" /\ started' = TRUE
  /\ UNCHANGED <<state, old, seen, rpcUp, cpc, late>>

\* _throttle calls process(); the history counts those begun after a stop.
BeginProcess ==
  /\ wpc = "dispatch"
  /\ wpc' = "process"
  /\ late' = IF state = STOPPED THEN late + 1 ELSE late
  /\ UNCHANGED <<state, old, seen, rpcUp, cpc, started>>

\* process() returned, or raised a TemporaryError that _process_running
\* swallows; _worker returns what it had read.
ProcessDone ==
  /\ wpc = "process"
  /\ wpc' = "top" /\ old' = seen
  /\ UNCHANGED <<state, seen, rpcUp, cpc, started, late>>

\* An OperationalException stops the trader: the main thread assigns STOPPED
\* over whatever an RPC thread may have put there meanwhile.
ProcessFails ==
  /\ wpc = "process"
  /\ state' = STOPPED
  /\ wpc' = "top" /\ old' = seen
  /\ late' = 0
  /\ UNCHANGED <<seen, rpcUp, cpc, started>>

ProcessStopped ==
  /\ wpc = "stopped"
  /\ wpc' = "top" /\ old' = seen
  /\ UNCHANGED <<state, seen, rpcUp, cpc, started, late>>

\* _reconfigure, first half: cleanup() of the old instance takes its RPC
\* modules down; a handler still running there can only reach the old object.
Cleanup ==
  /\ wpc = "cleanup"
  /\ wpc' = "create"
  /\ rpcUp' = FALSE
  /\ cpc' = [c \in Clients |-> "idle"]
  /\ UNCHANGED <<state, old, seen, started, late>>

\* FreqtradeBot.__init__ up to and including RPCManager(self): the state is
\* STOPPED and commands are served from here on.
CreateBot ==
  /\ wpc = "create"
  /\ state' = STOPPED
  /\ rpcUp' = TRUE
  /\ wpc' = "init"
  /\ started' = FALSE
  /\ late' = 0
  /\ UNCHANGED <<old, seen, cpc>>

\* `self.state = State[initial_state.upper()] if initial_state else STOPPED`
AssignInitialState == InitialState

\* The rest of __init__, which assigns the configured state.
FinishInit ==
  /\ wpc = "init"
  /\ state' = AssignInitialState
  /\ wpc' = "top"
  /\ late' = 0
  /\ UNCHANGED <<old, seen, rpcUp, cpc, started>>

\* SIGTERM, or an exception that nothing in run() catches (startup, cleanup
\* and __init__ are not guarded): start_trading calls worker.exit().
Exit ==
  /\ wpc # "exited"
  /\ wpc' = "exited"
  /\ rpcUp' = FALSE
  /\ cpc' = [c \in Clients |-> "idle"]
  /\ UNCHANGED <<state, old, seen, started, late>>

(***************************************************************************)
(* RPC threads.                                                            *)
(***************************************************************************)

\* An RPC thread assigns the state of the instance it serves.
Assign(s) ==
  /\ state' = s
  /\ late' = 0

RpcStart(c) ==
  /\ rpcUp /\ cpc[c] = "idle"
  /\ state # RUNNING
  /\ Assign(RUNNING)
  /\ UNCHANGED <<old, seen, wpc, rpcUp, cpc, started>>

RpcStop(c) ==
  /\ rpcUp /\ cpc[c] = "idle"
  /\ state # STOPPED
  /\ Assign(STOPPED)
  /\ UNCHANGED <<old, seen, wpc, rpcUp, cpc, started>>

RpcReloadConfig(c) ==
  /\ rpcUp /\ cpc[c] = "idle"
  /\ Assign(RELOAD)
  /\ UNCHANGED <<old, seen, wpc, rpcUp, cpc, started>>

\* `if state == RUNNING: state = PAUSED`, then `if state == STOPPED:
\* state = PAUSED`: each test is one access, each assignment another.
RpcPauseRead(c) ==
  /\ rpcUp /\ cpc[c] \in {"idle", "readAgain"}
  /\ cpc' = [cpc EXCEPT ![c] =
       CASE @ = "idle" /\ state = RUNNING -> "writePaused"
         [] @ = "idle" /\ state # RUNNING -> "readAgain"
         [] @ = "readAgain" /\ state = STOPPED -> "writeAgain"
         [] OTHER -> "idle"]
  /\ UNCHANGED <<state, old, seen, wpc, rpcUp, started, late>>

RpcPauseWrite(c) ==
  /\ rpcUp /\ cpc[c] \in {"writePaused", "writeAgain"}
  /\ Assign(PAUSED)
  /\ cpc' = [cpc EXCEPT ![c] = IF @ = "writePaused" THEN "readAgain" ELSE "idle"]
  /\ UNCHANGED <<old, seen, wpc, rpcUp, started>>

(***************************************************************************)
(* Specification.                                                          *)
(***************************************************************************)

MainThread ==
  \/ WorkerTop
  \/ Startup
  \/ BeginProcess
  \/ ProcessDone
  \/ ProcessFails
  \/ ProcessStopped
  \/ Cleanup
  \/ CreateBot
  \/ FinishInit

RpcThread(c) ==
  \/ RpcStart(c)
  \/ RpcStop(c)
  \/ RpcReloadConfig(c)
  \/ RpcPauseRead(c)
  \/ RpcPauseWrite(c)

WorkerNext ==
  \/ MainThread
  \/ Exit
  \/ \E c \in Clients : RpcThread(c)

WorkerSpec == WorkerInit /\ [][WorkerNext]_workerVars

\* The main thread is an ordinary thread that always has a next statement, so
\* it takes another step unless the process exits.  Nothing obliges a user to
\* send a command, and process() need not fail.
FairSpec == WorkerSpec /\ WF_workerVars(MainThread)

(***************************************************************************)
(* Properties.                                                             *)
(***************************************************************************)

\* Every variable ranges over the values the code gives it.
WorkerTypeOK ==
  /\ state \in States
  /\ old \in States \cup {"none"}
  /\ seen \in States \cup {"none"}
  /\ wpc \in WorkerPc
  /\ rpcUp \in BOOLEAN
  /\ cpc \in [Clients -> ClientPc]
  /\ started \in BOOLEAN
  /\ late \in Nat

\* process() never runs on an instance whose startup() has not been run: the
\* worker's comparison with the previous state must treat a reload, after
\* which the instance is new, as a start.
ProcessOnlyStarted == wpc = "process" => started

\* After the state became STOPPED, at most one more process() call begins
\* (the one the worker had decided on before): the worker re-reads the state
\* at every iteration instead of acting on what it read before the stop.
AtMostOneIterationAfterStop == late <= 1

\* A reload that is asked for is carried out, superseded by a later command or
\* failure that assigns the state, or the process exits; it is never just
\* ignored by a worker that is busy in another state.
ReloadIsServed ==
  state = RELOAD ~> (wpc \in {"create", "exited"} \/ state # RELOAD)

\* A stop is noticed: the main thread reaches the stopped state, unless the
\* state is assigned again first or the process exits.
StopIsServed ==
  (state = STOPPED /\ wpc \in {"startup", "dispatch", "process"})
    ~> (wpc \in {"stopped", "exited"} \/ state # STOPPED)

\* What the comment above RPCManager(self) in __init__ promises: commands may
\* arrive right after initialization of the RPC modules "so anything in the
\* Freqtradebot instance should be ready (initialized), including the initial
\* state of the bot".  Then no later statement of __init__ may overwrite the
\* state an RPC thread has assigned.
CommandDuringInitKept ==
  [][ wpc = "init" /\ wpc' = "top" /\ state # STOPPED => state' = state ]_workerVars
=============================================================================
