------------------------------- MODULE FreqAI -------------------------------
(***************************************************************************)
(* The models of FreqAI in a live bot.  A thread of its own trains one     *)
(* pair after the other, saves each model to a folder, announces it in     *)
(* memory and writes `pair_dict` (the drawer) to disk; meanwhile the main  *)
(* thread loads what it needs for a prediction, from memory or, after a    *)
(* restart, from the folder.  The two threads share the dictionaries of    *)
(* the data drawer without a lock, and the process may die at any point.   *)
(*                                                                         *)
(* A training is its number, which stands for its timestamp too; data,     *)
(* models and predictions are left out.                                    *)
(***************************************************************************)
EXTENDS Integers, Sequences, FiniteSets, FiniteSetsExt, SequencesExt

CONSTANTS
  Pairs,         \* pair_whitelist of the configuration
  Leaving,       \* pairs that may leave the whitelist in force, and come back
  NumKeep,       \* purge_old_models
  Tensorboard,   \* the logger creates the folder before the training
  MaxTrainings,  \* bound: trainings
  Failures,      \* bound: trainings that raise an exception
  Crashes        \* bound: crashes

ASSUME FreqAIAssumption ==
  /\ Pairs # {} /\ IsFiniteSet(Pairs) /\ Leaving \subseteq Pairs
  /\ {NumKeep, MaxTrainings} \subseteq Nat \ {0} /\ {Failures, Crashes} \subseteq Nat
  /\ Tensorboard \in BOOLEAN

VARIABLES
  folders,    \* what a pair's folder of a training holds
  drawer,     \* pair_dictionary.json ...
  readable,   \* ... unless it was cut off
  mem,        \* the dictionaries in memory
  queue,      \* train_queue
  thread,     \* "none", "running", "dead"
  stopping,   \* _stop_event
  tpc, tpair, \* where the training thread is, and for which pair
  step,       \* steps of SaveSteps it has done
  count,      \* trainings so far
  oldest,     \* the trainings from here on are within live_retrain_hours
  lpc, load,  \* where the main thread is in load_data, and what it has
  mixed,      \* history: a save and this load overlap
  stale,      \* history: pairs whose newer model was replaced in memory
  waiting,    \* history: the pairs attempted since the last attempt at a pair
  failures, crashes

disk    == <<folders, drawer, readable>>
trainer == <<queue, thread, tpc, tpair, step, count>>
loader  == <<lpc, load, mixed>>
bounds  == <<failures, crashes>>
vars    == <<disk, mem, trainer, stopping, oldest, loader, stale, waiting, bounds>>

Files     == {"model", "metadata", "feature", "label"}
Announced == {"stamp", "filename", "path"}            \* what pair_dict says of a pair
Fields    == Announced \cup {"models", "known", "metadata", "feature", "label"}

Nothing == [p \in Pairs |-> 0]
NoLoad  == [pair |-> CHOOSE p \in Pairs : TRUE, disk |-> FALSE, filename |-> 0, path |-> 0,
            model |-> 0, metadata |-> 0, feature |-> 0, label |-> 0]

\* _set_train_queue: what was trained longest ago comes first.
Queues(stamp) ==
  {q \in SetToSeqs(Pairs) : \A i, j \in DOMAIN q : i < j => stamp[q[i]] <= stamp[q[j]]}

Init ==
  /\ folders = [p \in Pairs |-> [n \in {} |-> {}]]
  /\ drawer = [f \in Announced |-> Nothing] /\ readable = TRUE
  /\ mem = [f \in Fields |-> Nothing] /\ queue \in Queues(Nothing)
  /\ thread = "none" /\ stopping = FALSE
  /\ tpc = "scan" /\ tpair = NoLoad.pair /\ step = 0 /\ count = 0
  /\ oldest = 1
  /\ lpc = "idle" /\ load = NoLoad /\ mixed = FALSE
  /\ stale = {} /\ waiting = [p \in Pairs |-> {}] /\ failures = 0 /\ crashes = 0

(***************************************************************************)
(* The training thread.                                                    *)
(***************************************************************************)

In(p, n) == IF n \in DOMAIN folders[p] THEN folders[p][n] ELSE {}

\* folders with one more file in the folder of this training
With(file) ==
  [folders EXCEPT ![tpair] = [n \in DOMAIN @ \cup {count} |->
                                In(tpair, n) \cup (IF n = count THEN {file} ELSE {})]]

\* check_if_new_training_required, where the trainings before `since` are too old;
\* a pair without a model has stamp 0.
Due(p, since) == mem["stamp"][p] < since

\* The head of the queue is due: time passes until it is, and is not looked at
\* anywhere else.
Scan ==
  /\ thread = "running" /\ tpc = "scan" /\ ~ stopping /\ queue # <<>> /\ count < MaxTrainings
  /\ oldest' \in oldest .. count + 1 /\ Due(Head(queue), oldest')
  /\ tpair' = Head(queue) /\ count' = count + 1 /\ tpc' = "train" /\ step' = 0
  /\ waiting' = [p \in Pairs |-> IF p = tpair' \/ p \notin Range(queue) THEN {}
                                 ELSE waiting[p] \cup {tpair'}]
  /\ UNCHANGED <<disk, mem, queue, thread, stopping, loader, stale, bounds>>

\* dp.current_whitelist() is without the pair for the moment.
ScanRemoves ==
  /\ thread = "running" /\ tpc = "scan" /\ ~ stopping /\ queue # <<>>
  /\ Head(queue) \in Leaving /\ queue' = Tail(queue)
  /\ UNCHANGED <<disk, mem, thread, tpc, tpair, step, count, stopping, oldest, loader, stale,
                 waiting, bounds>>

\* The thread ends: it is asked to, or train_queue[0] of an empty queue raises.
TrainerEnds ==
  /\ thread = "running" /\ tpc = "scan" /\ (stopping \/ queue = <<>>)
  /\ thread' = "dead"
  /\ UNCHANGED <<disk, mem, queue, tpc, tpair, step, count, stopping, oldest, loader, stale,
                 waiting, bounds>>

\* extract_data_and_train_model and save_data after the model is trained, in the
\* order of the code: where something is written to, and what.
SaveSteps ==
  << <<"memory", "stamp">>,
     <<"disk", "folder">>, <<"disk", "model">>, <<"disk", "metadata">>, <<"disk", "feature">>,
     <<"disk", "label">>,
     <<"memory", "models">>, <<"memory", "filename">>, <<"memory", "path">>,
     <<"memory", "known">>, <<"memory", "metadata">>, <<"memory", "feature">>,
     <<"memory", "label">>,
     <<"drawer", "open">>, <<"drawer", "write">> >>

Train ==
  /\ tpc = "train" /\ tpc' = "save"
  /\ folders' = IF Tensorboard THEN With("folder") ELSE folders
  /\ UNCHANGED <<drawer, readable, mem, queue, thread, tpair, step, count, stopping, oldest,
                 loader, stale, waiting, bounds>>

\* Mutant: a model that is there already is kept.
RememberedFirst(f) == [mem EXCEPT ![f][tpair] = IF f = "models" /\ @ # 0 THEN @ ELSE count]

Remembered(f) == [mem EXCEPT ![f][tpair] = count]

Save ==
  /\ tpc = "save" /\ step < Len(SaveSteps) /\ step' = step + 1
  /\ LET to == SaveSteps[step'][1]  what == SaveSteps[step'][2] IN
     /\ folders' = IF to = "disk" THEN With(what) ELSE folders
     /\ mem' = IF to = "memory" THEN Remembered(what) ELSE mem
     /\ readable' = IF to = "drawer" THEN what = "write" ELSE readable
     /\ drawer' = IF what = "write" THEN [f \in Announced |-> mem[f]] ELSE drawer
     /\ mixed' = /\ lpc # "idle"
                 /\ mixed \/ (to = "memory" /\ what # "stamp" /\ load.pair = tpair)
     /\ stale' = IF what = "models" THEN stale \ {tpair} ELSE stale
  /\ UNCHANGED <<queue, thread, tpc, tpair, count, stopping, oldest, lpc, load,
                 waiting, bounds>>

\* The training or a write raises an exception, which is logged.
TrainingFails ==
  /\ failures < Failures /\ failures' = failures + 1
  /\ \/ tpc = "train" /\ folders' = IF Tensorboard THEN With("folder") ELSE folders
     \/ /\ tpc = "save" /\ step < Len(SaveSteps) /\ SaveSteps[step + 1][1] # "memory"
        /\ UNCHANGED folders
  /\ tpc' = "rotate"
  /\ UNCHANGED <<drawer, readable, mem, queue, thread, tpair, step, count, stopping, oldest,
                 loader, stale, waiting, crashes>>

\* Mutant: the folder of the last training only is kept.
KeptLast(p) == {n \in DOMAIN folders[p] : \A m \in DOMAIN folders[p] : m <= n}

Kept(p) ==
  {n \in DOMAIN folders[p] : Cardinality({m \in DOMAIN folders[p] : m > n}) < NumKeep}

\* purge_old_models, of all pairs
Purge ==
  /\ tpc = "save" /\ step = Len(SaveSteps) /\ tpc' = "rotate"
  /\ folders' = [p \in Pairs |-> [n \in Kept(p) |-> folders[p][n]]]
  /\ UNCHANGED <<drawer, readable, mem, queue, thread, tpair, step, count, stopping, oldest,
                 loader, stale, waiting, bounds>>

\* Mutant: a pair whose training failed stays at the head.
RotatedIfSaved == IF step < Len(SaveSteps) THEN queue ELSE Append(Tail(queue), Head(queue))

Rotated == Append(Tail(queue), Head(queue))

Rotate ==
  /\ tpc = "rotate" /\ tpc' = "scan" /\ queue' = Rotated /\ step' = 0
  /\ UNCHANGED <<disk, mem, thread, tpair, count, stopping, oldest, loader, stale, waiting,
                 bounds>>

(***************************************************************************)
(* The main thread: load_data, called for every pair it analyzes.          *)
(***************************************************************************)

\* A save has announced some, but not all of what a load reads.
Announcing ==
  /\ tpc \in {"save", "rotate"} /\ \E i \in 1 .. step : SaveSteps[i] = <<"memory", "models">>
  /\ \E i \in step + 1 .. Len(SaveSteps) : SaveSteps[i][1] = "memory"

Loads == thread # "down" /\ ~ stopping

\* start_live starts the training thread if it is not there.
BeginLoad(p) ==
  /\ Loads /\ lpc = "idle"
  /\ thread' = IF thread = "none" THEN "running" ELSE thread
  /\ IF mem["filename"][p] = 0 THEN UNCHANGED loader
     ELSE /\ lpc' = "path" /\ load' = [NoLoad EXCEPT !.pair = p, !.filename = mem["filename"][p]]
          /\ mixed' = (tpair = p /\ Announcing)
  /\ UNCHANGED <<disk, mem, queue, tpc, tpair, step, count, stopping, oldest,
                 stale, waiting, bounds>>

\* One of the things load_data reads, in its order.  A key that is not there yet
\* and a file that is not there raise.
LoadSteps == <<"path", "known", "metadata", "feature", "label", "model">>

After(what) ==
  IF what = "model" THEN "predict"
  ELSE LoadSteps[1 + CHOOSE i \in DOMAIN LoadSteps : LoadSteps[i] = what]

OnDisk(file) ==
  IF load.path = load.filename /\ file \in In(load.pair, load.path) THEN load.filename ELSE 0

Found(what) ==
  CASE what \in {"metadata", "feature", "label"} /\ load.disk -> OnDisk(what)
    [] what = "model" /\ mem["models"][load.pair] = 0 -> OnDisk("model")
    [] what = "model" -> mem["models"][load.pair]
    [] OTHER -> mem[what][load.pair]

Abandoned == lpc' = "idle" /\ load' = NoLoad /\ mixed' = FALSE

Load ==
  /\ Loads /\ lpc \in Range(LoadSteps)
  /\ LET what == lpc IN
     CASE what = "known" -> /\ lpc' = After(what) /\ UNCHANGED mixed
                            /\ load' = [load EXCEPT !.disk = (Found("known") = 0)]
       [] what # "known" /\ what # "path" /\ Found(what) = 0 -> Abandoned
       [] OTHER -> /\ load' = [load EXCEPT ![what] = Found(what)] /\ UNCHANGED mixed
                   /\ lpc' = IF what = "model" /\ mem["models"][load.pair] = 0
                             THEN "check" ELSE After(what)
  /\ UNCHANGED <<disk, mem, trainer, stopping, oldest, stale, waiting, bounds>>

\* A model read from disk is remembered unless there is one.
CheckModel ==
  /\ Loads /\ lpc = "check"
  /\ lpc' = IF mem["models"][load.pair] = 0 THEN "remember" ELSE "predict"
  /\ UNCHANGED <<disk, mem, trainer, stopping, oldest, load, mixed, stale, waiting, bounds>>

RememberModel ==
  /\ Loads /\ lpc = "remember" /\ lpc' = "predict"
  /\ mem' = [mem EXCEPT !["models"][load.pair] = load.model]
  /\ stale' = IF mem["models"][load.pair] # 0 THEN stale \cup {load.pair} ELSE stale
  /\ UNCHANGED <<disk, trainer, stopping, oldest, load, mixed, waiting, bounds>>

Predict ==
  /\ Loads /\ lpc = "predict" /\ Abandoned
  /\ UNCHANGED <<disk, mem, trainer, stopping, oldest, stale, waiting, bounds>>

(***************************************************************************)
(* Shutdown and crashes.                                                   *)
(***************************************************************************)

\* shutdown
Stop ==
  /\ Loads /\ lpc = "idle" /\ stopping' = TRUE
  /\ UNCHANGED <<disk, mem, trainer, oldest, loader, stale, waiting, bounds>>

\* A new instance reads the drawer; it does not start if that was cut off.
Boot ==
  /\ mem' = [f \in Fields |-> IF f \in Announced THEN drawer[f] ELSE Nothing]
  /\ queue' \in Queues(drawer["stamp"]) /\ thread' = IF readable THEN "none" ELSE "down"
  /\ stopping' = FALSE /\ tpc' = "scan" /\ tpair' = NoLoad.pair /\ step' = 0
  /\ lpc' = "idle" /\ load' = NoLoad /\ mixed' = FALSE
  /\ stale' = {} /\ waiting' = [p \in Pairs |-> {}]
  /\ UNCHANGED <<disk, count, oldest, failures>>

\* shutdown has waited for the thread (wait_for_training_iteration_on_reload).
Reload == stopping /\ thread # "running" /\ Boot /\ UNCHANGED crashes

Crash == crashes < Crashes /\ crashes' = crashes + 1 /\ thread # "down" /\ Boot

Next ==
  \/ Scan
  \/ ScanRemoves
  \/ TrainerEnds
  \/ Train
  \/ Save
  \/ TrainingFails
  \/ Purge
  \/ Rotate
  \/ \E p \in Pairs : BeginLoad(p)
  \/ Load
  \/ CheckModel
  \/ RememberModel
  \/ Predict
  \/ Stop
  \/ Reload
  \/ Crash

Spec == Init /\ [][Next]_vars

(***************************************************************************)
(* Properties.                                                             *)
(***************************************************************************)

TypeOK ==
  /\ \A p \in Pairs : \A n \in DOMAIN folders[p] :
       n \in 1 .. MaxTrainings /\ folders[p][n] \subseteq Files \cup {"folder"}
  /\ drawer \in [Announced -> [Pairs -> 0 .. MaxTrainings]]
  /\ mem \in [Fields -> [Pairs -> 0 .. MaxTrainings]]
  /\ Range(queue) \subseteq Pairs /\ stale \subseteq Pairs
  /\ {readable, stopping, mixed} \subseteq BOOLEAN

\* Folders after n that a purge counts although nothing will name them: of attempts
\* that failed, or that a crash cut off before the drawer was written.
Unnamed(p, n) ==
  {m \in DOMAIN folders[p] : /\ m > n /\ m # mem["filename"][p]
                             /\ ~ (tpc = "save" /\ tpair = p /\ m = count)}

\* Whenever the process dies, the model that the drawer names for a pair is in
\* its folder, complete: it was written before it was named and is not purged,
\* whatever was trained for other pairs since.  Attempts that came to nothing
\* leave folders that count as models; NumKeep of them take its place.
RestartFindsModel ==
  \A p \in Pairs :
    LET n == drawer["filename"][p]
    IN  n # 0 /\ Cardinality(Unnamed(p, n)) < NumKeep =>
          Files \subseteq In(p, n) /\ drawer["path"][p] = n

\* A prediction uses a model with the metadata and pipelines of its training,
\* also when some of it comes from disk.  The exceptions are a load that overlaps
\* a save, and a model that was saved while an older one was read from disk, which
\* stays in memory until the next training.
OneTraining ==
  lpc = "predict" /\ ~ mixed /\ load.pair \notin stale =>
    {load.metadata, load.feature, load.label} = {load.model}

\* A pair that is queued is not passed over: no other pair is trained twice before
\* it has its attempt, even if that pair's trainings fail.
TakesTurns ==
  [][count' # count => \A p \in Range(queue) \ {tpair'} : tpair' \notin waiting[p]]_vars
=============================================================================
