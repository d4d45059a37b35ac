--------------------------- MODULE ThreadsProofs ---------------------------
(***************************************************************************)
(* The two places where threads share the attributes of an object without  *)
(* a lock.  Worker: RPC threads assign the state the main thread reads;    *)
(* what is shown holds for any number of them and any initial state.       *)
(* FreqAI: a training thread saves, names and purges what the thread of    *)
(* the bot loads; what is shown holds for any pairs, numbers of trainings, *)
(* failures and crashes, and any number of models that a purge keeps.      *)
(***************************************************************************)
EXTENDS Worker, FreqAI, FiniteSetTheorems, WellFoundedInduction, TLAPS

(***************************************************************************)
(* Worker: types.                                                          *)
(***************************************************************************)

\* Every variable keeps the values the code gives it (Worker, FreqtradeBot
\* and the state commands of RPC), whatever the threads interleave.
THEOREM WorkerTypeCorrect == WorkerSpec => []WorkerTypeOK
<1>1. WorkerInit => WorkerTypeOK
  <2> SUFFICES ASSUME WorkerInit PROVE WorkerTypeOK
    OBVIOUS
  <2>1. rpcUp \in BOOLEAN /\ started \in BOOLEAN
    BY Zenon DEF WorkerInit
  <2>2. cpc \in [Clients -> ClientPc]
    BY DEF WorkerInit, ClientPc
  <2> QED
    BY <2>1, <2>2 DEF WorkerInit, WorkerTypeOK, States, WorkerPc, RUNNING, PAUSED, STOPPED, RELOAD
<1>2. WorkerTypeOK /\ [WorkerNext]_workerVars => WorkerTypeOK'
  <2> SUFFICES ASSUME WorkerTypeOK, [WorkerNext]_workerVars
               PROVE  WorkerTypeOK'
    OBVIOUS
  <2> USE DEF WorkerTypeOK, States, WorkerPc, ClientPc, RUNNING, PAUSED, STOPPED, RELOAD
  <2>1. CASE WorkerTop
    BY <2>1 DEF WorkerTop, ReadState, NeedsStartup, Active
  <2>2. CASE Startup \/ BeginProcess
    <3>1. started' \in BOOLEAN /\ rpcUp' \in BOOLEAN
      BY <2>2, Zenon DEF Startup, BeginProcess
    <3> QED
      BY <2>2, <3>1 DEF Startup, BeginProcess
  <2>3. CASE ProcessDone \/ ProcessFails \/ ProcessStopped
    BY <2>3 DEF ProcessDone, ProcessFails, ProcessStopped
  <2>4. CASE Cleanup \/ CreateBot \/ Exit
    <3>1. rpcUp' \in BOOLEAN /\ started' \in BOOLEAN
      BY <2>4, Zenon DEF Cleanup, CreateBot, Exit
    <3>2. cpc' \in [Clients -> ClientPc]
      BY <2>4 DEF Cleanup, CreateBot, Exit
    <3> QED
      BY <2>4, <3>1, <3>2 DEF Cleanup, CreateBot, Exit
  <2>5. CASE FinishInit
    BY <2>5, InitialStateAssumption DEF FinishInit, AssignInitialState
  <2>6. ASSUME NEW c \in Clients, RpcThread(c)
        PROVE  WorkerTypeOK'
    <3>1. CASE RpcStart(c) \/ RpcStop(c) \/ RpcReloadConfig(c)
      BY <3>1 DEF RpcStart, RpcStop, RpcReloadConfig, Assign
    <3>2. CASE RpcPauseRead(c)
      BY <3>2 DEF RpcPauseRead
    <3>3. CASE RpcPauseWrite(c)
      BY <3>3 DEF RpcPauseWrite, Assign
    <3> QED
      BY <2>6, <3>1, <3>2, <3>3 DEF RpcThread
  <2>7. CASE UNCHANGED workerVars
    BY <2>7 DEF workerVars
  <2> QED
    BY <2>1, <2>2, <2>3, <2>4, <2>5, <2>6, <2>7 DEF WorkerNext, MainThread
<1> QED
  BY <1>1, <1>2, PTL DEF WorkerSpec

(***************************************************************************)
(* Worker: no iteration before startup().                                  *)
(***************************************************************************)

\* run()'s local `state` is an active one only after an iteration that ran
\* startup() itself, or found the same true of the one before; a new instance
\* is made only after that local became RELOAD_CONFIG.
StartedInv ==
  /\ wpc \in {"top", "stopped", "process"} /\ old \in Active => started
  /\ wpc \in {"dispatch", "process"} => started
  /\ wpc \in {"create", "init", "cleanup"} => old \notin Active
  /\ wpc \in {"stopped", "cleanup"} => seen \notin Active

\* FreqtradeBot.process is never called on an instance whose startup() was not:
\* the comparison of the new state with the previous one in Worker._worker
\* treats a reloaded instance as one that starts.
THEOREM StartedBeforeProcess == WorkerSpec => []ProcessOnlyStarted
<1>1. WorkerInit => StartedInv
  BY DEF WorkerInit, StartedInv, Active, RUNNING, PAUSED
<1>2. WorkerTypeOK /\ StartedInv /\ [WorkerNext]_workerVars => StartedInv'
  <2> SUFFICES ASSUME WorkerTypeOK, StartedInv, [WorkerNext]_workerVars
               PROVE  StartedInv'
    OBVIOUS
  <2> USE DEF StartedInv, Active, RUNNING, PAUSED
  <2>1. CASE WorkerTop
    BY <2>1 DEF WorkerTop, ReadState, NeedsStartup, WorkerTypeOK, States,
                STOPPED, RELOAD
  <2>2. CASE Startup \/ BeginProcess
    BY <2>2 DEF Startup, BeginProcess
  <2>3. CASE ProcessDone \/ ProcessFails \/ ProcessStopped
    BY <2>3 DEF ProcessDone, ProcessFails, ProcessStopped
  <2>4. CASE Cleanup \/ CreateBot \/ FinishInit \/ Exit
    BY <2>4 DEF Cleanup, CreateBot, FinishInit, Exit
  <2>5. ASSUME NEW c \in Clients, RpcThread(c)
        PROVE  StartedInv'
    BY <2>5 DEF RpcThread, RpcStart, RpcStop, RpcReloadConfig, RpcPauseRead, RpcPauseWrite
  <2>6. CASE UNCHANGED workerVars
    BY <2>6 DEF workerVars
  <2> QED
    BY <2>1, <2>2, <2>3, <2>4, <2>5, <2>6 DEF WorkerNext, MainThread
<1>3. StartedInv => ProcessOnlyStarted
  BY DEF StartedInv, ProcessOnlyStarted
<1> QED
  BY <1>1, <1>2, <1>3, WorkerTypeCorrect, PTL DEF WorkerSpec

(***************************************************************************)
(* Worker: a stop is obeyed.                                               *)
(***************************************************************************)

\* The count grows only while the state is STOPPED, and only by an iteration
\* of which the decision was made before; from then on the main thread is at
\* its top or stopped, and reads the state before it can begin another.
LateInv ==
  /\ late \in {0, 1}
  /\ wpc \in {"startup", "dispatch"} => late = 0
  /\ late = 1 => state = STOPPED

\* After a stop at most one more process() begins, the one _worker had decided
\* on when the command arrived: it reads the state anew every time.
THEOREM StopIsObeyed == WorkerSpec => []AtMostOneIterationAfterStop
<1>1. WorkerInit => LateInv
  BY DEF WorkerInit, LateInv
<1>2. WorkerTypeOK /\ LateInv /\ [WorkerNext]_workerVars => LateInv'
  <2> SUFFICES ASSUME WorkerTypeOK, LateInv, [WorkerNext]_workerVars
               PROVE  LateInv'
    OBVIOUS
  <2> USE DEF LateInv
  <2>1. CASE WorkerTop
    BY <2>1 DEF WorkerTop, ReadState, NeedsStartup, Active,
                RUNNING, PAUSED, STOPPED, RELOAD
  <2>2. CASE Startup \/ BeginProcess
    BY <2>2 DEF Startup, BeginProcess
  <2>3. CASE ProcessDone \/ ProcessFails \/ ProcessStopped
    BY <2>3 DEF ProcessDone, ProcessFails, ProcessStopped
  <2>4. CASE Cleanup \/ CreateBot \/ FinishInit \/ Exit
    BY <2>4 DEF Cleanup, CreateBot, FinishInit, Exit
  <2>5. ASSUME NEW c \in Clients, RpcThread(c)
        PROVE  LateInv'
    BY <2>5 DEF RpcThread, RpcStart, RpcStop, RpcReloadConfig, RpcPauseRead,
                RpcPauseWrite, Assign
  <2>6. CASE UNCHANGED workerVars
    BY <2>6 DEF workerVars
  <2> QED
    BY <2>1, <2>2, <2>3, <2>4, <2>5, <2>6 DEF WorkerNext, MainThread
<1>3. LateInv => AtMostOneIterationAfterStop
  BY DEF LateInv, AtMostOneIterationAfterStop
<1> QED
  BY <1>1, <1>2, <1>3, WorkerTypeCorrect, PTL DEF WorkerSpec

(***************************************************************************)
(* FreqAI: types.                                                          *)
(***************************************************************************)

SomeLoad ==
  [pair : Pairs, disk : BOOLEAN, filename : 0 .. count, path : 0 .. count, model : 0 .. count,
   metadata : 0 .. count, feature : 0 .. count, label : 0 .. count]

DiskType ==
  /\ DOMAIN folders = Pairs
  /\ \A p \in Pairs : \A n \in DOMAIN folders[p] :
       n \in 1 .. count /\ folders[p][n] \subseteq Files \cup {"folder"}
  /\ drawer \in [Announced -> [Pairs -> 0 .. count]] /\ readable \in BOOLEAN

TrainerType ==
  /\ count \in 0 .. MaxTrainings /\ mem \in [Fields -> [Pairs -> 0 .. count]]
  /\ tpc \in {"scan", "train", "save", "rotate"} /\ tpair \in Pairs
  /\ step \in 0 .. 15 /\ (tpc # "scan" => count # 0)
  /\ tpc \in {"scan", "train"} => step = 0
  /\ thread \in {"none", "running", "dead", "down"} /\ stopping \in BOOLEAN
  /\ oldest \in Nat /\ stale \subseteq Pairs

LoaderType ==
  /\ lpc \in {"idle", "path", "known", "metadata", "feature", "label", "model", "check",
              "remember", "predict"}
  /\ load \in SomeLoad /\ mixed \in BOOLEAN

QueueType ==
  /\ queue \in Seq(Pairs) /\ waiting \in [Pairs -> SUBSET Pairs]

TypeInv == DiskType /\ TrainerType /\ LoaderType /\ QueueType

(***************************************************************************)
(* FreqAI: what a save, the memory and a load have in common.              *)
(***************************************************************************)

\* The pair is being announced: some of what a load reads is of the new training.
InSave(p) == tpc = "save" /\ tpair = p /\ step \in 7 .. 12

\* How far the save is can be seen on disk and in memory.
SaveInv ==
  /\ tpc = "train" => \A p \in Pairs : count \notin DOMAIN folders[p]
  /\ tpc = "rotate" => step \notin 7 .. 12
  /\ tpc = "save" =>
       /\ step >= 3 => "model" \in In(tpair, count)
       /\ step >= 4 => "metadata" \in In(tpair, count)
       /\ step >= 5 => "feature" \in In(tpair, count)
       /\ step >= 6 => "label" \in In(tpair, count)
       /\ step >= 7 => mem["models"][tpair] # 0 /\ (mem["models"][tpair] = count \/ tpair \in stale)
       /\ step >= 8 => mem["filename"][tpair] = count
       /\ step >= 9 => mem["path"][tpair] = count
       /\ step >= 10 => mem["known"][tpair] = count
       /\ step >= 11 => mem["metadata"][tpair] = count
       /\ step >= 12 => mem["feature"][tpair] = count
       /\ step >= 13 => mem["label"][tpair] = count
       /\ step >= 15 => \A f \in Announced : drawer[f] = mem[f]

\* A pair that is not being announced has all of one training in memory, or the
\* files are still to be read.
OfOneTraining(p) ==
  /\ mem["path"][p] = mem["filename"][p]
  /\ mem["models"][p] \in {0, mem["filename"][p]} \/ p \in stale
  /\ mem["known"][p] # 0 =>
       /\ mem["models"][p] # 0 /\ mem["metadata"][p] = mem["filename"][p]
       /\ mem["feature"][p] = mem["filename"][p] /\ mem["label"][p] = mem["filename"][p]

MemInv == \A p \in Pairs : ~ InSave(p) => OfOneTraining(p)

\* A load that overlaps no save has one training so far.
LoadedSoFar ==
  LET p == load.pair IN
  /\ ~ InSave(p)
  /\ load.filename = mem["filename"][p] /\ load.filename # 0
  /\ lpc # "path" => load.path = load.filename
  /\ lpc \notin {"path", "known"} => load.disk = (mem["known"][p] = 0)
  /\ lpc \notin {"path", "known", "metadata"} => load.metadata = load.filename
  /\ lpc \notin {"path", "known", "metadata", "feature"} => load.feature = load.filename
  /\ lpc \in {"model", "check", "remember", "predict"} => load.label = load.filename
  /\ lpc \in {"check", "remember"} => load.model = load.filename
  /\ lpc = "predict" => load.model = load.filename \/ p \in stale

LoadInv ==
  /\ lpc \in {"check", "remember"} => load.model # 0
  /\ lpc # "idle" => IF mixed THEN mem["models"][load.pair] # 0 ELSE LoadedSoFar

\* What is named in memory or in the drawer is on disk.
Named(p, n) == n # 0 /\ Cardinality(Unnamed(p, n)) < NumKeep => Files \subseteq In(p, n)

FolderInv ==
  \A p \in Pairs :
    /\ Named(p, mem["filename"][p]) /\ Named(p, drawer["filename"][p])
    /\ drawer["path"][p] = drawer["filename"][p]

(***************************************************************************)
(* FreqAI: the queue.                                                      *)
(***************************************************************************)

\* Whoever was attempted since the last attempt at a pair comes after it.
QueueInv ==
  /\ \A i, j \in DOMAIN queue : i # j => queue[i] # queue[j]
  /\ tpc # "scan" => queue # <<>> /\ tpair = queue[1] /\ waiting[tpair] = {}
  /\ \A i, j \in DOMAIN queue :
       queue[j] \in waiting[queue[i]] => i < j \/ (tpc # "scan" /\ j = 1)

IInv == TypeInv /\ SaveInv /\ MemInv /\ LoadInv /\ FolderInv /\ QueueInv

(***************************************************************************)
(* FreqAI: lemmas about the operators.                                     *)
(***************************************************************************)

\* The steps of a save, one by one.
LEMMA SaveStepsAre ==
  /\ Len(SaveSteps) = 15
  /\ SaveSteps[1] = <<"memory", "stamp">> /\ SaveSteps[2] = <<"disk", "folder">>
  /\ SaveSteps[3] = <<"disk", "model">> /\ SaveSteps[4] = <<"disk", "metadata">>
  /\ SaveSteps[5] = <<"disk", "feature">> /\ SaveSteps[6] = <<"disk", "label">>
  /\ SaveSteps[7] = <<"memory", "models">> /\ SaveSteps[8] = <<"memory", "filename">>
  /\ SaveSteps[9] = <<"memory", "path">> /\ SaveSteps[10] = <<"memory", "known">>
  /\ SaveSteps[11] = <<"memory", "metadata">> /\ SaveSteps[12] = <<"memory", "feature">>
  /\ SaveSteps[13] = <<"memory", "label">> /\ SaveSteps[14] = <<"drawer", "open">>
  /\ SaveSteps[15] = <<"drawer", "write">>
BY DEF SaveSteps

\* What the steps write to.
LEMMA SaveStepsTo ==
  ASSUME NEW i \in 1 .. 15
  PROVE  /\ SaveSteps[i][1] = "memory" => i = 1 \/ i \in 7 .. 13
         /\ i \in 7 .. 13 => SaveSteps[i][1] = "memory" /\ SaveSteps[i][2] # "stamp"
         /\ i = 1 => SaveSteps[i] = <<"memory", "stamp">>
         /\ SaveSteps[i][1] = "memory" => SaveSteps[i][2] \in Fields
         /\ SaveSteps[i][1] = "disk" <=> i \in 2 .. 6
         /\ SaveSteps[i][1] = "disk" => SaveSteps[i][2] \in Files \cup {"folder"}
         /\ SaveSteps[i][1] = "drawer" <=> i \in {14, 15}
         /\ SaveSteps[i][2] = "write" <=> i = 15
         /\ SaveSteps[i][2] = "models" <=> i = 7
<1>1. i \in {1, 2, 3, 4, 5, 6, 7, 8, 9, 10, 11, 12, 13, 14, 15}
  OBVIOUS
<1>2. CASE i \in {1, 2, 3, 4, 5, 6}
  BY <1>2, SaveStepsAre DEF Fields, Files, Announced
<1>3. CASE i \in {7, 8, 9, 10}
  BY <1>3, SaveStepsAre DEF Fields, Files, Announced
<1>4. CASE i \in {11, 12, 13, 14, 15}
  BY <1>4, SaveStepsAre DEF Fields, Files, Announced
<1> QED
  BY <1>1, <1>2, <1>3, <1>4

\* A file more in the folder of the training, which may be new.
LEMMA WithIs ==
  ASSUME TypeInv, NEW file
  PROVE  /\ DOMAIN With(file) = Pairs
         /\ \A p \in Pairs : p # tpair => With(file)[p] = folders[p]
         /\ DOMAIN With(file)[tpair] = DOMAIN folders[tpair] \cup {count}
         /\ With(file)[tpair][count] = In(tpair, count) \cup {file}
         /\ \A n \in DOMAIN folders[tpair] :
              n # count => With(file)[tpair][n] = folders[tpair][n]
<1> DEFINE e == [n \in DOMAIN folders[tpair] \cup {count} |->
                   In(tpair, n) \cup (IF n = count THEN {file} ELSE {})]
<1>1. tpair \in Pairs /\ DOMAIN folders = Pairs
  BY DEF TypeInv, TrainerType, DiskType
<1>2. With(file) = [folders EXCEPT ![tpair] = e]
  BY DEF With
<1>3. /\ DOMAIN e = DOMAIN folders[tpair] \cup {count}
      /\ e[count] = In(tpair, count) \cup {file}
      /\ \A n \in DOMAIN folders[tpair] : n # count => e[n] = folders[tpair][n]
  BY DEF In
<1> HIDE DEF e
<1> QED
  BY <1>1, <1>2, <1>3

LEMMA QueuesAre ==
  ASSUME NEW stamp, NEW q \in Queues(stamp)
  PROVE  q \in Seq(Pairs) /\ \A i, j \in DOMAIN q : i # j => q[i] # q[j]
<1>1. IsFiniteSet(Pairs)
  BY FreqAIAssumption
<1>2. Cardinality(Pairs) \in Nat
  BY <1>1, FS_CardinalityType
<1>3. q \in SetToSeqs(Pairs)
  BY DEF Queues
<1>4. /\ q \in [1 .. Cardinality(Pairs) -> Pairs]
      /\ \A i, j \in 1 .. Cardinality(Pairs) : i # j => q[i] # q[j]
  BY <1>3, Zenon DEF SetToSeqs
<1>5. DOMAIN q = 1 .. Cardinality(Pairs)
  BY <1>4
<1>6. q \in Seq(Pairs)
  BY <1>2, <1>4
<1> QED
  BY <1>4, <1>5, <1>6

LEMMA NoLoadIs ==
  \E p \in Pairs : NoLoad = [pair |-> p, disk |-> FALSE, filename |-> 0, path |-> 0,
                             model |-> 0, metadata |-> 0, feature |-> 0, label |-> 0]
<1>1. \E p \in Pairs : TRUE
  BY FreqAIAssumption
<1>2. (CHOOSE p \in Pairs : TRUE) \in Pairs
  BY <1>1, Zenon
<1> QED
  BY <1>2, Zenon DEF NoLoad

LEMMA NoLoadType ==
  /\ count \in Nat => NoLoad \in SomeLoad
  /\ NoLoad.pair \in Pairs /\ Nothing \in [Pairs -> {0}]
BY NoLoadIs DEF SomeLoad, Nothing

(***************************************************************************)
(* FreqAI: type correctness.                                               *)
(***************************************************************************)

LEMMA InitType == Init => TypeInv
<1> SUFFICES ASSUME Init PROVE TypeInv
  OBVIOUS
<1>0. MaxTrainings \in Nat
  BY FreqAIAssumption
<1>1. DiskType
  <2>1. DOMAIN folders = Pairs /\ \A p \in Pairs : DOMAIN folders[p] = {}
    BY DEF Init
  <2>2. drawer \in [Announced -> [Pairs -> 0 .. count]]
    BY NoLoadType DEF Init
  <2>3. readable \in BOOLEAN
    BY DEF Init
  <2> QED
    BY <2>1, <2>2, <2>3 DEF DiskType
<1>2. TrainerType
  <2>1. mem \in [Fields -> [Pairs -> 0 .. count]]
    BY NoLoadType DEF Init
  <2>2. stopping \in BOOLEAN
    BY Zenon DEF Init
  <2>3. count \in 0 .. MaxTrainings /\ step \in 0 .. 15 /\ oldest \in Nat
    BY <1>0 DEF Init
  <2> QED
    BY <2>1, <2>2, <2>3, NoLoadType DEF Init, TrainerType
<1>3. LoaderType
  BY NoLoadType DEF Init, LoaderType
<1>4. QueueType
  BY QueuesAre DEF Init, QueueType
<1> QED
  BY <1>1, <1>2, <1>3, <1>4 DEF TypeInv

\* With keeps the folders' types.
LEMMA WithType ==
  ASSUME TypeInv, count # 0, NEW file \in Files \cup {"folder"}, folders' = With(file),
         count' = count
  PROVE  /\ DOMAIN folders' = Pairs
         /\ \A p \in Pairs : \A n \in DOMAIN folders'[p] :
              n \in 1 .. count' /\ folders'[p][n] \subseteq Files \cup {"folder"}
<1>1. DOMAIN folders' = Pairs
  BY WithIs
<1>2. count \in 1 .. count
  BY DEF TypeInv, TrainerType
<1>3. ASSUME NEW p \in Pairs, NEW n \in DOMAIN folders'[p]
      PROVE  n \in 1 .. count' /\ folders'[p][n] \subseteq Files \cup {"folder"}
  <2>1. CASE p # tpair
    BY <2>1, WithIs DEF TypeInv, DiskType
  <2>2. CASE p = tpair /\ n # count
    <3>1. n \in DOMAIN folders[p] /\ folders'[p][n] = folders[p][n]
      BY <2>2, WithIs
    <3> QED
      BY <3>1 DEF TypeInv, DiskType
  <2>3. CASE p = tpair /\ n = count
    <3>1. In(tpair, count) \subseteq Files \cup {"folder"}
      BY <2>3 DEF In, TypeInv, DiskType
    <3>2. folders'[p][n] = In(tpair, count) \cup {file}
      BY <2>3, WithIs
    <3> QED
      BY <2>3, <1>2, <3>1, <3>2
  <2> QED
    BY <2>1, <2>2, <2>3
<1> QED
  BY <1>1, <1>3

LEMMA DiskTypeNext == TypeInv /\ [Next]_vars => DiskType'
<1> SUFFICES ASSUME TypeInv, [Next]_vars
             PROVE  DiskType'
  OBVIOUS
<1>1. ASSUME UNCHANGED disk, UNCHANGED count
      PROVE  DiskType'
  BY <1>1 DEF disk, TypeInv, DiskType
<1>2. CASE Scan
  <2>1. count' \in Nat /\ count \in Nat /\ count' = count + 1
    BY <1>2 DEF Scan, TypeInv, TrainerType
  <2>2. \A p \in Pairs : \A n \in DOMAIN folders'[p] :
          n \in 1 .. count' /\ folders'[p][n] \subseteq Files \cup {"folder"}
    BY <1>2, <2>1 DEF Scan, disk, TypeInv, DiskType
  <2>3. drawer' \in [Announced -> [Pairs -> 0 .. count']]
    <3>1. drawer' = drawer /\ drawer \in [Announced -> [Pairs -> 0 .. count]]
      BY <1>2 DEF Scan, disk, TypeInv, DiskType
    <3>2. 0 .. count \subseteq 0 .. count'
      BY <2>1
    <3> QED
      BY <3>1, <3>2
  <2> QED
    BY <1>2, <2>2, <2>3 DEF Scan, disk, TypeInv, DiskType
<1>3. CASE ScanRemoves \/ TrainerEnds \/ Rotate
  BY <1>1, <1>3 DEF ScanRemoves, TrainerEnds, Rotate
<1>4. CASE Train
  <2>1. count # 0 /\ count' = count
    BY <1>4 DEF Train, TypeInv, TrainerType
  <2>2. CASE Tensorboard
    BY <1>4, <2>1, <2>2, WithType DEF Train, TypeInv, DiskType
  <2>3. CASE ~ Tensorboard
    BY <1>1, <1>4, <2>3 DEF Train, disk
  <2> QED
    BY <2>2, <2>3
<1>5. CASE Save
  <2>1. count # 0 /\ count' = count /\ step' \in 1 .. 15
    BY <1>5, SaveStepsAre DEF Save, TypeInv, TrainerType
  <2>2. PICK to, what : /\ to = SaveSteps[step'][1] /\ what = SaveSteps[step'][2]
                        /\ folders' = IF to = "disk" THEN With(what) ELSE folders
                        /\ readable' = IF to = "drawer" THEN what = "write" ELSE readable
                        /\ drawer' = IF what = "write" THEN [f \in Announced |-> mem[f]] ELSE drawer
    BY <1>5 DEF Save
  <2>3. to = "disk" => what \in Files \cup {"folder"}
    BY <2>1, <2>2, SaveStepsTo
  <2>4. /\ DOMAIN folders' = Pairs
        /\ \A p \in Pairs : \A n \in DOMAIN folders'[p] :
             n \in 1 .. count' /\ folders'[p][n] \subseteq Files \cup {"folder"}
    <3>1. CASE to = "disk"
      BY <2>1, <2>2, <2>3, <3>1, WithType
    <3>2. CASE to # "disk"
      BY <2>1, <2>2, <3>2 DEF TypeInv, DiskType
    <3> QED
      BY <3>1, <3>2
  <2>5. drawer' \in [Announced -> [Pairs -> 0 .. count']]
    BY <2>1, <2>2 DEF TypeInv, DiskType, TrainerType, Fields
  <2>6. readable' \in BOOLEAN
    BY <2>2, Zenon DEF TypeInv, DiskType
  <2> QED
    BY <2>4, <2>5, <2>6 DEF DiskType
<1>6. CASE TrainingFails
  <2>1. CASE folders' = folders
    BY <1>1, <1>6, <2>1 DEF TrainingFails, disk
  <2>2. CASE folders' = With("folder") /\ tpc = "train"
    <3>1. count # 0 /\ count' = count
      BY <1>6, <2>2 DEF TrainingFails, TypeInv, TrainerType
    <3> QED
      BY <1>6, <2>2, <3>1, WithType DEF TrainingFails, TypeInv, DiskType
  <2> QED
    BY <1>6, <2>1, <2>2 DEF TrainingFails
<1>7. CASE Purge
  <2>1. \A p \in Pairs : Kept(p) \subseteq DOMAIN folders[p]
    BY DEF Kept
  <2>2. /\ folders' = [p \in Pairs |-> [n \in Kept(p) |-> folders[p][n]]]
        /\ count' = count /\ drawer' = drawer /\ readable' = readable
    BY <1>7 DEF Purge
  <2> QED
    BY <2>1, <2>2 DEF TypeInv, DiskType
<1>8. ASSUME NEW p \in Pairs, BeginLoad(p)
      PROVE  DiskType'
  BY <1>1, <1>8 DEF BeginLoad
<1>9. CASE Load \/ CheckModel \/ RememberModel \/ Predict \/ Stop
  <2>1. UNCHANGED disk /\ UNCHANGED count
    BY <1>9 DEF Load, CheckModel, RememberModel, Predict, Stop, trainer
  <2> QED
    BY <1>1, <2>1
<1>10. CASE Reload \/ Crash
  BY <1>1, <1>10 DEF Reload, Crash, Boot
<1>11. CASE UNCHANGED vars
  BY <1>1, <1>11 DEF vars, trainer
<1> QED
  BY <1>2, <1>3, <1>4, <1>5, <1>6, <1>7, <1>8, <1>9, <1>10, <1>11 DEF Next

\* A value for one pair changes in one of the dictionaries.
LEMMA MemSet ==
  ASSUME TypeInv, NEW f \in Fields, NEW p \in Pairs, NEW n \in 0 .. count,
         mem' = [mem EXCEPT ![f][p] = n]
  PROVE  /\ mem' \in [Fields -> [Pairs -> 0 .. count]]
         /\ mem'[f][p] = n
         /\ \A g \in Fields : \A q \in Pairs : (g # f \/ q # p) => mem'[g][q] = mem[g][q]
BY DEF TypeInv, TrainerType

LEMMA TrainerTypeNext == TypeInv /\ [Next]_vars => TrainerType'
<1> SUFFICES ASSUME TypeInv, [Next]_vars
             PROVE  TrainerType'
  OBVIOUS
<1> USE FreqAIAssumption
<1>1. ASSUME UNCHANGED <<mem, tpc, tpair, step, count, stopping, oldest, thread, stale>>
      PROVE  TrainerType'
  BY <1>1 DEF TypeInv, TrainerType
<1>2. CASE Scan
  <2>1. /\ count' = count + 1 /\ count < MaxTrainings /\ oldest' \in oldest .. count + 1
        /\ tpair' = Head(queue) /\ queue # <<>> /\ tpc' = "train" /\ step' = 0 /\ mem' = mem
        /\ UNCHANGED <<thread, stopping, stale>>
    BY <1>2 DEF Scan, disk
  <2>2. tpair' \in Pairs
    BY <2>1 DEF TypeInv, QueueType
  <2>3. count' \in 0 .. MaxTrainings /\ count \in Nat /\ oldest' \in Nat /\ count' # 0
    BY <2>1 DEF TypeInv, TrainerType
  <2>4. mem' \in [Fields -> [Pairs -> 0 .. count']]
    <3>1. 0 .. count \subseteq 0 .. count'
      BY <2>1, <2>3
    <3> QED
      BY <2>1, <3>1 DEF TypeInv, TrainerType
  <2> QED
    BY <2>1, <2>2, <2>3, <2>4 DEF TypeInv, TrainerType
<1>3. CASE ScanRemoves \/ TrainerEnds \/ Train \/ TrainingFails \/ Purge \/ Rotate
  <2>1. /\ UNCHANGED <<mem, tpair, count, stopping, oldest, stale>>
        /\ tpc' \in {tpc, "save", "rotate", "scan"} /\ (tpc' = "scan" => tpc = "scan" \/ step' = 0)
        /\ step' \in {step, 0} /\ thread' \in {thread, "dead"} /\ (tpc = "scan" => tpc' = "scan")
    BY <1>3 DEF ScanRemoves, TrainerEnds, Train, TrainingFails, Purge, Rotate
  <2> QED
    BY <2>1 DEF TypeInv, TrainerType
<1>4. CASE Save
  <2>1. /\ tpc' = tpc /\ tpc = "save" /\ step < 15 /\ step' = step + 1
        /\ UNCHANGED <<thread, tpair, count, stopping, oldest>>
        /\ stale' \subseteq stale
    BY <1>4, SaveStepsAre DEF Save
  <2>2. step' \in 1 .. 15
    BY <2>1 DEF TypeInv, TrainerType
  <2>3. mem' \in [Fields -> [Pairs -> 0 .. count]]
    <3>1. CASE SaveSteps[step'][1] = "memory"
      <4>1. SaveSteps[step'][2] \in Fields
        BY <2>2, <3>1, SaveStepsTo
      <4>2. mem' = [mem EXCEPT ![SaveSteps[step'][2]][tpair] = count]
        BY <1>4, <3>1 DEF Save, Remembered
      <4>3. count \in 0 .. count /\ tpair \in Pairs
        BY DEF TypeInv, TrainerType
      <4> QED
        BY <4>1, <4>2, <4>3, MemSet
    <3>2. CASE SaveSteps[step'][1] # "memory"
      BY <1>4, <3>2 DEF Save, TypeInv, TrainerType
    <3> QED
      BY <3>1, <3>2
  <2> QED
    BY <2>1, <2>2, <2>3 DEF TypeInv, TrainerType
<1>5. ASSUME NEW p \in Pairs, BeginLoad(p)
      PROVE  TrainerType'
  <2>1. /\ UNCHANGED <<mem, tpc, tpair, step, count, stopping, oldest, stale>>
        /\ thread' \in {thread, "running"}
    BY <1>5 DEF BeginLoad
  <2> QED
    BY <2>1 DEF TypeInv, TrainerType
<1>6. CASE Load \/ CheckModel \/ Predict
  BY <1>1, <1>6 DEF Load, CheckModel, Predict, trainer
<1>7. CASE RememberModel
  <2>1. load.model \in 0 .. count /\ load.pair \in Pairs => TrainerType'
    <3> SUFFICES ASSUME load.model \in 0 .. count, load.pair \in Pairs
                 PROVE  TrainerType'
      OBVIOUS
    <3>1. mem' = [mem EXCEPT !["models"][load.pair] = load.model] /\ "models" \in Fields
      BY <1>7 DEF RememberModel, Fields
    <3>2. mem' \in [Fields -> [Pairs -> 0 .. count]]
      BY <3>1, MemSet
    <3>3. stale' \subseteq Pairs /\ UNCHANGED trainer /\ UNCHANGED <<stopping, oldest>>
      BY <1>7 DEF RememberModel, TypeInv, TrainerType
    <3> QED
      BY <3>2, <3>3 DEF TypeInv, TrainerType, trainer
  <2> QED
    BY <2>1 DEF TypeInv, LoaderType, SomeLoad
<1>8. CASE Stop
  BY <1>8 DEF Stop, trainer, TypeInv, TrainerType
<1>9. CASE Reload \/ Crash
  <2>1. Boot
    BY <1>9 DEF Reload, Crash
  <2>2. mem' \in [Fields -> [Pairs -> 0 .. count]]
    <3>1. mem' = [f \in Fields |-> IF f \in Announced THEN drawer[f] ELSE Nothing]
      BY <2>1 DEF Boot
    <3>2. Nothing \in [Pairs -> 0 .. count]
      BY DEF Nothing, TypeInv, TrainerType
    <3>3. \A f \in Announced : drawer[f] \in [Pairs -> 0 .. count]
      BY DEF TypeInv, DiskType
    <3> QED
      BY <3>1, <3>2, <3>3
  <2>3. /\ thread' \in {"none", "down"} /\ tpc' = "scan" /\ step' = 0
        /\ tpair' \in Pairs /\ stale' = {} /\ UNCHANGED <<count, oldest>>
    BY <2>1, NoLoadType DEF Boot
  <2>4. stopping' \in BOOLEAN
    BY <2>1, Zenon DEF Boot
  <2> QED
    BY <2>2, <2>3, <2>4 DEF TypeInv, TrainerType
<1>10. CASE UNCHANGED vars
  BY <1>1, <1>10 DEF vars, trainer
<1> QED
  BY <1>2, <1>3, <1>4, <1>5, <1>6, <1>7, <1>8, <1>9, <1>10 DEF Next

\* load_data's order.
LEMMA AfterIs ==
  /\ After("path") = "known" /\ After("known") = "metadata" /\ After("metadata") = "feature"
  /\ After("feature") = "label" /\ After("label") = "model" /\ After("model") = "predict"
<1> DEFINE at(s) == CHOOSE i \in DOMAIN LoadSteps : LoadSteps[i] = s
<1>1. /\ DOMAIN LoadSteps = 1 .. 6
      /\ LoadSteps[1] = "path" /\ LoadSteps[2] = "known" /\ LoadSteps[3] = "metadata"
      /\ LoadSteps[4] = "feature" /\ LoadSteps[5] = "label" /\ LoadSteps[6] = "model"
  BY DEF LoadSteps
<1>2. \A i \in 1 .. 6 : at(LoadSteps[i]) = i
  <2> SUFFICES ASSUME NEW i \in 1 .. 6
               PROVE  at(LoadSteps[i]) = i
    OBVIOUS
  <2>0. i \in DOMAIN LoadSteps
    BY <1>1
  <2>1. at(LoadSteps[i]) \in DOMAIN LoadSteps /\ LoadSteps[at(LoadSteps[i])] = LoadSteps[i]
    BY <2>0, Zenon
  <2>2. \A j \in 1 .. 6 : LoadSteps[j] = LoadSteps[i] => j = i
    <3> SUFFICES ASSUME NEW j \in 1 .. 6, LoadSteps[j] = LoadSteps[i]
                 PROVE  j = i
      OBVIOUS
    <3>1. /\ i = 1 \/ i = 2 \/ i = 3 \/ i = 4 \/ i = 5 \/ i = 6
          /\ j = 1 \/ j = 2 \/ j = 3 \/ j = 4 \/ j = 5 \/ j = 6
      OBVIOUS
    <3> QED
      BY <1>1, <3>1
  <2> HIDE DEF at
  <2> QED
    BY <1>1, <2>1, <2>2
<1>3. \A s : s # "model" => After(s) = LoadSteps[1 + at(s)]
  BY Zenon DEF After
<1> HIDE DEF at
<1>4. at("path") = 1 /\ at("known") = 2 /\ at("metadata") = 3 /\ at("feature") = 4 /\ at("label") = 5
  BY <1>1, <1>2
<1>5. After("model") = "predict"
  BY Zenon DEF After
<1> QED
  BY <1>1, <1>3, <1>4, <1>5

\* What one step of a load does.
LEMMA LoadIs ==
  ASSUME TypeInv, Load
  PROVE  \/ Abandoned
         \/ /\ mixed' = mixed
            /\ \/ /\ lpc = "path" /\ lpc' = "known"
                  /\ load' = [load EXCEPT !.path = mem["path"][load.pair]]
               \/ /\ lpc = "known" /\ lpc' = "metadata"
                  /\ load' = [load EXCEPT !.disk = (mem["known"][load.pair] = 0)]
               \/ /\ lpc = "metadata" /\ lpc' = "feature" /\ Found("metadata") # 0
                  /\ load' = [load EXCEPT !.metadata = Found("metadata")]
               \/ /\ lpc = "feature" /\ lpc' = "label" /\ Found("feature") # 0
                  /\ load' = [load EXCEPT !.feature = Found("feature")]
               \/ /\ lpc = "label" /\ lpc' = "model" /\ Found("label") # 0
                  /\ load' = [load EXCEPT !.label = Found("label")]
               \/ /\ lpc = "model" /\ Found("model") # 0
                  /\ lpc' = IF mem["models"][load.pair] = 0 THEN "check" ELSE "predict"
                  /\ load' = [load EXCEPT !.model = Found("model")]
<1>1. \A i \in DOMAIN LoadSteps : LoadSteps[i] \in {"path", "known", "metadata", "feature", "label", "model"}
  BY DEF LoadSteps
<1>2. lpc \in {"path", "known", "metadata", "feature", "label", "model"}
  BY <1>1 DEF Load, Range
<1>3. Found("known") = mem["known"][load.pair] /\ Found("path") = mem["path"][load.pair]
  BY DEF Found
<1>4. CASE lpc = "known"
  BY <1>3, <1>4, AfterIs DEF Load
<1>5. CASE lpc = "path"
  <2>1. load' = [load EXCEPT !["path"] = Found("path")] /\ lpc' = After("path") /\ mixed' = mixed
    BY <1>5 DEF Load
  <2> QED
    BY <1>3, <1>5, <2>1, AfterIs
<1>6. CASE lpc \in {"metadata", "feature", "label", "model"} /\ ~ Abandoned
  <2>1. /\ Found(lpc) # 0 /\ mixed' = mixed /\ load' = [load EXCEPT ![lpc] = Found(lpc)]
        /\ lpc' = IF lpc = "model" /\ mem["models"][load.pair] = 0 THEN "check" ELSE After(lpc)
    BY <1>6 DEF Load
  <2> QED
    BY <1>6, <2>1, AfterIs
<1> QED
  BY <1>2, <1>4, <1>5, <1>6

\* What is found is of some training.
LEMMA FoundType ==
  ASSUME TypeInv, NEW what \in Fields \cup {"model"}
  PROVE  Found(what) \in 0 .. count
<1>1. \A f \in Fields : mem[f][load.pair] \in 0 .. count
  BY DEF TypeInv, TrainerType, LoaderType, SomeLoad
<1>2. OnDisk(what) \in 0 .. count
  BY DEF OnDisk, TypeInv, TrainerType, LoaderType, SomeLoad
<1>3. OnDisk("model") \in 0 .. count
  BY DEF OnDisk, TypeInv, TrainerType, LoaderType, SomeLoad
<1> QED
  BY <1>1, <1>2, <1>3 DEF Found, Fields

LEMMA LoaderTypeNext == TypeInv /\ [Next]_vars => LoaderType'
<1> SUFFICES ASSUME TypeInv, [Next]_vars
             PROVE  LoaderType'
  OBVIOUS
<1>0. count' \in Nat /\ count \in Nat /\ count' >= count
  <2>1. count' = count \/ Scan
    BY DEF Next, vars, ScanRemoves, TrainerEnds, Train, Save, TrainingFails, Purge, Rotate,
           BeginLoad, Load, CheckModel, RememberModel, Predict, Stop, Reload, Crash, Boot, trainer
  <2> QED
    BY <2>1 DEF Scan, TypeInv, TrainerType
<1>1. load \in SomeLoad'
  <2>1. 0 .. count \subseteq 0 .. count'
    BY <1>0
  <2> QED
    BY <2>1 DEF TypeInv, LoaderType, SomeLoad
<1>2. NoLoad \in SomeLoad'
  BY <1>0, NoLoadIs DEF SomeLoad
<1>3. ASSUME UNCHANGED loader
      PROVE  LoaderType'
  BY <1>1, <1>3 DEF loader, TypeInv, LoaderType
<1>4. ASSUME Abandoned
      PROVE  LoaderType'
  <2>1. mixed' \in BOOLEAN
    BY <1>4, Zenon DEF Abandoned
  <2> QED
    BY <1>2, <1>4, <2>1 DEF Abandoned, LoaderType
<1>5. CASE Scan \/ ScanRemoves \/ TrainerEnds \/ Train \/ TrainingFails \/ Purge \/ Rotate \/ Stop
  BY <1>3, <1>5 DEF Scan, ScanRemoves, TrainerEnds, Train, TrainingFails, Purge, Rotate, Stop
<1>6. CASE Save
  <2>1. mixed' \in BOOLEAN
    BY <1>6, Zenon DEF Save
  <2> QED
    BY <1>1, <1>6, <2>1 DEF Save, TypeInv, LoaderType
<1>7. ASSUME NEW p \in Pairs, BeginLoad(p)
      PROVE  LoaderType'
  <2>1. CASE UNCHANGED loader
    BY <1>3, <2>1
  <2>2. CASE ~ UNCHANGED loader
    <3>1. /\ lpc' = "path" /\ load' = [NoLoad EXCEPT !.pair = p, !.filename = mem["filename"][p]]
          /\ mixed' = (tpair = p /\ Announcing) /\ count' = count
      BY <1>7, <2>2, Zenon DEF BeginLoad
    <3>2. mixed' \in BOOLEAN
      BY <3>1, Zenon
    <3>3. mem["filename"][p] \in 0 .. count /\ NoLoad \in SomeLoad
      BY NoLoadType DEF TypeInv, TrainerType, Fields, Announced
    <3>4. load' \in SomeLoad
      BY <3>1, <3>3 DEF SomeLoad
    <3> QED
      BY <3>1, <3>2, <3>4 DEF LoaderType, SomeLoad
  <2> QED
    BY <2>1, <2>2
<1>8. CASE Load
  <2>1. /\ \A f \in {"metadata", "feature", "label", "model"} : Found(f) \in 0 .. count
        /\ mem["path"][load.pair] \in 0 .. count
    <3>1. {"metadata", "feature", "label", "model"} \subseteq Fields \cup {"model"}
      BY DEF Fields
    <3> QED
      BY <3>1, FoundType DEF TypeInv, TrainerType, LoaderType, SomeLoad, Fields, Announced
  <2>2. count' = count /\ SomeLoad' = SomeLoad
    BY <1>8 DEF Load, trainer, SomeLoad
  <2>3. \A b \in BOOLEAN : [load EXCEPT !.disk = b] \in SomeLoad
    BY DEF TypeInv, LoaderType, SomeLoad
  <2>4. (mem["known"][load.pair] = 0) \in BOOLEAN
    OBVIOUS
  <2>5. \A n \in 0 .. count : /\ [load EXCEPT !.path = n] \in SomeLoad
                              /\ [load EXCEPT !.metadata = n] \in SomeLoad
                              /\ [load EXCEPT !.feature = n] \in SomeLoad
                              /\ [load EXCEPT !.label = n] \in SomeLoad
                              /\ [load EXCEPT !.model = n] \in SomeLoad
    BY DEF TypeInv, LoaderType, SomeLoad
  <2>6. CASE Abandoned
    BY <1>4, <2>6
  <2>7. CASE ~ Abandoned
    <3>1. mixed' \in BOOLEAN
      BY <1>8, <2>7, LoadIs DEF TypeInv, LoaderType
    <3>2. load' \in SomeLoad
      <4>1. CASE lpc = "known"
        <5>1. load' = [load EXCEPT !.disk = (mem["known"][load.pair] = 0)]
          BY <1>8, <2>7, <4>1, LoadIs
        <5> QED
          BY <5>1, <2>3, <2>4, Zenon
      <4>2. CASE lpc # "known"
        BY <1>8, <2>1, <2>5, <2>7, <4>2, LoadIs
      <4> QED
        BY <4>1, <4>2
    <3>3. lpc' \in {"known", "metadata", "feature", "label", "model", "check", "predict"}
      BY <1>8, <2>7, LoadIs
    <3> QED
      BY <2>2, <3>1, <3>2, <3>3 DEF LoaderType
  <2> QED
    BY <2>6, <2>7
<1>9. CASE CheckModel \/ RememberModel
  BY <1>1, <1>9 DEF CheckModel, RememberModel, TypeInv, LoaderType
<1>10. CASE Predict
  BY <1>4, <1>10 DEF Predict
<1>11. CASE Reload \/ Crash
  BY <1>4, <1>11 DEF Reload, Crash, Boot, Abandoned
<1>12. CASE UNCHANGED vars
  BY <1>3, <1>12 DEF vars
<1> QED
  BY <1>5, <1>6, <1>7, <1>8, <1>9, <1>10, <1>11, <1>12 DEF Next

\* Appending the head to the tail moves it to the end.
LEMMA RotatedIs ==
  ASSUME queue \in Seq(Pairs), queue # <<>>
  PROVE  /\ Rotated \in Seq(Pairs) /\ Len(Rotated) = Len(queue) /\ Len(queue) >= 1
         /\ Rotated[Len(queue)] = queue[1]
         /\ \A i \in 1 .. Len(queue) - 1 : Rotated[i] = queue[i + 1]
<1>1. Tail(queue) \in Seq(Pairs) /\ Head(queue) \in Pairs /\ Len(queue) >= 1
  OBVIOUS
<1>2. Len(Tail(queue)) = Len(queue) - 1 /\ \A i \in 1 .. Len(queue) - 1 : Tail(queue)[i] = queue[i + 1]
  OBVIOUS
<1>3. Head(queue) = queue[1]
  OBVIOUS
<1> QED
  BY <1>1, <1>2, <1>3 DEF Rotated

LEMMA QueueTypeNext == TypeInv /\ QueueInv /\ [Next]_vars => QueueType'
<1> SUFFICES ASSUME TypeInv, QueueInv, [Next]_vars
             PROVE  QueueType'
  OBVIOUS
<1>1. ASSUME UNCHANGED <<queue, waiting>>
      PROVE  QueueType'
  BY <1>1 DEF TypeInv, QueueType
<1>2. CASE Scan
  <2>1. tpair' \in Pairs /\ queue' = queue
    BY <1>2 DEF Scan, TypeInv, QueueType
  <2>2. waiting' \in [Pairs -> SUBSET Pairs]
    BY <1>2, <2>1 DEF Scan, TypeInv, QueueType
  <2> QED
    BY <2>1, <2>2 DEF TypeInv, QueueType
<1>3. CASE ScanRemoves
  BY <1>3 DEF ScanRemoves, TypeInv, QueueType
<1>4. CASE TrainerEnds \/ Train \/ Save \/ TrainingFails \/ Purge
  BY <1>1, <1>4 DEF TrainerEnds, Train, Save, TrainingFails, Purge
<1>5. CASE Rotate
  <2>1. queue # <<>> /\ queue \in Seq(Pairs)
    BY <1>5 DEF Rotate, QueueInv, TypeInv, QueueType
  <2> QED
    BY <1>5, <2>1, RotatedIs DEF Rotate, TypeInv, QueueType
<1>6. ASSUME NEW p \in Pairs, BeginLoad(p)
      PROVE  QueueType'
  BY <1>1, <1>6 DEF BeginLoad
<1>7. CASE Load \/ CheckModel \/ RememberModel \/ Predict \/ Stop
  BY <1>1, <1>7 DEF Load, CheckModel, RememberModel, Predict, Stop, trainer
<1>8. CASE Reload \/ Crash
  BY <1>8, QueuesAre DEF Reload, Crash, Boot, QueueType
<1>9. CASE UNCHANGED vars
  BY <1>1, <1>9 DEF vars, trainer
<1> QED
  BY <1>2, <1>3, <1>4, <1>5, <1>6, <1>7, <1>8, <1>9 DEF Next

LEMMA QueueInvNext == TypeInv /\ QueueInv /\ [Next]_vars => QueueInv'
<1> SUFFICES ASSUME TypeInv, QueueInv, [Next]_vars
             PROVE  QueueInv'
  OBVIOUS
<1>0. queue \in Seq(Pairs) /\ waiting \in [Pairs -> SUBSET Pairs]
  BY DEF TypeInv, QueueType
<1>1. ASSUME UNCHANGED <<queue, waiting, tpair>>, tpc' = tpc \/ (tpc # "scan" /\ tpc' # "scan")
      PROVE  QueueInv'
  BY <1>1, Zenon DEF QueueInv
<1>2. CASE Scan
  <2>1. /\ tpc = "scan" /\ tpc' = "train" /\ queue' = queue /\ queue # <<>> /\ tpair' = Head(queue)
        /\ waiting' = [p \in Pairs |-> IF p = tpair' \/ p \notin Range(queue) THEN {}
                                       ELSE waiting[p] \cup {tpair'}]
    BY <1>2 DEF Scan
  <2>2. Head(queue) = queue[1] /\ 1 \in DOMAIN queue /\ queue[1] \in Pairs
    BY <1>0, <2>1
  <2>3. \A i \in DOMAIN queue : queue[i] \in Pairs
    BY <1>0
  <2>4. ASSUME NEW i \in DOMAIN queue, NEW j \in DOMAIN queue, queue[j] \in waiting'[queue[i]]
        PROVE  i < j \/ j = 1
    <3>1. queue[j] \in waiting[queue[i]] \/ queue[j] = queue[1]
      BY <2>1, <2>2, <2>3, <2>4
    <3> QED
      BY <2>1, <2>2, <3>1 DEF QueueInv
  <2>5. waiting'[tpair'] = {}
    BY <2>1, <2>2
  <2> QED
    BY <2>1, <2>2, <2>4, <2>5 DEF QueueInv
<1>3. CASE ScanRemoves
  <2>1. tpc = "scan" /\ tpc' = "scan" /\ queue # <<>> /\ queue' = Tail(queue) /\ waiting' = waiting
    BY <1>3 DEF ScanRemoves
  <2>2. /\ DOMAIN queue' = 1 .. Len(queue) - 1 /\ DOMAIN queue = 1 .. Len(queue) /\ Len(queue) \in Nat
        /\ \A i \in DOMAIN queue' : i + 1 \in DOMAIN queue /\ queue'[i] = queue[i + 1]
    BY <1>0, <2>1
  <2>3. \A i, j \in DOMAIN queue' : i # j => queue'[i] # queue'[j]
    BY <2>2 DEF QueueInv
  <2>4. ASSUME NEW i \in DOMAIN queue', NEW j \in DOMAIN queue', queue'[j] \in waiting[queue'[i]]
        PROVE  i < j
    <3>1. i + 1 < j + 1
      BY <2>1, <2>2, <2>4 DEF QueueInv
    <3> QED
      BY <2>2, <3>1
  <2> QED
    BY <2>1, <2>3, <2>4 DEF QueueInv
<1>4. CASE TrainerEnds \/ Train \/ Save \/ TrainingFails \/ Purge
  BY <1>1, <1>4 DEF TrainerEnds, Train, Save, TrainingFails, Purge
<1>5. CASE Rotate
  <2>1. queue # <<>> /\ tpair = queue[1] /\ waiting[tpair] = {}
    BY <1>5 DEF Rotate, QueueInv
  <2>2. tpc' = "scan" /\ queue' = Rotated /\ waiting' = waiting
    BY <1>5 DEF Rotate
  <2>3. /\ DOMAIN queue' = 1 .. Len(queue) /\ DOMAIN queue = 1 .. Len(queue)
        /\ Len(queue) \in Nat /\ Len(queue) >= 1 /\ queue'[Len(queue)] = queue[1]
        /\ \A i \in 1 .. Len(queue) - 1 : queue'[i] = queue[i + 1] /\ i + 1 \in DOMAIN queue
    BY <1>0, <2>1, <2>2, RotatedIs
  <2>4. ASSUME NEW i \in DOMAIN queue', NEW j \in DOMAIN queue', i # j
        PROVE  queue'[i] # queue'[j]
    <3> DEFINE at(k) == IF k = Len(queue) THEN 1 ELSE k + 1
    <3>1. /\ at(i) \in DOMAIN queue /\ queue'[i] = queue[at(i)]
          /\ at(j) \in DOMAIN queue /\ queue'[j] = queue[at(j)]
      BY <2>3
    <3>2. at(i) # at(j)
      BY <2>3, <2>4
    <3> HIDE DEF at
    <3> QED
      BY <3>1, <3>2 DEF QueueInv
  <2>5. ASSUME NEW i \in DOMAIN queue', NEW j \in DOMAIN queue', queue'[j] \in waiting[queue'[i]]
        PROVE  i < j
    <3>1. i # Len(queue)
      BY <2>1, <2>3, <2>5
    <3>2. CASE j = Len(queue)
      BY <2>3, <3>1, <3>2
    <3>3. CASE j # Len(queue)
      <4>1. /\ i + 1 \in DOMAIN queue /\ j + 1 \in DOMAIN queue
            /\ queue[j + 1] \in waiting[queue[i + 1]]
        BY <2>3, <2>5, <3>1, <3>3
      <4>2. i + 1 < j + 1 \/ j + 1 = 1
        BY <4>1 DEF QueueInv
      <4> QED
        BY <2>3, <4>2
    <3> QED
      BY <3>2, <3>3
  <2> QED
    BY <2>2, <2>4, <2>5 DEF QueueInv
<1>6. ASSUME NEW p \in Pairs, BeginLoad(p)
      PROVE  QueueInv'
  BY <1>1, <1>6 DEF BeginLoad
<1>7. CASE Load \/ CheckModel \/ RememberModel \/ Predict \/ Stop
  BY <1>1, <1>7 DEF Load, CheckModel, RememberModel, Predict, Stop, trainer
<1>8. CASE Reload \/ Crash
  <2>1. PICK s : queue' \in Queues(s)
    BY <1>8 DEF Reload, Crash, Boot
  <2>2. queue' \in Seq(Pairs) /\ \A i, j \in DOMAIN queue' : i # j => queue'[i] # queue'[j]
    BY <2>1, QueuesAre
  <2>3. tpc' = "scan" /\ \A i \in DOMAIN queue' : waiting'[queue'[i]] = {}
    BY <1>8, <2>2 DEF Reload, Crash, Boot
  <2> QED
    BY <2>2, <2>3 DEF QueueInv
<1>9. CASE UNCHANGED vars
  BY <1>1, <1>9 DEF vars, trainer
<1> QED
  BY <1>2, <1>3, <1>4, <1>5, <1>6, <1>7, <1>8, <1>9 DEF Next

(***************************************************************************)
(* FreqAI: saves, memory and loads.                                        *)
(***************************************************************************)

\* A file more takes none away.
LEMMA WithKeeps ==
  ASSUME TypeInv, NEW file, folders' = With(file), UNCHANGED <<tpair, count>>
  PROVE  /\ \A p \in Pairs : \A n \in Nat : In(p, n) \subseteq In(p, n)'
         /\ tpair \in Pairs /\ file \in In(tpair, count)'
<1>1. tpair \in Pairs
  BY DEF TypeInv, TrainerType
<1>2. ASSUME NEW p \in Pairs, NEW n \in Nat
      PROVE  In(p, n) \subseteq In(p, n)'
  BY <1>1, WithIs DEF In
<1>3. file \in In(tpair, count)'
  BY <1>1, WithIs DEF In
<1> QED
  BY <1>1, <1>2, <1>3

\* A save's step, without the bookkeeping of the loads.
LEMMA SaveIs ==
  ASSUME TypeInv, Save
  PROVE  /\ step' = step + 1 /\ step' \in 1 .. 15 /\ tpc = "save" /\ tpc' = "save"
         /\ UNCHANGED <<tpair, count, lpc, load>> /\ tpair \in Pairs
         /\ step' \notin 2 .. 6 => folders' = folders
         /\ step' \in 2 .. 6 => folders' = With(SaveSteps[step'][2])
         /\ step' \notin {1} \cup 7 .. 13 => mem' = mem
         /\ step' \in {1} \cup 7 .. 13 =>
              /\ SaveSteps[step'][2] \in Fields
              /\ mem'[SaveSteps[step'][2]][tpair] = count
              /\ \A f \in Fields : \A p \in Pairs :
                   f # SaveSteps[step'][2] \/ p # tpair => mem'[f][p] = mem[f][p]
         /\ step' # 15 => drawer' = drawer
         /\ step' = 15 => drawer' = [f \in Announced |-> mem[f]]
         /\ stale' = IF step' = 7 THEN stale \ {tpair} ELSE stale
         /\ mixed' = (lpc # "idle" /\ (mixed \/ (step' \in 7 .. 13 /\ load.pair = tpair)))
<1>1. /\ step' = step + 1 /\ step' \in 1 .. 15 /\ tpc = "save" /\ tpc' = "save"
      /\ UNCHANGED <<tpair, count, lpc, load>> /\ tpair \in Pairs
  BY SaveStepsAre DEF Save, TypeInv, TrainerType
<1> DEFINE to == SaveSteps[step'][1]
           what == SaveSteps[step'][2]
<1>2. /\ folders' = IF to = "disk" THEN With(what) ELSE folders
      /\ mem' = IF to = "memory" THEN Remembered(what) ELSE mem
      /\ drawer' = IF what = "write" THEN [f \in Announced |-> mem[f]] ELSE drawer
      /\ mixed' = (/\ lpc # "idle"
                   /\ mixed \/ (to = "memory" /\ what # "stamp" /\ load.pair = tpair))
      /\ stale' = IF what = "models" THEN stale \ {tpair} ELSE stale
  BY DEF Save
<1>3. /\ to = "disk" <=> step' \in 2 .. 6
      /\ to = "memory" <=> step' \in {1} \cup 7 .. 13
      /\ to = "memory" /\ what # "stamp" <=> step' \in 7 .. 13
      /\ to = "memory" => what \in Fields
      /\ what = "write" <=> step' = 15
      /\ what = "models" <=> step' = 7
  <2>1. step' = 1 => to = "memory" /\ what = "stamp"
    BY SaveStepsAre
  <2> HIDE DEF to, what
  <2>2. /\ to = "memory" => step' = 1 \/ step' \in 7 .. 13
        /\ step' \in 7 .. 13 => to = "memory" /\ what # "stamp"
        /\ to = "memory" => what \in Fields
        /\ to = "disk" <=> step' \in 2 .. 6
        /\ what = "write" <=> step' = 15
        /\ what = "models" <=> step' = 7
    BY <1>1, SaveStepsTo DEF to, what
  <2> QED
    BY <1>1, <2>1, <2>2
<1> HIDE DEF to, what
<1>4. ASSUME to = "memory"
      PROVE  /\ mem'[what][tpair] = count
             /\ \A f \in Fields : \A p \in Pairs : f # what \/ p # tpair => mem'[f][p] = mem[f][p]
  <2>1. mem' = [mem EXCEPT ![what][tpair] = count]
    BY <1>2, <1>4 DEF Remembered
  <2>2. mem \in [Fields -> [Pairs -> 0 .. count]]
    BY DEF TypeInv, TrainerType
  <2>3. what \in Fields /\ tpair \in Pairs
    BY <1>1, <1>3, <1>4, Zenon
  <2> QED
    BY <2>1, <2>2, <2>3
<1>5. mixed' = (lpc # "idle" /\ (mixed \/ (step' \in 7 .. 13 /\ load.pair = tpair)))
  BY <1>2, <1>3, Zenon
<1>6. stale' = IF step' = 7 THEN stale \ {tpair} ELSE stale
  BY <1>2, <1>3
<1>7. /\ step' \notin 2 .. 6 => folders' = folders
      /\ step' \in 2 .. 6 => folders' = With(what)
      /\ step' # 15 => drawer' = drawer
      /\ step' = 15 => drawer' = [f \in Announced |-> mem[f]]
  BY <1>2, <1>3, Zenon
<1>8. /\ step' \notin {1} \cup 7 .. 13 => mem' = mem
      /\ step' \in {1} \cup 7 .. 13 =>
           /\ what \in Fields /\ mem'[what][tpair] = count
           /\ \A f \in Fields : \A p \in Pairs : f # what \/ p # tpair => mem'[f][p] = mem[f][p]
  BY <1>2, <1>3, <1>4, Zenon
<1> QED
  BY <1>1, <1>5, <1>6, <1>7, <1>8 DEF what

LEMMA SaveInvNext == TypeInv /\ SaveInv /\ LoadInv /\ [Next]_vars => SaveInv'
<1> SUFFICES ASSUME TypeInv, SaveInv, LoadInv, [Next]_vars
             PROVE  SaveInv'
  OBVIOUS
<1>1. ASSUME UNCHANGED <<folders, mem, tpc, tpair, count, step, stale, drawer>>
      PROVE  SaveInv'
  BY <1>1 DEF SaveInv, In
<1>2. CASE Scan \/ Rotate \/ Reload \/ Crash
  <2>1. Scan => \A p \in Pairs : count' \notin DOMAIN folders'[p]
    BY DEF Scan, disk, TypeInv, DiskType, TrainerType
  <2> QED
    BY <1>2, <2>1 DEF Scan, Rotate, Reload, Crash, Boot, SaveInv
<1>3. CASE Train
  <2>1. tpc' = "save" /\ step' = 0
    BY <1>3 DEF Train, TypeInv, TrainerType
  <2> QED
    BY <2>1 DEF SaveInv
<1>4. CASE TrainingFails
  <2>1. tpc' = "rotate" /\ step' = step
    BY <1>4 DEF TrainingFails
  <2>2. step \notin 7 .. 12
    <3>1. CASE tpc = "train"
      BY <3>1 DEF TypeInv, TrainerType
    <3>2. CASE tpc = "save" /\ step < 15 /\ SaveSteps[step + 1][1] # "memory"
      <4>1. step + 1 \in 1 .. 15
        BY <3>2 DEF TypeInv, TrainerType
      <4>2. step + 1 \notin 7 .. 13
        BY <3>2, <4>1, SaveStepsTo
      <4> QED
        BY <4>1, <4>2
    <3> QED
      BY <1>4, <3>1, <3>2, SaveStepsAre DEF TrainingFails
  <2> QED
    BY <2>1, <2>2 DEF SaveInv
<1>5. CASE Purge
  <2>1. tpc' = "rotate" /\ step' = 15
    BY <1>5, SaveStepsAre DEF Purge
  <2> QED
    BY <2>1 DEF SaveInv
<1>6. CASE Save
  <2>1. /\ step' = step + 1 /\ step' \in 1 .. 15 /\ tpc = "save" /\ tpc' = "save"
        /\ UNCHANGED <<tpair, count>> /\ tpair \in Pairs /\ step \in 0 .. 14
    BY <1>6, SaveIs DEF TypeInv, TrainerType
  <2>2. In(tpair, count) \subseteq In(tpair, count)'
    <3>1. CASE folders' = folders
      BY <2>1, <3>1 DEF In
    <3>2. CASE folders' # folders
      BY <1>6, <2>1, <3>2, SaveIs, WithKeeps DEF TypeInv, TrainerType
    <3> QED
      BY <3>1, <3>2
  <2>3. /\ step' = 3 => "model" \in In(tpair, count)'
        /\ step' = 4 => "metadata" \in In(tpair, count)'
        /\ step' = 5 => "feature" \in In(tpair, count)'
        /\ step' = 6 => "label" \in In(tpair, count)'
    <3>1. step' \in 3 .. 6 => folders' = With(SaveSteps[step'][2])
      BY <1>6, SaveIs
    <3>2. step' \in 3 .. 6 => SaveSteps[step'][2] \in In(tpair, count)'
      BY <2>1, <3>1, WithKeeps
    <3> QED
      BY <2>1, <3>2, SaveStepsAre
  <2>4. \A f \in Fields : step' \in 7 .. 13 /\ SaveSteps[step'][2] = f => mem'[f][tpair] = count
    BY <1>6, SaveIs
  <2>5. /\ step' = 7 => mem'["models"][tpair] = count
        /\ step' = 8 => mem'["filename"][tpair] = count
        /\ step' = 9 => mem'["path"][tpair] = count
        /\ step' = 10 => mem'["known"][tpair] = count
        /\ step' = 11 => mem'["metadata"][tpair] = count
        /\ step' = 12 => mem'["feature"][tpair] = count
        /\ step' = 13 => mem'["label"][tpair] = count
    BY <2>4, SaveStepsAre DEF Fields, Announced
  <2>6. \A f \in Fields : (step' = 1 => f = "stamp") /\ mem[f][tpair] = count => mem'[f][tpair] = count
    <3> SUFFICES ASSUME NEW f \in Fields, mem[f][tpair] = count
                 PROVE  mem'[f][tpair] = count
      OBVIOUS
    <3>1. CASE step' \in {1} \cup 7 .. 13
      BY <1>6, <2>1, <3>1, SaveIs
    <3>2. CASE step' \notin {1} \cup 7 .. 13
      BY <1>6, <3>2, SaveIs
    <3> QED
      BY <3>1, <3>2
  <2>7. step' = 15 => \A f \in Announced : drawer'[f] = mem'[f]
    BY <1>6, SaveIs
  <2>8. count # 0
    BY <2>1 DEF TypeInv, TrainerType
  <2>9. step' > 7 => (mem'["models"][tpair] = mem["models"][tpair] /\ stale' = stale)
    <3>1. CASE step' \in 8 .. 13
      <4>1. SaveSteps[step'][2] # "models"
        BY <2>1, <3>1, SaveStepsTo
      <4> QED
        BY <1>6, <2>1, <3>1, <4>1, SaveIs DEF Fields
    <3>2. CASE step' \in 14 .. 15
      BY <1>6, <3>2, SaveIs
    <3> QED
      BY <2>1, <3>1, <3>2
  <2>10. /\ step' >= 3 => "model" \in In(tpair, count)'
         /\ step' >= 4 => "metadata" \in In(tpair, count)'
         /\ step' >= 5 => "feature" \in In(tpair, count)'
         /\ step' >= 6 => "label" \in In(tpair, count)'
    BY <2>1, <2>2, <2>3 DEF SaveInv
  <2>11. step' >= 7 => mem'["models"][tpair] # 0 /\ (mem'["models"][tpair] = count \/ tpair \in stale')
    BY <2>1, <2>5, <2>8, <2>9 DEF SaveInv
  <2>12. /\ step' >= 8 => mem'["filename"][tpair] = count
         /\ step' >= 9 => mem'["path"][tpair] = count
         /\ step' >= 10 => mem'["known"][tpair] = count
         /\ step' >= 11 => mem'["metadata"][tpair] = count
         /\ step' >= 12 => mem'["feature"][tpair] = count
         /\ step' >= 13 => mem'["label"][tpair] = count
    <3>1. \A f \in Fields : step' > 1 /\ mem[f][tpair] = count => mem'[f][tpair] = count
      BY <2>6
    <3> QED
      BY <2>1, <2>5, <3>1 DEF SaveInv, Fields, Announced
  <2> QED
    BY <2>1, <2>7, <2>10, <2>11, <2>12 DEF SaveInv
<1>7. CASE RememberModel
  <2>1. /\ UNCHANGED <<folders, tpc, tpair, count, step, drawer>>
        /\ mem' = [mem EXCEPT !["models"][load.pair] = load.model] /\ load.pair \in Pairs
        /\ load.model \in 0 .. count
        /\ stale' = IF mem["models"][load.pair] # 0 THEN stale \cup {load.pair} ELSE stale
    BY <1>7 DEF RememberModel, disk, trainer, TypeInv, LoaderType, SomeLoad
  <2>2. tpair \in Pairs /\ "models" \in Fields
    BY DEF TypeInv, TrainerType, Fields
  <2>3. /\ \A f \in Fields : f # "models" => mem'[f][tpair] = mem[f][tpair]
        /\ tpair # load.pair => mem'["models"][tpair] = mem["models"][tpair]
        /\ \A f \in Announced : mem'[f] = mem[f]
    BY <2>1, <2>2 DEF TypeInv, TrainerType, Fields, Announced
  <2>4. load.model # 0 => SaveInv'
    <3>1. tpair = load.pair /\ load.model # 0 => mem'["models"][tpair] # 0
      BY <2>1, <2>2 DEF TypeInv, TrainerType
    <3>2. stale \subseteq stale' /\ (mem["models"][load.pair] # 0 => load.pair \in stale')
      BY <2>1
    <3>3. In(tpair, count)' = In(tpair, count)
      BY <2>1 DEF In
    <3>4. /\ mem'["filename"][tpair] = mem["filename"][tpair] /\ mem'["path"][tpair] = mem["path"][tpair]
          /\ mem'["known"][tpair] = mem["known"][tpair] /\ mem'["metadata"][tpair] = mem["metadata"][tpair]
          /\ mem'["feature"][tpair] = mem["feature"][tpair] /\ mem'["label"][tpair] = mem["label"][tpair]
      BY <2>3 DEF Fields, Announced
    <3> QED
      BY <2>1, <2>3, <3>1, <3>2, <3>3, <3>4 DEF SaveInv
  <2>5. load.model # 0
    BY <1>7 DEF RememberModel, LoadInv
  <2> QED
    BY <2>4, <2>5
<1>8. ASSUME NEW p \in Pairs, BeginLoad(p)
      PROVE  SaveInv'
  BY <1>1, <1>8 DEF BeginLoad, disk
<1>9. CASE ScanRemoves \/ TrainerEnds \/ Load \/ CheckModel \/ Predict \/ Stop
  BY <1>1, <1>9 DEF ScanRemoves, TrainerEnds, Load, CheckModel, Predict, Stop, trainer, disk
<1>10. CASE UNCHANGED vars
  BY <1>1, <1>10 DEF vars, trainer, disk
<1> QED
  BY <1>2, <1>3, <1>4, <1>5, <1>6, <1>7, <1>8, <1>9, <1>10 DEF Next

\* The dictionaries of a pair are as they were.
Same(p) == \A f \in Fields : mem'[f][p] = mem[f][p]

LEMMA SameIs ==
  ASSUME NEW p \in Pairs, Same(p)
  PROVE  /\ mem'["filename"][p] = mem["filename"][p] /\ mem'["path"][p] = mem["path"][p]
         /\ mem'["models"][p] = mem["models"][p] /\ mem'["known"][p] = mem["known"][p]
         /\ mem'["metadata"][p] = mem["metadata"][p] /\ mem'["feature"][p] = mem["feature"][p]
         /\ mem'["label"][p] = mem["label"][p] /\ mem'["stamp"][p] = mem["stamp"][p]
BY DEF Same, Fields, Announced

LEMMA SameTraining ==
  ASSUME NEW p \in Pairs, Same(p), p \in stale => p \in stale', OfOneTraining(p)
  PROVE  OfOneTraining(p)'
BY SameIs DEF OfOneTraining

\* A step of a save leaves the pairs alone that it is not about, and its own until
\* it announces.
LEMMA SaveSame ==
  ASSUME TypeInv, Save, NEW p \in Pairs, p # tpair \/ step' \notin {1} \cup 7 .. 13
  PROVE  Same(p)
<1>1. CASE step' \in {1} \cup 7 .. 13
  BY <1>1, SaveIs DEF Same
<1>2. CASE step' \notin {1} \cup 7 .. 13
  BY <1>2, SaveIs DEF Same
<1> QED
  BY <1>1, <1>2

LEMMA MemInvNext == TypeInv /\ SaveInv /\ MemInv /\ LoadInv /\ FolderInv /\ [Next]_vars => MemInv'
<1> SUFFICES ASSUME TypeInv, SaveInv, MemInv, LoadInv, FolderInv, [Next]_vars, NEW p \in Pairs, ~ InSave(p)'
             PROVE  OfOneTraining(p)'
  BY DEF MemInv
<1>1. ASSUME mem' = mem, stale' = stale, ~ InSave(p)
      PROVE  OfOneTraining(p)'
  <2>1. OfOneTraining(p) /\ Same(p)
    BY <1>1 DEF MemInv, Same
  <2> QED
    BY <1>1, <2>1, SameTraining
<1>2. CASE Scan \/ Train \/ Rotate
  BY <1>1, <1>2 DEF Scan, Train, Rotate, InSave
<1>3. CASE TrainingFails
  <2>1. ~ InSave(p)
    <3>1. CASE tpc = "train"
      BY <3>1 DEF InSave
    <3>2. CASE tpc = "save" /\ step < 15 /\ SaveSteps[step + 1][1] # "memory"
      <4>1. step + 1 \in 1 .. 15
        BY <3>2 DEF TypeInv, TrainerType
      <4>2. step + 1 \notin 7 .. 13
        BY <3>2, <4>1, SaveStepsTo
      <4> QED
        BY <4>1, <4>2 DEF InSave
    <3> QED
      BY <1>3, <3>1, <3>2, SaveStepsAre DEF TrainingFails
  <2> QED
    BY <1>1, <1>3, <2>1 DEF TrainingFails
<1>4. CASE Purge
  BY <1>1, <1>4, SaveStepsAre DEF Purge, InSave
<1>5. CASE Save
  <2>1. /\ step' = step + 1 /\ step' \in 1 .. 15 /\ tpc = "save" /\ tpc' = "save"
        /\ UNCHANGED <<tpair, count>> /\ tpair \in Pairs /\ step \in 0 .. 14
    BY <1>5, SaveIs DEF TypeInv, TrainerType
  <2>2. p # tpair \/ step' \notin 7 .. 12
    BY <2>1 DEF InSave
  <2>3. CASE p # tpair \/ step' \in 2 .. 6 \cup 14 .. 15
    <3>1. Same(p)
      BY <1>5, <2>1, <2>3, SaveSame
    <3>2. p \in stale => p \in stale'
      BY <1>5, <2>3, SaveIs
    <3>3. ~ InSave(p)
      BY <2>1, <2>3 DEF InSave
    <3> QED
      BY <3>1, <3>2, <3>3, SameTraining DEF MemInv
  <2>4. CASE p = tpair /\ step' = 1
    <3>1. SaveSteps[step'][2] = "stamp"
      BY <2>4, SaveStepsAre
    <3>2. \A f \in Fields : f # "stamp" => mem'[f][p] = mem[f][p]
      BY <1>5, <2>4, <3>1, SaveIs
    <3>3. stale' = stale
      BY <1>5, <2>4, SaveIs
    <3>4. OfOneTraining(p)
      BY <2>1, <2>4 DEF MemInv, InSave
    <3> QED
      BY <3>2, <3>3, <3>4 DEF OfOneTraining, Fields, Announced
  <2>5. CASE p = tpair /\ step' = 13
    <3>1. SaveInv'
      BY SaveInvNext
    <3>2. /\ mem'["models"][p] # 0 /\ (mem'["models"][p] = count \/ p \in stale')
          /\ mem'["filename"][p] = count /\ mem'["path"][p] = count /\ mem'["metadata"][p] = count
          /\ mem'["feature"][p] = count /\ mem'["label"][p] = count
      BY <2>1, <2>5, <3>1 DEF SaveInv
    <3> QED
      BY <3>2 DEF OfOneTraining
  <2> QED
    BY <2>1, <2>2, <2>3, <2>4, <2>5
<1>6. CASE RememberModel
  <2>1. /\ mem' = [mem EXCEPT !["models"][load.pair] = load.model] /\ load.pair \in Pairs
        /\ load.model \in 0 .. count /\ UNCHANGED <<tpc, tpair, step>> /\ "models" \in Fields
        /\ stale' = IF mem["models"][load.pair] # 0 THEN stale \cup {load.pair} ELSE stale
    BY <1>6 DEF RememberModel, disk, trainer, TypeInv, LoaderType, SomeLoad, Fields
  <2>2. OfOneTraining(p)
    BY <2>1 DEF MemInv, InSave
  <2>3. CASE p # load.pair
    <3>1. Same(p)
      BY <2>1, <2>3, MemSet DEF Same
    <3> QED
      BY <2>1, <2>2, <3>1, SameTraining
  <2>4. CASE p = load.pair
    <3>1. mem'["models"][p] = load.model
      BY <2>1, <2>4, MemSet
    <3>2. \A f \in Fields : f # "models" => mem'[f][p] = mem[f][p]
      BY <2>1, <2>4, MemSet
    <3>3. load.model # 0 /\ (mem["models"][p] = 0 => load.model = mem["filename"][p])
      BY <1>6, <2>4 DEF RememberModel, LoadInv, LoadedSoFar
    <3>4. load.model \in {0, mem["filename"][p]} \/ p \in stale'
      BY <2>1, <2>4, <3>3
    <3> QED
      BY <2>2, <3>1, <3>2, <3>3, <3>4 DEF OfOneTraining, Fields, Announced
  <2> QED
    BY <2>3, <2>4
<1>7. ASSUME NEW q \in Pairs, BeginLoad(q)
      PROVE  OfOneTraining(p)'
  BY <1>1, <1>7 DEF BeginLoad, InSave
<1>8. CASE ScanRemoves \/ TrainerEnds \/ Load \/ CheckModel \/ Predict \/ Stop
  BY <1>1, <1>8 DEF ScanRemoves, TrainerEnds, Load, CheckModel, Predict, Stop, trainer, InSave
<1>9. CASE Reload \/ Crash
  <2>1. mem' = [f \in Fields |-> IF f \in Announced THEN drawer[f] ELSE Nothing]
    BY <1>9 DEF Reload, Crash, Boot
  <2>2. /\ mem'["path"][p] = drawer["path"][p] /\ mem'["filename"][p] = drawer["filename"][p]
        /\ mem'["known"][p] = 0 /\ mem'["models"][p] = 0
    BY <2>1 DEF Fields, Announced, Nothing
  <2> QED
    BY <2>2 DEF OfOneTraining, FolderInv
<1>10. CASE UNCHANGED vars
  BY <1>1, <1>10 DEF vars, trainer, InSave
<1> QED
  BY <1>2, <1>3, <1>4, <1>5, <1>6, <1>7, <1>8, <1>9, <1>10 DEF Next

LEMMA LoadInvNext == TypeInv /\ SaveInv /\ MemInv /\ LoadInv /\ [Next]_vars => LoadInv'
<1> SUFFICES ASSUME TypeInv, SaveInv, MemInv, LoadInv, [Next]_vars
             PROVE  LoadInv'
  OBVIOUS
<1>0. load.pair \in Pairs /\ tpair \in Pairs /\ "models" \in Fields
  BY DEF TypeInv, LoaderType, SomeLoad, TrainerType, Fields
<1>1. ASSUME UNCHANGED loader, Same(load.pair), stale \subseteq stale',
             ~ InSave(load.pair) => ~ InSave(load.pair)'
      PROVE  LoadInv'
  <2>1. load' = load /\ lpc' = lpc /\ mixed' = mixed
    BY <1>1 DEF loader
  <2>2. /\ mem'["models"][load.pair] = mem["models"][load.pair]
        /\ mem'["filename"][load.pair] = mem["filename"][load.pair]
        /\ mem'["known"][load.pair] = mem["known"][load.pair]
    BY <1>0, <1>1, SameIs
  <2>3. LoadedSoFar => LoadedSoFar'
    <3> SUFFICES ASSUME LoadedSoFar
                 PROVE  LoadedSoFar'
      OBVIOUS
    <3>1. ~ InSave(load.pair)'
      BY <1>1 DEF LoadedSoFar
    <3> QED
      BY <1>1, <2>1, <2>2, <3>1 DEF LoadedSoFar
  <2> QED
    BY <2>1, <2>2, <2>3 DEF LoadInv
<1>2. ASSUME Abandoned
      PROVE  LoadInv'
  BY <1>2 DEF Abandoned, LoadInv
<1>3. CASE \/ Scan \/ ScanRemoves \/ TrainerEnds \/ Train \/ TrainingFails \/ Purge \/ Rotate \/ Stop
  <2>1. UNCHANGED loader /\ mem' = mem /\ stale' = stale
    BY <1>3 DEF Scan, ScanRemoves, TrainerEnds, Train, TrainingFails, Purge, Rotate, Stop
  <2>2. ~ InSave(load.pair)' \/ (tpc' = tpc /\ step' = step /\ tpair' = tpair)
    BY <1>3 DEF Scan, ScanRemoves, TrainerEnds, Train, TrainingFails, Purge, Rotate, Stop, InSave,
                trainer, TypeInv, TrainerType
  <2>3. load' = load
    BY <2>1 DEF loader
  <2> QED
    BY <1>1, <2>1, <2>2, <2>3 DEF Same, InSave
<1>4. CASE Save
  <2>1. /\ step' = step + 1 /\ step' \in 1 .. 15 /\ tpc = "save" /\ tpc' = "save"
        /\ UNCHANGED <<tpair, count, lpc, load>> /\ step \in 0 .. 14
        /\ mixed' = (lpc # "idle" /\ (mixed \/ (step' \in 7 .. 13 /\ load.pair = tpair)))
    BY <1>4, SaveIs DEF TypeInv, TrainerType
  <2>2. CASE lpc = "idle"
    BY <2>1, <2>2 DEF LoadInv
  <2>3. CASE lpc # "idle" /\ (load.pair # tpair \/ step' \in 1 .. 6 \cup 14 .. 15)
    <3>1. mixed' = mixed
      BY <2>1, <2>3 DEF TypeInv, LoaderType
    <3>2. /\ mem'["models"][load.pair] = mem["models"][load.pair]
          /\ mem'["filename"][load.pair] = mem["filename"][load.pair]
          /\ mem'["known"][load.pair] = mem["known"][load.pair]
      <4>1. CASE load.pair = tpair /\ step' = 1
        <5>1. SaveSteps[step'][2] = "stamp"
          BY <4>1, SaveStepsAre
        <5>2. \A f \in Fields : f # "stamp" => mem'[f][load.pair] = mem[f][load.pair]
          BY <1>4, <4>1, <5>1, SaveIs
        <5> QED
          BY <5>2 DEF Fields, Announced
      <4>2. CASE ~ (load.pair = tpair /\ step' = 1)
        BY <1>0, <1>4, <2>1, <2>3, <4>2, SaveSame, SameIs
      <4> QED
        BY <4>1, <4>2
    <3>3. load.pair \in stale => load.pair \in stale'
      BY <1>4, <2>3, SaveIs
    <3>4. ~ InSave(load.pair) => ~ InSave(load.pair)'
      BY <2>1, <2>3 DEF InSave
    <3>5. LoadedSoFar => LoadedSoFar'
      BY <2>1, <3>2, <3>3, <3>4 DEF LoadedSoFar
    <3> QED
      BY <2>1, <3>1, <3>2, <3>5 DEF LoadInv
  <2>4. CASE lpc # "idle" /\ load.pair = tpair /\ step' \in 7 .. 13
    <3>1. mixed' = TRUE
      BY <2>1, <2>4
    <3>2. SaveInv'
      BY SaveInvNext
    <3>3. mem'["models"][load.pair] # 0
      BY <2>1, <2>4, <3>2 DEF SaveInv
    <3>4. lpc \in {"check", "remember"} => load.model # 0
      BY DEF LoadInv
    <3> QED
      BY <2>1, <3>1, <3>3, <3>4 DEF LoadInv
  <2> QED
    BY <2>1, <2>2, <2>3, <2>4
<1>5. ASSUME NEW p \in Pairs, BeginLoad(p)
      PROVE  LoadInv'
  <2>0. UNCHANGED <<mem, tpc, tpair, step, stale>>
    BY <1>5 DEF BeginLoad
  <2>1. CASE UNCHANGED loader
    <3>1. load' = load
      BY <2>1 DEF loader
    <3> QED
      BY <1>1, <2>0, <2>1, <3>1 DEF Same, InSave
  <2>2. CASE ~ UNCHANGED loader
    <3>1. /\ lpc' = "path" /\ load' = [NoLoad EXCEPT !.pair = p, !.filename = mem["filename"][p]]
          /\ mixed' = (tpair = p /\ Announcing) /\ mem["filename"][p] # 0
      BY <1>5, <2>2, Zenon DEF BeginLoad
    <3>2. load'.pair = p /\ load'.filename = mem["filename"][p]
      BY <3>1, NoLoadIs
    <3>3. Announcing => tpc = "save" /\ step \in 7 .. 12
      <4> SUFFICES ASSUME Announcing
                   PROVE  tpc = "save" /\ step \in 7 .. 12
        OBVIOUS
      <4>1. tpc \in {"save", "rotate"} /\ step \in 0 .. 15
        BY DEF Announcing, TypeInv, TrainerType
      <4>2. PICK i \in 1 .. step : SaveSteps[i] = <<"memory", "models">>
        BY DEF Announcing
      <4>3. PICK j \in step + 1 .. Len(SaveSteps) : SaveSteps[j][1] = "memory"
        BY DEF Announcing
      <4>4. i \in 1 .. 15 /\ j \in 1 .. 15
        BY <4>1, SaveStepsAre
      <4>5. i = 7
        BY <4>2, <4>4, SaveStepsTo
      <4>6. j = 1 \/ j \in 7 .. 13
        BY <4>3, <4>4, SaveStepsTo
      <4>7. step \in 7 .. 12
        BY <4>1, <4>5, <4>6, SaveStepsAre
      <4> QED
        BY <4>1, <4>7 DEF SaveInv
    <3>4. InSave(p) => Announcing
      <4> SUFFICES ASSUME tpc = "save", step \in 7 .. 12
                   PROVE  Announcing
        BY DEF InSave
      <4>1. 7 \in 1 .. step /\ 13 \in step + 1 .. Len(SaveSteps)
        BY SaveStepsAre
      <4>2. SaveSteps[7] = <<"memory", "models">> /\ SaveSteps[13][1] = "memory"
        BY SaveStepsAre
      <4> QED
        BY <4>1, <4>2, Zenon DEF Announcing
    <3>5. CASE tpair = p /\ Announcing
      <4>1. mem["models"][p] # 0
        BY <3>3, <3>5 DEF SaveInv
      <4> QED
        BY <2>0, <3>1, <3>2, <3>5, <4>1 DEF LoadInv
    <3>6. CASE ~ (tpair = p /\ Announcing)
      <4>1. ~ InSave(p)'
        BY <2>0, <3>4, <3>6 DEF InSave
      <4>2. LoadedSoFar'
        BY <2>0, <3>1, <3>2, <4>1 DEF LoadedSoFar, InSave
      <4>3. mixed' = FALSE
        BY <3>1, <3>6, Zenon
      <4> QED
        BY <3>1, <4>2, <4>3 DEF LoadInv
    <3> QED
      BY <3>5, <3>6
  <2> QED
    BY <2>1, <2>2
<1>6. CASE Load
  <2>0. UNCHANGED <<mem, tpc, tpair, step, stale>>
    BY <1>6 DEF Load, trainer
  <2>1. CASE Abandoned
    BY <1>2, <2>1
  <2>2. CASE ~ Abandoned /\ mixed
    <3>1. mixed' = mixed /\ load'.pair = load.pair
      BY <1>6, <2>2, LoadIs DEF TypeInv, LoaderType, SomeLoad
    <3>2. lpc' \in {"check", "remember"} => load'.model # 0
      <4>1. lpc' \in {"check", "remember"} => lpc = "model"
        BY <1>6, <2>2, LoadIs
      <4>2. lpc = "model" => load' = [load EXCEPT !.model = Found("model")] /\ Found("model") # 0
        BY <1>6, <2>2, LoadIs
      <4> QED
        BY <4>1, <4>2 DEF TypeInv, LoaderType, SomeLoad
    <3>3. lpc # "idle"
      BY <1>6, <2>2, LoadIs
    <3> QED
      BY <2>0, <2>2, <3>1, <3>2, <3>3 DEF LoadInv
  <2>3. CASE ~ Abandoned /\ ~ mixed
    <3>0. lpc # "idle" /\ LoadedSoFar /\ mixed' = mixed
      BY <1>6, <2>3, LoadIs DEF LoadInv
    <3>1. OfOneTraining(load.pair) /\ ~ InSave(load.pair) /\ load \in SomeLoad
      BY <1>0, <3>0 DEF MemInv, LoadedSoFar, TypeInv, LoaderType
    <3>2. OnDisk("metadata") \in {0, load.filename} /\ OnDisk("feature") \in {0, load.filename}
          /\ OnDisk("label") \in {0, load.filename} /\ OnDisk("model") \in {0, load.filename}
      BY DEF OnDisk
    <3>3. /\ lpc = "metadata" /\ Found("metadata") # 0 => Found("metadata") = load.filename
          /\ lpc = "feature" /\ Found("feature") # 0 => Found("feature") = load.filename
          /\ lpc = "label" /\ Found("label") # 0 => Found("label") = load.filename
      BY <3>0, <3>1, <3>2 DEF Found, LoadedSoFar, OfOneTraining
    <3>4. lpc = "model" /\ Found("model") # 0 =>
            /\ Found("model") = load.filename \/ load.pair \in stale
            /\ mem["models"][load.pair] = 0 => Found("model") = load.filename
      BY <3>0, <3>1, <3>2 DEF Found, LoadedSoFar, OfOneTraining
    <3>5. load'.pair = load.pair /\ load'.filename = load.filename
      BY <1>6, <2>3, <3>1, LoadIs DEF SomeLoad
    <3>6. ~ InSave(load.pair)' /\ mem' = mem /\ stale' = stale
      BY <2>0, <3>1, <3>5 DEF InSave
    <3>7. CASE lpc = "path"
      <4>1. lpc' = "known" /\ load' = [load EXCEPT !.path = mem["path"][load.pair]]
        BY <1>6, <2>3, <3>7, LoadIs
      <4>2. load'.path = mem["path"][load.pair]
        BY <3>1, <4>1 DEF SomeLoad
      <4> QED
        BY <3>0, <3>1, <3>5, <3>6, <4>1, <4>2, <2>3 DEF LoadInv, LoadedSoFar, OfOneTraining
    <3>8. CASE lpc = "known"
      <4>1. lpc' = "metadata" /\ load' = [load EXCEPT !.disk = (mem["known"][load.pair] = 0)]
        BY <1>6, <2>3, <3>8, LoadIs
      <4>2. load'.disk = (mem["known"][load.pair] = 0) /\ load'.path = load.path
        BY <3>1, <4>1 DEF SomeLoad
      <4> QED
        BY <3>0, <3>5, <3>6, <3>8, <4>1, <4>2, <2>3 DEF LoadInv, LoadedSoFar
    <3>9. CASE lpc = "metadata"
      <4>1. lpc' = "feature" /\ load' = [load EXCEPT !.metadata = Found("metadata")] /\ Found("metadata") # 0
        BY <1>6, <2>3, <3>9, LoadIs
      <4>2. load'.metadata = load.filename /\ load'.path = load.path /\ load'.disk = load.disk
        BY <3>1, <3>3, <3>9, <4>1 DEF SomeLoad
      <4> QED
        BY <3>0, <3>5, <3>6, <3>9, <4>1, <4>2, <2>3 DEF LoadInv, LoadedSoFar
    <3>10. CASE lpc = "feature"
      <4>1. lpc' = "label" /\ load' = [load EXCEPT !.feature = Found("feature")] /\ Found("feature") # 0
        BY <1>6, <2>3, <3>10, LoadIs
      <4>2. load'.feature = load.filename /\ load'.path = load.path /\ load'.disk = load.disk
            /\ load'.metadata = load.metadata
        BY <3>1, <3>3, <3>10, <4>1 DEF SomeLoad
      <4> QED
        BY <3>0, <3>5, <3>6, <3>10, <4>1, <4>2, <2>3 DEF LoadInv, LoadedSoFar
    <3>11. CASE lpc = "label"
      <4>1. lpc' = "model" /\ load' = [load EXCEPT !.label = Found("label")] /\ Found("label") # 0
        BY <1>6, <2>3, <3>11, LoadIs
      <4>2. load'.label = load.filename /\ load'.path = load.path /\ load'.disk = load.disk
            /\ load'.metadata = load.metadata /\ load'.feature = load.feature
        BY <3>1, <3>3, <3>11, <4>1 DEF SomeLoad
      <4> QED
        BY <3>0, <3>5, <3>6, <3>11, <4>1, <4>2, <2>3 DEF LoadInv, LoadedSoFar
    <3>12. CASE lpc = "model"
      <4>1. /\ lpc' = IF mem["models"][load.pair] = 0 THEN "check" ELSE "predict"
            /\ load' = [load EXCEPT !.model = Found("model")] /\ Found("model") # 0
        BY <1>6, <2>3, <3>12, LoadIs
      <4>2. load'.model = Found("model") /\ load'.path = load.path /\ load'.disk = load.disk
            /\ load'.metadata = load.metadata /\ load'.feature = load.feature
            /\ load'.label = load.label
        BY <3>1, <4>1 DEF SomeLoad
      <4> QED
        BY <3>0, <3>4, <3>5, <3>6, <3>12, <4>1, <4>2, <2>3 DEF LoadInv, LoadedSoFar
    <3> QED
      BY <1>6, <2>3, <3>7, <3>8, <3>9, <3>10, <3>11, <3>12, LoadIs
  <2> QED
    BY <2>1, <2>2, <2>3
<1>7. CASE CheckModel
  <2>1. /\ UNCHANGED <<mem, load, mixed, stale, tpc, tpair, step>> /\ lpc = "check"
        /\ lpc' \in {"remember", "predict"} 
    BY <1>7 DEF CheckModel, trainer
  <2> QED
    BY <2>1 DEF LoadInv, LoadedSoFar, InSave
<1>8. CASE RememberModel
  <2>1. /\ UNCHANGED <<load, mixed, tpc, tpair, step>> /\ lpc = "remember" /\ lpc' = "predict"
        /\ mem' = [mem EXCEPT !["models"][load.pair] = load.model]
        /\ stale \subseteq stale' /\ load.model \in 0 .. count
    BY <1>8 DEF RememberModel, trainer, TypeInv, LoaderType, SomeLoad
  <2>2. mem'["models"][load.pair] = load.model
        /\ \A f \in Fields : f # "models" => mem'[f][load.pair] = mem[f][load.pair]
    BY <1>0, <2>1, MemSet
  <2>3. mem'["known"][load.pair] = mem["known"][load.pair]
        /\ mem'["filename"][load.pair] = mem["filename"][load.pair]
    BY <2>2 DEF Fields, Announced
  <2> QED
    BY <2>1, <2>2, <2>3 DEF LoadInv, LoadedSoFar, InSave
<1>9. CASE Predict
  BY <1>2, <1>9 DEF Predict
<1>10. CASE Reload \/ Crash
  BY <1>10 DEF Reload, Crash, Boot, LoadInv
<1>11. CASE UNCHANGED vars
  <2>1. UNCHANGED loader /\ UNCHANGED <<mem, stale, tpc, tpair, step, load>>
    BY <1>11 DEF vars, trainer, loader
  <2> QED
    BY <1>1, <2>1 DEF Same, InSave
<1> QED
  BY <1>3, <1>4, <1>5, <1>6, <1>7, <1>8, <1>9, <1>10, <1>11 DEF Next

(***************************************************************************)
(* FreqAI: what is named is on disk.                                       *)
(***************************************************************************)

LEMMA FoldersFinite ==
  ASSUME TypeInv, NEW p \in Pairs
  PROVE  IsFiniteSet(DOMAIN folders[p]) /\ DOMAIN folders[p] \subseteq 1 .. count /\ count \in Nat
<1>1. count \in Nat /\ DOMAIN folders[p] \subseteq 1 .. count
  BY DEF TypeInv, TrainerType, DiskType
<1>2. IsFiniteSet(1 .. count)
  BY <1>1, FS_Interval
<1> QED
  BY <1>1, <1>2, FS_Subset

LEMMA SmallestOf ==
  ASSUME NEW T \in SUBSET Nat, T # {}
  PROVE  \E n \in T : \A m \in T : n <= m
<1>1. PICK n \in T : \A m \in T : ~ (<<m, n>> \in OpToRel(<, Nat))
  BY NatLessThanWellFounded, WFMin
<1>2. \A m \in T : ~ (m < n)
  BY <1>1 DEF OpToRel
<1> QED
  BY <1>2

\* A set of numbers up to c has a greatest one: its least bound.
LEMMA GreatestOf ==
  ASSUME NEW c \in Nat, NEW S \in SUBSET (1 .. c), S # {}
  PROVE  \E x \in S : \A y \in S : y <= x
<1> DEFINE Bounds == {n \in Nat : \A y \in S : y <= n}
<1>1. Bounds \subseteq Nat /\ c \in Bounds
  OBVIOUS
<1>2. PICK n \in Bounds : \A m \in Bounds : n <= m
  BY <1>1, SmallestOf
<1>3. n \in S
  <2> SUFFICES ASSUME n \notin S
               PROVE  FALSE
    OBVIOUS
  <2>1. n \in Nat /\ \A y \in S : y \in Nat /\ y < n /\ y >= 1
    BY <1>2
  <2>2. n - 1 \in Bounds
    <3>1. n - 1 \in Nat
      <4>1. PICK y \in S : TRUE
        OBVIOUS
      <4>2. y < n /\ y >= 1 /\ y \in Nat
        BY <2>1
      <4> QED
        BY <2>1, <4>2
    <3>2. \A y \in S : y <= n - 1
      BY <2>1
    <3> QED
      BY <3>1, <3>2
  <2> QED
    BY <1>2, <2>1, <2>2
<1> QED
  BY <1>2, <1>3

(***************************************************************************)
(* FreqAI: purges.                                                         *)
(***************************************************************************)

Above(S, x) == {m \in S : m > x}

\* Of a set of numbers, those with fewer than n above them are n or all: a number
\* that is not among them has n of them above it.
LEMMA NewestStay ==
  ASSUME NEW c \in Nat, NEW S \in SUBSET (1 .. c), NEW n \in Nat, NEW x \in Nat,
         Cardinality(Above(S, x)) >= n
  PROVE  Cardinality({m \in Above(S, x) : Cardinality(Above(S, m)) < n}) >= n
<1> DEFINE K == {m \in Above(S, x) : Cardinality(Above(S, m)) < n}
<1>1. IsFiniteSet(S) /\ Above(S, x) \subseteq S /\ IsFiniteSet(Above(S, x))
  <2>1. IsFiniteSet(1 .. c)
    BY FS_Interval
  <2> QED
    BY <2>1, FS_Subset DEF Above
<1>2. SUFFICES ASSUME ~ (Cardinality(K) >= n)
               PROVE  FALSE
  OBVIOUS
<1>3. K \subseteq Above(S, x) /\ IsFiniteSet(K) /\ Cardinality(K) \in Nat
  BY <1>1, FS_Subset, FS_CardinalityType
<1>4. Cardinality(K) < n
  BY <1>2, <1>3
<1>5. Above(S, x) \ K # {}
  <2>1. Above(S, x) # K
    BY <1>2
  <2> QED
    BY <1>3, <2>1
<1>6. PICK y \in Above(S, x) \ K : \A z \in Above(S, x) \ K : z <= y
  <2>1. Above(S, x) \ K \in SUBSET (1 .. c)
    BY DEF Above
  <2> QED
    BY <1>5, <2>1, GreatestOf
<1>7. Above(S, y) \subseteq K
  <2> SUFFICES ASSUME NEW z \in S, z > y
               PROVE  z \in K
    BY DEF Above
  <2>1. z \in Above(S, x)
    BY <1>6 DEF Above
  <2>2. ~ (z <= y)
    BY <1>6 DEF Above
  <2> QED
    BY <1>6, <2>1, <2>2
<1>8. Cardinality(Above(S, y)) <= Cardinality(K) /\ Cardinality(Above(S, y)) \in Nat
  BY <1>3, <1>7, FS_Subset, FS_CardinalityType
<1>9. y \in K
  BY <1>4, <1>6, <1>8, <1>3
<1> QED
  BY <1>6, <1>9

\* What is there stays there and what counts against it still counts.
LEMMA NamedKept ==
  ASSUME TypeInv, TypeInv', NEW p \in Pairs, NEW n \in Nat, Named(p, n),
         In(p, n) \subseteq In(p, n)', Unnamed(p, n) \subseteq Unnamed(p, n)'
  PROVE  Named(p, n)'
<1>1. IsFiniteSet(Unnamed(p, n)')
  <2>1. IsFiniteSet(DOMAIN folders'[p])
    <3>1. count' \in Nat /\ DOMAIN folders'[p] \subseteq 1 .. count'
      BY DEF TypeInv, TrainerType, DiskType
    <3>2. \A b \in Nat : IsFiniteSet(1 .. b)
      BY FS_Interval
    <3>3. IsFiniteSet(1 .. count')
      BY <3>1, <3>2, Zenon
    <3> QED
      BY <3>1, <3>3, FS_Subset
  <2>2. Unnamed(p, n)' \subseteq DOMAIN folders'[p]
    BY DEF Unnamed
  <2> QED
    BY <2>1, <2>2, FS_Subset
<1>2. /\ Cardinality(Unnamed(p, n)) <= Cardinality(Unnamed(p, n)')
      /\ Cardinality(Unnamed(p, n)) \in Nat /\ Cardinality(Unnamed(p, n)') \in Nat
  BY <1>1, FS_Subset, FS_CardinalityType
<1> QED
  BY <1>2, FreqAIAssumption DEF Named

\* The folders of a pair after a step, but for a purge.
LEMMA UnnamedGrows ==
  ASSUME TypeInv, NEW p \in Pairs, NEW n \in Nat,
         DOMAIN folders[p] \subseteq DOMAIN folders'[p],
         \A m \in DOMAIN folders[p] :
           m > n /\ m = mem'["filename"][p] =>
             m = mem["filename"][p] \/ (tpc = "save" /\ tpair = p /\ m = count),
         tpc' = "save" /\ tpair' = p => (tpc = "save" /\ tpair = p /\ count' = count) \/ count' \notin DOMAIN folders[p]
  PROVE  Unnamed(p, n) \subseteq Unnamed(p, n)'
BY DEF Unnamed

\* A purge keeps what is named, or NumKeep folders that nothing names.
LEMMA PurgeKeeps ==
  ASSUME TypeInv, TypeInv', SaveInv, Purge, NEW p \in Pairs, NEW n \in Nat, Named(p, n),
         n = mem["filename"][p]
  PROVE  Named(p, n)'
<1>1. /\ folders' = [q \in Pairs |-> [m \in Kept(q) |-> folders[q][m]]]
      /\ mem' = mem /\ tpc' = "rotate" /\ tpc = "save" /\ step = 15
      /\ UNCHANGED <<tpair, count>>
  BY SaveStepsAre DEF Purge
<1> DEFINE S == DOMAIN folders[p]
<1>2. S \subseteq 1 .. count /\ count \in Nat /\ IsFiniteSet(S)
  BY FoldersFinite
<1>3. Kept(p) = {m \in S : Cardinality(Above(S, m)) < NumKeep}
  BY DEF Kept, Above
<1>4. DOMAIN folders'[p] = Kept(p) /\ \A m \in Kept(p) : folders'[p][m] = folders[p][m]
  BY <1>1
<1>5. Unnamed(p, n)' = {m \in Kept(p) : m > n}
  BY <1>1, <1>4 DEF Unnamed
<1>6. Unnamed(p, n) \subseteq Above(S, n)
  BY DEF Unnamed, Above
<1>7. p = tpair => n = count
  BY <1>1 DEF SaveInv
<1>8. Unnamed(p, n) = Above(S, n)
  <2>1. p = tpair => Above(S, n) = {}
    BY <1>2, <1>7 DEF Above
  <2>2. p # tpair => Unnamed(p, n) = Above(S, n)
    BY DEF Unnamed, Above
  <2> QED
    BY <1>6, <2>1, <2>2
<1>9. IsFiniteSet(Above(S, n)) /\ Cardinality(Above(S, n)) \in Nat
  <2>1. Above(S, n) \subseteq S
    BY DEF Above
  <2> QED
    BY <1>2, <2>1, FS_Subset, FS_CardinalityType
<1>10. CASE Cardinality(Above(S, n)) < NumKeep
  <2>1. In(p, n) \subseteq In(p, n)'
    BY <1>3, <1>4, <1>10 DEF In
  <2>2. n # 0 => Files \subseteq In(p, n)
    BY <1>8, <1>10 DEF Named
  <2> QED
    BY <2>1, <2>2 DEF Named
<1>11. CASE ~ (Cardinality(Above(S, n)) < NumKeep)
  <2>1. Cardinality({m \in Above(S, n) : Cardinality(Above(S, m)) < NumKeep}) >= NumKeep
    <3>1. Cardinality(Above(S, n)) >= NumKeep /\ NumKeep \in Nat
      BY <1>9, <1>11, FreqAIAssumption
    <3> QED
      BY <1>2, <3>1, NewestStay
  <2>2. {m \in Above(S, n) : Cardinality(Above(S, m)) < NumKeep} = Unnamed(p, n)'
    BY <1>3, <1>5 DEF Above
  <2>3. Unnamed(p, n)' \subseteq Above(S, n)
    BY <2>2
  <2>4. Cardinality(Unnamed(p, n)') \in Nat
    BY <1>9, <2>3, FS_Subset, FS_CardinalityType
  <2>5. ~ (Cardinality(Unnamed(p, n)') < NumKeep)
    BY <2>1, <2>2, <2>4, FreqAIAssumption
  <2>6. NumKeep' = NumKeep
    OBVIOUS
  <2> QED
    BY <2>5, <2>6 DEF Named
<1> QED
  BY <1>10, <1>11

LEMMA TypeInvNext == TypeInv /\ QueueInv /\ [Next]_vars => TypeInv'
BY DiskTypeNext, TrainerTypeNext, LoaderTypeNext, QueueTypeNext DEF TypeInv

\* Files are only added.
LEMMA FilesStay ==
  ASSUME TypeInv, [Next]_vars, ~ Purge, NEW p \in Pairs
  PROVE  /\ DOMAIN folders[p] \subseteq DOMAIN folders'[p]
         /\ \A n \in Nat : In(p, n) \subseteq In(p, n)'
<1>1. CASE folders' = folders
  BY <1>1 DEF In
<1>2. ASSUME NEW file, folders' = With(file), UNCHANGED <<tpair, count>>
      PROVE  /\ DOMAIN folders[p] \subseteq DOMAIN folders'[p]
             /\ \A n \in Nat : In(p, n) \subseteq In(p, n)'
  <2>1. DOMAIN folders[p] \subseteq DOMAIN folders'[p]
    BY <1>2, WithIs
  <2> QED
    BY <1>2, <2>1, WithKeeps
<1>3. CASE Train
  BY <1>1, <1>2, <1>3 DEF Train
<1>4. CASE TrainingFails
  BY <1>1, <1>2, <1>4 DEF TrainingFails
<1>5. CASE Save
  <2>1. folders' = folders \/ \E file : folders' = With(file)
    BY <1>5, SaveIs
  <2> QED
    BY <1>1, <1>2, <1>5, <2>1, SaveIs
<1>6. CASE \/ Scan \/ ScanRemoves \/ TrainerEnds \/ Rotate \/ (\E q \in Pairs : BeginLoad(q)) \/ Load
           \/ CheckModel \/ RememberModel \/ Predict \/ Stop \/ Reload \/ Crash \/ UNCHANGED vars
  <2>1. folders' = folders
    BY <1>6 DEF Scan, ScanRemoves, TrainerEnds, Rotate, BeginLoad, Load, CheckModel, RememberModel,
                Predict, Stop, Reload, Crash, Boot, vars, disk
  <2> QED
    BY <1>1, <2>1
<1> QED
  BY <1>3, <1>4, <1>5, <1>6 DEF Next

LEMMA FolderInvNext ==
  TypeInv /\ SaveInv /\ MemInv /\ LoadInv /\ QueueInv /\ FolderInv /\ [Next]_vars => FolderInv'
<1> SUFFICES ASSUME TypeInv, SaveInv, MemInv, LoadInv, QueueInv, FolderInv, [Next]_vars,
                    NEW p \in Pairs
             PROVE  /\ Named(p, mem["filename"][p])' /\ Named(p, drawer["filename"][p])'
                    /\ drawer'["path"][p] = drawer'["filename"][p]
  BY DEF FolderInv
<1>1. PICK n \in Nat : n = mem["filename"][p]
  BY DEF TypeInv, TrainerType, Fields, Announced
<1>2. PICK d \in Nat : d = drawer["filename"][p]
  BY DEF TypeInv, TrainerType, DiskType, Fields, Announced
<1>3. /\ TypeInv' /\ Named(p, n) /\ Named(p, d) /\ drawer["path"][p] = d
      /\ DOMAIN folders[p] \subseteq 1 .. count /\ count \in Nat
      /\ "filename" \in Fields /\ {"filename", "path"} \subseteq Announced
  BY <1>1, <1>2, TypeInvNext, FoldersFinite DEF FolderInv, Fields, Announced
<1>4. ASSUME NEW m \in Nat, mem'["filename"][p] = m, NEW e \in Nat, drawer'["filename"][p] = e,
             drawer'["path"][p] = e, Named(p, m)', Named(p, e)'
      PROVE  /\ Named(p, mem["filename"][p])' /\ Named(p, drawer["filename"][p])'
             /\ drawer'["path"][p] = drawer'["filename"][p]
  BY <1>4 DEF Named, Unnamed, In
<1> DEFINE Excused == tpc' = "save" /\ tpair' = p =>
                        (tpc = "save" /\ tpair = p /\ count' = count) \/ count' \notin DOMAIN folders[p]
\* What is named stays the same, and nothing but a purge removes a folder.
<1>5. ASSUME ~ Purge, Excused, NEW m \in Nat, Named(p, m),
             mem'["filename"][p] = mem["filename"][p]
                \/ (mem'["filename"][p] = count /\ tpc = "save" /\ tpair = p)
                \/ mem'["filename"][p] <= m
      PROVE  Named(p, m)'
  <2>1. DOMAIN folders[p] \subseteq DOMAIN folders'[p] /\ In(p, m) \subseteq In(p, m)'
    BY <1>5, FilesStay
  <2>2. mem'["filename"][p] \in Nat
    BY <1>3 DEF TypeInv, TrainerType
  <2>3. Unnamed(p, m) \subseteq Unnamed(p, m)'
    <3>1. \A k \in DOMAIN folders[p] : k \in Nat
      BY <1>3
    <3>2. \A k \in DOMAIN folders[p] :
            k > m /\ k = mem'["filename"][p] =>
              k = mem["filename"][p] \/ (tpc = "save" /\ tpair = p /\ k = count)
      BY <1>5, <2>2, <3>1
    <3> QED
      BY <1>5, <2>1, <3>2, UnnamedGrows
  <2> QED
    BY <1>3, <1>5, <2>1, <2>3, NamedKept
<1>6. ASSUME ~ Purge, Excused, mem'["filename"][p] = n, drawer' = drawer
      PROVE  /\ Named(p, mem["filename"][p])' /\ Named(p, drawer["filename"][p])'
             /\ drawer'["path"][p] = drawer'["filename"][p]
  <2>1. Named(p, n)' /\ Named(p, d)'
    BY <1>1, <1>3, <1>5, <1>6
  <2> QED
    BY <1>1, <1>2, <1>3, <1>4, <1>6, <2>1
<1>7. CASE Scan
  BY <1>1, <1>6, <1>7 DEF Scan, Purge, disk
<1>8. CASE ScanRemoves \/ TrainerEnds \/ TrainingFails \/ Rotate \/ Stop
  <2>1. /\ ~ Purge /\ mem' = mem /\ drawer' = drawer /\ UNCHANGED <<tpair, count>>
        /\ tpc' = "save" => tpc = "save"
    BY <1>8, SaveStepsAre DEF ScanRemoves, TrainerEnds, TrainingFails, Rotate, Stop, Purge, disk, trainer
  <2> QED
    BY <1>1, <1>6, <2>1
<1>9. CASE Train
  <2>1. count \notin DOMAIN folders[p]
    BY <1>9 DEF Train, SaveInv
  <2> QED
    BY <1>1, <1>6, <1>9, <2>1 DEF Train, Purge
<1>10. CASE Save
  <2>1. /\ step' = step + 1 /\ step' \in 1 .. 15 /\ tpc = "save" /\ tpc' = "save"
        /\ UNCHANGED <<tpair, count>> /\ step \in 0 .. 14 /\ ~ Purge
    BY <1>10, SaveIs DEF TypeInv, TrainerType, Purge
  <2>2. CASE p = tpair /\ step' = 8
    <3>1. SaveInv' /\ drawer' = drawer
      BY <1>10, <2>2, SaveInvNext, SaveIs
    <3>2. /\ "model" \in In(tpair, count)' /\ "metadata" \in In(tpair, count)'
          /\ "feature" \in In(tpair, count)' /\ "label" \in In(tpair, count)'
          /\ mem'["filename"][tpair] = count
      BY <2>1, <2>2, <3>1 DEF SaveInv
    <3>3. PICK c \in Nat : c = count
      BY <1>3
    <3>4. mem'["filename"][p] = c /\ Files \subseteq In(p, c)'
      BY <2>1, <2>2, <3>2, <3>3 DEF Files, In
    <3>5. Named(p, c)'
      BY <3>4 DEF Named
    <3>6. Named(p, d)'
      BY <1>3, <1>5, <2>1, <2>2, <3>3, <3>4
    <3> QED
      BY <1>2, <1>3, <1>4, <3>1, <3>4, <3>5, <3>6
  <2>3. CASE ~ (p = tpair /\ step' = 8)
    <3>1. mem'["filename"][p] = mem["filename"][p]
      <4>1. CASE p # tpair \/ step' \notin {1} \cup 7 .. 13
        BY <1>10, <4>1, SaveSame, SameIs
      <4>2. CASE p = tpair /\ step' \in {1} \cup 7 .. 13
        <5>1. SaveSteps[step'][2] # "filename"
          <6>1. \/ step' = 1 \/ step' = 7 \/ step' = 9 \/ step' = 10 \/ step' = 11
                \/ step' = 12 \/ step' = 13
            BY <2>3, <4>2
          <6> QED
            BY <6>1, SaveStepsAre
        <5> QED
          BY <1>3, <1>10, <2>1, <4>2, <5>1, SaveIs
      <4> QED
        BY <2>1, <4>1, <4>2
    <3>2. CASE step' # 15
      <4>1. drawer' = drawer
        BY <1>10, <3>2, SaveIs
      <4> QED
        BY <1>1, <1>6, <2>1, <3>1, <4>1
    <3>3. CASE step' = 15
      <4>1. drawer' = [f \in Announced |-> mem[f]]
        BY <1>10, <3>3, SaveIs
      <4>2. drawer'["filename"][p] = n /\ drawer'["path"][p] = mem["path"][p]
        BY <1>1, <1>3, <4>1
      <4>3. mem["path"][p] = n
        <5>1. ~ InSave(p)
          BY <2>1, <3>3 DEF InSave
        <5> QED
          BY <1>1, <5>1 DEF MemInv, OfOneTraining
      <4>4. Named(p, n)'
        BY <1>3, <1>5, <2>1, <3>1
      <4> QED
        BY <1>1, <1>4, <3>1, <4>2, <4>3, <4>4
    <3> QED
      BY <3>2, <3>3
  <2> QED
    BY <2>2, <2>3
<1>11. CASE Purge
  <2>1. mem' = mem /\ drawer' = drawer
    BY <1>11 DEF Purge
  <2>2. d = n
    BY <1>1, <1>2, <1>3, <1>11, SaveStepsAre DEF Purge, SaveInv
  <2>3. Named(p, n)'
    BY <1>1, <1>3, <1>11, PurgeKeeps
  <2> QED
    BY <1>1, <1>2, <1>3, <1>4, <2>1, <2>2, <2>3
<1>12. CASE RememberModel
  <2>1. /\ UNCHANGED disk /\ UNCHANGED trainer /\ ~ Purge /\ load.pair \in Pairs
        /\ mem' = [mem EXCEPT !["models"][load.pair] = load.model] /\ load.model \in 0 .. count
    BY <1>12 DEF RememberModel, Purge, trainer, TypeInv, LoaderType, SomeLoad
  <2>2. mem'["filename"][p] = n
    BY <1>1, <1>3, <2>1, MemSet DEF Fields
  <2> QED
    BY <1>6, <2>1, <2>2 DEF disk, trainer
<1>13. ASSUME NEW q \in Pairs, BeginLoad(q)
      PROVE  /\ Named(p, mem["filename"][p])' /\ Named(p, drawer["filename"][p])'
             /\ drawer'["path"][p] = drawer'["filename"][p]
  <2>1. UNCHANGED <<mem, drawer, tpc, tpair, count>> /\ ~ Purge
    BY <1>13 DEF BeginLoad, Purge, disk
  <2> QED
    BY <1>1, <1>6, <2>1
<1>14. CASE Load \/ CheckModel \/ Predict \/ UNCHANGED vars
  <2>1. UNCHANGED <<mem, drawer, tpc, tpair, count>> /\ ~ Purge
    BY <1>14, SaveStepsAre DEF Load, CheckModel, Predict, Purge, disk, trainer, vars
  <2> QED
    BY <1>1, <1>6, <2>1
<1>15. CASE Reload \/ Crash
  <2>1. /\ mem' = [f \in Fields |-> IF f \in Announced THEN drawer[f] ELSE Nothing]
        /\ tpc' = "scan" /\ drawer' = drawer /\ ~ Purge
    BY <1>15 DEF Reload, Crash, Boot, Purge, disk
  <2>2. mem'["filename"][p] = d
    BY <1>2, <1>3, <2>1
  <2>3. Named(p, d)'
    BY <1>3, <1>5, <2>1, <2>2
  <2> QED
    BY <1>2, <1>3, <1>4, <2>1, <2>2, <2>3
<1> QED
  BY <1>7, <1>8, <1>9, <1>10, <1>11, <1>12, <1>13, <1>14, <1>15 DEF Next

(***************************************************************************)
(* FreqAI: the theorems.                                                   *)
(***************************************************************************)

LEMMA InitIInv == Init => IInv
<1> SUFFICES ASSUME Init
             PROVE  IInv
  OBVIOUS
<1>1. TypeInv
  BY InitType
<1>2. \A f \in Fields : \A p \in Pairs : mem[f][p] = 0
  BY DEF Init, Nothing
<1>3. SaveInv /\ LoadInv
  BY DEF Init, SaveInv, LoadInv
<1>4. MemInv
  BY <1>2 DEF MemInv, OfOneTraining, Fields, Announced
<1>5. FolderInv
  <2>1. \A p \in Pairs : /\ mem["filename"][p] = 0 /\ drawer["filename"][p] = 0
                         /\ drawer["path"][p] = 0
    BY DEF Init, Nothing, Fields, Announced
  <2> QED
    BY <2>1 DEF FolderInv, Named
<1>6. QueueInv
  <2>1. queue \in Seq(Pairs) /\ \A i, j \in DOMAIN queue : i # j => queue[i] # queue[j]
    BY QueuesAre DEF Init
  <2>2. tpc = "scan" /\ \A i \in DOMAIN queue : waiting[queue[i]] = {}
    BY <2>1 DEF Init
  <2> QED
    BY <2>1, <2>2 DEF QueueInv
<1> QED
  BY <1>1, <1>3, <1>4, <1>5, <1>6 DEF IInv

LEMMA NextIInv == IInv /\ [Next]_vars => IInv'
BY TypeInvNext, SaveInvNext, MemInvNext, LoadInvNext, FolderInvNext, QueueInvNext DEF IInv

LEMMA IInvHolds == Spec => []IInv
BY InitIInv, NextIInv, PTL DEF Spec

\* The dictionaries name trainings there were, for the pairs of the whitelist,
\* whatever fails and whenever the process dies (FreqaiDataDrawer).
THEOREM TypeCorrect == Spec => []TypeOK
<1>1. IInv => TypeOK
  <2> SUFFICES ASSUME TypeInv
               PROVE  TypeOK
    BY DEF IInv
  <2>1. 0 .. count \subseteq 0 .. MaxTrainings /\ 1 .. count \subseteq 1 .. MaxTrainings
    BY FreqAIAssumption DEF TypeInv, TrainerType
  <2>2. /\ drawer \in [Announced -> [Pairs -> 0 .. MaxTrainings]]
        /\ mem \in [Fields -> [Pairs -> 0 .. MaxTrainings]]
    BY <2>1 DEF TypeInv, TrainerType, DiskType
  <2>3. Range(queue) \subseteq Pairs
    BY DEF TypeInv, QueueType, Range
  <2> QED
    BY <2>1, <2>2, <2>3 DEF TypeOK, TypeInv, DiskType, TrainerType, LoaderType
<1> QED
  BY <1>1, IInvHolds, PTL

\* What pair_dictionary.json names for a pair is complete on disk whenever the
\* process dies: save_data names a training after its files are written, and
\* purge_old_models removes the oldest folders only when all that is in memory is
\* in the drawer.
THEOREM RestartIsPossible == Spec => []RestartFindsModel
<1>1. IInv => RestartFindsModel
  <2> SUFFICES ASSUME IInv, NEW p \in Pairs, drawer["filename"][p] # 0,
                      Cardinality(Unnamed(p, drawer["filename"][p])) < NumKeep
               PROVE  /\ Files \subseteq In(p, drawer["filename"][p])
                      /\ drawer["path"][p] = drawer["filename"][p]
    BY DEF RestartFindsModel
  <2> QED
    BY DEF IInv, FolderInv, Named
<1> QED
  BY <1>1, IInvHolds, PTL

\* load_data does not mix trainings, from memory or from disk, unless it overlaps
\* a save of the pair or the pair's newer model was replaced by the one it read.
THEOREM PredictionsUseOneTraining == Spec => []OneTraining
<1>1. IInv => OneTraining
  <2> SUFFICES ASSUME LoadInv, lpc = "predict", ~ mixed, load.pair \notin stale
               PROVE  {load.metadata, load.feature, load.label} = {load.model}
    BY DEF IInv, OneTraining
  <2> QED
    BY DEF LoadInv, LoadedSoFar
<1> QED
  BY <1>1, IInvHolds, PTL

\* train_queue is a round: who is attempted goes to its end, also after a failure.
THEOREM NoPairIsPassedOver == Spec => TakesTurns
<1>1. IInv /\ [Next]_vars =>
        (count' # count => \A p \in Range(queue) \ {tpair'} : tpair' \notin waiting[p])
  <2> SUFFICES ASSUME IInv, [Next]_vars, count' # count, NEW p \in Range(queue), p # tpair'
               PROVE  tpair' \notin waiting[p]
    OBVIOUS
  <2>1. Scan
    BY DEF Next, vars, ScanRemoves, TrainerEnds, Train, Save, TrainingFails, Purge, Rotate,
           BeginLoad, Load, CheckModel, RememberModel, Predict, Stop, Reload, Crash, Boot, trainer
  <2>2. queue \in Seq(Pairs) /\ queue # <<>> /\ tpair' = queue[1] /\ 1 \in DOMAIN queue /\ tpc = "scan"
    BY <2>1 DEF Scan, IInv, TypeInv, QueueType
  <2>3. PICK i \in DOMAIN queue : p = queue[i]
    BY DEF Range
  <2>4. queue[1] \in waiting[queue[i]] => i < 1
    BY <2>2, <2>3 DEF IInv, QueueInv
  <2>5. i \in 1 .. Len(queue)
    BY <2>2, <2>3
  <2> QED
    BY <2>2, <2>3, <2>4, <2>5
<1> QED
  BY <1>1, IInvHolds, PTL DEF Spec, TakesTurns
=============================================================================
