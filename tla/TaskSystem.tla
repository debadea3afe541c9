------------------------------ MODULE TaskSystem ------------------------------
(***************************************************************************)
(* The task system (include/ds_job.h, src/sys/ds_job.c) as the engine uses *)
(* it: the start of the workers, frames, batches of tasks dispatched by    *)
(* the main thread and run by every thread, and the shutdown.              *)
(*                                                                         *)
(* Tasks travel through the queue that TaskQueue specifies and FifoSpmc    *)
(* implements.  A batch is a stream (task_stream: dispatch, help, spin on  *)
(* a completion counter), a bundle (task_bundle: all tasks prepared, then  *)
(* a blocking wait on a semaphore), or the stream of meeting tasks with    *)
(* which PhysicsPipelineAlloc reaches every thread once.  A task leaves    *)
(* its result in the frame memory of the worker that ran it, where the     *)
(* main thread reads it; the task and the stream themselves are in the     *)
(* main thread's frame memory, which is reused when the batch is over.     *)
(***************************************************************************)
EXTENDS Integers, Sequences, FiniteSets

CONSTANTS
  Workers,    (* the worker threads                                        *)
  Master,     (* the main thread, which is worker 0                        *)
  Capacity,   (* entries of the queue: TASK_MAX_COUNT                      *)
  MaxTasks,   (* bound on the number of tasks                              *)
  MaxFrames,  (* bound on the number of frames                             *)
  BundleSizes (* the split counts passed to task_bundle_split_range        *)

ASSUME TaskThreadAssumption ==
  /\ IsFiniteSet(Workers) /\ Workers # {}
  /\ Master \notin Workers

ASSUME TaskBoundAssumption ==
  /\ Capacity \in Nat \ {0}
  /\ MaxTasks \in Nat /\ MaxFrames \in Nat
  /\ BundleSizes \subseteq Nat \ {0}

Threads == Workers \cup {Master}

(* Tasks are numbered as they are prepared; exit tasks come after them.    *)
NoTask == 0
ExitTask(n) == MaxTasks + n
AllTasks == 1 .. MaxTasks + Cardinality(Workers)

VARIABLES
  (* shared *)
  queue, held,   (* the task queue                                         *)
  startup,       (* a_startup_complete                                     *)
  known,         (* the workers whose thr field is set                     *)
  clear,         (* workers[t].a_mem_frame_clear                           *)
  mem,           (* workers[t].mem_frame: the results it holds             *)
  completed,     (* the stream's a_completed                               *)
  left,          (* the bundle's a_tasks_left                              *)
  bundle_done,   (* value of bundle_completed                              *)
  meeting,       (* g_a_thread_counter                                     *)
  (* the main thread *)
  mpc, kind,     (* where it is, and the kind of batch it has open         *)
  base, prepared, sent, exits,
                 (* tasks of earlier batches, tasks prepared and pushed,   *)
                 (* exit tasks pushed                                      *)
  toclear,       (* the workers task_context_frame_clear has yet to reach  *)
  frame,
  (* every thread *)
  pc, cur,       (* where it is in task_main and task_run, and its task    *)
  (* history *)
  ran,           (* how often each task has been run                       *)
  frameBase      (* the tasks of earlier frames                            *)

queueVars  == <<queue, held>>
masterVars == <<mpc, kind, base, prepared, sent, exits, toclear, frame, frameBase>>
batchVars  == <<completed, left, bundle_done, meeting>>
startVars  == <<startup, known>>
memVars    == <<clear, mem>>
threadVars == <<pc, cur, ran>>
vars == <<queueVars, startVars, memVars, batchVars, masterVars, threadVars>>

Q == INSTANCE TaskQueue WITH
       Tasks <- AllTasks, Consumers <- Threads, None <- NoTask

(* worker_init leaves a_mem_frame_clear as it finds it.                    *)
Init ==
  /\ Q!TQInit
  /\ startup = 0 /\ known = {}
  /\ clear \in [Threads -> BOOLEAN]
  /\ mem = [t \in Threads |-> {}]
  /\ completed = 0 /\ left = 0 /\ bundle_done = 0 /\ meeting = 0
  /\ mpc = "publish" /\ kind = "none"
  /\ base = 0 /\ prepared = 0 /\ sent = 0 /\ exits = 0
  /\ toclear = {} /\ frame = 0 /\ frameBase = 0
  /\ pc = [t \in Threads |-> IF t = Master THEN "idle" ELSE "starting"]
  /\ cur = [t \in Threads |-> NoTask]
  /\ ran = [k \in AllTasks |-> 0]

(***************************************************************************)
(* Conditions and updates of the code, each after the faulty variants the  *)
(* mutation runs put in its place.                                         *)
(***************************************************************************)
StartupTarget_Short == Cardinality(Workers)
StartupTarget == Cardinality(Workers) + 1

FlagAfterFlush_Kept == TRUE
FlagAfterFlush == FALSE

FrameClearSet_WorkersOnly == Workers
FrameClearSet == Threads

TaskCount == prepared - base

StreamDone_Early == completed + 1 >= TaskCount
StreamDone == completed >= TaskCount

LastOfBundle_Early(n) == n <= 1
LastOfBundle(n) == n = 0

MeetingFull_Early == meeting >= Cardinality(Threads) - 1
MeetingFull == meeting = Cardinality(Threads)

ExitCount_Short == Cardinality(Workers) - 1
ExitCount == Cardinality(Workers)

JoinedAll_First == \E w \in Workers : pc[w] = "exited"
JoinedAll == \A w \in Workers : pc[w] = "exited"

(***************************************************************************)
(* Start-up: the workers are cloned first and wait for the main thread.    *)
(***************************************************************************)
PublishStartup ==
  /\ mpc = "publish"
  /\ startup' = 1 /\ mpc' = "await"
  /\ UNCHANGED <<queueVars, known, memVars, batchVars, threadVars, kind, base,
                 prepared, sent, exits, toclear, frame, frameBase>>

WorkerRegister(w) ==
  /\ pc[w] = "starting" /\ startup # 0
  /\ known' = known \cup {w}
  /\ pc' = [pc EXCEPT ![w] = "registered"]
  /\ UNCHANGED <<queueVars, startup, memVars, batchVars, masterVars, cur, ran>>

WorkerReady(w) ==
  /\ pc[w] = "registered"
  /\ startup' = startup + 1
  /\ pc' = [pc EXCEPT ![w] = "idle"]
  /\ UNCHANGED <<queueVars, known, memVars, batchVars, masterVars, cur, ran>>

AwaitWorkers ==
  /\ mpc = "await" /\ startup >= StartupTarget
  /\ mpc' = "setup"
  /\ UNCHANGED <<queueVars, startVars, memVars, batchVars, threadVars, kind,
                 base, prepared, sent, exits, toclear, frame, frameBase>>

(***************************************************************************)
(* Frames: the loop of main.c.  The frame starts by telling each worker to *)
(* flush its memory before the next task it runs.                          *)
(***************************************************************************)
StartFrame ==
  /\ mpc \in {"setup", "frame"} /\ frame < MaxFrames
  /\ frame' = frame + 1 /\ frameBase' = prepared
  /\ toclear' = FrameClearSet
  /\ mpc' = "clear"
  /\ UNCHANGED <<queueVars, startVars, memVars, batchVars, threadVars, kind,
                 base, prepared, sent, exits>>

FrameClear(t) ==
  /\ mpc = "clear" /\ t \in toclear
  /\ clear' = [clear EXCEPT ![t] = TRUE]
  /\ toclear' = toclear \ {t}
  /\ mpc' = IF toclear = {t} THEN "frame" ELSE "clear"
  /\ UNCHANGED <<queueVars, startVars, mem, batchVars, threadVars, kind, base,
                 prepared, sent, exits, frame, frameBase>>

(***************************************************************************)
(* Batches                                                                 *)
(***************************************************************************)
OpenMeeting ==
  /\ mpc = "setup" /\ prepared = 0 /\ Cardinality(Threads) <= MaxTasks
  /\ kind' = "meeting" /\ completed' = 0 /\ mpc' = "dispatch"
  /\ UNCHANGED <<queueVars, startVars, memVars, threadVars, left, bundle_done,
                 meeting, base, prepared, sent, exits, toclear, frame, frameBase>>

OpenStream ==
  /\ mpc = "frame" /\ prepared < MaxTasks
  /\ kind' = "stream" /\ completed' = 0 /\ mpc' = "dispatch"
  /\ UNCHANGED <<queueVars, startVars, memVars, threadVars, left, bundle_done,
                 meeting, base, prepared, sent, exits, toclear, frame, frameBase>>

StreamDispatch ==
  /\ mpc = "dispatch"
  /\ IF kind = "meeting" THEN TaskCount < Cardinality(Threads) ELSE prepared < MaxTasks
  /\ prepared' = prepared + 1 /\ mpc' = "push"
  /\ UNCHANGED <<queueVars, startVars, memVars, batchVars, threadVars, kind,
                 base, sent, exits, toclear, frame, frameBase>>

SplitBundle(splits) ==
  /\ mpc = "frame" /\ prepared + splits <= MaxTasks
  /\ kind' = "bundle" /\ prepared' = prepared + splits
  /\ left' = splits /\ mpc' = "push"
  /\ UNCHANGED <<queueVars, startVars, memVars, threadVars, completed,
                 bundle_done, meeting, base, sent, exits, toclear, frame, frameBase>>

(* FifoSpmcPush spins until the queue has a free entry.                    *)
PushTask ==
  /\ mpc = "push"
  /\ Q!Enqueue(sent + 1)
  /\ sent' = sent + 1
  /\ mpc' = IF sent + 1 < prepared THEN "push"
            ELSE IF kind = "bundle" THEN "wait" ELSE "dispatch"
  /\ UNCHANGED <<startVars, memVars, batchVars, threadVars, kind, base,
                 prepared, exits, toclear, frame, frameBase>>

StartHelping ==
  /\ mpc = "dispatch"
  /\ kind = "meeting" => TaskCount = Cardinality(Threads)
  /\ mpc' = "help"
  /\ UNCHANGED <<queueVars, startVars, memVars, batchVars, threadVars, kind,
                 base, prepared, sent, exits, toclear, frame, frameBase>>

(* The semaphore has no token left: whatever is still queued has been      *)
(* reserved by workers that are about to pop it.                           *)
StopHelping ==
  /\ mpc = "help" /\ pc[Master] = "idle"
  /\ Len(queue) <= Cardinality({w \in Workers : pc[w] = "idle"})
  /\ mpc' = "spin"
  /\ UNCHANGED <<queueVars, startVars, memVars, batchVars, threadVars, kind,
                 base, prepared, sent, exits, toclear, frame, frameBase>>

SpinWait ==
  /\ mpc = "spin" /\ StreamDone
  /\ mpc' = "results"
  /\ UNCHANGED <<queueVars, startVars, memVars, batchVars, threadVars, kind,
                 base, prepared, sent, exits, toclear, frame, frameBase>>

BundleWait ==
  /\ mpc = "wait" /\ bundle_done > 0
  /\ bundle_done' = bundle_done - 1 /\ left' = 0
  /\ mpc' = "results"
  /\ UNCHANGED <<queueVars, startVars, memVars, threadVars, completed, meeting,
                 kind, base, prepared, sent, exits, toclear, frame, frameBase>>

(* The caller reads the results; then the memory of the batch is reused.   *)
CloseBatch ==
  /\ mpc = "results"
  /\ kind' = "none" /\ base' = prepared
  /\ mpc' = IF kind = "meeting" THEN "setup" ELSE "frame"
  /\ UNCHANGED <<queueVars, startVars, memVars, batchVars, threadVars, prepared,
                 sent, exits, toclear, frame, frameBase>>

(***************************************************************************)
(* Shutdown: one exit task per worker, then a join of each.                *)
(***************************************************************************)
StartShutdown ==
  /\ mpc = "frame" /\ frame = MaxFrames
  /\ mpc' = "exit"
  /\ UNCHANGED <<queueVars, startVars, memVars, batchVars, threadVars, kind,
                 base, prepared, sent, exits, toclear, frame, frameBase>>

PushExit ==
  /\ mpc = "exit" /\ exits < ExitCount
  /\ Q!Enqueue(ExitTask(exits + 1))
  /\ exits' = exits + 1
  /\ UNCHANGED <<startVars, memVars, batchVars, threadVars, mpc, kind, base,
                 prepared, sent, toclear, frame, frameBase>>

StartJoin ==
  /\ mpc = "exit" /\ exits = ExitCount
  /\ mpc' = "join"
  /\ UNCHANGED <<queueVars, startVars, memVars, batchVars, threadVars, kind,
                 base, prepared, sent, exits, toclear, frame, frameBase>>

(* Every worker's memory is freed and the queue is destroyed.              *)
Destroy ==
  /\ mpc = "join" /\ JoinedAll
  /\ mpc' = "destroyed"
  /\ mem' = [t \in Threads |-> {}]
  /\ UNCHANGED <<queueVars, startVars, clear, batchVars, threadVars, kind,
                 base, prepared, sent, exits, toclear, frame, frameBase>>

(***************************************************************************)
(* task_run, by a worker in task_main or by the helping main thread.       *)
(***************************************************************************)
Take(t) ==
  /\ pc[t] = "idle"
  /\ t = Master => mpc = "help"
  /\ Q!Dequeue(t)
  /\ pc' = [pc EXCEPT ![t] = "pop"]
  /\ UNCHANGED <<startVars, memVars, batchVars, masterVars, cur, ran>>

PopReturn(t) ==
  /\ pc[t] = "pop"
  /\ cur' = [cur EXCEPT ![t] = held[t]]
  /\ Q!HandBack(t)
  /\ pc' = [pc EXCEPT ![t] = "run"]
  /\ UNCHANGED <<startVars, memVars, batchVars, masterVars, ran>>

FlushFrame(t) ==
  /\ pc[t] = "run" /\ clear[t]
  /\ mem' = [mem EXCEPT ![t] = {}]
  /\ pc' = [pc EXCEPT ![t] = "flushed"]
  /\ UNCHANGED <<queueVars, startVars, clear, batchVars, masterVars, cur, ran>>

ResetFlag(t) ==
  /\ pc[t] = "flushed"
  /\ clear' = [clear EXCEPT ![t] = FlagAfterFlush]
  /\ pc' = [pc EXCEPT ![t] = "work"]
  /\ UNCHANGED <<queueVars, startVars, mem, batchVars, masterVars, cur, ran>>

SkipFlush(t) ==
  /\ pc[t] = "run" /\ ~clear[t]
  /\ pc' = [pc EXCEPT ![t] = "work"]
  /\ UNCHANGED <<queueVars, startVars, memVars, batchVars, masterVars, cur, ran>>

(* task_info->task(task_info), for a task of a batch.                      *)
RunTask(t) ==
  /\ pc[t] = "work" /\ cur[t] <= MaxTasks
  /\ ran' = [ran EXCEPT ![cur[t]] = @ + 1]
  /\ mem' = [mem EXCEPT ![t] = @ \cup {cur[t]}]
  /\ IF kind = "meeting"
       THEN meeting' = meeting + 1 /\ pc' = [pc EXCEPT ![t] = "meet"]
       ELSE UNCHANGED meeting /\ pc' = [pc EXCEPT ![t] = "count"]
  /\ UNCHANGED <<queueVars, startVars, clear, completed, left, bundle_done,
                 masterVars, cur>>

LeaveMeeting(t) ==
  /\ pc[t] = "meet" /\ MeetingFull
  /\ pc' = [pc EXCEPT ![t] = "count"]
  /\ UNCHANGED <<queueVars, startVars, memVars, batchVars, masterVars, cur, ran>>

(* worker_exit, which does not return.                                     *)
RunExit(t) ==
  /\ pc[t] = "work" /\ cur[t] > MaxTasks
  /\ ran' = [ran EXCEPT ![cur[t]] = @ + 1]
  /\ pc' = [pc EXCEPT ![t] = "exited"]
  /\ UNCHANGED <<queueVars, startVars, memVars, batchVars, masterVars, cur>>

CountStream(t) ==
  /\ pc[t] = "count" /\ kind # "bundle"
  /\ completed' = completed + 1
  /\ pc' = [pc EXCEPT ![t] = "idle"]
  /\ cur' = [cur EXCEPT ![t] = NoTask]
  /\ UNCHANGED <<queueVars, startVars, memVars, left, bundle_done, meeting,
                 masterVars, ran>>

CountBundle(t) ==
  /\ pc[t] = "count" /\ kind = "bundle"
  /\ left' = left - 1
  /\ pc' = [pc EXCEPT ![t] = IF LastOfBundle(left - 1) THEN "post" ELSE "idle"]
  /\ cur' = [cur EXCEPT ![t] = NoTask]
  /\ UNCHANGED <<queueVars, startVars, memVars, completed, bundle_done, meeting,
                 masterVars, ran>>

PostBundle(t) ==
  /\ pc[t] = "post"
  /\ bundle_done' = bundle_done + 1
  /\ pc' = [pc EXCEPT ![t] = "idle"]
  /\ UNCHANGED <<queueVars, startVars, memVars, completed, left, meeting,
                 masterVars, cur, ran>>

-------------------------------------------------------------------------------
MasterStep ==
  \/ PublishStartup \/ AwaitWorkers
  \/ StartFrame \/ (\E t \in Threads : FrameClear(t))
  \/ OpenMeeting \/ OpenStream \/ StreamDispatch
  \/ (\E n \in BundleSizes : SplitBundle(n))
  \/ PushTask \/ StartHelping \/ StopHelping
  \/ SpinWait \/ BundleWait \/ CloseBatch
  \/ StartShutdown \/ PushExit \/ StartJoin \/ Destroy

RunStep(t) ==
  \/ Take(t) \/ PopReturn(t)
  \/ FlushFrame(t) \/ ResetFlag(t) \/ SkipFlush(t)
  \/ RunTask(t) \/ LeaveMeeting(t) \/ RunExit(t)
  \/ CountStream(t) \/ CountBundle(t) \/ PostBundle(t)

WorkerStep(w) == WorkerRegister(w) \/ WorkerReady(w) \/ RunStep(w)

Finished == mpc = "destroyed" /\ UNCHANGED vars

Next ==
  \/ MasterStep \/ RunStep(Master)
  \/ \E w \in Workers : WorkerStep(w)
  \/ Finished

Spec == Init /\ [][Next]_vars

(* The operating system runs every thread.  The main thread does not stay  *)
(* in one frame for ever (a tick opens two streams, some of them empty),   *)
(* and the bound MaxFrames stands for the user closing the editor.         *)
FairSpec ==
  /\ Spec
  /\ WF_vars(MasterStep) /\ WF_vars(RunStep(Master))
  /\ SF_vars(StartFrame) /\ SF_vars(StartShutdown)
  /\ \A w \in Workers : WF_vars(WorkerStep(w))

-------------------------------------------------------------------------------
(* Properties *)

Batch == base + 1 .. prepared

(* The threads inside task_run, where the task and its batch are used.     *)
InTask == {t \in Threads : pc[t] \in {"run", "flushed", "work", "meet", "count"}}

(* The threads between counting a bundle down to zero and its post.        *)
Posters == {t \in Threads : pc[t] = "post"}

TypeOK ==
  /\ queue \in Seq(AllTasks) /\ held \in [Threads -> AllTasks \cup {NoTask}]
  /\ startup \in 0 .. Cardinality(Workers) + 1 /\ known \subseteq Workers
  /\ clear \in [Threads -> BOOLEAN]
  /\ mem \in [Threads -> SUBSET AllTasks]
  /\ completed \in 0 .. MaxTasks /\ left \in 0 .. MaxTasks
  /\ bundle_done \in {0, 1} /\ meeting \in 0 .. Cardinality(Threads)
  /\ mpc \in {"publish", "await", "setup", "clear", "frame", "dispatch", "push",
              "help", "spin", "wait", "results", "exit", "join", "destroyed"}
  /\ kind \in {"none", "meeting", "stream", "bundle"}
  /\ base \in 0 .. MaxTasks /\ prepared \in 0 .. MaxTasks /\ sent \in 0 .. MaxTasks
  /\ exits \in 0 .. Cardinality(Workers)
  /\ toclear \subseteq Threads /\ frame \in 0 .. MaxFrames
  /\ pc \in [Threads -> {"starting", "registered", "idle", "pop", "run", "flushed",
                         "work", "meet", "count", "post", "exited"}]
  /\ cur \in [Threads -> AllTasks \cup {NoTask}]
  /\ ran \in [AllTasks -> Nat] /\ frameBase \in 0 .. MaxTasks

(* "all tasks must have been dispatched and completed" (the assertion of   *)
(* task_stream_cleanup, and the wait on a bundle): when the main thread    *)
(* goes on, each task of the batch has run once, the queue holds none of   *)
(* them, no thread is still inside one and none has still to post the      *)
(* semaphore of a bundle.                                                  *)
BatchComplete ==
  mpc = "results" =>
    /\ \A k \in Batch : ran[k] = 1
    /\ kind # "bundle" => completed = TaskCount
    /\ queue = <<>> /\ InTask = {} /\ Posters = {}

(* The results of a batch are in the workers' memory when the main thread  *)
(* reads them: no worker has flushed its memory within the frame.          *)
ResultsPresent ==
  mpc = "results" => \A k \in Batch : \E t \in Threads : k \in mem[t]

(* A task starts on memory that holds nothing of an earlier frame, the     *)
(* main thread's own included.                                             *)
FreshFrameMemory ==
  \A t \in Threads : pc[t] = "work" => \A k \in mem[t] : k > frameBase

(* Nobody uses a task or a stream whose memory the main thread has taken   *)
(* back: who is inside task_run has a task of the open batch, or an exit   *)
(* task, and who is to post the semaphore of a bundle posts to the main    *)
(* thread that waits for it.                                               *)
NoUseAfterReuse ==
  /\ \A t \in InTask : cur[t] \in Batch \/ cur[t] > MaxTasks
  /\ Posters # {} => kind = "bundle" /\ mpc = "wait"

(* A meeting reaches every thread exactly once, so each sets its own       *)
(* tl_debug.                                                               *)
MeetingReachesAll ==
  mpc = "results" /\ kind = "meeting" =>
    \A t \in Threads : Cardinality(mem[t]) = 1

(* A worker that is joined has stored its thr, and when the arenas and the *)
(* queue are destroyed every worker has left through an exit task of its   *)
(* own and the queue is empty.                                             *)
QuietShutdown ==
  /\ mpc \in {"exit", "join"} => known = Workers
  /\ mpc = "destroyed" =>
       /\ \A w \in Workers : pc[w] = "exited"
       /\ queue = <<>>
       /\ \A n \in 1 .. Cardinality(Workers) : ran[ExitTask(n)] = 1

(* The engine shuts down: no wait of the start-up, of a stream, a bundle,  *)
(* a meeting or a join lasts for ever.                                     *)
Terminates == <>(mpc = "destroyed")

(***************************************************************************)
(* The inductive invariant.  A task that was pushed is in one place: in    *)
(* the queue, with the thread that has popped or runs it, or done.         *)
(***************************************************************************)
Queued(k) == \E i \in 1 .. Len(queue) : queue[i] = k
Holds(t, k) ==
  \/ pc[t] = "pop" /\ held[t] = k
  \/ (t \in InTask \/ pc[t] = "exited") /\ cur[t] = k
Nowhere(k) == ~Queued(k) /\ \A t \in Threads : ~Holds(t, k)
Pushed(k) == k \in 1 .. sent \/ k \in ExitTask(1) .. ExitTask(exits)
Done == {k \in base + 1 .. sent : Nowhere(k)}

OnePlace ==
  /\ \A i, j \in 1 .. Len(queue) : queue[i] = queue[j] => i = j
  /\ \A k \in AllTasks :
       /\ Queued(k) => /\ Pushed(k) /\ k > base /\ ran[k] = 0
                       /\ \A t \in Threads : ~Holds(t, k)
       /\ \A t \in Threads : Holds(t, k) =>
            /\ Pushed(k) /\ k > base
            /\ ran[k] = IF pc[t] \in {"meet", "count", "exited"} THEN 1 ELSE 0
            /\ \A u \in Threads : Holds(u, k) => t = u
       /\ ran[k] = 0 \/ Pushed(k)
       /\ Pushed(k) /\ Nowhere(k) => ran[k] = 1

(* What a thread holds goes with where it is.                              *)
HandsFollow ==
  \A t \in Threads :
    /\ held[t] # NoTask <=> pc[t] = "pop"
    /\ cur[t] # NoTask <=> t \in InTask \/ pc[t] = "exited"
    /\ pc[t] \in {"meet", "count"} => cur[t] <= MaxTasks
    /\ pc[t] = "exited" => cur[t] > MaxTasks

(* The workers that have told the main thread that they are ready.         *)
Ready == {w \in Workers : pc[w] \notin {"starting", "registered"}}
StartsUp ==
  /\ pc[Master] \notin {"starting", "registered"}
  /\ known = {w \in Workers : pc[w] # "starting"}
  /\ startup = (IF mpc = "publish" THEN 0 ELSE 1) + Cardinality(Ready)
  /\ mpc = "publish" => \A w \in Workers : pc[w] = "starting"
  /\ mpc \notin {"publish", "await"} => Ready = Workers

(* The main thread's counters and batch go with where it is.               *)
Phases ==
  /\ frameBase <= base /\ base <= sent /\ sent <= prepared
  /\ mpc = "push" <=> sent # prepared
  /\ mpc = "push" /\ kind # "bundle" => prepared = sent + 1
  /\ kind = "none" <=> mpc \in {"publish", "await", "setup", "clear", "frame", "exit",
                                "join", "destroyed"}
  /\ kind = "none" => base = prepared
  /\ kind = "bundle" => mpc \in {"push", "wait", "results"}
  /\ mpc = "wait" => kind = "bundle"
  /\ mpc \notin {"exit", "join", "destroyed"} => exits = 0
  /\ mpc \in {"join", "destroyed"} => exits = Cardinality(Workers)
  /\ mpc = "destroyed" => \A w \in Workers : pc[w] = "exited"
  /\ mpc # "help" => pc[Master] = "idle"
  /\ mpc = "clear" => frameBase = prepared
  /\ mpc # "clear" => toclear = {}

(* The counters of a batch count its tasks that are done.                  *)
Counted ==
  /\ kind \in {"stream", "meeting"} => completed = Cardinality(Done)
  /\ kind = "bundle" => left = TaskCount - Cardinality(Done)
  /\ mpc = "results" => Done = Batch

(* A bundle is posted once, by the thread that counted its last task.      *)
PostedOnce ==
  /\ \A t \in Threads : pc[t] = "post" =>
       bundle_done = 0 /\ \A u \in Threads : pc[u] = "post" => t = u
  /\ bundle_done = 1 \/ (\E t \in Threads : pc[t] = "post") => mpc = "wait" /\ left = 0

(* At the meeting, who has run a task stays until everybody has.           *)
Met == {t \in Threads : mem[t] # {}}
OneTaskEach ==
  /\ prepared = 0 => meeting = 0
  /\ kind = "meeting" =>
       /\ base = 0 /\ prepared <= Cardinality(Threads) /\ Cardinality(Threads) <= MaxTasks
       /\ meeting = Cardinality(Met)
       /\ \A t \in Threads : \A j, k \in mem[t] : j = k
       /\ \A t \in Threads : pc[t] \in {"meet", "count"} => t \in Met
       /\ (\E t \in Met : pc[t] # "meet") \/ completed > 0 => Met = Threads
       /\ mpc \in {"help", "spin", "results"} => prepared = Cardinality(Threads)

(* The memory of the threads holds what they ran in this frame, and of     *)
(* earlier frames only what they are still to flush.                       *)
MemoryFollows ==
  /\ mpc # "destroyed" =>
       \A k \in frameBase + 1 .. MaxTasks : ran[k] = 1 => \E t \in Threads : k \in mem[t]
  /\ \A t \in Threads : \A k \in mem[t] :
       k \in 1 .. sent /\ ran[k] = 1 /\ \A u \in Threads : k \in mem[u] => t = u
  /\ \A t \in Threads :
       /\ clear[t] => \A k \in mem[t] : k <= frameBase
       /\ pc[t] \in {"work", "meet", "count"} => ~clear[t]
       /\ pc[t] = "flushed" \/ (~clear[t] /\ t \notin toclear) =>
            \A k \in mem[t] : k > frameBase

IInv ==
  /\ TypeOK
  /\ OnePlace /\ HandsFollow
  /\ StartsUp /\ Phases
  /\ Counted /\ PostedOnce
  /\ OneTaskEach /\ MemoryFollows
===============================================================================
