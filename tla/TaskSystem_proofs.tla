-------------------------- MODULE TaskSystem_proofs --------------------------
(***************************************************************************)
(* Proofs about TaskSystem for any number of workers and tasks, any length *)
(* of the queue, any number of frames and any sizes of bundles.            *)
(***************************************************************************)
EXTENDS TaskSystem, FiniteSetTheorems, TLAPS

-------------------------------------------------------------------------------
(* Threads and tasks *)

(* The main thread is one thread more than the workers.                    *)
LEMMA Sizes ==
  /\ IsFiniteSet(Workers) /\ IsFiniteSet(Threads)
  /\ Cardinality(Workers) \in Nat /\ Cardinality(Workers) > 0
  /\ Cardinality(Threads) = Cardinality(Workers) + 1
  /\ MaxTasks \in Nat /\ MaxFrames \in Nat
  /\ Master \in Threads /\ Workers \subseteq Threads
<1>1. IsFiniteSet(Workers) /\ Cardinality(Workers) \in Nat /\ Cardinality(Workers) # 0
  BY TaskThreadAssumption, FS_CardinalityType, FS_EmptySet
<1>2. IsFiniteSet(Threads) /\ Cardinality(Threads) = Cardinality(Workers) + 1
  BY <1>1, TaskThreadAssumption, FS_AddElement DEF Threads
<1>3. Cardinality(Workers) > 0
  BY <1>1
<1> QED
  BY <1>1, <1>2, <1>3, TaskBoundAssumption DEF Threads

(* The numbers of batch tasks and those of exit tasks are apart.           *)
LEMMA TaskNumbers ==
  ASSUME TypeOK, NEW k
  PROVE  /\ k \in 1 .. sent => k \in AllTasks /\ k <= MaxTasks
         /\ k \in ExitTask(1) .. ExitTask(exits) => k \in AllTasks /\ k > MaxTasks
         /\ Pushed(k) => k \in AllTasks /\ k # NoTask
         /\ Pushed(k) /\ (exits = 0 \/ k <= MaxTasks) => k \in 1 .. sent /\ k <= MaxTasks
<1>1. sent \in 0 .. MaxTasks /\ exits \in 0 .. Cardinality(Workers)
      /\ MaxTasks \in Nat /\ Cardinality(Workers) \in Nat
  BY Sizes DEF TypeOK
<1> QED
  BY <1>1 DEF Pushed, AllTasks, ExitTask, NoTask

(* What a thread holds is a task that was pushed in the open batch, or an  *)
(* exit task.                                                              *)
LEMMA HeldTask ==
  ASSUME IInv, NEW t \in Threads, NEW k, Holds(t, k)
  PROVE  /\ k \in AllTasks /\ Pushed(k) /\ k > base
         /\ ran[k] = IF pc[t] \in {"meet", "count", "exited"} THEN 1 ELSE 0
         /\ ~Queued(k) /\ \A u \in Threads : Holds(u, k) => t = u
         /\ k <= MaxTasks \/ exits = 0 => k \in base + 1 .. sent /\ k \in Batch
<1>1. k \in AllTasks
  BY DEF IInv, TypeOK, HandsFollow, Holds
<1>2. /\ Pushed(k) /\ k > base
      /\ ran[k] = IF pc[t] \in {"meet", "count", "exited"} THEN 1 ELSE 0
      /\ ~Queued(k) /\ \A u \in Threads : Holds(u, k) => t = u
  BY <1>1 DEF IInv, OnePlace
<1>3. k <= MaxTasks \/ exits = 0 => k \in base + 1 .. sent /\ k \in Batch
  <2>1. k <= MaxTasks \/ exits = 0 => k \in 1 .. sent
    BY <1>2, TaskNumbers DEF IInv
  <2>2. base \in Nat /\ sent \in Nat /\ prepared \in Nat /\ sent <= prepared
    BY Sizes DEF IInv, TypeOK, Phases
  <2> QED
    BY <1>2, <2>1, <2>2 DEF Batch
<1> QED
  BY <1>1, <1>2, <1>3

(* The task of a thread inside task_run.                                   *)
LEMMA TaskInHand ==
  ASSUME IInv, NEW t \in Threads, t \in InTask
  PROVE  /\ Holds(t, cur[t]) /\ cur[t] \in AllTasks /\ Pushed(cur[t]) /\ cur[t] > base
         /\ cur[t] <= MaxTasks \/ exits = 0 =>
              cur[t] \in base + 1 .. sent /\ cur[t] \in Batch /\ cur[t] <= MaxTasks
<1>1. Holds(t, cur[t])
  BY DEF Holds
<1>2. TypeOK
  BY DEF IInv
<1> QED
  BY <1>1, <1>2, HeldTask, TaskNumbers

(* Between batches no task of a batch is anywhere, and before the shutdown *)
(* no task at all.                                                         *)
LEMMA NothingBetween ==
  ASSUME IInv, kind = "none"
  PROVE  /\ \A k \in 1 .. MaxTasks : Nowhere(k)
         /\ exits = 0 => /\ queue = <<>> /\ InTask = {} /\ \A k : Nowhere(k)
<1>1. base = sent /\ base \in Nat /\ TypeOK /\ OnePlace
  BY Sizes DEF IInv, TypeOK, Phases
<1>2. ASSUME NEW t \in Threads, NEW k, Holds(t, k), k \in 1 .. MaxTasks \/ exits = 0
      PROVE  FALSE
  <2>1. k \in base + 1 .. sent
    BY <1>2, HeldTask, Sizes
  <2> QED
    BY <1>1, <2>1
<1>3. ASSUME NEW k, Queued(k), k \in 1 .. MaxTasks \/ exits = 0
      PROVE  FALSE
  <2>1. k \in AllTasks
    BY <1>1, <1>3 DEF Queued, TypeOK
  <2>2. Pushed(k) /\ k > base
    BY <1>1, <1>3, <2>1 DEF OnePlace
  <2>3. k \in 1 .. sent
    BY <1>1, <1>3, <2>2, TaskNumbers, Sizes
  <2> QED
    BY <1>1, <2>2, <2>3
<1>4. exits = 0 => queue = <<>>
  <2>1. queue # <<>> => 1 \in 1 .. Len(queue)
    BY <1>1 DEF TypeOK
  <2> QED
    BY <1>3, <2>1 DEF Queued
<1>5. exits = 0 => InTask = {}
  <2>1. \A t \in InTask : t \in Threads /\ Holds(t, cur[t])
    BY DEF InTask, Holds
  <2> QED
    BY <1>2, <2>1
<1> QED
  BY <1>2, <1>3, <1>4, <1>5 DEF Nowhere

(* The done tasks of a batch are tasks of it, finitely many.               *)
LEMMA DoneFinite ==
  ASSUME TypeOK, Phases
  PROVE  /\ Done \subseteq base + 1 .. sent /\ Done \subseteq Batch
         /\ IsFiniteSet(Done) /\ Cardinality(Done) \in Nat
         /\ Cardinality(Done) <= sent - base /\ Cardinality(Done) <= TaskCount
         /\ Cardinality(Done) = TaskCount => Done = Batch /\ sent = prepared
<1>1. base \in Nat /\ sent \in Nat /\ prepared \in Nat /\ base <= sent /\ sent <= prepared
  BY Sizes DEF TypeOK, Phases
<1>2. /\ IsFiniteSet(base + 1 .. sent) /\ Cardinality(base + 1 .. sent) = sent - base
      /\ IsFiniteSet(Batch) /\ Cardinality(Batch) = TaskCount
  <2>1. /\ IsFiniteSet(base + 1 .. sent) /\ IsFiniteSet(base + 1 .. prepared)
        /\ Cardinality(base + 1 .. sent) =
             IF base + 1 > sent THEN 0 ELSE sent - (base + 1) + 1
        /\ Cardinality(base + 1 .. prepared) =
             IF base + 1 > prepared THEN 0 ELSE prepared - (base + 1) + 1
    BY <1>1, FS_Interval
  <2> QED
    BY <1>1, <2>1 DEF Batch, TaskCount
<1>3. Done \in SUBSET (base + 1 .. sent) /\ base + 1 .. sent \subseteq Batch
  BY <1>1 DEF Done, Batch
<1>4. IsFiniteSet(Done) /\ Cardinality(Done) \in Nat /\ Cardinality(Done) <= sent - base
  BY <1>2, <1>3, FS_Subset, FS_CardinalityType
<1>5. Cardinality(Done) = TaskCount => Done = Batch
  BY <1>2, <1>3, FS_Subset
<1> QED
  BY <1>1, <1>3, <1>4, <1>5 DEF TaskCount

-------------------------------------------------------------------------------
(* Frames *)

(* Tasks stay where they are if the queue and the hands of the threads do. *)
LEMMA PlaceFrame ==
  ASSUME IInv, UNCHANGED <<queue, held, pc, cur, ran, sent, exits, base>>
  PROVE  OnePlace' /\ HandsFollow' /\ Done' = Done
<1>1. \A k : Queued(k)' <=> Queued(k)
  BY DEF Queued
<1>2. \A t, k : Holds(t, k)' <=> Holds(t, k)
  BY DEF Holds, InTask
<1>3. \A k : Nowhere(k)' <=> Nowhere(k)
  BY <1>1, <1>2 DEF Nowhere
<1>4. \A k : Pushed(k)' <=> Pushed(k)
  BY DEF Pushed, ExitTask
<1>5. OnePlace'
  BY <1>1, <1>2, <1>3, <1>4 DEF IInv, OnePlace
<1>6. HandsFollow'
  BY DEF IInv, HandsFollow, InTask
<1> QED
  BY <1>3, <1>5, <1>6 DEF Done

(* Once the workers are ready they stay so.                                *)
LEMMA ReadyFrame ==
  ASSUME IInv, UNCHANGED <<pc, known, startup>>,
         mpc \notin {"publish", "await"}, mpc' \notin {"publish", "await"}
  PROVE  StartsUp'
  BY DEF IInv, StartsUp, Ready

(* A step of the main thread within a batch that pushes nothing.           *)
LEMMA BatchFrame ==
  ASSUME IInv, UNCHANGED <<queue, held, pc, cur, ran, sent, exits, base>>,
         UNCHANGED <<known, startup, clear, mem, completed, left, bundle_done, meeting>>,
         UNCHANGED <<kind, prepared, toclear, frameBase>>,
         mpc \notin {"publish", "await", "wait", "destroyed"},
         mpc' \notin {"publish", "await", "wait", "destroyed"},
         mpc' = "results" => Done = Batch,
         kind = "meeting" /\ mpc' \in {"help", "spin", "results"} =>
           prepared = Cardinality(Threads)
  PROVE  /\ OnePlace' /\ HandsFollow' /\ StartsUp' /\ Counted' /\ PostedOnce'
         /\ OneTaskEach' /\ MemoryFollows'
<1>1. OnePlace' /\ HandsFollow' /\ Done' = Done
  BY PlaceFrame
<1>2. StartsUp'
  BY ReadyFrame
<1>3. Counted'
  BY <1>1 DEF IInv, Counted, TaskCount, Batch
<1>4. PostedOnce'
  BY DEF IInv, PostedOnce
<1>5. OneTaskEach'
  BY DEF IInv, OneTaskEach, Met
<1>6. MemoryFollows'
  BY DEF IInv, MemoryFollows
<1> QED
  BY <1>1, <1>2, <1>3, <1>4, <1>5, <1>6

-------------------------------------------------------------------------------
(* Start-up *)

(* startup goes from 0 to 1: the workers may register.                     *)
LEMMA PublishStartupIInv ==
  ASSUME IInv, PublishStartup
  PROVE  IInv'
<1>1. /\ mpc = "publish" /\ startup' = 1 /\ mpc' = "await"
      /\ UNCHANGED <<queue, held, pc, cur, ran, sent, exits, base, known, clear, mem,
                     completed, left, bundle_done, meeting, kind, prepared, toclear,
                     frame, frameBase>>
  BY DEF PublishStartup, queueVars, memVars, batchVars, threadVars
<1>2. TypeOK'
  BY <1>1, Sizes DEF IInv, TypeOK
<1>3. OnePlace' /\ HandsFollow' /\ Done' = Done
  BY <1>1, PlaceFrame
<1>4. StartsUp'
  <2>1. Ready = {} /\ Ready' = Ready
    BY <1>1 DEF IInv, StartsUp, Ready
  <2>2. Cardinality(Ready') = 0
    BY <2>1, FS_EmptySet
  <2> QED
    BY <1>1, <2>2 DEF IInv, StartsUp
<1>5. Phases'
  BY <1>1 DEF IInv, Phases
<1>6. Counted' /\ PostedOnce' /\ OneTaskEach' /\ MemoryFollows'
  BY <1>1, <1>3 DEF IInv, Phases, Counted, PostedOnce, OneTaskEach, Met, MemoryFollows
<1> QED
  BY <1>2, <1>3, <1>4, <1>5, <1>6 DEF IInv

(* A worker has seen startup set and stores its thr.                       *)
LEMMA WorkerRegisterIInv ==
  ASSUME IInv, NEW w \in Workers, WorkerRegister(w)
  PROVE  IInv'
<1>1. TypeOK /\ w \in Threads /\ w # Master
  BY TaskThreadAssumption, Sizes DEF IInv
<1>2. /\ pc[w] = "starting" /\ startup # 0 /\ known' = known \cup {w}
      /\ pc' = [pc EXCEPT ![w] = "registered"]
      /\ UNCHANGED <<queue, held, cur, ran, sent, exits, base, startup, clear, mem,
                     completed, left, bundle_done, meeting, mpc, kind, prepared, toclear,
                     frame, frameBase>>
  BY DEF WorkerRegister, queueVars, memVars, batchVars, masterVars
<1>3. pc'[w] = "registered" /\ \A u \in Threads \ {w} : pc'[u] = pc[u]
  BY <1>1, <1>2 DEF TypeOK
<1>4. TypeOK'
  BY <1>1, <1>2 DEF TypeOK
<1>5. InTask' = InTask
  BY <1>2, <1>3 DEF InTask
<1>6. \A t \in Threads : \A k : Holds(t, k)' <=> Holds(t, k)
  BY <1>2, <1>3, <1>5 DEF Holds
<1>7. \A k : (Queued(k)' <=> Queued(k)) /\ (Pushed(k)' <=> Pushed(k))
  BY <1>2 DEF Queued, Pushed, ExitTask
<1>8. \A k : Nowhere(k)' <=> Nowhere(k)
  BY <1>6, <1>7 DEF Nowhere
<1>9. Done' = Done
  BY <1>2, <1>8 DEF Done
<1>10. OnePlace'
  <2>1. \A t \in Threads :
          pc'[t] \in {"meet", "count", "exited"} <=> pc[t] \in {"meet", "count", "exited"}
    BY <1>2, <1>3
  <2> QED
    BY <1>2, <1>6, <1>7, <1>8, <2>1 DEF IInv, OnePlace
<1>11. HandsFollow'
  BY <1>2, <1>3, <1>5 DEF IInv, HandsFollow
<1>12. mpc = "await"
  <2>1. w \notin Ready /\ IsFiniteSet(Ready)
    BY <1>2, Sizes, FS_Subset DEF Ready
  <2>2. mpc # "publish"
    <3>1. mpc = "publish" => Ready = {}
      BY DEF IInv, StartsUp, Ready
    <3> QED
      BY <1>2, <3>1, FS_EmptySet DEF IInv, StartsUp
  <2> QED
    BY <2>1, <2>2 DEF IInv, StartsUp
<1>13. StartsUp'
  <2>1. Ready' = Ready
    BY <1>1, <1>2, <1>3, Sizes DEF Ready
  <2>2. known' = {u \in Workers : pc'[u] # "starting"}
    BY <1>1, <1>2, <1>3, Sizes DEF IInv, StartsUp
  <2> QED
    BY <1>1, <1>2, <1>3, <1>12, <2>1, <2>2, Sizes DEF IInv, StartsUp
<1>14. Phases' /\ Counted' /\ PostedOnce'
  BY <1>1, <1>2, <1>3, <1>9, <1>12, Sizes
     DEF IInv, Phases, Counted, PostedOnce, TaskCount, Batch
<1>15. OneTaskEach' /\ MemoryFollows'
  BY <1>2, <1>3, <1>12 DEF IInv, Phases, OneTaskEach, Met, MemoryFollows
<1> QED
  BY <1>4, <1>10, <1>11, <1>13, <1>14, <1>15 DEF IInv

(* A worker reports that it is ready.                                      *)
LEMMA WorkerReadyIInv ==
  ASSUME IInv, NEW w \in Workers, WorkerReady(w)
  PROVE  IInv'
<1>1. TypeOK /\ w \in Threads /\ w # Master
  BY TaskThreadAssumption, Sizes DEF IInv
<1>2. /\ pc[w] = "registered" /\ startup' = startup + 1
      /\ pc' = [pc EXCEPT ![w] = "idle"]
      /\ UNCHANGED <<queue, held, cur, ran, sent, exits, base, known, clear, mem,
                     completed, left, bundle_done, meeting, mpc, kind, prepared, toclear,
                     frame, frameBase>>
  BY DEF WorkerReady, queueVars, memVars, batchVars, masterVars
<1>3. pc'[w] = "idle" /\ \A u \in Threads \ {w} : pc'[u] = pc[u]
  BY <1>1, <1>2 DEF TypeOK
<1>4. mpc = "await"
  BY <1>2 DEF IInv, StartsUp, Ready
<1>5. Ready' = Ready \cup {w} /\ w \notin Ready
  BY <1>1, <1>2, <1>3, Sizes DEF Ready
<1>6. /\ IsFiniteSet(Ready) /\ Cardinality(Ready') = Cardinality(Ready) + 1
      /\ Cardinality(Ready) \in Nat /\ Cardinality(Ready') <= Cardinality(Workers)
  <2>1. IsFiniteSet(Ready)
    BY Sizes, FS_Subset DEF Ready
  <2>2. Ready' \in SUBSET Workers
    BY <1>5 DEF Ready
  <2> QED
    BY <1>5, <2>1, <2>2, Sizes, FS_AddElement, FS_CardinalityType, FS_Subset
<1>7. startup' = 1 + Cardinality(Ready') /\ startup' \in 0 .. Cardinality(Workers) + 1
  BY <1>2, <1>4, <1>6, Sizes DEF IInv, StartsUp
<1>8. TypeOK'
  BY <1>1, <1>2, <1>7 DEF TypeOK
<1>9. InTask' = InTask
  BY <1>2, <1>3 DEF InTask
<1>10. \A t \in Threads : \A k : Holds(t, k)' <=> Holds(t, k)
  BY <1>2, <1>3, <1>9 DEF Holds
<1>11. \A k : (Queued(k)' <=> Queued(k)) /\ (Pushed(k)' <=> Pushed(k))
  BY <1>2 DEF Queued, Pushed, ExitTask
<1>12. \A k : Nowhere(k)' <=> Nowhere(k)
  BY <1>10, <1>11 DEF Nowhere
<1>13. Done' = Done
  BY <1>2, <1>12 DEF Done
<1>14. OnePlace'
  <2>1. \A t \in Threads :
          pc'[t] \in {"meet", "count", "exited"} <=> pc[t] \in {"meet", "count", "exited"}
    BY <1>2, <1>3
  <2> QED
    BY <1>2, <1>10, <1>11, <1>12, <2>1 DEF IInv, OnePlace
<1>15. HandsFollow'
  BY <1>2, <1>3, <1>9 DEF IInv, HandsFollow
<1>16. StartsUp'
  <2>1. known' = {u \in Workers : pc'[u] # "starting"}
    BY <1>1, <1>2, <1>3, Sizes DEF IInv, StartsUp
  <2> QED
    BY <1>1, <1>2, <1>3, <1>4, <1>7, <2>1, Sizes DEF IInv, StartsUp
<1>17. Phases' /\ Counted' /\ PostedOnce'
  BY <1>1, <1>2, <1>3, <1>4, <1>13, Sizes
     DEF IInv, Phases, Counted, PostedOnce, TaskCount, Batch
<1>18. OneTaskEach' /\ MemoryFollows'
  BY <1>2, <1>3, <1>4 DEF IInv, Phases, OneTaskEach, Met, MemoryFollows
<1> QED
  BY <1>8, <1>14, <1>15, <1>16, <1>17, <1>18 DEF IInv

(* The main thread goes on when the count is full: all workers are ready.  *)
LEMMA AwaitWorkersIInv ==
  ASSUME IInv, AwaitWorkers
  PROVE  IInv'
<1>1. /\ mpc = "await" /\ startup >= Cardinality(Workers) + 1 /\ mpc' = "setup"
      /\ UNCHANGED <<queue, held, pc, cur, ran, sent, exits, base, known, startup, clear,
                     mem, completed, left, bundle_done, meeting, kind, prepared, toclear,
                     frame, frameBase>>
  BY DEF AwaitWorkers, StartupTarget, queueVars, startVars, memVars, batchVars, threadVars
<1>2. TypeOK'
  BY <1>1 DEF IInv, TypeOK
<1>3. OnePlace' /\ HandsFollow' /\ Done' = Done
  BY <1>1, PlaceFrame
<1>4. Ready = Workers
  <2>1. Ready \in SUBSET Workers
    BY DEF Ready
  <2>2. Cardinality(Ready) \in Nat /\ Cardinality(Ready) <= Cardinality(Workers)
    BY <2>1, Sizes, FS_Subset, FS_CardinalityType
  <2>3. Cardinality(Ready) = Cardinality(Workers)
    BY <1>1, <2>2, Sizes DEF IInv, StartsUp
  <2> QED
    BY <2>1, <2>3, Sizes, FS_Subset
<1>5. StartsUp'
  BY <1>1, <1>4 DEF IInv, StartsUp, Ready
<1>6. Phases'
  BY <1>1 DEF IInv, Phases
<1>7. Counted' /\ PostedOnce' /\ OneTaskEach' /\ MemoryFollows'
  BY <1>1, <1>3 DEF IInv, Phases, Counted, PostedOnce, OneTaskEach, Met, MemoryFollows
<1> QED
  BY <1>2, <1>3, <1>5, <1>6, <1>7 DEF IInv

-------------------------------------------------------------------------------
(* Frames and batches, opened by the main thread *)

(* All tasks of the earlier frames are done and every thread is outside    *)
(* task_run when a frame starts.                                           *)
LEMMA StartFrameIInv ==
  ASSUME IInv, StartFrame
  PROVE  IInv'
<1>1. /\ mpc \in {"setup", "frame"} /\ frame < MaxFrames /\ frame' = frame + 1
      /\ frameBase' = prepared /\ toclear' = Threads /\ mpc' = "clear"
      /\ UNCHANGED <<queue, held, pc, cur, ran, sent, exits, base, known, startup, clear,
                     mem, completed, left, bundle_done, meeting, kind, prepared>>
  BY DEF StartFrame, FrameClearSet, queueVars, startVars, memVars, batchVars, threadVars
<1>2. /\ kind = "none" /\ exits = 0 /\ base = prepared /\ sent = prepared
      /\ frameBase <= prepared /\ prepared \in Nat /\ frameBase \in Nat
  BY <1>1, Sizes DEF IInv, TypeOK, Phases
<1>3. TypeOK'
  <2>1. frame' \in 0 .. MaxFrames
    BY <1>1, Sizes DEF IInv, TypeOK
  <2> QED
    BY <1>1, <2>1 DEF IInv, TypeOK
<1>4. OnePlace' /\ HandsFollow' /\ Done' = Done
  BY <1>1, PlaceFrame
<1>5. StartsUp'
  BY <1>1, ReadyFrame
<1>6. Phases'
  BY <1>1, <1>2 DEF IInv, Phases
<1>7. Counted' /\ PostedOnce' /\ OneTaskEach'
  BY <1>1, <1>2, <1>4 DEF IInv, Counted, PostedOnce, OneTaskEach, Met, TaskCount, Batch
<1>8. MemoryFollows'
  <2>1. ASSUME NEW k \in frameBase' + 1 .. MaxTasks
        PROVE  ran[k] # 1
    <3>1. k \in AllTasks /\ k <= MaxTasks /\ k \notin 1 .. sent
      BY <1>1, <1>2, Sizes DEF AllTasks
    <3>2. ~Pushed(k)
      BY <1>2, <3>1, TaskNumbers DEF IInv
    <3> QED
      BY <3>1, <3>2 DEF IInv, OnePlace
  <2>2. \A t \in Threads : pc[t] # "flushed"
    BY <1>2, NothingBetween DEF InTask
  <2>3. \A t \in Threads : clear[t] => \A k \in mem[t] : k <= frameBase'
    <3>1. \A t \in Threads : \A k \in mem[t] : k \in Nat
      BY Sizes DEF IInv, TypeOK, AllTasks
    <3> QED
      BY <1>1, <1>2, <3>1 DEF IInv, MemoryFollows
  <2> QED
    BY <1>1, <2>1, <2>2, <2>3 DEF IInv, MemoryFollows
<1> QED
  BY <1>3, <1>4, <1>5, <1>6, <1>7, <1>8 DEF IInv

(* A thread is told to flush: all that its memory holds is of earlier      *)
(* frames, for this one has not dispatched a task.                         *)
LEMMA FrameClearIInv ==
  ASSUME IInv, NEW u \in Threads, FrameClear(u)
  PROVE  IInv'
<1>1. /\ mpc = "clear" /\ u \in toclear /\ clear' = [clear EXCEPT ![u] = TRUE]
      /\ toclear' = toclear \ {u} /\ mpc' = (IF toclear = {u} THEN "frame" ELSE "clear")
      /\ UNCHANGED <<queue, held, pc, cur, ran, sent, exits, base, known, startup, mem,
                     completed, left, bundle_done, meeting, kind, prepared, frame, frameBase>>
  BY DEF FrameClear, queueVars, startVars, batchVars, threadVars
<1>2. /\ kind = "none" /\ exits = 0 /\ frameBase = prepared /\ sent = prepared
      /\ prepared \in Nat /\ mpc' \in {"clear", "frame"}
  BY <1>1, Sizes DEF IInv, TypeOK, Phases
<1>3. clear'[u] = TRUE /\ \A t \in Threads \ {u} : clear'[t] = clear[t]
  BY <1>1 DEF IInv, TypeOK
<1>4. TypeOK'
  BY <1>1, <1>2 DEF IInv, TypeOK
<1>5. OnePlace' /\ HandsFollow' /\ Done' = Done
  BY <1>1, PlaceFrame
<1>6. StartsUp'
  BY <1>1, <1>2, ReadyFrame
<1>7. Phases'
  BY <1>1, <1>2 DEF IInv, Phases
<1>8. Counted' /\ PostedOnce' /\ OneTaskEach'
  BY <1>1, <1>2, <1>5 DEF IInv, Counted, PostedOnce, OneTaskEach, Met, TaskCount, Batch
<1>9. MemoryFollows'
  <2>1. \A t \in Threads : pc[t] \notin {"flushed", "work", "meet", "count"}
    BY <1>2, NothingBetween DEF InTask
  <2>2. \A t \in Threads : \A k \in mem[t] : k <= frameBase
    BY <1>2 DEF IInv, MemoryFollows
  <2>3. \A t \in Threads : ~clear'[t] /\ t \notin toclear' => ~clear[t] /\ t \notin toclear
    BY <1>1, <1>3
  <2>4. mpc # "destroyed" /\ mpc' # "destroyed"
    BY <1>1, <1>2
  <2> QED
    BY <1>1, <2>1, <2>2, <2>3, <2>4 DEF IInv, MemoryFollows
<1> QED
  BY <1>4, <1>5, <1>6, <1>7, <1>8, <1>9 DEF IInv

(* Nothing has been prepared before the meeting: no thread has met.        *)
LEMMA OpenMeetingIInv ==
  ASSUME IInv, OpenMeeting
  PROVE  IInv'
<1>1. /\ mpc = "setup" /\ prepared = 0 /\ kind' = "meeting" /\ completed' = 0
      /\ mpc' = "dispatch" /\ Cardinality(Threads) <= MaxTasks
      /\ UNCHANGED <<queue, held, pc, cur, ran, sent, exits, base, known, startup, clear,
                     mem, left, bundle_done, meeting, prepared, toclear, frame, frameBase>>
  BY DEF OpenMeeting, queueVars, startVars, memVars, threadVars
<1>2. kind = "none" /\ exits = 0 /\ base = 0 /\ sent = 0
  BY <1>1, Sizes DEF IInv, TypeOK, Phases
<1>3. TypeOK'
  BY <1>1, Sizes DEF IInv, TypeOK
<1>4. OnePlace' /\ HandsFollow' /\ Done' = Done
  BY <1>1, PlaceFrame
<1>5. StartsUp'
  BY <1>1, ReadyFrame
<1>6. Phases'
  BY <1>1, <1>2 DEF IInv, Phases
<1>7. Done = {} /\ Cardinality(Done) = 0
  <2>1. base + 1 .. sent = {}
    BY <1>2
  <2>2. Done = {}
    BY <2>1 DEF Done
  <2> QED
    BY <2>2, FS_EmptySet
<1>8. Counted'
  BY <1>1, <1>4, <1>7 DEF Counted
<1>9. PostedOnce'
  BY <1>1 DEF IInv, PostedOnce
<1>10. OneTaskEach'
  <2>1. \A t \in Threads : mem[t] = {}
    BY <1>2 DEF IInv, MemoryFollows
  <2>2. Met = {} /\ Cardinality(Met) = 0
    BY <2>1, FS_EmptySet DEF Met
  <2>3. Met' = Met /\ meeting = 0
    BY <1>1 DEF Met, IInv, OneTaskEach
  <2>4. \A t \in Threads : pc[t] \notin {"meet", "count"}
    BY <1>2, NothingBetween DEF InTask
  <2> QED
    BY <1>1, <1>2, <2>1, <2>2, <2>3, <2>4, Sizes DEF OneTaskEach
<1>11. MemoryFollows'
  BY <1>1 DEF IInv, MemoryFollows
<1> QED
  BY <1>3, <1>4, <1>5, <1>6, <1>8, <1>9, <1>10, <1>11 DEF IInv

(* task_stream_init: no task of the new stream is dispatched.              *)
LEMMA OpenStreamIInv ==
  ASSUME IInv, OpenStream
  PROVE  IInv'
<1>1. /\ mpc = "frame" /\ kind' = "stream" /\ completed' = 0 /\ mpc' = "dispatch"
      /\ UNCHANGED <<queue, held, pc, cur, ran, sent, exits, base, known, startup, clear,
                     mem, left, bundle_done, meeting, prepared, toclear, frame, frameBase>>
  BY DEF OpenStream, queueVars, startVars, memVars, threadVars
<1>2. kind = "none" /\ exits = 0 /\ base = sent /\ sent \in Nat
  BY <1>1, Sizes DEF IInv, TypeOK, Phases
<1>3. TypeOK'
  BY <1>1, Sizes DEF IInv, TypeOK
<1>4. OnePlace' /\ HandsFollow' /\ Done' = Done
  BY <1>1, PlaceFrame
<1>5. StartsUp'
  BY <1>1, ReadyFrame
<1>6. Phases'
  BY <1>1, <1>2 DEF IInv, Phases
<1>7. Done = {} /\ Cardinality(Done) = 0
  <2>1. base + 1 .. sent = {}
    BY <1>2
  <2>2. Done = {}
    BY <2>1 DEF Done
  <2> QED
    BY <2>2, FS_EmptySet
<1>8. Counted'
  BY <1>1, <1>4, <1>7 DEF Counted
<1>9. PostedOnce' /\ OneTaskEach' /\ MemoryFollows'
  BY <1>1 DEF IInv, PostedOnce, OneTaskEach, MemoryFollows
<1> QED
  BY <1>3, <1>4, <1>5, <1>6, <1>8, <1>9 DEF IInv

(* task_stream_dispatch prepares a task.                                   *)
LEMMA StreamDispatchIInv ==
  ASSUME IInv, StreamDispatch
  PROVE  IInv'
<1>1. /\ mpc = "dispatch" /\ prepared' = prepared + 1 /\ mpc' = "push"
      /\ UNCHANGED <<queue, held, pc, cur, ran, sent, exits, base, known, startup, clear,
                     mem, completed, left, bundle_done, meeting, kind, toclear, frame,
                     frameBase>>
      /\ IF kind = "meeting" THEN TaskCount < Cardinality(Threads) ELSE prepared < MaxTasks
  BY DEF StreamDispatch, queueVars, startVars, memVars, batchVars, threadVars
<1>2. /\ kind \in {"stream", "meeting"} /\ sent = prepared /\ base <= prepared
      /\ base \in Nat /\ prepared \in Nat
  BY <1>1, Sizes DEF IInv, TypeOK, Phases
<1>3. prepared' \in 1 .. MaxTasks /\ (kind = "meeting" => prepared' <= Cardinality(Threads))
  <2>1. CASE kind = "meeting"
    <3>1. base = 0 /\ prepared + 1 <= Cardinality(Threads)
      BY <1>1, <1>2, <2>1, Sizes DEF IInv, OneTaskEach, TaskCount
    <3>2. Cardinality(Threads) <= MaxTasks
      BY <2>1 DEF IInv, OneTaskEach
    <3> QED
      BY <1>2, <3>1, <3>2, Sizes, <1>1
  <2>2. CASE kind # "meeting"
    BY <1>1, <1>2, <2>2, Sizes
  <2> QED
    BY <2>1, <2>2
<1>4. TypeOK'
  BY <1>1, <1>3 DEF IInv, TypeOK
<1>5. OnePlace' /\ HandsFollow' /\ Done' = Done
  BY <1>1, PlaceFrame
<1>6. StartsUp'
  BY <1>1, ReadyFrame
<1>7. Phases'
  BY <1>1, <1>2 DEF IInv, Phases
<1>8. Counted' /\ PostedOnce'
  BY <1>1, <1>2, <1>5 DEF IInv, Counted, PostedOnce
<1>9. OneTaskEach'
  BY <1>1, <1>2, <1>3 DEF IInv, OneTaskEach, Met
<1>10. MemoryFollows'
  BY <1>1 DEF IInv, MemoryFollows
<1> QED
  BY <1>4, <1>5, <1>6, <1>7, <1>8, <1>9, <1>10 DEF IInv

(* task_bundle_split_range prepares all the tasks of the bundle at once.   *)
LEMMA SplitBundleIInv ==
  ASSUME IInv, NEW n \in BundleSizes, SplitBundle(n)
  PROVE  IInv'
<1>1. /\ mpc = "frame" /\ prepared + n <= MaxTasks /\ kind' = "bundle"
      /\ prepared' = prepared + n /\ left' = n /\ mpc' = "push"
      /\ UNCHANGED <<queue, held, pc, cur, ran, sent, exits, base, known, startup, clear,
                     mem, completed, bundle_done, meeting, toclear, frame, frameBase>>
  BY DEF SplitBundle, queueVars, startVars, memVars, threadVars
<1>2. /\ kind = "none" /\ exits = 0 /\ base = sent /\ sent = prepared /\ sent \in Nat
      /\ n \in Nat /\ n > 0
  BY <1>1, Sizes, TaskBoundAssumption DEF IInv, TypeOK, Phases
<1>3. prepared' \in 1 .. MaxTasks /\ left' \in 0 .. MaxTasks
  BY <1>1, <1>2, Sizes
<1>4. TypeOK'
  BY <1>1, <1>3 DEF IInv, TypeOK
<1>5. OnePlace' /\ HandsFollow' /\ Done' = Done
  BY <1>1, PlaceFrame
<1>6. StartsUp'
  BY <1>1, ReadyFrame
<1>7. Phases'
  BY <1>1, <1>2 DEF IInv, Phases
<1>8. Done = {} /\ Cardinality(Done) = 0
  <2>1. base + 1 .. sent = {}
    BY <1>2
  <2>2. Done = {}
    BY <2>1 DEF Done
  <2> QED
    BY <2>2, FS_EmptySet
<1>9. Counted'
  BY <1>1, <1>2, <1>5, <1>8 DEF Counted, TaskCount
<1>10. PostedOnce' /\ OneTaskEach' /\ MemoryFollows'
  BY <1>1, <1>2 DEF IInv, PostedOnce, OneTaskEach, MemoryFollows
<1> QED
  BY <1>4, <1>5, <1>6, <1>7, <1>9, <1>10 DEF IInv

(* A task that is pushed is in the queue and nowhere else.                 *)
LEMMA PushFrame ==
  ASSUME IInv, NEW k \in AllTasks, queue' = Append(queue, k),
         UNCHANGED <<held, pc, cur, ran, base>>,
         ~Pushed(k), k > base, \A j : Pushed(j)' <=> Pushed(j) \/ j = k
  PROVE  OnePlace' /\ HandsFollow' /\ \A j : Nowhere(j)' <=> Nowhere(j) /\ j # k
<1>1. TypeOK /\ OnePlace /\ queue \in Seq(AllTasks)
  BY DEF IInv, TypeOK
<1>2. /\ Len(queue') = Len(queue) + 1 /\ Len(queue) \in Nat /\ queue'[Len(queue) + 1] = k
      /\ \A i \in 1 .. Len(queue) : queue'[i] = queue[i]
  BY <1>1
<1>3. \A j : Queued(j)' <=> Queued(j) \/ j = k
  <2>1. ASSUME NEW j, Queued(j) \/ j = k
        PROVE  Queued(j)'
    <3>1. CASE j = k
      <4>1. Len(queue) + 1 \in 1 .. Len(queue')
        BY <1>2
      <4> QED
        BY <1>2, <3>1, <4>1 DEF Queued
    <3>2. CASE Queued(j)
      <4>1. PICK i \in 1 .. Len(queue) : queue[i] = j
        BY <3>2 DEF Queued
      <4>2. i \in 1 .. Len(queue') /\ queue'[i] = j
        BY <1>2, <4>1
      <4> QED
        BY <4>2 DEF Queued
    <3> QED
      BY <2>1, <3>1, <3>2
  <2>2. ASSUME NEW j, Queued(j)'
        PROVE  Queued(j) \/ j = k
    <3>1. PICK i \in 1 .. Len(queue') : queue'[i] = j
      BY <2>2 DEF Queued
    <3>2. i \in 1 .. Len(queue) \/ i = Len(queue) + 1
      BY <1>2
    <3> QED
      BY <1>2, <3>1, <3>2 DEF Queued
  <2> QED
    BY <2>1, <2>2
<1>4. \A t, j : Holds(t, j)' <=> Holds(t, j)
  BY DEF Holds, InTask
<1>5. ran[k] = 0 /\ ~Queued(k) /\ \A t \in Threads : ~Holds(t, k)
  BY <1>1 DEF OnePlace
<1>6. \A j : Nowhere(j)' <=> Nowhere(j) /\ j # k
  BY <1>3, <1>4, <1>5 DEF Nowhere
<1>7. \A i, j \in 1 .. Len(queue') : queue'[i] = queue'[j] => i = j
  <2>1. \A i \in 1 .. Len(queue) : queue[i] # k
    BY <1>5 DEF Queued
  <2>2. \A i \in 1 .. Len(queue') : i \in 1 .. Len(queue) \/ i = Len(queue) + 1
    BY <1>2
  <2>3. \A i, j \in 1 .. Len(queue) : queue[i] = queue[j] => i = j
    BY <1>1 DEF OnePlace
  <2> QED
    BY <1>2, <2>1, <2>2, <2>3
<1>8. \A j \in AllTasks :
        /\ Queued(j)' => Pushed(j)' /\ j > base /\ ran[j] = 0
                         /\ \A t \in Threads : ~Holds(t, j)'
        /\ ran[j] = 0 \/ Pushed(j)'
        /\ Pushed(j)' /\ Nowhere(j)' => ran[j] = 1
  BY <1>1, <1>3, <1>4, <1>5, <1>6 DEF OnePlace
<1>9. \A j \in AllTasks : \A t \in Threads : Holds(t, j)' =>
            /\ Pushed(j)' /\ j > base
            /\ ran[j] = IF pc[t] \in {"meet", "count", "exited"} THEN 1 ELSE 0
            /\ \A u \in Threads : Holds(u, j)' => t = u
  BY <1>1, <1>4 DEF OnePlace
<1>10. OnePlace'
  BY <1>7, <1>8, <1>9 DEF OnePlace
<1>11. HandsFollow'
  BY DEF IInv, HandsFollow, InTask
<1> QED
  BY <1>6, <1>10, <1>11

(* The main thread pushes the next task of the batch.                      *)
LEMMA PushTaskIInv ==
  ASSUME IInv, PushTask
  PROVE  IInv'
<1> DEFINE k == sent + 1
<1>1. /\ mpc = "push" /\ queue' = Append(queue, k) /\ sent' = k
      /\ mpc' = (IF k < prepared THEN "push" ELSE IF kind = "bundle" THEN "wait" ELSE "dispatch")
      /\ UNCHANGED <<held, pc, cur, ran, exits, base, known, startup, clear, mem, completed,
                     left, bundle_done, meeting, kind, prepared, toclear, frame, frameBase>>
  BY DEF PushTask, Q!Enqueue, startVars, memVars, batchVars, threadVars
<1>2. /\ kind # "none" /\ exits = 0 /\ base <= sent /\ k <= prepared /\ sent < prepared
      /\ base \in Nat /\ sent \in Nat /\ prepared \in Nat /\ prepared <= MaxTasks
      /\ kind # "bundle" => prepared = k
      /\ kind \in {"meeting", "stream", "bundle"}
  BY <1>1, Sizes DEF IInv, TypeOK, Phases
<1>3. k \in AllTasks /\ k > base /\ k \in 1 .. MaxTasks
  BY <1>2, Sizes DEF AllTasks
<1>4. ~Pushed(k) /\ \A j : Pushed(j)' <=> Pushed(j) \/ j = k
  <2>1. k \notin 1 .. sent /\ k \notin ExitTask(1) .. ExitTask(exits)
    BY <1>2, <1>3, Sizes DEF ExitTask
  <2>2. \A j : j \in 1 .. sent' <=> j \in 1 .. sent \/ j = k
    BY <1>1, <1>2
  <2> QED
    BY <1>1, <2>1, <2>2 DEF Pushed, ExitTask
<1>5. OnePlace' /\ HandsFollow' /\ \A j : Nowhere(j)' <=> Nowhere(j) /\ j # k
  <2> HIDE DEF k
  <2> QED
    BY <1>1, <1>3, <1>4, PushFrame
<1>6. TypeOK'
  <2>1. queue' \in Seq(AllTasks) /\ sent' \in 0 .. MaxTasks
    BY <1>1, <1>3 DEF IInv, TypeOK
  <2>2. mpc' \in {"push", "wait", "dispatch"}
    BY <1>1
  <2> QED
    BY <1>1, <2>1, <2>2 DEF IInv, TypeOK
<1>7. Done' = Done
  <2>1. base' + 1 .. sent' = (base + 1 .. sent) \cup {k} /\ k \notin base + 1 .. sent
    BY <1>1, <1>2
  <2> QED
    BY <1>5, <2>1 DEF Done
<1>8. StartsUp'
  BY <1>1, ReadyFrame
<1>9. Phases'
  BY <1>1, <1>2 DEF IInv, Phases
<1>10. Counted' /\ PostedOnce'
  BY <1>1, <1>7 DEF IInv, Counted, PostedOnce, TaskCount
<1>11. OneTaskEach' /\ MemoryFollows'
  <2>1. OneTaskEach'
    BY <1>1 DEF IInv, OneTaskEach, Met
  <2>2. 1 .. sent \subseteq 1 .. sent'
    BY <1>1, <1>2
  <2>3. MemoryFollows'
    BY <1>1, <2>2 DEF IInv, MemoryFollows
  <2> QED
    BY <2>1, <2>3
<1> QED
  BY <1>5, <1>6, <1>8, <1>9, <1>10, <1>11 DEF IInv

(* At the shutdown the main thread pushes the next exit task.              *)
LEMMA PushExitIInv ==
  ASSUME IInv, PushExit
  PROVE  IInv'
<1> DEFINE k == ExitTask(exits + 1)
<1>1. /\ mpc = "exit" /\ queue' = Append(queue, k) /\ exits < Cardinality(Workers)
      /\ exits' = exits + 1
      /\ UNCHANGED <<held, pc, cur, ran, sent, base, known, startup, clear, mem, completed,
                     left, bundle_done, meeting, mpc, kind, prepared, toclear, frame,
                     frameBase>>
  BY DEF PushExit, ExitCount, Q!Enqueue, startVars, memVars, batchVars, threadVars
<1>2. /\ kind = "none" /\ exits \in Nat /\ base <= MaxTasks /\ sent <= MaxTasks
      /\ base \in Nat /\ sent \in Nat
  BY <1>1, Sizes DEF IInv, TypeOK, Phases
<1>3. k \in AllTasks /\ k > base /\ k > MaxTasks /\ k = MaxTasks + exits + 1
  BY <1>1, <1>2, Sizes DEF AllTasks, ExitTask
<1>4. ~Pushed(k) /\ \A j : Pushed(j)' <=> Pushed(j) \/ j = k
  <2>1. k \notin 1 .. sent /\ k \notin ExitTask(1) .. ExitTask(exits)
    BY <1>2, <1>3, Sizes DEF ExitTask
  <2>2. \A j : j \in ExitTask(1) .. ExitTask(exits + 1)
               <=> j \in ExitTask(1) .. ExitTask(exits) \/ j = k
    BY <1>2, Sizes DEF ExitTask
  <2> QED
    BY <1>1, <2>1, <2>2 DEF Pushed, ExitTask
<1>5. OnePlace' /\ HandsFollow' /\ \A j : Nowhere(j)' <=> Nowhere(j) /\ j # k
  <2> HIDE DEF k
  <2> QED
    BY <1>1, <1>3, <1>4, PushFrame
<1>6. TypeOK'
  <2>1. queue' \in Seq(AllTasks) /\ exits' \in 0 .. Cardinality(Workers)
    <3> HIDE DEF k
    <3> QED
      BY <1>1, <1>2, <1>3, Sizes DEF IInv, TypeOK
  <2> QED
    BY <1>1, <2>1 DEF IInv, TypeOK
<1>7. Done' = Done
  <2>1. base' + 1 .. sent' = base + 1 .. sent /\ k \notin base + 1 .. sent
    <3> HIDE DEF k
    <3> QED
      BY <1>1, <1>2, <1>3, Sizes
  <2> QED
    BY <1>5, <2>1 DEF Done
<1>8. StartsUp'
  BY <1>1, ReadyFrame
<1>9. Phases'
  BY <1>1, <1>2 DEF IInv, Phases
<1>10. Counted' /\ PostedOnce' /\ OneTaskEach' /\ MemoryFollows'
  BY <1>1, <1>2, <1>7 DEF IInv, Counted, PostedOnce, OneTaskEach, Met, MemoryFollows
<1> QED
  BY <1>5, <1>6, <1>8, <1>9, <1>10 DEF IInv

(* The main thread starts to help once all its tasks are dispatched.       *)
LEMMA StartHelpingIInv ==
  ASSUME IInv, StartHelping
  PROVE  IInv'
<1>1. /\ mpc = "dispatch" /\ mpc' = "help"
      /\ kind = "meeting" => TaskCount = Cardinality(Threads)
      /\ UNCHANGED <<queue, held, pc, cur, ran, sent, exits, base, known, startup, clear,
                     mem, completed, left, bundle_done, meeting, kind, prepared, toclear,
                     frame, frameBase>>
  BY DEF StartHelping, queueVars, startVars, memVars, batchVars, threadVars
<1>2. kind = "meeting" => prepared = Cardinality(Threads)
  BY <1>1, Sizes DEF IInv, TypeOK, OneTaskEach, TaskCount
<1>3. TypeOK' /\ Phases'
  BY <1>1 DEF IInv, TypeOK, Phases
<1>4. /\ OnePlace' /\ HandsFollow' /\ StartsUp' /\ Counted' /\ PostedOnce'
      /\ OneTaskEach' /\ MemoryFollows'
  BY <1>1, <1>2, BatchFrame
<1> QED
  BY <1>3, <1>4 DEF IInv

(* It stops helping when the queue has nothing left for it.                *)
LEMMA StopHelpingIInv ==
  ASSUME IInv, StopHelping
  PROVE  IInv'
<1>1. /\ mpc = "help" /\ mpc' = "spin" /\ pc[Master] = "idle"
      /\ UNCHANGED <<queue, held, pc, cur, ran, sent, exits, base, known, startup, clear,
                     mem, completed, left, bundle_done, meeting, kind, prepared, toclear,
                     frame, frameBase>>
  BY DEF StopHelping, queueVars, startVars, memVars, batchVars, threadVars
<1>2. kind = "meeting" => prepared = Cardinality(Threads)
  BY <1>1 DEF IInv, OneTaskEach
<1>3. TypeOK' /\ Phases'
  BY <1>1 DEF IInv, TypeOK, Phases
<1>4. /\ OnePlace' /\ HandsFollow' /\ StartsUp' /\ Counted' /\ PostedOnce'
      /\ OneTaskEach' /\ MemoryFollows'
  BY <1>1, <1>2, BatchFrame
<1> QED
  BY <1>3, <1>4 DEF IInv

(* The counter of the stream is full only when all its tasks are done.     *)
LEMMA SpinWaitIInv ==
  ASSUME IInv, SpinWait
  PROVE  IInv'
<1>1. /\ mpc = "spin" /\ mpc' = "results" /\ completed >= TaskCount
      /\ UNCHANGED <<queue, held, pc, cur, ran, sent, exits, base, known, startup, clear,
                     mem, completed, left, bundle_done, meeting, kind, prepared, toclear,
                     frame, frameBase>>
  BY DEF SpinWait, StreamDone, queueVars, startVars, memVars, batchVars, threadVars
<1>2. TypeOK /\ Phases /\ kind \in {"stream", "meeting"}
  BY <1>1 DEF IInv, TypeOK, Phases
<1>3. Done = Batch
  <2>1. completed = Cardinality(Done) /\ TaskCount \in Int
    BY <1>2, Sizes DEF IInv, Counted, TypeOK, TaskCount
  <2> QED
    BY <1>1, <1>2, <2>1, DoneFinite
<1>4. kind = "meeting" => prepared = Cardinality(Threads)
  BY <1>1 DEF IInv, OneTaskEach
<1>5. TypeOK' /\ Phases'
  BY <1>1, <1>2 DEF TypeOK, Phases
<1>6. /\ OnePlace' /\ HandsFollow' /\ StartsUp' /\ Counted' /\ PostedOnce'
      /\ OneTaskEach' /\ MemoryFollows'
  BY <1>1, <1>3, <1>4, BatchFrame
<1> QED
  BY <1>5, <1>6 DEF IInv

(* A bundle is posted when its count is 0: all its tasks are done.         *)
LEMMA BundleWaitIInv ==
  ASSUME IInv, BundleWait
  PROVE  IInv'
<1>1. /\ mpc = "wait" /\ bundle_done > 0 /\ bundle_done' = bundle_done - 1 /\ left' = 0
      /\ mpc' = "results"
      /\ UNCHANGED <<queue, held, pc, cur, ran, sent, exits, base, known, startup, clear,
                     mem, completed, meeting, kind, prepared, toclear, frame, frameBase>>
  BY DEF BundleWait, queueVars, startVars, memVars, threadVars
<1>2. /\ TypeOK /\ Phases /\ kind = "bundle" /\ bundle_done = 1 /\ bundle_done' = 0
      /\ left = 0
  BY <1>1 DEF IInv, TypeOK, Phases, PostedOnce
<1>3. Done = Batch /\ TaskCount - Cardinality(Done) = 0
  <2>1. left = TaskCount - Cardinality(Done) /\ TaskCount \in Int
    BY <1>2, Sizes DEF IInv, Counted, TypeOK, TaskCount
  <2> QED
    BY <1>2, <2>1, DoneFinite
<1>4. TypeOK' /\ Phases'
  BY <1>1, <1>2, Sizes DEF TypeOK, Phases
<1>5. OnePlace' /\ HandsFollow' /\ Done' = Done
  BY <1>1, PlaceFrame
<1>6. StartsUp'
  BY <1>1, ReadyFrame
<1>7. Counted'
  BY <1>1, <1>2, <1>3, <1>5 DEF Counted, TaskCount, Batch
<1>8. PostedOnce' /\ OneTaskEach' /\ MemoryFollows'
  BY <1>1, <1>2 DEF IInv, PostedOnce, OneTaskEach, MemoryFollows
<1> QED
  BY <1>4, <1>5, <1>6, <1>7, <1>8 DEF IInv

(* When every task of the batch is done, nothing is queued and no thread   *)
(* has a task.                                                             *)
LEMMA NothingAfterBatch ==
  ASSUME IInv, mpc = "results"
  PROVE  /\ exits = 0 /\ sent = prepared /\ queue = <<>> /\ InTask = {}
         /\ \A k : ~Queued(k) /\ \A t \in Threads : ~Holds(t, k)
<1>1. /\ TypeOK /\ Phases /\ OnePlace /\ Done = Batch /\ exits = 0 /\ sent = prepared
      /\ base \in Nat /\ sent \in Nat
  BY Sizes DEF IInv, Phases, Counted, TypeOK
<1>2. \A k \in base + 1 .. sent : Nowhere(k)
  BY <1>1 DEF Done, Batch
<1>3. ASSUME NEW t \in Threads, NEW k, Holds(t, k)
      PROVE  FALSE
  <2>1. k \in base + 1 .. sent
    BY <1>1, <1>3, HeldTask
  <2> QED
    BY <1>2, <1>3, <2>1 DEF Nowhere
<1>4. ASSUME NEW k, Queued(k)
      PROVE  FALSE
  <2>1. k \in AllTasks
    BY <1>1, <1>4 DEF Queued, TypeOK
  <2>2. Pushed(k) /\ k > base
    BY <1>1, <1>4, <2>1 DEF OnePlace
  <2>3. k \in base + 1 .. sent
    BY <1>1, <2>2, TaskNumbers
  <2> QED
    BY <1>2, <1>4, <2>3 DEF Nowhere
<1>5. queue = <<>>
  <2>1. queue # <<>> => 1 \in 1 .. Len(queue)
    BY <1>1 DEF TypeOK
  <2> QED
    BY <1>4, <2>1 DEF Queued
<1>6. InTask = {}
  <2>1. \A t \in InTask : t \in Threads /\ Holds(t, cur[t])
    BY DEF InTask, Holds
  <2> QED
    BY <1>3, <2>1
<1> QED
  BY <1>1, <1>3, <1>4, <1>5, <1>6

(* The batch is over: its memory is taken back.                            *)
LEMMA CloseBatchIInv ==
  ASSUME IInv, CloseBatch
  PROVE  IInv'
<1>1. /\ mpc = "results" /\ kind' = "none" /\ base' = prepared
      /\ mpc' = (IF kind = "meeting" THEN "setup" ELSE "frame")
      /\ UNCHANGED <<queue, held, pc, cur, ran, sent, exits, known, startup, clear, mem,
                     completed, left, bundle_done, meeting, prepared, toclear, frame,
                     frameBase>>
  BY DEF CloseBatch, queueVars, startVars, memVars, batchVars, threadVars
<1>2. /\ exits = 0 /\ sent = prepared /\ sent \in Nat /\ mpc' \in {"setup", "frame"}
      /\ \A k : ~Queued(k) /\ \A t \in Threads : ~Holds(t, k)
  <2>1. exits = 0 /\ sent = prepared /\ \A k : ~Queued(k) /\ \A t \in Threads : ~Holds(t, k)
    BY <1>1, NothingAfterBatch
  <2>2. sent \in Nat /\ mpc' \in {"setup", "frame"}
    BY <1>1, Sizes DEF IInv, TypeOK
  <2> QED
    BY <2>1, <2>2
<1>3. TypeOK'
  BY <1>1, <1>2 DEF IInv, TypeOK
<1>4. OnePlace'
  <2>1. \A k : ~Queued(k)' /\ (Pushed(k)' <=> Pushed(k))
    BY <1>1, <1>2 DEF Queued, Pushed, ExitTask
  <2>2. \A k : \A t \in Threads : ~Holds(t, k)'
    BY <1>1, <1>2 DEF Holds, InTask
  <2>3. \A k : Nowhere(k)
    BY <1>2 DEF Nowhere
  <2> QED
    BY <1>1, <2>1, <2>2, <2>3 DEF IInv, OnePlace
<1>5. HandsFollow'
  BY <1>1 DEF IInv, HandsFollow, InTask
<1>6. StartsUp'
  BY <1>1, <1>2, ReadyFrame
<1>7. Phases'
  BY <1>1, <1>2, Sizes DEF IInv, Phases, TypeOK
<1>8. Counted' /\ PostedOnce' /\ OneTaskEach' /\ MemoryFollows'
  BY <1>1, <1>2 DEF IInv, Counted, PostedOnce, OneTaskEach, MemoryFollows
<1> QED
  BY <1>3, <1>4, <1>5, <1>6, <1>7, <1>8 DEF IInv

-------------------------------------------------------------------------------
(* The shutdown *)

(* The main thread leaves its loop.                                        *)
LEMMA StartShutdownIInv ==
  ASSUME IInv, StartShutdown
  PROVE  IInv'
<1>1. /\ mpc = "frame" /\ mpc' = "exit"
      /\ UNCHANGED <<queue, held, pc, cur, ran, sent, exits, base, known, startup, clear,
                     mem, completed, left, bundle_done, meeting, kind, prepared, toclear,
                     frame, frameBase>>
  BY DEF StartShutdown, queueVars, startVars, memVars, batchVars, threadVars
<1>2. TypeOK' /\ Phases'
  BY <1>1 DEF IInv, TypeOK, Phases
<1>3. /\ OnePlace' /\ HandsFollow' /\ StartsUp' /\ Counted' /\ PostedOnce'
      /\ OneTaskEach' /\ MemoryFollows'
  BY <1>1, BatchFrame
<1> QED
  BY <1>2, <1>3 DEF IInv

(* It has pushed an exit task for every worker.                            *)
LEMMA StartJoinIInv ==
  ASSUME IInv, StartJoin
  PROVE  IInv'
<1>1. /\ mpc = "exit" /\ mpc' = "join" /\ exits = Cardinality(Workers)
      /\ UNCHANGED <<queue, held, pc, cur, ran, sent, exits, base, known, startup, clear,
                     mem, completed, left, bundle_done, meeting, kind, prepared, toclear,
                     frame, frameBase>>
  BY DEF StartJoin, ExitCount, queueVars, startVars, memVars, batchVars, threadVars
<1>2. TypeOK' /\ Phases'
  BY <1>1 DEF IInv, TypeOK, Phases
<1>3. /\ OnePlace' /\ HandsFollow' /\ StartsUp' /\ Counted' /\ PostedOnce'
      /\ OneTaskEach' /\ MemoryFollows'
  BY <1>1, BatchFrame
<1> QED
  BY <1>2, <1>3 DEF IInv

(* It has joined every worker and frees their memory.                      *)
LEMMA DestroyIInv ==
  ASSUME IInv, Destroy
  PROVE  IInv'
<1>1. /\ mpc = "join" /\ mpc' = "destroyed" /\ \A w \in Workers : pc[w] = "exited"
      /\ mem' = [t \in Threads |-> {}]
      /\ UNCHANGED <<queue, held, pc, cur, ran, sent, exits, base, known, startup, clear,
                     completed, left, bundle_done, meeting, kind, prepared, toclear,
                     frame, frameBase>>
  BY DEF Destroy, JoinedAll, queueVars, startVars, batchVars, threadVars
<1>2. TypeOK' /\ Phases'
  BY <1>1 DEF IInv, TypeOK, Phases
<1>3. OnePlace' /\ HandsFollow' /\ Done' = Done
  BY <1>1, PlaceFrame
<1>4. StartsUp'
  BY <1>1, ReadyFrame
<1>5. kind = "none"
  BY <1>1 DEF IInv, Phases
<1>6. Counted' /\ PostedOnce' /\ OneTaskEach'
  BY <1>1, <1>3, <1>5 DEF IInv, Counted, PostedOnce, OneTaskEach
<1>7. MemoryFollows'
  BY <1>1 DEF IInv, MemoryFollows
<1> QED
  BY <1>2, <1>3, <1>4, <1>6, <1>7 DEF IInv

-------------------------------------------------------------------------------
(* task_run: frames *)

(* A step of one thread in task_main or task_run, seen from the start-up   *)
(* and from the main thread's own state.                                   *)
LEMMA RunFrame ==
  ASSUME IInv, NEW t \in Threads,
         pc[t] \notin {"starting", "registered", "exited"},
         pc'[t] \notin {"starting", "registered"},
         \A u \in Threads \ {t} : pc'[u] = pc[u],
         pc[t] = "idle" /\ t = Master => mpc = "help",
         UNCHANGED <<known, startup, mpc, kind, base, prepared, sent, exits, toclear,
                     frame, frameBase>>
  PROVE  StartsUp' /\ Phases' /\ mpc # "destroyed" /\ mpc # "publish"
<1>1. Ready' = Ready
  BY Sizes DEF Ready
<1>2. mpc # "publish" /\ mpc # "destroyed"
  <2>1. CASE t = Master
    BY <2>1 DEF IInv, Phases
  <2>2. CASE t # Master
    <3>1. t \in Workers
      BY <2>2 DEF Threads
    <3> QED
      BY <3>1 DEF IInv, StartsUp, Phases
  <2> QED
    BY <2>1, <2>2
<1>3. known' = {w \in Workers : pc'[w] # "starting"}
  BY Sizes DEF IInv, StartsUp
<1>4. pc'[Master] \notin {"starting", "registered"} /\ (mpc # "help" => pc'[Master] = "idle")
  BY Sizes DEF IInv, StartsUp, Phases
<1>5. StartsUp'
  BY <1>1, <1>2, <1>3, <1>4 DEF IInv, StartsUp
<1>6. Phases'
  BY <1>2, <1>4 DEF IInv, Phases
<1> QED
  BY <1>2, <1>5, <1>6

(* A step of one thread that keeps the task it has.                        *)
LEMMA KeepFrame ==
  ASSUME IInv, NEW t \in Threads,
         UNCHANGED <<queue, sent, exits, base>>,
         \A u \in Threads \ {t} : pc'[u] = pc[u] /\ held'[u] = held[u] /\ cur'[u] = cur[u],
         \A k : Holds(t, k)' <=> Holds(t, k),
         \A k \in AllTasks : ran'[k] = IF ~Holds(t, k) THEN ran[k]
                                       ELSE IF pc'[t] \in {"meet", "count", "exited"} THEN 1
                                       ELSE 0
  PROVE  OnePlace' /\ Done' = Done
<1>1. \A u \in Threads : \A k : Holds(u, k)' <=> Holds(u, k)
  <2>1. \A u \in Threads \ {t} : \A k : Holds(u, k)' <=> Holds(u, k)
    BY DEF Holds, InTask
  <2> QED
    BY <2>1
<1>2. \A k : (Queued(k)' <=> Queued(k)) /\ (Pushed(k)' <=> Pushed(k))
  BY DEF Queued, Pushed, ExitTask
<1>3. \A k : Nowhere(k)' <=> Nowhere(k)
  BY <1>1, <1>2 DEF Nowhere
<1>4. OnePlace
  BY DEF IInv
<1>5. \A k \in AllTasks :
        /\ Queued(k)' => Pushed(k)' /\ k > base' /\ ran'[k] = 0
                         /\ \A u \in Threads : ~Holds(u, k)'
        /\ ran'[k] = 0 \/ Pushed(k)'
        /\ Pushed(k)' /\ Nowhere(k)' => ran'[k] = 1
  <2> SUFFICES ASSUME NEW k \in AllTasks
               PROVE  /\ Queued(k) => Pushed(k) /\ k > base /\ ran'[k] = 0
                                      /\ \A u \in Threads : ~Holds(u, k)
                      /\ ran'[k] = 0 \/ Pushed(k)
                      /\ Pushed(k) /\ Nowhere(k) => ran'[k] = 1
    BY <1>1, <1>2, <1>3
  <2>1. CASE Holds(t, k)
    BY <1>4, <2>1 DEF OnePlace, Nowhere
  <2>2. CASE ~Holds(t, k)
    <3>1. ran'[k] = ran[k]
      BY <2>2
    <3> QED
      BY <1>4, <3>1 DEF OnePlace
  <2> QED
    BY <2>1, <2>2
<1>6. \A k \in AllTasks : \A u \in Threads : Holds(u, k)' =>
        /\ Pushed(k)' /\ k > base'
        /\ ran'[k] = IF pc'[u] \in {"meet", "count", "exited"} THEN 1 ELSE 0
        /\ \A v \in Threads : Holds(v, k)' => u = v
  <2> SUFFICES ASSUME NEW k \in AllTasks, NEW u \in Threads, Holds(u, k)
               PROVE  /\ Pushed(k) /\ k > base
                      /\ ran'[k] = IF pc'[u] \in {"meet", "count", "exited"} THEN 1 ELSE 0
                      /\ \A v \in Threads : Holds(v, k) => u = v
    BY <1>1, <1>2
  <2>1. /\ Pushed(k) /\ k > base
        /\ ran[k] = IF pc[u] \in {"meet", "count", "exited"} THEN 1 ELSE 0
        /\ \A v \in Threads : Holds(v, k) => u = v
    BY <1>4 DEF OnePlace
  <2> QED
    BY <2>1
<1>7. \A i, j \in 1 .. Len(queue') : queue'[i] = queue'[j] => i = j
  BY <1>4 DEF OnePlace
<1>8. OnePlace'
  BY <1>5, <1>6, <1>7 DEF OnePlace
<1> QED
  BY <1>3, <1>8 DEF Done

(* A step before the thread uses its memory.                               *)
LEMMA QuietFrame ==
  ASSUME IInv, NEW t \in Threads,
         pc[t] \in {"idle", "pop", "run"}, pc'[t] \in {"idle", "pop", "run"},
         \A u \in Threads \ {t} : pc'[u] = pc[u],
         UNCHANGED <<clear, mem, completed, left, bundle_done, meeting>>,
         UNCHANGED <<mpc, kind, base, prepared, sent, exits, toclear, frameBase, ran>>
  PROVE  PostedOnce' /\ OneTaskEach' /\ MemoryFollows'
<1>1. PostedOnce'
  BY DEF IInv, PostedOnce
<1>2. OneTaskEach'
  BY DEF IInv, OneTaskEach, Met
<1>3. MemoryFollows'
  BY DEF IInv, MemoryFollows
<1> QED
  BY <1>1, <1>2, <1>3

(* A thread inside task_run is inside the open batch.                      *)
LEMMA InBatch ==
  ASSUME IInv, NEW t \in Threads, t \in InTask, cur[t] <= MaxTasks
  PROVE  /\ kind \in {"meeting", "stream", "bundle"}
         /\ mpc \in {"dispatch", "push", "help", "spin", "wait"}
         /\ exits = 0 /\ base < sent /\ cur[t] \in base + 1 .. sent
         /\ base \in Nat /\ sent \in Nat /\ prepared \in Nat /\ sent <= prepared
<1>1. TypeOK /\ Phases /\ cur[t] \in base + 1 .. sent
  BY TaskInHand DEF IInv
<1>2. base \in Nat /\ sent \in Nat /\ prepared \in Nat /\ sent <= prepared /\ base < sent
  BY <1>1, Sizes DEF TypeOK, Phases
<1>3. kind # "none"
  BY <1>1, <1>2 DEF Phases
<1>4. mpc # "results"
  BY NothingAfterBatch
<1> QED
  BY <1>1, <1>2, <1>3, <1>4 DEF TypeOK, Phases

(* A thread claims the oldest task of the queue.                           *)
LEMMA TakeIInv ==
  ASSUME IInv, NEW t \in Threads, Take(t)
  PROVE  IInv'
<1> DEFINE k == Head(queue)
<1>1. /\ pc[t] = "idle" /\ (t = Master => mpc = "help") /\ queue # <<>> /\ held[t] = NoTask
      /\ held' = [held EXCEPT ![t] = k] /\ queue' = Tail(queue)
      /\ pc' = [pc EXCEPT ![t] = "pop"]
      /\ UNCHANGED <<cur, ran, sent, exits, base, known, startup, clear, mem, completed,
                     left, bundle_done, meeting, mpc, kind, prepared, toclear, frame,
                     frameBase>>
  BY DEF Take, Q!Dequeue, startVars, memVars, batchVars, masterVars
<1>2. TypeOK /\ OnePlace /\ queue \in Seq(AllTasks)
  BY DEF IInv, TypeOK
<1>3. /\ k = queue[1] /\ k \in AllTasks /\ Len(queue) \in Nat /\ Len(queue) >= 1
      /\ queue' \in Seq(AllTasks) /\ Len(queue') = Len(queue) - 1
      /\ \A i \in 1 .. Len(queue') : queue'[i] = queue[i + 1] /\ i + 1 \in 1 .. Len(queue)
  BY <1>1, <1>2
<1> HIDE DEF k
<1>4. /\ pc'[t] = "pop" /\ held'[t] = k
      /\ \A u \in Threads \ {t} : pc'[u] = pc[u] /\ held'[u] = held[u]
  BY <1>1, <1>2 DEF TypeOK
<1>5. TypeOK'
  BY <1>1, <1>2, <1>3 DEF TypeOK
<1>6. \A j : ~Holds(t, j)
  BY <1>1 DEF Holds, InTask
<1>7. \A j : Holds(t, j)' <=> j = k
  BY <1>4 DEF Holds, InTask
<1>8. \A u \in Threads \ {t} : \A j : Holds(u, j)' <=> Holds(u, j)
  BY <1>1, <1>4 DEF Holds, InTask
<1>9. \A j : Queued(j)' <=> Queued(j) /\ j # k
  <2>1. ASSUME NEW j, Queued(j)'
        PROVE  Queued(j) /\ j # k
    <3>1. PICK i \in 1 .. Len(queue') : queue'[i] = j
      BY <2>1 DEF Queued
    <3>2. queue[i + 1] = j /\ i + 1 \in 1 .. Len(queue) /\ 1 \in 1 .. Len(queue) /\ i + 1 # 1
      BY <1>3, <3>1
    <3> QED
      BY <1>2, <1>3, <3>2 DEF Queued, OnePlace
  <2>2. ASSUME NEW j, Queued(j), j # k
        PROVE  Queued(j)'
    <3>1. PICK i \in 1 .. Len(queue) : queue[i] = j
      BY <2>2 DEF Queued
    <3>2. i - 1 \in 1 .. Len(queue') /\ (i - 1) + 1 = i
      BY <1>3, <2>2, <3>1
    <3>3. queue'[i - 1] = j
      BY <1>3, <3>1, <3>2
    <3> QED
      BY <3>2, <3>3 DEF Queued
  <2> QED
    BY <2>1, <2>2
<1>10. Queued(k) /\ Pushed(k) /\ k > base /\ ran[k] = 0 /\ \A u \in Threads : ~Holds(u, k)
  <2>1. 1 \in 1 .. Len(queue)
    BY <1>3
  <2>2. Queued(k)
    BY <1>3, <2>1 DEF Queued
  <2> QED
    BY <1>2, <1>3, <2>2 DEF OnePlace
<1>11. \A j : (Nowhere(j)' <=> Nowhere(j)) /\ (Pushed(j)' <=> Pushed(j))
  <2>1. \A j : Pushed(j)' <=> Pushed(j)
    BY <1>1 DEF Pushed, ExitTask
  <2>2. \A j : Nowhere(j)' <=> Nowhere(j)
    <3> SUFFICES ASSUME NEW j
                 PROVE  Nowhere(j)' <=> Nowhere(j)
      OBVIOUS
    <3>1. CASE j = k
      BY <1>7, <1>10, <3>1 DEF Nowhere
    <3>2. CASE j # k
      BY <1>6, <1>7, <1>8, <1>9, <3>2 DEF Nowhere
    <3> QED
      BY <3>1, <3>2
  <2> QED
    BY <2>1, <2>2
<1>12. Done' = Done
  BY <1>1, <1>11 DEF Done
<1>13. OnePlace'
  <2>1. \A i, j \in 1 .. Len(queue') : queue'[i] = queue'[j] => i = j
    <3> SUFFICES ASSUME NEW i \in 1 .. Len(queue'), NEW j \in 1 .. Len(queue'),
                        queue'[i] = queue'[j]
                 PROVE  i = j
      OBVIOUS
    <3>1. /\ i + 1 \in 1 .. Len(queue) /\ j + 1 \in 1 .. Len(queue)
          /\ queue[i + 1] = queue[j + 1]
      BY <1>3
    <3>2. i + 1 = j + 1
      BY <1>2, <3>1 DEF OnePlace
    <3> QED
      BY <1>3, <3>2
  <2>2. \A j \in AllTasks :
          /\ Queued(j)' => Pushed(j)' /\ j > base' /\ ran'[j] = 0
                           /\ \A u \in Threads : ~Holds(u, j)'
          /\ ran'[j] = 0 \/ Pushed(j)'
          /\ Pushed(j)' /\ Nowhere(j)' => ran'[j] = 1
    BY <1>1, <1>2, <1>7, <1>8, <1>9, <1>11 DEF OnePlace
  <2>3. \A j \in AllTasks : \A u \in Threads : Holds(u, j)' =>
          /\ Pushed(j)' /\ j > base'
          /\ ran'[j] = IF pc'[u] \in {"meet", "count", "exited"} THEN 1 ELSE 0
          /\ \A v \in Threads : Holds(v, j)' => u = v
    <3> SUFFICES ASSUME NEW j \in AllTasks, NEW u \in Threads, Holds(u, j)'
                 PROVE  /\ Pushed(j) /\ j > base
                        /\ ran[j] = IF pc'[u] \in {"meet", "count", "exited"} THEN 1 ELSE 0
                        /\ \A v \in Threads : Holds(v, j)' => u = v
      BY <1>1, <1>11
    <3>1. CASE u = t
      BY <1>4, <1>7, <1>8, <1>10, <3>1
    <3>2. CASE u # t
      <4>1. Holds(u, j) /\ j # k
        BY <1>8, <1>10, <3>2
      <4> QED
        BY <1>2, <1>4, <1>7, <1>8, <3>2, <4>1 DEF OnePlace
    <3> QED
      BY <3>1, <3>2
  <2> QED
    BY <2>1, <2>2, <2>3 DEF OnePlace
<1>14. HandsFollow'
  <2>1. k # NoTask
    BY <1>3, Sizes DEF AllTasks, NoTask
  <2>2. InTask' = InTask
    BY <1>1, <1>4 DEF InTask
  <2> QED
    BY <1>1, <1>4, <2>1, <2>2 DEF IInv, HandsFollow
<1>15. StartsUp' /\ Phases'
  BY <1>1, <1>4, RunFrame
<1>16. Counted'
  BY <1>1, <1>12 DEF IInv, Counted, TaskCount, Batch
<1>17. PostedOnce' /\ OneTaskEach' /\ MemoryFollows'
  BY <1>1, <1>4, QuietFrame
<1> QED
  BY <1>5, <1>13, <1>14, <1>15, <1>16, <1>17 DEF IInv

(* FifoSpmcPop returns the task.                                           *)
LEMMA PopReturnIInv ==
  ASSUME IInv, NEW t \in Threads, PopReturn(t)
  PROVE  IInv'
<1>1. /\ pc[t] = "pop" /\ held[t] # NoTask
      /\ held' = [held EXCEPT ![t] = NoTask] /\ cur' = [cur EXCEPT ![t] = held[t]]
      /\ pc' = [pc EXCEPT ![t] = "run"]
      /\ UNCHANGED <<queue, ran, sent, exits, base, known, startup, clear, mem, completed,
                     left, bundle_done, meeting, mpc, kind, prepared, toclear, frame,
                     frameBase>>
  BY DEF PopReturn, Q!HandBack, startVars, memVars, batchVars, masterVars
<1>2. TypeOK
  BY DEF IInv
<1>3. /\ pc'[t] = "run" /\ held'[t] = NoTask /\ cur'[t] = held[t]
      /\ \A u \in Threads \ {t} : pc'[u] = pc[u] /\ held'[u] = held[u] /\ cur'[u] = cur[u]
  BY <1>1, <1>2 DEF TypeOK
<1>4. TypeOK'
  BY <1>1, <1>2 DEF TypeOK
<1>5. \A k : Holds(t, k)' <=> Holds(t, k)
  BY <1>1, <1>3 DEF Holds, InTask
<1>6. \A k \in AllTasks : Holds(t, k) => ran[k] = 0
  BY <1>1, HeldTask
<1>7. OnePlace' /\ Done' = Done
  BY <1>1, <1>3, <1>5, <1>6, KeepFrame
<1>8. HandsFollow'
  BY <1>1, <1>3 DEF IInv, HandsFollow, InTask
<1>9. StartsUp' /\ Phases'
  BY <1>1, <1>3, RunFrame
<1>10. Counted'
  BY <1>1, <1>7 DEF IInv, Counted, TaskCount, Batch
<1>11. PostedOnce' /\ OneTaskEach' /\ MemoryFollows'
  BY <1>1, <1>3, QuietFrame
<1> QED
  BY <1>4, <1>7, <1>8, <1>9, <1>10, <1>11 DEF IInv

(* A step of a thread that has its task and runs it no further.            *)
LEMMA BeforeWork ==
  ASSUME IInv, NEW t \in Threads,
         pc[t] \in {"run", "flushed"}, pc' = [pc EXCEPT ![t] = pc'[t]],
         pc'[t] \in {"flushed", "work"},
         clear' \in [Threads -> BOOLEAN], mem' \in [Threads -> SUBSET AllTasks],
         UNCHANGED <<queue, held, cur, ran, sent, exits, base, known, startup, completed,
                     left, bundle_done, meeting, mpc, kind, prepared, toclear, frame,
                     frameBase>>
  PROVE  /\ TypeOK' /\ OnePlace' /\ HandsFollow' /\ StartsUp' /\ Phases' /\ Counted'
         /\ PostedOnce' /\ \A u \in Threads \ {t} : pc'[u] = pc[u]
<1>1. TypeOK /\ \A u \in Threads \ {t} : pc'[u] = pc[u]
  BY DEF IInv, TypeOK
<1>2. TypeOK'
  BY <1>1 DEF TypeOK
<1>3. InTask' = InTask
  BY <1>1 DEF InTask
<1>4. \A k : Holds(t, k)' <=> Holds(t, k)
  BY <1>3 DEF Holds
<1>5. \A k \in AllTasks : Holds(t, k) => ran[k] = 0
  BY HeldTask
<1>6. OnePlace' /\ Done' = Done
  BY <1>1, <1>4, <1>5, KeepFrame
<1>7. HandsFollow'
  BY <1>1, <1>3 DEF IInv, HandsFollow
<1>8. StartsUp' /\ Phases'
  BY <1>1, RunFrame
<1>9. Counted' /\ PostedOnce'
  BY <1>1, <1>6 DEF IInv, Counted, TaskCount, Batch, PostedOnce
<1> QED
  BY <1>1, <1>2, <1>6, <1>7, <1>8, <1>9

(* A thread that was not told to flush goes on.                            *)
LEMMA SkipFlushIInv ==
  ASSUME IInv, NEW t \in Threads, SkipFlush(t)
  PROVE  IInv'
<1>1. /\ pc[t] = "run" /\ ~clear[t] /\ pc' = [pc EXCEPT ![t] = "work"]
      /\ UNCHANGED <<queue, held, cur, ran, sent, exits, base, known, startup, completed,
                     left, bundle_done, meeting, mpc, kind, prepared, toclear, frame,
                     frameBase>>
      /\ UNCHANGED <<clear, mem>>
  BY DEF SkipFlush, queueVars, startVars, memVars, batchVars, masterVars
<1>2. /\ TypeOK /\ pc'[t] = "work" /\ pc' = [pc EXCEPT ![t] = pc'[t]]
      /\ clear' \in [Threads -> BOOLEAN] /\ mem' \in [Threads -> SUBSET AllTasks]
  BY <1>1 DEF IInv, TypeOK
<1>3. /\ TypeOK' /\ OnePlace' /\ HandsFollow' /\ StartsUp' /\ Phases' /\ Counted'
      /\ PostedOnce' /\ \A u \in Threads \ {t} : pc'[u] = pc[u]
  BY <1>1, <1>2, BeforeWork
<1>4. OneTaskEach'
  BY <1>1, <1>2, <1>3 DEF IInv, OneTaskEach, Met
<1>5. MemoryFollows'
  BY <1>1, <1>2, <1>3 DEF IInv, MemoryFollows
<1> QED
  BY <1>3, <1>4, <1>5 DEF IInv

(* The flag is reset after the flush.                                      *)
LEMMA ResetFlagIInv ==
  ASSUME IInv, NEW t \in Threads, ResetFlag(t)
  PROVE  IInv'
<1>1. /\ pc[t] = "flushed" /\ clear' = [clear EXCEPT ![t] = FALSE]
      /\ pc' = [pc EXCEPT ![t] = "work"]
      /\ UNCHANGED <<queue, held, cur, ran, sent, exits, base, known, startup, completed,
                     left, bundle_done, meeting, mpc, kind, prepared, toclear, frame,
                     frameBase>>
      /\ UNCHANGED mem
  BY DEF ResetFlag, FlagAfterFlush, queueVars, startVars, batchVars, masterVars
<1>2. /\ TypeOK /\ pc'[t] = "work" /\ pc' = [pc EXCEPT ![t] = pc'[t]]
      /\ clear' \in [Threads -> BOOLEAN] /\ mem' \in [Threads -> SUBSET AllTasks]
      /\ clear'[t] = FALSE /\ \A u \in Threads \ {t} : clear'[u] = clear[u]
  BY <1>1 DEF IInv, TypeOK
<1>3. /\ TypeOK' /\ OnePlace' /\ HandsFollow' /\ StartsUp' /\ Phases' /\ Counted'
      /\ PostedOnce' /\ \A u \in Threads \ {t} : pc'[u] = pc[u]
  BY <1>1, <1>2, BeforeWork
<1>4. OneTaskEach'
  BY <1>1, <1>2, <1>3 DEF IInv, OneTaskEach, Met
<1>5. MemoryFollows'
  BY <1>1, <1>2, <1>3 DEF IInv, MemoryFollows
<1> QED
  BY <1>3, <1>4, <1>5 DEF IInv

-------------------------------------------------------------------------------
(* task_run: the task itself *)

(* A thread that starts on a task of the meeting has not met yet: if       *)
(* every thread had left a result, there would be more tasks than threads. *)
LEMMA NewToMeeting ==
  ASSUME IInv, kind = "meeting", NEW t \in Threads, pc[t] \in {"run", "flushed", "work"},
         cur[t] <= MaxTasks
  PROVE  t \notin Met
<1> SUFFICES ASSUME t \in Met
             PROVE  FALSE
  OBVIOUS
<1>1. TypeOK /\ t \in InTask
  BY DEF IInv, InTask
<1>2. /\ cur[t] \in 1 .. sent /\ ran[cur[t]] = 0 /\ sent \in Nat
      /\ sent <= Cardinality(Threads)
  <2>1. cur[t] \in base + 1 .. sent /\ base \in Nat /\ sent \in Nat /\ sent <= prepared
        /\ prepared \in Nat
    BY <1>1, InBatch
  <2>2. ran[cur[t]] = 0
    BY <1>1, TaskInHand, HeldTask
  <2>3. prepared <= Cardinality(Threads) /\ Cardinality(Threads) \in Nat
    BY Sizes DEF IInv, OneTaskEach
  <2> QED
    BY <2>1, <2>2, <2>3
<1>3. \A u \in Threads : mem[u] # {}
  <2>1. Met = Threads
    BY DEF IInv, OneTaskEach
  <2> QED
    BY <2>1 DEF Met
<1> DEFINE S == (1 .. sent) \ {cur[t]}
           m == [u \in Threads |-> CHOOSE k \in mem[u] : TRUE]
<1>4. \A u \in Threads : m[u] \in mem[u]
  BY <1>3
<1>5. m \in [Threads -> S]
  <2>1. \A u \in Threads : m[u] \in 1 .. sent /\ ran[m[u]] = 1
    <3> HIDE DEF m
    <3> QED
      BY <1>4 DEF IInv, MemoryFollows
  <2> QED
    BY <1>2, <2>1
<1>6. IsFiniteSet(S) /\ Cardinality(S) < Cardinality(Threads)
  <2>1. IsFiniteSet(1 .. sent) /\ Cardinality(1 .. sent) = sent
    <3>1. Cardinality(1 .. sent) = IF 1 > sent THEN 0 ELSE sent - 1 + 1
      BY <1>2, FS_Interval
    <3> QED
      BY <1>2, <3>1, FS_Interval
  <2>2. IsFiniteSet(S) /\ Cardinality(S) = sent - 1
    BY <1>2, <2>1, FS_RemoveElement
  <2> QED
    BY <1>2, <2>2, Sizes
<1> HIDE DEF S, m
<1>7. PICK u \in Threads, v \in Threads : u # v /\ m[u] = m[v]
  BY <1>5, <1>6, Sizes, FS_PigeonHole
<1>8. m[u] \in mem[u] /\ m[u] \in mem[v]
  BY <1>4, <1>7
<1> QED
  BY <1>7, <1>8 DEF IInv, MemoryFollows

(* The thread flushes its memory, which holds nothing of this frame.       *)
LEMMA FlushFrameIInv ==
  ASSUME IInv, NEW t \in Threads, FlushFrame(t)
  PROVE  IInv'
<1>1. /\ pc[t] = "run" /\ clear[t] /\ mem' = [mem EXCEPT ![t] = {}]
      /\ pc' = [pc EXCEPT ![t] = "flushed"]
      /\ UNCHANGED <<queue, held, cur, ran, sent, exits, base, known, startup, completed,
                     left, bundle_done, meeting, mpc, kind, prepared, toclear, frame,
                     frameBase>>
      /\ UNCHANGED clear
  BY DEF FlushFrame, queueVars, startVars, batchVars, masterVars
<1>2. /\ TypeOK /\ pc'[t] = "flushed" /\ pc' = [pc EXCEPT ![t] = pc'[t]]
      /\ clear' \in [Threads -> BOOLEAN] /\ mem' \in [Threads -> SUBSET AllTasks]
      /\ mem'[t] = {} /\ \A u \in Threads \ {t} : mem'[u] = mem[u]
  BY <1>1 DEF IInv, TypeOK
<1>3. /\ TypeOK' /\ OnePlace' /\ HandsFollow' /\ StartsUp' /\ Phases' /\ Counted'
      /\ PostedOnce' /\ \A u \in Threads \ {t} : pc'[u] = pc[u]
  BY <1>1, <1>2, BeforeWork
<1>4. OneTaskEach'
  <2>1. CASE kind # "meeting"
    BY <1>1, <2>1 DEF IInv, OneTaskEach
  <2>2. CASE kind = "meeting"
    <3>1. cur[t] <= MaxTasks
      <4>1. exits = 0 /\ t \in InTask
        BY <1>1, <2>2 DEF IInv, Phases, InTask
      <4> QED
        BY <4>1, TaskInHand
    <3>2. t \notin Met
      BY <1>1, <2>2, <3>1, NewToMeeting
    <3>3. Met' = Met
      BY <1>2, <3>2 DEF Met
    <3> QED
      BY <1>1, <1>2, <1>3, <3>2, <3>3 DEF IInv, OneTaskEach
  <2> QED
    BY <2>1, <2>2
<1>5. MemoryFollows'
  <2>1. \A k \in mem[t] : k <= frameBase
    BY <1>1 DEF IInv, MemoryFollows
  <2>2. ASSUME NEW k \in frameBase + 1 .. MaxTasks, NEW u \in Threads, k \in mem[u]
        PROVE  k \in mem'[u]
    <3>1. ~(k <= frameBase)
      BY <1>2, Sizes DEF TypeOK
    <3> QED
      BY <1>2, <2>1, <2>2, <3>1
  <2>3. \A u \in Threads : \A k \in mem'[u] : k \in mem[u]
    BY <1>2
  <2>4. mpc' # "destroyed" =>
          \A k \in frameBase' + 1 .. MaxTasks :
            ran'[k] = 1 => \E u \in Threads : k \in mem'[u]
    <3> SUFFICES ASSUME mpc # "destroyed", NEW k \in frameBase + 1 .. MaxTasks, ran[k] = 1
                 PROVE  \E u \in Threads : k \in mem'[u]
      BY <1>1
    <3>1. PICK u \in Threads : k \in mem[u]
      BY DEF IInv, MemoryFollows
    <3> QED
      BY <2>2, <3>1
  <2>5. \A u \in Threads : \A k \in mem'[u] :
          k \in 1 .. sent' /\ ran'[k] = 1 /\ \A v \in Threads : k \in mem'[v] => u = v
    BY <1>1, <2>3 DEF IInv, MemoryFollows
  <2>6. \A u \in Threads :
          /\ clear'[u] => \A k \in mem'[u] : k <= frameBase'
          /\ pc'[u] \in {"work", "meet", "count"} => ~clear'[u]
          /\ pc'[u] = "flushed" \/ (~clear'[u] /\ u \notin toclear') =>
               \A k \in mem'[u] : k > frameBase'
    <3>1. \A u \in Threads \ {t} : pc'[u] = pc[u] /\ mem'[u] = mem[u]
      BY <1>2, <1>3
    <3> QED
      BY <1>1, <1>2, <3>1 DEF IInv, MemoryFollows
  <2> QED
    BY <2>4, <2>5, <2>6 DEF MemoryFollows
<1> QED
  BY <1>3, <1>4, <1>5 DEF IInv

(* A task of the batch runs and leaves its result in the thread's memory.  *)
LEMMA RunTaskIInv ==
  ASSUME IInv, NEW t \in Threads, RunTask(t)
  PROVE  IInv'
<1> DEFINE k == cur[t]
<1>1. /\ pc[t] = "work" /\ k <= MaxTasks /\ ran' = [ran EXCEPT ![k] = ran[k] + 1]
      /\ mem' = [mem EXCEPT ![t] = mem[t] \cup {k}]
      /\ kind = "meeting" => meeting' = meeting + 1 /\ pc' = [pc EXCEPT ![t] = "meet"]
      /\ kind # "meeting" => meeting' = meeting /\ pc' = [pc EXCEPT ![t] = "count"]
      /\ UNCHANGED <<queue, held, cur, sent, exits, base, known, startup, clear, completed,
                     left, bundle_done, mpc, kind, prepared, toclear, frame, frameBase>>
  BY DEF RunTask, queueVars, startVars, masterVars
<1>2. TypeOK /\ t \in InTask
  BY <1>1 DEF IInv, InTask
<1>3. /\ Holds(t, k) /\ k \in AllTasks /\ Pushed(k) /\ ran[k] = 0
      /\ \A u \in Threads : Holds(u, k) => t = u
  BY <1>1, <1>2, TaskInHand, HeldTask
<1>4. /\ k \in base + 1 .. sent /\ base \in Nat /\ sent \in Nat /\ prepared \in Nat
      /\ base < sent /\ sent <= prepared /\ kind \in {"meeting", "stream", "bundle"}
  BY <1>1, <1>2, InBatch
<1>5. /\ pc'[t] \in {"meet", "count"} /\ (kind = "meeting" => pc'[t] = "meet")
      /\ \A u \in Threads \ {t} : pc'[u] = pc[u]
  BY <1>1, <1>2 DEF TypeOK
<1>6. /\ mem'[t] = mem[t] \cup {k} /\ \A u \in Threads \ {t} : mem'[u] = mem[u]
      /\ mem' \in [Threads -> SUBSET AllTasks]
  BY <1>1, <1>2, <1>3 DEF TypeOK
<1>7. ran'[k] = 1 /\ \A j \in AllTasks \ {k} : ran'[j] = ran[j]
  BY <1>1, <1>2, <1>3 DEF TypeOK
<1>8. \A u \in Threads : k \notin mem[u]
  BY <1>3 DEF IInv, MemoryFollows
<1> HIDE DEF k
<1>9. InTask' = InTask
  BY <1>1, <1>5 DEF InTask
<1>10. \A j : Holds(t, j)' <=> Holds(t, j)
  BY <1>1, <1>5, <1>9 DEF Holds
<1>11. \A j \in AllTasks : Holds(t, j) => j = k
  BY <1>1 DEF Holds, k
<1>12. OnePlace' /\ Done' = Done
  <2>1. \A j \in AllTasks : ran'[j] = IF ~Holds(t, j) THEN ran[j]
                                      ELSE IF pc'[t] \in {"meet", "count", "exited"} THEN 1
                                      ELSE 0
    BY <1>3, <1>5, <1>7, <1>11
  <2> QED
    BY <1>1, <1>5, <1>10, <2>1, KeepFrame
<1>13. HandsFollow'
  BY <1>1, <1>5, <1>9 DEF IInv, HandsFollow, k
<1>14. StartsUp' /\ Phases' /\ mpc # "destroyed"
  BY <1>1, <1>5, RunFrame
<1>15. Counted' /\ PostedOnce'
  BY <1>1, <1>5, <1>12 DEF IInv, Counted, TaskCount, Batch, PostedOnce
<1>16. kind = "meeting" =>
         /\ t \notin Met /\ mem[t] = {} /\ Met' = Met \cup {t}
         /\ IsFiniteSet(Met) /\ Cardinality(Met) \in Nat
         /\ Cardinality(Met') = Cardinality(Met) + 1
         /\ Cardinality(Met') <= Cardinality(Threads)
  <2> SUFFICES ASSUME kind = "meeting"
               PROVE  /\ t \notin Met /\ mem[t] = {} /\ Met' = Met \cup {t}
                      /\ IsFiniteSet(Met) /\ Cardinality(Met) \in Nat
                      /\ Cardinality(Met') = Cardinality(Met) + 1
                      /\ Cardinality(Met') <= Cardinality(Threads)
    OBVIOUS
  <2>1. t \notin Met
    BY <1>1, NewToMeeting DEF k
  <2>2. mem[t] = {} /\ Met' = Met \cup {t}
    BY <1>6, <2>1 DEF Met
  <2>3. IsFiniteSet(Met) /\ Met' \in SUBSET Threads
    BY Sizes, FS_Subset DEF Met
  <2> QED
    BY <2>1, <2>2, <2>3, Sizes, FS_AddElement, FS_CardinalityType, FS_Subset
<1>17. OneTaskEach'
  <2>1. prepared # 0
    BY <1>4
  <2>2. CASE kind # "meeting"
    BY <1>1, <2>1, <2>2 DEF OneTaskEach
  <2>3. CASE kind = "meeting"
    <3>1. Met # Threads
      BY <1>16, <2>3
    <3>2. completed = 0 /\ \A u \in Met : pc[u] = "meet"
      BY <1>2, <2>3, <3>1 DEF IInv, OneTaskEach, TypeOK
    <3>3. \A u \in Met' : pc'[u] = "meet"
      BY <1>5, <1>16, <2>3, <3>2 DEF Met
    <3>4. \A u \in Threads : \A i, j \in mem'[u] : i = j
      <4>1. mem'[t] = {k}
        BY <1>6, <1>16, <2>3
      <4> QED
        BY <1>6, <2>3, <4>1 DEF IInv, OneTaskEach
    <3>5. \A u \in Threads : pc'[u] \in {"meet", "count"} => u \in Met'
      BY <1>5, <1>16, <2>3 DEF IInv, OneTaskEach
    <3>6. meeting' = Cardinality(Met')
      BY <1>1, <1>16, <2>3 DEF IInv, OneTaskEach
    <3> QED
      BY <1>1, <2>1, <2>3, <3>2, <3>3, <3>4, <3>5, <3>6 DEF IInv, OneTaskEach
  <2> QED
    BY <2>2, <2>3
<1>18. TypeOK'
  <2>1. meeting' \in 0 .. Cardinality(Threads)
    <3>1. CASE kind = "meeting"
      <4>1. meeting' = Cardinality(Met) + 1
        BY <1>1, <3>1 DEF IInv, OneTaskEach
      <4> QED
        BY <1>16, <3>1, <4>1, Sizes
    <3>2. CASE kind # "meeting"
      BY <1>1, <1>2, <3>2 DEF TypeOK
    <3> QED
      BY <3>1, <3>2
  <2>2. ran' \in [AllTasks -> Nat]
    BY <1>1, <1>2, <1>3 DEF TypeOK
  <2>3. pc' \in [Threads -> {"starting", "registered", "idle", "pop", "run", "flushed",
                             "work", "meet", "count", "post", "exited"}]
    BY <1>1, <1>2 DEF TypeOK
  <2> QED
    BY <1>1, <1>2, <1>6, <2>1, <2>2, <2>3 DEF TypeOK
<1>19. MemoryFollows'
  <2>1. frameBase \in Nat /\ frameBase <= base /\ k > frameBase /\ k \in 1 .. sent
        /\ MaxTasks \in Nat
    BY <1>2, <1>4, Sizes DEF IInv, Phases, TypeOK
  <2>2. mpc' # "destroyed" =>
          \A j \in frameBase' + 1 .. MaxTasks :
            ran'[j] = 1 => \E u \in Threads : j \in mem'[u]
    <3> SUFFICES ASSUME NEW j \in frameBase + 1 .. MaxTasks, ran'[j] = 1
                 PROVE  \E u \in Threads : j \in mem'[u]
      BY <1>1
    <3>1. CASE j = k
      BY <1>6, <3>1
    <3>2. CASE j # k
      <4>1. j \in AllTasks
        BY <2>1, Sizes DEF AllTasks
      <4>2. PICK u \in Threads : j \in mem[u]
        BY <1>7, <1>14, <3>2, <4>1 DEF IInv, MemoryFollows
      <4> QED
        BY <1>6, <4>2
    <3> QED
      BY <3>1, <3>2
  <2>3. \A u \in Threads : \A j \in mem'[u] : j \in mem[u] \/ (u = t /\ j = k)
    BY <1>6
  <2>4. \A u \in Threads : \A j \in mem'[u] :
          j \in 1 .. sent' /\ ran'[j] = 1 /\ \A v \in Threads : j \in mem'[v] => u = v
    <3> SUFFICES ASSUME NEW u \in Threads, NEW j \in mem'[u]
                 PROVE  j \in 1 .. sent /\ ran'[j] = 1
                        /\ \A v \in Threads : j \in mem'[v] => u = v
      BY <1>1
    <3>1. CASE j = k
      <4>1. \A v \in Threads : j \in mem'[v] => v = t
        BY <1>8, <2>3, <3>1
      <4> QED
        BY <1>7, <2>1, <3>1, <4>1
    <3>2. CASE j # k
      <4>1. j \in mem[u] /\ \A v \in Threads : j \in mem'[v] => j \in mem[v]
        BY <2>3, <3>2
      <4>2. j \in AllTasks
        BY <1>2, <4>1 DEF TypeOK
      <4> QED
        BY <1>7, <3>2, <4>1, <4>2 DEF IInv, MemoryFollows
    <3> QED
      BY <3>1, <3>2
  <2>5. ~clear[t]
    BY <1>1 DEF IInv, MemoryFollows
  <2>6. \A u \in Threads :
          /\ clear'[u] => \A j \in mem'[u] : j <= frameBase'
          /\ pc'[u] \in {"work", "meet", "count"} => ~clear'[u]
          /\ pc'[u] = "flushed" \/ (~clear'[u] /\ u \notin toclear') =>
               \A j \in mem'[u] : j > frameBase'
    BY <1>1, <1>5, <1>6, <2>1, <2>3, <2>5 DEF IInv, MemoryFollows
  <2> QED
    BY <2>2, <2>4, <2>6 DEF MemoryFollows
<1> QED
  BY <1>12, <1>13, <1>14, <1>15, <1>17, <1>18, <1>19 DEF IInv

(* The counter of the meeting is full: every thread has met.               *)
LEMMA LeaveMeetingIInv ==
  ASSUME IInv, NEW t \in Threads, LeaveMeeting(t)
  PROVE  IInv'
<1>1. /\ pc[t] = "meet" /\ meeting = Cardinality(Threads) /\ pc' = [pc EXCEPT ![t] = "count"]
      /\ UNCHANGED <<queue, held, cur, ran, sent, exits, base, known, startup, clear, mem,
                     completed, left, bundle_done, meeting, mpc, kind, prepared, toclear,
                     frame, frameBase>>
  BY DEF LeaveMeeting, MeetingFull, queueVars, startVars, memVars, batchVars, masterVars
<1>2. TypeOK /\ pc'[t] = "count" /\ \A u \in Threads \ {t} : pc'[u] = pc[u]
  BY <1>1 DEF IInv, TypeOK
<1>3. TypeOK'
  BY <1>1, <1>2 DEF TypeOK
<1>4. InTask' = InTask
  BY <1>1, <1>2 DEF InTask
<1>5. \A k : Holds(t, k)' <=> Holds(t, k)
  BY <1>1, <1>2, <1>4 DEF Holds
<1>6. \A k \in AllTasks : Holds(t, k) => ran[k] = 1
  BY <1>1, HeldTask
<1>7. OnePlace' /\ Done' = Done
  BY <1>1, <1>2, <1>5, <1>6, KeepFrame
<1>8. HandsFollow'
  BY <1>1, <1>2, <1>4 DEF IInv, HandsFollow
<1>9. StartsUp' /\ Phases'
  BY <1>1, <1>2, RunFrame
<1>10. Counted' /\ PostedOnce'
  BY <1>1, <1>2, <1>7 DEF IInv, Counted, TaskCount, Batch, PostedOnce
<1>11. OneTaskEach'
  <2>1. Met' = Met
    BY <1>1 DEF Met
  <2>2. kind = "meeting" => Met = Threads
    <3>1. Met \in SUBSET Threads
      BY DEF Met
    <3>2. kind = "meeting" => Cardinality(Met) = Cardinality(Threads)
      BY <1>1 DEF IInv, OneTaskEach
    <3> QED
      BY <3>1, <3>2, Sizes, FS_Subset
  <2> QED
    BY <1>1, <1>2, <2>1, <2>2 DEF IInv, OneTaskEach
<1>12. MemoryFollows'
  BY <1>1, <1>2 DEF IInv, MemoryFollows
<1> QED
  BY <1>3, <1>7, <1>8, <1>9, <1>10, <1>11, <1>12 DEF IInv

(* A worker runs an exit task and leaves.                                  *)
LEMMA RunExitIInv ==
  ASSUME IInv, NEW t \in Threads, RunExit(t)
  PROVE  IInv'
<1> DEFINE k == cur[t]
<1>1. /\ pc[t] = "work" /\ k > MaxTasks /\ ran' = [ran EXCEPT ![k] = ran[k] + 1]
      /\ pc' = [pc EXCEPT ![t] = "exited"]
      /\ UNCHANGED <<queue, held, cur, sent, exits, base, known, startup, clear, mem,
                     completed, left, bundle_done, meeting, mpc, kind, prepared, toclear,
                     frame, frameBase>>
  BY DEF RunExit, queueVars, startVars, memVars, batchVars, masterVars
<1>2. TypeOK /\ t \in InTask
  BY <1>1 DEF IInv, InTask
<1>3. Holds(t, k) /\ k \in AllTasks /\ Pushed(k) /\ ran[k] = 0
  BY <1>1, <1>2, TaskInHand, HeldTask
<1>4. exits # 0 /\ kind = "none"
  <2>1. exits # 0
    <3>1. k \in Int /\ MaxTasks \in Int
      BY <1>3, Sizes DEF AllTasks
    <3> QED
      BY <1>1, <1>2, <3>1, TaskInHand
  <2> QED
    BY <2>1 DEF IInv, Phases
<1>5. pc'[t] = "exited" /\ \A u \in Threads \ {t} : pc'[u] = pc[u]
  BY <1>1, <1>2 DEF TypeOK
<1>6. ran'[k] = 1 /\ \A j \in AllTasks \ {k} : ran'[j] = ran[j]
  BY <1>1, <1>2, <1>3 DEF TypeOK
<1> HIDE DEF k
<1>7. \A j : Holds(t, j)' <=> Holds(t, j)
  BY <1>1, <1>5 DEF Holds, InTask
<1>8. \A j \in AllTasks : Holds(t, j) => j = k
  BY <1>1 DEF Holds, k
<1>9. OnePlace' /\ Done' = Done
  <2>1. \A j \in AllTasks : ran'[j] = IF ~Holds(t, j) THEN ran[j]
                                      ELSE IF pc'[t] \in {"meet", "count", "exited"} THEN 1
                                      ELSE 0
    BY <1>3, <1>5, <1>6, <1>8
  <2> QED
    BY <1>1, <1>5, <1>7, <2>1, KeepFrame
<1>10. HandsFollow'
  BY <1>1, <1>5 DEF IInv, HandsFollow, InTask, k
<1>11. StartsUp' /\ Phases'
  BY <1>1, <1>5, RunFrame
<1>12. TypeOK'
  BY <1>1, <1>2, <1>3 DEF TypeOK
<1>13. Counted' /\ PostedOnce' /\ OneTaskEach'
  BY <1>1, <1>4, <1>5, <1>9
     DEF IInv, Counted, TaskCount, Batch, PostedOnce, OneTaskEach
<1>14. MemoryFollows'
  <2>1. \A j \in 1 .. MaxTasks : ran'[j] = ran[j]
    BY <1>1, <1>6, Sizes DEF AllTasks
  <2>2. sent \in 0 .. MaxTasks /\ frameBase \in Nat
    BY <1>2, Sizes DEF TypeOK
  <2>3. \A u \in Threads : \A j \in mem[u] : j \in 1 .. MaxTasks
    BY <2>2, Sizes DEF IInv, MemoryFollows
  <2>4. \A j \in frameBase + 1 .. MaxTasks : j \in 1 .. MaxTasks
    BY <2>2, Sizes
  <2> QED
    BY <1>1, <1>5, <2>1, <2>3, <2>4 DEF IInv, MemoryFollows
<1> QED
  BY <1>9, <1>10, <1>11, <1>12, <1>13, <1>14 DEF IInv

-------------------------------------------------------------------------------
(* task_run: the end of a task *)

(* A task that is counted is done, and one more than before.               *)
LEMMA CountFrame ==
  ASSUME IInv, NEW t \in Threads, pc[t] = "count", pc' = [pc EXCEPT ![t] = pc'[t]],
         pc'[t] \in {"idle", "post"}, cur' = [cur EXCEPT ![t] = NoTask],
         UNCHANGED <<queue, held, ran, sent, exits, base, known, startup, clear, mem,
                     meeting, mpc, kind, prepared, toclear, frame, frameBase>>
  PROVE  /\ OnePlace' /\ HandsFollow' /\ StartsUp' /\ Phases' /\ MemoryFollows'
         /\ Cardinality(Done') = Cardinality(Done) + 1 /\ Cardinality(Done') <= TaskCount
         /\ Cardinality(Done) \in Nat /\ TaskCount \in Nat /\ TaskCount <= MaxTasks
         /\ Cardinality(Done') = TaskCount => mpc # "push"
         /\ kind \in {"meeting", "stream", "bundle"}
         /\ mpc \in {"dispatch", "push", "help", "spin", "wait"}
         /\ \A u \in Threads \ {t} : pc'[u] = pc[u]
<1> DEFINE k == cur[t]
<1>1. TypeOK /\ OnePlace /\ t \in InTask /\ k <= MaxTasks
  BY DEF IInv, InTask, HandsFollow
<1>2. /\ Holds(t, k) /\ k \in AllTasks /\ Pushed(k) /\ k > base /\ ran[k] = 1 /\ ~Queued(k)
      /\ \A u \in Threads : Holds(u, k) => t = u
  BY <1>1, TaskInHand, HeldTask
<1>3. /\ kind \in {"meeting", "stream", "bundle"} /\ k \in base + 1 .. sent
      /\ mpc \in {"dispatch", "push", "help", "spin", "wait"}
  BY <1>1, InBatch
<1>4. /\ cur'[t] = NoTask
      /\ \A u \in Threads \ {t} : pc'[u] = pc[u] /\ cur'[u] = cur[u]
  BY <1>1 DEF TypeOK
<1>5. \A j : Holds(t, j) => j = k
  BY DEF Holds
<1> HIDE DEF k
<1>6. \A j : ~Holds(t, j)'
  BY <1>4 DEF Holds, InTask
<1>7. \A u \in Threads \ {t} : \A j : Holds(u, j)' <=> Holds(u, j)
  BY <1>4 DEF Holds, InTask
<1>8. \A j : (Queued(j)' <=> Queued(j)) /\ (Pushed(j)' <=> Pushed(j))
  BY DEF Queued, Pushed, ExitTask
<1>9. \A j : Nowhere(j)' <=> Nowhere(j) \/ j = k
  <2> SUFFICES ASSUME NEW j
               PROVE  Nowhere(j)' <=> Nowhere(j) \/ j = k
    OBVIOUS
  <2>1. CASE j = k
    BY <1>2, <1>6, <1>7, <1>8, <2>1 DEF Nowhere
  <2>2. CASE j # k
    BY <1>5, <1>6, <1>7, <1>8, <2>2 DEF Nowhere
  <2> QED
    BY <2>1, <2>2
<1>10. OnePlace'
  <2>1. \A j \in AllTasks :
          /\ Queued(j)' => Pushed(j)' /\ j > base' /\ ran'[j] = 0
                           /\ \A u \in Threads : ~Holds(u, j)'
          /\ ran'[j] = 0 \/ Pushed(j)'
          /\ Pushed(j)' /\ Nowhere(j)' => ran'[j] = 1
    BY <1>1, <1>2, <1>6, <1>7, <1>8, <1>9 DEF OnePlace
  <2>2. \A j \in AllTasks : \A u \in Threads : Holds(u, j)' =>
          /\ Pushed(j)' /\ j > base'
          /\ ran'[j] = IF pc'[u] \in {"meet", "count", "exited"} THEN 1 ELSE 0
          /\ \A v \in Threads : Holds(v, j)' => u = v
    BY <1>1, <1>4, <1>6, <1>7, <1>8 DEF OnePlace
  <2>3. \A i, j \in 1 .. Len(queue') : queue'[i] = queue'[j] => i = j
    BY <1>1 DEF OnePlace
  <2> QED
    BY <2>1, <2>2, <2>3 DEF OnePlace
<1>11. HandsFollow'
  BY <1>4 DEF IInv, HandsFollow, InTask
<1>12. StartsUp' /\ Phases'
  BY <1>4, RunFrame
<1>13. MemoryFollows'
  BY <1>4 DEF IInv, MemoryFollows
<1>14. Done' = Done \cup {k} /\ k \notin Done
  BY <1>2, <1>3, <1>9 DEF Done, Nowhere
<1>15. /\ Cardinality(Done') = Cardinality(Done) + 1 /\ Cardinality(Done) \in Nat
       /\ TaskCount \in Nat /\ TaskCount <= MaxTasks /\ Cardinality(Done') <= sent - base
       /\ Cardinality(Done') <= TaskCount
  <2>1. /\ base \in Nat /\ sent \in Nat /\ prepared \in Nat /\ base <= sent
        /\ sent <= prepared /\ prepared <= MaxTasks /\ Phases
    BY <1>1, Sizes DEF TypeOK, IInv, Phases
  <2>2. IsFiniteSet(Done) /\ Cardinality(Done) \in Nat /\ Done \subseteq base + 1 .. sent
    BY <1>1, <2>1, DoneFinite
  <2>3. Cardinality(Done') = Cardinality(Done) + 1
    BY <1>14, <2>2, FS_AddElement
  <2>4. IsFiniteSet(base + 1 .. sent) /\ Cardinality(base + 1 .. sent) = sent - base
    <3>1. /\ IsFiniteSet(base + 1 .. sent)
          /\ Cardinality(base + 1 .. sent) =
               IF base + 1 > sent THEN 0 ELSE sent - (base + 1) + 1
      BY <2>1, FS_Interval
    <3> QED
      BY <2>1, <3>1
  <2>5. Done' \in SUBSET (base + 1 .. sent)
    BY <1>3, <1>14, <2>2
  <2>6. Cardinality(Done') <= sent - base
    BY <2>4, <2>5, FS_Subset
  <2>7. TaskCount \in Nat /\ TaskCount <= MaxTasks /\ sent - base <= TaskCount
    BY <2>1, Sizes DEF TaskCount
  <2> QED
    BY <2>1, <2>2, <2>3, <2>6, <2>7, Sizes
<1>16. Cardinality(Done') = TaskCount => mpc # "push"
  <2>1. base \in Int /\ sent \in Int /\ prepared \in Int /\ sent <= prepared
    BY <1>1, Sizes DEF TypeOK, IInv, Phases
  <2>2. Cardinality(Done') = TaskCount => sent = prepared
    BY <1>15, <2>1 DEF TaskCount
  <2> QED
    BY <2>2 DEF IInv, Phases
<1> QED
  BY <1>3, <1>4, <1>10, <1>11, <1>12, <1>13, <1>15, <1>16

(* A task of a stream or of the meeting is counted.                        *)
LEMMA CountStreamIInv ==
  ASSUME IInv, NEW t \in Threads, CountStream(t)
  PROVE  IInv'
<1>1. /\ pc[t] = "count" /\ kind # "bundle" /\ completed' = completed + 1
      /\ pc' = [pc EXCEPT ![t] = "idle"] /\ cur' = [cur EXCEPT ![t] = NoTask]
      /\ UNCHANGED <<queue, held, ran, sent, exits, base, known, startup, clear, mem,
                     meeting, mpc, kind, prepared, toclear, frame, frameBase>>
      /\ UNCHANGED <<left, bundle_done>>
  BY DEF CountStream, queueVars, startVars, memVars, masterVars
<1>2. /\ TypeOK /\ pc'[t] = "idle" /\ pc' = [pc EXCEPT ![t] = pc'[t]]
  BY <1>1 DEF IInv, TypeOK
<1>3. /\ OnePlace' /\ HandsFollow' /\ StartsUp' /\ Phases' /\ MemoryFollows'
      /\ Cardinality(Done') = Cardinality(Done) + 1 /\ Cardinality(Done') <= TaskCount
      /\ Cardinality(Done) \in Nat /\ TaskCount \in Nat /\ TaskCount <= MaxTasks
      /\ kind \in {"meeting", "stream", "bundle"}
      /\ mpc \in {"dispatch", "push", "help", "spin", "wait"}
      /\ \A u \in Threads \ {t} : pc'[u] = pc[u]
  BY <1>1, <1>2, CountFrame
<1>4. completed' = Cardinality(Done')
  BY <1>1, <1>3 DEF IInv, Counted
<1>5. completed' \in 0 .. MaxTasks
  BY <1>3, <1>4, Sizes
<1>6. TypeOK'
  BY <1>1, <1>2, <1>5 DEF TypeOK, NoTask
<1>7. Counted'
  BY <1>1, <1>3, <1>4 DEF Counted
<1>8. PostedOnce'
  BY <1>1, <1>2, <1>3 DEF IInv, PostedOnce
<1>9. OneTaskEach'
  <2>1. Met' = Met
    BY <1>1 DEF Met
  <2>2. kind = "meeting" => Met = Threads
    BY <1>1 DEF IInv, OneTaskEach
  <2> QED
    BY <1>1, <1>2, <1>3, <2>1, <2>2 DEF IInv, OneTaskEach
<1> QED
  BY <1>3, <1>6, <1>7, <1>8, <1>9 DEF IInv

(* A task of a bundle is counted; the last one makes the thread post.      *)
LEMMA CountBundleIInv ==
  ASSUME IInv, NEW t \in Threads, CountBundle(t)
  PROVE  IInv'
<1>1. /\ pc[t] = "count" /\ kind = "bundle" /\ left' = left - 1
      /\ pc' = [pc EXCEPT ![t] = IF left - 1 = 0 THEN "post" ELSE "idle"]
      /\ cur' = [cur EXCEPT ![t] = NoTask]
      /\ UNCHANGED <<queue, held, ran, sent, exits, base, known, startup, clear, mem,
                     meeting, mpc, kind, prepared, toclear, frame, frameBase>>
      /\ UNCHANGED <<completed, bundle_done>>
  BY DEF CountBundle, LastOfBundle, queueVars, startVars, memVars, masterVars
<1>2. /\ TypeOK /\ pc'[t] = (IF left - 1 = 0 THEN "post" ELSE "idle")
      /\ pc' = [pc EXCEPT ![t] = pc'[t]] /\ pc'[t] \in {"idle", "post"}
  BY <1>1 DEF IInv, TypeOK
<1>3. /\ OnePlace' /\ HandsFollow' /\ StartsUp' /\ Phases' /\ MemoryFollows'
      /\ Cardinality(Done') = Cardinality(Done) + 1 /\ Cardinality(Done') <= TaskCount
      /\ Cardinality(Done) \in Nat /\ TaskCount \in Nat /\ TaskCount <= MaxTasks
      /\ Cardinality(Done') = TaskCount => mpc # "push"
      /\ mpc \in {"dispatch", "push", "help", "spin", "wait"}
      /\ \A u \in Threads \ {t} : pc'[u] = pc[u]
  BY <1>1, <1>2, CountFrame
<1>4. left = TaskCount - Cardinality(Done)
  BY <1>1 DEF IInv, Counted
<1>5. left >= 1 /\ left' = TaskCount - Cardinality(Done') /\ left' \in 0 .. MaxTasks
  BY <1>1, <1>3, <1>4, Sizes
<1>6. left' = 0 => mpc = "wait"
  <2>1. left' = 0 => mpc # "push"
    BY <1>3, <1>5
  <2> QED
    BY <1>1, <1>3, <2>1 DEF IInv, Phases
<1>7. bundle_done = 0 /\ \A u \in Threads : pc[u] # "post"
  <2>1. left # 0
    BY <1>5
  <2> QED
    BY <1>2, <2>1 DEF IInv, PostedOnce, TypeOK
<1>8. TypeOK'
  BY <1>1, <1>2, <1>5 DEF TypeOK, NoTask
<1>9. Counted'
  <2>1. TaskCount' = TaskCount
    BY <1>1 DEF TaskCount
  <2> QED
    BY <1>1, <1>3, <1>5, <2>1 DEF Counted
<1>10. PostedOnce'
  <2>1. \A u \in Threads : pc'[u] = "post" => u = t /\ left' = 0
    BY <1>1, <1>2, <1>3, <1>7
  <2>2. (bundle_done' = 1 \/ \E u \in Threads : pc'[u] = "post") => mpc' = "wait" /\ left' = 0
    BY <1>1, <1>6, <1>7, <2>1
  <2> QED
    BY <1>1, <1>7, <2>1, <2>2 DEF PostedOnce
<1>11. OneTaskEach'
  BY <1>1 DEF IInv, OneTaskEach
<1> QED
  BY <1>3, <1>8, <1>9, <1>10, <1>11 DEF IInv

(* The thread that counted the last task of a bundle posts it.             *)
LEMMA PostBundleIInv ==
  ASSUME IInv, NEW t \in Threads, PostBundle(t)
  PROVE  IInv'
<1>1. /\ pc[t] = "post" /\ bundle_done' = bundle_done + 1 /\ pc' = [pc EXCEPT ![t] = "idle"]
      /\ UNCHANGED <<queue, held, cur, ran, sent, exits, base, known, startup, clear, mem,
                     completed, left, meeting, mpc, kind, prepared, toclear, frame,
                     frameBase>>
  BY DEF PostBundle, queueVars, startVars, memVars, masterVars
<1>2. TypeOK /\ pc'[t] = "idle" /\ \A u \in Threads \ {t} : pc'[u] = pc[u]
  BY <1>1 DEF IInv, TypeOK
<1>3. /\ bundle_done = 0 /\ bundle_done' = 1 /\ mpc = "wait" /\ left = 0
      /\ \A u \in Threads \ {t} : pc[u] # "post"
  <2>1. bundle_done = 0 /\ mpc = "wait" /\ left = 0 /\ \A u \in Threads \ {t} : pc[u] # "post"
    BY <1>1 DEF IInv, PostedOnce
  <2> QED
    BY <1>1, <2>1
<1>4. TypeOK'
  BY <1>1, <1>2, <1>3 DEF TypeOK
<1>5. \A k : ~Holds(t, k) /\ ~Holds(t, k)'
  BY <1>1, <1>2 DEF Holds, InTask
<1>6. OnePlace' /\ Done' = Done
  BY <1>1, <1>2, <1>5, KeepFrame
<1>7. HandsFollow'
  BY <1>1, <1>2 DEF IInv, HandsFollow, InTask
<1>8. StartsUp' /\ Phases'
  BY <1>1, <1>2, RunFrame
<1>9. Counted'
  BY <1>1, <1>6 DEF IInv, Counted, TaskCount, Batch
<1>10. PostedOnce'
  BY <1>1, <1>2, <1>3 DEF PostedOnce
<1>11. OneTaskEach'
  BY <1>1, <1>3 DEF IInv, Phases, OneTaskEach
<1>12. MemoryFollows'
  BY <1>1, <1>2 DEF IInv, MemoryFollows
<1> QED
  BY <1>4, <1>6, <1>7, <1>8, <1>9, <1>10, <1>11, <1>12 DEF IInv

-------------------------------------------------------------------------------
(* The invariant *)

(* The invariant holds when the process starts.                            *)
LEMMA InitIInv ==
  ASSUME Init
  PROVE  IInv
<1>1. /\ queue = <<>> /\ held = [t \in Threads |-> NoTask]
      /\ startup = 0 /\ known = {} /\ clear \in [Threads -> BOOLEAN]
      /\ mem = [t \in Threads |-> {}]
      /\ completed = 0 /\ left = 0 /\ bundle_done = 0 /\ meeting = 0
      /\ mpc = "publish" /\ kind = "none" /\ base = 0 /\ prepared = 0 /\ sent = 0
      /\ exits = 0 /\ toclear = {} /\ frame = 0 /\ frameBase = 0
      /\ pc = [t \in Threads |-> IF t = Master THEN "idle" ELSE "starting"]
      /\ cur = [t \in Threads |-> NoTask] /\ ran = [k \in AllTasks |-> 0]
  BY DEF Init, Q!TQInit
<1>2. TypeOK
  BY <1>1, Sizes DEF TypeOK, NoTask
<1>3. \A k \in AllTasks : ~Queued(k) /\ ~Pushed(k) /\ \A t \in Threads : ~Holds(t, k)
  <2>1. \A k : ~Queued(k) /\ \A t \in Threads : ~Holds(t, k)
    BY <1>1 DEF Queued, Holds, InTask
  <2>2. \A k : ~Pushed(k)
    BY <1>1, Sizes DEF Pushed, ExitTask
  <2> QED
    BY <2>1, <2>2
<1>4. OnePlace
  <2>1. \A i, j \in 1 .. Len(queue) : queue[i] = queue[j] => i = j
    BY <1>1
  <2> QED
    BY <1>1, <1>3, <2>1 DEF OnePlace
<1>5. HandsFollow
  BY <1>1 DEF HandsFollow, InTask
<1>6. \A w \in Workers : pc[w] = "starting"
  BY <1>1, TaskThreadAssumption, Sizes
<1>7. StartsUp
  <2>1. Ready = {} /\ Cardinality(Ready) = 0
    BY <1>6, FS_EmptySet DEF Ready
  <2>2. pc[Master] = "idle"
    BY <1>1, Sizes
  <2> QED
    BY <1>1, <1>6, <2>1, <2>2 DEF StartsUp
<1>8. Phases
  BY <1>1, Sizes DEF Phases
<1>9. Counted
  BY <1>1 DEF Counted
<1>10. PostedOnce
  BY <1>1 DEF PostedOnce
<1>11. OneTaskEach
  BY <1>1 DEF OneTaskEach
<1>12. MemoryFollows
  <2>1. \A k \in frameBase + 1 .. MaxTasks : ran[k] # 1
    <3>1. \A k \in frameBase + 1 .. MaxTasks : k \in AllTasks
      BY <1>1, Sizes DEF AllTasks
    <3> QED
      BY <1>1, <3>1
  <2> QED
    BY <1>1, <2>1 DEF MemoryFollows
<1> QED
  BY <1>2, <1>4, <1>5, <1>7, <1>8, <1>9, <1>10, <1>11, <1>12 DEF IInv

(* A step that changes nothing preserves it.                               *)
LEMMA StutterIInv ==
  ASSUME IInv, UNCHANGED vars
  PROVE  IInv'
<1>1. UNCHANGED <<queue, held, pc, cur, ran, sent, exits, base, known, startup, clear, mem,
                  completed, left, bundle_done, meeting, mpc, kind, prepared, toclear,
                  frame, frameBase>>
  BY DEF vars, queueVars, startVars, memVars, batchVars, masterVars, threadVars
<1>2. TypeOK' /\ Phases' /\ PostedOnce' /\ MemoryFollows'
  BY <1>1 DEF IInv, TypeOK, Phases, PostedOnce, MemoryFollows
<1>3. OnePlace' /\ HandsFollow' /\ Done' = Done
  BY <1>1, PlaceFrame
<1>4. StartsUp' /\ Counted' /\ OneTaskEach'
  BY <1>1, <1>3
     DEF IInv, StartsUp, Ready, Counted, TaskCount, Batch, OneTaskEach, Met
<1> QED
  BY <1>2, <1>3, <1>4 DEF IInv

(* Every step of a thread in task_main or task_run preserves it.           *)
LEMMA RunStepIInv ==
  ASSUME IInv, NEW t \in Threads, RunStep(t)
  PROVE  IInv'
<1>1. CASE Take(t)
  BY <1>1, TakeIInv
<1>2. CASE PopReturn(t)
  BY <1>2, PopReturnIInv
<1>3. CASE FlushFrame(t)
  BY <1>3, FlushFrameIInv
<1>4. CASE ResetFlag(t)
  BY <1>4, ResetFlagIInv
<1>5. CASE SkipFlush(t)
  BY <1>5, SkipFlushIInv
<1>6. CASE RunTask(t)
  BY <1>6, RunTaskIInv
<1>7. CASE LeaveMeeting(t)
  BY <1>7, LeaveMeetingIInv
<1>8. CASE RunExit(t)
  BY <1>8, RunExitIInv
<1>9. CASE CountStream(t)
  BY <1>9, CountStreamIInv
<1>10. CASE CountBundle(t)
  BY <1>10, CountBundleIInv
<1>11. CASE PostBundle(t)
  BY <1>11, PostBundleIInv
<1> QED
  BY <1>1, <1>2, <1>3, <1>4, <1>5, <1>6, <1>7, <1>8, <1>9, <1>10, <1>11 DEF RunStep

(* Every step of the main thread's program preserves it.                   *)
LEMMA MasterStepIInv ==
  ASSUME IInv, MasterStep
  PROVE  IInv'
<1>1. CASE PublishStartup
  BY <1>1, PublishStartupIInv
<1>2. CASE AwaitWorkers
  BY <1>2, AwaitWorkersIInv
<1>3. CASE StartFrame
  BY <1>3, StartFrameIInv
<1>4. CASE \E u \in Threads : FrameClear(u)
  BY <1>4, FrameClearIInv
<1>5. CASE OpenMeeting
  BY <1>5, OpenMeetingIInv
<1>6. CASE OpenStream
  BY <1>6, OpenStreamIInv
<1>7. CASE StreamDispatch
  BY <1>7, StreamDispatchIInv
<1>8. CASE \E n \in BundleSizes : SplitBundle(n)
  BY <1>8, SplitBundleIInv
<1>9. CASE PushTask
  BY <1>9, PushTaskIInv
<1>10. CASE StartHelping
  BY <1>10, StartHelpingIInv
<1>11. CASE StopHelping
  BY <1>11, StopHelpingIInv
<1>12. CASE SpinWait
  BY <1>12, SpinWaitIInv
<1>13. CASE BundleWait
  BY <1>13, BundleWaitIInv
<1>14. CASE CloseBatch
  BY <1>14, CloseBatchIInv
<1>15. CASE StartShutdown
  BY <1>15, StartShutdownIInv
<1>16. CASE PushExit
  BY <1>16, PushExitIInv
<1>17. CASE StartJoin
  BY <1>17, StartJoinIInv
<1>18. CASE Destroy
  BY <1>18, DestroyIInv
<1> QED
  BY <1>1, <1>2, <1>3, <1>4, <1>5, <1>6, <1>7, <1>8, <1>9, <1>10, <1>11, <1>12, <1>13,
     <1>14, <1>15, <1>16, <1>17, <1>18 DEF MasterStep

(* Every step of the system preserves it.                                  *)
LEMMA NextIInv ==
  ASSUME IInv, [Next]_vars
  PROVE  IInv'
<1>1. CASE MasterStep
  BY <1>1, MasterStepIInv
<1>2. CASE RunStep(Master)
  BY <1>2, RunStepIInv, Sizes
<1>3. ASSUME NEW w \in Workers, WorkerStep(w)
      PROVE  IInv'
  <2>1. w \in Threads
    BY Sizes
  <2> QED
    BY <1>3, <2>1, WorkerRegisterIInv, WorkerReadyIInv, RunStepIInv DEF WorkerStep
<1>4. CASE Finished \/ UNCHANGED vars
  BY <1>4, StutterIInv DEF Finished
<1> QED
  BY <1>1, <1>2, <1>3, <1>4 DEF Next

(* IInv holds in every state of the program.                               *)
THEOREM Invariance == Spec => []IInv
<1>1. Init => IInv
  BY InitIInv
<1>2. IInv /\ [Next]_vars => IInv'
  BY NextIInv
<1> QED
  BY <1>1, <1>2, PTL DEF Spec

(* Every variable has its type: the counters of a batch stay within its    *)
(* tasks, the one of the meeting within the threads, and bundle_completed  *)
(* is a binary semaphore.                                                  *)
THEOREM TypeCorrect == Spec => []TypeOK
<1>1. IInv => TypeOK
  BY DEF IInv
<1> QED
  BY <1>1, Invariance, PTL

-------------------------------------------------------------------------------
(* What the invariant says of the program *)

(* "all tasks must have been dispatched and completed": when the main      *)
(* thread goes on after a stream, a bundle or the meeting, each task has   *)
(* run once, none is queued, no thread is inside one and none has still to *)
(* post.                                                                   *)
THEOREM BatchesComplete == Spec => []BatchComplete
<1>1. IInv => BatchComplete
  <2> SUFFICES ASSUME IInv, mpc = "results"
               PROVE  /\ \A k \in Batch : ran[k] = 1
                      /\ kind # "bundle" => completed = TaskCount
                      /\ queue = <<>> /\ InTask = {} /\ Posters = {}
    BY DEF BatchComplete
  <2>1. /\ TypeOK /\ Phases /\ OnePlace /\ Done = Batch /\ kind # "none"
        /\ sent = prepared /\ queue = <<>> /\ InTask = {}
    BY NothingAfterBatch DEF IInv, Phases, Counted
  <2>2. /\ base \in Nat /\ prepared \in Nat /\ base <= prepared
    BY <2>1, Sizes DEF TypeOK, Phases
  <2>3. ASSUME NEW k \in Batch
        PROVE  ran[k] = 1
    <3>1. k \in 1 .. sent /\ Nowhere(k)
      BY <2>1, <2>2 DEF Batch, Done
    <3> QED
      BY <2>1, <3>1, TaskNumbers DEF OnePlace, Pushed
  <2>4. kind # "bundle" => completed = Cardinality(Batch)
    BY <2>1 DEF IInv, Counted, TypeOK
  <2>5. Cardinality(Batch) = TaskCount
    <3>1. Cardinality(base + 1 .. prepared) =
            IF base + 1 > prepared THEN 0 ELSE prepared - (base + 1) + 1
      BY <2>2, FS_Interval
    <3> QED
      BY <2>2, <3>1 DEF Batch, TaskCount
  <2>6. Posters = {}
    BY DEF Posters, IInv, PostedOnce
  <2> QED
    BY <2>1, <2>3, <2>4, <2>5, <2>6
<1> QED
  BY <1>1, Invariance, PTL

(* The main thread finds the result of every task of the batch in the      *)
(* memory of a thread: no worker flushes its memory within the frame.      *)
THEOREM ResultsStay == Spec => []ResultsPresent
<1>1. IInv /\ BatchComplete => ResultsPresent
  <2> SUFFICES ASSUME IInv, BatchComplete, mpc = "results", NEW k \in Batch
               PROVE  \E t \in Threads : k \in mem[t]
    BY DEF ResultsPresent
  <2>1. ran[k] = 1
    BY DEF BatchComplete
  <2>2. k \in frameBase + 1 .. MaxTasks
    BY Sizes DEF IInv, TypeOK, Phases, Batch
  <2> QED
    BY <2>1, <2>2 DEF IInv, MemoryFollows
<1> QED
  BY <1>1, Invariance, BatchesComplete, PTL

(* A task starts on memory without anything of an earlier frame.           *)
THEOREM FramesStartFresh == Spec => []FreshFrameMemory
<1>1. IInv => FreshFrameMemory
  <2> SUFFICES ASSUME IInv, NEW t \in Threads, pc[t] = "work", NEW k \in mem[t]
               PROVE  k > frameBase
    BY DEF FreshFrameMemory
  <2>1. mpc # "clear"
    <3>1. t \in InTask
      BY DEF InTask
    <3> QED
      BY <3>1, NothingBetween DEF IInv, Phases
  <2>2. t \notin toclear /\ ~clear[t]
    BY <2>1 DEF IInv, Phases, MemoryFollows
  <2> QED
    BY <2>2 DEF IInv, MemoryFollows
<1> QED
  BY <1>1, Invariance, PTL

(* Nobody inside task_run has a task or a stream of a batch that is over,  *)
(* and a bundle is posted while the main thread waits for it.              *)
THEOREM TasksStayInBatch == Spec => []NoUseAfterReuse
<1>1. IInv => NoUseAfterReuse
  <2> SUFFICES ASSUME IInv
               PROVE  NoUseAfterReuse
    OBVIOUS
  <2>1. ASSUME NEW t \in Threads, t \in InTask
        PROVE  cur[t] \in Batch \/ cur[t] > MaxTasks
    <3>1. cur[t] \in AllTasks /\ (cur[t] <= MaxTasks => cur[t] \in Batch)
      BY <2>1, TaskInHand
    <3> QED
      BY <3>1, Sizes DEF AllTasks
  <2>2. Posters # {} => kind = "bundle" /\ mpc = "wait"
    BY DEF Posters, IInv, PostedOnce, Phases
  <2> QED
    BY <2>1, <2>2 DEF NoUseAfterReuse, InTask
<1> QED
  BY <1>1, Invariance, PTL

(* The meeting runs one task on every thread, however the threads race for *)
(* the tasks.                                                              *)
THEOREM EveryThreadMet == Spec => []MeetingReachesAll
<1>1. IInv => MeetingReachesAll
  <2> SUFFICES ASSUME IInv, mpc = "results", kind = "meeting", NEW t \in Threads
               PROVE  Cardinality(mem[t]) = 1
    BY DEF MeetingReachesAll
  <2>1. /\ TypeOK /\ Phases /\ base = 0 /\ prepared = Cardinality(Threads)
        /\ Done = Batch /\ completed = Cardinality(Done)
    BY DEF IInv, OneTaskEach, Counted
  <2>2. completed > 0
    <3>1. prepared \in Nat /\ prepared > 0
      BY <2>1, Sizes
    <3>2. 1 \in Done /\ IsFiniteSet(Done)
      BY <2>1, <3>1, DoneFinite DEF Batch
    <3>3. Cardinality(Done) # 0 /\ Cardinality(Done) \in Nat
      BY <3>2, FS_EmptySet, FS_CardinalityType
    <3> QED
      BY <2>1, <3>3
  <2>3. mem[t] # {}
    BY <2>2 DEF IInv, OneTaskEach, Met
  <2>4. PICK k \in mem[t] : mem[t] = {k}
    BY <2>3 DEF IInv, OneTaskEach
  <2> QED
    BY <2>4, FS_Singleton
<1> QED
  BY <1>1, Invariance, PTL

(* When the system is destroyed every worker has left through an exit task *)
(* of its own: as many distinct exit tasks are gone as were pushed, so the *)
(* queue is empty.                                                         *)
THEOREM ShutdownIsQuiet == Spec => []QuietShutdown
<1>1. IInv => QuietShutdown
  <2> SUFFICES ASSUME IInv
               PROVE  QuietShutdown
    OBVIOUS
  <2>1. mpc \in {"exit", "join"} => known = Workers
    BY DEF IInv, StartsUp, Ready
  <2>2. ASSUME mpc = "destroyed"
        PROVE  /\ \A w \in Workers : pc[w] = "exited"
               /\ queue = <<>>
               /\ \A n \in 1 .. Cardinality(Workers) : ran[ExitTask(n)] = 1
    <3> DEFINE E == ExitTask(1) .. ExitTask(Cardinality(Workers))
               f == [w \in Workers |-> cur[w]]
    <3>1. /\ TypeOK /\ OnePlace /\ exits = Cardinality(Workers) /\ base = prepared
          /\ sent <= prepared /\ \A w \in Workers : pc[w] = "exited"
      BY <2>2 DEF IInv, Phases
    <3>2. sent \in Nat /\ base \in Nat /\ sent <= base
      BY <3>1, Sizes DEF TypeOK
    <3>3. \A k : Pushed(k) /\ k > base => k \in E
      <4>1. \A k \in 1 .. sent : ~(k > base)
        BY <3>2
      <4> QED
        BY <3>1, <4>1 DEF Pushed
    <3>4. \A w \in Workers : Holds(w, cur[w]) /\ cur[w] \in AllTasks /\ cur[w] \in E
      <4> SUFFICES ASSUME NEW w \in Workers
                   PROVE  Holds(w, cur[w]) /\ cur[w] \in AllTasks /\ cur[w] \in E
        OBVIOUS
      <4>1. Holds(w, cur[w]) /\ w \in Threads
        BY <3>1, Sizes DEF Holds
      <4>2. cur[w] \in AllTasks /\ Pushed(cur[w]) /\ cur[w] > base
        BY <4>1, HeldTask
      <4> HIDE DEF E
      <4> QED
        BY <3>3, <4>1, <4>2
    <3>5. \A v, w \in Workers : cur[v] = cur[w] => v = w
      BY <3>1, <3>4, Sizes DEF OnePlace
    <3>6. IsFiniteSet(E) /\ Cardinality(E) = Cardinality(Workers)
      <4> DEFINE a == MaxTasks + 1
                 b == MaxTasks + Cardinality(Workers)
      <4>1. a \in Int /\ b \in Int /\ a <= b /\ b - a + 1 = Cardinality(Workers) /\ E = a .. b
        BY Sizes DEF ExitTask
      <4> HIDE DEF a, b, E
      <4>2. IsFiniteSet(a .. b) /\ Cardinality(a .. b) = IF a > b THEN 0 ELSE b - a + 1
        BY <4>1, FS_Interval
      <4> QED
        BY <4>1, <4>2
    <3> HIDE DEF E
    <3>7. f \in Injection(Workers, E)
      BY <3>4, <3>5 DEF Injection, IsInjective
    <3> HIDE DEF f
    <3>8. f \in Surjection(Workers, E)
      BY <3>6, <3>7, FS_Injection
    <3>9. \A k \in E : \E w \in Workers : cur[w] = k
      BY <3>8 DEF Surjection, f
    <3>10. \A k \in E : ran[k] = 1
      BY <3>1, <3>4, <3>9, Sizes DEF OnePlace
    <3>11. \A k \in AllTasks : ~Queued(k)
      <4>1. ASSUME NEW k \in AllTasks, Queued(k)
            PROVE  FALSE
        <5>1. k \in E /\ \A t \in Threads : ~Holds(t, k)
          BY <3>1, <3>3, <4>1 DEF OnePlace
        <5> QED
          BY <3>4, <3>9, <5>1, Sizes
      <4> QED
        BY <4>1
    <3>12. queue = <<>>
      <4>1. queue # <<>> => 1 \in 1 .. Len(queue) /\ queue[1] \in AllTasks
        BY <3>1 DEF TypeOK
      <4> QED
        BY <3>11, <4>1 DEF Queued
    <3>13. \A n \in 1 .. Cardinality(Workers) : ExitTask(n) \in E
      BY Sizes DEF E, ExitTask
    <3> QED
      BY <3>1, <3>10, <3>12, <3>13
  <2> QED
    BY <2>1, <2>2 DEF QuietShutdown
<1> QED
  BY <1>1, Invariance, PTL
===============================================================================
