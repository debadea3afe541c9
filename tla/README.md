# A TLA+ model of the Dreamscape engine

The engine is written in C: a physics pipeline that runs in parallel on a task
system of its own, lock-free allocators, queues and a logger under it,
and a level editor on top.  This directory models the parts whose behaviour
depends on interleavings or on long histories, checks them with TLC on small
instances, and proves with TLAPS, for every size, the safety of the task queue,
the task system, the logger, the block allocators, the islands of the physics
pipeline, the lock-free cache of separating axes and the nodes of the user interface.
Paths below are relative to the root of the repository, `src/math/...`
standing for `src/src/math/...` in `PROJECT.json`.

## 1. Inventory

### Components and how they interact

| component | state | operations | depends on |
|---|---|---|---|
| task queue (`containers/parallel/fifo_spmc`) | array of tasks with `in_use` marks, a semaphore, a ticket counter | one producer pushes, any thread pops | semaphores, atomics |
| task system (`sys/ds_job`, `include/ds_job.h`) | workers with their memory, streams and bundles of tasks | start-up, `task_stream_dispatch`, `task_stream_spin_wait`, `task_bundle_split_range`, `task_main_master_run_available_jobs`, frame clears, shutdown | task queue, block allocators, logger |
| threads, semaphores, atomics (`base/ds_thread`, `base/sync_primitives`, `include/ds_atomic.h`) | thin wrappers of the operating system | wait, post, join, loads, stores and read-modify-writes | - |
| logger and tickets (`base/ds_log`, `base/ticket_factory`) | a ring of message slots, two ticket counters, a file | `LogWriteMessage`, `LogShutdown`, `TicketFactory...` | atomics, files |
| block allocators (`base/ds_allocator`) | a lock-free list of blocks, a stack of blocks for each thread | `ThreadBlockAlloc`, `ThreadBlockFree`, the 256B and 1MB allocators | atomics |
| arenas, rings and pools (`base/ds_allocator`) | a stack of allocations, a mapped ring, an array with a free list | push, pop, alloc, free | block allocators |
| bodies and shapes (`dynamics/ds_body`, `ds_shape`) | pools of bodies and shapes | add, remove | hierarchy, contacts, islands |
| contact database (`dynamics/contact_database`) | contacts by pair of shapes, two bit vectors of slots | add, remove, refresh in a tick | pools, hash map |
| island database (`dynamics/island`) | islands with lists of bodies and contacts, their flags | merge, split, sleep, wake, solve | bodies, contacts |
| physics pipeline (`dynamics/physics_pipeline`) | the phases of a tick | add and remove bodies, tick, switch sleeping | all of the above, task system |
| contact solver (`dynamics/contact_solver`) | none between ticks | iterate constraints of one island | islands |
| separating-axis cache (`include/ds_hash_map.h`, parallel pool and stack in `include/ds_allocator.h`) | a hash map, a pool and a Treiber stack shared by workers | lookup, add, remove | atomics |
| collision detection, bounding volume hierarchy (`math/`) | a tree of proxies | insert, remove, move, overlaps | - |
| linear algebra, geometry, random numbers (`math/`) | - | - | - |
| serial containers (`containers/`) | queues, bit vectors, lists, hierarchy index | - | pools |
| string database (`containers/string_database`) | interned strings with reference counts | add, reference, dereference | pool, hash map |
| command queue (`misc/cmd`) | registered functions, lists of commands | register, submit, execute | arenas |
| strings, time, serialization, architecture | - | conversions and queries | - |
| user interface (`misc/ui`) | a tree of nodes that lives from frame to frame, the field that edits text | begin, build and end a frame | hierarchy index, command queue |
| system layer, editor, assets and fonts, renderer | windows, input, the edited level | - | everything |

The main thread is the master of the task system: it alone pushes tasks.  A tick
of the pipeline opens two task streams (proxies and pairs for the collision
detection, then one task for each island) and waits for each before it goes on;
while it waits it runs tasks itself.  What tasks produce lies in the memory of
the thread that ran them, which the thread flushes once a frame, when a flag that
the main thread raises between frames tells it to.  Every thread logs, and every
thread takes its memory from the shared block allocators.  The editor calls the
pipeline between ticks: it adds and removes bodies, and it may switch sleeping.

### What is hard, and what makes each part correct

* **Task queue.**  A consumer first takes a token of the semaphore and only then
  a ticket, so the order of tokens is not the order of tickets, and a slow
  consumer is still in an entry when the producer has come round to it.  The
  ticket counter wraps at a power of two while the producer's index wraps at the
  length.  Correct: an entry has one owner, tasks leave once and in order, and
  every task is handed out.
* **Task system.**  Tasks of a batch are counted after they ran, the main thread
  helps and may find the queue empty while others still run, workers notice a
  new frame at their next task only, and memory is reused as soon as the main
  thread believes a batch complete.  The start-up meeting of all threads relies
  on each thread taking exactly one task.  Correct: a batch the main thread has
  waited for is complete and nobody is inside it; its results are still there;
  the next frame starts on clean memory; start-up, meeting and shutdown end.
* **Logger.**  Slots are reused as soon as their tickets are returned, one thread
  at a time writes for all, and the shutdown races with threads that are past its
  gate.  Correct: one owner for each slot, the file is in ticket order without
  gaps, an exit writes what was logged, the shutdown returns.
* **Block allocators.**  The classical ABA problem, solved by generations;
  generation 0 means "never allocated", so links of fresh blocks need not be
  written; batches of blocks are returned by one exchange.  Correct: no block
  lost, doubled or with two holders.
* **Islands.**  A tick merges islands over new contacts and splits them over
  broken ones, islands about to sleep may be merged, woken or removed, and bodies
  are added and removed between the phases' assumptions.  The contact bit vectors
  are shorter than the pool while it grows.  Correct: islands are the connected
  components; a contact is in the list of one island; an island sleeps and wakes
  as a whole; what loses its support wakes up.
* **Separating-axis cache.**  The threads of a tick look up and add, the main thread
  removes what the tick did not use.  A search unlinks nodes that others have
  marked, while the slots of unlinked nodes are freed to a stack per thread, stolen,
  and linked again under another key; every word carries a tag for this.  The
  usage bits of a tick are shorter than a pool that has grown in it.  Correct:
  callers see a map; no slot is lost or in two places; the usage bits are what is
  in the map.
* **User interface.**  It is immediate-mode, but its nodes are not: each frame adopts
  the nodes of the last one in whatever order and shape it is built, and prunes the
  rest.  Focus and text mode change by commands that run before the next frame,
  when the node they were about may be gone or may have moved.  Correct: the tree
  is what the frame built; the field that edits text is the one with the focus, and
  the ui's pointer to its text is good.

`PROJECT.json` lists 38 places where one of these bites, each with the properties
that would catch it, or with the reason why none does yet.

## 2. Modules

| module | models | role |
|---|---|---|
| `TaskQueue` | what the task queue promises | abstract specification, and the queue of `TaskSystem` |
| `FifoSpmc` | `containers/parallel/fifo_spmc.c` | every shared access a step; refines `TaskQueue` |
| `CommonLemmas` | - | lemmas on `%`, induction, and walks over lists |
| `FifoSpmc_proofs` | - | the proofs about `FifoSpmc`, and that it refines `TaskQueue` |
| `TaskSystem` | `sys/ds_job.c`, the streams and the meeting of the pipeline | composed with `TaskQueue` (`Q == INSTANCE TaskQueue`) |
| `TaskSystem_proofs` | - | the proofs about `TaskSystem` |
| `LogQueue` | `base/ds_log.c`, `base/ticket_factory.c` | |
| `LogQueue_proofs` | - | the proofs about `LogQueue` |
| `BlockAllocator` | `base/ds_allocator.c`, block allocators | |
| `BlockAllocator_proofs` | - | the proofs about `BlockAllocator` |
| `Islands` | `dynamics/physics_pipeline.c`, `island.c`, `contact_database.c`, `ds_body.c`, `ds_shape.c` | |
| `Islands_proofs` | - | the proofs about `Islands` |
| `KeyMap` | what the separating-axis cache promises | abstract specification |
| `SatCache` | `include/ds_hash_map.h` (parallel map), `include/ds_allocator.h` (parallel pool and stack), their use by `physics_pipeline.c` and `contact_database.c` | every shared access a step; refines `KeyMap` |
| `SatCache_proofs` | - | the proofs about `SatCache`, and that it refines `KeyMap` |
| `HierarchyIndex` | `containers/hierarchy_index.c` | operators on trees, used by `UiFrame` |
| `UiFrame` | `misc/ui/ui_core.c`, `misc/cmd.c`, clicks and escape of `sys/sys_event.c` | |
| `UiFrame_proofs` | - | the proofs about `HierarchyIndex` and `UiFrame` |
| `MC...` | - | instances for TLC, with the `.cfg` files |

In each module an operator with an underscore and a word after its name
(`EntryFree_Unchecked`, `Follow_AlwaysLink`) is a mutated form of the operator
that follows it: the bug that somebody might make there.  The specification does
not use it; `mutants` in `PROJECT.json` names, for every checked property, the one
whose substitution makes TLC find the property violated.

### FifoSpmc

`in_use` and `data` are the arrays of the queue, `sem` its semaphore, `a_first` its
ticket counter (modulo `CounterMod`, 2^32 in the code), `next_alloc` the
producer's index.  A push is `PushReserve` (spin until the entry is not in use,
mark it, advance), `PushStore`, `PushPost`.  A pop is `TakeToken` (the semaphore),
`PopClaim` (fetch-and-add), `PopLoad`, `PopRelease`.  Task `k` is the `k`-th pushed;
`pushed`, `claims`, `pos` and `returned` are history and influence nothing.
Only the main thread pushes and it pushes one task at a time (`ds_job.c` has no
other producer), while the main thread may also pop: while it pops, it does not
push.  Memory is sequentially consistent; the acquire and release orders of the
code are taken to give that for these accesses.

`Implements` is the refinement to `TaskQueue`: the queue is the sequence of
published tasks that no consumer has claimed (`QueueBar`), and what a consumer
holds is the entry it claimed (`HeldBar`).  A push takes effect when it posts the
semaphore, a pop when it claims its ticket, and an entry counts against the
capacity until it is released.

### TaskSystem

The main thread's program is the sequence of `mpc`: publish the start-up counter
and wait for the workers, then for at most `MaxFrames` frames `StartFrame`, raise
`clear` for each thread (`FrameClear`), and open batches, then shut down with one
exit task for each worker, join, and destroy.  A batch is the meeting
(`OpenMeeting`: `ThreadSetCollisionDebug`, once, at start-up), a stream
(`OpenStream`, `StreamDispatch`, `task_stream_spin_wait`) or a bundle
(`SplitBundle`, `BundleWait`).  `PushTask` pushes, `StartHelping`/`StopHelping` and
`Take` by the main thread are `task_main_master_run_available_jobs`.  Every thread runs a
task in the steps of `task_run`: `FlushFrame`, `ResetFlag` or `SkipFlush`; `RunTask`
or `LeaveMeeting` or `RunExit`; `CountStream`, or `CountBundle` and `PostBundle`.
The order of flush and reset, and of work and count, is that of the code.  `mem` is
what a thread has produced since its last flush.

### LogQueue

A message is a logger and a number.  `StartMessage` to `Complete` is
`LogWriteMessage` up to the mark of its slot; `OwnDisk` to `ReleaseDisk` is the
writing of completed messages by whoever gets `writing`; `CloseFactory` to
`DestroyFactory` is `LogShutdown`.  `OrderlyShutdown` calls it on the main thread when
all others have been joined; `FatalShutdown` calls it on any thread at any time, as
`FatalCleanupAndExit` does.  `a_serve != a_next` is two loads in either order.  The
tickets' semaphore is `available`.  `issued`, `file`, `number` (the number of the ticket a
thread holds) and `served` (how many messages have been written) are history and
influence nothing.

### BlockAllocator

An identifier is a generation and an index.  `a_next` is the top of the free list,
`header_id` and `header_next` the header of each block, `local_next` the stack of
each thread (its length is `local_count`, and the sentinel `local_next[0]` is
implied).  `cached` says whether the allocator has local stacks (the 256B
one) or not (the 1MB one); both are initial states of one specification.
`Store32` is the width of the store to `header->next` in the free: FALSE is
the meaning of `AtomicStoreRel32` in the Linux build (a generic builtin, as wide as
its operand), TRUE that of the Windows build.  The loads and exchanges of the
shared top are steps of their own; a step on memory that one thread owns is
merged with the next shared one.

### Islands

One action for each phase: `UpdateSolverConfig`, `CollisionDetection`,
`MergeTwoIslands` or `AppendContact` for each new contact,
`SplitIslandsAndRemoveContacts`, `SolveIslands`; and between ticks `AddBody`,
`RemoveDynamicBody`, `RemoveStaticBody`.  `failed` records that an assertion of the
code is false.  What is abstracted:

* a body has one shape, so a contact is between two bodies;
* lists of bodies and contacts are sets, an island is named by one of its bodies,
  and the pool of islands is left out; contact slots keep their numbers, since
  the bit vectors are indexed by them, and the smallest free slot comes first;
* lengths of the bit vectors are those of the pool (the code rounds up to a
  block of 64 bits, which only makes them longer: with the model's lengths
  growth happens within the bounds);
* pairs are handled in a fixed order, and new contacts are merged in any order
  (in the code both depend on the division of the work among threads);
* `low_velocity_time` is counted in ticks and stops at `Threshold`;
* which bodies touch is any set of pairs, but a pair neither of whose bodies has
  moved since the last tick goes on touching or not touching;
* `PhysicsPipelineFlush` and events are left out, and so is `RemoveMarkedBodies`:
  nothing in the repository marks a body;
* of the assertions, two in `isdb_SplitIsland` (`island.c:338`, `island.c:360`) are not
  recorded in `failed`: that the bodies of an island know it as theirs, and that the
  contacts they lead to have their bit of this tick where islands are split, are
  `Housed` and `BitsFollow` in the inductive invariant.

Nobody in the repository sets `pending_sleep_enabled`, but it is public and
`UpdateSolverConfig` has code for both changes, so the model switches it.

### SatCache

`link` holds the words of the hash map (`a_hash` of a bucket, `a_hash_node` of a
node: tag, mark and next), `a_head`, `tag` and `tail` the Treiber stacks of free
slots, `a_count_max`, `a_length`, `a_adding_memory` and `block` the pool, and `local` the
program counter and the local variables of each thread.  `Find...` is
`FindSnapshot` with its restarts, `Mark` to `RemoveLook` the loop of the removal,
`Pop...` and `Increment` to `UnlockGrow` are `TPoolAdd`, `Push...` is `TPoolRemove`,
`AddKey` to `AddReturn` the rest of `sat_CacheAdd`.  The map has two clients, chosen in
the initial state.  One is the tick: tasks look up and add (`ThreadCalculateContact`),
then the main thread alone finds stale caches, removes them and updates
`sat_cache_persistent_usage`; `cdb_Flush` may come between ticks.  The other calls
any operation on any thread, with one writer for each key at a time, as the header
asks: the header promises more than the tick uses, and a search that restarts
over a node being removed happens only here.

* Tags are natural numbers; in the code they have 32 bits.
* A restart of `FindSnapshot` is one step with the test that causes it: the word
  that failed the test never has its old value again, since tags only grow.
* A comparison with a key that is just being written, in a node that was
  unlinked and reused, may give either result (a data race in the code); the
  test of the tag that follows must discard it.
* The lookups inside assertions (`sat_CacheAdd`, `THashMapAdd`) are left out, and what
  a cache holds besides its key.  The random choice of a stack to steal from is any
  stack.

`ImplementsKeyMap` maps the lists to a map: `map` is `Held`, for each key the unmarked
node with that key that is reachable from its bucket.  An addition takes effect when
it links its node, a removal when it marks it.  For a lookup no single step can
be named in advance (whether the node it compared is still the right one is known
only at the test after it), so `KeyMap` lets it return anything the map held for the
key during the call, which `seen` collects.

### HierarchyIndex and UiFrame

A hierarchy is a function from slots to nodes, and `HiAdd`, `AdoptNodeExclusive`,
`AdoptNode` and `RemoveSubHierarchy` are the operations of the code as functions of
it.  The four branches by which `hi_AdoptNodeExclusive` unlinks a node are one
operator, `Splice`: the children, or nothing, take the node's place; where the code
leaves a link alone, that link has this value already.  Slot 0 is both the root stub
and the null index, and the code writes the siblings of slot 0 where a sibling is
missing; nobody reads them, and the model leaves them out.

`UiFrame` is the main loop of a window: `ProcessEvents`, one `CmdExecute` for each
queued command, `FrameBegin`, any sequence of `PanelAlloc`, `FieldAlloc` and `NodePop`,
`FrameEnd`.  `touched` is the set of nodes with this frame's number in
`last_frame_touched`, `focus` the set with `UI_INTER_FOCUS`.  An address is a slot with the
length of its pool, since `ds_PoolReallocInternal` moves the nodes when it grows.
What is abstracted:

* the pool hands out its least free slot instead of the last one freed; slots
  have no order otherwise;
* which field is hovered at the end of a frame is any that the frame built, or none;
* the text, its cursor, the commands that edit it and `focused` are left out;
* recursive interactions, culled nodes, the draw buckets, the caches of
  `ui_NodeAllocCached`, timelines, lists and popups are left out;
* a field of the internal buffer may end its editing in any frame in which it has the
  focus (enter, with a valid value, in the `ui_Field...` functions).

## 3. What is checked

| run | instance | checked |
|---|---|---|
| `fifo` | 2 workers and the main thread, 2 entries, `CounterMod` 4, 6 tasks | `OneOwnerPerEntry`, with the assertion of the pop; `TicketNamesTask`; `NeverReturnedTwice`; `Implements`; `EveryTaskReturned` |
| `tasks` | 2 workers and the main thread, capacity 2, 4 tasks, 2 frames, bundles of 2 or 3 | `BatchComplete`, `ResultsPresent`, `FreshFrameMemory`, `NoUseAfterReuse`, `MeetingReachesAll`, `QuietShutdown`, `Terminates` |
| `log` | 3 threads, 2 slots, `CounterMod` 4, 4 tickets | `SlotOwnership`, `FileInTicketOrder`, `TicketsBounded`, `OrderlyExitWritesAll`, `ShutdownReturns` |
| `blocks` | 2 threads, 4 blocks, local stacks of 3, 5 allocations | `EveryBlockOnce`, `ExchangeIsFresh`, `GenerationZeroIsFresh`, `LocalStackLinked` |
| `islands` | 3 dynamic bodies and a static one, 2 pairs at a time, 4 edits | `AssertionsHold`, `IslandsAreComponents`, `ContactsAccounted`, `SleepCoherent`, `ProxiesFresh`, `WokenWhenUnsupported` |
| `sat_cache` | 2 threads, 3 keys in one bucket, a pool of 1 that grows, 3 ticks of at most 2 pairs, or 4 calls after a warm-up | `SlotsAccounted`, `SlotsHaveMemory`, `PersistentUsageExact`, `ImplementsKeyMap` |
| `ui_frames` | a panel, a field of the internal buffer and an external one, 3 nodes in a frame, a pool of 4 that grows to 8 | `FrameTreeExact`, `TextModeCoherent` |

Each run also checks its module's `TypeOK`.  All of these hold.  Some of the
properties deserve a word.

* `ShutdownReturns` holds in a fatal exit as well, although messages are lost
  there: a thread that holds the disk or a ticket always gives it back.
* `BatchComplete` and `NoUseAfterReuse` count a thread as using a bundle until it has
  posted it, although it has let go of its task before: `Posters`.
* `SleepCoherent` says less than one would like: an island that was woken and is
  merged into an awake one in the same tick loses the demand to reset its
  timers (`island.c:254`), so its bodies may still be without `RB_AWAKE` until the
  next solve; the property is stated for islands after their solve.
* `AssertionsHold` is checked with one static body.  With two it fails, below.
* `PersistentUsageExact` holds only because a slot beyond the bit vector is never free
  when the vector grows: slots are freed after the tasks of a tick, and only
  those with a bit.  A removal of a cache by a task would break it.
* `SlotsHaveMemory` is about the growth of the pool, which several threads may ask for at
  once.  It says too that `TPOOL_ADDRESS` maps the slots below the length one to one to
  the cells of the blocks, which it computes without looking at them: it holds because
  each new block is as long as all before it together.
* `FrameTreeExact` gives for each node of a frame its parent, the sibling before it and its last
  child, so a walk backwards from the last child meets the children that were built, in
  order; `Linked`, its first part, says that `next` is the inverse of `prev` and `first` the
  other end, so a walk forwards does too.
* `TextModeCoherent` says nothing of the alias between the pruning of its node and the
  command that resets it; that is `AliasAlive`, which fails, below.

### Bounds, and why they are enough

* `fifo`: six tasks in two entries wrap the array three times and the ticket
  counter once, and the counter is as small as it can be with two entries and more
  than one lap.  Three consumers outnumber the entries.  The proofs cover all other
  sizes.
* `tasks`: a batch larger than the queue, batches of each kind after one another
  in one frame and across two, a worker that is still to notice a frame.
  Longer runs repeat these.
* `log`: the tickets run out (`ReserveFails` and the drop of a message happen), both
  counters wrap, and a thread is at any point when another shuts down.
  `MCBudget` gives the messages of each logger.
* `blocks`: a block is allocated, returned through the shared list or a batch and
  allocated again by either thread.  `GenMod` is larger than the number of
  allocations: the model does not wrap generations, and the code relies on 2^32 of
  them not wrapping within one exchange.  The threads are symmetric.
* `islands`: three bodies are the fewest for which an island is split while both
  halves matter, or a merge has a third party.  Two pairs at a time and those of
  the last tick are four contacts, so the pool (initially 2) grows and slots are
  reused.  With one edit more (5) nothing else was found.

* `sat_cache`: one bucket makes every operation meet every other in one list.  The
  warm-up leaves two free slots on the stack of one thread, so four more calls
  steal, reuse a slot under another key, and restart a search on a node that has gone
  and come back.  The pool grows several times, by both threads at once.  In the ticks, two
  of three pairs change from tick to tick, so caches go stale, and the third
  tick takes freed slots.  `StealMax` 1 is enough to find a slot in the other stack
  or in none.  `BitBlock` is 64 in the code; 1 lets the pool outgrow the vector.
  The mutants show that the bounds reach the races: dropping the test of the tag after a
  comparison is found, and freeing a node after a lost unlink.
* `ui_frames`: three nodes below the root can be siblings, a chain, or a parent with
  two children, in each of two frames: every branch of `hi_AdoptNodeExclusive` is taken.
  One of the nodes may be without an identifier, and is then always pruned.  Five
  slots are used besides that one, so the pool grows and moves while a field is edited.
  Two fields, one of each kind, are the fewest that pass the focus to each other.

### Fairness

* `fifo`: the producer and every worker keep running (weak fairness); the main
  thread finishes a pop that it has begun but need not take a task.
* `tasks`: weak fairness for every thread; strong fairness for `StartFrame` and
  `StartShutdown`, because the main loop never stays in a frame and the user closes
  the editor in the end.  The waits themselves get no help.
* `log`: weak fairness for the steps of each thread and for the orderly shutdown.
  Nothing forces a fatal error.
* `sat_cache`, `ui_frames`: none.  The cache is lock-free but for the growth of the pool,
  and a single operation of it may restart for ever; only safety is claimed.

Deadlock is checked in every run; `Finished` and `Exited` are the only states in
which a system may stop.

### Disagreements

Five runs are expected to find a violation: in each, the code does something else
than its own comment or assertion says.

* `log_fatal` (`ds_log.c:147`): the comment promises to spin until all messages are
  on disk.  In a fatal exit a thread that is past the gate takes its ticket after
  the two counters were compared, and its message is lost.  In an orderly
  exit the promise holds.
* `blocks_windows` (`ds_allocator.c:622`): a 64-bit identifier is stored with
  `AtomicStoreRel32`, on Windows a 32-bit exchange.  The generation keeps its old
  value and the links of a local stack are wrong.
* `islands_static` (`ds_shape.c:163`): nothing prevents a contact between two static
  bodies.  Removing one of them takes `ISLAND_STATIC` for an index of the pool, and
  the assertion there fails.
* `islands_try_sleep` (`ds_shape.c:199`): an island about to sleep whose static
  support is removed is set awake but still put to sleep in the next tick, in the
  air.  A merge overwrites the flag in the same situation.
* `ui_alias` (`ui_core.c:1109`): a field that has the focus and is left out of a frame is
  pruned at the end of that frame, in the call that queues the command to leave
  text mode.  `text_edit` still points into its node when that command runs and
  writes `focused`.  The notes in `include/ds_ui.h` ask every other owner of an aliased
  text to live a frame longer.

Seen while modelling, and not the subject of a run:

* The pointer in a queued `ui_TextInputModeEnable` is not renewed if the pool of nodes
  grows in the same frame after the field; the assertion of `ui_core.c:358` would see it.
  The renewal in `ui_FrameEnd` covers `text_edit`, not commands.
* An external text keeps `focused` = 1 when its field vanishes in the frame in which another
  gains the focus: the enabling of the other changes `text_edit_id`, and the
  command for the first does nothing.
* `RemoveMarkedBodies` passes the index of a body where `ds_RigidBodyRemove` expects an
  identifier (`physics_pipeline.c:724`), so a marked body would not be removed; nothing
  marks one.
* `hi_Remove` does not decrement the parent's count for a child in the middle
  (`hierarchy_index.c:228`); the trees it is used on never read the count.
* `ds_GPoolAdd` takes `next_free` with `POOL_ALLOCATION_MASK` where `ds_PoolAdd` has
  `POOL_INDEX_MASK` (`ds_allocator.c:955`).
* Rests shorter than the threshold add up, since `low_velocity_time` is only added to
  (`island.c:533`); blocks in the local stack of a thread that ends are lost
  (`ds_allocator.c:591`); `TicketFactoryGetTicket`, which nobody calls, takes
  `TICKET_FACTORY_CLOSED` for success (`ticket_factory.c:56`).
* The level editor has several functions that its own program does not call yet and
  that break the reference counts of its prefabs.  `led_RigidBodyPrefabRemove` moves
  on to the next instance before it removes (`led_core.c:681`): the first instance and
  its reference stay, and the index after the last is removed.
  `led_ShapePrefabDetachRenderMesh` keeps the index it dereferenced
  (`led_core.c:630`), so a second detach or the removal of the shape dereferences it
  again; `led_RigidBodyPrefabDetachShape` does not give the instance back to its pool
  (`led_core.c:744`).  `led_NodeLookup` assigns where it should compare
  (`led_core.c:49`), so a stale identifier finds, and renames, the node that took the
  slot.
* `LED_PROXY3D` is set nowhere, so the loop of `led_EngineFlush` does nothing and only
  `led_Refresh` resets the proxies (`led_core.c:1806`).  After a stop and a run the
  colour mode has not changed, and the proxies of static bodies keep the colour
  of their node until an event or a change of the mode recolours them.

## 4. What is proved

Each theorem below holds for every value of the constants that the assumptions of its
module allow.  A module's inductive invariant is called `IInv` and stands at the
end of the module (that of `SatCache` in the proof module), in named parts; the proof
module has one lemma for each action, `NextIInv` or `NextKept` puts them together,
`Invariance` concludes `Spec => []IInv`, and the other theorems follow from it and the
meaning of its parts.  `IInv` was checked with TLC on the instance of the module's run
before it was proved.

### The task queue

`FifoSpmc_proofs` holds for any set of workers that is finite and does not contain the
main thread (`ThreadAssumption`), any number of tasks (`BoundAssumption`), and any
length `N` that divides `CounterMod` (`SizeAssumption`).  `FifoSpmcInit`
asserts more, that the length is a power of two (`fifo_spmc.c:25`).  If the length
did not divide 2^32, the ticket counter and the producer's index would name
different entries once the counter has wrapped: the assumption is what that
assertion is for.

| theorem | says |
|---|---|
| `TypeCorrect` | `TypeOK` always: indices are inside the array |
| `Invariance` | `IInv` always |
| `EntryOwnership` | `OneOwnerPerEntry` always; with it, that the assertion of the pop never fails |
| `FirstInFirstOut` | `TicketNamesTask` always |
| `HandedOutOnce` | `NeverReturnedTwice` |
| `Refinement` | `Implements`: the array queue is a `TaskQueue` |

Ownership alone is not inductive.  That two consumers are in different entries
says nothing of a consumer about to claim, and that the producer waits on
`in_use` says nothing of entries that wrap.  The invariant therefore numbers
pushes and claims from 0.  Number `k` uses entry `k % N`
(`CountersAligned`, `OwnersInOrder`), whatever the counters have wrapped to; a number is
live from the producer's mark to the consumer's release; every token stands for one
published number that nobody has claimed (`TokensConserved`); live numbers have
entries that are marked and hold their tasks (`EntriesHoldTasks`); and no two live
numbers share an entry (`LiveEntriesDistinct`).  The last is the heart: only
`PushReserve` makes a number live, and it does so on an entry with `in_use` = 0,
which no live number has.  `ReturnedBefore` adds that what has been returned
belongs to no one who is still to return.

The refinement needs one more fact: that the array, read through the mapping, is the
queue of the history (`ArrayHoldsQueue`).  Then a post appends to the abstract queue
(`PostImplements`; `RoomForPush` counts the occupied entries, so the abstract queue has
room), a claim takes its head and puts it in the consumer's hand (`ClaimImplements`), a
release empties the hand (`ReleaseImplements`), and the other steps stutter.

### The logger

`LogQueue_proofs` holds for any finite number of threads and of messages, and any number of
slots that divides `CounterMod`, as `fifo_spmc` above.

| theorem | says |
|---|---|
| `TypeCorrect`, `Invariance` | `TypeOK` and `IInv` always |
| `SlotsOwned` | `SlotOwnership`: one owner for each slot |
| `FileOrdered` | `FileInTicketOrder`, in a fatal exit too |
| `ReturnAssertions` | `TicketsBounded`: the assertions of `TicketFactoryReturnTickets` |
| `OrderlyExitComplete` | `OrderlyExitWritesAll` |

The counters wrap, so nothing can be said of them in terms of each other.  `IInv` numbers
tickets by `number` and writes by `served`: `a_next` and `a_serve` are those numbers modulo
`CounterMod`, the numbers between them are at most as many as slots and so use
different ones (`Window`, `SlotsDistinct`), and the free tickets, those reserved, those out and
those written but not yet returned add up to the number of slots (`Bookkeeping`).  A slot
is marked completed only when the message of its number is in it, so what the writer
takes at `a_serve` is the next message of the file.  `OrderlyExit` follows the shutdown: when
all others have ended, nothing is out that the loop of `LogShutdown` does not see.

### The block allocators

`BlockAllocator_proofs` holds for any finite set of threads and any number of blocks, and for local
stacks and none.  All its theorems have the hypothesis `WholeLinks`: the link is stored
whole (`Store32` is FALSE, as in the Linux build) and there are fewer allocations than
generations.  Without the first the run `blocks_windows` is a counterexample, and
without the second an exchange could succeed on an identifier that has come round.  The code
relies on the second too; it is stronger than what is needed, that a generation does not come
round within one exchange.

| theorem | says |
|---|---|
| `TypeCorrect`, `Invariance` | `TypeOK` and `IInv` always |
| `BlocksHaveOneOwner` | `OneOwner`: a block has at most one holder, place in a local stack, or thread that moves it |
| `NoABA` | `ExchangeIsFresh`: an exchange that succeeds installs the link the block has now |
| `FreshBlocksFollow` | `GenerationZeroIsFresh`: the link of a fresh block need not be written |
| `StacksAreLinked` | `LocalStackLinked`: the batch is one list |
| `NoBlockLost` | `EveryBlockOnce`: each block is in one place, and the free list has an end |

`ExchangeIsFresh` is about a read and an exchange with anything in between.  `IInv` says what a
thread may still believe (`ReadSound`): if the block it has seen at the top is published
under the identifier it has seen, the link it has read is the one in the header; and an
identifier that has left the list has a smaller generation than the header from then on, so it
never is the top again.  `GenerationsCounted` bounds the generations by the number of
allocations.  `ListLeads` is the shape of the shared list without its order: what follows a
published block, or the top, is published or the fresh frontier, no two lead to one, and no set of
published blocks leads only to itself (`ListEnds`).  A push keeps the last part because old blocks
never lead to the new ones, and of the new ones the lowest leads to an old one.  That is what it takes
for a walk from `a_next` to visit every free block once (`WalkVisitsAll`), which gives `EveryBlockOnce`.

### The task system

`TaskSystem_proofs` holds for any finite set of workers, any capacity, number of frames and
number of tasks.

| theorem | says |
|---|---|
| `TypeCorrect`, `Invariance` | `TypeOK` and `IInv` always |
| `BatchesComplete` | `BatchComplete`: what `task_stream_cleanup` asserts |
| `ResultsStay` | `ResultsPresent`: no worker flushes what the main thread still reads |
| `FramesStartFresh` | `FreshFrameMemory` |
| `TasksStayInBatch` | `NoUseAfterReuse` |
| `EveryThreadMet` | `MeetingReachesAll`: each thread sets its own `tl_debug` |
| `ShutdownIsQuiet` | `QuietShutdown` |

A task that was pushed is in one place (`OnePlace`): in the queue, in the hands of one thread that has
not run it, or done.  `Counted` says that the counters of a stream or bundle are the number of
tasks that are done *and counted*, so equality with the number of tasks leaves no thread inside one;
this is where the order of work and count matters.  `PostedOnce` is the same for the
semaphore of a bundle, which the last task posts while the main thread waits.  `MemoryFollows` says where the results of a
frame are and which threads have not yet noticed the new frame.  The meeting is a pigeonhole
(`OneTaskEach`): as many tasks as threads, and a thread that has one waits until all have
one, so nobody takes two; the shutdown is another, with one exit task for each worker.

### Islands

`Islands_proofs` holds for any finite sets of dynamic and static bodies, any number of contacts, any
initial length of the pool and any threshold.

| theorem | says |
|---|---|
| `TypeCorrect`, `Invariance` | `TypeOK` and `IInv` always |
| `Components` | `IslandsAreComponents` |
| `ContactsInOneList` | `ContactsAccounted` |
| `SleepAsWhole` | `SleepCoherent` |
| `ProxiesUpToDate` | `ProxiesFresh` |
| `Woken` | `WokenWhenUnsupported` |
| `OnlyStaticPairsFail` | `AssertionsHold`, as long as no contact is of two static bodies (`StaticApart`) |

The properties speak of the states between the phases; in `MergeIslands` the islands are neither
the components of the old contacts nor of the new ones.  `IInv` takes the contacts that are settled
(`Settled`) instead, and says of them at every step that they do not lead from one island to
another (`Together`), that an island has no part they do not connect (`Joined`), and that each
is in the list of its island (`Listed`).  `Joined` speaks of all sets of bodies that no contact leaves
rather than of paths, so a merge and a split preserve it without an induction, and with
`ComponentIs`, that `Component` is the least such set, it gives the components.
One set of lemmas (`SplitResult` to `SplitFlags`) covers the three callers of `isdb_SplitIsland`:
`Splitting` is what they have in common.

`BitsFollow` is the accounting of the bit vectors.  `MergeIslands` can set all bits of a region by
which the pool has grown because slots above the old length are used without a gap, which
follows from the order in which free slots are taken (`FreeRanks`, `CollisionKeys`).  `StirredAwake` joins sleep and
collision detection: only bodies that moved or were added gain or lose a contact, and those are
awake; so of two islands that are merged one is awake (`MergeAsserts`) and so is a body whose contact with
a static one is broken (`BrokenWakes`).

`OnlyStaticPairsFail` complements the run `islands_static`: a contact of two static bodies is the only
way to a failed assertion.

### The user interface

`UiFrame_proofs` holds for any sets of panels and fields, any size of the pool and any number of nodes.

| theorem | says |
|---|---|
| `Invariance` | `IInv` always |
| `TextCoherent` | `TextModeCoherent` |
| `FullInvariance` | `IInv`, `FrameInv` and the counts always |
| `TreeOfFrame` | `FrameTreeExact`: the links and counts agree, and after a frame the pool holds its nodes and no other, in their places |
| `TypesKept` | `TypeOK` always |
| `AdoptNodeExclusiveLinks`, `AdoptNodeLinks`, `HiAddLinks`, `RemoveLinks` | the operations of the hierarchy index keep any hierarchy `Linked` |

A field may have the focus only while its node exists, so the text depends on what the pruning of a
frame removes, and that on the links of the tree.  `Linked` is what the operations of the hierarchy
keep: siblings know each other and have one parent, the ends of a list are the first and last
child of their parent, and no set of nodes leads only to itself, along `next` (`ListsEnd`) or upwards
(`ParentsEnd`).  It says nothing of the counts, and speaks of sets instead of walks, so that no step
needs an induction; only what `RemoveSubHierarchy` collects and what the loop of `ui_FrameEnd`
leaves do (`SubHierarchyIs`, `PrunedIs`).  `Loose` is `Linked` but for a node that has left its list
and is not yet in another.

`TreeInv` says that while a frame is built the nodes that are touched hang under its root, so none is a
descendant of a child of the orphan stub, and the pruning leaves them (`PruneOneKeeps`).  `TextInv` says what
the queue holds: a turn (`Enable`) is queued once, for a field that has the focus, is
not the one that is edited, and has been built in this frame; so when `ui_TextInputModeEnable` runs its
field still has the focus, and a field is never asked to take the turn it has.

`FrameInv` stands beside `IInv` at the end of `UiFrame`, and was checked with TLC on the instance of
`ui_frames` (559,996 states) before it was proved.  It says that the nodes built so far are linked as
they were built, the last child of each being the last built under it, and that a node of the last
frame that was not built again hangs under another such node or under the orphan stub, never under a
node of this frame.  That rests on `hi_AdoptNodeExclusive` leaving a node's children behind.  The
counts are the numbers of children after each operation, one lemma for each (`HiAddCounted`,
`AdoptNodeExclusiveCounted`, ...).  `PrunedExactly` is the end of the frame: each step of the loop in
`ui_FrameEnd` frees at least one node, so after `MaxSlots` steps the orphan stub has no child
(`NoneLeft`); every node that was not built leads upwards through such nodes to the orphan stub, or
is in a circle, which `ParentsEnd` excludes; so none is left.

### The separating-axis cache

`SatCache_proofs` holds for any set of threads, keys and buckets, any hash, any number of slots and any
initial length of the pool that is not 0, any block length of the bit vector, and any warm-up
(`CacheAssumption`).  Tags are natural numbers and never come round, as in the model.

| theorem | says |
|---|---|
| `Invariance`, `TypesKept` | `IInv` and `TypeOK` always |
| `SlotsInOnePlace` | `SlotsAccounted`: no slot is lost or in two places |
| `PersistentExact` | `PersistentUsageExact`: between ticks the bits are the caches in the map |
| `Refinement` | `ImplementsKeyMap`: the lists are a `KeyMap` |
| `PoolInvariance`, `MemoryForSlots` | `PoolInv`, and `SlotsHaveMemory`: every slot in use has a cell of its own |

`IInv` is much longer than what it proves and stands at the head of the proof module; it was checked
with TLC on the instance of `sat_cache` (1,058,635 states) before it was proved.  Its shared part
says that no two pointers lead to the same node (`Separate`, for the chains and for the stacks), that a
marked node in a chain has one thread that removes it (`ListInv`), that a pointer on a stack has
the tag of the last push of its slot (`StackInv`), and where each slot is (`AccountInv`).  The other
part is what a thread knows from words it has read:

* `Fresh(n, w, b)`: `n` had the word `w` while it was in the list of bucket `b`; if its tag is still that
  of `w`, neither has changed.  This is what the exchanges of a search rely on.
* `Ahead` (in `CompleteInv`): as long as the word of the previous node is the one that was read, the node
  to be removed, or the one a lookup must not miss, is after it.  So a search that ends without a
  result has ended at a moment when the map did not have the key.
* `PopInv`: if the slot seen at the top of a stack is on a stack and still has the tag that was seen,
  the tail that was read is its tail.  A slot popped and pushed again has another tag.

A marked node may be unlinked by any thread that passes, while its remover still holds it; `RemoveInv` says
that the remover does not free it before it has left the chain.  The second search after a lost exchange is
there for this, and the mutant of `AfterLostBypass` breaks it.

With any number of threads, what one of them knows must survive every step of every other.
The proof is therefore one of rely and guarantee: `Rely(u)` says what a step of `u` may do to the words,
the map and the stacks (the tag of a word in a list grows when the word changes, a marked word does not
change while it is in one, and only marked nodes leave), and `OthersKept` concludes from it that what all others know stays
true.  Each action has one lemma: it satisfies `Rely`, and its thread knows what it should at its next place.
`TickInv` is the protocol of the tick: a pair has one task, and what is in the map is what was
there and what has been taken into the frame's output, or has just been linked.

The refinement needs `SeenInv`: a call under way has seen the present value of its key.  Then the steps
are those that begin a call (`StartBegins`), take effect (`TakesEffect`: `AddLink` and `Mark`), return
(`ReturnsOnce`), or stutter (`Stutters`).

`PoolInv` says that the `b`-th block has the length of all before it together, so that the length is
`InitialLength` times a power of two (`Geometry`), and that one thread at a time is between `LockGrow`
and `UnlockGrow`.  `AddressesFit` derives the addresses: the digits that `Clz32` finds name the block in which the
slot lies.  The code rounds the initial length up to a power of two, so that a mask gives the place in
the block; the model divides, and the theorem holds for any length.

### Common lemmas

`CommonLemmas` has the facts on remainders the proofs need: the remainder exists, is
unique, follows its successor and a sum; that of a multiple may be taken first; and numbers
closer than the divisor have different remainders.  It also has induction on the natural numbers, stated
for a set (`Induction`, from the well-foundedness of `<`), the existence of iterations, without which
nothing can be said of a recursive function, that an iteration which only adds to a subset of a finite
set is at rest after as many steps (`Saturates`), and `WalkVisitsAll`.

### Only model-checked

The liveness properties (`EveryTaskReturned`, `Terminates`, `ShutdownReturns`), which are out of the reach of
the prover.  All other properties that the runs find to hold are proved.

## 5. What is not modelled

* The solver, collision detection, the bounding volume hierarchy and geometry are
  floating point; `Islands` takes their results as choices.
* The renderer, assets and fonts, and most of the system layer are
  input and output around the core, on one thread.
* Of the user interface: layout, drawing, the editing of text, lists, timelines and
  popups, which build a window of their own inside a command.
* Weak memory: every shared access is one step of a sequentially consistent memory,
  so nothing here says that an order such as `AtomicLoadAcq` is strong enough.
* The level editor: at run time it builds one fixed scene and then only runs, pauses and
  stops the pipeline between ticks; the functions that remove prefabs and nodes, which
  its reference counts are for, have no caller (section 3 lists what reading them showed).
* The string database, lists, trees, the serial hash map, rings and arenas:
  sequential, and small enough for the tests of the repository.
* Vendored code (`src/lib`: OpenGL headers, image and number conversion) is most of the
  lines of the repository and no part of its logic.

## 6. Plan

Done, in this order: `TaskQueue` and `FifoSpmc` with their proofs, `TaskSystem` over
`TaskQueue`, `LogQueue`, `BlockAllocator`, `Islands`, `KeyMap` and `SatCache`,
`HierarchyIndex` and `UiFrame`.

What could still be modelled, by what it would give: popups and the list of commands
of the next frame, added to `UiFrame`; contact events that keep identifiers over several
ticks (`containers/list.c:261`), added to `Islands`; the reference counts of the string
database.

Proved, in this order: the safety of `FifoSpmc` and its refinement of `TaskQueue`, `LogQueue`,
`BlockAllocator`, `TaskSystem`, `Islands`, `TextModeCoherent` of `UiFrame` with the operations of
`HierarchyIndex`, `SatCache` with its refinement of `KeyMap`, and `FrameTreeExact` of `UiFrame`.  So every
safety property of a run that holds is proved.  What is left: that the tags of `SatCache` and the
generations of `BlockAllocator` may wrap when their width is larger than what happens within one exchange,
as the code relies on.
