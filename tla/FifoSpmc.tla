------------------------------- MODULE FifoSpmc -------------------------------
(***************************************************************************)
(* The single-producer, multi-consumer queue of the task system            *)
(* (include/fifo_spmc.h, src/containers/parallel/fifo_spmc.c), one action  *)
(* per access to shared memory.                                            *)
(*                                                                         *)
(* The master thread is the only producer; it pops too, whenever it helps  *)
(* with the tasks it has dispatched.  A consumer first takes a token from  *)
(* the semaphore able_for_reservation (that is its caller's SemaphoreWait  *)
(* or SemaphoreTryWait), and FifoSpmcPop then claims an entry with a       *)
(* fetch-and-add on a_first.  The payload of the k-th push is the number   *)
(* k, so that a task names the push it came from.                          *)
(*                                                                         *)
(* Memory is sequentially consistent here; the code uses acquire loads of  *)
(* data, release stores of in_use and data, and the semaphore.             *)
(***************************************************************************)
EXTENDS Integers, FiniteSets

CONSTANTS
  Workers,      (* the worker threads                                      *)
  Master,       (* the main thread: producer, and consumer when it helps   *)
  N,            (* max_entry_count                                         *)
  CounterMod,   (* a_first wraps at this value: 2^32 in the code           *)
  MaxPush       (* bound on the number of pushes                           *)

ASSUME SizeAssumption ==
  /\ N \in Nat \ {0}
  /\ CounterMod \in Nat \ {0}
  /\ \E j \in 1 .. CounterMod : CounterMod = N * j

ASSUME ThreadAssumption ==
  /\ IsFiniteSet(Workers)
  /\ Master \notin Workers

ASSUME BoundAssumption == MaxPush \in Nat

(* The data of an entry that was never written.                            *)
NULL == 0

Threads == Workers \cup {Master}

Slots == 0 .. N - 1

(* The entry a counter stands for.                                         *)
SlotOf(k) == k % N

VARIABLES
  in_use,       (* entries[i].in_use                                       *)
  data,         (* entries[i].data                                         *)
  sem,          (* value of able_for_reservation                           *)
  a_first,      (* ticket of the next pop, modulo CounterMod               *)
  next_alloc,   (* where the producer allocates next                       *)
  ppc,          (* where the producer is in FifoSpmcTryPush                *)
  pslot,        (* its local next                                          *)
  pc,           (* where each thread is in taking and popping a task       *)
  idx,          (* the local i of each thread's FifoSpmcPop                *)
  val,          (* its local data                                          *)
  (* history *)
  pushed,       (* number of pushes published                              *)
  claims,       (* number of fetch-and-adds on a_first                     *)
  pos,          (* the claim number behind each thread's idx               *)
  returned      (* the data returned by FifoSpmcPop so far                 *)

vars == <<in_use, data, sem, a_first, next_alloc, ppc, pslot, pc, idx, val,
          pushed, claims, pos, returned>>

Init ==
  /\ in_use = [i \in Slots |-> 0]
  /\ data = [i \in Slots |-> NULL]
  /\ sem = 0
  /\ a_first = 0
  /\ next_alloc = 0
  /\ ppc = "idle"
  /\ pslot = 0
  /\ pc = [t \in Threads |-> "idle"]
  /\ idx = [t \in Threads |-> 0]
  /\ val = [t \in Threads |-> NULL]
  /\ pushed = 0
  /\ claims = 0
  /\ pos = [t \in Threads |-> 0]
  /\ returned = {}

(***************************************************************************)
(* The accesses to an entry's mark and to the ticket counter, each beside  *)
(* the faulty variants that the mutation runs put in its place.            *)
(***************************************************************************)
EntryFree_Unchecked(i) == TRUE
EntryFree(i) == in_use[i] = 0

Marked_Forgotten(i) == in_use
Marked(i) == [in_use EXCEPT ![i] = 1]

Unmarked_Forgotten(i) == in_use
Unmarked(i) == [in_use EXCEPT ![i] = 0]

NextTicket_NoWrap(ticket) == ticket + 1
NextTicket_Lost(ticket) == IF ticket = 2 THEN ticket ELSE (ticket + 1) % CounterMod
NextTicket(ticket) == (ticket + 1) % CounterMod

Posted_Lost(tokens) == tokens
Posted_Twice(tokens) == tokens + 2
Posted(tokens) == tokens + 1

(***************************************************************************)
(* The producer.  A push that finds the entry in use returns 0, and        *)
(* FifoSpmcPush tries again: nothing changes.  Only the producer sets      *)
(* in_use and only it touches next_alloc, so the test of in_use and the    *)
(* two plain stores that follow it are one step.                           *)
(***************************************************************************)
PushReserve ==
  /\ ppc = "idle"
  /\ pc[Master] = "idle"
  /\ pushed < MaxPush
  /\ LET next == SlotOf(next_alloc)
     IN /\ EntryFree(next)
        /\ pslot' = next
        /\ next_alloc' = next + 1
        /\ in_use' = Marked(next)
  /\ ppc' = "store"
  /\ UNCHANGED <<data, sem, a_first, pc, idx, val, pushed, claims, pos, returned>>

PushStore ==
  /\ ppc = "store"
  /\ data' = [data EXCEPT ![pslot] = pushed + 1]
  /\ ppc' = "post"
  /\ UNCHANGED <<in_use, sem, a_first, next_alloc, pslot, pc, idx, val,
                 pushed, claims, pos, returned>>

(* SemaphorePost publishes the entry.                                      *)
PushPost ==
  /\ ppc = "post"
  /\ sem' = Posted(sem)
  /\ pushed' = pushed + 1
  /\ ppc' = "idle"
  /\ UNCHANGED <<in_use, data, a_first, next_alloc, pslot, pc, idx, val,
                 claims, pos, returned>>

(***************************************************************************)
(* A consumer.  The master pops only between two of its pushes.            *)
(***************************************************************************)
TakeToken(t) ==
  /\ pc[t] = "idle"
  /\ t = Master => ppc = "idle"
  /\ sem > 0
  /\ sem' = sem - 1
  /\ pc' = [pc EXCEPT ![t] = "claim"]
  /\ UNCHANGED <<in_use, data, a_first, next_alloc, ppc, pslot, idx, val,
                 pushed, claims, pos, returned>>

(* AtomicFetchAddRlx32(&q->a_first, 1) % q->max_entry_count                *)
PopClaim(t) ==
  /\ pc[t] = "claim"
  /\ idx' = [idx EXCEPT ![t] = SlotOf(a_first)]
  /\ a_first' = NextTicket(a_first)
  /\ pos' = [pos EXCEPT ![t] = claims]
  /\ claims' = claims + 1
  /\ pc' = [pc EXCEPT ![t] = "load"]
  /\ UNCHANGED <<in_use, data, sem, next_alloc, ppc, pslot, val, pushed, returned>>

PopLoad(t) ==
  /\ pc[t] = "load"
  /\ val' = [val EXCEPT ![t] = data[idx[t]]]
  /\ pc' = [pc EXCEPT ![t] = "release"]
  /\ UNCHANGED <<in_use, data, sem, a_first, next_alloc, ppc, pslot, idx,
                 pushed, claims, pos, returned>>

(* The entry goes back to the producer and the pop returns what it loaded. *)
PopRelease(t) ==
  /\ pc[t] = "release"
  /\ in_use' = Unmarked(idx[t])
  /\ returned' = returned \cup {val[t]}
  /\ pc' = [pc EXCEPT ![t] = "idle"]
  /\ UNCHANGED <<data, sem, a_first, next_alloc, ppc, pslot, idx, val,
                 pushed, claims, pos>>

Push == PushReserve \/ PushStore \/ PushPost

Pop(t) == TakeToken(t) \/ PopClaim(t) \/ PopLoad(t) \/ PopRelease(t)

(* Every push the bound allows is published and every task handed out.     *)
Finished ==
  /\ pushed = MaxPush
  /\ returned = 1 .. MaxPush
  /\ UNCHANGED vars

Next == Push \/ (\E t \in Threads : Pop(t)) \/ Finished

Spec == Init /\ [][Next]_vars

(***************************************************************************)
(* Workers loop on the semaphore for ever and the scheduler runs every     *)
(* thread, so a worker that can take a step eventually takes one.  Nothing *)
(* makes the master help: it may push and never pop.                       *)
(***************************************************************************)
Fairness ==
  /\ WF_vars(Push)
  /\ \A w \in Workers : WF_vars(Pop(w))
  /\ WF_vars(PopClaim(Master) \/ PopLoad(Master) \/ PopRelease(Master))

FairSpec == Spec /\ Fairness

-------------------------------------------------------------------------------
(* Properties *)

TypeOK ==
  /\ in_use \in [Slots -> {0, 1}]
  /\ data \in [Slots -> Nat]
  /\ sem \in Nat
  /\ a_first \in 0 .. CounterMod - 1
  /\ next_alloc \in 0 .. N
  /\ ppc \in {"idle", "store", "post"}
  /\ pslot \in Slots
  /\ pc \in [Threads -> {"idle", "claim", "load", "release"}]
  /\ idx \in [Threads -> Slots]
  /\ val \in [Threads -> Nat]
  /\ pushed \in Nat
  /\ claims \in Nat
  /\ pos \in [Threads -> Nat]
  /\ returned \subseteq Nat

(* The threads that hold an entry, and those with a token but no entry.    *)
Owners == {t \in Threads : pc[t] \in {"load", "release"}}
TokenHolders == {t \in Threads : pc[t] = "claim"}

(* "Whatever index we get, we own": an entry that a consumer has claimed   *)
(* is in use until that consumer releases it, as FifoSpmcPop asserts; no   *)
(* two consumers are in one entry, and the producer never writes an entry  *)
(* that a consumer is still reading, however often the queue and the       *)
(* ticket counter have wrapped.                                            *)
OneOwnerPerEntry ==
  /\ \A t \in Owners : in_use[idx[t]] = 1
  /\ \A t, u \in Owners : t # u => idx[t] # idx[u]
  /\ ppc # "idle" => \A t \in Owners : idx[t] # pslot

(* A consumer returns the very task that its ticket stands for: tasks      *)
(* leave in the order of their pushes, none is lost, repeated or stale.    *)
TicketNamesTask ==
  \A t \in Threads : pc[t] = "release" => val[t] = pos[t] + 1

(* No task is handed out twice.                                            *)
NeverReturnedTwice ==
  [][\A t \in Threads : pc[t] = "release" /\ pc'[t] = "idle"
        => val[t] \notin returned]_vars

(* Every push gets through, the queue full or not, and every task is       *)
(* handed to a thread, as long as the workers keep running.                *)
EveryTaskReturned == <>(returned = 1 .. MaxPush)

(***************************************************************************)
(* The inductive invariant.  Pushes and claims are numbered from 0 and the *)
(* k-th of each uses the entry SlotOf(k).  A number is live while its      *)
(* entry is taken: from the producer's reservation to the release.         *)
(***************************************************************************)
Live ==
  (claims .. pushed - 1)
    \cup {pos[t] : t \in Owners}
    \cup (IF ppc = "idle" THEN {} ELSE {pushed})

(* The two counters follow the numbering in spite of their wrapping.       *)
CountersAligned ==
  /\ a_first = claims % CounterMod
  /\ SlotOf(next_alloc) = SlotOf(IF ppc = "idle" THEN pushed ELSE pushed + 1)
  /\ ppc # "idle" => pslot = SlotOf(pushed)

(* Every token stands for one published and unclaimed task.                *)
TokensConserved == claims + Cardinality(TokenHolders) + sem = pushed

EntriesHoldTasks ==
  /\ \A k \in Live : in_use[SlotOf(k)] = 1
  /\ \A k \in Live \ {pushed} : data[SlotOf(k)] = k + 1
  /\ ppc = "post" => data[pslot] = pushed + 1

LiveEntriesDistinct ==
  \A k, l \in Live : SlotOf(k) = SlotOf(l) => k = l

OwnersInOrder ==
  /\ \A t \in Owners : pos[t] < claims /\ idx[t] = SlotOf(pos[t])
  /\ \A t, u \in Owners : pos[t] = pos[u] => t = u

ReturnedBefore ==
  \A v \in returned :
    v <= claims /\ \A t \in Owners : v # pos[t] + 1

IInv ==
  /\ TypeOK
  /\ CountersAligned
  /\ TokensConserved
  /\ EntriesHoldTasks
  /\ LiveEntriesDistinct
  /\ OwnersInOrder
  /\ TicketNamesTask
  /\ ReturnedBefore

(***************************************************************************)
(* The queue implements TaskQueue.  A push takes effect when it posts the  *)
(* semaphore and a pop when it claims its ticket.                          *)
(***************************************************************************)
QueueBar ==
  [k \in 1 .. sem + Cardinality(TokenHolders) |-> data[SlotOf(a_first + k - 1)]]

HeldBar == [t \in Threads |-> IF t \in Owners THEN data[idx[t]] ELSE NULL]

TQ == INSTANCE TaskQueue WITH
        Tasks <- 1 .. MaxPush, Consumers <- Threads, Capacity <- N, None <- NULL,
        queue <- QueueBar, held <- HeldBar

Implements == TQ!TQSpec
===============================================================================
