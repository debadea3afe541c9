---------------------------- MODULE BlockAllocator ----------------------------
(***************************************************************************)
(* The lock-free allocator of fixed-size blocks (threadBlockAllocator in   *)
(* src/base/ds_allocator.c), one action per access to shared memory.       *)
(*                                                                         *)
(* a_next is a generation and a block index in one word.  Blocks from the  *)
(* index of a generation-0 word upwards were never allocated; a word of a  *)
(* later generation is the top of a list of freed blocks linked through    *)
(* their headers, at the end of which the never allocated blocks begin.    *)
(*                                                                         *)
(* The 1MB blocks are allocated and freed one by one.  The 256B blocks go  *)
(* through a stack of freed blocks local to the thread, whose upper half   *)
(* is returned as one list when it is full (cached).                       *)
(***************************************************************************)
EXTENDS Integers, Sequences, FiniteSets

CONSTANTS
  Threads,
  MaxCount,   (* max_count                                                 *)
  LocalMax,   (* LOCAL_MAX_COUNT, one more than the local stack holds      *)
  LocalLow,   (* LOCAL_FREE_LOW                                            *)
  GenMod,     (* generations wrap at this value: 2^32 in the code          *)
  Store32,    (* whether AtomicStoreRel32 stores the low half only, as     *)
              (* _InterlockedExchange does in the Windows build            *)
  MaxAllocs   (* bound on the number of allocations                        *)

ASSUME AllocatorAssumption ==
  /\ IsFiniteSet(Threads) /\ MaxCount \in Nat \ {0}
  /\ Store32 \in BOOLEAN
  /\ LocalMax \in Nat /\ LocalLow \in Nat
  /\ 1 <= LocalLow /\ LocalLow <= LocalMax - 1
  /\ GenMod \in Nat \ {0} /\ MaxAllocs \in Nat

Blocks == 0 .. MaxCount - 1
Ids == (0 .. GenMod - 1) \X (0 .. MaxCount)
Gen(id) == id[1]
Index(id) == id[2]
Dummy == <<0, 0>>           (* local_next[0], and fresh memory             *)

VARIABLES
  cached,     (* which allocator this is: the 256B one, or the 1MB one     *)
  a_next,
  header_id, header_next,   (* the header of each block                    *)
  local_next,               (* each thread's stack, without its dummy      *)
  pc,
  seen,                     (* the local a_next of an allocation           *)
  new_next,                 (* what an allocation or a free will install   *)
  block,                    (* the block a free links in                   *)
  freeing,                  (* the block the caller of Free256B passed     *)
  (* users and history *)
  holders,                  (* how many users hold each block              *)
  allocs

locals == <<pc, seen, new_next, block, freeing>>
vars == <<cached, a_next, header_id, header_next, local_next, locals, holders, allocs>>

Init ==
  /\ cached \in BOOLEAN
  /\ a_next = Dummy
  /\ header_id = [b \in Blocks |-> Dummy]
  /\ header_next = [b \in Blocks |-> Dummy]
  /\ local_next = [t \in Threads |-> <<>>]
  /\ pc = [t \in Threads |-> "idle"]
  /\ seen = [t \in Threads |-> Dummy]
  /\ new_next = [t \in Threads |-> Dummy]
  /\ block = [t \in Threads |-> 0]
  /\ freeing = [t \in Threads |-> 0]
  /\ holders = [b \in Blocks |-> 0]
  /\ allocs = 0

Goto(t, label) == pc' = [pc EXCEPT ![t] = label]

(***************************************************************************)
(* Operations on identifiers, each after its faulty variants.              *)
(***************************************************************************)
NextId_OnlyFirst(id) == <<IF Gen(id) = 0 THEN 1 ELSE Gen(id), Index(id)>>
NextId_Same(id) == id
NextId(id) == <<(Gen(id) + 1) % GenMod, Index(id)>>

(* What follows a free block.                                              *)
Follow_AlwaysLink(id) == header_next[Index(id)]
Follow(id) == IF Gen(id) = 0 THEN <<0, Index(id) + 1>> ELSE header_next[Index(id)]

LocalTail_Above == LocalLow + 1
LocalTail == LocalLow

LocalFull_Late(t) == Len(local_next[t]) = LocalMax
LocalFull(t) == Len(local_next[t]) = LocalMax - 1

(* AtomicStoreRel32(&header->next, id).                                    *)
Linked_Forgotten(b, id) == header_next
Linked(b, id) ==
  [header_next EXCEPT ![b] = IF Store32 THEN <<Gen(@), Index(id)>> ELSE id]

LocalTop(stack) == IF stack = <<>> THEN Dummy ELSE stack[Len(stack)]

(***************************************************************************)
(* Allocation: ThreadBlockAlloc, ThreadBlockAlloc256B, ThreadBlockTryAlloc *)
(***************************************************************************)
AllocLocal(t) ==
  /\ pc[t] = "idle" /\ allocs < MaxAllocs
  /\ local_next[t] # <<>>
  /\ LET id == LocalTop(local_next[t])
     IN /\ header_id' = [header_id EXCEPT ![Index(id)] = NextId(id)]
        /\ holders' = [holders EXCEPT ![Index(id)] = @ + 1]
  /\ local_next' = [local_next EXCEPT ![t] = SubSeq(@, 1, Len(@) - 1)]
  /\ allocs' = allocs + 1
  /\ UNCHANGED <<cached, a_next, header_next, locals>>

AllocLoad(t) ==
  /\ pc[t] = "idle" /\ allocs < MaxAllocs
  /\ local_next[t] = <<>>
  /\ seen' = [seen EXCEPT ![t] = a_next]
  /\ allocs' = allocs + 1
  /\ Goto(t, "read")
  /\ UNCHANGED <<cached, a_next, header_id, header_next, local_next, new_next, block,
                 freeing, holders>>

OutOfMemory(t) ==
  /\ pc[t] = "read" /\ Index(seen[t]) = MaxCount
  /\ Goto(t, "idle")
  /\ UNCHANGED <<cached, a_next, header_id, header_next, local_next, seen, new_next,
                 block, freeing, holders, allocs>>

(* The header may belong to another thread by now and hold anything.       *)
AllocRead(t) ==
  /\ pc[t] = "read" /\ Index(seen[t]) # MaxCount
  /\ new_next' = [new_next EXCEPT ![t] = Follow(seen[t])]
  /\ Goto(t, "take")
  /\ UNCHANGED <<cached, a_next, header_id, header_next, local_next, seen, block,
                 freeing, holders, allocs>>

AllocTake(t) ==
  /\ pc[t] = "take" /\ a_next = seen[t]
  /\ a_next' = new_next[t]
  /\ header_id' = [header_id EXCEPT ![Index(seen[t])] = NextId(seen[t])]
  /\ holders' = [holders EXCEPT ![Index(seen[t])] = @ + 1]
  /\ Goto(t, "idle")
  /\ UNCHANGED <<cached, header_next, local_next, seen, new_next, block, freeing, allocs>>

AllocRetry(t) ==
  /\ pc[t] = "take" /\ a_next # seen[t]
  /\ seen' = [seen EXCEPT ![t] = a_next]
  /\ Goto(t, "read")
  /\ UNCHANGED <<cached, a_next, header_id, header_next, local_next, new_next, block,
                 freeing, holders, allocs>>

(***************************************************************************)
(* Free: ThreadBlockFree, ThreadBlockFree256B, ThreadBlockTryFree.  Any    *)
(* thread may free a block that some user holds.                           *)
(***************************************************************************)
Release(b) == holders' = [holders EXCEPT ![b] = @ - 1]

FreeBlock(t, b) ==
  /\ pc[t] = "idle" /\ ~cached /\ holders[b] > 0
  /\ Release(b)
  /\ block' = [block EXCEPT ![t] = b]
  /\ header_next' = [header_next EXCEPT ![b] = a_next]
  /\ new_next' = [new_next EXCEPT ![t] = header_id[b]]
  /\ Goto(t, "push")
  /\ UNCHANGED <<cached, a_next, header_id, local_next, seen, freeing, allocs>>

(* The local stack is full: its blocks from LocalLow up are already linked *)
(* from top to bottom, and the lowest of them is put before a_next.        *)
FreeBatch(t, b) ==
  /\ pc[t] = "idle" /\ cached /\ holders[b] > 0
  /\ LocalFull(t)
  /\ Release(b)
  /\ freeing' = [freeing EXCEPT ![t] = b]
  /\ LET tail == Index(local_next[t][LocalTail])
     IN /\ block' = [block EXCEPT ![t] = tail]
        /\ header_next' = [header_next EXCEPT ![tail] = a_next]
  /\ new_next' = [new_next EXCEPT ![t] = LocalTop(local_next[t])]
  /\ Goto(t, "push")
  /\ UNCHANGED <<cached, a_next, header_id, local_next, seen, allocs>>

PushRetry(t) ==
  /\ pc[t] = "push" /\ a_next # header_next[block[t]]
  /\ header_next' = [header_next EXCEPT ![block[t]] = a_next]
  /\ UNCHANGED <<cached, a_next, header_id, local_next, locals, holders, allocs>>

PushBlock(t) ==
  /\ pc[t] = "push" /\ ~cached /\ a_next = header_next[block[t]]
  /\ a_next' = new_next[t]
  /\ Goto(t, "idle")
  /\ UNCHANGED <<cached, header_id, header_next, local_next, seen, new_next, block,
                 freeing, holders, allocs>>

PushBatch(t) ==
  /\ pc[t] = "push" /\ cached /\ a_next = header_next[block[t]]
  /\ a_next' = new_next[t]
  /\ local_next' = [local_next EXCEPT ![t] = SubSeq(@, 1, LocalLow - 1)]
  /\ Goto(t, "stash")
  /\ UNCHANGED <<cached, header_id, header_next, seen, new_next, block, freeing,
                 holders, allocs>>

Stash(t, b) ==
  /\ header_next' = Linked(b, LocalTop(local_next[t]))
  /\ local_next' = [local_next EXCEPT ![t] = Append(@, header_id[b])]

FreeLocal(t, b) ==
  /\ pc[t] = "idle" /\ cached /\ holders[b] > 0
  /\ ~LocalFull(t)
  /\ Release(b)
  /\ Stash(t, b)
  /\ UNCHANGED <<cached, a_next, header_id, locals, allocs>>

FreeAfterBatch(t) ==
  /\ pc[t] = "stash"
  /\ Stash(t, freeing[t])
  /\ Goto(t, "idle")
  /\ UNCHANGED <<cached, a_next, header_id, seen, new_next, block, freeing, holders, allocs>>

-------------------------------------------------------------------------------
Alloc(t) ==
  \/ AllocLocal(t) \/ AllocLoad(t) \/ OutOfMemory(t)
  \/ AllocRead(t) \/ AllocTake(t) \/ AllocRetry(t)

Free(t) ==
  \/ \E b \in Blocks : FreeBlock(t, b) \/ FreeBatch(t, b) \/ FreeLocal(t, b)
  \/ PushRetry(t) \/ PushBlock(t) \/ PushBatch(t) \/ FreeAfterBatch(t)

(* The bound on allocations is reached and everything is freed.            *)
Finished ==
  /\ allocs = MaxAllocs /\ \A t \in Threads : pc[t] = "idle"
  /\ \A b \in Blocks : holders[b] = 0
  /\ UNCHANGED vars

Next == (\E t \in Threads : Alloc(t) \/ Free(t)) \/ Finished

Spec == Init /\ [][Next]_vars

-------------------------------------------------------------------------------
(* Properties *)

TypeOK ==
  /\ cached \in BOOLEAN /\ a_next \in Ids
  /\ header_id \in [Blocks -> Ids] /\ header_next \in [Blocks -> Ids]
  /\ local_next \in [Threads -> Seq(Ids)]
  /\ \A t \in Threads : Len(local_next[t]) <= LocalMax - 1
  /\ pc \in [Threads -> {"idle", "read", "take", "push", "stash"}]
  /\ seen \in [Threads -> Ids] /\ new_next \in [Threads -> Ids]
  /\ block \in [Threads -> Blocks] /\ freeing \in [Threads -> Blocks]
  /\ holders \in [Blocks -> Nat] /\ allocs \in 0 .. MaxAllocs

(* The free list as an allocating thread would walk it.                    *)
Walk ==
  LET at[n \in 0 .. MaxCount] ==
        IF n = 0 THEN a_next
        ELSE IF Index(at[n - 1]) = MaxCount THEN at[n - 1] ELSE Follow(at[n - 1])
  IN  at

FreeBlocks == {Index(Walk[n]) : n \in 0 .. MaxCount} \ {MaxCount}

(* In whose hands a block is: a user's, the free list, local stacks, or a  *)
(* thread that is freeing it.                                              *)
InLocal(b) == {p \in Threads \X (1 .. LocalMax) :
                 LET stack == local_next[p[1]]
                 IN  p[2] <= Len(stack) /\ Index(stack[p[2]]) = b}
InTransit(b) == {t \in Threads :
                   \/ pc[t] = "push" /\ ~cached /\ block[t] = b
                   \/ pc[t] \in {"push", "stash"} /\ cached /\ freeing[t] = b}
Places(b) ==
  holders[b] + Cardinality(InLocal(b)) + Cardinality(InTransit(b))
    + (IF b \in FreeBlocks THEN 1 ELSE 0)

(* However the threads interleave, no block is held by two users, lost, or *)
(* in two places at once, and the free list has no cycle.                  *)
EveryBlockOnce ==
  /\ \A b \in Blocks : Places(b) = 1
  /\ Index(Walk[Cardinality(FreeBlocks)]) = MaxCount

(* No ABA: when the exchange of an allocation is about to succeed, what it *)
(* installs is what follows the block now, though it was read earlier from *)
(* a header that other threads may have owned in between.                  *)
ExchangeIsFresh ==
  \A t \in Threads : pc[t] = "take" /\ seen[t] = a_next => new_next[t] = Follow(a_next)

(* "Unallocated blocks always start on generation 0, that we can identify  *)
(* if the free list is empty": a top of generation 0 is followed by blocks *)
(* that were never allocated, and only by those.                           *)
GenerationZeroIsFresh ==
  Gen(a_next) = 0 => \A b \in Blocks : b >= Index(a_next) => header_id[b] = Dummy

(* "local_next[0] (DUMMY) <- local_next[1] <- ...": the blocks of a local  *)
(* stack are linked through their headers, as one list that can be         *)
(* returned by a single exchange.                                          *)
LocalStackLinked ==
  \A t \in Threads : pc[t] # "push" =>
    \A k \in 2 .. Len(local_next[t]) :
      header_next[Index(local_next[t][k])] = local_next[t][k - 1]

(***************************************************************************)
(* The inductive invariant, for generations that do not wrap and stores of *)
(* the whole word.  A block is fresh, or owned by a user, by a local stack *)
(* or by a thread that moves it, or it is published: on the shared list.   *)
(***************************************************************************)
Moving(t, b) == t \in InTransit(b)
At(t, k, b) == k \in 1 .. Len(local_next[t]) /\ Index(local_next[t][k]) = b
Unowned(b) ==
  /\ holders[b] = 0
  /\ \A t \in Threads : ~Moving(t, b) /\ \A k \in 1 .. LocalMax : ~At(t, k, b)
Published(b) == header_id[b] # Dummy /\ Unowned(b)

OneOwner ==
  \A b \in Blocks :
    /\ holders[b] <= 1
    /\ holders[b] = 1 =>
         \A t \in Threads : ~Moving(t, b) /\ \A k \in 1 .. LocalMax : ~At(t, k, b)
    /\ \A t, u \in Threads : Moving(t, b) =>
         (Moving(u, b) => t = u) /\ \A k \in 1 .. LocalMax : ~At(u, k, b)
    /\ \A t, u \in Threads : \A j, k \in 1 .. LocalMax :
         At(t, j, b) /\ At(u, k, b) => t = u /\ j = k

(* The header of an allocated block names the block.                       *)
HeadersNameBlocks ==
  \A b \in Blocks :
    /\ header_id[b] # Dummy => Gen(header_id[b]) >= 1 /\ Index(header_id[b]) = b
    /\ header_id[b] = Dummy => Unowned(b)

(* A local stack holds the identifiers of its blocks, linked from top to   *)
(* bottom, but for the tail of a batch, which is to follow a_next.         *)
StackSound(t) ==
  /\ ~cached => local_next[t] = <<>> /\ pc[t] # "stash"
  /\ \A k \in 1 .. Len(local_next[t]) :
       /\ Index(local_next[t][k]) \in Blocks
       /\ header_id[Index(local_next[t][k])] = local_next[t][k]
  /\ \A k \in 2 .. Len(local_next[t]) :
       \/ pc[t] = "push" /\ k = LocalLow
       \/ header_next[Index(local_next[t][k])] = local_next[t][k - 1]
  /\ pc[t] = "stash" => Len(local_next[t]) = LocalLow - 1
  /\ pc[t] = "push" /\ cached =>
       /\ Len(local_next[t]) = LocalMax - 1
       /\ block[t] = Index(local_next[t][LocalLow])
       /\ new_next[t] = LocalTop(local_next[t])
  /\ pc[t] = "push" /\ ~cached => new_next[t] = header_id[block[t]]

(* A word that leads to the frontier of the fresh blocks, or to a          *)
(* published block under its present generation.                           *)
Leads(id) ==
  \/ Gen(id) = 0 /\ \A b \in Blocks : header_id[b] = Dummy <=> b >= Index(id)
  \/ /\ Gen(id) >= 1 /\ Index(id) \in Blocks
     /\ header_id[Index(id)] = id /\ Published(Index(id))

(* No set of published blocks is a cycle: one of them leads out of it.     *)
ListEnds ==
  \A S \in SUBSET Blocks :
    S # {} /\ (\A b \in S : Published(b)) => \E b \in S : Index(header_next[b]) \notin S

(* The shared list leads from block to block, to none by two ways, and to  *)
(* an end.                                                                 *)
ListLeads ==
  /\ ListEnds
  /\ Leads(a_next)
  /\ \A b \in Blocks : Published(b) =>
       /\ Leads(header_next[b]) /\ header_next[b] # a_next
       /\ \A c \in Blocks :
            Published(c) /\ header_next[b] = header_next[c] => b = c

(* What a thread has read of the shared list is still so, or the           *)
(* generation gives it away.                                               *)
ReadSound(t) ==
  /\ pc[t] \in {"read", "take"} /\ Gen(seen[t]) >= 1 =>
       /\ Index(seen[t]) \in Blocks
       /\ \/ Gen(header_id[Index(seen[t])]) > Gen(seen[t])
          \/ /\ header_id[Index(seen[t])] = seen[t] /\ Published(Index(seen[t]))
             /\ pc[t] = "take" => new_next[t] = header_next[Index(seen[t])]
  /\ pc[t] = "take" => Index(seen[t]) # MaxCount
  /\ pc[t] = "take" /\ Gen(seen[t]) = 0 => new_next[t] = <<0, Index(seen[t]) + 1>>

(* Every generation was counted as an allocation, and so will be every     *)
(* allocation under way.                                                   *)
Allocating == {t \in Threads : pc[t] \in {"read", "take"}}
GenerationsCounted ==
  \A b \in Blocks : Gen(header_id[b]) + Cardinality(Allocating) <= allocs

IInv ==
  /\ TypeOK
  /\ OneOwner
  /\ HeadersNameBlocks
  /\ \A t \in Threads : StackSound(t) /\ ReadSound(t)
  /\ ListLeads
  /\ GenerationsCounted
===============================================================================
