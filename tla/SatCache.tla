------------------------------- MODULE SatCache -------------------------------
(***************************************************************************)
(* The cache of separating axes that the threads of a tick share: a hash   *)
(* map of lists after Michael (THASH in include/ds_hash_map.h), whose      *)
(* nodes come from a pool that grows (TPOOL) and are freed to one Treiber  *)
(* stack per thread (TSTACK, both in include/ds_allocator.h).  Every       *)
(* access to shared memory is an action.                                   *)
(*                                                                         *)
(* Two clients: "ticks" is the physics tick, whose threads look up and add *)
(* the pairs of the tick and whose main thread then removes stale caches;  *)
(* "calls" is any use that keeps the documented rules: all operations run  *)
(* concurrently, a key has one writer at a time.                           *)
(***************************************************************************)
EXTENDS Integers, Sequences, FiniteSets, FiniteSetsExt

CONSTANTS
  Threads, Main,
  Keys,
  Buckets, Hash,    (* the buckets of the map, and the bucket of each key  *)
  InitialLength,    (* of the pool, a power of two                         *)
  StealMax,         (* steal_max_iterations                                *)
  BitBlock,         (* the bit vectors grow by multiples of this           *)
  Warm,             (* "calls": what Main does before the others start     *)
  MaxSlots,         (* bound on the slots of the pool                      *)
  MaxCalls,         (* bound on the calls after Warm                       *)
  MaxTicks,         (* bound on the ticks                                  *)
  MaxPairs          (* bound on the pairs of a tick                        *)

Slots == 0 .. MaxSlots - 1
None == -1                        (* U32_MAX, THASH_NULL, TSTACK_NULL       *)
Ops == {"lookup", "add", "remove"}

(* A bucket is not a node: their words are in two arrays.                  *)
ASSUME CacheAssumption ==
  /\ Main \in Threads /\ Keys \subseteq Nat
  /\ Hash \in [Keys -> Buckets] /\ Buckets \cap Slots = {}
  /\ Warm \in Seq([op : Ops, key : Keys])
  /\ InitialLength \in Nat \ {0} /\ StealMax \in Nat
  /\ BitBlock \in Nat \ {0}
  /\ MaxSlots \in Nat /\ MaxCalls \in Nat /\ MaxTicks \in Nat /\ MaxPairs \in Nat

Words == [tag : Nat, marked : BOOLEAN, next : Slots \union {None}]
Tops == [tag : Nat, at : Slots \union {None}]
NullTop == [tag |-> 0, at |-> None]
NullLink == [tag |-> 0, marked |-> FALSE, next |-> None]

VARIABLES
  client,
  link,             (* a_hash of the buckets, a_hash_node of the slots     *)
  key,              (* the key of each slot                                *)
  a_head,           (* the top of each thread's stack of free slots        *)
  tag, tail,        (* FreeListTag and FreeListTail of each slot           *)
  a_count_max, a_length, a_adding_memory,
  block,            (* the length of each block of the pool                *)
  local,            (* each thread: its pc and local variables             *)
  (* the callers *)
  call, result,     (* the call under way and what the last one returned   *)
  calls,
  phase, ticks,     (* of the physics tick                                 *)
  todo, output,     (* the pairs no thread has taken, the slots they got   *)
  persistent, bit_count, stale,   (* sat_cache_persistent_usage            *)
  map, seen         (* history: Held, and see KeyMap                       *)

mapped == <<link, key>>
stacks == <<a_head, tag, tail>>
pool == <<a_count_max, a_length, a_adding_memory, block>>
agenda == <<phase, ticks, todo, persistent, bit_count, stale>>
tick == <<agenda, output>>
vars == <<client, mapped, stacks, pool, local, call, result, calls, tick, map, seen>>

NoCall == [op |-> "none"]
Idle == [pc |-> "idle", pair |-> None, slot |-> None,
         prev |-> None, sprev |-> NullLink, scur |-> NullLink, hit |-> FALSE,
         marked |-> FALSE, again |-> FALSE,
         from |-> None, top |-> NullTop, under |-> NullTop, tries |-> 0,
         tag |-> 0, head |-> NullLink]

BitCount(n) == ((n + BitBlock - 1) \div BitBlock) * BitBlock

CacheInit ==
  /\ client \in {"ticks", "calls"}
  /\ link = [n \in Buckets \union Slots |-> NullLink]
  /\ key = [s \in Slots |-> None]
  /\ a_head = [t \in Threads |-> NullTop]
  /\ tag = [s \in Slots |-> 0]
  /\ tail = [s \in Slots |-> NullTop]
  /\ a_count_max = 0 /\ a_length = InitialLength /\ a_adding_memory = FALSE
  /\ block = <<InitialLength>>
  /\ local = [t \in Threads |-> Idle]
  /\ call = [t \in Threads |-> NoCall]
  /\ result = [t \in Threads |-> None]
  /\ calls = 0
  /\ phase = "quiet" /\ ticks = 0
  /\ todo = {} /\ output = {}
  /\ persistent = {} /\ bit_count = BitCount(InitialLength) /\ stale = {}

At(t, pc) == local[t].pc = pc
Set(t, changes) ==
  local' = [local EXCEPT ![t] = [f \in DOMAIN @ |->
              IF f \in DOMAIN changes THEN changes[f] ELSE @[f]]]

(* A call returns s.  In a tick a pair that has its slot is done, and one  *)
(* that has none will be added.                                            *)
Return(t, s) ==
  /\ call' = [call EXCEPT ![t] = NoCall]
  /\ result' = [result EXCEPT ![t] = s]
  /\ output' = IF client = "ticks" /\ s # None THEN output \union {s} ELSE output
  /\ local' = [local EXCEPT ![t] =
       IF phase = "tasks" /\ s = None
       THEN [Idle EXCEPT !.pc = "task", !.pair = call[t].key] ELSE Idle]

(* The slot is that of a removal.  A search starts at the bucket.          *)
Start(t, op, k, s) ==
  /\ call' = [call EXCEPT ![t] = [op |-> op, key |-> k]]
  /\ result' = [result EXCEPT ![t] = None]
  /\ local' = [local EXCEPT ![t] =
       IF op = "add" THEN [Idle EXCEPT !.pc = "pop", !.from = t]
       ELSE [Idle EXCEPT !.pc = "follow", !.slot = s,
                         !.prev = Hash[k], !.sprev = link[Hash[k]]]]

(***************************************************************************)
(* The lists.  What the map holds is what its unmarked nodes hold.         *)
(***************************************************************************)
(* The slots on the way from first.                                        *)
Walk(next, first) ==
  LET walk[n \in 0 .. MaxSlots] ==
        IF n = 0 THEN {first}
        ELSE LET before == walk[n - 1]
             IN before \union {next[s] : s \in before \ {None}}
  IN walk[MaxSlots] \ {None}

NextNode == [s \in Slots |-> link[s].next]
Reach(b) == Walk(NextNode, link[b].next)
Chained == UNION {Reach(b) : b \in Buckets}
Holding(k) == {s \in Reach(Hash[k]) : ~link[s].marked /\ key[s] = k}
Held == [k \in Keys |-> IF Holding(k) = {} THEN None ELSE Min(Holding(k))]

NextFree == [s \in Slots |-> tail[s].at]
Free(u) == Walk(NextFree, a_head[u].at)

(***************************************************************************)
(* THASH_FIND_SNAPSHOT: unlinks the marked nodes on its way.               *)
(***************************************************************************)
TagUp_Keep(w) == w.tag
TagUp(w) == w.tag + 1          (* THASH_TAG_FIELD_INCREMENTED              *)

(* try_again: a link that moved moves no more back, for its tag grows, so  *)
(* the load of the bucket may be taken together with the test before it.   *)
Restart(t, again) ==
  LET b == Hash[call[t].key]
  IN [pc |-> "follow", prev |-> b, sprev |-> link[b], again |-> again]
Again(t) == Restart(t, local[t].again)

FindFollow(t) ==
  /\ At(t, "follow") /\ local[t].sprev.next # None
  /\ Set(t, [pc |-> "check", scur |-> link[local[t].sprev.next]])
  /\ UNCHANGED <<client, mapped, stacks, pool, call, result, calls, tick>>

PrevMoved(t) == link[local[t].prev] # local[t].sprev

FindCheck(t) ==
  /\ At(t, "check")
  /\ Set(t, IF PrevMoved(t) THEN Again(t)
            ELSE [pc |-> IF local[t].scur.marked THEN "unlink" ELSE "compare"])
  /\ UNCHANGED <<client, mapped, stacks, pool, call, result, calls, tick>>

Bypass(t) ==
  [tag |-> TagUp(local[t].sprev), marked |-> FALSE, next |-> local[t].scur.next]

FindUnlink(t) ==
  /\ At(t, "unlink")
  /\ IF PrevMoved(t)
     THEN Set(t, Again(t)) /\ UNCHANGED link
     ELSE /\ link' = [link EXCEPT ![local[t].prev] = Bypass(t)]
          /\ Set(t, [pc |-> "follow", sprev |-> Bypass(t)])
  /\ UNCHANGED <<client, key, stacks, pool, call, result, calls, tick>>

(* The node may be another one by now, whose key is being written.         *)
KeyMatches(t, s) ==
  IF \E u \in Threads : At(u, "set_key") /\ local[u].slot = s
  THEN BOOLEAN ELSE {key[s] = call[t].key}

FindCompare(t) ==
  /\ At(t, "compare")
  /\ \E hit \in KeyMatches(t, local[t].sprev.next) :
       Set(t, [pc |-> "recheck", hit |-> hit])
  /\ UNCHANGED <<client, mapped, stacks, pool, call, result, calls, tick>>

Recheck_Skip(t) == FALSE
Recheck(t) == PrevMoved(t)

FindAdvance(t) ==
  /\ At(t, "recheck") /\ (Recheck(t) \/ ~local[t].hit)
  /\ IF Recheck(t)
     THEN Set(t, Again(t))
     ELSE Set(t, [pc |-> "follow", prev |-> local[t].sprev.next, sprev |-> local[t].scur])
  /\ UNCHANGED <<client, mapped, stacks, pool, call, result, calls, tick>>

Found(t) == At(t, "recheck") /\ ~Recheck(t) /\ local[t].hit
NotFound(t) == At(t, "follow") /\ local[t].sprev.next = None

(* THASH_LOOKUP                                                            *)
LookupReturn(t) ==
  /\ call[t].op = "lookup"
  /\ \/ Found(t) /\ Return(t, local[t].sprev.next)
     \/ NotFound(t) /\ Return(t, None)
  /\ UNCHANGED <<client, mapped, stacks, pool, calls, agenda>>

(***************************************************************************)
(* TSTACK_POP and TPOOL_ADD: the thread's own stack, then stacks chosen at *)
(* random, then a slot that was never used.                                *)
(***************************************************************************)
Popped(t, top) ==
  \/ top.at # None /\ Set(t, [pc |-> "under", top |-> top])
  \/ /\ top.at = None /\ local[t].tries < StealMax
     /\ \E u \in Threads :
          Set(t, [pc |-> "pop", from |-> u, tries |-> local[t].tries + 1])
  \/ top.at = None /\ local[t].tries = StealMax /\ Set(t, [pc |-> "increment"])

PopLoad(t) ==
  /\ At(t, "pop")
  /\ Popped(t, a_head[local[t].from])
  /\ UNCHANGED <<client, mapped, stacks, pool, call, result, calls, tick>>

PopUnder(t) ==
  /\ At(t, "under")
  /\ Set(t, [pc |-> "take", under |-> tail[local[t].top.at]])
  /\ UNCHANGED <<client, mapped, stacks, pool, call, result, calls, tick>>

SameTop_IndexOnly(v, w) == v.at = w.at
SameTop(v, w) == v = w

PopTake(t) ==
  /\ At(t, "take")
  /\ LET from == local[t].from
     IN IF SameTop(a_head[from], local[t].top)
        THEN /\ a_head' = [a_head EXCEPT ![from] = local[t].under]
             /\ Set(t, [pc |-> "set_key", slot |-> local[t].top.at])
        ELSE Popped(t, a_head[from]) /\ UNCHANGED a_head
  /\ UNCHANGED <<client, mapped, tag, tail, pool, call, result, calls, tick>>

(* TPOOL_ADDRESS: the block and the place in it; 32 - Clz32(n) is the      *)
(* number of binary digits of n.                                           *)
Power[d \in 0 .. MaxSlots] == IF d = 0 THEN 1 ELSE 2 * Power[d - 1]
Address(s) ==
  LET digits == CHOOSE d \in 1 .. MaxSlots :
        Power[d - 1] <= s \div InitialLength /\ s \div InitialLength < Power[d]
  IN IF s < InitialLength THEN <<0, s>>
     ELSE <<digits, s % (InitialLength * Power[digits - 1])>>

(* TPOOL_INCREMENT                                                         *)
Increment(t) ==
  /\ At(t, "increment") /\ a_count_max < MaxSlots
  /\ a_count_max' = a_count_max + 1
  /\ Set(t, [pc |-> "length", slot |-> a_count_max])
  /\ UNCHANGED <<client, mapped, stacks, a_length, a_adding_memory, block,
                 call, result, calls, tick>>

CheckLength(t) ==
  /\ At(t, "length")
  /\ Set(t, [pc |-> IF local[t].slot < a_length THEN "set_key" ELSE "lock"])
  /\ UNCHANGED <<client, mapped, stacks, pool, call, result, calls, tick>>

LockGrow(t) ==
  /\ At(t, "lock")
  /\ Set(t, [pc |-> IF a_adding_memory THEN "length" ELSE "grow"])
  /\ a_adding_memory' = TRUE
  /\ UNCHANGED <<client, mapped, stacks, a_count_max, a_length, block,
                 call, result, calls, tick>>

GrowNeeded(t) == local[t].slot >= a_length

(* block_length_next                                                       *)
NextBlock_Doubled == 2 * a_length
NextBlock == a_length

(* ds_Alloc of the next block.                                             *)
Grow(t) ==
  /\ At(t, "grow")
  /\ IF GrowNeeded(t)
     THEN block' = Append(block, NextBlock) /\ a_length' = 2 * a_length
     ELSE UNCHANGED <<block, a_length>>
  /\ Set(t, [pc |-> "unlock"])
  /\ UNCHANGED <<client, mapped, stacks, a_count_max, a_adding_memory,
                 call, result, calls, tick>>

UnlockGrow(t) ==
  /\ At(t, "unlock")
  /\ a_adding_memory' = FALSE
  /\ Set(t, [pc |-> "length"])
  /\ UNCHANGED <<client, mapped, stacks, a_count_max, a_length, block,
                 call, result, calls, tick>>

(***************************************************************************)
(* sat_CacheAdd writes the key; THASH_ADD links the node at the front.     *)
(***************************************************************************)
AddKey(t) ==
  /\ At(t, "set_key")
  /\ LET s == local[t].slot
     IN /\ key' = [key EXCEPT ![s] = call[t].key]
        /\ Set(t, [pc |-> "store", tag |-> TagUp(link[s]), head |-> link[Hash[call[t].key]]])
  /\ UNCHANGED <<client, link, stacks, pool, call, result, calls, tick>>

AddStore(t) ==
  /\ At(t, "store")
  /\ link' = [link EXCEPT ![local[t].slot] =
       [tag |-> local[t].tag, marked |-> FALSE, next |-> local[t].head.next]]
  /\ Set(t, [pc |-> "link"])
  /\ UNCHANGED <<client, key, stacks, pool, call, result, calls, tick>>

AddLink(t) ==
  /\ At(t, "link")
  /\ LET b == Hash[call[t].key]
     IN IF link[b] = local[t].head
        THEN /\ link' = [link EXCEPT ![b] =
                  [tag |-> TagUp(@), marked |-> FALSE, next |-> local[t].slot]]
             /\ Set(t, [pc |-> "added"])
        ELSE Set(t, [pc |-> "store", head |-> link[b]]) /\ UNCHANGED link
  /\ UNCHANGED <<client, key, stacks, pool, call, result, calls, tick>>

AddReturn(t) ==
  /\ At(t, "added")
  /\ Return(t, local[t].slot)
  /\ UNCHANGED <<client, mapped, stacks, pool, calls, agenda>>

(***************************************************************************)
(* sat_CacheRemove: THASH_REMOVE marks the node, then unlinks it or has a  *)
(* search unlink it, and looks again until the key is not found; then      *)
(* TPOOL_REMOVE frees the slot to the thread's own stack (TSTACK_PUSH).    *)
(***************************************************************************)
Mark(t) ==
  /\ At(t, "mark")
  /\ LET s == local[t].sprev.next
         w == local[t].scur
     IN IF link[s] = w
        THEN /\ link' = [link EXCEPT ![s] = [w EXCEPT !.tag = TagUp(w), !.marked = TRUE]]
             /\ Set(t, [pc |-> "bypass", marked |-> TRUE])
        ELSE Set(t, Again(t)) /\ UNCHANGED link
  /\ UNCHANGED <<client, key, stacks, pool, call, result, calls, tick>>

AfterLostBypass_Free(t) == [pc |-> "push"]
AfterLostBypass(t) == Restart(t, TRUE)

RemoveBypass(t) ==
  /\ At(t, "bypass")
  /\ IF PrevMoved(t)
     THEN Set(t, AfterLostBypass(t)) /\ UNCHANGED link
     ELSE /\ link' = [link EXCEPT ![local[t].prev] = Bypass(t)]
          /\ Set(t, [pc |-> "look"])
  /\ UNCHANGED <<client, key, stacks, pool, call, result, calls, tick>>

(* The search after a lost race finds or misses the key, to no effect.     *)
RemoveSearched(t) ==
  /\ call[t].op = "remove" /\ (Found(t) \/ NotFound(t))
  /\ Set(t, [pc |-> IF local[t].again THEN "look"
                    ELSE IF Found(t) THEN "mark" ELSE "push"])
  /\ UNCHANGED <<client, mapped, stacks, pool, call, result, calls, tick>>

RemoveLook(t) ==
  /\ At(t, "look")
  /\ Set(t, Restart(t, FALSE))
  /\ UNCHANGED <<client, mapped, stacks, pool, call, result, calls, tick>>

PushTag_Keep(s) == tag
PushTag(s) == [tag EXCEPT ![s] = @ + 1]

PushLoad(t) ==
  /\ At(t, "push")
  /\ LET s == local[t].slot
     IN tag' = PushTag(s) /\ tail' = [tail EXCEPT ![s] = a_head[t]]
  /\ Set(t, [pc |-> "release"])
  /\ UNCHANGED <<client, mapped, a_head, pool, call, result, calls, tick>>

PushTop(t) ==
  /\ At(t, "release")
  /\ LET s == local[t].slot
     IN IF a_head[t] = tail[s]
        THEN /\ a_head' = [a_head EXCEPT ![t] = [tag |-> tag[s], at |-> s]]
             /\ Return(t, None)
             /\ UNCHANGED tail
        ELSE /\ tail' = [tail EXCEPT ![s] = a_head[t]]
             /\ UNCHANGED <<a_head, local, call, result, output>>
  /\ UNCHANGED <<client, mapped, tag, pool, calls, agenda>>

(***************************************************************************)
(* The client that keeps the documented rules.                             *)
(***************************************************************************)
Writing(k) == \E t \in Threads : call[t] # NoCall /\ call[t].op # "lookup" /\ call[t].key = k

Allowed(op, k) ==
  op # "lookup" => ~Writing(k) /\ (op = "add") = (map[k] = None)

WarmCall ==
  /\ client = "calls" /\ calls < Len(Warm) /\ At(Main, "idle")
  /\ LET c == Warm[calls + 1]
     IN Allowed(c.op, c.key) /\ Start(Main, c.op, c.key, map[c.key])
  /\ calls' = calls + 1
  /\ UNCHANGED <<client, mapped, stacks, pool, tick>>

FreeCall(t) ==
  /\ client = "calls" /\ At(t, "idle")
  /\ Len(Warm) <= calls /\ calls < Len(Warm) + MaxCalls
  /\ calls = Len(Warm) => At(Main, "idle")
  /\ \E op \in Ops, k \in Keys :
       Allowed(op, k) /\ Start(t, op, k, IF op = "remove" THEN map[k] ELSE None)
  /\ calls' = calls + 1
  /\ UNCHANGED <<client, mapped, stacks, pool, tick>>

(***************************************************************************)
(* The physics tick: each pair of overlapping hulls is one task of         *)
(* ThreadCalculateContact, taken in the order of the task queue; the main  *)
(* thread evaluates the outputs.                                           *)
(***************************************************************************)
TickStart ==
  /\ client = "ticks" /\ phase = "quiet" /\ ticks < MaxTicks
  /\ todo' \in {S \in SUBSET Keys : Cardinality(S) <= MaxPairs}
  /\ phase' = "tasks" /\ ticks' = ticks + 1
  /\ output' = {}
  /\ UNCHANGED <<client, mapped, stacks, pool, local, call, result, calls,
                 persistent, bit_count, stale>>

TaskLookup(t) ==
  /\ phase = "tasks" /\ At(t, "idle")
  /\ todo # {} /\ Start(t, "lookup", Min(todo), None) /\ todo' = todo \ {Min(todo)}
  /\ UNCHANGED <<client, mapped, stacks, pool, calls, phase, ticks, output,
                 persistent, bit_count, stale>>

TaskAdd(t) ==
  /\ At(t, "task")
  /\ Start(t, "add", local[t].pair, None)
  /\ UNCHANGED <<client, mapped, stacks, pool, calls, tick>>

frame == {s \in output : s < bit_count}          (* sat_cache_frame_usage  *)

StaleCaches_Unused == {s \in persistent : s \notin Chained}
StaleCaches == persistent \ frame

Evaluate ==
  /\ phase = "tasks" /\ todo = {} /\ \A t \in Threads : At(t, "idle")
  /\ phase' = "manage"
  /\ stale' = StaleCaches
  /\ UNCHANGED <<client, mapped, stacks, pool, local, call, result, calls, ticks, todo,
                 output, persistent, bit_count>>

RemoveStale ==
  /\ phase = "manage" /\ stale # {} /\ At(Main, "idle")
  /\ LET s == Min(stale)
     IN Start(Main, "remove", key[s], s) /\ stale' = stale \ {s}
  /\ UNCHANGED <<client, mapped, stacks, pool, calls, phase, ticks, todo, output,
                 persistent, bit_count>>

Appended_None == {}
Appended_TooFar == bit_count .. a_count_max
Appended == bit_count .. a_count_max - 1

TickEnd ==
  /\ phase = "manage" /\ stale = {} /\ At(Main, "idle")
  /\ persistent' = frame \union Appended
  /\ bit_count' = IF bit_count < a_count_max THEN BitCount(a_length) ELSE bit_count
  /\ phase' = "quiet"
  /\ UNCHANGED <<client, mapped, stacks, pool, local, call, result, calls, ticks, todo,
                 output, stale>>

(* cdb_Flush, between two ticks; the tags of the slots go on counting.     *)
Flush ==
  /\ client = "ticks" /\ phase = "quiet" /\ ticks < MaxTicks /\ Chained # {}
  /\ ticks' = ticks + 1
  /\ link' = [n \in DOMAIN link |-> IF n \in Buckets THEN NullLink ELSE link[n]]
  /\ a_head' = [t \in Threads |-> NullTop]
  /\ a_count_max' = 0
  /\ persistent' = {} /\ output' = {}
  /\ UNCHANGED <<client, key, tag, tail, a_length, a_adding_memory, block, local, call,
                 result, calls, phase, todo, bit_count, stale>>

(***************************************************************************)
(* The specification.                                                      *)
(***************************************************************************)
Find(t) == \/ FindFollow(t) \/ FindCheck(t) \/ FindUnlink(t)
           \/ FindCompare(t) \/ FindAdvance(t)
Pop(t) == PopLoad(t) \/ PopUnder(t) \/ PopTake(t)
NewSlot(t) == \/ Increment(t) \/ CheckLength(t) \/ LockGrow(t) \/ Grow(t)
              \/ UnlockGrow(t)
Add(t) == AddKey(t) \/ AddStore(t) \/ AddLink(t) \/ AddReturn(t)
Remove(t) == \/ Mark(t) \/ RemoveBypass(t) \/ RemoveSearched(t) \/ RemoveLook(t)
             \/ PushLoad(t) \/ PushTop(t)
Task(t) == TaskLookup(t) \/ TaskAdd(t)

Step(t) == \/ Find(t) \/ LookupReturn(t) \/ Pop(t) \/ NewSlot(t) \/ Add(t)
           \/ Remove(t) \/ FreeCall(t) \/ Task(t)

Finished ==
  /\ \A t \in Threads : At(t, "idle")
  /\ phase = "quiet" /\ (ticks = MaxTicks \/ calls = Len(Warm) + MaxCalls)
  /\ UNCHANGED vars

(* What the map holds, and what it held for the key of each call under way *)
(* since it started.                                                       *)
Witness ==
  /\ map' = IF UNCHANGED mapped THEN map ELSE Held'
  /\ seen' = [t \in Threads |->
    IF call'[t] = NoCall THEN {}
    ELSE (IF call[t] = NoCall THEN {} ELSE seen[t]) \union {map'[call'[t].key]}]

Init == CacheInit /\ map = Held /\ seen = [t \in Threads |-> {}]

Next ==
  \/ /\ \/ \E t \in Threads : Step(t)
        \/ WarmCall \/ TickStart \/ Evaluate \/ RemoveStale \/ TickEnd \/ Flush
     /\ Witness
  \/ Finished

Spec == Init /\ [][Next]_vars

(***************************************************************************)
(* Properties.                                                             *)
(***************************************************************************)

(* Every variable has its type.  The bits of sat_cache_persistent_usage    *)
(* are within the vector, and stale caches are among them.                 *)
TypeOK ==
  /\ link \in [Buckets \union Slots -> Words]
  /\ key \in [Slots -> Keys \union {None}]
  /\ a_head \in [Threads -> Tops] /\ tag \in [Slots -> Nat] /\ tail \in [Slots -> Tops]
  /\ a_count_max \in 0 .. MaxSlots /\ a_length \in Nat \ {0} /\ a_adding_memory \in BOOLEAN
  /\ block \in Seq(Nat \ {0})
  /\ DOMAIN call = Threads /\ result \in [Threads -> Slots \union {None}]
  /\ todo \subseteq Keys /\ output \subseteq Slots
  /\ persistent \subseteq 0 .. bit_count - 1 /\ stale \subseteq persistent

(* Every slot that is in use has memory of its own: the pool has grown     *)
(* past it before any thread writes to it, although several threads may    *)
(* find the pool too short at once; one of them at a time makes a block    *)
(* (TPOOL_INCREMENT).  TPOOL_ADDRESS gives the slots below the length of   *)
(* the pool the cells of the blocks, one each: a block of another length   *)
(* would have two caches overlap, or one lie outside.                      *)
SlotsHaveMemory ==
  LET growing == {local[t].slot :
                    t \in {u \in Threads : local[u].pc \in {"length", "lock", "grow", "unlock"}}}
      cells == UNION {{b - 1} \X (0 .. block[b] - 1) : b \in DOMAIN block}
  IN /\ \A s \in Slots : s < a_count_max /\ s \notin growing => s < a_length
     /\ \A t, u \in Threads :
          local[t].pc \in {"grow", "unlock"} /\ local[u].pc \in {"grow", "unlock"} => t = u
     /\ {Address(s) : s \in 0 .. a_length - 1} = cells
     /\ Cardinality(cells) = a_length

Adding(t) == IF local[t].pc \in {"length", "lock", "grow", "unlock", "set_key", "store", "link"}
             THEN {local[t].slot} ELSE {}
Removing(t) ==
  IF call[t].op = "remove" /\ (At(t, "push") \/ At(t, "release") \/ local[t].slot \notin Chained)
  THEN {local[t].slot} ELSE {}
Hands(t) == Adding(t) \union Removing(t)

(* Every slot the pool has handed out is in exactly one place: a stack of  *)
(* free slots, the list of one bucket, or the hands of the one thread that *)
(* adds or removes it.  A slot popped twice, freed while a list still      *)
(* links it, or lost by an unlink that raced an insertion would break it   *)
(* (TSTACK_POP, THASH_FIND_SNAPSHOT, THASH_REMOVE).                        *)
SlotsAccounted ==
  LET free == UNION {Free(t) \X {t} : t \in Threads}
      chain == UNION {Reach(b) \X {b} : b \in Buckets}
      held == UNION {Hands(t) \X {t} : t \in Threads}
  IN \A s \in Slots :
       Cardinality({t \in Threads : <<s, t>> \in free})
         + Cardinality({b \in Buckets : <<s, b>> \in chain})
         + Cardinality({t \in Threads : <<s, t>> \in held})
       = IF s < a_count_max THEN 1 ELSE 0

(* The cache is the map its callers take it for: additions and removals    *)
(* take effect once, a lookup returns what the map held during the call.   *)
done(t) == IF call[t].op = "add" THEN At(t, "added") ELSE local[t].marked
CallBar == [t \in Threads |->
              IF call[t] = NoCall THEN NoCall
              ELSE [op |-> call[t].op, key |-> call[t].key, done |-> done(t)]]
Abstract == INSTANCE KeyMap WITH call <- CallBar
ImplementsKeyMap == Abstract!MapSpec

(* Between two ticks the bits of sat_cache_persistent_usage are the caches *)
(* in the map, which are those of the pairs of the last tick: a bit left   *)
(* unset leaks the cache, a bit set for a free slot has the next tick      *)
(* remove another pair's cache (ContactManagement).                        *)
PersistentUsageExact ==
  client = "ticks" /\ phase = "quiet" => persistent = Chained /\ persistent = output
===============================================================================
