--------------------------- MODULE FifoSpmc_proofs ---------------------------
(***************************************************************************)
(* Proofs about FifoSpmc for any number of workers, any queue length that  *)
(* divides the range of the ticket counter, and any number of pushes.      *)
(***************************************************************************)
EXTENDS FifoSpmc, Sequences, CommonLemmas, FiniteSetTheorems, TLAPS

-------------------------------------------------------------------------------
(* The counters *)

(* A counter always names an entry inside the array.                       *)
LEMMA SlotType ==
  ASSUME NEW k \in Nat
  PROVE  SlotOf(k) \in Slots
  BY SizeAssumption, DivMod DEF SlotOf, Slots

(* next_alloc is brought back below N before it is incremented.            *)
LEMMA AllocStep ==
  ASSUME NEW k \in Nat
  PROVE  SlotOf(SlotOf(k) + 1) = SlotOf(k + 1)
  BY SizeAssumption, ModSucc DEF SlotOf

(* The wrapped ticket names the same entry as the number of the claim.     *)
LEMMA TicketSlot ==
  ASSUME NEW k \in Nat
  PROVE  SlotOf(k % CounterMod) = SlotOf(k)
<1>1. PICK j \in 1 .. CounterMod : CounterMod = N * j
  BY SizeAssumption
<1>2. N \in Nat \ {0} /\ j \in Nat \ {0}
  BY SizeAssumption
<1>3. (k % (N * j)) % N = k % N
  BY <1>2, ModOfMultiple, Zenon
<1> QED
  BY <1>1, <1>3, Zenon DEF SlotOf

(* Incrementing the wrapped ticket is incrementing the number of claims.   *)
LEMMA TicketStep ==
  ASSUME NEW k \in Nat
  PROVE  /\ NextTicket(k % CounterMod) = (k + 1) % CounterMod
         /\ k % CounterMod \in 0 .. CounterMod - 1
  BY SizeAssumption, ModSucc, DivMod DEF NextTicket

(* There are finitely many threads.                                        *)
LEMMA ThreadsFinite == IsFiniteSet(Threads)
  BY ThreadAssumption, FS_AddElement DEF Threads

-------------------------------------------------------------------------------
(* Type correctness *)

(* FifoSpmcInit leaves a queue of the declared types.                      *)
LEMMA InitTypeOK == Init => TypeOK
  BY SizeAssumption DEF Init, TypeOK, Slots, NULL

(* Every step of every thread keeps the state in its types; entries are    *)
(* addressed inside the array and the counters stay in their ranges.       *)
LEMMA NextTypeOK == TypeOK /\ [Next]_vars => TypeOK'
<1> SUFFICES ASSUME TypeOK, [Next]_vars
             PROVE  TypeOK'
  OBVIOUS
<1> USE DEF TypeOK
<1>1. CASE PushReserve
  <2>1. next_alloc \in Nat /\ SlotOf(next_alloc) \in Slots
    BY SizeAssumption, SlotType
  <2>2. SlotOf(next_alloc) + 1 \in 0 .. N
    BY <2>1, SizeAssumption DEF Slots
  <2> QED
    BY <1>1, <2>1, <2>2 DEF PushReserve, Marked
<1>2. CASE PushStore
  BY <1>2 DEF PushStore
<1>3. CASE PushPost
  BY <1>3 DEF PushPost, Posted
<1>4. ASSUME NEW t \in Threads, TakeToken(t)
      PROVE  TypeOK'
  BY <1>4 DEF TakeToken
<1>5. ASSUME NEW t \in Threads, PopClaim(t)
      PROVE  TypeOK'
  <2>1. a_first \in Nat /\ SlotOf(a_first) \in Slots
    BY SizeAssumption, SlotType
  <2>2. NextTicket(a_first) \in 0 .. CounterMod - 1
    BY <2>1, SizeAssumption, DivMod DEF NextTicket
  <2> QED
    BY <1>5, <2>1, <2>2 DEF PopClaim
<1>6. ASSUME NEW t \in Threads, PopLoad(t)
      PROVE  TypeOK'
  BY <1>6 DEF PopLoad
<1>7. ASSUME NEW t \in Threads, PopRelease(t)
      PROVE  TypeOK'
  BY <1>7 DEF PopRelease, Unmarked
<1>8. CASE UNCHANGED vars
  BY <1>8 DEF vars
<1> QED
  BY <1>1, <1>2, <1>3, <1>4, <1>5, <1>6, <1>7, <1>8 DEF Next, Push, Pop, Finished

(* Type correctness of the queue in every reachable state.                 *)
THEOREM TypeCorrect == Spec => []TypeOK
<1> QED
  BY InitTypeOK, NextTypeOK, PTL DEF Spec

-------------------------------------------------------------------------------
(* The inductive invariant *)

(* Nobody with a token but no claim, nobody with an entry: no live number. *)
LEMMA InitIInv == Init => IInv
<1> SUFFICES ASSUME Init
             PROVE  IInv
  OBVIOUS
<1>1. TypeOK
  BY InitTypeOK
<1>2. Owners = {} /\ TokenHolders = {}
  BY DEF Init, Owners, TokenHolders
<1>3. Live = {}
  BY <1>2 DEF Init, Live
<1>4. CountersAligned
  <2>1. 0 % CounterMod = 0
    BY SizeAssumption, ModUnique, Z3
  <2> QED
    BY <2>1 DEF Init, CountersAligned
<1>5. TokensConserved
  BY <1>2, FS_EmptySet DEF Init, TokensConserved
<1>6. EntriesHoldTasks /\ LiveEntriesDistinct /\ OwnersInOrder
  BY <1>2, <1>3 DEF Init, EntriesHoldTasks, LiveEntriesDistinct, OwnersInOrder
<1>7. TicketNamesTask /\ ReturnedBefore
  BY DEF Init, TicketNamesTask, ReturnedBefore
<1> QED
  BY <1>1, <1>4, <1>5, <1>6, <1>7 DEF IInv

(* A claimed number has been claimed and an unpublished one has not: the   *)
(* live numbers are below pushed, except the one being pushed.             *)
LEMMA LiveBounds ==
  ASSUME IInv
  PROVE  /\ claims <= pushed
         /\ Live \subseteq Nat
         /\ \A k \in Live : k <= pushed
         /\ \A t \in Owners : pos[t] \in Live /\ pos[t] \in Nat /\ pos[t] < claims
         /\ ppc = "idle" => pushed \notin Live
<1>1. IsFiniteSet(TokenHolders)
  BY ThreadsFinite, FS_Subset DEF TokenHolders
<1>2. Cardinality(TokenHolders) \in Nat
  BY <1>1, FS_CardinalityType
<1>3. claims <= pushed
  BY <1>2 DEF IInv, TypeOK, TokensConserved
<1>4. \A t \in Owners : pos[t] \in Nat /\ pos[t] < claims /\ pos[t] \in Live
  BY DEF IInv, TypeOK, OwnersInOrder, Owners, Live
<1> QED
  BY <1>3, <1>4 DEF IInv, TypeOK, Live

(* The reserved entry was free, so no live number stands for it.           *)
LEMMA PushReserveIInv ==
  ASSUME IInv, PushReserve
  PROVE  IInv'
<1> USE DEF IInv
<1>1. TypeOK /\ TypeOK'
  BY NextTypeOK DEF Next, Push
<1>2. Owners' = Owners /\ TokenHolders' = TokenHolders
  BY DEF PushReserve, Owners, TokenHolders
<1>3. ppc = "idle" /\ ppc' = "store" /\ UNCHANGED <<pushed, claims, pos, data, idx, a_first>>
  BY DEF PushReserve
<1>4. pushed \in Nat /\ claims \in Nat
  BY <1>1 DEF TypeOK
<1>5. Live' = Live \cup {pushed}
  BY <1>2, <1>3, <1>4 DEF Live
<1>6. SlotOf(next_alloc) = SlotOf(pushed)
  BY <1>3 DEF CountersAligned
<1>7. /\ in_use[SlotOf(pushed)] = 0
      /\ in_use' = [in_use EXCEPT ![SlotOf(pushed)] = 1]
      /\ pslot' = SlotOf(pushed)
      /\ next_alloc' = SlotOf(pushed) + 1
  BY <1>6 DEF PushReserve, EntryFree, Marked
<1>8. \A k \in Live : SlotOf(k) # SlotOf(pushed)
  BY <1>7 DEF EntriesHoldTasks
<1>9. CountersAligned'
  <2>1. SlotOf(next_alloc') = SlotOf(pushed' + 1)
    BY <1>3, <1>4, <1>7, AllocStep
  <2> QED
    BY <2>1, <1>3, <1>7 DEF CountersAligned, SlotOf
<1>10. TokensConserved'
  BY <1>2, <1>3 DEF TokensConserved, PushReserve
<1>11. EntriesHoldTasks'
  <2>1. \A k \in Live' : SlotOf(k) \in Slots
    BY <1>4, <1>5, LiveBounds, SlotType
  <2>2. \A k \in Live' : in_use'[SlotOf(k)] = 1
    BY <1>1, <1>5, <1>7, <2>1 DEF EntriesHoldTasks, TypeOK
  <2>3. \A k \in Live' \ {pushed'} : data'[SlotOf(k)] = k + 1
    BY <1>3, <1>5 DEF EntriesHoldTasks
  <2> QED
    BY <2>2, <2>3, <1>3 DEF EntriesHoldTasks, SlotOf
<1>12. LiveEntriesDistinct'
  BY <1>5, <1>8 DEF LiveEntriesDistinct, SlotOf
<1>13. OwnersInOrder' /\ TicketNamesTask' /\ ReturnedBefore'
  BY <1>2, <1>3 DEF OwnersInOrder, TicketNamesTask, ReturnedBefore, PushReserve, SlotOf
<1> QED
  BY <1>1, <1>9, <1>10, <1>11, <1>12, <1>13

(* Writing the data of the reserved entry disturbs no published task.      *)
LEMMA PushStoreIInv ==
  ASSUME IInv, PushStore
  PROVE  IInv'
<1> USE DEF IInv
<1>1. TypeOK /\ TypeOK'
  BY NextTypeOK DEF Next, Push
<1>2. Owners' = Owners /\ TokenHolders' = TokenHolders
  BY DEF PushStore, Owners, TokenHolders
<1>3. ppc = "store" /\ ppc' = "post" /\ data' = [data EXCEPT ![pslot] = pushed + 1]
      /\ UNCHANGED <<pushed, claims, pos, in_use, idx, a_first, next_alloc, pslot, sem,
                     pc, val, returned>>
  BY DEF PushStore
<1>4. Live' = Live /\ pushed \in Live
  BY <1>2, <1>3 DEF Live
<1>5. pslot = SlotOf(pushed)
  BY <1>3 DEF CountersAligned
<1>6. CountersAligned' /\ TokensConserved' /\ LiveEntriesDistinct' /\ OwnersInOrder'
      /\ TicketNamesTask' /\ ReturnedBefore'
  BY <1>2, <1>3, <1>4 DEF CountersAligned, TokensConserved, LiveEntriesDistinct,
     OwnersInOrder, TicketNamesTask, ReturnedBefore, SlotOf
<1>7. EntriesHoldTasks'
  <2>1. \A k \in Live \ {pushed} : data'[SlotOf(k)] = data[SlotOf(k)]
    BY <1>1, <1>3, <1>4, <1>5, LiveBounds, SlotType
    DEF LiveEntriesDistinct, TypeOK
  <2>2. data'[pslot] = pushed + 1
    BY <1>1, <1>3 DEF TypeOK
  <2> QED
    BY <2>1, <2>2, <1>3, <1>4 DEF EntriesHoldTasks, SlotOf
<1> QED
  BY <1>1, <1>6, <1>7

(* SemaphorePost adds one token and publishes one task.                    *)
LEMMA PushPostIInv ==
  ASSUME IInv, PushPost
  PROVE  IInv'
<1> USE DEF IInv
<1>1. TypeOK /\ TypeOK'
  BY NextTypeOK DEF Next, Push
<1>2. Owners' = Owners /\ TokenHolders' = TokenHolders
  BY DEF PushPost, Owners, TokenHolders
<1>3. ppc = "post" /\ ppc' = "idle" /\ pushed' = pushed + 1 /\ sem' = sem + 1
      /\ UNCHANGED <<claims, pos, in_use, idx, a_first, next_alloc, pslot,
                     pc, val, returned, data>>
  BY DEF PushPost, Posted
<1>4. pushed \in Nat /\ claims \in Nat /\ claims <= pushed /\ sem \in Nat
  BY <1>1, LiveBounds DEF TypeOK
<1>5. Live' = Live /\ pushed' \notin Live
  BY <1>2, <1>3, <1>4, LiveBounds DEF Live
<1>6. data[SlotOf(pushed)] = pushed + 1
  BY <1>3 DEF CountersAligned, EntriesHoldTasks
<1>7. EntriesHoldTasks'
  BY <1>3, <1>5, <1>6 DEF EntriesHoldTasks, SlotOf
<1>8. CountersAligned'
  BY <1>3 DEF CountersAligned, SlotOf
<1>9. TokensConserved'
  <2>1. Cardinality(TokenHolders) \in Nat
    BY ThreadsFinite, FS_Subset, FS_CardinalityType DEF TokenHolders
  <2> QED
    BY <1>2, <1>3, <1>4, <2>1 DEF TokensConserved
<1>10. LiveEntriesDistinct' /\ OwnersInOrder' /\ TicketNamesTask' /\ ReturnedBefore'
  BY <1>2, <1>3, <1>5 DEF LiveEntriesDistinct, OwnersInOrder, TicketNamesTask,
     ReturnedBefore, SlotOf
<1> QED
  BY <1>1, <1>7, <1>8, <1>9, <1>10

(* A token moves from the semaphore to a thread.                           *)
LEMMA TakeTokenIInv ==
  ASSUME IInv, NEW t \in Threads, TakeToken(t)
  PROVE  IInv'
<1> USE DEF IInv
<1>1. TypeOK /\ TypeOK'
  BY NextTypeOK DEF Next, Pop
<1>2. pc[t] = "idle" /\ pc' = [pc EXCEPT ![t] = "claim"] /\ sem \in Nat /\ sem' = sem - 1
      /\ UNCHANGED <<claims, pos, in_use, idx, a_first, next_alloc, pslot,
                     ppc, pushed, val, returned, data>>
  BY <1>1 DEF TakeToken, TypeOK
<1>3. Owners' = Owners
  BY <1>1, <1>2 DEF Owners, TypeOK
<1>4. TokenHolders' = TokenHolders \cup {t} /\ t \notin TokenHolders
  BY <1>1, <1>2 DEF TokenHolders, TypeOK
<1>5. TokensConserved'
  <2>1. IsFiniteSet(TokenHolders)
    BY ThreadsFinite, FS_Subset DEF TokenHolders
  <2>2. Cardinality(TokenHolders') = Cardinality(TokenHolders) + 1
    BY <1>4, <2>1, FS_AddElement
  <2>3. Cardinality(TokenHolders) \in Nat /\ claims \in Nat
    BY <1>1, <2>1, FS_CardinalityType DEF TypeOK
  <2> QED
    BY <1>2, <2>2, <2>3 DEF TokensConserved
<1>6. Live' = Live
  BY <1>2, <1>3 DEF Live
<1>7. CountersAligned' /\ EntriesHoldTasks' /\ LiveEntriesDistinct' /\ OwnersInOrder'
      /\ ReturnedBefore'
  BY <1>2, <1>3, <1>6 DEF CountersAligned, EntriesHoldTasks, LiveEntriesDistinct,
     OwnersInOrder, ReturnedBefore, SlotOf
<1>8. TicketNamesTask'
  BY <1>1, <1>2 DEF TicketNamesTask, TypeOK
<1> QED
  BY <1>1, <1>5, <1>7, <1>8

(* The claimed number was published, because its token was: it is live     *)
(* already, and now has an owner.                                          *)
LEMMA PopClaimIInv ==
  ASSUME IInv, NEW t \in Threads, PopClaim(t)
  PROVE  IInv'
<1> USE DEF IInv
<1>1. TypeOK /\ TypeOK'
  BY NextTypeOK DEF Next, Pop
<1>2. /\ pc[t] = "claim"
      /\ pc' = [pc EXCEPT ![t] = "load"]
      /\ idx' = [idx EXCEPT ![t] = SlotOf(a_first)]
      /\ pos' = [pos EXCEPT ![t] = claims]
      /\ a_first' = NextTicket(a_first)
      /\ claims' = claims + 1
      /\ UNCHANGED <<in_use, next_alloc, pslot, ppc, pushed, val, returned, data, sem>>
  BY DEF PopClaim
<1>3. Owners' = Owners \cup {t} /\ t \notin Owners
  BY <1>1, <1>2 DEF Owners, TypeOK
<1>4. TokenHolders' = TokenHolders \ {t} /\ t \in TokenHolders
  BY <1>1, <1>2 DEF TokenHolders, TypeOK
<1>5. /\ claims \in Nat /\ pushed \in Nat /\ claims < pushed
      /\ TokensConserved'
  <2>1. IsFiniteSet(TokenHolders)
    BY ThreadsFinite, FS_Subset DEF TokenHolders
  <2>2. Cardinality(TokenHolders') = Cardinality(TokenHolders) - 1
    BY <1>4, <2>1, FS_RemoveElement
  <2>3. IsFiniteSet(TokenHolders')
    BY <1>4, <2>1, FS_Subset
  <2>4. Cardinality(TokenHolders) \in Nat /\ Cardinality(TokenHolders') \in Nat
    BY <2>1, <2>3, FS_CardinalityType
  <2>5. claims \in Nat /\ pushed \in Nat /\ sem \in Nat
    BY <1>1 DEF TypeOK
  <2> QED
    BY <1>2, <2>2, <2>4, <2>5 DEF TokensConserved
<1>6. SlotOf(a_first) = SlotOf(claims) /\ a_first' = claims' % CounterMod
  BY <1>2, <1>5, TicketSlot, TicketStep DEF CountersAligned
<1>7. CountersAligned'
  BY <1>2, <1>6 DEF CountersAligned, SlotOf
<1>8. claims \in Live
  BY <1>5 DEF Live
<1>9. \A u \in Threads : u # t => pos'[u] = pos[u] /\ idx'[u] = idx[u] /\ pc'[u] = pc[u]
  BY <1>1, <1>2 DEF TypeOK
<1>10. pos'[t] = claims /\ idx'[t] = SlotOf(claims) /\ pc'[t] = "load"
  BY <1>1, <1>2, <1>6 DEF TypeOK
<1>11. Live' = Live
  <2>1. {pos'[u] : u \in Owners'} = {pos[u] : u \in Owners} \cup {claims}
    BY <1>3, <1>9, <1>10 DEF Owners
  <2>2. claims .. pushed - 1 = (claims' .. pushed' - 1) \cup {claims}
    BY <1>2, <1>5
  <2> QED
    BY <1>2, <2>1, <2>2 DEF Live
<1>12. EntriesHoldTasks' /\ LiveEntriesDistinct'
  BY <1>2, <1>11 DEF EntriesHoldTasks, LiveEntriesDistinct, SlotOf
<1>13. \A u \in Owners : pos[u] \in Nat /\ pos[u] < claims
  BY LiveBounds
<1>14. OwnersInOrder'
  <2>1. \A u \in Owners' : pos'[u] < claims' /\ idx'[u] = SlotOf(pos'[u])
    BY <1>2, <1>3, <1>5, <1>9, <1>10, <1>13 DEF OwnersInOrder, Owners
  <2>2. \A u, v \in Owners' : pos'[u] = pos'[v] => u = v
    BY <1>3, <1>5, <1>9, <1>10, <1>13 DEF OwnersInOrder, Owners
  <2> QED
    BY <2>1, <2>2 DEF OwnersInOrder, SlotOf
<1>15. TicketNamesTask'
  BY <1>2, <1>9, <1>10 DEF TicketNamesTask
<1>16. ReturnedBefore'
  <2>1. \A v \in returned : v \in Nat /\ v <= claims /\ \A u \in Owners : v # pos[u] + 1
    BY <1>1 DEF ReturnedBefore, TypeOK
  <2>2. \A v \in returned : \A u \in Owners' : v # pos'[u] + 1
    BY <1>3, <1>5, <1>9, <1>10, <2>1 DEF Owners
  <2> QED
    BY <1>2, <1>5, <2>1, <2>2 DEF ReturnedBefore
<1> QED
  BY <1>1, <1>5, <1>7, <1>12, <1>14, <1>15, <1>16

(* The claimed entry still holds the task of its claim.                    *)
LEMMA PopLoadIInv ==
  ASSUME IInv, NEW t \in Threads, PopLoad(t)
  PROVE  IInv'
<1> USE DEF IInv
<1>1. TypeOK /\ TypeOK'
  BY NextTypeOK DEF Next, Pop
<1>2. /\ pc[t] = "load"
      /\ pc' = [pc EXCEPT ![t] = "release"]
      /\ val' = [val EXCEPT ![t] = data[idx[t]]]
      /\ UNCHANGED <<in_use, next_alloc, pslot, ppc, pushed, claims, pos, idx, a_first,
                     returned, data, sem>>
  BY DEF PopLoad
<1>3. Owners' = Owners /\ t \in Owners /\ TokenHolders' = TokenHolders
  BY <1>1, <1>2 DEF Owners, TokenHolders, TypeOK
<1>4. Live' = Live
  BY <1>2, <1>3 DEF Live
<1>5. CountersAligned' /\ TokensConserved' /\ EntriesHoldTasks' /\ LiveEntriesDistinct'
      /\ OwnersInOrder' /\ ReturnedBefore'
  BY <1>2, <1>3, <1>4 DEF CountersAligned, TokensConserved, EntriesHoldTasks,
     LiveEntriesDistinct, OwnersInOrder, ReturnedBefore, SlotOf
<1>6. data[idx[t]] = pos[t] + 1
  <2>1. pos[t] \in Live /\ pos[t] \in Nat /\ pos[t] < claims /\ claims <= pushed
    BY <1>3, LiveBounds
  <2>2. pos[t] \in Live \ {pushed}
    BY <1>1, <2>1 DEF TypeOK
  <2> QED
    BY <1>3, <2>2 DEF EntriesHoldTasks, OwnersInOrder
<1>7. TicketNamesTask'
  BY <1>1, <1>2, <1>6 DEF TicketNamesTask, TypeOK
<1> QED
  BY <1>1, <1>5, <1>7

(* The released entry belongs to the released number only.                 *)
LEMMA PopReleaseIInv ==
  ASSUME IInv, NEW t \in Threads, PopRelease(t)
  PROVE  IInv'
<1> USE DEF IInv
<1>1. TypeOK /\ TypeOK'
  BY NextTypeOK DEF Next, Pop
<1>2. /\ pc[t] = "release"
      /\ pc' = [pc EXCEPT ![t] = "idle"]
      /\ in_use' = [in_use EXCEPT ![idx[t]] = 0]
      /\ returned' = returned \cup {val[t]}
      /\ UNCHANGED <<val, next_alloc, pslot, ppc, pushed, claims, pos, idx, a_first,
                     data, sem>>
  BY DEF PopRelease, Unmarked
<1>3. Owners' = Owners \ {t} /\ t \in Owners /\ TokenHolders' = TokenHolders
  BY <1>1, <1>2 DEF Owners, TokenHolders, TypeOK
<1>4. pos[t] \in Nat /\ pos[t] < claims /\ idx[t] = SlotOf(pos[t]) /\ val[t] = pos[t] + 1
  BY <1>2, <1>3, LiveBounds DEF OwnersInOrder, TicketNamesTask
<1>5. claims \in Nat /\ pushed \in Nat /\ claims <= pushed
  BY <1>1, LiveBounds DEF TypeOK
<1>6. Live' = Live \ {pos[t]} /\ pos[t] \in Live
  <2>1. {pos'[u] : u \in Owners'} = {pos[u] : u \in Owners} \ {pos[t]}
    BY <1>2, <1>3 DEF OwnersInOrder
  <2>2. pos[t] \notin claims .. pushed - 1 /\ pos[t] # pushed
    BY <1>4, <1>5
  <2> QED
    BY <1>2, <1>3, <2>1, <2>2, LiveBounds DEF Live
<1>7. CountersAligned' /\ TokensConserved'
  BY <1>2, <1>3 DEF CountersAligned, TokensConserved, SlotOf
<1>8. LiveEntriesDistinct'
  BY <1>6 DEF LiveEntriesDistinct, SlotOf
<1>9. EntriesHoldTasks'
  <2>1. \A k \in Live' : SlotOf(k) # idx[t] /\ SlotOf(k) \in Slots
    BY <1>4, <1>6, LiveBounds, SlotType DEF LiveEntriesDistinct
  <2>2. \A k \in Live' : in_use'[SlotOf(k)] = 1
    BY <1>1, <1>2, <1>6, <2>1 DEF EntriesHoldTasks, TypeOK
  <2> QED
    BY <1>2, <1>6, <2>2 DEF EntriesHoldTasks, SlotOf
<1>10. OwnersInOrder'
  BY <1>2, <1>3 DEF OwnersInOrder, SlotOf
<1>11. TicketNamesTask'
  BY <1>1, <1>2 DEF TicketNamesTask, TypeOK
<1>12. ReturnedBefore'
  <2>1. \A u \in Owners : pos[u] \in Nat
    BY LiveBounds
  <2>2. \A u \in Owners' : val[t] # pos[u] + 1
    BY <1>3, <1>4, <2>1 DEF OwnersInOrder
  <2> QED
    BY <1>2, <1>3, <1>4, <1>5, <2>2 DEF ReturnedBefore
<1> QED
  BY <1>1, <1>7, <1>8, <1>9, <1>10, <1>11, <1>12

(* The invariant is inductive.                                             *)
LEMMA NextIInv == IInv /\ [Next]_vars => IInv'
<1> SUFFICES ASSUME IInv, [Next]_vars
             PROVE  IInv'
  OBVIOUS
<1>1. CASE UNCHANGED vars
  BY <1>1 DEF vars, IInv, TypeOK, CountersAligned, TokensConserved, EntriesHoldTasks,
     LiveEntriesDistinct, OwnersInOrder, TicketNamesTask, ReturnedBefore, Live, Owners,
     TokenHolders, SlotOf
<1>2. CASE Push
  BY <1>2, PushReserveIInv, PushStoreIInv, PushPostIInv DEF Push
<1>3. ASSUME NEW t \in Threads, Pop(t)
      PROVE  IInv'
  BY <1>3, TakeTokenIInv, PopClaimIInv, PopLoadIInv, PopReleaseIInv DEF Pop
<1> QED
  BY <1>1, <1>2, <1>3 DEF Next, Finished

(* The inductive invariant holds in every reachable state: counters follow *)
(* the numbering of pushes and claims, tokens stand for published tasks,   *)
(* and no two live numbers share an entry.                                 *)
THEOREM Invariance == Spec => []IInv
<1> QED
  BY InitIInv, NextIInv, PTL DEF Spec

-------------------------------------------------------------------------------
(* The properties of the queue *)

(* The assertion in FifoSpmcPop never fails, and no two consumers are in   *)
(* one entry and the producer is in none of theirs, so FifoSpmcPop's plain *)
(* read and FifoSpmcTryPush's plain writes never meet.                     *)
THEOREM EntryOwnership == Spec => []OneOwnerPerEntry
<1>1. IInv => OneOwnerPerEntry
  <2> SUFFICES ASSUME IInv
               PROVE  OneOwnerPerEntry
    OBVIOUS
  <2>1. \A t \in Owners : pos[t] \in Live /\ pos[t] # pushed /\ idx[t] = SlotOf(pos[t])
    BY LiveBounds DEF IInv, TypeOK, OwnersInOrder
  <2>2. ppc # "idle" => pushed \in Live /\ pslot = SlotOf(pushed)
    BY DEF IInv, CountersAligned, Live
  <2>3. \A t \in Owners : in_use[idx[t]] = 1
    BY LiveBounds DEF IInv, EntriesHoldTasks, OwnersInOrder
  <2> QED
    BY <2>1, <2>2, <2>3 DEF IInv, OneOwnerPerEntry, LiveEntriesDistinct, OwnersInOrder
<1> QED
  BY <1>1, Invariance, PTL

(* The k-th ticket returns the k-th task pushed.                           *)
THEOREM FirstInFirstOut == Spec => []TicketNamesTask
<1>1. IInv => TicketNamesTask
  BY DEF IInv
<1> QED
  BY <1>1, Invariance, PTL

(* No task is handed to two threads, or twice to one.                      *)
THEOREM HandedOutOnce == Spec => NeverReturnedTwice
<1>1. IInv => \A t \in Threads : pc[t] = "release" => val[t] \notin returned
  BY DEF IInv, TicketNamesTask, ReturnedBefore, Owners
<1>2. IInv /\ [Next]_vars =>
        [\A t \in Threads : pc[t] = "release" /\ pc'[t] = "idle"
            => val[t] \notin returned]_vars
  BY <1>1
<1> QED
  BY <1>2, Invariance, PTL DEF Spec, NeverReturnedTwice

-------------------------------------------------------------------------------
(* The queue implements TaskQueue *)

(* A push under way is one that the bound allows.                          *)
PushWithinBound == ppc # "idle" => pushed < MaxPush

LEMMA BoundKept == Spec => [](IInv /\ PushWithinBound)
<1>1. Init => PushWithinBound
  BY DEF Init, PushWithinBound
<1>2. IInv /\ PushWithinBound /\ [Next]_vars => PushWithinBound'
  BY DEF PushWithinBound, Next, Push, Pop, Finished, vars, PushReserve, PushStore, PushPost,
         TakeToken, PopClaim, PopLoad, PopRelease
<1> QED
  BY <1>1, <1>2, Invariance, PTL DEF Spec

(* What the queue holds, told by the numbers of pushes and claims: a push  *)
(* is its number plus one.                                                 *)
Waiting == [k \in 1 .. pushed - claims |-> claims + k]
InHand == [t \in Threads |-> IF t \in Owners THEN pos[t] + 1 ELSE NULL]

(* The array, read from the entry of a_first onwards for as many tokens as *)
(* there are, holds the waiting tasks; a claimed entry, its owner's task.  *)
LEMMA ArrayHoldsQueue == IInv => QueueBar = Waiting /\ HeldBar = InHand
<1> SUFFICES ASSUME IInv
             PROVE  QueueBar = Waiting /\ HeldBar = InHand
  OBVIOUS
<1>1. claims \in Nat /\ pushed \in Nat /\ claims <= pushed
  BY LiveBounds DEF IInv, TypeOK
<1>2. sem + Cardinality(TokenHolders) = pushed - claims
  <2>1. Cardinality(TokenHolders) \in Nat
    BY ThreadsFinite, FS_Subset, FS_CardinalityType DEF TokenHolders
  <2> QED
    BY <1>1, <2>1 DEF IInv, TypeOK, TokensConserved
<1>3. ASSUME NEW k \in 1 .. pushed - claims
      PROVE  data[SlotOf(a_first + k - 1)] = claims + k
  <2> DEFINE j == claims + (k - 1)
  <2>1. j \in Live \ {pushed} /\ k - 1 \in Nat /\ j \in Nat /\ j + 1 = claims + k
    BY <1>1 DEF Live
  <2>2. SlotOf(a_first + (k - 1)) = SlotOf(j)
    <3>1. PICK m \in 1 .. CounterMod : CounterMod = N * m
      BY SizeAssumption
    <3>2. a_first % N = claims % N
      BY <1>1, TicketSlot DEF IInv, CountersAligned, SlotOf
    <3>3. a_first \in Nat /\ claims \in Nat /\ k - 1 \in Int /\ N \in Nat \ {0}
      BY <1>1, <2>1, SizeAssumption DEF IInv, TypeOK
    <3>4. ((a_first % N) + (k - 1)) % N = (a_first + (k - 1)) % N
      BY <3>3, ModAdd, Zenon
    <3>5. ((claims % N) + (k - 1)) % N = (claims + (k - 1)) % N
      BY <3>3, ModAdd, Zenon
    <3> QED
      BY <3>2, <3>4, <3>5 DEF SlotOf
  <2>3. a_first + k - 1 = a_first + (k - 1)
    BY SizeAssumption DEF IInv, TypeOK
  <2> HIDE DEF j
  <2>4. data[SlotOf(j)] = j + 1
    BY <2>1 DEF IInv, EntriesHoldTasks
  <2> QED
    BY <2>1, <2>2, <2>3, <2>4
<1>4. ASSUME NEW t \in Owners
      PROVE  data[idx[t]] = pos[t] + 1
  <2>1. pos[t] \in Live \ {pushed}
    BY <1>1, LiveBounds
  <2> QED
    BY <2>1 DEF IInv, EntriesHoldTasks, OwnersInOrder
<1> QED
  BY <1>2, <1>3, <1>4 DEF QueueBar, Waiting, HeldBar, InHand

(* There is a free entry for a task that is written: the live numbers use  *)
(* an entry each.                                                          *)
LEMMA RoomForPush ==
  ASSUME IInv, ppc = "post"
  PROVE  (pushed - claims) + Cardinality(Owners) < N
<1> DEFINE Claimed == {pos[t] : t \in Owners}
           Unclaimed == claims .. pushed
<1>1. claims \in Nat /\ pushed \in Nat /\ claims <= pushed
  BY LiveBounds DEF IInv, TypeOK
<1>2. IsFiniteSet(Owners) /\ Cardinality(Owners) \in Nat
  BY ThreadsFinite, FS_Subset, FS_CardinalityType DEF Owners
<1>3. \A k \in Claimed : k \in Nat /\ k < claims
  BY LiveBounds
<1>4. IsFiniteSet(Claimed) /\ Cardinality(Claimed) \in Nat
  <2>1. IsFiniteSet(0 .. claims)
    BY <1>1, FS_Interval
  <2>2. Claimed \in SUBSET (0 .. claims)
    BY <1>1, <1>3
  <2> HIDE DEF Claimed
  <2> QED
    BY <2>1, <2>2, FS_Subset, FS_CardinalityType
<1>5. Cardinality(Owners) <= Cardinality(Claimed)
  <2> DEFINE f == [t \in Owners |-> pos[t]]
  <2>1. f \in Injection(Owners, Claimed)
    BY DEF Injection, IsInjective, IInv, OwnersInOrder
  <2> HIDE DEF f, Claimed
  <2> QED
    BY <1>4, <2>1, FS_Injection
<1>6. IsFiniteSet(Unclaimed) /\ Cardinality(Unclaimed) = pushed - claims + 1
  BY <1>1, FS_Interval
<1>7. Live = Claimed \cup Unclaimed /\ Claimed \cap Unclaimed = {}
  <2>1. Unclaimed = (claims .. pushed - 1) \cup {pushed}
    BY <1>1
  <2>2. Claimed \cap Unclaimed = {}
    BY <1>1, <1>3
  <2> QED
    BY <2>1, <2>2 DEF Live
<1>8. Cardinality(Live) = Cardinality(Claimed) + Cardinality(Unclaimed)
  <2>1. Cardinality(Claimed \cap Unclaimed) = 0
    BY <1>7, FS_EmptySet
  <2>2. Cardinality(Claimed \cup Unclaimed)
          = Cardinality(Claimed) + Cardinality(Unclaimed) - Cardinality(Claimed \cap Unclaimed)
    <3> HIDE DEF Claimed, Unclaimed
    <3> QED
      BY <1>4, <1>6, FS_Union
  <2> HIDE DEF Claimed, Unclaimed
  <2> QED
    BY <1>1, <1>4, <1>6, <1>7, <2>1, <2>2
<1>9. Cardinality(Live) <= N
  <2> DEFINE f == [k \in Live |-> SlotOf(k)]
  <2>1. \A k \in Live : SlotOf(k) \in Slots
    BY LiveBounds, SlotType
  <2>2. f \in Injection(Live, Slots)
    BY <2>1 DEF Injection, IsInjective, IInv, LiveEntriesDistinct
  <2>3. IsFiniteSet(Slots) /\ Cardinality(Slots) = N
    BY SizeAssumption, FS_Interval DEF Slots
  <2> HIDE DEF f
  <2> QED
    BY <2>2, <2>3, FS_Injection
<1> HIDE DEF Claimed, Unclaimed
<1> QED
  BY <1>1, <1>2, <1>4, <1>5, <1>6, <1>8, <1>9, SizeAssumption

(* What TaskQueue counts as occupied are the waiting and the claimed.      *)
LEMMA OccupiedEntries ==
  ASSUME IInv
  PROVE  TQ!Occupied = (pushed - claims) + Cardinality(Owners)
<1>1. claims \in Nat /\ pushed \in Nat /\ claims <= pushed
  BY LiveBounds DEF IInv, TypeOK
<1>2. Len(QueueBar) = pushed - claims
  <2>1. QueueBar = Waiting
    BY ArrayHoldsQueue
  <2>2. Waiting \in Seq(Nat) /\ Len(Waiting) = pushed - claims
    BY <1>1 DEF Waiting
  <2> QED
    BY <2>1, <2>2
<1>3. {t \in Threads : HeldBar[t] # NULL} = Owners
  <2>1. HeldBar = InHand
    BY ArrayHoldsQueue
  <2>2. \A t \in Owners : pos[t] + 1 # NULL /\ t \in Threads
    BY LiveBounds DEF NULL, Owners
  <2> QED
    BY <2>1, <2>2 DEF InHand
<1>4. TQ!Cardinality(Owners) = Cardinality(Owners)
  BY DEF TQ!Cardinality, Cardinality
<1> QED
  BY <1>2, <1>3, <1>4, Zenon DEF TQ!Occupied

(* FifoSpmcInit is an empty queue in nobody's hands.                       *)
LEMMA InitImplements == Init => TQ!TQInit
<1> SUFFICES ASSUME Init
             PROVE  QueueBar = <<>> /\ HeldBar = [t \in Threads |-> NULL]
  BY DEF TQ!TQInit
<1>1. Owners = {} /\ IInv /\ pushed = 0 /\ claims = 0
  BY InitIInv DEF Init, Owners
<1>2. Waiting = <<>> /\ InHand = [t \in Threads |-> NULL]
  BY <1>1 DEF Waiting, InHand
<1> QED
  BY <1>1, <1>2, ArrayHoldsQueue

(* A step that publishes nothing, claims nothing and releases nothing      *)
(* leaves the abstract queue alone.                                        *)
LEMMA StutterImplements ==
  ASSUME UNCHANGED <<pushed, claims>>, Owners' = Owners,
         \A t \in Owners : pos'[t] = pos[t]
  PROVE  Waiting' = Waiting /\ InHand' = InHand
  BY DEF Waiting, InHand

(* SemaphorePost puts the task at the end of the queue.                    *)
LEMMA PostImplements ==
  ASSUME IInv, IInv', PushWithinBound, PushPost
  PROVE  /\ TQ!Occupied < N /\ pushed + 1 \in 1 .. MaxPush
         /\ Waiting' = Append(Waiting, pushed + 1) /\ InHand' = InHand
<1>1. /\ ppc = "post" /\ pushed' = pushed + 1 /\ UNCHANGED <<claims, pos, pc>>
      /\ claims \in Nat /\ pushed \in Nat /\ claims <= pushed
  BY LiveBounds DEF PushPost, IInv, TypeOK
<1>2. TQ!Occupied < N
  BY <1>1, RoomForPush, OccupiedEntries
<1>3. pushed + 1 \in 1 .. MaxPush
  BY <1>1, BoundAssumption DEF PushWithinBound
<1>4. Waiting' = Append(Waiting, pushed + 1)
  <2> DEFINE n == pushed - claims
  <2>1. n \in Nat /\ pushed' - claims' = n + 1 /\ claims' = claims
        /\ pushed + 1 = claims + (n + 1)
    BY <1>1
  <2> HIDE DEF n
  <2>2. Waiting = [k \in 1 .. n |-> claims + k] /\ Waiting' = [k \in 1 .. n + 1 |-> claims + k]
    BY <2>1 DEF Waiting, n
  <2>3. Waiting \in Seq(Nat) /\ Len(Waiting) = n
    BY <1>1, <2>1, <2>2
  <2> QED
    BY <1>1, <2>1, <2>2, <2>3
<1>5. InHand' = InHand
  BY <1>1 DEF InHand, Owners
<1> QED
  BY <1>2, <1>3, <1>4, <1>5

(* The fetch-and-add on a_first takes the task at the head of the queue.   *)
LEMMA ClaimImplements ==
  ASSUME IInv, IInv', NEW t \in Threads, PopClaim(t)
  PROVE  /\ Waiting # <<>> /\ InHand[t] = NULL
         /\ InHand' = [InHand EXCEPT ![t] = Head(Waiting)] /\ Waiting' = Tail(Waiting)
<1>1. TypeOK
  BY DEF IInv
<1>2. /\ pc[t] = "claim" /\ pc' = [pc EXCEPT ![t] = "load"]
      /\ pos' = [pos EXCEPT ![t] = claims] /\ claims' = claims + 1 /\ pushed' = pushed
  BY DEF PopClaim
<1>3. claims \in Nat /\ pushed \in Nat /\ claims + 1 <= pushed
  <2>1. claims + Cardinality(TokenHolders) + sem = pushed /\ claims \in Nat /\ pushed \in Nat
        /\ sem \in Nat
    BY <1>1 DEF IInv, TokensConserved, TypeOK
  <2>2. IsFiniteSet(TokenHolders) /\ t \in TokenHolders
    BY <1>2, ThreadsFinite, FS_Subset DEF TokenHolders
  <2>3. Cardinality(TokenHolders) \in Nat /\ Cardinality(TokenHolders) # 0
    BY <2>2, FS_CardinalityType, FS_EmptySet
  <2> QED
    BY <2>1, <2>3
<1>4. Owners' = Owners \cup {t} /\ t \notin Owners
  BY <1>1, <1>2 DEF Owners, TypeOK
<1>5. pos'[t] = claims /\ \A u \in Threads \ {t} : pos'[u] = pos[u]
  BY <1>1, <1>2 DEF TypeOK
<1>6. Waiting # <<>> /\ Head(Waiting) = claims + 1 /\ Waiting' = Tail(Waiting)
  <2> DEFINE n == pushed - (claims + 1)
  <2>1. n \in Nat /\ pushed - claims = n + 1 /\ pushed' - claims' = n
    BY <1>2, <1>3
  <2> HIDE DEF n
  <2>2. Waiting = [k \in 1 .. n + 1 |-> claims + k]
        /\ Waiting' = [k \in 1 .. n |-> (claims + 1) + k]
    BY <1>2, <2>1 DEF Waiting
  <2>3. Waiting \in Seq(Nat) /\ Len(Waiting) = n + 1
    BY <1>3, <2>1, <2>2
  <2>4. Waiting # <<>> /\ Head(Waiting) = claims + 1
    BY <1>3, <2>1, <2>2, <2>3
  <2>5. Tail(Waiting) = [k \in 1 .. n |-> claims + (k + 1)]
    BY <2>1, <2>2, <2>3
  <2>6. \A k \in 1 .. n : claims + (k + 1) = (claims + 1) + k
    BY <1>3
  <2> QED
    BY <2>2, <2>4, <2>5, <2>6
<1>7. InHand[t] = NULL /\ InHand' = [InHand EXCEPT ![t] = claims + 1]
  BY <1>4, <1>5 DEF InHand
<1> QED
  BY <1>6, <1>7

(* The release of the entry hands the task back.                           *)
LEMMA ReleaseImplements ==
  ASSUME IInv, NEW t \in Threads, PopRelease(t)
  PROVE  /\ InHand[t] # NULL /\ InHand' = [InHand EXCEPT ![t] = NULL]
         /\ Waiting' = Waiting
<1>1. TypeOK
  BY DEF IInv
<1>2. /\ pc[t] = "release" /\ pc' = [pc EXCEPT ![t] = "idle"]
      /\ UNCHANGED <<pos, claims, pushed>>
  BY DEF PopRelease
<1>3. Owners' = Owners \ {t} /\ t \in Owners
  BY <1>1, <1>2 DEF Owners, TypeOK
<1>4. pos[t] + 1 # NULL
  BY <1>3, LiveBounds DEF NULL
<1> QED
  BY <1>2, <1>3, <1>4 DEF InHand, Waiting

(* Every step of the queue is a step of TaskQueue or leaves it alone.      *)
LEMMA NextImplements ==
  ASSUME IInv, IInv', PushWithinBound, [Next]_vars,
         QueueBar = Waiting, HeldBar = InHand, QueueBar' = Waiting', HeldBar' = InHand'
  PROVE  [TQ!TQNext]_(TQ!tqVars)
<1> USE DEF TQ!TQNext, TQ!tqVars
<1>1. TypeOK
  BY DEF IInv
<1>2. CASE Waiting' = Waiting /\ InHand' = InHand
  BY <1>2
<1>3. CASE PushReserve
  <2>1. Waiting' = Waiting /\ InHand' = InHand
    BY <1>3, StutterImplements DEF PushReserve, Owners
  <2> QED
    BY <1>2, <2>1
<1>4. CASE PushStore
  <2>1. Waiting' = Waiting /\ InHand' = InHand
    BY <1>4, StutterImplements DEF PushStore, Owners
  <2> QED
    BY <1>2, <2>1
<1>5. CASE PushPost
  BY <1>5, PostImplements DEF TQ!Enqueue
<1>6. ASSUME NEW t \in Threads, TakeToken(t)
      PROVE  [TQ!TQNext]_(TQ!tqVars)
  <2>1. Owners' = Owners /\ UNCHANGED <<pushed, claims, pos>>
    BY <1>1, <1>6 DEF TakeToken, Owners, TypeOK
  <2>2. Waiting' = Waiting /\ InHand' = InHand
    BY <2>1, StutterImplements
  <2> QED
    BY <1>2, <2>2
<1>7. ASSUME NEW t \in Threads, PopClaim(t)
      PROVE  [TQ!TQNext]_(TQ!tqVars)
  BY <1>7, ClaimImplements DEF TQ!Dequeue
<1>8. ASSUME NEW t \in Threads, PopLoad(t)
      PROVE  [TQ!TQNext]_(TQ!tqVars)
  <2>1. Owners' = Owners /\ UNCHANGED <<pushed, claims, pos>>
    BY <1>1, <1>8 DEF PopLoad, Owners, TypeOK
  <2>2. Waiting' = Waiting /\ InHand' = InHand
    BY <2>1, StutterImplements
  <2> QED
    BY <1>2, <2>2
<1>9. ASSUME NEW t \in Threads, PopRelease(t)
      PROVE  [TQ!TQNext]_(TQ!tqVars)
  BY <1>9, ReleaseImplements DEF TQ!HandBack
<1>10. CASE UNCHANGED vars
  <2>1. Waiting' = Waiting /\ InHand' = InHand
    BY <1>10, StutterImplements DEF vars, Owners
  <2> QED
    BY <1>2, <2>1
<1> QED
  BY <1>3, <1>4, <1>5, <1>6, <1>7, <1>8, <1>9, <1>10 DEF Next, Push, Pop, Finished

(* The array, the semaphore and the counters of fifo_spmc implement a      *)
(* bounded first-in first-out queue: a push takes effect when it posts the *)
(* semaphore and a pop when it claims its ticket.                          *)
THEOREM Refinement == Spec => Implements
<1>1. Init => TQ!TQInit
  BY InitImplements
<1>2. IInv => QueueBar = Waiting /\ HeldBar = InHand
  BY ArrayHoldsQueue
<1>3. IInv' => (QueueBar = Waiting)' /\ (HeldBar = InHand)'
  BY <1>2, PTL
<1>4. IInv /\ IInv' /\ PushWithinBound /\ [Next]_vars => [TQ!TQNext]_(TQ!tqVars)
  BY <1>2, <1>3, NextImplements
<1> QED
  BY <1>1, <1>4, BoundKept, PTL DEF Spec, Implements, TQ!TQSpec
=============================================================================
