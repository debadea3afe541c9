------------------------- MODULE BlockAllocator_proofs -------------------------
(***************************************************************************)
(* Proofs about BlockAllocator for any number of threads and blocks, any   *)
(* size of the local stacks and any number of allocations below the range  *)
(* of the generations, in the builds whose release store stores the whole  *)
(* word.  Beyond that range, and in the other builds, they do not hold.    *)
(***************************************************************************)
EXTENDS BlockAllocator, CommonLemmas, FiniteSetTheorems, TLAPS

(* Generations do not wrap, and a link is stored whole.                    *)
WholeLinks == Store32 = FALSE /\ MaxAllocs < GenMod

-------------------------------------------------------------------------------
(* Types *)

(* The sizes as natural numbers.                                           *)
LEMMA Sizes ==
  /\ MaxCount \in Nat /\ MaxCount > 0 /\ LocalMax \in Nat /\ LocalLow \in Nat
  /\ LocalLow >= 1 /\ LocalLow <= LocalMax - 1 /\ GenMod \in Nat /\ GenMod > 0
  /\ MaxAllocs \in Nat
  BY AllocatorAssumption

(* An identifier is a generation and an index.                             *)
LEMMA IdType ==
  ASSUME NEW id \in Ids
  PROVE  /\ Gen(id) \in 0 .. GenMod - 1 /\ Index(id) \in 0 .. MaxCount
         /\ id = <<Gen(id), Index(id)>>
  BY DEF Ids, Gen, Index

LEMMA IdOf ==
  ASSUME NEW g \in 0 .. GenMod - 1, NEW i \in 0 .. MaxCount
  PROVE  /\ <<g, i>> \in Ids /\ Gen(<<g, i>>) = g /\ Index(<<g, i>>) = i
  BY DEF Ids, Gen, Index

(* The next generation of an identifier, when it is in range.              *)
LEMMA NextIdOf ==
  ASSUME NEW id \in Ids, Gen(id) + 1 < GenMod
  PROVE  /\ NextId(id) = <<Gen(id) + 1, Index(id)>> /\ NextId(id) \in Ids
         /\ Gen(NextId(id)) = Gen(id) + 1 /\ Index(NextId(id)) = Index(id)
<1>1. Gen(id) \in Nat /\ Index(id) \in 0 .. MaxCount
  BY IdType, Sizes
<1>2. (Gen(id) + 1) % GenMod = Gen(id) + 1
  <2> DEFINE g == Gen(id) + 1
  <2>1. g \in Nat /\ g < GenMod /\ GenMod \in Nat
    BY <1>1, Sizes
  <2> HIDE DEF g
  <2>2. g % GenMod = g
    BY <2>1, Z3
  <2> QED
    BY <2>2 DEF g
<1>3. Gen(id) + 1 \in 0 .. GenMod - 1
  BY <1>1, Sizes
<1> QED
  BY <1>1, <1>2, <1>3, IdOf DEF NextId

(* The fresh word is an identifier of generation 0.                        *)
LEMMA DummyType ==
  Dummy \in Ids /\ Gen(Dummy) = 0 /\ Index(Dummy) = 0
  BY Sizes, IdOf DEF Dummy

(* The threads that allocate are finitely many.                            *)
LEMMA AllocatingFinite ==
  IsFiniteSet(Allocating) /\ Cardinality(Allocating) \in Nat
<1>1. IsFiniteSet(Allocating)
  BY AllocatorAssumption, FS_Subset DEF Allocating
<1> QED
  BY <1>1, FS_CardinalityType

(* Blocks are indexes of identifiers, and not MaxCount.                    *)
LEMMA BlockIndex ==
  ASSUME NEW i \in 0 .. MaxCount
  PROVE  i \in Blocks <=> i # MaxCount
  BY Sizes DEF Blocks

(* What the local stack of a thread holds.                                 *)
LEMMA StackTypes ==
  ASSUME IInv, NEW t \in Threads
  PROVE  /\ local_next[t] \in Seq(Ids) /\ Len(local_next[t]) \in Nat
         /\ Len(local_next[t]) <= LocalMax - 1
         /\ \A k \in 1 .. Len(local_next[t]) :
              /\ k \in 1 .. LocalMax /\ local_next[t][k] \in Ids
              /\ Index(local_next[t][k]) \in Blocks
              /\ header_id[Index(local_next[t][k])] = local_next[t][k]
              /\ At(t, k, Index(local_next[t][k]))
<1>1. local_next[t] \in Seq(Ids) /\ Len(local_next[t]) <= LocalMax - 1
  BY DEF IInv, TypeOK
<1>2. Len(local_next[t]) \in Nat /\ LocalMax \in Nat
  BY <1>1, Sizes
<1> QED
  BY <1>1, <1>2 DEF IInv, StackSound, At

(* A block that has an owner was allocated: its identifier names it.       *)
LEMMA OwnedAllocated ==
  ASSUME IInv, NEW b \in Blocks, ~Unowned(b)
  PROVE  /\ header_id[b] # Dummy /\ header_id[b] \in Ids
         /\ Gen(header_id[b]) >= 1 /\ Index(header_id[b]) = b
         /\ ~Published(b)
  BY DEF IInv, TypeOK, HeadersNameBlocks, Published

-------------------------------------------------------------------------------
(* Frames *)

(* A list that has an end keeps it when blocks are withdrawn.              *)
LEMMA EndsFrame ==
  ASSUME IInv,
         \A b \in Blocks : Published(b)' => Published(b) /\ header_next'[b] = header_next[b]
  PROVE  ListEnds'
<1>1. SUFFICES ASSUME NEW S \in SUBSET Blocks, S # {}, \A b \in S : Published(b)'
               PROVE  \E b \in S : Index(header_next[b])' \notin S
  BY DEF ListEnds
<1>2. \A b \in S : Published(b) /\ header_next'[b] = header_next[b]
  BY <1>1
<1>3. PICK b \in S : Index(header_next[b]) \notin S
  BY <1>1, <1>2 DEF IInv, ListLeads, ListEnds
<1> QED
  BY <1>2, <1>3 DEF Index

(* The shared list is as it was if nothing is published or withdrawn and   *)
(* the published blocks keep their headers.                                *)
LEMMA ListFrame ==
  ASSUME IInv, a_next' = a_next,
         \A b \in Blocks : Published(b)' <=> Published(b),
         \A b \in Blocks : Published(b) =>
           header_id'[b] = header_id[b] /\ header_next'[b] = header_next[b],
         \A b \in Blocks : header_id'[b] = Dummy <=> header_id[b] = Dummy
  PROVE  ListLeads'
<1>1. ASSUME NEW id, Leads(id)
      PROVE  Leads(id)'
  BY <1>1 DEF Leads, Gen, Index
<1>2. ListEnds'
  BY EndsFrame
<1> QED
  BY <1>1, <1>2 DEF IInv, ListLeads, Leads, Gen, Index

(* What a thread has read stays sound if generations only grow and the     *)
(* published blocks whose generation does not, keep their headers.         *)
LEMMA ReadFrame ==
  ASSUME IInv, NEW u \in Threads,
         pc'[u] = pc[u], seen'[u] = seen[u], new_next'[u] = new_next[u],
         header_id' \in [Blocks -> Ids],
         \A b \in Blocks :
           \/ Gen(header_id'[b]) > Gen(header_id[b])
           \/ /\ header_id'[b] = header_id[b]
              /\ Published(b) => Published(b)' /\ header_next'[b] = header_next[b]
  PROVE  ReadSound(u)'
<1>1. ReadSound(u) /\ TypeOK
  BY DEF IInv
<1>2. \A b \in Blocks : Gen(header_id[b]) \in Int /\ Gen(header_id'[b]) \in Int
  BY <1>1, IdType, Sizes DEF TypeOK
<1>3. Gen(seen[u]) \in Int
  BY <1>1, IdType, Sizes DEF TypeOK
<1>4. CASE pc[u] \in {"read", "take"} /\ Gen(seen[u]) >= 1
  <2> DEFINE b == Index(seen[u])
  <2>1. b \in Blocks
    BY <1>1, <1>4 DEF ReadSound
  <2>2. \/ Gen(header_id'[b]) > Gen(seen[u])
        \/ /\ header_id'[b] = seen[u] /\ Published(b)'
           /\ pc[u] = "take" => new_next[u] = header_next'[b]
    BY <1>1, <1>2, <1>3, <1>4, <2>1 DEF ReadSound
  <2> QED
    BY <1>1, <1>4, <2>1, <2>2 DEF ReadSound, Gen, Index, Published, Unowned, Moving, InTransit, At
<1>5. CASE ~(pc[u] \in {"read", "take"} /\ Gen(seen[u]) >= 1)
  BY <1>1, <1>5 DEF ReadSound, Gen, Index
<1> QED
  BY <1>4, <1>5

(* A step between the loads of an allocation moves no block and changes    *)
(* no header.                                                              *)
LEMMA LoadStep ==
  ASSUME IInv, NEW t \in Threads, NEW l \in {"idle", "read", "take"},
         pc[t] \in {"idle", "read", "take"}, pc' = [pc EXCEPT ![t] = l],
         UNCHANGED <<cached, a_next, header_id, header_next, local_next, block, freeing,
                     holders>>,
         \A u \in Threads \ {t} : seen'[u] = seen[u] /\ new_next'[u] = new_next[u]
  PROVE  /\ OneOwner' /\ HeadersNameBlocks' /\ ListLeads'
         /\ \A b \in Blocks : Published(b)' <=> Published(b)
         /\ \A u \in Threads : StackSound(u)'
         /\ \A u \in Threads \ {t} : ReadSound(u)'
<1>1. TypeOK
  BY DEF IInv
<1>2. pc'[t] = l /\ \A u \in Threads \ {t} : pc'[u] = pc[u]
  BY <1>1 DEF TypeOK
<1>3. \A u \in Threads : \A b : Moving(u, b)' <=> Moving(u, b)
  BY <1>2 DEF Moving, InTransit
<1>4. \A u, k, b : At(u, k, b)' <=> At(u, k, b)
  BY DEF At, Index
<1>5. \A b : Unowned(b)' <=> Unowned(b)
  BY <1>3, <1>4 DEF Unowned
<1>6. \A b : Published(b)' <=> Published(b)
  BY <1>5 DEF Published
<1>7. OneOwner'
  BY <1>3, <1>4 DEF IInv, OneOwner
<1>8. HeadersNameBlocks'
  BY <1>5 DEF IInv, HeadersNameBlocks, Gen, Index
<1>9. ListLeads'
  BY <1>6, ListFrame
<1>10. ASSUME NEW u \in Threads
       PROVE  StackSound(u)'
  <2>1. StackSound(u)
    BY DEF IInv
  <2> QED
    BY <1>2, <2>1 DEF StackSound, Index, LocalTop
<1>11. ASSUME NEW u \in Threads \ {t}
       PROVE  ReadSound(u)'
  <2>1. header_id' \in [Blocks -> Ids]
    BY <1>1 DEF TypeOK
  <2> QED
    BY <1>2, <1>6, <2>1, ReadFrame
<1> QED
  BY <1>6, <1>7, <1>8, <1>9, <1>10, <1>11

-------------------------------------------------------------------------------
(* The steps of an allocation *)

(* The load of a_next: what it leads to is published or fresh now.         *)
LEMMA AllocLoadIInv ==
  ASSUME IInv, NEW t \in Threads, AllocLoad(t)
  PROVE  IInv'
<1>1. TypeOK /\ ListLeads
  BY DEF IInv
<1>2. /\ pc[t] = "idle" /\ pc' = [pc EXCEPT ![t] = "read"] /\ allocs < MaxAllocs
      /\ seen' = [seen EXCEPT ![t] = a_next] /\ allocs' = allocs + 1
      /\ UNCHANGED <<cached, a_next, header_id, header_next, local_next, new_next, block,
                     freeing, holders>>
  BY DEF AllocLoad, Goto
<1>3. /\ pc'[t] = "read" /\ seen'[t] = a_next
      /\ \A u \in Threads \ {t} : pc'[u] = pc[u] /\ seen'[u] = seen[u]
  BY <1>1, <1>2 DEF TypeOK
<1>4. TypeOK'
  <2>1. allocs' \in 0 .. MaxAllocs
    BY <1>1, <1>2, Sizes DEF TypeOK
  <2> QED
    BY <1>1, <1>2, <2>1 DEF TypeOK
<1>5. /\ OneOwner' /\ HeadersNameBlocks' /\ ListLeads'
      /\ \A b \in Blocks : Published(b)' <=> Published(b)
      /\ \A u \in Threads : StackSound(u)'
      /\ \A u \in Threads \ {t} : ReadSound(u)'
  BY <1>2, <1>3, LoadStep
<1>6. ReadSound(t)'
  BY <1>1, <1>2, <1>3, <1>5 DEF ReadSound, ListLeads, Leads, Gen, Index
<1>7. GenerationsCounted'
  <2>1. Allocating' = Allocating \cup {t} /\ t \notin Allocating
    BY <1>2, <1>3 DEF Allocating
  <2>2. Cardinality(Allocating') = Cardinality(Allocating) + 1
    BY <2>1, AllocatingFinite, FS_AddElement
  <2>3. ASSUME NEW b \in Blocks
        PROVE  Gen(header_id[b]) + (Cardinality(Allocating) + 1) <= allocs + 1
    <3>1. Gen(header_id[b]) \in Int /\ allocs \in Int
      BY <1>1, IdType, Sizes DEF TypeOK
    <3> QED
      BY <3>1, AllocatingFinite DEF IInv, GenerationsCounted
  <2> QED
    BY <1>2, <2>2, <2>3 DEF GenerationsCounted, Gen
<1> QED
  BY <1>4, <1>5, <1>6, <1>7 DEF IInv

(* A word with index MaxCount: there is no block left.                     *)
LEMMA OutOfMemoryIInv ==
  ASSUME IInv, NEW t \in Threads, OutOfMemory(t)
  PROVE  IInv'
<1>1. TypeOK
  BY DEF IInv
<1>2. /\ pc[t] = "read" /\ pc' = [pc EXCEPT ![t] = "idle"]
      /\ UNCHANGED <<cached, a_next, header_id, header_next, local_next, seen, new_next,
                     block, freeing, holders, allocs>>
  BY DEF OutOfMemory, Goto
<1>3. pc'[t] = "idle" /\ \A u \in Threads \ {t} : pc'[u] = pc[u]
  BY <1>1, <1>2 DEF TypeOK
<1>4. TypeOK'
  BY <1>1, <1>2 DEF TypeOK
<1>5. /\ OneOwner' /\ HeadersNameBlocks' /\ ListLeads'
      /\ \A u \in Threads : StackSound(u)'
      /\ \A u \in Threads \ {t} : ReadSound(u)'
  BY <1>2, LoadStep
<1>6. ReadSound(t)'
  BY <1>3 DEF ReadSound
<1>7. GenerationsCounted'
  <2>1. Allocating' = Allocating \ {t} /\ t \in Allocating
    BY <1>2, <1>3 DEF Allocating
  <2>2. Cardinality(Allocating') = Cardinality(Allocating) - 1
    BY <2>1, AllocatingFinite, FS_RemoveElement
  <2>3. ASSUME NEW b \in Blocks
        PROVE  Gen(header_id[b]) + (Cardinality(Allocating) - 1) <= allocs
    <3>1. Gen(header_id[b]) \in Int /\ allocs \in Int
      BY <1>1, IdType, Sizes DEF TypeOK
    <3> QED
      BY <3>1, AllocatingFinite DEF IInv, GenerationsCounted
  <2> QED
    BY <1>2, <2>2, <2>3 DEF GenerationsCounted, Gen
<1> QED
  BY <1>4, <1>5, <1>6, <1>7 DEF IInv

(* The successor is read from a header that may be anybody's: it is right  *)
(* if the block is still published under the generation that was read.     *)
LEMMA AllocReadIInv ==
  ASSUME IInv, NEW t \in Threads, AllocRead(t)
  PROVE  IInv'
<1>1. TypeOK /\ ReadSound(t)
  BY DEF IInv
<1>2. /\ pc[t] = "read" /\ pc' = [pc EXCEPT ![t] = "take"] /\ Index(seen[t]) # MaxCount
      /\ new_next' = [new_next EXCEPT ![t] = Follow(seen[t])]
      /\ UNCHANGED <<cached, a_next, header_id, header_next, local_next, seen, block,
                     freeing, holders, allocs>>
  BY DEF AllocRead, Goto
<1>3. /\ pc'[t] = "take" /\ new_next'[t] = Follow(seen[t])
      /\ \A u \in Threads \ {t} : pc'[u] = pc[u] /\ new_next'[u] = new_next[u]
  BY <1>1, <1>2 DEF TypeOK
<1>4. seen[t] \in Ids /\ Index(seen[t]) \in Blocks
  BY <1>1, <1>2, IdType, BlockIndex DEF TypeOK
<1>5. TypeOK'
  <2>1. Follow(seen[t]) \in Ids
    <3>1. CASE Gen(seen[t]) = 0
      <4>1. Index(seen[t]) + 1 \in 0 .. MaxCount /\ 0 \in 0 .. GenMod - 1
        BY <1>4, Sizes DEF Blocks
      <4> QED
        BY <3>1, <4>1, IdOf DEF Follow
    <3>2. CASE Gen(seen[t]) # 0
      BY <1>1, <1>4, <3>2 DEF Follow, TypeOK
    <3> QED
      BY <3>1, <3>2
  <2> QED
    BY <1>1, <1>2, <2>1 DEF TypeOK
<1>6. /\ OneOwner' /\ HeadersNameBlocks' /\ ListLeads'
      /\ \A b \in Blocks : Published(b)' <=> Published(b)
      /\ \A u \in Threads : StackSound(u)'
      /\ \A u \in Threads \ {t} : ReadSound(u)'
  BY <1>2, <1>3, LoadStep
<1>7. ReadSound(t)'
  <2>1. Gen(seen[t]) \in Nat
    BY <1>4, IdType, Sizes
  <2>2. Gen(seen[t]) >= 1 =>
          /\ new_next'[t] = header_next[Index(seen[t])]
          /\ \/ Gen(header_id[Index(seen[t])]) > Gen(seen[t])
             \/ header_id[Index(seen[t])] = seen[t] /\ Published(Index(seen[t]))
    BY <1>1, <1>2, <1>3, <2>1 DEF Follow, ReadSound
  <2>3. Published(Index(seen[t])) => Published(Index(seen[t]))'
    BY <1>2, <1>4, <1>6 DEF Index
  <2> QED
    BY <1>2, <1>3, <1>4, <2>1, <2>2, <2>3 DEF Follow, ReadSound, Gen, Index
<1>8. GenerationsCounted'
  <2>1. Allocating' = Allocating
    BY <1>2, <1>3 DEF Allocating
  <2> QED
    BY <1>2, <2>1 DEF IInv, GenerationsCounted, Gen
<1> QED
  BY <1>5, <1>6, <1>7, <1>8 DEF IInv

(* The exchange failed and loads a_next anew.                              *)
LEMMA AllocRetryIInv ==
  ASSUME IInv, NEW t \in Threads, AllocRetry(t)
  PROVE  IInv'
<1>1. TypeOK /\ ListLeads
  BY DEF IInv
<1>2. /\ pc[t] = "take" /\ pc' = [pc EXCEPT ![t] = "read"]
      /\ seen' = [seen EXCEPT ![t] = a_next]
      /\ UNCHANGED <<cached, a_next, header_id, header_next, local_next, new_next, block,
                     freeing, holders, allocs>>
  BY DEF AllocRetry, Goto
<1>3. /\ pc'[t] = "read" /\ seen'[t] = a_next
      /\ \A u \in Threads \ {t} : pc'[u] = pc[u] /\ seen'[u] = seen[u]
  BY <1>1, <1>2 DEF TypeOK
<1>4. TypeOK'
  BY <1>1, <1>2 DEF TypeOK
<1>5. /\ OneOwner' /\ HeadersNameBlocks' /\ ListLeads'
      /\ \A b \in Blocks : Published(b)' <=> Published(b)
      /\ \A u \in Threads : StackSound(u)'
      /\ \A u \in Threads \ {t} : ReadSound(u)'
  BY <1>2, <1>3, LoadStep
<1>6. ReadSound(t)'
  BY <1>1, <1>2, <1>3, <1>5 DEF ReadSound, ListLeads, Leads, Gen, Index
<1>7. GenerationsCounted'
  <2>1. Allocating' = Allocating
    BY <1>2, <1>3 DEF Allocating
  <2> QED
    BY <1>2, <2>1 DEF IInv, GenerationsCounted, Gen
<1> QED
  BY <1>4, <1>5, <1>6, <1>7 DEF IInv

(* There is one frontier of the fresh blocks.                              *)
LEMMA OneFrontier ==
  ASSUME NEW id \in Ids, NEW jd \in Ids, Leads(id), Leads(jd), Gen(id) = 0, Gen(jd) = 0
  PROVE  id = jd
<1>1. Index(id) \in 0 .. MaxCount /\ Index(jd) \in 0 .. MaxCount
      /\ id = <<Gen(id), Index(id)>> /\ jd = <<Gen(jd), Index(jd)>>
  BY IdType
<1>2. /\ \A b \in Blocks : header_id[b] = Dummy <=> b >= Index(id)
      /\ \A b \in Blocks : header_id[b] = Dummy <=> b >= Index(jd)
  BY DEF Leads
<1>3. CASE Index(id) < Index(jd)
  BY <1>1, <1>2, <1>3, Sizes DEF Blocks
<1>4. CASE Index(id) > Index(jd)
  BY <1>1, <1>2, <1>4, Sizes DEF Blocks
<1> QED
  BY <1>1, <1>3, <1>4

(* What a generation is below, so that the next one does not wrap.         *)
LEMMA GenerationRoom ==
  ASSUME IInv, WholeLinks, NEW b \in Blocks,
         Allocating # {} \/ allocs < MaxAllocs
  PROVE  header_id[b] \in Ids /\ Gen(header_id[b]) + 1 < GenMod
<1>1. header_id[b] \in Ids /\ Gen(header_id[b]) \in Nat /\ allocs \in 0 .. MaxAllocs
  BY IdType, Sizes DEF IInv, TypeOK
<1>2. Gen(header_id[b]) + Cardinality(Allocating) <= allocs
  BY DEF IInv, GenerationsCounted
<1>3. Cardinality(Allocating) \in Nat /\ (Allocating # {} => Cardinality(Allocating) > 0)
  BY AllocatingFinite, FS_EmptySet
<1> QED
  BY <1>1, <1>2, <1>3, Sizes DEF WholeLinks

(* The exchange of an allocation succeeds: the block at a_next, published  *)
(* or fresh until now, is the user's, and a_next leads where it led.       *)
LEMMA AllocTakeIInv ==
  ASSUME IInv, WholeLinks, NEW t \in Threads, AllocTake(t)
  PROVE  IInv'
<1>1. TypeOK /\ ReadSound(t) /\ ListLeads /\ HeadersNameBlocks
  BY DEF IInv
<1> DEFINE b == Index(a_next)
<1>2. /\ pc[t] = "take" /\ pc' = [pc EXCEPT ![t] = "idle"] /\ seen[t] = a_next
      /\ a_next' = new_next[t]
      /\ header_id' = [header_id EXCEPT ![b] = NextId(a_next)]
      /\ holders' = [holders EXCEPT ![b] = holders[b] + 1]
      /\ UNCHANGED <<cached, header_next, local_next, seen, new_next, block, freeing,
                     allocs>>
  BY DEF AllocTake, Goto
<1>3. pc'[t] = "idle" /\ \A u \in Threads \ {t} : pc'[u] = pc[u]
  BY <1>1, <1>2 DEF TypeOK
<1>4. a_next \in Ids /\ b \in Blocks /\ Gen(a_next) \in Nat
      /\ a_next = <<Gen(a_next), b>>
  BY <1>1, <1>2, IdType, BlockIndex, Sizes DEF TypeOK, ReadSound
<1>5. Unowned(b) /\ Gen(header_id[b]) = Gen(a_next)
  <2>1. CASE Gen(a_next) = 0
    <3>1. header_id[b] = Dummy
      BY <1>1, <1>4, <2>1 DEF ListLeads, Leads, Blocks
    <3> QED
      BY <1>1, <1>4, <2>1, <3>1, DummyType DEF HeadersNameBlocks
  <2>2. CASE Gen(a_next) # 0
    BY <1>1, <1>4, <2>2 DEF ListLeads, Leads, Published
  <2> QED
    BY <2>1, <2>2
<1>6. NextId(a_next) \in Ids /\ Gen(NextId(a_next)) = Gen(a_next) + 1
      /\ Index(NextId(a_next)) = b
  <2>1. t \in Allocating
    BY <1>2 DEF Allocating
  <2> QED
    BY <1>4, <1>5, <2>1, GenerationRoom, NextIdOf
<1> HIDE DEF b
<1>7. /\ header_id'[b] = NextId(a_next) /\ holders[b] = 0 /\ holders'[b] = 1
      /\ \A c \in Blocks \ {b} : header_id'[c] = header_id[c] /\ holders'[c] = holders[c]
  BY <1>1, <1>2, <1>4, <1>5 DEF TypeOK, Unowned
<1>8. NextId(a_next) # Dummy
  BY <1>4, <1>6, DummyType
<1>9. TypeOK'
  <2>1. header_id' \in [Blocks -> Ids] /\ holders' \in [Blocks -> Nat]
    BY <1>1, <1>2, <1>4, <1>6 DEF TypeOK
  <2> QED
    BY <1>1, <1>2, <2>1 DEF TypeOK
<1>10. \A u \in Threads : \A c : Moving(u, c)' <=> Moving(u, c)
  BY <1>2, <1>3 DEF Moving, InTransit
<1>11. \A u, k, c : At(u, k, c)' <=> At(u, k, c)
  BY <1>2 DEF At, Index
<1>12. \A c \in Blocks \ {b} : Unowned(c)' <=> Unowned(c)
  BY <1>7, <1>10, <1>11 DEF Unowned
<1>13. /\ \A c \in Blocks : Published(c)' => c # b
       /\ \A c \in Blocks \ {b} : Published(c)' <=> Published(c)
  <2>1. ASSUME NEW c \in Blocks, Published(c)'
        PROVE  c # b
    <3>1. holders'[c] = 0
      BY <2>1 DEF Published, Unowned
    <3> QED
      BY <1>7, <3>1
  <2>2. ASSUME NEW c \in Blocks \ {b}
        PROVE  Published(c)' <=> Published(c)
    BY <1>7, <1>12 DEF Published
  <2> QED
    BY <2>1, <2>2
<1>14. OneOwner'
  BY <1>5, <1>7, <1>10, <1>11 DEF IInv, OneOwner, Unowned
<1>15. HeadersNameBlocks'
  BY <1>1, <1>4, <1>6, <1>7, <1>8, <1>12 DEF HeadersNameBlocks, Gen, Index
<1>16. ASSUME NEW u \in Threads
       PROVE  StackSound(u)' /\ ReadSound(u)'
  <2>1. StackSound(u) /\ ReadSound(u)
    BY DEF IInv
  <2>2. \A k \in 1 .. Len(local_next[u]) : Index(local_next[u][k]) \in Blocks \ {b}
    BY <1>5, StackTypes DEF Unowned
  <2>3. pc[u] = "push" /\ ~cached => block[u] \in Blocks \ {b}
    BY <1>1, <1>5 DEF TypeOK, Unowned, Moving, InTransit
  <2>4. StackSound(u)'
    BY <1>2, <1>3, <1>7, <2>1, <2>2, <2>3 DEF StackSound, Index, LocalTop
  <2>5. CASE u = t
    BY <1>3, <2>4, <2>5 DEF ReadSound
  <2>6. CASE u # t
    <3>1. \A c \in Blocks :
            \/ Gen(header_id'[c]) > Gen(header_id[c])
            \/ /\ header_id'[c] = header_id[c]
               /\ Published(c) => Published(c)' /\ header_next'[c] = header_next[c]
      BY <1>2, <1>4, <1>5, <1>6, <1>7, <1>13
    <3>2. header_id' \in [Blocks -> Ids]
      BY <1>9 DEF TypeOK
    <3>3. ReadSound(u)'
      BY <1>2, <1>3, <2>6, <3>1, <3>2, ReadFrame
    <3> QED
      BY <2>4, <3>3
  <2> QED
    BY <2>5, <2>6
<1>17. ListLeads'
  <2>1. \A c \in Blocks : header_next[c] \in Ids
    BY <1>1 DEF TypeOK
  <2>2. \A c \in Blocks : Published(c)' => Published(c) /\ c # b
    BY <1>13
  (* A word that leads past b still leads there.                           *)
  <2>3. ASSUME NEW id \in Ids, Leads(id), id # a_next
        PROVE  Leads(id)'
    <3>1. CASE Gen(id) = 0
      <4>1. Gen(a_next) # 0
        BY <1>1, <1>4, <2>3, <3>1, OneFrontier DEF ListLeads
      <4>2. header_id[b] # Dummy
        BY <1>4, <1>5, <4>1, DummyType
      <4> QED
        BY <1>7, <1>8, <2>3, <3>1, <4>2 DEF Leads, Gen, Index
    <3>2. CASE Gen(id) # 0
      <4>1. Index(id) \in Blocks /\ header_id[Index(id)] = id /\ Published(Index(id))
            /\ Gen(id) >= 1
        BY <2>3, <3>2 DEF Leads
      <4>2. Index(id) # b
        <5>1. Gen(a_next) # 0 => header_id[b] = a_next
          BY <1>1, <1>4 DEF ListLeads, Leads, b
        <5>2. Gen(a_next) = 0 => header_id[b] = Dummy
          BY <1>1, <1>4 DEF ListLeads, Leads, b, Blocks
        <5> QED
          BY <2>3, <4>1, <5>1, <5>2 DEF Published
      <4>3. header_id'[Index(id)] = id
        BY <1>7, <4>1, <4>2
      <4>4. \A c \in Blocks \ {b} : Published(c) => Published(c)'
        BY <1>13
      <4> QED
        BY <4>1, <4>2, <4>3, <4>4 DEF Leads, Gen, Index
    <3> QED
      BY <3>1, <3>2
  <2>4. \A c \in Blocks : Published(c) => Leads(header_next[c]) /\ header_next[c] # a_next
    BY <1>1 DEF ListLeads
  <2>5. ListEnds'
    BY <1>2, <1>13, EndsFrame
  <2>6. CASE Gen(a_next) = 0
    <3>1. a_next' = <<0, b + 1>>
      BY <1>1, <1>2, <2>6 DEF ReadSound, b
    <3>2. /\ Gen(a_next') = 0 /\ Index(a_next') = b + 1
      BY <3>1 DEF Gen, Index
    <3>3. Leads(a_next)'
      <4>1. \A c \in Blocks : header_id[c] = Dummy <=> c >= b
        BY <1>1, <1>4, <2>6 DEF ListLeads, Leads, b
      <4>2. \A c \in Blocks : header_id'[c] = Dummy <=> c >= b + 1
        BY <1>4, <1>7, <1>8, <4>1 DEF Blocks
      <4> QED
        BY <3>2, <4>2 DEF Leads, Gen, Index
    <3>4. \A c \in Blocks : Published(c) => header_next[c] # a_next'
      BY <1>1, <2>1, <2>4, <2>6, <3>2, OneFrontier, <1>4 DEF ListLeads
    <3> QED
      BY <1>1, <1>2, <2>1, <2>2, <2>3, <2>4, <2>5, <3>3, <3>4 DEF ListLeads
  <2>7. CASE Gen(a_next) # 0
    <3>1. header_id[b] = a_next /\ Published(b)
      BY <1>1, <1>4, <2>7 DEF ListLeads, Leads, b
    <3>2. a_next' = header_next[b]
      <4>1. Gen(seen[t]) >= 1 /\ Index(seen[t]) = b
        BY <1>2, <1>4, <2>7 DEF b
      <4>2. ~(Gen(header_id[b]) > Gen(a_next))
        BY <1>4, <1>5
      <4> QED
        BY <1>1, <1>2, <4>1, <4>2 DEF ReadSound
    <3>3. Leads(a_next)'
      BY <1>4, <2>1, <2>3, <2>4, <3>1, <3>2
    <3>4. \A c \in Blocks : Published(c) /\ c # b => header_next[c] # a_next'
      BY <1>1, <1>4, <3>1, <3>2 DEF ListLeads
    <3> QED
      BY <1>1, <1>2, <2>1, <2>2, <2>3, <2>4, <2>5, <3>3, <3>4 DEF ListLeads
  <2> QED
    BY <2>6, <2>7
<1>18. GenerationsCounted'
  <2>1. Allocating' = Allocating \ {t} /\ t \in Allocating
    BY <1>2, <1>3 DEF Allocating
  <2>2. Cardinality(Allocating') = Cardinality(Allocating) - 1
    BY <2>1, AllocatingFinite, FS_RemoveElement
  <2>3. ASSUME NEW c \in Blocks
        PROVE  Gen(header_id'[c]) + (Cardinality(Allocating) - 1) <= allocs
    <3>1. /\ Gen(header_id[c]) \in Int /\ allocs \in Int
          /\ Gen(header_id[c]) + Cardinality(Allocating) <= allocs
      BY <1>1, IdType, Sizes DEF TypeOK, IInv, GenerationsCounted
    <3>2. Gen(header_id'[c]) = Gen(header_id[c])
           \/ Gen(header_id'[c]) = Gen(header_id[c]) + 1
      BY <1>5, <1>6, <1>7
    <3> QED
      BY <3>1, <3>2, AllocatingFinite
  <2> QED
    BY <1>2, <2>2, <2>3 DEF GenerationsCounted, Gen
<1> QED
  BY <1>9, <1>14, <1>15, <1>16, <1>17, <1>18 DEF IInv

(* A block is taken from the local stack and given its next generation.    *)
LEMMA AllocLocalIInv ==
  ASSUME IInv, WholeLinks, NEW t \in Threads, AllocLocal(t)
  PROVE  IInv'
<1>1. TypeOK /\ OneOwner /\ HeadersNameBlocks
  BY DEF IInv
<1>2. PICK n \in Nat : n = Len(local_next[t]) /\ n # 0
  BY StackTypes DEF AllocLocal
<1>3. n \in 1 .. Len(local_next[t]) /\ n \in 1 .. LocalMax
  BY <1>2, StackTypes
<1>4. PICK b \in Blocks : b = Index(local_next[t][n])
  BY <1>3, StackTypes
<1>5. /\ pc[t] = "idle" /\ allocs < MaxAllocs /\ allocs' = allocs + 1
      /\ header_id' = [header_id EXCEPT ![b] = NextId(header_id[b])]
      /\ holders' = [holders EXCEPT ![b] = holders[b] + 1]
      /\ local_next' = [local_next EXCEPT ![t] = SubSeq(local_next[t], 1, n - 1)]
      /\ UNCHANGED <<cached, a_next, header_next, pc, seen, new_next, block, freeing>>
  <2>1. LocalTop(local_next[t]) = local_next[t][n] /\ local_next[t][n] = header_id[b]
    BY <1>2, <1>3, <1>4, StackTypes DEF LocalTop, AllocLocal
  <2> QED
    BY <1>2, <1>4, <2>1 DEF AllocLocal, locals
<1>6. /\ At(t, n, b) /\ holders[b] = 0 /\ \A u \in Threads : ~Moving(u, b)
      /\ \A u \in Threads, k \in 1 .. LocalMax : At(u, k, b) => u = t /\ k = n
  <2>1. At(t, n, b)
    BY <1>3, <1>4 DEF At
  <2>2. holders[b] \in Nat
    BY <1>1 DEF TypeOK
  <2> QED
    BY <1>1, <1>3, <2>1, <2>2 DEF OneOwner
<1>7. /\ header_id[b] \in Ids /\ header_id[b] # Dummy /\ Index(header_id[b]) = b
      /\ Gen(header_id[b]) \in Nat /\ Gen(header_id[b]) >= 1
  <2>1. ~Unowned(b)
    BY <1>3, <1>6 DEF Unowned
  <2> QED
    BY <2>1, OwnedAllocated, IdType, Sizes
<1>8. NextId(header_id[b]) \in Ids /\ Gen(NextId(header_id[b])) = Gen(header_id[b]) + 1
      /\ Index(NextId(header_id[b])) = b /\ NextId(header_id[b]) # Dummy
  BY <1>5, <1>7, GenerationRoom, NextIdOf, DummyType
<1>9. /\ header_id'[b] = NextId(header_id[b]) /\ holders'[b] = 1
      /\ \A c \in Blocks \ {b} : header_id'[c] = header_id[c] /\ holders'[c] = holders[c]
      /\ \A u \in Threads \ {t} : local_next'[u] = local_next[u]
  BY <1>1, <1>5, <1>6 DEF TypeOK
<1>10. /\ local_next'[t] \in Seq(Ids) /\ Len(local_next'[t]) = n - 1
       /\ \A k \in 1 .. n - 1 : local_next'[t][k] = local_next[t][k]
  <2>1. local_next[t] \in Seq(Ids) /\ local_next'[t] = SubSeq(local_next[t], 1, n - 1)
    BY <1>1, <1>5 DEF TypeOK
  <2> QED
    BY <1>2, <2>1
<1>11. TypeOK'
  <2>1. header_id' \in [Blocks -> Ids] /\ holders' \in [Blocks -> Nat]
    BY <1>1, <1>5, <1>6, <1>8 DEF TypeOK
  <2>2. local_next' \in [Threads -> Seq(Ids)]
    BY <1>1, <1>5, <1>9, <1>10 DEF TypeOK
  <2>3. ASSUME NEW u \in Threads
        PROVE  Len(local_next'[u]) <= LocalMax - 1
    BY <1>2, <1>9, <1>10, StackTypes, Sizes
  <2>4. allocs' \in 0 .. MaxAllocs
    BY <1>1, <1>5, Sizes DEF TypeOK
  <2> QED
    BY <1>1, <1>5, <2>1, <2>2, <2>3, <2>4 DEF TypeOK
<1>12. \A u, c : Moving(u, c)' <=> Moving(u, c)
  BY <1>5 DEF Moving, InTransit
<1>13. \A u \in Threads : \A k, c : At(u, k, c)' <=> At(u, k, c) /\ ~(u = t /\ k = n)
  <2>1. \A k, c : At(t, k, c)' <=> At(t, k, c) /\ k # n
    BY <1>2, <1>10 DEF At, Index
  <2>2. \A u \in Threads \ {t} : \A k, c : At(u, k, c)' <=> At(u, k, c)
    BY <1>9 DEF At, Index
  <2> QED
    BY <2>1, <2>2
<1>14. \A c \in Blocks \ {b} : Unowned(c)' <=> Unowned(c)
  <2>1. \A c \in Blocks \ {b} : ~At(t, n, c)
    BY <1>4 DEF At
  <2> QED
    BY <1>9, <1>12, <1>13, <2>1 DEF Unowned
<1>15. ~Unowned(b) /\ ~Unowned(b)'
  BY <1>3, <1>6, <1>9 DEF Unowned
<1>16. \A c \in Blocks : Published(c)' <=> Published(c)
  BY <1>9, <1>14, <1>15 DEF Published
<1>17. OneOwner'
  BY <1>6, <1>9, <1>12, <1>13 DEF IInv, OneOwner
<1>18. HeadersNameBlocks'
  BY <1>1, <1>7, <1>8, <1>9, <1>14 DEF HeadersNameBlocks, Gen, Index
<1>19. ListLeads'
  BY <1>5, <1>7, <1>8, <1>9, <1>15, <1>16, ListFrame DEF Published
<1>20. ASSUME NEW u \in Threads
       PROVE  StackSound(u)' /\ ReadSound(u)'
  <2>1. StackSound(u) /\ ReadSound(u)
    BY DEF IInv
  <2>2. CASE u = t
    <3>1. \A k \in 1 .. n - 1 : Index(local_next[t][k]) \in Blocks \ {b}
      <4>1. \A k \in 1 .. n - 1 : k \in 1 .. Len(local_next[t]) /\ k # n
        BY <1>2
      <4> QED
        BY <1>6, <4>1, StackTypes
    <3>2. \A k \in 1 .. n - 1 : k \in 1 .. Len(local_next[t])
      BY <1>2
    <3>3. \A k \in 1 .. n - 1 : header_id'[Index(local_next[t][k])] = local_next[t][k]
      BY <1>9, <3>1, <3>2, StackTypes
    <3>4. local_next[t] # <<>> => cached
      BY <2>1, <2>2 DEF StackSound
    <3>5. \A k \in 2 .. n - 1 :
            header_next[Index(local_next[t][k])] = local_next[t][k - 1]
      <4>1. \A k \in 2 .. n - 1 : k \in 2 .. Len(local_next[t])
        BY <1>2
      <4>2. \A k \in 2 .. Len(local_next[t]) :
              header_next[Index(local_next[t][k])] = local_next[t][k - 1]
        BY <1>5, <2>1, <2>2 DEF StackSound
      <4> QED
        BY <4>1, <4>2
    <3>6. \A k \in 2 .. n - 1 : local_next'[t][k - 1] = local_next[t][k - 1]
      BY <1>2, <1>10
    <3>7. StackSound(t)'
      BY <1>2, <1>5, <1>10, <3>1, <3>3, <3>4, <3>5, <3>6 DEF StackSound, Index
    <3>8. ReadSound(t)'
      BY <1>5 DEF ReadSound
    <3> QED
      BY <2>2, <3>7, <3>8
  <2>3. CASE u # t
    <3>1. \A k \in 1 .. Len(local_next[u]) : Index(local_next[u][k]) \in Blocks \ {b}
      BY <1>6, <2>3, StackTypes
    <3>2. pc[u] = "push" /\ ~cached => block[u] \in Blocks \ {b}
      BY <1>1, <1>6 DEF TypeOK, Moving, InTransit
    <3>3. StackSound(u)'
      BY <1>5, <1>9, <2>1, <2>3, <3>1, <3>2 DEF StackSound, Index, LocalTop
    <3>4. \A c \in Blocks :
            \/ Gen(header_id'[c]) > Gen(header_id[c])
            \/ /\ header_id'[c] = header_id[c]
               /\ Published(c) => Published(c)' /\ header_next'[c] = header_next[c]
      BY <1>5, <1>7, <1>8, <1>9, <1>16
    <3>5. ReadSound(u)'
      <4>1. header_id' \in [Blocks -> Ids]
        BY <1>11 DEF TypeOK
      <4> QED
        BY <1>5, <3>4, <4>1, ReadFrame
    <3> QED
      BY <3>3, <3>5
  <2> QED
    BY <2>2, <2>3
<1>21. GenerationsCounted'
  <2>1. Allocating' = Allocating
    BY <1>5 DEF Allocating
  <2>2. ASSUME NEW c \in Blocks
        PROVE  Gen(header_id'[c]) + Cardinality(Allocating) <= allocs + 1
    <3>1. /\ Gen(header_id[c]) \in Int /\ allocs \in Int
          /\ Gen(header_id[c]) + Cardinality(Allocating) <= allocs
      BY <1>1, IdType, Sizes DEF TypeOK, IInv, GenerationsCounted
    <3>2. \/ Gen(header_id'[c]) = Gen(header_id[c])
          \/ Gen(header_id'[c]) = Gen(header_id[c]) + 1
      BY <1>8, <1>9
    <3> QED
      BY <3>1, <3>2, AllocatingFinite
  <2> QED
    BY <1>5, <2>1, <2>2 DEF GenerationsCounted, Gen
<1> QED
  BY <1>11, <1>17, <1>18, <1>19, <1>20, <1>21 DEF IInv

-------------------------------------------------------------------------------
(* The steps of a free *)

(* A free gives no block a new identifier and allocates nothing: what      *)
(* others have read is sound if published blocks stay as they are.         *)
LEMMA FreeStep ==
  ASSUME IInv, NEW t \in Threads, NEW l \in {"idle", "push", "stash"},
         pc[t] \in {"idle", "push", "stash"}, pc' = [pc EXCEPT ![t] = l],
         UNCHANGED <<header_id, seen, allocs>>,
         \A u \in Threads \ {t} : new_next'[u] = new_next[u],
         \A b \in Blocks :
           Published(b) => Published(b)' /\ header_next'[b] = header_next[b]
  PROVE  GenerationsCounted' /\ \A u \in Threads : ReadSound(u)'
<1>1. TypeOK
  BY DEF IInv
<1>2. pc'[t] = l /\ \A u \in Threads \ {t} : pc'[u] = pc[u]
  BY <1>1 DEF TypeOK
<1>3. GenerationsCounted'
  <2>1. Allocating' = Allocating
    BY <1>2 DEF Allocating
  <2> QED
    BY <2>1 DEF IInv, GenerationsCounted, Gen
<1>4. ReadSound(t)'
  BY <1>2 DEF ReadSound
<1>5. ASSUME NEW u \in Threads \ {t}
      PROVE  ReadSound(u)'
  <2>1. header_id' \in [Blocks -> Ids]
    BY <1>1 DEF TypeOK
  <2> QED
    BY <1>2, <2>1, ReadFrame
<1> QED
  BY <1>3, <1>4, <1>5

(* The stack of a thread stays sound if its links do.                      *)
LEMMA StackFrame ==
  ASSUME IInv, NEW u \in Threads, pc'[u] = pc[u], local_next'[u] = local_next[u],
         block'[u] = block[u], new_next'[u] = new_next[u],
         UNCHANGED <<cached, header_id>>,
         \A k \in 2 .. Len(local_next[u]) :
           \/ pc[u] = "push" /\ k = LocalLow
           \/ header_next'[Index(local_next[u][k])] = header_next[Index(local_next[u][k])]
  PROVE  StackSound(u)'
<1>1. StackSound(u)
  BY DEF IInv
<1>2. \A k \in 2 .. Len(local_next[u]) :
        \/ pc[u] = "push" /\ k = LocalLow
        \/ header_next'[Index(local_next[u][k])] = local_next[u][k - 1]
  BY <1>1 DEF StackSound
<1> QED
  BY <1>1, <1>2 DEF StackSound, Index, LocalTop

(* Headers keep naming blocks if no fresh block gets an owner.             *)
LEMMA HeadersFrame ==
  ASSUME IInv, header_id' = header_id, \A b \in Blocks : Unowned(b) => Unowned(b)'
  PROVE  HeadersNameBlocks'
  BY DEF IInv, HeadersNameBlocks, Gen, Index

(* Nothing on the shared list is the identifier of a block with an owner.  *)
LEMMA OwnedNotListed ==
  ASSUME IInv, NEW b \in Blocks, ~Unowned(b), NEW id, Leads(id)
  PROVE  id # header_id[b]
<1>1. Gen(header_id[b]) >= 1 /\ Index(header_id[b]) = b /\ ~Published(b)
  BY OwnedAllocated
<1>2. Gen(header_id[b]) # 0
  <2>1. Gen(header_id[b]) \in Nat
    BY OwnedAllocated, IdType, Sizes
  <2> QED
    BY <1>1, <2>1
<1> QED
  BY <1>1, <1>2 DEF Leads

(* Users do not share: who holds a block is its one owner.                 *)
LEMMA HolderAlone ==
  ASSUME IInv, NEW b \in Blocks, holders[b] > 0
  PROVE  /\ holders[b] = 1 /\ ~Unowned(b)
         /\ \A u \in Threads : ~Moving(u, b) /\ \A k \in 1 .. LocalMax : ~At(u, k, b)
<1>1. holders[b] \in Nat
  BY DEF IInv, TypeOK
<1> QED
  BY <1>1 DEF IInv, OneOwner, Unowned

(* A block of 1MB leaves its user and is prepared to be linked in.         *)
LEMMA FreeBlockIInv ==
  ASSUME IInv, NEW t \in Threads, NEW b \in Blocks, FreeBlock(t, b)
  PROVE  IInv'
<1>1. TypeOK /\ OneOwner
  BY DEF IInv
<1>2. /\ pc[t] = "idle" /\ ~cached /\ holders[b] > 0
      /\ holders' = [holders EXCEPT ![b] = holders[b] - 1]
      /\ block' = [block EXCEPT ![t] = b]
      /\ header_next' = [header_next EXCEPT ![b] = a_next]
      /\ new_next' = [new_next EXCEPT ![t] = header_id[b]]
      /\ pc' = [pc EXCEPT ![t] = "push"]
      /\ UNCHANGED <<cached, a_next, header_id, local_next, seen, freeing, allocs>>
  BY DEF FreeBlock, Release, Goto
<1>3. /\ holders[b] = 1 /\ ~Unowned(b)
      /\ \A u \in Threads : ~Moving(u, b) /\ \A k \in 1 .. LocalMax : ~At(u, k, b)
  BY <1>2, HolderAlone
<1>4. /\ pc'[t] = "push" /\ block'[t] = b /\ new_next'[t] = header_id[b] /\ holders'[b] = 0
      /\ \A u \in Threads \ {t} :
           pc'[u] = pc[u] /\ block'[u] = block[u] /\ new_next'[u] = new_next[u]
      /\ \A c \in Blocks \ {b} :
           holders'[c] = holders[c] /\ header_next'[c] = header_next[c]
  BY <1>1, <1>2, <1>3 DEF TypeOK
<1>5. TypeOK'
  <2>1. holders' \in [Blocks -> Nat]
    BY <1>1, <1>2, <1>3 DEF TypeOK
  <2> QED
    BY <1>1, <1>2, <2>1 DEF TypeOK
<1>6. \A u \in Threads : \A c : Moving(u, c)' <=> Moving(u, c) \/ (u = t /\ c = b)
  BY <1>2, <1>4 DEF Moving, InTransit
<1>7. \A u, k, c : At(u, k, c)' <=> At(u, k, c)
  BY <1>2 DEF At, Index
<1>8. \A c \in Blocks : Unowned(c)' <=> Unowned(c)
  BY <1>3, <1>4, <1>6, <1>7 DEF Unowned
<1>9. \A c \in Blocks : Published(c)' <=> Published(c)
  BY <1>2, <1>8 DEF Published
<1>10. \A c \in Blocks : Published(c) => header_next'[c] = header_next[c]
  BY <1>3, <1>4 DEF Published
<1>11. OneOwner'
  BY <1>1, <1>3, <1>4, <1>6, <1>7 DEF OneOwner
<1>12. HeadersNameBlocks'
  BY <1>2, <1>8, HeadersFrame
<1>13. ListLeads'
  BY <1>2, <1>9, <1>10, ListFrame
<1>14. GenerationsCounted' /\ \A u \in Threads : ReadSound(u)'
  BY <1>2, <1>4, <1>9, <1>10, FreeStep
<1>15. ASSUME NEW u \in Threads
       PROVE  StackSound(u)'
  <2>1. local_next[u] = <<>>
    BY <1>2 DEF IInv, StackSound
  <2>2. CASE u = t
    BY <1>2, <1>4, <2>1, <2>2 DEF StackSound
  <2>3. CASE u # t
    BY <1>2, <1>4, <2>1, <2>3, StackFrame
  <2> QED
    BY <2>2, <2>3
<1> QED
  BY <1>5, <1>11, <1>12, <1>13, <1>14, <1>15 DEF IInv

(* The local stack is full: its upper half is prepared to be linked in,    *)
(* and the block that its user freed waits.                                *)
LEMMA FreeBatchIInv ==
  ASSUME IInv, NEW t \in Threads, NEW b \in Blocks, FreeBatch(t, b)
  PROVE  IInv'
<1>1. TypeOK /\ OneOwner
  BY DEF IInv
<1>2. LocalLow \in 1 .. Len(local_next[t]) /\ Len(local_next[t]) = LocalMax - 1
      /\ Len(local_next[t]) \in 1 .. Len(local_next[t])
  BY Sizes DEF FreeBatch, LocalFull
<1>3. PICK tail \in Blocks : tail = Index(local_next[t][LocalLow])
  BY <1>2, StackTypes
<1>4. PICK top \in Ids : top = LocalTop(local_next[t])
  BY <1>2, StackTypes DEF LocalTop
<1>5. /\ pc[t] = "idle" /\ cached /\ holders[b] > 0
      /\ holders' = [holders EXCEPT ![b] = holders[b] - 1]
      /\ freeing' = [freeing EXCEPT ![t] = b]
      /\ block' = [block EXCEPT ![t] = tail]
      /\ header_next' = [header_next EXCEPT ![tail] = a_next]
      /\ new_next' = [new_next EXCEPT ![t] = top]
      /\ pc' = [pc EXCEPT ![t] = "push"]
      /\ UNCHANGED <<cached, a_next, header_id, local_next, seen, allocs>>
  BY <1>3, <1>4 DEF FreeBatch, Release, Goto, LocalTail
<1>6. /\ holders[b] = 1 /\ ~Unowned(b)
      /\ \A u \in Threads : ~Moving(u, b) /\ \A k \in 1 .. LocalMax : ~At(u, k, b)
  BY <1>5, HolderAlone
<1>7. /\ pc'[t] = "push" /\ block'[t] = tail /\ new_next'[t] = top /\ holders'[b] = 0
      /\ freeing'[t] = b
      /\ \A u \in Threads \ {t} :
           /\ pc'[u] = pc[u] /\ block'[u] = block[u] /\ new_next'[u] = new_next[u]
           /\ freeing'[u] = freeing[u]
      /\ \A c \in Blocks \ {b} : holders'[c] = holders[c]
      /\ \A c \in Blocks \ {tail} : header_next'[c] = header_next[c]
  BY <1>1, <1>5, <1>6 DEF TypeOK
<1>8. LocalLow \in 1 .. LocalMax /\ At(t, LocalLow, tail) /\ ~Unowned(tail)
  BY <1>2, <1>3, StackTypes DEF Unowned
<1>9. TypeOK'
  <2>1. holders' \in [Blocks -> Nat]
    BY <1>1, <1>5, <1>6 DEF TypeOK
  <2> QED
    BY <1>1, <1>5, <2>1 DEF TypeOK
<1>10. \A u \in Threads : \A c : Moving(u, c)' <=> Moving(u, c) \/ (u = t /\ c = b)
  BY <1>5, <1>7 DEF Moving, InTransit
<1>11. \A u, k, c : At(u, k, c)' <=> At(u, k, c)
  BY <1>5 DEF At, Index
<1>12. \A c \in Blocks : Unowned(c)' <=> Unowned(c)
  BY <1>6, <1>7, <1>10, <1>11 DEF Unowned
<1>13. \A c \in Blocks : Published(c)' <=> Published(c)
  BY <1>5, <1>12 DEF Published
<1>14. \A c \in Blocks : Published(c) => header_next'[c] = header_next[c]
  BY <1>7, <1>8 DEF Published
<1>15. OneOwner'
  BY <1>1, <1>6, <1>7, <1>10, <1>11 DEF OneOwner
<1>16. HeadersNameBlocks'
  BY <1>5, <1>12, HeadersFrame
<1>17. ListLeads'
  BY <1>5, <1>13, <1>14, ListFrame
<1>18. GenerationsCounted' /\ \A u \in Threads : ReadSound(u)'
  BY <1>5, <1>7, <1>13, <1>14, FreeStep
<1>19. ASSUME NEW u \in Threads
       PROVE  StackSound(u)'
  <2>1. \A k \in 2 .. Len(local_next[u]) :
          \/ u = t /\ k = LocalLow
          \/ Index(local_next[u][k]) \in Blocks \ {tail}
    <3>1. \A k \in 2 .. Len(local_next[u]) : k \in 1 .. Len(local_next[u])
      BY StackTypes
    <3> QED
      BY <1>1, <1>8, <3>1, StackTypes DEF OneOwner
  <2>2. CASE u = t
    <3>1. StackSound(t)
      BY DEF IInv
    <3>2. \A k \in 2 .. Len(local_next[t]) :
            k = LocalLow \/ header_next'[Index(local_next[t][k])] = local_next[t][k - 1]
      BY <1>5, <1>7, <2>1, <2>2, <3>1 DEF StackSound
    <3> QED
      BY <1>2, <1>3, <1>4, <1>5, <1>7, <2>2, <3>1, <3>2 DEF StackSound, Index, LocalTop
  <2>3. CASE u # t
    BY <1>5, <1>7, <2>1, <2>3, StackFrame
  <2> QED
    BY <2>2, <2>3
<1> QED
  BY <1>9, <1>15, <1>16, <1>17, <1>18, <1>19 DEF IInv

(* The block whose link a push sets has an owner: the thread itself, or    *)
(* its local stack.                                                        *)
LEMMA PushOwns ==
  ASSUME IInv, NEW t \in Threads, pc[t] = "push"
  PROVE  /\ block[t] \in Blocks /\ ~Unowned(block[t])
         /\ ~cached => Moving(t, block[t]) /\ new_next[t] = header_id[block[t]]
         /\ cached =>
              /\ LocalLow \in 1 .. LocalMax - 1 /\ Len(local_next[t]) = LocalMax - 1
              /\ At(t, LocalLow, block[t]) /\ block[t] = Index(local_next[t][LocalLow])
              /\ new_next[t] = local_next[t][LocalMax - 1]
<1>1. TypeOK /\ StackSound(t)
  BY DEF IInv
<1>2. CASE cached
  <2>1. LocalLow \in 1 .. LocalMax - 1 /\ LocalLow \in 1 .. LocalMax
        /\ LocalMax - 1 \in 1 .. LocalMax - 1
    BY Sizes
  <2>2. Len(local_next[t]) = LocalMax - 1 /\ block[t] = Index(local_next[t][LocalLow])
        /\ new_next[t] = LocalTop(local_next[t])
    BY <1>1, <1>2 DEF StackSound
  <2>3. At(t, LocalLow, block[t])
    BY <2>1, <2>2 DEF At
  <2>4. new_next[t] = local_next[t][LocalMax - 1]
    BY <2>1, <2>2 DEF LocalTop
  <2> QED
    BY <1>1, <1>2, <2>1, <2>2, <2>3, <2>4 DEF TypeOK, Unowned
<1>3. CASE ~cached
  <2>1. Moving(t, block[t]) /\ new_next[t] = header_id[block[t]]
    BY <1>1, <1>3 DEF Moving, InTransit, StackSound
  <2> QED
    BY <1>1, <1>3, <2>1 DEF TypeOK, Unowned
<1> QED
  BY <1>2, <1>3

(* The exchange of a free failed: the link is set anew.                    *)
LEMMA PushRetryIInv ==
  ASSUME IInv, NEW t \in Threads, PushRetry(t)
  PROVE  IInv'
<1>1. TypeOK /\ OneOwner
  BY DEF IInv
<1>2. /\ pc[t] = "push" /\ header_next' = [header_next EXCEPT ![block[t]] = a_next]
      /\ UNCHANGED <<cached, a_next, header_id, local_next, pc, seen, new_next, block,
                     freeing, holders, allocs>>
  BY DEF PushRetry, locals
<1>3. PICK b \in Blocks : b = block[t] /\ ~Unowned(b)
  BY <1>2, PushOwns
<1>4. \A c \in Blocks \ {b} : header_next'[c] = header_next[c]
  BY <1>1, <1>2, <1>3 DEF TypeOK
<1>5. TypeOK'
  BY <1>1, <1>2 DEF TypeOK
<1>6. \A u, c : Moving(u, c)' <=> Moving(u, c)
  BY <1>2 DEF Moving, InTransit
<1>7. \A u, k, c : At(u, k, c)' <=> At(u, k, c)
  BY <1>2 DEF At, Index
<1>8. \A c \in Blocks : Unowned(c)' <=> Unowned(c)
  BY <1>2, <1>6, <1>7 DEF Unowned
<1>9. \A c \in Blocks : Published(c)' <=> Published(c)
  BY <1>2, <1>8 DEF Published
<1>10. \A c \in Blocks : Published(c) => header_next'[c] = header_next[c]
  BY <1>3, <1>4 DEF Published
<1>11. OneOwner'
  BY <1>1, <1>2, <1>6, <1>7 DEF OneOwner
<1>12. HeadersNameBlocks'
  BY <1>2, <1>8, HeadersFrame
<1>13. ListLeads'
  BY <1>2, <1>9, <1>10, ListFrame
<1>14. GenerationsCounted' /\ \A u \in Threads : ReadSound(u)'
  <2>1. pc' = [pc EXCEPT ![t] = "push"]
    BY <1>1, <1>2 DEF TypeOK
  <2> QED
    BY <1>2, <1>9, <1>10, <2>1, FreeStep
<1>15. ASSUME NEW u \in Threads
       PROVE  StackSound(u)'
  <2>1. \A k \in 2 .. Len(local_next[u]) :
          Index(local_next[u][k]) = b => pc[u] = "push" /\ k = LocalLow
    <3>1. \A k \in 2 .. Len(local_next[u]) : k \in 1 .. Len(local_next[u])
      BY StackTypes
    <3>2. CASE cached
      <4>1. LocalLow \in 1 .. LocalMax /\ At(t, LocalLow, b)
        BY <1>2, <1>3, <3>2, PushOwns, Sizes
      <4> QED
        BY <1>1, <1>2, <3>1, <4>1, StackTypes DEF OneOwner
    <3>3. CASE ~cached
      BY <3>1, <3>3, StackTypes DEF IInv, StackSound
    <3> QED
      BY <3>2, <3>3
  <2>2. \A k \in 2 .. Len(local_next[u]) : Index(local_next[u][k]) \in Blocks
    <3>1. \A k \in 2 .. Len(local_next[u]) : k \in 1 .. Len(local_next[u])
      BY StackTypes
    <3> QED
      BY <3>1, StackTypes
  <2> QED
    BY <1>2, <1>4, <2>1, <2>2, StackFrame
<1> QED
  BY <1>5, <1>11, <1>12, <1>13, <1>14, <1>15 DEF IInv

(* What leads on the shared list still leads, if blocks are published and  *)
(* none is withdrawn or given another identifier.                          *)
LEMMA LeadsStay ==
  ASSUME header_id' = header_id, \A b \in Blocks : Published(b) => Published(b)',
         NEW id, Leads(id)
  PROVE  Leads(id)'
  BY DEF Leads, Gen, Index

(* What leads on the shared list leads to no block that has an owner.      *)
LEMMA LeadsElsewhere ==
  ASSUME IInv, NEW b \in Blocks, ~Unowned(b), NEW id, Leads(id)
  PROVE  Index(id) # b
<1>1. header_id[b] # Dummy /\ ~Published(b)
  BY OwnedAllocated
<1>2. b >= b
  BY Sizes DEF Blocks
<1> QED
  BY <1>1, <1>2 DEF Leads

(* A list that has an end keeps it when blocks are published that have one *)
(* among them.                                                             *)
LEMMA EndsExtend ==
  ASSUME IInv, header_next' = header_next, NEW New \in SUBSET Blocks,
         \A c \in Blocks : Published(c)' => Published(c) \/ c \in New,
         \A c \in New : ~Unowned(c),
         \A S \in SUBSET New : S # {} => \E c \in S : Index(header_next[c]) \notin S
  PROVE  ListEnds'
<1>1. SUFFICES ASSUME NEW S \in SUBSET Blocks, S # {}, \A b \in S : Published(b)'
               PROVE  \E b \in S : Index(header_next[b])' \notin S
  BY DEF ListEnds
<1>2. SUFFICES \E b \in S : Index(header_next[b]) \notin S
  BY DEF Index
<1>3. CASE S \subseteq New
  BY <1>1, <1>3
<1>4. CASE ~(S \subseteq New)
  <2> DEFINE Old == S \ New
  <2>1. Old # {} /\ Old \in SUBSET Blocks /\ \A b \in Old : Published(b)
    BY <1>1, <1>4
  <2>2. PICK b \in Old : Index(header_next[b]) \notin Old
    <3> HIDE DEF Old
    <3> QED
      BY <2>1 DEF IInv, ListLeads, ListEnds
  <2>3. Leads(header_next[b])
    BY <2>1 DEF IInv, ListLeads
  <2>4. \A c \in New : Index(header_next[b]) # c
    BY <2>3, LeadsElsewhere
  <2> QED
    BY <2>2, <2>4
<1> QED
  BY <1>3, <1>4

(* The exchange of a free succeeds: the block of 1MB is published.         *)
LEMMA PushBlockIInv ==
  ASSUME IInv, NEW t \in Threads, PushBlock(t)
  PROVE  IInv'
<1>1. TypeOK /\ OneOwner /\ ListLeads
  BY DEF IInv
<1>2. /\ pc[t] = "push" /\ ~cached /\ a_next = header_next[block[t]]
      /\ a_next' = new_next[t] /\ pc' = [pc EXCEPT ![t] = "idle"]
      /\ UNCHANGED <<cached, header_id, header_next, local_next, seen, new_next, block,
                     freeing, holders, allocs>>
  BY DEF PushBlock, Goto
<1>3. PICK b \in Blocks : b = block[t] /\ ~Unowned(b) /\ Moving(t, b)
                          /\ new_next[t] = header_id[b]
  BY <1>2, PushOwns
<1>4. pc'[t] = "idle" /\ \A u \in Threads \ {t} : pc'[u] = pc[u]
  BY <1>1, <1>2 DEF TypeOK
<1>5. TypeOK'
  BY <1>1, <1>2 DEF TypeOK
<1>6. \A u \in Threads : \A c : Moving(u, c)' <=> Moving(u, c) /\ u # t
  BY <1>2, <1>4 DEF Moving, InTransit
<1>7. \A c : Moving(t, c) => c = b
  BY <1>2, <1>3 DEF Moving, InTransit
<1>8. \A u, k, c : At(u, k, c)' <=> At(u, k, c)
  BY <1>2 DEF At, Index
<1>9. holders[b] = 0
  <2>1. holders[b] \in Nat
    BY <1>1 DEF TypeOK
  <2> QED
    BY <1>1, <1>3, <2>1 DEF OneOwner
<1>10. \A c \in Blocks : Unowned(c)' <=> Unowned(c) \/ c = b
  <2>1. \A c \in Blocks : c # b => (Unowned(c)' <=> Unowned(c))
    BY <1>2, <1>6, <1>7, <1>8 DEF Unowned
  <2>2. \A u \in Threads : ~Moving(u, b)' /\ \A k \in 1 .. LocalMax : ~At(u, k, b)
    BY <1>1, <1>3, <1>6 DEF OneOwner
  <2>3. Unowned(b)'
    BY <1>2, <1>8, <1>9, <2>2 DEF Unowned
  <2> QED
    BY <2>1, <2>3
<1>11. \A c \in Blocks : Published(c)' <=> Published(c) \/ c = b
  BY <1>2, <1>3, <1>10, OwnedAllocated DEF Published
<1>12. OneOwner'
  BY <1>1, <1>2, <1>6, <1>8 DEF OneOwner
<1>13. HeadersNameBlocks'
  BY <1>2, <1>10, HeadersFrame
<1>14. ListLeads'
  <2>1. ASSUME NEW id, Leads(id)
        PROVE  Leads(id)' /\ id # header_id[b]
    BY <1>2, <1>3, <1>11, <2>1, LeadsStay, OwnedNotListed
  <2>2. Leads(header_id[b])'
    <3>1. Gen(header_id[b]) >= 1 /\ Index(header_id[b]) = b /\ Published(b)'
      BY <1>3, <1>11, OwnedAllocated
    <3> QED
      BY <1>2, <3>1 DEF Leads, Gen, Index
  <2>3. Leads(a_next)'
    BY <1>2, <1>3, <2>2 DEF Leads, Gen, Index
  <2>4. ASSUME NEW c \in Blocks, Published(c)'
        PROVE  Leads(header_next[c])' /\ header_next[c] # header_id[b]
    <3>1. Leads(header_next[c])
      BY <1>1, <1>2, <1>3, <1>11, <2>4 DEF ListLeads
    <3> QED
      BY <1>2, <2>1, <3>1
  <2>5. ASSUME NEW c \in Blocks, NEW d \in Blocks, Published(c)', Published(d)',
               header_next[c] = header_next[d]
        PROVE  c = d
    BY <1>1, <1>2, <1>3, <1>11, <2>5 DEF ListLeads
  <2>6. ListEnds'
    <3>1. \A c \in Blocks : Published(c)' => Published(c) \/ c \in {b}
      BY <1>11
    <3>2. Index(header_next[b]) # b
      BY <1>1, <1>2, <1>3, LeadsElsewhere DEF ListLeads
    <3>3. \A S \in SUBSET {b} : S # {} => \E c \in S : Index(header_next[c]) \notin S
      BY <3>2
    <3> QED
      BY <1>2, <1>3, <3>1, <3>3, EndsExtend
  <2> QED
    BY <1>2, <1>3, <2>3, <2>4, <2>5, <2>6 DEF ListLeads
<1>15. GenerationsCounted' /\ \A u \in Threads : ReadSound(u)'
  BY <1>2, <1>11, FreeStep
<1>16. ASSUME NEW u \in Threads
       PROVE  StackSound(u)'
  <2>1. StackSound(u)
    BY DEF IInv
  <2> QED
    BY <1>2, <1>4, <2>1 DEF StackSound
<1> QED
  BY <1>5, <1>12, <1>13, <1>14, <1>15, <1>16 DEF IInv

(* The exchange of a batch succeeds: the upper half of the local stack is  *)
(* published at once, each block under the one above it.                   *)
LEMMA PushBatchIInv ==
  ASSUME IInv, NEW t \in Threads, PushBatch(t)
  PROVE  IInv'
<1>1. TypeOK /\ OneOwner /\ ListLeads /\ StackSound(t)
  BY DEF IInv
<1> DEFINE n == LocalMax - 1
           stack == local_next[t]
           In(c) == \E k \in LocalLow .. n : c = Index(stack[k])
<1>2. /\ pc[t] = "push" /\ cached /\ a_next = header_next[block[t]]
      /\ a_next' = new_next[t] /\ pc' = [pc EXCEPT ![t] = "stash"]
      /\ local_next' = [local_next EXCEPT ![t] = SubSeq(stack, 1, LocalLow - 1)]
      /\ UNCHANGED <<cached, header_id, header_next, seen, new_next, block, freeing,
                     holders, allocs>>
  BY DEF PushBatch, Goto
<1>3. /\ n \in Nat /\ LocalLow \in 1 .. n /\ stack \in Seq(Ids) /\ Len(stack) = n
      /\ block[t] = Index(stack[LocalLow]) /\ new_next[t] = stack[n]
      /\ \A k \in 1 .. n : k \in 1 .. LocalMax
  BY <1>2, PushOwns, StackTypes, Sizes
<1>4. \A k \in 1 .. n :
        /\ stack[k] \in Ids /\ Index(stack[k]) \in Blocks
        /\ header_id[Index(stack[k])] = stack[k] /\ At(t, k, Index(stack[k]))
        /\ ~Unowned(Index(stack[k]))
  BY <1>3, StackTypes DEF Unowned
<1>5. \A j, k \in 1 .. n : Index(stack[j]) = Index(stack[k]) => j = k
  BY <1>1, <1>3, <1>4 DEF OneOwner
<1>6. /\ header_next[Index(stack[LocalLow])] = a_next
      /\ \A k \in LocalLow + 1 .. n : header_next[Index(stack[k])] = stack[k - 1]
  <2>1. \A k \in LocalLow + 1 .. n : k \in 2 .. n /\ k # LocalLow
    BY <1>3
  <2> QED
    BY <1>1, <1>2, <1>3, <2>1 DEF StackSound
<1>7. /\ pc'[t] = "stash"
      /\ \A u \in Threads \ {t} : pc'[u] = pc[u] /\ local_next'[u] = local_next[u]
  BY <1>1, <1>2 DEF TypeOK
<1>8. /\ local_next'[t] \in Seq(Ids) /\ Len(local_next'[t]) = LocalLow - 1
      /\ \A k \in 1 .. LocalLow - 1 : local_next'[t][k] = stack[k]
  <2>1. local_next'[t] = SubSeq(stack, 1, LocalLow - 1)
    BY <1>1, <1>2 DEF TypeOK
  <2> HIDE DEF n, stack
  <2> QED
    BY <1>3, <2>1
<1> HIDE DEF n, stack
<1>9. TypeOK'
  <2>1. local_next' \in [Threads -> Seq(Ids)]
    BY <1>1, <1>2, <1>7, <1>8 DEF TypeOK
  <2>2. ASSUME NEW u \in Threads
        PROVE  Len(local_next'[u]) <= LocalMax - 1
    BY <1>7, <1>8, StackTypes, Sizes
  <2> QED
    BY <1>1, <1>2, <2>1, <2>2 DEF TypeOK
<1>10. \A u \in Threads : \A c : Moving(u, c)' <=> Moving(u, c)
  BY <1>2, <1>7 DEF Moving, InTransit
<1>11. \A u \in Threads : \A k, c : At(u, k, c)' <=> At(u, k, c) /\ ~(u = t /\ k >= LocalLow)
  <2>1. \A k, c : At(t, k, c)' <=> At(t, k, c) /\ ~(k >= LocalLow)
    BY <1>3, <1>8 DEF At, Index, stack
  <2>2. \A u \in Threads \ {t} : \A k, c : At(u, k, c)' <=> At(u, k, c)
    BY <1>7 DEF At, Index
  <2> QED
    BY <2>1, <2>2
<1>12. \A k \in LocalLow .. n : k \in 1 .. n
  BY <1>3
<1>13. \A c \in Blocks : Unowned(c)' <=> Unowned(c) \/ In(c)
  <2>1. ASSUME NEW c \in Blocks, In(c)
        PROVE  Unowned(c)'
    <3>1. PICK k \in LocalLow .. n : c = Index(stack[k])
      BY <2>1
    <3>2. k \in 1 .. LocalMax /\ At(t, k, c) /\ k >= LocalLow
      BY <1>3, <1>4, <1>12, <3>1
    <3>3. holders[c] = 0
      <4>1. holders[c] \in Nat
        BY <1>1 DEF TypeOK
      <4> QED
        BY <1>1, <3>2, <4>1 DEF OneOwner
    <3>4. \A u \in Threads : ~Moving(u, c)
      BY <1>1, <3>2 DEF OneOwner
    <3>5. \A u \in Threads, j \in 1 .. LocalMax : ~At(u, j, c)'
      BY <1>1, <1>11, <3>2 DEF OneOwner
    <3> QED
      BY <1>2, <1>10, <3>3, <3>4, <3>5 DEF Unowned
  <2>2. ASSUME NEW c \in Blocks, ~In(c)
        PROVE  Unowned(c)' <=> Unowned(c)
    <3>1. \A k \in 1 .. LocalMax : At(t, k, c) => ~(k >= LocalLow)
      BY <1>3, <2>2 DEF At, stack
    <3>2. \A u \in Threads, k \in 1 .. LocalMax : At(u, k, c)' <=> At(u, k, c)
      BY <1>11, <3>1
    <3> QED
      BY <1>2, <1>10, <3>2 DEF Unowned
  <2>3. ASSUME NEW c \in Blocks, Unowned(c)
        PROVE  Unowned(c)'
    BY <2>1, <2>2, <2>3
  <2> QED
    BY <2>1, <2>2, <2>3
<1>14. \A c \in Blocks : Published(c)' <=> Published(c) \/ In(c)
  <2>1. \A c \in Blocks : In(c) => header_id[c] # Dummy
    BY <1>4, <1>12, OwnedAllocated
  <2> QED
    BY <1>2, <1>13, <2>1 DEF Published
<1>15. OneOwner'
  BY <1>1, <1>2, <1>10, <1>11 DEF OneOwner
<1>16. HeadersNameBlocks'
  <2>1. \A c \in Blocks : Unowned(c) => Unowned(c)'
    BY <1>13
  <2> QED
    BY <1>2, <2>1, HeadersFrame
<1>17. ListLeads'
  <2>1. ASSUME NEW id, Leads(id)
        PROVE  Leads(id)' /\ \A k \in 1 .. n : id # stack[k]
    <3>1. Leads(id)'
      <4>1. \A c \in Blocks : Published(c) => Published(c)'
        BY <1>14
      <4> QED
        BY <1>2, <2>1, <4>1, LeadsStay
    <3>2. ASSUME NEW k \in 1 .. n
          PROVE  id # stack[k]
      BY <1>4, <2>1, OwnedNotListed
    <3> QED
      BY <3>1, <3>2
  <2>2. ASSUME NEW k \in LocalLow .. n, NEW id, id = stack[k]
        PROVE  Leads(id)'
    <3>1. PICK c \in Blocks : c = Index(id) /\ header_id[c] = id /\ ~Unowned(c) /\ In(c)
      BY <1>4, <1>12, <2>2
    <3>2. Gen(id) >= 1 /\ header_id'[c] = id
      BY <1>2, <3>1, OwnedAllocated
    <3>3. Published(c)'
      BY <1>14, <3>1
    <3> QED
      BY <3>1, <3>2, <3>3 DEF Leads, Gen, Index
  <2>3. a_next' = stack[n] /\ n \in LocalLow .. n /\ n \in 1 .. n
    BY <1>2, <1>3
  <2>4. Leads(a_next)'
    <3>1. PICK id : id = stack[n] /\ a_next' = id
      BY <2>3
    <3>2. Leads(id)'
      BY <2>2, <2>3, <3>1
    <3> QED
      BY <3>1, <3>2 DEF Leads, Gen, Index
  (* What the published blocks lead to: the old ones where they led, the   *)
  (* tail where a_next led, and the others to the block below them.        *)
  <2>5. ASSUME NEW c \in Blocks, Published(c)'
        PROVE  \/ /\ Published(c) /\ Leads(header_next[c])
                  /\ header_next[c] # a_next
               \/ /\ c = Index(stack[LocalLow]) /\ header_next[c] = a_next
                  /\ Leads(a_next)
               \/ \E k \in LocalLow + 1 .. n :
                    c = Index(stack[k]) /\ header_next[c] = stack[k - 1]
    <3>1. CASE Published(c)
      BY <1>1, <3>1 DEF ListLeads
    <3>2. CASE In(c)
      <4>1. PICK k \in LocalLow .. n : c = Index(stack[k])
        BY <3>2
      <4>2. k = LocalLow \/ k \in LocalLow + 1 .. n
        BY <1>3, <4>1
      <4> QED
        BY <1>1, <1>6, <4>1, <4>2 DEF ListLeads
    <3> QED
      BY <1>14, <2>5, <3>1, <3>2
  <2>6. \A k \in LocalLow + 1 .. n :
          k - 1 \in LocalLow .. n /\ k - 1 \in 1 .. n /\ k - 1 # n
    BY <1>3
  <2>7. \A j, k \in 1 .. n : stack[j] = stack[k] => j = k
    BY <1>5
  <2>8. ASSUME NEW c \in Blocks, Published(c)'
        PROVE  Leads(header_next[c])' /\ header_next[c] # stack[n]
    <3>1. PICK id : id = header_next[c] /\ header_next'[c] = id
      BY <1>2
    <3>2. \/ Leads(id)
          \/ \E k \in LocalLow + 1 .. n : id = stack[k - 1]
      BY <2>5, <2>8, <3>1
    <3>3. Leads(id)' /\ id # stack[n]
      BY <2>1, <2>2, <2>3, <2>6, <2>7, <3>2
    <3> QED
      BY <3>1, <3>3 DEF Leads, Gen, Index
  <2>9. ASSUME NEW c \in Blocks, NEW d \in Blocks, Published(c)', Published(d)',
               header_next[c] = header_next[d]
        PROVE  c = d
    <3>1. CASE Published(c) /\ Published(d)
      BY <1>1, <2>9, <3>1 DEF ListLeads
    <3>2. CASE ~Published(c) \/ ~Published(d)
      <4>1. Leads(a_next) => \A k \in 1 .. n : a_next # stack[k]
        BY <2>1
      <4>2. \A e \in Blocks : Leads(header_next[e]) =>
              \A k \in 1 .. n : header_next[e] # stack[k]
        BY <2>1
      <4>3. \A e \in Blocks : Published(e) => ~In(e)
        BY <1>4, <1>12 DEF Published
      <4>4. \A k \in LocalLow + 1 .. n : In(Index(stack[k]))
        BY <1>3
      <4>5. In(Index(stack[LocalLow]))
        BY <1>3
      <4> HIDE DEF In
      <4> QED
        BY <2>5, <2>6, <2>7, <2>9, <3>2, <4>1, <4>2, <4>3, <4>4, <4>5
    <3> QED
      BY <3>1, <3>2
  (* Of any of the new blocks the lowest leads below.                      *)
  <2>10. ListEnds'
    <3> DEFINE New == {c \in Blocks : In(c)}
    <3>1. \A c \in New : ~Unowned(c)
      BY <1>4, <1>12
    <3>2. ASSUME NEW S \in SUBSET New, S # {}
          PROVE  \E c \in S : Index(header_next[c]) \notin S
      <4> DEFINE Ks == {k \in LocalLow .. n : Index(stack[k]) \in S}
      <4>1. Ks \in SUBSET Nat /\ Ks # {}
        <5>1. \A k \in LocalLow .. n : k \in Nat
          BY <1>3
        <5> QED
          BY <3>2, <5>1
      <4>2. PICK k \in Ks : \A j \in Ks : k <= j
        <5> HIDE DEF Ks
        <5> QED
          BY <4>1, Least
      <4>3. CASE k = LocalLow
        <5>1. Leads(header_next[Index(stack[k])])
          BY <1>1, <1>6, <4>3 DEF ListLeads
        <5>2. \A c \in New : Index(header_next[Index(stack[k])]) # c
          BY <3>1, <5>1, LeadsElsewhere
        <5> QED
          BY <4>2, <5>2
      <4>4. CASE k # LocalLow
        <5>1. k \in LocalLow + 1 .. n /\ k - 1 \in LocalLow .. n /\ ~(k <= k - 1)
          BY <1>3, <4>2, <4>4
        <5>2. header_next[Index(stack[k])] = stack[k - 1] /\ Index(stack[k - 1]) \notin S
          BY <1>6, <4>2, <5>1
        <5> QED
          BY <4>2, <5>2
      <4> QED
        BY <4>3, <4>4
    <3>3. \A c \in Blocks : Published(c)' => Published(c) \/ c \in New
      BY <1>14
    <3> HIDE DEF New
    <3>4. New \in SUBSET Blocks
      BY DEF New
    <3> QED
      BY <1>2, <3>1, <3>2, <3>3, <3>4, EndsExtend
  <2> QED
    BY <1>2, <2>3, <2>4, <2>8, <2>9, <2>10 DEF ListLeads
<1>18. GenerationsCounted' /\ \A u \in Threads : ReadSound(u)'
  BY <1>2, <1>14, FreeStep
<1>19. ASSUME NEW u \in Threads
       PROVE  StackSound(u)'
  <2>1. CASE u = t
    <3>1. \A k \in 1 .. LocalLow - 1 : k \in 1 .. n /\ k # LocalLow
      BY <1>3
    <3>2. \A k \in 2 .. LocalLow - 1 :
            /\ header_next[Index(stack[k])] = stack[k - 1]
            /\ k \in 1 .. LocalLow - 1 /\ k - 1 \in 1 .. LocalLow - 1
      BY <1>1, <1>3, <3>1 DEF StackSound, stack
    <3> QED
      BY <1>2, <1>4, <1>7, <1>8, <2>1, <3>1, <3>2 DEF StackSound, Index
  <2>2. CASE u # t
    BY <1>2, <1>7, <2>2, StackFrame
  <2> QED
    BY <2>1, <2>2
<1> QED
  BY <1>9, <1>15, <1>16, <1>17, <1>18, <1>19 DEF IInv

(* A block with no other owner is put on the local stack and linked to     *)
(* the block below it.                                                     *)
LEMMA StashIInv ==
  ASSUME IInv, WholeLinks, NEW t \in Threads, NEW b \in Blocks, Stash(t, b),
         cached, pc[t] \in {"idle", "stash"}, pc' = [pc EXCEPT ![t] = "idle"],
         Len(local_next[t]) + 1 <= LocalMax - 1,
         UNCHANGED <<cached, a_next, header_id, seen, new_next, block, freeing, allocs>>,
         ~Unowned(b), \A u \in Threads, k \in 1 .. LocalMax : ~At(u, k, b),
         holders' \in [Blocks -> Nat], holders'[b] = 0,
         \A c \in Blocks \ {b} : holders'[c] = holders[c],
         \A u \in Threads : \A c : Moving(u, c)' <=> Moving(u, c) /\ c # b
  PROVE  IInv'
<1>1. TypeOK /\ OneOwner /\ StackSound(t)
  BY DEF IInv
<1> DEFINE n == Len(local_next[t])
           stack == local_next[t]
<1>2. n \in Nat /\ n + 1 \in 1 .. LocalMax /\ stack \in Seq(Ids) /\ n = Len(stack)
  BY StackTypes, Sizes
<1>3. /\ header_id[b] \in Ids /\ Index(header_id[b]) = b
      /\ LocalTop(stack) \in Ids /\ (n # 0 => LocalTop(stack) = stack[n])
  BY OwnedAllocated, DummyType, StackTypes, <1>2 DEF LocalTop
<1>4. /\ header_next' = [header_next EXCEPT ![b] = LocalTop(stack)]
      /\ local_next' = [local_next EXCEPT ![t] = Append(stack, header_id[b])]
  BY DEF Stash, Linked, WholeLinks
<1>5. /\ pc'[t] = "idle" /\ header_next'[b] = LocalTop(stack)
      /\ \A u \in Threads \ {t} : pc'[u] = pc[u] /\ local_next'[u] = local_next[u]
      /\ \A c \in Blocks \ {b} : header_next'[c] = header_next[c]
  BY <1>1, <1>4 DEF TypeOK
<1>6. /\ local_next'[t] \in Seq(Ids) /\ Len(local_next'[t]) = n + 1
      /\ local_next'[t][n + 1] = header_id[b]
      /\ \A k \in 1 .. n : local_next'[t][k] = stack[k]
  <2>1. local_next'[t] = Append(stack, header_id[b])
    BY <1>1, <1>4 DEF TypeOK
  <2> HIDE DEF stack
  <2> QED
    BY <1>2, <1>3, <2>1
<1> HIDE DEF n, stack
<1>7. TypeOK'
  <2>1. local_next' \in [Threads -> Seq(Ids)] /\ header_next' \in [Blocks -> Ids]
    BY <1>1, <1>3, <1>4, <1>5, <1>6 DEF TypeOK
  <2>2. ASSUME NEW u \in Threads
        PROVE  Len(local_next'[u]) <= LocalMax - 1
    BY <1>5, <1>6, StackTypes DEF n
  <2> QED
    BY <1>1, <2>1, <2>2 DEF TypeOK
<1>8. \A u \in Threads : \A k, c : At(u, k, c)' <=> At(u, k, c) \/ (u = t /\ k = n + 1 /\ c = b)
  <2>1. \A k, c : At(t, k, c)' <=> At(t, k, c) \/ (k = n + 1 /\ c = b)
    <3>1. \A k : k \in 1 .. n + 1 <=> k \in 1 .. n \/ k = n + 1
      BY <1>2
    <3>2. n + 1 \notin 1 .. n
      BY <1>2
    <3> QED
      BY <1>2, <1>3, <1>6, <3>1, <3>2 DEF At, Index, stack
  <2>2. \A u \in Threads \ {t} : \A k, c : At(u, k, c)' <=> At(u, k, c)
    BY <1>5 DEF At, Index
  <2> QED
    BY <2>1, <2>2
<1>9. \A c \in Blocks : Unowned(c)' <=> Unowned(c)
  <2>1. \A c \in Blocks \ {b} : Unowned(c)' <=> Unowned(c)
    BY <1>8 DEF Unowned
  <2>2. ~Unowned(b)'
    BY <1>2, <1>8 DEF Unowned
  <2> QED
    BY <2>1, <2>2
<1>10. \A c \in Blocks : Published(c)' <=> Published(c)
  BY <1>9 DEF Published
<1>11. \A c \in Blocks : Published(c) => header_next'[c] = header_next[c]
  BY <1>5 DEF Published
<1>12. OneOwner'
  <2>1. ASSUME NEW c \in Blocks
        PROVE  /\ holders'[c] <= 1
               /\ holders'[c] = 1 =>
                    \A u \in Threads : ~Moving(u, c)' /\ \A k \in 1 .. LocalMax : ~At(u, k, c)'
    BY <1>1, <1>8 DEF OneOwner
  <2>2. ASSUME NEW c \in Blocks, NEW u \in Threads, NEW w \in Threads, Moving(u, c)'
        PROVE  (Moving(w, c)' => u = w) /\ \A k \in 1 .. LocalMax : ~At(w, k, c)'
    BY <1>1, <1>8, <2>2 DEF OneOwner
  <2>3. ASSUME NEW c \in Blocks, NEW u \in Threads, NEW w \in Threads,
               NEW j \in 1 .. LocalMax, NEW k \in 1 .. LocalMax, At(u, j, c)', At(w, k, c)'
        PROVE  u = w /\ j = k
    BY <1>1, <1>8, <2>3 DEF OneOwner
  <2> QED
    BY <2>1, <2>2, <2>3 DEF OneOwner
<1>13. HeadersNameBlocks'
  BY <1>9, HeadersFrame
<1>14. ListLeads'
  BY <1>10, <1>11, ListFrame
<1>15. GenerationsCounted' /\ \A u \in Threads : ReadSound(u)'
  BY <1>10, <1>11, FreeStep
<1>16. ASSUME NEW u \in Threads
       PROVE  StackSound(u)'
  <2>1. \A k \in 1 .. Len(local_next[u]) : Index(local_next[u][k]) \in Blocks \ {b}
    BY StackTypes
  <2>2. CASE u = t
    <3>1. \A k \in 1 .. n + 1 : k \in 1 .. n \/ k = n + 1
      BY <1>2
    <3>2. \A k \in 1 .. n :
            /\ Index(stack[k]) \in Blocks \ {b} /\ header_id[Index(stack[k])] = stack[k]
      BY <2>1, <2>2, StackTypes DEF stack, n
    <3>3. \A k \in 2 .. n : header_next[Index(stack[k])] = stack[k - 1]
      BY <1>1 DEF StackSound, stack, n
    <3>4. \A k \in 2 .. n + 1 :
            /\ k = n + 1 => k - 1 = n /\ n # 0
            /\ k # n + 1 => k \in 2 .. n /\ k \in 1 .. n
            /\ k - 1 \in 1 .. n
      BY <1>2
    <3>5. ASSUME NEW k \in 2 .. n + 1
          PROVE  header_next'[Index(local_next'[t][k])] = local_next'[t][k - 1]
      <4>1. CASE k = n + 1
        <5>1. /\ Index(local_next'[t][k]) = b /\ local_next'[t][k - 1] = stack[n]
          BY <1>3, <1>6, <3>4, <4>1
        <5> QED
          BY <1>3, <1>5, <3>4, <4>1, <5>1
      <4>2. CASE k # n + 1
        BY <1>5, <1>6, <3>2, <3>3, <3>4, <4>2
      <4> QED
        BY <4>1, <4>2
    <3>6. ASSUME NEW k \in 1 .. n + 1
          PROVE  /\ Index(local_next'[t][k]) \in Blocks
                 /\ header_id[Index(local_next'[t][k])] = local_next'[t][k]
      BY <1>3, <1>6, <3>1, <3>2
    <3> QED
      BY <1>5, <1>6, <2>2, <3>5, <3>6 DEF StackSound, Index
  <2>3. CASE u # t
    <3>1. \A k \in 2 .. Len(local_next[u]) : Index(local_next[u][k]) \in Blocks \ {b}
      <4>1. \A k \in 2 .. Len(local_next[u]) : k \in 1 .. Len(local_next[u])
        BY StackTypes
      <4> QED
        BY <2>1, <4>1
    <3> QED
      BY <1>5, <2>3, <3>1, StackFrame
  <2> QED
    BY <2>2, <2>3
<1> QED
  BY <1>7, <1>12, <1>13, <1>14, <1>15, <1>16 DEF IInv

(* A block of 256B goes from its user to the local stack.                  *)
LEMMA FreeLocalIInv ==
  ASSUME IInv, WholeLinks, NEW t \in Threads, NEW b \in Blocks, FreeLocal(t, b)
  PROVE  IInv'
<1>1. TypeOK
  BY DEF IInv
<1>2. /\ pc[t] = "idle" /\ cached /\ holders[b] > 0 /\ Len(local_next[t]) # LocalMax - 1
      /\ holders' = [holders EXCEPT ![b] = holders[b] - 1] /\ Stash(t, b)
      /\ UNCHANGED <<cached, a_next, header_id, pc, seen, new_next, block, freeing, allocs>>
  BY DEF FreeLocal, LocalFull, Release, locals
<1>3. /\ holders[b] = 1 /\ ~Unowned(b)
      /\ \A u \in Threads : ~Moving(u, b) /\ \A k \in 1 .. LocalMax : ~At(u, k, b)
  BY <1>2, HolderAlone
<1>4. /\ holders' \in [Blocks -> Nat] /\ holders'[b] = 0
      /\ \A c \in Blocks \ {b} : holders'[c] = holders[c]
  BY <1>1, <1>2, <1>3 DEF TypeOK
<1>5. pc' = [pc EXCEPT ![t] = "idle"]
  BY <1>1, <1>2 DEF TypeOK
<1>6. Len(local_next[t]) + 1 <= LocalMax - 1
  <2>1. PICK n \in Nat : n = Len(local_next[t]) /\ n <= LocalMax - 1
    BY StackTypes
  <2>2. n # LocalMax - 1
    BY <1>2, <2>1
  <2>3. n + 1 <= LocalMax - 1
    BY <2>1, <2>2, Sizes
  <2> QED
    BY <2>1, <2>3
<1>7. \A u \in Threads : \A c : Moving(u, c)' <=> Moving(u, c) /\ c # b
  BY <1>2, <1>3 DEF Moving, InTransit
<1> QED
  BY <1>2, <1>3, <1>4, <1>5, <1>6, <1>7, StashIInv

(* The block that waited for the batch goes to the local stack.            *)
LEMMA FreeAfterBatchIInv ==
  ASSUME IInv, WholeLinks, NEW t \in Threads, FreeAfterBatch(t)
  PROVE  IInv'
<1>1. TypeOK /\ OneOwner /\ StackSound(t)
  BY DEF IInv
<1>2. PICK b \in Blocks : b = freeing[t]
  BY <1>1 DEF TypeOK
<1>3. /\ pc[t] = "stash" /\ pc' = [pc EXCEPT ![t] = "idle"] /\ Stash(t, b)
      /\ UNCHANGED <<cached, a_next, header_id, seen, new_next, block, freeing, holders,
                     allocs>>
  BY <1>2 DEF FreeAfterBatch, Goto
<1>4. cached /\ Len(local_next[t]) = LocalLow - 1
  BY <1>1, <1>3 DEF StackSound
<1>5. Moving(t, b) /\ \A c : Moving(t, c) => c = b
  BY <1>2, <1>3, <1>4 DEF Moving, InTransit
<1>6. /\ ~Unowned(b) /\ \A u \in Threads, k \in 1 .. LocalMax : ~At(u, k, b)
      /\ \A u \in Threads : Moving(u, b) => u = t
  BY <1>1, <1>5 DEF OneOwner, Unowned
<1>7. /\ holders' \in [Blocks -> Nat] /\ holders'[b] = 0
      /\ \A c \in Blocks \ {b} : holders'[c] = holders[c]
  <2>1. holders[b] \in Nat
    BY <1>1 DEF TypeOK
  <2> QED
    BY <1>1, <1>3, <1>5, <2>1 DEF OneOwner, TypeOK
<1>8. Len(local_next[t]) + 1 <= LocalMax - 1
  BY <1>4, Sizes
<1>9. \A u \in Threads : \A c : Moving(u, c)' <=> Moving(u, c) /\ c # b
  <2>1. pc'[t] = "idle" /\ \A u \in Threads \ {t} : pc'[u] = pc[u]
    BY <1>1, <1>3 DEF TypeOK
  <2>2. \A u \in Threads : \A c : Moving(u, c)' <=> Moving(u, c) /\ u # t
    BY <1>3, <2>1 DEF Moving, InTransit
  <2> QED
    BY <1>5, <1>6, <2>2
<1> QED
  BY <1>3, <1>4, <1>6, <1>7, <1>8, <1>9, StashIInv

-------------------------------------------------------------------------------
(* The theorems *)

(* At the start every block is fresh, and a_next leads to the first.       *)
LEMMA InitIInv ==
  ASSUME Init
  PROVE  IInv
<1>1. TypeOK
  <2>1. <<>> \in Seq(Ids) /\ Len(<<>>) = 0 /\ 0 \in Blocks /\ 0 \in 0 .. MaxAllocs
        /\ 0 <= LocalMax - 1
    BY Sizes DEF Blocks
  <2> QED
    BY <2>1, DummyType DEF Init, TypeOK
<1>2. \A t \in Threads : /\ pc[t] = "idle" /\ local_next[t] = <<>>
                         /\ \A b : ~Moving(t, b) /\ \A k : ~At(t, k, b)
  <2>1. \A t \in Threads : pc[t] = "idle" /\ local_next[t] = <<>>
    BY DEF Init
  <2>2. \A k : k \notin 1 .. Len(<<>>)
    OBVIOUS
  <2> QED
    BY <2>1, <2>2 DEF Moving, InTransit, At
<1>3. \A b \in Blocks : header_id[b] = Dummy /\ holders[b] = 0 /\ Unowned(b) /\ ~Published(b)
  BY <1>2 DEF Init, Unowned, Published
<1>4. OneOwner
  <2>1. \A b \in Blocks : holders[b] <= 1 /\ holders[b] # 1
    BY <1>3
  <2> QED
    BY <1>2, <2>1, Zenon DEF OneOwner
<1>5. HeadersNameBlocks
  BY <1>3 DEF HeadersNameBlocks
<1>6. \A t \in Threads : StackSound(t) /\ ReadSound(t)
  BY <1>2 DEF StackSound, ReadSound
<1>7. ListLeads
  <2>1. a_next = Dummy /\ \A b \in Blocks : b >= 0
    BY Sizes DEF Init, Blocks
  <2> QED
    BY <1>3, <2>1, DummyType DEF ListLeads, ListEnds, Leads
<1>8. GenerationsCounted
  <2>1. Allocating = {}
    BY <1>2 DEF Allocating
  <2>2. Cardinality(Allocating) = 0 /\ allocs = 0
    BY <2>1, FS_EmptySet DEF Init
  <2> QED
    BY <1>3, <2>2, DummyType DEF GenerationsCounted
<1> QED
  BY <1>1, <1>4, <1>5, <1>6, <1>7, <1>8 DEF IInv

(* No step breaks the invariant.                                           *)
LEMMA NextIInv ==
  ASSUME WholeLinks, IInv, [Next]_vars
  PROVE  IInv'
<1>1. CASE UNCHANGED vars
  <2>1. \A b \in Blocks : Published(b)' <=> Published(b)
    BY <1>1 DEF vars, locals, Published, Unowned, Moving, InTransit, At, Index
  <2>2. ListLeads'
    BY <1>1, <2>1, ListFrame DEF vars, locals
  <2> QED
    BY <1>1, <2>2 DEF vars, locals, IInv, TypeOK, OneOwner, HeadersNameBlocks, StackSound,
                      ReadSound, GenerationsCounted, Allocating, Published, Unowned,
                      Moving, InTransit, At, Gen, Index, LocalTop
<1>2. ASSUME NEW t \in Threads, Alloc(t)
      PROVE  IInv'
  BY <1>2, AllocLocalIInv, AllocLoadIInv, OutOfMemoryIInv, AllocReadIInv, AllocTakeIInv,
     AllocRetryIInv DEF Alloc
<1>3. ASSUME NEW t \in Threads, Free(t)
      PROVE  IInv'
  BY <1>3, FreeBlockIInv, FreeBatchIInv, FreeLocalIInv, PushRetryIInv, PushBlockIInv,
     PushBatchIInv, FreeAfterBatchIInv DEF Free
<1> QED
  BY <1>1, <1>2, <1>3 DEF Next, Finished

(* The invariant holds in every reachable state: however the threads that  *)
(* allocate and free interleave, each block has one owner, and the shared  *)
(* list leads from published block to published block.                     *)
THEOREM Invariance ==
  ASSUME WholeLinks
  PROVE  Spec => []IInv
<1>1. Init => IInv
  BY InitIInv
<1>2. IInv /\ [Next]_vars => IInv'
  BY NextIInv
<1> QED
  BY <1>1, <1>2, PTL DEF Spec

(* The words, headers, stacks and locals of the allocator have their types *)
(* and the stacks their bound.                                             *)
THEOREM TypeCorrect ==
  ASSUME WholeLinks
  PROVE  Spec => []TypeOK
<1>1. IInv => TypeOK
  BY DEF IInv
<1> QED
  BY <1>1, Invariance, PTL

(* ThreadBlockAlloc and ThreadBlockFree never put one block in two hands:  *)
(* a user's, a local stack's place, or those of a thread that frees it.    *)
THEOREM BlocksHaveOneOwner ==
  ASSUME WholeLinks
  PROVE  Spec => []OneOwner
<1>1. IInv => OneOwner
  BY DEF IInv
<1> QED
  BY <1>1, Invariance, PTL

(* There is no ABA: the exchange of ThreadBlockAlloc that is about to      *)
(* succeed installs what follows the block now, although it was read from  *)
(* a header that other threads may have owned in between.                  *)
THEOREM NoABA ==
  ASSUME WholeLinks
  PROVE  Spec => []ExchangeIsFresh
<1>1. IInv => ExchangeIsFresh
  <2>1. SUFFICES ASSUME IInv, NEW t \in Threads, pc[t] = "take", seen[t] = a_next
                 PROVE  new_next[t] = Follow(a_next)
    BY DEF ExchangeIsFresh
  <2>2. TypeOK /\ ReadSound(t) /\ ListLeads
    BY <2>1 DEF IInv
  <2>3. a_next \in Ids /\ Gen(a_next) \in Nat
    BY <2>2, IdType, Sizes DEF TypeOK
  <2>4. CASE Gen(a_next) = 0
    BY <2>1, <2>2, <2>4 DEF ReadSound, Follow
  <2>5. CASE Gen(a_next) # 0
    <3>1. Gen(a_next) >= 1 /\ header_id[Index(a_next)] = a_next
      BY <2>2, <2>3, <2>5 DEF ListLeads, Leads
    <3>2. ~(Gen(header_id[Index(a_next)]) > Gen(a_next))
      BY <2>3, <3>1
    <3> QED
      BY <2>1, <2>2, <2>5, <3>1, <3>2 DEF ReadSound, Follow
  <2> QED
    BY <2>4, <2>5
<1> QED
  BY <1>1, Invariance, PTL

(* A generation 0 at the top of the list says that no freed block is left: *)
(* what follows was never allocated.                                       *)
THEOREM FreshBlocksFollow ==
  ASSUME WholeLinks
  PROVE  Spec => []GenerationZeroIsFresh
<1>1. IInv => GenerationZeroIsFresh
  BY DEF IInv, ListLeads, Leads, GenerationZeroIsFresh
<1> QED
  BY <1>1, Invariance, PTL

(* The local stack of every thread is one list, linked from its top to its *)
(* bottom, except while the thread returns its upper half.                 *)
THEOREM StacksAreLinked ==
  ASSUME WholeLinks
  PROVE  Spec => []LocalStackLinked
<1>1. IInv => LocalStackLinked
  BY DEF IInv, StackSound, LocalStackLinked
<1> QED
  BY <1>1, Invariance, PTL

-------------------------------------------------------------------------------
(* The walk *)

(* What a walk over the free list may come to: the end, a published block  *)
(* under its identifier, or a fresh block under generation 0.              *)
OnList(id) ==
  /\ id \in Ids
  /\ Index(id) # MaxCount =>
       \/ Gen(id) = 0 /\ header_id[Index(id)] = Dummy
       \/ Gen(id) # 0 /\ Published(Index(id))
After(id) == IF Index(id) = MaxCount THEN id ELSE Follow(id)

(* Where the walk goes from a free block.                                  *)
Behind(b) == IF header_id[b] = Dummy THEN b + 1 ELSE Index(header_next[b])

(* What leads on the shared list is on the walk.                           *)
LEMMA LeadsOnList ==
  ASSUME IInv, NEW id \in Ids, Leads(id)
  PROVE  OnList(id)
<1>1. Index(id) \in 0 .. MaxCount /\ Gen(id) \in Nat
  BY IdType, Sizes
<1>2. Index(id) # MaxCount => Index(id) \in Blocks /\ Index(id) >= Index(id)
  BY <1>1, BlockIndex
<1> QED
  BY <1>1, <1>2 DEF Leads, OnList

(* The fresh blocks are those from some index upwards.                     *)
LEMMA FreshUpwards ==
  ASSUME IInv
  PROVE  \E f \in 0 .. MaxCount : \A b \in Blocks : header_id[b] = Dummy <=> b >= f
<1>1. TypeOK /\ ListLeads
  BY DEF IInv
<1>2. ASSUME NEW id \in Ids, Leads(id), Gen(id) = 0
      PROVE  \E f \in 0 .. MaxCount : \A b \in Blocks : header_id[b] = Dummy <=> b >= f
  BY <1>2, IdType DEF Leads
<1>3. CASE Gen(a_next) = 0
  BY <1>1, <1>2, <1>3 DEF TypeOK, ListLeads
<1>4. CASE Gen(a_next) # 0
  <2> DEFINE S == {b \in Blocks : Published(b)}
  <2>1. S # {}
    BY <1>1, <1>4 DEF ListLeads, Leads
  <2>2. PICK b \in S : Index(header_next[b]) \notin S
    <3>1. S \in SUBSET Blocks /\ \A b \in S : Published(b)
      OBVIOUS
    <3> HIDE DEF S
    <3> QED
      BY <1>1, <2>1, <3>1 DEF ListLeads, ListEnds
  <2>3. header_next[b] \in Ids /\ Leads(header_next[b]) /\ Gen(header_next[b]) = 0
    BY <1>1, <2>2 DEF TypeOK, ListLeads, Leads
  <2> QED
    BY <1>2, <2>3
<1> QED
  BY <1>3, <1>4

(* A walk stays on the list, and goes from each block to the one behind.   *)
LEMMA WalkStep ==
  ASSUME IInv, NEW id \in Ids, OnList(id)
  PROVE  /\ After(id) \in Ids /\ OnList(After(id))
         /\ Index(id) # MaxCount => Index(After(id)) = Behind(Index(id))
<1>1. TypeOK /\ ListLeads
  BY DEF IInv
<1>2. Index(id) \in 0 .. MaxCount /\ Gen(id) \in Nat /\ MaxCount \in Nat
  BY IdType, Sizes
<1>3. CASE Index(id) = MaxCount
  BY <1>3 DEF After
<1>4. CASE Index(id) # MaxCount /\ Gen(id) = 0
  <2> DEFINE i == Index(id)
  <2>1. i \in Blocks /\ header_id[i] = Dummy /\ After(id) = <<0, i + 1>>
    BY <1>2, <1>4, BlockIndex DEF OnList, After, Follow
  <2>2. i + 1 \in 0 .. MaxCount /\ 0 \in 0 .. GenMod - 1
    BY <1>2, <1>4, Sizes
  <2>3. After(id) \in Ids /\ Gen(After(id)) = 0 /\ Index(After(id)) = i + 1
    BY <2>1, <2>2, IdOf
  <2>4. i + 1 # MaxCount => header_id[i + 1] = Dummy
    <3>1. PICK f \in 0 .. MaxCount : \A b \in Blocks : header_id[b] = Dummy <=> b >= f
      BY FreshUpwards
    <3>2. i + 1 # MaxCount => i + 1 \in Blocks
      BY <2>2, BlockIndex
    <3>3. i >= f
      BY <2>1, <3>1
    <3>4. i + 1 >= f
      BY <1>2, <3>3
    <3> QED
      BY <3>1, <3>2, <3>4
  <2> QED
    BY <1>4, <2>1, <2>3, <2>4 DEF OnList, Behind
<1>5. CASE Index(id) # MaxCount /\ Gen(id) # 0
  <2>1. Index(id) \in Blocks /\ Published(Index(id)) /\ After(id) = header_next[Index(id)]
    BY <1>2, <1>5, BlockIndex DEF OnList, After, Follow
  <2>2. After(id) \in Ids /\ Leads(After(id))
    BY <1>1, <2>1 DEF TypeOK, ListLeads
  <2> QED
    BY <2>1, <2>2, LeadsOnList DEF Behind, Published
<1> QED
  BY <1>3, <1>4, <1>5

(* The recursive function Walk is the iteration of After.                  *)
LEMMA WalkIs ==
  ASSUME IInv
  PROVE  /\ Walk[0] = a_next
         /\ \A n \in 0 .. MaxCount : Walk[n] \in Ids /\ OnList(Walk[n])
         /\ \A n \in 1 .. MaxCount : Walk[n] = After(Walk[n - 1])
<1> DEFINE D == {id \in Ids : OnList(id)}
           F == [id \in D |-> After(id)]
<1>1. a_next \in D
  BY LeadsOnList DEF IInv, TypeOK, ListLeads
<1>2. F \in [D -> D]
  BY WalkStep
<1>3. PICK f : Iteration(f, MaxCount, F, a_next, D)
  <2> HIDE DEF D, F
  <2>1. MaxCount \in Nat
    BY Sizes
  <2> QED
    BY <1>1, <1>2, <2>1, Iterates
<1>4. \A n \in 0 .. MaxCount : f[n] \in D
  BY <1>3 DEF Iteration
<1>5. \A n \in 1 .. MaxCount : n - 1 \in 0 .. MaxCount /\ n # 0
  BY Sizes
<1>6. \A n \in 1 .. MaxCount : f[n] = After(f[n - 1])
  BY <1>3, <1>4, <1>5 DEF Iteration
<1>7. \A n \in 0 .. MaxCount : n # 0 => n \in 1 .. MaxCount
  BY Sizes
<1>8. f = [n \in 0 .. MaxCount |->
             IF n = 0 THEN a_next
             ELSE IF Index(f[n - 1]) = MaxCount THEN f[n - 1] ELSE Follow(f[n - 1])]
  <2>1. \A n \in 0 .. MaxCount :
          f[n] = IF n = 0 THEN a_next
                 ELSE IF Index(f[n - 1]) = MaxCount THEN f[n - 1] ELSE Follow(f[n - 1])
    BY <1>3, <1>6, <1>7 DEF After, Iteration
  <2> HIDE DEF D
  <2> QED
    BY <1>3, <2>1 DEF Iteration
<1>9. Walk = [n \in 0 .. MaxCount |->
                IF n = 0 THEN a_next
                ELSE IF Index(Walk[n - 1]) = MaxCount THEN Walk[n - 1] ELSE Follow(Walk[n - 1])]
  BY <1>8 DEF Walk
<1> HIDE DEF D, F
<1>10. Walk[0] = a_next /\ \A n \in 1 .. MaxCount : Walk[n] = After(Walk[n - 1])
  <2>1. 0 \in 0 .. MaxCount /\ \A n \in 1 .. MaxCount : n \in 0 .. MaxCount /\ n # 0
    BY Sizes
  <2> DEFINE G(w, n) == IF n = 0 THEN a_next
                        ELSE IF Index(w[n - 1]) = MaxCount THEN w[n - 1] ELSE Follow(w[n - 1])
  <2>2. \A n \in 0 .. MaxCount : Walk[n] = G(Walk, n)
    BY <1>9
  <2> QED
    BY <2>1, <2>2 DEF After
<1>11. \A n \in Nat : n \in 0 .. MaxCount => Walk[n] = f[n]
  <2> DEFINE P == {n \in Nat : n \in 0 .. MaxCount => Walk[n] = f[n]}
  <2>1. 0 \in P
    BY <1>3, <1>10 DEF Iteration
  <2>2. ASSUME NEW n \in Nat, n \in P
        PROVE  n + 1 \in P
    <3>1. ASSUME n + 1 \in 0 .. MaxCount
          PROVE  Walk[n + 1] = f[n + 1]
      <4>1. n + 1 \in 1 .. MaxCount /\ n \in 0 .. MaxCount /\ n + 1 - 1 = n
        BY <3>1, Sizes
      <4> QED
        BY <1>6, <1>10, <2>2, <4>1
    <3> QED
      BY <3>1
  <2> HIDE DEF P
  <2>3. \A n \in Nat : n \in P
    BY <2>1, <2>2, Induction
  <2> QED
    BY <2>3 DEF P
<1> QED
  <2>1. \A n \in 0 .. MaxCount : n \in Nat
    BY Sizes
  <2> QED
    BY <1>4, <1>10, <1>11, <2>1 DEF D

(* Behind leads from free block to free block, from no two to one place,   *)
(* to the top from none, and out of every set.                             *)
LEMMA FreeList ==
  ASSUME IInv, NEW U, U = {b \in Blocks : Unowned(b)}
  PROVE  /\ IsFiniteSet(U) /\ Cardinality(U) <= MaxCount /\ MaxCount \notin U
         /\ \A id \in Ids : OnList(id) => Index(id) \in U \cup {MaxCount}
         /\ \A b \in U : Behind(b) \in U \cup {MaxCount} /\ Behind(b) # Index(a_next)
         /\ \A b, c \in U : Behind(b) = Behind(c) => b = c
         /\ \A S \in SUBSET U : S # {} => \E b \in S : Behind(b) \notin S
<1>1. TypeOK /\ ListLeads /\ HeadersNameBlocks
  BY DEF IInv
<1>2. IsFiniteSet(U) /\ Cardinality(U) <= MaxCount
  <2>1. IsFiniteSet(Blocks) /\ Cardinality(Blocks) = MaxCount
    <3>1. 0 \in Int /\ MaxCount - 1 \in Int /\ ~(0 > MaxCount - 1)
          /\ MaxCount - 1 - 0 + 1 = MaxCount
      BY Sizes
    <3>2. /\ IsFiniteSet(0 .. MaxCount - 1)
          /\ Cardinality(0 .. MaxCount - 1) = MaxCount - 1 - 0 + 1
      BY <3>1, FS_Interval, Zenon
    <3> QED
      BY <3>1, <3>2 DEF Blocks
  <2> QED
    BY <2>1, FS_Subset
<1>3. MaxCount \notin U
  BY Sizes DEF Blocks
<1>4. ASSUME NEW id \in Ids, OnList(id)
      PROVE  Index(id) \in U \cup {MaxCount}
  BY <1>1, <1>4, IdType, BlockIndex DEF OnList, HeadersNameBlocks, Published
<1>5. ASSUME NEW b \in U
      PROVE  /\ header_id[b] = Dummy => OnList(<<0, b>>) /\ <<0, b>> \in Ids
                                        /\ Index(<<0, b>>) = b
             /\ header_id[b] # Dummy => Published(b) /\ OnList(header_id[b])
                                        /\ header_id[b] \in Ids /\ Index(header_id[b]) = b
  <2>1. b \in 0 .. MaxCount /\ b # MaxCount /\ 0 \in 0 .. GenMod - 1
    BY Sizes DEF Blocks
  <2>2. CASE header_id[b] = Dummy
    BY <2>1, <2>2, IdOf DEF OnList
  <2>3. CASE header_id[b] # Dummy
    <3>1. Published(b) /\ header_id[b] \in Ids
      BY <1>1, <2>3 DEF Published, TypeOK
    <3>2. Gen(header_id[b]) >= 1 /\ Index(header_id[b]) = b
      BY <1>1, <2>3 DEF HeadersNameBlocks
    <3>3. Gen(header_id[b]) # 0
      BY <3>1, <3>2, IdType, Sizes
    <3> QED
      BY <2>3, <3>1, <3>2, <3>3 DEF OnList
  <2> QED
    BY <2>2, <2>3
<1>6. ASSUME NEW b \in U
      PROVE  Behind(b) \in U \cup {MaxCount}
  <2>1. PICK id \in Ids : OnList(id) /\ Index(id) = b
    BY <1>5
  <2>2. Index(After(id)) = Behind(b) /\ After(id) \in Ids /\ OnList(After(id))
    BY <1>3, <2>1, WalkStep
  <2> QED
    BY <1>4, <2>2
<1>7. PICK f \in 0 .. MaxCount : \A b \in Blocks : header_id[b] = Dummy <=> b >= f
  BY FreshUpwards
(* A word on the shared list is the frontier or names a published block.   *)
<1>8. ASSUME NEW id \in Ids, Leads(id)
      PROVE  \/ Gen(id) = 0 /\ Index(id) = f
             \/ Gen(id) # 0 /\ Index(id) \in Blocks /\ Index(id) < f
                /\ header_id[Index(id)] = id
  <2>1. Index(id) \in 0 .. MaxCount /\ Gen(id) \in Nat /\ MaxCount \in Nat
    BY IdType, Sizes
  <2>2. CASE Gen(id) = 0
    <3>1. \A b \in Blocks : b >= Index(id) <=> b >= f
      BY <1>7, <2>2, <1>8 DEF Leads
    <3>2. CASE Index(id) < f
      <4>1. Index(id) \in Blocks /\ Index(id) >= Index(id) /\ ~(Index(id) >= f)
        BY <2>1, <3>2 DEF Blocks
      <4> QED
        BY <3>1, <4>1
    <3>3. CASE f < Index(id)
      <4>1. f \in Blocks /\ f >= f /\ ~(f >= Index(id))
        BY <2>1, <3>3 DEF Blocks
      <4> QED
        BY <3>1, <4>1
    <3> QED
      BY <2>1, <2>2, <3>2, <3>3
  <2>3. CASE Gen(id) # 0
    <3>1. Index(id) \in Blocks /\ header_id[Index(id)] = id /\ header_id[Index(id)] # Dummy
      BY <1>8, <2>3 DEF Leads, Published
    <3> QED
      BY <1>7, <2>1, <2>3, <3>1
  <2> QED
    BY <2>2, <2>3
<1>9. ASSUME NEW id \in Ids, Leads(id), NEW jd \in Ids, Leads(jd), Index(id) = Index(jd)
      PROVE  id = jd
  <2>1. Index(id) \in Nat /\ f \in Nat
    BY IdType, Sizes
  <2>2. id = <<Gen(id), Index(id)>> /\ jd = <<Gen(jd), Index(jd)>>
    BY IdType
  <2> QED
    BY <1>8, <1>9, <2>1, <2>2
<1>10. ASSUME NEW b \in U
       PROVE  \/ header_id[b] = Dummy /\ b >= f /\ Behind(b) = b + 1
              \/ /\ header_id[b] # Dummy /\ Published(b) /\ Behind(b) = Index(header_next[b])
                 /\ header_next[b] \in Ids /\ Leads(header_next[b]) /\ header_next[b] # a_next
                 /\ Index(header_next[b]) <= f
  <2>1. CASE header_id[b] = Dummy
    BY <1>7, <2>1 DEF Behind
  <2>2. CASE header_id[b] # Dummy
    <3>1. /\ Published(b) /\ header_next[b] \in Ids /\ Leads(header_next[b])
          /\ header_next[b] # a_next
      BY <1>1, <1>5, <2>2 DEF TypeOK, ListLeads
    <3>2. Index(header_next[b]) <= f
      BY <1>8, <3>1, IdType, Sizes
    <3> QED
      BY <2>2, <3>1, <3>2 DEF Behind
  <2> QED
    BY <2>1, <2>2
<1>11. a_next \in Ids /\ Leads(a_next) /\ Index(a_next) <= f /\ Index(a_next) \in Nat
  <2>1. a_next \in Ids /\ Leads(a_next)
    BY <1>1 DEF TypeOK, ListLeads
  <2> QED
    BY <1>8, <2>1, IdType, Sizes
<1>12. \A b \in U : b \in Nat
  BY Sizes DEF Blocks
<1>13. ASSUME NEW b \in U
       PROVE  Behind(b) # Index(a_next)
  <2>1. CASE header_id[b] = Dummy
    <3>1. b >= f /\ Behind(b) = b + 1
      BY <1>10, <2>1
    <3> QED
      BY <1>11, <1>12, <3>1
  <2>2. CASE header_id[b] # Dummy
    BY <1>9, <1>10, <1>11, <2>2
  <2> QED
    BY <2>1, <2>2
<1>14. ASSUME NEW b \in U, NEW c \in U, Behind(b) = Behind(c)
       PROVE  b = c
  <2>1. CASE header_id[b] = Dummy /\ header_id[c] = Dummy
    <3>1. b + 1 = c + 1
      BY <1>10, <1>14, <2>1
    <3> QED
      BY <1>12, <3>1
  <2>2. ASSUME NEW d \in U, NEW e \in U, header_id[d] = Dummy, header_id[e] # Dummy
        PROVE  Behind(d) # Behind(e)
    <3>1. d >= f /\ Behind(d) = d + 1 /\ Behind(e) <= f
      BY <1>10, <2>2
    <3> QED
      BY <1>12, <3>1
  <2>3. CASE header_id[b] # Dummy /\ header_id[c] # Dummy
    <3>1. /\ Published(b) /\ Published(c) /\ Leads(header_next[b]) /\ Leads(header_next[c])
          /\ header_next[b] \in Ids /\ header_next[c] \in Ids
          /\ Index(header_next[b]) = Index(header_next[c])
      BY <1>10, <1>14, <2>3
    <3>2. header_next[b] = header_next[c]
      BY <1>9, <3>1
    <3> QED
      BY <1>1, <3>1, <3>2 DEF ListLeads
  <2> QED
    BY <1>14, <2>1, <2>2, <2>3
<1>15. ASSUME NEW S \in SUBSET U, S # {}
       PROVE  \E b \in S : Behind(b) \notin S
  <2>1. CASE \A b \in S : header_id[b] # Dummy
    <3>1. \A b \in S : Published(b)
      BY <1>10, <2>1
    <3>2. PICK b \in S : Index(header_next[b]) \notin S
      BY <1>1, <1>15, <3>1 DEF ListLeads, ListEnds
    <3> QED
      BY <1>10, <2>1, <3>2
  <2>2. CASE ~(\A b \in S : header_id[b] # Dummy)
    <3> DEFINE T == {k \in Nat : MaxCount - k \in S /\ header_id[MaxCount - k] = Dummy}
    <3>1. PICK d \in S : header_id[d] = Dummy
      BY <2>2
    <3>2. \A b \in S : MaxCount - b \in Nat /\ MaxCount - (MaxCount - b) = b
      BY Sizes DEF Blocks
    <3>3. MaxCount - d \in T
      BY <3>1, <3>2
    <3>4. T \in SUBSET Nat /\ T # {}
      BY <3>3
    <3>5. PICK k \in T : \A j \in T : k <= j
      <4> HIDE DEF T
      <4> QED
        BY <3>4, Least
    <3>6. PICK b \in S : b = MaxCount - k /\ header_id[b] = Dummy
      BY <3>5
    <3>7. b >= f /\ Behind(b) = b + 1 /\ b \in Nat /\ k \in Nat
      BY <1>10, <1>12, <3>5, <3>6
    <3>8. ASSUME b + 1 \in S
          PROVE  FALSE
      <4>1. header_id[b + 1] = Dummy
        <5>1. b + 1 >= f
          BY <3>7
        <5> QED
          BY <1>7, <3>8, <5>1
      <4>2. MaxCount - (b + 1) \in T
        BY <3>2, <3>8, <4>1
      <4>3. k <= MaxCount - (b + 1)
        BY <3>5, <4>2
      <4> QED
        BY <3>6, <3>7, <4>3, Sizes
    <3> QED
      BY <3>7, <3>8
  <2> QED
    BY <2>1, <2>2
<1> QED
  BY <1>2, <1>3, <1>4, <1>6, <1>13, <1>14, <1>15

(* A block that is not free is in one place, and a free one in none but    *)
(* the list.                                                               *)
LEMMA OwnersCounted ==
  ASSUME IInv, NEW b \in Blocks
  PROVE  holders[b] + Cardinality(InLocal(b)) + Cardinality(InTransit(b))
           = IF Unowned(b) THEN 0 ELSE 1
<1>1. holders[b] \in Nat /\ OneOwner
  BY DEF IInv, TypeOK
<1>2. \A t \in Threads : t \in InTransit(b) <=> Moving(t, b)
  BY DEF Moving
<1>3. \A p \in InLocal(b) : p = <<p[1], p[2]>> /\ p[1] \in Threads /\ p[2] \in 1 .. LocalMax
  BY DEF InLocal
<1>4. \A t \in Threads, k \in 1 .. LocalMax : <<t, k>> \in InLocal(b) <=> At(t, k, b)
  <2>1. SUFFICES ASSUME NEW t \in Threads, NEW k \in 1 .. LocalMax
                 PROVE  <<t, k>> \in InLocal(b) <=> At(t, k, b)
    OBVIOUS
  <2>2. Len(local_next[t]) \in Nat /\ k \in Nat /\ k >= 1
    BY StackTypes, Sizes
  <2>3. k <= Len(local_next[t]) <=> k \in 1 .. Len(local_next[t])
    BY <2>2
  <2> QED
    BY <2>3 DEF InLocal, At
<1>5. InTransit(b) \subseteq Threads
  BY DEF InTransit
<1>6. (\A t \in Threads : ~Moving(t, b)) => Cardinality(InTransit(b)) = 0
  <2>1. (\A t \in Threads : ~Moving(t, b)) => InTransit(b) = {}
    BY <1>2, <1>5
  <2> QED
    BY <2>1, FS_EmptySet
<1>7. (\A t \in Threads, k \in 1 .. LocalMax : ~At(t, k, b)) => Cardinality(InLocal(b)) = 0
  <2>1. (\A t \in Threads, k \in 1 .. LocalMax : ~At(t, k, b)) => InLocal(b) = {}
    BY <1>3, <1>4
  <2> QED
    BY <2>1, FS_EmptySet
<1>8. CASE Unowned(b)
  BY <1>6, <1>7, <1>8 DEF Unowned
<1>9. CASE ~Unowned(b) /\ holders[b] = 1
  <2>1. \A t \in Threads : ~Moving(t, b) /\ \A k \in 1 .. LocalMax : ~At(t, k, b)
    BY <1>1, <1>9 DEF OneOwner
  <2> QED
    BY <1>6, <1>7, <1>9, <2>1
<1>10. CASE ~Unowned(b) /\ holders[b] # 1
  <2>1. holders[b] = 0
    BY <1>1, <1>10 DEF OneOwner
  <2>2. CASE \E t \in Threads : Moving(t, b)
    <3>1. PICK t \in Threads : Moving(t, b)
      BY <2>2
    <3>2. /\ \A u \in Threads : Moving(u, b) => u = t
          /\ \A u \in Threads, k \in 1 .. LocalMax : ~At(u, k, b)
      BY <1>1, <3>1 DEF OneOwner
    <3>3. InTransit(b) = {t}
      BY <1>2, <1>5, <3>1, <3>2
    <3>4. Cardinality(InTransit(b)) = 1
      BY <3>3, FS_Singleton
    <3> QED
      BY <1>7, <1>10, <2>1, <3>2, <3>4
  <2>3. CASE ~ \E t \in Threads : Moving(t, b)
    <3>1. PICK t \in Threads, k \in 1 .. LocalMax : At(t, k, b)
      BY <1>10, <2>1, <2>3 DEF Unowned
    <3>2. \A u \in Threads, j \in 1 .. LocalMax : At(u, j, b) => u = t /\ j = k
      BY <1>1, <3>1 DEF OneOwner
    <3>3. InLocal(b) = {<<t, k>>}
      <4>1. ASSUME NEW p \in InLocal(b)
            PROVE  p = <<t, k>>
        BY <1>3, <1>4, <3>2
      <4> QED
        BY <1>4, <3>1, <4>1
    <3>4. Cardinality(InLocal(b)) = 1
      BY <3>3, FS_Singleton
    <3> QED
      BY <1>6, <1>10, <2>1, <2>3, <3>4
  <2> QED
    BY <2>2, <2>3
<1> QED
  BY <1>8, <1>9, <1>10

(* However the threads interleave, every block is in exactly one place - a *)
(* user's hands, a local stack, the hands of a thread that frees it, or    *)
(* the free list - and a walk over the free list ends after as many blocks *)
(* as are free: no block is lost, and no list has a cycle.                 *)
THEOREM NoBlockLost ==
  ASSUME WholeLinks
  PROVE  Spec => []EveryBlockOnce
<1>1. IInv => EveryBlockOnce
  <2> SUFFICES ASSUME IInv PROVE EveryBlockOnce
    OBVIOUS
  <2> DEFINE U == {b \in Blocks : Unowned(b)}
             at == [n \in 0 .. MaxCount |-> Index(Walk[n])]
             next == [b \in U |-> Behind(b)]
  <2>1. /\ IsFiniteSet(U) /\ Cardinality(U) <= MaxCount /\ MaxCount \notin U
        /\ \A id \in Ids : OnList(id) => Index(id) \in U \cup {MaxCount}
        /\ \A b \in U : Behind(b) \in U \cup {MaxCount} /\ Behind(b) # Index(a_next)
        /\ \A b, c \in U : Behind(b) = Behind(c) => b = c
        /\ \A S \in SUBSET U : S # {} => \E b \in S : Behind(b) \notin S
    <3> HIDE DEF U
    <3>1. U = {b \in Blocks : Unowned(b)}
      BY DEF U
    <3> QED
      BY <3>1, FreeList
  <2> HIDE DEF U
  <2>2. MaxCount \in Nat /\ 0 \in 0 .. MaxCount
        /\ \A n \in 1 .. MaxCount : n \in 0 .. MaxCount /\ n - 1 \in 0 .. MaxCount
    BY Sizes
  <2>3. /\ Walk[0] = a_next
        /\ \A n \in 0 .. MaxCount : Walk[n] \in Ids /\ OnList(Walk[n])
        /\ \A n \in 1 .. MaxCount : Walk[n] = After(Walk[n - 1])
    BY WalkIs
  <2>4. \A n \in 0 .. MaxCount : at[n] = Index(Walk[n]) /\ at[n] \in U \cup {MaxCount}
    BY <2>1, <2>3
  <2>5. at \in [0 .. MaxCount -> U \cup {MaxCount}] /\ at[0] = Index(a_next)
        /\ Index(a_next) \in U \cup {MaxCount}
    BY <2>2, <2>3, <2>4
  <2>6. next \in [U -> U \cup {MaxCount}] /\ \A b \in U : next[b] = Behind(b)
    BY <2>1
  <2>7. ASSUME NEW n \in 1 .. MaxCount
        PROVE  at[n] = IF at[n - 1] = MaxCount THEN MaxCount ELSE next[at[n - 1]]
    <3>1. PICK id \in Ids : id = Walk[n - 1] /\ OnList(id) /\ Walk[n] = After(id)
      BY <2>2, <2>3
    <3>2. at[n] = Index(After(id)) /\ at[n - 1] = Index(id)
      BY <2>2, <2>4, <3>1
    <3>3. CASE Index(id) = MaxCount
      BY <3>2, <3>3 DEF After
    <3>4. CASE Index(id) # MaxCount
      <4>1. Index(After(id)) = Behind(Index(id))
        BY <3>1, <3>4, WalkStep
      <4>2. Index(id) \in U
        BY <2>1, <3>1, <3>4
      <4> QED
        BY <2>6, <3>2, <3>4, <4>1, <4>2
    <3> QED
      BY <3>3, <3>4
  <2> HIDE DEF at, next
  <2>8. /\ {at[n] : n \in 0 .. MaxCount} \ {MaxCount} = U
        /\ Cardinality(U) \in 0 .. MaxCount /\ at[Cardinality(U)] = MaxCount
    <3>1. /\ \A b, c \in U : next[b] = next[c] => b = c
          /\ \A b \in U : next[b] # Index(a_next)
          /\ \A S \in SUBSET U : S # {} => \E b \in S : next[b] \notin S
      BY <2>1, <2>6
    <3> QED
      BY <2>1, <2>2, <2>5, <2>6, <2>7, <3>1, WalkVisitsAll
  <2>9. FreeBlocks = U
    <3>1. {Index(Walk[n]) : n \in 0 .. MaxCount} = {at[n] : n \in 0 .. MaxCount}
      BY <2>4
    <3> QED
      BY <2>8, <3>1 DEF FreeBlocks
  <2>10. Index(Walk[Cardinality(FreeBlocks)]) = MaxCount
    BY <2>4, <2>8, <2>9
  <2>11. ASSUME NEW b \in Blocks
         PROVE  Places(b) = 1
    <3>1. b \in FreeBlocks <=> Unowned(b)
      BY <2>9 DEF U
    <3>2. holders[b] + Cardinality(InLocal(b)) + Cardinality(InTransit(b))
            = IF Unowned(b) THEN 0 ELSE 1
      BY OwnersCounted
    <3> QED
      BY <3>1, <3>2 DEF Places
  <2> QED
    BY <2>10, <2>11 DEF EveryBlockOnce
<1> QED
  BY <1>1, Invariance, PTL
===============================================================================
