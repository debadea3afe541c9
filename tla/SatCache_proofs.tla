---------------------------- MODULE SatCache_proofs ----------------------------
(***************************************************************************)
(* Proofs about SatCache: at every step of every interleaving each slot of *)
(* the pool is in one place, and between two ticks the bits of the last    *)
(* tick are those of the caches in the map.                                *)
(*                                                                         *)
(* The invariant IInv has a part for what the threads share and a part for *)
(* each thread (ThreadInv). Shared: no two pointers lead to the same node  *)
(* (Separate), a marked node has a thread that removes it, the tag of a    *)
(* pointer on a stack is that of the last push of its slot. Of a thread:   *)
(* what the words that it has read still say about the map or the stack    *)
(* (Fresh, Ahead, PopInv), above all that a tag which has not moved means  *)
(* that nothing has; that is why the exchanges are safe.                   *)
(*                                                                         *)
(* The proof is one of rely and guarantee: Rely(u) bounds what a step of   *)
(* thread u does to the words that the others may have read, OthersKept    *)
(* shows that the others then keep what they know. So there is one lemma   *)
(* per action: it shows that the step keeps to Rely(u), and that u knows   *)
(* what it should at its next place.                                       *)
(*                                                                         *)
(* In this order: lists of slots, as sets ahead of a pointer; the lists of *)
(* a state and how a link, an unlink, a push and a pop change them; Rely   *)
(* and what the others keep; the steps of a search, of an addition, of a   *)
(* removal, of a pop and a push; the calls and returns; the tick; the      *)
(* theorems that follow from IInv; the refinement of KeyMap; the memory of *)
(* the pool (PoolInv).                                                     *)
(***************************************************************************)
EXTENDS SatCache, CommonLemmas

(***************************************************************************)
(* The inductive invariant.                                                *)
(***************************************************************************)
SearchPcs == {"follow", "check", "unlink", "compare", "recheck"}
ReadPcs == {"check", "compare", "recheck"}
GrowPcs == {"length", "lock", "grow", "unlock"}
AddPcs == GrowPcs \cup {"pop", "under", "take", "increment", "set_key", "store", "link", "added"}
RemovePcs == SearchPcs \cup {"mark", "bypass", "look", "push", "release"}

Pointers == Slots \cup {None}
Nodes == Buckets \cup Slots
Calls == {NoCall} \cup [op : Ops, key : Keys]

(* The words of the map and of the stacks.                                 *)
WordTypes ==
  /\ link \in [Nodes -> Words] /\ key \in [Slots -> Keys \cup {None}]
  /\ a_head \in [Threads -> Tops] /\ tag \in [Slots -> Nat] /\ tail \in [Slots -> Tops]

Fields == {"pc", "pair", "slot", "prev", "sprev", "scur", "hit", "marked", "again",
           "from", "top", "under", "tries", "tag", "head"}
LocalTypes(t) ==
  LET v == local[t]
  IN /\ DOMAIN v = Fields
     /\ v.pc \in {"idle", "task"} \cup AddPcs \cup RemovePcs
     /\ v.pair \in Keys \cup {None} /\ v.slot \in Pointers /\ v.prev \in Nodes \cup {None}
     /\ v.sprev \in Words /\ v.scur \in Words
     /\ v.hit \in BOOLEAN /\ v.marked \in BOOLEAN /\ v.again \in BOOLEAN
     /\ v.from \in Threads \cup {None} /\ v.top \in Tops /\ v.under \in Tops
     /\ v.tries \in Nat /\ v.tag \in Nat /\ v.head \in Words

(* What a call may be doing at each place.                                 *)
Busy(t) == call[t] # NoCall
CallTypes(t) ==
  /\ call[t] \in Calls /\ result[t] \in Pointers
  /\ (At(t, "idle") \/ At(t, "task")) = ~Busy(t)
  /\ call[t].op = "lookup" => local[t].pc \in SearchPcs
  /\ call[t].op = "add" => local[t].pc \in AddPcs
  /\ call[t].op = "remove" => local[t].pc \in RemovePcs

ThreadTypes ==
  /\ DOMAIN local = Threads /\ DOMAIN call = Threads /\ DOMAIN result = Threads
  /\ \A t \in Threads : LocalTypes(t) /\ CallTypes(t)

OtherTypes ==
  /\ client \in {"ticks", "calls"} /\ phase \in {"quiet", "tasks", "manage"}
  /\ a_count_max \in 0 .. MaxSlots /\ a_length \in Nat /\ a_adding_memory \in BOOLEAN
  /\ calls \in Nat /\ ticks \in Nat
  /\ todo \in SUBSET Keys /\ output \in SUBSET Slots
  /\ bit_count \in Nat /\ persistent \in SUBSET Slots /\ stale \in SUBSET Slots

MapTypes ==
  /\ map \in [Keys -> Pointers]
  /\ seen \in [Threads -> SUBSET Pointers]

(* A key has one writer.                                                   *)
Writer(t) == call[t].op \in {"add", "remove"}
WriterInv ==
  \A t, u \in Threads : Writer(t) /\ Writer(u) /\ t # u => call[t].key # call[u].key

(* No two pointers lead to the same node: first are the places where the   *)
(* lists start, next the links of the nodes in S.                          *)
Separate(first, next, S) ==
  /\ \A q, r \in DOMAIN first : first[q] = first[r] /\ first[q] # None => q = r
  /\ \A q \in DOMAIN first, s \in S : next[s] = first[q] => first[q] = None
  /\ \A s, z \in S : next[s] = next[z] /\ next[s] # None => s = z

FirstNode == [b \in Buckets |-> link[b].next]
FirstFree == [u \in Threads |-> a_head[u].at]
AllFree == UNION {Free(u) : u \in Threads}

(* The lists of the map: their nodes hash to the bucket, and a marked node *)
(* has the remover that marked it.                                         *)
Remover(u, s) == call[u].op = "remove" /\ local[u].marked /\ local[u].slot = s
ListInv ==
  /\ Separate(FirstNode, NextNode, Chained)
  /\ \A b \in Buckets :
       /\ ~link[b].marked
       /\ \A s \in Reach(b) : key[s] \in Keys /\ Hash[key[s]] = b
  /\ \A s \in Chained : link[s].marked => \E u \in Threads : Remover(u, s)

(* m is what the unmarked nodes hold.                                      *)
Holds(k, s) == s \in Reach(Hash[k]) /\ ~link[s].marked /\ key[s] = k
MapIs(m) ==
  /\ \A s \in Chained : ~link[s].marked => m[key[s]] = s
  /\ \A k \in Keys : m[k] # None => Holds(k, m[k])

(* The stacks: a pointer has the tag of the push of its slot.              *)
StackInv ==
  /\ Separate(FirstFree, NextFree, AllFree)
  /\ \A u \in Threads : a_head[u].at # None => a_head[u].tag = tag[a_head[u].at]
  /\ \A s \in AllFree : tail[s].at # None => tail[s].tag = tag[tail[s].at]

(* Where the slots are, and that they have memory.                         *)
AccountInv ==
  /\ AllFree \cap Chained = {}
  /\ \A t \in Threads :
       /\ Hands(t) \cap (AllFree \cup Chained) = {}
       /\ \A u \in Threads : t # u => Hands(t) \cap Hands(u) = {}
  /\ \A s \in Slots :
       s < a_count_max <=> s \in AllFree \/ s \in Chained \/ \E t \in Threads : s \in Hands(t)
  /\ \A s \in Slots : s < a_count_max =>
       s < a_length \/ \E t \in Threads : local[t].pc \in GrowPcs /\ local[t].slot = s

(* w was the word of n when n was in the list of b, and will be no more    *)
(* when that has changed.                                                  *)
On(n, b) == n = b \/ n \in Reach(b)
Fresh(n, w, b) ==
  /\ n \in Nodes /\ ~w.marked /\ w.tag <= link[n].tag
  /\ w.tag = link[n].tag => w = link[n] /\ On(n, b)

(* A search: what it knows of the word of prev, and of that of the node    *)
(* after it if prev has not moved.                                         *)
Still(t) == link[local[t].prev] = local[t].sprev
SearchInv(t) ==
  LET v == local[t]
      b == Hash[call[t].key]
      c == v.sprev.next
  IN /\ v.pc \in SearchPcs \cup {"mark", "bypass"} => Fresh(v.prev, v.sprev, b)
     /\ v.pc \in {"check", "unlink", "compare", "recheck", "mark", "bypass"} => c # None
     /\ v.pc \in {"check", "unlink", "compare", "recheck"} /\ Still(t) =>
          IF v.scur.marked THEN v.scur = link[c] ELSE Fresh(c, v.scur, b)
     /\ v.pc = "unlink" => v.scur.marked
     /\ v.pc \in {"compare", "recheck"} => ~v.scur.marked
     /\ v.pc = "recheck" /\ Still(t) => v.hit = (key[c] = call[t].key)

(* What a search must not miss: the slot to remove, and what a lookup has  *)
(* seen from its start.                                                    *)
Target(t, s) ==
  \/ call[t].op = "remove" /\ s = local[t].slot /\ s \in Chained
  \/ call[t].op = "lookup" /\ None \notin seen[t] /\ s = map[call[t].key]

After(n) == Walk(NextNode, link[n].next)
Ahead(n, w, s) == w.next # None /\ (link[n] = w => s \in After(n))

CompleteInv(t) ==
  LET v == local[t]
      c == v.sprev.next
  IN \A s \in Slots : Target(t, s) =>
       /\ v.pc \in SearchPcs => Ahead(v.prev, v.sprev, s)
       /\ v.pc \in ReadPcs /\ Still(t) /\ ~v.scur.marked =>
            IF s = c THEN ~v.marked ELSE Ahead(c, v.scur, s)

(* A lookup returns what it has seen.                                      *)
LookupInv(t) ==
  LET v == local[t]
      c == v.sprev.next
  IN call[t].op = "lookup" =>
       /\ ~v.marked /\ map[call[t].key] \in seen[t]
       /\ v.pc \in ReadPcs /\ Still(t) /\ ~v.scur.marked /\ key[c] = call[t].key => c \in seen[t]

(* A removal, until and after it has marked its node.                      *)
RemoveInv(t) ==
  LET v == local[t]
      k == call[t].key
      c == v.sprev.next
  IN call[t].op = "remove" =>
       /\ v.slot \in Slots /\ key[v.slot] = k
       /\ ~v.marked => map[k] = v.slot /\ ~v.again
       /\ v.marked => map[k] = None /\ link[v.slot].marked
       /\ v.pc \in {"bypass", "look", "push", "release"} => v.marked
       /\ v.pc = "mark" =>
            ~v.marked /\ Fresh(c, v.scur, Hash[k]) /\ (link[c] = v.scur => key[c] = k)
       /\ v.pc = "bypass" =>
            c = v.slot /\ link[c] = [tag |-> v.scur.tag + 1, marked |-> TRUE, next |-> v.scur.next]
       /\ v.pc \in {"push", "release"} => v.slot \notin Chained

(* An addition; the word of its node is not yet linked.                    *)
AddInv(t) ==
  LET v == local[t]
      k == call[t].key
  IN call[t].op = "add" =>
       /\ ~v.marked
       /\ map[k] = IF v.pc = "added" THEN v.slot ELSE None
       /\ v.pc \in GrowPcs \cup {"set_key", "store", "link", "added"} => v.slot \in Slots
       /\ v.pc \in {"store", "link", "added"} => key[v.slot] = k
       /\ v.pc \in {"store", "link"} => link[v.slot].tag <= v.tag
       /\ v.pc = "link" => link[v.slot] = [tag |-> v.tag, marked |-> FALSE, next |-> v.head.next]

(* A pop: the tag tells the pushes of a slot apart.                        *)
PopInv(t) ==
  LET v == local[t]
      s == v.top.at
  IN /\ v.pc \in {"pop", "under", "take"} => v.from \in Threads
     /\ v.pc \in {"under", "take"} =>
          /\ s # None /\ v.top.tag <= tag[s]
          /\ v.top.tag = tag[s] => \A u \in Threads : ~(At(u, "release") /\ local[u].slot = s)
     /\ v.pc = "take" /\ s \in AllFree /\ v.top.tag = tag[s] => tail[s] = v.under

ThreadInv(t) ==
  SearchInv(t) /\ CompleteInv(t) /\ LookupInv(t) /\ RemoveInv(t) /\ AddInv(t) /\ PopInv(t)

(* The tick: its pairs are taken once, and the bits follow the map.        *)
Pairs(t) == IF Busy(t) THEN {call[t].key} ELSE IF At(t, "task") THEN {local[t].pair} ELSE {}
Linked(s) == \E t \in Threads : At(t, "added") /\ local[t].slot = s
Removed(s) == \E t \in Threads : call[t].op = "remove" /\ local[t].slot = s

QuietInv == (\A t \in Threads : At(t, "idle")) /\ persistent = Chained /\ persistent = output

TasksInv ==
  /\ \A t \in Threads :
       /\ call[t].op # "remove" /\ Pairs(t) \cap todo = {}
       /\ \A u \in Threads : t # u => Pairs(t) \cap Pairs(u) = {}
       /\ At(t, "task") => local[t].pair \in Keys /\ map[local[t].pair] = None
       /\ call[t].op = "lookup" /\ None \in seen[t] => map[call[t].key] = None
  /\ \A s \in Slots : s \in Chained <=> s \in persistent \/ s \in output \/ Linked(s)

ManageInv ==
  /\ \A t \in Threads : (t # Main => At(t, "idle")) /\ call[t].op \notin {"lookup", "add"}
  /\ output \subseteq Chained /\ stale \subseteq Chained /\ stale \subseteq persistent
  /\ \A s \in Slots :
       /\ s \in Chained => s \in output \/ s \in stale \/ Removed(s)
       /\ ~(s \in stale /\ s \in output)
       /\ Removed(s) => s \notin stale /\ s \notin output

TickInv ==
  /\ phase # "quiet" => client = "ticks"
  /\ phase # "tasks" => todo = {} /\ \A t \in Threads : ~At(t, "task")
  /\ phase # "manage" => stale = {}
  /\ client = "ticks" =>
       /\ phase = "quiet" => QuietInv
       /\ phase = "tasks" => TasksInv
       /\ phase = "manage" => ManageInv
       /\ \A s \in Slots : s \in persistent \/ s \in AllFree \/ Removed(s) => s < bit_count

Types == WordTypes /\ ThreadTypes /\ OtherTypes /\ MapTypes
IInv ==
  /\ Types /\ WriterInv /\ ListInv /\ MapIs(map) /\ StackInv /\ AccountInv /\ TickInv
  /\ \A t \in Threads : ThreadInv(t)

(***************************************************************************)
(* Lists of slots.                                                         *)
(***************************************************************************)

(* The slots that next leads to from x: the members of every set that has  *)
(* x and is closed under next.                                             *)
Leads(next, x, C) ==
  C \in SUBSET Slots /\ x \in C \cup {None} /\ \A z \in C : next[z] \in C \cup {None}
From(next, x) == {s \in Slots : \A C \in SUBSET Slots : Leads(next, x, C) => s \in C}

(* Numbers: None is no slot, and there are MaxSlots slots.                 *)
LEMMA SlotFacts ==
  None \notin Slots /\ IsFiniteSet(Slots) /\ Cardinality(Slots) = MaxSlots /\ Slots \in SUBSET Nat
<1>2. IsFiniteSet(0 .. MaxSlots - 1) /\ Cardinality(0 .. MaxSlots - 1) = MaxSlots
  <2>1. CASE MaxSlots = 0
    <3>1. 0 .. MaxSlots - 1 = {}
      BY <2>1
    <3> QED
      BY <2>1, <3>1, FS_EmptySet
  <2>2. CASE MaxSlots # 0
    <3>1. 0 \in Int /\ MaxSlots - 1 \in Int /\ ~(0 > MaxSlots - 1) /\ MaxSlots - 1 - 0 + 1 = MaxSlots
      BY <2>2, CacheAssumption
    <3>2. IsFiniteSet(0 .. MaxSlots - 1) /\ Cardinality(0 .. MaxSlots - 1) = MaxSlots - 1 - 0 + 1
      BY <3>1, FS_Interval, Zenon
    <3> QED
      BY <3>1, <3>2
  <2> QED
    BY <2>1, <2>2
<1> QED
  BY <1>2, CacheAssumption DEF Slots, None

(* From is the least such set.                                             *)
LEMMA FromLeast ==
  ASSUME NEW next \in [Slots -> Pointers], NEW x \in Pointers
  PROVE  Leads(next, x, From(next, x)) /\ \A C : Leads(next, x, C) => From(next, x) \subseteq C
  BY SlotFacts DEF Leads, From, Pointers

(* Nothing lies ahead of the end of a list.                                *)
LEMMA FromNone ==
  ASSUME NEW next \in [Slots -> Pointers]
  PROVE  From(next, None) = {}
<1>1. Leads(next, None, {})
  BY DEF Leads
<1> QED
  BY <1>1 DEF From

(* What lies ahead of a slot ahead of x lies ahead of x.                   *)
LEMMA FromWithin ==
  ASSUME NEW next \in [Slots -> Pointers], NEW x \in Pointers, NEW y \in From(next, x)
  PROVE  From(next, y) \subseteq From(next, x)
  BY SlotFacts DEF Leads, From, Pointers

(* A slot comes first, then what lies ahead of its successor.              *)
LEMMA FromStep ==
  ASSUME NEW next \in [Slots -> Pointers], NEW x \in Slots
  PROVE  From(next, x) = {x} \cup From(next, next[x])
<1> DEFINE C == {x} \cup From(next, next[x])
<1>1. x \in Pointers /\ next[x] \in Pointers
  BY DEF Pointers
<1>2. Leads(next, next[x], From(next, next[x])) /\ Leads(next, x, From(next, x))
  BY <1>1, FromLeast
<1>3. Leads(next, x, C)
  BY <1>1, <1>2 DEF Leads
<1>4. From(next, x) \subseteq C
  BY <1>1, <1>3, FromLeast
<1>5. x \in From(next, x)
  BY <1>2, SlotFacts DEF Leads
<1>6. Leads(next, next[x], From(next, x))
  BY <1>2, <1>5 DEF Leads
<1>7. From(next, next[x]) \subseteq From(next, x)
  BY <1>1, <1>6, FromLeast
<1> QED
  BY <1>4, <1>5, <1>7

(* What lies ahead of x depends on the links of what lies ahead of it.     *)
LEMMA FromSame ==
  ASSUME NEW next \in [Slots -> Pointers], NEW other \in [Slots -> Pointers], NEW x \in Pointers,
         \A s \in From(next, x) : other[s] = next[s]
  PROVE  From(other, x) = From(next, x)
<1>1. Leads(next, x, From(next, x)) /\ Leads(other, x, From(other, x))
  BY FromLeast
<1>2. Leads(other, x, From(next, x))
  BY <1>1 DEF Leads
<1>3. From(other, x) \subseteq From(next, x)
  BY <1>2, FromLeast
<1>4. Leads(next, x, From(other, x))
  BY <1>1, <1>3 DEF Leads
<1>5. From(next, x) \subseteq From(other, x)
  BY <1>4, FromLeast
<1> QED
  BY <1>3, <1>5

-------------------------------------------------------------------------------
(* The slots of the lists that start at first.                             *)
Members(first, next) == UNION {From(next, first[r]) : r \in DOMAIN first}
Lists(first, next) == Separate(first, next, Members(first, next))

(* Two lists have no slot in common.                                       *)
LEMMA ListsApart ==
  ASSUME NEW R, NEW first \in [R -> Pointers], NEW next \in [Slots -> Pointers],
         Lists(first, next), NEW q \in R, NEW r \in R, q # r
  PROVE  From(next, first[q]) \cap From(next, first[r]) = {}
<1> DEFINE A == From(next, first[q])
           B == From(next, first[r])
           C == B \ A
<1>1. first[q] \in Pointers /\ first[r] \in Pointers
  OBVIOUS
<1>2. Leads(next, first[q], A) /\ Leads(next, first[r], B)
  BY <1>1, FromLeast
<1>3. A \subseteq Members(first, next) /\ B \subseteq Members(first, next)
  BY DEF Members
<1>4. \A z \in A : z = first[q] \/ \E y \in A : next[y] = z
  <2> SUFFICES ASSUME NEW z \in A, z # first[q], \A y \in A : next[y] # z
               PROVE  FALSE
    OBVIOUS
  <2>1. Leads(next, first[q], A \ {z})
    BY <1>2 DEF Leads
  <2> QED
    BY <1>1, <2>1, FromLeast
<1> USE DEF Lists, Separate
<1>5. first[r] \in C \cup {None}
  <2>1. ASSUME first[r] \in A PROVE FALSE
    <3>1. first[r] # None
      BY <1>2, <2>1, SlotFacts DEF Leads
    <3> QED
      BY <1>3, <1>4, <2>1, <3>1
  <2> QED
    BY <1>2, <2>1 DEF Leads
<1>6. ASSUME NEW z \in C PROVE next[z] \in C \cup {None}
  <2>1. ASSUME next[z] \in A PROVE FALSE
    <3>1. next[z] # None
      BY <1>2, <2>1, SlotFacts DEF Leads
    <3>2. next[z] # first[q]
      BY <1>3, <3>1
    <3>3. PICK y \in A : next[y] = next[z]
      BY <1>4, <2>1, <3>2
    <3> QED
      BY <1>3, <3>1, <3>3
  <2> QED
    BY <1>2, <2>1 DEF Leads
<1>7. Leads(next, first[r], C)
  BY <1>2, <1>5, <1>6 DEF Leads
<1> QED
  BY <1>1, <1>7, FromLeast

(* A list does not lead back to a slot.                                    *)
LEMMA NoCycle ==
  ASSUME NEW R, NEW first \in [R -> Pointers], NEW next \in [Slots -> Pointers],
         Lists(first, next), NEW c \in Members(first, next)
  PROVE  c \notin From(next, next[c])
<1> DEFINE M == Members(first, next)
<1>1. PICK r \in R : c \in From(next, first[r])
  BY DEF Members
<1> DEFINE A == From(next, first[r])
           S == {s \in A : s \in From(next, next[s])}
           C == A \ S
<1>2. first[r] \in Pointers /\ Leads(next, first[r], A) /\ A \subseteq M
  BY FromLeast DEF Members
<1>3. \A s \in A : s \in Slots /\ next[s] \in Pointers
  BY <1>2 DEF Leads
<1> USE DEF Lists, Separate
<1>4. ASSUME NEW s \in S
      PROVE  \E z \in S : next[z] = s
  <2>1. From(next, s) = {s} \cup From(next, next[s])
    BY <1>3, FromStep
  <2> DEFINE F == From(next, next[s])
  <2>2. Leads(next, next[s], F) /\ next[s] \in Pointers
    BY <1>3, FromLeast
  <2>3. next[s] = s \/ \E z \in F : next[z] = s
    <3> SUFFICES ASSUME next[s] # s, \A z \in F : next[z] # s PROVE FALSE
      OBVIOUS
    <3>1. Leads(next, next[s], F \ {s})
      BY <2>2 DEF Leads
    <3>2. F \subseteq F \ {s}
      BY <2>2, <3>1, FromLeast
    <3> QED
      BY <3>2
  <2>4. PICK z \in F : next[z] = s
    BY <2>3
  <2>5. s \in Pointers /\ s \in A /\ From(next, s) \subseteq A
    BY <1>2, <1>3, FromWithin DEF Pointers
  <2>6. z \in A /\ z \in From(next, next[z])
    BY <2>1, <2>4, <2>5
  <2> QED
    BY <2>4, <2>6
<1>5. first[r] \in C \cup {None}
  <2>1. ASSUME first[r] \in S PROVE FALSE
    <3>1. PICK z \in S : next[z] = first[r]
      BY <1>4, <2>1
    <3>2. first[r] = None
      BY <1>2, <3>1
    <3> QED
      BY <1>3, <2>1, <3>2, SlotFacts
  <2> QED
    BY <1>2, <2>1 DEF Leads
<1>6. ASSUME NEW x \in C PROVE next[x] \in C \cup {None}
  <2>1. ASSUME next[x] \in S PROVE FALSE
    <3>1. PICK z \in S : next[z] = next[x]
      BY <1>4, <2>1
    <3>2. next[x] # None
      BY <1>3, <2>1, SlotFacts
    <3> QED
      BY <1>2, <3>1, <3>2
  <2> QED
    BY <1>2, <2>1 DEF Leads
<1>7. Leads(next, first[r], C)
  BY <1>2, <1>5, <1>6 DEF Leads
<1>8. A \subseteq C
  BY <1>2, <1>7, FromLeast
<1> QED
  BY <1>1, <1>8

ListsOver(R, first, next) ==
  first \in [R -> Pointers] /\ next \in [Slots -> Pointers] /\ Lists(first, next)

(* A slot is put at the front of a list.                                   *)
Put(R, first, next, r, s, after) ==
  /\ ListsOver(R, after, next)
  /\ Members(after, next) = Members(first, next) \cup {s}
  /\ From(next, after[r]) = From(next, first[r]) \cup {s}
  /\ \A q \in R \ {r} : From(next, after[q]) = From(next, first[q])
(* A slot that is on no list, and points to the old front of r, is put at  *)
(* the front of r: the other lists stay, nothing is linked twice.          *)
LEMMA PushLists ==
  ASSUME NEW R, NEW first, NEW next, ListsOver(R, first, next),
         NEW r \in R, NEW s \in Slots, s \notin Members(first, next),
         next[s] = first[r], NEW after, after = [first EXCEPT ![r] = s]
  PROVE  Put(R, first, next, r, s, after)
<1>0. first \in [R -> Pointers] /\ next \in [Slots -> Pointers] /\ Lists(first, next)
  BY DEF ListsOver
<1> USE <1>0
<1>1. after \in [R -> Pointers] /\ after[r] = s /\ \A q \in R \ {r} : after[q] = first[q]
  BY DEF Pointers
<1>2. From(next, after[r]) = From(next, first[r]) \cup {s}
  BY <1>1, FromStep
<1>3. Members(after, next) = Members(first, next) \cup {s}
  <2>1. Members(after, next) \subseteq Members(first, next) \cup {s}
    <3>1. \A q \in R : From(next, after[q]) \subseteq Members(first, next) \cup {s}
      BY <1>1, <1>2 DEF Members
    <3> QED
      BY <1>1, <3>1 DEF Members
  <2>2. Members(first, next) \cup {s} \subseteq Members(after, next)
    <3>1. \A q \in R : From(next, first[q]) \subseteq From(next, after[q])
      BY <1>1, <1>2
    <3> QED
      BY <1>1, <1>2, <3>1 DEF Members
  <2> QED
    BY <2>1, <2>2
<1>4. (\A z \in Members(first, next) : next[z] # s) /\ \A q \in R : first[q] # s
  <2>1. ASSUME NEW q \in R
        PROVE  /\ first[q] \in Members(first, next) \cup {None}
               /\ \A z \in From(next, first[q]) : next[z] \in Members(first, next) \cup {None}
    <3>1. Leads(next, first[q], From(next, first[q])) /\ From(next, first[q]) \subseteq Members(first, next)
      <4>1. first[q] \in Pointers
        OBVIOUS
      <4> QED
        BY <4>1, FromLeast DEF Members
    <3> QED
      BY <3>1 DEF Leads
  <2>2. s # None
    BY SlotFacts
  <2> QED
    BY <2>1, <2>2 DEF Members
<1>5. Lists(after, next)
  <2> DEFINE M == Members(first, next)
  <2>0. Members(after, next) = M \cup {s} /\ Separate(first, next, M) /\ s \notin M
    BY <1>3 DEF Lists
  <2>1. \A p, q \in R : after[p] = after[q] /\ after[p] # None => p = q
    <3>1. \A p, q \in R : first[p] = first[q] /\ first[p] # None => p = q
      BY <2>0 DEF Separate
    <3> QED
      BY <1>1, <1>4, <3>1
  <2>2. \A q \in R, z \in M \cup {s} : next[z] = after[q] => after[q] = None
    <3> SUFFICES ASSUME NEW q \in R, NEW z \in M \cup {s}, next[z] = after[q], after[q] # None
                 PROVE  FALSE
      OBVIOUS
    <3>1. CASE q = r
      <4>1. next[z] = s /\ z = s
        BY <1>1, <1>4, <3>1
      <4>2. first[r] = s
        BY <4>1
      <4> QED
        BY <4>2, FromStep DEF Members
    <3>2. CASE q # r
      <4>1. after[q] = first[q] /\ first[q] # None
        BY <1>1, <3>2
      <4>2. z = s
        BY <2>0, <4>1 DEF Separate
      <4>3. first[r] = first[q]
        BY <4>1, <4>2
      <4> QED
        BY <2>0, <3>2, <4>1, <4>3 DEF Separate
    <3> QED
      BY <3>1, <3>2
  <2>3. \A y, z \in M \cup {s} : next[y] = next[z] /\ next[y] # None => y = z
    <3>1. \A z \in M : next[z] = next[s] => next[s] = None
      BY <2>0 DEF Separate
    <3> QED
      BY <2>0, <3>1 DEF Separate
  <2>4. DOMAIN after = R
    BY <1>1
  <2>5. Separate(after, next, M \cup {s})
    <3> HIDE DEF M
    <3> QED
      BY <2>1, <2>2, <2>3, <2>4 DEF Separate
  <2> QED
    BY <2>0, <2>5 DEF Lists
<1> QED
  BY <1>1, <1>2, <1>3, <1>5 DEF Put, ListsOver

(* The first slot of a list is taken out.                                  *)
Taken(R, first, next, c, after) ==
  /\ ListsOver(R, after, next)
  /\ Members(after, next) = Members(first, next) \ {c}
  /\ \A q \in R : From(next, after[q]) = From(next, first[q]) \ {c}
(* The front of r is taken out: all other slots stay on their lists.       *)
LEMMA PopLists ==
  ASSUME NEW R, NEW first, NEW next, ListsOver(R, first, next), NEW r \in R, NEW c \in Slots,
         first[r] = c, NEW after, after = [first EXCEPT ![r] = next[c]]
  PROVE  Taken(R, first, next, c, after)
<1>0. first \in [R -> Pointers] /\ next \in [Slots -> Pointers] /\ Lists(first, next)
  BY DEF ListsOver
<1> USE <1>0
<1> DEFINE M == Members(first, next)
<1>1. after \in [R -> Pointers] /\ after[r] = next[c] /\ \A q \in R \ {r} : after[q] = first[q]
  OBVIOUS
<1>2. From(next, c) = {c} \cup From(next, next[c])
  BY FromStep
<1>3. c \in M
  BY <1>2 DEF Members
<1>4. c \notin From(next, next[c])
  BY <1>3, NoCycle
<1>5. \A q \in R \ {r} : c \notin From(next, first[q])
  <2> SUFFICES ASSUME NEW q \in R \ {r} PROVE c \notin From(next, first[q])
    OBVIOUS
  <2>1. From(next, first[q]) \cap From(next, first[r]) = {}
    BY ListsApart
  <2> QED
    BY <1>2, <2>1
<1>6. \A q \in R : From(next, after[q]) = From(next, first[q]) \ {c}
  BY <1>1, <1>2, <1>4, <1>5
<1>7. Members(after, next) = M \ {c}
  BY <1>1, <1>6 DEF Members
<1>8. Separate(first, next, M)
  BY DEF Lists
<1>9. Separate(after, next, M \ {c})
  <2> HIDE DEF M
  <2>1. \A p, q \in R : after[p] = after[q] /\ after[p] # None => p = q
    BY <1>1, <1>3, <1>8 DEF Separate
  <2>2. \A q \in R, z \in M \ {c} : next[z] = after[q] => after[q] = None
    BY <1>1, <1>3, <1>8 DEF Separate
  <2>3. DOMAIN after = R
    BY <1>1
  <2> QED
    BY <1>8, <2>1, <2>2, <2>3 DEF Separate
<1> QED
  BY <1>1, <1>6, <1>7, <1>9 DEF Lists, Taken, ListsOver

(* The slot after p is taken out.                                          *)
Cut(R, first, next, c, after) ==
  /\ ListsOver(R, first, after)
  /\ Members(first, after) = Members(first, next) \ {c}
  /\ \A x \in Members(first, next) \cup {None} : x # c => From(after, x) = From(next, x) \ {c}
  /\ \A q \in R : From(after, first[q]) = From(next, first[q]) \ {c}
(* The successor of p is bypassed: all other slots stay on their lists.    *)
LEMMA CutLists ==
  ASSUME NEW R, NEW first, NEW next, ListsOver(R, first, next),
         NEW p \in Members(first, next), NEW c \in Slots, next[p] = c,
         NEW after, after = [next EXCEPT ![p] = next[c]]
  PROVE  Cut(R, first, next, c, after)
<1>0. first \in [R -> Pointers] /\ next \in [Slots -> Pointers] /\ Lists(first, next)
  BY DEF ListsOver
<1> USE <1>0
<1> DEFINE M == Members(first, next)
<1>1. p \in Slots
  BY DEF Members, From
<1>2. after \in [Slots -> Pointers] /\ after[p] = next[c] /\ \A s \in Slots \ {p} : after[s] = next[s]
  BY <1>1
<1>3. Separate(first, next, M) /\ M \subseteq Slots
  BY DEF Lists, Members, From
<1>4. \A q \in R : first[q] \in M \cup {None}
  <2> SUFFICES ASSUME NEW q \in R PROVE first[q] \in M \cup {None}
    OBVIOUS
  <2>1. Leads(next, first[q], From(next, first[q]))
    <3>1. first[q] \in Pointers
      OBVIOUS
    <3> QED
      BY <3>1, FromLeast
  <2> QED
    BY <2>1 DEF Leads, Members
<1>5. \A z \in M : next[z] \in M \cup {None}
  <2> SUFFICES ASSUME NEW z \in M PROVE next[z] \in M \cup {None}
    OBVIOUS
  <2>1. PICK q \in R : z \in From(next, first[q])
    BY DEF Members
  <2>2. Leads(next, first[q], From(next, first[q]))
    <3>1. first[q] \in Pointers
      OBVIOUS
    <3> QED
      BY <3>1, FromLeast
  <2> QED
    BY <2>1, <2>2 DEF Leads, Members
<1>6. c \in M /\ c # None
  BY <1>5, SlotFacts
<1>7. next[c] # c /\ p # c
  <2>1. ASSUME next[c] = c PROVE FALSE
    BY <1>6, <2>1, NoCycle, FromStep
  <2> QED
    BY <2>1
<1>8. ASSUME NEW x \in M \cup {None}, x # c
      PROVE  From(after, x) = From(next, x) \ {c}
  <2>1. CASE x = None
    BY <1>2, <2>1, FromNone
  <2>2. CASE x # None
    <3> DEFINE A == From(next, x)
               B == From(after, x)
               D == B \cup IF p \in B THEN {c} ELSE {}
    <3>1. x \in Slots /\ x \in Pointers
      BY <1>3, <1>8, <2>2 DEF Pointers
    <3>2. Leads(next, x, A) /\ Leads(after, x, B)
      BY <1>2, <3>1, FromLeast
    <3>3. A \subseteq M
      <4>1. Leads(next, x, M)
        BY <1>3, <1>5, <1>8 DEF Leads
      <4> QED
        BY <3>1, <4>1, FromLeast
    <3>4. Leads(after, x, A \ {c})
      <4>1. \A z \in A \ {c} : after[z] \in (A \ {c}) \cup {None}
        <5> SUFFICES ASSUME NEW z \in A \ {c} PROVE after[z] \in (A \ {c}) \cup {None}
          OBVIOUS
        <5>1. CASE z = p
          <6>1. c \in A
            BY <1>6, <3>2, <5>1 DEF Leads
          <6>2. next[c] \in A \cup {None}
            BY <3>2, <6>1 DEF Leads
          <6> QED
            BY <1>2, <1>7, <5>1, <6>2
        <5>2. CASE z # p
          <6>1. next[z] # c
            BY <1>3, <1>6, <3>3, <5>2 DEF Separate
          <6>2. z \in Slots /\ next[z] \in A \cup {None}
            BY <3>2 DEF Leads
          <6> QED
            BY <1>2, <5>2, <6>1, <6>2
        <5> QED
          BY <5>1, <5>2
      <4> QED
        BY <1>8, <3>2, <4>1 DEF Leads
    <3>5. B \subseteq A \ {c}
      BY <1>2, <3>1, <3>4, FromLeast
    <3>6. Leads(next, x, D)
      <4>1. \A z \in B : next[z] \in D \cup {None}
        <5> SUFFICES ASSUME NEW z \in B PROVE next[z] \in D \cup {None}
          OBVIOUS
        <5>1. CASE z = p
          BY <5>1
        <5>2. CASE z # p
          <6>1. z \in Slots /\ after[z] \in B \cup {None}
            BY <3>2 DEF Leads
          <6> QED
            BY <1>2, <5>2, <6>1
        <5> QED
          BY <5>1, <5>2
      <4>2. p \in B => next[c] \in B \cup {None}
        <5>1. p \in B => after[p] \in B \cup {None}
          BY <3>2 DEF Leads
        <5> QED
          BY <1>2, <5>1
      <4>3. D \in SUBSET Slots
        BY <3>2 DEF Leads
      <4> QED
        BY <3>2, <4>1, <4>2, <4>3 DEF Leads
    <3>7. A \subseteq D
      BY <3>1, <3>6, FromLeast
    <3> QED
      BY <3>5, <3>7
  <2> QED
    BY <2>1, <2>2
<1>9. \A q \in R : first[q] # c
  BY <1>3, <1>6 DEF Separate
<1>10. \A q \in R : From(after, first[q]) = From(next, first[q]) \ {c}
  BY <1>4, <1>8, <1>9
<1>11. Members(first, after) = M \ {c}
  <2>1. \A s : s \in Members(first, after) <=> \E q \in R : s \in From(after, first[q])
    BY DEF Members
  <2>2. \A s : s \in M <=> \E q \in R : s \in From(next, first[q])
    BY DEF Members
  <2> HIDE DEF M
  <2>3. \A s : s \in Members(first, after) <=> s \in M /\ s # c
    <3>1. \A q \in R : \A s : s \in From(after, first[q]) <=> s \in From(next, first[q]) /\ s # c
      BY <1>10
    <3> QED
      BY <2>1, <2>2, <3>1, Zenon
  <2> QED
    BY <2>3
<1>12. Separate(first, after, M \ {c})
  <2> HIDE DEF M
  <2>1. \A q \in R, z \in M \ {c} : after[z] = first[q] => first[q] = None
    <3> SUFFICES ASSUME NEW q \in R, NEW z \in M \ {c}, after[z] = first[q] PROVE first[q] = None
      OBVIOUS
    <3>1. \A y \in M : next[y] = first[q] => first[q] = None
      BY <1>3 DEF Separate
    <3>2. z \in Slots
      BY <1>3
    <3> QED
      BY <1>2, <1>6, <3>1, <3>2
  <2>2. \A y, z \in M \ {c} : after[y] = after[z] /\ after[y] # None => y = z
    <3> SUFFICES ASSUME NEW y \in M \ {c}, NEW z \in M \ {c}, after[y] = after[z], after[y] # None
                 PROVE  y = z
      OBVIOUS
    <3>1. y \in Slots /\ z \in Slots
      BY <1>3
    <3>2. CASE y = p
      BY <1>2, <1>3, <1>6, <3>1, <3>2 DEF Separate
    <3>3. CASE z = p
      BY <1>2, <1>3, <1>6, <3>1, <3>3 DEF Separate
    <3>4. CASE y # p /\ z # p
      BY <1>2, <1>3, <3>1, <3>4 DEF Separate
    <3> QED
      BY <3>2, <3>3, <3>4
  <2> QED
    BY <1>3, <2>1, <2>2 DEF Separate
<1> QED
  BY <1>2, <1>8, <1>10, <1>11, <1>12 DEF Lists, Cut, ListsOver

(* A walk finds what lies ahead.                                           *)
LEMMA WalkIs ==
  ASSUME NEW next \in [Slots -> Pointers], NEW x \in Pointers
  PROVE  Walk(next, x) = From(next, x)
<1> DEFINE Wider(S) == S \cup {next[s] : s \in S \ {None}}
           walk[n \in 0 .. MaxSlots] == IF n = 0 THEN {x} ELSE Wider(walk[n - 1])
           D == SUBSET Pointers
           E == SUBSET Slots
           G == [S \in D |-> Wider(S)]
           H == [S \in E |-> Wider(S) \ {None}]
<1>1. Walk(next, x) = walk[MaxSlots] \ {None}
  BY DEF Walk
<1>2. MaxSlots \in Nat /\ MaxSlots \in 0 .. MaxSlots
  BY CacheAssumption
<1>3. G \in [D -> D] /\ {x} \in D /\ \A S \in D : G[S] = Wider(S)
  BY DEF Pointers
<1>4. H \in [E -> E] /\ \A S \in E : S \subseteq H[S] /\ H[S] = Wider(S) \ {None}
  BY SlotFacts DEF Pointers
<1>5. PICK f : Iteration(f, MaxSlots, G, {x}, D)
  <2> HIDE DEF G, D
  <2> QED
    BY <1>2, <1>3, Iterates
<1>6. \A n \in 1 .. MaxSlots : n - 1 \in 0 .. MaxSlots /\ f[n] = Wider(f[n - 1])
  <2>1. \A n \in 1 .. MaxSlots : n - 1 \in 0 .. MaxSlots
    BY <1>2
  <2>2. \A n \in 0 .. MaxSlots : f[n] \in D
    BY <1>5 DEF Iteration
  <2> HIDE DEF G, D, Wider
  <2> QED
    BY <1>3, <1>5, <2>1, <2>2 DEF Iteration
<1>7. f = [n \in 0 .. MaxSlots |-> IF n = 0 THEN {x} ELSE Wider(f[n - 1])]
  <2>1. \A n \in 0 .. MaxSlots : n # 0 => n \in 1 .. MaxSlots
    BY <1>2
  <2> HIDE DEF Wider, G, D
  <2>2. \A n \in 0 .. MaxSlots : f[n] = IF n = 0 THEN {x} ELSE Wider(f[n - 1])
    BY <1>5, <1>6, <2>1 DEF Iteration
  <2> QED
    BY <1>5, <2>2 DEF Iteration
<1>8. walk = [n \in 0 .. MaxSlots |-> IF n = 0 THEN {x} ELSE Wider(walk[n - 1])]
  <2> HIDE DEF Wider
  <2> QED
    BY <1>7
<1> HIDE DEF walk
<1>9. walk[MaxSlots] = f[MaxSlots]
  <2> HIDE DEF Wider
  <2> DEFINE P == {n \in Nat : n \in 0 .. MaxSlots => walk[n] = f[n]}
             A(w, n) == IF n = 0 THEN {x} ELSE Wider(w[n - 1])
  <2>1. \A n \in 0 .. MaxSlots : walk[n] = A(walk, n) /\ f[n] = A(f, n)
    BY <1>7, <1>8
  <2>2. 0 \in P
    BY <1>2, <2>1
  <2>3. ASSUME NEW n \in Nat, n \in P
        PROVE  n + 1 \in P
    <3>1. ASSUME n + 1 \in 0 .. MaxSlots
          PROVE  walk[n + 1] = f[n + 1]
      <4>1. n + 1 - 1 = n /\ n \in 0 .. MaxSlots /\ n + 1 # 0
        BY <3>1, <1>2
      <4>2. walk[n + 1] = Wider(walk[n]) /\ f[n + 1] = Wider(f[n])
        <5>1. walk[n + 1] = A(walk, n + 1) /\ f[n + 1] = A(f, n + 1)
          BY <2>1, <3>1
        <5> QED
          BY <4>1, <5>1
      <4> QED
        BY <2>3, <4>1, <4>2
    <3> QED
      BY <3>1
  <2>4. \A n \in Nat : n \in P
    <3> HIDE DEF P
    <3> QED
      BY <2>2, <2>3, Induction
  <2> QED
    BY <1>2, <2>4
<1> DEFINE W == f[MaxSlots] \ {None}
<1>10. \A n \in 0 .. MaxSlots : f[n] \in D
  BY <1>5 DEF Iteration
<1>11. ASSUME NEW C, Leads(next, x, C)
       PROVE  W \subseteq C
  <2> DEFINE B == {T \in D : T \subseteq C \cup {None}}
  <2>1. B \in SUBSET D /\ {x} \in B
    BY <1>3, <1>11 DEF Leads
  <2>2. \A y \in B : G[y] \in B
    BY <1>3, <1>11 DEF Leads, Pointers
  <2> HIDE DEF B, D, G
  <2>3. \A n \in 0 .. MaxSlots : f[n] \in B
    BY <1>2, <1>3, <1>5, <2>1, <2>2, IterationWithin
  <2> QED
    BY <1>2, <2>3 DEF B
<1>12. CASE x = None
  <2>1. Leads(next, x, {})
    BY <1>12 DEF Leads
  <2>2. W = {}
    BY <1>11, <2>1
  <2> QED
    BY <1>1, <1>9, <1>12, <2>2, FromNone
<1>13. CASE x # None
  <2> DEFINE g == [n \in 0 .. MaxSlots |-> f[n] \ {None}]
  <2>1. x \in Slots /\ {x} \in E /\ {x} # {}
    BY <1>13 DEF Pointers
  <2>2. Iteration(g, MaxSlots, H, {x}, E)
    <3>1. g[0] = {x} /\ \A n \in 0 .. MaxSlots : g[n] = f[n] \ {None}
      BY <1>2, <1>5, <2>1, SlotFacts DEF Iteration
    <3>2. g \in [0 .. MaxSlots -> E]
      BY <1>10 DEF Pointers
    <3>3. ASSUME NEW n \in 1 .. MaxSlots
          PROVE  g[n] = H[g[n - 1]]
      <4>1. n - 1 \in 0 .. MaxSlots /\ n \in 0 .. MaxSlots /\ f[n] = Wider(f[n - 1])
        BY <1>6, <1>2
      <4>2. g[n - 1] \in E /\ g[n - 1] = f[n - 1] \ {None} /\ g[n] = Wider(f[n - 1]) \ {None}
        BY <3>1, <3>2, <4>1
      <4>3. Wider(f[n - 1] \ {None}) \ {None} = Wider(f[n - 1]) \ {None}
        OBVIOUS
      <4> QED
        BY <1>4, <4>2, <4>3
    <3> HIDE DEF g, H, E
    <3> QED
      BY <3>1, <3>2, <3>3 DEF Iteration
  <2>3. Widens(H, Slots)
    BY <1>4 DEF Widens
  <2>4. H[g[MaxSlots]] = g[MaxSlots] /\ g[MaxSlots] \in E
    <3>1. g[MaxSlots] \in E
      BY <1>2, <2>2 DEF Iteration
    <3> DEFINE y == {x}
               m == MaxSlots
               c == MaxSlots
               U == Slots
    <3>2. /\ IsFiniteSet(U) /\ Widens(H, U) /\ y \in SUBSET U /\ y # {} /\ m \in Nat
          /\ Iteration(g, m, H, y, SUBSET U) /\ c \in 0 .. m /\ Cardinality(U) <= c
      BY <1>2, <2>1, <2>2, <2>3, SlotFacts
    <3> HIDE DEF y, g, H, m, c, U
    <3>3. H[g[c]] = g[c]
      BY <3>2, Saturates
    <3> QED
      BY <3>1, <3>3 DEF c
  <2>5. W = g[MaxSlots]
    BY <1>2
  <2>6. x \in W
    <3> DEFINE B == {S \in D : x \in S}
    <3>1. B \in SUBSET D /\ {x} \in B
      BY <1>3
    <3>2. \A y \in B : G[y] \in B
      BY <1>3
    <3> HIDE DEF B, D, G
    <3>3. \A n \in 0 .. MaxSlots : f[n] \in B
      BY <1>2, <1>3, <1>5, <3>1, <3>2, IterationWithin
    <3> QED
      BY <1>2, <1>13, <3>3 DEF B
  <2>7. Leads(next, x, W)
    <3>1. W \in E /\ H[W] = W
      BY <2>4, <2>5
    <3>2. Wider(W) \ {None} = W
      BY <1>4, <3>1
    <3> HIDE DEF W
    <3> QED
      BY <2>6, <3>1, <3>2 DEF Leads
  <2>8. W = From(next, x)
    <3> HIDE DEF W
    <3>1. W \subseteq From(next, x)
      BY <1>11, FromLeast
    <3>2. From(next, x) \subseteq W
      BY <2>7, FromLeast
    <3> QED
      BY <3>1, <3>2
  <2> QED
    BY <1>1, <1>9, <2>8
<1> QED
  BY <1>12, <1>13

-------------------------------------------------------------------------------
(* The lists and stacks of a state.                                        *)
LEMMA PointersAre ==
  WordTypes => /\ NextNode \in [Slots -> Pointers] /\ FirstNode \in [Buckets -> Pointers]
               /\ NextFree \in [Slots -> Pointers] /\ FirstFree \in [Threads -> Pointers]
               /\ \A n \in Nodes : link[n].next \in Pointers
  BY DEF WordTypes, NextNode, FirstNode, NextFree, FirstFree, Words, Tops, Pointers, Nodes

(* The walks of the model are the sets ahead of the first pointers.        *)
LEMMA ListsAre ==
  WordTypes => /\ \A b \in Buckets : Reach(b) = From(NextNode, FirstNode[b])
               /\ \A n \in Nodes : After(n) = From(NextNode, link[n].next)
               /\ Chained = Members(FirstNode, NextNode)
               /\ \A u \in Threads : Free(u) = From(NextFree, FirstFree[u])
               /\ AllFree = Members(FirstFree, NextFree)
<1> SUFFICES ASSUME WordTypes
             PROVE  /\ \A b \in Buckets : Reach(b) = From(NextNode, FirstNode[b])
                    /\ \A n \in Nodes : After(n) = From(NextNode, link[n].next)
                    /\ Chained = Members(FirstNode, NextNode)
                    /\ \A u \in Threads : Free(u) = From(NextFree, FirstFree[u])
                    /\ AllFree = Members(FirstFree, NextFree)
  OBVIOUS
<1> USE PointersAre
<1>1. \A n \in Nodes : After(n) = From(NextNode, link[n].next)
  BY WalkIs DEF After
<1>2. \A b \in Buckets : Reach(b) = From(NextNode, FirstNode[b])
  <2>1. \A b \in Buckets : FirstNode[b] = link[b].next /\ link[b].next \in Pointers
    BY DEF FirstNode, Nodes
  <2> QED
    BY <2>1, WalkIs DEF Reach
<1>3. \A u \in Threads : Free(u) = From(NextFree, FirstFree[u])
  <2>1. \A u \in Threads : FirstFree[u] = a_head[u].at /\ FirstFree[u] \in Pointers
    BY DEF FirstFree
  <2> QED
    BY <2>1, WalkIs DEF Free
<1>4. Chained = Members(FirstNode, NextNode)
  BY <1>2 DEF Chained, Members
<1>5. AllFree = Members(FirstFree, NextFree)
  BY <1>3 DEF AllFree, Members
<1> QED
  BY <1>1, <1>2, <1>3, <1>4, <1>5

(* A bucket and what is in its list; other facts of Reach.                 *)
LEMMA ReachFacts ==
  WordTypes => /\ Chained \subseteq Slots /\ AllFree \subseteq Slots
               /\ \A b \in Buckets : Reach(b) \subseteq Chained /\ After(b) = Reach(b)
               /\ \A s \in Chained : \E b \in Buckets : s \in Reach(b)
<1> SUFFICES ASSUME WordTypes
             PROVE  /\ Chained \subseteq Slots /\ AllFree \subseteq Slots
                    /\ \A b \in Buckets : Reach(b) \subseteq Chained /\ After(b) = Reach(b)
                    /\ \A s \in Chained : \E b \in Buckets : s \in Reach(b)
  OBVIOUS
<1>1. Chained \subseteq Slots /\ AllFree \subseteq Slots
  BY ListsAre DEF Members, From
<1>2. \A b \in Buckets : After(b) = Reach(b)
  BY DEF After, Reach
<1> QED
  BY <1>1, <1>2 DEF Chained

(* Held is the one map that MapIs describes.                               *)
HashInv == \A b \in Buckets : \A s \in Reach(b) : key[s] \in Keys /\ Hash[key[s]] = b
(* At most one map agrees with the unmarked nodes.                         *)
LEMMA HeldIs ==
  WordTypes /\ HashInv =>
    \A n \in [Keys -> Pointers] : MapIs(n) => n = Held
<1> SUFFICES ASSUME WordTypes, HashInv, NEW m \in [Keys -> Pointers], MapIs(m)
             PROVE  m = Held
  OBVIOUS
<1>1. \A k \in Keys : Hash[k] \in Buckets
  BY CacheAssumption
<1>2. ASSUME NEW k \in Keys, NEW s \in Holding(k)
      PROVE  s = m[k]
  <2>1. s \in Reach(Hash[k]) /\ ~link[s].marked /\ key[s] = k
    BY <1>2 DEF Holding
  <2> QED
    BY <1>1, <2>1, ReachFacts DEF MapIs
<1>3. ASSUME NEW k \in Keys, m[k] # None
      PROVE  m[k] \in Holding(k)
  BY <1>3 DEF MapIs, Holds, Holding
<1>4. ASSUME NEW k \in Keys
      PROVE  Held[k] = m[k]
  <2>1. Held[k] = IF Holding(k) = {} THEN None ELSE Min(Holding(k))
    BY DEF Held
  <2>2. CASE Holding(k) = {}
    BY <1>3, <2>1, <2>2
  <2>3. CASE Holding(k) # {}
    <3>1. Holding(k) = {m[k]}
      BY <1>2, <2>3
    <3>2. m[k] \in Int
      <4>1. m[k] \in Slots \/ m[k] = -1
        BY DEF Pointers, None
      <4> QED
        BY <4>1, CacheAssumption DEF Slots
    <3>3. Min(Holding(k)) = m[k]
      BY <3>1, <3>2 DEF Min
    <3> QED
      BY <2>1, <2>3, <3>3
  <2> QED
    BY <2>2, <2>3
<1> QED
  BY <1>4 DEF Held

(* The same after the step.                                                *)
LEMMA HeldIsAfter ==
  (WordTypes /\ HashInv => \A n \in [Keys -> Pointers] : MapIs(n) => n = Held)'
  BY HeldIs, PTL

(* The history variable map follows the map.                               *)
LEMMA MapFollows ==
  ASSUME WordTypes', HashInv', Witness, MapTypes, MapIs(map),
         NEW m \in [Keys -> Pointers], MapIs(m)'
  PROVE  map' = m /\ MapIs(map)'
<1>1. (WordTypes /\ HashInv => \A n \in [Keys -> Pointers] : MapIs(n) => n = Held)'
  BY HeldIsAfter
<1>2. m = Held'
  BY <1>1
<1>3. map' = m
  <2>1. CASE UNCHANGED mapped
    <3>1. SUFFICES ASSUME NEW n, n = map
                   PROVE  n = m
      BY <2>1 DEF Witness
    <3>2. MapIs(n) /\ n \in [Keys -> Pointers]
      BY <3>1 DEF MapTypes
    <3>3. MapIs(n)'
      BY <2>1, <3>2 DEF mapped, MapIs, Holds, Chained, Reach, NextNode
    <3>4. n = Held'
      BY <1>1, <3>2, <3>3
    <3> QED
      BY <1>2, <3>4
  <2>2. CASE ~UNCHANGED mapped
    BY <1>2, <2>2 DEF Witness
  <2> QED
    BY <2>1, <2>2
<1>4. MapIs(map)'
  BY <1>3 DEF MapIs
<1> QED
  BY <1>3, <1>4

(* The pointers have their types after the step.                           *)
LEMMA PointersAfter ==
  (WordTypes => /\ NextNode \in [Slots -> Pointers] /\ FirstNode \in [Buckets -> Pointers]
                /\ NextFree \in [Slots -> Pointers] /\ FirstFree \in [Threads -> Pointers]
                /\ \A n \in Nodes : link[n].next \in Pointers)'
  BY PointersAre, PTL

(* The walks are the sets ahead of the first pointers after the step.      *)
LEMMA ListsAfter ==
  (WordTypes => /\ \A b \in Buckets : Reach(b) = From(NextNode, FirstNode[b])
                /\ \A n \in Nodes : After(n) = From(NextNode, link[n].next)
                /\ Chained = Members(FirstNode, NextNode)
                /\ \A u \in Threads : Free(u) = From(NextFree, FirstFree[u])
                /\ AllFree = Members(FirstFree, NextFree))'
  BY ListsAre, PTL

(* The facts of Reach, after the step.                                     *)
LEMMA ReachAfter ==
  (WordTypes => /\ Chained \subseteq Slots /\ AllFree \subseteq Slots
                /\ \A b \in Buckets : Reach(b) \subseteq Chained /\ After(b) = Reach(b)
                /\ \A s \in Chained : \E b \in Buckets : s \in Reach(b))'
  BY ReachFacts, PTL

(* A pointer and a slot that it leads to.                                  *)
LEMMA AheadOf ==
  ASSUME WordTypes, NEW n \in Nodes, n \in Buckets \/ n \in Chained, link[n].next # None
  PROVE  LET c == link[n].next
         IN /\ c \in Slots /\ c \in Chained /\ c \in After(n)
            /\ After(n) = {c} \cup After(c)
            /\ \A b \in Buckets : On(n, b) => c \in Reach(b)
<1> DEFINE c == link[n].next
<1>1. c \in Slots /\ c \in Pointers
  BY PointersAre DEF Pointers
<1>2. c \in Nodes
  BY <1>1 DEF Nodes
<1>3. From(NextNode, c) = {c} \cup From(NextNode, NextNode[c]) /\ NextNode[c] = link[c].next
  BY <1>1, PointersAre, FromStep DEF NextNode
<1>4. After(n) = {c} \cup After(c)
  BY <1>2, <1>3, ListsAre
<1>5. ASSUME NEW b \in Buckets, On(n, b)
      PROVE  c \in Reach(b)
  <2>1. CASE n = b
    <3>1. Reach(b) = After(n)
      BY <2>1, ReachFacts
    <3> QED
      BY <1>4, <3>1
  <2>2. CASE n \in Reach(b)
    <3>1. Leads(NextNode, FirstNode[b], Reach(b))
      <4>1. FirstNode[b] \in Pointers
        BY PointersAre
      <4> QED
        BY <4>1, PointersAre, ListsAre, FromLeast
    <3>2. n \in Slots /\ NextNode[n] = c
      BY <2>2, ReachFacts DEF NextNode
    <3> QED
      BY <1>1, <2>2, <3>1, <3>2, SlotFacts DEF Leads
  <2> QED
    BY <1>5, <2>1, <2>2 DEF On
<1>6. c \in Chained
  <2>1. \E b \in Buckets : On(n, b)
    BY ReachFacts DEF On
  <2> QED
    BY <1>5, <2>1, ReachFacts
<1> QED
  BY <1>1, <1>4, <1>5, <1>6

(* The node after p is unlinked.                                           *)
LEMMA CutStep ==
  ASSUME WordTypes, WordTypes', ListInv, NEW p \in Nodes, p \in Buckets \/ p \in Chained,
         NEW c \in Slots, link[p].next = c, NEW w, w.next = link[c].next,
         link' = [link EXCEPT ![p] = w]
  PROVE  /\ Separate(FirstNode, NextNode, Chained)'
         /\ Chained' = Chained \ {c} /\ \A b \in Buckets : Reach(b)' = Reach(b) \ {c}
         /\ \A n \in Nodes : (n \in Buckets \/ n \in Chained) /\ n # p => After(n)' = After(n) \ {c}
<1>1. /\ NextNode \in [Slots -> Pointers] /\ FirstNode \in [Buckets -> Pointers]
      /\ NextNode' \in [Slots -> Pointers] /\ FirstNode' \in [Buckets -> Pointers]
  BY PointersAre, PointersAfter
<1>2. Lists(FirstNode, NextNode) /\ Chained = Members(FirstNode, NextNode)
  BY ListsAre DEF Lists, ListInv
<1>3. /\ Chained' = Members(FirstNode', NextNode')
      /\ \A b \in Buckets : Reach(b)' = From(NextNode', FirstNode'[b])
      /\ \A n \in Nodes : After(n)' = From(NextNode', link'[n].next)
  BY ListsAfter
<1>4. /\ \A b \in Buckets : Reach(b) = From(NextNode, FirstNode[b])
      /\ \A n \in Nodes : After(n) = From(NextNode, link[n].next)
  BY ListsAre
<1>5. /\ \A n \in Nodes : n # p => link'[n] = link[n]
      /\ link'[p].next = link[c].next
  BY DEF WordTypes
<1>6. \A n \in Nodes : (n \in Buckets \/ n \in Chained) /\ link[n].next = c => n = p
  <2> SUFFICES ASSUME NEW n \in Nodes, n \in Buckets \/ n \in Chained, link[n].next = c PROVE n = p
    OBVIOUS
  <2>1. /\ \A m \in Buckets : m \in DOMAIN FirstNode /\ FirstNode[m] = link[m].next
        /\ \A m \in Chained : NextNode[m] = link[m].next
        /\ c # None
    BY ReachFacts, SlotFacts DEF FirstNode, NextNode
  <2>2. Separate(FirstNode, NextNode, Chained)
    BY DEF ListInv
  <2> QED
    BY <2>1, <2>2 DEF Separate
<1>7. CASE p \in Buckets
  <2>1. p \notin Slots
    BY <1>7, CacheAssumption
  <2>2. NextNode' = NextNode
    BY <1>5, <2>1 DEF NextNode, Nodes
  <2>3. FirstNode' = [FirstNode EXCEPT ![p] = NextNode[c]] /\ FirstNode[p] = c
    <3>1. \A b \in Buckets : FirstNode'[b] = IF b = p THEN NextNode[c] ELSE FirstNode[b]
      BY <1>5 DEF FirstNode, NextNode, Nodes
    <3>2. FirstNode[p] = c
      BY <1>7 DEF FirstNode
    <3> QED
      BY <1>1, <1>7, <3>1, <3>2
  <2>4. /\ Lists(FirstNode', NextNode)
        /\ Members(FirstNode', NextNode) = Members(FirstNode, NextNode) \ {c}
        /\ \A q \in Buckets : From(NextNode, FirstNode'[q]) = From(NextNode, FirstNode[q]) \ {c}
    <3> DEFINE f == FirstNode
               g == FirstNode'
               h == NextNode
    <3>1. ListsOver(Buckets, f, h) /\ f[p] = c /\ g = [f EXCEPT ![p] = h[c]]
      BY <1>1, <1>2, <2>3 DEF ListsOver
    <3> HIDE DEF f, g, h
    <3>2. Taken(Buckets, f, h, c, g)
      BY <1>7, <3>1, PopLists, Zenon
    <3> QED
      BY <3>2 DEF f, g, h, Cut, Taken, ListsOver
  <2>5. Chained' = Chained \ {c} /\ \A b \in Buckets : Reach(b)' = Reach(b) \ {c}
    BY <1>2, <1>3, <1>4, <2>2, <2>4
  <2>6. Separate(FirstNode, NextNode, Chained)'
    BY <1>3, <2>2, <2>4 DEF Lists
  <2>7. ASSUME NEW n \in Nodes, n \in Buckets \/ n \in Chained, n # p
        PROVE  After(n)' = After(n) \ {c}
    <3>1. CASE n \in Buckets
      BY <2>5, <3>1, ReachFacts, ReachAfter
    <3>2. CASE n \in Chained
      <4>1. After(n)' = After(n)
        BY <1>3, <1>4, <1>5, <2>2, <2>7
      <4>2. c \notin After(n)
        <5>1. n \in Slots /\ NextNode[n] = link[n].next
          BY <3>2, ReachFacts DEF NextNode
        <5>2. Leads(NextNode, NextNode[n], After(n) \ {c})
          <6>1. Leads(NextNode, NextNode[n], After(n))
            BY <1>1, <1>4, <5>1, FromLeast DEF Nodes
          <6>2. NextNode[n] # c
            BY <1>6, <2>7, <5>1
          <6>3. After(n) \subseteq Chained
            <7>1. PICK b \in Buckets : n \in Reach(b)
              BY <3>2, ReachFacts
            <7>2. Leads(NextNode, FirstNode[b], Reach(b))
              BY <1>1, <1>4, FromLeast
            <7>3. Leads(NextNode, NextNode[n], Reach(b))
              BY <7>1, <7>2 DEF Leads
            <7>4. After(n) \subseteq Reach(b)
              BY <1>1, <1>4, <5>1, <7>3, FromLeast DEF Nodes
            <7> QED
              BY <7>4, ReachFacts
          <6>4. \A z \in After(n) : NextNode[z] # c
            <7> SUFFICES ASSUME NEW z \in After(n), NextNode[z] = c PROVE FALSE
              OBVIOUS
            <7>1. z \in Slots /\ z \in Chained /\ link[z].next = c
              BY <6>3, ReachFacts DEF NextNode
            <7>2. z = p
              BY <1>6, <7>1 DEF Nodes
            <7> QED
              BY <2>1, <7>1, <7>2
          <6> QED
            BY <6>1, <6>2, <6>4 DEF Leads
        <5>3. After(n) \subseteq After(n) \ {c}
          BY <1>1, <1>4, <5>1, <5>2, FromLeast DEF Nodes
        <5> QED
          BY <5>3
      <4> QED
        BY <4>1, <4>2
    <3> QED
      BY <2>7, <3>1, <3>2
  <2> QED
    BY <2>5, <2>6, <2>7
<1>8. CASE p \notin Buckets
  <2>1. p \in Slots /\ p \in Chained
    BY <1>8 DEF Nodes
  <2>2. FirstNode' = FirstNode
    BY <1>5, <1>8 DEF FirstNode, Nodes
  <2>3. NextNode' = [NextNode EXCEPT ![p] = NextNode[c]] /\ NextNode[p] = c
    <3>1. \A n \in Slots : NextNode'[n] = IF n = p THEN NextNode[c] ELSE NextNode[n]
      BY <1>5 DEF NextNode, Nodes
    <3>2. NextNode[p] = c
      BY <2>1 DEF NextNode
    <3> QED
      BY <1>1, <2>1, <3>1, <3>2
  <2>4. /\ Lists(FirstNode, NextNode')
        /\ Members(FirstNode, NextNode') = Members(FirstNode, NextNode) \ {c}
        /\ \A x \in Members(FirstNode, NextNode) \cup {None} : x # c =>
              From(NextNode', x) = From(NextNode, x) \ {c}
        /\ \A q \in Buckets : From(NextNode', FirstNode[q]) = From(NextNode, FirstNode[q]) \ {c}
    <3> DEFINE f == FirstNode
               g == NextNode'
               h == NextNode
    <3>1. ListsOver(Buckets, f, h) /\ p \in Members(f, h) /\ h[p] = c /\ g = [h EXCEPT ![p] = h[c]]
      BY <1>1, <1>2, <2>1, <2>3 DEF ListsOver
    <3> HIDE DEF f, g, h
    <3>2. Cut(Buckets, f, h, c, g)
      BY <3>1, CutLists, Zenon
    <3> QED
      BY <3>2 DEF f, g, h, Cut, Taken, ListsOver
  <2>5. Chained' = Chained \ {c} /\ \A b \in Buckets : Reach(b)' = Reach(b) \ {c}
    BY <1>2, <1>3, <1>4, <2>2, <2>4
  <2>6. Separate(FirstNode, NextNode, Chained)'
    BY <1>3, <2>2, <2>4 DEF Lists
  <2>7. ASSUME NEW n \in Nodes, n \in Buckets \/ n \in Chained, n # p
        PROVE  After(n)' = After(n) \ {c}
    <3>1. link[n].next # c /\ link'[n] = link[n]
      BY <1>5, <1>6, <2>7
    <3>2. link[n].next \in Chained \cup {None}
      BY <2>7, AheadOf
    <3> QED
      BY <1>2, <1>3, <1>4, <2>4, <3>1, <3>2
  <2> QED
    BY <2>5, <2>6, <2>7
<1> QED
  BY <1>7, <1>8

(* What a step leaves of the lists: everything, if no pointer changed.     *)
SameLists ==
  /\ Separate(FirstNode, NextNode, Chained)'
  /\ Chained' = Chained /\ \A b \in Buckets : Reach(b)' = Reach(b)
  /\ \A n \in Nodes : n \in Buckets \/ n \in Chained => After(n)' = After(n)
(* A step that moves no pointer of a bucket or of a chained node leaves    *)
(* the lists as they are.                                                  *)
LEMMA SameStep ==
  ASSUME WordTypes, WordTypes', Separate(FirstNode, NextNode, Chained),
         \A n \in Nodes : n \in Buckets \/ n \in Chained => link'[n].next = link[n].next
  PROVE  SameLists
<1>1. /\ NextNode \in [Slots -> Pointers] /\ FirstNode \in [Buckets -> Pointers]
      /\ NextNode' \in [Slots -> Pointers] /\ FirstNode' \in [Buckets -> Pointers]
  BY PointersAre, PointersAfter
<1>2. /\ Chained' = Members(FirstNode', NextNode')
      /\ \A b \in Buckets : Reach(b)' = From(NextNode', FirstNode'[b])
      /\ \A n \in Nodes : After(n)' = From(NextNode', link'[n].next)
  BY ListsAfter
<1>3. /\ Chained = Members(FirstNode, NextNode)
      /\ \A b \in Buckets : Reach(b) = From(NextNode, FirstNode[b])
      /\ \A n \in Nodes : After(n) = From(NextNode, link[n].next)
  BY ListsAre
<1>4. FirstNode' = FirstNode
  BY <1>1 DEF FirstNode, Nodes
<1>5. \A s \in Chained : NextNode'[s] = NextNode[s]
  BY ReachFacts DEF NextNode, Nodes
<1>6. \A b \in Buckets : Reach(b)' = Reach(b)
  <2> SUFFICES ASSUME NEW b \in Buckets PROVE Reach(b)' = Reach(b)
    OBVIOUS
  <2>1. FirstNode[b] \in Pointers
    BY <1>1
  <2>2. \A s \in From(NextNode, FirstNode[b]) : NextNode'[s] = NextNode[s]
    BY <1>3, <1>5, ReachFacts
  <2>3. From(NextNode', FirstNode[b]) = From(NextNode, FirstNode[b])
    BY <1>1, <2>1, <2>2, FromSame
  <2> QED
    BY <1>2, <1>3, <1>4, <2>3
<1>7. Chained' = Chained
  BY <1>6 DEF Chained
<1>8. ASSUME NEW n \in Nodes, n \in Buckets \/ n \in Chained
      PROVE  After(n)' = After(n)
  <2>1. CASE n \in Buckets
    BY <1>6, <2>1, ReachFacts, ReachAfter
  <2>2. CASE n \in Chained
    <3>1. After(n) \subseteq Chained
      <4>1. PICK b \in Buckets : n \in Reach(b)
        BY <2>2, ReachFacts
      <4>2. Leads(NextNode, FirstNode[b], Reach(b))
        BY <1>1, <1>3, FromLeast
      <4>3. n \in Slots /\ NextNode[n] = link[n].next
        BY <2>2, ReachFacts DEF NextNode
      <4>4. Leads(NextNode, link[n].next, Reach(b))
        BY <4>1, <4>2, <4>3 DEF Leads
      <4>5. link[n].next \in Pointers
        BY PointersAre
      <4>6. After(n) \subseteq Reach(b)
        BY <1>1, <1>3, <4>4, <4>5, FromLeast
      <4> QED
        BY <4>6, ReachFacts
    <3>2. link[n].next \in Pointers
      BY PointersAre
    <3>3. \A s \in From(NextNode, link[n].next) : NextNode'[s] = NextNode[s]
      BY <1>3, <1>5, <3>1
    <3>4. From(NextNode', link[n].next) = From(NextNode, link[n].next)
      BY <1>1, <3>2, <3>3, FromSame
    <3> QED
      BY <1>2, <1>3, <1>8, <3>4
  <2> QED
    BY <1>8, <2>1, <2>2
<1>9. Separate(FirstNode', NextNode', Chained')
  BY <1>4, <1>5, <1>7 DEF Separate
<1> QED
  BY <1>6, <1>7, <1>8, <1>9 DEF SameLists

(* A node is linked at the front of a bucket.                              *)
LEMMA PushStep ==
  ASSUME WordTypes, WordTypes', Separate(FirstNode, NextNode, Chained), NEW b \in Buckets,
         NEW s \in Slots, s \notin Chained, link[s].next = link[b].next,
         NEW w, w.next = s, link' = [link EXCEPT ![b] = w]
  PROVE  /\ Separate(FirstNode, NextNode, Chained)'
         /\ Chained' = Chained \cup {s} /\ Reach(b)' = Reach(b) \cup {s}
         /\ \A a \in Buckets \ {b} : Reach(a)' = Reach(a)
         /\ \A n \in Nodes \ {b} : After(n)' = After(n)
<1>1. /\ NextNode \in [Slots -> Pointers] /\ FirstNode \in [Buckets -> Pointers]
      /\ FirstNode' \in [Buckets -> Pointers]
  BY PointersAre, PointersAfter
<1>2. Lists(FirstNode, NextNode) /\ Chained = Members(FirstNode, NextNode)
  BY ListsAre DEF Lists
<1>3. /\ Chained' = Members(FirstNode', NextNode')
      /\ \A a \in Buckets : Reach(a)' = From(NextNode', FirstNode'[a])
      /\ \A n \in Nodes : After(n)' = From(NextNode', link'[n].next)
  BY ListsAfter
<1>4. /\ \A a \in Buckets : Reach(a) = From(NextNode, FirstNode[a])
      /\ \A n \in Nodes : After(n) = From(NextNode, link[n].next)
  BY ListsAre
<1>5. /\ \A n \in Nodes : n # b => link'[n] = link[n]
      /\ link'[b].next = s /\ b \notin Slots
  BY CacheAssumption DEF WordTypes, Nodes
<1>6. NextNode' = NextNode
  BY <1>5 DEF NextNode, Nodes
<1>7. FirstNode' = [FirstNode EXCEPT ![b] = s] /\ NextNode[s] = FirstNode[b]
  <2>1. \A a \in Buckets : FirstNode'[a] = IF a = b THEN s ELSE FirstNode[a]
    BY <1>5 DEF FirstNode, Nodes
  <2>2. NextNode[s] = FirstNode[b]
    BY DEF FirstNode, NextNode
  <2> QED
    BY <1>1, <2>1, <2>2
<1>8. Put(Buckets, FirstNode, NextNode, b, s, FirstNode')
  <2> DEFINE f == FirstNode
             g == FirstNode'
             h == NextNode
  <2>1. /\ ListsOver(Buckets, f, h) /\ s \notin Members(f, h)
        /\ h[s] = f[b] /\ g = [f EXCEPT ![b] = s]
    BY <1>1, <1>2, <1>7 DEF ListsOver
  <2> HIDE DEF f, g, h
  <2>2. Put(Buckets, f, h, b, s, g)
    BY <2>1, PushLists, Zenon
  <2> QED
    BY <2>2 DEF f, g, h
<1>9. /\ Lists(FirstNode', NextNode) /\ Members(FirstNode', NextNode) = Members(FirstNode, NextNode) \cup {s}
      /\ From(NextNode, FirstNode'[b]) = From(NextNode, FirstNode[b]) \cup {s}
      /\ \A a \in Buckets \ {b} : From(NextNode, FirstNode'[a]) = From(NextNode, FirstNode[a])
  BY <1>8 DEF Put, ListsOver
<1>10. Separate(FirstNode, NextNode, Chained)'
  BY <1>3, <1>6, <1>9 DEF Lists
<1>11. \A n \in Nodes \ {b} : After(n)' = After(n)
  BY <1>3, <1>4, <1>5, <1>6
<1> QED
  BY <1>2, <1>3, <1>4, <1>6, <1>9, <1>10, <1>11

-------------------------------------------------------------------------------
(* The same of the stacks.                                                 *)
SameStacks ==
  /\ Separate(FirstFree, NextFree, AllFree)'
  /\ AllFree' = AllFree /\ \A u \in Threads : Free(u)' = Free(u)
(* A step that moves no pointer of a stack or of a free slot leaves the    *)
(* stacks as they are.                                                     *)
LEMMA SameFree ==
  ASSUME WordTypes, WordTypes', Separate(FirstFree, NextFree, AllFree),
         \A u \in Threads : a_head'[u].at = a_head[u].at,
         \A s \in AllFree : tail'[s].at = tail[s].at
  PROVE  SameStacks
<1>1. /\ NextFree \in [Slots -> Pointers] /\ FirstFree \in [Threads -> Pointers]
      /\ NextFree' \in [Slots -> Pointers] /\ FirstFree' \in [Threads -> Pointers]
  BY PointersAre, PointersAfter
<1>2. /\ AllFree' = Members(FirstFree', NextFree')
      /\ \A u \in Threads : Free(u)' = From(NextFree', FirstFree'[u])
  BY ListsAfter
<1>3. /\ AllFree = Members(FirstFree, NextFree)
      /\ \A u \in Threads : Free(u) = From(NextFree, FirstFree[u])
  BY ListsAre
<1>4. FirstFree' = FirstFree
  BY <1>1 DEF FirstFree
<1>5. \A s \in AllFree : NextFree'[s] = NextFree[s]
  BY ReachFacts DEF NextFree
<1>6. \A u \in Threads : Free(u)' = Free(u)
  <2> SUFFICES ASSUME NEW u \in Threads PROVE Free(u)' = Free(u)
    OBVIOUS
  <2>1. FirstFree[u] \in Pointers
    BY <1>1
  <2>2. \A s \in From(NextFree, FirstFree[u]) : NextFree'[s] = NextFree[s]
    BY <1>3, <1>5 DEF AllFree
  <2>3. From(NextFree', FirstFree[u]) = From(NextFree, FirstFree[u])
    BY <1>1, <2>1, <2>2, FromSame
  <2> QED
    BY <1>2, <1>3, <1>4, <2>3
<1>7. AllFree' = AllFree
  BY <1>6 DEF AllFree
<1>8. Separate(FirstFree', NextFree', AllFree')
  BY <1>4, <1>5, <1>7 DEF Separate
<1> QED
  BY <1>6, <1>7, <1>8 DEF SameStacks

(* A slot is pushed.                                                       *)
LEMMA PushFree ==
  ASSUME WordTypes, WordTypes', Separate(FirstFree, NextFree, AllFree), NEW t \in Threads,
         NEW s \in Slots, s \notin AllFree, tail[s].at = a_head[t].at,
         NEW w, w.at = s, a_head' = [a_head EXCEPT ![t] = w], tail' = tail
  PROVE  Separate(FirstFree, NextFree, AllFree)' /\ AllFree' = AllFree \cup {s}
<1>1. /\ NextFree \in [Slots -> Pointers] /\ FirstFree \in [Threads -> Pointers]
      /\ FirstFree' \in [Threads -> Pointers]
  BY PointersAre, PointersAfter
<1>2. Lists(FirstFree, NextFree) /\ AllFree = Members(FirstFree, NextFree)
  BY ListsAre DEF Lists
<1>3. AllFree' = Members(FirstFree', NextFree')
  BY ListsAfter
<1>4. \A u \in Threads : a_head'[u] = IF u = t THEN w ELSE a_head[u]
  BY DEF WordTypes
<1>5. NextFree' = NextFree
  BY DEF NextFree
<1>6. FirstFree' = [FirstFree EXCEPT ![t] = s] /\ NextFree[s] = FirstFree[t]
  <2>1. \A u \in Threads : FirstFree'[u] = IF u = t THEN s ELSE FirstFree[u]
    BY <1>4 DEF FirstFree
  <2>2. NextFree[s] = FirstFree[t]
    BY DEF FirstFree, NextFree
  <2> QED
    BY <1>1, <2>1, <2>2
<1>7. Put(Threads, FirstFree, NextFree, t, s, FirstFree')
  <2> DEFINE f == FirstFree
             g == FirstFree'
             h == NextFree
  <2>1. /\ ListsOver(Threads, f, h) /\ s \notin Members(f, h)
        /\ h[s] = f[t] /\ g = [f EXCEPT ![t] = s]
    BY <1>1, <1>2, <1>6 DEF ListsOver
  <2> HIDE DEF f, g, h
  <2>2. Put(Threads, f, h, t, s, g)
    BY <2>1, PushLists, Zenon
  <2> QED
    BY <2>2 DEF f, g, h
<1>8. Lists(FirstFree', NextFree) /\ Members(FirstFree', NextFree) = Members(FirstFree, NextFree) \cup {s}
  BY <1>7 DEF Put, ListsOver
<1> QED
  BY <1>2, <1>3, <1>5, <1>8 DEF Lists

(* The top slot is popped.                                                 *)
LEMMA PopFree ==
  ASSUME WordTypes, WordTypes', Separate(FirstFree, NextFree, AllFree), NEW t \in Threads,
         NEW c \in Slots, a_head[t].at = c, NEW w, w.at = tail[c].at,
         a_head' = [a_head EXCEPT ![t] = w], tail' = tail
  PROVE  Separate(FirstFree, NextFree, AllFree)' /\ AllFree' = AllFree \ {c} /\ c \in AllFree
<1>1. /\ NextFree \in [Slots -> Pointers] /\ FirstFree \in [Threads -> Pointers]
      /\ FirstFree' \in [Threads -> Pointers]
  BY PointersAre, PointersAfter
<1>2. Lists(FirstFree, NextFree) /\ AllFree = Members(FirstFree, NextFree)
  BY ListsAre DEF Lists
<1>3. AllFree' = Members(FirstFree', NextFree')
  BY ListsAfter
<1>4. \A u \in Threads : a_head'[u] = IF u = t THEN w ELSE a_head[u]
  BY DEF WordTypes
<1>5. NextFree' = NextFree
  BY DEF NextFree
<1>6. FirstFree' = [FirstFree EXCEPT ![t] = NextFree[c]] /\ FirstFree[t] = c
  <2>1. \A u \in Threads : FirstFree'[u] = IF u = t THEN NextFree[c] ELSE FirstFree[u]
    BY <1>4 DEF FirstFree, NextFree
  <2>2. FirstFree[t] = c
    BY DEF FirstFree
  <2> QED
    BY <1>1, <2>1, <2>2
<1>7. Taken(Threads, FirstFree, NextFree, c, FirstFree')
  <2> DEFINE f == FirstFree
             g == FirstFree'
             h == NextFree
  <2>1. ListsOver(Threads, f, h) /\ f[t] = c /\ g = [f EXCEPT ![t] = h[c]]
    BY <1>1, <1>2, <1>6 DEF ListsOver
  <2> HIDE DEF f, g, h
  <2>2. Taken(Threads, f, h, c, g)
    BY <2>1, PopLists, Zenon
  <2> QED
    BY <2>2 DEF f, g, h
<1>8. Lists(FirstFree', NextFree) /\ Members(FirstFree', NextFree) = Members(FirstFree, NextFree) \ {c}
  BY <1>7 DEF Taken, ListsOver
<1>9. c \in AllFree
  <2>1. From(NextFree, c) = {c} \cup From(NextFree, NextFree[c])
    BY <1>1, FromStep
  <2> QED
    BY <1>1, <1>2, <1>6, <2>1 DEF Members
<1> QED
  BY <1>2, <1>3, <1>5, <1>8, <1>9 DEF Lists

(***************************************************************************)
(* What a step of thread u may do to the others.                           *)
(***************************************************************************)
Others(u) == \A t \in Threads \ {u} : local'[t] = local[t] /\ call'[t] = call[t]

LinkRely(u) ==
  /\ \A n \in Nodes :
       /\ link[n].tag <= link'[n].tag
       /\ link'[n] = link[n] \/ link[n].tag < link'[n].tag \/ n \in Adding(u)
       /\ link'[n] = link[n] \/ n \in Buckets \/ n \in Chained \/ n \in Adding(u)
  /\ \A s \in Chained : link[s].marked => link'[s] = link[s]
  /\ \A b \in Buckets : \A s \in Reach(b) : s \in Reach(b)' \/ link[s].marked
  /\ \A n \in Nodes :
       (n \in Buckets \/ n \in Chained) /\ ~link[n].marked /\ link'[n] = link[n] =>
         \A s \in After(n) : s \in After(n)' \/ s \notin Chained'
  /\ \A s \in Chained' : s \in Chained \/ s \in Adding(u)
  /\ \A s \in Slots \ Adding(u) : key'[s] = key[s]

MapRely(u) ==
  \A k \in Keys :
    map'[k] = map[k] \/ (Writer(u) /\ call[u].key = k /\ (map[k] = None \/ map'[k] = None))

StackRely(u) ==
  /\ \A s \in Slots :
       /\ tag[s] <= tag'[s]
       /\ (At(u, "release") /\ local[u].slot = s)' =>
            tag[s] < tag'[s] \/ (At(u, "release") /\ local[u].slot = s)
  /\ \A s \in AllFree' : s \in AllFree \/ (At(u, "release") /\ local[u].slot = s)
  /\ \A s \in AllFree : tail'[s] = tail[s]

(* The operations whose places these are.                                  *)
LEMMA PlaceFacts ==
  ASSUME ThreadTypes, NEW t \in Threads
  PROVE  /\ local[t].pc \in AddPcs => call[t].op = "add"
         /\ local[t].pc \in {"mark", "bypass", "look", "push", "release"} => call[t].op = "remove"
         /\ local[t].pc \in SearchPcs => call[t].op \in {"lookup", "remove"}
         /\ Busy(t) => call[t].op \in Ops /\ call[t].key \in Keys /\ Hash[call[t].key] \in Buckets
         /\ local[t].pc \in AddPcs \cup RemovePcs => Busy(t)
         /\ call[t].op \in Ops => Busy(t)
<1>1. CallTypes(t) /\ LocalTypes(t)
  BY DEF ThreadTypes
<1>2. Busy(t) => call[t].op \in Ops /\ call[t].key \in Keys
  BY <1>1 DEF CallTypes, Calls, Busy
<1>3. local[t].pc \in AddPcs \cup RemovePcs => Busy(t)
  BY <1>1 DEF CallTypes, At, AddPcs, RemovePcs, SearchPcs, GrowPcs
<1>4. call[t].op \in Ops => Busy(t)
  BY DEF Busy, NoCall, Ops
<1>5. local[t].pc \in AddPcs => call[t].op = "add"
  BY <1>1, <1>2, <1>3 DEF CallTypes, Ops, AddPcs, RemovePcs, SearchPcs, GrowPcs
<1>6. local[t].pc \in RemovePcs => call[t].op \in {"lookup", "remove"}
  BY <1>1, <1>2, <1>3 DEF CallTypes, Ops, AddPcs, RemovePcs, SearchPcs, GrowPcs
<1>7. local[t].pc \in {"mark", "bypass", "look", "push", "release"} => call[t].op = "remove"
  BY <1>1, <1>6 DEF CallTypes, RemovePcs, SearchPcs
<1> QED
  BY <1>2, <1>3, <1>4, <1>5, <1>6, <1>7, CacheAssumption DEF RemovePcs

(* A slot that a thread adds is a slot, in its hands only.                 *)
LEMMA AddingFacts ==
  ASSUME IInv, NEW u \in Threads
  PROVE  /\ Adding(u) \subseteq Slots /\ Adding(u) \cap Chained = {} /\ Adding(u) \cap AllFree = {}
         /\ \A t \in Threads \ {u} : Adding(u) \cap Hands(t) = {}
         /\ Adding(u) # {} => call[u].op = "add"
<1>1. Adding(u) # {} => call[u].op = "add"
  BY PlaceFacts DEF IInv, Types, Adding, AddPcs, GrowPcs
<1>2. Adding(u) \subseteq Slots
  <2>1. AddInv(u)
    BY DEF IInv, ThreadInv
  <2> QED
    BY <1>1, <2>1 DEF AddInv, Adding, GrowPcs
<1> QED
  BY <1>1, <1>2 DEF IInv, AccountInv, Hands

(* What a pointer knows outlives the steps of the others.                  *)
LEMMA FreshKept ==
  ASSUME IInv, NEW u \in Threads, LinkRely(u), WordTypes',
         NEW n, NEW w \in Words, NEW b \in Buckets, Fresh(n, w, b)
  PROVE  Fresh(n, w, b)' /\ (link'[n] = w => link[n] = w /\ On(n, b))
<1>1. n \in Nodes /\ ~w.marked /\ w.tag <= link[n].tag /\ (w.tag = link[n].tag => w = link[n] /\ On(n, b))
  BY DEF Fresh
<1>2. link[n].tag \in Nat /\ link'[n].tag \in Nat /\ w.tag \in Nat
  BY <1>1 DEF IInv, Types, WordTypes, Words
<1>3. link[n].tag <= link'[n].tag /\ (link'[n] = link[n] \/ link[n].tag < link'[n].tag \/ n \in Adding(u))
  BY <1>1 DEF LinkRely
<1>4. w.tag <= link'[n].tag
  BY <1>1, <1>2, <1>3
<1>5. ASSUME w.tag = link'[n].tag
      PROVE  w = link[n] /\ w = link'[n] /\ On(n, b) /\ On(n, b)'
  <2>1. w = link[n] /\ On(n, b)
    BY <1>1, <1>2, <1>3, <1>5
  <2>2. n \notin Adding(u)
    <3>1. n \in Buckets \/ n \in Chained
      BY <2>1, ReachFacts DEF On, IInv, Types
    <3> QED
      BY <3>1, AddingFacts, CacheAssumption
  <2>3. link'[n] = link[n]
    BY <1>2, <1>3, <1>5, <2>1, <2>2
  <2>4. On(n, b)'
    <3>1. n \in Reach(b) => n \in Reach(b)'
      BY <1>1, <2>1 DEF LinkRely
    <3> QED
      BY <2>1, <3>1 DEF On
  <2> QED
    BY <2>1, <2>3, <2>4
<1> QED
  BY <1>1, <1>4, <1>5 DEF Fresh

(* A search that stands where it stood.                                    *)
LEMMA SearchKept ==
  ASSUME IInv, NEW u \in Threads, LinkRely(u), Others(u), WordTypes', NEW t \in Threads \ {u}
  PROVE  SearchInv(t)'
<1> DEFINE k == call[t].key
           b == Hash[k]
<1> SUFFICES ASSUME NEW v, v = local[t], NEW d, d = call[t]
             PROVE  SearchInv(t)'
  OBVIOUS
<1> DEFINE c == v.sprev.next
           B == Hash[d.key]
<1>0. local'[t] = v /\ call'[t] = d /\ SearchInv(t) /\ LocalTypes(t) /\ WordTypes /\ ListInv
  BY DEF Others, IInv, ThreadInv, Types, ThreadTypes
<1>1. v.sprev \in Words /\ v.scur \in Words
  BY <1>0 DEF LocalTypes
<1>2. CASE v.pc \notin SearchPcs \cup {"mark", "bypass"}
  BY <1>0, <1>2 DEF SearchInv, SearchPcs
<1>3. CASE v.pc \in SearchPcs \cup {"mark", "bypass"}
  <2>1. B \in Buckets /\ d.key \in Keys
    BY <1>3, PlaceFacts DEF IInv, Types, SearchPcs, RemovePcs
  <2>2. Fresh(v.prev, v.sprev, B)
    BY <1>0, <1>3 DEF SearchInv
  <2>3. Fresh(v.prev, v.sprev, B)' /\ (link'[v.prev] = v.sprev => link[v.prev] = v.sprev /\ On(v.prev, B))
    BY <1>1, <2>1, <2>2, FreshKept
  <2>4. v.pc \in {"check", "unlink", "compare", "recheck", "mark", "bypass"} => c # None
    BY <1>0 DEF SearchInv
  <2>5. ASSUME v.pc \in {"check", "unlink", "compare", "recheck"}, link'[v.prev] = v.sprev
        PROVE  c \in Slots /\ c \in Chained /\ c \in Nodes
    <3>1. link[v.prev] = v.sprev /\ On(v.prev, B) /\ v.prev \in Nodes
      BY <2>2, <2>3, <2>5 DEF Fresh
    <3>2. v.prev \in Buckets \/ v.prev \in Chained
      BY <1>0, <2>1, <3>1, ReachFacts DEF On
    <3> QED
      BY <1>0, <2>4, <2>5, <3>1, <3>2, AheadOf DEF Nodes
  <2>6. ASSUME v.pc \in {"check", "unlink", "compare", "recheck"}, link'[v.prev] = v.sprev
        PROVE  IF v.scur.marked THEN v.scur = link'[c] ELSE Fresh(c, v.scur, B)'
    <3>1. link[v.prev] = v.sprev
      BY <2>3, <2>6
    <3>2. IF v.scur.marked THEN v.scur = link[c] ELSE Fresh(c, v.scur, B)
      BY <1>0, <2>6, <3>1 DEF SearchInv, Still
    <3>3. CASE v.scur.marked
      BY <2>5, <2>6, <3>2, <3>3 DEF LinkRely
    <3>4. CASE ~v.scur.marked
      <4>1. Fresh(c, v.scur, B)
        BY <3>2, <3>4
      <4>2. Fresh(c, v.scur, B)'
        BY <1>1, <2>1, <4>1, FreshKept
      <4> QED
        BY <3>4, <4>2
    <3> QED
      BY <3>3, <3>4
  <2>7. (v.pc = "unlink" => v.scur.marked) /\ (v.pc \in {"compare", "recheck"} => ~v.scur.marked)
    BY <1>0 DEF SearchInv
  <2>8. ASSUME v.pc = "recheck", link'[v.prev] = v.sprev
        PROVE  v.hit = (key'[c] = d.key)
    <3>1. link[v.prev] = v.sprev
      BY <2>3, <2>8
    <3>2. v.hit = (key[c] = d.key)
      BY <1>0, <2>8, <3>1 DEF SearchInv, Still
    <3>3. key'[c] = key[c]
      BY <2>5, <2>8, AddingFacts DEF LinkRely
    <3> QED
      BY <3>2, <3>3
  <2> QED
    BY <1>0, <2>3, <2>4, <2>6, <2>7, <2>8 DEF SearchInv, Still
<1> QED
  BY <1>2, <1>3

(* Where a search stands, as seen from before the step.                    *)
StandsAt(n, w, b) == link[n] = w /\ On(n, b) /\ (n \in Buckets \/ n \in Chained) /\ n \in Nodes
(* A word that a search has read and that is still there after the step    *)
(* was there before it, and leads where it led, apart from what was        *)
(* unlinked.                                                               *)
LEMMA StandsKept ==
  ASSUME IInv, NEW u \in Threads, LinkRely(u), WordTypes',
         NEW n, NEW w \in Words, NEW b \in Buckets, Fresh(n, w, b), link'[n] = w
  PROVE  /\ StandsAt(n, w, b) /\ \A s \in After(n) : s \in After(n)' \/ s \notin Chained'
         /\ w.next # None => w.next \in Chained /\ w.next \in Slots
<1>1. link[n] = w /\ On(n, b) /\ n \in Nodes /\ ~w.marked
  BY FreshKept DEF Fresh
<1>2. n \in Buckets \/ n \in Chained
  BY <1>1, ReachFacts DEF On, IInv, Types
<1>3. w.next # None => w.next \in Chained /\ w.next \in Slots
  BY <1>1, <1>2, AheadOf DEF IInv, Types
<1> QED
  BY <1>1, <1>2, <1>3 DEF StandsAt, LinkRely

(* What a search must not miss was there before.                           *)
LEMMA TargetKept ==
  ASSUME IInv, NEW u \in Threads, LinkRely(u), MapRely(u), Others(u), NEW t \in Threads \ {u},
         WordTypes', MapIs(map)', ListInv', seen'[t] = seen[t] \cup {map'[call[t].key]},
         NEW s \in Slots, Target(t, s)'
  PROVE  Target(t, s) /\ s \in Chained'
<1> SUFFICES ASSUME NEW v, v = local[t], NEW d, d = call[t]
             PROVE  Target(t, s) /\ s \in Chained'
  OBVIOUS
<1>0. local'[t] = v /\ call'[t] = d /\ LocalTypes(t) /\ CallTypes(t)
  BY DEF Others, IInv, Types, ThreadTypes
<1>1. CASE d.op = "remove"
  <2>1. s = v.slot /\ s \in Chained'
    BY <1>0, <1>1 DEF Target
  <2>2. s \notin Chained => s \in Hands(t)
    BY <1>1, <2>1 DEF Hands, Removing
  <2>3. s \in Chained
    BY <2>1, <2>2, AddingFacts DEF LinkRely
  <2> QED
    BY <1>1, <2>1, <2>3 DEF Target
<1>2. CASE d.op # "remove"
  <2>1. d.op = "lookup" /\ None \notin seen'[t] /\ s = map'[d.key]
    BY <1>0, <1>2 DEF Target
  <2>2. d.key \in Keys
    BY <2>1, PlaceFacts DEF IInv, Types, Ops
  <2>3. None \notin seen[t] /\ map[d.key] \in seen[t]
    BY <2>1 DEF IInv, ThreadInv, LookupInv
  <2>4. map'[d.key] = map[d.key]
    BY <2>1, <2>2, <2>3 DEF MapRely
  <2>5. s \in Chained'
    <3>1. s # None
      BY SlotFacts
    <3>2. Holds(d.key, s)'
      <4>1. \A k \in Keys : map'[k] # None => Holds(k, map[k])' \/ map'[k] # map[k]
        BY DEF MapIs
      <4> QED
        BY <2>1, <2>2, <2>4, <3>1, <4>1 DEF Holds, MapIs
    <3> QED
      BY <2>2, <3>2, ReachAfter, CacheAssumption DEF Holds
  <2> QED
    BY <2>1, <2>3, <2>4, <2>5 DEF Target
<1> QED
  BY <1>1, <1>2

(* A step of u does not make the search of another thread miss its slot.   *)
LEMMA CompleteKept ==
  ASSUME IInv, NEW u \in Threads, LinkRely(u), MapRely(u), Others(u), NEW t \in Threads \ {u},
         WordTypes', MapIs(map)', ListInv', seen'[t] = seen[t] \cup {map'[call[t].key]}
  PROVE  CompleteInv(t)'
<1> SUFFICES ASSUME NEW v, v = local[t], NEW d, d = call[t]
             PROVE  CompleteInv(t)'
  OBVIOUS
<1> DEFINE c == v.sprev.next
           B == Hash[d.key]
<1>0. local'[t] = v /\ call'[t] = d /\ LocalTypes(t) /\ SearchInv(t) /\ CompleteInv(t)
  BY DEF Others, IInv, ThreadInv, Types, ThreadTypes
<1>1. v.sprev \in Words /\ v.scur \in Words
  BY <1>0 DEF LocalTypes
<1> SUFFICES ASSUME NEW s \in Slots, Target(t, s)', v.pc \in SearchPcs
             PROVE  /\ v.sprev.next # None /\ (link'[v.prev] = v.sprev => s \in After(v.prev)')
                    /\ v.pc \in ReadPcs /\ link'[v.prev] = v.sprev /\ ~v.scur.marked =>
                         IF s = c THEN ~v.marked
                         ELSE v.scur.next # None /\ (link'[c] = v.scur => s \in After(c)')
  <2>1. ReadPcs \subseteq SearchPcs
    BY DEF ReadPcs, SearchPcs
  <2> QED
    BY <1>0, <2>1 DEF CompleteInv, Ahead, Still
<1>2. Target(t, s) /\ s \in Chained'
  BY TargetKept
<1>3. B \in Buckets /\ d.key \in Keys
  BY PlaceFacts DEF IInv, Types, SearchPcs, RemovePcs
<1>4. Fresh(v.prev, v.sprev, B)
  BY <1>0 DEF SearchInv
<1>5. c # None /\ (link[v.prev] = v.sprev => s \in After(v.prev))
  BY <1>0, <1>2 DEF CompleteInv, Ahead
<1>6. link'[v.prev] = v.sprev => s \in After(v.prev)' /\ link[v.prev] = v.sprev
  BY <1>1, <1>2, <1>3, <1>4, <1>5, StandsKept DEF StandsAt
<1>7. ASSUME v.pc \in ReadPcs, link'[v.prev] = v.sprev, ~v.scur.marked
      PROVE  IF s = c THEN ~v.marked ELSE v.scur.next # None /\ (link'[c] = v.scur => s \in After(c)')
  <2>1. Fresh(c, v.scur, B)
    BY <1>0, <1>6, <1>7 DEF SearchInv, Still, ReadPcs
  <2>2. IF s = c THEN ~v.marked ELSE v.scur.next # None /\ (link[c] = v.scur => s \in After(c))
    BY <1>0, <1>2, <1>6, <1>7 DEF CompleteInv, Ahead, Still
  <2>3. link'[c] = v.scur => link[c] = v.scur /\ \A z \in After(c) : z \in After(c)' \/ z \notin Chained'
    BY <1>1, <1>3, <2>1, StandsKept DEF StandsAt
  <2> QED
    BY <1>2, <2>2, <2>3
<1> QED
  BY <1>5, <1>6, <1>7

(* A step of u leaves true what the lookup of another thread has seen.     *)
LEMMA LookupKept ==
  ASSUME IInv, NEW u \in Threads, LinkRely(u), Others(u), NEW t \in Threads \ {u},
         WordTypes', seen'[t] = seen[t] \cup {map'[call[t].key]}
  PROVE  LookupInv(t)'
<1> SUFFICES ASSUME NEW v, v = local[t], NEW d, d = call[t], d.op = "lookup"
             PROVE  LookupInv(t)'
  BY DEF Others, LookupInv
<1> DEFINE c == v.sprev.next
           B == Hash[d.key]
<1>0. local'[t] = v /\ call'[t] = d /\ LocalTypes(t) /\ CallTypes(t) /\ SearchInv(t) /\ LookupInv(t)
  BY DEF Others, IInv, ThreadInv, Types, ThreadTypes
<1>1. v.sprev \in Words /\ v.pc \in SearchPcs
  BY <1>0 DEF LocalTypes, CallTypes
<1>2. B \in Buckets /\ d.key \in Keys
  BY <1>1, PlaceFacts DEF IInv, Types, SearchPcs, RemovePcs
<1>3. Fresh(v.prev, v.sprev, B)
  BY <1>0, <1>1 DEF SearchInv
<1>4. ASSUME v.pc \in ReadPcs, link'[v.prev] = v.sprev, ~v.scur.marked, key'[c] = d.key
      PROVE  c \in seen[t]
  <2>1. link[v.prev] = v.sprev /\ c \in Chained /\ c \in Slots
    <3>1. c # None
      BY <1>0, <1>4 DEF SearchInv, ReadPcs
    <3> QED
      BY <1>1, <1>2, <1>3, <1>4, <3>1, StandsKept DEF StandsAt
  <2>2. key'[c] = key[c]
    BY <2>1, AddingFacts DEF LinkRely
  <2> QED
    BY <1>0, <1>4, <2>1, <2>2 DEF LookupInv, Still
<1> QED
  BY <1>0, <1>4 DEF LookupInv, Still

(* The slot of a removal, and whose it is.                                 *)
LEMMA WriterKept ==
  ASSUME IInv, NEW u \in Threads, MapRely(u), NEW t \in Threads \ {u}, Writer(t)
  PROVE  map'[call[t].key] = map[call[t].key] /\ call[t].key \in Keys
<1>1. call[t].key \in Keys
  BY PlaceFacts DEF IInv, Types, Writer, Ops
<1>2. ~(Writer(u) /\ call[u].key = call[t].key)
  BY DEF IInv, WriterInv
<1> QED
  BY <1>1, <1>2 DEF MapRely

(* A step of u leaves true what the removal of another thread knows.       *)
LEMMA RemoveKept ==
  ASSUME IInv, NEW u \in Threads, LinkRely(u), MapRely(u), Others(u), NEW t \in Threads \ {u}, WordTypes'
  PROVE  RemoveInv(t)'
<1> SUFFICES ASSUME NEW v, v = local[t], NEW d, d = call[t], d.op = "remove"
             PROVE  RemoveInv(t)'
  BY DEF Others, RemoveInv
<1> DEFINE c == v.sprev.next
           k == d.key
<1>0. local'[t] = v /\ call'[t] = d /\ LocalTypes(t) /\ SearchInv(t) /\ RemoveInv(t)
  BY DEF Others, IInv, ThreadInv, Types, ThreadTypes
<1>1. v.sprev \in Words /\ v.scur \in Words
  BY <1>0 DEF LocalTypes
<1>2. k \in Keys /\ Hash[k] \in Buckets /\ map'[k] = map[k]
  BY WriterKept, CacheAssumption DEF Writer
<1>3. v.slot \in Slots /\ key[v.slot] = k
  BY <1>0 DEF RemoveInv
<1>4. v.slot \notin Adding(u)
  <2>1. v.slot \notin Chained => v.slot \in Hands(t)
    BY DEF Hands, Removing
  <2> QED
    BY <2>1, AddingFacts
<1>5. key'[v.slot] = k
  BY <1>3, <1>4 DEF LinkRely
<1>6. link[v.slot].marked => link'[v.slot] = link[v.slot]
  <2>1. v.slot \in Nodes /\ v.slot \notin Buckets
    BY <1>3, CacheAssumption DEF Nodes
  <2> QED
    BY <1>4, <2>1 DEF LinkRely
<1>7. ASSUME v.pc = "mark"
      PROVE  ~v.marked /\ Fresh(c, v.scur, Hash[k])' /\ (link'[c] = v.scur => key'[c] = k)
  <2>1. ~v.marked /\ Fresh(c, v.scur, Hash[k]) /\ (link[c] = v.scur => key[c] = k) /\ c # None
    BY <1>0, <1>7 DEF RemoveInv, SearchInv
  <2>2. Fresh(c, v.scur, Hash[k])'
    BY <1>1, <1>2, <2>1, FreshKept
  <2>3. ASSUME link'[c] = v.scur PROVE key'[c] = k
    <3>1. StandsAt(c, v.scur, Hash[k])
      BY <1>1, <1>2, <2>1, <2>3, StandsKept
    <3>2. c \in Slots /\ c \notin Adding(u) /\ key[c] = k
      <4>1. c \in Slots
        BY <1>1, <2>1 DEF Words
      <4>2. c \in Chained
        BY <3>1, <4>1, CacheAssumption DEF StandsAt
      <4> QED
        BY <2>1, <3>1, <4>1, <4>2, AddingFacts DEF StandsAt
    <3> QED
      BY <3>2 DEF LinkRely
  <2> QED
    BY <2>1, <2>2, <2>3
<1>8. v.marked => map[k] = None /\ link[v.slot].marked
  BY <1>0 DEF RemoveInv
<1>9. v.pc \in {"bypass", "look", "push", "release"} => v.marked
  BY <1>0 DEF RemoveInv
<1>10. v.pc = "bypass" =>
         c = v.slot /\ link'[c] = [tag |-> v.scur.tag + 1, marked |-> TRUE, next |-> v.scur.next]
  <2>1. v.pc = "bypass" =>
          c = v.slot /\ link[c] = [tag |-> v.scur.tag + 1, marked |-> TRUE, next |-> v.scur.next]
    BY <1>0 DEF RemoveInv
  <2> QED
    BY <1>6, <1>8, <1>9, <2>1
<1>11. v.pc \in {"push", "release"} => v.slot \notin Chained'
  <2>1. v.pc \in {"push", "release"} => v.slot \notin Chained
    BY <1>0 DEF RemoveInv
  <2> QED
    BY <1>4, <2>1 DEF LinkRely
<1>12. ~v.marked => map[k] = v.slot /\ ~v.again
  BY <1>0 DEF RemoveInv
<1> QED
  BY <1>0, <1>2, <1>3, <1>5, <1>6, <1>7, <1>8, <1>9, <1>10, <1>11, <1>12 DEF RemoveInv

(* A step of u leaves true what the addition of another thread knows.      *)
LEMMA AddKept ==
  ASSUME IInv, NEW u \in Threads, LinkRely(u), MapRely(u), Others(u), NEW t \in Threads \ {u}, WordTypes'
  PROVE  AddInv(t)'
<1> SUFFICES ASSUME NEW v, v = local[t], NEW d, d = call[t], d.op = "add"
             PROVE  AddInv(t)'
  BY DEF Others, AddInv
<1> DEFINE k == d.key
<1>0. local'[t] = v /\ call'[t] = d /\ AddInv(t)
  BY DEF Others, IInv, ThreadInv
<1>1. map'[k] = map[k] /\ k \in Keys
  BY WriterKept DEF Writer
<1>2. v.pc \in GrowPcs \cup {"set_key", "store", "link", "added"} => v.slot \in Slots
  BY <1>0 DEF AddInv
<1>3. ASSUME v.pc \in {"store", "link"}
      PROVE  key'[v.slot] = key[v.slot] /\ link'[v.slot] = link[v.slot]
  <2>1. v.slot \in Adding(t)
    BY <1>3 DEF Adding
  <2>2. v.slot \notin Adding(u) /\ v.slot \notin Chained
    BY <2>1, AddingFacts DEF Hands
  <2>3. v.slot \in Slots /\ v.slot \in Nodes /\ v.slot \notin Buckets
    BY <1>2, <1>3, CacheAssumption DEF Nodes
  <2> QED
    BY <2>2, <2>3 DEF LinkRely
<1>4. ASSUME v.pc = "added"
      PROVE  key'[v.slot] = key[v.slot]
  <2>1. v.slot \in Slots /\ map[k] = v.slot
    BY <1>0, <1>2, <1>4 DEF AddInv
  <2>2. v.slot \in Reach(Hash[k])
    <3>1. v.slot # None
      BY <2>1, SlotFacts
    <3> QED
      BY <1>1, <2>1, <3>1 DEF IInv, MapIs, Holds
  <2>3. v.slot \in Chained
    BY <1>1, <2>2, ReachFacts, CacheAssumption DEF IInv, Types
  <2> QED
    BY <2>1, <2>3, AddingFacts DEF LinkRely
<1> QED
  BY <1>0, <1>1, <1>2, <1>3, <1>4 DEF AddInv

(* A step of u leaves true what the pop of another thread knows: a tag     *)
(* that did not move is that of the same push.                             *)
LEMMA PopKept ==
  ASSUME IInv, NEW u \in Threads, StackRely(u), Others(u), NEW t \in Threads \ {u}, WordTypes'
  PROVE  PopInv(t)'
<1> SUFFICES ASSUME NEW v, v = local[t] PROVE PopInv(t)'
  OBVIOUS
<1> DEFINE s == v.top.at
<1>0. local'[t] = v /\ LocalTypes(t) /\ PopInv(t)
  BY DEF Others, IInv, ThreadInv, Types, ThreadTypes
<1>1. CASE v.pc \notin {"under", "take"}
  BY <1>0, <1>1 DEF PopInv
<1>2. CASE v.pc \in {"under", "take"}
  <2>1. s # None /\ v.top.tag <= tag[s] /\ v.from \in Threads
    BY <1>0, <1>2 DEF PopInv
  <2>2. s \in Slots
    BY <1>0, <2>1 DEF LocalTypes, Tops
  <2>3. v.top.tag \in Nat /\ tag[s] \in Nat /\ tag'[s] \in Nat
    BY <1>0, <2>2 DEF LocalTypes, Tops, IInv, Types, WordTypes
  <2>4. tag[s] <= tag'[s] /\ v.top.tag <= tag'[s]
    BY <2>1, <2>2, <2>3 DEF StackRely
  <2>5. ASSUME v.top.tag = tag'[s]
        PROVE  /\ v.top.tag = tag[s] /\ ~(At(u, "release") /\ local[u].slot = s)
               /\ \A w \in Threads : ~(At(w, "release") /\ local[w].slot = s)'
    <3>1. v.top.tag = tag[s]
      BY <2>1, <2>3, <2>4, <2>5
    <3>2. \A w \in Threads : ~(At(w, "release") /\ local[w].slot = s)
      BY <1>0, <1>2, <3>1 DEF PopInv
    <3>3. ~(At(u, "release") /\ local[u].slot = s)'
      <4>1. ~(tag[s] < tag'[s])
        BY <2>3, <2>5, <3>1
      <4>2. ~(At(u, "release") /\ local[u].slot = s)
        BY <3>2
      <4> QED
        BY <2>2, <4>1, <4>2 DEF StackRely, At
    <3>4. \A w \in Threads \ {u} : ~(At(w, "release") /\ local[w].slot = s)'
      BY <3>2 DEF At, Others
    <3> QED
      BY <3>1, <3>2, <3>3, <3>4
  <2>6. ASSUME v.pc = "take", s \in AllFree', v.top.tag = tag'[s]
        PROVE  tail'[s] = v.under
    <3>1. v.top.tag = tag[s] /\ s \in AllFree
      BY <2>5, <2>6 DEF StackRely
    <3>2. tail[s] = v.under
      BY <1>0, <2>6, <3>1 DEF PopInv
    <3> QED
      BY <3>1, <3>2 DEF StackRely
  <2> QED
    BY <1>0, <2>1, <2>4, <2>5, <2>6 DEF PopInv, At
<1> QED
  BY <1>1, <1>2

(* The others keep what they know.                                         *)
Rely(u) == LinkRely(u) /\ MapRely(u) /\ StackRely(u) /\ Others(u)
(* A step within the bounds that Rely(u) sets leaves every other thread    *)
(* what it knows.                                                          *)
LEMMA OthersKept ==
  ASSUME IInv, NEW u \in Threads, Rely(u), WordTypes', MapIs(map)', ListInv', Witness
  PROVE  \A t \in Threads \ {u} : ThreadInv(t)'
<1> SUFFICES ASSUME NEW t \in Threads \ {u} PROVE ThreadInv(t)'
  OBVIOUS
<1>0. LinkRely(u) /\ MapRely(u) /\ StackRely(u) /\ Others(u)
  BY DEF Rely
<1>1. CASE Busy(t)
  <2>1. seen'[t] = seen[t] \cup {map'[call[t].key]}
    BY <1>0, <1>1 DEF Witness, Busy, Others
  <2> QED
    BY <1>0, <2>1, SearchKept, CompleteKept, LookupKept, RemoveKept, AddKept, PopKept DEF ThreadInv
<1>2. CASE ~Busy(t)
  <2>1. local'[t].pc \in {"idle", "task"} /\ call'[t].op = "none"
    <3>1. At(t, "idle") \/ At(t, "task")
      BY <1>2 DEF IInv, Types, ThreadTypes, CallTypes
    <3> QED
      BY <1>0, <1>2, <3>1 DEF At, Others, Busy, NoCall
  <2> QED
    BY <2>1 DEF ThreadInv, SearchInv, CompleteInv, Target, LookupInv, RemoveInv, AddInv, PopInv,
                SearchPcs, ReadPcs, GrowPcs
<1> QED
  BY <1>1, <1>2

(***************************************************************************)
(* Steps that leave the map or the stacks alone.                           *)
(***************************************************************************)
LEMMA MappedSame ==
  ASSUME IInv, WordTypes', UNCHANGED mapped
  PROVE  SameLists /\ \A u \in Threads : LinkRely(u)
<1>1. link' = link /\ key' = key /\ WordTypes /\ Separate(FirstNode, NextNode, Chained)
  BY DEF mapped, IInv, Types, ListInv
<1>2. SameLists
  BY <1>1, SameStep
<1>3. ASSUME NEW u \in Threads PROVE LinkRely(u)
  <2>1. \A n \in Nodes : link[n].tag <= link'[n].tag
    <3>1. \A n \in Nodes : link[n].tag \in Nat
      BY <1>1 DEF WordTypes, Words
    <3> QED
      BY <1>1, <3>1
  <2> QED
    BY <1>1, <1>2, <2>1 DEF LinkRely, SameLists
<1> QED
  BY <1>2, <1>3

(* A step that writes no word of the stacks is within StackRely.           *)
LEMMA StacksSame ==
  ASSUME IInv, WordTypes', UNCHANGED stacks, NEW u \in Threads,
         (At(u, "release") => local[u].slot \in Slots)',
         \A s \in Slots : (At(u, "release") /\ local[u].slot = s)' => At(u, "release") /\ local[u].slot = s
  PROVE  SameStacks /\ StackRely(u)
<1>1. a_head' = a_head /\ tag' = tag /\ tail' = tail /\ WordTypes /\ Separate(FirstFree, NextFree, AllFree)
  BY DEF stacks, IInv, Types, StackInv
<1>2. SameStacks
  BY <1>1, SameFree
<1>3. StackRely(u)
  <2>1. \A s \in Slots : tag[s] <= tag'[s]
    BY <1>1 DEF WordTypes
  <2> QED
    BY <1>1, <1>2, <2>1 DEF StackRely, SameStacks
<1> QED
  BY <1>2, <1>3

(* The history variables have their types.                                 *)
LEMMA SeenTypes ==
  ASSUME MapTypes, Witness, ThreadTypes', map' \in [Keys -> Pointers]
  PROVE  MapTypes'
<1>1. \A t \in Threads : call'[t] # NoCall => call'[t].key \in Keys
  BY DEF ThreadTypes, CallTypes, Calls
<1>2. \A t \in Threads : call'[t] # NoCall => map'[call'[t].key] \in Pointers
  BY <1>1
<1>3. seen' \in [Threads -> SUBSET Pointers]
  BY <1>2 DEF Witness, MapTypes
<1> QED
  BY <1>3 DEF MapTypes

(* The map of a step that leaves the lists alone.                          *)
LEMMA MapSame ==
  ASSUME IInv, WordTypes', UNCHANGED mapped, Witness
  PROVE  map' = map /\ MapIs(map)' /\ \A u \in Threads : MapRely(u)
<1>1. map' = map /\ link' = link /\ key' = key /\ MapIs(map)
  BY DEF mapped, Witness, IInv
<1>2. SameLists
  BY MappedSame
<1>3. MapIs(map)'
  BY <1>1, <1>2, CacheAssumption DEF MapIs, SameLists, Holds
<1> QED
  BY <1>1, <1>3 DEF MapRely

(* The marked nodes keep their removers.                                   *)
LEMMA ListsSame ==
  ASSUME IInv, WordTypes', UNCHANGED mapped,
         \A t \in Threads, s \in Chained : Remover(t, s) => Remover(t, s)'
  PROVE  ListInv'
<1>1. link' = link /\ key' = key /\ SameLists
  BY MappedSame DEF mapped
<1>2. \A b \in Buckets : ~link'[b].marked /\ \A s \in Reach(b)' : key'[s] \in Keys /\ Hash[key'[s]] = b
  BY <1>1 DEF IInv, ListInv, SameLists
<1>3. \A s \in Chained' : link'[s].marked => \E t \in Threads : Remover(t, s)'
  BY <1>1 DEF IInv, ListInv, SameLists
<1> QED
  BY <1>1, <1>2, <1>3 DEF ListInv, SameLists

-------------------------------------------------------------------------------
(* A step that changes only what one thread knows.                         *)
Place(t) ==
  /\ call[t].op = "lookup" => local[t].pc \in SearchPcs
  /\ call[t].op = "add" => local[t].pc \in AddPcs
  /\ call[t].op = "remove" => local[t].pc \in RemovePcs
Private(u) ==
  /\ UNCHANGED <<client, mapped, stacks, a_count_max, call, result, calls, tick>>
  /\ a_length' \in Nat /\ a_length <= a_length' /\ a_adding_memory' \in BOOLEAN
  /\ DOMAIN local' = Threads /\ \A t \in Threads \ {u} : local'[t] = local[t]
  /\ Busy(u) /\ LocalTypes(u)' /\ Place(u)'
  /\ local'[u].slot = local[u].slot /\ local'[u].marked = local[u].marked
  /\ Adding(u)' = Adding(u)
  /\ local[u].pc \notin {"idle", "task", "push", "release", "added"}
  /\ local'[u].pc \notin {"idle", "task", "release", "added"}
  /\ local'[u].pc = "push" => local[u].slot \notin Chained
  /\ local[u].pc \in GrowPcs => local'[u].pc \in GrowPcs \/ local[u].slot < a_length'

(* A private step keeps the types.                                         *)
LEMMA PrivateTypes ==
  ASSUME IInv, NEW u \in Threads, Private(u)
  PROVE  WordTypes' /\ ThreadTypes' /\ OtherTypes'
<1>1. WordTypes'
  BY DEF Private, mapped, stacks, WordTypes, IInv, Types
<1>2. OtherTypes'
  BY DEF Private, tick, agenda, OtherTypes, IInv, Types
<1>3. ThreadTypes'
  <2>1. call' = call /\ result' = result /\ DOMAIN local' = Threads
    BY DEF Private
  <2>2. ASSUME NEW t \in Threads PROVE (LocalTypes(t) /\ CallTypes(t))'
    <3>0. LocalTypes(t) /\ CallTypes(t)
      BY DEF IInv, Types, ThreadTypes
    <3>1. CASE t = u
      <4>1. LocalTypes(t)' /\ Place(t)' /\ ~(At(t, "idle") \/ At(t, "task"))' /\ Busy(t)'
        BY <2>1, <3>1 DEF Private, At, Busy
      <4> QED
        BY <2>1, <3>0, <4>1 DEF CallTypes, Place
    <3>2. CASE t # u
      <4>1. local'[t] = local[t]
        BY <3>2 DEF Private
      <4> QED
        BY <2>1, <3>0, <4>1 DEF LocalTypes, CallTypes, At, Busy
    <3> QED
      BY <3>1, <3>2
  <2> QED
    BY <2>1, <2>2 DEF IInv, Types, ThreadTypes
<1> QED
  BY <1>1, <1>2, <1>3

(* The others do as before.                                                *)
LEMMA PrivateRely ==
  ASSUME IInv, NEW u \in Threads, Private(u), Witness
  PROVE  SameLists /\ SameStacks /\ Rely(u) /\ map' = map /\ MapIs(map)' /\ ListInv'
<1>1. WordTypes' /\ UNCHANGED mapped /\ UNCHANGED stacks
  BY PrivateTypes DEF Private
<1>2. local'[u].pc # "release"
  BY DEF Private
<1>3. SameStacks /\ StackRely(u)
  BY <1>1, <1>2, StacksSame DEF At
<1>4. SameLists /\ LinkRely(u)
  BY <1>1, MappedSame
<1>5. map' = map /\ MapIs(map)' /\ MapRely(u)
  BY <1>1, MapSame
<1>6. Others(u)
  BY DEF Private, Others
<1>7. ListInv'
  <2>1. ASSUME NEW t \in Threads, NEW s \in Chained, Remover(t, s)
        PROVE  Remover(t, s)'
    BY <2>1 DEF Remover, Private
  <2> QED
    BY <1>1, <2>1, ListsSame
<1> QED
  BY <1>3, <1>4, <1>5, <1>6, <1>7 DEF Rely

(* A private step leaves every slot in the hands that held it.             *)
LEMMA PrivateHands ==
  ASSUME IInv, NEW u \in Threads, Private(u), SameLists, NEW t \in Threads
  PROVE  Adding(t)' = Adding(t) /\ Hands(t)' = Hands(t)
<1>1. call' = call /\ Chained' = Chained
  BY DEF Private, SameLists
<1>2. Adding(t)' = Adding(t)
  BY DEF Private, Adding
<1>3. Removing(t)' = Removing(t)
  <2>1. CASE t = u
    BY <1>1, <2>1 DEF Private, Removing, At
  <2>2. CASE t # u
    <3>1. local'[t] = local[t]
      BY <2>2 DEF Private
    <3> QED
      BY <1>1, <3>1 DEF Removing, At
  <2> QED
    BY <2>1, <2>2
<1> QED
  BY <1>2, <1>3 DEF Hands

(* A private step leaves every slot where it is.                           *)
LEMMA PrivateAccount ==
  ASSUME IInv, NEW u \in Threads, Private(u), SameLists, SameStacks
  PROVE  AccountInv'
<1>1. /\ Chained' = Chained /\ AllFree' = AllFree /\ a_count_max' = a_count_max
      /\ \A t \in Threads : Hands(t)' = Hands(t)
  BY PrivateHands DEF Private, SameLists, SameStacks
<1>2. ASSUME NEW s \in Slots, s < a_count_max
      PROVE  s < a_length' \/ \E t \in Threads : (local[t].pc \in GrowPcs /\ local[t].slot = s)'
  <2>1. s < a_length \/ \E t \in Threads : local[t].pc \in GrowPcs /\ local[t].slot = s
    BY <1>2 DEF IInv, AccountInv
  <2>2. CASE s < a_length
    <3>1. s \in Int /\ a_length \in Int /\ a_length' \in Int /\ a_length <= a_length'
      BY CacheAssumption DEF Slots, IInv, Types, OtherTypes, Private
    <3> QED
      BY <2>2, <3>1
  <2>3. ASSUME NEW t \in Threads, local[t].pc \in GrowPcs, local[t].slot = s
        PROVE  s < a_length' \/ (local[t].pc \in GrowPcs /\ local[t].slot = s)'
    <3>1. CASE t = u
      BY <2>3, <3>1 DEF Private
    <3>2. CASE t # u
      BY <2>3, <3>2 DEF Private
    <3> QED
      BY <3>1, <3>2
  <2> QED
    BY <2>1, <2>2, <2>3
<1> QED
  BY <1>1, <1>2 DEF IInv, AccountInv

(* A step that writes no word of the stacks keeps their invariant.         *)
LEMMA PrivateStacks ==
  ASSUME IInv, UNCHANGED stacks, SameStacks
  PROVE  StackInv'
<1>1. a_head' = a_head /\ tag' = tag /\ tail' = tail /\ AllFree' = AllFree
  BY DEF stacks, SameStacks
<1> QED
  BY <1>1 DEF IInv, StackInv, SameStacks

(* A private step keeps the invariant of the tick.                         *)
LEMMA PrivateTick ==
  ASSUME IInv, NEW u \in Threads, Private(u), SameLists, SameStacks, Witness
  PROVE  TickInv'
<1>1. /\ client' = client /\ phase' = phase /\ todo' = todo /\ output' = output /\ stale' = stale
      /\ persistent' = persistent /\ bit_count' = bit_count /\ call' = call
      /\ Chained' = Chained /\ AllFree' = AllFree /\ map' = map /\ TickInv
  BY PrivateRely DEF Private, SameLists, SameStacks, tick, agenda, IInv
<1>2. \A t \in Threads : /\ At(t, "idle")' = At(t, "idle") /\ At(t, "task")' = At(t, "task")
                         /\ At(t, "added")' = At(t, "added") /\ local'[t].slot = local[t].slot
                         /\ At(t, "task") => local'[t] = local[t]
  <2> SUFFICES ASSUME NEW t \in Threads
               PROVE /\ At(t, "idle")' = At(t, "idle") /\ At(t, "task")' = At(t, "task")
                     /\ At(t, "added")' = At(t, "added") /\ local'[t].slot = local[t].slot
                     /\ At(t, "task") => local'[t] = local[t]
    OBVIOUS
  <2>1. CASE t = u
    BY <2>1 DEF Private, At
  <2>2. CASE t # u
    BY <2>2 DEF Private, At
  <2> QED
    BY <2>1, <2>2
<1>3. \A s \in Slots : Linked(s)' = Linked(s) /\ Removed(s)' = Removed(s)
  BY <1>1, <1>2 DEF Linked, Removed
<1>4. \A t \in Threads : Pairs(t)' = Pairs(t)
  BY <1>1, <1>2 DEF Pairs, Busy
<1>5. \A t \in Threads : call[t].op = "lookup" => seen'[t] = seen[t]
  <2> SUFFICES ASSUME NEW t \in Threads, call[t].op = "lookup" PROVE seen'[t] = seen[t]
    OBVIOUS
  <2>1. map[call[t].key] \in seen[t] /\ call[t] # NoCall
    BY DEF IInv, ThreadInv, LookupInv, NoCall
  <2> QED
    BY <1>1, <2>1 DEF Witness
<1>6. QuietInv => QuietInv'
  BY <1>1, <1>2 DEF QuietInv
<1>7. TasksInv => TasksInv'
  <2> SUFFICES ASSUME TasksInv PROVE TasksInv'
    OBVIOUS
  <2>1. \A t \in Threads :
          /\ call'[t].op # "remove" /\ Pairs(t)' \cap todo' = {}
          /\ \A w \in Threads : t # w => Pairs(t)' \cap Pairs(w)' = {}
    BY <1>1, <1>4 DEF TasksInv
  <2>2. \A t \in Threads : At(t, "task")' => local'[t].pair \in Keys /\ map'[local'[t].pair] = None
    BY <1>1, <1>2 DEF TasksInv
  <2>3. \A t \in Threads : call'[t].op = "lookup" /\ None \in seen'[t] => map'[call'[t].key] = None
    BY <1>1, <1>5 DEF TasksInv
  <2>4. \A s \in Slots : s \in Chained' <=> s \in persistent' \/ s \in output' \/ Linked(s)'
    BY <1>1, <1>3 DEF TasksInv
  <2> QED
    BY <2>1, <2>2, <2>3, <2>4 DEF TasksInv
<1>8. ManageInv => ManageInv'
  BY <1>1, <1>2, <1>3 DEF ManageInv
<1> QED
  BY <1>1, <1>2, <1>3, <1>6, <1>7, <1>8 DEF TickInv

(* So it is enough that the thread itself knows what it should.            *)
LEMMA PrivateKept ==
  ASSUME IInv, NEW u \in Threads, Private(u), Witness, ThreadInv(u)'
  PROVE  IInv'
<1>1. WordTypes' /\ ThreadTypes' /\ OtherTypes'
  BY PrivateTypes
<1>2. SameLists /\ SameStacks /\ Rely(u) /\ map' = map /\ MapIs(map)' /\ ListInv'
  BY PrivateRely
<1>3. MapTypes'
  BY <1>1, <1>2, SeenTypes DEF IInv, Types, MapTypes
<1>4. WriterInv'
  BY DEF Private, IInv, WriterInv, Writer
<1>5. StackInv' /\ AccountInv' /\ TickInv'
  BY <1>2, PrivateStacks, PrivateAccount, PrivateTick DEF Private
<1>6. \A t \in Threads : ThreadInv(t)'
  BY <1>1, <1>2, OthersKept
<1> QED
  BY <1>1, <1>2, <1>3, <1>4, <1>5, <1>6 DEF IInv, Types

-------------------------------------------------------------------------------
(* The searches.                                                           *)
OnlyLocal == UNCHANGED <<client, mapped, stacks, pool, call, result, calls, tick>>
Keeps(u, F) ==
  /\ DOMAIN local' = Threads /\ DOMAIN local'[u] = Fields
  /\ \A t \in Threads \ {u} : local'[t] = local[t]
  /\ \A f \in Fields \ F : local'[u][f] = local[u][f]

(* What stays when only one thread knows more.                             *)
LEMMA PrivateFacts ==
  ASSUME IInv, NEW u \in Threads, Private(u), Witness
  PROVE  /\ link' = link /\ key' = key /\ tag' = tag /\ tail' = tail /\ a_head' = a_head
         /\ call' = call /\ map' = map /\ Chained' = Chained /\ AllFree' = AllFree
         /\ \A n \in Nodes : n \in Buckets \/ n \in Chained => After(n)' = After(n)
         /\ \A b \in Buckets : Reach(b)' = Reach(b)
         /\ call[u].op = "lookup" => seen'[u] = seen[u]
         /\ \A s \in Slots : Target(u, s)' = Target(u, s)
<1>1. /\ link' = link /\ key' = key /\ tag' = tag /\ tail' = tail /\ a_head' = a_head
      /\ call' = call /\ map' = map /\ Chained' = Chained /\ AllFree' = AllFree
      /\ \A n \in Nodes : n \in Buckets \/ n \in Chained => After(n)' = After(n)
      /\ \A b \in Buckets : Reach(b)' = Reach(b)
  BY PrivateRely DEF Private, mapped, stacks, SameLists, SameStacks
<1>2. call[u].op = "lookup" => seen'[u] = seen[u]
  <2>1. call[u].op = "lookup" => map[call[u].key] \in seen[u] /\ call[u] # NoCall
    BY DEF IInv, ThreadInv, LookupInv, NoCall
  <2> QED
    BY <1>1, <2>1 DEF Witness
<1>3. local'[u].slot = local[u].slot
  BY DEF Private
<1>4. \A s \in Slots : Target(u, s)' = Target(u, s)
  BY <1>1, <1>2, <1>3 DEF Target
<1> QED
  BY <1>1, <1>2, <1>4

(* A step of a search that only changes local variables is private.        *)
LEMMA SearchPrivate ==
  ASSUME IInv, NEW u \in Threads, OnlyLocal, NEW F, Keeps(u, F), F \cap {"slot", "marked"} = {},
         call[u].op \in {"lookup", "remove"},
         local[u].pc \in SearchPcs \cup {"mark", "bypass", "look"},
         local'[u].pc \in SearchPcs \cup {"mark", "look", "push"},
         local'[u].pc \in {"mark", "look", "push"} => call[u].op = "remove",
         local'[u].pc = "push" => local[u].slot \notin Chained,
         LocalTypes(u)'
  PROVE  Private(u)
<1>1. local'[u].slot = local[u].slot /\ local'[u].marked = local[u].marked
  BY DEF Keeps, Fields
<1>2. Adding(u)' = {} /\ Adding(u) = {}
  BY DEF Adding, SearchPcs
<1>3. Busy(u)
  BY DEF Busy, NoCall
<1>4. local[u].pc \notin GrowPcs
  BY DEF SearchPcs, GrowPcs
<1>5. UNCHANGED <<client, mapped, stacks, a_count_max, call, result, calls, tick>>
  BY DEF OnlyLocal, pool
<1>6. a_length' \in Nat /\ a_length <= a_length' /\ a_adding_memory' \in BOOLEAN
  BY DEF OnlyLocal, pool, IInv, Types, OtherTypes
<1>7. Place(u)'
  <2>1. call'[u] = call[u]
    BY <1>5
  <2> QED
    BY <2>1 DEF Place, RemovePcs
<1>8. /\ local[u].pc \notin {"idle", "task", "push", "release", "added"}
      /\ local'[u].pc \notin {"idle", "task", "release", "added"}
  BY DEF SearchPcs
<1> QED
  BY <1>1, <1>2, <1>3, <1>4, <1>5, <1>6, <1>7, <1>8 DEF Private, Keeps

(* A thread in a search knows nothing of additions or of pops.             *)
LEMMA SearchThread ==
  ASSUME NEW u \in Threads, call'[u].op \in {"lookup", "remove"},
         local'[u].pc \in SearchPcs \cup {"mark", "bypass", "look", "push", "release"},
         SearchInv(u)', CompleteInv(u)', LookupInv(u)', RemoveInv(u)'
  PROVE  ThreadInv(u)'
<1>1. AddInv(u)' /\ PopInv(u)'
  BY DEF AddInv, PopInv, SearchPcs
<1> QED
  BY <1>1 DEF ThreadInv

(* A pointer that leads somewhere.                                         *)
LEMMA LeadsOn ==
  ASSUME IInv, NEW n \in Nodes, NEW s \in After(n)
  PROVE  link[n].next # None
<1>1. link[n].next \in Pointers /\ After(n) = From(NextNode, link[n].next)
  BY PointersAre, ListsAre DEF IInv, Types
<1> QED
  BY <1>1, PointersAre, FromNone DEF IInv, Types

(* A slot that a search must not miss is in the list it goes along.        *)
LEMMA TargetIn ==
  ASSUME IInv, NEW u \in Threads, NEW s \in Slots, Target(u, s)
  PROVE  /\ s \in Reach(Hash[call[u].key]) /\ key[s] = call[u].key
         /\ call[u].op = "lookup" => ~link[s].marked
         /\ call[u].op = "remove" => s = local[u].slot
<1>1. call[u].op \in {"lookup", "remove"}
  BY DEF Target
<1>2. call[u].key \in Keys /\ Hash[call[u].key] \in Buckets
  BY <1>1, PlaceFacts DEF IInv, Types, Ops
<1>3. CASE call[u].op = "remove"
  <2>1. s = local[u].slot /\ s \in Chained /\ key[s] = call[u].key
    BY <1>3 DEF Target, IInv, ThreadInv, RemoveInv
  <2>2. PICK b \in Buckets : s \in Reach(b)
    BY <2>1, ReachFacts DEF IInv, Types
  <2>3. Hash[key[s]] = b
    BY <2>2 DEF IInv, ListInv
  <2> QED
    BY <1>3, <2>1, <2>2, <2>3
<1>4. CASE call[u].op = "lookup"
  <2>1. s = map[call[u].key] /\ s # None
    BY <1>4, SlotFacts DEF Target
  <2> QED
    BY <1>2, <1>4, <2>1 DEF IInv, MapIs, Holds
<1> QED
  BY <1>1, <1>3, <1>4

(* A search starts at the front of the list.                               *)
LEMMA FrontKnown ==
  ASSUME IInv, NEW u \in Threads, Busy(u)
  PROVE  LET b == Hash[call[u].key]
         IN /\ b \in Buckets /\ b \in Nodes /\ Fresh(b, link[b], b)
            /\ \A s \in Slots : Target(u, s) => Ahead(b, link[b], s)
<1> DEFINE b == Hash[call[u].key]
<1>1. b \in Buckets /\ b \in Nodes
  BY PlaceFacts DEF IInv, Types, Nodes
<1>2. Fresh(b, link[b], b)
  <2>1. ~link[b].marked /\ link[b].tag \in Nat
    BY <1>1 DEF IInv, ListInv, Types, WordTypes, Words
  <2> QED
    BY <1>1, <2>1 DEF Fresh, On
<1>3. ASSUME NEW s \in Slots, Target(u, s)
      PROVE  Ahead(b, link[b], s)
  <2>1. s \in After(b)
    BY <1>1, <1>3, TargetIn, ReachFacts DEF IInv, Types
  <2>2. link[b].next # None
    BY <1>1, <2>1, LeadsOn
  <2> QED
    BY <2>1, <2>2 DEF Ahead
<1> QED
  BY <1>1, <1>2, <1>3

(* A search that starts over, at the word that the bucket holds now, keeps *)
(* the invariant.                                                          *)
LEMMA RestartKept ==
  ASSUME IInv, NEW u \in Threads, OnlyLocal, Witness, NEW again \in BOOLEAN, Set(u, Restart(u, again)),
         call[u].op \in {"lookup", "remove"},
         local[u].pc \in SearchPcs \cup {"mark", "bypass", "look"},
         again => local[u].again \/ local[u].marked
  PROVE  IInv'
<1> DEFINE b == Hash[call[u].key]
           F == {"pc", "prev", "sprev", "again"}
<1>0. LocalTypes(u) /\ DOMAIN local = Threads /\ Busy(u)
  BY DEF IInv, Types, ThreadTypes, Busy, NoCall
<1>1. /\ Keeps(u, F) /\ local'[u].pc = "follow" /\ local'[u].prev = b
      /\ local'[u].sprev = link[b] /\ local'[u].again = again
  BY <1>0 DEF Set, Restart, Keeps, LocalTypes, Fields
<1>2. b \in Buckets /\ b \in Nodes /\ Fresh(b, link[b], b) /\ \A s \in Slots : Target(u, s) => Ahead(b, link[b], s)
  BY <1>0, FrontKnown
<1>3. LocalTypes(u)'
  <2>1. link[b] \in Words
    BY <1>2 DEF IInv, Types, WordTypes
  <2>2. DOMAIN local'[u] = Fields /\ \A f \in Fields \ F : local'[u][f] = local[u][f]
    BY <1>1 DEF Keeps
  <2> HIDE DEF b
  <2> QED
    BY <1>0, <1>1, <1>2, <2>1, <2>2 DEF LocalTypes, Fields, RemovePcs, SearchPcs
<1>4. Private(u)
  <2>1. local'[u].pc \in SearchPcs
    BY <1>1 DEF SearchPcs
  <2>2. F \cap {"slot", "marked"} = {}
    OBVIOUS
  <2>3. local'[u].pc \notin {"mark", "look", "push"}
    BY <1>1
  <2> HIDE DEF F
  <2> QED
    BY <1>1, <1>3, <2>1, <2>2, <2>3, SearchPrivate
<1>5. /\ link' = link /\ key' = key /\ call' = call /\ map' = map /\ Chained' = Chained
      /\ \A n \in Nodes : n \in Buckets \/ n \in Chained => After(n)' = After(n)
      /\ \A a \in Buckets : Reach(a)' = Reach(a)
      /\ call[u].op = "lookup" => seen'[u] = seen[u]
      /\ \A s \in Slots : Target(u, s)' = Target(u, s)
  BY <1>4, PrivateFacts
<1>6. local'[u].slot = local[u].slot /\ local'[u].marked = local[u].marked
  BY <1>4 DEF Private
<1>7. SearchInv(u)'
  <2>1. Fresh(b, link[b], b)'
    BY <1>2, <1>5 DEF Fresh, On
  <2> QED
    BY <1>1, <1>5, <2>1 DEF SearchInv, SearchPcs
<1>8. CompleteInv(u)'
  <2>1. \A s \in Slots : Target(u, s)' => Ahead(b, link[b], s)'
    BY <1>2, <1>5 DEF Ahead
  <2> QED
    BY <1>1, <1>5, <2>1 DEF CompleteInv, SearchPcs, ReadPcs
<1>9. LookupInv(u)'
  BY <1>1, <1>5, <1>6 DEF IInv, ThreadInv, LookupInv, ReadPcs
<1>10. RemoveInv(u)'
  BY <1>1, <1>5, <1>6 DEF IInv, ThreadInv, RemoveInv
<1>11. ThreadInv(u)'
  BY <1>1, <1>5, <1>7, <1>8, <1>9, <1>10, SearchThread DEF SearchPcs
<1> QED
  BY <1>4, <1>11, PrivateKept

(* The common part of the steps of a search: what it knows then.           *)
SearchStep(u) ==
  /\ SearchInv(u)' /\ CompleteInv(u)' /\ LookupInv(u)' /\ RemoveInv(u)'
(* A private step of a search keeps the invariant, if the search knows     *)
(* what it should.                                                         *)
LEMMA SearchStepKept ==
  ASSUME IInv, NEW u \in Threads, Private(u), Witness, SearchStep(u),
         call[u].op \in {"lookup", "remove"},
         local'[u].pc \in SearchPcs \cup {"mark", "bypass", "look", "push", "release"}
  PROVE  IInv'
<1>1. call'[u].op \in {"lookup", "remove"}
  BY DEF Private
<1>2. ThreadInv(u)'
  BY <1>1, SearchThread DEF SearchStep
<1> QED
  BY <1>2, PrivateKept

(* A search that stands at prev, whose list is b.                          *)
LEMMA StandsFacts ==
  ASSUME IInv, NEW u \in Threads, local[u].pc \in SearchPcs \cup {"bypass"}, Still(u),
         local[u].sprev.next # None
  PROVE  LET c == local[u].sprev.next
             b == Hash[call[u].key]
         IN /\ c \in Slots /\ c \in Chained /\ c \in Nodes /\ c \in Reach(b)
            /\ After(local[u].prev) = {c} \cup After(c)
            /\ link[c] \in Words /\ link[c].tag \in Nat
            /\ c \notin Buckets /\ call[u].key \in Keys /\ b \in Buckets
            /\ local[u].prev \in Nodes /\ (local[u].prev \in Buckets \/ local[u].prev \in Chained)
<1> DEFINE c == local[u].sprev.next
           b == Hash[call[u].key]
           p == local[u].prev
<1>1. SearchInv(u) /\ WordTypes /\ local[u].sprev \in Words
  BY DEF IInv, ThreadInv, Types, ThreadTypes, LocalTypes
<1>2. Fresh(p, local[u].sprev, b) /\ link[p] = local[u].sprev
  BY <1>1 DEF SearchInv, Still
<1>3. p \in Nodes /\ On(p, b)
  BY <1>2 DEF Fresh
<1>4. b \in Buckets /\ call[u].key \in Keys
  BY PlaceFacts DEF IInv, Types, SearchPcs, RemovePcs
<1>5. p \in Buckets \/ p \in Chained
  BY <1>1, <1>3, <1>4, ReachFacts DEF On
<1>6. c \in Slots /\ c \in Chained /\ c \in Reach(b) /\ After(p) = {c} \cup After(c)
  BY <1>1, <1>2, <1>3, <1>4, <1>5, AheadOf
<1> QED
  BY <1>1, <1>3, <1>4, <1>5, <1>6, CacheAssumption DEF WordTypes, Words, Nodes

(* FindFollow keeps the invariant.                                         *)
LEMMA FollowKept ==
  ASSUME IInv, NEW u \in Threads, FindFollow(u), Witness
  PROVE  IInv'
<1> SUFFICES ASSUME NEW v, v = local[u], NEW d, d = call[u], NEW w, w = link[v.sprev.next] PROVE IInv'
  OBVIOUS
<1> DEFINE c == v.sprev.next
           p == v.prev
           b == Hash[d.key]
           k == d.key
           F == {"pc", "scur"}
<1>0. /\ v.pc = "follow" /\ c # None /\ OnlyLocal /\ LocalTypes(u) /\ DOMAIN local = Threads
      /\ WordTypes /\ SearchInv(u) /\ CompleteInv(u) /\ LookupInv(u) /\ RemoveInv(u)
  BY DEF FindFollow, At, OnlyLocal, IInv, ThreadInv, Types, ThreadTypes
<1>1. Keeps(u, F) /\ local'[u].pc = "check" /\ local'[u].scur = w
  BY <1>0 DEF FindFollow, Set, Keeps, LocalTypes, Fields
<1>2. d.op \in {"lookup", "remove"} /\ v.sprev \in Words /\ c \in Nodes
  <2>1. c \in Slots
    BY <1>0 DEF LocalTypes, Words
  <2> QED
    BY <1>0, <2>1, PlaceFacts DEF IInv, Types, SearchPcs, LocalTypes, Nodes
<1>3. LocalTypes(u)'
  <2>1. w \in Words
    BY <1>0, <1>2 DEF WordTypes
  <2>2. DOMAIN local'[u] = Fields /\ \A f \in Fields \ F : local'[u][f] = v[f]
    BY <1>1 DEF Keeps
  <2> HIDE DEF c
  <2> QED
    BY <1>0, <1>1, <2>1, <2>2 DEF LocalTypes, Fields, RemovePcs, SearchPcs
<1>4. Private(u)
  <2>1. local'[u].pc \in SearchPcs /\ v.pc \in SearchPcs
    BY <1>0, <1>1 DEF SearchPcs
  <2>2. F \cap {"slot", "marked"} = {}
    OBVIOUS
  <2>3. local'[u].pc \notin {"mark", "look", "push"}
    BY <1>1
  <2> HIDE DEF F
  <2> QED
    BY <1>0, <1>1, <1>2, <1>3, <2>1, <2>2, <2>3, SearchPrivate
<1>5. /\ link' = link /\ key' = key /\ call' = call /\ map' = map /\ Chained' = Chained
      /\ \A n \in Nodes : n \in Buckets \/ n \in Chained => After(n)' = After(n)
      /\ \A a \in Buckets : Reach(a)' = Reach(a)
      /\ d.op = "lookup" => seen'[u] = seen[u]
      /\ \A s \in Slots : Target(u, s)' = Target(u, s)
  BY <1>4, PrivateFacts
<1>6. /\ local'[u].slot = v.slot /\ local'[u].marked = v.marked
      /\ local'[u].prev = p /\ local'[u].sprev = v.sprev /\ local'[u].again = v.again
  BY <1>1 DEF Keeps, Fields
<1>7. Fresh(p, v.sprev, b) /\ p \in Nodes
  BY <1>0 DEF SearchInv, SearchPcs, Fresh
<1>8. ASSUME link[p] = v.sprev
      PROVE  /\ c \in Slots /\ c \in Chained /\ c \in Nodes /\ c \in Reach(b) /\ After(p) = {c} \cup After(c)
             /\ k \in Keys /\ b \in Buckets /\ (p \in Buckets \/ p \in Chained)
             /\ ~w.marked => Fresh(c, w, b)
  <2>1. /\ c \in Slots /\ c \in Chained /\ c \in Nodes /\ c \in Reach(b) /\ After(p) = {c} \cup After(c)
        /\ k \in Keys /\ b \in Buckets /\ (p \in Buckets \/ p \in Chained) /\ w.tag \in Nat
    BY <1>0, <1>8, StandsFacts DEF Still, SearchPcs
  <2> QED
    BY <2>1 DEF Fresh, On
<1>9. b \in Buckets /\ k \in Keys
  BY <1>0, PlaceFacts DEF IInv, Types, SearchPcs, RemovePcs
<1>10. SearchInv(u)'
  <2>1. Fresh(p, v.sprev, b)'
    BY <1>5, <1>7, <1>9 DEF Fresh, On
  <2>2. link[p] = v.sprev /\ ~w.marked => Fresh(c, w, b)'
    BY <1>5, <1>8, <1>9 DEF Fresh, On
  <2> QED
    BY <1>0, <1>1, <1>5, <1>6, <2>1, <2>2 DEF SearchInv, Still
<1>11. CompleteInv(u)'
  <2> SUFFICES ASSUME NEW s \in Slots, Target(u, s)
               PROVE  /\ c # None /\ (link[p] = v.sprev => s \in After(p)')
                      /\ link[p] = v.sprev /\ ~w.marked =>
                           IF s = c THEN ~v.marked ELSE w.next # None /\ s \in After(c)'
    BY <1>1, <1>5, <1>6 DEF CompleteInv, Ahead, Still
  <2>1. link[p] = v.sprev => s \in After(p)
    BY <1>0 DEF CompleteInv, Ahead, SearchPcs
  <2>2. ASSUME link[p] = v.sprev, ~w.marked, s = c
        PROVE  ~v.marked
    <3>1. d.op = "remove" => s = v.slot
      BY TargetIn
    <3> QED
      BY <1>0, <1>2, <2>2, <3>1 DEF LookupInv, RemoveInv
  <2>3. ASSUME link[p] = v.sprev, s # c
        PROVE  w.next # None /\ s \in After(c)'
    <3>1. s \in After(c)
      BY <1>8, <2>1, <2>3
    <3> QED
      BY <1>5, <1>8, <2>3, <3>1, LeadsOn
  <2> QED
    BY <1>0, <1>5, <1>7, <1>8, <2>1, <2>2, <2>3
<1>12. LookupInv(u)'
  <2>1. ASSUME d.op = "lookup", link[p] = v.sprev, ~w.marked, key[c] = k
        PROVE  c \in seen[u]
    <3>1. map[key[c]] = c
      BY <1>8, <2>1 DEF IInv, MapIs
    <3> QED
      BY <1>0, <2>1, <3>1 DEF LookupInv
  <2> QED
    BY <1>0, <1>1, <1>5, <1>6, <2>1 DEF LookupInv, Still
<1>13. RemoveInv(u)'
  BY <1>0, <1>1, <1>5, <1>6 DEF RemoveInv
<1>14. local'[u].pc \in SearchPcs
  BY <1>1 DEF SearchPcs
<1> QED
  BY <1>2, <1>4, <1>10, <1>11, <1>12, <1>13, <1>14, SearchStepKept DEF SearchStep

(* The word of a search that stands is looked at.                          *)
LEMMA CheckKept ==
  ASSUME IInv, NEW u \in Threads, FindCheck(u), Witness
  PROVE  IInv'
<1> SUFFICES ASSUME NEW v, v = local[u], NEW d, d = call[u] PROVE IInv'
  OBVIOUS
<1> DEFINE c == v.sprev.next
           b == Hash[d.key]
           F == {"pc"}
<1>0. /\ v.pc = "check" /\ OnlyLocal /\ LocalTypes(u) /\ DOMAIN local = Threads
      /\ SearchInv(u) /\ CompleteInv(u) /\ LookupInv(u) /\ RemoveInv(u)
      /\ v.pc \in SearchPcs
  BY DEF FindCheck, At, OnlyLocal, IInv, ThreadInv, Types, ThreadTypes, SearchPcs
<1>1. d.op \in {"lookup", "remove"} /\ v.again \in BOOLEAN
  BY <1>0, PlaceFacts DEF IInv, Types, LocalTypes
<1>2. CASE PrevMoved(u)
  <2>1. Set(u, Restart(u, v.again))
    BY <1>2 DEF FindCheck, Again
  <2> QED
    BY <1>0, <1>1, <2>1, RestartKept
<1>3. CASE ~PrevMoved(u)
  <2>1. Keeps(u, F) /\ local'[u].pc = IF v.scur.marked THEN "unlink" ELSE "compare"
    BY <1>0, <1>3 DEF FindCheck, Set, Keeps, LocalTypes, Fields
  <2>2. LocalTypes(u)'
    <3>1. DOMAIN local'[u] = Fields /\ \A f \in Fields \ F : local'[u][f] = v[f]
      BY <2>1 DEF Keeps
    <3> QED
      BY <1>0, <2>1, <3>1 DEF LocalTypes, Fields, RemovePcs, SearchPcs
  <2>3. local'[u].pc \in SearchPcs /\ local'[u].pc \notin {"mark", "look", "push"}
    BY <2>1 DEF SearchPcs
  <2>4. Private(u)
    <3>1. F \cap {"slot", "marked"} = {}
      OBVIOUS
    <3> HIDE DEF F
    <3> QED
      BY <1>0, <1>1, <2>1, <2>2, <2>3, <3>1, SearchPrivate
  <2>5. /\ link' = link /\ key' = key /\ call' = call /\ map' = map /\ Chained' = Chained
        /\ \A n \in Nodes : n \in Buckets \/ n \in Chained => After(n)' = After(n)
        /\ \A a \in Buckets : Reach(a)' = Reach(a)
        /\ d.op = "lookup" => seen'[u] = seen[u]
        /\ \A s \in Slots : Target(u, s)' = Target(u, s)
    BY <2>4, PrivateFacts
  <2>6. /\ local'[u].slot = v.slot /\ local'[u].marked = v.marked
        /\ local'[u].prev = v.prev /\ local'[u].sprev = v.sprev
        /\ local'[u].again = v.again /\ local'[u].scur = v.scur
    BY <2>1 DEF Keeps, Fields
  <2>7. b \in Buckets
    BY <1>0, PlaceFacts DEF IInv, Types, SearchPcs, RemovePcs
  <2>8. SearchInv(u)'
    <3>1. Fresh(v.prev, v.sprev, b)'
      BY <1>0, <2>5, <2>7 DEF Fresh, On, SearchInv
    <3>2. link[v.prev] = v.sprev =>
            IF v.scur.marked THEN v.scur = link[c] ELSE Fresh(c, v.scur, b)'
      BY <1>0, <2>5, <2>7 DEF Fresh, On, SearchInv, Still
    <3>3. c # None
      BY <1>0 DEF SearchInv
    <3> QED
      BY <2>1, <2>5, <2>6, <3>1, <3>2, <3>3 DEF SearchInv, Still
  <2>9. CompleteInv(u)'
    <3> SUFFICES ASSUME NEW s \in Slots, Target(u, s)
                 PROVE  /\ Ahead(v.prev, v.sprev, s)'
                        /\ link[v.prev] = v.sprev /\ ~v.scur.marked =>
                             IF s = c THEN ~v.marked ELSE Ahead(c, v.scur, s)'
      BY <2>1, <2>5, <2>6 DEF CompleteInv, Still, Ahead
    <3>1. /\ Ahead(v.prev, v.sprev, s)
          /\ link[v.prev] = v.sprev /\ ~v.scur.marked =>
               IF s = c THEN ~v.marked ELSE Ahead(c, v.scur, s)
      BY <1>0 DEF CompleteInv, Still, ReadPcs
    <3>2. /\ link[v.prev] = v.sprev =>
               v.prev \in Nodes /\ (v.prev \in Buckets \/ v.prev \in Chained)
          /\ link[v.prev] = v.sprev => c \in Nodes /\ c \in Chained
      BY <1>0, <3>1, StandsFacts DEF Still, Ahead
    <3> QED
      BY <2>5, <3>1, <3>2 DEF Ahead
  <2>10. LookupInv(u)'
    BY <1>0, <2>5, <2>6 DEF LookupInv, Still, ReadPcs
  <2>11. RemoveInv(u)'
    BY <1>0, <2>1, <2>5, <2>6 DEF RemoveInv
  <2> QED
    BY <1>1, <2>3, <2>4, <2>8, <2>9, <2>10, <2>11, SearchStepKept DEF SearchStep
<1> QED
  BY <1>2, <1>3

(* FindCompare keeps the invariant.                                        *)
LEMMA CompareKept ==
  ASSUME IInv, NEW u \in Threads, FindCompare(u), Witness
  PROVE  IInv'
<1> SUFFICES ASSUME NEW v, v = local[u], NEW d, d = call[u] PROVE IInv'
  OBVIOUS
<1> DEFINE c == v.sprev.next
           b == Hash[d.key]
           F == {"pc", "hit"}
<1>0. /\ v.pc = "compare" /\ OnlyLocal /\ LocalTypes(u) /\ DOMAIN local = Threads
      /\ SearchInv(u) /\ CompleteInv(u) /\ LookupInv(u) /\ RemoveInv(u)
      /\ v.pc \in SearchPcs
  BY DEF FindCompare, At, OnlyLocal, IInv, ThreadInv, Types, ThreadTypes, SearchPcs
<1>1. d.op \in {"lookup", "remove"}
  BY <1>0, PlaceFacts DEF IInv, Types
<1>2. PICK hit \in KeyMatches(u, c) : Set(u, [pc |-> "recheck", hit |-> hit])
  BY DEF FindCompare
<1>3. hit \in BOOLEAN
  BY <1>2 DEF KeyMatches
<1>4. Still(u) => hit = (key[c] = d.key)
  <2> SUFFICES ASSUME Still(u) PROVE hit = (key[c] = d.key)
    OBVIOUS
  <2>1. c \in Chained
    BY <1>0, StandsFacts DEF SearchInv
  <2>2. ~\E w \in Threads : At(w, "set_key") /\ local[w].slot = c
    <3> SUFFICES ASSUME NEW w \in Threads, At(w, "set_key"), local[w].slot = c PROVE FALSE
      OBVIOUS
    <3>1. c \in Adding(w)
      BY DEF Adding, At
    <3> QED
      BY <2>1, <3>1, AddingFacts
  <2> QED
    BY <2>2 DEF KeyMatches
<1>5. Keeps(u, F) /\ local'[u].pc = "recheck" /\ local'[u].hit = hit
  BY <1>0, <1>2 DEF Set, Keeps, LocalTypes, Fields
<1>6. LocalTypes(u)'
  <2>1. DOMAIN local'[u] = Fields /\ \A f \in Fields \ F : local'[u][f] = v[f]
    BY <1>5 DEF Keeps
  <2> QED
    BY <1>0, <1>3, <1>5, <2>1 DEF LocalTypes, Fields, RemovePcs, SearchPcs
<1>7. local'[u].pc \in SearchPcs /\ local'[u].pc \notin {"mark", "look", "push"}
  BY <1>5 DEF SearchPcs
<1>8. Private(u)
  <2>1. F \cap {"slot", "marked"} = {}
    OBVIOUS
  <2> HIDE DEF F
  <2> QED
    BY <1>0, <1>1, <1>5, <1>6, <1>7, <2>1, SearchPrivate
<1>9. /\ link' = link /\ key' = key /\ call' = call /\ map' = map /\ Chained' = Chained
      /\ \A n \in Nodes : n \in Buckets \/ n \in Chained => After(n)' = After(n)
      /\ \A a \in Buckets : Reach(a)' = Reach(a)
      /\ d.op = "lookup" => seen'[u] = seen[u]
      /\ \A s \in Slots : Target(u, s)' = Target(u, s)
  BY <1>8, PrivateFacts
<1>10. /\ local'[u].slot = v.slot /\ local'[u].marked = v.marked
       /\ local'[u].prev = v.prev /\ local'[u].sprev = v.sprev
       /\ local'[u].again = v.again /\ local'[u].scur = v.scur
  BY <1>5 DEF Keeps, Fields
<1>11. b \in Buckets
  BY <1>0, PlaceFacts DEF IInv, Types, SearchPcs, RemovePcs
<1>12. SearchInv(u)'
  <2>1. Fresh(v.prev, v.sprev, b)'
    BY <1>0, <1>9, <1>11 DEF Fresh, On, SearchInv
  <2>2. link[v.prev] = v.sprev => Fresh(c, v.scur, b)'
    BY <1>0, <1>9, <1>11 DEF Fresh, On, SearchInv, Still
  <2>3. c # None /\ ~v.scur.marked
    BY <1>0 DEF SearchInv
  <2> QED
    BY <1>4, <1>5, <1>9, <1>10, <2>1, <2>2, <2>3 DEF SearchInv, Still
<1>13. CompleteInv(u)'
  <2> SUFFICES ASSUME NEW s \in Slots, Target(u, s)
               PROVE  /\ Ahead(v.prev, v.sprev, s)'
                      /\ link[v.prev] = v.sprev /\ ~v.scur.marked =>
                           IF s = c THEN ~v.marked ELSE Ahead(c, v.scur, s)'
    BY <1>5, <1>9, <1>10 DEF CompleteInv, Still, Ahead
  <2>1. /\ Ahead(v.prev, v.sprev, s)
        /\ link[v.prev] = v.sprev /\ ~v.scur.marked =>
             IF s = c THEN ~v.marked ELSE Ahead(c, v.scur, s)
    BY <1>0 DEF CompleteInv, Still, ReadPcs
  <2>2. /\ link[v.prev] = v.sprev =>
             v.prev \in Nodes /\ (v.prev \in Buckets \/ v.prev \in Chained)
        /\ link[v.prev] = v.sprev => c \in Nodes /\ c \in Chained
    BY <1>0, <2>1, StandsFacts DEF Still, Ahead
  <2> QED
    BY <1>9, <2>1, <2>2 DEF Ahead
<1>14. LookupInv(u)'
  BY <1>0, <1>9, <1>10 DEF LookupInv, Still, ReadPcs
<1>15. RemoveInv(u)'
  BY <1>0, <1>5, <1>9, <1>10 DEF RemoveInv
<1> QED
  BY <1>1, <1>7, <1>8, <1>12, <1>13, <1>14, <1>15, SearchStepKept DEF SearchStep

(* FindAdvance keeps the invariant.                                        *)
LEMMA AdvanceKept ==
  ASSUME IInv, NEW u \in Threads, FindAdvance(u), Witness
  PROVE  IInv'
<1> SUFFICES ASSUME NEW v, v = local[u], NEW d, d = call[u] PROVE IInv'
  OBVIOUS
<1> DEFINE c == v.sprev.next
           b == Hash[d.key]
           F == {"pc", "prev", "sprev"}
<1>0. /\ v.pc = "recheck" /\ OnlyLocal /\ LocalTypes(u) /\ DOMAIN local = Threads
      /\ SearchInv(u) /\ CompleteInv(u) /\ LookupInv(u) /\ RemoveInv(u)
      /\ v.pc \in SearchPcs
  BY DEF FindAdvance, At, OnlyLocal, IInv, ThreadInv, Types, ThreadTypes, SearchPcs
<1>1. d.op \in {"lookup", "remove"} /\ v.again \in BOOLEAN /\ b \in Buckets
  BY <1>0, PlaceFacts DEF IInv, Types, LocalTypes, SearchPcs, RemovePcs
<1>2. CASE PrevMoved(u)
  <2>1. Set(u, Restart(u, v.again))
    BY <1>2 DEF FindAdvance, Again, Recheck
  <2> QED
    BY <1>0, <1>1, <2>1, RestartKept
<1>3. CASE ~PrevMoved(u)
  <2>0. Still(u) /\ link[v.prev] = v.sprev /\ c # None /\ ~v.scur.marked
    BY <1>0, <1>3 DEF PrevMoved, Still, SearchInv
  <2>1. /\ ~v.hit /\ c \in Slots /\ c \in Chained /\ c \in Nodes /\ Fresh(c, v.scur, b) /\ key[c] # d.key
    BY <1>0, <1>3, <2>0, StandsFacts DEF SearchInv, FindAdvance, Recheck
  <2>2. Keeps(u, F) /\ local'[u].pc = "follow" /\ local'[u].prev = c /\ local'[u].sprev = v.scur
    BY <1>0, <1>3 DEF FindAdvance, Recheck, Set, Keeps, LocalTypes, Fields
  <2>3. LocalTypes(u)'
    <3>1. DOMAIN local'[u] = Fields /\ \A f \in Fields \ F : local'[u][f] = v[f]
      BY <2>2 DEF Keeps
    <3> HIDE DEF c
    <3> QED
      BY <1>0, <2>1, <2>2, <3>1 DEF LocalTypes, Fields, RemovePcs, SearchPcs
  <2>4. local'[u].pc \in SearchPcs /\ local'[u].pc \notin {"mark", "look", "push"}
    BY <2>2 DEF SearchPcs
  <2>5. Private(u)
    <3>1. F \cap {"slot", "marked"} = {}
      OBVIOUS
    <3> HIDE DEF F
    <3> QED
      BY <1>0, <1>1, <2>2, <2>3, <2>4, <3>1, SearchPrivate
  <2>6. /\ link' = link /\ key' = key /\ call' = call /\ map' = map /\ Chained' = Chained
        /\ \A n \in Nodes : n \in Buckets \/ n \in Chained => After(n)' = After(n)
        /\ \A a \in Buckets : Reach(a)' = Reach(a)
        /\ d.op = "lookup" => seen'[u] = seen[u]
        /\ \A s \in Slots : Target(u, s)' = Target(u, s)
    BY <2>5, PrivateFacts
  <2>7. /\ local'[u].slot = v.slot /\ local'[u].marked = v.marked
        /\ local'[u].again = v.again /\ local'[u].scur = v.scur
    BY <2>2 DEF Keeps, Fields
  <2>8. SearchInv(u)'
    <3>1. Fresh(c, v.scur, b)'
      BY <1>1, <2>1, <2>6 DEF Fresh, On
    <3> QED
      BY <2>2, <2>6, <3>1 DEF SearchInv, Still
  <2>9. CompleteInv(u)'
    <3> SUFFICES ASSUME NEW s \in Slots, Target(u, s)
                 PROVE  Ahead(c, v.scur, s)'
      BY <2>2, <2>6, <2>7 DEF CompleteInv, ReadPcs
    <3>1. IF s = c THEN ~v.marked ELSE Ahead(c, v.scur, s)
      BY <1>0, <2>0 DEF CompleteInv, ReadPcs
    <3>2. s # c
      <4>1. key[s] = d.key
        BY TargetIn
      <4> QED
        BY <2>1, <4>1
    <3> QED
      BY <2>1, <2>6, <3>1, <3>2 DEF Ahead
  <2>10. LookupInv(u)'
    BY <1>0, <2>2, <2>6, <2>7 DEF LookupInv, ReadPcs
  <2>11. RemoveInv(u)'
    BY <1>0, <2>2, <2>6, <2>7 DEF RemoveInv
  <2> QED
    BY <1>1, <2>4, <2>5, <2>8, <2>9, <2>10, <2>11, SearchStepKept DEF SearchStep
<1> QED
  BY <1>2, <1>3

(* A search that goes nowhere has not met what it must not miss.           *)
LEMMA NotFoundFacts ==
  ASSUME IInv, NEW u \in Threads, NotFound(u), NEW s \in Slots
  PROVE  ~Target(u, s)
  BY DEF NotFound, At, IInv, ThreadInv, CompleteInv, Ahead, SearchPcs

(* What a removal knows of a key that it has found.                        *)
LEMMA FoundFacts ==
  ASSUME IInv, NEW u \in Threads, Found(u)
  PROVE  LET c == local[u].sprev.next
             b == Hash[call[u].key]
         IN /\ Still(u) /\ c \in Slots /\ c \in Chained /\ key[c] = call[u].key /\ Fresh(c, local[u].scur, b)
            /\ ~local[u].scur.marked /\ c # None
            /\ call[u].op = "remove" => ~local[u].marked
<1> SUFFICES ASSUME NEW v, v = local[u], NEW d, d = call[u]
             PROVE  /\ Still(u) /\ v.sprev.next \in Slots /\ v.sprev.next \in Chained
                    /\ key[v.sprev.next] = d.key
                    /\ Fresh(v.sprev.next, v.scur, Hash[d.key]) /\ ~v.scur.marked /\ v.sprev.next # None
                    /\ d.op = "remove" => ~v.marked
  OBVIOUS
<1> DEFINE c == v.sprev.next
<1>1. v.pc = "recheck" /\ Still(u) /\ v.hit /\ SearchInv(u)
  BY DEF Found, At, Recheck, PrevMoved, Still, IInv, ThreadInv
<1>2. c # None /\ ~v.scur.marked /\ Fresh(c, v.scur, Hash[d.key]) /\ key[c] = d.key
  BY <1>1 DEF SearchInv
<1>3. c \in Slots /\ c \in Chained /\ d.key \in Keys
  BY <1>1, <1>2, StandsFacts DEF SearchPcs
<1>4. ASSUME d.op = "remove", v.marked PROVE FALSE
  <2>1. map[d.key] = None /\ v.slot \in Slots
    BY <1>4 DEF IInv, ThreadInv, RemoveInv
  <2>2. CASE link[c].marked
    <3>1. PICK w \in Threads : Remover(w, c)
      BY <1>3, <2>2 DEF IInv, ListInv
    <3>2. call[w].op = "remove" /\ local[w].slot = c /\ key[local[w].slot] = call[w].key
      BY <3>1 DEF Remover, IInv, ThreadInv, RemoveInv
    <3>3. w = u
      BY <1>2, <1>4, <3>2 DEF IInv, WriterInv, Writer
    <3>4. Target(u, c)
      BY <1>3, <1>4, <3>2, <3>3 DEF Target
    <3> QED
      BY <1>1, <1>2, <1>3, <1>4, <3>4 DEF IInv, ThreadInv, CompleteInv, ReadPcs
  <2>3. CASE ~link[c].marked
    <3>1. map[key[c]] = c
      BY <1>3, <2>3 DEF IInv, MapIs
    <3> QED
      BY <1>2, <2>1, <3>1
  <2> QED
    BY <2>2, <2>3
<1> QED
  BY <1>1, <1>2, <1>3, <1>4

(* RemoveSearched keeps the invariant.                                     *)
LEMMA SearchedKept ==
  ASSUME IInv, NEW u \in Threads, RemoveSearched(u), Witness
  PROVE  IInv'
<1> SUFFICES ASSUME NEW v, v = local[u], NEW d, d = call[u] PROVE IInv'
  OBVIOUS
<1> DEFINE c == v.sprev.next
           b == Hash[d.key]
           F == {"pc"}
           pc == IF v.again THEN "look" ELSE IF Found(u) THEN "mark" ELSE "push"
<1>0. /\ v.pc \in {"recheck", "follow"} /\ OnlyLocal /\ LocalTypes(u) /\ DOMAIN local = Threads
      /\ SearchInv(u) /\ LookupInv(u) /\ RemoveInv(u) /\ d.op = "remove"
      /\ v.pc \in SearchPcs /\ b \in Buckets /\ (Found(u) \/ NotFound(u))
  BY PlaceFacts DEF RemoveSearched, Found, NotFound, At, OnlyLocal, IInv, ThreadInv, Types,
                    ThreadTypes, SearchPcs, Ops
<1>1. Keeps(u, F) /\ local'[u].pc = pc
  BY <1>0 DEF RemoveSearched, Set, Keeps, LocalTypes, Fields
<1>2. pc \in {"look", "mark", "push"} /\ (pc = "mark" => Found(u)) /\ (pc = "push" => NotFound(u))
      /\ (pc = "look" => v.again)
  BY <1>0
<1> HIDE DEF pc
<1>3. v.slot \in Slots /\ key[v.slot] = d.key /\ (v.again => v.marked)
      /\ (~v.marked => map[d.key] = v.slot) /\ (v.marked => map[d.key] = None /\ link[v.slot].marked)
  BY <1>0 DEF RemoveInv
<1>4. ASSUME pc = "push" PROVE v.slot \notin Chained /\ v.marked
  <2>1. ~Target(u, v.slot)
    BY <1>2, <1>3, <1>4, NotFoundFacts
  <2>2. v.slot \notin Chained
    BY <1>0, <2>1 DEF Target
  <2>3. v.marked
    <3>1. v.slot # None
      BY <1>3, SlotFacts
    <3>2. map[d.key] = v.slot => v.slot \in Reach(b)
      BY <1>0, <3>1, PlaceFacts DEF IInv, Types, MapIs, Holds, Ops
    <3> QED
      BY <1>0, <1>3, <2>2, <3>2, ReachFacts DEF IInv, Types
  <2> QED
    BY <2>2, <2>3
<1>5. LocalTypes(u)'
  <2>1. DOMAIN local'[u] = Fields /\ \A f \in Fields \ F : local'[u][f] = v[f]
    BY <1>1 DEF Keeps
  <2> QED
    BY <1>0, <1>1, <1>2, <2>1 DEF LocalTypes, Fields, RemovePcs
<1>6. Private(u)
  <2>1. F \cap {"slot", "marked"} = {}
    OBVIOUS
  <2> HIDE DEF F
  <2> QED
    BY <1>0, <1>1, <1>2, <1>4, <1>5, <2>1, SearchPrivate
<1>7. /\ link' = link /\ key' = key /\ call' = call /\ map' = map /\ Chained' = Chained
      /\ \A a \in Buckets : Reach(a)' = Reach(a)
  BY <1>6, PrivateFacts
<1>8. /\ local'[u].slot = v.slot /\ local'[u].marked = v.marked
      /\ local'[u].again = v.again /\ local'[u].scur = v.scur /\ local'[u].sprev = v.sprev
  BY <1>1 DEF Keeps, Fields
<1>9. SearchInv(u)'
  <2>1. pc = "mark" => c # None
    BY <1>2, FoundFacts
  <2>2. Fresh(v.prev, v.sprev, b)'
    BY <1>0, <1>7 DEF Fresh, On, SearchInv
  <2>3. local'[u].prev = v.prev
    BY <1>1 DEF Keeps, Fields
  <2> QED
    BY <1>1, <1>2, <1>7, <1>8, <2>1, <2>2, <2>3 DEF SearchInv, SearchPcs
<1>10. CompleteInv(u)' /\ LookupInv(u)'
  BY <1>0, <1>1, <1>2, <1>7 DEF CompleteInv, LookupInv, SearchPcs, ReadPcs
<1>11. RemoveInv(u)'
  <2>1. ASSUME pc = "mark"
        PROVE  ~v.marked /\ Fresh(c, v.scur, b)' /\ key[c] = d.key
    <3>1. ~v.marked /\ Fresh(c, v.scur, b) /\ key[c] = d.key
      BY <1>0, <1>2, <2>1, FoundFacts
    <3> QED
      BY <1>0, <1>7, <3>1 DEF Fresh, On
  <2>2. pc \in {"look", "push"} => v.marked
    BY <1>2, <1>3, <1>4
  <2> QED
    BY <1>1, <1>2, <1>3, <1>4, <1>7, <1>8, <2>1, <2>2 DEF RemoveInv
<1> QED
  BY <1>0, <1>1, <1>2, <1>6, <1>9, <1>10, <1>11, SearchStepKept DEF SearchStep

(* RemoveLook keeps the invariant.                                         *)
LEMMA LookKept ==
  ASSUME IInv, NEW u \in Threads, RemoveLook(u), Witness
  PROVE  IInv'
<1>1. call[u].op = "remove" /\ OnlyLocal /\ local[u].pc = "look"
  BY PlaceFacts DEF RemoveLook, At, OnlyLocal, IInv, Types
<1>2. Set(u, Restart(u, FALSE)) /\ FALSE \in BOOLEAN
  BY DEF RemoveLook
<1> QED
  BY <1>1, <1>2, RestartKept

-------------------------------------------------------------------------------
(* The slot of an addition.                                                *)
TakePcs == {"pop", "under", "take", "increment"}
OwnPcs == GrowPcs \cup {"set_key", "store", "link"}

(* A step of an addition that writes no word of the lists or the stacks is *)
(* private.                                                                *)
LEMMA AddPrivate ==
  ASSUME IInv, NEW u \in Threads, NEW F, Keeps(u, F), F \cap {"slot", "marked"} = {},
         UNCHANGED <<client, mapped, stacks, a_count_max, call, result, calls, tick>>,
         a_length' \in Nat, a_length <= a_length', a_adding_memory' \in BOOLEAN,
         call[u].op = "add", LocalTypes(u)',
         \/ local[u].pc \in TakePcs /\ local'[u].pc \in TakePcs
         \/ local[u].pc \in OwnPcs /\ local'[u].pc \in OwnPcs,
         local[u].pc \in GrowPcs => local'[u].pc \in GrowPcs \/ local[u].slot < a_length'
  PROVE  Private(u)
<1>1. local'[u].slot = local[u].slot /\ local'[u].marked = local[u].marked
  BY DEF Keeps, Fields
<1>2. Adding(u)' = Adding(u)
  BY <1>1 DEF Adding, TakePcs, OwnPcs, GrowPcs
<1>3. Busy(u)
  BY DEF Busy, NoCall
<1>4. Place(u)'
  BY DEF Place, AddPcs, TakePcs, OwnPcs, GrowPcs
<1>5. /\ local[u].pc \notin {"idle", "task", "push", "release", "added"}
      /\ local'[u].pc \notin {"idle", "task", "push", "release", "added"}
  BY DEF TakePcs, OwnPcs, GrowPcs
<1> QED
  BY <1>1, <1>2, <1>3, <1>4, <1>5 DEF Private, Keeps

(* A thread in an addition knows nothing of searches.                      *)
LEMMA AddThread ==
  ASSUME NEW u \in Threads, call'[u].op = "add", local'[u].pc \in AddPcs, AddInv(u)', PopInv(u)'
  PROVE  ThreadInv(u)'
<1>1. SearchInv(u)' /\ CompleteInv(u)' /\ LookupInv(u)' /\ RemoveInv(u)'
  BY DEF SearchInv, CompleteInv, Target, LookupInv, RemoveInv, AddPcs, SearchPcs, GrowPcs
<1> QED
  BY <1>1 DEF ThreadInv

(* A private step of an addition keeps the invariant, if its pop knows     *)
(* what it should.                                                         *)
LEMMA AddPrivateKept ==
  ASSUME IInv, NEW u \in Threads, Private(u), Witness, call[u].op = "add",
         local'[u].pc \in AddPcs \ {"added", "store", "link"},
         PopInv(u)'
  PROVE  IInv'
<1> SUFFICES ASSUME NEW v, v = local[u], NEW d, d = call[u] PROVE IInv'
  OBVIOUS
<1>1. call' = call /\ map' = map /\ local'[u].slot = v.slot /\ local'[u].marked = v.marked
  BY PrivateFacts DEF Private
<1>2. ~v.marked /\ map[d.key] = None /\ (v.pc \in OwnPcs => v.slot \in Slots)
  BY DEF IInv, ThreadInv, AddInv, Private, OwnPcs
<1>3. local'[u].pc \in OwnPcs => v.slot \in Slots
  <2>1. local'[u].pc \in OwnPcs => Adding(u)' = {v.slot}
    BY <1>1 DEF Adding, OwnPcs, GrowPcs
  <2>2. Adding(u)' \subseteq Slots
    BY AddingFacts DEF Private
  <2> QED
    BY <2>1, <2>2
<1>4. AddInv(u)'
  BY <1>1, <1>2, <1>3 DEF AddInv, OwnPcs
<1> QED
  BY <1>1, <1>4, AddThread, PrivateKept

(* What was at the top of a stack is no more in anyone's hands.            *)
LEMMA TopFacts ==
  ASSUME IInv, NEW w \in Threads, a_head[w].at # None
  PROVE  LET s == a_head[w].at
         IN /\ s \in Slots /\ s \in AllFree /\ a_head[w].tag = tag[s]
            /\ \A u \in Threads : ~(At(u, "release") /\ local[u].slot = s)
<1> DEFINE s == a_head[w].at
<1>1. s \in Slots /\ a_head[w].tag = tag[s]
  BY DEF IInv, Types, WordTypes, Tops, StackInv
<1>2. s \in AllFree
  <2>1. FirstFree[w] = s /\ NextFree \in [Slots -> Pointers]
    BY PointersAre DEF FirstFree, IInv, Types
  <2>2. From(NextFree, s) = {s} \cup From(NextFree, NextFree[s])
    BY <1>1, <2>1, FromStep
  <2>3. s \in Free(w)
    BY <2>1, <2>2, ListsAre DEF IInv, Types
  <2> QED
    BY <2>3 DEF AllFree
<1>3. ASSUME NEW u \in Threads, At(u, "release"), local[u].slot = s PROVE FALSE
  <2>1. call[u].op = "remove"
    BY <1>3, PlaceFacts DEF At, IInv, Types
  <2>2. s \in Hands(u)
    BY <1>3, <2>1 DEF Hands, Removing
  <2> QED
    BY <1>2, <2>2 DEF IInv, AccountInv
<1> QED
  BY <1>1, <1>2, <1>3

(* A pop that has loaded the top of a stack, first or again, keeps the     *)
(* invariant.                                                              *)
LEMMA PoppedKept ==
  ASSUME IInv, NEW u \in Threads, local[u].pc \in {"pop", "take"}, OnlyLocal, Witness,
         Popped(u, a_head[local[u].from])
  PROVE  IInv'
<1> SUFFICES ASSUME NEW v, v = local[u], NEW top, top = a_head[v.from] PROVE IInv'
  OBVIOUS
<1>0. /\ LocalTypes(u) /\ DOMAIN local = Threads /\ v.from \in Threads /\ call[u].op = "add"
      /\ top \in Tops /\ v.pc \in TakePcs
  BY PlaceFacts DEF IInv, Types, ThreadTypes, ThreadInv, PopInv, WordTypes, TakePcs, AddPcs
<1>1. /\ UNCHANGED <<client, mapped, stacks, a_count_max, call, result, calls, tick>>
      /\ a_length' \in Nat /\ a_length <= a_length' /\ a_adding_memory' \in BOOLEAN
  BY DEF OnlyLocal, pool, IInv, Types, OtherTypes
<1>2. v.pc \notin GrowPcs
  BY DEF GrowPcs
<1>3. CASE top.at # None /\ Set(u, [pc |-> "under", top |-> top])
  <2> DEFINE F == {"pc", "top"}
  <2>1. Keeps(u, F) /\ local'[u].pc = "under" /\ local'[u].top = top
    BY <1>0, <1>3 DEF Set, Keeps, LocalTypes, Fields
  <2>2. LocalTypes(u)'
    <3>1. DOMAIN local'[u] = Fields /\ \A f \in Fields \ F : local'[u][f] = v[f]
      BY <2>1 DEF Keeps
    <3> QED
      BY <1>0, <2>1, <3>1 DEF LocalTypes, Fields, AddPcs
  <2>3. Private(u)
    <3>1. F \cap {"slot", "marked"} = {} /\ local'[u].pc \in TakePcs
      BY <2>1 DEF TakePcs
    <3> HIDE DEF F
    <3> QED
      BY <1>0, <1>1, <1>2, <2>1, <2>2, <3>1, AddPrivate
  <2>4. PopInv(u)'
    <3>1. /\ top.at \in Slots /\ top.tag = tag[top.at]
          /\ \A w \in Threads : ~(At(w, "release") /\ local[w].slot = top.at)
      BY <1>0, <1>3, TopFacts
    <3>2. \A w \in Threads : ~(At(w, "release") /\ local[w].slot = top.at)'
      BY <2>1, <3>1 DEF At, Keeps
    <3>3. tag' = tag /\ local'[u].from = v.from /\ top.tag <= tag[top.at]
      <4>1. tag[top.at] \in Nat
        BY <3>1 DEF IInv, Types, WordTypes
      <4> QED
        BY <1>1, <2>1, <3>1, <4>1 DEF stacks, Keeps, Fields
    <3> QED
      BY <1>0, <1>3, <2>1, <3>1, <3>2, <3>3 DEF PopInv, At
  <2> QED
    BY <1>0, <2>1, <2>3, <2>4, AddPrivateKept DEF AddPcs
<1>4. ASSUME NEW w \in Threads, Set(u, [pc |-> "pop", from |-> w, tries |-> v.tries + 1])
      PROVE  IInv'
  <2> DEFINE F == {"pc", "from", "tries"}
  <2>1. Keeps(u, F) /\ local'[u].pc = "pop" /\ local'[u].from = w /\ local'[u].tries = v.tries + 1
    BY <1>0, <1>4 DEF Set, Keeps, LocalTypes, Fields
  <2>2. LocalTypes(u)'
    <3>1. DOMAIN local'[u] = Fields /\ \A f \in Fields \ F : local'[u][f] = v[f]
      BY <2>1 DEF Keeps
    <3> QED
      BY <1>0, <2>1, <3>1 DEF LocalTypes, Fields, AddPcs
  <2>3. Private(u)
    <3>1. F \cap {"slot", "marked"} = {} /\ local'[u].pc \in TakePcs
      BY <2>1 DEF TakePcs
    <3> HIDE DEF F
    <3> QED
      BY <1>0, <1>1, <1>2, <2>1, <2>2, <3>1, AddPrivate
  <2>4. PopInv(u)'
    BY <2>1 DEF PopInv
  <2> QED
    BY <1>0, <2>1, <2>3, <2>4, AddPrivateKept DEF AddPcs
<1>5. CASE Set(u, [pc |-> "increment"])
  <2> DEFINE F == {"pc"}
  <2>1. Keeps(u, F) /\ local'[u].pc = "increment"
    BY <1>0, <1>5 DEF Set, Keeps, LocalTypes, Fields
  <2>2. LocalTypes(u)'
    <3>1. DOMAIN local'[u] = Fields /\ \A f \in Fields \ F : local'[u][f] = v[f]
      BY <2>1 DEF Keeps
    <3> QED
      BY <1>0, <2>1, <3>1 DEF LocalTypes, Fields, AddPcs
  <2>3. Private(u)
    <3>1. F \cap {"slot", "marked"} = {} /\ local'[u].pc \in TakePcs
      BY <2>1 DEF TakePcs
    <3> HIDE DEF F
    <3> QED
      BY <1>0, <1>1, <1>2, <2>1, <2>2, <3>1, AddPrivate
  <2>4. PopInv(u)'
    BY <2>1 DEF PopInv
  <2> QED
    BY <1>0, <2>1, <2>3, <2>4, AddPrivateKept DEF AddPcs
<1> QED
  BY <1>3, <1>4, <1>5 DEF Popped

(* PopUnder keeps the invariant.                                           *)
LEMMA PopUnderKept ==
  ASSUME IInv, NEW u \in Threads, PopUnder(u), Witness
  PROVE  IInv'
<1> SUFFICES ASSUME NEW v, v = local[u] PROVE IInv'
  OBVIOUS
<1> DEFINE s == v.top.at
           F == {"pc", "under"}
<1>0. /\ LocalTypes(u) /\ DOMAIN local = Threads /\ v.from \in Threads /\ call[u].op = "add"
      /\ v.pc = "under" /\ v.pc \in TakePcs /\ PopInv(u) /\ s \in Slots /\ tail[s] \in Tops
  <2>1. v.pc = "under" /\ PopInv(u) /\ LocalTypes(u) /\ DOMAIN local = Threads
    BY DEF PopUnder, At, IInv, Types, ThreadTypes, ThreadInv
  <2>2. s \in Slots
    BY <2>1 DEF PopInv, LocalTypes, Tops
  <2> QED
    BY <2>1, <2>2, PlaceFacts DEF IInv, Types, PopInv, WordTypes, TakePcs, AddPcs
<1>1. /\ UNCHANGED <<client, mapped, stacks, a_count_max, call, result, calls, tick>>
      /\ a_length' \in Nat /\ a_length <= a_length' /\ a_adding_memory' \in BOOLEAN
  BY DEF PopUnder, pool, IInv, Types, OtherTypes
<1>2. v.pc \notin GrowPcs
  BY <1>0 DEF GrowPcs
<1>3. Keeps(u, F) /\ local'[u].pc = "take" /\ local'[u].under = tail[s]
  BY <1>0 DEF PopUnder, Set, Keeps, LocalTypes, Fields
<1>4. LocalTypes(u)'
  <2>1. DOMAIN local'[u] = Fields /\ \A f \in Fields \ F : local'[u][f] = v[f]
    BY <1>3 DEF Keeps
  <2> QED
    BY <1>0, <1>3, <2>1 DEF LocalTypes, Fields, AddPcs
<1>5. Private(u)
  <2>1. F \cap {"slot", "marked"} = {} /\ local'[u].pc \in TakePcs
    BY <1>3 DEF TakePcs
  <2> HIDE DEF F
  <2> QED
    BY <1>0, <1>1, <1>2, <1>3, <1>4, <2>1, AddPrivate
<1>6. PopInv(u)'
  <2>1. /\ s # None /\ v.top.tag <= tag[s]
        /\ v.top.tag = tag[s] => \A w \in Threads : ~(At(w, "release") /\ local[w].slot = s)
    BY <1>0 DEF PopInv
  <2>2. tag' = tag /\ tail' = tail /\ local'[u].from = v.from /\ local'[u].top = v.top
    BY <1>1, <1>3 DEF stacks, Keeps, Fields
  <2>3. v.top.tag = tag[s] => \A w \in Threads : ~(At(w, "release") /\ local[w].slot = s)'
    BY <1>3, <2>1 DEF At, Keeps
  <2> QED
    BY <1>0, <1>3, <2>1, <2>2, <2>3 DEF PopInv, At
<1> QED
  BY <1>0, <1>3, <1>5, <1>6, AddPrivateKept DEF AddPcs

(* PopLoad keeps the invariant.                                            *)
LEMMA PopLoadKept ==
  ASSUME IInv, NEW u \in Threads, PopLoad(u), Witness
  PROVE  IInv'
  BY PoppedKept DEF PopLoad, At, OnlyLocal

(* The pool grows.                                                         *)
LEMMA GrowKept ==
  ASSUME IInv, NEW u \in Threads, CheckLength(u) \/ LockGrow(u) \/ Grow(u) \/ UnlockGrow(u), Witness
  PROVE  IInv'
<1> SUFFICES ASSUME NEW v, v = local[u] PROVE IInv'
  OBVIOUS
<1> DEFINE F == {"pc"}
<1>0. /\ LocalTypes(u) /\ DOMAIN local = Threads /\ call[u].op = "add" /\ v.pc \in GrowPcs
      /\ a_length \in Nat /\ a_adding_memory \in BOOLEAN
  BY PlaceFacts DEF CheckLength, LockGrow, Grow, UnlockGrow, At, IInv, Types, ThreadTypes, OtherTypes,
                    AddPcs, GrowPcs
<1>1. PICK pc \in GrowPcs \cup {"set_key"} : Set(u, [pc |-> pc]) /\ (pc = "set_key" => v.slot < a_length)
  BY DEF CheckLength, LockGrow, Grow, UnlockGrow, GrowPcs
<1>2. /\ UNCHANGED <<client, mapped, stacks, a_count_max, call, result, calls, tick>>
      /\ a_length' \in Nat /\ a_length <= a_length' /\ a_adding_memory' \in BOOLEAN
      /\ a_length' = a_length \/ v.pc = "grow"
  <2>1. CASE CheckLength(u)
    BY <1>0, <2>1 DEF CheckLength, pool
  <2>2. CASE LockGrow(u)
    BY <1>0, <2>2 DEF LockGrow
  <2>3. CASE Grow(u)
    <3>1. a_length' = a_length \/ a_length' = 2 * a_length
      BY <2>3 DEF Grow
    <3>2. a_length' \in Nat /\ a_length <= a_length'
      BY <1>0, <3>1
    <3>3. UNCHANGED <<client, mapped, stacks, a_count_max, call, result, calls, tick>>
          /\ a_adding_memory' = a_adding_memory /\ v.pc = "grow"
      BY <2>3 DEF Grow, At
    <3> QED
      BY <1>0, <3>2, <3>3
  <2>4. CASE UnlockGrow(u)
    <3>1. a_adding_memory' \in BOOLEAN /\ a_length' = a_length
      BY <2>4 DEF UnlockGrow
    <3>2. UNCHANGED <<client, mapped, stacks, a_count_max, call, result, calls, tick>>
      BY <2>4 DEF UnlockGrow
    <3> QED
      BY <1>0, <3>1, <3>2
  <2> QED
    BY <2>1, <2>2, <2>3, <2>4
<1>3. Keeps(u, F) /\ local'[u].pc = pc
  BY <1>0, <1>1 DEF Set, Keeps, LocalTypes, Fields
<1>4. LocalTypes(u)'
  <2>1. DOMAIN local'[u] = Fields /\ \A f \in Fields \ F : local'[u][f] = v[f]
    BY <1>3 DEF Keeps
  <2> QED
    BY <1>0, <1>3, <2>1 DEF LocalTypes, Fields, AddPcs, GrowPcs
<1>5. pc \in GrowPcs \/ v.slot < a_length'
  <2>1. CASE pc = "set_key"
    <3>1. v.slot \in Int
      <4>1. v.slot \in Slots \/ v.slot = -1
        BY <1>0 DEF LocalTypes, Pointers, None
      <4> QED
        BY <4>1, CacheAssumption DEF Slots
    <3> QED
      BY <1>0, <1>1, <1>2, <2>1, <3>1
  <2> QED
    BY <2>1
<1>6. Private(u)
  <2>1. F \cap {"slot", "marked"} = {} /\ local'[u].pc \in OwnPcs /\ v.pc \in OwnPcs
    BY <1>0, <1>3 DEF OwnPcs
  <2> HIDE DEF F
  <2> QED
    BY <1>0, <1>2, <1>3, <1>4, <1>5, <2>1, AddPrivate
<1>7. PopInv(u)' /\ local'[u].pc \in AddPcs \ {"added", "store", "link"}
  BY <1>3 DEF PopInv, GrowPcs, AddPcs
<1> QED
  BY <1>0, <1>6, <1>7, AddPrivateKept

(***************************************************************************)
(* Steps within a call that write to shared memory.                        *)
(***************************************************************************)
CallStep(u) ==
  /\ UNCHANGED <<client, call, result, calls, tick>>
  /\ DOMAIN local' = Threads /\ \A t \in Threads \ {u} : local'[t] = local[t]
  /\ Busy(u) /\ LocalTypes(u)' /\ Place(u)'
  /\ local[u].pc \notin {"idle", "task", "added"} /\ local'[u].pc \notin {"idle", "task"}
  /\ call[u].op = "remove" => local'[u].slot = local[u].slot

(* A step within a call keeps the types, and the other threads have the    *)
(* calls they had.                                                         *)
LEMMA CallStepTypes ==
  ASSUME IInv, NEW u \in Threads, CallStep(u), a_count_max' \in 0 .. MaxSlots, a_length' \in Nat,
         a_adding_memory' \in BOOLEAN
  PROVE  ThreadTypes' /\ OtherTypes' /\ WriterInv' /\ Others(u)
<1>1. OtherTypes'
  BY DEF CallStep, tick, agenda, OtherTypes, IInv, Types
<1>2. ThreadTypes'
  <2>1. call' = call /\ result' = result /\ DOMAIN local' = Threads
    BY DEF CallStep
  <2>2. ASSUME NEW t \in Threads PROVE (LocalTypes(t) /\ CallTypes(t))'
    <3>0. LocalTypes(t) /\ CallTypes(t)
      BY DEF IInv, Types, ThreadTypes
    <3>1. CASE t = u
      <4>1. LocalTypes(t)' /\ Place(t)' /\ ~(At(t, "idle") \/ At(t, "task"))' /\ Busy(t)'
        BY <2>1, <3>1 DEF CallStep, At, Busy
      <4> QED
        BY <2>1, <3>0, <4>1 DEF CallTypes, Place
    <3>2. CASE t # u
      <4>1. local'[t] = local[t]
        BY <3>2 DEF CallStep
      <4> QED
        BY <2>1, <3>0, <4>1 DEF LocalTypes, CallTypes, At, Busy
    <3> QED
      BY <3>1, <3>2
  <2> QED
    BY <2>1, <2>2 DEF IInv, Types, ThreadTypes
<1>3. WriterInv'
  BY DEF CallStep, IInv, WriterInv, Writer
<1>4. Others(u)
  BY DEF Others, CallStep
<1> QED
  BY <1>1, <1>2, <1>3, <1>4

(* What a step in a call may do to the lists of a tick.                    *)
TickRely(u) ==
  /\ AllFree' \subseteq AllFree
  /\ \A s \in Chained : s \in Chained' \/ Removed(s)
  /\ \A s \in Chained' : s \in Chained \/ (At(u, "added") /\ local[u].slot = s)'
  /\ At(u, "added")' => local'[u].slot \in Chained'

(* A step within a call keeps the invariant of the tick, if it moves slots *)
(* only as TickRely says.                                                  *)
LEMMA CallStepTick ==
  ASSUME IInv, NEW u \in Threads, CallStep(u), TickRely(u), MapRely(u), Witness
  PROVE  TickInv'
<1>1. /\ client' = client /\ phase' = phase /\ todo' = todo /\ output' = output /\ stale' = stale
      /\ persistent' = persistent /\ bit_count' = bit_count /\ call' = call /\ TickInv
  BY DEF CallStep, tick, agenda, IInv
<1>2. \A t \in Threads : /\ At(t, "idle")' = At(t, "idle") /\ At(t, "task")' = At(t, "task")
                         /\ At(t, "added") => At(t, "added")' /\ local'[t] = local[t]
                         /\ At(t, "task") => local'[t] = local[t]
  <2> SUFFICES ASSUME NEW t \in Threads
               PROVE /\ At(t, "idle")' = At(t, "idle") /\ At(t, "task")' = At(t, "task")
                     /\ At(t, "added") => At(t, "added")' /\ local'[t] = local[t]
                     /\ At(t, "task") => local'[t] = local[t]
    OBVIOUS
  <2>1. CASE t = u
    BY <2>1 DEF CallStep, At
  <2>2. CASE t # u
    BY <2>2 DEF CallStep, At
  <2> QED
    BY <2>1, <2>2
<1>3. \A s \in Slots : Removed(s)' = Removed(s)
  <2>1. \A t \in Threads : call[t].op = "remove" => local'[t].slot = local[t].slot
    BY DEF CallStep
  <2> QED
    BY <1>1, <2>1 DEF Removed
<1>4. \A t \in Threads : Pairs(t)' = Pairs(t)
  BY <1>1, <1>2 DEF Pairs, Busy
<1>5. ~At(u, "idle") /\ ~At(u, "task") /\ Busy(u) /\ Pairs(u) = {call[u].key}
  BY DEF CallStep, At, Busy, Pairs
<1>6. ASSUME QuietInv PROVE FALSE
  BY <1>5, <1>6 DEF QuietInv
<1>7. ASSUME TasksInv PROVE TasksInv'
  <2>1. \A t \in Threads :
          /\ call'[t].op # "remove" /\ Pairs(t)' \cap todo' = {}
          /\ \A w \in Threads : t # w => Pairs(t)' \cap Pairs(w)' = {}
    BY <1>1, <1>4, <1>7 DEF TasksInv
  <2>2. ASSUME NEW t \in Threads, At(t, "task")'
        PROVE  local'[t].pair \in Keys /\ map'[local'[t].pair] = None
    <3>1. local'[t] = local[t] /\ local[t].pair \in Keys /\ map[local[t].pair] = None /\ t # u
      BY <1>2, <1>5, <1>7, <2>2 DEF TasksInv
    <3>2. Pairs(t) = {local[t].pair} /\ Pairs(t) \cap Pairs(u) = {}
      <4>1. ~Busy(t) /\ At(t, "task")
        BY <1>2, <2>2 DEF IInv, Types, ThreadTypes, CallTypes
      <4> QED
        BY <1>7, <3>1, <4>1 DEF Pairs, TasksInv
    <3>3. local[t].pair # call[u].key
      BY <1>5, <3>2
    <3> QED
      BY <3>1, <3>3 DEF MapRely
  <2>3. ASSUME NEW t \in Threads, call'[t].op = "lookup", None \in seen'[t]
        PROVE  map'[call'[t].key] = None
    <3>0. call[t].op = "lookup" /\ call[t] # NoCall
      BY <1>1, <2>3 DEF NoCall
    <3>1. call[t].key \in Keys /\ seen'[t] = seen[t] \cup {map'[call[t].key]}
      BY <1>1, <3>0, PlaceFacts DEF Witness, IInv, Types, Ops
    <3>2. ASSUME None \in seen[t] PROVE map'[call[t].key] = None
      <4>1. map[call[t].key] = None
        BY <1>7, <3>0, <3>2 DEF TasksInv
      <4>2. ~(Writer(u) /\ call[u].key = call[t].key)
        <5>1. CASE t = u
          BY <3>0, <5>1 DEF Writer
        <5>2. CASE t # u
          <6>1. Pairs(t) = {call[t].key} /\ Pairs(t) \cap Pairs(u) = {}
            BY <1>7, <3>0, <5>2 DEF TasksInv, Pairs, Busy
          <6> QED
            BY <1>5, <6>1
        <5> QED
          BY <5>1, <5>2
      <4> QED
        BY <3>1, <4>1, <4>2 DEF MapRely
    <3> QED
      BY <1>1, <2>3, <3>1, <3>2
  <2>4. ASSUME NEW s \in Slots
        PROVE  s \in Chained' <=> s \in persistent' \/ s \in output' \/ Linked(s)'
    <3>1. s \in Chained <=> s \in persistent \/ s \in output \/ Linked(s)
      BY <1>7 DEF TasksInv
    <3>2. ~Removed(s)
      BY <1>7 DEF TasksInv, Removed
    <3>3. Linked(s) => Linked(s)'
      BY <1>2 DEF Linked
    <3>4. Linked(s)' => s \in Chained'
      <4> SUFFICES ASSUME NEW t \in Threads, At(t, "added")', local'[t].slot = s PROVE s \in Chained'
        BY DEF Linked
      <4>1. CASE t = u
        BY <4>1 DEF TickRely
      <4>2. CASE t # u
        <5>1. local'[t] = local[t]
          BY <4>2 DEF CallStep
        <5>2. Linked(s)
          BY <5>1 DEF Linked, At
        <5> QED
          BY <3>1, <3>2, <5>2 DEF TickRely
      <4> QED
        BY <4>1, <4>2
    <3>5. s \in Chained => s \in Chained'
      BY <3>2 DEF TickRely
    <3>6. s \in Chained' => s \in Chained \/ Linked(s)'
      BY DEF TickRely, Linked
    <3> QED
      BY <1>1, <3>1, <3>3, <3>4, <3>5, <3>6
  <2> QED
    BY <2>1, <2>2, <2>3, <2>4 DEF TasksInv
<1>8. ASSUME ManageInv PROVE ManageInv'
  <2>1. ~At(u, "added")'
    <3>1. call'[u].op \notin {"lookup", "add"} /\ call'[u] = call[u]
      BY <1>1, <1>8 DEF ManageInv
    <3>2. call[u].op = "remove"
      BY <1>5, <3>1, PlaceFacts DEF IInv, Types, Ops
    <3> QED
      BY <3>1, <3>2 DEF CallStep, Place, At, RemovePcs, SearchPcs
  <2>2. \A t \in Threads : (t # Main => At(t, "idle")') /\ call'[t].op \notin {"lookup", "add"}
    BY <1>1, <1>2, <1>8 DEF ManageInv
  <2>3. Chained' \subseteq Chained /\ \A s \in Chained : s \in Chained' \/ Removed(s)
    BY <2>1 DEF TickRely
  <2>4. \A s \in Slots : Removed(s) => s \notin stale /\ s \notin output
    BY <1>8 DEF ManageInv
  <2>5. output \subseteq Chained' /\ stale \subseteq Chained' /\ stale \subseteq persistent
    BY <1>8, <2>3, <2>4 DEF ManageInv, IInv, Types, OtherTypes
  <2>6. \A s \in Slots :
          /\ s \in Chained' => s \in output \/ s \in stale \/ Removed(s)'
          /\ ~(s \in stale /\ s \in output)
          /\ Removed(s)' => s \notin stale /\ s \notin output
    BY <1>3, <1>8, <2>3 DEF ManageInv
  <2> QED
    BY <1>1, <2>2, <2>5, <2>6 DEF ManageInv
<1>9. \A s \in AllFree' : s \in AllFree
  BY DEF TickRely
<1> QED
  BY <1>1, <1>2, <1>3, <1>6, <1>7, <1>8, <1>9 DEF TickInv

(* All the parts.                                                          *)
LEMMA StepKept ==
  ASSUME IInv, NEW u \in Threads, Rely(u), WordTypes', ThreadTypes', OtherTypes', Witness,
         WriterInv', ListInv', MapIs(map)', map' \in [Keys -> Pointers],
         StackInv', AccountInv', TickInv', ThreadInv(u)'
  PROVE  IInv'
<1>1. MapTypes'
  BY SeenTypes DEF IInv, Types
<1>2. \A t \in Threads : ThreadInv(t)'
  BY OthersKept
<1> QED
  BY <1>1, <1>2 DEF IInv, Types

-------------------------------------------------------------------------------
(* A marked node c is unlinked from its predecessor p.                     *)
Unlinks(u, p, c, w) ==
  /\ local[u].pc \in {"unlink", "bypass"} /\ p = local[u].prev /\ link[p] = local[u].sprev
  /\ c = local[u].sprev.next /\ link[c].marked /\ w = Bypass(u) /\ w.next = link[c].next
  /\ link' = [link EXCEPT ![p] = w] /\ UNCHANGED <<key, stacks, pool>>
  /\ CallStep(u)
  /\ local'[u].marked = local[u].marked /\ local'[u].slot = local[u].slot
  /\ local'[u].pc \in {"follow", "look"}

CutOut(p, c, w) ==
  /\ WordTypes' /\ Separate(FirstNode, NextNode, Chained)'
  /\ Chained' = Chained \ {c} /\ \A b \in Buckets : Reach(b)' = Reach(b) \ {c}
  /\ \A n \in Nodes : n \in Buckets \/ n \in Chained => After(n)' = After(n) \ {c}
  /\ p \in Nodes /\ (p \in Buckets \/ p \in Chained) /\ c \in Slots /\ c \in Chained /\ c # p
  /\ link[c].marked /\ ~link[p].marked /\ link'[p] = w /\ ~w.marked /\ w.tag = link[p].tag + 1
  /\ \A n \in Nodes : n # p => link'[n] = link[n]

(* The unlinking of c takes it out of the list of the key, of which p      *)
(* stays a part.                                                           *)
LEMMA UnlinksCut ==
  ASSUME IInv, NEW u \in Threads, NEW p, NEW c, NEW w, Unlinks(u, p, c, w)
  PROVE  CutOut(p, c, w) /\ On(p, Hash[call[u].key]) /\ (On(p, Hash[call[u].key]))'
<1> SUFFICES ASSUME NEW b, b = Hash[call[u].key] PROVE CutOut(p, c, w) /\ On(p, b) /\ On(p, b)'
  <2>1. call'[u] = call[u]
    BY DEF Unlinks, CallStep
  <2> QED
    BY <2>1 DEF On
<1>0. /\ WordTypes /\ ListInv /\ SearchInv(u) /\ LocalTypes(u) /\ Still(u)
      /\ local[u].pc \in SearchPcs \cup {"bypass"} /\ c # None /\ local[u].pc \in RemovePcs
  BY DEF IInv, Types, ThreadTypes, ThreadInv, Unlinks, Still, SearchInv, SearchPcs, RemovePcs
<1>1. /\ Fresh(p, link[p], b) /\ p = local[u].prev /\ link[p] = local[u].sprev /\ c = link[p].next
      /\ w = Bypass(u) /\ w.next = link[c].next /\ link[c].marked /\ link' = [link EXCEPT ![p] = w]
  BY <1>0 DEF Unlinks, SearchInv
<1>2. p \in Nodes /\ ~link[p].marked /\ On(p, b)
  BY <1>1 DEF Fresh
<1>3. /\ c \in Slots /\ c \in Chained /\ c \in Nodes /\ c \in Reach(b) /\ After(p) = {c} \cup After(c)
      /\ b \in Buckets /\ (p \in Buckets \/ p \in Chained) /\ c \notin Buckets
  BY <1>0, <1>1, StandsFacts DEF Still
<1>4. c # p
  BY <1>1, <1>2
<1>5. link[p].tag \in Nat /\ w = [tag |-> link[p].tag + 1, marked |-> FALSE, next |-> local[u].scur.next]
      /\ w \in Words
  <2>1. link[p].tag \in Nat
    BY <1>0, <1>2 DEF WordTypes, Words
  <2>2. w = [tag |-> link[p].tag + 1, marked |-> FALSE, next |-> local[u].scur.next]
    BY <1>1 DEF Bypass, TagUp
  <2>3. local[u].scur.next \in Slots \cup {None}
    BY <1>0 DEF LocalTypes, Words
  <2> QED
    BY <2>1, <2>2, <2>3 DEF Words
<1>6. WordTypes'
  BY <1>0, <1>1, <1>2, <1>5 DEF Unlinks, WordTypes, stacks
<1>7. /\ Separate(FirstNode, NextNode, Chained)'
      /\ Chained' = Chained \ {c} /\ \A a \in Buckets : Reach(a)' = Reach(a) \ {c}
      /\ \A n \in Nodes : (n \in Buckets \/ n \in Chained) /\ n # p => After(n)' = After(n) \ {c}
  BY <1>0, <1>1, <1>2, <1>3, <1>6, CutStep
<1>8. link'[p] = w /\ \A n \in Nodes : n # p => link'[n] = link[n]
  BY <1>0, <1>1, <1>2 DEF WordTypes
<1>9. After(p)' = After(p) \ {c}
  <2>1. \A n \in Nodes : After(n)' = From(NextNode', link'[n].next)
    BY <1>6, ListsAfter
  <2>2. link'[p].next = link'[c].next
    BY <1>1, <1>3, <1>4, <1>8
  <2>3. After(c)' = After(c) \ {c}
    BY <1>3, <1>4, <1>7
  <2> QED
    BY <1>2, <1>3, <2>1, <2>2, <2>3
<1>10. On(p, b)'
  BY <1>2, <1>3, <1>4, <1>7 DEF On
<1> QED
  BY <1>1, <1>2, <1>3, <1>4, <1>5, <1>6, <1>7, <1>8, <1>9, <1>10 DEF CutOut

(* The rest of the invariant after an unlink.                              *)
LEMMA CutRely ==
  ASSUME IInv, NEW u \in Threads, NEW p, NEW c, NEW w, Unlinks(u, p, c, w), CutOut(p, c, w), Witness
  PROVE  LinkRely(u) /\ ListInv' /\ MapIs(map)' /\ map' = map
<1>0. WordTypes /\ ListInv /\ MapIs(map) /\ MapTypes /\ key' = key
  BY DEF IInv, Types, Unlinks
<1>1. \A n \in Nodes : link[n].tag \in Nat
  BY <1>0 DEF WordTypes, Words
<1>2. LinkRely(u)
  <2>1. \A n \in Nodes :
          /\ link[n].tag <= link'[n].tag
          /\ link'[n] = link[n] \/ link[n].tag < link'[n].tag
          /\ link'[n] = link[n] \/ n \in Buckets \/ n \in Chained
    BY <1>1 DEF CutOut
  <2>2. \A s \in Chained : link[s].marked => link'[s] = link[s]
    BY <1>0, ReachFacts DEF CutOut, Nodes
  <2>3. \A a \in Buckets : \A s \in Reach(a) : s \in Reach(a)' \/ link[s].marked
    BY DEF CutOut
  <2>4. \A n \in Nodes : n \in Buckets \/ n \in Chained =>
           \A s \in After(n) : s \in After(n)' \/ s \notin Chained'
    BY DEF CutOut
  <2>5. \A s \in Chained' : s \in Chained
    BY DEF CutOut
  <2> QED
    BY <1>0, <2>1, <2>2, <2>3, <2>4, <2>5 DEF LinkRely
<1>3. ListInv'
  <2>1. \A a \in Buckets : ~link'[a].marked
    BY <1>0 DEF CutOut, ListInv, Nodes
  <2>2. \A a \in Buckets : \A s \in Reach(a)' : key'[s] \in Keys /\ Hash[key'[s]] = a
    BY <1>0 DEF CutOut, ListInv
  <2>3. ASSUME NEW s \in Chained', link'[s].marked PROVE \E t \in Threads : Remover(t, s)'
    <3>1. s \in Chained /\ s \in Slots /\ link[s].marked
      BY <1>0, <2>3, ReachFacts DEF CutOut, Nodes
    <3>2. PICK t \in Threads : Remover(t, s)
      BY <1>0, <3>1 DEF ListInv
    <3>3. Remover(t, s)'
      BY <3>2 DEF Remover, Unlinks, CallStep
    <3> QED
      BY <3>3
  <2> QED
    BY <2>1, <2>2, <2>3 DEF ListInv, CutOut
<1>4. SUFFICES ASSUME NEW m, m = map PROVE map' = m /\ MapIs(map)'
  BY <1>2, <1>3
<1>5. MapIs(m)'
  <2>1. \A s \in Chained' : ~link'[s].marked => m[key'[s]] = s
    BY <1>0, <1>4, ReachFacts DEF CutOut, MapIs, Nodes
  <2>2. ASSUME NEW k \in Keys, m[k] # None PROVE Holds(k, m[k])'
    <3>1. m[k] \in Reach(Hash[k]) /\ ~link[m[k]].marked /\ key[m[k]] = k /\ Hash[k] \in Buckets
      BY <1>0, <1>4, <2>2, CacheAssumption DEF MapIs, Holds
    <3>2. m[k] \in Slots
      BY <1>0, <3>1, ReachFacts
    <3>3. m[k] \in Reach(Hash[k])' /\ ~link'[m[k]].marked
      BY <3>1, <3>2 DEF CutOut, Nodes
    <3> QED
      BY <1>0, <3>1, <3>3 DEF Holds
  <2> QED
    BY <2>1, <2>2 DEF MapIs
<1>6. m \in [Keys -> Pointers] /\ WordTypes' /\ HashInv'
  BY <1>0, <1>3, <1>4 DEF MapTypes, CutOut, ListInv, HashInv
<1>7. MapIs(map)' /\ map' = m
  BY <1>0, <1>5, <1>6, MapFollows
<1> QED
  BY <1>7

(* The node is now in the hands of the thread that marked it.              *)
LEMMA CutAccount ==
  ASSUME IInv, NEW u \in Threads, NEW p, NEW c, NEW w, Unlinks(u, p, c, w), CutOut(p, c, w),
         AllFree' = AllFree
  PROVE  AccountInv' /\ Removed(c)
<1>0. /\ ListInv /\ AccountInv /\ c \in Chained /\ c \in Slots /\ Chained' = Chained \ {c}
      /\ link[c].marked /\ call' = call
  BY DEF IInv, CutOut, Unlinks, CallStep
<1>1. PICK r \in Threads : Remover(r, c)
  BY <1>0 DEF ListInv
<1>2. call[r].op = "remove" /\ local[r].slot = c
  BY <1>1 DEF Remover
<1>3. ASSUME NEW t \in Threads, call[t].op = "remove", local[t].slot = c PROVE t = r
  <2>1. key[c] = call[t].key /\ key[c] = call[r].key
    BY <1>2, <1>3 DEF IInv, ThreadInv, RemoveInv
  <2> QED
    BY <1>2, <1>3, <2>1 DEF IInv, WriterInv, Writer
<1>4. \A t \in Threads :
        /\ local'[t].slot = local[t].slot /\ Adding(t)' = Adding(t)
        /\ local[t].pc \in {"push", "release"} => local'[t].pc = local[t].pc
        /\ local'[t].pc \in {"push", "release"} => local[t].pc = local'[t].pc
  <2> SUFFICES ASSUME NEW t \in Threads
               PROVE  /\ local'[t].slot = local[t].slot /\ Adding(t)' = Adding(t)
                      /\ local[t].pc \in {"push", "release"} => local'[t].pc = local[t].pc
                      /\ local'[t].pc \in {"push", "release"} => local[t].pc = local'[t].pc
    OBVIOUS
  <2>1. CASE t = u
    BY <2>1 DEF Unlinks, Adding
  <2>2. CASE t # u
    BY <2>2 DEF Unlinks, CallStep, Adding
  <2> QED
    BY <2>1, <2>2
<1>5. \A t \in Threads : call[t].op = "remove" /\ (At(t, "push") \/ At(t, "release")) => local[t].slot \notin Chained
  BY DEF IInv, ThreadInv, RemoveInv, At
<1>6. Hands(r)' = Hands(r) \cup {c}
  <2>1. Removing(r)' = {c} /\ Removing(r) = {}
    BY <1>0, <1>2, <1>4, <1>5 DEF Removing
  <2> QED
    BY <1>4, <2>1 DEF Hands
<1>7. \A t \in Threads \ {r} : Hands(t)' = Hands(t)
  <2> SUFFICES ASSUME NEW t \in Threads \ {r} PROVE Hands(t)' = Hands(t)
    OBVIOUS
  <2>1. CASE call[t].op = "remove"
    <3>1. local[t].slot # c
      BY <1>3, <2>1
    <3>2. Removing(t)' = Removing(t)
      BY <1>0, <1>4, <2>1, <3>1 DEF Removing, At
    <3> QED
      BY <1>4, <3>2 DEF Hands
  <2>2. CASE call[t].op # "remove"
    BY <1>0, <1>4, <2>2 DEF Hands, Removing
  <2> QED
    BY <2>1, <2>2
<1>8. \A t \in Threads : c \notin Hands(t)
  BY <1>0 DEF AccountInv
<1>9. c \notin AllFree /\ a_count_max' = a_count_max /\ a_length' = a_length
  BY <1>0 DEF AccountInv, Unlinks, pool
<1>10. AllFree' \cap Chained' = {}
  BY <1>0 DEF AccountInv
<1>11. \A t \in Threads : /\ Hands(t)' \cap (AllFree' \cup Chained') = {}
                          /\ \A z \in Threads : t # z => Hands(t)' \cap Hands(z)' = {}
  <2>1. \A t \in Threads : /\ Hands(t) \cap (AllFree \cup Chained) = {}
                           /\ \A z \in Threads : t # z => Hands(t) \cap Hands(z) = {}
    BY <1>0 DEF AccountInv
  <2>2. \A t \in Threads : Hands(t)' \cap (AllFree' \cup Chained') = {}
    BY <1>0, <1>6, <1>7, <1>9, <2>1
  <2>3. \A t, z \in Threads : t # z => Hands(t)' \cap Hands(z)' = {}
    BY <1>6, <1>7, <1>8, <2>1
  <2> QED
    BY <2>2, <2>3
<1>12. \A s \in Slots :
         s < a_count_max' <=> s \in AllFree' \/ s \in Chained' \/ \E t \in Threads : s \in Hands(t)'
  <2>1. \A s \in Slots :
          s < a_count_max <=> s \in AllFree \/ s \in Chained \/ \E t \in Threads : s \in Hands(t)
    BY <1>0 DEF AccountInv
  <2>2. \A s \in Slots : (\E t \in Threads : s \in Hands(t)') <=> s = c \/ \E t \in Threads : s \in Hands(t)
    BY <1>6, <1>7
  <2> QED
    BY <1>0, <1>9, <2>1, <2>2
<1>13. \A t \in Threads : local[t].pc \in GrowPcs => local'[t].pc = local[t].pc /\ local'[t].slot = local[t].slot
  <2>1. local[u].pc \notin GrowPcs
    BY DEF Unlinks, GrowPcs
  <2> QED
    BY <2>1 DEF Unlinks, CallStep
<1>14. \A s \in Slots : s < a_count_max' =>
         s < a_length' \/ \E t \in Threads : local'[t].pc \in GrowPcs /\ local'[t].slot = s
  <2>1. \A s \in Slots : s < a_count_max =>
          s < a_length \/ \E t \in Threads : local[t].pc \in GrowPcs /\ local[t].slot = s
    BY <1>0 DEF AccountInv
  <2> QED
    BY <1>9, <1>13, <2>1
<1>15. Removed(c)
  BY <1>2 DEF Removed
<1> QED
  BY <1>10, <1>11, <1>12, <1>14, <1>15 DEF AccountInv

(* An unlinking keeps the invariant, if the thread itself knows what it    *)
(* should.                                                                 *)
LEMMA UnlinksKept ==
  ASSUME IInv, NEW u \in Threads, NEW p, NEW c, NEW w, Unlinks(u, p, c, w), Witness, ThreadInv(u)'
  PROVE  IInv' /\ map' = map
<1>1. CutOut(p, c, w)
  BY UnlinksCut
<1>2. LinkRely(u) /\ ListInv' /\ MapIs(map)' /\ map' = map
  BY <1>1, CutRely
<1>3. MapRely(u) /\ map' \in [Keys -> Pointers]
  BY <1>2 DEF MapRely, IInv, Types, MapTypes
<1>4. WordTypes' /\ UNCHANGED stacks /\ local'[u].pc # "release"
  BY <1>1 DEF CutOut, Unlinks
<1>5. SameStacks /\ StackRely(u)
  BY <1>4, StacksSame DEF At
<1>6. StackInv'
  BY <1>4, <1>5, PrivateStacks
<1>7. AccountInv' /\ Removed(c)
  BY <1>1, <1>5, CutAccount DEF SameStacks
<1>8. CallStep(u) /\ UNCHANGED pool
  BY DEF Unlinks
<1>9. ThreadTypes' /\ OtherTypes' /\ WriterInv' /\ Others(u)
  <2>1. a_count_max' \in 0 .. MaxSlots /\ a_length' \in Nat /\ a_adding_memory' \in BOOLEAN
    BY <1>8 DEF pool, IInv, Types, OtherTypes
  <2> QED
    BY <1>8, <2>1, CallStepTypes
<1>10. TickInv'
  <2>1. TickRely(u)
    BY <1>1, <1>5, <1>7 DEF TickRely, CutOut, SameStacks, Unlinks, At
  <2> QED
    BY <1>3, <1>8, <2>1, CallStepTick
<1>11. Rely(u)
  BY <1>2, <1>3, <1>5, <1>9 DEF Rely
<1>12. IInv'
  BY <1>2, <1>3, <1>4, <1>6, <1>7, <1>9, <1>10, <1>11, StepKept
<1> QED
  BY <1>2, <1>12

(* FindUnlink keeps the invariant: the node unlinked is one that its       *)
(* remover has marked, so it passes into the hands of the remover.         *)
LEMMA FindUnlinkKept ==
  ASSUME IInv, NEW u \in Threads, FindUnlink(u), Witness
  PROVE  IInv' /\ map' = map
<1> SUFFICES ASSUME NEW v, v = local[u], NEW d, d = call[u], NEW w, w = Bypass(u)
             PROVE  IInv' /\ map' = map
  OBVIOUS
<1> DEFINE c == v.sprev.next
           p == v.prev
           b == Hash[d.key]
           F == {"pc", "sprev"}
<1>0. /\ v.pc = "unlink" /\ LocalTypes(u) /\ DOMAIN local = Threads
      /\ SearchInv(u) /\ CompleteInv(u) /\ LookupInv(u) /\ RemoveInv(u)
      /\ v.pc \in SearchPcs
  BY DEF FindUnlink, At, IInv, ThreadInv, Types, ThreadTypes, SearchPcs
<1>1. d.op \in {"lookup", "remove"} /\ v.again \in BOOLEAN /\ b \in Buckets /\ d.key \in Keys
  BY <1>0, PlaceFacts DEF IInv, Types, LocalTypes, SearchPcs, RemovePcs
<1>2. CASE PrevMoved(u)
  <2>1. Set(u, Restart(u, v.again)) /\ OnlyLocal
    BY <1>2 DEF FindUnlink, Again, OnlyLocal, mapped
  <2>2. map' = map
    BY <2>1 DEF OnlyLocal, Witness
  <2> QED
    BY <1>0, <1>1, <2>1, <2>2, RestartKept
<1>3. CASE ~PrevMoved(u)
  <2>0. /\ link[p] = v.sprev /\ Still(u) /\ c # None /\ v.scur = link[c] /\ v.scur.marked
        /\ Fresh(p, v.sprev, b)
    BY <1>0, <1>3 DEF PrevMoved, Still, SearchInv
  <2>1. /\ link' = [link EXCEPT ![p] = w] /\ Set(u, [pc |-> "follow", sprev |-> w])
        /\ UNCHANGED <<client, key, stacks, pool, call, result, calls, tick>>
    BY <1>3 DEF FindUnlink
  <2>2. Keeps(u, F) /\ local'[u].pc = "follow" /\ local'[u].sprev = w
    BY <1>0, <2>1 DEF Set, Keeps, LocalTypes, Fields
  <2>3. w \in Words /\ w.next = link[c].next
    <3>1. w = [tag |-> v.sprev.tag + 1, marked |-> FALSE, next |-> v.scur.next]
      BY DEF Bypass, TagUp
    <3> QED
      BY <1>0, <2>0, <3>1 DEF LocalTypes, Words
  <2>4. LocalTypes(u)'
    <3>1. DOMAIN local'[u] = Fields /\ \A f \in Fields \ F : local'[u][f] = v[f]
      BY <2>2 DEF Keeps
    <3> QED
      BY <1>0, <2>2, <2>3, <3>1 DEF LocalTypes, Fields, RemovePcs, SearchPcs
  <2>5. /\ local'[u].marked = v.marked /\ local'[u].slot = v.slot /\ local'[u].again = v.again
        /\ local'[u].prev = p
    BY <2>2 DEF Keeps, Fields
  <2>6. CallStep(u)
    <3>1. Busy(u)
      BY <1>1 DEF Busy, NoCall
    <3>2. Place(u)'
      BY <1>1, <2>1, <2>2 DEF Place, SearchPcs, RemovePcs
    <3> QED
      BY <1>0, <2>1, <2>2, <2>4, <2>5, <3>1, <3>2 DEF CallStep, Keeps
  <2>7. Unlinks(u, p, c, w)
    BY <1>0, <2>0, <2>1, <2>2, <2>3, <2>5, <2>6 DEF Unlinks
  <2>8. CutOut(p, c, w) /\ On(p, b) /\ (On(p, Hash[call[u].key]))'
    BY <2>7, UnlinksCut
  <2>9. map' = map /\ call' = call /\ key' = key
    BY <2>1, <2>7, <2>8, CutRely
  <2>10. d.op = "lookup" => seen'[u] = seen[u] /\ map[d.key] \in seen[u]
    <3>1. d.op = "lookup" => map[d.key] \in seen[u] /\ call[u] # NoCall
      BY <1>0 DEF LookupInv, NoCall
    <3> QED
      BY <2>9, <3>1 DEF Witness
  <2>11. SearchInv(u)'
    <3>1. Fresh(p, w, b)'
      <4>1. On(p, b)'
        BY <2>8, <2>9 DEF On
      <4>2. w.tag \in Nat
        BY <2>3 DEF Words
      <4> QED
        BY <2>8, <4>1, <4>2 DEF Fresh, CutOut
    <3> QED
      BY <2>2, <2>5, <2>9, <3>1 DEF SearchInv
  <2>12. CompleteInv(u)'
    <3> SUFFICES ASSUME NEW s \in Slots, Target(u, s)' PROVE w.next # None /\ s \in After(p)'
      BY <2>2, <2>5, <2>9 DEF CompleteInv, Ahead, ReadPcs
    <3>1. Target(u, s) /\ s # c
      <4>1. CASE d.op = "remove"
        BY <2>5, <2>8, <2>9, <4>1 DEF Target, CutOut
      <4>2. CASE d.op = "lookup"
        <5>1. Target(u, s)
          BY <2>9, <2>10, <4>2 DEF Target
        <5>2. ~link[s].marked
          BY <4>2, <5>1, TargetIn
        <5> QED
          BY <2>0, <5>1, <5>2
      <4> QED
        BY <1>1, <4>1, <4>2
    <3>2. s \in After(p)
      BY <1>0, <2>0, <3>1 DEF CompleteInv, Ahead
    <3>3. s \in After(p)'
      BY <2>8, <3>1, <3>2 DEF CutOut
    <3>4. w.next # None
      <4>1. s \in After(c)
        BY <1>0, <2>0, <3>1, <3>2, StandsFacts
      <4>2. link[c].next # None
        BY <2>8, <4>1, LeadsOn DEF CutOut, Nodes
      <4> QED
        BY <2>3, <4>2
    <3> QED
      BY <3>3, <3>4
  <2>13. LookupInv(u)'
    BY <1>0, <2>2, <2>5, <2>9, <2>10 DEF LookupInv, ReadPcs
  <2>14. RemoveInv(u)'
    <3>1. d.op = "remove" /\ v.marked => link'[v.slot] = link[v.slot]
      <4>1. d.op = "remove" /\ v.marked => v.slot \in Slots /\ link[v.slot].marked
        BY <1>0 DEF RemoveInv
      <4> QED
        BY <2>8, <4>1 DEF CutOut, Nodes
    <3> QED
      BY <1>0, <2>2, <2>5, <2>9, <3>1 DEF RemoveInv
  <2>15. ThreadInv(u)'
    BY <1>1, <2>2, <2>9, <2>11, <2>12, <2>13, <2>14, SearchThread DEF SearchPcs
  <2> QED
    BY <2>7, <2>15, UnlinksKept
<1> QED
  BY <1>2, <1>3

(* RemoveBypass keeps the invariant, whether its exchange succeeds or not. *)
LEMMA BypassKept ==
  ASSUME IInv, NEW u \in Threads, RemoveBypass(u), Witness
  PROVE  IInv' /\ map' = map
<1> SUFFICES ASSUME NEW v, v = local[u], NEW d, d = call[u], NEW w, w = Bypass(u)
             PROVE  IInv' /\ map' = map
  OBVIOUS
<1> DEFINE c == v.sprev.next
           p == v.prev
           F == {"pc"}
<1>0. /\ v.pc = "bypass" /\ LocalTypes(u) /\ DOMAIN local = Threads
      /\ SearchInv(u) /\ RemoveInv(u) /\ d.op = "remove"
  BY PlaceFacts DEF RemoveBypass, At, IInv, ThreadInv, Types, ThreadTypes
<1>1. v.marked
  BY <1>0 DEF RemoveInv
<1>2. CASE PrevMoved(u)
  <2>1. Set(u, Restart(u, TRUE)) /\ OnlyLocal /\ TRUE \in BOOLEAN
    BY <1>2 DEF RemoveBypass, AfterLostBypass, OnlyLocal, mapped
  <2>2. map' = map
    BY <2>1 DEF OnlyLocal, Witness
  <2> QED
    BY <1>0, <1>1, <2>1, <2>2, RestartKept
<1>3. CASE ~PrevMoved(u)
  <2>0. /\ link[p] = v.sprev /\ Still(u) /\ c # None
        /\ c = v.slot /\ link[c] = [tag |-> v.scur.tag + 1, marked |-> TRUE, next |-> v.scur.next]
    BY <1>0, <1>3 DEF PrevMoved, Still, SearchInv, RemoveInv
  <2>1. /\ link' = [link EXCEPT ![p] = w] /\ Set(u, [pc |-> "look"])
        /\ UNCHANGED <<client, key, stacks, pool, call, result, calls, tick>>
    BY <1>3 DEF RemoveBypass
  <2>2. Keeps(u, F) /\ local'[u].pc = "look"
    BY <1>0, <2>1 DEF Set, Keeps, LocalTypes, Fields
  <2>3. w.next = link[c].next
    BY <2>0 DEF Bypass
  <2>4. LocalTypes(u)'
    <3>1. DOMAIN local'[u] = Fields /\ \A f \in Fields \ F : local'[u][f] = v[f]
      BY <2>2 DEF Keeps
    <3> QED
      BY <1>0, <2>2, <3>1 DEF LocalTypes, Fields, RemovePcs
  <2>5. /\ local'[u].marked = v.marked /\ local'[u].slot = v.slot /\ local'[u].again = v.again
    BY <2>2 DEF Keeps, Fields
  <2>6. CallStep(u)
    <3>1. Busy(u)
      BY <1>0 DEF Busy, NoCall
    <3>2. Place(u)'
      BY <1>0, <2>1, <2>2 DEF Place, RemovePcs
    <3> QED
      BY <1>0, <2>1, <2>2, <2>4, <2>5, <3>1, <3>2 DEF CallStep, Keeps
  <2>7. Unlinks(u, p, c, w)
    BY <1>0, <2>0, <2>1, <2>2, <2>3, <2>5, <2>6 DEF Unlinks
  <2>8. CutOut(p, c, w)
    BY <2>7, UnlinksCut
  <2>9. map' = map /\ call' = call /\ key' = key
    BY <2>1, <2>7, <2>8, CutRely
  <2>10. SearchInv(u)' /\ CompleteInv(u)' /\ LookupInv(u)'
    BY <1>0, <2>2, <2>9 DEF SearchInv, CompleteInv, LookupInv, SearchPcs, ReadPcs
  <2>11. RemoveInv(u)'
    <3>1. link'[v.slot] = link[v.slot] /\ link[v.slot].marked
      BY <2>0, <2>8 DEF CutOut, Nodes
    <3> QED
      BY <1>0, <1>1, <2>2, <2>5, <2>9, <3>1 DEF RemoveInv
  <2>12. ThreadInv(u)'
    BY <1>0, <2>2, <2>9, <2>10, <2>11, SearchThread
  <2> QED
    BY <2>7, <2>12, UnlinksKept
<1> QED
  BY <1>2, <1>3

-------------------------------------------------------------------------------
(* Who holds the slots when no list and no stack changes.                  *)
LEMMA HandsSame ==
  ASSUME IInv, NEW u \in Threads, CallStep(u), Chained' = Chained, Adding(u)' = Adding(u),
         call[u].op = "remove" =>
           (local'[u].pc \in {"push", "release"}) = (local[u].pc \in {"push", "release"}),
         NEW t \in Threads
  PROVE  Hands(t)' = Hands(t)
<1>1. call' = call
  BY DEF CallStep
<1>2. CASE t = u
  <2>1. Removing(u)' = Removing(u)
    BY <1>1 DEF CallStep, Removing, At
  <2> QED
    BY <1>2, <2>1 DEF Hands
<1>3. CASE t # u
  <2>1. local'[t] = local[t]
    BY <1>3 DEF CallStep
  <2> QED
    BY <1>1, <2>1 DEF Hands, Adding, Removing, At
<1> QED
  BY <1>2, <1>3

(* A step that moves no slot keeps the account of the slots.               *)
LEMMA AccountSame ==
  ASSUME IInv, NEW u \in Threads, \A t \in Threads : Hands(t)' = Hands(t), Chained' = Chained,
         AllFree' = AllFree, a_count_max' = a_count_max, a_length' = a_length,
         \A t \in Threads \ {u} : local'[t] = local[t],
         local[u].pc \in GrowPcs => local'[u].pc \in GrowPcs /\ local'[u].slot = local[u].slot
  PROVE  AccountInv'
<1>1. ASSUME NEW s \in Slots, s < a_count_max
      PROVE  s < a_length' \/ \E t \in Threads : (local[t].pc \in GrowPcs /\ local[t].slot = s)'
  <2>1. s < a_length \/ \E t \in Threads : local[t].pc \in GrowPcs /\ local[t].slot = s
    BY <1>1 DEF IInv, AccountInv
  <2>2. ASSUME NEW t \in Threads, local[t].pc \in GrowPcs, local[t].slot = s
        PROVE  (local[t].pc \in GrowPcs /\ local[t].slot = s)'
    <3>1. CASE t = u
      BY <2>2, <3>1
    <3>2. CASE t # u
      BY <2>2, <3>2
    <3> QED
      BY <3>1, <3>2
  <2> QED
    BY <2>1, <2>2
<1> QED
  BY <1>1 DEF IInv, AccountInv

(* The rest of the invariant after a step that leaves the stacks alone.    *)
LEMMA LinkStepKept ==
  ASSUME IInv, NEW u \in Threads, CallStep(u), UNCHANGED stacks, UNCHANGED pool, local'[u].pc # "release",
         WordTypes', LinkRely(u), ListInv', MapIs(map)', map' \in [Keys -> Pointers], MapRely(u),
         AllFree' = AllFree => AccountInv' /\ TickRely(u), ThreadInv(u)', Witness
  PROVE  IInv'
<1>1. SameStacks /\ StackRely(u)
  BY StacksSame DEF At
<1>2. StackInv' /\ AllFree' = AllFree
  BY <1>1, PrivateStacks DEF SameStacks
<1>3. AccountInv' /\ TickRely(u)
  BY <1>2
<1>4. ThreadTypes' /\ OtherTypes' /\ WriterInv' /\ Others(u)
  <2>1. a_count_max' \in 0 .. MaxSlots /\ a_length' \in Nat /\ a_adding_memory' \in BOOLEAN
    BY DEF pool, IInv, Types, OtherTypes
  <2> QED
    BY <2>1, CallStepTypes
<1>5. TickInv'
  BY <1>3, CallStepTick
<1>6. Rely(u)
  BY <1>1, <1>4 DEF Rely
<1> QED
  BY <1>2, <1>3, <1>4, <1>5, <1>6, StepKept

-------------------------------------------------------------------------------
(* A word that is marked.                                                  *)
LEMMA MarkedWord ==
  ASSUME NEW w \in Words
  PROVE  LET x == [w EXCEPT !.tag = w.tag + 1, !.marked = TRUE]
         IN x = [tag |-> w.tag + 1, marked |-> TRUE, next |-> w.next] /\ x \in Words
<1> DEFINE x == [w EXCEPT !.tag = w.tag + 1, !.marked = TRUE]
           z == [tag |-> w.tag + 1, marked |-> TRUE, next |-> w.next]
<1>1. DOMAIN w = {"tag", "marked", "next"} /\ w.tag \in Nat /\ w.next \in Slots \cup {None}
  BY DEF Words
<1>2. DOMAIN x = {"tag", "marked", "next"}
  BY <1>1
<1>3. x.tag = w.tag + 1
  BY <1>1
<1>4. x.marked = TRUE
  BY <1>1
<1>5. x.next = w.next
  BY <1>1
<1>7. x = [f \in DOMAIN x |-> x[f]]
  OBVIOUS
<1>6. DOMAIN z = {"tag", "marked", "next"}
  OBVIOUS
<1>8. z = [f \in DOMAIN z |-> z[f]]
  OBVIOUS
<1>9. \A f \in DOMAIN x : x[f] = z[f]
  <2>1. z.tag = w.tag + 1 /\ z.next = w.next
    OBVIOUS
  <2>2. z.marked = TRUE
    OBVIOUS
  <2>3. x.marked = z.marked
    BY <1>4, <2>2, Zenon
  <2> HIDE DEF x, z
  <2>4. x["marked"] = z["marked"] /\ x["tag"] = z["tag"] /\ x["next"] = z["next"]
    BY <1>3, <1>5, <2>1, <2>3
  <2> QED
    BY <1>2, <2>4
<1>11. x = z
  <2> HIDE DEF x, z
  <2> QED
  BY <1>2, <1>7, <1>6, <1>8, <1>9
<1>12. z \in Words
  BY <1>1 DEF Words
<1> QED
  BY <1>11, <1>12

(* A removal marks the node of its key, which is that of its slot.         *)
LEMMA MarkKept ==
  ASSUME IInv, NEW u \in Threads, Mark(u), Witness
  PROVE  /\ IInv'
         /\ map' = IF link[local[u].sprev.next] = local[u].scur
                   THEN [map EXCEPT ![call[u].key] = None] ELSE map
<1> SUFFICES ASSUME NEW v, v = local[u], NEW d, d = call[u], NEW m, m = [map EXCEPT ![d.key] = None]
             PROVE  IInv' /\ map' = IF link[v.sprev.next] = v.scur THEN m ELSE map
  OBVIOUS
<1> DEFINE c == v.sprev.next
           w == v.scur
           k == d.key
           b == Hash[k]
           F == {"pc", "marked"}
           x == [w EXCEPT !.tag = w.tag + 1, !.marked = TRUE]
<1>0. /\ v.pc = "mark" /\ LocalTypes(u) /\ DOMAIN local = Threads
      /\ SearchInv(u) /\ RemoveInv(u) /\ d.op = "remove" /\ v.again \in BOOLEAN
      /\ WordTypes /\ ListInv /\ MapIs(map) /\ map \in [Keys -> Pointers]
  BY PlaceFacts DEF Mark, At, IInv, ThreadInv, Types, ThreadTypes, LocalTypes, MapTypes
<1>1. CASE link[c] # w
  <2>1. Set(u, Restart(u, v.again)) /\ OnlyLocal
    BY <1>1 DEF Mark, Again, OnlyLocal, mapped
  <2>2. map' = map
    BY <2>1 DEF OnlyLocal, Witness
  <2>3. IInv'
    BY <1>0, <2>1, RestartKept
  <2> QED
    BY <1>1, <2>2, <2>3
<1>2. CASE link[c] = w
  <2>1. /\ link' = [link EXCEPT ![c] = x] /\ Set(u, [pc |-> "bypass", marked |-> TRUE])
        /\ UNCHANGED <<client, key, stacks, pool, call, result, calls, tick>>
    BY <1>2 DEF Mark, TagUp
  <2>2. /\ ~v.marked /\ Fresh(c, w, b) /\ key[c] = k /\ c # None
        /\ v.slot \in Slots /\ key[v.slot] = k /\ map[k] = v.slot /\ ~v.again
    BY <1>0, <1>2 DEF RemoveInv, SearchInv
  <2>3. k \in Keys /\ b \in Buckets
    BY <1>0, PlaceFacts DEF IInv, Types, Ops
  <2>4. c \in Slots /\ c \notin Buckets /\ c \in Nodes
    <3>1. c \in Slots
      BY <1>0, <2>2 DEF LocalTypes, Words
    <3> QED
      BY <3>1, CacheAssumption DEF Nodes
  <2>5. c \in Reach(b) /\ c \in Chained /\ ~link[c].marked
    <3>1. On(c, b) /\ ~w.marked
      BY <1>2, <2>2 DEF Fresh
    <3> QED
      BY <1>0, <1>2, <2>3, <2>4, <3>1, ReachFacts DEF On
  <2>6. c = v.slot
    BY <1>0, <2>2, <2>5 DEF MapIs
  <2>7. w \in Words /\ w.tag \in Nat /\ x = [tag |-> w.tag + 1, marked |-> TRUE, next |-> w.next]
    BY <1>0, MarkedWord DEF LocalTypes, Words
  <2>8. /\ link'[c] = x /\ x.marked /\ x.tag = link[c].tag + 1 /\ x.next = link[c].next
        /\ \A n \in Nodes : n # c => link'[n] = link[n]
        /\ x \in Words
    <3> DEFINE y == [tag |-> w.tag + 1, marked |-> TRUE, next |-> w.next]
    <3>1. y.marked /\ y.tag = w.tag + 1 /\ y.next = w.next /\ x = y /\ y \in Words
      BY <2>7 DEF Words
    <3>2. link' = [link EXCEPT ![c] = y]
      BY <2>1, <3>1
    <3> HIDE DEF x, y
    <3> QED
      BY <1>0, <1>2, <2>4, <3>1, <3>2 DEF WordTypes
  <2> HIDE DEF x
  <2>9. WordTypes'
    BY <1>0, <2>1, <2>8 DEF WordTypes, stacks
  <2>10. SameLists
    <3>1. \A n \in Nodes : link'[n].next = link[n].next
      BY <2>8
    <3> QED
      BY <1>0, <2>9, <3>1, SameStep DEF ListInv
  <2>11. /\ Chained' = Chained /\ \A a \in Buckets : Reach(a)' = Reach(a)
         /\ \A n \in Nodes : n \in Buckets \/ n \in Chained => After(n)' = After(n)
         /\ Separate(FirstNode, NextNode, Chained)' /\ key' = key /\ call' = call
    BY <2>1, <2>10 DEF SameLists
  <2>12. Keeps(u, F) /\ local'[u].pc = "bypass" /\ local'[u].marked = TRUE
    BY <1>0, <2>1 DEF Set, Keeps, LocalTypes, Fields
  <2>13. LocalTypes(u)'
    <3>1. DOMAIN local'[u] = Fields /\ \A f \in Fields \ F : local'[u][f] = v[f]
      BY <2>12 DEF Keeps
    <3> QED
      BY <1>0, <2>12, <3>1 DEF LocalTypes, Fields, RemovePcs
  <2>14. /\ local'[u].slot = v.slot /\ local'[u].again = v.again /\ local'[u].prev = v.prev
         /\ local'[u].sprev = v.sprev /\ local'[u].scur = w
    BY <2>12 DEF Keeps, Fields
  <2>15. CallStep(u)
    <3>1. Busy(u)
      BY <1>0 DEF Busy, NoCall
    <3>2. Place(u)'
      BY <1>0, <2>11, <2>12 DEF Place, RemovePcs
    <3> QED
      BY <1>0, <2>1, <2>12, <2>13, <2>14, <3>1, <3>2 DEF CallStep, Keeps
  <2>16. LinkRely(u)
    <3>1. \A n \in Nodes :
            /\ link[n].tag <= link'[n].tag
            /\ link'[n] = link[n] \/ link[n].tag < link'[n].tag
            /\ link'[n] = link[n] \/ n \in Chained
      <4>1. \A n \in Nodes : link[n].tag \in Nat
        BY <1>0 DEF WordTypes, Words
      <4> QED
        BY <2>4, <2>5, <2>8, <4>1
    <3>2. \A s \in Chained : link[s].marked => link'[s] = link[s]
      BY <1>0, <2>5, <2>8, ReachFacts DEF Nodes
    <3> QED
      BY <2>11, <3>1, <3>2 DEF LinkRely
  <2>17. MapIs(m)' /\ m \in [Keys -> Pointers]
    <3>1. m[k] = None /\ (\A j \in Keys : j # k => m[j] = map[j]) /\ m \in [Keys -> Pointers]
      BY <1>0, <2>3 DEF Pointers
    <3>2. ASSUME NEW s \in Chained', ~link'[s].marked PROVE m[key'[s]] = s
      <4>1. s \in Chained /\ s \in Slots /\ s \in Nodes /\ s # c /\ ~link[s].marked
        BY <1>0, <2>8, <2>11, <3>2, ReachFacts DEF Nodes
      <4>2. map[key[s]] = s /\ key[s] \in Keys
        BY <1>0, <4>1, ReachFacts DEF MapIs, ListInv
      <4>3. key[s] # k
        BY <2>2, <2>6, <4>1, <4>2
      <4> QED
        BY <2>11, <3>1, <4>2, <4>3
    <3>3. ASSUME NEW j \in Keys, m[j] # None PROVE Holds(j, m[j])'
      <4>1. j # k /\ m[j] = map[j]
        BY <3>1, <3>3
      <4>2. m[j] \in Reach(Hash[j]) /\ ~link[m[j]].marked /\ key[m[j]] = j /\ Hash[j] \in Buckets
        BY <1>0, <3>3, <4>1, CacheAssumption DEF MapIs, Holds
      <4>3. m[j] # c /\ m[j] \in Nodes
        BY <1>0, <2>2, <4>1, <4>2, ReachFacts DEF Nodes
      <4> QED
        BY <2>8, <2>11, <4>2, <4>3 DEF Holds
    <3> QED
      BY <3>1, <3>2, <3>3 DEF MapIs
  <2>18. ListInv'
    <3>1. \A a \in Buckets : ~link'[a].marked
      BY <1>0, <2>4, <2>8 DEF ListInv, Nodes
    <3>2. \A a \in Buckets : \A s \in Reach(a)' : key'[s] \in Keys /\ Hash[key'[s]] = a
      BY <1>0, <2>11 DEF ListInv
    <3>3. ASSUME NEW s \in Chained', link'[s].marked PROVE \E t \in Threads : Remover(t, s)'
      <4>1. CASE s = c
        <5>1. Remover(u, s)'
          BY <1>0, <2>6, <2>11, <2>12, <2>14, <4>1 DEF Remover
        <5> QED
          BY <5>1
      <4>2. CASE s # c
        <5>1. s \in Chained /\ s \in Nodes /\ link[s].marked
          BY <1>0, <2>8, <2>11, <3>3, <4>2, ReachFacts DEF Nodes
        <5>2. PICK t \in Threads : Remover(t, s)
          BY <1>0, <5>1 DEF ListInv
        <5>3. Remover(t, s)'
          BY <2>2, <2>11, <2>12, <5>2 DEF Remover, Keeps
        <5> QED
          BY <5>3
      <4> QED
        BY <4>1, <4>2
    <3> QED
      BY <2>11, <3>1, <3>2, <3>3 DEF ListInv
  <2>19. map' = m /\ MapIs(map)' /\ MapRely(u)
    <3>1. HashInv' /\ MapTypes
      BY <2>18 DEF ListInv, HashInv, IInv, Types
    <3>2. map' = m /\ MapIs(map)'
      BY <1>0, <2>9, <2>17, <3>1, MapFollows
    <3>3. MapRely(u)
      BY <1>0, <3>2 DEF MapRely, Writer
    <3> QED
      BY <3>2, <3>3
  <2>20. ASSUME AllFree' = AllFree PROVE AccountInv' /\ TickRely(u)
    <3>1. Adding(u)' = Adding(u)
      BY <1>0, <2>12 DEF Adding
    <3>2. \A t \in Threads : Hands(t)' = Hands(t)
      BY <1>0, <2>11, <2>12, <2>15, <3>1, HandsSame
    <3>3. v.pc \notin GrowPcs /\ a_count_max' = a_count_max /\ a_length' = a_length
      BY <1>0, <2>1 DEF GrowPcs, pool
    <3>4. AccountInv'
      BY <2>11, <2>12, <2>20, <3>2, <3>3, AccountSame DEF Keeps
    <3> QED
      BY <2>11, <2>12, <2>20, <3>4 DEF TickRely, At
  <2>21. SearchInv(u)'
    <3>1. Fresh(v.prev, v.sprev, b)
      BY <1>0 DEF SearchInv
    <3>2. Fresh(v.prev, v.sprev, b)'
      BY <1>0, <2>3, <2>9, <2>16, <3>1, FreshKept DEF LocalTypes
    <3> QED
      BY <2>2, <2>11, <2>12, <2>14, <3>2 DEF SearchInv, SearchPcs
  <2>22. CompleteInv(u)' /\ LookupInv(u)'
    BY <1>0, <2>11, <2>12 DEF CompleteInv, LookupInv, SearchPcs, ReadPcs
  <2>23. RemoveInv(u)'
    <3>1. m[k] = None
      BY <1>0, <2>3
    <3>2. link'[v.slot].marked /\ link'[c] = [tag |-> w.tag + 1, marked |-> TRUE, next |-> w.next]
      BY <2>6, <2>7, <2>8
    <3> QED
      BY <1>0, <2>2, <2>6, <2>11, <2>12, <2>14, <2>19, <3>1, <3>2 DEF RemoveInv
  <2>24. ThreadInv(u)'
    BY <1>0, <2>11, <2>12, <2>21, <2>22, <2>23, SearchThread
  <2>25. IInv'
    BY <2>1, <2>9, <2>12, <2>15, <2>16, <2>17, <2>18, <2>19, <2>20, <2>24, LinkStepKept
  <2> QED
    BY <1>2, <2>19, <2>25
<1> QED
  BY <1>1, <1>2

-------------------------------------------------------------------------------
(* The node of an addition, which only the thread that adds it writes.     *)
LEMMA OwnFacts ==
  ASSUME IInv, NEW u \in Threads, local[u].pc \in {"set_key", "store", "link"}
  PROVE  LET s == local[u].slot
             k == call[u].key
         IN /\ s \in Slots /\ s \in Nodes /\ s \notin Buckets /\ s \notin Chained /\ s \notin AllFree
            /\ Adding(u) = {s} /\ call[u].op = "add" /\ k \in Keys /\ Hash[k] \in Buckets
            /\ \A t \in Threads \ {u} : s \notin Hands(t)
            /\ Busy(u) /\ LocalTypes(u) /\ AddInv(u) /\ ~local[u].marked /\ map[k] = None
            /\ WordTypes /\ ListInv /\ MapIs(map) /\ map \in [Keys -> Pointers]
            /\ local[u].pc \notin GrowPcs /\ DOMAIN local = Threads
<1>1. call[u].op = "add" /\ Busy(u) /\ call[u].key \in Keys /\ Hash[call[u].key] \in Buckets
  BY PlaceFacts DEF IInv, Types, AddPcs
<1>2. Adding(u) = {local[u].slot}
  BY DEF Adding
<1>3. local[u].slot \in Slots /\ local[u].slot \in Nodes /\ local[u].slot \notin Buckets
  BY <1>2, AddingFacts, CacheAssumption DEF Nodes
<1>4. local[u].slot \notin Chained /\ local[u].slot \notin AllFree
      /\ \A t \in Threads \ {u} : local[u].slot \notin Hands(t)
  BY <1>2, AddingFacts
<1>5. AddInv(u) /\ LocalTypes(u) /\ DOMAIN local = Threads
  BY DEF IInv, ThreadInv, Types, ThreadTypes
<1>6. ~local[u].marked /\ map[call[u].key] = None
  BY <1>1, <1>5 DEF AddInv
<1>7. WordTypes /\ ListInv /\ MapIs(map) /\ map \in [Keys -> Pointers]
  BY DEF IInv, Types, MapTypes
<1>8. local[u].pc \notin GrowPcs
  BY DEF GrowPcs
<1> QED
  BY <1>1, <1>2, <1>3, <1>4, <1>5, <1>6, <1>7, <1>8

(* A step of the addition that the lists do not show.                      *)
LEMMA OwnStepKept ==
  ASSUME IInv, NEW u \in Threads, local[u].pc \in {"set_key", "store", "link"},
         UNCHANGED <<client, stacks, pool, call, result, calls, tick>>,
         NEW F, Keeps(u, F), F \cap {"slot", "marked"} = {}, local'[u].pc \in {"store", "link"},
         LocalTypes(u)', WordTypes', Witness, map' = map => AddInv(u)',
         \A n \in Nodes \ {local[u].slot} : link'[n] = link[n],
         link[local[u].slot].tag <= link'[local[u].slot].tag,
         \A s \in Slots \ {local[u].slot} : key'[s] = key[s]
  PROVE  IInv' /\ map' = map
<1> SUFFICES ASSUME NEW m, m = map, NEW o, o = local[u].slot PROVE IInv' /\ map' = map
  OBVIOUS
<1>0. /\ o \in Slots /\ o \in Nodes /\ o \notin Buckets /\ o \notin Chained
      /\ Adding(u) = {o} /\ call[u].op = "add" /\ Busy(u) /\ WordTypes /\ ListInv /\ MapIs(map)
      /\ map \in [Keys -> Pointers] /\ local[u].pc \notin GrowPcs
  BY OwnFacts
<1>1. SameLists
  <2>1. \A n \in Nodes : n \in Buckets \/ n \in Chained => link'[n] = link[n]
    BY <1>0
  <2> QED
    BY <1>0, <2>1, SameStep DEF ListInv
<1>2. /\ Chained' = Chained /\ \A a \in Buckets : Reach(a)' = Reach(a)
      /\ \A n \in Nodes : n \in Buckets \/ n \in Chained => After(n)' = After(n)
      /\ Separate(FirstNode, NextNode, Chained)'
  BY <1>1 DEF SameLists
<1>3. LinkRely(u)
  <2>1. \A n \in Nodes : link[n].tag <= link'[n].tag
    <3>1. \A n \in Nodes : link[n].tag \in Nat
      BY <1>0 DEF WordTypes, Words
    <3> QED
      BY <1>0, <3>1
  <2>2. \A n \in Nodes : link'[n] = link[n] \/ n \in Adding(u)
    BY <1>0
  <2>3. \A s \in Chained : link'[s] = link[s]
    BY <1>0, ReachFacts DEF Nodes
  <2>4. \A s \in Slots \ Adding(u) : key'[s] = key[s]
    BY <1>0
  <2> QED
    BY <1>2, <2>1, <2>2, <2>3, <2>4 DEF LinkRely
<1>4. \A s \in Chained : link'[s] = link[s] /\ key'[s] = key[s]
  BY <1>0, ReachFacts DEF Nodes
<1>5. local'[u].slot = o /\ local'[u].marked = local[u].marked
  BY DEF Keeps, Fields
<1>6. CallStep(u)
  <2>1. Place(u)'
    BY <1>0 DEF Place, AddPcs
  <2> QED
    BY <1>0, <1>5, <2>1 DEF CallStep, Keeps
<1>7. ListInv'
  <2>1. \A a \in Buckets : ~link'[a].marked
    BY <1>0 DEF ListInv, Nodes
  <2>2. \A a \in Buckets : \A s \in Reach(a)' : key'[s] \in Keys /\ Hash[key'[s]] = a
    BY <1>0, <1>2, <1>4, ReachFacts DEF ListInv
  <2>3. ASSUME NEW s \in Chained', link'[s].marked PROVE \E t \in Threads : Remover(t, s)'
    <3>1. PICK t \in Threads : Remover(t, s)
      BY <1>0, <1>2, <1>4, <2>3 DEF ListInv
    <3>2. t # u
      BY <1>0, <3>1 DEF Remover
    <3>3. Remover(t, s)'
      BY <3>1, <3>2 DEF Remover, Keeps
    <3> QED
      BY <3>3
  <2> QED
    BY <1>2, <2>1, <2>2, <2>3 DEF ListInv
<1>8. MapIs(m)'
  <2>1. \A s \in Chained' : ~link'[s].marked => m[key'[s]] = s
    BY <1>0, <1>2, <1>4 DEF MapIs
  <2>2. ASSUME NEW k \in Keys, m[k] # None PROVE Holds(k, m[k])'
    <3>1. Holds(k, m[k]) /\ Hash[k] \in Buckets
      BY <1>0, <2>2, CacheAssumption DEF MapIs
    <3>2. m[k] \in Chained
      BY <1>0, <3>1, ReachFacts DEF Holds
    <3> QED
      BY <1>2, <1>4, <3>1, <3>2 DEF Holds
  <2> QED
    BY <2>1, <2>2 DEF MapIs
<1>9. map' = m /\ MapIs(map)'
  <2>1. HashInv' /\ MapTypes /\ m \in [Keys -> Pointers]
    BY <1>0, <1>7 DEF ListInv, HashInv, IInv, Types
  <2> QED
    BY <1>0, <1>8, <2>1, MapFollows
<1>10. MapRely(u) /\ map' \in [Keys -> Pointers]
  BY <1>0, <1>9 DEF MapRely
<1>11. ASSUME AllFree' = AllFree PROVE AccountInv' /\ TickRely(u)
  <2>1. Adding(u)' = Adding(u)
    BY <1>5 DEF Adding
  <2>2. \A t \in Threads : Hands(t)' = Hands(t)
    BY <1>0, <1>2, <1>6, <2>1, HandsSame
  <2>3. AccountInv'
    BY <1>0, <1>2, <1>11, <2>2, AccountSame DEF Keeps, pool
  <2> QED
    BY <1>2, <1>11, <2>3 DEF TickRely, At
<1>12. ThreadInv(u)'
  <2>1. PopInv(u)' /\ call'[u].op = "add" /\ local'[u].pc \in AddPcs
    BY <1>0 DEF PopInv, AddPcs
  <2>2. AddInv(u)'
    BY <1>9
  <2> QED
    BY <2>1, <2>2, AddThread
<1>13. IInv'
  BY <1>3, <1>6, <1>7, <1>9, <1>10, <1>11, <1>12, LinkStepKept
<1> QED
  BY <1>9, <1>13

(* AddKey keeps the invariant: the slot is on no list.                     *)
LEMMA KeyKept ==
  ASSUME IInv, NEW u \in Threads, AddKey(u), Witness
  PROVE  IInv' /\ map' = map
<1> SUFFICES ASSUME NEW v, v = local[u], NEW d, d = call[u] PROVE IInv' /\ map' = map
  OBVIOUS
<1> DEFINE s == v.slot
           k == d.key
           F == {"pc", "tag", "head"}
<1>0. /\ v.pc = "set_key" /\ s \in Slots /\ s \in Nodes /\ WordTypes /\ LocalTypes(u) /\ AddInv(u)
      /\ k \in Keys /\ Hash[k] \in Buckets /\ DOMAIN local = Threads /\ ~v.marked /\ map[k] = None
  BY OwnFacts DEF AddKey, At
<1>1. /\ key' = [key EXCEPT ![s] = k] /\ link' = link
      /\ Set(u, [pc |-> "store", tag |-> TagUp(link[s]), head |-> link[Hash[k]]])
      /\ UNCHANGED <<client, stacks, pool, call, result, calls, tick>>
  BY DEF AddKey
<1>2. /\ Keeps(u, F) /\ local'[u].pc = "store" /\ local'[u].tag = link[s].tag + 1
      /\ local'[u].head = link[Hash[k]]
  BY <1>0, <1>1 DEF Set, Keeps, LocalTypes, Fields, TagUp
<1>3. link[s].tag \in Nat /\ link[Hash[k]] \in Words
  BY <1>0 DEF WordTypes, Words, Nodes
<1>4. LocalTypes(u)'
  <2>1. DOMAIN local'[u] = Fields /\ \A f \in Fields \ F : local'[u][f] = v[f]
    BY <1>2 DEF Keeps
  <2>2. local'[u].tag \in Nat
    BY <1>2, <1>3
  <2> QED
    BY <1>0, <1>2, <1>3, <2>1, <2>2 DEF LocalTypes, Fields, AddPcs
<1>5. WordTypes'
  BY <1>0, <1>1 DEF WordTypes, stacks
<1>6. ASSUME map' = map PROVE AddInv(u)'
  <2>1. local'[u].slot = s /\ local'[u].marked = v.marked
    BY <1>2 DEF Keeps, Fields
  <2>2. key'[s] = k /\ link'[s].tag <= local'[u].tag
    BY <1>0, <1>1, <1>2, <1>3 DEF WordTypes
  <2> QED
    BY <1>0, <1>1, <1>2, <1>6, <2>1, <2>2 DEF AddInv, GrowPcs
<1>7. /\ \A n \in Nodes \ {s} : link'[n] = link[n]
      /\ link[s].tag <= link'[s].tag
      /\ \A r \in Slots \ {s} : key'[r] = key[r]
  BY <1>0, <1>1, <1>3 DEF WordTypes
<1>8. F \cap {"slot", "marked"} = {}
  OBVIOUS
<1> HIDE DEF F, s, k
<1>9. v.slot = s
  BY DEF s
<1> QED
  BY <1>0, <1>1, <1>2, <1>4, <1>5, <1>6, <1>7, <1>8, <1>9, OwnStepKept

(* The store of the word that the node will be linked with.                *)
LEMMA StoreKept ==
  ASSUME IInv, NEW u \in Threads, AddStore(u), Witness
  PROVE  IInv' /\ map' = map
<1> SUFFICES ASSUME NEW v, v = local[u], NEW d, d = call[u] PROVE IInv' /\ map' = map
  OBVIOUS
<1> DEFINE s == v.slot
           k == d.key
           F == {"pc"}
           x == [tag |-> v.tag, marked |-> FALSE, next |-> v.head.next]
<1>0. /\ v.pc = "store" /\ s \in Slots /\ s \in Nodes /\ WordTypes /\ LocalTypes(u) /\ AddInv(u)
      /\ k \in Keys /\ DOMAIN local = Threads /\ ~v.marked /\ map[k] = None /\ d.op = "add"
  BY OwnFacts DEF AddStore, At
<1>1. /\ link' = [link EXCEPT ![s] = x] /\ Set(u, [pc |-> "link"]) /\ key' = key
      /\ UNCHANGED <<client, stacks, pool, call, result, calls, tick>>
  BY DEF AddStore
<1>2. Keeps(u, F) /\ local'[u].pc = "link"
  BY <1>0, <1>1 DEF Set, Keeps, LocalTypes, Fields
<1>3. /\ v.tag \in Nat /\ x \in Words /\ link[s].tag <= v.tag /\ key[s] = k
      /\ x.tag = v.tag /\ x.next = v.head.next
  BY <1>0 DEF LocalTypes, Words, AddInv
<1>4. LocalTypes(u)'
  <2>1. DOMAIN local'[u] = Fields /\ \A f \in Fields \ F : local'[u][f] = v[f]
    BY <1>2 DEF Keeps
  <2> QED
    BY <1>0, <1>2, <2>1 DEF LocalTypes, Fields, AddPcs
<1>5. link'[s] = x /\ \A n \in Nodes \ {s} : link'[n] = link[n]
  BY <1>0, <1>1 DEF WordTypes
<1>6. WordTypes'
  <2>1. link' \in [Nodes -> Words]
    BY <1>0, <1>1, <1>3 DEF WordTypes
  <2> QED
    BY <1>0, <1>1, <2>1 DEF WordTypes, stacks
<1>7. ASSUME map' = map PROVE AddInv(u)'
  <2>1. local'[u].slot = s /\ local'[u].marked = v.marked /\ local'[u].tag = v.tag
        /\ local'[u].head = v.head
    BY <1>2 DEF Keeps, Fields
  <2>2. link'[s].tag <= v.tag
    BY <1>3, <1>5
  <2> QED
    BY <1>0, <1>1, <1>2, <1>3, <1>5, <1>7, <2>1, <2>2 DEF AddInv, GrowPcs
<1>8. link[s].tag <= link'[s].tag /\ \A r \in Slots \ {s} : key'[r] = key[r]
  BY <1>1, <1>3, <1>5
<1>9. F \cap {"slot", "marked"} = {}
  OBVIOUS
<1> HIDE DEF F, s, k
<1>10. v.slot = s
  BY DEF s
<1> QED
  BY <1>0, <1>1, <1>2, <1>4, <1>5, <1>6, <1>7, <1>8, <1>9, <1>10, OwnStepKept

(* The bucket has moved since its word was loaded.                         *)
LEMMA LinkFailedKept ==
  ASSUME IInv, NEW u \in Threads, AddLink(u), link[Hash[call[u].key]] # local[u].head, Witness
  PROVE  IInv' /\ map' = map
<1> SUFFICES ASSUME NEW v, v = local[u], NEW d, d = call[u] PROVE IInv' /\ map' = map
  OBVIOUS
<1> DEFINE s == v.slot
           k == d.key
           F == {"pc", "head"}
<1>0. /\ v.pc = "link" /\ s \in Slots /\ s \in Nodes /\ WordTypes /\ LocalTypes(u) /\ AddInv(u)
      /\ k \in Keys /\ Hash[k] \in Buckets /\ DOMAIN local = Threads /\ ~v.marked /\ map[k] = None
      /\ d.op = "add"
  BY OwnFacts DEF AddLink, At
<1>1. /\ link' = link /\ Set(u, [pc |-> "store", head |-> link[Hash[k]]]) /\ key' = key
      /\ UNCHANGED <<client, stacks, pool, call, result, calls, tick>>
  BY DEF AddLink
<1>2. Keeps(u, F) /\ local'[u].pc = "store" /\ local'[u].head = link[Hash[k]]
  BY <1>0, <1>1 DEF Set, Keeps, LocalTypes, Fields
<1>3. link[s].tag \in Nat /\ link[Hash[k]] \in Words
  BY <1>0 DEF WordTypes, Words, Nodes
<1>4. LocalTypes(u)'
  <2>1. DOMAIN local'[u] = Fields /\ \A f \in Fields \ F : local'[u][f] = v[f]
    BY <1>2 DEF Keeps
  <2> QED
    BY <1>0, <1>2, <1>3, <2>1 DEF LocalTypes, Fields, AddPcs
<1>5. WordTypes'
  BY <1>0, <1>1 DEF WordTypes, stacks
<1>6. ASSUME map' = map PROVE AddInv(u)'
  <2>1. local'[u].slot = s /\ local'[u].marked = v.marked /\ local'[u].tag = v.tag
    BY <1>2 DEF Keeps, Fields
  <2>2. link[s].tag <= v.tag /\ key[s] = k
    BY <1>0 DEF AddInv
  <2> QED
    BY <1>0, <1>1, <1>2, <1>6, <2>1, <2>2 DEF AddInv, GrowPcs
<1>7. F \cap {"slot", "marked"} = {} /\ link[s].tag <= link'[s].tag
  BY <1>1, <1>3
<1> HIDE DEF F, s, k
<1>8. v.slot = s
  BY DEF s
<1> QED
  BY <1>0, <1>1, <1>2, <1>4, <1>5, <1>6, <1>7, <1>8, OwnStepKept

-------------------------------------------------------------------------------
(* Who holds the slots when a list takes one from the hands of thread u.   *)
LEMMA OthersHands ==
  ASSUME IInv, NEW u \in Threads, Others(u), Chained \subseteq Chained',
         \A s \in Chained' : s \in Chained \/ s \in Hands(u)
  PROVE  \A t \in Threads \ {u} : Hands(t)' = Hands(t)
<1> SUFFICES ASSUME NEW t \in Threads \ {u} PROVE Hands(t)' = Hands(t)
  OBVIOUS
<1>1. local'[t] = local[t] /\ call'[t] = call[t]
  BY DEF Others
<1>2. Adding(t)' = Adding(t)
  BY <1>1 DEF Adding
<1>3. Removing(t)' = Removing(t)
  <2>1. CASE call[t].op = "remove" /\ local[t].slot \notin Chained
    <3>1. local[t].slot \in Hands(t)
      BY <2>1 DEF Hands, Removing
    <3>2. local[t].slot \notin Hands(u)
      BY <3>1 DEF IInv, AccountInv
    <3>3. local[t].slot \notin Chained'
      BY <2>1, <3>2
    <3> QED
      BY <1>1, <2>1, <3>3 DEF Removing
  <2>2. CASE call[t].op # "remove"
    BY <1>1, <2>2 DEF Removing
  <2>3. CASE local[t].slot \in Chained
    <3>1. local[t].slot \in Chained'
      BY <2>3
    <3> QED
      BY <1>1, <2>3, <3>1 DEF Removing, At
  <2> QED
    BY <2>1, <2>2, <2>3
<1> QED
  BY <1>2, <1>3 DEF Hands

(* The node is linked at the front: the map holds it for its key.          *)
LEMMA LinkedKept ==
  ASSUME IInv, NEW u \in Threads, AddLink(u), link[Hash[call[u].key]] = local[u].head, Witness
  PROVE  IInv' /\ map' = [map EXCEPT ![call[u].key] = local[u].slot]
<1> SUFFICES ASSUME NEW v, v = local[u], NEW d, d = call[u], NEW s, s = v.slot, NEW k, k = d.key,
                    NEW b, b = Hash[k], NEW m, m = [map EXCEPT ![k] = s]
             PROVE  IInv' /\ map' = m
  OBVIOUS
<1> DEFINE F == {"pc"}
           w == [tag |-> TagUp(link[b]), marked |-> FALSE, next |-> s]
<1>0. /\ v.pc = "link" /\ s \in Slots /\ s \in Nodes /\ s \notin Buckets /\ s \notin Chained /\ s \notin AllFree
      /\ WordTypes /\ LocalTypes(u) /\ AddInv(u) /\ ListInv /\ MapIs(map) /\ map \in [Keys -> Pointers]
      /\ k \in Keys /\ b \in Buckets /\ DOMAIN local = Threads /\ ~v.marked /\ map[k] = None
      /\ d.op = "add" /\ Busy(u) /\ Adding(u) = {s} /\ \A t \in Threads \ {u} : s \notin Hands(t)
      /\ v.pc \notin GrowPcs
  BY OwnFacts DEF AddLink, At
<1>1. /\ link' = [link EXCEPT ![b] = w] /\ Set(u, [pc |-> "added"])
      /\ UNCHANGED <<client, key, stacks, pool, call, result, calls, tick>>
  BY DEF AddLink
<1>2. Keeps(u, F) /\ local'[u].pc = "added"
  BY <1>0, <1>1 DEF Set, Keeps, LocalTypes, Fields
<1>3. /\ key[s] = k /\ link[s].next = link[b].next /\ ~link[s].marked /\ link[b].tag \in Nat
      /\ b \in Nodes /\ ~link[b].marked
  <2>1. b \in Nodes /\ ~link[b].marked /\ link[b].tag \in Nat
    BY <1>0 DEF Nodes, ListInv, WordTypes, Words
  <2>2. key[s] = k /\ link[s] = [tag |-> v.tag, marked |-> FALSE, next |-> v.head.next]
    BY <1>0 DEF AddInv
  <2>3. link[s].next = v.head.next /\ ~link[s].marked
    BY <2>2
  <2>4. link[b] = v.head
    OBVIOUS
  <2> QED
    BY <2>1, <2>2, <2>3, <2>4
<1>4. /\ w \in Words /\ w.tag = link[b].tag + 1 /\ ~w.marked /\ w.next = s
  BY <1>0, <1>3 DEF Words, TagUp
<1> HIDE DEF w
<1>5. link'[b] = w /\ (\A n \in Nodes \ {b} : link'[n] = link[n]) /\ key' = key
  BY <1>1, <1>3, <1>0 DEF WordTypes
<1>6. WordTypes'
  <2>1. link' \in [Nodes -> Words]
    BY <1>0, <1>1, <1>4 DEF WordTypes
  <2> QED
    BY <1>0, <1>1, <2>1 DEF WordTypes, stacks
<1>7. /\ Separate(FirstNode, NextNode, Chained)'
      /\ Chained' = Chained \cup {s} /\ Reach(b)' = Reach(b) \cup {s}
      /\ \A a \in Buckets \ {b} : Reach(a)' = Reach(a)
      /\ \A n \in Nodes \ {b} : After(n)' = After(n)
  BY <1>0, <1>1, <1>3, <1>4, <1>6, PushStep DEF ListInv
<1>8. /\ local'[u].slot = s /\ local'[u].marked = v.marked /\ call' = call
  BY <1>1, <1>2 DEF Keeps, Fields
<1>9. LocalTypes(u)'
  <2>1. DOMAIN local'[u] = Fields /\ \A f \in Fields \ F : local'[u][f] = v[f]
    BY <1>2 DEF Keeps
  <2> QED
    BY <1>0, <1>2, <2>1 DEF LocalTypes, Fields, AddPcs
<1>10. CallStep(u)
  <2>1. Place(u)'
    BY <1>0, <1>2, <1>8 DEF Place, AddPcs
  <2> QED
    BY <1>0, <1>1, <1>2, <1>8, <1>9, <2>1 DEF CallStep, Keeps
<1>11. \A z \in Chained : z \in Slots /\ z \in Nodes /\ z # b /\ z # s /\ link'[z] = link[z]
  BY <1>0, <1>5, ReachFacts, CacheAssumption DEF Nodes
<1>12. LinkRely(u)
  <2>1. \A n \in Nodes :
          /\ link[n].tag <= link'[n].tag
          /\ link'[n] = link[n] \/ link[n].tag < link'[n].tag
          /\ link'[n] = link[n] \/ n \in Buckets
    <3>1. \A n \in Nodes : link[n].tag \in Nat
      BY <1>0 DEF WordTypes, Words
    <3> QED
      BY <1>0, <1>4, <1>5, <3>1
  <2>2. \A a \in Buckets : \A z \in Reach(a) : z \in Reach(a)'
    BY <1>7
  <2>3. \A n \in Nodes : link'[n] = link[n] => After(n)' = After(n)
    <3>1. link'[b] # link[b]
      BY <1>3, <1>4, <1>5
    <3> QED
      BY <1>7, <3>1
  <2>4. \A z \in Chained' : z \in Chained \/ z \in Adding(u)
    BY <1>0, <1>7
  <2> QED
    BY <1>5, <1>11, <2>1, <2>2, <2>3, <2>4 DEF LinkRely
<1>13. m[k] = s /\ (\A j \in Keys : j # k => m[j] = map[j]) /\ m \in [Keys -> Pointers]
  BY <1>0 DEF Pointers
<1>14. ListInv'
  <2>1. \A a \in Buckets : ~link'[a].marked
    BY <1>0, <1>4, <1>5 DEF ListInv, Nodes
  <2>2. ASSUME NEW a \in Buckets, NEW z \in Reach(a)' PROVE key'[z] \in Keys /\ Hash[key'[z]] = a
    <3>1. CASE z \in Reach(a)
      BY <1>0, <1>5, <3>1 DEF ListInv
    <3>2. CASE a = b /\ z = s
      BY <1>0, <1>3, <1>5, <3>2
    <3> QED
      BY <1>7, <2>2, <3>1, <3>2
  <2>3. ASSUME NEW z \in Chained', link'[z].marked PROVE \E t \in Threads : Remover(t, z)'
    <3>1. z \in Chained /\ link[z].marked
      BY <1>0, <1>3, <1>5, <1>7, <1>11, <2>3
    <3>2. PICK t \in Threads : Remover(t, z)
      BY <1>0, <3>1 DEF ListInv
    <3>3. t # u
      BY <1>0, <3>2 DEF Remover
    <3>4. Remover(t, z)'
      BY <1>2, <1>8, <3>2, <3>3 DEF Remover, Keeps
    <3> QED
      BY <3>4
  <2> QED
    BY <1>7, <2>1, <2>2, <2>3 DEF ListInv
<1>15. MapIs(m)'
  <2>1. ASSUME NEW z \in Chained', ~link'[z].marked PROVE m[key'[z]] = z
    <3>1. CASE z = s
      BY <1>3, <1>5, <1>13, <3>1
    <3>2. CASE z \in Chained
      <4>1. ~link[z].marked /\ map[key[z]] = z /\ z # None
        <5>1. z # None
          BY <1>11, <3>2 DEF Slots, None
        <5> QED
          BY <1>0, <1>11, <2>1, <3>2, <5>1 DEF MapIs
      <4>2. key[z] \in Keys
        BY <1>0, <3>2, ReachFacts DEF ListInv
      <4> QED
        BY <1>0, <1>5, <1>13, <4>1, <4>2
    <3> QED
      BY <1>7, <3>1, <3>2
  <2>2. ASSUME NEW j \in Keys, m[j] # None PROVE Holds(j, m[j])'
    <3>1. CASE j = k
      <4>1. s \in Reach(b)' /\ ~link'[s].marked /\ key'[s] = k
        BY <1>0, <1>3, <1>5, <1>7
      <4> QED
        BY <1>13, <3>1, <4>1 DEF Holds
    <3>2. CASE j # k
      <4>1. m[j] = map[j] /\ Hash[j] \in Buckets
        BY <1>13, <3>2, CacheAssumption
      <4>2. map[j] \in Reach(Hash[j]) /\ ~link[map[j]].marked /\ key[map[j]] = j
        BY <1>0, <2>2, <4>1 DEF MapIs, Holds
      <4>3. map[j] \in Chained
        BY <1>0, <4>1, <4>2, ReachFacts
      <4>4. Reach(Hash[j]) \subseteq Reach(Hash[j])'
        BY <1>7, <4>1
      <4> QED
        BY <1>5, <1>11, <4>1, <4>2, <4>3, <4>4 DEF Holds
    <3> QED
      BY <3>1, <3>2
  <2> QED
    BY <2>1, <2>2 DEF MapIs
<1>16. map' = m /\ MapIs(map)' /\ MapRely(u)
  <2>1. HashInv' /\ MapTypes
    BY <1>14 DEF ListInv, HashInv, IInv, Types
  <2>2. map' = m /\ MapIs(map)'
    BY <1>0, <1>6, <1>13, <1>15, <2>1, MapFollows
  <2>3. MapRely(u)
    BY <1>0, <1>13, <2>2 DEF MapRely, Writer
  <2> QED
    BY <2>2, <2>3
<1>17. ASSUME AllFree' = AllFree PROVE AccountInv' /\ TickRely(u)
  <2>1. Hands(u)' = {} /\ s \in Hands(u)
    BY <1>0, <1>2, <1>8 DEF Hands, Adding, Removing
  <2>2. \A t \in Threads \ {u} : Hands(t)' = Hands(t)
    <3>1. Others(u)
      BY <1>2, <1>8 DEF Others, Keeps
    <3> QED
      BY <1>7, <2>1, <3>1, OthersHands
  <2>3. a_count_max' = a_count_max /\ a_length' = a_length /\ AccountInv /\ Hands(u) = {s}
    BY <1>0, <1>1 DEF pool, IInv, Hands, Removing
  <2>4. AllFree' \cap Chained' = {}
    BY <1>0, <1>7, <1>17, <2>3 DEF AccountInv
  <2>5. ASSUME NEW t \in Threads
        PROVE  /\ Hands(t)' \cap (AllFree' \cup Chained') = {}
               /\ \A y \in Threads : t # y => Hands(t)' \cap Hands(y)' = {}
    <3>1. CASE t = u
      BY <2>1, <3>1
    <3>2. CASE t # u
      <4>1. Hands(t)' = Hands(t) /\ s \notin Hands(t)
        BY <1>0, <2>2, <3>2
      <4>2. Hands(t) \cap (AllFree \cup Chained) = {} /\ \A y \in Threads : t # y => Hands(t) \cap Hands(y) = {}
        BY <2>3 DEF AccountInv
      <4>3. \A y \in Threads : Hands(y)' \subseteq Hands(y)
        BY <2>1, <2>2
      <4>4. Hands(t)' \cap (AllFree' \cup Chained') = {}
        BY <1>7, <1>17, <4>1, <4>2
      <4> QED
        BY <4>1, <4>2, <4>3, <4>4
    <3> QED
      BY <3>1, <3>2
  <2>6. ASSUME NEW z \in Slots
        PROVE  z < a_count_max' <=> z \in AllFree' \/ z \in Chained' \/ \E t \in Threads : z \in Hands(t)'
    <3>1. z < a_count_max <=> z \in AllFree \/ z \in Chained \/ \E t \in Threads : z \in Hands(t)
      BY <2>3 DEF AccountInv
    <3>2. \A t \in Threads : z \in Hands(t) => z \in Chained' \/ z \in Hands(t)'
      BY <1>7, <2>2, <2>3
    <3>3. \A t \in Threads : z \in Hands(t)' => z \in Hands(t)
      BY <2>1, <2>2
    <3>4. z \in Chained' => z \in Chained \/ z \in Hands(u)
      BY <1>7, <2>1
    <3> QED
      BY <1>7, <1>17, <2>3, <3>1, <3>2, <3>3, <3>4
  <2>7. ASSUME NEW z \in Slots, z < a_count_max'
        PROVE  z < a_length' \/ \E t \in Threads : (local[t].pc \in GrowPcs /\ local[t].slot = z)'
    <3>1. z < a_length \/ \E t \in Threads : local[t].pc \in GrowPcs /\ local[t].slot = z
      BY <2>3, <2>7 DEF AccountInv
    <3>2. \A t \in Threads : local[t].pc \in GrowPcs => local'[t] = local[t]
      BY <1>0, <1>2 DEF Keeps
    <3> QED
      BY <2>3, <3>1, <3>2
  <2>8. AccountInv'
    BY <2>4, <2>5, <2>6, <2>7 DEF AccountInv
  <2>9. TickRely(u)
    BY <1>2, <1>7, <1>8, <1>17 DEF TickRely, At
  <2> QED
    BY <2>8, <2>9
<1>18. ThreadInv(u)'
  <2>1. PopInv(u)' /\ call'[u].op = "add" /\ local'[u].pc \in AddPcs
    BY <1>0, <1>2, <1>8 DEF PopInv, AddPcs
  <2>2. AddInv(u)'
    BY <1>0, <1>2, <1>3, <1>5, <1>8, <1>13, <1>16 DEF AddInv, GrowPcs
  <2> QED
    BY <2>1, <2>2, AddThread
<1>19. UNCHANGED stacks /\ UNCHANGED pool /\ local'[u].pc # "release" /\ map' \in [Keys -> Pointers]
  BY <1>1, <1>2, <1>13, <1>16
<1>20. IInv'
  BY <1>6, <1>10, <1>12, <1>14, <1>16, <1>17, <1>18, <1>19, LinkStepKept
<1> QED
  BY <1>16, <1>20

(* AddLink keeps the invariant, whether its exchange succeeds or not.      *)
LEMMA AddLinkKept ==
  ASSUME IInv, NEW u \in Threads, AddLink(u), Witness
  PROVE  IInv'
BY LinkedKept, LinkFailedKept

-------------------------------------------------------------------------------
(* The rest of the invariant after a step that leaves the lists alone.     *)
LEMMA FreeStepKept ==
  ASSUME IInv, NEW u \in Threads, CallStep(u), UNCHANGED mapped, WordTypes', Witness,
         a_count_max' \in 0 .. MaxSlots, a_length' \in Nat, a_adding_memory' \in BOOLEAN,
         StackRely(u), StackInv', AllFree' \subseteq AllFree,
         local'[u].pc # "added", local'[u].marked = local[u].marked,
         Chained' = Chained => AccountInv', map' = map /\ Chained' = Chained => ThreadInv(u)'
  PROVE  IInv'
<1>1. SameLists /\ LinkRely(u)
  BY MappedSame
<1>2. map' = map /\ MapIs(map)' /\ MapRely(u) /\ map' \in [Keys -> Pointers]
  BY MapSame DEF IInv, Types, MapTypes
<1>3. ThreadTypes' /\ OtherTypes' /\ WriterInv' /\ Others(u)
  BY CallStepTypes
<1>4. ListInv'
  <2>1. \A t \in Threads, s \in Chained : Remover(t, s) => Remover(t, s)'
    <3> SUFFICES ASSUME NEW t \in Threads, NEW s \in Chained, Remover(t, s) PROVE Remover(t, s)'
      OBVIOUS
    <3>1. call' = call
      BY DEF CallStep
    <3>2. CASE t = u
      BY <3>1, <3>2 DEF Remover, CallStep
    <3>3. CASE t # u
      BY <1>3, <3>1, <3>3 DEF Remover, Others
    <3> QED
      BY <3>2, <3>3
  <2> QED
    BY <2>1, ListsSame
<1>5. Chained' = Chained
  BY <1>1 DEF SameLists
<1>6. TickRely(u)
  BY <1>5 DEF TickRely, At
<1>7. TickInv'
  BY <1>2, <1>6, CallStepTick
<1>8. Rely(u)
  BY <1>1, <1>2, <1>3 DEF Rely
<1> QED
  BY <1>2, <1>3, <1>4, <1>5, <1>7, <1>8, StepKept

(* A slot comes into the hands of thread u.                                *)
LEMMA AccountTaken ==
  ASSUME IInv, NEW u \in Threads, Others(u), NEW s \in Slots, Chained' = Chained, s \notin Chained,
         Hands(u) = {}, Hands(u)' = {s}, AllFree' = AllFree \ {s},
         \A t \in Threads : s \notin Hands(t),
         \A z \in Slots : z < a_count_max' <=> z < a_count_max \/ z = s,
         a_length' = a_length, local[u].pc \notin GrowPcs,
         s < a_length \/ (local'[u].pc \in GrowPcs /\ local'[u].slot = s)
  PROVE  AccountInv'
<1>0. AccountInv
  BY DEF IInv
<1>1. \A t \in Threads \ {u} : Hands(t)' = Hands(t)
  BY OthersHands
<1>2. AllFree' \cap Chained' = {}
  BY <1>0 DEF AccountInv
<1>3. ASSUME NEW t \in Threads
      PROVE  /\ Hands(t)' \cap (AllFree' \cup Chained') = {}
             /\ \A y \in Threads : t # y => Hands(t)' \cap Hands(y)' = {}
  <2>1. \A y \in Threads : Hands(y)' = IF y = u THEN {s} ELSE Hands(y)
    BY <1>1
  <2>2. Hands(t) \cap (AllFree \cup Chained) = {} /\ \A y \in Threads : t # y => Hands(t) \cap Hands(y) = {}
    BY <1>0 DEF AccountInv
  <2>3. CASE t = u
    BY <2>1, <2>3
  <2>4. CASE t # u
    BY <2>1, <2>2, <2>4
  <2> QED
    BY <2>3, <2>4
<1>4. ASSUME NEW z \in Slots
      PROVE  z < a_count_max' <=> z \in AllFree' \/ z \in Chained' \/ \E t \in Threads : z \in Hands(t)'
  <2>1. z < a_count_max <=> z \in AllFree \/ z \in Chained \/ \E t \in Threads : z \in Hands(t)
    BY <1>0 DEF AccountInv
  <2>2. (\E t \in Threads : z \in Hands(t)') <=> z = s \/ \E t \in Threads : z \in Hands(t)
    BY <1>1
  <2>3. z \in AllFree' <=> z \in AllFree /\ z # s
    OBVIOUS
  <2> QED
    BY <2>1, <2>2, <2>3
<1>5. ASSUME NEW z \in Slots, z < a_count_max'
      PROVE  z < a_length' \/ \E t \in Threads : (local[t].pc \in GrowPcs /\ local[t].slot = z)'
  <2>1. CASE z = s
    BY <2>1
  <2>2. CASE z # s
    <3>1. z < a_length \/ \E t \in Threads : local[t].pc \in GrowPcs /\ local[t].slot = z
      BY <1>0, <1>5, <2>2 DEF AccountInv
    <3>2. \A t \in Threads : local[t].pc \in GrowPcs => local'[t] = local[t]
      BY DEF Others
    <3> QED
      BY <3>1, <3>2
  <2> QED
    BY <2>1, <2>2
<1> QED
  BY <1>2, <1>3, <1>4, <1>5 DEF AccountInv

(* The top of the stack has not been popped since it was read: what is     *)
(* under it is what was read from it, for its tag has not moved.           *)
LEMMA TakenKept ==
  ASSUME IInv, NEW u \in Threads, PopTake(u), a_head[local[u].from] = local[u].top, Witness
  PROVE  IInv'
<1> SUFFICES ASSUME NEW v, v = local[u], NEW d, d = call[u], NEW s, s = v.top.at,
                    NEW w, w = v.from
             PROVE  IInv'
  OBVIOUS
<1> DEFINE F == {"pc", "slot"}
<1>0. /\ v.pc = "take" /\ LocalTypes(u) /\ DOMAIN local = Threads /\ w \in Threads /\ s # None
      /\ d.op = "add" /\ AddInv(u) /\ PopInv(u) /\ Busy(u) /\ WordTypes /\ StackInv /\ AccountInv
  BY PlaceFacts DEF PopTake, At, IInv, Types, ThreadTypes, ThreadInv, PopInv, AddPcs
<1>1. /\ a_head' = [a_head EXCEPT ![w] = v.under] /\ Set(u, [pc |-> "set_key", slot |-> s])
      /\ UNCHANGED <<client, mapped, tag, tail, pool, call, result, calls, tick>>
  BY DEF PopTake, SameTop
<1>2. Keeps(u, F) /\ local'[u].pc = "set_key" /\ local'[u].slot = s
  BY <1>0, <1>1 DEF Set, Keeps, LocalTypes, Fields
<1>3. s \in Slots /\ s \in AllFree /\ v.top.tag = tag[s] /\ tail[s] = v.under
  <2>1. s \in Slots /\ s \in AllFree /\ a_head[w].tag = tag[s]
    BY <1>0, TopFacts
  <2> QED
    BY <1>0, <2>1 DEF PopInv
<1>4. WordTypes'
  <2>1. v.under \in Tops
    BY <1>0 DEF LocalTypes
  <2>2. a_head' \in [Threads -> Tops]
    BY <1>0, <1>1, <2>1 DEF WordTypes
  <2> QED
    BY <1>0, <1>1, <2>2 DEF WordTypes, mapped
<1>5. Separate(FirstFree, NextFree, AllFree)' /\ AllFree' = AllFree \ {s}
  <2>1. Separate(FirstFree, NextFree, AllFree) /\ tail' = tail /\ a_head[w].at = s /\ v.under.at = tail[s].at
    BY <1>0, <1>1, <1>3 DEF StackInv
  <2> QED
    BY <1>0, <1>1, <1>3, <1>4, <2>1, PopFree
<1>6. LocalTypes(u)'
  <2>1. DOMAIN local'[u] = Fields /\ \A f \in Fields \ F : local'[u][f] = v[f]
    BY <1>2 DEF Keeps
  <2>2. s \in Pointers
    BY <1>3 DEF Pointers
  <2> QED
    BY <1>0, <1>2, <2>1, <2>2 DEF LocalTypes, Fields, AddPcs
<1>7. local'[u].marked = v.marked /\ call' = call
  BY <1>1, <1>2 DEF Keeps, Fields
<1>8. CallStep(u)
  <2>1. Place(u)'
    BY <1>0, <1>2, <1>7 DEF Place, AddPcs
  <2> QED
    BY <1>0, <1>1, <1>2, <1>6, <1>7, <2>1 DEF CallStep, Keeps
<1>9. StackInv'
  <2>1. tag' = tag /\ tail' = tail
    BY <1>1
  <2>2. \A y \in Threads : a_head'[y] = IF y = w THEN tail[s] ELSE a_head[y]
    BY <1>0, <1>1, <1>3 DEF WordTypes
  <2>3. \A y \in Threads : a_head'[y].at # None => a_head'[y].tag = tag[a_head'[y].at]
    BY <1>0, <1>3, <2>2 DEF StackInv
  <2>4. \A z \in AllFree' : tail[z].at # None => tail[z].tag = tag[tail[z].at]
    BY <1>0, <1>5 DEF StackInv
  <2> QED
    BY <1>5, <2>1, <2>3, <2>4 DEF StackInv
<1>10. StackRely(u)
  <2>1. tag' = tag /\ tail' = tail /\ \A z \in Slots : tag[z] \in Nat
    BY <1>0, <1>1 DEF WordTypes
  <2> QED
    BY <1>2, <1>5, <2>1 DEF StackRely, At
<1>11. ASSUME Chained' = Chained PROVE AccountInv'
  <2>1. Hands(u) = {} /\ Hands(u)' = {s}
    BY <1>0, <1>2, <1>7 DEF Hands, Adding, Removing
  <2>2. s \notin Chained /\ \A t \in Threads : s \notin Hands(t)
    BY <1>0, <1>3 DEF AccountInv
  <2>3. s < a_count_max /\ a_count_max' = a_count_max /\ a_length' = a_length
    BY <1>0, <1>1, <1>3 DEF AccountInv, pool
  <2>4. s < a_length
    <3>1. \A t \in Threads : local[t].pc \in GrowPcs /\ local[t].slot = s => s \in Hands(t)
      BY DEF Hands, Adding, GrowPcs
    <3> QED
      BY <1>0, <1>3, <2>2, <2>3, <3>1 DEF AccountInv
  <2>5. Others(u)
    BY <1>2, <1>7 DEF Others, Keeps
  <2>6. v.pc \notin GrowPcs
    BY <1>0 DEF GrowPcs
  <2> QED
    BY <1>3, <1>5, <1>11, <2>1, <2>2, <2>3, <2>4, <2>5, <2>6, AccountTaken
<1>12. ASSUME map' = map PROVE ThreadInv(u)'
  <2>1. PopInv(u)' /\ call'[u].op = "add" /\ local'[u].pc \in AddPcs
    BY <1>0, <1>2, <1>7 DEF PopInv, AddPcs
  <2>2. AddInv(u)'
    BY <1>0, <1>2, <1>3, <1>7, <1>12 DEF AddInv, GrowPcs
  <2> QED
    BY <2>1, <2>2, AddThread
<1>13. /\ a_count_max' \in 0 .. MaxSlots /\ a_length' \in Nat /\ a_adding_memory' \in BOOLEAN
       /\ UNCHANGED mapped /\ AllFree' \subseteq AllFree /\ local'[u].pc # "added"
  BY <1>1, <1>2, <1>5 DEF pool, IInv, Types, OtherTypes
<1> QED
  BY <1>4, <1>7, <1>8, <1>9, <1>10, <1>11, <1>12, <1>13, FreeStepKept

(* PopTake keeps the invariant: if the exchange succeeds, the tag rules    *)
(* out that the slot was popped and pushed since it was read.              *)
LEMMA PopTakeKept ==
  ASSUME IInv, NEW u \in Threads, PopTake(u), Witness
  PROVE  IInv'
<1>1. CASE a_head[local[u].from] = local[u].top
  BY <1>1, TakenKept
<1>2. CASE a_head[local[u].from] # local[u].top
  <2>1. local[u].pc = "take" /\ Popped(u, a_head[local[u].from]) /\ OnlyLocal
    BY <1>2 DEF PopTake, SameTop, At, OnlyLocal, stacks
  <2> QED
    BY <2>1, PoppedKept
<1> QED
  BY <1>1, <1>2

(* A slot that was never used.                                             *)
LEMMA IncrementKept ==
  ASSUME IInv, NEW u \in Threads, Increment(u), Witness
  PROVE  IInv'
<1> SUFFICES ASSUME NEW v, v = local[u], NEW d, d = call[u], NEW s, s = a_count_max PROVE IInv'
  OBVIOUS
<1> DEFINE F == {"pc", "slot"}
<1>0. /\ v.pc = "increment" /\ LocalTypes(u) /\ DOMAIN local = Threads /\ s \in 0 .. MaxSlots /\ s < MaxSlots
      /\ d.op = "add" /\ AddInv(u) /\ Busy(u) /\ WordTypes /\ StackInv /\ AccountInv /\ MaxSlots \in Nat
      /\ a_length \in Nat /\ a_adding_memory \in BOOLEAN
  BY PlaceFacts, CacheAssumption
     DEF Increment, At, IInv, Types, ThreadTypes, OtherTypes, ThreadInv, AddPcs
<1>1. /\ a_count_max' = s + 1 /\ Set(u, [pc |-> "length", slot |-> s])
      /\ UNCHANGED <<client, mapped, stacks, a_length, a_adding_memory, call, result, calls, tick>>
  BY DEF Increment
<1>2. Keeps(u, F) /\ local'[u].pc = "length" /\ local'[u].slot = s
  BY <1>0, <1>1 DEF Set, Keeps, LocalTypes, Fields
<1>3. s \in Slots
  BY <1>0 DEF Slots
<1>4. WordTypes'
  BY <1>0, <1>1 DEF WordTypes, mapped, stacks
<1>5. SameStacks /\ StackRely(u)
  BY <1>1, <1>2, <1>4, StacksSame DEF At
<1>6. StackInv' /\ AllFree' = AllFree
  BY <1>1, <1>5, PrivateStacks DEF SameStacks
<1>7. LocalTypes(u)'
  <2>1. DOMAIN local'[u] = Fields /\ \A f \in Fields \ F : local'[u][f] = v[f]
    BY <1>2 DEF Keeps
  <2>2. s \in Pointers
    BY <1>3 DEF Pointers
  <2> QED
    BY <1>0, <1>2, <2>1, <2>2 DEF LocalTypes, Fields, AddPcs, GrowPcs
<1>8. local'[u].marked = v.marked /\ call' = call
  BY <1>1, <1>2 DEF Keeps, Fields
<1>9. CallStep(u)
  <2>1. Place(u)'
    BY <1>0, <1>2, <1>8 DEF Place, AddPcs, GrowPcs
  <2> QED
    BY <1>0, <1>1, <1>2, <1>7, <1>8, <2>1 DEF CallStep, Keeps
<1>10. ASSUME Chained' = Chained PROVE AccountInv'
  <2>1. Hands(u) = {} /\ Hands(u)' = {s}
    BY <1>0, <1>2, <1>8 DEF Hands, Adding, Removing
  <2>2. s \notin Chained /\ s \notin AllFree /\ \A t \in Threads : s \notin Hands(t)
    BY <1>0, <1>3 DEF AccountInv
  <2>3. \A z \in Slots : z < a_count_max' <=> z < a_count_max \/ z = s
    BY <1>0, <1>1 DEF Slots
  <2>4. Others(u) /\ local'[u].pc \in GrowPcs /\ v.pc \notin GrowPcs
    BY <1>0, <1>2, <1>8 DEF Others, Keeps, GrowPcs
  <2> QED
    BY <1>1, <1>2, <1>3, <1>6, <1>10, <2>1, <2>2, <2>3, <2>4, AccountTaken
<1>11. ASSUME map' = map PROVE ThreadInv(u)'
  <2>1. PopInv(u)' /\ call'[u].op = "add" /\ local'[u].pc \in AddPcs
    BY <1>0, <1>2, <1>8 DEF PopInv, AddPcs, GrowPcs
  <2>2. AddInv(u)'
    BY <1>0, <1>2, <1>3, <1>8, <1>11 DEF AddInv, GrowPcs
  <2> QED
    BY <2>1, <2>2, AddThread
<1>12. /\ a_count_max' \in 0 .. MaxSlots /\ a_length' \in Nat /\ a_adding_memory' \in BOOLEAN
       /\ UNCHANGED mapped /\ AllFree' \subseteq AllFree /\ local'[u].pc # "added"
  BY <1>0, <1>1, <1>2, <1>6
<1> QED
  BY <1>4, <1>5, <1>6, <1>8, <1>9, <1>10, <1>11, <1>12, FreeStepKept

-------------------------------------------------------------------------------
(* What is under a free slot is free.                                      *)
LEMMA UnderFree ==
  ASSUME WordTypes, NEW s \in AllFree, tail[s].at # None
  PROVE  tail[s].at \in AllFree
<1>1. PICK u \in Threads : s \in Free(u)
  BY DEF AllFree
<1>2. FirstFree[u] \in Pointers /\ NextFree \in [Slots -> Pointers]
  BY PointersAre
<1>3. Free(u) = From(NextFree, FirstFree[u])
  BY ListsAre
<1>4. Leads(NextFree, FirstFree[u], Free(u))
  BY <1>2, <1>3, FromLeast
<1>5. NextFree[s] = tail[s].at
  BY ReachFacts DEF NextFree
<1>6. tail[s].at \in Free(u)
  BY <1>1, <1>4, <1>5 DEF Leads
<1> QED
  BY <1>6 DEF AllFree

(* The pointer under the slot that a removal frees, which no stack holds.  *)
LEMMA LoadTopKept ==
  ASSUME IInv, NEW u \in Threads, local[u].pc \in {"push", "release"}, Keeps(u, {"pc"}),
         local'[u].pc = "release",
         NEW n \in Nat, tag' = [tag EXCEPT ![local[u].slot] = n], tag[local[u].slot] <= n,
         local[u].pc = "push" => tag[local[u].slot] < n,
         tail' = [tail EXCEPT ![local[u].slot] = a_head[u]],
         UNCHANGED <<client, mapped, a_head, pool, call, result, calls, tick>>, Witness
  PROVE  IInv'
<1> SUFFICES ASSUME NEW v, v = local[u], NEW d, d = call[u], NEW s, s = v.slot PROVE IInv'
  OBVIOUS
<1> DEFINE F == {"pc"}
<1>0. /\ LocalTypes(u) /\ DOMAIN local = Threads /\ d.op = "remove" /\ RemoveInv(u) /\ Busy(u)
      /\ WordTypes /\ StackInv /\ AccountInv /\ AllFree \subseteq Slots
  BY PlaceFacts, ReachFacts
     DEF IInv, Types, ThreadTypes, ThreadInv, RemovePcs
<1>1. s \in Slots /\ key[s] = d.key /\ v.marked /\ map[d.key] = None /\ link[s].marked /\ s \notin Chained
  BY <1>0 DEF RemoveInv
<1>2. s \in Hands(u) /\ s \notin AllFree
  <2>1. s \in Hands(u)
    BY <1>0 DEF Hands, Removing, At
  <2> QED
    BY <1>0, <2>1 DEF AccountInv
<1>3. /\ tag'[s] = n /\ tag[s] <= n /\ \A z \in Slots : z # s => tag'[z] = tag[z] /\ tail'[z] = tail[z]
      /\ \A z \in Slots : tag[z] \in Nat
  BY <1>0, <1>1 DEF WordTypes
<1>4. WordTypes'
  <2>1. tag' \in [Slots -> Nat]
    BY <1>0 DEF WordTypes
  <2>2. tail' \in [Slots -> Tops]
    BY <1>0 DEF WordTypes
  <2> QED
    BY <1>0, <2>1, <2>2 DEF WordTypes, mapped
<1>5. SameStacks
  <2>1. \A y \in Threads : a_head'[y].at = a_head[y].at
    OBVIOUS
  <2>2. \A z \in AllFree : tail'[z].at = tail[z].at
    BY <1>0, <1>2, <1>3
  <2> QED
    BY <1>0, <1>4, <2>1, <2>2, SameFree DEF StackInv
<1>6. StackInv'
  <2>1. ASSUME NEW y \in Threads, a_head[y].at # None PROVE a_head[y].tag = tag'[a_head[y].at]
    BY <1>2, <1>3, <2>1, TopFacts
  <2>2. ASSUME NEW z \in AllFree, tail[z].at # None PROVE tail'[z].tag = tag'[tail[z].at] /\ tail'[z] = tail[z]
    <3>1. tail[z].at \in AllFree /\ tail[z].at # s /\ tail[z].at \in Slots /\ z # s /\ z \in Slots
      BY <1>0, <1>2, <2>2, UnderFree
    <3> QED
      BY <1>0, <1>3, <2>2, <3>1 DEF StackInv
  <2>3. \A z \in AllFree : tail'[z] = tail[z]
    BY <1>0, <1>2, <1>3
  <2> QED
    BY <1>5, <2>1, <2>2, <2>3 DEF StackInv, SameStacks
<1>7. local'[u].slot = s /\ local'[u].marked = v.marked /\ local'[u].again = v.again /\ call' = call
  BY DEF Keeps, Fields
<1>8. StackRely(u)
  <2>1. \A z \in Slots : tag[z] <= tag'[z]
    BY <1>3
  <2>2. \A z \in Slots : (At(u, "release") /\ local[u].slot = z)' =>
          tag[z] < tag'[z] \/ (At(u, "release") /\ local[u].slot = z)
    BY <1>3, <1>7 DEF At
  <2>3. \A z \in AllFree : tail'[z] = tail[z]
    BY <1>0, <1>2, <1>3
  <2> QED
    BY <1>5, <2>1, <2>2, <2>3 DEF StackRely, SameStacks
<1>9. LocalTypes(u)'
  <2>1. DOMAIN local'[u] = Fields /\ \A f \in Fields \ F : local'[u][f] = v[f]
    BY DEF Keeps
  <2> QED
    BY <1>0, <2>1 DEF LocalTypes, Fields, RemovePcs
<1>10. CallStep(u)
  <2>1. Place(u)'
    BY <1>0, <1>7 DEF Place, RemovePcs
  <2> QED
    BY <1>0, <1>7, <1>9, <2>1 DEF CallStep, Keeps
<1>11. ASSUME Chained' = Chained PROVE AccountInv'
  <2>1. Adding(u)' = Adding(u)
    BY DEF Adding
  <2>2. \A t \in Threads : Hands(t)' = Hands(t)
    BY <1>10, <1>11, <2>1, HandsSame
  <2>3. v.pc \notin GrowPcs /\ a_count_max' = a_count_max /\ a_length' = a_length /\ AllFree' = AllFree
    BY <1>5 DEF GrowPcs, pool, SameStacks
  <2> QED
    BY <1>11, <2>2, <2>3, AccountSame DEF Keeps
<1>12. ASSUME map' = map, Chained' = Chained PROVE ThreadInv(u)'
  <2>1. link' = link /\ key' = key
    BY DEF mapped
  <2>2. SearchInv(u)' /\ CompleteInv(u)' /\ LookupInv(u)'
    BY <1>0, <1>7 DEF SearchInv, CompleteInv, LookupInv, SearchPcs, ReadPcs
  <2>3. RemoveInv(u)'
    BY <1>0, <1>1, <1>7, <1>12, <2>1 DEF RemoveInv
  <2> QED
    BY <1>0, <1>7, <2>2, <2>3, SearchThread
<1>13. /\ a_count_max' \in 0 .. MaxSlots /\ a_length' \in Nat /\ a_adding_memory' \in BOOLEAN
       /\ UNCHANGED mapped /\ AllFree' \subseteq AllFree /\ local'[u].pc # "added"
  BY <1>5 DEF pool, IInv, Types, OtherTypes, SameStacks
<1> QED
  BY <1>4, <1>6, <1>7, <1>8, <1>10, <1>11, <1>12, <1>13, FreeStepKept

(* PushLoad keeps the invariant.                                           *)
LEMMA PushLoadKept ==
  ASSUME IInv, NEW u \in Threads, PushLoad(u), Witness
  PROVE  IInv'
<1> DEFINE s == local[u].slot
           n == tag[s] + 1
<1>0. local[u].pc = "push" /\ LocalTypes(u) /\ DOMAIN local = Threads /\ WordTypes /\ RemoveInv(u)
  BY DEF PushLoad, At, IInv, Types, ThreadTypes, ThreadInv
<1>1. s \in Slots
  <2>1. call[u].op = "remove"
    BY <1>0, PlaceFacts DEF IInv, Types
  <2> QED
    BY <1>0, <2>1 DEF RemoveInv
<1>2. /\ tag' = [tag EXCEPT ![s] = n] /\ tail' = [tail EXCEPT ![s] = a_head[u]]
      /\ Set(u, [pc |-> "release"])
      /\ UNCHANGED <<client, mapped, a_head, pool, call, result, calls, tick>>
  BY DEF PushLoad, PushTag
<1>3. Keeps(u, {"pc"}) /\ local'[u].pc = "release"
  BY <1>0, <1>2 DEF Set, Keeps, LocalTypes, Fields
<1>4. n \in Nat /\ tag[s] <= n /\ tag[s] < n
  BY <1>0, <1>1 DEF WordTypes
<1> HIDE DEF n
<1> QED
  BY <1>0, <1>2, <1>3, <1>4, LoadTopKept

(* Another thread has pushed or popped since the top was read.             *)
LEMMA PushAgainKept ==
  ASSUME IInv, NEW u \in Threads, PushTop(u), a_head[u] # tail[local[u].slot], Witness
  PROVE  IInv'
<1> DEFINE s == local[u].slot
           n == tag[s]
<1>0. local[u].pc = "release" /\ LocalTypes(u) /\ DOMAIN local = Threads /\ WordTypes /\ RemoveInv(u)
  BY DEF PushTop, At, IInv, Types, ThreadTypes, ThreadInv
<1>1. s \in Slots
  <2>1. call[u].op = "remove"
    BY <1>0, PlaceFacts DEF IInv, Types
  <2> QED
    BY <1>0, <2>1 DEF RemoveInv
<1>2. /\ tag' = tag /\ tail' = [tail EXCEPT ![s] = a_head[u]] /\ local' = local
      /\ UNCHANGED <<client, mapped, a_head, pool, call, result, calls, tick>>
  BY DEF PushTop, tick
<1>3. Keeps(u, {"pc"}) /\ local'[u].pc = "release"
  BY <1>0, <1>2 DEF Keeps, LocalTypes
<1>4. n \in Nat /\ tag[s] <= n /\ tag' = [tag EXCEPT ![s] = n]
  BY <1>0, <1>1, <1>2 DEF WordTypes
<1> HIDE DEF n
<1> QED
  BY <1>0, <1>2, <1>3, <1>4, LoadTopKept

(***************************************************************************)
(* Calls and returns.                                                      *)
(***************************************************************************)
LEMMA EdgeKept ==
  ASSUME IInv, NEW u \in Threads, Others(u), UNCHANGED mapped, WordTypes', ThreadTypes', OtherTypes',
         WriterInv', Witness, StackRely(u), StackInv', \A s \in Chained : ~Remover(u, s),
         map' = map /\ Chained' = Chained => AccountInv' /\ TickInv' /\ ThreadInv(u)'
  PROVE  IInv'
<1>1. SameLists /\ LinkRely(u)
  BY MappedSame
<1>2. map' = map /\ MapIs(map)' /\ MapRely(u) /\ map' \in [Keys -> Pointers]
  BY MapSame DEF IInv, Types, MapTypes
<1>3. ListInv'
  <2>1. \A t \in Threads, s \in Chained : Remover(t, s) => Remover(t, s)'
    BY DEF Remover, Others
  <2> QED
    BY <2>1, ListsSame
<1>4. AccountInv' /\ TickInv' /\ ThreadInv(u)'
  BY <1>1, <1>2 DEF SameLists
<1>5. Rely(u)
  BY <1>1, <1>2 DEF Rely
<1> QED
  BY <1>2, <1>3, <1>4, <1>5, StepKept

(* A call returns.                                                         *)
LEMMA ReturnFacts ==
  ASSUME IInv, NEW u \in Threads, Busy(u), NEW r \in Pointers, Return(u, r),
         UNCHANGED <<client, mapped, pool, calls, agenda>>
  PROVE  /\ Others(u) /\ ThreadTypes' /\ OtherTypes' /\ WriterInv' /\ ThreadInv(u)' /\ Hands(u)' = {}
         /\ call'[u] = NoCall /\ local'[u].pc \in {"idle", "task"}
         /\ local'[u].pc = "task" <=> phase = "tasks" /\ r = None
         /\ local'[u].pc = "task" => local'[u].pair = call[u].key
         /\ output' = IF client = "ticks" /\ r # None THEN output \cup {r} ELSE output
<1> DEFINE x == IF phase = "tasks" /\ r = None
                THEN [Idle EXCEPT !.pc = "task", !.pair = call[u].key] ELSE Idle
<1>0. /\ DOMAIN local = Threads /\ DOMAIN call = Threads /\ DOMAIN result = Threads
      /\ call[u].key \in Keys /\ ThreadTypes /\ OtherTypes /\ WriterInv
  BY PlaceFacts DEF IInv, Types, ThreadTypes
<1>1. /\ call' = [call EXCEPT ![u] = NoCall] /\ result' = [result EXCEPT ![u] = r]
      /\ local' = [local EXCEPT ![u] = x]
      /\ output' = IF client = "ticks" /\ r # None THEN output \cup {r} ELSE output
  BY DEF Return
<1>2. call'[u] = NoCall /\ result'[u] = r /\ local'[u] = x
  BY <1>0, <1>1
<1>3. /\ DOMAIN local' = Threads /\ DOMAIN call' = Threads /\ DOMAIN result' = Threads
      /\ \A t \in Threads \ {u} : local'[t] = local[t] /\ call'[t] = call[t] /\ result'[t] = result[t]
  BY <1>0, <1>1
<1>4. Others(u)
  BY <1>3 DEF Others
<1>5. /\ x.pc \in {"idle", "task"} /\ (x.pc = "task" <=> phase = "tasks" /\ r = None)
      /\ (x.pc = "task" => x.pair = call[u].key) /\ DOMAIN x = Fields
      /\ x.pair \in Keys \cup {None} /\ x.slot = None /\ x.prev = None /\ x.sprev = NullLink
      /\ x.scur = NullLink /\ x.from = None /\ x.top = NullTop /\ x.under = NullTop /\ x.tries = 0
      /\ x.tag = 0 /\ x.head = NullLink
  BY <1>0 DEF Idle, Fields
<1>6. ~x.hit /\ ~x.marked /\ ~x.again /\ x.hit \in BOOLEAN /\ x.marked \in BOOLEAN /\ x.again \in BOOLEAN
  BY DEF Idle
<1> HIDE DEF x
<1>7. LocalTypes(u)'
  <2>1. NullLink \in Words /\ NullTop \in Tops
    BY DEF NullLink, NullTop, Words, Tops
  <2> QED
    BY <1>2, <1>5, <1>6, <2>1 DEF LocalTypes, Pointers
<1>8. CallTypes(u)'
  BY <1>2, <1>5 DEF CallTypes, Calls, At, Busy, NoCall
<1>9. ThreadTypes'
  <2>1. ASSUME NEW t \in Threads \ {u} PROVE (LocalTypes(t) /\ CallTypes(t))'
    <3>1. LocalTypes(t) /\ CallTypes(t)
      BY <1>0 DEF ThreadTypes
    <3>2. local'[t] = local[t] /\ call'[t] = call[t] /\ result'[t] = result[t]
      BY <1>3
    <3> QED
      BY <3>1, <3>2 DEF LocalTypes, CallTypes, At, Busy
  <2> QED
    BY <1>3, <1>7, <1>8, <2>1 DEF ThreadTypes
<1>10. OtherTypes'
  <2>1. output' \subseteq Slots
    BY <1>0, <1>1 DEF OtherTypes, Pointers
  <2> QED
    BY <1>0, <2>1 DEF OtherTypes, agenda, pool
<1>11. WriterInv'
  BY <1>0, <1>2, <1>4 DEF WriterInv, Writer, Others, NoCall
<1>12. ThreadInv(u)'
  BY <1>2, <1>5 DEF ThreadInv, SearchInv, CompleteInv, Target, LookupInv, RemoveInv, AddInv, PopInv,
                    NoCall, SearchPcs, ReadPcs
<1>13. Hands(u)' = {}
  BY <1>2, <1>5 DEF Hands, Adding, Removing, NoCall
<1> QED
  BY <1>1, <1>2, <1>4, <1>5, <1>9, <1>10, <1>11, <1>12, <1>13

(* A return keeps the invariant of the tick: what it returns goes to the   *)
(* output, or was found missing.                                           *)
LEMMA ReturnTick ==
  ASSUME IInv, NEW u \in Threads, Busy(u), NEW r \in Pointers, Return(u, r),
         UNCHANGED <<client, mapped, pool, calls, agenda>>, map' = map, Chained' = Chained, Witness,
         call[u].op = "lookup" => /\ r = None => None \in seen[u]
                                  /\ r # None => r \in Chained
                                  /\ AllFree' = AllFree,
         call[u].op = "add" => At(u, "added") /\ r = local[u].slot /\ r # None /\ AllFree' = AllFree,
         call[u].op = "remove" => /\ r = None /\ local[u].slot \notin Chained
                                  /\ AllFree' \subseteq AllFree \cup {local[u].slot}
  PROVE  TickInv'
<1>1. /\ Others(u) /\ call'[u] = NoCall /\ local'[u].pc \in {"idle", "task"}
      /\ local'[u].pc = "task" <=> phase = "tasks" /\ r = None
      /\ local'[u].pc = "task" => local'[u].pair = call[u].key
      /\ output' = IF client = "ticks" /\ r # None THEN output \cup {r} ELSE output
  BY ReturnFacts
<1>2. /\ client' = client /\ phase' = phase /\ todo' = todo /\ stale' = stale
      /\ persistent' = persistent /\ bit_count' = bit_count /\ TickInv
  BY DEF agenda, IInv
<1>3. \A t \in Threads \ {u} : local'[t] = local[t] /\ call'[t] = call[t]
  BY <1>1 DEF Others
<1>4. /\ call[u].op \in Ops /\ call[u].key \in Keys /\ ~At(u, "idle") /\ ~At(u, "task")
      /\ call[u].op = "add" => local[u].pc \in AddPcs
      /\ call[u].op = "lookup" => local[u].pc \in SearchPcs
  BY PlaceFacts DEF IInv, Types, ThreadTypes, CallTypes
<1>5. phase # "quiet" \/ client # "ticks"
  BY <1>2, <1>4 DEF TickInv, QuietInv
<1>6. phase' # "tasks" => todo' = {} /\ \A t \in Threads : ~At(t, "task")'
  BY <1>1, <1>2, <1>3 DEF TickInv, At
<1>7. \A s \in Slots : Removed(s)' => Removed(s)
  BY <1>1, <1>3 DEF Removed, NoCall
<1>8. ASSUME TasksInv, phase = "tasks", client = "ticks" PROVE TasksInv'
  <2>0. call[u].op \in {"lookup", "add"}
    BY <1>4, <1>8 DEF TasksInv, Ops
  <2>1. \A t \in Threads : Pairs(t)' \subseteq Pairs(t)
    <3>1. Pairs(u)' \subseteq Pairs(u)
      BY <1>1 DEF Pairs, Busy, At
    <3>2. \A t \in Threads \ {u} : Pairs(t)' = Pairs(t)
      BY <1>3 DEF Pairs, Busy, At
    <3> QED
      BY <3>1, <3>2
  <2>2. ASSUME NEW t \in Threads
        PROVE  /\ call'[t].op # "remove" /\ Pairs(t)' \cap todo' = {}
               /\ \A y \in Threads : t # y => Pairs(t)' \cap Pairs(y)' = {}
    BY <1>1, <1>2, <1>3, <1>8, <2>1 DEF TasksInv, NoCall
  <2>3. ASSUME NEW t \in Threads, At(t, "task")'
        PROVE  local'[t].pair \in Keys /\ map[local'[t].pair] = None
    <3>1. CASE t = u
      <4>1. r = None /\ local'[u].pair = call[u].key
        BY <1>1, <2>3, <3>1 DEF At
      <4>2. map[call[u].key] = None
        BY <1>8, <2>0, <4>1 DEF TasksInv
      <4> QED
        BY <1>4, <3>1, <4>1, <4>2
    <3>2. CASE t # u
      <4>1. local'[t] = local[t]
        BY <1>3, <3>2
      <4> QED
        BY <1>8, <2>3, <4>1 DEF TasksInv, At
    <3> QED
      BY <3>1, <3>2
  <2>4. ASSUME NEW t \in Threads, call'[t].op = "lookup", None \in seen'[t]
        PROVE  map[call'[t].key] = None
    <3>1. t # u /\ call'[t] = call[t]
      BY <1>1, <1>3, <2>4 DEF NoCall
    <3>2. call[t] # NoCall
      BY <2>4, <3>1 DEF NoCall
    <3>3. seen'[t] = seen[t] \cup {map[call[t].key]}
      BY <3>1, <3>2 DEF Witness
    <3> QED
      BY <1>8, <2>4, <3>1, <3>3 DEF TasksInv
  <2>5. ASSUME NEW s \in Slots
        PROVE  s \in Chained <=> s \in persistent \/ s \in output' \/ Linked(s)'
    <3>1. s \in Chained <=> s \in persistent \/ s \in output \/ Linked(s)
      BY <1>8 DEF TasksInv
    <3>2. Linked(s)' <=> \E t \in Threads \ {u} : At(t, "added") /\ local[t].slot = s
      BY <1>1, <1>3 DEF Linked, At
    <3>3. CASE call[u].op = "lookup"
      <4>1. ~At(u, "added")
        BY <1>4, <3>3 DEF At, SearchPcs
      <4>2. Linked(s)' <=> Linked(s)
        BY <3>2, <4>1 DEF Linked
      <4> QED
        BY <1>1, <1>8, <3>1, <3>3, <4>2
    <3>4. CASE call[u].op = "add"
      <4>1. Linked(s) <=> Linked(s)' \/ s = r
        BY <3>2, <3>4 DEF Linked
      <4>2. output' = output \cup {r}
        BY <1>1, <1>8, <3>4
      <4> QED
        BY <3>1, <4>1, <4>2
    <3> QED
      BY <2>0, <3>3, <3>4
  <2> QED
    BY <1>2, <2>2, <2>3, <2>4, <2>5 DEF TasksInv
<1>9. ASSUME ManageInv, phase = "manage" PROVE ManageInv'
  <2>1. call[u].op = "remove" /\ u = Main /\ r = None /\ local[u].slot \notin Chained
    BY <1>4, <1>9 DEF ManageInv, Ops
  <2>2. \A t \in Threads \ {u} : At(t, "idle") /\ call[t].op # "remove"
    <3>1. \A t \in Threads \ {u} : At(t, "idle")
      BY <1>9, <2>1 DEF ManageInv
    <3>2. \A t \in Threads \ {u} : call[t] = NoCall
      BY <3>1 DEF IInv, Types, ThreadTypes, CallTypes, Busy
    <3> QED
      BY <3>1, <3>2 DEF NoCall
  <2>3. \A s \in Slots : ~Removed(s)' /\ (Removed(s) => s \notin Chained)
    BY <1>1, <1>3, <2>1, <2>2 DEF Removed, NoCall
  <2>4. \A t \in Threads : (t # Main => At(t, "idle"))' /\ call'[t].op \notin {"lookup", "add"}
    BY <1>1, <1>3, <1>9, <2>1, <2>2 DEF ManageInv, At, NoCall
  <2>5. output' = output
    BY <1>1, <2>1
  <2> QED
    BY <1>2, <1>9, <2>3, <2>4, <2>5 DEF ManageInv
<1>10. ASSUME client = "ticks", NEW s \in Slots, s \in persistent \/ s \in AllFree' \/ Removed(s)'
       PROVE  s < bit_count
  <2>1. s \in AllFree' => s \in AllFree \/ Removed(s)
    BY <1>4 DEF Ops, Removed
  <2> QED
    BY <1>2, <1>7, <1>10, <2>1 DEF TickInv
<1> QED
  BY <1>2, <1>5, <1>6, <1>8, <1>9, <1>10 DEF TickInv

(* A return that leaves the stacks alone.                                  *)
LEMMA PlainReturnKept ==
  ASSUME IInv, NEW u \in Threads, Busy(u), NEW r \in Pointers, Return(u, r),
         UNCHANGED <<client, mapped, stacks, pool, calls, agenda>>, Witness,
         \/ /\ call[u].op = "lookup" /\ (r = None => None \in seen[u]) /\ (r # None => r \in Chained)
         \/ call[u].op = "add" /\ At(u, "added") /\ r = local[u].slot /\ r # None
  PROVE  IInv'
<1>1. /\ Others(u) /\ ThreadTypes' /\ OtherTypes' /\ WriterInv' /\ ThreadInv(u)' /\ Hands(u)' = {}
      /\ local'[u].pc \in {"idle", "task"}
  BY ReturnFacts
<1>2. WordTypes'
  BY DEF IInv, Types, WordTypes, mapped, stacks
<1>3. SameStacks /\ StackRely(u)
  BY <1>1, <1>2, StacksSame DEF At
<1>4. StackInv' /\ AllFree' = AllFree
  BY <1>3, PrivateStacks DEF SameStacks
<1>5. ASSUME Chained' = Chained PROVE AccountInv'
  <2>1. Hands(u) = {}
    <3>1. call[u].op = "lookup" => local[u].pc \in SearchPcs
      BY DEF IInv, Types, ThreadTypes, CallTypes
    <3> QED
      BY <3>1 DEF Hands, Adding, Removing, At, SearchPcs
  <2>2. \A t \in Threads : Hands(t)' = Hands(t)
    BY <1>1, <1>5, <2>1, OthersHands
  <2>3. a_count_max' = a_count_max /\ a_length' = a_length /\ local[u].pc \notin GrowPcs
    <3>1. call[u].op = "lookup" => local[u].pc \in SearchPcs
      BY DEF IInv, Types, ThreadTypes, CallTypes
    <3> QED
      BY <3>1 DEF pool, GrowPcs, SearchPcs, At
  <2> QED
    BY <1>1, <1>4, <1>5, <2>2, <2>3, AccountSame DEF Others
<1>6. ASSUME map' = map, Chained' = Chained PROVE TickInv'
  <2>1. UNCHANGED <<client, mapped, pool, calls, agenda>>
    OBVIOUS
  <2>2. call[u].op = "lookup" => /\ r = None => None \in seen[u]
                                 /\ r # None => r \in Chained
                                 /\ AllFree' = AllFree
    BY <1>4
  <2>3. call[u].op = "add" => At(u, "added") /\ r = local[u].slot /\ r # None /\ AllFree' = AllFree
    BY <1>4
  <2>4. call[u].op # "remove"
    OBVIOUS
  <2> QED
    BY <1>6, <2>1, <2>2, <2>3, <2>4, ReturnTick
<1>7. \A s \in Chained : ~Remover(u, s)
  BY DEF Remover
<1> QED
  BY <1>1, <1>2, <1>3, <1>4, <1>5, <1>6, <1>7, EdgeKept

(* A lookup that finds nothing has seen that the map held nothing: it      *)
(* would have met the slot else.                                           *)
LEMMA MissSeen ==
  ASSUME IInv, NEW u \in Threads, call[u].op = "lookup", NotFound(u)
  PROVE  None \in seen[u]
<1> SUFFICES ASSUME None \notin seen[u] PROVE FALSE
  OBVIOUS
<1> DEFINE s == map[call[u].key]
<1>0. Busy(u)
  BY PlaceFacts DEF IInv, Types, Ops
<1>1. s \in seen[u] /\ call[u].key \in Keys /\ map \in [Keys -> Pointers]
  BY <1>0, PlaceFacts DEF IInv, ThreadInv, LookupInv, Types, MapTypes
<1>2. s \in Slots /\ Target(u, s)
  BY <1>1 DEF Pointers, Target
<1> QED
  BY <1>2, NotFoundFacts

(* The return of a lookup keeps the invariant.                             *)
LEMMA LookupReturnKept ==
  ASSUME IInv, NEW u \in Threads, LookupReturn(u), Witness
  PROVE  IInv'
<1>0. /\ call[u].op = "lookup" /\ Busy(u) /\ LocalTypes(u)
      /\ UNCHANGED <<client, mapped, stacks, pool, calls, agenda>>
  BY PlaceFacts DEF LookupReturn, IInv, Types, ThreadTypes, Ops
<1>1. CASE Found(u) /\ Return(u, local[u].sprev.next)
  <2>1. local[u].sprev.next \in Chained /\ local[u].sprev.next # None /\ local[u].sprev.next \in Pointers
    BY <1>1, FoundFacts DEF Pointers
  <2> QED
    BY <1>0, <1>1, <2>1, PlainReturnKept
<1>2. CASE NotFound(u) /\ Return(u, None)
  <2>1. None \in seen[u]
    BY <1>0, <1>2, MissSeen
  <2>2. None \in Pointers
    BY DEF Pointers
  <2> QED
    BY <1>0, <1>2, <2>1, <2>2, PlainReturnKept
<1> QED
  BY <1>1, <1>2 DEF LookupReturn

(* AddReturn keeps the invariant.                                          *)
LEMMA AddReturnKept ==
  ASSUME IInv, NEW u \in Threads, AddReturn(u), Witness
  PROVE  IInv'
<1> DEFINE r == local[u].slot
<1>1. /\ call[u].op = "add" /\ Busy(u) /\ At(u, "added") /\ AddInv(u) /\ Return(u, r)
      /\ UNCHANGED <<client, mapped, stacks, pool, calls, agenda>>
  BY PlaceFacts DEF AddReturn, At, IInv, Types, ThreadInv, AddPcs
<1>2. r \in Slots
  BY <1>1 DEF AddInv, At
<1>3. r \in Pointers /\ r # None
  BY <1>2, SlotFacts DEF Pointers
<1> QED
  BY <1>1, <1>3, PlainReturnKept

(* The freed slot is on the thread's own stack.                            *)
LEMMA PushedKept ==
  ASSUME IInv, NEW u \in Threads, PushTop(u), a_head[u] = tail[local[u].slot], Witness
  PROVE  IInv'
<1> SUFFICES ASSUME NEW v, v = local[u], NEW s, s = v.slot, NEW w, w = [tag |-> tag[s], at |-> s]
             PROVE  IInv'
  OBVIOUS
<1>0. /\ v.pc = "release" /\ call[u].op = "remove" /\ Busy(u) /\ RemoveInv(u)
      /\ WordTypes /\ StackInv /\ AccountInv /\ AllFree \subseteq Slots
  BY PlaceFacts, ReachFacts
     DEF PushTop, At, IInv, Types, ThreadTypes, ThreadInv, RemovePcs
<1>1. /\ a_head' = [a_head EXCEPT ![u] = w] /\ tail' = tail /\ tag' = tag /\ Return(u, None)
      /\ UNCHANGED <<client, mapped, pool, calls, agenda>>
  BY DEF PushTop
<1>2. s \in Slots /\ s \notin Chained /\ s \in Hands(u) /\ s \notin AllFree
  <2>1. s \in Slots /\ s \notin Chained
    BY <1>0 DEF RemoveInv
  <2>2. s \in Hands(u)
    BY <1>0 DEF Hands, Removing, At
  <2> QED
    BY <1>0, <2>1, <2>2 DEF AccountInv
<1>3. w \in Tops /\ w.at = s /\ w.tag = tag[s]
  BY <1>0, <1>2 DEF Tops, WordTypes
<1>4. WordTypes'
  <2>1. a_head' \in [Threads -> Tops]
    BY <1>0, <1>1, <1>3 DEF WordTypes
  <2> QED
    BY <1>0, <1>1, <2>1 DEF WordTypes, mapped
<1>5. Separate(FirstFree, NextFree, AllFree)' /\ AllFree' = AllFree \cup {s}
  <2>1. Separate(FirstFree, NextFree, AllFree) /\ tail[s].at = a_head[u].at
    BY <1>0 DEF StackInv
  <2> QED
    BY <1>0, <1>1, <1>2, <1>3, <1>4, <2>1, PushFree
<1>6. None \in Pointers
  BY DEF Pointers
<1>7. /\ Others(u) /\ ThreadTypes' /\ OtherTypes' /\ WriterInv' /\ ThreadInv(u)' /\ Hands(u)' = {}
      /\ local'[u].pc \in {"idle", "task"}
  BY <1>0, <1>1, <1>6, ReturnFacts
<1>8. StackInv'
  <2>1. \A y \in Threads : a_head'[y] = IF y = u THEN w ELSE a_head[y]
    BY <1>0, <1>1 DEF WordTypes
  <2>2. \A y \in Threads : a_head'[y].at # None => a_head'[y].tag = tag[a_head'[y].at]
    BY <1>0, <1>3, <2>1 DEF StackInv
  <2>3. \A z \in AllFree' : tail[z].at # None => tail[z].tag = tag[tail[z].at]
    <3>1. tail[s].at # None => tail[s].tag = tag[tail[s].at]
      BY <1>0 DEF StackInv
    <3> QED
      BY <1>0, <1>5, <3>1 DEF StackInv
  <2> QED
    BY <1>1, <1>5, <2>2, <2>3 DEF StackInv
<1>9. StackRely(u)
  <2>1. \A z \in Slots : tag[z] <= tag'[z]
    BY <1>0, <1>1 DEF WordTypes
  <2> QED
    BY <1>0, <1>1, <1>5, <1>7, <2>1 DEF StackRely, At
<1>10. ASSUME Chained' = Chained PROVE AccountInv'
  <2>1. \A t \in Threads \ {u} : Hands(t)' = Hands(t)
    BY <1>7, <1>10, OthersHands
  <2>2. Hands(u) = {s}
    BY <1>0, <1>2 DEF Hands, Adding, Removing
  <2>3. a_count_max' = a_count_max /\ a_length' = a_length
    BY <1>1 DEF pool
  <2>4. AllFree' \cap Chained' = {}
    BY <1>0, <1>2, <1>5, <1>10 DEF AccountInv
  <2>5. ASSUME NEW t \in Threads
        PROVE  /\ Hands(t)' \cap (AllFree' \cup Chained') = {}
               /\ \A y \in Threads : t # y => Hands(t)' \cap Hands(y)' = {}
    <3>1. CASE t = u
      BY <1>7, <3>1
    <3>2. CASE t # u
      <4>1. Hands(t)' = Hands(t) /\ \A y \in Threads : Hands(y)' \subseteq Hands(y)
        BY <1>7, <2>1, <3>2
      <4>2. Hands(t) \cap (AllFree \cup Chained) = {} /\ \A y \in Threads : t # y => Hands(t) \cap Hands(y) = {}
        BY <1>0 DEF AccountInv
      <4>3. s \notin Hands(t)
        BY <2>2, <3>2, <4>2
      <4> QED
        BY <1>5, <1>10, <4>1, <4>2, <4>3
    <3> QED
      BY <3>1, <3>2
  <2>6. ASSUME NEW z \in Slots
        PROVE  z < a_count_max' <=> z \in AllFree' \/ z \in Chained' \/ \E t \in Threads : z \in Hands(t)'
    <3>1. z < a_count_max <=> z \in AllFree \/ z \in Chained \/ \E t \in Threads : z \in Hands(t)
      BY <1>0 DEF AccountInv
    <3>2. (\E t \in Threads : z \in Hands(t)) <=> z = s \/ \E t \in Threads : z \in Hands(t)'
      BY <1>7, <2>1, <2>2
    <3> QED
      BY <1>5, <1>10, <2>3, <3>1, <3>2
  <2>7. ASSUME NEW z \in Slots, z < a_count_max'
        PROVE  z < a_length' \/ \E t \in Threads : (local[t].pc \in GrowPcs /\ local[t].slot = z)'
    <3>1. z < a_length \/ \E t \in Threads : local[t].pc \in GrowPcs /\ local[t].slot = z
      BY <1>0, <2>3, <2>7 DEF AccountInv
    <3>2. \A t \in Threads : local[t].pc \in GrowPcs => local'[t] = local[t]
      BY <1>0, <1>7 DEF Others, GrowPcs
    <3> QED
      BY <2>3, <3>1, <3>2
  <2> QED
    BY <2>4, <2>5, <2>6, <2>7 DEF AccountInv
<1>11. ASSUME map' = map, Chained' = Chained PROVE TickInv'
  <2>1. AllFree' \subseteq AllFree \cup {local[u].slot} /\ local[u].slot \notin Chained
    BY <1>2, <1>5
  <2> QED
    BY <1>0, <1>1, <1>6, <1>11, <2>1, ReturnTick
<1>12. \A z \in Chained : ~Remover(u, z)
  BY <1>2 DEF Remover
<1>13. UNCHANGED mapped
  BY <1>1
<1> QED
  BY <1>4, <1>7, <1>8, <1>9, <1>10, <1>11, <1>12, <1>13, EdgeKept

(* PushTop keeps the invariant, whether its exchange succeeds or not.      *)
LEMMA PushTopKept ==
  ASSUME IInv, NEW u \in Threads, PushTop(u), Witness
  PROVE  IInv'
BY PushedKept, PushAgainKept

-------------------------------------------------------------------------------
(* A call starts: a removal with the slot that the map holds for its key.  *)
Legal(u, op, k, s) ==
  /\ ~Busy(u) /\ op \in Ops /\ k \in Keys /\ s \in Pointers
  /\ op # "lookup" => \A t \in Threads : Writer(t) => call[t].key # k
  /\ op = "add" => map[k] = None
  /\ op = "remove" => map[k] = s /\ s # None

(* What is so as soon as a call has started.                               *)
LEMMA StartFacts ==
  ASSUME IInv, NEW u \in Threads, NEW op, NEW k, NEW s, Legal(u, op, k, s), Start(u, op, k, s)
  PROVE  /\ Others(u) /\ ThreadTypes' /\ WriterInv'
         /\ call'[u] = [op |-> op, key |-> k] /\ call'[u] # NoCall
         /\ local'[u].pc = IF op = "add" THEN "pop" ELSE "follow"
         /\ local'[u].pc = "pop" => local'[u].from = u
         /\ ~local'[u].marked /\ ~local'[u].again
         /\ op # "add" => local'[u].slot = s /\ local'[u].prev = Hash[k] /\ local'[u].sprev = link[Hash[k]]
<1> DEFINE c == [op |-> op, key |-> k]
           x == IF op = "add" THEN [Idle EXCEPT !.pc = "pop", !.from = u]
                ELSE [Idle EXCEPT !.pc = "follow", !.slot = s,
                                  !.prev = Hash[k], !.sprev = link[Hash[k]]]
<1>0. /\ DOMAIN local = Threads /\ DOMAIN call = Threads /\ DOMAIN result = Threads
      /\ ThreadTypes /\ WriterInv /\ k \in Keys /\ op \in Ops /\ s \in Pointers
      /\ Hash[k] \in Buckets /\ Hash[k] \in Nodes /\ link[Hash[k]] \in Words
  BY CacheAssumption DEF IInv, Types, ThreadTypes, WordTypes, Legal, Nodes
<1>1. /\ call' = [call EXCEPT ![u] = c] /\ result' = [result EXCEPT ![u] = None]
      /\ local' = [local EXCEPT ![u] = x]
  BY DEF Start
<1>2. call'[u] = c /\ result'[u] = None /\ local'[u] = x
  BY <1>0, <1>1
<1>3. /\ DOMAIN local' = Threads /\ DOMAIN call' = Threads /\ DOMAIN result' = Threads
      /\ \A t \in Threads \ {u} : local'[t] = local[t] /\ call'[t] = call[t] /\ result'[t] = result[t]
  BY <1>0, <1>1
<1>4. Others(u)
  BY <1>3 DEF Others
<1>5. /\ x.pc = IF op = "add" THEN "pop" ELSE "follow"
      /\ x.pc = "pop" => x.from = u
      /\ op # "add" => x.slot = s /\ x.prev = Hash[k] /\ x.sprev = link[Hash[k]]
      /\ DOMAIN x = Fields
      /\ x.pair = None /\ x.slot \in {s, None} /\ x.prev \in {Hash[k], None}
      /\ x.sprev \in {link[Hash[k]], NullLink}
      /\ x.scur = NullLink /\ x.from \in {u, None} /\ x.top = NullTop /\ x.under = NullTop /\ x.tries = 0
      /\ x.tag = 0 /\ x.head = NullLink
  <2>1. CASE op = "add"
    BY <2>1 DEF Idle, Fields
  <2>2. CASE op # "add"
    BY <2>2 DEF Idle, Fields
  <2> QED
    BY <2>1, <2>2
<1>6. ~x.hit /\ ~x.marked /\ ~x.again /\ x.hit \in BOOLEAN /\ x.marked \in BOOLEAN /\ x.again \in BOOLEAN
  <2>1. CASE op = "add"
    BY <2>1 DEF Idle
  <2>2. CASE op # "add"
    BY <2>2 DEF Idle
  <2> QED
    BY <2>1, <2>2
<1>7. c \in [op : Ops, key : Keys] /\ c.op = op /\ c.key = k /\ c # NoCall
  BY <1>0 DEF NoCall
<1> HIDE DEF x, c
<1>8. LocalTypes(u)'
  <2>1. NullLink \in Words /\ NullTop \in Tops
    BY DEF NullLink, NullTop, Words, Tops
  <2>2. x.pc \in {"idle", "task"} \cup AddPcs \cup RemovePcs
    BY <1>5 DEF AddPcs, RemovePcs, SearchPcs
  <2> QED
    BY <1>0, <1>2, <1>5, <1>6, <2>1, <2>2 DEF LocalTypes, Pointers
<1>9. CallTypes(u)'
  BY <1>2, <1>5, <1>7 DEF CallTypes, Calls, At, Busy, AddPcs, SearchPcs, RemovePcs, Pointers
<1>10. ThreadTypes'
  <2>1. ASSUME NEW t \in Threads \ {u} PROVE (LocalTypes(t) /\ CallTypes(t))'
    <3>1. LocalTypes(t) /\ CallTypes(t)
      BY <1>0 DEF ThreadTypes
    <3>2. local'[t] = local[t] /\ call'[t] = call[t] /\ result'[t] = result[t]
      BY <1>3
    <3> QED
      BY <3>1, <3>2 DEF LocalTypes, CallTypes, At, Busy
  <2> QED
    BY <1>3, <1>8, <1>9, <2>1 DEF ThreadTypes
<1>11. WriterInv'
  BY <1>0, <1>2, <1>4, <1>7 DEF WriterInv, Writer, Others, Legal, Ops
<1> QED
  BY <1>2, <1>4, <1>5, <1>6, <1>7, <1>10, <1>11 DEF c

(* What the call knows as it starts.                                       *)
LEMMA StartThread ==
  ASSUME IInv, NEW u \in Threads, NEW op, NEW k, NEW s, Legal(u, op, k, s), Start(u, op, k, s),
         UNCHANGED mapped, SameLists, map' = map, Witness
  PROVE  ThreadInv(u)'
<1>0. /\ call'[u] = [op |-> op, key |-> k] /\ call'[u] # NoCall
      /\ local'[u].pc = IF op = "add" THEN "pop" ELSE "follow"
      /\ local'[u].pc = "pop" => local'[u].from = u
      /\ ~local'[u].marked /\ ~local'[u].again
      /\ op # "add" => local'[u].slot = s /\ local'[u].prev = Hash[k] /\ local'[u].sprev = link[Hash[k]]
  BY StartFacts
<1>1. call'[u].op = op /\ call'[u].key = k /\ op \in Ops /\ k \in Keys
  BY <1>0 DEF Legal
<1>2. CASE op = "add"
  <2>1. AddInv(u)'
    BY <1>0, <1>1, <1>2 DEF AddInv, Legal, GrowPcs
  <2>2. PopInv(u)' /\ local'[u].pc \in AddPcs
    BY <1>0, <1>2 DEF PopInv, AddPcs
  <2> QED
    BY <1>1, <1>2, <2>1, <2>2, AddThread
<1>3. CASE op # "add"
  <2> SUFFICES ASSUME NEW b, b = Hash[k], NEW v, v = local'[u] PROVE ThreadInv(u)'
    OBVIOUS
  <2>0. /\ v.pc = "follow" /\ v.slot = s /\ v.prev = b /\ v.sprev = link[b]
        /\ op \in {"lookup", "remove"} /\ ~v.marked /\ ~v.again
    BY <1>0, <1>1, <1>3 DEF Ops
  <2>1. b \in Buckets /\ b \in Nodes /\ WordTypes /\ MapIs(map) /\ ListInv /\ link' = link /\ key' = key
    BY <1>1, CacheAssumption DEF IInv, Types, Nodes, mapped
  <2>2. seen'[u] = {map[k]}
    <3>1. call[u] = NoCall
      BY DEF Legal, Busy
    <3> QED
      BY <1>0, <1>1, <3>1 DEF Witness
  <2>3. SearchInv(u)'
    <3>1. Fresh(b, link[b], b)'
      <4>1. ~link[b].marked /\ link[b].tag \in Nat
        BY <2>1 DEF ListInv, WordTypes, Words
      <4> QED
        BY <2>1, <4>1 DEF Fresh, On
    <3> QED
      BY <1>1, <2>0, <2>1, <3>1 DEF SearchInv, Fresh, On
  <2>4. ASSUME NEW z \in Slots, Target(u, z)' PROVE map[k] = z
    <3>1. CASE op = "remove"
      BY <1>1, <2>0, <2>4, <3>1 DEF Target, Legal
    <3>2. CASE op = "lookup"
      BY <1>1, <2>2, <2>4, <3>2 DEF Target
    <3> QED
      BY <2>0, <3>1, <3>2
  <2>5. ASSUME NEW z \in Slots, map[k] = z PROVE link[b].next # None /\ z \in After(b)'
    <3>1. z # None /\ Holds(k, z)
      BY <1>1, <2>1, <2>5, SlotFacts DEF MapIs
    <3>2. z \in After(b)
      BY <2>1, <3>1, ReachFacts DEF Holds
    <3>3. link[b].next # None
      BY <2>1, <3>2, LeadsOn
    <3> QED
      BY <2>1, <3>2, <3>3 DEF SameLists
  <2>6. CompleteInv(u)'
    <3>1. \A z \in Slots : Target(u, z)' => Ahead(local[u].prev, local[u].sprev, z)'
      <4> SUFFICES ASSUME NEW z \in Slots, Target(u, z)' PROVE Ahead(local[u].prev, local[u].sprev, z)'
        OBVIOUS
      <4>1. link[b].next # None /\ z \in After(b)'
        BY <2>4, <2>5
      <4> QED
        BY <2>0, <2>1, <4>1 DEF Ahead, After
    <3> QED
      BY <2>0, <3>1 DEF CompleteInv, ReadPcs
  <2>7. LookupInv(u)'
    BY <1>1, <2>0, <2>2 DEF LookupInv, ReadPcs
  <2>8. RemoveInv(u)'
    <3>1. op = "remove" => s \in Slots /\ key[s] = k /\ map[k] = s
      <4> SUFFICES ASSUME op = "remove" PROVE s \in Slots /\ key[s] = k /\ map[k] = s
        OBVIOUS
      <4>1. map[k] = s /\ s # None /\ s \in Slots
        BY DEF Legal, Pointers
      <4> QED
        BY <1>1, <2>1, <4>1 DEF MapIs, Holds
    <3> QED
      BY <1>1, <2>0, <2>1, <3>1 DEF RemoveInv
  <2> QED
    BY <1>1, <2>0, <2>3, <2>6, <2>7, <2>8, SearchThread DEF SearchPcs
<1> QED
  BY <1>2, <1>3

(* The start of a call that the contract of the map allows keeps the       *)
(* invariant.                                                              *)
LEMMA StartKept ==
  ASSUME IInv, NEW u \in Threads, NEW op, NEW k, NEW s, Legal(u, op, k, s), Start(u, op, k, s),
         UNCHANGED <<client, mapped, stacks, pool>>, OtherTypes', Witness,
         map' = map /\ Chained' = Chained /\ AllFree' = AllFree => TickInv'
  PROVE  IInv'
<1>1. /\ Others(u) /\ ThreadTypes' /\ WriterInv' /\ local'[u].pc \in {"pop", "follow"}
      /\ call'[u] = [op |-> op, key |-> k]
      /\ op # "add" => local'[u].slot = s /\ local'[u].pc = "follow"
  BY StartFacts
<1>2. WordTypes' /\ UNCHANGED mapped
  BY DEF IInv, Types, WordTypes, mapped, stacks
<1>3. SameStacks /\ StackRely(u)
  BY <1>1, <1>2, StacksSame DEF At
<1>4. StackInv' /\ AllFree' = AllFree
  BY <1>3, PrivateStacks DEF SameStacks
<1>5. SameLists /\ map' = map
  BY <1>2, MappedSame, MapSame
<1>6. ~Busy(u) /\ call[u] = NoCall /\ local[u].pc \in {"idle", "task"}
  <2>1. ~Busy(u)
    BY DEF Legal
  <2> QED
    BY <2>1 DEF Busy, IInv, Types, ThreadTypes, CallTypes, At
<1>7. AccountInv'
  <2>1. Hands(u) = {}
    BY <1>6 DEF Hands, Adding, Removing, NoCall
  <2>2. Hands(u)' = {}
    <3>1. op = "remove" => s \in Chained
      <4> SUFFICES ASSUME op = "remove" PROVE s \in Chained
        OBVIOUS
      <4>1. map[k] = s /\ s # None /\ k \in Keys /\ Hash[k] \in Buckets
        BY CacheAssumption DEF Legal
      <4>2. s \in Reach(Hash[k])
        BY <4>1 DEF IInv, MapIs, Holds
      <4> QED
        BY <4>1, <4>2, ReachFacts DEF IInv, Types
    <3> QED
      BY <1>1, <1>5, <3>1 DEF Hands, Adding, Removing, At, SameLists
  <2>3. \A t \in Threads : Hands(t)' = Hands(t)
    BY <1>1, <1>5, <2>1, <2>2, OthersHands DEF SameLists
  <2>4. local[u].pc \notin GrowPcs /\ a_count_max' = a_count_max /\ a_length' = a_length
    BY <1>6 DEF GrowPcs, pool
  <2> QED
    BY <1>1, <1>4, <1>5, <2>3, <2>4, AccountSame DEF Others, SameLists
<1>8. ThreadInv(u)'
  BY <1>2, <1>5, StartThread
<1>9. \A z \in Chained : ~Remover(u, z)
  BY <1>6 DEF Remover, NoCall
<1>10. TickInv'
  BY <1>4, <1>5 DEF SameLists
<1> QED
  BY <1>1, <1>2, <1>3, <1>4, <1>7, <1>8, <1>9, <1>10, EdgeKept

(* Min is what its name says.                                              *)
LEMMA LeastOf ==
  ASSUME NEW S \in SUBSET Nat, S # {}
  PROVE  Min(S) \in S
  BY Least DEF Min

(* A thread that is in no call.                                            *)
LEMMA IdleFacts ==
  ASSUME IInv, NEW u \in Threads, local[u].pc \in {"idle", "task"}
  PROVE  ~Busy(u) /\ call[u] = NoCall
  BY DEF Busy, IInv, Types, ThreadTypes, CallTypes, At

(* The client that keeps the rules: the tick is quiet.                     *)
LEMMA AllowedKept ==
  ASSUME IInv, NEW u \in Threads, client = "calls", At(u, "idle"), NEW op \in Ops, NEW k \in Keys,
         NEW s \in Pointers, op = "remove" => s = map[k], Allowed(op, k), Start(u, op, k, s),
         calls' = calls + 1, UNCHANGED <<client, mapped, stacks, pool, tick>>, Witness
  PROVE  IInv'
<1>1. Legal(u, op, k, s)
  <2>1. ~Busy(u)
    BY IdleFacts DEF At
  <2>2. op # "lookup" => \A t \in Threads : Writer(t) => call[t].key # k
    BY DEF Allowed, Writing, Writer, NoCall
  <2>3. /\ op = "add" => map[k] = None
        /\ op = "remove" => map[k] = s /\ s # None
    BY DEF Allowed
  <2> QED
    BY <2>1, <2>2, <2>3 DEF Legal
<1>2. OtherTypes'
  <2>1. OtherTypes /\ calls + 1 \in Nat
    BY DEF IInv, Types, OtherTypes
  <2> QED
    BY <2>1 DEF OtherTypes, tick, agenda, pool
<1>3. TickInv'
  <2>1. client' = client /\ phase' = phase /\ todo' = todo /\ stale' = stale /\ TickInv
    BY DEF tick, agenda, IInv
  <2>2. Others(u) /\ local'[u].pc \in {"pop", "follow"}
    BY <1>1, StartFacts
  <2>3. \A t \in Threads : ~At(t, "task")'
    BY <2>1, <2>2 DEF TickInv, Others, At
  <2> QED
    BY <2>1, <2>3 DEF TickInv
<1>4. UNCHANGED <<client, mapped, stacks, pool>>
  OBVIOUS
<1> QED
  BY <1>1, <1>2, <1>3, <1>4, StartKept

(* The calls of the warm-up are calls.                                     *)
LEMMA WarmCalls ==
  ASSUME OtherTypes, calls < Len(Warm)
  PROVE  Warm[calls + 1].op \in Ops /\ Warm[calls + 1].key \in Keys
<1> DEFINE S == [op : Ops, key : Keys]
<1>1. Warm \in Seq(S) /\ Len(Warm) \in Nat /\ calls + 1 \in 1 .. Len(Warm)
  BY CacheAssumption DEF OtherTypes
<1> HIDE DEF S
<1>2. Warm[calls + 1] \in S
  BY <1>1
<1> QED
  BY <1>2 DEF S

(* The calls that fill the map first keep the invariant.                   *)
LEMMA WarmKept ==
  ASSUME IInv, WarmCall, Witness
  PROVE  IInv'
<1> DEFINE c == Warm[calls + 1]
<1>1. /\ client = "calls" /\ calls < Len(Warm) /\ At(Main, "idle") /\ Allowed(c.op, c.key)
      /\ Start(Main, c.op, c.key, map[c.key])
      /\ calls' = calls + 1 /\ UNCHANGED <<client, mapped, stacks, pool, tick>>
  BY DEF WarmCall
<1>2. Main \in Threads /\ OtherTypes
  BY CacheAssumption DEF IInv, Types
<1>3. c.op \in Ops /\ c.key \in Keys
  BY <1>1, <1>2, WarmCalls
<1> HIDE DEF c
<1>4. c.op \in Ops /\ c.key \in Keys /\ map[c.key] \in Pointers
  BY <1>3 DEF IInv, Types, MapTypes
<1> QED
  BY <1>1, <1>2, <1>4, AllowedKept

(* The calls of the client without ticks keep the invariant.               *)
LEMMA FreeCallKept ==
  ASSUME IInv, NEW u \in Threads, FreeCall(u), Witness
  PROVE  IInv'
<1>1. /\ client = "calls" /\ At(u, "idle") /\ calls' = calls + 1
      /\ UNCHANGED <<client, mapped, stacks, pool, tick>>
  BY DEF FreeCall
<1>2. PICK op \in Ops, k \in Keys :
        Allowed(op, k) /\ Start(u, op, k, IF op = "remove" THEN map[k] ELSE None)
  BY DEF FreeCall
<1> DEFINE s == IF op = "remove" THEN map[k] ELSE None
<1>3. s \in Pointers /\ (op = "remove" => s = map[k])
  BY DEF Pointers, IInv, Types, MapTypes
<1>4. Allowed(op, k) /\ Start(u, op, k, s)
  BY <1>2
<1> HIDE DEF s
<1> QED
  BY <1>1, <1>3, <1>4, AllowedKept

(* A task of the tick starts a call for its pair.                          *)
LEMMA TaskTick ==
  ASSUME IInv, NEW u \in Threads, phase = "tasks", NEW op \in {"lookup", "add"}, NEW k \in Keys,
         Legal(u, op, k, None), Start(u, op, k, None),
         todo' \subseteq todo, k \notin todo', \A t \in Threads \ {u} : k \notin Pairs(t),
         client' = client, phase' = phase, output' = output, stale' = stale, persistent' = persistent,
         bit_count' = bit_count, map' = map, Chained' = Chained, AllFree' = AllFree, Witness
  PROVE  TickInv'
<1>1. /\ Others(u) /\ local'[u].pc \in {"pop", "follow"} /\ call'[u] = [op |-> op, key |-> k]
      /\ call'[u] # NoCall
  BY StartFacts
<1>2. TickInv /\ client = "ticks" /\ TasksInv
  BY DEF IInv, TickInv
<1>3. \A t \in Threads \ {u} : local'[t] = local[t] /\ call'[t] = call[t]
  BY <1>1 DEF Others
<1>4. call[u] = NoCall /\ local[u].pc \in {"idle", "task"}
  BY DEF Legal, Busy, IInv, Types, ThreadTypes, CallTypes, At
<1>5. /\ Pairs(u)' = {k} /\ \A t \in Threads \ {u} : Pairs(t)' = Pairs(t)
  <2>1. Pairs(u)' = {k}
    <3>1. Busy(u)' /\ call'[u].key = k
      BY <1>1 DEF Busy
    <3> QED
      BY <3>1 DEF Pairs
  <2>2. \A t \in Threads \ {u} : Pairs(t)' = Pairs(t)
    BY <1>3 DEF Pairs, Busy, At
  <2> QED
    BY <2>1, <2>2
<1>6. ASSUME NEW t \in Threads
      PROVE  /\ call'[t].op # "remove" /\ Pairs(t)' \cap todo' = {}
             /\ \A y \in Threads : t # y => Pairs(t)' \cap Pairs(y)' = {}
             /\ At(t, "task")' => local'[t].pair \in Keys /\ map[local'[t].pair] = None
             /\ call'[t].op = "lookup" /\ None \in seen'[t] => map[call'[t].key] = None
  <2>1. CASE t = u
    <3>1. seen'[u] = {map[k]}
      BY <1>1, <1>4 DEF Witness
    <3> QED
      BY <1>1, <1>5, <2>1, <3>1 DEF At
  <2>2. CASE t # u
    <3>1. call'[t] = call[t] /\ local'[t] = local[t] /\ Pairs(t)' = Pairs(t)
      BY <1>3, <1>5, <2>2
    <3>2. /\ call[t].op # "remove" /\ Pairs(t) \cap todo = {}
          /\ \A y \in Threads : t # y => Pairs(t) \cap Pairs(y) = {}
          /\ At(t, "task") => local[t].pair \in Keys /\ map[local[t].pair] = None
          /\ call[t].op = "lookup" /\ None \in seen[t] => map[call[t].key] = None
      BY <1>2 DEF TasksInv
    <3>3. call'[t].op = "lookup" /\ None \in seen'[t] => map[call'[t].key] = None
      <4>1. call[t].op = "lookup" => seen'[t] = seen[t] \cup {map[call[t].key]}
        BY <3>1 DEF Witness, NoCall
      <4> QED
        BY <3>1, <3>2, <4>1
    <3>4. \A y \in Threads : t # y => Pairs(t)' \cap Pairs(y)' = {}
      BY <1>5, <2>2, <3>1, <3>2
    <3> QED
      BY <3>1, <3>2, <3>3, <3>4 DEF At
  <2> QED
    BY <2>1, <2>2
<1>7. \A s \in Slots : Linked(s)' = Linked(s) /\ (Removed(s)' => Removed(s))
  BY <1>1, <1>3, <1>4 DEF Linked, Removed, At
<1>8. TasksInv'
  BY <1>2, <1>6, <1>7 DEF TasksInv
<1> QED
  BY <1>2, <1>7, <1>8 DEF TickInv

(* TaskLookup keeps the invariant.                                         *)
LEMMA TaskLookupKept ==
  ASSUME IInv, NEW u \in Threads, TaskLookup(u), Witness
  PROVE  IInv'
<1> DEFINE k == Min(todo)
<1>1. /\ phase = "tasks" /\ At(u, "idle") /\ todo # {} /\ Start(u, "lookup", k, None) /\ todo' = todo \ {k}
      /\ UNCHANGED <<client, mapped, stacks, pool, calls, phase, ticks, output,
                     persistent, bit_count, stale>>
  BY DEF TaskLookup
<1>2. k \in todo /\ k \in Keys
  <2>1. todo \in SUBSET Nat /\ todo \subseteq Keys
    BY CacheAssumption DEF IInv, Types, OtherTypes
  <2> QED
    BY <1>1, <2>1, LeastOf
<1>3. None \in Pointers
  BY DEF Pointers
<1>4. Legal(u, "lookup", k, None)
  BY <1>1, <1>2, <1>3, IdleFacts DEF Legal, At, Ops
<1>5. \A t \in Threads : k \notin Pairs(t)
  BY <1>1, <1>2 DEF IInv, TickInv, TasksInv
<1> HIDE DEF k
<1>6. OtherTypes'
  <2>1. OtherTypes
    BY DEF IInv, Types
  <2> QED
    BY <1>1, <2>1 DEF OtherTypes, pool
<1>7. ASSUME map' = map, Chained' = Chained, AllFree' = AllFree PROVE TickInv'
  BY <1>1, <1>2, <1>4, <1>5, <1>7, TaskTick
<1>8. UNCHANGED <<client, mapped, stacks, pool>>
  BY <1>1
<1> QED
  BY <1>1, <1>4, <1>6, <1>7, <1>8, StartKept

(* The pair of a task that found no cache has none still.                  *)
LEMMA TaskAddKept ==
  ASSUME IInv, NEW u \in Threads, TaskAdd(u), Witness
  PROVE  IInv'
<1> DEFINE k == local[u].pair
<1>1. /\ At(u, "task") /\ Start(u, "add", k, None)
      /\ UNCHANGED <<client, mapped, stacks, pool, calls, tick>>
  BY DEF TaskAdd
<1>2. TickInv /\ phase = "tasks" /\ client = "ticks" /\ TasksInv
  BY <1>1 DEF IInv, TickInv
<1>3. k \in Keys /\ map[k] = None
  BY <1>1, <1>2 DEF TasksInv
<1>4. ~Busy(u) /\ Pairs(u) = {k}
  BY <1>1, IdleFacts DEF At, Pairs
<1>5. /\ k \notin todo
      /\ \A t \in Threads \ {u} : k \notin Pairs(t)
  BY <1>2, <1>4 DEF TasksInv
<1>6. Legal(u, "add", k, None)
  <2>1. ASSUME NEW t \in Threads, Writer(t) PROVE call[t].key # k
    <3>1. Busy(t) /\ t # u
      BY <1>4, <2>1 DEF Writer, Busy, NoCall
    <3> QED
      BY <1>5, <3>1 DEF Pairs
  <2> QED
    BY <1>3, <1>4, <2>1 DEF Legal, Ops, Pointers
<1> HIDE DEF k
<1>7. OtherTypes'
  <2>1. OtherTypes
    BY DEF IInv, Types
  <2> QED
    BY <1>1, <2>1 DEF OtherTypes, pool, tick, agenda
<1>8. ASSUME map' = map, Chained' = Chained, AllFree' = AllFree PROVE TickInv'
  <2>1. /\ todo' = todo /\ client' = client /\ phase' = phase /\ output' = output /\ stale' = stale
        /\ persistent' = persistent /\ bit_count' = bit_count
    BY <1>1 DEF tick, agenda
  <2> QED
    BY <1>1, <1>2, <1>3, <1>5, <1>6, <1>8, <2>1, TaskTick
<1>9. UNCHANGED <<client, mapped, stacks, pool>>
  BY <1>1
<1> QED
  BY <1>1, <1>6, <1>7, <1>8, <1>9, StartKept

(* The main thread removes a stale cache, which the map holds.             *)
LEMMA RemoveStaleKept ==
  ASSUME IInv, RemoveStale, Witness
  PROVE  IInv'
<1> DEFINE s == Min(stale)
           k == key[s]
<1>1. /\ phase = "manage" /\ stale # {} /\ At(Main, "idle") /\ Start(Main, "remove", k, s)
      /\ stale' = stale \ {s}
      /\ UNCHANGED <<client, mapped, stacks, pool, calls, phase, ticks, todo, output,
                     persistent, bit_count>>
  BY DEF RemoveStale
<1>2. TickInv /\ client = "ticks" /\ ManageInv /\ Main \in Threads /\ OtherTypes
  BY <1>1, CacheAssumption DEF IInv, TickInv, Types
<1>3. s \in stale /\ s \in Slots /\ s \in Chained /\ s \in persistent
  <2>1. stale \in SUBSET Nat
    BY <1>2, SlotFacts DEF OtherTypes
  <2> QED
    BY <1>1, <1>2, <2>1, LeastOf DEF ManageInv, OtherTypes
<1>4. \A t \in Threads : call[t] = NoCall /\ At(t, "idle")
  BY <1>1, <1>2, IdleFacts DEF ManageInv, At
<1> HIDE DEF s
<1>5. k \in Keys /\ map[k] = s
  <2>1. \A t \in Threads : ~Remover(t, s)
    BY <1>4 DEF Remover, NoCall
  <2>2. ~link[s].marked /\ key[s] \in Keys
    BY <1>3, <2>1, ReachFacts DEF IInv, Types, ListInv
  <2> QED
    BY <1>3, <2>2 DEF IInv, MapIs
<1>6. Legal(Main, "remove", k, s)
  BY <1>2, <1>3, <1>4, <1>5, SlotFacts DEF Legal, Busy, Writer, NoCall, Ops, Pointers
<1> HIDE DEF k
<1>7. OtherTypes'
  BY <1>1, <1>2 DEF OtherTypes, pool
<1>8. ASSUME map' = map, Chained' = Chained, AllFree' = AllFree PROVE TickInv'
  <2>1. /\ Others(Main) /\ local'[Main].pc = "follow" /\ local'[Main].slot = s
        /\ call'[Main] = [op |-> "remove", key |-> k]
    BY <1>1, <1>2, <1>6, StartFacts
  <2>2. \A t \in Threads \ {Main} : local'[t] = local[t] /\ call'[t] = NoCall /\ At(t, "idle")'
    BY <1>4, <2>1 DEF Others, At
  <2>3. \A z \in Slots : Removed(z)' <=> z = s
    BY <1>2, <2>1, <2>2 DEF Removed, NoCall
  <2>4. \A z \in Slots : ~Removed(z)
    BY <1>4 DEF Removed, NoCall
  <2>5. \A t \in Threads : (t # Main => At(t, "idle"))' /\ call'[t].op \notin {"lookup", "add"} /\ ~At(t, "task")'
    BY <2>1, <2>2 DEF At, NoCall
  <2>6. ManageInv'
    <3>1. output \subseteq Chained /\ stale' \subseteq Chained /\ stale' \subseteq persistent
      BY <1>1, <1>2 DEF ManageInv
    <3>2. ASSUME NEW z \in Slots
          PROVE  /\ z \in Chained => z \in output \/ z \in stale' \/ z = s
                 /\ ~(z \in stale' /\ z \in output)
                 /\ z = s => z \notin stale' /\ z \notin output
      BY <1>1, <1>2, <1>3, <2>4 DEF ManageInv
    <3> QED
      BY <1>1, <1>8, <2>3, <2>5, <3>1, <3>2 DEF ManageInv
  <2>7. \A z \in Slots : z \in persistent' \/ z \in AllFree' \/ Removed(z)' => z < bit_count'
    BY <1>1, <1>2, <1>3, <1>8, <2>3 DEF TickInv
  <2> QED
    BY <1>1, <1>2, <2>5, <2>6, <2>7 DEF TickInv
<1>9. UNCHANGED <<client, mapped, stacks, pool>>
  BY <1>1
<1> QED
  BY <1>1, <1>2, <1>6, <1>7, <1>8, <1>9, StartKept

(***************************************************************************)
(* The steps of the client between the calls.                              *)
(***************************************************************************)
LEMMA IdleThread ==
  ASSUME NEW t \in Threads, call[t] = NoCall, local[t].pc = "idle"
  PROVE  ThreadInv(t) /\ Hands(t) = {}
  BY DEF ThreadInv, SearchInv, CompleteInv, Target, LookupInv, RemoveInv, AddInv, PopInv, Hands, Adding,
         Removing, NoCall, SearchPcs, ReadPcs

(* A step of the client while all threads idle keeps the invariant.        *)
LEMMA ClientKept ==
  ASSUME IInv, \A t \in Threads : At(t, "idle"),
         UNCHANGED <<client, mapped, stacks, pool, local, call, result>>, OtherTypes', Witness,
         map' = map /\ Chained' = Chained /\ AllFree' = AllFree => TickInv'
  PROVE  IInv'
<1>1. local' = local /\ call' = call /\ result' = result /\ a_count_max' = a_count_max /\ a_length' = a_length
  BY DEF pool
<1>2. WordTypes' /\ UNCHANGED mapped /\ UNCHANGED stacks
  BY DEF IInv, Types, WordTypes, mapped, stacks
<1>3. SameLists /\ map' = map /\ MapIs(map)' /\ map' \in [Keys -> Pointers]
  BY <1>2, MappedSame, MapSame DEF IInv, Types, MapTypes
<1>4. SameStacks
  BY <1>2, SameFree DEF IInv, Types, StackInv, stacks
<1>5. StackInv' /\ AllFree' = AllFree
  BY <1>2, <1>4, PrivateStacks DEF SameStacks
<1>6. ListInv'
  BY <1>1, <1>2, ListsSame DEF Remover
<1>7. \A t \in Threads : call[t] = NoCall /\ local[t].pc = "idle"
  BY IdleFacts DEF At
<1>8. ThreadTypes'
  BY <1>1 DEF IInv, Types, ThreadTypes, LocalTypes, CallTypes, At, Busy
<1>9. MapTypes'
  BY <1>3, <1>8, SeenTypes DEF IInv, Types
<1>10. WriterInv'
  BY <1>1 DEF IInv, WriterInv, Writer
<1>11. \A t \in Threads : ThreadInv(t)' /\ Hands(t)' = Hands(t)
  <2> SUFFICES ASSUME NEW t \in Threads PROVE ThreadInv(t)' /\ Hands(t)' = Hands(t)
    OBVIOUS
  <2>1. Hands(t) = {}
    BY <1>7, IdleThread
  <2>2. call'[t] = NoCall /\ local'[t].pc = "idle"
    BY <1>1, <1>7
  <2>3. ThreadInv(t)' /\ Hands(t)' = {}
    BY <2>2 DEF ThreadInv, SearchInv, CompleteInv, Target, LookupInv, RemoveInv, AddInv, PopInv, Hands,
                Adding, Removing, NoCall, SearchPcs, ReadPcs
  <2> QED
    BY <2>1, <2>3
<1>12. AccountInv'
  <2>1. Chained' = Chained
    BY <1>3 DEF SameLists
  <2> QED
    BY <1>1, <1>5, <1>11, <2>1 DEF IInv, AccountInv
<1>13. TickInv'
  BY <1>3, <1>5 DEF SameLists
<1> QED
  BY <1>2, <1>3, <1>5, <1>6, <1>8, <1>9, <1>10, <1>11, <1>12, <1>13 DEF IInv, Types

(* TickStart keeps the invariant.                                          *)
LEMMA StartTickKept ==
  ASSUME IInv, TickStart, Witness
  PROVE  IInv'
<1>1. /\ client = "ticks" /\ phase = "quiet" /\ phase' = "tasks" /\ output' = {} /\ ticks' = ticks + 1
      /\ UNCHANGED <<client, mapped, stacks, pool, local, call, result, calls, persistent, bit_count, stale>>
      /\ todo' \in SUBSET Keys
  BY DEF TickStart
<1>2. QuietInv /\ stale = {} /\ TickInv /\ OtherTypes
  BY <1>1 DEF IInv, TickInv, Types
<1>3. \A t \in Threads : At(t, "idle") /\ call[t] = NoCall
  BY <1>2, IdleFacts DEF QuietInv, At
<1>4. OtherTypes'
  BY <1>1, <1>2 DEF OtherTypes, pool
<1>5. ASSUME map' = map, Chained' = Chained, AllFree' = AllFree PROVE TickInv'
  <2>1. local' = local /\ call' = call
    BY <1>1
  <2>2. \A t \in Threads : Pairs(t)' = {} /\ ~At(t, "task")' /\ ~At(t, "added")' /\ call'[t].op = "none"
    BY <1>3, <2>1 DEF Pairs, Busy, At, NoCall
  <2>3. \A s \in Slots : ~Linked(s)' /\ ~Removed(s)'
    BY <2>2 DEF Linked, Removed
  <2>4. TasksInv'
    BY <1>1, <1>2, <1>5, <2>2, <2>3 DEF TasksInv, QuietInv
  <2> QED
    BY <1>1, <1>2, <1>5, <2>3, <2>4 DEF TickInv
<1> QED
  BY <1>1, <1>3, <1>4, <1>5, ClientKept

(* What was not used in the tick is stale.                                 *)
LEMMA EvaluateKept ==
  ASSUME IInv, Evaluate, Witness
  PROVE  IInv'
<1>1. /\ phase = "tasks" /\ todo = {} /\ phase' = "manage" /\ stale' = StaleCaches
      /\ UNCHANGED <<client, mapped, stacks, pool, local, call, result, calls, ticks, todo,
                     output, persistent, bit_count>>
      /\ \A t \in Threads : At(t, "idle")
  BY DEF Evaluate
<1>2. client = "ticks" /\ TasksInv /\ TickInv /\ OtherTypes
  BY <1>1 DEF IInv, TickInv, Types
<1>3. \A t \in Threads : call[t] = NoCall
  BY <1>1, IdleFacts DEF At
<1>4. stale' = {s \in persistent : s \notin output \/ ~(s < bit_count)}
  BY <1>1 DEF StaleCaches, frame
<1>5. OtherTypes'
  BY <1>1, <1>2, <1>4 DEF OtherTypes, pool
<1>6. ASSUME map' = map, Chained' = Chained, AllFree' = AllFree PROVE TickInv'
  <2>1. local' = local /\ call' = call
    BY <1>1
  <2>2. \A t \in Threads : At(t, "idle")' /\ ~At(t, "task")' /\ ~At(t, "added") /\ call'[t].op = "none"
    BY <1>1, <1>3, <2>1 DEF At, NoCall
  <2>3. \A s \in Slots : ~Linked(s) /\ ~Removed(s)' /\ ~Removed(s)
    BY <1>3, <2>2 DEF Linked, Removed, NoCall
  <2>4. \A s \in Slots : s \in Chained <=> s \in persistent \/ s \in output
    BY <1>2, <2>3 DEF TasksInv
  <2>5. \A s \in persistent : s < bit_count
    BY <1>2 DEF TickInv, OtherTypes
  <2>6. ManageInv'
    <3>1. output \subseteq Chained /\ stale' \subseteq Chained /\ stale' \subseteq persistent
      BY <1>2, <1>4, <2>4 DEF OtherTypes
    <3>2. \A s \in Slots : /\ s \in Chained => s \in output \/ s \in stale'
                           /\ ~(s \in stale' /\ s \in output)
      BY <1>4, <2>4, <2>5
    <3> QED
      BY <1>1, <1>6, <2>2, <2>3, <3>1, <3>2 DEF ManageInv
  <2> QED
    BY <1>1, <1>2, <1>6, <2>2, <2>3, <2>6 DEF TickInv
<1> QED
  BY <1>1, <1>5, <1>6, ClientKept

(* The bits cover the pool.                                                *)
LEMMA BitCountCovers ==
  ASSUME NEW n \in Nat
  PROVE  BitCount(n) \in Nat /\ n <= BitCount(n)
<1> DEFINE m == n + BitBlock - 1
           q == m \div BitBlock
           r == m % BitBlock
<1>1. BitBlock \in Nat \ {0} /\ m \in Nat
  BY CacheAssumption
<1>2. m = (BitBlock * q) + r /\ r \in 0 .. BitBlock - 1 /\ q \in Nat
  <2> HIDE DEF m
  <2> QED
    BY <1>1, DivMod
<1>3. BitCount(n) = q * BitBlock
  BY DEF BitCount
<1>4. q * BitBlock = BitBlock * q /\ BitBlock * q \in Nat
  <2> HIDE DEF q
  <2> QED
    BY <1>1, <1>2
<1>5. m = n + BitBlock - 1
  OBVIOUS
<1> HIDE DEF m, q, r
<1>6. n <= BitBlock * q
  <2> DEFINE p == BitBlock * q
  <2>1. p \in Nat /\ m = p + r
    BY <1>2, <1>4
  <2> HIDE DEF p
  <2>2. n <= p
    BY <1>1, <1>2, <1>5, <2>1
  <2> QED
    BY <2>2 DEF p
<1> QED
  BY <1>3, <1>4, <1>6

(* The bits are those of the caches of the map: a slot above their old     *)
(* length has been handed out in the tick, and none of those is free.      *)
LEMMA EndTickKept ==
  ASSUME IInv, TickEnd, Witness
  PROVE  IInv'
<1>1. /\ phase = "manage" /\ stale = {} /\ At(Main, "idle") /\ phase' = "quiet"
      /\ persistent' = frame \cup Appended
      /\ bit_count' = IF bit_count < a_count_max THEN BitCount(a_length) ELSE bit_count
      /\ UNCHANGED <<client, mapped, stacks, pool, local, call, result, calls, ticks, todo,
                     output, stale>>
  BY DEF TickEnd
<1>2. client = "ticks" /\ ManageInv /\ TickInv /\ OtherTypes /\ AccountInv
  BY <1>1 DEF IInv, TickInv, Types
<1>3. \A t \in Threads : At(t, "idle") /\ call[t] = NoCall /\ Hands(t) = {}
  <2>1. \A t \in Threads : At(t, "idle")
    BY <1>1, <1>2 DEF ManageInv
  <2>2. \A t \in Threads : call[t] = NoCall
    BY <2>1, IdleFacts DEF At
  <2> QED
    BY <2>1, <2>2, IdleThread DEF At
<1>4. \A s \in Slots : ~Removed(s)
  BY <1>3 DEF Removed, NoCall
<1>5. Chained = output
  <2>1. Chained \subseteq Slots
    BY ReachFacts DEF IInv, Types
  <2> QED
    BY <1>1, <1>2, <1>4, <2>1 DEF ManageInv
<1>6. /\ \A s \in Slots : s < a_count_max <=> s \in AllFree \/ s \in Chained
      /\ \A s \in Slots : s < a_count_max => s < a_length
      /\ \A s \in AllFree : s \in Slots /\ s < bit_count
      /\ a_count_max \in 0 .. MaxSlots /\ bit_count \in Nat /\ a_length \in Nat /\ MaxSlots \in Nat
  <2>1. \A t \in Threads : local[t].pc \notin GrowPcs
    BY <1>3 DEF At, GrowPcs
  <2>2. AllFree \subseteq Slots
    BY ReachFacts DEF IInv, Types
  <2> QED
    BY <1>2, <1>3, <2>1, <2>2, CacheAssumption DEF AccountInv, TickInv, OtherTypes
<1>7. persistent' = Chained
  <2>1. persistent' = {s \in output : s < bit_count} \cup (bit_count .. a_count_max - 1)
    BY <1>1 DEF frame, Appended
  <2>2. ASSUME NEW s \in bit_count .. a_count_max - 1 PROVE s \in Chained
    <3>1. s \in Slots /\ s < a_count_max /\ ~(s < bit_count)
      BY <1>6, <2>2 DEF Slots
    <3> QED
      BY <1>6, <3>1
  <2>3. ASSUME NEW s \in Chained PROVE s \in persistent'
    <3>1. s \in Slots /\ s \in Nat /\ s < a_count_max
      BY <1>5, <1>6, <2>3, SlotFacts, <1>2 DEF OtherTypes
    <3>2. CASE s < bit_count
      BY <1>5, <2>1, <2>3, <3>2
    <3>3. CASE ~(s < bit_count)
      <4>1. s \in bit_count .. a_count_max - 1
        BY <1>6, <3>1, <3>3
      <4> QED
        BY <2>1, <4>1
    <3> QED
      BY <3>2, <3>3
  <2> QED
    BY <1>5, <2>1, <2>2, <2>3
<1>8. bit_count' \in Nat /\ \A s \in Slots : s < a_count_max => s < bit_count'
  <2>0. \A s \in Slots : s \in Nat
    BY SlotFacts
  <2>1. CASE bit_count < a_count_max
    <3>1. bit_count' = BitCount(a_length) /\ BitCount(a_length) \in Nat /\ a_length <= BitCount(a_length)
      BY <1>1, <1>6, <2>1, BitCountCovers
    <3> QED
      BY <1>6, <2>0, <3>1
  <2>2. CASE ~(bit_count < a_count_max)
    BY <1>1, <1>6, <2>0, <2>2
  <2> QED
    BY <2>1, <2>2
<1>9. OtherTypes'
  <2>1. persistent' \in SUBSET Slots
    BY <1>2, <1>5, <1>7 DEF OtherTypes
  <2> QED
    BY <1>1, <1>2, <1>8, <2>1 DEF OtherTypes, pool
<1>10. ASSUME map' = map, Chained' = Chained, AllFree' = AllFree PROVE TickInv'
  <2>1. local' = local /\ call' = call
    BY <1>1
  <2>2. \A t \in Threads : At(t, "idle")' /\ ~At(t, "task")' /\ call'[t].op = "none"
    BY <1>3, <2>1 DEF At, NoCall
  <2>3. \A s \in Slots : ~Removed(s)'
    BY <2>2 DEF Removed
  <2>4. QuietInv'
    BY <1>1, <1>5, <1>7, <1>10, <2>2 DEF QuietInv
  <2>5. \A s \in Slots : s \in persistent' \/ s \in AllFree' => s < a_count_max
    BY <1>6, <1>7, <1>10
  <2> QED
    BY <1>1, <1>2, <1>8, <2>2, <2>3, <2>4, <2>5 DEF TickInv
<1> QED
  BY <1>1, <1>3, <1>9, <1>10, ClientKept

-------------------------------------------------------------------------------
(* Empty lists and stacks.                                                 *)
LEMMA NoChains ==
  ASSUME WordTypes, \A b \in Buckets : link[b].next = None
  PROVE  Chained = {} /\ \A b \in Buckets : Reach(b) = {}
<1>1. \A b \in Buckets : Reach(b) = {}
  BY PointersAre, ListsAre, FromNone DEF FirstNode
<1> QED
  BY <1>1 DEF Chained

(* Empty stacks hold no slot.                                              *)
LEMMA NoFree ==
  ASSUME WordTypes, \A u \in Threads : a_head[u].at = None
  PROVE  AllFree = {}
<1>1. \A u \in Threads : Free(u) = {}
  BY PointersAre, ListsAre, FromNone DEF FirstFree
<1> QED
  BY <1>1 DEF AllFree

(* Of empty lists and an unused pool everything is true.                   *)
LEMMA EmptyState ==
  ASSUME WordTypes, \A b \in Buckets : link[b] = NullLink, \A u \in Threads : a_head[u] = NullTop,
         a_count_max = 0, \A t \in Threads : call[t] = NoCall /\ local[t].pc = "idle"
  PROVE  /\ Chained = {} /\ AllFree = {}
         /\ ListInv /\ StackInv /\ AccountInv /\ HashInv /\ MapIs([k \in Keys |-> None])
<1>1. Chained = {} /\ \A b \in Buckets : Reach(b) = {} /\ ~link[b].marked /\ FirstNode[b] = None
  BY NoChains DEF NullLink, FirstNode
<1>2. AllFree = {} /\ \A u \in Threads : FirstFree[u] = None /\ a_head[u].at = None
  BY NoFree DEF NullTop, FirstFree
<1>3. DOMAIN FirstNode = Buckets /\ DOMAIN FirstFree = Threads
  BY DEF FirstNode, FirstFree
<1>4. ListInv
  BY <1>1, <1>3 DEF ListInv, Separate
<1>5. StackInv
  BY <1>2, <1>3 DEF StackInv, Separate
<1>6. AccountInv
  <2>1. \A t \in Threads : Hands(t) = {}
    BY IdleThread
  <2>2. \A s \in Slots : ~(s < 0)
    BY SlotFacts
  <2> QED
    BY <1>1, <1>2, <2>1, <2>2 DEF AccountInv
<1>7. MapIs([k \in Keys |-> None])
  BY <1>1 DEF MapIs
<1> QED
  BY <1>1, <1>2, <1>4, <1>5, <1>6, <1>7 DEF HashInv

(* The same after the step.                                                *)
LEMMA EmptyStateAfter ==
  (WordTypes /\ (\A b \in Buckets : link[b] = NullLink) /\ (\A u \in Threads : a_head[u] = NullTop)
   /\ a_count_max = 0 /\ (\A t \in Threads : call[t] = NoCall /\ local[t].pc = "idle") =>
     /\ Chained = {} /\ AllFree = {}
     /\ ListInv /\ StackInv /\ AccountInv /\ HashInv /\ MapIs([k \in Keys |-> None]))'
<1>1. WordTypes /\ (\A b \in Buckets : link[b] = NullLink) /\ (\A u \in Threads : a_head[u] = NullTop)
      /\ a_count_max = 0 /\ (\A t \in Threads : call[t] = NoCall /\ local[t].pc = "idle") =>
        /\ Chained = {} /\ AllFree = {}
        /\ ListInv /\ StackInv /\ AccountInv /\ HashInv /\ MapIs([k \in Keys |-> None])
  BY EmptyState
<1> QED
  BY <1>1, PTL

(* The map is emptied between two ticks.                                   *)
LEMMA FlushKept ==
  ASSUME IInv, Flush, Witness
  PROVE  IInv' /\ map' = [k \in Keys |-> None]
<1>1. /\ client = "ticks" /\ phase = "quiet" /\ ticks' = ticks + 1
      /\ link' = [n \in DOMAIN link |-> IF n \in Buckets THEN NullLink ELSE link[n]]
      /\ a_head' = [t \in Threads |-> NullTop]
      /\ a_count_max' = 0 /\ persistent' = {} /\ output' = {}
      /\ UNCHANGED <<client, key, tag, tail, a_length, a_adding_memory, block, local, call,
                     result, calls, phase, todo, bit_count, stale>>
  BY DEF Flush
<1>2. QuietInv /\ TickInv /\ OtherTypes /\ WordTypes /\ MapTypes /\ ThreadTypes
  BY <1>1 DEF IInv, TickInv, Types
<1>3. \A t \in Threads : call[t] = NoCall /\ local[t].pc = "idle"
  BY <1>2, IdleFacts DEF QuietInv, At
<1>4. WordTypes'
  <2>1. NullLink \in Words /\ NullTop \in Tops
    BY DEF NullLink, NullTop, Words, Tops
  <2>2. link' \in [Nodes -> Words]
    BY <1>1, <1>2, <2>1 DEF WordTypes
  <2>3. a_head' \in [Threads -> Tops]
    BY <1>1, <2>1
  <2> QED
    BY <1>1, <1>2, <2>2, <2>3 DEF WordTypes
<1>5. /\ Chained' = {} /\ AllFree' = {}
      /\ ListInv' /\ StackInv' /\ AccountInv' /\ HashInv' /\ MapIs([k \in Keys |-> None])'
  <2>1. \A b \in Buckets : link'[b] = NullLink
    BY <1>1, <1>2 DEF WordTypes, Nodes
  <2>2. \A u \in Threads : a_head'[u] = NullTop
    BY <1>1
  <2>3. \A t \in Threads : call'[t] = NoCall /\ local'[t].pc = "idle"
    BY <1>1, <1>3
  <2> QED
    BY <1>1, <1>4, <2>1, <2>2, <2>3, EmptyStateAfter
<1>6. MapIs(map)' /\ map' \in [Keys -> Pointers] /\ map' = [k \in Keys |-> None]
  <2>1. [k \in Keys |-> None] \in [Keys -> Pointers]
    BY DEF Pointers
  <2>2. MapIs(map)
    BY DEF IInv
  <2> DEFINE m == [k \in Keys |-> None]
  <2>3. m \in [Keys -> Pointers] /\ MapIs(m)'
    BY <1>5, <2>1
  <2> HIDE DEF m
  <2>4. map' = m /\ MapIs(map)'
    BY <1>2, <1>4, <1>5, <2>2, <2>3, MapFollows
  <2> QED
    BY <2>3, <2>4 DEF m
<1>7. ThreadTypes'
  BY <1>1, <1>2 DEF ThreadTypes, LocalTypes, CallTypes, At, Busy
<1>8. OtherTypes'
  <2>1. 0 \in 0 .. MaxSlots /\ ticks + 1 \in Nat
    BY <1>2, CacheAssumption DEF OtherTypes
  <2> QED
    BY <1>1, <1>2, <2>1 DEF OtherTypes
<1>9. MapTypes'
  BY <1>2, <1>6, <1>7, SeenTypes
<1>10. WriterInv'
  BY <1>1 DEF IInv, WriterInv, Writer
<1>11. \A t \in Threads : ThreadInv(t)'
  <2> SUFFICES ASSUME NEW t \in Threads PROVE ThreadInv(t)'
    OBVIOUS
  <2>1. call'[t] = NoCall /\ local'[t].pc = "idle"
    BY <1>1, <1>3
  <2> QED
    BY <2>1 DEF ThreadInv, SearchInv, CompleteInv, Target, LookupInv, RemoveInv, AddInv, PopInv, Hands,
                Adding, Removing, NoCall, SearchPcs, ReadPcs
<1>12. TickInv'
  <2>1. QuietInv'
    BY <1>1, <1>3, <1>5 DEF QuietInv, At
  <2>2. \A s \in Slots : ~Removed(s)'
    BY <1>1, <1>3 DEF Removed, NoCall
  <2>3. \A t \in Threads : ~At(t, "task")'
    BY <1>1, <1>3 DEF At
  <2> QED
    BY <1>1, <1>2, <1>5, <2>1, <2>2, <2>3 DEF TickInv
<1>13. IInv'
  BY <1>4, <1>5, <1>6, <1>7, <1>8, <1>9, <1>10, <1>11, <1>12 DEF IInv, Types
<1> QED
  BY <1>6, <1>13

(* The start.                                                              *)
LEMMA InitKept ==
  Init => IInv /\ map = [k \in Keys |-> None]
<1> SUFFICES ASSUME Init PROVE IInv /\ map = [k \in Keys |-> None]
  OBVIOUS
<1>1. CacheInit /\ map = Held /\ seen = [t \in Threads |-> {}]
  BY DEF Init
<1>2. \A t \in Threads : call[t] = NoCall /\ local[t] = Idle /\ result[t] = None
  BY <1>1 DEF CacheInit
<1>3. WordTypes
  <2>1. NullLink \in Words /\ NullTop \in Tops
    BY DEF NullLink, NullTop, Words, Tops
  <2> QED
    BY <1>1, <2>1 DEF CacheInit, WordTypes, Nodes
<1>4. \A t \in Threads : local[t].pc = "idle"
  BY <1>2 DEF Idle
<1>5. /\ Chained = {} /\ AllFree = {}
      /\ ListInv /\ StackInv /\ AccountInv /\ HashInv /\ MapIs([k \in Keys |-> None])
  <2>1. /\ \A b \in Buckets : link[b] = NullLink
        /\ \A u \in Threads : a_head[u] = NullTop
        /\ a_count_max = 0
    BY <1>1 DEF CacheInit
  <2> QED
    BY <1>2, <1>3, <1>4, <2>1, EmptyState
<1>6. MapIs(map) /\ map \in [Keys -> Pointers] /\ map = [k \in Keys |-> None]
  <2>1. [k \in Keys |-> None] \in [Keys -> Pointers]
    BY DEF Pointers
  <2>2. [k \in Keys |-> None] = Held
    BY <1>3, <1>5, <2>1, HeldIs
  <2> QED
    BY <1>1, <1>5, <2>1, <2>2
<1>7. ThreadTypes
  <2>1. \A t \in Threads : LocalTypes(t)
    <3>1. NullLink \in Words /\ NullTop \in Tops
      BY DEF NullLink, NullTop, Words, Tops
    <3>2. /\ DOMAIN Idle = Fields /\ Idle.pc = "idle" /\ Idle.pair = None /\ Idle.slot = None
          /\ Idle.prev = None /\ Idle.sprev = NullLink /\ Idle.scur = NullLink /\ Idle.from = None
          /\ Idle.top = NullTop /\ Idle.under = NullTop /\ Idle.tries = 0 /\ Idle.tag = 0
          /\ Idle.head = NullLink
      BY DEF Idle, Fields
    <3>3. Idle.hit \in BOOLEAN /\ Idle.marked \in BOOLEAN /\ Idle.again \in BOOLEAN
      BY DEF Idle
    <3> QED
      BY <1>2, <3>1, <3>2, <3>3 DEF LocalTypes, Pointers
  <2>2. \A t \in Threads : CallTypes(t)
    BY <1>2, <1>4 DEF CallTypes, Calls, At, Busy, NoCall, Pointers
  <2> QED
    BY <1>1, <2>1, <2>2 DEF ThreadTypes, CacheInit
<1>8. OtherTypes
  <2>1. InitialLength \in Nat /\ 0 \in 0 .. MaxSlots /\ BitCount(InitialLength) \in Nat
    BY CacheAssumption, BitCountCovers
  <2> QED
    BY <1>1, <2>1 DEF CacheInit, OtherTypes
<1>9. MapTypes
  BY <1>1, <1>6 DEF MapTypes
<1>10. WriterInv
  BY <1>2 DEF WriterInv, Writer, NoCall
<1>11. \A t \in Threads : ThreadInv(t)
  BY <1>2, <1>4, IdleThread
<1>12. TickInv
  <2>1. phase = "quiet" /\ todo = {} /\ stale = {} /\ persistent = {} /\ output = {}
    BY <1>1 DEF CacheInit
  <2>2. QuietInv
    BY <1>4, <1>5, <2>1 DEF QuietInv, At
  <2>3. \A s \in Slots : ~Removed(s)
    BY <1>2 DEF Removed, NoCall
  <2>4. \A t \in Threads : ~At(t, "task")
    BY <1>4 DEF At
  <2> QED
    BY <1>5, <2>1, <2>2, <2>3, <2>4 DEF TickInv
<1> QED
  BY <1>3, <1>5, <1>6, <1>7, <1>8, <1>9, <1>10, <1>11, <1>12 DEF IInv, Types

-------------------------------------------------------------------------------
(* The invariant *)

(* Nothing happens.                                                        *)
LEMMA StutterKept ==
  ASSUME IInv, UNCHANGED vars
  PROVE  IInv'
<1>1. /\ client' = client /\ link' = link /\ key' = key /\ a_head' = a_head /\ tag' = tag /\ tail' = tail
      /\ a_count_max' = a_count_max /\ a_length' = a_length /\ a_adding_memory' = a_adding_memory
      /\ local' = local /\ call' = call /\ result' = result /\ calls' = calls /\ phase' = phase
      /\ ticks' = ticks /\ todo' = todo /\ output' = output /\ persistent' = persistent
      /\ bit_count' = bit_count /\ stale' = stale /\ map' = map /\ seen' = seen
  BY DEF vars, mapped, stacks, pool, tick, agenda
<1>2. /\ NextNode' = NextNode /\ NextFree' = NextFree /\ FirstNode' = FirstNode /\ FirstFree' = FirstFree
  BY <1>1 DEF NextNode, NextFree, FirstNode, FirstFree
<1>3. /\ \A b : Reach(b)' = Reach(b) /\ After(b)' = After(b)
      /\ \A u : Free(u)' = Free(u)
  BY <1>1, <1>2 DEF Reach, After, Free
<1>4. Chained' = Chained /\ AllFree' = AllFree
  BY <1>3 DEF Chained, AllFree
<1>5. \A t : Hands(t)' = Hands(t)
  BY <1>1, <1>4 DEF Hands, Adding, Removing, At
<1>6. Types'
  BY <1>1 DEF IInv, Types, WordTypes, ThreadTypes, OtherTypes, MapTypes, LocalTypes, CallTypes, At, Busy
<1>7. WriterInv' /\ MapIs(map)'
  BY <1>1, <1>3, <1>4 DEF IInv, WriterInv, Writer, MapIs, Holds
<1>8. ListInv'
  BY <1>1, <1>2, <1>3, <1>4 DEF IInv, ListInv, Remover
<1>9. StackInv'
  BY <1>1, <1>2, <1>4 DEF IInv, StackInv
<1>10. AccountInv'
  BY <1>1, <1>4, <1>5 DEF IInv, AccountInv
<1>11. TickInv'
  <2>1. \A s : Linked(s)' = Linked(s) /\ Removed(s)' = Removed(s)
    BY <1>1 DEF Linked, Removed, At
  <2>2. \A t : Pairs(t)' = Pairs(t) /\ At(t, "idle")' = At(t, "idle") /\ At(t, "task")' = At(t, "task")
    BY <1>1 DEF Pairs, Busy, At
  <2>3. QuietInv' = QuietInv
    BY <1>1, <1>4, <2>2 DEF QuietInv
  <2>4. TasksInv' = TasksInv
    BY <1>1, <1>4, <2>1, <2>2 DEF TasksInv
  <2>5. ManageInv' = ManageInv
    BY <1>1, <1>4, <2>1, <2>2 DEF ManageInv
  <2> QED
    BY <1>1, <1>4, <2>1, <2>2, <2>3, <2>4, <2>5 DEF IInv, TickInv
<1>12. ASSUME NEW t \in Threads PROVE ThreadInv(t)'
  <2>0. SearchInv(t) /\ CompleteInv(t) /\ LookupInv(t) /\ RemoveInv(t) /\ AddInv(t) /\ PopInv(t)
    BY DEF IInv, ThreadInv
  <2>1. SearchInv(t)'
    BY <1>1, <1>3, <2>0 DEF SearchInv, Fresh, On, Still
  <2>2. CompleteInv(t)'
    BY <1>1, <1>3, <1>4, <2>0 DEF CompleteInv, Target, Ahead, Still
  <2>3. LookupInv(t)'
    BY <1>1, <2>0 DEF LookupInv, Still
  <2>4. RemoveInv(t)'
    BY <1>1, <1>3, <1>4, <2>0 DEF RemoveInv, Fresh, On
  <2>5. AddInv(t)'
    BY <1>1, <2>0 DEF AddInv
  <2>6. PopInv(t)'
    BY <1>1, <1>4, <2>0 DEF PopInv, At
  <2> QED
    BY <2>1, <2>2, <2>3, <2>4, <2>5, <2>6 DEF ThreadInv
<1> QED
  BY <1>6, <1>7, <1>8, <1>9, <1>10, <1>11, <1>12 DEF IInv

(* A step of a thread.                                                     *)
LEMMA StepsKept ==
  ASSUME IInv, NEW t \in Threads, Step(t), Witness
  PROVE  IInv'
<1>1. CASE Find(t)
  BY <1>1, FollowKept, CheckKept, FindUnlinkKept, CompareKept, AdvanceKept DEF Find
<1>2. CASE LookupReturn(t)
  BY <1>2, LookupReturnKept
<1>3. CASE Pop(t)
  BY <1>3, PopLoadKept, PopUnderKept, PopTakeKept DEF Pop
<1>4. CASE NewSlot(t)
  BY <1>4, IncrementKept, GrowKept DEF NewSlot
<1>5. CASE Add(t)
  BY <1>5, KeyKept, StoreKept, AddLinkKept, AddReturnKept DEF Add
<1>6. CASE Remove(t)
  BY <1>6, MarkKept, BypassKept, SearchedKept, LookKept, PushLoadKept, PushTopKept DEF Remove
<1>7. CASE FreeCall(t)
  BY <1>7, FreeCallKept
<1>8. CASE Task(t)
  BY <1>8, TaskLookupKept, TaskAddKept DEF Task
<1> QED
  BY <1>1, <1>2, <1>3, <1>4, <1>5, <1>6, <1>7, <1>8 DEF Step

(* The invariant is inductive.                                             *)
LEMMA NextKept ==
  IInv /\ [Next]_vars => IInv'
<1> SUFFICES ASSUME IInv, [Next]_vars PROVE IInv'
  OBVIOUS
<1>1. CASE (\E t \in Threads : Step(t)) /\ Witness
  BY <1>1, StepsKept
<1>2. CASE (WarmCall \/ TickStart \/ Evaluate \/ RemoveStale \/ TickEnd \/ Flush) /\ Witness
  BY <1>2, WarmKept, StartTickKept, EvaluateKept, RemoveStaleKept, EndTickKept, FlushKept
<1>3. CASE UNCHANGED vars
  BY <1>3, StutterKept
<1> QED
  BY <1>1, <1>2, <1>3 DEF Next, Finished

(* The invariant holds.                                                    *)
THEOREM Invariance == Spec => []IInv
<1>1. Init => IInv
  BY InitKept
<1>2. IInv /\ [Next]_vars => IInv'
  BY NextKept
<1> QED
  BY <1>1, <1>2, PTL DEF Spec

-------------------------------------------------------------------------------
(* How many, when there is at most one.                                    *)
LEMMA CountOf ==
  ASSUME NEW S, \A x, y \in S : x = y
  PROVE  Cardinality(S) = IF S = {} THEN 0 ELSE 1
<1>1. CASE S = {}
  BY <1>1, FS_EmptySet
<1>2. CASE S # {}
  <2>1. PICK x \in S : TRUE
    BY <1>2
  <2>2. S = {x}
    BY <2>1
  <2> QED
    BY <1>2, <2>2, FS_Singleton
<1> QED
  BY <1>1, <1>2

(* The account of the slots gives the count of their places.               *)
LEMMA AccountedFor ==
  IInv => SlotsAccounted
<1> SUFFICES ASSUME IInv PROVE SlotsAccounted
  OBVIOUS
<1> DEFINE free == UNION {Free(t) \X {t} : t \in Threads}
           chain == UNION {Reach(b) \X {b} : b \in Buckets}
           held == UNION {Hands(t) \X {t} : t \in Threads}
<1>0. WordTypes /\ AccountInv /\ ListInv /\ StackInv
  BY DEF IInv, Types
<1>2. \A s, t : /\ <<s, t>> \in free <=> t \in Threads /\ s \in Free(t)
                /\ <<s, t>> \in held <=> t \in Threads /\ s \in Hands(t)
  OBVIOUS
<1>3. \A s, b : <<s, b>> \in chain <=> b \in Buckets /\ s \in Reach(b)
  OBVIOUS
<1> HIDE DEF free, chain, held
<1>4. ASSUME NEW s \in Slots
      PROVE  Cardinality({t \in Threads : <<s, t>> \in free})
               + Cardinality({b \in Buckets : <<s, b>> \in chain})
               + Cardinality({t \in Threads : <<s, t>> \in held})
             = IF s < a_count_max THEN 1 ELSE 0
  <2> DEFINE F == {t \in Threads : <<s, t>> \in free}
             C == {b \in Buckets : <<s, b>> \in chain}
             H == {t \in Threads : <<s, t>> \in held}
  <2>1. \A x, y \in F : x = y
    <3> SUFFICES ASSUME NEW x \in Threads, NEW y \in Threads, s \in Free(x), s \in Free(y), x # y PROVE FALSE
      BY <1>2
    <3>1. NextFree \in [Slots -> Pointers] /\ FirstFree \in [Threads -> Pointers]
      BY <1>0, PointersAre
    <3>2. Lists(FirstFree, NextFree)
      BY <1>0, ListsAre DEF Lists, StackInv
    <3>3. From(NextFree, FirstFree[x]) \cap From(NextFree, FirstFree[y]) = {}
      BY <3>1, <3>2, ListsApart
    <3> QED
      BY <1>0, <3>3, ListsAre
  <2>2. \A x, y \in C : x = y
    BY <1>0, <1>3 DEF ListInv
  <2>3. \A x, y \in H : x = y
    BY <1>0, <1>2 DEF AccountInv
  <2>4. F = {} <=> s \notin AllFree
    BY <1>2 DEF AllFree
  <2>5. C = {} <=> s \notin Chained
    BY <1>3 DEF Chained
  <2>6. H = {} <=> \A t \in Threads : s \notin Hands(t)
    BY <1>2
  <2> HIDE DEF F, C, H
  <2>7. /\ Cardinality(F) = IF F = {} THEN 0 ELSE 1
        /\ Cardinality(C) = IF C = {} THEN 0 ELSE 1
        /\ Cardinality(H) = IF H = {} THEN 0 ELSE 1
    BY <2>1, <2>2, <2>3, CountOf
  <2>8. ~(s \in AllFree /\ s \in Chained)
    BY <1>0 DEF AccountInv
  <2>9. \A t \in Threads : s \in Hands(t) => s \notin AllFree /\ s \notin Chained
    BY <1>0 DEF AccountInv
  <2>10. s < a_count_max <=> s \in AllFree \/ s \in Chained \/ \E t \in Threads : s \in Hands(t)
    BY <1>0 DEF AccountInv
  <2>11. Cardinality(F) + Cardinality(C) + Cardinality(H) = IF s < a_count_max THEN 1 ELSE 0
    <3>1. CASE s \in AllFree
      <4>1. F # {} /\ C = {} /\ H = {} /\ s < a_count_max
        BY <2>4, <2>5, <2>6, <2>8, <2>9, <2>10, <3>1
      <4> QED
        BY <2>7, <4>1
    <3>2. CASE s \in Chained
      <4>1. F = {} /\ C # {} /\ H = {} /\ s < a_count_max
        BY <2>4, <2>5, <2>6, <2>8, <2>9, <2>10, <3>2
      <4> QED
        BY <2>7, <4>1
    <3>3. CASE s \notin AllFree /\ s \notin Chained /\ \E t \in Threads : s \in Hands(t)
      <4>1. F = {} /\ C = {} /\ H # {} /\ s < a_count_max
        BY <2>4, <2>5, <2>6, <2>10, <3>3
      <4> QED
        BY <2>7, <4>1
    <3>4. CASE s \notin AllFree /\ s \notin Chained /\ \A t \in Threads : s \notin Hands(t)
      <4>1. F = {} /\ C = {} /\ H = {} /\ ~(s < a_count_max)
        BY <2>4, <2>5, <2>6, <2>10, <3>4
      <4> QED
        BY <2>7, <4>1
    <3> QED
      BY <3>1, <3>2, <3>3, <3>4
  <2> QED
    BY <2>11 DEF F, C, H
<1> QED
  BY <1>4 DEF SlotsAccounted, free, chain, held

(* SlotsAccounted.                                                         *)
THEOREM SlotsInOnePlace == Spec => []SlotsAccounted
<1>1. IInv => SlotsAccounted
  BY AccountedFor
<1> QED
  BY <1>1, Invariance, PTL

(* PersistentUsageExact.                                                   *)
THEOREM PersistentExact == Spec => []PersistentUsageExact
<1>1. IInv => PersistentUsageExact
  BY DEF IInv, TickInv, QuietInv, PersistentUsageExact
<1> QED
  BY <1>1, Invariance, PTL

-------------------------------------------------------------------------------
(* The refinement of KeyMap.  What seen holds at each step.                *)
SeenInv ==
  \A t \in Threads : IF call[t] = NoCall THEN seen[t] = {} ELSE map[call[t].key] \in seen[t]

(* Witness keeps it.                                                       *)
LEMMA SeenKept ==
  SeenInv /\ [Next]_vars => SeenInv'
<1> SUFFICES ASSUME SeenInv, [Next]_vars PROVE SeenInv'
  OBVIOUS
<1>1. CASE Witness
  BY <1>1 DEF Witness, SeenInv
<1>2. CASE UNCHANGED vars
  BY <1>2 DEF vars, SeenInv
<1> QED
  BY <1>1, <1>2 DEF Next, Finished

(* The abstract call of a thread.                                          *)
Bar(c, d) == IF c = NoCall THEN NoCall ELSE [op |-> c.op, key |-> c.key, done |-> d]

(* The abstract calls are those of Bar, before and after the step.         *)
LEMMA BarIs ==
  /\ CallBar = [t \in Threads |-> Bar(call[t], done(t))]
  /\ CallBar' = [t \in Threads |-> Bar(call'[t], done(t)')]
  BY DEF CallBar, Bar

(* A step that shows nothing of itself.                                    *)
LEMMA Stutters ==
  ASSUME IInv, SeenInv, Witness, map' = map, call' = call, result' = result,
         \A t \in Threads : done(t)' = done(t)
  PROVE  UNCHANGED Abstract!mapVars
<1>1. CallBar' = CallBar
  BY BarIs
<1>2. seen' = seen
  <2>1. seen \in [Threads -> SUBSET Pointers]
    BY DEF IInv, Types, MapTypes
  <2>2. \A t \in Threads : seen'[t] = seen[t]
    BY DEF Witness, SeenInv
  <2>3. seen' \in [Threads -> SUBSET Pointers]
    BY <2>1, <2>2 DEF Witness
  <2> QED
    BY <2>1, <2>2, <2>3
<1> QED
  BY <1>1, <1>2 DEF Abstract!mapVars

(* A step within a call that neither links nor marks its node.             *)
LEMMA SetStutters ==
  ASSUME IInv, SeenInv, Witness, map' = map, call' = call, result' = result,
         NEW u \in Threads, local[u].pc # "added", NEW ch, Set(u, ch),
         "marked" \notin DOMAIN ch, "pc" \in DOMAIN ch => ch.pc # "added"
  PROVE  UNCHANGED Abstract!mapVars
<1>1. /\ DOMAIN local = Threads /\ DOMAIN local[u] = Fields
  BY DEF IInv, Types, ThreadTypes, LocalTypes
<1>2. local'[u] = [f \in Fields |-> IF f \in DOMAIN ch THEN ch[f] ELSE local[u][f]]
  BY <1>1 DEF Set
<1>3. \A t \in Threads \ {u} : local'[t] = local[t]
  BY <1>1 DEF Set
<1>4. local'[u].marked = local[u].marked
  BY <1>2 DEF Fields
<1>5. local'[u].pc # "added"
  BY <1>2 DEF Fields
<1>6. ASSUME NEW t \in Threads PROVE done(t)' = done(t)
  <2>1. CASE t # u
    BY <1>3, <2>1 DEF done, At
  <2>2. CASE t = u
    <3>1. CASE call[u].op = "add"
      BY <1>5, <2>2, <3>1 DEF done, At
    <3>2. CASE call[u].op # "add"
      BY <1>4, <2>2, <3>2 DEF done
    <3> QED
      BY <3>1, <3>2
  <2> QED
    BY <2>1, <2>2
<1> QED
  BY <1>6, Stutters

(* A call begins.                                                          *)
LEMMA StartBegins ==
  ASSUME IInv, IInv', SeenInv, Witness, NEW u \in Threads, call[u] = NoCall,
         NEW op \in Ops, NEW k \in Keys, NEW s, Start(u, op, k, s), UNCHANGED mapped
  PROVE  Abstract!MapNext
<1>0. /\ DOMAIN local = Threads /\ DOMAIN call = Threads /\ DOMAIN result = Threads
      /\ seen \in [Threads -> SUBSET Pointers]
  BY DEF IInv, Types, ThreadTypes, MapTypes
<1> DEFINE c == [op |-> op, key |-> k]
<1>1. /\ map' = map /\ call' = [call EXCEPT ![u] = c] /\ result' = [result EXCEPT ![u] = None]
      /\ c # NoCall
  <2>1. c.op # NoCall.op
    BY DEF Ops, NoCall
  <2> QED
    BY <2>1 DEF Witness, Start
<1>2. /\ \A t \in Threads \ {u} : local'[t] = local[t] /\ call'[t] = call[t]
      /\ call'[u] = c
  BY <1>0, <1>1 DEF Start
<1>3. ~done(u)'
  <2>1. op = "add" => local'[u].pc = "pop"
    BY <1>0 DEF Start, Idle
  <2>2. op # "add" => ~local'[u].marked
    <3>1. Idle.marked = FALSE
      BY DEF Idle
    <3>2. op # "add" => local'[u].marked = Idle.marked
      BY <1>0 DEF Start, Idle
    <3> QED
      BY <3>1, <3>2
  <2> QED
    BY <1>2, <2>1, <2>2 DEF done, At
<1>4. CallBar' = [CallBar EXCEPT ![u] = [op |-> op, key |-> k, done |-> FALSE]]
  <2>1. \A t \in Threads \ {u} : done(t)' = done(t)
    BY <1>2 DEF done, At
  <2>2. done(u)' = FALSE
    <3>1. done(u)' \in BOOLEAN
      BY <1>2 DEF done, At, IInv, Types, ThreadTypes, LocalTypes
    <3> QED
      BY <1>3, <3>1
  <2>3. Bar(call'[u], done(u)') = [op |-> op, key |-> k, done |-> FALSE]
    <3>1. Bar(c, FALSE) = [op |-> op, key |-> k, done |-> FALSE]
      BY <1>1 DEF Bar
    <3> HIDE DEF c
    <3> QED
      BY <1>2, <2>2, <3>1, Zenon
  <2>4. \A t \in Threads \ {u} : Bar(call'[t], done(t)') = Bar(call[t], done(t))
    BY <1>2, <2>1
  <2> QED
    BY <2>3, <2>4, BarIs
<1>5. seen' = [seen EXCEPT ![u] = {map[k]}]
  <2>1. seen'[u] = {map[k]}
    BY <1>1, <1>2 DEF Witness
  <2>2. \A t \in Threads \ {u} : seen'[t] = seen[t]
    BY <1>1, <1>2 DEF Witness, SeenInv
  <2> QED
    BY <1>0, <2>1, <2>2 DEF Witness
<1>6. CallBar[u] = Abstract!NoCall
  BY BarIs DEF Bar, Abstract!NoCall, NoCall
<1>7. ASSUME op # "lookup" PROVE (\A t \in Threads : ~Abstract!Writes(t, k)) /\ (op = "add") = (map[k] = None)
  <2>1. ASSUME NEW t \in Threads, Abstract!Writes(t, k) PROVE FALSE
    <3>1. CallBar[t].op \in {"add", "remove"} /\ CallBar[t].key = k
      BY <2>1 DEF Abstract!Writes
    <3>2. call[t] # NoCall /\ call[t].op \in {"add", "remove"} /\ call[t].key = k
      BY <3>1, BarIs DEF Bar, NoCall
    <3>3. t # u /\ call'[t] = call[t]
      BY <1>2, <3>2
    <3>4. Writer(t)' /\ Writer(u)' /\ call'[t].key = call'[u].key
      BY <1>2, <1>7, <3>2, <3>3 DEF Writer, Ops
    <3> QED
      BY <3>3, <3>4 DEF IInv, WriterInv
  <2>2. AddInv(u)' /\ RemoveInv(u)'
    BY DEF IInv, ThreadInv
  <2>3. op = "add" => map[k] = None
    <3>1. op = "add" => local'[u].pc # "added"
      BY <1>2, <1>3 DEF done, At
    <3> QED
      BY <1>1, <1>2, <2>2, <3>1 DEF AddInv
  <2>4. op = "remove" => map[k] # None
    <3>1. op = "remove" => ~local'[u].marked
      BY <1>2, <1>3 DEF done
    <3>2. op = "remove" => map'[k] = local'[u].slot /\ local'[u].slot \in Slots
      BY <1>2, <2>2, <3>1 DEF RemoveInv
    <3> QED
      BY <1>1, <3>2, SlotFacts
  <2> QED
    BY <1>7, <2>1, <2>3, <2>4 DEF Ops
<1>8. Abstract!Begin(u, op, k)
  BY <1>1, <1>4, <1>5, <1>6, <1>7 DEF Abstract!Begin
<1> QED
  BY <1>8 DEF Abstract!MapNext, Abstract!Ops, Ops

(* An addition links its node, or a removal marks it.                      *)
LEMMA TakesEffect ==
  ASSUME IInv, SeenInv, Witness, NEW u \in Threads, call[u].op \in {"add", "remove"},
         ~done(u), done(u)' = TRUE, \A t \in Threads \ {u} : local'[t] = local[t],
         NEW s, s \in IF call[u].op = "add" THEN Slots ELSE {None},
         \A k \in Keys : s # None => map[k] # s,
         map' = [map EXCEPT ![call[u].key] = s], call' = call, result' = result
  PROVE  Abstract!MapNext
<1> DEFINE k == call[u].key
<1>0. /\ seen \in [Threads -> SUBSET Pointers] /\ map \in [Keys -> Pointers]
      /\ call[u] # NoCall /\ k \in Keys
      /\ \A t \in Threads : call[t] # NoCall => call[t].key \in Keys
  BY PlaceFacts DEF IInv, Types, MapTypes, Ops, Busy, ThreadTypes, CallTypes, Calls
<1>1. CallBar[u].op = call[u].op /\ CallBar[u].key = k /\ CallBar[u].done = done(u)
  <2>1. CallBar[u] = [op |-> call[u].op, key |-> k, done |-> done(u)]
    BY <1>0 DEF CallBar
  <2>2. ASSUME NEW d PROVE [op |-> call[u].op, key |-> k, done |-> d].done = d
    OBVIOUS
  <2>3. CallBar[u].done = done(u)
    BY <2>1, <2>2, Zenon
  <2> QED
    BY <2>1, <2>3
<1>2. \A t \in Threads : (CallBar[t] # Abstract!NoCall) = (call[t] # NoCall)
  <2> SUFFICES ASSUME NEW t \in Threads PROVE (CallBar[t] # Abstract!NoCall) = (call[t] # NoCall)
    OBVIOUS
  <2>1. CASE call[t] = NoCall
    BY <2>1, BarIs DEF Bar, Abstract!NoCall, NoCall
  <2>2. CASE call[t] # NoCall
    <3>1. CallBar[t] = [op |-> call[t].op, key |-> call[t].key, done |-> done(t)]
      BY <2>2 DEF CallBar
    <3>2. DOMAIN CallBar[t] = {"op", "key", "done"}
      BY <3>1
    <3>3. DOMAIN Abstract!NoCall = {"op"}
      BY DEF Abstract!NoCall
    <3>4. CallBar[t] # Abstract!NoCall
      BY <3>2, <3>3
    <3> QED
      BY <2>2, <3>4
  <2> QED
    BY <2>1, <2>2
<1>3. \A t \in Threads : call[t] # NoCall => CallBar[t].key = call[t].key
  BY DEF CallBar
<1>4. seen' = [t \in Threads |-> IF CallBar[t] # Abstract!NoCall /\ CallBar[t].key = CallBar[u].key
                                 THEN seen[t] \union {s} ELSE seen[t]]
  <2>1. \A t \in Threads : seen'[t] = IF call[t] # NoCall /\ call[t].key = k
                                      THEN seen[t] \union {s} ELSE seen[t]
    <3> SUFFICES ASSUME NEW t \in Threads
                 PROVE  seen'[t] = IF call[t] # NoCall /\ call[t].key = k
                                   THEN seen[t] \union {s} ELSE seen[t]
      OBVIOUS
    <3>1. CASE call[t] = NoCall
      BY <3>1 DEF Witness, SeenInv
    <3>2. CASE call[t] # NoCall
      <4>1. seen'[t] = seen[t] \union {map'[call[t].key]} /\ map[call[t].key] \in seen[t]
        BY <3>2 DEF Witness, SeenInv
      <4>2. map'[call[t].key] = IF call[t].key = k THEN s ELSE map[call[t].key]
        BY <1>0, <3>2
      <4> QED
        BY <3>2, <4>1, <4>2
    <3> QED
      BY <3>1, <3>2
  <2>2. \A t \in Threads : (CallBar[t] # Abstract!NoCall /\ CallBar[t].key = CallBar[u].key)
                             <=> (call[t] # NoCall /\ call[t].key = k)
    BY <1>1, <1>2, <1>3
  <2>3. seen' = [t \in Threads |-> seen'[t]]
    BY DEF Witness
  <2> QED
    BY <2>1, <2>2, <2>3
<1>5. CallBar' = [CallBar EXCEPT ![u].done = TRUE]
  <2>1. \A t \in Threads \ {u} : done(t)' = done(t)
    BY DEF done, At
  <2>2. \A t \in Threads \ {u} : Bar(call'[t], done(t)') = Bar(call[t], done(t))
    BY <2>1
  <2>3. Bar(call'[u], done(u)') = [Bar(call[u], done(u)) EXCEPT !.done = TRUE]
    <3>1. ASSUME NEW c, c # NoCall, NEW d, NEW e PROVE Bar(c, e) = [Bar(c, d) EXCEPT !.done = e]
      BY <3>1 DEF Bar
    <3>2. PICK e : e = TRUE
      OBVIOUS
    <3>3. Bar(call[u], e) = [Bar(call[u], done(u)) EXCEPT !.done = e]
      BY <1>0, <3>1
    <3>4. Bar(call'[u], done(u)') = Bar(call[u], e)
      BY <3>2, Zenon
    <3> QED
      BY <3>2, <3>3, <3>4, Zenon
  <2> QED
    BY <2>2, <2>3, BarIs
<1>6. Abstract!TakeEffect(u)
  <2>1. CallBar[u].op \in {"add", "remove"} /\ ~CallBar[u].done
    <3>1. ~CallBar[u].done
      BY <1>1, Zenon
    <3> QED
      BY <1>1, <3>1
  <2>2. s \in IF CallBar[u].op = "add" THEN Slots ELSE {None}
    BY <1>1
  <2>3. map' = [map EXCEPT ![CallBar[u].key] = s]
    BY <1>1
  <2> QED
    BY <1>4, <1>5, <2>1, <2>2, <2>3 DEF Abstract!TakeEffect
<1> QED
  BY <1>6 DEF Abstract!MapNext

(* A call returns: its effect is over.                                     *)
LEMMA ReturnsOnce ==
  ASSUME IInv, SeenInv, Witness, NEW u \in Threads, Busy(u), NEW r, Return(u, r), UNCHANGED mapped,
         call[u].op = "lookup" => r \in seen[u],
         call[u].op = "add" => r = map[call[u].key],
         call[u].op # "lookup" => done(u)
  PROVE  Abstract!MapNext
<1>0. /\ DOMAIN local = Threads /\ DOMAIN call = Threads /\ DOMAIN result = Threads
      /\ seen \in [Threads -> SUBSET Pointers] /\ call[u] # NoCall
  BY DEF IInv, Types, ThreadTypes, MapTypes, Busy
<1>1. /\ map' = map /\ call' = [call EXCEPT ![u] = NoCall] /\ result' = [result EXCEPT ![u] = r]
      /\ \A t \in Threads \ {u} : local'[t] = local[t]
  BY <1>0 DEF Witness, Return
<1>2. CallBar' = [CallBar EXCEPT ![u] = Abstract!NoCall]
  <2>1. \A t \in Threads \ {u} : done(t)' = done(t)
    BY <1>0, <1>1 DEF done, At
  <2>2. \A t \in Threads \ {u} : Bar(call'[t], done(t)') = Bar(call[t], done(t))
    BY <1>0, <1>1, <2>1
  <2>3. Bar(call'[u], done(u)') = Abstract!NoCall
    BY <1>0, <1>1 DEF Bar, Abstract!NoCall, NoCall
  <2> QED
    BY <2>2, <2>3, BarIs
<1>3. seen' = [seen EXCEPT ![u] = {}]
  <2>1. seen'[u] = {}
    BY <1>0, <1>1 DEF Witness
  <2>2. \A t \in Threads \ {u} : seen'[t] = seen[t]
    BY <1>0, <1>1 DEF Witness, SeenInv
  <2> QED
    BY <1>0, <2>1, <2>2 DEF Witness
<1>4. CallBar[u] = Bar(call[u], done(u)) /\ CallBar[u].op = call[u].op /\ CallBar[u].key = call[u].key
  BY <1>0, BarIs DEF Bar
<1>5. call[u].op # "lookup" => CallBar[u].done
  <2>1. ASSUME NEW c, c # NoCall, NEW d, d PROVE Bar(c, d).done
    <3>1. [op |-> c.op, key |-> c.key, done |-> d].done = d
      OBVIOUS
    <3>2. Bar(c, d) = [op |-> c.op, key |-> c.key, done |-> d]
      BY <2>1, Zenon DEF Bar
    <3> QED
      BY <2>1, <3>1, <3>2, Zenon
  <2> QED
    BY <1>0, <1>4, <2>1, Zenon
<1>6. CallBar[u] # Abstract!NoCall
  <2>1. CallBar[u] = [op |-> call[u].op, key |-> call[u].key, done |-> done(u)]
    BY <1>0 DEF CallBar
  <2>2. DOMAIN CallBar[u] = {"op", "key", "done"}
    BY <2>1
  <2>3. DOMAIN Abstract!NoCall = {"op"}
    BY DEF Abstract!NoCall
  <2> QED
    BY <2>2, <2>3
<1>7. result'[u] = r /\ \A t \in Threads \ {u} : result'[t] = result[t]
  BY <1>0, <1>1
<1>8. Abstract!Return(u)
  BY <1>1, <1>2, <1>3, <1>4, <1>5, <1>6, <1>7 DEF Abstract!Return
<1> QED
  BY <1>8 DEF Abstract!MapNext

(* The same, if the words of the map stay too.                             *)
LEMMA LocalStutters ==
  ASSUME IInv, SeenInv, Witness, UNCHANGED <<mapped, call, result>>,
         NEW u \in Threads, local[u].pc # "added", NEW ch, Set(u, ch),
         "marked" \notin DOMAIN ch, "pc" \in DOMAIN ch => ch.pc # "added"
  PROVE  UNCHANGED Abstract!mapVars
<1>1. map' = map
  BY DEF Witness
<1> QED
  BY <1>1, SetStutters

(* A search that starts over shows nothing.                                *)
LEMMA RestartStutters ==
  ASSUME IInv, SeenInv, Witness, UNCHANGED <<mapped, call, result>>,
         NEW u \in Threads, local[u].pc # "added", NEW again, Set(u, Restart(u, again))
  PROVE  UNCHANGED Abstract!mapVars
<1> DEFINE ch == Restart(u, again)
<1>1. DOMAIN ch = {"pc", "prev", "sprev", "again"} /\ ch.pc = "follow"
  BY DEF Restart
<1>2. "marked" \notin DOMAIN ch /\ ch.pc # "added"
  BY <1>1
<1> HIDE DEF ch
<1>3. Set(u, ch)
  BY DEF ch
<1> QED
  BY <1>2, <1>3, LocalStutters

(* The steps of a search show nothing.                                     *)
LEMMA FindStutters ==
  ASSUME IInv, SeenInv, Witness, NEW u \in Threads, Find(u)
  PROVE  UNCHANGED Abstract!mapVars
<1>1. CASE FindFollow(u)
  <2> DEFINE ch == [pc |-> "check", scur |-> link[local[u].sprev.next]]
  <2>1. Set(u, ch) /\ UNCHANGED <<mapped, call, result>> /\ local[u].pc # "added"
    BY <1>1 DEF FindFollow, At, mapped
  <2>2. "marked" \notin DOMAIN ch /\ ch.pc # "added"
    OBVIOUS
  <2> HIDE DEF ch
  <2> QED
    BY <2>1, <2>2, LocalStutters
<1>2. CASE FindCheck(u)
  <2>1. UNCHANGED <<mapped, call, result>> /\ local[u].pc # "added"
    BY <1>2 DEF FindCheck, At, mapped
  <2>2. CASE PrevMoved(u)
    BY <1>2, <2>1, <2>2, RestartStutters DEF FindCheck, Again
  <2>3. CASE ~PrevMoved(u)
    <3> DEFINE ch == [pc |-> IF local[u].scur.marked THEN "unlink" ELSE "compare"]
    <3>1. Set(u, ch)
      BY <1>2, <2>3 DEF FindCheck
    <3>2. "marked" \notin DOMAIN ch /\ ch.pc # "added"
      OBVIOUS
    <3> HIDE DEF ch
    <3> QED
      BY <2>1, <3>1, <3>2, LocalStutters
  <2> QED
    BY <2>2, <2>3
<1>3. CASE FindUnlink(u)
  <2>1. UNCHANGED <<key, call, result>> /\ local[u].pc # "added"
    BY <1>3 DEF FindUnlink, At
  <2>2. CASE PrevMoved(u)
    BY <1>3, <2>1, <2>2, RestartStutters DEF FindUnlink, Again, mapped
  <2>3. CASE ~PrevMoved(u)
    <3> DEFINE ch == [pc |-> "follow", sprev |-> Bypass(u)]
    <3>1. Set(u, ch)
      BY <1>3, <2>3 DEF FindUnlink
    <3>2. "marked" \notin DOMAIN ch /\ ch.pc # "added"
      OBVIOUS
    <3>3. map' = map
      BY <1>3, FindUnlinkKept
    <3> HIDE DEF ch
    <3> QED
      BY <2>1, <3>1, <3>2, <3>3, SetStutters
  <2> QED
    BY <2>2, <2>3
<1>4. CASE FindCompare(u)
  <2>1. PICK hit : Set(u, [pc |-> "recheck", hit |-> hit])
    BY <1>4 DEF FindCompare
  <2> DEFINE ch == [pc |-> "recheck", hit |-> hit]
  <2>2. UNCHANGED <<mapped, call, result>> /\ local[u].pc # "added"
    BY <1>4 DEF FindCompare, At, mapped
  <2>3. "marked" \notin DOMAIN ch /\ ch.pc # "added"
    OBVIOUS
  <2>4. Set(u, ch)
    BY <2>1
  <2> HIDE DEF ch
  <2> QED
    BY <2>2, <2>3, <2>4, LocalStutters
<1>5. CASE FindAdvance(u)
  <2>1. UNCHANGED <<mapped, call, result>> /\ local[u].pc # "added"
    BY <1>5 DEF FindAdvance, At, mapped
  <2>2. CASE Recheck(u)
    BY <1>5, <2>1, <2>2, RestartStutters DEF FindAdvance, Again
  <2>3. CASE ~Recheck(u)
    <3> DEFINE ch == [pc |-> "follow", prev |-> local[u].sprev.next, sprev |-> local[u].scur]
    <3>1. Set(u, ch)
      BY <1>5, <2>3 DEF FindAdvance
    <3>2. "marked" \notin DOMAIN ch /\ ch.pc # "added"
      OBVIOUS
    <3> HIDE DEF ch
    <3> QED
      BY <2>1, <3>1, <3>2, LocalStutters
  <2> QED
    BY <2>2, <2>3
<1> QED
  BY <1>1, <1>2, <1>3, <1>4, <1>5 DEF Find

(* Nor do those of a pop.                                                  *)
LEMMA PoppedStutters ==
  ASSUME IInv, SeenInv, Witness, UNCHANGED <<mapped, call, result>>,
         NEW u \in Threads, local[u].pc # "added", NEW top, Popped(u, top)
  PROVE  UNCHANGED Abstract!mapVars
<1>1. CASE Set(u, [pc |-> "under", top |-> top])
  <2> DEFINE ch == [pc |-> "under", top |-> top]
  <2>1. Set(u, ch) /\ "marked" \notin DOMAIN ch /\ ch.pc # "added"
    BY <1>1
  <2> HIDE DEF ch
  <2> QED
    BY <2>1, LocalStutters
<1>2. ASSUME NEW w \in Threads, Set(u, [pc |-> "pop", from |-> w, tries |-> local[u].tries + 1])
      PROVE  UNCHANGED Abstract!mapVars
  <2> DEFINE ch == [pc |-> "pop", from |-> w, tries |-> local[u].tries + 1]
  <2>1. Set(u, ch) /\ "marked" \notin DOMAIN ch /\ ch.pc # "added"
    BY <1>2
  <2> HIDE DEF ch
  <2> QED
    BY <2>1, LocalStutters
<1>3. CASE Set(u, [pc |-> "increment"])
  <2> DEFINE ch == [pc |-> "increment"]
  <2>1. Set(u, ch) /\ "marked" \notin DOMAIN ch /\ ch.pc # "added"
    BY <1>3
  <2> HIDE DEF ch
  <2> QED
    BY <2>1, LocalStutters
<1> QED
  BY <1>1, <1>2, <1>3 DEF Popped

(* A step of a pop shows nothing of itself.                                *)
LEMMA PopStutters ==
  ASSUME IInv, SeenInv, Witness, NEW u \in Threads, Pop(u)
  PROVE  UNCHANGED Abstract!mapVars
<1>1. UNCHANGED <<mapped, call, result>> /\ local[u].pc # "added"
  BY DEF Pop, PopLoad, PopUnder, PopTake, At, mapped
<1>2. CASE PopLoad(u)
  BY <1>1, <1>2, PoppedStutters DEF PopLoad
<1>3. CASE PopUnder(u)
  <2> DEFINE ch == [pc |-> "take", under |-> tail[local[u].top.at]]
  <2>1. Set(u, ch) /\ "marked" \notin DOMAIN ch /\ ch.pc # "added"
    BY <1>3 DEF PopUnder
  <2> HIDE DEF ch
  <2> QED
    BY <1>1, <2>1, LocalStutters
<1>4. CASE PopTake(u)
  <2>1. CASE SameTop(a_head[local[u].from], local[u].top)
    <3> DEFINE ch == [pc |-> "set_key", slot |-> local[u].top.at]
    <3>1. Set(u, ch) /\ "marked" \notin DOMAIN ch /\ ch.pc # "added"
      BY <1>4, <2>1 DEF PopTake
    <3> HIDE DEF ch
    <3> QED
      BY <1>1, <3>1, LocalStutters
  <2>2. CASE ~SameTop(a_head[local[u].from], local[u].top)
    <3>1. Popped(u, a_head[local[u].from])
      BY <1>4, <2>2 DEF PopTake
    <3> QED
      BY <1>1, <3>1, PoppedStutters
  <2> QED
    BY <2>1, <2>2
<1> QED
  BY <1>2, <1>3, <1>4 DEF Pop

(* Nor does the growth of the pool.                                        *)
LEMMA SlotStutters ==
  ASSUME IInv, SeenInv, Witness, NEW u \in Threads, NewSlot(u)
  PROVE  UNCHANGED Abstract!mapVars
<1>1. UNCHANGED <<mapped, call, result>> /\ local[u].pc # "added"
  BY DEF NewSlot, Increment, CheckLength, LockGrow, Grow, UnlockGrow, At, mapped
<1>2. CASE Increment(u)
  <2> DEFINE ch == [pc |-> "length", slot |-> a_count_max]
  <2>1. Set(u, ch) /\ "marked" \notin DOMAIN ch /\ ch.pc # "added"
    BY <1>2 DEF Increment
  <2> HIDE DEF ch
  <2> QED
    BY <1>1, <2>1, LocalStutters
<1>3. CASE ~Increment(u)
  <2>1. ASSUME NEW pc, pc # "added", Set(u, [pc |-> pc]) PROVE UNCHANGED Abstract!mapVars
    <3> DEFINE ch == [pc |-> pc]
    <3>1. Set(u, ch) /\ "marked" \notin DOMAIN ch /\ ch.pc # "added"
      BY <2>1
    <3> HIDE DEF ch
    <3> QED
      BY <1>1, <3>1, LocalStutters
  <2>2. CASE CheckLength(u)
    <3> DEFINE pc == IF local[u].slot < a_length THEN "set_key" ELSE "lock"
    <3>1. Set(u, [pc |-> pc]) /\ pc # "added"
      BY <2>2 DEF CheckLength
    <3> HIDE DEF pc
    <3> QED
      BY <2>1, <3>1
  <2>3. CASE LockGrow(u)
    <3> DEFINE pc == IF a_adding_memory THEN "length" ELSE "grow"
    <3>1. Set(u, [pc |-> pc]) /\ pc # "added"
      BY <2>3 DEF LockGrow
    <3> HIDE DEF pc
    <3> QED
      BY <2>1, <3>1
  <2>4. CASE Grow(u)
    <3> DEFINE pc == "unlock"
    <3>1. Set(u, [pc |-> pc]) /\ pc # "added"
      BY <2>4 DEF Grow
    <3> HIDE DEF pc
    <3> QED
      BY <2>1, <3>1
  <2>5. CASE UnlockGrow(u)
    <3> DEFINE pc == "length"
    <3>1. Set(u, [pc |-> pc]) /\ pc # "added"
      BY <2>5 DEF UnlockGrow
    <3> HIDE DEF pc
    <3> QED
      BY <2>1, <3>1
  <2> QED
    BY <1>3, <2>2, <2>3, <2>4, <2>5 DEF NewSlot
<1> QED
  BY <1>2, <1>3

(* A lookup returns what it has seen.                                      *)
LEMMA LookupReturns ==
  ASSUME IInv, SeenInv, Witness, NEW u \in Threads, LookupReturn(u)
  PROVE  Abstract!MapNext
<1>1. call[u].op = "lookup" /\ UNCHANGED mapped /\ Busy(u)
  BY PlaceFacts DEF LookupReturn, IInv, Types, Ops
<1>2. CASE Found(u) /\ Return(u, local[u].sprev.next)
  <2>1. LookupInv(u) /\ local[u].pc = "recheck"
    BY <1>2 DEF Found, At, IInv, ThreadInv
  <2>2. local[u].sprev.next \in seen[u]
    BY <1>1, <1>2, <2>1, FoundFacts DEF LookupInv, ReadPcs
  <2> QED
    BY <1>1, <1>2, <2>2, ReturnsOnce
<1>3. CASE NotFound(u) /\ Return(u, None)
  BY <1>1, <1>3, MissSeen, ReturnsOnce
<1> QED
  BY <1>1, <1>2, <1>3 DEF LookupReturn

(* The addition: only the exchange of the bucket and the return show.      *)
LEMMA AddImplements ==
  ASSUME IInv, IInv', SeenInv, Witness, NEW u \in Threads, Add(u)
  PROVE  Abstract!MapNext \/ UNCHANGED Abstract!mapVars
<1>1. CASE AddKey(u)
  <2> DEFINE ch == [pc |-> "store", tag |-> TagUp(link[local[u].slot]), head |-> link[Hash[call[u].key]]]
  <2>1. Set(u, ch) /\ "marked" \notin DOMAIN ch /\ ch.pc # "added"
    BY <1>1 DEF AddKey
  <2>2. call' = call /\ result' = result /\ map' = map /\ local[u].pc # "added"
    BY <1>1, KeyKept DEF AddKey, At
  <2> HIDE DEF ch
  <2> QED
    BY <2>1, <2>2, SetStutters
<1>2. CASE AddStore(u)
  <2> DEFINE ch == [pc |-> "link"]
  <2>1. Set(u, ch) /\ "marked" \notin DOMAIN ch /\ ch.pc # "added"
    BY <1>2 DEF AddStore
  <2>2. call' = call /\ result' = result /\ map' = map /\ local[u].pc # "added"
    BY <1>2, StoreKept DEF AddStore, At
  <2> HIDE DEF ch
  <2> QED
    BY <2>1, <2>2, SetStutters
<1>3. CASE AddLink(u) /\ link[Hash[call[u].key]] # local[u].head
  <2> DEFINE ch == [pc |-> "store", head |-> link[Hash[call[u].key]]]
  <2>1. Set(u, ch) /\ "marked" \notin DOMAIN ch /\ ch.pc # "added"
    BY <1>3 DEF AddLink
  <2>2. call' = call /\ result' = result /\ map' = map /\ local[u].pc # "added"
    BY <1>3, LinkFailedKept DEF AddLink, At
  <2> HIDE DEF ch
  <2> QED
    BY <2>1, <2>2, SetStutters
<1>4. CASE AddLink(u) /\ link[Hash[call[u].key]] = local[u].head
  <2> DEFINE s == local[u].slot
  <2>1. Set(u, [pc |-> "added"]) /\ call' = call /\ result' = result /\ local[u].pc = "link"
    BY <1>4 DEF AddLink, At
  <2>2. /\ s \in Slots /\ s \notin Chained /\ call[u].op = "add"
        /\ DOMAIN local = Threads /\ LocalTypes(u)
        /\ MapIs(map)
    BY <2>1, OwnFacts
  <2>3. map' = [map EXCEPT ![call[u].key] = s]
    BY <1>4, LinkedKept
  <2>4. \A t \in Threads \ {u} : local'[t] = local[t]
    BY <2>1, <2>2 DEF Set
  <2>5. local'[u].pc = "added"
    BY <2>1, <2>2 DEF Set, LocalTypes, Fields
  <2>6. done(u)' = TRUE /\ ~done(u)
    BY <2>1, <2>2, <2>5 DEF done, At
  <2>7. \A k \in Keys : map[k] # s
    <3>1. \A k \in Keys : map[k] # None => map[k] \in Chained
      BY <2>2, ReachFacts, CacheAssumption DEF MapIs, Holds, IInv, Types
    <3> QED
      BY <2>2, <3>1, SlotFacts
  <2>8. s \in IF call[u].op = "add" THEN Slots ELSE {None}
    BY <2>2
  <2> HIDE DEF s
  <2> QED
    BY <2>1, <2>2, <2>3, <2>4, <2>6, <2>7, <2>8, TakesEffect
<1>5. CASE AddReturn(u)
  <2>1. /\ local[u].pc = "added" /\ Return(u, local[u].slot) /\ UNCHANGED mapped
    BY <1>5 DEF AddReturn, At
  <2>2. call[u].op = "add" /\ Busy(u) /\ AddInv(u)
    BY <2>1, PlaceFacts DEF IInv, Types, ThreadInv, AddPcs
  <2>3. local[u].slot = map[call[u].key] /\ done(u)
    BY <2>1, <2>2 DEF AddInv, done, At
  <2> QED
    BY <2>1, <2>2, <2>3, ReturnsOnce
<1> QED
  BY <1>1, <1>2, <1>3, <1>4, <1>5 DEF Add

(* The removal: only the mark and the return show.                         *)
LEMMA RemoveImplements ==
  ASSUME IInv, IInv', SeenInv, Witness, NEW u \in Threads, Remove(u)
  PROVE  Abstract!MapNext \/ UNCHANGED Abstract!mapVars
<1>0. /\ local[u].pc \in {"mark", "bypass", "look", "push", "release"} => call[u].op = "remove"
      /\ call[u].op = "remove" => Busy(u) /\ local[u].pc # "added"
      /\ DOMAIN local = Threads /\ LocalTypes(u)
  BY PlaceFacts DEF IInv, Types, ThreadTypes, Ops, AddPcs
<1>1. CASE Mark(u) /\ link[local[u].sprev.next] # local[u].scur
  <2>1. Set(u, Restart(u, local[u].again)) /\ UNCHANGED <<mapped, call, result>> /\ local[u].pc # "added"
    BY <1>1 DEF Mark, Again, At, mapped
  <2> QED
    BY <2>1, RestartStutters
<1>2. CASE Mark(u) /\ link[local[u].sprev.next] = local[u].scur
  <2>1. /\ Set(u, [pc |-> "bypass", marked |-> TRUE]) /\ call' = call /\ result' = result
        /\ local[u].pc = "mark"
    BY <1>2 DEF Mark, At
  <2>2. map' = [map EXCEPT ![call[u].key] = None]
    BY <1>2, MarkKept
  <2>3. call[u].op = "remove" /\ ~local[u].marked
    BY <1>0, <2>1 DEF IInv, ThreadInv, RemoveInv
  <2>4. \A t \in Threads \ {u} : local'[t] = local[t]
    BY <1>0, <2>1 DEF Set
  <2>5. local'[u].marked = TRUE
    <3> DEFINE ch == [pc |-> "bypass", marked |-> TRUE]
    <3>1. local'[u].marked = IF "marked" \in DOMAIN ch THEN ch["marked"] ELSE local[u].marked
      <4> HIDE DEF ch
      <4>1. Set(u, ch)
        BY <2>1 DEF ch
      <4> QED
        BY <1>0, <4>1 DEF Set, LocalTypes, Fields
    <3>2. "marked" \in DOMAIN ch
      OBVIOUS
    <3>3. ch["marked"] = TRUE
      OBVIOUS
    <3> HIDE DEF ch
    <3> QED
      BY <3>1, <3>2, <3>3, Zenon
  <2>6. done(u)' = TRUE
    <3>1. done(u)' = local'[u].marked
      BY <2>1, <2>3 DEF done
    <3> QED
      BY <2>5, <3>1, Zenon
  <2>7. ~done(u)
    BY <2>3 DEF done
  <2>8. None \in IF call[u].op = "add" THEN Slots ELSE {None}
    BY <2>3
  <2> QED
    BY <2>1, <2>2, <2>3, <2>4, <2>6, <2>7, <2>8, TakesEffect
<1>3. CASE RemoveBypass(u)
  <2>1. key' = key /\ call' = call /\ result' = result /\ local[u].pc # "added" /\ map' = map
    BY <1>3, BypassKept DEF RemoveBypass, At
  <2>2. CASE PrevMoved(u)
    BY <1>3, <2>1, <2>2, RestartStutters DEF RemoveBypass, AfterLostBypass, mapped
  <2>3. CASE ~PrevMoved(u)
    <3> DEFINE ch == [pc |-> "look"]
    <3>1. Set(u, ch) /\ "marked" \notin DOMAIN ch /\ ch.pc # "added"
      BY <1>3, <2>3 DEF RemoveBypass
    <3> HIDE DEF ch
    <3> QED
      BY <2>1, <3>1, SetStutters
  <2> QED
    BY <2>2, <2>3
<1>4. CASE RemoveSearched(u)
  <2> DEFINE pc == IF local[u].again THEN "look" ELSE IF Found(u) THEN "mark" ELSE "push"
             ch == [pc |-> pc]
  <2>1. Set(u, ch) /\ UNCHANGED <<mapped, call, result>> /\ local[u].pc # "added"
    BY <1>0, <1>4 DEF RemoveSearched, mapped
  <2>2. pc # "added"
    OBVIOUS
  <2> HIDE DEF pc
  <2>3. "marked" \notin DOMAIN ch /\ ch.pc # "added"
    BY <2>2
  <2> HIDE DEF ch
  <2> QED
    BY <2>1, <2>3, LocalStutters
<1>5. CASE RemoveLook(u)
  <2>1. Set(u, Restart(u, FALSE)) /\ UNCHANGED <<mapped, call, result>> /\ local[u].pc # "added"
    BY <1>5 DEF RemoveLook, At, mapped
  <2> QED
    BY <2>1, RestartStutters
<1>6. CASE PushLoad(u)
  <2> DEFINE ch == [pc |-> "release"]
  <2>1. Set(u, ch) /\ "marked" \notin DOMAIN ch /\ ch.pc # "added"
    BY <1>6 DEF PushLoad
  <2>2. UNCHANGED <<mapped, call, result>> /\ local[u].pc # "added"
    BY <1>6 DEF PushLoad, At, mapped
  <2> HIDE DEF ch
  <2> QED
    BY <2>1, <2>2, LocalStutters
<1>7. CASE PushTop(u) /\ a_head[u] = tail[local[u].slot]
  <2>1. Return(u, None) /\ UNCHANGED mapped /\ local[u].pc = "release"
    BY <1>7 DEF PushTop, At
  <2>2. call[u].op = "remove" /\ Busy(u) /\ local[u].marked
    BY <1>0, <2>1 DEF IInv, ThreadInv, RemoveInv
  <2>3. done(u)
    BY <2>2 DEF done
  <2> QED
    BY <2>1, <2>2, <2>3, ReturnsOnce
<1>8. CASE PushTop(u) /\ a_head[u] # tail[local[u].slot]
  <2>1. UNCHANGED <<local, mapped, call, result>>
    BY <1>8 DEF PushTop, mapped
  <2>2. map' = map /\ \A t \in Threads : done(t)' = done(t)
    BY <2>1 DEF Witness, done, At
  <2> QED
    BY <2>1, <2>2, Stutters
<1> QED
  BY <1>1, <1>2, <1>3, <1>4, <1>5, <1>6, <1>7, <1>8 DEF Remove

(* The clients begin calls.                                                *)
LEMMA ClientBegins ==
  ASSUME IInv, IInv', SeenInv, Witness, WarmCall \/ RemoveStale \/ \E t \in Threads : FreeCall(t) \/ Task(t)
  PROVE  Abstract!MapNext
<1>0. Main \in Threads /\ Types
  BY CacheAssumption DEF IInv
<1>1. CASE WarmCall
  <2> DEFINE c == Warm[calls + 1]
  <2>1. /\ Start(Main, c.op, c.key, map[c.key]) /\ UNCHANGED mapped /\ call[Main] = NoCall
        /\ calls < Len(Warm)
    BY <1>0, <1>1, IdleFacts DEF WarmCall, At
  <2>2. c.op \in Ops /\ c.key \in Keys
    BY <1>0, <2>1, WarmCalls DEF Types
  <2> HIDE DEF c
  <2> QED
    BY <1>0, <2>1, <2>2, StartBegins
<1>2. CASE RemoveStale
  <2> DEFINE s == Min(stale)
  <2>1. /\ Start(Main, "remove", key[s], s) /\ UNCHANGED mapped /\ call[Main] = NoCall
        /\ phase = "manage" /\ stale # {}
    BY <1>0, <1>2, IdleFacts DEF RemoveStale, At
  <2>2. s \in stale /\ stale \subseteq Chained
    <3>1. client = "ticks" /\ ManageInv
      BY <2>1 DEF IInv, TickInv
    <3>2. stale \in SUBSET Slots
      BY <1>0 DEF Types, OtherTypes
    <3> QED
      BY <2>1, <3>1, <3>2, LeastOf, SlotFacts DEF ManageInv
  <2>3. key[s] \in Keys
    <3>1. WordTypes /\ ListInv
      BY <1>0 DEF Types, IInv
    <3> QED
      BY <2>2, <3>1, ReachFacts DEF ListInv
  <2>4. "remove" \in Ops
    BY DEF Ops
  <2> HIDE DEF s
  <2> QED
    BY <1>0, <2>1, <2>3, <2>4, StartBegins
<1>3. ASSUME NEW t \in Threads, FreeCall(t) PROVE Abstract!MapNext
  <2>1. PICK op \in Ops, k \in Keys : Start(t, op, k, IF op = "remove" THEN map[k] ELSE None)
    BY <1>3 DEF FreeCall
  <2>2. UNCHANGED mapped /\ call[t] = NoCall
    BY <1>3, IdleFacts DEF FreeCall, At
  <2> QED
    BY <2>1, <2>2, StartBegins
<1>4. ASSUME NEW t \in Threads, TaskLookup(t) PROVE Abstract!MapNext
  <2>1. /\ Start(t, "lookup", Min(todo), None) /\ UNCHANGED mapped /\ call[t] = NoCall /\ todo # {}
    BY <1>4, IdleFacts DEF TaskLookup, At
  <2>2. Min(todo) \in Keys
    <3>1. todo \in SUBSET Keys /\ Keys \in SUBSET Nat
      BY <1>0, CacheAssumption DEF Types, OtherTypes
    <3> QED
      BY <2>1, <3>1, LeastOf
  <2>3. "lookup" \in Ops
    BY DEF Ops
  <2> QED
    BY <2>1, <2>2, <2>3, StartBegins
<1>5. ASSUME NEW t \in Threads, TaskAdd(t) PROVE Abstract!MapNext
  <2>1. /\ Start(t, "add", local[t].pair, None) /\ UNCHANGED mapped /\ call[t] = NoCall
        /\ local[t].pc = "task"
    BY <1>5, IdleFacts DEF TaskAdd, At
  <2>2. local[t].pair \in Keys
    <3>1. client = "ticks" /\ TasksInv
      BY <2>1 DEF IInv, TickInv, At, Types, OtherTypes
    <3> QED
      BY <2>1, <3>1 DEF TasksInv, At
  <2>3. "add" \in Ops
    BY DEF Ops
  <2> QED
    BY <2>1, <2>2, <2>3, StartBegins
<1> QED
  BY <1>1, <1>2, <1>3, <1>4, <1>5 DEF Task

(* The map is emptied.                                                     *)
LEMMA FlushClears ==
  ASSUME IInv, SeenInv, Witness, Flush
  PROVE  Abstract!MapNext
<1>1. \A t \in Threads : call[t] = NoCall
  BY IdleFacts DEF Flush, IInv, TickInv, QuietInv, At
<1>2. call' = call /\ local' = local /\ result' = result /\ map' = [k \in Keys |-> None]
  BY FlushKept DEF Flush
<1>3. \A t \in Threads : CallBar[t] = Abstract!NoCall
  BY <1>1, BarIs DEF Bar, Abstract!NoCall, NoCall
<1>4. CallBar' = CallBar
  <2>1. \A t \in Threads : done(t)' = done(t)
    BY <1>2 DEF done, At
  <2> QED
    BY <1>2, <2>1, BarIs
<1>5. seen' = seen
  <2>1. seen \in [Threads -> SUBSET Pointers]
    BY DEF IInv, Types, MapTypes
  <2>2. \A t \in Threads : seen'[t] = seen[t]
    BY <1>1, <1>2 DEF Witness, SeenInv
  <2> QED
    BY <2>1, <2>2 DEF Witness
<1>6. Abstract!Clear
  BY <1>2, <1>3, <1>4, <1>5 DEF Abstract!Clear
<1> QED
  BY <1>6 DEF Abstract!MapNext

(* The steps of the tick between its calls show nothing.                   *)
LEMMA TickStutters ==
  ASSUME IInv, SeenInv, Witness, TickStart \/ Evaluate \/ TickEnd
  PROVE  UNCHANGED Abstract!mapVars
<1>1. UNCHANGED <<local, mapped, call, result>>
  BY DEF TickStart, Evaluate, TickEnd, mapped
<1>2. map' = map /\ \A t \in Threads : done(t)' = done(t)
  BY <1>1 DEF Witness, done, At
<1> QED
  BY <1>1, <1>2, Stutters

(* Every step is a step of the abstract map, or shows nothing.             *)
LEMMA NextImplements ==
  IInv /\ IInv' /\ SeenInv /\ [Next]_vars => [Abstract!MapNext]_(Abstract!mapVars)
<1> SUFFICES ASSUME IInv, IInv', SeenInv, [Next]_vars
             PROVE  Abstract!MapNext \/ UNCHANGED Abstract!mapVars
  OBVIOUS
<1>1. ASSUME Witness, NEW t \in Threads, Step(t)
      PROVE  Abstract!MapNext \/ UNCHANGED Abstract!mapVars
  <2>1. CASE Find(t)
    BY <1>1, <2>1, FindStutters
  <2>2. CASE LookupReturn(t)
    BY <1>1, <2>2, LookupReturns
  <2>3. CASE Pop(t)
    BY <1>1, <2>3, PopStutters
  <2>4. CASE NewSlot(t)
    BY <1>1, <2>4, SlotStutters
  <2>5. CASE Add(t)
    BY <1>1, <2>5, AddImplements
  <2>6. CASE Remove(t)
    BY <1>1, <2>6, RemoveImplements
  <2>7. CASE FreeCall(t) \/ Task(t)
    BY <1>1, <2>7, ClientBegins
  <2> QED
    BY <1>1, <2>1, <2>2, <2>3, <2>4, <2>5, <2>6, <2>7 DEF Step
<1>2. CASE Witness /\ (WarmCall \/ RemoveStale)
  BY <1>2, ClientBegins
<1>3. CASE Witness /\ (TickStart \/ Evaluate \/ TickEnd)
  BY <1>3, TickStutters
<1>4. CASE Witness /\ Flush
  BY <1>4, FlushClears
<1>5. CASE UNCHANGED vars
  <2>1. UNCHANGED <<local, call, result, map, seen>>
    BY <1>5 DEF vars
  <2>2. CallBar' = CallBar
    BY <2>1 DEF CallBar, done, At
  <2> QED
    BY <2>1, <2>2 DEF Abstract!mapVars
<1> QED
  BY <1>1, <1>2, <1>3, <1>4, <1>5 DEF Next, Finished

(* The map starts empty.                                                   *)
LEMMA InitImplements ==
  Init => Abstract!MapInit /\ SeenInv
<1> SUFFICES ASSUME Init PROVE Abstract!MapInit /\ SeenInv
  OBVIOUS
<1>1. /\ call = [t \in Threads |-> NoCall] /\ result = [t \in Threads |-> None]
      /\ seen = [t \in Threads |-> {}]
  BY DEF Init, CacheInit
<1>2. CallBar = [t \in Threads |-> Abstract!NoCall]
  BY <1>1, BarIs DEF Bar, Abstract!NoCall, NoCall
<1>3. map = [k \in Keys |-> None]
  BY InitKept
<1> QED
  BY <1>1, <1>2, <1>3 DEF Abstract!MapInit, SeenInv

(* ImplementsKeyMap: the lists, searched and changed word by word, are the *)
(* map that the callers see. An addition takes effect when it exchanges    *)
(* the bucket, a removal when it marks its node, and a lookup returns what *)
(* the map held at some time during the call.                              *)
THEOREM Refinement == Spec => ImplementsKeyMap
<1>1. Init => Abstract!MapInit /\ SeenInv
  BY InitImplements
<1>2. SeenInv /\ [Next]_vars => SeenInv'
  BY SeenKept
<1>3. IInv /\ IInv' /\ SeenInv /\ [Next]_vars => [Abstract!MapNext]_(Abstract!mapVars)
  BY NextImplements
<1> QED
  BY <1>1, <1>2, <1>3, Invariance, PTL DEF Spec, ImplementsKeyMap, Abstract!MapSpec

-------------------------------------------------------------------------------
(* The memory of the pool.  The powers of two.                             *)
LEMMA PowerIs ==
  /\ Power = [d \in 0 .. MaxSlots |-> IF d = 0 THEN 1 ELSE 2 * Power[d - 1]]
  /\ Power \in [0 .. MaxSlots -> Nat] /\ Power[0] = 1
  /\ \A d \in 1 .. MaxSlots : Power[d] = 2 * Power[d - 1]
<1> DEFINE Twice == [n \in Nat |-> 2 * n]
<1>1. MaxSlots \in Nat /\ 1 \in Nat /\ Twice \in [Nat -> Nat]
  BY CacheAssumption
<1>2. PICK f : Iteration(f, MaxSlots, Twice, 1, Nat)
  <2> HIDE DEF Twice
  <2> QED
    BY <1>1, Iterates
<1>3. \A d \in 1 .. MaxSlots : f[d] = 2 * f[d - 1]
  <2> SUFFICES ASSUME NEW d \in 1 .. MaxSlots PROVE f[d] = 2 * f[d - 1]
    OBVIOUS
  <2>1. d - 1 \in 0 .. MaxSlots
    BY <1>1
  <2>2. f[d - 1] \in Nat /\ f[d] = Twice[f[d - 1]]
    BY <1>2, <2>1 DEF Iteration
  <2> QED
    BY <2>1, <2>2
<1>4. f = [d \in 0 .. MaxSlots |-> IF d = 0 THEN 1 ELSE 2 * f[d - 1]]
  <2>1. \A d \in 0 .. MaxSlots : d # 0 => d \in 1 .. MaxSlots
    BY <1>1
  <2>2. \A d \in 0 .. MaxSlots : f[d] = IF d = 0 THEN 1 ELSE 2 * f[d - 1]
    BY <1>2, <1>3, <2>1 DEF Iteration
  <2> QED
    BY <1>2, <2>2 DEF Iteration
<1>5. Power = [d \in 0 .. MaxSlots |-> IF d = 0 THEN 1 ELSE 2 * Power[d - 1]]
  BY <1>4 DEF Power
<1>6. \A d \in 0 .. MaxSlots : Power[d] = IF d = 0 THEN 1 ELSE 2 * Power[d - 1]
  BY <1>5
<1>7. Power[0] = 1 /\ \A d \in 1 .. MaxSlots : Power[d] = 2 * Power[d - 1]
  <2>1. 0 \in 0 .. MaxSlots /\ \A d \in 1 .. MaxSlots : d \in 0 .. MaxSlots /\ d # 0
    BY <1>1
  <2> QED
    BY <1>6, <2>1
<1> DEFINE P == {n \in Nat : n \in 0 .. MaxSlots => Power[n] \in Nat}
<1>8. 0 \in P
  BY <1>7
<1>9. ASSUME NEW n \in Nat, n \in P
      PROVE  n + 1 \in P
  <2>1. n + 1 \in 0 .. MaxSlots => n \in 0 .. MaxSlots /\ n + 1 \in 1 .. MaxSlots /\ n + 1 - 1 = n
    BY <1>1
  <2> QED
    BY <1>7, <1>9, <2>1
<1>10. \A n \in Nat : n \in P
  <2> HIDE DEF P
  <2> QED
    BY <1>8, <1>9, Induction
<1>11. Power \in [0 .. MaxSlots -> Nat]
  <2>1. \A d \in 0 .. MaxSlots : Power[d] \in Nat
    BY <1>10
  <2> QED
    BY <1>5, <2>1
<1> QED
  BY <1>5, <1>7, <1>11

(* They grow, and faster than their exponents.                             *)
LEMMA PowerGrows ==
  \A d \in 0 .. MaxSlots :
    Power[d] \in Nat /\ Power[d] > d /\ \A e \in 0 .. d : Power[e] <= Power[d]
<1> DEFINE P == {n \in Nat : n \in 0 .. MaxSlots =>
                   Power[n] \in Nat /\ Power[n] > n /\ \A e \in 0 .. n : Power[e] <= Power[n]}
<1>1. 0 \in P
  BY PowerIs
<1>2. ASSUME NEW n \in Nat, n \in P
      PROVE  n + 1 \in P
  <2> SUFFICES ASSUME n + 1 \in 0 .. MaxSlots
               PROVE  /\ Power[n + 1] \in Nat /\ Power[n + 1] > n + 1
                      /\ \A e \in 0 .. n + 1 : Power[e] <= Power[n + 1]
    OBVIOUS
  <2>1. n \in 0 .. MaxSlots /\ n + 1 \in 1 .. MaxSlots /\ n + 1 - 1 = n
    BY CacheAssumption
  <2>2. Power[n + 1] = 2 * Power[n] /\ Power[n] \in Nat /\ Power[n] > n
    BY <1>2, <2>1, PowerIs
  <2>3. Power[n + 1] \in Nat /\ Power[n + 1] > n + 1 /\ Power[n] <= Power[n + 1]
    BY <2>2
  <2>4. ASSUME NEW e \in 0 .. n + 1
        PROVE  Power[e] <= Power[n + 1]
    <3>1. CASE e = n + 1
      BY <2>3, <3>1
    <3>2. CASE e # n + 1
      <4>1. e \in 0 .. n /\ e \in 0 .. MaxSlots
        BY <2>1, <3>2, CacheAssumption
      <4>2. Power[e] <= Power[n] /\ Power[e] \in Nat
        BY <1>2, <2>1, <4>1, PowerIs
      <4> QED
        BY <2>2, <2>3, <4>2
    <3> QED
      BY <3>1, <3>2
  <2> QED
    BY <2>3, <2>4
<1>3. \A n \in Nat : n \in P
  <2> HIDE DEF P
  <2> QED
    BY <1>1, <1>2, Induction
<1> QED
  BY <1>3

(* The lengths that the pool may have.                                     *)
Length(d) == InitialLength * Power[d]

(* Each is twice the one before it.                                        *)
LEMMA LengthFacts ==
  /\ InitialLength \in Nat \ {0}
  /\ \A d \in 0 .. MaxSlots : Length(d) \in Nat \ {0} /\ Length(d) > d
  /\ \A d \in 0 .. MaxSlots : \A e \in 0 .. d : Length(e) <= Length(d)
  /\ Length(0) = InitialLength
  /\ \A d \in 1 .. MaxSlots : d - 1 \in 0 .. MaxSlots /\ Length(d) = 2 * Length(d - 1)
<1>1. InitialLength \in Nat \ {0} /\ MaxSlots \in Nat
  BY CacheAssumption
<1>2. \A d \in 0 .. MaxSlots : Length(d) \in Nat \ {0} /\ Length(d) > d
  <2> SUFFICES ASSUME NEW d \in 0 .. MaxSlots PROVE Length(d) \in Nat \ {0} /\ Length(d) > d
    OBVIOUS
  <2>1. Power[d] \in Nat /\ Power[d] > d /\ d \in Nat
    BY PowerGrows
  <2>2. \A i \in Nat \ {0}, p \in Nat, k \in Nat : p > k => i * p \in Nat \ {0} /\ i * p > k
    BY Z3
  <2> QED
    BY <1>1, <2>1, <2>2 DEF Length
<1>3. \A d \in 0 .. MaxSlots : \A e \in 0 .. d : Length(e) <= Length(d)
  <2> SUFFICES ASSUME NEW d \in 0 .. MaxSlots, NEW e \in 0 .. d PROVE Length(e) <= Length(d)
    OBVIOUS
  <2>1. e \in 0 .. MaxSlots
    BY <1>1
  <2>2. Power[d] \in Nat /\ Power[e] \in Nat /\ Power[e] <= Power[d]
    BY <2>1, PowerGrows
  <2>3. \A i, p, q \in Nat : p <= q => i * p <= i * q
    BY Z3
  <2> QED
    BY <1>1, <2>2, <2>3 DEF Length
<1>4. Length(0) = InitialLength
  BY <1>1, PowerIs DEF Length
<1>5. ASSUME NEW d \in 1 .. MaxSlots
      PROVE  d - 1 \in 0 .. MaxSlots /\ Length(d) = 2 * Length(d - 1)
  <2>1. d - 1 \in 0 .. MaxSlots
    BY <1>1
  <2>2. Power[d] = 2 * Power[d - 1] /\ Power[d - 1] \in Nat
    BY <2>1, PowerIs, PowerGrows
  <2>3. \A i, p \in Nat : i * (2 * p) = 2 * (i * p)
    BY Z3
  <2> QED
    BY <1>1, <2>1, <2>2, <2>3 DEF Length
<1> QED
  BY <1>1, <1>2, <1>3, <1>4, <1>5

(* The address of a slot of block d, the first block being that of 0.      *)
LEMMA AddressIs ==
  /\ \A s \in Nat : s < InitialLength => Address(s) = <<0, s>>
  /\ \A d \in 1 .. MaxSlots, s \in Nat :
       Length(d - 1) <= s /\ s < Length(d) => Address(s) = <<d, s - Length(d - 1)>>
<1>1. \A s \in Nat : s < InitialLength => Address(s) = <<0, s>>
  BY DEF Address
<1>2. ASSUME NEW d \in 1 .. MaxSlots, NEW s \in Nat, Length(d - 1) <= s, s < Length(d)
      PROVE  Address(s) = <<d, s - Length(d - 1)>>
  <2> DEFINE q == s \div InitialLength
             In(e) == Power[e - 1] <= q /\ q < Power[e]
  <2>1. InitialLength \in Nat \ {0} /\ d - 1 \in 0 .. MaxSlots /\ d \in 0 .. MaxSlots /\ 0 \in 0 .. d - 1
    BY LengthFacts
  <2>2. s = (InitialLength * q) + (s % InitialLength) /\ s % InitialLength \in 0 .. InitialLength - 1 /\ q \in Nat
    BY <2>1, DivMod
  <2>3. In(d)
    <3>1. Power[d - 1] \in Nat /\ Power[d] \in Nat
      BY <2>1, PowerGrows
    <3>2. ASSUME NEW i \in Nat \ {0}, NEW p \in Nat, NEW k \in Nat, NEW r \in Nat, r < i
          PROVE  /\ i * p <= (i * k) + r => p <= k
                 /\ (i * k) + r < i * p => k < p
      <4>1. ASSUME p > k PROVE i * p >= (i * k) + i
        <5>1. i * p >= i * (k + 1)
          BY <4>1, Z3
        <5> QED
          BY <5>1, Z3
      <4>2. ASSUME k >= p PROVE i * k >= i * p
        BY <4>2, Z3
      <4>3. i * p \in Nat /\ i * k \in Nat
        BY Z3
      <4> QED
        BY <3>2, <4>1, <4>2, <4>3
    <3>3. /\ InitialLength * Power[d - 1] <= s /\ s < InitialLength * Power[d]
          /\ s % InitialLength \in Nat /\ s % InitialLength < InitialLength
      BY <1>2, <2>1, <2>2 DEF Length
    <3> HIDE DEF q
    <3> QED
      BY <2>1, <2>2, <3>1, <3>2, <3>3
  <2>4. \A e \in 1 .. MaxSlots : In(e) => e = d
    <3> SUFFICES ASSUME NEW e \in 1 .. MaxSlots, In(e) PROVE e = d
      OBVIOUS
    <3> HIDE DEF q
    <3>1. e - 1 \in 0 .. MaxSlots /\ e \in 0 .. MaxSlots /\ e \in Int /\ d \in Int
      BY LengthFacts
    <3>2. /\ Power[d] \in Nat /\ Power[e] \in Nat /\ Power[d - 1] \in Nat /\ Power[e - 1] \in Nat
          /\ d <= e - 1 => Power[d] <= Power[e - 1]
          /\ e <= d - 1 => Power[e] <= Power[d - 1]
      BY <2>1, <3>1, PowerGrows
    <3>3. ~(d <= e - 1) /\ ~(e <= d - 1)
      BY <2>2, <2>3, <3>2
    <3> QED
      BY <3>1, <3>3
  <2>5. (CHOOSE e \in 1 .. MaxSlots : In(e)) = d
    <3> HIDE DEF In
    <3> QED
      BY <2>3, <2>4
  <2>6. ~(s < InitialLength)
    <3>1. Length(0) <= Length(d - 1) /\ Length(0) = InitialLength /\ Length(d - 1) \in Nat
      BY <2>1, LengthFacts
    <3> QED
      BY <1>2, <2>1, <3>1
  <2>7. s % Length(d - 1) = s - Length(d - 1)
    <3> DEFINE m == Length(d - 1)
    <3>1. m \in Nat \ {0} /\ m <= s /\ s < 2 * m
      BY <1>2, <2>1, LengthFacts
    <3> HIDE DEF m
    <3>2. s - m \in 0 .. m - 1 /\ 1 \in Nat /\ (m * 1) + (s - m) = s
      BY <3>1
    <3>3. ((m * 1) + (s - m)) % m = s - m
      BY <3>1, <3>2, ModUnique
    <3>4. s % m = s - m
      BY <3>2, <3>3
    <3> QED
      BY <3>4 DEF m
  <2>8. Address(s) = <<CHOOSE e \in 1 .. MaxSlots : In(e),
                      s % (InitialLength * Power[(CHOOSE e \in 1 .. MaxSlots : In(e)) - 1])>>
    BY <2>6 DEF Address
  <2> HIDE DEF In
  <2> QED
    BY <2>5, <2>7, <2>8 DEF Length
<1> QED
  BY <1>1, <1>2

(* The thread at one of these places has set a_adding_memory.              *)
LockedPcs == {"grow", "unlock"}
LockInv ==
  /\ \A t \in Threads : local[t].pc \in LockedPcs => a_adding_memory
  /\ \A t, u \in Threads : local[t].pc \in LockedPcs /\ local[u].pc \in LockedPcs => t = u

(* Thread u does not come to hold the lock.                                *)
Unlocked(u) ==
  /\ \A t \in Threads \ {u} : local'[t] = local[t]
  /\ local[u].pc \notin LockedPcs /\ local'[u].pc \notin LockedPcs

(* Where a thread goes that sets its place.                                *)
LEMMA SetPc ==
  ASSUME IInv, NEW u \in Threads, NEW ch, Set(u, ch), "pc" \in DOMAIN ch
  PROVE  /\ \A t \in Threads \ {u} : local'[t] = local[t]
         /\ local'[u].pc = ch.pc
<1>1. DOMAIN local = Threads /\ DOMAIN local[u] = Fields
  BY DEF IInv, Types, ThreadTypes, LocalTypes
<1>2. local'[u] = [f \in Fields |-> IF f \in DOMAIN ch THEN ch[f] ELSE local[u][f]]
  BY <1>1 DEF Set
<1>3. "pc" \in Fields
  BY DEF Fields
<1> QED
  BY <1>1, <1>2, <1>3 DEF Set

(* A thread that starts a call or returns does not come to hold the lock.  *)
LEMMA CallsUnlocked ==
  ASSUME IInv, NEW u \in Threads, local[u].pc \notin LockedPcs,
         \/ \E s : Return(u, s)
         \/ \E op, k, s : Start(u, op, k, s)
  PROVE  Unlocked(u)
<1>1. DOMAIN local = Threads
  BY DEF IInv, Types, ThreadTypes
<1>2. ASSUME NEW s, Return(u, s) PROVE Unlocked(u)
  BY <1>1, <1>2 DEF Return, Unlocked, LockedPcs, Idle
<1>3. ASSUME NEW op, NEW k, NEW s, Start(u, op, k, s) PROVE Unlocked(u)
  BY <1>1, <1>3 DEF Start, Unlocked, LockedPcs, Idle
<1> QED
  BY <1>2, <1>3

(* Nor does one that goes to another place.                                *)
LEMMA SetUnlocked ==
  ASSUME IInv, NEW u \in Threads, local[u].pc \notin LockedPcs,
         NEW ch, Set(u, ch), "pc" \in DOMAIN ch, ch.pc \notin LockedPcs
  PROVE  Unlocked(u)
  BY SetPc DEF Unlocked

(* A search that starts over goes to "follow".                             *)
LEMMA RestartPc ==
  ASSUME NEW u, NEW again
  PROVE  /\ "pc" \in DOMAIN Restart(u, again) /\ Restart(u, again).pc = "follow"
         /\ "pc" \in DOMAIN Again(u) /\ Again(u).pc = "follow"
  BY DEF Restart, Again

(* The steps of a search do not take the lock.                             *)
LEMMA FindUnlocked ==
  ASSUME IInv, NEW u \in Threads, Find(u)
  PROVE  Unlocked(u)
<1> USE RestartPc DEF At, LockedPcs
<1>1. CASE FindFollow(u)
  <2> DEFINE ch == [pc |-> "check", scur |-> link[local[u].sprev.next]]
  <2>1. Set(u, ch) /\ "pc" \in DOMAIN ch /\ ch.pc = "check"
    BY <1>1 DEF FindFollow
  <2> HIDE DEF ch
  <2> QED
    BY <1>1, <2>1, SetUnlocked DEF FindFollow
<1>2. CASE FindCheck(u)
  <2> DEFINE ch == [pc |-> IF local[u].scur.marked THEN "unlink" ELSE "compare"]
  <2>1. "pc" \in DOMAIN ch /\ ch.pc \in {"unlink", "compare"}
    OBVIOUS
  <2>2. Set(u, Again(u)) \/ Set(u, ch)
    BY <1>2 DEF FindCheck
  <2> HIDE DEF ch
  <2> QED
    BY <1>2, <2>1, <2>2, SetUnlocked DEF FindCheck
<1>3. CASE FindUnlink(u)
  <2> DEFINE ch == [pc |-> "follow", sprev |-> Bypass(u)]
  <2>1. "pc" \in DOMAIN ch /\ ch.pc = "follow"
    OBVIOUS
  <2>2. Set(u, Again(u)) \/ Set(u, ch)
    BY <1>3 DEF FindUnlink
  <2> HIDE DEF ch
  <2> QED
    BY <1>3, <2>1, <2>2, SetUnlocked DEF FindUnlink
<1>4. CASE FindCompare(u)
  <2>1. PICK hit : Set(u, [pc |-> "recheck", hit |-> hit])
    BY <1>4 DEF FindCompare
  <2> DEFINE ch == [pc |-> "recheck", hit |-> hit]
  <2>2. Set(u, ch) /\ "pc" \in DOMAIN ch /\ ch.pc = "recheck"
    BY <2>1
  <2> HIDE DEF ch
  <2> QED
    BY <1>4, <2>2, SetUnlocked DEF FindCompare
<1>5. CASE FindAdvance(u)
  <2> DEFINE ch == [pc |-> "follow", prev |-> local[u].sprev.next, sprev |-> local[u].scur]
  <2>1. "pc" \in DOMAIN ch /\ ch.pc = "follow"
    OBVIOUS
  <2>2. Set(u, Again(u)) \/ Set(u, ch)
    BY <1>5 DEF FindAdvance
  <2> HIDE DEF ch
  <2> QED
    BY <1>5, <2>1, <2>2, SetUnlocked DEF FindAdvance
<1> QED
  BY <1>1, <1>2, <1>3, <1>4, <1>5 DEF Find

(* Nor do the steps of a pop.                                              *)
LEMMA PopUnlocked ==
  ASSUME IInv, NEW u \in Threads, Pop(u)
  PROVE  Unlocked(u)
<1> USE DEF At, LockedPcs
<1>1. ASSUME NEW top, Popped(u, top), local[u].pc \notin LockedPcs
      PROVE  Unlocked(u)
  <2>1. PICK ch : Set(u, ch) /\ "pc" \in DOMAIN ch /\ ch.pc \in {"under", "pop", "increment"}
    <3>1. CASE Set(u, [pc |-> "under", top |-> top])
      BY <3>1
    <3>2. CASE \E r \in Threads : Set(u, [pc |-> "pop", from |-> r, tries |-> local[u].tries + 1])
      BY <3>2
    <3>3. CASE Set(u, [pc |-> "increment"])
      BY <3>3
    <3> QED
      BY <1>1, <3>1, <3>2, <3>3 DEF Popped
  <2> QED
    BY <1>1, <2>1, SetUnlocked
<1>2. CASE PopLoad(u)
  BY <1>1, <1>2 DEF PopLoad
<1>3. CASE PopUnder(u)
  <2> DEFINE ch == [pc |-> "take", under |-> tail[local[u].top.at]]
  <2>1. Set(u, ch) /\ "pc" \in DOMAIN ch /\ ch.pc = "take"
    BY <1>3 DEF PopUnder
  <2> HIDE DEF ch
  <2> QED
    BY <1>3, <2>1, SetUnlocked DEF PopUnder
<1>4. CASE PopTake(u)
  <2> DEFINE ch == [pc |-> "set_key", slot |-> local[u].top.at]
  <2>1. "pc" \in DOMAIN ch /\ ch.pc = "set_key"
    OBVIOUS
  <2>2. Set(u, ch) \/ Popped(u, a_head[local[u].from])
    BY <1>4 DEF PopTake
  <2> HIDE DEF ch
  <2> QED
    BY <1>1, <1>4, <2>1, <2>2, SetUnlocked DEF PopTake
<1> QED
  BY <1>2, <1>3, <1>4 DEF Pop

(* Nor do those of an addition.                                            *)
LEMMA AddUnlocked ==
  ASSUME IInv, NEW u \in Threads, Add(u)
  PROVE  Unlocked(u)
<1> USE DEF At, LockedPcs
<1>1. CASE AddKey(u)
  <2> DEFINE ch == [pc |-> "store", tag |-> TagUp(link[local[u].slot]), head |-> link[Hash[call[u].key]]]
  <2>1. Set(u, ch) /\ "pc" \in DOMAIN ch /\ ch.pc = "store"
    BY <1>1 DEF AddKey
  <2> HIDE DEF ch
  <2> QED
    BY <1>1, <2>1, SetUnlocked DEF AddKey
<1>2. CASE AddStore(u)
  <2> DEFINE ch == [pc |-> "link"]
  <2>1. Set(u, ch) /\ "pc" \in DOMAIN ch /\ ch.pc = "link"
    BY <1>2 DEF AddStore
  <2> HIDE DEF ch
  <2> QED
    BY <1>2, <2>1, SetUnlocked DEF AddStore
<1>3. CASE AddLink(u)
  <2> DEFINE ch == [pc |-> "added"]
             ch2 == [pc |-> "store", head |-> link[Hash[call[u].key]]]
  <2>1. "pc" \in DOMAIN ch /\ ch.pc = "added" /\ "pc" \in DOMAIN ch2 /\ ch2.pc = "store"
    OBVIOUS
  <2>2. Set(u, ch) \/ Set(u, ch2)
    BY <1>3 DEF AddLink
  <2> HIDE DEF ch, ch2
  <2> QED
    BY <1>3, <2>1, <2>2, SetUnlocked DEF AddLink
<1>4. CASE AddReturn(u)
  BY <1>4, CallsUnlocked DEF AddReturn
<1> QED
  BY <1>1, <1>2, <1>3, <1>4 DEF Add

(* Nor do those of a removal.                                              *)
LEMMA RemoveUnlocked ==
  ASSUME IInv, NEW u \in Threads, Remove(u)
  PROVE  Unlocked(u)
<1> USE RestartPc DEF At, LockedPcs
<1>1. CASE Mark(u)
  <2> DEFINE ch == [pc |-> "bypass", marked |-> TRUE]
  <2>1. "pc" \in DOMAIN ch /\ ch.pc = "bypass"
    OBVIOUS
  <2>2. Set(u, Again(u)) \/ Set(u, ch)
    BY <1>1 DEF Mark
  <2> HIDE DEF ch
  <2> QED
    BY <1>1, <2>1, <2>2, SetUnlocked DEF Mark
<1>2. CASE RemoveBypass(u)
  <2> DEFINE ch == [pc |-> "look"]
  <2>1. "pc" \in DOMAIN ch /\ ch.pc = "look"
    OBVIOUS
  <2>2. Set(u, Restart(u, TRUE)) \/ Set(u, ch)
    BY <1>2 DEF RemoveBypass, AfterLostBypass
  <2> HIDE DEF ch
  <2> QED
    BY <1>2, <2>1, <2>2, SetUnlocked DEF RemoveBypass
<1>3. CASE RemoveSearched(u)
  <2> DEFINE ch == [pc |-> IF local[u].again THEN "look" ELSE IF Found(u) THEN "mark" ELSE "push"]
  <2>1. "pc" \in DOMAIN ch /\ ch.pc \in {"look", "mark", "push"}
    OBVIOUS
  <2>2. Set(u, ch) /\ local[u].pc \in {"recheck", "follow"}
    BY <1>3 DEF RemoveSearched, Found, NotFound
  <2> HIDE DEF ch
  <2> QED
    BY <2>1, <2>2, SetUnlocked
<1>4. CASE RemoveLook(u)
  BY <1>4, SetUnlocked DEF RemoveLook
<1>5. CASE PushLoad(u)
  <2> DEFINE ch == [pc |-> "release"]
  <2>1. Set(u, ch) /\ "pc" \in DOMAIN ch /\ ch.pc = "release"
    BY <1>5 DEF PushLoad
  <2> HIDE DEF ch
  <2> QED
    BY <1>5, <2>1, SetUnlocked DEF PushLoad
<1>6. CASE PushTop(u)
  <2>1. local[u].pc = "release" /\ (local' = local \/ \E s : Return(u, s))
    BY <1>6 DEF PushTop
  <2> QED
    BY <2>1, CallsUnlocked DEF Unlocked
<1> QED
  BY <1>1, <1>2, <1>3, <1>4, <1>5, <1>6 DEF Remove

(* Nor do those that begin or end a call.                                  *)
LEMMA RestUnlocked ==
  ASSUME IInv, NEW u \in Threads,
         \/ LookupReturn(u) \/ FreeCall(u) \/ Task(u)
         \/ u = Main /\ (WarmCall \/ RemoveStale)
  PROVE  Unlocked(u)
<1>1. local[u].pc \in {"follow", "recheck", "idle", "task"}
  BY DEF LookupReturn, Found, NotFound, FreeCall, Task, TaskLookup, TaskAdd, WarmCall, RemoveStale, At
<1>2. (\E s : Return(u, s)) \/ \E op, k, s : Start(u, op, k, s)
  BY Zenon DEF LookupReturn, FreeCall, Task, TaskLookup, TaskAdd, WarmCall, RemoveStale
<1> QED
  BY <1>1, <1>2, CallsUnlocked DEF LockedPcs

(* The lock has one holder.                                                *)
LEMMA LockKept ==
  IInv /\ LockInv /\ [Next]_vars => LockInv'
<1> SUFFICES ASSUME IInv, LockInv, [Next]_vars PROVE LockInv'
  OBVIOUS
<1>1. ASSUME NEW u \in Threads, Unlocked(u), a_adding_memory => a_adding_memory'
      PROVE  LockInv'
  BY <1>1 DEF Unlocked, LockInv
<1>2. ASSUME NEW u \in Threads, NewSlot(u)
      PROVE  LockInv'
  <2>1. CASE Increment(u)
    <3> DEFINE ch == [pc |-> "length", slot |-> a_count_max]
    <3>1. Set(u, ch) /\ "pc" \in DOMAIN ch /\ ch.pc = "length"
      BY <2>1 DEF Increment
    <3> HIDE DEF ch
    <3> QED
      BY <1>1, <2>1, <3>1, SetUnlocked DEF Increment, At, LockedPcs
  <2>2. CASE CheckLength(u)
    <3> DEFINE ch == [pc |-> IF local[u].slot < a_length THEN "set_key" ELSE "lock"]
    <3>1. Set(u, ch) /\ "pc" \in DOMAIN ch /\ ch.pc \in {"set_key", "lock"}
      BY <2>2 DEF CheckLength
    <3> HIDE DEF ch
    <3> QED
      BY <1>1, <2>2, <3>1, SetUnlocked DEF CheckLength, At, LockedPcs, pool
  <2>3. CASE LockGrow(u)
    <3> DEFINE ch == [pc |-> IF a_adding_memory THEN "length" ELSE "grow"]
    <3>1. Set(u, ch) /\ "pc" \in DOMAIN ch /\ ch.pc = IF a_adding_memory THEN "length" ELSE "grow"
      BY <2>3 DEF LockGrow
    <3>2. local[u].pc = "lock" /\ a_adding_memory'
      BY <2>3 DEF LockGrow, At
    <3> HIDE DEF ch
    <3>3. CASE a_adding_memory
      BY <1>1, <3>1, <3>2, <3>3, SetUnlocked DEF LockedPcs
    <3>4. CASE ~a_adding_memory
      <4>1. \A t \in Threads \ {u} : local'[t] = local[t] /\ local[t].pc \notin LockedPcs
        BY <3>1, <3>4, SetPc DEF LockInv
      <4> QED
        BY <3>2, <4>1 DEF LockInv
    <3> QED
      BY <3>3, <3>4
  <2>4. CASE Grow(u)
    <3> DEFINE ch == [pc |-> "unlock"]
    <3>1. Set(u, ch) /\ "pc" \in DOMAIN ch
      BY <2>4 DEF Grow
    <3> HIDE DEF ch
    <3>2. \A t \in Threads \ {u} : local'[t] = local[t]
      BY <3>1, SetPc
    <3>3. local[u].pc \in LockedPcs /\ a_adding_memory' = a_adding_memory
      BY <2>4 DEF Grow, At, LockedPcs
    <3> QED
      BY <3>2, <3>3 DEF LockInv
  <2>5. CASE UnlockGrow(u)
    <3> DEFINE ch == [pc |-> "length"]
    <3>1. Set(u, ch) /\ "pc" \in DOMAIN ch /\ ch.pc = "length"
      BY <2>5 DEF UnlockGrow
    <3> HIDE DEF ch
    <3>2. local'[u].pc = "length" /\ \A t \in Threads \ {u} : local'[t] = local[t]
      BY <3>1, SetPc
    <3>3. local[u].pc \in LockedPcs /\ "length" \notin LockedPcs
      BY <2>5 DEF UnlockGrow, At, LockedPcs
    <3>4. \A t \in Threads : local'[t].pc \notin LockedPcs
      BY <3>2, <3>3 DEF LockInv
    <3> QED
      BY <3>4 DEF LockInv
  <2> QED
    BY <1>2, <2>1, <2>2, <2>3, <2>4, <2>5 DEF NewSlot
<1>3. ASSUME NEW u \in Threads, Step(u), ~NewSlot(u)
      PROVE  Unlocked(u) /\ a_adding_memory' = a_adding_memory
  <2>1. Unlocked(u)
    BY <1>3, FindUnlocked, PopUnlocked, AddUnlocked, RemoveUnlocked, RestUnlocked DEF Step
  <2>2. CASE Find(u) \/ LookupReturn(u) \/ Pop(u)
    BY <2>1, <2>2 DEF Find, FindFollow, FindCheck, FindUnlink, FindCompare, FindAdvance, LookupReturn,
                Pop, PopLoad, PopUnder, PopTake, pool
  <2>3. CASE Add(u) \/ Remove(u)
    BY <2>1, <2>3 DEF Add, AddKey, AddStore, AddLink, AddReturn, Remove, Mark, RemoveBypass,
                RemoveSearched, RemoveLook, PushLoad, PushTop, pool
  <2>4. CASE FreeCall(u) \/ Task(u)
    BY <2>1, <2>4 DEF FreeCall, Task, TaskLookup, TaskAdd, pool
  <2> QED
    BY <1>3, <2>1, <2>2, <2>3, <2>4 DEF Step
<1>4. CASE WarmCall \/ RemoveStale
  <2>1. Unlocked(Main) /\ Main \in Threads
    BY <1>4, RestUnlocked, CacheAssumption
  <2>2. a_adding_memory' = a_adding_memory
    BY <1>4 DEF WarmCall, RemoveStale, pool
  <2> QED
    BY <1>1, <2>1, <2>2
<1>5. CASE TickStart \/ Evaluate \/ TickEnd \/ Flush
  <2>1. local' = local /\ a_adding_memory' = a_adding_memory
    BY <1>5 DEF TickStart, Evaluate, TickEnd, Flush, pool
  <2> QED
    BY <2>1 DEF LockInv
<1>6. CASE UNCHANGED vars
  BY <1>6 DEF vars, pool, LockInv
<1> QED
  BY <1>1, <1>2, <1>3, <1>4, <1>5, <1>6 DEF Next, Finished

(* What the blocks are: each as long as all before it together.            *)
Geometry ==
  LET m == Len(block)
  IN /\ block \in Seq(Nat \ {0}) /\ m \in 1 .. MaxSlots + 1
     /\ a_length = Length(m - 1)
     /\ \A b \in 1 .. m : block[b] = IF b = 1 THEN InitialLength ELSE Length(b - 2)
PoolInv ==
  /\ Geometry /\ (client = "calls" => persistent = {})
  /\ result \in [Threads -> Pointers]
  /\ LockInv

(* The first block.                                                        *)
LEMMA InitGeometry ==
  Init => PoolInv
<1> SUFFICES ASSUME Init PROVE PoolInv
  OBVIOUS
<1>1. /\ block = <<InitialLength>> /\ a_length = InitialLength /\ persistent = {}
      /\ InitialLength \in Nat \ {0} /\ MaxSlots \in Nat /\ Length(0) = InitialLength
  BY LengthFacts, CacheAssumption DEF Init, CacheInit
<1>2. block \in Seq(Nat \ {0}) /\ Len(block) = 1 /\ block[1] = InitialLength
  BY <1>1
<1>3. result \in [Threads -> Pointers] /\ LockInv
  BY DEF Init, CacheInit, Pointers, LockInv, LockedPcs, Idle
<1> QED
  BY <1>1, <1>2, <1>3 DEF PoolInv, Geometry

(* A block is added for a slot that lies past the pool.                    *)
LEMMA GrowsFor ==
  ASSUME IInv, [Next]_vars
  PROVE  /\ \/ UNCHANGED <<block, a_length>>
            \/ \E t \in Threads : Grow(t) /\ GrowNeeded(t) /\ local[t].slot \in Slots
         /\ client' = client /\ (client = "calls" => persistent' = persistent)
<1>1. ASSUME NEW t \in Threads, Step(t)
      PROVE  /\ UNCHANGED <<client, persistent>>
             /\ UNCHANGED <<block, a_length>> \/ (Grow(t) /\ GrowNeeded(t))
  <2>1. CASE Find(t) \/ LookupReturn(t) \/ Pop(t)
    BY <2>1 DEF Find, FindFollow, FindCheck, FindUnlink, FindCompare, FindAdvance, LookupReturn,
                Pop, PopLoad, PopUnder, PopTake, pool, tick, agenda
  <2>2. CASE NewSlot(t)
    BY <2>2 DEF NewSlot, Increment, CheckLength, LockGrow, Grow, UnlockGrow, pool, tick, agenda
  <2>3. CASE Add(t) \/ Remove(t)
    BY <2>3 DEF Add, AddKey, AddStore, AddLink, AddReturn, Remove, Mark, RemoveBypass,
                RemoveSearched, RemoveLook, PushLoad, PushTop, pool, tick, agenda
  <2>4. CASE FreeCall(t) \/ Task(t)
    BY <2>4 DEF FreeCall, Task, TaskLookup, TaskAdd, pool, tick, agenda
  <2> QED
    BY <1>1, <2>1, <2>2, <2>3, <2>4 DEF Step
<1>2. ASSUME NEW t \in Threads, Grow(t)
      PROVE  local[t].slot \in Slots
  <2>1. AddInv(t) /\ ThreadTypes
    BY DEF IInv, ThreadInv, Types
  <2>2. local[t].pc = "grow"
    BY <1>2 DEF Grow, At
  <2>3. call[t].op = "add"
    BY <2>1, <2>2, PlaceFacts DEF AddPcs, GrowPcs
  <2> QED
    BY <2>1, <2>2, <2>3 DEF AddInv, GrowPcs
<1>3. ASSUME WarmCall \/ TickStart \/ Evaluate \/ RemoveStale \/ TickEnd \/ Flush
      PROVE  /\ UNCHANGED <<block, a_length, client>>
             /\ client = "calls" => persistent' = persistent
  <2>1. phase = "manage" => client = "ticks"
    BY DEF IInv, TickInv
  <2> QED
    BY <1>3, <2>1 DEF WarmCall, TickStart, Evaluate, RemoveStale, TickEnd, Flush, pool, tick, agenda
<1>4. ASSUME UNCHANGED vars
      PROVE  UNCHANGED <<block, a_length, client, persistent>>
  BY <1>4 DEF vars, pool, tick, agenda
<1> QED
  BY <1>1, <1>2, <1>3, <1>4 DEF Next, Finished

(* A step sets at most one result.                                         *)
LEMMA ResultsSet ==
  ASSUME [Next]_vars
  PROVE  result' = result \/ \E t, s : result' = [result EXCEPT ![t] = s]
<1>1. ASSUME NEW t \in Threads, Step(t)
      PROVE  result' = result \/ \E u, s : result' = [result EXCEPT ![u] = s]
  <2>1. CASE Find(t) \/ Pop(t) \/ NewSlot(t)
    BY <2>1 DEF Find, FindFollow, FindCheck, FindUnlink, FindCompare, FindAdvance,
                Pop, PopLoad, PopUnder, PopTake,
                NewSlot, Increment, CheckLength, LockGrow, Grow, UnlockGrow
  <2>2. CASE LookupReturn(t) \/ Add(t)
    BY <2>2 DEF LookupReturn, Return, Add, AddKey, AddStore, AddLink, AddReturn
  <2>3. CASE Remove(t)
    BY <2>3 DEF Remove, Mark, RemoveBypass, RemoveSearched, RemoveLook, PushLoad, PushTop, Return
  <2>4. CASE FreeCall(t) \/ Task(t)
    BY <2>4 DEF FreeCall, Task, TaskLookup, TaskAdd, Start
  <2> QED
    BY <1>1, <2>1, <2>2, <2>3, <2>4 DEF Step
<1>2. ASSUME WarmCall \/ TickStart \/ Evaluate \/ RemoveStale \/ TickEnd \/ Flush
      PROVE  result' = result \/ \E u, s : result' = [result EXCEPT ![u] = s]
  BY <1>2 DEF WarmCall, TickStart, Evaluate, RemoveStale, TickEnd, Flush, Start
<1>3. ASSUME UNCHANGED vars PROVE result' = result
  BY <1>3 DEF vars
<1> QED
  BY <1>1, <1>2, <1>3 DEF Next, Finished

(* The pool doubles by a block as long as itself.                          *)
LEMMA PoolKept ==
  IInv /\ PoolInv /\ [Next]_vars => PoolInv'
<1> SUFFICES ASSUME IInv, PoolInv, [Next]_vars PROVE PoolInv'
  OBVIOUS
<1>1. client' = client /\ (client = "calls" => persistent' = persistent)
  BY GrowsFor
<1>2. ASSUME UNCHANGED <<block, a_length>> PROVE Geometry'
  BY <1>2 DEF PoolInv, Geometry
<1>3. result' \in [Threads -> Pointers]
  <2>1. \A t \in Threads : result'[t] \in Pointers
    BY NextKept DEF IInv, Types, ThreadTypes, CallTypes
  <2>2. result \in [Threads -> Pointers]
    BY DEF PoolInv
  <2> QED
    BY <2>1, <2>2, ResultsSet
<1>4. ASSUME NEW t \in Threads, Grow(t), GrowNeeded(t), local[t].slot \in Slots
      PROVE  Geometry'
  <2> DEFINE m == Len(block)
  <2>1. block' = Append(block, a_length) /\ a_length' = 2 * a_length /\ local[t].slot >= a_length
    BY <1>4 DEF Grow, GrowNeeded, NextBlock, Slots
  <2>2. /\ block \in Seq(Nat \ {0}) /\ m \in 1 .. MaxSlots + 1 /\ a_length = Length(m - 1)
        /\ \A b \in 1 .. m : block[b] = IF b = 1 THEN InitialLength ELSE Length(b - 2)
    BY DEF PoolInv, Geometry
  <2>3. local[t].slot \in 0 .. MaxSlots - 1 /\ MaxSlots \in Nat /\ m \in Nat
    BY <1>4, <2>2, CacheAssumption DEF Slots
  <2>4. m - 1 \in 0 .. MaxSlots /\ a_length \in Nat \ {0} /\ a_length > m - 1
    BY <2>2, <2>3, LengthFacts
  <2>5. m \in 1 .. MaxSlots
    BY <2>1, <2>2, <2>3, <2>4
  <2>6. Length(m) = 2 * a_length
    BY <2>2, <2>5, LengthFacts
  <2>7. block' \in Seq(Nat \ {0}) /\ Len(block') = m + 1
    BY <2>1, <2>2, <2>4
  <2>8. ASSUME NEW b \in 1 .. m + 1
        PROVE  block'[b] = IF b = 1 THEN InitialLength ELSE Length(b - 2)
    <3>1. CASE b = m + 1
      <4>1. block'[b] = a_length /\ b - 2 = m - 1 /\ b # 1
        BY <2>1, <2>2, <2>3, <2>5, <3>1
      <4> QED
        BY <2>2, <4>1
    <3>2. CASE b # m + 1
      <4>1. b \in 1 .. m /\ block'[b] = block[b]
        BY <2>1, <2>2, <2>3, <3>2
      <4> QED
        BY <2>2, <4>1
    <3> QED
      BY <3>1, <3>2
  <2>9. Len(block') - 1 = m /\ Len(block') \in 1 .. MaxSlots + 1
    BY <2>3, <2>5, <2>7
  <2> HIDE DEF m
  <2> QED
    BY <2>1, <2>6, <2>7, <2>8, <2>9 DEF Geometry
<1> QED
  BY <1>1, <1>2, <1>3, <1>4, GrowsFor, LockKept DEF PoolInv

(* The addresses of the slots of the pool are the cells of its blocks.     *)
LEMMA AddressesFit ==
  ASSUME Geometry
  PROVE  /\ {Address(s) : s \in 0 .. a_length - 1}
              = UNION {{b - 1} \X (0 .. block[b] - 1) : b \in DOMAIN block}
         /\ Cardinality(UNION {{b - 1} \X (0 .. block[b] - 1) : b \in DOMAIN block}) = a_length
<1> DEFINE m == Len(block)
           In(d, s) == d \in 1 .. m - 1 /\ Length(d - 1) <= s /\ s < Length(d)
<1>1. /\ block \in Seq(Nat \ {0}) /\ m \in 1 .. MaxSlots + 1 /\ a_length = Length(m - 1)
      /\ \A b \in 1 .. m : block[b] = IF b = 1 THEN InitialLength ELSE Length(b - 2)
      /\ DOMAIN block = 1 .. m
  BY DEF Geometry
<1>2. /\ InitialLength \in Nat \ {0} /\ MaxSlots \in Nat /\ m \in Nat /\ m - 1 \in 0 .. MaxSlots
      /\ \A d \in 0 .. m - 1 : Length(d) \in Nat \ {0} /\ Length(d) <= a_length
      /\ \A d \in 1 .. m - 1 : d \in 1 .. MaxSlots /\ d - 1 \in 0 .. m - 1 /\ Length(d) = 2 * Length(d - 1)
      /\ Length(0) = InitialLength
  <2>1. InitialLength \in Nat \ {0} /\ MaxSlots \in Nat /\ m \in Nat /\ m - 1 \in 0 .. MaxSlots
    BY <1>1, CacheAssumption
  <2>2. \A d \in 0 .. m - 1 : d \in 0 .. MaxSlots
    BY <2>1
  <2>3. \A d \in 1 .. m - 1 : d \in 1 .. MaxSlots /\ d - 1 \in 0 .. m - 1
    BY <2>1
  <2> HIDE DEF m
  <2> QED
    BY <1>1, <2>1, <2>2, <2>3, LengthFacts
<1>3. m - 1 \in 0 .. m - 1 /\ a_length \in Nat \ {0}
  BY <1>1, <1>2
<1>4. \A s \in Nat : s < InitialLength => Address(s) = <<0, s>>
  BY AddressIs
<1>5. \A d, s : In(d, s) /\ s \in Nat => Address(s) = <<d, s - Length(d - 1)>>
  BY <1>2, AddressIs
<1>6. ASSUME NEW s \in 0 .. a_length - 1, ~(s < InitialLength)
      PROVE  \E d \in 1 .. m - 1 : In(d, s)
  <2> DEFINE S == {d \in 0 .. m - 1 : s < Length(d)}
  <2>1. a_length \in Nat /\ s \in Nat /\ s < a_length /\ m - 1 \in 0 .. m - 1
    BY <1>1, <1>2, <1>3
  <2>2. m - 1 \in S /\ S \in SUBSET Nat
    BY <1>1, <1>2, <2>1
  <2>3. PICK d \in S : \A k \in S : d <= k
    <3> HIDE DEF S
    <3> QED
      BY <2>2, Least
  <2>4. d # 0
    BY <1>2, <1>6, <2>3
  <2>5. d \in 1 .. m - 1 /\ d - 1 \in 0 .. m - 1 /\ ~(d <= d - 1)
    BY <1>2, <2>3, <2>4
  <2>6. ~(s < Length(d - 1)) /\ Length(d - 1) \in Nat
    BY <1>2, <2>3, <2>5
  <2>7. Length(d - 1) <= s
    BY <2>1, <2>6
  <2> QED
    BY <2>3, <2>5, <2>7
<1>7. ASSUME NEW s \in 0 .. a_length - 1
      PROVE  \E b \in 1 .. m : \E i \in 0 .. block[b] - 1 : Address(s) = <<b - 1, i>>
  <2>1. CASE s < InitialLength
    <3>1. 1 \in 1 .. m /\ 1 - 1 = 0 /\ block[1] = InitialLength
      BY <1>1, <1>2
    <3>2. s \in 0 .. block[1] - 1 /\ Address(s) = <<0, s>>
      BY <1>2, <1>4, <2>1, <3>1
    <3> QED
      BY <3>1, <3>2
  <2>2. CASE ~(s < InitialLength)
    <3>1. PICK d \in 1 .. m - 1 : In(d, s)
      BY <1>6, <2>2
    <3>2. /\ d + 1 \in 1 .. m /\ d + 1 - 1 = d /\ block[d + 1] = Length(d - 1)
          /\ Length(d - 1) \in Nat /\ Length(d) = 2 * Length(d - 1)
      <4>1. d + 1 \in 1 .. m /\ d + 1 - 1 = d /\ d + 1 - 2 = d - 1 /\ d + 1 # 1
        BY <1>2
      <4> QED
        BY <1>1, <1>2, <4>1
    <3>3. s - Length(d - 1) \in 0 .. block[d + 1] - 1
      BY <3>1, <3>2
    <3>4. Address(s) = <<d + 1 - 1, s - Length(d - 1)>>
      BY <1>5, <3>1, <3>2
    <3> QED
      BY <3>2, <3>3, <3>4
  <2> QED
    BY <2>1, <2>2
<1>8. ASSUME NEW b \in 1 .. m, NEW i \in 0 .. block[b] - 1
      PROVE  \E s \in 0 .. a_length - 1 : Address(s) = <<b - 1, i>>
  <2>1. CASE b = 1
    <3>1. block[b] = InitialLength /\ InitialLength <= a_length /\ a_length \in Nat /\ 0 \in 0 .. m - 1
      BY <1>1, <1>2, <2>1
    <3>2. i \in 0 .. a_length - 1 /\ i \in Nat /\ i < InitialLength /\ b - 1 = 0
      BY <1>2, <2>1, <3>1
    <3> QED
      BY <1>4, <3>2
  <2>2. CASE b # 1
    <3> DEFINE d == b - 1
    <3>1. d \in 1 .. m - 1 /\ d - 1 = b - 2 /\ d \in 0 .. m - 1
      BY <1>2, <2>2
    <3>2. /\ block[b] = Length(d - 1) /\ Length(d - 1) \in Nat /\ Length(d) = 2 * Length(d - 1)
          /\ Length(d) <= a_length /\ a_length \in Nat
      <4>1. b \in 1 .. m /\ d - 1 \in 0 .. m - 1
        BY <1>2, <3>1
      <4> QED
        BY <1>1, <1>2, <1>3, <2>2, <3>1, <4>1
    <3> DEFINE l == Length(d - 1)
               s == l + i
    <3>3. s \in Nat /\ l <= s /\ s < Length(d) /\ s \in 0 .. a_length - 1 /\ s - l = i
      <4> HIDE DEF d
      <4>1. l \in Nat /\ i \in 0 .. l - 1 /\ Length(d) = 2 * l
        BY <3>2
      <4> HIDE DEF l
      <4> QED
        BY <3>2, <4>1
    <3>4. Address(s) = <<d, s - l>>
      BY <1>5, <3>1, <3>3
    <3> QED
      BY <3>3, <3>4
  <2> QED
    BY <2>1, <2>2
<1>9. ASSUME NEW s \in 0 .. a_length - 1, NEW r \in 0 .. s - 1
      PROVE  Address(r) # Address(s)
  <2>1. r \in 0 .. a_length - 1 /\ r \in Nat /\ s \in Nat /\ r < s
    BY <1>3
  <2>2. CASE s < InitialLength
    BY <1>2, <1>4, <2>1, <2>2
  <2>3. CASE ~(s < InitialLength)
    <3>1. PICK d \in 1 .. m - 1 : In(d, s)
      BY <1>6, <2>3
    <3>2. Address(s) = <<d, s - Length(d - 1)>>
      BY <1>5, <2>1, <3>1
    <3>3. d # 0 /\ Length(d - 1) \in Nat
      BY <1>2
    <3>4. CASE r < InitialLength
      BY <1>4, <2>1, <3>2, <3>4, <3>3
    <3>5. CASE ~(r < InitialLength)
      <4>1. PICK e \in 1 .. m - 1 : In(e, r)
        BY <1>6, <2>1, <3>5
      <4>2. Address(r) = <<e, r - Length(e - 1)>> /\ Length(e - 1) \in Nat
        BY <1>2, <1>5, <2>1, <4>1
      <4>3. CASE e = d
        BY <2>1, <3>2, <3>3, <4>2, <4>3
      <4>4. CASE e # d
        BY <3>2, <4>2, <4>4
      <4> QED
        BY <4>3, <4>4
    <3> QED
      BY <3>4, <3>5
  <2> QED
    BY <2>2, <2>3
<1>10. {Address(s) : s \in 0 .. a_length - 1} = UNION {{b - 1} \X (0 .. block[b] - 1) : b \in 1 .. m}
  <2> HIDE DEF m
  <2> QED
    BY <1>7, <1>8
<1>11. Cardinality({Address(s) : s \in 0 .. a_length - 1}) = a_length
  <2> DEFINE S == 0 .. a_length - 1
             C == {Address(s) : s \in S}
             f == [s \in S |-> Address(s)]
  <2>1. \A s, r \in S : f[s] = f[r] => s = r
    <3>1. \A s, r \in S : s = r \/ r \in 0 .. s - 1 \/ s \in 0 .. r - 1
      BY <1>3
    <3> QED
      BY <1>9, <3>1
  <2>2. f \in [S -> C] /\ \A c \in C : \E s \in S : f[s] = c
    OBVIOUS
  <2>3. IsFiniteSet(S) /\ Cardinality(S) = a_length
    <3>1. 0 \in Int /\ a_length - 1 \in Int /\ ~(0 > a_length - 1) /\ a_length - 1 - 0 + 1 = a_length
      BY <1>3
    <3> QED
      BY <3>1, FS_Interval, Zenon
  <2> HIDE DEF S, C, f
  <2>4. f \in Surjection(S, C) /\ f \in Injection(S, C)
    BY <2>1, <2>2 DEF Surjection, Injection, IsInjective
  <2>5. Cardinality(C) = Cardinality(S)
    BY <2>3, <2>4, FS_Surjection
  <2> QED
    BY <2>3, <2>5 DEF S, C
<1> HIDE DEF m
<1> QED
  BY <1>1, <1>10, <1>11

(* The invariant of the pool holds.                                        *)
THEOREM PoolInvariance == Spec => []PoolInv
<1>1. Init => PoolInv
  BY InitGeometry
<1>2. IInv /\ PoolInv /\ [Next]_vars => PoolInv'
  BY PoolKept
<1> QED
  BY <1>1, <1>2, Invariance, PTL DEF Spec

(* SlotsHaveMemory.                                                        *)
THEOREM MemoryForSlots == Spec => []SlotsHaveMemory
<1>1. IInv /\ PoolInv => SlotsHaveMemory
  <2> SUFFICES ASSUME IInv, PoolInv PROVE SlotsHaveMemory
    OBVIOUS
  <2>1. AccountInv /\ Geometry /\ LockInv
    BY DEF IInv, PoolInv
  <2>2. \A s \in Slots : s < a_count_max =>
          s < a_length \/ \E t \in Threads : local[t].pc \in GrowPcs /\ local[t].slot = s
    BY <2>1 DEF AccountInv
  <2> QED
    BY <2>1, <2>2, AddressesFit DEF SlotsHaveMemory, GrowPcs, LockInv, LockedPcs
<1> QED
  BY <1>1, Invariance, PoolInvariance, PTL

(* TypeOK.                                                                 *)
THEOREM TypesKept == Spec => []TypeOK
<1>1. IInv /\ PoolInv => TypeOK
  <2> SUFFICES ASSUME IInv, PoolInv PROVE TypeOK
    OBVIOUS
  <2>1. WordTypes /\ ThreadTypes /\ OtherTypes /\ TickInv /\ Geometry
    BY DEF IInv, Types, PoolInv
  <2>2. result \in [Threads -> Slots \union {None}]
    BY DEF PoolInv, Pointers
  <2>3. a_length \in Nat \ {0} /\ block \in Seq(Nat \ {0})
    <3>1. Len(block) - 1 \in 0 .. MaxSlots
      BY <2>1, CacheAssumption DEF Geometry
    <3> QED
      BY <2>1, <3>1, LengthFacts DEF Geometry
  <2>4. persistent \subseteq 0 .. bit_count - 1
    <3>1. CASE client = "ticks"
      BY <2>1, <3>1 DEF TickInv, OtherTypes, Slots
    <3>2. CASE client = "calls"
      BY <3>2 DEF PoolInv
    <3> QED
      BY <2>1, <3>1, <3>2 DEF OtherTypes
  <2>5. stale \subseteq persistent
    BY <2>1 DEF TickInv, ManageInv
  <2> QED
    BY <2>1, <2>2, <2>3, <2>4, <2>5 DEF TypeOK, WordTypes, ThreadTypes, OtherTypes, Nodes
<1> QED
  BY <1>1, Invariance, PoolInvariance, PTL
===============================================================================
