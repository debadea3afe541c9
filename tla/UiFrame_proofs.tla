---------------------------- MODULE UiFrame_proofs ----------------------------
(***************************************************************************)
(* Proofs that TextModeCoherent, FrameTreeExact and TypeOK are invariants  *)
(* of UiFrame.                                                             *)
(*                                                                         *)
(* What is said of the text depends on which nodes exist, so the operations*)
(* of the hierarchy index come first: each keeps a hierarchy Linked, and   *)
(* has the allocated slots and the parents its name promises.  Loose is    *)
(* the state between the two halves of a move.  Then TreeInv: the pruning  *)
(* of a frame meets no node the frame has built.  Then TextInv, by the     *)
(* commands and the steps that queue them.  Last FrameInv: the counts and  *)
(* the links by the same operations, and that the pruning, which takes a   *)
(* node away each time, ends with the orphan stub without a child, when    *)
(* every node that is left is one the frame has built.                     *)
(***************************************************************************)
EXTENDS UiFrame, CommonLemmas

(* Facts of the constants, and what one assignment to a node changes.      *)
LEMMA SlotsAre == Slots \in SUBSET Nat /\ HI_NULL \in Slots /\ HI_ORPHAN_STUB \in Slots
                  /\ HI_ROOT_STUB = HI_NULL /\ HI_ORPHAN_STUB # HI_NULL /\ -1 \notin Slots
  BY HierarchyAssumption DEF Slots, HI_NULL, HI_ROOT_STUB, HI_ORPHAN_STUB

LEMMA FreeIs == Free \in Nodes /\ Alone \in Nodes /\ Free # Alone
  /\ Free.parent = -1 /\ Free.prev = HI_NULL /\ Free.next = HI_NULL
  /\ Free.first = HI_NULL /\ Free.last = HI_NULL
  /\ Alone.parent = HI_NULL /\ Alone.prev = HI_NULL /\ Alone.next = HI_NULL
  /\ Alone.first = HI_NULL /\ Alone.last = HI_NULL
  BY SlotsAre DEF Free, Alone, Nodes, HI_NULL

LEMMA WriteParent ==
  ASSUME NEW h \in [Slots -> Nodes], NEW x \in Slots, NEW v \in Slots
  PROVE  LET r == [h EXCEPT ![x].parent = v]
         IN /\ r \in [Slots -> Nodes]
            /\ \A s \in Slots \ {x} : r[s] = h[s]
            /\ \A s \in Slots :
                   /\ r[s].parent = IF s = x THEN v ELSE h[s].parent
                   /\ r[s].prev = h[s].prev /\ r[s].next = h[s].next /\ r[s].first = h[s].first
                   /\ r[s].last = h[s].last /\ r[s].count = h[s].count
  BY DEF Nodes

LEMMA WritePrev ==
  ASSUME NEW h \in [Slots -> Nodes], NEW x \in Slots, NEW v \in Slots
  PROVE  LET r == [h EXCEPT ![x].prev = v]
         IN /\ r \in [Slots -> Nodes]
            /\ \A s \in Slots \ {x} : r[s] = h[s]
            /\ \A s \in Slots :
                   /\ r[s].prev = IF s = x THEN v ELSE h[s].prev
                   /\ r[s].parent = h[s].parent /\ r[s].next = h[s].next /\ r[s].first = h[s].first
                   /\ r[s].last = h[s].last /\ r[s].count = h[s].count
  BY DEF Nodes

LEMMA WriteNext ==
  ASSUME NEW h \in [Slots -> Nodes], NEW x \in Slots, NEW v \in Slots
  PROVE  LET r == [h EXCEPT ![x].next = v]
         IN /\ r \in [Slots -> Nodes]
            /\ \A s \in Slots \ {x} : r[s] = h[s]
            /\ \A s \in Slots :
                   /\ r[s].next = IF s = x THEN v ELSE h[s].next
                   /\ r[s].parent = h[s].parent /\ r[s].prev = h[s].prev /\ r[s].first = h[s].first
                   /\ r[s].last = h[s].last /\ r[s].count = h[s].count
  BY DEF Nodes

LEMMA WriteFirst ==
  ASSUME NEW h \in [Slots -> Nodes], NEW x \in Slots, NEW v \in Slots
  PROVE  LET r == [h EXCEPT ![x].first = v]
         IN /\ r \in [Slots -> Nodes]
            /\ \A s \in Slots \ {x} : r[s] = h[s]
            /\ \A s \in Slots :
                   /\ r[s].first = IF s = x THEN v ELSE h[s].first
                   /\ r[s].parent = h[s].parent /\ r[s].prev = h[s].prev /\ r[s].next = h[s].next
                   /\ r[s].last = h[s].last /\ r[s].count = h[s].count
  BY DEF Nodes

LEMMA WriteLast ==
  ASSUME NEW h \in [Slots -> Nodes], NEW x \in Slots, NEW v \in Slots
  PROVE  LET r == [h EXCEPT ![x].last = v]
         IN /\ r \in [Slots -> Nodes]
            /\ \A s \in Slots \ {x} : r[s] = h[s]
            /\ \A s \in Slots :
                   /\ r[s].last = IF s = x THEN v ELSE h[s].last
                   /\ r[s].parent = h[s].parent /\ r[s].prev = h[s].prev /\ r[s].next = h[s].next
                   /\ r[s].first = h[s].first /\ r[s].count = h[s].count
  BY DEF Nodes

LEMMA WriteCount ==
  ASSUME NEW h \in [Slots -> Nodes], NEW x \in Slots, NEW v \in Int
  PROVE  LET r == [h EXCEPT ![x].count = v]
         IN /\ r \in [Slots -> Nodes]
            /\ \A s \in Slots \ {x} : r[s] = h[s]
            /\ \A s \in Slots :
                   /\ r[s].parent = h[s].parent /\ r[s].prev = h[s].prev /\ r[s].next = h[s].next
                   /\ r[s].first = h[s].first /\ r[s].last = h[s].last
  BY DEF Nodes

(* r is g but for the prev, or the next, of x, unless x is missing.        *)
PrevSet(r, g, x, v) ==
  /\ r \in [Slots -> Nodes]
  /\ \A s \in Slots \ {x} : r[s] = g[s]
  /\ \A s \in Slots :
       /\ r[s].prev = IF s = x /\ s # HI_NULL THEN v ELSE g[s].prev
       /\ r[s].next = g[s].next /\ r[s].parent = g[s].parent
       /\ r[s].first = g[s].first /\ r[s].last = g[s].last

NextSet(r, g, x, v) ==
  /\ r \in [Slots -> Nodes]
  /\ \A s \in Slots \ {x} : r[s] = g[s]
  /\ \A s \in Slots :
       /\ r[s].next = IF s = x /\ s # HI_NULL THEN v ELSE g[s].next
       /\ r[s].prev = g[s].prev /\ r[s].parent = g[s].parent
       /\ r[s].first = g[s].first /\ r[s].last = g[s].last

(* set_prev and set_next, which do nothing at the null index               *)
LEMMA SetPrevIs ==
  ASSUME NEW g \in [Slots -> Nodes], NEW x \in Slots, NEW v \in Slots
  PROVE  PrevSet(SetPrev(g, x, v), g, x, v)
<1>1. CASE x = HI_NULL
  BY <1>1 DEF SetPrev, PrevSet
<1>2. CASE x # HI_NULL
  BY <1>2, WritePrev DEF SetPrev, PrevSet
<1> QED
  BY <1>1, <1>2

LEMMA SetNextIs ==
  ASSUME NEW g \in [Slots -> Nodes], NEW x \in Slots, NEW v \in Slots
  PROVE  NextSet(SetNext(g, x, v), g, x, v)
<1>1. CASE x = HI_NULL
  BY <1>1 DEF SetNext, NextSet
<1>2. CASE x # HI_NULL
  BY <1>2, WriteNext DEF SetNext, NextSet
<1> QED
  BY <1>1, <1>2

(* r is h with a list that goes from a to w, and back from b to v.         *)
Joined(r, h, a, w, b, v) ==
  /\ r \in [Slots -> Nodes]
  /\ \A s \in Slots \ {a, b} : r[s] = h[s]
  /\ \A s \in Slots :
       /\ r[s].next = IF s = a /\ s # HI_NULL THEN w ELSE h[s].next
       /\ r[s].prev = IF s = b /\ s # HI_NULL THEN v ELSE h[s].prev
       /\ r[s].parent = h[s].parent
       /\ r[s].first = h[s].first /\ r[s].last = h[s].last

LEMMA JoinIs ==
  ASSUME NEW h \in [Slots -> Nodes], NEW a \in Slots, NEW b \in Slots,
         NEW v \in Slots, NEW w \in Slots
  PROVE  Joined(SetNext(SetPrev(h, b, v), a, w), h, a, w, b, v)
<1> SUFFICES ASSUME NEW f, f = SetPrev(h, b, v), NEW r, r = SetNext(f, a, w)
             PROVE  Joined(r, h, a, w, b, v)
  OBVIOUS
<1>1. PrevSet(f, h, b, v)
  BY SetPrevIs
<1>2. f \in [Slots -> Nodes]
  BY <1>1 DEF PrevSet
<1>3. NextSet(r, f, a, w)
  BY <1>2, SetNextIs
<1> QED
  BY <1>1, <1>3 DEF PrevSet, NextSet, Joined

(* Linked, but for node, which is in no list.                              *)
Loose(h, node) ==
  /\ h \in [Slots -> Nodes]
  /\ \A s \in {HI_ROOT_STUB, HI_ORPHAN_STUB} :
       h[s].parent = HI_NULL /\ h[s].prev = HI_NULL /\ h[s].next = HI_NULL
  /\ \A s \in Slots \ {node} : h[s] = Free \/ h[s].parent \in HiAllocated(h) \cup {node}
  /\ \A s \in Slots : HI_ORPHAN_STUB \notin {h[s].first, h[s].last}
  /\ \A s \in Slots, t \in Slots \ {HI_NULL} :
       /\ s # node /\ h[s].next = t => t # node /\ h[t].prev = s /\ h[t].parent = h[s].parent
       /\ s # node /\ h[s].prev = t => t # node /\ h[t].next = s /\ h[t].parent = h[s].parent
       /\ h[s].first = t => t # node /\ h[t].prev = HI_NULL /\ h[t].parent = s
       /\ h[s].last = t => t # node /\ h[t].next = HI_NULL /\ h[t].parent = s
  /\ EndsKnown(h, {HI_ROOT_STUB, HI_ORPHAN_STUB, node})
  /\ ListsEnd(h, {HI_NULL, node}) /\ ParentsEnd(h, {HI_ROOT_STUB, HI_ORPHAN_STUB, node})

(* The fields after the half of an operation that makes node a last child, *)
(* and what is linked then.                                                *)
LEMMA AppendChildIs ==
  ASSUME NEW h \in [Slots -> Nodes], NEW node \in Slots, NEW parent \in Slots,
         node # parent, h[parent].last # node
  PROVE  LET r == AppendChild(h, node, parent)
             last == h[parent].last
         IN /\ r \in [Slots -> Nodes]
            /\ r[node].next = HI_NULL /\ r[node].prev = last /\ r[node].parent = parent
            /\ r[node].first = h[node].first /\ r[node].last = h[node].last
            /\ \A s \in Slots \ {node} :
                 /\ r[s].parent = h[s].parent /\ r[s].prev = h[s].prev
                 /\ r[s].next = IF s = last /\ last # HI_NULL THEN node ELSE h[s].next
                 /\ r[s].last = IF s = parent THEN node ELSE h[s].last
                 /\ r[s].first = IF s = parent /\ last = HI_NULL THEN node ELSE h[s].first
            /\ \A s \in Slots \ {node, parent} : last = HI_NULL \/ s # last => r[s] = h[s]
<1> DEFINE last == h[parent].last
           h1 == [h EXCEPT ![node].parent = parent]
           h2 == [h1 EXCEPT ![node].prev = last]
           h3 == [h2 EXCEPT ![node].next = HI_NULL]
           h4 == SetNext(h3, last, node)
           h5 == [h4 EXCEPT ![parent].count = @ + 1]
           h6 == [h5 EXCEPT ![parent].last = node]
           h7 == [h6 EXCEPT ![parent].first = IF last = HI_NULL THEN node ELSE h4[parent].first]
<1>1. last \in Slots /\ HI_NULL \in Slots
  BY SlotsAre DEF Nodes
<1>2. AppendChild(h, node, parent) = h7
  BY Zenon DEF AppendChild
<1> DEFINE One(r, g, x) == /\ r \in [Slots -> Nodes]
                           /\ \A s \in Slots \ {x} : r[s] = g[s]
<1>3. /\ One(h1, h, node) /\ h1[node].parent = parent
      /\ h1[node].first = h[node].first /\ h1[node].last = h[node].last
  BY WriteParent
<1> HIDE DEF last, h1
<1>4. /\ One(h2, h1, node) /\ h2[node].parent = h1[node].parent /\ h2[node].prev = last
      /\ h2[node].first = h1[node].first /\ h2[node].last = h1[node].last
  BY <1>1, <1>3, WritePrev
<1> HIDE DEF h2
<1>5. /\ One(h3, h2, node) /\ h3[node].parent = h2[node].parent
      /\ h3[node].prev = h2[node].prev /\ h3[node].next = HI_NULL
      /\ h3[node].first = h2[node].first /\ h3[node].last = h2[node].last
  BY <1>1, <1>4, WriteNext
<1> HIDE DEF h3
<1>6. /\ One(h4, h3, last)
      /\ \A s \in Slots :
           /\ h4[s].next = IF s = last /\ last # HI_NULL THEN node ELSE h3[s].next
           /\ h4[s].prev = h3[s].prev /\ h4[s].parent = h3[s].parent
           /\ h4[s].first = h3[s].first /\ h4[s].last = h3[s].last
      /\ last = HI_NULL => h4 = h3
  BY <1>1, <1>5, SetNextIs DEF SetNext, NextSet
<1> HIDE DEF h4
<1>7. /\ One(h5, h4, parent)
      /\ h5[parent].next = h4[parent].next /\ h5[parent].prev = h4[parent].prev
      /\ h5[parent].parent = h4[parent].parent
      /\ h5[parent].first = h4[parent].first /\ h5[parent].last = h4[parent].last
  <2>1. h4[parent].count + 1 \in Int
    BY <1>6 DEF Nodes
  <2> QED
    BY <1>6, <2>1, WriteCount
<1> HIDE DEF h5
<1>8. /\ One(h6, h5, parent)
      /\ h6[parent].next = h5[parent].next /\ h6[parent].prev = h5[parent].prev
      /\ h6[parent].parent = h5[parent].parent
      /\ h6[parent].first = h5[parent].first /\ h6[parent].last = node
  BY <1>7, WriteLast
<1> HIDE DEF h6
<1>9. /\ One(h7, h6, parent)
      /\ h7[parent].next = h6[parent].next /\ h7[parent].prev = h6[parent].prev
      /\ h7[parent].parent = h6[parent].parent /\ h7[parent].last = h6[parent].last
      /\ h7[parent].first = IF last = HI_NULL THEN node ELSE h4[parent].first
  <2> DEFINE v == IF last = HI_NULL THEN node ELSE h4[parent].first
  <2>1. v \in Slots
    BY <1>6 DEF Nodes
  <2>2. h7 = [h6 EXCEPT ![parent].first = v]
    OBVIOUS
  <2> HIDE DEF v, h7
  <2>3. /\ One(h7, h6, parent)
        /\ h7[parent].next = h6[parent].next /\ h7[parent].prev = h6[parent].prev
        /\ h7[parent].parent = h6[parent].parent /\ h7[parent].last = h6[parent].last
        /\ h7[parent].first = v
    BY <1>8, <2>1, <2>2, WriteFirst
  <2> QED
    BY <2>3 DEF v
<1> HIDE DEF h7
<1>10. node # last
  BY DEF last
<1>11. /\ h7[node] = h6[node] /\ h6[node] = h5[node] /\ h5[node] = h4[node] /\ h4[node] = h3[node]
  BY <1>6, <1>7, <1>8, <1>9, <1>10
<1>12. /\ h7[node].next = HI_NULL /\ h7[node].prev = last /\ h7[node].parent = parent
       /\ h7[node].first = h[node].first /\ h7[node].last = h[node].last
  BY <1>3, <1>4, <1>5, <1>11
<1>13. \A s \in Slots \ {node} : h3[s] = h[s]
  BY <1>3, <1>4, <1>5
<1>14. \A s \in Slots \ {parent} : h7[s] = h4[s]
  BY <1>7, <1>8, <1>9
<1>15. \A s \in Slots \ {node} :
          /\ h7[s].parent = h[s].parent /\ h7[s].prev = h[s].prev
          /\ h7[s].next = IF s = last /\ last # HI_NULL THEN node ELSE h[s].next
          /\ h7[s].last = IF s = parent THEN node ELSE h[s].last
          /\ h7[s].first = IF s = parent /\ last = HI_NULL THEN node ELSE h[s].first
  BY <1>6, <1>7, <1>8, <1>9, <1>13, <1>14
<1>16. \A s \in Slots \ {node, parent} : last = HI_NULL \/ s # last => h7[s] = h[s]
  BY <1>6, <1>13, <1>14
<1> QED
  BY <1>2, <1>9, <1>12, <1>15, <1>16 DEF last

LEMMA AppendChildLinks ==
  ASSUME NEW h, NEW node \in Slots \ {HI_ROOT_STUB, HI_ORPHAN_STUB}, NEW parent \in Slots,
         Loose(h, node), node # parent, h[parent] # Free,
         parent \in {HI_ROOT_STUB, HI_ORPHAN_STUB} \/ \A s \in Slots \ {node} : h[s].parent # node
  PROVE  LET r == AppendChild(h, node, parent)
         IN /\ Linked(r)
            /\ HiAllocated(r) = HiAllocated(h) \cup {node}
            /\ r[node].parent = parent
            /\ \A s \in Slots \ {node} : r[s].parent = h[s].parent
<1> DEFINE r == AppendChild(h, node, parent)
           last == h[parent].last
<1>1. h \in [Slots -> Nodes] /\ last \in Slots
  BY DEF Loose, Nodes
<1>2. last # node
  BY <1>1, SlotsAre DEF Loose
<1>3. /\ r \in [Slots -> Nodes]
      /\ r[node].next = HI_NULL /\ r[node].prev = last /\ r[node].parent = parent
      /\ r[node].first = h[node].first /\ r[node].last = h[node].last
      /\ \A s \in Slots \ {node} :
                 /\ r[s].parent = h[s].parent /\ r[s].prev = h[s].prev
                 /\ r[s].next = IF s = last /\ last # HI_NULL THEN node ELSE h[s].next
                 /\ r[s].last = IF s = parent THEN node ELSE h[s].last
                 /\ r[s].first = IF s = parent /\ last = HI_NULL THEN node ELSE h[s].first
      /\ \A s \in Slots \ {node, parent} : last = HI_NULL \/ s # last => r[s] = h[s]
  BY <1>1, <1>2, AppendChildIs
<1> HIDE DEF r
<1>4. last # HI_NULL => h[last].next = HI_NULL /\ h[last].parent = parent
  BY <1>1 DEF Loose
<1>5. \A s \in Slots : r[s] # Free <=> s = node \/ h[s] # Free
  <2>1. r[node] # Free
    BY <1>3, FreeIs, SlotsAre
  <2>2. ASSUME NEW s \in Slots \ {node}, h[s] # Free
        PROVE  r[s] # Free
    <3>1. h[s].parent \in Slots
      BY <2>2 DEF Loose, HiAllocated
    <3> QED
      BY <1>3, <3>1, FreeIs, SlotsAre
  <2>3. ASSUME NEW s \in Slots \ {node}, h[s] = Free
        PROVE  r[s] = Free
    <3>1. s # parent /\ (last = HI_NULL \/ s # last)
      BY <1>4, <2>3, FreeIs, SlotsAre
    <3> QED
      BY <1>3, <2>3, <3>1
  <2> QED
    BY <2>1, <2>2, <2>3
<1>6. HiAllocated(r) = HiAllocated(h) \cup {node}
  BY <1>5 DEF HiAllocated
<1>7. \A s \in {HI_ROOT_STUB, HI_ORPHAN_STUB} :
        r[s].parent = HI_NULL /\ r[s].prev = HI_NULL /\ r[s].next = HI_NULL
  <2>1. last \notin {HI_ROOT_STUB, HI_ORPHAN_STUB} \/ last = HI_NULL
    BY SlotsAre DEF Loose
  <2> QED
    BY <1>3, <2>1, SlotsAre DEF Loose
<1>8. \A s \in Slots : r[s] = Free \/ r[s].parent \in HiAllocated(r)
  <2>1. parent \in HiAllocated(h)
    BY DEF HiAllocated
  <2>2. \A s \in Slots \ {node} : h[s] = Free \/ h[s].parent \in HiAllocated(h) \cup {node}
    BY DEF Loose
  <2> QED
    BY <1>3, <1>5, <1>6, <2>1, <2>2
<1>9. ASSUME NEW s \in Slots, NEW t \in Slots \ {HI_NULL}
      PROVE  /\ r[s].next = t => r[t].prev = s /\ r[t].parent = r[s].parent
             /\ r[s].prev = t => r[t].next = s /\ r[t].parent = r[s].parent
             /\ r[s].first = t => r[t].prev = HI_NULL /\ r[t].parent = s
             /\ r[s].last = t => r[t].next = HI_NULL /\ r[t].parent = s
  <2>1. /\ s # node /\ h[s].next = t => t # node /\ h[t].prev = s /\ h[t].parent = h[s].parent
        /\ s # node /\ h[s].prev = t => t # node /\ h[t].next = s /\ h[t].parent = h[s].parent
        /\ h[s].first = t => t # node /\ h[t].prev = HI_NULL /\ h[t].parent = s
        /\ h[s].last = t => t # node /\ h[t].next = HI_NULL /\ h[t].parent = s
    BY DEF Loose
  <2>2. r[s].next = t => r[t].prev = s /\ r[t].parent = r[s].parent
    BY <1>2, <1>3, <1>4, <2>1
  <2>3. r[s].prev = t => r[t].next = s /\ r[t].parent = r[s].parent
    <3>1. CASE s = node
      BY <1>2, <1>3, <1>4, <3>1
    <3>2. CASE s # node
      <4>1. ASSUME h[s].prev = t
            PROVE  t # node /\ t # last /\ h[t].next = s /\ h[t].parent = h[s].parent
        <5>1. s # HI_NULL
          BY <4>1, SlotsAre DEF Loose
        <5> QED
          BY <1>4, <2>1, <3>2, <4>1, <5>1
      <4> QED
        BY <1>3, <3>2, <4>1
    <3> QED
      BY <3>1, <3>2
  <2>4. r[s].first = t => r[t].prev = HI_NULL /\ r[t].parent = s
    BY <1>2, <1>3, <1>4, <2>1
  <2>5. r[s].last = t => r[t].next = HI_NULL /\ r[t].parent = s
    BY <1>2, <1>3, <1>4, <2>1
  <2> QED
    BY <2>2, <2>3, <2>4, <2>5
<1>10. \A s \in Slots : HI_ORPHAN_STUB \notin {r[s].first, r[s].last}
  BY <1>3, SlotsAre DEF Loose
<1>11. ASSUME NEW S \in SUBSET (Slots \ {HI_NULL}), S # {}
       PROVE  \E s \in S : r[s].next \notin S
  <2>1. CASE node \in S
    BY <1>3, <2>1
  <2>2. CASE node \notin S
    <3>1. S \in SUBSET (Slots \ {HI_NULL, node})
      BY <2>2
    <3>2. PICK s \in S : h[s].next \notin S
      BY <1>11, <3>1 DEF Loose, ListsEnd
    <3> QED
      BY <1>3, <2>2, <3>1, <3>2
  <2> QED
    BY <2>1, <2>2
<1>12. ASSUME NEW S \in SUBSET (Slots \ {HI_ROOT_STUB, HI_ORPHAN_STUB}), S # {}
       PROVE  \E s \in S : r[s].parent \notin S
  <2> DEFINE T == S \ {node}
  <2>1. CASE node \in S /\ parent \notin S
    BY <1>3, <2>1
  <2>2. CASE node \notin S \/ parent \in S
    <3>1. T \in SUBSET (Slots \ {HI_ROOT_STUB, HI_ORPHAN_STUB, node}) /\ T # {}
      BY <1>12, <2>2
    <3>2. PICK s \in T : h[s].parent \notin T
      BY <3>1 DEF Loose, ParentsEnd
    <3>3. s \in S /\ s \in Slots \ {node} /\ r[s].parent = h[s].parent
      BY <1>3, <3>1, <3>2
    <3>4. h[s].parent \notin S
      BY <1>12, <2>2, <3>2, <3>3
    <3> QED
      BY <3>3, <3>4
  <2> QED
    BY <2>1, <2>2
<1>14. EndsKnown(r, {HI_ROOT_STUB, HI_ORPHAN_STUB})
  <2>1. /\ \A s \in Slots : h[s].first = HI_NULL <=> h[s].last = HI_NULL
        /\ \A s \in HiAllocated(h) \ {HI_ROOT_STUB, HI_ORPHAN_STUB, node} :
             /\ h[s].prev = HI_NULL => h[h[s].parent].first = s
             /\ h[s].next = HI_NULL => h[h[s].parent].last = s
    BY DEF Loose, EndsKnown
  <2>2. \A s \in Slots : r[s].first = HI_NULL <=> r[s].last = HI_NULL
    BY <1>1, <1>3, <2>1, SlotsAre
  <2>3. ASSUME NEW s \in HiAllocated(r) \ {HI_ROOT_STUB, HI_ORPHAN_STUB}
        PROVE  /\ r[s].prev = HI_NULL => r[r[s].parent].first = s
               /\ r[s].next = HI_NULL => r[r[s].parent].last = s
    <3>1. CASE s = node
      BY <1>3, <3>1
    <3>2. CASE s # node
      <4>1. s \in Slots \ {node} /\ h[s].parent \in Slots
        BY <1>6, <2>3, <3>2 DEF Loose, HiAllocated
      <4>2. /\ h[s].prev = HI_NULL => h[h[s].parent].first = s
            /\ h[s].next = HI_NULL => h[h[s].parent].last = s
        BY <1>6, <2>1, <2>3, <3>2
      <4>3. s # HI_NULL /\ r[s].parent = h[s].parent /\ r[s].prev = h[s].prev
        BY <1>3, <2>3, <4>1, SlotsAre
      <4>4. r[s].next = HI_NULL => s # last /\ h[s].next = HI_NULL
        BY <1>3, <4>1, <4>3, SlotsAre
      <4>5. ASSUME NEW q \in Slots, h[q].first = s
            PROVE  r[q].first = s
        BY <1>3, <2>1, <4>3, <4>5
      <4>6. ASSUME NEW q \in Slots, h[q].last = s, s # last
            PROVE  r[q].last = s
        BY <1>3, <4>6
      <4> QED
        BY <4>1, <4>2, <4>3, <4>4, <4>5, <4>6
    <3> QED
      BY <3>1, <3>2
  <2> QED
    BY <2>2, <2>3 DEF EndsKnown
<1>13. Linked(r)
  BY <1>3, <1>7, <1>8, <1>9, <1>10, <1>11, <1>12, <1>14 DEF Linked, ListsEnd, ParentsEnd
<1> QED
  BY <1>3, <1>6, <1>13 DEF r

(* The other half: node leaves the list of its parent.                     *)
LEMMA UnlinkIs ==
  ASSUME NEW h \in [Slots -> Nodes], NEW node \in Slots, h[node].parent \in Slots
  PROVE  LET r == Unlink(h, node)
             n == h[node]
             p == h[n.parent]
         IN /\ r \in [Slots -> Nodes]
            /\ \A s \in Slots :
                 /\ r[s].parent = h[s].parent
                 /\ r[s].next = IF s = n.prev /\ s # HI_NULL THEN n.next ELSE h[s].next
                 /\ r[s].prev = IF s = n.next /\ s # HI_NULL THEN n.prev ELSE h[s].prev
                 /\ s # n.parent => r[s].first = h[s].first /\ r[s].last = h[s].last
            /\ r[n.parent].first = IF p.first = p.last THEN HI_NULL
                                   ELSE IF p.first = node THEN n.next ELSE p.first
            /\ r[n.parent].last = IF p.first = p.last THEN HI_NULL
                                  ELSE IF p.first # node /\ p.last = node THEN n.prev ELSE p.last
            /\ \A s \in Slots \ {n.parent, n.prev, n.next} : r[s] = h[s]
<1> DEFINE n == h[node]
           p == h[n.parent]
           h1 == SetPrev(h, n.next, n.prev)
           h2 == SetNext(h1, n.prev, n.next)
           ends == IF p.first = p.last THEN <<HI_NULL, HI_NULL>>
                   ELSE IF p.first = node THEN <<n.next, p.last>>
                   ELSE IF p.last = node THEN <<p.first, n.prev>>
                   ELSE <<p.first, p.last>>
           h3 == [h2 EXCEPT ![n.parent].first = ends[1]]
           h4 == [h3 EXCEPT ![n.parent].last = ends[2]]
           h5 == [h4 EXCEPT ![n.parent].count = h2[n.parent].count - 1]
<1>1. n \in Nodes /\ p \in Nodes /\ n.parent \in Slots
  OBVIOUS
<1>2. Unlink(h, node) = h5
  BY Zenon DEF Unlink
<1> DEFINE One(r, g, x) == /\ r \in [Slots -> Nodes]
                           /\ \A s \in Slots \ {x} : r[s] = g[s]
<1>3. n.prev \in Slots /\ n.next \in Slots
  BY <1>1 DEF Nodes
<1>4. ends[1] \in Slots /\ ends[2] \in Slots
  BY <1>1, SlotsAre DEF Nodes
<1>5. /\ ends[1] = IF p.first = p.last THEN HI_NULL
                   ELSE IF p.first = node THEN n.next ELSE p.first
      /\ ends[2] = IF p.first = p.last THEN HI_NULL
                   ELSE IF p.first # node /\ p.last = node THEN n.prev ELSE p.last
  OBVIOUS
<1> HIDE DEF n, p, ends
<1>7. /\ h2 \in [Slots -> Nodes]
      /\ \A s \in Slots \ {n.prev, n.next} : h2[s] = h[s]
      /\ \A s \in Slots :
           /\ h2[s].next = IF s = n.prev /\ s # HI_NULL THEN n.next ELSE h[s].next
           /\ h2[s].prev = IF s = n.next /\ s # HI_NULL THEN n.prev ELSE h[s].prev
           /\ h2[s].parent = h[s].parent
           /\ h2[s].first = h[s].first /\ h2[s].last = h[s].last
  <2>1. Joined(h2, h, n.prev, n.next, n.next, n.prev)
    BY <1>3, JoinIs
  <2> HIDE DEF h2
  <2> QED
    BY <2>1 DEF Joined
<1> HIDE DEF h2
<1>8. /\ One(h3, h2, n.parent)
      /\ \A s \in Slots :
           /\ h3[s].next = h2[s].next
           /\ h3[s].prev = h2[s].prev /\ h3[s].parent = h2[s].parent
           /\ h3[s].first = IF s = n.parent THEN ends[1] ELSE h2[s].first
           /\ h3[s].last = h2[s].last
  BY <1>1, <1>4, <1>7, WriteFirst
<1> HIDE DEF h3
<1>9. /\ One(h4, h3, n.parent)
      /\ \A s \in Slots :
           /\ h4[s].next = h3[s].next
           /\ h4[s].prev = h3[s].prev /\ h4[s].parent = h3[s].parent
           /\ h4[s].first = h3[s].first
           /\ h4[s].last = IF s = n.parent THEN ends[2] ELSE h3[s].last
  BY <1>1, <1>4, <1>8, WriteLast
<1> HIDE DEF h4
<1>10. /\ One(h5, h4, n.parent)
       /\ \A s \in Slots :
           /\ h5[s].next = h4[s].next
           /\ h5[s].prev = h4[s].prev /\ h5[s].parent = h4[s].parent
           /\ h5[s].first = h4[s].first /\ h5[s].last = h4[s].last
  <2> DEFINE c == h2[n.parent].count - 1
  <2>1. c \in Int
    BY <1>1, <1>7 DEF Nodes
  <2> HIDE DEF c
  <2>2. h5 = [h4 EXCEPT ![n.parent].count = c]
    BY DEF c
  <2> HIDE DEF h5
  <2> QED
    BY <1>1, <1>9, <2>1, <2>2, WriteCount
<1> HIDE DEF h5
<1>11. \A s \in Slots :
         /\ h5[s].parent = h[s].parent
         /\ h5[s].next = IF s = n.prev /\ s # HI_NULL THEN n.next ELSE h[s].next
         /\ h5[s].prev = IF s = n.next /\ s # HI_NULL THEN n.prev ELSE h[s].prev
         /\ s # n.parent => h5[s].first = h[s].first /\ h5[s].last = h[s].last
  BY <1>7, <1>8, <1>9, <1>10
<1>12. h5[n.parent].first = ends[1] /\ h5[n.parent].last = ends[2]
  BY <1>1, <1>8, <1>9, <1>10
<1>13. \A s \in Slots \ {n.parent, n.prev, n.next} : h5[s] = h[s]
  BY <1>7, <1>8, <1>9, <1>10
<1> QED
  BY <1>2, <1>5, <1>10, <1>11, <1>12, <1>13 DEF n, p

(* What it means for r to have the allocated slots of h.                   *)
LEMMA SameAllocated ==
  ASSUME NEW h, NEW r \in [Slots -> Nodes],
         \A s \in Slots : h[s] # Free => r[s].parent \in Slots,
         \A s \in Slots : h[s] = Free => r[s] = h[s]
  PROVE  HiAllocated(r) = HiAllocated(h)
  BY FreeIs, SlotsAre DEF HiAllocated

LEMMA UnlinkLinks ==
  ASSUME NEW h, NEW node \in Slots \ {HI_ROOT_STUB, HI_ORPHAN_STUB}, Linked(h), h[node] # Free
  PROVE  LET r == Unlink(h, node)
         IN /\ Loose(r, node)
            /\ HiAllocated(r) = HiAllocated(h)
            /\ \A s \in Slots : r[s].parent = h[s].parent
<1> DEFINE r == Unlink(h, node)
           n == h[node]
           p == h[n.parent]
<1>1. h \in [Slots -> Nodes] /\ n.parent \in Slots /\ h[n.parent] # Free
  BY DEF Linked, HiAllocated
<1>2. /\ r \in [Slots -> Nodes]
      /\ \A s \in Slots :
           /\ r[s].parent = h[s].parent
           /\ r[s].next = IF s = n.prev /\ s # HI_NULL THEN n.next ELSE h[s].next
           /\ r[s].prev = IF s = n.next /\ s # HI_NULL THEN n.prev ELSE h[s].prev
           /\ s # n.parent => r[s].first = h[s].first /\ r[s].last = h[s].last
      /\ r[n.parent].first = IF p.first = p.last THEN HI_NULL
                             ELSE IF p.first = node THEN n.next ELSE p.first
      /\ r[n.parent].last = IF p.first = p.last THEN HI_NULL
                            ELSE IF p.first # node /\ p.last = node THEN n.prev ELSE p.last
      /\ \A s \in Slots \ {n.parent, n.prev, n.next} : r[s] = h[s]
  BY <1>1, UnlinkIs
<1> HIDE DEF r, p, n
<1>3. n.prev \in Slots /\ n.next \in Slots
  BY <1>1 DEF n, Nodes
<1>4. \A s \in Slots, t \in Slots \ {HI_NULL} :
       /\ h[s].next = t => h[t].prev = s /\ h[t].parent = h[s].parent
       /\ h[s].prev = t => h[t].next = s /\ h[t].parent = h[s].parent
       /\ h[s].first = t => h[t].prev = HI_NULL /\ h[t].parent = s
       /\ h[s].last = t => h[t].next = HI_NULL /\ h[t].parent = s
  BY DEF Linked
<1>5. /\ n.prev # HI_NULL => h[n.prev].parent = n.parent /\ h[n.prev].next = node
      /\ n.next # HI_NULL => h[n.next].parent = n.parent /\ h[n.next].prev = node
  BY <1>3, <1>4 DEF n
<1>13. /\ node # HI_NULL /\ p \in Nodes
       /\ p.first = node => n.prev = HI_NULL
       /\ p.last = node => n.next = HI_NULL
       /\ p.first # HI_NULL => h[p.first].prev = HI_NULL /\ h[p.first].parent = n.parent
       /\ p.last # HI_NULL => h[p.last].next = HI_NULL /\ h[p.last].parent = n.parent
  <2>1. node # HI_NULL /\ p \in Nodes /\ p.first \in Slots /\ p.last \in Slots
    BY <1>1, SlotsAre DEF p, Nodes
  <2> QED
    BY <1>1, <1>4, <2>1 DEF n, p
<1>6. \A s \in {HI_ROOT_STUB, HI_ORPHAN_STUB} :
       h[s].parent = HI_NULL /\ h[s].prev = HI_NULL /\ h[s].next = HI_NULL
  BY DEF Linked
<1>7. \A s \in {HI_ROOT_STUB, HI_ORPHAN_STUB} :
       r[s].parent = HI_NULL /\ r[s].prev = HI_NULL /\ r[s].next = HI_NULL
  <2>1. HI_ORPHAN_STUB \notin {n.prev, n.next}
    BY <1>5, <1>6, SlotsAre
  <2> QED
    BY <1>2, <1>6, <2>1, SlotsAre
<1>8. HiAllocated(r) = HiAllocated(h)
  <2>1. \A s \in Slots : h[s] # Free => r[s].parent \in Slots
    BY <1>2 DEF Linked, HiAllocated
  <2>2. ASSUME NEW s \in Slots, h[s] = Free
        PROVE  r[s] = h[s]
    <3>1. s # n.parent /\ s # HI_NULL
      BY <1>1, <1>6, <2>2, FreeIs, SlotsAre
    <3>2. s # n.prev /\ s # n.next
      BY <1>1, <1>5, <2>2, <3>1, FreeIs, SlotsAre
    <3> QED
      BY <1>2, <3>1, <3>2
  <2> QED
    BY <1>2, <2>1, <2>2, SameAllocated
<1>9. \A s \in Slots \ {node} : r[s] = Free \/ r[s].parent \in HiAllocated(r) \cup {node}
  BY <1>2, <1>8 DEF Linked, HiAllocated
<1>10. \A s \in Slots : HI_ORPHAN_STUB \notin {r[s].first, r[s].last}
  <2>1. HI_ORPHAN_STUB \notin {n.prev, n.next}
    BY <1>5, <1>6, SlotsAre
  <2>2. \A s \in Slots : HI_ORPHAN_STUB \notin {h[s].first, h[s].last}
    BY DEF Linked
  <2> QED
    BY <1>1, <1>2, <2>1, <2>2, SlotsAre DEF p
<1>11. ASSUME NEW s \in Slots, NEW t \in Slots \ {HI_NULL}
       PROVE  /\ s # node /\ r[s].next = t => t # node /\ r[t].prev = s /\ r[t].parent = r[s].parent
              /\ s # node /\ r[s].prev = t => t # node /\ r[t].next = s /\ r[t].parent = r[s].parent
              /\ r[s].first = t => t # node /\ r[t].prev = HI_NULL /\ r[t].parent = s
              /\ r[s].last = t => t # node /\ r[t].next = HI_NULL /\ r[t].parent = s
  <2>1. ASSUME s # node, r[s].next = t
        PROVE  t # node /\ r[t].prev = s /\ r[t].parent = r[s].parent
    <3>1. CASE s = n.prev /\ s # HI_NULL
      BY <1>2, <1>3, <1>4, <1>5, <2>1, <3>1 DEF n
    <3>2. CASE ~(s = n.prev /\ s # HI_NULL)
      <4>1. h[s].next = t
        BY <1>2, <2>1, <3>2
      <4> QED
        BY <1>2, <1>4, <1>5, <1>6, <2>1, <3>2, <4>1, SlotsAre DEF n
    <3> QED
      BY <3>1, <3>2
  <2>2. ASSUME s # node, r[s].prev = t
        PROVE  t # node /\ r[t].next = s /\ r[t].parent = r[s].parent
    <3>1. CASE s = n.next /\ s # HI_NULL
      BY <1>2, <1>3, <1>4, <1>5, <2>2, <3>1 DEF n
    <3>2. CASE ~(s = n.next /\ s # HI_NULL)
      <4>1. h[s].prev = t
        BY <1>2, <2>2, <3>2
      <4> QED
        BY <1>2, <1>4, <1>5, <1>6, <2>2, <3>2, <4>1, SlotsAre DEF n
    <3> QED
      BY <3>1, <3>2
  <2>3. ASSUME r[s].first = t
        PROVE  t # node /\ r[t].prev = HI_NULL /\ r[t].parent = s
    <3>1. CASE s = n.parent
      <4>1. CASE p.first = node
        BY <1>1, <1>2, <1>3, <1>5, <1>13, <2>3, <3>1, <4>1
      <4>2. CASE p.first # node
        <5>1. t = p.first
          BY <1>2, <2>3, <3>1, <4>2
        <5> QED
          BY <1>1, <1>2, <1>5, <1>13, <3>1, <4>2, <5>1
      <4> QED
        BY <4>1, <4>2
    <3>2. CASE s # n.parent
      <4>1. h[s].first = t
        BY <1>2, <2>3, <3>2
      <4> QED
        BY <1>2, <1>4, <1>5, <3>2, <4>1 DEF n
    <3> QED
      BY <3>1, <3>2
  <2>4. ASSUME r[s].last = t
        PROVE  t # node /\ r[t].next = HI_NULL /\ r[t].parent = s
    <3>1. CASE s = n.parent
      <4>1. CASE p.last = node
        BY <1>1, <1>2, <1>3, <1>5, <1>13, <2>4, <3>1, <4>1
      <4>2. CASE p.last # node
        <5>1. t = p.last
          BY <1>2, <2>4, <3>1, <4>2
        <5> QED
          BY <1>1, <1>2, <1>5, <1>13, <3>1, <4>2, <5>1
      <4> QED
        BY <4>1, <4>2
    <3>2. CASE s # n.parent
      <4>1. h[s].last = t
        BY <1>2, <2>4, <3>2
      <4> QED
        BY <1>2, <1>4, <1>5, <3>2, <4>1 DEF n
    <3> QED
      BY <3>1, <3>2
  <2> QED
    BY <2>1, <2>2, <2>3, <2>4
<1>14. ASSUME NEW S \in SUBSET (Slots \ {HI_NULL, node}), S # {}
       PROVE  \E s \in S : r[s].next \notin S
  <2>1. CASE n.prev \in S /\ n.next \in S
    <3> DEFINE T == S \cup {node}
    <3>1. T \in SUBSET (Slots \ {HI_NULL}) /\ T # {}
      BY <1>13
    <3>2. PICK s \in T : h[s].next \notin T
      BY <3>1 DEF Linked, ListsEnd
    <3>3. s # node /\ s # n.prev /\ s \in S
      BY <1>5, <2>1, <3>2 DEF n
    <3> QED
      BY <1>2, <3>2, <3>3
  <2>2. CASE n.prev \in S /\ n.next \notin S
    BY <1>2, <2>2
  <2>3. CASE n.prev \notin S
    <3>1. PICK s \in S : h[s].next \notin S
      BY <1>14 DEF Linked, ListsEnd
    <3> QED
      BY <1>2, <2>3, <3>1
  <2> QED
    BY <2>1, <2>2, <2>3
<1>15. ParentsEnd(r, {HI_ROOT_STUB, HI_ORPHAN_STUB, node})
  <2> SUFFICES ASSUME NEW S \in SUBSET (Slots \ {HI_ROOT_STUB, HI_ORPHAN_STUB, node}), S # {}
               PROVE  \E s \in S : r[s].parent \notin S
    BY DEF ParentsEnd
  <2>1. PICK s \in S : h[s].parent \notin S
    BY DEF Linked, ParentsEnd
  <2> QED
    BY <1>2, <2>1
(* Only an only child is the first and the last.                           *)
<1>16. /\ \A s \in Slots : h[s].first = HI_NULL <=> h[s].last = HI_NULL
       /\ \A s \in HiAllocated(h) \ {HI_ROOT_STUB, HI_ORPHAN_STUB} :
             /\ h[s].prev = HI_NULL => h[h[s].parent].first = s
             /\ h[s].next = HI_NULL => h[h[s].parent].last = s
  BY DEF Linked, EndsKnown
<1>17. p.first = p.last => p.first = node
  <2> SUFFICES ASSUME p.first = p.last, p.first # node
               PROVE  FALSE
    OBVIOUS
  <2> DEFINE S == {s \in HiAllocated(h) \ {HI_ROOT_STUB, HI_ORPHAN_STUB} :
                     h[s].parent = n.parent /\ s # p.first}
  <2>1. S \in SUBSET (Slots \ {HI_NULL}) /\ node \in S
    BY SlotsAre DEF HiAllocated, n
  <2>2. PICK s \in S : h[s].next \notin S
    BY <2>1 DEF Linked, ListsEnd
  <2> DEFINE t == h[s].next
  <2>3. s \in Slots /\ t \in Slots /\ t # HI_NULL
    BY <1>1, <1>16, <2>1, <2>2 DEF p, Nodes
  <2>4. h[t].prev = s /\ h[t].parent = n.parent
    BY <1>4, <2>2, <2>3
  <2>5. t \in HiAllocated(h) \ {HI_ROOT_STUB, HI_ORPHAN_STUB}
    BY <1>1, <1>6, <2>1, <2>2, <2>3, <2>4, FreeIs, SlotsAre DEF HiAllocated
  <2>6. t = p.first
    BY <2>2, <2>4, <2>5
  <2> QED
    BY <1>13, <2>1, <2>2, <2>3, <2>4, <2>6
<1>18. EndsKnown(r, {HI_ROOT_STUB, HI_ORPHAN_STUB, node})
  <2>1. node \in HiAllocated(h) \ {HI_ROOT_STUB, HI_ORPHAN_STUB}
    BY DEF HiAllocated
  <2>2. /\ n.prev = HI_NULL => p.first = node
        /\ n.next = HI_NULL => p.last = node
    BY <1>16, <2>1 DEF n, p
  <2>3. p.first = HI_NULL <=> p.last = HI_NULL
    BY <1>1, <1>16 DEF p
  <2>4. ASSUME NEW s \in Slots
        PROVE  r[s].first = HI_NULL <=> r[s].last = HI_NULL
    <3>1. CASE s = n.parent
      BY <1>1, <1>2, <1>13, <2>2, <2>3, <3>1
    <3>2. CASE s # n.parent
      BY <1>2, <1>16, <3>2
    <3> QED
      BY <3>1, <3>2
  <2>5. ASSUME NEW s \in HiAllocated(r) \ {HI_ROOT_STUB, HI_ORPHAN_STUB, node}
        PROVE  /\ r[s].prev = HI_NULL => r[r[s].parent].first = s
               /\ r[s].next = HI_NULL => r[r[s].parent].last = s
    <3>1. s \in Slots /\ s # HI_NULL /\ s # node /\ r[s].parent = h[s].parent /\ h[s].parent \in Slots
      BY <1>2, <1>8, <2>5, SlotsAre DEF HiAllocated, Linked
    <3>2. /\ h[s].prev = HI_NULL => h[h[s].parent].first = s
          /\ h[s].next = HI_NULL => h[h[s].parent].last = s
      BY <1>8, <1>16, <2>5
    <3>3. CASE s = n.next
      <4>1. r[s].prev = HI_NULL => n.prev = HI_NULL /\ p.first # p.last
        BY <1>2, <1>13, <1>17, <3>1, <3>3
      <4>2. (h[s].parent = n.parent /\ s # n.prev) \/ n.prev = HI_NULL
        <5>1. h[s].parent = n.parent
          BY <1>5, <3>1, <3>3
        <5>2. ASSUME s = n.prev
              PROVE  FALSE
          <6> DEFINE S == {s, node}
          <6>1. S \in SUBSET (Slots \ {HI_NULL}) /\ S # {}
            BY <1>13, <3>1
          <6>2. PICK u \in S : h[u].next \notin S
            BY <6>1 DEF Linked, ListsEnd
          <6> QED
            BY <1>5, <3>1, <3>3, <5>2, <6>2 DEF n
        <5> QED
          BY <5>1, <5>2
      <4>3. h[s].parent = n.parent
        BY <1>5, <3>1, <3>3
      <4>4. r[s].prev = HI_NULL => r[n.parent].first = s
        BY <1>2, <2>2, <3>3, <4>1
      <4>5. r[s].next = HI_NULL => r[n.parent].last = s
        <5>1. s # n.prev
          BY <3>1, <4>2
        <5>2. r[s].next = h[s].next
          BY <1>2, <3>1, <5>1
        <5>3. h[s].next = HI_NULL => p.last = s
          BY <3>2, <4>3 DEF p
        <5> QED
          BY <1>2, <1>17, <3>1, <5>2, <5>3
      <4> QED
        BY <3>1, <4>3, <4>4, <4>5
    <3>4. CASE s # n.next
      <4>1. r[s].prev = HI_NULL => r[h[s].parent].first = s
        <5>1. r[s].prev = h[s].prev
          BY <1>2, <3>1, <3>4
        <5>2. CASE h[s].parent = n.parent
          BY <1>2, <1>17, <3>1, <3>2, <5>1, <5>2 DEF p
        <5>3. CASE h[s].parent # n.parent
          BY <1>2, <3>1, <3>2, <5>1, <5>3
        <5> QED
          BY <5>2, <5>3
      <4>2. r[s].next = HI_NULL => r[h[s].parent].last = s
        <5>1. CASE s = n.prev
          <6>1. h[s].parent = n.parent /\ p.first # node
            BY <1>5, <1>13, <3>1, <5>1
          <6> QED
            BY <1>2, <1>17, <2>2, <3>1, <5>1, <6>1
        <5>2. CASE s # n.prev
          <6>1. r[s].next = h[s].next
            BY <1>2, <3>1, <5>2
          <6>2. CASE h[s].parent = n.parent
            BY <1>2, <1>17, <3>1, <3>2, <6>1, <6>2 DEF p
          <6>3. CASE h[s].parent # n.parent
            BY <1>2, <3>1, <3>2, <6>1, <6>3
          <6> QED
            BY <6>2, <6>3
        <5> QED
          BY <5>1, <5>2
      <4> QED
        BY <3>1, <4>1, <4>2
    <3> QED
      BY <3>3, <3>4
  <2> QED
    BY <2>4, <2>5 DEF EndsKnown
<1>12. Loose(r, node)
  BY <1>2, <1>7, <1>9, <1>10, <1>11, <1>14, <1>15, <1>18 DEF Loose, ListsEnd
<1> QED
  BY <1>2, <1>8, <1>12 DEF r

(* The children of node in its place.                                      *)
LEMMA SpliceIs ==
  ASSUME NEW h \in [Slots -> Nodes], NEW node \in Slots, h[node].parent \in Slots
  PROVE  LET r == Splice(h, node)
             n == h[node]
             head == IF n.first = HI_NULL THEN n.next ELSE n.first
             tail == IF n.last = HI_NULL THEN n.prev ELSE n.last
         IN /\ r \in [Slots -> Nodes]
            /\ \A s \in Slots :
                 /\ r[s].parent = h[s].parent
                 /\ r[s].next = IF s = n.last /\ s # HI_NULL THEN n.next
                                ELSE IF s = n.prev /\ s # HI_NULL THEN head ELSE h[s].next
                 /\ r[s].prev = IF s = n.first /\ s # HI_NULL THEN n.prev
                                ELSE IF s = n.next /\ s # HI_NULL THEN tail ELSE h[s].prev
                 /\ r[s].first = IF s = n.parent /\ h[s].first = node THEN head ELSE h[s].first
                 /\ r[s].last = IF s = n.parent /\ h[s].last = node THEN tail ELSE h[s].last
            /\ \A s \in Slots \ {n.parent, n.prev, n.next, n.first, n.last} : r[s] = h[s]
<1> DEFINE n == h[node]
           p == h[n.parent]
           head == IF n.first = HI_NULL THEN n.next ELSE n.first
           tail == IF n.last = HI_NULL THEN n.prev ELSE n.last
           h1 == SetNext(SetPrev(h, n.next, tail), n.prev, head)
           h2 == SetNext(SetPrev(h1, n.first, n.prev), n.last, n.next)
           h3 == [h2 EXCEPT ![n.parent].first = IF p.first = node THEN head ELSE h2[n.parent].first]
           h4 == [h3 EXCEPT ![n.parent].last = IF p.last = node THEN tail ELSE h2[n.parent].last]
<1>1. /\ n \in Nodes /\ n.parent \in Slots
      /\ {n.prev, n.next, n.first, n.last} \subseteq Slots
  BY DEF Nodes
<1>2. head \in Slots /\ tail \in Slots
  BY <1>1
<1>3. Splice(h, node) = h4
  BY Zenon DEF Splice
<1> DEFINE One(r, g, x) == /\ r \in [Slots -> Nodes]
                           /\ \A s \in Slots \ {x} : r[s] = g[s]
<1> HIDE DEF head, tail
<1>4. /\ h1 \in [Slots -> Nodes]
      /\ \A s \in Slots \ {n.prev, n.next} : h1[s] = h[s]
      /\ \A s \in Slots :
           /\ h1[s].next = IF s = n.prev /\ s # HI_NULL THEN head ELSE h[s].next
           /\ h1[s].prev = IF s = n.next /\ s # HI_NULL THEN tail ELSE h[s].prev
           /\ h1[s].parent = h[s].parent
           /\ h1[s].first = h[s].first /\ h1[s].last = h[s].last
  <2>1. Joined(h1, h, n.prev, head, n.next, tail)
    <3>1. n.prev \in Slots /\ n.next \in Slots
      BY <1>1
    <3> HIDE DEF n
    <3> QED
      BY <1>2, <3>1, JoinIs
  <2> HIDE DEF h1, n
  <2> QED
    BY <2>1 DEF Joined
<1> HIDE DEF n, p, h1
<1>5. /\ h2 \in [Slots -> Nodes]
      /\ \A s \in Slots \ {n.last, n.first} : h2[s] = h1[s]
      /\ \A s \in Slots :
           /\ h2[s].next = IF s = n.last /\ s # HI_NULL THEN n.next ELSE h1[s].next
           /\ h2[s].prev = IF s = n.first /\ s # HI_NULL THEN n.prev ELSE h1[s].prev
           /\ h2[s].parent = h1[s].parent
           /\ h2[s].first = h1[s].first /\ h2[s].last = h1[s].last
  <2>1. h1 \in [Slots -> Nodes]
    BY <1>4
  <2>2. Joined(h2, h1, n.last, n.next, n.first, n.prev)
    BY <1>1, <2>1, JoinIs
  <2> HIDE DEF h2
  <2> QED
    BY <2>2 DEF Joined
<1> HIDE DEF h2
<1>6. /\ One(h3, h2, n.parent)
      /\ \A s \in Slots :
           /\ h3[s].next = h2[s].next
           /\ h3[s].prev = h2[s].prev /\ h3[s].parent = h2[s].parent
           /\ h3[s].first = IF s = n.parent /\ p.first = node THEN head ELSE h2[s].first
           /\ h3[s].last = h2[s].last
  <2> DEFINE v == IF p.first = node THEN head ELSE h2[n.parent].first
  <2>1. h2 \in [Slots -> Nodes] /\ v \in Slots /\ n.parent \in Slots
    BY <1>1, <1>2, <1>5 DEF Nodes
  <2>2. h3 = [h2 EXCEPT ![n.parent].first = v]
    OBVIOUS
  <2> HIDE DEF v, h3
  <2>3. /\ One(h3, h2, n.parent)
        /\ \A s \in Slots :
             /\ h3[s].next = h2[s].next
             /\ h3[s].prev = h2[s].prev /\ h3[s].parent = h2[s].parent
             /\ h3[s].first = IF s = n.parent THEN v ELSE h2[s].first
             /\ h3[s].last = h2[s].last
    BY <2>1, <2>2, WriteFirst
  <2> QED
    BY <2>3 DEF v
<1> HIDE DEF h3
<1>7. /\ One(h4, h3, n.parent)
      /\ \A s \in Slots :
           /\ h4[s].next = h3[s].next
           /\ h4[s].prev = h3[s].prev /\ h4[s].parent = h3[s].parent
           /\ h4[s].first = h3[s].first
           /\ h4[s].last = IF s = n.parent /\ p.last = node THEN tail ELSE h3[s].last
  <2> DEFINE v == IF p.last = node THEN tail ELSE h2[n.parent].last
  <2>1. h3 \in [Slots -> Nodes] /\ v \in Slots /\ n.parent \in Slots
    BY <1>1, <1>2, <1>5, <1>6 DEF Nodes
  <2>2. h4 = [h3 EXCEPT ![n.parent].last = v]
    OBVIOUS
  <2> HIDE DEF v, h4
  <2>3. /\ One(h4, h3, n.parent)
        /\ \A s \in Slots :
             /\ h4[s].next = h3[s].next
             /\ h4[s].prev = h3[s].prev /\ h4[s].parent = h3[s].parent
             /\ h4[s].first = h3[s].first
             /\ h4[s].last = IF s = n.parent THEN v ELSE h3[s].last
    BY <2>1, <2>2, WriteLast
  <2> QED
    BY <1>6, <2>3 DEF v
<1> HIDE DEF h4
<1>8. \A s \in Slots :
        /\ h4[s].parent = h[s].parent
        /\ h4[s].next = IF s = n.last /\ s # HI_NULL THEN n.next
                        ELSE IF s = n.prev /\ s # HI_NULL THEN head ELSE h[s].next
        /\ h4[s].prev = IF s = n.first /\ s # HI_NULL THEN n.prev
                        ELSE IF s = n.next /\ s # HI_NULL THEN tail ELSE h[s].prev
  BY <1>4, <1>5, <1>6, <1>7
<1>9. \A s \in Slots :
        /\ h4[s].first = IF s = n.parent /\ h[s].first = node THEN head ELSE h[s].first
        /\ h4[s].last = IF s = n.parent /\ h[s].last = node THEN tail ELSE h[s].last
  BY <1>1, <1>4, <1>5, <1>6, <1>7 DEF p
<1>10. \A s \in Slots \ {n.parent, n.prev, n.next, n.first, n.last} : h4[s] = h[s]
  BY <1>4, <1>5, <1>6, <1>7
<1> QED
  BY <1>3, <1>7, <1>8, <1>9, <1>10 DEF n, head, tail

(* hi_AdoptNode                                                            *)
LEMMA AdoptNodeLinks ==
  ASSUME NEW h, NEW node \in Slots \ {HI_ROOT_STUB, HI_ORPHAN_STUB},
         NEW parent \in {HI_ROOT_STUB, HI_ORPHAN_STUB}, Linked(h), h[node] # Free
  PROVE  LET r == AdoptNode(h, node, parent)
         IN /\ Linked(r)
            /\ HiAllocated(r) = HiAllocated(h)
            /\ r[node].parent = parent
            /\ \A s \in Slots \ {node} : r[s].parent = h[s].parent
<1> SUFFICES ASSUME NEW g, g = Unlink(h, node)
             PROVE  LET r == AppendChild(g, node, parent)
                    IN /\ Linked(r)
                       /\ HiAllocated(r) = HiAllocated(h)
                       /\ r[node].parent = parent
                       /\ \A s \in Slots \ {node} : r[s].parent = h[s].parent
  BY DEF AdoptNode
<1>1. /\ Loose(g, node) /\ HiAllocated(g) = HiAllocated(h)
      /\ \A s \in Slots : g[s].parent = h[s].parent
  BY UnlinkLinks
<1>2. /\ node # parent /\ parent \in Slots
      /\ g[parent] # Free /\ HiAllocated(g) \cup {node} = HiAllocated(h)
  <2>1. parent \in Slots /\ g[parent].parent = HI_NULL
    BY <1>1, SlotsAre DEF Loose
  <2> QED
    BY <1>1, <2>1, FreeIs, SlotsAre DEF HiAllocated
<1>3. LET r == AppendChild(g, node, parent)
      IN /\ Linked(r)
         /\ HiAllocated(r) = HiAllocated(g) \cup {node}
         /\ r[node].parent = parent
         /\ \A s \in Slots \ {node} : r[s].parent = g[s].parent
  BY <1>1, <1>2, AppendChildLinks
<1> QED
  BY <1>1, <1>2, <1>3

(* SubHierarchy is the least set with node and the children of its members.*)
LEMMA SubHierarchyIs ==
  ASSUME NEW h \in [Slots -> Nodes], NEW node \in HiAllocated(h)
  PROVE  LET R == SubHierarchy(h, node)
             Child(s, S) == s \in HiAllocated(h) /\ h[s].parent \in S /\ s > HI_ORPHAN_STUB
         IN /\ R \in SUBSET HiAllocated(h) /\ node \in R
            /\ \A s : Child(s, R) => s \in R
            /\ \A S \in SUBSET HiAllocated(h) :
                 node \in S /\ (\A s : Child(s, S) => s \in S) => R \subseteq S
<1> DEFINE U == HiAllocated(h)
           Within[depth \in 0 .. MaxSlots] ==
             IF depth = 0 THEN {node}
             ELSE LET nearer == Within[depth - 1]
                  IN nearer \cup {s \in Slots : h[s] # Free /\ h[s].parent \in nearer /\ s > HI_ORPHAN_STUB}
           Wider(S) == S \cup {s \in Slots : h[s] # Free /\ h[s].parent \in S /\ s > HI_ORPHAN_STUB}
           F == [S \in SUBSET U |-> Wider(S)]
           c == Cardinality(U)
<1>1. SubHierarchy(h, node) = Within[c]
  BY DEF SubHierarchy
<1>2. F \in [SUBSET U -> SUBSET U] /\ \A S \in SUBSET U : S \subseteq F[S]
  BY DEF HiAllocated
<1>3. {node} \in SUBSET U /\ {node} # {} /\ MaxSlots \in Nat
  BY HierarchyAssumption
<1>4. PICK f : Iteration(f, MaxSlots, F, {node}, SUBSET U)
  <2> HIDE DEF U, F
  <2> QED
    BY <1>2, <1>3, Iterates
<1>5. \A n \in 0 .. MaxSlots : f[n] \in SUBSET U
  BY <1>4 DEF Iteration
<1>6. \A n \in 1 .. MaxSlots : n - 1 \in 0 .. MaxSlots /\ f[n] = Wider(f[n - 1])
  <2>1. \A n \in 1 .. MaxSlots : n - 1 \in 0 .. MaxSlots
    BY <1>3
  <2> QED
    BY <1>4, <1>5, <2>1 DEF Iteration
<1>7. f = [depth \in 0 .. MaxSlots |-> IF depth = 0 THEN {node} ELSE Wider(f[depth - 1])]
  <2>1. \A n \in 0 .. MaxSlots : n # 0 => n \in 1 .. MaxSlots
    BY <1>3
  <2>2. \A n \in 0 .. MaxSlots : f[n] = IF n = 0 THEN {node} ELSE Wider(f[n - 1])
    BY <1>4, <1>6, <2>1 DEF Iteration
  <2> HIDE DEF U
  <2> QED
    BY <1>4, <2>2 DEF Iteration
<1>8. Within = [depth \in 0 .. MaxSlots |-> IF depth = 0 THEN {node} ELSE Wider(Within[depth - 1])]
  BY <1>7
<1> HIDE DEF Within
<1>9. \A n \in 0 .. MaxSlots : Within[n] = f[n]
  <2> DEFINE P == {n \in Nat : n \in 0 .. MaxSlots => Within[n] = f[n]}
             G(w, n) == IF n = 0 THEN {node} ELSE Wider(w[n - 1])
  <2>1. \A n \in 0 .. MaxSlots : Within[n] = G(Within, n) /\ f[n] = G(f, n)
    BY <1>7, <1>8
  <2>2. 0 \in P
    BY <1>3, <2>1
  <2>3. ASSUME NEW n \in Nat, n \in P
        PROVE  n + 1 \in P
    <3>1. ASSUME n + 1 \in 0 .. MaxSlots
          PROVE  Within[n + 1] = f[n + 1]
      <4>1. n + 1 - 1 = n /\ n \in 0 .. MaxSlots /\ n + 1 # 0
        BY <3>1, <1>3
      <4> HIDE DEF Wider
      <4>2. Within[n + 1] = Wider(Within[n]) /\ f[n + 1] = Wider(f[n])
        <5>1. Within[n + 1] = G(Within, n + 1) /\ f[n + 1] = G(f, n + 1)
          BY <2>1, <3>1
        <5> QED
          BY <4>1, <5>1
      <4> QED
        BY <2>3, <4>1, <4>2
    <3> QED
      BY <3>1
  <2>4. \A n \in Nat : n \in P
    <3> HIDE DEF P
    <3> QED
      BY <2>2, <2>3, Induction
  <2> QED
    BY <2>4
<1>10. IsFiniteSet(U) /\ c \in 0 .. MaxSlots
  <2>1. IsFiniteSet(Slots) /\ Cardinality(Slots) = MaxSlots
    <3>1. 0 \in Int /\ MaxSlots - 1 \in Int /\ ~(0 > MaxSlots - 1) /\ MaxSlots - 1 - 0 + 1 = MaxSlots
      BY HierarchyAssumption
    <3>2. IsFiniteSet(0 .. MaxSlots - 1) /\ Cardinality(0 .. MaxSlots - 1) = MaxSlots - 1 - 0 + 1
      BY <3>1, FS_Interval, Zenon
    <3> QED
      BY <3>1, <3>2 DEF Slots
  <2>2. U \subseteq Slots
    BY DEF HiAllocated
  <2> HIDE DEF U
  <2>3. IsFiniteSet(U) /\ c \in Nat /\ c <= MaxSlots
    BY <2>1, <2>2, FS_Subset, FS_CardinalityType
  <2> QED
    BY <2>3, <1>3
<1>11. Within[c] = f[c] /\ f[c] \in SUBSET U
  BY <1>5, <1>9, <1>10
<1>12. F[f[c]] = f[c]
  <2> HIDE DEF U, F
  <2> DEFINE x == {node}
             D == SUBSET U
  <2>1. x \in D /\ x # {} /\ Iteration(f, MaxSlots, F, x, D)
    BY <1>3, <1>4
  <2>2. Widens(F, U)
    BY <1>2 DEF Widens
  <2>3. IsFiniteSet(U) /\ c \in 0 .. MaxSlots /\ Cardinality(U) <= c
    BY <1>10
  <2> HIDE DEF x, F, U, c
  <2> QED
    BY <1>3, <2>1, <2>2, <2>3, Saturates
<1>13. node \in f[c]
  <2> DEFINE C == {S \in SUBSET U : node \in S}
  <2>1. C \in SUBSET (SUBSET U) /\ {node} \in C
    BY <1>3
  <2>4. \A y \in C : F[y] \in C
    BY <1>2
  <2> HIDE DEF C, F, U
  <2>2. \A n \in 0 .. MaxSlots : f[n] \in C
    <3> DEFINE x == {node}
               D == SUBSET U
    <3>1. /\ x \in D /\ MaxSlots \in Nat /\ Iteration(f, MaxSlots, F, x, D) /\ F \in [D -> D]
          /\ x \in C /\ C \in SUBSET D
      BY <1>2, <1>3, <1>4, <2>1
    <3> HIDE DEF x, D
    <3> QED
      BY <2>4, <3>1, IterationWithin
  <2>3. f[c] \in C
    BY <1>10, <2>2
  <2> QED
    BY <2>3 DEF C
<1>14. \A s : s \in U /\ h[s].parent \in f[c] /\ s > HI_ORPHAN_STUB => s \in f[c]
  <2>1. Wider(f[c]) = f[c]
    BY <1>11, <1>12
  <2> QED
    BY <2>1 DEF HiAllocated
<1>15. ASSUME NEW S \in SUBSET U, node \in S,
              \A s : s \in U /\ h[s].parent \in S /\ s > HI_ORPHAN_STUB => s \in S
       PROVE  f[c] \subseteq S
  <2> DEFINE C == {T \in SUBSET U : T \subseteq S}
  <2>1. C \in SUBSET (SUBSET U) /\ {node} \in C
    BY <1>3, <1>15
  <2>2. \A y \in C : F[y] \in C
    BY <1>2, <1>15 DEF HiAllocated
  <2> HIDE DEF C, F, U
  <2>3. \A n \in 0 .. MaxSlots : f[n] \in C
    BY <1>2, <1>3, <1>4, <2>1, <2>2, IterationWithin
  <2>4. f[c] \in C
    BY <1>10, <2>3
  <2> QED
    BY <2>4 DEF C
<1> QED
  BY <1>1, <1>11, <1>13, <1>14, <1>15

(* hi_ApplyCustomFreeAndRemove                                             *)
LEMMA RemoveLinks ==
  ASSUME NEW h, NEW node \in Slots \ {HI_ROOT_STUB, HI_ORPHAN_STUB}, Linked(h), h[node] # Free
  PROVE  LET r == RemoveSubHierarchy(h, node)
             gone == SubHierarchy(h, node)
         IN /\ Linked(r)
            /\ HiAllocated(r) = HiAllocated(h) \ gone
            /\ \A s \in Slots \ gone : r[s].parent = h[s].parent
<1> DEFINE g == Unlink(h, node)
           gone == SubHierarchy(h, node)
           r == [s \in Slots |-> IF s \in gone THEN Free ELSE g[s]]
<1>1. /\ Loose(g, node) /\ HiAllocated(g) = HiAllocated(h)
      /\ \A s \in Slots : g[s].parent = h[s].parent
  BY UnlinkLinks
<1>2. h \in [Slots -> Nodes] /\ node \in HiAllocated(h)
  BY DEF Linked, HiAllocated
<1>3. /\ gone \in SUBSET HiAllocated(h) /\ node \in gone
      /\ \A s : s \in HiAllocated(h) /\ h[s].parent \in gone /\ s > HI_ORPHAN_STUB => s \in gone
      /\ \A S \in SUBSET HiAllocated(h) :
            /\ node \in S
            /\ \A s : s \in HiAllocated(h) /\ h[s].parent \in S /\ s > HI_ORPHAN_STUB => s \in S
            => gone \subseteq S
  BY <1>2, SubHierarchyIs
<1>4. RemoveSubHierarchy(h, node) = r
  BY DEF RemoveSubHierarchy
<1> HIDE DEF g, gone
<1>5. g \in [Slots -> Nodes]
  BY <1>1 DEF Loose
<1>6. /\ r \in [Slots -> Nodes]
      /\ \A s \in Slots \ gone : r[s] = g[s]
      /\ \A s \in gone : s \in Slots /\ r[s] = Free
  BY <1>3, <1>5, FreeIs DEF HiAllocated
<1> HIDE DEF r
<1>7. ASSUME NEW s \in gone, s # node
      PROVE  h[s].parent \in gone /\ s > HI_ORPHAN_STUB
  <2> DEFINE S == {t \in gone : t = node \/ (h[t].parent \in gone /\ t > HI_ORPHAN_STUB)}
  <2>1. S \in SUBSET HiAllocated(h) /\ node \in S
    BY <1>3
  <2>2. \A t : t \in HiAllocated(h) /\ h[t].parent \in S /\ t > HI_ORPHAN_STUB => t \in S
    BY <1>3
  <2>3. gone \subseteq S
    <3> HIDE DEF S
    <3> QED
      BY <1>3, <2>1, <2>2
  <2> QED
    BY <1>7, <2>3
<1>8. HI_ROOT_STUB \notin gone /\ HI_ORPHAN_STUB \notin gone
  BY <1>7 DEF HI_ROOT_STUB, HI_ORPHAN_STUB
<1>9. HiAllocated(r) = HiAllocated(h) \ gone
  BY <1>1, <1>6 DEF HiAllocated
<1>10. \A s \in Slots \ gone : r[s].parent = h[s].parent
  BY <1>1, <1>6
<1>11. \A s \in {HI_ROOT_STUB, HI_ORPHAN_STUB} :
        r[s].parent = HI_NULL /\ r[s].prev = HI_NULL /\ r[s].next = HI_NULL
  BY <1>1, <1>6, <1>8, SlotsAre DEF Loose
<1>12. ASSUME NEW s \in Slots, r[s] # Free
       PROVE  r[s].parent \in HiAllocated(r)
  <2>1. s \in HiAllocated(h) \ gone
    BY <1>9, <1>12 DEF HiAllocated
  <2>2. h[s].parent \in HiAllocated(h)
    BY <2>1 DEF Linked, HiAllocated
  <2>3. CASE s > HI_ORPHAN_STUB
    BY <1>3, <1>9, <1>10, <2>1, <2>2, <2>3
  <2>4. CASE ~(s > HI_ORPHAN_STUB)
    <3>1. s = HI_ROOT_STUB \/ s = HI_ORPHAN_STUB
      BY <2>4 DEF Slots, HI_ROOT_STUB, HI_ORPHAN_STUB
    <3>2. h[s].parent = HI_ROOT_STUB
      BY <3>1, SlotsAre DEF Linked
    <3> QED
      BY <1>8, <1>9, <1>10, <2>1, <2>2, <3>2
  <2> QED
    BY <2>3, <2>4
<1>13. \A s \in Slots : HI_ORPHAN_STUB \notin {r[s].first, r[s].last}
  BY <1>1, <1>6, FreeIs, SlotsAre DEF Loose
<1>14. ASSUME NEW s \in Slots, NEW t \in Slots \ {HI_NULL}
       PROVE  /\ r[s].next = t => r[t].prev = s /\ r[t].parent = r[s].parent
              /\ r[s].prev = t => r[t].next = s /\ r[t].parent = r[s].parent
              /\ r[s].first = t => r[t].prev = HI_NULL /\ r[t].parent = s
              /\ r[s].last = t => r[t].next = HI_NULL /\ r[t].parent = s
  <2>1. CASE s \in gone
    BY <1>6, <2>1, FreeIs
  <2>2. CASE s \notin gone
    <3>1. r[s] = g[s] /\ s # node
      BY <1>3, <1>6, <2>2
    <3>2. /\ g[s].next = t => t # node /\ g[t].prev = s /\ g[t].parent = g[s].parent
          /\ g[s].prev = t => t # node /\ g[t].next = s /\ g[t].parent = g[s].parent
          /\ g[s].first = t => t # node /\ g[t].prev = HI_NULL /\ g[t].parent = s
          /\ g[s].last = t => t # node /\ g[t].next = HI_NULL /\ g[t].parent = s
      BY <1>1, <3>1 DEF Loose
    <3>3. ASSUME t \in gone, t # node
          PROVE  g[t].parent # g[s].parent /\ g[t].parent # s
      <4>1. h[t].parent \in gone /\ g[t].parent = h[t].parent /\ g[s].parent = h[s].parent
        BY <1>1, <1>7, <3>3
      <4>2. h[s].parent \notin gone
        <5>1. SUFFICES ASSUME h[s].parent \in gone PROVE FALSE
          OBVIOUS
        <5>2. h[s] # Free
          BY <1>3, <5>1, FreeIs, SlotsAre DEF HiAllocated
        <5>3. ~(s > HI_ORPHAN_STUB)
          BY <1>3, <2>2, <5>1, <5>2 DEF HiAllocated
        <5>4. s = HI_ROOT_STUB \/ s = HI_ORPHAN_STUB
          BY <5>3 DEF Slots, HI_ROOT_STUB, HI_ORPHAN_STUB
        <5>5. h[s].parent = HI_ROOT_STUB
          BY <5>4, SlotsAre DEF Linked
        <5> QED
          BY <1>8, <5>1, <5>5
      <4> QED
        BY <2>2, <4>1, <4>2
    <3>4. ASSUME t \notin gone
          PROVE  r[t] = g[t]
      BY <1>6, <3>4
    <3> QED
      BY <3>1, <3>2, <3>3, <3>4
  <2> QED
    BY <2>1, <2>2
<1>16. ASSUME NEW S \in SUBSET (Slots \ {HI_NULL}), S # {}
       PROVE  \E s \in S : r[s].next \notin S
  <2>1. CASE \E s \in S : s \in gone
    BY <1>6, <2>1, FreeIs
  <2>2. CASE \A s \in S : s \notin gone
    <3>1. S \in SUBSET (Slots \ {HI_NULL, node})
      BY <1>3, <2>2
    <3>2. PICK s \in S : g[s].next \notin S
      BY <1>1, <1>16, <3>1 DEF Loose, ListsEnd
    <3> QED
      BY <1>6, <2>2, <3>2
  <2> QED
    BY <2>1, <2>2
<1>17. ASSUME NEW S \in SUBSET (Slots \ {HI_ROOT_STUB, HI_ORPHAN_STUB}), S # {}
       PROVE  \E s \in S : r[s].parent \notin S
  <2>1. CASE \E s \in S : s \in gone
    BY <1>6, <2>1, FreeIs, SlotsAre
  <2>2. CASE \A s \in S : s \notin gone
    <3>1. S \in SUBSET (Slots \ {HI_ROOT_STUB, HI_ORPHAN_STUB, node})
      BY <1>3, <2>2
    <3>2. PICK s \in S : g[s].parent \notin S
      BY <1>1, <1>17, <3>1 DEF Loose, ParentsEnd
    <3> QED
      BY <1>6, <2>2, <3>2
  <2> QED
    BY <2>1, <2>2
<1>18. EndsKnown(r, {HI_ROOT_STUB, HI_ORPHAN_STUB})
  <2>1. /\ \A s \in Slots : g[s].first = HI_NULL <=> g[s].last = HI_NULL
        /\ \A s \in HiAllocated(g) \ {HI_ROOT_STUB, HI_ORPHAN_STUB, node} :
             /\ g[s].prev = HI_NULL => g[g[s].parent].first = s
             /\ g[s].next = HI_NULL => g[g[s].parent].last = s
    BY <1>1 DEF Loose, EndsKnown
  <2>2. \A s \in Slots : r[s].first = HI_NULL <=> r[s].last = HI_NULL
    BY <1>6, <2>1, FreeIs
  <2>3. ASSUME NEW s \in HiAllocated(r) \ {HI_ROOT_STUB, HI_ORPHAN_STUB}
        PROVE  /\ r[s].prev = HI_NULL => r[r[s].parent].first = s
               /\ r[s].next = HI_NULL => r[r[s].parent].last = s
    <3>1. s \in Slots \ gone /\ s \in HiAllocated(g) \ {HI_ROOT_STUB, HI_ORPHAN_STUB, node}
      BY <1>1, <1>3, <1>9, <2>3 DEF HiAllocated
    <3>2. r[s] = g[s] /\ g[s].parent \in Slots \ gone
      BY <1>6, <1>9, <1>12, <2>3, <3>1 DEF HiAllocated
    <3> QED
      BY <1>6, <2>1, <3>1, <3>2
  <2> QED
    BY <2>2, <2>3 DEF EndsKnown
<1>15. Linked(r)
  BY <1>6, <1>11, <1>12, <1>13, <1>14, <1>16, <1>17, <1>18 DEF Linked, ListsEnd, ParentsEnd
<1> QED
  BY <1>4, <1>9, <1>10, <1>15 DEF gone

(* hi_AdoptNodeExclusive                                                   *)
LEMMA AdoptNodeExclusiveLinks ==
  ASSUME NEW h, NEW node \in Slots \ {HI_ROOT_STUB, HI_ORPHAN_STUB}, NEW parent \in Slots,
         Linked(h), h[node] # Free, node # parent, h[parent] # Free
  PROVE  LET r == AdoptNodeExclusive(h, node, parent)
         IN /\ Linked(r)
            /\ HiAllocated(r) = HiAllocated(h)
            /\ r[node].parent = parent
            /\ \A s \in Slots \ {node} :
                 r[s].parent = IF h[s].parent = node THEN h[node].parent ELSE h[s].parent
<1> DEFINE n == h[node]
           head == IF n.first = HI_NULL THEN n.next ELSE n.first
           tail == IF n.last = HI_NULL THEN n.prev ELSE n.last
           counted == [h EXCEPT ![n.parent].count = h[n.parent].count + n.count - 1]
           spliced == Splice(counted, node)
           left == [s \in Slots |->
                     IF s = node THEN Alone
                     ELSE IF h[s].parent = node THEN [spliced[s] EXCEPT !.parent = n.parent]
                     ELSE spliced[s]]
<1>1. AdoptNodeExclusive(h, node, parent) = AppendChild(left, node, parent)
  BY DEF AdoptNodeExclusive
<1>2. /\ h \in [Slots -> Nodes] /\ n \in Nodes /\ n.parent \in Slots /\ h[n.parent] # Free
      /\ {n.prev, n.next, n.first, n.last} \subseteq Slots
  <2>1. h \in [Slots -> Nodes] /\ n.parent \in HiAllocated(h)
    BY DEF Linked
  <2>2. n \in Nodes
    BY <2>1
  <2> QED
    BY <2>1, <2>2 DEF HiAllocated, Nodes
<1>3. /\ counted \in [Slots -> Nodes]
      /\ \A s \in Slots \ {n.parent} : counted[s] = h[s]
      /\ \A s \in Slots :
           /\ counted[s].parent = h[s].parent /\ counted[s].prev = h[s].prev
           /\ counted[s].next = h[s].next
           /\ counted[s].first = h[s].first /\ counted[s].last = h[s].last
  <2> DEFINE c == h[n.parent].count + n.count - 1
  <2>1. c \in Int
    BY <1>2 DEF Nodes
  <2> HIDE DEF c, n
  <2>2. LET r == [h EXCEPT ![n.parent].count = c]
        IN /\ r \in [Slots -> Nodes]
           /\ \A s \in Slots \ {n.parent} : r[s] = h[s]
           /\ \A s \in Slots :
                /\ r[s].parent = h[s].parent /\ r[s].prev = h[s].prev /\ r[s].next = h[s].next
                /\ r[s].first = h[s].first /\ r[s].last = h[s].last
    BY <1>2, <2>1, WriteCount
  <2> QED
    BY <2>2 DEF c
<1> HIDE DEF counted
<1>4. /\ spliced \in [Slots -> Nodes]
      /\ \A s \in Slots :
           /\ spliced[s].parent = h[s].parent
           /\ spliced[s].next = IF s = n.last /\ s # HI_NULL THEN n.next
                                ELSE IF s = n.prev /\ s # HI_NULL THEN head ELSE h[s].next
           /\ spliced[s].prev = IF s = n.first /\ s # HI_NULL THEN n.prev
                                ELSE IF s = n.next /\ s # HI_NULL THEN tail ELSE h[s].prev
           /\ spliced[s].first = IF s = n.parent /\ h[s].first = node THEN head ELSE h[s].first
           /\ spliced[s].last = IF s = n.parent /\ h[s].last = node THEN tail ELSE h[s].last
      /\ \A s \in Slots \ {n.parent, n.prev, n.next, n.first, n.last} : spliced[s] = counted[s]
  <2> DEFINE m == counted[node]
             head1 == IF m.first = HI_NULL THEN m.next ELSE m.first
             tail1 == IF m.last = HI_NULL THEN m.prev ELSE m.last
  <2>1. /\ m.parent = n.parent /\ m.prev = n.prev /\ m.next = n.next
        /\ m.first = n.first /\ m.last = n.last
    BY <1>3
  <2>2. m.parent \in Slots /\ head1 = head /\ tail1 = tail
    BY <1>2, <2>1
  <2>3. /\ spliced \in [Slots -> Nodes]
        /\ \A s \in Slots :
             /\ spliced[s].parent = counted[s].parent
             /\ spliced[s].next = IF s = m.last /\ s # HI_NULL THEN m.next
                                  ELSE IF s = m.prev /\ s # HI_NULL THEN head1 ELSE counted[s].next
             /\ spliced[s].prev = IF s = m.first /\ s # HI_NULL THEN m.prev
                                  ELSE IF s = m.next /\ s # HI_NULL THEN tail1 ELSE counted[s].prev
             /\ spliced[s].first = IF s = m.parent /\ counted[s].first = node THEN head1
                                   ELSE counted[s].first
             /\ spliced[s].last = IF s = m.parent /\ counted[s].last = node THEN tail1
                                  ELSE counted[s].last
        /\ \A s \in Slots \ {m.parent, m.prev, m.next, m.first, m.last} : spliced[s] = counted[s]
    BY <1>3, <2>2, SpliceIs
  <2> HIDE DEF m, head1, tail1, spliced, head, tail, n
  <2> QED
    BY <1>3, <2>1, <2>2, <2>3
<1> HIDE DEF spliced
<1>5. /\ left \in [Slots -> Nodes] /\ left[node] = Alone
      /\ \A s \in Slots \ {node} :
           /\ left[s].parent = IF h[s].parent = node THEN n.parent ELSE h[s].parent
           /\ left[s].next = spliced[s].next /\ left[s].prev = spliced[s].prev
           /\ left[s].first = spliced[s].first /\ left[s].last = spliced[s].last
           /\ h[s].parent # node => left[s] = spliced[s]
  <2> HIDE DEF n
  <2>1. ASSUME NEW s \in Slots
        PROVE  [spliced[s] EXCEPT !.parent = n.parent] \in Nodes
    <3>1. ASSUME NEW m \in Nodes, NEW v \in Slots
          PROVE  [m EXCEPT !.parent = v] \in Nodes
      BY DEF Nodes
    <3> QED
      BY <1>2, <1>4, <3>1
  <2>2. left \in [Slots -> Nodes]
    BY <1>4, <2>1, FreeIs
  <2>3. left[node] = Alone
    OBVIOUS
  <2>4. ASSUME NEW s \in Slots \ {node}
        PROVE  /\ left[s].parent = IF h[s].parent = node THEN n.parent ELSE h[s].parent
               /\ left[s].next = spliced[s].next /\ left[s].prev = spliced[s].prev
               /\ left[s].first = spliced[s].first /\ left[s].last = spliced[s].last
               /\ h[s].parent # node => left[s] = spliced[s]
    <3>1. spliced[s] \in Nodes /\ spliced[s].parent = h[s].parent
      BY <1>4
    <3> QED
      BY <3>1 DEF Nodes
  <2> HIDE DEF left
  <2> QED
    BY <2>2, <2>3, <2>4
<1> HIDE DEF left
<1>6. \A s \in Slots \ {node} :
        /\ left[s].next = IF s = n.last /\ s # HI_NULL THEN n.next
                          ELSE IF s = n.prev /\ s # HI_NULL THEN head ELSE h[s].next
        /\ left[s].prev = IF s = n.first /\ s # HI_NULL THEN n.prev
                          ELSE IF s = n.next /\ s # HI_NULL THEN tail ELSE h[s].prev
        /\ left[s].first = IF s = n.parent /\ h[s].first = node THEN head ELSE h[s].first
        /\ left[s].last = IF s = n.parent /\ h[s].last = node THEN tail ELSE h[s].last
  BY <1>4, <1>5
<1>7. \A s \in Slots, t \in Slots \ {HI_NULL} :
       /\ h[s].next = t => h[t].prev = s /\ h[t].parent = h[s].parent
       /\ h[s].prev = t => h[t].next = s /\ h[t].parent = h[s].parent
       /\ h[s].first = t => h[t].prev = HI_NULL /\ h[t].parent = s
       /\ h[s].last = t => h[t].next = HI_NULL /\ h[t].parent = s
  BY DEF Linked
<1>8. node # HI_NULL /\ n.parent # node /\ n.next # node
  <2>1. node # HI_NULL
    BY SlotsAre
  <2>2. {node} \in SUBSET (Slots \ {HI_ROOT_STUB, HI_ORPHAN_STUB}) /\ {node} \in SUBSET (Slots \ {HI_NULL})
    BY <2>1
  <2>3. PICK s \in {node} : h[s].parent \notin {node}
    BY <2>2 DEF Linked, ParentsEnd
  <2>4. PICK t \in {node} : h[t].next \notin {node}
    BY <2>2 DEF Linked, ListsEnd
  <2> QED
    BY <2>1, <2>3, <2>4
(* The relatives of node.                                                  *)
<1>9. /\ n.prev # HI_NULL => h[n.prev].parent = n.parent /\ h[n.prev].next = node
      /\ n.next # HI_NULL => h[n.next].parent = n.parent /\ h[n.next].prev = node
      /\ n.first # HI_NULL => h[n.first].parent = node /\ h[n.first].prev = HI_NULL
      /\ n.last # HI_NULL => h[n.last].parent = node /\ h[n.last].next = HI_NULL
      /\ node \notin {n.prev, n.next, n.first, n.last}
      /\ h[n.parent].first = node => n.prev = HI_NULL
      /\ h[n.parent].last = node => n.next = HI_NULL
  <2>1. /\ n.prev # HI_NULL => h[n.prev].parent = n.parent /\ h[n.prev].next = node
        /\ n.next # HI_NULL => h[n.next].parent = n.parent /\ h[n.next].prev = node
        /\ n.first # HI_NULL => h[n.first].parent = node /\ h[n.first].prev = HI_NULL
        /\ n.last # HI_NULL => h[n.last].parent = node /\ h[n.last].next = HI_NULL
    BY <1>2, <1>7
  <2>2. node \notin {n.prev, n.next, n.first, n.last}
    BY <1>8, <2>1
  <2> QED
    BY <1>2, <1>7, <1>8, <2>1, <2>2
<1>10. \A s \in {HI_ROOT_STUB, HI_ORPHAN_STUB} :
       h[s].parent = HI_NULL /\ h[s].prev = HI_NULL /\ h[s].next = HI_NULL
  BY DEF Linked
<1>11. HI_ORPHAN_STUB \notin {n.prev, n.next, n.first, n.last}
  BY <1>8, <1>9, <1>10, SlotsAre
<1>12. /\ \A s \in Slots : h[s].first = HI_NULL <=> h[s].last = HI_NULL
       /\ \A s \in HiAllocated(h) \ {HI_ROOT_STUB, HI_ORPHAN_STUB} :
             /\ h[s].prev = HI_NULL => h[h[s].parent].first = s
             /\ h[s].next = HI_NULL => h[h[s].parent].last = s
  BY DEF Linked, EndsKnown
<1>13. /\ n.first = HI_NULL <=> n.last = HI_NULL
       /\ n.prev = HI_NULL => h[n.parent].first = node
       /\ n.next = HI_NULL => h[n.parent].last = node
  BY <1>12 DEF HiAllocated
<1> HIDE DEF n
<1>14. HiAllocated(left) \cup {node} = HiAllocated(h)
  <2>1. ASSUME NEW s \in Slots \ {node}, h[s] = Free
        PROVE  left[s] = Free
    <3>1. s # HI_NULL /\ s # n.parent /\ h[s].parent = -1 /\ h[s].parent # node
      BY <1>2, <1>10, <2>1, FreeIs, SlotsAre
    <3>2. s \notin {n.prev, n.next, n.first, n.last}
      BY <1>2, <1>9, <3>1, SlotsAre
    <3> QED
      BY <1>3, <1>4, <1>5, <2>1, <3>1, <3>2
  <2>2. ASSUME NEW s \in Slots \ {node}, h[s] # Free
        PROVE  left[s] # Free
    <3>1. left[s].parent \in Slots
      BY <1>2, <1>5, <2>2 DEF Linked, HiAllocated
    <3> QED
      BY <3>1, FreeIs, SlotsAre
  <2> QED
    BY <2>1, <2>2 DEF HiAllocated
<1>15. \A s \in {HI_ROOT_STUB, HI_ORPHAN_STUB} :
        left[s].parent = HI_NULL /\ left[s].prev = HI_NULL /\ left[s].next = HI_NULL
  BY <1>5, <1>6, <1>8, <1>10, <1>11, SlotsAre
<1>16. \A s \in Slots \ {node} : left[s] = Free \/ left[s].parent \in HiAllocated(left) \cup {node}
  <2>1. \A s \in Slots : h[s] = Free \/ h[s].parent \in HiAllocated(h)
    BY DEF Linked
  <2>2. n.parent \in HiAllocated(h)
    BY <1>2 DEF HiAllocated
  <2>3. \A s \in Slots \ {node} : left[s] # Free => h[s] # Free
    BY <1>14 DEF HiAllocated
  <2> QED
    BY <1>5, <1>14, <2>1, <2>2, <2>3
<1>17. \A s \in Slots : HI_ORPHAN_STUB \notin {left[s].first, left[s].last}
  <2>1. \A s \in Slots : HI_ORPHAN_STUB \notin {h[s].first, h[s].last}
    BY DEF Linked
  <2> QED
    BY <1>5, <1>6, <1>11, <2>1, FreeIs, SlotsAre
<1>18. ASSUME NEW s \in Slots \ {node}, NEW t \in Slots \ {HI_NULL}, left[s].next = t
       PROVE  t # node /\ left[t].prev = s /\ left[t].parent = left[s].parent
  <2>1. CASE s = n.last /\ s # HI_NULL
    BY <1>2, <1>5, <1>6, <1>8, <1>9, <1>18, <2>1
  <2>2. CASE s = n.prev /\ s # HI_NULL
    <3>1. t = head
      BY <1>6, <1>8, <1>9, <1>18, <2>2
    <3> QED
      BY <1>2, <1>5, <1>6, <1>8, <1>9, <1>13, <2>2, <3>1
  <2>3. CASE ~(s = n.last /\ s # HI_NULL) /\ ~(s = n.prev /\ s # HI_NULL)
    <3>1. h[s].next = t
      BY <1>6, <1>18, <2>3
    <3>2. s # HI_NULL /\ h[t].prev = s /\ h[t].parent = h[s].parent
      BY <1>7, <1>10, <3>1, SlotsAre
    <3>3. t # node /\ t # n.first /\ t # n.next
      BY <1>9, <2>3, <3>2 DEF n
    <3> QED
      BY <1>5, <1>6, <3>2, <3>3
  <2> QED
    BY <2>1, <2>2, <2>3
<1>19. ASSUME NEW s \in Slots \ {node}, NEW t \in Slots \ {HI_NULL}, left[s].prev = t
       PROVE  t # node /\ left[t].next = s /\ left[t].parent = left[s].parent
  <2>1. CASE s = n.first /\ s # HI_NULL
    BY <1>2, <1>5, <1>6, <1>8, <1>9, <1>19, <2>1
  <2>2. CASE s = n.next /\ s # HI_NULL
    <3>1. t = tail
      BY <1>6, <1>8, <1>9, <1>19, <2>2
    <3> QED
      BY <1>2, <1>5, <1>6, <1>8, <1>9, <1>13, <2>2, <3>1
  <2>3. CASE ~(s = n.first /\ s # HI_NULL) /\ ~(s = n.next /\ s # HI_NULL)
    <3>1. h[s].prev = t
      BY <1>6, <1>19, <2>3
    <3>2. s # HI_NULL /\ h[t].next = s /\ h[t].parent = h[s].parent
      BY <1>7, <1>10, <3>1, SlotsAre
    <3>3. t # node /\ t # n.last /\ t # n.prev
      BY <1>9, <2>3, <3>2 DEF n
    <3> QED
      BY <1>5, <1>6, <3>2, <3>3
  <2> QED
    BY <2>1, <2>2, <2>3
<1>20. ASSUME NEW s \in Slots, NEW t \in Slots \ {HI_NULL}, left[s].first = t
       PROVE  t # node /\ left[t].prev = HI_NULL /\ left[t].parent = s
  <2>0. s # node
    BY <1>5, <1>20, FreeIs
  <2>1. CASE s = n.parent /\ h[s].first = node
    <3>1. t = head /\ n.prev = HI_NULL
      BY <1>6, <1>9, <1>20, <2>0, <2>1
    <3> QED
      BY <1>2, <1>5, <1>6, <1>8, <1>9, <1>13, <2>0, <2>1, <3>1
  <2>2. CASE ~(s = n.parent /\ h[s].first = node)
    <3>1. h[s].first = t
      BY <1>6, <1>20, <2>0, <2>2
    <3>2. h[t].prev = HI_NULL /\ h[t].parent = s
      BY <1>7, <3>1
    <3>3. t # node /\ t # n.first /\ t # n.next
      BY <1>8, <1>9, <2>0, <2>2, <3>1, <3>2 DEF n
    <3> QED
      BY <1>5, <1>6, <2>0, <3>2, <3>3
  <2> QED
    BY <2>1, <2>2
<1>21. ASSUME NEW s \in Slots, NEW t \in Slots \ {HI_NULL}, left[s].last = t
       PROVE  t # node /\ left[t].next = HI_NULL /\ left[t].parent = s
  <2>0. s # node
    BY <1>5, <1>21, FreeIs
  <2>1. CASE s = n.parent /\ h[s].last = node
    <3>1. t = tail /\ n.next = HI_NULL
      BY <1>6, <1>9, <1>21, <2>0, <2>1
    <3> QED
      BY <1>2, <1>5, <1>6, <1>8, <1>9, <1>13, <2>0, <2>1, <3>1
  <2>2. CASE ~(s = n.parent /\ h[s].last = node)
    <3>1. h[s].last = t
      BY <1>6, <1>21, <2>0, <2>2
    <3>2. h[t].next = HI_NULL /\ h[t].parent = s
      BY <1>7, <3>1
    <3>3. t # node /\ t # n.last /\ t # n.prev
      BY <1>8, <1>9, <2>0, <2>2, <3>1, <3>2 DEF n
    <3> QED
      BY <1>5, <1>6, <2>0, <3>2, <3>3
  <2> QED
    BY <2>1, <2>2
<1>22. ASSUME NEW s \in Slots
       PROVE  left[s].first = HI_NULL <=> left[s].last = HI_NULL
  <2>1. CASE s = node
    BY <1>5, <2>1, FreeIs
  <2>2. CASE s # node /\ s = n.parent
    BY <1>6, <1>8, <1>9, <1>12, <1>13, <2>2
  <2>3. CASE s # node /\ s # n.parent
    BY <1>6, <1>12, <2>3
  <2> QED
    BY <2>1, <2>2, <2>3
<1>23. ASSUME NEW s \in HiAllocated(left) \ {HI_ROOT_STUB, HI_ORPHAN_STUB, node}
       PROVE  /\ left[s].prev = HI_NULL => left[left[s].parent].first = s
              /\ left[s].next = HI_NULL => left[left[s].parent].last = s
  <2> DEFINE q == h[s].parent
  <2>1. s \in HiAllocated(h) \ {HI_ROOT_STUB, HI_ORPHAN_STUB} /\ s \in Slots \ {node} /\ s # HI_NULL
    BY <1>14, <1>23, SlotsAre DEF HiAllocated
  <2>2. /\ h[s].prev = HI_NULL => h[q].first = s
        /\ h[s].next = HI_NULL => h[q].last = s
    BY <1>12, <2>1
  <2>3. q \in Slots
    BY <2>1 DEF Linked, HiAllocated
  <2>4. ASSUME left[s].prev = HI_NULL
        PROVE  left[left[s].parent].first = s
    <3>1. CASE s = n.first
      <4>1. left[s].parent = n.parent /\ n.prev = HI_NULL
        BY <1>5, <1>6, <1>9, <2>1, <2>4, <3>1
      <4> QED
        BY <1>2, <1>6, <1>8, <1>13, <2>1, <3>1, <4>1
    <3>2. CASE s = n.next /\ s # n.first
      <4>1. left[s].parent = n.parent /\ tail = HI_NULL
        BY <1>5, <1>6, <1>8, <1>9, <2>1, <2>4, <3>2
      <4>2. n.prev = HI_NULL /\ n.first = HI_NULL
        BY <1>13, <4>1
      <4> QED
        BY <1>2, <1>6, <1>8, <1>13, <3>2, <4>1, <4>2
    <3>3. CASE s # n.next /\ s # n.first
      <4>1. h[q].first = s
        BY <1>6, <2>1, <2>2, <2>4, <3>3
      <4>2. q # node /\ left[s].parent = q
        BY <1>5, <2>1, <3>3, <4>1 DEF n
      <4> QED
        BY <1>6, <2>1, <2>3, <4>1, <4>2
    <3> QED
      BY <3>1, <3>2, <3>3
  <2>5. ASSUME left[s].next = HI_NULL
        PROVE  left[left[s].parent].last = s
    <3>1. CASE s = n.last
      <4>1. left[s].parent = n.parent /\ n.next = HI_NULL
        BY <1>5, <1>6, <1>9, <2>1, <2>5, <3>1
      <4> QED
        BY <1>2, <1>6, <1>8, <1>13, <2>1, <3>1, <4>1
    <3>2. CASE s = n.prev /\ s # n.last
      <4>1. left[s].parent = n.parent /\ head = HI_NULL
        BY <1>5, <1>6, <1>8, <1>9, <2>1, <2>5, <3>2
      <4>2. n.next = HI_NULL /\ n.last = HI_NULL
        BY <1>13, <4>1
      <4> QED
        BY <1>2, <1>6, <1>8, <1>13, <3>2, <4>1, <4>2
    <3>3. CASE s # n.prev /\ s # n.last
      <4>1. h[q].last = s
        BY <1>6, <2>1, <2>2, <2>5, <3>3
      <4>2. q # node /\ left[s].parent = q
        BY <1>5, <2>1, <3>3, <4>1 DEF n
      <4> QED
        BY <1>6, <2>1, <2>3, <4>1, <4>2
    <3> QED
      BY <3>1, <3>2, <3>3
  <2> QED
    BY <2>4, <2>5
<1>24. ASSUME NEW S \in SUBSET (Slots \ {HI_NULL, node}), S # {}
       PROVE  \E s \in S : left[s].next \notin S
  <2> DEFINE C == {s \in S : h[s].parent = node}
  <2>1. ASSUME NEW T \in SUBSET (Slots \ {HI_NULL}), T # {}
        PROVE  \E s \in T : h[s].next \notin T
    BY <2>1 DEF Linked, ListsEnd
  <2>2. CASE n.prev \in S /\ n.next \in S /\ C = {}
    <3>1. S \cup {node} \in SUBSET (Slots \ {HI_NULL}) /\ S \cup {node} # {}
      BY <1>8
    <3>2. PICK s \in S \cup {node} : h[s].next \notin S \cup {node}
      BY <2>1, <3>1
    <3>3. s # node /\ s # n.prev
      BY <1>9, <2>2, <3>2 DEF n
    <3>4. s # n.last
      BY <1>9, <2>2, <3>2, <3>3
    <3> QED
      BY <1>6, <3>2, <3>3, <3>4
  <2>3. CASE n.prev \in S /\ n.next \notin S /\ C = {}
    <3>1. left[n.prev].next = head
      BY <1>2, <1>6, <1>8, <1>9, <2>3
    <3>2. head \notin S
      BY <1>9, <2>3
    <3> QED
      BY <2>3, <3>1, <3>2
  <2>4. CASE n.prev \notin S /\ C = {}
    <3>1. PICK s \in S : h[s].next \notin S
      BY <1>24, <2>1
    <3>2. s # n.prev /\ s # n.last
      BY <1>9, <2>4
    <3> QED
      BY <1>6, <3>1, <3>2
  <2>5. CASE C # {}
    <3>1. C \in SUBSET (Slots \ {HI_NULL})
      OBVIOUS
    <3>2. PICK c \in C : h[c].next \notin C
      BY <2>1, <2>5, <3>1
    <3>3. c \in Slots \ {node} /\ c # HI_NULL /\ h[c].parent = node /\ c \in S
      OBVIOUS
    <3>4. c # n.prev
      BY <1>8, <1>9, <3>3
    <3>5. CASE c # n.last
      <4>1. left[c].next = h[c].next
        BY <1>6, <3>3, <3>4, <3>5
      <4>2. h[c].next # HI_NULL => h[h[c].next].parent = node
        BY <1>2, <1>7, <3>3 DEF Nodes
      <4>3. h[c].next \notin S
        BY <3>2, <4>2
      <4> QED
        BY <3>3, <4>1, <4>3
    <3>6. CASE c = n.last /\ n.next \notin S
      BY <1>6, <3>3, <3>6
    <3>7. CASE c = n.last /\ n.next \in S
      <4> DEFINE T == (S \ C) \cup {node}
      <4>1. T \in SUBSET (Slots \ {HI_NULL}) /\ T # {}
        BY <1>8
      <4>2. PICK s \in T : h[s].next \notin T
        BY <2>1, <4>1
      <4>3. s # node
        BY <1>8, <1>9, <3>7, <4>2 DEF n
      <4>4. s \in S /\ h[s].parent # node /\ s \in Slots \ {node} /\ s # HI_NULL
        BY <4>3
      <4>5. s # n.prev /\ s # n.last
        BY <1>9, <4>2, <4>4
      <4>6. left[s].next = h[s].next
        BY <1>6, <4>4, <4>5
      <4>7. h[s].next # HI_NULL => h[h[s].next].parent # node
        BY <1>2, <1>7, <4>4 DEF Nodes
      <4>8. h[s].next \notin S
        BY <4>2, <4>7
      <4> QED
        BY <4>4, <4>6, <4>8
    <3> QED
      BY <3>5, <3>6, <3>7
  <2> QED
    BY <2>2, <2>3, <2>4, <2>5
<1>25. ASSUME NEW S \in SUBSET (Slots \ {HI_ROOT_STUB, HI_ORPHAN_STUB, node}), S # {}
       PROVE  \E s \in S : left[s].parent \notin S
  <2>1. CASE \A s \in S : h[s].parent # node
    <3>1. PICK s \in S : h[s].parent \notin S
      BY <1>25 DEF Linked, ParentsEnd
    <3> QED
      BY <1>5, <2>1, <3>1
  <2>2. ASSUME NEW c \in S, h[c].parent = node
        PROVE  \E s \in S : left[s].parent \notin S
    <3> DEFINE T == S \cup {node}
    <3>1. T \in SUBSET (Slots \ {HI_ROOT_STUB, HI_ORPHAN_STUB}) /\ T # {}
      OBVIOUS
    <3>2. PICK s \in T : h[s].parent \notin T
      BY <3>1 DEF Linked, ParentsEnd
    <3>3. CASE s = node
      BY <1>5, <2>2, <3>2, <3>3 DEF n
    <3>4. CASE s # node
      BY <1>5, <3>2, <3>4
    <3> QED
      BY <3>3, <3>4
  <2> QED
    BY <2>1, <2>2
<1>26. Loose(left, node)
  <2>1. ASSUME NEW s \in Slots, NEW t \in Slots \ {HI_NULL}
        PROVE  /\ s # node /\ left[s].next = t => t # node /\ left[t].prev = s /\ left[t].parent = left[s].parent
               /\ s # node /\ left[s].prev = t => t # node /\ left[t].next = s /\ left[t].parent = left[s].parent
               /\ left[s].first = t => t # node /\ left[t].prev = HI_NULL /\ left[t].parent = s
               /\ left[s].last = t => t # node /\ left[t].next = HI_NULL /\ left[t].parent = s
    BY <1>18, <1>19, <1>20, <1>21
  <2> QED
    BY <1>5, <1>15, <1>16, <1>17, <1>22, <1>23, <1>24, <1>25, <2>1
    DEF Loose, EndsKnown, ListsEnd, ParentsEnd
<1>27. LET r == AppendChild(left, node, parent)
       IN /\ Linked(r)
          /\ HiAllocated(r) = HiAllocated(left) \cup {node}
          /\ r[node].parent = parent
          /\ \A s \in Slots \ {node} : r[s].parent = left[s].parent
  <2>1. left[parent] # Free
    BY <1>14 DEF HiAllocated
  <2>2. \A s \in Slots \ {node} : left[s].parent # node
    BY <1>5, <1>8
  <2> QED
    BY <1>26, <2>1, <2>2, AppendChildLinks
<1> QED
  BY <1>1, <1>5, <1>14, <1>27 DEF n

LEMMA StubsAllocated ==
  ASSUME NEW h, Linked(h)
  PROVE  {HI_ROOT_STUB, HI_ORPHAN_STUB} \subseteq HiAllocated(h)
  BY FreeIs, SlotsAre DEF Linked, HiAllocated

LEMMA HiInitLinks ==
  Linked(HiInit) /\ HiAllocated(HiInit) = {HI_ROOT_STUB, HI_ORPHAN_STUB}
<1>1. /\ HiInit \in [Slots -> Nodes]
      /\ \A s \in {HI_ROOT_STUB, HI_ORPHAN_STUB} : s \in Slots /\ HiInit[s] = Alone
      /\ \A s \in Slots \ {HI_ROOT_STUB, HI_ORPHAN_STUB} : HiInit[s] = Free
  BY FreeIs, SlotsAre DEF HiInit
<1>2. HiAllocated(HiInit) = {HI_ROOT_STUB, HI_ORPHAN_STUB}
  BY <1>1, FreeIs DEF HiAllocated
<1>3. \A s \in Slots : /\ HiInit[s].prev = HI_NULL /\ HiInit[s].next = HI_NULL
                       /\ HiInit[s].first = HI_NULL /\ HiInit[s].last = HI_NULL
                       /\ HiInit[s].parent \in {HI_NULL, -1}
  BY <1>1, FreeIs
<1>4. EndsKnown(HiInit, {HI_ROOT_STUB, HI_ORPHAN_STUB})
  BY <1>2, <1>3 DEF EndsKnown
<1>5. ListsEnd(HiInit, {HI_NULL})
  BY <1>3 DEF ListsEnd
<1>6. ParentsEnd(HiInit, {HI_ROOT_STUB, HI_ORPHAN_STUB})
  <2>1. \A s \in Slots, S \in SUBSET (Slots \ {HI_ROOT_STUB, HI_ORPHAN_STUB}) :
          HiInit[s].parent \notin S
    BY <1>3, SlotsAre
  <2> QED
    BY <2>1 DEF ParentsEnd
<1>7. \A s \in Slots : HiInit[s] = Free \/ HiInit[s].parent \in HiAllocated(HiInit)
  BY <1>1, <1>2, FreeIs, SlotsAre
<1>8. \A s \in {HI_ROOT_STUB, HI_ORPHAN_STUB} :
        HiInit[s].parent = HI_NULL /\ HiInit[s].prev = HI_NULL /\ HiInit[s].next = HI_NULL
  BY <1>1, FreeIs
<1> QED
  BY <1>1, <1>2, <1>3, <1>4, <1>5, <1>6, <1>7, <1>8, SlotsAre DEF Linked

(* hi_Add, for a slot that is free                                         *)
LEMMA HiAddLinks ==
  ASSUME NEW h, NEW new \in Slots \ HiAllocated(h), NEW parent \in Slots,
         Linked(h), h[parent] # Free
  PROVE  LET r == HiAdd(h, new, parent)
         IN /\ Linked(r)
            /\ HiAllocated(r) = HiAllocated(h) \cup {new}
            /\ r[new].parent = parent
            /\ \A s \in Slots \ {new} : r[s].parent = h[s].parent
<1> DEFINE g == [h EXCEPT ![new] = Alone]
<1>1. h \in [Slots -> Nodes] /\ h[new] = Free /\ new # parent
  BY DEF Linked, HiAllocated
<1>2. new \notin {HI_ROOT_STUB, HI_ORPHAN_STUB}
  BY StubsAllocated
<1>3. /\ g \in [Slots -> Nodes] /\ g[new] = Alone
      /\ \A s \in Slots \ {new} : g[s] = h[s]
  BY <1>1, FreeIs
<1> HIDE DEF g
<1>4. HiAllocated(g) = HiAllocated(h) \cup {new}
  BY <1>3, FreeIs DEF HiAllocated
<1>5. Loose(g, new)
  <2>1. \A s \in {HI_ROOT_STUB, HI_ORPHAN_STUB} :
          g[s].parent = HI_NULL /\ g[s].prev = HI_NULL /\ g[s].next = HI_NULL
    BY <1>2, <1>3, SlotsAre DEF Linked
  <2>2. \A s \in Slots \ {new} : g[s] = Free \/ g[s].parent \in HiAllocated(g) \cup {new}
    BY <1>3, <1>4 DEF Linked
  <2>3. \A s \in Slots : HI_ORPHAN_STUB \notin {g[s].first, g[s].last}
    BY <1>3, FreeIs, SlotsAre DEF Linked
  <2>4. ASSUME NEW s \in Slots, NEW t \in Slots \ {HI_NULL}
        PROVE  /\ s # new /\ g[s].next = t => t # new /\ g[t].prev = s /\ g[t].parent = g[s].parent
               /\ s # new /\ g[s].prev = t => t # new /\ g[t].next = s /\ g[t].parent = g[s].parent
               /\ g[s].first = t => t # new /\ g[t].prev = HI_NULL /\ g[t].parent = s
               /\ g[s].last = t => t # new /\ g[t].next = HI_NULL /\ g[t].parent = s
    <3>1. /\ h[s].next = t => h[t].prev = s /\ h[t].parent = h[s].parent
          /\ h[s].prev = t => h[t].next = s /\ h[t].parent = h[s].parent
          /\ h[s].first = t => h[t].prev = HI_NULL /\ h[t].parent = s
          /\ h[s].last = t => h[t].next = HI_NULL /\ h[t].parent = s
      BY DEF Linked
    <3>2. t = new => h[t].prev = HI_NULL /\ h[t].next = HI_NULL /\ h[t].parent = -1
      BY <1>1, FreeIs
    <3>3. s = HI_NULL => h[s].next = HI_NULL /\ h[s].prev = HI_NULL
      BY SlotsAre DEF Linked
    <3>4. s = new => g[s].first = HI_NULL /\ g[s].last = HI_NULL
      BY <1>3, FreeIs
    <3> QED
      BY <1>3, <3>1, <3>2, <3>3, <3>4, SlotsAre
  <2>5. EndsKnown(g, {HI_ROOT_STUB, HI_ORPHAN_STUB, new})
    <3>1. /\ \A s \in Slots : h[s].first = HI_NULL <=> h[s].last = HI_NULL
          /\ \A s \in HiAllocated(h) \ {HI_ROOT_STUB, HI_ORPHAN_STUB} :
               /\ h[s].prev = HI_NULL => h[h[s].parent].first = s
               /\ h[s].next = HI_NULL => h[h[s].parent].last = s
      BY DEF Linked, EndsKnown
    <3>2. \A s \in Slots : g[s].first = HI_NULL <=> g[s].last = HI_NULL
      BY <1>3, <3>1, FreeIs
    <3>3. ASSUME NEW s \in HiAllocated(g) \ {HI_ROOT_STUB, HI_ORPHAN_STUB, new}
          PROVE  /\ g[s].prev = HI_NULL => g[g[s].parent].first = s
                 /\ g[s].next = HI_NULL => g[g[s].parent].last = s
      <4>1. s \in HiAllocated(h) /\ s \in Slots \ {new} /\ h[s].parent \in HiAllocated(h)
        BY <1>4, <3>3 DEF Linked, HiAllocated
      <4>2. h[s].parent \in Slots \ {new}
        BY <4>1 DEF HiAllocated
      <4> QED
        BY <1>3, <3>1, <3>3, <4>1, <4>2
    <3> QED
      BY <3>2, <3>3 DEF EndsKnown
  <2>6. ListsEnd(g, {HI_NULL, new})
    <3> SUFFICES ASSUME NEW S \in SUBSET (Slots \ {HI_NULL, new}), S # {}
                 PROVE  \E s \in S : g[s].next \notin S
      BY DEF ListsEnd
    <3>1. PICK s \in S : h[s].next \notin S
      BY DEF Linked, ListsEnd
    <3> QED
      BY <1>3, <3>1
  <2>7. ParentsEnd(g, {HI_ROOT_STUB, HI_ORPHAN_STUB, new})
    <3> SUFFICES ASSUME NEW S \in SUBSET (Slots \ {HI_ROOT_STUB, HI_ORPHAN_STUB, new}), S # {}
                 PROVE  \E s \in S : g[s].parent \notin S
      BY DEF ParentsEnd
    <3>1. PICK s \in S : h[s].parent \notin S
      BY DEF Linked, ParentsEnd
    <3> QED
      BY <1>3, <3>1
  <2> QED
    BY <1>3, <2>1, <2>2, <2>3, <2>4, <2>5, <2>6, <2>7 DEF Loose
<1>6. HiAdd(h, new, parent) = AppendChild(g, new, parent)
  BY DEF HiAdd, g
<1>7. LET r == AppendChild(g, new, parent)
      IN /\ Linked(r)
         /\ HiAllocated(r) = HiAllocated(g) \cup {new}
         /\ r[new].parent = parent
         /\ \A s \in Slots \ {new} : r[s].parent = g[s].parent
  <2>1. g[parent] # Free /\ \A s \in Slots \ {new} : g[s].parent # new
    <3>1. \A s \in Slots : h[s].parent \in HiAllocated(h) \cup {-1}
      BY FreeIs DEF Linked
    <3>2. new \notin HiAllocated(h) \cup {-1}
      BY SlotsAre
    <3> QED
      BY <1>1, <1>3, <3>1, <3>2
  <2> QED
    BY <1>1, <1>2, <1>5, <2>1, AppendChildLinks
<1> QED
  BY <1>3, <1>4, <1>6, <1>7

-------------------------------------------------------------------------------
(* The pruning, and the placing of a node                                  *)

(* What holds while the children of the orphan stub are pruned: the next   *)
(* one is the first, and the nodes of the frame are left.                  *)
Pruning(p) ==
  /\ p \in [left : [Slots -> Nodes], index : Slots]
  /\ Linked(p.left)
  /\ HiAllocated(p.left) \subseteq HiAllocated(hi)
  /\ p.index = p.left[HI_ORPHAN_STUB].first
  /\ touched \subseteq HiAllocated(p.left)
  /\ \A t \in touched : p.left[t].parent \in touched \cup {HI_ROOT_STUB}

LEMMA PruneOneKeeps ==
  ASSUME HI_ROOT_STUB \notin touched, HI_ORPHAN_STUB \notin touched, NEW p, Pruning(p)
  PROVE  Pruning(PruneOne(p))
<1>1. CASE p.index = HI_NULL
  BY <1>1 DEF PruneOne
<1>2. CASE p.index # HI_NULL
  <2> DEFINE h == p.left
             x == p.index
             r == RemoveSubHierarchy(h, x)
             gone == SubHierarchy(h, x)
             g == Unlink(h, x)
  <2>1. /\ h \in [Slots -> Nodes] /\ x \in Slots /\ Linked(h) /\ x = h[HI_ORPHAN_STUB].first
        /\ HiAllocated(h) \subseteq HiAllocated(hi)
        /\ touched \subseteq HiAllocated(h)
        /\ \A t \in touched : h[t].parent \in touched \cup {HI_ROOT_STUB}
    BY DEF Pruning
  <2>2. PruneOne(p) = [left |-> r, index |-> h[x].next]
    BY <1>2 DEF PruneOne, NextOrphan
  <2>3. x # HI_NULL
    BY <1>2
  <2> HIDE DEF h, x
  <2>4. h[x].parent = HI_ORPHAN_STUB
    BY <2>1, <2>3, SlotsAre DEF Linked
  <2>5. x \notin {HI_ROOT_STUB, HI_ORPHAN_STUB} /\ h[x] # Free /\ x \notin touched
    BY <2>1, <2>4, FreeIs, SlotsAre DEF Linked
  <2>6. /\ Linked(r) /\ HiAllocated(r) = HiAllocated(h) \ gone
        /\ \A s \in Slots \ gone : r[s].parent = h[s].parent
    BY <2>1, <2>5, RemoveLinks
  <2>7. r = [s \in Slots |-> IF s \in gone THEN Free ELSE g[s]]
    BY DEF RemoveSubHierarchy
  <2>8. HI_ORPHAN_STUB \in Slots \ gone
    BY <2>6, StubsAllocated, SlotsAre
  <2> DEFINE S == HiAllocated(h) \ (touched \cup {HI_ROOT_STUB})
  <2>9. gone \subseteq S
    <3>1. S \in SUBSET HiAllocated(h) /\ x \in S
      BY <2>1, <2>5 DEF HiAllocated
    <3>2. \A s : s \in HiAllocated(h) /\ h[s].parent \in S /\ s > HI_ORPHAN_STUB => s \in S
      BY <2>1 DEF HI_ROOT_STUB, HI_ORPHAN_STUB
    <3>3. x \in HiAllocated(h)
      BY <3>1
    <3> HIDE DEF S, gone
    <3>4. \A T \in SUBSET HiAllocated(h) :
            /\ x \in T
            /\ \A s : s \in HiAllocated(h) /\ h[s].parent \in T /\ s > HI_ORPHAN_STUB => s \in T
            => gone \subseteq T
      BY <2>1, <3>3, SubHierarchyIs DEF gone
    <3> QED
      BY <3>1, <3>2, <3>4
  <2> HIDE DEF gone, r
  <2>10. r[HI_ORPHAN_STUB] = g[HI_ORPHAN_STUB]
    BY <2>7, <2>8
  <2>11. g[HI_ORPHAN_STUB].first = h[x].next
    <3> DEFINE q == h[h[x].parent]
    <3>1. g[h[x].parent].first = IF q.first = q.last THEN HI_NULL
                                   ELSE IF q.first = x THEN h[x].next ELSE q.first
      <4>1. h[x].parent \in Slots
        BY <2>4, SlotsAre
      <4> QED
        BY <2>1, <4>1, UnlinkIs
    <3>2. q.first = x
      BY <2>1, <2>4
    <3>3. q.last = x => h[x].next = HI_NULL
      BY <2>1, <2>3, <2>4, SlotsAre DEF Linked
    <3> QED
      BY <2>4, <3>1, <3>2, <3>3
  <2>12. touched \subseteq HiAllocated(r) /\ \A t \in touched : r[t].parent \in touched \cup {HI_ROOT_STUB}
    BY <2>1, <2>6, <2>9 DEF HiAllocated
  <2>13. r \in [Slots -> Nodes] /\ h[x].next \in Slots
    BY <2>1, <2>6 DEF Linked, Nodes
  <2> DEFINE new == [left |-> r, index |-> h[x].next]
  <2>14. new \in [left : [Slots -> Nodes], index : Slots] /\ new.left = r /\ new.index = h[x].next
    BY <2>13
  <2> HIDE DEF new
  <2>15. Pruning(new)
    BY <2>1, <2>6, <2>10, <2>11, <2>12, <2>14 DEF Pruning
  <2> QED
    BY <2>2, <2>15 DEF new
<1> QED
  BY <1>1, <1>2

(* The pruning goes one child at a time, and keeps what holds while it does.*)
LEMMA PruneSteps ==
  ASSUME HI_ROOT_STUB \notin touched, HI_ORPHAN_STUB \notin touched,
         Pruning([left |-> hi, index |-> hi[HI_ORPHAN_STUB].first])
  PROVE  /\ Prune[0] = [left |-> hi, index |-> hi[HI_ORPHAN_STUB].first]
         /\ \A n \in Nat : n + 1 \in 0 .. MaxSlots => Prune[n + 1] = PruneOne(Prune[n])
         /\ \A n \in 0 .. MaxSlots : Pruning(Prune[n])
<1> DEFINE D == {p \in [left : [Slots -> Nodes], index : Slots] : Pruning(p)}
           F == [p \in D |-> PruneOne(p)]
           start == [left |-> hi, index |-> hi[HI_ORPHAN_STUB].first]
<1>1. start \in D
  BY DEF Pruning
<1>2. F \in [D -> D]
  <2>1. \A p \in D : PruneOne(p) \in D
    BY PruneOneKeeps DEF Pruning
  <2> QED
    BY <2>1
<1>3. MaxSlots \in Nat
  BY HierarchyAssumption
<1>4. PICK f : Iteration(f, MaxSlots, F, start, D)
  <2> HIDE DEF D, F, start
  <2> QED
    BY <1>1, <1>2, <1>3, Iterates
<1>5. \A n \in 0 .. MaxSlots : f[n] \in D
  BY <1>4 DEF Iteration
<1>6. f = [n \in 0 .. MaxSlots |-> IF n = 0 THEN start ELSE PruneOne(f[n - 1])]
  <2>1. ASSUME NEW n \in 0 .. MaxSlots
        PROVE  f[n] = IF n = 0 THEN start ELSE PruneOne(f[n - 1])
    <3>1. CASE n = 0
      BY <1>4, <3>1 DEF Iteration
    <3>2. CASE n # 0
      <4>1. n \in 1 .. MaxSlots /\ n - 1 \in 0 .. MaxSlots
        BY <1>3, <3>2
      <4>2. f[n] = F[f[n - 1]] /\ f[n - 1] \in D
        BY <1>4, <1>5, <4>1 DEF Iteration
      <4> HIDE DEF D
      <4> QED
        BY <3>2, <4>2
    <3> QED
      BY <3>1, <3>2
  <2> HIDE DEF D, F, start
  <2> QED
    BY <1>4, <2>1 DEF Iteration
<1>7. Prune = [n \in 0 .. MaxSlots |-> IF n = 0 THEN start ELSE PruneOne(Prune[n - 1])]
  <2> HIDE DEF D, F
  <2> QED
    BY <1>6 DEF Prune, PruneOne
<1> HIDE DEF start
<1> DEFINE P == {n \in Nat : n \in 0 .. MaxSlots => Prune[n] \in D}
<1>8. 0 \in P
  BY <1>1, <1>3, <1>7
<1>9. ASSUME NEW n \in Nat, n \in P
      PROVE  n + 1 \in P
  <2>1. ASSUME n + 1 \in 0 .. MaxSlots
        PROVE  Prune[n + 1] \in D
    <3>1. n + 1 - 1 = n /\ n \in 0 .. MaxSlots /\ n + 1 # 0
      BY <1>3, <2>1
    <3>2. Prune[n + 1] = PruneOne(Prune[n])
      BY <1>7, <2>1, <3>1
    <3>3. Prune[n] \in D
      BY <1>9, <3>1
    <3> HIDE DEF D
    <3>4. PruneOne(Prune[n]) = F[Prune[n]]
      BY <3>3
    <3> QED
      BY <1>2, <3>2, <3>3, <3>4
  <2> QED
    BY <2>1
<1>10. \A n \in Nat : n \in P
  <2> HIDE DEF P
  <2> QED
    BY <1>8, <1>9, Induction
<1>11. \A n \in Nat : n + 1 \in 0 .. MaxSlots => Prune[n + 1] = PruneOne(Prune[n])
  <2> SUFFICES ASSUME NEW n \in Nat, n + 1 \in 0 .. MaxSlots
               PROVE  Prune[n + 1] = PruneOne(Prune[n])
    OBVIOUS
  <2>1. n + 1 - 1 = n /\ n + 1 # 0
    OBVIOUS
  <2> DEFINE G(m) == IF m = 0 THEN start ELSE PruneOne(Prune[m - 1])
  <2>2. \A m \in 0 .. MaxSlots : Prune[m] = G(m)
    BY <1>7
  <2>3. Prune[n + 1] = G(n + 1)
    BY <2>2
  <2> QED
    BY <2>1, <2>3
<1>12. \A n \in 0 .. MaxSlots : Pruning(Prune[n])
  BY <1>3, <1>10
<1>13. Prune[0] = start
  BY <1>3, <1>7
<1> QED
  BY <1>11, <1>12, <1>13 DEF start

(* The pruning of ui_FrameEnd keeps the nodes of the frame.                *)
LEMMA PrunedIs ==
  ASSUME HI_ROOT_STUB \notin touched, HI_ORPHAN_STUB \notin touched,
         Pruning([left |-> hi, index |-> hi[HI_ORPHAN_STUB].first])
  PROVE  Linked(Pruned) /\ touched \subseteq HiAllocated(Pruned) /\ HiAllocated(Pruned) \subseteq HiAllocated(hi)
<1>1. Pruning(Prune[MaxSlots])
  BY HierarchyAssumption, PruneSteps
<1> QED
  BY <1>1 DEF Pruned, Pruning

LEMMA NewSlotIs ==
  ASSUME TreeInv
  PROVE  /\ NewSlot \notin HiAllocated(hi)
         /\ LengthAfterAdd \in Nat /\ NewSlot \in 0 .. LengthAfterAdd - 1
         /\ HiAllocated(hi) \subseteq 0 .. LengthAfterAdd - 1
<1>1. length \in Nat /\ length > 0 /\ HiAllocated(hi) \subseteq 0 .. length - 1
  <2>1. 0 \in HiAllocated(hi)
    BY StubsAllocated DEF TreeInv, HI_ROOT_STUB
  <2> QED
    BY <2>1 DEF TreeInv
<1>2. CASE FreeSlots = {}
  BY <1>1, <1>2 DEF NewSlot, LengthAfterAdd
<1>3. CASE FreeSlots # {}
  <2>1. FreeSlots \in SUBSET Nat
    BY <1>1 DEF FreeSlots
  <2>2. \E m \in FreeSlots : \A k \in FreeSlots : m <= k
    BY <1>3, <2>1, Least
  <2>3. Min(FreeSlots) \in FreeSlots
    BY <2>2 DEF Min
  <2>4. Min(FreeSlots) \in (0 .. length - 1) \ HiAllocated(hi)
    BY <2>3 DEF FreeSlots
  <2> QED
    BY <1>1, <1>3, <2>4 DEF NewSlot, LengthAfterAdd
<1> QED
  BY <1>2, <1>3

(* What the placing of a node at slot changes.                             *)
Placed(id, parent, slot) ==
  /\ slot \in Slots \ {HI_ROOT_STUB, HI_ORPHAN_STUB}
  /\ Linked(hi') /\ HiAllocated(hi') = HiAllocated(hi) \cup {slot}
  /\ hi'[slot].parent = parent
  /\ \A s \in Slots \ {slot} : hi[s].parent = slot \/ hi'[s].parent = hi[s].parent
  /\ length' \in Nat /\ HiAllocated(hi') \subseteq 0 .. length' - 1
  /\ node_map' \in [Hashed -> Slots]
  /\ \A n \in Hashed : node_map'[n] # HI_NULL => node_map'[n] \in InTree \cup {slot}
  /\ \A n \in Hashed : n # id \/ node_map[n] # HI_NULL => node_map'[n] = node_map[n]
  /\ id # Plain => node_map'[id] = slot

LEMMA PlaceIs ==
  ASSUME TreeInv, NEW id \in Hashed \cup {Plain}, NEW parent \in HiAllocated(hi),
         Place(id, parent), SlotFor(id) # parent
  PROVE  Placed(id, parent, SlotFor(id))
<1> DEFINE slot == SlotFor(id)
<1>1. /\ Linked(hi) /\ length \in Nat /\ HiAllocated(hi) \subseteq 0 .. length - 1
      /\ node_map \in [Hashed -> Slots]
      /\ \A n \in Hashed : node_map[n] # HI_NULL => node_map[n] \in InTree
  BY DEF TreeInv
<1>2. slot \in Slots /\ slot # parent /\ parent \in Slots /\ hi[parent] # Free
  BY DEF Place, HiAllocated
<1>3. CASE id # Plain /\ node_map[id] # HI_NULL
  <2>1. slot = node_map[id] /\ id \in Hashed
    BY <1>3 DEF SlotFor
  <2>2. slot \in InTree
    BY <1>1, <1>3, <2>1
  <2>3. hi' = AdoptNodeExclusive(hi, slot, parent) /\ length' = length /\ node_map' = node_map
    BY <1>3, <2>1 DEF Place
  <2>4. slot \in Slots \ {HI_ROOT_STUB, HI_ORPHAN_STUB} /\ hi[slot] # Free /\ slot \in HiAllocated(hi)
    BY <2>2 DEF InTree, HiAllocated
  <2> HIDE DEF slot
  <2>5. LET r == AdoptNodeExclusive(hi, slot, parent)
        IN /\ Linked(r)
           /\ HiAllocated(r) = HiAllocated(hi)
           /\ r[slot].parent = parent
           /\ \A s \in Slots \ {slot} :
                r[s].parent = IF hi[s].parent = slot THEN hi[slot].parent ELSE hi[s].parent
    BY <1>1, <1>2, <2>4, AdoptNodeExclusiveLinks
  <2>6. /\ Linked(hi')
        /\ HiAllocated(hi') = HiAllocated(hi)
        /\ hi'[slot].parent = parent
        /\ \A s \in Slots \ {slot} :
             hi'[s].parent = IF hi[s].parent = slot THEN hi[slot].parent ELSE hi[s].parent
    BY <2>3, <2>5
  <2>7. Placed(id, parent, slot)
    BY <1>1, <2>1, <2>3, <2>4, <2>6 DEF Placed
  <2> QED
    BY <2>7 DEF slot
<1>4. CASE ~(id # Plain /\ node_map[id] # HI_NULL)
  <2>1. slot = NewSlot
    BY <1>4 DEF SlotFor
  <2>2. /\ hi' = HiAdd(hi, slot, parent) /\ length' = LengthAfterAdd
        /\ node_map' = IF id = Plain THEN node_map ELSE [node_map EXCEPT ![id] = slot]
    BY <1>4, <2>1 DEF Place
  <2>3. /\ slot \notin HiAllocated(hi) /\ LengthAfterAdd \in Nat /\ slot \in 0 .. LengthAfterAdd - 1
        /\ HiAllocated(hi) \subseteq 0 .. LengthAfterAdd - 1
    BY <2>1, NewSlotIs
  <2> HIDE DEF slot
  <2>4. slot \in Slots \ HiAllocated(hi) /\ slot \notin {HI_ROOT_STUB, HI_ORPHAN_STUB}
    BY <1>1, <1>2, <2>3, StubsAllocated
  <2>5. LET r == HiAdd(hi, slot, parent)
        IN /\ Linked(r)
           /\ HiAllocated(r) = HiAllocated(hi) \cup {slot}
           /\ r[slot].parent = parent
           /\ \A s \in Slots \ {slot} : r[s].parent = hi[s].parent
    BY <1>1, <1>2, <2>4, HiAddLinks
  <2>6. /\ Linked(hi')
        /\ HiAllocated(hi') = HiAllocated(hi) \cup {slot}
        /\ hi'[slot].parent = parent
        /\ \A s \in Slots \ {slot} : hi'[s].parent = hi[s].parent
    BY <2>2, <2>5
  <2>7. /\ node_map' \in [Hashed -> Slots]
        /\ \A n \in Hashed : node_map'[n] # HI_NULL => node_map'[n] \in InTree \cup {slot}
        /\ \A n \in Hashed : n # id \/ node_map[n] # HI_NULL => node_map'[n] = node_map[n]
        /\ id # Plain => node_map'[id] = slot
    BY <1>1, <1>4, <2>2, <2>4
  <2>8. Placed(id, parent, slot)
    BY <2>2, <2>3, <2>4, <2>6, <2>7 DEF Placed
  <2> QED
    BY <2>8 DEF slot
<1> QED
  BY <1>3, <1>4

-------------------------------------------------------------------------------
(* The tree                                                                *)

LEMMA FrameBeginTree ==
  ASSUME TreeInv, FrameBegin
  PROVE  TreeInv' /\ \E slot : Placed(ROOT, HI_ROOT_STUB, slot) /\ touched' = {slot}
<1> DEFINE slot == SlotFor(ROOT)
<1>1. HI_ROOT_STUB \in HiAllocated(hi)
  BY StubsAllocated DEF TreeInv
<1>2. ROOT \in Hashed /\ ROOT # Plain
  BY DEF Hashed, ROOT, Plain
<1>3. slot # HI_ROOT_STUB
  BY <1>1, <1>2, NewSlotIs, SlotsAre DEF SlotFor
<1>4. Placed(ROOT, HI_ROOT_STUB, slot)
  BY <1>1, <1>2, <1>3, PlaceIs DEF FrameBegin
<1>5. /\ touched' = {slot} /\ stack_parent' = Append(stack_parent, slot) /\ phase' = "build"
      /\ stack_parent = <<HI_ROOT_STUB>>
  BY DEF FrameBegin, TreeInv
<1> HIDE DEF slot
<1>6. InTree' = InTree \cup {slot}
  BY <1>4 DEF Placed, InTree
<1>7. /\ stack_parent' \in Seq(touched' \cup {HI_ROOT_STUB}) /\ Len(stack_parent') > 1
      /\ stack_parent'[1] = HI_ROOT_STUB
  BY <1>5
<1>8. TreeInv'
  BY <1>2, <1>4, <1>5, <1>6, <1>7 DEF TreeInv, Placed
<1> QED
  BY <1>4, <1>5, <1>8

LEMMA NodeAllocTree ==
  ASSUME TreeInv, NEW id \in Hashed \cup {Plain}, NodeAlloc(id),
         stack_parent' \in {stack_parent, Append(stack_parent, SlotFor(id))}
  PROVE  TreeInv' /\ \E parent, slot : Placed(id, parent, slot) /\ touched' = touched \cup {slot}
<1> DEFINE slot == SlotFor(id)
           parent == Last(stack_parent)
           T == touched \cup {HI_ROOT_STUB}
<1>1. /\ phase = "build" /\ Linked(hi) /\ touched \subseteq InTree
      /\ stack_parent \in Seq(T) /\ Len(stack_parent) > 1
      /\ stack_parent[1] = HI_ROOT_STUB
      /\ node_map[ROOT] \in touched
      /\ \A t \in touched : hi[t].parent \in T
  BY DEF TreeInv, NodeAlloc
<1>2. parent \in T
  <2>1. Len(stack_parent) \in 1 .. Len(stack_parent)
    BY <1>1
  <2> QED
    BY <1>1, <2>1 DEF Last
<1>3. parent \in HiAllocated(hi)
  BY <1>1, <1>2, StubsAllocated DEF InTree
<1>4. slot \notin T
  <2>1. HI_NULL \in HiAllocated(hi) /\ T \subseteq HiAllocated(hi)
    BY <1>1, StubsAllocated, SlotsAre DEF InTree
  <2>2. CASE id # Plain /\ node_map[id] # HI_NULL
    BY <2>2, SlotsAre DEF SlotFor, NodeAlloc, IsTouched
  <2>3. CASE ~(id # Plain /\ node_map[id] # HI_NULL)
    BY <2>1, <2>3, NewSlotIs DEF SlotFor
  <2> QED
    BY <2>2, <2>3
<1>5. Placed(id, parent, slot)
  BY <1>2, <1>3, <1>4, PlaceIs DEF NodeAlloc
<1>6. touched' = touched \cup {slot} /\ phase' = phase
  BY DEF NodeAlloc
<1>7. stack_parent' \in {stack_parent, Append(stack_parent, slot)}
  OBVIOUS
<1> HIDE DEF slot, parent
<1>8. InTree' = InTree \cup {slot}
  BY <1>5 DEF Placed, InTree
<1>9. /\ stack_parent' \in Seq(touched' \cup {HI_ROOT_STUB}) /\ Len(stack_parent') > 1
      /\ stack_parent'[1] = HI_ROOT_STUB
  <2> DEFINE U == touched' \cup {HI_ROOT_STUB}
  <2>1. stack_parent \in Seq(U) /\ slot \in U
    BY <1>1, <1>6
  <2> HIDE DEF U
  <2>2. CASE stack_parent' = stack_parent
    BY <1>1, <2>1, <2>2 DEF U
  <2>3. CASE stack_parent' = Append(stack_parent, slot)
    <3>1. stack_parent' \in Seq(U) /\ Len(stack_parent') = Len(stack_parent) + 1
      BY <2>1, <2>3
    <3>2. stack_parent'[1] = stack_parent[1]
      BY <1>1, <2>1, <2>3
    <3>3. Len(stack_parent) \in Nat
      BY <2>1
    <3> QED
      BY <1>1, <3>1, <3>2, <3>3 DEF U
  <2> QED
    BY <1>7, <2>2, <2>3
<1>10. node_map'[ROOT] \in touched'
  <2>1. node_map[ROOT] # HI_NULL /\ ROOT \in Hashed
    BY <1>1, SlotsAre DEF InTree, Hashed
  <2> QED
    BY <1>1, <1>5, <1>6, <2>1 DEF Placed
<1>11. \A t \in touched' : hi'[t].parent \in touched' \cup {HI_ROOT_STUB}
  <2>1. \A t \in touched : t \in Slots \ {slot} /\ hi[t].parent # slot
    BY <1>1, <1>4 DEF InTree, HiAllocated
  <2> QED
    BY <1>1, <1>2, <1>5, <1>6, <2>1 DEF Placed
<1>12. touched' \subseteq InTree'
  BY <1>1, <1>6, <1>8
<1>13. \A n \in Hashed : node_map'[n] # HI_NULL => node_map'[n] \in InTree'
  BY <1>5, <1>8 DEF Placed
<1>14. TreeInv'
  BY <1>1, <1>5, <1>6, <1>9, <1>10, <1>11, <1>12, <1>13 DEF TreeInv, Placed
<1> QED
  BY <1>5, <1>6, <1>14

LEMMA NodePopTree ==
  ASSUME TreeInv, NodePop
  PROVE  TreeInv'
<1> DEFINE T == touched \cup {HI_ROOT_STUB}
<1>1. /\ phase = "build" /\ stack_parent \in Seq(T) /\ Len(stack_parent) > 2
      /\ stack_parent[1] = HI_ROOT_STUB /\ stack_parent' = Front(stack_parent)
      /\ UNCHANGED <<hi, length, node_map, touched, phase>>
  BY DEF TreeInv, NodePop
<1>2. /\ stack_parent' \in Seq(T) /\ Len(stack_parent') > 1
      /\ stack_parent'[1] = HI_ROOT_STUB
  BY <1>1 DEF Front
<1> QED
  BY <1>1, <1>2 DEF TreeInv, InTree

(* ui_FrameEnd prunes no node of the frame, and hangs its tree under the   *)
(* orphan stub.                                                            *)
LEMMA FrameEndTree ==
  ASSUME TreeInv, NEW hovered, FrameEnd(hovered)
  PROVE  /\ TreeInv' /\ touched \subseteq HiAllocated(Pruned)
         /\ \A n \in Hashed : node_map'[n] = IF node_map[n] \in HiAllocated(Pruned) THEN node_map[n] ELSE HI_NULL
<1> DEFINE kept == HiAllocated(Pruned)
           root == node_map[ROOT]
<1>1. /\ phase = "build" /\ Linked(hi) /\ touched \subseteq InTree
      /\ length \in Nat /\ HiAllocated(hi) \subseteq 0 .. length - 1
      /\ node_map \in [Hashed -> Slots]
      /\ \A n \in Hashed : node_map[n] # HI_NULL => node_map[n] \in InTree
      /\ stack_parent \in Seq(touched \cup {HI_ROOT_STUB})
      /\ stack_parent[1] = HI_ROOT_STUB
      /\ root \in touched
      /\ \A t \in touched : hi[t].parent \in touched \cup {HI_ROOT_STUB}
  BY DEF TreeInv, FrameEnd
<1>2. /\ hi' = AdoptNode(Pruned, root, HI_ORPHAN_STUB)
      /\ node_map' = [n \in Hashed |-> IF node_map[n] \in kept THEN node_map[n] ELSE HI_NULL]
      /\ stack_parent' = Front(stack_parent) /\ Len(stack_parent) = 2
      /\ phase' = "events" /\ length' = length /\ touched' = touched
  BY DEF FrameEnd
<1>3. HI_ROOT_STUB \notin touched /\ HI_ORPHAN_STUB \notin touched
  BY <1>1 DEF InTree
<1>4. Pruning([left |-> hi, index |-> hi[HI_ORPHAN_STUB].first])
  <2> DEFINE i == hi[HI_ORPHAN_STUB].first
             p == [left |-> hi, index |-> i]
  <2>1. hi \in [Slots -> Nodes] /\ i \in Slots
    BY <1>1, SlotsAre DEF Linked, Nodes
  <2> HIDE DEF i
  <2>2. p \in [left : [Slots -> Nodes], index : Slots] /\ p.left = hi /\ p.index = i
    BY <2>1
  <2> HIDE DEF p
  <2>3. Pruning(p)
    BY <1>1, <2>2 DEF Pruning, InTree, i
  <2> QED
    BY <2>3 DEF p, i
<1>5. Linked(Pruned) /\ touched \subseteq kept /\ kept \subseteq HiAllocated(hi)
  BY <1>3, <1>4, PrunedIs
<1>6. /\ Linked(hi') /\ HiAllocated(hi') = kept
  <2>1. root \in Slots \ {HI_ROOT_STUB, HI_ORPHAN_STUB} /\ Pruned[root] # Free
    BY <1>1, <1>3, <1>5 DEF HiAllocated
  <2> HIDE DEF root
  <2>2. HI_ORPHAN_STUB \in {HI_ROOT_STUB, HI_ORPHAN_STUB}
    OBVIOUS
  <2>3. LET r == AdoptNode(Pruned, root, HI_ORPHAN_STUB)
        IN /\ Linked(r)
           /\ HiAllocated(r) = HiAllocated(Pruned)
           /\ r[root].parent = HI_ORPHAN_STUB
           /\ \A s \in Slots \ {root} : r[s].parent = Pruned[s].parent
    BY <1>5, <2>1, <2>2, AdoptNodeLinks
  <2> QED
    BY <1>2, <2>3
<1>7. stack_parent' = <<HI_ROOT_STUB>>
  <2> DEFINE T == touched \cup {HI_ROOT_STUB}
  <2>1. stack_parent' = SubSeq(stack_parent, 1, 1) /\ stack_parent \in Seq(T)
    BY <1>1, <1>2 DEF Front
  <2> HIDE DEF T
  <2>2. stack_parent' \in Seq(T) /\ Len(stack_parent') = 1 /\ stack_parent'[1] = stack_parent[1]
    BY <1>2, <2>1
  <2> QED
    BY <1>1, <2>2
<1>8. node_map' \in [Hashed -> Slots] /\ \A n \in Hashed : node_map'[n] # HI_NULL => node_map'[n] \in InTree'
  BY <1>1, <1>2, <1>6, SlotsAre DEF InTree
<1>9. touched' \subseteq InTree' /\ HiAllocated(hi') \subseteq 0 .. length' - 1
  BY <1>1, <1>2, <1>3, <1>5, <1>6 DEF InTree
<1>10. TreeInv'
  BY <1>1, <1>2, <1>6, <1>7, <1>8, <1>9 DEF TreeInv
<1> QED
  BY <1>2, <1>5, <1>10

-------------------------------------------------------------------------------
(* The text                                                                *)

LEMMA IdsAre ==
  /\ Fields \subseteq Hashed /\ External \subseteq Fields
  /\ None \notin Fields /\ ROOT \notin Fields /\ Plain \notin Fields
  /\ \A id \in Panels : id \notin Fields
  BY UiAssumption DEF Fields, Hashed

Pointers == [at : Slots \cup External \cup {None}, in : Nat]

LEMMA CommandsAre ==
  ASSUME NEW id \in Fields \cup {None}
  PROVE  /\ Disable(id) \in Commands /\ Disable(id).id = id
         /\ Disable(id).call = "ui_TextInputModeDisable"
         /\ \A ptr \in Pointers :
              /\ Enable(id, ptr) \in Commands /\ Enable(id, ptr).call = "ui_TextInputModeEnable"
              /\ Enable(id, ptr).id = id /\ Enable(id, ptr).ptr = ptr
<1>1. Stub \in Pointers
  BY DEF Stub, Pointers
<1> HIDE DEF Stub
<1> QED
  BY <1>1 DEF Disable, Enable, Commands, Pointers

LEMMA AddressIs ==
  ASSUME TreeInv, NEW id \in Fields
  PROVE  Address(id) \in Pointers
  BY IdsAre DEF Address, Pointers, TreeInv

LEMMA ExternalAddress ==
  ASSUME NEW id \in External
  PROVE  Address(id)' = Address(id)
  BY DEF Address

(* The queue of before is the beginning of the queue of now, which has no  *)
(* other turn.                                                             *)
Longer ==
  /\ cmd_list' \in Seq(Commands)
  /\ \A i \in 1 .. Len(cmd_list) : i \in 1 .. Len(cmd_list') /\ cmd_list'[i] = cmd_list[i]

NoTurn ==
  \A i \in 1 .. Len(cmd_list') : Enables(i)' => i \in 1 .. Len(cmd_list)

LEMMA LongerKeeps ==
  ASSUME Longer
  PROVE  /\ \A cmd : Pending(cmd) => \E i \in 1 .. Len(cmd_list') : cmd_list'[i] = cmd
         /\ \A id : PendingEnable(id) =>
              \E i \in 1 .. Len(cmd_list') :
                cmd_list'[i].call = Enable(id, Stub).call /\ cmd_list'[i].id = id
  BY DEF Longer, Pending, PendingEnable

LEMMA SameQueue ==
  ASSUME cmd_list \in Seq(Commands), cmd_list' = cmd_list
  PROVE  Longer /\ NoTurn
  BY DEF Longer, NoTurn

LEMMA DisableQueued ==
  ASSUME cmd_list \in Seq(Commands), NEW id \in Fields \cup {None},
         cmd_list' = Append(cmd_list, Disable(id))
  PROVE  Longer /\ NoTurn /\ \E i \in 1 .. Len(cmd_list') : cmd_list'[i] = Disable(id)
<1> DEFINE d == Disable(id)
<1>1. d \in Commands /\ d.call = "ui_TextInputModeDisable"
  BY CommandsAre
<1> HIDE DEF d
<1>2. /\ cmd_list' \in Seq(Commands) /\ Len(cmd_list') = Len(cmd_list) + 1 /\ Len(cmd_list) \in Nat
      /\ \A i \in 1 .. Len(cmd_list) : cmd_list'[i] = cmd_list[i]
      /\ cmd_list'[Len(cmd_list) + 1] = d
  BY <1>1 DEF d
<1>3. Longer
  BY <1>2 DEF Longer
<1>4. NoTurn
  BY <1>1, <1>2 DEF NoTurn, Enables
<1>5. \E i \in 1 .. Len(cmd_list') : cmd_list'[i] = d
  BY <1>2
<1> QED
  BY <1>3, <1>4, <1>5 DEF d

(* The field that is edited, the focus and the frame as they are.          *)
LEMMA TurnsKept ==
  ASSUME TextInv, Longer, NoTurn, text_edit_id' = text_edit_id,
         \A i \in 1 .. Len(cmd_list) : Enables(i) =>
           cmd_list[i].id \in focus' /\ (phase' = "build" => IsTouched(cmd_list[i].id)')
  PROVE  \A i \in 1 .. Len(cmd_list') : Enables(i)' => TurnSound(i)'
<1> SUFFICES ASSUME NEW i \in 1 .. Len(cmd_list'), Enables(i)'
             PROVE  TurnSound(i)'
  OBVIOUS
<1>1. i \in 1 .. Len(cmd_list) /\ cmd_list'[i] = cmd_list[i] /\ Enables(i)
  BY DEF Longer, NoTurn, Enables
<1>2. TurnSound(i)
  BY <1>1 DEF TextInv
<1> SUFFICES ASSUME NEW id, id = cmd_list[i].id
             PROVE  TurnSound(i)'
  OBVIOUS
<1>3. cmd_list'[i].id = id /\ cmd_list'[i].ptr = cmd_list[i].ptr
  BY <1>1
<1>4. id \in focus' \ {text_edit_id'} /\ (phase' = "build" => IsTouched(id)')
  BY <1>1, <1>2 DEF TurnSound
<1>5. id \in External => cmd_list[i].ptr = Address(id)'
  BY <1>2, ExternalAddress DEF TurnSound
<1>6. ASSUME NEW j \in 1 .. Len(cmd_list'), Enables(j)', cmd_list'[j].id = id
      PROVE  i = j
  <2>1. j \in 1 .. Len(cmd_list) /\ cmd_list'[j] = cmd_list[j] /\ Enables(j)
    BY <1>6 DEF Longer, NoTurn, Enables
  <2> QED
    BY <1>2, <1>6, <2>1 DEF TurnSound
<1> QED
  BY <1>3, <1>4, <1>5, <1>6 DEF TurnSound

LEMMA ProcessEventsText ==
  ASSUME IInv, NEW click, NEW escape, ProcessEvents(click, escape)
  PROVE  TextInv' /\ TextModeCoherent'
<1>1. /\ phase = "events" /\ phase' = "commands"
      /\ UNCHANGED <<focus, node_map, length, touched>>
      /\ UNCHANGED <<text_edit_mode, text_edit_id, text_edit, text_input_mode>>
  BY DEF ProcessEvents, text, tree
<1>2. TextInv /\ TextModeCoherent /\ cmd_list \in Seq(Commands) /\ text_edit_id \in Fields \cup {None}
  BY DEF IInv, TextInv
<1>3. Longer /\ NoTurn
  BY <1>2, SameQueue, DisableQueued DEF ProcessEvents
<1>4. \A i \in 1 .. Len(cmd_list') : Enables(i)' => TurnSound(i)'
  BY <1>1, <1>2, <1>3, TurnsKept DEF TextInv, TurnSound
<1>5. TextInv'
  BY <1>1, <1>2, <1>3, <1>4, ExternalAddress DEF TextInv, Longer
<1>6. TextModeCoherent'
  <2>1. \A cmd : Pending(cmd) => \E i \in 1 .. Len(cmd_list') : cmd_list'[i] = cmd
    BY <1>3, LongerKeeps
  <2>2. \A id : PendingEnable(id) =>
          \E i \in 1 .. Len(cmd_list') :
            cmd_list'[i].call = Enable(id, Stub).call /\ cmd_list'[i].id = id
    BY <1>3, LongerKeeps
  <2>3. Pending(Disable(text_edit_id)) => Pending(Disable(text_edit_id))'
    BY <1>1, <2>1 DEF Pending, Disable
  <2>4. \A f \in focus' \ {text_edit_id'} : PendingEnable(f)'
    BY <1>1, <1>2, <2>2 DEF TextModeCoherent, PendingEnable, Enable
  <2> QED
    BY <1>1, <1>2, <2>3, <2>4 DEF TextModeCoherent
<1> QED
  BY <1>5, <1>6

LEMMA TouchedStays ==
  ASSUME TreeInv, NEW id \in Fields, IsTouched(id), touched \subseteq touched',
         node_map[id] # HI_NULL => node_map'[id] = node_map[id]
  PROVE  IsTouched(id)'
  BY SlotsAre DEF TreeInv, InTree, IsTouched

(* A step of a frame that leaves the text, the focus and the queue alone.  *)
LEMMA QuietText ==
  ASSUME IInv, phase = "build", phase' = "build", touched \subseteq touched',
         UNCHANGED <<text_edit_mode, text_edit_id, text_edit, text_input_mode, focus, cmd_list>>,
         \A f \in Fields : node_map[f] # HI_NULL => node_map'[f] = node_map[f]
  PROVE  TextInv' /\ TextModeCoherent'
<1>1. TreeInv /\ TextInv /\ TextModeCoherent /\ cmd_list \in Seq(Commands)
  BY DEF IInv, TextInv
<1>2. Longer /\ NoTurn
  BY <1>1, SameQueue
<1>3. \A f \in Fields : IsTouched(f) => IsTouched(f)'
  BY <1>1, TouchedStays
<1>4. ASSUME NEW i \in 1 .. Len(cmd_list), Enables(i)
      PROVE  cmd_list[i].id \in focus' /\ IsTouched(cmd_list[i].id)'
  <2> SUFFICES ASSUME NEW id, id = cmd_list[i].id
               PROVE  id \in focus' /\ IsTouched(id)' /\ UNCHANGED cmd_list
    BY DEF IsTouched
  <2>1. id \in focus /\ IsTouched(id)
    BY <1>1, <1>4 DEF TextInv, TurnSound
  <2>2. id \in Fields
    BY <1>1, <2>1 DEF TextInv
  <2> QED
    BY <1>3, <2>1, <2>2
<1>5. \A i \in 1 .. Len(cmd_list') : Enables(i)' => TurnSound(i)'
  <2>1. ASSUME NEW i \in 1 .. Len(cmd_list), Enables(i)
        PROVE  cmd_list[i].id \in focus' /\ (phase' = "build" => IsTouched(cmd_list[i].id)')
    BY <1>4, <2>1 DEF IsTouched
  <2> QED
    BY <1>1, <1>2, <2>1, TurnsKept
<1>6. focus' \subseteq {f \in Fields : node_map'[f] # HI_NULL}
  BY <1>1 DEF TextInv
<1>7. text_edit_id' \in External => text_edit' = Address(text_edit_id)'
  BY <1>1 DEF TextInv, Address
<1>8. text_edit_id' # None =>
        HasNode(text_edit_id)' /\ (IsTouched(text_edit_id)' \/ text_edit_id' \in focus')
  <2> SUFFICES ASSUME NEW id, id = text_edit_id, id # None
               PROVE  /\ HasNode(id)' /\ (IsTouched(id)' \/ id \in focus')
                      /\ text_edit_id' = text_edit_id
    BY DEF HasNode, IsTouched
  <2>1. HasNode(id) /\ (IsTouched(id) \/ id \in focus) /\ id \in Fields
    BY <1>1 DEF TextInv
  <2> QED
    BY <1>3, <2>1 DEF HasNode
<1>9. TextInv'
  BY <1>1, <1>5, <1>6, <1>7, <1>8 DEF TextInv
<1>10. TextModeCoherent'
  <2>1. \A f \in focus' \ {text_edit_id'} : PendingEnable(f)'
    BY <1>1 DEF TextModeCoherent, PendingEnable, Enable
  <2> QED
    BY <1>1, <2>1 DEF TextModeCoherent
<1> QED
  BY <1>9, <1>10

LEMMA FrameBeginText ==
  ASSUME IInv, FrameBegin
  PROVE  TextInv' /\ TextModeCoherent'
<1>1. /\ phase = "commands" /\ phase' = "build" /\ cmd_list = <<>>
      /\ UNCHANGED <<text_edit_mode, text_edit_id, text_edit, text_input_mode, focus, cmd_list>>
  BY DEF FrameBegin, text
<1>2. TreeInv /\ TextInv /\ TextModeCoherent
  BY DEF IInv
<1>3. PICK slot : Placed(ROOT, HI_ROOT_STUB, slot)
  BY <1>2, FrameBeginTree
<1>4. \A f \in Fields : node_map'[f] = node_map[f]
  BY <1>3, IdsAre DEF Placed
<1>5. \A f \in focus : f = text_edit_id
  BY <1>1, <1>2 DEF TextModeCoherent, PendingEnable
<1>6. text_edit_id = None \/ text_edit_id \in focus
  BY <1>1, <1>2 DEF TextModeCoherent, Pending
<1>7. TextInv'
  <2>1. focus' \subseteq {f \in Fields : node_map'[f] # HI_NULL}
    BY <1>1, <1>2, <1>4 DEF TextInv
  <2>2. text_edit_id' \in External => text_edit' = Address(text_edit_id)'
    BY <1>1, <1>2 DEF TextInv, Address
  <2>3. text_edit_id' # None =>
          HasNode(text_edit_id)' /\ (IsTouched(text_edit_id)' \/ text_edit_id' \in focus')
    BY <1>1, <1>6, <2>1 DEF HasNode
  <2> QED
    BY <1>1, <1>2, <2>1, <2>2, <2>3 DEF TextInv
<1>8. TextModeCoherent'
  BY <1>1, <1>2, <1>5 DEF TextModeCoherent
<1> QED
  BY <1>7, <1>8

LEMMA PanelAllocText ==
  ASSUME IInv, NEW id \in Panels \cup {Plain}, PanelAlloc(id)
  PROVE  TextInv' /\ TextModeCoherent'
<1>1. id \in Hashed \cup {Plain}
  BY DEF Hashed
<1>2. TreeInv /\ NodeAlloc(id) /\ stack_parent' \in {stack_parent, Append(stack_parent, SlotFor(id))}
  BY DEF IInv, PanelAlloc
<1>3. PICK parent, slot : Placed(id, parent, slot) /\ touched' = touched \cup {slot}
  BY <1>1, <1>2, NodeAllocTree
<1>4. /\ phase = "build" /\ phase' = "build"
      /\ UNCHANGED <<text_edit_mode, text_edit_id, text_edit, text_input_mode, focus, cmd_list>>
  BY DEF PanelAlloc, NodeAlloc
<1>5. \A f \in Fields : node_map[f] # HI_NULL => node_map'[f] = node_map[f]
  BY <1>3, IdsAre DEF Placed
<1> QED
  BY <1>3, <1>4, <1>5, QuietText

LEMMA NodePopText ==
  ASSUME IInv, NodePop
  PROVE  TextInv' /\ TextModeCoherent'
  BY QuietText DEF NodePop, text

(* ui_TextInputModeEnable and ui_TextInputModeDisable                      *)
LEMMA TailIs ==
  ASSUME cmd_list \in Seq(Commands), cmd_list # <<>>, cmd_list' = Tail(cmd_list)
  PROVE  /\ cmd_list' \in Seq(Commands) /\ Head(cmd_list) = cmd_list[1]
         /\ 1 \in 1 .. Len(cmd_list)
         /\ \A i \in 1 .. Len(cmd_list') : i + 1 \in 1 .. Len(cmd_list) /\ i + 1 # 1
                                           /\ cmd_list'[i] = cmd_list[i + 1]
         /\ \A i \in 1 .. Len(cmd_list) : i # 1 =>
              i - 1 \in 1 .. Len(cmd_list') /\ cmd_list'[i - 1] = cmd_list[i]
<1> SUFFICES ASSUME NEW q \in Seq(Commands), q # <<>>, NEW r, r = Tail(q)
             PROVE  /\ r \in Seq(Commands) /\ Head(q) = q[1]
                    /\ 1 \in 1 .. Len(q)
                    /\ \A i \in 1 .. Len(r) : i + 1 \in 1 .. Len(q) /\ i + 1 # 1 /\ r[i] = q[i + 1]
                    /\ \A i \in 1 .. Len(q) : i # 1 => i - 1 \in 1 .. Len(r) /\ r[i - 1] = q[i]
  OBVIOUS
<1>1. r \in Seq(Commands) /\ Len(r) = Len(q) - 1 /\ Len(q) \in Nat /\ Len(q) > 0 /\ Head(q) = q[1]
  OBVIOUS
<1>2. \A i \in 1 .. Len(r) : r[i] = q[i + 1]
  BY <1>1
<1>3. \A i \in 1 .. Len(q) : i # 1 => i - 1 \in 1 .. Len(r) /\ r[i - 1] = q[i]
  <2> SUFFICES ASSUME NEW i \in 1 .. Len(q), i # 1
               PROVE  i - 1 \in 1 .. Len(r) /\ r[i - 1] = q[i]
    OBVIOUS
  <2>1. i - 1 \in 1 .. Len(r) /\ (i - 1) + 1 = i
    BY <1>1
  <2>2. r[i - 1] = q[(i - 1) + 1]
    BY <1>2, <2>1
  <2> QED
    BY <2>1, <2>2
<1> QED
  BY <1>1, <1>2, <1>3

LEMMA CmdExecuteText ==
  ASSUME IInv, CmdExecute
  PROVE  TextInv' /\ TextModeCoherent'
<1>1. TreeInv /\ TextInv /\ TextModeCoherent
  BY DEF IInv
<1>2. /\ phase = "commands" /\ phase' = "commands" /\ cmd_list # <<>> /\ cmd_list' = Tail(cmd_list)
      /\ node_map' = node_map
  BY DEF CmdExecute, tree
<1>3. /\ cmd_list' \in Seq(Commands) /\ Head(cmd_list) = cmd_list[1]
      /\ 1 \in 1 .. Len(cmd_list)
      /\ \A i \in 1 .. Len(cmd_list') : i + 1 \in 1 .. Len(cmd_list) /\ i + 1 # 1
                                        /\ cmd_list'[i] = cmd_list[i + 1]
      /\ \A i \in 1 .. Len(cmd_list) : i # 1 =>
           i - 1 \in 1 .. Len(cmd_list') /\ cmd_list'[i - 1] = cmd_list[i]
  <2>1. cmd_list \in Seq(Commands)
    BY <1>1 DEF TextInv
  <2> QED
    BY <1>2, <2>1, TailIs
<1>4. SUFFICES ASSUME NEW cmd, cmd = cmd_list[1]
               PROVE  TextInv' /\ TextModeCoherent'
  OBVIOUS
<1>5. cmd \in Commands /\ cmd.id \in Fields \cup {None}
  <2>1. cmd \in Commands
    BY <1>1, <1>3, <1>4 DEF TextInv
  <2> QED
    BY <2>1 DEF Commands
<1>6. focus \subseteq {f \in Fields : node_map[f] # HI_NULL}
  BY <1>1 DEF TextInv
(* The other turns are as sound as they were for what keeps their focus.   *)
<1>7. ASSUME \A i \in 1 .. Len(cmd_list) : i # 1 /\ Enables(i) =>
               cmd_list[i].id \in focus' \ {text_edit_id'}
      PROVE  \A i \in 1 .. Len(cmd_list') : Enables(i)' => TurnSound(i)'
  <2> SUFFICES ASSUME NEW i \in 1 .. Len(cmd_list'), Enables(i)'
               PROVE  TurnSound(i)'
    OBVIOUS
  <2> SUFFICES ASSUME NEW c, c = cmd_list'[i]
               PROVE  TurnSound(i)'
    OBVIOUS
  <2>1. i + 1 \in 1 .. Len(cmd_list) /\ i + 1 # 1 /\ cmd_list[i + 1] = c
    BY <1>3
  <2>2. Enables(i + 1) /\ TurnSound(i + 1)
    BY <1>1, <2>1 DEF Enables, TextInv
  <2>3. c.id \in focus' \ {text_edit_id'}
    BY <1>7, <2>1, <2>2
  <2>4. c.id \in External => c.ptr = Address(c.id)'
    BY <2>1, <2>2, ExternalAddress DEF TurnSound
  <2>5. ASSUME NEW j \in 1 .. Len(cmd_list'), Enables(j)', cmd_list'[j].id = c.id
        PROVE  i = j
    <3>1. j + 1 \in 1 .. Len(cmd_list) /\ cmd_list[j + 1] = cmd_list'[j]
      BY <1>3
    <3>2. Enables(j + 1) /\ cmd_list[j + 1].id = c.id
      BY <2>5, <3>1 DEF Enables
    <3>3. i + 1 = j + 1
      BY <2>1, <2>2, <3>1, <3>2 DEF TurnSound
    <3> QED
      BY <3>3
  <2> QED
    BY <1>2, <2>3, <2>4, <2>5 DEF TurnSound
<1>8. ASSUME NEW f, PendingEnable(f), ~(Enables(1) /\ cmd.id = f)
      PROVE  PendingEnable(f)'
  <2>1. PICK i \in 1 .. Len(cmd_list) :
          cmd_list[i].call = "ui_TextInputModeEnable" /\ cmd_list[i].id = f
    BY <1>8 DEF PendingEnable, Enable
  <2>2. i # 1
    BY <1>4, <1>8, <2>1 DEF Enables
  <2> QED
    BY <1>3, <2>1, <2>2 DEF PendingEnable, Enable
<1>9. CASE cmd.call = "ui_TextInputModeEnable"
  <2>1. TextInputModeEnable(cmd.id, cmd.ptr)
    BY <1>3, <1>9, <1>4 DEF CmdExecute
  <2>2. /\ text_edit_mode' = 1 /\ text_edit_id' = cmd.id /\ text_edit' = cmd.ptr
        /\ focus' = IF HasNode(text_edit_id) THEN focus \ {text_edit_id} ELSE focus
        /\ text_input_mode' = IF HasNode(text_edit_id) THEN text_input_mode ELSE 1
    BY <2>1 DEF TextInputModeEnable, Unfocus
  <2>3. Enables(1) /\ TurnSound(1)
    BY <1>1, <1>3, <1>4, <1>9 DEF Enables, TextInv
  <2>4. /\ cmd.id \in focus \ {text_edit_id}
        /\ cmd.id \in External => cmd.ptr = Address(cmd.id)
    BY <1>4, <2>3 DEF TurnSound
  <2>5. cmd.id \in focus' /\ cmd.id \in Fields /\ cmd.id # None
    BY <1>6, <2>2, <2>4, IdsAre
  <2>6. focus' = focus \ {text_edit_id}
    <3>1. ASSUME text_edit_id \in focus
          PROVE  HasNode(text_edit_id)
      BY <1>6, <3>1, IdsAre DEF HasNode
    <3> QED
      BY <2>2, <3>1
  <2>7. \A i \in 1 .. Len(cmd_list) : i # 1 /\ Enables(i) =>
               cmd_list[i].id \in focus' \ {text_edit_id'}
    <3> SUFFICES ASSUME NEW i \in 1 .. Len(cmd_list), i # 1, Enables(i)
                 PROVE  cmd_list[i].id \in focus' \ {text_edit_id'}
      OBVIOUS
    <3>1. TurnSound(i)
      BY <1>1 DEF TextInv
    <3>2. cmd_list[i].id \in focus \ {text_edit_id}
      BY <3>1 DEF TurnSound
    <3>3. cmd_list[i].id # cmd.id
      BY <1>3, <1>4, <2>3, <3>1 DEF TurnSound
    <3> QED
      BY <2>2, <2>6, <3>2, <3>3
  <2>8. text_edit_id' \in External => text_edit' = Address(text_edit_id)'
    <3>1. cmd.id \in External => cmd.ptr = Address(cmd.id)'
      BY <2>4, ExternalAddress
    <3> QED
      BY <2>2, <3>1 DEF Address
  <2>9. TextInv'
    <3>1. \A i \in 1 .. Len(cmd_list') : Enables(i)' => TurnSound(i)'
      BY <1>7, <2>7
    <3> QED
      BY <1>2, <1>3, <1>5, <1>6, <2>2, <2>6, <2>8, <3>1 DEF TextInv
  <2>10. text_input_mode' = 1
    <3>1. HasNode(text_edit_id) => text_input_mode = 1
      BY <1>1 DEF HasNode, TextModeCoherent
    <3> QED
      BY <2>2, <3>1
  <2>11. \A f \in focus' \ {text_edit_id'} : PendingEnable(f)'
    BY <1>1, <1>8, <2>2, <2>6 DEF TextModeCoherent
  <2>12. TextModeCoherent'
    BY <1>2, <2>2, <2>5, <2>10, <2>11 DEF TextModeCoherent
  <2> QED
    BY <2>9, <2>12
<1>10. CASE cmd.call # "ui_TextInputModeEnable"
  <2>1. TextInputModeDisable(cmd.id) /\ ~Enables(1)
    BY <1>3, <1>10, <1>4 DEF CmdExecute, Enables
  <2>2. CASE cmd.id = text_edit_id
    <3>1. /\ text_edit_mode' = 0 /\ text_edit_id' = None /\ text_edit' = Stub /\ text_input_mode' = 0
          /\ focus' = focus \ {text_edit_id}
      BY <2>1, <2>2 DEF TextInputModeDisable, Unfocus
    <3>2. \A i \in 1 .. Len(cmd_list) : i # 1 /\ Enables(i) =>
                 cmd_list[i].id \in focus' \ {text_edit_id'}
      <4>1. \A i \in 1 .. Len(cmd_list) : Enables(i) => cmd_list[i].id \in focus \ {text_edit_id}
        BY <1>1 DEF TextInv, TurnSound
      <4> QED
        BY <1>6, <3>1, <4>1, IdsAre
    <3>3. \A i \in 1 .. Len(cmd_list') : Enables(i)' => TurnSound(i)'
      BY <1>7, <3>2
    <3>4. TextInv'
      BY <1>2, <1>3, <1>6, <3>1, <3>3, IdsAre DEF TextInv
    <3>5. \A f \in focus' \ {text_edit_id'} : PendingEnable(f)'
      BY <1>1, <1>8, <2>1, <3>1 DEF TextModeCoherent
    <3>6. TextModeCoherent'
      BY <1>2, <3>1, <3>5 DEF TextModeCoherent
    <3> QED
      BY <3>4, <3>6
  <2>3. CASE cmd.id # text_edit_id
    <3>1. UNCHANGED <<text_edit_mode, text_edit_id, text_edit, text_input_mode, focus>>
      BY <2>1, <2>3 DEF TextInputModeDisable, text
    <3>2. \A i \in 1 .. Len(cmd_list) : i # 1 /\ Enables(i) =>
                 cmd_list[i].id \in focus' \ {text_edit_id'}
      BY <1>1, <3>1 DEF TextInv, TurnSound
    <3>3. \A i \in 1 .. Len(cmd_list') : Enables(i)' => TurnSound(i)'
      BY <1>7, <3>2
    <3>4. TextInv'
      BY <1>1, <1>2, <1>3, <3>1, <3>3 DEF TextInv, Address
    <3>5. \A f \in focus' \ {text_edit_id'} : PendingEnable(f)'
      BY <1>1, <1>8, <2>1, <3>1 DEF TextModeCoherent
    <3>6. ASSUME text_edit_id \notin focus \cup {None}
          PROVE  Pending(Disable(text_edit_id))'
      <4>1. PICK i \in 1 .. Len(cmd_list) : cmd_list[i] = Disable(text_edit_id)
        BY <1>1, <1>2, <3>6 DEF TextModeCoherent, Pending
      <4>2. text_edit_id \in Fields \cup {None}
        BY <1>1 DEF TextInv
      <4>3. i # 1
        BY <1>4, <2>3, <4>1, <4>2, CommandsAre
      <4> QED
        BY <1>3, <3>1, <4>1, <4>3 DEF Pending, Disable
    <3>7. TextModeCoherent'
      BY <1>1, <1>2, <3>1, <3>5, <3>6 DEF TextModeCoherent
    <3> QED
      BY <3>4, <3>7
  <2> QED
    BY <2>2, <2>3
<1> QED
  BY <1>9, <1>10

(* r is q with a, which is e or nothing, and then d or nothing.            *)
TwoMore(r, q, a, e, d, S) ==
  /\ r \in Seq(S)
  /\ \A i \in 1 .. Len(q) : i \in 1 .. Len(r) /\ r[i] = q[i]
  /\ \A i \in 1 .. Len(r) :
       \/ i \in 1 .. Len(q)
       \/ i = Len(q) + 1 /\ a = <<e>> /\ r[i] = e
       \/ r[i] = d
  /\ a = <<e>> => Len(q) + 1 \in 1 .. Len(r) /\ r[Len(q) + 1] = e

LEMMA TwoAppended ==
  ASSUME NEW S, NEW q \in Seq(S), NEW e \in S, NEW d \in S,
         NEW a, a = <<>> \/ a = <<e>>, NEW b, b = <<>> \/ b = <<d>>, NEW r, r = q \o a \o b
  PROVE  TwoMore(r, q, a, e, d, S)
<1>1. CASE a = <<>> /\ b = <<>>
  <2>1. r = q /\ a # <<e>>
    BY <1>1
  <2> QED
    BY <2>1 DEF TwoMore
<1>2. CASE a = <<>> /\ b = <<d>>
  <2>1. r = Append(q, d) /\ a # <<e>>
    BY <1>2
  <2> QED
    BY <2>1 DEF TwoMore
<1>3. CASE a = <<e>> /\ b = <<>>
  <2>1. r = Append(q, e)
    BY <1>3
  <2> QED
    BY <1>3, <2>1 DEF TwoMore
<1>4. CASE a = <<e>> /\ b = <<d>>
  <2> SUFFICES ASSUME NEW m, m = q \o <<e>>
               PROVE  TwoMore(r, q, a, e, d, S)
    OBVIOUS
  <2>2. m \in Seq(S) /\ m = Append(q, e) /\ r = m \o <<d>>
    BY <1>4
  <2>1. r = Append(m, d)
    BY <2>2
  <2> QED
    BY <1>4, <2>1, <2>2 DEF TwoMore
<1> QED
  BY <1>1, <1>2, <1>3, <1>4

(* What a field appends to the queue: its turn, if it gains the focus, and *)
(* no other.                                                               *)
LEMMA FieldQueue ==
  ASSUME cmd_list \in Seq(Commands), NEW id \in Fields, NEW ptr \in Pointers,
         NEW focus_in \in BOOLEAN, NEW done \in BOOLEAN,
         cmd_list' = cmd_list \o (IF focus_in THEN <<Enable(id, ptr)>> ELSE <<>>)
                              \o (IF done THEN <<Disable(id)>> ELSE <<>>)
  PROVE  /\ Longer
         /\ \A i \in 1 .. Len(cmd_list') :
              Enables(i)' => i \in 1 .. Len(cmd_list)
                             \/ (i = Len(cmd_list) + 1 /\ focus_in /\ cmd_list'[i] = Enable(id, ptr))
         /\ focus_in => Len(cmd_list) + 1 \in 1 .. Len(cmd_list')
                        /\ cmd_list'[Len(cmd_list) + 1] = Enable(id, ptr)
<1> DEFINE e == Enable(id, ptr)
           d == Disable(id)
           a == IF focus_in THEN <<e>> ELSE <<>>
           b == IF done THEN <<d>> ELSE <<>>
<1>1. e \in Commands /\ d \in Commands /\ d.call # "ui_TextInputModeEnable"
  BY CommandsAre
<1>2. cmd_list' = cmd_list \o a \o b
  OBVIOUS
<1> HIDE DEF e, d
<1>3. (a = <<>> \/ a = <<e>>) /\ (b = <<>> \/ b = <<d>>)
  OBVIOUS
<1>4. a = <<e>> <=> focus_in
  OBVIOUS
<1> HIDE DEF a, b
<1>5. /\ cmd_list' \in Seq(Commands)
      /\ \A i \in 1 .. Len(cmd_list) : i \in 1 .. Len(cmd_list') /\ cmd_list'[i] = cmd_list[i]
      /\ \A i \in 1 .. Len(cmd_list') :
           \/ i \in 1 .. Len(cmd_list)
           \/ i = Len(cmd_list) + 1 /\ a = <<e>> /\ cmd_list'[i] = e
           \/ cmd_list'[i] = d
      /\ a = <<e>> => /\ Len(cmd_list) + 1 \in 1 .. Len(cmd_list')
                      /\ cmd_list'[Len(cmd_list) + 1] = e
  <2> DEFINE C == Commands
  <2>1. cmd_list \in Seq(C) /\ e \in C /\ d \in C
    BY <1>1
  <2> HIDE DEF C
  <2>2. TwoMore(cmd_list', cmd_list, a, e, d, C)
    BY <1>2, <1>3, <2>1, TwoAppended, Zenon
  <2> QED
    BY <2>2 DEF C, TwoMore
<1>6. Longer
  BY <1>5 DEF Longer
<1>7. ASSUME NEW i \in 1 .. Len(cmd_list'), Enables(i)'
      PROVE  i \in 1 .. Len(cmd_list) \/ (i = Len(cmd_list) + 1 /\ focus_in /\ cmd_list'[i] = e)
  BY <1>1, <1>4, <1>5, <1>7 DEF Enables
<1> QED
  BY <1>4, <1>5, <1>6, <1>7 DEF e

LEMMA FieldAllocText ==
  ASSUME IInv, NEW id \in Fields, NEW done \in BOOLEAN, FieldAlloc(id, done)
  PROVE  TextInv' /\ TextModeCoherent'
<1>1. TreeInv /\ TextInv /\ TextModeCoherent
  BY DEF IInv
<1>2. /\ phase = "build" /\ phase' = "build" /\ ~IsTouched(id)
      /\ UNCHANGED <<text_edit_mode, text_edit_id, text_input_mode>>
      /\ id \in Hashed /\ id # Plain /\ id # None
  BY IdsAre DEF FieldAlloc, NodeAlloc
<1>3. PICK parent, slot : Placed(id, parent, slot) /\ touched' = touched \cup {slot}
  <2>1. NodeAlloc(id) /\ stack_parent' \in {stack_parent, Append(stack_parent, SlotFor(id))}
    BY DEF FieldAlloc
  <2> QED
    BY <1>1, <1>2, <2>1, NodeAllocTree
<1>4. /\ node_map'[id] = slot /\ IsTouched(id)'
      /\ node_map' \in [Hashed -> Slots] /\ slot # HI_NULL
      /\ \A f \in Fields : node_map[f] # HI_NULL => node_map'[f] = node_map[f]
  BY <1>2, <1>3, IdsAre, SlotsAre DEF Placed, IsTouched
<1> DEFINE focus_in == Focused(id) /\ id \notin focus
           ptr == Address(id)
           n == Len(cmd_list) + 1
<1>5. /\ focus' = IF Focused(id) THEN focus \cup {id} ELSE focus \ {id}
      /\ text_edit' = IF Focused(id) /\ ~focus_in /\ id \in External THEN ptr ELSE text_edit
      /\ cmd_list' = cmd_list \o (IF focus_in THEN <<Enable(id, ptr)>> ELSE <<>>)
                              \o (IF done THEN <<Disable(id)>> ELSE <<>>)
  BY DEF FieldAlloc, Field
<1>6. Focused(id) \in BOOLEAN /\ focus_in \in BOOLEAN /\ ptr \in Pointers
      /\ (Focused(id) => node_map[id] # HI_NULL)
  BY <1>1, AddressIs DEF Focused
<1>7. id \in External => ptr = Address(id)'
  BY ExternalAddress
<1>8. focus \subseteq Fields /\ cmd_list \in Seq(Commands)
  BY <1>1 DEF TextInv
<1> SUFFICES ASSUME NEW p, p = ptr, NEW gains \in BOOLEAN, gains = focus_in, NEW has \in BOOLEAN, has = Focused(id)
             PROVE  TextInv' /\ TextModeCoherent'
  BY <1>6
<1>9. /\ focus' = IF has THEN focus \cup {id} ELSE focus \ {id}
      /\ text_edit' = IF has /\ ~gains /\ id \in External THEN p ELSE text_edit
      /\ gains = (has /\ id \notin focus)
      /\ (has => node_map[id] # HI_NULL) /\ p \in Pointers
      /\ id \in External => p = Address(id)'
  BY <1>5, <1>6, <1>7
<1>10. /\ Longer
       /\ \A i \in 1 .. Len(cmd_list') :
            Enables(i)' => i \in 1 .. Len(cmd_list) \/ (i = n /\ gains /\ cmd_list'[i] = Enable(id, p))
       /\ gains => n \in 1 .. Len(cmd_list') /\ cmd_list'[n] = Enable(id, p)
  <2>1. cmd_list' = cmd_list \o (IF gains THEN <<Enable(id, p)>> ELSE <<>>)
                             \o (IF done THEN <<Disable(id)>> ELSE <<>>)
    BY <1>5
  <2> QED
    BY <1>8, <1>9, <2>1, FieldQueue
<1> HIDE DEF focus_in, ptr
(* No turn of the field is queued, so it has the focus only as the one     *)
(* that is edited.                                                         *)
<1>11. \A i \in 1 .. Len(cmd_list) : Enables(i) => cmd_list[i].id # id
  BY <1>1, <1>2 DEF TextInv, TurnSound
<1>12. id \in focus => id = text_edit_id
  <2>1. ~PendingEnable(id)
    BY <1>11 DEF PendingEnable, Enables, Enable
  <2> QED
    BY <1>1, <2>1 DEF TextModeCoherent
<1>13. gains => id # text_edit_id
  BY <1>1, <1>2, <1>9 DEF TextInv
<1>14. /\ Enable(id, p).call = "ui_TextInputModeEnable" /\ Enable(id, p).id = id
       /\ Enable(id, p).ptr = p
  BY <1>9, CommandsAre
<1>15. \A f \in Fields : IsTouched(f) => IsTouched(f)'
  BY <1>1, <1>3, <1>4, TouchedStays
<1>16. \A i \in 1 .. Len(cmd_list') : Enables(i)' => TurnSound(i)'
  <2> SUFFICES ASSUME NEW i \in 1 .. Len(cmd_list'), Enables(i)'
               PROVE  TurnSound(i)'
    OBVIOUS
  <2>1. CASE i \in 1 .. Len(cmd_list)
    <3> SUFFICES ASSUME NEW f, f = cmd_list[i].id
                 PROVE  TurnSound(i)'
      OBVIOUS
    <3>1. cmd_list'[i] = cmd_list[i] /\ Enables(i)
      BY <1>10, <2>1 DEF Longer, Enables
    <3>2. TurnSound(i) /\ f # id
      BY <1>1, <1>11, <2>1, <3>1 DEF TextInv
    <3>3. f \in focus \ {text_edit_id} /\ IsTouched(f) /\ f \in Fields
      BY <1>2, <1>8, <3>2 DEF TurnSound
    <3>4. f \in focus' \ {text_edit_id'} /\ IsTouched(f)'
      BY <1>2, <1>9, <1>15, <3>2, <3>3
    <3>5. f \in External => cmd_list'[i].ptr = Address(f)'
      BY <3>1, <3>2, ExternalAddress DEF TurnSound
    <3>6. ASSUME NEW j \in 1 .. Len(cmd_list'), Enables(j)', cmd_list'[j].id = f
          PROVE  i = j
      <4>1. j \in 1 .. Len(cmd_list)
        BY <1>10, <1>14, <3>2, <3>6
      <4>2. cmd_list'[j] = cmd_list[j] /\ Enables(j)
        BY <1>10, <3>6, <4>1 DEF Longer, Enables
      <4> QED
        BY <3>2, <3>6, <4>1, <4>2 DEF TurnSound
    <3>7. cmd_list'[i].id = f
      BY <3>1
    <3> QED
      BY <3>4, <3>5, <3>6, <3>7 DEF TurnSound
  <2>2. CASE i \notin 1 .. Len(cmd_list)
    <3>1. i = n /\ gains /\ cmd_list'[i] = Enable(id, p)
      BY <1>10, <2>2
    <3>2. cmd_list'[i].id = id /\ cmd_list'[i].ptr = p
      BY <1>14, <3>1
    <3>3. id \in focus' \ {text_edit_id'}
      BY <1>2, <1>9, <1>13, <3>1
    <3>4. ASSUME NEW j \in 1 .. Len(cmd_list'), Enables(j)', cmd_list'[j].id = id
          PROVE  i = j
      <4>1. ASSUME j \in 1 .. Len(cmd_list)
            PROVE  FALSE
        <5>1. cmd_list'[j] = cmd_list[j] /\ Enables(j)
          BY <1>10, <3>4, <4>1 DEF Longer, Enables
        <5> QED
          BY <1>11, <3>4, <4>1, <5>1
      <4> QED
        BY <1>10, <3>1, <3>4, <4>1
    <3> QED
      BY <1>4, <1>9, <3>2, <3>3, <3>4 DEF TurnSound
  <2> QED
    BY <2>1, <2>2
<1>17. focus' \subseteq {f \in Fields : node_map'[f] # HI_NULL}
  <2>1. focus \subseteq {f \in Fields : node_map[f] # HI_NULL}
    BY <1>1 DEF TextInv
  <2> QED
    BY <1>4, <1>9, <2>1
<1>18. text_edit_id' \in External => text_edit' = Address(text_edit_id)'
  <2> SUFFICES ASSUME NEW e \in External, e = text_edit_id
               PROVE  text_edit' = Address(e)' /\ text_edit_id' = text_edit_id
    BY <1>2 DEF Address
  <2>1. text_edit = Address(e) /\ Address(e) = Address(e)'
    BY <1>1, ExternalAddress DEF TextInv
  <2> QED
    BY <1>2, <1>9, <1>12, <2>1
<1>19. text_edit_id' # None =>
        HasNode(text_edit_id)' /\ (IsTouched(text_edit_id)' \/ text_edit_id' \in focus')
  <2> SUFFICES ASSUME NEW e, e = text_edit_id, e # None
               PROVE  /\ HasNode(e)' /\ (IsTouched(e)' \/ e \in focus')
                      /\ text_edit_id' = text_edit_id
    BY <1>2 DEF HasNode, IsTouched
  <2>1. HasNode(e) /\ (IsTouched(e) \/ e \in focus) /\ e \in Fields
    BY <1>1, <1>2 DEF TextInv
  <2> QED
    BY <1>2, <1>4, <1>9, <1>15, <2>1 DEF HasNode
<1>20. TextInv'
  BY <1>1, <1>2, <1>10, <1>16, <1>17, <1>18, <1>19 DEF TextInv, Longer
<1>21. \A f \in focus' \ {text_edit_id'} : PendingEnable(f)'
  <2> SUFFICES ASSUME NEW f \in focus' \ {text_edit_id'}
               PROVE  PendingEnable(f)'
    OBVIOUS
  <2>1. CASE f \in focus
    <3>1. PendingEnable(f)
      BY <1>1, <1>2, <2>1 DEF TextModeCoherent
    <3>2. \E i \in 1 .. Len(cmd_list') :
            cmd_list'[i].call = Enable(f, Stub).call /\ cmd_list'[i].id = f
      BY <1>10, <3>1, LongerKeeps
    <3> QED
      BY <3>2 DEF PendingEnable, Enable
  <2>2. CASE f \notin focus
    <3>1. f = id /\ gains
      BY <1>9, <2>2
    <3>2. \E i \in 1 .. Len(cmd_list') :
            cmd_list'[i].call = "ui_TextInputModeEnable" /\ cmd_list'[i].id = f
      BY <1>10, <1>14, <3>1
    <3> QED
      BY <3>2 DEF PendingEnable, Enable
  <2> QED
    BY <2>1, <2>2
<1>22. TextModeCoherent'
  BY <1>1, <1>2, <1>21 DEF TextModeCoherent
<1> QED
  BY <1>20, <1>22

LEMMA FrameEndText ==
  ASSUME IInv, NEW hovered, FrameEnd(hovered)
  PROVE  TextInv' /\ TextModeCoherent'
<1> DEFINE kept == HiAllocated(Pruned)
<1>1. TreeInv /\ TextInv /\ TextModeCoherent
  BY DEF IInv
<1>2. /\ phase = "build" /\ phase' = "events" /\ length' = length /\ TextEditStep
      /\ UNCHANGED <<text_edit_mode, text_edit_id, text_input_mode>>
      /\ focus' = {f \in focus : node_map[f] \in kept}
  BY DEF FrameEnd
<1>3. /\ touched \subseteq kept
      /\ \A f \in Fields : node_map'[f] = IF node_map[f] \in kept THEN node_map[f] ELSE HI_NULL
  BY <1>1, FrameEndTree, IdsAre
<1> HIDE DEF kept
<1>4. \A f \in Fields : IsTouched(f) => node_map[f] \in kept /\ node_map'[f] = node_map[f]
  BY <1>3 DEF IsTouched
<1>5. /\ cmd_list \in Seq(Commands) /\ text_edit_id \in Fields \cup {None}
      /\ focus \subseteq {f \in Fields : node_map[f] # HI_NULL}
      /\ text_edit_id # None => HasNode(text_edit_id)
  BY <1>1, <1>2 DEF TextInv
<1>6. /\ Longer /\ NoTurn
      /\ text_edit_id \in External => text_edit' = text_edit
      /\ \/ text_edit_id = None
         \/ \E i \in 1 .. Len(cmd_list') : cmd_list'[i] = Disable(text_edit_id)
         \/ /\ IsTouched(text_edit_id) /\ text_edit_id \in focus
            /\ text_edit' = IF text_edit_id \in Internal THEN Address(text_edit_id) ELSE text_edit
  <2>1. CASE ~HasNode(text_edit_id)
    <3>1. UNCHANGED <<text_edit, cmd_list>>
      BY <1>2, <2>1 DEF TextEditStep
    <3> QED
      BY <1>5, <2>1, <3>1, SameQueue
  <2>2. CASE HasNode(text_edit_id) /\ (~IsTouched(text_edit_id) \/ text_edit_id \notin focus)
    <3>1. cmd_list' = Append(cmd_list, Disable(text_edit_id)) /\ UNCHANGED text_edit
      BY <1>2, <2>2 DEF TextEditStep
    <3> QED
      BY <1>5, <3>1, DisableQueued
  <2>3. CASE HasNode(text_edit_id) /\ IsTouched(text_edit_id) /\ text_edit_id \in focus
    <3>1. /\ text_edit' = IF text_edit_id \in Internal THEN Address(text_edit_id) ELSE text_edit
          /\ UNCHANGED cmd_list
      BY <1>2, <2>3 DEF TextEditStep
    <3>2. text_edit_id \in External => text_edit_id \notin Internal
      BY UiAssumption
    <3> QED
      BY <1>5, <2>3, <3>1, <3>2, SameQueue
  <2> QED
    BY <2>1, <2>2, <2>3
<1>7. \A i \in 1 .. Len(cmd_list') : Enables(i)' => TurnSound(i)'
  <2>1. ASSUME NEW i \in 1 .. Len(cmd_list), Enables(i)
        PROVE  cmd_list[i].id \in focus' /\ (phase' = "build" => IsTouched(cmd_list[i].id)')
    <3>1. cmd_list[i].id \in focus /\ IsTouched(cmd_list[i].id)
      BY <1>1, <1>2, <2>1 DEF TextInv, TurnSound
    <3> QED
      BY <1>2, <1>4, <1>5, <3>1
  <2> QED
    BY <1>1, <1>2, <1>6, <2>1, TurnsKept
<1>8. focus' \subseteq {f \in Fields : node_map'[f] # HI_NULL}
  BY <1>2, <1>3, <1>5
<1>9. text_edit_id' \in External => text_edit' = Address(text_edit_id)'
  <2> SUFFICES ASSUME NEW e \in External, e = text_edit_id
               PROVE  text_edit' = Address(e)' /\ text_edit_id' = text_edit_id
    BY <1>2 DEF Address
  <2>1. text_edit = Address(e) /\ Address(e) = Address(e)'
    BY <1>1, ExternalAddress DEF TextInv
  <2> QED
    BY <1>2, <1>6, <2>1
<1>10. TextInv'
  BY <1>2, <1>5, <1>6, <1>7, <1>8, <1>9 DEF TextInv, Longer
<1>11. \A f \in focus' \ {text_edit_id'} : PendingEnable(f)'
  <2> SUFFICES ASSUME NEW f \in focus \ {text_edit_id}
               PROVE  PendingEnable(f)'
    BY <1>2
  <2>1. PendingEnable(f)
    BY <1>1 DEF TextModeCoherent
  <2>2. \E i \in 1 .. Len(cmd_list') :
          cmd_list'[i].call = Enable(f, Stub).call /\ cmd_list'[i].id = f
    BY <1>6, <2>1, LongerKeeps
  <2> QED
    BY <2>2 DEF PendingEnable, Enable
<1>12. text_edit_id' # None =>
         \/ Pending(Disable(text_edit_id))'
         \/ text_edit_id' \in focus' /\ text_edit' = Address(text_edit_id)'
  <2> SUFFICES ASSUME NEW e \in Fields, e = text_edit_id
               PROVE  /\ \/ Pending(Disable(e))'
                         \/ e \in focus' /\ text_edit' = Address(e)'
                      /\ text_edit_id' = text_edit_id
    BY <1>2, <1>5 DEF Pending, Disable, Address
  <2>1. CASE \E i \in 1 .. Len(cmd_list') : cmd_list'[i] = Disable(e)
    BY <1>2, <2>1 DEF Pending, Disable
  <2>2. CASE /\ IsTouched(e) /\ e \in focus
             /\ text_edit' = IF e \in Internal THEN Address(e) ELSE text_edit
    <3>1. e \in focus' /\ node_map'[e] = node_map[e]
      BY <1>2, <1>4, <2>2
    <3>2. CASE e \in Internal
      <4>1. Address(e)' = Address(e)
        BY <1>2, <3>1 DEF Address
      <4> QED
        BY <1>2, <2>2, <3>1, <3>2, <4>1
    <3>3. CASE e \in External
      BY <1>2, <1>9, <3>1, <3>3 DEF Address
    <3> QED
      BY <3>2, <3>3 DEF Fields
  <2> QED
    BY <1>6, <2>1, <2>2, IdsAre
<1>13. TextModeCoherent'
  BY <1>1, <1>2, <1>11, <1>12 DEF TextModeCoherent
<1> QED
  BY <1>10, <1>13

LEMMA InitIInv ==
  ASSUME Init
  PROVE  IInv
<1>1. TreeInv
  <2>1. /\ Linked(hi) /\ HiAllocated(hi) = {HI_ROOT_STUB, HI_ORPHAN_STUB}
    BY HiInitLinks DEF Init
  <2>2. length \in Nat /\ HiAllocated(hi) \subseteq 0 .. length - 1
    BY <2>1, UiAssumption DEF Init, HI_ROOT_STUB, HI_ORPHAN_STUB
  <2>3. /\ node_map \in [Hashed -> Slots] /\ (\A n \in Hashed : node_map[n] = HI_NULL)
        /\ touched = {} /\ phase = "events" /\ stack_parent = <<HI_ROOT_STUB>>
    BY SlotsAre DEF Init
  <2> QED
    BY <2>1, <2>2, <2>3 DEF TreeInv
<1>2. TextInv
  <2>1. cmd_list \in Seq(Commands) /\ Len(cmd_list) = 0
    BY DEF Init
  <2> QED
    BY <2>1, IdsAre DEF Init, TextInv
<1>3. TextModeCoherent
  BY DEF Init, TextModeCoherent
<1> QED
  BY <1>1, <1>2, <1>3 DEF IInv

LEMMA NextIInv ==
  ASSUME IInv, [Next]_vars
  PROVE  IInv'
<1>1. TreeInv /\ TextInv /\ TextModeCoherent
  BY DEF IInv
<1>2. ASSUME NEW click, NEW escape, ProcessEvents(click, escape)
      PROVE  IInv'
  <2>1. TreeInv'
    BY <1>1, <1>2 DEF ProcessEvents, tree, TreeInv, InTree
  <2> QED
    BY <1>2, <2>1, ProcessEventsText DEF IInv
<1>3. CASE CmdExecute
  <2>1. TreeInv'
    BY <1>1, <1>3 DEF CmdExecute, tree, TreeInv, InTree
  <2> QED
    BY <1>3, <2>1, CmdExecuteText DEF IInv
<1>4. CASE FrameBegin
  BY <1>1, <1>4, FrameBeginTree, FrameBeginText DEF IInv
<1>5. ASSUME NEW id \in Panels \cup {Plain}, PanelAlloc(id)
      PROVE  IInv'
  <2>1. TreeInv'
    BY <1>1, <1>5, NodeAllocTree DEF PanelAlloc, Hashed
  <2> QED
    BY <1>5, <2>1, PanelAllocText DEF IInv
<1>6. ASSUME NEW id \in Fields, NEW done \in BOOLEAN, FieldAlloc(id, done)
      PROVE  IInv'
  <2>1. TreeInv'
    BY <1>1, <1>6, NodeAllocTree, IdsAre DEF FieldAlloc
  <2> QED
    BY <1>6, <2>1, FieldAllocText DEF IInv
<1>7. CASE NodePop
  BY <1>1, <1>7, NodePopTree, NodePopText DEF IInv
<1>8. ASSUME NEW hovered, FrameEnd(hovered)
      PROVE  IInv'
  <2>1. TreeInv'
    BY <1>1, <1>8, FrameEndTree
  <2> QED
    BY <1>8, <2>1, FrameEndText DEF IInv
<1>9. CASE UNCHANGED vars
  <2>1. /\ UNCHANGED <<hi, length, node_map, touched, stack_parent, phase>>
        /\ UNCHANGED <<text_edit_mode, text_edit_id, text_edit, text_input_mode, focus, cmd_list>>
    BY <1>9 DEF vars, tree, text
  <2>2. TreeInv'
    BY <1>1, <2>1 DEF TreeInv, InTree
  <2>3. TextInv'
    BY <1>1, <2>1 DEF TextInv, Enables, TurnSound, Address, IsTouched, HasNode
  <2>4. TextModeCoherent'
    BY <1>1, <2>1 DEF TextModeCoherent, Pending, PendingEnable, Address, Enable, Disable
  <2> QED
    BY <2>2, <2>3, <2>4 DEF IInv
<1> QED
  BY <1>2, <1>3, <1>4, <1>5, <1>6, <1>7, <1>8, <1>9 DEF Next

(* The inductive invariant of the text.                                    *)
THEOREM Invariance == Spec => []IInv
<1>1. Init => IInv
  BY InitIInv
<1>2. IInv /\ [Next]_vars => IInv'
  BY NextIInv
<1> QED
  BY <1>1, <1>2, PTL DEF Spec

(* Between frames text mode, its field, the focus and the window agree up  *)
(* to the commands that are queued (ui_FrameEnd, ui_TextInputModeEnable,   *)
(* ui_TextInputModeDisable, ui_NodeAlloc).                                 *)
THEOREM TextCoherent == Spec => []TextModeCoherent
<1>1. IInv => TextModeCoherent
  BY DEF IInv
<1> QED
  BY <1>1, Invariance, PTL

-------------------------------------------------------------------------------
(* The counts.  One operation after the other: which count it changes, and*)
(* that each stays the number of children.                                 *)

Kids(h, p) == {c \in HiAllocated(h) \ {HI_ROOT_STUB, HI_ORPHAN_STUB} : h[c].parent = p}
Counted(h) == \A s \in Slots : h[s].count = Cardinality(Kids(h, s))

(* A set of slots is finite, and has at most all of them.                  *)
LEMMA KidsFinite ==
  /\ IsFiniteSet(Slots) /\ Cardinality(Slots) = MaxSlots
  /\ \A S \in SUBSET Slots : IsFiniteSet(S) /\ Cardinality(S) \in 0 .. MaxSlots
  /\ \A h, p : Kids(h, p) \in SUBSET Slots
<1>1. IsFiniteSet(Slots) /\ Cardinality(Slots) = MaxSlots /\ MaxSlots \in Nat
  <2>1. 0 \in Int /\ MaxSlots - 1 \in Int /\ MaxSlots - 1 - 0 + 1 = MaxSlots /\ 0 <= MaxSlots - 1
    BY HierarchyAssumption
  <2> QED
    BY <2>1, FS_Interval, HierarchyAssumption DEF Slots
<1>2. \A S \in SUBSET Slots : IsFiniteSet(S) /\ Cardinality(S) \in Nat /\ Cardinality(S) <= MaxSlots
  BY <1>1, FS_Subset, FS_CardinalityType
<1>3. \A h, p : Kids(h, p) \in SUBSET Slots
  BY DEF Kids, HiAllocated
<1> QED
  BY <1>1, <1>2, <1>3

(* r is a hierarchy with the counts of h.                                  *)
SameCounts(r, h) ==
  r \in [Slots -> Nodes] /\ \A s \in Slots : r[s].count = h[s].count

(* set_prev, set_next and both keep the counts.                            *)
LEMMA SiblingCounts ==
  ASSUME NEW h \in [Slots -> Nodes], NEW x \in Slots, NEW v \in Slots
  PROVE  /\ \A s \in Slots : SetPrev(h, x, v)[s].count = h[s].count
         /\ \A s \in Slots : SetNext(h, x, v)[s].count = h[s].count
<1>1. CASE x = HI_NULL
  BY <1>1 DEF SetPrev, SetNext
<1>2. CASE x # HI_NULL
  BY <1>2, WritePrev, WriteNext DEF SetPrev, SetNext
<1> QED
  BY <1>1, <1>2

LEMMA JoinCounts ==
  ASSUME NEW h \in [Slots -> Nodes], NEW a \in Slots, NEW b \in Slots,
         NEW v \in Slots, NEW w \in Slots
  PROVE  SameCounts(SetNext(SetPrev(h, b, v), a, w), h)
<1> SUFFICES ASSUME NEW f, f = SetPrev(h, b, v)
             PROVE  SameCounts(SetNext(f, a, w), h)
  OBVIOUS
<1>1. f \in [Slots -> Nodes] /\ \A s \in Slots : f[s].count = h[s].count
  <2>1. PrevSet(f, h, b, v) /\ \A s \in Slots : f[s].count = h[s].count
    BY SetPrevIs, SiblingCounts
  <2> QED
    BY <2>1 DEF PrevSet
<1>2. NextSet(SetNext(f, a, w), f, a, w) /\ \A s \in Slots : SetNext(f, a, w)[s].count = f[s].count
  <2>1. f \in [Slots -> Nodes]
    BY <1>1
  <2> QED
    BY <2>1, SetNextIs, SiblingCounts
<1> QED
  BY <1>1, <1>2 DEF NextSet, SameCounts

(* The counts after the halves of the operations: one more, one less, the  *)
(* same.                                                                   *)
LEMMA AppendChildCounts ==
  ASSUME NEW h \in [Slots -> Nodes], NEW node \in Slots, NEW parent \in Slots
  PROVE  \A s \in Slots :
           AppendChild(h, node, parent)[s].count = h[s].count + (IF s = parent THEN 1 ELSE 0)
<1> DEFINE last == h[parent].last
           h1 == [h EXCEPT ![node].parent = parent]
           h2 == [h1 EXCEPT ![node].prev = last]
           h3 == [h2 EXCEPT ![node].next = HI_NULL]
           h4 == SetNext(h3, last, node)
           h5 == [h4 EXCEPT ![parent].count = h4[parent].count + 1]
           h6 == [h5 EXCEPT ![parent].last = node]
           first == IF last = HI_NULL THEN node ELSE h4[parent].first
           h7 == [h6 EXCEPT ![parent].first = first]
<1>1. last \in Slots /\ HI_NULL \in Slots
  BY SlotsAre DEF Nodes
<1>2. AppendChild(h, node, parent) = h7
  BY Zenon DEF AppendChild
<1> DEFINE Same(r, g) == r \in [Slots -> Nodes] /\ \A s \in Slots : r[s].count = g[s].count
<1>3. Same(h1, h)
  BY WriteParent
<1> HIDE DEF last, h1
<1>4. Same(h2, h1)
  BY <1>1, <1>3, WritePrev
<1> HIDE DEF h2
<1>5. Same(h3, h2)
  BY <1>1, <1>4, WriteNext
<1> HIDE DEF h3
<1>6. Same(h4, h3)
  BY <1>1, <1>5, SetNextIs, SiblingCounts DEF NextSet
<1> HIDE DEF h4
<1>7. /\ h5 \in [Slots -> Nodes]
      /\ \A s \in Slots : h5[s].count = IF s = parent THEN h4[s].count + 1 ELSE h4[s].count
  <2>1. h4[parent].count + 1 \in Int /\ h4[parent] \in Nodes
    BY <1>6 DEF Nodes
  <2> HIDE DEF h5
  <2>2. h5 = [h4 EXCEPT ![parent].count = h4[parent].count + 1]
    BY DEF h5
  <2>3. h5 \in [Slots -> Nodes] /\ \A s \in Slots \ {parent} : h5[s] = h4[s]
    BY <1>6, <2>1, <2>2, WriteCount
  <2>4. h5[parent].count = h4[parent].count + 1
    BY <1>6, <2>1, <2>2 DEF Nodes
  <2> QED
    BY <2>3, <2>4
<1> HIDE DEF h5
<1>8. Same(h6, h5)
  BY <1>7, WriteLast
<1> HIDE DEF h6
<1>9. Same(h7, h6)
  <2>1. first \in Slots
    BY <1>6 DEF Nodes
  <2> HIDE DEF first
  <2> QED
    BY <1>8, <2>1, WriteFirst
<1> HIDE DEF h7, first
<1>10. \A s \in Slots : h[s].count \in Int
  BY DEF Nodes
<1> QED
  BY <1>2, <1>3, <1>4, <1>5, <1>6, <1>7, <1>8, <1>9, <1>10

LEMMA UnlinkCounts ==
  ASSUME NEW h \in [Slots -> Nodes], NEW node \in Slots, h[node].parent \in Slots
  PROVE  \A s \in Slots :
           Unlink(h, node)[s].count = h[s].count - (IF s = h[node].parent THEN 1 ELSE 0)
<1> DEFINE n == h[node]
           p == h[n.parent]
           h2 == SetNext(SetPrev(h, n.next, n.prev), n.prev, n.next)
           ends == IF p.first = p.last THEN <<HI_NULL, HI_NULL>>
                   ELSE IF p.first = node THEN <<n.next, p.last>>
                   ELSE IF p.last = node THEN <<p.first, n.prev>>
                   ELSE <<p.first, p.last>>
           h3 == [h2 EXCEPT ![n.parent].first = ends[1]]
           h4 == [h3 EXCEPT ![n.parent].last = ends[2]]
           h5 == [h4 EXCEPT ![n.parent].count = h4[n.parent].count - 1]
<1>1. n \in Nodes /\ p \in Nodes /\ n.parent \in Slots
  OBVIOUS
<1>2. n.prev \in Slots /\ n.next \in Slots
  BY <1>1 DEF Nodes
<1>3. ends[1] \in Slots /\ ends[2] \in Slots
  BY <1>1, SlotsAre DEF Nodes
<1>4. SameCounts(h2, h)
  <2> DEFINE a == n.prev
             b == n.next
  <2>1. a \in Slots /\ b \in Slots
    BY <1>2
  <2>2. h2 = SetNext(SetPrev(h, b, a), a, b)
    OBVIOUS
  <2> HIDE DEF a, b, h2
  <2> QED
    BY <2>1, <2>2, JoinCounts
<1>5. Unlink(h, node) = [h4 EXCEPT ![n.parent].count = h2[n.parent].count - 1]
  BY Zenon DEF Unlink
<1> HIDE DEF n, p, ends, h2
<1> USE DEF SameCounts
<1>6. SameCounts(h3, h2)
  BY <1>1, <1>3, <1>4, WriteFirst
<1> HIDE DEF h3
<1>7. SameCounts(h4, h3)
  BY <1>1, <1>3, <1>6, WriteLast
<1> HIDE DEF h4
<1>8. /\ h4[n.parent] \in Nodes /\ h2[n.parent].count - 1 \in Int
      /\ h2[n.parent].count = h[n.parent].count
  <2>1. h4[n.parent] \in Nodes /\ h2[n.parent] \in Nodes
    BY <1>1, <1>4, <1>7
  <2>2. h2[n.parent].count \in Int
    BY <2>1 DEF Nodes
  <2> QED
    BY <1>1, <1>4, <2>1, <2>2
<1>9. /\ Unlink(h, node)[n.parent].count = h[n.parent].count - 1
      /\ \A s \in Slots \ {n.parent} : Unlink(h, node)[s] = h4[s]
  BY <1>1, <1>5, <1>7, <1>8 DEF Nodes
<1>10. \A s \in Slots : h[s].count \in Int
  BY DEF Nodes
<1> QED
  BY <1>1, <1>4, <1>6, <1>7, <1>9, <1>10 DEF n

LEMMA SpliceCounts ==
  ASSUME NEW h \in [Slots -> Nodes], NEW node \in Slots, h[node].parent \in Slots
  PROVE  \A s \in Slots : Splice(h, node)[s].count = h[s].count
<1> DEFINE n == h[node]
           p == h[n.parent]
           head == IF n.first = HI_NULL THEN n.next ELSE n.first
           tail == IF n.last = HI_NULL THEN n.prev ELSE n.last
           h1 == SetNext(SetPrev(h, n.next, tail), n.prev, head)
           h2 == SetNext(SetPrev(h1, n.first, n.prev), n.last, n.next)
           first == IF p.first = node THEN head ELSE h2[n.parent].first
           last == IF p.last = node THEN tail ELSE h2[n.parent].last
           h3 == [h2 EXCEPT ![n.parent].first = first]
           h4 == [h3 EXCEPT ![n.parent].last = last]
<1>1. /\ n \in Nodes /\ n.parent \in Slots
      /\ {n.prev, n.next, n.first, n.last} \subseteq Slots
  BY DEF Nodes
<1>2. head \in Slots /\ tail \in Slots
  BY <1>1
<1>3. Splice(h, node) = h4
  BY Zenon DEF Splice
<1> HIDE DEF head, tail
<1> DEFINE prev == n.prev
           next == n.next
           old_first == n.first
           old_last == n.last
<1>4. {prev, next, old_first, old_last} \subseteq Slots
  BY <1>1
<1>5. /\ h1 = SetNext(SetPrev(h, next, tail), prev, head)
      /\ h2 = SetNext(SetPrev(h1, old_first, prev), old_last, next)
  OBVIOUS
<1> HIDE DEF prev, next, old_first, old_last, h1, h2
<1>6. SameCounts(h1, h)
  BY <1>2, <1>4, <1>5, JoinCounts
<1>7. SameCounts(h2, h1)
  <2>1. h1 \in [Slots -> Nodes]
    BY <1>6 DEF SameCounts
  <2> QED
    BY <1>4, <1>5, <2>1, JoinCounts
<1> USE DEF SameCounts
<1>8. first \in Slots /\ last \in Slots
  BY <1>1, <1>2, <1>7 DEF Nodes
<1> HIDE DEF first, last, n
<1>9. SameCounts(h3, h2)
  BY <1>1, <1>7, <1>8, WriteFirst
<1> HIDE DEF h3
<1>10. \A s \in Slots : h4[s].count = h3[s].count
  BY <1>1, <1>8, <1>9, WriteLast
<1> QED
  BY <1>3, <1>6, <1>7, <1>9, <1>10

(* A node is not its own parent.                                           *)
LEMMA NotOwnParent ==
  ASSUME NEW h, NEW node \in Slots \ {HI_ROOT_STUB, HI_ORPHAN_STUB}, Linked(h), h[node] # Free
  PROVE  h[node].parent \in HiAllocated(h) /\ h[node].parent # node
<1>1. h[node].parent \in HiAllocated(h)
  BY DEF Linked
<1>2. {node} \in SUBSET (Slots \ {HI_ROOT_STUB, HI_ORPHAN_STUB}) /\ {node} # {}
  OBVIOUS
<1>3. ParentsEnd(h, {HI_ROOT_STUB, HI_ORPHAN_STUB})
  BY DEF Linked
<1>4. \E s \in {node} : h[s].parent \notin {node}
  BY <1>2, <1>3 DEF ParentsEnd
<1> QED
  BY <1>1, <1>4

(* The links after hi_Add.                                                 *)
LEMMA HiAddFields ==
  ASSUME NEW h, NEW new \in Slots \ HiAllocated(h), NEW parent \in Slots,
         Linked(h), h[parent] # Free
  PROVE  LET r == HiAdd(h, new, parent)
         IN /\ r[new].prev = h[parent].last /\ r[new].last = HI_NULL
            /\ r[parent].last = new
            /\ \A s \in Slots \ {new} : r[s].prev = h[s].prev
            /\ \A s \in Slots \ {new, parent} : r[s].last = h[s].last
            /\ \A s \in Slots : r[s].count = (IF s = new THEN 0 ELSE h[s].count)
                                             + (IF s = parent THEN 1 ELSE 0)
<1> DEFINE g == [h EXCEPT ![new] = Alone]
<1>1. h \in [Slots -> Nodes] /\ h[new] = Free /\ new # parent
  BY DEF Linked, HiAllocated
<1>2. /\ g \in [Slots -> Nodes] /\ g[new] = Alone
      /\ \A s \in Slots \ {new} : g[s] = h[s]
  BY <1>1, FreeIs
<1>3. HiAdd(h, new, parent) = AppendChild(g, new, parent)
  BY DEF HiAdd
<1> HIDE DEF g
<1>4. g[parent].last # new
  <2>1. new # HI_NULL
    BY StubsAllocated, SlotsAre
  <2>2. h[parent].last = new => h[new].parent = parent
    BY <2>1 DEF Linked
  <2> QED
    BY <1>1, <1>2, <2>2, FreeIs, SlotsAre
<1>5. LET r == AppendChild(g, new, parent)
          last == g[parent].last
      IN /\ r[new].prev = last
         /\ r[new].last = g[new].last
         /\ \A s \in Slots \ {new} : /\ r[s].prev = g[s].prev
                                     /\ r[s].last = IF s = parent THEN new ELSE g[s].last
  BY <1>1, <1>2, <1>4, AppendChildIs
<1>6. \A s \in Slots : AppendChild(g, new, parent)[s].count = g[s].count + (IF s = parent THEN 1 ELSE 0)
  BY <1>2, AppendChildCounts
<1>7. Alone.count = 0
  BY DEF Alone, Free
<1> QED
  BY <1>1, <1>2, <1>3, <1>5, <1>6, <1>7, FreeIs

(* The count of a node is the number of its children.                      *)
LEMMA HiAddCounted ==
  ASSUME NEW h, NEW new \in Slots \ HiAllocated(h), NEW parent \in Slots,
         Linked(h), h[parent] # Free, Counted(h)
  PROVE  Counted(HiAdd(h, new, parent))
<1> DEFINE r == HiAdd(h, new, parent)
<1>1. /\ HiAllocated(r) = HiAllocated(h) \cup {new}
      /\ r[new].parent = parent
      /\ \A s \in Slots \ {new} : r[s].parent = h[s].parent
  BY HiAddLinks
<1>2. /\ \A s \in Slots : r[s].count = (IF s = new THEN 0 ELSE h[s].count)
                                       + (IF s = parent THEN 1 ELSE 0)
  BY HiAddFields
<1> HIDE DEF r
<1>3. new \notin {HI_ROOT_STUB, HI_ORPHAN_STUB} /\ new # parent /\ h[new] = Free
  BY StubsAllocated DEF HiAllocated
<1>4. Kids(h, new) = {}
  <2>1. \A s \in HiAllocated(h) : h[s].parent \in HiAllocated(h)
    BY DEF Linked, HiAllocated
  <2> QED
    BY <2>1 DEF Kids
<1>5. \A s \in Slots : new \notin Kids(h, s)
  BY DEF Kids
<1>6. Kids(r, parent) = Kids(h, parent) \cup {new}
  BY <1>1, <1>3, <1>5 DEF Kids, HiAllocated
<1>7. \A s \in Slots \ {parent} : Kids(r, s) = Kids(h, s)
  BY <1>1, <1>3, <1>5 DEF Kids, HiAllocated
<1>8. Cardinality(Kids(r, parent)) = Cardinality(Kids(h, parent)) + 1
  BY <1>5, <1>6, KidsFinite, FS_AddElement
<1>9. ASSUME NEW s \in Slots
      PROVE  r[s].count = Cardinality(Kids(r, s))
  <2>1. h[s].count = Cardinality(Kids(h, s)) /\ Cardinality(Kids(h, s)) \in Int
    BY KidsFinite DEF Counted
  <2>2. CASE s = new
    BY <1>2, <1>3, <1>4, <1>7, <2>2, FS_EmptySet
  <2>3. CASE s = parent
    BY <1>2, <1>3, <1>8, <2>1, <2>3
  <2>4. CASE s # new /\ s # parent
    BY <1>2, <1>7, <2>1, <2>4
  <2> QED
    BY <2>2, <2>3, <2>4
<1> QED
  BY <1>9 DEF Counted, r

(* The links and counts after hi_AdoptNodeExclusive, with another parent.  *)
LEMMA AdoptNodeExclusiveFields ==
  ASSUME NEW h, NEW node \in Slots \ {HI_ROOT_STUB, HI_ORPHAN_STUB}, NEW parent \in Slots,
         Linked(h), h[node] # Free, node # parent, h[parent] # Free, h[node].parent # parent
  PROVE  LET r == AdoptNodeExclusive(h, node, parent)
         IN /\ r[node].prev = h[parent].last /\ r[node].last = HI_NULL
            /\ r[parent].last = node
            /\ \A s \in Slots \ {node} :
                 h[s].parent \notin {node, h[node].parent} => r[s].prev = h[s].prev
            /\ \A s \in Slots \ {node, parent, h[node].parent} : r[s].last = h[s].last
            /\ \A s \in Slots :
                 r[s].count = IF s = node THEN 0
                              ELSE IF s = parent THEN h[s].count + 1
                              ELSE IF s = h[node].parent THEN h[s].count + h[node].count - 1
                              ELSE h[s].count
<1> DEFINE n == h[node]
           tail == IF n.last = HI_NULL THEN n.prev ELSE n.last
           c == h[n.parent].count + n.count - 1
           counted == [h EXCEPT ![n.parent].count = c]
           spliced == Splice(counted, node)
           left == [s \in Slots |->
                     IF s = node THEN Alone
                     ELSE IF h[s].parent = node THEN [spliced[s] EXCEPT !.parent = n.parent]
                     ELSE spliced[s]]
<1>1. AdoptNodeExclusive(h, node, parent) = AppendChild(left, node, parent)
  BY DEF AdoptNodeExclusive
<1>2. /\ h \in [Slots -> Nodes] /\ n \in Nodes /\ n.parent \in Slots /\ n.parent # node
      /\ {n.prev, n.next, n.first, n.last} \subseteq Slots
  <2>1. h \in [Slots -> Nodes] /\ n.parent \in HiAllocated(h) /\ n.parent # node
    <3>1. n.parent \in HiAllocated(h) /\ n.parent # node
      BY NotOwnParent
    <3> QED
      BY <3>1 DEF Linked
  <2>2. n \in Nodes
    BY <2>1
  <2> QED
    BY <2>1, <2>2 DEF HiAllocated, Nodes
<1>3. c \in Int
  BY <1>2 DEF Nodes
<1> HIDE DEF c
<1>4. /\ counted \in [Slots -> Nodes]
      /\ \A s \in Slots :
           /\ counted[s].parent = h[s].parent /\ counted[s].prev = h[s].prev
           /\ counted[s].next = h[s].next
           /\ counted[s].first = h[s].first /\ counted[s].last = h[s].last
           /\ counted[s].count = IF s = n.parent THEN c ELSE h[s].count
  BY <1>2, <1>3 DEF Nodes
<1> HIDE DEF counted
<1>5. /\ spliced \in [Slots -> Nodes]
      /\ \A s \in Slots :
           /\ spliced[s].prev = IF s = n.first /\ s # HI_NULL THEN n.prev
                                ELSE IF s = n.next /\ s # HI_NULL THEN tail ELSE h[s].prev
           /\ spliced[s].last = IF s = n.parent /\ h[s].last = node THEN tail ELSE h[s].last
           /\ spliced[s].count = counted[s].count
  <2>1. counted[node].parent \in Slots
    BY <1>2, <1>4
  <2>2. LET m == counted[node]
            end == IF m.last = HI_NULL THEN m.prev ELSE m.last
        IN /\ spliced \in [Slots -> Nodes]
           /\ \A s \in Slots :
             /\ spliced[s].prev = IF s = m.first /\ s # HI_NULL THEN m.prev
                                  ELSE IF s = m.next /\ s # HI_NULL THEN end ELSE counted[s].prev
             /\ spliced[s].last = IF s = m.parent /\ counted[s].last = node THEN end ELSE counted[s].last
    BY <1>4, <2>1, SpliceIs
  <2>3. \A s \in Slots : spliced[s].count = counted[s].count
    BY <1>4, <2>1, SpliceCounts
  <2>4. /\ counted[node].parent = n.parent /\ counted[node].prev = n.prev
        /\ counted[node].next = n.next /\ counted[node].first = n.first /\ counted[node].last = n.last
    BY <1>4
  <2> HIDE DEF spliced, n
  <2> QED
    BY <1>4, <2>2, <2>3, <2>4
<1> HIDE DEF spliced, tail
<1>6. \A s \in Slots : [spliced[s] EXCEPT !.parent = n.parent] \in Nodes
  BY <1>2, <1>5 DEF Nodes
<1>7. /\ left \in [Slots -> Nodes]
      /\ left[node] = Alone
      /\ \A s \in Slots \ {node} : /\ left[s].prev = spliced[s].prev
                                   /\ left[s].last = spliced[s].last
                                   /\ left[s].count = spliced[s].count
  <2>1. left \in [Slots -> Nodes]
    BY <1>5, <1>6, FreeIs
  <2>2. \A s \in Slots : spliced[s] \in Nodes
    BY <1>5
  <2> QED
    BY <2>1, <2>2 DEF Nodes
<1> HIDE DEF left, n
<1>8. left[parent].last = h[parent].last /\ h[parent].last # node
  <2>1. left[parent].last = h[parent].last
    BY <1>5, <1>7 DEF n
  <2>2. h[parent].last = node => h[node].parent = parent
    BY SlotsAre DEF Linked
  <2> QED
    BY <2>1, <2>2
<1>9. LET r == AppendChild(left, node, parent)
          last == left[parent].last
      IN /\ r[node].prev = last
         /\ r[node].last = left[node].last
         /\ \A s \in Slots \ {node} : /\ r[s].prev = left[s].prev
                                      /\ r[s].last = IF s = parent THEN node ELSE left[s].last
  BY <1>7, <1>8, AppendChildIs
<1>10. \A s \in Slots :
         AppendChild(left, node, parent)[s].count = left[s].count + (IF s = parent THEN 1 ELSE 0)
  BY <1>7, AppendChildCounts
<1>11. \A s \in Slots \ {node} : h[s].parent \notin {node, n.parent} => spliced[s].prev = h[s].prev
  <2>1. n.first # HI_NULL => h[n.first].parent = node
    BY <1>2 DEF Linked, n
  <2>2. n.next # HI_NULL => h[n.next].parent = n.parent
    BY <1>2 DEF Linked, n
  <2> QED
    BY <1>5, <2>1, <2>2
<1>12. \A s \in Slots : h[s].count \in Int
  BY <1>2 DEF Nodes
<1>13. Alone.count = 0 /\ Alone.last = HI_NULL
  BY DEF Alone, Free, HI_NULL
<1> QED
  BY <1>1, <1>2, <1>4, <1>5, <1>7, <1>8, <1>9, <1>10, <1>11, <1>12, <1>13 DEF n, c

(* The children of a node that moves alone go to its old parent.           *)
LEMMA AdoptNodeExclusiveCounted ==
  ASSUME NEW h, NEW node \in Slots \ {HI_ROOT_STUB, HI_ORPHAN_STUB}, NEW parent \in Slots,
         Linked(h), h[node] # Free, node # parent, h[parent] # Free, h[node].parent # parent,
         Counted(h)
  PROVE  Counted(AdoptNodeExclusive(h, node, parent))
<1> DEFINE r == AdoptNodeExclusive(h, node, parent)
           old == h[node].parent
<1>1. /\ HiAllocated(r) = HiAllocated(h)
      /\ r[node].parent = parent
      /\ \A s \in Slots \ {node} : r[s].parent = IF h[s].parent = node THEN old ELSE h[s].parent
  BY AdoptNodeExclusiveLinks
<1>2. \A s \in Slots : r[s].count = IF s = node THEN 0
                                    ELSE IF s = parent THEN h[s].count + 1
                                    ELSE IF s = old THEN h[s].count + h[node].count - 1
                                    ELSE h[s].count
  BY AdoptNodeExclusiveFields
<1>3. old \in Slots /\ old # node /\ node \in HiAllocated(h)
  BY NotOwnParent DEF HiAllocated
<1> HIDE DEF r, old
<1> DEFINE A == HiAllocated(h) \ {HI_ROOT_STUB, HI_ORPHAN_STUB}
<1>4. node \in A /\ \A s : /\ Kids(h, s) = {k \in A : h[k].parent = s}
                          /\ Kids(r, s) = {k \in A : r[k].parent = s}
  BY <1>1, <1>3 DEF Kids
<1>5. \A k \in A \ {node} : r[k].parent = IF h[k].parent = node THEN old ELSE h[k].parent
  BY <1>1 DEF HiAllocated
<1> HIDE DEF A
<1>6. Kids(r, node) = {}
  BY <1>1, <1>3, <1>4, <1>5
<1>7. Kids(r, parent) = Kids(h, parent) \cup {node} /\ node \notin Kids(h, parent)
  BY <1>1, <1>3, <1>4, <1>5 DEF old
<1>8. /\ Kids(r, old) = (Kids(h, old) \ {node}) \cup Kids(h, node)
      /\ node \in Kids(h, old) /\ (Kids(h, old) \ {node}) \cap Kids(h, node) = {}
  BY <1>1, <1>3, <1>4, <1>5 DEF old
<1>9. ASSUME NEW s \in Slots \ {node, parent, old}
      PROVE  Kids(r, s) = Kids(h, s)
  <2>1. \A k \in A : r[k].parent = s <=> h[k].parent = s
    BY <1>1, <1>5 DEF old
  <2> QED
    BY <1>4, <2>1
<1>10. \A s \in Slots : /\ h[s].count = Cardinality(Kids(h, s))
                        /\ Cardinality(Kids(h, s)) \in Int /\ IsFiniteSet(Kids(h, s))
  BY KidsFinite DEF Counted
<1>11. Cardinality(Kids(r, parent)) = Cardinality(Kids(h, parent)) + 1
  BY <1>7, <1>10, FS_AddElement
<1>12. Cardinality(Kids(r, old)) = Cardinality(Kids(h, old)) - 1 + Cardinality(Kids(h, node))
  <2> DEFINE K == Kids(h, old) \ {node}
  <2>1. IsFiniteSet(K) /\ Cardinality(K) = Cardinality(Kids(h, old)) - 1
    BY <1>3, <1>8, <1>10, FS_RemoveElement
  <2>2. IsFiniteSet(Kids(h, node)) /\ K \cap Kids(h, node) = {} /\ Kids(r, old) = K \cup Kids(h, node)
    BY <1>8, <1>10
  <2> HIDE DEF K
  <2>3. Cardinality(K \cup Kids(h, node)) = Cardinality(K) + Cardinality(Kids(h, node)) - Cardinality({})
    BY <2>1, <2>2, FS_Union
  <2> QED
    BY <1>3, <1>10, <2>1, <2>2, <2>3, FS_EmptySet
<1>13. ASSUME NEW s \in Slots
       PROVE  r[s].count = Cardinality(Kids(r, s))
  <2>1. CASE s = node
    BY <1>2, <1>6, <2>1, FS_EmptySet
  <2>2. CASE s = parent
    BY <1>2, <1>10, <1>11, <2>2
  <2>3. CASE s = old /\ s # parent
    BY <1>2, <1>3, <1>10, <1>12, <2>3
  <2>4. CASE s \notin {node, parent, old}
    BY <1>2, <1>9, <1>10, <2>4
  <2> QED
    BY <2>1, <2>2, <2>3, <2>4
<1> QED
  BY <1>13 DEF Counted, r

(* The links and counts after hi_AdoptNode to a stub without children, of  *)
(* the only child of the other.                                            *)
LEMMA AdoptNodeFields ==
  ASSUME NEW h, NEW node \in Slots \ {HI_ROOT_STUB, HI_ORPHAN_STUB},
         Linked(h), h[node] # Free, Counted(h),
         h[node].parent = HI_ROOT_STUB, h[HI_ROOT_STUB].last = node, h[node].prev = HI_NULL,
         h[HI_ORPHAN_STUB].last = HI_NULL
  PROVE  LET r == AdoptNode(h, node, HI_ORPHAN_STUB)
         IN /\ Counted(r)
            /\ r[HI_ROOT_STUB].last = HI_NULL /\ r[HI_ORPHAN_STUB].last = node
            /\ \A s \in Slots \ {HI_ROOT_STUB, HI_ORPHAN_STUB} :
                 r[s].prev = h[s].prev /\ r[s].last = h[s].last
<1> DEFINE g == Unlink(h, node)
           r == AdoptNode(h, node, HI_ORPHAN_STUB)
           n == h[node]
           p == h[n.parent]
<1>1. /\ h \in [Slots -> Nodes] /\ n.parent = HI_ROOT_STUB /\ HI_ROOT_STUB \in Slots
      /\ HI_ORPHAN_STUB \in Slots /\ HI_ROOT_STUB # HI_ORPHAN_STUB
  BY SlotsAre DEF Linked
<1>2. p.last = node /\ p.first = node /\ n.next = HI_NULL /\ n.prev = HI_NULL
  <2>1. node \in HiAllocated(h) \ {HI_ROOT_STUB, HI_ORPHAN_STUB}
    BY DEF HiAllocated
  <2>2. p.first = node
    BY <1>1, <2>1 DEF Linked, EndsKnown
  <2>3. h[node].next = HI_NULL
    BY <1>1, SlotsAre DEF Linked
  <2> QED
    BY <1>1, <2>2, <2>3
<1>3. /\ g \in [Slots -> Nodes]
      /\ \A s \in Slots :
           /\ g[s].parent = h[s].parent
           /\ g[s].prev = IF s = n.next /\ s # HI_NULL THEN n.prev ELSE h[s].prev
           /\ s # n.parent => g[s].last = h[s].last
      /\ g[n.parent].last = IF p.first = p.last THEN HI_NULL
                            ELSE IF p.first # node /\ p.last = node THEN n.prev ELSE p.last
  BY <1>1, UnlinkIs
<1>4. \A s \in Slots : g[s].count = h[s].count - (IF s = n.parent THEN 1 ELSE 0)
  BY <1>1, UnlinkCounts
<1> HIDE DEF g, p, n
<1>5. /\ g[HI_ROOT_STUB].last = HI_NULL
      /\ \A s \in Slots : /\ g[s].prev = h[s].prev /\ g[s].parent = h[s].parent
                          /\ s # HI_ROOT_STUB => g[s].last = h[s].last
                          /\ g[s].count = h[s].count - (IF s = HI_ROOT_STUB THEN 1 ELSE 0)
  BY <1>1, <1>2, <1>3, <1>4
<1>6. r = AppendChild(g, node, HI_ORPHAN_STUB)
  BY DEF AdoptNode, g
<1>7. g[HI_ORPHAN_STUB].last = HI_NULL /\ node # HI_NULL /\ node # HI_ORPHAN_STUB
  BY <1>1, <1>5, SlotsAre
<1> HIDE DEF r
<1>8. /\ r[node].prev = HI_NULL
      /\ r[node].last = g[node].last
      /\ \A s \in Slots \ {node} : /\ r[s].prev = g[s].prev
                                   /\ r[s].last = IF s = HI_ORPHAN_STUB THEN node ELSE g[s].last
  BY <1>1, <1>3, <1>6, <1>7, AppendChildIs
<1>9. \A s \in Slots : r[s].count = g[s].count + (IF s = HI_ORPHAN_STUB THEN 1 ELSE 0)
  BY <1>1, <1>3, <1>6, AppendChildCounts
<1>10. /\ HiAllocated(r) = HiAllocated(h)
       /\ r[node].parent = HI_ORPHAN_STUB
       /\ \A s \in Slots \ {node} : r[s].parent = h[s].parent
  <2>1. HI_ORPHAN_STUB \in {HI_ROOT_STUB, HI_ORPHAN_STUB}
    OBVIOUS
  <2> QED
    BY <2>1, AdoptNodeLinks DEF r
<1>11. Counted(r)
  <2> DEFINE A == HiAllocated(h) \ {HI_ROOT_STUB, HI_ORPHAN_STUB}
  <2>1. node \in A /\ \A s : /\ Kids(h, s) = {k \in A : h[k].parent = s}
                            /\ Kids(r, s) = {k \in A : r[k].parent = s}
    BY <1>10 DEF Kids, HiAllocated
  <2>2. \A k \in A \ {node} : r[k].parent = h[k].parent
    BY <1>10 DEF HiAllocated
  <2> HIDE DEF A
  <2>3. /\ Kids(r, HI_ORPHAN_STUB) = Kids(h, HI_ORPHAN_STUB) \cup {node} /\ node \notin Kids(h, HI_ORPHAN_STUB)
        /\ Kids(r, HI_ROOT_STUB) = Kids(h, HI_ROOT_STUB) \ {node} /\ node \in Kids(h, HI_ROOT_STUB)
        /\ \A s \in Slots \ {HI_ROOT_STUB, HI_ORPHAN_STUB} : Kids(r, s) = Kids(h, s)
    <3>1. h[node].parent = HI_ROOT_STUB /\ r[node].parent = HI_ORPHAN_STUB
      BY <1>10
    <3>2. /\ Kids(r, HI_ORPHAN_STUB) = Kids(h, HI_ORPHAN_STUB) \cup {node}
          /\ node \notin Kids(h, HI_ORPHAN_STUB)
      BY <1>1, <2>1, <2>2, <3>1
    <3>3. /\ Kids(r, HI_ROOT_STUB) = Kids(h, HI_ROOT_STUB) \ {node}
          /\ node \in Kids(h, HI_ROOT_STUB)
      BY <1>1, <2>1, <2>2, <3>1
    <3>4. ASSUME NEW s \in Slots \ {HI_ROOT_STUB, HI_ORPHAN_STUB}
          PROVE  Kids(r, s) = Kids(h, s)
      <4>1. \A k \in A : r[k].parent = s <=> h[k].parent = s
        BY <1>1, <2>2, <3>1
      <4> QED
        BY <2>1, <4>1
    <3> QED
      BY <3>2, <3>3, <3>4
  <2>4. \A s \in Slots : /\ h[s].count = Cardinality(Kids(h, s))
                         /\ Cardinality(Kids(h, s)) \in Int /\ IsFiniteSet(Kids(h, s))
    BY KidsFinite DEF Counted
  <2>9. HI_ROOT_STUB \in Slots /\ HI_ORPHAN_STUB \in Slots
    BY <1>1
  <2>5. Cardinality(Kids(r, HI_ORPHAN_STUB)) = Cardinality(Kids(h, HI_ORPHAN_STUB)) + 1
    <3> DEFINE K == Kids(h, HI_ORPHAN_STUB)
    <3>1. IsFiniteSet(K) /\ node \notin K /\ Kids(r, HI_ORPHAN_STUB) = K \cup {node}
      BY <2>3, <2>4, <2>9
    <3> HIDE DEF K
    <3>2. Cardinality(K \cup {node}) = Cardinality(K) + 1
      BY <3>1, FS_AddElement
    <3> QED
      BY <3>1, <3>2 DEF K
  <2>6. Cardinality(Kids(r, HI_ROOT_STUB)) = Cardinality(Kids(h, HI_ROOT_STUB)) - 1
    BY <2>3, <2>4, <2>9, FS_RemoveElement
  <2> SUFFICES ASSUME NEW s \in Slots
               PROVE  r[s].count = Cardinality(Kids(r, s))
    BY DEF Counted
  <2>7. r[s].count = h[s].count - (IF s = HI_ROOT_STUB THEN 1 ELSE 0) + (IF s = HI_ORPHAN_STUB THEN 1 ELSE 0)
    BY <1>5, <1>9
  <2>8. h[s].count = Cardinality(Kids(h, s)) /\ Cardinality(Kids(h, s)) \in Int
    BY <2>4
  <2>10. CASE s = HI_ROOT_STUB
    BY <1>1, <2>6, <2>7, <2>8, <2>10
  <2>11. CASE s = HI_ORPHAN_STUB
    BY <1>1, <2>5, <2>7, <2>8, <2>11
  <2>12. CASE s \notin {HI_ROOT_STUB, HI_ORPHAN_STUB}
    BY <2>3, <2>7, <2>8, <2>12
  <2> QED
    BY <2>10, <2>11, <2>12
<1> QED
  BY <1>1, <1>2, <1>5, <1>7, <1>8, <1>11 DEF r, n

-------------------------------------------------------------------------------
(* The pruning, exactly                                                    *)

(* What the pruning leaves as it is: the links of the nodes the frame has  *)
(* built.  And the nodes it has to find: no other is under one of those.   *)
Kept(p) ==
  /\ Counted(p.left)
  /\ p.left[HI_ROOT_STUB].last = hi[HI_ROOT_STUB].last
  /\ \A t \in touched : /\ p.left[t].parent = hi[t].parent
                        /\ p.left[t].prev = hi[t].prev /\ p.left[t].last = hi[t].last
  /\ \A s \in HiAllocated(p.left) \ (touched \cup {HI_ROOT_STUB, HI_ORPHAN_STUB}) :
       p.left[s].parent \notin touched \cup {HI_ROOT_STUB}

(* Removing one child of the orphan stub leaves the rest as it is.         *)
LEMMA PruneOneFields ==
  ASSUME HI_ROOT_STUB \notin touched, HI_ORPHAN_STUB \notin touched,
         NEW p, Pruning(p), Kept(p), p.index # HI_NULL
  PROVE  /\ Kept(PruneOne(p))
         /\ p.index \in HiAllocated(p.left)
         /\ HiAllocated(PruneOne(p).left) \subseteq HiAllocated(p.left) \ {p.index}
<1> DEFINE h == p.left
           x == p.index
           r == RemoveSubHierarchy(h, x)
           gone == SubHierarchy(h, x)
           g == Unlink(h, x)
           n == h[x]
<1>1. /\ h \in [Slots -> Nodes] /\ x \in Slots /\ Linked(h) /\ x = h[HI_ORPHAN_STUB].first
      /\ touched \subseteq HiAllocated(h)
      /\ \A t \in touched : h[t].parent \in touched \cup {HI_ROOT_STUB}
  BY DEF Pruning
<1>2. PruneOne(p).left = r
  BY DEF PruneOne
<1>3. x # HI_NULL
  OBVIOUS
<1>16. Pruning(PruneOne(p))
  BY PruneOneKeeps
<1> HIDE DEF h, x
<1>4. h[x].parent = HI_ORPHAN_STUB
  BY <1>1, <1>3, SlotsAre DEF Linked
<1>5. x \notin {HI_ROOT_STUB, HI_ORPHAN_STUB} /\ h[x] # Free /\ x \notin touched
  BY <1>1, <1>4, FreeIs, SlotsAre DEF Linked
<1>6. /\ Linked(r) /\ HiAllocated(r) = HiAllocated(h) \ gone
      /\ \A s \in Slots \ gone : r[s].parent = h[s].parent
  BY <1>1, <1>5, RemoveLinks
<1>7. r = [s \in Slots |-> IF s \in gone THEN Free ELSE g[s]]
  BY DEF RemoveSubHierarchy
<1>8. x \in HiAllocated(h)
  BY <1>1, <1>5 DEF HiAllocated
<1>9. /\ gone \in SUBSET HiAllocated(h) /\ x \in gone
      /\ \A s : s \in HiAllocated(h) /\ h[s].parent \in gone /\ s > HI_ORPHAN_STUB => s \in gone
      /\ \A S \in SUBSET HiAllocated(h) :
           x \in S /\ (\A s : s \in HiAllocated(h) /\ h[s].parent \in S /\ s > HI_ORPHAN_STUB => s \in S)
             => gone \subseteq S
  BY <1>1, <1>8, SubHierarchyIs
<1>10. h[x].parent \in Slots /\ HI_ORPHAN_STUB \in Slots
  BY <1>4, SlotsAre
<1>11. /\ g \in [Slots -> Nodes]
       /\ \A s \in Slots :
            /\ g[s].parent = h[s].parent
            /\ g[s].prev = IF s = n.next /\ s # HI_NULL THEN n.prev ELSE h[s].prev
            /\ s # n.parent => g[s].last = h[s].last
  BY <1>1, <1>10, UnlinkIs
<1>12. \A s \in Slots : g[s].count = h[s].count - (IF s = n.parent THEN 1 ELSE 0)
  BY <1>1, <1>10, UnlinkCounts
<1> HIDE DEF r, gone, g
<1>13. {HI_ROOT_STUB, HI_ORPHAN_STUB} \cap gone = {} /\ touched \cap gone = {}
  <2>1. {HI_ROOT_STUB, HI_ORPHAN_STUB} \subseteq HiAllocated(r)
    BY <1>6, StubsAllocated
  <2>2. touched \subseteq HiAllocated(PruneOne(p).left)
    BY <1>16 DEF Pruning
  <2> QED
    BY <1>2, <1>6, <2>1, <2>2
<1>14. n.next # HI_NULL => n.next \in Slots /\ h[n.next].parent = HI_ORPHAN_STUB
  <2>1. n.next \in Slots
    BY <1>1 DEF Nodes
  <2> QED
    BY <1>1, <1>4, <2>1 DEF Linked
<1>15. \A s \in Slots \ gone : r[s] = g[s]
  BY <1>7
<1>17. ASSUME NEW t \in touched
       PROVE  /\ r[t].parent = h[t].parent /\ r[t].prev = h[t].prev /\ r[t].last = h[t].last
  <2>1. t \in Slots \ gone /\ t # HI_ORPHAN_STUB
    BY <1>1, <1>13 DEF HiAllocated
  <2>2. h[t].parent # HI_ORPHAN_STUB
    BY <1>1, SlotsAre
  <2> QED
    BY <1>4, <1>11, <1>14, <1>15, <2>1, <2>2
<1>18. r[HI_ROOT_STUB].last = h[HI_ROOT_STUB].last
  BY <1>4, <1>11, <1>13, <1>15, SlotsAre
<1>19. \A k \in gone : k = x \/ h[k].parent \in gone
  <2> DEFINE S == {k \in gone : k = x \/ h[k].parent \in gone}
  <2>1. S \in SUBSET HiAllocated(h) /\ x \in S /\ S \subseteq gone
    BY <1>9
  <2>2. \A s : s \in HiAllocated(h) /\ h[s].parent \in S /\ s > HI_ORPHAN_STUB => s \in S
    BY <1>9, <2>1
  <2> HIDE DEF S
  <2>3. gone \subseteq S
    BY <1>9, <2>1, <2>2
  <2> QED
    BY <2>3 DEF S
<1>20. Counted(r)
  <2> DEFINE A == HiAllocated(h) \ {HI_ROOT_STUB, HI_ORPHAN_STUB}
  <2>1. /\ x \in A /\ gone \subseteq A
        /\ \A s : /\ Kids(h, s) = {k \in A : h[k].parent = s}
                  /\ Kids(r, s) = {k \in A \ gone : r[k].parent = s}
    BY <1>5, <1>6, <1>8, <1>9, <1>13 DEF Kids
  <2>2. \A k \in A \ gone : r[k].parent = h[k].parent
    BY <1>6 DEF HiAllocated
  <2>3. \A k \in A : h[k].parent \in gone => k \in gone
    <3>1. \A k \in A : k > HI_ORPHAN_STUB
      BY HierarchyAssumption DEF HiAllocated, Slots, HI_ROOT_STUB, HI_ORPHAN_STUB
    <3> QED
      BY <1>9, <3>1
  <2>4. \A s \in Slots : /\ h[s].count = Cardinality(Kids(h, s))
                         /\ Cardinality(Kids(h, s)) \in Int /\ IsFiniteSet(Kids(h, s))
    BY KidsFinite DEF Kept, Counted, h
  <2> HIDE DEF A
  <2> SUFFICES ASSUME NEW s \in Slots
               PROVE  r[s].count = Cardinality(Kids(r, s))
    BY DEF Counted
  <2>5. CASE s \in gone
    <3>1. Kids(r, s) = {}
      BY <2>1, <2>2, <2>3, <2>5
    <3>2. r[s] = Free /\ Free.count = 0
      BY <1>7, <2>5 DEF Free
    <3> QED
      BY <3>1, <3>2, FS_EmptySet
  <2>6. CASE s = HI_ORPHAN_STUB
    <3>1. \A k \in A : k \in gone /\ h[k].parent = HI_ORPHAN_STUB => k = x
      BY <1>13, <1>19
    <3>2. Kids(r, s) = Kids(h, s) \ {x} /\ x \in Kids(h, s)
      BY <1>4, <1>9, <2>1, <2>2, <2>6, <3>1
    <3>3. Cardinality(Kids(r, s)) = Cardinality(Kids(h, s)) - 1
      BY <2>4, <3>2, FS_RemoveElement
    <3>4. r[s].count = h[s].count - 1
      BY <1>4, <1>12, <1>13, <1>15, <2>6
    <3> QED
      BY <2>4, <3>3, <3>4
  <2>7. CASE s \notin gone /\ s # HI_ORPHAN_STUB
    <3>1. \A k \in A : h[k].parent = s => k \notin gone
      BY <1>4, <1>19, <2>7
    <3>2. \A k \in A : k \in Kids(r, s) <=> k \in Kids(h, s)
      BY <2>1, <2>2, <3>1
    <3>3. Kids(r, s) = Kids(h, s)
      BY <2>1, <3>2
    <3>4. r[s].count = h[s].count
      BY <1>4, <1>12, <1>15, <2>4, <2>7
    <3> QED
      BY <2>4, <3>3, <3>4
  <2> QED
    BY <2>5, <2>6, <2>7
<1>21. \A s \in HiAllocated(r) \ (touched \cup {HI_ROOT_STUB, HI_ORPHAN_STUB}) :
         r[s].parent \notin touched \cup {HI_ROOT_STUB}
  <2>1. \A s \in HiAllocated(r) : s \in HiAllocated(h) /\ r[s].parent = h[s].parent
    BY <1>6 DEF HiAllocated
  <2> QED
    BY <2>1 DEF Kept, h
<1>22. Kept(PruneOne(p))
  BY <1>2, <1>17, <1>18, <1>20, <1>21 DEF Kept, h
<1> QED
  BY <1>2, <1>6, <1>8, <1>9, <1>22 DEF h, x

(* When the orphan stub has no child, only what the frame has built is left*)
LEMMA NoneLeft ==
  ASSUME HI_ORPHAN_STUB \notin touched, NEW p, Pruning(p), Kept(p), p.index = HI_NULL
  PROVE  HiAllocated(p.left) \subseteq touched \cup {HI_ROOT_STUB, HI_ORPHAN_STUB}
<1> DEFINE h == p.left
           stubs == {HI_ROOT_STUB, HI_ORPHAN_STUB}
           S == HiAllocated(h) \ (touched \cup stubs)
           C == {s \in S : h[s].parent = HI_ORPHAN_STUB}
<1>1. Linked(h) /\ h[HI_ORPHAN_STUB].first = HI_NULL /\ h \in [Slots -> Nodes]
  BY DEF Pruning
<1>2. h[HI_ORPHAN_STUB].last = HI_NULL
  BY <1>1, SlotsAre DEF Linked, EndsKnown
<1>3. \A s \in S : h[s].parent \in HiAllocated(h) \ (touched \cup {HI_ROOT_STUB})
  <2>1. \A s \in S : h[s].parent \in HiAllocated(h)
    BY <1>1 DEF Linked, HiAllocated
  <2> QED
    BY <2>1 DEF Kept
<1>4. S \in SUBSET (Slots \ stubs) /\ C \in SUBSET (Slots \ {HI_NULL})
  BY SlotsAre DEF HiAllocated
<1> HIDE DEF h
<1> SUFFICES ASSUME S # {}
             PROVE  FALSE
  BY DEF h
<1>5. PICK s \in S : h[s].parent \notin S
  <2>1. ParentsEnd(h, stubs)
    BY <1>1 DEF Linked
  <2> HIDE DEF S
  <2> QED
    BY <1>4, <2>1 DEF ParentsEnd
<1>6. s \in C
  BY <1>3, <1>5
<1>7. PICK c \in C : h[c].next \notin C
  <2>1. ListsEnd(h, {HI_NULL})
    BY <1>1 DEF Linked
  <2> HIDE DEF C
  <2> QED
    BY <1>4, <1>6, <2>1 DEF ListsEnd
<1>8. c \in S /\ h[c].parent = HI_ORPHAN_STUB /\ c \in Slots
  BY <1>4, <1>7
<1>9. h[c].next = HI_NULL
  <2> SUFFICES ASSUME h[c].next # HI_NULL
               PROVE  FALSE
    OBVIOUS
  <2> DEFINE t == h[c].next
  <2>1. t \in Slots \ {HI_NULL}
    BY <1>1, <1>8 DEF Nodes
  <2>2. h[t].parent = HI_ORPHAN_STUB
    BY <1>1, <1>8, <2>1 DEF Linked
  <2>3. t \in HiAllocated(h) /\ t \notin stubs
    BY <1>1, <2>1, <2>2, FreeIs, SlotsAre DEF Linked, HiAllocated
  <2>4. t \notin touched
    BY <2>2, SlotsAre DEF Pruning, h
  <2> QED
    BY <1>7, <2>2, <2>3, <2>4
<1>10. h[HI_ORPHAN_STUB].last = c
  <2>1. c \in HiAllocated(h) \ stubs
    BY <1>8
  <2> QED
    BY <1>1, <1>8, <1>9, <2>1 DEF Linked, EndsKnown
<1> QED
  BY <1>2, <1>8, <1>10, SlotsAre

(* The pruning leaves exactly what the frame has built.                    *)
LEMMA PrunedExactly ==
  ASSUME HI_ROOT_STUB \notin touched, HI_ORPHAN_STUB \notin touched,
         Pruning([left |-> hi, index |-> hi[HI_ORPHAN_STUB].first]),
         Kept([left |-> hi, index |-> hi[HI_ORPHAN_STUB].first])
  PROVE  /\ Kept([left |-> Pruned, index |-> HI_NULL])
         /\ Pruned[HI_ORPHAN_STUB].last = HI_NULL
         /\ HiAllocated(Pruned) = touched \cup {HI_ROOT_STUB, HI_ORPHAN_STUB}
<1> DEFINE start == [left |-> hi, index |-> hi[HI_ORPHAN_STUB].first]
           Left(n) == HiAllocated(Prune[n].left)
           Good(n) == /\ Kept(Prune[n])
                      /\ Prune[n].index # HI_NULL => Cardinality(Left(n)) + n <= MaxSlots
           P == {n \in Nat : n \in 0 .. MaxSlots => Good(n)}
<1>1. /\ Prune[0] = start
      /\ \A n \in Nat : n + 1 \in 0 .. MaxSlots => Prune[n + 1] = PruneOne(Prune[n])
      /\ \A n \in 0 .. MaxSlots : Pruning(Prune[n])
  BY PruneSteps
<1>2. \A n : Left(n) \in SUBSET Slots
  BY DEF HiAllocated
<1>3. MaxSlots \in Nat
  BY HierarchyAssumption
<1>4. 0 \in P
  <2>1. Kept(Prune[0])
    BY <1>1
  <2>2. Cardinality(Left(0)) \in 0 .. MaxSlots
    BY <1>2, KidsFinite
  <2> HIDE DEF Left
  <2> QED
    BY <1>3, <2>1, <2>2
<1>5. ASSUME NEW n \in Nat, n \in P
      PROVE  n + 1 \in P
  <2> SUFFICES ASSUME n + 1 \in 0 .. MaxSlots
               PROVE  Good(n + 1)
    OBVIOUS
  <2>1. n \in 0 .. MaxSlots /\ Good(n)
    BY <1>3, <1>5
  <2>2. Prune[n + 1] = PruneOne(Prune[n]) /\ Pruning(Prune[n])
    BY <1>1, <2>1
  <2>3. CASE Prune[n].index = HI_NULL
    <3>1. Prune[n + 1] = Prune[n]
      BY <2>2, <2>3 DEF PruneOne
    <3> QED
      BY <2>1, <2>3, <3>1
  <2>4. CASE Prune[n].index # HI_NULL
    <3> DEFINE x == Prune[n].index
    <3>1. Kept(Prune[n + 1]) /\ x \in Left(n) /\ Left(n + 1) \subseteq Left(n) \ {x}
      BY <2>1, <2>2, <2>4, PruneOneFields
    <3>2. Cardinality(Left(n)) + n <= MaxSlots
      BY <2>1, <2>4
    <3>3. IsFiniteSet(Left(n)) /\ Cardinality(Left(n)) \in Nat
      BY <1>2, KidsFinite
    <3> HIDE DEF Left, x
    <3>4. IsFiniteSet(Left(n) \ {x}) /\ Cardinality(Left(n) \ {x}) = Cardinality(Left(n)) - 1
      BY <3>1, <3>3, FS_RemoveElement
    <3>5. Cardinality(Left(n + 1)) \in Nat /\ Cardinality(Left(n + 1)) <= Cardinality(Left(n)) - 1
      BY <3>1, <3>4, FS_Subset, FS_CardinalityType
    <3>6. Cardinality(Left(n + 1)) + (n + 1) <= MaxSlots
      BY <1>3, <3>2, <3>3, <3>5
    <3> QED
      BY <3>1, <3>6
  <2> QED
    BY <2>3, <2>4
<1>6. Good(MaxSlots)
  <2>1. \A n \in Nat : n \in P
    <3> HIDE DEF P
    <3> QED
      BY <1>4, <1>5, Induction
  <2> HIDE DEF Good
  <2> QED
    BY <1>3, <2>1
<1> DEFINE last == Prune[MaxSlots]
<1>7. Pruning(last) /\ Kept(last) /\ last.left = Pruned
  BY <1>1, <1>3, <1>6 DEF Pruned
<1>8. last.index = HI_NULL
  <2> SUFFICES ASSUME last.index # HI_NULL
               PROVE  FALSE
    OBVIOUS
  <2>1. Cardinality(Left(MaxSlots)) + MaxSlots <= MaxSlots /\ Cardinality(Left(MaxSlots)) \in Nat
    BY <1>2, <1>6, KidsFinite
  <2>2. HI_ROOT_STUB \in Left(MaxSlots) /\ IsFiniteSet(Left(MaxSlots))
    BY <1>2, <1>7, KidsFinite, StubsAllocated DEF Pruning
  <2> HIDE DEF Left, last
  <2>3. Cardinality(Left(MaxSlots)) = 0
    BY <1>3, <2>1
  <2> QED
    BY <2>2, <2>3, FS_EmptySet
<1> HIDE DEF last
<1>9. HiAllocated(Pruned) = touched \cup {HI_ROOT_STUB, HI_ORPHAN_STUB}
  <2>1. HiAllocated(Pruned) \subseteq touched \cup {HI_ROOT_STUB, HI_ORPHAN_STUB}
    BY <1>7, <1>8, NoneLeft
  <2>2. Linked(Pruned) /\ touched \subseteq HiAllocated(Pruned)
    BY <1>7 DEF Pruning
  <2> QED
    BY <2>1, <2>2, StubsAllocated
<1>10. Pruned[HI_ORPHAN_STUB].last = HI_NULL
  <2>1. Linked(Pruned) /\ Pruned[HI_ORPHAN_STUB].first = HI_NULL
    BY <1>7, <1>8 DEF Pruning
  <2> QED
    BY <2>1, SlotsAre DEF Linked, EndsKnown
<1>11. Kept([left |-> Pruned, index |-> HI_NULL])
  BY <1>7 DEF Kept
<1> QED
  BY <1>9, <1>10, <1>11

-------------------------------------------------------------------------------
(* The frame                                                               *)

(* What the placing of a node at slot does to the links.                   *)
LinksPlaced(parent, slot) ==
  /\ hi'[slot].prev = hi[parent].last /\ hi'[slot].last = HI_NULL
  /\ hi'[parent].last = slot
  /\ \A s \in HiAllocated(hi) \ {slot} :
       /\ hi'[s].parent = IF hi[s].parent = slot THEN hi[slot].parent ELSE hi[s].parent
       /\ hi[s].parent \notin {slot, hi[slot].parent} => hi'[s].prev = hi[s].prev
       /\ s \notin {parent, hi[slot].parent} => hi'[s].last = hi[s].last

(* Placing a node, new or adopted.                                         *)
LEMMA PlaceFields ==
  ASSUME TreeInv, Counted(hi), NEW id \in Hashed \cup {Plain}, NEW parent \in HiAllocated(hi),
         Place(id, parent), SlotFor(id) # parent, hi[SlotFor(id)].parent # parent
  PROVE  LinksPlaced(parent, SlotFor(id)) /\ Counted(hi')
<1> DEFINE slot == SlotFor(id)
<1>1. /\ Linked(hi) /\ length \in Nat /\ HiAllocated(hi) \subseteq 0 .. length - 1
      /\ node_map \in [Hashed -> Slots]
      /\ \A n \in Hashed : node_map[n] # HI_NULL => node_map[n] \in InTree
  BY DEF TreeInv
<1>2. slot \in Slots /\ slot # parent /\ parent \in Slots /\ hi[parent] # Free
  BY DEF Place, HiAllocated
<1>3. hi[slot].parent # parent
  OBVIOUS
<1>4. HiAllocated(hi) \subseteq Slots
  BY DEF HiAllocated
<1>5. CASE id # Plain /\ node_map[id] # HI_NULL
  <2>1. slot = node_map[id] /\ id \in Hashed
    BY <1>5 DEF SlotFor
  <2>2. slot \in InTree
    BY <1>1, <1>5, <2>1
  <2>3. hi' = AdoptNodeExclusive(hi, slot, parent)
    BY <1>5, <2>1 DEF Place
  <2>4. slot \in Slots \ {HI_ROOT_STUB, HI_ORPHAN_STUB} /\ hi[slot] # Free
    BY <2>2 DEF InTree, HiAllocated
  <2> HIDE DEF slot
  <2>5. /\ hi'[slot].prev = hi[parent].last /\ hi'[slot].last = HI_NULL
        /\ hi'[parent].last = slot
        /\ \A s \in Slots \ {slot} :
             hi[s].parent \notin {slot, hi[slot].parent} => hi'[s].prev = hi[s].prev
        /\ \A s \in Slots \ {slot, parent, hi[slot].parent} : hi'[s].last = hi[s].last
    BY <1>1, <1>2, <1>3, <2>3, <2>4, AdoptNodeExclusiveFields
  <2>6. \A s \in Slots \ {slot} :
          hi'[s].parent = IF hi[s].parent = slot THEN hi[slot].parent ELSE hi[s].parent
    BY <1>1, <1>2, <2>3, <2>4, AdoptNodeExclusiveLinks
  <2>7. Counted(hi')
    BY <1>1, <1>2, <1>3, <2>3, <2>4, AdoptNodeExclusiveCounted
  <2> QED
    BY <1>4, <2>5, <2>6, <2>7 DEF LinksPlaced, slot
<1>6. CASE ~(id # Plain /\ node_map[id] # HI_NULL)
  <2>1. slot = NewSlot
    BY <1>6 DEF SlotFor
  <2>2. hi' = HiAdd(hi, slot, parent)
    BY <1>6, <2>1 DEF Place
  <2>3. slot \notin HiAllocated(hi)
    BY <2>1, NewSlotIs
  <2> HIDE DEF slot
  <2>4. slot \in Slots \ HiAllocated(hi)
    BY <1>2, <2>3
  <2>5. /\ hi'[slot].prev = hi[parent].last /\ hi'[slot].last = HI_NULL
        /\ hi'[parent].last = slot
        /\ \A s \in Slots \ {slot} : hi'[s].prev = hi[s].prev
        /\ \A s \in Slots \ {slot, parent} : hi'[s].last = hi[s].last
    BY <1>1, <1>2, <2>2, <2>4, HiAddFields
  <2>6. \A s \in Slots \ {slot} : hi'[s].parent = hi[s].parent
    BY <1>1, <1>2, <2>2, <2>4, HiAddLinks
  <2>7. Counted(hi')
    BY <1>1, <1>2, <2>2, <2>4, HiAddCounted
  <2>8. \A s \in HiAllocated(hi) : hi[s].parent # slot
    BY <1>1, <2>3 DEF Linked, HiAllocated
  <2> QED
    BY <1>4, <2>5, <2>6, <2>7, <2>8 DEF LinksPlaced, slot
<1> QED
  BY <1>5, <1>6

(* After a frame each node but the root is under another of the frame.     *)
LEMMA FrameTree ==
  ASSUME FrameInv, phase # "build"
  PROVE  /\ built # <<>> => node_map[ROOT] \in touched
         /\ \A s \in touched : s = node_map[ROOT] \/ hi[s].parent \in touched
<1>1. /\ built \in Seq(Slots \X Slots)
      /\ touched = {built[i][1] : i \in DOMAIN built}
      /\ \A i \in DOMAIN built :
           /\ i = 1 => built[i] = <<node_map[ROOT], HI_ROOT_STUB>>
           /\ i # 1 => built[i][2] \in touched /\ hi[built[i][1]].parent = built[i][2]
  BY DEF FrameInv
<1>2. built # <<>> => 1 \in DOMAIN built
  BY <1>1
<1>3. 1 \in DOMAIN built => built[1][1] = node_map[ROOT]
  BY <1>1
<1> QED
  BY <1>1, <1>2, <1>3

(* The root of a frame; the whole last frame is left to be pruned.         *)
LEMMA FrameBeginFrame ==
  ASSUME TreeInv, FrameInv, Counted(hi), FrameBegin
  PROVE  FrameInv' /\ Counted(hi')
<1> SUFFICES ASSUME NEW slot, slot = SlotFor(ROOT)
             PROVE  FrameInv' /\ Counted(hi')
  OBVIOUS
<1>1. /\ phase # "build" /\ phase' = "build" /\ touched' = {slot}
      /\ built' = <<<<slot, HI_ROOT_STUB>>>>
      /\ stack_parent = <<HI_ROOT_STUB>> /\ stack_parent' = Append(stack_parent, slot)
      /\ Place(ROOT, HI_ROOT_STUB)
  BY DEF FrameBegin, TreeInv
<1>2. /\ InTree = touched /\ hi[HI_ROOT_STUB].last = HI_NULL
      /\ built # <<>> => hi[node_map[ROOT]].parent = HI_ORPHAN_STUB
      /\ \A n \in Hashed : node_map[n] # HI_NULL => IsTouched(n)
      /\ touched = {built[i][1] : i \in DOMAIN built}
  BY <1>1 DEF FrameInv
<1>3. ROOT \in Hashed /\ ROOT # Plain
  BY DEF Hashed, ROOT, Plain
<1>4. Linked(hi) /\ HI_ROOT_STUB \in HiAllocated(hi) /\ HI_ROOT_STUB \in Slots
  BY StubsAllocated, SlotsAre DEF TreeInv
<1>5. slot # HI_ROOT_STUB
  BY <1>3, <1>4, NewSlotIs, SlotsAre DEF SlotFor
<1>6. slot \in HiAllocated(hi) => slot = node_map[ROOT] /\ built # <<>> /\ hi[slot].parent = HI_ORPHAN_STUB
  <2> SUFFICES ASSUME slot \in HiAllocated(hi)
               PROVE  slot = node_map[ROOT] /\ built # <<>> /\ hi[slot].parent = HI_ORPHAN_STUB
    OBVIOUS
  <2>1. slot = node_map[ROOT] /\ node_map[ROOT] # HI_NULL
    BY <1>3, NewSlotIs DEF SlotFor
  <2>2. node_map[ROOT] \in touched
    BY <1>2, <1>3, <2>1 DEF IsTouched
  <2>3. built # <<>>
    BY <1>2, <2>2
  <2> QED
    BY <1>2, <2>1, <2>3
<1>7. hi[slot].parent # HI_ROOT_STUB
  <2>1. slot \in Slots
    BY <1>1 DEF Place
  <2>2. CASE slot \in HiAllocated(hi)
    BY <1>6, <2>2, SlotsAre
  <2>3. CASE slot \notin HiAllocated(hi)
    BY <2>1, <2>3, FreeIs, SlotsAre DEF HiAllocated
  <2> QED
    BY <2>2, <2>3
<1>8. LinksPlaced(HI_ROOT_STUB, slot) /\ Counted(hi')
  BY <1>1, <1>3, <1>4, <1>5, <1>7, PlaceFields
<1>9. Placed(ROOT, HI_ROOT_STUB, slot)
  BY <1>1, <1>3, <1>4, <1>5, PlaceIs
<1>10. \A s \in touched : s = slot \/ hi[s].parent \in touched
  <2>1. ASSUME NEW s \in touched
        PROVE  s = slot \/ hi[s].parent \in touched
    <3>1. built # <<>>
      BY <1>2
    <3>2. node_map[ROOT] \in touched /\ (s = node_map[ROOT] \/ hi[s].parent \in touched)
      BY <1>1, <3>1, FrameTree
    <3>3. slot = node_map[ROOT]
      BY <1>2, <1>3, <3>2, SlotsAre DEF SlotFor, InTree
    <3> QED
      BY <3>2, <3>3
  <2> QED
    BY <2>1
<1>11. /\ slot \in Slots \ {HI_ROOT_STUB, HI_ORPHAN_STUB}
       /\ InTree' = InTree \cup {slot} /\ node_map'[ROOT] = slot
  BY <1>3, <1>9 DEF Placed, InTree
<1>12. \A s \in InTree' \ touched' : hi'[s].parent \notin touched' \cup {HI_ROOT_STUB}
  <2> SUFFICES ASSUME NEW s \in InTree \ {slot}
               PROVE  hi'[s].parent \notin {slot, HI_ROOT_STUB}
    BY <1>1, <1>11
  <2>1. s \in HiAllocated(hi) /\ hi[s].parent \in InTree
    BY <1>2, <1>10 DEF InTree
  <2>2. hi'[s].parent = IF hi[s].parent = slot THEN hi[slot].parent ELSE hi[s].parent
    BY <1>8, <2>1 DEF LinksPlaced
  <2>3. CASE hi[s].parent = slot
    <3>1. slot \in HiAllocated(hi)
      BY <2>1, <2>3 DEF InTree
    <3> QED
      BY <1>6, <1>11, <2>2, <2>3, <3>1, SlotsAre
  <2>4. CASE hi[s].parent # slot
    BY <2>1, <2>2, <2>4 DEF InTree
  <2> QED
    BY <2>3, <2>4
<1>13. /\ Len(built') = 1 /\ DOMAIN built' = {1} /\ built'[1] = <<slot, HI_ROOT_STUB>>
       /\ built' \in Seq(Slots \X Slots) /\ built' # <<>>
  BY <1>1, <1>4, <1>11
<1>14. \A p \in Slots : /\ Under(p, 0)' = {}
                        /\ p # HI_ROOT_STUB => Under(p, 1)' = {}
  BY <1>13 DEF Under
<1>15. /\ LastBuilt(hi[slot].prev, Under(HI_ROOT_STUB, 0))'
       /\ LastBuilt(hi[slot].last, Under(slot, 1))'
  <2>1. hi'[slot].prev = HI_NULL /\ hi'[slot].last = HI_NULL
    BY <1>2, <1>8 DEF LinksPlaced
  <2> QED
    BY <1>4, <1>11, <1>14, <2>1 DEF LastBuilt
<1>16. \A i \in 2 .. Len(stack_parent') : stack_parent'[i] \in touched'
  BY <1>1
<1>17. \A i \in DOMAIN built' :
         /\ i = 1 => built'[i] = <<node_map'[ROOT], HI_ROOT_STUB>>
         /\ i # 1 => built'[i][2] \in touched' /\ hi'[built'[i][1]].parent = built'[i][2]
         /\ LastBuilt(hi[built[i][1]].prev, Under(built[i][2], i - 1))'
         /\ LastBuilt(hi[built[i][1]].last, Under(built[i][1], Len(built)))'
  <2> SUFFICES /\ LastBuilt(hi[built[1][1]].prev, Under(built[1][2], 1 - 1))'
               /\ LastBuilt(hi[built[1][1]].last, Under(built[1][1], Len(built)))'
    BY <1>11, <1>13
  <2>1. 1 - 1 = 0 /\ built'[1][1] = slot /\ built'[1][2] = HI_ROOT_STUB
    BY <1>13
  <2> QED
    BY <1>13, <1>15, <2>1
<1>18. touched' = {built'[i][1] : i \in DOMAIN built'}
  BY <1>1, <1>13
<1>19. hi'[node_map'[ROOT]].parent = HI_ROOT_STUB /\ hi'[HI_ROOT_STUB].last = node_map'[ROOT]
  BY <1>8, <1>9, <1>11 DEF LinksPlaced, Placed
<1> QED
  BY <1>1, <1>8, <1>12, <1>13, <1>16, <1>17, <1>18, <1>19 DEF FrameInv

(* A node becomes the last child of a node of the frame, and has no child  *)
(* yet.                                                                    *)
LEMMA NodeAllocFrame ==
  ASSUME TreeInv, FrameInv, Counted(hi), NEW id \in Hashed \cup {Plain}, NodeAlloc(id),
         stack_parent' \in {stack_parent, Append(stack_parent, SlotFor(id))}
  PROVE  FrameInv' /\ Counted(hi')
<1> SUFFICES ASSUME NEW slot, slot = SlotFor(id), NEW parent, parent = Last(stack_parent),
                    NEW N, N = Len(built)
             PROVE  FrameInv' /\ Counted(hi')
  OBVIOUS
<1> DEFINE T == touched \cup {HI_ROOT_STUB}
           Before(c, p, n) == {i \in 1 .. n : c[i][2] = p}
           Latest(c, s, places) == IF places = {} THEN s = HI_NULL
                                   ELSE \E i \in places : s = c[i][1] /\ \A j \in places : j <= i
<1>1. /\ phase = "build" /\ phase' = "build" /\ Linked(hi) /\ touched \subseteq InTree
      /\ stack_parent \in Seq(T) /\ Len(stack_parent) > 1
      /\ node_map[ROOT] \in touched
  BY DEF TreeInv, NodeAlloc
<1>2. /\ built \in Seq(Slots \X Slots) /\ touched = {built[i][1] : i \in DOMAIN built}
      /\ \A i \in 2 .. Len(stack_parent) : stack_parent[i] \in touched
      /\ \A s \in InTree \ touched : hi[s].parent \notin T
      /\ hi[node_map[ROOT]].parent = HI_ROOT_STUB /\ hi[HI_ROOT_STUB].last = node_map[ROOT]
      /\ built # <<>>
  BY <1>1 DEF FrameInv
<1>3. \A i \in DOMAIN built :
        /\ i = 1 => built[i] = <<node_map[ROOT], HI_ROOT_STUB>>
        /\ i # 1 => built[i][2] \in touched /\ hi[built[i][1]].parent = built[i][2]
        /\ Latest(built, hi[built[i][1]].prev, Before(built, built[i][2], i - 1))
        /\ Latest(built, hi[built[i][1]].last, Before(built, built[i][1], N))
  BY DEF FrameInv, Under, LastBuilt
<1>4. /\ Place(id, parent) /\ slot \in Slots
      /\ touched' = touched \cup {slot} /\ built' = Append(built, <<slot, parent>>)
  BY DEF NodeAlloc, Place
<1>5. parent \in touched
  <2>1. Len(stack_parent) \in 2 .. Len(stack_parent)
    BY <1>1
  <2> QED
    BY <1>2, <2>1 DEF Last
<1>6. slot \notin T
  <2>1. HI_NULL \in HiAllocated(hi) /\ T \subseteq HiAllocated(hi)
    BY <1>1, StubsAllocated, SlotsAre DEF InTree
  <2>2. CASE id # Plain /\ node_map[id] # HI_NULL
    BY <2>2, SlotsAre DEF SlotFor, NodeAlloc, IsTouched
  <2>3. CASE ~(id # Plain /\ node_map[id] # HI_NULL)
    BY <2>1, <2>3, NewSlotIs DEF SlotFor
  <2> QED
    BY <2>2, <2>3
<1>7. hi[slot].parent \notin T \cup {slot}
  <2>1. T \cup {slot} \subseteq Slots
    BY <1>1, <1>4, SlotsAre DEF InTree, HiAllocated
  <2>2. CASE hi[slot] = Free
    BY <2>1, <2>2, FreeIs, SlotsAre
  <2>3. CASE hi[slot] # Free
    <3>1. slot # HI_ORPHAN_STUB
      <4>1. CASE id # Plain /\ node_map[id] # HI_NULL
        BY <4>1 DEF SlotFor, TreeInv, InTree
      <4>2. CASE ~(id # Plain /\ node_map[id] # HI_NULL)
        BY <1>1, <4>2, NewSlotIs, StubsAllocated DEF SlotFor
      <4> QED
        BY <4>1, <4>2
    <3>2. slot \in InTree \ touched
      BY <1>4, <1>6, <2>3, <3>1 DEF InTree, HiAllocated
    <3>3. hi[slot].parent # slot
      BY <1>1, <1>4, <1>6, <2>3, <3>1, NotOwnParent
    <3> QED
      BY <1>2, <3>2, <3>3
  <2> QED
    BY <2>2, <2>3
<1>8. parent \in HiAllocated(hi) /\ slot # parent /\ hi[slot].parent # parent
  BY <1>1, <1>5, <1>6, <1>7 DEF InTree
<1>9. LinksPlaced(parent, slot) /\ Counted(hi')
  BY <1>4, <1>8, PlaceFields
<1>10. Placed(id, parent, slot)
  BY <1>4, <1>8, PlaceIs
<1>11. /\ built' \in Seq(Slots \X Slots) /\ Len(built') = N + 1 /\ N \in Nat
       /\ \A i \in 1 .. N : built'[i] = built[i]
       /\ built'[N + 1] = <<slot, parent>>
       /\ DOMAIN built = 1 .. N /\ DOMAIN built' = 1 .. N + 1
  <2>1. <<slot, parent>> \in Slots \X Slots
    BY <1>4, <1>8 DEF HiAllocated
  <2> QED
    BY <1>2, <1>4, <2>1
<1>12. \A i \in 1 .. N : /\ built[i][1] \in touched /\ built[i][2] \in T /\ hi[built[i][1]].parent = built[i][2]
  <2>1. \A i \in 1 .. N : built[i][1] \in touched
    BY <1>2, <1>11
  <2>2. ASSUME NEW i \in 1 .. N, i = 1
        PROVE  built[i][2] \in T /\ hi[built[i][1]].parent = built[i][2]
    <3>1. built[i] = <<node_map[ROOT], HI_ROOT_STUB>>
      BY <1>3, <1>11, <2>2
    <3> QED
      BY <1>2, <3>1
  <2> QED
    BY <1>3, <1>11, <2>1, <2>2
<1>13. \A t \in touched : /\ t \in HiAllocated(hi) \ {slot}
                          /\ hi[t].parent \in T => /\ hi'[t].parent = hi[t].parent
                                                   /\ hi'[t].prev = hi[t].prev
                          /\ t # parent => hi'[t].last = hi[t].last
  <2>1. \A t \in touched : t \in HiAllocated(hi) \ {slot}
    BY <1>1, <1>6 DEF InTree
  <2> QED
    BY <1>6, <1>7, <1>9, <2>1 DEF LinksPlaced
<1>14. hi'[HI_ROOT_STUB].last = hi[HI_ROOT_STUB].last
  <2>1. HI_ROOT_STUB \in HiAllocated(hi) /\ HI_ROOT_STUB # parent
    BY <1>1, <1>5, StubsAllocated DEF InTree
  <2> QED
    BY <1>6, <1>7, <1>9, <2>1 DEF LinksPlaced
<1>15. node_map'[ROOT] = node_map[ROOT]
  BY <1>1, <1>10, SlotsAre DEF Placed, Hashed, InTree
<1> HIDE DEF T
<1>16. \A p, n : n \in 0 .. N => Before(built', p, n) = Before(built, p, n)
  BY <1>11
<1>17. \A s, S : S \in SUBSET (1 .. N) /\ Latest(built, s, S) => Latest(built', s, S)
  BY <1>11
<1>18. ASSUME NEW i \in 1 .. N
       PROVE  /\ i = 1 => built'[i] = <<node_map'[ROOT], HI_ROOT_STUB>>
              /\ i # 1 => built'[i][2] \in touched' /\ hi'[built'[i][1]].parent = built'[i][2]
              /\ Latest(built', hi'[built'[i][1]].prev, Before(built', built'[i][2], i - 1))
              /\ Latest(built', hi'[built'[i][1]].last, Before(built', built'[i][1], N + 1))
  <2> DEFINE t == built[i][1]
             q == built[i][2]
  <2>1. t \in touched /\ q \in T /\ hi[t].parent = q /\ built'[i] = built[i]
    BY <1>11, <1>12
  <2>2. /\ i = 1 => built[i] = <<node_map[ROOT], HI_ROOT_STUB>>
        /\ i # 1 => q \in touched
        /\ Latest(built, hi[t].prev, Before(built, q, i - 1))
        /\ Latest(built, hi[t].last, Before(built, t, N))
    BY <1>3, <1>11
  <2> HIDE DEF Latest, t, q
  <2>3. Latest(built', hi'[t].prev, Before(built', q, i - 1))
    <3>1. i - 1 \in 0 .. N /\ Before(built, q, i - 1) \in SUBSET (1 .. N)
      BY <1>11
    <3> HIDE DEF Before
    <3>2. Before(built', q, i - 1) = Before(built, q, i - 1) /\ hi'[t].prev = hi[t].prev
      BY <1>13, <1>16, <2>1, <3>1
    <3> QED
      BY <1>17, <2>2, <3>1, <3>2
  <2>4. Latest(built', hi'[t].last, Before(built', t, N + 1))
    <3>1. CASE t = parent
      <4>1. N + 1 \in Before(built', t, N + 1) /\ built'[N + 1][1] = slot
        BY <1>11, <3>1
      <4>2. \A j \in Before(built', t, N + 1) : j <= N + 1
        BY <1>11
      <4>3. hi'[t].last = slot
        BY <1>9, <3>1 DEF LinksPlaced
      <4> HIDE DEF Before
      <4> QED
        BY <4>1, <4>2, <4>3 DEF Latest
    <3>2. CASE t # parent
      <4>1. ASSUME NEW j \in 1 .. N + 1, built'[j][2] = t
            PROVE  j \in 1 .. N /\ built[j][2] = t
        <5>1. built'[N + 1][2] = parent
          BY <1>11
        <5>2. j # N + 1
          BY <3>2, <4>1, <5>1
        <5>3. j \in 1 .. N
          BY <1>11, <5>2
        <5> QED
          BY <1>11, <4>1, <5>3
      <4>2. Before(built', t, N + 1) = Before(built, t, N) /\ Before(built, t, N) \in SUBSET (1 .. N)
        BY <1>11, <4>1
      <4>3. hi'[t].last = hi[t].last
        BY <1>13, <2>1, <3>2
      <4> HIDE DEF Before
      <4> QED
        BY <1>17, <2>2, <4>2, <4>3
    <3> QED
      BY <3>1, <3>2
  <2> HIDE DEF Before
  <2>5. i # 1 => q \in touched' /\ hi'[t].parent = q
    BY <1>4, <1>13, <2>1, <2>2
  <2>6. built'[i][1] = t /\ built'[i][2] = q
    BY <2>1 DEF t, q
  <2>7. i = 1 => built'[i] = <<node_map'[ROOT], HI_ROOT_STUB>>
    BY <1>15, <2>1, <2>2
  <2> QED
    BY <2>3, <2>4, <2>5, <2>6, <2>7
<1>19. /\ N + 1 # 1
       /\ parent \in touched' /\ hi'[slot].parent = parent
       /\ Latest(built', hi'[slot].prev, Before(built', parent, N + 1 - 1))
       /\ Latest(built', hi'[slot].last, Before(built', slot, N + 1))
  <2>1. N # 0
    BY <1>2, <1>11
  <2>2. N + 1 - 1 = N /\ N \in 0 .. N /\ Before(built, parent, N) \in SUBSET (1 .. N)
    BY <1>11
  <2>3. PICK i \in 1 .. N : parent = built[i][1]
    BY <1>2, <1>5, <1>11
  <2>4. Latest(built, hi[parent].last, Before(built, parent, N))
    <3> HIDE DEF Latest, Before
    <3> QED
      BY <1>3, <1>11, <2>3
  <2>5. Before(built', slot, N + 1) = {}
    <3>1. \A j \in 1 .. N : built'[j][2] # slot
      BY <1>6, <1>11, <1>12
    <3>2. built'[N + 1][2] # slot
      BY <1>8, <1>11
    <3>3. \A j \in 1 .. N + 1 : built'[j][2] # slot
      BY <1>11, <3>1, <3>2
    <3> QED
      BY <3>3
  <2>6. hi'[slot].prev = hi[parent].last /\ hi'[slot].last = HI_NULL
    BY <1>9 DEF LinksPlaced
  <2>7. Latest(built', hi'[slot].last, Before(built', slot, N + 1))
    BY <2>5, <2>6
  <2> HIDE DEF Latest, Before
  <2>8. Latest(built', hi'[slot].prev, Before(built', parent, N + 1 - 1))
    BY <1>16, <1>17, <2>2, <2>4, <2>6
  <2> QED
    BY <1>4, <1>5, <1>10, <1>11, <2>1, <2>7, <2>8 DEF Placed
<1>20. \A i \in DOMAIN built' :
         /\ i = 1 => built'[i] = <<node_map'[ROOT], HI_ROOT_STUB>>
         /\ i # 1 => built'[i][2] \in touched' /\ hi'[built'[i][1]].parent = built'[i][2]
         /\ Latest(built', hi'[built'[i][1]].prev, Before(built', built'[i][2], i - 1))
         /\ Latest(built', hi'[built'[i][1]].last, Before(built', built'[i][1], Len(built')))
  <2> HIDE DEF Latest, Before
  <2> SUFFICES ASSUME NEW i \in 1 .. N + 1
               PROVE  /\ i = 1 => built'[i] = <<node_map'[ROOT], HI_ROOT_STUB>>
                      /\ i # 1 => built'[i][2] \in touched' /\ hi'[built'[i][1]].parent = built'[i][2]
                      /\ Latest(built', hi'[built'[i][1]].prev, Before(built', built'[i][2], i - 1))
                      /\ Latest(built', hi'[built'[i][1]].last, Before(built', built'[i][1], N + 1))
    BY <1>11
  <2>1. CASE i \in 1 .. N
    BY <1>18, <2>1
  <2>2. CASE i = N + 1
    <3>1. built'[i][1] = slot /\ built'[i][2] = parent
      BY <1>11, <2>2
    <3> QED
      BY <1>19, <2>2, <3>1
  <2> QED
    BY <1>11, <2>1, <2>2
<1>21. touched' = {built'[i][1] : i \in DOMAIN built'}
  <2>1. \A i \in 1 .. N : built'[i][1] = built[i][1]
    BY <1>11
  <2>2. built'[N + 1][1] = slot
    BY <1>11
  <2>3. 1 .. N + 1 = (1 .. N) \cup {N + 1}
    BY <1>11
  <2> QED
    BY <1>2, <1>4, <1>11, <2>1, <2>2, <2>3
<1>22. \A s \in InTree' \ touched' : hi'[s].parent \notin touched' \cup {HI_ROOT_STUB}
  <2>1. InTree' = InTree \cup {slot}
    BY <1>10 DEF Placed, InTree
  <2> SUFFICES ASSUME NEW s \in InTree \ (touched \cup {slot})
               PROVE  hi'[s].parent \notin T \cup {slot}
    BY <1>4, <2>1 DEF T
  <2>2. s \in HiAllocated(hi) \ {slot} /\ hi[s].parent \notin T
    BY <1>2 DEF InTree
  <2>3. hi'[s].parent = IF hi[s].parent = slot THEN hi[slot].parent ELSE hi[s].parent
    BY <1>9, <2>2 DEF LinksPlaced
  <2> QED
    BY <1>7, <2>2, <2>3
<1>23. \A i \in 2 .. Len(stack_parent') : stack_parent'[i] \in touched'
  <2>1. CASE stack_parent' = stack_parent
    BY <1>2, <1>4, <2>1
  <2>2. CASE stack_parent' = Append(stack_parent, slot)
    <3>1. Len(stack_parent') = Len(stack_parent) + 1 /\ Len(stack_parent) \in Nat
      BY <1>1, <2>2
    <3>2. \A i \in 1 .. Len(stack_parent) : stack_parent'[i] = stack_parent[i]
      BY <1>1, <2>2
    <3>3. stack_parent'[Len(stack_parent) + 1] = slot
      BY <1>1, <2>2
    <3>4. \A i \in 2 .. Len(stack_parent') : i \in 2 .. Len(stack_parent) \/ i = Len(stack_parent) + 1
      BY <3>1
    <3> QED
      BY <1>2, <1>4, <3>1, <3>2, <3>3, <3>4
  <2> QED
    BY <2>1, <2>2
<1>24. hi'[node_map'[ROOT]].parent = HI_ROOT_STUB /\ hi'[HI_ROOT_STUB].last = node_map'[ROOT]
  BY <1>1, <1>2, <1>13, <1>14, <1>15 DEF T
<1>25. built' # <<>>
  BY <1>11
<1> QED
  BY <1>1, <1>9, <1>11, <1>20, <1>21, <1>22, <1>23, <1>24, <1>25 DEF FrameInv, Under, LastBuilt

(* The links of the nodes that were built, in a form that names all that   *)
(* they depend on.                                                         *)
Before(b, p, n) == {i \in 1 .. n : b[i][2] = p}

Latest(b, s, places) ==
  IF places = {} THEN s = HI_NULL
  ELSE \E i \in places : s = b[i][1] /\ \A j \in places : j <= i

Links(b, h, root, nodes) ==
  \A i \in DOMAIN b :
    /\ i = 1 => b[i] = <<root, HI_ROOT_STUB>>
    /\ i # 1 => b[i][2] \in nodes /\ h[b[i][1]].parent = b[i][2]
    /\ Latest(b, h[b[i][1]].prev, Before(b, b[i][2], i - 1))
    /\ Latest(b, h[b[i][1]].last, Before(b, b[i][1], Len(b)))

(* What FrameInv says of them.                                             *)
LEMMA LinksAre ==
  ASSUME FrameInv
  PROVE  Links(built, hi, node_map[ROOT], touched)
  BY DEF FrameInv, Under, LastBuilt, Links, Before, Latest

(* FrameInv depends on the tree alone.                                     *)
LEMMA SameFrame ==
  ASSUME FrameInv, UNCHANGED <<hi, node_map, touched, built>>,
         phase' = "build" <=> phase = "build",
         phase = "build" => \A i \in 2 .. Len(stack_parent') : stack_parent'[i] \in touched
  PROVE  FrameInv'
<1>1. Links(built', hi', node_map'[ROOT], touched')
  BY LinksAre
<1>2. /\ built' \in Seq(Slots \X Slots)
      /\ touched' = {built'[i][1] : i \in DOMAIN built'}
  <2>1. built' \in Seq(Slots \X Slots)
    BY DEF FrameInv
  <2>2. touched = {built[i][1] : i \in DOMAIN built}
    BY DEF FrameInv
  <2>3. \A s : s \in touched' <=> \E i \in DOMAIN built' : s = built'[i][1]
    BY <2>2
  <2> QED
    BY <2>1, <2>3
<1>3. InTree' = InTree
  BY DEF InTree
<1> QED
  BY <1>1, <1>2, <1>3 DEF FrameInv, Under, LastBuilt, Links, Before, Latest, IsTouched

(* ui_NodePop.                                                             *)
LEMMA NodePopFrame ==
  ASSUME TreeInv, FrameInv, NodePop
  PROVE  FrameInv'
<1>1. /\ UNCHANGED <<hi, node_map, touched, built, phase>> /\ phase = "build"
      /\ stack_parent' = Front(stack_parent) /\ Len(stack_parent) > 2
      /\ stack_parent \in Seq(touched \cup {HI_ROOT_STUB})
  BY DEF NodePop, TreeInv
<1>2. \A i \in 2 .. Len(stack_parent') : stack_parent'[i] \in touched
  <2>1. /\ Len(stack_parent') = Len(stack_parent) - 1
        /\ \A i \in 1 .. Len(stack_parent) - 1 : stack_parent'[i] = stack_parent[i]
    BY <1>1 DEF Front
  <2>2. \A i \in 2 .. Len(stack_parent) : stack_parent[i] \in touched
    BY <1>1 DEF FrameInv
  <2>3. Len(stack_parent) \in Nat
    BY <1>1
  <2> QED
    BY <2>1, <2>2, <2>3
<1> QED
  BY <1>1, <1>2, SameFrame

(* The pruning leaves what was built, and the root moves to the orphan     *)
(* stub.                                                                   *)
LEMMA FrameEndFrame ==
  ASSUME TreeInv, FrameInv, Counted(hi), NEW hovered, FrameEnd(hovered)
  PROVE  FrameInv' /\ Counted(hi')
<1> SUFFICES ASSUME NEW root, root = node_map[ROOT],
                    NEW stubs, stubs = {HI_ROOT_STUB, HI_ORPHAN_STUB},
                    NEW pruned, pruned = Pruned
             PROVE  FrameInv' /\ Counted(hi')
  OBVIOUS
<1>1. /\ phase = "build" /\ Linked(hi) /\ touched \subseteq InTree
      /\ node_map \in [Hashed -> Slots]
      /\ root \in touched
      /\ \A t \in touched : hi[t].parent \in touched \cup {HI_ROOT_STUB}
  BY DEF TreeInv, FrameEnd
<1>2. /\ built \in Seq(Slots \X Slots) /\ built # <<>>
      /\ touched = {built[i][1] : i \in DOMAIN built}
      /\ hi[root].parent = HI_ROOT_STUB /\ hi[HI_ROOT_STUB].last = root
      /\ \A s \in InTree \ touched : hi[s].parent \notin touched \cup {HI_ROOT_STUB}
  BY <1>1 DEF FrameInv
<1>3. \A i \in DOMAIN built :
        /\ i = 1 => built[i] = <<root, HI_ROOT_STUB>>
        /\ i # 1 => built[i][2] \in touched /\ hi[built[i][1]].parent = built[i][2]
        /\ Latest(built, hi[built[i][1]].prev, Before(built, built[i][2], i - 1))
        /\ Latest(built, hi[built[i][1]].last, Before(built, built[i][1], Len(built)))
  BY LinksAre DEF Links
<1>4. /\ hi' = AdoptNode(pruned, root, HI_ORPHAN_STUB)
      /\ node_map' = [n \in Hashed |-> IF node_map[n] \in HiAllocated(pruned) THEN node_map[n] ELSE HI_NULL]
      /\ phase' = "events" /\ touched' = touched /\ built' = built
  BY DEF FrameEnd
<1>5. HI_ROOT_STUB \notin touched /\ HI_ORPHAN_STUB \notin touched
  BY <1>1 DEF InTree
<1>6. /\ Pruning([left |-> hi, index |-> hi[HI_ORPHAN_STUB].first])
      /\ Kept([left |-> hi, index |-> hi[HI_ORPHAN_STUB].first])
  <2> DEFINE i == hi[HI_ORPHAN_STUB].first
             p == [left |-> hi, index |-> i]
  <2>1. hi \in [Slots -> Nodes] /\ i \in Slots
    BY <1>1, SlotsAre DEF Linked, Nodes
  <2> HIDE DEF i
  <2>2. p \in [left : [Slots -> Nodes], index : Slots] /\ p.left = hi /\ p.index = i
    BY <2>1
  <2> HIDE DEF p
  <2>3. Pruning(p)
    BY <1>1, <2>2 DEF Pruning, InTree, i
  <2>4. Kept(p)
    BY <1>2, <2>2 DEF Kept, InTree
  <2> QED
    BY <2>3, <2>4 DEF p, i
<1>7. /\ Kept([left |-> pruned, index |-> HI_NULL])
      /\ pruned[HI_ORPHAN_STUB].last = HI_NULL
      /\ HiAllocated(pruned) = touched \cup stubs /\ Linked(pruned)
  BY <1>5, <1>6, PrunedExactly, PrunedIs
<1>8. /\ Counted(pruned) /\ pruned[HI_ROOT_STUB].last = root
      /\ \A t \in touched : /\ pruned[t].parent = hi[t].parent
                            /\ pruned[t].prev = hi[t].prev /\ pruned[t].last = hi[t].last
  <2> DEFINE p == [left |-> pruned, index |-> HI_NULL]
  <2>1. p.left = pruned /\ Kept(p)
    BY <1>7
  <2> HIDE DEF p
  <2> QED
    BY <1>2, <2>1 DEF Kept
<1>9. 1 \in DOMAIN built /\ built[1] = <<root, HI_ROOT_STUB>>
  BY <1>2, <1>3
<1>10. hi[root].prev = HI_NULL
  <2>1. Latest(built, hi[built[1][1]].prev, Before(built, built[1][2], 1 - 1))
    BY <1>3, <1>9
  <2>2. Before(built, built[1][2], 1 - 1) = {}
    BY DEF Before
  <2> QED
    BY <1>9, <2>1, <2>2 DEF Latest
<1>11. root \in Slots \ {HI_ROOT_STUB, HI_ORPHAN_STUB} /\ pruned[root] # Free
  BY <1>1, <1>5, <1>7 DEF HiAllocated
<1>12. /\ Counted(hi')
       /\ hi'[HI_ROOT_STUB].last = HI_NULL /\ hi'[HI_ORPHAN_STUB].last = root
       /\ \A s \in Slots \ {HI_ROOT_STUB, HI_ORPHAN_STUB} :
            hi'[s].prev = pruned[s].prev /\ hi'[s].last = pruned[s].last
  BY <1>1, <1>2, <1>4, <1>7, <1>8, <1>10, <1>11, AdoptNodeFields
<1>13. /\ HiAllocated(hi') = HiAllocated(pruned)
       /\ hi'[root].parent = HI_ORPHAN_STUB
       /\ \A s \in Slots \ {root} : hi'[s].parent = pruned[s].parent
  <2>1. HI_ORPHAN_STUB \in {HI_ROOT_STUB, HI_ORPHAN_STUB}
    OBVIOUS
  <2> QED
    BY <1>4, <1>7, <1>11, <2>1, AdoptNodeLinks
<1>14. InTree' = touched
  BY <1>5, <1>7, <1>13 DEF InTree
<1>15. touched \subseteq Slots \ {HI_ROOT_STUB, HI_ORPHAN_STUB}
  BY <1>1 DEF InTree, HiAllocated
<1>16. node_map'[ROOT] = root
  BY <1>1, <1>4, <1>7 DEF Hashed
<1>17. \A n \in Hashed : node_map'[n] # HI_NULL => n # Plain /\ node_map'[n] \in touched
  <2>1. \A n \in Hashed : n # Plain
    BY UiAssumption DEF Hashed, ROOT, Plain
  <2>2. \A n \in Hashed : node_map[n] # HI_NULL => node_map[n] \in InTree
    BY DEF TreeInv
  <2>3. \A n \in Hashed : node_map'[n] # HI_NULL =>
          node_map[n] # HI_NULL /\ node_map[n] \in HiAllocated(pruned) /\ node_map'[n] = node_map[n]
    BY <1>4
  <2> QED
    BY <1>7, <2>1, <2>2, <2>3 DEF InTree
<1>18. Links(built, hi', root, touched)
  <2> SUFFICES ASSUME NEW i \in DOMAIN built
               PROVE  /\ i = 1 => built[i] = <<root, HI_ROOT_STUB>>
                      /\ i # 1 => built[i][2] \in touched /\ hi'[built[i][1]].parent = built[i][2]
                      /\ Latest(built, hi'[built[i][1]].prev, Before(built, built[i][2], i - 1))
                      /\ Latest(built, hi'[built[i][1]].last, Before(built, built[i][1], Len(built)))
    BY DEF Links
  <2> DEFINE t == built[i][1]
  <2>1. t \in touched
    BY <1>2
  <2>2. hi'[t].prev = hi[t].prev /\ hi'[t].last = hi[t].last
    BY <1>8, <1>12, <1>15, <2>1
  <2>3. i # 1 => t # root
    BY <1>2, <1>3, <1>5
  <2>4. i # 1 => hi'[t].parent = hi[t].parent
    BY <1>8, <1>13, <1>15, <2>1, <2>3
  <2> QED
    BY <1>3, <2>2, <2>4
<1>19. Links(built', hi', node_map'[ROOT], touched')
  BY <1>4, <1>16, <1>18
<1>20. /\ built' \in Seq(Slots \X Slots)
       /\ touched' = {built'[i][1] : i \in DOMAIN built'}
  <2>1. \A s : s \in touched' <=> \E i \in DOMAIN built' : s = built'[i][1]
    BY <1>2, <1>4
  <2> QED
    BY <1>2, <1>4, <2>1
<1>21. InTree' = touched' /\ phase' # "build"
  BY <1>4, <1>14
<1>22. /\ hi'[node_map'[ROOT]].parent = HI_ORPHAN_STUB
       /\ hi'[HI_ORPHAN_STUB].last = node_map'[ROOT]
  BY <1>12, <1>13, <1>16
<1>23. \A n \in Hashed : node_map'[n] # HI_NULL => IsTouched(n)'
  BY <1>4, <1>17 DEF IsTouched
<1>24. FrameInv'
  BY <1>12, <1>19, <1>20, <1>21, <1>22, <1>23 DEF FrameInv, Links, Before, Latest, Under, LastBuilt
<1> QED
  BY <1>12, <1>24

(* The types of what the tree and the text do not depend on.               *)
WindowInv ==
  /\ node_hovered \in Fields \cup {None}
  /\ {clicked, escaped} \subseteq BOOLEAN
  /\ text_edit_mode \in {0, 1} /\ text_input_mode \in {0, 1}
  /\ plain_count \in 0 .. MaxPlain

FullInv == IInv /\ FrameInv /\ Counted(hi) /\ WindowInv

(* The invariant holds at first, and every step keeps it.                  *)
LEMMA InitFull ==
  ASSUME Init
  PROVE  FullInv
<1>1. /\ hi = HiInit /\ built = <<>> /\ touched = {} /\ phase = "events"
      /\ node_map = [n \in Hashed |-> HI_NULL]
  BY DEF Init
<1>2. /\ Linked(hi) /\ HiAllocated(hi) = {HI_ROOT_STUB, HI_ORPHAN_STUB}
  BY <1>1, HiInitLinks
<1>3. InTree = {}
  BY <1>2 DEF InTree
<1>4. hi[HI_ROOT_STUB].last = HI_NULL
  BY <1>1, SlotsAre, FreeIs DEF HiInit
<1>5. FrameInv
  <2>1. built \in Seq(Slots \X Slots) /\ DOMAIN built = {} /\ built = <<>>
    BY <1>1
  <2> HIDE DEF FrameInv
  <2>2. \A n \in Hashed : node_map[n] = HI_NULL
    BY <1>1
  <2> QED
    BY <1>1, <1>3, <1>4, <2>1, <2>2 DEF FrameInv
<1>6. Counted(hi)
  <2>1. \A s \in Slots : Kids(hi, s) = {}
    BY <1>2 DEF Kids
  <2>2. \A s \in Slots : hi[s].count = 0
    BY <1>1 DEF HiInit, Alone, Free
  <2> QED
    BY <2>1, <2>2, FS_EmptySet DEF Counted
<1>7. WindowInv
  <2>1. clicked = FALSE /\ escaped = FALSE
    BY DEF Init
  <2>2. {clicked, escaped} \subseteq BOOLEAN
    BY <2>1
  <2>3. plain_count \in 0 .. MaxPlain
    BY UiAssumption DEF Init
  <2> QED
    BY <2>2, <2>3 DEF Init, WindowInv
<1> QED
  BY <1>5, <1>6, <1>7, InitIInv DEF FullInv

LEMMA NextFrame ==
  ASSUME IInv, FrameInv, Counted(hi), [Next]_vars
  PROVE  FrameInv' /\ Counted(hi')
<1>1. TreeInv
  BY DEF IInv
<1>2. ASSUME NEW click, NEW escape, ProcessEvents(click, escape)
      PROVE  FrameInv' /\ Counted(hi')
  <2>1. UNCHANGED <<hi, node_map, touched, built>> /\ phase # "build" /\ phase' # "build"
    BY <1>2 DEF ProcessEvents, tree
  <2> QED
    BY <2>1, SameFrame
<1>3. CASE CmdExecute
  <2>1. UNCHANGED <<hi, node_map, touched, built, phase>> /\ phase # "build"
    BY <1>3 DEF CmdExecute, tree
  <2> QED
    BY <2>1, SameFrame
<1>4. CASE FrameBegin
  BY <1>1, <1>4, FrameBeginFrame
<1>5. ASSUME NEW id \in Panels \cup {Plain}, PanelAlloc(id)
      PROVE  FrameInv' /\ Counted(hi')
  BY <1>1, <1>5, NodeAllocFrame DEF PanelAlloc, Hashed
<1>6. ASSUME NEW id \in Fields, NEW done \in BOOLEAN, FieldAlloc(id, done)
      PROVE  FrameInv' /\ Counted(hi')
  BY <1>1, <1>6, NodeAllocFrame, IdsAre DEF FieldAlloc
<1>7. CASE NodePop
  <2>1. hi' = hi
    BY <1>7 DEF NodePop
  <2> QED
    BY <1>1, <1>7, <2>1, NodePopFrame
<1>8. ASSUME NEW hovered, FrameEnd(hovered)
      PROVE  FrameInv' /\ Counted(hi')
  BY <1>1, <1>8, FrameEndFrame
<1>9. CASE UNCHANGED vars
  <2>1. UNCHANGED <<hi, node_map, touched, built, stack_parent, phase>>
    BY <1>9 DEF vars, tree
  <2>2. phase = "build" => \A i \in 2 .. Len(stack_parent') : stack_parent'[i] \in touched
    BY <2>1 DEF FrameInv
  <2> QED
    BY <2>1, <2>2, SameFrame
<1> QED
  BY <1>2, <1>3, <1>4, <1>5, <1>6, <1>7, <1>8, <1>9 DEF Next

LEMMA NextWindow ==
  ASSUME IInv', WindowInv, [Next]_vars
  PROVE  WindowInv'
<1> USE DEF WindowInv
<1>1. text_input_mode' = text_edit_mode'
  BY DEF IInv, TextModeCoherent
<1>2. ASSUME NEW click \in BOOLEAN, NEW escape \in BOOLEAN, ProcessEvents(click, escape)
      PROVE  WindowInv'
  BY <1>2 DEF ProcessEvents, tree, text
<1>3. CASE CmdExecute
  <2>1. text_edit_mode' \in {0, 1}
    BY <1>3 DEF CmdExecute, TextInputModeEnable, TextInputModeDisable, text
  <2> QED
    BY <1>1, <1>3, <2>1 DEF CmdExecute, tree, input
<1>4. CASE FrameBegin
  BY <1>4 DEF FrameBegin, text, input
<1>5. ASSUME NEW id, NodeAlloc(id)
      PROVE  WindowInv'
  BY <1>5, UiAssumption DEF NodeAlloc, input
<1>6. CASE NodePop
  BY <1>6 DEF NodePop, text, input
<1>7. ASSUME NEW hovered \in Fields \cup {None}, FrameEnd(hovered)
      PROVE  WindowInv'
  BY <1>7 DEF FrameEnd
<1>8. CASE UNCHANGED vars
  BY <1>8 DEF vars, tree, text, input
<1> QED
  BY <1>2, <1>3, <1>4, <1>5, <1>6, <1>7, <1>8 DEF Next, PanelAlloc, FieldAlloc

(* The inductive invariant of the types and of the nodes of a frame.       *)
THEOREM FullInvariance == Spec => []FullInv
<1>1. Init => FullInv
  BY InitFull
<1>2. FullInv /\ [Next]_vars => FullInv'
  <2> SUFFICES ASSUME FullInv, [Next]_vars
               PROVE  FullInv'
    OBVIOUS
  <2>1. IInv'
    BY NextIInv DEF FullInv
  <2>2. FrameInv' /\ Counted(hi')
    BY NextFrame DEF FullInv
  <2>3. WindowInv'
    BY <2>1, NextWindow DEF FullInv
  <2> QED
    BY <2>1, <2>2, <2>3 DEF FullInv
<1> QED
  BY <1>1, <1>2, PTL DEF Spec

(* The links of the hierarchy agree, the count of a node is the number of  *)
(* its children, and after a frame the pool holds the nodes the frame      *)
(* built, each where it was built (ui_NodeAlloc, hi_AdoptNodeExclusive,    *)
(* hi_ApplyCustomFreeAndRemove, ui_FrameEnd).                              *)
THEOREM TreeOfFrame == Spec => []FrameTreeExact
<1>1. FullInv => FrameTreeExact
  <2> SUFFICES ASSUME FullInv
               PROVE  FrameTreeExact
    OBVIOUS
  <2>1. FrameInv /\ Counted(hi) /\ Linked(hi)
    BY DEF FullInv, IInv, TreeInv
  <2>2. \A s \in Slots : hi[s].count = Cardinality({c \in InTree : hi[c].parent = s})
    BY <2>1 DEF Counted, Kids, InTree
  <2>3. ASSUME phase = "events", built # <<>>
        PROVE  /\ InTree = {built[i][1] : i \in DOMAIN built}
               /\ \A i \in DOMAIN built :
                    LET node == hi[built[i][1]]
                    IN /\ node.parent = IF i = 1 THEN HI_ORPHAN_STUB ELSE built[i][2]
                       /\ LastBuilt(node.prev, Under(built[i][2], i - 1))
                       /\ LastBuilt(node.last, Under(built[i][1], Len(built)))
               /\ hi[HI_ORPHAN_STUB].last = node_map[ROOT] /\ hi[HI_ROOT_STUB].last = HI_NULL
               /\ \A n \in Hashed : node_map[n] # HI_NULL => IsTouched(n)
    <3>1. /\ InTree = {built[i][1] : i \in DOMAIN built}
          /\ hi[HI_ORPHAN_STUB].last = node_map[ROOT] /\ hi[HI_ROOT_STUB].last = HI_NULL
          /\ \A n \in Hashed : node_map[n] # HI_NULL => IsTouched(n)
      BY <2>1, <2>3 DEF FrameInv
    <3>2. ASSUME NEW i \in DOMAIN built
          PROVE  /\ hi[built[i][1]].parent = IF i = 1 THEN HI_ORPHAN_STUB ELSE built[i][2]
                 /\ LastBuilt(hi[built[i][1]].prev, Under(built[i][2], i - 1))
                 /\ LastBuilt(hi[built[i][1]].last, Under(built[i][1], Len(built)))
      BY <2>1, <2>3 DEF FrameInv
    <3> QED
      BY <3>1, <3>2
  <2> QED
    BY <2>1, <2>2, <2>3 DEF FrameTreeExact
<1> QED
  BY <1>1, FullInvariance, PTL

(* What the frame reads has its type; in particular the nodes that are     *)
(* touched or pushed exist, and a field with the focus has a node          *)
(* (ui_NodeAlloc, ui_FrameEnd).                                            *)
THEOREM TypesKept == Spec => []TypeOK
<1>1. FullInv => TypeOK
  <2> SUFFICES ASSUME FullInv
               PROVE  TypeOK
    OBVIOUS
  <2>1. TreeInv /\ TextInv /\ Counted(hi) /\ WindowInv
    BY DEF FullInv, IInv
  <2>2. \A s \in Slots : /\ hi[s].parent \in Slots \cup {-1}
                         /\ {hi[s].prev, hi[s].next, hi[s].first, hi[s].last} \subseteq Slots
                         /\ hi[s].count \in 0 .. MaxSlots
    <3>1. hi \in [Slots -> Nodes]
      BY <2>1 DEF TreeInv, Linked
    <3>2. \A s \in Slots : hi[s].count \in 0 .. MaxSlots
      BY <2>1, KidsFinite DEF Counted
    <3> QED
      BY <3>1, <3>2 DEF Nodes
  <2>3. /\ touched \subseteq HiAllocated(hi) \ {HI_ORPHAN_STUB}
        /\ HI_ROOT_STUB \in HiAllocated(hi) \ {HI_ORPHAN_STUB}
    BY <2>1, StubsAllocated, SlotsAre DEF TreeInv, InTree
  <2>4. stack_parent \in Seq(HiAllocated(hi) \ {HI_ORPHAN_STUB})
    <3> DEFINE D == HiAllocated(hi) \ {HI_ORPHAN_STUB}
    <3>1. touched \cup {HI_ROOT_STUB} \subseteq D
      BY <2>3
    <3> HIDE DEF D
    <3>2. CASE phase = "build"
      <4>1. stack_parent \in Seq(touched \cup {HI_ROOT_STUB})
        BY <2>1, <3>2 DEF TreeInv
      <4> QED
        BY <3>1, <4>1 DEF D
    <3>3. CASE phase # "build"
      <4>1. stack_parent = <<HI_ROOT_STUB>> /\ HI_ROOT_STUB \in D
        BY <2>1, <3>1, <3>3 DEF TreeInv
      <4>2. stack_parent \in Seq(D)
        BY <4>1
      <4> QED
        BY <4>2 DEF D
    <3> QED
      BY <3>2, <3>3 DEF D
  <2> QED
    BY <2>1, <2>2, <2>3, <2>4 DEF TypeOK, TreeInv, TextInv, WindowInv
<1> QED
  BY <1>1, FullInvariance, PTL
===============================================================================
