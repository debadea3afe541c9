---------------------------- MODULE HierarchyIndex ----------------------------
(***************************************************************************)
(* The hierarchy index (src/containers/hierarchy_index.c): trees whose     *)
(* nodes live in a pool and know their parent, their siblings and their    *)
(* first and last child by index.  A hierarchy is a function from the      *)
(* slots of the pool to nodes.                                             *)
(*                                                                         *)
(* The code uses slot 0 both as the root stub and as the null index, so    *)
(* it writes the prev and next of slot 0 where a sibling is missing; they  *)
(* are never read and stay HI_NULL here.  The pool hands out its least     *)
(* free slot.                                                              *)
(***************************************************************************)
EXTENDS Integers, Sequences, FiniteSets, FiniteSetsExt

CONSTANT MaxSlots  (* bound: slots of the pool                            *)

ASSUME HierarchyAssumption == MaxSlots \in Nat /\ MaxSlots > 2

Slots == 0 .. MaxSlots - 1

HI_NULL == 0
HI_ROOT_STUB == 0
HI_ORPHAN_STUB == 1

(* A free slot, and a node without relatives.                              *)
Free == [parent |-> -1, prev |-> 0, next |-> 0, first |-> 0, last |-> 0, count |-> 0]
Alone == [Free EXCEPT !.parent = HI_NULL]

HiInit == [s \in Slots |-> IF s \in {HI_ROOT_STUB, HI_ORPHAN_STUB} THEN Alone ELSE Free]

HiAllocated(h) == {s \in Slots : h[s] # Free}

(* Writes to the prev and next of a sibling, which may be missing.         *)
SetPrev(h, s, to) == IF s = HI_NULL THEN h ELSE [h EXCEPT ![s].prev = to]
SetNext(h, s, to) == IF s = HI_NULL THEN h ELSE [h EXCEPT ![s].next = to]

(* Make node, whose children are kept, the last child of parent.           *)
AppendChild(h, node, parent) ==
  LET last == h[parent].last
      linked == SetNext([h EXCEPT ![node].parent = parent, ![node].prev = last,
                                  ![node].next = HI_NULL], last, node)
  IN [linked EXCEPT ![parent].count = @ + 1, ![parent].last = node,
                    ![parent].first = IF last = HI_NULL THEN node ELSE @]

HiAdd(h, new, parent) == AppendChild([h EXCEPT ![new] = Alone], new, parent)

(* Take node out of the list of its parent.                                *)
Unlink(h, node) ==
  LET n == h[node]
      p == h[n.parent]
      linked == SetNext(SetPrev(h, n.next, n.prev), n.prev, n.next)
      ends == IF p.first = p.last THEN <<HI_NULL, HI_NULL>>
              ELSE IF p.first = node THEN <<n.next, p.last>>
              ELSE IF p.last = node THEN <<p.first, n.prev>>
              ELSE <<p.first, p.last>>
  IN [linked EXCEPT ![n.parent].first = ends[1], ![n.parent].last = ends[2],
                    ![n.parent].count = @ - 1]

(* hi_AdoptNode: node moves with its descendants.                          *)
AdoptNode(h, node, new_parent) == AppendChild(Unlink(h, node), node, new_parent)

(* The children of node take its place in the list of its parent.          *)
Splice_OneWay(h, node) ==
  LET n == h[node]
      p == h[n.parent]
      head == IF n.first = HI_NULL THEN n.next ELSE n.first
      tail == IF n.last = HI_NULL THEN n.prev ELSE n.last
      joined == SetNext(SetNext(SetPrev(h, n.next, tail), n.prev, head), n.last, n.next)
  IN [joined EXCEPT ![n.parent].first = IF p.first = node THEN head ELSE @,
                    ![n.parent].last  = IF p.last = node THEN tail ELSE @]

Splice(h, node) ==
  LET n == h[node]
      p == h[n.parent]
      head == IF n.first = HI_NULL THEN n.next ELSE n.first
      tail == IF n.last = HI_NULL THEN n.prev ELSE n.last
      outer == SetNext(SetPrev(h, n.next, tail), n.prev, head)
      joined == SetNext(SetPrev(outer, n.first, n.prev), n.last, n.next)
  IN [joined EXCEPT ![n.parent].first = IF p.first = node THEN head ELSE @,
                    ![n.parent].last  = IF p.last = node THEN tail ELSE @]

(* hi_AdoptNodeExclusive: node moves alone, and its children stay with its *)
(* old parent.                                                             *)
AdoptNodeExclusive_Uncounted(h, node, new_parent) ==
  LET old_parent == h[node].parent
      counted == [h EXCEPT ![old_parent].count = @ - 1]
      spliced == Splice(counted, node)
      left == [s \in Slots |->
                IF s = node THEN Alone
                ELSE IF h[s].parent = node THEN [spliced[s] EXCEPT !.parent = old_parent]
                ELSE spliced[s]]
  IN AppendChild(left, node, new_parent)

AdoptNodeExclusive(h, node, new_parent) ==
  LET old_parent == h[node].parent
      counted == [h EXCEPT ![old_parent].count = @ + h[node].count - 1]
      spliced == Splice(counted, node)
      left == [s \in Slots |->
                IF s = node THEN Alone
                ELSE IF h[s].parent = node THEN [spliced[s] EXCEPT !.parent = old_parent]
                ELSE spliced[s]]
  IN AppendChild(left, node, new_parent)

(* node and its descendants.                                               *)
SubHierarchy(h, node) ==
  LET Within[depth \in 0 .. MaxSlots] ==
        IF depth = 0 THEN {node}
        ELSE LET nearer == Within[depth - 1]
             IN nearer \cup {s \in Slots : h[s] # Free /\ h[s].parent \in nearer /\ s > HI_ORPHAN_STUB}
  IN Within[Cardinality(HiAllocated(h))]

(* hi_ApplyCustomFreeAndRemove: node is removed with its descendants.      *)
RemoveSubHierarchy(h, node) ==
  LET removed == SubHierarchy(h, node)
      unlinked == Unlink(h, node)
  IN [s \in Slots |-> IF s \in removed THEN Free ELSE unlinked[s]]

(* What the operations keep of any hierarchy: siblings know each other and *)
(* have the same parent, which is allocated; the ends of a list know their *)
(* parent; the stubs are in no list; and no way along the siblings or up   *)
(* the parents turns back on itself.                                       *)
Nodes == [parent : Slots \cup {-1}, prev : Slots, next : Slots, first : Slots, last : Slots,
          count : Int]

ListsEnd(h, but) ==
  \A S \in SUBSET (Slots \ but) : S # {} => \E s \in S : h[s].next \notin S
ParentsEnd(h, but) ==
  \A S \in SUBSET (Slots \ but) : S # {} => \E s \in S : h[s].parent \notin S

(* A node has a first child if and only if it has a last one, and they are *)
(* the children without previous, or next, sibling.                        *)
EndsKnown(h, but) ==
  /\ \A s \in Slots : h[s].first = HI_NULL <=> h[s].last = HI_NULL
  /\ \A s \in HiAllocated(h) \ but :
       /\ h[s].prev = HI_NULL => h[h[s].parent].first = s
       /\ h[s].next = HI_NULL => h[h[s].parent].last = s

Linked(h) ==
  /\ h \in [Slots -> Nodes]
  /\ \A s \in {HI_ROOT_STUB, HI_ORPHAN_STUB} :
       h[s].parent = HI_NULL /\ h[s].prev = HI_NULL /\ h[s].next = HI_NULL
  /\ \A s \in Slots : h[s] = Free \/ h[s].parent \in HiAllocated(h)
  /\ \A s \in Slots : HI_ORPHAN_STUB \notin {h[s].first, h[s].last}
  /\ \A s \in Slots, t \in Slots \ {HI_NULL} :
       /\ h[s].next = t => h[t].prev = s /\ h[t].parent = h[s].parent
       /\ h[s].prev = t => h[t].next = s /\ h[t].parent = h[s].parent
       /\ h[s].first = t => h[t].prev = HI_NULL /\ h[t].parent = s
       /\ h[s].last = t => h[t].next = HI_NULL /\ h[t].parent = s
  /\ EndsKnown(h, {HI_ROOT_STUB, HI_ORPHAN_STUB})
  /\ ListsEnd(h, {HI_NULL}) /\ ParentsEnd(h, {HI_ROOT_STUB, HI_ORPHAN_STUB})
===============================================================================
