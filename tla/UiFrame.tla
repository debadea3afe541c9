-------------------------------- MODULE UiFrame --------------------------------
(***************************************************************************)
(* A frame of the immediate-mode user interface (src/misc/ui) of a window: *)
(*                                                                         *)
(*   ds_ProcessEvents, CmdQueueExecute, ui_FrameBegin,                     *)
(*   the calls of ui_NodeAlloc and ui_NodePop that build the frame,        *)
(*   ui_FrameEnd.                                                          *)
(*                                                                         *)
(* Hashed nodes live on from frame to frame: after a frame its tree hangs  *)
(* under the orphan stub, the next frame adopts the nodes it builds again, *)
(* and its end prunes those it did not.  The fields among them take the    *)
(* focus.  The one of text_edit_id edits text: text_edit aliases its       *)
(* ui_TextInput, which is in the node, or external.  Focus goes and comes  *)
(* by commands that are queued in one frame and executed before the next.  *)
(*                                                                         *)
(* Left out: layout and drawing, what is hovered other than fields,        *)
(* recursive interactions, the text and the focused flag of a ui_TextInput *)
(* and the commands that edit it, nodes that are allocated but culled.     *)
(***************************************************************************)
EXTENDS HierarchyIndex, SequencesExt

CONSTANTS
  Panels,         (* hashed nodes that may have children                   *)
  Internal,       (* fields that edit the buffer of the ui                 *)
  External,       (* fields with a ui_TextInput of their own               *)
  None,           (* no id                                                 *)
  InitialLength,  (* slots of the pool before it grows                     *)
  MaxPlain,       (* bound: nodes without id, in all                       *)
  MaxNodes        (* bound: nodes of a frame, without its root             *)

Fields == Internal \cup External
ROOT == "root"
Plain == "plain"

ASSUME UiAssumption ==
  /\ Panels \cap Fields = {} /\ Internal \cap External = {}
  /\ {None, ROOT, Plain} \cap (Panels \cup Fields) = {}
  /\ InitialLength \in Nat /\ InitialLength > 2
  /\ MaxPlain \in Nat /\ MaxNodes \in Nat

Hashed == Panels \cup Fields \cup {ROOT}

VARIABLES
  hi,               (* node_hierarchy ...                                  *)
  length,           (* ... and the length of its pool                      *)
  node_map,         (* the slot of each hashed node, HI_NULL if none       *)
  touched,          (* the slots with last_frame_touched = frame           *)
  stack_parent,
  focus,            (* the fields with UI_INTER_FOCUS set                  *)
  node_hovered,     (* the field that is hovered, or None                  *)
  clicked,          (* button_clicked and key_clicked, until the frame     *)
  escaped,          (* ends                                                *)
  text_edit_mode, text_edit_id, text_edit,
  text_input_mode,  (* of the window                                       *)
  cmd_list,
  phase,
  built,            (* the nodes of this frame, with their parents         *)
  plain_count       (* nodes without id so far, for the bound              *)

tree == <<hi, length, node_map, touched, stack_parent, built, plain_count>>
text == <<text_edit_mode, text_edit_id, text_edit, text_input_mode>>
input == <<node_hovered, clicked, escaped>>
vars == <<tree, text, input, focus, cmd_list, phase>>

(* Addresses.  The pool moves when it grows, so the slot and the length    *)
(* name the address of a node.                                             *)
Stub == [at |-> None, in |-> 0]
Address(id) == IF id \in External THEN [at |-> id, in |-> 0]
               ELSE [at |-> node_map[id], in |-> length]

Enable(id, ptr) == [call |-> "ui_TextInputModeEnable", id |-> id, ptr |-> ptr]
Disable(id) == [call |-> "ui_TextInputModeDisable", id |-> id, ptr |-> Stub]

TypeOK ==
  /\ \A s \in Slots : /\ hi[s].parent \in Slots \cup {-1}
                      /\ {hi[s].prev, hi[s].next, hi[s].first, hi[s].last} \subseteq Slots
                      /\ hi[s].count \in 0 .. MaxSlots
  /\ length \in Nat
  /\ node_map \in [Hashed -> Slots]
  /\ touched \subseteq HiAllocated(hi) /\ HiAllocated(hi) \subseteq 0 .. length - 1
  /\ stack_parent \in Seq(HiAllocated(hi) \ {HI_ORPHAN_STUB})
  /\ focus \subseteq {f \in Fields : node_map[f] # HI_NULL}
  /\ node_hovered \in Fields \cup {None}
  /\ {clicked, escaped} \subseteq BOOLEAN
  /\ text_edit_mode \in {0, 1} /\ text_input_mode \in {0, 1}
  /\ text_edit_id \in Fields \cup {None}
  /\ phase \in {"events", "commands", "build"} /\ plain_count \in 0 .. MaxPlain

Init ==
  /\ hi = HiInit /\ length = InitialLength
  /\ node_map = [n \in Hashed |-> HI_NULL]
  /\ touched = {} /\ stack_parent = <<HI_ROOT_STUB>> /\ built = <<>>
  /\ plain_count = 0 /\ focus = {} /\ node_hovered = None /\ clicked = FALSE /\ escaped = FALSE
  /\ text_edit_mode = 0 /\ text_edit_id = None /\ text_edit = Stub /\ text_input_mode = 0
  /\ cmd_list = <<>> /\ phase = "events"

-------------------------------------------------------------------------------
(* Events and commands                                                     *)

(* ds_ProcessEvents: a click, escape, neither or both.  Escape leaves text *)
(* mode.                                                                   *)
ProcessEvents(click, escape) ==
  /\ phase = "events"
  /\ clicked' = click /\ escaped' = escape
  /\ cmd_list' = IF escape /\ text_edit_mode = 1
                 THEN Append(cmd_list, Disable(text_edit_id)) ELSE cmd_list
  /\ phase' = "commands"
  /\ UNCHANGED <<tree, text, focus, node_hovered>>

(* The node of id, if there is one, loses the focus.                       *)
Unfocus(id) == focus' = focus \ {id}

HasNode(id) == id # None /\ node_map[id] # HI_NULL

TextInputModeEnable(id, ptr) ==
  /\ IF HasNode(text_edit_id) THEN Unfocus(text_edit_id) /\ UNCHANGED text_input_mode
     ELSE text_input_mode' = 1 /\ UNCHANGED focus
  /\ text_edit_mode' = 1 /\ text_edit_id' = id /\ text_edit' = ptr

TextInputModeDisable(id) ==
  IF id = text_edit_id
  THEN /\ text_input_mode' = 0
       /\ Unfocus(id)
       /\ text_edit_mode' = 0 /\ text_edit_id' = None /\ text_edit' = Stub
  ELSE UNCHANGED <<text, focus>>

(* CmdQueueExecute: one command after the other.                           *)
CmdExecute ==
  /\ phase = "commands" /\ cmd_list # <<>>
  /\ LET cmd == Head(cmd_list)
     IN IF cmd.call = "ui_TextInputModeEnable" THEN TextInputModeEnable(cmd.id, cmd.ptr)
        ELSE TextInputModeDisable(cmd.id)
  /\ cmd_list' = Tail(cmd_list)
  /\ UNCHANGED <<tree, input, phase>>

-------------------------------------------------------------------------------
(* Building a frame                                                        *)

(* ds_PoolAdd: the pool grows when it is full.                             *)
FreeSlots == (0 .. length - 1) \ HiAllocated(hi)
NewSlot == IF FreeSlots = {} THEN length ELSE Min(FreeSlots)
LengthAfterAdd == IF FreeSlots = {} THEN 2 * length ELSE length

(* The part of ui_NodeAlloc that gives id a node under parent: a hashed    *)
(* node of the last frame is adopted, any other is added.                  *)
SlotFor(id) == IF id # Plain /\ node_map[id] # HI_NULL THEN node_map[id] ELSE NewSlot

Place(id, parent) ==
  /\ SlotFor(id) \in Slots
  /\ IF id # Plain /\ node_map[id] # HI_NULL
     THEN hi' = AdoptNodeExclusive(hi, node_map[id], parent) /\ UNCHANGED <<length, node_map>>
     ELSE /\ hi' = HiAdd(hi, NewSlot, parent)
          /\ length' = LengthAfterAdd
          /\ node_map' = IF id = Plain THEN node_map ELSE [node_map EXCEPT ![id] = NewSlot]

(* ui_NodeSetInteractions, for the focus of a field of the last frame.     *)
Focused(id) ==
  /\ node_map[id] # HI_NULL
  /\ (id \in focus /\ ~escaped) \/ (node_hovered = id /\ clicked)

(* ui_NodeAlloc of a field.  One that gains the focus asks for text mode;  *)
(* one that keeps it and is external renews the alias; one that has it may *)
(* be done with it, when enter is pressed (the ui_Field functions).        *)
Field(id, done) ==
  LET focus_in == Focused(id) /\ id \notin focus
      enable == IF focus_in THEN <<Enable(id, Address(id))>> ELSE <<>>
      disable == IF done THEN <<Disable(id)>> ELSE <<>>
  IN /\ done => Focused(id) /\ id \in Internal
     /\ focus' = IF Focused(id) THEN focus \cup {id} ELSE focus \ {id}
     /\ text_edit' = IF Focused(id) /\ ~focus_in /\ id \in External THEN Address(id) ELSE text_edit
     /\ cmd_list' = cmd_list \o enable \o disable

FrameBegin ==
  /\ phase = "commands" /\ cmd_list = <<>>
  /\ Place(ROOT, HI_ROOT_STUB)
  /\ touched' = {SlotFor(ROOT)} /\ built' = <<<<SlotFor(ROOT), HI_ROOT_STUB>>>>
  /\ stack_parent' = Append(stack_parent, SlotFor(ROOT))
  /\ phase' = "build"
  /\ UNCHANGED <<text, input, focus, cmd_list, plain_count>>

IsTouched(id) == id # Plain /\ node_map[id] \in touched

(* A call of ui_NodeAlloc; ui_NodePush follows for a node with children.   *)
(* An id is used once in a frame.                                          *)
NodeAlloc(id) ==
  /\ phase = "build" /\ Len(built) <= MaxNodes
  /\ ~IsTouched(id)
  /\ plain_count' = plain_count + (IF id = Plain THEN 1 ELSE 0) /\ plain_count' <= MaxPlain
  /\ Place(id, Last(stack_parent))
  /\ touched' = touched \cup {SlotFor(id)}
  /\ built' = Append(built, <<SlotFor(id), Last(stack_parent)>>)
  /\ UNCHANGED <<text_edit_mode, text_edit_id, text_input_mode, input, phase>>

PanelAlloc(id) ==
  /\ NodeAlloc(id)
  /\ stack_parent' \in {stack_parent, Append(stack_parent, SlotFor(id))}
  /\ UNCHANGED <<focus, text_edit, cmd_list>>

FieldAlloc(id, done) ==
  /\ NodeAlloc(id)
  /\ Field(id, done)
  /\ UNCHANGED stack_parent

NodePop ==
  /\ phase = "build" /\ Len(stack_parent) > 2
  /\ stack_parent' = Front(stack_parent)
  /\ UNCHANGED <<hi, length, node_map, touched, built, plain_count, text, input, focus, cmd_list, phase>>

-------------------------------------------------------------------------------
(* ui_FrameEnd                                                             *)

(* What the frame does about the node that edits text.                     *)
TextEditStep_NoRenew ==
  IF HasNode(text_edit_id) /\ (~IsTouched(text_edit_id) \/ text_edit_id \notin focus)
  THEN cmd_list' = Append(cmd_list, Disable(text_edit_id)) /\ UNCHANGED text_edit
  ELSE UNCHANGED <<text_edit, cmd_list>>

TextEditStep ==
  IF ~HasNode(text_edit_id) THEN UNCHANGED <<text_edit, cmd_list>>
  ELSE IF ~IsTouched(text_edit_id) \/ text_edit_id \notin focus
  THEN cmd_list' = Append(cmd_list, Disable(text_edit_id)) /\ UNCHANGED text_edit
  ELSE /\ text_edit' = IF text_edit_id \in Internal THEN Address(text_edit_id) ELSE text_edit
       /\ UNCHANGED cmd_list

(* The children of the orphan stub are pruned with their descendants, one  *)
(* after the other; the next is read before the node is removed.           *)
NextOrphan(p) == p.left[p.index].next

PruneOne(p) ==
  IF p.index = HI_NULL THEN p
  ELSE [left |-> RemoveSubHierarchy(p.left, p.index), index |-> NextOrphan(p)]
Prune[n \in 0 .. MaxSlots] ==
  IF n = 0 THEN [left |-> hi, index |-> hi[HI_ORPHAN_STUB].first] ELSE PruneOne(Prune[n - 1])
Pruned == Prune[MaxSlots].left

FrameEnd(hovered) ==
  LET pruned == Pruned
      kept == HiAllocated(pruned)
  IN /\ phase = "build" /\ Len(stack_parent) = 2
     /\ hovered # None => IsTouched(hovered)
     /\ node_hovered' = hovered /\ clicked' = FALSE /\ escaped' = FALSE
     /\ TextEditStep
     /\ hi' = AdoptNode(pruned, node_map[ROOT], HI_ORPHAN_STUB)
     /\ node_map' = [n \in Hashed |-> IF node_map[n] \in kept THEN node_map[n] ELSE HI_NULL]
     /\ focus' = {f \in focus : node_map[f] \in kept}
     /\ stack_parent' = Front(stack_parent)
     /\ phase' = "events"
     /\ UNCHANGED <<length, touched, built, plain_count, text_edit_mode, text_edit_id, text_input_mode>>

Next ==
  \/ \E click, escape \in BOOLEAN : ProcessEvents(click, escape)
  \/ CmdExecute
  \/ FrameBegin
  \/ \E id \in Panels \cup {Plain} : PanelAlloc(id)
  \/ \E id \in Fields, done \in BOOLEAN : FieldAlloc(id, done)
  \/ NodePop
  \/ \E hovered \in Fields \cup {None} : FrameEnd(hovered)

Spec == Init /\ [][Next]_vars

-------------------------------------------------------------------------------
(* Properties                                                              *)

(* The places in built, up to the n-th, of the nodes under parent.         *)
Under(parent, n) == {i \in 1 .. n : built[i][2] = parent}

(* s is the node built at the last of these places, or none.               *)
LastBuilt(s, places) ==
  IF places = {} THEN s = HI_NULL
  ELSE \E i \in places : s = built[i][1] /\ \A j \in places : j <= i

InTree == HiAllocated(hi) \ {HI_ROOT_STUB, HI_ORPHAN_STUB}

(* The links of the hierarchy agree and end at all times, and the count of *)
(* a node is the number of its children.  After a frame the pool holds the *)
(* nodes the frame built, and no other: its end prunes every node of the   *)
(* last one that was not built again, also when nodes below it were; each  *)
(* node hangs under the parent it was built with, after the sibling built  *)
(* before it, and the last child is the last that was built, so a walk     *)
(* meets the children in the order of the frame; and the map knows those   *)
(* that are hashed (ui_NodeAlloc, hi_AdoptNodeExclusive,                   *)
(* hi_ApplyCustomFreeAndRemove, ui_FrameEnd).                              *)
FrameTreeExact ==
  /\ Linked(hi)
  /\ \A s \in Slots : hi[s].count = Cardinality({c \in InTree : hi[c].parent = s})
  /\ phase = "events" /\ built # <<>> =>
       /\ InTree = {built[i][1] : i \in DOMAIN built}
       /\ \A i \in DOMAIN built :
            LET node == hi[built[i][1]]
            IN /\ node.parent = IF i = 1 THEN HI_ORPHAN_STUB ELSE built[i][2]
               /\ LastBuilt(node.prev, Under(built[i][2], i - 1))
               /\ LastBuilt(node.last, Under(built[i][1], Len(built)))
       /\ hi[HI_ORPHAN_STUB].last = node_map[ROOT] /\ hi[HI_ROOT_STUB].last = HI_NULL
       /\ \A n \in Hashed : node_map[n] # HI_NULL => IsTouched(n)

Pending(cmd) == \E i \in 1 .. Len(cmd_list) : cmd_list[i] = cmd
PendingEnable(id) == \E i \in 1 .. Len(cmd_list) : cmd_list[i].call = Enable(id, Stub).call /\ cmd_list[i].id = id

(* Between frames text mode, its field, the focus and the window agree up  *)
(* to the commands that are queued: the field that edits text has the      *)
(* focus and its alias is the address it has now, or its end is queued;    *)
(* any other field with the focus has its turn queued (ui_FrameEnd,        *)
(* ui_TextInputModeEnable, ui_TextInputModeDisable, ui_NodeAlloc).         *)
TextModeCoherent ==
  /\ (text_edit_mode = 1) = (text_edit_id # None)
  /\ text_input_mode = text_edit_mode
  /\ \A f \in focus \ {text_edit_id} : PendingEnable(f)
  /\ phase = "events" /\ text_edit_id # None =>
       \/ Pending(Disable(text_edit_id))
       \/ text_edit_id \in focus /\ text_edit = Address(text_edit_id)
  /\ phase = "commands" /\ text_edit_id \notin focus \cup {None} => Pending(Disable(text_edit_id))

(* The inductive invariant of TextModeCoherent.  The tree: the nodes that  *)
(* are hashed, touched or pushed exist, and what a frame has built hangs   *)
(* under its root, out of the reach of the pruning.                        *)
TreeInv ==
  /\ phase \in {"events", "commands", "build"}
  /\ Linked(hi)
  /\ length \in Nat /\ HiAllocated(hi) \subseteq 0 .. length - 1
  /\ node_map \in [Hashed -> Slots]
  /\ \A n \in Hashed : node_map[n] # HI_NULL => node_map[n] \in InTree
  /\ touched \subseteq InTree
  /\ phase # "build" => stack_parent = <<HI_ROOT_STUB>>
  /\ phase = "build" =>
       /\ stack_parent \in Seq(touched \cup {HI_ROOT_STUB}) /\ Len(stack_parent) > 1
       /\ stack_parent[1] = HI_ROOT_STUB
       /\ node_map[ROOT] \in touched
       /\ \A t \in touched : hi[t].parent \in touched \cup {HI_ROOT_STUB}

(* And of FrameTreeExact.  The links of the nodes built so far are as      *)
(* they were built; a node of the last frame that was not is under another *)
(* one, or under the orphan stub, where the pruning will find it.          *)
FrameInv ==
  /\ built \in Seq(Slots \X Slots)
  /\ touched = {built[i][1] : i \in DOMAIN built}
  /\ \A i \in DOMAIN built :
       /\ i = 1 => built[i] = <<node_map[ROOT], HI_ROOT_STUB>>
       /\ i # 1 => built[i][2] \in touched /\ hi[built[i][1]].parent = built[i][2]
       /\ LastBuilt(hi[built[i][1]].prev, Under(built[i][2], i - 1))
       /\ LastBuilt(hi[built[i][1]].last, Under(built[i][1], Len(built)))
  /\ phase = "build" =>
       /\ built # <<>>
       /\ hi[node_map[ROOT]].parent = HI_ROOT_STUB /\ hi[HI_ROOT_STUB].last = node_map[ROOT]
       /\ \A i \in 2 .. Len(stack_parent) : stack_parent[i] \in touched
       /\ \A s \in InTree \ touched : hi[s].parent \notin touched \cup {HI_ROOT_STUB}
  /\ phase # "build" =>
       /\ InTree = touched /\ hi[HI_ROOT_STUB].last = HI_NULL
       /\ built # <<>> => /\ hi[node_map[ROOT]].parent = HI_ORPHAN_STUB
                         /\ hi[HI_ORPHAN_STUB].last = node_map[ROOT]
       /\ \A n \in Hashed : node_map[n] # HI_NULL => IsTouched(n)

Commands == [call : {"ui_TextInputModeEnable", "ui_TextInputModeDisable"},
             id : Fields \cup {None}, ptr : [at : Slots \cup External \cup {None}, in : Nat]]
Enables(i) == cmd_list[i].call = "ui_TextInputModeEnable"

(* The text: a field whose turn is queued has the focus and is not edited, *)
(* its turn is queued once, and its node is one of the frame; an external  *)
(* alias does not move; and the field that is edited keeps its node until  *)
(* the end of the frame.                                                   *)
TurnSound(i) ==
  LET id == cmd_list[i].id
  IN /\ id \in focus \ {text_edit_id}
     /\ id \in External => cmd_list[i].ptr = Address(id)
     /\ phase = "build" => IsTouched(id)
     /\ \A j \in 1 .. Len(cmd_list) : Enables(j) /\ cmd_list[j].id = id => i = j

TextInv ==
  /\ cmd_list \in Seq(Commands)
  /\ text_edit_id \in Fields \cup {None}
  /\ focus \subseteq {f \in Fields : node_map[f] # HI_NULL}
  /\ \A i \in 1 .. Len(cmd_list) : Enables(i) => TurnSound(i)
  /\ text_edit_id \in External => text_edit = Address(text_edit_id)
  /\ phase = "build" /\ text_edit_id # None =>
       HasNode(text_edit_id) /\ (IsTouched(text_edit_id) \/ text_edit_id \in focus)

IInv == TreeInv /\ TextInv /\ TextModeCoherent

(* The alias of the ui is the stub, external, or in a node that exists,    *)
(* when commands may use it: the subsystem that owns it lives on for a     *)
(* frame (include/ds_ui.h, "Text input handling").                         *)
AliasAlive ==
  phase = "commands" =>
    text_edit \in {Stub} \cup {Address(f) : f \in External}
               \cup {Address(f) : f \in {n \in Internal : node_map[n] # HI_NULL}}
===============================================================================
