-------------------------------- MODULE Islands --------------------------------
(***************************************************************************)
(* The dynamics pipeline (src/math/dynamics): rigid bodies, the contacts   *)
(* between them, and the islands that group touching bodies, put them to   *)
(* sleep together and are solved in parallel.  A tick is                   *)
(*                                                                         *)
(*   UpdateSolverConfig, CollisionDetection, MergeIslands,                 *)
(*   SplitIslandsAndRemoveContacts, SolveIslands,                          *)
(*                                                                         *)
(* and bodies are added and removed between ticks.  What collides is up to *)
(* the environment, except that two bodies that have not moved go on       *)
(* touching or not touching.                                               *)
(*                                                                         *)
(* A body has one shape.  Lists of bodies and of contacts are sets.  An    *)
(* island is named by one of its bodies in place of its pool index, and an *)
(* island without bodies is an unallocated one.  Slots of contacts keep    *)
(* their numbers, which the bit vectors of the contact database use; the   *)
(* smallest free slot is allocated first.                                  *)
(***************************************************************************)
EXTENDS Integers, FiniteSets, FiniteSetsExt, Functions

CONSTANTS
  Dynamic,      (* the indices dynamic bodies may have                     *)
  Static,       (* the indices static bodies may have                      *)
  InitialSize,  (* initial length of the contact pool and its bit vectors  *)
  Threshold,    (* ticks of low velocity after which an island may sleep   *)
  MaxTouching,  (* bound: pairs of bodies that touch at a time             *)
  MaxEdits      (* bound: bodies added and removed, and sleep switched     *)

ASSUME DynamicsAssumption ==
  /\ Dynamic \subseteq Nat /\ IsFiniteSet(Dynamic)
  /\ Static \subseteq Nat /\ IsFiniteSet(Static)
  /\ Dynamic \cap Static = {}
  /\ InitialSize \in Nat \ {0} /\ Threshold \in Nat \ {0}
  /\ MaxTouching \in Nat /\ MaxEdits \in Nat

Bodies == Dynamic \cup Static
Keys == {{b, d} : b, d \in Bodies} \ {{b} : b \in Bodies}

(* In a tick the contacts of the last one are still there.  Slot 0 is not  *)
(* used.                                                                   *)
Slots == 1 .. 2 * MaxTouching

(* ISLAND_STATIC, and the island_index of a slot that holds no body.       *)
ISLAND_STATIC == -1
ISLAND_NULL == -2

Unallocated == [flags |-> {}, bodies |-> {}, contacts |-> {}]

VARIABLES
  sleep_enabled,
  bodies,            (* the allocated bodies                               *)
  island_index,
  rb_awake,          (* the bodies with RB_AWAKE set                       *)
  low_velocity_time, (* in ticks, up to Threshold                          *)
  island,            (* flags, body_list and contact_list of each island   *)
  key,               (* the bodies of each contact, {} for a free slot     *)
  persistent,        (* contact_persistent_usage: its bits ...             *)
  bit_count,         (* ... and their number                               *)
  frame,             (* contact_frame_usage: its bits ...                  *)
  frame_bit_count,   (* ... and their number                               *)
  contact_new,       (* the new contacts MergeIslands has yet to handle    *)
  pc,                (* where PhysicsPipelineTick is                       *)
  moved,             (* bodies integrated since their proxy was updated    *)
  added,             (* bodies added since the last collision detection    *)
  failed,            (* whether an assertion of the code has failed        *)
  edits              (* number of edits so far, up to MaxEdits             *)

bodyVars    == <<bodies, island_index, rb_awake, low_velocity_time>>
contactVars == <<key, persistent, bit_count, frame, frame_bit_count, contact_new>>
worldVars   == <<moved, added>>
vars == <<sleep_enabled, bodyVars, island, contactVars, pc, worldVars, failed, edits>>

Init ==
  /\ sleep_enabled = TRUE
  /\ bodies = {}
  /\ island_index = [b \in Bodies |-> ISLAND_NULL]
  /\ rb_awake = {}
  /\ low_velocity_time = [b \in Bodies |-> 0]
  /\ island = [i \in Dynamic |-> Unallocated]
  /\ key = [c \in Slots |-> {}]
  /\ persistent = {} /\ bit_count = InitialSize
  /\ frame = {} /\ frame_bit_count = 0
  /\ contact_new = {}
  /\ pc = "idle"
  /\ moved = {} /\ added = {}
  /\ failed = FALSE /\ edits = 0

Islands == {i \in Dynamic : island[i].bodies # {}}
Contacts == {c \in Slots : key[c] # {}}
ContactsOf(b) == {c \in Slots : b \in key[c]}
DynamicBodies(c) == key[c] \cap Dynamic
Awake(i) == "awake" \in island[i].flags

(***************************************************************************)
(* Conditions and updates, each after its faulty variants.                 *)
(***************************************************************************)
(* The flags of an island that is set up.                                  *)
NewFlags == IF sleep_enabled THEN {"awake", "reset"} ELSE {}

(* The flags of the expanded island after a merge.                         *)
MergedFlags_Unwoken(expand, merge) == island[expand].flags
MergedFlags(expand, merge) ==
  IF sleep_enabled
     /\ (~Awake(expand) \/ ~Awake(merge)
           \/ "try_sleep" \in island[expand].flags \cup island[merge].flags)
    THEN {"awake", "reset"}
    ELSE island[expand].flags

WokenFlags_Unwoken(flags) == flags
WokenFlags(flags) == (flags \ {"split"}) \cup {"awake", "reset"}

NeedsSplit_Never(c) == FALSE
NeedsSplit(c) == key[c] \subseteq Dynamic

(* Whether SplitIsland takes a contact for one of this frame.              *)
InFrame(c) == c >= frame_bit_count \/ c \in frame

(* The bits set for the region by which the bit vector has grown.          *)
GrownBits_Cleared(count_max) == {}
GrownBits(count_max) == bit_count .. count_max - 1

AwakeAfterSolve_Forgotten(awake, solved) == awake
AwakeAfterSolve(awake, solved) == awake \cup solved

LowTime_Overrun(time) == time + 1
LowTime(time) == Min({time + 1, Threshold})

(***************************************************************************)
(* isdb_SplitIsland, for every island in I: the bodies that contacts still *)
(* connect form a new island, which gets their contacts of this frame.     *)
(***************************************************************************)
Component(b, members, keys) ==
  LET reach[n \in 0 .. Cardinality(members)] ==
        IF n = 0 THEN {b}
        ELSE LET near == reach[n - 1]
             IN  near \cup {d \in members : \E e \in near : {d, e} \in keys}
  IN  reach[Cardinality(members)]

SplitIslands(I, isl, k, removed) ==
  LET new == [b \in UNION {isl[i].bodies : i \in I} |->
                Min(Component(b, isl[island_index[b]].bodies, Range(k)))]
      contacts == {c \in UNION {isl[i].contacts : i \in I} : InFrame(c)}
  IN  /\ island_index' = [b \in Bodies |-> IF b \in removed THEN ISLAND_NULL
                                           ELSE IF b \in DOMAIN new THEN new[b]
                                           ELSE island_index[b]]
      /\ island' =
           [i \in Dynamic |->
              IF i \in Range(new)
                THEN [flags |-> NewFlags,
                      bodies |-> {b \in DOMAIN new : new[b] = i},
                      contacts |-> {c \in contacts :
                                      \E b \in k[c] \cap DOMAIN new : new[b] = i}]
              ELSE IF i \in I THEN Unallocated ELSE isl[i]]

(***************************************************************************)
(* Between ticks                                                           *)
(***************************************************************************)
Edit == edits < MaxEdits /\ edits' = edits + 1

(* ds_RigidBodyAdd, and ds_ShapeAdd for its shape.                         *)
AddBody(b) ==
  /\ pc = "idle" /\ Edit
  /\ b \in {Min(kind \ bodies) : kind \in {k \in {Dynamic, Static} : ~(k \subseteq bodies)}}
  /\ bodies' = bodies \cup {b} /\ added' = added \cup {b}
  /\ rb_awake' = IF sleep_enabled THEN rb_awake \cup {b} ELSE rb_awake \ {b}
  /\ low_velocity_time' = [low_velocity_time EXCEPT ![b] = 0]
  /\ island_index' = [island_index EXCEPT ![b] = IF b \in Dynamic THEN b ELSE ISLAND_STATIC]
  /\ island' = IF b \in Dynamic
                 THEN [island EXCEPT ![b] = [flags |-> NewFlags, bodies |-> {b},
                                             contacts |-> {}]]
                 ELSE island
  /\ UNCHANGED <<sleep_enabled, contactVars, pc, moved, failed>>

(* The parts of a removal that the bodies of both kinds share.             *)
FreeBody(b) ==
  /\ pc = "idle" /\ b \in bodies /\ Edit
  /\ bodies' = bodies \ {b}
  /\ rb_awake' = rb_awake \ {b}
  /\ low_velocity_time' = [low_velocity_time EXCEPT ![b] = 0]
  /\ key' = [c \in Slots |-> IF b \in key[c] THEN {} ELSE key[c]]
  /\ persistent' = persistent \ ContactsOf(b)
  /\ moved' = moved \ {b} /\ added' = added \ {b}
  /\ UNCHANGED <<sleep_enabled, bit_count, frame, frame_bit_count, contact_new, pc>>

(* ds_RigidBodyRemove with ds_ShapeDynamicRemove.                          *)
RemoveDynamicBody(b) ==
  /\ b \in Dynamic
  /\ FreeBody(b)
  /\ LET i == island_index[b]
         isl == [island EXCEPT ![i].bodies = @ \ {b}, ![i].contacts = @ \ ContactsOf(b)]
     IN  /\ IF isl[i].bodies = {}
              THEN /\ island' = [island EXCEPT ![i] = Unallocated]
                   /\ island_index' = [island_index EXCEPT ![b] = ISLAND_NULL]
              ELSE SplitIslands({i}, isl, key', {b})
         /\ failed' = \/ b \notin island[i].bodies
                      \/ ~(ContactsOf(b) \subseteq island[i].contacts)

(* ds_RigidBodyRemove with ds_ShapeStaticRemove.  A contact with another   *)
(* static body leads to an island outside the pool.                        *)
RemoveStaticBody(b) ==
  /\ b \in Static
  /\ FreeBody(b)
  /\ LET others == (UNION {key[c] : c \in ContactsOf(b)}) \ {b}
         touched == {island_index[d] : d \in others \cap Dynamic}
         isl == [i \in Dynamic |-> [island[i] EXCEPT !.contacts = @ \ ContactsOf(b)]]
         remain == {i \in touched : isl[i].contacts # {}}
         woken == [i \in Dynamic |->
                     IF i \in touched \ remain
                       THEN [isl[i] EXCEPT !.flags = WokenFlags(@)] ELSE isl[i]]
     IN  /\ SplitIslands(remain, woken, key', {b})
         /\ failed' = (others \cap Static # {})

(***************************************************************************)
(* The phases of a tick                                                    *)
(***************************************************************************)
(* PhysicsPipelineClearFrame and UpdateSolverConfig, with                  *)
(* PhysicsPipelineSleepEnable and PhysicsPipelineSleepDisable.             *)
UpdateSolverConfig(pending) ==
  /\ pc = "idle" /\ pc' = "detect"
  /\ frame' = {} /\ frame_bit_count' = 0
  /\ sleep_enabled' = pending
  /\ IF pending = sleep_enabled
       THEN UNCHANGED <<rb_awake, island, edits>>
       ELSE /\ Edit
            /\ rb_awake' = bodies
            /\ island' =
                 [i \in Dynamic |->
                    IF i \notin Islands THEN island[i]
                    ELSE [island[i] EXCEPT
                            !.flags = IF pending
                                        THEN (@ \cup {"awake", "reset"}) \ {"try_sleep"}
                                        ELSE (@ \cup {"awake"}) \ {"reset", "try_sleep"}]]
  /\ UNCHANGED <<bodies, island_index, low_velocity_time, key, persistent,
                 bit_count, contact_new, worldVars, failed>>

(* The bodies whose proxies are brought up to date.                        *)
Refreshed ==
  {b \in bodies \cap Dynamic : sleep_enabled => b \in rb_awake}

(* Pairs of bodies are handled in a fixed order, and free slots are used   *)
(* from the smallest up.                                                   *)
PairRank(p, pairs) ==
  Cardinality({q \in pairs : \/ Min(q) < Min(p)
                             \/ Min(q) = Min(p) /\ Max(q) <= Max(p)})
SlotRank(c) == Cardinality({d \in Slots \ Contacts : d <= c})

(* The narrow phase finds the touching pairs; a pair that has no contact   *)
(* gets one.                                                               *)
CollisionDetection(touching) ==
  /\ pc = "detect" /\ pc' = "merge"
  /\ Cardinality(touching) <= MaxTouching
  /\ \A p \in Keys : p \subseteq bodies /\ p \cap (moved \cup added) = {} =>
       (p \in touching <=> p \in Range(key))
  /\ moved' = moved \ Refreshed /\ added' = {}
  /\ LET pairs == touching \ Range(key)
     IN  key' = [c \in Slots |->
                   IF c \notin Contacts /\ SlotRank(c) <= Cardinality(pairs)
                     THEN CHOOSE p \in pairs : PairRank(p, pairs) = SlotRank(c)
                     ELSE key[c]]
  /\ frame_bit_count' = bit_count
  /\ frame' = {c \in Slots : c < bit_count /\ key'[c] \in touching}
  /\ contact_new' = {c \in Slots : /\ key'[c] \in touching
                                   /\ c >= bit_count \/ c \notin persistent}
  /\ UNCHANGED <<sleep_enabled, bodyVars, island, persistent, bit_count, failed, edits>>

(* A turn of the loop of MergeIslands for a contact of two islands, where  *)
(* isdb_MergeIslands keeps the island of body0.                            *)
MergeTwoIslands(c) ==
  /\ pc = "merge" /\ c \in contact_new /\ key[c] \subseteq Dynamic
  /\ LET expand == island_index[Min(key[c])]
         merge == island_index[Max(key[c])]
     IN  /\ expand # merge
         /\ island' =
              [island EXCEPT
                 ![expand] = [flags |-> MergedFlags(expand, merge),
                              bodies |-> island[expand].bodies \cup island[merge].bodies,
                              contacts |-> island[expand].contacts
                                             \cup island[merge].contacts \cup {c}],
                 ![merge] = Unallocated]
         /\ island_index' = [b \in Bodies |-> IF b \in island[merge].bodies THEN expand
                                              ELSE island_index[b]]
         /\ failed' = (sleep_enabled /\ ~Awake(expand) /\ ~Awake(merge))
  /\ contact_new' = contact_new \ {c}
  /\ UNCHANGED <<sleep_enabled, bodies, rb_awake, low_velocity_time, key, persistent,
                 bit_count, frame, frame_bit_count, pc, worldVars, edits>>

(* For a contact within an island, or with a static body.  A contact of    *)
(* two static bodies is in no list.                                        *)
AppendContact(c) ==
  /\ pc = "merge" /\ c \in contact_new
  /\ LET homes == {island_index[b] : b \in DynamicBodies(c)}
     IN  /\ Cardinality(homes) <= 1
         /\ island' = [i \in Dynamic |->
                         IF i \in homes THEN [island[i] EXCEPT !.contacts = @ \cup {c}]
                         ELSE island[i]]
         /\ failed' = (key[c] \subseteq Dynamic /\ \E i \in homes : island[i].contacts = {})
  /\ contact_new' = contact_new \ {c}
  /\ UNCHANGED <<sleep_enabled, bodyVars, key, persistent, bit_count, frame,
                 frame_bit_count, pc, worldVars, edits>>

(* The length the contact pool has grown to by doubling.                   *)
Length(count_max) ==
  LET length[n \in 0 .. Cardinality(Slots)] ==
        IF n = 0 THEN InitialSize ELSE 2 * length[n - 1]
  IN  Min({l \in Range(length) : l >= count_max})

SplitIslandsAndRemoveContacts ==
  /\ pc = "merge" /\ contact_new = {} /\ pc' = "solve"
  /\ LET broken == {c \in persistent : c < frame_bit_count /\ c \notin frame}
         split == {island_index[Min(key[c])] : c \in {d \in broken : NeedsSplit(d)}}
         isl == [i \in Dynamic |-> [island[i] EXCEPT !.contacts = @ \ broken]]
         k == [c \in Slots |-> IF c \in broken THEN {} ELSE key[c]]
         count_max == Max(Contacts \cup {0}) + 1
     IN  /\ SplitIslands(split, isl, k, {})
         /\ key' = k
         /\ bit_count' = IF bit_count < count_max THEN Length(count_max) ELSE bit_count
         /\ persistent' = {c \in frame : c < frame_bit_count}
                            \cup (IF bit_count < count_max THEN GrownBits(count_max) ELSE {})
         /\ failed' = \E c \in broken :
              \/ key[c] \subseteq Static
              \/ \A b \in DynamicBodies(c) : c \notin island[island_index[b]].contacts
  /\ UNCHANGED <<sleep_enabled, bodies, rb_awake, low_velocity_time, frame,
                 frame_bit_count, contact_new, worldVars, edits>>

(* The tasks of ThreadIslandSolve write to disjoint islands.  The bodies   *)
(* of quick are above the velocity limits after the integration.           *)
SolveIslands(quick) ==
  /\ pc = "solve" /\ pc' = "idle"
  /\ LET solved == {i \in Islands : sleep_enabled => Awake(i)}
         asleep == {i \in solved : sleep_enabled /\ "try_sleep" \in island[i].flags}
         run == solved \ asleep
         resting == UNION {island[i].bodies : i \in asleep}
         moving == UNION {island[i].bodies : i \in run}
         time == [b \in Bodies |->
                    IF sleep_enabled /\ b \in moving
                      THEN LET start == IF "reset" \in island[island_index[b]].flags
                                          THEN 0 ELSE low_velocity_time[b]
                           IN  IF b \in quick THEN start ELSE LowTime(start)
                      ELSE low_velocity_time[b]]
     IN  /\ quick \subseteq moving
         /\ moved' = moved \cup moving
         /\ low_velocity_time' = time
         /\ rb_awake' = IF sleep_enabled
                          THEN AwakeAfterSolve((rb_awake \ resting) \cup (resting \ rb_awake),
                                               moving)
                          ELSE rb_awake
         /\ island' =
              [i \in Dynamic |->
                 IF i \in asleep THEN [island[i] EXCEPT !.flags = {}]
                 ELSE IF i \in run /\ sleep_enabled
                   THEN [island[i] EXCEPT
                           !.flags = (@ \ {"reset"}) \cup
                             (IF \A b \in island[i].bodies : time[b] >= Threshold
                                THEN {"try_sleep"} ELSE {})]
                 ELSE island[i]]
  /\ UNCHANGED <<sleep_enabled, bodies, island_index, contactVars, added, failed, edits>>

-------------------------------------------------------------------------------
Next ==
  \/ \E b \in Bodies : AddBody(b) \/ RemoveDynamicBody(b) \/ RemoveStaticBody(b)
  \/ \E pending \in BOOLEAN : UpdateSolverConfig(pending)
  \/ \E touching \in SUBSET {p \in Keys : p \subseteq bodies} : CollisionDetection(touching)
  \/ \E c \in Slots : MergeTwoIslands(c) \/ AppendContact(c)
  \/ SplitIslandsAndRemoveContacts
  \/ \E quick \in SUBSET Dynamic : SolveIslands(quick)

Spec == Init /\ [][Next]_vars

-------------------------------------------------------------------------------
(* Properties *)

Flags == {"awake", "reset", "split", "try_sleep"}

TypeOK ==
  /\ sleep_enabled \in BOOLEAN
  /\ bodies \subseteq Bodies
  /\ island_index \in [Bodies -> Dynamic \cup {ISLAND_STATIC, ISLAND_NULL}]
  /\ rb_awake \subseteq bodies
  /\ low_velocity_time \in [Bodies -> 0 .. Threshold]
  /\ island \in [Dynamic -> [flags : SUBSET Flags, bodies : SUBSET Dynamic,
                             contacts : SUBSET Slots]]
  /\ key \in [Slots -> Keys \cup {{}}]
  /\ persistent \subseteq Slots /\ bit_count \in Nat
  /\ frame \subseteq Slots /\ frame_bit_count \in Nat
  /\ contact_new \subseteq Slots
  /\ pc \in {"idle", "detect", "merge", "solve"}
  /\ moved \subseteq bodies /\ added \subseteq bodies
  /\ failed \in BOOLEAN /\ edits \in 0 .. MaxEdits

(* The assertions of the pipeline hold: no two sleeping islands are ever   *)
(* merged, a contact within an island finds others there, a broken contact *)
(* is in the list of the island it is removed from, and a removed body     *)
(* leads to islands of the pool.                                           *)
AssertionsHold == ~failed

(* From the solve of a tick to the start of the next, bodies removed in    *)
(* between or not, the islands are the connected components of the dynamic *)
(* bodies under the contacts between them.                                 *)
IslandsAreComponents ==
  pc \in {"idle", "solve"} =>
    \A b \in bodies \cap Dynamic :
      LET home == island_index[b]
      IN  home \in Dynamic
          /\ island[home].bodies = Component(b, bodies \cap Dynamic, Range(key))

(* A contact is in the list of exactly one island, that of its dynamic     *)
(* bodies, so no two solver tasks write to it; a freed contact is in none; *)
(* and contact_persistent_usage has the bits of the contacts that exist,   *)
(* which is what makes out the new ones.                                   *)
ContactsAccounted ==
  pc \in {"idle", "solve"} =>
    /\ \A c \in Slots :
         {i \in Dynamic : c \in island[i].contacts}
           = {island_index[b] : b \in DynamicBodies(c)}
    /\ persistent = Contacts

(* Sleep is a property of whole islands: no body of a sleeping island has  *)
(* RB_AWAKE set, every body of an island about to sleep has it set, so     *)
(* that toggling it is clearing it, and so has, between ticks, every body  *)
(* of an awake island that has been solved.                                *)
SleepCoherent ==
  pc \in {"idle", "solve"} /\ sleep_enabled =>
    \A i \in Islands :
      /\ ~Awake(i) => island[i].bodies \cap rb_awake = {}
      /\ \/ "try_sleep" \in island[i].flags
         \/ pc = "idle" /\ Awake(i) /\ "reset" \notin island[i].flags
         => island[i].bodies \subseteq rb_awake

(* The proxy of a body that has moved is brought up to date by the next    *)
(* collision detection, even if its island is put to sleep or woken by it: *)
(* the purpose of ISLAND_TRY_SLEEP.                                        *)
ProxiesFresh == pc = "merge" => moved = {}

(* A body that loses a contact does not sleep on: its island is awake when *)
(* the step that removes the contact is over.                              *)
WokenWhenUnsupported ==
  [][\A c \in Contacts : sleep_enabled /\ key'[c] = {} =>
       \A b \in DynamicBodies(c) \cap bodies' :
         "awake" \in island'[island_index'[b]].flags]_vars

(* "flag island for being put to sleep at next solve iteration (if the     *)
(* island is uninterrupted for a frame)": an island that was interrupted,  *)
(* its timers to be reset, is not about to be put to sleep.                *)
SleepUninterrupted ==
  \A i \in Islands : ~({"reset", "try_sleep"} \subseteq island[i].flags)

(***************************************************************************)
(* The inductive invariant.  MergeIslands has settled a contact when it is *)
(* in the list of an island: the islands are a partition of the dynamic    *)
(* bodies into sets that settled contacts connect and do not leave.        *)
(***************************************************************************)
Settled == [c \in Slots |-> IF c \in contact_new THEN {} ELSE key[c]]

(* Every body in B is in the island it names, and in no other; an island   *)
(* without bodies is unallocated.                                          *)
Housed(index, isl, B) ==
  /\ \A b \in B : index[b] \in Dynamic /\ b \in isl[index[b]].bodies
  /\ \A i \in Dynamic : \A b \in isl[i].bodies : b \in B /\ index[b] = i
  /\ \A i \in Dynamic : isl[i].bodies = {} => isl[i] = Unallocated

(* An island is named by one of its bodies.                                *)
Named(isl) == \A i \in Dynamic : isl[i].bodies # {} => i \in isl[i].bodies

(* A contact is in the list of its bodies' island, which is one.           *)
Listed(index, isl, k) ==
  \A c \in Slots : \A i \in Dynamic :
    c \in isl[i].contacts <=> \E b \in k[c] \cap Dynamic : index[b] = i
Together(index, k) ==
  \A c \in Slots : \A b, d \in k[c] \cap Dynamic : index[b] = index[d]

(* No contact leads out of S; and a set that no contact leads out of has   *)
(* all of an island or nothing.                                            *)
Closed(S, k) == \A c \in Slots : \A b, d \in k[c] \cap Dynamic : b \in S => d \in S
Joined(isl, k, i) ==
  \A S \in SUBSET Dynamic :
    Closed(S, k) /\ S \cap isl[i].bodies # {} => isl[i].bodies \subseteq S

Partition(index, isl, B, k) ==
  /\ Housed(index, isl, B) /\ Named(isl)
  /\ Listed(index, isl, k) /\ Together(index, k)
  /\ \A i \in Dynamic : Joined(isl, k, i)

(* The bits of the contact database: outside MergeIslands the persistent   *)
(* ones are the contacts; in it those of the last tick, the frame's cover  *)
(* the new ones below bit_count, and the slots above are used without gap. *)
BitsFollow ==
  /\ bit_count >= 1
  /\ \A c \in Slots : key[c] \subseteq bodies
  /\ contact_new \subseteq Contacts /\ (pc # "merge" => contact_new = {})
  /\ persistent \subseteq Contacts /\ \A c \in persistent : c < bit_count
  /\ pc # "merge" => Contacts \subseteq persistent
  /\ pc \in {"idle", "solve"} => \A c \in Contacts : InFrame(c)
  /\ pc = "merge" =>
       /\ frame_bit_count = bit_count /\ frame \subseteq Contacts
       /\ \A c \in Contacts \ persistent : c < bit_count => c \in frame
       /\ \A c \in Contacts : \A d \in bit_count .. c : d \in Contacts

(* What moved or was added is awake, and so is its island, until its proxy *)
(* is up to date; a new contact then has an awake side, and so has one     *)
(* with a static body that is broken.                                      *)
StirredAwake ==
  /\ moved \subseteq Dynamic
  /\ pc \in {"merge", "solve"} => moved = {} /\ added = {}
  /\ \A c \in Slots : key[c] \cap added = {}
  /\ sleep_enabled =>
       /\ moved \subseteq rb_awake
       /\ \A b \in (moved \cup added) \cap Dynamic : Awake(island_index[b])
  /\ sleep_enabled /\ pc = "merge" =>
       /\ \A c \in contact_new :
            key[c] \subseteq Dynamic => \E b \in key[c] : Awake(island_index[b])
       /\ \A c \in persistent \ frame :
            key[c] \cap Static # {} => \A b \in DynamicBodies(c) : Awake(island_index[b])

(* Asleep, about to sleep, or awake, and then so as a whole.               *)
SleepTogether ==
  sleep_enabled =>
    \A i \in Islands :
      /\ ~Awake(i) => island[i].bodies \cap rb_awake = {}
      /\ \/ "try_sleep" \in island[i].flags
         \/ pc = "idle" /\ Awake(i) /\ "reset" \notin island[i].flags
         => island[i].bodies \subseteq rb_awake

IInv ==
  /\ TypeOK
  /\ Partition(island_index, island, bodies \cap Dynamic, Settled)
  /\ BitsFollow /\ StirredAwake /\ SleepTogether
===============================================================================
