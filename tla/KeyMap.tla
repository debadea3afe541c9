-------------------------------- MODULE KeyMap --------------------------------
(***************************************************************************)
(* What the separating-axis cache promises its callers: a map from keys to *)
(* slots.  A call takes effect at one instant between its start and its    *)
(* return; a lookup returns what the map held at some instant of the call. *)
(* A key has at most one writer at a time, which is the caller's duty.     *)
(***************************************************************************)
EXTENDS Naturals

CONSTANTS Threads, Keys, Slots, None

Ops == {"lookup", "add", "remove"}

VARIABLES
  map,      (* the slot of each key, or None                               *)
  call,     (* each thread's call: its operation, key, and whether it has  *)
            (* taken effect; op is "none" between two calls                *)
  seen,     (* what the map held for the key during the call               *)
  result    (* what the last call returned                                 *)

mapVars == <<map, call, seen, result>>

NoCall == [op |-> "none"]

MapInit ==
  /\ map = [k \in Keys |-> None]
  /\ call = [t \in Threads |-> NoCall]
  /\ seen = [t \in Threads |-> {}]
  /\ result = [t \in Threads |-> None]

Writes(t, k) == call[t].op \in {"add", "remove"} /\ call[t].key = k

Begin(t, op, k) ==
  /\ call[t] = NoCall
  /\ op # "lookup" => /\ \A u \in Threads : ~Writes(u, k)
                      /\ (op = "add") = (map[k] = None)
  /\ call' = [call EXCEPT ![t] = [op |-> op, key |-> k, done |-> FALSE]]
  /\ seen' = [seen EXCEPT ![t] = {map[k]}]
  /\ result' = [result EXCEPT ![t] = None]
  /\ UNCHANGED map

(* A writer changes its key once; calls under way on the key see it.       *)
TakeEffect(t) ==
  /\ call[t].op \in {"add", "remove"} /\ ~call[t].done
  /\ \E s \in IF call[t].op = "add" THEN Slots ELSE {None} :
       /\ \A k \in Keys : s # None => map[k] # s
       /\ map' = [map EXCEPT ![call[t].key] = s]
       /\ seen' = [u \in Threads |->
            IF call[u] # NoCall /\ call[u].key = call[t].key
            THEN seen[u] \union {s} ELSE seen[u]]
  /\ call' = [call EXCEPT ![t].done = TRUE]
  /\ UNCHANGED result

Return(t) ==
  /\ call[t] # NoCall
  /\ call[t].op = "lookup" => result'[t] \in seen[t]
  /\ call[t].op = "add" => result'[t] = map[call[t].key]
  /\ call[t].op # "lookup" => call[t].done
  /\ \A u \in Threads \ {t} : result'[u] = result[u]
  /\ call' = [call EXCEPT ![t] = NoCall]
  /\ seen' = [seen EXCEPT ![t] = {}]
  /\ UNCHANGED map

(* Between two ticks, with no call under way, the map may be emptied.      *)
Clear ==
  /\ \A t \in Threads : call[t] = NoCall
  /\ map' = [k \in Keys |-> None]
  /\ UNCHANGED <<call, seen, result>>

MapNext ==
  \/ \E t \in Threads :
       \/ \E op \in Ops, k \in Keys : Begin(t, op, k)
       \/ TakeEffect(t)
       \/ Return(t)
  \/ Clear

MapSpec == MapInit /\ [][MapNext]_mapVars
===============================================================================
