------------------------------ MODULE TaskQueue ------------------------------
(***************************************************************************)
(* What the engine's task queue promises its users: a bounded first-in     *)
(* first-out queue with one producer, from which each consumer takes the   *)
(* oldest task, holds it for a while, and hands it back to its caller.  A  *)
(* task that is held still occupies a place of the queue.                  *)
(*                                                                         *)
(* This is the abstract specification: FifoSpmc implements it with an      *)
(* array, a semaphore and two counters, and TaskSystem is built on it.     *)
(***************************************************************************)
EXTENDS Naturals, Sequences, FiniteSets

CONSTANTS
  Tasks,      (* the task pointers that may be queued                      *)
  Consumers,  (* the threads that pop                                      *)
  Capacity,   (* the number of entries of the queue                        *)
  None        (* no task                                                   *)

VARIABLES
  queue,      (* the tasks pushed and not yet claimed, oldest first        *)
  held        (* the task each consumer has claimed and not yet returned   *)

tqVars == <<queue, held>>

(* The entries that are occupied: the queued tasks and the held ones.      *)
Occupied == Len(queue) + Cardinality({c \in Consumers : held[c] # None})

TQInit ==
  /\ queue = <<>>
  /\ held  = [c \in Consumers |-> None]

Enqueue(t) ==
  /\ Occupied < Capacity
  /\ queue' = Append(queue, t)
  /\ UNCHANGED held

Dequeue(c) ==
  /\ queue # <<>>
  /\ held[c] = None
  /\ held'  = [held EXCEPT ![c] = Head(queue)]
  /\ queue' = Tail(queue)

HandBack(c) ==
  /\ held[c] # None
  /\ held' = [held EXCEPT ![c] = None]
  /\ UNCHANGED queue

TQNext ==
  \/ \E t \in Tasks : Enqueue(t)
  \/ \E c \in Consumers : Dequeue(c) \/ HandBack(c)

TQSpec == TQInit /\ [][TQNext]_tqVars
=============================================================================
