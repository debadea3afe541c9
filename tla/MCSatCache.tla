------------------------------ MODULE MCSatCache ------------------------------
(* Small instances of SatCache for TLC.                                    *)
EXTENDS SatCache

CONSTANT b1

AllKeys == 1 .. 3
OneBucket == [k \in Keys |-> b1]

(* Two free slots on the stack of Main.                                    *)
WarmCalls ==
  << [op |-> "add", key |-> 1], [op |-> "add", key |-> 2],
     [op |-> "remove", key |-> 1], [op |-> "remove", key |-> 2] >>
===============================================================================
