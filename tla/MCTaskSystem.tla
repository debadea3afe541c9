----------------------------- MODULE MCTaskSystem -----------------------------
(* A small instance of TaskSystem for TLC.  Liveness is checked in the     *)
(* same run as safety, so the workers are not declared symmetric.          *)
EXTENDS TaskSystem

CONSTANTS w1, w2, main
===============================================================================
