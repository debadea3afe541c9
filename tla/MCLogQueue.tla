------------------------------ MODULE MCLogQueue ------------------------------
(* A small instance of LogQueue for TLC.  Liveness is checked in the same  *)
(* run as safety, so the threads are not declared symmetric.               *)
EXTENDS LogQueue

CONSTANTS main, t1, t2

MCBudget == [t \in Loggers |-> IF t = t1 THEN 2 ELSE IF t = t2 THEN 1 ELSE 0]
===============================================================================
