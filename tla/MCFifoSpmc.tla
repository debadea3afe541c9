------------------------------ MODULE MCFifoSpmc ------------------------------
(* A small instance of FifoSpmc for TLC.  Liveness is checked in the same  *)
(* run as safety, so the workers are not declared symmetric.               *)
EXTENDS FifoSpmc

CONSTANTS w1, w2, main
===============================================================================
