--------------------------- MODULE MCBlockAllocator ---------------------------
(* Small instances of BlockAllocator for TLC.                              *)
EXTENDS BlockAllocator, TLC

ThreadSymmetry == Permutations(Threads)
===============================================================================
