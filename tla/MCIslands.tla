------------------------------ MODULE MCIslands ------------------------------
(* Small instances of Islands for TLC.                                     *)
EXTENDS Islands
===============================================================================
