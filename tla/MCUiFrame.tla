------------------------------ MODULE MCUiFrame ------------------------------
(* Small instances of UiFrame for TLC.                                       *)
EXTENDS UiFrame
===============================================================================
