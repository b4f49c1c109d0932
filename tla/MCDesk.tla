------------------------------- MODULE MCDesk -------------------------------
(* Instances of the desk for TLC.                                          *)
EXTENDS DeskProperties
=============================================================================
