------------------------------- MODULE MCStore ------------------------------
(* Bounds for TLC.                                                         *)
EXTENDS Store

MCData == {"none", "a"}
=============================================================================
