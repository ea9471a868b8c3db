---------------------------- MODULE MC_FuzzOne ------------------------------
(* The instances of FuzzOne that TLC checks.                               *)
EXTENDS FuzzOne
=============================================================================
