------------------------------ MODULE MC_Symbex ------------------------------
(* The instance of Symbex that TLC checks.                                 *)
EXTENDS Symbex
=============================================================================
