--------------------------- MODULE MC_CtrlPipes -----------------------------
(* The instances of CtrlPipes that TLC checks.                             *)
EXTENDS CtrlPipes
=============================================================================
