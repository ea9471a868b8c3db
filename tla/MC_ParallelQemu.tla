--------------------------- MODULE MC_ParallelQemu --------------------------
(* ParallelQemu for TLC: the model is finite as it stands, N bounds it.    *)
EXTENDS ParallelQemu
=============================================================================
