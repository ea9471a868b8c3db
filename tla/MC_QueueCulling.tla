--------------------------- MODULE MC_QueueCulling --------------------------
(* QueueCulling for TLC: MapSize, MaxFactor and MaxEntries bound it.       *)
EXTENDS QueueCulling
=============================================================================
