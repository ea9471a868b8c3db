---------------------------- MODULE MC_Results ------------------------------
(* Results for TLC: MaxTests bounds the tests, Byte and the two classes of *)
(* hit counts the traces.  The bytes of the map are interchangeable.       *)
EXTENDS Results, TLC

ByteSymmetry == Permutations(Byte)
=============================================================================
