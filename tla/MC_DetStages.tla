---------------------------- MODULE MC_DetStages ----------------------------
(* An instance of DetStages: testcases of one to three bytes at the        *)
(* boundaries of the stages, with the values of config.h.                  *)
EXTENDS DetStages

CONSTANT Bytes

MC_Inputs == UNION {[1 .. n -> Bytes] : n \in 1 .. 3}
MC_interesting_8  == {128, 255, 0, 1, 16, 32, 64, 100, 127}
MC_interesting_16 ==
    {65408, 65535, 0, 1, 16, 32, 64, 100, 127,
     32768, 65407, 128, 255, 256, 512, 1000, 1024, 4096, 32767}
=============================================================================
