---------------------------- MODULE MC_FuzzyS2E ----------------------------
(* An instance of FuzzyS2E: a target with two branches in its main image   *)
(* and one in a library.  Each of ta, tb and td takes another path; te     *)
(* differs from tb in the library only; tg is longer and leaves early.     *)
EXTENDS FuzzyS2E

CONSTANTS c1, c2, l1, ta, tb, td, te, tg

MC_Cond == {c1, c2, l1}
MC_Test == {ta, tb, td, te, tg}
MC_Lib  == {l1}
MC_Val  == [t \in Test |-> CASE t = ta -> {c1, c2} [] t = tb -> {c1} [] t = td -> {c2}
                             [] t = te -> {c1, l1} [] t = tg -> {}]
MC_Path == [t \in Test |-> CASE t = tg        -> <<c1>>
                             [] t \in {tb, te} -> <<c1, c2, l1>>
                             [] OTHER        -> <<c1, c2>>]
MC_Size == [t \in Test |-> IF t = tg THEN 2 ELSE 1]

MC_NoFilter == [needFilter |-> FALSE, useDrill |-> FALSE, terminateOnFault |-> TRUE]
MC_Filter   == [MC_NoFilter EXCEPT !.needFilter = TRUE]
MC_Drill    == [MC_Filter EXCEPT !.useDrill = TRUE]
MC_FilterOnly == {MC_Filter}
MC_Configs == {MC_NoFilter, MC_Filter, MC_Drill}
=============================================================================
