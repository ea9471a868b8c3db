---------------------------- MODULE TestService ----------------------------
(***************************************************************************)
(* What the dispatcher promises to the fuzzing stages of afl-fuzz: every   *)
(* worker runs one test at a time, the outcome the worker reported is the  *)
(* one its test is judged by, each test is judged exactly once and before  *)
(* the worker's next test, and the verdict AFL keeps of a worker           *)
(* (cover_new, which it sends along with the next test) changes at no      *)
(* other moment.                                                           *)
(***************************************************************************)
EXTENDS Naturals

CONSTANT Worker

Outcome == {"NONE", "CRASH", "REDUNDANT"}

VARIABLES
    slot,      \* "free", "busy" with a test, or "finished" and not judged
    outcome,   \* the outcome of the worker's last finished test
    view       \* the verdict: 0 nothing new, 1 new coverage, 2 redundant

svcVars == <<slot, outcome, view>>

SvcInit ==
    /\ slot    = [w \in Worker |-> "free"]
    /\ outcome = [w \in Worker |-> "NONE"]
    /\ view    = [w \in Worker |-> 1]

Dispatch(w) ==
    /\ slot[w] = "free"
    /\ slot' = [slot EXCEPT ![w] = "busy"]
    /\ UNCHANGED <<outcome, view>>

Finish(w) ==
    /\ slot[w] = "busy"
    /\ slot' = [slot EXCEPT ![w] = "finished"]
    /\ \E o \in Outcome : outcome' = [outcome EXCEPT ![w] = o]
    /\ UNCHANGED view

(* A crash says nothing about coverage: the previous verdict stays.        *)
Judge(w) ==
    /\ slot[w] = "finished"
    /\ slot' = [slot EXCEPT ![w] = "free"]
    /\ \/ outcome[w] = "NONE" /\ \E v \in {0, 1} : view' = [view EXCEPT ![w] = v]
       \/ outcome[w] = "REDUNDANT" /\ view' = [view EXCEPT ![w] = 2]
       \/ outcome[w] = "CRASH" /\ UNCHANGED view
    /\ UNCHANGED outcome

SvcNext == \E w \in Worker : Dispatch(w) \/ Finish(w) \/ Judge(w)

SvcSpec == SvcInit /\ [][SvcNext]_svcVars
=============================================================================
