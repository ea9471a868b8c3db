----------------------------- MODULE TestWorker -----------------------------
(***************************************************************************)
(* What a QEMU promises to afl-fuzz, without its states, its scheduler or  *)
(* its filter: the testcase it takes is the one it answers for, once; it   *)
(* calls a testcase redundant only if it has run one like it to the end;   *)
(* and the answer of a testcase that was run is never that it was not.     *)
(***************************************************************************)
CONSTANTS
    Test, NoTest,
    Crash,        \* the testcases that crash the target
    Like(_)       \* the testcases that show the same as a given one

VARIABLES
    ready,        \* may a testcase be sent?
    task,         \* the testcase that is to be answered, or NoTest
    view,         \* the answer: 0 nothing new, 1 new coverage, 2 redundant
    known,        \* the testcases that would be called redundant
    mayFork       \* drill runs: what they leave in the filter is not exact

workerVars == <<ready, task, view, known, mayFork>>

WorkerInit == ready = TRUE /\ task = NoTest /\ view = 1 /\ known = {}

Take ==
    /\ ready /\ task = NoTest
    /\ ready' = FALSE /\ task' \in Test /\ view' = 0
    /\ UNCHANGED <<known, mayFork>>

(* The testcase has been run, and has been kept for comparison or not.     *)
(* afl-fuzz leaves the view of a crash as it was.                          *)
Run ==
    /\ ~ready /\ task # NoTest
    /\ ready' = TRUE /\ task' = NoTest
    /\ view' \in {0, 1} \/ (task \in Crash /\ view' = 2)
    /\ \/ known' = known
       \/ task \notin Crash /\ known' = known \cup Like(task)
       \/ task \notin Crash /\ mayFork /\ known' = Test
    /\ UNCHANGED mayFork

Skip ==
    /\ ~ready /\ task \in known
    /\ ready' = TRUE /\ task' = NoTest /\ view' = 2
    /\ UNCHANGED <<known, mayFork>>

Forget ==
    /\ known' \subseteq known
    /\ UNCHANGED <<ready, task, view, mayFork>>

WorkerNext == Take \/ Run \/ Skip \/ Forget

WorkerSpec == WorkerInit /\ [][WorkerNext]_workerVars
=============================================================================
