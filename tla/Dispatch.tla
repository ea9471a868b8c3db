------------------------------ MODULE Dispatch ------------------------------
(***************************************************************************)
(* The dispatcher of ParallelQemu seen from the code that uses it:         *)
(* write_to_testcase and run_target as one step of afl-fuzz, the execution *)
(* of a test and its report as one step of a QEMU.  That the steps may be  *)
(* merged is what ParallelQemu!ImplementsDispatch says: its small steps    *)
(* are steps of this module or change nothing that is visible here.        *)
(* Modules that say what a test means and how it is judged extend this one.*)
(***************************************************************************)
EXTENDS Naturals, Sequences, FiniteSets

CONSTANT N                       \* parallel_qemu_num

ASSUME NAssumption == N \in Nat \ {0}

Qemu   == 0 .. N - 1
NoQemu == N

VARIABLES
    curQemu, isAfterWait, currentQemuAfterWait,
    handled,
    fifo,        \* the QEMUs whose report has not been read, oldest first
    running      \* the QEMUs that have not reported their test

dispVars == <<curQemu, isAfterWait, currentQemuAfterWait, handled, fifo, running>>

(* Every QEMU has booted and its start-up report is in the FIFO.           *)
DispatchInit ==
    /\ curQemu = NoQemu /\ isAfterWait = FALSE /\ currentQemuAfterWait = 0
    /\ handled = [q \in Qemu |-> TRUE]
    /\ fifo \in {s \in [1 .. N -> Qemu] : \A i, j \in 1 .. N : s[i] = s[j] => i = j}
    /\ running = {}

(* write_to_testcase chooses q, and run_target starts the test.            *)
Feed(q) ==
    /\ \/ /\ isAfterWait /\ q = currentQemuAfterWait
          /\ isAfterWait' = (q + 1 # N)
          /\ currentQemuAfterWait' = (q + 1) % N
          /\ UNCHANGED fifo
       \/ /\ ~isAfterWait /\ fifo # <<>> /\ q = Head(fifo)
          /\ fifo' = Tail(fifo)
          /\ UNCHANGED <<isAfterWait, currentQemuAfterWait>>
    /\ curQemu' = q
    /\ handled' = [handled EXCEPT ![q] = FALSE]
    /\ running' = running \cup {q}

(* The test of q is over: its report, then its ready byte.                 *)
Report(q) ==
    /\ q \in running
    /\ running' = running \ {q}
    /\ fifo' = Append(fifo, q)
    /\ UNCHANGED <<curQemu, isAfterWait, currentQemuAfterWait, handled>>

(* process_unhandled_qemus takes the oldest report, which is q's.          *)
Drain(q) ==
    /\ running = {} /\ fifo # <<>> /\ q = Head(fifo)
    /\ fifo' = Tail(fifo)
    /\ handled' = [handled EXCEPT ![q] = TRUE]
    /\ UNCHANGED <<curQemu, isAfterWait, currentQemuAfterWait, running>>

(* WAIT_ALLQEMUS_FREE ends.                                                *)
EndBarrier ==
    /\ running = {} /\ fifo = <<>>
    /\ isAfterWait' = TRUE /\ currentQemuAfterWait' = 0
    /\ UNCHANGED <<curQemu, handled, fifo, running>>

(* What the dispatcher may do, whoever uses it.                            *)
DispatchNext == EndBarrier \/ \E q \in Qemu : Feed(q) \/ Report(q) \/ Drain(q)
=============================================================================
