----------------------------- MODULE CtrlPipes ------------------------------
(***************************************************************************)
(* The control pipes that InitQemuQueue sets up.  afl-fuzz and each QEMU   *)
(* find the ends of a pipe at descriptors computed from the pid of the     *)
(* QEMU, in a table that afl-fuzz shares with no one but hands down to     *)
(* every QEMU it forks.  A pipe is named after the QEMU it is made for.    *)
(***************************************************************************)
EXTENDS Naturals, Sequences, FiniteSets

CONSTANTS
    N,               \* parallel_qemu_num
    Pids,            \* the pids the system may hand out
    FirstCtrl,       \* 226 in CTRLPIPE
    Low,             \* the descriptors afl-fuzz has open before: 0 .. Low - 1
    NOFILE,          \* the limit on descriptors
    Gap              \* a QEMU's threads keep its successor from the next pid

ASSUME CtrlPipesAssumption ==
    /\ N \in Nat /\ Pids \subseteq Nat /\ FirstCtrl \in Nat /\ Low \in Nat
    /\ NOFILE \in Nat /\ Gap \in BOOLEAN
    /\ Low + 2 * N <= FirstCtrl /\ FirstCtrl <= NOFILE

Fd     == 0 .. NOFILE - 1
Closed == [pipe |-> 0, dir |-> "closed"]
Other  == [pipe |-> 0, dir |-> "other"]
R(p)   == [pipe |-> p, dir |-> "r"]
W(p)   == [pipe |-> p, dir |-> "w"]

CTRLPIPE(p) == p + FirstCtrl

VARIABLES
    fds,             \* what each descriptor of afl-fuzz is
    qemus,           \* the QEMUs spawned
    count,           \* how many, the loop counter i
    kidctrl,         \* what each QEMU has at its CTRLPIPE
    pipes,           \* the orders in each pipe, by the QEMU they are meant for
    got,             \* the last order each QEMU read
    fatal            \* the call whose failure ended afl-fuzz, or ""

vars == <<fds, qemus, count, kidctrl, pipes, got, fatal>>

Init ==
    /\ fds = [f \in Fd |-> IF f < Low THEN Other ELSE Closed]
    /\ qemus = {} /\ count = 0
    /\ kidctrl = [p \in Pids |-> Closed]
    /\ pipes = [p \in Pids |-> <<>>]
    /\ got = [p \in Pids |-> p]
    /\ fatal = ""

(* pipe: the two lowest free descriptors.                                  *)
LowestFree(a, b) ==
    /\ a < b /\ fds[a] = Closed /\ fds[b] = Closed
    /\ \A f \in Fd : f < b /\ f # a => fds[f] # Closed

(* Mutant: the write end takes the descriptor of the read end.             *)
Dup2Swapped(p, a, b) ==
    LET opened == [fds EXCEPT ![a] = R(p), ![b] = W(p)]
        wr     == [opened EXCEPT ![CTRLPIPE(p)] = opened[b]]
    IN  [wr EXCEPT ![CTRLPIPE(p) + 1] = wr[a]]

(* The table once pipe() gave a and b and both ends were duplicated.       *)
Dup2(p, a, b) ==
    LET opened == [fds EXCEPT ![a] = R(p), ![b] = W(p)]
        wr     == [opened EXCEPT ![CTRLPIPE(p) + 1] = opened[b]]
    IN  [wr EXCEPT ![CTRLPIPE(p)] = wr[a]]

(* One round of InitQemuQueue: pipe, fork, and dup2 in parent and child,   *)
(* which starts from a copy of the table.                                  *)
SpawnQemu(p) ==
    /\ fatal = "" /\ count < N
    /\ p \notin qemus /\ (Gap => \A r \in qemus : p # r + 1)
    /\ CTRLPIPE(p) + 1 \in Fd
    /\ \E a, b \in Fd :
        /\ LowestFree(a, b)
        /\ fds' = Dup2(p, a, b)
        /\ kidctrl' = [kidctrl EXCEPT ![p] = Dup2(p, a, b)[CTRLPIPE(p)]]
    /\ qemus' = qemus \cup {p} /\ count' = count + 1
    /\ UNCHANGED <<pipes, got, fatal>>

(* dup2 fails beyond the limit: the child exits, afl-fuzz stops.           *)
SpawnFails(p) ==
    /\ fatal = "" /\ count < N /\ p \notin qemus
    /\ CTRLPIPE(p) + 1 \notin Fd
    /\ fatal' = "dup2"
    /\ UNCHANGED <<fds, qemus, count, kidctrl, pipes, got>>

(* run_target writes an order for p.  A QEMU has one order at a time.      *)
NoOrder(p) == \A r \in qemus : \A i \in 1 .. Len(pipes[r]) : pipes[r][i] # p

(* Mutant: the order is written to the other descriptor of the QEMU.       *)
RunTargetReadEnd(p) ==
    /\ fatal = "" /\ count = N /\ p \in qemus /\ NoOrder(p)
    /\ LET end == fds[CTRLPIPE(p)] IN
       IF end.dir = "w" /\ end.pipe \in qemus
       THEN pipes' = [pipes EXCEPT ![end.pipe] = Append(@, p)] /\ UNCHANGED fatal
       ELSE fatal' = "write" /\ UNCHANGED pipes
    /\ UNCHANGED <<fds, qemus, count, kidctrl, got>>

RunTarget(p) ==
    /\ fatal = "" /\ count = N /\ p \in qemus /\ NoOrder(p)
    /\ LET end == fds[CTRLPIPE(p) + 1] IN
       IF end.dir = "w" /\ end.pipe \in qemus
       THEN pipes' = [pipes EXCEPT ![end.pipe] = Append(@, p)] /\ UNCHANGED fatal
       ELSE fatal' = "write" /\ UNCHANGED pipes
    /\ UNCHANGED <<fds, qemus, count, kidctrl, got>>

(* wait_afl_testcase of p reads CTRLPIPE(p).                               *)
WaitAflTestcase(p) ==
    /\ p \in qemus
    /\ LET end == kidctrl[p] IN
       /\ end.dir = "r" /\ pipes[end.pipe] # <<>>
       /\ got' = [got EXCEPT ![p] = Head(pipes[end.pipe])]
       /\ pipes' = [pipes EXCEPT ![end.pipe] = Tail(@)]
    /\ UNCHANGED <<fds, qemus, count, kidctrl, fatal>>

Next ==
    \/ \E p \in Pids : SpawnQemu(p)
    \/ \E p \in Pids : SpawnFails(p)
    \/ \E p \in Pids : RunTarget(p)
    \/ \E p \in Pids : WaitAflTestcase(p)

Spec == Init /\ [][Next]_vars

-----------------------------------------------------------------------------
End == [pipe : Pids \cup {0}, dir : {"closed", "other", "r", "w"}]

(* The values of the variables.                                            *)
TypeOK ==
    /\ fds \in [Fd -> End] /\ qemus \subseteq Pids /\ count \in 0 .. N
    /\ kidctrl \in [Pids -> End] /\ pipes \in [Pids -> Seq(Pids)]
    /\ got \in [Pids -> Pids] /\ fatal \in {"", "dup2", "write"}

(* Every QEMU has a control pipe of its own: afl-fuzz keeps its write end  *)
(* at CTRLPIPE(pid) + 1 and the QEMU its read end at CTRLPIPE(pid),        *)
(* whatever is spawned later and whatever the later dup2 calls overwrite.  *)
OwnPipe ==
    \A p \in qemus : /\ CTRLPIPE(p) + 1 \in Fd /\ fds[CTRLPIPE(p) + 1] = W(p)
                     /\ kidctrl[p] = R(p)

(* An order that run_target writes reaches the QEMU it is meant for, and   *)
(* the write never fails.                                                  *)
OwnOrders == fatal # "write" /\ \A p \in qemus : got[p] = p

-----------------------------------------------------------------------------
(* What makes the two inductive: below the control pipes the descriptors   *)
(* in use are the first Low + 2 * count, so pipe() never returns one of    *)
(* the descriptors that dup2 is about to overwrite.                        *)
LowFds ==
    \A f \in Fd : f < FirstCtrl => (fds[f] # Closed <=> f < Low + 2 * count)

OrdersInPlace ==
    /\ \A p \in Pids : \A i \in 1 .. Len(pipes[p]) : pipes[p][i] = p
    /\ \A p \in Pids : got[p] = p

PipesInv == TypeOK /\ LowFds /\ OwnPipe /\ OrdersInPlace /\ fatal # "write"
=============================================================================
