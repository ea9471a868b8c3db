--------------------------- MODULE CtrlPipesProofs --------------------------
(***************************************************************************)
(* With a gap between the pids, every QEMU keeps a control pipe of its     *)
(* own, for any number of QEMUs, any pids and any descriptor limit.        *)
(***************************************************************************)
EXTENDS CtrlPipes, TLAPS

(* pipe() returns the first two descriptors above those in use, both below *)
(* the control pipes.                                                      *)
LEMMA PipeIsLow ==
    ASSUME TypeOK, LowFds, count < N,
           NEW a \in Fd, NEW b \in Fd, LowestFree(a, b)
    PROVE  /\ a = Low + 2 * count /\ b = a + 1
           /\ b < FirstCtrl
<1> DEFINE c == Low + 2 * count
<1>0. count \in 0 .. N
    BY DEF TypeOK
<1>1. count \in Nat /\ N \in Nat /\ Low \in Nat /\ FirstCtrl \in Nat /\ NOFILE \in Nat
      /\ Low + 2 * N <= FirstCtrl /\ FirstCtrl <= NOFILE
    BY <1>0, CtrlPipesAssumption
<1>2. c \in Nat /\ c + 1 < FirstCtrl
    BY <1>1
<1>3. c \in Fd /\ c + 1 \in Fd
    BY <1>1, <1>2 DEF Fd
<1>4. fds[c] = Closed /\ fds[c + 1] = Closed
    BY <1>1, <1>2, <1>3 DEF LowFds
<1>5. a \in Nat /\ b \in Nat /\ a < b
    BY <1>1 DEF Fd, LowestFree
<1>6. b <= c + 1
    <2>1. ASSUME c + 1 < b PROVE FALSE
        <3>1. c < b /\ c # a => fds[c] # Closed
            BY <1>3 DEF LowestFree
        <3>2. c + 1 < b /\ c + 1 # a => fds[c + 1] # Closed
            BY <1>3 DEF LowestFree
        <3>. QED  BY <2>1, <3>1, <3>2, <1>4, <1>2, <1>5
    <2>. QED  BY <2>1, <1>2, <1>5
<1>7. a < FirstCtrl /\ b < FirstCtrl
    BY <1>1, <1>2, <1>5, <1>6
<1>8. c <= a
    <2>1. fds[a] = Closed
        BY DEF LowestFree
    <2>2. ~(a < c)
        BY <2>1, <1>7 DEF LowFds
    <2>. QED  BY <2>2, <1>2, <1>5
<1>. QED  BY <1>2, <1>5, <1>6, <1>7, <1>8

(* What a round of InitQemuQueue leaves in the table.                      *)
LEMMA Dup2Table ==
    ASSUME TypeOK, NEW p \in Pids, NEW a \in Fd, NEW b \in Fd,
           a < b, b < FirstCtrl, CTRLPIPE(p) + 1 \in Fd
    PROVE  LET t == Dup2(p, a, b) IN
           /\ t \in [Fd -> End]
           /\ CTRLPIPE(p) \in Fd
           /\ t[a] = R(p) /\ t[b] = W(p)
           /\ t[CTRLPIPE(p)] = R(p) /\ t[CTRLPIPE(p) + 1] = W(p)
           /\ \A f \in Fd \ {a, b, CTRLPIPE(p), CTRLPIPE(p) + 1} : t[f] = fds[f]
<1>1. p \in Nat /\ FirstCtrl \in Nat /\ NOFILE \in Nat /\ a \in Nat /\ b \in Nat
    BY CtrlPipesAssumption DEF Fd
<1> DEFINE c == CTRLPIPE(p)
           d == CTRLPIPE(p) + 1
           opened == [fds EXCEPT ![a] = R(p), ![b] = W(p)]
           wr == [opened EXCEPT ![d] = opened[b]]
           t == [wr EXCEPT ![c] = wr[a]]
<1>2. c \in Fd /\ d \in Fd /\ a # b /\ c # d /\ a # c /\ a # d /\ b # c /\ b # d
    BY <1>1 DEF CTRLPIPE, Fd
<1>3. R(p) \in End /\ W(p) \in End
    BY DEF R, W, End
<1>4. fds \in [Fd -> End]
    BY DEF TypeOK
<1>5. t = Dup2(p, a, b)
    BY DEF Dup2
<1> HIDE DEF c, d
<1>6. opened \in [Fd -> End] /\ opened[a] = R(p) /\ opened[b] = W(p)
      /\ \A f \in Fd \ {a, b} : opened[f] = fds[f]
    BY <1>2, <1>3, <1>4
<1> HIDE DEF opened
<1>7. wr \in [Fd -> End] /\ wr[a] = R(p) /\ wr[b] = W(p) /\ wr[d] = W(p)
      /\ \A f \in Fd \ {a, b, d} : wr[f] = fds[f]
    BY <1>2, <1>3, <1>6
<1> HIDE DEF wr
<1>8. t \in [Fd -> End] /\ t[a] = R(p) /\ t[b] = W(p) /\ t[d] = W(p) /\ t[c] = R(p)
      /\ \A f \in Fd \ {a, b, c, d} : t[f] = fds[f]
    BY <1>2, <1>3, <1>7
<1>. QED  BY <1>2, <1>5, <1>8 DEF c, d

(* The initial states.                                                     *)
LEMMA InitPipes == Init => PipesInv
<1> SUFFICES ASSUME Init PROVE PipesInv
    OBVIOUS
<1>0. Closed \in End /\ Other \in End /\ Closed # Other
    BY DEF End, Other, Closed
<1>c. count = 0
    BY DEF Init
<1>1. TypeOK
    <2>1. fds \in [Fd -> End] /\ kidctrl \in [Pids -> End] /\ got \in [Pids -> Pids]
        BY <1>0 DEF Init
    <2>2. <<>> \in Seq(Pids)
        OBVIOUS
    <2>3. pipes \in [Pids -> Seq(Pids)]
        BY <2>2 DEF Init
    <2>4. count \in 0 .. N
        BY <1>c, CtrlPipesAssumption
    <2>5. qemus \subseteq Pids /\ fatal \in {"", "dup2", "write"}
        BY DEF Init
    <2>. QED  BY <2>1, <2>3, <2>4, <2>5 DEF TypeOK
<1>2. LowFds
    <2>1. Low + 2 * count = Low
        BY <1>c, CtrlPipesAssumption
    <2>2. \A f \in Fd : fds[f] # Closed <=> f < Low
        BY <1>0 DEF Init
    <2>. QED  BY <2>1, <2>2 DEF LowFds
<1>3. OwnPipe
    BY DEF Init, OwnPipe
<1>4. OrdersInPlace
    <2>1. \A p \in Pids : pipes[p] = <<>> /\ got[p] = p
        BY DEF Init
    <2>2. \A p \in Pids : Len(pipes[p]) = 0
        BY <2>1
    <2>. QED  BY <2>1, <2>2 DEF OrdersInPlace
<1>5. fatal # "write"
    BY DEF Init
<1>. QED  BY <1>1, <1>2, <1>3, <1>4, <1>5 DEF PipesInv

(* A round of InitQemuQueue disturbs no pipe set up before.                *)
LEMMA SpawnStep ==
    ASSUME PipesInv, Gap, NEW p \in Pids, SpawnQemu(p)
    PROVE  PipesInv'
<1> USE DEF PipesInv
<1>1. PICK a \in Fd, b \in Fd :
          /\ LowestFree(a, b)
          /\ fds' = Dup2(p, a, b)
          /\ kidctrl' = [kidctrl EXCEPT ![p] = Dup2(p, a, b)[CTRLPIPE(p)]]
    BY DEF SpawnQemu
<1>2. /\ count < N /\ p \notin qemus /\ \A r \in qemus : p # r + 1
      /\ CTRLPIPE(p) + 1 \in Fd
      /\ qemus' = qemus \cup {p} /\ count' = count + 1
      /\ UNCHANGED <<pipes, got, fatal>>
    BY DEF SpawnQemu
<1>3. a = Low + 2 * count /\ b = a + 1 /\ b < FirstCtrl
    BY <1>1, <1>2, PipeIsLow
<1>4. p \in Nat /\ FirstCtrl \in Nat /\ NOFILE \in Nat /\ Low \in Nat /\ N \in Nat
      /\ count \in Nat /\ a \in Nat /\ b \in Nat /\ qemus \subseteq Nat
    <2>1. count \in 0 .. N /\ qemus \subseteq Pids
        BY DEF TypeOK
    <2>. QED  BY <2>1, CtrlPipesAssumption DEF Fd
<1>5. a < b
    BY <1>3, <1>4
<1>6. /\ fds' \in [Fd -> End]
      /\ CTRLPIPE(p) \in Fd
      /\ fds'[a] = R(p) /\ fds'[b] = W(p)
      /\ fds'[CTRLPIPE(p)] = R(p) /\ fds'[CTRLPIPE(p) + 1] = W(p)
      /\ \A f \in Fd \ {a, b, CTRLPIPE(p), CTRLPIPE(p) + 1} : fds'[f] = fds[f]
    BY <1>1, <1>2, <1>3, <1>5, Dup2Table
<1>7. kidctrl' = [kidctrl EXCEPT ![p] = R(p)]
    BY <1>1, <1>6
<1>8. TypeOK'
    <2>1. R(p) \in End
        BY DEF R, End
    <2>2. kidctrl' \in [Pids -> End]
        BY <1>7, <2>1 DEF TypeOK
    <2>3. count' \in 0 .. N
        BY <1>2, <1>4
    <2>. QED  BY <1>2, <1>6, <2>2, <2>3 DEF TypeOK
<1>9. LowFds'
    <2> SUFFICES ASSUME NEW f \in Fd, f < FirstCtrl
                 PROVE  fds'[f] # Closed <=> f < Low + 2 * (count + 1)
        BY <1>2 DEF LowFds
    <2>1. f \in Nat
        BY <1>4 DEF Fd
    <2>2. R(p) # Closed /\ W(p) # Closed
        BY DEF R, W, Closed
    <2>3. CASE f = a
        BY <2>3, <2>2, <1>3, <1>4, <1>6
    <2>4. CASE f = b
        BY <2>4, <2>2, <1>3, <1>4, <1>6
    <2>5. CASE f # a /\ f # b
        <3>1. f # CTRLPIPE(p) /\ f # CTRLPIPE(p) + 1
            BY <2>1, <1>4 DEF CTRLPIPE
        <3>2. fds'[f] = fds[f]
            BY <3>1, <2>5, <1>6
        <3>3. fds[f] # Closed <=> f < Low + 2 * count
            BY DEF LowFds
        <3>. QED  BY <3>2, <3>3, <2>5, <2>1, <1>3, <1>4
    <2>. QED  BY <2>3, <2>4, <2>5
<1>10. OwnPipe'
    <2> SUFFICES ASSUME NEW r \in qemus'
                 PROVE  /\ CTRLPIPE(r) + 1 \in Fd /\ fds'[CTRLPIPE(r) + 1] = W(r)
                        /\ kidctrl'[r] = R(r)
        BY DEF OwnPipe
    <2>1. CASE r = p
        BY <2>1, <1>2, <1>6, <1>7 DEF TypeOK
    <2>2. CASE r # p
        <3>1. r \in qemus /\ r \in Nat /\ p # r + 1
            BY <2>2, <1>2, <1>4
        <3>2. CTRLPIPE(r) + 1 \in Fd /\ fds[CTRLPIPE(r) + 1] = W(r) /\ kidctrl[r] = R(r)
            BY <3>1 DEF OwnPipe
        <3>3. CTRLPIPE(r) + 1 \notin {a, b, CTRLPIPE(p), CTRLPIPE(p) + 1}
            BY <3>1, <2>2, <1>3, <1>4 DEF CTRLPIPE
        <3>4. kidctrl'[r] = kidctrl[r]
            BY <1>7, <2>2, <3>1 DEF TypeOK
        <3>. QED  BY <3>2, <3>3, <3>4, <1>6
    <2>. QED  BY <2>1, <2>2
<1>11. OrdersInPlace' /\ fatal' # "write"
    BY <1>2 DEF OrdersInPlace
<1>. QED  BY <1>8, <1>9, <1>10, <1>11

(* An order goes into the pipe of its QEMU.                                *)
LEMMA RunTargetStep ==
    ASSUME PipesInv, NEW p \in Pids, RunTarget(p)
    PROVE  PipesInv'
<1> USE DEF PipesInv
<1>1. p \in qemus /\ UNCHANGED <<fds, qemus, count, kidctrl, got>>
    BY DEF RunTarget
<1>2. fds[CTRLPIPE(p) + 1].dir = "w" /\ fds[CTRLPIPE(p) + 1].pipe = p
    <2>1. fds[CTRLPIPE(p) + 1] = W(p)
        BY <1>1 DEF OwnPipe
    <2>2. W(p).dir = "w" /\ W(p).pipe = p
        BY DEF W
    <2>. QED  BY <2>1, <2>2
<1>3. pipes' = [pipes EXCEPT ![p] = Append(@, p)] /\ fatal' = fatal
    BY <1>1, <1>2 DEF RunTarget
<1>4. pipes[p] \in Seq(Pids)
    BY DEF TypeOK
<1>5. TypeOK'
    <2>1. Append(pipes[p], p) \in Seq(Pids)
        BY <1>4
    <2>2. pipes' \in [Pids -> Seq(Pids)]
        BY <2>1, <1>3 DEF TypeOK
    <2>. QED  BY <2>2, <1>1, <1>3 DEF TypeOK
<1>6. OrdersInPlace'
    <2> SUFFICES ASSUME NEW r \in Pids, NEW i \in 1 .. Len(pipes'[r])
                 PROVE  pipes'[r][i] = r
        BY <1>1 DEF OrdersInPlace
    <2>1. CASE r = p
        <3>1. pipes'[r] = Append(pipes[p], p)
            BY <2>1, <1>3 DEF TypeOK
        <3>2. \A j \in 1 .. Len(pipes[p]) : pipes[p][j] = p
            BY DEF OrdersInPlace
        <3>. QED  BY <3>1, <3>2, <1>4, <2>1
    <2>2. CASE r # p
        BY <2>2, <1>3 DEF OrdersInPlace, TypeOK
    <2>. QED  BY <2>1, <2>2
<1>7. LowFds' /\ OwnPipe'
    BY <1>1 DEF LowFds, OwnPipe
<1>. QED  BY <1>3, <1>5, <1>6, <1>7

(* A QEMU reads its own pipe.                                              *)
LEMMA ReadStep ==
    ASSUME PipesInv, NEW p \in Pids, WaitAflTestcase(p)
    PROVE  PipesInv'
<1> USE DEF PipesInv
<1>1. p \in qemus /\ UNCHANGED <<fds, qemus, count, kidctrl, fatal>>
    BY DEF WaitAflTestcase
<1>2. kidctrl[p].pipe = p
    <2>1. kidctrl[p] = R(p)
        BY <1>1 DEF OwnPipe
    <2>2. R(p).pipe = p
        BY DEF R
    <2>. QED  BY <2>1, <2>2
<1>3. /\ pipes[p] # <<>> /\ got' = [got EXCEPT ![p] = Head(pipes[p])]
      /\ pipes' = [pipes EXCEPT ![p] = Tail(@)]
    BY <1>2 DEF WaitAflTestcase
<1>4. pipes[p] \in Seq(Pids)
    BY DEF TypeOK
<1>5. Head(pipes[p]) = p /\ Tail(pipes[p]) \in Seq(Pids)
      /\ \A i \in 1 .. Len(Tail(pipes[p])) : Tail(pipes[p])[i] = p
    <2>1. \A j \in 1 .. Len(pipes[p]) : pipes[p][j] = p
        BY DEF OrdersInPlace
    <2>. QED  BY <1>3, <1>4, <2>1
<1>6. TypeOK'
    BY <1>1, <1>3, <1>5 DEF TypeOK
<1>7. OrdersInPlace'
    <2>1. \A r \in Pids : got'[r] = r
        BY <1>3, <1>5 DEF OrdersInPlace, TypeOK
    <2>2. ASSUME NEW r \in Pids, NEW i \in 1 .. Len(pipes'[r])
          PROVE  pipes'[r][i] = r
        <3>1. CASE r = p
            BY <3>1, <1>3, <1>5 DEF TypeOK
        <3>2. CASE r # p
            BY <3>2, <1>3 DEF OrdersInPlace, TypeOK
        <3>. QED  BY <3>1, <3>2
    <2>. QED  BY <2>1, <2>2 DEF OrdersInPlace
<1>8. LowFds' /\ OwnPipe'
    BY <1>1 DEF LowFds, OwnPipe
<1>. QED  BY <1>1, <1>6, <1>7, <1>8

(* The inductive invariant holds in every reachable state.                 *)
LEMMA PipesInvariant == ASSUME Gap PROVE Spec => []PipesInv
<1>1. Init => PipesInv
    BY InitPipes
<1>2. ASSUME PipesInv, [Next]_vars PROVE PipesInv'
    <2>1. ASSUME NEW p \in Pids, SpawnQemu(p) PROVE PipesInv'
        BY <1>2, <2>1, SpawnStep
    <2>2. ASSUME NEW p \in Pids, SpawnFails(p) PROVE PipesInv'
        <3>1. UNCHANGED <<fds, qemus, count, kidctrl, pipes, got>> /\ fatal' = "dup2"
            BY <2>2 DEF SpawnFails
        <3>. QED  BY <3>1, <1>2 DEF PipesInv, TypeOK, LowFds, OwnPipe, OrdersInPlace
    <2>3. ASSUME NEW p \in Pids, RunTarget(p) PROVE PipesInv'
        BY <1>2, <2>3, RunTargetStep
    <2>4. ASSUME NEW p \in Pids, WaitAflTestcase(p) PROVE PipesInv'
        BY <1>2, <2>4, ReadStep
    <2>5. CASE UNCHANGED vars
        BY <2>5, <1>2 DEF vars, PipesInv, TypeOK, LowFds, OwnPipe, OrdersInPlace
    <2>. QED  BY <1>2, <2>1, <2>2, <2>3, <2>4, <2>5 DEF Next
<1>. QED  BY <1>1, <1>2, PTL DEF Spec

(* If no QEMU gets the pid that follows an earlier QEMU's, every QEMU      *)
(* keeps a control pipe of its own, for any number of QEMUs.               *)
THEOREM UniqueControlPipe == ASSUME Gap PROVE Spec => []OwnPipe
<1>1. PipesInv => OwnPipe
    BY DEF PipesInv
<1>. QED  BY <1>1, PipesInvariant, PTL

(* Under the same condition every order of run_target reaches the QEMU it  *)
(* is meant for, and no write fails.                                       *)
THEOREM OrdersReachTheirQemu == ASSUME Gap PROVE Spec => []OwnOrders
<1>1. PipesInv => OwnOrders
    BY DEF PipesInv, OwnOrders, OrdersInPlace, TypeOK
<1>. QED  BY <1>1, PipesInvariant, PTL
=============================================================================
