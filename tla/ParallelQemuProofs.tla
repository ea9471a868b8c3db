------------------------- MODULE ParallelQemuProofs -------------------------
(***************************************************************************)
(* Proofs about the dispatcher, for every number of QEMUs: its types, why  *)
(* the steps of afl-fuzz and of the QEMUs keep the invariant of the        *)
(* protocol and what follows from it, and that it implements TestService   *)
(* and Dispatch.                                                           *)
(***************************************************************************)
EXTENDS ParallelQemu, TLAPS

-----------------------------------------------------------------------------
LEMMA NoLength == \A S : \A s \in Seq(S) : Len(s) = 0 => s = <<>>
  OBVIOUS

LEMMA SequenceAsFunction == \A S : \A s \in Seq(S) : s = [i \in 1 .. Len(s) |-> s[i]]
<1>1. \A S : \A s \in Seq(S) : s \in [1 .. Len(s) -> S]
  OBVIOUS
<1> QED BY <1>1, Zenon

(* What a write to and a read from the FIFO do to the set of QEMUs that    *)
(* have a report in it.                                                    *)

(* A write (tell_afl, report_redundant, initQemuQueue) adds one reporter.  *)
LEMMA AppendFacts ==
    ASSUME NEW s \in Seq(Message), NEW m \in Message
    PROVE  /\ Append(s, m) \in Seq(Message)
           /\ \A q : Has(Append(s, m), q) <=> Has(s, q) \/ q = m.pid
           /\ Distinct(s) /\ ~Has(s, m.pid) => Distinct(Append(s, m))
           /\ \A i \in 1 .. Len(Append(s, m)) :
                 \/ i \in 1 .. Len(s) /\ Append(s, m)[i] = s[i]
                 \/ Append(s, m)[i] = m
BY DEF Has, Distinct

(* A read (GETQUEUEITEM) removes the only report of its sender.            *)
LEMMA TailFacts ==
    ASSUME NEW s \in Seq(Message), s # <<>>, Distinct(s)
    PROVE  /\ Head(s) \in Message
           /\ Tail(s) \in Seq(Message)
           /\ Has(s, Head(s).pid)
           /\ \A q : Has(Tail(s), q) <=> Has(s, q) /\ q # Head(s).pid
           /\ Distinct(Tail(s))
<1>1. Head(s) \in Message /\ Head(s) = s[1] /\ Len(s) \in Nat \ {0}
  OBVIOUS
<1>2. /\ Tail(s) \in Seq(Message) /\ Len(Tail(s)) = Len(s) - 1
      /\ \A i \in 1 .. Len(Tail(s)) : i + 1 \in 1 .. Len(s) /\ Tail(s)[i] = s[i + 1]
  OBVIOUS
<1>3. Has(s, Head(s).pid)
  BY <1>1 DEF Has
<1>4. ASSUME NEW q, Has(s, q), q # Head(s).pid
      PROVE  Has(Tail(s), q)
  <2>1. PICK i \in 1 .. Len(s) : s[i].pid = q
    BY <1>4, Zenon DEF Has
  <2>2. i - 1 \in 1 .. Len(Tail(s)) /\ Tail(s)[i - 1] = s[i]
    BY <1>1, <1>2, <1>4, <2>1
  <2> QED
    BY <2>1, <2>2, Zenon DEF Has
<1>5. ASSUME NEW q, Has(Tail(s), q)
      PROVE  Has(s, q) /\ q # Head(s).pid
  <2>1. PICK i \in 1 .. Len(Tail(s)) : Tail(s)[i].pid = q
    BY <1>5, Zenon DEF Has
  <2>2. i + 1 \in 1 .. Len(s) /\ s[i + 1].pid = q /\ i + 1 # 1 /\ 1 \in 1 .. Len(s)
    BY <1>1, <1>2, <2>1
  <2> QED
    BY <1>1, <2>2, Zenon DEF Has, Distinct
<1>6. Distinct(Tail(s))
  BY <1>1, <1>2 DEF Distinct
<1> QED
  BY <1>1, <1>2, <1>3, <1>4, <1>5, <1>6, Zenon

(* A control pipe that holds one order is not empty.                       *)
LEMMA OneOrder ==
    ASSUME NEW o
    PROVE  <<o>> # <<>> /\ Len(<<o>>) = 1
BY Zenon

(* handle_onetestdone marks the test of one QEMU handled and touches the   *)
(* trace and the verdict of that QEMU only.                                *)
LEMMA HandleFacts ==
    ASSUME TypeOK, NEW q \in Qemu, NEW f \in Fault, HandleOneTestDone(q, f)
    PROVE  /\ handled' \in [Qemu -> BOOLEAN]
           /\ trace' \in [Qemu -> {"clear", "raw", "classified", "spoiled"}]
           /\ cover_new' \in [Qemu -> 0 .. 2]
BY DEF TypeOK, HandleOneTestDone, Classify, Verdicts, Fault

-----------------------------------------------------------------------------
(* Every variable of afl-fuzz, of the channels and of the QEMUs keeps its  *)
(* type.                                                                   *)
THEOREM TypeCorrect == Spec => []TypeOK
<1>1. Init => TypeOK
  <2> SUFFICES ASSUME Init PROVE TypeOK
    BY Zenon
  <2>1. 0 \in Qemu /\ curQemu \in Qemu \cup {NoQemu}
    BY NAssumption DEF Init, Qemu
  <2>2. fifo \in Seq(Message) /\ ctrl \in [Qemu -> Seq(Order)]
    BY DEF Init
  <2> QED
    BY <2>1, <2>2 DEF Init, TypeOK, Stage, Fault
<1>2. TypeOK /\ [Next]_vars => TypeOK'
  <2> SUFFICES ASSUME TypeOK, [Next]_vars PROVE TypeOK'
    BY Zenon
  <2> USE NAssumption DEF TypeOK, Stage, Fault, RunFault
  <2>1. CASE SetupTracebits
    BY <2>1, Zenon DEF SetupTracebits, instVars, chanVars, qemuVars
  <2>2. CASE FeedAfterWait
    <3>1. /\ curQemu' \in Qemu /\ isAfterWait' \in BOOLEAN /\ currentQemuAfterWait' \in Qemu
          /\ pc' = "write" /\ msgFault' = "NONE"
      <4>1. currentQemuAfterWait \in 0 .. N - 1 /\ N \in Nat \ {0} /\ 0 \in Qemu
        BY DEF Qemu
      <4>2. CASE currentQemuAfterWait + 1 = N
        BY <2>2, <4>1, <4>2, Zenon DEF FeedAfterWait
      <4>3. CASE currentQemuAfterWait + 1 # N
        BY <2>2, <4>1, <4>3 DEF FeedAfterWait, Qemu
      <4> QED
        BY <4>2, <4>3, Zenon
    <3>2. UNCHANGED <<stage, stop_soon, instVars, chanVars, qemuVars>>
      BY <2>2, Zenon DEF FeedAfterWait
    <3> QED
      BY <3>1, <3>2, Zenon DEF instVars, chanVars, qemuVars
  <2>3. CASE PollQueue
    BY <2>3, Zenon DEF PollQueue, instVars, chanVars, qemuVars
  <2>4. CASE ReadQueue
    <3>1. Head(fifo) \in Message /\ Tail(fifo) \in Seq(Message)
      BY <2>4 DEF ReadQueue
    <3> QED
      BY <2>4, <3>1, Zenon DEF ReadQueue, Message, instVars, qemuVars
  <2>5. CASE SpinReady
    BY <2>5, Zenon DEF SpinReady, instVars, chanVars, qemuVars
  <2>6. CASE WriteToTestcase
    <3>1. curQemu \in Qemu /\ stage \in Stage
      BY <2>6, Zenon DEF WriteToTestcase
    <3>2. /\ handled' \in [Qemu -> BOOLEAN]
          /\ trace' \in [Qemu -> {"clear", "raw", "classified", "spoiled"}]
          /\ cover_new' \in [Qemu -> 0 .. 2]
      BY <2>6, <3>1, HandleFacts DEF WriteToTestcase
    <3> QED
      BY <2>6, <3>1, <3>2, Zenon DEF WriteToTestcase, qemuVars
  <2>7. CASE RunTarget
    BY <2>7, Zenon DEF RunTarget
  <2>8. CASE TellQemu
    <3>1. curQemu \in Qemu /\ OrderOf(cover_new[curQemu]) \in Order
      BY <2>8 DEF TellQemu, OrderOf, Order
    <3> QED
      BY <2>8, <3>1 DEF TellQemu, instVars, qemuVars
  <2>9. CASE EndStage
    BY <2>9, Zenon DEF EndStage, instVars, chanVars, qemuVars
  <2>10. CASE AllQemusFree
    BY <2>10, ZenonT(60) DEF AllQemusFree, instVars, chanVars, qemuVars
  <2>11. CASE ProcessUnhandled
    <3>1. Head(fifo) \in Message /\ Tail(fifo) \in Seq(Message)
      BY <2>11 DEF ProcessUnhandled
    <3>2. /\ handled' \in [Qemu -> BOOLEAN]
          /\ trace' \in [Qemu -> {"clear", "raw", "classified", "spoiled"}]
          /\ cover_new' \in [Qemu -> 0 .. 2]
      BY <2>11, <3>1, HandleFacts DEF ProcessUnhandled, Message
    <3>3. fault' \in [Qemu -> Fault] /\ out_file' \in [Qemu -> BOOLEAN]
      <4> DEFINE q == Head(fifo).pid
                 f == Head(fifo).fault
      <4>1. q \in Qemu /\ f \in Fault
        BY <3>1, Zenon DEF Message
      <4>2. \/ fault' = fault /\ out_file' = out_file
            \/ /\ fault' = [fault EXCEPT ![q] = f]
               /\ out_file' = [out_file EXCEPT ![q] = FALSE]
        BY <2>11, Zenon DEF ProcessUnhandled
      <4> HIDE DEF q, f
      <4>3. CASE fault' = fault /\ out_file' = out_file
        BY <4>3, Zenon
      <4>4. CASE /\ fault' = [fault EXCEPT ![q] = f]
                 /\ out_file' = [out_file EXCEPT ![q] = FALSE]
        BY <4>1, <4>4, Zenon
      <4> QED
        BY <4>2, <4>3, <4>4, Zenon
    <3>4. fifo' = Tail(fifo) /\ UNCHANGED <<aflVars, started, cur_stage, ready, ctrl, qemuVars>>
      BY <2>11, Zenon DEF ProcessUnhandled
    <3> QED
      BY <3>1, <3>2, <3>3, <3>4 DEF aflVars, qemuVars
  <2>12. CASE BarrierDone
    BY <2>12 DEF BarrierDone, Qemu, instVars, chanVars, qemuVars
  <2>13. CASE HandleStopSig
    BY <2>13 DEF HandleStopSig, instVars, chanVars, qemuVars
  <2>14. CASE StopFuzzing
    BY <2>14, Zenon DEF StopFuzzing, instVars, chanVars, qemuVars
  <2>15. CASE \E q \in Qemu : QemuNext(q)
    <3> PICK q \in Qemu : QemuNext(q)
      BY <2>15, Zenon
    <3>1. \A f \in Fault : Report(q, f) \in Message
      BY Zenon DEF Report, Message
    <3>2. CASE GetAFLBitmapSHM(q)
      BY <3>2 DEF GetAFLBitmapSHM, aflVars, instVars, chanVars
    <3>3. CASE InitQemuQueue(q)
      BY <3>1, <3>3 DEF InitQemuQueue, aflVars, instVars
    <3>4. CASE WaitAflTestcase(q)
      BY <3>4 DEF WaitAflTestcase, aflVars, instVars
    <3>5. CASE ReportRedundant(q)
      BY <3>1, <3>5 DEF ReportRedundant, aflVars, instVars
    <3>6. CASE ExecuteTarget(q)
      BY <3>6 DEF ExecuteTarget, aflVars, instVars
    <3>7. CASE \E f \in RunFault : TellAfl(q, f)
      BY <3>1, <3>7, SMTT(30) DEF TellAfl, aflVars, instVars
    <3>8. CASE SetReady(q)
      BY <3>8 DEF SetReady, aflVars, instVars
    <3>9. CASE TerminateOnForeignFault(q)
      BY <3>9 DEF TerminateOnForeignFault, aflVars, instVars, chanVars
    <3>10. CASE ReportFails(q)
      BY <3>10, Zenon DEF ReportFails, aflVars, instVars, chanVars
    <3> QED
      BY <3>2, <3>3, <3>4, <3>5, <3>6, <3>7, <3>8, <3>9, <3>10, ZenonT(60) DEF QemuNext
  <2>16. CASE UNCHANGED vars
    BY <2>16 DEF vars, aflVars, instVars, chanVars, qemuVars
  <2> QED
    BY <2>1, <2>2, <2>3, <2>4, <2>5, <2>6, <2>7, <2>8, <2>9, <2>10, <2>11, ZenonT(60),
       <2>12, <2>13, <2>14, <2>15, <2>16 DEF Next, AflNext, Exited
<1> QED
  BY <1>1, <1>2, PTL DEF Spec


(* Every report in the FIFO names a QEMU.                                  *)
LEMMA Senders ==
    ASSUME NEW s \in Seq(Message), NEW i \in 1 .. Len(s)
    PROVE  s[i].pid \in Qemu /\ Has(s, s[i].pid)
<1>1. s[i] \in Message
  OBVIOUS
<1> QED
  BY <1>1, Zenon DEF Message, Has

(* The oldest report names a QEMU, carries the fault that QEMU reported    *)
(* last unless its test is handled, and is the only one of that QEMU.      *)
LEMMA OldestReport ==
    ASSUME TypeOK, FifoInv, fifo # <<>>
    PROVE  /\ Head(fifo) \in Message /\ Head(fifo).pid \in Qemu
           /\ handled[Head(fifo).pid] \/ Head(fifo).fault = qfault[Head(fifo).pid]
           /\ Has(fifo, Head(fifo).pid) /\ Distinct(Tail(fifo))
           /\ \A p : Has(Tail(fifo), p) <=> Has(fifo, p) /\ p # Head(fifo).pid
           /\ \A i \in 1 .. Len(Tail(fifo)) :
                 i + 1 \in 1 .. Len(fifo) /\ Tail(fifo)[i] = fifo[i + 1]
<1>1. fifo \in Seq(Message) /\ Distinct(fifo)
  BY Zenon DEF TypeOK, FifoInv
<1>2. /\ Head(fifo) \in Message
      /\ Has(fifo, Head(fifo).pid) /\ Distinct(Tail(fifo))
      /\ \A p : Has(Tail(fifo), p) <=> Has(fifo, p) /\ p # Head(fifo).pid
  BY <1>1, TailFacts, Zenon
<1>3. /\ Head(fifo) = fifo[1] /\ 1 \in 1 .. Len(fifo)
      /\ \A i \in 1 .. Len(Tail(fifo)) :
            i + 1 \in 1 .. Len(fifo) /\ Tail(fifo)[i] = fifo[i + 1]
  BY <1>1
<1>4. Head(fifo).pid \in Qemu
  BY <1>2, Zenon DEF Message
<1>5. handled[Head(fifo).pid] \/ Head(fifo).fault = qfault[Head(fifo).pid]
  BY <1>3, Zenon DEF FifoInv
<1> QED
  BY <1>2, <1>3, <1>4, <1>5, Zenon

(* Start-up is over: every QEMU has sent its report.                       *)
LEMMA SetupStep ==
    ASSUME BootSettled, TypeOK, ProtocolInv, SetupTracebits
    PROVE  ProtocolInv'
<1>1. SetupInv /\ AflInv /\ FifoInv /\ \A p \in Qemu : QemuInv(p)
  BY Zenon DEF ProtocolInv
<1>2. SetupInv'
  BY <1>1, Zenon DEF SetupTracebits, instVars, chanVars, qemuVars, SetupInv
<1>3. AflInv'
  BY <1>1, Zenon DEF SetupTracebits, instVars, chanVars, qemuVars, AflInv, TypeOK
<1>4. FifoInv'
  BY <1>1, Zenon DEF SetupTracebits, instVars, chanVars, qemuVars, FifoInv
<1>5. ASSUME NEW p \in Qemu PROVE QemuInv(p)'
  <2>1. QemuInv(p) /\ qpc[p] = "wait"
    BY <1>1, BootSettled, Zenon DEF SetupTracebits
  <2> QED
    BY <1>1, <2>1, Zenon DEF SetupTracebits, instVars, chanVars, qemuVars, SetupInv, QemuInv, Busy, Idle, Lost, At, TypeOK
<1> QED
  BY <1>2, <1>3, <1>4, <1>5, Zenon DEF ProtocolInv

(* After a barrier, feeding a QEMU without the FIFO keeps the protocol.    *)
LEMMA FeedStep ==
    ASSUME TypeOK, ProtocolInv, FeedAfterWait
    PROVE  ProtocolInv'
<1>1. SetupInv /\ AflInv /\ FifoInv /\ \A p \in Qemu : QemuInv(p)
  BY Zenon DEF ProtocolInv
<1>a. /\ currentQemuAfterWait \in Qemu /\ currentQemuAfterWait \in Nat
      /\ isAfterWait' \in BOOLEAN
      /\ isAfterWait' => currentQemuAfterWait' = currentQemuAfterWait + 1
  <2>1. currentQemuAfterWait \in Qemu /\ currentQemuAfterWait \in Nat
    BY DEF TypeOK, Qemu
  <2> QED
    BY <2>1, Zenon DEF FeedAfterWait
<1>b. /\ ready[currentQemuAfterWait] /\ handled[currentQemuAfterWait]
      /\ ~Has(fifo, currentQemuAfterWait)
  <2>1. QemuInv(currentQemuAfterWait)
    BY <1>1, <1>a, Zenon
  <2>2. isAfterWait /\ currentQemuAfterWait >= currentQemuAfterWait
    BY <1>a DEF FeedAfterWait
  <2> QED
    BY <2>1, <2>2, Zenon DEF QemuInv
<1>2. SetupInv'
  BY <1>1, Zenon DEF FeedAfterWait, instVars, chanVars, qemuVars, SetupInv
<1>3. AflInv'
  BY <1>1, <1>a, <1>b DEF FeedAfterWait, instVars, chanVars, qemuVars, AflInv
<1>4. FifoInv'
  BY <1>1, Zenon DEF FeedAfterWait, instVars, chanVars, qemuVars, FifoInv
<1>5. ASSUME NEW p \in Qemu PROVE QemuInv(p)'
  <2>1. QemuInv(p) /\ p \in Nat
    BY <1>1 DEF Qemu
  <2>2. /\ pc = "next" /\ pc' = "write" /\ isAfterWait /\ curQemu' = currentQemuAfterWait
        /\ UNCHANGED <<stage, instVars, chanVars, qemuVars>>
    BY Zenon DEF FeedAfterWait
  <2>3. isAfterWait' /\ p >= currentQemuAfterWait' => isAfterWait /\ p >= currentQemuAfterWait
    BY <1>a, <2>1, <2>2
  <2>4. CASE p = currentQemuAfterWait
    BY <1>b, <2>1, <2>2, <2>3, <2>4, Zenon
    DEF instVars, chanVars, qemuVars, QemuInv, Busy, Idle, Lost, At, TypeOK
  <2>5. CASE p # currentQemuAfterWait
    BY <2>1, <2>2, <2>3, <2>5, Zenon
    DEF instVars, chanVars, qemuVars, QemuInv, Busy, Idle, Lost, At, TypeOK
  <2> QED
    BY <2>4, <2>5, Zenon
<1> QED
  BY <1>2, <1>3, <1>4, <1>5, Zenon DEF ProtocolInv

(* Nothing is chosen yet.                                                  *)
LEMMA PollStep ==
    ASSUME TypeOK, ProtocolInv, PollQueue
    PROVE  ProtocolInv'
<1>1. SetupInv /\ AflInv /\ FifoInv /\ \A p \in Qemu : QemuInv(p)
  BY Zenon DEF ProtocolInv
<1>2. SetupInv'
  BY <1>1, Zenon DEF PollQueue, instVars, chanVars, qemuVars, SetupInv
<1>3. AflInv'
  BY <1>1, Zenon DEF PollQueue, instVars, chanVars, qemuVars, AflInv, TypeOK
<1>4. FifoInv'
  BY <1>1, Zenon DEF PollQueue, instVars, chanVars, qemuVars, FifoInv
<1>5. ASSUME NEW p \in Qemu PROVE QemuInv(p)'
  <2>1. QemuInv(p)
    BY <1>1, Zenon
  <2> QED
    BY <1>1, <2>1, Zenon DEF PollQueue, instVars, chanVars, qemuVars, AflInv, QemuInv, Busy, Idle, Lost, At, TypeOK
<1> QED
  BY <1>2, <1>3, <1>4, <1>5, Zenon DEF ProtocolInv

(* afl-fuzz takes the oldest report out of the FIFO.                       *)
LEMMA ReadStep ==
    ASSUME TypeOK, ProtocolInv, ReadQueue
    PROVE  ProtocolInv'
<1>1. SetupInv /\ AflInv /\ FifoInv /\ \A p \in Qemu : QemuInv(p)
  BY Zenon DEF ProtocolInv
<1>a. /\ Head(fifo) \in Message /\ Head(fifo).pid \in Qemu
      /\ handled[Head(fifo).pid] \/ Head(fifo).fault = qfault[Head(fifo).pid]
      /\ Has(fifo, Head(fifo).pid) /\ Distinct(Tail(fifo))
      /\ \A p : Has(Tail(fifo), p) <=> Has(fifo, p) /\ p # Head(fifo).pid
      /\ \A i \in 1 .. Len(Tail(fifo)) :
            i + 1 \in 1 .. Len(fifo) /\ Tail(fifo)[i] = fifo[i + 1]
  BY <1>1, OldestReport, Zenon DEF ReadQueue
<1>d. /\ pc = "poll" /\ pc' = "spin" /\ curQemu' = Head(fifo).pid
      /\ msgFault' = Head(fifo).fault /\ fifo' = Tail(fifo)
      /\ UNCHANGED <<stage, isAfterWait, currentQemuAfterWait, instVars, ready,
                     ctrl, trace, qemuVars>>
  BY Zenon DEF ReadQueue
<1>2. SetupInv'
  BY <1>1, Zenon DEF ReadQueue, instVars, qemuVars, SetupInv
<1>3. AflInv'
  BY <1>1, <1>a, <1>d, Zenon DEF AflInv, instVars, qemuVars, TypeOK
<1>4. FifoInv'
  BY <1>1, <1>a, <1>d, Zenon DEF FifoInv, instVars, qemuVars
<1>5. ASSUME NEW p \in Qemu PROVE QemuInv(p)'
  <2>1. QemuInv(p) /\ (Has(fifo', p) <=> Has(fifo, p) /\ p # curQemu')
    BY <1>1, <1>a, <1>d, Zenon
  <2>2. p = curQemu' => Has(fifo, p)
    BY <1>a, <1>d, Zenon
  <2> QED
    BY <1>d, <2>1, <2>2, Zenon DEF instVars, qemuVars, QemuInv, Busy, Idle, Lost, At, TypeOK
<1> QED
  BY <1>2, <1>3, <1>4, <1>5, Zenon DEF ProtocolInv

(* The ready byte of the chosen QEMU is seen set.                          *)
LEMMA SpinStep ==
    ASSUME TypeOK, ProtocolInv, SpinReady
    PROVE  ProtocolInv'
<1>1. SetupInv /\ AflInv /\ FifoInv /\ \A p \in Qemu : QemuInv(p)
  BY Zenon DEF ProtocolInv
<1>2. SetupInv'
  BY <1>1, Zenon DEF SpinReady, instVars, chanVars, qemuVars, SetupInv
<1>3. AflInv'
  BY <1>1, Zenon DEF SpinReady, instVars, chanVars, qemuVars, AflInv, TypeOK
<1>4. FifoInv'
  BY <1>1, Zenon DEF SpinReady, instVars, chanVars, qemuVars, FifoInv
<1>5. ASSUME NEW p \in Qemu PROVE QemuInv(p)'
  <2>1. QemuInv(p)
    BY <1>1, Zenon
  <2> QED
    BY <1>1, <2>1, ZenonT(60) DEF SpinReady, instVars, chanVars, qemuVars, AflInv, QemuInv, Busy, Idle, Lost, At, TypeOK
<1> QED
  BY <1>2, <1>3, <1>4, <1>5, Zenon DEF ProtocolInv

(* write_to_testcase judges the last test of the chosen QEMU.              *)
LEMMA WriteStep ==
    ASSUME TypeOK, ProtocolInv, WriteToTestcase
    PROVE  ProtocolInv'
<1>1. SetupInv /\ AflInv /\ FifoInv /\ \A p \in Qemu : QemuInv(p)
  BY Zenon DEF ProtocolInv
<1>a. \A i \in 1 .. Len(fifo) : fifo[i].pid \in Qemu
  BY Senders, Zenon DEF TypeOK
<1>b. /\ pc = "write" /\ pc' = "run" /\ curQemu \in Qemu /\ ready[curQemu]
      /\ UNCHANGED <<stage, curQemu, isAfterWait, currentQemuAfterWait, started,
                     fifo, ready, ctrl, qpc, qfault, testStage>>
      /\ cur_stage' = [cur_stage EXCEPT ![curQemu] = stage]
      /\ out_file' = [out_file EXCEPT ![curQemu] = TRUE]
  BY <1>1, Zenon DEF WriteToTestcase, qemuVars, AflInv, TypeOK
<1>c. handled' = [handled EXCEPT ![curQemu] = TRUE]
  <2>1. CASE handled[curQemu]
    BY <1>b, <2>1 DEF WriteToTestcase, TypeOK
  <2>2. CASE ~handled[curQemu]
    BY <1>1, <1>b, <2>2, Zenon DEF WriteToTestcase, HandleOneTestDone, QemuInv
  <2> QED
    BY <2>1, <2>2, Zenon
<1>d. /\ \A p \in Qemu : p # curQemu => trace'[p] = trace[p]
      /\ trace'[curQemu] \in {"clear", "classified"}
  <2>1. CASE handled[curQemu]
    BY <1>1, <1>b, <2>1, Zenon DEF WriteToTestcase, QemuInv
  <2>2. CASE ~handled[curQemu]
    BY <1>1, <1>b, <2>2 DEF WriteToTestcase, HandleOneTestDone, Classify, QemuInv, TypeOK
  <2> QED
    BY <2>1, <2>2, Zenon
<1>2. SetupInv'
  BY <1>b, Zenon DEF SetupInv
<1>3. AflInv'
  BY <1>1, <1>b, <1>c DEF AflInv, TypeOK
<1>4. FifoInv'
  BY <1>1, <1>a, <1>b, <1>c DEF FifoInv, TypeOK
<1>5. ASSUME NEW p \in Qemu PROVE QemuInv(p)'
  <2>1. QemuInv(p)
    BY <1>1, Zenon
  <2>2. CASE p = curQemu
    BY <1>b, <1>c, <1>d, <2>1, <2>2, Zenon DEF QemuInv, Busy, Idle, Lost, At, TypeOK
  <2>3. CASE p # curQemu
    BY <1>b, <1>c, <1>d, <2>1, <2>3, ZenonT(60) DEF QemuInv, Busy, Idle, Lost, At, TypeOK
  <2> QED
    BY <2>2, <2>3, Zenon
<1> QED
  BY <1>2, <1>3, <1>4, <1>5, Zenon DEF ProtocolInv

(* run_target clears the segment and takes the ready byte back.            *)
LEMMA RunStep ==
    ASSUME TypeOK, ProtocolInv, RunTarget
    PROVE  ProtocolInv'
<1>1. SetupInv /\ AflInv /\ FifoInv /\ \A p \in Qemu : QemuInv(p)
  BY Zenon DEF ProtocolInv
<1>a. /\ curQemu \in Qemu /\ Idle(curQemu) /\ ~Has(fifo, curQemu)
      /\ out_file[curQemu] /\ cur_stage[curQemu] = stage
      /\ ~(isAfterWait /\ curQemu >= currentQemuAfterWait)
  <2>1. curQemu \in Qemu /\ curQemu \in Nat /\ currentQemuAfterWait \in Nat
    BY DEF RunTarget, TypeOK, Qemu
  <2>2. QemuInv(curQemu)
    BY <1>1, <2>1, Zenon
  <2>3. curQemu \in Qemu /\ Idle(curQemu) /\ ~Has(fifo, curQemu)
    BY <2>1, <2>2, Zenon DEF RunTarget, QemuInv, Busy, Idle, At, TypeOK
  <2>4. /\ out_file[curQemu] /\ cur_stage[curQemu] = stage
        /\ ~(isAfterWait /\ curQemu >= currentQemuAfterWait)
    BY <1>1, <2>1, SMTT(30) DEF RunTarget, AflInv
  <2> QED
    BY <2>3, <2>4, Zenon
<1>b. \A i \in 1 .. Len(fifo) : fifo[i].pid \in Qemu /\ fifo[i].pid # curQemu
  BY <1>a, Senders, SMTT(60) DEF TypeOK
<1>2. SetupInv'
  BY <1>1, Zenon DEF RunTarget, SetupInv
<1>3. AflInv'
  BY <1>1, <1>a, ZenonT(60) DEF RunTarget, AflInv, TypeOK
<1>4. FifoInv'
  BY <1>1, <1>b DEF RunTarget, FifoInv, TypeOK
<1>5. ASSUME NEW p \in Qemu PROVE QemuInv(p)'
  <2>1. QemuInv(p)
    BY <1>1, Zenon
  <2>2. CASE p = curQemu
    BY <1>a, <2>2, Zenon DEF RunTarget, QemuInv, Busy, Idle, Lost, At, TypeOK
  <2>3. CASE p # curQemu
    BY <2>1, <2>3, ZenonT(60) DEF RunTarget, QemuInv, Busy, Idle, Lost, At, TypeOK
  <2> QED
    BY <2>2, <2>3, Zenon
<1> QED
  BY <1>2, <1>3, <1>4, <1>5, Zenon DEF ProtocolInv

(* The order in the control pipe makes the chosen QEMU busy.               *)
LEMMA TellStep ==
    ASSUME TypeOK, ProtocolInv, TellQemu
    PROVE  ProtocolInv'
<1>1. SetupInv /\ AflInv /\ FifoInv /\ \A p \in Qemu : QemuInv(p)
  BY Zenon DEF ProtocolInv
<1>a. curQemu \in Qemu /\ ~handled[curQemu]
  BY <1>1, Zenon DEF TellQemu, AflInv, TypeOK
<1>b. ctrl[curQemu] = <<>> /\ qpc[curQemu] = "wait" /\ ~ready[curQemu]
  BY <1>1, <1>a, Zenon DEF TellQemu, QemuInv, Busy, Idle, At, TypeOK
<1>2. SetupInv'
  BY <1>1, Zenon DEF TellQemu, instVars, qemuVars, SetupInv
<1>3. AflInv'
  BY <1>1, Zenon DEF TellQemu, instVars, qemuVars, AflInv, TypeOK
<1>4. FifoInv'
  BY <1>1, Zenon DEF TellQemu, instVars, qemuVars, FifoInv
<1>5. ASSUME NEW p \in Qemu PROVE QemuInv(p)'
  <2>1. QemuInv(p)
    BY <1>1, Zenon
  <2>2. CASE p = curQemu
    <3>1. /\ ctrl'[p] = <<OrderOf(cover_new[p])>> /\ pc' \in {"next", "waitfree", "stopped"}
          /\ UNCHANGED <<stage, curQemu, isAfterWait, currentQemuAfterWait, instVars, fifo,
                         ready, trace, qemuVars>>
      BY <1>a, <1>b, <2>2 DEF TellQemu, TypeOK
    <3>2. ctrl'[p] # <<>> /\ Len(ctrl'[p]) = 1
      <4>1. ctrl'[p] = <<OrderOf(cover_new[p])>>
        BY <3>1, Zenon
      <4> QED
        BY <4>1, OneOrder, Zenon
    <3> QED
      BY <1>a, <1>b, <2>1, <2>2, <3>1, <3>2, Zenon DEF instVars, qemuVars, QemuInv, Busy, Idle, Lost, At
  <2>3. CASE p # curQemu
    BY <2>1, <2>3, ZenonT(60) DEF TellQemu, instVars, qemuVars, QemuInv, Busy, Idle, Lost, At, TypeOK
  <2> QED
    BY <2>2, <2>3, Zenon
<1> QED
  BY <1>2, <1>3, <1>4, <1>5, Zenon DEF ProtocolInv

(* The wait for all QEMUs begins.                                          *)
LEMMA EndStep ==
    ASSUME TypeOK, ProtocolInv, EndStage
    PROVE  ProtocolInv'
<1>1. SetupInv /\ AflInv /\ FifoInv /\ \A p \in Qemu : QemuInv(p)
  BY Zenon DEF ProtocolInv
<1>2. SetupInv'
  BY <1>1, Zenon DEF EndStage, instVars, chanVars, qemuVars, SetupInv
<1>3. AflInv'
  BY <1>1, Zenon DEF EndStage, instVars, chanVars, qemuVars, AflInv, TypeOK
<1>4. FifoInv'
  BY <1>1, Zenon DEF EndStage, instVars, chanVars, qemuVars, FifoInv
<1>5. ASSUME NEW p \in Qemu PROVE QemuInv(p)'
  <2>1. QemuInv(p)
    BY <1>1, Zenon
  <2> QED
    BY <1>1, <2>1, Zenon DEF EndStage, instVars, chanVars, qemuVars, AflInv, QemuInv, Busy, Idle, Lost, At, TypeOK
<1> QED
  BY <1>2, <1>3, <1>4, <1>5, Zenon DEF ProtocolInv

(* The wait for all QEMUs is over.                                         *)
LEMMA FreeStep ==
    ASSUME TypeOK, ProtocolInv, AllQemusFree
    PROVE  ProtocolInv'
<1>1. SetupInv /\ AflInv /\ FifoInv /\ \A p \in Qemu : QemuInv(p)
  BY Zenon DEF ProtocolInv
<1>2. SetupInv'
  BY <1>1, Zenon DEF AllQemusFree, instVars, chanVars, qemuVars, SetupInv
<1>3. AflInv'
  BY <1>1, Zenon DEF AllQemusFree, instVars, chanVars, qemuVars, AflInv, TypeOK
<1>4. FifoInv'
  BY <1>1, Zenon DEF AllQemusFree, instVars, chanVars, qemuVars, FifoInv
<1>5. ASSUME NEW p \in Qemu PROVE QemuInv(p)'
  <2>1. QemuInv(p)
    BY <1>1, Zenon
  <2> QED
    BY <1>1, <2>1, Zenon DEF AllQemusFree, instVars, chanVars, qemuVars, AflInv, QemuInv, Busy, Idle, Lost, At, TypeOK
<1> QED
  BY <1>2, <1>3, <1>4, <1>5, Zenon DEF ProtocolInv

(* One turn of process_unhandled_qemus.                                    *)
LEMMA DrainStep ==
    ASSUME TypeOK, ProtocolInv, ProcessUnhandled
    PROVE  ProtocolInv'
<1>1. SetupInv /\ AflInv /\ FifoInv /\ \A p \in Qemu : QemuInv(p)
  BY Zenon DEF ProtocolInv
<1> DEFINE h == Head(fifo).pid
<1>a. /\ Head(fifo) \in Message /\ Head(fifo).pid \in Qemu
      /\ handled[Head(fifo).pid] \/ Head(fifo).fault = qfault[Head(fifo).pid]
      /\ Has(fifo, Head(fifo).pid) /\ Distinct(Tail(fifo))
      /\ \A p : Has(Tail(fifo), p) <=> Has(fifo, p) /\ p # Head(fifo).pid
      /\ \A i \in 1 .. Len(Tail(fifo)) :
            i + 1 \in 1 .. Len(fifo) /\ Tail(fifo)[i] = fifo[i + 1]
  BY <1>1, OldestReport, Zenon DEF ProcessUnhandled
<1>s. \A i \in 1 .. Len(fifo) : fifo[i].pid \in Qemu
  BY Senders, Zenon DEF TypeOK
<1>d. /\ pc = "drain" /\ fifo' = Tail(fifo) /\ ready[h]
      /\ UNCHANGED <<pc, stage, curQemu, isAfterWait, currentQemuAfterWait, msgFault,
                     started, cur_stage, ready, ctrl, qpc, qfault, testStage>>
  BY <1>1, <1>a, Zenon DEF ProcessUnhandled, aflVars, qemuVars, AflInv
<1>e. /\ handled' = [handled EXCEPT ![h] = TRUE]
      /\ \A p \in Qemu : p # h => trace'[p] = trace[p] /\ out_file'[p] = out_file[p]
      /\ trace'[h] \in {"clear", "classified"}
  <2>1. CASE handled[h]
    <3>1. trace[h] \in {"clear", "classified"}
      BY <1>1, <1>a, <2>1, Zenon DEF QemuInv
    <3>2. UNCHANGED <<handled, trace, out_file>>
      BY <2>1, ZenonT(60) DEF ProcessUnhandled
    <3> QED
      BY <1>a, <2>1, <3>1, <3>2 DEF TypeOK
  <2>2. CASE ~handled[h]
    <3>1. out_file[h] /\ trace[h] \in {"clear", "raw"}
      BY <1>1, <1>a, <2>2, Zenon DEF QemuInv
    <3> QED
      BY <1>a, <2>2, <3>1 DEF ProcessUnhandled, HandleOneTestDone, Classify, TypeOK
  <2> QED
    BY <2>1, <2>2, ZenonT(60)
<1> HIDE DEF h
<1>2. SetupInv'
  BY <1>d, Zenon DEF SetupInv
<1>3. AflInv'
  BY <1>1, <1>d, Zenon DEF AflInv
<1>4. FifoInv'
  <2>1. Distinct(fifo')
    BY <1>a, <1>d, Zenon
  <2>2. ASSUME NEW i \in 1 .. Len(fifo')
        PROVE  handled'[fifo'[i].pid] \/ fifo'[i].fault = qfault'[fifo'[i].pid]
    <3>1. i + 1 \in 1 .. Len(fifo) /\ fifo'[i] = fifo[i + 1]
      BY <1>a, <1>d, Zenon
    <3>2. fifo[i + 1].pid \in Qemu
      BY <1>s, <3>1, Zenon
    <3>3. handled[fifo[i + 1].pid] => handled'[fifo[i + 1].pid]
      BY <1>e, <3>2, ZenonT(60) DEF TypeOK
    <3> QED
      BY <1>1, <1>d, <3>1, <3>3, Zenon DEF FifoInv
  <2> QED
    BY <2>1, <2>2, Zenon DEF FifoInv
<1>5. ASSUME NEW p \in Qemu PROVE QemuInv(p)'
  <2>1. QemuInv(p) /\ (Has(fifo', p) <=> Has(fifo, p) /\ p # h)
    BY <1>1, <1>a, <1>d, Zenon DEF h
  <2>2. CASE p = h
    BY <1>d, <1>e, <2>1, <2>2, ZenonT(60) DEF QemuInv, Busy, Idle, Lost, At, TypeOK
  <2>3. CASE p # h
    BY <1>d, <1>e, <2>1, <2>3, ZenonT(60) DEF QemuInv, Busy, Idle, Lost, At, TypeOK
  <2> QED
    BY <2>2, <2>3, Zenon
<1> QED
  BY <1>2, <1>3, <1>4, <1>5, Zenon DEF ProtocolInv

(* The barrier ends: every result is handled, so the stage may change.     *)
LEMMA BarrierStep ==
    ASSUME TypeOK, ProtocolInv, BarrierDone
    PROVE  ProtocolInv'
<1>1. SetupInv /\ AflInv /\ FifoInv /\ \A p \in Qemu : QemuInv(p)
  BY Zenon DEF ProtocolInv
<1>2. SetupInv'
  BY <1>1, Zenon DEF BarrierDone, instVars, chanVars, qemuVars, SetupInv
<1>3. AflInv'
  BY <1>1, Zenon DEF BarrierDone, instVars, chanVars, qemuVars, AflInv, TypeOK
<1>4. FifoInv'
  BY <1>1, Zenon DEF BarrierDone, instVars, chanVars, qemuVars, FifoInv
<1>5. ASSUME NEW p \in Qemu PROVE QemuInv(p)'
  <2>1. QemuInv(p) /\ ready[p] /\ ~Has(fifo, p)
    BY <1>1 DEF BarrierDone, AflInv, Has
  <2>2. handled[p]
    BY <2>1, Zenon DEF BarrierDone, QemuInv, At
  <2> QED
    BY <2>1, <2>2, Zenon DEF BarrierDone, instVars, chanVars, qemuVars, QemuInv, Busy, Idle, Lost, At, TypeOK
<1> QED
  BY <1>2, <1>3, <1>4, <1>5, Zenon DEF ProtocolInv

(* The stop signal arrives.                                                *)
LEMMA SignalStep ==
    ASSUME TypeOK, ProtocolInv, HandleStopSig
    PROVE  ProtocolInv'
<1>1. SetupInv /\ AflInv /\ FifoInv /\ \A p \in Qemu : QemuInv(p)
  BY Zenon DEF ProtocolInv
<1>2. SetupInv'
  BY <1>1, Zenon DEF HandleStopSig, instVars, chanVars, qemuVars, SetupInv
<1>3. AflInv'
  BY <1>1, Zenon DEF HandleStopSig, instVars, chanVars, qemuVars, AflInv, TypeOK
<1>4. FifoInv'
  BY <1>1, Zenon DEF HandleStopSig, instVars, chanVars, qemuVars, FifoInv
<1>5. ASSUME NEW p \in Qemu PROVE QemuInv(p)'
  <2>1. QemuInv(p)
    BY <1>1, Zenon
  <2> QED
    BY <1>1, <2>1, ZenonT(60) DEF HandleStopSig, instVars, chanVars, qemuVars, AflInv, QemuInv, Busy, Idle, Lost, At, TypeOK
<1> QED
  BY <1>2, <1>3, <1>4, <1>5, Zenon DEF ProtocolInv

(* afl-fuzz leaves its main loop.                                          *)
LEMMA StopStep ==
    ASSUME TypeOK, ProtocolInv, StopFuzzing
    PROVE  ProtocolInv'
<1>1. SetupInv /\ AflInv /\ FifoInv /\ \A p \in Qemu : QemuInv(p)
  BY Zenon DEF ProtocolInv
<1>2. SetupInv'
  BY <1>1, Zenon DEF StopFuzzing, instVars, chanVars, qemuVars, SetupInv
<1>3. AflInv'
  BY <1>1, Zenon DEF StopFuzzing, instVars, chanVars, qemuVars, AflInv, TypeOK
<1>4. FifoInv'
  BY <1>1, Zenon DEF StopFuzzing, instVars, chanVars, qemuVars, FifoInv
<1>5. ASSUME NEW p \in Qemu PROVE QemuInv(p)'
  <2>1. QemuInv(p)
    BY <1>1, Zenon
  <2> QED
    BY <1>1, <2>1, ZenonT(60) DEF StopFuzzing, instVars, chanVars, qemuVars, AflInv, QemuInv, Busy, Idle, Lost, At, TypeOK
<1> QED
  BY <1>2, <1>3, <1>4, <1>5, Zenon DEF ProtocolInv

-----------------------------------------------------------------------------
(* A QEMU has mapped its trace segment.                                    *)
LEMMA MapStep ==
    ASSUME TypeOK, ProtocolInv, NEW q \in Qemu, GetAFLBitmapSHM(q)
    PROVE  ProtocolInv'
<1>1. SetupInv /\ AflInv /\ FifoInv /\ \A p \in Qemu : QemuInv(p)
  BY Zenon DEF ProtocolInv
<1>2. SetupInv'
  BY <1>1 DEF GetAFLBitmapSHM, aflVars, instVars, chanVars, SetupInv, TypeOK
<1>3. AflInv'
  BY <1>1, Zenon DEF GetAFLBitmapSHM, aflVars, instVars, chanVars, AflInv, TypeOK
<1>4. FifoInv'
  BY <1>1, Zenon DEF GetAFLBitmapSHM, aflVars, instVars, chanVars, FifoInv
<1>5. ASSUME NEW p \in Qemu PROVE QemuInv(p)'
  <2>1. QemuInv(p)
    BY <1>1, Zenon
  <2>2. CASE p = q
    BY <2>1, <2>2, Zenon DEF GetAFLBitmapSHM, aflVars, instVars, chanVars, QemuInv, Busy, Idle, Lost, At, TypeOK
  <2>3. CASE p # q
    BY <2>1, <2>3, ZenonT(60) DEF GetAFLBitmapSHM, aflVars, instVars, chanVars, QemuInv, Busy, Idle, Lost, At, TypeOK
  <2> QED
    BY <2>2, <2>3, Zenon
<1> QED
  BY <1>2, <1>3, <1>4, <1>5, Zenon DEF ProtocolInv

(* A QEMU picks up its order.                                              *)
LEMMA WaitStep ==
    ASSUME TypeOK, ProtocolInv, NEW q \in Qemu, WaitAflTestcase(q)
    PROVE  ProtocolInv'
<1>1. SetupInv /\ AflInv /\ FifoInv /\ \A p \in Qemu : QemuInv(p)
  BY Zenon DEF ProtocolInv
<1>2. SetupInv'
  BY <1>1, Zenon DEF WaitAflTestcase, aflVars, instVars, SetupInv, TypeOK
<1>3. AflInv'
  BY <1>1, Zenon DEF WaitAflTestcase, aflVars, instVars, AflInv, TypeOK
<1>4. FifoInv'
  BY <1>1, Zenon DEF WaitAflTestcase, aflVars, instVars, FifoInv
<1>5. ASSUME NEW p \in Qemu PROVE QemuInv(p)'
  <2>1. QemuInv(p)
    BY <1>1, Zenon
  <2>2. CASE p = q
    <3>1. Len(ctrl[q]) = 1 /\ ctrl[q] \in Seq(Order)
      BY <2>1, <2>2, Zenon DEF WaitAflTestcase, QemuInv, TypeOK
    <3>2. Tail(ctrl[q]) = <<>>
      <4>1. Tail(ctrl[q]) \in Seq(Order) /\ Len(Tail(ctrl[q])) = 0
        BY <3>1, SMTT(30)
      <4> QED
        BY <4>1, NoLength, Zenon
    <3>3. ctrl'[p] = <<>> /\ qpc'[p] = "got"
      BY <2>2, <3>2, Zenon DEF WaitAflTestcase, TypeOK
    <3> QED
      BY <2>1, <2>2, <3>3, Zenon DEF WaitAflTestcase, aflVars, instVars, QemuInv, Busy, Idle, Lost, At
  <2>3. CASE p # q
    BY <2>1, <2>3, ZenonT(60) DEF WaitAflTestcase, aflVars, instVars, QemuInv, Busy, Idle, Lost, At, TypeOK
  <2> QED
    BY <2>2, <2>3, Zenon
<1> QED
  BY <1>2, <1>3, <1>4, <1>5, Zenon DEF ProtocolInv

(* A QEMU runs the target.                                                 *)
LEMMA ExecStep ==
    ASSUME TypeOK, ProtocolInv, NEW q \in Qemu, ExecuteTarget(q)
    PROVE  ProtocolInv'
<1>1. SetupInv /\ AflInv /\ FifoInv /\ \A p \in Qemu : QemuInv(p)
  BY Zenon DEF ProtocolInv
<1>2. SetupInv'
  BY <1>1, Zenon DEF ExecuteTarget, aflVars, instVars, SetupInv, TypeOK
<1>3. AflInv'
  BY <1>1, Zenon DEF ExecuteTarget, aflVars, instVars, AflInv, TypeOK
<1>4. FifoInv'
  BY <1>1, Zenon DEF ExecuteTarget, aflVars, instVars, FifoInv
<1>5. ASSUME NEW p \in Qemu PROVE QemuInv(p)'
  <2>1. QemuInv(p)
    BY <1>1, Zenon
  <2>2. CASE p = q
    BY <2>1, <2>2, ZenonT(60) DEF ExecuteTarget, aflVars, instVars, QemuInv, Busy, Idle, Lost, At, TypeOK
  <2>3. CASE p # q
    BY <2>1, <2>3, ZenonT(60) DEF ExecuteTarget, aflVars, instVars, QemuInv, Busy, Idle, Lost, At, TypeOK
  <2> QED
    BY <2>2, <2>3, Zenon
<1> QED
  BY <1>2, <1>3, <1>4, <1>5, Zenon DEF ProtocolInv

(* A QEMU sets its ready byte after its report.                            *)
LEMMA ReadyStep ==
    ASSUME TypeOK, ProtocolInv, NEW q \in Qemu, SetReady(q)
    PROVE  ProtocolInv'
<1>1. SetupInv /\ AflInv /\ FifoInv /\ \A p \in Qemu : QemuInv(p)
  BY Zenon DEF ProtocolInv
<1>2. SetupInv'
  BY <1>1, Zenon DEF SetReady, aflVars, instVars, SetupInv, TypeOK
<1>3. AflInv'
  BY <1>1, ZenonT(60) DEF SetReady, aflVars, instVars, AflInv, TypeOK
<1>4. FifoInv'
  BY <1>1, Zenon DEF SetReady, aflVars, instVars, FifoInv
<1>5. ASSUME NEW p \in Qemu PROVE QemuInv(p)'
  <2>1. QemuInv(p)
    BY <1>1, Zenon
  <2>2. CASE p = q
    BY <2>1, <2>2, ZenonT(60) DEF SetReady, aflVars, instVars, QemuInv, Busy, Idle, Lost, At, TypeOK
  <2>3. CASE p # q
    BY <2>1, <2>3, ZenonT(60) DEF SetReady, aflVars, instVars, QemuInv, Busy, Idle, Lost, At, TypeOK
  <2> QED
    BY <2>2, <2>3, Zenon
<1> QED
  BY <1>2, <1>3, <1>4, <1>5, Zenon DEF ProtocolInv

(* A QEMU is lost: nothing it shares with afl-fuzz moves.                  *)
LEMMA ForeignStep ==
    ASSUME TypeOK, ProtocolInv, NEW q \in Qemu, TerminateOnForeignFault(q)
    PROVE  ProtocolInv'
<1>1. SetupInv /\ AflInv /\ FifoInv /\ \A p \in Qemu : QemuInv(p)
  BY Zenon DEF ProtocolInv
<1>2. SetupInv'
  BY <1>1, Zenon DEF TerminateOnForeignFault, aflVars, instVars, chanVars, SetupInv, TypeOK
<1>3. AflInv'
  BY <1>1, Zenon DEF TerminateOnForeignFault, aflVars, instVars, chanVars, AflInv, TypeOK
<1>4. FifoInv'
  BY <1>1, Zenon DEF TerminateOnForeignFault, aflVars, instVars, chanVars, FifoInv
<1>5. ASSUME NEW p \in Qemu PROVE QemuInv(p)'
  <2>1. QemuInv(p)
    BY <1>1, Zenon
  <2>2. CASE p = q
    BY <2>1, <2>2, ZenonT(60) DEF TerminateOnForeignFault, aflVars, instVars, chanVars, QemuInv, Busy, Idle, Lost, At, TypeOK
  <2>3. CASE p # q
    BY <2>1, <2>3, ZenonT(60) DEF TerminateOnForeignFault, aflVars, instVars, chanVars, QemuInv, Busy, Idle, Lost, At, TypeOK
  <2> QED
    BY <2>2, <2>3, Zenon
<1> QED
  BY <1>2, <1>3, <1>4, <1>5, Zenon DEF ProtocolInv

(* A QEMU dies on its report once afl-fuzz is gone.                        *)
LEMMA FailStep ==
    ASSUME TypeOK, ProtocolInv, NEW q \in Qemu, ReportFails(q)
    PROVE  ProtocolInv'
<1>1. SetupInv /\ AflInv /\ FifoInv /\ \A p \in Qemu : QemuInv(p)
  BY Zenon DEF ProtocolInv
<1>2. SetupInv'
  BY <1>1, Zenon DEF ReportFails, aflVars, instVars, chanVars, SetupInv, TypeOK
<1>3. AflInv'
  BY <1>1, Zenon DEF ReportFails, aflVars, instVars, chanVars, AflInv, TypeOK
<1>4. FifoInv'
  BY <1>1, Zenon DEF ReportFails, aflVars, instVars, chanVars, FifoInv
<1>5. ASSUME NEW p \in Qemu PROVE QemuInv(p)'
  <2>1. QemuInv(p)
    BY <1>1, Zenon
  <2>2. CASE p = q
    BY <2>1, <2>2, Zenon DEF ReportFails, aflVars, instVars, chanVars, QemuInv, Busy, Idle, Lost, At, TypeOK
  <2>3. CASE p # q
    BY <2>1, <2>3, ZenonT(60) DEF ReportFails, aflVars, instVars, chanVars, QemuInv, Busy, Idle, Lost, At, TypeOK
  <2> QED
    BY <2>2, <2>3, Zenon
<1> QED
  BY <1>2, <1>3, <1>4, <1>5, Zenon DEF ProtocolInv

(* A step of one QEMU leaves what is known of another as it was.           *)
LEMMA OtherQemu ==
    ASSUME NEW p \in Qemu, QemuInv(p),
           UNCHANGED <<aflVars, instVars, ready, ctrl, trace, testStage>>,
           qpc'[p] = qpc[p], Has(fifo', p) <=> Has(fifo, p)
    PROVE  QemuInv(p)'
<1>1. (Busy(p)' <=> Busy(p)) /\ (Idle(p)' <=> Idle(p))
  BY Zenon DEF Busy, Idle
<1>2. /\ At(p, {"spin", "write", "run", "tell"})' <=> At(p, {"spin", "write", "run", "tell"})
      /\ At(p, {"write", "run", "tell"})' <=> At(p, {"write", "run", "tell"})
      /\ At(p, {"spin", "write"})' <=> At(p, {"spin", "write"})
      /\ At(p, {"spin"})' <=> At(p, {"spin"})
      /\ At(p, {"tell"})' <=> At(p, {"tell"})
  BY Zenon DEF At, aflVars
<1>3. Lost(p)' <=> Lost(p)
  BY <1>2, Zenon DEF Lost, instVars
<1>4. /\ pc' = pc /\ stage' = stage /\ isAfterWait' = isAfterWait
      /\ currentQemuAfterWait' = currentQemuAfterWait
      /\ ready' = ready /\ handled' = handled /\ started' = started /\ out_file' = out_file
      /\ cur_stage' = cur_stage /\ testStage' = testStage /\ trace' = trace /\ ctrl' = ctrl
  BY Zenon DEF aflVars, instVars
<1> QED
  BY ONLY QemuInv(p), <1>1, <1>2, <1>3, <1>4, qpc'[p] = qpc[p], Has(fifo', p) <=> Has(fifo, p),
     ZenonT(60) DEF QemuInv

(* The start-up report of a QEMU.                                          *)
LEMMA BootStep ==
    ASSUME TypeOK, ProtocolInv, NEW q \in Qemu, InitQemuQueue(q)
    PROVE  ProtocolInv'
<1>1. SetupInv /\ AflInv /\ FifoInv /\ \A p \in Qemu : QemuInv(p)
  BY Zenon DEF ProtocolInv
<1> DEFINE m == Report(q, "NONE")
<1>m. m \in Message /\ m.pid = q /\ m.fault = "NONE" /\ fifo' = Append(fifo, m)
  BY Zenon DEF InitQemuQueue, Report, Message, Fault
<1> HIDE DEF m
<1>a. /\ qpc[q] = "mapped" /\ pc = "setup" /\ qpc' = [qpc EXCEPT ![q] = "wait"]
      /\ UNCHANGED qfault
      /\ UNCHANGED <<aflVars, instVars, ready, ctrl, trace, testStage>>
  BY <1>1, Zenon DEF InitQemuQueue, QemuInv
<1>b. /\ ~Has(fifo, q) /\ (handled[q] \/ m.fault = qfault'[q])
      /\ pc \in {"spin", "write"} => curQemu # q
  BY <1>1, <1>a, <1>m, Zenon DEF SetupInv, QemuInv, Busy, At, TypeOK
<1>c. /\ \A p : Has(fifo', p) <=> Has(fifo, p) \/ p = q
      /\ Distinct(fifo')
      /\ \A i \in 1 .. Len(fifo') :
            \/ i \in 1 .. Len(fifo) /\ fifo'[i] = fifo[i]
            \/ fifo'[i] = m
  <2>1. fifo \in Seq(Message) /\ m \in Message /\ Distinct(fifo) /\ ~Has(fifo, m.pid)
    BY <1>1, <1>b, <1>m, Zenon DEF FifoInv, TypeOK
  <2>2. /\ \A p : Has(Append(fifo, m), p) <=> Has(fifo, p) \/ p = m.pid
        /\ Distinct(Append(fifo, m))
        /\ \A i \in 1 .. Len(Append(fifo, m)) :
              \/ i \in 1 .. Len(fifo) /\ Append(fifo, m)[i] = fifo[i]
              \/ Append(fifo, m)[i] = m
    BY <2>1, AppendFacts, Zenon
  <2> QED
    BY <1>m, <2>2, Zenon
<1>d. \A i \in 1 .. Len(fifo) : fifo[i].pid \in Qemu /\ fifo[i].pid # q
  BY <1>b, Senders, Zenon DEF TypeOK
<1>2. SetupInv'
  <2>1. /\ ~isAfterWait' /\ curQemu' = NoQemu /\ currentQemuAfterWait' = 0
        /\ UNCHANGED <<handled, ready, started, ctrl>>
        /\ \A p \in Qemu : qpc'[p] = IF p = q THEN "wait" ELSE qpc[p]
    BY <1>1, <1>a DEF SetupInv, aflVars, instVars, TypeOK
  <2>2. ASSUME NEW p \in Qemu
        PROVE  /\ handled'[p] /\ ready'[p] /\ ~started'[p] /\ ctrl'[p] = <<>>
               /\ qpc'[p] \in {"launched", "mapped", "wait"}
               /\ Has(fifo', p) <=> qpc'[p] = "wait"
    BY <1>1, <1>a, <1>c, <2>1, ZenonT(60) DEF SetupInv
  <2> QED
    BY <2>1, <2>2, Zenon DEF SetupInv
<1>3. AflInv'
  <2>1. pc \in {"spin", "write"} => curQemu \in Qemu /\ qfault'[curQemu] = qfault[curQemu]
    BY <1>a, <1>b, Zenon DEF TypeOK
  <2> QED
    BY <1>1, <1>a, <2>1, Zenon DEF AflInv, aflVars, instVars
<1>4. FifoInv'
  <2> SUFFICES ASSUME NEW i \in 1 .. Len(fifo')
               PROVE  handled'[fifo'[i].pid] \/ fifo'[i].fault = qfault'[fifo'[i].pid]
    BY <1>c, Zenon DEF FifoInv
  <2>1. CASE fifo'[i] = m
    BY <1>a, <1>b, <1>m, <2>1, Zenon DEF instVars
  <2>2. CASE i \in 1 .. Len(fifo) /\ fifo'[i] = fifo[i]
    <3>1. fifo[i].pid \in Qemu /\ qfault'[fifo[i].pid] = qfault[fifo[i].pid]
      BY <1>a, <1>d, <2>2, Zenon DEF TypeOK
    <3> QED
      BY <1>1, <1>a, <2>2, <3>1, Zenon DEF FifoInv, instVars
  <2> QED
    BY <1>c, <2>1, <2>2, Zenon
<1>5. ASSUME NEW p \in Qemu PROVE QemuInv(p)'
  <2>1. QemuInv(p) /\ (Has(fifo', p) <=> Has(fifo, p) \/ p = q)
    BY <1>1, <1>c, Zenon
  <2>2. CASE p = q
    <3>1. qpc'[p] = "wait" /\ ctrl[p] = <<>> /\ ready[p] /\ handled[p] /\ ~started[p] /\ ~isAfterWait
      BY <1>1, <1>a, <2>2 DEF TypeOK, SetupInv
    <3> QED
      BY <1>a, <2>1, <2>2, <3>1, ZenonT(60) DEF aflVars, instVars, QemuInv, Busy, Idle, Lost, At
  <2>3. CASE p # q
    <3>1. qpc'[p] = qpc[p] /\ (Has(fifo', p) <=> Has(fifo, p))
      BY <1>a, <2>1, <2>3, Zenon DEF TypeOK
    <3>2. UNCHANGED <<aflVars, instVars, ready, ctrl, trace, testStage>>
      BY <1>a, Zenon
    <3>3. QemuInv(p)
      BY <2>1, Zenon
    <3> QED
      BY <3>1, <3>2, <3>3, OtherQemu, Zenon
  <2> QED
    BY <2>2, <2>3, Zenon
<1> QED
  BY <1>2, <1>3, <1>4, <1>5, Zenon DEF ProtocolInv

(* A redundant testcase is reported.                                       *)
LEMMA RedundantStep ==
    ASSUME TypeOK, ProtocolInv, NEW q \in Qemu, ReportRedundant(q)
    PROVE  ProtocolInv'
<1>1. SetupInv /\ AflInv /\ FifoInv /\ \A p \in Qemu : QemuInv(p)
  BY Zenon DEF ProtocolInv
<1> DEFINE m == Report(q, "REDUNDANT")
<1>m. m \in Message /\ m.pid = q /\ m.fault = "REDUNDANT" /\ fifo' = Append(fifo, m)
  BY Zenon DEF ReportRedundant, Report, Message, Fault
<1> HIDE DEF m
<1>a. /\ qpc[q] \in {"got", "exec"} /\ qpc' = [qpc EXCEPT ![q] = "reported"]
      /\ qfault' = [qfault EXCEPT ![q] = "REDUNDANT"]
      /\ UNCHANGED <<aflVars, instVars, ready, ctrl, trace, testStage>>
  BY <1>1, Zenon DEF ReportRedundant, QemuInv
<1>b. /\ ~Has(fifo, q) /\ (handled[q] \/ m.fault = qfault'[q])
      /\ pc \in {"spin", "write"} => curQemu # q
  BY <1>1, <1>a, <1>m, Zenon DEF SetupInv, QemuInv, Busy, At, TypeOK
<1>c. /\ \A p : Has(fifo', p) <=> Has(fifo, p) \/ p = q
      /\ Distinct(fifo')
      /\ \A i \in 1 .. Len(fifo') :
            \/ i \in 1 .. Len(fifo) /\ fifo'[i] = fifo[i]
            \/ fifo'[i] = m
  <2>1. fifo \in Seq(Message) /\ m \in Message /\ Distinct(fifo) /\ ~Has(fifo, m.pid)
    BY <1>1, <1>b, <1>m, Zenon DEF FifoInv, TypeOK
  <2>2. /\ \A p : Has(Append(fifo, m), p) <=> Has(fifo, p) \/ p = m.pid
        /\ Distinct(Append(fifo, m))
        /\ \A i \in 1 .. Len(Append(fifo, m)) :
              \/ i \in 1 .. Len(fifo) /\ Append(fifo, m)[i] = fifo[i]
              \/ Append(fifo, m)[i] = m
    BY <2>1, AppendFacts, Zenon
  <2> QED
    BY <1>m, <2>2, Zenon
<1>d. \A i \in 1 .. Len(fifo) : fifo[i].pid \in Qemu /\ fifo[i].pid # q
  BY <1>b, Senders, Zenon DEF TypeOK
<1>2. SetupInv'
  BY <1>1, <1>a, Zenon DEF SetupInv, aflVars, TypeOK
<1>3. AflInv'
  <2>1. pc \in {"spin", "write"} => curQemu \in Qemu /\ qfault'[curQemu] = qfault[curQemu]
    BY <1>a, <1>b, Zenon DEF TypeOK
  <2> QED
    BY <1>1, <1>a, <2>1, Zenon DEF AflInv, aflVars, instVars
<1>4. FifoInv'
  <2> SUFFICES ASSUME NEW i \in 1 .. Len(fifo')
               PROVE  handled'[fifo'[i].pid] \/ fifo'[i].fault = qfault'[fifo'[i].pid]
    BY <1>c, Zenon DEF FifoInv
  <2>1. CASE fifo'[i] = m
    BY <1>a, <1>b, <1>m, <2>1, Zenon DEF instVars
  <2>2. CASE i \in 1 .. Len(fifo) /\ fifo'[i] = fifo[i]
    <3>1. fifo[i].pid \in Qemu /\ qfault'[fifo[i].pid] = qfault[fifo[i].pid]
      BY <1>a, <1>d, <2>2, Zenon DEF TypeOK
    <3> QED
      BY <1>1, <1>a, <2>2, <3>1, Zenon DEF FifoInv, instVars
  <2> QED
    BY <1>c, <2>1, <2>2, Zenon
<1>5. ASSUME NEW p \in Qemu PROVE QemuInv(p)'
  <2>1. QemuInv(p) /\ (Has(fifo', p) <=> Has(fifo, p) \/ p = q)
    BY <1>1, <1>c, Zenon
  <2>2. CASE p = q
    <3>1. qpc'[p] = "reported"
      BY <1>1, <1>a, <2>2, Zenon DEF TypeOK
    <3> QED
      BY <1>a, <2>1, <2>2, <3>1, Zenon DEF aflVars, instVars, QemuInv, Busy, Idle, Lost, At
  <2>3. CASE p # q
    <3>1. qpc'[p] = qpc[p] /\ (Has(fifo', p) <=> Has(fifo, p))
      BY <1>a, <2>1, <2>3, Zenon DEF TypeOK
    <3>2. UNCHANGED <<aflVars, instVars, ready, ctrl, trace, testStage>>
      BY <1>a, Zenon
    <3>3. QemuInv(p)
      BY <2>1, Zenon
    <3> QED
      BY <3>1, <3>2, <3>3, OtherQemu, Zenon
  <2> QED
    BY <2>2, <2>3, Zenon
<1> QED
  BY <1>2, <1>3, <1>4, <1>5, Zenon DEF ProtocolInv

(* The end of a test is reported, whatever its outcome.                    *)
LEMMA OutcomeStep ==
    ASSUME TypeOK, ProtocolInv, NEW q \in Qemu, NEW f \in Fault, TellAfl(q, f)
    PROVE  ProtocolInv'
<1>1. SetupInv /\ AflInv /\ FifoInv /\ \A p \in Qemu : QemuInv(p)
  BY Zenon DEF ProtocolInv
<1> DEFINE m == Report(q, f)
<1>m. m \in Message /\ m.pid = q /\ m.fault = f /\ fifo' = Append(fifo, m)
  BY Zenon DEF TellAfl, Report, Message, Fault
<1> HIDE DEF m
<1>a. /\ qpc[q] \in {"got", "exec"} /\ qpc' = [qpc EXCEPT ![q] = "reported"]
      /\ qfault' = [qfault EXCEPT ![q] = f]
      /\ UNCHANGED <<aflVars, instVars, ready, ctrl, trace, testStage>>
  BY <1>1, Zenon DEF TellAfl, QemuInv
<1>b. /\ ~Has(fifo, q) /\ (handled[q] \/ m.fault = qfault'[q])
      /\ pc \in {"spin", "write"} => curQemu # q
  BY <1>1, <1>a, <1>m, Zenon DEF SetupInv, QemuInv, Busy, At, TypeOK
<1>c. /\ \A p : Has(fifo', p) <=> Has(fifo, p) \/ p = q
      /\ Distinct(fifo')
      /\ \A i \in 1 .. Len(fifo') :
            \/ i \in 1 .. Len(fifo) /\ fifo'[i] = fifo[i]
            \/ fifo'[i] = m
  <2>1. fifo \in Seq(Message) /\ m \in Message /\ Distinct(fifo) /\ ~Has(fifo, m.pid)
    BY <1>1, <1>b, <1>m, Zenon DEF FifoInv, TypeOK
  <2>2. /\ \A p : Has(Append(fifo, m), p) <=> Has(fifo, p) \/ p = m.pid
        /\ Distinct(Append(fifo, m))
        /\ \A i \in 1 .. Len(Append(fifo, m)) :
              \/ i \in 1 .. Len(fifo) /\ Append(fifo, m)[i] = fifo[i]
              \/ Append(fifo, m)[i] = m
    BY <2>1, AppendFacts, Zenon
  <2> QED
    BY <1>m, <2>2, Zenon
<1>d. \A i \in 1 .. Len(fifo) : fifo[i].pid \in Qemu /\ fifo[i].pid # q
  BY <1>b, Senders, Zenon DEF TypeOK
<1>2. SetupInv'
  BY <1>1, <1>a, Zenon DEF SetupInv, aflVars, TypeOK
<1>3. AflInv'
  <2>1. pc \in {"spin", "write"} => curQemu \in Qemu /\ qfault'[curQemu] = qfault[curQemu]
    BY <1>a, <1>b, Zenon DEF TypeOK
  <2> QED
    BY <1>1, <1>a, <2>1, Zenon DEF AflInv, aflVars, instVars
<1>4. FifoInv'
  <2> SUFFICES ASSUME NEW i \in 1 .. Len(fifo')
               PROVE  handled'[fifo'[i].pid] \/ fifo'[i].fault = qfault'[fifo'[i].pid]
    BY <1>c, Zenon DEF FifoInv
  <2>1. CASE fifo'[i] = m
    BY <1>a, <1>b, <1>m, <2>1, Zenon DEF instVars
  <2>2. CASE i \in 1 .. Len(fifo) /\ fifo'[i] = fifo[i]
    <3>1. fifo[i].pid \in Qemu /\ qfault'[fifo[i].pid] = qfault[fifo[i].pid]
      BY <1>a, <1>d, <2>2, Zenon DEF TypeOK
    <3> QED
      BY <1>1, <1>a, <2>2, <3>1, Zenon DEF FifoInv, instVars
  <2> QED
    BY <1>c, <2>1, <2>2, Zenon
<1>5. ASSUME NEW p \in Qemu PROVE QemuInv(p)'
  <2>1. QemuInv(p) /\ (Has(fifo', p) <=> Has(fifo, p) \/ p = q)
    BY <1>1, <1>c, Zenon
  <2>2. CASE p = q
    <3>1. qpc'[p] = "reported"
      BY <1>1, <1>a, <2>2, Zenon DEF TypeOK
    <3> QED
      BY <1>a, <2>1, <2>2, <3>1, Zenon DEF aflVars, instVars, QemuInv, Busy, Idle, Lost, At
  <2>3. CASE p # q
    <3>1. qpc'[p] = qpc[p] /\ (Has(fifo', p) <=> Has(fifo, p))
      BY <1>a, <2>1, <2>3, Zenon DEF TypeOK
    <3>2. UNCHANGED <<aflVars, instVars, ready, ctrl, trace, testStage>>
      BY <1>a, Zenon
    <3>3. QemuInv(p)
      BY <2>1, Zenon
    <3> QED
      BY <3>1, <3>2, <3>3, OtherQemu, Zenon
  <2> QED
    BY <2>2, <2>3, Zenon
<1> QED
  BY <1>2, <1>3, <1>4, <1>5, Zenon DEF ProtocolInv

-----------------------------------------------------------------------------
(* The dispatcher keeps its protocol for any number of QEMUs, whatever the *)
(* interleaving of afl-fuzz, the QEMUs and the stop signal, and whether or *)
(* not tests end without a report, provided that the QEMUs had started     *)
(* when afl-fuzz began (the sleep in InitQemuQueue).                       *)
THEOREM ProtocolCorrect ==
    ASSUME BootSettled
    PROVE  Spec => []ProtocolInv
<1>1. Init => ProtocolInv
  <2> SUFFICES ASSUME Init PROVE ProtocolInv
    BY Zenon
  <2>1. FifoInv /\ \A q \in Qemu : ~Has(fifo, q)
    <3>1. Len(fifo) = 0
      BY Zenon DEF Init
    <3> QED
      BY <3>1 DEF FifoInv, Has, Distinct
  <2>2. SetupInv /\ AflInv
    BY <2>1, Zenon DEF Init, SetupInv, AflInv
  <2>3. ASSUME NEW q \in Qemu PROVE QemuInv(q)
    BY <2>1, Zenon DEF Init, QemuInv, Busy, Idle, At, Lost
  <2> QED
    BY <2>1, <2>2, <2>3, Zenon DEF ProtocolInv
<1>2. TypeOK /\ ProtocolInv /\ [Next]_vars => ProtocolInv'
  <2> SUFFICES ASSUME TypeOK, ProtocolInv, [Next]_vars
               PROVE  ProtocolInv'
    BY Zenon
  <2>1. CASE AflNext
    BY <2>1, BootSettled, SetupStep, FeedStep, PollStep, ReadStep, SpinStep, WriteStep, RunStep,
       TellStep, EndStep, FreeStep, DrainStep, BarrierStep, Zenon DEF AflNext
  <2>2. CASE HandleStopSig \/ StopFuzzing
    BY <2>2, SignalStep, StopStep, Zenon
  <2>3. ASSUME NEW q \in Qemu, QemuNext(q) PROVE ProtocolInv'
    <3>1. CASE \E f \in RunFault : TellAfl(q, f)
      BY <3>1, OutcomeStep, Zenon DEF RunFault, Fault
    <3> QED
      BY <2>3, <3>1, MapStep, BootStep, WaitStep, RedundantStep, ExecStep, ReadyStep,
         ForeignStep, FailStep, Zenon DEF QemuNext
  <2>4. CASE UNCHANGED vars
    <3> USE <2>4 DEF vars, aflVars, instVars, chanVars, qemuVars
    <3>1. SetupInv' = SetupInv /\ AflInv' = AflInv /\ FifoInv' = FifoInv
      BY Zenon DEF SetupInv, AflInv, FifoInv
    <3>2. ASSUME NEW q \in Qemu PROVE QemuInv(q)' = QemuInv(q)
      BY ZenonT(60) DEF QemuInv, Busy, Idle, At, Lost
    <3> QED
      BY <3>1, <3>2, Zenon DEF ProtocolInv
  <2> QED
    BY <2>1, <2>2, <2>3, <2>4, Zenon DEF Next, Exited
<1> QED
  BY <1>1, <1>2, TypeCorrect, PTL DEF Spec

(* What follows for the memory afl-fuzz and the QEMUs share without locks: *)
(* afl-fuzz touches the trace and the testcase of idle QEMUs only.         *)
THEOREM ExclusiveAccess ==
    ASSUME BootSettled
    PROVE  Spec => []Exclusive
<1>1. TypeOK /\ ProtocolInv => Exclusive
  BY ZenonT(60) DEF TypeOK, ProtocolInv, AflInv, QemuInv, Exclusive, Idle, Busy, At, Lost
<1> QED
  BY <1>1, TypeCorrect, ProtocolCorrect, PTL

(* The FIFO holds at most one report of each QEMU and none of a busy one.  *)
THEOREM NoReportMistaken ==
    ASSUME BootSettled
    PROVE  Spec => []OneReport
<1>1. ProtocolInv => OneReport
  BY Zenon DEF ProtocolInv, FifoInv, QemuInv, OneReport
<1> QED
  BY <1>1, ProtocolCorrect, PTL

(* The assertion of tell_afl, "I'm free before?", holds.                   *)
THEOREM NeverFreeBefore ==
    ASSUME BootSettled
    PROVE  Spec => []NotFreeBefore
<1>1. ProtocolInv => NotFreeBefore
  BY Zenon DEF ProtocolInv, QemuInv, NotFreeBefore
<1> QED
  BY <1>1, ProtocolCorrect, PTL

(* The QEMUs that are fed without the FIFO after a barrier have no result  *)
(* left to collect.                                                        *)
THEOREM BarrierCollectsAll ==
    ASSUME BootSettled
    PROVE  Spec => []AfterWaitClean
<1>1. ProtocolInv => AfterWaitClean
  BY Zenon DEF ProtocolInv, QemuInv, FifoInv, AfterWaitClean
<1> QED
  BY <1>1, ProtocolCorrect, PTL

(* No trace is classified twice: classify_counts is not idempotent.        *)
THEOREM TracesClassifiedOnce ==
    ASSUME BootSettled
    PROVE  Spec => []ClassifiedOnce
<1>1. ProtocolInv => ClassifiedOnce
  BY Zenon DEF ProtocolInv, QemuInv, ClassifiedOnce
<1> QED
  BY <1>1, ProtocolCorrect, PTL

(* A test is judged by the fault its QEMU reported and by the stage that   *)
(* dispatched it, in write_to_testcase as in process_unhandled_qemus.      *)
THEOREM JudgedCorrectly ==
    ASSUME BootSettled
    PROVE  Spec => JudgedAsReported
<1> DEFINE Judged == \A q \in Qemu : ~handled[q] /\ handled'[q] =>
                        fault'[q] = qfault[q] /\ cur_stage'[q] = testStage[q]
<1>1. TypeOK /\ ProtocolInv /\ [Next]_vars => [Judged]_vars
  <2> SUFFICES ASSUME TypeOK, ProtocolInv, Next PROVE Judged
    BY Zenon DEF vars
  <2>1. CASE handled' = handled
    BY <2>1, Zenon
  <2>2. CASE WriteToTestcase
    <3>1. /\ curQemu \in Qemu
          /\ \A q \in Qemu : q # curQemu => handled'[q] = handled[q]
          /\ fault'[curQemu] = msgFault /\ cur_stage'[curQemu] = stage
      BY <2>2, ZenonT(60) DEF WriteToTestcase, HandleOneTestDone, TypeOK
    <3>2. QemuInv(curQemu) /\ AflInv
      BY <3>1, Zenon DEF ProtocolInv
    <3>3. ~handled[curQemu] => msgFault = qfault[curQemu] /\ testStage[curQemu] = stage
      BY <2>2, <3>2, Zenon DEF WriteToTestcase, AflInv, QemuInv
    <3> QED
      BY <3>1, <3>3, Zenon
  <2>3. CASE RunTarget
    BY <2>3, Zenon DEF RunTarget, TypeOK
  <2>4. CASE ProcessUnhandled
    <3> DEFINE h == Head(fifo).pid
    <3>2. /\ h \in Qemu
          /\ handled[h] \/ Head(fifo).fault = qfault[h]
      BY <2>4, OldestReport, Zenon DEF ProcessUnhandled, ProtocolInv
    <3>3. ~handled[h] => cur_stage[h] = testStage[h]
      BY <3>2, ZenonT(60) DEF ProtocolInv, QemuInv
    <3>4. /\ \A q \in Qemu : q # h => handled'[q] = handled[q]
          /\ handled'[h] # handled[h] => fault'[h] = Head(fifo).fault
          /\ cur_stage' = cur_stage
      <4>1. /\ fault \in [Qemu -> Fault] /\ handled \in [Qemu -> BOOLEAN]
            /\ cur_stage' = cur_stage
        BY <2>4, Zenon DEF ProcessUnhandled, TypeOK
      <4>2. \/ handled' = handled
            \/ /\ fault' = [fault EXCEPT ![h] = Head(fifo).fault]
               /\ handled' = [handled EXCEPT ![h] = TRUE]
        BY <2>4, Zenon DEF ProcessUnhandled, HandleOneTestDone
      <4> HIDE DEF h
      <4> QED
        BY <3>2, <4>1, <4>2, Zenon
    <3> HIDE DEF h
    <3> QED
      BY <3>2, <3>3, <3>4, Zenon
  <2> QED
    BY <2>1, <2>2, <2>3, <2>4, ZenonT(60)
    DEF Next, AflNext, QemuNext, SetupTracebits, FeedAfterWait, PollQueue, ReadQueue,
        SpinReady, TellQemu, EndStage, AllQemusFree, BarrierDone, HandleStopSig,
        StopFuzzing, GetAFLBitmapSHM, InitQemuQueue, WaitAflTestcase, ReportRedundant,
        ExecuteTarget, TellAfl, SetReady, TerminateOnForeignFault, ReportFails, Exited,
        vars, aflVars, instVars
<1> QED
  BY <1>1, TypeCorrect, ProtocolCorrect, PTL DEF Spec, JudgedAsReported

-----------------------------------------------------------------------------
(* handle_onetestdone is the Judge step of TestService.                    *)
LEMMA JudgeStep ==
    ASSUME TypeOK, ProtocolInv, NEW q \in Qemu, ~handled[q], ready[q],
           HandleOneTestDone(q, qfault[q]), UNCHANGED <<qfault, qpc, ready>>
    PROVE  Service!Judge(q)
<1>1. \A p \in Qemu : SlotOf(p)' = IF p = q THEN "free" ELSE SlotOf(p)
  BY Zenon DEF SlotOf, HandleOneTestDone, TypeOK
<1>2. SlotOf(q) = "finished"
  BY Zenon DEF SlotOf
<1>3. \/ qfault[q] = "NONE" /\ \E v \in {0, 1} : cover_new' = [cover_new EXCEPT ![q] = v]
      \/ qfault[q] = "REDUNDANT" /\ cover_new' = [cover_new EXCEPT ![q] = 2]
      \/ qfault[q] = "CRASH" /\ cover_new' = cover_new
  <2>1. qfault[q] \in {"NONE", "REDUNDANT", "CRASH"}
    BY Zenon DEF TypeOK, Fault
  <2>2. CASE qfault[q] = "NONE"
    BY <2>2, Zenon DEF HandleOneTestDone, Verdicts
  <2>3. CASE qfault[q] = "REDUNDANT"
    BY <2>3, Zenon DEF HandleOneTestDone, Verdicts
  <2>4. CASE qfault[q] = "CRASH"
    BY <2>4 DEF HandleOneTestDone, Verdicts, TypeOK
  <2> QED
    BY <2>1, <2>2, <2>3, <2>4, Zenon
<1> QED
  BY <1>1, <1>2, <1>3, Zenon DEF Service!Judge

(* A report makes the slot of its QEMU finished.                           *)
LEMMA FinishStep ==
    ASSUME TypeOK, ProtocolInv, NEW q \in Qemu, NEW f \in Fault,
           qpc[q] \in {"got", "exec"}, qpc' = [qpc EXCEPT ![q] = "reported"],
           qfault' = [qfault EXCEPT ![q] = f],
           UNCHANGED <<handled, ready, cover_new>>
    PROVE  Service!Finish(q)
<1>1. ~handled[q] /\ ~ready[q]
  BY Zenon DEF ProtocolInv, QemuInv, Busy
<1>2. SlotOf(q) = "busy"
  BY <1>1, Zenon DEF SlotOf
<1>3. \A p \in Qemu : SlotOf(p)' = IF p = q THEN "finished" ELSE SlotOf(p)
  BY <1>1, ZenonT(60) DEF SlotOf, TypeOK
<1> QED
  BY <1>2, <1>3, Zenon DEF Service!Finish, Service!Outcome, Fault

(* The dispatcher implements TestService, for any number of QEMUs: each    *)
(* step is a dispatch, the end or the judging of one test, or a stutter.   *)
THEOREM Refinement ==
    ASSUME BootSettled
    PROVE  Spec => ImplementsService
<1>1. Init => Service!SvcInit
  BY DEF Init, Service!SvcInit, SlotOf
<1>2. TypeOK /\ ProtocolInv /\ [Next]_vars => [Service!SvcNext]_(Service!svcVars)
  <2> SUFFICES ASSUME TypeOK, ProtocolInv, [Next]_vars
               PROVE  Service!SvcNext \/ UNCHANGED Service!svcVars
    BY Zenon
  <2>1. CASE WriteToTestcase
    <3>1. curQemu \in Qemu /\ ready[curQemu]
      BY <2>1, ZenonT(60) DEF WriteToTestcase, TypeOK, ProtocolInv, AflInv
    <3>2. CASE started[curQemu] /\ ~handled[curQemu]
      <4>1. HandleOneTestDone(curQemu, qfault[curQemu]) /\ UNCHANGED <<qfault, qpc, ready>>
        BY <2>1, <3>2, Zenon DEF WriteToTestcase, ProtocolInv, AflInv, qemuVars
      <4> QED
        BY <3>1, <3>2, <4>1, JudgeStep, Zenon DEF Service!SvcNext
    <3>3. CASE ~(started[curQemu] /\ ~handled[curQemu])
      BY <2>1, <3>3, Zenon DEF WriteToTestcase, qemuVars, SlotOf, Service!svcVars
    <3> QED
      BY <3>2, <3>3, Zenon
  <2>2. CASE ProcessUnhandled
    <3> DEFINE q == Head(fifo).pid
    <3>1. q \in Qemu /\ (handled[q] \/ Head(fifo).fault = qfault[q])
      BY <2>2, OldestReport, Zenon DEF ProcessUnhandled, ProtocolInv
    <3>2. q \in Qemu /\ ready[q]
      BY <2>2, <3>1, Zenon DEF ProcessUnhandled, ProtocolInv, AflInv
    <3>3. handled[q] \/ Head(fifo).fault = qfault[q]
      BY <3>1, Zenon
    <3>4. CASE ~handled[q] /\ out_file[q]
      <4>1. HandleOneTestDone(q, qfault[q]) /\ UNCHANGED <<qfault, qpc, ready>>
        BY <2>2, <3>3, <3>4, Zenon DEF ProcessUnhandled, qemuVars
      <4> QED
        BY <3>2, <3>4, <4>1, JudgeStep, Zenon DEF Service!SvcNext
    <3>5. CASE ~(~handled[q] /\ out_file[q])
      BY <2>2, <3>5, Zenon DEF ProcessUnhandled, qemuVars, SlotOf, Service!svcVars
    <3> QED
      BY <3>4, <3>5, Zenon
  <2>3. CASE RunTarget
    <3>1. curQemu \in Qemu /\ handled[curQemu] /\ qpc[curQemu] # "reported"
      BY <2>3, ZenonT(60) DEF RunTarget, TypeOK, ProtocolInv, AflInv, QemuInv
    <3>2. \A p \in Qemu : SlotOf(p)' = IF p = curQemu THEN "busy" ELSE SlotOf(p)
      BY <2>3, <3>1, Zenon DEF RunTarget, SlotOf, TypeOK
    <3>3. SlotOf(curQemu) = "free"
      BY <3>1, Zenon DEF SlotOf
    <3>4. Service!Dispatch(curQemu)
      BY <2>3, <3>1, <3>2, <3>3, Zenon DEF RunTarget, Service!Dispatch
    <3> QED
      BY <3>1, <3>4, ZenonT(60) DEF Service!SvcNext
  <2>4. ASSUME NEW q \in Qemu, ReportRedundant(q) \/ \E f \in RunFault : TellAfl(q, f)
        PROVE  Service!SvcNext
    <3>1. PICK f \in Fault :
             /\ qpc[q] \in {"got", "exec"} /\ qpc' = [qpc EXCEPT ![q] = "reported"]
             /\ qfault' = [qfault EXCEPT ![q] = f]
             /\ UNCHANGED <<handled, ready, cover_new>>
      BY <2>4, Zenon DEF ReportRedundant, TellAfl, RunFault, Fault, instVars
    <3> QED
      BY <3>1, FinishStep, Zenon DEF Service!SvcNext
  <2>5. ASSUME NEW q \in Qemu,
               \/ GetAFLBitmapSHM(q) \/ InitQemuQueue(q) \/ WaitAflTestcase(q)
               \/ ExecuteTarget(q) \/ SetReady(q)
               \/ TerminateOnForeignFault(q) \/ ReportFails(q)
        PROVE  UNCHANGED Service!svcVars
    <3>1. \A p \in Qemu : SlotOf(p)' = SlotOf(p)
      <4>1. CASE SetReady(q)
        BY <4>1, Zenon DEF SetReady, SlotOf, TypeOK, instVars
      <4>2. CASE ~SetReady(q)
        <5>1. /\ UNCHANGED <<handled, ready>> /\ qpc[q] # "reported"
              /\ \E s \in {"mapped", "wait", "got", "exec", "dead"} : qpc' = [qpc EXCEPT ![q] = s]
          BY <2>5, <4>2, Zenon DEF GetAFLBitmapSHM, InitQemuQueue, WaitAflTestcase, ExecuteTarget,
             TerminateOnForeignFault, ReportFails, instVars, chanVars
        <5> QED
          BY <5>1, ZenonT(60) DEF SlotOf, TypeOK
      <4> QED
        BY <4>1, <4>2, Zenon
    <3>2. UNCHANGED <<qfault, cover_new>>
      BY <2>5, Zenon DEF GetAFLBitmapSHM, InitQemuQueue, WaitAflTestcase, ExecuteTarget, SetReady,
                  TerminateOnForeignFault, ReportFails, instVars
    <3> QED
      BY <3>1, <3>2, Zenon DEF Service!svcVars
  <2>6. CASE UNCHANGED <<handled, ready, qpc, qfault, cover_new>>
    BY <2>6, Zenon DEF SlotOf, Service!svcVars
  <2> QED
    BY <2>1, <2>2, <2>3, <2>4, <2>5, <2>6, Zenon
    DEF Next, AflNext, QemuNext, SetupTracebits, FeedAfterWait, PollQueue, ReadQueue,
        SpinReady, TellQemu, EndStage, AllQemusFree, BarrierDone, HandleStopSig,
        StopFuzzing, Exited, vars, instVars, chanVars, qemuVars
<1> QED
  BY <1>1, <1>2, TypeCorrect, ProtocolCorrect, PTL
  DEF Spec, ImplementsService, Service!SvcSpec

-----------------------------------------------------------------------------
(* The senders of the reports, oldest first, as the FIFO changes.          *)
LEMMA ReportersAppend ==
    ASSUME TypeOK, NEW m \in Message, fifo' = Append(fifo, m)
    PROVE  Reporters' = Append(Reporters, m.pid)
BY DEF TypeOK, Reporters, Message

LEMMA ReportersTail ==
    ASSUME TypeOK, fifo # <<>>, fifo' = Tail(fifo)
    PROVE  /\ Reporters # <<>> /\ Head(Reporters) = Head(fifo).pid
           /\ Reporters' = Tail(Reporters)
<1>1. /\ fifo \in Seq(Message) /\ Len(fifo) \in Nat \ {0}
      /\ \A i \in 1 .. Len(fifo) : fifo[i].pid \in Qemu
  <2>1. fifo \in Seq(Message) /\ Len(fifo) \in Nat
    BY DEF TypeOK
  <2>2. Len(fifo) # 0
    BY <2>1, NoLength, Zenon
  <2>3. \A i \in 1 .. Len(fifo) : fifo[i].pid \in Qemu
    BY <2>1, Senders, Zenon
  <2> QED BY <2>1, <2>2, <2>3
<1>2. /\ Len(Tail(fifo)) = Len(fifo) - 1 /\ Head(fifo) = fifo[1]
      /\ \A i \in 1 .. Len(fifo) - 1 : Tail(fifo)[i] = fifo[i + 1]
  BY <1>1
<1>3. /\ Reporters \in Seq(Qemu) /\ Len(Reporters) = Len(fifo)
      /\ \A i \in 1 .. Len(fifo) : Reporters[i] = fifo[i].pid
  BY <1>1 DEF Reporters
<1>4. Reporters' = [i \in 1 .. Len(fifo) - 1 |-> Reporters[i + 1]]
  <2>1. \A i \in 1 .. Len(fifo) - 1 : Tail(fifo)[i].pid = Reporters[i + 1]
    BY <1>1, <1>2, <1>3
  <2>2. Reporters' = [i \in 1 .. Len(fifo) - 1 |-> Tail(fifo)[i].pid]
    BY <1>2, Zenon DEF Reporters
  <2> QED BY <2>1, <2>2, Zenon
<1>5. Tail(Reporters) = [i \in 1 .. Len(fifo) - 1 |-> Reporters[i + 1]]
  <2>1. /\ Tail(Reporters) \in Seq(Qemu) /\ Len(Tail(Reporters)) = Len(fifo) - 1
        /\ \A i \in 1 .. Len(fifo) - 1 : Tail(Reporters)[i] = Reporters[i + 1]
    BY ONLY <1>1, <1>3
  <2>2. Tail(Reporters) = [i \in 1 .. Len(Tail(Reporters)) |-> Tail(Reporters)[i]]
    BY <2>1, SequenceAsFunction, Zenon
  <2> QED BY <2>1, <2>2, Zenon
<1>6. Reporters # <<>> /\ Head(Reporters) = Head(fifo).pid
  <2>1. Reporters # <<>> /\ Head(Reporters) = Reporters[1] /\ 1 \in 1 .. Len(fifo)
    BY ONLY <1>1, <1>3
  <2> QED BY <1>2, <1>3, <2>1, Zenon
<1> QED BY <1>4, <1>5, <1>6, Zenon

(* A step that Dispatch does not see.                                      *)
LEMMA Unseen ==
    ASSUME UNCHANGED <<curQemu, isAfterWait, currentQemuAfterWait, fifo>>,
           \A q \in Qemu : Free'[q] = Free[q]
    PROVE  UNCHANGED Merged!dispVars
<1>1. Free' = Free
  BY Zenon DEF Free
<1>2. Reporters' = Reporters /\ AtWork' = AtWork
  BY <1>1, Zenon DEF Reporters, AtWork, Has
<1> QED BY <1>1, <1>2, Zenon DEF Merged!dispVars

(* write_to_testcase chooses a QEMU without a report.                      *)
LEMMA FeedSeen ==
    ASSUME TypeOK, NEW q \in Qemu, pc \in {"next", "poll"}, pc' \in {"spin", "write"},
           curQemu' = q, handled' = handled, ~Has(fifo', q),
           \A p \in Qemu : p # q => (Has(fifo', p) <=> Has(fifo, p))
    PROVE  Free' = [Free EXCEPT ![q] = FALSE] /\ AtWork' = AtWork \cup {q}
<1>1. \A p \in Qemu : Free'[p] = IF p = q THEN FALSE ELSE Free[p]
  BY Zenon DEF Free, At, TypeOK
<1>2. Free' = [Free EXCEPT ![q] = FALSE]
  BY <1>1, Zenon DEF Free
<1>3. AtWork' = AtWork \cup {q}
  BY <1>1, Zenon DEF AtWork
<1> QED BY <1>2, <1>3, Zenon
(* The chosen QEMU has no report left in the FIFO when it is fed.          *)
LEMMA FeedImplemented ==
    ASSUME TypeOK, ProtocolInv, FeedAfterWait \/ ReadQueue
    PROVE  Merged!DispatchNext
<1> DEFINE q == curQemu'
<1>1. FifoInv /\ \A p \in Qemu : QemuInv(p)
  BY Zenon DEF ProtocolInv
<1>2. CASE FeedAfterWait
  <2>1. q = currentQemuAfterWait /\ q \in Qemu /\ isAfterWait /\ pc = "next" /\ pc' = "write"
    BY <1>2, Zenon DEF FeedAfterWait, TypeOK
  <2>2. /\ fifo' = fifo /\ handled' = handled
        /\ IF q + 1 = N THEN isAfterWait' = FALSE /\ currentQemuAfterWait' = 0
           ELSE isAfterWait' = TRUE /\ currentQemuAfterWait' = q + 1
    BY <1>2, Zenon DEF FeedAfterWait, chanVars, instVars
  <2> HIDE DEF q
  <2>3. isAfterWait' = (q + 1 # N) /\ currentQemuAfterWait' = (q + 1) % N
    <3>1. q \in Nat /\ q + 1 \in 1 .. N /\ N \in Nat \ {0}
      BY <2>1, NAssumption DEF Qemu
    <3>2. (q + 1) % N = IF q + 1 = N THEN 0 ELSE q + 1
      BY ONLY <3>1
    <3>3. CASE q + 1 = N
      BY <2>2, <3>2, <3>3, Zenon
    <3>4. CASE q + 1 # N
      BY <2>2, <3>2, <3>4, Zenon
    <3> QED BY <3>3, <3>4, Zenon
  <2>4. ~Has(fifo, q)
    <3>1. q >= currentQemuAfterWait
      BY <2>1 DEF Qemu
    <3> QED BY <1>1, <2>1, <3>1, Zenon DEF QemuInv
  <2>5. Free' = [Free EXCEPT ![q] = FALSE] /\ AtWork' = AtWork \cup {q}
    BY <2>1, <2>2, <2>4, FeedSeen, Zenon DEF q
  <2>6. Reporters' = Reporters
    BY <2>2, Zenon DEF Reporters
  <2> QED
    BY <2>1, <2>3, <2>5, <2>6, Zenon
    DEF Merged!DispatchNext, Merged!Feed, Merged!Qemu, Qemu, q
<1>3. CASE ReadQueue
  <2>1. /\ fifo # <<>> /\ fifo' = Tail(fifo) /\ q = Head(fifo).pid /\ pc = "poll" /\ pc' = "spin"
        /\ handled' = handled /\ UNCHANGED <<isAfterWait, currentQemuAfterWait>>
    BY <1>3, Zenon DEF ReadQueue, instVars
  <2>2. ~isAfterWait
    BY <2>1, Zenon DEF ProtocolInv, AflInv
  <2>3. q \in Qemu /\ \A p : Has(fifo', p) <=> Has(fifo, p) /\ p # q
    BY <1>1, <2>1, OldestReport, Zenon
  <2> HIDE DEF q
  <2>4. Free' = [Free EXCEPT ![q] = FALSE] /\ AtWork' = AtWork \cup {q}
    BY <2>1, <2>3, FeedSeen, Zenon DEF q
  <2>5. Reporters # <<>> /\ q = Head(Reporters) /\ Reporters' = Tail(Reporters)
    BY <2>1, ReportersTail, Zenon
  <2> QED
    BY <2>1, <2>2, <2>3, <2>4, <2>5, Zenon
    DEF Merged!DispatchNext, Merged!Feed, Merged!Qemu, Qemu, q
<1> QED BY <1>2, <1>3, Zenon
(* The report of a test that has run or been found redundant.              *)
LEMMA ReportImplemented ==
    ASSUME TypeOK, ProtocolInv, NEW q \in Qemu, NEW f \in Fault,
           qpc[q] \in {"got", "exec"}, fifo' = Append(fifo, Report(q, f)),
           UNCHANGED <<pc, curQemu, isAfterWait, currentQemuAfterWait, handled>>
    PROVE  Merged!DispatchNext
<1>1. ~handled[q] /\ ~Has(fifo, q)
  BY Zenon DEF ProtocolInv, QemuInv, Busy
<1>2. Report(q, f) \in Message /\ Report(q, f).pid = q
  BY DEF Report, Message
<1>3. \A p : Has(fifo', p) <=> Has(fifo, p) \/ p = q
  <2>1. fifo \in Seq(Message)
    BY Zenon DEF TypeOK
  <2>2. \A p : Has(fifo', p) <=> Has(fifo, p) \/ p = Report(q, f).pid
    BY <1>2, <2>1, AppendFacts, Zenon
  <2> QED BY <1>2, <2>2, Zenon
<1>4. Free' = Free /\ ~Free[q]
  BY <1>1, Zenon DEF Free, At
<1>5. q \in AtWork /\ AtWork' = AtWork \ {q}
  BY <1>1, <1>3, <1>4, Zenon DEF AtWork
<1>6. Reporters' = Append(Reporters, q)
  BY <1>2, ReportersAppend, Zenon
<1> QED
  BY <1>4, <1>5, <1>6, ZenonT(60) DEF Merged!DispatchNext, Merged!Report, Merged!Qemu, Qemu

(* When all ready bytes are set, every test that is not handled has its    *)
(* report in the FIFO.                                                     *)
LEMMA DrainedFree ==
    ASSUME TypeOK, ProtocolInv, pc = "drain"
    PROVE  AtWork = {} /\ \A p \in Qemu : Free[p] = handled[p] /\ (handled[p] \/ Has(fifo, p))
<1>1. \A p \in Qemu : Free[p] = handled[p]
  BY Zenon DEF Free, At, TypeOK
<1>2. \A p \in Qemu : handled[p] \/ Has(fifo, p)
  BY Zenon DEF ProtocolInv, AflInv, QemuInv, At
<1> QED BY <1>1, <1>2, Zenon DEF AtWork

(* process_unhandled_qemus judges the sender of the oldest report, or has  *)
(* nothing to judge: the report was the one of its start-up.               *)
LEMMA DrainImplemented ==
    ASSUME TypeOK, ProtocolInv, ProcessUnhandled
    PROVE  Merged!DispatchNext
<1> DEFINE h == Head(fifo).pid
<1>1. /\ pc = "drain" /\ pc' = pc /\ fifo # <<>> /\ fifo' = Tail(fifo)
      /\ UNCHANGED <<curQemu, isAfterWait, currentQemuAfterWait>>
  BY Zenon DEF ProcessUnhandled, aflVars
<1>2. h \in Qemu /\ \A p : Has(fifo', p) <=> Has(fifo, p) /\ p # h
  BY <1>1, OldestReport, Zenon DEF ProtocolInv
<1>3. handled' = [handled EXCEPT ![h] = TRUE]
  <2>1. CASE handled[h]
    <3>1. handled' = handled
      BY <2>1, Zenon DEF ProcessUnhandled
    <3> HIDE DEF h
    <3> QED BY <1>2, <2>1, <3>1, Zenon DEF TypeOK
  <2>2. CASE ~handled[h]
    <3>1. out_file[h]
      BY <1>2, <2>2, ZenonT(60) DEF ProtocolInv, QemuInv
    <3> QED BY <2>2, <3>1, Zenon DEF ProcessUnhandled, HandleOneTestDone
  <2> QED BY <2>1, <2>2, Zenon
<1>4. Reporters # <<>> /\ h = Head(Reporters) /\ Reporters' = Tail(Reporters)
  BY <1>1, ReportersTail, Zenon
<1> HIDE DEF h
<1>5. AtWork = {} /\ \A p \in Qemu : Free[p] = handled[p] /\ (handled[p] \/ Has(fifo, p))
  BY <1>1, DrainedFree, Zenon
<1>6. \A p \in Qemu : Free'[p] = IF p = h THEN TRUE ELSE Free[p]
  BY <1>1, <1>2, <1>3, Zenon DEF Free, At, TypeOK
<1>7. Free' = [Free EXCEPT ![h] = TRUE]
  BY <1>6, Zenon DEF Free
<1>8. AtWork' = {}
  BY <1>2, <1>5, <1>6, Zenon DEF AtWork
<1> QED
  BY <1>1, <1>2, <1>4, <1>5, <1>7, <1>8, Zenon
  DEF Merged!DispatchNext, Merged!Drain, Merged!Qemu, Qemu

(* The barrier ends with the FIFO empty and every test handled.            *)
LEMMA BarrierImplemented ==
    ASSUME TypeOK, ProtocolInv, BarrierDone
    PROVE  Merged!DispatchNext
<1>1. /\ pc = "drain" /\ pc' \in {"next", "stopped"} /\ fifo = <<>>
      /\ isAfterWait' = TRUE /\ currentQemuAfterWait' = 0
      /\ UNCHANGED <<curQemu, handled, fifo>>
  BY Zenon DEF BarrierDone, instVars, chanVars
<1>2. AtWork = {}
  BY <1>1, DrainedFree, Zenon
<1>3. Free' = Free
  BY <1>1, Zenon DEF Free, At
<1>4. Reporters' = Reporters /\ AtWork' = AtWork
  BY <1>1, <1>3, Zenon DEF Reporters, AtWork, Has
<1>5. Reporters = <<>>
  BY <1>1 DEF Reporters
<1> QED
  BY <1>1, <1>2, <1>3, <1>4, <1>5, Zenon DEF Merged!DispatchNext, Merged!EndBarrier
(* The other steps of afl-fuzz and of the QEMUs change nothing that        *)
(* Dispatch sees.  The test of the chosen QEMU counts as started from its  *)
(* choice on, whether its result is judged or its ready byte taken back.   *)
LEMMA OtherStepsUnseen ==
    ASSUME TypeOK, ProtocolInv, pc # "setup",
           \/ PollQueue \/ SpinReady \/ WriteToTestcase \/ RunTarget \/ TellQemu
           \/ EndStage \/ AllQemusFree \/ HandleStopSig \/ StopFuzzing
           \/ \E q \in Qemu : \/ GetAFLBitmapSHM(q) \/ WaitAflTestcase(q) \/ ExecuteTarget(q)
                              \/ SetReady(q) \/ TerminateOnForeignFault(q) \/ ReportFails(q)
           \/ UNCHANGED vars
    PROVE  UNCHANGED Merged!dispVars
<1> DEFINE P == {"spin", "write", "run", "tell"}
<1>1. UNCHANGED <<curQemu, isAfterWait, currentQemuAfterWait, fifo>>
  BY Zenon DEF PollQueue, SpinReady, WriteToTestcase, RunTarget, TellQemu, EndStage,
     AllQemusFree, HandleStopSig, StopFuzzing, GetAFLBitmapSHM, WaitAflTestcase,
     ExecuteTarget, SetReady, TerminateOnForeignFault, ReportFails, vars, aflVars, chanVars
<1>2. CASE WriteToTestcase \/ RunTarget
  <2>1. /\ pc \in P /\ pc' \in P
        /\ \A p \in Qemu : p # curQemu => handled'[p] = handled[p]
    BY <1>2, ZenonT(60) DEF WriteToTestcase, RunTarget, HandleOneTestDone, TypeOK
  <2> QED BY <1>1, <2>1, Unseen, Zenon DEF Free, At
<1>3. CASE TellQemu
  <2>1. pc = "tell" /\ pc' \notin P /\ handled' = handled /\ ~handled[curQemu]
    BY <1>3, Zenon DEF TellQemu, instVars, ProtocolInv, AflInv
  <2> QED BY <1>1, <2>1, Unseen, Zenon DEF Free, At
<1>4. CASE ~(WriteToTestcase \/ RunTarget \/ TellQemu)
  <2>1. handled' = handled /\ (pc' \in P <=> pc \in P)
    BY <1>4, Zenon DEF PollQueue, SpinReady, EndStage, AllQemusFree, HandleStopSig,
       StopFuzzing, GetAFLBitmapSHM, WaitAflTestcase, ExecuteTarget, SetReady,
       TerminateOnForeignFault, ReportFails, vars, aflVars, instVars
  <2> QED BY <1>1, <2>1, Unseen, Zenon DEF Free, At
<1> QED BY <1>2, <1>3, <1>4, Zenon
(* A list that names every QEMU once is as long as there are QEMUs.        *)
ListsAll(n, f) ==
    /\ \A i, j \in 1 .. n : f[i] = f[j] => i = j
    /\ \A q \in Qemu : \E i \in 1 .. n : f[i] = q

FullLists == \A n \in Nat : \A f \in [1 .. n -> Qemu] : ListsAll(n, f) => n = N

(* Start-up ends with one report of each QEMU in the FIFO.                 *)
LEMMA SetupImplemented ==
    ASSUME BootSettled, FullLists, TypeOK, ProtocolInv, SetupTracebits
    PROVE  Merged!DispatchInit'
<1>1. SetupInv /\ Distinct(fifo) /\ pc = "setup" /\ \A q \in Qemu : qpc[q] = "wait"
  BY Zenon DEF ProtocolInv, FifoInv, SetupTracebits
<1>2. /\ pc' = "next" /\ UNCHANGED <<curQemu, isAfterWait, currentQemuAfterWait, handled, fifo>>
  BY Zenon DEF SetupTracebits, instVars, chanVars
<1>3. /\ curQemu = NoQemu /\ ~isAfterWait /\ currentQemuAfterWait = 0
      /\ \A q \in Qemu : handled[q] /\ Has(fifo, q)
  BY <1>1, Zenon DEF SetupInv
<1>4. \A q \in Qemu : Free'[q] = TRUE
  BY <1>2, <1>3, Zenon DEF Free, At, TypeOK
<1>5. Free' = [q \in Qemu |-> TRUE] /\ AtWork' = {}
  BY <1>4, Zenon DEF Free, AtWork
<1>6. Len(fifo) \in Nat /\ \A i \in 1 .. Len(fifo) : fifo[i].pid \in Qemu
  <2>1. fifo \in Seq(Message) /\ Len(fifo) \in Nat
    BY DEF TypeOK
  <2> QED BY <2>1, Senders, Zenon
<1>7. Reporters' = Reporters /\ Reporters \in [1 .. Len(fifo) -> Qemu]
  BY <1>2, <1>6, Zenon DEF Reporters
<1>8. ListsAll(Len(fifo), Reporters)
  BY <1>1, <1>3, Zenon DEF ListsAll, Reporters, Distinct, Has
<1>9. Len(fifo) = N
  BY <1>6, <1>7, <1>8, Zenon DEF FullLists
<1>10. Reporters' \in {s \in [1 .. N -> Qemu] : \A i, j \in 1 .. N : s[i] = s[j] => i = j}
  BY <1>7, <1>8, <1>9, Zenon DEF ListsAll
<1>11. isAfterWait' = FALSE
  BY <1>2, <1>3, Zenon DEF TypeOK
<1> QED
  BY <1>2, <1>3, <1>5, <1>10, <1>11, Zenon
  DEF Merged!DispatchInit, Merged!Qemu, Merged!NoQemu, Qemu, NoQemu

-----------------------------------------------------------------------------
INSTANCE FiniteSetTheorems

LEMMA FullListsHold == FullLists
<1> SUFFICES ASSUME NEW n \in Nat, NEW f \in [1 .. n -> Qemu], ListsAll(n, f) PROVE n = N
  BY Zenon DEF FullLists
<1>1. f \in Injection(1 .. n, Qemu) /\ f \in Surjection(1 .. n, Qemu)
  BY Zenon DEF ListsAll, Injection, Surjection, IsInjective
<1>2. IsFiniteSet(1 .. n) /\ Cardinality(1 .. n) = n
  <2>1. n \in Int /\ 1 \in Int /\ (IF 1 > n THEN 0 ELSE n - 1 + 1) = n
    OBVIOUS
  <2> QED BY <2>1, FS_Interval, Zenon
<1>3. Cardinality(Qemu) = N
  <2>1. 0 \in Int /\ N - 1 \in Int /\ (IF 0 > N - 1 THEN 0 ELSE N - 1 - 0 + 1) = N
    BY NAssumption
  <2> QED BY <2>1, FS_Interval, Zenon DEF Qemu
<1> QED BY <1>1, <1>2, <1>3, FS_Surjection, Zenon

(* The dispatcher implements Dispatch, for any number of QEMUs: start-up   *)
(* ends in one of its initial states and every later step is one of its    *)
(* steps or a stutter, so what is proved of the stages and of the results  *)
(* on top of Dispatch holds of the dispatcher with its interleavings.      *)
THEOREM DispatchRefined ==
    ASSUME BootSettled
    PROVE  Spec => ImplementsDispatch
<1> DEFINE Step == IF pc = "setup" THEN pc' # "setup" => Merged!DispatchInit'
                   ELSE Merged!DispatchNext \/ UNCHANGED Merged!dispVars
<1>1. TypeOK /\ ProtocolInv /\ [Next]_vars => [Step]_vars
  <2> SUFFICES ASSUME TypeOK, ProtocolInv, Next PROVE Step
    BY Zenon
  <2>1. CASE pc = "setup"
    <3> SUFFICES ASSUME pc' # "setup" PROVE Merged!DispatchInit'
      BY <2>1, Zenon
    <3>1. SetupTracebits
      BY <2>1, Zenon DEF Next, AflNext, QemuNext, FeedAfterWait, PollQueue, ReadQueue,
         SpinReady, WriteToTestcase, RunTarget, TellQemu, EndStage, AllQemusFree,
         ProcessUnhandled, BarrierDone, HandleStopSig, StopFuzzing, Exited, GetAFLBitmapSHM,
         InitQemuQueue, WaitAflTestcase, ReportRedundant, ExecuteTarget, TellAfl, SetReady,
         TerminateOnForeignFault, ReportFails, aflVars
    <3> QED BY <3>1, BootSettled, FullListsHold, SetupImplemented, Zenon
  <2>2. CASE pc # "setup"
    <3> SUFFICES Merged!DispatchNext \/ UNCHANGED Merged!dispVars
      BY <2>2, Zenon
    <3>1. CASE FeedAfterWait \/ ReadQueue \/ ProcessUnhandled \/ BarrierDone
      BY <3>1, FeedImplemented, DrainImplemented, BarrierImplemented, Zenon
    <3>2. ASSUME NEW q \in Qemu, ReportRedundant(q) \/ \E f \in RunFault : TellAfl(q, f)
          PROVE  Merged!DispatchNext
      <4>1. PICK f \in Fault :
               /\ qpc[q] \in {"got", "exec"} /\ fifo' = Append(fifo, Report(q, f))
               /\ UNCHANGED <<pc, curQemu, isAfterWait, currentQemuAfterWait, handled>>
        BY <3>2, Zenon DEF ReportRedundant, TellAfl, RunFault, Fault, aflVars, instVars
      <4> QED BY <4>1, ReportImplemented, Zenon
    <3>3. \A q \in Qemu : ~InitQemuQueue(q)
      BY <2>2, ZenonT(60) DEF InitQemuQueue, ProtocolInv, QemuInv
    <3>4. ~SetupTracebits
      BY <2>2, Zenon DEF SetupTracebits
    <3> QED
      BY <2>2, <3>1, <3>2, <3>3, <3>4, OtherStepsUnseen, ZenonT(60) DEF Next, AflNext, QemuNext, Exited
  <2> QED BY <2>1, <2>2, Zenon
<1> QED
  BY <1>1, TypeCorrect, ProtocolCorrect, PTL DEF Spec, ImplementsDispatch
=============================================================================
