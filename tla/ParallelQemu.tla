---------------------------- MODULE ParallelQemu ----------------------------
(***************************************************************************)
(* The dispatcher of FFuzz: one afl-fuzz process feeding N S2E/QEMU        *)
(* processes (afl-ffuzz/afl-fuzz.c built with CONFIG_S2E,                  *)
(* afl-ffuzz/afl-parrel-qemu.[ch]) and the side of each QEMU that talks to *)
(* it (s2e-ffuzz/qemu/s2e/Plugins/AFLControllers/FuzzyS2E.cpp).            *)
(*                                                                         *)
(* They share a FIFO that carries "pid|fault|exectime" reports to AFL, one *)
(* ready byte per QEMU (ReadArray / m_ReadyArray), one control pipe per    *)
(* QEMU that carries four bytes, and one trace-bits segment per QEMU.      *)
(* A QEMU is named by its index in allQemus; pids are distinct, so the     *)
(* index stands for the pid.                                               *)
(***************************************************************************)
EXTENDS Naturals, Sequences

CONSTANTS
    N,             \* parallel_qemu_num
    NeedFilter,    \* FuzzyS2E's needFilter: redundant testcases are reported
    BootSettled,   \* the sleep(10) of InitQemuQueue outlasts every QEMU start-up
    ForeignFault   \* LinuxMonitor2 may kill a work state that FuzzyS2E ignores

ASSUME NAssumption == N \in Nat \ {0}

ASSUME FlagAssumption ==
    /\ NeedFilter \in BOOLEAN
    /\ BootSettled \in BOOLEAN
    /\ ForeignFault \in BOOLEAN

Qemu   == 0 .. N - 1
NoQemu == N                      \* curQemu == NULL

(* FAULT_HANG and the values above it are never written to the FIFO:       *)
(* onWorkStateTimeout reports a timeout as FAULT_NONE.                     *)
Fault    == {"NONE", "CRASH", "REDUNDANT"}
RunFault == {"NONE", "CRASH"}
Order    == {"none", "play", "redu"}

(* The stages the dispatcher tells apart; "MUTATE" is every mutation stage *)
(* of fuzz_one.                                                            *)
Stage == {"CALIBRATE", "READSYMBEX", "MUTATE"}

VARIABLES
    \* afl-fuzz
    pc, stage, stop_soon,
    curQemu, isAfterWait, currentQemuAfterWait,
    msgFault,          \* the local "fault" of write_to_testcase
    \* QemuInstance: start_us # 0, handled, out_file # NULL, cur_stage, ...
    started, handled, out_file, cur_stage, fault, cover_new,
    \* shared with the QEMUs
    fifo, ready, ctrl, trace,
    \* the QEMUs
    qpc,
    qfault,            \* the fault of the last report of a QEMU
    testStage          \* history: the stage that dispatched the current test

aflVars  == <<pc, stage, stop_soon, curQemu, isAfterWait,
              currentQemuAfterWait, msgFault>>
instVars == <<started, handled, out_file, cur_stage, fault, cover_new>>
chanVars == <<fifo, ready, ctrl, trace>>
qemuVars == <<qpc, qfault, testStage>>
vars     == <<aflVars, instVars, chanVars, qemuVars>>

Message == [pid : Qemu, fault : Fault]

Report(q, f) == [pid |-> q, fault |-> f]

-----------------------------------------------------------------------------
(* AFL's view of one finished test.                                        *)

(* classify_counts on a segment: its buckets are not a fixed point, so a   *)
(* second pass over the same trace spoils it (3 hits -> 4 -> 8).           *)
Classify(t) ==
    CASE t = "raw"        -> "classified"
      [] t = "classified" -> "spoiled"
      [] OTHER            -> t

(* Mutant: a redundant test is judged as one without new bits.             *)
VerdictsRedundantZero(q, f) ==
    IF f = "CRASH" THEN {cover_new[q]} ELSE IF f = "NONE" THEN {0, 1} ELSE {0}

(* The verdicts save_if_interesting can leave in cover_new for a report    *)
(* with fault f: a redundant test is 2, a normal one is 1 or 0 as it shows *)
(* new bits or not, a crash leaves the verdict of the previous test.       *)
Verdicts(q, f) ==
    CASE f = "REDUNDANT" -> {2}
      [] f = "NONE"      -> {0, 1}
      [] f = "CRASH"     -> {cover_new[q]}

(* Mutant: handled is not set.                                             *)
HandleOneTestDoneAgain(q, f) ==
    /\ UNCHANGED handled
    /\ trace'   = [trace EXCEPT ![q] = Classify(@)]
    /\ \E v \in Verdicts(q, f) : cover_new' = [cover_new EXCEPT ![q] = v]

HandleOneTestDone(q, f) ==
    /\ handled' = [handled EXCEPT ![q] = TRUE]
    /\ trace'   = [trace EXCEPT ![q] = Classify(@)]
    /\ \E v \in Verdicts(q, f) : cover_new' = [cover_new EXCEPT ![q] = v]

(* The four bytes run_target sends for each value of cover_new.            *)
OrderOf(v) ==
    CASE v = 0 -> "none"
      [] v = 1 -> "play"
      [] v = 2 -> "redu"

-----------------------------------------------------------------------------
(* Start-up of afl-fuzz: INIT_QEMU for every QEMU, then setupTracebits,    *)
(* which waits for every trace file; that the start-up report has also     *)
(* been written is only a matter of the sleep before it.                   *)

Init ==
    /\ pc = "setup" /\ stage = "CALIBRATE" /\ stop_soon = FALSE
    /\ curQemu = NoQemu /\ isAfterWait = FALSE /\ currentQemuAfterWait = 0
    /\ msgFault = "NONE"
    /\ started   = [q \in Qemu |-> FALSE]
    /\ handled   = [q \in Qemu |-> TRUE]
    /\ out_file  = [q \in Qemu |-> FALSE]
    /\ cur_stage = [q \in Qemu |-> "SYNC"]
    /\ fault     = [q \in Qemu |-> "NONE"]
    /\ cover_new = [q \in Qemu |-> 1]
    /\ fifo = <<>>
    /\ ready = [q \in Qemu |-> TRUE]
    /\ ctrl  = [q \in Qemu |-> <<>>]
    /\ trace = [q \in Qemu |-> "clear"]
    /\ qpc   = [q \in Qemu |-> "launched"]
    /\ qfault    = [q \in Qemu |-> "NONE"]
    /\ testStage = [q \in Qemu |-> "SYNC"]

SetupTracebits ==
    /\ pc = "setup"
    /\ \A q \in Qemu : qpc[q] # "launched"
    /\ BootSettled => \A q \in Qemu : qpc[q] = "wait"
    /\ pc' = "next"
    /\ UNCHANGED <<stage, stop_soon, curQemu, isAfterWait,
                   currentQemuAfterWait, msgFault, instVars, chanVars, qemuVars>>

-----------------------------------------------------------------------------
(* write_to_testcase: find a QEMU, judge its last test, hand it a file.    *)

(* Right after a barrier the QEMUs are fed in order, without the FIFO.     *)
FeedAfterWait ==
    /\ pc = "next" /\ isAfterWait
    /\ curQemu' = currentQemuAfterWait
    /\ IF currentQemuAfterWait + 1 = N
       THEN isAfterWait' = FALSE /\ currentQemuAfterWait' = 0
       ELSE isAfterWait' = TRUE /\ currentQemuAfterWait' = currentQemuAfterWait + 1
    /\ msgFault' = "NONE"
    /\ pc' = "write"
    /\ UNCHANGED <<stage, stop_soon, instVars, chanVars, qemuVars>>

PollQueue ==
    /\ pc = "next" /\ ~isAfterWait
    /\ pc' = "poll"
    /\ UNCHANGED <<stage, stop_soon, curQemu, isAfterWait,
                   currentQemuAfterWait, msgFault, instVars, chanVars, qemuVars>>

(* Mutant: the fault of the previous report is kept.                       *)
ReadQueueStaleFault ==
    /\ pc = "poll" /\ fifo # <<>>
    /\ curQemu' = Head(fifo).pid
    /\ fifo' = Tail(fifo)
    /\ pc' = "spin"
    /\ UNCHANGED <<stage, stop_soon, isAfterWait, currentQemuAfterWait, msgFault,
                   instVars, ready, ctrl, trace, qemuVars>>

ReadQueue ==
    /\ pc = "poll" /\ fifo # <<>>
    /\ curQemu'  = Head(fifo).pid
    /\ msgFault' = Head(fifo).fault
    /\ fifo' = Tail(fifo)
    /\ pc' = "spin"
    /\ UNCHANGED <<stage, stop_soon, isAfterWait, currentQemuAfterWait,
                   instVars, ready, ctrl, trace, qemuVars>>

(* Mutant: the ready byte is not awaited.                                  *)
SpinReadyUnchecked ==
    /\ pc = "spin"
    /\ pc' = "write"
    /\ UNCHANGED <<stage, stop_soon, curQemu, isAfterWait,
                   currentQemuAfterWait, msgFault, instVars, chanVars, qemuVars>>

SpinReady ==
    /\ pc = "spin" /\ ready[curQemu]
    /\ pc' = "write"
    /\ UNCHANGED <<stage, stop_soon, curQemu, isAfterWait,
                   currentQemuAfterWait, msgFault, instVars, chanVars, qemuVars>>

WriteToTestcase ==
    /\ pc = "write"
    /\ cur_stage' = [cur_stage EXCEPT ![curQemu] = stage]
    /\ fault'     = [fault EXCEPT ![curQemu] = msgFault]
    /\ IF started[curQemu] /\ ~handled[curQemu]
       THEN HandleOneTestDone(curQemu, msgFault)
       ELSE UNCHANGED <<handled, trace, cover_new>>
    /\ out_file' = [out_file EXCEPT ![curQemu] = TRUE]
    /\ msgFault' = "NONE"
    /\ pc' = "run"
    /\ UNCHANGED <<stage, stop_soon, curQemu, isAfterWait,
                   currentQemuAfterWait, started, fifo, ready, ctrl, qemuVars>>

-----------------------------------------------------------------------------
(* run_target: take the QEMU back from "ready" first, tell it afterwards.  *)

(* Mutant: the ready byte is not cleared.                                  *)
RunTargetStillReady ==
    /\ pc = "run"
    /\ trace'   = [trace EXCEPT ![curQemu] = "clear"]
    /\ started' = [started EXCEPT ![curQemu] = TRUE]
    /\ handled' = [handled EXCEPT ![curQemu] = FALSE]
    /\ testStage' = [testStage EXCEPT ![curQemu] = stage]
    /\ pc' = "tell"
    /\ UNCHANGED <<stage, stop_soon, curQemu, isAfterWait,
                   currentQemuAfterWait, msgFault, out_file, cur_stage, fault,
                   cover_new, fifo, ready, ctrl, qpc, qfault>>

RunTarget ==
    /\ pc = "run"
    /\ trace'   = [trace EXCEPT ![curQemu] = "clear"]
    /\ started' = [started EXCEPT ![curQemu] = TRUE]
    /\ ready'   = [ready EXCEPT ![curQemu] = FALSE]
    /\ handled' = [handled EXCEPT ![curQemu] = FALSE]
    /\ testStage' = [testStage EXCEPT ![curQemu] = stage]
    /\ pc' = "tell"
    /\ UNCHANGED <<stage, stop_soon, curQemu, isAfterWait,
                   currentQemuAfterWait, msgFault, out_file, cur_stage, fault,
                   cover_new, fifo, ctrl, qpc, qfault>>

(* Mutant: a QEMU without new coverage is sent nothing.                    *)
TellQemuOnlyNew ==
    /\ pc = "tell"
    /\ ctrl' = IF cover_new[curQemu] = 0 THEN ctrl
               ELSE [ctrl EXCEPT ![curQemu] = Append(@, OrderOf(cover_new[curQemu]))]
    /\ pc' = IF ~stop_soon THEN "next"
             ELSE IF stage \in {"CALIBRATE", "READSYMBEX"} THEN "waitfree"
             ELSE "stopped"
    /\ UNCHANGED <<stage, stop_soon, curQemu, isAfterWait,
                   currentQemuAfterWait, msgFault, instVars, fifo, ready, trace,
                   qemuVars>>

(* Mutant: no caller looks at stop_soon.                                   *)
TellQemuNeverStops ==
    /\ pc = "tell"
    /\ ctrl' = [ctrl EXCEPT ![curQemu] = Append(@, OrderOf(cover_new[curQemu]))]
    /\ pc' = "next"
    /\ UNCHANGED <<stage, stop_soon, curQemu, isAfterWait,
                   currentQemuAfterWait, msgFault, instVars, fifo, ready, trace,
                   qemuVars>>

(* The write to the control pipe, then the stop_soon checks of the three   *)
(* callers: perform_dry_run and read_symbex_testcases return to a barrier, *)
(* the stages of fuzz_one abandon the entry and leave the main loop.       *)
TellQemu ==
    /\ pc = "tell"
    /\ ctrl' = [ctrl EXCEPT ![curQemu] = Append(@, OrderOf(cover_new[curQemu]))]
    /\ pc' = IF ~stop_soon THEN "next"
             ELSE IF stage \in {"CALIBRATE", "READSYMBEX"} THEN "waitfree"
             ELSE "stopped"
    /\ UNCHANGED <<stage, stop_soon, curQemu, isAfterWait,
                   currentQemuAfterWait, msgFault, instVars, fifo, ready, trace,
                   qemuVars>>

-----------------------------------------------------------------------------
(* WAIT_ALLQEMUS_FREE at the end of every stage.  Only afl-fuzz clears a   *)
(* ready byte, so the scan of ReadArray ends exactly when all are set.     *)
(* The dry run has at least one seed (read_testcases).                     *)

EndStage ==
    /\ pc = "next"
    /\ stage = "CALIBRATE" => curQemu # NoQemu
    /\ pc' = "waitfree"
    /\ UNCHANGED <<stage, stop_soon, curQemu, isAfterWait,
                   currentQemuAfterWait, msgFault, instVars, chanVars, qemuVars>>

(* Mutant: only the first ready byte is looked at.                         *)
AllQemusFreeFirst ==
    /\ pc = "waitfree"
    /\ ready[0]
    /\ pc' = "drain"
    /\ UNCHANGED <<stage, stop_soon, curQemu, isAfterWait,
                   currentQemuAfterWait, msgFault, instVars, chanVars, qemuVars>>

AllQemusFree ==
    /\ pc = "waitfree"
    /\ \A q \in Qemu : ready[q]
    /\ pc' = "drain"
    /\ UNCHANGED <<stage, stop_soon, curQemu, isAfterWait,
                   currentQemuAfterWait, msgFault, instVars, chanVars, qemuVars>>

(* One turn of process_unhandled_qemus.                                    *)
ProcessUnhandled ==
    /\ pc = "drain" /\ fifo # <<>>
    /\ fifo' = Tail(fifo)
    /\ LET q == Head(fifo).pid
           f == Head(fifo).fault
       IN  IF ~handled[q] /\ out_file[q]
           THEN /\ fault' = [fault EXCEPT ![q] = f]
                /\ HandleOneTestDone(q, f)
                /\ out_file' = [out_file EXCEPT ![q] = FALSE]
           ELSE UNCHANGED <<fault, handled, trace, cover_new, out_file>>
    /\ UNCHANGED <<aflVars, started, cur_stage, ready, ctrl, qemuVars>>

(* Mutant: the barrier ends with reports left in the FIFO.                 *)
BarrierDoneEarly ==
    /\ pc = "drain"
    /\ isAfterWait' = TRUE /\ currentQemuAfterWait' = 0
    /\ stage' \in Stage \ {"CALIBRATE"}
    /\ pc' = IF stage = "CALIBRATE" /\ stop_soon THEN "stopped" ELSE "next"
    /\ UNCHANGED <<stop_soon, curQemu, msgFault, instVars, chanVars, qemuVars>>

(* The FIFO is empty (EAGAIN): the barrier ends and a new stage begins,    *)
(* except that main stops after the dry run if it was told to.             *)
BarrierDone ==
    /\ pc = "drain" /\ fifo = <<>>
    /\ isAfterWait' = TRUE /\ currentQemuAfterWait' = 0
    /\ stage' \in Stage \ {"CALIBRATE"}
    /\ pc' = IF stage = "CALIBRATE" /\ stop_soon THEN "stopped" ELSE "next"
    /\ UNCHANGED <<stop_soon, curQemu, msgFault, instVars, chanVars, qemuVars>>

-----------------------------------------------------------------------------
(* Stopping: the signal handler, and the check of main after a barrier.    *)

HandleStopSig ==
    /\ ~stop_soon /\ pc # "stopped"
    /\ stop_soon' = TRUE
    /\ UNCHANGED <<pc, stage, curQemu, isAfterWait, currentQemuAfterWait,
                   msgFault, instVars, chanVars, qemuVars>>

StopFuzzing ==
    /\ pc = "next" /\ stop_soon
    /\ isAfterWait /\ currentQemuAfterWait = 0
    /\ pc' = "stopped"
    /\ UNCHANGED <<stage, stop_soon, curQemu, isAfterWait,
                   currentQemuAfterWait, msgFault, instVars, chanVars, qemuVars>>

-----------------------------------------------------------------------------
(* A QEMU.  FuzzyS2E::initialize creates the trace file, then writes the   *)
(* start-up report; the guest then loops over wait_afl_testcase.           *)

GetAFLBitmapSHM(q) ==
    /\ qpc[q] = "launched"
    /\ qpc' = [qpc EXCEPT ![q] = "mapped"]
    /\ UNCHANGED <<aflVars, instVars, chanVars, qfault, testStage>>

InitQemuQueue(q) ==
    /\ qpc[q] = "mapped" /\ pc # "stopped"
    /\ fifo' = Append(fifo, Report(q, "NONE"))
    /\ qpc' = [qpc EXCEPT ![q] = "wait"]
    /\ UNCHANGED <<aflVars, instVars, ready, ctrl, trace, qfault, testStage>>

WaitAflTestcase(q) ==
    /\ qpc[q] = "wait" /\ ctrl[q] # <<>>
    /\ ctrl' = [ctrl EXCEPT ![q] = Tail(@)]
    /\ qpc'  = [qpc EXCEPT ![q] = "got"]
    /\ UNCHANGED <<aflVars, instVars, fifo, ready, trace, qfault, testStage>>

(* report_redundant, up to its write; the guest is not resumed.            *)
ReportRedundant(q) ==
    /\ NeedFilter /\ qpc[q] = "got" /\ pc # "stopped"
    /\ fifo'   = Append(fifo, Report(q, "REDUNDANT"))
    /\ qfault' = [qfault EXCEPT ![q] = "REDUNDANT"]
    /\ qpc'    = [qpc EXCEPT ![q] = "reported"]
    /\ UNCHANGED <<aflVars, instVars, ready, ctrl, trace, testStage>>

(* The forked work state runs the target and fills the trace bits.         *)
ExecuteTarget(q) ==
    /\ qpc[q] = "got"
    /\ trace' = [trace EXCEPT ![q] = "raw"]
    /\ qpc'   = [qpc EXCEPT ![q] = "exec"]
    /\ UNCHANGED <<aflVars, instVars, fifo, ready, ctrl, qfault, testStage>>

(* tell_afl, up to its write: the target exited, crashed or timed out.     *)
TellAfl(q, f) ==
    /\ qpc[q] = "exec" /\ pc # "stopped"
    /\ fifo'   = Append(fifo, Report(q, f))
    /\ qfault' = [qfault EXCEPT ![q] = f]
    /\ qpc'    = [qpc EXCEPT ![q] = "reported"]
    /\ UNCHANGED <<aflVars, instVars, ready, ctrl, trace, testStage>>

(* Mutant: the ready byte is not set after a report.                       *)
SetReadyForgotten(q) ==
    /\ qpc[q] = "reported"
    /\ qpc' = [qpc EXCEPT ![q] = "wait"]
    /\ UNCHANGED <<aflVars, instVars, chanVars, qfault, testStage>>

(* The end of tell_afl and report_redundant.                               *)
SetReady(q) ==
    /\ qpc[q] = "reported"
    /\ ready' = [ready EXCEPT ![q] = TRUE]
    /\ qpc'   = [qpc EXCEPT ![q] = "wait"]
    /\ UNCHANGED <<aflVars, instVars, fifo, ctrl, trace, qfault, testStage>>

(* A fault of a process that is not the target: onSegmentFault returns at  *)
(* CHKPID, LinuxMonitor2 terminates the work state all the same, and the   *)
(* seed state goes back to wait_afl_testcase without a report.             *)
TerminateOnForeignFault(q) ==
    /\ ForeignFault /\ qpc[q] = "exec"
    /\ qpc' = [qpc EXCEPT ![q] = "wait"]
    /\ UNCHANGED <<aflVars, instVars, chanVars, qfault, testStage>>

(* Without a reader the write to the FIFO fails and the QEMU exits.        *)
ReportFails(q) ==
    /\ pc = "stopped" /\ qpc[q] \in {"mapped", "got", "exec"}
    /\ qpc' = [qpc EXCEPT ![q] = "dead"]
    /\ UNCHANGED <<aflVars, instVars, chanVars, qfault, testStage>>

(* afl-fuzz has exited and every QEMU waits on its control pipe or died.   *)
Exited ==
    /\ pc = "stopped"
    /\ \A q \in Qemu : \/ qpc[q] = "dead"
                       \/ qpc[q] = "wait" /\ ctrl[q] = <<>>
    /\ UNCHANGED vars

-----------------------------------------------------------------------------
AflNext ==
    \/ SetupTracebits
    \/ FeedAfterWait \/ PollQueue \/ ReadQueue \/ SpinReady
    \/ WriteToTestcase \/ RunTarget \/ TellQemu
    \/ EndStage \/ AllQemusFree \/ ProcessUnhandled \/ BarrierDone

QemuNext(q) ==
    \/ GetAFLBitmapSHM(q) \/ InitQemuQueue(q)
    \/ WaitAflTestcase(q) \/ ReportRedundant(q) \/ ExecuteTarget(q)
    \/ \E f \in RunFault : TellAfl(q, f)
    \/ SetReady(q) \/ TerminateOnForeignFault(q) \/ ReportFails(q)

Next ==
    \/ AflNext \/ HandleStopSig \/ StopFuzzing \/ Exited
    \/ \E q \in Qemu : QemuNext(q)

Spec == Init /\ [][Next]_vars

(* afl-fuzz and the QEMUs are processes that keep running, and a testcase  *)
(* ends (exit, fault or timeout).  main looks at stop_soon after every     *)
(* entry, and an entry has finitely many stages: strong fairness there.    *)
Fairness ==
    /\ WF_vars(AflNext)
    /\ SF_vars(StopFuzzing)
    /\ \A q \in Qemu : WF_vars(QemuNext(q))

FairSpec == Spec /\ Fairness

-----------------------------------------------------------------------------
(* The values of the variables; write_to_testcase never leaves the array   *)
(* allQemus with currentQemuAfterWait.                                     *)
TypeOK ==
    /\ pc \in {"setup", "next", "poll", "spin", "write", "run", "tell",
               "waitfree", "drain", "stopped"}
    /\ stage \in Stage /\ stop_soon \in BOOLEAN
    /\ curQemu \in Qemu \cup {NoQemu}
    /\ pc \in {"spin", "write", "run", "tell"} => curQemu \in Qemu
    /\ isAfterWait \in BOOLEAN /\ currentQemuAfterWait \in Qemu
    /\ msgFault \in Fault
    /\ started \in [Qemu -> BOOLEAN] /\ handled \in [Qemu -> BOOLEAN]
    /\ out_file \in [Qemu -> BOOLEAN]
    /\ cur_stage \in [Qemu -> Stage \cup {"SYNC"}]
    /\ fault \in [Qemu -> Fault] /\ cover_new \in [Qemu -> 0 .. 2]
    /\ fifo \in Seq(Message)
    /\ ready \in [Qemu -> BOOLEAN] /\ ctrl \in [Qemu -> Seq(Order)]
    /\ trace \in [Qemu -> {"clear", "raw", "classified", "spoiled"}]
    /\ qpc \in [Qemu -> {"launched", "mapped", "wait", "got", "exec",
                         "reported", "dead"}]
    /\ qfault \in [Qemu -> Fault]
    /\ testStage \in [Qemu -> Stage \cup {"SYNC"}]

(* A QEMU that does nothing and has nothing to do, and one at work.        *)
Idle(q) == qpc[q] = "wait" /\ ctrl[q] = <<>>
Busy(q) == ctrl[q] # <<>> \/ qpc[q] \in {"got", "exec", "dead"}

Has(s, q)   == \E i \in 1 .. Len(s) : s[i].pid = q
Distinct(s) == \A i, j \in 1 .. Len(s) : s[i].pid = s[j].pid => i = j

(* afl-fuzz has chosen QEMU q and is at one of the places P.               *)
At(q, P) == pc \in P /\ curQemu = q

(* While afl-fuzz judges a QEMU's trace, rewrites its testcase or clears   *)
(* its segment (write_to_testcase, run_target), that QEMU is idle; during  *)
(* process_unhandled_qemus all of them are.                                *)
Exclusive ==
    \A q \in Qemu : At(q, {"write", "run", "tell"}) \/ pc = "drain" => Idle(q)

(* At most one report of each QEMU waits in the FIFO, and none while the   *)
(* QEMU works on a later test: the O_NONBLOCK writes of tell_afl never     *)
(* find the FIFO full, and a report is never mistaken for a later one.     *)
OneReport ==
    /\ Distinct(fifo)
    /\ \A q \in Qemu : Has(fifo, q) => ~Busy(q)

(* The assertion of tell_afl: a QEMU about to become ready is not ready.   *)
NotFreeBefore == \A q \in Qemu : qpc[q] = "reported" => ~ready[q]

(* After a barrier, every QEMU that is yet to be fed directly is ready,    *)
(* handled and has no report in the FIFO: write_to_testcase may skip the   *)
(* FIFO without losing or repeating a result.                              *)
AfterWaitClean ==
    isAfterWait => \A q \in Qemu : q >= currentQemuAfterWait =>
                       ready[q] /\ handled[q] /\ ~Has(fifo, q)

(* No trace is classified twice: each is judged once, and cleared by       *)
(* run_target before the next test.                                        *)
ClassifiedOnce == \A q \in Qemu : trace[q] # "spoiled"

(* A test is judged by the fault its QEMU reported for it, and by the      *)
(* stage that dispatched it, although write_to_testcase has stored the     *)
(* stage of the next test by then: every stage ends in a barrier.          *)
JudgedAsReported ==
    [][\A q \in Qemu : ~handled[q] /\ handled'[q] =>
           fault'[q] = qfault[q] /\ cur_stage'[q] = testStage[q]]_vars

(* The inductive invariant: what afl-fuzz and one QEMU know of each other. *)
SetupInv ==
    pc = "setup" =>
        /\ ~isAfterWait /\ curQemu = NoQemu /\ currentQemuAfterWait = 0
        /\ \A q \in Qemu :
               /\ handled[q] /\ ready[q] /\ ~started[q] /\ ctrl[q] = <<>>
               /\ qpc[q] \in {"launched", "mapped", "wait"}
               /\ Has(fifo, q) <=> qpc[q] = "wait"

AflInv ==
    /\ pc \in {"poll", "spin"} => ~isAfterWait
    /\ pc \in {"write", "run", "tell"} /\ isAfterWait => curQemu < currentQemuAfterWait
    /\ pc = "write" => ready[curQemu]
    /\ pc = "run" => /\ handled[curQemu] /\ out_file[curQemu]
                     /\ cur_stage[curQemu] = stage
    /\ pc = "tell" => ~handled[curQemu]
    /\ pc = "drain" => \A q \in Qemu : ready[q]
    /\ pc \in {"spin", "write"} => handled[curQemu] \/ msgFault = qfault[curQemu]

FifoInv ==
    /\ Distinct(fifo)
    /\ \A i \in 1 .. Len(fifo) :
           handled[fifo[i].pid] \/ fifo[i].fault = qfault[fifo[i].pid]

(* The test of QEMU q ended without a report.                              *)
Lost(q) == /\ ForeignFault /\ ~handled[q] /\ ~Has(fifo, q)
           /\ ~At(q, {"spin", "write", "run", "tell"})

QemuInv(q) ==
    /\ qpc[q] \in {"launched", "mapped"} => pc = "setup"
    /\ qpc[q] = "dead" => pc = "stopped"
    /\ ctrl[q] # <<>> => Len(ctrl[q]) = 1 /\ qpc[q] = "wait"
    /\ Busy(q) => /\ ~ready[q] /\ ~handled[q] /\ ~Has(fifo, q)
                  /\ ~At(q, {"spin", "write", "run", "tell"})
    /\ qpc[q] = "reported" => /\ ~ready[q] /\ ~handled[q]
                              /\ At(q, {"spin"}) \/ Has(fifo, q)
                              /\ ~At(q, {"write", "run", "tell"})
    /\ Idle(q) /\ ready[q] => ~At(q, {"tell"})
    /\ Idle(q) /\ ~ready[q] => At(q, {"tell"}) \/ Lost(q)
    /\ handled[q] => ready[q] /\ trace[q] \in {"clear", "classified"}
    /\ ~handled[q] => /\ started[q] /\ out_file[q]
                      /\ testStage[q] = stage /\ cur_stage[q] = stage
                      /\ trace[q] \in {"clear", "raw"}
    /\ ~handled[q] /\ ready[q] => Has(fifo, q) \/ At(q, {"spin", "write"})
    /\ Has(fifo, q) => ~At(q, {"spin", "write", "run", "tell"})
    /\ Has(fifo, q) /\ handled[q] => ~started[q]
    /\ isAfterWait /\ q >= currentQemuAfterWait =>
           ready[q] /\ handled[q] /\ ~Has(fifo, q)

(* What afl-fuzz believes of a QEMU (ready, handled, a report in the FIFO, *)
(* a stage, a fault) agrees with what that QEMU is doing, at every step of *)
(* either: the conjunction of the four is inductive.                       *)
ProtocolInv == SetupInv /\ AflInv /\ FifoInv /\ \A q \in Qemu : QemuInv(q)

(* The dispatcher implements TestService.  A slot is free once its result  *)
(* is handled, and finished from the moment its report is in the FIFO.     *)
SlotOf(q) ==
    IF handled[q] THEN "free"
    ELSE IF ready[q] \/ qpc[q] = "reported" THEN "finished" ELSE "busy"

Service == INSTANCE TestService WITH
    Worker  <- Qemu,
    slot    <- [q \in Qemu |-> SlotOf(q)],
    outcome <- qfault,
    view    <- cover_new

(* Seen through that mapping, afl-fuzz and the QEMUs run one test per QEMU *)
(* at a time and judge each once, by the outcome its QEMU reported.        *)
ImplementsService == Service!SvcSpec

(* The dispatcher implements Dispatch, which the modules of the fuzzing    *)
(* stages and of the results are built on.  A QEMU is fed, in one step,    *)
(* when afl-fuzz chooses it: from then to the write to its control pipe    *)
(* its test counts as started and not handled.                             *)
Free      == [q \in Qemu |-> handled[q] /\ ~At(q, {"spin", "write", "run", "tell"})]
Reporters == [i \in 1 .. Len(fifo) |-> fifo[i].pid]
AtWork    == {q \in Qemu : ~Free[q] /\ ~Has(fifo, q)}

Merged == INSTANCE Dispatch WITH
    handled <- Free,
    fifo    <- Reporters,
    running <- AtWork

(* Start-up ends in an initial state of Dispatch, and from there every     *)
(* step of afl-fuzz or of a QEMU is one of Dispatch's, or none: merging    *)
(* write_to_testcase with run_target, and a test with its report, leaves   *)
(* out nothing that happens in between.                                    *)
ImplementsDispatch ==
    [][IF pc = "setup" THEN pc' # "setup" => Merged!DispatchInit'
       ELSE Merged!DispatchNext \/ UNCHANGED Merged!dispVars]_vars

(* Every dispatched test is judged, unless the user stops the fuzzer.      *)
EveryTestJudged ==
    \A q \in Qemu : ~handled[q] ~> (handled[q] \/ pc = "stopped")

(* WAIT_ALLQEMUS_FREE ends.                                                *)
BarrierEnds == pc = "waitfree" ~> pc \in {"next", "stopped"}

(* Once the stop signal arrived, afl-fuzz leaves its main loop.            *)
StopEnds == stop_soon ~> pc = "stopped"
=============================================================================
