------------------------------ MODULE Results -------------------------------
(***************************************************************************)
(* What afl-fuzz learns from the tests: handle_onetestdone,                *)
(* save_if_interesting, has_new_bits and simplify_trace over the trace     *)
(* segments of the QEMUs, the virgin maps, the queue and the files of      *)
(* crashes, from the dry run (perform_dry_run, calibrate_case) on.         *)
(*                                                                         *)
(* A trace gives every map byte its hit-count class after classify_counts. *)
(* Two classes are enough: 1 and 128, the two simplify_trace writes.       *)
(***************************************************************************)
EXTENDS Dispatch

CONSTANTS
    Byte,                \* the bytes of the map
    NSeeds,              \* the testcases of the input directory
    KEEP_UNIQUE_CRASH,
    MaxTests             \* bound on the number of tests

ASSUME ResultsAssumption ==
    /\ MaxTests \in Nat /\ KEEP_UNIQUE_CRASH \in Nat
    /\ NSeeds \in 1 .. MaxTests

Bucket == {1, 128}
Trace  == [Byte -> {0} \cup Bucket]
Clear  == [b \in Byte |-> 0]
Virgin == [b \in Byte |-> Bucket]
Fault  == {"NONE", "CRASH", "REDUNDANT"}
Test   == 1 .. MaxTests
NoTest == 0

VARIABLES
    pc, stage,
    seed,                         \* the next testcase of the dry run
    trace, cover_new, cur_queue,  \* of each QEMU; cur_queue 0 is NULL
    qfault,                       \* the fault in the report of each QEMU
    virgin_bits, virgin_crash,
    queue,             \* entries: which test ran its input (history), which
                       \* set its exec_us, bitmap_size and exec_cksum, and
                       \* which its has_new_cov
    files,             \* the names taken in queue/
    crashes,           \* the tests saved in crashes/, in order
    total_cal_cycles,
    fatal,             \* why afl-fuzz gave up, or ""
    \* history
    test,              \* the last test given to each QEMU
    ntests,
    ran,               \* the trace of every finished test
    outcome,           \* how every judged test was judged, or ""
    prev               \* how the last judged test of each QEMU was judged

mapVars  == <<virgin_bits, virgin_crash, queue, files, crashes, total_cal_cycles,
              fatal, cover_new, outcome, prev>>
vars == <<dispVars, pc, stage, seed, trace, cur_queue, qfault, mapVars, test,
          ntests, ran>>

(* The dry run runs entry i as test i.                                     *)
Entry == [test : Test, measured : Test \cup {NoTest},
          newcov : Test \cup {NoTest}]

Init ==
    /\ DispatchInit
    /\ pc = "seeds" /\ stage = "CALIBRATE" /\ seed = 1
    /\ trace = [q \in Qemu |-> Clear] /\ cover_new = [q \in Qemu |-> 1]
    /\ cur_queue = [q \in Qemu |-> 0] /\ qfault = [q \in Qemu |-> "NONE"]
    /\ virgin_bits = Virgin /\ virgin_crash = Virgin
    /\ queue = [i \in 1 .. NSeeds |->
                  [test |-> i, measured |-> NoTest, newcov |-> NoTest]]
    /\ files = {} /\ crashes = <<>> /\ total_cal_cycles = 0 /\ fatal = ""
    /\ test = [q \in Qemu |-> NoTest] /\ ntests = 0
    /\ ran = [t \in Test |-> Clear] /\ outcome = [t \in Test |-> ""]
    /\ prev = [q \in Qemu |-> "NONE"]

-----------------------------------------------------------------------------
(* has_new_bits: 2 for a byte never hit before, 1 for a new class only.    *)
HasNewBits(tr, vir) ==
    IF \A b \in Byte : tr[b] \notin vir[b] THEN 0
    ELSE IF \E b \in Byte : tr[b] # 0 /\ vir[b] = Bucket THEN 2 ELSE 1

(* Mutant: only the first class of a byte is cleared from the map.         *)
ClearedPristine(tr, vir) ==
    [b \in Byte |-> IF vir[b] = Bucket THEN vir[b] \ {tr[b]} ELSE vir[b]]

(* ... and the map it leaves: *virgin &= ~*current.                        *)
Cleared(tr, vir) == [b \in Byte |-> vir[b] \ {tr[b]}]

(* Mutant: the trace of a crash is compared as it is.                      *)
SimplifyNothing(tr) == tr

(* simplify_trace.                                                         *)
Simplify(tr) == [b \in Byte |-> IF tr[b] = 0 THEN 1 ELSE 128]

(* The name of a new file in queue/.  It starts with queued_paths; in the  *)
(* dry run the rest of it, describe_op, only tells the value of hnb.       *)
FileName(hnb) == <<Len(queue), stage, hnb = 2>>

JudgeRedundant(q) ==
    /\ qfault[q] = "REDUNDANT"
    /\ cover_new' = [cover_new EXCEPT ![q] = 2]
    /\ UNCHANGED <<virgin_bits, virgin_crash, queue, files, crashes,
                   total_cal_cycles, fatal>>

(* After a calibration with new bits nothing is added to the queue: the    *)
(* measurements go to cur_queue, has_new_cov to the top of the queue.      *)
Calibrated(q, e, hnb) ==
    [i \in 1 .. Len(queue) |->
        [queue[i] EXCEPT
            !.measured = IF i = e THEN test[q] ELSE @,
            !.newcov   = IF i = Len(queue) /\ hnb = 2 THEN test[q] ELSE @]]

(* Mutant: a new class of a known byte is not worth an entry.              *)
SavedOnlyNewTuples(q, e, hnb) ==
    IF stage = "CALIBRATE" THEN Calibrated(q, e, hnb)
    ELSE IF hnb = 2
    THEN Append(queue, [test |-> test[q], measured |-> test[q], newcov |-> test[q]])
    ELSE queue

(* The queue after a test with new bits (add_to_queue).                    *)
Saved(q, e, hnb) ==
    IF stage = "CALIBRATE" THEN Calibrated(q, e, hnb)
    ELSE Append(queue, [test |-> test[q], measured |-> test[q],
                        newcov |-> IF hnb = 2 THEN test[q] ELSE NoTest])

(* A normal test of q, judged while c is curQemu and e is q's cur_queue:   *)
(* the bits compared with the virgin map are those of c.                   *)
JudgeNormal(q, c, e) ==
    LET hnb == HasNewBits(trace[c], virgin_bits) IN
    /\ qfault[q] = "NONE"
    /\ cover_new' = [cover_new EXCEPT ![q] = IF hnb = 0 THEN 0 ELSE 1]
    /\ virgin_bits' = Cleared(trace[c], virgin_bits)
    /\ \/ /\ hnb = 0
          /\ UNCHANGED <<queue, files, total_cal_cycles, fatal>>
       \/ /\ hnb # 0 /\ stage = "CALIBRATE" /\ e = 0
          /\ fatal' = "cur_queue"
          /\ UNCHANGED <<queue, files, total_cal_cycles>>
       \/ /\ hnb # 0 /\ (stage = "CALIBRATE" => e # 0)
          /\ queue' = Saved(q, e, hnb)
          /\ total_cal_cycles' = total_cal_cycles + 1
          /\ files' = files \cup {FileName(hnb)}
          /\ fatal' = IF FileName(hnb) \in files THEN "create" ELSE ""
    /\ UNCHANGED <<virgin_crash, crashes>>

(* A crash of q.  cover_new keeps what the previous test left in it.       *)
JudgeCrash(q, c) ==
    /\ qfault[q] = "CRASH"
    /\ IF Len(crashes) >= KEEP_UNIQUE_CRASH
       THEN UNCHANGED <<virgin_crash, crashes>>
       ELSE /\ virgin_crash' = Cleared(Simplify(trace[c]), virgin_crash)
            /\ crashes' = IF HasNewBits(Simplify(trace[c]), virgin_crash) = 0
                          THEN crashes ELSE Append(crashes, test[q])
    /\ UNCHANGED <<virgin_bits, cover_new, queue, files, total_cal_cycles, fatal>>

(* The trace segments after a test of q was judged: a crash that is        *)
(* compared leaves the segment of c simplified.                            *)
TraceAfter(q, c) ==
    IF qfault[q] = "CRASH" /\ Len(crashes) < KEEP_UNIQUE_CRASH
    THEN [trace EXCEPT ![c] = Simplify(@)] ELSE trace

(* handle_onetestdone.                                                     *)
HandleOneTestDone(q, c, e) ==
    /\ JudgeRedundant(q) \/ JudgeNormal(q, c, e) \/ JudgeCrash(q, c)
    /\ outcome' = [outcome EXCEPT ![test[q]] = qfault[q]]
    /\ prev' = [prev EXCEPT ![q] = qfault[q]]

-----------------------------------------------------------------------------
(* write_to_testcase and run_target for the input of queue entry e (0 for  *)
(* a mutated one).  cur_queue is set before the previous test of q is      *)
(* judged, and cleared by that judgement.                                  *)
Give(q, e) ==
    /\ fatal = "" /\ ntests < MaxTests
    /\ Feed(q)
    /\ IF handled[q]
       THEN UNCHANGED mapVars /\ cur_queue' = [cur_queue EXCEPT ![q] = e]
       ELSE HandleOneTestDone(q, q, e) /\ cur_queue' = [cur_queue EXCEPT ![q] = 0]
    /\ trace' = [trace EXCEPT ![q] = Clear]
    /\ ntests' = ntests + 1
    /\ test' = [test EXCEPT ![q] = ntests + 1]
    /\ UNCHANGED <<stage, qfault, ran>>

(* perform_dry_run calls calibrate_case for the next entry.                *)
CalibrateCase(q) ==
    /\ pc = "seeds" /\ seed <= NSeeds
    /\ Give(q, seed)
    /\ seed' = seed + 1
    /\ UNCHANGED pc

(* common_fuzz_stuff in a stage of fuzz_one.                               *)
CommonFuzzStuff(q) ==
    /\ pc = "stage"
    /\ Give(q, 0)
    /\ UNCHANGED <<pc, seed>>

(* The dry run, or a stage, is over.                                       *)
ReachBarrier ==
    /\ fatal = "" /\ (pc = "stage" \/ (pc = "seeds" /\ seed > NSeeds))
    /\ pc' = "wait"
    /\ UNCHANGED <<dispVars, stage, seed, trace, cur_queue, qfault, mapVars, test,
                   ntests, ran>>

(* process_unhandled_qemus handles the oldest report.                      *)
ProcessUnhandled(q) ==
    /\ fatal = "" /\ pc = "wait"
    /\ Drain(q)
    /\ IF handled[q]
       THEN UNCHANGED <<mapVars, cur_queue, trace>>
       ELSE /\ HandleOneTestDone(q, curQemu, cur_queue[q])
            /\ trace' = TraceAfter(q, curQemu)
            /\ cur_queue' = [cur_queue EXCEPT ![q] = 0]
    /\ UNCHANGED <<pc, stage, seed, qfault, test, ntests, ran>>

(* The barrier ends; fuzz_one starts with an entry, or its next stage.     *)
BarrierDone ==
    /\ fatal = "" /\ pc = "wait" /\ EndBarrier
    /\ pc' = IF stage = "CALIBRATE" THEN "score" ELSE "stage"
    /\ stage' = "MUTATE"
    /\ UNCHANGED <<seed, trace, cur_queue, qfault, mapVars, test, ntests, ran>>

(* calculate_score divides by total_cal_cycles and total_bitmap_entries,   *)
(* which count the same calls.                                             *)
CalculateScore ==
    /\ fatal = "" /\ pc = "score"
    /\ pc' = "stage"
    /\ fatal' = IF total_cal_cycles = 0 THEN "divide" ELSE ""
    /\ UNCHANGED <<dispVars, stage, seed, trace, cur_queue, qfault, virgin_bits,
                   virgin_crash, queue, files, crashes, total_cal_cycles,
                   cover_new, outcome, prev, test, ntests, ran>>

(* A QEMU executes its test, or filters it out without executing it.       *)
Execute(q) ==
    /\ fatal = "" /\ Report(q)
    /\ \/ /\ \E f \in {"NONE", "CRASH"} : qfault' = [qfault EXCEPT ![q] = f]
          /\ \E tr \in Trace : /\ trace' = [trace EXCEPT ![q] = tr]
                               /\ ran' = [ran EXCEPT ![test[q]] = tr]
       \/ /\ qfault' = [qfault EXCEPT ![q] = "REDUNDANT"]
          /\ UNCHANGED <<trace, ran>>
    /\ UNCHANGED <<pc, stage, seed, cur_queue, mapVars, test, ntests>>

Next ==
    \/ ReachBarrier \/ BarrierDone \/ CalculateScore
    \/ \E q \in Qemu : \/ CalibrateCase(q) \/ CommonFuzzStuff(q)
                       \/ ProcessUnhandled(q) \/ Execute(q)

Spec == Init /\ [][Next]_vars

-----------------------------------------------------------------------------
(* The values of the variables; no more than KEEP_UNIQUE_CRASH crashes are *)
(* kept.                                                                   *)
TypeOK ==
    /\ pc \in {"seeds", "stage", "wait", "score"}
    /\ stage \in {"CALIBRATE", "MUTATE"} /\ seed \in 1 .. NSeeds + 1
    /\ trace \in [Qemu -> Trace] /\ cover_new \in [Qemu -> 0 .. 2]
    /\ cur_queue \in [Qemu -> 0 .. NSeeds] /\ qfault \in [Qemu -> Fault]
    /\ virgin_bits \in [Byte -> SUBSET Bucket]
    /\ virgin_crash \in [Byte -> SUBSET Bucket]
    /\ queue \in Seq(Entry) /\ Len(queue) \in NSeeds .. NSeeds + MaxTests
    /\ crashes \in Seq(Test) /\ Len(crashes) <= KEEP_UNIQUE_CRASH
    /\ total_cal_cycles \in 0 .. MaxTests
    /\ fatal \in {"", "cur_queue", "create", "divide"}
    /\ test \in [Qemu -> Test \cup {NoTest}] /\ ntests \in 0 .. MaxTests
    /\ ran \in [Test -> Trace] /\ outcome \in [Test -> Fault \cup {""}]
    /\ prev \in [Qemu -> Fault]

Judged(f) == {t \in Test : outcome[t] = f}

(* virgin_bits has exactly the bits that no judged test has shown: no      *)
(* result is missed and none is made up (process_unhandled_qemus: "so that *)
(* we are NOT missing critical results before next test starts").          *)
VirginIsUnseen ==
    virgin_bits = [b \in Byte |-> {v \in Bucket : \A t \in Judged("NONE") : ran[t][b] # v}]

(* Whatever a judged test has shown can be shown again from the queue:     *)
(* save_if_interesting keeps an input for every new bit.                   *)
CorpusCovers ==
    \A t \in Judged("NONE"), b \in Byte : ran[t][b] # 0 =>
        \E i \in 1 .. Len(queue) : ran[queue[i].test][b] = ran[t][b]

(* Below the limit every crash has a look-alike, byte by byte, among the   *)
(* saved ones, and each saved one differs in some byte from all before it. *)
CrashCovers ==
    LET tuples(t) == Simplify(ran[t]) IN
    /\ Len(crashes) < KEEP_UNIQUE_CRASH =>
          \A t \in Judged("CRASH"), b \in Byte :
             \E i \in 1 .. Len(crashes) : tuples(crashes[i])[b] = tuples(t)[b]
    /\ \A j \in 1 .. Len(crashes) : \E b \in Byte :
          \A i \in 1 .. j - 1 : tuples(crashes[i])[b] # tuples(crashes[j])[b]

(* exec_us, bitmap_size and exec_cksum of an entry come from the test     *)
(* that ran its own input (calibrate_case: "this update should be          *)
(* processed when checking qemu traces in order to obtain correct score"). *)
OwnMeasurements ==
    \A i \in 1 .. Len(queue) : queue[i].measured \in {NoTest, queue[i].test}

(* So does has_new_cov.                                                    *)
OwnNewCov == \A i \in 1 .. Len(queue) : queue[i].newcov \in {NoTest, queue[i].test}

(* No two entries of queue/ are given the same name, or the O_EXCL open of *)
(* save_if_interesting would end afl-fuzz.                                 *)
NamesFresh == fatal # "create"

(* A calibration is judged with the entry it belongs to at hand            *)
(* (save_if_interesting: "current queue should be set for calibration").   *)
QueueSetForCalibration == fatal # "cur_queue"

(* The averages calculate_score divides by are averages of something.      *)
ScoreDefined == fatal # "divide"

(* run_target tells a QEMU "redu" only when its previous test was          *)
(* "reported as redundant".                                                *)
OrderTruthful == \A q \in running : cover_new[q] = 2 => prev[q] = "REDUNDANT"
=============================================================================
