------------------------------ MODULE FuzzyS2E ------------------------------
(***************************************************************************)
(* One QEMU as seen from inside: the FuzzyS2E plugin, which is also the    *)
(* searcher of the executor, the loop of the guest agent that drives it    *)
(* and the target it starts.  afl-fuzz is the environment: it sends one    *)
(* testcase when the ready flag is set (ParallelQemu has that side).       *)
(*                                                                         *)
(* State 0, the seed, waits for a testcase and forks a work state, which   *)
(* runs the target and reports.  With the filter on, the work state is     *)
(* kept afterwards as a significant state, unless one like it is there.    *)
(***************************************************************************)
EXTENDS TestcaseFilter, Functions

CONSTANTS
    DrillFreq,       \* m_drillFreq
    Configs,         \* the plugin configurations: records of the type below
    Crash,           \* the testcases the target faults on
    FilterFaults,    \* may the target fault while the filter is on?
    NoTest           \* the testcase of a state that does not exist

ASSUME PluginAssumption ==
    /\ DrillFreq \in Nat \ {0} /\ Crash \subseteq Test /\ NoTest \notin Test
    /\ FilterFaults \in BOOLEAN
    /\ Configs \subseteq
         [needFilter : BOOLEAN, useDrill : BOOLEAN, terminateOnFault : BOOLEAN]

VARIABLES
    cfg,             \* the configuration, read once
    states,          \* the executor's states
    schedule,        \* m_schedule_states
    cur,             \* g_s2e_state
    at,              \* what each state is doing in the guest
    test,            \* the testcase in the guest memory of each state
    pos,             \* the conditions the work state has met
    forking,         \* is forking enabled in the work state?
    drilled,         \* the states that have met a branch where they might fork
    DrillFreqCounter,
    order,           \* the control pipe: the four bytes, or "" if it is empty
    file,            \* the testcase file afl-fuzz wrote, until it is read
    ready,           \* this QEMU's byte of m_ReadyArray
    reports,         \* the reports written since the last order
    cover_new,       \* how afl-fuzz judged the report, until the next order
    failed           \* the assertion that aborted QEMU, or ""

workVars   == <<pos, forking>>
aflVars    == <<order, file, ready, reports, cover_new>>
pluginVars == <<cfg, states, schedule, cur, at, test, workVars, drilled,
                DrillFreqCounter, aflVars, failed>>
vars       == <<filterVars, pluginVars>>

Filtering == cfg.needFilter
Drilling  == cfg.needFilter /\ cfg.useDrill /\ modeSwitched

Init ==
    /\ FilterInit
    /\ cfg \in {c \in Configs : c.useDrill => c.needFilter}
    /\ states = {0} /\ schedule = <<0>> /\ cur = 0
    /\ at = [s \in StateId |-> IF s = 0 THEN "wait" ELSE "none"]
    /\ test = [s \in StateId |-> NoTest]
    /\ pos = 0 /\ forking = FALSE
    /\ drilled = {} /\ DrillFreqCounter = DrillFreq
    /\ order = "" /\ file = NoTest /\ ready = TRUE /\ reports = 1 /\ cover_new = 1
    /\ failed = ""

-----------------------------------------------------------------------------
(* afl-fuzz: what it makes of a report, and the order it sends with the    *)
(* next testcase (run_target).  save_if_interesting leaves cover_new alone *)
(* after a crash: it may be anything that was there before.                *)
Verdicts(f) ==
    CASE f = "REDUNDANT" -> {2}
      [] f = "NONE"      -> {0, 1}
      [] f = "CRASH"     -> {0, 1, 2}

SendOrder(t) ==
    /\ failed = "" /\ ready /\ order = ""
    /\ order' = (CASE cover_new = 0 -> "none"
                   [] cover_new = 1 -> "play"
                   [] cover_new = 2 -> "redu")
    /\ file' = t /\ ready' = FALSE /\ reports' = 0 /\ cover_new' = 0
    /\ UNCHANGED <<filterVars, cfg, states, schedule, cur, at, test, workVars,
                   drilled, DrillFreqCounter, failed>>

Report(f) == reports' = reports + 1 /\ cover_new' \in Verdicts(f)

(* A failing assertion ends QEMU.                                          *)
Abort(assertion) == failed' = assertion

-----------------------------------------------------------------------------
(* The executor.  FuzzyS2E is its searcher: it runs the work state if      *)
(* there is one.                                                           *)
Erase(q, s) ==
    LET k == CHOOSE i \in 1 .. Len(q) : q[i] = s
    IN  IF \E i \in 1 .. Len(q) : q[i] = s
        THEN [i \in 1 .. Len(q) - 1 |-> IF i < k THEN q[i] ELSE q[i + 1]]
        ELSE q

(* Mutant: the seed is preferred.                                          *)
SelectSeed(q) ==
    IF q = <<>> THEN Abort("All states were terminated") /\ UNCHANGED cur
    ELSE IF Len(q) >= 3 THEN Abort("States number is weird!") /\ UNCHANGED cur
    ELSE cur' = q[1] /\ UNCHANGED failed

SelectState(q) ==
    IF q = <<>> THEN Abort("All states were terminated") /\ UNCHANGED cur
    ELSE IF Len(q) >= 3 THEN Abort("States number is weird!") /\ UNCHANGED cur
    ELSE /\ cur' = IF Len(q) = 1 THEN q[1] ELSE q[2]
         /\ UNCHANGED failed

Forget(s) ==
    /\ conHash'   = [conHash EXCEPT ![s] = {}]
    /\ conInMain' = [conInMain EXCEPT ![s] = {}]
    /\ inputSize' = [inputSize EXCEPT ![s] = -1]
    /\ at'        = [at EXCEPT ![s] = "none"]
    /\ test'      = [test EXCEPT ![s] = NoTest]
    /\ drilled'   = drilled \ {s}

keepVars == <<conHash, conInMain, inputSize, test, drilled>>

(* terminateStateEarly on the current state, q being what is scheduled:    *)
(* the state leaves the executor and the next one is selected.  What the   *)
(* filter holds of a significant state stays.                              *)
Terminate(s, q) ==
    /\ states' = states \ {s}
    /\ schedule' = Erase(q, s)
    /\ SelectState(Erase(q, s))
    /\ IF s \in sigStates'
       THEN at' = [at EXCEPT ![s] = "none"] /\ UNCHANGED keepVars
       ELSE Forget(s)

(* The state switch timer, or a state that yields, when the current state  *)
(* is not blocked in a read: a state is selected.                          *)
StateSwitch ==
    /\ failed = "" /\ at[cur] \notin {"wait", "verify", "faulted"}
    /\ SelectState(schedule)
    /\ UNCHANGED <<filterVars, cfg, states, schedule, at, test, workVars, drilled,
                   DrillFreqCounter, aflVars>>

-----------------------------------------------------------------------------
(* The seed.  wait_afl_testcase reads an order, counts the tests that      *)
(* found nothing, and goes through the loop of isRedundant.                *)
WaitAflTestcase ==
    /\ failed = "" /\ cur = 0 /\ at[0] = "wait" /\ order # ""
    /\ IF Drilling /\ order = "none" /\ DrillFreqCounter = 0
       THEN /\ Abort("Cannot reach zero!!!")
            /\ UNCHANGED <<filterVars, at, DrillFreqCounter, order>>
       ELSE /\ order' = ""
            /\ DrillFreqCounter' =
                 CASE Drilling /\ order = "none" -> DrillFreqCounter - 1
                   [] Drilling /\ order = "play" -> DrillFreq
                   [] OTHER                      -> DrillFreqCounter
            /\ at' = [at EXCEPT ![0] = IF Filtering THEN "verify" ELSE "fork"]
            /\ todo' = IF Filtering THEN SameLen(Size[file]) ELSE {}
            /\ UNCHANGED <<sigStates, conHash, conInMain, inputSize, hot, FreqCounter,
                           modeSwitched, vT, vF, failed>>
    /\ UNCHANGED <<cfg, states, schedule, cur, test, workVars, drilled,
                   file, ready, reports, cover_new>>

Verifying == failed = "" /\ cur = 0 /\ at[0] = "verify"

VerifyState(s) ==
    /\ Verifying /\ s \in todo
    /\ IF s \in states
       THEN VerifyOther(s, file) /\ UNCHANGED failed
       ELSE Abort("freed state used") /\ UNCHANGED loopVars
    /\ UNCHANGED <<sigStates, conHash, conInMain, inputSize, hot, FreqCounter,
                   modeSwitched, cfg, states, schedule, cur, at, test,
                   workVars, drilled, DrillFreqCounter, aflVars>>

(* isRedundant has found a state that takes the same path:                 *)
(* report_redundant, and back to the read.                                 *)
(* Mutant: the ready byte is not set.                                      *)
ReportRedundantSilently(s) ==
    /\ Verifying /\ s \in todo \cap states
    /\ VerifySame(s, file)
    /\ Report("REDUNDANT")
    /\ at' = [at EXCEPT ![0] = "wait"] /\ file' = NoTest
    /\ UNCHANGED <<sigStates, conHash, conInMain, inputSize, FreqCounter, modeSwitched,
                   cfg, states, schedule, cur, test, workVars, drilled,
                   DrillFreqCounter, order, ready, failed>>

ReportRedundant(s) ==
    /\ Verifying /\ s \in todo \cap states
    /\ VerifySame(s, file)
    /\ Report("REDUNDANT") /\ ready' = TRUE
    /\ at' = [at EXCEPT ![0] = "wait"] /\ file' = NoTest
    /\ UNCHANGED <<sigStates, conHash, conInMain, inputSize, FreqCounter, modeSwitched,
                   cfg, states, schedule, cur, test, workVars, drilled,
                   DrillFreqCounter, order, failed>>

(* isRedundant has found none.  In the concrete mode one test in           *)
(* SampleFreq + 1 drops a state that no test has hit since the last time   *)
(* (updateHotStates), if there is one.                                     *)
NotRedundant ==
    LET sampled == modeSwitched /\ sigStates # {} /\ FreqCounter = 0
    IN  /\ Verifying /\ todo = {} /\ (sampled => sigStates \subseteq hot)
        /\ at' = [at EXCEPT ![0] = "fork"]
        /\ vT' = {} /\ vF' = {}
        /\ FreqCounter' = IF sampled THEN SampleFreq
                          ELSE IF modeSwitched /\ sigStates # {} THEN FreqCounter - 1
                          ELSE FreqCounter
        /\ hot' = IF sampled THEN {} ELSE hot
        /\ UNCHANGED <<sigStates, conHash, conInMain, inputSize, modeSwitched, todo, cfg,
                       states, schedule, cur, test, workVars, drilled, DrillFreqCounter,
                       aflVars, failed>>

UpdateHotStates(s) ==
    /\ Verifying /\ todo = {} /\ modeSwitched /\ FreqCounter = 0
    /\ s \in sigStates \ hot
    /\ FreqCounter' = SampleFreq /\ hot' = {} /\ vT' = {} /\ vF' = {}
    /\ sigStates' = sigStates \ {s}
    /\ conHash'   = [conHash EXCEPT ![s] = {}]
    /\ conInMain' = [conInMain EXCEPT ![s] = {}]
    /\ inputSize' = [inputSize EXCEPT ![s] = -1]
    /\ states' = states \ {s} /\ schedule' = Erase(schedule, s)
    /\ at' = [at EXCEPT ![0] = "fork", ![s] = "none"]
    /\ test' = [test EXCEPT ![s] = NoTest] /\ drilled' = drilled \ {s}
    /\ UNCHANGED <<modeSwitched, todo, cfg, cur, workVars,
                   DrillFreqCounter, aflVars, failed>>

(* The id of a new state; as ids mean nothing, one of the free ones.       *)
NewId == CHOOSE w \in WorkId : w \notin states \cup sigStates

(* fork_work_state, on a copy of the testcase; updateStates schedules the  *)
(* new state.                                                              *)
ForkWorkState(w) ==
    /\ failed = "" /\ cur = 0 /\ at[0] = "fork"
    /\ w = NewId /\ w \notin states \cup sigStates
    /\ states' = states \cup {w} /\ schedule' = Append(schedule, w)
    /\ at' = [at EXCEPT ![0] = "yield", ![w] = "need"]
    /\ test' = [test EXCEPT ![w] = file] /\ file' = NoTest
    /\ pos' = 0
    /\ forking' = (Drilling /\ DrillFreqCounter = 0)
    /\ UNCHANGED <<filterVars, cfg, cur, drilled, DrillFreqCounter, order, ready, reports,
                   cover_new, failed>>

(* The agent in the seed: wait_work_state gives way to the work state, if  *)
(* that is still to be run.                                                *)
WaitWorkState ==
    /\ failed = "" /\ cur = 0 /\ at[0] = "yield"
    /\ IF Len(schedule) <= 1
       THEN at' = [at EXCEPT ![0] = "wait"] /\ UNCHANGED <<cur, failed>>
       ELSE SelectState(schedule) /\ UNCHANGED at
    /\ UNCHANGED <<filterVars, cfg, states, schedule, test, workVars, drilled,
                   DrillFreqCounter, aflVars>>

-----------------------------------------------------------------------------
(* The work state.  The agent asks whether to make the testcase symbolic   *)
(* and starts the target; once all the significant states there may be are *)
(* there, FuzzyS2E switches to the concrete mode, with a drill run now and *)
(* then.                                                                   *)
Room       == Cardinality(sigStates) < MaxStates - 1
DrillRun   == Filtering /\ cfg.useDrill /\ modeSwitched' /\ DrillFreqCounter = 0

(* Mutant: the drill counter is not reset.                                 *)
IsNeedSymbexNoReset(w) ==
    /\ failed = "" /\ cur = w /\ at[w] = "need"
    /\ modeSwitched' = (modeSwitched \/ (Filtering /\ ~Room))
    /\ UNCHANGED DrillFreqCounter
    /\ inputSize' = IF Filtering /\ (Room \/ DrillRun)
                    THEN [inputSize EXCEPT ![w] = InputSize(test[w])] ELSE inputSize
    /\ at' = [at EXCEPT ![w] = "run"]
    /\ UNCHANGED <<sigStates, conHash, conInMain, hot, FreqCounter, loopVars,
                   cfg, states, schedule, cur, test, workVars, drilled, aflVars, failed>>

IsNeedSymbex(w) ==
    /\ failed = "" /\ cur = w /\ at[w] = "need"
    /\ modeSwitched' = (modeSwitched \/ (Filtering /\ ~Room))
    /\ DrillFreqCounter' = IF DrillRun THEN DrillFreq ELSE DrillFreqCounter
    /\ inputSize' = IF Filtering /\ (Room \/ DrillRun)
                    THEN [inputSize EXCEPT ![w] = InputSize(test[w])] ELSE inputSize
    /\ at' = [at EXCEPT ![w] = "run"]
    /\ UNCHANGED <<sigStates, conHash, conInMain, hot, FreqCounter, loopVars,
                   cfg, states, schedule, cur, test, workVars, drilled, aflVars, failed>>

Running(w)  == failed = "" /\ cur = w /\ at[w] = "run"
Symbolic(w) == inputSize[w] # -1

(* The next branch on symbolic data: S2EExecutor::fork adds a constraint   *)
(* and reports the condition, which the filter keeps if it is in the main  *)
(* image.  A work state that may fork does so in the main image, if the    *)
(* solver finds an input for the other side; onStateFork kills that state  *)
(* before it is scheduled (Symbex has what it does first).  If the solver  *)
(* finds none, the condition is reported but no constraint is added.       *)
Branch(w) ==
    /\ Running(w) /\ Symbolic(w) /\ pos < Len(Path[test[w]])
    /\ pos' = pos + 1
    /\ LET t == test[w]
           c == Path[t][pos + 1]
           e == Constraint(c, t)
           mayFork == forking /\ c \notin Lib
       IN  \E forked \in {FALSE, mayFork} :
             /\ conHash' = IF mayFork /\ ~forked THEN conHash
                           ELSE [conHash EXCEPT ![w] = @ \cup {e}]
             /\ conInMain' = IF c \in Lib THEN conInMain
                             ELSE [conInMain EXCEPT ![w] = @ \cup {Reported(c, t, forked)}]
             /\ drilled' = IF mayFork THEN drilled \cup {w} ELSE drilled
    /\ UNCHANGED <<sigStates, inputSize, hot, FreqCounter, modeSwitched, loopVars,
                   cfg, states, schedule, cur, at, test, forking, DrillFreqCounter,
                   aflVars, failed>>

(* tell_afl, and what its callers do to the state afterwards: kills says   *)
(* that the state is terminated, next what it does if it is not.           *)
(* Mutant: a state that is not kept is not terminated.                     *)
TellAflLeaks(w, f, reserve, kills, next) ==
    LET add    == Filtering /\ reserve /\ Cardinality(sigStates) < MaxStates
        left   == IF Filtering THEN Erase(schedule, w) ELSE schedule
    IN  /\ Report(f) /\ ready' = TRUE
        /\ sigStates' = IF add /\ ~Merged(w) THEN sigStates \cup {w} ELSE sigStates
        /\ IF kills
           THEN Terminate(w, left)
           ELSE /\ schedule' = left /\ at' = [at EXCEPT ![w] = next]
                /\ UNCHANGED <<states, cur, failed, keepVars>>

TellAfl(w, f, reserve, kills, next) ==
    LET add    == Filtering /\ reserve /\ Cardinality(sigStates) < MaxStates
        merged == add /\ Merged(w)
        left   == IF Filtering THEN Erase(schedule, w) ELSE schedule
        wrong  == CASE Filtering /\ w \notin Range(schedule) -> "invalid state removed"
                    [] ready                                -> "I'm free before?"
                    [] OTHER                                -> ""
    IN  /\ Report(f)
        /\ IF wrong # ""
           THEN Abort(wrong) /\ UNCHANGED <<sigStates, ready, states, schedule, cur, at,
                                            keepVars>>
           ELSE /\ ready' = TRUE
                /\ sigStates' = IF add /\ ~merged THEN sigStates \cup {w} ELSE sigStates
                /\ IF merged \/ kills
                   THEN Terminate(w, left)
                   ELSE /\ schedule' = left /\ at' = [at EXCEPT ![w] = next]
                        /\ UNCHANGED <<states, cur, failed, keepVars>>

tellFrame == <<hot, FreqCounter, modeSwitched, loopVars, cfg, workVars,
               DrillFreqCounter, order, file>>

Ended(w) == Running(w) /\ (Symbolic(w) => pos = Len(Path[test[w]]))

(* onProcessUnload: the target exits.  A state beyond the limit is killed. *)
Extra == Cardinality(sigStates') >= MaxStates

ProcessUnload(w) ==
    /\ \/ Ended(w) /\ test[w] \notin Crash
       \/ failed = "" /\ cur = w /\ at[w] = "faulted"
    /\ TellAfl(w, IF at[w] = "run" THEN "NONE" ELSE "CRASH", TRUE, ~Filtering \/ Extra, "kept")
    /\ UNCHANGED tellFrame

(* LinuxMonitor2 on SEGMENT_FAULT or DIVIDE_BY_ZERO, through               *)
(* onSegmentFault or onDividebyZero.  A state that lives on blocks the     *)
(* searcher, and the kernel ends its task.                                 *)
Fault(w) ==
    /\ Ended(w) /\ test[w] \in Crash /\ (Filtering => FilterFaults)
    /\ TellAfl(w, "CRASH", TRUE, ~Filtering \/ cfg.terminateOnFault, "faulted")
    /\ UNCHANGED tellFrame

(* slotExecuteBlockStart finds that the test has run for too long.         *)
WorkStateTimeout(w) ==
    /\ Running(w)
    /\ TellAfl(w, "NONE", FALSE, TRUE, "none")
    /\ UNCHANGED tellFrame

Qemu ==
    \/ WaitAflTestcase \/ NotRedundant \/ WaitWorkState
    \/ \E s \in WorkId : \/ VerifyState(s) \/ ReportRedundant(s) \/ UpdateHotStates(s)
                         \/ ForkWorkState(s)
                         \/ IsNeedSymbex(s) \/ Branch(s)
                         \/ ProcessUnload(s) \/ Fault(s) \/ WorkStateTimeout(s)

Next ==
    \/ \E t \in Test : SendOrder(t)
    \/ StateSwitch
    \/ Qemu

Spec == Init /\ [][Next]_vars

(* QEMU goes on running, its state switch timer included; no part of it is *)
(* promised more than the others.                                          *)
FairSpec == Spec /\ WF_vars(Qemu \/ StateSwitch)

-----------------------------------------------------------------------------
TypeOK ==
    /\ cfg \in Configs /\ modeSwitched \in BOOLEAN /\ forking \in BOOLEAN
    /\ states \subseteq StateId /\ sigStates \subseteq WorkId
    /\ hot \subseteq WorkId /\ todo \subseteq WorkId /\ drilled \subseteq WorkId
    /\ schedule \in Seq(StateId) /\ cur \in StateId
    /\ at \in [StateId -> {"none", "wait", "verify", "fork", "yield", "need", "run",
                           "kept", "faulted"}]
    /\ test \in [StateId -> Test \cup {NoTest}] /\ file \in Test \cup {NoTest}
    /\ conHash \in [StateId -> SUBSET Expr] /\ conInMain \in [StateId -> SUBSET Expr]
    /\ inputSize \in [StateId -> Nat \cup {-1}]
    /\ vT \subseteq Expr /\ vF \subseteq Expr
    /\ FreqCounter \in 0 .. SampleFreq /\ DrillFreqCounter \in 0 .. DrillFreq
    /\ pos \in Nat
    /\ order \in {"", "none", "play", "redu"} /\ ready \in BOOLEAN
    /\ reports \in Nat /\ cover_new \in 0 .. 2

(* Between two orders QEMU reports exactly once, and its ready byte is set *)
(* exactly when it has, whichever of the filter, the exit, a fault or the  *)
(* timeout ends the test (tell_afl, report_redundant).                     *)
OneReport == failed = "" => reports \in {0, 1} /\ (ready <=> reports = 1)

(* No assertion of FuzzyS2E.cpp or of the executor fails: the searcher     *)
(* never has three states or none, a state that reports is scheduled, the  *)
(* byte is not set already, and a test that found nothing never meets a    *)
(* drill counter of zero.  The last depends on afl-fuzz, which answers a   *)
(* redundant test with "redu", and on every other test passing             *)
(* s2e_is_need_symbex, which resets the counter.                           *)
AssertionsHold == failed = ""

(* Every state but the seed is scheduled, significant, or on its way out:  *)
(* none is kept in memory that nothing refers to.                          *)
NoLeak == states \ {0} \subseteq sigStates \cup Range(schedule)

(* A significant state has run its whole path symbolically: where          *)
(* s2e_is_need_symbex answers no, addSigState does not keep the state,     *)
(* though they count in different ways and a test runs in between.  One    *)
(* kept after a drill run may lack the constraints of branches where the   *)
(* solver found no other side.                                             *)
SigComplete ==
    \A s \in sigStates :
        /\ inputSize[s] = InputSize(test[s])
        /\ LET path == {Constraint(c, test[s]) : c \in Range(Path[test[s]])}
           IN  conHash[s] \subseteq path /\ (s \notin drilled => conHash[s] = path)

(* Testcase t takes, in the main image, the branches that u takes, and     *)
(* those that s took.                                                      *)
Alike(u, t) ==
    /\ Size[u] = Size[t]
    /\ \A c \in Range(Path[u]) \ Lib : c \in Val[t] <=> c \in Val[u]

SameBranches(s, t) == Alike(test[s], t)

(* isRedundant answers for each state what evaluating its path would,      *)
(* whatever the two sets of verified hashes hold from the states before    *)
(* it, and though these mix NotExpr and createIsZero conditions.  States   *)
(* that met branches in a drill run are excepted.                          *)
FilterExact ==
    Verifying => \A s \in todo \ drilled : SamePath(s, file) <=> SameBranches(s, file)

(* QEMU implements TestWorker.  Its task is the testcase in the file, and  *)
(* from fork_work_state on the one in the memory of the scheduled state.   *)
(* A state kept after a drill run may stand for any testcase.              *)
Task  == IF ready THEN NoTest
         ELSE IF file # NoTest THEN file ELSE test[schedule[Len(schedule)]]
Known == {t \in Test : \E s \in sigStates : s \in drilled \/ SameBranches(s, t)}
LikeOnes(u) == {t \in Test : Alike(u, t)}

Worker == INSTANCE TestWorker WITH
    task    <- Task,
    view    <- cover_new,
    known   <- Known,
    mayFork <- cfg.useDrill,
    Like    <- LikeOnes

(* Whatever the searcher, the filter, the drill counter and the dropping   *)
(* of cold states do in between, the report that sets the ready byte is    *)
(* about the testcase of the last order, and says REDUNDANT only if QEMU   *)
(* has run a testcase of that size and those branches to its end           *)
(* (wait_afl_testcase, fork_work_state, addSigState, isRedundant).         *)
ImplementsWorker == Worker!WorkerSpec

(* Every order is answered, unless an assertion fails.                     *)
OrderAnswered == order # "" ~> ready
=============================================================================
