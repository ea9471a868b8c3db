# Verification of FFuzz

FFuzz is a fork of AFL (`afl-ffuzz/`, built with `CONFIG_S2E`) that feeds its
testcases to several S2E/QEMU processes running in parallel
(`s2e-ffuzz/`), each of which boots a guest (`s2e-ffuzz/guest/`), runs the target on the
testcase and may use symbolic execution to filter testcases that cannot show
anything new. This directory holds TLA+ models of the parts of FFuzz that are
hard to test, the TLC runs that check them and TLAPS proofs of the main
results.

All paths below are relative to the repository (`src/` in `PROJECT.json`).

## 1. The system

### Parts, their state and their operations

| Part | Code | State | Operations |
|---|---|---|---|
| Dispatcher | `afl-ffuzz/afl-fuzz.c` (`write_to_testcase`, `run_target`, `process_unhandled_qemus`, `handle_onetestdone`), `afl-parrel-qemu.h` (`WAIT_ALLQEMUS_FREE`) | `allQemus[]` (`start_us`, `handled`, `out_file`, `cur_stage`, `fault`, `cover_new`, `cur_queue`, `mod_off`), `curQemu`, `isAfterWait`, `currentQemuAfterWait`, `stop_soon` | choose a QEMU, judge its last test, write its testcase, clear its trace, send it an order; barrier at the end of every stage; stop |
| Start-up of the QEMUs | `afl-ffuzz/afl-parrel-qemu.c` | FIFO, ready array, control pipes, trace segments | `InitQemuQueue`, `SetupSHM4Ready`, `setupTracebits` |
| FuzzyS2E plugin | `s2e-ffuzz/qemu/s2e/Plugins/AFLControllers/FuzzyS2E.cpp` | seed, work and scheduled states, filter mode, drill counter | `wait_afl_testcase`, `fork_work_state`, `tell_afl`, `report_redundant`, `selectState`, `update`, event handlers |
| TestcaseFilter plugin | `.../TestcaseFilter.cpp` | significant states, loop buckets, hot states | `addSigState`, `isRedundant`, `updateHotStates`, `CollectSignificantOffs` |
| InputEndDetector, FileLock | `.../InputEndDetector.cpp`, `FileLock.h` | last input character per path, lock file | detect the end of input, lock and unlock |
| LinuxMonitor2 | `.../Plugins/Linux/LinuxMonitor2.cpp` | tracked processes | fault, exit and load events of guest processes |
| Results | `afl-fuzz.c` (`has_new_bits`, `save_if_interesting`, `simplify_trace`, `classify_counts`) | `virgin_bits`, `virgin_crash`, counters, queue | judge one finished test |
| Queue and favourites | `afl-fuzz.c` (`add_to_queue`, `update_bitmap_score`, `cull_queue`, `mark_as_*`) | queue, `top_rated`, `favored`, `tc_ref` | add an entry, compete for a map byte, cull |
| Fuzzing stages | `afl-fuzz.c` (`fuzz_one`, `perform_dry_run`, `calibrate_case`, `read_symbex_testcases`) | current entry, `g_eff_map`, stage counters | dry run, deterministic stages, effector map, havoc, splice |
| Guest agent | `s2e-ffuzz/guest/fuzzagent`, `s2e-ffuzz/guest/init_env` | argument vector, testcase file | make the input symbolic, start the target, custom opcodes |

### How they interact

* **FIFO** `/tmp/afl_qemu_queue`: every QEMU writes 512-byte reports
  `pid|fault|exectime`; afl-fuzz reads them, without blocking.
* **Ready array** (a SysV segment): one byte per pid; afl-fuzz clears it in
  `run_target`, the QEMU sets it after its report.
* **Control pipe** of each QEMU: four bytes, `none`, `play` or `redu`, that
  start a test and tell the QEMU how AFL judged its previous one.
* **Trace segment** of each QEMU: the QEMU fills it, afl-fuzz classifies,
  compares and clears it. Nothing but the protocol keeps the two apart.
* **Testcase directory** of each QEMU: afl-fuzz writes the file, the guest
  reads it.
* **Directory of generated testcases** (`symbex_dir`): drill runs of all QEMUs
  write files, afl-fuzz runs and unlinks them between stages. Nothing locks it.

### What is hard

The result of a test is not collected by the call that dispatched it: it is
judged when the same QEMU is chosen again, or at the end of the stage, by the
values that `QemuInstance` holds by then. The report and the ready byte are two
separate writes. After a barrier QEMUs are fed without the FIFO, so the FIFO
must be empty by then. Inside a QEMU the searcher, the filter and the event
handlers of two plugins share the states of the executor; each may terminate a
state that another still refers to. Stages, the stop signal, the QEMUs and events of other
guest processes interleave freely. `PROJECT.json` lists the hazards line by
line.

## 2. Modules

Every module with state keeps the source's names. "Mutant" definitions, placed
before the definition they alter, are plausible bugs; each property of a passing
run is broken by one of them (`mutants` in `PROJECT.json`).

* `ParallelQemu` — the dispatcher and, for each QEMU, the side of FuzzyS2E that
  talks to it. One action per step that another process can observe.
  `write_to_testcase` is `FeedAfterWait` or `PollQueue`, `ReadQueue`,
  `SpinReady`, then `WriteToTestcase`; `run_target` is `RunTarget` (up to the
  clearing of `handled`) and `TellQemu` (the write to the pipe and the callers'
  test of `stop_soon`); `WAIT_ALLQEMUS_FREE` is `EndStage`, `AllQemusFree`, one
  `ProcessUnhandled` per report and `BarrierDone`. A QEMU maps its trace
  (`GetAFLBitmapSHM`), writes its start-up report (`InitQemuQueue`), and then
  takes an order (`WaitAflTestcase`), filters the testcase (`ReportRedundant`)
  or executes it (`ExecuteTarget`), reports (`TellAfl`) and sets its ready byte
  (`SetReady`). A trace is only `clear`, `raw`, `classified` or `spoiled`.
* `TestService` — what the dispatcher promises: a slot per worker that is
  free, busy or finished, and a verdict that changes only when a test is judged.
* `Dispatch` — the same dispatcher in four steps (`Feed`, `Report`, `Drain`,
  `EndBarrier`), for modules about what the tests mean. That the steps may be
  merged is checked and proved: `ParallelQemu` implements `Dispatch`
  (`ImplementsDispatch`, section 5). What `Dispatch` keeps is proved once
  (`DispatchProofs`) and used in the proofs of both modules built on it.
* `Results` (on `Dispatch`) — judging a test: `has_new_bits`,
  `simplify_trace`, `save_if_interesting`, the dry run, `calculate_score`'s
  divisors. A map byte has a set of virgin classes; two classes, 1 and 128,
  suffice because `simplify_trace` maps to these two.
* `QueueCulling` — `update_bitmap_score`, `cull_queue` and the counters of
  favourites, for both builds (`CONFIG_S2E`, which the Makefile always sets). The two
  versions of `calibrate_case` differ: without QEMUs a calibration may fail, so that the
  entry is queued without a score and tried again by `fuzz_one` (`CalibrateAgain`) up to
  `CAL_CHANCES` times; with QEMUs every entry is scored, by the global `trace_bits`,
  which stays empty because the tests write to `qemu->trace_bits`.
* `FuzzOne` (on `Dispatch`) — `fuzz_one` and the main loop: stages, effector
  map, symbex testcases, havoc, splicing, attribution of finds. FLIP1 stands for
  the three bit flips, ARITH8, INTEREST8 and EXTRAS_UO for their families; a
  dictionary is taken to be loaded. What a test shows and which entry is skipped
  are free choices.
* `CtrlPipes` — descriptors of the control pipes from `InitQemuQueue` to
  `run_target` and `wait_afl_testcase`. `pipe()` is external.
* `TestcaseFilter` — the filter inside a QEMU: the significant states, what a
  branch adds to the constraints of a state (`concolicFork`) and what it reports to
  the filter (`fork`, which differ in form), one round of the loop of `isRedundant`
  with its two caches of verified hashes, `addSigState`. A testcase is the set of
  branch conditions that are true of it and the sequence it meets; an expression
  stands for its hash.
* `FuzzyS2E` (on `TestcaseFilter`) — one QEMU from inside: seed, work and
  significant states, the searcher (`SelectState`, `Erase`), the loop of the guest
  agent (`WaitAflTestcase`, `ForkWorkState`, `WaitWorkState`, `IsNeedSymbex`), the
  filter's answer (`VerifyState`, `ReportRedundant`, `NotRedundant`,
  `UpdateHotStates`), branches, and the ends of a test (`ProcessUnload`, `Fault`,
  `WorkStateTimeout`), each of them the whole of `tell_afl` and of what its callers do
  to the state. At a branch where forking is on the constraint is only added if both
  sides are feasible; a state that has met such a branch is in `drilled`. A failing assertion is recorded in `failed` and ends QEMU.
  afl-fuzz is one action, `SendOrder`; `ParallelQemu` has the details of that side.
* `TestWorker` — what a QEMU promises to afl-fuzz, in four actions: it takes a testcase,
  it runs it or skips it and answers once, and it may forget what it has run. Only a
  testcase like one that was run to its end and not forgotten is skipped. `FuzzyS2E`
  implements it (`ImplementsWorker`); the testcase at hand is in the file until the work
  state has its copy (`Task`), and what is known is what the significant states are like
  (`Known`).
* `Symbex` — the directory of generated testcases: `onStateFork`,
  `checkRedundantFast` with its loop buckets, `generateCaseFile` (created, flushed,
  closed: three moments) on one side, `cleanupSymbexDir` and
  `read_symbex_testcases` on the other. Files are named by the pid of QEMU and a number;
  both come round again, so an earlier session may have left any of the names, some of
  them cut short.
* `DetStages` — which testcases the deterministic stages of `fuzz_one` run and which
  they leave out because `could_be_bitflip`, `could_be_arith` or `could_be_interest` say
  that an earlier stage has run them. A stage is a step; the functions are used as they
  are in the code and compared with what the stages really ran.
* `ParallelQemuProofs`, `CtrlPipesProofs`, `FuzzyS2EProofs`, `SymbexProofs`,
  `DispatchProofs`, `FuzzOneProofs`, `ResultsProofs`, `CullingProofs` — the theorems
  (section 5). Each extends the module it is about; `FuzzyS2EProofs` also covers
  `TestcaseFilter` and the refinement of `TestWorker`, and `ParallelQemuProofs` those of
  `TestService` and `Dispatch`.
* `MC_*` — the instances TLC checks.

## 3. Runs

Passing runs:

| Run | Shows | Bounds |
|---|---|---|
| `dispatch` | no trace or testcase is touched while its QEMU works (`Exclusive`); one report per QEMU (`OneReport`); the FIFO may be skipped after a barrier (`AfterWaitClean`); no trace is classified twice; a test is judged by its own report and stage (`JudgedAsReported`); the dispatcher implements `TestService` (`ImplementsService`) and, once the QEMUs have booted, `Dispatch` (`ImplementsDispatch`) | 2 QEMUs; otherwise the model is finite as it is |
| `progress` | every test is judged, barriers end, a stop signal ends afl-fuzz | 2 QEMUs, no filter |
| `results` | the virgin map is exact, the corpus covers what was shown, the saved crashes cover every crash and none is like another | 1 QEMU, 1 seed, 2 bytes, 4 tests, 2 crashes kept |
| `culling` | in the build without QEMUs, whatever calibrations fail: `tc_ref`, `trace_mini`, `top_rated`, favourites and their counters agree, the fastest calibrated entry holds a byte, the favourites cover the bytes of all calibrated entries | 3 bytes, 3 entries, 2 speeds, 2 chances to calibrate |
| `fuzz_one` | late results find the effector map of their entry (`EffMapLive`, `NoEffectLost`), finds are credited to the stage of the test, also those from symbex files (`FindsAttributed`), `fuzz_one` returns (`FuzzOneEnds`) | 2 QEMUs, 3 bytes, 2 hits (the seed included), 1 splice, 1 symbex file |
| `ctrl_pipes` | every QEMU keeps its own pipe and reads its own orders | 3 QEMUs, 6 pids, descriptor limit reached |
| `fuzzy_s2e` | QEMU answers the testcase it was given, once, and skips only what is like a test it has run (`ImplementsWorker`), no state is used after its end and no assertion fails (`AssertionsHold`), the filter refers to states that have run their whole path (`SigComplete`), no state is left behind (`NoLeak`), `isRedundant` answers what evaluating the path would (`FilterExact`), every order is answered (`OrderAnswered`) | without the filter, with it, and with drill runs; 5 testcases on a target with 3 branches, one of them in a library; 2 significant states; every test that is not redundant is sampled (`SampleFreq = 0`; with 1 the run passes too, but takes three times as long); a drill run after one test without finds |
| `symbex` | only files that this session has solved for are run, whatever an earlier one left (`FreshRun`), none is lost or run twice (`NoneLost`, `RunOnce`), no branch is solved twice (`SolvedOnce`), every file is run (`AllRun`) | 2 QEMUs, each with 2 constraints at one address, 2 files and 2 hits of a loop (also checked with 1 QEMU, 2 addresses, 3 constraints and 3 files); files of one write, as below the buffer of the stream |
| `det_stages` | what is left out has been run (`SkippedElsewhere`), one-byte stages run nothing twice (`NoDupes`) | all 399 testcases of one to three bytes over 0, 1, 31, 127, 128, 224 and 255, at the boundaries of carries, signs and byte order; `ARITH_MAX` and all 9 and 19 interesting values of `config.h`. `SkippedElsewhere` leaves out patterns of bits across two bytes (`AcrossBytes`), about which the code is wrong, see `SkippedWasRun` below |

Why the bounds are enough to be interesting: two QEMUs give every order of two
reports, and the barrier judges one of them while `curQemu` is the other; four
tests let a byte be seen in both classes, by a normal test and by a crash, and
reach the crash limit; three entries let a byte change hands twice, and two chances
let a calibration fail and succeed or fail for good; three bytes have a first, a last
and an inner one in the effector map (a map that is filled because it is dense needs at
least four, a case that `EffectsKept` covers by proof); the pids contain neighbours, gaps and one beyond the
limit. `CHECK_DEADLOCK FALSE` is set where the bound on tests, the stop signal or
the end of start-up really ends the system. The bytes of `Results` are
interchangeable (symmetry; invariants only).

`results` uses one QEMU on purpose: with two, the code violates the same properties. The following runs state what the repository says and are
violated by what the code does; `findings` in `PROJECT.json` quotes the lines.

| Run | Disagreement |
|---|---|
| `foreign_fault` | a fault of another guest process ends the work state without a report, and the barrier never ends |
| `missed_results` | at a barrier the trace of `curQemu` is compared, not that of the QEMU judged |
| `culling_s2e` | in the build with QEMUs `update_bitmap_score` reads a global `trace_bits` that no test writes, so nothing is ever favored (`NeverFavored` proves it) and the favourites cover nothing; `afl-fuzz.c:1292` says they are to "have a minimal set of paths that trigger all the bits seen in the bitmap so far" |

Other disagreements that the models show, with the change to a configuration
that makes TLC print the counterexample ("only P": P is the only property
left in the configuration):

| Change | Disagreement |
|---|---|
| `ParallelQemu.cfg` with `BootSettled = FALSE`, only `JudgedAsReported` | a start-up report that comes after the first barrier is taken for a test result; only `sleep(10)` prevents it |
| `CtrlPipes.cfg` with `Gap = FALSE` | `OwnPipe`: a QEMU with the next pid overwrites the write end of its predecessor's pipe |
| `Results.cfg` with `NSeeds = 2`, `MaxTests = 3`, only `QueueSetForCalibration` | `write_to_testcase` sets `cur_queue` for a new calibration and then judges the previous one, which clears it (`afl-fuzz.c:2824`); the assertion at `afl-fuzz.c:3641` says "current queue should be set for calibration" |
| the same, only `OwnMeasurements` or only `OwnNewCov` | the measurements of a seed, and that it shows something new, are stored with the next seed |
| `Results.cfg` with `N = 2`, only `CrashCovers` | at a barrier a crash is simplified and compared by the trace of `curQemu`, so a new crash of another QEMU is dropped |
| `Results.cfg` with `NSeeds = 3`, `MaxTests = 3`, only `NamesFresh` | two seeds with new bits are given the same file name in the dry run, where the queue does not grow, and the `O_EXCL` open of the second ends afl-fuzz; `afl-fuzz.c:3622` says "avoid repeating adding to queue at startup", but the file is created all the same |
| `Results.cfg` with `ScoreDefined` | no seed shows new bits: `calculate_score` divides by 0 |
| `Results.cfg` with `OrderTruthful` | after a crash the QEMU is told `redu` for a test that was not redundant |
| `FuzzOne.cfg`, only `PROPERTY Levels` | `read_symbex_testcases` sets `cur_depth = 0` in the middle of `fuzz_one`, so later finds of the same call get level 1; `docs/status_screen.txt:283` counts what is derived from an entry one level up |
| the same, only `PROPERTY NamedByOp` | a file is named after the position of the test dispatched after it |
| `FuzzyS2E.cfg` with `FilterFaults = TRUE`, `Configs <- MC_FilterOnly`, only `AssertionsHold` | with the filter on, `onSegmentFault` keeps the state of a crash ("if not use filter, kill this state", `FuzzyS2E.cpp:236`) and LinuxMonitor2, which by default terminates on a fault, kills it all the same: the filter is left with a dangling pointer, which `isRedundant` follows. Without `terminateOnFault` the state reports a second time when its task exits, and `RemoveUnscheduleState` asserts |
| `FuzzyS2E.cfg` with `Chunk = 1`, `Crash = {}` | `FilterExact`: the size of a state is that of the last chunk that `symbfile` made symbolic, so larger testcases are compared with states of another size |
| `Symbex.cfg` with `Flushes = 2`, only `RunWhole` or only `NoneLost` | a file of more than one write may be run and unlinked when half of it is there; the other half is never run |
| `DetStages.cfg`, only `SkippedWasRun` | `could_be_bitflip` takes bits 7 and 8 of a little endian word for neighbours; the walking bits never flip these two together. `afl-fuzz.c:5286` says of it "could be a product of deterministic bit flips with the lengths and stepovers attempted by afl-fuzz"; e.g. the sum of the bytes 224, 0 and 32 (0, 1) is left out and never run |

## 4. Fairness

Only `progress`, `foreign_fault`, `fuzz_one`, `fuzzy_s2e` and `symbex` use
fairness. In `ParallelQemu`: weak fairness of afl-fuzz: it is one thread that never blocks (the FIFO
is non-blocking, barriers spin). Weak fairness of each QEMU: it is a process of
its own, and a test ends by exit, fault or timeout. The timeout is only looked at
in blocks of the main module (`FuzzyS2E.cpp:206-211`), so for a target that blocks
in the kernel or in a library this is an assumption about the target. Strong
fairness of `StopFuzzing` in `ParallelQemu`: `main` looks at `stop_soon` after
every entry and an entry has finitely many stages; that `fuzz_one` returns is
what `FuzzOneEnds` checks. A QEMU that dies is not covered: the code does not
handle it.

In `FuzzOne` it is enough that afl-fuzz or some QEMU takes a step whenever one can: the
stop signal and entries to skip are all that is not promised. In `FuzzyS2E` likewise:
QEMU or its state switch timer. A seed that has given way is only run again when the
searcher selects it, which the timer or the end of a test brings about. In `Symbex`: weak fairness of afl-fuzz,
which comes back to the directory as long as it fuzzes, and of a QEMU that has a
file open; nothing makes a QEMU start a drill run.

## 5. Proofs

Each theorem holds for every value of the constants that the assumptions of its
module, and its own hypothesis where it has one, allow. All invariants named here
have also been checked with TLC on instances like those of section 3.

### Dispatcher (`ParallelQemuProofs`)

For every number of QEMUs:

* `TypeCorrect`: `TypeOK` is invariant, without further assumptions.
* `ProtocolCorrect`: `ProtocolInv` is inductive relative to `TypeOK`, assuming
  `BootSettled`. None of the properties is inductive alone: `Exclusive` needs to
  know that a QEMU whose report was read and whose ready byte is set has no order
  left, which needs that orders are sent only to QEMUs with `handled` cleared and
  no report in the FIFO, and so on around the cycle. `ProtocolInv` says, per QEMU,
  which combinations of phase, ready byte, `handled`, report, order and afl-fuzz's
  position can occur (`QemuInv`), what afl-fuzz knows at each position
  (`AflInv`), that reports are distinct and carry the fault of the test they
  are about (`FifoInv`), and what holds before the dispatcher starts (`SetupInv`).
  The proof has one lemma per action.
* `ExclusiveAccess`, `NoReportMistaken`, `NeverFreeBefore`, `BarrierCollectsAll`,
  `TracesClassifiedOnce`: consequences of the invariant.
* `JudgedCorrectly`: the action property `JudgedAsReported`, from the invariant.
* `Refinement`: every step maps to a step of `TestService` or a stutter.
* `DispatchRefined`: start-up ends in an initial state of `Dispatch`, and every
  step after it is a step of `Dispatch` or a stutter (`ImplementsDispatch`),
  assuming `BootSettled`. The mapping makes a QEMU busy when afl-fuzz chooses it
  (`FeedAfterWait` or `ReadQueue` is `Feed`); its test is over when the report is
  written (`TellAfl` or `ReportRedundant` is `Report`), although its ready byte
  may still be 0. Clearing the trace, the order, the execution and the ready byte
  are stutters. What has to be shown is that a report judged by
  `process_unhandled_qemus` meets the guard of `Drain`, that no QEMU is at work,
  and that the barrier ends with every report judged; both need `ProtocolInv`.
  For the initial state `SetupInv` says that a QEMU has its start-up report in
  the FIFO exactly when it waits; the FIFO then is a list of all QEMUs without
  repetition, and that it has N entries is the one fact about cardinalities used
  (`FullLists`, proved from the library at the end of the module).

### Control pipes (`CtrlPipesProofs`)

`UniqueControlPipe`, `OrdersReachTheirQemu`: for any pids and limits with
`Low + 2N <= FirstCtrl`, assuming `Gap`. The strengthening is `PipesInv`: below
`FirstCtrl` exactly the first `Low + 2 * count` descriptors are open, so `pipe()`
never returns one that a later `dup2` overwrites.

### FuzzyS2E and the filter (`FuzzyS2EProofs`)

For every target (its conditions, and the path and truth values of every
testcase), every set of testcases, every limit, frequency and configuration,
assuming that the target does not fault while the filter is on:

* `TypeCorrect`, `ReportsOnce`, `NoAssertionFails`, `NoStateLeaks` follow from the invariant `Inv`. Its core is
  `Scheduling`: either only the seed is scheduled and the states are the seed and the
  significant ones (`Idle`), or there is one work state besides, and no order and no
  ready byte (`Busy`). That the drill counter is never decremented at 0 needs a fact
  about afl-fuzz and one about the past: `Counting` says that the counter can be 0 only
  from an order until the next symbolic test resets it, or while afl-fuzz answers
  redundant tests with `redu`.
* `SignificantStatesComplete`, `FilterIsExact` need a second invariant, `DataInv`,
  relative to the first: the constraints of a state are exactly those of the branches
  it has met, what the filter holds is the same in the form that `fork` reports, a
  state that was not made symbolic found no room and so is not kept (`RunData`), and
  every hash in the caches of `isRedundant` has been verified of the testcase at hand
  (`Verified`). `FilterIsExact` also assumes that no testcase is larger than the 4096
  bytes `symbfile` makes symbolic at a time. States that have met a branch
  in a drill run (`drilled`) are excepted from `FilterExact`: `fork` then reports the
  condition itself, whichever way the state went, and a constraint that the solver finds
  to be implied is not added, so that `SigComplete` says of them only that they have no
  constraint too many.
* `WorkerRefined`: every step of `FuzzyS2E` is a step of `TestWorker` or not seen there,
  under the assumptions of `FilterIsExact`. It needs a third invariant, `TaskInv`: the
  testcase is in the file from the order until `fork_work_state` has given it to the work
  state, and only drill runs leave states that might have forked. `ReportRedundant` is `Skip`
  because `isRedundant` is exact, each of the ends of a test is `Run`, and
  `UpdateHotStates` is `Forget`. A state kept from a drill run may answer anything, which
  `TestWorker` allows by `mayFork`.

### Generated testcases (`SymbexProofs`)

For any number of QEMUs, drill runs, constraints and files. The invariant `Inv` says
that a session uses the name of a file once: what has not been generated yet is not in the
directory, not open and was never run, and the file that a QEMU has open is not
complete (`Names`); that the file at hand has been run (`AtHand`); and that
`m_drill_ConHash` holds every constraint a file was generated for (`Solved`).

* `OnlyFreshFilesRun`, `FilesRunOnce`, `BranchesSolvedOnce`: without further assumptions,
  whatever an earlier session left, and in however many writes a file is filled.
* `NoFileLost`: for files that the stream writes at once (`Flushes = 1`). Then a file is empty or complete whenever afl-fuzz looks at it, an
  empty one is left where it is, and reading the directory needs no lock.

### Late results (`DispatchProofs`, `FuzzOneProofs`)

`DispInv` is the part of `ProtocolInv` that the code above the dispatcher relies on: a
test that is not judged runs or has its report in the FIFO, a QEMU has at most one
report, and the QEMUs still to be fed without the FIFO are idle. It is shown for each
of the steps of `Dispatch`, whatever is done with the result.

`FuzzOneProofs` adds, for any number of QEMUs, length of the input, scale of the
effector map, entries, symbex files and splices:

* `EffectorMapLive`: a late result of FLIP8 finds the map of its entry allocated, and
  its own offset in `mod_off`.
* `EffectsKept`: no byte whose flip showed something is missing from the map when the
  later stages use it.
* `FindsCredited`: `stage_finds` credits a stage with the finds of its own tests.

All three need `OpenTests`: a test that is not judged was sent by the loop of the stage
at hand or from its symbex files, and between stages there is none. That is what the
barrier at the end of each stage is for; the proof uses it where `stage` and
`orig_hit_cnt` change. `CellsInMap` proves that the offset of each byte is within the
length that `EFF_ALEN` allocates.

### What afl-fuzz learns (`ResultsProofs`)

For any map, number of tests and limit on crashes:

* `VirginBitsExact`, `CorpusComplete`, `CrashesComplete`, with one QEMU and any number of
  seeds: `virgin_bits` has exactly what no judged test has shown, the queue has an input
  for all that was shown, and the saved crashes show what any crash has shown until the
  limit is reached, each of them something new. The invariant `Exact` adds that the
  test at hand is judged by its own trace (`OwnTrace`), and that `virgin_crash` is exact
  for the simplified traces as long as the limit is not reached.
* `MeasurementsOwn`, with no more seeds than QEMUs, for any number of both: what an entry
  says of itself was measured with its own input, and every calibration is judged with
  its entry at hand. The invariant `SeedsFit` says why: each seed goes to a QEMU whose
  start-up report is still in the FIFO (`StartReports`), so that no seed is judged before
  the barrier, and `cur_queue` of its QEMU is the seed itself until then (`AtHand`).

The hypotheses are the border of what is true: with two QEMUs results are missed
(`missed_results`), and with one seed more than QEMUs measurements are stored with the wrong
seed (section 3).

### Favourites (`CullingProofs`)

For any number of bytes, entries and speeds:

* `ReferencesCounted`, `FavoredCounted`, for both builds: `tc_ref` is the number of bytes
  an entry holds in `top_rated`, `trace_mini` is there exactly as long as one is held, and
  the counters of favourites are those of the queue. The invariant `Refs` also says that a
  byte is held by an entry that hits it, without which a later loss could not be counted.
* `BestEntriesHold`, `FavoredEntriesCover`, for the build without QEMUs: each byte is held by
  a calibrated entry that is as fast as any that hits it, and the favored entries hit all
  that the calibrated ones do. An entry whose calibration has failed is not counted: it has
  no score until `fuzz_one` has calibrated it again. `Won` says of the second that it holds between any two steps while
  `score_changed` is clear: `cull_queue` returns early because of that flag.
* `NeverFavored`, for the build with QEMUs: nothing is ever favored. No byte of `top_rated`
  is ever taken, because the trace that is looked at is empty.

`update_bitmap_score` and `cull_queue` are loops over the bytes, here recursive functions of
the number of bytes done. What a loop keeps is proved by induction in a form without
operator parameters: the set of all n after which it holds contains 0 and the successors of its
members, hence every natural number, as `<` is well founded (`Induct`).

### Assumptions

`BootSettled` (the `sleep(10)` per QEMU outlasts its start-up); `Gap` (no QEMU
has the pid following an earlier QEMU's; the code does not ensure it, but the
threads and processes that a QEMU starts during the ten seconds before the next
fork normally use that pid up); `FilterFaults = FALSE` and `Size[t] <= Chunk` as
above; a drill frequency and a limit of states above 0; `Flushes = 1` (testcases below
the buffer of the stream); `N = 1` or `NSeeds <= N` for `Results`; `CONFIG_S2E = FALSE` for the two
theorems about the choice of favourites. Section 3 shows what happens without each of
them. `ScaleAssumption` of `FuzzOne` only says that a power of two is a positive integer,
which the provers have no facts about. Expressions are taken to have distinct hashes.

### Only model-checked

* All liveness (`EveryTestJudged` and the other properties of `progress`, `FuzzOneEnds`,
  `OrderAnswered`, `AllRun`), which like ENABLED is out of the prover's reach.
* `DetStages`: `SkippedElsewhere` and `NoDupes` are arithmetic on fixed ranges of values,
  which TLC enumerates; the model uses bitwise functions that the prover does not support.
* `TypeOK` of `ParallelQemu` and of `FuzzyS2E`, `OneReport` of `FuzzyS2E`, `ProtocolInv`
  and `NotFreeBefore` are proved and so not repeated in the configurations; the types of the other proved modules are part of
  their inductive invariants.

## 6. Not modelled

See `components` in `PROJECT.json` for every part and reason.

* S2E, KLEE and QEMU. Nearly all of the repository's million lines of C and C++
  are these three, which FFuzz uses as they are. Modelled is only what FuzzyS2E
  relies on: selection, forking and termination of states, and the constraints that a
  branch adds. The models cover the code that FFuzz adds to them and to AFL, so the
  share of all lines that they cover is small by nature.
* `InputEndDetector`, `FileLock` and `CollectSignificantOffs`: only used with
  `collectOffs`, off by default, to write a file that nothing in the repository reads.
* Shared-memory clean-up: `remove_shm` removes the trace segment only, and the
  next start fails on the others until `cleanEnv.sh` is run. It fails at once, with a
  message; there is no behaviour beyond that.
* QEMUs that die: afl-fuzz has no handling of them.
* Random mutations (havoc), 32-bit stages, dictionaries: `FuzzOne` has their control
  and accounting, not their values.
* Contents of files, the user interface, statistics, the stand-alone AFL tools.
* `isRedundant` on an expression that does not evaluate to a constant, where the code
  answers by `rand()`.

Hazards without a property carry a note.

## 7. Plan

Done: dispatcher, pipes, results, favourites, stages, FuzzyS2E, TestcaseFilter,
the directory of generated testcases, deterministic mutations; proofs of all of them
but the last, of the two refinements of the dispatcher and of that of QEMU.

Next, in this order:

1. Map functions — `classify_counts` and `simplify_trace` with 8-bit counters
   against reference definitions.
2. `SharedMemory` — start, stop and restart of afl-fuzz with its SysV segments.
