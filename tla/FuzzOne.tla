------------------------------ MODULE FuzzOne -------------------------------
(***************************************************************************)
(* fuzz_one and the main loop of afl-fuzz over the dispatcher: the stages, *)
(* each closed by WAIT_ALLQEMUS_FREE, the effector map that the results of *)
(* FLIP8 fill in, the testcases of the symbolic side read after each       *)
(* stage, havoc, splicing and the accounting of finds.  What makes a       *)
(* result interesting is in Results, which entry is skipped in             *)
(* QueueCulling: here both are free choices.                               *)
(*                                                                         *)
(* Stages that run alike have one representative: FLIP1 stands for FLIP1,  *)
(* FLIP2 and FLIP4, ARITH8 and INTEREST8 for their three widths, EXTRAS_UO *)
(* for the three dictionary stages.  A stage tries one mutation per        *)
(* position.  All entries have LEN bytes.                                  *)
(***************************************************************************)
EXTENDS Dispatch

CONSTANTS
    LEN,                  \* queue_cur->len
    EFF_MAP_SCALE2, EFF_MAX_PERC,
    HavocCycles,          \* stage_max of havoc and of a splice
    HAVOC_MAX_MULT,       \* in units of the initial perf_score
    SPLICE_CYCLES,
    Symbex,               \* -s was given: symbex_dir is set
    MaxSymbex,            \* bound on the files in symbex_dir
    MaxHits               \* bound on the finds of a run

ASSUME FuzzOneAssumption ==
    /\ LEN \in Nat \ {0} /\ EFF_MAP_SCALE2 \in Nat /\ EFF_MAX_PERC \in 0 .. 100
    /\ HavocCycles \in Nat \ {0} /\ HAVOC_MAX_MULT \in Nat /\ SPLICE_CYCLES \in Nat
    /\ Symbex \in BOOLEAN /\ MaxSymbex \in Nat /\ MaxHits \in Nat

(* A fact of arithmetic, for the provers.                                  *)
ASSUME ScaleAssumption == 2 ^ EFF_MAP_SCALE2 \in Nat \ {0}

Stages == <<"FLIP1", "FLIP8", "FLIP16", "FLIP32", "ARITH8", "INTEREST8",
            "EXTRAS_UO", "HAVOC", "SPLICE">>
Stage  == {Stages[i] : i \in 1 .. Len(Stages)}
Random == {"HAVOC", "SPLICE"}

EFF_APOS(p) == p \div (2 ^ EFF_MAP_SCALE2)
EFF_ALEN    == EFF_APOS(LEN) + (IF LEN % (2 ^ EFF_MAP_SCALE2) = 0 THEN 0 ELSE 1)
NoMap       == {EFF_ALEN}         \* g_eff_map == NULL
NoOff       == LEN                \* mod_off == -1, stage_cur_byte == -1

Find    == {"new", "ucrash"}      \* what raises queued_paths + unique_crashes
Outcome == Find \cup {"old", "crash"}   \* "old" is also what is redundant
Idle    == [stage |-> "NONE", home |-> "NONE", pos |-> NoOff]

VARIABLES
    pc, stage,
    todo,              \* the positions the stage has still to try
    stage_cur_byte,
    stage_cur, stage_max, perf_score, havoc_queued,     \* havoc and splice
    splice_cycle, use_splicing, skip_deterministic, prev_queued,
    orig_hit_cnt,
    cur_depth, queue_cur, stop_soon,
    queue, unique_crashes, g_eff_map, g_eff_cnt,
    \* of each QEMU: cover_new == 1, mod_off, and the test it was given
    \* last, whose stage is cur_stage
    cover_new, mod_off, test,
    \* the QEMUs: what the last test did, the files written to symbex_dir
    result, symbex, generated,
    listed,            \* the files that were there at opendir, not read yet
    \* history
    found,             \* the finds of the tests the stage has dispatched
    effects            \* the bytes of the entry whose flip showed new bits

havocVars == <<stage_cur, stage_max, perf_score, havoc_queued>>
mainVars  == <<use_splicing, skip_deterministic, prev_queued, queue_cur, stop_soon>>
stageVars == <<stage, todo, havocVars, splice_cycle, orig_hit_cnt>>
judgeVars == <<queue, unique_crashes, g_eff_map, g_eff_cnt, cover_new, found, effects>>
qemuVars  == <<mod_off, test, result, symbex, generated, listed>>
vars == <<dispVars, pc, stage_cur_byte, cur_depth, mainVars, stageVars, judgeVars,
          qemuVars>>

(* queued_paths + unique_crashes.                                          *)
HitCnt == Len(queue) + unique_crashes

(* The main loop is entered: the dry run and its barrier are over and left *)
(* one entry in the queue.  -d sets skip_deterministic and use_splicing.   *)
Init ==
    /\ curQemu = 0 /\ isAfterWait = TRUE /\ currentQemuAfterWait = 0
    /\ handled = [q \in Qemu |-> TRUE] /\ fifo = <<>> /\ running = {}
    /\ pc = "main" /\ stage = "SPLICE" /\ todo = {} /\ stage_cur_byte = 0
    /\ stage_cur = 0 /\ stage_max = 0 /\ perf_score = 1 /\ havoc_queued = 0
    /\ skip_deterministic \in BOOLEAN /\ use_splicing = skip_deterministic
    /\ splice_cycle = 0 /\ prev_queued = 1
    /\ orig_hit_cnt = 0
    /\ cur_depth = 0 /\ queue_cur = 1 /\ stop_soon = FALSE
    /\ queue = <<[depth |-> 1, was_fuzzed |-> FALSE, passed_det |-> FALSE]>>
    /\ unique_crashes = 0 /\ g_eff_map = NoMap /\ g_eff_cnt = 1
    /\ cover_new \in [Qemu -> BOOLEAN] /\ mod_off = [q \in Qemu |-> NoOff]
    /\ test = [q \in Qemu |-> Idle]
    /\ result = [q \in Qemu |-> "old"] /\ symbex = 0 /\ generated = 0 /\ listed = 0
    /\ found = 0 /\ effects = {}

-----------------------------------------------------------------------------
(* handle_onetestdone for the last test of q, after write_to_testcase or   *)
(* an earlier call left cur_stage = s.                                     *)

NewEntry == [depth |-> cur_depth + 1, was_fuzzed |-> FALSE, passed_det |-> FALSE]

(* A crash leaves cover_new as it was.                                     *)
CoverNew(q) == result[q] = "new" \/ (result[q] # "old" /\ cover_new[q])

(* do_extra_handles flags the byte that the test flipped.                  *)
Flags(q, s) ==
    /\ s = "FLIP8" /\ CoverNew(q) /\ mod_off[q] # NoOff
    /\ EFF_APOS(mod_off[q]) \notin g_eff_map

HandleOneTestDone(q, s) ==
    /\ queue' = IF result[q] = "new" THEN Append(queue, NewEntry) ELSE queue
    /\ unique_crashes' = unique_crashes + (IF result[q] = "ucrash" THEN 1 ELSE 0)
    /\ cover_new' = [cover_new EXCEPT ![q] = CoverNew(q)]
    /\ IF Flags(q, s)
       THEN /\ g_eff_map' = g_eff_map \cup {EFF_APOS(mod_off[q])}
            /\ g_eff_cnt' = g_eff_cnt + 1
       ELSE UNCHANGED <<g_eff_map, g_eff_cnt>>
    /\ found' = found + (IF result[q] \in Find /\ test[q].home = stage THEN 1 ELSE 0)
    /\ effects' = IF result[q] = "new" /\ test[q].stage = "FLIP8"
                  THEN effects \cup {test[q].pos} ELSE effects

(* mod_off once the last test of q is judged, if it has to be.             *)
ModOff(q, s) == IF ~handled[q] /\ Flags(q, s) THEN NoOff ELSE mod_off[q]

-----------------------------------------------------------------------------
(* write_to_testcase and run_target: a test of stage s, for byte p, on q.  *)

(* Mutant: the offset of the new test is stored before the old one is      *)
(* judged, and cleared with it.                                            *)
GiveOffsetFirst(q, s, p) ==
    /\ Feed(q)
    /\ IF handled[q] THEN UNCHANGED judgeVars ELSE HandleOneTestDone(q, s)
    /\ mod_off' = [mod_off EXCEPT ![q] = IF ~handled[q] /\ Flags(q, s) THEN NoOff
                                         ELSE IF s = "FLIP8" THEN p ELSE @]
    /\ result' = [result EXCEPT ![q] = "old"]
    /\ test' = [test EXCEPT ![q] = [stage |-> s, home |-> stage, pos |-> p]]
    /\ UNCHANGED <<mainVars, generated>>

Give(q, s, p) ==
    /\ Feed(q)
    /\ IF handled[q] THEN UNCHANGED judgeVars ELSE HandleOneTestDone(q, s)
    /\ mod_off' = [mod_off EXCEPT ![q] = IF s = "FLIP8" THEN p ELSE ModOff(q, s)]
    /\ result' = [result EXCEPT ![q] = "old"]
    /\ test' = [test EXCEPT ![q] = [stage |-> s, home |-> stage, pos |-> p]]
    /\ UNCHANGED <<mainVars, generated>>

(* common_fuzz_stuff: after a stop signal the entry is abandoned.          *)
CommonFuzzStuff(q, p) ==
    /\ pc = "loop"
    /\ stage_cur_byte' = p
    /\ Give(q, stage, p)
    /\ pc' = IF stop_soon THEN "abandon" ELSE "loop"
    /\ UNCHANGED <<stage, splice_cycle, orig_hit_cnt, cur_depth, symbex, listed>>

(* The next position of a deterministic stage in S.                        *)
Walk(q, S) ==
    /\ stage \in S /\ todo # {}
    /\ \E p \in todo :
        /\ \A i \in todo : p <= i
        /\ CommonFuzzStuff(q, p)
        /\ todo' = todo \ {p}
    /\ UNCHANGED havocVars

WalkingBits(q)  == Walk(q, {"FLIP1"})
WalkingByte(q)  == Walk(q, {"FLIP8"})
WalkingWords(q) == Walk(q, {"FLIP16", "FLIP32"})
Arithmetics(q)  == Walk(q, {"ARITH8"})
KnownInts(q)    == Walk(q, {"INTEREST8"})
Dictionary(q)   == Walk(q, {"EXTRAS_UO"})

(* One round of havoc, also on spliced input.  A find buys more rounds,    *)
(* limits permitting.                                                      *)
Havoc(q) ==
    /\ stage \in Random /\ stage_cur < stage_max
    /\ CommonFuzzStuff(q, NoOff)
    /\ stage_cur' = stage_cur + 1
    /\ havoc_queued' = Len(queue')
    /\ LET k == IF Len(queue') # havoc_queued /\ perf_score <= HAVOC_MAX_MULT THEN 2 ELSE 1 IN
       stage_max' = k * stage_max /\ perf_score' = k * perf_score
    /\ UNCHANGED todo

(* Mutant: no barrier closes a stage.                                      *)
EndLoopNoWait ==
    /\ pc = "loop" /\ IF stage \in Random THEN stage_cur >= stage_max ELSE todo = {}
    /\ pc' = "collect"
    /\ UNCHANGED <<dispVars, stage_cur_byte, cur_depth, mainVars, stageVars, judgeVars, qemuVars>>

(* The loop of a stage is over.  The dictionary loop visits every byte.    *)
EndLoop ==
    /\ pc = "loop" /\ IF stage \in Random THEN stage_cur >= stage_max ELSE todo = {}
    /\ pc' = "wait"
    /\ stage_cur_byte' = IF stage = "EXTRAS_UO" THEN LEN - 1 ELSE stage_cur_byte
    /\ UNCHANGED <<dispVars, cur_depth, mainVars, stageVars, judgeVars, qemuVars>>

Waiting == pc \in {"wait", "waitsymbex", "waitmain"}

(* process_unhandled_qemus, for the oldest report.                         *)
ProcessUnhandled(q) ==
    /\ Waiting
    /\ Drain(q)
    /\ UNCHANGED <<pc, stage_cur_byte, cur_depth, mainVars, stageVars,
                   symbex, generated, listed>>
    /\ IF handled[q] THEN UNCHANGED judgeVars ELSE HandleOneTestDone(q, test[q].stage)
    /\ mod_off' = [mod_off EXCEPT ![q] = ModOff(q, test[q].stage)]
    /\ test' = [test EXCEPT ![q] = Idle]
    /\ result' = [result EXCEPT ![q] = "old"]

(* After FLIP8: a dense effector map is filled in.                         *)
Dense == g_eff_cnt # EFF_ALEN /\ (g_eff_cnt * 100) \div EFF_ALEN > EFF_MAX_PERC

BarrierDone ==
    /\ Waiting
    /\ EndBarrier
    /\ pc' = CASE pc = "wait" /\ Symbex -> "symbex"
               [] pc = "waitmain"       -> "next"
               [] OTHER                 -> "collect"
    /\ listed' = symbex
    /\ g_eff_map' = IF pc = "wait" /\ stage = "FLIP8" /\ Dense THEN 0 .. EFF_ALEN - 1
                    ELSE g_eff_map
    /\ UNCHANGED <<stage_cur_byte, cur_depth, mainVars, stageVars, queue, unique_crashes,
                   g_eff_cnt, cover_new, found, effects,
                   mod_off, test, result, symbex, generated>>

-----------------------------------------------------------------------------
(* read_symbex_testcases: every file is run once and deleted; readdir may  *)
(* or may not show a file that appears during the loop.  A stop signal     *)
(* ends the loop before the file is deleted.                               *)

ReadSymbex(q) ==
    /\ pc = "symbex" /\ symbex > 0
    /\ cur_depth' = 0
    /\ UNCHANGED <<stage_cur_byte, stageVars>>
    /\ Give(q, "READSYMBEX", NoOff)
    /\ listed' = IF listed = 0 THEN 0 ELSE listed - 1
    /\ IF stop_soon THEN pc' = "waitsymbex" /\ UNCHANGED symbex
       ELSE UNCHANGED pc /\ symbex' = symbex - 1

(* Mutant: the results of the symbex testcases are not waited for.         *)
EndSymbexNoWait ==
    /\ pc = "symbex" /\ listed = 0
    /\ cur_depth' = 0 /\ pc' = "collect"
    /\ UNCHANGED <<dispVars, stage_cur_byte, mainVars, stageVars, judgeVars, qemuVars>>

EndSymbex ==
    /\ pc = "symbex" /\ listed = 0
    /\ cur_depth' = 0 /\ pc' = "waitsymbex"
    /\ UNCHANGED <<dispVars, stage_cur_byte, mainVars, stageVars, judgeVars, qemuVars>>

-----------------------------------------------------------------------------
(* fuzz_one from one stage to the next.                                    *)

(* The bytes that the stage s tries, by the effector map and its width.    *)
Positions(s) ==
    LET live(w) == {i \in 0 .. LEN - w : \E k \in i .. i + w - 1 : EFF_APOS(k) \in g_eff_map}
    IN  CASE s \in {"FLIP1", "FLIP8"} -> 0 .. LEN - 1
          [] s = "FLIP16"             -> live(2)
          [] s = "FLIP32"             -> live(4)
          [] s \in Random             -> {}
          [] OTHER                    -> live(1)

NextStage(s) ==
    CASE s = "FLIP8" /\ LEN < 2  -> "ARITH8"
      [] s = "FLIP16" /\ LEN < 4 -> "ARITH8"
      [] OTHER -> Stages[1 + CHOOSE i \in 1 .. Len(Stages) : Stages[i] = s]

(* The code in front of the loop of stage s.                               *)
Enter(s) ==
    /\ pc' = "loop" /\ stage' = s /\ todo' = Positions(s)
    /\ orig_hit_cnt' = HitCnt /\ found' = 0
    /\ IF s \in Random
       THEN /\ stage_cur' = 0 /\ stage_max' = HavocCycles /\ perf_score' = 1
            /\ havoc_queued' = Len(queue) /\ stage_cur_byte' = NoOff
       ELSE UNCHANGED <<havocVars, stage_cur_byte>>
    /\ IF s = "FLIP8"
       THEN /\ g_eff_map' = {0, EFF_APOS(LEN - 1)}
            /\ g_eff_cnt' = g_eff_cnt + (IF EFF_APOS(LEN - 1) # 0 THEN 1 ELSE 0)
       ELSE UNCHANGED <<g_eff_map, g_eff_cnt>>
    /\ UNCHANGED <<dispVars, unique_crashes, cover_new, mainVars, qemuVars>>

(* The entry is taken up.                                                  *)
FuzzOne ==
    /\ pc = "main"
    /\ LET e == queue[queue_cur] IN
       /\ cur_depth' = e.depth
       /\ Enter(IF skip_deterministic \/ e.was_fuzzed \/ e.passed_det THEN "HAVOC" ELSE "FLIP1")
    /\ UNCHANGED <<splice_cycle, queue, effects>>

(* The entry is skipped, by chance.                                        *)
SkipEntry ==
    /\ pc = "main" /\ pc' = IF stop_soon THEN "stopped" ELSE "waitmain"
    /\ UNCHANGED <<dispVars, stage_cur_byte, cur_depth, mainVars, stageVars, judgeVars, qemuVars>>

(* What stage_finds is raised by when the stage ends.                      *)
StageFinds == HitCnt - orig_hit_cnt

(* The next stage begins, after the last deterministic one with            *)
(* mark_as_det_done.                                                       *)
Collect ==
    /\ pc = "collect"
    /\ UNCHANGED <<splice_cycle, effects, cur_depth>>
    /\ IF stage \in Random
       THEN /\ pc' = "splice"
            /\ UNCHANGED <<dispVars, stage, todo, stage_cur_byte, havocVars, orig_hit_cnt,
                           mainVars, queue, unique_crashes, g_eff_map, g_eff_cnt,
                           cover_new, found, qemuVars>>
       ELSE /\ Enter(NextStage(stage))
            /\ queue' = IF stage = "EXTRAS_UO" THEN [queue EXCEPT ![queue_cur].passed_det = TRUE]
                        ELSE queue

CanSplice == use_splicing /\ splice_cycle < SPLICE_CYCLES /\ Len(queue) > 1 /\ LEN > 1

(* Mutant: a splice is not counted.                                        *)
SpliceUncounted ==
    /\ pc = "splice" /\ CanSplice
    /\ Enter("SPLICE")
    /\ UNCHANGED <<splice_cycle, queue, effects, cur_depth>>

Splice ==
    /\ pc = "splice" /\ CanSplice
    /\ Enter("SPLICE")
    /\ splice_cycle' = splice_cycle + 1
    /\ UNCHANGED <<queue, effects, cur_depth>>

(* The entry chosen does not fit: goto retry_splicing.                     *)
RetrySplicing ==
    /\ pc = "splice" /\ CanSplice
    /\ splice_cycle' = splice_cycle + 1
    /\ UNCHANGED <<dispVars, pc, stage_cur_byte, cur_depth, mainVars, stage, todo, havocVars,
                   orig_hit_cnt, judgeVars, qemuVars>>

(* abandon_entry, the end of fuzz_one's locals, and the test of stop_soon  *)
(* in main.                                                                *)
AbandonEntry ==
    /\ \/ pc = "abandon"
       \/ pc = "splice" /\ ~CanSplice
    /\ queue' = IF stop_soon THEN queue ELSE [queue EXCEPT ![queue_cur].was_fuzzed = TRUE]
    /\ g_eff_map' = NoMap /\ g_eff_cnt' = 1
    /\ pc' = IF stop_soon THEN "stopped" ELSE "waitmain"
    /\ perf_score' = 1 /\ havoc_queued' = 0 /\ splice_cycle' = 0 /\ orig_hit_cnt' = 0
    /\ found' = 0 /\ effects' = {}
    /\ UNCHANGED <<dispVars, stage_cur_byte, cur_depth, mainVars, stage, todo, stage_cur,
                   stage_max, unique_crashes, cover_new, qemuVars>>

(* main: the next entry.  A cycle without finds turns splicing on.         *)
NextEntry ==
    /\ pc = "next" /\ pc' = "main"
    /\ IF queue_cur < Len(queue)
       THEN queue_cur' = queue_cur + 1 /\ UNCHANGED <<use_splicing, prev_queued>>
       ELSE /\ queue_cur' = 1
            /\ use_splicing' = (use_splicing \/ Len(queue) = prev_queued)
            /\ prev_queued' = Len(queue)
    /\ UNCHANGED <<dispVars, stage_cur_byte, cur_depth, skip_deterministic, stop_soon,
                   stageVars, judgeVars, qemuVars>>

HandleStopSig ==
    /\ ~stop_soon /\ stop_soon' = TRUE /\ pc # "stopped"
    /\ UNCHANGED <<dispVars, pc, stage_cur_byte, cur_depth, use_splicing, skip_deterministic,
                   prev_queued, queue_cur, stageVars, judgeVars, qemuVars>>

-----------------------------------------------------------------------------
(* A QEMU runs its test; a state that S2E forks on the way may leave a     *)
(* testcase in symbex_dir.  MaxHits bounds the finds, MaxSymbex the files. *)
(* Nothing is judged any more once afl-fuzz has stopped.                   *)
Pending == {q \in Qemu : ~handled[q] /\ result[q] \in Find}

Execute(q) ==
    /\ pc # "stopped" /\ Report(q)
    /\ \E o \in Outcome :
        /\ o \in Find => HitCnt + Cardinality(Pending) < MaxHits
        /\ result' = [result EXCEPT ![q] = o]
    /\ \E k \in 0 .. 1 :
        /\ k = 0 \/ (Symbex /\ generated < MaxSymbex)
        /\ symbex' = symbex + k /\ generated' = generated + k
    /\ UNCHANGED <<pc, stage_cur_byte, cur_depth, mainVars, stageVars, judgeVars,
                   mod_off, test, listed>>
-----------------------------------------------------------------------------
AflStep ==
    \/ \E q \in Qemu : \/ WalkingBits(q) \/ WalkingByte(q) \/ WalkingWords(q)
                       \/ Arithmetics(q) \/ KnownInts(q) \/ Dictionary(q) \/ Havoc(q)
                       \/ ProcessUnhandled(q) \/ ReadSymbex(q)
    \/ EndLoop \/ BarrierDone \/ EndSymbex
    \/ FuzzOne \/ SkipEntry \/ Collect \/ Splice \/ RetrySplicing
    \/ AbandonEntry \/ NextEntry

Next == AflStep \/ HandleStopSig \/ \E q \in Qemu : Execute(q)

Spec == Init /\ [][Next]_vars

(* afl-fuzz is one thread that always runs; a test ends by itself, or at   *)
(* the block where FuzzyS2E finds that its time is up.  All that is needed *)
(* of it is that they do not all stand still.                              *)
FairSpec == Spec /\ WF_vars(AflStep \/ \E q \in Qemu : Execute(q))

-----------------------------------------------------------------------------
(* The values of the variables.                                            *)
TypeOK ==
    /\ pc \in {"main", "loop", "wait", "symbex", "waitsymbex", "collect", "splice",
               "abandon", "waitmain", "next", "stopped"}
    /\ stage \in Stage /\ todo \subseteq 0 .. LEN - 1 /\ stage_cur_byte \in 0 .. NoOff
    /\ stage_cur \in 0 .. stage_max /\ perf_score \in 1 .. 2 * HAVOC_MAX_MULT
    /\ havoc_queued \in 0 .. Len(queue) /\ splice_cycle \in 0 .. SPLICE_CYCLES
    /\ stage_max \in 0 .. 2 * HAVOC_MAX_MULT * HavocCycles
    /\ {use_splicing, skip_deterministic, stop_soon} \subseteq BOOLEAN
    /\ prev_queued \in 1 .. Len(queue) /\ queue_cur \in 1 .. Len(queue)
    /\ orig_hit_cnt \in 0 .. HitCnt /\ HitCnt <= MaxHits
    /\ found \in 0 .. MaxHits
    /\ g_eff_map = NoMap \/ g_eff_map \subseteq 0 .. EFF_ALEN - 1
    /\ g_eff_cnt \in 1 .. EFF_ALEN /\ effects \subseteq 0 .. LEN - 1
    /\ cover_new \in [Qemu -> BOOLEAN] /\ mod_off \in [Qemu -> 0 .. NoOff]
    /\ \A q \in Qemu : /\ test[q].stage \in Stage \cup {"READSYMBEX", "NONE"}
                       /\ test[q].home \in Stage \cup {"NONE"} /\ test[q].pos \in 0 .. NoOff
    /\ result \in [Qemu -> Outcome] /\ listed \in 0 .. symbex
    /\ symbex \in 0 .. generated /\ generated \in 0 .. MaxSymbex

(* A result of FLIP8 still to be judged will find the effector map of its  *)
(* own entry allocated and the offset of its own byte in mod_off:          *)
(* do_extra_handles never follows a freed or null g_eff_map.               *)
EffMapLive ==
    \A q \in Qemu : ~handled[q] /\ test[q].stage = "FLIP8" /\ pc # "stopped" =>
        g_eff_map # NoMap /\ mod_off[q] = test[q].pos

(* The stages after FLIP8 try every byte whose flip showed new bits, on    *)
(* whichever QEMU and however late its result was judged: the barrier      *)
(* comes before the map is used.                                           *)
NoEffectLost ==
    (pc = "loop" /\ stage \notin Random \cup {"FLIP1", "FLIP8"}) =>
        \A p \in effects : EFF_APOS(p) \in g_eff_map

(* When a stage ends, stage_finds credits it with the finds of the tests   *)
(* it dispatched, those read from symbex_dir at its end included, and with *)
(* no others, though results arrive later and from several QEMUs.          *)
FindsAttributed == pc = "collect" => StageFinds = found

(* fuzz_one returns, however havoc is prolonged and splicing retried.      *)
FuzzOneEnds == (pc = "loop") ~> (pc \in {"waitmain", "stopped"})

Queued(q) == ~handled[q] /\ result[q] = "new" /\ Len(queue') > Len(queue)

(* describe_op: the name of a find, made of stage_short and stage_cur_byte *)
(* when it is judged, captures "the operation that led to its discovery".  *)
NamedByOp ==
    [][\A q \in Qemu : Queued(q) => test[q].stage = stage /\ test[q].pos = stage_cur_byte']_vars

(* docs/status_screen.txt: what fuzzing derives from an entry of level n   *)
(* has level n + 1; depth records the level.                               *)
Levels ==
    [][\A q \in Qemu : Queued(q) /\ test[q].stage # "READSYMBEX" =>
           queue'[Len(queue')].depth = queue[queue_cur].depth + 1]_vars
=============================================================================
