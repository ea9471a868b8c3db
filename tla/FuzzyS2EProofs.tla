--------------------------- MODULE FuzzyS2EProofs ---------------------------
(***************************************************************************)
(* Proofs about FuzzyS2E and TestcaseFilter, for every set of testcases,   *)
(* every target, every number of states and every configuration: the       *)
(* invariant and why the actions of afl-fuzz, the executor, the seed and   *)
(* the work state keep it; the scheduling, the reports and the assertions; *)
(* that the significant states are complete and that isRedundant is exact; *)
(* and that all of it together does what TestWorker promises.              *)
(***************************************************************************)
EXTENDS FuzzyS2E, TLAPS

-----------------------------------------------------------------------------
LEMMA SameItems ==
    ASSUME NEW S, NEW r \in Seq(S), NEW s \in Seq(S),
           Len(r) = Len(s), \A i \in 1 .. Len(s) : r[i] = s[i]
    PROVE  r = s
  OBVIOUS

(* What the limit on significant states needs of cardinalities: proved     *)
(* from the library at the end, and a hypothesis of the lemmas before.     *)
Sizes ==
    /\ IsFiniteSet({}) /\ Cardinality({}) = 0
    /\ \A S : IsFiniteSet(S) => Cardinality(S) \in Nat
    /\ \A S, x : IsFiniteSet(S) =>
          /\ IsFiniteSet(S \cup {x}) /\ IsFiniteSet(S \ {x})
          /\ x \in S => /\ Cardinality(S \cup {x}) = Cardinality(S)
                        /\ Cardinality(S \ {x}) = Cardinality(S) - 1
          /\ x \notin S => Cardinality(S \cup {x}) = Cardinality(S) + 1

(* The assumptions on constants that the proofs use, one by one.           *)
LEMMA Numbers ==
    /\ DrillFreq \in Nat /\ DrillFreq > 0
    /\ MaxStates \in Nat /\ MaxStates > 0
    /\ SampleFreq \in Nat
<1>1. DrillFreq \in Nat \ {0}
  BY PluginAssumption, Zenon
<1>2. MaxStates \in Nat \ {0} /\ SampleFreq \in Nat
  BY FilterAssumption, Zenon
<1> QED BY ONLY <1>1, <1>2

LEMMA NotSeed == 0 \notin WorkId
  BY FilterAssumption, Zenon

(* The schedule is the seed, or the seed and one work state.               *)
LEMMA Sequences1 ==
    ASSUME NEW w
    PROVE  /\ Len(<<0>>) = 1 /\ <<0>>[1] = 0
           /\ Len(<<0, w>>) = 2 /\ <<0, w>>[1] = 0 /\ <<0, w>>[2] = w
           /\ Append(<<0>>, w) = <<0, w>>
           /\ <<0>> # <<>> /\ <<0, w>> # <<>>
<1>1. Len(<<0>>) = 1 /\ <<0>>[1] = 0
  BY Zenon
<1>2. Len(<<0, w>>) = 2 /\ <<0, w>>[1] = 0 /\ <<0, w>>[2] = w
  BY Zenon
<1>3. Append(<<0>>, w) = <<0, w>>
  <2> DEFINE S == {0, w}
  <2>1. <<0>> \in Seq(S) /\ w \in S
    OBVIOUS
  <2>2. Append(<<0>>, w) \in Seq(S) /\ <<0, w>> \in Seq(S)
    BY <2>1
  <2>3. /\ Len(Append(<<0>>, w)) = 2
        /\ Append(<<0>>, w)[1] = 0 /\ Append(<<0>>, w)[2] = w
    BY <2>1
  <2>4. Len(<<0, w>>) = 2 /\ <<0, w>>[1] = 0 /\ <<0, w>>[2] = w
    BY Zenon
  <2>5. \A i \in 1 .. 2 : Append(<<0>>, w)[i] = <<0, w>>[i]
    BY <2>3, <2>4
  <2> HIDE DEF S
  <2> QED BY <2>2, <2>3, <2>4, <2>5, SameItems, Zenon
<1>4. <<0>> # <<>> /\ <<0, w>> # <<>>
  BY <1>1, <1>2, Zenon
<1> QED BY <1>1, <1>2, <1>3, <1>4, Zenon

LEMMA RangeOfSchedule ==
    ASSUME NEW w
    PROVE  /\ Range(<<0>>) = {0}
           /\ Range(<<0, w>>) = {0, w}
  BY DEF Range

(* What terminateStateEarly and RemoveUnscheduleState leave of it.         *)
LEMMA EraseSchedule ==
    ASSUME NEW w \in WorkId
    PROVE  Erase(<<0, w>>, w) = <<0>> /\ Erase(<<0>>, w) = <<0>>
<1>0. w # 0
  BY FilterAssumption, Zenon
<1>1. Erase(<<0>>, w) = <<0>>
  BY <1>0 DEF Erase
<1>2. Erase(<<0, w>>, w) = <<0>>
  <2> DEFINE k == CHOOSE i \in 1 .. Len(<<0, w>>) : <<0, w>>[i] = w
  <2>1. Len(<<0, w>>) = 2 /\ <<0, w>>[1] = 0 /\ <<0, w>>[2] = w
    BY Zenon
  <2>2. k = 2
    BY <2>1, <1>0
  <2>3. Erase(<<0, w>>, w) = [i \in 1 .. Len(<<0, w>>) - 1 |-> IF i < k THEN <<0, w>>[i] ELSE <<0, w>>[i + 1]]
    BY <2>1 DEF Erase
  <2>4. Erase(<<0, w>>, w) = [i \in 1 .. 1 |-> 0]
    BY <2>1, <2>2, <2>3
  <2> QED BY <2>4
<1> QED BY <1>1, <1>2, Zenon

-----------------------------------------------------------------------------
(* TypeOK by parts; the schedule is left to Scheduling.                    *)
TypeStates ==
    /\ cfg \in Configs /\ states \subseteq StateId /\ sigStates \subseteq WorkId
    /\ hot \subseteq WorkId /\ todo \subseteq WorkId /\ drilled \subseteq WorkId
    /\ cur \in StateId

TypeFlags == modeSwitched \in BOOLEAN /\ forking \in BOOLEAN /\ ready \in BOOLEAN

TypeAt == at \in [StateId -> {"none", "wait", "verify", "fork", "yield", "need", "run",
                              "kept", "faulted"}]

TypeTests == test \in [StateId -> Test \cup {NoTest}] /\ file \in Test \cup {NoTest}

TypeExprs ==
    /\ conHash \in [StateId -> SUBSET Expr] /\ conInMain \in [StateId -> SUBSET Expr]
    /\ vT \subseteq Expr /\ vF \subseteq Expr

TypeSizes == inputSize \in [StateId -> Nat \cup {-1}]

TypeCounters ==
    /\ FreqCounter \in 0 .. SampleFreq /\ DrillFreqCounter \in 0 .. DrillFreq
    /\ pos \in Nat

TypeAfl == order \in {"", "none", "play", "redu"} /\ cover_new \in {0, 1, 2}

Types == /\ TypeStates /\ TypeFlags /\ TypeAt /\ TypeTests /\ TypeExprs
         /\ TypeSizes /\ TypeCounters /\ TypeAfl

(* Between two tests only the seed is scheduled; the work state of the     *)
(* last one may still be the current one if it was kept.                   *)
Idle ==
    /\ schedule = <<0>> /\ states = {0} \cup sigStates
    /\ at[0] \in {"verify", "fork"} => cur = 0 /\ order = "" /\ ~ready
    /\ at[0] \in {"wait", "yield"} => (order = "" <=> ready)
    /\ cur = 0 \/ (cur \in sigStates /\ at[0] = "yield")

(* During a test the seed waits for one work state.                        *)
Busy(w) ==
    /\ schedule = <<0, w>> /\ w \notin sigStates /\ states = {0, w} \cup sigStates
    /\ cur \in {0, w} /\ at[0] = "yield" /\ at[w] \in {"need", "run"}
    /\ order = "" /\ ~ready /\ test[w] \in Test

Scheduling == Idle \/ \E w \in WorkId : Busy(w)

(* What holds at any time of the states and of the testcase.               *)
Phases ==
    /\ failed = ""
    /\ ~Filtering => sigStates = {}
    /\ at[0] \in {"wait", "verify", "fork", "yield"}
    /\ \A s \in sigStates : at[s] = "kept"
    /\ \A s \in WorkId \ states : at[s] = "none"
    /\ todo \subseteq sigStates /\ (todo # {} => at[0] = "verify")
    /\ order # "" \/ at[0] \in {"verify", "fork"} => file \in Test

SigCount == IsFiniteSet(sigStates) /\ Cardinality(sigStates) < MaxStates

Reports == reports \in {0, 1} /\ (ready <=> reports = 1)

(* The drill counter is not 0 when a test that found nothing counts it     *)
(* down: it has been reset since it became 0.                              *)
Started == DrillFreqCounter < DrillFreq
Zero    == DrillFreqCounter = 0

Counting ==
    /\ Started => Drilling
    /\ ready /\ cover_new # 2 => ~Zero
    /\ order \in {"none", "play"} => ~Zero
    /\ \A w \in WorkId : at[w] = "run" => ~Zero

Inv == Types /\ Scheduling /\ Phases /\ SigCount /\ Reports /\ Counting

-----------------------------------------------------------------------------
LEMMA InitInv == ASSUME Sizes, Init PROVE Inv
<1> USE NotSeed DEF Init, FilterInit
<1>0. FreqCounter = SampleFreq /\ DrillFreqCounter = DrillFreq /\ pos = 0
  BY Zenon
<1>1. Types
  <2>1. TypeStates
    BY Zenon DEF TypeStates, StateId
  <2>2. TypeAt /\ TypeTests
    BY Zenon DEF TypeAt, TypeTests
  <2>3. TypeExprs
    BY Zenon DEF TypeExprs
  <2>4. TypeSizes
    BY Zenon DEF TypeSizes
  <2>5. TypeCounters
    BY ONLY <1>0, Numbers DEF TypeCounters
  <2>6. TypeAfl
    BY Zenon DEF TypeAfl
  <2>7. TypeFlags
    BY Zenon DEF TypeFlags
  <2> QED BY <2>1, <2>2, <2>3, <2>4, <2>5, <2>6, <2>7, Zenon DEF Types
<1>2. Scheduling
  BY Zenon DEF Scheduling, Idle, StateId
<1>3. \A s \in WorkId : at[s] = "none"
  BY Zenon DEF StateId
<1>4. Phases
  BY <1>3, Zenon DEF Phases, StateId
<1>5. SigCount
  <2>1. IsFiniteSet({}) /\ Cardinality({}) = 0
    BY Zenon DEF Sizes
  <2> QED BY <2>1, Numbers, Zenon DEF SigCount
<1>6. Reports
  BY Zenon DEF Reports
<1>7. ~Zero /\ ~Started
  BY ONLY <1>0, Numbers DEF Zero, Started
<1>8. Counting
  BY <1>3, <1>7, Zenon DEF Counting
<1> QED BY <1>1, <1>2, <1>4, <1>5, <1>6, <1>8, Zenon DEF Inv

LEMMA SendOrderStep == ASSUME NEW t \in Test, Inv, SendOrder(t) PROVE Inv'
<1> USE DEF Inv, Types
<1>1. cover_new \in {0, 1, 2}
  BY Zenon DEF TypeAfl
<1>2. /\ order' \in {"none", "play", "redu"}
      /\ order' \in {"none", "play"} => cover_new # 2
  <2>1. order' = (CASE cover_new = 0 -> "none"
                   [] cover_new = 1 -> "play"
                   [] cover_new = 2 -> "redu")
    BY Zenon DEF SendOrder
  <2> QED BY ONLY <1>1, <2>1
<1>3. /\ ready /\ order = "" /\ ready' = FALSE
      /\ reports' = 0 /\ cover_new' = 0 /\ file' = t
      /\ UNCHANGED <<cfg, states, schedule, cur, at, test, workVars, drilled, DrillFreqCounter, failed>>
      /\ UNCHANGED filterVars
  BY Zenon DEF SendOrder
<1>4. Types'
  <2>1. TypeStates' /\ TypeAt' /\ TypeTests' /\ TypeExprs' /\ TypeSizes' /\ TypeCounters'
    BY <1>3, Zenon DEF TypeStates, TypeAt, TypeTests, TypeExprs, TypeSizes, TypeCounters, filterVars, workVars
  <2>2. TypeFlags'
    BY <1>3, Zenon DEF TypeFlags, filterVars, workVars
  <2>3. TypeAfl'
    BY <1>2, <1>3, Zenon DEF TypeAfl
  <2> QED BY <2>1, <2>2, <2>3, Zenon
<1>5. Scheduling'
  <2>1. \A w \in WorkId : ~Busy(w)
    BY <1>3, Zenon DEF Busy
  <2>2. Idle
    BY <2>1, Zenon DEF Scheduling
  <2>3. Idle'
    BY <2>2, <1>2, <1>3, Zenon DEF Idle, filterVars
  <2> QED BY <2>3, Zenon DEF Scheduling
<1>6. Phases' /\ SigCount'
  BY <1>3, Zenon DEF Phases, SigCount, Filtering, filterVars
<1>7. Reports'
  <2>1. reports' = 0 /\ ready' = FALSE
    BY <1>3, Zenon
  <2>2. reports' # 1 /\ reports' \in {0, 1}
    BY ONLY <2>1
  <2> QED BY <2>1, <2>2, Zenon DEF Reports
<1>8. Counting'
  BY <1>2, <1>3, Zenon DEF Counting, Drilling, Zero, Started, filterVars
<1> QED BY <1>4, <1>5, <1>6, <1>7, <1>8, Zenon

LEMMA StateSwitchStep == ASSUME Inv, StateSwitch PROVE Inv'
<1> USE DEF Inv, Types
<1>1. SelectState(schedule)
  BY Zenon DEF StateSwitch
<1>2. UNCHANGED <<filterVars, cfg, states, schedule, at, test, workVars, drilled,
                   DrillFreqCounter, aflVars>>
  BY Zenon DEF StateSwitch
<1>3. CASE Idle
  <2>1. cur' = 0 /\ failed' = failed
    <3>1. schedule # <<>> /\ Len(schedule) = 1 /\ schedule[1] = 0
      BY <1>3, Sequences1, Zenon DEF Idle
    <3> QED BY <3>1, <1>1 DEF SelectState
  <2>2. Types'
    BY <1>2, <2>1, ZenonT(60) DEF TypeStates, TypeFlags, TypeAt, TypeTests, TypeExprs, TypeSizes, TypeCounters, TypeAfl, filterVars,
              workVars, aflVars, StateId
  <2>3. Idle'
    BY <1>2, <1>3, <2>1, Zenon DEF Idle, filterVars, aflVars
  <2>4. Phases' /\ SigCount' /\ Reports' /\ Counting'
    BY <1>2, <2>1, Zenon DEF Phases, SigCount, Reports, Counting, Filtering, Drilling, Zero, Started, filterVars, aflVars
  <2> QED BY <2>2, <2>3, <2>4, Zenon DEF Scheduling
<1>4. ASSUME NEW w \in WorkId, Busy(w) PROVE Inv'
  <2>1. cur' = w /\ failed' = failed
    <3>1. schedule # <<>> /\ Len(schedule) = 2 /\ schedule[2] = w
      BY <1>4, Sequences1, Zenon DEF Busy
    <3> QED BY <3>1, <1>1 DEF SelectState
  <2>2. Types'
    BY <1>2, <2>1, ZenonT(60) DEF TypeStates, TypeFlags, TypeAt, TypeTests, TypeExprs, TypeSizes, TypeCounters, TypeAfl, filterVars,
              workVars, aflVars, StateId
  <2>3. Busy(w)'
    BY <1>2, <1>4, <2>1, Zenon DEF Busy, filterVars, aflVars
  <2>4. Phases' /\ SigCount' /\ Reports' /\ Counting'
    BY <1>2, <2>1, Zenon DEF Phases, SigCount, Reports, Counting, Filtering, Drilling, Zero, Started, filterVars, aflVars
  <2> QED BY <2>2, <2>3, <2>4, Zenon DEF Scheduling
<1> QED BY <1>3, <1>4, Zenon DEF Scheduling

-----------------------------------------------------------------------------
(* The actions of the seed.                                                *)
LEMMA SeedIdle ==
    ASSUME Inv, at[0] # "yield"
    PROVE  /\ Idle /\ cur = 0
           /\ \A w \in WorkId : at[w] # "run"
<1>1. Idle
  BY Zenon DEF Inv, Scheduling, Busy
<1> QED BY <1>1, Zenon DEF Inv, Idle, Phases

LEMMA WaitAflTestcaseStep == ASSUME Inv, WaitAflTestcase PROVE Inv'
<1> USE DEF Inv, Types
<1>1. cur = 0 /\ at[0] = "wait" /\ order # "" /\ failed = ""
  BY Zenon DEF WaitAflTestcase
<1>2. Idle /\ \A w \in WorkId : at[w] # "run"
  BY <1>1, SeedIdle, Zenon
<1>3. ~ready
  BY <1>1, <1>2, Zenon DEF Idle
<1>4. ~(Drilling /\ order = "none" /\ DrillFreqCounter = 0)
  BY Zenon DEF Counting, Zero
<1>5. /\ order' = ""
      /\ at' = [at EXCEPT ![0] = IF Filtering THEN "verify" ELSE "fork"]
      /\ todo' = IF Filtering THEN SameLen(Size[file]) ELSE {}
      /\ DrillFreqCounter' =
           CASE Drilling /\ order = "none" -> DrillFreqCounter - 1
             [] Drilling /\ order = "play" -> DrillFreq
             [] OTHER                      -> DrillFreqCounter
  BY <1>4, Zenon DEF WaitAflTestcase
<1>6. UNCHANGED <<sigStates, conHash, conInMain, inputSize, hot, FreqCounter,
                  modeSwitched, vT, vF, failed, cfg, states, schedule, cur, test, pos, forking,
                  drilled, file, ready, reports, cover_new>>
  BY <1>4, Zenon DEF WaitAflTestcase, workVars
<1>7. SameLen(Size[file]) \subseteq sigStates
  BY Zenon DEF SameLen
<1>8. at'[0] \in {"verify", "fork"} /\ \A w \in WorkId : at'[w] = at[w]
  BY <1>5, NotSeed, Zenon DEF TypeAt, StateId
<1>9. /\ DrillFreqCounter' \in 0 .. DrillFreq
      /\ Started' => Drilling \/ Started
  <2>1. DrillFreqCounter \in 0 .. DrillFreq
    BY Zenon DEF TypeCounters
  <2>2. CASE Drilling /\ order = "none"
    <3>1. DrillFreqCounter' = DrillFreqCounter - 1 /\ DrillFreqCounter # 0
      BY <1>4, <1>5, <2>2, Zenon
    <3>2. DrillFreqCounter' \in 0 .. DrillFreq
      BY ONLY <3>1, <2>1, Numbers
    <3> QED BY <2>2, <3>2, Zenon
  <2>3. CASE Drilling /\ order = "play"
    <3>1. DrillFreqCounter' = DrillFreq
      BY <1>5, <2>3, Zenon
    <3>2. DrillFreqCounter' \in 0 .. DrillFreq
      BY ONLY <3>1, <2>1, Numbers
    <3> QED BY <2>3, <3>2, Zenon
  <2>4. CASE ~(Drilling /\ order = "none") /\ ~(Drilling /\ order = "play")
    BY <1>5, <2>1, <2>4, Zenon DEF Started
  <2> QED BY <2>2, <2>3, <2>4, Zenon
<1>10. Types'
  <2>1. TypeStates' /\ TypeTests' /\ TypeExprs' /\ TypeSizes' /\ TypeFlags'
    BY <1>5, <1>6, <1>7, Zenon DEF TypeStates, TypeTests, TypeExprs, TypeSizes, TypeFlags
  <2>2. TypeAt'
    BY <1>5, Zenon DEF TypeAt
  <2>3. TypeCounters'
    BY <1>6, <1>9, Zenon DEF TypeCounters
  <2>4. TypeAfl'
    BY <1>5, <1>6, Zenon DEF TypeAfl
  <2> QED BY <2>1, <2>2, <2>3, <2>4, Zenon
<1>11. Scheduling'
  BY <1>1, <1>2, <1>3, <1>5, <1>6, <1>8, Zenon DEF Scheduling, Idle
<1>12. Phases'
  <2>1. todo' \subseteq sigStates' /\ (todo' # {} => at'[0] = "verify")
    BY <1>5, <1>6, <1>7, Zenon DEF TypeAt, StateId
  <2>2. sigStates' = sigStates /\ sigStates \subseteq WorkId /\ states' = states
    BY <1>6, Zenon DEF TypeStates
  <2>3. file' \in Test
    BY <1>1, <1>6, Zenon DEF Phases
  <2> QED BY <1>6, <1>8, <2>1, <2>2, <2>3, Zenon DEF Phases, Filtering
<1>13. SigCount' /\ Reports'
  BY <1>6, Zenon DEF SigCount, Reports
<1>14. Counting'
  <2>1. Started' => Drilling
    BY <1>9, Zenon DEF Counting
  <2> QED BY <1>2, <1>3, <1>5, <1>6, <1>8, <2>1, Zenon DEF Counting, Drilling
<1> QED BY <1>10, <1>11, <1>12, <1>13, <1>14, Zenon

LEMMA VerifyStateStep == ASSUME NEW s \in WorkId, Inv, VerifyState(s) PROVE Inv'
<1> USE DEF Inv, Types
<1>1. at[0] = "verify" /\ s \in todo
  BY Zenon DEF VerifyState, Verifying
<1>2. Idle
  BY <1>1, SeedIdle, Zenon
<1>3. s \in states
  BY <1>1, <1>2, Zenon DEF Phases, Idle
<1>4. VerifyOther(s, file) /\ failed' = failed
  BY <1>3, Zenon DEF VerifyState
<1>5. UNCHANGED <<sigStates, conHash, conInMain, inputSize, hot, FreqCounter, modeSwitched,
                  cfg, states, schedule, cur, at, test, pos, forking, drilled,
                  DrillFreqCounter, order, file, ready, reports, cover_new>>
  BY Zenon DEF VerifyState, workVars, aflVars
<1>6. todo' \subseteq todo
  BY <1>4, Zenon DEF VerifyOther
<1>7. vT' \subseteq Expr /\ vF' \subseteq Expr
  <2>1. conInMain[s] \subseteq Expr
    BY Zenon DEF TypeExprs, StateId
  <2>2. FalseIn(s, file) \subseteq conInMain[s]
    BY Zenon DEF FalseIn
  <2>3. vT \subseteq Expr /\ vF \subseteq Expr
    BY Zenon DEF TypeExprs
  <2> QED BY <1>4, <2>1, <2>2, <2>3, Zenon DEF VerifyOther
<1>8. Types'
  <2>1. TypeExprs'
    BY <1>5, <1>7, Zenon DEF TypeExprs
  <2>2. TypeStates' /\ TypeTests' /\ TypeAt' /\ TypeSizes' /\ TypeFlags' /\ TypeCounters' /\ TypeAfl'
    BY <1>5, <1>6, ZenonT(60) DEF TypeStates, TypeTests, TypeAt, TypeSizes, TypeFlags, TypeCounters, TypeAfl
  <2> QED BY <2>1, <2>2, Zenon
<1>9. Scheduling'
  BY <1>2, <1>5, Zenon DEF Scheduling, Idle
<1>10. Phases'
  BY <1>1, <1>4, <1>5, <1>6, Zenon DEF Phases, Filtering
<1>11. SigCount' /\ Reports' /\ Counting'
  BY <1>5, Zenon DEF SigCount, Reports, Counting, Drilling, Zero, Started
<1> QED BY <1>8, <1>9, <1>10, <1>11, Zenon

LEMMA ReportRedundantStep == ASSUME NEW s \in WorkId, Inv, ReportRedundant(s) PROVE Inv'
<1> USE DEF Inv, Types
<1>1. at[0] = "verify" /\ s \in todo
  BY Zenon DEF ReportRedundant, Verifying
<1>2. Idle /\ cur = 0 /\ \A w \in WorkId : at[w] # "run"
  BY <1>1, SeedIdle, Zenon
<1>3. order = "" /\ ~ready
  BY <1>1, <1>2, Zenon DEF Idle
<1>4. /\ hot' = hot \cup {s} /\ todo' = {} /\ vT' = {} /\ vF' = {}
      /\ cover_new' = 2 /\ ready' = TRUE /\ file' = NoTest
      /\ at' = [at EXCEPT ![0] = "wait"]
  BY Zenon DEF ReportRedundant, VerifySame, Report, Verdicts
<1>5. reports' = 1
  <2>1. reports \in {0, 1} /\ reports # 1
    BY <1>3, Zenon DEF Reports
  <2>2. reports' = reports + 1
    BY Zenon DEF ReportRedundant, Report
  <2> QED BY ONLY <2>1, <2>2
<1>6. UNCHANGED <<sigStates, conHash, conInMain, inputSize, FreqCounter, modeSwitched,
                  cfg, states, schedule, cur, test, pos, forking, drilled,
                  DrillFreqCounter, order, failed>>
  BY Zenon DEF ReportRedundant, workVars
<1>7. at'[0] = "wait" /\ \A w \in WorkId : at'[w] = at[w]
  BY <1>4, NotSeed, Zenon DEF TypeAt, StateId
<1>8. Types'
  <2>1. TypeStates' /\ TypeTests' /\ TypeExprs' /\ TypeSizes' /\ TypeCounters'
    BY <1>4, <1>6, Zenon DEF TypeStates, TypeTests, TypeExprs, TypeSizes, TypeCounters
  <2>2. TypeAt'
    BY <1>4, Zenon DEF TypeAt
  <2>3. TypeAfl'
    BY <1>4, <1>6, Zenon DEF TypeAfl
  <2>4. TypeFlags'
    BY <1>4, <1>6, Zenon DEF TypeFlags
  <2> QED BY <2>1, <2>2, <2>3, <2>4, Zenon
<1>9. Scheduling'
  BY <1>2, <1>3, <1>4, <1>6, <1>7, Zenon DEF Scheduling, Idle
<1>10. Phases'
  <2>1. sigStates \subseteq WorkId
    BY Zenon DEF TypeStates
  <2> QED BY <1>3, <1>4, <1>6, <1>7, <2>1, Zenon DEF Phases, Filtering
<1>11. SigCount'
  BY <1>6, Zenon DEF SigCount
<1>12. Reports'
  BY <1>4, <1>5, Zenon DEF Reports
<1>13. Counting'
  BY <1>2, <1>3, <1>4, <1>6, <1>7, Zenon DEF Counting, Drilling, Zero, Started
<1> QED BY <1>8, <1>9, <1>10, <1>11, <1>12, <1>13, Zenon

LEMMA NotRedundantStep == ASSUME Inv, NotRedundant PROVE Inv'
<1> USE DEF Inv, Types
<1>1. at[0] = "verify" /\ todo = {}
  BY Zenon DEF NotRedundant, Verifying
<1>2. Idle /\ cur = 0 /\ \A w \in WorkId : at[w] # "run"
  BY <1>1, SeedIdle, Zenon
<1>3. /\ at' = [at EXCEPT ![0] = "fork"] /\ vT' = {} /\ vF' = {}
      /\ hot' \in {{}, hot}
  BY Zenon DEF NotRedundant
<1>4. FreqCounter' \in 0 .. SampleFreq
  <2>1. FreqCounter \in 0 .. SampleFreq
    BY Zenon DEF TypeCounters
  <2>2. \/ FreqCounter' = SampleFreq
        \/ FreqCounter # 0 /\ FreqCounter' = FreqCounter - 1
        \/ FreqCounter' = FreqCounter
    BY Zenon DEF NotRedundant
  <2> QED BY ONLY <2>1, <2>2, Numbers
<1>5. UNCHANGED <<sigStates, conHash, conInMain, inputSize, modeSwitched, todo, cfg,
                  states, schedule, cur, test, pos, forking, drilled, DrillFreqCounter,
                  order, file, ready, reports, cover_new, failed>>
  BY Zenon DEF NotRedundant, workVars, aflVars
<1>6. at'[0] = "fork" /\ \A w \in WorkId : at'[w] = at[w]
  BY <1>3, NotSeed, Zenon DEF TypeAt, StateId
<1>7. Types'
  <2>1. TypeStates' /\ TypeTests' /\ TypeExprs' /\ TypeSizes' /\ TypeFlags' /\ TypeAfl'
    BY <1>3, <1>5, ZenonT(60) DEF TypeStates, TypeTests, TypeExprs, TypeSizes, TypeFlags, TypeAfl
  <2>2. TypeAt'
    BY <1>3, Zenon DEF TypeAt
  <2>3. TypeCounters'
    BY <1>4, <1>5, Zenon DEF TypeCounters
  <2> QED BY <2>1, <2>2, <2>3, Zenon
<1>8. Scheduling'
  BY <1>1, <1>2, <1>5, <1>6, Zenon DEF Scheduling, Idle
<1>9. Phases'
  <2>1. sigStates \subseteq WorkId
    BY Zenon DEF TypeStates
  <2> QED BY <1>1, <1>5, <1>6, <2>1, Zenon DEF Phases, Filtering
<1>10. SigCount' /\ Reports'
  BY <1>5, Zenon DEF SigCount, Reports
<1>11. Counting'
  BY <1>5, <1>6, Zenon DEF Counting, Drilling, Zero, Started
<1> QED BY <1>7, <1>8, <1>9, <1>10, <1>11, Zenon

LEMMA UpdateHotStatesStep == ASSUME Sizes, NEW s \in WorkId, Inv, UpdateHotStates(s) PROVE Inv'
<1> USE DEF Inv, Types
<1>1. at[0] = "verify" /\ todo = {} /\ s \in sigStates
  BY Zenon DEF UpdateHotStates, Verifying
<1>2. Idle /\ cur = 0 /\ \A w \in WorkId : at[w] # "run"
  BY <1>1, SeedIdle, Zenon
<1>3. /\ hot' = {} /\ vT' = {} /\ vF' = {} /\ FreqCounter' = SampleFreq
      /\ sigStates' = sigStates \ {s} /\ states' = states \ {s}
      /\ at' = [at EXCEPT ![0] = "fork", ![s] = "none"]
      /\ conHash'   = [conHash EXCEPT ![s] = {}]
      /\ conInMain' = [conInMain EXCEPT ![s] = {}]
      /\ inputSize' = [inputSize EXCEPT ![s] = -1]
      /\ test' = [test EXCEPT ![s] = NoTest] /\ drilled' = drilled \ {s}
  BY Zenon DEF UpdateHotStates
<1>4. UNCHANGED <<modeSwitched, todo, cfg, cur, pos, forking, DrillFreqCounter,
                  order, file, ready, reports, cover_new, failed>>
  BY Zenon DEF UpdateHotStates, workVars, aflVars
<1>5. schedule' = <<0>>
  BY <1>2, EraseSchedule, Zenon DEF UpdateHotStates, Idle
<1>6. /\ at'[0] = "fork" /\ at'[s] = "none"
      /\ \A w \in WorkId \ {s} : at'[w] = at[w]
  BY <1>3, NotSeed, Zenon DEF TypeAt, StateId
<1>7. Types'
  <2>1. TypeStates'
    BY <1>3, <1>4, Zenon DEF TypeStates
  <2>2. TypeAt' /\ TypeTests'
    BY <1>3, <1>4, Zenon DEF TypeAt, TypeTests
  <2>3. TypeExprs'
    BY <1>3, <1>4, Zenon DEF TypeExprs
  <2>4. TypeSizes'
    BY <1>3, Zenon DEF TypeSizes
  <2>5. TypeCounters'
    BY <1>3, <1>4, Numbers DEF TypeCounters
  <2>6. TypeFlags' /\ TypeAfl'
    BY <1>4, Zenon DEF TypeFlags, TypeAfl
  <2> QED BY <2>1, <2>2, <2>3, <2>4, <2>5, <2>6, Zenon
<1>8. Scheduling'
  <2>1. states' = {0} \cup sigStates'
    BY <1>2, <1>3, NotSeed, Zenon DEF Idle
  <2> QED BY <1>1, <1>2, <1>4, <1>5, <1>6, <2>1, Zenon DEF Scheduling, Idle
<1>9. Phases'
  <2>1. sigStates \subseteq WorkId
    BY Zenon DEF TypeStates
  <2> QED BY <1>1, <1>3, <1>4, <1>6, <2>1, ZenonT(60) DEF Phases, Filtering
<1>10. SigCount'
  <2>1. /\ IsFiniteSet(sigStates \ {s})
        /\ Cardinality(sigStates \ {s}) = Cardinality(sigStates) - 1
    BY <1>1, Zenon DEF SigCount, Sizes
  <2>2. Cardinality(sigStates) \in Nat
    BY Zenon DEF SigCount, Sizes
  <2> QED BY <1>3, <2>1, <2>2, Numbers DEF SigCount
<1>11. Reports'
  BY <1>4, Zenon DEF Reports
<1>12. Counting'
  BY <1>4, <1>6, Zenon DEF Counting, Drilling, Zero, Started
<1> QED BY <1>7, <1>8, <1>9, <1>10, <1>11, <1>12, Zenon

LEMMA ForkWorkStateStep == ASSUME NEW w \in WorkId, Inv, ForkWorkState(w) PROVE Inv'
<1> USE DEF Inv, Types
<1>1. at[0] = "fork" /\ w \notin states \cup sigStates
  BY Zenon DEF ForkWorkState
<1>2. Idle /\ cur = 0 /\ \A v \in WorkId : at[v] # "run"
  BY <1>1, SeedIdle, Zenon
<1>3. order = "" /\ ~ready /\ file \in Test
  BY <1>1, <1>2, Zenon DEF Idle, Phases
<1>4. /\ states' = states \cup {w}
      /\ at' = [at EXCEPT ![0] = "yield", ![w] = "need"]
      /\ test' = [test EXCEPT ![w] = file] /\ file' = NoTest /\ pos' = 0
  BY Zenon DEF ForkWorkState
<1>5. UNCHANGED <<filterVars, cfg, cur, drilled, DrillFreqCounter, order, ready, reports,
                  cover_new, failed>>
  BY Zenon DEF ForkWorkState
<1>6. schedule' = <<0, w>>
  BY <1>2, Sequences1, Zenon DEF ForkWorkState, Idle
<1>7. /\ at'[0] = "yield" /\ at'[w] = "need"
      /\ \A v \in WorkId \ {w} : at'[v] = at[v]
  BY <1>4, NotSeed, Zenon DEF TypeAt, StateId
<1>8. Types'
  <2>1. TypeStates'
    BY <1>4, <1>5, Zenon DEF TypeStates, StateId, filterVars
  <2>2. TypeAt' /\ TypeTests'
    BY <1>3, <1>4, Zenon DEF TypeAt, TypeTests
  <2>3. TypeExprs' /\ TypeSizes'
    BY <1>5, Zenon DEF TypeExprs, TypeSizes, filterVars
  <2>4. TypeCounters'
    BY <1>4, <1>5, Zenon DEF TypeCounters, filterVars
  <2>5. TypeAfl'
    BY <1>5, Zenon DEF TypeAfl
  <2>6. forking' \in BOOLEAN
    BY Zenon DEF ForkWorkState
  <2>7. TypeFlags'
    BY <1>5, <2>6, Zenon DEF TypeFlags, filterVars
  <2> QED BY <2>1, <2>2, <2>3, <2>4, <2>5, <2>7, Zenon
<1>9. Scheduling'
  <2>1. test'[w] \in Test
    BY <1>3, <1>4, Zenon DEF TypeTests, StateId
  <2>2. Busy(w)'
    BY <1>1, <1>2, <1>3, <1>4, <1>5, <1>6, <1>7, <2>1, Zenon DEF Busy, Idle, filterVars
  <2> QED BY <2>2, Zenon DEF Scheduling
<1>10. Phases'
  <2>1. sigStates \subseteq WorkId /\ sigStates' = sigStates /\ todo' = todo
    BY <1>5, Zenon DEF TypeStates, filterVars
  <2> QED BY <1>1, <1>3, <1>4, <1>5, <1>7, <2>1, ZenonT(60) DEF Phases, Filtering
<1>11. SigCount' /\ Reports'
  BY <1>5, Zenon DEF SigCount, Reports, filterVars
<1>12. Counting'
  BY <1>5, <1>7, Zenon DEF Counting, Drilling, Zero, Started, filterVars
<1> QED BY <1>8, <1>9, <1>10, <1>11, <1>12, Zenon

LEMMA WaitWorkStateStep == ASSUME Inv, WaitWorkState PROVE Inv'
<1> USE DEF Inv, Types
<1>1. cur = 0 /\ at[0] = "yield"
  BY Zenon DEF WaitWorkState
<1>2. UNCHANGED <<filterVars, cfg, states, schedule, test, workVars, drilled,
                  DrillFreqCounter, aflVars>>
  BY Zenon DEF WaitWorkState
<1>3. CASE Idle
  <2>1. Len(schedule) <= 1
    <3>1. Len(schedule) = 1
      BY <1>3, Sequences1, Zenon DEF Idle
    <3> QED BY ONLY <3>1
  <2>2. at' = [at EXCEPT ![0] = "wait"] /\ UNCHANGED <<cur, failed>>
    BY <2>1, Zenon DEF WaitWorkState
  <2>3. at'[0] = "wait" /\ \A v \in WorkId : at'[v] = at[v]
    BY <2>2, NotSeed, Zenon DEF TypeAt, StateId
  <2>4. Types'
    <3>1. TypeAt'
      BY <2>2, Zenon DEF TypeAt
    <3>2. TypeStates' /\ TypeFlags' /\ TypeTests' /\ TypeExprs' /\ TypeSizes'
          /\ TypeCounters' /\ TypeAfl'
      BY <1>2, <2>2, Zenon DEF TypeStates, TypeFlags, TypeTests, TypeExprs, TypeSizes, TypeCounters,
            TypeAfl, filterVars, workVars, aflVars
    <3> QED BY <3>1, <3>2, Zenon
  <2>5. Idle'
    BY <1>1, <1>2, <1>3, <2>2, <2>3, Zenon DEF Idle, filterVars, aflVars
  <2>6. Phases'
    <3>1. sigStates \subseteq WorkId /\ sigStates' = sigStates /\ todo' = todo
      BY <1>2, Zenon DEF TypeStates, filterVars
    <3> QED BY <1>1, <1>2, <2>2, <2>3, <3>1, Zenon DEF Phases, Filtering, aflVars
  <2>7. SigCount' /\ Reports' /\ Counting'
    BY <1>2, <2>3, Zenon DEF SigCount, Reports, Counting, Drilling, Zero, Started, filterVars, aflVars
  <2> QED BY <2>4, <2>5, <2>6, <2>7, Zenon DEF Scheduling
<1>4. ASSUME NEW w \in WorkId, Busy(w) PROVE Inv'
  <2>1. ~(Len(schedule) <= 1)
    <3>1. Len(schedule) = 2
      BY <1>4, Sequences1, Zenon DEF Busy
    <3> QED BY ONLY <3>1
  <2>2. SelectState(schedule) /\ at' = at
    BY <2>1, Zenon DEF WaitWorkState
  <2>3. cur' = w /\ failed' = failed
    <3>1. schedule # <<>> /\ Len(schedule) = 2 /\ schedule[2] = w
      BY <1>4, Sequences1, Zenon DEF Busy
    <3> QED BY <3>1, <2>2 DEF SelectState
  <2>4. Types'
    BY <1>2, <2>2, <2>3, ZenonT(60) DEF TypeStates, TypeFlags, TypeAt, TypeTests, TypeExprs, TypeSizes,
          TypeCounters, TypeAfl, filterVars, workVars, aflVars, StateId
  <2>5. Busy(w)'
    BY <1>2, <1>4, <2>2, <2>3, Zenon DEF Busy, filterVars, aflVars
  <2>6. Phases' /\ SigCount' /\ Reports' /\ Counting'
    BY <1>2, <2>2, <2>3, Zenon DEF Phases, SigCount, Reports, Counting, Filtering, Drilling, Zero,
          Started, filterVars, aflVars
  <2> QED BY <2>4, <2>5, <2>6, Zenon DEF Scheduling
<1> QED BY <1>3, <1>4, Zenon DEF Scheduling

-----------------------------------------------------------------------------
(* The actions of the work state.                                          *)
LEMMA WorkBusy ==
    ASSUME NEW w \in WorkId, Inv, cur = w, at[w] \in {"need", "run"}
    PROVE  Busy(w)
<1>1. ~Idle
  BY NotSeed, Zenon DEF Inv, Idle, Phases
<1> QED BY <1>1, NotSeed, Zenon DEF Inv, Scheduling, Busy

LEMMA InputSizeNat == ASSUME NEW t \in Test PROVE InputSize(t) \in Nat
<1>1. Size[t] \in Nat /\ Chunk \in Nat \ {0}
  BY FilterAssumption, Zenon
<1>2. CASE Size[t] # 0
  <2>1. Size[t] - 1 \in Nat
    BY <1>1, <1>2
  <2>2. (Size[t] - 1) % Chunk \in Nat
    BY <1>1, <2>1
  <2> QED BY <1>2, <2>2 DEF InputSize
<1>3. CASE Size[t] = 0
  BY <1>3, Zenon DEF InputSize
<1> QED BY <1>2, <1>3, Zenon

LEMMA IsNeedSymbexStep == ASSUME NEW w \in WorkId, Inv, IsNeedSymbex(w) PROVE Inv'
<1> USE DEF Inv, Types
<1>1. cur = w /\ at[w] = "need"
  BY Zenon DEF IsNeedSymbex
<1>2. Busy(w)
  BY <1>1, WorkBusy, Zenon
<1>3. /\ modeSwitched' = (modeSwitched \/ (Filtering /\ ~Room))
      /\ DrillFreqCounter' = IF DrillRun THEN DrillFreq ELSE DrillFreqCounter
      /\ inputSize' = IF Filtering /\ (Room \/ DrillRun)
                      THEN [inputSize EXCEPT ![w] = InputSize(test[w])] ELSE inputSize
      /\ at' = [at EXCEPT ![w] = "run"]
  BY Zenon DEF IsNeedSymbex
<1>4. UNCHANGED <<sigStates, conHash, conInMain, hot, FreqCounter, todo, vT, vF, cfg, states,
                  schedule, cur, test, pos, forking, drilled, order, file, ready, reports,
                  cover_new, failed>>
  BY Zenon DEF IsNeedSymbex, loopVars, workVars, aflVars
<1>5. at'[w] = "run" /\ at'[0] = at[0] /\ \A v \in WorkId \ {w} : at'[v] = at[v]
  BY <1>3, NotSeed, Zenon DEF TypeAt, StateId
<1>6. modeSwitched' \in BOOLEAN /\ (modeSwitched => modeSwitched')
  BY <1>3, Zenon
<1>7. ~Zero' /\ (Started' => Drilling') /\ DrillFreqCounter' \in 0 .. DrillFreq
  <2>1. DrillFreqCounter \in 0 .. DrillFreq
    BY Zenon DEF TypeCounters
  <2>2. CASE DrillRun
    <3>1. DrillFreqCounter' = DrillFreq
      BY <1>3, <2>2, Zenon
    <3> QED BY ONLY <3>1, Numbers DEF Zero, Started
  <2>3. CASE ~DrillRun
    <3>1. DrillFreqCounter' = DrillFreqCounter
      BY <1>3, <2>3, Zenon
    <3>2. Drilling => Drilling'
      BY <1>4, <1>6, Zenon DEF Drilling
    <3>3. Started' = Started /\ Zero' = Zero
      BY <3>1, Zenon DEF Started, Zero
    <3>4. Zero => Started
      BY ONLY Numbers, Zenon DEF Zero, Started
    <3>5. ~Zero
      BY <1>4, <1>6, <2>3, <3>4, Zenon DEF Counting, Drilling, DrillRun, Filtering, Zero
    <3> QED BY <2>1, <3>1, <3>2, <3>3, <3>5, Zenon DEF Counting
  <2> QED BY <2>2, <2>3, Zenon
<1>8. Types'
  <2>1. TypeStates' /\ TypeTests' /\ TypeExprs' /\ TypeAfl'
    BY <1>4, Zenon DEF TypeStates, TypeTests, TypeExprs, TypeAfl
  <2>2. TypeAt'
    BY <1>3, Zenon DEF TypeAt
  <2>3. TypeFlags'
    BY <1>4, <1>6, Zenon DEF TypeFlags
  <2>4. TypeCounters'
    BY <1>4, <1>7, Zenon DEF TypeCounters
  <2>5. TypeSizes'
    <3>1. InputSize(test[w]) \in Nat
      BY <1>2, InputSizeNat, Zenon DEF Busy
    <3> QED BY <1>3, <3>1, Zenon DEF TypeSizes
  <2> QED BY <2>1, <2>2, <2>3, <2>4, <2>5, Zenon
<1>9. Scheduling'
  BY <1>2, <1>4, <1>5, Zenon DEF Scheduling, Busy
<1>10. Phases'
  <2>1. w \in states /\ w \notin sigStates /\ sigStates \subseteq WorkId
    BY <1>2, Zenon DEF Busy, TypeStates
  <2> QED BY <1>4, <1>5, <2>1, Zenon DEF Phases, Filtering
<1>11. SigCount' /\ Reports'
  BY <1>4, Zenon DEF SigCount, Reports
<1>12. Counting'
  BY <1>7, Zenon DEF Counting
<1> QED BY <1>8, <1>9, <1>10, <1>11, <1>12, Zenon

LEMMA BranchStep == ASSUME NEW w \in WorkId, Inv, Branch(w) PROVE Inv'
<1> USE DEF Inv, Types
<1>1. cur = w /\ at[w] = "run" /\ pos < Len(Path[test[w]])
  BY Zenon DEF Branch, Running
<1>2. Busy(w)
  BY <1>1, WorkBusy, Zenon
<1>3. pos' = pos + 1
  BY Zenon DEF Branch
<1>4. UNCHANGED <<sigStates, inputSize, hot, FreqCounter, modeSwitched, todo, vT, vF, cfg,
                  states, schedule, cur, at, test, forking, DrillFreqCounter, order, file,
                  ready, reports, cover_new, failed>>
  BY Zenon DEF Branch, loopVars, aflVars
<1> DEFINE t == test[w]
           c == Path[t][pos + 1]
<1>5. c \in Cond
  <2>1. Path[t] \in Seq(Cond)
    BY <1>2, FilterAssumption, Zenon DEF Busy
  <2>2. pos \in Nat
    BY Zenon DEF TypeCounters
  <2> QED BY <1>1, <2>1, <2>2
<1>6. /\ Constraint(c, t) \in Expr
      /\ \A forked \in BOOLEAN : Reported(c, t, forked) \in Expr
  BY <1>5, Zenon DEF Constraint, Reported, Expr
<1>7. /\ conHash' \in {conHash, [conHash EXCEPT ![w] = @ \cup {Constraint(c, t)}]}
      /\ \E forked \in BOOLEAN :
           conInMain' \in {conInMain, [conInMain EXCEPT ![w] = @ \cup {Reported(c, t, forked)}]}
      /\ drilled' \in {drilled, drilled \cup {w}}
  BY Zenon DEF Branch
<1> HIDE DEF t, c
<1>8. Types'
  <2>1. TypeStates' /\ TypeFlags' /\ TypeAt' /\ TypeTests' /\ TypeSizes' /\ TypeAfl'
    BY <1>4, <1>7, ZenonT(60) DEF TypeStates, TypeFlags, TypeAt, TypeTests, TypeSizes, TypeAfl
  <2>2. TypeCounters'
    BY <1>3, <1>4 DEF TypeCounters
  <2>3. TypeExprs'
    BY <1>4, <1>6, <1>7, ZenonT(60) DEF TypeExprs
  <2> QED BY <2>1, <2>2, <2>3, Zenon
<1>9. Scheduling'
  BY <1>2, <1>4, Zenon DEF Scheduling, Busy
<1>10. Phases' /\ SigCount' /\ Reports' /\ Counting'
  BY <1>4, Zenon DEF Phases, SigCount, Reports, Counting, Filtering, Drilling, Zero, Started
<1> QED BY <1>8, <1>9, <1>10, Zenon

(* The end of a test: the state is terminated, or kept as a significant    *)
(* one.  The three callers of tell_afl either kill the state and do not    *)
(* let it be kept, or leave both to the filter.                            *)
TellAflCase(w, f, reserve, kills, next) ==
    /\ Inv /\ cur = w /\ at[w] = "run"
    /\ f \in {"NONE", "CRASH"}
    /\ TellAfl(w, f, reserve, kills, next) /\ UNCHANGED tellFrame
    /\ \/ kills /\ ~(Filtering /\ reserve)
       \/ ~kills /\ Filtering /\ reserve /\ next = "kept"

LEMMA TellAflEffect ==
    ASSUME NEW w \in WorkId, NEW f, NEW reserve \in BOOLEAN, NEW kills \in BOOLEAN, NEW next,
           TellAflCase(w, f, reserve, kills, next)
    PROVE  /\ Busy(w) /\ ready' = TRUE /\ reports' = 1 /\ failed' = "" /\ schedule' = <<0>>
           /\ cover_new' \in {0, 1, 2}
           /\ \/ /\ sigStates' = sigStates /\ cur' = 0
                 /\ states' = states \ {w} /\ Forget(w)
              \/ /\ ~kills /\ Filtering /\ ~Merged(w)
                 /\ sigStates' = sigStates \cup {w} /\ cur' = w /\ states' = states
                 /\ at' = [at EXCEPT ![w] = "kept"] /\ UNCHANGED keepVars
<1> USE DEF TellAflCase
<1> DEFINE add    == Filtering /\ reserve /\ Cardinality(sigStates) < MaxStates
           merged == add /\ Merged(w)
           left   == IF Filtering THEN Erase(schedule, w) ELSE schedule
           wrong  == CASE Filtering /\ w \notin Range(schedule) -> "invalid state removed"
                       [] ready                                -> "I'm free before?"
                       [] OTHER                                -> ""
<1>1. Busy(w)
  BY WorkBusy, Zenon
<1>2. /\ schedule = <<0, w>> /\ Range(schedule) = {0, w} /\ ~ready
  BY <1>1, RangeOfSchedule, Zenon DEF Busy
<1>3. wrong = ""
  BY <1>2, Zenon
<1>4. Erase(schedule, w) = <<0>> /\ Erase(<<0>>, w) = <<0>>
  BY <1>2, EraseSchedule, Zenon
<1>5. failed = "" /\ (Filtering => Cardinality(sigStates) < MaxStates)
  BY Zenon DEF Inv, Phases, SigCount
<1>6. reports' = 1
  <2>1. reports \in {0, 1} /\ reports # 1
    BY <1>2, Zenon DEF Inv, Reports
  <2>2. reports' = reports + 1
    BY Zenon DEF TellAfl, Report
  <2> QED BY ONLY <2>1, <2>2
<1>7. cover_new' \in {0, 1, 2}
  BY Zenon DEF TellAfl, Report, Verdicts
<1>8. /\ ready' = TRUE
      /\ sigStates' = IF add /\ ~merged THEN sigStates \cup {w} ELSE sigStates
      /\ IF merged \/ kills
         THEN Terminate(w, left)
         ELSE /\ schedule' = left /\ at' = [at EXCEPT ![w] = next]
              /\ UNCHANGED <<states, cur, failed, keepVars>>
  BY <1>3, Zenon DEF TellAfl
<1>9. CASE merged \/ kills
  <2>1. sigStates' = sigStates /\ w \notin sigStates
    BY <1>1, <1>8, <1>9, Zenon DEF Busy
  <2>2. Terminate(w, left)
    BY <1>8, <1>9, Zenon
  <2>3. Erase(left, w) = <<0>>
    BY <1>4, Zenon
  <2>4. schedule' = <<0>> /\ states' = states \ {w} /\ Forget(w) /\ SelectState(<<0>>)
    BY <2>1, <2>2, <2>3, Zenon DEF Terminate
  <2>5. cur' = 0 /\ failed' = failed
    <3>1. Len(<<0>>) = 1 /\ <<0>> # <<>> /\ <<0>>[1] = 0
      BY Sequences1, Zenon
    <3> QED BY <2>4, <3>1 DEF SelectState
  <2> QED BY <1>1, <1>5, <1>6, <1>7, <1>8, <2>1, <2>4, <2>5, Zenon
<1>10. CASE ~(merged \/ kills)
  <2>1. ~kills /\ Filtering /\ add /\ ~Merged(w) /\ next = "kept"
    BY <1>5, <1>10, Zenon
  <2>2. schedule' = <<0>> /\ at' = [at EXCEPT ![w] = "kept"]
        /\ sigStates' = sigStates \cup {w}
        /\ UNCHANGED <<states, cur, failed, keepVars>>
    BY <1>4, <1>8, <1>10, <2>1, Zenon
  <2> QED BY <1>1, <1>5, <1>6, <1>7, <1>8, <2>1, <2>2, Zenon
<1> QED BY <1>9, <1>10, Zenon

LEMMA TellAflStep ==
    ASSUME Sizes, NEW w \in WorkId, NEW f, NEW reserve \in BOOLEAN, NEW kills \in BOOLEAN,
           NEW next, TellAflCase(w, f, reserve, kills, next)
    PROVE  Inv'
<1> DEFINE Gone == /\ sigStates' = sigStates /\ cur' = 0
                   /\ states' = states \ {w} /\ Forget(w)
           Kept == /\ ~kills /\ Filtering /\ ~Merged(w)
                   /\ sigStates' = sigStates \cup {w} /\ cur' = w /\ states' = states
                   /\ at' = [at EXCEPT ![w] = "kept"] /\ UNCHANGED keepVars
<1>a. /\ Busy(w) /\ ready' = TRUE /\ reports' = 1 /\ failed' = "" /\ schedule' = <<0>>
      /\ cover_new' \in {0, 1, 2} /\ (Gone \/ Kept)
  BY TellAflEffect, ZenonT(60) DEF TellAflCase, TellAfl, Gone, Kept
<1>0. Inv /\ UNCHANGED tellFrame /\ at[w] = "run"
  BY Zenon DEF TellAflCase
<1> USE <1>0 DEF Inv, Types
<1>1. Busy(w) /\ ready' = TRUE /\ reports' = 1 /\ failed' = "" /\ schedule' = <<0>>
      /\ cover_new' \in {0, 1, 2}
  BY <1>a, Zenon
<1>2. UNCHANGED <<hot, FreqCounter, modeSwitched, todo, vT, vF, cfg, pos, forking,
                  DrillFreqCounter, order, file>>
  BY Zenon DEF tellFrame, loopVars, workVars
<1>3. /\ at[0] = "yield" /\ order = "" /\ w \notin sigStates
      /\ states = {0, w} \cup sigStates /\ sigStates \subseteq WorkId /\ todo = {}
  BY <1>1, Zenon DEF Busy, TypeStates, Phases
<1>4. TypeFlags' /\ Reports'
  BY <1>1, <1>2, Zenon DEF TypeFlags, Reports
<1>5. TypeCounters' /\ TypeAfl'
  BY <1>1, <1>2, Zenon DEF TypeCounters, TypeAfl
<1>6. CASE Gone
  <2>1. /\ at' = [at EXCEPT ![w] = "none"]
        /\ test' = [test EXCEPT ![w] = NoTest] /\ drilled' = drilled \ {w}
        /\ conHash' = [conHash EXCEPT ![w] = {}] /\ conInMain' = [conInMain EXCEPT ![w] = {}]
        /\ inputSize' = [inputSize EXCEPT ![w] = -1]
    BY <1>6, Zenon DEF Forget
  <2>2. at'[0] = "yield" /\ at'[w] = "none" /\ \A v \in WorkId \ {w} : at'[v] = at[v]
    BY <1>3, <2>1, NotSeed, Zenon DEF TypeAt, StateId
  <2>3. TypeStates'
    BY <1>2, <1>6, <2>1, Zenon DEF TypeStates, StateId
  <2>4. TypeAt' /\ TypeTests'
    BY <1>2, <2>1, Zenon DEF TypeAt, TypeTests
  <2>5. TypeExprs'
    BY <1>2, <2>1, Zenon DEF TypeExprs
  <2>6. TypeSizes'
    BY <2>1, Zenon DEF TypeSizes
  <2>7. Idle'
    <3>1. states' = {0} \cup sigStates'
      BY <1>3, <1>6, NotSeed, Zenon
    <3> QED BY <1>1, <1>2, <1>3, <1>6, <2>2, <3>1, Zenon DEF Idle
  <2>8. Phases'
    BY <1>1, <1>2, <1>3, <1>6, <2>2, ZenonT(60) DEF Phases, Filtering
  <2>9. SigCount'
    BY <1>6, Zenon DEF SigCount
  <2>10. Counting'
    BY <1>2, <1>3, <2>2, Zenon DEF Counting, Drilling, Zero, Started
  <2> QED BY <1>4, <1>5, <2>3, <2>4, <2>5, <2>6, <2>7, <2>8, <2>9, <2>10, Zenon DEF Scheduling
<1>7. CASE Kept
  <2>1. at'[0] = "yield" /\ at'[w] = "kept" /\ \A v \in WorkId \ {w} : at'[v] = at[v]
    BY <1>3, <1>7, NotSeed, Zenon DEF TypeAt, StateId
  <2>2. UNCHANGED <<conHash, conInMain, inputSize, test, drilled>>
    BY <1>7, Zenon DEF keepVars
  <2>3. TypeStates'
    BY <1>2, <1>7, <2>2, Zenon DEF TypeStates, StateId
  <2>4. TypeAt' /\ TypeTests' /\ TypeExprs' /\ TypeSizes'
    BY <1>2, <1>7, <2>2, Zenon DEF TypeAt, TypeTests, TypeExprs, TypeSizes
  <2>5. Idle'
    BY <1>1, <1>2, <1>3, <1>7, <2>1, Zenon DEF Idle
  <2>6. Phases'
    BY <1>1, <1>2, <1>3, <1>7, <2>1, ZenonT(60) DEF Phases, Filtering
  <2>7. SigCount'
    <3>1. /\ IsFiniteSet(sigStates \cup {w})
          /\ Cardinality(sigStates \cup {w}) = Cardinality(sigStates) + 1
      BY <1>3, Zenon DEF SigCount, Sizes
    <3>2. ~(Cardinality(sigStates) + 1 >= MaxStates)
      BY <1>7, Zenon DEF Merged
    <3>3. Cardinality(sigStates) \in Nat
      BY Zenon DEF SigCount, Sizes
    <3>4. Cardinality(sigStates) + 1 < MaxStates
      BY ONLY <3>2, <3>3, Numbers
    <3> QED BY <1>7, <3>1, <3>4, Zenon DEF SigCount
  <2>8. Counting'
    BY <1>2, <1>3, <2>1, Zenon DEF Counting, Drilling, Zero, Started
  <2> QED BY <1>4, <1>5, <2>3, <2>4, <2>5, <2>6, <2>7, <2>8, Zenon DEF Scheduling
<1> QED BY <1>6, <1>7, <1>a, Zenon

LEMMA NeverFaulted == ASSUME NEW w \in WorkId, Inv, cur = w PROVE at[w] # "faulted"
<1>1. CASE Idle
  BY <1>1, NotSeed, Zenon DEF Inv, Idle, Phases
<1>2. ASSUME NEW v \in WorkId, Busy(v) PROVE at[w] # "faulted"
  BY <1>2, NotSeed, Zenon DEF Busy
<1> QED BY <1>1, <1>2, Zenon DEF Inv, Scheduling

LEMMA ProcessUnloadCase ==
    ASSUME Sizes, NEW w \in WorkId, Inv, ProcessUnload(w)
    PROVE  \/ ~Filtering /\ TellAflCase(w, "NONE", TRUE, TRUE, "kept")
           \/ Filtering /\ Ended(w) /\ TellAflCase(w, "NONE", TRUE, FALSE, "kept")
<1>1. cur = w /\ at[w] = "run" /\ Ended(w)
  BY NeverFaulted, Zenon DEF ProcessUnload, Ended, Running
<1>2. TellAfl(w, "NONE", TRUE, ~Filtering \/ Extra, "kept") /\ UNCHANGED tellFrame
  BY <1>1, Zenon DEF ProcessUnload
<1>3. CASE Filtering
  <2>0. ~Extra
    <3>1. IsFiniteSet(sigStates) /\ Cardinality(sigStates) \in Nat
          /\ Cardinality(sigStates) < MaxStates
      BY Zenon DEF Inv, SigCount, Sizes
    <3>2. sigStates' = sigStates \/ (~Merged(w) /\ sigStates' = sigStates \cup {w})
      BY <1>2, Zenon DEF TellAfl
    <3>3. CASE sigStates' = sigStates
      BY <3>1, <3>3, Numbers DEF Extra
    <3>4. CASE ~Merged(w) /\ sigStates' = sigStates \cup {w}
      <4>1. Cardinality(sigStates \cup {w}) \in {Cardinality(sigStates), Cardinality(sigStates) + 1}
        BY <3>1, Zenon DEF Sizes
      <4>2. ~(Cardinality(sigStates) + 1 >= MaxStates)
        BY <3>4, Zenon DEF Merged
      <4>3. ~(Cardinality(sigStates \cup {w}) >= MaxStates)
        BY ONLY <3>1, <4>1, <4>2, Numbers
      <4> QED BY <3>4, <4>3, Zenon DEF Extra
    <3> QED BY <3>2, <3>3, <3>4, Zenon
  <2>1. TellAfl(w, "NONE", TRUE, FALSE, "kept")
    BY <1>2, <1>3, <2>0, Zenon DEF TellAfl
  <2> QED BY <1>1, <1>2, <1>3, <2>1, Zenon DEF TellAflCase
<1>4. CASE ~Filtering
  <2>1. TellAfl(w, "NONE", TRUE, TRUE, "kept")
    BY <1>2, <1>4, Zenon DEF TellAfl
  <2> QED BY <1>1, <1>2, <1>4, <2>1, Zenon DEF TellAflCase
<1> QED BY <1>3, <1>4, Zenon

LEMMA FaultCase ==
    ASSUME FilterFaults = FALSE, NEW w \in WorkId, Inv, Fault(w)
    PROVE  TellAflCase(w, "CRASH", TRUE, TRUE, "faulted")
<1>1. cur = w /\ at[w] = "run" /\ ~Filtering
  BY Zenon DEF Fault, Ended, Running
<1>2. TellAfl(w, "CRASH", TRUE, TRUE, "faulted") /\ UNCHANGED tellFrame
  BY <1>1, Zenon DEF Fault, TellAfl
<1> QED BY <1>1, <1>2, Zenon DEF TellAflCase

LEMMA WorkStateTimeoutCase ==
    ASSUME NEW w \in WorkId, Inv, WorkStateTimeout(w)
    PROVE  TellAflCase(w, "NONE", FALSE, TRUE, "none")
  BY Zenon DEF WorkStateTimeout, Running, TellAflCase

LEMMA TellStep ==
    ASSUME FilterFaults = FALSE, Sizes, NEW w \in WorkId, Inv,
           ProcessUnload(w) \/ Fault(w) \/ WorkStateTimeout(w)
    PROVE  Inv'
<1>1. CASE ProcessUnload(w)
  BY <1>1, ProcessUnloadCase, TellAflStep, Zenon DEF TellAflCase, TellAfl
<1>2. CASE Fault(w)
  BY <1>2, FaultCase, TellAflStep, Zenon DEF TellAflCase, TellAfl
<1>3. CASE WorkStateTimeout(w)
  BY <1>3, WorkStateTimeoutCase, TellAflStep, Zenon DEF TellAflCase, TellAfl
<1> QED BY <1>1, <1>2, <1>3, Zenon

-----------------------------------------------------------------------------
LEMMA InvStep == ASSUME FilterFaults = FALSE, Sizes, Inv, [Next]_vars PROVE Inv'
<1>1. CASE UNCHANGED vars
  <2>1. UNCHANGED <<filterVars, cfg, states, schedule, cur, at, test, workVars, drilled,
                    DrillFreqCounter, aflVars, failed>>
    BY <1>1, Zenon DEF vars, pluginVars
  <2>2. TypeFlags' /\ Reports'
    BY <2>1, Zenon DEF Inv, Types, TypeFlags, Reports, filterVars, workVars, aflVars
  <2>3. /\ TypeStates' /\ TypeAt' /\ TypeTests' /\ TypeExprs'
        /\ TypeSizes' /\ TypeCounters' /\ TypeAfl'
    BY <2>1, Zenon DEF Inv, Types, TypeStates, TypeAt, TypeTests, TypeExprs, TypeSizes, TypeCounters,
          TypeAfl, filterVars, workVars, aflVars
  <2>4. Scheduling' /\ Phases' /\ SigCount'
    BY <2>1, Zenon DEF Inv, Scheduling, Idle, Busy, Phases, SigCount, Filtering, filterVars, aflVars
  <2>5. Counting'
    BY <2>1, Zenon DEF Inv, Counting, Drilling, Zero, Started, filterVars, aflVars
  <2> QED BY <2>2, <2>3, <2>4, <2>5, Zenon DEF Inv, Types
<1>2. CASE \E t \in Test : SendOrder(t)
  BY <1>2, SendOrderStep, Zenon
<1>3. CASE StateSwitch
  BY <1>3, StateSwitchStep, Zenon
<1>4. CASE Qemu
  <2>1. CASE WaitAflTestcase
    BY <2>1, WaitAflTestcaseStep, Zenon
  <2>2. CASE NotRedundant
    BY <2>2, NotRedundantStep, Zenon
  <2>3. CASE WaitWorkState
    BY <2>3, WaitWorkStateStep, Zenon
  <2>4. ASSUME NEW w \in WorkId,
               \/ VerifyState(w) \/ ReportRedundant(w) \/ UpdateHotStates(w) \/ ForkWorkState(w)
        PROVE  Inv'
    BY <2>4, VerifyStateStep, ReportRedundantStep, UpdateHotStatesStep, ForkWorkStateStep, Zenon
  <2>5. ASSUME NEW w \in WorkId,
               \/ IsNeedSymbex(w) \/ Branch(w)
               \/ ProcessUnload(w) \/ Fault(w) \/ WorkStateTimeout(w)
        PROVE  Inv'
    BY <2>5, IsNeedSymbexStep, BranchStep, TellStep, Zenon
  <2> QED BY <1>4, <2>1, <2>2, <2>3, <2>4, <2>5, Zenon DEF Qemu
<1> QED BY <1>1, <1>2, <1>3, <1>4, Zenon DEF Next

LEMMA InvImplies == Inv => TypeOK /\ OneReport /\ AssertionsHold /\ NoLeak
<1> SUFFICES ASSUME Inv PROVE TypeOK /\ OneReport /\ AssertionsHold /\ NoLeak
  BY Zenon
<1>1. TypeOK
  <2>1. schedule \in Seq(StateId)
    <3>1. CASE Idle
      <4>1. <<0>> \in Seq(StateId)
        BY DEF StateId
      <4> QED BY <3>1, <4>1, Zenon DEF Idle
    <3>2. ASSUME NEW w \in WorkId, Busy(w) PROVE schedule \in Seq(StateId)
      <4>1. <<0, w>> \in Seq(StateId)
        BY DEF StateId
      <4> QED BY <3>2, <4>1, Zenon DEF Busy
    <3> QED BY <3>1, <3>2, Zenon DEF Inv, Scheduling
  <2>2. reports \in Nat
    BY DEF Inv, Reports
  <2>3. cover_new \in 0 .. 2
    <3>1. cover_new \in {0, 1, 2}
      BY Zenon DEF Inv, Types, TypeAfl
    <3> QED BY ONLY <3>1
  <2> QED BY <2>1, <2>2, <2>3, Zenon DEF Inv, Types, TypeStates, TypeFlags, TypeAt, TypeTests, TypeExprs,
             TypeSizes, TypeCounters, TypeAfl, TypeOK
<1>2. OneReport /\ AssertionsHold
  BY Zenon DEF Inv, Reports, Phases, OneReport, AssertionsHold
<1>3. NoLeak
  <2>1. CASE Idle
    BY <2>1, Zenon DEF Idle, NoLeak
  <2>2. ASSUME NEW w \in WorkId, Busy(w) PROVE NoLeak
    BY <2>2, RangeOfSchedule, Zenon DEF Busy, NoLeak
  <2> QED BY <2>1, <2>2, Zenon DEF Inv, Scheduling
<1> QED BY <1>1, <1>2, <1>3, Zenon

-----------------------------------------------------------------------------
(* The second invariant: what the filter holds of each state, against the  *)
(* testcase that the state executes.                                       *)
Fresh(s) == conHash[s] = {} /\ conInMain[s] = {} /\ inputSize[s] = -1 /\ s \notin drilled

Hashes(C, t) == {Constraint(c, t) : c \in C}
InMain(C, t) == {Reported(c, t, FALSE) : c \in C \ Lib}
Met(s)       == {Path[test[s]][i] : i \in 1 .. pos}

RunData(s) ==
    /\ pos \in 0 .. Len(Path[test[s]])
    /\ conHash[s] \subseteq Hashes(Met(s), test[s])
    /\ s \notin drilled => /\ conHash[s] = Hashes(Met(s), test[s])
                          /\ conInMain[s] = InMain(Met(s), test[s])
    /\ \/ inputSize[s] = InputSize(test[s])
       \/ inputSize[s] = -1 /\ (Filtering => ~Room)

SigData(s) ==
    /\ test[s] \in Test /\ inputSize[s] = InputSize(test[s])
    /\ conHash[s] \subseteq Hashes(Range(Path[test[s]]), test[s])
    /\ s \notin drilled => /\ conHash[s] = Hashes(Range(Path[test[s]]), test[s])
                          /\ conInMain[s] = InMain(Range(Path[test[s]]), test[s])

Data(s) ==
    /\ s \notin states => Fresh(s)
    /\ at[s] = "need" => Fresh(s) /\ pos = 0
    /\ at[s] = "run" => RunData(s)
    /\ s \in sigStates => SigData(s)
    /\ \A e \in conInMain[s] : e.c \notin Lib

(* The hashes that isRedundant has verified so far, against the testcase.  *)
Verified ==
    /\ at[0] # "verify" => vT = {} /\ vF = {}
    /\ \A e \in vT : Holds(e, file)
    /\ \A e \in vF : ~Holds(e, file) /\ e.c \notin Lib
    /\ \A s \in todo : inputSize[s] = Size[file]

DataInv == (\A s \in WorkId : Data(s)) /\ Verified

LEMMA InitData == Init => DataInv
<1> SUFFICES ASSUME Init PROVE DataInv
  BY Zenon
<1>1. \A s \in WorkId : Fresh(s) /\ at[s] = "none" /\ s \notin sigStates
  BY NotSeed, Zenon DEF Init, FilterInit, Fresh, StateId
<1>2. ASSUME NEW s \in WorkId PROVE Data(s)
  BY <1>1, Zenon DEF Data, Fresh
<1>3. Verified
  BY Zenon DEF Init, FilterInit, Verified
<1> QED BY <1>2, <1>3, Zenon DEF DataInv

(* A state that a step leaves alone keeps its data.                        *)
LEMMA SameData ==
    ASSUME NEW s \in WorkId, Data(s),
           conHash'[s] = conHash[s], conInMain'[s] = conInMain[s],
           inputSize'[s] = inputSize[s], test'[s] = test[s], at'[s] = at[s],
           s \in drilled' <=> s \in drilled, s \in states' <=> s \in states,
           s \in sigStates' <=> s \in sigStates,
           at[s] \in {"need", "run"} => UNCHANGED <<pos, sigStates, cfg>>
    PROVE  Data(s)'
<1>1. Fresh(s)' <=> Fresh(s)
  BY Zenon DEF Fresh
<1>2. SigData(s)' <=> SigData(s)
  BY Zenon DEF SigData
<1>3. at[s] = "run" => (RunData(s)' <=> RunData(s))
  BY Zenon DEF RunData, Met, Filtering, Room
<1>4. at[s] = "need" => pos' = pos
  BY Zenon
<1> QED BY <1>1, <1>2, <1>3, <1>4, Zenon DEF Data

LEMMA SameStates ==
    ASSUME DataInv,
           UNCHANGED <<sigStates, conHash, conInMain, inputSize, test, drilled, states, pos, cfg>>,
           \A s \in WorkId : at'[s] = at[s]
    PROVE  \A s \in WorkId : Data(s)'
  BY SameData, Zenon DEF DataInv

-----------------------------------------------------------------------------
(* afl-fuzz, the executor and the loop of isRedundant.                     *)
LEMMA OutsideData ==
    ASSUME Inv, DataInv,
           (\E t \in Test : SendOrder(t)) \/ StateSwitch \/ WaitWorkState \/ UNCHANGED vars
    PROVE  DataInv'
<1>1. UNCHANGED <<sigStates, conHash, conInMain, inputSize, test, drilled, states, pos, cfg,
                  todo, vT, vF>>
  BY Zenon DEF SendOrder, StateSwitch, WaitWorkState, filterVars, workVars, vars, pluginVars
<1>2. /\ \A s \in WorkId : at'[s] = at[s]
      /\ at'[0] = "verify" <=> at[0] = "verify"
  <2>1. CASE WaitWorkState
    <3>1. at' = at \/ (at[0] = "yield" /\ at' = [at EXCEPT ![0] = "wait"])
      BY <2>1, Zenon DEF WaitWorkState
    <3> QED BY <3>1, NotSeed, Zenon DEF Inv, Types, TypeAt, StateId
  <2>2. CASE ~WaitWorkState
    BY <2>2, Zenon DEF SendOrder, StateSwitch, vars, pluginVars
  <2> QED BY <2>1, <2>2, Zenon
<1>3. \A s \in WorkId : Data(s)'
  BY <1>1, <1>2, SameStates, Zenon
<1>4. Verified'
  <2>1. CASE \E t \in Test : SendOrder(t)
    <3>1. ready /\ at'[0] = at[0]
      BY <2>1, Zenon DEF SendOrder
    <3>2. at[0] # "verify"
      BY <3>1, Zenon DEF Inv, Scheduling, Idle, Busy
    <3>3. vT = {} /\ vF = {} /\ todo = {}
      BY <3>2, Zenon DEF Inv, Phases, DataInv, Verified
    <3> QED BY <1>1, <3>3, Zenon DEF Verified
  <2>2. CASE ~(\E t \in Test : SendOrder(t))
    <3>1. file' = file
      BY <2>2, Zenon DEF StateSwitch, WaitWorkState, aflVars, vars, pluginVars
    <3> QED BY <1>1, <1>2, <3>1, Zenon DEF Verified, DataInv, Holds
  <2> QED BY <2>1, <2>2, Zenon
<1> QED BY <1>3, <1>4, Zenon DEF DataInv

LEMMA WaitAflTestcaseData == ASSUME Inv, DataInv, WaitAflTestcase PROVE DataInv'
<1>1. UNCHANGED <<sigStates, conHash, conInMain, inputSize, test, drilled, states, pos, cfg,
                  vT, vF, file>>
  BY Zenon DEF WaitAflTestcase, filterVars, workVars
<1>2. at[0] = "wait" /\ \A s \in WorkId : at'[s] = at[s]
  BY NotSeed, Zenon DEF WaitAflTestcase, Inv, Types, TypeAt, StateId
<1>3. vT = {} /\ vF = {}
  BY <1>2, Zenon DEF DataInv, Verified
<1>4. todo' \in {todo, {}, SameLen(Size[file])}
  BY Zenon DEF WaitAflTestcase, filterVars
<1>5. Verified'
  BY <1>1, <1>3, <1>4, Zenon DEF DataInv, Verified, SameLen
<1> QED BY <1>1, <1>2, <1>5, SameStates, Zenon DEF DataInv

LEMMA VerifyStateData == ASSUME NEW s \in WorkId, Inv, DataInv, VerifyState(s) PROVE DataInv'
<1>1. UNCHANGED <<sigStates, conHash, conInMain, inputSize, test, drilled, states, pos, cfg,
                  at, file>> /\ at[0] = "verify"
  BY Zenon DEF VerifyState, Verifying, workVars, aflVars
<1>2. s \in todo /\ s \in states
  BY Zenon DEF VerifyState, Inv, Phases, Scheduling, Idle, Busy
<1>3. VerifyOther(s, file)
  BY <1>2, Zenon DEF VerifyState
<1>4. todo' \subseteq todo
  BY <1>3, Zenon DEF VerifyOther
<1>5. /\ \A e \in vT' : Holds(e, file)
      /\ \A e \in vF' : ~Holds(e, file) /\ e.c \notin Lib
  <2>1. CASE KnownFalse(s)
    BY <1>3, <2>1, Zenon DEF VerifyOther, DataInv, Verified
  <2>2. CASE ~KnownFalse(s)
    <3>1. PICK e \in FalseIn(s, file), pre \in SUBSET (conInMain[s] \ FalseIn(s, file)) :
             vT' = vT \cup pre /\ vF' = vF \cup {e}
      BY <1>3, <2>2, Zenon DEF VerifyOther
    <3>2. ~Holds(e, file) /\ e.c \notin Lib
      BY Zenon DEF FalseIn, DataInv, Verified, Data
    <3>3. \A d \in pre : Holds(d, file)
      BY Zenon DEF FalseIn, DataInv, Verified
    <3> QED BY <3>1, <3>2, <3>3, Zenon DEF DataInv, Verified
  <2> QED BY <2>1, <2>2, Zenon
<1>6. Verified'
  <2>1. \A e : Holds(e, file)' <=> Holds(e, file)
    BY <1>1, Zenon DEF Holds
  <2> QED BY <1>1, <1>4, <1>5, <2>1, Zenon DEF DataInv, Verified
<1> QED BY <1>1, <1>6, SameStates, Zenon DEF DataInv

LEMMA LoopEndData ==
    ASSUME Inv, DataInv, NotRedundant \/ \E s \in WorkId : ReportRedundant(s)
    PROVE  DataInv'
<1>1. UNCHANGED <<sigStates, conHash, conInMain, inputSize, test, drilled, states, pos, cfg>>
  BY Zenon DEF NotRedundant, ReportRedundant, workVars
<1>2. \A s \in WorkId : at'[s] = at[s]
  BY NotSeed, Zenon DEF NotRedundant, ReportRedundant, Inv, Types, TypeAt, StateId
<1>3. vT' = {} /\ vF' = {} /\ todo' = {}
  BY Zenon DEF NotRedundant, ReportRedundant, VerifySame
<1> QED BY <1>1, <1>2, <1>3, SameStates, Zenon DEF DataInv, Verified

-----------------------------------------------------------------------------
(* The states that come and go.                                            *)
LEMMA UpdateHotStatesData ==
    ASSUME NEW s \in WorkId, Inv, DataInv, UpdateHotStates(s)
    PROVE  DataInv'
<1>1. /\ s \in sigStates /\ cur = 0 /\ at[0] = "verify"
      /\ conHash'   = [conHash EXCEPT ![s] = {}]
      /\ conInMain' = [conInMain EXCEPT ![s] = {}]
      /\ inputSize' = [inputSize EXCEPT ![s] = -1]
      /\ test' = [test EXCEPT ![s] = NoTest] /\ drilled' = drilled \ {s}
      /\ at' = [at EXCEPT ![0] = "fork", ![s] = "none"]
      /\ states' = states \ {s} /\ sigStates' = sigStates \ {s}
      /\ vT' = {} /\ vF' = {} /\ todo = {} /\ todo' = todo
  BY Zenon DEF UpdateHotStates, Verifying
<1>2. Data(s)'
  <2>1. Fresh(s)' /\ at'[s] = "none" /\ s \notin sigStates' /\ conInMain'[s] = {}
    BY <1>1, NotSeed, Zenon DEF Fresh, Inv, Types, TypeAt, TypeExprs, TypeSizes, StateId
  <2> QED BY <2>1, Zenon DEF Data
<1>3. ASSUME NEW v \in WorkId \ {s} PROVE Data(v)'
  <2>1. at[v] \notin {"need", "run"}
    <3>1. Idle
      BY <1>1, Zenon DEF Inv, Scheduling, Busy
    <3> QED BY <3>1, NotSeed, Zenon DEF Inv, Phases, Idle
  <2>2. /\ conHash'[v] = conHash[v] /\ conInMain'[v] = conInMain[v]
        /\ inputSize'[v] = inputSize[v] /\ test'[v] = test[v] /\ at'[v] = at[v]
        /\ v \in drilled' <=> v \in drilled
        /\ v \in states' <=> v \in states
        /\ v \in sigStates' <=> v \in sigStates
    BY <1>1, NotSeed, Zenon DEF Inv, Types, TypeAt, TypeTests, TypeExprs, TypeSizes, StateId
  <2> QED BY <2>1, <2>2, SameData, Zenon DEF DataInv
<1>4. Verified'
  BY <1>1, Zenon DEF Verified
<1> QED BY <1>2, <1>3, <1>4, Zenon DEF DataInv

LEMMA ForkWorkStateData ==
    ASSUME NEW w \in WorkId, Inv, DataInv, ForkWorkState(w)
    PROVE  DataInv'
<1>1. /\ at[0] = "fork" /\ w \notin states \cup sigStates
      /\ states' = states \cup {w} /\ at' = [at EXCEPT ![0] = "yield", ![w] = "need"]
      /\ test' = [test EXCEPT ![w] = file] /\ pos' = 0
      /\ UNCHANGED <<sigStates, conHash, conInMain, inputSize, drilled, todo, vT, vF>>
  BY Zenon DEF ForkWorkState, filterVars
<1>2. Data(w)'
  <2>1. Fresh(w)' /\ at'[w] = "need" /\ w \notin sigStates' /\ conInMain'[w] = {}
    BY <1>1, NotSeed, Zenon DEF DataInv, Data, Fresh, Inv, Types, TypeAt, StateId
  <2> QED BY <1>1, <2>1, Zenon DEF Data
<1>3. ASSUME NEW v \in WorkId \ {w} PROVE Data(v)'
  <2>1. at[v] \notin {"need", "run"}
    <3>1. Idle
      BY <1>1, Zenon DEF Inv, Scheduling, Busy
    <3> QED BY <3>1, NotSeed, Zenon DEF Inv, Phases, Idle
  <2>2. /\ test'[v] = test[v] /\ at'[v] = at[v]
        /\ v \in states' <=> v \in states
    BY <1>1, NotSeed, Zenon DEF Inv, Types, TypeAt, TypeTests, StateId
  <2> QED BY <1>1, <2>1, <2>2, SameData, Zenon DEF DataInv
<1>4. Verified'
  <2>1. vT = {} /\ vF = {} /\ todo = {}
    BY <1>1, Zenon DEF Inv, Phases, DataInv, Verified
  <2> QED BY <1>1, <2>1, Zenon DEF Verified
<1> QED BY <1>2, <1>3, <1>4, Zenon DEF DataInv

(* The actions of the work state: the seed waits meanwhile.                *)
LEMMA OneRuns ==
    ASSUME Inv, NEW w \in WorkId, Busy(w)
    PROVE  /\ \A v \in WorkId \ {w} : at[v] \notin {"need", "run"}
           /\ todo = {} /\ w \in states /\ w \notin sigStates
  BY NotSeed, Zenon DEF Inv, Phases, Busy

LEMMA EmptyLoop ==
    ASSUME Inv, NEW w \in WorkId, Busy(w), DataInv, UNCHANGED <<todo, vT, vF>>
    PROVE  Verified'
<1>1. vT = {} /\ vF = {} /\ todo = {}
  BY OneRuns, Zenon DEF DataInv, Verified, Busy
<1> QED BY <1>1, Zenon DEF Verified

LEMMA IsNeedSymbexData ==
    ASSUME NEW w \in WorkId, Inv, DataInv, IsNeedSymbex(w)
    PROVE  DataInv'
<1>1. cur = w /\ at[w] = "need" /\ Busy(w)
  BY WorkBusy, Zenon DEF IsNeedSymbex
<1>2. /\ inputSize' = IF Filtering /\ (Room \/ DrillRun)
                      THEN [inputSize EXCEPT ![w] = InputSize(test[w])] ELSE inputSize
      /\ at' = [at EXCEPT ![w] = "run"]
      /\ UNCHANGED <<sigStates, conHash, conInMain, test, drilled, states, pos, cfg, todo, vT, vF>>
  BY Zenon DEF IsNeedSymbex, loopVars, workVars
<1>3. Fresh(w) /\ pos = 0
  BY <1>1, Zenon DEF DataInv, Data
<1>4. Data(w)'
  <2>1. at'[w] = "run" /\ w \in states' /\ w \notin sigStates' /\ conInMain'[w] = {}
    BY <1>1, <1>2, <1>3, OneRuns, Zenon DEF Fresh, Inv, Types, TypeAt, StateId
  <2>2. Met(w)' = {}
    <3>1. pos' = 0
      BY <1>2, <1>3, Zenon
    <3>2. 1 .. pos' = {}
      BY ONLY <3>1
    <3> QED BY ONLY <3>2, Zenon DEF Met
  <2>3. /\ conHash'[w] = {} /\ conInMain'[w] = {}
        /\ Hashes({}, test'[w]) = {} /\ InMain({}, test'[w]) = {}
    BY <1>2, <1>3, Zenon DEF Fresh, Hashes, InMain
  <2>4. \/ inputSize'[w] = InputSize(test'[w])
        \/ inputSize'[w] = -1 /\ (Filtering => ~Room)
    BY <1>2, <1>3, Zenon DEF Fresh, Inv, Types, TypeSizes, StateId
  <2>5. (Filtering => ~Room) => (Filtering => ~Room)'
    BY <1>2, Zenon DEF Filtering, Room
  <2>6. pos' \in 0 .. Len(Path[test'[w]])
    <3>1. Path[test[w]] \in Seq(Cond)
      BY <1>1, FilterAssumption, Zenon DEF Busy
    <3>2. Len(Path[test[w]]) \in Nat
      BY <3>1
    <3> QED BY <1>2, <1>3, <3>2
  <2>7. RunData(w)'
    BY <2>2, <2>3, <2>4, <2>5, <2>6, Zenon DEF RunData
  <2> QED BY <2>1, <2>7, Zenon DEF Data
<1>5. ASSUME NEW v \in WorkId \ {w} PROVE Data(v)'
  <2>1. inputSize'[v] = inputSize[v] /\ at'[v] = at[v]
    BY <1>2, Zenon DEF Inv, Types, TypeAt, TypeSizes, StateId
  <2> QED BY <1>1, <1>2, <2>1, OneRuns, SameData, Zenon DEF DataInv
<1>6. Verified'
  BY <1>1, <1>2, EmptyLoop, Zenon
<1> QED BY <1>4, <1>5, <1>6, Zenon DEF DataInv

LEMMA BranchData ==
    ASSUME NEW w \in WorkId, Inv, DataInv, Branch(w)
    PROVE  DataInv'
<1>1. cur = w /\ at[w] = "run" /\ Busy(w)
  BY WorkBusy, Zenon DEF Branch, Running
<1> DEFINE t == test[w]
           c == Path[t][pos + 1]
<1>2. /\ pos < Len(Path[t]) /\ pos' = pos + 1
      /\ \E forked, mayFork \in BOOLEAN :
           /\ forked => mayFork
           /\ conHash' = IF mayFork /\ ~forked THEN conHash
                         ELSE [conHash EXCEPT ![w] = @ \cup {Constraint(c, t)}]
           /\ conInMain' = IF c \in Lib THEN conInMain
                           ELSE [conInMain EXCEPT ![w] = @ \cup {Reported(c, t, forked)}]
           /\ drilled' = IF mayFork THEN drilled \cup {w} ELSE drilled
      /\ UNCHANGED <<sigStates, inputSize, test, at, states, cfg, todo, vT, vF>>
  BY Zenon DEF Branch, loopVars
<1>3. RunData(w) /\ \A e \in conInMain[w] : e.c \notin Lib
  BY <1>1, Zenon DEF DataInv, Data
<1>4. pos \in Nat /\ Len(Path[t]) \in Nat
  <2>1. Path[t] \in Seq(Cond)
    BY <1>1, FilterAssumption, Zenon DEF Busy
  <2>2. Len(Path[t]) \in Nat
    BY ONLY <2>1
  <2>3. pos \in Nat
    BY Zenon DEF Inv, Types, TypeCounters
  <2> QED BY <2>2, <2>3, Zenon
<1>5. Met(w)' = Met(w) \cup {c}
  <2>1. \A i : i \in 1 .. pos + 1 <=> i \in 1 .. pos \/ i = pos + 1
    BY ONLY <1>4
  <2>2. pos' = pos + 1 /\ test' = test
    BY <1>2, Zenon
  <2> QED BY <2>1, <2>2, Zenon DEF Met
<1>6. pos' \in 0 .. Len(Path[t])
  BY ONLY <1>2, <1>4
<1>7. PICK forked \in BOOLEAN, mayFork \in BOOLEAN :
        /\ forked => mayFork
        /\ conHash' = IF mayFork /\ ~forked THEN conHash
                      ELSE [conHash EXCEPT ![w] = @ \cup {Constraint(c, t)}]
        /\ conInMain' = IF c \in Lib THEN conInMain
                        ELSE [conInMain EXCEPT ![w] = @ \cup {Reported(c, t, forked)}]
        /\ drilled' = IF mayFork THEN drilled \cup {w} ELSE drilled
  BY <1>2, Zenon
<1> HIDE DEF c
<1>8. Data(w)'
  <2>1. at'[w] = "run" /\ w \in states' /\ w \notin sigStates' /\ test'[w] = t
        /\ inputSize'[w] = inputSize[w]
    BY <1>1, <1>2, OneRuns, Zenon
  <2>2. /\ conHash'[w] \subseteq Hashes(Met(w)', t)
        /\ w \notin drilled' => conHash'[w] = Hashes(Met(w)', t)
    <3>1. conHash'[w] = IF mayFork /\ ~forked THEN conHash[w]
                        ELSE conHash[w] \cup {Constraint(c, t)}
      BY <1>7, Zenon DEF Inv, Types, TypeExprs, StateId
    <3>2. Hashes(Met(w)', t) = Hashes(Met(w), t) \cup {Constraint(c, t)}
      BY <1>5, Zenon DEF Hashes
    <3>3. w \notin drilled' => ~mayFork /\ w \notin drilled
      BY <1>7, Zenon
    <3>4. /\ conHash[w] \subseteq Hashes(Met(w), t)
          /\ w \notin drilled => conHash[w] = Hashes(Met(w), t)
      BY <1>3, Zenon DEF RunData
    <3> QED BY ONLY <3>1, <3>2, <3>3, <3>4, Zenon
  <2>3. conInMain'[w] = IF c \in Lib THEN conInMain[w]
                        ELSE conInMain[w] \cup {Reported(c, t, forked)}
    BY <1>7, Zenon DEF Inv, Types, TypeExprs, StateId
  <2>4. w \notin drilled' => conInMain'[w] = InMain(Met(w)', t)
    <3> SUFFICES ASSUME w \notin drilled' PROVE conInMain'[w] = InMain(Met(w)', t)
      BY Zenon
    <3>1. forked = FALSE /\ w \notin drilled
      BY <1>7, Zenon
    <3>2. conInMain[w] = InMain(Met(w), t)
      BY <1>3, <3>1, Zenon DEF RunData
    <3> QED BY <1>5, <2>3, <3>1, <3>2, Zenon DEF InMain
  <2>5. \A e \in conInMain'[w] : e.c \notin Lib
    <3>1. Reported(c, t, forked).c = c
      BY ONLY Zenon DEF Reported
    <3>2. \A e \in conInMain[w] : e.c \notin Lib
      BY <1>3, Zenon
    <3> QED BY ONLY <2>3, <3>1, <3>2, Zenon
  <2>6. (Filtering => ~Room) => (Filtering => ~Room)'
    BY <1>2, Zenon DEF Filtering, Room
  <2>7. RunData(w)'
    BY <1>3, <1>6, <2>1, <2>2, <2>4, <2>6, Zenon DEF RunData
  <2> QED BY <2>1, <2>5, <2>7, Zenon DEF Data
<1>9. ASSUME NEW v \in WorkId \ {w} PROVE Data(v)'
  <2>1. /\ conHash'[v] = conHash[v] /\ conInMain'[v] = conInMain[v]
        /\ v \in drilled' <=> v \in drilled
    BY <1>2, <1>7, Zenon DEF Inv, Types, TypeExprs, StateId
  <2> QED BY <1>1, <1>2, <2>1, OneRuns, SameData, Zenon DEF DataInv
<1>10. Verified'
  BY <1>1, <1>2, EmptyLoop, Zenon
<1> QED BY <1>8, <1>9, <1>10, Zenon DEF DataInv

(* A state that ended its run and is not merged has run symbolically: the  *)
(* room there was for it when it started is still there.                   *)
LEMMA CompleteRun ==
    ASSUME Sizes, NEW w \in WorkId, Inv, DataInv, Ended(w), Filtering, ~Merged(w)
    PROVE  SigData(w)
<1>1. at[w] = "run" /\ cur = w /\ Busy(w)
  BY WorkBusy, Zenon DEF Ended, Running
<1>2. RunData(w) /\ test[w] \in Test
  BY <1>1, Zenon DEF DataInv, Data, Busy
<1>3. Room
  <2>1. Cardinality(sigStates) \in Nat
    BY Zenon DEF Inv, SigCount, Sizes
  <2>2. ~(Cardinality(sigStates) + 1 >= MaxStates)
    BY Zenon DEF Merged
  <2>3. Cardinality(sigStates) < MaxStates - 1
    BY ONLY <2>1, <2>2, Numbers
  <2> QED BY <2>3, Zenon DEF Room
<1>4. inputSize[w] = InputSize(test[w])
  BY <1>2, <1>3, Zenon DEF RunData
<1>5. pos = Len(Path[test[w]])
  <2>1. InputSize(test[w]) \in Nat
    BY <1>2, InputSizeNat, Zenon
  <2>2. InputSize(test[w]) # -1
    BY ONLY <2>1
  <2> QED BY <1>4, <2>2, Zenon DEF Ended, Symbolic
<1>6. Met(w) = Range(Path[test[w]])
  <2>1. Path[test[w]] \in Seq(Cond)
    BY <1>2, FilterAssumption, Zenon
  <2>2. DOMAIN Path[test[w]] = 1 .. Len(Path[test[w]])
    BY <2>1
  <2> QED BY <1>5, <2>2, Zenon DEF Met, Range
<1> QED BY <1>2, <1>4, <1>6, Zenon DEF RunData, SigData

LEMMA TellAflData ==
    ASSUME Sizes, NEW w \in WorkId, NEW f, NEW reserve \in BOOLEAN, NEW kills \in BOOLEAN,
           NEW next, DataInv, TellAflCase(w, f, reserve, kills, next), kills \/ Ended(w)
    PROVE  DataInv'
<1> DEFINE Gone == /\ sigStates' = sigStates /\ cur' = 0
                   /\ states' = states \ {w} /\ Forget(w)
           Kept == /\ ~kills /\ Filtering /\ ~Merged(w)
                   /\ sigStates' = sigStates \cup {w} /\ cur' = w /\ states' = states
                   /\ at' = [at EXCEPT ![w] = "kept"] /\ UNCHANGED keepVars
<1>1. Busy(w) /\ (Gone \/ Kept)
  BY TellAflEffect, ZenonT(60) DEF TellAflCase, TellAfl, Gone, Kept
<1>2. Inv /\ UNCHANGED <<todo, vT, vF>> /\ at[w] = "run"
  BY Zenon DEF TellAflCase, tellFrame, loopVars
<1>3. Verified'
  BY <1>1, <1>2, EmptyLoop, Zenon
<1>4. CASE Gone
  <2>1. /\ at' = [at EXCEPT ![w] = "none"] /\ states' = states \ {w}
        /\ test' = [test EXCEPT ![w] = NoTest] /\ drilled' = drilled \ {w}
        /\ conHash' = [conHash EXCEPT ![w] = {}] /\ conInMain' = [conInMain EXCEPT ![w] = {}]
        /\ inputSize' = [inputSize EXCEPT ![w] = -1] /\ sigStates' = sigStates
    BY <1>4, Zenon DEF Forget
  <2>2. Data(w)'
    <3>1. Fresh(w)' /\ at'[w] = "none" /\ w \notin sigStates' /\ conInMain'[w] = {}
      BY <1>1, <1>2, <2>1, OneRuns, Zenon DEF Fresh, Inv, Types, TypeAt, TypeExprs, TypeSizes, StateId
    <3> QED BY <3>1, Zenon DEF Data
  <2>3. ASSUME NEW v \in WorkId \ {w} PROVE Data(v)'
    <3>1. /\ conHash'[v] = conHash[v] /\ conInMain'[v] = conInMain[v]
          /\ inputSize'[v] = inputSize[v] /\ test'[v] = test[v] /\ at'[v] = at[v]
          /\ v \in drilled' <=> v \in drilled
          /\ v \in states' <=> v \in states
          /\ v \in sigStates' <=> v \in sigStates
      BY <1>2, <2>1, Zenon DEF Inv, Types, TypeAt, TypeTests, TypeExprs, TypeSizes, StateId
    <3> QED BY <1>1, <1>2, <3>1, OneRuns, SameData, Zenon DEF DataInv
  <2> QED BY <1>3, <2>2, <2>3, Zenon DEF DataInv
<1>5. CASE Kept
  <2>1. /\ UNCHANGED <<conHash, conInMain, inputSize, test, drilled, states>>
        /\ sigStates' = sigStates \cup {w} /\ at' = [at EXCEPT ![w] = "kept"]
    BY <1>5, Zenon DEF keepVars
  <2>2. Ended(w)
    BY <1>5, Zenon
  <2>3. SigData(w)
    BY <1>2, <1>5, <2>2, CompleteRun, Zenon
  <2>4. Data(w)'
    <3>1. w \in states' /\ at'[w] = "kept"
      BY <1>1, <1>2, <2>1, OneRuns, Zenon DEF Inv, Types, TypeAt, StateId
    <3>2. SigData(w)'
      BY <2>1, <2>3, Zenon DEF SigData
    <3>3. \A e \in conInMain'[w] : e.c \notin Lib
      BY <2>1, Zenon DEF DataInv, Data
    <3> QED BY <3>1, <3>2, <3>3, Zenon DEF Data
  <2>5. ASSUME NEW v \in WorkId \ {w} PROVE Data(v)'
    <3>1. at'[v] = at[v] /\ (v \in sigStates' <=> v \in sigStates)
      BY <1>2, <2>1, Zenon DEF Inv, Types, TypeAt, StateId
    <3> QED BY <1>1, <1>2, <2>1, <3>1, OneRuns, SameData, ZenonT(60) DEF DataInv
  <2> QED BY <1>3, <2>4, <2>5, Zenon DEF DataInv
<1> QED BY <1>1, <1>4, <1>5, Zenon

LEMMA TellData ==
    ASSUME FilterFaults = FALSE, Sizes, NEW w \in WorkId, Inv, DataInv,
           ProcessUnload(w) \/ Fault(w) \/ WorkStateTimeout(w)
    PROVE  DataInv'
<1>1. CASE ProcessUnload(w)
  BY <1>1, ProcessUnloadCase, TellAflData, Zenon DEF TellAflCase, TellAfl
<1>2. CASE Fault(w)
  BY <1>2, FaultCase, TellAflData, Zenon DEF TellAflCase, TellAfl
<1>3. CASE WorkStateTimeout(w)
  BY <1>3, WorkStateTimeoutCase, TellAflData, Zenon DEF TellAflCase, TellAfl
<1> QED BY <1>1, <1>2, <1>3, Zenon

LEMMA DataStep == ASSUME FilterFaults = FALSE, Sizes, Inv, DataInv, [Next]_vars PROVE DataInv'
<1>1. CASE \/ \E t \in Test : SendOrder(t)
           \/ StateSwitch \/ WaitWorkState \/ UNCHANGED vars
  BY <1>1, OutsideData, Zenon
<1>2. CASE WaitAflTestcase
  BY <1>2, WaitAflTestcaseData, Zenon
<1>3. CASE NotRedundant
  BY <1>3, LoopEndData, Zenon
<1>4. ASSUME NEW w \in WorkId,
             \/ VerifyState(w) \/ ReportRedundant(w) \/ UpdateHotStates(w) \/ ForkWorkState(w)
      PROVE  DataInv'
  BY <1>4, VerifyStateData, LoopEndData, UpdateHotStatesData, ForkWorkStateData, Zenon
<1>5. ASSUME NEW w \in WorkId,
             \/ IsNeedSymbex(w) \/ Branch(w)
             \/ ProcessUnload(w) \/ Fault(w) \/ WorkStateTimeout(w)
      PROVE  DataInv'
  BY <1>5, IsNeedSymbexData, BranchData, TellData, Zenon
<1> QED BY <1>1, <1>2, <1>3, <1>4, <1>5, Zenon DEF Next, Qemu

(* A file that symbfile makes symbolic in one go.                          *)
LEMMA OneChunk == ASSUME NEW t \in Test, Size[t] <= Chunk PROVE InputSize(t) = Size[t]
<1>1. Size[t] \in Nat /\ Chunk \in Nat /\ Chunk > 0
  BY FilterAssumption
<1>2. CASE Size[t] = 0
  BY <1>2, Zenon DEF InputSize
<1>3. CASE Size[t] # 0
  <2>1. Size[t] - 1 \in 0 .. Chunk - 1
    BY ONLY <1>1, <1>3, Size[t] <= Chunk
  <2>2. \A n, k \in Nat : n < k => n % k = n
    OBVIOUS
  <2>3. Size[t] - 1 \in Nat /\ Size[t] - 1 < Chunk
    BY ONLY <1>1, <2>1
  <2>4. (Size[t] - 1) % Chunk = Size[t] - 1
    BY ONLY <1>1, <2>2, <2>3, Zenon
  <2> QED BY ONLY <1>1, <1>3, <2>4 DEF InputSize
<1> QED BY <1>2, <1>3, Zenon

(* What makes the filter exact: whatever has been verified of other states *)
(* is right for the testcase, the constraints of s are those of its path,  *)
(* and the reported conditions are those in the main image.                *)
LEMMA VerdictExact ==
    ASSUME Inv, DataInv, NEW s \in sigStates, s \notin drilled
    PROVE  SamePath(s, file) <=>
             \A c \in Range(Path[test[s]]) \ Lib : c \in Val[file] <=> c \in Val[test[s]]
<1> DEFINE C == Range(Path[test[s]])
           same == \A c \in C \ Lib : c \in Val[file] <=> c \in Val[test[s]]
<1>1. SigData(s)
  BY Zenon DEF Inv, Types, TypeStates, DataInv, Data
<1>2. conHash[s] = Hashes(C, test[s]) /\ conInMain[s] = InMain(C, test[s])
  BY <1>1, Zenon DEF SigData
<1>3. /\ \A e \in vT : Holds(e, file)
      /\ \A e \in vF : ~Holds(e, file) /\ e.c \notin Lib
  BY Zenon DEF DataInv, Verified
<1> HIDE DEF C
<1>4. ASSUME NEW c
      PROVE  /\ Constraint(c, test[s]).c = c
             /\ Holds(Constraint(c, test[s]), file) <=> (c \in Val[file] <=> c \in Val[test[s]])
  <2>1. CASE c \in Val[test[s]]
    <3>1. Constraint(c, test[s]) = [c |-> c, form |-> "is"]
      BY <2>1, Zenon DEF Constraint
    <3> QED BY <2>1, <3>1 DEF Holds
  <2>2. CASE c \notin Val[test[s]]
    <3>1. Constraint(c, test[s]) = [c |-> c, form |-> "zero"]
      BY <2>2, Zenon DEF Constraint
    <3> QED BY <2>2, <3>1 DEF Holds
  <2> QED BY <2>1, <2>2, Zenon
<1>5. ASSUME NEW c
      PROVE  Holds(Reported(c, test[s], FALSE), file) <=> (c \in Val[file] <=> c \in Val[test[s]])
  <2>1. CASE c \in Val[test[s]]
    <3>1. Reported(c, test[s], FALSE) = [c |-> c, form |-> "is"]
      BY <2>1, Zenon DEF Reported
    <3>2. Holds([c |-> c, form |-> "is"], file) <=> c \in Val[file]
      BY Zenon DEF Holds
    <3> QED BY <2>1, <3>1, <3>2, Zenon
  <2>2. CASE c \notin Val[test[s]]
    <3>1. Reported(c, test[s], FALSE) = [c |-> c, form |-> "not"]
      BY <2>2, Zenon DEF Reported
    <3>2. Holds([c |-> c, form |-> "not"], file) <=> c \notin Val[file]
      BY Zenon DEF Holds
    <3> QED BY <2>2, <3>1, <3>2, Zenon
  <2> QED BY <2>1, <2>2, Zenon
<1>6. FalseIn(s, file) = {} <=> same
  <2>1. FalseIn(s, file) = {} <=> \A e \in conInMain[s] : Holds(e, file)
    BY <1>3, Zenon DEF FalseIn
  <2>2. (\A e \in conInMain[s] : Holds(e, file))
          <=> \A c \in C \ Lib : Holds(Reported(c, test[s], FALSE), file)
    BY <1>2, Zenon DEF InMain
  <2> QED BY <1>5, <2>1, <2>2, Zenon
<1>7. KnownFalse(s) => ~same
  <2> SUFFICES ASSUME KnownFalse(s) PROVE ~same
    BY Zenon
  <2>1. PICK e \in conHash[s] : e \in vF
    BY Zenon DEF KnownFalse
  <2>2. PICK c \in C : e = Constraint(c, test[s])
    BY <1>2, Zenon DEF Hashes
  <2>3. c \notin Lib /\ ~Holds(Constraint(c, test[s]), file)
    BY <1>3, <1>4, <2>1, <2>2, Zenon
  <2> QED BY <1>4, <2>3, Zenon
<1>8. KnownTrue(s) => same
  <2> SUFFICES ASSUME KnownTrue(s), NEW c \in C PROVE c \in Val[file] <=> c \in Val[test[s]]
    BY Zenon
  <2>1. Constraint(c, test[s]) \in conHash[s]
    BY <1>2, Zenon DEF Hashes
  <2>2. Holds(Constraint(c, test[s]), file)
    BY <1>3, <2>1, Zenon DEF KnownTrue
  <2> QED BY <1>4, <2>2, Zenon
<1> QED BY <1>6, <1>7, <1>8, Zenon DEF SamePath, C

LEMMA ExactNow ==
    ASSUME Inv, DataInv, \A t \in Test : Size[t] <= Chunk
    PROVE  FilterExact
<1> SUFFICES ASSUME Verifying, NEW s \in todo \ drilled
             PROVE  SamePath(s, file) <=> SameBranches(s, file)
  BY Zenon DEF FilterExact
<1>1. s \in sigStates /\ s \in WorkId
  BY Zenon DEF Inv, Phases, Types, TypeStates
<1>2. SigData(s) /\ inputSize[s] = Size[file]
  BY <1>1, Zenon DEF DataInv, Data, Verified
<1>3. Size[test[s]] = Size[file]
  BY <1>2, OneChunk, Zenon DEF SigData
<1> QED BY <1>1, <1>3, VerdictExact, Zenon DEF SameBranches, Alike

-----------------------------------------------------------------------------
(* QEMU as a TestWorker.  The testcase is in the file until the work state *)
(* has its copy, and only drill runs fork.                                 *)
OnDisk  == ~ready /\ order = "" /\ at[0] = "yield" => file = NoTest
Forking == forking \/ drilled # {} => cfg.useDrill
TaskInv == OnDisk /\ Forking

(* What the end of a test, in one of three ways, is to TestWorker.         *)
Told(w) ==
    /\ Busy(w) /\ ready' = TRUE /\ cfg' = cfg /\ forking' = forking
    /\ cover_new' \in {0, 1} \/ (test[w] \in Crash /\ cover_new' = 2)
    /\ \/ /\ sigStates' = sigStates
          /\ test' = [test EXCEPT ![w] = NoTest] /\ drilled' = drilled \ {w}
       \/ /\ test[w] \notin Crash
          /\ sigStates' = sigStates \cup {w} /\ test' = test /\ drilled' = drilled

LEMMA TellAflTold ==
    ASSUME NEW w \in WorkId, NEW f, NEW reserve \in BOOLEAN, NEW kills \in BOOLEAN, NEW next,
           TellAflCase(w, f, reserve, kills, next),
           kills \/ test[w] \notin Crash, f = "NONE" \/ test[w] \in Crash
    PROVE  Told(w)
<1> DEFINE Gone == /\ sigStates' = sigStates /\ cur' = 0
                   /\ states' = states \ {w} /\ Forget(w)
           Kept == /\ ~kills /\ Filtering /\ ~Merged(w)
                   /\ sigStates' = sigStates \cup {w} /\ cur' = w /\ states' = states
                   /\ at' = [at EXCEPT ![w] = "kept"] /\ UNCHANGED keepVars
<1>1. Busy(w) /\ ready' = TRUE /\ (Gone \/ Kept)
  BY TellAflEffect, ZenonT(60) DEF TellAflCase, TellAfl, Gone, Kept
<1>2. f \in {"NONE", "CRASH"} /\ Report(f) /\ cfg' = cfg /\ forking' = forking
  BY Zenon DEF TellAflCase, TellAfl, tellFrame, workVars
<1>3. cover_new' \in {0, 1} \/ (test[w] \in Crash /\ cover_new' = 2)
  <2>1. Verdicts("NONE") = {0, 1} /\ Verdicts("CRASH") = {0, 1, 2}
    BY Zenon DEF Verdicts
  <2>2. cover_new' \in Verdicts(f)
    BY <1>2, Zenon DEF Report
  <2>3. CASE f = "NONE"
    BY <2>1, <2>2, <2>3, Zenon
  <2>4. CASE f = "CRASH"
    BY <2>1, <2>2, <2>4, Zenon
  <2> QED BY <1>2, <2>3, <2>4, Zenon
<1>4. CASE Gone
  BY <1>1, <1>2, <1>3, <1>4, Zenon DEF Told, Forget
<1>5. CASE Kept
  BY <1>1, <1>2, <1>3, <1>5, Zenon DEF Told, keepVars
<1> QED BY <1>1, <1>4, <1>5, Zenon

LEMMA EndTold ==
    ASSUME FilterFaults = FALSE, Sizes, NEW w \in WorkId, Inv,
           ProcessUnload(w) \/ Fault(w) \/ WorkStateTimeout(w)
    PROVE  Told(w)
<1>1. CASE ProcessUnload(w)
  <2>1. test[w] \notin Crash
    BY <1>1, NeverFaulted, Zenon DEF ProcessUnload
  <2> QED BY <1>1, <2>1, ProcessUnloadCase, TellAflTold, Zenon
<1>2. CASE Fault(w)
  <2>1. test[w] \in Crash
    BY <1>2, Zenon DEF Fault
  <2> QED BY <1>2, <2>1, FaultCase, TellAflTold, Zenon
<1>3. CASE WorkStateTimeout(w)
  BY <1>3, WorkStateTimeoutCase, TellAflTold, Zenon
<1> QED BY <1>1, <1>2, <1>3, Zenon

LEMMA TaskStep ==
    ASSUME FilterFaults = FALSE, Sizes, Inv, TaskInv, [Next]_vars
    PROVE  TaskInv'
<1>1. CASE (\E t \in Test : SendOrder(t)) \/ StateSwitch \/ UNCHANGED vars
  <2>1. UNCHANGED <<cfg, forking, drilled, at>>
    BY <1>1, Zenon DEF SendOrder, StateSwitch, workVars, vars, pluginVars
  <2>2. order' # "" \/ UNCHANGED <<ready, order, file>>
    <3>1. ASSUME NEW t \in Test, SendOrder(t) PROVE order' # ""
      <4>1. cover_new \in {0, 1, 2}
        BY Zenon DEF Inv, Types, TypeAfl
      <4>2. order' = (CASE cover_new = 0 -> "none"
                        [] cover_new = 1 -> "play"
                        [] cover_new = 2 -> "redu")
        BY <3>1, Zenon DEF SendOrder
      <4>3. order' \in {"none", "play", "redu"}
        BY ONLY <4>1, <4>2
      <4> QED BY <4>3, Zenon
    <3>2. CASE StateSwitch
      BY <3>2, Zenon DEF StateSwitch, aflVars
    <3>3. CASE UNCHANGED vars
      BY <3>3, Zenon DEF aflVars, vars, pluginVars
    <3> QED BY <1>1, <3>1, <3>2, <3>3, Zenon
  <2> QED BY <2>1, <2>2, Zenon DEF TaskInv, OnDisk, Forking
<1>2. CASE WaitAflTestcase
  <2>1. /\ UNCHANGED <<cfg, forking, drilled>> /\ at[0] = "wait"
        /\ at' \in {at, [at EXCEPT ![0] = "verify"], [at EXCEPT ![0] = "fork"]}
    BY <1>2, Zenon DEF WaitAflTestcase, workVars
  <2>2. at'[0] # "yield"
    BY <2>1, Zenon DEF Inv, Types, TypeAt, StateId
  <2> QED BY <2>1, <2>2, Zenon DEF TaskInv, OnDisk, Forking
<1>3. CASE NotRedundant
  <2>1. UNCHANGED <<cfg, forking, drilled>> /\ at'[0] = "fork"
    BY <1>3, Zenon DEF NotRedundant, workVars, Inv, Types, TypeAt, StateId
  <2> QED BY <2>1, Zenon DEF TaskInv, OnDisk, Forking
<1>4. CASE WaitWorkState
  <2>1. UNCHANGED <<cfg, forking, drilled, ready, order, file>> /\ at[0] = "yield"
    BY <1>4, Zenon DEF WaitWorkState, workVars, aflVars
  <2> QED BY <2>1, Zenon DEF TaskInv, OnDisk, Forking
<1>5. ASSUME NEW w \in WorkId, VerifyState(w) \/ ReportRedundant(w) PROVE TaskInv'
  <2>1. /\ UNCHANGED <<cfg, forking, drilled>>
        /\ ready' = TRUE \/ (at' = at /\ at[0] = "verify")
    BY <1>5, Zenon DEF VerifyState, ReportRedundant, Verifying, workVars
  <2> QED BY <2>1, Zenon DEF TaskInv, OnDisk, Forking
<1>6. ASSUME NEW w \in WorkId, UpdateHotStates(w) PROVE TaskInv'
  <2>1. UNCHANGED <<cfg, forking>> /\ drilled' \subseteq drilled /\ at'[0] = "fork"
    BY <1>6, NotSeed, Zenon DEF UpdateHotStates, workVars, Inv, Types, TypeAt, StateId
  <2> QED BY <2>1, Zenon DEF TaskInv, OnDisk, Forking
<1>7. ASSUME NEW w \in WorkId, ForkWorkState(w) PROVE TaskInv'
  <2>1. UNCHANGED <<cfg, drilled>> /\ file' = NoTest /\ (forking' => Drilling)
    BY <1>7, Zenon DEF ForkWorkState
  <2> QED BY <2>1, Zenon DEF TaskInv, OnDisk, Forking, Drilling
<1>8. ASSUME NEW w \in WorkId, IsNeedSymbex(w) PROVE TaskInv'
  <2>1. UNCHANGED <<cfg, forking, drilled, ready, order, file>> /\ at'[0] = at[0]
    BY <1>8, NotSeed, Zenon DEF IsNeedSymbex, workVars, aflVars, Inv, Types, TypeAt, StateId
  <2> QED BY <2>1, Zenon DEF TaskInv, OnDisk, Forking
<1>9. ASSUME NEW w \in WorkId, Branch(w) PROVE TaskInv'
  <2>1. /\ UNCHANGED <<cfg, forking, ready, order, file, at>>
        /\ forking \/ drilled' = drilled
    BY <1>9, Zenon DEF Branch, aflVars
  <2> QED BY <2>1, Zenon DEF TaskInv, OnDisk, Forking
<1>10. ASSUME NEW w \in WorkId, ProcessUnload(w) \/ Fault(w) \/ WorkStateTimeout(w)
       PROVE  TaskInv'
  <2>1. Told(w)
    BY <1>10, EndTold, Zenon
  <2>2. UNCHANGED <<cfg, forking>> /\ ready' = TRUE /\ drilled' \subseteq drilled
    BY <2>1, Zenon DEF Told
  <2> QED BY <2>2, Zenon DEF TaskInv, OnDisk, Forking
<1> QED BY <1>1, <1>2, <1>3, <1>4, <1>5, <1>6, <1>7, <1>8, <1>9, <1>10, Zenon DEF Next, Qemu

(* Where the testcase is.                                                  *)
LEMMA WhereTask ==
    ASSUME Inv, OnDisk
    PROVE  /\ ready => Task = NoTest
           /\ Idle /\ ~ready => Task = file /\ file \in Test
           /\ \A w \in WorkId : Busy(w) => Task = test[w] /\ test[w] \in Test /\ ~ready
<1>1. NoTest \notin Test
  BY PluginAssumption, Zenon
<1>2. ASSUME Idle, ~ready PROVE Task = file /\ file \in Test
  <2>1. file \in Test
    BY <1>2, Zenon DEF Inv, Phases, Idle
  <2> QED BY <1>1, <1>2, <2>1, Zenon DEF Task
<1>3. ASSUME NEW w \in WorkId, Busy(w) PROVE Task = test[w] /\ test[w] \in Test /\ ~ready
  <2>1. file = NoTest /\ schedule = <<0, w>> /\ ~ready /\ test[w] \in Test
    BY <1>3, Zenon DEF OnDisk, Busy
  <2>2. schedule[Len(schedule)] = w
    BY <2>1, Sequences1, Zenon
  <2> QED BY <2>1, <2>2, Zenon DEF Task
<1> QED BY <1>2, <1>3, Zenon DEF Task

LEMMA SameKnown ==
    ASSUME sigStates' = sigStates,
           \A s \in sigStates : test'[s] = test[s] /\ (s \in drilled' <=> s \in drilled)
    PROVE  Known' = Known
  BY Zenon DEF Known, SameBranches, Alike

(* Most steps are not seen.                                                *)
LEMMA WorkerUnseen ==
    ASSUME UNCHANGED <<ready, file, schedule, test, cover_new, cfg, sigStates>>,
           \A s \in sigStates : s \in drilled' <=> s \in drilled
    PROVE  UNCHANGED Worker!workerVars
<1>1. Known' = Known
  BY SameKnown, Zenon
<1>2. Task' = Task
  BY Zenon DEF Task
<1> QED BY <1>1, <1>2, Zenon DEF Worker!workerVars

(* SendOrder.                                                              *)
LEMMA WorkerTakes ==
    ASSUME NEW t \in Test, SendOrder(t)
    PROVE  Worker!Take
<1>1. /\ ready /\ ready' = FALSE /\ file' = t /\ cover_new' = 0
      /\ UNCHANGED <<cfg, sigStates, test, drilled>>
  BY Zenon DEF SendOrder, filterVars
<1>2. Known' = Known
  BY <1>1, SameKnown, Zenon
<1>3. Task = NoTest /\ Task' = t
  BY <1>1, PluginAssumption, Zenon DEF Task
<1> QED BY <1>1, <1>2, <1>3, Zenon DEF Worker!Take

(* The end of a test.                                                      *)
LEMMA WorkerRuns ==
    ASSUME NEW w \in WorkId, Inv, TaskInv, Told(w)
    PROVE  Worker!Run
<1>1. Busy(w) /\ w \notin sigStates /\ ready' = TRUE /\ cfg' = cfg
  BY Zenon DEF Told, Busy
<1>2. Task = test[w] /\ test[w] \in Test /\ ~ready /\ test[w] # NoTest
  BY <1>1, WhereTask, PluginAssumption, Zenon DEF TaskInv
<1>3. Task' = NoTest
  BY <1>1, Zenon DEF Task
<1>4. \/ Known' = Known
      \/ test[w] \notin Crash /\ Known' = Known \cup LikeOnes(test[w])
      \/ test[w] \notin Crash /\ cfg.useDrill /\ Known' = Test
  <2>1. CASE sigStates' = sigStates
    <3>1. \/ test' = [test EXCEPT ![w] = NoTest] /\ drilled' = drilled \ {w}
          \/ test' = test /\ drilled' = drilled
      BY Zenon DEF Told
    <3>2. \A s \in sigStates : test'[s] = test[s] /\ (s \in drilled' <=> s \in drilled)
      BY <1>1, <3>1, Zenon DEF Inv, Types, TypeStates, TypeTests, StateId
    <3> QED BY <2>1, <3>2, SameKnown, Zenon
  <2>2. CASE sigStates' # sigStates
    <3>1. /\ test[w] \notin Crash /\ sigStates' = sigStates \cup {w}
          /\ test' = test /\ drilled' = drilled
      BY <2>2, Zenon DEF Told
    <3>2. CASE w \in drilled
      <4>1. cfg.useDrill
        BY <3>2, Zenon DEF TaskInv, Forking
      <4>2. Known' = Test
        BY <3>1, <3>2, Zenon DEF Known
      <4> QED BY <3>1, <4>1, <4>2, Zenon
    <3>3. CASE w \notin drilled
      <4>1. \A t \in Test : SameBranches(w, t)' <=> t \in LikeOnes(test[w])
        BY <3>1, Zenon DEF SameBranches, LikeOnes, Alike
      <4>2. \A s \in sigStates, t \in Test : SameBranches(s, t)' <=> SameBranches(s, t)
        BY <3>1, Zenon DEF SameBranches, Alike
      <4>3. LikeOnes(test[w]) \subseteq Test
        BY Zenon DEF LikeOnes
      <4>4. Known' = Known \cup LikeOnes(test[w])
        BY <3>1, <3>3, <4>1, <4>2, <4>3, Zenon DEF Known
      <4> QED BY <3>1, <4>4, Zenon
    <3> QED BY <3>2, <3>3, Zenon
  <2> QED BY <2>1, <2>2, Zenon
<1>5. cover_new' \in {0, 1} \/ (test[w] \in Crash /\ cover_new' = 2)
  BY Zenon DEF Told
<1> QED BY <1>1, <1>2, <1>3, <1>4, <1>5, Zenon DEF Worker!Run

(* isRedundant finds a state that takes the same path.                     *)
LEMMA WorkerSkips ==
    ASSUME NEW s \in WorkId, Inv, DataInv, TaskInv, ReportRedundant(s),
           \A t \in Test : Size[t] <= Chunk
    PROVE  Worker!Skip
<1>1. /\ Verifying /\ s \in todo /\ SamePath(s, file)
      /\ cover_new' \in Verdicts("REDUNDANT") /\ ready' = TRUE
      /\ UNCHANGED <<sigStates, test, drilled, cfg>>
  BY Zenon DEF ReportRedundant, VerifySame, Report
<1>2. Idle /\ ~ready
  BY <1>1, SeedIdle, Zenon DEF Verifying, Idle
<1>3. Task = file /\ file \in Test
  BY <1>2, WhereTask, Zenon DEF TaskInv
<1>4. file \in Known
  <2>1. s \in drilled \/ SameBranches(s, file)
    BY <1>1, ExactNow, Zenon DEF FilterExact
  <2>2. s \in sigStates
    BY <1>1, Zenon DEF Inv, Phases
  <2> QED BY <1>3, <2>1, <2>2, Zenon DEF Known
<1>5. cover_new' = 2
  BY <1>1, Zenon DEF Verdicts
<1>6. Known' = Known
  BY <1>1, SameKnown, Zenon
<1>7. Task' = NoTest
  BY <1>1, Zenon DEF Task
<1> QED BY <1>1, <1>2, <1>3, <1>4, <1>5, <1>6, <1>7, Zenon DEF Worker!Skip

(* updateHotStates drops a state.                                          *)
LEMMA WorkerForgets ==
    ASSUME NEW s \in WorkId, Inv, TaskInv, UpdateHotStates(s)
    PROVE  Worker!Forget
<1>1. /\ at[0] = "verify" /\ sigStates' = sigStates \ {s}
      /\ test' = [test EXCEPT ![s] = NoTest] /\ drilled' = drilled \ {s}
      /\ UNCHANGED <<cfg, ready, file, cover_new>>
  BY Zenon DEF UpdateHotStates, Verifying, aflVars
<1>2. Idle /\ ~ready
  BY <1>1, SeedIdle, Zenon DEF Idle
<1>3. file \in Test /\ file # NoTest
  BY <1>2, WhereTask, PluginAssumption, Zenon DEF TaskInv
<1>4. Task' = Task
  BY <1>1, <1>2, <1>3, Zenon DEF Task
<1>5. \A v \in sigStates' : v \in sigStates /\ test'[v] = test[v] /\ (v \in drilled' => v \in drilled)
  BY <1>1, Zenon DEF Inv, Types, TypeStates, TypeTests, StateId
<1>6. Known' \subseteq Known
  <2>1. \A v \in sigStates', t \in Test : SameBranches(v, t)' => SameBranches(v, t)
    BY <1>5, Zenon DEF SameBranches, Alike
  <2> QED BY <1>5, <2>1, Zenon DEF Known
<1> QED BY <1>1, <1>4, <1>6, Zenon DEF Worker!Forget

(* fork_work_state: the testcase is now in the memory of the new state.    *)
LEMMA WorkerForks ==
    ASSUME NEW w \in WorkId, Inv, TaskInv, ForkWorkState(w)
    PROVE  UNCHANGED Worker!workerVars
<1>1. /\ at[0] = "fork" /\ w \notin sigStates /\ schedule' = Append(schedule, w)
      /\ test' = [test EXCEPT ![w] = file] /\ file' = NoTest
      /\ UNCHANGED <<cfg, ready, cover_new, sigStates, drilled>>
  BY Zenon DEF ForkWorkState, filterVars
<1>2. Idle /\ ~ready
  BY <1>1, SeedIdle, Zenon DEF Idle
<1>3. Task = file
  BY <1>2, WhereTask, Zenon DEF TaskInv
<1>4. schedule' = <<0, w>>
  BY <1>1, <1>2, Sequences1, Zenon DEF Idle
<1>5. schedule'[Len(schedule')] = w
  BY <1>4, Sequences1, Zenon
<1>6. test'[w] = file
  BY <1>1, Zenon DEF Inv, Types, TypeTests, StateId
<1>7. Task' = file
  BY <1>1, <1>2, <1>5, <1>6, Zenon DEF Task
<1>8. \A s \in sigStates : test'[s] = test[s]
  BY <1>1, Zenon DEF Inv, Types, TypeStates, TypeTests, StateId
<1>9. Known' = Known
  BY <1>1, <1>8, SameKnown, Zenon
<1> QED BY <1>1, <1>3, <1>7, <1>9, Zenon DEF Worker!workerVars

(* Every step of afl-fuzz or QEMU is one of TestWorker, or is not seen.    *)
LEMMA WorkerStep ==
    ASSUME FilterFaults = FALSE, \A t \in Test : Size[t] <= Chunk, Sizes,
           Inv, DataInv, TaskInv, [Next]_vars
    PROVE  Worker!WorkerNext \/ UNCHANGED Worker!workerVars
<1>1. CASE \E t \in Test : SendOrder(t)
  BY <1>1, WorkerTakes, Zenon DEF Worker!WorkerNext
<1>2. CASE \/ StateSwitch \/ WaitWorkState \/ WaitAflTestcase \/ NotRedundant
           \/ \E w \in WorkId : VerifyState(w)
  <2>1. UNCHANGED <<ready, file, schedule, test, cover_new, cfg, sigStates, drilled>>
    BY <1>2, Zenon DEF StateSwitch, WaitWorkState, WaitAflTestcase, NotRedundant, VerifyState,
       aflVars, filterVars
  <2> QED BY <2>1, WorkerUnseen, Zenon
<1>3. CASE UNCHANGED vars
  <2>1. UNCHANGED <<ready, file, schedule, test, cover_new, cfg, sigStates, drilled>>
    BY <1>3, Zenon DEF vars, pluginVars, aflVars, filterVars
  <2> QED BY <2>1, WorkerUnseen, Zenon
<1>4. ASSUME NEW w \in WorkId, IsNeedSymbex(w) \/ Branch(w)
      PROVE  UNCHANGED Worker!workerVars
  <2>1. /\ UNCHANGED <<ready, file, schedule, test, cover_new, cfg, sigStates>>
        /\ drilled' \in {drilled, drilled \cup {w}} /\ cur = w /\ at[w] \in {"need", "run"}
    BY <1>4, Zenon DEF IsNeedSymbex, Branch, Running, aflVars
  <2>2. w \notin sigStates
    BY <2>1, WorkBusy, Zenon DEF Busy
  <2> QED BY <2>1, <2>2, WorkerUnseen, Zenon
<1>5. ASSUME NEW w \in WorkId, ProcessUnload(w) \/ Fault(w) \/ WorkStateTimeout(w)
      PROVE  Worker!WorkerNext
  <2>1. Told(w)
    BY <1>5, EndTold, Zenon
  <2> QED BY <2>1, WorkerRuns, Zenon DEF Worker!WorkerNext
<1>6. ASSUME NEW w \in WorkId, ReportRedundant(w) \/ UpdateHotStates(w) \/ ForkWorkState(w)
      PROVE  Worker!WorkerNext \/ UNCHANGED Worker!workerVars
  <2>1. CASE ReportRedundant(w)
    BY <2>1, WorkerSkips, Zenon DEF Worker!WorkerNext
  <2>2. CASE UpdateHotStates(w)
    BY <2>2, WorkerForgets, Zenon DEF Worker!WorkerNext
  <2>3. CASE ForkWorkState(w)
    BY <2>3, WorkerForks, Zenon
  <2> QED BY <1>6, <2>1, <2>2, <2>3, Zenon
<1> QED BY <1>1, <1>2, <1>3, <1>4, <1>5, <1>6, Zenon DEF Next, Qemu

-----------------------------------------------------------------------------
INSTANCE FiniteSetTheorems

LEMMA SizesHold == Sizes
<1>1. ASSUME NEW S, IsFiniteSet(S) PROVE Cardinality(S) \in Nat
  BY <1>1, FS_CardinalityType, Zenon
<1>2. ASSUME NEW S, NEW x, IsFiniteSet(S)
      PROVE  /\ IsFiniteSet(S \cup {x}) /\ IsFiniteSet(S \ {x})
             /\ x \in S => /\ Cardinality(S \cup {x}) = Cardinality(S)
                           /\ Cardinality(S \ {x}) = Cardinality(S) - 1
             /\ x \notin S => Cardinality(S \cup {x}) = Cardinality(S) + 1
  BY <1>2, FS_AddElement, FS_RemoveElement, Zenon
<1> QED BY <1>1, <1>2, FS_EmptySet, Zenon DEF Sizes

LEMMA InvHolds == ASSUME FilterFaults = FALSE PROVE Spec => []Inv
<1>1. Init => Inv
  BY InitInv, SizesHold, Zenon
<1>2. Inv /\ [Next]_vars => Inv'
  BY InvStep, SizesHold, Zenon
<1> QED BY <1>1, <1>2, PTL DEF Spec

(* Whatever the target, the testcases and the configuration, each variable *)
(* of FuzzyS2E and TestcaseFilter keeps to its type, if the target does    *)
(* not fault while the filter is on.                                       *)
THEOREM TypeCorrect == ASSUME FilterFaults = FALSE PROVE Spec => []TypeOK
<1>1. Inv => TypeOK
  BY InvImplies, Zenon
<1> QED BY <1>1, InvHolds, PTL

(* tell_afl and report_redundant write exactly one report for an order,    *)
(* and set the ready byte with it, on every way a test can end.            *)
THEOREM ReportsOnce == ASSUME FilterFaults = FALSE PROVE Spec => []OneReport
<1>1. Inv => OneReport
  BY InvImplies, Zenon
<1> QED BY <1>1, InvHolds, PTL

(* No assertion of FuzzyS2E.cpp or of the executor's state selection can   *)
(* fail; among them "Cannot reach zero!!!", for every drill frequency but  *)
(* 0, and the two on the number of scheduled states.                       *)
THEOREM NoAssertionFails == ASSUME FilterFaults = FALSE PROVE Spec => []AssertionsHold
<1>1. Inv => AssertionsHold
  BY InvImplies, Zenon
<1> QED BY <1>1, InvHolds, PTL

(* Every state is scheduled or significant: none is left behind when       *)
(* tell_afl takes it off the schedule.                                     *)
THEOREM NoStateLeaks == ASSUME FilterFaults = FALSE PROVE Spec => []NoLeak
<1>1. Inv => NoLeak
  BY InvImplies, Zenon
<1> QED BY <1>1, InvHolds, PTL

LEMMA DataHolds == ASSUME FilterFaults = FALSE PROVE Spec => [](Inv /\ DataInv)
<1>1. Init => Inv /\ DataInv
  BY InitInv, InitData, SizesHold, Zenon
<1>2. Inv /\ DataInv /\ [Next]_vars => (Inv /\ DataInv)'
  BY InvStep, DataStep, SizesHold, Zenon
<1> QED BY <1>1, <1>2, PTL DEF Spec

(* Every significant state has executed the whole path of its testcase on  *)
(* symbolic data, so that its constraints are those of the path, for every *)
(* bound on the states and whatever is dropped and switched meanwhile.     *)
THEOREM SignificantStatesComplete == ASSUME FilterFaults = FALSE PROVE Spec => []SigComplete
<1>1. ASSUME Inv, DataInv PROVE SigComplete
  <2>1. \A s \in sigStates : SigData(s)
    BY <1>1, Zenon DEF Inv, Types, TypeStates, DataInv, Data
  <2> QED BY <2>1, Zenon DEF SigComplete, SigData, Hashes
<1> QED BY <1>1, DataHolds, PTL

(* The filter finds a testcase redundant for a significant state exactly   *)
(* when it has the size of the state's and takes its branches in the main  *)
(* image, for every target and every order in which the states are tried,  *)
(* if no testcase is larger than what symbfile makes symbolic at a time.   *)
THEOREM FilterIsExact ==
    ASSUME FilterFaults = FALSE, \A t \in Test : Size[t] <= Chunk
    PROVE  Spec => []FilterExact
<1>1. ASSUME Inv, DataInv PROVE FilterExact
  BY <1>1, ExactNow, Zenon
<1> QED BY <1>1, DataHolds, PTL

(* A QEMU with all its states, its filter and its drill runs does what     *)
(* TestWorker promises: the report that sets the ready byte answers the    *)
(* testcase of the last order, and REDUNDANT is said only of a testcase    *)
(* like one that was run to its end and is still remembered.  For every    *)
(* target that does not fault while the filter is on and testcases of at   *)
(* most one chunk.                                                         *)
THEOREM WorkerRefined ==
    ASSUME FilterFaults = FALSE, \A t \in Test : Size[t] <= Chunk
    PROVE  Spec => ImplementsWorker
<1>1. Init => Worker!WorkerInit
  <2> SUFFICES ASSUME Init PROVE Worker!WorkerInit
    BY Zenon
  <2>1. ready = TRUE /\ cover_new = 1 /\ sigStates = {}
    BY Zenon DEF Init, FilterInit
  <2>2. Task = NoTest /\ Known = {}
    BY <2>1, Zenon DEF Task, Known
  <2> QED BY <2>1, <2>2, Zenon DEF Worker!WorkerInit
<1>2. Init => TaskInv
  <2> SUFFICES ASSUME Init PROVE TaskInv
    BY Zenon
  <2>1. ready = TRUE /\ forking = FALSE /\ drilled = {}
    BY Zenon DEF Init
  <2> QED BY <2>1, Zenon DEF TaskInv, OnDisk, Forking
<1>3. Inv /\ TaskInv /\ [Next]_vars => TaskInv'
  BY TaskStep, SizesHold, Zenon
<1>4. Inv /\ DataInv /\ TaskInv /\ [Next]_vars => [Worker!WorkerNext]_(Worker!workerVars)
  BY WorkerStep, SizesHold, Zenon
<1> QED BY <1>1, <1>2, <1>3, <1>4, DataHolds, PTL DEF Spec, ImplementsWorker, Worker!WorkerSpec
=============================================================================
