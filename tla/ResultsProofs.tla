--------------------------- MODULE ResultsProofs ----------------------------
(***************************************************************************)
(* What afl-fuzz learns, for any map, number of tests and limit on saved   *)
(* crashes.  With one QEMU nothing that a test shows is lost or made up;   *)
(* with no more seeds than QEMUs the dry run gives every entry its own     *)
(* measurements.                                                           *)
(***************************************************************************)
EXTENDS Results, DispatchProofs

MapTypes ==
    /\ virgin_bits \in [Byte -> SUBSET Bucket] /\ virgin_crash \in [Byte -> SUBSET Bucket]
    /\ queue \in Seq(Entry) /\ Len(queue) >= NSeeds /\ crashes \in Seq(Test)
    /\ outcome \in [Test -> Fault \cup {""}]

Types ==
    /\ MapTypes
    /\ pc \in {"seeds", "stage", "wait", "score"}
    /\ stage \in {"CALIBRATE", "MUTATE"} /\ seed \in 1 .. NSeeds + 1
    /\ trace \in [Qemu -> Trace] /\ cur_queue \in [Qemu -> 0 .. NSeeds]
    /\ qfault \in [Qemu -> Fault]
    /\ test \in [Qemu -> Test \cup {NoTest}] /\ ntests \in 0 .. MaxTests
    /\ ran \in [Test -> Trace]

(* The tests are numbered as they are dispatched, those of the dry run     *)
(* like the entries they calibrate.                                        *)
Tests ==
    /\ pc = "seeds" => stage = "CALIBRATE"
    /\ pc \in {"stage", "score"} => stage = "MUTATE"
    /\ stage = "CALIBRATE" => ntests = seed - 1
    /\ \A q \in Qemu : ~handled[q] => test[q] \in 1 .. ntests /\ curQemu \in Qemu
    /\ \A t \in Test : t > ntests => outcome[t] = ""
    /\ \A i \in 1 .. NSeeds : queue[i].test = i

Base == DispInv /\ Types /\ Tests

-----------------------------------------------------------------------------
(* has_new_bits returns 0 when there is nothing to clear.                  *)
LEMMA NoNewBits ==
    ASSUME NEW tr, NEW vir
    PROVE  HasNewBits(tr, vir) = 0 <=> \A b \in Byte : tr[b] \notin vir[b]
BY DEF HasNewBits

(* A test with new bits leaves the entries in their places and, once the   *)
(* dry run is over, adds one.                                              *)
LEMMA SavedQueue ==
    ASSUME queue \in Seq(Entry), NEW q \in Qemu, test[q] \in Test, NEW e, NEW hnb
    PROVE  /\ Saved(q, e, hnb) \in Seq(Entry)
           /\ Len(Saved(q, e, hnb)) = Len(queue) + (IF stage = "CALIBRATE" THEN 0 ELSE 1)
           /\ \A i \in 1 .. Len(queue) : Saved(q, e, hnb)[i].test = queue[i].test
           /\ stage # "CALIBRATE" => Saved(q, e, hnb)[Len(queue) + 1].test = test[q]
<1>1. Len(queue) \in Nat /\ \A i \in 1 .. Len(queue) : queue[i] \in Entry
  OBVIOUS
<1>2. CASE stage = "CALIBRATE"
  <2> DEFINE C == Calibrated(q, e, hnb)
             E(i) == [queue[i] EXCEPT
                         !.measured = IF i = e THEN test[q] ELSE queue[i].measured,
                         !.newcov = IF i = Len(queue) /\ hnb = 2 THEN test[q] ELSE queue[i].newcov]
  <2>1. C = [i \in 1 .. Len(queue) |-> E(i)]
    BY Zenon DEF Calibrated
  <2>2. ASSUME NEW i \in 1 .. Len(queue) PROVE E(i) \in Entry /\ E(i).test = queue[i].test
    BY <1>1, Zenon DEF Entry
  <2> HIDE DEF E, C
  <2>3. C \in Seq(Entry) /\ Len(C) = Len(queue)
        /\ \A i \in 1 .. Len(queue) : C[i].test = queue[i].test
    BY <1>1, <2>1, <2>2
  <2>4. Saved(q, e, hnb) = C
    BY <1>2, Zenon DEF Saved, C
  <2> QED BY <1>1, <1>2, <2>3, <2>4
<1>3. CASE stage # "CALIBRATE"
  <2> DEFINE n == [test |-> test[q], measured |-> test[q],
                   newcov |-> IF hnb = 2 THEN test[q] ELSE NoTest]
  <2>1. n \in Entry /\ n.test = test[q]
    BY Zenon DEF Entry
  <2> HIDE DEF n
  <2>2. Saved(q, e, hnb) = Append(queue, n)
    BY <1>3, Zenon DEF Saved, n
  <2> QED BY <1>1, <1>3, <2>1, <2>2
<1> QED BY <1>2, <1>3, Zenon

(* A test is judged.                                                       *)
LEMMA JudgeTypes ==
    ASSUME MapTypes, NEW q \in Qemu, qfault[q] \in Fault, test[q] \in Test, NEW c, NEW e,
           HandleOneTestDone(q, c, e)
    PROVE  /\ MapTypes' /\ outcome' = [outcome EXCEPT ![test[q]] = qfault[q]]
           /\ Len(queue') >= Len(queue)
           /\ \A i \in 1 .. Len(queue) : queue'[i].test = queue[i].test
<1>1. outcome' = [outcome EXCEPT ![test[q]] = qfault[q]]
  BY Zenon DEF HandleOneTestDone
<1>2. outcome' \in [Test -> Fault \cup {""}]
  BY <1>1, Zenon DEF MapTypes
<1>3. Len(queue) \in Nat /\ NSeeds \in Nat /\ Len(queue) >= NSeeds
  <2>1. queue \in Seq(Entry) /\ Len(queue) >= NSeeds
    BY Zenon DEF MapTypes
  <2>2. NSeeds \in Nat
    BY ResultsAssumption
  <2> QED BY <2>1, <2>2
<1>4. queue' = queue \/ \E h : queue' = Saved(q, e, h)
  BY Zenon DEF HandleOneTestDone, JudgeRedundant, JudgeNormal, JudgeCrash
<1>5. /\ queue' \in Seq(Entry) /\ Len(queue') >= Len(queue) /\ Len(queue') >= NSeeds
      /\ \A i \in 1 .. Len(queue) : queue'[i].test = queue[i].test
  <2>1. CASE queue' = queue
    <3>1. queue \in Seq(Entry)
      BY Zenon DEF MapTypes
    <3> QED BY <1>3, <2>1, <3>1
  <2>2. ASSUME NEW h, queue' = Saved(q, e, h)
        PROVE  /\ queue' \in Seq(Entry) /\ Len(queue') >= Len(queue) /\ Len(queue') >= NSeeds
               /\ \A i \in 1 .. Len(queue) : queue'[i].test = queue[i].test
    <3>1. queue \in Seq(Entry)
      BY Zenon DEF MapTypes
    <3>2. /\ Saved(q, e, h) \in Seq(Entry)
          /\ Len(Saved(q, e, h)) = Len(queue) + (IF stage = "CALIBRATE" THEN 0 ELSE 1)
          /\ \A i \in 1 .. Len(queue) : Saved(q, e, h)[i].test = queue[i].test
      BY <3>1, SavedQueue
    <3> QED BY <1>3, <2>2, <3>2
  <2> QED BY <1>4, <2>1, <2>2, Zenon
<1>6. virgin_bits' \in [Byte -> SUBSET Bucket]
  BY ZenonT(60) DEF HandleOneTestDone, JudgeRedundant, JudgeNormal, JudgeCrash, Cleared, MapTypes
<1>7. virgin_crash' \in [Byte -> SUBSET Bucket]
  BY Zenon DEF HandleOneTestDone, JudgeRedundant, JudgeNormal, JudgeCrash, Cleared, MapTypes
<1>8. crashes' \in Seq(Test)
  <2>1. crashes' = crashes \/ crashes' = Append(crashes, test[q])
    BY Zenon DEF HandleOneTestDone, JudgeRedundant, JudgeNormal, JudgeCrash
  <2>2. crashes \in Seq(Test)
    BY Zenon DEF MapTypes
  <2> QED BY <2>1, <2>2
<1> QED BY <1>1, <1>2, <1>5, <1>6, <1>7, <1>8, Zenon DEF MapTypes

(* A QEMU that is given a test has none running.                           *)
LEMMA FeedIdle == ASSUME DispInv, NEW q \in Qemu, Feed(q) PROVE q \notin running
<1>1. CASE isAfterWait /\ q = currentQemuAfterWait
  BY <1>1 DEF DispInv, DispTypes, Qemu
<1>2. CASE ~isAfterWait /\ fifo # <<>> /\ q = Head(fifo)
  BY <1>2, TailHas, Zenon DEF DispInv, DispTypes
<1> QED BY <1>1, <1>2, Zenon DEF Feed

-----------------------------------------------------------------------------
LEMMA InitBase == Init => Base
<1> SUFFICES ASSUME Init PROVE Base
  BY Zenon
<1>1. DispInv
  BY DispatchStarts, Zenon DEF Init
<1>2. NSeeds \in Nat \ {0} /\ NSeeds <= MaxTests /\ MaxTests \in Nat
  BY ResultsAssumption
<1>3. pc = "seeds" /\ stage = "CALIBRATE" /\ seed = 1 /\ ntests = 0
  BY Zenon DEF Init
<1>4. queue \in Seq(Entry) /\ Len(queue) = NSeeds /\ \A i \in 1 .. NSeeds : queue[i].test = i
  <2>1. \A i \in 1 .. NSeeds : [test |-> i, measured |-> NoTest, newcov |-> NoTest] \in Entry
    BY <1>2 DEF Entry, Test
  <2>2. queue \in [1 .. NSeeds -> Entry] /\ \A i \in 1 .. NSeeds : queue[i].test = i
    BY <2>1, Zenon DEF Init
  <2> QED BY <1>2, <2>2
<1>5. MapTypes
  <2>1. Virgin \in [Byte -> SUBSET Bucket]
    BY Zenon DEF Virgin
  <2>2. <<>> \in Seq(Test)
    OBVIOUS
  <2>3. virgin_bits = Virgin /\ virgin_crash = Virgin /\ crashes = <<>>
    BY Zenon DEF Init
  <2>4. outcome \in [Test -> Fault \cup {""}]
    BY Zenon DEF Init
  <2>5. Len(queue) >= NSeeds
    BY <1>2, <1>4
  <2> QED BY <1>4, <2>1, <2>2, <2>3, <2>4, <2>5, Zenon DEF MapTypes
<1>6. Types
  <2>1. Clear \in Trace
    BY Zenon DEF Clear, Trace
  <2>2. trace \in [Qemu -> Trace] /\ ran \in [Test -> Trace]
    BY <2>1, Zenon DEF Init
  <2>3. cur_queue \in [Qemu -> 0 .. NSeeds] /\ qfault \in [Qemu -> Fault]
    <3>1. 0 \in 0 .. NSeeds
      BY <1>2
    <3>2. cur_queue = [q \in Qemu |-> 0] /\ qfault = [q \in Qemu |-> "NONE"]
      BY Zenon DEF Init
    <3> QED BY <3>1, <3>2, Zenon DEF Fault
  <2>4. test \in [Qemu -> Test \cup {NoTest}]
    BY Zenon DEF Init
  <2>5. seed \in 1 .. NSeeds + 1 /\ ntests \in 0 .. MaxTests
    BY <1>2, <1>3
  <2> QED BY <1>3, <1>5, <2>2, <2>3, <2>4, <2>5, Zenon DEF Types
<1>7. Tests
  <2>1. (\A q \in Qemu : handled[q]) /\ \A t \in Test : outcome[t] = ""
    BY Zenon DEF Init, DispatchInit
  <2>2. ntests = seed - 1
    BY <1>3
  <2>3. pc \notin {"stage", "score"}
    BY <1>3, Zenon
  <2> QED BY <1>3, <1>4, <2>1, <2>2, <2>3, Zenon DEF Tests
<1> QED BY <1>1, <1>6, <1>7, Zenon DEF Base

(* What the judgement of q's test keeps, as part of any step that leaves   *)
(* the other variables as Tests wants them.                                *)
LEMMA GiveBase ==
    ASSUME Base, NEW q \in Qemu, NEW e \in 0 .. NSeeds, Give(q, e), UNCHANGED pc,
           \/ pc = "seeds" /\ seed <= NSeeds /\ seed' = seed + 1
           \/ pc = "stage" /\ UNCHANGED seed
    PROVE  Base'
<1>1. /\ DispInv' /\ curQemu' = q /\ handled' = [handled EXCEPT ![q] = FALSE]
      /\ handled \in [Qemu -> BOOLEAN]
  BY FeedKeeps, Zenon DEF Base, Give, DispInv, DispTypes
<1>2. /\ ntests < MaxTests /\ ntests' = ntests + 1 /\ test' = [test EXCEPT ![q] = ntests + 1]
      /\ trace' = [trace EXCEPT ![q] = Clear] /\ UNCHANGED <<stage, qfault, ran>>
      /\ \E x \in {e, 0} : cur_queue' = [cur_queue EXCEPT ![q] = x]
  BY Zenon DEF Give
<1>3. NSeeds \in Nat \ {0} /\ MaxTests \in Nat /\ ntests \in Nat
  BY ResultsAssumption DEF Base, Types
<1>4. /\ MapTypes'
      /\ \A t \in Test : t > ntests => outcome'[t] = outcome[t]
      /\ \A i \in 1 .. NSeeds : queue'[i].test = queue[i].test
  <2>1. CASE handled[q]
    BY <2>1, Zenon DEF Give, mapVars, Base, Types, MapTypes
  <2>2. CASE ~handled[q]
    <3>1. test[q] \in 1 .. ntests /\ test[q] \in Test
      <4>1. test[q] \in 1 .. ntests
        BY <2>2, Zenon DEF Base, Tests
      <4> QED BY <1>2, <1>3, <4>1 DEF Test
    <3>2. HandleOneTestDone(q, q, e) /\ MapTypes /\ qfault[q] \in Fault
      BY <2>2, Zenon DEF Give, Base, Types
    <3>3. /\ MapTypes' /\ outcome' = [outcome EXCEPT ![test[q]] = qfault[q]]
          /\ \A i \in 1 .. Len(queue) : queue'[i].test = queue[i].test
      BY <3>1, <3>2, JudgeTypes, Zenon
    <3>4. 1 .. NSeeds \subseteq 1 .. Len(queue)
      <4>1. queue \in Seq(Entry) /\ Len(queue) >= NSeeds
        BY <3>2, Zenon DEF MapTypes
      <4> QED BY <1>3, <4>1
    <3>5. \A t \in Test : t > ntests => t # test[q]
      BY <1>3, <3>1 DEF Test
    <3>6. outcome \in [Test -> Fault \cup {""}]
      BY <3>2, Zenon DEF MapTypes
    <3> QED BY <3>3, <3>4, <3>5, <3>6, Zenon
  <2> QED BY <2>1, <2>2, Zenon
<1>5. Types'
  <2>1. trace' \in [Qemu -> Trace]
    BY <1>2, Zenon DEF Base, Types, Trace, Clear
  <2>2. cur_queue' \in [Qemu -> 0 .. NSeeds]
    BY <1>2, <1>3 DEF Base, Types
  <2>3. ntests' \in 0 .. MaxTests /\ ntests + 1 \in Test
    BY <1>2, <1>3 DEF Test
  <2>4. test' \in [Qemu -> Test \cup {NoTest}]
    BY <1>2, <2>3, Zenon DEF Base, Types
  <2>5. seed' \in 1 .. NSeeds + 1
    BY <1>3 DEF Base, Types
  <2> QED BY <1>2, <1>4, <2>1, <2>2, <2>3, <2>4, <2>5, Zenon DEF Base, Types
<1>6. Tests'
  <2>1. stage' = "CALIBRATE" => ntests' = seed' - 1
    <3>1. stage = "CALIBRATE" => ntests = seed - 1 /\ pc # "stage"
      BY Zenon DEF Base, Tests
    <3>2. seed \in 1 .. NSeeds + 1
      BY Zenon DEF Base, Types
    <3> QED BY <1>2, <1>3, <3>1, <3>2
  <2>2. ASSUME NEW r \in Qemu, ~handled'[r] PROVE test'[r] \in 1 .. ntests' /\ curQemu' \in Qemu
    <3>1. CASE r = q
      BY <1>1, <1>2, <1>3, <3>1 DEF Base, Types
    <3>2. CASE r # q
      <4>1. ~handled[r] /\ test'[r] = test[r]
        BY <1>1, <1>2, <2>2, <3>2, Zenon DEF Base, Types
      <4>2. test[r] \in 1 .. ntests
        BY <4>1, Zenon DEF Base, Tests
      <4> QED BY <1>1, <1>2, <1>3, <4>1, <4>2
    <3> QED BY <3>1, <3>2, Zenon
  <2>3. \A t \in Test : t > ntests' => outcome'[t] = ""
    <3>1. \A t \in Test : t > ntests + 1 => t > ntests
      BY <1>3 DEF Test
    <3> QED BY <1>2, <1>4, <3>1, Zenon DEF Base, Tests
  <2> QED BY <1>2, <1>4, <2>1, <2>2, <2>3, Zenon DEF Base, Tests
<1> QED BY <1>1, <1>5, <1>6, Zenon DEF Base

LEMMA DrainBase == ASSUME Base, NEW q \in Qemu, ProcessUnhandled(q) PROVE Base'
<1>1. /\ DispInv' /\ curQemu' = curQemu /\ handled' = [handled EXCEPT ![q] = TRUE]
      /\ handled \in [Qemu -> BOOLEAN]
  BY DrainKeeps, Zenon DEF Base, ProcessUnhandled, DispInv, DispTypes
<1>2. UNCHANGED <<pc, stage, seed, qfault, test, ntests, ran>>
  BY Zenon DEF ProcessUnhandled
<1>3. NSeeds \in Nat \ {0} /\ MaxTests \in Nat /\ ntests \in 0 .. MaxTests
  BY ResultsAssumption DEF Base, Types
<1>4. /\ MapTypes' /\ trace' \in [Qemu -> Trace] /\ cur_queue' \in [Qemu -> 0 .. NSeeds]
      /\ \A t \in Test : t > ntests => outcome'[t] = outcome[t]
      /\ \A i \in 1 .. NSeeds : queue'[i].test = queue[i].test
  <2>1. CASE handled[q]
    BY <2>1, Zenon DEF ProcessUnhandled, mapVars, Base, Types, MapTypes
  <2>2. CASE ~handled[q]
    <3>1. test[q] \in 1 .. ntests /\ test[q] \in Test
      <4>1. test[q] \in 1 .. ntests
        BY <2>2, Zenon DEF Base, Tests
      <4> QED BY <1>3, <4>1 DEF Test
    <3>2. HandleOneTestDone(q, curQemu, cur_queue[q]) /\ MapTypes /\ qfault[q] \in Fault
      BY <2>2, Zenon DEF ProcessUnhandled, Base, Types
    <3>3. /\ MapTypes' /\ outcome' = [outcome EXCEPT ![test[q]] = qfault[q]]
          /\ \A i \in 1 .. Len(queue) : queue'[i].test = queue[i].test
      BY <3>1, <3>2, JudgeTypes, Zenon
    <3>4. 1 .. NSeeds \subseteq 1 .. Len(queue)
      <4>1. queue \in Seq(Entry) /\ Len(queue) >= NSeeds
        BY <3>2, Zenon DEF MapTypes
      <4> QED BY <1>3, <4>1
    <3>5. \A t \in Test : t > ntests => t # test[q]
      BY <1>3, <3>1 DEF Test
    <3>6. outcome \in [Test -> Fault \cup {""}]
      BY <3>2, Zenon DEF MapTypes
    <3>7. trace' \in [Qemu -> Trace]
      <4>1. \A tr : Simplify(tr) \in Trace
        BY Zenon DEF Simplify, Trace, Bucket
      <4>2. trace' = trace \/ trace' = [trace EXCEPT ![curQemu] = Simplify(trace[curQemu])]
        BY <2>2, Zenon DEF ProcessUnhandled, TraceAfter
      <4> QED BY <4>1, <4>2 DEF Base, Types
    <3>8. cur_queue' \in [Qemu -> 0 .. NSeeds]
      <4>1. cur_queue' = [cur_queue EXCEPT ![q] = 0] /\ 0 \in 0 .. NSeeds
        <5>1. 0 \in 0 .. NSeeds
          BY <1>3
        <5> QED BY <2>2, <5>1, Zenon DEF ProcessUnhandled
      <4>2. cur_queue \in [Qemu -> 0 .. NSeeds]
        BY Zenon DEF Base, Types
      <4> QED BY <4>1, <4>2, Zenon
    <3> QED BY <3>3, <3>4, <3>5, <3>6, <3>7, <3>8, Zenon
  <2> QED BY <2>1, <2>2, Zenon
<1>5. Types'
  BY <1>2, <1>4, Zenon DEF Base, Types
<1>6. Tests'
  <2>1. \A r \in Qemu : ~handled'[r] => ~handled[r]
    BY <1>1, Zenon
  <2> QED BY <1>1, <1>2, <1>4, <2>1, Zenon DEF Base, Tests
<1> QED BY <1>1, <1>5, <1>6, Zenon DEF Base

LEMMA ExecuteBase == ASSUME Base, NEW q \in Qemu, Execute(q) PROVE Base'
<1>1. /\ DispInv' /\ UNCHANGED <<handled, curQemu>>
      /\ UNCHANGED <<pc, stage, seed, cur_queue, test, ntests, virgin_bits, virgin_crash, queue,
                     crashes, outcome>>
  BY ReportKeeps, Zenon DEF Base, Execute, Report, mapVars
<1>2. MapTypes' /\ Tests'
  BY <1>1, Zenon DEF Base, Types, MapTypes, Tests
<1>3. qfault' \in [Qemu -> Fault]
  BY Zenon DEF Execute, Base, Types, Fault
<1>4. trace' \in [Qemu -> Trace]
  BY Zenon DEF Execute, Base, Types
<1>5. ran' \in [Test -> Trace]
  BY Zenon DEF Execute, Base, Types
<1> QED BY <1>1, <1>2, <1>3, <1>4, <1>5, Zenon DEF Base, Types

(* Steps that give and judge no test.                                      *)
LEMMA QuietBase ==
    ASSUME Base, DispInv', UNCHANGED <<handled, curQemu, seed, trace, cur_queue, qfault, test,
                     ntests, ran, virgin_bits, virgin_crash, queue, crashes, outcome>>,
           \/ UNCHANGED <<pc, stage>>
           \/ pc' = "wait" /\ UNCHANGED stage
           \/ pc' \in {"stage", "score"} /\ stage' = "MUTATE"
    PROVE  Base'
<1>1. MapTypes'
  BY Zenon DEF Base, Types, MapTypes
<1>2. Types' /\ Tests'
  BY <1>1, Zenon DEF Base, Types, Tests
<1> QED BY <1>2, Zenon DEF Base

LEMMA BarrierBase == ASSUME Base, BarrierDone PROVE Base'
<1>1. /\ DispInv' /\ stage' = "MUTATE" /\ pc' \in {"stage", "score"}
      /\ UNCHANGED <<handled, curQemu, seed, trace, cur_queue, qfault, test,
                     ntests, ran, virgin_bits, virgin_crash, queue, crashes, outcome>>
  BY BarrierKeeps, Zenon DEF Base, BarrierDone, EndBarrier, mapVars
<1> QED BY <1>1, QuietBase, Zenon

LEMMA OtherBase == ASSUME Base, ReachBarrier \/ CalculateScore \/ UNCHANGED vars PROVE Base'
<1>1. /\ UNCHANGED dispVars
      /\ UNCHANGED <<stage, seed, trace, cur_queue, qfault, test,
                     ntests, ran, virgin_bits, virgin_crash, queue, crashes, outcome>>
  BY Zenon DEF ReachBarrier, CalculateScore, vars, mapVars
<1>2. \/ pc' = pc
      \/ pc' = "wait"
      \/ pc' = "stage" /\ stage = "MUTATE"
  BY Zenon DEF ReachBarrier, CalculateScore, vars, Base, Tests
<1>3. DispInv' /\ UNCHANGED <<handled, curQemu>>
  BY <1>1, DispatchIdles, Zenon DEF Base, dispVars
<1> QED BY <1>1, <1>2, <1>3, QuietBase, Zenon

(* The two callers of write_to_testcase.                                   *)
LEMMA GiveCases ==
    ASSUME Base, NEW q \in Qemu, CalibrateCase(q) \/ CommonFuzzStuff(q)
    PROVE  \E e \in 0 .. NSeeds :
              /\ Give(q, e) /\ UNCHANGED pc
              /\ \/ pc = "seeds" /\ seed <= NSeeds /\ seed' = seed + 1 /\ e = seed
                 \/ pc = "stage" /\ UNCHANGED seed
<1>1. NSeeds \in Nat /\ seed \in 1 .. NSeeds + 1
  BY ResultsAssumption DEF Base, Types
<1>2. CASE CalibrateCase(q)
  <2>1. seed \in 0 .. NSeeds
    BY <1>1, <1>2 DEF CalibrateCase
  <2> QED BY <1>2, <2>1, Zenon DEF CalibrateCase
<1>3. CASE CommonFuzzStuff(q)
  <2>1. 0 \in 0 .. NSeeds
    BY <1>1
  <2> QED BY <1>3, <2>1, Zenon DEF CommonFuzzStuff
<1> QED BY <1>2, <1>3, Zenon

LEMMA BaseStep == ASSUME Base, [Next]_vars PROVE Base'
<1>1. ASSUME NEW q \in Qemu, CalibrateCase(q) \/ CommonFuzzStuff(q) PROVE Base'
  BY <1>1, GiveCases, GiveBase, Zenon
<1> QED BY <1>1, DrainBase, ExecuteBase, BarrierBase, OtherBase, Zenon DEF Next

-----------------------------------------------------------------------------
(* What a set J of tests with the traces R shows.                          *)

(* The bits that none of them shows.                                       *)
Unseen(J, R) == [b \in Byte |-> {v \in Bucket : \A t \in J : R[t][b] # v}]

(* Each bit that one of them shows is shown by one of those that s lists.  *)
Shown(J, R, s) ==
    \A t \in J, b \in Byte : R[t][b] # 0 =>
        \E i \in 1 .. Len(s) : s[i] \in J /\ R[s[i]][b] = R[t][b]

(* Each that s lists shows a bit that none before it shows.                *)
Different(R, s) ==
    \A j \in 1 .. Len(s) : \E b \in Byte : \A i \in 1 .. j - 1 : R[s[i]][b] # R[s[j]][b]

LEMMA Members ==
    ASSUME NEW S, NEW s \in Seq(S) PROVE Len(s) \in Nat /\ \A i \in 1 .. Len(s) : s[i] \in S
OBVIOUS

LEMMA UnseenSame ==
    ASSUME NEW J, NEW R, NEW S, \A t \in J : R[t] = S[t] PROVE Unseen(J, R) = Unseen(J, S)
<1>1. ASSUME NEW b \in Byte
      PROVE  {v \in Bucket : \A t \in J : R[t][b] # v} = {v \in Bucket : \A t \in J : S[t][b] # v}
  BY Zenon
<1> QED BY <1>1, Zenon DEF Unseen

LEMMA UnseenAdd ==
    ASSUME NEW J, NEW R, NEW t
    PROVE  Unseen(J \cup {t}, R) = Cleared(R[t], Unseen(J, R))
<1>1. ASSUME NEW b \in Byte
      PROVE  {v \in Bucket : \A u \in J \cup {t} : R[u][b] # v}
             = {v \in Bucket : \A u \in J : R[u][b] # v} \ {R[t][b]}
  BY Zenon
<1>2. \A b \in Byte : Unseen(J, R)[b] = {v \in Bucket : \A u \in J : R[u][b] # v}
  BY Zenon DEF Unseen
<1> QED BY <1>1, <1>2, Zenon DEF Unseen, Cleared

LEMMA ShownSame ==
    ASSUME NEW J, NEW R, NEW S, NEW s, \A t \in J : R[t] = S[t], Shown(J, R, s)
    PROVE  Shown(J, S, s)
BY DEF Shown

LEMMA DifferentSame ==
    ASSUME NEW R, NEW S, NEW s, Len(s) \in Nat, \A i \in 1 .. Len(s) : R[s[i]] = S[s[i]],
           Different(R, s)
    PROVE  Different(S, s)
<1> SUFFICES ASSUME NEW j \in 1 .. Len(s)
             PROVE  \E b \in Byte : \A i \in 1 .. j - 1 : S[s[i]][b] # S[s[j]][b]
  BY Zenon DEF Different
<1>1. PICK b \in Byte : \A i \in 1 .. j - 1 : R[s[i]][b] # R[s[j]][b]
  BY Zenon DEF Different
<1>2. 1 .. j - 1 \subseteq 1 .. Len(s)
  OBVIOUS
<1> QED BY <1>1, <1>2, Zenon

(* A test that shows nothing new leaves the list as it is ...              *)
LEMMA ShownOld ==
    ASSUME NEW J, NEW R, NEW s, NEW t, R[t] \in Trace, Shown(J, R, s),
           \A b \in Byte : R[t][b] \notin Unseen(J, R)[b]
    PROVE  Shown(J \cup {t}, R, s)
<1> SUFFICES ASSUME NEW b \in Byte, R[t][b] # 0
             PROVE  \E i \in 1 .. Len(s) : s[i] \in J /\ R[s[i]][b] = R[t][b]
  BY DEF Shown
<1>1. R[t][b] \in Bucket
  BY Zenon DEF Trace
<1>2. PICK u \in J : R[u][b] = R[t][b]
  BY <1>1, Zenon DEF Unseen
<1> QED BY <1>2 DEF Shown

(* ... and one that is added covers itself.                                *)
LEMMA ShownNew ==
    ASSUME NEW J, NEW R, NEW s, NEW r, NEW t, Shown(J, R, s), Len(s) \in Nat, Len(r) \in Nat,
           Len(r) >= Len(s), \A i \in 1 .. Len(s) : r[i] = s[i],
           \E i \in 1 .. Len(r) : r[i] = t
    PROVE  Shown(J \cup {t}, R, r)
<1>1. 1 .. Len(s) \subseteq 1 .. Len(r)
  OBVIOUS
<1>2. ASSUME NEW u \in J, NEW b \in Byte, R[u][b] # 0
      PROVE  \E i \in 1 .. Len(r) : r[i] \in J /\ R[r[i]][b] = R[u][b]
  <2>1. PICK i \in 1 .. Len(s) : s[i] \in J /\ R[s[i]][b] = R[u][b]
    BY <1>2, Zenon DEF Shown
  <2> QED BY <1>1, <2>1, Zenon
<1> QED BY <1>2 DEF Shown

(* A test with a bit that none of J shows may be appended.                 *)
LEMMA DifferentAppend ==
    ASSUME NEW J, NEW R, NEW s \in Seq(J), NEW t, Different(R, s),
           NEW b \in Byte, R[t][b] \in Unseen(J, R)[b]
    PROVE  Different(R, Append(s, t))
<1>1. /\ Len(s) \in Nat /\ Len(Append(s, t)) = Len(s) + 1 /\ Append(s, t)[Len(s) + 1] = t
      /\ \A i \in 1 .. Len(s) : Append(s, t)[i] = s[i] /\ s[i] \in J
  <2>1. Append(s, t) \in Seq(J \cup {t}) /\ s \in Seq(J \cup {t})
    OBVIOUS
  <2> QED BY <2>1
<1>2. \A u \in J : R[u][b] # R[t][b]
  BY Zenon DEF Unseen
<1> SUFFICES ASSUME NEW j \in 1 .. Len(s) + 1
             PROVE  \E c \in Byte : \A i \in 1 .. j - 1 :
                        R[Append(s, t)[i]][c] # R[Append(s, t)[j]][c]
  BY <1>1, Zenon DEF Different
<1>3. CASE j = Len(s) + 1
  <2>1. \A i \in 1 .. j - 1 : R[Append(s, t)[i]][b] # R[Append(s, t)[j]][b]
    BY <1>1, <1>2, <1>3
  <2> QED BY <2>1, Zenon
<1>4. CASE j \in 1 .. Len(s)
  <2>1. PICK c \in Byte : \A i \in 1 .. j - 1 : R[s[i]][c] # R[s[j]][c]
    BY <1>4, Zenon DEF Different
  <2>2. \A i \in 1 .. j - 1 : Append(s, t)[i] = s[i]
    BY <1>1, <1>4
  <2> QED BY <1>1, <1>4, <2>1, <2>2, ZenonT(60)
<1> QED BY <1>1, <1>3, <1>4

-----------------------------------------------------------------------------
(* With one QEMU: the test at hand is judged by its own trace.             *)
OwnTrace ==
    \A q \in Qemu : ~handled[q] =>
        /\ curQemu = q /\ outcome[test[q]] = ""
        /\ q \notin running /\ qfault[q] # "REDUNDANT" => trace[q] = ran[test[q]]

Inputs    == [i \in 1 .. Len(queue) |-> queue[i].test]
Tuples(R) == [t \in Test |-> Simplify(R[t])]

(* virgin_bits and the queue are exact, and so are virgin_crash and the    *)
(* saved crashes as long as the limit is not reached.                      *)
Learnt ==
    /\ virgin_bits = Unseen(Judged("NONE"), ran)
    /\ Shown(Judged("NONE"), ran, Inputs)
    /\ crashes \in Seq(Judged("CRASH"))
    /\ Len(crashes) < KEEP_UNIQUE_CRASH =>
          /\ virgin_crash = Unseen(Judged("CRASH"), Tuples(ran))
          /\ Shown(Judged("CRASH"), Tuples(ran), crashes)
    /\ Different(Tuples(ran), crashes)

Exact == Base /\ OwnTrace /\ Learnt

(* A test that is not judged may still run.                                *)
LEMMA LearntFrame ==
    ASSUME Learnt, UNCHANGED <<virgin_bits, virgin_crash, queue, crashes, outcome>>,
           \A t \in Test : outcome[t] # "" => ran'[t] = ran[t]
    PROVE  Learnt'
<1>1. /\ \A t \in Judged("NONE") : ran'[t] = ran[t]
      /\ \A t \in Judged("CRASH") : ran'[t] = ran[t] /\ t \in Test
      /\ (Judged("NONE"))' = Judged("NONE") /\ (Judged("CRASH"))' = Judged("CRASH")
  BY Zenon DEF Judged
<1>2. \A t \in Judged("CRASH") : Tuples(ran')[t] = Tuples(ran)[t]
  BY <1>1, Zenon DEF Tuples
<1>3. Inputs' = Inputs
  BY Zenon DEF Inputs
<1>4. virgin_bits' = Unseen(Judged("NONE"), ran') /\ Shown(Judged("NONE"), ran', Inputs)
  BY <1>1, UnseenSame, ShownSame, Zenon DEF Learnt
<1>5. Len(crashes) < KEEP_UNIQUE_CRASH =>
          /\ virgin_crash' = Unseen(Judged("CRASH"), Tuples(ran'))
          /\ Shown(Judged("CRASH"), Tuples(ran'), crashes)
  BY <1>2, UnseenSame, ShownSame, Zenon DEF Learnt
<1>6. Different(Tuples(ran'), crashes)
  <2>1. crashes \in Seq(Judged("CRASH")) /\ Different(Tuples(ran), crashes)
    BY Zenon DEF Learnt
  <2>2. Len(crashes) \in Nat /\ \A i \in 1 .. Len(crashes) : crashes[i] \in Judged("CRASH")
    BY <2>1, Members, Zenon
  <2>3. \A i \in 1 .. Len(crashes) : Tuples(ran)[crashes[i]] = Tuples(ran')[crashes[i]]
    BY <1>2, <2>2, Zenon
  <2> QED BY <2>1, <2>2, <2>3, DifferentSame, Zenon
<1> QED BY <1>1, <1>3, <1>4, <1>5, <1>6, Zenon DEF Learnt

LEMMA JudgedAfter ==
    ASSUME NEW t \in Test, NEW f, outcome \in [Test -> Fault \cup {""}], outcome[t] = "",
           outcome' = [outcome EXCEPT ![t] = f], NEW g \in Fault
    PROVE  (Judged(g))' = IF g = f THEN Judged(g) \cup {t} ELSE Judged(g)
<1>1. g # ""
  BY Zenon DEF Fault
<1> QED BY <1>1, Zenon DEF Judged

(* The one QEMU's test is judged, from write_to_testcase or at a barrier.  *)
LEMMA JudgeLearns ==
    ASSUME Exact, NEW q \in Qemu, ~handled[q], q \notin running, NEW e,
           HandleOneTestDone(q, q, e), ran' = ran
    PROVE  Learnt'
<1> DEFINE t == test[q]
           f == qfault[q]
<1>1. /\ t \in Test /\ t <= ntests /\ outcome[t] = "" /\ f \in Fault /\ ran[t] \in Trace
      /\ f # "REDUNDANT" => trace[q] = ran[t]
  <2>1. test[q] \in 1 .. ntests /\ ntests \in 0 .. MaxTests /\ MaxTests \in Nat
    BY ResultsAssumption, Zenon DEF Exact, Base, Types, Tests
  <2>2. test[q] \in Test /\ test[q] <= ntests
    BY <2>1 DEF Test
  <2> QED BY <2>2, Zenon DEF Exact, Base, Types, OwnTrace
<1>2. t \in Nat \ {0} /\ t <= ntests
  <2>1. test[q] \in 1 .. ntests
    BY Zenon DEF Exact, Base, Tests
  <2> QED BY <2>1
<1>3. /\ MapTypes /\ MapTypes' /\ outcome' = [outcome EXCEPT ![t] = f]
      /\ Len(queue') >= Len(queue)
      /\ \A i \in 1 .. Len(queue) : queue'[i].test = queue[i].test
  BY <1>1, JudgeTypes, Zenon DEF Exact, Base, Types
<1>4. \A g \in Fault : (Judged(g))' = IF g = f THEN Judged(g) \cup {t} ELSE Judged(g)
  BY <1>1, <1>3, JudgedAfter, Zenon DEF MapTypes
<1>5. /\ queue \in Seq(Entry) /\ queue' \in Seq(Entry) /\ Len(queue) \in Nat /\ Len(queue') \in Nat
      /\ crashes \in Seq(Judged("CRASH")) /\ Len(crashes) \in Nat
  <2>1. queue \in Seq(Entry) /\ queue' \in Seq(Entry)
    BY <1>3, Zenon DEF MapTypes
  <2>2. crashes \in Seq(Judged("CRASH"))
    BY Zenon DEF Exact, Learnt
  <2> QED BY <2>1, <2>2
<1> HIDE DEF t, f
<1>6. CASE f = "REDUNDANT"
  <2>1. UNCHANGED <<virgin_bits, virgin_crash, queue, crashes>>
    BY <1>6, Zenon DEF HandleOneTestDone, JudgeRedundant, JudgeNormal, JudgeCrash, f
  <2>2. (Judged("NONE"))' = Judged("NONE") /\ (Judged("CRASH"))' = Judged("CRASH")
    BY <1>4, <1>6, Zenon DEF Fault
  <2>3. Inputs' = Inputs
    BY <2>1, Zenon DEF Inputs
  <2> QED BY <2>1, <2>2, <2>3, Zenon DEF Exact, Learnt
<1>7. CASE f = "NONE"
  <2> DEFINE J == Judged("NONE")
             h == HasNewBits(ran[t], virgin_bits)
  <2>1. (Judged("NONE"))' = J \cup {t} /\ (Judged("CRASH"))' = Judged("CRASH")
    BY <1>4, <1>7, Zenon DEF Fault
  <2>2. /\ virgin_bits' = Cleared(ran[t], virgin_bits) /\ UNCHANGED <<virgin_crash, crashes>>
        /\ (h = 0 /\ queue' = queue) \/ stage = "CALIBRATE" \/ queue' = Saved(q, e, h)
    BY <1>1, <1>7, Zenon DEF HandleOneTestDone, JudgeRedundant, JudgeNormal, JudgeCrash, f
  <2>3. virgin_bits = Unseen(J, ran) /\ Shown(J, ran, Inputs)
    BY Zenon DEF Exact, Learnt
  <2> HIDE DEF J, h
  <2>4. virgin_bits' = Unseen(J \cup {t}, ran)
    BY <2>2, <2>3, UnseenAdd, Zenon
  <2>5. /\ Len(Inputs) = Len(queue) /\ Len(Inputs') = Len(queue')
        /\ \A i \in 1 .. Len(queue) : Inputs'[i] = Inputs[i]
        /\ \A i \in 1 .. Len(queue') : Inputs'[i] = queue'[i].test
    BY <1>3, <1>5 DEF Inputs
  <2>6. Shown(J \cup {t}, ran, Inputs')
    <3>1. CASE h = 0 /\ queue' = queue
      <4>1. \A b \in Byte : ran[t][b] \notin Unseen(J, ran)[b]
        BY <2>3, <3>1, NoNewBits, Zenon DEF h
      <4>2. Inputs' = Inputs
        BY <3>1, Zenon DEF Inputs
      <4> QED BY <1>1, <2>3, <4>1, <4>2, ShownOld, Zenon
    <3>2. ASSUME \E i \in 1 .. Len(queue') : queue'[i].test = t PROVE Shown(J \cup {t}, ran, Inputs')
      <4>1. \E i \in 1 .. Len(Inputs') : Inputs'[i] = t
        BY <2>5, <3>2, Zenon
      <4>2. Len(Inputs') >= Len(Inputs) /\ Len(Inputs) \in Nat /\ Len(Inputs') \in Nat
            /\ \A i \in 1 .. Len(Inputs) : Inputs'[i] = Inputs[i]
        BY <1>3, <1>5, <2>5, Zenon
      <4> QED BY <2>3, <4>1, <4>2, ShownNew, Zenon
    <3>3. CASE stage = "CALIBRATE"
      <4>1. t \in 1 .. NSeeds /\ NSeeds \in Nat /\ Len(queue) >= NSeeds
        <5>1. ntests = seed - 1
          BY <3>3, Zenon DEF Exact, Base, Tests
        <5>2. seed \in 1 .. NSeeds + 1 /\ NSeeds \in Nat
          BY ResultsAssumption DEF Exact, Base, Types
        <5>3. t \in Nat \ {0} /\ t <= ntests
          BY <1>2, Zenon
        <5>4. Len(queue) >= NSeeds
          BY <1>3, Zenon DEF MapTypes
        <5> QED BY <5>1, <5>2, <5>3, <5>4
      <4>2. queue[t].test = t
        BY <4>1, Zenon DEF Exact, Base, Tests
      <4>3. t \in 1 .. Len(queue) /\ t \in 1 .. Len(queue')
        BY <1>3, <1>5, <4>1
      <4> QED BY <1>3, <3>2, <4>2, <4>3, Zenon
    <3>4. CASE stage # "CALIBRATE" /\ queue' = Saved(q, e, h)
      <4>1. Len(queue') = Len(queue) + 1 /\ queue'[Len(queue) + 1].test = t
        <5>1. queue \in Seq(Entry) /\ test[q] \in Test
          BY <1>1, <1>5, Zenon DEF t
        <5>2. /\ Len(Saved(q, e, h)) = Len(queue) + 1
              /\ Saved(q, e, h)[Len(queue) + 1].test = test[q]
          BY <3>4, <5>1, SavedQueue
        <5> QED BY <3>4, <5>2, Zenon DEF t
      <4>2. Len(queue) + 1 \in 1 .. Len(queue')
        BY <1>5, <4>1
      <4> QED BY <3>2, <4>1, <4>2, Zenon
    <3> QED BY <2>2, <3>1, <3>3, <3>4, Zenon
  <2> QED BY <2>1, <2>2, <2>4, <2>6, Zenon DEF Exact, Learnt
<1>8. CASE f = "CRASH"
  <2> DEFINE J == Judged("CRASH")
             T == Tuples(ran)
  <2>1. (Judged("NONE"))' = Judged("NONE") /\ (Judged("CRASH"))' = J \cup {t}
    BY <1>4, <1>8, Zenon DEF Fault
  <2>2. UNCHANGED <<virgin_bits, queue>> /\ Inputs' = Inputs
    BY <1>8, Zenon DEF HandleOneTestDone, JudgeRedundant, JudgeNormal, JudgeCrash, f, Inputs
  <2>3. T[t] = Simplify(ran[t]) /\ T[t] \in Trace /\ Different(T, crashes) /\ (Tuples(ran))' = T
    <3>1. T[t] = Simplify(ran[t])
      BY <1>1, Zenon DEF Tuples
    <3>2. Simplify(ran[t]) \in Trace
      BY ONLY Zenon DEF Simplify, Trace, Bucket
    <3>3. Different(T, crashes) /\ (Tuples(ran))' = T
      BY Zenon DEF Tuples, Exact, Learnt
    <3> QED BY <3>1, <3>2, <3>3, Zenon
  <2> HIDE DEF J, T
  <2>4. crashes \in Seq(J \cup {t}) /\ Append(crashes, t) \in Seq(J \cup {t})
    BY <1>5 DEF J
  <2>5. CASE Len(crashes) >= KEEP_UNIQUE_CRASH
    <3>1. crashes' = crashes /\ ~(Len(crashes) < KEEP_UNIQUE_CRASH)
      <4>1. JudgeCrash(q, q)
        BY <1>8, Zenon DEF HandleOneTestDone, JudgeRedundant, JudgeNormal, f
      <4>2. Len(crashes) \in Nat /\ KEEP_UNIQUE_CRASH \in Nat
        BY <1>5, ResultsAssumption, Zenon
      <4>3. ~(Len(crashes) < KEEP_UNIQUE_CRASH)
        BY ONLY <2>5, <4>2
      <4> QED BY <2>5, <4>1, <4>3, Zenon DEF JudgeCrash
    <3> QED BY <2>1, <2>2, <2>3, <2>4, <3>1, Zenon DEF Exact, Learnt
  <2>6. CASE Len(crashes) < KEEP_UNIQUE_CRASH
    <3>1. /\ virgin_crash' = Cleared(T[t], virgin_crash)
          /\ crashes' = IF HasNewBits(T[t], virgin_crash) = 0 THEN crashes ELSE Append(crashes, t)
      <4>1. trace[q] = ran[t] /\ ~(Len(crashes) >= KEEP_UNIQUE_CRASH)
        <5>1. trace[q] = ran[t]
          BY <1>1, <1>8, Zenon
        <5>2. Len(crashes) \in Nat /\ KEEP_UNIQUE_CRASH \in Nat
          BY <1>5, ResultsAssumption, Zenon
        <5>3. ~(Len(crashes) >= KEEP_UNIQUE_CRASH)
          BY ONLY <2>6, <5>2
        <5> QED BY <5>1, <5>3, Zenon
      <4>2. JudgeCrash(q, q)
        BY <1>8, Zenon DEF HandleOneTestDone, JudgeRedundant, JudgeNormal, f
      <4> QED BY <2>3, <4>1, <4>2, Zenon DEF JudgeCrash, t
    <3>2. virgin_crash = Unseen(J, T) /\ Shown(J, T, crashes)
      BY <2>6, Zenon DEF Exact, Learnt, J, T
    <3>3. virgin_crash' = Unseen(J \cup {t}, T)
      BY <3>1, <3>2, UnseenAdd, Zenon
    <3>4. CASE HasNewBits(T[t], virgin_crash) = 0
      <4>1. \A b \in Byte : T[t][b] \notin Unseen(J, T)[b]
        BY <3>2, <3>4, NoNewBits, Zenon
      <4>2. Shown(J \cup {t}, T, crashes)
        BY <2>3, <3>2, <4>1, ShownOld, Zenon
      <4> QED BY <2>1, <2>2, <2>3, <2>4, <3>1, <3>3, <3>4, <4>2, Zenon DEF Exact, Learnt
    <3>5. CASE HasNewBits(T[t], virgin_crash) # 0
      <4>1. PICK b \in Byte : T[t][b] \in Unseen(J, T)[b]
        BY <3>2, <3>5, NoNewBits, Zenon
      <4>2. Different(T, Append(crashes, t))
        BY <1>5, <2>3, <4>1, DifferentAppend, Zenon DEF J
      <4>3. /\ Len(Append(crashes, t)) = Len(crashes) + 1
            /\ Append(crashes, t)[Len(crashes) + 1] = t
            /\ \A i \in 1 .. Len(crashes) : Append(crashes, t)[i] = crashes[i]
        BY ONLY <2>4
      <4>4. Shown(J \cup {t}, T, Append(crashes, t))
        <5>1. Len(crashes) + 1 \in 1 .. Len(Append(crashes, t))
          BY ONLY <1>5, <4>3
        <5>2. Len(Append(crashes, t)) \in Nat /\ Len(Append(crashes, t)) >= Len(crashes)
          BY ONLY <1>5, <4>3
        <5> QED BY <1>5, <3>2, <4>3, <5>1, <5>2, ShownNew, Zenon
      <4> QED BY <2>1, <2>2, <2>3, <2>4, <3>1, <3>3, <3>5, <4>2, <4>4, Zenon DEF Exact, Learnt
    <3> QED BY <3>4, <3>5, Zenon
  <2> QED BY <1>5, <2>5, <2>6, ResultsAssumption
<1> QED BY <1>1, <1>6, <1>7, <1>8, Zenon DEF Fault

LEMMA ExactStep == ASSUME N = 1, Exact, [Next]_vars PROVE Exact'
<1>1. \A q, r \in Qemu : q = r
  BY DEF Qemu
<1>2. Base'
  BY BaseStep, Zenon DEF Exact
<1>3. ASSUME NEW q \in Qemu, CalibrateCase(q) \/ CommonFuzzStuff(q)
      PROVE  OwnTrace' /\ Learnt'
  <2>1. PICK e \in 0 .. NSeeds : Give(q, e)
    BY <1>3, GiveCases, Zenon DEF Exact
  <2>2. /\ Feed(q) /\ curQemu' = q /\ running' = running \cup {q} /\ q \notin running
        /\ ran' = ran /\ test' = [test EXCEPT ![q] = ntests + 1] /\ ntests' = ntests + 1
    BY <2>1, FeedIdle, Zenon DEF Give, Feed, Exact, Base
  <2>3. OwnTrace'
    <3>1. test'[q] = ntests + 1 /\ handled'[q] = FALSE
      BY <2>2, Zenon DEF Exact, Base, Types, Feed, DispInv, DispTypes
    <3>2. outcome'[ntests + 1] = ""
      <4>1. /\ ntests \in Nat /\ ntests < MaxTests /\ MaxTests \in Nat
            /\ ntests + 1 \in Test /\ ntests + 1 > ntests
        <5>1. ntests \in 0 .. MaxTests /\ MaxTests \in Nat
          BY ResultsAssumption, Zenon DEF Exact, Base, Types
        <5>2. ntests < MaxTests
          BY <2>1, Zenon DEF Give
        <5> QED BY <5>1, <5>2 DEF Test
      <4>2. outcome[ntests + 1] = ""
        BY <4>1, Zenon DEF Exact, Base, Tests
      <4>3. CASE handled[q]
        BY <2>1, <4>2, <4>3, Zenon DEF Give, mapVars
      <4>4. CASE ~handled[q]
        <5>1. test[q] # ntests + 1
          <6>1. test[q] \in 1 .. ntests
            BY <4>4, Zenon DEF Exact, Base, Tests
          <6> QED BY <4>1, <6>1
        <5>2. outcome' = [outcome EXCEPT ![test[q]] = qfault[q]]
          BY <2>1, <4>4, Zenon DEF Give, HandleOneTestDone
        <5>3. outcome \in [Test -> Fault \cup {""}]
          BY Zenon DEF Exact, Base, Types, MapTypes
        <5> QED BY <4>1, <4>2, <5>1, <5>2, <5>3, Zenon
      <4> QED BY <4>3, <4>4, Zenon
    <3>3. ASSUME NEW r \in Qemu
          PROVE  curQemu' = r /\ outcome'[test'[r]] = "" /\ r \in running'
      BY <1>1, <2>2, <3>1, <3>2, Zenon
    <3> QED BY <3>3, Zenon DEF OwnTrace
  <2>4. Learnt'
    <3>1. CASE handled[q]
      BY <2>1, <2>2, <3>1, LearntFrame, Zenon DEF Give, mapVars, Exact
    <3>2. CASE ~handled[q]
      BY <2>1, <2>2, <3>2, JudgeLearns, Zenon DEF Give
    <3> QED BY <3>1, <3>2, Zenon
  <2> QED BY <2>3, <2>4, Zenon
<1>4. ASSUME NEW q \in Qemu, ProcessUnhandled(q) PROVE OwnTrace' /\ Learnt'
  <2>1. ran' = ran /\ running = {} /\ handled'[q] = TRUE
    BY <1>4, Zenon DEF ProcessUnhandled, Drain, Exact, Base, DispInv, DispTypes
  <2>2. OwnTrace'
    BY <1>1, <2>1, Zenon DEF OwnTrace
  <2>3. CASE handled[q]
    BY <1>4, <2>1, <2>2, <2>3, LearntFrame, Zenon DEF ProcessUnhandled, mapVars, Exact
  <2>4. CASE ~handled[q]
    <3>1. curQemu = q
      BY <2>4, Zenon DEF Exact, OwnTrace
    <3>2. HandleOneTestDone(q, q, cur_queue[q])
      BY <1>4, <2>4, <3>1, Zenon DEF ProcessUnhandled
    <3> QED BY <2>1, <2>2, <2>4, <3>2, JudgeLearns, Zenon
  <2> QED BY <2>3, <2>4, Zenon
<1>5. ASSUME NEW q \in Qemu, Execute(q) PROVE OwnTrace' /\ Learnt'
  <2>1. /\ q \in running /\ ~handled[q] /\ UNCHANGED <<handled, curQemu, test>>
        /\ UNCHANGED <<virgin_bits, virgin_crash, queue, crashes, outcome>>
    BY <1>5, Zenon DEF Execute, Report, mapVars, Exact, Base, DispInv
  <2>2. /\ curQemu = q /\ outcome[test[q]] = "" /\ test[q] \in Test
    <3>1. test[q] \in 1 .. ntests /\ ntests \in 0 .. MaxTests /\ MaxTests \in Nat
      BY <2>1, ResultsAssumption, Zenon DEF Exact, Base, Types, Tests
    <3>2. test[q] \in Test
      BY <3>1 DEF Test
    <3> QED BY <2>1, <3>2, Zenon DEF Exact, OwnTrace
  <2>3. \A t \in Test : outcome[t] # "" => ran'[t] = ran[t]
    BY <1>5, <2>2, Zenon DEF Execute, Exact, Base, Types
  <2>4. qfault'[q] = "REDUNDANT" \/ trace'[q] = ran'[test[q]]
    BY <1>5, <2>2, Zenon DEF Execute, Exact, Base, Types
  <2>5. OwnTrace'
    BY <1>1, <2>1, <2>2, <2>4, Zenon DEF OwnTrace
  <2> QED BY <2>1, <2>3, <2>5, LearntFrame, Zenon DEF Exact
<1>6. ASSUME ReachBarrier \/ BarrierDone \/ CalculateScore \/ UNCHANGED vars
      PROVE  OwnTrace' /\ Learnt'
  <2>1. UNCHANGED <<handled, curQemu, running, test, trace, ran, qfault,
                    virgin_bits, virgin_crash, queue, crashes, outcome>>
    BY <1>6, Zenon DEF ReachBarrier, BarrierDone, EndBarrier, CalculateScore, vars, mapVars, dispVars
  <2> QED BY <2>1, LearntFrame, Zenon DEF Exact, OwnTrace
<1> QED BY <1>2, <1>3, <1>4, <1>5, <1>6, Zenon DEF Next, Exact

LEMMA ExactHolds == ASSUME N = 1 PROVE Spec => []Exact
<1>1. Init => Exact
  <2> SUFFICES ASSUME Init PROVE OwnTrace /\ Learnt
    BY InitBase, Zenon DEF Exact
  <2>1. (\A q \in Qemu : handled[q]) /\ \A t \in Test : outcome[t] = ""
    BY Zenon DEF Init, DispatchInit
  <2>2. Judged("NONE") = {} /\ Judged("CRASH") = {}
    BY <2>1, Zenon DEF Judged
  <2>3. virgin_bits = Virgin /\ virgin_crash = Virgin /\ crashes = <<>>
    BY Zenon DEF Init
  <2>4. \A R : Virgin = Unseen({}, R)
    BY Zenon DEF Virgin, Unseen
  <2>5. \A R, s : Shown({}, R, s)
    BY Zenon DEF Shown
  <2>6. \A R : Different(R, <<>>)
    BY DEF Different
  <2>7. <<>> \in Seq({})
    OBVIOUS
  <2> QED BY <2>1, <2>2, <2>3, <2>4, <2>5, <2>6, <2>7, Zenon DEF OwnTrace, Learnt
<1> QED BY <1>1, ExactStep, PTL DEF Spec

-----------------------------------------------------------------------------
(* With one QEMU: no result is missed, and none is made up.                *)
THEOREM VirginBitsExact == ASSUME N = 1 PROVE Spec => []VirginIsUnseen
<1>1. Exact => VirginIsUnseen
  BY Zenon DEF Exact, Learnt, Unseen, VirginIsUnseen
<1> QED BY <1>1, ExactHolds, PTL

(* With one QEMU: the queue has an input for every bit ever shown.         *)
THEOREM CorpusComplete == ASSUME N = 1 PROVE Spec => []CorpusCovers
<1>1. Exact => CorpusCovers
  <2> SUFFICES ASSUME Exact, NEW t \in Judged("NONE"), NEW b \in Byte, ran[t][b] # 0
               PROVE  \E i \in 1 .. Len(queue) : ran[queue[i].test][b] = ran[t][b]
    BY Zenon DEF CorpusCovers
  <2>1. PICK i \in 1 .. Len(Inputs) : ran[Inputs[i]][b] = ran[t][b]
    BY Zenon DEF Exact, Learnt, Shown
  <2>2. queue \in Seq(Entry)
    BY Zenon DEF Exact, Base, Types, MapTypes
  <2>3. Len(Inputs) = Len(queue) /\ Inputs[i] = queue[i].test
    BY <2>1, <2>2 DEF Inputs
  <2> QED BY <2>1, <2>3, Zenon
<1> QED BY <1>1, ExactHolds, PTL

(* With one QEMU: the saved crashes show what any crash has shown, up to   *)
(* the limit, and each shows something of its own.                         *)
THEOREM CrashesComplete == ASSUME N = 1 PROVE Spec => []CrashCovers
<1>1. Exact => CrashCovers
  <2> SUFFICES ASSUME Exact PROVE CrashCovers
    BY Zenon
  <2>1. crashes \in Seq(Judged("CRASH"))
    BY Zenon DEF Exact, Learnt
  <2>2. Len(crashes) \in Nat /\ \A i \in 1 .. Len(crashes) : crashes[i] \in Judged("CRASH")
    BY <2>1, Members, Zenon
  <2>3. \A t \in Judged("CRASH") : Tuples(ran)[t] = Simplify(ran[t])
    BY Zenon DEF Judged, Tuples
  <2>4. ASSUME Len(crashes) < KEEP_UNIQUE_CRASH, NEW t \in Judged("CRASH"), NEW b \in Byte
        PROVE  \E i \in 1 .. Len(crashes) : Simplify(ran[crashes[i]])[b] = Simplify(ran[t])[b]
    <3>1. Shown(Judged("CRASH"), Tuples(ran), crashes)
      BY <2>4, Zenon DEF Exact, Learnt
    <3>2. Tuples(ran)[t][b] # 0
      <4>1. Simplify(ran[t])[b] # 0
        BY DEF Simplify
      <4> QED BY <2>3, <4>1, Zenon
    <3>3. PICK i \in 1 .. Len(crashes) : Tuples(ran)[crashes[i]][b] = Tuples(ran)[t][b]
      BY <3>1, <3>2, Zenon DEF Shown
    <3> QED BY <2>2, <2>3, <3>3, Zenon
  <2>5. ASSUME NEW j \in 1 .. Len(crashes)
        PROVE  \E b \in Byte : \A i \in 1 .. j - 1 :
                   Simplify(ran[crashes[i]])[b] # Simplify(ran[crashes[j]])[b]
    <3>1. PICK b \in Byte : \A i \in 1 .. j - 1 :
              Tuples(ran)[crashes[i]][b] # Tuples(ran)[crashes[j]][b]
      BY Zenon DEF Exact, Learnt, Different
    <3>2. 1 .. j - 1 \subseteq 1 .. Len(crashes)
      BY <2>2
    <3> QED BY <2>2, <2>3, <3>1, <3>2, ZenonT(60)
  <2> QED BY <2>4, <2>5, Zenon DEF CrashCovers
<1> QED BY <1>1, ExactHolds, PTL

-----------------------------------------------------------------------------
(* With no more seeds than QEMUs: each seed of the dry run goes to a QEMU  *)
(* whose start-up report is still in the FIFO, so that none is judged      *)
(* before the barrier, and its entry is at hand there.                     *)
StartReports ==
    pc = "seeds" =>
        /\ ~isAfterWait
        /\ \A i \in 1 .. (N + 1) - seed : i \in 1 .. Len(fifo) /\ handled[fifo[i]]

AtHand == stage = "CALIBRATE" => \A q \in Qemu : ~handled[q] => cur_queue[q] = test[q]

Own == OwnMeasurements /\ QueueSetForCalibration

SeedsFit == Base /\ StartReports /\ AtHand /\ Own

(* Where the measurements of a test with new bits go.                      *)
MeasuredFrom(q, e, i, r) ==
    \/ r.measured = r.test
    \/ i \in 1 .. Len(queue) /\ r.measured = queue[i].measured /\ r.test = queue[i].test
    \/ i \in 1 .. Len(queue) /\ stage = "CALIBRATE" /\ i = e /\ r.measured = test[q]

LEMMA SavedMeasured ==
    ASSUME queue \in Seq(Entry), NEW q \in Qemu, test[q] \in Test, NEW e, NEW hnb, NEW i,
           i \in 1 .. Len(Saved(q, e, hnb))
    PROVE  MeasuredFrom(q, e, i, Saved(q, e, hnb)[i])
<1>1. Len(queue) \in Nat /\ \A k \in 1 .. Len(queue) : queue[k] \in Entry
  OBVIOUS
<1>2. /\ Len(Saved(q, e, hnb)) = Len(queue) + (IF stage = "CALIBRATE" THEN 0 ELSE 1)
      /\ \A k \in 1 .. Len(queue) : Saved(q, e, hnb)[k].test = queue[k].test
  BY SavedQueue
<1>3. CASE stage = "CALIBRATE"
  <2>1. i \in 1 .. Len(queue)
    BY <1>1, <1>2, <1>3
  <2>2. Saved(q, e, hnb)[i] =
            [queue[i] EXCEPT
                !.measured = IF i = e THEN test[q] ELSE queue[i].measured,
                !.newcov = IF i = Len(queue) /\ hnb = 2 THEN test[q] ELSE queue[i].newcov]
    BY <1>3, <2>1, Zenon DEF Saved, Calibrated
  <2>3. Saved(q, e, hnb)[i].measured = IF i = e THEN test[q] ELSE queue[i].measured
    BY <1>1, <2>1, <2>2, Zenon DEF Entry
  <2> QED BY <1>2, <1>3, <2>1, <2>3, Zenon DEF MeasuredFrom
<1>4. CASE stage # "CALIBRATE"
  <2> DEFINE n == [test |-> test[q], measured |-> test[q],
                   newcov |-> IF hnb = 2 THEN test[q] ELSE NoTest]
  <2>1. n \in Entry /\ n.measured = n.test
    BY Zenon DEF Entry
  <2> HIDE DEF n
  <2>2. Saved(q, e, hnb) = Append(queue, n)
    BY <1>4, Zenon DEF Saved, n
  <2>3. /\ Append(queue, n)[Len(queue) + 1] = n
        /\ \A k \in 1 .. Len(queue) : Append(queue, n)[k] = queue[k]
        /\ i \in 1 .. Len(queue) \/ i = Len(queue) + 1
    BY <1>1, <1>2, <1>4, <2>1
  <2> QED BY <2>1, <2>2, <2>3, Zenon DEF MeasuredFrom
<1> QED BY <1>3, <1>4, Zenon

(* A result is judged, in the dry run with its own entry at hand.          *)
LEMMA JudgeOwn ==
    ASSUME Base, Own, NEW q \in Qemu, ~handled[q], NEW c, NEW e, HandleOneTestDone(q, c, e),
           stage = "CALIBRATE" => e = test[q]
    PROVE  Own'
<1>1. test[q] \in Test /\ test[q] \in 1 .. ntests /\ queue \in Seq(Entry)
  <2>1. test[q] \in 1 .. ntests /\ ntests \in 0 .. MaxTests /\ MaxTests \in Nat
    BY ResultsAssumption, Zenon DEF Base, Types, Tests
  <2>2. queue \in Seq(Entry)
    BY Zenon DEF Base, Types, MapTypes
  <2> QED BY <2>1, <2>2 DEF Test
<1>2. CASE UNCHANGED <<queue, fatal>>
  BY <1>2, Zenon DEF Own, OwnMeasurements, QueueSetForCalibration
<1>3. stage = "CALIBRATE" => e # 0 /\ queue[e].test = e
  <2>1. ASSUME stage = "CALIBRATE" PROVE e \in 1 .. NSeeds /\ e # 0
    <3>1. ntests = seed - 1 /\ seed \in 1 .. NSeeds + 1 /\ e = test[q]
      BY <2>1, Zenon DEF Base, Tests, Types
    <3> QED BY ONLY <1>1, <3>1, ResultsAssumption
  <2> QED BY <2>1, Zenon DEF Base, Tests
<1>4. ASSUME NEW h, queue' = Saved(q, e, h), fatal' # "cur_queue" PROVE Own'
  <2>1. ASSUME NEW i \in 1 .. Len(queue')
        PROVE  queue'[i].measured \in {NoTest, queue'[i].test}
    <3>1. MeasuredFrom(q, e, i, Saved(q, e, h)[i])
      <4>1. i \in 1 .. Len(Saved(q, e, h))
        BY <1>4, <2>1, Zenon
      <4> QED BY <1>1, <4>1, SavedMeasured, Zenon
    <3>2. MeasuredFrom(q, e, i, queue'[i])
      BY <1>4, <3>1, Zenon
    <3>3. \A k \in 1 .. Len(queue) : Saved(q, e, h)[k].test = queue[k].test
      BY <1>1, SavedQueue
    <3>4. i \in 1 .. Len(queue) => queue'[i].test = queue[i].test
      BY <1>4, <3>3, Zenon
    <3> QED BY <1>3, <3>2, <3>4, Zenon DEF MeasuredFrom, Own, OwnMeasurements
  <2> QED BY <1>4, <2>1, Zenon DEF Own, OwnMeasurements, QueueSetForCalibration
<1>5. \/ UNCHANGED <<queue, fatal>>
      \/ stage = "CALIBRATE" /\ e = 0
      \/ \E h : queue' = Saved(q, e, h) /\ fatal' # "cur_queue"
  BY Zenon DEF HandleOneTestDone, JudgeRedundant, JudgeNormal, JudgeCrash
<1> QED BY <1>2, <1>3, <1>4, <1>5, Zenon

(* A seed is given to a QEMU that has run nothing, a mutated input to any. *)
LEMMA GiveFits ==
    ASSUME NSeeds <= N, SeedsFit, NEW q \in Qemu, CalibrateCase(q) \/ CommonFuzzStuff(q)
    PROVE  StartReports' /\ AtHand' /\ Own'
<1>1. PICK e \in 0 .. NSeeds :
              /\ Give(q, e) /\ UNCHANGED pc
              /\ \/ pc = "seeds" /\ seed <= NSeeds /\ seed' = seed + 1 /\ e = seed
                 \/ pc = "stage" /\ UNCHANGED seed
  BY GiveCases, Zenon DEF SeedsFit
<1>2. /\ Feed(q) /\ handled' = [handled EXCEPT ![q] = FALSE] /\ stage' = stage
      /\ test' = [test EXCEPT ![q] = ntests + 1]
  BY <1>1, Zenon DEF Give, Feed
<1>3. /\ handled \in [Qemu -> BOOLEAN] /\ cur_queue \in [Qemu -> 0 .. NSeeds]
      /\ test \in [Qemu -> Test \cup {NoTest}] /\ fifo \in Seq(Qemu) /\ Distinct(fifo)
  BY Zenon DEF SeedsFit, Base, Types, DispInv, DispTypes
<1>4. CASE pc = "seeds"
  <2>1. /\ seed \in Nat /\ seed <= N /\ N \in Nat /\ seed' = seed + 1 /\ e = seed
        /\ ntests + 1 = seed /\ stage = "CALIBRATE"
    <3>1. seed \in 1 .. NSeeds + 1 /\ stage = "CALIBRATE" /\ ntests = seed - 1
      BY <1>4, Zenon DEF SeedsFit, Base, Types, Tests
    <3> QED BY <1>1, <1>4, <3>1, NAssumption, ResultsAssumption
  <2>2. /\ ~isAfterWait /\ q = Head(fifo) /\ fifo' = Tail(fifo) /\ isAfterWait' = isAfterWait
        /\ \A i \in 1 .. (N + 1) - seed : i \in 1 .. Len(fifo) /\ handled[fifo[i]]
    BY <1>2, <1>4, Zenon DEF Feed, SeedsFit, StartReports
  <2>3. 1 \in 1 .. (N + 1) - seed
    BY <2>1
  <2>4. handled[q] /\ fifo # <<>> /\ fifo[1] = q
    <3>1. 1 \in 1 .. Len(fifo) /\ handled[fifo[1]]
      BY <2>2, <2>3, Zenon
    <3> QED BY <1>3, <2>2, <3>1
  <2>5. UNCHANGED mapVars /\ cur_queue' = [cur_queue EXCEPT ![q] = e]
    BY <1>1, <2>4, Zenon DEF Give
  <2>6. Own'
    BY <2>5, Zenon DEF SeedsFit, Own, OwnMeasurements, QueueSetForCalibration, mapVars
  <2>7. AtHand'
    BY <1>2, <1>3, <2>1, <2>5, Zenon DEF SeedsFit, AtHand
  <2>8. ASSUME NEW i \in 1 .. (N + 1) - seed' PROVE i \in 1 .. Len(fifo') /\ handled'[fifo'[i]]
    <3>1. i + 1 \in 1 .. (N + 1) - seed
      BY <2>1, <2>8
    <3>2. i + 1 \in 1 .. Len(fifo) /\ handled[fifo[i + 1]]
      BY <2>2, <3>1, Zenon
    <3>3. i \in 1 .. Len(Tail(fifo)) /\ Tail(fifo)[i] = fifo[i + 1] /\ fifo[i + 1] \in Qemu
      BY <1>3, <2>1, <2>4, <2>8, <3>2
    <3>4. fifo[i + 1] # q
      <4>1. 1 \in 1 .. Len(fifo) /\ i + 1 # 1
        BY <1>3, <2>1, <2>4, <2>8
      <4> QED BY <1>3, <2>4, <3>2, <4>1, Zenon DEF Distinct
    <3> QED BY <1>2, <1>3, <2>2, <3>2, <3>3, <3>4, Zenon
  <2>9. StartReports'
    BY <2>2, <2>8, Zenon DEF StartReports
  <2> QED BY <2>6, <2>7, <2>9, Zenon
<1>5. CASE pc = "stage"
  <2>1. stage = "MUTATE" /\ pc' = "stage"
    BY <1>1, <1>5, Zenon DEF SeedsFit, Base, Tests
  <2>2. StartReports' /\ AtHand'
    BY <1>2, <2>1, Zenon DEF StartReports, AtHand
  <2>3. CASE handled[q]
    BY <1>1, <2>2, <2>3, Zenon
      DEF Give, SeedsFit, Own, OwnMeasurements, QueueSetForCalibration, mapVars
  <2>4. CASE ~handled[q]
    <3>1. HandleOneTestDone(q, q, e)
      BY <1>1, <2>4, Zenon DEF Give
    <3> QED BY <2>1, <2>2, <2>4, <3>1, JudgeOwn, Zenon DEF SeedsFit
  <2> QED BY <2>3, <2>4, Zenon
<1> QED BY <1>1, <1>4, <1>5, Zenon

LEMMA SeedsFitStep == ASSUME NSeeds <= N, SeedsFit, [Next]_vars PROVE SeedsFit'
<1>1. Base'
  BY BaseStep, Zenon DEF SeedsFit
<1>2. /\ handled \in [Qemu -> BOOLEAN] /\ cur_queue \in [Qemu -> 0 .. NSeeds]
      /\ fifo \in Seq(Qemu)
  BY Zenon DEF SeedsFit, Base, Types, DispInv, DispTypes
<1>3. ASSUME NEW q \in Qemu, CalibrateCase(q) \/ CommonFuzzStuff(q)
      PROVE  StartReports' /\ AtHand' /\ Own'
  BY <1>3, GiveFits, Zenon
<1>4. ASSUME NEW q \in Qemu, ProcessUnhandled(q) PROVE StartReports' /\ AtHand' /\ Own'
  <2>1. /\ handled' = [handled EXCEPT ![q] = TRUE] /\ UNCHANGED <<stage, pc, test>>
        /\ pc = "wait"
    BY <1>4, Zenon DEF ProcessUnhandled, Drain
  <2>2. StartReports'
    BY <2>1, Zenon DEF StartReports
  <2>3. cur_queue' = [cur_queue EXCEPT ![q] = 0] \/ cur_queue' = cur_queue
    BY <1>4, Zenon DEF ProcessUnhandled
  <2>4. AtHand'
    BY <1>2, <2>1, <2>3, Zenon DEF SeedsFit, AtHand
  <2>5. CASE handled[q]
    BY <1>4, <2>2, <2>4, <2>5, Zenon
      DEF ProcessUnhandled, SeedsFit, Own, OwnMeasurements, QueueSetForCalibration, mapVars
  <2>6. CASE ~handled[q]
    <3>1. HandleOneTestDone(q, curQemu, cur_queue[q])
      BY <1>4, <2>6, Zenon DEF ProcessUnhandled
    <3>2. stage = "CALIBRATE" => cur_queue[q] = test[q]
      BY <2>6, Zenon DEF SeedsFit, AtHand
    <3> QED BY <2>2, <2>4, <2>6, <3>1, <3>2, JudgeOwn, Zenon DEF SeedsFit
  <2> QED BY <2>5, <2>6, Zenon
<1>5. ASSUME NEW q \in Qemu, Execute(q) PROVE StartReports' /\ AtHand' /\ Own'
  <2>1. /\ UNCHANGED <<pc, stage, seed, queue, fatal, cur_queue, test, handled, isAfterWait>>
        /\ fifo' = Append(fifo, q)
    BY <1>5, Zenon DEF Execute, Report, mapVars
  <2>2. ASSUME NEW i \in 1 .. Len(fifo) PROVE i \in 1 .. Len(fifo') /\ fifo'[i] = fifo[i]
    BY <1>2, <2>1
  <2>3. StartReports'
    BY <2>1, <2>2, Zenon DEF SeedsFit, StartReports
  <2> QED BY <2>1, <2>3, Zenon DEF SeedsFit, AtHand, Own, OwnMeasurements, QueueSetForCalibration
<1>6. ASSUME ReachBarrier PROVE StartReports' /\ AtHand' /\ Own'
  <2>1. UNCHANGED <<stage, queue, fatal, cur_queue, test, handled>> /\ pc' = "wait"
    BY <1>6, Zenon DEF ReachBarrier, mapVars, dispVars
  <2> QED BY <2>1, Zenon
        DEF SeedsFit, StartReports, AtHand, Own, OwnMeasurements, QueueSetForCalibration
<1>7. ASSUME UNCHANGED vars PROVE StartReports' /\ AtHand' /\ Own'
  <2>1. /\ UNCHANGED <<pc, stage, seed, queue, fatal, cur_queue, test, handled, isAfterWait>>
        /\ fifo' = fifo
    BY <1>7, Zenon DEF vars, mapVars, dispVars
  <2> QED BY <2>1, Zenon
        DEF SeedsFit, StartReports, AtHand, Own, OwnMeasurements, QueueSetForCalibration
<1>8. ASSUME BarrierDone \/ CalculateScore PROVE StartReports' /\ AtHand' /\ Own'
  <2>1. queue' = queue /\ stage' = "MUTATE" /\ pc' \in {"score", "stage"}
    BY <1>8, Zenon DEF BarrierDone, CalculateScore, mapVars, SeedsFit, Base, Tests
  <2>2. fatal' # "cur_queue"
    BY <1>8, Zenon DEF BarrierDone, CalculateScore, mapVars
  <2> QED BY <2>1, <2>2, Zenon
        DEF SeedsFit, StartReports, AtHand, Own, OwnMeasurements, QueueSetForCalibration
<1> QED BY <1>1, <1>3, <1>4, <1>5, <1>6, <1>7, <1>8, Zenon DEF Next, SeedsFit

LEMMA SeedsFitInit == ASSUME NSeeds <= N, Init PROVE SeedsFit
<1>1. /\ fatal = "" /\ (\A q \in Qemu : handled[q]) /\ seed = 1 /\ ~isAfterWait
      /\ fifo \in [1 .. N -> Qemu]
  BY Zenon DEF Init, DispatchInit
<1>2. \A i \in 1 .. (N + 1) - seed : i \in 1 .. Len(fifo) /\ fifo[i] \in Qemu
  <2>1. fifo \in [1 .. N -> Qemu] /\ seed = 1
    BY <1>1, Zenon
  <2>2. Len(fifo) = N /\ N \in Nat
    BY ONLY <2>1, NAssumption
  <2>3. (N + 1) - seed = N
    BY ONLY <2>1, <2>2
  <2> QED BY <2>1, <2>2, <2>3, Zenon
<1>3. StartReports
  BY <1>1, <1>2, Zenon DEF StartReports
<1>4. NSeeds \in Nat
  BY ResultsAssumption
<1>5. OwnMeasurements
  <2>1. queue = [i \in 1 .. NSeeds |-> [test |-> i, measured |-> NoTest, newcov |-> NoTest]]
    BY Zenon DEF Init
  <2>2. Len(queue) = NSeeds /\ \A i \in 1 .. NSeeds : queue[i].measured = NoTest
    BY <1>4, <2>1
  <2> QED BY <2>2, Zenon DEF OwnMeasurements
<1> QED BY <1>1, <1>3, <1>5, InitBase, Zenon DEF SeedsFit, AtHand, Own, QueueSetForCalibration

-----------------------------------------------------------------------------
(* With no more seeds than QEMUs, however many of either: every            *)
(* calibration is judged with its entry at hand, as save_if_interesting    *)
(* demands, and what an entry of the queue says of itself was measured     *)
(* when its own input ran.  With one seed more both fail.                  *)
THEOREM MeasurementsOwn ==
    ASSUME NSeeds <= N PROVE Spec => [](OwnMeasurements /\ QueueSetForCalibration)
<1>1. Init => SeedsFit
  BY SeedsFitInit, Zenon
<1>2. SeedsFit /\ [Next]_vars => SeedsFit'
  BY SeedsFitStep, Zenon
<1>3. SeedsFit => OwnMeasurements /\ QueueSetForCalibration
  BY Zenon DEF SeedsFit, Own
<1> QED BY <1>1, <1>2, <1>3, PTL DEF Spec
=============================================================================
