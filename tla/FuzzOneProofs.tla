--------------------------- MODULE FuzzOneProofs ----------------------------
(***************************************************************************)
(* Late results in fuzz_one, for any number of QEMUs, any length of the    *)
(* input, any number of rounds and of testcases of the symbolic side:      *)
(* they find the effector map of their entry, no effect is lost, and every *)
(* find is credited to the stage that dispatched its test.                 *)
(***************************************************************************)
EXTENDS FuzzOne, DispatchProofs

QueueEntry == [depth : Nat, was_fuzzed : BOOLEAN, passed_det : BOOLEAN]

Types ==
    /\ pc \in {"main", "loop", "wait", "symbex", "waitsymbex", "collect", "splice",
               "abandon", "waitmain", "next", "stopped"}
    /\ stage \in Stage /\ todo \subseteq 0 .. LEN - 1 /\ stop_soon \in BOOLEAN
    /\ queue \in Seq(QueueEntry) /\ queue_cur \in 1 .. Len(queue) /\ cur_depth \in Nat
    /\ unique_crashes \in Nat /\ orig_hit_cnt \in Nat /\ found \in Nat
    /\ effects \subseteq 0 .. LEN - 1
    /\ mod_off \in [Qemu -> 0 .. NoOff] /\ result \in [Qemu -> Outcome]
    /\ test \in [Qemu -> [stage : Stage \cup {"READSYMBEX", "NONE"},
                          home : Stage \cup {"NONE"}, pos : 0 .. NoOff]]

(* The stage has loops to run or results to wait for.                      *)
InStage == pc \in {"loop", "wait", "symbex", "waitsymbex", "collect", "splice", "abandon"}

(* A test that is not judged belongs to the stage at hand, whose loop or   *)
(* whose symbex testcases sent it; no test is open between the stages.     *)
OpenTests ==
    /\ pc \in {"main", "next", "collect", "splice", "waitmain"} => \A q \in Qemu : handled[q]
    /\ pc = "abandon" => stop_soon
    /\ \A q \in Qemu : ~handled[q] /\ pc # "stopped" =>
          /\ test[q].home = stage
          /\ \/ test[q].stage = stage /\ pc \in {"loop", "wait", "abandon"}
             \/ test[q].stage = "READSYMBEX" /\ pc \in {"symbex", "waitsymbex"}
          /\ test[q].stage = "FLIP8" => mod_off[q] = test[q].pos /\ test[q].pos \in 0 .. LEN - 1

(* stage_finds is right at any moment, counting what is judged so far.     *)
Credited == InStage => HitCnt = orig_hit_cnt + found

(* The map is allocated as long as FLIP8 runs, and has every effect.       *)
Effects ==
    /\ stage = "FLIP8" /\ pc \in {"loop", "wait", "abandon"} => 0 \in g_eff_map
    /\ \A p \in effects : EFF_APOS(p) \in g_eff_map
    /\ pc \in {"main", "next", "waitmain"} \/ stage = "FLIP1" => effects = {}

Inv == DispInv /\ Types /\ OpenTests /\ Credited /\ Effects

-----------------------------------------------------------------------------
(* The effector map has a cell for every byte.                             *)
LEMMA CellsInMap ==
    /\ EFF_ALEN \in Nat \ {0}
    /\ \A p \in 0 .. LEN - 1 : EFF_APOS(p) \in 0 .. EFF_ALEN - 1
<1> DEFINE k == 2 ^ EFF_MAP_SCALE2
<1>1. k \in Nat \ {0} /\ LEN \in Nat \ {0}
  BY ScaleAssumption, FuzzOneAssumption, Zenon
<1> HIDE DEF k
<1>2. /\ LEN \div k \in Nat /\ LEN % k \in 0 .. k - 1
      /\ LEN = k * (LEN \div k) + (LEN % k)
  BY ONLY <1>1
<1>3. EFF_ALEN \in Nat \ {0}
  <2>1. EFF_ALEN = (LEN \div k) + (IF LEN % k = 0 THEN 0 ELSE 1)
    BY Zenon DEF EFF_ALEN, EFF_APOS, k
  <2> QED BY ONLY <1>1, <1>2, <2>1
<1>4. ASSUME NEW p \in 0 .. LEN - 1 PROVE EFF_APOS(p) \in 0 .. EFF_ALEN - 1
  <2>1. /\ p \div k \in Nat /\ p % k \in 0 .. k - 1
        /\ p = k * (p \div k) + (p % k)
    BY ONLY <1>1, <1>4
  <2>2. EFF_ALEN = (LEN \div k) + (IF LEN % k = 0 THEN 0 ELSE 1) /\ EFF_APOS(p) = p \div k
    BY Zenon DEF EFF_ALEN, EFF_APOS, k
  <2> DEFINE a == LEN \div k
             b == p \div k
  <2> HIDE DEF a, b
  <2>3. a \in Nat /\ b \in Nat /\ LEN = k * a + (LEN % k) /\ p = k * b + (p % k)
    BY <1>2, <2>1, Zenon DEF a, b
  <2>4. b <= a
    <3>1. p <= LEN /\ p \in Nat
      BY <1>1
    <3>2. p \div k <= LEN \div k
      BY ONLY <1>1, <3>1
    <3> QED BY <3>2, Zenon DEF a, b
  <2>5. ASSUME LEN % k = 0, b = a PROVE FALSE
    BY ONLY <1>1, <1>4, <2>1, <2>3, <2>5
  <2> QED BY <1>3, <2>2, <2>3, <2>4, <2>5 DEF a, b
<1> QED BY <1>3, <1>4, Zenon

LEMMA Stages9 ==
    /\ Len(Stages) = 9
    /\ Stages[1] = "FLIP1" /\ Stages[2] = "FLIP8" /\ Stages[3] = "FLIP16"
    /\ Stages[4] = "FLIP32" /\ Stages[5] = "ARITH8" /\ Stages[6] = "INTEREST8"
    /\ Stages[7] = "EXTRAS_UO" /\ Stages[8] = "HAVOC" /\ Stages[9] = "SPLICE"
BY Zenon DEF Stages

LEMMA StageNames ==
    Stage = {"FLIP1", "FLIP8", "FLIP16", "FLIP32", "ARITH8", "INTEREST8", "EXTRAS_UO",
             "HAVOC", "SPLICE"}
<1> DEFINE S == {"FLIP1", "FLIP8", "FLIP16", "FLIP32", "ARITH8", "INTEREST8", "EXTRAS_UO",
                 "HAVOC", "SPLICE"}
<1>1. ASSUME NEW i \in 1 .. 9 PROVE Stages[i] \in S
  <2>1. i \in {1, 2, 3, 4, 5, 6, 7, 8, 9}
    BY ONLY <1>1
  <2> QED BY <2>1, Stages9, ZenonT(60)
<1>2. ASSUME NEW s \in S PROVE \E i \in 1 .. 9 : Stages[i] = s
  <2>1. 1 \in 1 .. 9 /\ 2 \in 1 .. 9 /\ 3 \in 1 .. 9 /\ 4 \in 1 .. 9 /\ 5 \in 1 .. 9
        /\ 6 \in 1 .. 9 /\ 7 \in 1 .. 9 /\ 8 \in 1 .. 9 /\ 9 \in 1 .. 9
    BY ONLY TRUE
  <2> QED BY <2>1, Stages9, ZenonT(60)
<1>3. Stage = {Stages[i] : i \in 1 .. 9}
  BY Stages9, Zenon DEF Stage
<1> QED BY <1>1, <1>2, <1>3

(* FLIP8 comes after FLIP1 only, and nothing comes before FLIP1.           *)
LEMMA NextStageFacts ==
    ASSUME NEW s \in Stage \ Random
    PROVE  /\ NextStage(s) \in Stage \ {"FLIP1"}
           /\ NextStage(s) = "FLIP8" => s = "FLIP1"
<1> DEFINE c == CHOOSE i \in 1 .. Len(Stages) : Stages[i] = s
<1>1. \E i \in 1 .. Len(Stages) : Stages[i] = s
  BY Zenon DEF Stage
<1>2. c \in 1 .. 9 /\ Stages[c] = s
  BY <1>1, Stages9, Zenon
<1> HIDE DEF c
<1>3. c \in {1, 2, 3, 4, 5, 6, 7}
  <2>1. c \in {1, 2, 3, 4, 5, 6, 7, 8, 9}
    BY ONLY <1>2
  <2> QED BY <1>2, <2>1, Stages9, Zenon DEF Random
<1>4. /\ Stages[1 + c] \in Stage \ {"FLIP1"}
      /\ Stages[1 + c] = "FLIP8" => s = "FLIP1"
  <2>1. CASE c = 1
    BY <1>2, <2>1, Stages9, StageNames
  <2>2. CASE c \in {2, 3, 4, 5, 6, 7}
    <3>1. 1 + c \in {3, 4, 5, 6, 7, 8}
      BY ONLY <2>2
    <3> QED BY <3>1, Stages9, StageNames
  <2> QED BY <1>3, <2>1, <2>2, Zenon
<1>5. NextStage(s) \in {"ARITH8", Stages[1 + c]}
  BY Zenon DEF NextStage, c
<1> QED BY <1>4, <1>5, StageNames, Zenon

LEMMA PositionsInInput == ASSUME NEW s PROVE Positions(s) \subseteq 0 .. LEN - 1
<1> DEFINE live(w) == {i \in 0 .. LEN - w : \E k \in i .. i + w - 1 : EFF_APOS(k) \in g_eff_map}
<1>1. live(1) \subseteq 0 .. LEN - 1 /\ live(2) \subseteq 0 .. LEN - 1 /\ live(4) \subseteq 0 .. LEN - 1
  BY FuzzOneAssumption
<1> HIDE DEF live
<1>2. Positions(s) \in {0 .. LEN - 1, live(2), live(4), {}, live(1)}
  BY Zenon DEF Positions, live
<1> QED BY <1>1, <1>2, Zenon

-----------------------------------------------------------------------------
(* A late result that is judged raises the hit count and the finds of its  *)
(* stage together, and marks the byte whose flip had an effect.            *)
LEMMA JudgeKeeps ==
    ASSUME Types, NEW q \in Qemu, NEW s, HandleOneTestDone(q, s),
           HitCnt = orig_hit_cnt + found, \A p \in effects : EFF_APOS(p) \in g_eff_map,
           test[q].home = stage,
           test[q].stage = "FLIP8" =>
               s = "FLIP8" /\ mod_off[q] = test[q].pos /\ test[q].pos \in 0 .. LEN - 1
    PROVE  /\ queue' \in Seq(QueueEntry) /\ Len(queue') >= Len(queue)
           /\ unique_crashes' \in Nat /\ found' \in Nat /\ HitCnt' = orig_hit_cnt + found'
           /\ g_eff_map \subseteq g_eff_map' /\ effects' \subseteq 0 .. LEN - 1
           /\ \A p \in effects' : EFF_APOS(p) \in g_eff_map'
           /\ test[q].stage # "FLIP8" => effects' = effects
<1>1. NewEntry \in QueueEntry /\ Len(queue) \in Nat
  BY DEF NewEntry, QueueEntry, Types
<1>2. /\ queue' \in Seq(QueueEntry)
      /\ Len(queue') = Len(queue) + (IF result[q] = "new" THEN 1 ELSE 0)
  BY <1>1 DEF HandleOneTestDone, Types
<1>3. unique_crashes' = unique_crashes + (IF result[q] = "ucrash" THEN 1 ELSE 0)
  BY Zenon DEF HandleOneTestDone
<1>4. found' = found + (IF result[q] = "new" \/ result[q] = "ucrash" THEN 1 ELSE 0)
  BY Zenon DEF HandleOneTestDone, Find
<1>5. /\ Len(queue') >= Len(queue) /\ unique_crashes' \in Nat /\ found' \in Nat
      /\ HitCnt' = orig_hit_cnt + found'
  <2>1. /\ Len(queue) \in Nat /\ unique_crashes \in Nat /\ found \in Nat /\ orig_hit_cnt \in Nat
        /\ Len(queue) + unique_crashes = orig_hit_cnt + found
    BY <1>1, Zenon DEF HitCnt, Types
  <2>2. /\ Len(queue') >= Len(queue) /\ unique_crashes' \in Nat /\ found' \in Nat
        /\ Len(queue') + unique_crashes' = orig_hit_cnt + found'
    <3>1. CASE result[q] = "new"
      BY ONLY <1>2, <1>3, <1>4, <2>1, <3>1
    <3>2. CASE result[q] = "ucrash"
      BY ONLY <1>2, <1>3, <1>4, <2>1, <3>2
    <3>3. CASE result[q] # "new" /\ result[q] # "ucrash"
      BY ONLY <1>2, <1>3, <1>4, <2>1, <3>3
    <3> QED BY <3>1, <3>2, <3>3, Zenon
  <2> QED BY <2>2, Zenon DEF HitCnt
<1>6. g_eff_map \subseteq g_eff_map'
  BY Zenon DEF HandleOneTestDone
<1>7. CASE ~(result[q] = "new" /\ test[q].stage = "FLIP8")
  BY <1>2, <1>5, <1>6, <1>7, Zenon DEF HandleOneTestDone, Types
<1>8. CASE result[q] = "new" /\ test[q].stage = "FLIP8"
  <2>1. effects' = effects \cup {test[q].pos}
    BY <1>8, Zenon DEF HandleOneTestDone
  <2>2. CoverNew(q) /\ mod_off[q] # NoOff
    BY <1>8, FuzzOneAssumption DEF CoverNew, NoOff
  <2>3. EFF_APOS(test[q].pos) \in g_eff_map'
    BY <1>8, <2>2, Zenon DEF HandleOneTestDone, Flags
  <2> QED BY <1>2, <1>5, <1>6, <1>8, <2>1, <2>3, Zenon DEF Types
<1> QED BY <1>7, <1>8, Zenon

(* A test is dispatched by the loop of the stage, or for a file of         *)
(* symbex_dir at its end.                                                  *)
LEMMA GiveStep ==
    ASSUME Inv, NEW q \in Qemu, NEW s \in Stage \cup {"READSYMBEX"}, NEW p \in 0 .. NoOff,
           Give(q, s, p), UNCHANGED <<stage, orig_hit_cnt>>,
           todo' \subseteq todo, cur_depth' \in Nat,
           \/ /\ pc = "loop" /\ s = stage /\ (stage = "FLIP8" => p \in 0 .. LEN - 1)
              /\ pc' = "loop" \/ (pc' = "abandon" /\ stop_soon)
           \/ pc = "symbex" /\ s = "READSYMBEX" /\ pc' \in {"symbex", "waitsymbex"}
    PROVE  Inv'
<1>1. DispInv' /\ handled' = [handled EXCEPT ![q] = FALSE]
  BY FeedKeeps, Zenon DEF Inv, Give
<1>2. /\ queue' \in Seq(QueueEntry) /\ Len(queue') >= Len(queue)
      /\ unique_crashes' \in Nat /\ found' \in Nat /\ HitCnt' = orig_hit_cnt + found'
      /\ g_eff_map \subseteq g_eff_map' /\ effects' \subseteq 0 .. LEN - 1
      /\ \A b \in effects' : EFF_APOS(b) \in g_eff_map'
      /\ stage # "FLIP8" => effects' = effects
  <2>1. HitCnt = orig_hit_cnt + found /\ \A b \in effects : EFF_APOS(b) \in g_eff_map
    BY Zenon DEF Inv, Credited, InStage, Effects
  <2>2. CASE handled[q]
    <3>1. UNCHANGED <<queue, unique_crashes, g_eff_map, found, effects>>
      BY <2>2, Zenon DEF Give, judgeVars
    <3>2. Len(queue) \in Nat
      BY DEF Inv, Types
    <3> QED BY <2>1, <3>1, <3>2 DEF Inv, Types, HitCnt
  <2>3. CASE ~handled[q]
    <3>1. /\ test[q].home = stage
          /\ \/ test[q].stage = stage /\ pc \in {"loop", "wait", "abandon"}
             \/ test[q].stage = "READSYMBEX" /\ pc \in {"symbex", "waitsymbex"}
          /\ test[q].stage = "FLIP8" => mod_off[q] = test[q].pos /\ test[q].pos \in 0 .. LEN - 1
      BY <2>3, Zenon DEF Inv, OpenTests
    <3>2. test[q].stage = "FLIP8" => s = "FLIP8" /\ stage = "FLIP8"
      BY <3>1, Zenon
    <3>3. HandleOneTestDone(q, s) /\ Types
      BY <2>3, Zenon DEF Give, Inv
    <3> QED BY <2>1, <3>1, <3>2, <3>3, JudgeKeeps, Zenon
  <2> QED BY <2>2, <2>3, Zenon
<1>3. /\ mod_off' = [mod_off EXCEPT ![q] = IF s = "FLIP8" THEN p ELSE ModOff(q, s)]
      /\ result' = [result EXCEPT ![q] = "old"]
      /\ test' = [test EXCEPT ![q] = [stage |-> s, home |-> stage, pos |-> p]]
      /\ queue_cur' = queue_cur /\ stop_soon' = stop_soon
  BY Zenon DEF Give, mainVars
<1>4. Types'
  <2>1. queue_cur' \in 1 .. Len(queue')
    BY <1>2, <1>3 DEF Inv, Types
  <2>2. mod_off' \in [Qemu -> 0 .. NoOff]
    BY <1>3, FuzzOneAssumption DEF Inv, Types, ModOff, NoOff
  <2>3. result' \in [Qemu -> Outcome]
    BY <1>3, Zenon DEF Inv, Types, Outcome
  <2>4. [stage |-> s, home |-> stage, pos |-> p]
            \in [stage : Stage \cup {"READSYMBEX", "NONE"},
                 home : Stage \cup {"NONE"}, pos : 0 .. NoOff]
    BY Zenon DEF Inv, Types
  <2>5. test' \in [Qemu -> [stage : Stage \cup {"READSYMBEX", "NONE"},
                            home : Stage \cup {"NONE"}, pos : 0 .. NoOff]]
    BY <1>3, <2>4, Zenon DEF Inv, Types
  <2> QED BY <1>2, <1>3, <2>1, <2>2, <2>3, <2>5, Zenon DEF Inv, Types
<1>5. OpenTests'
  <2>1. ASSUME NEW r \in Qemu, ~handled'[r]
        PROVE  /\ test'[r].home = stage
               /\ \/ test'[r].stage = stage /\ pc' \in {"loop", "wait", "abandon"}
                  \/ test'[r].stage = "READSYMBEX" /\ pc' \in {"symbex", "waitsymbex"}
               /\ test'[r].stage = "FLIP8" =>
                      mod_off'[r] = test'[r].pos /\ test'[r].pos \in 0 .. LEN - 1
    <3>1. CASE r = q
      <4>1. test'[r] = [stage |-> s, home |-> stage, pos |-> p]
        BY <1>3, <3>1, Zenon DEF Inv, Types
      <4>2. s = "FLIP8" => mod_off'[r] = p
        BY <1>3, <3>1, Zenon DEF Inv, Types
      <4> QED BY <4>1, <4>2
    <3>2. CASE r # q
      <4>1. ~handled[r] /\ test'[r] = test[r] /\ mod_off'[r] = mod_off[r]
        BY <1>1, <1>3, <2>1, <3>2, Zenon DEF Inv, Types, DispInv, DispTypes
      <4>2. pc # "stopped"
        BY Zenon
      <4>3. /\ test[r].home = stage
            /\ \/ test[r].stage = stage /\ pc \in {"loop", "wait", "abandon"}
               \/ test[r].stage = "READSYMBEX" /\ pc \in {"symbex", "waitsymbex"}
            /\ test[r].stage = "FLIP8" =>
                   mod_off[r] = test[r].pos /\ test[r].pos \in 0 .. LEN - 1
        BY <4>1, <4>2, Zenon DEF Inv, OpenTests
      <4> QED BY <4>1, <4>3, Zenon
    <3> QED BY <3>1, <3>2, Zenon
  <2> QED BY <1>3, <2>1, Zenon DEF OpenTests
<1>6. Credited'
  BY <1>2, Zenon DEF Credited
<1>7. Effects'
  BY <1>2, Zenon DEF Effects, Inv
<1> QED BY <1>1, <1>4, <1>5, <1>6, <1>7, Zenon DEF Inv

(* The oldest report is judged at a barrier.                               *)
LEMMA DrainStep == ASSUME Inv, NEW q \in Qemu, ProcessUnhandled(q) PROVE Inv'
<1>1. /\ Waiting /\ DispInv' /\ handled' = [handled EXCEPT ![q] = TRUE]
      /\ UNCHANGED <<pc, stage, todo, orig_hit_cnt, cur_depth, queue_cur, stop_soon>>
      /\ mod_off' = [mod_off EXCEPT ![q] = ModOff(q, test[q].stage)]
      /\ test' = [test EXCEPT ![q] = Idle]
      /\ result' = [result EXCEPT ![q] = "old"]
  BY DrainKeeps, Zenon DEF Inv, ProcessUnhandled, mainVars, stageVars
<1>2. Len(queue) \in Nat
  BY DEF Inv, Types
<1>3. /\ queue' \in Seq(QueueEntry) /\ Len(queue') >= Len(queue)
      /\ unique_crashes' \in Nat /\ found' \in Nat
      /\ g_eff_map \subseteq g_eff_map' /\ effects' \subseteq 0 .. LEN - 1
      /\ \A b \in effects' : EFF_APOS(b) \in g_eff_map'
      /\ pc = "waitmain" \/ stage # "FLIP8" => effects' = effects
      /\ pc # "waitmain" => HitCnt' = orig_hit_cnt + found'
  <2>1. /\ pc # "waitmain" => HitCnt = orig_hit_cnt + found
        /\ \A b \in effects : EFF_APOS(b) \in g_eff_map
    BY <1>1, Zenon DEF Inv, Credited, InStage, Effects, Waiting
  <2>2. CASE handled[q]
    <3>1. UNCHANGED <<queue, unique_crashes, g_eff_map, found, effects>>
      BY <2>2, Zenon DEF ProcessUnhandled, judgeVars
    <3> QED BY <1>2, <2>1, <3>1 DEF Inv, Types, HitCnt
  <2>3. CASE ~handled[q]
    <3>1. /\ test[q].home = stage /\ pc # "waitmain"
          /\ \/ test[q].stage = stage /\ pc \in {"loop", "wait", "abandon"}
             \/ test[q].stage = "READSYMBEX" /\ pc \in {"symbex", "waitsymbex"}
          /\ test[q].stage = "FLIP8" => mod_off[q] = test[q].pos /\ test[q].pos \in 0 .. LEN - 1
      BY <1>1, <2>3, Zenon DEF Inv, OpenTests, Waiting
    <3>2. HandleOneTestDone(q, test[q].stage) /\ Types
      BY <2>3, Zenon DEF ProcessUnhandled, Inv
    <3> QED BY <2>1, <3>1, <3>2, JudgeKeeps, Zenon
  <2> QED BY <2>2, <2>3, Zenon
<1>4. Types'
  <2>1. queue_cur' \in 1 .. Len(queue')
    BY <1>1, <1>2, <1>3 DEF Inv, Types
  <2>2. mod_off' \in [Qemu -> 0 .. NoOff]
    BY <1>1, FuzzOneAssumption DEF Inv, Types, ModOff, NoOff
  <2>3. result' \in [Qemu -> Outcome]
    BY <1>1, Zenon DEF Inv, Types, Outcome
  <2>4. Idle \in [stage : Stage \cup {"READSYMBEX", "NONE"},
                  home : Stage \cup {"NONE"}, pos : 0 .. NoOff]
    BY FuzzOneAssumption DEF Idle, NoOff
  <2>5. test' \in [Qemu -> [stage : Stage \cup {"READSYMBEX", "NONE"},
                            home : Stage \cup {"NONE"}, pos : 0 .. NoOff]]
    BY <1>1, <2>4, Zenon DEF Inv, Types
  <2> QED BY <1>1, <1>3, <2>1, <2>2, <2>3, <2>5, Zenon DEF Inv, Types
<1>5. OpenTests'
  <2>1. ASSUME NEW r \in Qemu, ~handled'[r]
        PROVE  ~handled[r] /\ test'[r] = test[r] /\ mod_off'[r] = mod_off[r]
    BY <1>1, <2>1, Zenon DEF Inv, Types, DispInv, DispTypes
  <2>2. \A r \in Qemu : handled[r] => handled'[r]
    BY <1>1, Zenon DEF Inv, DispInv, DispTypes
  <2> QED BY <1>1, <2>1, <2>2 DEF Inv, OpenTests
<1>6. Credited'
  <2>1. pc' = "waitmain" => ~InStage'
    BY Zenon DEF InStage
  <2> QED BY <1>1, <1>3, <2>1, Zenon DEF Credited
<1>7. Effects'
  BY <1>1, <1>3, Zenon DEF Effects, Inv, Waiting
<1> QED BY <1>1, <1>4, <1>5, <1>6, <1>7, Zenon DEF Inv

LEMMA ExecuteStep == ASSUME Inv, NEW q \in Qemu, Execute(q) PROVE Inv'
<1>1. /\ DispInv' /\ handled' = handled
      /\ UNCHANGED <<pc, cur_depth, queue_cur, stop_soon, stage, todo, orig_hit_cnt,
                     queue, unique_crashes, g_eff_map, found, effects, mod_off, test>>
  BY ReportKeeps, Zenon DEF Inv, Execute, mainVars, stageVars, judgeVars
<1>2. result' \in [Qemu -> Outcome]
  BY Zenon DEF Execute, Inv, Types
<1>3. Types'
  BY <1>1, <1>2, Zenon DEF Inv, Types
<1>4. OpenTests' /\ Credited' /\ Effects'
  BY <1>1, Zenon DEF Inv, OpenTests, Credited, Effects, HitCnt, InStage
<1> QED BY <1>1, <1>3, <1>4, Zenon DEF Inv

(* The barrier ends: every test is judged, and the map may be filled in.   *)
LEMMA BarrierStep == ASSUME Inv, BarrierDone PROVE Inv'
<1>1. /\ DispInv' /\ handled' = handled /\ \A q \in Qemu : handled[q]
      /\ UNCHANGED <<cur_depth, queue_cur, stop_soon, stage, todo, orig_hit_cnt,
                     queue, unique_crashes, found, effects, mod_off, test, result>>
  BY BarrierKeeps, Zenon DEF Inv, BarrierDone, mainVars, stageVars
<1>2. \/ pc = "wait" /\ pc' \in {"symbex", "collect"}
      \/ pc = "waitsymbex" /\ pc' = "collect"
      \/ pc = "waitmain" /\ pc' = "next"
  BY Zenon DEF BarrierDone, Waiting
<1>3. Types'
  BY <1>1, <1>2, Zenon DEF Inv, Types
<1>4. OpenTests'
  BY <1>1, <1>2, Zenon DEF OpenTests
<1>5. Credited'
  BY <1>1, <1>2, Zenon DEF Inv, Credited, HitCnt, InStage
<1>6. \A p \in effects' : EFF_APOS(p) \in g_eff_map'
  BY <1>1, CellsInMap, Zenon DEF BarrierDone, Inv, Types, Effects
<1>7. Effects'
  BY <1>1, <1>2, <1>6, Zenon DEF Effects, Inv
<1> QED BY <1>1, <1>3, <1>4, <1>5, <1>7, Zenon DEF Inv

(* A stage begins, with every test judged and, up to FLIP8, no effect.     *)
LEMMA EnterStep ==
    ASSUME Inv, NEW s \in Stage, Enter(s), \A q \in Qemu : handled[q],
           queue' \in Seq(QueueEntry), Len(queue') = Len(queue), cur_depth' \in Nat,
           effects' = effects, s \in {"FLIP1", "FLIP8"} => effects = {}
    PROVE  Inv'
<1>1. /\ pc' = "loop" /\ stage' = s /\ todo' = Positions(s)
      /\ orig_hit_cnt' = HitCnt /\ found' = 0
      /\ g_eff_map' = IF s = "FLIP8" THEN {0, EFF_APOS(LEN - 1)} ELSE g_eff_map
      /\ UNCHANGED <<dispVars, unique_crashes, queue_cur, stop_soon, mod_off, test, result>>
  BY Zenon DEF Enter, mainVars, qemuVars
<1>2. DispInv'
  BY <1>1, DispatchIdles, Zenon DEF Inv
<1>3. HitCnt \in Nat /\ HitCnt' = HitCnt
  BY <1>1 DEF HitCnt, Inv, Types
<1>4. Types'
  BY <1>1, <1>3, PositionsInInput, Zenon DEF Inv, Types
<1>5. OpenTests'
  BY <1>1, Zenon DEF OpenTests, dispVars
<1>6. Credited'
  BY <1>1, <1>3 DEF Credited
<1>7. Effects'
  <2>1. CASE s = "FLIP8"
    BY <1>1, <2>1, Zenon DEF Effects
  <2>2. CASE s # "FLIP8"
    BY <1>1, <2>2, Zenon DEF Effects, Inv
  <2> QED BY <2>1, <2>2, Zenon
<1> QED BY <1>2, <1>4, <1>5, <1>6, <1>7, Zenon DEF Inv

-----------------------------------------------------------------------------
LEMMA InitInv == Init => Inv
<1> SUFFICES ASSUME Init PROVE Inv
  BY Zenon
<1>1. DispInv
  <2>1. <<>> \in Seq(Qemu) /\ Len(<<>>) = 0 /\ 0 \in Qemu
    BY NAssumption DEF Qemu
  <2>2. \A q : ~Has(fifo, q)
    BY DEF Init, Has
  <2>3. handled \in [Qemu -> BOOLEAN] /\ (\A q \in Qemu : handled[q]) /\ Distinct(fifo)
    BY DEF Init, Distinct
  <2>4. DispTypes
    BY <2>1, <2>3, Zenon DEF Init, DispTypes
  <2> QED BY <2>2, <2>3, <2>4, Zenon DEF Init, DispInv
<1>2. Types
  <2>1. queue \in Seq(QueueEntry) /\ Len(queue) = 1
    BY DEF Init, QueueEntry
  <2>2. Idle \in [stage : Stage \cup {"READSYMBEX", "NONE"},
                  home : Stage \cup {"NONE"}, pos : 0 .. NoOff]
    BY FuzzOneAssumption DEF Idle, NoOff
  <2>3. mod_off \in [Qemu -> 0 .. NoOff] /\ result \in [Qemu -> Outcome]
    BY FuzzOneAssumption DEF Init, NoOff, Outcome
  <2>4. test \in [Qemu -> [stage : Stage \cup {"READSYMBEX", "NONE"},
                           home : Stage \cup {"NONE"}, pos : 0 .. NoOff]]
    BY <2>2, Zenon DEF Init
  <2>5. queue_cur \in 1 .. Len(queue)
    BY <2>1 DEF Init
  <2> QED BY <2>1, <2>3, <2>4, <2>5, StageNames, Zenon DEF Init, Types
<1>3. OpenTests /\ Credited /\ Effects
  BY Zenon DEF Init, OpenTests, Credited, InStage, Effects
<1> QED BY <1>1, <1>2, <1>3, Zenon DEF Inv

(* Steps that dispatch and judge nothing and stay with the entry.          *)
LEMMA QuietStep ==
    ASSUME Inv, UNCHANGED <<dispVars, stage, todo, orig_hit_cnt, queue, unique_crashes,
                            g_eff_map, found, effects, mod_off, test, result>>,
           queue_cur' \in 1 .. Len(queue), cur_depth' \in Nat, stop_soon' \in BOOLEAN,
           stop_soon => stop_soon',
           \/ pc' = pc
           \/ pc = "main" /\ pc' \in {"stopped", "waitmain"}
           \/ pc = "loop" /\ pc' = "wait"
           \/ pc = "symbex" /\ pc' = "waitsymbex"
           \/ pc = "collect" /\ pc' = "splice"
           \/ pc = "next" /\ pc' = "main"
    PROVE  Inv'
<1>1. DispInv' /\ handled' = handled
  BY DispatchIdles, Zenon DEF Inv, dispVars
<1>2. Types'
  BY Zenon DEF Inv, Types
<1>3. OpenTests'
  BY <1>1, Zenon DEF Inv, OpenTests
<1>4. Credited' /\ Effects'
  BY Zenon DEF Inv, Credited, Effects, HitCnt, InStage
<1> QED BY <1>1, <1>2, <1>3, <1>4, Zenon DEF Inv

LEMMA WalkStep == ASSUME Inv, NEW q \in Qemu, NEW S, Walk(q, S) PROVE Inv'
<1>1. PICK p \in todo : CommonFuzzStuff(q, p) /\ todo' = todo \ {p}
  BY Zenon DEF Walk
<1>2. p \in 0 .. LEN - 1 /\ p \in 0 .. NoOff /\ stage \in Stage /\ stop_soon \in BOOLEAN
      /\ cur_depth \in Nat
  BY FuzzOneAssumption DEF Inv, Types, NoOff
<1>3. /\ pc = "loop" /\ Give(q, stage, p) /\ UNCHANGED <<stage, orig_hit_cnt, cur_depth>>
      /\ pc' = IF stop_soon THEN "abandon" ELSE "loop"
  BY <1>1, Zenon DEF CommonFuzzStuff
<1> QED BY <1>1, <1>2, <1>3, GiveStep, Zenon

LEMMA HavocStep == ASSUME Inv, NEW q \in Qemu, Havoc(q) PROVE Inv'
<1>1. /\ pc = "loop" /\ Give(q, stage, NoOff) /\ UNCHANGED <<stage, orig_hit_cnt, cur_depth, todo>>
      /\ pc' = IF stop_soon THEN "abandon" ELSE "loop"
      /\ stage \in {"HAVOC", "SPLICE"}
  BY Zenon DEF CommonFuzzStuff, Havoc, Random
<1>2. NoOff \in 0 .. NoOff /\ stage \in Stage /\ stop_soon \in BOOLEAN /\ cur_depth \in Nat
  BY FuzzOneAssumption DEF Inv, Types, NoOff
<1> QED BY <1>1, <1>2, GiveStep, Zenon

LEMMA ReadSymbexStep == ASSUME Inv, NEW q \in Qemu, ReadSymbex(q) PROVE Inv'
<1>1. /\ pc = "symbex" /\ Give(q, "READSYMBEX", NoOff) /\ pc' \in {"symbex", "waitsymbex"}
      /\ cur_depth' = 0 /\ UNCHANGED <<stage, orig_hit_cnt, todo>>
  BY Zenon DEF ReadSymbex, stageVars
<1>2. NoOff \in 0 .. NoOff
  BY FuzzOneAssumption DEF NoOff
<1> QED BY <1>1, <1>2, GiveStep, Zenon

LEMMA EntryUpdated ==
    ASSUME NEW S, NEW s \in Seq(S), NEW i \in 1 .. Len(s), NEW e \in S,
           NEW t, t = s \/ t = [s EXCEPT ![i] = e]
    PROVE  t \in Seq(S) /\ Len(t) = Len(s)
<1>1. s \in [1 .. Len(s) -> S] /\ Len(s) \in Nat
  OBVIOUS
<1>2. t \in [1 .. Len(s) -> S]
  BY <1>1, Zenon
<1> QED BY <1>1, <1>2

LEMMA CollectStep == ASSUME Inv, Collect PROVE Inv'
<1>1. pc = "collect" /\ UNCHANGED <<effects, cur_depth>> /\ \A q \in Qemu : handled[q]
  BY Zenon DEF Collect, Inv, OpenTests
<1>2. CASE stage \in Random
  BY <1>1, <1>2, QuietStep, Zenon DEF Collect, mainVars, qemuVars, Inv, Types
<1>3. CASE stage \notin Random
  <2>1. Enter(NextStage(stage)) /\ stage \in Stage \ Random
    BY <1>3, Zenon DEF Collect, Inv, Types
  <2>2. queue' \in Seq(QueueEntry) /\ Len(queue') = Len(queue)
    <3>1. queue[queue_cur] \in QueueEntry
      BY DEF Inv, Types
    <3>2. [queue[queue_cur] EXCEPT !.passed_det = TRUE] \in QueueEntry
      BY <3>1, Zenon DEF QueueEntry
    <3>3. queue' = queue \/ queue' = [queue EXCEPT ![queue_cur] =
                                          [queue[queue_cur] EXCEPT !.passed_det = TRUE]]
      BY <1>3, Zenon DEF Collect
    <3> DEFINE e == [queue[queue_cur] EXCEPT !.passed_det = TRUE]
    <3> HIDE DEF e
    <3>4. e \in QueueEntry /\ (queue' = queue \/ queue' = [queue EXCEPT ![queue_cur] = e])
      BY <3>2, <3>3, Zenon DEF e
    <3>5. queue \in Seq(QueueEntry) /\ queue_cur \in 1 .. Len(queue)
      BY Zenon DEF Inv, Types
    <3> QED BY <3>4, <3>5, EntryUpdated
  <2>3. NextStage(stage) \in {"FLIP1", "FLIP8"} => effects = {}
    BY <2>1, NextStageFacts, Zenon DEF Inv, Effects
  <2>4. NextStage(stage) \in Stage /\ cur_depth \in Nat
    BY <2>1, NextStageFacts, Zenon DEF Inv, Types
  <2> QED BY <1>1, <2>1, <2>2, <2>3, <2>4, EnterStep, Zenon
<1> QED BY <1>2, <1>3, Zenon

LEMMA FuzzOneStep == ASSUME Inv, FuzzOne PROVE Inv'
<1>1. /\ pc = "main" /\ cur_depth' = queue[queue_cur].depth /\ UNCHANGED <<queue, effects>>
      /\ \E s \in {"HAVOC", "FLIP1"} : Enter(s)
  BY Zenon DEF FuzzOne
<1>2. queue[queue_cur].depth \in Nat
  <2>1. queue[queue_cur] \in QueueEntry
    BY DEF Inv, Types
  <2> QED BY <2>1, Zenon DEF QueueEntry
<1>3. (\A q \in Qemu : handled[q]) /\ effects = {} /\ queue \in Seq(QueueEntry)
  BY <1>1, Zenon DEF Inv, OpenTests, Effects, Types
<1>4. {"HAVOC", "FLIP1"} \subseteq Stage
  BY StageNames, Zenon
<1> QED BY <1>1, <1>2, <1>3, <1>4, EnterStep, Zenon

LEMMA SpliceStep == ASSUME Inv, Splice PROVE Inv'
<1>1. pc = "splice" /\ Enter("SPLICE") /\ UNCHANGED <<queue, effects, cur_depth>>
  BY Zenon DEF Splice
<1>2. (\A q \in Qemu : handled[q]) /\ queue \in Seq(QueueEntry) /\ cur_depth \in Nat
  BY <1>1, Zenon DEF Inv, OpenTests, Types
<1> QED BY <1>1, <1>2, StageNames, EnterStep, Zenon

(* An entry that is abandoned by a stop signal leaves tests behind, which  *)
(* nobody judges any more.                                                 *)
LEMMA AbandonStep == ASSUME Inv, AbandonEntry PROVE Inv'
<1>1. /\ UNCHANGED <<dispVars, cur_depth, queue_cur, stop_soon, stage, todo, unique_crashes,
                     mod_off, test, result>>
      /\ found' = 0 /\ effects' = {} /\ orig_hit_cnt' = 0
      /\ pc \in {"abandon", "splice"}
  BY Zenon DEF AbandonEntry, mainVars, qemuVars
<1>2. pc' = "stopped" \/ (pc = "splice" /\ pc' = "waitmain")
  BY Zenon DEF AbandonEntry, Inv, OpenTests
<1>3. DispInv' /\ handled' = handled
  BY <1>1, DispatchIdles, Zenon DEF Inv, dispVars
<1>4. queue' \in Seq(QueueEntry) /\ Len(queue') = Len(queue)
  <2>1. queue[queue_cur] \in QueueEntry
    BY DEF Inv, Types
  <2>2. [queue[queue_cur] EXCEPT !.was_fuzzed = TRUE] \in QueueEntry
    BY <2>1, Zenon DEF QueueEntry
  <2>3. queue' = queue \/ queue' = [queue EXCEPT ![queue_cur] =
                                        [queue[queue_cur] EXCEPT !.was_fuzzed = TRUE]]
    BY Zenon DEF AbandonEntry
  <2> DEFINE e == [queue[queue_cur] EXCEPT !.was_fuzzed = TRUE]
  <2> HIDE DEF e
  <2>4. e \in QueueEntry /\ (queue' = queue \/ queue' = [queue EXCEPT ![queue_cur] = e])
    BY <2>2, <2>3, Zenon DEF e
  <2>5. queue \in Seq(QueueEntry) /\ queue_cur \in 1 .. Len(queue)
    BY Zenon DEF Inv, Types
  <2> QED BY <2>4, <2>5, EntryUpdated
<1>5. Types'
  BY <1>1, <1>2, <1>4, Zenon DEF Inv, Types
<1>6. OpenTests'
  BY <1>1, <1>2, <1>3, Zenon DEF Inv, OpenTests
<1>7. Credited' /\ Effects'
  BY <1>1, <1>2, Zenon DEF Credited, InStage, Effects
<1> QED BY <1>3, <1>5, <1>6, <1>7, Zenon DEF Inv

LEMMA InvHolds == Spec => []Inv
<1>1. ASSUME Inv, [Next]_vars PROVE Inv'
  <2>1. CASE UNCHANGED vars
    BY <1>1, <2>1, QuietStep, Zenon DEF vars, mainVars, stageVars, judgeVars, qemuVars, Inv, Types
  <2>2. CASE HandleStopSig
    BY <1>1, <2>2, QuietStep, Zenon DEF HandleStopSig, stageVars, judgeVars, qemuVars, Inv, Types
  <2>3. CASE EndLoop \/ EndSymbex \/ SkipEntry
    <3>1. /\ UNCHANGED <<dispVars, mainVars, stageVars, judgeVars, qemuVars>>
          /\ cur_depth' \in {cur_depth, 0}
          /\ \/ pc = "loop" /\ pc' = "wait"
             \/ pc = "symbex" /\ pc' = "waitsymbex"
             \/ pc = "main" /\ pc' \in {"stopped", "waitmain"}
      BY <2>3, Zenon DEF EndLoop, EndSymbex, SkipEntry
    <3>2. cur_depth \in Nat /\ stop_soon \in BOOLEAN /\ queue_cur \in 1 .. Len(queue)
      BY <1>1, Zenon DEF Inv, Types
    <3>3. cur_depth' \in Nat
      BY ONLY <3>1, <3>2
    <3> QED BY <1>1, <3>1, <3>2, <3>3, QuietStep, Zenon DEF mainVars, stageVars, judgeVars, qemuVars
  <2>4. CASE RetrySplicing
    BY <1>1, <2>4, QuietStep, Zenon DEF RetrySplicing, mainVars, judgeVars, qemuVars, Inv, Types
  <2>5. CASE NextEntry
    <3>1. queue_cur' \in 1 .. Len(queue)
      BY <1>1, <2>5 DEF NextEntry, Inv, Types
    <3> QED BY <1>1, <2>5, <3>1, QuietStep, Zenon DEF NextEntry, stageVars, judgeVars, qemuVars, Inv, Types
  <2>6. ASSUME NEW q \in Qemu,
               \/ WalkingBits(q) \/ WalkingByte(q) \/ WalkingWords(q)
               \/ Arithmetics(q) \/ KnownInts(q) \/ Dictionary(q)
        PROVE  Inv'
    BY <1>1, <2>6, WalkStep, Zenon
    DEF WalkingBits, WalkingByte, WalkingWords, Arithmetics, KnownInts, Dictionary
  <2> QED BY <1>1, <2>1, <2>2, <2>3, <2>4, <2>5, <2>6, HavocStep, DrainStep, ReadSymbexStep,
             ExecuteStep, BarrierStep, FuzzOneStep, CollectStep, SpliceStep, AbandonStep, ZenonT(60)
          DEF Next, AflStep
<1> QED BY <1>1, InitInv, PTL DEF Spec

-----------------------------------------------------------------------------
(* do_extra_handles finds the effector map of its entry and the offset of  *)
(* its test, for every result of FLIP8 that is still to be judged.         *)
THEOREM EffectorMapLive == Spec => []EffMapLive
<1>1. Inv => EffMapLive
  <2> SUFFICES ASSUME Inv, NEW q \in Qemu, ~handled[q], test[q].stage = "FLIP8", pc # "stopped"
               PROVE  g_eff_map # NoMap /\ mod_off[q] = test[q].pos
    BY Zenon DEF EffMapLive
  <2>1. stage = "FLIP8" /\ pc \in {"loop", "wait", "abandon"} /\ mod_off[q] = test[q].pos
    BY Zenon DEF Inv, OpenTests
  <2>2. 0 \in g_eff_map
    BY <2>1, Zenon DEF Inv, Effects
  <2> QED BY <2>1, <2>2, CellsInMap, Zenon DEF NoMap
<1> QED BY <1>1, InvHolds, PTL

(* The stages after FLIP8 see every byte whose flip showed new bits.       *)
THEOREM EffectsKept == Spec => []NoEffectLost
<1>1. Inv => NoEffectLost
  BY Zenon DEF Inv, Effects, NoEffectLost
<1> QED BY <1>1, InvHolds, PTL

(* stage_finds credits a stage with the finds of its own tests.            *)
THEOREM FindsCredited == Spec => []FindsAttributed
<1>1. Inv => FindsAttributed
  BY DEF Inv, Types, Credited, InStage, FindsAttributed, StageFinds
<1> QED BY <1>1, InvHolds, PTL
=============================================================================
