---------------------------- MODULE SymbexProofs ----------------------------
(***************************************************************************)
(* The directory of generated testcases, for any number of QEMUs, drill    *)
(* runs, branches and files: no branch is solved twice, no file is run     *)
(* twice and none that an earlier session left; if a file is filled by one *)
(* write, none is lost.                                                    *)
(***************************************************************************)
EXTENDS Symbex, TLAPS

(* The file n has not been generated yet.                                  *)
Unborn(n) == n[2] >= next[n[1]]

(* A file that is open is the youngest of its QEMU and not complete.       *)
Open(q, n) == n \in Name /\ n[1] = q /\ ~Unborn(n) /\ flushed[n] < Flushes

(* Names are used once: what is not generated is not open and was never    *)
(* run; if an earlier session left it, it is empty once afl-fuzz has       *)
(* started.                                                                *)
Names ==
    /\ \A q \in Qemu : writing[q] = NoFile \/ Open(q, writing[q])
    /\ \A n \in Name : Unborn(n) => cons[n] = NoFile /\ runs[n] = {}
    /\ \A n \in Name : Unborn(n) => pc = "start" \/ flushed[n] = 0
    /\ pc = "start" => drill = {} /\ \A q \in Qemu : next[q] = 1

(* The file at hand has been run.                                          *)
AtHand ==
    /\ entry = NoFile <=> pc # "ran"
    /\ pc = "ran" => runs[entry] # {} /\ flushed[entry] > 0

(* With one write per file: a file is complete or empty, an empty one      *)
(* stays where it is, and the file at hand was complete when it was run.   *)
Whole ==
    Flushes = 1 =>
        /\ \A q \in Qemu : writing[q] # NoFile => writing[q] \in dir
        /\ RunWhole /\ NoneLost
        /\ pc = "ran" => Flushes \in runs[entry]

(* m_drill_ConHash has every constraint that a file was generated for.     *)
Solved ==
    \A q \in Qemu : \A i \in 1 .. next[q] - 1 :
        \E e \in drillHash[q] \ Known : cons[<<q, i>>] = <<e>>

Types ==
    /\ TypeOK
    /\ drillHash \in [Qemu -> SUBSET Cons]
    /\ DOMAIN cons = Name

Inv == Types /\ Names /\ AtHand /\ RunOnce /\ Whole /\ Solved /\ SolvedOnce

-----------------------------------------------------------------------------
LEMMA NoFileIsNoName == NoFile \notin Name
  BY DEF NoFile, Name

(* A sequence of one constraint.                                           *)
LEMMA OneLong == ASSUME NEW a, NEW b, <<a>> = <<b>> PROVE a = b
OBVIOUS

LEMMA NameParts ==
    /\ \A n \in Name : n = <<n[1], n[2]>> /\ n[1] \in Qemu /\ n[2] \in 1 .. MaxGen
    /\ \A q \in Qemu, i \in 1 .. MaxGen :
          /\ <<q, i>> \in Name /\ <<q, i>>[1] = q /\ <<q, i>>[2] = i
  BY DEF Name

(* The steps that solve nothing.                                           *)
LEMMA SolvedKept ==
    ASSUME Solved, SolvedOnce, UNCHANGED <<drillHash, next, cons>>
    PROVE  Solved' /\ SolvedOnce'
<1>1. drillHash' = drillHash /\ next' = next /\ cons' = cons
  BY Zenon
<1>2. Solved'
  BY <1>1, Zenon DEF Solved
<1>3. SolvedOnce'
  BY <1>1, Zenon DEF SolvedOnce
<1> QED BY <1>2, <1>3, Zenon

LEMMA InitInv == Init => Inv
<1> SUFFICES ASSUME Init PROVE Inv
  BY Zenon
<1>1. Types
  <2>1. flushed \in [Name -> 0 .. Flushes] /\ next \in [Qemu -> 1 .. MaxGen + 1]
    BY SymbexAssumption DEF Init
  <2>2. writing \in [Qemu -> Name \cup {NoFile}] /\ entry \in Name \cup {NoFile}
    BY Zenon DEF Init
  <2>3. drill \subseteq Qemu /\ dir \subseteq Name /\ left \subseteq Name /\ seen \subseteq Name
    BY Zenon DEF Init
  <2>4. /\ runs \in [Name -> SUBSET (0 .. Flushes)] /\ drillHash \in [Qemu -> SUBSET Cons]
        /\ DOMAIN cons = Name
    BY Zenon DEF Init
  <2>5. pc \in {"start", "fuzz", "read", "ran", "stopped"} /\ stop_soon \in BOOLEAN
    BY Zenon DEF Init
  <2> QED BY <2>1, <2>2, <2>3, <2>4, <2>5, Zenon DEF Types, TypeOK
<1>2. Names
  BY SymbexAssumption, NameParts DEF Init, Names, Unborn
<1>3. AtHand /\ RunOnce /\ Solved /\ SolvedOnce
  BY DEF Init, AtHand, RunOnce, Solved, SolvedOnce
<1>4. Whole
  BY <1>1, NameParts, SymbexAssumption, Zenon DEF Init, Whole, RunWhole, NoneLost, Types, TypeOK
<1> QED BY <1>1, <1>2, <1>3, <1>4, Zenon DEF Inv

(* Steps of afl-fuzz that start or end something and touch no file.        *)
LEMMA QuietStep ==
    ASSUME Inv,
           \/ OpenDir \/ EndDir \/ StopFuzzing \/ HandleStopSig
           \/ \E n \in Name : SkipEmpty(n)
           \/ \E q \in Qemu : StartDrill(q) \/ EndDrill(q)
           \/ UNCHANGED vars
    PROVE  Inv'
<1>1. /\ UNCHANGED <<drillHash, next, writing, cons, dir, flushed, runs, entry>>
      /\ (pc = "ran") <=> (pc' = "ran")
      /\ (pc = "start") <=> (pc' = "start")
      /\ stop_soon => stop_soon'
  BY DEF OpenDir, EndDir, StopFuzzing, HandleStopSig, SkipEmpty, Readdir, StartDrill,
     EndDrill, vars, qemuVars, aflVars
<1>2. pc = "start" => drill' = drill
  BY Zenon DEF OpenDir, EndDir, StopFuzzing, HandleStopSig, SkipEmpty, Readdir, StartDrill,
     EndDrill, vars, qemuVars, aflVars, Inv, Names
<1>3. Types'
  BY <1>1, ZenonT(60) DEF Inv, Types, TypeOK, OpenDir, EndDir, StopFuzzing, HandleStopSig, SkipEmpty,
     Readdir, StartDrill, EndDrill, vars, qemuVars, aflVars
<1>4. Names'
  BY <1>1, <1>2, Zenon DEF Inv, Names, Open, Unborn
<1>5. AtHand' /\ RunOnce' /\ Solved' /\ SolvedOnce'
  BY <1>1 DEF Inv, AtHand, RunOnce, Solved, SolvedOnce
<1>6. Whole'
  BY <1>1, Zenon DEF Inv, Whole, RunWhole, NoneLost
<1> QED BY <1>3, <1>4, <1>5, <1>6, Zenon DEF Inv

LEMMA CleanupStep == ASSUME Inv, CleanupSymbexDir PROVE Inv'
<1>1. /\ UNCHANGED <<drill, drillHash, next, writing, cons, runs, entry, stop_soon>>
      /\ UNCHANGED <<left, seen>> /\ flushed' = [n \in Name |-> 0]
      /\ dir' = {n \in dir : flushed[n] = 0} /\ pc = "start" /\ pc' = "fuzz"
  BY Zenon DEF CleanupSymbexDir, qemuVars
<1>2. \A n \in Name : Unborn(n) /\ cons[n] = NoFile
  BY <1>1, NameParts DEF Inv, Names, Unborn, Types, TypeOK
<1>3. Types'
  <2>1. flushed' \in [Name -> 0 .. Flushes]
    BY <1>1, SymbexAssumption
  <2> QED BY <1>1, <2>1, Zenon DEF Inv, Types, TypeOK
<1>4. Names'
  <2>1. \A q \in Qemu : writing[q] = NoFile
    BY <1>2, Zenon DEF Inv, Names, Open
  <2> QED BY <1>1, <2>1, Zenon DEF Inv, Names, Unborn
<1>5. AtHand' /\ RunOnce' /\ Solved' /\ SolvedOnce'
  BY <1>1, SMTT(30) DEF Inv, AtHand, RunOnce, Solved, SolvedOnce
<1>6. Whole'
  BY <1>1, <1>2, Zenon DEF Inv, Whole, RunWhole, NoneLost, Names, Open
<1> QED BY <1>3, <1>4, <1>5, <1>6, Zenon DEF Inv

LEMMA FlushStep == ASSUME Inv, NEW q \in Qemu, Flush(q) PROVE Inv'
<1> DEFINE n == writing[q]
<1>1. /\ UNCHANGED <<drill, drillHash, next, cons, dir, aflVars>>
      /\ n # NoFile
      /\ flushed' = [flushed EXCEPT ![n] = @ + 1]
      /\ writing' = IF flushed'[n] = Flushes THEN [writing EXCEPT ![q] = NoFile] ELSE writing
  BY Zenon DEF Flush
<1>2. Open(q, n) /\ \A r \in Qemu : writing[r] = n => r = q
  BY <1>1 DEF Inv, Names, Open
<1>3. /\ n \in Name /\ ~Unborn(n)
      /\ flushed[n] \in Nat /\ flushed[n] < Flushes /\ flushed'[n] = flushed[n] + 1
      /\ \A m \in Name : m # n => flushed'[m] = flushed[m]
  BY <1>1, <1>2, SymbexAssumption DEF Open, Inv, Types, TypeOK
<1>4. /\ \A r \in Qemu : r # q => writing'[r] = writing[r]
      /\ writing'[q] \in {n, NoFile} /\ (writing'[q] = n => flushed'[n] < Flushes)
  BY <1>1, <1>3, NoFileIsNoName, SymbexAssumption DEF Inv, Types, TypeOK
<1>5. Types'
  <2>1. flushed' \in [Name -> 0 .. Flushes]
    BY <1>1, <1>3, SymbexAssumption DEF Inv, Types, TypeOK
  <2>2. writing' \in [Qemu -> Name \cup {NoFile}]
    BY <1>1, Zenon DEF Inv, Types, TypeOK
  <2> QED BY <1>1, <2>1, <2>2, Zenon DEF Inv, Types, TypeOK, aflVars
<1>6. Names'
  <2>1. \A r \in Qemu : writing'[r] = NoFile \/ Open(r, writing[r])'
    <3> SUFFICES ASSUME NEW r \in Qemu, writing'[r] # NoFile PROVE Open(r, writing[r])'
      BY Zenon
    <3>1. CASE r = q
      BY <3>1, <1>1, <1>2, <1>3, <1>4, Zenon DEF Open, Unborn
    <3>2. CASE r # q
      BY <3>2, <1>1, <1>2, <1>3, <1>4 DEF Inv, Names, Open, Unborn
    <3> QED BY <3>1, <3>2, Zenon
  <2>2. \A m \in Name : Unborn(m)' => cons'[m] = NoFile /\ runs'[m] = {}
    BY <1>1, Zenon DEF Inv, Names, Unborn, aflVars
  <2>3. \A m \in Name : Unborn(m)' => pc' = "start" \/ flushed'[m] = 0
    BY <1>1, <1>3, Zenon DEF Inv, Names, Unborn, aflVars
  <2>4. pc' = "start" => drill' = {} /\ \A r \in Qemu : next'[r] = 1
    BY <1>1, Zenon DEF Inv, Names, aflVars
  <2> QED BY <2>1, <2>2, <2>3, <2>4, Zenon DEF Names
<1>7. AtHand'
  BY <1>1, <1>3, NoFileIsNoName DEF Inv, AtHand, aflVars, Types, TypeOK
<1>8. RunOnce' /\ Solved' /\ SolvedOnce'
  <2>1. RunOnce'
    BY <1>1, Zenon DEF Inv, RunOnce, aflVars
  <2> QED BY <1>1, <2>1, SolvedKept, Zenon DEF Inv
<1>9. Whole'
  BY <1>1, <1>3, <1>4 DEF Inv, Whole, RunWhole, NoneLost, aflVars
<1> QED BY <1>5, <1>6, <1>7, <1>8, <1>9, Zenon DEF Inv

LEMMA RunTestcaseStep == ASSUME Inv, NEW n \in Name, RunTestcase(n) PROVE Inv'
<1>1. /\ UNCHANGED <<drill, drillHash, next, writing, cons, dir, flushed, stop_soon>>
      /\ n \in dir /\ flushed[n] # 0 /\ pc = "read" /\ pc' = "ran" /\ entry' = n
      /\ runs' = [runs EXCEPT ![n] = @ \cup {flushed[n]}]
      /\ left' = left \ {n} /\ seen' = seen \cup {n}
  BY Zenon DEF RunTestcase, Readdir, qemuVars
<1>2. /\ runs'[n] = runs[n] \cup {flushed[n]} /\ \A m \in Name : m # n => runs'[m] = runs[m]
      /\ flushed[n] \in 1 .. Flushes
  BY <1>1, SymbexAssumption DEF Inv, Types, TypeOK
<1>3. ~Unborn(n)
  BY <1>1, Zenon DEF Inv, Names
<1>4. Types'
  BY <1>1, <1>2 DEF Inv, Types, TypeOK
<1>5. Names'
  BY <1>1, <1>2, <1>3, Zenon DEF Inv, Names, Open, Unborn
<1>6. AtHand'
  BY <1>1, <1>2, NoFileIsNoName DEF AtHand
<1>7. RunOnce'
  <2>1. entry = NoFile /\ dir \subseteq Name
    BY <1>1, Zenon DEF Inv, AtHand, Types, TypeOK
  <2>2. \A m \in dir : runs[m] # {} => stop_soon
    BY <2>1, NoFileIsNoName, Zenon DEF Inv, RunOnce
  <2> QED BY <2>1, <2>2, <1>1, <1>2, Zenon DEF RunOnce
<1>8. Whole'
  BY <1>1, <1>2, <1>3 DEF Inv, Whole, RunWhole, NoneLost
<1>9. Solved' /\ SolvedOnce'
  BY <1>1, SolvedKept, Zenon DEF Inv
<1> QED BY <1>4, <1>5, <1>6, <1>7, <1>8, <1>9, Zenon DEF Inv

LEMMA UnlinkStep == ASSUME Inv, Unlink PROVE Inv'
<1>1. /\ UNCHANGED <<drill, drillHash, next, writing, cons, flushed, runs, stop_soon, left, seen>>
      /\ pc = "ran" /\ entry' = NoFile /\ pc' \in {"fuzz", "read"}
      /\ dir' \subseteq dir /\ \A n \in dir : n \in dir' \/ n = entry
      /\ stop_soon \/ entry \notin dir'
  BY Zenon DEF Unlink, qemuVars
<1>2. entry \in Name /\ flushed[entry] > 0 /\ runs[entry] # {}
  BY <1>1, Zenon DEF Inv, AtHand, Types, TypeOK
<1>3. Types'
  BY <1>1, Zenon DEF Inv, Types, TypeOK
<1>4. Names'
  BY <1>1, Zenon DEF Inv, Names, Open, Unborn
<1>5. AtHand' /\ RunOnce'
  BY <1>1, Zenon DEF Inv, AtHand, RunOnce
<1>6. Solved' /\ SolvedOnce'
  BY <1>1, SolvedKept, Zenon DEF Inv
<1>7. Whole'
  BY <1>1, <1>2, SymbexAssumption DEF Inv, Whole, RunWhole, NoneLost, Names, Open, Types, TypeOK
<1> QED BY <1>3, <1>4, <1>5, <1>6, <1>7, Zenon DEF Inv

(* The file under the next id: it is new, in the directory and empty, and  *)
(* made for a constraint that was in neither set before.                   *)
LEMMA GenerateStep ==
    ASSUME Inv, NEW q \in Qemu, NEW e \in Cons, NEW n, n = <<q, next[q]>>,
           q \in drill, next[q] <= MaxGen, writing[q] = NoFile,
           e \notin drillHash[q], e \notin Known,
           drillHash' = [drillHash EXCEPT ![q] = @ \cup {e}],
           next' = [next EXCEPT ![q] = @ + 1],
           writing' = [writing EXCEPT ![q] = n],
           cons' = [cons EXCEPT ![n] = <<e>>],
           dir' = dir \cup {n}, flushed' = [flushed EXCEPT ![n] = 0],
           UNCHANGED <<drill, aflVars>>
    PROVE  Inv'
<1>1. /\ UNCHANGED <<pc, left, seen, entry, runs, stop_soon>>
      /\ next[q] \in 1 .. MaxGen
      /\ n \in Name /\ n[1] = q /\ n[2] = next[q] /\ Unborn(n)
  BY NameParts, SymbexAssumption DEF aflVars, Inv, Types, TypeOK, Unborn
<1>2. pc # "start" /\ runs[n] = {} /\ flushed[n] = 0
  BY <1>1, Zenon DEF Inv, Names
<1>3. /\ next'[q] = next[q] + 1 /\ \A r \in Qemu : r # q => next'[r] = next[r]
      /\ writing'[q] = n /\ \A r \in Qemu : r # q => writing'[r] = writing[r]
      /\ drillHash'[q] = drillHash[q] \cup {e}
      /\ \A r \in Qemu : r # q => drillHash'[r] = drillHash[r]
      /\ cons'[n] = <<e>> /\ \A m \in Name : m # n => cons'[m] = cons[m]
      /\ flushed' = flushed
  BY <1>1, <1>2, ZenonT(60) DEF Inv, Types, TypeOK
<1>4. \A m \in Name : Unborn(m)' => Unborn(m) /\ m # n
  BY <1>1, <1>3, NameParts DEF Unborn, Inv, Types, TypeOK
<1>5. Types'
  <2>1. next' \in [Qemu -> 1 .. MaxGen + 1]
    BY <1>1, SymbexAssumption DEF Inv, Types, TypeOK
  <2>2. writing' \in [Qemu -> Name \cup {NoFile}] /\ drillHash' \in [Qemu -> SUBSET Cons]
    BY <1>1, Zenon DEF Inv, Types, TypeOK
  <2>3. DOMAIN cons' = Name /\ dir' \subseteq Name
    BY <1>1, Zenon DEF Inv, Types, TypeOK
  <2> QED BY <1>1, <1>3, <2>1, <2>2, <2>3 DEF Inv, Types, TypeOK
<1>6. Names'
  <2>1. \A r \in Qemu : writing'[r] = NoFile \/ Open(r, writing[r])'
    <3>1. Open(q, writing[q])'
      BY <1>1, <1>2, <1>3, SymbexAssumption DEF Open, Unborn, Inv, Types, TypeOK
    <3>2. ASSUME NEW r \in Qemu, r # q, writing[r] # NoFile PROVE Open(r, writing[r])'
      BY <3>2, <1>3, SMTT(30) DEF Inv, Names, Open, Unborn
    <3> QED BY <3>1, <3>2, <1>3, Zenon
  <2>2. \A m \in Name : Unborn(m)' => cons'[m] = NoFile /\ runs'[m] = {}
    BY <1>1, <1>3, <1>4, ZenonT(60) DEF Inv, Names
  <2>3. \A m \in Name : Unborn(m)' => pc' = "start" \/ flushed'[m] = 0
    BY <1>1, <1>3, <1>4, ZenonT(60) DEF Inv, Names
  <2>4. pc' # "start"
    BY <1>1, <1>2, Zenon
  <2> QED BY <2>1, <2>2, <2>3, <2>4, Zenon DEF Names
<1>7. AtHand'
  BY <1>1, <1>3, Zenon DEF Inv, AtHand
<1>8. RunOnce'
  BY <1>1, <1>2, Zenon DEF Inv, RunOnce
<1>9. Whole'
  BY <1>1, <1>2, <1>3, SymbexAssumption DEF Inv, Whole, RunWhole, NoneLost
<1>10. \A r \in Qemu : \A i \in 1 .. next'[r] - 1 :
           \/ r = q /\ i = next[q]
           \/ i \in 1 .. next[r] - 1 /\ <<r, i>> \in Name /\ <<r, i>> # n
  <2> SUFFICES ASSUME NEW r \in Qemu, NEW i \in 1 .. next'[r] - 1, ~(r = q /\ i = next[q])
               PROVE  i \in 1 .. next[r] - 1 /\ <<r, i>> \in Name /\ <<r, i>> # n
    BY Zenon
  <2>1. i \in 1 .. next[r] - 1 /\ next[r] \in 1 .. MaxGen + 1
    <3>1. next[r] \in 1 .. MaxGen + 1
      BY Zenon DEF Inv, Types, TypeOK
    <3>2. CASE r # q
      BY <3>1, <3>2, <1>3, Zenon
    <3>3. CASE r = q
      <4>1. i \in 1 .. (next[q] + 1) - 1 /\ i # next[q] /\ next[q] \in 1 .. MaxGen
        BY <3>3, <1>1, <1>3, Zenon
      <4>2. i \in 1 .. next[q] - 1
        BY ONLY <4>1, SymbexAssumption
      <4> QED BY <3>1, <3>3, <4>2, Zenon
    <3> QED BY <3>2, <3>3, Zenon
  <2>2. i \in 1 .. MaxGen
    BY <2>1, SymbexAssumption
  <2> QED BY <2>1, <2>2, NameParts, Zenon
<1>11. Solved'
  <2> SUFFICES ASSUME NEW r \in Qemu, NEW i \in 1 .. next'[r] - 1
               PROVE  \E f \in drillHash'[r] \ Known : cons'[<<r, i>>] = <<f>>
    BY Zenon DEF Solved
  <2>1. CASE r = q /\ i = next[q]
    BY <2>1, <1>3, Zenon
  <2>2. CASE i \in 1 .. next[r] - 1 /\ <<r, i>> \in Name /\ <<r, i>> # n
    <3>1. PICK f \in drillHash[r] \ Known : cons[<<r, i>>] = <<f>>
      BY <2>2, Zenon DEF Inv, Solved
    <3> QED BY <3>1, <2>2, <1>3, Zenon
  <2> QED BY <2>1, <2>2, <1>10, Zenon
<1>12. SolvedOnce'
  <2>1. ASSUME NEW r \in Qemu, NEW i \in 1 .. next'[r] - 1, NEW j \in 1 .. next'[r] - 1,
               cons'[<<r, i>>] = cons'[<<r, j>>]
        PROVE  i = j
    <3>1. CASE r = q /\ i = next[q] /\ j # next[q]
      <4>1. PICK f \in drillHash[q] : cons[<<q, j>>] = <<f>>
        BY <3>1, <1>10, Zenon DEF Inv, Solved
      <4>2. cons'[<<r, j>>] = <<f>>
        BY <4>1, <3>1, <1>3, <1>10, ZenonT(60)
      <4>3. cons'[<<r, i>>] = <<e>>
        BY <3>1, <1>3, Zenon
      <4>4. e = f
        BY <2>1, <4>2, <4>3, OneLong, Zenon
      <4> QED BY <4>1, <4>4, Zenon
    <3>2. CASE r = q /\ j = next[q] /\ i # next[q]
      <4>1. PICK f \in drillHash[q] : cons[<<q, i>>] = <<f>>
        BY <3>2, <1>10, Zenon DEF Inv, Solved
      <4>2. cons'[<<r, i>>] = <<f>>
        BY <4>1, <3>2, <1>3, <1>10, ZenonT(60)
      <4>3. cons'[<<r, j>>] = <<e>>
        BY <3>2, <1>3, Zenon
      <4>4. e = f
        BY <2>1, <4>2, <4>3, OneLong, Zenon
      <4> QED BY <4>1, <4>4, Zenon
    <3>3. CASE i \in 1 .. next[r] - 1 /\ j \in 1 .. next[r] - 1
               /\ <<r, i>> \in Name /\ <<r, i>> # n /\ <<r, j>> \in Name /\ <<r, j>> # n
      <4>1. cons'[<<r, i>>] = cons[<<r, i>>] /\ cons'[<<r, j>>] = cons[<<r, j>>]
        BY <3>3, <1>3, Zenon
      <4>2. cons[<<r, i>>] = cons[<<r, j>>] => i = j
        BY <3>3, Zenon DEF Inv, SolvedOnce
      <4> QED BY <2>1, <4>1, <4>2, Zenon
    <3> QED BY <3>1, <3>2, <3>3, <1>10, Zenon
  <2>2. \A r \in Qemu : \A i \in 1 .. next'[r] - 1 : \A f \in Known : cons'[<<r, i>>] # <<f>>
    <3> SUFFICES ASSUME NEW r \in Qemu, NEW i \in 1 .. next'[r] - 1, NEW f \in Known
                 PROVE  cons'[<<r, i>>] # <<f>>
      BY Zenon
    <3>1. PICK g \in drillHash'[r] \ Known : cons'[<<r, i>>] = <<g>>
      BY <1>11, Zenon DEF Solved
    <3> QED BY <3>1
  <2>3. SUFFICES ASSUME NEW r \in Qemu, NEW i \in 1 .. next'[r] - 1, NEW j \in 1 .. next'[r] - 1
                 PROVE  /\ cons'[<<r, i>>] = cons'[<<r, j>>] => i = j
                        /\ \A f \in Known : cons'[<<r, i>>] # <<f>>
    BY Zenon DEF SolvedOnce
  <2> QED BY <2>1, <2>2, Zenon
<1> QED BY <1>5, <1>6, <1>7, <1>8, <1>9, <1>11, <1>12, Zenon DEF Inv

LEMMA StateForkStep ==
    ASSUME Inv, NEW q \in Qemu, NEW a \in Addr, NEW e \in Cons, StateFork(q, a, e)
    PROVE  Inv'
<1>1. /\ q \in drill /\ writing[q] = NoFile /\ next[q] <= MaxGen
      /\ UNCHANGED <<drill, aflVars>>
  BY Zenon DEF StateFork
<1>2. CASE UNCHANGED <<next, writing, cons, dir, flushed>>
           /\ drillHash' \in {drillHash, [drillHash EXCEPT ![q] = @ \cup {e}]}
  <2>1. \A r \in Qemu : drillHash[r] \subseteq drillHash'[r]
    BY <1>2, Zenon DEF Inv, Types
  <2>2. Types'
    BY <1>1, <1>2 DEF Inv, Types, TypeOK, aflVars
  <2>3. Names' /\ AtHand' /\ RunOnce' /\ SolvedOnce'
    BY <1>1, <1>2 DEF Inv, Names, Open, Unborn, AtHand, RunOnce, SolvedOnce, aflVars
  <2>4. Whole'
    BY <1>1, <1>2, Zenon DEF Inv, Whole, RunWhole, NoneLost, aflVars
  <2>5. Solved'
    BY <1>2, <2>1, ZenonT(60) DEF Inv, Solved
  <2> QED BY <2>2, <2>3, <2>4, <2>5, Zenon DEF Inv
<1>3. CASE ~UNCHANGED <<next, writing, cons, dir, flushed>>
  <2> DEFINE n == <<q, next[q]>>
  <2>1. /\ e \notin drillHash[q] /\ e \notin Known
        /\ drillHash' = [drillHash EXCEPT ![q] = @ \cup {e}]
        /\ next' = [next EXCEPT ![q] = @ + 1] /\ writing' = [writing EXCEPT ![q] = n]
        /\ cons' = [cons EXCEPT ![n] = <<e>>]
        /\ dir' = dir \cup {n} /\ flushed' = [flushed EXCEPT ![n] = 0]
    BY <1>3, Zenon DEF StateFork, CheckRedundantFast
  <2> QED BY <1>1, <2>1, GenerateStep, Zenon
<1>4. UNCHANGED <<next, writing, cons, dir, flushed>>
          => drillHash' \in {drillHash, [drillHash EXCEPT ![q] = @ \cup {e}]}
  BY Zenon DEF StateFork
<1> QED BY <1>2, <1>3, <1>4, Zenon

LEMMA InvHolds == Spec => []Inv
<1>1. Inv /\ [Next]_vars => Inv'
  <2> SUFFICES ASSUME Inv, [Next]_vars PROVE Inv'
    BY Zenon
  <2>1. CASE Afl
    BY <2>1, QuietStep, CleanupStep, RunTestcaseStep, UnlinkStep, Zenon DEF Afl
  <2>2. CASE \E q \in Qemu : QemuStep(q)
    BY <2>2, QuietStep, FlushStep, StateForkStep, Zenon DEF QemuStep
  <2>3. CASE HandleStopSig \/ UNCHANGED vars
    BY <2>3, QuietStep, Zenon
  <2> QED BY <2>1, <2>2, <2>3, Zenon DEF Next
<1> QED BY InitInv, <1>1, PTL DEF Spec

(* read_symbex_testcases runs no file twice, whatever the QEMUs write      *)
(* meanwhile, unless the user stops it between the run and the unlink.     *)
THEOREM FilesRunOnce == Spec => []RunOnce
<1>1. Inv => RunOnce
  BY Zenon DEF Inv
<1> QED BY InvHolds, <1>1, PTL

(* checkRedundantFast: no QEMU solves a branch twice, in one drill run or  *)
(* in several.                                                             *)
THEOREM BranchesSolvedOnce == Spec => []SolvedOnce
<1>1. Inv => SolvedOnce
  BY Zenon DEF Inv
<1> QED BY InvHolds, <1>1, PTL

(* cleanupSymbexDir and the truncation of generateCaseFile: afl-fuzz runs  *)
(* no file that an earlier session left, under whatever names and however  *)
(* much of it had been written, and of the others none before a QEMU has   *)
(* solved for it.                                                          *)
THEOREM OnlyFreshFilesRun == Spec => []FreshRun
<1>1. Inv => FreshRun
  <2> SUFFICES ASSUME Inv, NEW n \in Name, runs[n] # {} PROVE cons[n] # NoFile
    BY Zenon DEF FreshRun
  <2>1. ~Unborn(n)
    BY Zenon DEF Inv, Names
  <2>2. n[1] \in Qemu /\ n[2] \in 1 .. next[n[1]] - 1 /\ n = <<n[1], n[2]>>
    BY <2>1, NameParts DEF Unborn, Inv, Types, TypeOK
  <2>3. PICK e \in drillHash[n[1]] \ Known : cons[<<n[1], n[2]>>] = <<e>>
    BY <2>2, Zenon DEF Inv, Solved
  <2>4. <<e>> # NoFile
    BY DEF NoFile
  <2> QED BY <2>2, <2>3, <2>4, Zenon
<1> QED BY InvHolds, <1>1, PTL

(* A file that the stream writes at once is not unlinked before it has     *)
(* been run.                                                               *)
THEOREM NoFileLost == ASSUME Flushes = 1 PROVE Spec => []NoneLost
<1>1. Inv => NoneLost
  BY Flushes = 1, Zenon DEF Inv, Whole
<1> QED BY InvHolds, <1>1, PTL
=============================================================================
