------------------------------- MODULE Symbex -------------------------------
(***************************************************************************)
(* The directory through which drill runs hand testcases to afl-fuzz.  On  *)
(* one side FuzzyS2E::onStateFork in every QEMU: checkRedundantFast,       *)
(* generateCaseFile.  On the other afl-fuzz: cleanupSymbexDir at start-up  *)
(* and read_symbex_testcases between the stages of fuzz_one.  Nothing      *)
(* locks the directory: a QEMU may be writing the file that is being read. *)
(***************************************************************************)
EXTENDS Integers, FiniteSets, Functions

CONSTANTS
    Qemu,            \* the QEMU processes
    Addr, Cons,      \* branch addresses and constraints of siblings
    Known,           \* the constraints that significant states have
    MaxGen,          \* files a QEMU generates in the model
    MaxHits,         \* forks at one address of one drill run in the model
    Flushes          \* write calls per file: one up to the size of the stream's buffer

ASSUME SymbexAssumption ==
    /\ MaxGen \in Nat /\ MaxHits \in Nat /\ Flushes \in Nat \ {0}
    /\ Known \subseteq Cons /\ IsFiniteSet(Qemu)

(* pid-id.                                                                 *)
Name == Qemu \X (1 .. MaxGen)

(* The bucket of checkLoopBucketFast for a hit count.                      *)
Bucket(h) ==
    CASE h <= 2   -> h
      [] h <= 4   -> 3
      [] h <= 8   -> 4
      [] h <= 16  -> 5
      [] h <= 32  -> 6
      [] h <= 64  -> 7
      [] h <= 128 -> 8
      [] h <= 256 -> 9
      [] OTHER    -> 10

VARIABLES
    drill,           \* the QEMUs in a drill run
    hits,            \* pc_hits of that run
    buckets,         \* m_dril_inputsizeLB
    drillHash,       \* m_drill_ConHash
    next,            \* the id of the next sibling state
    writing,         \* the file a QEMU has open, or NoFile
    cons,            \* the constraint this session generated a file for, or NoFile
    dir,             \* the names in the directory
    flushed,         \* the write calls that have filled a file
    pc,              \* afl-fuzz
    left, seen,      \* what readdir must still return, and has returned
    entry,           \* the entry being handled, or NoFile
    runs,            \* the dispatches of a file: how much of it, each time
    stop_soon

qemuVars == <<drill, hits, buckets, drillHash, next, writing, cons>>
aflVars  == <<pc, left, seen, entry, runs, stop_soon>>
vars     == <<qemuVars, dir, flushed, aflVars>>

NoFile == <<>>

(* Earlier sessions left any files, some cut short, also under names that  *)
(* the QEMUs of this session will use: pids come round again.              *)
Init ==
    /\ drill = {} /\ hits = [q \in Qemu |-> [a \in Addr |-> 0]]
    /\ buckets = [q \in Qemu |-> {}] /\ drillHash = [q \in Qemu |-> {}]
    /\ next = [q \in Qemu |-> 1] /\ writing = [q \in Qemu |-> NoFile]
    /\ cons = [n \in Name |-> NoFile]
    /\ dir \in SUBSET Name /\ flushed \in [Name -> 0 .. Flushes]
    /\ \A n \in Name : n \notin dir => flushed[n] = 0
    /\ pc = "start" /\ left = {} /\ seen = {} /\ entry = NoFile
    /\ runs = [n \in Name |-> {}] /\ stop_soon = FALSE

-----------------------------------------------------------------------------
(* A QEMU.  A drill run is one test with forking enabled (FuzzyS2E); its   *)
(* pc_hits go with its state.                                              *)
StartDrill(q) ==
    /\ pc \notin {"start", "stopped"} /\ q \notin drill
    /\ drill' = drill \cup {q}
    /\ UNCHANGED <<hits, buckets, drillHash, next, writing, cons, dir, flushed, aflVars>>

EndDrill(q) ==
    /\ q \in drill /\ writing[q] = NoFile
    /\ drill' = drill \ {q} /\ hits' = [hits EXCEPT ![q] = [a \in Addr |-> 0]]
    /\ UNCHANGED <<buckets, drillHash, next, writing, cons, dir, flushed, aflVars>>

(* checkRedundantFast: the bucket is marked before the constraint is       *)
(* looked for, first among those of earlier drill runs, then among those   *)
(* of the significant states.                                              *)
(* Mutant: m_drill_ConHash is not looked at.                               *)
CheckRedundantForgets(q, a, e) ==
    \/ <<a, Bucket(hits'[q][a])>> \in buckets[q]
    \/ e \in Known

CheckRedundantFast(q, a, e) ==
    \/ <<a, Bucket(hits'[q][a])>> \in buckets[q]
    \/ e \in drillHash[q]
    \/ e \in Known

(* onStateFork.  A sibling that is not redundant is solved for, which may  *)
(* fail; its file is created, or truncated, under the sibling's id.        *)
StateFork(q, a, e) ==
    /\ q \in drill /\ writing[q] = NoFile /\ next[q] <= MaxGen /\ hits[q][a] < MaxHits
    /\ hits' = [hits EXCEPT ![q][a] = @ + 1]
    /\ buckets' = [buckets EXCEPT ![q] = @ \cup {<<a, Bucket(hits'[q][a])>>}]
    /\ IF CheckRedundantFast(q, a, e)
       THEN UNCHANGED <<drillHash, next, writing, cons, dir, flushed>>
       ELSE /\ drillHash' = [drillHash EXCEPT ![q] = @ \cup {e}]
            /\ \/ UNCHANGED <<next, writing, cons, dir, flushed>>
               \/ LET n == <<q, next[q]>>
                  IN  /\ next' = [next EXCEPT ![q] = @ + 1]
                      /\ writing' = [writing EXCEPT ![q] = n]
                      /\ cons' = [cons EXCEPT ![n] = <<e>>]
                      /\ dir' = dir \cup {n} /\ flushed' = [flushed EXCEPT ![n] = 0]
    /\ UNCHANGED <<drill, aflVars>>

(* The stream is flushed when its buffer is full and when it is closed.    *)
Flush(q) ==
    /\ writing[q] # NoFile
    /\ flushed' = [flushed EXCEPT ![writing[q]] = @ + 1]
    /\ writing' = IF flushed'[writing[q]] = Flushes
                  THEN [writing EXCEPT ![q] = NoFile] ELSE writing
    /\ UNCHANGED <<drill, hits, buckets, drillHash, next, cons, dir, aflVars>>

-----------------------------------------------------------------------------
(* afl-fuzz.  Start-up removes the files that are not empty.               *)
(* Mutant: nothing is removed.                                             *)
CleanupSymbexDirNot ==
    /\ pc = "start" /\ pc' = "fuzz"
    /\ UNCHANGED <<qemuVars, dir, flushed, left, seen, entry, runs, stop_soon>>

CleanupSymbexDir ==
    /\ pc = "start" /\ pc' = "fuzz"
    /\ dir' = {n \in dir : flushed[n] = 0} /\ flushed' = [n \in Name |-> 0]
    /\ UNCHANGED <<qemuVars, left, seen, entry, runs, stop_soon>>

(* read_symbex_testcases: opendir.  (No closedir follows; the limit on     *)
(* descriptors is not modelled.)                                           *)
OpenDir ==
    /\ pc = "fuzz" /\ ~stop_soon
    /\ pc' = "read" /\ left' = dir /\ seen' = {}
    /\ UNCHANGED <<qemuVars, dir, flushed, entry, runs, stop_soon>>

(* readdir returns every name that is there all the time once, and may     *)
(* return one that appears meanwhile.  An empty file is left alone.        *)
Readdir(n) == pc = "read" /\ n \in dir \ seen /\ seen' = seen \cup {n} /\ left' = left \ {n}

(* Mutant: any file is.                                                    *)
SkipAny(n) ==
    /\ Readdir(n)
    /\ UNCHANGED <<qemuVars, dir, flushed, pc, entry, runs, stop_soon>>

SkipEmpty(n) ==
    /\ Readdir(n) /\ flushed[n] = 0
    /\ UNCHANGED <<qemuVars, dir, flushed, pc, entry, runs, stop_soon>>

(* Mutant: empty files are run.                                            *)
RunTestcaseAny(n) ==
    /\ Readdir(n)
    /\ pc' = "ran" /\ entry' = n
    /\ runs' = [runs EXCEPT ![n] = @ \cup {flushed[n]}]
    /\ UNCHANGED <<qemuVars, dir, flushed, stop_soon>>

(* Any other is written to a QEMU's testcase and run, at the size fstat    *)
(* found.                                                                  *)
RunTestcase(n) ==
    /\ Readdir(n) /\ flushed[n] # 0
    /\ pc' = "ran" /\ entry' = n
    /\ runs' = [runs EXCEPT ![n] = @ \cup {flushed[n]}]
    /\ UNCHANGED <<qemuVars, dir, flushed, stop_soon>>

(* Then it is unlinked, unless the user has stopped afl-fuzz.              *)
(* Mutant: it is not.                                                      *)
UnlinkNot ==
    /\ pc = "ran" /\ entry' = NoFile
    /\ pc' = IF stop_soon THEN "fuzz" ELSE "read"
    /\ UNCHANGED <<qemuVars, dir, flushed, left, seen, runs, stop_soon>>

Unlink ==
    /\ pc = "ran" /\ entry' = NoFile
    /\ IF stop_soon THEN pc' = "fuzz" /\ UNCHANGED dir
                    ELSE pc' = "read" /\ dir' = dir \ {entry}
    /\ UNCHANGED <<qemuVars, flushed, left, seen, runs, stop_soon>>

EndDir ==
    /\ pc = "read" /\ left \cap dir = {}
    /\ pc' = "fuzz" /\ left' = {} /\ seen' = {}
    /\ UNCHANGED <<qemuVars, dir, flushed, entry, runs, stop_soon>>

(* handle_stop_sig, and the end of the main loop.                          *)
HandleStopSig ==
    /\ pc \notin {"start", "stopped"} /\ stop_soon' = TRUE
    /\ UNCHANGED <<qemuVars, dir, flushed, pc, left, seen, entry, runs>>

StopFuzzing ==
    /\ pc = "fuzz" /\ stop_soon /\ pc' = "stopped" /\ left' = {} /\ seen' = {}
    /\ UNCHANGED <<qemuVars, dir, flushed, entry, runs, stop_soon>>

QemuStep(q) ==
    \/ StartDrill(q) \/ EndDrill(q) \/ Flush(q)
    \/ \E a \in Addr, e \in Cons : StateFork(q, a, e)

Afl ==
    \/ CleanupSymbexDir \/ OpenDir \/ EndDir \/ Unlink \/ StopFuzzing
    \/ \E n \in Name : SkipEmpty(n) \/ RunTestcase(n)

Next == Afl \/ HandleStopSig \/ \E q \in Qemu : QemuStep(q)

Spec == Init /\ [][Next]_vars

(* afl-fuzz keeps fuzzing, and so comes back to the directory; a QEMU that *)
(* has a file open finishes it.  Nothing makes a QEMU drill.               *)
FairSpec == Spec /\ WF_vars(Afl) /\ \A q \in Qemu : WF_vars(Flush(q))

-----------------------------------------------------------------------------
TypeOK ==
    /\ drill \subseteq Qemu /\ next \in [Qemu -> 1 .. MaxGen + 1]
    /\ writing \in [Qemu -> Name \cup {NoFile}] /\ entry \in Name \cup {NoFile}
    /\ dir \subseteq Name /\ left \subseteq Name /\ seen \subseteq Name
    /\ flushed \in [Name -> 0 .. Flushes] /\ runs \in [Name -> SUBSET (0 .. Flushes)]
    /\ pc \in {"start", "fuzz", "read", "ran", "stopped"} /\ stop_soon \in BOOLEAN

(* What afl-fuzz runs a QEMU of this session has solved for: what earlier  *)
(* sessions left is removed or never filled, also where a QEMU uses the    *)
(* same name again.                                                        *)
FreshRun == \A n \in Name : runs[n] # {} => cons[n] # NoFile

(* What afl-fuzz runs is what the solver found, not a file half written:   *)
(* true of the files that one write call fills.                            *)
RunWhole == \A n \in Name : runs[n] \subseteq {Flushes}

(* A file that a QEMU has finished is in the directory or has been run as  *)
(* a whole: what readdir finds while it is still empty is not unlinked.    *)
NoneLost ==
    \A n \in Name :
        flushed[n] = Flushes /\ cons[n] # NoFile => n \in dir \/ Flushes \in runs[n]

(* "delete file to avoid repeating testing": what is still in the          *)
(* directory has not been run, except for the one at hand, or at which the *)
(* user stopped afl-fuzz.                                                  *)
RunOnce == \A n \in dir : runs[n] # {} => n = entry \/ stop_soon

(* No QEMU solves the same branch twice, in whichever of its drill runs,   *)
(* nor one that a significant state has covered.                           *)
SolvedOnce ==
    \A q \in Qemu : \A i, j \in 1 .. next[q] - 1 :
        /\ cons[<<q, i>>] = cons[<<q, j>>] => i = j
        /\ \A e \in Known : cons[<<q, i>>] # <<e>>

(* Every file that a QEMU has finished is run, unless afl-fuzz is stopped. *)
AllRun ==
    \A n \in Name : flushed[n] = Flushes /\ n \in dir /\ pc # "start" ~> runs[n] # {} \/ stop_soon
=============================================================================
