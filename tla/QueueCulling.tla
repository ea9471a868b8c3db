---------------------------- MODULE QueueCulling ----------------------------
(***************************************************************************)
(* The favourites of afl-fuzz: update_bitmap_score lets a queue entry      *)
(* compete for the bytes of the map it hits, cull_queue picks winners that *)
(* together hit every byte, fuzz_one counts them off.  Both builds of      *)
(* afl-fuzz.c share this code.  They differ in what the global trace_bits  *)
(* holds when update_bitmap_score reads it, and in calibrate_case, which   *)
(* may fail in the build without QEMUs and leave an entry without a score. *)
(***************************************************************************)
EXTENDS Naturals, Sequences, FiniteSets

CONSTANTS
    MapSize,         \* MAP_SIZE
    MaxFactor,       \* bound on exec_us * len
    MaxEntries,      \* bound on the queue
    SkipAbove,       \* queue length up to which fuzz_one skips nothing (10)
    CAL_CHANCES,     \* calibrations an entry is given (3)
    CONFIG_S2E       \* the build: TRUE when QEMUs run the tests

ASSUME CullingAssumption ==
    /\ MapSize \in Nat /\ MaxFactor \in Nat /\ MaxEntries \in Nat
    /\ SkipAbove \in Nat /\ CAL_CHANCES \in Nat \ {0} /\ CONFIG_S2E \in BOOLEAN

Byte   == 0 .. MapSize - 1
NoOne  == 0                      \* top_rated[i] == NULL
NoMini == {MapSize}              \* trace_mini == NULL

VARIABLES
    pc,
    queue,        \* entries, with hits the bytes their own test hit
    queue_cur,
    top_rated, score_changed, queued_favored, pending_favored

vars == <<pc, queue, queue_cur, top_rated, score_changed, queued_favored,
          pending_favored>>

Entry == [hits : SUBSET Byte, factor : 0 .. MaxFactor, tc_ref : 0 .. MapSize,
          mini : (SUBSET Byte) \cup {NoMini}, favored : BOOLEAN, was_fuzzed : BOOLEAN,
          cal_failed : 0 .. CAL_CHANCES]

(* add_to_queue; factor is 0 and cal_failed is not if calibration fails.   *)
NewEntry(h, f, c) ==
    [hits |-> h, factor |-> f, tc_ref |-> 0, mini |-> NoMini,
     favored |-> FALSE, was_fuzzed |-> FALSE, cal_failed |-> c]

Init ==
    /\ pc = "start" /\ queue = <<>> /\ queue_cur = 1
    /\ top_rated = [i \in Byte |-> NoOne] /\ score_changed = FALSE
    /\ queued_favored = 0 /\ pending_favored = 0

-----------------------------------------------------------------------------
(* update_bitmap_score.                                                    *)

(* Mutant: a slower or longer input takes the byte.                        *)
LosesFlipped(s, e, i) ==
    s.top[i] # NoOne /\ s.q[e].factor <= s.q[s.top[i]].factor

(* The entry that holds byte i is better.                                  *)
Loses(s, e, i) == s.top[i] # NoOne /\ s.q[e].factor > s.q[s.top[i]].factor

(* Mutant: the previous winner keeps its reference.                        *)
DroppedNever(s, i) == s.q

(* The previous winner of byte i loses a reference, and with the last one  *)
(* its trace_mini.                                                         *)
Dropped(s, i) ==
    IF s.top[i] = NoOne THEN s.q
    ELSE [s.q EXCEPT ![s.top[i]].tc_ref = @ - 1,
                     ![s.top[i]].mini = IF s.q[s.top[i]].tc_ref = 1 THEN NoMini ELSE @]

(* Entry e becomes the winner of byte i.                                   *)
Win(s, e, i, bits) ==
    [q |-> [Dropped(s, i) EXCEPT ![e].tc_ref = @ + 1,
                                 ![e].mini = IF @ = NoMini THEN bits ELSE @],
     top |-> [s.top EXCEPT ![i] = e], changed |-> TRUE]

(* One round of the loop, for byte i.                                      *)
Contend(s, e, i, bits) == IF i \in bits /\ ~Loses(s, e, i) THEN Win(s, e, i, bits) ELSE s

(* The loop: queue, top_rated and score_changed after the bytes below n.   *)
UpdateBitmapScore(q, e, bits) ==
    LET upto[n \in 0 .. MapSize] ==
            IF n = 0 THEN [q |-> q, top |-> top_rated, changed |-> score_changed]
            ELSE Contend(upto[n - 1], e, n - 1, bits)
    IN  upto[MapSize]

Score(q, e, bits) ==
    LET s == UpdateBitmapScore(q, e, bits)
    IN  queue' = s.q /\ top_rated' = s.top /\ score_changed' = s.changed

(* The bytes update_bitmap_score finds set in the global trace_bits after  *)
(* a test that hit h.  With CONFIG_S2E the tests write to the segments of  *)
(* the QEMUs, and the one setup_shm attached stays as it was created.      *)
TraceBits(h) == IF CONFIG_S2E THEN {} ELSE h

-----------------------------------------------------------------------------
(* cull_queue.                                                             *)

(* The winner t is favored; left is temp_v.                                *)
Favor(s, t, left) ==
    [q |-> [s.q EXCEPT ![t].favored = TRUE], left |-> left, favored |-> s.favored + 1,
     pending |-> s.pending + (IF s.q[t].was_fuzzed THEN 0 ELSE 1)]

(* Mutant: the winners of bytes already hit are taken too.                 *)
PickAll(s, i) ==
    LET t == top_rated[i] IN
    IF t = NoOne THEN s ELSE Favor(s, t, s.left \ s.q[t].mini)

(* Mutant: a winner clears the bytes below its own as well.                *)
PickTooMuch(s, i) ==
    LET t == top_rated[i] IN
    IF t = NoOne \/ i \notin s.left THEN s
    ELSE Favor(s, t, {j \in s.left : \A k \in s.q[t].mini : j > k})

(* One round of the loop over top_rated.                                   *)
Pick(s, i) ==
    LET t == top_rated[i] IN
    IF t = NoOne \/ i \notin s.left THEN s ELSE Favor(s, t, s.left \ s.q[t].mini)

Culled(q) ==
    LET upto[n \in 0 .. MapSize] ==
            IF n = 0 THEN [q |-> q, left |-> Byte, favored |-> 0, pending |-> 0]
            ELSE Pick(upto[n - 1], n - 1)
    IN  upto[MapSize]

(* main calls cull_queue before every entry, then fuzz_one.                *)
CullQueue ==
    /\ pc \in {"start", "next"} /\ queue # <<>>
    /\ pc' = "fuzz_one"
    /\ \/ ~score_changed /\ UNCHANGED <<queue, score_changed, queued_favored, pending_favored>>
       \/ LET s == Culled([i \in 1 .. Len(queue) |-> [queue[i] EXCEPT !.favored = FALSE]])
          IN  /\ score_changed
              /\ queue' = s.q /\ score_changed' = FALSE
              /\ queued_favored' = s.favored /\ pending_favored' = s.pending
    /\ UNCHANGED <<queue_cur, top_rated>>

-----------------------------------------------------------------------------
(* A test, in the dry run or in fuzz_one, shows new bits.  Its calibration *)
(* scores it, or fails: a seed is then given up, a find is tried again.    *)
SaveIfInteresting ==
    /\ pc \in {"start", "fuzz"} /\ Len(queue) < MaxEntries
    /\ \E h \in SUBSET Byte :
          /\ h # {}
          /\ \/ \E f \in 1 .. MaxFactor :
                    Score(Append(queue, NewEntry(h, f, 0)), Len(queue) + 1, TraceBits(h))
             \/ /\ ~CONFIG_S2E
                /\ queue' = Append(queue, NewEntry(h, 0, IF pc = "start" THEN CAL_CHANCES ELSE 1))
                /\ UNCHANGED <<top_rated, score_changed>>
    /\ UNCHANGED <<pc, queue_cur, queued_favored, pending_favored>>

(* fuzz_one takes queue_cur up.  If its calibration failed earlier on, it  *)
(* is calibrated once more, CAL_CHANCES times in all, and fuzzed only if   *)
(* that scores it.                                                         *)
CalibrateAgain ==
    /\ pc = "fuzz_one" /\ UNCHANGED <<queued_favored, pending_favored>>
    /\ \/ /\ queue[queue_cur].cal_failed = 0
          /\ pc' = "fuzz"
          /\ UNCHANGED <<queue, queue_cur, top_rated, score_changed>>
       \/ /\ queue[queue_cur].cal_failed \in 1 .. CAL_CHANCES - 1
          /\ \E f \in 1 .. MaxFactor :
                Score([queue EXCEPT ![queue_cur].factor = f, ![queue_cur].cal_failed = 0],
                      queue_cur, TraceBits(queue[queue_cur].hits))
          /\ pc' = "fuzz" /\ UNCHANGED queue_cur
       \/ /\ queue[queue_cur].cal_failed # 0
          /\ queue' = IF queue[queue_cur].cal_failed < CAL_CHANCES
                      THEN [queue EXCEPT ![queue_cur].cal_failed = @ + 1] ELSE queue
          /\ queue_cur' = (queue_cur % Len(queue)) + 1
          /\ pc' = "next"
          /\ UNCHANGED <<top_rated, score_changed>>

(* trim_case shortens queue_cur without changing its path.  The S2E build  *)
(* sets trim_done before fuzz_one tests it.                                *)
TrimCase ==
    /\ pc = "fuzz" /\ ~CONFIG_S2E /\ queue[queue_cur].factor > 0
    /\ Score([queue EXCEPT ![queue_cur].factor = @ - 1], queue_cur,
             TraceBits(queue[queue_cur].hits))
    /\ UNCHANGED <<pc, queue_cur, queued_favored, pending_favored>>

(* fuzz_one is done with queue_cur; main moves on to the next entry.       *)
AbandonEntry ==
    /\ pc = "fuzz"
    /\ queue' = [queue EXCEPT ![queue_cur].was_fuzzed = TRUE]
    /\ pending_favored' = IF queue[queue_cur].favored /\ ~queue[queue_cur].was_fuzzed
                          THEN pending_favored - 1 ELSE pending_favored
    /\ queue_cur' = (queue_cur % Len(queue)) + 1
    /\ pc' = "next"
    /\ UNCHANGED <<top_rated, score_changed, queued_favored>>

(* fuzz_one may skip queue_cur: by chance, if it was fuzzed or is not      *)
(* favored while favored entries are pending, or if none is pending and it *)
(* is not favored in a queue of some length.                               *)
SkipEntry ==
    /\ pc = "fuzz_one"
    /\ IF pending_favored > 0 THEN queue[queue_cur].was_fuzzed \/ ~queue[queue_cur].favored
       ELSE ~queue[queue_cur].favored /\ Len(queue) > SkipAbove
    /\ queue_cur' = (queue_cur % Len(queue)) + 1
    /\ pc' = "next"
    /\ UNCHANGED <<queue, top_rated, score_changed, queued_favored, pending_favored>>

Next ==
    \/ SaveIfInteresting \/ CullQueue \/ SkipEntry \/ CalibrateAgain \/ TrimCase
    \/ AbandonEntry

Spec == Init /\ [][Next]_vars

-----------------------------------------------------------------------------
(* The values of the variables; pending_favored, which afl-fuzz only ever  *)
(* decrements by one, does not wrap below 0.                               *)
TypeOK ==
    /\ pc \in {"start", "fuzz_one", "fuzz", "next"}
    /\ queue \in Seq(Entry) /\ Len(queue) <= MaxEntries /\ queue_cur \in Nat
    /\ top_rated \in [Byte -> 0 .. MaxEntries] /\ score_changed \in BOOLEAN
    /\ queued_favored \in 0 .. MapSize /\ pending_favored \in 0 .. MapSize

Entries == 1 .. Len(queue)

(* tc_ref counts the bytes an entry holds in top_rated, and trace_mini is  *)
(* kept exactly as long as it holds one: cull_queue reads the trace_mini   *)
(* of every entry in top_rated.                                            *)
RefCounts ==
    \A e \in Entries :
        /\ queue[e].tc_ref = Cardinality({i \in Byte : top_rated[i] = e})
        /\ queue[e].mini = IF queue[e].tc_ref = 0 THEN NoMini ELSE queue[e].hits

Calibrated == {e \in Entries : queue[e].cal_failed = 0}

(* Every byte that a calibrated entry hits is held by a calibrated entry   *)
(* with the best factor of those that hit it ("We win that slot if there   *)
(* is no previous contender, or if the contender has a more favorable      *)
(* speed x size factor"), whatever was trimmed, calibrated again or given  *)
(* up since.                                                               *)
BestHolds ==
    \A e \in Calibrated : \A i \in queue[e].hits :
        /\ top_rated[i] \in Calibrated /\ i \in queue[top_rated[i]].hits
        /\ queue[top_rated[i]].factor <= queue[e].factor

(* As long as the scores stand, the favored entries hit every byte that a  *)
(* calibrated entry hits ("a minimal set of paths that trigger all the     *)
(* bits seen in the bitmap so far").                                       *)
FavoredCover ==
    pc \in {"fuzz_one", "fuzz"} /\ ~score_changed =>
        \A e \in Calibrated : \A i \in queue[e].hits :
            \E g \in Entries : queue[g].favored /\ i \in queue[g].hits

(* pending_favored, which decides what fuzz_one skips, is the number of    *)
(* favored entries not fuzzed yet, and queued_favored that of all favored. *)
PendingExact ==
    /\ pending_favored = Cardinality({e \in Entries : queue[e].favored /\ ~queue[e].was_fuzzed})
    /\ queued_favored = Cardinality({e \in Entries : queue[e].favored})
=============================================================================
