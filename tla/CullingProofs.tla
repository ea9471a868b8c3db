--------------------------- MODULE CullingProofs ----------------------------
(***************************************************************************)
(* The favourites of afl-fuzz, for every size of the map, queue and factor.*)
(* The loops of update_bitmap_score and cull_queue are recursive functions *)
(* over the bytes; what they leave behind is shown by induction over the   *)
(* byte they have reached.                                                 *)
(***************************************************************************)
EXTENDS QueueCulling, Integers, TLAPS

AnyEntry == [hits : SUBSET Byte, factor : Nat, tc_ref : Nat,
             mini : (SUBSET Byte) \cup {NoMini}, favored : BOOLEAN, was_fuzzed : BOOLEAN,
             cal_failed : Nat]

Queues(L) == [1 .. L -> AnyEntry]

(* Entry t of the queue gets another tc_ref and trace_mini.                *)
Ref(q, t, c, m) == [q EXCEPT ![t].tc_ref = c, ![t].mini = m]

(* What the other steps write to a queue before the scores.                *)
Extended(q, h, f, c) == Append(q, NewEntry(h, f, c))
Shorter(q, e)        == [q EXCEPT ![e].factor = @ - 1]
Recal(q, e, f, c)    == [q EXCEPT ![e].factor = f, ![e].cal_failed = c]
Failed(q, e)         == [q EXCEPT ![e].cal_failed = @ + 1]
MarkFuzzed(q, e)     == [q EXCEPT ![e].was_fuzzed = TRUE]

Holds(top, k) == {i \in Byte : top[i] = k}

(* The references of a queue of L entries are those of top_rated, and each *)
(* byte is held by a calibrated entry that hits it.                        *)
Good(L, q, top) ==
    /\ L \in Nat /\ q \in Queues(L) /\ top \in [Byte -> 0 .. L]
    /\ \A i \in Byte : top[i] # NoOne => i \in q[top[i]].hits /\ q[top[i]].cal_failed = 0
    /\ \A k \in 1 .. L :
          /\ q[k].tc_ref = Cardinality(Holds(top, k))
          /\ q[k].mini = IF q[k].tc_ref = 0 THEN NoMini ELSE q[k].hits

(* What update_bitmap_score leaves alone in the entries.                   *)
SameTests(L, q, r) ==
    \A k \in 1 .. L :
        /\ r[k].hits = q[k].hits /\ r[k].factor = q[k].factor
        /\ r[k].favored = q[k].favored /\ r[k].was_fuzzed = q[k].was_fuzzed
        /\ r[k].cal_failed = q[k].cal_failed

Cal(L, q) == {k \in 1 .. L : q[k].cal_failed = 0}

Best(L, q, top) ==
    \A k \in Cal(L, q) : \A i \in q[k].hits :
        top[i] # NoOne /\ q[top[i]].factor <= q[k].factor

Cover(L, q, top) ==
    \A i \in Byte : top[i] # NoOne =>
        \E g \in 1 .. L : q[g].favored /\ i \in q[g].hits

Fav(L, q)  == {k \in 1 .. L : q[k].favored}
Pend(L, q) == {k \in 1 .. L : q[k].favored /\ ~q[k].was_fuzzed}

Types ==
    /\ pc \in {"start", "fuzz_one", "fuzz", "next"} /\ score_changed \in BOOLEAN
    /\ Len(queue) \in Nat /\ queue \in Queues(Len(queue))
    /\ queue_cur \in Nat /\ queue_cur >= 1
    /\ IF Len(queue) = 0 THEN pc = "start" /\ queue_cur = 1 ELSE queue_cur <= Len(queue)
    /\ pc = "fuzz" => queue[queue_cur].cal_failed = 0

Counts ==
    /\ queued_favored = Cardinality(Fav(Len(queue), queue))
    /\ pending_favored = Cardinality(Pend(Len(queue), queue))

(* The inductive invariant of either build: as long as no score changes,   *)
(* the favored entries hit every byte that is held, wherever afl-fuzz is.  *)
Refs ==
    /\ Types /\ Good(Len(queue), queue, top_rated) /\ Counts
    /\ ~score_changed => Cover(Len(queue), queue, top_rated)

(* What the build without QEMUs adds to it: the winners are best.          *)
Won == Best(Len(queue), queue, top_rated)

(* What the build with QEMUs adds: nobody wins, and nobody is favored.     *)
NoneWon == (\A i \in Byte : top_rated[i] = NoOne) /\ Fav(Len(queue), queue) = {}

-----------------------------------------------------------------------------
(* What the proofs need of natural numbers and of cardinalities: proved    *)
(* from the library at the end, and a hypothesis of the lemmas before.     *)
Least == \A S \in SUBSET Nat : S # {} => \E m \in S : \A k \in S : ~(k < m)

Sizes ==
    /\ Cardinality({}) = 0
    /\ \A a, b \in Int : IsFiniteSet(a .. b)
    /\ \A S : IsFiniteSet(S) => Cardinality(S) \in Nat
    /\ \A S, T : IsFiniteSet(S) /\ T \subseteq S => IsFiniteSet(T)
    /\ \A S, x : IsFiniteSet(S) =>
          /\ x \notin S => Cardinality(S \cup {x}) = Cardinality(S) + 1
          /\ Cardinality(S \ {x}) = IF x \in S THEN Cardinality(S) - 1 ELSE Cardinality(S)

Facts == Least /\ Sizes

(* Induction, for a set instead of a predicate: the smallest number outside*)
(* the set has no predecessor outside it.                                  *)
LEMMA Induct ==
    ASSUME Facts, NEW S, 0 \in S, \A n \in Nat : n \in S => n + 1 \in S PROVE Nat \subseteq S
<1> SUFFICES ASSUME Nat \ S # {} PROVE FALSE
  BY Zenon
<1>1. PICK m \in Nat \ S : \A k \in Nat \ S : ~(k < m)
  <2>1. Nat \ S \in SUBSET Nat
    BY Zenon
  <2> QED BY <2>1, Zenon DEF Facts, Least
<1>2. m \in Nat /\ m # 0
  BY <1>1, Zenon
<1>3. m - 1 \in Nat /\ m - 1 < m /\ (m - 1) + 1 = m
  BY ONLY <1>2
<1> QED BY <1>1, <1>3, Zenon

LEMMA BytesFinite ==
    ASSUME Facts
    PROVE  /\ IsFiniteSet(Byte)
           /\ \A top, k : IsFiniteSet(Holds(top, k)) /\ Cardinality(Holds(top, k)) \in Nat
<1>1. IsFiniteSet(Byte)
  <2>1. 0 \in Int /\ MapSize - 1 \in Int
    BY CullingAssumption
  <2> QED BY <2>1, Zenon DEF Byte, Facts, Sizes
<1>2. ASSUME NEW top, NEW k
      PROVE  IsFiniteSet(Holds(top, k)) /\ Cardinality(Holds(top, k)) \in Nat
  <2>1. Holds(top, k) \subseteq Byte
    BY Zenon DEF Holds
  <2> QED BY <1>1, <2>1, Zenon DEF Facts, Sizes
<1> QED BY <1>1, <1>2, Zenon

LEMMA NoMiniOther == ASSUME NEW h \in SUBSET Byte PROVE h # NoMini
  BY CullingAssumption DEF NoMini, Byte

(* Byte i goes to e: e holds one more, the entry that held it one less.    *)
LEMMA HoldsMore ==
    ASSUME Facts, NEW top, NEW new, NEW i \in Byte, NEW e,
           top[i] # e, new[i] = e, \A j \in Byte : j # i => new[j] = top[j]
    PROVE  Cardinality(Holds(new, e)) = Cardinality(Holds(top, e)) + 1
<1>1. Holds(new, e) = Holds(top, e) \cup {i} /\ i \notin Holds(top, e)
  BY Zenon DEF Holds
<1>2. IsFiniteSet(Holds(top, e))
  BY BytesFinite, Zenon
<1>3. Cardinality(Holds(top, e) \cup {i}) = Cardinality(Holds(top, e)) + 1
  BY <1>1, <1>2, Zenon DEF Facts, Sizes
<1> QED BY <1>1, <1>3, Zenon

LEMMA HoldsLess ==
    ASSUME Facts, NEW top, NEW new, NEW i \in Byte, NEW e,
           top[i] # e, new[i] = e, \A j \in Byte : j # i => new[j] = top[j]
    PROVE  /\ Cardinality(Holds(top, top[i])) >= 1
           /\ Cardinality(Holds(new, top[i])) = Cardinality(Holds(top, top[i])) - 1
<1> DEFINE H == Holds(top, top[i])
           G == Holds(new, top[i])
<1>1. G = H \ {i} /\ i \in H
  BY DEF Holds
<1>2. IsFiniteSet(H) /\ Cardinality(H) \in Nat /\ Cardinality(G) \in Nat
  BY BytesFinite, Zenon
<1> HIDE DEF G, H
<1>3. Cardinality(G) = Cardinality(H) - 1
  BY <1>1, <1>2, Zenon DEF Facts, Sizes
<1> QED BY <1>2, <1>3 DEF G, H

-----------------------------------------------------------------------------
(* One entry of a queue loses or gains a reference.                        *)
LEMMA EntryRefs ==
    ASSUME NEW L \in Nat, NEW q \in Queues(L), NEW t \in 1 .. L,
           NEW c \in Nat, NEW m \in (SUBSET Byte) \cup {NoMini},
           NEW r, r = Ref(q, t, c, m)
    PROVE  /\ r \in Queues(L) /\ SameTests(L, q, r)
           /\ r[t].tc_ref = c /\ r[t].mini = m
           /\ \A k \in 1 .. L : k # t => r[k] = q[k]
<1>1. r = [q EXCEPT ![t] = [q[t] EXCEPT !.tc_ref = c, !.mini = m]]
  BY Zenon DEF Queues, AnyEntry, Ref
<1>2. q[t] \in AnyEntry
  BY Zenon DEF Queues
<1> DEFINE n == [q[t] EXCEPT !.tc_ref = c, !.mini = m]
<1>3. /\ n \in AnyEntry /\ n.tc_ref = c /\ n.mini = m /\ n.hits = q[t].hits
      /\ n.factor = q[t].factor /\ n.favored = q[t].favored
      /\ n.was_fuzzed = q[t].was_fuzzed /\ n.cal_failed = q[t].cal_failed
  BY <1>2, Zenon DEF AnyEntry
<1> HIDE DEF n
<1>4. r \in Queues(L) /\ r[t] = n /\ \A k \in 1 .. L : k # t => r[k] = q[k]
  BY <1>1, <1>3, Zenon DEF Queues, n
<1>5. SameTests(L, q, r)
  BY <1>3, <1>4, Zenon DEF SameTests
<1> QED BY <1>3, <1>4, <1>5, Zenon

(* The winner of a byte gives it back.                                     *)
LEMMA DropKeeps ==
    ASSUME Facts, NEW s, NEW L, Good(L, s.q, s.top), NEW i \in Byte
    PROVE  /\ Good(L, Dropped(s, i), [s.top EXCEPT ![i] = NoOne])
           /\ SameTests(L, s.q, Dropped(s, i))
<1> DEFINE q == s.q
           top == s.top
           new == [s.top EXCEPT ![i] = NoOne]
           t == s.top[i]
           r == Dropped(s, i)
<1>1. /\ L \in Nat /\ q \in Queues(L) /\ top \in [Byte -> 0 .. L] /\ t \in 0 .. L
      /\ \A j \in Byte : top[j] # NoOne => j \in q[top[j]].hits /\ q[top[j]].cal_failed = 0
  BY Zenon DEF Good
<1>2. \A k \in 1 .. L : /\ q[k].tc_ref = Cardinality(Holds(top, k))
                        /\ q[k].mini = IF q[k].tc_ref = 0 THEN NoMini ELSE q[k].hits
  BY Zenon DEF Good
<1>3. new \in [Byte -> 0 .. L] /\ \A j \in Byte : new[j] # NoOne => j # i /\ new[j] = top[j]
  BY <1>1 DEF NoOne
<1>4. CASE t = NoOne
  <2>1. new = top /\ r = q
    BY <1>1, <1>4, Zenon DEF Dropped
  <2> QED BY <2>1, Zenon DEF SameTests
<1>5. CASE t # NoOne
  <2>1. t \in 1 .. L
    BY <1>1, <1>5 DEF NoOne
  <2> DEFINE c == q[t].tc_ref - 1
             m == IF q[t].tc_ref = 1 THEN NoMini ELSE q[t].mini
  <2>2. r = Ref(q, t, c, m)
    BY <1>5, Zenon DEF Dropped, Ref
  <2>3. \A k \in 1 .. L : /\ k = t => /\ Cardinality(Holds(top, k)) >= 1
                                      /\ Cardinality(Holds(new, k)) = Cardinality(Holds(top, k)) - 1
                          /\ k # t => Cardinality(Holds(new, k)) = Cardinality(Holds(top, k))
    <3> TAKE k \in 1 .. L
    <3>1. k # NoOne
      BY DEF NoOne
    <3>2. /\ top \in [Byte -> 0 .. L] /\ top[i] # NoOne /\ new \in [Byte -> 0 .. L]
          /\ new[i] = NoOne /\ \A j \in Byte : j # i => new[j] = top[j]
      BY <1>1, <1>3, <1>5, Zenon
    <3>3. t = top[i]
      BY Zenon
    <3> HIDE DEF new, top, t
    <3>4. CASE k = t
      BY <3>2, <3>3, <3>4, HoldsLess
    <3>5. CASE k # t
      <4>1. Holds(new, k) = Holds(top, k)
        BY <3>1, <3>2, <3>3, <3>5, Zenon DEF Holds
      <4> QED BY <3>5, <4>1, Zenon
    <3> QED BY <3>4, <3>5, Zenon
  <2>4. q[t].tc_ref \in Nat /\ q[t].mini \in (SUBSET Byte) \cup {NoMini}
    BY <1>1, <2>1, Zenon DEF Queues, AnyEntry
  <2>5. c \in Nat /\ c = Cardinality(Holds(new, t)) /\ m \in (SUBSET Byte) \cup {NoMini}
    <3>1. q[t].tc_ref = Cardinality(Holds(top, t)) /\ Cardinality(Holds(top, t)) >= 1
      BY <1>2, <2>1, <2>3, Zenon
    <3>2. Cardinality(Holds(new, t)) = Cardinality(Holds(top, t)) - 1
      BY <2>1, <2>3, Zenon
    <3>3. m \in (SUBSET Byte) \cup {NoMini}
      BY <2>4, Zenon
    <3> HIDE DEF q, top, new, t
    <3> QED BY <2>4, <3>1, <3>2, <3>3
  <2>6. m = IF c = 0 THEN NoMini ELSE q[t].hits
    BY <1>2, <2>1, <2>3, <2>4
  <2> HIDE DEF q, top, new, t, r, c, m
  <2>7. /\ r \in Queues(L) /\ SameTests(L, q, r) /\ r[t].tc_ref = c /\ r[t].mini = m
        /\ \A k \in 1 .. L : k # t => r[k] = q[k]
    BY <1>1, <2>1, <2>2, <2>5, EntryRefs
  <2>8. \A k \in 1 .. L : /\ r[k].tc_ref = Cardinality(Holds(new, k))
                          /\ r[k].mini = IF r[k].tc_ref = 0 THEN NoMini ELSE r[k].hits
    BY <1>2, <2>1, <2>3, <2>5, <2>6, <2>7 DEF SameTests
  <2>9. \A j \in Byte : new[j] # NoOne => j \in r[new[j]].hits /\ r[new[j]].cal_failed = 0
    BY <1>1, <1>3, <2>7, SMTT(20) DEF SameTests, NoOne
  <2> QED BY <1>1, <1>3, <2>7, <2>8, <2>9, Zenon DEF Good, q, new, r
<1> QED BY <1>4, <1>5, Zenon

(* An entry takes a byte nobody holds.                                     *)
LEMMA TakeKeeps ==
    ASSUME Facts, NEW L, NEW q, NEW top, Good(L, q, top), NEW e \in 1 .. L, NEW i \in q[e].hits,
           top[i] = NoOne, q[e].cal_failed = 0,
           NEW r, r = Ref(q, e, q[e].tc_ref + 1,
                          IF q[e].mini = NoMini THEN q[e].hits ELSE q[e].mini)
    PROVE  Good(L, r, [top EXCEPT ![i] = e]) /\ SameTests(L, q, r)
<1> DEFINE new == [top EXCEPT ![i] = e]
           c == q[e].tc_ref + 1
           m == IF q[e].mini = NoMini THEN q[e].hits ELSE q[e].mini
<1>1. /\ L \in Nat /\ q \in Queues(L) /\ top \in [Byte -> 0 .. L]
      /\ \A j \in Byte : top[j] # NoOne => j \in q[top[j]].hits /\ q[top[j]].cal_failed = 0
  BY Zenon DEF Good
<1>2. \A k \in 1 .. L : /\ q[k].tc_ref = Cardinality(Holds(top, k))
                        /\ q[k].mini = IF q[k].tc_ref = 0 THEN NoMini ELSE q[k].hits
  BY Zenon DEF Good
<1>3. /\ q[e].tc_ref \in Nat /\ q[e].hits \in SUBSET Byte
      /\ q[e].mini \in (SUBSET Byte) \cup {NoMini}
  BY <1>1, Zenon DEF Queues, AnyEntry
<1>4. i \in Byte /\ e # NoOne
  BY <1>3 DEF NoOne
<1>5. /\ new \in [Byte -> 0 .. L] /\ new[i] = e
      /\ \A j \in Byte : j # i => new[j] = top[j]
  BY <1>1, <1>4
<1>6. r = Ref(q, e, c, m)
  BY Zenon
<1>7. \A k \in 1 .. L : Cardinality(Holds(new, k))
                          = Cardinality(Holds(top, k)) + (IF k = e THEN 1 ELSE 0)
  <2> TAKE k \in 1 .. L
  <2>1. k # NoOne /\ top[i] # e /\ Cardinality(Holds(top, k)) \in Nat
    BY <1>4, BytesFinite DEF NoOne
  <2> HIDE DEF new
  <2>2. i \in Byte /\ top[i] # e /\ new[i] = e /\ \A j \in Byte : j # i => new[j] = top[j]
    BY <1>4, <1>5, <2>1, Zenon
  <2>3. CASE k = e
    <3>1. Cardinality(Holds(new, e)) = Cardinality(Holds(top, e)) + 1
      BY ONLY Facts, <2>2, HoldsMore, ZenonT(60)
    <3> QED BY <2>3, <3>1, Zenon
  <2>4. CASE k # e
    <3>1. k # top[i] /\ k # e
      BY <2>1, <2>4, Zenon
    <3>2. Cardinality(Holds(new, k)) = Cardinality(Holds(top, k))
      <4>1. Holds(new, k) = Holds(top, k)
        BY <2>2, <3>1, Zenon DEF Holds
      <4> QED BY <4>1, Zenon
    <3> QED BY <2>1, <2>4, <3>2
  <2> QED BY <2>3, <2>4, Zenon
<1>8. c \in Nat /\ c # 0 /\ m = q[e].hits
  BY <1>2, <1>3, NoMiniOther, SMTT(30)
<1> HIDE DEF new, c, m
<1>9. /\ r \in Queues(L) /\ SameTests(L, q, r) /\ r[e].tc_ref = c /\ r[e].mini = m
      /\ \A k \in 1 .. L : k # e => r[k] = q[k]
  <2>1. m \in (SUBSET Byte) \cup {NoMini}
    BY <1>3, <1>8, SMTT(20)
  <2> QED BY <1>1, <1>6, <1>8, <2>1, EntryRefs
<1>10. \A k \in 1 .. L : /\ r[k].tc_ref = Cardinality(Holds(new, k))
                         /\ r[k].mini = IF r[k].tc_ref = 0 THEN NoMini ELSE r[k].hits
  <2> TAKE k \in 1 .. L
  <2>1. CASE k = e
    BY <1>2, <1>3, <1>7, <1>8, <1>9, <2>1, ZenonT(60) DEF SameTests, c
  <2>2. CASE k # e
    <3>1. Cardinality(Holds(new, k)) = Cardinality(Holds(top, k)) /\ r[k] = q[k]
      <4>1. Cardinality(Holds(top, k)) \in Nat
        BY BytesFinite, SMTT(20)
      <4> QED BY <1>7, <1>9, <2>2, <4>1
    <3> QED BY <1>2, <3>1, Zenon
  <2> QED BY <2>1, <2>2, Zenon
<1>11. \A j \in Byte : new[j] # NoOne => j \in r[new[j]].hits /\ r[new[j]].cal_failed = 0
  <2>1. \A k \in 1 .. L : r[k].hits = q[k].hits /\ r[k].cal_failed = q[k].cal_failed
    BY <1>9, Zenon DEF SameTests
  <2> TAKE j \in Byte
  <2>2. CASE j = i
    BY <1>5, <2>1, <2>2, ZenonT(60)
  <2>3. CASE j # i
    <3>1. new[j] = top[j] /\ top[j] \in 0 .. L
      BY <1>1, <1>5, <2>3, Zenon
    <3>2. ASSUME top[j] # NoOne PROVE j \in r[top[j]].hits /\ r[top[j]].cal_failed = 0
      <4>1. top[j] \in 1 .. L /\ j \in q[top[j]].hits /\ q[top[j]].cal_failed = 0
        BY <1>1, <3>1, <3>2 DEF NoOne
      <4> QED BY <2>1, <4>1, Zenon
    <3> QED BY <3>1, <3>2, Zenon
  <2> QED BY <2>2, <2>3, SMTT(20)
<1> QED BY <1>1, <1>5, <1>9, <1>10, <1>11, Zenon DEF Good, new

(* An entry wins a byte it hits, from whoever holds it.                    *)
LEMMA WinKeeps ==
    ASSUME Facts, NEW s, NEW L, Good(L, s.q, s.top), NEW e \in 1 .. L, NEW i \in s.q[e].hits,
           s.q[e].cal_failed = 0, NEW bits, bits = s.q[e].hits, NEW w, w = Win(s, e, i, bits)
    PROVE  /\ Good(L, w.q, w.top) /\ SameTests(L, s.q, w.q)
           /\ w.top = [s.top EXCEPT ![i] = e] /\ w.changed = TRUE
<1> DEFINE d == Dropped(s, i)
           mid == [s.top EXCEPT ![i] = NoOne]
           r == Ref(d, e, d[e].tc_ref + 1, IF d[e].mini = NoMini THEN bits ELSE d[e].mini)
<1>1. i \in Byte /\ s.top \in [Byte -> 0 .. L]
  BY Zenon DEF Good, Queues, AnyEntry
<1>2. Good(L, d, mid) /\ SameTests(L, s.q, d)
  BY <1>1, DropKeeps, Zenon
<1>3. d \in Queues(L) /\ d[e].hits = bits /\ d[e].cal_failed = 0
  BY <1>2, Zenon DEF Good, SameTests
<1>4. mid[i] = NoOne /\ [mid EXCEPT ![i] = e] = [s.top EXCEPT ![i] = e]
  BY <1>1, Zenon
<1>5. w.q = r /\ w.top = [s.top EXCEPT ![i] = e] /\ w.changed = TRUE
  <2> HIDE DEF d
  <2>1. w.q = [d EXCEPT ![e].tc_ref = @ + 1, ![e].mini = IF @ = NoMini THEN bits ELSE @]
    BY Zenon DEF Win, d
  <2>2. w.top = [s.top EXCEPT ![i] = e] /\ w.changed = TRUE
    BY Zenon DEF Win
  <2> QED BY <1>3, <2>1, <2>2, Zenon DEF Ref, Queues, AnyEntry
<1> HIDE DEF d, mid, r
<1>6. Good(L, r, [mid EXCEPT ![i] = e]) /\ SameTests(L, d, r)
  <2>1. i \in d[e].hits /\ r = Ref(d, e, d[e].tc_ref + 1,
                                   IF d[e].mini = NoMini THEN d[e].hits ELSE d[e].mini)
    BY <1>3, Zenon DEF r
  <2> QED BY <1>2, <1>3, <1>4, <2>1, TakeKeeps, ZenonT(60)
<1>7. SameTests(L, s.q, r)
  BY <1>2, <1>6 DEF SameTests
<1>8. Good(L, w.q, w.top) /\ SameTests(L, s.q, w.q)
  BY <1>4, <1>5, <1>6, <1>7, Zenon
<1> QED BY <1>5, <1>8, Zenon

-----------------------------------------------------------------------------
(* update_bitmap_score as a loop: a first state, and one round per byte.   *)
LEMMA ScoreLoop ==
    ASSUME Facts, NEW q, NEW e, NEW bits
    PROVE  \E f : /\ f[0] = [q |-> q, top |-> top_rated, changed |-> score_changed]
                  /\ \A n \in 1 .. MapSize : f[n] = Contend(f[n - 1], e, n - 1, bits)
                  /\ UpdateBitmapScore(q, e, bits) = f[MapSize]
<1> DEFINE s0 == [q |-> q, top |-> top_rated, changed |-> score_changed]
           Eq(f, k) == f = [n \in 0 .. k |-> IF n = 0 THEN s0
                                             ELSE Contend(f[n - 1], e, n - 1, bits)]
           P == {k \in Nat : \E f : Eq(f, k)}
<1>1. UpdateBitmapScore(q, e, bits) = (CHOOSE f : Eq(f, MapSize))[MapSize]
  BY Zenon DEF UpdateBitmapScore
<1> HIDE DEF s0
<1>2. 0 \in P
  <2> DEFINE g == [n \in 0 .. 0 |-> s0]
  <2>1. \A n \in 0 .. 0 : n = 0
    OBVIOUS
  <2>2. Eq(g, 0)
    BY <2>1, Zenon
  <2> QED BY <2>2, Zenon
<1>3. ASSUME NEW k \in Nat, k \in P PROVE k + 1 \in P
  <2>1. PICK f : Eq(f, k)
    BY <1>3, Zenon
  <2> DEFINE g == [n \in 0 .. k + 1 |-> IF n = k + 1 THEN Contend(f[k], e, k, bits)
                                        ELSE f[n]]
  <2>2. \A n \in 0 .. k : g[n] = f[n]
    OBVIOUS
  <2>3. \A n \in 0 .. k : f[n] = IF n = 0 THEN s0 ELSE Contend(f[n - 1], e, n - 1, bits)
    BY <2>1, Zenon
  <2>4. ASSUME NEW n \in 0 .. k + 1
        PROVE  g[n] = IF n = 0 THEN s0 ELSE Contend(g[n - 1], e, n - 1, bits)
    <3>1. CASE n = k + 1
      <4>1. n # 0 /\ n - 1 = k /\ g[k] = f[k] /\ g[n] = Contend(f[k], e, k, bits)
        BY <3>1, <2>2
      <4> QED BY <3>1, <4>1, Zenon
    <3>2. CASE n \in 1 .. k
      <4>1. n # 0 /\ n - 1 \in 0 .. k /\ g[n] = f[n] /\ g[n - 1] = f[n - 1] /\ n \in 0 .. k
        BY <3>2, <2>2
      <4> QED BY <2>3, <4>1, Zenon
    <3>3. CASE n = 0
      BY <2>2, <2>3, <3>3
    <3> QED BY <3>1, <3>2, <3>3
  <2>5. g = [n \in 0 .. k + 1 |-> g[n]]
    BY Zenon
  <2> HIDE DEF g
  <2>6. Eq(g, k + 1)
    BY <2>4, <2>5, Zenon
  <2> QED BY <2>6
<1>4. \E f : Eq(f, MapSize)
  <2>1. Nat \subseteq P
    <3> HIDE DEF P
    <3> QED BY <1>2, <1>3, Induct, Zenon
  <2> QED BY <2>1, CullingAssumption, Zenon
<1> DEFINE U == CHOOSE f : Eq(f, MapSize)
<1>5. Eq(U, MapSize)
  BY <1>4, Zenon
<1>6. UpdateBitmapScore(q, e, bits) = U[MapSize]
  BY <1>1, Zenon
<1> HIDE DEF U
<1>7. U[0] = s0 /\ \A n \in 1 .. MapSize : U[n] = Contend(U[n - 1], e, n - 1, bits)
  <2>1. \A n \in 0 .. MapSize : U[n] = IF n = 0 THEN s0
                                       ELSE Contend(U[n - 1], e, n - 1, bits)
    BY <1>5, Zenon
  <2> QED BY <2>1, CullingAssumption
<1> QED BY <1>6, <1>7, Zenon DEF s0

(* After the bytes below n, in the loop that started from q and top: the   *)
(* references are right, and each byte of bits below n has gone to e or    *)
(* stayed with a better entry.                                             *)
ScoredUpTo(L, q, top, changed, e, bits, s, n) ==
    /\ Good(L, s.q, s.top) /\ SameTests(L, q, s.q) /\ s.changed \in BOOLEAN
    /\ \A i \in Byte :
          IF i < n /\ i \in bits
          THEN \/ s.top[i] = e /\ (top[i] # NoOne => q[e].factor <= q[top[i]].factor)
               \/ s.top[i] = top[i] /\ top[i] # NoOne /\ q[e].factor > q[top[i]].factor
          ELSE s.top[i] = top[i]
    /\ s.changed \/ (~changed /\ \A i \in Byte : i < n /\ i \in bits => top[i] # NoOne)

LEMMA ContendKeeps ==
    ASSUME Facts, NEW L, NEW q, NEW top, NEW changed, NEW e \in 1 .. L, NEW bits, NEW s,
           NEW n \in Byte, Good(L, q, top), q[e].cal_failed = 0, bits = {} \/ bits = q[e].hits,
           ScoredUpTo(L, q, top, changed, e, bits, s, n)
    PROVE  ScoredUpTo(L, q, top, changed, e, bits, Contend(s, e, n, bits), n + 1)
<1>1. Good(L, s.q, s.top) /\ SameTests(L, q, s.q) /\ s.changed \in BOOLEAN
  BY Zenon DEF ScoredUpTo
<1>2. \A i \in Byte :
          IF i < n /\ i \in bits
          THEN \/ s.top[i] = e /\ (top[i] # NoOne => q[e].factor <= q[top[i]].factor)
               \/ s.top[i] = top[i] /\ top[i] # NoOne /\ q[e].factor > q[top[i]].factor
          ELSE s.top[i] = top[i]
  BY Zenon DEF ScoredUpTo
<1>3. s.changed \/ (~changed /\ \A i \in Byte : i < n /\ i \in bits => top[i] # NoOne)
  BY Zenon DEF ScoredUpTo
<1>4. \A i \in Byte : i \in Nat /\ (i < n + 1 <=> i < n \/ i = n)
  BY DEF Byte
<1>5. /\ top[n] \in 0 .. L /\ s.top[n] = top[n]
      /\ \A k \in 1 .. L : s.q[k].factor = q[k].factor /\ q[k].factor \in Nat
                           /\ s.q[k].hits = q[k].hits
  <2>1. top[n] \in 0 .. L /\ q \in Queues(L)
    BY Zenon DEF Good
  <2>2. s.top[n] = top[n]
    <3>1. ~(n < n)
      BY <1>4
    <3> QED BY <1>2, <3>1, Zenon
  <2>3. \A k \in 1 .. L : q[k].factor \in Nat
    BY <2>1, Zenon DEF Queues, AnyEntry
  <2> QED BY <1>1, <2>1, <2>2, <2>3, Zenon DEF SameTests
<1>6. CASE n \notin bits
  <2>1. Contend(s, e, n, bits) = s
    BY <1>6, Zenon DEF Contend
  <2>2. \A i \in Byte : i < n + 1 /\ i \in bits <=> i < n /\ i \in bits
    BY <1>4, <1>6, Zenon
  <2> QED BY <1>1, <1>2, <1>3, <2>1, <2>2 DEF ScoredUpTo
<1>7. CASE n \in bits /\ Loses(s, e, n)
  <2>1. Contend(s, e, n, bits) = s
    BY <1>7, Zenon DEF Contend
  <2>2. top[n] # NoOne /\ q[e].factor > q[top[n]].factor
    BY <1>5, <1>7 DEF Loses, NoOne
  <2>3. \A i \in Byte :
          IF i < n + 1 /\ i \in bits
          THEN \/ s.top[i] = e /\ (top[i] # NoOne => q[e].factor <= q[top[i]].factor)
               \/ s.top[i] = top[i] /\ top[i] # NoOne /\ q[e].factor > q[top[i]].factor
          ELSE s.top[i] = top[i]
    BY <1>2, <1>4, <1>5, <2>2, Zenon
  <2>4. s.changed \/ (~changed /\ \A i \in Byte : i < n + 1 /\ i \in bits => top[i] # NoOne)
    BY <1>3, <1>4, <2>2, SMTT(20)
  <2> QED BY <1>1, <2>1, <2>3, <2>4, SMTT(20) DEF ScoredUpTo
<1>8. CASE n \in bits /\ ~Loses(s, e, n)
  <2>1. bits = s.q[e].hits
    BY <1>5, <1>8, Zenon
  <2> DEFINE w == Win(s, e, n, bits)
  <2>2. Contend(s, e, n, bits) = w
    BY <1>8, Zenon DEF Contend
  <2>3. /\ Good(L, w.q, w.top) /\ SameTests(L, s.q, w.q)
        /\ w.top = [s.top EXCEPT ![n] = e] /\ w.changed = TRUE
    <3>1. n \in s.q[e].hits /\ s.q[e].cal_failed = 0
      BY <1>1, <1>8, <2>1, Zenon DEF SameTests
    <3> QED BY <1>1, <2>1, <3>1, WinKeeps, Zenon
  <2> HIDE DEF w
  <2>4. SameTests(L, q, w.q)
    BY <1>1, <2>3 DEF SameTests
  <2>5. top[n] # NoOne => q[e].factor <= q[top[n]].factor
    BY <1>5, <1>8 DEF Loses, NoOne
  <2>6. w.top[n] = e /\ \A i \in Byte : i # n => w.top[i] = s.top[i]
    BY <1>1, <2>3 DEF Good
  <2>7. \A i \in Byte :
          IF i < n + 1 /\ i \in bits
          THEN \/ w.top[i] = e /\ (top[i] # NoOne => q[e].factor <= q[top[i]].factor)
               \/ w.top[i] = top[i] /\ top[i] # NoOne /\ q[e].factor > q[top[i]].factor
          ELSE w.top[i] = top[i]
    BY <1>2, <1>4, <1>8, <2>5, <2>6, Zenon
  <2> QED BY <2>2, <2>3, <2>4, <2>7, Zenon DEF ScoredUpTo
<1> QED BY <1>6, <1>7, <1>8, Zenon

(* What update_bitmap_score does, for entry e of a queue q.                *)
LEMMA Scored ==
    ASSUME Facts, NEW L, NEW q, NEW e \in 1 .. L, NEW bits, Good(L, q, top_rated),
           score_changed \in BOOLEAN, q[e].cal_failed = 0, bits = {} \/ bits = q[e].hits
    PROVE  ScoredUpTo(L, q, top_rated, score_changed, e, bits,
                      UpdateBitmapScore(q, e, bits), MapSize)
<1> DEFINE s0 == [q |-> q, top |-> top_rated, changed |-> score_changed]
           Done(s, n) == ScoredUpTo(L, q, top_rated, score_changed, e, bits, s, n)
<1>1. PICK f : /\ f[0] = s0
               /\ \A n \in 1 .. MapSize : f[n] = Contend(f[n - 1], e, n - 1, bits)
               /\ UpdateBitmapScore(q, e, bits) = f[MapSize]
  BY ScoreLoop
<1> DEFINE P == {n \in Nat : n <= MapSize => Done(f[n], n)}
<1>2. Done(s0, 0)
  <2>1. s0.q = q /\ s0.top = top_rated /\ s0.changed = score_changed
    BY Zenon
  <2> HIDE DEF s0
  <2>2. \A i \in Byte : ~(i < 0)
    BY DEF Byte
  <2>3. SameTests(L, q, s0.q)
    BY <2>1, Zenon DEF SameTests
  <2> QED BY <2>1, <2>2, <2>3, Zenon DEF ScoredUpTo
<1> HIDE DEF s0, Done
<1>3. ASSUME NEW n \in Nat, n \in P PROVE n + 1 \in P
  <2>1. CASE n + 1 <= MapSize
    <3>1. n + 1 \in 1 .. MapSize /\ (n + 1) - 1 = n /\ n \in Byte /\ n <= MapSize
      BY <2>1, CullingAssumption DEF Byte
    <3>2. f[n + 1] = Contend(f[n], e, n, bits)
      BY <1>1, <3>1, Zenon
    <3>3. Done(f[n], n)
      BY <1>3, <3>1, Zenon
    <3>4. Done(Contend(f[n], e, n, bits), n + 1)
      BY <3>1, <3>3, ContendKeeps, Zenon DEF Done
    <3> QED BY <3>2, <3>4
  <2>2. CASE ~(n + 1 <= MapSize)
    BY <2>2
  <2> QED BY <2>1, <2>2, Zenon
<1>4. 0 \in P
  BY <1>1, <1>2, Zenon
<1>5. Nat \subseteq P
  <2> HIDE DEF P
  <2> QED BY <1>3, <1>4, Induct, Zenon
<1>6. Done(f[MapSize], MapSize)
  BY <1>5, CullingAssumption
<1> QED BY <1>1, <1>6, Zenon DEF Done

-----------------------------------------------------------------------------
(* cull_queue as a loop.                                                   *)
LEMMA CullLoop ==
    ASSUME Facts, NEW q
    PROVE  \E f : /\ f[0] = [q |-> q, left |-> Byte, favored |-> 0, pending |-> 0]
                  /\ \A n \in 1 .. MapSize : f[n] = Pick(f[n - 1], n - 1)
                  /\ Culled(q) = f[MapSize]
<1> DEFINE s0 == [q |-> q, left |-> Byte, favored |-> 0, pending |-> 0]
           Eq(f, k) == f = [n \in 0 .. k |-> IF n = 0 THEN s0 ELSE Pick(f[n - 1], n - 1)]
           P == {k \in Nat : \E f : Eq(f, k)}
<1>1. Culled(q) = (CHOOSE f : Eq(f, MapSize))[MapSize]
  BY Zenon DEF Culled
<1> HIDE DEF s0
<1>2. 0 \in P
  <2> DEFINE g == [n \in 0 .. 0 |-> s0]
  <2>1. \A n \in 0 .. 0 : n = 0
    OBVIOUS
  <2>2. Eq(g, 0)
    BY <2>1, Zenon
  <2> QED BY <2>2, Zenon
<1>3. ASSUME NEW k \in Nat, k \in P PROVE k + 1 \in P
  <2>1. PICK f : Eq(f, k)
    BY <1>3, Zenon
  <2> DEFINE g == [n \in 0 .. k + 1 |-> IF n = k + 1 THEN Pick(f[k], k) ELSE f[n]]
  <2>2. \A n \in 0 .. k : g[n] = f[n]
    OBVIOUS
  <2>3. \A n \in 0 .. k : f[n] = IF n = 0 THEN s0 ELSE Pick(f[n - 1], n - 1)
    BY <2>1, Zenon
  <2>4. ASSUME NEW n \in 0 .. k + 1
        PROVE  g[n] = IF n = 0 THEN s0 ELSE Pick(g[n - 1], n - 1)
    <3>1. CASE n = k + 1
      <4>1. n # 0 /\ n - 1 = k /\ g[k] = f[k] /\ g[n] = Pick(f[k], k)
        BY <3>1, <2>2
      <4> QED BY <3>1, <4>1, Zenon
    <3>2. CASE n \in 1 .. k
      <4>1. n # 0 /\ n - 1 \in 0 .. k /\ g[n] = f[n] /\ g[n - 1] = f[n - 1] /\ n \in 0 .. k
        BY <3>2, <2>2
      <4> QED BY <2>3, <4>1, Zenon
    <3>3. CASE n = 0
      BY <2>2, <2>3, <3>3
    <3> QED BY <3>1, <3>2, <3>3
  <2>5. g = [n \in 0 .. k + 1 |-> g[n]]
    BY Zenon
  <2> HIDE DEF g
  <2>6. Eq(g, k + 1)
    BY <2>4, <2>5, Zenon
  <2> QED BY <2>6
<1>4. \E f : Eq(f, MapSize)
  <2>1. Nat \subseteq P
    <3> HIDE DEF P
    <3> QED BY <1>2, <1>3, Induct, Zenon
  <2> QED BY <2>1, CullingAssumption, Zenon
<1> DEFINE U == CHOOSE f : Eq(f, MapSize)
<1>5. Eq(U, MapSize)
  BY <1>4, Zenon
<1>6. Culled(q) = U[MapSize]
  BY <1>1, Zenon
<1> HIDE DEF U
<1>7. U[0] = s0 /\ \A n \in 1 .. MapSize : U[n] = Pick(U[n - 1], n - 1)
  <2>1. \A n \in 0 .. MapSize : U[n] = IF n = 0 THEN s0 ELSE Pick(U[n - 1], n - 1)
    BY <1>5, Zenon
  <2> QED BY <2>1, CullingAssumption
<1> QED BY <1>6, <1>7, Zenon DEF s0

(* What cull_queue leaves alone in the entries.                            *)
SameScores(L, q, r) ==
    \A k \in 1 .. L :
        /\ r[k].hits = q[k].hits /\ r[k].factor = q[k].factor
        /\ r[k].tc_ref = q[k].tc_ref /\ r[k].mini = q[k].mini
        /\ r[k].was_fuzzed = q[k].was_fuzzed /\ r[k].cal_failed = q[k].cal_failed

(* After the bytes below n: the favored entries are counted and hit no     *)
(* byte that is left; they hit every other, and hold a byte each; no byte  *)
(* below n that somebody holds is left.                                    *)
CulledUpTo(L, q, top, s, n) ==
    /\ s.q \in Queues(L) /\ SameScores(L, q, s.q)
    /\ s.favored = Cardinality(Fav(L, s.q)) /\ s.pending = Cardinality(Pend(L, s.q))
    /\ \A k \in 1 .. L : s.q[k].favored => s.q[k].hits \cap s.left = {}
    /\ \A i \in Byte : i \notin s.left =>
          \E k \in 1 .. L : s.q[k].favored /\ i \in s.q[k].hits
    /\ \A k \in 1 .. L : s.q[k].favored => \E i \in Byte : top[i] = k
    /\ \A i \in Byte : i < n /\ top[i] # NoOne => i \notin s.left

LEMMA QueueFinite ==
    ASSUME Facts, NEW L \in Nat, NEW q
    PROVE  /\ IsFiniteSet(Fav(L, q)) /\ Cardinality(Fav(L, q)) \in Nat
           /\ IsFiniteSet(Pend(L, q)) /\ Cardinality(Pend(L, q)) \in Nat
<1>1. IsFiniteSet(1 .. L)
  <2>1. 1 \in Int /\ L \in Int
    OBVIOUS
  <2> QED BY <2>1, Zenon DEF Facts, Sizes
<1>2. Fav(L, q) \subseteq 1 .. L /\ Pend(L, q) \subseteq 1 .. L
  BY Zenon DEF Fav, Pend
<1> QED BY <1>1, <1>2, Zenon DEF Facts, Sizes

(* The winner of a byte that is left is favored: it was not before.        *)
LEMMA FavorKeeps ==
    ASSUME Facts, NEW L \in Nat, NEW s, s.q \in Queues(L), NEW t \in 1 .. L, ~s.q[t].favored,
           NEW left, NEW w, w = Favor(s, t, left),
           s.favored = Cardinality(Fav(L, s.q)), s.pending = Cardinality(Pend(L, s.q))
    PROVE  /\ w.q \in Queues(L) /\ SameScores(L, s.q, w.q) /\ w.left = left
           /\ \A k \in 1 .. L : w.q[k].favored <=> s.q[k].favored \/ k = t
           /\ w.favored = Cardinality(Fav(L, w.q)) /\ w.pending = Cardinality(Pend(L, w.q))
<1>1. /\ w.q = [s.q EXCEPT ![t].favored = TRUE] /\ w.left = left
      /\ w.favored = s.favored + 1
      /\ w.pending = s.pending + (IF s.q[t].was_fuzzed THEN 0 ELSE 1)
  BY Zenon DEF Favor
<1> DEFINE n == [s.q[t] EXCEPT !.favored = TRUE]
<1>2. w.q = [s.q EXCEPT ![t] = n]
  BY <1>1, Zenon
<1>3. s.q[t] \in AnyEntry
  BY Zenon DEF Queues
<1>4. /\ n \in AnyEntry /\ n.favored = TRUE /\ n.hits = s.q[t].hits
      /\ n.factor = s.q[t].factor /\ n.tc_ref = s.q[t].tc_ref /\ n.mini = s.q[t].mini
      /\ n.was_fuzzed = s.q[t].was_fuzzed /\ n.cal_failed = s.q[t].cal_failed
  BY <1>3, Zenon DEF AnyEntry
<1> HIDE DEF n
<1>5. w.q \in Queues(L) /\ w.q[t] = n /\ \A k \in 1 .. L : k # t => w.q[k] = s.q[k]
  BY <1>2, <1>4, ZenonT(60) DEF Queues
<1>6. SameScores(L, s.q, w.q)
  BY <1>4, <1>5, Zenon DEF SameScores
<1>7. \A k \in 1 .. L : w.q[k].favored <=> s.q[k].favored \/ k = t
  BY <1>4, <1>5, Zenon
<1>8. w.favored = Cardinality(Fav(L, w.q))
  <2>1. Fav(L, w.q) = Fav(L, s.q) \cup {t} /\ t \notin Fav(L, s.q)
    BY <1>7, Zenon DEF Fav
  <2>2. IsFiniteSet(Fav(L, s.q))
    BY QueueFinite, Zenon
  <2>3. Cardinality(Fav(L, s.q) \cup {t}) = Cardinality(Fav(L, s.q)) + 1
    BY <2>1, <2>2, Zenon DEF Facts, Sizes
  <2> QED BY <1>1, <2>1, <2>3, Zenon
<1>9. w.pending = Cardinality(Pend(L, w.q))
  <2>0. \A k \in 1 .. L : w.q[k].was_fuzzed = s.q[k].was_fuzzed
    BY <1>6, Zenon DEF SameScores
  <2>1. CASE s.q[t].was_fuzzed
    <3>1. Pend(L, w.q) = Pend(L, s.q)
      BY <1>7, <2>0, <2>1, Zenon DEF Pend
    <3>2. Cardinality(Pend(L, s.q)) \in Nat
      BY QueueFinite, Zenon
    <3> QED BY <1>1, <2>1, <3>1, <3>2
  <2>2. CASE ~s.q[t].was_fuzzed
    <3>1. Pend(L, w.q) = Pend(L, s.q) \cup {t} /\ t \notin Pend(L, s.q)
      BY <1>7, <2>0, <2>2, Zenon DEF Pend
    <3>2. IsFiniteSet(Pend(L, s.q))
      BY QueueFinite, Zenon
    <3>3. Cardinality(Pend(L, s.q) \cup {t}) = Cardinality(Pend(L, s.q)) + 1
      BY <3>1, <3>2, Zenon DEF Facts, Sizes
    <3> QED BY <1>1, <2>2, <3>1, <3>3, Zenon
  <2> QED BY <2>1, <2>2, Zenon
<1> QED BY <1>1, <1>5, <1>6, <1>7, <1>8, <1>9, Zenon

LEMMA PickKeeps ==
    ASSUME Facts, NEW L, NEW q, NEW s, NEW n \in Byte, Good(L, q, top_rated),
           CulledUpTo(L, q, top_rated, s, n)
    PROVE  CulledUpTo(L, q, top_rated, Pick(s, n), n + 1)
<1> DEFINE t == top_rated[n]
<1>1. /\ s.q \in Queues(L) /\ SameScores(L, q, s.q)
      /\ s.favored = Cardinality(Fav(L, s.q)) /\ s.pending = Cardinality(Pend(L, s.q))
  BY Zenon DEF CulledUpTo
<1>2. \A k \in 1 .. L : s.q[k].favored => s.q[k].hits \cap s.left = {}
  BY Zenon DEF CulledUpTo
<1>3. \A i \in Byte : i \notin s.left =>
          \E k \in 1 .. L : s.q[k].favored /\ i \in s.q[k].hits
  BY Zenon DEF CulledUpTo
<1>4. \A i \in Byte : i < n /\ top_rated[i] # NoOne => i \notin s.left
  BY Zenon DEF CulledUpTo
<1>5. \A i \in Byte : i < n + 1 <=> i < n \/ i = n
  BY SMTT(20) DEF Byte
<1>8. \A k \in 1 .. L : s.q[k].favored => \E i \in Byte : top_rated[i] = k
  BY Zenon DEF CulledUpTo
<1>6. CASE t = NoOne \/ n \notin s.left
  <2>1. Pick(s, n) = s
    BY <1>6, Zenon DEF Pick
  <2>2. \A i \in Byte : i < n + 1 /\ top_rated[i] # NoOne => i \notin s.left
    BY <1>4, <1>5, <1>6, SMTT(20)
  <2> QED BY <1>1, <1>2, <1>3, <1>8, <2>1, <2>2, Zenon DEF CulledUpTo
<1>7. CASE t # NoOne /\ n \in s.left
  <2>1. L \in Nat /\ t \in 1 .. L /\ n \in q[t].hits
    BY <1>7 DEF Good, NoOne
  <2>2. s.q[t].hits = q[t].hits /\ s.q[t].mini = q[t].mini
    BY <1>1, <2>1, Zenon DEF SameScores
  <2>3. q[t].mini = q[t].hits
    <3>1. n \in Holds(top_rated, t) /\ IsFiniteSet(Holds(top_rated, t))
      BY BytesFinite, Zenon DEF Holds
    <3>2. Cardinality(Holds(top_rated, t)) # 0
      <4>1. Cardinality(Holds(top_rated, t) \ {n}) = Cardinality(Holds(top_rated, t)) - 1
        BY <3>1, Zenon DEF Facts, Sizes
      <4>2. IsFiniteSet(Holds(top_rated, t) \ {n})
        BY <3>1, Zenon DEF Facts, Sizes
      <4>3. /\ Cardinality(Holds(top_rated, t) \ {n}) \in Nat
            /\ Cardinality(Holds(top_rated, t)) \in Nat
        BY <3>1, <4>2, Zenon DEF Facts, Sizes
      <4> QED BY ONLY <4>1, <4>3
    <3> QED BY <2>1, <3>2, Zenon DEF Good
  <2>4. ~s.q[t].favored
    BY <1>2, <1>7, <2>1, <2>2, Zenon
  <2> DEFINE left == s.left \ s.q[t].mini
             w == Favor(s, t, left)
  <2>5. Pick(s, n) = w
    BY <1>7, Zenon DEF Pick
  <2>6. left = s.left \ s.q[t].hits
    BY <2>2, <2>3, SMTT(20)
  <2> HIDE DEF left, t
  <2>7. /\ w.q \in Queues(L) /\ SameScores(L, s.q, w.q) /\ w.left = left
        /\ \A k \in 1 .. L : w.q[k].favored <=> s.q[k].favored \/ k = t
        /\ w.favored = Cardinality(Fav(L, w.q)) /\ w.pending = Cardinality(Pend(L, w.q))
    BY <1>1, <2>1, <2>4, FavorKeeps, SMTT(20)
  <2> HIDE DEF w
  <2>8. SameScores(L, q, w.q) /\ \A k \in 1 .. L : w.q[k].hits = s.q[k].hits
    BY <1>1, <2>7, SMTT(20) DEF SameScores
  <2>9. \A k \in 1 .. L : w.q[k].favored => w.q[k].hits \cap w.left = {}
    BY <1>2, <2>6, <2>7, <2>8, ZenonT(60)
  <2>10. ASSUME NEW i \in Byte, i \notin w.left
         PROVE  \E k \in 1 .. L : w.q[k].favored /\ i \in w.q[k].hits
    <3>1. CASE i \in s.left
      <4>1. i \in s.q[t].hits
        BY <2>6, <2>7, <2>10, <3>1, Zenon
      <4> QED BY <2>1, <2>7, <2>8, <4>1, SMTT(20)
    <3>2. CASE i \notin s.left
      BY <1>3, <2>7, <2>8, <3>2, Zenon
    <3> QED BY <3>1, <3>2, Zenon
  <2>11. \A i \in Byte : i < n + 1 /\ top_rated[i] # NoOne => i \notin w.left
    BY <1>4, <1>5, <2>1, <2>2, <2>6, <2>7, Zenon
  <2>12. \A k \in 1 .. L : w.q[k].favored => \E i \in Byte : top_rated[i] = k
    BY <1>8, <2>7, Zenon DEF t
  <2> QED BY <2>5, <2>7, <2>8, <2>9, <2>10, <2>11, <2>12, Zenon DEF CulledUpTo
<1> QED BY <1>6, <1>7, Zenon

(* What cull_queue does to a queue without favored entries.                *)
LEMMA CullResult ==
    ASSUME Facts, NEW L, NEW q, Good(L, q, top_rated), \A k \in 1 .. L : ~q[k].favored
    PROVE  CulledUpTo(L, q, top_rated, Culled(q), MapSize)
<1> DEFINE s0 == [q |-> q, left |-> Byte, favored |-> 0, pending |-> 0]
           Done(s, n) == CulledUpTo(L, q, top_rated, s, n)
<1>1. PICK f : /\ f[0] = s0
               /\ \A n \in 1 .. MapSize : f[n] = Pick(f[n - 1], n - 1)
               /\ Culled(q) = f[MapSize]
  BY CullLoop, Zenon
<1> DEFINE P == {n \in Nat : n <= MapSize => Done(f[n], n)}
<1>2. Done(s0, 0)
  <2>1. s0.q = q /\ s0.left = Byte /\ s0.favored = 0 /\ s0.pending = 0
    BY Zenon
  <2> HIDE DEF s0
  <2>2. \A i \in Byte : ~(i < 0)
    BY DEF Byte
  <2>3. SameScores(L, q, s0.q) /\ q \in Queues(L)
    BY <2>1, Zenon DEF SameScores, Good
  <2>4. Fav(L, q) = {} /\ Pend(L, q) = {}
    BY Zenon DEF Fav, Pend
  <2>5. Cardinality(Fav(L, q)) = 0 /\ Cardinality(Pend(L, q)) = 0
    BY <2>4, Zenon DEF Facts, Sizes
  <2> QED BY <2>1, <2>2, <2>3, <2>5, Zenon DEF CulledUpTo
<1> HIDE DEF s0, Done
<1>3. ASSUME NEW n \in Nat, n \in P PROVE n + 1 \in P
  <2>1. CASE n + 1 <= MapSize
    <3>1. n + 1 \in 1 .. MapSize /\ (n + 1) - 1 = n /\ n \in Byte /\ n <= MapSize
      BY <2>1, CullingAssumption DEF Byte
    <3>2. f[n + 1] = Pick(f[n], n)
      BY <1>1, <3>1, Zenon
    <3>3. Done(f[n], n)
      BY <1>3, <3>1, Zenon
    <3>4. Done(Pick(f[n], n), n + 1)
      BY <3>1, <3>3, PickKeeps, Zenon DEF Done
    <3> QED BY <3>2, <3>4
  <2>2. CASE ~(n + 1 <= MapSize)
    BY <2>2
  <2> QED BY <2>1, <2>2, Zenon
<1>4. 0 \in P
  BY <1>1, <1>2, Zenon
<1>5. Nat \subseteq P
  <2> HIDE DEF P
  <2> QED BY <1>3, <1>4, Induct, Zenon
<1>6. Done(f[MapSize], MapSize)
  BY <1>5, CullingAssumption
<1> QED BY <1>1, <1>6, Zenon DEF Done

-----------------------------------------------------------------------------
(* Facts about queues that the steps share.                                *)

LEMMA QueueLen ==
    ASSUME NEW L \in Nat, NEW q \in Queues(L) PROVE q \in Seq(AnyEntry) /\ Len(q) = L
  BY DEF Queues

(* Who holds a byte depends only on hits, tc_ref and trace_mini.           *)
LEMMA GoodKept ==
    ASSUME NEW L, NEW q, NEW top, Good(L, q, top), NEW r \in Queues(L),
           \A k \in 1 .. L : /\ r[k].hits = q[k].hits /\ r[k].tc_ref = q[k].tc_ref
                             /\ r[k].mini = q[k].mini
                             /\ q[k].cal_failed = 0 => r[k].cal_failed = 0
    PROVE  Good(L, r, top)
<1>1. \A i \in Byte : top[i] # NoOne => top[i] \in 1 .. L
  BY DEF Good, NoOne
<1>2. \A i \in Byte : top[i] # NoOne => i \in r[top[i]].hits /\ r[top[i]].cal_failed = 0
  BY <1>1, Zenon DEF Good
<1> QED BY <1>2, ZenonT(60) DEF Good

LEMMA SameCounts ==
    ASSUME NEW L, NEW q, NEW r,
           \A k \in 1 .. L : /\ r[k].favored = q[k].favored
                             /\ r[k].was_fuzzed = q[k].was_fuzzed
    PROVE  Fav(L, r) = Fav(L, q) /\ Pend(L, r) = Pend(L, q)
  BY Zenon DEF Fav, Pend

(* add_to_queue: a new entry holds no byte yet.                            *)
OnlyAdded(L, q, r, top, h, f, c) ==
    /\ Good(L + 1, r, top) /\ \A k \in 1 .. L : r[k] = q[k]
    /\ r[L + 1].hits = h /\ r[L + 1].factor = f /\ ~r[L + 1].favored
    /\ r[L + 1].cal_failed = c

LEMMA Added ==
    ASSUME Facts, NEW L, NEW q, NEW top, Good(L, q, top), NEW h \in SUBSET Byte, NEW f \in Nat,
           NEW c \in Nat, NEW r, r = Extended(q, h, f, c)
    PROVE  OnlyAdded(L, q, r, top, h, f, c)
<1> DEFINE n == NewEntry(h, f, c)
<1>1. /\ n \in AnyEntry /\ n.hits = h /\ n.factor = f /\ n.tc_ref = 0 /\ n.mini = NoMini
      /\ n.favored = FALSE /\ n.cal_failed = c
  BY Zenon DEF NewEntry, AnyEntry
<1> HIDE DEF n
<1>2. L \in Nat /\ q \in Queues(L) /\ top \in [Byte -> 0 .. L]
  BY Zenon DEF Good
<1>3. q \in Seq(AnyEntry) /\ Len(q) = L /\ r = Append(q, n)
  BY <1>2, QueueLen, Zenon DEF n, Extended
<1>4. r \in Queues(L + 1) /\ r[L + 1] = n /\ \A k \in 1 .. L : r[k] = q[k]
  <2>1. r \in Seq(AnyEntry) /\ Len(r) = L + 1 /\ r[L + 1] = n
    BY <1>1, <1>3
  <2>2. \A k \in 1 .. L : r[k] = q[k]
    BY <1>1, <1>3
  <2>3. r \in [1 .. L + 1 -> AnyEntry]
    BY ONLY <2>1
  <2> QED BY <2>1, <2>2, <2>3, Zenon DEF Queues
<1>5. top \in [Byte -> 0 .. L + 1] /\ L + 1 \in Nat
  BY <1>2
<1>6. \A i \in Byte : top[i] # NoOne => /\ top[i] \in 1 .. L /\ i \in r[top[i]].hits
                                         /\ r[top[i]].cal_failed = 0
  <2>1. ASSUME NEW i \in Byte, top[i] # NoOne
        PROVE  top[i] \in 1 .. L /\ i \in q[top[i]].hits /\ q[top[i]].cal_failed = 0
    BY <2>1 DEF Good, NoOne
  <2> QED BY <1>4, <2>1, Zenon
<1>7. ASSUME NEW k \in 1 .. L + 1
      PROVE  /\ r[k].tc_ref = Cardinality(Holds(top, k))
             /\ r[k].mini = IF r[k].tc_ref = 0 THEN NoMini ELSE r[k].hits
  <2>1. CASE k \in 1 .. L
    BY <1>4, <2>1, Zenon DEF Good
  <2>2. CASE k = L + 1
    <3>1. Holds(top, k) = {}
      BY <1>2, <2>2 DEF Holds
    <3>2. Cardinality(Holds(top, k)) = 0
      BY <3>1, Zenon DEF Facts, Sizes
    <3> QED BY <1>1, <1>4, <2>2, <3>2, Zenon
  <2>3. k \in 1 .. L \/ k = L + 1
    BY ONLY <1>2, <1>7, k \in 1 .. L + 1
  <2> QED BY <2>1, <2>2, <2>3, Zenon
<1> QED BY <1>1, <1>4, <1>5, <1>6, <1>7, ZenonT(60) DEF Good, OnlyAdded

(* An entry gets another factor or is marked as fuzzed.                    *)
OnlyTrimmed(L, q, r, top, e) ==
    /\ Good(L, r, top) /\ r[e].factor <= q[e].factor
    /\ \A k \in 1 .. L : /\ r[k].hits = q[k].hits /\ r[k].favored = q[k].favored
                         /\ r[k].was_fuzzed = q[k].was_fuzzed
                         /\ r[k].cal_failed = q[k].cal_failed
                         /\ k # e => r[k].factor = q[k].factor

LEMMA Trimmed ==
    ASSUME NEW L, NEW q, NEW top, Good(L, q, top), NEW e \in 1 .. L, q[e].factor > 0,
           NEW r, r = Shorter(q, e)
    PROVE  OnlyTrimmed(L, q, r, top, e)
<1>1. q \in Queues(L) /\ q[e] \in AnyEntry
  BY Zenon DEF Good, Queues
<1> DEFINE n == [q[e] EXCEPT !.factor = @ - 1]
<1>2. r = [q EXCEPT ![e] = n]
  BY Zenon DEF Shorter
<1>3. /\ n \in AnyEntry /\ n.hits = q[e].hits /\ n.factor <= q[e].factor
      /\ n.tc_ref = q[e].tc_ref /\ n.mini = q[e].mini
      /\ n.favored = q[e].favored /\ n.was_fuzzed = q[e].was_fuzzed
      /\ n.cal_failed = q[e].cal_failed
  BY <1>1 DEF AnyEntry
<1> HIDE DEF n
<1>4. r \in Queues(L) /\ r[e] = n /\ \A k \in 1 .. L : k # e => r[k] = q[k]
  BY <1>1, <1>2, <1>3, Zenon DEF Queues
<1>5. Good(L, r, top)
  <2>1. \A k \in 1 .. L : /\ r[k].hits = q[k].hits /\ r[k].tc_ref = q[k].tc_ref
                          /\ r[k].mini = q[k].mini
                          /\ q[k].cal_failed = 0 => r[k].cal_failed = 0
    BY <1>3, <1>4, Zenon
  <2> QED BY <1>4, <2>1, GoodKept, Zenon
<1> QED BY <1>3, <1>4, <1>5, Zenon DEF OnlyTrimmed

(* An entry whose calibration failed is calibrated again.                  *)
OnlyCalibrated(L, q, r, top, e, f, c) ==
    /\ Good(L, r, top) /\ r[e].factor = f /\ r[e].cal_failed = c
    /\ \A k \in 1 .. L : /\ r[k].hits = q[k].hits /\ r[k].favored = q[k].favored
                         /\ r[k].was_fuzzed = q[k].was_fuzzed
                         /\ k # e => /\ r[k].factor = q[k].factor
                                     /\ r[k].cal_failed = q[k].cal_failed

LEMMA Recalibrated ==
    ASSUME NEW L, NEW q, NEW top, Good(L, q, top), NEW e \in 1 .. L, q[e].cal_failed # 0,
           NEW f \in Nat, NEW c \in Nat, NEW r, r = Recal(q, e, f, c)
    PROVE  OnlyCalibrated(L, q, r, top, e, f, c)
<1>1. q \in Queues(L) /\ q[e] \in AnyEntry
  BY Zenon DEF Good, Queues
<1> DEFINE n == [q[e] EXCEPT !.factor = f, !.cal_failed = c]
<1>2. r = [q EXCEPT ![e] = n]
  BY <1>1, Zenon DEF Recal, Queues, AnyEntry
<1>3. /\ n \in AnyEntry /\ n.hits = q[e].hits /\ n.factor = f
      /\ n.tc_ref = q[e].tc_ref /\ n.mini = q[e].mini
      /\ n.favored = q[e].favored /\ n.was_fuzzed = q[e].was_fuzzed
      /\ n.cal_failed = c
  BY <1>1, Zenon DEF AnyEntry
<1> HIDE DEF n
<1>4. r \in Queues(L) /\ r[e] = n /\ \A k \in 1 .. L : k # e => r[k] = q[k]
  BY <1>1, <1>2, <1>3, Zenon DEF Queues
<1>5. Good(L, r, top)
  <2>1. \A k \in 1 .. L : /\ r[k].hits = q[k].hits /\ r[k].tc_ref = q[k].tc_ref
                          /\ r[k].mini = q[k].mini
                          /\ q[k].cal_failed = 0 => r[k].cal_failed = 0
    BY <1>3, <1>4, ZenonT(60)
  <2> QED BY <1>4, <2>1, GoodKept, ZenonT(60)
<1> QED BY <1>3, <1>4, <1>5, ZenonT(60) DEF OnlyCalibrated

OnlyFuzzed(L, q, r, top, e) ==
    /\ Good(L, r, top) /\ r[e].was_fuzzed
    /\ \A k \in 1 .. L : /\ r[k].hits = q[k].hits /\ r[k].favored = q[k].favored
                         /\ r[k].factor = q[k].factor /\ r[k].cal_failed = q[k].cal_failed
                         /\ k # e => r[k].was_fuzzed = q[k].was_fuzzed

LEMMA Fuzzed ==
    ASSUME NEW L, NEW q, NEW top, Good(L, q, top), NEW e \in 1 .. L,
           NEW r, r = MarkFuzzed(q, e)
    PROVE  OnlyFuzzed(L, q, r, top, e)
<1>1. q \in Queues(L) /\ q[e] \in AnyEntry
  BY Zenon DEF Good, Queues
<1> DEFINE n == [q[e] EXCEPT !.was_fuzzed = TRUE]
<1>2. r = [q EXCEPT ![e] = n]
  BY Zenon DEF MarkFuzzed
<1>3. /\ n \in AnyEntry /\ n.hits = q[e].hits /\ n.factor = q[e].factor
      /\ n.tc_ref = q[e].tc_ref /\ n.mini = q[e].mini
      /\ n.favored = q[e].favored /\ n.was_fuzzed = TRUE /\ n.cal_failed = q[e].cal_failed
  BY <1>1, Zenon DEF AnyEntry
<1> HIDE DEF n
<1>4. r \in Queues(L) /\ r[e] = n /\ \A k \in 1 .. L : k # e => r[k] = q[k]
  BY <1>1, <1>2, <1>3, Zenon DEF Queues
<1>5. Good(L, r, top)
  <2>1. \A k \in 1 .. L : /\ r[k].hits = q[k].hits /\ r[k].tc_ref = q[k].tc_ref
                          /\ r[k].mini = q[k].mini
                          /\ q[k].cal_failed = 0 => r[k].cal_failed = 0
    BY <1>3, <1>4, Zenon
  <2> QED BY <1>4, <2>1, GoodKept, Zenon
<1> QED BY <1>3, <1>4, <1>5, Zenon DEF OnlyFuzzed

(* The winners are best and the favored entries cover what they did, if    *)
(* what they depend on has not changed.                                    *)
LEMMA WonKept ==
    ASSUME NEW L, NEW q, NEW top, Good(L, q, top), NEW r,
           \A k \in 1 .. L : /\ r[k].hits = q[k].hits /\ r[k].factor = q[k].factor
                             /\ r[k].cal_failed = q[k].cal_failed
    PROVE  Best(L, q, top) => Best(L, r, top)
<1> SUFFICES ASSUME Best(L, q, top), NEW k \in Cal(L, r), NEW i \in r[k].hits
             PROVE  top[i] # NoOne /\ r[top[i]].factor <= r[k].factor
  BY Zenon DEF Best
<1>1. k \in 1 .. L /\ k \in Cal(L, q) /\ i \in q[k].hits
  BY Zenon DEF Cal
<1>2. top[i] # NoOne /\ q[top[i]].factor <= q[k].factor
  BY <1>1, Zenon DEF Best
<1>3. i \in Byte
  BY <1>1, Zenon DEF Good, Queues, AnyEntry
<1>4. top[i] \in 1 .. L
  BY <1>2, <1>3 DEF Good, NoOne
<1> QED BY <1>1, <1>2, <1>4, Zenon

LEMMA CoverKept ==
    ASSUME NEW L, NEW q, NEW top, Cover(L, q, top), NEW M, NEW r,
           \A k \in 1 .. L : k \in 1 .. M /\ r[k].hits = q[k].hits /\ r[k].favored = q[k].favored
    PROVE  Cover(M, r, top)
  BY Zenon DEF Cover

-----------------------------------------------------------------------------
(* The steps.                                                              *)

(* Each byte of bits has gone to e, or stayed with a better entry.         *)
Contended(q, top, new, e, bits) ==
    \A i \in Byte :
        IF i \in bits
        THEN \/ new[i] = e /\ (top[i] # NoOne => q[e].factor <= q[top[i]].factor)
             \/ new[i] = top[i] /\ top[i] # NoOne /\ q[e].factor > q[top[i]].factor
        ELSE new[i] = top[i]

(* update_bitmap_score for entry e of the queue q, as a step.              *)
LEMMA ScoreStep ==
    ASSUME Facts, NEW L, NEW q, NEW e \in 1 .. L, NEW bits, Good(L, q, top_rated),
           score_changed \in BOOLEAN, q[e].cal_failed = 0, bits = {} \/ bits = q[e].hits,
           Score(q, e, bits), ~score_changed => Cover(L, q, top_rated)
    PROVE  /\ Len(queue') = L /\ Good(L, queue', top_rated') /\ SameTests(L, q, queue')
           /\ score_changed' \in BOOLEAN
           /\ Contended(q, top_rated, top_rated', e, bits)
           /\ ~score_changed' => Cover(L, queue', top_rated')
<1> DEFINE s == UpdateBitmapScore(q, e, bits)
<1>1. ScoredUpTo(L, q, top_rated, score_changed, e, bits, s, MapSize)
  BY Scored, Zenon
<1>2. queue' = s.q /\ top_rated' = s.top /\ score_changed' = s.changed
  BY Zenon DEF Score
<1> HIDE DEF s
<1>3. Good(L, s.q, s.top) /\ SameTests(L, q, s.q) /\ s.changed \in BOOLEAN
  BY <1>1, Zenon DEF ScoredUpTo
<1>4. \A i \in Byte : i < MapSize
  BY CullingAssumption DEF Byte
<1>5. Contended(q, top_rated, s.top, e, bits)
  BY <1>1, <1>4, Zenon DEF ScoredUpTo, Contended
<1>6. s.changed \/ (~score_changed /\ \A i \in Byte : i \in bits => top_rated[i] # NoOne)
  BY <1>1, <1>4, ZenonT(60) DEF ScoredUpTo
<1>7. ASSUME ~s.changed PROVE Cover(L, s.q, s.top)
  <2>1. Cover(L, q, top_rated) /\ \A i \in Byte : i \in bits => top_rated[i] # NoOne
    BY <1>6, <1>7, Zenon
  <2>2. Cover(L, s.q, top_rated)
    <3>1. \A k \in 1 .. L : /\ k \in 1 .. L /\ s.q[k].hits = q[k].hits
                            /\ s.q[k].favored = q[k].favored
      BY <1>3, Zenon DEF SameTests
    <3> QED BY <2>1, <3>1, CoverKept, ZenonT(60)
  <2>3. \A i \in Byte : s.top[i] # NoOne => top_rated[i] # NoOne
    BY <1>5, <2>1, Zenon DEF Contended
  <2> QED BY <2>2, <2>3, Zenon DEF Cover
<1>8. Len(s.q) = L
  BY <1>3, QueueLen, SMTT(20) DEF Good
<1> QED BY <1>2, <1>3, <1>5, <1>7, <1>8, Zenon

(* Nobody wins a byte that is not in trace_bits.                           *)
LEMMA NoneAfter ==
    ASSUME NEW q, NEW e, Contended(q, top_rated, top_rated', e, {}), NoneWon,
           Fav(Len(queue'), queue') = Fav(Len(queue), queue)
    PROVE  NoneWon'
  BY Zenon DEF Contended, NoneWon

(* If the winners were best among the entries other than e, they are best  *)
(* after e has competed for all it hits.                                   *)
LEMMA BestAfter ==
    ASSUME NEW L, NEW q, NEW top, NEW r, NEW new, NEW e \in 1 .. L, Good(L, q, top),
           SameTests(L, q, r), Contended(q, top, new, e, q[e].hits),
           \A k \in Cal(L, q) : k # e => \A i \in q[k].hits :
               top[i] # NoOne /\ q[top[i]].factor <= q[k].factor
    PROVE  Best(L, r, new)
<1>1. \A k \in 1 .. L : q[k].hits \in SUBSET Byte /\ q[k].factor \in Nat
  BY Zenon DEF Good, Queues, AnyEntry
<1>2. \A k \in 1 .. L : /\ r[k].hits = q[k].hits /\ r[k].factor = q[k].factor
                        /\ r[k].cal_failed = q[k].cal_failed
  BY Zenon DEF SameTests
<1> SUFFICES ASSUME NEW k \in Cal(L, q), NEW i \in q[k].hits
             PROVE  new[i] # NoOne /\ r[new[i]].factor <= r[k].factor
  BY <1>2, ZenonT(60) DEF Best, Cal
<1>0. k \in 1 .. L
  BY Zenon DEF Cal
<1>3. i \in Byte /\ (top[i] # NoOne => top[i] \in 1 .. L) /\ e # NoOne
  BY <1>0, <1>1 DEF Good, NoOne
<1>4. k # e => top[i] # NoOne /\ q[top[i]].factor <= q[k].factor
  BY Zenon
<1>5. CASE i \in q[e].hits
  <2>1. CASE new[i] = e /\ (top[i] # NoOne => q[e].factor <= q[top[i]].factor)
    <3>1. q[e].factor <= q[k].factor
      <4>1. CASE k = e
        BY <1>0, <1>1, <4>1, SMTT(20)
      <4>2. CASE k # e
        BY <1>0, <1>1, <1>3, <1>4, <2>1, <4>2, SMTT(20)
      <4> QED BY <4>1, <4>2, Zenon
    <3> QED BY <1>0, <1>2, <1>3, <2>1, <3>1, SMTT(20)
  <2>2. CASE new[i] = top[i] /\ top[i] # NoOne /\ q[e].factor > q[top[i]].factor
    <3>1. q[top[i]].factor <= q[k].factor
      <4>1. CASE k = e
        BY <1>1, <1>3, <2>2, <4>1, SMTT(20)
      <4>2. CASE k # e
        BY <1>4, <4>2, Zenon
      <4> QED BY <4>1, <4>2, Zenon
    <3> QED BY <1>0, <1>2, <1>3, <2>2, <3>1, SMTT(20)
  <2> QED BY <1>3, <1>5, <2>1, <2>2, ZenonT(60) DEF Contended
<1>6. CASE i \notin q[e].hits
  <2>1. new[i] = top[i] /\ k # e
    BY <1>3, <1>6, Zenon DEF Contended
  <2> QED BY <1>0, <1>2, <1>3, <1>4, <2>1, Zenon
<1> QED BY <1>5, <1>6, Zenon

(* A queue that grows by an entry that is not favored.                     *)
LEMMA GrownCounts ==
    ASSUME NEW L \in Nat, NEW q, NEW r, ~r[L + 1].favored,
           \A k \in 1 .. L : /\ r[k].favored = q[k].favored
                             /\ r[k].was_fuzzed = q[k].was_fuzzed
    PROVE  Fav(L + 1, r) = Fav(L, q) /\ Pend(L + 1, r) = Pend(L, q)
<1>1. \A k \in 1 .. L + 1 : k \in 1 .. L \/ k = L + 1
  OBVIOUS
<1>2. \A k \in 1 .. L : k \in 1 .. L + 1
  OBVIOUS
<1> QED BY <1>1, <1>2, Zenon DEF Fav, Pend

(* A new entry competes for what it hits, or fails to be calibrated.       *)
LEMMA SaveStep ==
    ASSUME Facts, Refs, SaveIfInteresting
    PROVE  /\ Refs' /\ (Won /\ ~CONFIG_S2E => Won')
           /\ NoneWon /\ CONFIG_S2E => NoneWon'
<1> DEFINE L == Len(queue)
<1>1. /\ Types /\ L \in Nat /\ Good(L, queue, top_rated) /\ score_changed \in BOOLEAN
      /\ ~score_changed => Cover(L, queue, top_rated)
  BY Zenon DEF Refs, Types
<1>2. pc' = pc /\ queue_cur' = queue_cur /\ UNCHANGED <<queued_favored, pending_favored>>
  BY Zenon DEF SaveIfInteresting
<1>3. PICK h \in SUBSET Byte :
         \/ \E f \in 1 .. MaxFactor :
               Score(Append(queue, NewEntry(h, f, 0)), Len(queue) + 1, TraceBits(h))
         \/ /\ ~CONFIG_S2E
            /\ queue' = Append(queue, NewEntry(h, 0, IF pc = "start" THEN CAL_CHANCES ELSE 1))
            /\ UNCHANGED <<top_rated, score_changed>>
  BY Zenon DEF SaveIfInteresting
<1>4. /\ L + 1 \in Nat /\ L + 1 \in 1 .. L + 1 /\ L + 1 # 0 /\ L + 1 \notin 1 .. L
      /\ \A k \in 1 .. L + 1 : k \in 1 .. L \/ k = L + 1
      /\ \A k \in 1 .. L : k \in 1 .. L + 1
  BY <1>1, SMTT(30)
<1>5. ASSUME Len(queue') = L + 1, Good(L + 1, queue', top_rated'), score_changed' \in BOOLEAN,
             ~score_changed' => Cover(L + 1, queue', top_rated'), ~queue'[L + 1].favored,
             \A k \in 1 .. L : /\ queue'[k].favored = queue[k].favored
                               /\ queue'[k].was_fuzzed = queue[k].was_fuzzed
                               /\ queue'[k].cal_failed = queue[k].cal_failed
      PROVE  Refs' /\ Fav(Len(queue'), queue') = Fav(Len(queue), queue)
  <2>1. Fav(L + 1, queue') = Fav(L, queue) /\ Pend(L + 1, queue') = Pend(L, queue)
    BY <1>1, <1>5, GrownCounts, Zenon
  <2>2. Counts'
    BY <1>2, <1>5, <2>1, Zenon DEF Refs, Counts
  <2>3. queue_cur <= L + 1 /\ (pc = "fuzz" => queue_cur \in 1 .. L)
    BY <1>1 DEF Types
  <2>4. queue' \in Queues(L + 1)
    BY <1>5, Zenon DEF Good
  <2>5. pc' = "fuzz" => queue'[queue_cur'].cal_failed = 0
    BY <1>1, <1>2, <1>5, <2>3, ZenonT(60) DEF Types
  <2> HIDE DEF L
  <2>6. Types'
    BY <1>1, <1>2, <1>4, <1>5, <2>3, <2>4, <2>5, SMTT(20) DEF Types
  <2> QED BY <1>5, <2>1, <2>2, <2>6, Zenon DEF Refs, L
<1>6. ASSUME NEW f \in 1 .. MaxFactor,
             Score(Append(queue, NewEntry(h, f, 0)), Len(queue) + 1, TraceBits(h))
      PROVE  /\ Refs' /\ (Won /\ ~CONFIG_S2E => Won')
             /\ NoneWon /\ CONFIG_S2E => NoneWon'
  <2> DEFINE q == Append(queue, NewEntry(h, f, 0))
             e == L + 1
             bits == TraceBits(h)
  <2>1. f \in Nat /\ 0 \in Nat /\ q = Extended(queue, h, f, 0) /\ Score(q, e, bits)
    BY <1>6, SMTT(30) DEF Extended
  <2> HIDE DEF q, L
  <2>2. /\ Good(L + 1, q, top_rated) /\ \A k \in 1 .. L : q[k] = queue[k]
        /\ q[e].hits = h /\ q[e].factor = f /\ ~q[e].favored /\ q[e].cal_failed = 0
    <3>1. OnlyAdded(L, queue, q, top_rated, h, f, 0)
      BY <1>1, <2>1, Added, Zenon
    <3> QED BY <3>1, Zenon DEF OnlyAdded
  <2>3. bits = {} \/ bits = q[e].hits
    BY <2>2, Zenon DEF TraceBits
  <2>4. ~score_changed => Cover(L + 1, q, top_rated)
    <3>1. \A k \in 1 .. L : /\ k \in 1 .. L + 1 /\ q[k].hits = queue[k].hits
                            /\ q[k].favored = queue[k].favored
      BY <1>4, <2>2, Zenon
    <3> QED BY <1>1, <3>1, CoverKept, ZenonT(60)
  <2> HIDE DEF bits
  <2>5. e \in 1 .. L + 1
    BY <1>4, Zenon
  <2> HIDE DEF e
  <2>6. /\ Len(queue') = L + 1 /\ Good(L + 1, queue', top_rated')
        /\ SameTests(L + 1, q, queue') /\ score_changed' \in BOOLEAN
        /\ Contended(q, top_rated, top_rated', e, bits)
        /\ ~score_changed' => Cover(L + 1, queue', top_rated')
    BY <1>1, <2>1, <2>2, <2>3, <2>4, <2>5, ScoreStep, Zenon
  <2>7. Refs' /\ Fav(Len(queue'), queue') = Fav(Len(queue), queue)
    <3>1. /\ ~queue'[L + 1].favored
          /\ \A k \in 1 .. L : /\ queue'[k].favored = queue[k].favored
                               /\ queue'[k].was_fuzzed = queue[k].was_fuzzed
                               /\ queue'[k].cal_failed = queue[k].cal_failed
      BY <1>4, <2>2, <2>6, ZenonT(60) DEF SameTests, e
    <3> QED BY <1>5, <2>6, <3>1, Zenon
  <2>8. ASSUME Won, ~CONFIG_S2E PROVE Won'
    <3>1. bits = h
      BY <2>8, Zenon DEF bits, TraceBits
    <3>2. Best(L, queue, top_rated)
      BY <2>8, Zenon DEF Won, L
    <3>3. ASSUME NEW k \in Cal(L + 1, q), k # e, NEW i \in q[k].hits
          PROVE  top_rated[i] # NoOne /\ q[top_rated[i]].factor <= q[k].factor
      <4>1. k \in 1 .. L /\ k \in Cal(L, queue) /\ i \in queue[k].hits
        BY <1>4, <2>2, <3>3, Zenon DEF Cal, e
      <4>2. i \in Byte
        BY <1>1, <4>1, Zenon DEF Good, Queues, AnyEntry
      <4>3. top_rated[i] # NoOne /\ queue[top_rated[i]].factor <= queue[k].factor
        BY <3>2, <4>1, ZenonT(60) DEF Best
      <4>4. top_rated[i] \in 1 .. L
        BY <1>1, <4>2, <4>3, SMTT(20) DEF Good, NoOne
      <4> QED BY <2>2, <4>1, <4>3, <4>4, Zenon
    <3>4. Contended(q, top_rated, top_rated', e, q[e].hits)
      BY <2>2, <2>6, <3>1, Zenon
    <3>5. Best(L + 1, queue', top_rated')
      BY <2>2, <2>5, <2>6, <3>3, <3>4, BestAfter, Zenon
    <3> QED BY <2>6, <3>5, Zenon DEF Won
  <2>9. ASSUME NoneWon, CONFIG_S2E PROVE NoneWon'
    <3>1. bits = {}
      BY <2>9, Zenon DEF bits, TraceBits
    <3> QED BY <2>6, <2>7, <2>9, <3>1, NoneAfter, Zenon
  <2> QED BY <2>7, <2>8, <2>9, Zenon
<1>7. ASSUME ~CONFIG_S2E,
             queue' = Append(queue, NewEntry(h, 0, IF pc = "start" THEN CAL_CHANCES ELSE 1)),
             UNCHANGED <<top_rated, score_changed>>
      PROVE  Refs' /\ (Won => Won')
  <2> DEFINE c == IF pc = "start" THEN CAL_CHANCES ELSE 1
  <2>1. c \in Nat /\ c # 0 /\ 0 \in Nat
    BY CullingAssumption
  <2>2. queue' = Extended(queue, h, 0, c)
    BY <1>7, Zenon DEF Extended
  <2> HIDE DEF c, L
  <2>3. /\ Good(L + 1, queue', top_rated) /\ \A k \in 1 .. L : queue'[k] = queue[k]
        /\ ~queue'[L + 1].favored /\ queue'[L + 1].cal_failed = c
    <3>1. OnlyAdded(L, queue, queue', top_rated, h, 0, c)
      BY <1>1, <2>1, <2>2, Added, Zenon
    <3> QED BY <3>1, Zenon DEF OnlyAdded
  <2>4. Len(queue') = L + 1
    BY <1>4, <2>3, QueueLen, Zenon DEF Good
  <2>5. ~score_changed => Cover(L + 1, queue', top_rated)
    BY <1>1, <1>4, <2>3, CoverKept, ZenonT(60)
  <2>6. Refs'
    BY <1>1, <1>5, <1>7, <2>3, <2>4, <2>5, Zenon
  <2>7. ASSUME Won PROVE Best(L + 1, queue', top_rated)
    <3>1. Best(L, queue, top_rated)
      BY <2>7, Zenon DEF Won, L
    <3> SUFFICES ASSUME NEW k \in Cal(L + 1, queue'), NEW i \in queue'[k].hits
                 PROVE  top_rated[i] # NoOne /\ queue'[top_rated[i]].factor <= queue'[k].factor
      BY Zenon DEF Best
    <3>2. k \in 1 .. L /\ k \in Cal(L, queue) /\ i \in queue[k].hits
      BY <1>4, <2>1, <2>3, Zenon DEF Cal
    <3>3. i \in Byte
      BY <1>1, <3>2, Zenon DEF Good, Queues, AnyEntry
    <3>4. top_rated[i] # NoOne /\ queue[top_rated[i]].factor <= queue[k].factor
      BY <3>1, <3>2, Zenon DEF Best
    <3>5. top_rated[i] \in 1 .. L
      BY <1>1, <3>3, <3>4, SMTT(20) DEF Good, NoOne
    <3> QED BY <2>3, <3>2, <3>4, <3>5, Zenon
  <2> QED BY <1>7, <2>4, <2>6, <2>7, Zenon DEF Won
<1> QED BY <1>3, <1>6, <1>7, Zenon

(* An entry of the queue competes again, with a smaller factor or after    *)
(* its first calibration that succeeds.                                    *)
Rescored(L, q, e) ==
    /\ Good(L, q, top_rated) /\ q[e].cal_failed = 0
    /\ queue[e].cal_failed # 0 \/ q[e].factor <= queue[e].factor
    /\ \A k \in 1 .. L : /\ q[k].hits = queue[k].hits /\ q[k].favored = queue[k].favored
                         /\ q[k].was_fuzzed = queue[k].was_fuzzed
                         /\ k # e => /\ q[k].factor = queue[k].factor
                                     /\ q[k].cal_failed = queue[k].cal_failed

LEMMA RescoreStep ==
    ASSUME Facts, Refs, NEW q, NEW e, e \in 1 .. Len(queue), e = queue_cur,
           Rescored(Len(queue), q, e), Score(q, e, TraceBits(q[e].hits)),
           pc' = "fuzz", queue_cur' = queue_cur, UNCHANGED <<queued_favored, pending_favored>>
    PROVE  /\ Refs' /\ (Won /\ ~CONFIG_S2E => Won')
           /\ NoneWon /\ CONFIG_S2E => NoneWon'
<1> DEFINE L == Len(queue)
           bits == TraceBits(q[e].hits)
<1>1. /\ Types /\ L \in Nat /\ Good(L, queue, top_rated) /\ score_changed \in BOOLEAN
      /\ ~score_changed => Cover(L, queue, top_rated)
  BY Zenon DEF Refs, Types
<1>2. /\ Good(L, q, top_rated) /\ q[e].cal_failed = 0
      /\ queue[e].cal_failed # 0 \/ q[e].factor <= queue[e].factor
      /\ \A k \in 1 .. L : /\ q[k].hits = queue[k].hits /\ q[k].favored = queue[k].favored
                           /\ q[k].was_fuzzed = queue[k].was_fuzzed
                           /\ k # e => /\ q[k].factor = queue[k].factor
                                       /\ q[k].cal_failed = queue[k].cal_failed
  BY Zenon DEF Rescored
<1>3. bits = {} \/ bits = q[e].hits
  BY Zenon DEF TraceBits
<1> HIDE DEF L
<1>4. ~score_changed => Cover(L, q, top_rated)
  <2>1. \A k \in 1 .. L : /\ k \in 1 .. L /\ q[k].hits = queue[k].hits
                          /\ q[k].favored = queue[k].favored
    BY <1>2, Zenon
  <2> QED BY <1>1, <2>1, CoverKept, Zenon
<1>5. /\ Len(queue') = L /\ Good(L, queue', top_rated')
      /\ SameTests(L, q, queue') /\ score_changed' \in BOOLEAN
      /\ Contended(q, top_rated, top_rated', e, bits)
      /\ ~score_changed' => Cover(L, queue', top_rated')
  <2>1. e \in 1 .. L /\ Score(q, e, bits)
    BY Zenon DEF L
  <2> HIDE DEF bits
  <2> QED BY <1>1, <1>2, <1>3, <1>4, <2>1, ScoreStep, Zenon
<1>6. Refs' /\ Fav(Len(queue'), queue') = Fav(Len(queue), queue)
  <2>1. \A k \in 1 .. L : /\ queue'[k].favored = queue[k].favored
                          /\ queue'[k].was_fuzzed = queue[k].was_fuzzed
    <3>1. \A k \in 1 .. L : /\ queue'[k].favored = q[k].favored
                            /\ queue'[k].was_fuzzed = q[k].was_fuzzed
      BY <1>5, Zenon DEF SameTests
    <3>2. \A k \in 1 .. L : /\ q[k].favored = queue[k].favored
                            /\ q[k].was_fuzzed = queue[k].was_fuzzed
      BY <1>2, Zenon
    <3> QED BY <3>1, <3>2, Zenon
  <2>2. Fav(L, queue') = Fav(L, queue) /\ Pend(L, queue') = Pend(L, queue)
    BY <2>1, SameCounts, Zenon
  <2>3. Counts'
    BY <1>5, <2>2, Zenon DEF Refs, Counts, L
  <2>4. queue' \in Queues(L)
    BY <1>5, Zenon DEF Good
  <2>5. queue'[queue_cur'].cal_failed = 0 /\ queue_cur' \in 1 .. L
    BY <1>2, <1>5, Zenon DEF SameTests, L
  <2>6. Types'
    BY <1>1, <1>5, <2>4, <2>5, SMTT(20) DEF Types
  <2> QED BY <1>5, <2>2, <2>3, <2>6, Zenon DEF Refs, L
<1>7. ASSUME Won, ~CONFIG_S2E PROVE Won'
  <2>1. bits = q[e].hits
    BY <1>7, Zenon DEF TraceBits
  <2>2. Best(L, queue, top_rated) /\ e \in 1 .. L
    BY <1>7, Zenon DEF Won, L
  <2>3. ASSUME NEW k \in Cal(L, q), k # e, NEW i \in q[k].hits
        PROVE  top_rated[i] # NoOne /\ q[top_rated[i]].factor <= q[k].factor
    <3>1. k \in 1 .. L /\ k \in Cal(L, queue) /\ i \in queue[k].hits
      BY <1>2, <2>3, Zenon DEF Cal
    <3>2. i \in Byte
      BY <1>1, <3>1, Zenon DEF Good, Queues, AnyEntry
    <3>3. top_rated[i] # NoOne /\ queue[top_rated[i]].factor <= queue[k].factor
      BY <2>2, <3>1, Zenon DEF Best
    <3>4. top_rated[i] \in 1 .. L /\ queue[top_rated[i]].cal_failed = 0
      BY <1>1, <3>2, <3>3, SMTT(30) DEF Good, NoOne
    <3>5. \A j \in 1 .. L : queue[j].factor \in Nat /\ q[j].factor \in Nat
      BY <1>1, <1>2, Zenon DEF Good, Queues, AnyEntry
    <3>6. q[k].factor = queue[k].factor
      BY <1>2, <2>3, <3>1, Zenon
    <3>7. q[top_rated[i]].factor <= queue[top_rated[i]].factor
      <4>1. CASE top_rated[i] = e
        BY <1>2, <3>4, <4>1, ZenonT(60)
      <4>2. CASE top_rated[i] # e
        BY <1>2, <3>4, <3>5, <4>2, SMTT(20)
      <4> QED BY <4>1, <4>2, Zenon
    <3> QED BY <3>1, <3>3, <3>4, <3>5, <3>6, <3>7, SMTT(20)
  <2>4. Best(L, queue', top_rated')
    <3>1. Contended(q, top_rated, top_rated', e, q[e].hits)
      BY <1>5, <2>1, Zenon
    <3>2. Good(L, q, top_rated) /\ SameTests(L, q, queue')
      BY <1>2, <1>5, Zenon
    <3> QED BY <2>2, <2>3, <3>1, <3>2, BestAfter, Zenon
  <2> QED BY <1>5, <2>4, Zenon DEF Won
<1>8. ASSUME NoneWon, CONFIG_S2E PROVE NoneWon'
  <2>1. bits = {}
    BY <1>8, Zenon DEF TraceBits
  <2> QED BY <1>5, <1>6, <1>8, <2>1, NoneAfter, Zenon
<1> QED BY <1>6, <1>7, <1>8, Zenon

(* queue_cur competes again with a smaller factor.                         *)
LEMMA TrimStep ==
    ASSUME Facts, Refs, TrimCase
    PROVE  /\ Refs' /\ (Won /\ ~CONFIG_S2E => Won')
           /\ NoneWon /\ CONFIG_S2E => NoneWon'
<1> DEFINE L == Len(queue)
           e == queue_cur
           q == [queue EXCEPT ![queue_cur].factor = @ - 1]
<1>1. Types /\ Good(L, queue, top_rated)
  BY Zenon DEF Refs
<1>2. /\ pc = "fuzz" /\ queue[e].factor > 0 /\ pc' = "fuzz"
      /\ queue_cur' = queue_cur /\ UNCHANGED <<queued_favored, pending_favored>>
      /\ Score(q, e, TraceBits(queue[e].hits))
  BY Zenon DEF TrimCase
<1>3. e \in 1 .. L /\ queue[e].cal_failed = 0
  BY <1>1, <1>2, SMTT(30) DEF Types
<1>4. q = Shorter(queue, e)
  BY Zenon DEF Shorter
<1> HIDE DEF q, L, e
<1>5. OnlyTrimmed(L, queue, q, top_rated, e)
  BY <1>1, <1>2, <1>3, <1>4, Trimmed, Zenon
<1>6. Rescored(L, q, e)
  BY <1>3, <1>5, Zenon DEF Rescored, OnlyTrimmed
<1>7. Score(q, e, TraceBits(q[e].hits))
  BY <1>2, <1>3, <1>5, Zenon DEF OnlyTrimmed
<1> QED BY <1>2, <1>3, <1>6, <1>7, RescoreStep, Zenon DEF L, e

LEMMA NextEntry ==
    ASSUME NEW L \in Nat \ {0}, NEW k \in 1 .. L PROVE (k % L) + 1 \in 1 .. L
  OBVIOUS

(* fuzz_one takes up queue_cur and calibrates it, if need be.              *)
LEMMA CalibrateStep ==
    ASSUME Facts, Refs, CalibrateAgain
    PROVE  /\ Refs' /\ (Won /\ ~CONFIG_S2E => Won')
           /\ NoneWon /\ CONFIG_S2E => NoneWon'
<1> DEFINE L == Len(queue)
           e == queue_cur
<1>1. /\ Types /\ Good(L, queue, top_rated) /\ Counts
      /\ ~score_changed => Cover(L, queue, top_rated)
  BY Zenon DEF Refs
<1>2. pc = "fuzz_one" /\ UNCHANGED <<queued_favored, pending_favored>>
  BY Zenon DEF CalibrateAgain
<1>3. e \in 1 .. L /\ L \in Nat \ {0}
  BY <1>1, <1>2, SMTT(30) DEF Types
<1>4. CASE /\ queue[e].cal_failed = 0 /\ pc' = "fuzz"
           /\ UNCHANGED <<queue, queue_cur, top_rated, score_changed>>
  <2>1. Types'
    <3>1. IF Len(queue) = 0 THEN FALSE ELSE queue_cur <= Len(queue)
      BY <1>1, <1>2 DEF Types
    <3> QED BY <1>1, <1>4, <3>1 DEF Types
  <2> QED BY <1>1, <1>2, <1>4, <2>1, Zenon DEF Refs, Counts, Won, NoneWon
<1>5. ASSUME queue[e].cal_failed \in 1 .. CAL_CHANCES - 1, NEW f \in 1 .. MaxFactor,
             Score([queue EXCEPT ![e].factor = f, ![e].cal_failed = 0], e,
                   TraceBits(queue[e].hits)),
             pc' = "fuzz", UNCHANGED queue_cur
      PROVE  /\ Refs' /\ (Won /\ ~CONFIG_S2E => Won')
             /\ NoneWon /\ CONFIG_S2E => NoneWon'
  <2> DEFINE q == [queue EXCEPT ![e].factor = f, ![e].cal_failed = 0]
  <2>1. f \in Nat /\ 0 \in Nat /\ queue[e].cal_failed # 0
    BY <1>5
  <2>2. q = Recal(queue, e, f, 0) /\ Score(q, e, TraceBits(queue[e].hits))
    BY <1>5, Zenon DEF Recal
  <2> HIDE DEF q, L, e
  <2>3. OnlyCalibrated(L, queue, q, top_rated, e, f, 0)
    BY <1>1, <1>3, <2>1, <2>2, Recalibrated, Zenon
  <2>4. Rescored(L, q, e) /\ q[e].hits = queue[e].hits
    BY <1>3, <2>1, <2>3, Zenon DEF Rescored, OnlyCalibrated
  <2> QED BY <1>2, <1>3, <1>5, <2>2, <2>4, RescoreStep, Zenon DEF L, e
<1>6. ASSUME queue[e].cal_failed # 0,
             queue' = IF queue[e].cal_failed < CAL_CHANCES THEN Failed(queue, e) ELSE queue,
             queue_cur' = (e % L) + 1, pc' = "next", UNCHANGED <<top_rated, score_changed>>
      PROVE  Refs' /\ (Won => Won') /\ (NoneWon => NoneWon')
  <2>1. queue_cur' \in 1 .. L
    BY <1>3, <1>6, NextEntry, Zenon
  <2>2. PICK c \in Nat, f \in Nat : c # 0 /\ OnlyCalibrated(L, queue, queue', top_rated, e, f, c)
    <3>1. /\ queue[e].cal_failed \in Nat /\ queue[e].factor \in Nat /\ queue \in Queues(L)
          /\ queue[e] \in AnyEntry
      BY <1>1, <1>3, Zenon DEF Good, Queues, AnyEntry
    <3>2. CASE queue' = queue
      <4>1. OnlyCalibrated(L, queue, queue', top_rated, e, queue[e].factor, queue[e].cal_failed)
        BY <1>1, <3>2, Zenon DEF OnlyCalibrated
      <4> QED BY <1>6, <3>1, <4>1, Zenon
    <3>3. CASE queue' = Failed(queue, e)
      <4> DEFINE c == queue[e].cal_failed + 1
                 n == [queue[e] EXCEPT !.cal_failed = c]
      <4>1. c \in Nat /\ c # 0
        BY <3>1
      <4>2. queue' = [queue EXCEPT ![e] = n]
        BY <3>3, Zenon DEF Failed
      <4> HIDE DEF c
      <4>3. n = [queue[e] EXCEPT !.factor = queue[e].factor, !.cal_failed = c]
        BY <3>1, <4>1, Zenon DEF AnyEntry
      <4>4. Recal(queue, e, queue[e].factor, c) = [queue EXCEPT ![e] = n]
        BY <3>1, <4>3, Zenon DEF Recal, Queues
      <4> HIDE DEF L, e, n
      <4>5. OnlyCalibrated(L, queue, queue', top_rated, e, queue[e].factor, c)
        BY <1>1, <1>3, <1>6, <3>1, <4>1, <4>2, <4>4, Recalibrated, Zenon
      <4> QED BY <3>1, <4>1, <4>5, Zenon
    <3> QED BY <1>6, <3>2, <3>3, Zenon
  <2> HIDE DEF L, e
  <2>3. /\ Good(L, queue', top_rated) /\ queue'[e].cal_failed = c
        /\ \A k \in 1 .. L :
              /\ queue'[k].hits = queue[k].hits /\ queue'[k].favored = queue[k].favored
              /\ queue'[k].was_fuzzed = queue[k].was_fuzzed
              /\ k # e => /\ queue'[k].factor = queue[k].factor
                          /\ queue'[k].cal_failed = queue[k].cal_failed
    BY <2>2, Zenon DEF OnlyCalibrated
  <2>4. Len(queue') = L /\ queue' \in Queues(L)
    BY <1>3, <2>3, QueueLen, Zenon DEF Good
  <2>5. Types'
    BY <1>1, <1>3, <1>6, <2>1, <2>4, SMTT(30) DEF Types
  <2>6. Fav(L, queue') = Fav(L, queue) /\ Pend(L, queue') = Pend(L, queue)
    BY <2>3, SameCounts, ZenonT(60)
  <2>7. Counts'
    BY <1>1, <1>2, <2>4, <2>6, Zenon DEF Counts, L
  <2>8. ~score_changed => Cover(L, queue', top_rated)
    BY <1>1, <2>3, CoverKept, ZenonT(60)
  <2>9. Refs'
    BY <1>6, <2>3, <2>4, <2>5, <2>7, <2>8, Zenon DEF Refs
  <2>10. ASSUME Won PROVE Best(L, queue', top_rated)
    <3>1. Best(L, queue, top_rated)
      BY <2>10, Zenon DEF Won, L
    <3> SUFFICES ASSUME NEW k \in Cal(L, queue'), NEW i \in queue'[k].hits
                 PROVE  top_rated[i] # NoOne /\ queue'[top_rated[i]].factor <= queue'[k].factor
      BY Zenon DEF Best
    <3>2. k \in 1 .. L /\ k # e /\ k \in Cal(L, queue) /\ i \in queue[k].hits
      BY <2>2, <2>3, Zenon DEF Cal
    <3>3. i \in Byte
      BY <1>1, <3>2, Zenon DEF Good, Queues, AnyEntry
    <3>4. top_rated[i] # NoOne /\ queue[top_rated[i]].factor <= queue[k].factor
      BY <3>1, <3>2, Zenon DEF Best
    <3>5. top_rated[i] \in 1 .. L /\ queue[top_rated[i]].cal_failed = 0
      BY <1>1, <3>3, <3>4, SMTT(30) DEF Good, NoOne
    <3> QED BY <1>6, <2>3, <3>2, <3>4, <3>5, Zenon
  <2> QED BY <1>6, <2>4, <2>6, <2>9, <2>10, Zenon DEF Won, NoneWon, L
<1>7. \/ /\ queue[e].cal_failed = 0 /\ pc' = "fuzz"
         /\ UNCHANGED <<queue, queue_cur, top_rated, score_changed>>
      \/ \E f \in 1 .. MaxFactor :
            /\ queue[e].cal_failed \in 1 .. CAL_CHANCES - 1
            /\ Score([queue EXCEPT ![e].factor = f, ![e].cal_failed = 0], e,
                     TraceBits(queue[e].hits))
            /\ pc' = "fuzz" /\ UNCHANGED queue_cur
      \/ /\ queue[e].cal_failed # 0
         /\ queue' = IF queue[e].cal_failed < CAL_CHANCES THEN Failed(queue, e) ELSE queue
         /\ queue_cur' = (e % L) + 1 /\ pc' = "next" /\ UNCHANGED <<top_rated, score_changed>>
  BY Zenon DEF CalibrateAgain, Failed
<1> QED BY <1>4, <1>5, <1>6, <1>7, Zenon

(* cull_queue.                                                             *)
LEMMA CullStep ==
    ASSUME Facts, Refs, CullQueue PROVE Refs' /\ (Won => Won') /\ (NoneWon => NoneWon')
<1> DEFINE L == Len(queue)
           q == [i \in 1 .. Len(queue) |-> [queue[i] EXCEPT !.favored = FALSE]]
           s == Culled(q)
<1>1. /\ Types /\ L \in Nat /\ L # 0 /\ Good(L, queue, top_rated)
  BY DEF Refs, Types, CullQueue, Queues
<1>2. pc' = "fuzz_one" /\ queue_cur' = queue_cur /\ top_rated' = top_rated
  BY Zenon DEF CullQueue
<1>3. CASE /\ ~score_changed
           /\ UNCHANGED <<queue, score_changed, queued_favored, pending_favored>>
  BY <1>1, <1>2, <1>3, Zenon DEF Refs, Types, Counts, Won, NoneWon
<1>4. CASE /\ queue' = s.q /\ score_changed' = FALSE
           /\ queued_favored' = s.favored /\ pending_favored' = s.pending
  <2>1. /\ q \in Queues(L)
        /\ \A k \in 1 .. L : /\ q[k].hits = queue[k].hits /\ q[k].tc_ref = queue[k].tc_ref
                             /\ q[k].mini = queue[k].mini /\ q[k].factor = queue[k].factor
                             /\ ~q[k].favored /\ q[k].cal_failed = queue[k].cal_failed
    <3>1. ASSUME NEW r \in AnyEntry, NEW n, n = [r EXCEPT !.favored = FALSE]
          PROVE  /\ n \in AnyEntry /\ n.hits = r.hits /\ n.tc_ref = r.tc_ref
                 /\ n.mini = r.mini /\ n.factor = r.factor /\ ~n.favored
                 /\ n.cal_failed = r.cal_failed
      BY <3>1, Zenon DEF AnyEntry
    <3>2. \A k \in 1 .. L : queue[k] \in AnyEntry
      BY <1>1, Zenon DEF Good, Queues
    <3>3. \A k \in 1 .. L : q[k] = [queue[k] EXCEPT !.favored = FALSE]
      BY Zenon
    <3>4. q = [k \in 1 .. L |-> q[k]]
      BY Zenon
    <3> HIDE DEF q, L
    <3>5. \A k \in 1 .. L : q[k] \in AnyEntry
      BY <3>1, <3>2, <3>3, Zenon
    <3>6. q \in Queues(L)
      BY <3>4, <3>5, Zenon DEF Queues
    <3> QED BY <3>1, <3>2, <3>3, <3>6, ZenonT(60)
  <2> HIDE DEF q
  <2>2. Good(L, q, top_rated)
    BY <1>1, <2>1, GoodKept, SMTT(20)
  <2>3. CulledUpTo(L, q, top_rated, s, MapSize)
    BY <2>1, <2>2, CullResult, Zenon
  <2> HIDE DEF s, L
  <2>4. /\ s.q \in Queues(L) /\ SameScores(L, q, s.q)
        /\ s.favored = Cardinality(Fav(L, s.q)) /\ s.pending = Cardinality(Pend(L, s.q))
    BY <2>3, Zenon DEF CulledUpTo
  <2>5. Len(queue') = L
    BY <1>1, <1>4, <2>4, QueueLen, Zenon
  <2>6. Good(L, s.q, top_rated)
    <3>1. \A k \in 1 .. L : /\ s.q[k].hits = q[k].hits /\ s.q[k].tc_ref = q[k].tc_ref
                            /\ s.q[k].mini = q[k].mini
                            /\ q[k].cal_failed = 0 => s.q[k].cal_failed = 0
      BY <2>4, Zenon DEF SameScores
    <3> QED BY <2>2, <2>4, <3>1, GoodKept, Zenon
  <2>7. Types'
    BY <1>1, <1>2, <1>4, <2>4, <2>5, Zenon DEF Types, L
  <2>8. Counts'
    BY <1>4, <2>4, <2>5, Zenon DEF Counts
  <2>9. ASSUME Won PROVE Won'
    <3>1. Best(L, queue, top_rated)
      BY <2>9, Zenon DEF Won, L
    <3>2. \A k \in 1 .. L : /\ s.q[k].hits = queue[k].hits /\ s.q[k].factor = queue[k].factor
                            /\ s.q[k].cal_failed = queue[k].cal_failed
      BY <2>1, <2>4, SMTT(20) DEF SameScores
    <3>3. Best(L, s.q, top_rated)
      BY <1>1, <3>1, <3>2, WonKept, Zenon
    <3> QED BY <1>2, <1>4, <2>5, <3>3, Zenon DEF Won
  <2>11. Cover(L, s.q, top_rated)
    <3>1. \A i \in Byte : i < MapSize
      BY CullingAssumption DEF Byte
    <3> QED BY <2>3, <3>1, Zenon DEF CulledUpTo, Cover
  <2>10. Refs'
    BY <1>2, <1>4, <2>5, <2>6, <2>7, <2>8, <2>11, Zenon DEF Refs
  <2>12. ASSUME NoneWon PROVE NoneWon'
    <3>1. \A k \in 1 .. L : k # NoOne
      BY <1>1 DEF NoOne
    <3>2. \A k \in 1 .. L : ~s.q[k].favored
      BY <2>3, <2>12, <3>1, Zenon DEF CulledUpTo, NoneWon
    <3> QED BY <1>2, <1>4, <2>5, <2>12, <3>2, Zenon DEF NoneWon, Fav
  <2> QED BY <2>9, <2>10, <2>12, Zenon
<1> QED BY <1>3, <1>4, Zenon DEF CullQueue

(* fuzz_one skips queue_cur, or counts it off.                             *)
LEMMA SkipStep ==
    ASSUME Refs, SkipEntry PROVE Refs' /\ (Won => Won') /\ (NoneWon => NoneWon')
<1>1. /\ Types /\ pc = "fuzz_one" /\ pc' = "next" /\ queue_cur' = (queue_cur % Len(queue)) + 1
      /\ queue' = queue /\ top_rated' = top_rated /\ score_changed' = score_changed
      /\ queued_favored' = queued_favored /\ pending_favored' = pending_favored
  BY Zenon DEF Refs, SkipEntry
<1>2. Len(queue) \in Nat \ {0} /\ queue_cur \in 1 .. Len(queue)
  BY <1>1 DEF Types
<1>3. queue_cur' \in 1 .. Len(queue)
  BY <1>1, <1>2, NextEntry, Zenon
<1>4. Types'
  BY <1>1, <1>2, <1>3 DEF Types
<1> QED BY <1>1, <1>4, Zenon DEF Refs, Counts, Won, NoneWon

LEMMA AbandonStep ==
    ASSUME Facts, Refs, AbandonEntry PROVE Refs' /\ (Won => Won') /\ (NoneWon => NoneWon')
<1> DEFINE L == Len(queue)
           e == queue_cur
<1>1. /\ Types /\ pc = "fuzz" /\ pc' = "next" /\ queue_cur' = (e % L) + 1
      /\ queue' = MarkFuzzed(queue, e)
      /\ pending_favored' = IF queue[e].favored /\ ~queue[e].was_fuzzed
                            THEN pending_favored - 1 ELSE pending_favored
      /\ top_rated' = top_rated /\ score_changed' = score_changed
      /\ queued_favored' = queued_favored
  BY Zenon DEF Refs, AbandonEntry, MarkFuzzed
<1>2. L \in Nat \ {0} /\ e \in 1 .. L /\ Good(L, queue, top_rated)
  BY <1>1 DEF Types, Refs
<1>3. queue_cur' \in 1 .. L
  BY <1>1, <1>2, NextEntry, SMTT(20)
<1> HIDE DEF L, e
<1>4. /\ Good(L, queue', top_rated) /\ queue'[e].was_fuzzed
      /\ \A k \in 1 .. L : /\ queue'[k].hits = queue[k].hits
                           /\ queue'[k].favored = queue[k].favored
                           /\ queue'[k].factor = queue[k].factor
                           /\ queue'[k].cal_failed = queue[k].cal_failed
                           /\ k # e => queue'[k].was_fuzzed = queue[k].was_fuzzed
  <2>1. OnlyFuzzed(L, queue, queue', top_rated, e)
    BY <1>1, <1>2, Fuzzed, Zenon
  <2> QED BY <2>1, Zenon DEF OnlyFuzzed
<1>5. Len(queue') = L /\ queue' \in Queues(L)
  BY <1>4, QueueLen, Zenon DEF Good
<1>6. Types'
  BY <1>1, <1>2, <1>3, <1>5 DEF Types
<1>7. /\ queued_favored = Cardinality(Fav(L, queue))
      /\ pending_favored = Cardinality(Pend(L, queue))
  BY Zenon DEF Refs, Counts, L
<1>8. Fav(L, queue') = Fav(L, queue) /\ Pend(L, queue') = Pend(L, queue) \ {e}
  BY <1>4, SMTT(20) DEF Fav, Pend
<1>9. pending_favored' = Cardinality(Pend(L, queue'))
  <2>1. e \in Pend(L, queue) <=> queue[e].favored /\ ~queue[e].was_fuzzed
    BY <1>2, Zenon DEF Pend
  <2>2. IsFiniteSet(Pend(L, queue)) /\ L \in Nat
    BY <1>2, QueueFinite, Zenon
  <2>3. Cardinality(Pend(L, queue) \ {e})
          = IF e \in Pend(L, queue) THEN Cardinality(Pend(L, queue)) - 1
            ELSE Cardinality(Pend(L, queue))
    BY <2>2, Zenon DEF Facts, Sizes
  <2> QED BY <1>1, <1>7, <1>8, <2>1, <2>3, Zenon
<1>10. Counts'
  BY <1>1, <1>5, <1>7, <1>8, <1>9, SMTT(20) DEF Counts
<1>11. ASSUME Won PROVE Won'
  <2>1. Best(L, queue, top_rated)
    BY <1>11, Zenon DEF Won, L
  <2>2. Best(L, queue', top_rated)
    BY <1>2, <1>4, <2>1, WonKept, SMTT(20)
  <2> QED BY <1>1, <1>5, <2>2, Zenon DEF Won
<1>12. Refs'
  <2>1. ~score_changed => Cover(L, queue, top_rated)
    BY Zenon DEF Refs, L
  <2>2. ~score_changed => Cover(L, queue', top_rated)
    BY <1>4, <2>1, CoverKept, ZenonT(60)
  <2> QED BY <1>1, <1>4, <1>5, <1>6, <1>10, <2>2, Zenon DEF Refs
<1> QED BY <1>1, <1>5, <1>8, <1>11, <1>12, Zenon DEF NoneWon, L

LEMMA InitRefs == ASSUME Facts PROVE Init => Refs /\ Won /\ NoneWon
<1> SUFFICES ASSUME Init PROVE Refs /\ Won /\ NoneWon
  BY Zenon
<1>1. Len(queue) = 0 /\ queue = <<>> /\ queue \in Queues(0) /\ \A k \in 1 .. 0 : FALSE
  BY DEF Init, Queues
<1>2. top_rated = [i \in Byte |-> NoOne] /\ queued_favored = 0 /\ pending_favored = 0
  BY Zenon DEF Init
<1>3. Types
  <2>1. pc = "start" /\ score_changed = FALSE /\ queue_cur = 1
    BY Zenon DEF Init
  <2>2. Len(queue) \in Nat /\ queue \in Queues(Len(queue)) /\ queue_cur \in Nat /\ queue_cur >= 1
    BY <1>1, <2>1
  <2> QED BY <1>1, <2>1, <2>2, Zenon DEF Types
<1>4. Good(0, queue, top_rated)
  <2>1. top_rated \in [Byte -> 0 .. 0] /\ \A i \in Byte : top_rated[i] = NoOne
    BY <1>2 DEF NoOne
  <2> QED BY <1>1, <2>1, Zenon DEF Good
<1>5. Counts
  <2>1. Fav(0, queue) = {} /\ Pend(0, queue) = {}
    BY <1>1, Zenon DEF Fav, Pend
  <2>2. Cardinality({}) = 0
    BY Zenon DEF Facts, Sizes
  <2> QED BY <1>1, <1>2, <2>1, <2>2, Zenon DEF Counts
<1>6. Best(0, queue, top_rated) /\ Cover(0, queue, top_rated) /\ NoneWon
  BY <1>1, <1>2, Zenon DEF Best, Cal, Cover, NoneWon, Fav
<1> QED BY <1>1, <1>3, <1>4, <1>5, <1>6, Zenon DEF Refs, Won

LEMMA StepKeeps ==
    ASSUME Facts
    PROVE  Refs /\ [Next]_vars => /\ Refs' /\ (Won /\ ~CONFIG_S2E => Won')
                                 /\ (NoneWon /\ CONFIG_S2E => NoneWon')
<1> SUFFICES ASSUME Refs, [Next]_vars
             PROVE  /\ Refs' /\ (Won /\ ~CONFIG_S2E => Won')
                    /\ (NoneWon /\ CONFIG_S2E => NoneWon')
  BY Zenon
<1>1. CASE SaveIfInteresting
  BY <1>1, SaveStep, Zenon
<1>2. CASE CullQueue
  BY <1>2, CullStep, Zenon
<1>3. CASE SkipEntry
  BY <1>3, SkipStep, Zenon
<1>4. CASE CalibrateAgain
  BY <1>4, CalibrateStep, Zenon
<1>5. CASE TrimCase
  BY <1>5, TrimStep, Zenon
<1>6. CASE AbandonEntry
  BY <1>6, AbandonStep, Zenon
<1>7. CASE UNCHANGED vars
  BY <1>7, Zenon DEF vars, Refs, Types, Counts, Won, NoneWon
<1> QED BY <1>1, <1>2, <1>3, <1>4, <1>5, <1>6, <1>7, ZenonT(60) DEF Next

-----------------------------------------------------------------------------
INSTANCE FiniteSetTheorems
INSTANCE WellFoundedInduction

LEMMA FactsHold == Facts
<1>1. ASSUME NEW S \in SUBSET Nat, S # {} PROVE \E m \in S : \A k \in S : ~(k < m)
  <2>1. IsWellFoundedOn(OpToRel(<, Nat), Nat)
    BY NatLessThanWellFounded, ZenonT(60)
  <2>2. PICK m \in S : \A k \in S : <<k, m>> \notin OpToRel(<, Nat)
    BY <1>1, <2>1, WFMin, ZenonT(60)
  <2>3. \A k \in S : k < m => <<k, m>> \in OpToRel(<, Nat)
    BY Zenon DEF OpToRel
  <2> QED BY <2>2, <2>3, ZenonT(60)
<1>2. ASSUME NEW a \in Int, NEW b \in Int PROVE IsFiniteSet(a .. b)
  BY FS_Interval, ZenonT(60)
<1>3. ASSUME NEW S, IsFiniteSet(S) PROVE Cardinality(S) \in Nat
  BY <1>3, FS_CardinalityType, ZenonT(60)
<1>4. ASSUME NEW S, NEW T, IsFiniteSet(S), T \subseteq S PROVE IsFiniteSet(T)
  <2>1. T \in SUBSET S
    BY <1>4, Zenon
  <2> QED BY <1>4, <2>1, FS_Subset, ZenonT(60)
<1>5. ASSUME NEW S, NEW x, IsFiniteSet(S)
      PROVE  /\ x \notin S => Cardinality(S \cup {x}) = Cardinality(S) + 1
             /\ Cardinality(S \ {x}) = IF x \in S THEN Cardinality(S) - 1 ELSE Cardinality(S)
  BY <1>5, FS_AddElement, FS_RemoveElement, ZenonT(60)
<1> QED BY <1>1, <1>2, <1>3, <1>4, <1>5, FS_EmptySet, ZenonT(60) DEF Facts, Least, Sizes

LEMMA RefsHold == Spec => []Refs
<1>1. Init => Refs
  BY FactsHold, InitRefs, ZenonT(60)
<1>2. Refs /\ [Next]_vars => Refs'
  BY FactsHold, StepKeeps, ZenonT(60)
<1> QED BY <1>1, <1>2, PTL DEF Spec

LEMMA WonHolds == ASSUME CONFIG_S2E = FALSE PROVE Spec => [](Refs /\ Won)
<1>1. Init => Refs /\ Won
  BY FactsHold, InitRefs, ZenonT(60)
<1>2. Refs /\ Won /\ [Next]_vars => (Refs /\ Won)'
  BY FactsHold, StepKeeps, ZenonT(60)
<1> QED BY <1>1, <1>2, PTL DEF Spec

-----------------------------------------------------------------------------
(* In either build tc_ref counts the bytes an entry holds in top_rated,    *)
(* and trace_mini is there exactly as long as that is not 0, through any   *)
(* sequence of update_bitmap_score, trim_case and cull_queue: the loop of  *)
(* cull_queue never follows a trace_mini that has been freed.              *)
THEOREM ReferencesCounted == Spec => []RefCounts
<1>1. Refs => RefCounts
  BY Zenon DEF Refs, Good, RefCounts, Entries, Holds
<1> QED BY <1>1, RefsHold, PTL

(* In either build pending_favored and queued_favored are the numbers of   *)
(* favored entries, not fuzzed and all, whatever fuzz_one skips, abandons  *)
(* or adds between two calls of cull_queue.                                *)
THEOREM FavoredCounted == Spec => []PendingExact
<1>1. Refs => PendingExact
  BY Zenon DEF Refs, Counts, PendingExact, Entries, Fav, Pend
<1> QED BY <1>1, RefsHold, PTL

(* In the build without QEMUs update_bitmap_score keeps the best entry for *)
(* every byte that a calibrated entry hits, although calibrations fail and *)
(* are repeated.                                                           *)
THEOREM BestEntriesHold == ASSUME CONFIG_S2E = FALSE PROVE Spec => []BestHolds
<1>1. Refs /\ Won => BestHolds
  <2> SUFFICES ASSUME Refs, Won, NEW e \in Calibrated, NEW i \in queue[e].hits
               PROVE  /\ top_rated[i] \in Calibrated /\ i \in queue[top_rated[i]].hits
                      /\ queue[top_rated[i]].factor <= queue[e].factor
    BY Zenon DEF BestHolds
  <2>1. Good(Len(queue), queue, top_rated) /\ Best(Len(queue), queue, top_rated)
    BY Zenon DEF Refs, Won
  <2>2. e \in 1 .. Len(queue) /\ e \in Cal(Len(queue), queue)
    BY Zenon DEF Calibrated, Entries, Cal
  <2>3. i \in Byte
    BY <2>1, <2>2, Zenon DEF Good, Queues, AnyEntry
  <2>4. top_rated[i] # NoOne /\ queue[top_rated[i]].factor <= queue[e].factor
    BY <2>1, <2>2, Zenon DEF Best
  <2> QED BY <2>1, <2>3, <2>4, SMTT(30) DEF Good, NoOne, Entries, Calibrated
<1> QED BY <1>1, WonHolds, PTL

(* In the build without QEMUs the entries that cull_queue favored hit      *)
(* every byte a calibrated entry hits, until a score changes.              *)
THEOREM FavoredEntriesCover == ASSUME CONFIG_S2E = FALSE PROVE Spec => []FavoredCover
<1>1. Refs /\ Won => FavoredCover
  <2> SUFFICES ASSUME Refs, Won, ~score_changed, NEW e \in Calibrated, NEW i \in queue[e].hits
               PROVE  \E g \in Entries : queue[g].favored /\ i \in queue[g].hits
    BY Zenon DEF FavoredCover
  <2>1. /\ Good(Len(queue), queue, top_rated) /\ Best(Len(queue), queue, top_rated)
        /\ Cover(Len(queue), queue, top_rated)
    BY Zenon DEF Refs, Won
  <2>2. e \in 1 .. Len(queue) /\ e \in Cal(Len(queue), queue)
    BY Zenon DEF Calibrated, Entries, Cal
  <2>3. i \in Byte
    BY <2>1, <2>2, Zenon DEF Good, Queues, AnyEntry
  <2>4. top_rated[i] # NoOne
    BY <2>1, <2>2, Zenon DEF Best
  <2> QED BY <2>1, <2>3, <2>4, Zenon DEF Cover, Entries
<1> QED BY <1>1, WonHolds, PTL

(* In the build with QEMUs, the one the Makefile makes, no entry is ever   *)
(* favored: update_bitmap_score reads a trace_bits that no test writes.    *)
THEOREM NeverFavored ==
    ASSUME CONFIG_S2E = TRUE PROVE Spec => [](queued_favored = 0 /\ pending_favored = 0)
<1>1. Init => Refs /\ NoneWon
  BY FactsHold, InitRefs, ZenonT(60)
<1>2. Refs /\ NoneWon /\ [Next]_vars => (Refs /\ NoneWon)'
  BY FactsHold, StepKeeps, ZenonT(60)
<1>3. Refs /\ NoneWon => queued_favored = 0 /\ pending_favored = 0
  <2> SUFFICES ASSUME Refs, NoneWon PROVE queued_favored = 0 /\ pending_favored = 0
    BY Zenon
  <2>1. Fav(Len(queue), queue) = {} /\ Pend(Len(queue), queue) = {}
    BY Zenon DEF NoneWon, Fav, Pend
  <2> QED BY <2>1, FactsHold, ZenonT(60) DEF Refs, Counts, Facts, Sizes
<1> QED BY <1>1, <1>2, <1>3, PTL DEF Spec
=============================================================================
