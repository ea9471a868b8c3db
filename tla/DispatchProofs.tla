--------------------------- MODULE DispatchProofs ---------------------------
(***************************************************************************)
(* What Dispatch keeps, whatever is done with the results of the tests:    *)
(* the report of a test that is not judged yet is in the FIFO or still to  *)
(* come, and a barrier ends when every test is judged.                     *)
(***************************************************************************)
EXTENDS Dispatch, TLAPS

Has(s, q)   == \E i \in 1 .. Len(s) : s[i] = q
Distinct(s) == \A i, j \in 1 .. Len(s) : s[i] = s[j] => i = j

DispTypes ==
    /\ handled \in [Qemu -> BOOLEAN] /\ fifo \in Seq(Qemu) /\ running \subseteq Qemu
    /\ isAfterWait \in BOOLEAN /\ currentQemuAfterWait \in Qemu
    /\ curQemu \in Qemu \cup {NoQemu}

(* At most one report per QEMU, and none while it runs; a test that is not *)
(* judged runs or is reported; the QEMUs still to be fed without the FIFO  *)
(* are idle.                                                               *)
DispInv ==
    /\ DispTypes
    /\ Distinct(fifo)
    /\ \A q \in Qemu : Has(fifo, q) => q \notin running
    /\ \A q \in Qemu : q \in running => ~handled[q]
    /\ \A q \in Qemu : ~handled[q] => q \in running \/ Has(fifo, q)
    /\ isAfterWait => \A q \in Qemu : q >= currentQemuAfterWait => handled[q] /\ ~Has(fifo, q)

-----------------------------------------------------------------------------
LEMMA AppendHas ==
    ASSUME NEW S, NEW s \in Seq(S), NEW q \in S, Distinct(s), ~Has(s, q)
    PROVE  /\ Append(s, q) \in Seq(S) /\ Distinct(Append(s, q))
           /\ \A r : Has(Append(s, q), r) <=> Has(s, r) \/ r = q
<1>1. /\ Append(s, q) \in Seq(S) /\ Len(s) \in Nat /\ Len(Append(s, q)) = Len(s) + 1
      /\ Append(s, q)[Len(s) + 1] = q
      /\ \A i \in 1 .. Len(s) : Append(s, q)[i] = s[i]
  OBVIOUS
<1>2. Distinct(Append(s, q))
  BY <1>1 DEF Distinct, Has
<1>3. ASSUME NEW r, Has(s, r) \/ r = q PROVE Has(Append(s, q), r)
  <2>1. CASE r = q
    BY <1>1, <2>1 DEF Has
  <2>2. CASE Has(s, r)
    <3>1. PICK i \in 1 .. Len(s) : s[i] = r
      BY <2>2 DEF Has
    <3>2. i \in 1 .. Len(Append(s, q)) /\ Append(s, q)[i] = r
      BY <3>1, <1>1
    <3> QED BY <3>2, Zenon DEF Has
  <2> QED BY <1>3, <2>1, <2>2
<1>4. ASSUME NEW r, Has(Append(s, q), r) PROVE Has(s, r) \/ r = q
  BY <1>1, <1>4 DEF Has
<1> QED BY <1>1, <1>2, <1>3, <1>4

LEMMA TailHas ==
    ASSUME NEW S, NEW s \in Seq(S), s # <<>>, Distinct(s)
    PROVE  /\ Head(s) \in S /\ Has(s, Head(s))
           /\ Tail(s) \in Seq(S) /\ Distinct(Tail(s))
           /\ \A r : Has(Tail(s), r) <=> Has(s, r) /\ r # Head(s)
<1>1. Head(s) \in S /\ Head(s) = s[1] /\ Len(s) \in Nat \ {0}
  OBVIOUS
<1>2. /\ Tail(s) \in Seq(S) /\ Len(Tail(s)) = Len(s) - 1
      /\ \A i \in 1 .. Len(Tail(s)) : i + 1 \in 1 .. Len(s) /\ Tail(s)[i] = s[i + 1]
  OBVIOUS
<1>3. Has(s, Head(s))
  BY <1>1 DEF Has
<1>4. ASSUME NEW r, Has(s, r), r # Head(s) PROVE Has(Tail(s), r)
  <2>1. PICK i \in 1 .. Len(s) : s[i] = r
    BY <1>4 DEF Has
  <2>2. i - 1 \in 1 .. Len(Tail(s)) /\ Tail(s)[i - 1] = s[i]
    BY <1>1, <1>2, <1>4, <2>1
  <2> QED BY <2>1, <2>2, Zenon DEF Has
<1>5. ASSUME NEW r, Has(Tail(s), r) PROVE Has(s, r) /\ r # Head(s)
  <2>1. PICK i \in 1 .. Len(Tail(s)) : Tail(s)[i] = r
    BY <1>5 DEF Has
  <2>2. i + 1 \in 1 .. Len(s) /\ s[i + 1] = r /\ i + 1 # 1 /\ 1 \in 1 .. Len(s)
    BY <1>1, <1>2, <2>1
  <2> QED BY <1>1, <2>2 DEF Has, Distinct
<1>6. Distinct(Tail(s))
  BY <1>1, <1>2 DEF Distinct
<1> QED BY <1>1, <1>2, <1>3, <1>4, <1>5, <1>6

(* The reports of all QEMUs are there once when the dispatcher starts.     *)
LEMMA DispatchStarts == DispatchInit => DispInv
<1> SUFFICES ASSUME DispatchInit PROVE DispInv
  OBVIOUS
<1>1. fifo \in [1 .. N -> Qemu] /\ \A i, j \in 1 .. N : fifo[i] = fifo[j] => i = j
  BY DEF DispatchInit
<1>2. fifo \in Seq(Qemu) /\ Len(fifo) = N
  BY <1>1, NAssumption
<1>3. DispTypes
  <2>1. handled \in [Qemu -> BOOLEAN] /\ running \subseteq Qemu /\ isAfterWait \in BOOLEAN
    BY DEF DispatchInit
  <2>2. currentQemuAfterWait \in Qemu /\ curQemu \in Qemu \cup {NoQemu}
    BY NAssumption DEF DispatchInit, Qemu
  <2> QED BY <1>2, <2>1, <2>2 DEF DispTypes
<1>4. Distinct(fifo)
  BY <1>1, <1>2 DEF Distinct
<1>5. isAfterWait = FALSE /\ running = {} /\ \A q \in Qemu : handled[q] = TRUE
  BY DEF DispatchInit
<1> QED BY <1>3, <1>4, <1>5 DEF DispInv

LEMMA FeedKeeps ==
    ASSUME DispInv, NEW q \in Qemu, Feed(q)
    PROVE  DispInv' /\ curQemu' = q /\ handled' = [handled EXCEPT ![q] = FALSE]
<1>1. /\ curQemu' = q /\ handled' = [handled EXCEPT ![q] = FALSE]
      /\ running' = running \cup {q}
  BY DEF Feed
<1>2. CASE /\ isAfterWait /\ q = currentQemuAfterWait
           /\ isAfterWait' = (q + 1 # N) /\ currentQemuAfterWait' = (q + 1) % N
           /\ UNCHANGED fifo
  <2>1. N \in Nat /\ q \in Nat /\ q < N
    BY NAssumption DEF Qemu
  <2>2. CASE q + 1 = N
    <3>1. (q + 1) % N = 0
      BY ONLY <2>1, <2>2
    <3> QED BY <1>1, <1>2, <2>1, <2>2, <3>1 DEF DispInv, DispTypes, Qemu
  <2>3. CASE q + 1 # N
    <3>1. (q + 1) % N = q + 1 /\ q + 1 \in Qemu
      BY <2>1, <2>3 DEF Qemu
    <3>2. isAfterWait' = TRUE /\ currentQemuAfterWait' = q + 1
      BY <1>2, <2>3, <3>1
    <3>3. \A r \in Qemu : r >= q + 1 => r # q /\ r >= currentQemuAfterWait
      BY <1>2, <2>1 DEF Qemu
    <3>4. DispTypes'
      BY <1>1, <1>2, <3>1, <3>2 DEF DispInv, DispTypes
    <3>5. ~Has(fifo, q)
      BY <1>2, <2>1 DEF DispInv
    <3> QED BY <1>1, <1>2, <3>2, <3>3, <3>4, <3>5 DEF DispInv, DispTypes
  <2> QED BY <2>2, <2>3
<1>3. CASE /\ ~isAfterWait /\ fifo # <<>> /\ q = Head(fifo) /\ fifo' = Tail(fifo)
           /\ UNCHANGED <<isAfterWait, currentQemuAfterWait>>
  <2>1. /\ Has(fifo, q) /\ fifo' \in Seq(Qemu) /\ Distinct(fifo')
        /\ \A r : Has(fifo', r) <=> Has(fifo, r) /\ r # q
    BY <1>3, TailHas DEF DispInv, DispTypes
  <2> QED BY <1>1, <1>3, <2>1 DEF DispInv, DispTypes
<1> QED BY <1>1, <1>2, <1>3 DEF Feed

LEMMA ReportKeeps ==
    ASSUME DispInv, NEW q \in Qemu, Report(q) PROVE DispInv' /\ handled' = handled
<1>1. /\ fifo' \in Seq(Qemu) /\ Distinct(fifo')
      /\ \A r : Has(fifo', r) <=> Has(fifo, r) \/ r = q
  BY AppendHas DEF Report, DispInv, DispTypes
<1> QED BY <1>1 DEF Report, DispInv, DispTypes

LEMMA DrainKeeps ==
    ASSUME DispInv, NEW q \in Qemu, Drain(q)
    PROVE  DispInv' /\ handled' = [handled EXCEPT ![q] = TRUE] /\ curQemu' = curQemu
<1>1. /\ fifo' \in Seq(Qemu) /\ Distinct(fifo')
      /\ \A r : Has(fifo', r) <=> Has(fifo, r) /\ r # q
  BY TailHas DEF Drain, DispInv, DispTypes
<1> QED BY <1>1 DEF Drain, DispInv, DispTypes

(* At the end of a barrier every test has been judged.                     *)
LEMMA BarrierKeeps ==
    ASSUME DispInv, EndBarrier
    PROVE  DispInv' /\ handled' = handled /\ \A q \in Qemu : handled[q]
<1>1. 0 \in Qemu
  BY NAssumption DEF Qemu
<1>2. \A q : ~Has(fifo, q)
  BY DEF EndBarrier, Has
<1>3. \A q \in Qemu : handled[q]
  BY <1>2, Zenon DEF EndBarrier, DispInv
<1> QED BY <1>1, <1>2, <1>3 DEF EndBarrier, DispInv, DispTypes

LEMMA DispatchIdles == ASSUME DispInv, UNCHANGED dispVars PROVE DispInv'
  BY DEF DispInv, DispTypes, dispVars
=============================================================================
