----------------------------- MODULE DetStages -----------------------------
(***************************************************************************)
(* The deterministic stages of fuzz_one on one short testcase: bit flips,  *)
(* arithmetics and interesting values, of one and two bytes, and the       *)
(* checks (could_be_bitflip, could_be_arith, could_be_interest) that leave *)
(* out a value because an earlier stage has run it.  A stage is a step;    *)
(* FuzzOne has what happens inside one.  The effector map has a cell for   *)
(* eight bytes and its first is always set, so it leaves nothing out here. *)
(***************************************************************************)
EXTENDS Integers, Sequences, FiniteSets, Bitwise, SequencesExt

CONSTANTS
    Inputs,          \* the testcases: one to three bytes, so no 32-bit stages
    ARITH_MAX,
    interesting_8,   \* as bytes
    interesting_16   \* as 16-bit words

Byte == 0 .. 255

ASSUME StagesAssumption ==
    /\ \A b \in Inputs : b \in Seq(Byte) /\ Len(b) \in 1 .. 3
    /\ ARITH_MAX \in Byte /\ interesting_8 \subseteq Byte
    /\ interesting_16 \subseteq 0 .. 65535

-----------------------------------------------------------------------------
SWAP16(w) == (w % 256) * 256 + w \div 256

(* The byte i (from 0) of a word, and the word at i of a testcase.         *)
ByteOf(w, i) == (w \div 256 ^ i) % 256
Word(b, i)   == b[i] + 256 * b[i + 1]
Put(b, i, w) == [b EXCEPT ![i] = w % 256, ![i + 1] = w \div 256]

(* Mutant: four walking bits are forgotten.                                *)
could_be_bitflip_no4(x) ==
    \/ x = 0
    \/ \E sh \in 0 .. 15 :
         \/ x \in {n * 2 ^ sh : n \in {1, 3}}
         \/ sh % 8 = 0 /\ x \in {n * 2 ^ sh : n \in {255, 65535}}

could_be_bitflip(x) ==
    \/ x = 0
    \/ \E sh \in 0 .. 15 :
         \/ x \in {n * 2 ^ sh : n \in {1, 3, 15}}
         \/ sh % 8 = 0 /\ x \in {n * 2 ^ sh : n \in {255, 65535}}

(* Mutant: the range is one too wide.                                      *)
NearWide(v, w, m) == (v - w) % m <= ARITH_MAX + 1 \/ (w - v) % m <= ARITH_MAX + 1

Near(v, w, m) == (v - w) % m <= ARITH_MAX \/ (w - v) % m <= ARITH_MAX

could_be_arith(old, new, blen) ==
    LET diffs == {i \in 0 .. blen - 1 : ByteOf(old, i) # ByteOf(new, i)}
    IN  \/ Cardinality(diffs) <= 1 /\ \A i \in diffs : Near(ByteOf(old, i), ByteOf(new, i), 256)
        \/ blen = 2 /\ (Near(old, new, 65536) \/ Near(SWAP16(old), SWAP16(new), 65536))

(* Two-byte values: the bytes inserted by interest 8/8, and with check_le  *)
(* the little endian words of the same stage.                              *)
could_be_interest(old, new, check_le) ==
    \/ old = new
    \/ \E v \in interesting_8 : new \in {(old \div 256) * 256 + v, v * 256 + (old % 256)}
    \/ check_le /\ new \in interesting_16

-----------------------------------------------------------------------------
VARIABLES
    buf,             \* the testcase
    stage,           \* the last stage
    last,            \* the testcases it ran
    run,             \* the ones that the stages before it ran
    skipped          \* the ones that a stage left out

vars == <<buf, stage, last, run, skipped>>

Init ==
    /\ buf \in Inputs
    /\ stage = "start" /\ last = {} /\ run = {} /\ skipped = {}

(* A stage goes through candidates and runs the ones it does not skip.     *)
Stage(before, name, tried, left) ==
    /\ stage \in before /\ stage' = name
    /\ last' = tried /\ run' = run \cup last
    /\ skipped' = skipped \cup left
    /\ UNCHANGED buf

(* Bit 0 is the highest of the first byte.                                 *)
FLIP_BIT(b, n) == [b EXCEPT ![n \div 8 + 1] = @ ^^ (2 ^ (7 - (n % 8)))]

WalkingBits(before, name, n) ==
    Stage(before, name,
          {FoldLeft(FLIP_BIT, buf, [k \in 1 .. n |-> at + k - 1]) : at \in 0 .. 8 * Len(buf) - n},
          {})

WalkingBytes(before, name, n) ==
    Stage(before, name,
          {[i \in 1 .. Len(buf) |-> IF i \in at .. at + n - 1 THEN 255 - buf[i] ELSE buf[i]] :
             at \in 1 .. Len(buf) - n + 1},
          {})

Arith8 ==
    LET cand == {<<i, (buf[i] + j) % 256>> : i \in 1 .. Len(buf),
                                             j \in (-ARITH_MAX .. ARITH_MAX) \ {0}}
        skip == {c \in cand : could_be_bitflip(buf[c[1]] ^^ c[2])}
        at(c) == [buf EXCEPT ![c[1]] = c[2]]
    IN  /\ stage = "flip8" => Len(buf) < 2
        /\ Stage({"flip8", "flip16"}, "arith8", {at(c) : c \in cand \ skip}, {at(c) : c \in skip})

(* Sums and differences of words, in both byte orders, that carry into the *)
(* second byte.                                                            *)
Arith16 ==
    LET sum(i, j, be) == LET w == Word(buf, i)
                         IN  IF be THEN SWAP16((SWAP16(w) + j) % 65536) ELSE (w + j) % 65536
        cand == (1 .. Len(buf) - 1) \X ((-ARITH_MAX .. ARITH_MAX) \ {0}) \X BOOLEAN
        carry(c) == buf[IF c[3] THEN c[1] + 1 ELSE c[1]] + c[2] \notin Byte
        new(c) == sum(c[1], c[2], c[3])
        tried == {c \in cand : carry(c) /\ ~could_be_bitflip(Word(buf, c[1]) ^^ new(c))}
        at(c) == Put(buf, c[1], new(c))
    IN  /\ Len(buf) >= 2
        /\ Stage({"arith8"}, "arith16", {at(c) : c \in tried}, {at(c) : c \in cand \ tried})

Interest8 ==
    LET cand == (1 .. Len(buf)) \X interesting_8
        skip == {c \in cand : \/ could_be_bitflip(buf[c[1]] ^^ c[2])
                              \/ could_be_arith(buf[c[1]], c[2], 1)}
        at(c) == [buf EXCEPT ![c[1]] = c[2]]
    IN  /\ stage = "arith8" => Len(buf) < 2
        /\ Stage({"arith8", "arith16"}, "int8", {at(c) : c \in cand \ skip}, {at(c) : c \in skip})

Interest16 ==
    LET cand == (1 .. Len(buf) - 1) \X interesting_16 \X BOOLEAN
        new(c) == IF c[3] THEN SWAP16(c[2]) ELSE c[2]
        skip == {c \in cand :
                   LET w == Word(buf, c[1])
                   IN  \/ c[3] /\ new(c) = c[2]
                       \/ could_be_bitflip(w ^^ new(c))
                       \/ could_be_arith(w, new(c), 2)
                       \/ could_be_interest(w, new(c), c[3])}
        at(c) == Put(buf, c[1], new(c))
    IN  /\ Len(buf) >= 2
        /\ Stage({"int8"}, "int16", {at(c) : c \in cand \ skip}, {at(c) : c \in skip})

Next ==
    \/ WalkingBits({"start"}, "flip1", 1)
    \/ WalkingBits({"flip1"}, "flip2", 2)
    \/ WalkingBits({"flip2"}, "flip4", 4)
    \/ WalkingBytes({"flip4"}, "flip8", 1)
    \/ Len(buf) >= 2 /\ WalkingBytes({"flip8"}, "flip16", 2)
    \/ Arith8 \/ Arith16 \/ Interest8 \/ Interest16

(* After the last stage fuzz_one goes on to the dictionary.                *)
Spec == Init /\ [][Next]_vars

-----------------------------------------------------------------------------
TypeOK ==
    /\ buf \in Inputs
    /\ \A b \in last \cup run \cup skipped :
          Len(b) = Len(buf) /\ \A i \in 1 .. Len(b) : b[i] \in Byte

Ran == run \cup last \cup {buf}

(* What a stage leaves out has been run: could_be_bitflip is TRUE only of  *)
(* what "could be a product of deterministic bit flips with the lengths    *)
(* and stepovers attempted by afl-fuzz".  The code violates this.          *)
SkippedWasRun == skipped \subseteq Ran

(* A testcase that differs from buf in two or four adjacent bits of a      *)
(* little endian word, across its bytes.  The walking bits go from the     *)
(* lowest bit of a byte to the highest bit of the next, and never meet it. *)
AcrossBytes(b) ==
    \E i \in 1 .. Len(buf) - 1 :
        /\ b = Put(buf, i, Word(b, i))
        /\ Word(buf, i) ^^ Word(b, i) \in {3 * 128, 15 * 32, 15 * 64, 15 * 128}

(* A stage leaves nothing out that has not been run by its end, whichever  *)
(* of could_be_bitflip, could_be_arith, could_be_interest and the test for *)
(* a carry left it out; except for the bits across two bytes above.        *)
SkippedElsewhere == \A b \in skipped : b \in Ran \/ AcrossBytes(b)

(* The stages that change one byte run nothing that an earlier stage has   *)
(* run: the checks leave out all duplicates.                               *)
NoDupes == stage \in {"flip1", "flip2", "flip4", "flip8", "arith8", "int8"}
               => last \cap (run \cup {buf}) = {}
=============================================================================
