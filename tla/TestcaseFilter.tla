--------------------------- MODULE TestcaseFilter ---------------------------
(***************************************************************************)
(* The TestcaseFilter plugin: the significant states it keeps, the path    *)
(* constraints it compares a new testcase with and the states it drops     *)
(* again.  (Symbex has the other half, which prunes drill runs.)           *)
(*                                                                         *)
(* A testcase is known by what the target does with it: the branch         *)
(* conditions it meets and the ones that are true of it.  An expression    *)
(* stands for its hash (no two expressions collide).                       *)
(***************************************************************************)
EXTENDS Integers, Sequences, FiniteSets

CONSTANTS
    Test,            \* the testcases AFL may send
    Cond,            \* the symbolic branch conditions of the target
    Lib,             \* the ones in libraries, outside the main image
    Val,             \* the conditions that are true of each testcase
    Path,            \* the conditions the target meets on each testcase
    Size,            \* the size of each testcase
    Chunk,           \* symbfile makes 4096 bytes symbolic at a time
    WorkId,          \* the ids of the states that are forked
    MaxStates,       \* m_hottestNum
    SampleFreq       \* m_sampleFreq

ASSUME FilterAssumption ==
    /\ Lib \subseteq Cond
    /\ Val \in [Test -> SUBSET Cond] /\ Path \in [Test -> Seq(Cond)]
    /\ Size \in [Test -> Nat] /\ Chunk \in Nat \ {0}
    /\ MaxStates \in Nat \ {0} /\ SampleFreq \in Nat /\ 0 \notin WorkId

(* State 0 is the seed state.  An id is used again once its state is gone; *)
(* the code counts on, but compares ids for equality only, except that     *)
(* updateHotStates drops the oldest cold state, here any of them.          *)
StateId == {0} \cup WorkId

(* A condition, its NotExpr (what fork passes to onDisabledFork) and its   *)
(* createIsZero (what concolicFork adds to the constraints).               *)
Expr == [c : Cond, form : {"is", "not", "zero"}]

(* What evaluating an expression on a testcase gives.                      *)
Holds(e, t) == (e.form = "is") <=> (e.c \in Val[t])

(* The constraint a state that executes t gets at c.                       *)
Constraint(c, t) == [c |-> c, form |-> IF c \in Val[t] THEN "is" ELSE "zero"]

(* The expression fork reports: when both states exist it is the condition *)
(* itself, whichever way the current state goes.                           *)
Reported(c, t, forked) ==
    [c |-> c, form |-> IF forked \/ c \in Val[t] THEN "is" ELSE "not"]

(* The size of the last chunk that symbfile made symbolic.                 *)
InputSize(t) == IF Size[t] = 0 THEN 0 ELSE ((Size[t] - 1) % Chunk) + 1

VARIABLES
    sigStates,       \* m_sigID_States; m_input_states is the same by size
    conHash,         \* m_sigID_ConHash and the constraints of a running state
    conInMain,       \* m_sigID_ConInMainImage
    inputSize,       \* the input size of a state, -1 if nothing is symbolic
    hot,             \* the states whose hot degree is not 0
    FreqCounter,
    modeSwitched,
    todo, vT, vF     \* locals of isRedundant: states left, verHashes_T and _F

filterVars == <<sigStates, conHash, conInMain, inputSize, hot, FreqCounter,
                modeSwitched, todo, vT, vF>>
loopVars   == <<todo, vT, vF>>

FilterInit ==
    /\ sigStates = {} /\ hot = {}
    /\ conHash = [s \in StateId |-> {}] /\ conInMain = [s \in StateId |-> {}]
    /\ inputSize = [s \in StateId |-> -1]
    /\ FreqCounter = SampleFreq /\ modeSwitched = FALSE
    /\ todo = {} /\ vT = {} /\ vF = {}

SameLen(n) == {s \in sigStates : inputSize[s] = n}

-----------------------------------------------------------------------------
(* addSigState: TRUE if the state is not kept.                             *)
(* Mutant: one state too many is kept.                                     *)
MergedLate(w) ==
    \/ Cardinality(sigStates) >= MaxStates
    \/ \E s \in SameLen(inputSize[w]) : conHash[s] = conHash[w]

Merged(w) ==
    \/ Cardinality(sigStates) + 1 >= MaxStates
    \/ \E s \in SameLen(inputSize[w]) : conHash[s] = conHash[w]

(* One round of the loop of isRedundant, over the states of the size of    *)
(* testcase t in an order that depends on their addresses.  The first      *)
(* expression found false ends a round; which of the true ones come before *)
(* it depends on the order of a set of expressions.                        *)
KnownFalse(s) == conHash[s] \cap vF # {}
KnownTrue(s)  == ~KnownFalse(s) /\ conHash[s] \subseteq vT
FalseIn(s, t) == {e \in conInMain[s] : e \in vF \/ (e \notin vT /\ ~Holds(e, t))}

SamePath(s, t) == ~KnownFalse(s) /\ (KnownTrue(s) \/ FalseIn(s, t) = {})

(* Mutant: an expression found false is recorded as true.                  *)
VerifyOtherSwapped(s, t) ==
    /\ ~SamePath(s, t)
    /\ todo' = todo \ {s}
    /\ IF KnownFalse(s)
       THEN UNCHANGED <<vT, vF>>
       ELSE \E e \in FalseIn(s, t), pre \in SUBSET (conInMain[s] \ FalseIn(s, t)) :
                vT' = vT \cup pre \cup {e} /\ vF' = vF

VerifyOther(s, t) ==
    /\ ~SamePath(s, t)
    /\ todo' = todo \ {s}
    /\ IF KnownFalse(s)
       THEN UNCHANGED <<vT, vF>>
       ELSE \E e \in FalseIn(s, t), pre \in SUBSET (conInMain[s] \ FalseIn(s, t)) :
                vT' = vT \cup pre /\ vF' = vF \cup {e}

VerifySame(s, t) ==
    /\ SamePath(s, t)
    /\ hot' = hot \cup {s}
    /\ todo' = {} /\ vT' = {} /\ vF' = {}
=============================================================================
