--------------------------- MODULE RegAllocProofs ---------------------------
(***************************************************************************)
(* What the liveness analysis and the register allocator establish for     *)
(* every function, register file and spill area.                           *)
(*                                                                         *)
(* The analysis: the inductive invariant says that the sets never run      *)
(* ahead of the equations they are computed from, and that, as long as the *)
(* current sweep has changed nothing, the blocks it has passed solve them. *)
(* The solution it ends with is liveness as paths define it.  That         *)
(* definition recurs over the length of a path; the function it denotes is *)
(* built here from finite sets and induction alone.                        *)
(*                                                                         *)
(* The allocator: the inductive invariant adds to the properties           *)
(* themselves the liveness invariant, since interference is only settled   *)
(* once the analysis has ended, and where the homes are before colouring   *)
(* starts.                                                                 *)
(***************************************************************************)
EXTENDS RegAlloc, SequenceTheorems, FiniteSetTheorems, TLAPS

\* Every set is contained in what its equation gives for the current sets.
NotAhead ==
  \A b \in Blocks : /\ liveOut[b] \subseteq OutOf(fn, b, liveIn)
                    /\ liveIn[b] \subseteq InOf(fn, b, liveOut[b])

\* A sweep without a change so far has found its blocks solved.
SolvedBehind ==
  ~changed => \A b \in Blocks : b < at => /\ liveOut[b] = OutOf(fn, b, liveIn)
                                          /\ liveIn[b]  = InOf(fn, b, liveOut[b])

IInv == TypeOK /\ NotAhead /\ SolvedBehind

-----------------------------------------------------------------------------
(* Facts about one function.                                               *)

LEMMA InSeq ==
  ASSUME NEW S, NEW s \in Seq(S), NEW k \in DOMAIN s
  PROVE  s[k] \in S
BY ElementOfSeq, LenProperties

LEMMA TerminatorParts ==
  ASSUME NEW g, IsFunction(g), NEW b \in DOMAIN g.term
  PROVE  /\ g.term[b].to \in Seq(DOMAIN g.term)
         /\ g.term[b].arg \in DOMAIN g.inst \cup {NoValue}
<1> DEFINE T == [op : {"none", "jump", "branch", "return"},
                 arg : DOMAIN g.inst \cup {NoValue}, to : Seq(DOMAIN g.term)]
<1>1. g.term \in Seq(T)
  BY DEF IsFunction
<1>2. g.term[b] \in T
  BY <1>1, InSeq
<1> QED
  BY <1>2

LEMMA InstructionParts ==
  ASSUME NEW g, IsFunction(g), NEW v \in DOMAIN g.inst
  PROVE  /\ g.inst[v].args \in Seq(DOMAIN g.inst)
         /\ g.inst[v].from \in Seq(DOMAIN g.term)
<1> DEFINE I == [block : DOMAIN g.term, kind : InstKinds, ty : {"bool", "i64"},
                 args : Seq(DOMAIN g.inst), from : Seq(DOMAIN g.term)]
<1>1. g.inst \in Seq(I)
  BY DEF IsFunction
<1>2. g.inst[v] \in I
  BY <1>1, InSeq
<1> QED
  BY <1>2

LEMMA SuccessorsAreBlocks ==
  ASSUME NEW g, IsFunction(g), NEW b \in DOMAIN g.term
  PROVE  Successors(g.term[b]) \subseteq DOMAIN g.term
BY TerminatorParts, InSeq DEF Successors

LEMMA OperandsAreValues ==
  ASSUME NEW g, IsFunction(g), NEW v \in DOMAIN g.inst
  PROVE  Operands(g.inst[v]) \subseteq DOMAIN g.inst
BY InstructionParts, InSeq DEF Operands

LEMMA PhiOperandsAreValues ==
  ASSUME NEW g, IsFunction(g), NEW s \in DOMAIN g.term, NEW b
  PROVE  PhiOperandsFrom(g, s, b) \subseteq DOMAIN g.inst
<1> SUFFICES ASSUME NEW v \in PhisOf(g.inst, s), PhiCovers(g.inst[v], b)
             PROVE  PhiOperand(g.inst[v], b) \in DOMAIN g.inst
  BY DEF PhiOperandsFrom
<1> DEFINE i == g.inst[v]
<1>1. v \in DOMAIN g.inst /\ i.kind = "phi"
  BY DEF PhisOf, DefinedIn
<1>2. DOMAIN i.from = DOMAIN i.args
  BY <1>1 DEF IsFunction
<1>3. PICK k \in FirstFrom(i, b) : PhiOperand(i, b) = i.args[k]
  BY DEF PhiCovers, PhiOperand
<1>4. k \in DOMAIN i.args
  BY <1>2, <1>3 DEF FirstFrom
<1>5. i.args \in Seq(DOMAIN g.inst)
  BY <1>1, InstructionParts
<1>6. i.args[k] \in DOMAIN g.inst
  BY <1>4, <1>5, InSeq
<1> QED
  BY <1>3, <1>6

LEMMA UsesAreValues ==
  ASSUME NEW g, IsFunction(g), NEW b \in DOMAIN g.term
  PROVE  UsedIn(g, b) \subseteq DOMAIN g.inst
<1>1. \A v \in DefinedIn(g.inst, b) : v \in DOMAIN g.inst
  BY DEF DefinedIn
<1>2. \A v \in DefinedIn(g.inst, b) : Operands(g.inst[v]) \subseteq DOMAIN g.inst
  BY <1>1, OperandsAreValues
<1>3. g.term[b].arg \in DOMAIN g.inst \cup {NoValue}
  BY TerminatorParts
<1> QED
  BY <1>2, <1>3 DEF UsedIn

LEMMA EquationsTyped ==
  ASSUME NEW g, IsFunction(g), NEW b \in DOMAIN g.term,
         NEW in \in [DOMAIN g.term -> SUBSET DOMAIN g.inst],
         NEW out \in SUBSET DOMAIN g.inst
  PROVE  /\ OutOf(g, b, in) \subseteq DOMAIN g.inst
         /\ InOf(g, b, out) \subseteq DOMAIN g.inst
<1>1. \A s \in Successors(g.term[b]) : in[s] \subseteq DOMAIN g.inst
  BY SuccessorsAreBlocks
<1>2. \A s \in Successors(g.term[b]) : PhiOperandsFrom(g, s, b) \subseteq DOMAIN g.inst
  BY SuccessorsAreBlocks, PhiOperandsAreValues
<1> QED
  BY <1>1, <1>2, UsesAreValues DEF OutOf, InOf

LEMMA OutOfMonotone ==
  ASSUME NEW g, IsFunction(g), NEW b \in DOMAIN g.term, NEW in, NEW in2,
         \A s \in DOMAIN g.term : in[s] \subseteq in2[s]
  PROVE  OutOf(g, b, in) \subseteq OutOf(g, b, in2)
BY SuccessorsAreBlocks DEF OutOf

LEMMA InOfMonotone ==
  ASSUME NEW g, NEW b, NEW out, NEW out2, out \subseteq out2
  PROVE  InOf(g, b, out) \subseteq InOf(g, b, out2)
BY DEF InOf

-----------------------------------------------------------------------------
(* One turn of the loop.                                                   *)

LEMMA BlocksAreAnInterval ==
  ASSUME TypeOK
  PROVE  Len(fn.term) \in Nat /\ Blocks = 1 .. Len(fn.term)
BY DEF TypeOK, IsFunction, Blocks

LEMMA InitHolds ==
  ASSUME Init
  PROVE  IInv
<1>1. IsFunction(fn)
  BY FunctionsAssumption DEF Init
<1>2. TypeOK
  <2>1. Len(fn.term) \in Nat
    BY <1>1 DEF IsFunction
  <2>2. at \in 1 .. Len(fn.term) + 1
    BY <2>1 DEF Init
  <2>3. /\ liveIn \in [Blocks -> SUBSET Values]
        /\ liveOut \in [Blocks -> SUBSET Values]
        /\ changed \in BOOLEAN
    BY DEF Init
  <2> QED
    BY <1>1, <2>2, <2>3 DEF TypeOK
<1>3. NotAhead
  BY DEF Init, NotAhead
<1>4. SolvedBehind
  BY <1>2, BlocksAreAnInterval DEF Init, SolvedBehind
<1> QED
  BY <1>2, <1>3, <1>4 DEF IInv

\* A visit takes nothing out of any set.
LEMMA VisitGrows ==
  ASSUME IInv, VisitBlock
  PROVE  /\ \A b \in Blocks : liveIn[b] \subseteq liveIn'[b]
         /\ \A b \in Blocks : liveOut[b] \subseteq liveOut'[b]
<1> DEFINE out == OutOf(fn, at, liveIn)
<1>1. liveOut \in [Blocks -> SUBSET Values] /\ liveIn \in [Blocks -> SUBSET Values]
  BY DEF IInv, TypeOK
<1>2. at \in Blocks /\ liveOut' = [liveOut EXCEPT ![at] = out]
      /\ liveIn' = [liveIn EXCEPT ![at] = InOf(fn, at, out)]
  BY DEF VisitBlock
<1>3. liveOut[at] \subseteq out
  BY <1>2 DEF IInv, NotAhead
<1>4. liveIn[at] \subseteq InOf(fn, at, out)
  BY <1>2, <1>3, InOfMonotone DEF IInv, NotAhead
<1> QED
  BY <1>1, <1>2, <1>3, <1>4

LEMMA VisitTyped ==
  ASSUME IInv, VisitBlock
  PROVE  TypeOK' /\ Blocks' = Blocks /\ Values' = Values /\ fn' = fn
<1> DEFINE out == OutOf(fn, at, liveIn)
<1>0. TypeOK
  BY DEF IInv
<1>1. fn' = fn /\ Blocks' = Blocks /\ Values' = Values
  BY DEF VisitBlock, Blocks, Values
<1>2. at \in 1 .. Len(fn.term) /\ Len(fn.term) \in Nat
  BY <1>0, BlocksAreAnInterval DEF VisitBlock
<1>3. at' \in 1 .. Len(fn'.term) + 1
  BY <1>1, <1>2 DEF VisitBlock
<1>4. out \subseteq Values
  BY <1>0, EquationsTyped DEF TypeOK, VisitBlock, Blocks, Values
<1>5. InOf(fn, at, out) \subseteq Values
  BY <1>0, <1>4, EquationsTyped DEF TypeOK, VisitBlock, Blocks, Values
<1>6. liveOut' \in [Blocks -> SUBSET Values] /\ liveIn' \in [Blocks -> SUBSET Values]
  BY <1>0, <1>4, <1>5 DEF TypeOK, VisitBlock
<1>7. changed' \in BOOLEAN
  BY <1>0 DEF TypeOK, VisitBlock
<1> QED
  BY <1>0, <1>1, <1>3, <1>6, <1>7 DEF TypeOK

LEMMA VisitKeeps ==
  ASSUME IInv, VisitBlock
  PROVE  IInv'
<1> DEFINE out == OutOf(fn, at, liveIn)
<1>0. TypeOK
  BY DEF IInv
<1>1. TypeOK' /\ Blocks' = Blocks /\ fn' = fn
  BY VisitTyped
<1>2. at \in Blocks /\ liveOut' = [liveOut EXCEPT ![at] = out]
      /\ liveIn' = [liveIn EXCEPT ![at] = InOf(fn, at, out)]
  BY DEF VisitBlock
<1>3. liveOut'[at] = out /\ liveIn'[at] = InOf(fn, at, out)
  BY <1>0, <1>2 DEF TypeOK
<1>4. \A b \in Blocks : b # at => liveOut'[b] = liveOut[b] /\ liveIn'[b] = liveIn[b]
  BY <1>0, <1>2 DEF TypeOK
<1>5. \A b \in Blocks : OutOf(fn, b, liveIn) \subseteq OutOf(fn, b, liveIn')
  BY <1>0, VisitGrows, OutOfMonotone DEF TypeOK, Blocks
<1>6. NotAhead'
  <2> SUFFICES ASSUME NEW b \in Blocks
               PROVE  /\ liveOut'[b] \subseteq OutOf(fn, b, liveIn')
                      /\ liveIn'[b] \subseteq InOf(fn, b, liveOut'[b])
    BY <1>1 DEF NotAhead
  <2>1. CASE b = at
    BY <2>1, <1>3, <1>5
  <2>2. CASE b # at
    BY <2>2, <1>4, <1>5 DEF IInv, NotAhead
  <2> QED
    BY <2>1, <2>2
<1>7. SolvedBehind'
  <2> SUFFICES ASSUME ~changed', NEW b \in Blocks, b < at'
               PROVE  /\ liveOut'[b] = OutOf(fn, b, liveIn')
                      /\ liveIn'[b] = InOf(fn, b, liveOut'[b])
    BY <1>1 DEF SolvedBehind
  <2>1. ~changed /\ out = liveOut[at] /\ InOf(fn, at, out) = liveIn[at]
    BY DEF VisitBlock
  <2>2. liveIn' = liveIn /\ liveOut' = liveOut
    BY <2>1, <1>0, <1>2 DEF TypeOK
  <2>3. b = at \/ b < at
    BY <1>0, <1>2, BlocksAreAnInterval DEF VisitBlock
  <2>4. CASE b = at
    BY <2>4, <2>1, <2>2
  <2>5. CASE b < at
    BY <2>5, <2>1, <2>2 DEF IInv, SolvedBehind
  <2> QED
    BY <2>3, <2>4, <2>5
<1> QED
  BY <1>1, <1>6, <1>7 DEF IInv

LEMMA SweepKeeps ==
  ASSUME IInv, SweepAgain
  PROVE  IInv'
<1>0. TypeOK
  BY DEF IInv
<1>1. Blocks' = Blocks /\ Values' = Values /\ fn' = fn /\ at' = 1
      /\ liveIn' = liveIn /\ liveOut' = liveOut /\ changed' = FALSE
  BY DEF SweepAgain, Blocks, Values
<1>2. TypeOK'
  <2>1. IsFunction(fn')
    BY <1>0, <1>1 DEF TypeOK
  <2>2. Len(fn'.term) \in Nat
    BY <1>0, <1>1, BlocksAreAnInterval
  <2>3. at' \in 1 .. Len(fn'.term) + 1
    BY <1>1, <2>2
  <2>4. /\ liveIn' \in [Blocks' -> SUBSET Values']
        /\ liveOut' \in [Blocks' -> SUBSET Values']
    BY <1>0, <1>1 DEF TypeOK
  <2> QED
    BY <1>1, <2>1, <2>3, <2>4 DEF TypeOK
<1>3. NotAhead'
  BY <1>1 DEF IInv, NotAhead
<1>4. SolvedBehind'
  BY <1>0, <1>1, BlocksAreAnInterval DEF SolvedBehind
<1> QED
  BY <1>2, <1>3, <1>4 DEF IInv

LEMMA StutterKeeps ==
  ASSUME IInv, UNCHANGED liveVars
  PROVE  IInv'
BY DEF IInv, TypeOK, NotAhead, SolvedBehind, liveVars, Blocks, Values, OutOf, InOf

-----------------------------------------------------------------------------
(* The least solution.                                                     *)

IsSolution(in, out) ==
  \A b \in Blocks : out[b] = OutOf(fn, b, in) /\ in[b] = InOf(fn, b, out[b])

\* The sets are contained in those of every solution of the equations.
BelowEverySolution ==
  \A in, out \in [Blocks -> SUBSET Values] :
    IsSolution(in, out) => \A b \in Blocks : /\ liveIn[b] \subseteq in[b]
                                              /\ liveOut[b] \subseteq out[b]

LEMMA InitBelow ==
  ASSUME Init
  PROVE  BelowEverySolution
BY DEF Init, BelowEverySolution

LEMMA VisitStaysBelow ==
  ASSUME IInv, BelowEverySolution, VisitBlock
  PROVE  BelowEverySolution'
<1> DEFINE new == OutOf(fn, at, liveIn)
<1>1. TypeOK /\ Blocks' = Blocks /\ Values' = Values /\ fn' = fn
  BY VisitTyped DEF IInv
<1> SUFFICES ASSUME NEW in \in [Blocks -> SUBSET Values],
                    NEW out \in [Blocks -> SUBSET Values],
                    IsSolution(in, out), NEW b \in Blocks
             PROVE  liveIn'[b] \subseteq in[b] /\ liveOut'[b] \subseteq out[b]
  BY <1>1 DEF BelowEverySolution, IsSolution
<1>2. \A c \in Blocks : liveIn[c] \subseteq in[c] /\ liveOut[c] \subseteq out[c]
  BY DEF BelowEverySolution
<1>3. /\ at \in Blocks
      /\ liveOut' = [liveOut EXCEPT ![at] = new]
      /\ liveIn' = [liveIn EXCEPT ![at] = InOf(fn, at, new)]
  BY DEF VisitBlock
<1>4. new \subseteq out[at]
  <2>1. new \subseteq OutOf(fn, at, in)
    BY <1>1, <1>2, <1>3, OutOfMonotone DEF TypeOK, Blocks
  <2> QED
    BY <2>1, <1>3 DEF IsSolution
<1>5. InOf(fn, at, new) \subseteq in[at]
  <2>1. InOf(fn, at, new) \subseteq InOf(fn, at, out[at])
    BY <1>4, InOfMonotone
  <2> QED
    BY <2>1, <1>3 DEF IsSolution
<1>6. liveIn \in [Blocks -> SUBSET Values] /\ liveOut \in [Blocks -> SUBSET Values]
  BY <1>1 DEF TypeOK
<1>7. CASE b = at
  BY <1>3, <1>4, <1>5, <1>6, <1>7
<1>8. CASE b # at
  BY <1>2, <1>3, <1>6, <1>8
<1> QED
  BY <1>7, <1>8

LEMMA OthersStayBelow ==
  ASSUME BelowEverySolution, SweepAgain \/ UNCHANGED liveVars
  PROVE  BelowEverySolution'
<1>1. liveIn' = liveIn /\ liveOut' = liveOut /\ fn' = fn
      /\ Blocks' = Blocks /\ Values' = Values
  BY DEF SweepAgain, liveVars, Blocks, Values
<1> QED
  BY <1>1 DEF BelowEverySolution, IsSolution

-----------------------------------------------------------------------------
(* The theorems.                                                           *)

\* The inductive invariant holds throughout the analysis.
THEOREM Invariance == Spec => []IInv
<1>1. Init => IInv
  BY InitHolds
<1>2. IInv /\ [Next]_liveVars => IInv'
  BY VisitKeeps, SweepKeeps, StutterKeeps DEF Next, Done
<1> QED
  BY <1>1, <1>2, PTL DEF Spec

\* The analysis never leaves its types: every set is a set of the function's
\* values, for every function.
THEOREM TypeCorrect == Spec => []TypeOK
<1>1. IInv => TypeOK
  BY DEF IInv
<1> QED
  BY <1>1, Invariance, PTL

\* No turn of the analysis takes a value out of a set, which is why the doc
\* comment of analyze says it terminates.
THEOREM SetsOnlyGrow == Spec => SetsGrow
<1>1. IInv /\ [Next]_liveVars =>
        [\A b \in Blocks : liveIn[b] \subseteq liveIn'[b] /\ liveOut[b] \subseteq liveOut'[b]]_liveVars
  <2> SUFFICES ASSUME IInv, Next
               PROVE  \A b \in Blocks : /\ liveIn[b] \subseteq liveIn'[b]
                                        /\ liveOut[b] \subseteq liveOut'[b]
    OBVIOUS
  <2>1. CASE VisitBlock
    BY <2>1, VisitGrows
  <2>2. CASE SweepAgain
    BY <2>2 DEF SweepAgain
  <2>3. CASE Done
    BY <2>3 DEF Done, liveVars
  <2> QED
    BY <2>1, <2>2, <2>3 DEF Next
<1> QED
  BY <1>1, Invariance, PTL DEF Spec, SetsGrow

\* When the loop ends, every block's sets solve the dataflow equations.
THEOREM ResultSolvesEquations == Spec => []SolvesEquations
<1>1. IInv => SolvesEquations
  BY BlocksAreAnInterval DEF IInv, TypeOK, SolvedBehind, SolvesEquations, Analysed
<1> QED
  BY <1>1, Invariance, PTL

\* When the loop ends, no solution of the equations is smaller: liveness is
\* not only sound but leaks no value around a back edge.
ResultIsLeast == Analysed => IsSolution(liveIn, liveOut) /\ BelowEverySolution

THEOREM LeastSolution == Spec => []ResultIsLeast
<1> DEFINE Inv == IInv /\ BelowEverySolution
<1>1. Init => BelowEverySolution
  BY InitBelow
<1>2. Inv /\ [Next]_liveVars => BelowEverySolution'
  BY VisitStaysBelow, OthersStayBelow DEF Next, Done
<1>3. Spec => []BelowEverySolution
  BY <1>1, <1>2, Invariance, PTL DEF Spec
<1>4. SolvesEquations /\ BelowEverySolution => ResultIsLeast
  BY DEF SolvesEquations, ResultIsLeast, IsSolution
<1> QED
  BY <1>3, <1>4, ResultSolvesEquations, PTL
-----------------------------------------------------------------------------
(* Induction and recursion over the naturals, and what repeating a step    *)
(* that only adds comes to.                                                *)

\* Induction, for a set in the place of a predicate.
LEMMA Induct ==
  ASSUME NEW T, 0 \in T, \A n \in Nat : n \in T => n + 1 \in T
  PROVE  Nat \subseteq T
<1> DEFINE R == OpToRel(<, Nat)
<1>1. IsWellFoundedOn(R, Nat)
  BY NatLessThanWellFounded
<1> SUFFICES ASSUME Nat \ T # {} PROVE FALSE
  OBVIOUS
<1>2. IsWellFoundedOn(R, Nat) /\ Nat \ T \subseteq Nat
  BY <1>1
<1> HIDE DEF R
<1>3. PICK n \in Nat \ T : \A m \in Nat \ T : <<m, n>> \notin R
  BY <1>2, WFMin
<1>4. \A m \in Nat \ T : ~(m < n)
  BY <1>3 DEF R, OpToRel
<1>5. n - 1 \in Nat /\ n - 1 < n /\ n = (n - 1) + 1
  BY <1>3
<1> QED
  BY <1>3, <1>4, <1>5

\* A function f that is right up to n.
RightUpTo(S, a, h, n, f) ==
  f \in [Nat -> S] /\ f[0] = a /\ \A k \in 1 .. n : f[k] = h[f[k - 1]]

LEMMA RightSomewhere ==
  ASSUME NEW S, NEW a \in S, NEW h \in [S -> S]
  PROVE  \A n \in Nat : \E f : RightUpTo(S, a, h, n, f)
<1> DEFINE T == {n \in Nat : \E f : RightUpTo(S, a, h, n, f)}
<1>1. 0 \in T
  <2>1. RightUpTo(S, a, h, 0, [n \in Nat |-> a])
    BY DEF RightUpTo
  <2> QED
    BY <2>1
<1>2. ASSUME NEW n \in Nat, n \in T PROVE n + 1 \in T
  <2>1. PICK f : RightUpTo(S, a, h, n, f)
    BY <1>2
  <2> DEFINE g == [f EXCEPT ![n + 1] = h[f[n]]]
  <2>2. f \in [Nat -> S] /\ f[0] = a /\ \A k \in 1 .. n : f[k] = h[f[k - 1]]
    BY <2>1 DEF RightUpTo
  <2>3. g \in [Nat -> S] /\ g[n + 1] = h[f[n]] /\ \A k \in Nat : k # n + 1 => g[k] = f[k]
    BY <2>2
  <2> HIDE DEF g
  <2>4. g[0] = a
    BY <2>2, <2>3
  <2>5. ASSUME NEW k \in 1 .. n + 1 PROVE g[k] = h[g[k - 1]]
    <3>1. k \in Nat /\ k - 1 \in Nat /\ k - 1 # n + 1 /\ (k = n + 1 => k - 1 = n)
      BY <2>5
    <3>2. g[k - 1] = f[k - 1]
      BY <2>3, <3>1
    <3>3. CASE k = n + 1
      BY <2>3, <3>1, <3>2, <3>3
    <3>4. CASE k # n + 1
      <4>1. k \in 1 .. n
        BY <2>5, <3>4
      <4> QED
        BY <2>2, <2>3, <3>1, <3>2, <3>4, <4>1
    <3> QED
      BY <3>3, <3>4
  <2>6. RightUpTo(S, a, h, n + 1, g)
    BY <2>3, <2>4, <2>5 DEF RightUpTo
  <2> QED
    BY <2>6
<1> HIDE DEF T
<1>3. Nat \subseteq T
  BY <1>1, <1>2, Induct
<1> QED
  BY <1>3 DEF T

LEMMA RightAgree ==
  ASSUME NEW S, NEW a \in S, NEW h \in [S -> S]
  PROVE  \A k \in Nat : \A m, n \in Nat : \A f, g :
           k <= m /\ k <= n /\ RightUpTo(S, a, h, m, f) /\ RightUpTo(S, a, h, n, g) => f[k] = g[k]
<1> DEFINE T == {k \in Nat : \A m, n \in Nat : \A f, g :
                   k <= m /\ k <= n /\ RightUpTo(S, a, h, m, f) /\ RightUpTo(S, a, h, n, g)
                     => f[k] = g[k]}
<1>1. 0 \in T
  BY DEF RightUpTo
<1>2. ASSUME NEW k \in Nat, k \in T PROVE k + 1 \in T
  <2> SUFFICES ASSUME NEW m \in Nat, NEW n \in Nat, NEW f, NEW g, k + 1 <= m, k + 1 <= n,
                      RightUpTo(S, a, h, m, f), RightUpTo(S, a, h, n, g)
               PROVE  f[k + 1] = g[k + 1]
    OBVIOUS
  <2>1. k <= m /\ k <= n /\ k + 1 \in 1 .. m /\ k + 1 \in 1 .. n /\ (k + 1) - 1 = k
    OBVIOUS
  <2>2. f[k] = g[k]
    BY <1>2, <2>1
  <2>3. f[k + 1] = h[f[k]] /\ g[k + 1] = h[g[k]]
    BY <2>1 DEF RightUpTo
  <2> QED
    BY <2>2, <2>3
<1> HIDE DEF T
<1>3. Nat \subseteq T
  BY <1>1, <1>2, Induct
<1> QED
  BY <1>3 DEF T

\* Recursion from a by steps of h is defined.
LEMMA Recursion ==
  ASSUME NEW S, NEW a \in S, NEW h \in [S -> S]
  PROVE  \E r \in [Nat -> S] : r = [n \in Nat |-> IF n = 0 THEN a ELSE h[r[n - 1]]]
<1> DEFINE c == [n \in Nat |-> CHOOSE f : RightUpTo(S, a, h, n, f)]
           r == [n \in Nat |-> c[n][n]]
<1>1. \A n \in Nat : RightUpTo(S, a, h, n, c[n])
  BY RightSomewhere
<1> HIDE DEF c
<1>2. r \in [Nat -> S]
  BY <1>1 DEF RightUpTo
<1>3. ASSUME NEW n \in Nat PROVE r[n] = IF n = 0 THEN a ELSE h[r[n - 1]]
  <2>1. CASE n = 0
    BY <1>1, <2>1 DEF RightUpTo
  <2>2. CASE n # 0
    <3>1. n - 1 \in Nat /\ n - 1 <= n /\ n - 1 <= n - 1 /\ n \in 1 .. n
      BY <2>2
    <3>2. c[n][n] = h[c[n][n - 1]]
      BY <1>1, <3>1 DEF RightUpTo
    <3>3. c[n][n - 1] = c[n - 1][n - 1]
      BY <1>1, <3>1, RightAgree
    <3> QED
      BY <2>2, <3>1, <3>2, <3>3
  <2> QED
    BY <2>1, <2>2
<1> HIDE DEF r
<1>4. r = [n \in Nat |-> IF n = 0 THEN a ELSE h[r[n - 1]]]
  BY <1>2, <1>3
<1> QED
  BY <1>2, <1>4

\* The sets that n rounds of adding step[...] to base reach, within U.
Rounds(U, base, step, r) ==
  /\ r \in [Nat -> SUBSET U] /\ r[0] = base
  /\ \A n \in Nat : r[n + 1] = r[n] \cup step[r[n]]

Adding(U, base, step) ==
  /\ IsFiniteSet(U) /\ base \in SUBSET U /\ step \in [SUBSET U -> SUBSET U]
  /\ step[{}] = {} /\ \A X, Y \in SUBSET U : X \subseteq Y => step[X] \subseteq step[Y]

\* As many rounds as U has members are enough to reach what is closed, ...
LEMMA RoundsEnd ==
  ASSUME NEW U, NEW base, NEW step, Adding(U, base, step), NEW r, Rounds(U, base, step, r)
  PROVE  r[Cardinality(U)] = r[Cardinality(U)] \cup step[r[Cardinality(U)]]
<1>1. /\ r \in [Nat -> SUBSET U] /\ r[0] = base
      /\ \A n \in Nat : r[n + 1] = r[n] \cup step[r[n]]
  BY DEF Rounds
<1>2. /\ IsFiniteSet(U) /\ base \in SUBSET U /\ step \in [SUBSET U -> SUBSET U]
      /\ step[{}] = {} /\ \A X, Y \in SUBSET U : X \subseteq Y => step[X] \subseteq step[Y]
  BY DEF Adding
<1>3. \A n \in Nat : /\ IsFiniteSet(r[n]) /\ Cardinality(r[n]) \in Nat
                     /\ Cardinality(r[n]) <= Cardinality(U)
  <2> SUFFICES ASSUME NEW n \in Nat
               PROVE  /\ IsFiniteSet(r[n]) /\ Cardinality(r[n]) \in Nat
                      /\ Cardinality(r[n]) <= Cardinality(U)
    OBVIOUS
  <2>1. r[n] \in SUBSET U
    BY <1>1
  <2> QED
    BY <1>2, <2>1, FS_Subset, FS_CardinalityType
<1> DEFINE T == {n \in Nat : r[n + 1] = r[n] \/ Cardinality(r[n]) > n}
<1>4. 0 \in T
  <2>1. CASE base = {}
    BY <1>2, <1>1, <2>1
  <2>2. CASE base # {}
    <3>1. Cardinality(r[0]) # 0
      BY <1>1, <1>3, <2>2, FS_EmptySet
    <3> QED
      BY <1>3, <3>1
  <2> QED
    BY <2>1, <2>2
<1>5. ASSUME NEW n \in Nat, n \in T PROVE n + 1 \in T
  <2> PICK s, t, u : s = r[n] /\ t = r[n + 1] /\ u = r[(n + 1) + 1]
    OBVIOUS
  <2>1. t = s \cup step[s] /\ u = t \cup step[t]
    BY <1>1
  <2>2. /\ t = s \/ Cardinality(s) > n
        /\ IsFiniteSet(t) /\ Cardinality(t) \in Nat /\ Cardinality(s) \in Nat
    BY <1>3, <1>5
  <2>3. ASSUME t # s PROVE Cardinality(t) > n + 1
    <3>1. s \subseteq t
      BY <2>1
    <3>2. Cardinality(s) <= Cardinality(t) /\ Cardinality(s) # Cardinality(t)
      BY <2>2, <2>3, <3>1, FS_Subset
    <3> QED
      BY <2>2, <2>3, <3>2
  <2>4. t = s => u = t
    BY <2>1, Zenon
  <2>5. u = t \/ Cardinality(t) > n + 1
    BY <2>3, <2>4
  <2> QED
    BY <2>5
<1> HIDE DEF T
<1>6. Nat \subseteq T
  BY <1>4, <1>5, Induct
<1>7. Cardinality(U) \in Nat
  BY <1>2, FS_CardinalityType
<1>8. r[Cardinality(U) + 1] = r[Cardinality(U)]
  <2>1. Cardinality(U) \in T
    BY <1>6, <1>7
  <2>2. ~(Cardinality(r[Cardinality(U)]) > Cardinality(U))
    BY <1>3, <1>7
  <2> QED
    BY <2>1, <2>2 DEF T
<1> QED
  BY <1>1, <1>7, <1>8

\* ... and any number of rounds stays between what it is built from and every
\* set that is closed.
LEMMA RoundsBetween ==
  ASSUME NEW U, NEW base, NEW step, Adding(U, base, step), NEW r, Rounds(U, base, step, r)
  PROVE  \A n \in Nat :
           /\ base \subseteq r[n] /\ r[n] \subseteq base \cup step[r[n]]
           /\ \A X \in SUBSET U : base \subseteq X /\ step[X] \subseteq X => r[n] \subseteq X
<1>1. /\ r \in [Nat -> SUBSET U] /\ r[0] = base
      /\ \A n \in Nat : r[n + 1] = r[n] \cup step[r[n]]
  BY DEF Rounds
<1>2. /\ IsFiniteSet(U) /\ base \in SUBSET U /\ step \in [SUBSET U -> SUBSET U]
      /\ step[{}] = {} /\ \A X, Y \in SUBSET U : X \subseteq Y => step[X] \subseteq step[Y]
  BY DEF Adding
<1> DEFINE T == {n \in Nat :
                   /\ base \subseteq r[n] /\ r[n] \subseteq base \cup step[r[n]]
                   /\ \A X \in SUBSET U : base \subseteq X /\ step[X] \subseteq X => r[n] \subseteq X}
<1>3. 0 \in T
  BY <1>2, <1>1
<1>4. ASSUME NEW n \in Nat, n \in T PROVE n + 1 \in T
  <2>1. r[n] \in SUBSET U /\ r[n + 1] \in SUBSET U /\ r[n + 1] = r[n] \cup step[r[n]]
    BY <1>1
  <2>2. step[r[n]] \subseteq step[r[n + 1]]
    BY <1>2, <2>1
  <2>3. base \subseteq r[n + 1] /\ r[n + 1] \subseteq base \cup step[r[n + 1]]
    BY <1>4, <2>1, <2>2
  <2>4. ASSUME NEW X \in SUBSET U, base \subseteq X, step[X] \subseteq X PROVE r[n + 1] \subseteq X
    <3>1. r[n] \subseteq X
      BY <1>4, <2>4
    <3>2. step[r[n]] \subseteq step[X]
      BY <1>2, <2>1, <3>1
    <3> QED
      BY <2>1, <2>4, <3>1, <3>2
  <2> QED
    BY <2>3, <2>4
<1> HIDE DEF T
<1>5. Nat \subseteq T
  BY <1>3, <1>4, Induct
<1> QED
  BY <1>5 DEF T
-----------------------------------------------------------------------------
(* Liveness by paths, the reference definition.                            *)

\* Where a path begins that ends in a read of v at once, and what a path
\* through one more block adds to the blocks X.
ReadAtOnce(v) ==
  {b \in Blocks : \/ v \in UsedIn(fn, b)
                  \/ ReadsOnExit(v, b) /\ v \notin DefinedIn(fn.inst, b)}
PathsThrough(v) ==
  [X \in SUBSET Blocks |->
     {b \in Blocks : v \notin DefinedIn(fn.inst, b) /\ Successors(fn.term[b]) \cap X # {}}]

LEMMA PathRounds ==
  ASSUME TypeOK, NEW v
  PROVE  \E q : /\ Rounds(Blocks, ReadAtOnce(v), PathsThrough(v), q)
                /\ LiveInByPath(v) = q[Len(fn.term)]
<1> DEFINE Added(X) == {b \in Blocks : /\ v \notin DefinedIn(fn.inst, b)
                                       /\ Successors(fn.term[b]) \cap X # {}}
           Grown(q) == [n \in Nat |->
             IF n = 0
             THEN {b \in Blocks : \/ v \in UsedIn(fn, b)
                                  \/ ReadsOnExit(v, b) /\ v \notin DefinedIn(fn.inst, b)}
             ELSE LET later == q[n - 1]
                  IN  later \cup {b \in Blocks : /\ v \notin DefinedIn(fn.inst, b)
                                                 /\ Successors(fn.term[b]) \cap later # {}}]
           q == CHOOSE q : q = Grown(q)
<1>1. LiveInByPath(v) = q[Len(fn.term)]
  BY DEF LiveInByPath
<1>0. PICK S, a, h : /\ S = SUBSET Blocks /\ a = ReadAtOnce(v)
                     /\ h = [X \in S |-> X \cup Added(X)]
  OBVIOUS
<1>2. PICK r \in [Nat -> S] : r = [n \in Nat |-> IF n = 0 THEN a ELSE h[r[n - 1]]]
  <2>1. a \in S
    BY <1>0 DEF ReadAtOnce
  <2>2. h \in [S -> S]
    BY <1>0
  <2> QED
    BY <2>1, <2>2, Recursion
<1>3. r = Grown(r)
  <2>1. \A X \in S : h[X] = X \cup Added(X)
    BY <1>0
  <2> HIDE DEF Added
  <2>2. ASSUME NEW n \in Nat, n # 0 PROVE h[r[n - 1]] = r[n - 1] \cup Added(r[n - 1])
    <3>1. n - 1 \in Nat
      BY <2>2
    <3>2. r[n - 1] \in S
      BY <1>2, <3>1
    <3> QED
      BY <2>1, <3>2
  <2>3. r = [n \in Nat |-> IF n = 0 THEN a ELSE r[n - 1] \cup Added(r[n - 1])]
    BY <1>2, <2>2
  <2> QED
    BY <1>0, <2>3 DEF Added, ReadAtOnce
<1>4. q = Grown(q)
  <2> HIDE DEF Grown
  <2> QED
    BY <1>3, Zenon
<1> HIDE DEF q
<1>5. q[0] = ReadAtOnce(v)
  <2>1. q[0] = Grown(q)[0] /\ 0 \in Nat
    BY <1>4, Zenon
  <2> HIDE <1>4
  <2> QED
    BY <2>1, Zenon DEF ReadAtOnce
<1>6. ASSUME NEW n \in Nat PROVE q[n + 1] = q[n] \cup Added(q[n])
  <2>1. n + 1 \in Nat /\ n + 1 # 0 /\ (n + 1) - 1 = n
    OBVIOUS
  <2>2. q[n + 1] = Grown(q)[n + 1]
    BY <1>4, Zenon
  <2>3. Grown(q)[n + 1] = q[(n + 1) - 1] \cup Added(q[(n + 1) - 1])
    BY <2>1, Zenon
  <2> QED
    BY <2>1, <2>2, <2>3, Zenon
<1> DEFINE T == {n \in Nat : q[n] \in SUBSET Blocks}
<1>7. 0 \in T /\ \A n \in Nat : n \in T => n + 1 \in T
  BY <1>5, <1>6 DEF ReadAtOnce
<1> HIDE DEF T, Grown
<1>8. Nat \subseteq T
  BY <1>7, Induct
<1>9. q \in [Nat -> SUBSET Blocks]
  <2>1. \A n \in Nat : q[n] \in SUBSET Blocks
    BY <1>8 DEF T
  <2>2. \E X : q = [n \in Nat |-> X[n]]
    BY <1>4, Zenon DEF Grown
  <2> QED
    BY <2>1, <2>2
<1>10. \A n \in Nat : q[n + 1] = q[n] \cup PathsThrough(v)[q[n]]
  BY <1>6, <1>9 DEF PathsThrough
<1> QED
  BY <1>1, <1>5, <1>9, <1>10 DEF Rounds

\* Liveness by paths is the least solution of its own equation.
LEMMA PathEquation ==
  ASSUME TypeOK, NEW v
  PROVE  /\ LiveInByPath(v) \subseteq Blocks
         /\ \A b \in Blocks :
              b \in LiveInByPath(v) <=>
                \/ v \in UsedIn(fn, b)
                \/ /\ v \notin DefinedIn(fn.inst, b)
                   /\ ReadsOnExit(v, b) \/ Successors(fn.term[b]) \cap LiveInByPath(v) # {}
         /\ \A X \in SUBSET Blocks :
              ReadAtOnce(v) \subseteq X /\ PathsThrough(v)[X] \subseteq X => LiveInByPath(v) \subseteq X
<1>1. PICK U, base, step, N : /\ U = Blocks /\ base = ReadAtOnce(v) /\ step = PathsThrough(v)
                              /\ N = Len(fn.term)
  OBVIOUS
<1>2. PICK q : Rounds(U, base, step, q) /\ LiveInByPath(v) = q[N]
  BY <1>1, PathRounds
<1>3. N \in Nat /\ IsFiniteSet(U) /\ Cardinality(U) = N
  <2>1. N \in Nat /\ Blocks = 1 .. N
    BY <1>1, BlocksAreAnInterval
  <2> QED
    BY <1>1, <2>1, FS_Interval
<1>4. base \in SUBSET U /\ step \in [SUBSET U -> SUBSET U]
  BY <1>1 DEF ReadAtOnce, PathsThrough
<1>5. step[{}] = {} /\ \A X, Y \in SUBSET U : X \subseteq Y => step[X] \subseteq step[Y]
  BY <1>1 DEF PathsThrough
<1>6. Adding(U, base, step)
  BY <1>3, <1>4, <1>5 DEF Adding
<1>7. PICK L : L = LiveInByPath(v)
  OBVIOUS
<1>8. L = q[N] /\ L \in SUBSET U
  BY <1>2, <1>3, <1>7 DEF Rounds
<1>9. L = L \cup step[L]
  <2>1. q[Cardinality(U)] = q[Cardinality(U)] \cup step[q[Cardinality(U)]]
    BY <1>2, <1>6, RoundsEnd
  <2> QED
    BY <1>3, <1>8, <2>1, Zenon
<1>10. /\ base \subseteq L /\ L \subseteq base \cup step[L]
       /\ \A X \in SUBSET U : base \subseteq X /\ step[X] \subseteq X => L \subseteq X
  <2>1. \A n \in Nat :
          /\ base \subseteq q[n] /\ q[n] \subseteq base \cup step[q[n]]
          /\ \A X \in SUBSET U : base \subseteq X /\ step[X] \subseteq X => q[n] \subseteq X
    BY <1>2, <1>6, RoundsBetween
  <2> QED
    BY <1>3, <1>8, <2>1, Zenon
<1>11. L = base \cup step[L]
  BY <1>9, <1>10
<1>12. \A b \in Blocks : b \in L <=> \/ v \in UsedIn(fn, b)
                                     \/ /\ v \notin DefinedIn(fn.inst, b)
                                        /\ ReadsOnExit(v, b) \/ Successors(fn.term[b]) \cap L # {}
  <2>1. \A b \in Blocks :
          /\ b \in base <=> \/ v \in UsedIn(fn, b)
                            \/ ReadsOnExit(v, b) /\ v \notin DefinedIn(fn.inst, b)
          /\ b \in step[L] <=> v \notin DefinedIn(fn.inst, b) /\ Successors(fn.term[b]) \cap L # {}
    BY <1>1, <1>8 DEF ReadAtOnce, PathsThrough
  <2> QED
    BY <1>11, <2>1
<1> QED
  BY <1>1, <1>7, <1>8, <1>10, <1>12

\* The sets that liveness by paths makes solve the equations of the analysis.
LEMMA PathsSolve ==
  ASSUME TypeOK
  PROVE  \E in, out \in [Blocks -> SUBSET Values] :
           /\ IsSolution(in, out)
           /\ in = [b \in Blocks |-> {v \in Values : b \in LiveInByPath(v)}]
<1> DEFINE in == [b \in Blocks |-> {v \in Values : b \in LiveInByPath(v)}]
           out == [b \in Blocks |-> {v \in Values :
                     ReadsOnExit(v, b) \/ Successors(fn.term[b]) \cap LiveInByPath(v) # {}}]
<1>1. in \in [Blocks -> SUBSET Values] /\ out \in [Blocks -> SUBSET Values]
  OBVIOUS
<1>2. ASSUME NEW b \in Blocks PROVE out[b] = OutOf(fn, b, in) /\ in[b] = InOf(fn, b, out[b])
  <2>1. Successors(fn.term[b]) \subseteq Blocks
    BY SuccessorsAreBlocks DEF TypeOK, Blocks
  <2>2. \A s \in Blocks : PhiOperandsFrom(fn, s, b) \subseteq Values
    BY PhiOperandsAreValues DEF TypeOK, Blocks, Values
  <2>3. UsedIn(fn, b) \subseteq Values
    BY UsesAreValues DEF TypeOK, Blocks, Values
  <2>4. \A v : v \in OutOf(fn, b, in) <=>
                 \E s \in Successors(fn.term[b]) : v \in in[s] \/ v \in PhiOperandsFrom(fn, s, b)
    BY DEF OutOf
  <2>5. \A v : v \in out[b] <=>
                 /\ v \in Values
                 /\ \/ \E s \in Successors(fn.term[b]) : v \in PhiOperandsFrom(fn, s, b)
                    \/ \E s \in Successors(fn.term[b]) : s \in LiveInByPath(v)
    BY DEF ReadsOnExit
  <2>6. \A s \in Blocks : \A v : v \in in[s] <=> v \in Values /\ s \in LiveInByPath(v)
    OBVIOUS
  <2>7. out[b] = OutOf(fn, b, in)
    <3> HIDE DEF in, out
    <3> QED
      BY <2>1, <2>2, <2>4, <2>5, <2>6
  <2>8. in[b] = InOf(fn, b, out[b])
    <3>1. \A v \in Values : v \in out[b] <=>
            ReadsOnExit(v, b) \/ Successors(fn.term[b]) \cap LiveInByPath(v) # {}
      OBVIOUS
    <3>2. \A v \in Values : b \in LiveInByPath(v) <=>
            \/ v \in UsedIn(fn, b)
            \/ /\ v \notin DefinedIn(fn.inst, b)
               /\ ReadsOnExit(v, b) \/ Successors(fn.term[b]) \cap LiveInByPath(v) # {}
      BY PathEquation
    <3>3. out[b] \subseteq Values
      OBVIOUS
    <3> HIDE DEF in, out
    <3> QED
      BY <2>3, <2>6, <3>1, <3>2, <3>3 DEF InOf
  <2> QED
    BY <2>7, <2>8
<1> HIDE DEF in, out
<1>3. IsSolution(in, out)
  BY <1>2 DEF IsSolution
<1>4. in = [b \in Blocks |-> {v \in Values : b \in LiveInByPath(v)}]
  BY DEF in
<1> QED
  BY <1>1, <1>3, <1>4

\* Every solution of the equations has what is live by paths.
LEMMA SolutionsHavePaths ==
  ASSUME TypeOK, NEW in, NEW out, IsSolution(in, out), NEW v \in Values
  PROVE  LiveInByPath(v) \subseteq {b \in Blocks : v \in in[b]}
<1> DEFINE X == {b \in Blocks : v \in in[b]}
<1>1. \A b \in Blocks : /\ Successors(fn.term[b]) \subseteq Blocks
                        /\ out[b] = OutOf(fn, b, in) /\ in[b] = InOf(fn, b, out[b])
  BY SuccessorsAreBlocks DEF TypeOK, Blocks, IsSolution
<1>2. ASSUME NEW b \in Blocks, v \notin DefinedIn(fn.inst, b), v \in OutOf(fn, b, in)
      PROVE  v \in in[b]
  BY <1>1, <1>2 DEF InOf
<1>3. ReadAtOnce(v) \subseteq X
  <2> SUFFICES ASSUME NEW b \in ReadAtOnce(v) PROVE b \in X
    OBVIOUS
  <2>1. /\ b \in Blocks
        /\ v \in UsedIn(fn, b) \/ (ReadsOnExit(v, b) /\ v \notin DefinedIn(fn.inst, b))
    BY DEF ReadAtOnce
  <2>2. CASE v \in UsedIn(fn, b)
    BY <1>1, <2>1, <2>2 DEF InOf
  <2>3. CASE ReadsOnExit(v, b) /\ v \notin DefinedIn(fn.inst, b)
    <3>1. v \in OutOf(fn, b, in)
      BY <2>3 DEF ReadsOnExit, OutOf
    <3> QED
      BY <1>2, <2>1, <2>3, <3>1
  <2> QED
    BY <2>1, <2>2, <2>3
<1>4. PathsThrough(v)[X] \subseteq X
  <2> SUFFICES ASSUME NEW b \in Blocks, v \notin DefinedIn(fn.inst, b),
                      Successors(fn.term[b]) \cap X # {}
               PROVE  v \in in[b]
    BY DEF PathsThrough
  <2>1. v \in OutOf(fn, b, in)
    BY DEF OutOf
  <2> QED
    BY <1>2, <2>1
<1>5. X \in SUBSET Blocks
  OBVIOUS
<1> HIDE DEF X
<1>6. LiveInByPath(v) \subseteq X
  BY <1>3, <1>4, <1>5, PathEquation
<1> QED
  BY <1>6 DEF X

\* For every function the result is liveness as paths define it: no value is
\* missing from a set, which would let two live values share a register, and
\* none is in a set that no path from the block reads.
THEOREM ResultIsLiveness == Spec => []LivenessIsExact
<1>1. TypeOK /\ ResultIsLeast => LivenessIsExact
  <2> SUFFICES ASSUME TypeOK, IsSolution(liveIn, liveOut), BelowEverySolution, NEW v \in Values
               PROVE  LiveInByPath(v) = {b \in Blocks : v \in liveIn[b]}
    BY DEF ResultIsLeast, LivenessIsExact
  <2>1. LiveInByPath(v) \subseteq {b \in Blocks : v \in liveIn[b]}
    BY SolutionsHavePaths
  <2>2. ASSUME NEW b \in Blocks, v \in liveIn[b] PROVE b \in LiveInByPath(v)
    <3>1. PICK in, out \in [Blocks -> SUBSET Values] :
            /\ IsSolution(in, out)
            /\ in = [c \in Blocks |-> {w \in Values : c \in LiveInByPath(w)}]
      BY PathsSolve
    <3>2. v \in in[b]
      BY <2>2, <3>1 DEF BelowEverySolution
    <3> QED
      BY <3>1, <3>2
  <2> QED
    BY <2>1, <2>2
<1> QED
  BY <1>1, TypeCorrect, LeastSolution, PTL

-----------------------------------------------------------------------------
(* The allocator.                                                            *)

\* Before colouring nobody has a home; from then on the parameters sit in
\* the first registers and every other home was chosen by the loop.
HomesSoFar ==
  /\ phase \in {"check", "analyse", "TooManyParameters"} =>
       regs = <<>> /\ spills = <<>> /\ value = 1 /\ nextSpill = SpillBase
  /\ SpillBase <= nextSpill
  /\ phase = "analyse" => NumParams <= NumGpRegs
  /\ phase \in {"colour", "done"} =>
       /\ Analysed
       /\ Parameters \subseteq DOMAIN regs
       /\ DOMAIN spills \cap Parameters = {}

\* The next address lies behind every slot handed out.
SlotsBehind == \A v \in DOMAIN spills : spills[v] + 8 <= nextSpill

AllocInv ==
  /\ IInv
  /\ AllocTypeOK
  /\ HomesSoFar
  /\ InterferingApart
  /\ ArgumentRegistersFree
  /\ OneHomeEach
  /\ SlotsBehind

-----------------------------------------------------------------------------
LEMMA ParametersComeFirst ==
  ASSUME TypeOK
  PROVE  /\ Len(fn.inst) \in Nat /\ Values = 1 .. Len(fn.inst)
         /\ NumParams \in 0 .. Len(fn.inst)
         /\ Parameters = 1 .. NumParams
<1>1. IsFunction(fn)
  BY DEF TypeOK
<1>2. Len(fn.inst) \in Nat /\ Values = 1 .. Len(fn.inst)
  BY <1>1 DEF IsFunction, Values
<1>3. PICK n \in 0 .. Len(fn.inst) : \A v \in Values : fn.inst[v].kind = "param" <=> v <= n
  BY <1>1 DEF IsFunction, Values
<1>4. Parameters = 1 .. n
  BY <1>2, <1>3 DEF Parameters
<1>5. Cardinality(1 .. n) = n
  BY <1>2, <1>3, FS_Interval
<1> QED
  BY <1>2, <1>3, <1>4, <1>5 DEF NumParams

\* What interference depends on is settled once the analysis has ended.
LEMMA SettledSets ==
  ASSUME UNCHANGED liveVars
  PROVE  /\ Values' = Values /\ Parameters' = Parameters /\ NumParams' = NumParams
         /\ Blocks' = Blocks /\ Analysed' = Analysed
         /\ \A v, w : Interferes(v, w)' = Interferes(v, w)
BY DEF liveVars, Values, Parameters, NumParams, Blocks, Analysed, Interferes, Live, LiveWithin

LEMMA InterferesBothWays ==
  ASSUME NEW v, NEW w, Interferes(v, w)
  PROVE  Interferes(w, v)
BY DEF Interferes

LEMMA AllocInitHolds ==
  ASSUME AllocInit
  PROVE  AllocInv
<1>1. IInv
  BY InitHolds DEF AllocInit
<1>2. Len(fn.inst) \in Nat
  BY <1>1, ParametersComeFirst DEF IInv
<1>3. AllocTypeOK
  BY <1>1, <1>2, RegistersAssumption DEF AllocInit, AllocTypeOK, IInv
<1>4. HomesSoFar
  BY RegistersAssumption DEF AllocInit, HomesSoFar
<1>5. DOMAIN regs = {} /\ DOMAIN spills = {} /\ phase = "check"
  BY DEF AllocInit
<1>6. /\ InterferingApart /\ ArgumentRegistersFree
      /\ OneHomeEach /\ SlotsBehind
  BY <1>5 DEF InterferingApart, ArgumentRegistersFree, OneHomeEach, SlotsBehind
<1> QED
  BY <1>1, <1>3, <1>4, <1>6 DEF AllocInv

\* Steps that give no value a home.
LEMMA NoHomeGiven ==
  ASSUME AllocInv, UNCHANGED <<regs, spills, nextSpill, value>>, UNCHANGED liveVars,
         phase' \in {"check", "analyse", "colour", "done", "TooManyParameters"},
         HomesSoFar',
         phase' \in {"colour", "done"} => phase \in {"colour", "done"}
  PROVE  AllocInv'
<1>1. IInv' /\ TypeOK'
  BY StutterKeeps DEF AllocInv, IInv
<1>2. AllocTypeOK'
  BY <1>1 DEF AllocInv, AllocTypeOK, liveVars
<1>3. InterferingApart'
  BY SettledSets DEF AllocInv, InterferingApart
<1>4. ArgumentRegistersFree'
  BY SettledSets DEF AllocInv, ArgumentRegistersFree
<1>5. OneHomeEach'
  BY DEF AllocInv, OneHomeEach
<1>6. SlotsBehind'
  BY DEF AllocInv, SlotsBehind
<1> QED
  BY <1>1, <1>2, <1>3, <1>4, <1>5, <1>6 DEF AllocInv

LEMMA CheckKeeps ==
  ASSUME AllocInv, CheckParameters
  PROVE  AllocInv'
<1>1. UNCHANGED liveVars /\ UNCHANGED <<regs, spills, nextSpill, value>>
  BY DEF CheckParameters
<1>2. HomesSoFar'
  <2>1. NumParams \in Nat /\ NumGpRegs \in Nat
    BY ParametersComeFirst, RegistersAssumption DEF AllocInv, IInv
  <2> QED
    BY <1>1, <2>1, SettledSets DEF AllocInv, HomesSoFar, CheckParameters
<1> QED
  BY <1>1, <1>2, NoHomeGiven DEF CheckParameters

LEMMA FinishKeeps ==
  ASSUME AllocInv, Finish
  PROVE  AllocInv'
<1>1. UNCHANGED liveVars /\ UNCHANGED <<regs, spills, nextSpill, value>>
  BY DEF Finish
<1>2. HomesSoFar'
  BY <1>1, SettledSets DEF AllocInv, HomesSoFar, Finish
<1> QED
  BY <1>1, <1>2, NoHomeGiven DEF Finish

LEMMA AllocStutterKeeps ==
  ASSUME AllocInv, UNCHANGED allocVars
  PROVE  AllocInv'
<1>1. UNCHANGED liveVars /\ UNCHANGED <<regs, spills, nextSpill, value>> /\ phase' = phase
  BY DEF allocVars, liveVars
<1>2. HomesSoFar'
  BY <1>1, SettledSets DEF AllocInv, HomesSoFar
<1> QED
  BY <1>1, <1>2, NoHomeGiven DEF AllocInv, AllocTypeOK

LEMMA AnalyseKeeps ==
  ASSUME AllocInv, Analyse
  PROVE  AllocInv'
<1>1. IInv' /\ TypeOK'
  BY VisitKeeps, SweepKeeps DEF Analyse, AllocInv, IInv
<1>2. /\ phase = "analyse" /\ phase' = phase /\ fn' = fn
      /\ UNCHANGED <<value, regs, spills, nextSpill>>
      /\ regs = <<>> /\ spills = <<>> /\ value = 1 /\ nextSpill = SpillBase
  BY DEF Analyse, VisitBlock, SweepAgain, AllocInv, HomesSoFar
<1>3. Parameters' = Parameters /\ NumParams' = NumParams
  BY <1>2 DEF Parameters, NumParams, Values
<1>4. AllocTypeOK'
  BY <1>1, <1>2 DEF AllocInv, AllocTypeOK
<1>5. HomesSoFar'
  BY <1>2, <1>3 DEF AllocInv, HomesSoFar
<1> QED
  BY <1>1, <1>2, <1>4, <1>5 DEF AllocInv, InterferingApart, ArgumentRegistersFree,
       OneHomeEach, SlotsBehind

LEMMA PreColourKeeps ==
  ASSUME AllocInv, PreColour
  PROVE  AllocInv'
<1>1. /\ phase = "analyse" /\ phase' = "colour" /\ Analysed
      /\ UNCHANGED liveVars /\ fn' = fn
      /\ regs' = [v \in Parameters |-> v - 1]
      /\ value' = NumParams + 1
      /\ spills' = <<>> /\ nextSpill' = SpillBase
  BY DEF PreColour, AllocInv, HomesSoFar, liveVars
<1>2. /\ Len(fn.inst) \in Nat /\ NumParams \in 0 .. Len(fn.inst)
      /\ Parameters = 1 .. NumParams
  BY ParametersComeFirst DEF AllocInv, IInv
<1>3. NumParams <= NumGpRegs /\ NumGpRegs \in Nat /\ SpillBase \in Nat
  BY <1>1, RegistersAssumption DEF AllocInv, HomesSoFar
<1>4. IInv' /\ TypeOK'
  BY <1>1, StutterKeeps DEF AllocInv, IInv
<1>5. DOMAIN regs' = 1 .. NumParams /\ DOMAIN spills' = {}
  BY <1>1, <1>2
<1>6. AllocTypeOK'
  BY <1>1, <1>2, <1>3, <1>4, <1>5 DEF AllocTypeOK
<1>7. HomesSoFar'
  <2>1. Parameters' \subseteq DOMAIN regs' /\ DOMAIN spills' \cap Parameters' = {}
    BY <1>1, <1>2, <1>5, SettledSets
  <2>2. Analysed' /\ SpillBase <= nextSpill'
    BY <1>1, <1>3, SettledSets
  <2> QED
    BY <1>1, <2>1, <2>2 DEF HomesSoFar
<1>8. InterferingApart'
  <2>1. \A v, w \in DOMAIN regs' : v # w => regs'[v] # regs'[w]
    BY <1>1, <1>2
  <2> QED
    BY <2>1 DEF InterferingApart, Interferes
<1>9. ArgumentRegistersFree'
  BY <1>1, <1>2, <1>5, SettledSets DEF ArgumentRegistersFree
<1>10. OneHomeEach'
  BY <1>1, <1>2, <1>5 DEF OneHomeEach
<1>11. SlotsBehind'
  BY <1>5 DEF SlotsBehind
<1> QED
  BY <1>4, <1>6, <1>7, <1>8, <1>9, <1>10, <1>11 DEF AllocInv

\* What the two colouring steps share.
LEMMA Colouring ==
  ASSUME AllocInv, phase = "colour", value \in Values
  PROVE  /\ value \in Nat /\ value \in 1 .. Len(fn.inst) /\ Len(fn.inst) \in Nat
         /\ DOMAIN regs \cup DOMAIN spills = 1 .. value - 1
         /\ value \notin DOMAIN regs /\ value \notin DOMAIN spills
         /\ value \notin Parameters
<1>1. Len(fn.inst) \in Nat /\ Values = 1 .. Len(fn.inst)
  BY ParametersComeFirst DEF AllocInv, IInv
<1>2. DOMAIN regs \cup DOMAIN spills = 1 .. value - 1 /\ Parameters \subseteq DOMAIN regs
  BY DEF AllocInv, OneHomeEach, HomesSoFar
<1>3. value \notin 1 .. value - 1
  BY <1>1
<1> QED
  BY <1>1, <1>2, <1>3

LEMMA AssignKeeps ==
  ASSUME AllocInv, AssignRegister
  PROVE  AllocInv'
<1>1. /\ phase = "colour" /\ phase' = phase /\ value \in Values
      /\ value' = value + 1 /\ spills' = spills /\ nextSpill' = nextSpill
      /\ UNCHANGED liveVars /\ fn' = fn
  BY DEF AssignRegister, liveVars
<1>2. PICK r \in FreeFor(value) : regs' = Insert(regs, value, r)
  BY DEF AssignRegister
<1>3. /\ value \in 1 .. Len(fn.inst) /\ Len(fn.inst) \in Nat
      /\ DOMAIN regs \cup DOMAIN spills = 1 .. value - 1
      /\ value \notin DOMAIN regs /\ value \notin DOMAIN spills
      /\ value \notin Parameters
  BY <1>1, Colouring
<1>4. r \in GpRegs /\ r \notin TakenBy(value)
  BY <1>2 DEF FreeFor
<1>5. r \in 0 .. NumGpRegs - 1 /\ r >= ReservedArgRegisters
  BY <1>4, RegistersAssumption DEF GpRegs
<1>6. /\ DOMAIN regs' = DOMAIN regs \cup {value}
      /\ regs'[value] = r
      /\ \A v \in DOMAIN regs : regs'[v] = regs[v]
  BY <1>2, <1>3 DEF Insert
<1>7. IInv' /\ TypeOK'
  BY <1>1, StutterKeeps DEF AllocInv, IInv
<1>8. AllocTypeOK'
  <2>1. regs' \in [DOMAIN regs' -> 0 .. NumGpRegs - 1]
    BY <1>2, <1>5 DEF AllocInv, AllocTypeOK, Insert
  <2>2. value' \in 1 .. Len(fn'.inst) + 1
    BY <1>1, <1>3
  <2> QED
    BY <1>1, <1>7, <2>1, <2>2 DEF AllocInv, AllocTypeOK
<1>9. HomesSoFar'
  BY <1>1, <1>6, SettledSets DEF AllocInv, HomesSoFar
<1>10. InterferingApart'
  <2> SUFFICES ASSUME NEW v \in DOMAIN regs', NEW w \in DOMAIN regs', Interferes(v, w)
               PROVE  regs'[v] # regs'[w]
    BY <1>1, SettledSets DEF InterferingApart
  <2>1. v # w
    BY DEF Interferes
  <2>2. CASE v \in DOMAIN regs /\ w \in DOMAIN regs
    BY <2>2, <1>6 DEF AllocInv, InterferingApart
  <2>3. CASE v = value /\ w \in DOMAIN regs
    <3>1. regs[w] \in TakenBy(value)
      BY <2>3 DEF TakenBy
    <3> QED
      BY <2>3, <3>1, <1>4, <1>6
  <2>4. CASE w = value /\ v \in DOMAIN regs
    <3>1. regs[v] \in TakenBy(value)
      BY <2>4, InterferesBothWays DEF TakenBy
    <3> QED
      BY <2>4, <3>1, <1>4, <1>6
  <2> QED
    BY <2>1, <2>2, <2>3, <2>4, <1>6
<1>11. ArgumentRegistersFree'
  BY <1>1, <1>5, <1>6, SettledSets DEF AllocInv, ArgumentRegistersFree
<1>12. OneHomeEach'
  <2>1. DOMAIN regs' \cap DOMAIN spills' = {}
    BY <1>1, <1>3, <1>6 DEF AllocInv, OneHomeEach
  <2>2. DOMAIN regs' \cup DOMAIN spills' = 1 .. value' - 1
    BY <1>1, <1>3, <1>6
  <2> QED
    BY <1>1, <2>1, <2>2 DEF AllocInv, OneHomeEach
<1>13. SlotsBehind'
  BY <1>1 DEF AllocInv, SlotsBehind
<1> QED
  BY <1>7, <1>8, <1>9, <1>10, <1>11, <1>12, <1>13 DEF AllocInv

LEMMA SpillKeeps ==
  ASSUME AllocInv, Spill
  PROVE  AllocInv'
<1>1. /\ phase = "colour" /\ phase' = phase /\ value \in Values
      /\ value' = value + 1 /\ regs' = regs /\ nextSpill' = nextSpill + 8
      /\ spills' = Insert(spills, value, nextSpill)
      /\ UNCHANGED liveVars /\ fn' = fn
  BY DEF Spill, liveVars
<1>2. GpRegs \subseteq TakenBy(value)
  BY DEF Spill, FreeFor
<1>3. /\ value \in 1 .. Len(fn.inst) /\ Len(fn.inst) \in Nat
      /\ DOMAIN regs \cup DOMAIN spills = 1 .. value - 1
      /\ value \notin DOMAIN regs /\ value \notin DOMAIN spills
      /\ value \notin Parameters
  BY <1>1, Colouring
<1>4. spills \in [DOMAIN spills -> Nat] /\ nextSpill \in Nat /\ SpillBase \in Nat
  BY RegistersAssumption DEF AllocInv, AllocTypeOK
<1>5. /\ DOMAIN spills' = DOMAIN spills \cup {value}
      /\ spills'[value] = nextSpill
      /\ \A v \in DOMAIN spills : spills'[v] = spills[v] /\ spills[v] \in Nat
  BY <1>1, <1>3, <1>4 DEF Insert
<1>6. IInv' /\ TypeOK'
  BY <1>1, StutterKeeps DEF AllocInv, IInv
<1>7. AllocTypeOK'
  <2>1. spills' \in [DOMAIN spills' -> Nat] /\ nextSpill' \in Nat
    BY <1>1, <1>4 DEF Insert
  <2>2. value' \in 1 .. Len(fn'.inst) + 1
    BY <1>1, <1>3
  <2> QED
    BY <1>1, <1>6, <2>1, <2>2 DEF AllocInv, AllocTypeOK
<1>8. HomesSoFar'
  <2>1. Parameters' \subseteq DOMAIN regs' /\ DOMAIN spills' \cap Parameters' = {}
    BY <1>1, <1>3, <1>5, SettledSets DEF AllocInv, HomesSoFar
  <2>2. Analysed'
    BY <1>1, SettledSets DEF AllocInv, HomesSoFar
  <2>3. SpillBase <= nextSpill'
    BY <1>1, <1>4 DEF AllocInv, HomesSoFar
  <2> QED
    BY <1>1, <2>1, <2>2, <2>3 DEF HomesSoFar
<1>9. InterferingApart' /\ ArgumentRegistersFree'
  BY <1>1, SettledSets DEF AllocInv, InterferingApart, ArgumentRegistersFree
<1>10. OneHomeEach'
  <2>1. DOMAIN regs' \cap DOMAIN spills' = {}
    BY <1>1, <1>3, <1>5 DEF AllocInv, OneHomeEach
  <2>2. DOMAIN regs' \cup DOMAIN spills' = 1 .. value' - 1
    BY <1>1, <1>3, <1>5
  <2>3. \A v \in DOMAIN spills : v < value /\ SpillBase <= spills[v]
                                 /\ spills[v] + 8 <= nextSpill
    BY <1>3 DEF AllocInv, OneHomeEach, SlotsBehind
  <2>4. \A v \in DOMAIN spills' : SpillBase <= spills'[v] /\ spills'[v] + 8 <= nextSpill'
    <3>1. SpillBase <= nextSpill
      BY DEF AllocInv, HomesSoFar
    <3> QED
      BY <1>1, <1>4, <1>5, <2>3, <3>1
  <2>5. ASSUME NEW v \in DOMAIN spills', NEW w \in DOMAIN spills', v < w
        PROVE  spills'[v] + 8 <= spills'[w]
    <3>1. CASE w = value
      <4>1. v \in DOMAIN spills
        BY <2>5, <3>1, <1>3, <1>5
      <4> QED
        BY <4>1, <3>1, <1>5, <2>3
    <3>2. CASE w \in DOMAIN spills
      <4>1. v \in DOMAIN spills
        BY <2>5, <3>2, <2>3, <1>3, <1>5
      <4> QED
        BY <4>1, <3>2, <2>5, <1>5 DEF AllocInv, OneHomeEach
    <3> QED
      BY <3>1, <3>2, <1>5
  <2> QED
    BY <2>1, <2>2, <2>4, <2>5 DEF OneHomeEach
<1>11. SlotsBehind'
  <2>1. \A v \in DOMAIN spills : spills[v] + 8 <= nextSpill /\ spills[v] \in Nat
    BY <1>4 DEF AllocInv, SlotsBehind
  <2> QED
    BY <1>1, <1>4, <1>5, <2>1 DEF SlotsBehind
<1> QED
  BY <1>6, <1>7, <1>8, <1>9, <1>10, <1>11 DEF AllocInv

-----------------------------------------------------------------------------
(* The theorems.                                                           *)

\* The inductive invariant holds throughout the allocation.
THEOREM AllocInvariance == AllocSpec => []AllocInv
<1>1. AllocInit => AllocInv
  BY AllocInitHolds
<1>2. AllocInv /\ [AllocNext]_allocVars => AllocInv'
  <2> SUFFICES ASSUME AllocInv, [AllocNext]_allocVars PROVE AllocInv'
    OBVIOUS
  <2>1. CASE CheckParameters
    BY <2>1, CheckKeeps
  <2>2. CASE Analyse
    BY <2>2, AnalyseKeeps
  <2>3. CASE PreColour
    BY <2>3, PreColourKeeps
  <2>4. CASE AssignRegister
    BY <2>4, AssignKeeps
  <2>5. CASE Spill
    BY <2>5, SpillKeeps
  <2>6. CASE Finish
    BY <2>6, FinishKeeps
  <2>7. CASE UNCHANGED allocVars
    BY <2>7, AllocStutterKeeps
  <2> QED
    BY <2>1, <2>2, <2>3, <2>4, <2>5, <2>6, <2>7 DEF AllocNext, AllocStep, Ended
<1> QED
  BY <1>1, <1>2, PTL DEF AllocSpec

\* Every register given out exists, whatever the function and the number of
\* registers set aside for arguments.
THEOREM AllocTypeCorrect == AllocSpec => []AllocTypeOK
<1>1. AllocInv => AllocTypeOK
  BY DEF AllocInv
<1> QED
  BY <1>1, AllocInvariance, PTL

\* No two interfering values share a register.
THEOREM InterferingValuesApart == AllocSpec => []InterferingApart
<1>1. AllocInv => InterferingApart
  BY DEF AllocInv
<1> QED
  BY <1>1, AllocInvariance, PTL

\* No value computed in the function sits in a register a call's arguments
\* are written to.
THEOREM ArgumentRegistersAreFree == AllocSpec => []ArgumentRegistersFree
<1>1. AllocInv => ArgumentRegistersFree
  BY DEF AllocInv
<1> QED
  BY <1>1, AllocInvariance, PTL

\* Every value has one home, and spill slots do not overlap.
THEOREM EveryValueHasOneHome == AllocSpec => []OneHomeEach
<1>1. AllocInv => OneHomeEach
  BY DEF AllocInv
<1> QED
  BY <1>1, AllocInvariance, PTL

\* Whatever the allocator adds, the analysis it starts with runs as Liveness
\* says: what is proved of the analysis by itself holds of it here.
THEOREM AllocationRunsTheAnalysis == AllocSpec => Init /\ [][Next]_liveVars
<1>1. AllocInit => Init
  BY DEF AllocInit
<1>2. [AllocNext]_allocVars => [Next]_liveVars
  <2>1. Analyse => Next
    BY DEF Analyse, Next
  <2>2. CheckParameters \/ PreColour \/ AssignRegister \/ Spill \/ Finish => UNCHANGED liveVars
    BY DEF CheckParameters, PreColour, AssignRegister, Spill, Finish
  <2>3. UNCHANGED allocVars => UNCHANGED liveVars
    BY DEF allocVars, liveVars
  <2> QED
    BY <2>1, <2>2, <2>3 DEF AllocNext, AllocStep, Ended
<1> QED
  BY <1>1, <1>2, PTL DEF AllocSpec
-----------------------------------------------------------------------------
(* What interference is for.                                               *)

\* In a block, what is defined there and what is needed behind a definition
\* are live together.
LEMMA NeededIsLive ==
  ASSUME TypeOK, LivenessIsExact, SolvesEquations, Analysed, NEW v \in Values \ Parameters,
         NEW w \in Values, NEW b, b = fn.inst[v].block
  PROVE  /\ b \in Blocks /\ v \in DefinedIn(fn.inst, b) /\ v \in Live(b)
         /\ b \in LiveInByPath(w) \/ w \in PhisOf(fn.inst, b) => w \in Live(b)
         /\ w \in NeededAfter(v) => w \in Live(b)
<1>1. IsFunction(fn)
  BY DEF TypeOK
<1>2. b \in Blocks
  <2> DEFINE I == [block : DOMAIN fn.term, kind : InstKinds, ty : {"bool", "i64"},
                   args : Seq(DOMAIN fn.inst), from : Seq(DOMAIN fn.term)]
  <2>1. fn.inst \in Seq(I)
    BY <1>1 DEF IsFunction
  <2>2. fn.inst[v] \in I
    BY <2>1, InSeq DEF Values
  <2> QED
    BY <2>2 DEF Blocks
<1>3. v \in DefinedIn(fn.inst, b)
  BY DEF DefinedIn, Parameters, Values
<1>4. \A u : u \in Live(b) <=> \/ u \in liveIn[b] \/ u \in UsedIn(fn, b)
                               \/ u \in DefinedIn(fn.inst, b) \/ u \in liveOut[b]
  BY DEF Live, LiveWithin
<1>5. \A u \in Values : \A c \in Blocks : c \in LiveInByPath(u) <=> u \in liveIn[c]
  BY DEF LivenessIsExact
<1>6. b \in LiveInByPath(w) \/ w \in PhisOf(fn.inst, b) => w \in Live(b)
  BY <1>2, <1>4, <1>5 DEF PhisOf
<1>7. ASSUME w \in NeededAfter(v) PROVE w \in Live(b)
  <2> DEFINE after == {u \in DefinedIn(fn.inst, b) \ PhisOf(fn.inst, b) : u > v}
  <2>1. \/ \E u \in after : w \in Operands(fn.inst[u])
        \/ w = fn.term[b].arg
        \/ ReadsOnExit(w, b)
        \/ Successors(fn.term[b]) \cap LiveInByPath(w) # {}
    BY <1>7 DEF NeededAfter
  <2>2. CASE \E u \in after : w \in Operands(fn.inst[u])
    <3>1. PICK u \in DefinedIn(fn.inst, b) \ PhisOf(fn.inst, b) : w \in Operands(fn.inst[u])
      BY <2>2
    <3>2. w \in DefinedIn(fn.inst, b) \/ w \in UsedIn(fn, b)
      BY <3>1 DEF UsedIn
    <3> QED
      BY <1>4, <3>2
  <2>3. CASE w = fn.term[b].arg
    <3>1. w # NoValue
      <4>1. Values = 1 .. Len(fn.inst)
        BY ParametersComeFirst
      <4> QED
        BY <4>1 DEF NoValue
    <3>2. w \in DefinedIn(fn.inst, b) \/ w \in UsedIn(fn, b)
      BY <2>3, <3>1 DEF UsedIn
    <3> QED
      BY <1>4, <3>2
  <2>4. Successors(fn.term[b]) \subseteq Blocks /\ liveOut[b] = OutOf(fn, b, liveIn)
    BY <1>1, <1>2, SuccessorsAreBlocks DEF Blocks, SolvesEquations
  <2>5. CASE ReadsOnExit(w, b)
    BY <1>4, <2>4, <2>5 DEF ReadsOnExit, OutOf
  <2>6. CASE Successors(fn.term[b]) \cap LiveInByPath(w) # {}
    <3>1. PICK s \in Successors(fn.term[b]) : w \in liveIn[s]
      BY <1>5, <2>4, <2>6
    <3>2. w \in OutOf(fn, b, liveIn)
      BY <3>1 DEF OutOf
    <3> QED
      BY <1>4, <2>4, <3>2
  <2> HIDE DEF after
  <2> QED
    BY <2>1, <2>2, <2>3, <2>5, <2>6
<1> QED
  BY <1>2, <1>3, <1>4, <1>6, <1>7

LEMMA RegistersKeepNeeded ==
  ASSUME AllocInv, LivenessIsExact, SolvesEquations
  PROVE  NothingNeededIsOverwritten
<1> SUFFICES ASSUME phase = "done", NEW v \in DOMAIN regs \ Parameters,
                    NEW w \in DOMAIN regs \ {v},
                    NEW b, b = fn.inst[v].block,
                    \/ b \in LiveInByPath(w) \/ w \in PhisOf(fn.inst, b)
                    \/ w \in NeededAfter(v)
             PROVE  regs[w] # regs[v]
  BY DEF NothingNeededIsOverwritten
<1>1. TypeOK /\ Analysed
  BY DEF AllocInv, IInv, HomesSoFar
<1>2. DOMAIN regs \subseteq Values
  <2>1. DOMAIN regs \subseteq 1 .. value - 1 /\ value \in 1 .. Len(fn.inst) + 1
    BY DEF AllocInv, OneHomeEach, AllocTypeOK
  <2>2. Len(fn.inst) \in Nat /\ Values = 1 .. Len(fn.inst)
    BY <1>1, ParametersComeFirst
  <2> QED
    BY <2>1, <2>2
<1>3. b \in Blocks /\ v \in Live(b) /\ w \in Live(b)
  BY <1>1, <1>2, NeededIsLive
<1>4. Interferes(v, w)
  BY <1>3 DEF Interferes
<1> QED
  BY <1>4 DEF AllocInv, InterferingApart

\* What the allocation is for, with liveness as paths define it: for every
\* function and register file, an instruction's result never lands in a register
\* that holds a value still needed, nor do the phi copies on an edge overwrite a
\* value needed behind it, or each other.
THEOREM NeededValuesSurvive == AllocSpec => []NothingNeededIsOverwritten
<1>1. AllocSpec => Spec
  BY AllocationRunsTheAnalysis DEF Spec
<1> QED
  BY <1>1, AllocInvariance, ResultIsLiveness, ResultSolvesEquations, RegistersKeepNeeded, PTL
=============================================================================
