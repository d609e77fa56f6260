------------------------------ MODULE Liveness ------------------------------
(***************************************************************************)
(* crates/codegen/src/liveness.rs: which values are live into and out of   *)
(* each block of a function, by iterated backward dataflow.  One action is *)
(* one turn of the for loop over the blocks, or the test of the while loop *)
(* around it.                                                              *)
(***************************************************************************)
EXTENDS Ir

CONSTANT Functions   \* the functions that can be analysed
ASSUME FunctionsAssumption == \A g \in Functions : IsFunction(g)

VARIABLES
  fn,        \* the function being analysed
  liveIn,    \* live_in
  liveOut,   \* live_out
  at,        \* the block the for loop has reached
  changed    \* the while loop's flag

liveVars == <<fn, liveIn, liveOut, at, changed>>

Operands(i) == {i.args[k] : k \in DOMAIN i.args}

-----------------------------------------------------------------------------
(* What a block does to liveness, for a function g.                        *)

\* used_and_defined_in_block: values an instruction other than a phi, or the
\* terminator, reads before the block defines them.
UsedIn(g, b) ==
  (UNION {Operands(g.inst[v]) \ {w \in DefinedIn(g.inst, b) : w < v} :
            v \in DefinedIn(g.inst, b) \ PhisOf(g.inst, b)})
  \cup ({g.term[b].arg} \ ({NoValue} \cup DefinedIn(g.inst, b)))

\* phi_operands_from: what the phis of block s read at the end of block b.
PhiOperandsFrom(g, s, b) ==
  {PhiOperand(g.inst[v], b) : v \in {w \in PhisOf(g.inst, s) : PhiCovers(g.inst[w], b)}}

\* Mutant of OutOf: every operand of a successor's phis counts, whichever edge
\* it belongs to.
OutOfEveryOperand(g, b, in) ==
  UNION {in[s] \cup (UNION {Operands(g.inst[v]) : v \in PhisOf(g.inst, s)}) :
           s \in Successors(g.term[b])}

\* The dataflow equations, right-hand sides.
OutOf(g, b, in) ==
  UNION {in[s] \cup PhiOperandsFrom(g, s, b) : s \in Successors(g.term[b])}
InOf(g, b, out) == UsedIn(g, b) \cup (out \ DefinedIn(g.inst, b))

\* live_within_block, for a result in, out of the analysis.
LiveWithin(g, b, in, out) ==
  in[b] \cup UsedIn(g, b) \cup DefinedIn(g.inst, b) \cup out[b]

-----------------------------------------------------------------------------
Blocks == DOMAIN fn.term
Values == DOMAIN fn.inst

Init ==
  /\ fn \in Functions
  /\ liveIn  = [b \in Blocks |-> {}]
  /\ liveOut = [b \in Blocks |-> {}]
  /\ at = 1
  /\ changed = FALSE

\* Mutant of VisitBlock: a change of live_in alone does not ask for another sweep.
VisitBlockOutOnly ==
  /\ at \in Blocks
  /\ LET out == OutOf(fn, at, liveIn)
     IN  /\ liveOut' = [liveOut EXCEPT ![at] = out]
         /\ liveIn'  = [liveIn EXCEPT ![at] = InOf(fn, at, out)]
         /\ changed' = (changed \/ out # liveOut[at])
  /\ at' = at + 1
  /\ UNCHANGED fn

VisitBlock ==
  /\ at \in Blocks
  /\ LET out == OutOf(fn, at, liveIn)
         new == InOf(fn, at, out)
     IN  /\ liveOut' = [liveOut EXCEPT ![at] = out]
         /\ liveIn'  = [liveIn EXCEPT ![at] = new]
         /\ changed' = (changed \/ out # liveOut[at] \/ new # liveIn[at])
  /\ at' = at + 1
  /\ UNCHANGED fn

\* Mutant of SweepAgain: the flag is not cleared before the next sweep.
SweepAgainKeepsFlag ==
  /\ at \notin Blocks
  /\ changed
  /\ at' = 1
  /\ UNCHANGED <<fn, liveIn, liveOut, changed>>

\* Mutant of SweepAgain: every sweep starts from empty sets.
SweepAgainFromScratch ==
  /\ at \notin Blocks
  /\ changed
  /\ at' = 1
  /\ changed' = FALSE
  /\ liveIn' = [b \in Blocks |-> {}]
  /\ UNCHANGED <<fn, liveOut>>

SweepAgain ==
  /\ at \notin Blocks
  /\ changed
  /\ at' = 1
  /\ changed' = FALSE
  /\ UNCHANGED <<fn, liveIn, liveOut>>

Analysed == at \notin Blocks /\ ~changed
Done == Analysed /\ UNCHANGED liveVars

Next == VisitBlock \/ SweepAgain \/ Done
Spec == Init /\ [][Next]_liveVars

-----------------------------------------------------------------------------
TypeOK ==
  /\ IsFunction(fn)
  /\ liveIn \in [Blocks -> SUBSET Values]
  /\ liveOut \in [Blocks -> SUBSET Values]
  /\ at \in 1 .. Len(fn.term) + 1
  /\ changed \in BOOLEAN

\* The analysis "always terminates (each set only ever grows ...)": no turn of
\* the loop takes a value out of a set.
SetsGrow ==
  [][\A b \in Blocks : liveIn[b] \subseteq liveIn'[b] /\ liveOut[b] \subseteq liveOut'[b]]_liveVars

\* When the loop ends the sets solve the dataflow equations at every block,
\* not only at those the last sweep changed.
SolvesEquations ==
  Analysed => \A b \in Blocks : /\ liveOut[b] = OutOf(fn, b, liveIn)
                                /\ liveIn[b]  = InOf(fn, b, liveOut[b])

\* Reference definition of liveness, by paths: a value is live into a block
\* when some path from it reaches a block that reads the value on entry, or an
\* edge on which a phi reads it, with no block on the way defining it.
ReadsOnExit(v, b) == \E s \in Successors(fn.term[b]) : v \in PhiOperandsFrom(fn, s, b)
LiveInByPath(v) ==
  LET reach[n \in Nat] ==
        IF n = 0
        THEN {b \in Blocks : \/ v \in UsedIn(fn, b)
                             \/ ReadsOnExit(v, b) /\ v \notin DefinedIn(fn.inst, b)}
        ELSE LET later == reach[n - 1]
             IN  later \cup {b \in Blocks : /\ v \notin DefinedIn(fn.inst, b)
                                            /\ Successors(fn.term[b]) \cap later # {}}
  IN  reach[Len(fn.term)]

\* The result is exactly liveness: nothing missed, which would let two live
\* values share a register, and nothing leaked around a loop's back edge.
LivenessIsExact ==
  Analysed => \A v \in Values : LiveInByPath(v) = {b \in Blocks : v \in liveIn[b]}
=============================================================================
