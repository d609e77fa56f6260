------------------------------ MODULE RegAlloc ------------------------------
(***************************************************************************)
(* allocate of crates/codegen/src/regalloc.rs: greedy colouring of a       *)
(* function's values over the block-granular interference the liveness     *)
(* analysis gives, parameters pre-coloured to the argument registers,      *)
(* values without a free register spilled to memory.  One action is one    *)
(* turn of the loop over the values.  Registers are numbered from 0, as in *)
(* the code; parameter v (counted from 1) is in register v - 1.            *)
(***************************************************************************)
EXTENDS Liveness

CONSTANTS
  NumGpRegs,             \* NUM_GP_REGS, 27 in the code
  ReservedArgRegisters,  \* the largest parameter count of the module
  SpillBase              \* spill_base_addr

ASSUME RegistersAssumption ==
  /\ NumGpRegs \in Nat /\ ReservedArgRegisters \in Nat /\ SpillBase \in Nat

VARIABLES
  phase,     \* "check", "analyse", "colour", "done" or "TooManyParameters"
  value,     \* the value the loop has reached
  regs,      \* allocation.registers
  spills,    \* allocation.spills
  nextSpill  \* next_spill_addr

allocVars == <<fn, liveIn, liveOut, at, changed, phase, value, regs, spills, nextSpill>>

Parameters == {v \in Values : fn.inst[v].kind = "param"}
NumParams  == Cardinality(Parameters)

\* The map of a HashMap after insert(k, v).
Insert(m, k, v) == [x \in DOMAIN m \cup {k} |-> IF x = k THEN v ELSE m[x]]

\* Mutant of Live: values that only pass through the block are left out.
LiveHereOnly(b) == UsedIn(fn, b) \cup DefinedIn(fn.inst, b)

Live(b) == LiveWithin(fn, b, liveIn, liveOut)
Interferes(v, w) == v # w /\ \E b \in Blocks : {v, w} \subseteq Live(b)

TakenBy(v)   == {regs[w] : w \in {u \in DOMAIN regs : Interferes(v, u)}}
\* Mutant of GpRegs: the range is closed, and takes in STACK_PTR's register.
GpRegsClosed == ReservedArgRegisters .. NumGpRegs

GpRegs       == ReservedArgRegisters .. NumGpRegs - 1
FreeFor(v)   == GpRegs \ TakenBy(v)

-----------------------------------------------------------------------------
AllocInit ==
  /\ Init
  /\ phase = "check"
  /\ value = 1
  /\ regs = <<>> /\ spills = <<>>
  /\ nextSpill = SpillBase

CheckParameters ==
  /\ phase = "check"
  /\ phase' = IF NumParams > NumGpRegs THEN "TooManyParameters" ELSE "analyse"
  /\ UNCHANGED <<liveVars, value, regs, spills, nextSpill>>

Analyse ==
  /\ phase = "analyse"
  /\ VisitBlock \/ SweepAgain
  /\ UNCHANGED <<phase, value, regs, spills, nextSpill>>

PreColour ==
  /\ phase = "analyse" /\ Analysed
  /\ regs' = [v \in Parameters |-> v - 1]
  /\ value' = NumParams + 1
  /\ phase' = "colour"
  /\ UNCHANGED <<liveVars, spills, nextSpill>>

\* Mutant of AssignRegister: the neighbours' registers are not left out.
AssignFirstRegister ==
  /\ phase = "colour" /\ value \in Values
  /\ GpRegs # {}
  /\ regs' = Insert(regs, value, ReservedArgRegisters)
  /\ value' = value + 1
  /\ UNCHANGED <<liveVars, phase, spills, nextSpill>>

\* The smallest register no interfering value holds.
AssignRegister ==
  /\ phase = "colour" /\ value \in Values
  /\ \E r \in FreeFor(value) :
       /\ \A s \in FreeFor(value) : r <= s
       /\ regs' = Insert(regs, value, r)
  /\ value' = value + 1
  /\ UNCHANGED <<liveVars, phase, spills, nextSpill>>

\* Mutant of Spill: the next address is not moved on.
SpillInPlace ==
  /\ phase = "colour" /\ value \in Values
  /\ FreeFor(value) = {}
  /\ spills' = Insert(spills, value, nextSpill)
  /\ value' = value + 1
  /\ UNCHANGED <<liveVars, phase, regs, nextSpill>>

Spill ==
  /\ phase = "colour" /\ value \in Values
  /\ FreeFor(value) = {}
  /\ spills' = Insert(spills, value, nextSpill)
  /\ nextSpill' = nextSpill + 8
  /\ value' = value + 1
  /\ UNCHANGED <<liveVars, phase, regs>>

Finish ==
  /\ phase = "colour" /\ value \notin Values
  /\ phase' = "done"
  /\ UNCHANGED <<liveVars, value, regs, spills, nextSpill>>

Ended == phase \in {"done", "TooManyParameters"} /\ UNCHANGED allocVars

AllocStep == CheckParameters \/ Analyse \/ PreColour \/ AssignRegister \/ Spill \/ Finish
AllocNext == AllocStep \/ Ended
AllocSpec == AllocInit /\ [][AllocNext]_allocVars /\ WF_allocVars(AllocStep)

-----------------------------------------------------------------------------
AllocTypeOK ==
  /\ TypeOK
  /\ phase \in {"check", "analyse", "colour", "done", "TooManyParameters"}
  /\ value \in 1 .. Len(fn.inst) + 1
  /\ regs \in [DOMAIN regs -> 0 .. NumGpRegs - 1]
  /\ spills \in [DOMAIN spills -> Nat]
  /\ nextSpill \in Nat

\* Two values that interfere never share a register, from the pre-colouring of
\* the parameters to the last value.
InterferingApart ==
  \A v, w \in DOMAIN regs : Interferes(v, w) => regs[v] # regs[w]

\* Values other than parameters stay out of the registers calls pass their
\* arguments in.
ArgumentRegistersFree ==
  \A v \in DOMAIN regs \ Parameters : regs[v] >= ReservedArgRegisters

\* Every value processed has exactly one home, and no two spilled values
\* share or overlap a slot of the spill area.
OneHomeEach ==
  /\ DOMAIN regs \cap DOMAIN spills = {}
  /\ phase \in {"colour", "done"} => DOMAIN regs \cup DOMAIN spills = 1 .. value - 1
  /\ \A v, w \in DOMAIN spills : v < w => spills[v] + 8 <= spills[w]
  /\ \A v \in DOMAIN spills : SpillBase <= spills[v]

\* allocate returns: the analysis reaches its fixed point, whatever the loops of
\* the function, and so does the loop over the values.
AllocateReturns == <>(phase \in {"done", "TooManyParameters"})

\* Values still needed after the instruction that defines v, by paths: read
\* later in v's block, or live out of it.
NeededAfter(v) ==
  LET b == fn.inst[v].block
      after == {u \in DefinedIn(fn.inst, b) \ PhisOf(fn.inst, b) : u > v}
  IN  {w \in Values \ {u \in DefinedIn(fn.inst, b) : u > v} :
         \/ \E u \in after : w \in Operands(fn.inst[u])
         \/ w = fn.term[b].arg
         \/ ReadsOnExit(w, b)
         \/ Successors(fn.term[b]) \cap LiveInByPath(w) # {}}

\* What the allocation is for, by the reference definition of liveness and
\* not the analysis: an instruction's result never lands in a register that
\* holds a value still needed, and the phi copies on an edge into a block
\* overwrite neither a value needed in the block nor each other.
NothingNeededIsOverwritten ==
  phase = "done" =>
    \A v \in DOMAIN regs \ Parameters :
      LET b == fn.inst[v].block
      IN  IF fn.inst[v].kind = "phi"
          THEN \A w \in DOMAIN regs \ {v} :
                 b \in LiveInByPath(w) \/ w \in PhisOf(fn.inst, b) => regs[w] # regs[v]
          ELSE \A w \in (DOMAIN regs \cap NeededAfter(v)) \ {v} : regs[w] # regs[v]
=============================================================================
