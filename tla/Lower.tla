-------------------------------- MODULE Lower --------------------------------
(***************************************************************************)
(* crates/codegen/src/lower.rs: turns a function into pending mentat       *)
(* blocks, after allocate has given every value its home.  One action is   *)
(* one turn of the loop over a block's instructions, or a block's          *)
(* terminator.                                                             *)
(*                                                                         *)
(* A mentat instruction is [op, rd, rs, imm, for]: it writes register rd,  *)
(* reads the registers rs and has an immediate; "for" is no part of the    *)
(* code but names the value of the function it computes, if any.  The      *)
(* opcodes that compute Bin and Un are one, "alu".                         *)
(***************************************************************************)
EXTENDS RegAlloc, SequencesExt

CONSTANT RegionBytes   \* FUNCTION_REGION_BYTES; region_base is SpillBase
ASSUME RegionAssumption == RegionBytes \in Nat

VARIABLES
  lowering,    \* "waiting", "blocks", "lowered" or the name of an error
  pending,     \* pending
  localIndex,  \* local_index, counted from 0
  nextTemp,    \* next_temp_addr
  lb,          \* block: the block being lowered
  open,        \* whether the loop over its instructions has begun
  lowered,     \* inst: the value last lowered in it
  cur          \* cur.instructions

lowerVars == <<lowering, pending, localIndex, nextTemp, lb, open, lowered, cur>>

\* The reserved registers, above the general-purpose ones.
StackPtr == NumGpRegs
Scratch2 == NumGpRegs + 1
Scratch1 == NumGpRegs + 2
ZeroReg  == NumGpRegs + 3
RetReg   == NumGpRegs + 4
Registers == 0 .. RetReg

RegionEnd == SpillBase + RegionBytes

-----------------------------------------------------------------------------
(* Instructions and terminators.                                           *)

Ins(op, rd, rs, imm, for) == [op |-> op, rd |-> rd, rs |-> rs, imm |-> imm, for |-> for]
Load(rd, base, imm)  == Ins("load", rd, <<base>>, imm, NoValue)
Store(base, r, imm)  == Ins("store", ZeroReg, <<base, r>>, imm, NoValue)
LoadI(rd, imm)       == Ins("loadi", rd, <<>>, imm, NoValue)
Mov(rd, r)           == Ins("mov", rd, <<r>>, 0, NoValue)
Bump(op, r)          == Ins(op, StackPtr, <<StackPtr, r>>, 0, NoValue)

JmpTo(b)     == [op |-> "jmp",  of |-> b]
JzTo(r, b)   == [op |-> "jz",   of |-> b, reg |-> r]
CallOf(v)    == [op |-> "call", of |-> v]
Ret(b)       == [op |-> "ret",  of |-> b]
Block(ins, term) == [ins |-> ins, term |-> term]

\* Values in the order of their ids, which is that of their block.
InOrder(S) == SelectSeq([v \in Values |-> v], LAMBDA v : v \in S)

-----------------------------------------------------------------------------
(* loc_of, read_into, write_target, finish_write.                          *)

RegLoc(r) == [in |-> "reg", at |-> r]
LocOf(v)  == IF v \in DOMAIN regs THEN RegLoc(regs[v]) ELSE [in |-> "mem", at |-> spills[v]]
RegOr(loc, scratch) == IF loc.in = "reg" THEN loc.at ELSE scratch

Reload(loc, scratch) ==
  IF loc.in = "reg" THEN <<>> ELSE <<Load(scratch, ZeroReg, loc.at)>>
WriteBackTo(loc, r) ==
  IF loc.in = "reg" THEN <<>> ELSE <<Store(ZeroReg, r, loc.at)>>

\* parallel_move: every source is staged before any destination is written.
Stage(src, temp) ==
  Reload(src, Scratch1) \o <<Store(ZeroReg, RegOr(src, Scratch1), temp)>>
Deliver(dst, temp) ==
  <<Load(RegOr(dst, Scratch1), ZeroReg, temp)>> \o WriteBackTo(dst, Scratch1)

\* Mutant of ParallelMove: each pair is moved before the next one is staged.
OneByOneMove(moves, base) ==
  FlattenSeq([i \in DOMAIN moves |-> Stage(moves[i][1], base) \o Deliver(moves[i][2], base)])

ParallelMove(moves, base) ==
  FlattenSeq([i \in DOMAIN moves |-> Stage(moves[i][1], base + 8 * (i - 1))])
  \o FlattenSeq([i \in DOMAIN moves |-> Deliver(moves[i][2], base + 8 * (i - 1))])

\* Mutant of Fits: the last slot may end one slot behind the region's end.
FitsPastEnd(count) == count = 0 \/ nextTemp + 8 * (count - 1) <= RegionEnd

\* alloc_temp_slots succeeds; parallel_move does not ask for zero slots.
Fits(count) == count = 0 \/ nextTemp + 8 * count <= RegionEnd

\* insert_phi_copies: the pairs an edge has to move.
PhiMoves(from, to) ==
  LET phis == InOrder(PhisOf(fn.inst, to))
  IN  [i \in DOMAIN phis |-> <<LocOf(PhiOperand(fn.inst[phis[i]], from)), LocOf(phis[i])>>]

ArgMoves(v) ==
  LET args == fn.inst[v].args IN [i \in DOMAIN args |-> <<LocOf(args[i]), RegLoc(i - 1)>>]

-----------------------------------------------------------------------------
(* The code around a call: every register another value of the block is in *)
(* goes to the software stack and back.                                    *)

\* Mutant of SavedAround: only what is live on entry to the block is saved.
SavedLiveInOnly(v) ==
  LET saved == InOrder({w \in liveIn[lb] \ {v} : w \in DOMAIN regs})
  IN  [i \in DOMAIN saved |-> regs[saved[i]]]

SavedAround(v) ==
  LET saved == InOrder({w \in Live(lb) \ {v} : w \in DOMAIN regs})
  IN  [i \in DOMAIN saved |-> regs[saved[i]]]

MoveStack(op, bytes) ==
  IF bytes = 0 THEN <<>> ELSE <<LoadI(Scratch1, bytes), Bump(op, Scratch1)>>

BeforeCall(v) ==
  LET saved == SavedAround(v)
  IN  [i \in DOMAIN saved |-> Store(StackPtr, saved[i], 8 * (i - 1))]
      \o MoveStack("add", 8 * Len(saved))
      \o ParallelMove(ArgMoves(v), nextTemp)

\* Mutant of AfterCall: the stack pointer is not taken back.
AfterCallNoPop(v) ==
  LET saved == SavedAround(v)
      dst == RegOr(LocOf(v), Scratch1)
  IN  [i \in DOMAIN saved |-> Load(saved[i], StackPtr, 8 * (i - 1))]
      \o (IF dst = RetReg THEN <<>> ELSE <<Mov(dst, RetReg)>>)
      \o WriteBackTo(LocOf(v), dst)

AfterCall(v) ==
  LET saved == SavedAround(v)
      dst == RegOr(LocOf(v), Scratch1)
  IN  MoveStack("sub", 8 * Len(saved))
      \o [i \in DOMAIN saved |-> Load(saved[i], StackPtr, 8 * (i - 1))]
      \o (IF dst = RetReg THEN <<>> ELSE <<Mov(dst, RetReg)>>)
      \o WriteBackTo(LocOf(v), dst)

\* Every other instruction: read the operands, compute, write the result.  The
\* zero register Neg and Not read as a literal is not listed.
Compute(v) ==
  LET i == fn.inst[v]
      scratch == <<Scratch1, Scratch2>>
      dst == RegOr(LocOf(v), Scratch1)
      loads == FlattenSeq([k \in DOMAIN i.args |-> Reload(LocOf(i.args[k]), scratch[k])])
      reads == [k \in DOMAIN i.args |-> RegOr(LocOf(i.args[k]), scratch[k])]
      compute == IF i.kind = "op" THEN Ins("alu", dst, reads, 0, v)
                 ELSE Ins("loadi", dst, <<>>, IF i.kind = "true" THEN 1 ELSE 0, v)
  IN  loads \o <<compute>> \o WriteBackTo(LocOf(v), dst)

-----------------------------------------------------------------------------
LowerInit ==
  /\ AllocInit
  /\ lowering = "waiting"
  /\ pending = <<>> /\ localIndex = <<>> /\ nextTemp = 0
  /\ lb = 1 /\ open = FALSE /\ lowered = NoValue /\ cur = <<>>

\* allocate runs first, with its analysis.
Allocate ==
  /\ CheckParameters \/ Analyse \/ PreColour \/ AssignRegister \/ Spill \/ Finish
  /\ UNCHANGED lowerVars

\* Mutant of BeginLowering: the temporaries start where the spills do.
BeginLoweringAtBase ==
  /\ phase = "done" /\ lowering = "waiting"
  /\ lowering' = "blocks"
  /\ nextTemp' = SpillBase
  /\ UNCHANGED <<allocVars, pending, localIndex, lb, open, lowered, cur>>

BeginLowering ==
  /\ phase = "done" /\ lowering = "waiting"
  /\ lowering' = "blocks"
  /\ nextTemp' = SpillBase + 8 * Cardinality(DOMAIN spills)
  /\ UNCHANGED <<allocVars, pending, localIndex, lb, open, lowered, cur>>

\* Mutant of BeginBlock: local_index counts from 1.
BeginBlockFromOne ==
  /\ lowering = "blocks" /\ lb \in Blocks /\ ~open
  /\ localIndex' = Insert(localIndex, lb, Len(pending) + 1)
  /\ open' = TRUE /\ lowered' = NoValue /\ cur' = <<>>
  /\ UNCHANGED <<allocVars, lowering, pending, nextTemp, lb>>

BeginBlock ==
  /\ lowering = "blocks" /\ lb \in Blocks /\ ~open
  /\ localIndex' = Insert(localIndex, lb, Len(pending))
  /\ open' = TRUE /\ lowered' = NoValue /\ cur' = <<>>
  /\ UNCHANGED <<allocVars, lowering, pending, nextTemp, lb>>

Unlowered == {v \in DefinedIn(fn.inst, lb) : v > lowered}
AtInstruction(v, kinds) ==
  /\ lowering = "blocks" /\ open
  /\ v \in Unlowered /\ \A w \in Unlowered : v <= w
  /\ fn.inst[v].kind \in kinds
AtTerminator(op) ==
  /\ lowering = "blocks" /\ open
  /\ Unlowered = {}
  /\ fn.term[lb].op = op

LowerPhi(v) ==
  /\ AtInstruction(v, {"phi"})
  /\ lowered' = v
  /\ UNCHANGED <<allocVars, lowering, pending, localIndex, nextTemp, lb, open, cur>>

LowerValue(v) ==
  /\ AtInstruction(v, {"op", "true", "false"})
  /\ lowered' = v
  /\ cur' = cur \o Compute(v)
  /\ UNCHANGED <<allocVars, lowering, pending, localIndex, nextTemp, lb, open>>

\* An i64 constant, one of the operations without an operand, may be too wide.
ConstantTooLarge(v) ==
  /\ AtInstruction(v, {"op"}) /\ fn.inst[v].args = <<>>
  /\ lowering' = "ConstantTooLarge"
  /\ UNCHANGED <<allocVars, pending, localIndex, nextTemp, lb, open, lowered, cur>>

LowerCall(v) ==
  /\ AtInstruction(v, {"call"})
  /\ Fits(Len(fn.inst[v].args))
  /\ pending' = Append(pending, Block(cur \o BeforeCall(v), CallOf(v)))
  /\ nextTemp' = nextTemp + 8 * Len(fn.inst[v].args)
  /\ lowered' = v
  /\ cur' = AfterCall(v)
  /\ UNCHANGED <<allocVars, lowering, localIndex, lb, open>>

\* The end of a block: its last pending blocks, which took so many temporaries.
EndBlock(blocks, temps) ==
  /\ pending' = pending \o blocks
  /\ nextTemp' = nextTemp + 8 * temps
  /\ lb' = lb + 1
  /\ open' = FALSE
  /\ UNCHANGED <<allocVars, lowering, localIndex, lowered, cur>>

LowerJump ==
  /\ AtTerminator("jump")
  /\ LET to == fn.term[lb].to[1]
         moves == PhiMoves(lb, to)
     IN  /\ Fits(Len(moves))
         /\ EndBlock(<<Block(cur \o ParallelMove(moves, nextTemp), JmpTo(to))>>, Len(moves))

\* Mutant of LowerBranch: the thunk is left out, as if the then block followed.
LowerBranchNoThunk ==
  /\ AtTerminator("branch")
  /\ LET t == fn.term[lb]
         cond == LocOf(t.arg)
     IN  EndBlock(<<Block(cur \o Reload(cond, Scratch1),
                          JzTo(RegOr(cond, Scratch1), t.to[2]))>>, 0)

\* The else edge's copies precede the Jz; the then edge's are in the thunk.
LowerBranch ==
  /\ AtTerminator("branch")
  /\ LET t == fn.term[lb]
         cond == LocOf(t.arg)
         else == PhiMoves(lb, t.to[2])
         then == PhiMoves(lb, t.to[1])
     IN  /\ Fits(Len(else) + Len(then))
         /\ EndBlock(
              <<Block(cur \o Reload(cond, Scratch1) \o ParallelMove(else, nextTemp),
                      JzTo(RegOr(cond, Scratch1), t.to[2])),
                Block(ParallelMove(then, nextTemp + 8 * Len(else)), JmpTo(t.to[1]))>>,
              Len(else) + Len(then))

LowerReturn ==
  /\ AtTerminator("return")
  /\ LET v == LocOf(fn.term[lb].arg)
         r == RegOr(v, Scratch1)
     IN  EndBlock(<<Block(cur \o Reload(v, Scratch1)
                          \o (IF r = RetReg THEN <<>> ELSE <<Mov(RetReg, r)>>), Ret(lb))>>, 0)

\* How many temporaries the next instruction or terminator asks for.
TempsNeeded ==
  IF Unlowered # {}
  THEN LET v == CHOOSE w \in Unlowered : \A u \in Unlowered : w <= u
       IN  IF fn.inst[v].kind = "call" THEN Len(fn.inst[v].args) ELSE 0
  ELSE LET to == fn.term[lb].to
       IN  Cardinality(UNION {{<<k, v>> : v \in PhisOf(fn.inst, to[k])} : k \in DOMAIN to})

\* alloc_temp_slots refuses.  addr_i32's error is the same, for addresses no
\* region reaches.
OutOfSpillSpace ==
  /\ lowering = "blocks" /\ open
  /\ ~Fits(TempsNeeded)
  /\ lowering' = "OutOfSpillSpace"
  /\ UNCHANGED <<allocVars, pending, localIndex, nextTemp, lb, open, lowered, cur>>

EndLowering ==
  /\ lowering = "blocks" /\ lb \notin Blocks
  /\ lowering' = "lowered"
  /\ UNCHANGED <<allocVars, pending, localIndex, nextTemp, lb, open, lowered, cur>>

LowerStep ==
  \/ Allocate \/ BeginLowering \/ BeginBlock
  \/ \E v \in Values : LowerPhi(v) \/ LowerValue(v) \/ ConstantTooLarge(v) \/ LowerCall(v)
  \/ LowerJump \/ LowerBranch \/ LowerReturn \/ OutOfSpillSpace \/ EndLowering

Failed == phase = "TooManyParameters" \/ lowering \in {"ConstantTooLarge", "OutOfSpillSpace"}
=============================================================================
