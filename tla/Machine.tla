------------------------------- MODULE Machine -------------------------------
(***************************************************************************)
(* One call of the lowered function on the mentat virtual machine, an      *)
(* external dependency modelled from how the code generator uses it:       *)
(* registers, memory, blocks that end in a jump, a conditional jump that   *)
(* falls through, a call that resumes at the next block, or a return.      *)
(*                                                                         *)
(* A called function is what this module checks of a call (the callee's    *)
(* contract, CallersStackKept and StoresStayInside): it leaves its result  *)
(* in RET_REG, STACK_PTR and ZERO_REG as they were and the stack below     *)
(* STACK_PTR untouched; every other register, and the stack above, holds   *)
(* Junk afterwards, and so does its own region of memory: this function's, *)
(* when the call is recursive.                                             *)
(*                                                                         *)
(* block, last, env and event record what the machine shows of itself,     *)
(* read from its registers and memory only.                                *)
(***************************************************************************)
EXTENDS Lower

CONSTANTS
  StackBase,          \* STACK_BASE
  SpillsInRecursion   \* whether a function with spills may call itself

ASSUME MachineAssumption ==
  /\ StackBase \in Nat /\ StackBase >= RegionEnd
  /\ SpillsInRecursion \in BOOLEAN

VARIABLES
  pb, pi,   \* the pending block and the instruction in it, 0 before the call
  reg,      \* the registers
  mem,      \* the memory written so far; the rest holds Junk
  block, last, env, event   \* see module Interp

codeVars == <<allocVars, lowerVars>>
machineVars == <<codeVars, pb, pi, reg, mem, block, last, env, event>>

Interpreter == INSTANCE Interp WITH
  fn <- fn, block <- block, last <- last, env <- env, event <- event

Bits == Interpreter!Bits
Junk == 2
Read(a)    == IF a \in DOMAIN mem THEN mem[a] ELSE Junk
Content(v) == IF LocOf(v).in = "reg" THEN reg[LocOf(v).at] ELSE Read(LocOf(v).at)

Running == pb # 0
Code    == pending[pb]
AtIns(ops) == Running /\ pi <= Len(Code.ins) /\ Code.ins[pi].op \in ops
AtTerm(op) == Running /\ pi > Len(Code.ins) /\ Code.term.op = op
Current == Code.ins[pi]
Source(k) == reg[Current.rs[k]]
Address == Source(1) + Current.imm

-----------------------------------------------------------------------------
MachineInit ==
  /\ LowerInit
  /\ pb = 0 /\ pi = 0 /\ reg = <<>> /\ mem = <<>>
  /\ Interpreter!InterpInit

Compile ==
  /\ LowerStep
  /\ UNCHANGED <<pb, pi, reg, mem, block, last, env, event>>

\* The caller has put the arguments in the first registers and its own stack
\* frame below STACK_PTR.
Enter ==
  /\ lowering = "lowered" /\ event.what = "none"
  /\ pb' = localIndex[1] + 1 /\ pi' = 1
  /\ \E args \in [Parameters -> Bits] :
       /\ reg' = [r \in Registers |-> CASE r = StackPtr -> StackBase
                                        [] r = ZeroReg -> 0
                                        [] r + 1 \in Parameters -> args[r + 1]
                                        [] OTHER -> Junk]
       /\ env' = [v \in Values |-> IF v \in Parameters THEN args[v] ELSE env[v]]
  /\ block' = 1
  /\ event' = Interpreter!Event("call", 1, <<>>)
  /\ UNCHANGED <<codeVars, mem, last>>

\* The instruction writes its result, and is the one that computes a value of
\* the function or is not.
Write(result) ==
  LET v == Current.for
  IN  /\ reg' = [reg EXCEPT ![Current.rd] = result]
      /\ IF v = NoValue THEN UNCHANGED <<last, env, event>>
         ELSE /\ last' = v
              /\ env' = [env EXCEPT ![v] = result]
              /\ event' = Interpreter!Event("value", v, [k \in DOMAIN Current.rs |-> Source(k)])
      /\ pi' = pi + 1
      /\ UNCHANGED <<codeVars, pb, mem, block>>

DoLoad  == AtIns({"load"}) /\ Write(Read(Address))
DoLoadI == AtIns({"loadi"}) /\ Write(Current.imm)
DoMov   == AtIns({"mov"}) /\ Write(Source(1))
DoAdd   == AtIns({"add"}) /\ Write(Source(1) + Source(2))
DoSub   == AtIns({"sub"}) /\ Write(Source(1) - Source(2))
DoAlu   == AtIns({"alu"}) /\ \E result \in Bits : Write(result)

DoStore ==
  /\ AtIns({"store"})
  /\ mem' = Insert(mem, Address, Source(2))
  /\ pi' = pi + 1
  /\ UNCHANGED <<codeVars, pb, reg, block, last, env, event>>

\* Control reaches the first pending block of block b.
Reach(b) ==
  /\ pb' = localIndex[b] + 1 /\ pi' = 1
  /\ block' = b
  /\ env' = [v \in Values |-> IF v \in PhisOf(fn.inst, b) THEN Content(v) ELSE env[v]]
  /\ event' = Interpreter!Event("goto", b, <<>>)
  /\ last' = 0
  /\ UNCHANGED <<codeVars, reg, mem>>

DoJmp == AtTerm("jmp") /\ Reach(Code.term.of)
DoJz  == AtTerm("jz") /\ reg[Code.term.reg] = 0 /\ Reach(Code.term.of)
FallThrough ==
  /\ AtTerm("jz") /\ reg[Code.term.reg] # 0
  /\ pb' = pb + 1 /\ pi' = 1
  /\ UNCHANGED <<codeVars, reg, mem, block, last, env, event>>

\* Of the memory written so far, what the callee leaves alone.
Kept(recursive) ==
  {a \in DOMAIN mem : \/ StackBase <= a /\ a < reg[StackPtr]
                      \/ a < StackBase /\ ~recursive}

DoCall ==
  /\ AtTerm("call")
  /\ LET v == Code.term.of
     IN  \E result \in Bits, recursive \in BOOLEAN :
           /\ recursive => \/ SpillsInRecursion
                           \/ spills = <<>>
           /\ reg' = [r \in Registers |-> CASE r \in {StackPtr, ZeroReg} -> reg[r]
                                            [] r = RetReg -> result
                                            [] OTHER -> Junk]
           /\ mem' = [a \in Kept(recursive) |-> mem[a]]
           /\ last' = v
           /\ env' = [env EXCEPT ![v] = result]
           /\ event' = Interpreter!Event("value", v, [k \in DOMAIN fn.inst[v].args |-> reg[k - 1]])
  /\ pb' = pb + 1 /\ pi' = 1
  /\ UNCHANGED <<codeVars, block>>

DoRet ==
  /\ AtTerm("ret")
  /\ pb' = 0 /\ pi' = 0
  /\ block' = 0
  /\ event' = Interpreter!Event("return", fn.term[Code.term.of].arg, <<reg[RetReg]>>)
  /\ UNCHANGED <<codeVars, reg, mem, last, env>>

Rest == (Failed \/ event.what = "return") /\ UNCHANGED machineVars

MachineNext ==
  \/ Compile \/ Enter
  \/ DoLoad \/ DoLoadI \/ DoMov \/ DoAdd \/ DoSub \/ DoAlu \/ DoStore
  \/ DoJmp \/ DoJz \/ FallThrough \/ DoCall \/ DoRet \/ Rest
MachineSpec == MachineInit /\ [][MachineNext]_machineVars

-----------------------------------------------------------------------------
\* The compiled function computes what the interpreter computes: every
\* operation and every called function gets the operands the interpreter
\* reads, every branch goes where it goes, phis hold what it gives them, and
\* the value returned is the one it returns.
ImplementsInterpreter == Interpreter!InterpSpec

\* The callee's contract: a call gives back the stack pointer it was handed,
\* never takes it below that, and never writes the zero register.
CallersStackKept ==
  /\ AtTerm("ret") => reg[StackPtr] = StackBase
  /\ Running => reg[ZeroReg] = 0 /\ reg[StackPtr] >= StackBase

\* What a function stores goes to its own region or to the stack above what
\* its caller has there: "checked rather than silently overrun".
StoresStayInside ==
  AtIns({"store"}) => \/ SpillBase <= Address /\ Address + 8 <= RegionEnd
                      \/ StackBase <= Address
=============================================================================
