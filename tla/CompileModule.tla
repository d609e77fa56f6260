---------------------------- MODULE CompileModule ----------------------------
(***************************************************************************)
(* compile_module of crates/codegen/src/lib.rs: lays the functions of a    *)
(* module out in memory, lowers them one after the other into one array of *)
(* blocks, and resolves the targets of their jumps and calls to indices of *)
(* that array.  One action is one turn of the loop over the functions or   *)
(* of the loop over the blocks.                                            *)
(*                                                                         *)
(* A function comes with what lower_function returns for it: code, its     *)
(* pending blocks, and local, its local_index.  Of a pending block only    *)
(* the terminator [op, to, callee, at] is kept: "to" is a block of the     *)
(* function for "jmp" and "jz", callee a name for "call"; "at" names the   *)
(* place in the function the block was made for and is not in the code.    *)
(* Indices count from 0, as in the code: block i is blocks[i + 1].         *)
(***************************************************************************)
EXTENDS Naturals, Sequences

CONSTANTS
  Modules,       \* the modules that can be compiled
  NumGpRegs,     \* NUM_GP_REGS, 27 in the code
  RegionBytes,   \* FUNCTION_REGION_BYTES
  StackBase,     \* STACK_BASE
  ByteRange      \* how many values a u8 has, 256 in the code

Ops == {"jmp", "jz", "call", "ret"}

\* What lower_function returns: every block of the function begins inside the
\* code, the first one at its start, and jumps name blocks of the function.
IsLowered(f) ==
  /\ Len(f.code) \in Nat /\ DOMAIN f.code = 1 .. Len(f.code)
  /\ \A k \in DOMAIN f.code : f.code[k].op \in Ops
  /\ f.local \in [DOMAIN f.local -> 0 .. Len(f.code) - 1]
  /\ 1 \in DOMAIN f.local /\ f.local[1] = 0
  /\ \A k \in DOMAIN f.code : f.code[k].op \in {"jmp", "jz"} => f.code[k].to \in DOMAIN f.local

\* The parser refuses a second function of the same name.
NamesDistinct(m) == \A i, j \in DOMAIN m : m[i].name = m[j].name => i = j

ASSUME ModulesAssumption ==
  \A m \in Modules : /\ Len(m) \in Nat /\ DOMAIN m = 1 .. Len(m)
                     /\ NamesDistinct(m)
                     /\ \A i \in DOMAIN m : IsLowered(m[i]) /\ Len(m[i].params) \in Nat
ASSUME LayoutAssumption ==
  /\ NumGpRegs \in Nat /\ RegionBytes \in Nat /\ StackBase \in Nat
  /\ ByteRange \in Nat /\ NumGpRegs < ByteRange

VARIABLES
  module,
  phase,          \* "check", "lower", "resolve", "compiled" or an error
  turn,           \* the function or block the loop has reached, from 1
  reserved,       \* reserved_arg_registers
  regions,        \* region_base and region_end of the functions lowered
  owned,          \* owned_pending
  functionEntry,  \* function_entry
  localIndices,   \* local_indices
  blocks          \* the blocks of the program

compileVars == <<module, phase, turn, reserved, regions, owned, functionEntry,
                 localIndices, blocks>>

\* A HashMap after insert(k, v).
Put(map, k, v) == [x \in DOMAIN map \cup {k} |-> IF x = k THEN v ELSE map[x]]

Current == module[turn]

\* The largest parameter count, 0 for a module without functions.
Arities == {0} \cup {Len(module[i].params) : i \in DOMAIN module}
LargestArity == CHOOSE n \in Arities : \A a \in Arities : a <= n

-----------------------------------------------------------------------------
CompileInit ==
  /\ module \in Modules
  /\ phase = "check"
  /\ turn = 1
  /\ reserved = 0
  /\ regions = <<>> /\ owned = <<>> /\ blocks = <<>>
  /\ functionEntry = <<>> /\ localIndices = <<>>

\* Mutant of CheckLayout: one function more than the stack leaves room for.
CheckLayoutOffByOne ==
  /\ phase = "check"
  /\ IF Len(module) * RegionBytes > StackBase + RegionBytes
     THEN phase' = "TooManyFunctions" /\ UNCHANGED reserved
     ELSE phase' = "lower" /\ reserved' = LargestArity % ByteRange
  /\ UNCHANGED <<module, turn, regions, owned, functionEntry, localIndices, blocks>>

\* The layout check, and the cast of the largest parameter count to a u8.
CheckLayout ==
  /\ phase = "check"
  /\ IF Len(module) * RegionBytes > StackBase
     THEN phase' = "TooManyFunctions" /\ UNCHANGED reserved
     ELSE phase' = "lower" /\ reserved' = LargestArity % ByteRange
  /\ UNCHANGED <<module, turn, regions, owned, functionEntry, localIndices, blocks>>

\* Mutant of LowerFunction: allocate does not refuse too many parameters.
LowerFunctionAnyArity ==
  /\ phase = "lower" /\ turn \in DOMAIN module
  /\ regions' = Append(regions, [base |-> (turn - 1) * RegionBytes,
                                 end  |-> (turn - 1) * RegionBytes + RegionBytes])
  /\ functionEntry' = Put(functionEntry, Current.name, Len(owned))
  /\ owned' = owned \o [k \in DOMAIN Current.code |->
                          [owner |-> Current.name, term |-> Current.code[k]]]
  /\ localIndices' = Put(localIndices, Current.name, Current.local)
  /\ turn' = turn + 1
  /\ UNCHANGED <<module, phase, reserved, blocks>>

\* allocate and lower_function succeed for the next function.
LowerFunction ==
  /\ phase = "lower" /\ turn \in DOMAIN module
  /\ Len(Current.params) <= NumGpRegs
  /\ regions' = Append(regions, [base |-> (turn - 1) * RegionBytes,
                                 end  |-> (turn - 1) * RegionBytes + RegionBytes])
  /\ functionEntry' = Put(functionEntry, Current.name, Len(owned))
  /\ owned' = owned \o [k \in DOMAIN Current.code |->
                          [owner |-> Current.name, term |-> Current.code[k]]]
  /\ localIndices' = Put(localIndices, Current.name, Current.local)
  /\ turn' = turn + 1
  /\ UNCHANGED <<module, phase, reserved, blocks>>

\* One of them fails; what else can fail than the parameters is up to the
\* function's instructions.
CannotLower ==
  /\ phase = "lower" /\ turn \in DOMAIN module
  /\ phase' \in IF Len(Current.params) > NumGpRegs THEN {"TooManyParameters"}
                ELSE {"OutOfSpillSpace", "ConstantTooLarge"}
  /\ UNCHANGED <<module, turn, reserved, regions, owned, functionEntry, localIndices, blocks>>

BeginResolving ==
  /\ phase = "lower" /\ turn \notin DOMAIN module
  /\ phase' = "resolve"
  /\ turn' = 1
  /\ UNCHANGED <<module, reserved, regions, owned, functionEntry, localIndices, blocks>>

AtPending(ops) == phase = "resolve" /\ turn \in DOMAIN owned /\ owned[turn].term.op \in ops

\* The next block of the program, its terminator's target resolved.
AddBlock(target) ==
  /\ blocks' = Append(blocks, [owner |-> owned[turn].owner, op |-> owned[turn].term.op,
                               to |-> target, at |-> owned[turn].term.at])
  /\ turn' = turn + 1
  /\ UNCHANGED <<module, phase, reserved, regions, owned, functionEntry, localIndices>>

\* Mutant of ResolveJump: the block prepended later is not counted.
ResolveJumpUnshifted ==
  /\ AtPending({"jmp", "jz"})
  /\ LET owner == owned[turn].owner
     IN  AddBlock(functionEntry[owner] + localIndices[owner][owned[turn].term.to])

\* Mutant of ResolveJump: the block prepended later is counted twice.
ResolveJumpShiftedTwice ==
  /\ AtPending({"jmp", "jz"})
  /\ LET owner == owned[turn].owner
     IN  AddBlock(2 + functionEntry[owner] + localIndices[owner][owned[turn].term.to])

ResolveJump ==
  /\ AtPending({"jmp", "jz"})
  /\ LET owner == owned[turn].owner
     IN  AddBlock(1 + functionEntry[owner] + localIndices[owner][owned[turn].term.to])

ResolveCall ==
  /\ AtPending({"call"})
  /\ owned[turn].term.callee \in DOMAIN functionEntry
  /\ AddBlock(1 + functionEntry[owned[turn].term.callee])

ResolveReturn == AtPending({"ret"}) /\ AddBlock(0)

UnknownCallee ==
  /\ AtPending({"call"})
  /\ owned[turn].term.callee \notin DOMAIN functionEntry
  /\ phase' = "UnknownCallee"
  /\ UNCHANGED <<module, turn, reserved, regions, owned, functionEntry, localIndices, blocks>>

\* Everything moves up by one for the block that sets STACK_PTR and jumps to
\* the first function.
PrependInit ==
  /\ phase = "resolve" /\ turn \notin DOMAIN owned
  /\ phase' = "compiled"
  /\ functionEntry' = [f \in DOMAIN functionEntry |-> functionEntry[f] + 1]
  /\ blocks' = <<[owner |-> "init", op |-> "jmp", at |-> <<>>,
                  to |-> IF module = <<>> THEN 1 ELSE functionEntry'[module[1].name]]>>
               \o blocks
  /\ UNCHANGED <<module, turn, reserved, regions, owned, localIndices>>

CompileStep ==
  \/ CheckLayout \/ LowerFunction \/ CannotLower \/ BeginResolving
  \/ ResolveJump \/ ResolveCall \/ ResolveReturn \/ UnknownCallee \/ PrependInit

CompileSpec == CompileInit /\ [][CompileStep]_compileVars
CompileErrors == {"TooManyFunctions", "TooManyParameters", "OutOfSpillSpace",
                  "ConstantTooLarge", "UnknownCallee"}

-----------------------------------------------------------------------------
CompileTypeOK ==
  /\ phase \in {"check", "lower", "resolve", "compiled"} \cup CompileErrors
  /\ turn \in Nat \ {0}
  /\ reserved \in 0 .. ByteRange - 1
  /\ regions \in Seq([base : Nat, end : Nat])
  /\ DOMAIN functionEntry = DOMAIN localIndices
  /\ \A f \in DOMAIN functionEntry : functionEntry[f] \in Nat
  /\ Len(owned) \in Nat /\ Len(blocks) \in Nat

\* The regions of the functions follow one another and end before the call
\* stack begins: "so the two can never collide".
RegionsApart ==
  /\ \A i, j \in DOMAIN regions : i < j => regions[i].end <= regions[j].base
  /\ \A i \in DOMAIN regions : regions[i].end <= StackBase

\* The registers set aside for arguments, whose number was cast to a u8,
\* suffice for every function that gets compiled.
ArgumentsFitReserved ==
  phase \in {"resolve", "compiled"} =>
    \A i \in DOMAIN module : Len(module[i].params) <= reserved

\* In the finished program a jump leads to the pending block its function's
\* local_index names, a call to the first pending block of its callee, and so
\* do the entries handed out and the first block's jump.
FirstOf(f, n) == /\ blocks[n + 1].owner = f.name
                 /\ blocks[n + 1].at = f.code[1].at
TargetsLand ==
  phase = "compiled" =>
    /\ \A i \in DOMAIN module : FirstOf(module[i], functionEntry[module[i].name])
    /\ module # <<>> => FirstOf(module[1], blocks[1].to)
    /\ \A n \in DOMAIN owned :
         LET b == blocks[n + 1]
             term == owned[n].term
         IN  \A i \in DOMAIN module :
               /\ b.op = "call" /\ term.callee = module[i].name => FirstOf(module[i], b.to)
               /\ b.op \in {"jmp", "jz"} /\ b.owner = module[i].name =>
                    /\ blocks[b.to + 1].owner = b.owner
                    /\ blocks[b.to + 1].at = module[i].code[module[i].local[term.to] + 1].at
=============================================================================
