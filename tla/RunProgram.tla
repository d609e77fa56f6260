----------------------------- MODULE RunProgram -----------------------------
(***************************************************************************)
(* A module compiled by compile_module and run: by the command line, whose *)
(* compile_runnable (crates/cli/src/main.rs) adds a driver that calls main *)
(* and halts, or by a library client from the program's own entry.  Of the *)
(* mentat virtual machine, which is external, only the flow of control is  *)
(* modelled: the current block and the stack of return addresses.          *)
(* Registers and memory are the subject of module Machine.                 *)
(***************************************************************************)
EXTENDS CompileModule, CallCheck, Ir

CONSTANT MaxDepth   \* bound: calls in progress

\* What lower_function makes of a function's control flow: a pending block up
\* to each call of a block, in order, and then the one its terminator ends.  A
\* Jz falls through to the thunk of the then edge.
FollowsFunction(f) ==
  /\ DOMAIN f.local = DOMAIN f.term
  /\ \A b \in DOMAIN f.local : /\ f.code[f.local[b] + 1].at = <<b, 0>>
                               /\ Len(f.inBlock[b]) \in Nat
  /\ \A k \in DOMAIN f.code :
       LET t == f.code[k]
           Behind(at) == k + 1 \in DOMAIN f.code /\ f.code[k + 1].at = at
       IN  \E b \in DOMAIN f.term : \E n \in 0 .. Len(f.inBlock[b]) :
             /\ t.at = <<b, n>>
             /\ t.op = "call" <=> n < Len(f.inBlock[b])
             /\ t.op = "call" => /\ f.inBlock[b][n + 1] \in DOMAIN f.calls
                                /\ t.callee = f.calls[f.inBlock[b][n + 1]].callee
                                /\ Behind(<<b, n + 1>>)
             /\ t.op \in {"jmp", "jz"} => t.to \in Successors(f.term[b])
             /\ t.op = "jz" => Behind(<<b, n>>)
             /\ t.op = "ret" => f.term[b].op = "return"

ASSUME LoweringAssumption == \A m \in Modules : \A i \in DOMAIN m : FollowsFunction(m[i])

VARIABLES
  client,   \* "cli" or "library"
  stage,    \* "validate", "main", "compile", "run", "returned" or an error
  pc,       \* the block the machine is at
  returns   \* the machine's return stack, innermost first

runVars == <<client, stage, pc, returns>>
programVars == <<compileVars, runVars>>

At(n) == blocks[n + 1]

\* Program::validate of mentat: every target is a block, and control does not
\* fall off the end.
ProgramValid(bs) ==
  \A k \in DOMAIN bs :
    /\ bs[k].op \in {"jmp", "jz", "call"} => bs[k].to < Len(bs)
    /\ bs[k].op \in {"jz", "call"} => k < Len(bs)

\* The driver block, which sets STACK_PTR itself, and the halt behind it.
Driver(target) ==
  <<[owner |-> "driver", op |-> "call", at |-> <<>>, to |-> target],
    [owner |-> "driver", op |-> "halt", at |-> <<>>, to |-> 0]>>

-----------------------------------------------------------------------------
RunInit ==
  /\ CompileInit
  /\ client \in {"cli", "library"}
  /\ stage = IF client = "cli" THEN "validate" ELSE "compile"
  /\ pc = 0 /\ returns = <<>>

\* Mutant of ParseAndValidate: the validator is not asked.
ParseOnly ==
  /\ stage = "validate"
  /\ stage' = "main"
  /\ UNCHANGED <<compileVars, client, pc, returns>>

\* The command line compiles nothing that validate_module refuses.
ParseAndValidate ==
  /\ stage = "validate"
  /\ stage' = IF ModuleCallErrors(module) = {} THEN "main" ELSE "InvalidModule"
  /\ UNCHANGED <<compileVars, client, pc, returns>>

\* Then it wants a main without parameters.
CheckMain ==
  /\ stage = "main"
  /\ stage' = IF Named(module, "main") # {} /\ FunctionNamed(module, "main").params = <<>>
              THEN "compile" ELSE "NoMain"
  /\ UNCHANGED <<compileVars, client, pc, returns>>

Compile ==
  /\ stage = "compile"
  /\ CompileStep
  /\ UNCHANGED runVars

Compiled == stage = "compile" /\ phase = "compiled"

InvalidProgram ==
  /\ Compiled
  /\ ~ProgramValid(blocks)
  /\ stage' = "InvalidProgram"
  /\ UNCHANGED <<compileVars, client, pc, returns>>

StartLibrary ==
  /\ Compiled /\ client = "library"
  /\ ProgramValid(blocks)
  /\ stage' = "run"
  /\ UNCHANGED <<compileVars, client, pc, returns>>

\* Mutant of StartDriver: the run begins with the program's block 0.
StartDriverAtInit ==
  /\ Compiled /\ client = "cli"
  /\ ProgramValid(blocks)
  /\ blocks' = blocks \o Driver(functionEntry["main"])
  /\ pc' = 0
  /\ stage' = IF ProgramValid(blocks') THEN "run" ELSE "InvalidProgram"
  /\ UNCHANGED <<module, phase, turn, reserved, regions, owned, functionEntry,
                 localIndices, client, returns>>

\* The driver goes behind the module's blocks, and the whole is validated
\* once more.
StartDriver ==
  /\ Compiled /\ client = "cli"
  /\ ProgramValid(blocks)
  /\ LET wrapped == blocks \o Driver(functionEntry["main"])
     IN  /\ blocks' = wrapped
         /\ stage' = IF ProgramValid(wrapped) THEN "run" ELSE "InvalidProgram"
  /\ pc' = Len(blocks)
  /\ UNCHANGED <<module, phase, turn, reserved, regions, owned, functionEntry,
                 localIndices, client, returns>>

AtOp(op) == stage = "run" /\ At(pc).op = op
Continue(n) == pc' = n /\ UNCHANGED <<compileVars, client, stage>>

Jmp == AtOp("jmp") /\ Continue(At(pc).to) /\ UNCHANGED returns
Jz  == AtOp("jz") /\ Continue(At(pc).to) /\ UNCHANGED returns
Fall == AtOp("jz") /\ Continue(pc + 1) /\ UNCHANGED returns

Call ==
  /\ AtOp("call")
  /\ Len(returns) < MaxDepth
  /\ returns' = <<pc + 1>> \o returns
  /\ Continue(At(pc).to)

Ret ==
  /\ AtOp("ret") /\ returns # <<>>
  /\ returns' = Tail(returns)
  /\ Continue(returns[1])

\* The machine stops: at the driver's halt, or at a return from the function
\* a library client's run began with.
Halt ==
  /\ \/ AtOp("halt")
     \/ AtOp("ret") /\ returns = <<>>
  /\ stage' = "returned"
  /\ UNCHANGED <<compileVars, client, pc, returns>>

Over ==
  /\ \/ stage \in {"InvalidModule", "NoMain", "InvalidProgram", "returned"}
     \/ phase \in CompileErrors
     \/ AtOp("call") /\ Len(returns) = MaxDepth
  /\ UNCHANGED programVars

RunNext ==
  \/ ParseAndValidate \/ CheckMain \/ Compile \/ InvalidProgram \/ StartLibrary \/ StartDriver
  \/ Jmp \/ Jz \/ Fall \/ Call \/ Ret \/ Halt \/ Over
RunSpec == RunInit /\ [][RunNext]_programVars

-----------------------------------------------------------------------------
\* The place in the module that block n of the program stands for, and the
\* activations the machine's state stands for: its stack, innermost first, but
\* for an address at the bottom in a block that is no function's.
Place(n) == [of |-> At(n).owner, block |-> At(n).at[1], made |-> At(n).at[2]]
Stack(k) == IF k = 1 THEN pc ELSE returns[k - 1]
Depth == IF At(Stack(Len(returns) + 1)).at = <<>> THEN Len(returns) ELSE Len(returns) + 1
Activations == IF stage = "run" THEN [k \in 1 .. Depth |-> Place(Stack(k))] ELSE <<>>
FlowStage ==
  CASE stage = "returned" -> "after"
    [] stage = "run" /\ Depth > 0 -> "during"
    [] stage = "run" /\ Depth = 0 /\ AtOp("halt") -> "after"
    [] OTHER -> "before"

Flow == INSTANCE CallFlow WITH
  root   <- IF client = "cli" \/ module = <<>> THEN "main" ELSE module[1].name,
  frames <- Activations,
  stage  <- FlowStage

\* The linked program does what its functions do: every jump leads to the
\* block meant in the same function, every call into its callee and every
\* return behind the call it belongs to, from the function the client chose.
ImplementsCallFlow == Flow!FlowSpec

\* What the command line reports as an "internal error" never happens: what it
\* makes of a module with a main is a program mentat accepts, with the driver
\* and without.  Nor does an unknown callee, which "should have been caught by
\* ir::validate_module already".
NoInternalError ==
  client = "cli" => stage # "InvalidProgram" /\ phase # "UnknownCallee"
=============================================================================
