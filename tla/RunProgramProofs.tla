-------------------------- MODULE RunProgramProofs --------------------------
(***************************************************************************)
(* The linked program implements the flow of control of its functions, for *)
(* every module and layout, and the command line meets no internal error.  *)
(* What compile_module establishes (module CompileModuleProofs) is turned  *)
(* into a description of the finished array of blocks; from there on every *)
(* address the machine holds is that of a pending block of some function,  *)
(* but for one at the bottom of its stack that belongs to the client.      *)
(***************************************************************************)
EXTENDS RunProgram, CompileModuleProofs

\* The index in the finished program of block k of the code of function i.
Address(i, k) == functionEntry[module[i].name] + k - 1
InCode(n) == \E i \in DOMAIN module : \E k \in DOMAIN module[i].code : n = Address(i, k)

-----------------------------------------------------------------------------
(* The finished program.                                                   *)

\* Block n is block k of the code of function i, its target an address.
IsCode(n, i, k) ==
  LET f == module[i]
      t == module[i].code[k]
  IN  /\ At(n).owner = f.name /\ At(n).op = t.op /\ At(n).at = t.at
      /\ t.op \in {"jmp", "jz"} => At(n).to = Address(i, f.local[t.to] + 1)
      /\ t.op = "call" => \E j \in DOMAIN module : /\ module[j].name = t.callee
                                                   /\ At(n).to = Address(j, 1)

CodeLinked ==
  \A i \in DOMAIN module :
    /\ functionEntry[module[i].name] \in Nat
    /\ \A k \in DOMAIN module[i].code :
         Address(i, k) \in 1 .. Len(blocks) - 1 /\ IsCode(Address(i, k), i, k)

\* The blocks that are no function's: the driver and the halt behind it, or
\* the block in front.
DriverAt == Len(blocks) - 2
ClientLinked ==
  IF client = "cli"
  THEN /\ DriverAt \in Nat
       /\ At(DriverAt).op = "call" /\ At(DriverAt).at = <<>>
       /\ \E i \in DOMAIN module : module[i].name = "main" /\ At(DriverAt).to = Address(i, 1)
       /\ At(DriverAt + 1).op = "halt" /\ At(DriverAt + 1).at = <<>>
  ELSE /\ module # <<>>
       /\ At(0).op = "jmp" /\ At(0).at = <<>> /\ At(0).to = Address(1, 1)

-----------------------------------------------------------------------------
(* The parts of the invariant.                                             *)

\* Where the machine can be, and where it can return to.
OnStack ==
  /\ pc \in Nat /\ returns \in Seq(Nat)
  /\ \/ client = "library" /\ pc = 0 /\ returns = <<>>
     \/ client = "library" /\ \A k \in 1 .. Len(returns) + 1 : InCode(Stack(k))
     \/ client = "cli" /\ pc = DriverAt /\ returns = <<>>
     \/ /\ client = "cli" /\ Stack(Len(returns) + 1) = DriverAt + 1
        /\ \A k \in 1 .. Len(returns) : InCode(Stack(k))

Building == stage \in {"validate", "main", "compile"}

RInv ==
  /\ module \in Modules /\ client \in {"cli", "library"}
  /\ Building => IInv /\ pc = 0 /\ returns = <<>>
  /\ client = "library" => stage \notin {"validate", "main"}
  /\ client = "cli" /\ stage \in {"main", "compile"} => ModuleCallErrors(module) = {}
  /\ client = "cli" /\ stage = "compile" => Named(module, "main") # {}
  /\ stage = "run" => CodeLinked /\ ClientLinked /\ OnStack
  /\ NoInternalError

-----------------------------------------------------------------------------
(* Facts about the module.                                                 *)

\* What lower_function did for block k of the code of function i.
CodeFollows(i, k) ==
  LET f == module[i]
      t == module[i].code[k]
  IN  \E b \in DOMAIN f.term : \E n \in 0 .. Len(f.inBlock[b]) :
        /\ t.at = <<b, n>>
        /\ t.op = "call" <=> n < Len(f.inBlock[b])
        /\ t.op = "call" => /\ f.inBlock[b][n + 1] \in DOMAIN f.calls
                           /\ t.callee = f.calls[f.inBlock[b][n + 1]].callee
                           /\ k + 1 \in DOMAIN f.code /\ f.code[k + 1].at = <<b, n + 1>>
        /\ t.op \in {"jmp", "jz"} => t.to \in Successors(f.term[b])
        /\ t.op = "jz" => k + 1 \in DOMAIN f.code /\ f.code[k + 1].at = <<b, n>>
        /\ t.op = "ret" => f.term[b].op = "return"

LEMMA CodeFacts ==
  ASSUME module \in Modules, NEW i \in DOMAIN module, NEW k \in DOMAIN module[i].code
  PROVE  CodeFollows(i, k)
<1>1. FollowsFunction(module[i])
  BY LoweringAssumption
<1> QED
  BY <1>1 DEF FollowsFunction, CodeFollows

\* Functions are found by their names.
LEMMA NamedFunction ==
  ASSUME module \in Modules, NEW i \in DOMAIN module
  PROVE  Named(module, module[i].name) = {i} /\ FunctionNamed(module, module[i].name) = module[i]
<1>1. \A j \in DOMAIN module : module[j].name = module[i].name => j = i
  BY ModuleFacts
<1>2. DOMAIN module = 1 .. Len(module) /\ Len(module) \in Nat
  BY ModuleFacts
<1>3. \A j \in 1 .. i - 1 : module[j].name # module[i].name
  BY <1>1, <1>2
<1>4. Named(module, module[i].name) = {i}
  BY <1>1, <1>3 DEF Named
<1> QED
  BY <1>4 DEF FunctionNamed

\* A module validate_module accepts calls only functions it has.
LEMMA ValidCallee ==
  ASSUME module \in Modules, ModuleCallErrors(module) = {},
         NEW i \in DOMAIN module, NEW k \in DOMAIN module[i].code,
         module[i].code[k].op = "call"
  PROVE  \E j \in DOMAIN module : module[j].name = module[i].code[k].callee
<1>1. PICK c \in DOMAIN module[i].calls : module[i].code[k].callee = module[i].calls[c].callee
  BY CodeFacts DEF CodeFollows
<1>2. CallErrors(module, module[i].calls[c]) = {}
  BY DEF ModuleCallErrors
<1>3. Named(module, module[i].calls[c].callee) # {}
  BY <1>2 DEF CallErrors
<1> QED
  BY <1>1, <1>3 DEF Named

-----------------------------------------------------------------------------
(* The finished program, from the invariant of compile_module.             *)

LEMMA AddressFacts ==
  ASSUME IInv, phase = "compiled", NEW i \in DOMAIN module
  PROVE  /\ functionEntry[module[i].name] \in Nat \ {0}
         /\ functionEntry[module[i].name] - 1 + Len(module[i].code) <= Len(owned)
         /\ localIndices[module[i].name] = module[i].local
         /\ \A k \in DOMAIN module[i].code :
              /\ Address(i, k) \in 1 .. Len(owned)
              /\ owned[Address(i, k)] = [owner |-> module[i].name, term |-> module[i].code[k]]
<1>1. Placed(i)
  <2>1. i \in DOMAIN regions
    <3>1. Len(regions) = Len(module) /\ DOMAIN module = 1 .. Len(module)
      BY ModuleFacts DEF IInv, TypesHold, Progress
    <3>2. DOMAIN regions = 1 .. Len(regions)
      BY LenProperties DEF IInv, TypesHold, CompileTypeOK
    <3> QED
      BY <3>1, <3>2
  <2> QED
    BY <2>1 DEF IInv, Linked
<1>2. /\ functionEntry[module[i].name] \in Nat \ {0}
      /\ functionEntry[module[i].name] - 1 + Len(module[i].code) <= Len(owned)
      /\ localIndices[module[i].name] = module[i].local
      /\ \A k \in DOMAIN module[i].code :
           owned[functionEntry[module[i].name] - 1 + k]
             = [owner |-> module[i].name, term |-> module[i].code[k]]
  BY <1>1 DEF Placed, Base
<1>3. Len(module[i].code) \in Nat /\ DOMAIN module[i].code = 1 .. Len(module[i].code)
  BY FunctionFacts DEF IInv, TypesHold
<1>4. Len(owned) \in Nat
  BY LenProperties DEF IInv, TypesHold
<1>5. \A k \in DOMAIN module[i].code :
        /\ Address(i, k) \in 1 .. Len(owned)
        /\ Address(i, k) = functionEntry[module[i].name] - 1 + k
  <2> TAKE k \in DOMAIN module[i].code
  <2>1. k \in 1 .. Len(module[i].code)
    BY <1>3
  <2>2. Within(functionEntry[module[i].name], Len(module[i].code), Len(owned))
    BY <1>2, <1>3, <1>4, Zenon DEF Within
  <2> DEFINE e == functionEntry[module[i].name]
  <2>3. Address(i, k) = e + k - 1
    BY DEF Address
  <2> HIDE DEF Address, e
  <2>4. Within(e, Len(module[i].code), Len(owned))
    BY <2>2 DEF e
  <2>5. e + k - 1 \in 1 .. Len(owned) /\ e + k - 1 = e - 1 + k
    BY <2>1, <2>4, Shift
  <2> QED
    BY <2>3, <2>5 DEF e
<1> QED
  BY <1>2, <1>5

LEMMA ProgramLinked ==
  ASSUME IInv, phase = "compiled"
  PROVE  /\ CodeLinked
         /\ Len(blocks) \in Nat \ {0} /\ DOMAIN blocks = 1 .. Len(blocks)
         /\ \A n \in 1 .. Len(blocks) - 1 : InCode(n)
         /\ At(0).op = "jmp" /\ At(0).at = <<>>
         /\ module # <<>> => 1 \in DOMAIN module /\ At(0).to = Address(1, 1)
<1>1. module \in Modules
  BY DEF IInv, TypesHold
<1>2. /\ Len(owned) \in Nat /\ DOMAIN owned = 1 .. Len(owned)
      /\ Len(blocks) = Len(owned) + 1 /\ DOMAIN blocks = 1 .. Len(blocks)
  BY LenProperties DEF IInv, TypesHold, Progress
<1>3. ASSUME NEW i \in DOMAIN module, NEW k \in DOMAIN module[i].code
      PROVE  Address(i, k) \in 1 .. Len(blocks) - 1 /\ IsCode(Address(i, k), i, k)
  <2> DEFINE f == module[i]
             t == module[i].code[k]
             n == Address(i, k)
  <2>1. n \in 1 .. Len(owned) /\ owned[n] = [owner |-> f.name, term |-> t]
    BY AddressFacts
  <2>2. Resolves(At(n), owned[n])
    BY <1>2, <2>1 DEF IInv, Resolved, At
  <2>3. At(n).owner = f.name /\ At(n).op = t.op /\ At(n).at = t.at
    BY <2>1, <2>2 DEF Resolves
  <2>4. ASSUME t.op \in {"jmp", "jz"}
        PROVE  At(n).to = Address(i, f.local[t.to] + 1)
    <3>1. At(n).to = functionEntry[f.name] + f.local[t.to]
      BY <2>1, <2>2, <2>4, AddressFacts DEF Resolves, Base
    <3>2. f.local[t.to] \in Nat /\ functionEntry[f.name] \in Nat
      BY <1>1, <2>4, FunctionFacts, AddressFacts
    <3> QED
      BY <3>1, <3>2 DEF Address
  <2>5. ASSUME t.op = "call"
        PROVE  \E j \in DOMAIN module : module[j].name = t.callee /\ At(n).to = Address(j, 1)
    <3>1. t.callee \in DOMAIN functionEntry /\ At(n).to = functionEntry[t.callee]
      BY <2>1, <2>2, <2>5 DEF Resolves, Base
    <3>2. PICK j \in DOMAIN regions : module[j].name = t.callee
      BY <3>1 DEF IInv, Linked
    <3>3. j \in DOMAIN module
      BY <1>1, ModuleFacts, LenProperties DEF IInv, TypesHold, CompileTypeOK, Progress
    <3>4. At(n).to = Address(j, 1)
      BY <3>1, <3>2, <3>3, AddressFacts DEF Address
    <3> QED
      BY <3>2, <3>3, <3>4
  <2> QED
    BY <1>2, <2>1, <2>3, <2>4, <2>5 DEF IsCode
<1>4. ASSUME NEW n \in 1 .. Len(blocks) - 1 PROVE InCode(n)
  <2>1. n \in DOMAIN owned
    BY <1>2
  <2>2. PICK i \in DOMAIN regions : InFunction(n, i)
    BY <2>1 DEF IInv, Linked
  <2>3. i \in DOMAIN module
    BY <1>1, ModuleFacts, LenProperties DEF IInv, TypesHold, CompileTypeOK, Progress
  <2>4. PICK k \in DOMAIN module[i].code : n = functionEntry[module[i].name] - 1 + k
    BY <2>2 DEF InFunction, Base
  <2>5. functionEntry[module[i].name] \in Nat /\ k \in Nat
    BY <1>1, <2>3, <2>4, AddressFacts, FunctionFacts
  <2>6. n = Address(i, k)
    BY <2>4, <2>5 DEF Address
  <2> QED
    BY <2>3, <2>6 DEF InCode
<1>5. At(0).op = "jmp" /\ At(0).at = <<>>
  BY DEF IInv, Resolved, At
<1>6. ASSUME module # <<>> PROVE 1 \in DOMAIN module /\ At(0).to = Address(1, 1)
  <2>1. 1 \in DOMAIN module
    BY <1>1, <1>6, ModulesAssumption
  <2>2. At(0).to = functionEntry[module[1].name]
    BY <1>6 DEF IInv, Resolved, At
  <2> QED
    BY <2>1, <2>2, AddressFacts DEF Address
<1>7. \A i \in DOMAIN module : functionEntry[module[i].name] \in Nat
  BY AddressFacts
<1> QED
  BY <1>2, <1>3, <1>4, <1>5, <1>6, <1>7 DEF CodeLinked

\* Every target is a block, and control does not fall off the end.
LEMMA ProgramIsValid ==
  ASSUME IInv, phase = "compiled", module # <<>>
  PROVE  ProgramValid(blocks)
<1>1. module \in Modules
  BY DEF IInv, TypesHold
<1>2. /\ CodeLinked
      /\ Len(blocks) \in Nat \ {0} /\ DOMAIN blocks = 1 .. Len(blocks)
      /\ \A n \in 1 .. Len(blocks) - 1 : InCode(n)
      /\ At(0).op = "jmp" /\ 1 \in DOMAIN module /\ At(0).to = Address(1, 1)
  BY ProgramLinked
<1>3. \A i \in DOMAIN module : Address(i, 1) \in 1 .. Len(blocks) - 1
  BY <1>1, <1>2, FunctionFacts DEF CodeLinked
<1> SUFFICES ASSUME NEW k \in DOMAIN blocks
             PROVE  /\ blocks[k].op \in {"jmp", "jz", "call"} => blocks[k].to < Len(blocks)
                    /\ blocks[k].op \in {"jz", "call"} => k < Len(blocks)
  BY DEF ProgramValid
<1>4. CASE k = 1
  BY <1>2, <1>3, <1>4 DEF At
<1>5. CASE k # 1
  <2> DEFINE n == k - 1
  <2>1. n \in 1 .. Len(blocks) - 1 /\ k = n + 1
    BY <1>2, <1>5
  <2>2. PICK i \in DOMAIN module : \E c \in DOMAIN module[i].code : n = Address(i, c)
    BY <1>2, <2>1 DEF InCode
  <2>3. PICK c \in DOMAIN module[i].code : n = Address(i, c)
    BY <2>2
  <2>4. IsCode(n, i, c) /\ blocks[k] = At(n)
    BY <1>2, <2>1, <2>3 DEF CodeLinked, At
  <2> HIDE DEF n
  <2>5. ASSUME blocks[k].op \in {"jmp", "jz"} PROVE blocks[k].to < Len(blocks)
    <3>1. module[i].code[c].to \in DOMAIN module[i].local
      BY <1>1, <2>4, <2>5, FunctionFacts DEF IsCode
    <3>2. module[i].local[module[i].code[c].to] + 1 \in DOMAIN module[i].code
      BY <1>1, <3>1, FunctionFacts
    <3>3. blocks[k].to = Address(i, module[i].local[module[i].code[c].to] + 1)
      BY <2>4, <2>5 DEF IsCode
    <3>4. blocks[k].to \in 1 .. Len(blocks) - 1
      BY <1>2, <3>2, <3>3 DEF CodeLinked
    <3> QED
      BY <1>2, <3>4
  <2>6. ASSUME blocks[k].op = "call" PROVE blocks[k].to < Len(blocks)
    BY <1>2, <1>3, <2>4, <2>6 DEF IsCode
  <2>7. ASSUME blocks[k].op \in {"jz", "call"} PROVE k < Len(blocks)
    <3>1. c + 1 \in DOMAIN module[i].code
      BY <1>1, <2>4, <2>7, CodeFacts DEF IsCode, CodeFollows
    <3>2. Address(i, c + 1) \in 1 .. Len(blocks) - 1
      BY <1>2, <3>1 DEF CodeLinked
    <3>3. Address(i, c + 1) = n + 1
      <4>1. functionEntry[module[i].name] \in Nat /\ c \in Nat
        BY <1>1, AddressFacts, FunctionFacts
      <4> QED
        BY <2>3, <4>1 DEF Address
    <3> QED
      BY <1>2, <2>1, <3>2, <3>3
  <2> QED
    BY <2>5, <2>6, <2>7
<1> QED
  BY <1>4, <1>5

-----------------------------------------------------------------------------
(* Starting the run.                                                       *)

\* The driver goes behind the module's blocks and calls main.
LEMMA DriverLinked ==
  ASSUME IInv, phase = "compiled", NEW m \in DOMAIN module, module[m].name = "main",
         client = "cli", client' = client,
         blocks' = blocks \o Driver(functionEntry["main"]),
         UNCHANGED <<module, functionEntry>>
  PROVE  CodeLinked' /\ ClientLinked' /\ ProgramValid(blocks') /\ Len(blocks) = DriverAt'
<1> DEFINE driver == Driver(functionEntry["main"])
           S == {blocks[n] : n \in DOMAIN blocks} \cup {driver[1], driver[2]}
<1>1. /\ module \in Modules /\ module # <<>>
      /\ blocks \in Seq(ProgramBlocks)
  BY ModuleFacts DEF IInv, TypesHold
<1>2. /\ CodeLinked
      /\ Len(blocks) \in Nat \ {0} /\ DOMAIN blocks = 1 .. Len(blocks)
      /\ \A n \in 1 .. Len(blocks) - 1 : InCode(n)
  BY ProgramLinked
<1>3. blocks \in Seq(S)
  <2>1. blocks \in [1 .. Len(blocks) -> S]
    BY <1>1, <1>2, LenProperties
  <2> HIDE DEF S
  <2> QED
    BY <1>2, <2>1
<1>4. driver \in Seq(S) /\ Len(driver) = 2
  BY DEF Driver
<1>5. /\ driver[1].op = "call" /\ driver[1].at = <<>> /\ driver[1].to = functionEntry["main"]
      /\ driver[2].op = "halt" /\ driver[2].at = <<>>
  BY DEF Driver
<1> HIDE DEF driver, S
<1>6. /\ Len(blocks') = Len(blocks) + 2 /\ DOMAIN blocks' = 1 .. Len(blocks) + 2
      /\ \A n \in 1 .. Len(blocks) : blocks'[n] = blocks[n]
      /\ blocks'[Len(blocks) + 1] = driver[1] /\ blocks'[Len(blocks) + 2] = driver[2]
  <2>1. blocks' = blocks \o driver
    BY DEF driver
  <2>2. /\ blocks' \in Seq(S) /\ Len(blocks') = Len(blocks) + 2
        /\ \A n \in 1 .. Len(blocks) + 2 :
             blocks'[n] = IF n <= Len(blocks) THEN blocks[n] ELSE driver[n - Len(blocks)]
    <3>1. /\ blocks \o driver \in Seq(S) /\ Len(blocks \o driver) = Len(blocks) + Len(driver)
          /\ \A n \in 1 .. Len(blocks) + Len(driver) :
               (blocks \o driver)[n] = IF n <= Len(blocks) THEN blocks[n] ELSE driver[n - Len(blocks)]
      BY <1>3, <1>4, ConcatProperties
    <3> QED
      BY <1>4, <2>1, <3>1
  <2>3. /\ Len(blocks) + 1 \in 1 .. Len(blocks) + 2 /\ ~(Len(blocks) + 1 <= Len(blocks))
        /\ Len(blocks) + 2 \in 1 .. Len(blocks) + 2 /\ ~(Len(blocks) + 2 <= Len(blocks))
        /\ (Len(blocks) + 1) - Len(blocks) = 1 /\ (Len(blocks) + 2) - Len(blocks) = 2
    BY <1>2
  <2>4. \A n \in 1 .. Len(blocks) : n <= Len(blocks) /\ n \in 1 .. Len(blocks) + 2
    BY <1>2
  <2> QED
    BY <2>2, <2>3, <2>4, LenProperties
<1>7. \A n \in 0 .. Len(blocks) - 1 : At(n)' = At(n)
  BY <1>2, <1>6 DEF At
<1>8. \A i, k : Address(i, k)' = Address(i, k)
  BY DEF Address
<1>9. CodeLinked'
  <2> SUFFICES ASSUME NEW i \in DOMAIN module, NEW k \in DOMAIN module[i].code
               PROVE  Address(i, k) \in 1 .. Len(blocks') - 1 /\ IsCode(Address(i, k), i, k)'
    BY <1>2, <1>8 DEF CodeLinked
  <2>1. Address(i, k) \in 1 .. Len(blocks) - 1 /\ IsCode(Address(i, k), i, k)
    BY <1>2 DEF CodeLinked
  <2>2. At(Address(i, k))' = At(Address(i, k))
    BY <1>2, <1>7, <1>8, <2>1
  <2>3. IsCode(Address(i, k), i, k)'
    BY <1>8, <2>1, <2>2 DEF IsCode
  <2> QED
    BY <1>2, <1>6, <2>1, <2>3
<1>10. DriverAt' = Len(blocks) /\ DriverAt' \in Nat
  BY <1>2, <1>6 DEF DriverAt
<1>11. At(DriverAt)' = driver[1] /\ At(DriverAt + 1)' = driver[2]
  BY <1>2, <1>6, <1>10 DEF At
<1>12. functionEntry["main"] = Address(m, 1)
  BY AddressFacts DEF Address
<1>13. ClientLinked'
  BY <1>5, <1>8, <1>10, <1>11, <1>12 DEF ClientLinked
<1>14. ProgramValid(blocks')
  <2> SUFFICES ASSUME NEW k \in DOMAIN blocks'
               PROVE  /\ blocks'[k].op \in {"jmp", "jz", "call"} => blocks'[k].to < Len(blocks')
                      /\ blocks'[k].op \in {"jz", "call"} => k < Len(blocks')
    BY DEF ProgramValid
  <2>1. CASE k \in 1 .. Len(blocks)
    <3>1. ProgramValid(blocks)
      BY <1>1, ProgramIsValid
    <3>2. /\ blocks[k].op \in {"jmp", "jz", "call"} => blocks[k].to < Len(blocks)
          /\ blocks[k].op \in {"jz", "call"} => k < Len(blocks)
      BY <1>2, <2>1, <3>1 DEF ProgramValid
    <3>3. blocks[k].op \in {"jmp", "jz", "call"} => blocks[k].to \in Nat
      <4>1. blocks[k] \in ProgramBlocks
        BY <1>1, <2>1, ElementOfSeq
      <4> QED
        BY <4>1 DEF ProgramBlocks
    <3> QED
      BY <1>2, <1>6, <2>1, <3>2, <3>3
  <2>2. CASE k = Len(blocks) + 1
    <3>1. Address(m, 1) \in 1 .. Len(blocks) - 1
      BY <1>1, <1>2, FunctionFacts DEF CodeLinked
    <3> QED
      BY <1>2, <1>5, <1>6, <1>12, <2>2, <3>1
  <2>3. CASE k = Len(blocks) + 2
    BY <1>5, <1>6, <2>3
  <2> QED
    BY <1>2, <1>6, <2>1, <2>2, <2>3
<1> QED
  BY <1>9, <1>10, <1>13, <1>14

-----------------------------------------------------------------------------
(* Building keeps the invariant.                                           *)

LEMMA RInvInit == RunInit => RInv
<1> SUFFICES ASSUME RunInit PROVE RInv
  OBVIOUS
<1>1. IInv /\ module \in Modules
  BY InitIInv DEF RunInit, CompileInit, IInv, TypesHold
<1>2. phase = "check"
  BY DEF RunInit, CompileInit
<1> QED
  BY <1>1, <1>2 DEF RunInit, RInv, NoInternalError, Building

LEMMA StaysBuilt ==
  ASSUME RInv, UNCHANGED compileVars
  PROVE  module' = module /\ phase' = phase /\ (Building => IInv')
<1>1. Building => IInv
  BY DEF RInv
<1>2. IInv => IInv'
  BY StepKeepsIInv
<1> QED
  BY <1>1, <1>2 DEF compileVars

LEMMA ParseAndValidateKeeps == RInv /\ ParseAndValidate => RInv'
<1> SUFFICES ASSUME RInv, ParseAndValidate PROVE RInv'
  OBVIOUS
<1>1. module' = module /\ phase' = phase /\ IInv' /\ client = "cli" /\ stage = "validate"
  BY StaysBuilt DEF ParseAndValidate, RInv, Building
<1>2. ModuleCallErrors(module)' = ModuleCallErrors(module)
  BY <1>1 DEF ModuleCallErrors, CallErrors, Named, FunctionNamed
<1> QED
  BY <1>1, <1>2 DEF ParseAndValidate, RInv, NoInternalError, Building

LEMMA CheckMainKeeps == RInv /\ CheckMain => RInv'
<1> SUFFICES ASSUME RInv, CheckMain PROVE RInv'
  OBVIOUS
<1>1. module' = module /\ phase' = phase /\ IInv' /\ client = "cli" /\ stage = "main"
  BY StaysBuilt DEF CheckMain, RInv, Building
<1>2. /\ ModuleCallErrors(module)' = ModuleCallErrors(module)
      /\ Named(module, "main")' = Named(module, "main")
  BY <1>1 DEF ModuleCallErrors, CallErrors, Named, FunctionNamed
<1> QED
  BY <1>1, <1>2 DEF CheckMain, RInv, NoInternalError, Building

\* lib.rs leaves unknown callees to the validator.
LEMMA CompileKeeps == RInv /\ Compile => RInv'
<1> SUFFICES ASSUME RInv, Compile PROVE RInv'
  OBVIOUS
<1>1. /\ stage = "compile" /\ UNCHANGED <<client, stage, pc, returns>> /\ CompileStep
      /\ IInv /\ pc = 0 /\ returns = <<>> /\ module \in Modules
  BY DEF Compile, RInv, runVars, Building
<1>2. IInv' /\ module' = module
  <2>1. IInv'
    BY <1>1, StepKeepsIInv
  <2>2. module' = module
    BY <1>1 DEF CompileStep, CheckLayout, LowerFunction, CannotLower, BeginResolving, ResolveJump,
              ResolveCall, ResolveReturn, UnknownCallee, PrependInit, AddBlock
  <2> QED
    BY <2>1, <2>2
<1>3. /\ ModuleCallErrors(module)' = ModuleCallErrors(module)
      /\ Named(module, "main")' = Named(module, "main")
  BY <1>2 DEF ModuleCallErrors, CallErrors, Named, FunctionNamed
<1>4. client = "cli" => phase' # "UnknownCallee"
  <2> SUFFICES ASSUME client = "cli", phase' = "UnknownCallee" PROVE FALSE
    OBVIOUS
  <2>1. phase # "UnknownCallee"
    BY DEF RInv, NoInternalError
  <2>2. UnknownCallee
    BY <1>1, <2>1 DEF CompileStep, CheckLayout, LowerFunction, CannotLower, BeginResolving,
       ResolveJump, ResolveCall, ResolveReturn, PrependInit, AddBlock
  <2>3. /\ phase = "resolve" /\ turn \in DOMAIN owned /\ owned[turn].term.op = "call"
        /\ owned[turn].term.callee \notin DOMAIN functionEntry
    BY <2>2 DEF UnknownCallee, AtPending
  <2>4. DOMAIN regions = DOMAIN module
    BY <1>1, <2>3, ModuleFacts, LenProperties DEF IInv, TypesHold, CompileTypeOK, Progress
  <2>5. PICK i \in DOMAIN module : OfFunction(owned[turn], i)
    <3>1. PICK i \in DOMAIN regions : InFunction(turn, i)
      BY <1>1, <2>3 DEF IInv, Linked
    <3>2. OfFunction(owned[turn], i)
      BY <3>1 DEF InFunction, OfFunction
    <3> QED
      BY <2>4, <3>1, <3>2
  <2>6. PICK k \in DOMAIN module[i].code : owned[turn].term = module[i].code[k]
    BY <2>5 DEF OfFunction
  <2>7. ModuleCallErrors(module) = {}
    BY <1>1 DEF RInv
  <2>8. \E j \in DOMAIN module : module[j].name = module[i].code[k].callee
    BY <1>1, <2>3, <2>6, <2>7, ValidCallee
  <2>9. module[i].code[k].callee \in DOMAIN functionEntry
    <3>1. DOMAIN functionEntry = {module[j].name : j \in DOMAIN module}
      BY <1>1, <2>4 DEF IInv, Linked
    <3> QED
      BY <2>8, <3>1
  <2> QED
    BY <2>3, <2>6, <2>9
<1> QED
  BY <1>1, <1>2, <1>3, <1>4 DEF RInv, NoInternalError, Building

\* The command line's module has a main, so that it is not empty.
LEMMA MainThere ==
  ASSUME RInv, Compiled, client = "cli"
  PROVE  \E m \in DOMAIN module : module[m].name = "main"
BY DEF RInv, Compiled, Named

LEMMA InvalidProgramKeeps == RInv /\ InvalidProgram => RInv'
<1> SUFFICES ASSUME RInv, InvalidProgram PROVE RInv'
  OBVIOUS
<1>1. module' = module /\ phase' = phase
  BY DEF InvalidProgram, compileVars
<1>2. IInv /\ phase = "compiled" /\ ~ProgramValid(blocks)
  BY DEF InvalidProgram, Compiled, RInv, Building
<1>3. client # "cli"
  <2> SUFFICES ASSUME client = "cli" PROVE FALSE
    OBVIOUS
  <2>1. PICK m \in DOMAIN module : module[m].name = "main"
    BY MainThere DEF InvalidProgram
  <2>2. module # <<>>
    BY <2>1
  <2> QED
    BY <1>2, <2>2, ProgramIsValid
<1> QED
  BY <1>1, <1>3 DEF InvalidProgram, RInv, NoInternalError, Building

LEMMA StartLibraryKeeps == RInv /\ StartLibrary => RInv'
<1> SUFFICES ASSUME RInv, StartLibrary PROVE RInv'
  OBVIOUS
<1>1. /\ IInv /\ phase = "compiled" /\ pc = 0 /\ returns = <<>> /\ client = "library"
      /\ ProgramValid(blocks) /\ stage' = "run" /\ UNCHANGED <<compileVars, client, pc, returns>>
  BY DEF StartLibrary, Compiled, RInv, Building
<1>2. UNCHANGED <<module, phase, functionEntry, blocks>>
  BY <1>1 DEF compileVars
<1>3. CodeLinked /\ At(0).op = "jmp" /\ At(0).at = <<>>
      /\ (module # <<>> => At(0).to = Address(1, 1))
  BY <1>1, ProgramLinked
<1>4. module # <<>>
  <2> SUFFICES ASSUME module = <<>> PROVE FALSE
    OBVIOUS
  <2>1. owned = <<>>
    <3>1. DOMAIN regions = DOMAIN module /\ Len(module) = 0 /\ DOMAIN module = {}
      <4>1. Len(module) \in Nat /\ DOMAIN module = 1 .. Len(module) /\ Len(regions) = Len(module)
        BY <1>1, ModuleFacts DEF IInv, TypesHold, Progress
      <4>2. DOMAIN regions = 1 .. Len(regions)
        BY <1>1, LenProperties DEF IInv, TypesHold, CompileTypeOK
      <4> QED
        BY <4>1, <4>2
    <3>2. DOMAIN owned = {}
      BY <1>1, <3>1 DEF IInv, Linked
    <3>3. owned \in Seq(Pendings)
      BY <1>1 DEF IInv, TypesHold
    <3> QED
      BY <3>2, <3>3, LenProperties, EmptySeq
  <2>2. Len(blocks) = 1 /\ DOMAIN blocks = {1}
    <3>1. Len(blocks) = 1
      BY <1>1, <2>1 DEF IInv, Progress
    <3> QED
      BY <1>1, <3>1, LenProperties DEF IInv, TypesHold
  <2>3. blocks[1].to < 1
    BY <1>1, <1>3, <2>2 DEF ProgramValid, At
  <2>4. blocks[1].to = 1
    BY <1>1 DEF IInv, Resolved
  <2> QED
    BY <2>3, <2>4
<1>5. CodeLinked' /\ ClientLinked'
  BY <1>1, <1>2, <1>3, <1>4 DEF CodeLinked, ClientLinked, IsCode, At, Address
<1>6. OnStack'
  BY <1>1 DEF OnStack
<1> QED
  BY <1>1, <1>2, <1>5, <1>6 DEF RInv, NoInternalError, Building

LEMMA StartDriverKeeps == RInv /\ StartDriver => RInv'
<1> SUFFICES ASSUME RInv, StartDriver PROVE RInv'
  OBVIOUS
<1>1. /\ IInv /\ phase = "compiled" /\ returns = <<>> /\ client = "cli"
      /\ blocks' = blocks \o Driver(functionEntry["main"])
      /\ stage' = IF ProgramValid(blocks') THEN "run" ELSE "InvalidProgram"
      /\ pc' = Len(blocks)
      /\ UNCHANGED <<module, phase, functionEntry, client, returns>>
  BY DEF StartDriver, Compiled, RInv, Building
<1>2. PICK m \in DOMAIN module : module[m].name = "main"
  BY <1>1, MainThere DEF StartDriver
<1>3. CodeLinked' /\ ClientLinked' /\ ProgramValid(blocks') /\ Len(blocks) = DriverAt'
  BY <1>1, <1>2, DriverLinked
<1>4. OnStack'
  BY <1>1, <1>3 DEF OnStack, ClientLinked
<1> QED
  BY <1>1, <1>3, <1>4 DEF RInv, NoInternalError, Building

-----------------------------------------------------------------------------
(* Running.                                                                *)

LEMMA Pushed ==
  ASSUME returns \in Seq(Nat), NEW a \in Nat, returns' = <<a>> \o returns
  PROVE  /\ returns' \in Seq(Nat) /\ Len(returns) \in Nat /\ Len(returns') = Len(returns) + 1
         /\ Stack(1)' = pc' /\ Stack(2)' = a
         /\ \A k \in 2 .. Len(returns) + 1 : Stack(k + 1)' = Stack(k)
<1>1. <<a>> \in Seq(Nat) /\ Len(<<a>>) = 1 /\ <<a>>[1] = a /\ Len(returns) \in Nat
  BY LenProperties
<1>2. /\ <<a>> \o returns \in Seq(Nat)
      /\ Len(<<a>> \o returns) = 1 + Len(returns)
      /\ \A n \in 1 .. 1 + Len(returns) :
           (<<a>> \o returns)[n] = IF n <= 1 THEN <<a>>[n] ELSE returns[n - 1]
  BY <1>1, ConcatProperties
<1>3. returns'[1] = a /\ \A n \in 1 .. Len(returns) : returns'[n + 1] = returns[n]
  <2>1. \A n \in 1 .. Len(returns) : n + 1 \in 1 .. 1 + Len(returns) /\ ~(n + 1 <= 1)
                                     /\ (n + 1) - 1 = n
    BY <1>1
  <2>2. 1 \in 1 .. 1 + Len(returns)
    BY <1>1
  <2> QED
    BY <1>1, <1>2, <2>1, <2>2
<1>4. ASSUME NEW k \in 2 .. Len(returns) + 1 PROVE Stack(k + 1)' = Stack(k)
  <2>1. /\ k - 1 \in 1 .. Len(returns) /\ (k - 1) + 1 = k /\ (k + 1) - 1 = k
        /\ k # 1 /\ k + 1 # 1
    BY <1>1
  <2>2. returns'[k] = returns[k - 1]
    BY <1>3, <2>1
  <2> QED
    BY <2>1, <2>2 DEF Stack
<1>5. Stack(1)' = pc' /\ Stack(2)' = a
  BY <1>3 DEF Stack
<1> QED
  BY <1>1, <1>2, <1>4, <1>5

LEMMA Popped ==
  ASSUME returns \in Seq(Nat), returns # <<>>, returns' = Tail(returns), pc' = returns[1]
  PROVE  /\ returns' \in Seq(Nat) /\ Len(returns) \in Nat \ {0} /\ pc' \in Nat
         /\ Len(returns') = Len(returns) - 1
         /\ \A k \in 1 .. Len(returns) : Stack(k)' = Stack(k + 1)
<1>1. /\ Tail(returns) \in Seq(Nat) /\ Len(Tail(returns)) = Len(returns) - 1
      /\ \A n \in 1 .. Len(Tail(returns)) : Tail(returns)[n] = returns[n + 1]
  BY HeadTailProperties
<1>2. Len(returns) \in Nat \ {0}
  BY LenProperties, EmptySeq
<1>3. returns[1] \in Nat
  BY <1>2, ElementOfSeq
<1>4. ASSUME NEW k \in 1 .. Len(returns) PROVE Stack(k)' = Stack(k + 1)
  <2>1. CASE k = 1
    BY <2>1 DEF Stack
  <2>2. CASE k # 1
    <3>1. k - 1 \in 1 .. Len(returns) - 1 /\ (k - 1) + 1 = k /\ (k + 1) - 1 = k /\ k + 1 # 1
      BY <1>2, <2>2
    <3>2. returns'[k - 1] = returns[k]
      BY <1>1, <3>1
    <3> QED
      BY <2>2, <3>1, <3>2 DEF Stack
  <2> QED
    BY <2>1, <2>2
<1> QED
  BY <1>1, <1>2, <1>3, <1>4

\* Where the machine can be: in the block in front, before the run; in a
\* function's code; in the driver; at its halt.
InFront  == client = "library" /\ pc = 0 /\ returns = <<>>
InDriver == client = "cli" /\ pc = DriverAt /\ returns = <<>>
AtHalt   == client = "cli" /\ pc = DriverAt + 1 /\ returns = <<>>
InFunctions ==
  /\ client = "library" => \A k \in 1 .. Len(returns) + 1 : InCode(Stack(k))
  /\ client = "cli" => /\ returns # <<>> /\ Stack(Len(returns) + 1) = DriverAt + 1
                       /\ \A k \in 1 .. Len(returns) : InCode(Stack(k))

LEMMA Where ==
  ASSUME RInv, stage = "run"
  PROVE  /\ module \in Modules /\ CodeLinked /\ ClientLinked /\ client \in {"cli", "library"}
         /\ pc \in Nat /\ returns \in Seq(Nat) /\ Len(returns) \in Nat
         /\ InFront \/ InDriver \/ AtHalt \/ InFunctions
         /\ InFunctions => InCode(pc)
<1>1. /\ module \in Modules /\ CodeLinked /\ ClientLinked /\ client \in {"cli", "library"}
      /\ OnStack /\ pc \in Nat /\ returns \in Seq(Nat) /\ Len(returns) \in Nat
  BY LenProperties DEF RInv, OnStack
<1>2. returns # <<>> => Len(returns) # 0
  BY <1>1, EmptySeq
<1>3. Stack(1) = pc
  BY DEF Stack
<1>4. InFront \/ InDriver \/ AtHalt \/ InFunctions
  <2>1. CASE client = "library"
    BY <1>1, <2>1 DEF OnStack, InFront, InFunctions
  <2>2. CASE client = "cli" /\ pc = DriverAt /\ returns = <<>>
    BY <2>2 DEF InDriver
  <2>3. CASE /\ client = "cli" /\ Stack(Len(returns) + 1) = DriverAt + 1
             /\ \A k \in 1 .. Len(returns) : InCode(Stack(k))
    <3>1. returns = <<>> => Len(returns) + 1 = 1
      BY EmptySeq
    <3> QED
      BY <1>3, <2>3, <3>1 DEF AtHalt, InFunctions
  <2> QED
    BY <1>1, <2>1, <2>2, <2>3 DEF OnStack
<1>5. InFunctions => InCode(pc)
  <2> SUFFICES ASSUME InFunctions PROVE InCode(pc)
    OBVIOUS
  <2>1. 1 \in 1 .. Len(returns) + 1 /\ (returns # <<>> => 1 \in 1 .. Len(returns))
    BY <1>1, <1>2
  <2> QED
    BY <1>1, <1>3, <2>1 DEF InFunctions
<1> QED
  BY <1>1, <1>4, <1>5

\* A block of a function and what it leads to.
LEMMA CodeBlock ==
  ASSUME module \in Modules, CodeLinked, NEW i \in DOMAIN module, NEW k \in DOMAIN module[i].code
  PROVE  /\ Address(i, k) \in Nat /\ InCode(Address(i, k))
         /\ At(Address(i, k)).at # <<>> /\ At(Address(i, k)).op \in Ops
         /\ At(Address(i, k)).op = module[i].code[k].op
         /\ k + 1 \in DOMAIN module[i].code => Address(i, k) + 1 = Address(i, k + 1)
<1>1. /\ Address(i, k) \in 1 .. Len(blocks) - 1 /\ IsCode(Address(i, k), i, k)
      /\ functionEntry[module[i].name] \in Nat
  BY DEF CodeLinked
<1>2. k \in Nat /\ module[i].code[k].op \in Ops
  BY FunctionFacts
<1>3. module[i].code[k].at # <<>>
  <2>1. PICK b \in DOMAIN module[i].term : \E n \in 0 .. Len(module[i].inBlock[b]) :
               module[i].code[k].at = <<b, n>>
    BY CodeFacts DEF CodeFollows
  <2>2. PICK n \in 0 .. Len(module[i].inBlock[b]) : module[i].code[k].at = <<b, n>>
    BY <2>1
  <2>3. DOMAIN <<b, n>> = 1 .. 2 /\ DOMAIN <<>> = 1 .. 0
    OBVIOUS
  <2>4. 1 \in 1 .. 2 /\ 1 \notin 1 .. 0
    OBVIOUS
  <2> QED
    BY <2>2, <2>3, <2>4
<1>4. Address(i, k) + 1 = Address(i, k + 1)
  BY <1>1, <1>2 DEF Address
<1> QED
  BY <1>1, <1>2, <1>3, <1>4 DEF IsCode, InCode

LEMMA FirstBlock ==
  ASSUME module \in Modules, CodeLinked, NEW i \in DOMAIN module
  PROVE  /\ 1 \in DOMAIN module[i].code /\ InCode(Address(i, 1)) /\ Address(i, 1) \in Nat
         /\ At(Address(i, 1)).at = <<1, 0>> /\ At(Address(i, 1)).owner = module[i].name
<1>1. 1 \in DOMAIN module[i].code
  BY FunctionFacts
<1>2. FollowsFunction(module[i]) /\ IsLowered(module[i])
  BY LoweringAssumption, ModulesAssumption
<1>3. module[i].code[1].at = <<1, 0>>
  <2>1. 1 \in DOMAIN module[i].local /\ module[i].local[1] = 0
    BY <1>2 DEF IsLowered
  <2>2. module[i].code[module[i].local[1] + 1].at = <<1, 0>>
    BY <1>2, <2>1 DEF FollowsFunction
  <2> QED
    BY <2>1, <2>2
<1>4. IsCode(Address(i, 1), i, 1)
  BY <1>1 DEF CodeLinked
<1> QED
  BY <1>1, <1>3, <1>4, CodeBlock DEF IsCode

LEMMA JumpLeads ==
  ASSUME module \in Modules, CodeLinked, NEW i \in DOMAIN module, NEW k \in DOMAIN module[i].code,
         module[i].code[k].op \in {"jmp", "jz"}
  PROVE  \E c \in DOMAIN module[i].code :
           /\ At(Address(i, k)).to = Address(i, c)
           /\ module[i].code[c].at = <<module[i].code[k].to, 0>>
<1> DEFINE b == module[i].code[k].to
           c == module[i].local[b] + 1
<1>1. b \in DOMAIN module[i].local
  BY FunctionFacts
<1>2. c \in DOMAIN module[i].code
  BY <1>1, FunctionFacts
<1>3. FollowsFunction(module[i])
  BY LoweringAssumption
<1>4. module[i].code[c].at = <<b, 0>>
  BY <1>1, <1>3 DEF FollowsFunction
<1>5. At(Address(i, k)).to = Address(i, c)
  BY DEF CodeLinked, IsCode
<1> QED
  BY <1>2, <1>4, <1>5

LEMMA CallLeads ==
  ASSUME module \in Modules, CodeLinked, NEW i \in DOMAIN module, NEW k \in DOMAIN module[i].code,
         module[i].code[k].op = "call"
  PROVE  /\ k + 1 \in DOMAIN module[i].code
         /\ \E j \in DOMAIN module : /\ module[j].name = module[i].code[k].callee
                                    /\ At(Address(i, k)).to = Address(j, 1)
<1>1. IsCode(Address(i, k), i, k)
  BY DEF CodeLinked
<1>2. k + 1 \in DOMAIN module[i].code
  BY CodeFacts DEF CodeFollows
<1> QED
  BY <1>1, <1>2 DEF IsCode

LEMMA RunsOn ==
  ASSUME RInv, stage = "run", UNCHANGED <<compileVars, client, stage>>, OnStack'
  PROVE  RInv'
<1>1. UNCHANGED <<module, phase, functionEntry, blocks>>
  BY DEF compileVars
<1>2. CodeLinked' /\ ClientLinked'
  BY <1>1, Where DEF CodeLinked, ClientLinked, IsCode, At, Address, DriverAt
<1> QED
  BY <1>1, <1>2 DEF RInv, NoInternalError, Building

\* Within, into or back to the code of a function.
LEMMA StaysInFunctions ==
  ASSUME RInv, stage = "run", UNCHANGED <<compileVars, client, stage>>,
         pc' \in Nat, returns' \in Seq(Nat), InFunctions'
  PROVE  RInv'
<1>1. client' \in {"cli", "library"}
  BY Where
<1> QED
  BY <1>1, RunsOn DEF OnStack, InFunctions

LEMMA WithinKeeps ==
  ASSUME RInv, stage = "run", InFunctions, InCode(pc'), pc' \in Nat,
         UNCHANGED <<compileVars, client, stage, returns>>
  PROVE  InFunctions' /\ RInv'
<1>1. UNCHANGED <<module, functionEntry, blocks, returns, client>>
  BY DEF compileVars
<1>2. Len(returns) \in Nat /\ returns \in Seq(Nat) /\ (returns # <<>> => Len(returns) # 0)
  BY Where, EmptySeq
<1>3. DriverAt' = DriverAt
  BY <1>1 DEF DriverAt
<1>4. InCode(pc)' /\ \A n : InCode(n) => (\E i \in DOMAIN module' : \E k \in DOMAIN module'[i].code :
                                             n = Address(i, k)')
  BY <1>1 DEF InCode, Address
<1>5. Stack(1)' = pc' /\ \A k \in 2 .. Len(returns) + 1 : Stack(k)' = Stack(k)
  BY <1>1 DEF Stack
<1>6. \A k \in 1 .. Len(returns) + 1 : (k # 1 => InCode(Stack(k))) => InCode(Stack(k))'
  <2> SUFFICES ASSUME NEW k \in 1 .. Len(returns) + 1, k # 1 => InCode(Stack(k))
               PROVE  InCode(Stack(k))'
    OBVIOUS
  <2>1. CASE k = 1
    BY <1>4, <1>5, <2>1 DEF InCode
  <2>2. CASE k # 1
    <3>1. k \in 2 .. Len(returns) + 1
      BY <1>2, <2>2
    <3> QED
      BY <1>4, <1>5, <2>2, <3>1 DEF InCode
  <2> QED
    BY <2>1, <2>2
<1>7. InFunctions'
  <2>1. client = "library" => \A k \in 1 .. Len(returns') + 1 : InCode(Stack(k))'
    BY <1>1, <1>6 DEF InFunctions
  <2>2. ASSUME client = "cli"
        PROVE  /\ returns' # <<>> /\ Stack(Len(returns) + 1)' = (DriverAt + 1)'
               /\ \A k \in 1 .. Len(returns') : InCode(Stack(k))'
    <3>1. /\ returns # <<>> /\ Stack(Len(returns) + 1) = DriverAt + 1
          /\ \A k \in 1 .. Len(returns) : InCode(Stack(k))
      BY <2>2 DEF InFunctions
    <3>2. Len(returns) + 1 \in 2 .. Len(returns) + 1
      BY <1>2, <3>1
    <3>3. \A k \in 1 .. Len(returns) : k \in 1 .. Len(returns) + 1
      BY <1>2
    <3> QED
      BY <1>1, <1>3, <1>5, <1>6, <3>1, <3>2, <3>3
  <2> QED
    BY <1>1, <2>1, <2>2 DEF InFunctions
<1> QED
  BY <1>7, StaysInFunctions, Where

\* What the machine finds where no function's code is.
LEMMA ClientBlocks ==
  ASSUME RInv, stage = "run"
  PROVE  /\ InFront => /\ At(pc).op = "jmp" /\ At(pc).at = <<>>
                       /\ 1 \in DOMAIN module /\ module # <<>> /\ At(pc).to = Address(1, 1)
         /\ InDriver => /\ At(pc).op = "call" /\ At(pc).at = <<>>
                        /\ \E i \in DOMAIN module : /\ module[i].name = "main"
                                                   /\ At(pc).to = Address(i, 1)
         /\ client = "cli" => At(DriverAt + 1).op = "halt" /\ At(DriverAt + 1).at = <<>>
         /\ InFunctions => At(pc).op \in Ops
<1>1. module \in Modules /\ CodeLinked /\ ClientLinked /\ (InFunctions => InCode(pc))
  BY Where
<1>2. module # <<>> => 1 \in DOMAIN module
  BY <1>1, ModulesAssumption
<1>3. InFunctions => At(pc).op \in Ops
  BY <1>1, CodeBlock DEF InCode
<1>4. InFront => /\ At(pc).op = "jmp" /\ At(pc).at = <<>>
                 /\ 1 \in DOMAIN module /\ module # <<>> /\ At(pc).to = Address(1, 1)
  BY <1>1, <1>2 DEF ClientLinked, InFront
<1>5. InDriver => /\ At(pc).op = "call" /\ At(pc).at = <<>>
                  /\ \E i \in DOMAIN module : module[i].name = "main" /\ At(pc).to = Address(i, 1)
  BY <1>1 DEF ClientLinked, InDriver
<1>6. client = "cli" => At(DriverAt + 1).op = "halt" /\ At(DriverAt + 1).at = <<>>
  BY <1>1 DEF ClientLinked
<1> QED
  BY <1>3, <1>4, <1>5, <1>6

\* The block of function code the machine is at.
LEMMA PcInCode ==
  ASSUME RInv, stage = "run", InFunctions
  PROVE  \E i \in DOMAIN module : \E k \in DOMAIN module[i].code :
           /\ pc = Address(i, k) /\ IsCode(pc, i, k) /\ CodeFollows(i, k)
<1>1. InCode(pc) /\ CodeLinked /\ module \in Modules
  BY Where
<1> QED
  BY <1>1, CodeFacts DEF InCode, CodeLinked

LEMMA LeavesFront ==
  ASSUME RInv, Jmp, InFront
  PROVE  InFunctions' /\ RInv'
<1>1. /\ stage = "run" /\ pc' = At(pc).to
      /\ UNCHANGED <<compileVars, client, stage, returns>>
  BY DEF Jmp, AtOp, Continue
<1>2. 1 \in DOMAIN module /\ pc' = Address(1, 1) /\ module \in Modules /\ CodeLinked
  BY <1>1, ClientBlocks, Where
<1>3. InCode(pc') /\ pc' \in Nat
  BY <1>2, FirstBlock
<1>4. UNCHANGED <<module, functionEntry>>
  BY <1>1 DEF compileVars
<1>5. InFunctions'
  <2>1. InCode(Stack(1))'
    BY <1>3, <1>4 DEF InCode, Address, Stack
  <2>2. client' = "library" /\ Len(returns') = 0
    BY <1>1, EmptySeq DEF InFront
  <2> QED
    BY <2>1, <2>2 DEF InFunctions
<1> QED
  BY <1>1, <1>3, <1>5, StaysInFunctions, Where

\* A jump from the code of a function, and control that falls off its end.
LEMMA JumpKeeps ==
  ASSUME RInv, Jmp \/ Jz \/ Fall, ~InFront
  PROVE  InFunctions /\ InFunctions' /\ RInv'
<1>1. /\ stage = "run" /\ At(pc).op \in {"jmp", "jz"}
      /\ pc' = At(pc).to \/ (At(pc).op = "jz" /\ pc' = pc + 1)
      /\ UNCHANGED <<compileVars, client, stage, returns>>
  <2>1. CASE Jmp
    BY <2>1 DEF Jmp, AtOp, Continue
  <2>2. CASE Jz
    BY <2>2 DEF Jz, AtOp, Continue
  <2>3. CASE Fall
    BY <2>3 DEF Fall, AtOp, Continue
  <2> QED
    BY <2>1, <2>2, <2>3
<1>2. InFunctions
  BY <1>1, Where, ClientBlocks DEF AtHalt, InDriver
<1>3. module \in Modules /\ CodeLinked
  BY <1>1, Where
<1>4. PICK i \in DOMAIN module : \E k \in DOMAIN module[i].code :
             pc = Address(i, k) /\ IsCode(pc, i, k) /\ CodeFollows(i, k)
  BY <1>1, <1>2, PcInCode
<1>5. PICK k \in DOMAIN module[i].code :
             pc = Address(i, k) /\ IsCode(pc, i, k) /\ CodeFollows(i, k)
  BY <1>4
<1>6. InCode(pc') /\ pc' \in Nat
  <2>1. CASE pc' = At(pc).to
    BY <1>1, <1>3, <1>5, <2>1, JumpLeads, CodeBlock DEF IsCode
  <2>2. CASE At(pc).op = "jz" /\ pc' = pc + 1
    BY <1>3, <1>5, <2>2, CodeBlock DEF IsCode, CodeFollows
  <2> QED
    BY <1>1, <2>1, <2>2
<1> QED
  BY <1>1, <1>2, <1>6, WithinKeeps

\* A call, of main by the driver or of a function by another.
LEMMA CallKeeps ==
  ASSUME RInv, Call
  PROVE  (InDriver \/ InFunctions) /\ InFunctions' /\ RInv'
<1>1. /\ stage = "run" /\ At(pc).op = "call" /\ pc' = At(pc).to
      /\ returns' = <<pc + 1>> \o returns
      /\ UNCHANGED <<compileVars, client, stage>>
  BY DEF Call, AtOp, Continue
<1>2. InDriver \/ InFunctions
  BY <1>1, Where, ClientBlocks DEF AtHalt
<1>3. /\ module \in Modules /\ CodeLinked /\ pc \in Nat /\ returns \in Seq(Nat)
      /\ client \in {"cli", "library"}
  BY <1>1, Where
<1>4. UNCHANGED <<module, functionEntry, blocks, client>>
  BY <1>1 DEF compileVars
<1>5. \A n : InCode(n) => \E i \in DOMAIN module' : \E k \in DOMAIN module'[i].code :
                            n = Address(i, k)'
  BY <1>4 DEF InCode, Address
<1>6. DriverAt' = DriverAt
  BY <1>4 DEF DriverAt
<1>7. /\ returns' \in Seq(Nat) /\ Len(returns) \in Nat /\ Len(returns') = Len(returns) + 1
      /\ Stack(1)' = pc' /\ Stack(2)' = pc + 1
      /\ \A k \in 2 .. Len(returns) + 1 : Stack(k + 1)' = Stack(k)
  <2>1. PICK a \in Nat : a = pc + 1
    BY <1>3
  <2>2. returns' = <<a>> \o returns
    BY <1>1, <2>1
  <2>3. /\ returns' \in Seq(Nat) /\ Len(returns) \in Nat /\ Len(returns') = Len(returns) + 1
        /\ Stack(1)' = pc' /\ Stack(2)' = a
        /\ \A k \in 2 .. Len(returns) + 1 : Stack(k + 1)' = Stack(k)
    BY <1>3, <2>2, Pushed
  <2> QED
    BY <2>1, <2>3
<1>8. returns' # <<>>
  BY <1>7, EmptySeq
<1>9. CASE InDriver
  <2>1. PICK i \in DOMAIN module : pc' = Address(i, 1)
    BY <1>1, <1>9, ClientBlocks
  <2>2. InCode(pc') /\ pc' \in Nat
    BY <1>3, <2>1, FirstBlock
  <2>3. Len(returns) = 0 /\ pc = DriverAt /\ client = "cli"
    BY <1>9, EmptySeq DEF InDriver
  <2>4. InCode(Stack(1))'
    BY <1>5, <1>7, <2>2 DEF InCode
  <2>5. InFunctions'
    BY <1>4, <1>6, <1>7, <1>8, <2>3, <2>4 DEF InFunctions
  <2> QED
    BY <1>1, <1>2, <1>7, <2>2, <2>5, StaysInFunctions
<1>10. CASE InFunctions
  <2>1. PICK i \in DOMAIN module : \E k \in DOMAIN module[i].code :
               pc = Address(i, k) /\ IsCode(pc, i, k) /\ CodeFollows(i, k)
    BY <1>1, <1>10, PcInCode
  <2>2. PICK k \in DOMAIN module[i].code :
               pc = Address(i, k) /\ IsCode(pc, i, k) /\ CodeFollows(i, k)
    BY <2>1
  <2>3. module[i].code[k].op = "call"
    BY <1>1, <2>2 DEF IsCode
  <2>4. k + 1 \in DOMAIN module[i].code /\ \E j \in DOMAIN module : pc' = Address(j, 1)
    BY <1>1, <1>3, <2>2, <2>3, CallLeads
  <2>5. InCode(pc') /\ pc' \in Nat
    BY <1>3, <2>4, FirstBlock
  <2>6. InCode(pc + 1)
    BY <1>3, <2>2, <2>4, CodeBlock
  <2>7. ASSUME NEW n \in 3 .. Len(returns) + 2
        PROVE  n - 1 \in 2 .. Len(returns) + 1 /\ Stack(n)' = Stack(n - 1)
    <3>1. n - 1 \in 2 .. Len(returns) + 1 /\ (n - 1) + 1 = n
      BY <1>7
    <3> QED
      BY <1>7, <3>1
  <2>8. ASSUME NEW n \in 1 .. Len(returns) + 2, n \notin {1, 2} => InCode(Stack(n - 1))
        PROVE  InCode(Stack(n))'
    <3>1. CASE n = 1
      BY <1>5, <1>7, <2>5, <3>1 DEF InCode
    <3>2. CASE n = 2
      BY <1>5, <1>7, <2>6, <3>2 DEF InCode
    <3>3. CASE n \notin {1, 2}
      <4>1. n \in 3 .. Len(returns) + 2
        BY <1>7, <3>3
      <4> QED
        BY <1>5, <2>7, <2>8, <3>3, <4>1 DEF InCode
    <3> QED
      BY <3>1, <3>2, <3>3
  <2>9. client = "library" => \A n \in 1 .. Len(returns') + 1 : InCode(Stack(n))'
    <3> SUFFICES ASSUME client = "library", NEW n \in 1 .. Len(returns) + 2
                 PROVE  InCode(Stack(n))'
      BY <1>7
    <3>1. \A m \in 1 .. Len(returns) + 1 : InCode(Stack(m))
      BY <1>10 DEF InFunctions
    <3>2. n \notin {1, 2} => n - 1 \in 1 .. Len(returns) + 1
      BY <1>7
    <3> QED
      BY <2>8, <3>1, <3>2
  <2>10. ASSUME client = "cli"
         PROVE  /\ Stack(Len(returns) + 1)' = DriverAt + 1
                /\ \A n \in 1 .. Len(returns') : InCode(Stack(n))'
    <3>1. /\ returns # <<>> /\ Stack(Len(returns) + 1) = DriverAt + 1
          /\ \A n \in 1 .. Len(returns) : InCode(Stack(n))
      BY <1>10, <2>10 DEF InFunctions
    <3>2. Len(returns) # 0
      BY <1>3, <3>1, EmptySeq
    <3>3. Stack(Len(returns) + 1)' = DriverAt + 1
      <4>1. PICK n \in Nat : n = Len(returns) + 2
        BY <1>7
      <4>2. n \in 3 .. Len(returns) + 2 /\ n - 1 = Len(returns) + 1 /\ Len(returns') + 1 = n
        BY <1>7, <3>2, <4>1
      <4>3. Stack(n)' = DriverAt + 1
        BY <2>7, <3>1, <4>2
      <4> QED
        BY <4>2, <4>3
    <3>4. ASSUME NEW n \in 1 .. Len(returns') PROVE InCode(Stack(n))'
      <4>1. n \in 1 .. Len(returns) + 2 /\ (n \notin {1, 2} => n - 1 \in 1 .. Len(returns))
        BY <1>7
      <4> QED
        BY <2>8, <3>1, <4>1
    <3> QED
      BY <3>3, <3>4
  <2>11. InFunctions'
    <3>1. Len(returns') + 1 = Len(returns) + 2
      BY <1>7
    <3> QED
      BY <1>4, <1>6, <1>8, <2>9, <2>10, <3>1 DEF InFunctions
  <2> QED
    BY <1>1, <1>2, <1>7, <2>5, <2>11, StaysInFunctions
<1> QED
  BY <1>2, <1>9, <1>10

\* A return to a function or to the driver's halt.
LEMMA RetKeeps ==
  ASSUME RInv, Ret
  PROVE  InFunctions /\ (AtHalt' \/ InFunctions') /\ RInv'
<1>1. /\ stage = "run" /\ At(pc).op = "ret" /\ returns # <<>>
      /\ returns' = Tail(returns) /\ pc' = returns[1]
      /\ UNCHANGED <<compileVars, client, stage>>
  BY DEF Ret, AtOp, Continue
<1>2. InFunctions
  BY <1>1, Where DEF InFront, InDriver, AtHalt
<1>3. returns \in Seq(Nat) /\ client \in {"cli", "library"}
  BY <1>1, Where
<1>4. UNCHANGED <<module, functionEntry, blocks, client>>
  BY <1>1 DEF compileVars
<1>5. \A n : InCode(n) => \E i \in DOMAIN module' : \E k \in DOMAIN module'[i].code :
                            n = Address(i, k)'
  BY <1>4 DEF InCode, Address
<1>6. DriverAt' = DriverAt
  BY <1>4 DEF DriverAt
<1>7. /\ returns' \in Seq(Nat) /\ Len(returns) \in Nat \ {0} /\ pc' \in Nat
      /\ Len(returns') = Len(returns) - 1
      /\ \A k \in 1 .. Len(returns) : Stack(k)' = Stack(k + 1)
  BY <1>1, <1>3, Popped
<1>8. ASSUME NEW n \in 1 .. Len(returns), InCode(Stack(n + 1))
      PROVE  InCode(Stack(n))'
  BY <1>5, <1>7, <1>8 DEF InCode
<1>9. client = "library" => \A n \in 1 .. Len(returns') + 1 : InCode(Stack(n))'
  <2> SUFFICES ASSUME client = "library", NEW n \in 1 .. Len(returns)
               PROVE  InCode(Stack(n))'
    BY <1>7
  <2>1. n + 1 \in 1 .. Len(returns) + 1
    BY <1>7
  <2> QED
    BY <1>2, <1>8, <2>1 DEF InFunctions
<1>10. ASSUME client = "cli"
       PROVE  /\ Stack(Len(returns) + 1)' = DriverAt + 1
              /\ \A n \in 1 .. Len(returns') : InCode(Stack(n))'
  <2>1. /\ Stack(Len(returns) + 1) = DriverAt + 1
        /\ \A n \in 1 .. Len(returns) : InCode(Stack(n))
    BY <1>2, <1>10 DEF InFunctions
  <2>2. Stack(Len(returns) + 1)' = DriverAt + 1
    <3>1. PICK n \in Nat : n = Len(returns)
      BY <1>7
    <3>2. n \in 1 .. Len(returns) /\ Len(returns') + 1 = n
      BY <1>7, <3>1
    <3>3. Stack(n)' = DriverAt + 1
      BY <1>7, <2>1, <3>1, <3>2
    <3> QED
      BY <3>2, <3>3
  <2>3. ASSUME NEW n \in 1 .. Len(returns') PROVE InCode(Stack(n))'
    <3>1. n \in 1 .. Len(returns) /\ n + 1 \in 1 .. Len(returns)
      BY <1>7
    <3> QED
      BY <1>8, <2>1, <3>1
  <2> QED
    BY <1>7, <2>2, <2>3
<1>11. AtHalt' \/ InFunctions'
  <2>1. CASE client = "library"
    BY <1>4, <1>9, <2>1 DEF InFunctions
  <2>2. CASE client = "cli" /\ returns' # <<>>
    BY <1>4, <1>6, <1>10, <2>2 DEF InFunctions
  <2>3. CASE client = "cli" /\ returns' = <<>>
    <3>1. Len(returns') + 1 = 1
      BY <2>3, EmptySeq
    <3> QED
      BY <1>4, <1>6, <1>10, <2>3, <3>1 DEF AtHalt, Stack
  <2> QED
    BY <1>3, <2>1, <2>2, <2>3
<1>12. OnStack'
  <2>1. CASE InFunctions'
    BY <1>3, <1>4, <1>7, <2>1 DEF OnStack, InFunctions
  <2>2. CASE AtHalt'
    <3>1. client = "cli" /\ Len(returns') + 1 = 1
      BY <1>4, <2>2, EmptySeq DEF AtHalt
    <3> QED
      BY <1>4, <1>6, <1>7, <1>10, <3>1 DEF OnStack
  <2> QED
    BY <1>11, <2>1, <2>2
<1> QED
  BY <1>1, <1>2, <1>11, <1>12, RunsOn

LEMMA HaltKeeps == RInv /\ Halt => RInv'
<1> SUFFICES ASSUME RInv, Halt PROVE RInv'
  OBVIOUS
<1>1. stage' = "returned" /\ UNCHANGED <<module, phase, client>>
  BY DEF Halt, compileVars
<1> QED
  BY <1>1 DEF RInv, NoInternalError, Building

LEMMA StutterKeeps == RInv /\ UNCHANGED programVars => RInv'
<1> SUFFICES ASSUME RInv, UNCHANGED programVars PROVE RInv'
  OBVIOUS
<1>1. UNCHANGED <<compileVars, client, stage, pc, returns>>
  BY DEF programVars, runVars
<1>2. UNCHANGED <<module, phase, functionEntry, blocks>>
  BY <1>1 DEF compileVars
<1>3. Building => IInv'
  BY <1>1, StaysBuilt
<1>4. /\ ModuleCallErrors(module)' = ModuleCallErrors(module)
      /\ Named(module, "main")' = Named(module, "main")
  BY <1>2 DEF ModuleCallErrors, CallErrors, Named, FunctionNamed
<1>5. /\ CodeLinked' <=> CodeLinked
      /\ ClientLinked' <=> ClientLinked
      /\ OnStack' <=> OnStack
  BY <1>1, <1>2 DEF CodeLinked, ClientLinked, OnStack, InCode, IsCode, At, Address, DriverAt, Stack
<1> QED
  BY <1>1, <1>2, <1>3, <1>4, <1>5 DEF RInv, NoInternalError, Building

LEMMA RunStepKeeps == RInv /\ [RunNext]_programVars => RInv'
<1> SUFFICES ASSUME RInv, [RunNext]_programVars PROVE RInv'
  OBVIOUS
<1>1. CASE ParseAndValidate \/ CheckMain \/ Compile
  BY <1>1, ParseAndValidateKeeps, CheckMainKeeps, CompileKeeps
<1>2. CASE InvalidProgram \/ StartLibrary \/ StartDriver
  BY <1>2, InvalidProgramKeeps, StartLibraryKeeps, StartDriverKeeps
<1>3. CASE Jmp \/ Jz \/ Fall
  <2>1. CASE InFront
    <3>1. Jmp
      BY <1>3, <2>1, ClientBlocks DEF Jmp, Jz, Fall, AtOp
    <3> QED
      BY <2>1, <3>1, LeavesFront
  <2>2. CASE ~InFront
    BY <1>3, <2>2, JumpKeeps
  <2> QED
    BY <2>1, <2>2
<1>4. CASE Call \/ Ret \/ Halt
  BY <1>4, CallKeeps, RetKeeps, HaltKeeps
<1>5. CASE Over \/ UNCHANGED programVars
  BY <1>5, StutterKeeps DEF Over
<1> QED
  BY <1>1, <1>2, <1>3, <1>4, <1>5 DEF RunNext

THEOREM RunInductive == RunSpec => []RInv
<1> QED
  BY RInvInit, RunStepKeeps, PTL DEF RunSpec

\* What the command line would call an internal error does not happen, to any
\* module it is given: every program made of a valid module with a main is
\* one mentat accepts, and every callee is found.
THEOREM NoInternalErrorHappens == RunSpec => []NoInternalError
<1>1. RInv => NoInternalError
  BY DEF RInv
<1> QED
  BY <1>1, RunInductive, PTL

-----------------------------------------------------------------------------
(* The refinement: stacks of activations.                                  *)

LEMMA EmptyRow ==
  ASSUME NEW s, s = [k \in 1 .. 0 |-> s[k]]
  PROVE  s = <<>>
OBVIOUS

LEMMA TailOfRow ==
  ASSUME NEW n \in Nat \ {0}, NEW s, s = [k \in 1 .. n |-> s[k]]
  PROVE  Tail(s) = [k \in 1 .. n - 1 |-> s[k + 1]]
<1> DEFINE S == {s[k] : k \in 1 .. n}
<1>1. s \in [1 .. n -> S]
  OBVIOUS
<1> HIDE DEF S
<1>2. s \in Seq(S) /\ Len(s) = n
  BY <1>1
<1>3. s # <<>>
  BY <1>2, EmptySeq
<1>4. /\ Tail(s) \in Seq(S) /\ Len(Tail(s)) = n - 1
      /\ \A k \in 1 .. Len(Tail(s)) : Tail(s)[k] = s[k + 1]
  BY <1>2, <1>3, HeadTailProperties
<1>5. Tail(s) = [k \in 1 .. n - 1 |-> Tail(s)[k]]
  BY <1>4, LenProperties
<1> QED
  BY <1>4, <1>5

LEMMA PushOnRow ==
  ASSUME NEW n \in Nat, NEW s, s = [k \in 1 .. n |-> s[k]], NEW e
  PROVE  <<e>> \o s = [k \in 1 .. n + 1 |-> IF k = 1 THEN e ELSE s[k - 1]]
<1> DEFINE S == {s[k] : k \in 1 .. n} \cup {e}
<1>1. s \in [1 .. n -> S] /\ e \in S
  OBVIOUS
<1> HIDE DEF S
<1>2. s \in Seq(S) /\ Len(s) = n
  BY <1>1
<1>3. <<e>> \in Seq(S) /\ Len(<<e>>) = 1 /\ <<e>>[1] = e
  BY <1>1
<1>4. /\ <<e>> \o s \in Seq(S) /\ Len(<<e>> \o s) = 1 + n
      /\ \A k \in 1 .. 1 + n : (<<e>> \o s)[k] = IF k <= 1 THEN <<e>>[k] ELSE s[k - 1]
  BY <1>2, <1>3, ConcatProperties
<1>5. <<e>> \o s = [k \in 1 .. 1 + n |-> (<<e>> \o s)[k]]
  BY <1>4, LenProperties
<1>6. \A k \in 1 .. n + 1 : (<<e>> \o s)[k] = IF k = 1 THEN e ELSE s[k - 1]
  <2> SUFFICES ASSUME NEW k \in 1 .. n + 1
               PROVE  (<<e>> \o s)[k] = IF k = 1 THEN e ELSE s[k - 1]
    OBVIOUS
  <2>1. k \in 1 .. 1 + n /\ (k <= 1 <=> k = 1)
    OBVIOUS
  <2> QED
    BY <1>3, <1>4, <2>1
<1>7. 1 + n = n + 1
  OBVIOUS
<1> QED
  BY <1>5, <1>6, <1>7

LEMMA ReplaceTop ==
  ASSUME NEW n \in Nat \ {0}, NEW s, s = [k \in 1 .. n |-> s[k]], NEW e
  PROVE  <<e>> \o Tail(s) = [k \in 1 .. n |-> IF k = 1 THEN e ELSE s[k]]
<1> DEFINE t == Tail(s)
<1>1. t = [k \in 1 .. n - 1 |-> s[k + 1]]
  BY TailOfRow
<1>2. t = [k \in 1 .. n - 1 |-> t[k]] /\ \A k \in 1 .. n - 1 : t[k] = s[k + 1]
  BY <1>1
<1> HIDE DEF t
<1>3. n - 1 \in Nat /\ (n - 1) + 1 = n
  OBVIOUS
<1>4. <<e>> \o t = [k \in 1 .. n |-> IF k = 1 THEN e ELSE t[k - 1]]
  BY <1>2, <1>3, PushOnRow
<1>5. \A k \in 1 .. n : k # 1 => k - 1 \in 1 .. n - 1 /\ (k - 1) + 1 = k
  OBVIOUS
<1>6. \A k \in 1 .. n : k # 1 => t[k - 1] = s[k]
  BY <1>2, <1>5
<1> QED
  BY <1>4, <1>6 DEF t

LEMMA CallOverTop ==
  ASSUME NEW n \in Nat \ {0}, NEW s, s = [k \in 1 .. n |-> s[k]], NEW d, NEW e
  PROVE  <<d, e>> \o Tail(s)
           = [k \in 1 .. n + 1 |-> IF k = 1 THEN d ELSE IF k = 2 THEN e ELSE s[k - 1]]
<1> DEFINE t == Tail(s)
           S == {s[k] : k \in 1 .. n} \cup {d, e}
<1>1. t = [k \in 1 .. n - 1 |-> s[k + 1]]
  BY TailOfRow
<1>2. /\ t \in [1 .. n - 1 -> S] /\ d \in S /\ e \in S
      /\ \A k \in 1 .. n - 1 : t[k] = s[k + 1]
  <2>1. \A k \in 1 .. n - 1 : k + 1 \in 1 .. n
    OBVIOUS
  <2> HIDE DEF t
  <2> QED
    BY <1>1, <2>1
<1> HIDE DEF t, S
<1>3. n - 1 \in Nat
  OBVIOUS
<1>4. t \in Seq(S) /\ Len(t) = n - 1
  BY <1>2, <1>3, SequenceOf
<1>5. <<d, e>> \in Seq(S) /\ Len(<<d, e>>) = 2 /\ <<d, e>>[1] = d /\ <<d, e>>[2] = e
  BY <1>2
<1>6. /\ <<d, e>> \o t \in Seq(S) /\ Len(<<d, e>> \o t) = 2 + (n - 1)
      /\ \A k \in 1 .. 2 + (n - 1) :
           (<<d, e>> \o t)[k] = IF k <= 2 THEN <<d, e>>[k] ELSE t[k - 2]
  BY <1>4, <1>5, ConcatProperties
<1>7. <<d, e>> \o t = [k \in 1 .. 2 + (n - 1) |-> (<<d, e>> \o t)[k]]
  BY <1>6, LenProperties
<1>8. 2 + (n - 1) = n + 1
  OBVIOUS
<1>9. ASSUME NEW k \in 1 .. n + 1
      PROVE  (<<d, e>> \o t)[k] = IF k = 1 THEN d ELSE IF k = 2 THEN e ELSE s[k - 1]
  <2>1. k <= 2 <=> k = 1 \/ k = 2
    OBVIOUS
  <2>2. k # 1 /\ k # 2 => k - 2 \in 1 .. n - 1 /\ (k - 2) + 1 = k - 1
    OBVIOUS
  <2> QED
    BY <1>2, <1>5, <1>6, <1>8, <2>1, <2>2
<1> QED
  BY <1>7, <1>8, <1>9 DEF t

-----------------------------------------------------------------------------
(* The refinement: what a state of the machine stands for.                 *)

\* How many activations the stack holds while a function runs.
Height == IF client = "library" THEN Len(returns) + 1 ELSE Len(returns)

Maps ==
  stage = "run" =>
    /\ InFront \/ InDriver => FlowStage = "before" /\ Activations = <<>>
    /\ AtHalt => FlowStage = "after" /\ Activations = <<>>
    /\ InFunctions => /\ FlowStage = "during" /\ Height \in Nat \ {0}
                      /\ Activations = [k \in 1 .. Height |-> Place(Stack(k))]

LEMMA InvariantMaps == RInv => Maps
<1> SUFFICES ASSUME RInv, stage = "run"
             PROVE  /\ InFront \/ InDriver => FlowStage = "before" /\ Activations = <<>>
                    /\ AtHalt => FlowStage = "after" /\ Activations = <<>>
                    /\ InFunctions => /\ FlowStage = "during" /\ Height \in Nat \ {0}
                                      /\ Activations = [k \in 1 .. Height |-> Place(Stack(k))]
  BY DEF Maps
<1>1. /\ module \in Modules /\ CodeLinked /\ Len(returns) \in Nat
      /\ client \in {"cli", "library"} /\ returns \in Seq(Nat)
  BY Where
<1>2. /\ InFront => At(pc).op = "jmp" /\ At(pc).at = <<>>
      /\ InDriver => At(pc).op = "call" /\ At(pc).at = <<>>
      /\ client = "cli" => At(DriverAt + 1).op = "halt" /\ At(DriverAt + 1).at = <<>>
  BY ClientBlocks
<1>3. Stack(1) = pc
  BY DEF Stack
<1>4. ASSUME InFront \/ InDriver \/ AtHalt
      PROVE  Depth = 0 /\ Activations = <<>>
  <2>1. At(pc).at = <<>> /\ Len(returns) = 0
    BY <1>2, <1>4, EmptySeq DEF InFront, InDriver, AtHalt
  <2>2. Depth = 0
    BY <1>3, <2>1 DEF Depth
  <2>3. Activations = [k \in 1 .. 0 |-> Place(Stack(k))]
    BY <2>2 DEF Activations
  <2> QED
    BY <2>2, <2>3
<1>5. InFront \/ InDriver => FlowStage = "before"
  BY <1>2, <1>4 DEF FlowStage, AtOp
<1>6. AtHalt => FlowStage = "after"
  BY <1>2, <1>4 DEF FlowStage, AtOp, AtHalt
<1>7. ASSUME InFunctions
      PROVE  Depth = Height /\ Height \in Nat \ {0}
  <2>1. CASE client = "library"
    <3>1. Len(returns) + 1 \in 1 .. Len(returns) + 1
      BY <1>1
    <3>2. InCode(Stack(Len(returns) + 1))
      BY <1>7, <2>1, <3>1 DEF InFunctions
    <3>3. At(Stack(Len(returns) + 1)).at # <<>>
      BY <1>1, <3>2, CodeBlock DEF InCode
    <3> QED
      BY <1>1, <2>1, <3>3 DEF Depth, Height
  <2>2. CASE client = "cli"
    <3>1. returns # <<>> /\ Stack(Len(returns) + 1) = DriverAt + 1
      BY <1>7, <2>2 DEF InFunctions
    <3>2. At(Stack(Len(returns) + 1)).at = <<>>
      BY <1>2, <2>2, <3>1
    <3> QED
      BY <1>1, <2>2, <3>1, <3>2, EmptySeq DEF Depth, Height
  <2> QED
    BY <1>1, <2>1, <2>2
<1>8. InFunctions => FlowStage = "during"
  <2>1. InFunctions => Depth > 0
    BY <1>7
  <2> QED
    BY <2>1 DEF FlowStage
<1>9. InFunctions => Activations = [k \in 1 .. Height |-> Place(Stack(k))]
  BY <1>7 DEF Activations
<1> QED
  BY <1>4, <1>5, <1>6, <1>7, <1>8, <1>9

\* The next state is mapped in the same way.
LEMMA NextMaps == RInv' => Maps'
BY InvariantMaps, PTL

Root == IF client = "cli" \/ module = <<>> THEN "main" ELSE module[1].name
Holds == Flow!FlowNext \/ UNCHANGED <<module, Root, Activations, FlowStage>>

LEMMA FlowNow ==
  ASSUME Holds
  PROVE  [Flow!FlowNext]_(Flow!flowVars)
BY DEF Holds, Flow!flowVars, Root

\* Before the run, nothing of it is to be seen.
LEMMA BeforeRun ==
  /\ stage \notin {"run", "returned"} => FlowStage = "before" /\ Activations = <<>>
  /\ stage' \notin {"run", "returned"} => FlowStage' = "before" /\ Activations' = <<>>
BY DEF FlowStage, Activations

LEMMA BuildingMaps ==
  ASSUME RInv, ParseAndValidate \/ CheckMain \/ Compile \/ InvalidProgram
  PROVE  Holds
<1>1. stage \notin {"run", "returned"} /\ stage' \notin {"run", "returned"} /\ client' = client
  <2>1. CASE ParseAndValidate
    BY <2>1 DEF ParseAndValidate
  <2>2. CASE CheckMain
    BY <2>2 DEF CheckMain
  <2>3. CASE Compile
    BY <2>3 DEF Compile, runVars
  <2>4. CASE InvalidProgram
    BY <2>4 DEF InvalidProgram, Compiled
  <2> QED
    BY <2>1, <2>2, <2>3, <2>4
<1>2. module' = module
  <2>1. CASE Compile
    BY <2>1 DEF Compile, CompileStep, CheckLayout, LowerFunction, CannotLower, BeginResolving,
       ResolveJump, ResolveCall, ResolveReturn, UnknownCallee, PrependInit, AddBlock
  <2>2. CASE ~Compile
    BY <2>2 DEF ParseAndValidate, CheckMain, InvalidProgram, compileVars
  <2> QED
    BY <2>1, <2>2
<1> QED
  BY <1>1, <1>2, BeforeRun DEF Holds, Root

LEMMA StartMaps ==
  ASSUME RInv, StartLibrary \/ StartDriver
  PROVE  Holds
<1>1. /\ stage = "compile" /\ IInv /\ phase = "compiled" /\ pc = 0 /\ returns = <<>>
      /\ UNCHANGED <<module, client, returns>>
  BY DEF StartLibrary, StartDriver, Compiled, compileVars, RInv, Building
<1>2. RInv'
  BY StartLibraryKeeps, StartDriverKeeps
<1>3. stage' = "run" => InFront' \/ InDriver'
  <2>1. CASE StartLibrary
    BY <1>1, <2>1 DEF StartLibrary, InFront
  <2>2. CASE StartDriver
    <3>1. PICK m \in DOMAIN module : module[m].name = "main"
      BY <2>2, MainThere DEF StartDriver
    <3>2. Len(blocks) = DriverAt'
      BY <1>1, <2>2, <3>1, DriverLinked DEF StartDriver
    <3> QED
      BY <1>1, <2>2, <3>2 DEF StartDriver, InDriver
  <2> QED
    BY <2>1, <2>2
<1>4. stage' \in {"run", "InvalidProgram"}
  BY DEF StartLibrary, StartDriver
<1>5. FlowStage' = "before" /\ Activations' = <<>>
  BY <1>2, <1>3, <1>4, BeforeRun, NextMaps DEF Maps
<1>6. FlowStage = "before" /\ Activations = <<>>
  BY <1>1, BeforeRun
<1> QED
  BY <1>1, <1>5, <1>6 DEF Holds, Root

\* The innermost activation, and what CallFlow makes of it.
LEMMA TopOfStack ==
  ASSUME RInv, stage = "run", InFunctions,
         NEW i \in DOMAIN module, NEW k \in DOMAIN module[i].code, pc = Address(i, k),
         NEW b, NEW n, module[i].code[k].at = <<b, n>>
  PROVE  /\ FlowStage = "during"
         /\ Flow!Top = [of |-> module[i].name, block |-> b, made |-> n]
         /\ Activations[1] = Flow!Top /\ Place(pc) = Flow!Top
         /\ Flow!Code = module[i]
         /\ Flow!CallsHere = module[i].inBlock[b]
<1>1. /\ FlowStage = "during" /\ Height \in Nat \ {0}
      /\ Activations = [j \in 1 .. Height |-> Place(Stack(j))]
  BY InvariantMaps DEF Maps
<1>2. module \in Modules /\ IsCode(pc, i, k)
  BY Where DEF CodeLinked
<1>3. Place(pc) = [of |-> module[i].name, block |-> b, made |-> n]
  BY <1>2 DEF Place, IsCode
<1>4. Activations[1] = Place(pc)
  BY <1>1 DEF Stack
<1>5. Flow!Top = [of |-> module[i].name, block |-> b, made |-> n]
  BY <1>3, <1>4 DEF Flow!Top
<1>6. Flow!Code = module[i]
  <2>1. Flow!Code = FunctionNamed(module, module[i].name)
    BY <1>5 DEF Flow!Code, Flow!FunctionNamed, Flow!Named, FunctionNamed, Named
  <2> QED
    BY <1>2, <2>1, NamedFunction
<1>7. Flow!CallsHere = module[i].inBlock[b]
  BY <1>5, <1>6 DEF Flow!CallsHere
<1> QED
  BY <1>1, <1>3, <1>4, <1>5, <1>6, <1>7

\* The block in front jumps to the module's first function.
LEMMA FrontMaps ==
  ASSUME RInv, Jmp, InFront
  PROVE  Holds
<1>1. /\ stage = "run" /\ pc' = At(pc).to
      /\ UNCHANGED <<compileVars, client, stage, returns>>
  BY DEF Jmp, AtOp, Continue
<1>2. UNCHANGED <<module, functionEntry, blocks, client>>
  BY <1>1 DEF compileVars
<1>3. /\ module \in Modules /\ CodeLinked /\ 1 \in DOMAIN module /\ module # <<>>
      /\ pc' = Address(1, 1) /\ client = "library" /\ returns = <<>>
  BY <1>1, ClientBlocks, Where DEF InFront
<1>4. At(Address(1, 1)).at = <<1, 0>> /\ At(Address(1, 1)).owner = module[1].name
  BY <1>3, FirstBlock
<1>5. /\ FlowStage' = "during" /\ Height' \in Nat \ {0}
      /\ Activations' = [j \in 1 .. Height' |-> Place(Stack(j))']
  <2>1. InFunctions' /\ RInv'
    BY LeavesFront
  <2> QED
    BY <1>1, <2>1, NextMaps DEF Maps
<1>6. Height' = 1
  BY <1>1, <1>3, EmptySeq DEF Height
<1>7. Place(Stack(1))' = Flow!Entry(Root)
  <2>1. At(pc)' = At(Address(1, 1))
    BY <1>2, <1>3 DEF At
  <2>2. Place(Stack(1))' = [of |-> module[1].name, block |-> 1, made |-> 0]
    BY <1>4, <2>1 DEF Place, Stack
  <2> QED
    BY <1>3, <2>2 DEF Flow!Entry, Flow!Activation, Root
<1>8. Activations' = <<Flow!Entry(Root)>>
  <2>1. Activations' = [j \in 1 .. 1 |-> Flow!Entry(Root)]
    BY <1>5, <1>6, <1>7
  <2> QED
    BY <2>1
<1>9. FlowStage = "before"
  BY <1>1, InvariantMaps DEF Maps
<1>10. Flow!Begin
  BY <1>2, <1>5, <1>8, <1>9 DEF Flow!Begin, Root
<1> QED
  BY <1>10 DEF Holds, Flow!FlowNext

\* Jumps move within the activation; control that falls through does not
\* move it.
LEMMA JumpMaps ==
  ASSUME RInv, Jmp \/ Jz \/ Fall, ~InFront
  PROVE  Holds
<1>1. /\ stage = "run"
      /\ \/ (Jmp \/ Jz) /\ At(pc).op \in {"jmp", "jz"} /\ pc' = At(pc).to
         \/ At(pc).op = "jz" /\ pc' = pc + 1
      /\ UNCHANGED <<compileVars, client, stage, returns>>
  <2>1. CASE Jmp
    BY <2>1 DEF Jmp, AtOp, Continue
  <2>2. CASE Jz
    BY <2>2 DEF Jz, AtOp, Continue
  <2>3. CASE Fall
    BY <2>3 DEF Fall, AtOp, Continue
  <2> QED
    BY <2>1, <2>2, <2>3
<1>2. InFunctions /\ InFunctions' /\ RInv'
  BY JumpKeeps
<1>3. UNCHANGED <<module, functionEntry, blocks, client>>
  BY <1>1 DEF compileVars
<1>4. module \in Modules /\ CodeLinked
  BY <1>1, Where
<1>5. PICK i \in DOMAIN module : \E k \in DOMAIN module[i].code :
             pc = Address(i, k) /\ IsCode(pc, i, k) /\ CodeFollows(i, k)
  BY <1>1, <1>2, PcInCode
<1>6. PICK k \in DOMAIN module[i].code :
             pc = Address(i, k) /\ IsCode(pc, i, k) /\ CodeFollows(i, k)
  BY <1>5
<1> DEFINE f == module[i]
           t == module[i].code[k]
<1>7. t.op = At(pc).op /\ t.op \in {"jmp", "jz"}
  BY <1>1, <1>6 DEF IsCode
<1>8. PICK b \in DOMAIN f.term : \E n \in 0 .. Len(f.inBlock[b]) :
        /\ t.at = <<b, n>>
        /\ t.op = "call" <=> n < Len(f.inBlock[b])
        /\ t.to \in Successors(f.term[b])
        /\ t.op = "jz" => k + 1 \in DOMAIN f.code /\ f.code[k + 1].at = <<b, n>>
  BY <1>6, <1>7 DEF CodeFollows
<1>9. PICK n \in 0 .. Len(f.inBlock[b]) :
        /\ t.at = <<b, n>>
        /\ t.op = "call" <=> n < Len(f.inBlock[b])
        /\ t.to \in Successors(f.term[b])
        /\ t.op = "jz" => k + 1 \in DOMAIN f.code /\ f.code[k + 1].at = <<b, n>>
  BY <1>8
<1>10. n = Len(f.inBlock[b])
  <2>1. Len(f.inBlock[b]) \in Nat
    BY <1>4, LoweringAssumption DEF FollowsFunction
  <2> QED
    BY <1>7, <1>9, <2>1
<1>11. /\ FlowStage = "during" /\ Activations[1] = Flow!Top /\ Place(pc) = Flow!Top
       /\ Flow!Top = [of |-> f.name, block |-> b, made |-> n]
       /\ Flow!Code = f /\ Flow!CallsHere = f.inBlock[b]
  BY <1>1, <1>2, <1>6, <1>9, TopOfStack
<1>12. /\ Height \in Nat \ {0} /\ Height' = Height /\ FlowStage' = "during"
       /\ Activations = [j \in 1 .. Height |-> Place(Stack(j))]
       /\ Activations' = [j \in 1 .. Height |-> Place(Stack(j))']
  <2>1. Height' = Height
    BY <1>1, <1>3 DEF Height
  <2> QED
    BY <1>1, <1>2, <2>1, InvariantMaps, NextMaps DEF Maps
<1>13. \A j \in 1 .. Height : Place(Stack(j))' = IF j = 1 THEN Place(pc') ELSE Activations[j]
  <2> SUFFICES ASSUME NEW j \in 1 .. Height
               PROVE  Place(Stack(j))' = IF j = 1 THEN Place(pc') ELSE Activations[j]
    OBVIOUS
  <2>1. CASE j = 1
    BY <1>3, <2>1 DEF Place, At, Stack
  <2>2. CASE j # 1
    <3>1. Stack(j)' = Stack(j)
      BY <1>1, <2>2 DEF Stack
    <3> QED
      BY <1>3, <1>12, <2>2, <3>1 DEF Place, At
  <2> QED
    BY <2>1, <2>2
<1>14. CASE pc' = At(pc).to
  <2>1. PICK c \in DOMAIN f.code : pc' = Address(i, c) /\ f.code[c].at = <<t.to, 0>>
    BY <1>4, <1>6, <1>7, <1>14, JumpLeads
  <2>2. IsCode(pc', i, c)
    BY <1>4, <2>1 DEF CodeLinked
  <2>3. Place(pc') = Flow!Activation(f.name, t.to, 0)
    BY <2>1, <2>2 DEF Place, IsCode, Flow!Activation
  <2>4. Activations' = <<Flow!Activation(f.name, t.to, 0)>> \o Tail(Activations)
    <3>1. Activations = [j \in 1 .. Height |-> Activations[j]]
      BY <1>12
    <3> DEFINE e == Place(pc')
    <3>2. <<e>> \o Tail(Activations) = [j \in 1 .. Height |-> IF j = 1 THEN e ELSE Activations[j]]
      BY <1>12, <3>1, ReplaceTop
    <3>3. Activations' = [j \in 1 .. Height |-> IF j = 1 THEN e ELSE Activations[j]]
      BY <1>12, <1>13
    <3> QED
      BY <2>3, <3>2, <3>3
  <2>5. Flow!Move
    <3>1. Flow!Top.of = f.name /\ Flow!Top.block = b /\ Flow!Top.made = Len(Flow!CallsHere)
      BY <1>10, <1>11
    <3>2. t.to \in Flow!Successors(Flow!Code.term[Flow!Top.block])
      BY <1>9, <1>11, <3>1 DEF Flow!Successors, Successors
    <3>3. UNCHANGED <<module, Root, FlowStage>>
      BY <1>1, <1>3, <1>11, <1>12 DEF Root
    <3> QED
      BY <1>11, <2>4, <3>1, <3>2, <3>3 DEF Flow!Move, Root
  <2> QED
    BY <2>5 DEF Holds, Flow!FlowNext
<1>15. CASE At(pc).op = "jz" /\ pc' = pc + 1
  <2>1. k + 1 \in DOMAIN f.code /\ f.code[k + 1].at = t.at
    BY <1>7, <1>9, <1>15
  <2>2. pc' = Address(i, k + 1)
    BY <1>4, <1>6, <1>15, <2>1, CodeBlock
  <2>3. IsCode(pc', i, k + 1)
    BY <1>4, <2>1, <2>2 DEF CodeLinked
  <2>4. Place(pc') = Activations[1]
    BY <1>6, <1>11, <2>1, <2>3 DEF Place, IsCode
  <2>5. Activations' = Activations
    BY <1>12, <1>13, <2>4
  <2> QED
    BY <1>3, <1>11, <1>12, <2>5 DEF Holds, Root
<1> QED
  BY <1>1, <1>14, <1>15

\* What a call puts on the stack: the callee over the place behind the call.
LEMMA CalleeOnTop ==
  ASSUME RInv, Call, InFunctions, InFunctions', RInv'
  PROVE  /\ Height \in Nat \ {0}
         /\ Activations = [j \in 1 .. Height |-> Activations[j]]
         /\ Activations' = [j \in 1 .. Height + 1 |->
              IF j = 1 THEN Place(pc') ELSE IF j = 2 THEN Place(pc + 1) ELSE Activations[j - 1]]
<1>1. /\ stage = "run" /\ stage' = "run"
      /\ returns' = <<pc + 1>> \o returns
      /\ UNCHANGED <<compileVars, client, stage>>
  BY DEF Call, AtOp, Continue
<1>2. pc \in Nat /\ returns \in Seq(Nat) /\ client \in {"cli", "library"}
  BY <1>1, Where
<1>3. UNCHANGED <<module, functionEntry, blocks, client>>
  BY <1>1 DEF compileVars
<1>4. /\ Len(returns) \in Nat /\ Len(returns') = Len(returns) + 1
      /\ Stack(1)' = pc' /\ Stack(2)' = pc + 1
      /\ \A k \in 2 .. Len(returns) + 1 : Stack(k + 1)' = Stack(k)
  <2>1. PICK a \in Nat : a = pc + 1
    BY <1>2
  <2>2. returns' = <<a>> \o returns
    BY <1>1, <2>1
  <2>3. /\ returns' \in Seq(Nat) /\ Len(returns) \in Nat /\ Len(returns') = Len(returns) + 1
        /\ Stack(1)' = pc' /\ Stack(2)' = a
        /\ \A k \in 2 .. Len(returns) + 1 : Stack(k + 1)' = Stack(k)
    BY <1>2, <2>2, Pushed
  <2> QED
    BY <2>1, <2>3
<1>5. /\ Height \in Nat \ {0}
      /\ Activations = [j \in 1 .. Height |-> Place(Stack(j))]
      /\ Activations' = [j \in 1 .. Height' |-> Place(Stack(j))']
  BY <1>1, InvariantMaps, NextMaps DEF Maps
<1>6. Height' = Height + 1 /\ Height <= Len(returns) + 1
  BY <1>2, <1>3, <1>4 DEF Height
<1>7. ASSUME NEW j \in 1 .. Height + 1
      PROVE  Place(Stack(j))' = IF j = 1 THEN Place(pc')
                                ELSE IF j = 2 THEN Place(pc + 1) ELSE Activations[j - 1]
  <2>1. CASE j = 1
    BY <1>3, <1>4, <2>1 DEF Place, At
  <2>2. CASE j = 2
    BY <1>3, <1>4, <2>2 DEF Place, At
  <2>3. CASE j \notin {1, 2}
    <3>1. /\ j - 1 \in 2 .. Len(returns) + 1 /\ (j - 1) + 1 = j /\ j - 1 \in 1 .. Height
      BY <1>4, <1>5, <1>6, <2>3
    <3>2. Stack(j)' = Stack(j - 1)
      BY <1>4, <3>1
    <3>3. Activations[j - 1] = Place(Stack(j - 1))
      BY <1>5, <3>1
    <3>4. Place(Stack(j))' = Place(Stack(j - 1))
      BY <1>3, <3>2 DEF Place, At
    <3> QED
      BY <2>3, <3>3, <3>4
  <2> QED
    BY <2>1, <2>2, <2>3
<1>8. Activations' = [j \in 1 .. Height + 1 |-> Place(Stack(j))']
  BY <1>5, <1>6
<1>9. Activations = [j \in 1 .. Height |-> Activations[j]]
  BY <1>5
<1> QED
  BY <1>5, <1>7, <1>8, <1>9

LEMMA CallMaps ==
  ASSUME RInv, Call, InFunctions
  PROVE  Holds
<1>1. /\ stage = "run" /\ At(pc).op = "call" /\ pc' = At(pc).to
      /\ UNCHANGED <<compileVars, client, stage>>
  BY DEF Call, AtOp, Continue
<1>2. InFunctions' /\ RInv'
  BY CallKeeps
<1>3. UNCHANGED <<module, functionEntry, blocks, client>>
  BY <1>1 DEF compileVars
<1>4. module \in Modules /\ CodeLinked
  BY <1>1, Where
<1>5. PICK i \in DOMAIN module : \E k \in DOMAIN module[i].code :
             pc = Address(i, k) /\ IsCode(pc, i, k) /\ CodeFollows(i, k)
  BY <1>1, PcInCode
<1>6. PICK k \in DOMAIN module[i].code :
             pc = Address(i, k) /\ IsCode(pc, i, k) /\ CodeFollows(i, k)
  BY <1>5
<1> DEFINE f == module[i]
           t == module[i].code[k]
<1>7. t.op = "call"
  BY <1>1, <1>6 DEF IsCode
<1>8. PICK b \in DOMAIN f.term : \E n \in 0 .. Len(f.inBlock[b]) :
        /\ t.at = <<b, n>> /\ n < Len(f.inBlock[b])
        /\ t.callee = f.calls[f.inBlock[b][n + 1]].callee
        /\ k + 1 \in DOMAIN f.code /\ f.code[k + 1].at = <<b, n + 1>>
  BY <1>6, <1>7 DEF CodeFollows
<1>9. PICK n \in 0 .. Len(f.inBlock[b]) :
        /\ t.at = <<b, n>> /\ n < Len(f.inBlock[b])
        /\ t.callee = f.calls[f.inBlock[b][n + 1]].callee
        /\ k + 1 \in DOMAIN f.code /\ f.code[k + 1].at = <<b, n + 1>>
  BY <1>8
<1>10. /\ FlowStage = "during" /\ Flow!Code = f /\ Flow!CallsHere = f.inBlock[b]
       /\ Flow!Top = [of |-> f.name, block |-> b, made |-> n]
  BY <1>1, <1>6, <1>9, TopOfStack
<1>11. FlowStage' = "during"
  BY <1>1, <1>2, NextMaps DEF Maps
<1>12. PICK j \in DOMAIN module : module[j].name = t.callee /\ pc' = Address(j, 1)
  BY <1>1, <1>4, <1>6, <1>7, CallLeads
<1>13. Place(pc') = Flow!Entry(t.callee)
  BY <1>4, <1>12, FirstBlock DEF Place, Flow!Entry, Flow!Activation
<1>14. Place(pc + 1) = [Flow!Top EXCEPT !.made = @ + 1]
  <2>1. pc + 1 = Address(i, k + 1)
    BY <1>4, <1>6, <1>9, CodeBlock
  <2>2. IsCode(pc + 1, i, k + 1)
    BY <1>4, <1>9, <2>1 DEF CodeLinked
  <2>3. Place(pc + 1) = [of |-> f.name, block |-> b, made |-> n + 1]
    BY <1>9, <2>2 DEF Place, IsCode
  <2> QED
    BY <1>10, <2>3
<1>15. Activations' = <<Flow!Entry(t.callee), [Flow!Top EXCEPT !.made = @ + 1]>> \o Tail(Activations)
  <2> DEFINE d == Place(pc')
             e == Place(pc + 1)
  <2>1. /\ Height \in Nat \ {0}
        /\ Activations = [m \in 1 .. Height |-> Activations[m]]
        /\ Activations' = [m \in 1 .. Height + 1 |->
             IF m = 1 THEN d ELSE IF m = 2 THEN e ELSE Activations[m - 1]]
    BY <1>2, CalleeOnTop
  <2>2. <<d, e>> \o Tail(Activations)
          = [m \in 1 .. Height + 1 |-> IF m = 1 THEN d ELSE IF m = 2 THEN e ELSE Activations[m - 1]]
    BY <2>1, CallOverTop
  <2> QED
    BY <1>13, <1>14, <2>1, <2>2
<1>16. Flow!Invoke
  <2>1. Flow!Top.made = n /\ Flow!Top.made < Len(Flow!CallsHere)
    BY <1>9, <1>10
  <2>2. Flow!Code.calls[Flow!CallsHere[Flow!Top.made + 1]].callee = t.callee
    BY <1>9, <1>10, <2>1
  <2>3. UNCHANGED <<module, Root, FlowStage>>
    BY <1>3, <1>10, <1>11 DEF Root
  <2> QED
    BY <1>10, <1>15, <2>1, <2>2, <2>3 DEF Flow!Invoke, Root
<1> QED
  BY <1>16 DEF Holds, Flow!FlowNext

\* The driver calls main.
LEMMA DriverMaps ==
  ASSUME RInv, Call, InDriver
  PROVE  Holds
<1>1. /\ stage = "run" /\ pc' = At(pc).to /\ returns' = <<pc + 1>> \o returns
      /\ UNCHANGED <<compileVars, client, stage>>
  BY DEF Call, AtOp, Continue
<1>2. UNCHANGED <<module, functionEntry, blocks, client>>
  BY <1>1 DEF compileVars
<1>3. module \in Modules /\ CodeLinked /\ client = "cli" /\ returns = <<>> /\ pc \in Nat
  BY <1>1, Where DEF InDriver
<1>4. PICK i \in DOMAIN module : module[i].name = "main" /\ pc' = Address(i, 1)
  BY <1>1, ClientBlocks
<1>5. At(Address(i, 1)).at = <<1, 0>> /\ At(Address(i, 1)).owner = "main"
  BY <1>3, <1>4, FirstBlock
<1>6. /\ FlowStage' = "during" /\ Height' \in Nat \ {0}
      /\ Activations' = [j \in 1 .. Height' |-> Place(Stack(j))']
  <2>1. InFunctions' /\ RInv'
    BY CallKeeps
  <2> QED
    BY <1>1, <2>1, NextMaps DEF Maps
<1>7. Height' = 1
  <2>1. returns' = <<pc + 1>>
    <3>1. <<pc + 1>> \in Seq(Nat)
      BY <1>3
    <3> QED
      BY <1>1, <1>3, <3>1, ConcatEmptySeq
  <2>2. Len(returns') = 1
    BY <2>1
  <2> QED
    BY <1>2, <1>3, <2>2 DEF Height
<1>8. Place(Stack(1))' = Flow!Entry(Root)
  <2>1. At(pc)' = At(Address(i, 1))
    BY <1>2, <1>4 DEF At
  <2>2. Place(Stack(1))' = [of |-> "main", block |-> 1, made |-> 0]
    BY <1>5, <2>1 DEF Place, Stack
  <2> QED
    BY <1>3, <2>2 DEF Flow!Entry, Flow!Activation, Root
<1>9. Activations' = <<Flow!Entry(Root)>>
  <2>1. Activations' = [j \in 1 .. 1 |-> Flow!Entry(Root)]
    BY <1>6, <1>7, <1>8
  <2> QED
    BY <2>1
<1>10. FlowStage = "before"
  BY <1>1, InvariantMaps DEF Maps
<1>11. Flow!Begin
  BY <1>2, <1>6, <1>9, <1>10 DEF Flow!Begin, Root
<1> QED
  BY <1>11 DEF Holds, Flow!FlowNext

\* At a return every call of the block has been made.
LEMMA AtReturn ==
  ASSUME RInv, AtOp("ret")
  PROVE  /\ InFunctions /\ FlowStage = "during"
         /\ Flow!Top.made = Len(Flow!CallsHere)
         /\ Flow!Code.term[Flow!Top.block].op = "return"
<1>1. stage = "run" /\ At(pc).op = "ret"
  BY DEF AtOp
<1>2. InFunctions
  BY <1>1, Where, ClientBlocks DEF AtHalt
<1>3. module \in Modules /\ CodeLinked
  BY <1>1, Where
<1>4. PICK i \in DOMAIN module : \E k \in DOMAIN module[i].code :
             pc = Address(i, k) /\ IsCode(pc, i, k) /\ CodeFollows(i, k)
  BY <1>1, <1>2, PcInCode
<1>5. PICK k \in DOMAIN module[i].code :
             pc = Address(i, k) /\ IsCode(pc, i, k) /\ CodeFollows(i, k)
  BY <1>4
<1> DEFINE f == module[i]
           t == module[i].code[k]
<1>6. t.op = "ret"
  BY <1>1, <1>5 DEF IsCode
<1>7. PICK b \in DOMAIN f.term : \E n \in 0 .. Len(f.inBlock[b]) :
        t.at = <<b, n>> /\ ~(n < Len(f.inBlock[b])) /\ f.term[b].op = "return"
  BY <1>5, <1>6 DEF CodeFollows
<1>8. PICK n \in 0 .. Len(f.inBlock[b]) :
        t.at = <<b, n>> /\ ~(n < Len(f.inBlock[b])) /\ f.term[b].op = "return"
  BY <1>7
<1>9. n = Len(f.inBlock[b])
  <2>1. Len(f.inBlock[b]) \in Nat
    BY <1>3, LoweringAssumption DEF FollowsFunction
  <2> QED
    BY <1>8, <2>1
<1>10. /\ FlowStage = "during" /\ Flow!Code = f /\ Flow!CallsHere = f.inBlock[b]
       /\ Flow!Top = [of |-> f.name, block |-> b, made |-> n]
  BY <1>1, <1>2, <1>5, <1>8, TopOfStack
<1> QED
  BY <1>2, <1>8, <1>9, <1>10

LEMMA RetMaps ==
  ASSUME RInv, Ret
  PROVE  Holds
<1>1. /\ stage = "run" /\ AtOp("ret") /\ returns # <<>>
      /\ returns' = Tail(returns) /\ pc' = returns[1]
      /\ UNCHANGED <<compileVars, client, stage>>
  BY DEF Ret, AtOp, Continue
<1>2. InFunctions /\ (AtHalt' \/ InFunctions') /\ RInv'
  BY RetKeeps
<1>3. UNCHANGED <<module, functionEntry, blocks, client>>
  BY <1>1 DEF compileVars
<1>4. returns \in Seq(Nat) /\ client \in {"cli", "library"}
  BY <1>1, Where
<1>5. /\ FlowStage = "during"
      /\ Flow!Top.made = Len(Flow!CallsHere)
      /\ Flow!Code.term[Flow!Top.block].op = "return"
  BY <1>1, AtReturn
<1>6. /\ Len(returns) \in Nat \ {0} /\ Len(returns') = Len(returns) - 1
      /\ \A k \in 1 .. Len(returns) : Stack(k)' = Stack(k + 1)
  BY <1>1, <1>4, Popped
<1>7. /\ Height \in Nat \ {0} /\ Height <= Len(returns) + 1
      /\ Activations = [j \in 1 .. Height |-> Place(Stack(j))]
  BY <1>1, <1>2, <1>4, <1>6, InvariantMaps DEF Maps, Height
<1>8. Tail(Activations) = [j \in 1 .. Height - 1 |-> Place(Stack(j + 1))]
  <2>1. Activations = [j \in 1 .. Height |-> Activations[j]]
    BY <1>7
  <2>2. Tail(Activations) = [j \in 1 .. Height - 1 |-> Activations[j + 1]]
    BY <1>7, <2>1, TailOfRow
  <2>3. \A j \in 1 .. Height - 1 : j + 1 \in 1 .. Height
    BY <1>7
  <2>4. \A j \in 1 .. Height - 1 : Activations[j + 1] = Place(Stack(j + 1))
    BY <1>7, <2>3
  <2> QED
    BY <2>2, <2>4
<1>9. UNCHANGED <<module, Root>>
  BY <1>3 DEF Root
<1>10. CASE InFunctions'
  <2>1. /\ FlowStage' = "during" /\ Height' \in Nat \ {0}
        /\ Activations' = [j \in 1 .. Height' |-> Place(Stack(j))']
    BY <1>1, <1>2, <1>10, NextMaps DEF Maps
  <2>2. Height' = Height - 1
    BY <1>3, <1>4, <1>6 DEF Height
  <2>3. \A j \in 1 .. Height - 1 : Place(Stack(j))' = Place(Stack(j + 1))
    <3> SUFFICES ASSUME NEW j \in 1 .. Height - 1
                 PROVE  Place(Stack(j))' = Place(Stack(j + 1))
      OBVIOUS
    <3>1. j \in 1 .. Len(returns)
      BY <1>6, <1>7
    <3>2. Stack(j)' = Stack(j + 1)
      BY <1>6, <3>1
    <3> QED
      BY <1>3, <3>2 DEF Place, At
  <2>4. Activations' = Tail(Activations)
    BY <1>8, <2>1, <2>2, <2>3
  <2>5. Activations' # <<>>
    <3>1. 1 \in DOMAIN Activations'
      BY <2>1
    <3> QED
      BY <3>1
  <2>6. Flow!GiveBack
    BY <1>5, <1>9, <2>1, <2>4, <2>5 DEF Flow!GiveBack, Root
  <2> QED
    BY <2>6 DEF Holds, Flow!FlowNext
<1>11. CASE AtHalt'
  <2>1. FlowStage' = "after" /\ Activations' = <<>>
    BY <1>1, <1>2, <1>11, NextMaps DEF Maps
  <2>2. Height = 1
    <3>1. Len(returns') = 0 /\ client = "cli"
      BY <1>3, <1>11, EmptySeq DEF AtHalt
    <3> QED
      BY <1>6, <3>1 DEF Height
  <2>3. Tail(Activations) = <<>>
    <3> DEFINE s == Tail(Activations)
    <3>1. s = [j \in 1 .. 0 |-> Place(Stack(j + 1))]
      BY <1>8, <2>2
    <3> QED
      BY <3>1
  <2>4. Flow!GiveBack
    BY <1>5, <1>9, <2>1, <2>3 DEF Flow!GiveBack, Root
  <2> QED
    BY <2>4 DEF Holds, Flow!FlowNext
<1> QED
  BY <1>2, <1>10, <1>11

LEMMA HaltMaps ==
  ASSUME RInv, Halt
  PROVE  Holds
<1>1. /\ stage = "run" /\ stage' = "returned" /\ UNCHANGED <<module, client>>
      /\ AtOp("halt") \/ (AtOp("ret") /\ returns = <<>>)
  BY DEF Halt, AtOp, compileVars
<1>2. FlowStage' = "after" /\ Activations' = <<>> /\ UNCHANGED <<module, Root>>
  BY <1>1 DEF FlowStage, Activations, Root
<1>3. CASE AtOp("halt")
  <2>1. AtHalt
    <3>1. At(pc).op = "halt"
      BY <1>3 DEF AtOp
    <3> QED
      BY <1>1, <3>1, Where, ClientBlocks DEF Ops
  <2>2. FlowStage = "after" /\ Activations = <<>>
    BY <1>1, <2>1, InvariantMaps DEF Maps
  <2> QED
    BY <1>2, <2>2 DEF Holds
<1>4. CASE AtOp("ret") /\ returns = <<>>
  <2>1. /\ InFunctions /\ FlowStage = "during"
        /\ Flow!Top.made = Len(Flow!CallsHere)
        /\ Flow!Code.term[Flow!Top.block].op = "return"
    BY <1>4, AtReturn
  <2>2. Height = 1
    BY <1>1, <1>4, <2>1, Where, EmptySeq DEF InFunctions, Height
  <2>3. Activations = [j \in 1 .. 1 |-> Place(Stack(j))]
    BY <1>1, <2>1, <2>2, InvariantMaps DEF Maps
  <2>4. Tail(Activations) = <<>>
    <3>1. Activations = [j \in 1 .. 1 |-> Activations[j]]
      BY <2>3
    <3>2. Tail(Activations) = [j \in 1 .. 1 - 1 |-> Activations[j + 1]]
      BY <3>1, TailOfRow
    <3> DEFINE s == Tail(Activations)
    <3>3. s = [j \in 1 .. 0 |-> Activations[j + 1]]
      BY <3>2
    <3> QED
      BY <3>3
  <2>5. Flow!GiveBack
    BY <1>2, <2>1, <2>4 DEF Flow!GiveBack, Root
  <2> QED
    BY <2>5 DEF Holds, Flow!FlowNext
<1> QED
  BY <1>1, <1>3, <1>4

LEMMA RunStepMaps == RInv /\ [RunNext]_programVars => [Flow!FlowNext]_(Flow!flowVars)
<1> SUFFICES ASSUME RInv, [RunNext]_programVars PROVE Holds
  BY FlowNow
<1>1. CASE ParseAndValidate \/ CheckMain \/ Compile \/ InvalidProgram
  BY <1>1, BuildingMaps
<1>2. CASE StartLibrary \/ StartDriver
  BY <1>2, StartMaps
<1>3. CASE Jmp \/ Jz \/ Fall
  <2>1. CASE InFront
    <3>1. Jmp
      BY <1>3, <2>1, ClientBlocks DEF Jmp, Jz, Fall, AtOp
    <3> QED
      BY <2>1, <3>1, FrontMaps
  <2>2. CASE ~InFront
    BY <1>3, <2>2, JumpMaps
  <2> QED
    BY <2>1, <2>2
<1>4. CASE Call
  BY <1>4, CallKeeps, CallMaps, DriverMaps
<1>5. CASE Ret \/ Halt
  BY <1>5, RetMaps, HaltMaps
<1>6. CASE Over \/ UNCHANGED programVars
  <2>1. UNCHANGED <<compileVars, client, stage, pc, returns>>
    BY <1>6 DEF Over, programVars, runVars
  <2>2. UNCHANGED <<module, blocks>>
    BY <2>1 DEF compileVars
  <2> QED
    BY <2>1, <2>2 DEF Holds, Root, Activations, FlowStage, Depth, Place, Stack, AtOp, At
<1> QED
  BY <1>1, <1>2, <1>3, <1>4, <1>5, <1>6 DEF RunNext

LEMMA RunInitMaps == RunInit => Flow!FlowInit
<1> SUFFICES ASSUME RunInit PROVE Flow!FlowInit
  OBVIOUS
<1>1. stage \notin {"run", "returned"}
  BY DEF RunInit
<1> QED
  BY <1>1, BeforeRun DEF Flow!FlowInit

\* The program compile_module links, with the command line's driver behind it
\* or run by a library client, moves control as call of interp.rs does: from
\* the function the client chose, block by block and call by call, whatever
\* the module, its layout and the branches taken.
THEOREM LinkedProgramFollowsCalls == RunSpec => ImplementsCallFlow
<1> QED
  BY RunInductive, RunInitMaps, RunStepMaps, PTL DEF RunSpec, ImplementsCallFlow, Flow!FlowSpec
=============================================================================
