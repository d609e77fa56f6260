# Verification of chakobsa

chakobsa compiles a small language to bytecode for the mentat virtual machine. It is a
sequential, multi-pass compiler with no concurrency, no persistence and no messages: what is
hard in it is *order*. The parser builds typed SSA with no syntax tree in between, so blocks,
edges, seals and variable bindings have to be touched in exactly the right sequence while
tokens are being read; `read_variable` and `seal_block` recurse through a half-built cyclic
graph; the dataflow analysis iterates; the allocator and the lowering rely on facts about the
control-flow graph that nothing checks. The models follow those sequences step by step.

## Inventory

| Component | State | Operations | Hard behaviour | What makes it correct |
|---|---|---|---|---|
| Lexer (`lexer/src/lib.rs`) | position in the text, tokens so far | `lex` | which token is the longest, where a comment ends, progress on every turn | tokens cover exactly what is neither white space nor comment |
| Module parser (`parser.rs`, `parse`, `parse_module`, `skip_block`) | token cursor, `sigs` | two passes over the tokens | one pass skips what the other parses; calls before the function they name | no token is lost between functions; every call checked against the right signature; every parse ends |
| Function parser (`parser.rs`, `parse_function` and below) | `FnContext`: scopes, current block | one method per statement and expression form | terminating, sealing and scoping in order | reads see the last write; accepted functions are valid |
| SSA builder (`ssa_builder.rs`) | blocks, `current_def`, `sealed`, `preds`, `incomplete_phis` | `new_block`, `emit`, `terminate`, `write_variable`, `read_variable`, `seal_block` | recursion around cycles, reads before all edges are known | edges agree, phis complete, recursion ends |
| IR (`ir/src/{block,function,inst}.rs`) | none | `successors`, `predecessors` | an edge counted once or twice | |
| Validator (`validate.rs`) | none | `validate_function`, `validate_module` | what it does *not* check: dominance, multiplicity of phi entries | rejects what interpreter and code generator would panic on |
| Interpreter (`interp.rs`) | environment per call | `call` | phis read simultaneously; recursion | meaning of the source |
| Liveness (`liveness.rs`) | `live_in`, `live_out`, `changed` | `analyze`, `live_within_block` | fixed point in block order; phi operands belong to edges | exactly the live values, terminates |
| Register allocator (`regalloc.rs`) | `registers`, `spills`, next address | `allocate` | exhaustion of registers, pre-coloured parameters | values needed together never share a home |
| Lowering (`lower.rs`) | pending blocks, temp addresses | `lower` | parallel moves, calls splitting blocks, phi copies on edges | the machine computes what the interpreter computes |
| Module compilation (`codegen/src/lib.rs`) | pending blocks, `function_entry`, `local_indices` | `compile_module` | two passes and a prepended block that shift every index, a cast to u8 | regions and stack disjoint, every jump, call and entry lands where it was meant |
| Command line (`cli/src/main.rs`) | none | `build`, `run`, `dump-ir` | a driver appended to finished code | compiles only what was validated; runs `main` and halts behind it |
| mentat (external) | registers, memory, return stack | | | |

The components interact by calls and by the data they hand on. The parser drives the builder
and hands a `Function` to whoever calls `parse`; `parse_and_validate` in the command line runs
the validator on it; the interpreter and `compile_module` both assume a validated module.
`compile_module` runs `allocate` (which runs `analyze`) and then `lower` for each function;
`lower` runs `analyze` once more. No state is shared beyond the data.

Every hazard, at its line, is in `PROJECT.json` under `hazards`, with the properties that
would catch it going wrong.

## Modules

| Module | Models | Notes |
|---|---|---|
| `Ir` | the data of `crates/ir` | a function is a sequence of instructions and a sequence of terminators, both numbered from 1 |
| `SsaBuilder` | `ssa_builder.rs` | variable `bld` is the struct; `work` the stack of `read_variable`, `read_variable_recursive`, `add_phi_operands` and `seal_block` calls; `ret` what the last one returned |
| `FunctionParser` | `parse_function` and everything below it | `ctl` is the parser's own call stack, as the constructs still open; the tokens are a nondeterministic choice, so the behaviours are the parses of *every* body |
| `Validate` | `validate_function` | the set of errors it can report |
| `ParserProps` | properties of a parse | |
| `FunctionMeaning` | `call` in `interp.rs` | runs the accepted function next to the source |
| `Liveness` | `liveness.rs` | one action per turn of the `for` loop and per turn of the `while` loop |
| `RegAlloc` | `regalloc.rs` | one action per turn of the loop over the values; runs `Liveness` first |
| `Interp` | `call` in `interp.rs`, instruction by instruction | the specification `Machine` is checked to implement |
| `Lower` | `lower.rs` | one action per instruction lowered and per terminator; runs `RegAlloc` first |
| `Machine` | one call of the lowered function on mentat (external) | `block`, `last`, `env`, `event` are read off its registers and memory and are the refinement mapping to `Interp` |
| `Dominance` | what the validator leaves unchecked about the graph | used by properties and to choose input functions |
| `SmallFunctions` | input functions for `Liveness`, `RegAlloc` and `Machine` | every placement of a few instructions in a few graphs |
| `Lexer` | `lex` | one action per branch of the loop over the bytes |
| `ModuleParser` | `parse_module` and the grammar below it, token by token | `goals` is the recursive-descent parser's call stack: what is still to be expected, called or done. The grammar is a set of rules, the types of expressions a stack |
| `CallCheck` | the call checks of `validate_module`, `Module::function` | shared by `ModuleParser`, `RunProgram` and `CallFlow` |
| `CompileModule` | `compile_module` in `codegen/src/lib.rs` | one action per turn of the loop over the functions and of the loop over the pending blocks |
| `RunProgram` | `compile_runnable` in `cli/src/main.rs`, and the flow of control on mentat (external) | composes `CompileModule` and `CallCheck` |
| `CallFlow` | the calls and returns of `interp.rs` over a whole module | the specification `RunProgram` is checked to implement |
| `MC...` | instances for TLC | |
| `RegAllocProofs` | theorems about `Liveness` and `RegAlloc` | the analysis first, with the lemmas on rounds, recursion and paths; the allocator on top of it |
| `CompileModuleProofs` | theorems about `CompileModule` | |
| `RunProgramProofs` | theorems about `RunProgram` | on top of `CompileModuleProofs`; the refinement of `CallFlow` |
| `ModuleParserProofs` | theorems about `ModuleParser` | |
| `LexerProofs` | theorems about `Lexer` | |
| `BuilderProofs` | lemmas about `SsaBuilder` and `FunctionParser` | what each method keeps, what an open construct owes, what a call in progress relies on |
| `BindingProofs` | lemmas about `SsaBuilder`, `FunctionParser` | which variables are known in which block, with which type, and what each method keeps of that |
| `ParserProofs` | theorems about `FunctionParser` and its builder | on top of `BuilderProofs` and `BindingProofs`; every step keeps the invariants |

How state and actions correspond to the code:

- `BeginStatement`, `BeginWhile`, `Finish...`, `IfCondition`, `EndThen...`, `WhileCondition`,
  `EndLoop` are the stretches of the `parse_...` methods between two recursive calls. A
  construct that waits for an expression or a body is an entry of `ctl`. An expression leaves
  its value in `ret` and its type in `ety`.
- A name in an expression pushes a `read` frame on `work`; the parser goes on when `work` is
  empty again. `seal_block` on a block that may have parked phis (a loop header) pushes a
  `seal` frame; on a block created a moment ago nothing can be parked, and it only records the
  seal (`SealFresh`). `NoParkedPhiLeft` checks that premise.
- Calls are modelled by the instruction they emit: a call without arguments is a `Literal`,
  a call of one argument is a `Unary`. What an `i64` operator computes is left open.
- A parse has a *shape*, chosen once from `Shapes`: the parameters and result, the names, literals,
  statement and expression forms it may use, and the bounds `MaxStatements`, `MaxBlocks` and
  `MaxValues`. A run explores every body of every shape, one shape deep in statements and another
  wide in operators and types. The bounds are in the guards of the actions that start a construct,
  never of those that finish one. A `return` is always allowed, so no parse is stuck at a bound.
- A shape's `allows` says whether a body may contain what the code gets wrong (see the findings):
  `shadowing`, `shortCircuitInWhile`, `missingReturn`. The passing runs allow none and so speak of
  the remaining programs; the violation runs allow one each.
- A function called by the one `Machine` runs is represented by its contract: the result in
  RET_REG, STACK_PTR and the stack below it kept, everything else lost, its region of memory
  included, which is this function's own when the call is recursive. That contract is what
  `CallersStackKept` and `StoresStayInside` check of every call, so calls nested to any depth
  are covered by one. `SpillsInRecursion` says whether a function with spills may call itself:
  the passing run says no (`regalloc.rs` documents the limit), a violation run says yes.
- Operations of the intermediate form yield any value; `Machine` picks one and `Interp` has to be
  able to pick the same with the operands it has. A register or slot nobody has written holds
  `Junk`, which no value of the interpreter equals.
- The parser is modelled twice, at two grains. `FunctionParser` leaves the tokens open and follows
  blocks, values and scopes; `ModuleParser` reads given tokens and follows the cursor, signatures
  and types. What one knows and the other does not is a choice there: whether a variable is in
  scope, with which type, and whether a block has ended (`Variable`, `RefuseBody`).
- `ModuleParser.Expand` is a parsing method looking at the next token (or two) and calling others;
  `Match`, `TakeName`, `TakeParamType` and the like are `expect`, `expect_ident` and `expect_type`.
  `Skip` with its depth is the loop of `skip_block`.
- In `CompileModule` a function comes with what `lower_function` returned for it: pending blocks and
  `local_index`. A block keeps its terminator and, as history, the place `at` of the function it was
  made for; that place is the refinement mapping from `RunProgram` to `CallFlow`: the return stack
  and the current block stand for the activations of the interpreter.
- `log` is a history variable: what the source does in each block, by variable name and depth
  of the declaring scope. `FunctionMeaning` replays it as the meaning of the source. It never
  influences a step of the parser.

## Runs

| Run | Question | Bounds |
|---|---|---|
| `parser_structure` | Do edges, seals, parked phis and terminators stay consistent at every step, does every read and seal return (liveness), and does the validator accept everything the parser accepts? | two shapes: one variable, three nested statements, so a loop in a loop and an if in a loop with reads on every side; and two names, two types, two statements with every operator shape and error exit |
| `meaning` | Does every read see the last write, do arms run when their condition says, do `and` / `or` have the right value, and are accepted functions well-formed? | two shapes: two statements over eight blocks with `and` / `or`, one inside another; two parameters and three statements, enough for a loop that moves one variable into another, where the order of phis matters. Every execution. A `let` writes as an assignment does and is left to `shadowing` |
| `regalloc` | Does `allocate` return, does the analysis it begins with only add and compute exactly liveness, and does the colouring protect every value still needed? | all placements of three values in a diamond, a while loop, a loop tested at its end, two nested loops; four in a loop; five in and behind the body of a loop tested at its end; three registers of which one is reserved, so that registers run out and values spill, among the five two at once |
| `lowering` | Does the compiled function read, branch and return exactly as the interpreter, and keep to its memory? | four general registers of which two are reserved, a region of five slots: values in registers, spilled values, a region that is too small; two calls in a row, a call across which values live, a call in an arm and in a loop, two loop-carried values in every exchange |
| `linking` | Does the linked program move through blocks and calls as the functions say, for the command line and for a library client, and are layout, registers and error exits right? | up to three functions, two being the most the stack leaves room for; straight code, a branch and a loop, with no, one or two calls; up to four parameters where a byte has four values and three registers exist; three calls in progress |
| `module_parser` | Do the two passes agree, is every call checked against the function it names, does every parse end? | three programs that between them use every statement, every level of operators, forward calls and parameters, and every source that is one insertion, deletion, replacement or exchange away from one |
| `lexer` | Do the tokens cover the text, is each the longest, does scanning end? | every text of four of fourteen characters, every text of five of the seven that interact |
| `recursion_spills` | finding: a spilled value across a recursive call | as `lowering` |
| `spill_overrun` | finding: spills beyond the region | one slot, two spilled values |
| `while_short_circuit` | finding: `and` / `or` in a while condition | one statement |
| `missing_return` | finding: a body that does not return | one statement |
| `shadowing` | finding: a `let` that reuses an outer name | two statements |

The bounds are small because the constructs compose: a `parse_...` method sees its context only
through the current block, the scopes and the builder, and three nested statements already give
every pair of (construct, enclosing construct) with a read and a write on either side.
The scale of `linking` shrinks the numbers (27 registers, 128 regions, 256 values of a byte) but keeps
their order; the theorems below are for any. In `lexer` no decision looks further than one character
ahead except within a run of equal classes. In `module_parser` one edit makes every kind of
disagreement between the passes that braces, headers or calls allow: a brace too many or too few, a
keyword in the wrong place, an argument dropped.
Functions with a phi whose operand is another phi of the same block, a loop whose header is
sealed with two parked phis, and an `if` whose arms both return are all among them. For the
analysis, the graphs contain a join, a back edge to a header that tests, a back edge to the
block itself and a back edge inside another one.

Deadlock checking is on in every run: a stuck parse would be one.

### Properties worth a word

- `EndedBlocksStay` is an action property: once a block has its terminator the parser never ends it
  differently and adds nothing to it but the phis of later reads.
- `NoInternalError` is what `main.rs` calls an internal error and `lib.rs` leaves to the validator.
- `EdgesAgree` compares the builder's incremental `preds` with the graph, edge for edge; the
  phi lengths come from the first and the validator's from the second.
- `NoReadWaitsOnItself` is why the recursion ends: the phi is bound before its operands are read.
- `DefinitionsDominateUses` is what the validator documents it does not check and what the
  interpreter's indexing relies on.
- `NoCriticalEdge` is the unstated assumption of `lower`: it emits the else edge's phi copies
  before the conditional jump, where they run on both edges. `ImplementsInterpreter` holds only
  for functions without such a branch, the only ones `MCMachine` gives it; the validator
  accepts others, which only a caller of `compile_module` other than the parser could supply.
- `ReadsSeeLastWrite` is the meaning of the whole SSA construction, checked by running the
  result against the source on every path.
- `ImplementsInterpreter` is refinement: `Machine`'s steps, seen through what its registers and
  memory hold, are steps of `Interp`. It fails when a parallel move is not parallel, a register
  live across a call is not saved, a temporary overlaps a spill or a branch falls through wrongly.
- `LivenessIsExact` and `NothingNeededIsOverwritten` use a definition of liveness by paths that
  shares nothing with the dataflow equations but the uses and definitions of one block.

- `EveryTokenParsed` relates the two passes: where the first, counting braces, saw a function end,
  the second, parsing, ended too. Neither checks the other in the code.
- `TargetsLand` does not repeat the arithmetic of the resolution: it looks up which function and
  which place the block at the target was made for.
- `ImplementsCallFlow` is refinement again: the machine's current block and return stack, seen as
  activations, take the interpreter's steps, whoever started the program.
- `UndefinedMeansNowhere` says what "forward and mutually recursive calls resolve" means in terms of
  the source alone: no `fn` outside of all braces has the name that was refused. It speaks neither of
  `sigs` nor of either pass.
- `ArgumentsFitReserved` depends on an order across files: the cast in `lib.rs` may lose the high
  bits of the largest arity, but `allocate` refuses any function with more parameters than registers.
- `LongestMatch` is stated from the spelling of tokens alone.

### Fairness

`FunctionParser` has weak fairness of `RunBuilder` only: a Rust call that has started goes on.
`RegAlloc` (`AllocStep`), `ModuleParser` (`ParseStep`) and `Lexer` (`LexStep`) have weak fairness of
their one thread of steps, for the same reason. Nothing is assumed about which of several possible
steps is taken, nor about what comes next in the source.

## Proofs

The proof modules show safety or refinement, for every value of the constants. Each module's
assumptions are those of the module it is about, and TLC evaluates them in the runs.

- **Liveness.** For every function satisfying `IsFunction` (every name resolves, a phi pairs operands
  with blocks, parameters come first). The equations at the end (`SolvesEquations`) are not
  inductive: a visit changes the sets its neighbours were computed from. `IInv` adds that no set is
  ever ahead of its equation (`NotAhead`), from which growth follows (`SetsOnlyGrow`) since the
  equations are monotone, and that in a sweep without a change the blocks behind are solved
  (`SolvedBehind`). `BelowEverySolution` is a second invariant on top of the first; with it the
  result is the *least* solution (`LeastSolution`), so nothing leaks around a back edge.
- **Liveness is what paths say** (`ResultIsLiveness`). `LiveInByPath` recurs over the length of a
  path. The library's theorems about recursion take operators as arguments, which the provers cannot
  instantiate; `Induct` and `Recursion` say the same of sets and functions and are proved from the
  well-order of the naturals. `RoundsEnd` is the counting argument: a set that each round only adds
  to is stable after as many rounds as there are blocks. `PathEquation` follows (paths of any
  length satisfy the block-by-block equation), then both inclusions: liveness by paths solves the
  analysis' equations (`PathsSolve`), so by `LeastSolution` it contains the result, and every solution contains it
  (`SolutionsHavePaths`).
- **Register allocation.** For every such function, number of registers, reserved registers and spill
  base (`RegistersAssumption`). `AllocInv` is the conjunction of the properties with the liveness
  invariant and `HomesSoFar`. The liveness invariant is needed because interference is read from
  sets that change until the analysis has ended; `HomesSoFar` says colouring has not started
  before, and that the value reached is not yet anyone's. `SlotsBehind` says that every
  slot lies a whole value below the next address, so a new slot overlaps none given before.
  `ArgumentRegistersAreFree` proves what `regalloc.rs` sets registers aside for. The lowering does not
  depend on it: `lower.rs` saves every live register around a call and stages all arguments in memory
  first, and without the reservation `ImplementsInterpreter` still holds on the instance of `lowering`.
  `NeededValuesSurvive` connects the colouring with paths: a value that is needed behind an
  instruction or on an edge is in the set the allocator looked at (`NeededIsLive`, from
  `ResultIsLiveness`), so it interferes, so it is apart.

- **Module compilation.** For every set of modules whose functions are what `lower_function` returns
  and have distinct names (`ModulesAssumption`) and every layout in which the registers are fewer than
  the values of a byte (`LayoutAssumption`). `TargetsLand` speaks of the finished program only; `IInv`
  carries it through both passes. `Progress` says which functions and blocks have been reached,
  `Linked` that each function lowered so far lies, unbroken, from its entry in `function_entry` and
  that its `local_index` is the one recorded, `Resolved` that each block resolved so far has its
  target one above the pending block meant, and `LaidOut` that the regions so far are consecutive;
  the stack bound then follows from the layout check by multiplication. `FewParameters` says that
  every function lowered had at most `NumGpRegs` parameters, so that the largest arity is below
  `ByteRange` and the cast lost nothing once every function is through. `LeastNatural` and
  `LargestArityIsLargest` show that the maximum exists.

- **The linked program.** `RInv` adds to `IInv` of `compile_module`, which it needs until the program
  is finished, what remains true while the program runs: `CodeLinked` (each block of each function
  is where `function_entry` says, its targets are addresses), `ClientLinked` (the driver and the halt
  behind all of them, or the jump in front) and `OnStack` (every address the machine holds is that
  of a block of some function, but for one at the bottom of the stack). `NoInternalErrorHappens`
  follows from the validator having accepted the calls. `LinkedProgramFollowsCalls` is a step
  simulation: each of `Jmp`, `Jz`, `Fall`, `Call`, `Ret` and `Halt` is a step of `CallFlow` seen
  through `Activations`, and compiling is a stutter. What one function's lowered code looks like is
  `LoweringAssumption`: blocks lie in the order of their places, a call is followed by the rest of
  its block, a jump leads to a successor. TLC evaluates it for the modules of `linking`, which are
  built as `lower` builds code; that `Lower` satisfies it for every function is not proved.
- **The module parser.** For every set of sources that end in their only `Eof` (`SourcesAssumption`).
  The two passes are related by what is in the source. `HeaderAt(s, h)` describes a header by the
  places of its tokens, so that the second reading from the same start has to find the same name,
  parameters and result; `Progress` is how far a reading has come, goal by goal. The end of a body
  is described by braces: `Closes(q)` says token `q - 1` closes the last brace open. `skip_block`
  counts these braces; the second pass does not, but its goals owe them: between two goals of a
  body as many braces remain to be matched as are open (`ParsingBody`), whatever statements and
  expressions stand between. Hence both end at the first `q` that closes, `EveryTokenIsParsed`.
  `FnsFound` carries `UndefinedIsNowhere`: every `fn` outside of braces has begun a span and is in
  `sigs` before the first body is read. `CallsOfModuleAreValid` needs that no signature changes in
  the second pass and that the functions handed on have the signatures the first pass recorded.
- **The allocator runs the analysis.** `AllocationRunsTheAnalysis`: every behaviour of `AllocSpec`,
  seen through the analysis' variables, is one of `Init /\ [][Next]_liveVars`, so the theorems about
  the analysis alone hold of it inside the allocator.
- **The function parser and the SSA builder.** For every body of every shape, of any length and
  nesting, but for one thing: the theorems assume `~ShortCircuitInWhile`, that no condition of a
  `while` contains `and` / `or`. That is what the code gets wrong (finding 1), and the first theorem
  is false without it. Bodies that shadow a name or do not return are included,
  except in `AcceptedFunctionsAreValid`.
  The properties say when `preds`, `sealed` and `incomplete_phis` agree with the graph, which no
  method of the builder ensures by itself: `terminate` takes an edge into any block, `seal_block` takes
  the caller's word. So the invariant `Inv` says what the callers owe:
  - `Core` describes the record for a given set of blocks counted as shut: edges and predecessors
    agree, an open block has only parked phis, a shut one only complete ones, except for the phis that
    calls in progress still work on, and a branch's targets have one predecessor and no phi. A block
    counts as shut when `seal_block` has taken its parked phis, before it is recorded in `sealed`;
    in between the two nothing may be parked there (`NoPhiStaysParked`).
  - `Stacked` and `EntryOK` say for each open construct which block it will still give an edge to,
    which it will still seal and enter, that these belong to it alone, and that every block that is not
    shut is one of these.
    A `while` whose condition used a second block would break it: the header is terminated twice.
  - `FramesOK` says for each builder call in progress what it relies on while a deeper one runs: the phi
    it fills is in a shut block and has not more operands than that block has predecessors, and while
    a block is being sealed every variable still read for it is bound there.
  - `Phase` says which of these hold at each stop of the parser: at a statement, waiting for an operand,
    with a value, reading a name, done.

  `InvStep` proves that each action and each turn of the builder keeps `Inv`, and with it `Keeps`: an
  ended block keeps its terminator, a sealed one its predecessors. The action properties are read off
  `Keeps`, the others off `Inv`. For `EveryBlockIsReached`, `Rooted` is invariant as well: every block
  but the entry has an edge from a block made before it, because each step leads to the blocks it
  makes (`Led`) and a join is only made when an arm reaches it. `SearchFindsAll` then follows the
  search round by round.
- **Bindings.** `Inv` speaks of blocks. What a variable read finds there, and of which type, takes a
  second invariant (`AlwaysFits`): two tables `I` and `O` exist that fit the function made so far.
  `I[b]` holds the variables block `b` expects from its predecessors, each with its type, `O[b]` those
  known at its end. The tables are not in the code, and no single state determines them: a header's
  are fixed when it is made, to what is in scope there, long before its last edge.
  - `Known` says what fitting means: a variable of `O[b]` is bound in `b` to a value of its type or is
    in `I[b]`, `I[b]` is contained in `O[p]` for each predecessor `p`, parked phis are of variables
    in `I[b]`, and the entry block expects nothing.
  - `Nested` ties the scopes to the open constructs: the bodies on the stack say how
    many scopes are around each construct, and the block it will enter later knows the names in those. `ClosedOver`
    says that every block without terminator is the current one or belongs to an open construct.
  - `FramesFit` says of each builder call in progress that the variable it reads is in the table of
    the block it is at, so it is in `O` of every block the read goes on to.
  - `Sound` says that every operand so far has the type its instruction or terminator asks for.

  A read at a sealed block without binding is of a variable in `I[b]`; the entry block expects
  nothing, and by `Rooted` every other block has a predecessor: `EveryReadIsAnswered`. `Sound`,
  `ClosedOver` with no construct left, and complete phis are what `validate_function` asks for:
  `AcceptedFunctionsAreValid`. It needs `~MissingReturn` for the last block (finding 2) and
  `~Shadowing`: a `let` that shadows makes reads find the inner variable (finding 3), perhaps of
  another type. With shadowing types are not followed (`Kind` is then the same for all), which still
  gives the first theorem.
- **Lexer.** For every set of texts over the alphabet and every `MaxInt`. `EveryCharacterOnce` is not
  inductive by itself: whether a character lies in a comment depends on slashes that may be far
  behind it. `NoCommentOpen` adds that at the head of the loop the line of every comment begun so far
  has ended (or the text has), so a token read now lies in none; `TokensBehind` that no earlier token
  reaches into what is read now. `RunEnds` shows that a run of characters always ends.
  `TokensAreLongest` needs no more than that: a token is read in one step and never changed.

Model-checked only:

- the liveness properties, `AllocateReturns`, `CallsReturn`, `ParseEnds` and `LexEnds` (fairness);
- of the function parser and the SSA builder: `NoReadWaitsOnItself` and `DefinitionsDominateUses`. They
  need to know which blocks lie in which loop and where each value was defined; the tables say only
  that a variable has a value;
- `ReadsSeeLastWrite` and `ConditionsDecide` relate two executions step by step and would need that
  and the order of the log on top;
- the lowered code of one function (`lowering`), and so `LoweringAssumption` for code `Lower` makes;
- `ModuleParser.TypeOK`, whose last part says that an expression leaves no type behind: it takes an
  invariant about how each goal of an expression changes the stack of types.

## Findings

1. `while` with `and` / `or` in its condition (`parser.rs:441`): `while_short_circuit`.
2. A body without a final `return` is accepted by `parse` (`parser.rs:251`): `missing_return`.
   The command line validates afterwards and reports it as an IR error.
3. A `let` that reuses an outer name (`parser.rs:301`): `shadowing`. When the types differ the
   same leak yields a value of the wrong type.
4. Spilled values are not saved around recursive calls (`lower.rs:311`): `recursion_spills`. A limit
   `regalloc.rs` states and nothing refuses.
5. Spills alone may exceed a function's region unnoticed (`lower.rs:153`): `spill_overrun`. With 27
   registers and 4096 bytes it takes a block with some 540 values and no call or join.

## Not modelled

- `dump_ir.rs` (rendering), `Display` of tokens and types, the text of errors and spans.
- Arithmetic: what an operator computes, division by zero, wrap-around. `FunctionMeaning`, `Interp` and
  `Machine` take any result; `Validate` knows operators by their signatures.
- mentat (external) beyond what the code generator relies on: traps, the size of memory and of the
  return stack. The software stack is unbounded in `compile_module` and so it is here.
- Files and the `.ckp` format. `chakobsac run` of a program built before runs what `build` wrote.
- A module without functions: `compile_module` makes a block that jumps to a block that does not
  exist; the command line refuses such a module for want of a `main`, and mentat's own validation
  stops a library client (`InvalidProgram`).
- Of the grammar, `==`, `!=`, `<=`, `>`, `>=`, `/` and `%` stand beside `<` and `*` at the same level and
  are left out of `ModuleParser`.
- The command line asks for a `main` without parameters and, unlike its help text, does not look at
  its result type; nothing depends on it.
- `i32::MIN` and `i64::MIN` cannot be written: a minus sign is an operation on a literal that must fit
  by itself (`lower.rs:256`, `lexer/src/lib.rs:193`). No property relates the two.

## Plan

1. The validator and the interpreter on arbitrary small IR rather than parsed IR: which of the
   interpreter's `expect`s the validator rules out.
2. What operators compute: `eval_bin` and `eval_un` against the opcodes chosen by `lower`, at a small
   width, with division and the limits of immediates.
3. Proofs: `ModuleParser.TypeOK`; `DefinitionsDominateUses`, from tables that name the defining blocks
   as well; `StoresStayInside` and `CallersStackKept` from an invariant of `Lower`'s pending
   code; `LoweringAssumption` from the same; parallel moves for any moves.
