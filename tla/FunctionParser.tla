--------------------------- MODULE FunctionParser ---------------------------
(***************************************************************************)
(* parse_function of crates/parser/src/parser.rs: the recursive-descent    *)
(* parser of one function body, driving the SSA builder with no syntax     *)
(* tree in between.  The token stream is not represented: which construct  *)
(* comes next is a nondeterministic choice, so the behaviours are the      *)
(* parses of every function body, and the parser's Rust call stack is the  *)
(* sequence ctl of constructs still open, innermost first.                 *)
(*                                                                         *)
(* History variable log records, block by block, what the source means     *)
(* there, independently of the SSA values: it is used by FunctionMeaning.  *)
(***************************************************************************)
EXTENDS SsaBuilder

CONSTANT Shapes  \* the functions that are parsed and what occurs in them: a
                 \* function from names to records with the fields below

VARIABLE shape   \* the one that is parsed

Params  == Shapes[shape].params          \* a sequence of [name, ty]
RetType == Shapes[shape].ret             \* the declared return type
LocalVars == Shapes[shape].vars          \* the names that occur
LiteralTypes == Shapes[shape].literals   \* the types of literals
\* The statements that occur, besides return: a subset of {"expr", "let",
\* "assign", "if", "while"}; and the expressions: a subset of {"literal",
\* "name", "un", "bin", "and", "or"}.
StatementForms  == Shapes[shape].statements
ExpressionForms == Shapes[shape].expressions
MaxStatements == Shapes[shape].maxStatements  \* bound: statements other than return
MaxBlocks == Shapes[shape].maxBlocks   \* bound: no construct that needs blocks beyond these
MaxValues == Shapes[shape].maxValues   \* bound: no optional operator beyond these
\* May a let reuse a name of an enclosing scope, may a while condition contain
\* and / or, may the body end without returning on every path?
Shadowing           == "shadowing" \in Shapes[shape].allows
ShortCircuitInWhile == "shortCircuitInWhile" \in Shapes[shape].allows
MissingReturn       == "missingReturn" \in Shapes[shape].allows

ASSUME ParserAssumption ==
  /\ Types \subseteq {"bool", "i64"}
  /\ \A n \in DOMAIN Shapes :
       LET f == Shapes[n]
       IN  /\ f.params \in Seq([name : f.vars, ty : Types]) /\ f.ret \in Types
           /\ f.vars \subseteq Vars /\ f.literals \subseteq Types
           /\ {f.maxStatements, f.maxBlocks, f.maxValues} \subseteq Nat
           /\ f.allows \subseteq {"shadowing", "shortCircuitInWhile", "missingReturn"}

VARIABLES
  mode,     \* "stmt", "operand", "reading", "value", "done" or an error
  ety,      \* the type of the expression value in ret
  cur,      \* ctx.current_block
  scopes,   \* ctx.scopes: name to declared type, innermost last
  ctl,      \* the open constructs, innermost first
  stmts,    \* statements begun, for MaxStatements
  log       \* what the source does in each block, in order

parserVars == <<shape, mode, ety, cur, scopes, ctl, stmts, log>>
vars == <<builderVars, parserVars>>

Errors == {"TypeMismatch", "UndefinedVariable", "UnreachableCode"}
NoType == "none"
EmptyScope == [x \in Vars |-> NoType]
\* The scope a function's parameters, whose names differ, make up.
ParamScope(params) ==
  [x \in Vars |-> IF \E i \in DOMAIN params : params[i].name = x
                  THEN params[CHOOSE i \in DOMAIN params : params[i].name = x].ty
                  ELSE NoType]

\* An open construct: its kind, the name it binds, up to two blocks and a value.
Open(k, x, b, c, v) == [k |-> k, x |-> x, b |-> b, c |-> c, v |-> v]
Bodies == {"fn", "then", "else", "loop"}
Inner  == Head(ctl)
Idle   == work = <<>>

\* The scope that binds x, innermost first; 0 when there is none.
ScopeOf(x) ==
  LET binding == {i \in DOMAIN scopes : scopes[i][x] # NoType}
  IN  IF binding = {} THEN 0 ELSE CHOOSE i \in binding : \A j \in binding : j <= i
LookupVar(x) == scopes[ScopeOf(x)][x]

PushScope == scopes' = Append(scopes, EmptyScope)
PopScope  == scopes' = SubSeq(scopes, 1, Len(scopes) - 1)

\* Log entries.  A source variable is a name and the depth of the scope that
\* declares it; v is the value the parser holds for what the entry is about.
Event(ev, x, d, v, w) == [ev |-> ev, x |-> x, d |-> d, v |-> v, w |-> w]
Wrote(x, d, v)  == Event("write", x, d, v, NoValue)
ReadAs(x, d, v) == Event("read", x, d, v, NoValue)
Taken(v)        == Event("taken", "", 0, v, NoValue)
NotTaken(v)     == Event("nottaken", "", 0, v, NoValue)
\* v is the value of "lhs k rhs", w that of rhs; lhs is the first entry of short.
Combined(k, short, v, rhs) == Event(k, "", short, v, rhs)
Logged(l, b, e) == [l EXCEPT ![b] = Append(@, e)]

Fail(e) == /\ mode' = e
           /\ UNCHANGED <<bld, work, ret, ety, cur, scopes, ctl, stmts, log>>

-----------------------------------------------------------------------------
(* Statements.                                                             *)

AtStatement == mode = "stmt" /\ Idle /\ Inner.k \in Bodies

\* The unreachable-code check at the top of parse_block_body's loop.
UnreachableCode == AtStatement /\ IsTerminated(bld, cur) /\ Fail("UnreachableCode")

\* Mutant of BeginStatement: statements after the end of a block are accepted.
BeginStatementAnywhere(k, x) ==
  /\ AtStatement
  /\ k # "return" => stmts < MaxStatements /\ k \in StatementForms
  /\ k = "if" => LastBlock(bld) + 3 <= MaxBlocks
  /\ ctl' = <<Open(k, x, 0, 0, NoValue)>> \o ctl
  /\ stmts' = IF k = "return" THEN stmts ELSE stmts + 1
  /\ mode' = "operand"
  /\ UNCHANGED <<builderVars, ety, cur, scopes, log>>

\* A statement that starts by parsing an expression.  A return is always
\* possible, so the bound never leaves a body that cannot be finished.
BeginStatement(k, x) ==
  /\ AtStatement
  /\ ~IsTerminated(bld, cur)
  /\ k # "return" => stmts < MaxStatements /\ k \in StatementForms
  /\ k = "if" => LastBlock(bld) + 3 <= MaxBlocks
  /\ k = "let" /\ ~Shadowing => ScopeOf(x) \in {0, Len(scopes)}
  /\ ctl' = <<Open(k, x, 0, 0, NoValue)>> \o ctl
  /\ stmts' = IF k = "return" THEN stmts ELSE stmts + 1
  /\ mode' = "operand"
  /\ UNCHANGED <<builderVars, ety, cur, scopes, log>>

\* Mutant of BeginWhile: the header is sealed as soon as it is created.
BeginWhileSealed ==
  /\ AtStatement /\ "while" \in StatementForms
  /\ ~IsTerminated(bld, cur)
  /\ stmts < MaxStatements
  /\ LastBlock(bld) + 3 <= MaxBlocks
  /\ LET s == NewBlock(bld)
         header == LastBlock(s)
     IN  /\ bld' = SealFresh(Terminate(s, cur, Jump(header)), {header})
         /\ cur' = header
         /\ ctl' = <<Open("while", "", header, 0, NoValue)>> \o ctl
  /\ log' = Append(log, <<>>)
  /\ stmts' = stmts + 1
  /\ mode' = "operand"
  /\ UNCHANGED <<work, ret, ety, scopes>>

\* parse_while up to its condition: jump to a new header, left unsealed.
BeginWhile ==
  /\ AtStatement /\ "while" \in StatementForms
  /\ ~IsTerminated(bld, cur)
  /\ stmts < MaxStatements
  /\ LastBlock(bld) + 3 <= MaxBlocks
  /\ LET s == NewBlock(bld)
         header == LastBlock(s)
     IN  /\ bld' = Terminate(s, cur, Jump(header))
         /\ cur' = header
         /\ ctl' = <<Open("while", "", header, 0, NoValue)>> \o ctl
  /\ log' = Append(log, <<>>)
  /\ stmts' = stmts + 1
  /\ mode' = "operand"
  /\ UNCHANGED <<work, ret, ety, scopes>>

AtValue(k) == mode = "value" /\ Idle /\ Inner.k = k
NextStatement == mode' = "stmt" /\ ctl' = Tail(ctl)

ExprStatement ==
  /\ AtValue("expr")
  /\ NextStatement
  /\ UNCHANGED <<builderVars, ety, cur, scopes, stmts, log>>

FinishLet ==
  /\ AtValue("let")
  /\ scopes' = [scopes EXCEPT ![Len(scopes)][Inner.x] = ety]
  /\ bld' = Write(bld, Inner.x, cur, ret)
  /\ log' = Logged(log, cur, Wrote(Inner.x, Len(scopes), ret))
  /\ NextStatement
  /\ UNCHANGED <<work, ret, ety, cur, stmts>>

\* The name is looked up after its expression has been parsed.
FinishAssign ==
  /\ AtValue("assign")
  /\ ScopeOf(Inner.x) # 0 /\ LookupVar(Inner.x) = ety
  /\ bld' = Write(bld, Inner.x, cur, ret)
  /\ log' = Logged(log, cur, Wrote(Inner.x, ScopeOf(Inner.x), ret))
  /\ NextStatement
  /\ UNCHANGED <<work, ret, ety, cur, scopes, stmts>>

AssignUndefined ==
  /\ AtValue("assign")
  /\ ScopeOf(Inner.x) = 0
  /\ Fail("UndefinedVariable")

\* Mutant of FinishReturn: the value's type is not checked.
FinishReturnAnyType ==
  /\ AtValue("return")
  /\ bld' = Terminate(bld, cur, Return(ret))
  /\ NextStatement
  /\ UNCHANGED <<work, ret, ety, cur, scopes, stmts, log>>

FinishReturn ==
  /\ AtValue("return")
  /\ ety = RetType
  /\ bld' = Terminate(bld, cur, Return(ret))
  /\ NextStatement
  /\ UNCHANGED <<work, ret, ety, cur, scopes, stmts, log>>

-----------------------------------------------------------------------------
(* if and while, once their condition has been parsed.                     *)

\* The two new blocks of an if, sealed at once; parsing goes on in the first.
IfCondition ==
  /\ AtValue("if")
  /\ ety = "bool"
  /\ LET s == NewBlock(NewBlock(bld))
         thenB == LastBlock(bld) + 1
         elseB == LastBlock(bld) + 2
     IN  /\ bld' = SealFresh(Terminate(s, cur, Branch(ret, thenB, elseB)), {thenB, elseB})
         /\ cur' = thenB
         /\ ctl' = <<Open("then", "", elseB, 0, NoValue)>> \o Tail(ctl)
  /\ log' = log \o << <<Taken(ret)>>, <<NotTaken(ret)>> >>
  /\ PushScope
  /\ mode' = "stmt"
  /\ UNCHANGED <<work, ret, ety, stmts>>

\* Mutant of CloseIf: a join is created even when both arms have ended.
CloseIfAlwaysJoin(thenTail, elseTail) ==
  LET s == NewBlock(bld)
      join == LastBlock(s)
      fromThen == IF IsTerminated(bld, thenTail) THEN s ELSE Terminate(s, thenTail, Jump(join))
      fromBoth == IF IsTerminated(bld, elseTail) THEN fromThen
                  ELSE Terminate(fromThen, elseTail, Jump(join))
  IN  /\ bld' = SealFresh(fromBoth, {join})
      /\ cur' = join
      /\ log' = Append(log, <<>>)

\* Mutant of CloseIf: both arms jump to the join, ended or not.
CloseIfAlwaysJump(thenTail, elseTail) ==
  LET s == NewBlock(bld)
      join == LastBlock(s)
  IN  /\ bld' = SealFresh(Terminate(Terminate(s, thenTail, Jump(join)), elseTail, Jump(join)),
                          {join})
      /\ cur' = join
      /\ log' = Append(log, <<>>)

\* The join of an if whose arms end in thenTail and elseTail; no join when
\* both are terminated.
CloseIf(thenTail, elseTail) ==
  LET thenDone == IsTerminated(bld, thenTail)
      elseDone == IsTerminated(bld, elseTail)
      s == NewBlock(bld)
      join == LastBlock(s)
      fromThen == IF thenDone THEN s ELSE Terminate(s, thenTail, Jump(join))
      fromBoth == IF elseDone THEN fromThen ELSE Terminate(fromThen, elseTail, Jump(join))
  IN  IF thenDone /\ elseDone
      THEN cur' = thenTail /\ UNCHANGED <<bld, log>>
      ELSE /\ bld' = SealFresh(fromBoth, {join})
           /\ cur' = join
           /\ log' = Append(log, <<>>)

AtBodyEnd(k) == mode = "stmt" /\ Idle /\ Inner.k = k

\* Mutant of EndThenNoElse: the empty else block doubles as the join.
EndThenIntoElse ==
  /\ AtBodyEnd("then")
  /\ bld' = IF IsTerminated(bld, cur) THEN bld ELSE Terminate(bld, cur, Jump(Inner.b))
  /\ cur' = Inner.b
  /\ PopScope
  /\ NextStatement
  /\ UNCHANGED <<work, ret, ety, stmts, log>>

\* The } of the then arm, with no else after it.
EndThenNoElse ==
  /\ AtBodyEnd("then")
  /\ CloseIf(cur, Inner.b)
  /\ PopScope
  /\ NextStatement
  /\ UNCHANGED <<work, ret, ety, stmts>>

\* } else {
EndThenElse ==
  /\ AtBodyEnd("then")
  /\ cur' = Inner.b
  /\ ctl' = <<Open("else", "", cur, 0, NoValue)>> \o Tail(ctl)
  /\ scopes' = [scopes EXCEPT ![Len(scopes)] = EmptyScope]
  /\ UNCHANGED <<builderVars, mode, ety, stmts, log>>

\* } else if: parse_if calls itself, with no block body around the inner if.
EndThenElseIf ==
  /\ AtBodyEnd("then")
  /\ stmts < MaxStatements
  /\ LastBlock(bld) + 4 <= MaxBlocks
  /\ cur' = Inner.b
  /\ ctl' = <<Open("if", "", 0, 0, NoValue), Open("elseif", "", cur, 0, NoValue)>> \o Tail(ctl)
  /\ PopScope
  /\ stmts' = stmts + 1
  /\ mode' = "operand"
  /\ UNCHANGED <<builderVars, ety, log>>

EndElse ==
  /\ AtBodyEnd("else")
  /\ CloseIf(Inner.b, cur)
  /\ PopScope
  /\ NextStatement
  /\ UNCHANGED <<work, ret, ety, stmts>>

EndElseIf ==
  /\ AtBodyEnd("elseif")
  /\ CloseIf(Inner.b, cur)
  /\ NextStatement
  /\ UNCHANGED <<work, ret, ety, scopes, stmts>>

\* parse_while after its condition.  The branch terminates the header, not
\* the block the condition ended in.
WhileCondition ==
  /\ AtValue("while")
  /\ ety = "bool"
  /\ LET s == NewBlock(NewBlock(bld))
         body == LastBlock(bld) + 1
         exit == LastBlock(bld) + 2
     IN  /\ bld' = SealFresh(Terminate(s, Inner.b, Branch(ret, body, exit)), {body, exit})
         /\ cur' = body
         /\ ctl' = <<Open("loop", "", Inner.b, exit, NoValue)>> \o Tail(ctl)
  /\ log' = log \o << <<Taken(ret)>>, <<NotTaken(ret)>> >>
  /\ PushScope
  /\ mode' = "stmt"
  /\ UNCHANGED <<work, ret, ety, stmts>>

\* The back edge, unless the body ended itself, then the header is sealed.
EndLoop ==
  /\ AtBodyEnd("loop")
  /\ CallSeal(IF IsTerminated(bld, cur) THEN bld ELSE Terminate(bld, cur, Jump(Inner.b)),
              Inner.b)
  /\ cur' = Inner.c
  /\ PopScope
  /\ NextStatement
  /\ UNCHANGED <<ret, ety, stmts, log>>

EndFunction ==
  /\ AtBodyEnd("fn")
  /\ MissingReturn \/ IsTerminated(bld, cur)
  /\ mode' = "done"
  /\ ctl' = <<>>
  /\ PopScope
  /\ UNCHANGED <<builderVars, ety, cur, stmts, log>>

-----------------------------------------------------------------------------
(* Expressions.                                                            *)

HaveValue(v, ty) == ret' = v /\ ety' = ty /\ mode' = "value"

\* A literal, or a call without arguments.
Literal(ty) ==
  /\ mode = "operand" /\ "literal" \in ExpressionForms
  /\ bld' = Emit(bld, cur, "constant", ty, <<>>, <<>>)
  /\ HaveValue(Len(bld.inst) + 1, ty)
  /\ UNCHANGED <<work, cur, scopes, ctl, stmts, log>>

\* A name in an expression: read_variable is called, then returns.
VarRef(x) ==
  /\ mode = "operand" /\ "name" \in ExpressionForms
  /\ ScopeOf(x) # 0
  /\ work' = <<ReadFrame(x, cur, LookupVar(x))>>
  /\ ety' = LookupVar(x)
  /\ mode' = "reading"
  /\ ctl' = <<Open("name", x, 0, 0, NoValue)>> \o ctl
  /\ UNCHANGED <<bld, ret, cur, scopes, stmts, log>>

VarRefUndefined(x) ==
  /\ mode = "operand" /\ "name" \in ExpressionForms
  /\ ScopeOf(x) = 0
  /\ Fail("UndefinedVariable")

VarRefReturns ==
  /\ mode = "reading" /\ Idle
  /\ log' = Logged(log, cur, ReadAs(Inner.x, ScopeOf(Inner.x), ret))
  /\ mode' = "value"
  /\ ctl' = Tail(ctl)
  /\ UNCHANGED <<builderVars, ety, cur, scopes, stmts>>

\* MaxValues, counting the operators still waiting for their right operand.
RoomForValue ==
  Len(bld.inst) + Cardinality({i \in DOMAIN ctl : ctl[i].k \in {"bin", "and", "or"}})
    < MaxValues

\* not and unary minus, and calls of one argument.
Unary(ty) ==
  /\ mode = "value" /\ "un" \in ExpressionForms /\ RoomForValue
  /\ ety = ty
  /\ bld' = Emit(bld, cur, "unary", ty, <<ret>>, <<>>)
  /\ HaveValue(Len(bld.inst) + 1, ty)
  /\ UNCHANGED <<work, cur, scopes, ctl, stmts, log>>

\* The left operand of an arithmetic or comparison operator is an i64.
BinaryLeft ==
  /\ mode = "value" /\ "bin" \in ExpressionForms /\ RoomForValue
  /\ ety = "i64"
  /\ ctl' = <<Open("bin", "", 0, 0, ret)>> \o ctl
  /\ mode' = "operand"
  /\ UNCHANGED <<builderVars, ety, cur, scopes, stmts, log>>

BinaryRight(ty) ==
  /\ AtValue("bin")
  /\ ety = "i64"
  /\ bld' = Emit(bld, cur, IF ty = "i64" THEN "arithmetic" ELSE "comparison", ty,
                 <<Inner.v, ret>>, <<>>)
  /\ HaveValue(Len(bld.inst) + 1, ty)
  /\ ctl' = Tail(ctl)
  /\ UNCHANGED <<work, cur, scopes, stmts, log>>

InWhileCondition == \E i \in DOMAIN ctl :
                      ctl[i].k = "while" /\ \A j \in 1 .. i : ctl[j].k \notin Bodies

\* Mutant of ShortCircuit: "and" branches like "or".
ShortCircuitSameBranch(k) ==
  /\ mode = "value" /\ ety = "bool" /\ k \in ExpressionForms
  /\ RoomForValue /\ LastBlock(bld) + 3 <= MaxBlocks
  /\ InWhileCondition => ShortCircuitInWhile
  /\ LET s == NewBlock(NewBlock(NewBlock(bld)))
         short == LastBlock(bld) + 1
         rhs   == LastBlock(bld) + 2
         join  == LastBlock(bld) + 3
         sealed == SealFresh(Terminate(s, cur, Branch(ret, short, rhs)), {short, rhs})
         const == Emit(sealed, short, IF k = "or" THEN "true" ELSE "false", "bool", <<>>, <<>>)
     IN  /\ bld' = Terminate(const, short, Jump(join))
         /\ cur' = rhs
         /\ ctl' = <<Open(k, "", short, join, LastValue(const))>> \o ctl
         /\ log' = log \o (IF k = "or" THEN << <<Taken(ret)>>, <<NotTaken(ret)>>, <<>> >>
                           ELSE << <<NotTaken(ret)>>, <<Taken(ret)>>, <<>> >>)
  /\ mode' = "operand"
  /\ UNCHANGED <<work, ret, ety, scopes, stmts>>

\* and / or after its left operand: a block for the short-circuit constant,
\* one for the right operand, and their join, which stays unsealed.
ShortCircuit(k) ==
  /\ mode = "value" /\ ety = "bool" /\ k \in ExpressionForms
  /\ RoomForValue /\ LastBlock(bld) + 3 <= MaxBlocks
  /\ InWhileCondition => ShortCircuitInWhile
  /\ LET s == NewBlock(NewBlock(NewBlock(bld)))
         short == LastBlock(bld) + 1
         rhs   == LastBlock(bld) + 2
         join  == LastBlock(bld) + 3
         test  == IF k = "or" THEN Branch(ret, short, rhs) ELSE Branch(ret, rhs, short)
         sealed == SealFresh(Terminate(s, cur, test), {short, rhs})
         const == Emit(sealed, short, IF k = "or" THEN "true" ELSE "false", "bool", <<>>, <<>>)
     IN  /\ bld' = Terminate(const, short, Jump(join))
         /\ cur' = rhs
         /\ ctl' = <<Open(k, "", short, join, LastValue(const))>> \o ctl
         /\ log' = log \o (IF k = "or" THEN << <<Taken(ret)>>, <<NotTaken(ret)>>, <<>> >>
                           ELSE << <<NotTaken(ret)>>, <<Taken(ret)>>, <<>> >>)
  /\ mode' = "operand"
  /\ UNCHANGED <<work, ret, ety, scopes, stmts>>

\* Mutant of ShortCircuitEnd: the phi names its operands' blocks the wrong way.
ShortCircuitEndCrossed ==
  /\ mode = "value" /\ Inner.k \in {"and", "or"}
  /\ ety = "bool"
  /\ LET s == SealFresh(Terminate(bld, cur, Jump(Inner.c)), {Inner.c})
     IN  bld' = Emit(s, Inner.c, "phi", "bool", <<Inner.v, ret>>, <<cur, Inner.b>>)
  /\ HaveValue(Len(bld.inst) + 1, "bool")
  /\ cur' = Inner.c
  /\ ctl' = Tail(ctl)
  /\ log' = Logged(log, Inner.c, Combined(Inner.k, Inner.b, Len(bld.inst) + 1, ret))
  /\ UNCHANGED <<work, scopes, stmts>>

\* Mutant of ShortCircuitEnd: the right operand is used with no phi.
ShortCircuitEndNoPhi ==
  /\ mode = "value" /\ Inner.k \in {"and", "or"}
  /\ ety = "bool"
  /\ bld' = SealFresh(Terminate(bld, cur, Jump(Inner.c)), {Inner.c})
  /\ HaveValue(ret, "bool")
  /\ cur' = Inner.c
  /\ ctl' = Tail(ctl)
  /\ log' = Logged(log, Inner.c, Combined(Inner.k, Inner.b, ret, ret))
  /\ UNCHANGED <<work, scopes, stmts>>

ShortCircuitEnd ==
  /\ mode = "value" /\ Inner.k \in {"and", "or"}
  /\ ety = "bool"
  /\ LET s == SealFresh(Terminate(bld, cur, Jump(Inner.c)), {Inner.c})
     IN  bld' = Emit(s, Inner.c, "phi", "bool", <<Inner.v, ret>>, <<Inner.b, cur>>)
  /\ HaveValue(Len(bld.inst) + 1, "bool")
  /\ cur' = Inner.c
  /\ ctl' = Tail(ctl)
  /\ log' = Logged(log, Inner.c, Combined(Inner.k, Inner.b, Len(bld.inst) + 1, ret))
  /\ UNCHANGED <<work, scopes, stmts>>

\* Every check of an expression's type: against what its context expects, or
\* against the operator that follows it.
TypeMismatch ==
  /\ mode = "value"
  /\ \/ ety = "i64"
     \/ ety = "bool" /\ "bin" \in ExpressionForms
     \/ Inner.k \in {"if", "while", "and", "or"} /\ ety # "bool"
     \/ Inner.k = "return" /\ ety # RetType
     \/ Inner.k = "assign" /\ ScopeOf(Inner.x) # 0 /\ LookupVar(Inner.x) # ety
  /\ Fail("TypeMismatch")

-----------------------------------------------------------------------------
Init ==
  /\ shape \in DOMAIN Shapes
  /\ bld = NewBuilder(Params)
  /\ work = <<>> /\ ret = NoValue
  /\ mode = "stmt" /\ ety = NoType
  /\ cur = 1
  /\ scopes = <<ParamScope(Params), EmptyScope>>
  /\ ctl = <<Open("fn", "", 0, 0, NoValue)>>
  /\ stmts = 0
  /\ log = <<[i \in DOMAIN Params |-> Wrote(Params[i].name, 1, i)]>>

Statement ==
  \/ \E k \in {"expr", "return", "if"} : BeginStatement(k, "")
  \/ \E k \in {"let", "assign"}, x \in LocalVars : BeginStatement(k, x)
  \/ BeginWhile \/ UnreachableCode
  \/ ExprStatement \/ FinishLet \/ FinishAssign \/ AssignUndefined \/ FinishReturn
  \/ IfCondition \/ EndThenNoElse \/ EndThenElse \/ EndThenElseIf \/ EndElse \/ EndElseIf
  \/ WhileCondition \/ EndLoop \/ EndFunction

Expression ==
  \/ \E ty \in LiteralTypes : Literal(ty)
  \/ \E ty \in Types : Unary(ty) \/ BinaryRight(ty)
  \/ \E x \in LocalVars : VarRef(x) \/ VarRefUndefined(x)
  \/ VarRefReturns \/ BinaryLeft
  \/ \E k \in {"and", "or"} : ShortCircuit(k)
  \/ ShortCircuitEnd \/ TypeMismatch

RunBuilder == BuilderStep /\ UNCHANGED parserVars

ParseStep == (Statement \/ Expression \/ RunBuilder) /\ UNCHANGED shape

\* The parse is over: the function is handed on, or the error is reported.
Finished == mode \in {"done"} \cup Errors
Stop == Finished /\ UNCHANGED vars

Next == ParseStep \/ Stop
Spec == Init /\ [][Next]_vars /\ WF_vars(RunBuilder)
=============================================================================
