---------------------------- MODULE ModuleParser ----------------------------
(***************************************************************************)
(* parse_module of crates/parser/src/parser.rs: the two passes over the    *)
(* tokens of a source, the first taking the signature of every function    *)
(* and skipping its body by its braces, the second parsing header and body *)
(* with all signatures at hand.  The calls that are still open in the      *)
(* recursive-descent parser are the sequence goals, innermost first: a     *)
(* goal is a token still to be expected, a parsing function still to be    *)
(* called, or what is left to be done once those have returned.            *)
(*                                                                         *)
(* Of an expression only its type is kept.  The blocks and values a body   *)
(* becomes, and the scopes its variables live in, are the subject of       *)
(* module FunctionParser: here a variable has some type, or is refused.    *)
(***************************************************************************)
EXTENDS CallCheck, Integers, FiniteSets

CONSTANTS
  Sources,   \* the sources: sequences of tokens
  Names      \* the tokens that are identifiers

Types  == {"bool", "i64"}
NoType == "none"

TypeTokens == {"bool", "i64"}
Operators == {"or", "and", "not", "<", "+", "-", "*"}   \* one or two of each level
\* Written as in a source or, some, named as by TokenKind.
Tokens == {"fn", "(", ")", "LBrace", "RBrace", ":", "Comma", "->", "Semicolon", "=", "let", "if",
           "else", "while", "return", "int", "true", "false", "Eof"} \cup TypeTokens \cup Operators

\* lex ends every token sequence with an Eof.
ASSUME SourcesAssumption ==
  /\ Names \cap Tokens = {}
  /\ \A s \in Sources : /\ s \in Seq(Tokens \cup Names)
                        /\ s # <<>> /\ s[Len(s)] = "Eof"
                        /\ \A k \in 1 .. Len(s) - 1 : s[k] # "Eof"

VARIABLES
  tokens,
  pos,
  goals,
  types,      \* the types of the operands and arguments parsed but not yet used
  header,     \* the function at hand: name, params, ret, and the calls emitted
  sigs,
  spans,      \* fn_starts; "end" is history: where the first pass found the end
  functions,  \* the functions parsed; "end" is where the second pass was then
  status      \* "parsing", "accepted" or an error

parserVars == <<tokens, pos, goals, types, header, sigs, spans, functions, status>>

Errors == {"UnexpectedToken", "DuplicateFunction", "DuplicateParameter", "UndefinedFunction",
           "ArgCountMismatch", "TypeMismatch", "UndefinedVariable", "UnreachableCode"}

Kind(t) == IF t \in Names THEN "ident" ELSE t
Next1 == Kind(tokens[pos])
Next2 == IF pos + 1 \in DOMAIN tokens THEN Kind(tokens[pos + 1]) ELSE "none"

\* What decides between alternatives: the next token, an identifier being told
\* apart by the token behind it.
LookAhead == IF Next1 # "ident" THEN Next1
             ELSE IF Next2 = "=" THEN "target" ELSE IF Next2 = "(" THEN "callee" ELSE "ident"
Ahead == Tokens \cup {"ident", "target", "callee"}

\* advance stays on the last token.
Advanced == IF pos + 1 \in DOMAIN tokens THEN pos + 1 ELSE pos

-----------------------------------------------------------------------------
(* The grammar: what a parsing function calls or expects next, by the      *)
(* tokens it looks at.                                                     *)

\* n is the depth of skip_block, the number of a function, or how many operands
\* were waiting when a call began.
Goal(do, n) == [do |-> do, n |-> n]
CallGoal(callee, n) == [do |-> "Call", n |-> n, callee |-> callee]
Plan(todo) == [k \in DOMAIN todo |-> Goal(todo[k], 0)]
Rule(goal, on, todo) == [goal |-> goal, on |-> on, todo |-> todo]
Optional(goal, on, todo) == {Rule(goal, on, todo), Rule(goal, Ahead \ on, <<>>)}
Always(goal, todo) == {Rule(goal, Ahead, todo)}

HeaderRules ==
  Always("Header", <<"fn", "Name", "(", "Params", ")", "->", "RetType">>)
  \cup Optional("Params", Ahead \ {")"}, <<"Param", "MoreParams">>)
  \cup Optional("MoreParams", {"Comma"}, <<"Comma", "Param", "MoreParams">>)
  \cup Always("Param", <<"ParamName", ":", "ParamType">>)

\* Mutant of BlockRules: the brace that ends a block is left for the next to take.
BlockRulesLeaveBrace ==
  Always("Body", <<"LBrace", "Statements">>)
  \cup Optional("Statements", Ahead \ {"RBrace"}, <<"Statement", "Statements">>)

BlockRules ==
  Always("Body", <<"LBrace", "Statements">>)
  \cup {Rule("Statements", {"RBrace"}, <<"RBrace">>),
        Rule("Statements", Ahead \ {"RBrace"}, <<"Statement", "Statements">>)}

StatementRules ==
  {Rule("Statement", {"let"}, <<"let", "ident", "=", "Or", "Semicolon", "Drop">>),
   Rule("Statement", {"target"}, <<"ident", "=", "Or", "Semicolon", "Assigned">>),
   Rule("Statement", {"return"}, <<"return", "Or", "Returned", "Semicolon">>),
   Rule("Statement", {"if"}, <<"If">>),
   Rule("Statement", {"while"}, <<"while", "Or", "Condition", "Body">>),
   Rule("Statement", Ahead \ {"let", "target", "return", "if", "while"},
        <<"Or", "Semicolon", "Drop">>),
   Rule("ElseBody", {"if"}, <<"If">>),
   Rule("ElseBody", Ahead \ {"if"}, <<"Body">>)}
  \cup Always("If", <<"if", "Or", "Condition", "Body", "Else">>)
  \cup Optional("Else", {"else"}, <<"else", "ElseBody">>)

\* A level of binary operators, those it applies to being on the level below;
\* all but comparisons can be chained.
Level(goal, more, below, op, want, apply, again) ==
  {Rule(goal, Ahead, <<below, more>>), Rule(more, {op}, <<op, want, below, apply>> \o again)}

ExpressionRules ==
  Level("Or", "MoreOr", "And", "or", "WantBool", "BoolBool", <<"MoreOr">>)
  \cup Level("And", "MoreAnd", "Not", "and", "WantBool", "BoolBool", <<"MoreAnd">>)
  \cup Level("Cmp", "MoreCmp", "Add", "<", "WantI64", "IntBool", <<>>)
  \cup Level("Add", "MoreAdd", "Mul", "+", "WantI64", "IntInt", <<"MoreAdd">>)
  \cup Level("Add", "MoreAdd", "Mul", "-", "WantI64", "IntInt", <<"MoreAdd">>)
  \cup Level("Mul", "MoreMul", "Unary", "*", "WantI64", "IntInt", <<"MoreMul">>)
  \cup {Rule("MoreOr", Ahead \ {"or"}, <<>>), Rule("MoreAnd", Ahead \ {"and"}, <<>>),
        Rule("MoreCmp", Ahead \ {"<"}, <<>>), Rule("MoreAdd", Ahead \ {"+", "-"}, <<>>),
        Rule("MoreMul", Ahead \ {"*"}, <<>>),
        Rule("Not", {"not"}, <<"not", "Not", "WantBool">>),
        Rule("Not", Ahead \ {"not"}, <<"Cmp">>),
        Rule("Unary", {"-"}, <<"-", "Unary", "WantI64">>),
        Rule("Unary", Ahead \ {"-"}, <<"Primary">>),
        Rule("Primary", {"int"}, <<"int", "PushI64">>),
        Rule("Primary", {"true"}, <<"true", "PushBool">>),
        Rule("Primary", {"false"}, <<"false", "PushBool">>),
        Rule("Primary", {"("}, <<"(", "Or", ")">>)}
  \cup Optional("Args", Ahead \ {")"}, <<"Or", "MoreArgs">>)
  \cup Optional("MoreArgs", {"Comma"}, <<"Comma", "Or", "MoreArgs">>)

Rules == HeaderRules \cup BlockRules \cup StatementRules \cup ExpressionRules

-----------------------------------------------------------------------------
Parsing == status = "parsing"
Top == Head(goals)
AtGoal(do) == Parsing /\ Top.do = do
Then(todo) == goals' = Plan(todo) \o Tail(goals)

Refuse(error) ==
  /\ status' = error
  /\ UNCHANGED <<tokens, pos, goals, types, header, sigs, spans, functions>>

Expand ==
  /\ Parsing
  /\ \E r \in Rules : /\ r.goal = Top.do /\ LookAhead \in r.on
                      /\ Then(r.todo)
  /\ UNCHANGED <<tokens, pos, types, header, sigs, spans, functions, status>>

\* expect of a kind of token.
Match ==
  /\ Parsing
  /\ Next1 = Top.do
  /\ pos' = Advanced
  /\ Then(<<>>)
  /\ UNCHANGED <<tokens, types, header, sigs, spans, functions, status>>

\* The tokens a goal can begin with.
Begins(do) == CASE do \in {"Name", "ParamName"}    -> {"ident"}
                [] do \in {"ParamType", "RetType"} -> TypeTokens
                [] do = "Primary" -> {"int", "true", "false", "(", "ident"}
                [] do \in Tokens \cup {"ident"} -> {do}
                [] OTHER -> Tokens \cup {"ident"}

UnexpectedToken ==
  /\ Parsing
  /\ Next1 \notin Begins(Top.do)
  /\ Refuse("UnexpectedToken")

-----------------------------------------------------------------------------
(* Headers and the first pass.                                             *)

NewHeader(name) == [name |-> name, params |-> <<>>, ret |-> NoType, calls |-> <<>>]

TakeName ==
  /\ AtGoal("Name") /\ Next1 = "ident"
  /\ header' = NewHeader(tokens[pos])
  /\ pos' = Advanced /\ Then(<<>>)
  /\ UNCHANGED <<tokens, types, sigs, spans, functions, status>>

TakeParamName ==
  /\ AtGoal("ParamName") /\ Next1 = "ident"
  /\ header' = [header EXCEPT !.params = Append(@, [name |-> tokens[pos], ty |-> NoType])]
  /\ pos' = Advanced /\ Then(<<>>)
  /\ UNCHANGED <<tokens, types, sigs, spans, functions, status>>

LastParam == Len(header.params)
RepeatsParam == \E k \in 1 .. LastParam - 1 :
                  header.params[k].name = header.params[LastParam].name

TakeParamType ==
  /\ AtGoal("ParamType") /\ Next1 \in TypeTokens
  /\ ~RepeatsParam
  /\ header' = [header EXCEPT !.params[LastParam].ty = tokens[pos]]
  /\ pos' = Advanced /\ Then(<<>>)
  /\ UNCHANGED <<tokens, types, sigs, spans, functions, status>>

DuplicateParameter ==
  /\ AtGoal("ParamType") /\ Next1 \in TypeTokens
  /\ RepeatsParam
  /\ Refuse("DuplicateParameter")

TakeRetType ==
  /\ AtGoal("RetType") /\ Next1 \in TypeTokens
  /\ header' = [header EXCEPT !.ret = tokens[pos]]
  /\ pos' = Advanced /\ Then(<<>>)
  /\ UNCHANGED <<tokens, types, sigs, spans, functions, status>>

\* The loop of the first pass.
NextHeader ==
  /\ AtGoal("Module") /\ Next1 # "Eof"
  /\ spans' = Append(spans, [start |-> pos, end |-> pos])
  /\ goals' = Plan(<<"Header", "Signature">>) \o goals
  /\ UNCHANGED <<tokens, pos, types, header, sigs, functions, status>>

Signature(h) == [params |-> [k \in DOMAIN h.params |-> h.params[k].ty], ret |-> h.ret]
Inserted == [f \in DOMAIN sigs \cup {header.name} |->
               IF f = header.name THEN Signature(header) ELSE sigs[f]]
SkipBlock == goals' = <<Goal("LBrace", 0), Goal("Skip", 1)>> \o Tail(goals)

\* Mutant of TakeSignature: a second signature replaces the first.
TakeSignatureAgain ==
  /\ AtGoal("Signature")
  /\ sigs' = Inserted
  /\ SkipBlock
  /\ UNCHANGED <<tokens, pos, types, header, spans, functions, status>>

\* Mutant of TakeSignature: signatures are left to the second pass.
TakeSignatureLate ==
  /\ AtGoal("Signature")
  /\ sigs' = IF sigs = <<>> THEN Inserted ELSE sigs
  /\ SkipBlock
  /\ UNCHANGED <<tokens, pos, types, header, spans, functions, status>>

\* The signature is kept, and skip_block begins at depth 1.
TakeSignature ==
  /\ AtGoal("Signature")
  /\ header.name \notin DOMAIN sigs
  /\ sigs' = Inserted
  /\ SkipBlock
  /\ UNCHANGED <<tokens, pos, types, header, spans, functions, status>>

DuplicateFunction ==
  /\ AtGoal("Signature")
  /\ header.name \in DOMAIN sigs
  /\ Refuse("DuplicateFunction")

Depth == Top.n + (IF Next1 = "LBrace" THEN 1 ELSE IF Next1 = "RBrace" THEN -1 ELSE 0)

\* Mutant of SkipToken: the end of the source does not stop it.
SkipTokenPastEof ==
  /\ AtGoal("Skip") /\ Top.n > 0
  /\ pos' = Advanced
  /\ goals' = <<Goal("Skip", Depth)>> \o Tail(goals)
  /\ UNCHANGED <<tokens, types, header, sigs, spans, functions, status>>

\* Mutant of SkipToken: the loop counts the position up by itself and does not
\* look for the end of the source.
SkipTokenOffTheEnd ==
  /\ AtGoal("Skip") /\ Top.n > 0
  /\ pos' = pos + 1
  /\ goals' = <<Goal("Skip", Depth)>> \o Tail(goals)
  /\ UNCHANGED <<tokens, types, header, sigs, spans, functions, status>>

\* One turn of skip_block's loop, and its end.
SkipToken ==
  /\ AtGoal("Skip") /\ Top.n > 0
  /\ IF Next1 = "Eof" THEN Refuse("UnexpectedToken")
     ELSE /\ pos' = Advanced
          /\ goals' = <<Goal("Skip", Depth)>> \o Tail(goals)
          /\ UNCHANGED <<tokens, types, header, sigs, spans, functions, status>>

Skipped ==
  /\ AtGoal("Skip") /\ Top.n = 0
  /\ spans' = [spans EXCEPT ![Len(spans)].end = pos]
  /\ Then(<<>>)
  /\ UNCHANGED <<tokens, pos, types, header, sigs, functions, status>>

-----------------------------------------------------------------------------
(* The second pass: function after function, from its start.               *)

FunctionAt(i) ==
  IF i \in DOMAIN spans
  THEN /\ pos' = spans[i].start
       /\ goals' = Plan(<<"Header", "Body">>) \o <<Goal("Finish", i)>>
       /\ UNCHANGED status
  ELSE /\ status' = "accepted"
       /\ goals' = <<>>
       /\ UNCHANGED pos

BeginBodies ==
  /\ AtGoal("Module") /\ Next1 = "Eof"
  /\ FunctionAt(1)
  /\ UNCHANGED <<tokens, types, header, sigs, spans, functions>>

FinishFunction ==
  /\ AtGoal("Finish")
  /\ functions' = Append(functions, [name |-> header.name, params |-> Signature(header).params,
                                     ret |-> header.ret, calls |-> header.calls, end |-> pos])
  /\ FunctionAt(Top.n + 1)
  /\ UNCHANGED <<tokens, types, header, sigs, spans>>

\* What only FunctionParser knows: whether the current block has ended, and
\* which variables are in scope.
RefuseBody ==
  \/ AtGoal("Statement") /\ Refuse("UnreachableCode")
  \/ AtGoal("Primary") /\ LookAhead \in {"ident", "target"} /\ Refuse("UndefinedVariable")
  \/ AtGoal("Assigned") /\ Refuse("UndefinedVariable")

-----------------------------------------------------------------------------
(* Types of expressions.                                                   *)

Takes(want, give) == [want |-> want, give |-> give]
Effects ==
  [WantBool  |-> Takes(<<"bool">>, <<"bool">>),
   WantI64   |-> Takes(<<"i64">>, <<"i64">>),
   Condition |-> Takes(<<"bool">>, <<>>),
   BoolBool  |-> Takes(<<"bool", "bool">>, <<"bool">>),
   IntInt    |-> Takes(<<"i64", "i64">>, <<"i64">>),
   IntBool   |-> Takes(<<"i64", "i64">>, <<"bool">>),
   PushBool  |-> Takes(<<>>, <<"bool">>),
   PushI64   |-> Takes(<<>>, <<"i64">>)]
TopTypes(n) == SubSeq(types, 1, n)
Below(n) == SubSeq(types, n + 1, Len(types))

Combine ==
  /\ Parsing /\ Top.do \in DOMAIN Effects
  /\ LET effect == Effects[Top.do]
     IN  /\ TopTypes(Len(effect.want)) = effect.want
         /\ types' = effect.give \o Below(Len(effect.want))
  /\ Then(<<>>)
  /\ UNCHANGED <<tokens, pos, header, sigs, spans, functions, status>>

DropValue ==
  /\ \/ AtGoal("Drop") \/ AtGoal("Assigned")
     \/ AtGoal("Returned") /\ types[1] = header.ret
  /\ types' = Tail(types)
  /\ Then(<<>>)
  /\ UNCHANGED <<tokens, pos, header, sigs, spans, functions, status>>

Variable(ty) ==
  /\ AtGoal("Primary") /\ LookAhead \in {"ident", "target"}
  /\ types' = <<ty>> \o types
  /\ pos' = Advanced /\ Then(<<>>)
  /\ UNCHANGED <<tokens, header, sigs, spans, functions, status>>

\* A call: the arguments' types are those above the ones now on the stack.
BeginCall ==
  /\ AtGoal("Primary") /\ LookAhead = "callee"
  /\ goals' = Plan(<<"(", "Args", ")">>) \o <<CallGoal(tokens[pos], Len(types))>> \o Tail(goals)
  /\ pos' = Advanced
  /\ UNCHANGED <<tokens, types, header, sigs, spans, functions, status>>

AtCall == AtGoal("Call")
Given  == Len(types) - Top.n
GivenTypes == [k \in 1 .. Given |-> types[Given + 1 - k]]
Callee == Top.callee
Known  == Callee \in DOMAIN sigs
Wanted == sigs[Callee].params

EmitCall ==
  /\ header' = [header EXCEPT !.calls = Append(@, CallTo(Callee, GivenTypes, sigs[Callee].ret))]
  /\ types' = <<sigs[Callee].ret>> \o Below(Given)
  /\ Then(<<>>)
  /\ UNCHANGED <<tokens, pos, sigs, spans, functions, status>>

\* Mutant of ResolveCall: zip alone decides, and it stops at the shorter list.
ResolveCallZipped ==
  /\ AtCall /\ Known
  /\ \A k \in 1 .. Given : k \in DOMAIN Wanted => GivenTypes[k] = Wanted[k]
  /\ EmitCall

ResolveCall ==
  /\ AtCall /\ Known
  /\ Given = Len(Wanted)
  /\ \A k \in 1 .. Given : k \in DOMAIN Wanted => GivenTypes[k] = Wanted[k]
  /\ EmitCall

UndefinedFunction == AtCall /\ ~Known /\ Refuse("UndefinedFunction")
ArgCountMismatch  == AtCall /\ Known /\ Given # Len(Wanted) /\ Refuse("ArgCountMismatch")

TypeMismatch ==
  /\ \/ Parsing /\ Top.do \in DOMAIN Effects
        /\ LET effect == Effects[Top.do]
           IN  TopTypes(Len(effect.want)) # effect.want
     \/ AtGoal("Returned") /\ types[1] # header.ret
     \/ AtGoal("Assigned")
     \/ AtCall /\ Known /\ Given = Len(Wanted) /\ GivenTypes # Wanted
  /\ Refuse("TypeMismatch")

-----------------------------------------------------------------------------
Init ==
  /\ tokens \in Sources
  /\ pos = 1
  /\ goals = Plan(<<"Module">>)
  /\ types = <<>> /\ header = NewHeader("")
  /\ sigs = <<>> /\ spans = <<>> /\ functions = <<>>
  /\ status = "parsing"

FirstPass ==
  \/ NextHeader \/ TakeSignature \/ DuplicateFunction \/ SkipToken \/ Skipped
SecondPass ==
  \/ BeginBodies \/ FinishFunction \/ RefuseBody \/ Combine \/ DropValue
  \/ (\E ty \in Types : Variable(ty))
  \/ BeginCall \/ ResolveCall \/ UndefinedFunction \/ ArgCountMismatch \/ TypeMismatch
BothPasses ==
  \/ Expand \/ Match \/ UnexpectedToken
  \/ TakeName \/ TakeParamName \/ TakeParamType \/ DuplicateParameter \/ TakeRetType

ParseStep == FirstPass \/ SecondPass \/ BothPasses
Stop == ~Parsing /\ UNCHANGED parserVars
Next == ParseStep \/ Stop
Spec == Init /\ [][Next]_parserVars /\ WF_parserVars(ParseStep)

-----------------------------------------------------------------------------
TypeOK ==
  /\ pos \in DOMAIN tokens
  /\ status \in {"parsing", "accepted"} \cup Errors
  /\ types \in Seq(Types)
  /\ header.name \in Names \cup {""} /\ header.ret \in Types \cup {NoType}
  /\ DOMAIN sigs \subseteq Names
  /\ \A i \in DOMAIN spans : spans[i].start \in DOMAIN tokens /\ spans[i].end \in DOMAIN tokens
  /\ AtGoal("Statements") => types = <<>>

Accepted == status = "accepted"

\* The second pass goes back to where the first found each header and trusts
\* it about the bodies: the two find the same ends, so that every token of an
\* accepted source belongs to exactly one function that was parsed.
EveryTokenParsed ==
  Accepted =>
    /\ Len(functions) = Len(spans)
    /\ \A i \in DOMAIN functions : functions[i].end = spans[i].end
    /\ \A i \in DOMAIN spans :
         spans[i].start = IF i = 1 THEN 1 ELSE spans[i - 1].end
    /\ tokens[IF spans = <<>> THEN 1 ELSE spans[Len(spans)].end] = "Eof"

\* "A validated ir::Module": the calls the parser emits are calls the
\* validator of modules accepts.
CallsAreValid == Accepted => ModuleCallErrors(functions) = {}

\* Functions have distinct names, which compile_module keys its tables by, and
\* every call was checked against the signature of the function handed on.
SignaturesDescribe ==
  Accepted =>
    /\ \A i, j \in DOMAIN functions : functions[i].name = functions[j].name => i = j
    /\ \A i \in DOMAIN functions :
         sigs[functions[i].name] = [params |-> functions[i].params, ret |-> functions[i].ret]

\* How many braces are open before token k.
Before(k, t) == {j \in 1 .. k - 1 : tokens[j] = t}
OpenBraces(k) == Cardinality(Before(k, "LBrace")) - Cardinality(Before(k, "RBrace"))

\* "So forward and mutually recursive calls resolve": a call is refused as
\* undefined only if no function of the source, a "fn" outside of all braces,
\* has that name.
UndefinedMeansNowhere ==
  status = "UndefinedFunction" =>
    \A k \in 2 .. Len(tokens) :
      tokens[k - 1] = "fn" /\ OpenBraces(k - 1) = 0 => tokens[k] # Callee

\* Every parse ends, on every source.
ParseEnds == <>~Parsing
=============================================================================
