------------------------- MODULE ModuleParserProofs -------------------------
(***************************************************************************)
(* What parse_module establishes for every source: the two passes read the *)
(* same headers and find the same ends of bodies, and the calls of the     *)
(* functions handed on agree with the functions they name.                 *)
(*                                                                         *)
(* A header is described by the places of its tokens, so that two readings *)
(* from one start agree; the end of a body by the braces before it, which  *)
(* skip_block counts and which the goals of the second pass owe.           *)
(***************************************************************************)
EXTENDS ModuleParser, FiniteSetTheorems, SequenceTheorems, TLAPS

IsRow(s) == Len(s) \in Nat /\ s = [k \in 1 .. Len(s) |-> s[k]]

\* The goals from the outermost on.
Height == Len(goals)
GoalAt(h) == goals[Len(goals) + 1 - h]

ParamTypes == [name : Names, ty : Types \cup {NoType}]
Calls == [callee : Names, args : Seq(Types), ty : Types]
HeaderRecords == [name : Names \cup {""}, params : Seq(ParamTypes),
                  ret : Types \cup {NoType}, calls : Seq(Calls)]
SpanRecords == [start : Nat, end : Nat]

-----------------------------------------------------------------------------
(* Headers, by the places of their tokens.                                 *)

\* A header that starts at s has its name at s + 1, the name and the type of
\* its k-th parameter at s + 4k - 1 and s + 4k + 1, and what is behind that
\* parameter at s + 4k + 2.
NamedAt(s, h) == h.name = tokens[s + 1] /\ h.name \in Names
ParamsAt(s, h, n) ==
  \A k \in 1 .. n : /\ h.params[k].name = tokens[s + 4 * k - 1]
                    /\ h.params[k].ty = tokens[s + 4 * k + 1] /\ h.params[k].ty \in Types
CommasAt(s, n) == \A k \in 1 .. n : tokens[s + 4 * k + 2] = "Comma"
Closing(s, n) == IF n = 0 THEN s + 3 ELSE s + 4 * n + 2

HeaderAt(s, h) ==
  /\ NamedAt(s, h)
  /\ ParamsAt(s, h, Len(h.params)) /\ CommasAt(s, Len(h.params) - 1)
  /\ tokens[Closing(s, Len(h.params))] = ")"
  /\ h.ret = tokens[Closing(s, Len(h.params)) + 2] /\ h.ret \in Types

\* The goals of a header that is being read, from the outermost on.
HeaderGoals == {"Header", "fn", "Name", "(", "Params", "Param", "ParamName", ":", "ParamType",
                "MoreParams", "Comma", ")", "->", "RetType"}
HeaderStack(top) ==
  CASE top = "Header"     -> <<"Header">>
    [] top = "fn"         -> <<"RetType", "->", ")", "Params", "(", "Name", "fn">>
    [] top = "Name"       -> <<"RetType", "->", ")", "Params", "(", "Name">>
    [] top = "("          -> <<"RetType", "->", ")", "Params", "(">>
    [] top = "Params"     -> <<"RetType", "->", ")", "Params">>
    [] top = "Param"      -> <<"RetType", "->", ")", "MoreParams", "Param">>
    [] top = "ParamName"  -> <<"RetType", "->", ")", "MoreParams", "ParamType", ":", "ParamName">>
    [] top = ":"          -> <<"RetType", "->", ")", "MoreParams", "ParamType", ":">>
    [] top = "ParamType"  -> <<"RetType", "->", ")", "MoreParams", "ParamType">>
    [] top = "MoreParams" -> <<"RetType", "->", ")", "MoreParams">>
    [] top = "Comma"          -> <<"RetType", "->", ")", "MoreParams", "Param", "Comma">>
    [] top = ")"          -> <<"RetType", "->", ")">>
    [] top = "->"         -> <<"RetType", "->">>
    [] top = "RetType"    -> <<"RetType">>
AtHeader(top) ==
  /\ Height = 2 + Len(HeaderStack(top))
  /\ \A h \in 1 .. Len(HeaderStack(top)) : GoalAt(h + 2) = Goal(HeaderStack(top)[h], 0)

\* Of the header at hand the name, m parameters and so many commas are as the
\* source has them from s on.
HeaderRead(s, m, commas) ==
  NamedAt(s, header) /\ header.calls = <<>> /\ ParamsAt(s, header, m) /\ CommasAt(s, commas)
LastNamed(s, n) == header.params[n].name = tokens[s + 4 * n - 1]

\* How far the header that starts at s has been read when top is the next goal.
Progress(s, top) ==
  LET n == Len(header.params)
  IN  CASE top \in {"Header", "fn"} -> pos = s
        [] top = "Name"             -> pos = s + 1
        [] top = "("                -> pos = s + 2 /\ n = 0 /\ HeaderRead(s, 0, 0)
        [] top = "Params"           -> pos = s + 3 /\ n = 0 /\ HeaderRead(s, 0, 0)
        [] top \in {"Param", "ParamName"} -> pos = s + 4 * n + 3 /\ HeaderRead(s, n, n)
        [] top = ":"          -> /\ n > 0 /\ pos = s + 4 * n
                                 /\ HeaderRead(s, n - 1, n - 1) /\ LastNamed(s, n)
        [] top = "ParamType"  -> /\ n > 0 /\ pos = s + 4 * n + 1
                                 /\ HeaderRead(s, n - 1, n - 1) /\ LastNamed(s, n)
        [] top = "MoreParams" -> n > 0 /\ pos = s + 4 * n + 2 /\ HeaderRead(s, n, n - 1)
        [] top = "Comma"      -> n > 0 /\ pos = s + 4 * n + 2 /\ HeaderRead(s, n, n - 1)
        [] top = ")"          -> pos = Closing(s, n) /\ HeaderRead(s, n, n - 1)
        [] top = "->"         -> /\ pos = Closing(s, n) + 1 /\ HeaderRead(s, n, n - 1)
                                 /\ tokens[Closing(s, n)] = ")"
        [] top = "RetType"    -> /\ pos = Closing(s, n) + 2 /\ HeaderRead(s, n, n - 1)
                                 /\ tokens[Closing(s, n)] = ")"

\* A header under way or, once its goals are gone, complete.
ReadingHeader(s) ==
  \/ \E top \in HeaderGoals : AtHeader(top) /\ Progress(s, top)
  \/ Height = 2 /\ pos > s /\ HeaderAt(s, header) /\ header.calls = <<>>

-----------------------------------------------------------------------------
(* Spans and signatures.                                                   *)

\* Token q - 1 is the brace that ends a body.
Closes(q) == tokens[q - 1] = "RBrace" /\ OpenBraces(q) = 0
Unclosed(s, p) == \A q \in s + 1 .. p : ~Closes(q)

StartOf(i) == IF i = 1 THEN 1 ELSE spans[i - 1].end
Started(i) == /\ spans[i].start = StartOf(i)
              /\ spans[i].start \in DOMAIN tokens /\ OpenBraces(spans[i].start) = 0
Ended(i) == /\ spans[i].end \in DOMAIN tokens /\ spans[i].start < spans[i].end
            /\ Closes(spans[i].end) /\ Unclosed(spans[i].start, spans[i].end - 1)
NameOf(i) == tokens[spans[i].start + 1]
Signed(i) == \E h \in HeaderRecords :
               /\ HeaderAt(spans[i].start, h)
               /\ sigs[NameOf(i)] = Signature(h)

\* The first m functions of the source have been entered in sigs.
SignedUpTo(m) ==
  /\ DOMAIN sigs = {NameOf(i) : i \in 1 .. m}
  /\ \A i \in 1 .. m : Signed(i)
  /\ \A i, j \in 1 .. m : NameOf(i) = NameOf(j) => i = j
EndedUpTo(m) == \A i \in 1 .. m : Ended(i)

\* Every "fn" outside of braces begins a span.
FnsFound(p) ==
  \A k \in 1 .. p - 1 : tokens[k] = "fn" /\ OpenBraces(k) = 0 =>
    \E i \in DOMAIN spans : spans[i].start = k

-----------------------------------------------------------------------------
(* The parts of the invariant.                                             *)

Typed ==
  /\ tokens \in Sources /\ pos \in DOMAIN tokens
  /\ status \in {"parsing", "accepted"} \cup Errors
  /\ IsRow(goals)
  /\ header \in HeaderRecords
  /\ spans \in Seq(SpanRecords)
  /\ DOMAIN sigs \subseteq Names
  /\ \A f \in DOMAIN sigs : sigs[f].params \in Seq(Types) /\ sigs[f].ret \in Types
  /\ IsRow(functions)

Scanning == Parsing /\ GoalAt(1).do = "Module"
Opening  == Parsing /\ GoalAt(1).do = "Finish"

\* The states of the first pass, n spans having been begun, the last at s.
BetweenHeaders(n) ==
  /\ Height = 1
  /\ EndedUpTo(n) /\ SignedUpTo(n)
  /\ pos = StartOf(n + 1) /\ OpenBraces(pos) = 0

ScanningHeader(n, s) ==
  /\ Height > 1 /\ n > 0 /\ GoalAt(2) = Goal("Signature", 0)
  /\ EndedUpTo(n - 1) /\ SignedUpTo(n - 1)
  /\ ReadingHeader(s)
  /\ OpenBraces(pos) = 0 /\ Unclosed(s, pos)

SkippingBody(n, s) ==
  /\ Height > 1 /\ n > 0 /\ GoalAt(2).do = "Skip" /\ pos > s
  /\ EndedUpTo(n - 1) /\ SignedUpTo(n)
  /\ \/ /\ Height = 3 /\ GoalAt(2) = Goal("Skip", 1) /\ GoalAt(3) = Goal("LBrace", 0)
        /\ OpenBraces(pos) = 0 /\ Unclosed(s, pos)
     \/ /\ Height = 2 /\ GoalAt(2).n \in Nat \ {0} /\ OpenBraces(pos) = GoalAt(2).n
        /\ Unclosed(s, pos)
     \/ /\ Height = 2 /\ GoalAt(2).n = 0
        /\ Closes(pos) /\ Unclosed(s, pos - 1)

\* Here and below \E gives a name to what the next step can change.
ScanInv ==
  /\ functions = <<>> /\ header.calls = <<>>
  /\ \A i \in DOMAIN spans : Started(i)
  /\ FnsFound(pos)
  /\ \E n \in {Len(spans)} :
       \/ BetweenHeaders(n)
       \/ \E s \in {spans[n].start} : ScanningHeader(n, s) \/ SkippingBody(n, s)

\* The first pass is over, n functions and the end of the source behind them.
ScannedTo(n, end) ==
  /\ \A i \in DOMAIN spans : Started(i)
  /\ EndedUpTo(n) /\ SignedUpTo(n) /\ FnsFound(end)
  /\ end \in DOMAIN tokens /\ tokens[end] = "Eof"
Scanned == \E n \in {Len(spans)} : \E end \in {StartOf(n + 1)} : ScannedTo(n, end)

CallAgrees(c) == /\ c.callee \in DOMAIN sigs
                 /\ c.args = sigs[c.callee].params /\ c.ty = sigs[c.callee].ret
CallsAgree(calls) == \A k \in DOMAIN calls : CallAgrees(calls[k])

Parsed(i) ==
  /\ functions[i].end = spans[i].end /\ functions[i].name = NameOf(i)
  /\ sigs[NameOf(i)] = [params |-> functions[i].params, ret |-> functions[i].ret]
  /\ CallsAgree(functions[i].calls)

\* Goals that do not occur while a body is parsed.
Foreign == {"Module", "Finish", "Signature", "Skip", "Header", "fn", "Name", "Params", "->",
            "RetType", "Param", "MoreParams", "ParamName", ":", "ParamType", "Eof"}
Owing == {h \in 2 .. Height : GoalAt(h).do \in {"Statements", "RBrace"}}

\* The states of the second pass within the function that starts at s.
ParsingHeader(s) ==
  /\ Height > 1 /\ GoalAt(2) = Goal("Body", 0)
  /\ ReadingHeader(s)
  /\ OpenBraces(pos) = 0 /\ Unclosed(s, pos)

ParsingBody(s) ==
  /\ Height > 1 /\ HeaderAt(s, header) /\ pos > s
  /\ GoalAt(2).do \in {"Statements", "RBrace"}
  /\ \A h \in 2 .. Height : /\ GoalAt(h).do \notin Foreign
                            /\ GoalAt(h).do = "LBrace" => h = Height
  /\ OpenBraces(pos) = Cardinality(Owing) - (IF GoalAt(Height).do = "LBrace" THEN 1 ELSE 0)
  /\ Unclosed(s, pos)

ParsedBody(s) ==
  /\ Height = 1 /\ HeaderAt(s, header) /\ pos > s
  /\ Closes(pos) /\ Unclosed(s, pos - 1)

OpenInv ==
  /\ Scanned
  /\ \A i \in DOMAIN functions : Parsed(i)
  /\ CallsAgree(header.calls)
  /\ \E i \in {Len(functions) + 1} :
       /\ i \in DOMAIN spans /\ GoalAt(1) = Goal("Finish", i)
       /\ \E s \in {spans[i].start} : ParsingHeader(s) \/ ParsingBody(s) \/ ParsedBody(s)

MInv ==
  /\ Typed
  /\ Parsing => Height > 0 /\ (Scanning \/ Opening)
  /\ Scanning => ScanInv
  /\ Opening => OpenInv
  /\ Accepted => /\ Scanned /\ Len(functions) = Len(spans)
                 /\ \A i \in DOMAIN functions : Parsed(i)
  /\ UndefinedMeansNowhere

-----------------------------------------------------------------------------
(* The stack of goals.                                                     *)

LEMMA TailOf ==
  ASSUME NEW s, IsRow(s), Len(s) > 0
  PROVE  /\ IsRow(Tail(s)) /\ Len(Tail(s)) = Len(s) - 1
         /\ \A k \in 1 .. Len(s) - 1 : Tail(s)[k] = s[k + 1]
<1> DEFINE n == Len(s)
           S == {s[k] : k \in 1 .. n}
<1>1. n \in Nat \ {0} /\ s = [k \in 1 .. n |-> s[k]]
  BY DEF IsRow
<1>2. s \in [1 .. n -> S]
  BY <1>1
<1> HIDE DEF S, n
<1>3. s \in Seq(S) /\ Len(s) = n
  BY <1>1, <1>2
<1>4. s # <<>>
  BY <1>1, <1>3, EmptySeq
<1>5. /\ Tail(s) \in Seq(S) /\ Len(Tail(s)) = n - 1
      /\ \A k \in 1 .. Len(Tail(s)) : Tail(s)[k] = s[k + 1]
  BY <1>3, <1>4, HeadTailProperties
<1>6. Tail(s) = [k \in 1 .. Len(Tail(s)) |-> Tail(s)[k]]
  BY <1>5, LenProperties
<1> QED
  BY <1>1, <1>5, <1>6 DEF IsRow, n

LEMMA Joined ==
  ASSUME NEW s, NEW t, IsRow(s), IsRow(t)
  PROVE  /\ IsRow(s \o t) /\ Len(s \o t) = Len(s) + Len(t)
         /\ \A k \in 1 .. Len(s) : (s \o t)[k] = s[k]
         /\ \A k \in 1 .. Len(t) : (s \o t)[Len(s) + k] = t[k]
<1> DEFINE m == Len(s)
           n == Len(t)
           S == {s[k] : k \in 1 .. m} \cup {t[k] : k \in 1 .. n}
<1>1. m \in Nat /\ s = [k \in 1 .. m |-> s[k]] /\ n \in Nat /\ t = [k \in 1 .. n |-> t[k]]
  BY DEF IsRow
<1>2. s \in [1 .. m -> S] /\ t \in [1 .. n -> S]
  BY <1>1
<1> HIDE DEF S, m, n
<1>3. s \in Seq(S) /\ Len(s) = m /\ t \in Seq(S) /\ Len(t) = n
  BY <1>1, <1>2
<1>4. /\ s \o t \in Seq(S) /\ Len(s \o t) = m + n
      /\ \A k \in 1 .. m + n : (s \o t)[k] = IF k <= m THEN s[k] ELSE t[k - m]
  BY <1>3, ConcatProperties
<1>5. s \o t = [k \in 1 .. Len(s \o t) |-> (s \o t)[k]]
  BY <1>4, LenProperties
<1>6. \A k \in 1 .. m : (s \o t)[k] = s[k]
  BY <1>1, <1>4
<1>7. \A k \in 1 .. n : (s \o t)[m + k] = t[k]
  <2> SUFFICES ASSUME NEW k \in 1 .. n PROVE (s \o t)[m + k] = t[k]
    OBVIOUS
  <2>1. m + k \in 1 .. m + n /\ ~(m + k <= m) /\ (m + k) - m = k
    BY <1>1
  <2> QED
    BY <1>4, <2>1
<1> QED
  BY <1>1, <1>4, <1>5, <1>6, <1>7 DEF IsRow, m, n

\* The innermost goal gives way to the goals s: what that says of places from
\* the innermost on, and from the outermost on.
LEMMA Pushed ==
  ASSUME IsRow(goals), Height > 0, NEW s, IsRow(s), goals' = s \o Tail(goals)
  PROVE  /\ IsRow(goals') /\ Len(goals') = Len(s) + (Len(goals) - 1)
         /\ \A k \in 1 .. Len(s) : goals'[k] = s[k]
         /\ \A k \in 1 .. Len(goals) - 1 : goals'[Len(s) + k] = goals[k + 1]
<1> PICK t : t = Tail(goals)
  OBVIOUS
<1>1. /\ IsRow(t) /\ Len(t) = Len(goals) - 1
      /\ \A k \in 1 .. Len(goals) - 1 : t[k] = goals[k + 1]
  BY TailOf DEF Height
<1>2. /\ IsRow(s \o t) /\ Len(s \o t) = Len(s) + Len(t)
      /\ \A k \in 1 .. Len(s) : (s \o t)[k] = s[k]
      /\ \A k \in 1 .. Len(t) : (s \o t)[Len(s) + k] = t[k]
  BY <1>1, Joined
<1>3. /\ IsRow(goals') /\ Len(goals') = Len(s) + Len(t)
      /\ \A k \in 1 .. Len(s) : goals'[k] = s[k]
      /\ \A k \in 1 .. Len(t) : goals'[Len(s) + k] = t[k]
  BY <1>2, Zenon
<1> QED
  BY <1>1, <1>3, Zenon

LEMMA Shifted ==
  ASSUME Len(goals) \in Nat, Len(goals) > 0, NEW s, Len(s) \in Nat,
         Len(goals') = Len(s) + (Len(goals) - 1),
         \A k \in 1 .. Len(s) : goals'[k] = s[k],
         \A k \in 1 .. Len(goals) - 1 : goals'[Len(s) + k] = goals[k + 1]
  PROVE  /\ Height' = Height - 1 + Len(s)
         /\ \A h \in 1 .. Height - 1 : GoalAt(h)' = GoalAt(h)
         /\ \A h \in Height .. Height - 1 + Len(s) : GoalAt(h)' = s[Height + Len(s) - h]
<1>1. ASSUME NEW h \in 1 .. Len(goals) - 1
      PROVE  goals'[Len(goals') + 1 - h] = goals[Len(goals) + 1 - h]
  <2> PICK k : k = Len(goals) - h
    OBVIOUS
  <2>1. /\ k \in 1 .. Len(goals) - 1 /\ Len(goals') + 1 - h = Len(s) + k
        /\ Len(goals) + 1 - h = k + 1
    OBVIOUS
  <2> QED
    BY <2>1
<1>2. ASSUME NEW h \in Len(goals) .. Len(goals) - 1 + Len(s)
      PROVE  goals'[Len(goals') + 1 - h] = s[Len(goals) + Len(s) - h]
  <2>1. Len(goals') + 1 - h = Len(goals) + Len(s) - h /\ Len(goals) + Len(s) - h \in 1 .. Len(s)
    OBVIOUS
  <2> QED
    BY <2>1
<1> QED
  BY <1>1, <1>2 DEF Height, GoalAt

LEMMA Replaced ==
  ASSUME IsRow(goals), Height > 0, NEW s, IsRow(s), goals' = s \o Tail(goals)
  PROVE  /\ IsRow(goals)' /\ Height \in Nat /\ Height' = Height - 1 + Len(s)
         /\ \A h \in 1 .. Height - 1 : GoalAt(h)' = GoalAt(h)
         /\ \A h \in Height .. Height - 1 + Len(s) : GoalAt(h)' = s[Height + Len(s) - h]
<1>1. Len(goals) \in Nat /\ Len(goals) > 0 /\ Len(s) \in Nat
  BY DEF IsRow, Height
<1>2. /\ IsRow(goals') /\ Len(goals') = Len(s) + (Len(goals) - 1)
      /\ \A k \in 1 .. Len(s) : goals'[k] = s[k]
      /\ \A k \in 1 .. Len(goals) - 1 : goals'[Len(s) + k] = goals[k + 1]
  BY Pushed, Zenon
<1>3. /\ Height' = Height - 1 + Len(s)
      /\ \A h \in 1 .. Height - 1 : GoalAt(h)' = GoalAt(h)
      /\ \A h \in Height .. Height - 1 + Len(s) : GoalAt(h)' = s[Height + Len(s) - h]
  BY <1>1, <1>2, Shifted, Zenon
<1>4. IsRow(goals)' /\ Height \in Nat
  BY <1>1, <1>2, Zenon DEF Height, IsRow
<1> QED
  BY <1>3, <1>4, Zenon

LEMMA PlanIsRow ==
  ASSUME NEW todo, IsRow(todo)
  PROVE  /\ IsRow(Plan(todo)) /\ Len(Plan(todo)) = Len(todo)
         /\ \A k \in 1 .. Len(todo) : Plan(todo)[k] = Goal(todo[k], 0)
<1>1. Len(todo) \in Nat /\ DOMAIN todo = 1 .. Len(todo)
  BY DEF IsRow
<1>2. Plan(todo) = [k \in 1 .. Len(todo) |-> Goal(todo[k], 0)]
  BY <1>1 DEF Plan
<1> DEFINE p == Plan(todo)
           S == {Goal(todo[k], 0) : k \in 1 .. Len(todo)}
<1>3. p \in [1 .. Len(todo) -> S]
  BY <1>2
<1> HIDE DEF p
<1>4. Len(p) = Len(todo)
  BY <1>1, <1>3
<1> QED
  BY <1>1, <1>2, <1>4 DEF IsRow, p

\* The innermost goal gives way to what a rule plans.
LEMMA Planned ==
  ASSUME IsRow(goals), Height > 0, NEW todo, IsRow(todo), Then(todo)
  PROVE  /\ IsRow(goals)' /\ Height \in Nat /\ Height' = Height - 1 + Len(todo)
         /\ \A h \in 1 .. Height - 1 : GoalAt(h)' = GoalAt(h)
         /\ \A h \in Height .. Height - 1 + Len(todo) :
              GoalAt(h)' = Goal(todo[Height + Len(todo) - h], 0)
<1>1. /\ IsRow(Plan(todo)) /\ Len(Plan(todo)) = Len(todo) /\ Len(todo) \in Nat
      /\ \A k \in 1 .. Len(todo) : Plan(todo)[k] = Goal(todo[k], 0)
  BY PlanIsRow DEF IsRow
<1>2. /\ IsRow(goals)' /\ Height \in Nat /\ Height' = Height - 1 + Len(todo)
      /\ \A h \in 1 .. Height - 1 : GoalAt(h)' = GoalAt(h)
      /\ \A h \in Height .. Height - 1 + Len(todo) :
           GoalAt(h)' = Plan(todo)[Height + Len(todo) - h]
  BY <1>1, Replaced DEF Then
<1>3. \A h \in Height .. Height - 1 + Len(todo) : Height + Len(todo) - h \in 1 .. Len(todo)
  BY <1>1, <1>2
<1> QED
  BY <1>1, <1>2, <1>3

LEMMA Done ==
  ASSUME IsRow(goals), Height > 0, Then(<<>>)
  PROVE  /\ IsRow(goals)' /\ Height \in Nat /\ Height' = Height - 1
         /\ \A h \in 1 .. Height - 1 : GoalAt(h)' = GoalAt(h)
<1>1. IsRow(<<>>) /\ Len(<<>>) = 0
  BY DEF IsRow
<1> QED
  BY <1>1, Planned

LEMMA TopGoal ==
  ASSUME IsRow(goals), Height > 0
  PROVE  Top = GoalAt(Height) /\ Height \in Nat \ {0}
<1>1. Len(goals) \in Nat \ {0} /\ Len(goals) + 1 - Len(goals) = 1
  BY DEF IsRow, Height
<1> QED
  BY <1>1 DEF Top, GoalAt, Height

-----------------------------------------------------------------------------
(* Tokens and braces.                                                      *)

LEMMA TokenFacts ==
  ASSUME Typed
  PROVE  /\ Len(tokens) \in Nat \ {0} /\ \A k : k \in DOMAIN tokens <=> k \in 1 .. Len(tokens)
         /\ pos \in 1 .. Len(tokens)
         /\ \A k \in 1 .. Len(tokens) : tokens[k] \in Tokens \cup Names
         /\ \A k \in 1 .. Len(tokens) : tokens[k] = "Eof" <=> k = Len(tokens)
<1>1. /\ tokens \in Seq(Tokens \cup Names) /\ tokens # <<>> /\ tokens[Len(tokens)] = "Eof"
      /\ \A k \in 1 .. Len(tokens) - 1 : tokens[k] # "Eof"
  BY SourcesAssumption DEF Typed
<1>2. /\ Len(tokens) \in Nat /\ \A k : k \in DOMAIN tokens <=> k \in 1 .. Len(tokens)
      /\ \A k \in 1 .. Len(tokens) : tokens[k] \in Tokens \cup Names
  BY <1>1
<1>3. Len(tokens) # 0
  BY <1>1, EmptySeq
<1>4. pos \in 1 .. Len(tokens)
  BY <1>2 DEF Typed
<1> QED
  BY <1>1, <1>2, <1>3, <1>4

LEMMA NextFacts ==
  ASSUME Typed
  PROVE  /\ Next1 = "ident" => tokens[pos] \in Names
         /\ Next1 # "ident" => Next1 = tokens[pos] /\ LookAhead = Next1
         /\ Next1 = "ident" => LookAhead \in {"ident", "target", "callee"}
         /\ Next1 # "Eof" => Advanced = pos + 1 /\ pos + 1 \in DOMAIN tokens
         /\ Next1 = "Eof" => tokens[pos] = "Eof"
         /\ tokens[pos] \notin Names => Next1 = tokens[pos]
<1>1. "ident" \notin Tokens /\ "Eof" \in Tokens
  BY DEF Tokens, TypeTokens, Operators
<1>2. tokens[pos] \in Tokens \cup Names
  BY TokenFacts
<1>3. /\ tokens[pos] \in Names => Next1 = "ident"
      /\ tokens[pos] \notin Names => Next1 = tokens[pos]
  BY DEF Next1, Kind
<1>4. ASSUME Next1 # "Eof" PROVE Advanced = pos + 1 /\ pos + 1 \in DOMAIN tokens
  <2>1. tokens[pos] # "Eof"
    BY <1>1, <1>3, <1>4, SourcesAssumption
  <2>2. pos # Len(tokens) /\ pos \in 1 .. Len(tokens) /\ Len(tokens) \in Nat
    BY <2>1, TokenFacts
  <2>3. pos + 1 \in 1 .. Len(tokens)
    BY <2>2
  <2>4. pos + 1 \in DOMAIN tokens
    BY <2>3, TokenFacts
  <2> QED
    BY <2>4 DEF Advanced
<1>5. LookAhead = IF Next1 # "ident" THEN Next1
                  ELSE IF Next2 = "=" THEN "target" ELSE IF Next2 = "(" THEN "callee" ELSE "ident"
  BY DEF LookAhead
<1> QED
  BY <1>1, <1>2, <1>3, <1>4, <1>5

LEMMA BraceStart == OpenBraces(1) = 0
<1>1. Before(1, "LBrace") = {} /\ Before(1, "RBrace") = {}
  BY DEF Before
<1> QED
  BY <1>1, FS_EmptySet DEF OpenBraces

LEMMA CountBefore ==
  ASSUME NEW k \in Nat \ {0}, NEW t
  PROVE  /\ Cardinality(Before(k, t)) \in Nat
         /\ Cardinality(Before(k + 1, t)) =
              Cardinality(Before(k, t)) + (IF tokens[k] = t THEN 1 ELSE 0)
<1>1. Before(k, t) \subseteq 1 .. k - 1
  BY DEF Before
<1>2. IsFiniteSet(Before(k, t)) /\ Cardinality(Before(k, t)) \in Nat
  <2>1. IsFiniteSet(1 .. k - 1)
    BY FS_Interval
  <2>2. IsFiniteSet(Before(k, t))
    BY <1>1, <2>1, FS_Subset
  <2> QED
    BY <2>2, FS_CardinalityType
<1>3. CASE tokens[k] = t
  <2>1. Before(k + 1, t) = Before(k, t) \cup {k} /\ k \notin Before(k, t)
    BY <1>3 DEF Before
  <2> QED
    BY <1>2, <1>3, <2>1, FS_AddElement
<1>4. CASE tokens[k] # t
  <2>1. Before(k + 1, t) = Before(k, t)
    BY <1>4 DEF Before
  <2> QED
    BY <1>2, <1>4, <2>1
<1> QED
  BY <1>2, <1>3, <1>4

\* A token opens a brace, closes one, or neither.
LEMMA BraceStep ==
  ASSUME NEW k \in Nat \ {0}
  PROVE  /\ OpenBraces(k) \in Int
         /\ OpenBraces(k + 1) = OpenBraces(k) + (IF tokens[k] = "LBrace" THEN 1
                                                 ELSE IF tokens[k] = "RBrace" THEN -1 ELSE 0)
<1>1. /\ Cardinality(Before(k, "LBrace")) \in Nat /\ Cardinality(Before(k, "RBrace")) \in Nat
      /\ Cardinality(Before(k + 1, "LBrace")) =
           Cardinality(Before(k, "LBrace")) + (IF tokens[k] = "LBrace" THEN 1 ELSE 0)
      /\ Cardinality(Before(k + 1, "RBrace")) =
           Cardinality(Before(k, "RBrace")) + (IF tokens[k] = "RBrace" THEN 1 ELSE 0)
  BY CountBefore
<1> QED
  BY <1>1 DEF OpenBraces

LEMMA SameBraces ==
  ASSUME tokens' = tokens
  PROVE  \A k : OpenBraces(k)' = OpenBraces(k) /\ Closes(k)' = Closes(k)
<1>1. \A k, t : Before(k, t)' = Before(k, t)
  BY DEF Before
<1>2. \A k : OpenBraces(k)' = OpenBraces(k)
  BY <1>1 DEF OpenBraces
<1> QED
  BY <1>2 DEF Closes

\* Reading a token: the braces behind it, and whether it ends a body.
LEMMA ReadOn ==
  ASSUME Typed, tokens' = tokens, Next1 # "Eof", pos' = Advanced
  PROVE  /\ pos' = pos + 1 /\ pos' \in DOMAIN tokens' /\ pos \in Nat \ {0}
         /\ OpenBraces(pos) \in Int
         /\ OpenBraces(pos)' = OpenBraces(pos) + (IF tokens[pos] = "LBrace" THEN 1
                                                  ELSE IF tokens[pos] = "RBrace" THEN -1 ELSE 0)
         /\ Closes(pos)' <=> tokens[pos] = "RBrace" /\ OpenBraces(pos)' = 0
<1>1. pos' = pos + 1 /\ pos' \in DOMAIN tokens' /\ pos \in Nat \ {0}
  BY NextFacts, TokenFacts
<1>2. /\ OpenBraces(pos) \in Int
      /\ OpenBraces(pos + 1) = OpenBraces(pos) + (IF tokens[pos] = "LBrace" THEN 1
                                                  ELSE IF tokens[pos] = "RBrace" THEN -1 ELSE 0)
  BY <1>1, BraceStep
<1> PICK q : q = pos + 1
  OBVIOUS
<1>3. OpenBraces(q)' = OpenBraces(q) /\ Closes(q)' = Closes(q)
  BY SameBraces
<1>4. OpenBraces(pos)' = OpenBraces(q)' /\ Closes(pos)' = Closes(q)'
  BY <1>1 DEF OpenBraces, Before, Closes
<1>5. Closes(q) <=> tokens[pos] = "RBrace" /\ OpenBraces(q) = 0
  BY <1>1 DEF Closes
<1> QED
  BY <1>1, <1>2, <1>3, <1>4, <1>5

-----------------------------------------------------------------------------
(* The rules: what each plans.                                             *)

\* A row of goals, all in S.
Listed(todo, S) == IsRow(todo) /\ \A k \in 1 .. Len(todo) : todo[k] \in S

LEMMA Lists ==
  ASSUME NEW S
  PROVE  /\ Listed(<<>>, S)
         /\ \A a \in S : Listed(<<a>>, S)
         /\ \A a, b \in S : Listed(<<a, b>>, S)
         /\ \A a, b, c \in S : Listed(<<a, b, c>>, S)
         /\ \A a, b, c, d \in S : Listed(<<a, b, c, d>>, S)
         /\ \A a, b, c, d, e \in S : Listed(<<a, b, c, d, e>>, S)
         /\ \A a, b, c, d, e, f \in S : Listed(<<a, b, c, d, e, f>>, S)
<1>1. Listed(<<>>, S)
  BY DEF Listed, IsRow
<1>2. ASSUME NEW a \in S PROVE Listed(<<a>>, S)
  BY DEF Listed, IsRow
<1>3. ASSUME NEW a \in S, NEW b \in S PROVE Listed(<<a, b>>, S)
  BY DEF Listed, IsRow
<1>4. ASSUME NEW a \in S, NEW b \in S, NEW c \in S PROVE Listed(<<a, b, c>>, S)
  BY DEF Listed, IsRow
<1>5. ASSUME NEW a \in S, NEW b \in S, NEW c \in S, NEW d \in S
      PROVE  Listed(<<a, b, c, d>>, S)
  BY DEF Listed, IsRow
<1>6. ASSUME NEW a \in S, NEW b \in S, NEW c \in S, NEW d \in S, NEW e \in S
      PROVE  Listed(<<a, b, c, d, e>>, S)
  BY DEF Listed, IsRow
<1>7. ASSUME NEW a \in S, NEW b \in S, NEW c \in S, NEW d \in S, NEW e \in S, NEW f \in S
      PROVE  Listed(<<a, b, c, d, e, f>>, S)
  BY DEF Listed, IsRow
<1> QED
  BY <1>1, <1>2, <1>3, <1>4, <1>5, <1>6, <1>7

LEMMA ListsJoin ==
  ASSUME NEW S, NEW s, NEW t, Listed(s, S), Listed(t, S)
  PROVE  Listed(s \o t, S)
<1>1. IsRow(s) /\ IsRow(t) /\ Len(s) \in Nat /\ Len(t) \in Nat
  BY DEF Listed, IsRow
<1> PICK st : st = s \o t
  OBVIOUS
<1>2. /\ IsRow(st) /\ Len(st) = Len(s) + Len(t)
      /\ \A k \in 1 .. Len(s) : st[k] = s[k]
      /\ \A k \in 1 .. Len(t) : st[Len(s) + k] = t[k]
  BY <1>1, Joined
<1>3. ASSUME NEW k \in 1 .. Len(st) PROVE st[k] \in S
  <2>1. CASE k \in 1 .. Len(s)
    BY <1>2, <2>1 DEF Listed
  <2>2. CASE k \notin 1 .. Len(s)
    <3> PICK j : j = k - Len(s)
      OBVIOUS
    <3>1. j \in 1 .. Len(t) /\ k = Len(s) + j
      BY <1>1, <1>2, <2>2
    <3> QED
      BY <1>2, <3>1 DEF Listed
  <2> QED
    BY <2>1, <2>2
<1>4. Listed(st, S)
  BY <1>2, <1>3 DEF Listed
<1> QED
  BY <1>4, Zenon

\* The rules of statements and expressions, but for the blocks: neither what
\* they are for nor what they plan has to do with braces or with headers.
Inner == {"Statement", "ElseBody", "If", "Else", "Or", "MoreOr", "And", "MoreAnd", "Cmp", "MoreCmp",
          "Add", "MoreAdd", "Mul", "MoreMul", "Not", "Unary", "Primary", "Args", "MoreArgs"}
Within == Inner \cup Operators \cup
          {"let", "ident", "=", "Semicolon", "Drop", "Assigned", "return", "Returned", "while",
           "Condition", "Body", "if", "else", "int", "true", "false", "PushI64", "PushBool",
           "(", ")", "Comma", "WantBool", "WantI64", "BoolBool", "IntBool", "IntInt"}
Plain(r) == r.goal \in Inner /\ Listed(r.todo, Within)

LEMMA PlainRule ==
  ASSUME NEW goal \in Inner, NEW on, NEW todo, Listed(todo, Within)
  PROVE  Plain(Rule(goal, on, todo))
BY DEF Plain, Rule

LEMMA PlainStatements == \A r \in StatementRules : Plain(r)
<1>1. /\ \A on : Plain(Rule("Statement", on, <<"let", "ident", "=", "Or", "Semicolon", "Drop">>))
      /\ \A on : Plain(Rule("Statement", on, <<"ident", "=", "Or", "Semicolon", "Assigned">>))
      /\ \A on : Plain(Rule("Statement", on, <<"return", "Or", "Returned", "Semicolon">>))
      /\ \A on : Plain(Rule("Statement", on, <<"If">>))
  <2>1. /\ {"let", "ident", "=", "Or", "Semicolon", "Drop", "Assigned", "return", "Returned",
            "If"} \subseteq Within
        /\ "Statement" \in Inner
    BY DEF Inner, Within
  <2>2. Listed(<<"let", "ident", "=", "Or", "Semicolon", "Drop">>, Within)
    BY <2>1, Lists
  <2>3. Listed(<<"ident", "=", "Or", "Semicolon", "Assigned">>, Within)
    BY <2>1, Lists
  <2>4. Listed(<<"return", "Or", "Returned", "Semicolon">>, Within) /\ Listed(<<"If">>, Within)
    BY <2>1, Lists
  <2> QED
    BY <2>1, <2>2, <2>3, <2>4, PlainRule, Zenon
<1>2. /\ \A on : Plain(Rule("Statement", on, <<"while", "Or", "Condition", "Body">>))
      /\ \A on : Plain(Rule("Statement", on, <<"Or", "Semicolon", "Drop">>))
      /\ \A on : Plain(Rule("ElseBody", on, <<"If">>))
      /\ \A on : Plain(Rule("ElseBody", on, <<"Body">>))
  BY PlainRule, Lists DEF Inner, Within
<1>3. /\ \A on : Plain(Rule("If", on, <<"if", "Or", "Condition", "Body", "Else">>))
      /\ \A on : Plain(Rule("Else", on, <<"else", "ElseBody">>))
      /\ \A on : Plain(Rule("Else", on, <<>>))
  BY PlainRule, Lists DEF Inner, Within
<1> QED
  BY <1>1, <1>2, <1>3 DEF StatementRules, Optional, Always

\* A level plans both its operands, and itself again.
LEMMA PlainLevel ==
  ASSUME NEW goal \in Inner, NEW more \in Inner, NEW below \in Within, NEW op \in Within,
         NEW want \in Within, NEW apply \in Within, NEW again, Listed(again, Within)
  PROVE  \A r \in Level(goal, more, below, op, want, apply, again) : Plain(r)
<1>1. more \in Within
  BY DEF Within
<1>2. Listed(<<below, more>>, Within) /\ Listed(<<op, want, below, apply>>, Within)
  BY <1>1, Lists
<1>3. Listed(<<op, want, below, apply>> \o again, Within)
  BY <1>2, ListsJoin
<1>4. /\ Plain(Rule(goal, Ahead, <<below, more>>))
      /\ Plain(Rule(more, {op}, <<op, want, below, apply>> \o again))
  BY <1>2, <1>3, PlainRule
<1> QED
  BY <1>4, Zenon DEF Level

LEMMA PlainExpressions == \A r \in ExpressionRules : Plain(r)
<1>1. /\ Listed(<<>>, Within) /\ Listed(<<"MoreOr">>, Within) /\ Listed(<<"MoreAnd">>, Within)
      /\ Listed(<<"MoreAdd">>, Within) /\ Listed(<<"MoreMul">>, Within)
  BY Lists DEF Inner, Within
<1>2. /\ {"Or", "MoreOr", "And", "MoreAnd", "Cmp", "MoreCmp", "Add", "MoreAdd", "Mul", "MoreMul"}
           \subseteq Inner
      /\ {"And", "Not", "Add", "Mul", "Unary", "or", "and", "<", "+", "-", "*", "WantBool", "WantI64",
          "BoolBool", "IntBool", "IntInt"} \subseteq Within
  BY DEF Inner, Within, Operators
<1>3. /\ \A r \in Level("Or", "MoreOr", "And", "or", "WantBool", "BoolBool", <<"MoreOr">>) :
           Plain(r)
      /\ \A r \in Level("And", "MoreAnd", "Not", "and", "WantBool", "BoolBool", <<"MoreAnd">>) :
           Plain(r)
      /\ \A r \in Level("Cmp", "MoreCmp", "Add", "<", "WantI64", "IntBool", <<>>) : Plain(r)
      /\ \A r \in Level("Add", "MoreAdd", "Mul", "+", "WantI64", "IntInt", <<"MoreAdd">>) : Plain(r)
      /\ \A r \in Level("Add", "MoreAdd", "Mul", "-", "WantI64", "IntInt", <<"MoreAdd">>) : Plain(r)
      /\ \A r \in Level("Mul", "MoreMul", "Unary", "*", "WantI64", "IntInt", <<"MoreMul">>) :
           Plain(r)
  <2>1. \A r \in Level("Or", "MoreOr", "And", "or", "WantBool", "BoolBool", <<"MoreOr">>) : Plain(r)
    BY <1>1, <1>2, PlainLevel
  <2>2. \A r \in Level("And", "MoreAnd", "Not", "and", "WantBool", "BoolBool", <<"MoreAnd">>) :
          Plain(r)
    BY <1>1, <1>2, PlainLevel
  <2>3. \A r \in Level("Cmp", "MoreCmp", "Add", "<", "WantI64", "IntBool", <<>>) : Plain(r)
    BY <1>1, <1>2, PlainLevel
  <2>4. \A r \in Level("Add", "MoreAdd", "Mul", "+", "WantI64", "IntInt", <<"MoreAdd">>) : Plain(r)
    BY <1>1, <1>2, PlainLevel
  <2>5. \A r \in Level("Add", "MoreAdd", "Mul", "-", "WantI64", "IntInt", <<"MoreAdd">>) : Plain(r)
    BY <1>1, <1>2, PlainLevel
  <2>6. \A r \in Level("Mul", "MoreMul", "Unary", "*", "WantI64", "IntInt", <<"MoreMul">>) : Plain(r)
    BY <1>1, <1>2, PlainLevel
  <2> QED
    BY <2>1, <2>2, <2>3, <2>4, <2>5, <2>6
<1>4. /\ \A on : Plain(Rule("MoreOr", on, <<>>)) /\ Plain(Rule("MoreAnd", on, <<>>))
      /\ \A on : Plain(Rule("MoreCmp", on, <<>>)) /\ Plain(Rule("MoreAdd", on, <<>>))
      /\ \A on : Plain(Rule("MoreMul", on, <<>>))
  BY <1>1, PlainRule DEF Inner
<1>5. /\ \A on : Plain(Rule("Not", on, <<"not", "Not", "WantBool">>))
      /\ \A on : Plain(Rule("Not", on, <<"Cmp">>))
      /\ \A on : Plain(Rule("Unary", on, <<"-", "Unary", "WantI64">>))
      /\ \A on : Plain(Rule("Unary", on, <<"Primary">>))
  BY PlainRule, Lists DEF Inner, Within, Operators
<1>6. /\ \A on : Plain(Rule("Primary", on, <<"int", "PushI64">>))
      /\ \A on : Plain(Rule("Primary", on, <<"true", "PushBool">>))
      /\ \A on : Plain(Rule("Primary", on, <<"false", "PushBool">>))
      /\ \A on : Plain(Rule("Primary", on, <<"(", "Or", ")">>))
  BY PlainRule, Lists DEF Inner, Within
<1>7. /\ \A on : Plain(Rule("Args", on, <<"Or", "MoreArgs">>)) /\ Plain(Rule("Args", on, <<>>))
      /\ \A on : Plain(Rule("MoreArgs", on, <<"Comma", "Or", "MoreArgs">>))
      /\ \A on : Plain(Rule("MoreArgs", on, <<>>))
  BY PlainRule, Lists DEF Inner, Within
<1> QED
  BY <1>3, <1>4, <1>5, <1>6, <1>7 DEF ExpressionRules, Optional

\* The rules of headers and of blocks, one by one.
OpeningGoals == <<"fn", "Name", "(", "Params", ")", "->", "RetType">>
LEMMA RuleShapes ==
  ASSUME NEW r \in Rules
  PROVE  \/ r.goal = "Header" /\ r.todo = OpeningGoals
         \/ r.goal = "Params" /\ r.todo \in {<<>>, <<"Param", "MoreParams">>}
         \/ r.goal = "MoreParams" /\ r.todo \in {<<>>, <<"Comma", "Param", "MoreParams">>}
         \/ r.goal = "Param" /\ r.todo = <<"ParamName", ":", "ParamType">>
         \/ r.goal = "Body" /\ r.todo = <<"LBrace", "Statements">>
         \/ r.goal = "Statements" /\ r.todo \in {<<"RBrace">>, <<"Statement", "Statements">>}
         \/ Plain(r)
<1>1. CASE r \in HeaderRules
  BY <1>1 DEF HeaderRules, Always, Optional, Rule, OpeningGoals
<1>2. CASE r \in BlockRules
  BY <1>2 DEF BlockRules, Always, Rule
<1>3. CASE r \in StatementRules
  BY <1>3, PlainStatements
<1>4. CASE r \in ExpressionRules
  BY <1>4, PlainExpressions
<1> QED
  BY <1>1, <1>2, <1>3, <1>4 DEF Rules

-----------------------------------------------------------------------------
(* Reading a header.                                                       *)

LEMMA HeaderTops ==
  ASSUME NEW top \in HeaderGoals
  PROVE  /\ Len(HeaderStack(top)) \in 1 .. 7
         /\ HeaderStack(top)[Len(HeaderStack(top))] = top
<1> DEFINE Ends(x) == /\ Len(HeaderStack(x)) \in 1 .. 7
                      /\ HeaderStack(x)[Len(HeaderStack(x))] = x
<1>1. Ends("Header")
  BY DEF HeaderStack
<1>2. Ends("fn")
  BY DEF HeaderStack
<1>3. Ends("Name")
  BY DEF HeaderStack
<1>4. Ends("(")
  BY DEF HeaderStack
<1>5. Ends("Params")
  BY DEF HeaderStack
<1>6. Ends("Param")
  BY DEF HeaderStack
<1>7. Ends("ParamName")
  BY DEF HeaderStack
<1>8. Ends(":")
  BY DEF HeaderStack
<1>9. Ends("ParamType")
  BY DEF HeaderStack
<1>10. Ends("MoreParams")
  BY DEF HeaderStack
<1>11. Ends("Comma")
  BY DEF HeaderStack
<1>12. Ends(")")
  BY DEF HeaderStack
<1>13. Ends("->")
  BY DEF HeaderStack
<1>14. Ends("RetType")
  BY DEF HeaderStack
<1> HIDE DEF Ends
<1>15. Ends(top)
  BY <1>1, <1>2, <1>3, <1>4, <1>5, <1>6, <1>7, <1>8, <1>9, <1>10, <1>11, <1>12, <1>13, <1>14
     DEF HeaderGoals
<1> QED
  BY <1>15 DEF Ends

LEMMA AtHeaderTop ==
  ASSUME IsRow(goals), NEW top \in HeaderGoals, AtHeader(top)
  PROVE  Height > 2 /\ Top = Goal(top, 0) /\ Top.do = top
<1> PICK n, t : n = Len(HeaderStack(top)) /\ t = HeaderStack(top)
  OBVIOUS
<1>1. n \in 1 .. 7 /\ t[n] = top
  BY HeaderTops
<1>2. Height = 2 + n /\ GoalAt(n + 2) = Goal(top, 0)
  BY <1>1 DEF AtHeader
<1>3. Height > 2 /\ Height = n + 2
  BY <1>1, <1>2
<1>4. Top = GoalAt(Height)
  BY <1>3, TopGoal
<1> QED
  BY <1>2, <1>3, <1>4 DEF Goal

\* Planning todo turns the goals of a header from top on into those from next on.
Follows(top, todo, next) ==
  /\ top \in HeaderGoals /\ next \in HeaderGoals /\ IsRow(todo)
  /\ Len(HeaderStack(next)) = Len(HeaderStack(top)) - 1 + Len(todo)
  /\ \A h \in 1 .. Len(HeaderStack(top)) - 1 : HeaderStack(next)[h] = HeaderStack(top)[h]
  /\ \A h \in Len(HeaderStack(top)) .. Len(HeaderStack(next)) :
       HeaderStack(next)[h] = todo[Len(HeaderStack(next)) + 1 - h]

\* An expected token gone, the next is on top.
LEMMA HeaderPops ==
  /\ Follows("fn", <<>>, "Name")
  /\ Follows("Name", <<>>, "(")
  /\ Follows("(", <<>>, "Params")
  /\ Follows("Params", <<>>, ")")
  /\ Follows("ParamName", <<>>, ":")
  /\ Follows(":", <<>>, "ParamType")
  /\ Follows("ParamType", <<>>, "MoreParams")
  /\ Follows("MoreParams", <<>>, ")")
  /\ Follows("Comma", <<>>, "Param")
  /\ Follows(")", <<>>, "->")
  /\ Follows("->", <<>>, "RetType")
<1>1. ASSUME NEW top \in HeaderGoals, NEW next \in HeaderGoals,
             Len(HeaderStack(next)) = Len(HeaderStack(top)) - 1,
             \A h \in 1 .. Len(HeaderStack(next)) : HeaderStack(next)[h] = HeaderStack(top)[h]
      PROVE  Follows(top, <<>>, next)
  <2>1. Len(HeaderStack(next)) \in Nat /\ Len(HeaderStack(top)) \in Nat
    BY HeaderTops
  <2>2. IsRow(<<>>) /\ Len(<<>>) = 0
    BY DEF IsRow
  <2> QED
    BY <1>1, <2>1, <2>2 DEF Follows
<1>2. Follows("fn", <<>>, "Name")
  BY <1>1 DEF HeaderGoals, HeaderStack
<1>3. Follows("Name", <<>>, "(")
  BY <1>1 DEF HeaderGoals, HeaderStack
<1>4. Follows("(", <<>>, "Params")
  BY <1>1 DEF HeaderGoals, HeaderStack
<1>5. Follows("Params", <<>>, ")")
  BY <1>1 DEF HeaderGoals, HeaderStack
<1>6. Follows("ParamName", <<>>, ":")
  BY <1>1 DEF HeaderGoals, HeaderStack
<1>7. Follows(":", <<>>, "ParamType")
  BY <1>1 DEF HeaderGoals, HeaderStack
<1>8. Follows("ParamType", <<>>, "MoreParams")
  BY <1>1 DEF HeaderGoals, HeaderStack
<1>9. Follows("MoreParams", <<>>, ")")
  BY <1>1 DEF HeaderGoals, HeaderStack
<1>10. Follows("Comma", <<>>, "Param")
  BY <1>1 DEF HeaderGoals, HeaderStack
<1>11. Follows(")", <<>>, "->")
  BY <1>1 DEF HeaderGoals, HeaderStack
<1>12. Follows("->", <<>>, "RetType")
  BY <1>1 DEF HeaderGoals, HeaderStack
<1> QED
  BY <1>2, <1>3, <1>4, <1>5, <1>6, <1>7, <1>8, <1>9, <1>10, <1>11, <1>12

LEMMA HeaderPlans ==
  /\ Follows("Header", OpeningGoals, "fn")
  /\ Follows("Params", <<"Param", "MoreParams">>, "Param")
  /\ Follows("Param", <<"ParamName", ":", "ParamType">>, "ParamName")
  /\ Follows("MoreParams", <<"Comma", "Param", "MoreParams">>, "Comma")
<1>1. Follows("Header", OpeningGoals, "fn")
  BY DEF OpeningGoals, Follows, IsRow, HeaderGoals, HeaderStack
<1>2. Follows("Params", <<"Param", "MoreParams">>, "Param")
  BY DEF Follows, IsRow, HeaderGoals, HeaderStack
<1>3. Follows("Param", <<"ParamName", ":", "ParamType">>, "ParamName")
  BY DEF Follows, IsRow, HeaderGoals, HeaderStack
<1>4. Follows("MoreParams", <<"Comma", "Param", "MoreParams">>, "Comma")
  BY DEF Follows, IsRow, HeaderGoals, HeaderStack
<1> QED
  BY <1>1, <1>2, <1>3, <1>4

LEMMA HeaderMoves ==
  ASSUME IsRow(goals), NEW top, NEW todo, NEW next, Follows(top, todo, next),
         AtHeader(top), Then(todo)
  PROVE  /\ AtHeader(next)' /\ IsRow(goals)' /\ next \in HeaderGoals
         /\ GoalAt(1)' = GoalAt(1) /\ GoalAt(2)' = GoalAt(2)
<1> PICK s, t, m, n, l : /\ s = HeaderStack(top) /\ t = HeaderStack(next)
                         /\ m = Len(s) /\ n = Len(t) /\ l = Len(todo)
  OBVIOUS
<1>1. m \in 1 .. 7 /\ n \in 1 .. 7
  BY HeaderTops DEF Follows
<1>2. /\ l \in Nat /\ n = m - 1 + l /\ \A h \in 1 .. m - 1 : t[h] = s[h]
      /\ \A h \in m .. n : t[h] = todo[n + 1 - h]
  BY DEF Follows, IsRow
<1>3. Height = 2 + m /\ \A h \in 1 .. m : GoalAt(h + 2) = Goal(s[h], 0)
  BY DEF AtHeader
<1>4. Height > 0 /\ IsRow(todo)
  BY <1>1, <1>3 DEF Follows
<1>5. /\ IsRow(goals)' /\ Height' = Height - 1 + l
      /\ \A h \in 1 .. Height - 1 : GoalAt(h)' = GoalAt(h)
      /\ \A h \in Height .. Height - 1 + l : GoalAt(h)' = Goal(todo[Height + l - h], 0)
  BY <1>4, Planned
<1>6. Height' = 2 + n
  BY <1>1, <1>2, <1>3, <1>5
<1>7. ASSUME NEW h \in 1 .. n PROVE GoalAt(h + 2)' = Goal(t[h], 0)
  <2> PICK j : j = h + 2
    OBVIOUS
  <2>1. CASE h \in 1 .. m - 1
    <3>1. j \in 1 .. Height - 1
      BY <1>1, <1>3, <2>1
    <3>2. GoalAt(j)' = GoalAt(j)
      BY <1>5, <3>1
    <3>3. GoalAt(j) = Goal(s[h], 0) /\ t[h] = s[h]
      BY <1>1, <1>2, <1>3, <2>1
    <3> QED
      BY <3>2, <3>3
  <2>2. CASE h \notin 1 .. m - 1
    <3>1. j \in Height .. Height - 1 + l /\ Height + l - j = n + 1 - h /\ h \in m .. n
      BY <1>1, <1>2, <1>3, <2>2
    <3>2. GoalAt(j)' = Goal(todo[n + 1 - h], 0)
      BY <1>5, <3>1
    <3> QED
      BY <1>2, <3>1, <3>2
  <2> QED
    BY <2>1, <2>2
<1>8. AtHeader(next)'
  BY <1>6, <1>7 DEF AtHeader
<1>9. 1 \in 1 .. Height - 1 /\ 2 \in 1 .. Height - 1
  BY <1>1, <1>3
<1> QED
  BY <1>5, <1>8, <1>9 DEF Follows

\* What has been read stays read, and a comma is one more.
LEMMA ReadKept ==
  ASSUME UNCHANGED <<tokens, header>>
  PROVE  \A s, m, commas : /\ HeaderRead(s, m, commas)' = HeaderRead(s, m, commas)
                           /\ LastNamed(s, m)' = LastNamed(s, m)
BY DEF HeaderRead, LastNamed, NamedAt, ParamsAt, CommasAt

LEMMA ReadComma ==
  ASSUME NEW s \in Nat, NEW n \in Nat, HeaderRead(s, n, n - 1), tokens[s + 4 * n + 2] = "Comma"
  PROVE  HeaderRead(s, n, n)
BY DEF HeaderRead, CommasAt

LEMMA ReadNothing ==
  ASSUME NEW s \in Nat, HeaderRead(s, 0, 0)
  PROVE  HeaderRead(s, 0, 0 - 1)
BY DEF HeaderRead, CommasAt

\* Rules plan what can come next where the header has been read to.
LEMMA PlansProgress ==
  ASSUME UNCHANGED <<tokens, header>>, pos' = pos, NEW s \in Nat,
         Len(header.params) \in Nat
  PROVE  /\ Progress(s, "Header") => Progress(s, "fn")'
         /\ Progress(s, "Params") => Progress(s, "Param")' /\ Progress(s, ")")'
         /\ Progress(s, "Param") => Progress(s, "ParamName")'
         /\ Progress(s, "MoreParams") => Progress(s, "Comma")' /\ Progress(s, ")")'
<1> PICK n : n = Len(header.params)
  OBVIOUS
<1>1. n \in Nat /\ Len(header'.params) = n
  OBVIOUS
<1>2. /\ \A m, c : HeaderRead(s, m, c)' = HeaderRead(s, m, c)
      /\ \A m : LastNamed(s, m)' = LastNamed(s, m)
  BY ReadKept
<1>3. Progress(s, "Header") => Progress(s, "fn")'
  BY DEF Progress
<1>4. ASSUME Progress(s, "Params") PROVE Progress(s, "Param")' /\ Progress(s, ")")'
  <2>1. pos = s + 3 /\ n = 0 /\ HeaderRead(s, 0, 0)
    BY <1>4 DEF Progress
  <2>2. HeaderRead(s, 0, 0 - 1)
    BY <2>1, ReadNothing
  <2>3. s + 4 * n + 3 = s + 3 /\ Closing(s, n) = s + 3
    BY <2>1 DEF Closing
  <2>4. pos' = s + 4 * n + 3 /\ HeaderRead(s, n, n)'
    BY <1>2, <2>1, <2>3
  <2>5. pos' = Closing(s, n) /\ HeaderRead(s, n, n - 1)'
    BY <1>2, <2>1, <2>2, <2>3
  <2> QED
    BY <1>1, <2>4, <2>5 DEF Progress
<1>5. Progress(s, "Param") => Progress(s, "ParamName")'
  BY <1>1, <1>2 DEF Progress
<1>6. ASSUME Progress(s, "MoreParams") PROVE Progress(s, "Comma")' /\ Progress(s, ")")'
  <2>1. n > 0 /\ pos = s + 4 * n + 2 /\ HeaderRead(s, n, n - 1)
    BY <1>6 DEF Progress
  <2>2. HeaderRead(s, n, n - 1)'
    BY <1>2, <2>1
  <2>3. Closing(s, n) = s + 4 * n + 2
    BY <1>1, <2>1 DEF Closing
  <2> QED
    BY <1>1, <2>1, <2>2, <2>3 DEF Progress
<1> QED
  BY <1>3, <1>4, <1>5, <1>6

\* So do the tokens expected.
LEMMA MatchProgress ==
  ASSUME UNCHANGED <<tokens, header>>, pos' = pos + 1, NEW s \in Nat,
         Len(header.params) \in Nat
  PROVE  /\ Progress(s, "fn") => Progress(s, "Name")'
         /\ Progress(s, "(") => Progress(s, "Params")'
         /\ Progress(s, ":") => Progress(s, "ParamType")'
         /\ Progress(s, "Comma") /\ tokens[pos] = "Comma" => Progress(s, "Param")'
         /\ Progress(s, ")") /\ tokens[pos] = ")" => Progress(s, "->")'
         /\ Progress(s, "->") => Progress(s, "RetType")'
<1> PICK n : n = Len(header.params)
  OBVIOUS
<1>1. n \in Nat /\ Len(header'.params) = n
  OBVIOUS
<1>2. /\ \A m, c : HeaderRead(s, m, c)' = HeaderRead(s, m, c)
      /\ \A m : LastNamed(s, m)' = LastNamed(s, m)
  BY ReadKept
<1>3. Progress(s, "fn") => Progress(s, "Name")'
  BY DEF Progress
<1>4. Progress(s, "(") => Progress(s, "Params")'
  BY <1>1, <1>2 DEF Progress
<1>5. Progress(s, ":") => Progress(s, "ParamType")'
  BY <1>1, <1>2 DEF Progress
<1>6. ASSUME Progress(s, "Comma"), tokens[pos] = "Comma" PROVE Progress(s, "Param")'
  <2>1. n > 0 /\ pos = s + 4 * n + 2 /\ HeaderRead(s, n, n - 1)
    BY <1>6 DEF Progress
  <2>2. HeaderRead(s, n, n)'
    BY <1>1, <1>2, <1>6, <2>1, ReadComma
  <2>3. pos' = s + 4 * n + 3
    BY <1>1, <2>1
  <2> QED
    BY <1>1, <2>2, <2>3 DEF Progress
<1>7. ASSUME Progress(s, ")"), tokens[pos] = ")" PROVE Progress(s, "->")'
  <2>1. pos = Closing(s, n) /\ HeaderRead(s, n, n - 1)
    BY <1>7 DEF Progress
  <2>2. HeaderRead(s, n, n - 1)' /\ tokens'[Closing(s, n)] = ")" /\ pos' = Closing(s, n) + 1
    BY <1>2, <1>7, <2>1
  <2> QED
    BY <1>1, <2>2 DEF Progress, Closing
<1>8. ASSUME Progress(s, "->") PROVE Progress(s, "RetType")'
  <2>1. /\ pos = Closing(s, n) + 1 /\ HeaderRead(s, n, n - 1)
        /\ tokens[Closing(s, n)] = ")"
    BY <1>8 DEF Progress
  <2>2. Closing(s, n) \in Nat
    BY <1>1 DEF Closing
  <2>3. /\ HeaderRead(s, n, n - 1)' /\ tokens'[Closing(s, n)] = ")"
        /\ pos' = Closing(s, n) + 2
    BY <1>2, <2>1, <2>2
  <2> QED
    BY <1>1, <2>3 DEF Progress, Closing
<1> QED
  BY <1>3, <1>4, <1>5, <1>6, <1>7, <1>8

\* Records of headers, taken apart and put together.
LEMMA HeaderFields ==
  ASSUME NEW h \in HeaderRecords
  PROVE  /\ h.name \in Names \cup {""} /\ h.params \in Seq(ParamTypes)
         /\ h.ret \in Types \cup {NoType} /\ h.calls \in Seq(Calls)
         /\ Len(h.params) \in Nat
<1>1. /\ h.name \in Names \cup {""} /\ h.params \in Seq(ParamTypes)
      /\ h.ret \in Types \cup {NoType} /\ h.calls \in Seq(Calls)
  BY DEF HeaderRecords
<1> QED
  BY <1>1, LenProperties

LEMMA HeaderMade ==
  ASSUME NEW name \in Names \cup {""}, NEW params \in Seq(ParamTypes),
         NEW ret \in Types \cup {NoType}, NEW calls \in Seq(Calls), NEW h,
         h = [name |-> name, params |-> params, ret |-> ret, calls |-> calls]
  PROVE  h \in HeaderRecords
BY DEF HeaderRecords

LEMMA HeaderChanged ==
  ASSUME NEW h \in HeaderRecords, NEW v
  PROVE  /\ [h EXCEPT !.params = v] =
              [name |-> h.name, params |-> v, ret |-> h.ret, calls |-> h.calls]
         /\ [h EXCEPT !.ret = v] =
              [name |-> h.name, params |-> h.params, ret |-> v, calls |-> h.calls]
         /\ [h EXCEPT !.calls = v] =
              [name |-> h.name, params |-> h.params, ret |-> h.ret, calls |-> v]
<1> PICK a, b, c, d : h = [name |-> a, params |-> b, ret |-> c, calls |-> d]
  BY DEF HeaderRecords
<1>1. [h EXCEPT !.params = v] = [name |-> h.name, params |-> v, ret |-> h.ret, calls |-> h.calls]
  OBVIOUS
<1>2. [h EXCEPT !.ret = v] = [name |-> h.name, params |-> h.params, ret |-> v, calls |-> h.calls]
  OBVIOUS
<1>3. [h EXCEPT !.calls = v] = [name |-> h.name, params |-> h.params, ret |-> h.ret, calls |-> v]
  OBVIOUS
<1> QED
  BY <1>1, <1>2, <1>3

\* The parameters, the last of them given its type.
LastTyped(ps, ty) == [ps EXCEPT ![Len(ps)].ty = ty]

LEMMA ParamsChanged ==
  ASSUME NEW ps \in Seq(ParamTypes), Len(ps) > 0, NEW ty \in Types
  PROVE  /\ LastTyped(ps, ty) \in Seq(ParamTypes) /\ Len(LastTyped(ps, ty)) = Len(ps)
         /\ LastTyped(ps, ty)[Len(ps)].name = ps[Len(ps)].name
         /\ LastTyped(ps, ty)[Len(ps)].ty = ty
         /\ \A k \in 1 .. Len(ps) - 1 : LastTyped(ps, ty)[k] = ps[k]
<1> PICK n : n = Len(ps)
  OBVIOUS
<1>1. n \in Nat \ {0} /\ n \in 1 .. n
  BY LenProperties
<1>2. ps[n] \in ParamTypes
  BY <1>1, ElementOfSeq
<1> PICK p : p = [ps[n] EXCEPT !.ty = ty]
  OBVIOUS
<1>3. p \in ParamTypes /\ p.name = ps[n].name /\ p.ty = ty
  BY <1>2 DEF ParamTypes
<1> PICK qs : qs = [ps EXCEPT ![n] = p]
  OBVIOUS
<1>4. /\ qs \in Seq(ParamTypes) /\ Len(qs) = n /\ qs[n] = p
      /\ \A k \in 1 .. n : qs[k] = IF k = n THEN p ELSE ps[k]
  BY <1>1, <1>3, ExceptSeq
<1>5. LastTyped(ps, ty) = qs
  BY <1>1 DEF LastTyped
<1> QED
  BY <1>1, <1>3, <1>4, <1>5

\* What the steps that fill in the header make of it.
LEMMA NamedProgress ==
  ASSUME tokens' = tokens, pos' = pos + 1, NEW s \in Nat, Progress(s, "Name"),
         tokens[pos] \in Names, header' = NewHeader(tokens[pos])
  PROVE  header' \in HeaderRecords /\ Progress(s, "(")'
<1>1. /\ header'.name = tokens[pos] /\ header'.params = <<>> /\ header'.ret = NoType
      /\ header'.calls = <<>> /\ header' = [name |-> tokens[pos], params |-> <<>>,
                                            ret |-> NoType, calls |-> <<>>]
  BY DEF NewHeader
<1>2. pos = s + 1 /\ pos' = s + 2
  BY DEF Progress
<1>3. header' \in HeaderRecords
  <2>1. <<>> \in Seq(ParamTypes) /\ <<>> \in Seq(Calls) /\ NoType \in Types \cup {NoType}
    BY EmptySeq
  <2> QED
    BY <1>1, <2>1, HeaderMade
<1>4. HeaderRead(s, 0, 0)'
  BY <1>1, <1>2 DEF HeaderRead, NamedAt, ParamsAt, CommasAt
<1>5. Len(header'.params) = 0
  BY <1>1
<1> QED
  BY <1>2, <1>3, <1>4, <1>5 DEF Progress

\* The name of parameter n + 1 is four tokens after that of parameter n.
LEMMA NextParameter ==
  ASSUME NEW s \in Nat, NEW n \in Nat
  PROVE  /\ s + 4 * (n + 1) - 1 = s + 4 * n + 3 /\ s + 4 * n + 3 + 1 = s + 4 * (n + 1)
         /\ (n + 1) - 1 = n /\ n + 1 > 0
OBVIOUS

LEMMA ParamNamedProgress ==
  ASSUME tokens' = tokens, pos' = pos + 1, NEW s \in Nat, Progress(s, "ParamName"),
         tokens[pos] \in Names, header \in HeaderRecords,
         header' = [header EXCEPT !.params = Append(@, [name |-> tokens[pos], ty |-> NoType])]
  PROVE  header' \in HeaderRecords /\ Progress(s, ":")'
<1> PICK n, ps, p : n = Len(header.params) /\ ps = header.params
                    /\ p = [name |-> tokens[pos], ty |-> NoType]
  OBVIOUS
<1>1. n \in Nat /\ ps \in Seq(ParamTypes) /\ n = Len(ps)
  BY HeaderFields, Zenon
<1>2. p \in ParamTypes /\ p.name = tokens[pos]
  BY DEF ParamTypes
<1>3. /\ header'.params = Append(ps, p) /\ header'.name = header.name /\ header'.ret = header.ret
      /\ header'.calls = header.calls
      /\ header' = [name |-> header.name, params |-> Append(ps, p), ret |-> header.ret,
                    calls |-> header.calls]
  BY HeaderChanged
<1> PICK qs : qs = Append(ps, p)
  OBVIOUS
<1>4. /\ qs \in Seq(ParamTypes) /\ Len(qs) = n + 1 /\ qs[n + 1] = p
      /\ \A k \in 1 .. n : qs[k] = ps[k]
  BY <1>1, <1>2, AppendProperties
<1>5. header' \in HeaderRecords
  BY <1>3, <1>4, HeaderFields, HeaderMade
<1>6. pos = s + 4 * n + 3 /\ HeaderRead(s, n, n)
  BY DEF Progress
<1>7. HeaderRead(s, n, n)'
  <2>1. NamedAt(s, header)' /\ header'.calls = <<>>
    BY <1>3, <1>6 DEF HeaderRead, NamedAt
  <2>2. ParamsAt(s, header, n)'
    <3>1. ParamsAt(s, header, n)
      BY <1>6 DEF HeaderRead
    <3>2. \A k \in 1 .. n : header'.params[k] = header.params[k]
      BY <1>3, <1>4, Zenon
    <3> QED
      BY <3>1, <3>2, Zenon DEF ParamsAt
  <2>3. CommasAt(s, n)'
    BY <1>6 DEF HeaderRead, CommasAt
  <2> QED
    BY <2>1, <2>2, <2>3, Zenon DEF HeaderRead
<1>8. s + 4 * (n + 1) - 1 = pos /\ pos' = s + 4 * (n + 1) /\ (n + 1) - 1 = n /\ n + 1 > 0
  BY <1>1, <1>6, NextParameter, Zenon
<1> PICK m : m = n + 1
  OBVIOUS
<1>9. LastNamed(s, m)'
  BY <1>2, <1>3, <1>4, <1>8 DEF LastNamed
<1>10. /\ Len(header'.params) = m /\ m > 0 /\ pos' = s + 4 * m
       /\ HeaderRead(s, m - 1, m - 1)' /\ LastNamed(s, m)'
  BY <1>3, <1>4, <1>7, <1>8, <1>9
<1> QED
  BY <1>5, <1>10 DEF Progress

LEMMA LastParamTyped ==
  ASSUME NEW h \in HeaderRecords, NEW ty \in Types
  PROVE  [h EXCEPT !.params[Len(h.params)].ty = ty] =
           [name |-> h.name, params |-> LastTyped(h.params, ty), ret |-> h.ret,
            calls |-> h.calls]
<1>1. \A v : [h EXCEPT !.params = v] =
              [name |-> h.name, params |-> v, ret |-> h.ret, calls |-> h.calls]
  BY HeaderChanged
<1>2. [h EXCEPT !.params[Len(h.params)].ty = ty] =
        [h EXCEPT !.params = LastTyped(h.params, ty)]
  BY DEF LastTyped, HeaderRecords
<1> QED
  BY <1>1, <1>2, Zenon

LEMMA ParamTypedProgress ==
  ASSUME tokens' = tokens, pos' = pos + 1, NEW s \in Nat, Progress(s, "ParamType"),
         tokens[pos] \in Types, header \in HeaderRecords,
         NEW qs \in Seq(ParamTypes), Len(qs) = Len(header.params),
         qs[Len(qs)].name = header.params[Len(qs)].name, qs[Len(qs)].ty = tokens[pos],
         \A k \in 1 .. Len(qs) - 1 : qs[k] = header.params[k],
         header' = [name |-> header.name, params |-> qs, ret |-> header.ret,
                    calls |-> header.calls]
  PROVE  header' \in HeaderRecords /\ Progress(s, "MoreParams")'
<1> PICK n, ps : n = Len(qs) /\ ps = header.params
  OBVIOUS
<1>1. n \in Nat
  BY LenProperties
<1>2. /\ n > 0 /\ pos = s + 4 * n + 1 /\ HeaderRead(s, n - 1, n - 1)
      /\ LastNamed(s, n)
  BY DEF Progress
<1>3. /\ qs[n].name = ps[n].name /\ qs[n].ty = tokens[pos]
      /\ \A k \in 1 .. n - 1 : qs[k] = ps[k]
  OBVIOUS
<1>4. /\ header'.params = qs /\ header'.name = header.name /\ header'.calls = header.calls
  OBVIOUS
<1>5. header' \in HeaderRecords
  BY HeaderFields, HeaderMade
<1>6. NamedAt(s, header)' /\ header'.calls = <<>> /\ CommasAt(s, n - 1)'
  BY <1>2, <1>4 DEF HeaderRead, NamedAt, CommasAt
<1>7. ASSUME NEW k \in 1 .. n
      PROVE  /\ qs[k].name = tokens[s + 4 * k - 1]
             /\ qs[k].ty = tokens[s + 4 * k + 1] /\ qs[k].ty \in Types
  <2>1. CASE k = n
    BY <1>2, <1>3, <2>1 DEF LastNamed
  <2>2. CASE k # n
    <3>1. k \in 1 .. n - 1
      BY <1>1, <2>2
    <3>2. ParamsAt(s, header, n - 1)
      BY <1>2 DEF HeaderRead
    <3>3. /\ ps[k].name = tokens[s + 4 * k - 1]
          /\ ps[k].ty = tokens[s + 4 * k + 1] /\ ps[k].ty \in Types
      BY <3>1, <3>2, Zenon DEF ParamsAt
    <3> QED
      BY <1>3, <3>1, <3>3, Zenon
  <2> QED
    BY <2>1, <2>2
<1>8. HeaderRead(s, n, n - 1)'
  BY <1>4, <1>6, <1>7, Zenon DEF HeaderRead, ParamsAt
<1>9. Len(header'.params) = n /\ pos' = s + 4 * n + 2
  BY <1>1, <1>2, <1>4
<1> QED
  BY <1>2, <1>5, <1>8, <1>9 DEF Progress

LEMMA ReturnTypedProgress ==
  ASSUME tokens' = tokens, NEW s \in Nat, Progress(s, "RetType"),
         tokens[pos] \in Types, header \in HeaderRecords,
         header' = [header EXCEPT !.ret = tokens[pos]]
  PROVE  header' \in HeaderRecords /\ HeaderAt(s, header)' /\ header'.calls = <<>>
<1> PICK n : n = Len(header.params)
  OBVIOUS
<1>1. n \in Nat
  BY HeaderFields, Zenon
<1>2. /\ header'.params = header.params /\ header'.name = header.name
      /\ header'.ret = tokens[pos] /\ header'.calls = header.calls
      /\ header' = [name |-> header.name, params |-> header.params, ret |-> tokens[pos],
                    calls |-> header.calls]
  BY HeaderChanged
<1>3. header' \in HeaderRecords
  BY <1>2, HeaderFields, HeaderMade
<1>4. /\ pos = Closing(s, n) + 2 /\ HeaderRead(s, n, n - 1) /\ tokens[Closing(s, n)] = ")"
  BY DEF Progress
<1>5. NamedAt(s, header)' /\ header'.calls = <<>> /\ CommasAt(s, n - 1)' /\ ParamsAt(s, header, n)'
  BY <1>2, <1>4 DEF HeaderRead, NamedAt, CommasAt, ParamsAt
<1>6. Len(header'.params) = n
  BY <1>2
<1>7. /\ tokens'[Closing(s, n)] = ")" /\ header'.ret = tokens'[Closing(s, n) + 2]
      /\ header'.ret \in Types
  BY <1>2, <1>4
<1>8. /\ CommasAt(s, Len(header.params) - 1)' /\ ParamsAt(s, header, Len(header.params))'
      /\ Closing(s, Len(header'.params)) = Closing(s, n)
  BY <1>2, <1>5, <1>6 DEF CommasAt, ParamsAt
<1> QED
  BY <1>3, <1>5, <1>7, <1>8, Zenon DEF HeaderAt

\* A step that leaves the outer state alone, and what it may do within a header.
OuterKept == UNCHANGED <<tokens, sigs, spans, functions, status>>
HeaderGoesOn(s) ==
  /\ OuterKept /\ Typed' /\ ReadingHeader(s)' /\ Height' > 1
  /\ GoalAt(1)' = GoalAt(1) /\ GoalAt(2)' = GoalAt(2)
  /\ header'.calls \in {<<>>, header.calls}
  /\ \/ pos' = pos
     \/ /\ Next1 # "Eof" /\ pos' = Advanced
        /\ tokens[pos] \notin {"LBrace", "RBrace"} /\ (tokens[pos] = "fn" => pos = s)

LEMMA TypedKept ==
  ASSUME Typed, OuterKept, pos' \in DOMAIN tokens', IsRow(goals)', header' \in HeaderRecords
  PROVE  Typed'
BY DEF Typed, OuterKept, IsRow

LEMMA HeaderAt2 ==
  ASSUME Typed, NEW s, ReadingHeader(s), Height > 2
  PROVE  \E top \in HeaderGoals : AtHeader(top) /\ Progress(s, top) /\ Top.do = top
<1>1. \E top \in HeaderGoals : AtHeader(top) /\ Progress(s, top)
  BY DEF ReadingHeader
<1>2. IsRow(goals)
  BY DEF Typed
<1> QED
  BY <1>1, <1>2, AtHeaderTop

LEMMA NextIsToken ==
  ASSUME Typed
  PROVE  /\ Next1 \in Tokens \cup {"ident"}
         /\ Next1 # "ident" => Next1 = tokens[pos] /\ tokens[pos] \in Tokens
<1>1. tokens[pos] \in Tokens \cup Names
  BY TokenFacts
<1> QED
  BY <1>1 DEF Next1, Kind

\* One goal follows another, and the header has been read as far as it asks.
LEMMA HeaderGoesOnTo ==
  ASSUME Typed, OuterKept, NEW s \in Nat, NEW top, NEW todo, NEW next, Follows(top, todo, next),
         AtHeader(top), Then(todo), Progress(s, next)', header' \in HeaderRecords,
         header'.calls \in {<<>>, header.calls},
         \/ pos' = pos
         \/ /\ Next1 # "Eof" /\ pos' = Advanced
            /\ tokens[pos] \notin {"LBrace", "RBrace"} /\ (tokens[pos] = "fn" => pos = s)
  PROVE  HeaderGoesOn(s)
<1>1. IsRow(goals)
  BY DEF Typed
<1>2. /\ AtHeader(next)' /\ IsRow(goals)' /\ next \in HeaderGoals
      /\ GoalAt(1)' = GoalAt(1) /\ GoalAt(2)' = GoalAt(2)
  BY <1>1, HeaderMoves
<1>3. ReadingHeader(s)'
  BY <1>2 DEF ReadingHeader
<1>4. Height' > 1
  <2>1. Len(HeaderStack(next)) \in 1 .. 7 /\ Height' = 2 + Len(HeaderStack(next))
    BY <1>2, HeaderTops DEF AtHeader
  <2> QED
    BY <2>1
<1>5. pos' \in DOMAIN tokens'
  <2>1. tokens' = tokens /\ pos \in DOMAIN tokens
    BY DEF OuterKept, Typed
  <2> QED
    BY <2>1, NextFacts
<1>6. Typed'
  BY <1>2, <1>5, TypedKept
<1> QED
  BY <1>2, <1>3, <1>4, <1>6 DEF HeaderGoesOn

LEMMA HeaderExpand ==
  ASSUME Typed, NEW s \in Nat, ReadingHeader(s), Height > 2, Expand
  PROVE  HeaderGoesOn(s)
<1>1. PICK top \in HeaderGoals : AtHeader(top) /\ Progress(s, top) /\ Top.do = top
  BY HeaderAt2
<1>2. PICK r \in Rules : r.goal = top /\ Then(r.todo)
  BY <1>1 DEF Expand
<1>3. OuterKept /\ UNCHANGED <<tokens, header>> /\ pos' = pos
  BY DEF Expand, OuterKept
<1>4. header \in HeaderRecords /\ Len(header.params) \in Nat
  BY HeaderFields DEF Typed
<1>5. header' \in HeaderRecords /\ header'.calls \in {<<>>, header.calls}
  BY <1>3, <1>4
<1>6. ASSUME NEW next, Follows(top, r.todo, next), Progress(s, next)'
      PROVE  HeaderGoesOn(s)
  BY <1>1, <1>2, <1>3, <1>5, <1>6, HeaderGoesOnTo
<1>7. CASE r.goal = "Header" /\ r.todo = OpeningGoals
  BY <1>1, <1>2, <1>3, <1>4, <1>6, <1>7, HeaderPlans, PlansProgress
<1>8. CASE r.goal = "Params" /\ r.todo \in {<<>>, <<"Param", "MoreParams">>}
  BY <1>1, <1>2, <1>3, <1>4, <1>6, <1>8, HeaderPlans, HeaderPops, PlansProgress
<1>9. CASE r.goal = "MoreParams" /\ r.todo \in {<<>>, <<"Comma", "Param", "MoreParams">>}
  BY <1>1, <1>2, <1>3, <1>4, <1>6, <1>9, HeaderPlans, HeaderPops, PlansProgress
<1>10. CASE r.goal = "Param" /\ r.todo = <<"ParamName", ":", "ParamType">>
  BY <1>1, <1>2, <1>3, <1>4, <1>6, <1>10, HeaderPlans, PlansProgress
<1>11. ~Plain(r) /\ r.goal # "Body" /\ r.goal # "Statements"
  BY <1>2 DEF Plain, Inner, HeaderGoals
<1> QED
  BY <1>7, <1>8, <1>9, <1>10, <1>11, RuleShapes

LEMMA HeaderMatch ==
  ASSUME Typed, NEW s \in Nat, ReadingHeader(s), Height > 2, Match
  PROVE  HeaderGoesOn(s)
<1>1. PICK top \in HeaderGoals : AtHeader(top) /\ Progress(s, top) /\ Top.do = top
  BY HeaderAt2
<1>2. OuterKept /\ UNCHANGED <<tokens, header>> /\ pos' = Advanced /\ Then(<<>>) /\ Next1 = top
  BY <1>1 DEF Match, OuterKept
<1>3. top # "ident" /\ top # "Eof"
  BY DEF HeaderGoals
<1>4. tokens[pos] = top /\ tokens[pos] \in Tokens /\ pos' = pos + 1
  BY <1>2, <1>3, NextIsToken, NextFacts
<1>5. top \in {"fn", "(", ":", "Comma", ")", "->"}
  BY <1>4 DEF HeaderGoals, Tokens, TypeTokens, Operators
<1>6. header \in HeaderRecords /\ Len(header.params) \in Nat
  BY HeaderFields DEF Typed
<1>7. header' \in HeaderRecords /\ header'.calls \in {<<>>, header.calls}
  BY <1>2, <1>6
<1>8. tokens[pos] = "fn" => pos = s
  BY <1>1, <1>4 DEF Progress
<1>9. tokens[pos] \notin {"LBrace", "RBrace"} /\ Next1 # "Eof"
  BY <1>2, <1>3, <1>4, <1>5
<1>10. ASSUME NEW next, Follows(top, <<>>, next), Progress(s, next)'
       PROVE  HeaderGoesOn(s)
  BY <1>1, <1>2, <1>7, <1>8, <1>9, <1>10, HeaderGoesOnTo
<1>11. /\ Progress(s, "fn") => Progress(s, "Name")'
       /\ Progress(s, "(") => Progress(s, "Params")'
       /\ Progress(s, ":") => Progress(s, "ParamType")'
       /\ Progress(s, "Comma") /\ tokens[pos] = "Comma" => Progress(s, "Param")'
       /\ Progress(s, ")") /\ tokens[pos] = ")" => Progress(s, "->")'
       /\ Progress(s, "->") => Progress(s, "RetType")'
  BY <1>2, <1>4, <1>6, MatchProgress
<1> QED
  BY <1>1, <1>4, <1>5, <1>10, <1>11, HeaderPops

LEMMA HeaderTakesName ==
  ASSUME Typed, NEW s \in Nat, ReadingHeader(s), Height > 2, TakeName
  PROVE  HeaderGoesOn(s)
<1>1. PICK top \in HeaderGoals : AtHeader(top) /\ Progress(s, top) /\ Top.do = top
  BY HeaderAt2
<1>2. /\ OuterKept /\ tokens' = tokens /\ pos' = Advanced /\ Then(<<>>) /\ Next1 = "ident"
      /\ top = "Name" /\ header' = NewHeader(tokens[pos])
  BY <1>1 DEF TakeName, AtGoal, OuterKept
<1>3. tokens[pos] \in Names /\ pos' = pos + 1
  BY <1>2, NextFacts
<1>4. header' \in HeaderRecords /\ Progress(s, "(")'
  BY <1>1, <1>2, <1>3, NamedProgress
<1>5. header'.calls = <<>>
  BY <1>2 DEF NewHeader
<1>6. tokens[pos] \notin {"LBrace", "RBrace", "fn"}
  BY <1>3, SourcesAssumption DEF Tokens
<1>7. Follows(top, <<>>, "(")
  BY <1>2, HeaderPops
<1> QED
  BY <1>1, <1>2, <1>4, <1>5, <1>6, <1>7, HeaderGoesOnTo

LEMMA HeaderTakesParamName ==
  ASSUME Typed, NEW s \in Nat, ReadingHeader(s), Height > 2, TakeParamName
  PROVE  HeaderGoesOn(s)
<1>1. PICK top \in HeaderGoals : AtHeader(top) /\ Progress(s, top) /\ Top.do = top
  BY HeaderAt2
<1>2. /\ OuterKept /\ tokens' = tokens /\ pos' = Advanced /\ Then(<<>>) /\ Next1 = "ident"
      /\ top = "ParamName"
      /\ header' = [header EXCEPT !.params = Append(@, [name |-> tokens[pos], ty |-> NoType])]
  BY <1>1 DEF TakeParamName, AtGoal, OuterKept
<1>3. tokens[pos] \in Names /\ pos' = pos + 1 /\ header \in HeaderRecords
  BY <1>2, NextFacts DEF Typed
<1>4. header' \in HeaderRecords /\ Progress(s, ":")'
  BY <1>1, <1>2, <1>3, ParamNamedProgress
<1>5. header'.calls = header.calls
  BY <1>2, <1>3, HeaderChanged
<1>6. tokens[pos] \notin {"LBrace", "RBrace", "fn"}
  BY <1>3, SourcesAssumption DEF Tokens
<1>7. Follows(top, <<>>, ":")
  BY <1>2, HeaderPops
<1> QED
  BY <1>1, <1>2, <1>4, <1>5, <1>6, <1>7, HeaderGoesOnTo

LEMMA NextIsType ==
  ASSUME Typed, Next1 \in TypeTokens
  PROVE  /\ tokens[pos] \in Types /\ Advanced = pos + 1
         /\ tokens[pos] \notin {"LBrace", "RBrace", "fn"} /\ Next1 # "Eof"
<1>1. Next1 # "ident" /\ Next1 # "Eof"
  BY DEF TypeTokens
<1>2. tokens[pos] = Next1 /\ Advanced = pos + 1
  BY <1>1, NextFacts
<1> QED
  BY <1>1, <1>2 DEF TypeTokens, Types

LEMMA HeaderTakesParamType ==
  ASSUME Typed, NEW s \in Nat, ReadingHeader(s), Height > 2, TakeParamType
  PROVE  HeaderGoesOn(s)
<1>1. PICK top \in HeaderGoals : AtHeader(top) /\ Progress(s, top) /\ Top.do = top
  BY HeaderAt2
<1>2. /\ OuterKept /\ tokens' = tokens /\ pos' = Advanced /\ Then(<<>>) /\ Next1 \in TypeTokens
      /\ top = "ParamType"
      /\ header' = [header EXCEPT !.params[LastParam].ty = tokens[pos]]
  BY <1>1 DEF TakeParamType, AtGoal, OuterKept
<1>3. /\ tokens[pos] \in Types /\ pos' = pos + 1 /\ Next1 # "Eof"
      /\ tokens[pos] \notin {"LBrace", "RBrace", "fn"} /\ header \in HeaderRecords
  BY <1>2, NextIsType DEF Typed
<1> PICK qs : qs = LastTyped(header.params, tokens[pos])
  OBVIOUS
<1>4. header' = [name |-> header.name, params |-> qs, ret |-> header.ret,
                 calls |-> header.calls]
  BY <1>2, <1>3, LastParamTyped DEF LastParam
<1>5. header.params \in Seq(ParamTypes) /\ Len(header.params) > 0
  BY <1>1, <1>2, <1>3, HeaderFields DEF Progress
<1>6. /\ qs \in Seq(ParamTypes) /\ Len(qs) = Len(header.params)
      /\ qs[Len(qs)].name = header.params[Len(qs)].name
      /\ qs[Len(qs)].ty = tokens[pos]
      /\ \A k \in 1 .. Len(qs) - 1 : qs[k] = header.params[k]
  BY <1>3, <1>5, ParamsChanged
<1>7. header' \in HeaderRecords /\ Progress(s, "MoreParams")'
  BY <1>1, <1>2, <1>3, <1>4, <1>6, ParamTypedProgress
<1>8. header'.calls = header.calls
  BY <1>4
<1>9. Follows(top, <<>>, "MoreParams")
  BY <1>2, HeaderPops
<1> QED
  BY <1>1, <1>2, <1>3, <1>7, <1>8, <1>9, HeaderGoesOnTo

LEMMA HeaderTakesRetType ==
  ASSUME Typed, NEW s \in Nat, ReadingHeader(s), Height > 2, TakeRetType
  PROVE  HeaderGoesOn(s)
<1>1. PICK top \in HeaderGoals : AtHeader(top) /\ Progress(s, top) /\ Top.do = top
  BY HeaderAt2
<1>2. /\ OuterKept /\ tokens' = tokens /\ pos' = Advanced /\ Then(<<>>) /\ Next1 \in TypeTokens
      /\ top = "RetType" /\ header' = [header EXCEPT !.ret = tokens[pos]]
  BY <1>1 DEF TakeRetType, AtGoal, OuterKept
<1>3. /\ tokens[pos] \in Types /\ pos' = pos + 1 /\ Next1 # "Eof"
      /\ tokens[pos] \notin {"LBrace", "RBrace", "fn"} /\ header \in HeaderRecords
  BY <1>2, NextIsType DEF Typed
<1>4. header' \in HeaderRecords /\ HeaderAt(s, header)' /\ header'.calls = <<>>
  BY <1>1, <1>2, <1>3, ReturnTypedProgress
<1>5. IsRow(goals) /\ Height = 3
  <2>1. Len(HeaderStack("RetType")) = 1
    BY DEF HeaderStack
  <2>2. Height = 2 + Len(HeaderStack("RetType"))
    BY <1>1, <1>2 DEF AtHeader
  <2>3. Height = 2 + 1
    BY <2>1, <2>2, Zenon
  <2> QED
    BY <2>3 DEF Typed
<1>6. IsRow(goals)' /\ Height' = 2 /\ GoalAt(1)' = GoalAt(1) /\ GoalAt(2)' = GoalAt(2)
  BY <1>2, <1>5, Done
<1>7. pos' > s
  <2>1. Progress(s, "RetType") /\ Len(header.params) \in Nat
    BY <1>1, <1>2, <1>3, HeaderFields
  <2>2. pos = Closing(s, Len(header.params)) + 2
    BY <2>1 DEF Progress
  <2> QED
    BY <1>3, <2>1, <2>2 DEF Closing
<1>8. ReadingHeader(s)'
  BY <1>4, <1>6, <1>7 DEF ReadingHeader
<1>9. pos' \in DOMAIN tokens'
  BY <1>2, <1>3, NextFacts
<1>10. Typed'
  BY <1>2, <1>4, <1>6, <1>9, TypedKept
<1> QED
  BY <1>2, <1>3, <1>4, <1>6, <1>8, <1>10 DEF HeaderGoesOn

-----------------------------------------------------------------------------
(* What an outer state that is kept keeps.                                 *)

LEMMA SpansKept ==
  ASSUME UNCHANGED <<tokens, spans, sigs>>
  PROVE  /\ \A i : (Started(i)' <=> Started(i)) /\ StartOf(i)' = StartOf(i)
         /\ \A i : NameOf(i)' = NameOf(i) /\ (Signed(i)' <=> Signed(i))
         /\ \A m : (EndedUpTo(m)' <=> EndedUpTo(m)) /\ (SignedUpTo(m)' <=> SignedUpTo(m))
         /\ \A p : FnsFound(p)' <=> FnsFound(p)
         /\ \A c : CallAgrees(c)' <=> CallAgrees(c)
<1>1. \A k : OpenBraces(k)' = OpenBraces(k) /\ Closes(k)' = Closes(k)
  BY SameBraces
<1>2. \A i : StartOf(i)' = StartOf(i) /\ NameOf(i)' = NameOf(i)
  BY DEF StartOf, NameOf
<1>3. \A i : Started(i)' <=> Started(i)
  BY <1>1, <1>2 DEF Started
<1>4. \A s, h : HeaderAt(s, h)' <=> HeaderAt(s, h)
  BY DEF HeaderAt, NamedAt, ParamsAt, CommasAt
<1>5. \A i : Signed(i)' <=> Signed(i)
  BY <1>2, <1>4 DEF Signed
<1>6. \A i : Ended(i)' <=> Ended(i)
  BY <1>1 DEF Ended, Unclosed
<1>7. \A m : (EndedUpTo(m)' <=> EndedUpTo(m)) /\ (SignedUpTo(m)' <=> SignedUpTo(m))
  BY <1>2, <1>5, <1>6 DEF EndedUpTo, SignedUpTo
<1>8. \A p : FnsFound(p)' <=> FnsFound(p)
  BY <1>1 DEF FnsFound
<1>9. \A c : CallAgrees(c)' <=> CallAgrees(c)
  BY DEF CallAgrees
<1> QED
  BY <1>2, <1>3, <1>5, <1>7, <1>8, <1>9

LEMMA ScannedKept ==
  ASSUME UNCHANGED <<tokens, spans, sigs>>, Scanned
  PROVE  Scanned'
<1> PICK n, p : n = Len(spans) /\ p = StartOf(n + 1)
  OBVIOUS
<1>1. ScannedTo(n, p)
  BY DEF Scanned
<1>2. ScannedTo(n, p)'
  BY <1>1, SpansKept DEF ScannedTo
<1>3. n = Len(spans') /\ p = StartOf(n + 1)'
  BY SpansKept
<1> QED
  BY <1>2, <1>3 DEF Scanned

\* What is left to show of a next state, by the outermost goal.
LEMMA StillScanning ==
  ASSUME Typed', Parsing', Height' > 0, GoalAt(1)'.do = "Module", ScanInv'
  PROVE  MInv'
BY DEF MInv, Scanning, Opening, Parsing, Accepted, UndefinedMeansNowhere

LEMMA StillOpening ==
  ASSUME Typed', Parsing', Height' > 0, GoalAt(1)'.do = "Finish", OpenInv'
  PROVE  MInv'
BY DEF MInv, Scanning, Opening, Parsing, Accepted, UndefinedMeansNowhere

-----------------------------------------------------------------------------
(* Steps within a header.                                                  *)

\* A token that is no brace leaves nothing open and ends no body.
LEMMA HeaderBraces ==
  ASSUME Typed, NEW s \in Nat, HeaderGoesOn(s), OpenBraces(pos) = 0, Unclosed(s, pos)
  PROVE  OpenBraces(pos)' = 0 /\ Unclosed(s, pos)'
<1>1. tokens' = tokens
  BY DEF HeaderGoesOn, OuterKept
<1>2. \A k : OpenBraces(k)' = OpenBraces(k) /\ Closes(k)' = Closes(k)
  BY <1>1, SameBraces
<1>3. pos \in Nat
  BY TokenFacts
<1>4. CASE pos' = pos
  <2>1. OpenBraces(pos)' = OpenBraces(pos)
    BY <1>1, <1>4 DEF OpenBraces, Before
  <2>2. Unclosed(s, pos)'
    BY <1>2, <1>4 DEF Unclosed
  <2> QED
    BY <2>1, <2>2
<1>5. CASE /\ Next1 # "Eof" /\ pos' = Advanced
           /\ tokens[pos] \notin {"LBrace", "RBrace"}
  <2>1. /\ pos' = pos + 1
        /\ OpenBraces(pos)' = OpenBraces(pos) + (IF tokens[pos] = "LBrace" THEN 1
                                                 ELSE IF tokens[pos] = "RBrace" THEN -1 ELSE 0)
        /\ Closes(pos)' <=> tokens[pos] = "RBrace" /\ OpenBraces(pos)' = 0
    BY <1>1, <1>5, ReadOn
  <2>2. OpenBraces(pos)' = 0 /\ ~Closes(pos)'
    BY <1>5, <2>1
  <2>3. ASSUME NEW q \in s + 1 .. pos' PROVE ~Closes(q)'
    <3>1. CASE q = pos'
      <4>1. Closes(q)' <=> Closes(pos)'
        BY <3>1 DEF Closes, OpenBraces, Before
      <4> QED
        BY <2>2, <4>1
    <3>2. CASE q # pos'
      <4>1. q \in s + 1 .. pos
        BY <1>3, <2>1, <3>2
      <4> QED
        BY <1>2, <4>1 DEF Unclosed
    <3> QED
      BY <3>1, <3>2
  <2> QED
    BY <2>2, <2>3 DEF Unclosed
<1> QED
  BY <1>4, <1>5 DEF HeaderGoesOn

LEMMA ScanHeaderKeeps ==
  ASSUME Typed, Scanning, ScanInv, NEW n, NEW s, n = Len(spans), s = spans[n].start,
         ScanningHeader(n, s), HeaderGoesOn(s)
  PROVE  MInv'
<1>1. /\ OuterKept /\ Typed' /\ ReadingHeader(s)' /\ Height' > 1
      /\ GoalAt(1)' = GoalAt(1) /\ GoalAt(2)' = GoalAt(2) /\ header'.calls = <<>>
  BY DEF HeaderGoesOn, ScanInv
<1>2. UNCHANGED <<tokens, sigs, spans, functions, status>>
  BY <1>1 DEF OuterKept
<1>3. n \in DOMAIN spans /\ s \in Nat
  <2>1. spans \in Seq(SpanRecords) /\ n > 0
    BY DEF Typed, ScanningHeader
  <2>2. n \in 1 .. n /\ n \in DOMAIN spans
    BY <2>1
  <2>3. spans[n] \in SpanRecords
    BY <2>1, <2>2
  <2> QED
    BY <2>2, <2>3 DEF SpanRecords
<1>4. OpenBraces(pos)' = 0 /\ Unclosed(s, pos)'
  BY <1>3, HeaderBraces DEF ScanningHeader
<1>5. ScanningHeader(n, s)'
  BY <1>1, <1>2, <1>4, SpansKept DEF ScanningHeader
<1>6. FnsFound(pos)'
  <2>1. FnsFound(pos) /\ pos \in Nat
    BY TokenFacts DEF ScanInv
  <2>2. \A k : OpenBraces(k)' = OpenBraces(k)
    BY <1>2, SameBraces
  <2>3. CASE pos' = pos
    BY <1>2, <2>1, <2>2, <2>3 DEF FnsFound
  <2>4. CASE pos' = pos + 1 /\ (tokens[pos] = "fn" => pos = s)
    <3> SUFFICES ASSUME NEW k \in 1 .. pos' - 1, tokens'[k] = "fn", OpenBraces(k)' = 0
                 PROVE  \E i \in DOMAIN spans' : spans'[i].start = k
      BY DEF FnsFound
    <3>1. CASE k = pos
      BY <1>2, <1>3, <2>4, <3>1
    <3>2. CASE k # pos
      <4>1. k \in 1 .. pos - 1
        BY <2>1, <2>4, <3>2
      <4> QED
        BY <1>2, <2>1, <2>2, <4>1 DEF FnsFound
    <3> QED
      BY <3>1, <3>2
  <2> QED
    BY <2>3, <2>4, NextFacts DEF HeaderGoesOn
<1>7. ScanInv'
  <2>1. \A i \in DOMAIN spans' : Started(i)'
    BY <1>2, SpansKept DEF ScanInv
  <2>2. n = Len(spans') /\ s = spans'[n].start
    BY <1>2
  <2>3. functions' = <<>>
    BY <1>2 DEF ScanInv
  <2> QED
    BY <1>1, <1>5, <1>6, <2>1, <2>2, <2>3 DEF ScanInv
<1>8. Parsing' /\ Height' > 0 /\ GoalAt(1)'.do = "Module"
  <2>1. Parsing'
    BY <1>2 DEF Scanning, Parsing
  <2>2. Height' > 0
    BY <1>1 DEF Height
  <2> QED
    BY <1>1, <2>1, <2>2 DEF Scanning
<1> QED
  BY <1>1, <1>7, <1>8, StillScanning

LEMMA OpenHeaderKeeps ==
  ASSUME Typed, Opening, OpenInv, NEW i, NEW s, i = Len(functions) + 1, s = spans[i].start,
         ParsingHeader(s), HeaderGoesOn(s)
  PROVE  MInv'
<1>1. /\ OuterKept /\ Typed' /\ ReadingHeader(s)' /\ Height' > 1
      /\ GoalAt(1)' = GoalAt(1) /\ GoalAt(2)' = GoalAt(2)
      /\ header'.calls \in {<<>>, header.calls}
  BY DEF HeaderGoesOn
<1>2. UNCHANGED <<tokens, sigs, spans, functions, status>>
  BY <1>1 DEF OuterKept
<1>3. i \in DOMAIN spans /\ s \in Nat
  <2>1. spans \in Seq(SpanRecords) /\ i \in DOMAIN spans
    BY DEF Typed, OpenInv
  <2>2. spans[i] \in SpanRecords
    BY <2>1
  <2> QED
    BY <2>1, <2>2 DEF SpanRecords
<1>4. OpenBraces(pos)' = 0 /\ Unclosed(s, pos)'
  BY <1>3, HeaderBraces DEF ParsingHeader
<1>5. ParsingHeader(s)'
  BY <1>1, <1>4 DEF ParsingHeader
<1>6. CallsAgree(header.calls)'
  BY <1>1, <1>2, SpansKept DEF CallsAgree, OpenInv
<1>7. \A j \in DOMAIN functions' : Parsed(j)'
  BY <1>2, SpansKept DEF Parsed, OpenInv, CallsAgree
<1>8. OpenInv'
  <2>1. i = Len(functions') + 1 /\ s = spans'[i].start /\ i \in DOMAIN spans'
    BY <1>2, <1>3
  <2>2. GoalAt(1)' = Goal("Finish", i)
    BY <1>1 DEF OpenInv
  <2>3. Scanned'
    BY <1>2, ScannedKept DEF OpenInv
  <2> QED
    BY <1>5, <1>6, <1>7, <2>1, <2>2, <2>3 DEF OpenInv
<1>9. Parsing' /\ Height' > 0 /\ GoalAt(1)'.do = "Finish"
  <2>1. Parsing'
    BY <1>2 DEF Opening, Parsing
  <2>2. Height' > 0
    BY <1>1 DEF Height
  <2> QED
    BY <1>1, <2>1, <2>2 DEF Opening
<1> QED
  BY <1>1, <1>8, <1>9, StillOpening

-----------------------------------------------------------------------------
(* Refusals, and where the parser can be by its innermost goal.            *)

LEMMA Refused ==
  ASSUME MInv, NEW e \in Errors \ {"UndefinedFunction"}, Refuse(e)
  PROVE  MInv'
<1>1. /\ UNCHANGED <<tokens, pos, goals, types, header, sigs, spans, functions>>
      /\ status' = e /\ e \notin {"parsing", "accepted", "UndefinedFunction"}
  BY DEF Refuse, Errors
<1>2. Typed'
  BY <1>1 DEF MInv, Typed, IsRow
<1> QED
  BY <1>1, <1>2 DEF MInv, Scanning, Opening, Parsing, Accepted, UndefinedMeansNowhere

\* The innermost goal while scanning n spans, the last from s on ...
ScanTop(n, s) ==
  \/ BetweenHeaders(n) /\ Top.do = "Module"
  \/ ScanningHeader(n, s) /\ Height = 2 /\ Top.do = "Signature"
  \/ ScanningHeader(n, s) /\ Height > 2 /\ Top.do \in HeaderGoals
  \/ SkippingBody(n, s) /\ Height = 3 /\ Top.do = "LBrace"
  \/ SkippingBody(n, s) /\ Height = 2 /\ Top.do = "Skip" /\ Top = GoalAt(2)
\* ... and while parsing the function i from s on.
OpenTop(i, s) ==
  \/ ParsingHeader(s) /\ Height = 2 /\ Top.do = "Body"
  \/ ParsingHeader(s) /\ Height > 2 /\ Top.do \in HeaderGoals
  \/ ParsingBody(s) /\ Top = GoalAt(Height) /\ Top.do \notin Foreign
  \/ ParsedBody(s) /\ Top = Goal("Finish", i)

LEMMA ScanTops ==
  ASSUME MInv, Scanning, NEW n, NEW s, n = Len(spans), s = spans[n].start
  PROVE  Typed /\ ScanInv /\ ScanTop(n, s)
<1>1. Typed /\ ScanInv /\ IsRow(goals) /\ Height > 0 /\ GoalAt(1).do = "Module"
  BY DEF MInv, Scanning, Typed
<1>2. Top = GoalAt(Height) /\ Height \in Nat
  BY <1>1, TopGoal
<1>3. ASSUME BetweenHeaders(n) PROVE ScanTop(n, s)
  BY <1>1, <1>2, <1>3 DEF BetweenHeaders, ScanTop
<1>4. ASSUME ScanningHeader(n, s) PROVE ScanTop(n, s)
  <2>1. Height > 1 /\ GoalAt(2).do = "Signature"
    BY <1>4 DEF ScanningHeader, Goal
  <2>2. Height > 2 => Top.do \in HeaderGoals
    BY <1>1, <1>4, HeaderAt2 DEF ScanningHeader
  <2>3. Height = 2 \/ Height > 2
    BY <1>2, <2>1
  <2>4. Height = 2 => Top.do = "Signature"
    BY <1>2, <2>1, Zenon
  <2> QED
    BY <1>4, <2>2, <2>3, <2>4 DEF ScanTop
<1>5. ASSUME SkippingBody(n, s) PROVE ScanTop(n, s)
  BY <1>2, <1>5 DEF SkippingBody, ScanTop, Goal
<1>6. BetweenHeaders(n) \/ ScanningHeader(n, s) \/ SkippingBody(n, s)
  BY <1>1 DEF ScanInv
<1> QED
  BY <1>1, <1>3, <1>4, <1>5, <1>6

LEMMA OpenTops ==
  ASSUME MInv, Opening, NEW i, NEW s, i = Len(functions) + 1, s = spans[i].start
  PROVE  /\ Typed /\ OpenInv
         /\ i \in DOMAIN spans /\ GoalAt(1) = Goal("Finish", i)
         /\ s \in Nat \ {0} /\ OpenTop(i, s)
<1>1. Typed /\ OpenInv /\ IsRow(goals) /\ Height > 0
  BY DEF MInv, Opening, Typed
<1>2. Top = GoalAt(Height) /\ Height \in Nat
  BY <1>1, TopGoal
<1>3. i \in DOMAIN spans /\ GoalAt(1) = Goal("Finish", i)
  BY <1>1 DEF OpenInv
<1>4. s \in Nat \ {0}
  <2>1. s \in DOMAIN tokens
    BY <1>1, <1>3 DEF OpenInv, Scanned, ScannedTo, Started
  <2> QED
    BY <1>1, <2>1, TokenFacts
<1>5. ASSUME ParsingHeader(s) PROVE OpenTop(i, s)
  <2>1. Height > 1 /\ GoalAt(2).do = "Body"
    BY <1>5 DEF ParsingHeader, Goal
  <2>2. Height > 2 => Top.do \in HeaderGoals
    BY <1>1, <1>5, HeaderAt2 DEF ParsingHeader
  <2>3. Height = 2 \/ Height > 2
    BY <1>2, <2>1
  <2>4. Height = 2 => Top.do = "Body"
    BY <1>2, <2>1, Zenon
  <2> QED
    BY <1>5, <2>2, <2>3, <2>4 DEF OpenTop
<1>6. ASSUME ParsingBody(s) PROVE OpenTop(i, s)
  <2>1. Height \in 2 .. Height
    BY <1>2, <1>6 DEF ParsingBody
  <2>2. Top.do \notin Foreign
    BY <1>2, <1>6, <2>1 DEF ParsingBody
  <2> QED
    BY <1>2, <1>6, <2>2 DEF OpenTop
<1>7. ASSUME ParsedBody(s) PROVE OpenTop(i, s)
  <2>1. Top = GoalAt(1)
    BY <1>2, <1>7, Zenon DEF ParsedBody
  <2> QED
    BY <1>3, <1>7, <2>1 DEF OpenTop
<1>8. ParsingHeader(s) \/ ParsingBody(s) \/ ParsedBody(s)
  BY <1>1 DEF OpenInv
<1> QED
  BY <1>1, <1>3, <1>4, <1>5, <1>6, <1>7, <1>8

LEMMA SpanFacts ==
  ASSUME Typed
  PROVE  /\ Len(spans) \in Nat /\ \A i : i \in DOMAIN spans <=> i \in 1 .. Len(spans)
         /\ \A i \in DOMAIN spans : /\ spans[i] \in SpanRecords
                                    /\ spans[i].start \in Nat /\ spans[i].end \in Nat
<1>1. spans \in Seq(SpanRecords)
  BY DEF Typed
<1>2. Len(spans) \in Nat /\ \A i : i \in DOMAIN spans <=> i \in 1 .. Len(spans)
  BY <1>1
<1>3. \A i \in DOMAIN spans : spans[i] \in SpanRecords
  BY <1>1
<1> QED
  BY <1>2, <1>3 DEF SpanRecords

-----------------------------------------------------------------------------
(* Calls of functions that are nowhere.                                    *)

LEMMA Declared ==
  ASSUME Typed, Scanned, NEW k \in 2 .. Len(tokens), tokens[k - 1] = "fn", OpenBraces(k - 1) = 0
  PROVE  tokens[k] \in DOMAIN sigs
<1> PICK n, end : n = Len(spans) /\ end = StartOf(n + 1)
  OBVIOUS
<1>1. ScannedTo(n, end) /\ n \in Nat /\ \A i : i \in DOMAIN spans <=> i \in 1 .. n
  BY SpanFacts DEF Scanned
<1>2. end = Len(tokens) /\ Len(tokens) \in Nat
  BY <1>1, TokenFacts DEF ScannedTo
<1>3. k - 1 \in 1 .. end - 1 /\ (k - 1) + 1 = k
  BY <1>2
<1>4. PICK i \in DOMAIN spans : spans[i].start = k - 1
  BY <1>1, <1>3 DEF ScannedTo, FnsFound
<1>5. tokens[k] = NameOf(i) /\ i \in 1 .. n
  BY <1>1, <1>3, <1>4 DEF NameOf
<1> QED
  BY <1>1, <1>5 DEF ScannedTo, SignedUpTo

\* Calls are met only in bodies, when the first pass is over.
LEMMA CallIsOpening ==
  ASSUME MInv, AtCall
  PROVE  Opening
<1>1. Parsing /\ Top.do = "Call"
  BY DEF AtCall, AtGoal
<1>2. ASSUME Scanning PROVE FALSE
  <2> PICK n, s : n = Len(spans) /\ s = spans[n].start
    OBVIOUS
  <2>1. ScanTop(n, s)
    BY <1>2, ScanTops
  <2> QED
    BY <1>1, <2>1 DEF ScanTop, HeaderGoals
<1> QED
  BY <1>1, <1>2 DEF MInv

LEMMA UndefinedRefused ==
  ASSUME MInv, UndefinedFunction
  PROVE  MInv'
<1>1. AtCall /\ Callee \notin DOMAIN sigs
  BY DEF UndefinedFunction, Known
<1>2. /\ UNCHANGED <<tokens, pos, goals, types, header, sigs, spans, functions>>
      /\ status' = "UndefinedFunction"
  BY DEF UndefinedFunction, Refuse
<1>3. Typed /\ Scanned
  BY <1>1, CallIsOpening DEF MInv, OpenInv
<1>4. Typed'
  BY <1>2, <1>3 DEF Typed, IsRow, Errors
<1>5. UndefinedMeansNowhere'
  <2>1. Callee' = Callee
    BY <1>2 DEF Callee, Top
  <2>2. \A k : OpenBraces(k)' = OpenBraces(k)
    BY <1>2, SameBraces
  <2> QED
    BY <1>1, <1>2, <1>3, <2>1, <2>2, Declared DEF UndefinedMeansNowhere
<1> QED
  BY <1>2, <1>4, <1>5 DEF MInv, Scanning, Opening, Parsing, Accepted

-----------------------------------------------------------------------------
(* From one function to the next, in both passes.                          *)

LEMMA StartsAgree ==
  ASSUME UNCHANGED <<tokens, sigs>>, NEW m \in Nat,
         \A i \in 1 .. m : spans'[i].start = spans[i].start
  PROVE  SignedUpTo(m)' <=> SignedUpTo(m)
<1>1. \A s, h : HeaderAt(s, h)' <=> HeaderAt(s, h)
  BY DEF HeaderAt, NamedAt, ParamsAt, CommasAt
<1>2. \A i \in 1 .. m : NameOf(i)' = NameOf(i)
  BY DEF NameOf
<1>3. \A i \in 1 .. m : Signed(i)' <=> Signed(i)
  BY <1>1, <1>2 DEF Signed
<1>4. {NameOf(i)' : i \in 1 .. m} = {NameOf(i) : i \in 1 .. m}
  BY <1>2
<1> QED
  BY <1>2, <1>3, <1>4 DEF SignedUpTo

LEMMA EndsAgree ==
  ASSUME UNCHANGED tokens, NEW m \in Nat, \A i \in 1 .. m : spans'[i] = spans[i]
  PROVE  /\ EndedUpTo(m)' <=> EndedUpTo(m)
         /\ \A i \in 1 .. m + 1 : StartOf(i)' = StartOf(i)
         /\ \A i \in 1 .. m : Started(i)' <=> Started(i)
<1>1. \A k : OpenBraces(k)' = OpenBraces(k) /\ Closes(k)' = Closes(k)
  BY SameBraces
<1>2. \A i \in 1 .. m : Ended(i)' <=> Ended(i)
  BY <1>1 DEF Ended, Unclosed
<1>3. \A i \in 1 .. m + 1 : StartOf(i)' = StartOf(i)
  <2> SUFFICES ASSUME NEW i \in 1 .. m + 1 PROVE StartOf(i)' = StartOf(i)
    OBVIOUS
  <2>1. CASE i = 1
    BY <2>1 DEF StartOf
  <2>2. CASE i # 1
    <3>1. i - 1 \in 1 .. m
      BY <2>2
    <3> QED
      BY <2>2, <3>1 DEF StartOf
  <2> QED
    BY <2>1, <2>2
<1>4. \A i \in 1 .. m : Started(i)' <=> Started(i)
  BY <1>1, <1>3 DEF Started
<1> QED
  BY <1>2, <1>3, <1>4 DEF EndedUpTo

\* Two goals on top of the outermost one.
LEMMA TwoOnTop ==
  ASSUME NEW row, IsRow(row), Len(row) \in {1}, NEW a, NEW b, goals' = Plan(<<a, b>>) \o row
  PROVE  /\ IsRow(goals') /\ Height' = 3
         /\ GoalAt(1)' = row[1] /\ GoalAt(2)' = Goal(b, 0) /\ GoalAt(3)' = Goal(a, 0)
<1> PICK p : p = Plan(<<a, b>>)
  OBVIOUS
<1>1. IsRow(<<a, b>>) /\ Len(<<a, b>>) = 2 /\ <<a, b>>[1] = a /\ <<a, b>>[2] = b
  BY DEF IsRow
<1>2. IsRow(p) /\ Len(p) = 2 /\ p[1] = Goal(a, 0) /\ p[2] = Goal(b, 0)
  <2>1. /\ IsRow(p) /\ Len(p) = Len(<<a, b>>)
        /\ \A k \in 1 .. Len(<<a, b>>) : p[k] = Goal(<<a, b>>[k], 0)
    BY <1>1, PlanIsRow
  <2>2. 1 \in 1 .. 2 /\ 2 \in 1 .. 2
    OBVIOUS
  <2> QED
    BY <1>1, <2>1, <2>2, Zenon
<1>3. /\ IsRow(p \o row) /\ Len(p \o row) = Len(p) + Len(row)
      /\ \A k \in 1 .. Len(p) : (p \o row)[k] = p[k]
      /\ \A k \in 1 .. Len(row) : (p \o row)[Len(p) + k] = row[k]
  <2>1. IsRow(p) /\ IsRow(row)
    BY <1>2
  <2>2. /\ IsRow(p \o row) /\ Len(p \o row) = Len(p) + Len(row)
        /\ \A k \in 1 .. Len(p) : (p \o row)[k] = p[k]
        /\ \A k \in 1 .. Len(row) : (p \o row)[Len(p) + k] = row[k]
    BY <2>1, Joined
  <2> QED
    BY <2>2
<1>4. /\ IsRow(goals') /\ Len(goals') = Len(p) + Len(row)
      /\ \A k \in 1 .. Len(p) : goals'[k] = p[k]
      /\ \A k \in 1 .. Len(row) : goals'[Len(p) + k] = row[k]
  BY <1>3, Zenon
<1>5. /\ 1 \in 1 .. 2 /\ 2 \in 1 .. 2 /\ 1 \in 1 .. 1 /\ 2 + 1 = 3
      /\ 3 + 1 - 1 = 3 /\ 3 + 1 - 2 = 2 /\ 3 + 1 - 3 = 1
  OBVIOUS
<1>6. Len(p) = 2 /\ Len(row) = 1
  BY <1>2, Zenon
<1>7. Len(goals') = 3
  BY <1>4, <1>5, <1>6, Zenon
<1>8. goals'[1] = p[1] /\ goals'[2] = p[2]
  BY <1>4, <1>5, <1>6, Zenon
<1>9. goals'[3] = row[1]
  <2>1. goals'[Len(p) + 1] = row[1]
    BY <1>4, <1>5, <1>6, Zenon
  <2>2. Len(p) + 1 = 3
    BY <1>5, <1>6, Zenon
  <2> QED
    BY <2>1, <2>2, Zenon
<1>10. GoalAt(1)' = row[1]
  <2>1. GoalAt(1)' = goals'[3 + 1 - 1]
    BY <1>7, Zenon DEF GoalAt
  <2> QED
    BY <1>5, <1>9, <2>1, Zenon
<1>11. GoalAt(2)' = Goal(b, 0)
  BY <1>2, <1>5, <1>7, <1>8, Zenon DEF GoalAt, Height
<1>12. GoalAt(3)' = Goal(a, 0)
  BY <1>2, <1>5, <1>7, <1>8, Zenon DEF GoalAt, Height
<1>13. IsRow(goals') /\ Height' = 3
  BY <1>4, <1>7, Zenon DEF Height
<1> HIDE DEF Height, GoalAt
<1> QED
  BY <1>10, <1>11, <1>12, <1>13

\* A header's first goal, at its start.
LEMMA HeaderBegins ==
  ASSUME Height' = 3, GoalAt(3)' = Goal("Header", 0), NEW s, pos' = s
  PROVE  ReadingHeader(s)'
<1>1. AtHeader("Header")'
  BY DEF AtHeader, HeaderStack
<1>2. Progress(s, "Header")' /\ "Header" \in HeaderGoals
  BY DEF Progress, HeaderGoals
<1> QED
  BY <1>1, <1>2 DEF ReadingHeader

LEMMA AtModule ==
  ASSUME MInv, AtGoal("Module"), NEW n, n = Len(spans)
  PROVE  Typed /\ Scanning /\ ScanInv /\ BetweenHeaders(n)
<1>1. Parsing /\ Top.do = "Module"
  BY DEF AtGoal
<1>2. ASSUME Opening PROVE FALSE
  <2> PICK i, s : i = Len(functions) + 1 /\ s = spans[i].start
    OBVIOUS
  <2>1. OpenTop(i, s)
    BY <1>2, OpenTops
  <2> QED
    BY <1>1, <2>1 DEF OpenTop, HeaderGoals, Foreign, Goal
<1>3. Scanning
  BY <1>1, <1>2 DEF MInv
<1> PICK s : s = spans[n].start
  OBVIOUS
<1>4. Typed /\ ScanInv /\ ScanTop(n, s)
  BY <1>3, ScanTops
<1> QED
  BY <1>1, <1>3, <1>4 DEF ScanTop, HeaderGoals

LEMMA NextHeaderKeeps ==
  ASSUME MInv, NextHeader
  PROVE  MInv'
<1> PICK n, p, s : n = Len(spans) /\ p = pos /\ s = [start |-> p, end |-> p]
  OBVIOUS
<1>1. Typed /\ Scanning /\ ScanInv /\ BetweenHeaders(n)
  BY AtModule DEF NextHeader
<1>2. /\ UNCHANGED <<tokens, pos, types, header, sigs, functions, status>>
      /\ spans' = Append(spans, s) /\ goals' = Plan(<<"Header", "Signature">>) \o goals
  BY DEF NextHeader
<1>3. p \in Nat /\ p \in DOMAIN tokens /\ p = StartOf(n + 1) /\ OpenBraces(p) = 0
  BY <1>1, TokenFacts DEF BetweenHeaders, Typed
<1>4. /\ spans' \in Seq(SpanRecords) /\ Len(spans') = n + 1 /\ spans'[n + 1] = s
      /\ n \in Nat /\ \A i \in 1 .. n : spans'[i] = spans[i]
      /\ \A i : i \in DOMAIN spans' <=> i \in 1 .. n + 1
  <2>1. spans \in Seq(SpanRecords) /\ s \in SpanRecords
    BY <1>1, <1>3 DEF Typed, SpanRecords
  <2> QED
    BY <1>2, <2>1
<1>5. s.start = p
  OBVIOUS
<1>6. /\ IsRow(goals') /\ Height' = 3 /\ GoalAt(1)' = GoalAt(1)
      /\ GoalAt(2)' = Goal("Signature", 0) /\ GoalAt(3)' = Goal("Header", 0)
  <2>1. IsRow(goals) /\ Len(goals) = 1 /\ 1 + 1 - 1 = 1
    BY <1>1 DEF Typed, BetweenHeaders, Height
  <2>2. goals[1] = GoalAt(1)
    BY <2>1, Zenon DEF GoalAt
  <2> QED
    BY <1>2, <2>1, <2>2, TwoOnTop
<1>7. Typed'
  BY <1>1, <1>2, <1>4, <1>6 DEF Typed, IsRow
<1>8. \A k : OpenBraces(k)' = OpenBraces(k)
  BY <1>2, SameBraces
<1>9. /\ EndedUpTo(n)' /\ SignedUpTo(n)'
      /\ \A i \in 1 .. n : Started(i)'
      /\ StartOf(n + 1)' = p
  <2>1. EndedUpTo(n) /\ SignedUpTo(n) /\ \A i \in 1 .. n : Started(i)
    BY <1>1, SpanFacts DEF BetweenHeaders, ScanInv
  <2>2. n + 1 \in 1 .. n + 1
    BY <1>4
  <2> QED
    BY <1>2, <1>3, <1>4, <2>1, <2>2, StartsAgree, EndsAgree
<1>10. \A i \in DOMAIN spans' : Started(i)'
  <2>1. Started(n + 1)'
    BY <1>2, <1>3, <1>4, <1>5, <1>8, <1>9 DEF Started
  <2> QED
    BY <1>4, <1>9, <2>1
<1>11. FnsFound(pos)'
  <2>1. FnsFound(pos)
    BY <1>1 DEF ScanInv
  <2>2. \A i \in DOMAIN spans : i \in DOMAIN spans' /\ spans'[i] = spans[i]
    BY <1>1, <1>4, SpanFacts
  <2> QED
    BY <1>2, <1>8, <2>1, <2>2 DEF FnsFound
<1> PICK m : m = n + 1
  OBVIOUS
<1>12. ScanningHeader(m, p)'
  <2>1. ReadingHeader(p)'
    BY <1>2, <1>6, HeaderBegins
  <2>2. OpenBraces(pos)' = 0
    BY <1>2, <1>3, <1>8 DEF OpenBraces, Before
  <2>3. Unclosed(p, pos)'
    BY <1>2, <1>3 DEF Unclosed
  <2>4. m > 0 /\ m - 1 = n
    BY <1>4
  <2>5. EndedUpTo(m - 1)' /\ SignedUpTo(m - 1)'
    BY <1>9, <2>4
  <2> QED
    BY <1>6, <2>1, <2>2, <2>3, <2>4, <2>5 DEF ScanningHeader
<1>13. ScanInv'
  <2>1. m = Len(spans') /\ p = spans'[m].start
    BY <1>4, <1>5
  <2>2. functions' = <<>> /\ header'.calls = <<>>
    BY <1>1, <1>2 DEF ScanInv
  <2> QED
    BY <1>10, <1>11, <1>12, <2>1, <2>2 DEF ScanInv
<1>14. Parsing' /\ Height' > 0 /\ GoalAt(1)'.do = "Module"
  BY <1>1, <1>2, <1>6 DEF Scanning, Parsing
<1> QED
  BY <1>7, <1>13, <1>14, StillScanning

-----------------------------------------------------------------------------
(* Steps of the first pass behind a header.                                *)

LEMMA Advances ==
  ASSUME Typed, UNCHANGED <<tokens, spans>>, Next1 # "Eof", pos' = Advanced
  PROVE  /\ \A s \in Nat : Unclosed(s, pos) =>
              /\ Unclosed(s, pos - 1)' /\ (~Closes(pos)' => Unclosed(s, pos)')
         /\ FnsFound(pos) /\ (tokens[pos] = "fn" => OpenBraces(pos) # 0) => FnsFound(pos)'
<1> PICK p, q : p = pos /\ q = pos'
  OBVIOUS
<1>1. q = p + 1 /\ p \in Nat \ {0}
  BY ReadOn
<1>2. \A k : OpenBraces(k)' = OpenBraces(k) /\ Closes(k)' = Closes(k)
  BY SameBraces
<1>3. ASSUME NEW s \in Nat, Unclosed(s, p)
      PROVE  Unclosed(s, q - 1)' /\ (~Closes(q)' => Unclosed(s, q)')
  <2>1. q - 1 = p /\ \A k \in s + 1 .. q : k = q \/ k \in s + 1 .. p
    BY <1>1
  <2> QED
    BY <1>2, <1>3, <2>1 DEF Unclosed
<1>4. ASSUME FnsFound(p), tokens[p] = "fn" => OpenBraces(p) # 0
      PROVE  FnsFound(q)'
  <2>1. \A k \in 1 .. q - 1 : k = p \/ k \in 1 .. p - 1
    BY <1>1
  <2> QED
    BY <1>2, <1>4, <2>1 DEF FnsFound
<1>5. \A s : /\ Unclosed(s, pos)' <=> Unclosed(s, q)'
             /\ Unclosed(s, pos - 1)' <=> Unclosed(s, q - 1)'
             /\ Unclosed(s, pos) <=> Unclosed(s, p)
  BY DEF Unclosed, Closes, OpenBraces, Before
<1>6. Closes(pos)' = Closes(q)'
  BY DEF Closes, OpenBraces, Before
<1>7. (FnsFound(pos)' <=> FnsFound(q)') /\ (FnsFound(pos) <=> FnsFound(p))
  BY DEF FnsFound, OpenBraces, Before
<1>8. \A s \in Nat : Unclosed(s, pos) =>
         /\ Unclosed(s, pos - 1)' /\ (~Closes(pos)' => Unclosed(s, pos)')
  BY <1>3, <1>5, <1>6
<1>9. FnsFound(pos) /\ (tokens[pos] = "fn" => OpenBraces(pos) # 0) => FnsFound(pos)'
  BY <1>4, <1>7
<1> QED
  BY <1>8, <1>9

\* Once its goals are gone a header is complete.
LEMMA HeaderDone ==
  ASSUME Height = 2, NEW s, ReadingHeader(s)
  PROVE  HeaderAt(s, header) /\ pos > s
<1>1. ASSUME NEW top \in HeaderGoals, AtHeader(top) PROVE FALSE
  <2> PICK k : k = Len(HeaderStack(top))
    OBVIOUS
  <2>1. Height = 2 + k /\ k \in 1 .. 7
    BY <1>1, HeaderTops DEF AtHeader
  <2>2. 2 = 2 + k
    BY <2>1, Zenon
  <2> QED
    BY <2>1, <2>2
<1> QED
  BY <1>1 DEF ReadingHeader

LEMMA AtSignature ==
  ASSUME MInv, AtGoal("Signature"), NEW n, NEW s, n = Len(spans), s = spans[n].start
  PROVE  /\ Typed /\ Scanning /\ ScanInv /\ ScanningHeader(n, s) /\ Height = 2
         /\ HeaderAt(s, header) /\ pos > s
<1>1. Parsing /\ Top.do = "Signature"
  BY DEF AtGoal
<1>2. ASSUME Opening PROVE FALSE
  <2> PICK i, r : i = Len(functions) + 1 /\ r = spans[i].start
    OBVIOUS
  <2>1. OpenTop(i, r)
    BY <1>2, OpenTops
  <2> QED
    BY <1>1, <2>1 DEF OpenTop, HeaderGoals, Foreign, Goal
<1>3. Scanning
  BY <1>1, <1>2 DEF MInv
<1>4. Typed /\ ScanInv /\ ScanTop(n, s)
  BY <1>3, ScanTops
<1>5. ScanningHeader(n, s) /\ Height = 2
  BY <1>1, <1>4 DEF ScanTop, HeaderGoals
<1>6. HeaderAt(s, header) /\ pos > s
  BY <1>5, HeaderDone DEF ScanningHeader
<1> QED
  BY <1>3, <1>4, <1>5, <1>6

LEMMA AtSkip ==
  ASSUME MInv, AtGoal("Skip"), NEW n, NEW s, n = Len(spans), s = spans[n].start
  PROVE  Typed /\ Scanning /\ ScanInv /\ SkippingBody(n, s) /\ Height = 2 /\ Top = GoalAt(2)
<1>1. Parsing /\ Top.do = "Skip"
  BY DEF AtGoal
<1>2. ASSUME Opening PROVE FALSE
  <2> PICK i, r : i = Len(functions) + 1 /\ r = spans[i].start
    OBVIOUS
  <2>1. OpenTop(i, r)
    BY <1>2, OpenTops
  <2> QED
    BY <1>1, <2>1 DEF OpenTop, HeaderGoals, Foreign, Goal
<1>3. Scanning
  BY <1>1, <1>2 DEF MInv
<1>4. Typed /\ ScanInv /\ ScanTop(n, s)
  BY <1>3, ScanTops
<1> QED
  BY <1>1, <1>3, <1>4 DEF ScanTop, HeaderGoals

\* The signature a header makes.
LEMMA SignatureTyped ==
  ASSUME NEW h \in HeaderRecords, NEW s, HeaderAt(s, h)
  PROVE  /\ Signature(h).params \in Seq(Types) /\ Signature(h).ret = h.ret /\ h.ret \in Types
         /\ h.name \in Names /\ h.name = tokens[s + 1]
<1>1. h.params \in Seq(ParamTypes)
  BY DEF HeaderRecords
<1>2. Len(h.params) \in Nat /\ DOMAIN h.params = 1 .. Len(h.params)
  BY <1>1
<1>3. \A k \in 1 .. Len(h.params) : h.params[k].ty \in Types
  BY DEF HeaderAt, ParamsAt
<1>4. [k \in DOMAIN h.params |-> h.params[k].ty] \in [1 .. Len(h.params) -> Types]
  BY <1>2, <1>3
<1>5. Signature(h).params \in Seq(Types)
  BY <1>2, <1>4 DEF Signature
<1> QED
  BY <1>5 DEF Signature, HeaderAt, NamedAt

LEMMA TakeSignatureKeeps ==
  ASSUME MInv, TakeSignature
  PROVE  MInv'
<1> PICK n, s, name, h, sg : /\ n = Len(spans) /\ s = spans[n].start /\ name = header.name
                             /\ h = header /\ sg = Signature(header)
  OBVIOUS
<1>1. /\ Typed /\ Scanning /\ ScanInv /\ ScanningHeader(n, s) /\ Height = 2
      /\ HeaderAt(s, header) /\ pos > s
  BY AtSignature DEF TakeSignature
<1>2. /\ UNCHANGED <<tokens, pos, types, header, spans, functions, status>>
      /\ name \notin DOMAIN sigs /\ SkipBlock
      /\ sigs' = [f \in DOMAIN sigs \cup {name} |-> IF f = name THEN sg ELSE sigs[f]]
  BY DEF TakeSignature, Inserted
<1>3. n \in DOMAIN spans /\ n \in Nat \ {0} /\ s \in Nat
  BY <1>1, SpanFacts DEF ScanningHeader
<1>4. /\ sg.params \in Seq(Types) /\ sg.ret \in Types /\ name \in Names /\ name = NameOf(n)
      /\ h \in HeaderRecords
  BY <1>1, SignatureTyped DEF Typed, NameOf
<1>5. /\ IsRow(goals)' /\ Height' = 3 /\ GoalAt(1)' = GoalAt(1)
      /\ GoalAt(2)' = Goal("Skip", 1) /\ GoalAt(3)' = Goal("LBrace", 0)
  <2> PICK t : t = <<Goal("LBrace", 0), Goal("Skip", 1)>>
    OBVIOUS
  <2>1. IsRow(t) /\ Len(t) = 2 /\ t[1] = Goal("LBrace", 0) /\ t[2] = Goal("Skip", 1)
    BY DEF IsRow
  <2>2. goals' = t \o Tail(goals)
    BY <1>2 DEF SkipBlock
  <2>3. /\ IsRow(goals)' /\ Height' = Height - 1 + Len(t)
        /\ \A k \in 1 .. Height - 1 : GoalAt(k)' = GoalAt(k)
        /\ \A k \in Height .. Height - 1 + Len(t) : GoalAt(k)' = t[Height + Len(t) - k]
    <3>1. IsRow(goals) /\ Height > 0 /\ IsRow(t)
      BY <1>1, <2>1 DEF Typed
    <3> QED
      BY <2>2, <3>1, Replaced
  <2> QED
    BY <1>1, <2>1, <2>3
<1>6. Typed'
  <2>1. DOMAIN sigs' \subseteq Names
    BY <1>1, <1>2, <1>4 DEF Typed
  <2>2. \A f \in DOMAIN sigs' : sigs'[f].params \in Seq(Types) /\ sigs'[f].ret \in Types
    BY <1>1, <1>2, <1>4 DEF Typed
  <2> QED
    BY <1>1, <1>2, <1>5, <2>1, <2>2 DEF Typed, IsRow
<1>7. \A k : OpenBraces(k)' = OpenBraces(k) /\ Closes(k)' = Closes(k)
  BY <1>2, SameBraces
<1>8. /\ EndedUpTo(n - 1)' /\ \A i \in DOMAIN spans' : Started(i)'
  <2>1. EndedUpTo(n - 1) /\ \A i \in DOMAIN spans : Started(i)
    BY <1>1 DEF ScanInv, ScanningHeader
  <2> QED
    BY <1>2, <1>7, <2>1 DEF EndedUpTo, Ended, Unclosed, Started, StartOf
<1>9. SignedUpTo(n)'
  <2>1. SignedUpTo(n - 1) /\ \A i \in 1 .. n : i = n \/ i \in 1 .. n - 1
    BY <1>1, <1>3 DEF ScanningHeader
  <2>2. \A i : NameOf(i)' = NameOf(i)
    BY <1>2 DEF NameOf
  <2>3. \A r, g : HeaderAt(r, g)' <=> HeaderAt(r, g)
    BY <1>2 DEF HeaderAt, NamedAt, ParamsAt, CommasAt
  <2>4. \A i \in 1 .. n - 1 : NameOf(i) \in DOMAIN sigs /\ NameOf(i) # name
    BY <1>2, <2>1 DEF SignedUpTo
  <2>5. \A i \in 1 .. n - 1 : Signed(i)'
    BY <1>2, <2>1, <2>2, <2>3, <2>4 DEF SignedUpTo, Signed
  <2>6. Signed(n)'
    <3>1. sigs'[name] = Signature(h) /\ HeaderAt(s, h)' /\ s = spans'[n].start
      BY <1>1, <1>2, <2>3
    <3> QED
      BY <1>4, <2>2, <3>1 DEF Signed
  <2>7. DOMAIN sigs' = {NameOf(i)' : i \in 1 .. n}
    <3>1. DOMAIN sigs = {NameOf(i) : i \in 1 .. n - 1} /\ DOMAIN sigs' = DOMAIN sigs \cup {name}
      BY <1>2, <2>1 DEF SignedUpTo
    <3>2. \A i \in 1 .. n - 1 : i \in 1 .. n
      BY <1>3
    <3>3. n \in 1 .. n
      BY <1>3
    <3> QED
      BY <1>4, <2>1, <2>2, <3>1, <3>2, <3>3
  <2>8. \A i, j \in 1 .. n : NameOf(i)' = NameOf(j)' => i = j
    BY <1>4, <2>1, <2>2, <2>4 DEF SignedUpTo
  <2> QED
    BY <2>1, <2>5, <2>6, <2>7, <2>8 DEF SignedUpTo
<1>10. SkippingBody(n, s)'
  <2>1. OpenBraces(pos)' = 0 /\ Unclosed(s, pos)' /\ pos' > s
    <3>1. OpenBraces(pos) = 0 /\ Unclosed(s, pos)
      BY <1>1 DEF ScanningHeader
    <3> QED
      BY <1>1, <1>2, <1>7, <3>1 DEF OpenBraces, Before, Unclosed
  <2> QED
    BY <1>3, <1>5, <1>8, <1>9, <2>1 DEF SkippingBody, Goal
<1>11. ScanInv'
  <2>1. FnsFound(pos)'
    <3>1. FnsFound(pos)
      BY <1>1 DEF ScanInv
    <3> QED
      BY <1>2, <1>7, <3>1 DEF FnsFound
  <2>2. n = Len(spans') /\ s = spans'[n].start /\ functions' = <<>> /\ header'.calls = <<>>
    BY <1>1, <1>2 DEF ScanInv
  <2> QED
    BY <1>8, <1>10, <2>1, <2>2 DEF ScanInv
<1>12. Parsing' /\ Height' > 0 /\ GoalAt(1)'.do = "Module"
  BY <1>1, <1>2, <1>5 DEF Scanning, Parsing
<1> QED
  BY <1>6, <1>11, <1>12, StillScanning

\* A token that is a brace is known as one, and the other way round.
LEMMA BraceAhead ==
  ASSUME Typed
  PROVE  \A t \in {"LBrace", "RBrace", "fn", "Eof"} : Next1 = t <=> tokens[pos] = t
<1>1. \A t \in {"LBrace", "RBrace", "fn", "Eof"} : t \in Tokens /\ t # "ident"
  BY DEF Tokens
<1>2. Names \cap Tokens = {}
  BY SourcesAssumption
<1> QED
  BY <1>1, <1>2 DEF Next1, Kind

\* One goal in place of the innermost of two.
LEMMA SecondGoal ==
  ASSUME IsRow(goals), Height = 2, NEW g, goals' = <<g>> \o Tail(goals)
  PROVE  IsRow(goals)' /\ Height' = 2 /\ GoalAt(1)' = GoalAt(1) /\ GoalAt(2)' = g
<1> PICK t : t = <<g>>
  OBVIOUS
<1>1. IsRow(t) /\ Len(t) = 1 /\ t[1] = g
  BY DEF IsRow
<1>2. goals' = t \o Tail(goals)
  OBVIOUS
<1>3. /\ IsRow(goals)' /\ Height' = Height - 1 + Len(t)
      /\ \A k \in 1 .. Height - 1 : GoalAt(k)' = GoalAt(k)
      /\ \A k \in Height .. Height - 1 + Len(t) : GoalAt(k)' = t[Height + Len(t) - k]
  <2>1. Height > 0 /\ IsRow(t)
    BY <1>1
  <2> QED
    BY <1>2, <2>1, Replaced
<1> QED
  BY <1>1, <1>3

LEMMA SkipTokenKeeps ==
  ASSUME MInv, SkipToken
  PROVE  MInv'
<1> PICK n, s, d : n = Len(spans) /\ s = spans[n].start /\ d = Depth
  OBVIOUS
<1>1. /\ Typed /\ Scanning /\ ScanInv /\ SkippingBody(n, s) /\ Height = 2 /\ Top = GoalAt(2)
  BY AtSkip DEF SkipToken
<1>2. CASE Next1 = "Eof"
  BY <1>2, Refused DEF SkipToken, Errors
<1>3. CASE Next1 # "Eof"
  <2>1. /\ UNCHANGED <<tokens, types, header, sigs, spans, functions, status>>
        /\ pos' = Advanced /\ goals' = <<Goal("Skip", d)>> \o Tail(goals)
    BY <1>3 DEF SkipToken
  <2>2. /\ Top.n \in Nat \ {0} /\ OpenBraces(pos) = Top.n /\ Unclosed(s, pos)
        /\ n > 0 /\ pos > s /\ EndedUpTo(n - 1) /\ SignedUpTo(n)
    BY <1>1 DEF SkippingBody, SkipToken
  <2>3. n \in DOMAIN spans /\ s \in Nat
    BY <1>1, <2>2, SpanFacts
  <2>4. /\ pos' = pos + 1 /\ pos' \in DOMAIN tokens' /\ pos \in Nat
        /\ OpenBraces(pos)' = OpenBraces(pos) + (IF tokens[pos] = "LBrace" THEN 1
                                                 ELSE IF tokens[pos] = "RBrace" THEN -1 ELSE 0)
        /\ Closes(pos)' <=> tokens[pos] = "RBrace" /\ OpenBraces(pos)' = 0
    BY <1>1, <1>3, <2>1, ReadOn
  <2>5. OpenBraces(pos)' = d /\ d \in Nat /\ (Closes(pos)' <=> d = 0)
    <3>1. /\ Next1 = "LBrace" <=> tokens[pos] = "LBrace"
          /\ Next1 = "RBrace" <=> tokens[pos] = "RBrace"
      BY <1>1, BraceAhead
    <3>2. d = Top.n + (IF Next1 = "LBrace" THEN 1 ELSE IF Next1 = "RBrace" THEN -1 ELSE 0)
      BY DEF Depth
    <3> QED
      BY <2>2, <2>4, <3>1, <3>2
  <2>6. IsRow(goals)' /\ Height' = 2 /\ GoalAt(1)' = GoalAt(1) /\ GoalAt(2)' = Goal("Skip", d)
    <3>1. IsRow(goals)
      BY <1>1 DEF Typed
    <3> QED
      BY <1>1, <2>1, <3>1, SecondGoal
  <2>7. Unclosed(s, pos - 1)' /\ (d # 0 => Unclosed(s, pos)') /\ FnsFound(pos)'
    <3>1. FnsFound(pos) /\ OpenBraces(pos) # 0
      BY <1>1, <2>2 DEF ScanInv
    <3> QED
      BY <1>1, <1>3, <2>1, <2>2, <2>3, <2>5, <3>1, Advances
  <2>8. Typed'
    BY <1>1, <2>1, <2>4, <2>6 DEF Typed, IsRow
  <2>9. SkippingBody(n, s)'
    <3>1. EndedUpTo(n - 1)' /\ SignedUpTo(n)'
      BY <2>1, <2>2, SpansKept
    <3>2. Height' > 1 /\ pos' > s
      BY <2>2, <2>3, <2>4, <2>6
    <3>3. Goal("Skip", d).do = "Skip" /\ Goal("Skip", d).n = d
      BY DEF Goal
    <3>4. CASE d = 0
      BY <2>2, <2>5, <2>6, <2>7, <3>1, <3>2, <3>3, <3>4 DEF SkippingBody
    <3>5. CASE d # 0
      BY <2>2, <2>5, <2>6, <2>7, <3>1, <3>2, <3>3, <3>5 DEF SkippingBody
    <3> QED
      BY <3>4, <3>5
  <2>10. ScanInv'
    <3>1. \A i \in DOMAIN spans' : Started(i)'
      BY <1>1, <2>1, SpansKept DEF ScanInv
    <3>2. n = Len(spans') /\ s = spans'[n].start /\ functions' = <<>> /\ header'.calls = <<>>
      BY <1>1, <2>1 DEF ScanInv
    <3> QED
      BY <2>7, <2>9, <3>1, <3>2 DEF ScanInv
  <2>11. Parsing' /\ Height' > 0 /\ GoalAt(1)'.do = "Module"
    BY <1>1, <2>1, <2>6 DEF Scanning, Parsing
  <2> QED
    BY <2>8, <2>10, <2>11, StillScanning
<1> QED
  BY <1>2, <1>3

\* The brace skip_block begins with.
LEMMA SkipOpensKeeps ==
  ASSUME MInv, Match, Scanning, NEW n, NEW s, n = Len(spans), s = spans[n].start,
         SkippingBody(n, s), Height = 3, Top.do = "LBrace"
  PROVE  MInv'
<1>1. /\ UNCHANGED <<tokens, types, header, sigs, spans, functions, status>>
      /\ pos' = Advanced /\ Then(<<>>) /\ Next1 = "LBrace"
  BY DEF Match
<1>2. Typed /\ ScanInv /\ tokens[pos] = "LBrace" /\ IsRow(goals) /\ Next1 # "Eof"
  BY <1>1, BraceAhead DEF MInv, Typed
<1>3. /\ GoalAt(2) = Goal("Skip", 1) /\ OpenBraces(pos) = 0 /\ Unclosed(s, pos)
      /\ n > 0 /\ pos > s /\ EndedUpTo(n - 1) /\ SignedUpTo(n)
  BY DEF SkippingBody
<1>4. n \in DOMAIN spans /\ s \in Nat
  BY <1>2, <1>3, SpanFacts
<1>5. /\ pos' = pos + 1 /\ pos' \in DOMAIN tokens' /\ pos \in Nat
      /\ OpenBraces(pos)' = 1 /\ ~Closes(pos)'
  BY <1>1, <1>2, <1>3, ReadOn
<1>6. IsRow(goals)' /\ Height' = 2 /\ GoalAt(1)' = GoalAt(1) /\ GoalAt(2)' = Goal("Skip", 1)
  BY <1>1, <1>2, <1>3, Done
<1>7. Unclosed(s, pos)' /\ FnsFound(pos)'
  <2>1. FnsFound(pos) /\ tokens[pos] # "fn"
    BY <1>2 DEF ScanInv
  <2> QED
    BY <1>1, <1>2, <1>3, <1>4, <1>5, <2>1, Advances
<1>8. Typed'
  BY <1>1, <1>2, <1>5, <1>6 DEF Typed, IsRow
<1>9. SkippingBody(n, s)'
  <2>1. EndedUpTo(n - 1)' /\ SignedUpTo(n)'
    BY <1>1, <1>3, SpansKept
  <2>2. Goal("Skip", 1).do = "Skip" /\ Goal("Skip", 1).n = 1
    BY DEF Goal
  <2>3. Height' > 1 /\ pos' > s
    BY <1>3, <1>4, <1>5, <1>6
  <2> QED
    BY <1>3, <1>5, <1>6, <1>7, <2>1, <2>2, <2>3 DEF SkippingBody
<1>10. ScanInv'
  <2>1. \A i \in DOMAIN spans' : Started(i)'
    BY <1>1, <1>2, SpansKept DEF ScanInv
  <2>2. n = Len(spans') /\ s = spans'[n].start /\ functions' = <<>> /\ header'.calls = <<>>
    BY <1>1, <1>2 DEF ScanInv
  <2> QED
    BY <1>7, <1>9, <2>1, <2>2 DEF ScanInv
<1>11. Parsing' /\ Height' > 0 /\ GoalAt(1)'.do = "Module"
  BY <1>1, <1>6 DEF Scanning, Parsing
<1> QED
  BY <1>8, <1>10, <1>11, StillScanning

LEMMA SkippedKeeps ==
  ASSUME MInv, Skipped
  PROVE  MInv'
<1> PICK n, s, p : n = Len(spans) /\ s = spans[n].start /\ p = pos
  OBVIOUS
<1>1. Typed /\ Scanning /\ ScanInv /\ SkippingBody(n, s) /\ Height = 2 /\ Top = GoalAt(2)
  BY AtSkip DEF Skipped
<1>2. /\ UNCHANGED <<tokens, pos, types, header, sigs, functions, status>>
      /\ spans' = [spans EXCEPT ![n].end = p] /\ Then(<<>>)
  BY DEF Skipped
<1>3. /\ Closes(p) /\ Unclosed(s, p - 1) /\ n > 0 /\ p > s
      /\ EndedUpTo(n - 1) /\ SignedUpTo(n)
  BY <1>1 DEF SkippingBody, Skipped
<1>4. /\ n \in DOMAIN spans /\ n \in Nat \ {0} /\ s \in Nat /\ p \in Nat /\ p \in DOMAIN tokens
      /\ spans \in Seq(SpanRecords)
  BY <1>1, <1>3, SpanFacts, TokenFacts DEF Typed
<1>5. /\ spans' \in Seq(SpanRecords) /\ Len(spans') = n
      /\ spans'[n].start = s /\ spans'[n].end = p
      /\ \A i \in 1 .. n - 1 : spans'[i] = spans[i]
      /\ \A i : i \in DOMAIN spans' <=> i \in 1 .. n
  <2> PICK r : r = [spans[n] EXCEPT !.end = p]
    OBVIOUS
  <2>1. spans[n] \in [start : Nat, end : Nat]
    BY <1>1, <1>4, SpanFacts DEF SpanRecords
  <2>2. r \in SpanRecords /\ r.start = s /\ r.end = p
    BY <1>4, <2>1 DEF SpanRecords
  <2>3. spans' = [spans EXCEPT ![n] = r]
    BY <1>2
  <2>4. n \in 1 .. Len(spans)
    BY <1>1, <1>4, SpanFacts
  <2>5. /\ spans' \in Seq(SpanRecords) /\ Len(spans') = Len(spans)
        /\ \A j \in 1 .. Len(spans) : spans'[j] = IF j = n THEN r ELSE spans[j]
    BY <1>4, <2>2, <2>3, <2>4, ExceptSeq
  <2>6. /\ Len(spans') = n /\ \A i : i \in DOMAIN spans' <=> i \in 1 .. n
    BY <2>5
  <2>7. \A i \in 1 .. n - 1 : i \in 1 .. Len(spans) /\ i # n
    BY <1>4
  <2> QED
    BY <2>2, <2>4, <2>5, <2>6, <2>7
<1>6. IsRow(goals)' /\ Height' = 1 /\ GoalAt(1)' = GoalAt(1)
  <2>1. IsRow(goals)
    BY <1>1 DEF Typed
  <2> QED
    BY <1>1, <1>2, <2>1, Done
<1>7. Typed'
  BY <1>1, <1>2, <1>5, <1>6 DEF Typed, IsRow
<1>8. \A k : OpenBraces(k)' = OpenBraces(k) /\ Closes(k)' = Closes(k)
  BY <1>2, SameBraces
<1>9. \A i \in 1 .. n : i = n \/ i \in 1 .. n - 1
  BY <1>4
<1>10. EndedUpTo(n - 1)' /\ SignedUpTo(n)' /\ \A i \in DOMAIN spans' : Started(i)'
  <2>1. n - 1 \in Nat /\ n \in 1 .. (n - 1) + 1
    BY <1>4
  <2>2. /\ EndedUpTo(n - 1)' /\ StartOf(n)' = StartOf(n)
        /\ \A i \in 1 .. n - 1 : Started(i)' <=> Started(i)
    BY <1>2, <1>3, <1>5, <2>1, EndsAgree
  <2>3. SignedUpTo(n)'
    BY <1>2, <1>3, <1>4, <1>5, <1>9, StartsAgree
  <2>4. \A i \in DOMAIN spans : Started(i)
    BY <1>1 DEF ScanInv
  <2>5. \A i \in 1 .. n - 1 : i \in DOMAIN spans
    BY <1>1, <1>4, SpanFacts
  <2>6. Started(n)'
    BY <1>2, <1>4, <1>5, <1>8, <2>2, <2>4 DEF Started
  <2> QED
    BY <1>5, <1>9, <2>2, <2>3, <2>4, <2>5, <2>6
<1>11. Ended(n)'
  <2>1. Closes(p)' /\ Unclosed(s, p - 1)'
    BY <1>3, <1>8 DEF Unclosed
  <2> QED
    BY <1>2, <1>3, <1>4, <1>5, <2>1 DEF Ended
<1>12. EndedUpTo(n)'
  BY <1>9, <1>10, <1>11 DEF EndedUpTo
<1>13. BetweenHeaders(n)'
  <2>1. StartOf(n + 1)' = p
    <3>1. n + 1 # 1 /\ (n + 1) - 1 = n
      BY <1>4
    <3> QED
      BY <1>5, <3>1 DEF StartOf
  <2>2. OpenBraces(pos)' = 0
    BY <1>2, <1>3, <1>8 DEF Closes, OpenBraces, Before
  <2> QED
    BY <1>2, <1>6, <1>10, <1>12, <2>1, <2>2 DEF BetweenHeaders
<1>14. ScanInv'
  <2>1. FnsFound(pos)'
    <3>1. FnsFound(pos) /\ \A i \in DOMAIN spans : i \in DOMAIN spans' /\ spans'[i].start = spans[i].start
      BY <1>1, <1>4, <1>5, <1>9, SpanFacts DEF ScanInv
    <3> QED
      BY <1>2, <1>8, <3>1 DEF FnsFound
  <2>2. n = Len(spans') /\ functions' = <<>> /\ header'.calls = <<>>
    BY <1>1, <1>2, <1>5 DEF ScanInv
  <2> QED
    BY <1>10, <1>13, <2>1, <2>2 DEF ScanInv
<1>15. Parsing' /\ Height' > 0 /\ GoalAt(1)'.do = "Module"
  BY <1>1, <1>2, <1>6 DEF Scanning, Parsing
<1> QED
  BY <1>7, <1>14, <1>15, StillScanning

-----------------------------------------------------------------------------
(* The second pass, from function to function.                             *)

\* What starts at s is one header, whoever reads it.
LEMMA HeaderUnique ==
  ASSUME NEW g \in HeaderRecords, NEW h \in HeaderRecords, NEW s \in Nat,
         HeaderAt(s, g), HeaderAt(s, h)
  PROVE  g.name = h.name /\ g.ret = h.ret /\ Signature(g) = Signature(h)
<1> PICK m, n : m = Len(g.params) /\ n = Len(h.params)
  OBVIOUS
<1>1. /\ m \in Nat /\ \A k : k \in DOMAIN g.params <=> k \in 1 .. m
      /\ n \in Nat /\ \A k : k \in DOMAIN h.params <=> k \in 1 .. n
  <2>1. g.params \in Seq(ParamTypes) /\ h.params \in Seq(ParamTypes)
    BY DEF HeaderRecords
  <2> QED
    BY <2>1
<1>2. /\ NamedAt(s, g) /\ ParamsAt(s, g, m) /\ CommasAt(s, m - 1) /\ tokens[Closing(s, m)] = ")"
      /\ g.ret = tokens[Closing(s, m) + 2]
      /\ NamedAt(s, h) /\ ParamsAt(s, h, n) /\ CommasAt(s, n - 1) /\ tokens[Closing(s, n)] = ")"
      /\ h.ret = tokens[Closing(s, n) + 2]
  BY DEF HeaderAt
<1>3. ")" \notin Names
  BY SourcesAssumption DEF Tokens
<1>4. ASSUME NEW a \in Nat, NEW b \in Nat, a < b, NEW f \in HeaderRecords, b = Len(f.params),
             ParamsAt(s, f, b), CommasAt(s, b - 1), tokens[Closing(s, a)] = ")"
      PROVE  FALSE
  <2>1. CASE a = 0
    <3>1. tokens[s + 3] = ")" /\ 1 \in 1 .. b /\ s + 4 * 1 - 1 = s + 3
      BY <1>4, <2>1 DEF Closing
    <3>2. f.params[1].name = tokens[s + 3]
      BY <1>4, <3>1 DEF ParamsAt
    <3>3. f.params[1] \in ParamTypes
      <4>1. f.params \in Seq(ParamTypes) /\ 1 \in 1 .. Len(f.params)
        BY <1>4, <3>1 DEF HeaderRecords
      <4> QED
        BY <4>1
    <3> QED
      BY <1>3, <3>1, <3>2, <3>3 DEF ParamTypes
  <2>2. CASE a # 0
    <3>1. a \in 1 .. b - 1 /\ tokens[s + 4 * a + 2] = ")"
      BY <1>4, <2>2 DEF Closing
    <3> QED
      BY <1>4, <3>1 DEF CommasAt
  <2> QED
    BY <2>1, <2>2
<1>5. m = n
  <2>1. ~(m < n)
    BY <1>1, <1>2, <1>4
  <2>2. ~(n < m)
    BY <1>1, <1>2, <1>4
  <2> QED
    BY <1>1, <2>1, <2>2
<1>6. g.name = h.name /\ g.ret = h.ret
  BY <1>2, <1>5 DEF NamedAt
<1>7. \A k \in 1 .. m : g.params[k].ty = h.params[k].ty
  BY <1>2, <1>5 DEF ParamsAt
<1>8. DOMAIN g.params = DOMAIN h.params
  BY <1>1, <1>5
<1>9. [k \in DOMAIN g.params |-> g.params[k].ty] = [k \in DOMAIN h.params |-> h.params[k].ty]
  BY <1>1, <1>7, <1>8
<1> QED
  BY <1>6, <1>9 DEF Signature

LEMMA FunctionBegins ==
  ASSUME Typed, Parsing, Scanned, UNCHANGED <<tokens, types, header, sigs, spans>>,
         NEW i \in Nat \ {0}, FunctionAt(i), i - 1 <= Len(spans),
         IsRow(functions'), i = Len(functions') + 1, \A j \in 1 .. i - 1 : Parsed(j)',
         CallsAgree(header.calls)
  PROVE  MInv'
<1>1. Scanned'
  BY ScannedKept
<1>2. CallsAgree(header.calls)'
  BY SpansKept DEF CallsAgree
<1>3. /\ Len(spans) \in Nat /\ \A k : k \in DOMAIN spans <=> k \in 1 .. Len(spans)
      /\ \A k : k \in DOMAIN functions' <=> k \in 1 .. i - 1
  <2>1. Len(functions') \in Nat /\ \A k : k \in DOMAIN functions' <=> k \in 1 .. Len(functions')
    BY DEF IsRow
  <2>2. Len(functions') = i - 1
    BY <2>1
  <2> QED
    BY <2>1, <2>2, SpanFacts, Zenon
<1>4. CASE i \in DOMAIN spans
  <2> PICK s : s = spans[i].start
    OBVIOUS
  <2>1. /\ pos' = s /\ status' = status
        /\ goals' = Plan(<<"Header", "Body">>) \o <<Goal("Finish", i)>>
    BY <1>4 DEF FunctionAt
  <2>2. s \in DOMAIN tokens /\ OpenBraces(s) = 0 /\ s \in Nat
    BY <1>4, SpanFacts DEF Scanned, ScannedTo, Started
  <2>3. /\ IsRow(goals') /\ Height' = 3 /\ GoalAt(1)' = Goal("Finish", i)
        /\ GoalAt(2)' = Goal("Body", 0) /\ GoalAt(3)' = Goal("Header", 0)
    <3> PICK row : row = <<Goal("Finish", i)>>
      OBVIOUS
    <3>1. IsRow(row) /\ Len(row) \in {1} /\ row[1] = Goal("Finish", i)
      BY DEF IsRow
    <3>2. goals' = Plan(<<"Header", "Body">>) \o row
      BY <2>1
    <3>3. /\ IsRow(goals') /\ Height' = 3 /\ GoalAt(1)' = row[1]
          /\ GoalAt(2)' = Goal("Body", 0) /\ GoalAt(3)' = Goal("Header", 0)
      BY <3>1, <3>2, TwoOnTop
    <3> QED
      BY <3>1, <3>3
  <2>4. Typed'
    BY <2>1, <2>2, <2>3 DEF Typed, IsRow
  <2>5. ParsingHeader(s)'
    <3>1. ReadingHeader(s)'
      BY <2>1, <2>3, HeaderBegins
    <3>2. OpenBraces(pos)' = 0
      BY <2>1, <2>2 DEF OpenBraces, Before
    <3>3. Unclosed(s, pos)'
      BY <2>1, <2>2 DEF Unclosed
    <3> QED
      BY <2>3, <3>1, <3>2, <3>3 DEF ParsingHeader
  <2>6. OpenInv'
    <3>1. i \in DOMAIN spans' /\ s = spans'[i].start
      BY <1>4
    <3> QED
      BY <1>1, <1>2, <1>3, <2>3, <2>5, <3>1 DEF OpenInv
  <2>7. Parsing' /\ Height' > 0 /\ GoalAt(1)'.do = "Finish"
    BY <2>1, <2>3 DEF Parsing, Goal
  <2> QED
    BY <2>4, <2>6, <2>7, StillOpening
<1>5. CASE i \notin DOMAIN spans
  <2>1. status' = "accepted" /\ goals' = <<>> /\ pos' = pos
    BY <1>5 DEF FunctionAt
  <2>2. IsRow(goals')
    BY <2>1 DEF IsRow
  <2>3. Typed'
    BY <2>1, <2>2 DEF Typed, IsRow
  <2>4. Len(functions') = Len(spans')
    <3>1. i = Len(spans) + 1
      BY <1>3, <1>5
    <3>2. Len(functions') \in Nat
      BY DEF IsRow
    <3> QED
      BY <1>3, <3>1, <3>2
  <2> QED
    BY <1>1, <1>3, <2>1, <2>3, <2>4
       DEF MInv, Scanning, Opening, Parsing, Accepted, UndefinedMeansNowhere
<1> QED
  BY <1>4, <1>5

LEMMA BeginBodiesKeeps ==
  ASSUME MInv, BeginBodies
  PROVE  MInv'
<1> PICK n, p : n = Len(spans) /\ p = StartOf(n + 1)
  OBVIOUS
<1>1. Typed /\ Scanning /\ ScanInv /\ BetweenHeaders(n)
  BY AtModule DEF BeginBodies
<1>2. /\ UNCHANGED <<tokens, types, header, sigs, spans, functions>>
      /\ FunctionAt(1) /\ Next1 = "Eof"
  BY DEF BeginBodies
<1>3. functions = <<>> /\ header.calls = <<>> /\ n \in Nat
  BY <1>1, SpanFacts DEF ScanInv
<1>4. Scanned
  <2>1. pos = p /\ pos \in DOMAIN tokens /\ tokens[pos] = "Eof"
    BY <1>1, <1>2, NextFacts DEF BetweenHeaders, Typed
  <2>2. FnsFound(p)
    BY <1>1, <2>1 DEF ScanInv, FnsFound
  <2>3. ScannedTo(n, p)
    BY <1>1, <2>1, <2>2 DEF ScannedTo, BetweenHeaders, ScanInv
  <2> QED
    BY <2>3 DEF Scanned
<1>5. CallsAgree(header.calls)
  BY <1>3 DEF CallsAgree
<1>6. IsRow(functions') /\ 1 = Len(functions') + 1
  BY <1>2, <1>3 DEF IsRow
<1>7. Parsing /\ 1 - 1 <= Len(spans)
  BY <1>1, <1>3 DEF Scanning
<1>8. \A j \in 1 .. 1 - 1 : Parsed(j)'
  OBVIOUS
<1> QED
  BY <1>1, <1>2, <1>4, <1>5, <1>6, <1>7, <1>8, FunctionBegins

LEMMA RowAppend ==
  ASSUME NEW row, IsRow(row), NEW e
  PROVE  /\ IsRow(Append(row, e)) /\ Len(Append(row, e)) = Len(row) + 1
         /\ \A k \in 1 .. Len(row) : Append(row, e)[k] = row[k]
         /\ Append(row, e)[Len(row) + 1] = e
<1> PICK n, S : n = Len(row) /\ S = {row[k] : k \in 1 .. Len(row)} \cup {e}
  OBVIOUS
<1>1. n \in Nat /\ row = [k \in 1 .. n |-> row[k]]
  BY DEF IsRow
<1>2. row \in [1 .. n -> S] /\ e \in S
  BY <1>1
<1>3. row \in Seq(S)
  BY <1>1, <1>2
<1>4. /\ Append(row, e) \in Seq(S) /\ Len(Append(row, e)) = Len(row) + 1
      /\ \A k \in 1 .. Len(row) : Append(row, e)[k] = row[k]
      /\ Append(row, e)[Len(row) + 1] = e
  BY <1>2, <1>3, AppendProperties
<1>5. IsRow(Append(row, e))
  BY <1>4, LenProperties DEF IsRow
<1> QED
  BY <1>4, <1>5

\* Bodies have one end: the first token behind s that closes one.
LEMMA EndUnique ==
  ASSUME NEW s \in Nat, NEW p \in Nat, NEW q \in Nat, s < p, s < q,
         Closes(p), Unclosed(s, p - 1), Closes(q), Unclosed(s, q - 1)
  PROVE  p = q
<1>1. ~(p < q)
  <2>1. ASSUME p < q PROVE p \in s + 1 .. q - 1
    BY <2>1
  <2> QED
    BY <2>1 DEF Unclosed
<1>2. ~(q < p)
  <2>1. ASSUME q < p PROVE q \in s + 1 .. p - 1
    BY <2>1
  <2> QED
    BY <2>1 DEF Unclosed
<1> QED
  BY <1>1, <1>2

LEMMA AtFinish ==
  ASSUME MInv, AtGoal("Finish"), NEW i, NEW s, i = Len(functions) + 1, s = spans[i].start
  PROVE  /\ Typed /\ OpenInv /\ i \in DOMAIN spans /\ s \in Nat
         /\ ParsedBody(s) /\ Top = Goal("Finish", i)
<1>1. Parsing /\ Top.do = "Finish"
  BY DEF AtGoal
<1>2. ASSUME Scanning PROVE FALSE
  <2> PICK n, r : n = Len(spans) /\ r = spans[n].start
    OBVIOUS
  <2>1. ScanTop(n, r)
    BY <1>2, ScanTops
  <2> QED
    BY <1>1, <2>1 DEF ScanTop, HeaderGoals
<1>3. Opening
  BY <1>1, <1>2 DEF MInv
<1>4. Typed /\ OpenInv /\ i \in DOMAIN spans /\ s \in Nat /\ OpenTop(i, s)
  BY <1>3, OpenTops
<1> QED
  BY <1>1, <1>4 DEF OpenTop, HeaderGoals, Foreign

LEMMA FinishFunctionKeeps ==
  ASSUME MInv, FinishFunction
  PROVE  MInv'
<1> PICK i, s, f, sg : /\ i = Len(functions) + 1 /\ s = spans[i].start /\ sg = Signature(header)
                       /\ f = [name |-> header.name, params |-> Signature(header).params,
                               ret |-> header.ret, calls |-> header.calls, end |-> pos]
  OBVIOUS
<1>1. /\ Typed /\ OpenInv /\ i \in DOMAIN spans /\ s \in Nat
      /\ ParsedBody(s) /\ Top = Goal("Finish", i)
  BY AtFinish DEF FinishFunction
<1>2. /\ UNCHANGED <<tokens, types, header, sigs, spans>>
      /\ functions' = Append(functions, f) /\ FunctionAt(i + 1)
  BY <1>1 DEF FinishFunction, Goal
<1>3. /\ Len(functions) \in Nat /\ i \in Nat \ {0} /\ i \in 1 .. Len(spans) /\ Len(spans) \in Nat
      /\ \A j : j \in DOMAIN functions <=> j \in 1 .. Len(functions)
  BY <1>1, SpanFacts DEF Typed, IsRow
<1>4. /\ IsRow(functions') /\ Len(functions') = Len(functions) + 1
      /\ \A k \in 1 .. Len(functions) : functions'[k] = functions[k]
      /\ functions'[Len(functions) + 1] = f
  <2>1. IsRow(functions)
    BY <1>1 DEF Typed
  <2> QED
    BY <1>2, <2>1, RowAppend
<1> PICK n, end : n = Len(spans) /\ end = StartOf(n + 1)
  OBVIOUS
<1>5. ScannedTo(n, end)
  BY <1>1 DEF OpenInv, Scanned
<1>6. Ended(i) /\ Signed(i)
  BY <1>3, <1>5 DEF ScannedTo, EndedUpTo, SignedUpTo
<1>7. pos = spans[i].end
  <2>1. /\ s < pos /\ Closes(pos) /\ Unclosed(s, pos - 1) /\ pos \in Nat
    BY <1>1, TokenFacts DEF ParsedBody
  <2>2. /\ s < spans[i].end /\ Closes(spans[i].end) /\ Unclosed(s, spans[i].end - 1)
        /\ spans[i].end \in Nat
    BY <1>1, <1>6, SpanFacts DEF Ended
  <2> QED
    BY <1>1, <2>1, <2>2, EndUnique
<1>8. sigs[NameOf(i)] = sg /\ header.name = NameOf(i)
  <2>1. PICK h \in HeaderRecords : HeaderAt(s, h) /\ sigs[NameOf(i)] = Signature(h)
    BY <1>6 DEF Signed
  <2>2. HeaderAt(s, header) /\ header \in HeaderRecords
    BY <1>1 DEF ParsedBody, Typed
  <2>3. Signature(h) = Signature(header)
    BY <1>1, <2>1, <2>2, HeaderUnique
  <2>4. header.name = tokens[s + 1]
    BY <2>2 DEF HeaderAt, NamedAt
  <2> QED
    BY <2>1, <2>3, <2>4 DEF NameOf
<1>9. Parsed(i)'
  <2>1. functions'[i] = f
    BY <1>4
  <2>2. sg = [params |-> f.params, ret |-> f.ret]
    BY DEF Signature
  <2>3. CallsAgree(header.calls) /\ (\A c : CallAgrees(c)' <=> CallAgrees(c)) /\ NameOf(i)' = NameOf(i)
    BY <1>1, <1>2, SpansKept DEF OpenInv
  <2>4. CallsAgree(f.calls)'
    BY <2>3 DEF CallsAgree
  <2> QED
    BY <1>2, <1>7, <1>8, <2>1, <2>2, <2>3, <2>4 DEF Parsed
<1>10. \A j \in 1 .. (i + 1) - 1 : Parsed(j)'
  <2>1. \A j \in 1 .. (i + 1) - 1 : j = i \/ j \in 1 .. Len(functions)
    BY <1>3
  <2>2. \A j \in 1 .. Len(functions) : Parsed(j)'
    <3> SUFFICES ASSUME NEW j \in 1 .. Len(functions) PROVE Parsed(j)'
      OBVIOUS
    <3>1. Parsed(j) /\ functions'[j] = functions[j]
      BY <1>1, <1>3, <1>4 DEF OpenInv
    <3>2. (\A c : CallAgrees(c)' <=> CallAgrees(c)) /\ NameOf(j)' = NameOf(j)
      BY <1>2, SpansKept
    <3> QED
      BY <1>2, <3>1, <3>2 DEF Parsed, CallsAgree
  <2> QED
    BY <1>9, <2>1, <2>2
<1>11. Parsing /\ Scanned /\ CallsAgree(header.calls)
  BY <1>1 DEF FinishFunction, AtGoal, OpenInv
<1>12. i + 1 \in Nat \ {0} /\ (i + 1) - 1 <= Len(spans) /\ i + 1 = Len(functions') + 1
  BY <1>3, <1>4
<1> QED
  BY <1>1, <1>2, <1>4, <1>10, <1>11, <1>12, FunctionBegins

-----------------------------------------------------------------------------
(* The second pass, within a body.                                         *)

Blocks == {"Statements", "RBrace"}

LEMMA OwingFinite ==
  ASSUME Height \in Nat
  PROVE  /\ IsFiniteSet(Owing) /\ Cardinality(Owing) \in Nat
         /\ \A h : h \in Owing <=> h \in 2 .. Height /\ GoalAt(h).do \in Blocks
<1>1. IsFiniteSet(2 .. Height)
  BY FS_Interval
<1>2. Owing \subseteq 2 .. Height
  BY DEF Owing
<1>3. IsFiniteSet(Owing)
  BY <1>1, <1>2, FS_Subset
<1> QED
  BY <1>3, FS_CardinalityType DEF Owing, Blocks

\* What is owed once the innermost goal has given way to others.
LEMMA OwingStep ==
  ASSUME IsRow(goals), Height > 1, NEW s, IsRow(s), goals' = s \o Tail(goals)
  PROVE  /\ IsRow(goals)' /\ Height \in Nat /\ Height' = Height - 1 + Len(s) /\ Len(s) \in Nat
         /\ GoalAt(1)' = GoalAt(1)
         /\ \A h \in 1 .. Height - 1 : GoalAt(h)' = GoalAt(h)
         /\ \A h \in Height .. Height - 1 + Len(s) : GoalAt(h)' = s[Height + Len(s) - h]
         /\ \A h : h \in Owing' <=>
              \/ h \in Owing /\ h # Height
              \/ /\ h \in Height .. Height - 1 + Len(s)
                 /\ s[Height + Len(s) - h].do \in Blocks
<1>1. /\ IsRow(goals)' /\ Height \in Nat /\ Height' = Height - 1 + Len(s) /\ Len(s) \in Nat
      /\ \A h \in 1 .. Height - 1 : GoalAt(h)' = GoalAt(h)
      /\ \A h \in Height .. Height - 1 + Len(s) : GoalAt(h)' = s[Height + Len(s) - h]
  <2>1. Height > 0 /\ Len(s) \in Nat
    BY DEF IsRow, Height
  <2> QED
    BY <2>1, Replaced
<1>2. 1 \in 1 .. Height - 1
  BY <1>1
<1>3. /\ \A h : h \in Owing <=> h \in 2 .. Height /\ GoalAt(h).do \in Blocks
      /\ \A h : h \in Owing' <=> h \in 2 .. Height' /\ GoalAt(h)'.do \in Blocks
  BY DEF Owing, Blocks
<1>4. ASSUME NEW h
      PROVE  h \in Owing' <=>
               \/ h \in Owing /\ h # Height
               \/ /\ h \in Height .. Height - 1 + Len(s)
                  /\ s[Height + Len(s) - h].do \in Blocks
  <2>1. /\ h \in 2 .. Height' <=> h \in 2 .. Height - 1 \/ h \in Height .. Height - 1 + Len(s)
        /\ h \in 2 .. Height /\ h # Height <=> h \in 2 .. Height - 1
        /\ h \in 2 .. Height - 1 => h \notin Height .. Height - 1 + Len(s)
    BY <1>1
  <2>2. CASE h \in 2 .. Height - 1
    <3>1. h \in 1 .. Height - 1
      BY <1>1, <2>2
    <3> QED
      BY <1>1, <1>3, <2>1, <2>2, <3>1
  <2>3. CASE h \in Height .. Height - 1 + Len(s)
    <3>1. h \notin 2 .. Height - 1
      BY <2>1, <2>3
    <3> QED
      BY <1>1, <1>3, <2>1, <2>3, <3>1
  <2>4. CASE h \notin 2 .. Height - 1 /\ h \notin Height .. Height - 1 + Len(s)
    BY <1>3, <2>1, <2>4
  <2> QED
    BY <2>2, <2>3, <2>4
<1> QED
  BY <1>1, <1>2, <1>4

\* A step of the second pass that stays within the function i, from s on.
LEMMA StaysOpen ==
  ASSUME Typed, OpenInv, Opening, OuterKept, NEW i, NEW s, i = Len(functions) + 1,
         s = spans[i].start, i \in DOMAIN spans, GoalAt(1) = Goal("Finish", i),
         Typed', GoalAt(1)' = GoalAt(1), Height' > 0, CallsAgree(header.calls)',
         ParsingHeader(s)' \/ ParsingBody(s)' \/ ParsedBody(s)'
  PROVE  MInv'
<1>1. UNCHANGED <<tokens, sigs, spans, functions, status>>
  BY DEF OuterKept
<1>2. \A j \in DOMAIN functions' : Parsed(j)'
  BY <1>1, SpansKept DEF Parsed, OpenInv, CallsAgree
<1>3. Scanned'
  BY <1>1, ScannedKept DEF OpenInv
<1>4. i = Len(functions') + 1 /\ s = spans'[i].start /\ i \in DOMAIN spans'
  BY <1>1
<1>5. OpenInv'
  BY <1>2, <1>3, <1>4 DEF OpenInv
<1>6. Parsing' /\ GoalAt(1)'.do = "Finish"
  BY <1>1 DEF Opening, Parsing
<1> QED
  BY <1>5, <1>6, StillOpening

\* The header, once read, stays what is at s.
LEMMA HeaderStays ==
  ASSUME NEW s, HeaderAt(s, header), UNCHANGED tokens,
         header'.name = header.name, header'.params = header.params, header'.ret = header.ret
  PROVE  HeaderAt(s, header)'
BY DEF HeaderAt, NamedAt, ParamsAt, CommasAt

\* The place and the braces behind a step that reads no brace.
LEMMA NoBraceRead ==
  ASSUME Typed, OuterKept, NEW s \in Nat, pos > s, Unclosed(s, pos),
         \/ pos' = pos
         \/ Next1 # "Eof" /\ pos' = Advanced /\ tokens[pos] \notin {"LBrace", "RBrace"}
  PROVE  /\ pos' \in DOMAIN tokens' /\ pos' > s /\ Unclosed(s, pos)'
         /\ OpenBraces(pos)' = OpenBraces(pos) /\ OpenBraces(pos) \in Int
<1>1. UNCHANGED <<tokens, spans>> /\ pos \in Nat \ {0} /\ pos \in DOMAIN tokens
  BY TokenFacts DEF OuterKept, Typed
<1>2. OpenBraces(pos) \in Int
  BY <1>1, BraceStep
<1>3. CASE pos' = pos
  <2>1. \A k : OpenBraces(k)' = OpenBraces(k) /\ Closes(k)' = Closes(k)
    BY <1>1, SameBraces
  <2> QED
    BY <1>1, <1>2, <1>3, <2>1 DEF Unclosed, OpenBraces, Before
<1>4. CASE Next1 # "Eof" /\ pos' = Advanced /\ tokens[pos] \notin {"LBrace", "RBrace"}
  <2>1. /\ pos' = pos + 1 /\ pos' \in DOMAIN tokens'
        /\ OpenBraces(pos)' = OpenBraces(pos) + (IF tokens[pos] = "LBrace" THEN 1
                                                 ELSE IF tokens[pos] = "RBrace" THEN -1 ELSE 0)
        /\ Closes(pos)' <=> tokens[pos] = "RBrace" /\ OpenBraces(pos)' = 0
    BY <1>1, <1>4, ReadOn
  <2>2. Unclosed(s, pos)'
    BY <1>1, <1>4, <2>1, Advances
  <2> QED
    BY <1>1, <1>2, <1>4, <2>1, <2>2
<1> QED
  BY <1>3, <1>4

\* A step among statements and expressions: neither a block begins or ends, nor
\* is a brace read.
LEMMA InnerKeeps ==
  ASSUME MInv, Opening, NEW i, NEW s, i = Len(functions) + 1, s = spans[i].start, ParsingBody(s),
         OuterKept, NEW new, IsRow(new), goals' = new \o Tail(goals),
         \A k \in 1 .. Len(new) : new[k].do \notin Foreign \cup Blocks \cup {"LBrace"},
         Top.do \notin Blocks \cup {"LBrace"},
         HeaderAt(s, header)', header' \in HeaderRecords, CallsAgree(header.calls)',
         \/ pos' = pos
         \/ Next1 # "Eof" /\ pos' = Advanced /\ tokens[pos] \notin {"LBrace", "RBrace"}
  PROVE  MInv'
<1>1. /\ Typed /\ OpenInv /\ i \in DOMAIN spans /\ GoalAt(1) = Goal("Finish", i)
      /\ s \in Nat
  BY OpenTops
<1>2. /\ Height > 1 /\ pos > s /\ GoalAt(2).do \in Blocks
      /\ \A h \in 2 .. Height : /\ GoalAt(h).do \notin Foreign
                                /\ GoalAt(h).do = "LBrace" => h = Height
      /\ OpenBraces(pos) = Cardinality(Owing) - (IF GoalAt(Height).do = "LBrace" THEN 1 ELSE 0)
      /\ Unclosed(s, pos)
  BY DEF ParsingBody, Blocks
<1>3. IsRow(goals) /\ Height > 0 /\ Top = GoalAt(Height)
  BY <1>1, <1>2, TopGoal DEF Typed, MInv, Opening
<1>4. /\ IsRow(goals)' /\ Height \in Nat /\ Height' = Height - 1 + Len(new) /\ Len(new) \in Nat
      /\ GoalAt(1)' = GoalAt(1)
      /\ \A h \in 1 .. Height - 1 : GoalAt(h)' = GoalAt(h)
      /\ \A h \in Height .. Height - 1 + Len(new) : GoalAt(h)' = new[Height + Len(new) - h]
      /\ \A h : h \in Owing' <=>
           \/ h \in Owing /\ h # Height
           \/ /\ h \in Height .. Height - 1 + Len(new)
              /\ new[Height + Len(new) - h].do \in Blocks
  BY <1>2, <1>3, OwingStep
<1>5. /\ pos' \in DOMAIN tokens' /\ pos' > s /\ Unclosed(s, pos)'
      /\ OpenBraces(pos)' = OpenBraces(pos) /\ OpenBraces(pos) \in Int
  BY <1>1, <1>2, NoBraceRead
<1>6. Typed'
  BY <1>1, <1>4, <1>5, TypedKept
<1>7. \A h \in Height .. Height - 1 + Len(new) :
        GoalAt(h)'.do \notin Foreign \cup Blocks \cup {"LBrace"}
  <2>1. \A h \in Height .. Height - 1 + Len(new) : Height + Len(new) - h \in 1 .. Len(new)
    BY <1>4
  <2> QED
    BY <1>4, <2>1
<1>8. Owing' = Owing
  <2>1. Height \notin Owing
    BY <1>3 DEF Owing, Blocks
  <2>2. \A h : h \in Owing' <=> h \in Owing
    BY <1>4, <1>7, <2>1
  <2> QED
    BY <2>2
<1>9. Height > 2 /\ 2 \in 1 .. Height - 1
  <2>1. Height # 2
    BY <1>2, <1>3
  <2> QED
    BY <1>2, <1>4, <2>1
<1>10. Height' > 1 /\ GoalAt(2)' = GoalAt(2)
  BY <1>4, <1>9
<1>11. \A h \in 2 .. Height' : GoalAt(h)'.do \notin Foreign \cup {"LBrace"}
  <2> SUFFICES ASSUME NEW h \in 2 .. Height'
               PROVE  GoalAt(h)'.do \notin Foreign \cup {"LBrace"}
    OBVIOUS
  <2>1. CASE h \in Height .. Height - 1 + Len(new)
    BY <1>7, <2>1
  <2>2. CASE h \notin Height .. Height - 1 + Len(new)
    <3>1. h \in 1 .. Height - 1 /\ h \in 2 .. Height /\ h # Height
      BY <1>4, <2>2
    <3> QED
      BY <1>2, <1>4, <3>1
  <2> QED
    BY <2>1, <2>2
<1>12. ParsingBody(s)'
  <2> PICK c, b : c = Cardinality(Owing) /\ b = OpenBraces(pos)
    OBVIOUS
  <2>1. b = c /\ c \in Nat
    BY <1>2, <1>3, <1>4, OwingFinite
  <2>2. Cardinality(Owing)' = c /\ OpenBraces(pos)' = b
    BY <1>5, <1>8
  <2>3. GoalAt(Height)'.do # "LBrace"
    <3>1. Height' \in 2 .. Height'
      BY <1>4, <1>10
    <3>2. \A k : k = Height' => GoalAt(Height)' = GoalAt(k)'
      BY DEF GoalAt
    <3> QED
      BY <1>11, <3>1, <3>2
  <2>4. OpenBraces(pos)' = Cardinality(Owing)' - (IF GoalAt(Height)'.do = "LBrace" THEN 1 ELSE 0)
    BY <2>1, <2>2, <2>3
  <2> QED
    BY <1>2, <1>5, <1>10, <1>11, <2>4 DEF ParsingBody, Blocks
<1>13. Height' > 0
  BY <1>4, <1>10
<1> QED
  BY <1>1, <1>4, <1>6, <1>12, <1>13, StaysOpen

LEMMA InnerPlans ==
  ASSUME MInv, Opening, NEW i, NEW s, i = Len(functions) + 1, s = spans[i].start, ParsingBody(s),
         OuterKept, NEW todo, Listed(todo, Within), Then(todo),
         Top.do \notin Blocks \cup {"LBrace"},
         HeaderAt(s, header)', header' \in HeaderRecords, CallsAgree(header.calls)',
         \/ pos' = pos
         \/ Next1 # "Eof" /\ pos' = Advanced /\ tokens[pos] \notin {"LBrace", "RBrace"}
  PROVE  MInv'
<1> PICK new : new = Plan(todo)
  OBVIOUS
<1>1. /\ IsRow(new) /\ Len(new) = Len(todo)
      /\ \A k \in 1 .. Len(todo) : new[k] = Goal(todo[k], 0) /\ todo[k] \in Within
  BY PlanIsRow DEF Listed
<1>2. Within \cap (Foreign \cup Blocks \cup {"LBrace"}) = {}
  BY DEF Within, Inner, Operators, Foreign, Blocks
<1>3. \A k \in 1 .. Len(new) : new[k].do \notin Foreign \cup Blocks \cup {"LBrace"}
  <2> SUFFICES ASSUME NEW k \in 1 .. Len(new)
               PROVE  new[k].do \notin Foreign \cup Blocks \cup {"LBrace"}
    OBVIOUS
  <2>1. new[k] = Goal(todo[k], 0) /\ todo[k] \in Within
    BY <1>1, Zenon
  <2>2. Goal(todo[k], 0).do = todo[k]
    BY DEF Goal
  <2> QED
    BY <1>2, <2>1, <2>2
<1>4. goals' = new \o Tail(goals)
  BY DEF Then
<1> QED
  BY <1>1, <1>3, <1>4, InnerKeeps

\* Where a body is parsed, by the innermost goal.
LEMMA AtBody ==
  ASSUME MInv, Parsing, NEW i, NEW s, i = Len(functions) + 1, s = spans[i].start,
         Top.do \notin HeaderGoals \cup {"Module", "Signature", "Skip", "Body", "Finish", "LBrace"}
  PROVE  Typed /\ Opening /\ OpenInv /\ ParsingBody(s) /\ HeaderAt(s, header) /\ s \in Nat
<1>1. ASSUME Scanning PROVE FALSE
  <2> PICK n, r : n = Len(spans) /\ r = spans[n].start
    OBVIOUS
  <2>1. ScanTop(n, r)
    BY <1>1, ScanTops
  <2> QED
    BY <2>1 DEF ScanTop
<1>2. Opening
  BY <1>1 DEF MInv
<1>3. Typed /\ OpenInv /\ s \in Nat /\ OpenTop(i, s)
  BY <1>2, OpenTops
<1>4. ParsingBody(s)
  BY <1>3 DEF OpenTop, Goal
<1> QED
  BY <1>2, <1>3, <1>4 DEF ParsingBody

LEMMA Mirror ==
  \A a, n \in Nat : \A h \in a .. a - 1 + n :
    a + n - h \in 1 .. n /\ (a + n - h = n <=> h = a) /\ (a + n - h = 1 <=> h = a - 1 + n)
OBVIOUS

\* What is known of the new goals, by their places in the stack.
LEMMA NewGoals ==
  ASSUME Height \in Nat, NEW new, Len(new) \in Nat,
         \A h \in Height .. Height - 1 + Len(new) : GoalAt(h)' = new[Height + Len(new) - h],
         \A k \in 1 .. Len(new) :
           /\ new[k].do \notin Foreign /\ (new[k].do \in Blocks <=> k = Len(new))
           /\ new[k].do = "LBrace" <=> k = 1 /\ Top.do = "Body"
  PROVE  \A h \in Height .. Height - 1 + Len(new) :
           /\ GoalAt(h)'.do \notin Foreign
           /\ GoalAt(h)'.do \in Blocks <=> h = Height
           /\ GoalAt(h)'.do = "LBrace" <=> h = Height - 1 + Len(new) /\ Top.do = "Body"
<1> PICK n, m : n = Height /\ m = Len(new)
  OBVIOUS
<1>1. n \in Nat /\ m \in Nat
  OBVIOUS
<1>2. \A h \in n .. n - 1 + m :
         n + m - h \in 1 .. m /\ (n + m - h = m <=> h = n) /\ (n + m - h = 1 <=> h = n - 1 + m)
  <2>1. \A b \in Nat : \A h \in n .. n - 1 + b :
          n + b - h \in 1 .. b /\ (n + b - h = b <=> h = n) /\ (n + b - h = 1 <=> h = n - 1 + b)
    BY <1>1, Mirror, Zenon
  <2> QED
    BY <1>1, <2>1, Zenon
<1> SUFFICES ASSUME NEW h \in n .. n - 1 + m
             PROVE  /\ GoalAt(h)'.do \notin Foreign
                    /\ GoalAt(h)'.do \in Blocks <=> h = n
                    /\ GoalAt(h)'.do = "LBrace" <=> h = n - 1 + m /\ Top.do = "Body"
  BY Zenon
<1> PICK k : k = n + m - h
  OBVIOUS
<1>3. k \in 1 .. m /\ (k = m <=> h = n) /\ (k = 1 <=> h = n - 1 + m)
  BY <1>2, Zenon
<1>4. GoalAt(h)' = new[k]
  BY Zenon
<1> QED
  BY <1>3, <1>4, Zenon

\* A block begins, or a turn of its loop: what it owes is below what it plans.
LEMMA BlockPlanned ==
  ASSUME MInv, Opening, NEW i, NEW s, i = Len(functions) + 1, s = spans[i].start, ParsingBody(s),
         OuterKept, UNCHANGED <<pos, header>>, NEW new, IsRow(new), goals' = new \o Tail(goals),
         Len(new) > 0, Top.do \in Blocks \cup {"Body"},
         \A k \in 1 .. Len(new) :
           /\ new[k].do \notin Foreign /\ (new[k].do \in Blocks <=> k = Len(new))
           /\ new[k].do = "LBrace" <=> k = 1 /\ Top.do = "Body"
  PROVE  MInv'
<1>1. /\ Typed /\ OpenInv /\ i \in DOMAIN spans /\ GoalAt(1) = Goal("Finish", i)
      /\ s \in Nat
  BY OpenTops
<1>2. /\ Height > 1 /\ pos > s /\ GoalAt(2).do \in Blocks
      /\ \A h \in 2 .. Height : /\ GoalAt(h).do \notin Foreign
                                /\ GoalAt(h).do = "LBrace" => h = Height
      /\ OpenBraces(pos) = Cardinality(Owing) - (IF GoalAt(Height).do = "LBrace" THEN 1 ELSE 0)
      /\ Unclosed(s, pos) /\ HeaderAt(s, header)
  BY DEF ParsingBody, Blocks
<1>3. IsRow(goals) /\ Height > 0 /\ Top = GoalAt(Height)
  BY <1>1, <1>2, TopGoal DEF Typed, MInv, Opening
<1>4. /\ IsRow(goals)' /\ Height \in Nat /\ Height' = Height - 1 + Len(new) /\ Len(new) \in Nat
      /\ GoalAt(1)' = GoalAt(1)
      /\ \A h \in 1 .. Height - 1 : GoalAt(h)' = GoalAt(h)
      /\ \A h \in Height .. Height - 1 + Len(new) : GoalAt(h)' = new[Height + Len(new) - h]
      /\ \A h : h \in Owing' <=>
           \/ h \in Owing /\ h # Height
           \/ /\ h \in Height .. Height - 1 + Len(new)
              /\ new[Height + Len(new) - h].do \in Blocks
  BY <1>2, <1>3, OwingStep
<1>5. UNCHANGED tokens /\ pos \in DOMAIN tokens
  BY <1>1 DEF OuterKept, Typed
<1>6. /\ pos' \in DOMAIN tokens' /\ pos' > s /\ Unclosed(s, pos)'
      /\ OpenBraces(pos)' = OpenBraces(pos)
  <2>1. \A k : OpenBraces(k)' = OpenBraces(k) /\ Closes(k)' = Closes(k)
    BY <1>5, SameBraces
  <2> QED
    BY <1>2, <1>5, <2>1 DEF Unclosed, OpenBraces, Before
<1>7. Typed'
  BY <1>1, <1>4, <1>6, TypedKept DEF Typed
<1>8. HeaderAt(s, header)' /\ CallsAgree(header.calls)'
  <2>1. CallsAgree(header.calls) /\ \A c : CallAgrees(c)' <=> CallAgrees(c)
    BY <1>1, SpansKept DEF OpenInv, OuterKept
  <2> QED
    BY <1>2, <1>5, <2>1, HeaderStays DEF CallsAgree
<1>9. \A h \in Height .. Height - 1 + Len(new) :
        /\ GoalAt(h)'.do \notin Foreign
        /\ GoalAt(h)'.do \in Blocks <=> h = Height
        /\ GoalAt(h)'.do = "LBrace" <=> h = Height - 1 + Len(new) /\ Top.do = "Body"
  <2>1. /\ Height \in Nat /\ Len(new) \in Nat
        /\ \A h \in Height .. Height - 1 + Len(new) : GoalAt(h)' = new[Height + Len(new) - h]
    BY <1>4
  <2> QED
    BY <2>1, NewGoals
<1>10. \A h : h \in Owing' <=> h \in Owing \cup {Height}
  <2>1. \A h \in Height .. Height - 1 + Len(new) : GoalAt(h)' = new[Height + Len(new) - h]
    BY <1>4
  <2>2. \A h \in Height .. Height - 1 + Len(new) :
          new[Height + Len(new) - h].do \in Blocks <=> h = Height
    BY <1>9, <2>1
  <2>3. Height \in Height .. Height - 1 + Len(new)
    BY <1>4
  <2> QED
    BY <1>4, <2>2, <2>3
<1>11. Height' > 1 /\ GoalAt(2)'.do \in Blocks
  <2>1. CASE Height = 2
    <3>1. 2 \in Height .. Height - 1 + Len(new)
      BY <1>4, <2>1
    <3> QED
      BY <1>2, <1>4, <1>9, <2>1, <3>1
  <2>2. CASE Height # 2
    <3>1. 2 \in 1 .. Height - 1
      BY <1>2, <1>4, <2>2
    <3> QED
      BY <1>2, <1>4, <3>1
  <2> QED
    BY <2>1, <2>2
<1>12. \A h \in 2 .. Height' : /\ GoalAt(h)'.do \notin Foreign
                               /\ GoalAt(h)'.do = "LBrace" <=> h = Height' /\ Top.do = "Body"
  <2> SUFFICES ASSUME NEW h \in 2 .. Height'
               PROVE  /\ GoalAt(h)'.do \notin Foreign
                      /\ GoalAt(h)'.do = "LBrace" <=> h = Height' /\ Top.do = "Body"
    OBVIOUS
  <2>1. CASE h \in Height .. Height - 1 + Len(new)
    BY <1>4, <1>9, <2>1
  <2>2. CASE h \notin Height .. Height - 1 + Len(new)
    <3>1. h \in 1 .. Height - 1 /\ h \in 2 .. Height /\ h # Height /\ h # Height'
      BY <1>4, <2>2
    <3> QED
      BY <1>2, <1>4, <3>1
  <2> QED
    BY <2>1, <2>2
<1>13. OpenBraces(pos)' = Cardinality(Owing)' - (IF GoalAt(Height)'.do = "LBrace" THEN 1 ELSE 0)
  <2> PICK c, b : c = Cardinality(Owing) /\ b = OpenBraces(pos)
    OBVIOUS
  <2>1. Owing' = Owing \cup {Height} /\ IsFiniteSet(Owing) /\ c \in Nat
    BY <1>4, <1>10, OwingFinite
  <2>2. Top.do # "LBrace" /\ (Height \in Owing <=> Top.do # "Body")
    <3>1. Height \in 2 .. Height
      BY <1>2, <1>4
    <3> QED
      BY <1>3, <3>1 DEF Owing, Blocks
  <2>3. b = c
    BY <1>2, <1>3, <2>1, <2>2
  <2>4. GoalAt(Height)'.do = "LBrace" <=> Top.do = "Body"
    <3>1. Height' \in 2 .. Height'
      BY <1>4, <1>11
    <3>2. \A k : k = Height' => GoalAt(Height)' = GoalAt(k)'
      BY DEF GoalAt
    <3> QED
      BY <1>12, <3>1, <3>2
  <2>5. CASE Top.do = "Body"
    <3>1. Cardinality(Owing \cup {Height}) = c + 1
      BY <2>1, <2>2, <2>5, FS_AddElement
    <3>2. Cardinality(Owing)' = c + 1
      BY <2>1, <3>1, Zenon
    <3> QED
      BY <1>6, <2>1, <2>3, <2>4, <2>5, <3>2
  <2>6. CASE Top.do # "Body"
    <3>1. Owing' = Owing
      BY <2>1, <2>2, <2>6
    <3>2. Cardinality(Owing)' = c
      BY <3>1
    <3> QED
      BY <1>6, <2>1, <2>3, <2>4, <2>6, <3>2
  <2> QED
    BY <2>5, <2>6
<1>14. ParsingBody(s)'
  BY <1>6, <1>8, <1>11, <1>12, <1>13 DEF ParsingBody, Blocks
<1>15. Height' > 0
  BY <1>4, <1>11
<1> QED
  BY <1>1, <1>4, <1>7, <1>8, <1>14, <1>15, StaysOpen

LEMMA BlockRuleKeeps ==
  ASSUME MInv, Opening, NEW i, NEW s, i = Len(functions) + 1, s = spans[i].start, ParsingBody(s),
         OuterKept, UNCHANGED <<pos, header>>, NEW todo, Then(todo),
         \/ Top.do = "Body" /\ todo = <<"LBrace", "Statements">>
         \/ Top.do = "Statements" /\ todo \in {<<"RBrace">>, <<"Statement", "Statements">>}
  PROVE  MInv'
<1> PICK new : new = Plan(todo)
  OBVIOUS
<1>1. goals' = new \o Tail(goals)
  BY DEF Then
<1>2. CASE Top.do = "Body" /\ todo = <<"LBrace", "Statements">>
  <2>1. /\ IsRow(new) /\ Len(new) = 2
        /\ new[1] = Goal("LBrace", 0) /\ new[2] = Goal("Statements", 0)
    BY <1>2 DEF Plan, IsRow
  <2>2. \A k \in 1 .. Len(new) : k = 1 \/ k = 2
    BY <2>1
  <2>3. /\ new[1].do = "LBrace" /\ new[2].do = "Statements"
    BY <2>1 DEF Goal
  <2>4. \A k \in 1 .. Len(new) :
           /\ new[k].do \notin Foreign /\ (new[k].do \in Blocks <=> k = Len(new))
           /\ new[k].do = "LBrace" <=> k = 1 /\ Top.do = "Body"
    BY <1>2, <2>1, <2>2, <2>3 DEF Foreign, Blocks
  <2>5. Len(new) > 0 /\ Top.do \in Blocks \cup {"Body"}
    BY <1>2, <2>1 DEF Blocks
  <2> QED
    BY <1>1, <2>1, <2>4, <2>5, BlockPlanned
<1>3. CASE Top.do = "Statements" /\ todo = <<"RBrace">>
  <2>1. IsRow(new) /\ Len(new) = 1 /\ new[1] = Goal("RBrace", 0)
    BY <1>3 DEF Plan, IsRow
  <2>2. \A k \in 1 .. Len(new) : k = 1
    BY <2>1
  <2>3. new[1].do = "RBrace"
    BY <2>1 DEF Goal
  <2>4. \A k \in 1 .. Len(new) :
           /\ new[k].do \notin Foreign /\ (new[k].do \in Blocks <=> k = Len(new))
           /\ new[k].do = "LBrace" <=> k = 1 /\ Top.do = "Body"
    BY <1>3, <2>1, <2>2, <2>3 DEF Foreign, Blocks
  <2>5. Len(new) > 0 /\ Top.do \in Blocks \cup {"Body"}
    BY <1>3, <2>1 DEF Blocks
  <2> QED
    BY <1>1, <2>1, <2>4, <2>5, BlockPlanned
<1>4. CASE Top.do = "Statements" /\ todo = <<"Statement", "Statements">>
  <2>1. /\ IsRow(new) /\ Len(new) = 2
        /\ new[1] = Goal("Statement", 0) /\ new[2] = Goal("Statements", 0)
    BY <1>4 DEF Plan, IsRow
  <2>2. \A k \in 1 .. Len(new) : k = 1 \/ k = 2
    BY <2>1
  <2>3. new[1].do = "Statement" /\ new[2].do = "Statements"
    BY <2>1 DEF Goal
  <2>4. \A k \in 1 .. Len(new) :
           /\ new[k].do \notin Foreign /\ (new[k].do \in Blocks <=> k = Len(new))
           /\ new[k].do = "LBrace" <=> k = 1 /\ Top.do = "Body"
    BY <1>4, <2>1, <2>2, <2>3 DEF Foreign, Blocks
  <2>5. Len(new) > 0 /\ Top.do \in Blocks \cup {"Body"}
    BY <1>4, <2>1 DEF Blocks
  <2> QED
    BY <1>1, <2>1, <2>4, <2>5, BlockPlanned
<1> QED
  BY <1>2, <1>3, <1>4

\* The goals of a body in place of it.
LEMMA BodyGoals ==
  ASSUME IsRow(goals), Height = 2, GoalAt(2).do = "Body", Then(<<"LBrace", "Statements">>)
  PROVE  /\ IsRow(goals)' /\ Height' = 3 /\ GoalAt(1)' = GoalAt(1)
         /\ GoalAt(2)'.do = "Statements" /\ GoalAt(3)'.do = "LBrace"
         /\ \A h : h \in Owing' <=> h = 2
<1>1. /\ IsRow(<<"LBrace", "Statements">>) /\ Len(<<"LBrace", "Statements">>) = 2
      /\ <<"LBrace", "Statements">>[1] = "LBrace" /\ <<"LBrace", "Statements">>[2] = "Statements"
  BY DEF IsRow
<1> PICK todo : todo = <<"LBrace", "Statements">>
  OBVIOUS
<1>2. /\ IsRow(todo) /\ Len(todo) = 2 /\ todo[1] = "LBrace" /\ todo[2] = "Statements"
  BY <1>1, Zenon
<1>3. /\ IsRow(goals)' /\ Height \in Nat /\ Height' = Height - 1 + Len(todo)
      /\ \A h \in 1 .. Height - 1 : GoalAt(h)' = GoalAt(h)
      /\ \A h \in Height .. Height - 1 + Len(todo) :
           GoalAt(h)' = Goal(todo[Height + Len(todo) - h], 0)
  <2>1. Then(todo)
    BY Zenon
  <2>2. Height > 0
    OBVIOUS
  <2> QED
    BY <1>2, <2>1, <2>2, Planned
<1>4. /\ Height' = 3 /\ GoalAt(1)' = GoalAt(1)
      /\ GoalAt(2)' = Goal(todo[2], 0) /\ GoalAt(3)' = Goal(todo[1], 0)
  <2>1. 2 - 1 + 2 = 3 /\ 1 \in 1 .. 2 - 1 /\ 2 \in 2 .. 2 - 1 + 2 /\ 3 \in 2 .. 2 - 1 + 2
    OBVIOUS
  <2>2. 2 + 2 - 2 = 2 /\ 2 + 2 - 3 = 1
    OBVIOUS
  <2> QED
    BY <1>2, <1>3, <2>1, <2>2, Zenon
<1>5. GoalAt(2)'.do = "Statements" /\ GoalAt(3)'.do = "LBrace"
  BY <1>2, <1>4 DEF Goal
<1>6. \A h : h \in Owing' <=> h = 2
  <2>1. \A h : h \in Owing' <=> h \in 2 .. Height' /\ GoalAt(h)'.do \in {"Statements", "RBrace"}
    BY DEF Owing
  <2>2. \A h : h \in 2 .. Height' <=> h = 2 \/ h = 3
    BY <1>4
  <2> QED
    BY <1>5, <2>1, <2>2
<1> QED
  BY <1>3, <1>4, <1>5, <1>6

\* The body follows its header.
LEMMA BodyBegins ==
  ASSUME MInv, Opening, NEW i, NEW s, i = Len(functions) + 1, s = spans[i].start,
         ParsingHeader(s), Height = 2, OuterKept, UNCHANGED <<pos, header>>,
         Then(<<"LBrace", "Statements">>)
  PROVE  MInv'
<1>1. /\ Typed /\ OpenInv /\ i \in DOMAIN spans /\ GoalAt(1) = Goal("Finish", i)
      /\ s \in Nat
  BY OpenTops
<1>2. /\ IsRow(goals) /\ GoalAt(2).do = "Body" /\ ReadingHeader(s)
      /\ OpenBraces(pos) = 0 /\ Unclosed(s, pos)
  BY <1>1 DEF ParsingHeader, Typed, Goal
<1>3. HeaderAt(s, header) /\ pos > s
  BY <1>2, HeaderDone
<1>4. header \in HeaderRecords
  BY <1>1 DEF Typed
<1>5. /\ IsRow(goals)' /\ Height' = 3 /\ GoalAt(1)' = GoalAt(1)
      /\ GoalAt(2)'.do = "Statements" /\ GoalAt(3)'.do = "LBrace"
      /\ \A h : h \in Owing' <=> h = 2
  BY <1>2, BodyGoals
<1>6. UNCHANGED tokens /\ pos \in DOMAIN tokens /\ header \in HeaderRecords
  BY <1>1 DEF OuterKept, Typed
<1>7. /\ pos' \in DOMAIN tokens' /\ pos' > s /\ Unclosed(s, pos)' /\ OpenBraces(pos)' = 0
  <2>1. \A k : OpenBraces(k)' = OpenBraces(k) /\ Closes(k)' = Closes(k)
    BY <1>6, SameBraces
  <2> QED
    BY <1>2, <1>3, <1>6, <2>1 DEF Unclosed, OpenBraces, Before
<1>8. Typed'
  BY <1>1, <1>5, <1>6, <1>7, TypedKept
<1>9. HeaderAt(s, header)' /\ CallsAgree(header.calls)'
  <2>1. CallsAgree(header.calls) /\ \A c : CallAgrees(c)' <=> CallAgrees(c)
    BY <1>1, SpansKept DEF OpenInv, OuterKept
  <2> QED
    BY <1>3, <1>6, <2>1, HeaderStays DEF CallsAgree
<1>10. ParsingBody(s)'
  <2>1. Cardinality(Owing)' = 1
    <3>1. Owing' = {2}
      BY <1>5
    <3>2. Cardinality({2}) = 1
      BY FS_Singleton
    <3> QED
      BY <3>1, <3>2, Zenon
  <2>2. GoalAt(Height)'.do = "LBrace"
    BY <1>5 DEF GoalAt, Height
  <2>3. OpenBraces(pos)' = Cardinality(Owing)' - (IF GoalAt(Height)'.do = "LBrace" THEN 1 ELSE 0)
    BY <1>7, <2>1, <2>2
  <2>4. \A h \in 2 .. Height' : (h = 2 \/ h = 3) /\ Height' = 3
    BY <1>5
  <2>5. \A h \in 2 .. Height' : /\ GoalAt(h)'.do \notin Foreign
                                /\ GoalAt(h)'.do = "LBrace" => h = Height'
    BY <1>5, <2>4 DEF Foreign
  <2>6. Height' > 1
    BY <1>5
  <2> QED
    BY <1>5, <1>7, <1>9, <2>3, <2>5, <2>6 DEF ParsingBody
<1>11. Height' > 0
  BY <1>5
<1> QED
  BY <1>1, <1>5, <1>8, <1>9, <1>10, <1>11, StaysOpen

LEMMA ExpandKeeps ==
  ASSUME MInv, Expand
  PROVE  MInv'
<1>1. PICK r \in Rules : r.goal = Top.do /\ Then(r.todo)
  BY DEF Expand
<1>2. Parsing /\ OuterKept /\ UNCHANGED <<pos, header>>
  BY DEF Expand, OuterKept
<1>3. r.goal \notin {"Module", "Signature", "Skip", "Finish", "LBrace"}
  BY RuleShapes DEF Plain, Inner
<1>4. CASE Scanning
  <2> PICK n, s : n = Len(spans) /\ s = spans[n].start
    OBVIOUS
  <2>1. Typed /\ ScanInv /\ ScanTop(n, s)
    BY <1>4, ScanTops
  <2>2. ScanningHeader(n, s) /\ Height > 2 /\ ReadingHeader(s)
    BY <1>1, <1>3, <2>1 DEF ScanTop, ScanningHeader
  <2>3. s \in Nat
    BY <2>1, <2>2, SpanFacts DEF ScanningHeader
  <2>4. HeaderGoesOn(s)
    BY <2>1, <2>2, <2>3, HeaderExpand
  <2> QED
    BY <1>4, <2>1, <2>2, <2>4, ScanHeaderKeeps
<1>5. CASE Opening
  <2> PICK i, s : i = Len(functions) + 1 /\ s = spans[i].start
    OBVIOUS
  <2>1. Typed /\ OpenInv /\ s \in Nat /\ OpenTop(i, s)
    BY <1>5, OpenTops
  <2>2. CASE ParsingHeader(s) /\ Height = 2 /\ Top.do = "Body"
    <3>1. r.todo = <<"LBrace", "Statements">>
      BY <1>1, <2>2, RuleShapes DEF Plain, Inner
    <3>2. Then(<<"LBrace", "Statements">>)
      BY <1>1, <3>1
    <3> QED
      BY <1>2, <1>5, <2>2, <3>2, BodyBegins
  <2>3. CASE ParsingHeader(s) /\ Height > 2
    <3>1. HeaderGoesOn(s)
      BY <2>1, <2>3, HeaderExpand DEF ParsingHeader
    <3> QED
      BY <1>5, <2>1, <2>3, <3>1, OpenHeaderKeeps
  <2>4. CASE ParsingBody(s) /\ Top.do \notin Foreign
    <3>1. CASE Plain(r)
      <4>1. Top.do \notin Blocks \cup {"LBrace"} /\ Listed(r.todo, Within)
        BY <1>1, <3>1 DEF Plain, Inner, Blocks
      <4>2. HeaderAt(s, header)' /\ header' \in HeaderRecords /\ CallsAgree(header.calls)'
        <5>1. CallsAgree(header.calls) /\ \A c : CallAgrees(c)' <=> CallAgrees(c)
          BY <1>2, <2>1, SpansKept DEF OpenInv, OuterKept
        <5> QED
          BY <1>2, <2>1, <2>4, <5>1, HeaderStays DEF CallsAgree, ParsingBody, OuterKept, Typed
      <4> QED
        BY <1>1, <1>2, <1>5, <2>4, <4>1, <4>2, InnerPlans
    <3>2. CASE r.goal = "Body" /\ r.todo = <<"LBrace", "Statements">>
      BY <1>1, <1>2, <1>5, <2>4, <3>2, BlockRuleKeeps
    <3>3. CASE r.goal = "Statements" /\ r.todo \in {<<"RBrace">>, <<"Statement", "Statements">>}
      BY <1>1, <1>2, <1>5, <2>4, <3>3, BlockRuleKeeps
    <3>4. r.goal \notin {"Header", "Params", "MoreParams", "Param"}
      BY <1>1, <2>4 DEF Foreign
    <3> QED
      BY <3>1, <3>2, <3>3, <3>4, RuleShapes
  <2>5. ~(Top = Goal("Finish", i))
    BY <1>1, <1>3 DEF Goal
  <2> QED
    BY <2>1, <2>2, <2>3, <2>4, <2>5 DEF OpenTop
<1> QED
  BY <1>2, <1>4, <1>5 DEF MInv

\* What is owed once the innermost goal is done with.
LEMMA OwingDone ==
  ASSUME IsRow(goals), Height > 1, Then(<<>>)
  PROVE  /\ IsRow(goals)' /\ Height \in Nat /\ Height' = Height - 1 /\ GoalAt(1)' = GoalAt(1)
         /\ \A h \in 1 .. Height - 1 : GoalAt(h)' = GoalAt(h)
         /\ \A h : h \in Owing' <=> h \in Owing /\ h # Height
<1>1. /\ IsRow(goals)' /\ Height \in Nat /\ Height' = Height - 1
      /\ \A h \in 1 .. Height - 1 : GoalAt(h)' = GoalAt(h)
  <2>1. Height > 0
    BY DEF Height, IsRow
  <2> QED
    BY <2>1, Done
<1>2. 1 \in 1 .. Height - 1
  BY <1>1
<1>3. \A h : h \in 2 .. Height - 1 <=> h \in 2 .. Height /\ h # Height
  BY <1>1
<1>4. \A h \in 2 .. Height - 1 : h \in 1 .. Height - 1
  BY <1>1
<1>5. \A h : h \in Owing' <=> h \in 2 .. Height - 1 /\ GoalAt(h)'.do \in {"Statements", "RBrace"}
  BY <1>1 DEF Owing
<1>6. \A h : h \in Owing <=> h \in 2 .. Height /\ GoalAt(h).do \in {"Statements", "RBrace"}
  BY DEF Owing
<1>7. \A h : h \in Owing' <=> h \in Owing /\ h # Height
  BY <1>1, <1>3, <1>4, <1>5, <1>6
<1> QED
  BY <1>1, <1>2, <1>7

\* A body's brace is read: what was owed for it is open now.
LEMMA BodyOpens ==
  ASSUME MInv, Opening, NEW i, NEW s, i = Len(functions) + 1, s = spans[i].start, ParsingBody(s),
         Match, Top.do = "LBrace"
  PROVE  MInv'
<1>1. /\ Typed /\ OpenInv /\ i \in DOMAIN spans /\ GoalAt(1) = Goal("Finish", i)
      /\ s \in Nat
  BY OpenTops
<1>2. /\ OuterKept /\ UNCHANGED <<tokens, header, spans>>
      /\ pos' = Advanced /\ Then(<<>>) /\ Next1 = "LBrace"
  BY DEF Match, OuterKept
<1>3. /\ Height > 1 /\ pos > s /\ GoalAt(2).do \in Blocks
      /\ \A h \in 2 .. Height : /\ GoalAt(h).do \notin Foreign
                                /\ GoalAt(h).do = "LBrace" => h = Height
      /\ OpenBraces(pos) = Cardinality(Owing) - (IF GoalAt(Height).do = "LBrace" THEN 1 ELSE 0)
      /\ Unclosed(s, pos) /\ HeaderAt(s, header)
  BY DEF ParsingBody, Blocks
<1>4. IsRow(goals) /\ Height > 0 /\ Top = GoalAt(Height)
  BY <1>1, <1>3, TopGoal DEF Typed, MInv, Opening
<1>5. /\ IsRow(goals)' /\ Height \in Nat /\ Height' = Height - 1 /\ GoalAt(1)' = GoalAt(1)
      /\ \A h \in 1 .. Height - 1 : GoalAt(h)' = GoalAt(h)
      /\ \A h : h \in Owing' <=> h \in Owing /\ h # Height
  BY <1>2, <1>3, <1>4, OwingDone
<1>6. tokens[pos] = "LBrace" /\ Next1 # "Eof" /\ header \in HeaderRecords
  BY <1>1, <1>2, BraceAhead DEF Typed
<1>7. /\ pos' = pos + 1 /\ pos' \in DOMAIN tokens' /\ pos \in Nat \ {0} /\ OpenBraces(pos) \in Int
      /\ OpenBraces(pos)' = OpenBraces(pos) + 1 /\ ~Closes(pos)'
  BY <1>1, <1>2, <1>6, ReadOn
<1>8. Unclosed(s, pos)' /\ pos' > s
  BY <1>1, <1>2, <1>3, <1>6, <1>7, Advances
<1>9. Typed'
  BY <1>1, <1>2, <1>5, <1>6, <1>7, TypedKept
<1>10. HeaderAt(s, header)' /\ CallsAgree(header.calls)'
  <2>1. CallsAgree(header.calls) /\ \A c : CallAgrees(c)' <=> CallAgrees(c)
    BY <1>1, <1>2, SpansKept DEF OpenInv, OuterKept
  <2> QED
    BY <1>2, <1>3, <2>1, HeaderStays DEF CallsAgree
<1>11. Owing' = Owing
  <2>1. Height \notin Owing
    BY <1>4 DEF Owing
  <2>2. \A h : h \in Owing' <=> h \in Owing
    BY <1>5, <2>1
  <2> QED
    BY <2>2
<1>12. Height > 2 /\ Height' > 1 /\ GoalAt(2)' = GoalAt(2)
  <2>1. Height # 2
    BY <1>3, <1>4 DEF Blocks
  <2>2. Height > 2 /\ 2 \in 1 .. Height - 1
    BY <1>3, <1>5, <2>1
  <2> QED
    BY <1>5, <2>2
<1>13. \A h \in 2 .. Height' : GoalAt(h)'.do \notin Foreign \cup {"LBrace"}
  <2>1. \A h \in 2 .. Height' : h \in 1 .. Height - 1 /\ h \in 2 .. Height /\ h # Height
    BY <1>5
  <2> QED
    BY <1>3, <1>5, <2>1
<1>14. OpenBraces(pos)' = Cardinality(Owing)' - (IF GoalAt(Height)'.do = "LBrace" THEN 1 ELSE 0)
  <2> PICK c, b : c = Cardinality(Owing) /\ b = OpenBraces(pos)
    OBVIOUS
  <2>1. b = c - 1 /\ c \in Nat
    BY <1>3, <1>4, <1>5, OwingFinite
  <2>2. Cardinality(Owing)' = c /\ OpenBraces(pos)' = b + 1
    BY <1>7, <1>11
  <2>3. GoalAt(Height)'.do # "LBrace"
    <3>1. Height' \in 2 .. Height'
      BY <1>5, <1>12
    <3>2. \A k : k = Height' => GoalAt(Height)' = GoalAt(k)'
      BY DEF GoalAt
    <3> QED
      BY <1>13, <3>1, <3>2
  <2> QED
    BY <2>1, <2>2, <2>3
<1>15. ParsingBody(s)'
  BY <1>3, <1>8, <1>10, <1>12, <1>13, <1>14 DEF ParsingBody, Blocks
<1>16. Height' > 0
  BY <1>5, <1>12
<1> QED
  BY <1>1, <1>2, <1>5, <1>9, <1>10, <1>15, <1>16, StaysOpen

\* A closing brace is read: one less is owed, and with the last the body ends.
LEMMA BodyCloses ==
  ASSUME MInv, Opening, NEW i, NEW s, i = Len(functions) + 1, s = spans[i].start, ParsingBody(s),
         Match, Top.do = "RBrace"
  PROVE  MInv'
<1>1. /\ Typed /\ OpenInv /\ i \in DOMAIN spans /\ GoalAt(1) = Goal("Finish", i)
      /\ s \in Nat
  BY OpenTops
<1>2. /\ OuterKept /\ UNCHANGED <<tokens, header, spans>>
      /\ pos' = Advanced /\ Then(<<>>) /\ Next1 = "RBrace"
  BY DEF Match, OuterKept
<1>3. /\ Height > 1 /\ pos > s /\ GoalAt(2).do \in {"Statements", "RBrace"}
      /\ \A h \in 2 .. Height : /\ GoalAt(h).do \notin Foreign
                                /\ GoalAt(h).do = "LBrace" => h = Height
      /\ OpenBraces(pos) = Cardinality(Owing) - (IF GoalAt(Height).do = "LBrace" THEN 1 ELSE 0)
      /\ Unclosed(s, pos) /\ HeaderAt(s, header)
  BY DEF ParsingBody
<1>4. IsRow(goals) /\ Height > 0 /\ Top = GoalAt(Height)
  BY <1>1, <1>3, TopGoal DEF Typed, MInv, Opening
<1>5. /\ IsRow(goals)' /\ Height \in Nat /\ Height' = Height - 1 /\ GoalAt(1)' = GoalAt(1)
      /\ \A h \in 1 .. Height - 1 : GoalAt(h)' = GoalAt(h)
      /\ \A h : h \in Owing' <=> h \in Owing /\ h # Height
  BY <1>2, <1>3, <1>4, OwingDone
<1>6. tokens[pos] = "RBrace" /\ Next1 # "Eof" /\ header \in HeaderRecords
  BY <1>1, <1>2, BraceAhead DEF Typed
<1>7. /\ pos' = pos + 1 /\ pos' \in DOMAIN tokens' /\ pos \in Nat \ {0} /\ OpenBraces(pos) \in Int
      /\ OpenBraces(pos)' = OpenBraces(pos) - 1 /\ (Closes(pos)' <=> OpenBraces(pos)' = 0)
  BY <1>1, <1>2, <1>6, ReadOn
<1>8. /\ pos' > s /\ Unclosed(s, pos - 1)' /\ (~Closes(pos)' => Unclosed(s, pos)')
  BY <1>1, <1>2, <1>3, <1>6, <1>7, Advances
<1>9. Typed'
  BY <1>1, <1>2, <1>5, <1>6, <1>7, TypedKept
<1>10. HeaderAt(s, header)' /\ CallsAgree(header.calls)'
  <2>1. CallsAgree(header.calls) /\ \A c : CallAgrees(c)' <=> CallAgrees(c)
    BY <1>1, <1>2, SpansKept DEF OpenInv, OuterKept
  <2> QED
    BY <1>2, <1>3, <2>1, HeaderStays DEF CallsAgree
<1>11. Height \in Owing /\ 2 \in Owing
  <2>1. Height \in 2 .. Height /\ 2 \in 2 .. Height
    BY <1>3, <1>5
  <2> QED
    BY <1>3, <1>4, <2>1 DEF Owing
<1>12. /\ Cardinality(Owing)' \in Nat /\ IsFiniteSet(Owing)'
       /\ OpenBraces(pos)' = Cardinality(Owing)'
  <2> PICK c, b : c = Cardinality(Owing) /\ b = OpenBraces(pos)
    OBVIOUS
  <2>1. b = c /\ c \in Nat /\ IsFiniteSet(Owing)
    BY <1>3, <1>4, <1>5, OwingFinite
  <2>2. Owing' = Owing \ {Height}
    BY <1>5
  <2>3. IsFiniteSet(Owing \ {Height}) /\ Cardinality(Owing \ {Height}) = c - 1
    BY <1>11, <2>1, FS_RemoveElement
  <2>4. IsFiniteSet(Owing)' /\ Cardinality(Owing)' = c - 1
    BY <2>2, <2>3, Zenon
  <2>5. Cardinality(Owing)' \in Nat
    BY <2>4, FS_CardinalityType
  <2> QED
    BY <1>7, <2>1, <2>4, <2>5
<1>13. CASE Height = 2
  <2>1. \A h : h \notin Owing'
    <3>1. \A h \in 2 .. 2 : h = 2
      OBVIOUS
    <3> QED
      BY <1>5, <1>13, <3>1 DEF Owing
  <2>2. Cardinality(Owing)' = 0
    <3>1. Owing' = {}
      BY <2>1
    <3>2. Cardinality({}) = 0
      BY FS_EmptySet
    <3> QED
      BY <3>1, <3>2, Zenon
  <2>3. Closes(pos)' /\ Height' = 1 /\ Height' > 0
    BY <1>5, <1>7, <1>12, <1>13, <2>2
  <2>4. ParsedBody(s)'
    BY <1>8, <1>10, <2>3 DEF ParsedBody
  <2> QED
    BY <1>1, <1>2, <1>5, <1>9, <1>10, <2>3, <2>4, StaysOpen
<1>14. CASE Height # 2
  <2>1. Height > 2 /\ 2 \in 1 .. Height - 1 /\ Height' > 1 /\ Height' > 0
    BY <1>3, <1>5, <1>14
  <2>2. GoalAt(2)' = GoalAt(2)
    BY <1>5, <2>1
  <2>3. ~Closes(pos)'
    <3>1. 2 \in Owing'
      BY <1>5, <1>11, <1>14
    <3>2. Cardinality(Owing)' # 0
      <4>1. \A S : IsFiniteSet(S) /\ Cardinality(S) = 0 => S = {}
        BY FS_EmptySet
      <4> QED
        BY <1>12, <3>1, <4>1
    <3> QED
      BY <1>7, <1>12, <3>2
  <2>4. \A h \in 2 .. Height' : GoalAt(h)'.do \notin Foreign \cup {"LBrace"}
    <3>1. \A h \in 2 .. Height' : h \in 1 .. Height - 1 /\ h \in 2 .. Height /\ h # Height
      BY <1>5
    <3> QED
      BY <1>3, <1>5, <3>1
  <2>5. OpenBraces(pos)' = Cardinality(Owing)' - (IF GoalAt(Height)'.do = "LBrace" THEN 1 ELSE 0)
    <3>1. Height' \in 2 .. Height'
      BY <1>5, <2>1
    <3>2. \A k : k = Height' => GoalAt(Height)' = GoalAt(k)'
      BY DEF GoalAt
    <3>3. GoalAt(Height)'.do # "LBrace"
      BY <2>4, <3>1, <3>2
    <3> QED
      BY <1>12, <3>3
  <2>6. ParsingBody(s)'
    BY <1>3, <1>8, <1>10, <2>1, <2>2, <2>3, <2>4, <2>5 DEF ParsingBody
  <2> QED
    BY <1>1, <1>2, <1>5, <1>9, <1>10, <2>1, <2>6, StaysOpen
<1> QED
  BY <1>13, <1>14

LEMMA MatchKeeps ==
  ASSUME MInv, Match
  PROVE  MInv'
<1>1. Next1 = Top.do /\ pos' = Advanced /\ Then(<<>>) /\ UNCHANGED header
  BY DEF Match
<1>2. Parsing /\ OuterKept /\ Typed
  BY DEF Match, OuterKept, MInv
<1>3. Top.do \notin {"Module", "Signature", "Skip", "Body", "Finish", "Statements"}
  <2>1. Top.do \in Tokens \cup {"ident"}
    BY <1>1, <1>2, NextIsToken
  <2> QED
    BY <2>1 DEF Tokens, TypeTokens, Operators
<1>4. CASE Scanning
  <2> PICK n, s : n = Len(spans) /\ s = spans[n].start
    OBVIOUS
  <2>1. ScanInv /\ ScanTop(n, s)
    BY <1>4, ScanTops
  <2>2. CASE ScanningHeader(n, s) /\ Height > 2
    <3>1. s \in Nat /\ ReadingHeader(s)
      BY <1>2, <2>2, SpanFacts DEF ScanningHeader
    <3>2. HeaderGoesOn(s)
      BY <1>2, <2>2, <3>1, HeaderMatch
    <3> QED
      BY <1>2, <1>4, <2>1, <2>2, <3>2, ScanHeaderKeeps
  <2>3. CASE SkippingBody(n, s) /\ Height = 3 /\ Top.do = "LBrace"
    BY <1>4, <2>3, SkipOpensKeeps
  <2> QED
    BY <1>3, <2>1, <2>2, <2>3 DEF ScanTop
<1>5. CASE Opening
  <2> PICK i, s : i = Len(functions) + 1 /\ s = spans[i].start
    OBVIOUS
  <2>1. OpenInv /\ s \in Nat /\ OpenTop(i, s)
    BY <1>5, OpenTops
  <2>2. CASE ParsingHeader(s) /\ Height > 2
    <3>1. HeaderGoesOn(s)
      BY <1>2, <2>1, <2>2, HeaderMatch DEF ParsingHeader
    <3> QED
      BY <1>2, <1>5, <2>1, <2>2, <3>1, OpenHeaderKeeps
  <2>3. CASE ParsingBody(s) /\ Top.do \notin Foreign
    <3>1. CASE Top.do = "LBrace"
      BY <1>5, <2>3, <3>1, BodyOpens
    <3>2. CASE Top.do = "RBrace"
      BY <1>5, <2>3, <3>2, BodyCloses
    <3>3. CASE Top.do \notin {"LBrace", "RBrace"}
      <4>1. Top.do \notin Blocks \cup {"LBrace"}
        BY <1>3, <3>3 DEF Blocks
      <4>2. HeaderAt(s, header)' /\ header' \in HeaderRecords /\ CallsAgree(header.calls)'
        <5>1. CallsAgree(header.calls) /\ \A c : CallAgrees(c)' <=> CallAgrees(c)
          BY <1>2, <2>1, SpansKept DEF OpenInv, OuterKept
        <5> QED
          BY <1>1, <1>2, <2>3, <5>1, HeaderStays DEF CallsAgree, ParsingBody, OuterKept, Typed
      <4>3. tokens[pos] \notin {"LBrace", "RBrace"} /\ Next1 # "Eof"
        <5>1. Top.do # "Eof"
          BY <2>3 DEF Foreign
        <5> QED
          BY <1>1, <1>2, <3>3, <5>1, BraceAhead
      <4>4. Listed(<<>>, Within)
        BY Lists
      <4> QED
        BY <1>1, <1>2, <1>5, <2>3, <4>1, <4>2, <4>3, <4>4, InnerPlans
    <3> QED
      BY <3>1, <3>2, <3>3
  <2>4. ~(Top = Goal("Finish", i))
    BY <1>3 DEF Goal
  <2> QED
    BY <1>3, <2>1, <2>2, <2>3, <2>4 DEF OpenTop
<1> QED
  BY <1>2, <1>4, <1>5 DEF MInv

-----------------------------------------------------------------------------
(* The other steps.                                                        *)

LEMMA HeaderStepKeeps ==
  ASSUME MInv, Parsing, Top.do \in {"Name", "ParamName", "ParamType", "RetType"},
         \A s \in Nat : ReadingHeader(s) /\ Height > 2 => HeaderGoesOn(s)
  PROVE  MInv'
<1>1. CASE Scanning
  <2> PICK n, s : n = Len(spans) /\ s = spans[n].start
    OBVIOUS
  <2>1. Typed /\ ScanInv /\ ScanTop(n, s)
    BY <1>1, ScanTops
  <2>2. ScanningHeader(n, s) /\ Height > 2
    BY <2>1 DEF ScanTop
  <2>3. s \in Nat /\ ReadingHeader(s)
    BY <2>1, <2>2, SpanFacts DEF ScanningHeader
  <2>4. HeaderGoesOn(s)
    BY <2>2, <2>3
  <2> QED
    BY <1>1, <2>1, <2>2, <2>4, ScanHeaderKeeps
<1>2. CASE Opening
  <2> PICK i, s : i = Len(functions) + 1 /\ s = spans[i].start
    OBVIOUS
  <2>1. Typed /\ OpenInv /\ s \in Nat /\ OpenTop(i, s)
    BY <1>2, OpenTops
  <2>2. ParsingHeader(s) /\ Height > 2
    BY <2>1 DEF OpenTop, Foreign, Goal
  <2>3. HeaderGoesOn(s)
    BY <2>1, <2>2 DEF ParsingHeader
  <2> QED
    BY <1>2, <2>1, <2>2, <2>3, OpenHeaderKeeps
<1> QED
  BY <1>1, <1>2 DEF MInv

LEMMA HeaderTakesKeep ==
  ASSUME MInv, TakeName \/ TakeParamName \/ TakeParamType \/ TakeRetType
  PROVE  MInv'
<1>1. Typed
  BY DEF MInv
<1>2. Parsing /\ Top.do \in {"Name", "ParamName", "ParamType", "RetType"}
  BY DEF TakeName, TakeParamName, TakeParamType, TakeRetType, AtGoal
<1>3. ASSUME NEW s \in Nat, ReadingHeader(s), Height > 2 PROVE HeaderGoesOn(s)
  BY <1>1, <1>3, HeaderTakesName, HeaderTakesParamName, HeaderTakesParamType, HeaderTakesRetType
<1> QED
  BY <1>2, <1>3, HeaderStepKeeps

\* The goals of expressions.
Working == Inner \cup {"WantBool", "WantI64", "Condition", "BoolBool", "IntInt", "IntBool", "PushBool",
                       "PushI64", "Drop", "Assigned", "Returned", "Call"}

LEMMA WorkKeeps ==
  ASSUME MInv, Parsing, Top.do \in Working, OuterKept, NEW new, IsRow(new),
         goals' = new \o Tail(goals),
         \A k \in 1 .. Len(new) : new[k].do \notin Foreign \cup Blocks \cup {"LBrace"},
         header'.name = header.name, header'.params = header.params, header'.ret = header.ret,
         header' \in HeaderRecords, CallsAgree(header'.calls),
         \/ pos' = pos
         \/ Next1 # "Eof" /\ pos' = Advanced /\ tokens[pos] \notin {"LBrace", "RBrace"}
  PROVE  MInv'
<1> PICK i, s : i = Len(functions) + 1 /\ s = spans[i].start
  OBVIOUS
<1>1. /\ Top.do \notin HeaderGoals \cup {"Module", "Signature", "Skip", "Body", "Finish", "LBrace"}
      /\ Top.do \notin Blocks \cup {"LBrace"}
  BY DEF Working, Inner, HeaderGoals, Blocks
<1>2. Typed /\ Opening /\ OpenInv /\ ParsingBody(s) /\ HeaderAt(s, header) /\ s \in Nat
  BY <1>1, AtBody
<1>3. HeaderAt(s, header)'
  BY <1>2, HeaderStays DEF OuterKept
<1>4. CallsAgree(header.calls)'
  BY SpansKept DEF CallsAgree, OuterKept
<1> QED
  BY <1>1, <1>2, <1>3, <1>4, InnerKeeps

LEMMA NoPlan == IsRow(Plan(<<>>)) /\ \A k : k \notin 1 .. Len(Plan(<<>>))
<1>1. Plan(<<>>) = <<>>
  BY DEF Plan
<1>2. IsRow(<<>>) /\ \A k : k \notin 1 .. Len(<<>>)
  BY DEF IsRow
<1> QED
  BY <1>1, <1>2, Zenon

\* Such a step that leaves the header alone and has nothing more to do.
LEMMA WorkDone ==
  ASSUME MInv, Parsing, Top.do \in Working, OuterKept, Then(<<>>), UNCHANGED header,
         \/ pos' = pos
         \/ Next1 # "Eof" /\ pos' = Advanced /\ tokens[pos] \notin {"LBrace", "RBrace"}
  PROVE  MInv'
<1> PICK new, i, s : /\ new = Plan(<<>>) /\ i = Len(functions) + 1 /\ s = spans[i].start
  OBVIOUS
<1>1. IsRow(new) /\ \A k : k \notin 1 .. Len(new)
  BY NoPlan, Zenon
<1>2. goals' = new \o Tail(goals)
  BY DEF Then
<1>3. header \in HeaderRecords /\ CallsAgree(header.calls)
  <2>1. Top.do \notin HeaderGoals \cup {"Module", "Signature", "Skip", "Body", "Finish", "LBrace"}
    BY DEF Working, Inner, HeaderGoals
  <2> QED
    BY <2>1, AtBody DEF OpenInv, Typed
<1>4. \A k \in 1 .. Len(new) : new[k].do \notin Foreign \cup Blocks \cup {"LBrace"}
  BY <1>1
<1>5. header' \in HeaderRecords /\ CallsAgree(header'.calls)
  BY <1>3
<1> QED
  BY <1>1, <1>2, <1>4, <1>5, WorkKeeps

LEMMA CombineKeeps ==
  ASSUME MInv, Combine \/ DropValue
  PROVE  MInv'
<1>1. Parsing /\ Top.do \in Working
  BY DEF Combine, DropValue, AtGoal, Effects, Working
<1>2. OuterKept /\ Then(<<>>) /\ UNCHANGED <<pos, header>>
  BY DEF Combine, DropValue, OuterKept
<1> QED
  BY <1>1, <1>2, WorkDone

\* The token of an operand is no brace.
LEMMA PrimaryAhead ==
  ASSUME Typed, LookAhead \in {"ident", "target", "callee"}
  PROVE  tokens[pos] \in Names /\ tokens[pos] \notin {"LBrace", "RBrace"} /\ Next1 # "Eof"
<1>1. Next1 = "ident"
  <2>1. "ident" \notin Tokens /\ "target" \notin Tokens /\ "callee" \notin Tokens
    BY DEF Tokens, TypeTokens, Operators
  <2>2. Next1 # "ident" => Next1 \in Tokens /\ LookAhead = Next1
    BY NextIsToken, NextFacts
  <2> QED
    BY <2>1, <2>2
<1>2. tokens[pos] \in Names
  BY <1>1, NextFacts
<1>3. {"LBrace", "RBrace"} \subseteq Tokens
  BY DEF Tokens
<1> QED
  BY <1>1, <1>2, <1>3, SourcesAssumption

LEMMA VariableKeeps ==
  ASSUME MInv, NEW ty, Variable(ty)
  PROVE  MInv'
<1>1. Parsing /\ Top.do \in Working
  BY DEF Variable, AtGoal, Working, Inner
<1>2. OuterKept /\ Then(<<>>) /\ UNCHANGED header /\ pos' = Advanced
  BY DEF Variable, OuterKept
<1>3. Next1 # "Eof" /\ tokens[pos] \notin {"LBrace", "RBrace"}
  BY PrimaryAhead DEF MInv, Variable
<1> QED
  BY <1>1, <1>2, <1>3, WorkDone

LEMMA CallGoals ==
  ASSUME NEW c, NEW new, new = Plan(<<"(", "Args", ")">>) \o <<c>>
  PROVE  IsRow(new) /\ \A k \in 1 .. Len(new) : new[k].do \in {"(", "Args", ")", c.do}
<1> PICK p, q : p = Plan(<<"(", "Args", ")">>) /\ q = <<c>>
  OBVIOUS
<1>1. IsRow(p) /\ \A k \in 1 .. Len(p) : p[k].do \in {"(", "Args", ")"}
  <2>1. /\ IsRow(p) /\ Len(p) = 3
        /\ p[1] = Goal("(", 0) /\ p[2] = Goal("Args", 0) /\ p[3] = Goal(")", 0)
    BY DEF Plan, IsRow
  <2>2. \A k \in 1 .. Len(p) : k = 1 \/ k = 2 \/ k = 3
    <3>1. \A k \in 1 .. 3 : k = 1 \/ k = 2 \/ k = 3
      OBVIOUS
    <3> QED
      BY <2>1, <3>1, Zenon
  <2> QED
    BY <2>1, <2>2 DEF Goal
<1>2. IsRow(q) /\ \A k \in 1 .. Len(q) : q[k].do = c.do
  BY DEF IsRow
<1> PICK pq : pq = p \o q
  OBVIOUS
<1>3. /\ IsRow(pq) /\ Len(pq) = Len(p) + Len(q)
      /\ \A k \in 1 .. Len(p) : pq[k] = p[k]
      /\ \A k \in 1 .. Len(q) : pq[Len(p) + k] = q[k]
  BY <1>1, <1>2, Joined
<1>4. ASSUME NEW k \in 1 .. Len(pq) PROVE pq[k].do \in {"(", "Args", ")", c.do}
  <2>1. Len(p) \in Nat /\ Len(q) \in Nat
    BY <1>1, <1>2 DEF IsRow
  <2>2. CASE k \in 1 .. Len(p)
    BY <1>1, <1>3, <2>2
  <2>3. CASE k \notin 1 .. Len(p)
    <3> PICK j : j = k - Len(p)
      OBVIOUS
    <3>1. j \in 1 .. Len(q) /\ k = Len(p) + j
      BY <1>3, <2>1, <2>3
    <3> QED
      BY <1>2, <1>3, <3>1
  <2> QED
    BY <2>2, <2>3
<1>5. new = pq
  BY Zenon
<1> QED
  BY <1>3, <1>4, <1>5, Zenon

LEMMA BeginCallKeeps ==
  ASSUME MInv, BeginCall
  PROVE  MInv'
<1> PICK c, new : c = CallGoal(tokens[pos], Len(types)) /\ new = Plan(<<"(", "Args", ")">>) \o <<c>>
  OBVIOUS
<1>1. Parsing /\ Top.do \in Working /\ Top.do = "Primary"
  BY DEF BeginCall, AtGoal, Working, Inner
<1>2. /\ OuterKept /\ UNCHANGED header /\ pos' = Advanced /\ goals' = new \o Tail(goals)
      /\ Next1 # "Eof" /\ tokens[pos] \notin {"LBrace", "RBrace"}
  BY PrimaryAhead DEF BeginCall, OuterKept, MInv
<1>3. IsRow(new) /\ \A k \in 1 .. Len(new) : new[k].do \in {"(", "Args", ")", c.do}
  BY CallGoals, Zenon
<1>4. \A k \in 1 .. Len(new) : new[k].do \notin Foreign \cup Blocks \cup {"LBrace"}
  <2>1. c.do = "Call"
    BY DEF CallGoal
  <2>2. \A d \in {"(", "Args", ")", "Call"} : d \notin Foreign \cup Blocks \cup {"LBrace"}
    BY DEF Foreign, Blocks
  <2> QED
    BY <1>3, <2>1, <2>2, Zenon
<1>5. header' \in HeaderRecords /\ CallsAgree(header'.calls)
  <2> PICK i, s : i = Len(functions) + 1 /\ s = spans[i].start
    OBVIOUS
  <2>1. Typed /\ OpenInv
    BY <1>1, AtBody DEF HeaderGoals
  <2> QED
    BY <1>2, <2>1 DEF Typed, OpenInv
<1> QED
  BY <1>1, <1>2, <1>3, <1>4, <1>5, WorkKeeps

LEMMA RowEqual ==
  ASSUME NEW S, NEW w \in Seq(S), NEW n, n = Len(w), NEW F, F = [k \in 1 .. n |-> F[k]],
         \A k \in 1 .. n : k \in DOMAIN w => F[k] = w[k]
  PROVE  F = w
<1>1. n \in Nat /\ w = [k \in 1 .. n |-> w[k]] /\ DOMAIN w = 1 .. n
  BY LenProperties
<1> QED
  BY <1>1

LEMMA ResolveCallKeeps ==
  ASSUME MInv, ResolveCall
  PROVE  MInv'
<1> PICK h, c, given : /\ h = header /\ given = GivenTypes
                       /\ c = CallTo(Callee, GivenTypes, sigs[Callee].ret)
  OBVIOUS
<1>1. Parsing /\ Top.do \in Working /\ Top.do = "Call" /\ Callee \in DOMAIN sigs
  BY DEF ResolveCall, AtCall, AtGoal, Known, Working
<1>2. /\ OuterKept /\ pos' = pos /\ Then(<<>>)
      /\ header' = [h EXCEPT !.calls = Append(h.calls, c)]
  BY DEF ResolveCall, EmitCall, OuterKept
<1>3. Typed /\ OpenInv
  <2> PICK i, s : i = Len(functions) + 1 /\ s = spans[i].start
    OBVIOUS
  <2> QED
    BY <1>1, AtBody DEF HeaderGoals
<1>4. h \in HeaderRecords /\ h.calls \in Seq(Calls) /\ CallsAgree(h.calls)
  BY <1>3, HeaderFields DEF Typed, OpenInv
<1>5. given = Wanted /\ Wanted \in Seq(Types)
  <2>1. Wanted \in Seq(Types)
    BY <1>1, <1>3 DEF Wanted, Typed
  <2> PICK w, n : w = Wanted /\ n = Given
    OBVIOUS
  <2>2. /\ n = Len(w) /\ \A k \in 1 .. n : k \in DOMAIN w => given[k] = w[k]
    BY DEF ResolveCall
  <2>3. given = [k \in 1 .. n |-> given[k]]
    BY DEF GivenTypes
  <2> QED
    BY <2>1, <2>2, <2>3, RowEqual
<1>6. c \in Calls /\ CallAgrees(c)
  <2>1. /\ c.callee = Callee /\ c.args = given /\ c.ty = sigs[Callee].ret
        /\ c = [callee |-> c.callee, args |-> c.args, ty |-> c.ty]
    BY DEF CallTo
  <2>2. Callee \in Names /\ sigs[Callee].ret \in Types
    BY <1>1, <1>3 DEF Typed
  <2> QED
    BY <1>1, <1>5, <2>1, <2>2 DEF Calls, CallAgrees, Wanted
<1> PICK cs : cs = Append(h.calls, c)
  OBVIOUS
<1>7. /\ cs \in Seq(Calls) /\ Len(cs) = Len(h.calls) + 1
      /\ \A k \in 1 .. Len(h.calls) : cs[k] = h.calls[k]
      /\ cs[Len(h.calls) + 1] = c
  BY <1>4, <1>6, AppendProperties
<1>8. CallsAgree(cs)
  <2>1. \A k \in DOMAIN cs : k = Len(h.calls) + 1 \/ (k \in 1 .. Len(h.calls) /\ k \in DOMAIN h.calls)
    BY <1>4, <1>7
  <2> QED
    BY <1>4, <1>6, <1>7, <2>1 DEF CallsAgree
<1>9. header' = [name |-> h.name, params |-> h.params, ret |-> h.ret, calls |-> cs]
  BY <1>2, <1>4, HeaderChanged
<1>10. /\ header'.name = header.name /\ header'.params = header.params /\ header'.ret = header.ret
       /\ CallsAgree(header'.calls) /\ header' \in HeaderRecords
  <2>1. header' \in HeaderRecords
    BY <1>4, <1>7, <1>9, HeaderFields, HeaderMade
  <2> QED
    BY <1>8, <1>9, <2>1
<1> PICK new : new = Plan(<<>>)
  OBVIOUS
<1>11. IsRow(new) /\ \A k : k \notin 1 .. Len(new)
  BY NoPlan, Zenon
<1>12. goals' = new \o Tail(goals)
  BY <1>2 DEF Then
<1>13. \A k \in 1 .. Len(new) : new[k].do \notin Foreign \cup Blocks \cup {"LBrace"}
  BY <1>11
<1> QED
  BY <1>1, <1>2, <1>10, <1>11, <1>12, <1>13, WorkKeeps

\* What is refused.
LEMMA RefusalsKeep ==
  ASSUME MInv,
         \/ DuplicateFunction \/ RefuseBody \/ ArgCountMismatch \/ TypeMismatch
         \/ UnexpectedToken \/ DuplicateParameter
  PROVE  MInv'
<1>1. PICK e \in Errors \ {"UndefinedFunction"} : Refuse(e)
  BY DEF DuplicateFunction, RefuseBody, ArgCountMismatch, TypeMismatch, UnexpectedToken,
         DuplicateParameter, Errors
<1> QED
  BY <1>1, Refused

-----------------------------------------------------------------------------
(* The invariant, from the first state on.                                 *)

LEMMA OnlyModule ==
  LET s == Plan(<<"Module">>)
  IN  IsRow(s) /\ Len(s) \in {1} /\ s[1] = Goal("Module", 0)
  BY DEF IsRow, Plan

LEMMA EmptyHeader == NewHeader("") \in HeaderRecords /\ NewHeader("").calls = <<>>
<1>1. ASSUME NEW p \in Seq(ParamTypes), NEW c \in Seq(Calls)
      PROVE  [name |-> "", params |-> p, ret |-> NoType, calls |-> c] \in HeaderRecords
  BY DEF HeaderRecords
<1>2. <<>> \in Seq(ParamTypes) /\ <<>> \in Seq(Calls)
  OBVIOUS
<1>3. [name |-> "", params |-> <<>>, ret |-> NoType, calls |-> <<>>] \in HeaderRecords
  BY <1>1, <1>2
<1> QED
  BY <1>3 DEF NewHeader

LEMMA NothingYet == /\ IsRow(<<>>) /\ <<>> \in Seq(SpanRecords) /\ Len(<<>>) \in {0}
                    /\ \A i : i \notin DOMAIN <<>>
  BY DEF IsRow

LEMMA InitMInv ==
  ASSUME Init
  PROVE  MInv
<1>1. tokens \in Sources /\ status = "parsing"
  BY DEF Init
<1>2. pos \in {1}
  BY DEF Init
<1>3. 1 \in DOMAIN tokens
  <2>1. tokens \in Seq(Tokens \cup Names) /\ tokens # <<>>
    BY <1>1, SourcesAssumption
  <2> QED
    BY <2>1, EmptySeq
<1>4. IsRow(goals) /\ Height \in {1} /\ GoalAt(1) = Goal("Module", 0)
  <2>1. IsRow(goals) /\ Len(goals) \in {1} /\ goals[1] = Goal("Module", 0)
    <3>1. goals = Plan(<<"Module">>)
      BY DEF Init
    <3> QED
      BY <3>1, OnlyModule, Zenon
  <2>2. Len(goals) + 1 - 1 = 1
    BY <2>1
  <2>3. goals[Len(goals) + 1 - 1] = Goal("Module", 0)
    BY <2>1, <2>2, Zenon
  <2> QED
    BY <2>1, <2>3 DEF Height, GoalAt
<1>5. header \in HeaderRecords /\ header.calls = <<>>
  <2>1. header = NewHeader("")
    BY DEF Init
  <2> QED
    BY <2>1, EmptyHeader, Zenon
<1>6. /\ spans \in Seq(SpanRecords) /\ Len(spans) \in {0}
      /\ \A i : i \notin DOMAIN spans
  <2>1. spans = <<>>
    BY DEF Init
  <2> QED
    BY <2>1, NothingYet, Zenon
<1>7. \A f : f \notin DOMAIN sigs
  <2>1. sigs = <<>>
    BY DEF Init
  <2> QED
    BY <2>1, NothingYet, Zenon
<1>8. IsRow(functions) /\ functions = <<>>
  <2>1. functions = <<>>
    BY DEF Init
  <2> QED
    BY <2>1, NothingYet, Zenon
<1>9. Typed
  BY <1>1, <1>2, <1>3, <1>4, <1>5, <1>6, <1>7, <1>8 DEF Typed
<1> PICK n : n = Len(spans)
  OBVIOUS
<1>10. n \in {0} /\ \A i : i \notin 1 .. n
  <2>1. n \in {0}
    BY <1>6, Zenon
  <2> QED
    BY <2>1
<1>11. BetweenHeaders(n)
  <2>1. EndedUpTo(n)
    BY <1>10 DEF EndedUpTo
  <2>2. SignedUpTo(n)
    BY <1>7, <1>10 DEF SignedUpTo
  <2>3. StartOf(n + 1) = 1
    BY <1>10 DEF StartOf
  <2>4. pos = StartOf(n + 1)
    BY <1>2, <2>3
  <2>5. OpenBraces(pos) = 0
    <3>1. pos = 1
      BY <1>2
    <3> QED
      BY <3>1, BraceStart, <1>1, Zenon
  <2>6. Height = 1
    BY <1>4
  <2> QED
    BY <2>6, <2>1, <2>2, <2>4, <2>5 DEF BetweenHeaders
<1>12. FnsFound(pos)
  <2>1. \A k : k \notin 1 .. pos - 1
    BY <1>2
  <2> QED
    BY <2>1 DEF FnsFound
<1>13. \A i \in DOMAIN spans : Started(i)
  BY <1>6, Zenon
<1>14. ScanInv
  BY <1>5, <1>8, <1>11, <1>12, <1>13, Zenon DEF ScanInv
<1>15. Height > 0
  BY <1>4
<1>16. Parsing /\ Scanning /\ ~Opening
  <2>1. GoalAt(1).do = "Module"
    BY <1>4 DEF Goal
  <2> QED
    BY <1>1, <2>1 DEF Parsing, Scanning, Opening
<1>17. ~Accepted
  BY <1>1 DEF Accepted
<1>18. UndefinedMeansNowhere
  BY <1>1 DEF UndefinedMeansNowhere
<1> QED
  BY <1>9, <1>14, <1>15, <1>16, <1>17, <1>18, Zenon DEF MInv

LEMMA SameState ==
  ASSUME MInv, UNCHANGED parserVars
  PROVE  MInv'
<1>1. UNCHANGED <<tokens, pos, goals, types, header, sigs, spans, functions, status>>
  BY DEF parserVars
<1>2. Typed'
  BY <1>1 DEF MInv, Typed, IsRow
<1>3. /\ \A i : Started(i)' <=> Started(i)
      /\ \A m : (EndedUpTo(m)' <=> EndedUpTo(m)) /\ (SignedUpTo(m)' <=> SignedUpTo(m))
      /\ \A p : FnsFound(p)' <=> FnsFound(p)
      /\ \A c : CallAgrees(c)' <=> CallAgrees(c)
      /\ \A i : StartOf(i)' = StartOf(i) /\ NameOf(i)' = NameOf(i)
  BY <1>1, SpansKept
<1>4. /\ \A k : OpenBraces(k)' = OpenBraces(k) /\ Closes(k)' = Closes(k)
      /\ OpenBraces(pos)' = OpenBraces(pos) /\ Closes(pos)' = Closes(pos)
  BY <1>1, SameBraces DEF OpenBraces, Before, Closes
<1>5. \A s : /\ Unclosed(s, pos)' <=> Unclosed(s, pos)
             /\ Unclosed(s, pos - 1)' <=> Unclosed(s, pos - 1)
  BY <1>1, <1>4 DEF Unclosed
<1>6. Height' = Height /\ \A h : GoalAt(h)' = GoalAt(h)
  BY <1>1 DEF Height, GoalAt
<1>7. GoalAt(Height)' = GoalAt(Height)
  BY <1>1 DEF Height, GoalAt
<1>8. \A s : HeaderAt(s, header)' <=> HeaderAt(s, header)
  BY <1>1 DEF HeaderAt, NamedAt, ParamsAt, CommasAt
<1>9. \A top : AtHeader(top)' <=> AtHeader(top)
  BY <1>6 DEF AtHeader
<1>10. \A s, top : Progress(s, top)' <=> Progress(s, top)
  BY <1>1 DEF Progress, HeaderRead, LastNamed, NamedAt, ParamsAt, CommasAt
<1>11. \A s : ReadingHeader(s)' <=> ReadingHeader(s)
  BY <1>1, <1>6, <1>8, <1>9, <1>10 DEF ReadingHeader
<1>12. Owing' = Owing
  BY <1>6 DEF Owing
<1>13. \A n : BetweenHeaders(n)' <=> BetweenHeaders(n)
  BY <1>1, <1>3, <1>4, <1>6 DEF BetweenHeaders
<1>14. \A n, s : ScanningHeader(n, s)' <=> ScanningHeader(n, s)
  BY <1>3, <1>4, <1>5, <1>6, <1>11 DEF ScanningHeader
<1>15. \A n, s : SkippingBody(n, s)' <=> SkippingBody(n, s)
  BY <1>1, <1>3, <1>4, <1>5, <1>6 DEF SkippingBody
<1>16. \A s : ParsingHeader(s)' <=> ParsingHeader(s)
  BY <1>4, <1>5, <1>6, <1>11 DEF ParsingHeader
<1>17. \A s : ParsingBody(s)' <=> ParsingBody(s)
  BY <1>1, <1>4, <1>5, <1>6, <1>7, <1>8, <1>12 DEF ParsingBody
<1>18. \A s : ParsedBody(s)' <=> ParsedBody(s)
  BY <1>1, <1>4, <1>5, <1>6, <1>8 DEF ParsedBody
<1>19. ScanInv => ScanInv'
  BY <1>1, <1>3, <1>13, <1>14, <1>15 DEF ScanInv, FnsFound
<1>20. Scanned => Scanned'
  BY <1>1, ScannedKept
<1>21. \A i : Parsed(i)' <=> Parsed(i)
  BY <1>1, <1>3 DEF Parsed, CallsAgree
<1>22. OpenInv => OpenInv'
  <2>1. CallsAgree(header.calls)' <=> CallsAgree(header.calls)
    BY <1>1, <1>3 DEF CallsAgree
  <2> QED
    BY <1>1, <1>6, <1>16, <1>17, <1>18, <1>20, <1>21, <2>1 DEF OpenInv
<1>23. UndefinedMeansNowhere => UndefinedMeansNowhere'
  BY <1>1, <1>4 DEF UndefinedMeansNowhere, Callee, Top
<1> QED
  BY <1>1, <1>2, <1>6, <1>19, <1>20, <1>21, <1>22, <1>23
     DEF MInv, Scanning, Opening, Parsing, Accepted

LEMMA StepKeeps ==
  ASSUME MInv, [Next]_parserVars
  PROVE  MInv'
<1>1. CASE FirstPass
  BY <1>1, NextHeaderKeeps, TakeSignatureKeeps, RefusalsKeep, SkipTokenKeeps, SkippedKeeps
     DEF FirstPass
<1>2. CASE SecondPass
  BY <1>2, BeginBodiesKeeps, FinishFunctionKeeps, RefusalsKeep, CombineKeeps, VariableKeeps,
     BeginCallKeeps, ResolveCallKeeps, UndefinedRefused DEF SecondPass
<1>3. CASE BothPasses
  BY <1>3, ExpandKeeps, MatchKeeps, RefusalsKeep, HeaderTakesKeep DEF BothPasses
<1>4. CASE UNCHANGED parserVars
  BY <1>4, SameState
<1> QED
  BY <1>1, <1>2, <1>3, <1>4 DEF Next, ParseStep, Stop

\* The strengthening of the properties below holds in every state that
\* parse_module reaches, on every source.
THEOREM ModuleInductive == Spec => []MInv
<1>1. Init => MInv
  BY InitMInv
<1>2. MInv /\ [Next]_parserVars => MInv'
  BY StepKeeps
<1> QED
  BY <1>1, <1>2, PTL DEF Spec

-----------------------------------------------------------------------------
(* What the invariant says of an accepted source.                          *)

\* Every function was parsed, and the last ends where the source does.
LEMMA WhenAccepted ==
  ASSUME MInv, Accepted
  PROVE  /\ Typed /\ Len(functions) = Len(spans)
         /\ DOMAIN functions = 1 .. Len(spans) /\ DOMAIN spans = 1 .. Len(spans)
         /\ Len(spans) \in Nat
         /\ \A i \in 1 .. Len(spans) : Parsed(i) /\ Started(i)
         /\ SignedUpTo(Len(spans)) /\ tokens[StartOf(Len(spans) + 1)] = "Eof"
<1>1. /\ Typed /\ Scanned /\ Len(functions) = Len(spans)
      /\ \A i \in DOMAIN functions : Parsed(i)
  BY DEF MInv
<1>2. IsRow(functions) /\ spans \in Seq(SpanRecords)
  BY <1>1 DEF Typed
<1>3. Len(spans) \in Nat /\ DOMAIN spans = 1 .. Len(spans)
  BY <1>2, LenProperties
<1>4. DOMAIN functions = 1 .. Len(functions)
  BY <1>2 DEF IsRow
<1> PICK n : n = Len(spans)
  OBVIOUS
<1> PICK end : end = StartOf(n + 1)
  OBVIOUS
<1>5. ScannedTo(n, end)
  BY <1>1 DEF Scanned
<1>6. SignedUpTo(n) /\ tokens[end] = "Eof" /\ \A i \in DOMAIN spans : Started(i)
  BY <1>5 DEF ScannedTo
<1> QED
  BY <1>1, <1>3, <1>4, <1>6, Zenon

LEMMA SpansCover ==
  ASSUME MInv
  PROVE  EveryTokenParsed
<1> SUFFICES ASSUME Accepted
             PROVE  /\ Len(functions) = Len(spans)
                    /\ \A i \in DOMAIN functions : functions[i].end = spans[i].end
                    /\ \A i \in DOMAIN spans :
                         spans[i].start = IF i = 1 THEN 1 ELSE spans[i - 1].end
                    /\ tokens[IF spans = <<>> THEN 1 ELSE spans[Len(spans)].end] = "Eof"
  BY DEF EveryTokenParsed
<1>1. /\ Typed /\ Len(functions) = Len(spans)
      /\ DOMAIN functions = 1 .. Len(spans) /\ DOMAIN spans = 1 .. Len(spans)
      /\ \A i \in 1 .. Len(spans) : Parsed(i) /\ Started(i)
      /\ tokens[StartOf(Len(spans) + 1)] = "Eof"
  BY WhenAccepted
<1>2. \A i \in DOMAIN functions : functions[i].end = spans[i].end
  BY <1>1, Zenon DEF Parsed
<1>3. \A i \in DOMAIN spans : spans[i].start = IF i = 1 THEN 1 ELSE spans[i - 1].end
  BY <1>1, Zenon DEF Started, StartOf
<1>4. StartOf(Len(spans) + 1) = IF spans = <<>> THEN 1 ELSE spans[Len(spans)].end
  <2>1. spans \in Seq(SpanRecords)
    BY <1>1 DEF Typed
  <2>2. Len(spans) \in Nat /\ (spans = <<>> <=> Len(spans) = 0)
    BY <2>1, EmptySeq, LenProperties
  <2>3. (Len(spans) + 1) - 1 = Len(spans) /\ (Len(spans) + 1 = 1 <=> Len(spans) = 0)
    BY <2>2
  <2> QED
    BY <2>2, <2>3, Zenon DEF StartOf
<1> QED
  BY <1>1, <1>2, <1>3, <1>4, Zenon

LEMMA NamesDescribe ==
  ASSUME MInv, Accepted
  PROVE  /\ \A i, j \in DOMAIN functions : functions[i].name = functions[j].name => i = j
         /\ \A i \in DOMAIN functions :
              sigs[functions[i].name] = [params |-> functions[i].params, ret |-> functions[i].ret]
         /\ DOMAIN sigs = {functions[i].name : i \in DOMAIN functions}
<1> PICK n : n = Len(spans)
  OBVIOUS
<1>1. /\ DOMAIN functions = 1 .. n /\ \A i \in 1 .. n : Parsed(i)
      /\ SignedUpTo(n)
  BY WhenAccepted
<1>2. /\ DOMAIN sigs = {NameOf(i) : i \in 1 .. n}
      /\ \A i, j \in 1 .. n : NameOf(i) = NameOf(j) => i = j
  BY <1>1 DEF SignedUpTo
<1>3. \A i \in 1 .. n :
        /\ functions[i].name = NameOf(i)
        /\ sigs[NameOf(i)] = [params |-> functions[i].params, ret |-> functions[i].ret]
  BY <1>1 DEF Parsed
<1>4. DOMAIN sigs = {functions[i].name : i \in DOMAIN functions}
  <2>1. {functions[i].name : i \in 1 .. n} = {NameOf(i) : i \in 1 .. n}
    <3>1. \A i \in 1 .. n : functions[i].name = NameOf(i)
      BY <1>3
    <3> QED
      BY <3>1
  <2> QED
    BY <1>1, <1>2, <2>1, Zenon
<1>5. \A i, j \in 1 .. n : functions[i].name = functions[j].name => i = j
  <2> SUFFICES ASSUME NEW i \in 1 .. n, NEW j \in 1 .. n, functions[i].name = functions[j].name
               PROVE  i = j
    OBVIOUS
  <2>1. functions[i].name = NameOf(i) /\ functions[j].name = NameOf(j)
    BY <1>3, Zenon
  <2>2. NameOf(i) = NameOf(j)
    BY <2>1, Zenon
  <2> QED
    BY <1>2, <2>2, Zenon
<1>6. \A i \in 1 .. n :
        sigs[functions[i].name] = [params |-> functions[i].params, ret |-> functions[i].ret]
  BY <1>3, Zenon
<1> QED
  BY <1>1, <1>4, <1>5, <1>6, Zenon

LEMMA CallsPass ==
  ASSUME MInv, Accepted, NEW i \in DOMAIN functions, NEW k \in DOMAIN functions[i].calls
  PROVE  CallErrors(functions, functions[i].calls[k]) = {}
<1> PICK c : c = functions[i].calls[k]
  OBVIOUS
<1>1. CallAgrees(c)
  <2>1. Parsed(i)
    BY WhenAccepted
  <2> QED
    BY <2>1 DEF Parsed, CallsAgree
<1>2. c.callee \in DOMAIN sigs /\ c.args = sigs[c.callee].params /\ c.ty = sigs[c.callee].ret
  BY <1>1 DEF CallAgrees
<1>3. PICK j \in DOMAIN functions : functions[j].name = c.callee
  BY <1>2, NamesDescribe
<1>4. \A g \in DOMAIN functions : functions[g].name = c.callee => g = j
  BY <1>3, NamesDescribe
<1>5. Named(functions, c.callee) = {j}
  <2>1. \A g \in 1 .. j - 1 : functions[g].name # c.callee
    <3> SUFFICES ASSUME NEW g \in 1 .. j - 1, functions[g].name = c.callee PROVE FALSE
      OBVIOUS
    <3>1. DOMAIN functions = 1 .. Len(spans) /\ Len(spans) \in Nat
      BY WhenAccepted
    <3>2. g \in DOMAIN functions /\ g # j
      BY <3>1
    <3> QED
      BY <1>4, <3>2
  <2> QED
    BY <1>3, <1>4, <2>1 DEF Named
<1>6. FunctionNamed(functions, c.callee) = functions[j]
  BY <1>5 DEF FunctionNamed
<1>7. functions[j].params = c.args /\ functions[j].ret = c.ty
  <2>1. sigs[functions[j].name] = [params |-> functions[j].params, ret |-> functions[j].ret]
    BY <1>3, NamesDescribe
  <2>2. sigs[c.callee] = [params |-> functions[j].params, ret |-> functions[j].ret]
    BY <1>3, <2>1, Zenon
  <2> QED
    BY <1>2, <2>2
<1>8. CallErrors(functions, c) = {}
  BY <1>5, <1>6, <1>7 DEF CallErrors
<1> QED
  BY <1>8

-----------------------------------------------------------------------------
(* The properties that the runs check, for every source.                   *)

\* The second pass, which goes back to where the first pass found each header,
\* ends every body where the first pass ended it, so that every token of an
\* accepted source belongs to exactly one function that was parsed.
THEOREM EveryTokenIsParsed == Spec => []EveryTokenParsed
  BY ModuleInductive, SpansCover, PTL

\* The calls of an accepted module are calls that validate_module accepts: the
\* function they name is there, and has their arguments' types and their type.
THEOREM CallsOfModuleAreValid == Spec => []CallsAreValid
<1>1. MInv => CallsAreValid
  BY CallsPass DEF CallsAreValid, ModuleCallErrors
<1> QED
  BY <1>1, ModuleInductive, PTL

\* The functions handed on have distinct names, and each has the signature that
\* the calls to it were checked against.
THEOREM SignaturesAreTrue == Spec => []SignaturesDescribe
<1>1. MInv => SignaturesDescribe
  BY NamesDescribe, Zenon DEF SignaturesDescribe
<1> QED
  BY <1>1, ModuleInductive, PTL

\* A call is refused as undefined only if no function of the source has the
\* name, whether before or behind the call.
THEOREM UndefinedIsNowhere == Spec => []UndefinedMeansNowhere
<1>1. MInv => UndefinedMeansNowhere
  BY DEF MInv
<1> QED
  BY <1>1, ModuleInductive, PTL
=============================================================================
