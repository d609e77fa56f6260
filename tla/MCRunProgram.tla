---------------------------- MODULE MCRunProgram ----------------------------
(***************************************************************************)
(* Modules for the linking run: small functions and what lower_function    *)
(* makes of their control flow.                                            *)
(***************************************************************************)
EXTENDS RunProgram, SequencesExt

Pending(op, to, callee, b, n) == [op |-> op, to |-> to, callee |-> callee, at |-> <<b, n>>]

\* The pending blocks of one block: one up to each call, and those of the
\* terminator, where a branch falls through to a thunk for its then edge.
OfTerminator(t, b, n) ==
  CASE t.op = "jump"   -> <<Pending("jmp", t.to[1], "", b, n)>>
    [] t.op = "branch" -> <<Pending("jz", t.to[2], "", b, n),
                             Pending("jmp", t.to[1], "", b, n)>>
    [] OTHER           -> <<Pending("ret", 0, "", b, n)>>
OfBlock(f, b) ==
  [n \in DOMAIN f.inBlock[b] |-> Pending("call", 0, f.calls[f.inBlock[b][n]].callee, b, n - 1)]
  \o OfTerminator(f.term[b], b, Len(f.inBlock[b]))

Lowered(f) ==
  LET upTo(b) == FlattenSeq([c \in 1 .. b |-> OfBlock(f, c)])
  IN  [name |-> f.name, params |-> f.params, ret |-> f.ret, calls |-> f.calls,
       inBlock |-> f.inBlock, term |-> f.term,
       code |-> upTo(Len(f.term)),
       local |-> [b \in DOMAIN f.term |-> Len(upTo(b - 1))]]

-----------------------------------------------------------------------------
Straight == <<Return(0)>>
IfElse   == <<Branch(0, 2, 3), Jump(4), Jump(4), Return(0)>>
Loop     == <<Jump(2), Branch(0, 3, 4), Jump(2), Return(0)>>

\* At most one call in each of two blocks of the graph, or two in one.
Callees == {"main", "f", "g"}
Placements(term) ==
  {[b \in DOMAIN term |-> <<>>]}
  \cup {[b \in DOMAIN term |-> IF b = c THEN <<1>> ELSE <<>>] : c \in DOMAIN term}
  \cup {[b \in DOMAIN term |-> IF b = Len(term) THEN <<1, 2>> ELSE <<>>]}
CallCount(inBlock) == Len(FlattenSeq(inBlock))

FunctionsOf(name, terms, params) ==
  UNION {UNION {{Lowered([name |-> name, params |-> params, ret |-> "i64", term |-> term,
                          inBlock |-> place,
                          calls |-> [k \in DOMAIN callees |-> CallTo(callees[k], <<>>, "i64")]]) :
                   callees \in [1 .. CallCount(place) -> Callees]}
                : place \in Placements(term)}
         : term \in terms}

Mains  == FunctionsOf("main", {Straight, IfElse}, <<>>)
Others == FunctionsOf("f", {Straight, Loop}, <<>>)
WithParameters(n) == FunctionsOf("f", {Straight}, [k \in 1 .. n |-> "i64"])

SmallModules ==
  {<<>>} \cup {<<m>> : m \in Mains} \cup {<<f>> : f \in WithParameters(1) \cup WithParameters(4)}
  \cup {<<m, f>> : m \in Mains, f \in Others} \cup {<<f, m>> : m \in Mains, f \in Others}
  \cup {<<m, f>> : m \in FunctionsOf("main", {Straight}, <<>>),
                   f \in WithParameters(2) \cup WithParameters(4)}
  \cup {<<m, f, g>> : m \in FunctionsOf("main", {Straight}, <<>>),
                      f \in FunctionsOf("f", {Straight}, <<>>),
                      g \in FunctionsOf("g", {Straight}, <<>>)}
=============================================================================
