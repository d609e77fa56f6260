--------------------------- MODULE SmallFunctions ---------------------------
(***************************************************************************)
(* A family of small validated functions for the model-checking runs of    *)
(* the code generator: every placement of NumValues instructions over a    *)
(* few control-flow graphs.  Value 1 is a parameter; every other value is  *)
(* an instruction with at most one operand, or a phi at a join.            *)
(***************************************************************************)
EXTENDS Validate, Dominance

\* The graphs, with c for every condition and r for the returned value: a
\* diamond, a while loop, a loop whose test ends its body, two nested loops.
Diamond(c, r)  == <<Branch(c, 2, 3), Jump(4), Jump(4), Return(r)>>
While(c, r)    == <<Jump(2), Branch(c, 3, 4), Jump(2), Return(r)>>
DoWhile(c, r)  == <<Jump(2), Branch(c, 2, 3), Return(r)>>
Nested(c, r)   == <<Jump(2), Branch(c, 3, 5), Branch(c, 4, 2), Jump(3), Return(r)>>

Inst(b, kind, args, from) ==
  [block |-> b, kind |-> kind, ty |-> "bool", args |-> args, from |-> from]
Param == Inst(1, "param", <<>>, <<>>)

\* The predecessors of b in block order, as Function::predecessors lists them.
PredecessorSeq(term, b) ==
  SelectSeq([p \in DOMAIN term |-> p], LAMBDA p : b \in Successors(term[p]))

Ops(term, n) == {Inst(b, "op", args, <<>>) :
                   b \in DOMAIN term, args \in {<<>>} \cup {<<v>> : v \in 1 .. n}}
Phis(term, n) ==
  UNION {LET preds == PredecessorSeq(term, b)
         IN  IF Len(preds) < 2 THEN {}
             ELSE {Inst(b, "phi", args, preds) : args \in [DOMAIN preds -> 1 .. n]}
         : b \in DOMAIN term}

\* Every function over one of the graphs with one parameter and n - 1 instructions.
FunctionsOver(terms, n) ==
  LET kinds  == UNION {Ops(term, n) \cup Phis(term, n) : term \in terms}
      bodies == [1 .. n - 1 -> kinds]
      fits(g) == \A v \in 2 .. n :
                   /\ g.inst[v].block \in DOMAIN g.term
                   /\ g.inst[v].kind = "phi" =>
                        g.inst[v].from = PredecessorSeq(g.term, g.inst[v].block)
  IN  {g \in {[inst |-> <<Param>> \o body, term |-> term] : term \in terms, body \in bodies} :
         fits(g)}

Valid(g) == ValidationErrors(g, "bool") = {}
=============================================================================
