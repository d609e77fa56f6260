------------------------------ MODULE Dominance ------------------------------
(***************************************************************************)
(* Facts about the control-flow graph of a function g = [inst, term] that  *)
(* the validator documents it does not check and that the interpreter and  *)
(* the code generator rely on.                                             *)
(***************************************************************************)
EXTENDS Ir

\* Blocks reachable from the entry without passing through block a.
ReachableAvoiding(g, a) ==
  LET step[n \in Nat] ==
        IF n = 0 THEN {1} \ {a}
        ELSE LET seen == step[n - 1]
             IN  seen \cup ((UNION {Successors(g.term[b]) : b \in seen}) \ {a})
  IN  step[Len(g.term)]

\* Every operand is available where it is read; a phi reads its operands at
\* the end of the predecessors.
UsesDominated(g) ==
  LET dominated == [a \in DOMAIN g.term |-> DOMAIN g.term \ ReachableAvoiding(g, a)]
  IN  /\ \A v \in DOMAIN g.inst : \A k \in DOMAIN g.inst[v].args :
           LET i == g.inst[v]
               a == i.args[k]
               home == g.inst[a].block
           IN  IF i.kind = "phi"
               THEN i.from[k] \in dominated[home]
               ELSE /\ i.block \in dominated[home]
                    /\ home = i.block /\ g.inst[a].kind # "phi" => a < v
      /\ \A b \in DOMAIN g.term :
           g.term[b].arg # NoValue => b \in dominated[g.inst[g.term[b].arg].block]

\* A branch only leads to blocks without phis and without other predecessors.
BranchesReachNoJoin(g) ==
  \A b \in DOMAIN g.term : g.term[b].op = "branch" =>
    \A s \in Successors(g.term[b]) :
      PredecessorCount(g.term, s) = 1 /\ PhisOf(g.inst, s) = {}
=============================================================================
