----------------------------- MODULE ParserProps -----------------------------
(***************************************************************************)
(* What the function parser and its SSA builder promise, at every moment   *)
(* of a parse and about the function it hands on.                          *)
(***************************************************************************)
EXTENDS FunctionParser, Validate, Dominance

TypeOK ==
  /\ BuilderTypeOK
  /\ mode \in {"stmt", "operand", "reading", "value", "done"} \cup Errors
  /\ ety \in Types \cup {NoType}
  /\ cur \in Blocks
  /\ scopes \in Seq([Vars -> Types \cup {NoType}])
  /\ ctl \in Seq([k : Bodies \cup {"if", "elseif", "while", "let", "assign", "return",
                                   "expr", "name", "bin", "and", "or"},
                  x : Vars \cup {""}, b : Blocks \cup {0}, c : Blocks \cup {0},
                  v : Values \cup {NoValue}])
  /\ stmts \in 0 .. MaxStatements
  /\ Len(log) = LastBlock(bld)

-----------------------------------------------------------------------------
(* The builder's bookkeeping of edges.                                     *)

\* terminate is "the single place edges enter self.preds": the recorded
\* predecessors of a block are those of the graph, edge for edge.
EdgesAgree ==
  \A b \in Blocks :
    /\ {bld.preds[b][k] : k \in DOMAIN bld.preds[b]} = Predecessors(bld.term, b)
    /\ Len(bld.preds[b]) = PredecessorCount(bld.term, b)

\* seal_block is only called when every edge into the block has been added.
SealedPredecessorsStay ==
  [][\A b \in bld.sealed : bld'.preds[b] = bld.preds[b]]_vars

\* Once a block has ended, nothing the parser does later ends it differently
\* or changes what it did before: no new instruction enters it, except the
\* phis that variable reads from later blocks put at its head.
Ended == {b \in Blocks : IsTerminated(bld, b)}
EndedBlocksStay ==
  [][/\ \A b \in Ended : bld'.term[b] = bld.term[b]
     /\ \A v \in DOMAIN bld'.inst \ Values :
          bld'.inst[v].block \in Ended => bld'.inst[v].kind = "phi"]_vars

-----------------------------------------------------------------------------
(* read_variable and seal_block.                                           *)

\* seal_block forgets a block's incomplete phis before it resolves them, and
\* marks the block sealed only afterwards: no read in between may park
\* another one, or it would stay empty for good.
NoParkedPhiLeft ==
  /\ \A b \in bld.sealed : bld.pending[b] = <<>>
  /\ \A i \in DOMAIN work : work[i].op = "seal" => bld.pending[work[i].b] = <<>>

\* The [] arm of read_variable_recursive "is not expected to be hit": a read
\* that reaches a sealed block without a binding has predecessors to go to.
ReadsFindADefinition == SealedRead => bld.preds[Top.b] # <<>>

\* The phi is bound before its operands are read, "so a cycle terminates":
\* no read of a variable in a block waits on another read of the same pair.
NoReadWaitsOnItself ==
  \A i, j \in DOMAIN work :
    /\ i # j /\ work[i].op = "write" /\ work[j].op \in {"write", "read"}
    /\ work[i].x = work[j].x /\ work[i].b = work[j].b
    => BindingOf(work[i].x, work[i].b) # NoValue

\* Every call into the builder returns to the parser.
CallsReturn == work # <<>> ~> work = <<>>

-----------------------------------------------------------------------------
(* The function handed on.                                                 *)

Accepted == mode = "done"

\* parse promises "a validated ir::Module": what it accepts, the validator
\* accepts.
AcceptedIsValid == Accepted => ValidationErrors(bld, RetType) = {}

\* Every phi has exactly one operand for every edge into its block, which the
\* interpreter and the code generator look up without a fallback.
PhisCoverPredecessors ==
  Accepted =>
    \A v \in Values : bld.inst[v].kind = "phi" =>
      /\ bld.inst[v].from = bld.preds[bld.inst[v].block]
      /\ Len(bld.inst[v].args) = Len(bld.inst[v].from)
      /\ \A p \in Predecessors(bld.term, bld.inst[v].block) : PhiCovers(bld.inst[v], p)

\* A value is available where it is read.  validate.rs documents that it does
\* not check this; the interpreter indexes its environment and would panic.
DefinitionsDominateUses == Accepted => UsesDominated(bld)

\* No branch leads to a block with other predecessors, so no phi is resolved
\* on a branch edge: lower emits the else edge's copies before the Jz, where
\* they would run on both edges.
NoCriticalEdge == Accepted => BranchesReachNoJoin(bld)

\* Every block can be reached from the entry.
NoDeadBlock == Accepted => ReachableAvoiding(bld, 0) = Blocks
=============================================================================
