--------------------------------- MODULE Ir ---------------------------------
(***************************************************************************)
(* The data of crates/ir: blocks, terminators and instructions of one      *)
(* function.  Blocks and values are numbered from 1 (BlockId(n) of the     *)
(* code is n + 1 here), so a function's blocks are a sequence of           *)
(* terminators and its values a sequence of instructions: the code gives   *)
(* value ids out in increasing order and appends every instruction to its  *)
(* block, so the instructions of a block are the ones that name it, in the *)
(* order of their ids.                                                     *)
(*                                                                         *)
(* A terminator is [op, arg, to]: the value it reads (0 for none) and its  *)
(* targets, "none" standing for the Option that is still None.  An         *)
(* instruction is [block, kind, ty, args, from]; only a phi has a          *)
(* non-empty "from", whose k-th block is the predecessor args[k] comes     *)
(* from.  A ConstBool short-circuit evaluation emits is "true" or "false". *)
(* Other constants are "constant", Un is "unary", and Bin "arithmetic" or  *)
(* "comparison"; "op" stands for any of these where types do not matter.   *)
(***************************************************************************)
EXTENDS Naturals, Sequences, FiniteSets

NoValue == 0

NoTerm          == [op |-> "none",   arg |-> NoValue, to |-> <<>>]
Jump(b)         == [op |-> "jump",   arg |-> NoValue, to |-> <<b>>]
Branch(c, t, e) == [op |-> "branch", arg |-> c,       to |-> <<t, e>>]
Return(v)       == [op |-> "return", arg |-> v,       to |-> <<>>]

Computed == {"constant", "unary", "arithmetic", "comparison", "op"}
InstKinds == Computed \cup {"param", "call", "true", "false", "phi"}

\* Every block a terminator can transfer control to.
Successors(t) == {t.to[k] : k \in DOMAIN t.to}

\* The edges of a terminator into block b: a Branch can have two.
EdgesTo(t, b) == {k \in DOMAIN t.to : t.to[k] = b}

\* Function::predecessors, as a set and as the length of its vector.
Predecessors(term, b) == {p \in DOMAIN term : b \in Successors(term[p])}
PredecessorCount(term, b) ==
  Cardinality(UNION {{<<p, k>> : k \in EdgesTo(term[p], b)} : p \in DOMAIN term})

\* The values a block's instructions define, the phis among them.  Parameters
\* are numbered with the values of the entry block but are not instructions.
DefinedIn(inst, b) == {v \in DOMAIN inst : inst[v].block = b /\ inst[v].kind # "param"}
PhisOf(inst, b)    == {v \in DefinedIn(inst, b) : inst[v].kind = "phi"}

\* A phi's operand for predecessor p: "find" takes the first entry.
FirstFrom(i, p)  == {k \in DOMAIN i.from : /\ i.from[k] = p
                                           /\ \A j \in 1 .. k - 1 : i.from[j] # p}
PhiCovers(i, p)  == FirstFrom(i, p) # {}
PhiOperand(i, p) == i.args[CHOOSE k \in FirstFrom(i, p) : TRUE]

\* A function as the code generator receives it: every name resolves, the
\* operands of a phi are paired with blocks, and the parameters are the first
\* values.
IsFunction(g) ==
  /\ g.term \in Seq([op : {"none", "jump", "branch", "return"},
                     arg : DOMAIN g.inst \cup {NoValue}, to : Seq(DOMAIN g.term)])
  /\ g.inst \in Seq([block : DOMAIN g.term, kind : InstKinds, ty : {"bool", "i64"},
                     args : Seq(DOMAIN g.inst), from : Seq(DOMAIN g.term)])
  /\ \A v \in DOMAIN g.inst : g.inst[v].kind = "phi" =>
       DOMAIN g.inst[v].from = DOMAIN g.inst[v].args
  /\ \E n \in 0 .. Len(g.inst) :
       \A v \in DOMAIN g.inst : g.inst[v].kind = "param" <=> v <= n
=============================================================================
