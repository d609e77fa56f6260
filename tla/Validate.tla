------------------------------ MODULE Validate ------------------------------
(***************************************************************************)
(* validate_function of crates/ir/src/validate.rs, as the set of errors it *)
(* could report for a function [inst, term] with the given return type;    *)
(* the code stops at the first of them, so it accepts exactly when the set *)
(* is empty.  Duplicate block and value ids cannot be written in the       *)
(* representation of module Ir.                                            *)
(***************************************************************************)
EXTENDS Ir

\* check_operand
OperandErrors(inst, v, ty) ==
  IF v \notin DOMAIN inst THEN {"UndefinedValue"}
  ELSE IF inst[v].ty # ty THEN {"TypeMismatch"} ELSE {}

\* A phi has as many entries as its block has predecessors, each naming one of
\* them, each with an operand of the phi's type.
PhiErrors(fn, v) ==
  LET i == fn.inst[v]
      preds == Predecessors(fn.term, i.block)
  IN  (IF Len(i.args) = PredecessorCount(fn.term, i.block)
          THEN {} ELSE {"PhiArityMismatch"})
      \cup (IF \A k \in DOMAIN i.from : i.from[k] \in preds
               THEN {} ELSE {"PhiUnknownPredecessor"})
      \cup UNION {OperandErrors(fn.inst, i.args[k], i.ty) : k \in DOMAIN i.args}

\* operand_type and result_type: negation and not, the two unary operators,
\* keep the type of their operand.
OperatorErrors(inst, i) ==
  LET wanted == IF i.kind = "unary" THEN i.ty ELSE "i64"
      result == CASE i.kind = "unary"      -> i.ty
                  [] i.kind = "arithmetic" -> "i64"
                  [] i.kind = "comparison" -> "bool"
  IN  UNION {OperandErrors(inst, i.args[k], wanted) : k \in DOMAIN i.args}
      \cup (IF i.ty = result THEN {} ELSE {"TypeMismatch"})

InstructionErrors(fn, v) ==
  LET i == fn.inst[v]
  IN  CASE i.kind = "phi"             -> PhiErrors(fn, v)
        [] i.kind \in {"true", "false"} -> IF i.ty = "bool" THEN {} ELSE {"TypeMismatch"}
        [] i.kind \in {"unary", "arithmetic", "comparison"} -> OperatorErrors(fn.inst, i)
        [] OTHER -> IF \A k \in DOMAIN i.args : i.args[k] \in DOMAIN fn.inst
                    THEN {} ELSE {"UndefinedValue"}

TerminatorErrors(fn, b, retType) ==
  LET t == fn.term[b]
  IN  CASE t.op = "none" -> {IF DefinedIn(fn.inst, b) = {} THEN "EmptyBlock"
                             ELSE "MissingTerminator"}
        [] t.op = "return" -> OperandErrors(fn.inst, t.arg, retType)
        [] OTHER -> (IF Successors(t) \subseteq DOMAIN fn.term THEN {} ELSE {"UnknownBlock"})
                    \cup (IF t.op = "branch" THEN OperandErrors(fn.inst, t.arg, "bool") ELSE {})

ValidationErrors(fn, retType) ==
  UNION {InstructionErrors(fn, v) : v \in DOMAIN fn.inst}
  \cup UNION {TerminatorErrors(fn, b, retType) : b \in DOMAIN fn.term}
=============================================================================
