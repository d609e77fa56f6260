--------------------------- MODULE FunctionMeaning ---------------------------
(***************************************************************************)
(* The function the parser hands on, executed the way call in              *)
(* crates/ir/src/interp.rs executes it, side by side with the source.      *)
(*                                                                         *)
(* Values are 0 and 1 (false and true).  What an instruction other than a  *)
(* phi or a short-circuit constant computes is left open, at every         *)
(* execution anew, so the executions are those of every function with this *)
(* shape.  Next to the SSA environment regs runs env, the variables of the *)
(* source: it is updated from the parser's log, by name and scope, and     *)
(* knows nothing of phis.  An execution stops when validate_function would *)
(* have rejected the function, as the command line does.                   *)
(***************************************************************************)
EXTENDS ParserProps

VARIABLES
  pc,     \* the block being executed, 0 before the call
  regs,   \* call's env: what every value holds
  env     \* what every source variable holds

meaningVars == <<pc, regs, env>>
allVars == <<vars, meaningVars>>

Bits  == {0, 1}
Unset == 2

Slots == UNION {{<<log[b][i].x, log[b][i].d>> :
                   i \in {j \in DOMAIN log[b] : log[b][j].ev = "write"}} : b \in DOMAIN log}

\* What source variable s holds just before the i-th entry of the block's log.
EnvAt(i, s) ==
  LET writes == {j \in 1 .. i - 1 : /\ log[pc][j].ev = "write"
                                    /\ <<log[pc][j].x, log[pc][j].d>> = s}
  IN  IF writes = {} THEN env[s]
      ELSE regs[log[pc][CHOOSE j \in writes : \A k \in writes : k <= j].v]

\* Mutant of PhiResults: a phi reads what an earlier phi of the block wrote.
PhiResultsInOrder(b, p) ==
  LET val[v \in Values] ==
        IF v \in PhisOf(bld.inst, b)
        THEN LET a == PhiOperand(bld.inst[v], p)
             IN  IF a \in PhisOf(bld.inst, b) /\ a < v THEN val[a] ELSE regs[a]
        ELSE regs[v]
  IN  val

\* The phis of block b, entered from p, all read the environment the
\* predecessor left.
PhiResults(b, p) ==
  [v \in Values |-> IF v \in PhisOf(bld.inst, b)
                    THEN regs[PhiOperand(bld.inst[v], p)] ELSE regs[v]]

\* The instructions of block b, after its phis.
Executed(b, start) ==
  LET ops == {v \in DefinedIn(bld.inst, b) : bld.inst[v].kind \in Computed}
  IN  {[v \in Values |-> IF v \in ops THEN out[v]
                         ELSE IF bld.inst[v].kind = "phi" \/ v \notin DefinedIn(bld.inst, b)
                              THEN start[v]
                         ELSE IF bld.inst[v].kind = "true" THEN 1
                         ELSE IF bld.inst[v].kind = "false" THEN 0
                         ELSE start[v]] : out \in [ops -> Bits]}

-----------------------------------------------------------------------------
MeaningInit == Init /\ pc = 0 /\ regs = <<>> /\ env = <<>>

\* The call: the arguments are the first values.  The parse is over.
Call ==
  /\ mode = "done"
  /\ ValidationErrors(bld, RetType) = {}
  /\ pc' = 1
  /\ \E args \in [DOMAIN Params -> Bits] :
       regs' \in Executed(1, [v \in Values |-> IF v \in DOMAIN Params THEN args[v] ELSE Unset])
  /\ env' = [s \in Slots |-> Unset]
  /\ mode' = "called"
  /\ UNCHANGED <<builderVars, shape, ety, cur, scopes, ctl, stmts, log>>

\* The rest of block pc, its terminator, and the phis and instructions of the
\* block control goes to.
Transfer ==
  /\ pc # 0
  /\ bld.term[pc].op \in {"jump", "branch"}
  /\ LET t == bld.term[pc]
         next == IF t.op = "jump" \/ regs[t.arg] = 1 THEN t.to[1] ELSE t.to[2]
     IN  /\ pc' = next
         /\ regs' \in Executed(next, PhiResults(next, pc))
  /\ env' = [s \in DOMAIN env |-> EnvAt(Len(log[pc]) + 1, s)]
  /\ UNCHANGED vars

ParseAhead == ParseStep /\ UNCHANGED meaningVars

Returned == pc # 0 /\ bld.term[pc].op = "return"
Rejected == mode = "done" /\ ValidationErrors(bld, RetType) # {}
Rest == (mode \in Errors \/ Returned \/ Rejected) /\ UNCHANGED allVars

MeaningNext == ParseAhead \/ Call \/ Transfer \/ Rest
MeaningSpec == MeaningInit /\ [][MeaningNext]_allVars

-----------------------------------------------------------------------------
Here(ev) == IF pc = 0 THEN {} ELSE {i \in DOMAIN log[pc] : log[pc][i].ev \in ev}

\* The SSA value that stands for a variable where the source reads it holds
\* what the source last wrote to that variable, on every path taken to there
\* and in every iteration: this is what read_variable promises.
ReadsSeeLastWrite ==
  \A i \in Here({"read"}) :
    regs[log[pc][i].v] = EnvAt(i, <<log[pc][i].x, log[pc][i].d>>)

ArmsTaken ==
  /\ \A i \in Here({"taken"}) : regs[log[pc][i].v] = 1
  /\ \A i \in Here({"nottaken"}) : regs[log[pc][i].v] = 0
ShortCircuitValues ==
  \A i \in Here({"and", "or"}) :
    LET e == log[pc][i]
        lhs == regs[log[e.d][1].v]
        decided == IF e.ev = "or" THEN 1 ELSE 0
    IN  regs[e.v] = IF lhs = decided THEN lhs ELSE regs[e.w]

\* A then arm, a loop body or a right operand is executed when its condition
\* holds (or, after "or", does not), an else arm or a loop's exit otherwise;
\* the phi at the join of an and / or is the left operand when that decides,
\* otherwise the right one.
ConditionsDecide == ArmsTaken /\ ShortCircuitValues
=============================================================================
