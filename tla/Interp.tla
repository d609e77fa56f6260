------------------------------- MODULE Interp -------------------------------
(***************************************************************************)
(* call of crates/ir/src/interp.rs, one instruction at a time: what a      *)
(* function means, and the specification its compiled code has to          *)
(* implement.  Values are 0 and 1; what an instruction other than a        *)
(* constant computes, or a called function returns, is left open.  event   *)
(* is what a run shows of itself: the instruction last executed with the   *)
(* operands it read, the edge taken, the value returned.                   *)
(***************************************************************************)
EXTENDS Ir

VARIABLES
  fn,     \* the function called
  block,  \* current: 0 before the call and after it
  last,   \* the instruction of the block last executed, 0 at its start
  env,    \* what every value holds
  event

interpVars == <<fn, block, last, env, event>>

Bits  == {0, 1}
Unset == 2
Event(what, of, reads) == [what |-> what, of |-> of, reads |-> reads]

ParamsOf(g) == {v \in DOMAIN g.inst : g.inst[v].kind = "param"}

\* What executing value v can yield.
Results(v) ==
  CASE fn.inst[v].kind = "true"  -> {1}
    [] fn.inst[v].kind = "false" -> {0}
    [] OTHER -> Bits

\* The instructions of the block that are still to be executed.
Remaining == {v \in DefinedIn(fn.inst, block) : v > last /\ fn.inst[v].kind # "phi"}

\* The environment after taking the edge to block b: its phis all read the
\* environment the block left.
PhisResolved(b) ==
  [v \in DOMAIN env |-> IF v \in PhisOf(fn.inst, b)
                        THEN env[PhiOperand(fn.inst[v], block)] ELSE env[v]]

-----------------------------------------------------------------------------
InterpInit ==
  /\ block = 0 /\ last = 0
  /\ env = [v \in DOMAIN fn.inst |-> Unset]
  /\ event = Event("none", 0, <<>>)

Call ==
  /\ event.what = "none"
  /\ block' = 1
  /\ \E args \in [ParamsOf(fn) -> Bits] :
       env' = [v \in DOMAIN env |-> IF v \in ParamsOf(fn) THEN args[v] ELSE env[v]]
  /\ event' = Event("call", 1, <<>>)
  /\ UNCHANGED <<fn, last>>

Execute(v) ==
  /\ block # 0 /\ v \in Remaining /\ \A w \in Remaining : v <= w
  /\ \E result \in Results(v) : env' = [env EXCEPT ![v] = result]
  /\ event' = Event("value", v, [k \in DOMAIN fn.inst[v].args |-> env[fn.inst[v].args[k]]])
  /\ last' = v
  /\ UNCHANGED <<fn, block>>

Goto ==
  /\ block # 0 /\ Remaining = {}
  /\ LET t == fn.term[block]
     IN  /\ t.op \in {"jump", "branch"}
         /\ block' = IF t.op = "jump" \/ env[t.arg] = 1 THEN t.to[1] ELSE t.to[2]
  /\ env' = PhisResolved(block')
  /\ event' = Event("goto", block', <<>>)
  /\ last' = 0
  /\ UNCHANGED fn

ReturnValue ==
  /\ block # 0 /\ Remaining = {}
  /\ LET t == fn.term[block]
     IN  t.op = "return" /\ event' = Event("return", t.arg, <<env[t.arg]>>)
  /\ block' = 0
  /\ UNCHANGED <<fn, last, env>>

InterpNext == Call \/ (\E v \in DOMAIN fn.inst : Execute(v)) \/ Goto \/ ReturnValue
InterpSpec == InterpInit /\ [][InterpNext]_interpVars
=============================================================================
