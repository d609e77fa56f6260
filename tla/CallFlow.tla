------------------------------ MODULE CallFlow ------------------------------
(***************************************************************************)
(* How control moves through the functions of a module, call by call and   *)
(* block by block, as call of crates/ir/src/interp.rs moves it: the        *)
(* specification a compiled program implements.  A function is [name,      *)
(* params, ret, calls, term, inBlock]: calls are all its calls, in order,  *)
(* inBlock[b] the indices of those of block b, term its terminators.  An   *)
(* activation is the function, its current block and how many of the       *)
(* block's calls it has made.  Which successor of a branch comes next is   *)
(* left open.                                                              *)
(***************************************************************************)
EXTENDS Ir, CallCheck

VARIABLES
  module,
  root,    \* the name of the function that is run
  frames,  \* the activations, innermost first
  stage    \* "before", "during" or "after" the run

flowVars == <<module, root, frames, stage>>

Activation(f, b, n) == [of |-> f, block |-> b, made |-> n]
Entry(f) == Activation(f, 1, 0)

Top == frames[1]
Code == FunctionNamed(module, Top.of)
CallsHere == Code.inBlock[Top.block]

FlowInit == stage = "before" /\ frames = <<>>

Begin ==
  /\ stage = "before"
  /\ stage' = "during"
  /\ frames' = <<Entry(root)>>
  /\ UNCHANGED <<module, root>>

Invoke ==
  /\ stage = "during"
  /\ Top.made < Len(CallsHere)
  /\ LET callee == Code.calls[CallsHere[Top.made + 1]].callee
     IN  frames' = <<Entry(callee), [Top EXCEPT !.made = @ + 1]>> \o Tail(frames)
  /\ UNCHANGED <<module, root, stage>>

Move ==
  /\ stage = "during"
  /\ Top.made = Len(CallsHere)
  /\ \E b \in Successors(Code.term[Top.block]) :
       frames' = <<Activation(Top.of, b, 0)>> \o Tail(frames)
  /\ UNCHANGED <<module, root, stage>>

GiveBack ==
  /\ stage = "during"
  /\ Top.made = Len(CallsHere)
  /\ Code.term[Top.block].op = "return"
  /\ frames' = Tail(frames)
  /\ stage' = IF frames' = <<>> THEN "after" ELSE stage
  /\ UNCHANGED <<module, root>>

FlowNext == Begin \/ Invoke \/ Move \/ GiveBack
FlowSpec == FlowInit /\ [][FlowNext]_flowVars
=============================================================================
