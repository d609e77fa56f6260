------------------------------ MODULE CallCheck ------------------------------
(***************************************************************************)
(* What validate_module of crates/ir/src/validate.rs asks of the calls in  *)
(* a module, a sequence of functions that have at least a name, params (a  *)
(* sequence of types), ret and calls.  A call is its callee, the types of  *)
(* its arguments and the type its value is used at.                        *)
(***************************************************************************)
EXTENDS Naturals, Sequences

CallTo(f, args, ty) == [callee |-> f, args |-> args, ty |-> ty]

\* Module::function finds the first function of a name.
Named(m, f) == {i \in DOMAIN m : m[i].name = f /\ \A j \in 1 .. i - 1 : m[j].name # f}
FunctionNamed(m, f) == m[CHOOSE i \in Named(m, f) : TRUE]

CallErrors(m, c) ==
  IF Named(m, c.callee) = {} THEN {"UnknownCallee"}
  ELSE LET f == FunctionNamed(m, c.callee)
       IN  IF Len(f.params) # Len(c.args) THEN {"CallArityMismatch"}
           ELSE IF f.params # c.args \/ f.ret # c.ty THEN {"TypeMismatch"} ELSE {}

\* Over every call of every function, in sequences of calls.
ModuleCallErrors(m) ==
  UNION {UNION {CallErrors(m, m[i].calls[k]) : k \in DOMAIN m[i].calls} : i \in DOMAIN m}
=============================================================================
