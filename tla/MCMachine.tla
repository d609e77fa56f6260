------------------------------ MODULE MCMachine ------------------------------
(***************************************************************************)
(* Functions for the lowering runs: each graph with slots for its          *)
(* instructions, every operand any value the validator and dominance       *)
(* allow.                                                                  *)
(***************************************************************************)
EXTENDS Machine, SmallFunctions

I(b, kind, n)    == {Inst(b, kind, <<v>>, <<>>) : v \in 1 .. n}
I2(b, kind, n)   == {Inst(b, kind, <<v, w>>, <<>>) : v, w \in 1 .. n}
Const(b)         == {Inst(b, "op", <<>>, <<>>)}
PhiAt(b, p, q, n) == {Inst(b, "phi", <<v, w>>, <<p, q>>) : v, w \in 1 .. n}

\* Every combination of the slots that the validator accepts and in which
\* definitions dominate uses.
Sound(g) == Valid(g) /\ UsesDominated(g)
Pick(term, slots) ==
  LET pick[k \in 0 .. Len(slots)] ==
        IF k = 0 THEN {<<>>}
        ELSE LET before == pick[k - 1] IN {Append(s, i) : s \in before, i \in slots[k]}
  IN  {g \in {[inst |-> s, term |-> term] : s \in pick[Len(slots)]} : Sound(g)}

\* Two parameters and two calls in a row, with the arguments in any order.
CallTwice ==
  UNION {Pick(<<Return(r)>>, <<{Param}, {Param}, I2(1, "call", 2), I2(1, "call", 3)>>) :
           r \in 1 .. 4}
\* Operations before, a call, and an operation after that needs any two of
\* them; the last of those before the call is spilled.
AcrossCall ==
  UNION {Pick(<<Return(r)>>,
              <<{Param}, Const(1), Const(1), Const(1), I(1, "call", 4), I2(1, "op", 5)>>) :
           r \in {1, 6}}
\* A call in one arm, and a phi of what the arms computed.
InArm ==
  Pick(Diamond(1, 4), <<{Param}, I(2, "call", 2), I(3, "op", 3), PhiAt(4, 2, 3, 3)>>)
\* A loop that carries two values and exchanges them, or not.
Exchange ==
  Pick(While(5, 3), <<{Param}, {Param}, PhiAt(2, 1, 3, 4), PhiAt(2, 1, 3, 4), I(2, "op", 4)>>)
\* A loop whose body calls.
CallInLoop ==
  Pick(While(2, 2), <<{Param}, PhiAt(2, 1, 3, 3), I2(3, "call", 3)>>)

\* Three calls, whose arguments need one temporary more than the region has.
TooManyTemporaries ==
  Pick(<<Return(1)>>, <<{Param}, {Param}, {Inst(1, "call", <<1, 2>>, <<>>)},
                        {Inst(1, "call", <<1, 2>>, <<>>)}, {Inst(1, "call", <<1>>, <<>>)}>>)

SmallSet ==
  {g \in CallTwice \cup AcrossCall \cup InArm \cup Exchange \cup CallInLoop
                   \cup TooManyTemporaries :
     BranchesReachNoJoin(g)}

\* More values than registers, and no call and no phi.
StraightLine == Pick(<<Return(4)>>, <<{Param}, Const(1), Const(1), I2(1, "op", 3)>>)
=============================================================================
