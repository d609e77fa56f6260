------------------------------- MODULE MCMeaning -------------------------------
EXTENDS FunctionMeaning

BoolTypes == {"bool"}
Var(x, ty) == [name |-> x, ty |-> ty]

\* A function of type bool over bool variables, with a bound on its statements,
\* blocks and values; a few shapes change more than that.
Bools(names, statements, expressions, most) ==
  [params |-> IF "y" \in names THEN <<Var("x", "bool"), Var("y", "bool")>>
             ELSE <<Var("x", "bool")>>, ret |-> "bool",
   vars |-> names, literals |-> {"bool"}, statements |-> statements, expressions |-> expressions,
   maxStatements |-> most[1], maxBlocks |-> most[2], maxValues |-> most[3], allows |-> {}]

MeaningShapes ==
  [conditions |-> Bools({"x"}, {"assign", "if", "while"}, {"literal", "name", "and", "or"},
                        <<2, 8, 6>>),
   variables  |-> Bools({"x", "y"}, {"assign", "if", "while"}, {"literal", "name"}, <<3, 4, 6>>)]
ShadowingShapes ==
  [shadowing |-> [Bools({"x"}, {"let", "if"}, {"literal", "name"}, <<2, 7, 6>>) EXCEPT
                    !.allows = {"shadowing"}]]
===============================================================================
