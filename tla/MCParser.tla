------------------------------- MODULE MCParser -------------------------------
EXTENDS ParserProps

BothTypes == {"bool", "i64"}
Var(x, ty) == [name |-> x, ty |-> ty]

\* A function of type bool over bool variables, with a bound on its statements,
\* blocks and values; a few shapes change more than that.
Bools(names, statements, expressions, most) ==
  [params |-> <<Var("x", "bool")>>, ret |-> "bool",
   vars |-> names, literals |-> {"bool"}, statements |-> statements, expressions |-> expressions,
   maxStatements |-> most[1], maxBlocks |-> most[2], maxValues |-> most[3], allows |-> {}]

StructureShapes ==
  [nesting |-> Bools({"x"}, {"assign", "if", "while"}, {"literal", "name"}, <<3, 7, 20>>),
   types   |-> [Bools({"x", "y"}, {"expr", "let", "assign", "if"},
                      {"literal", "name", "un", "bin", "and"}, <<2, 4, 3>>) EXCEPT
                  !.params = <<Var("x", "i64")>>, !.literals = BothTypes]]
WhileShapes ==
  [condition |-> [Bools({"x"}, {"while"}, {"name", "and", "or"}, <<1, 7, 6>>) EXCEPT
                    !.allows = {"shortCircuitInWhile"}]]
MissingReturnShapes ==
  [missing |-> [Bools({"x"}, {"assign", "while"}, {"name"}, <<1, 7, 6>>) EXCEPT
                  !.allows = {"missingReturn"}]]
===============================================================================
