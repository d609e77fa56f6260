----------------------------- MODULE MCRegAlloc -----------------------------
EXTENDS RegAlloc, SmallFunctions

\* Three values over each graph, with any condition and any returned
\* instruction.
Graphs == {Nested(1, 2)}
          \cup UNION {{Diamond(c, r), While(c, r), DoWhile(c, r)} : c \in 1 .. 3, r \in 2 .. 3}
Threes == FunctionsOver(Graphs, 3)

\* Four, placed in the order of the blocks, over a loop whose test ends its
\* body.
InBlockOrder(g) == \A v \in 2 .. Len(g.inst) : g.inst[v - 1].block <= g.inst[v].block
Fours == {g \in FunctionsOver({DoWhile(2, 3)}, 4) : InBlockOrder(g)}

\* Five, in that loop's body and behind it, so that up to four of them are
\* live together: more than the registers, and several are spilled.
Crowded == {[inst |-> <<Param>> \o [k \in 1 .. 4 |-> Inst(place[k], "op", args[k], <<>>)],
             term |-> DoWhile(c, 5)] :
              place \in {<<2, 2, 2, 2>>, <<2, 2, 2, 3>>, <<2, 3, 3, 3>>},
              args \in [1 .. 4 -> {<<>>, <<1>>, <<2>>, <<4>>}], c \in {2, 5}}
Fives == {g \in Crowded : Valid(g) /\ UsesDominated(g)}

SmallSet == Threes \cup Fours \cup Fives
=============================================================================
