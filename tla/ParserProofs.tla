---------------------------- MODULE ParserProofs ----------------------------
(***************************************************************************)
(* What the function parser and its SSA builder establish for every        *)
(* function body: edges and predecessors agree, a sealed block gets no     *)
(* further predecessor, an ended block is left alone, no phi is parked in  *)
(* a sealed block, and in the function handed on every phi has an operand  *)
(* for every edge, no branch leads to a join and every block is reached; a *)
(* variable that is read has a definition to be found, and what the parser *)
(* accepts the validator accepts.                                          *)
(*                                                                         *)
(* The theorems assume ~ShortCircuitInWhile of the shape that is parsed: a *)
(* while whose condition contains and / or terminates its header twice,    *)
(* and the first of them is false of it (run while_short_circuit).         *)
(* Shadowing and missing returns are allowed, except that a function with  *)
(* either need not be valid (runs shadowing and missing_return).           *)
(***************************************************************************)
EXTENDS BindingProofs, WellFoundedInduction

-----------------------------------------------------------------------------
(* The builder runs.                                                       *)

LEMMA PhaseKept ==
  ASSUME NEW s, NEW c, NEW q, NEW md, NEW wk, NEW rt, Phase(md, wk, rt, s, c, q), Len(wk) > 0,
         NEW u, NEW wk2, NEW rt2, BuilderDone(s, c, q, wk, u, wk2, rt2)
  PROVE  Phase(md, wk2, rt2, u, c, q)
<1>1. /\ u.term = s.term /\ Sealing(wk2) \subseteq Sealing(wk) /\ rt2 \in 0 .. Len(u.inst)
      /\ Len(wk2) > 0 /\ wk2[1].op \in {"write", "take"} => rt2 # 0
      /\ Len(wk2) = 0 => rt2 # 0 \/ Sealing(wk) # {}
  BY DEF BuilderDone
<1>2. /\ md \in ParserModes
      /\ md \in {"stmt"} => Bodied(q)
      /\ md \in {"reading"} => \E o, r : OnTop(q, o, r) /\ o.k = "name" /\ Waiting(r, c)
      /\ md \in {"operand", "value", "reading"} => s.term[c].op = "none"
      /\ md \in {"stmt", "reading"}
      /\ md \notin {"stmt"} => Sealing(wk) = {}
  BY DEF Phase
<1>3. /\ md \in {"operand", "value"} => Waiting(q, c)
      /\ md \notin {"stmt", "reading"} => Len(wk2) = 0
      /\ md \in {"value"} => rt2 # 0
      /\ md \in {"done"} => Len(q) = 0
  BY <1>2
<1>4. /\ md \in {"operand", "value", "reading"} => u.term[c].op = "none"
      /\ md \notin {"stmt"} => Sealing(wk2) = {}
  BY <1>1, <1>2
<1>5. md \in {"reading"} /\ Len(wk2) = 0 => rt2 # 0
  BY <1>1, <1>2
<1> QED
  BY <1>1, <1>2, <1>3, <1>4, <1>5, Zenon DEF Phase

LEMMA RunningTop ==
  ASSUME Inv
  PROVE  /\ \A op : Running(op) => TopCall(work, Top, Tail(work), op) /\ Len(work) > 0
         /\ Held(bld, cur, ctl, work) /\ ret \in 0 .. Len(bld.inst)
         /\ Len(work) > 0 /\ work[1].op \in {"write", "take"} => ret # 0
<1>1. Held(bld, cur, ctl, work) /\ IsRow(work) /\ Phase(mode, work, ret, bld, cur, ctl)
  BY DEF Inv
<1>2. ASSUME NEW op, Running(op) PROVE TopCall(work, Top, Tail(work), op) /\ Len(work) > 0
  <2>1. work # <<>> /\ Head(work).op = op
    BY <1>2 DEF Running
  <2>2. Len(work) > 0
    <3>1. Len(work) # 0
      BY <1>1, <2>1, EmptyRow, RowsEqual
    <3> QED
      BY <1>1, <3>1 DEF IsRow
  <2>3. OnTop(work, Head(work), Tail(work))
    BY <1>1, <2>2, Split
  <2> QED
    BY <2>1, <2>2, <2>3 DEF TopCall, Top
<1>3. /\ ret \in 0 .. Len(bld.inst)
      /\ Len(work) > 0 /\ work[1].op \in {"write", "take"} => ret # 0
  BY <1>1 DEF Phase
<1> QED
  BY <1>1, <1>2, <1>3

\* What each step of the builder does.
Ran == BuilderDone(bld, cur, ctl, work, bld', work', ret') /\ Len(work) > 0

LEMMA LocalRan ==
  ASSUME Inv, ReadLocal
  PROVE  Ran
<1>1. Running("read") /\ BindingOf(Top.x, Top.b) # NoValue /\ ret' = BindingOf(Top.x, Top.b)
      /\ work' = Tail(work) /\ bld' = bld
  BY DEF ReadLocal
<1>2. TopCall(work, Top, Tail(work), "read") /\ Len(work) > 0 /\ Held(bld, cur, ctl, work)
  BY <1>1, RunningTop
<1>3. BuilderDone(bld, cur, ctl, work, bld, Tail(work), bld.defs[Top.b][Top.x])
  BY <1>1, <1>2, ReadsLocal DEF TopCall, BindingOf
<1> QED
  BY <1>1, <1>2, <1>3 DEF Ran, BindingOf

LEMMA EmptyPhiRan ==
  ASSUME Inv, ReadEmptyPhi
  PROVE  Ran
<1>1. Running("read") /\ bld.defs[Top.b][Top.x] = NoValue /\ work' = Tail(work)
      /\ EmptyPhi(bld, Top, bld', ret')
  BY DEF ReadEmptyPhi, EmptyPhi, BindingOf, LastValue
<1>2. TopCall(work, Top, Tail(work), "read") /\ Len(work) > 0 /\ Held(bld, cur, ctl, work)
  BY <1>1, RunningTop
<1>3. Top.b \notin bld.sealed \/ Len(bld.preds[Top.b]) = 0
  <2>1. Top.b \notin bld.sealed \/ bld.preds[Top.b] = <<>>
    BY DEF ReadEmptyPhi
  <2> QED
    BY <2>1, EmptyRow
<1>4. BuilderDone(bld, cur, ctl, work, bld', Tail(work), ret')
  BY <1>1, <1>2, <1>3, ReadsEmptyPhi DEF TopCall
<1> QED
  BY <1>1, <1>2, <1>4 DEF Ran

LEMMA PredecessorRan ==
  ASSUME Inv, ReadOnePredecessor
  PROVE  Ran
<1>1. Running("read") /\ Len(bld.preds[Top.b]) = 1 /\ bld' = bld /\ ret' = ret
      /\ AsksPredecessor(bld, Top, Tail(work), work')
  BY DEF ReadOnePredecessor, SealedRead, AsksPredecessor
<1>2. TopCall(work, Top, Tail(work), "read") /\ Len(work) > 0 /\ Held(bld, cur, ctl, work)
      /\ ret \in 0 .. Len(bld.inst)
  BY <1>1, RunningTop
<1>3. BuilderDone(bld, cur, ctl, work, bld, work', ret)
  BY <1>1, <1>2, ReadsPredecessor DEF TopCall
<1> QED
  BY <1>1, <1>2, <1>3 DEF Ran

LEMMA MergeRan ==
  ASSUME Inv, ReadMerge
  PROVE  Ran
<1>1. Running("read") /\ Top.b \in bld.sealed /\ ret' = ret
      /\ MergeRead(bld, Top, Tail(work), bld', work')
  BY DEF ReadMerge, SealedRead, MergeRead, LastValue
<1>2. TopCall(work, Top, Tail(work), "read") /\ Len(work) > 0 /\ Held(bld, cur, ctl, work)
      /\ ret \in 0 .. Len(bld.inst)
  BY <1>1, RunningTop
<1>3. Len(bld.preds[Top.b]) \notin {1}
  <2>1. Len(bld.preds[Top.b]) > 1
    BY DEF ReadMerge
  <2>2. \A n : n > 1 => n \notin {1}
    OBVIOUS
  <2> QED
    BY <2>1, <2>2, Zenon
<1>4. BuilderDone(bld, cur, ctl, work, bld', work', ret)
  BY <1>1, <1>2, <1>3, ReadsMerge DEF TopCall
<1> QED
  BY <1>1, <1>2, <1>4 DEF Ran

LEMMA WriteRan ==
  ASSUME Inv, WriteBack
  PROVE  Ran
<1>1. Running("write") /\ bld' = Write(bld, Top.x, Top.b, ret) /\ work' = Tail(work) /\ ret' = ret
  BY DEF WriteBack
<1>2. TopCall(work, Top, Tail(work), "write") /\ Len(work) > 0 /\ Held(bld, cur, ctl, work)
      /\ ret \in 0 .. Len(bld.inst)
  BY <1>1, RunningTop
<1>3. ret # 0
  <2>1. work[1].op \in {"write", "take"}
    BY <1>2 DEF TopCall, OnTop
  <2> QED
    BY <1>2, <2>1, RunningTop
<1>4. BuilderDone(bld, cur, ctl, work, bld', Tail(work), ret)
  BY <1>1, <1>2, <1>3, WritesBack DEF TopCall
<1> QED
  BY <1>1, <1>2, <1>4 DEF Ran

LEMMA AskRan ==
  ASSUME Inv, AskOperand
  PROVE  Ran
<1>1. Running("ask") /\ Len(Top.got) < Len(bld.preds[Top.b]) /\ bld' = bld /\ ret' = ret
      /\ AsksNext(bld, Top, Tail(work), work')
  BY DEF AskOperand, AsksNext
<1>2. TopCall(work, Top, Tail(work), "ask") /\ Len(work) > 0 /\ Held(bld, cur, ctl, work)
      /\ ret \in 0 .. Len(bld.inst)
  BY <1>1, RunningTop
<1>3. BuilderDone(bld, cur, ctl, work, bld, work', ret)
  BY <1>1, <1>2, AsksOperand DEF TopCall
<1> QED
  BY <1>1, <1>2, <1>3 DEF Ran

LEMMA TakeRan ==
  ASSUME Inv, TakeOperand
  PROVE  Ran
<1>1. Running("take") /\ bld' = bld /\ ret' = ret /\ TakesNext(Top, Tail(work), ret, work')
  BY DEF TakeOperand, TakesNext
<1>2. TopCall(work, Top, Tail(work), "take") /\ Len(work) > 0 /\ Held(bld, cur, ctl, work)
      /\ ret \in 0 .. Len(bld.inst)
  BY <1>1, RunningTop
<1>3. ret # 0
  <2>1. work[1].op \in {"write", "take"}
    BY <1>2 DEF TopCall, OnTop
  <2> QED
    BY <1>2, <2>1, RunningTop
<1>4. BuilderDone(bld, cur, ctl, work, bld, work', ret)
  BY <1>1, <1>2, <1>3, TakesOperand DEF TopCall
<1> QED
  BY <1>1, <1>2, <1>4 DEF Ran

LEMMA FillRan ==
  ASSUME Inv, FillPhi
  PROVE  Ran
<1>1. Running("ask") /\ Len(Top.got) = Len(bld.preds[Top.b]) /\ ret' \in {Top.phi}
      /\ work' = Tail(work) /\ FillsNow(bld, Top, bld')
  BY DEF FillPhi, FillsNow
<1>2. TopCall(work, Top, Tail(work), "ask") /\ Len(work) > 0 /\ Held(bld, cur, ctl, work)
  BY <1>1, RunningTop
<1>3. BuilderDone(bld, cur, ctl, work, bld', Tail(work), ret')
  BY <1>1, <1>2, FillsPhi DEF TopCall
<1> QED
  BY <1>1, <1>2, <1>3 DEF Ran

\* The list of incomplete phis of a call of seal_block.
LEMMA SealRest ==
  ASSUME Inv, Running("seal")
  PROVE  (Top.rest = <<>> => Len(Top.rest) = 0) /\ (Top.rest # <<>> => Len(Top.rest) > 0)
<1>1. TopCall(work, Top, Tail(work), "seal") /\ Held(bld, cur, ctl, work)
  BY RunningTop
<1>2. FrameOK(Top, bld, cur, Shut(bld, work))
  BY <1>1, FramePop DEF TopCall, Held
<1>3. IsRow(Top.rest)
  BY <1>2 DEF FrameOK, FrameShape, RowOf
<1>4. Top.rest # <<>> => Len(Top.rest) # 0
  BY <1>3, EmptyRow, RowsEqual
<1>5. Len(Top.rest) \in Nat
  BY <1>3 DEF IsRow
<1> QED
  BY <1>4, <1>5, EmptyRow

LEMMA SealNextRan ==
  ASSUME Inv, SealNext
  PROVE  Ran
<1>1. Running("seal") /\ bld' = bld /\ ret' = ret /\ SealsOne(bld, Top, Tail(work), work')
  BY DEF SealNext, SealsOne
<1>2. TopCall(work, Top, Tail(work), "seal") /\ Len(work) > 0 /\ Held(bld, cur, ctl, work)
      /\ ret \in 0 .. Len(bld.inst)
  BY <1>1, RunningTop
<1>3. Len(Top.rest) > 0
  BY <1>1, SealRest DEF SealNext
<1>4. BuilderDone(bld, cur, ctl, work, bld, work', ret)
  BY <1>1, <1>2, <1>3, SealsNext DEF TopCall
<1> QED
  BY <1>1, <1>2, <1>4 DEF Ran

LEMMA SealDoneRan ==
  ASSUME Inv, SealDone
  PROVE  Ran
<1>1. Running("seal") /\ bld' \in {SealFresh(bld, {Top.b})} /\ work' = Tail(work) /\ ret' = ret
  BY DEF SealDone
<1>2. TopCall(work, Top, Tail(work), "seal") /\ Len(work) > 0 /\ Held(bld, cur, ctl, work)
      /\ ret \in 0 .. Len(bld.inst)
  BY <1>1, RunningTop
<1>3. Len(Top.rest) = 0
  BY <1>1, SealRest DEF SealDone
<1>4. BuilderDone(bld, cur, ctl, work, bld', Tail(work), ret)
  BY <1>1, <1>2, <1>3, SealsDone DEF TopCall
<1> QED
  BY <1>1, <1>2, <1>4 DEF Ran

LEMMA BuilderRuns ==
  ASSUME Inv, BuilderStep, UNCHANGED parserVars
  PROVE  Inv' /\ Keeps(bld, bld')
<1>1. Ran
  <2>1. CASE ReadLocal
    BY <2>1, LocalRan
  <2>2. CASE ReadEmptyPhi
    BY <2>2, EmptyPhiRan
  <2>3. CASE ReadOnePredecessor
    BY <2>3, PredecessorRan
  <2>4. CASE ReadMerge
    BY <2>4, MergeRan
  <2>5. CASE WriteBack
    BY <2>5, WriteRan
  <2>6. CASE AskOperand
    BY <2>6, AskRan
  <2>7. CASE TakeOperand
    BY <2>7, TakeRan
  <2>8. CASE FillPhi
    BY <2>8, FillRan
  <2>9. CASE SealNext
    BY <2>9, SealNextRan
  <2>10. CASE SealDone
    BY <2>10, SealDoneRan
  <2> QED
    BY <2>1, <2>2, <2>3, <2>4, <2>5, <2>6, <2>7, <2>8, <2>9, <2>10 DEF BuilderStep
<1>2. BuilderDone(bld, cur, ctl, work, bld', work', ret') /\ Len(work) > 0
  BY <1>1 DEF Ran
<1>3. /\ mode' = mode /\ ety' = ety /\ cur' = cur /\ scopes' = scopes /\ ctl' = ctl
      /\ stmts' = stmts /\ log' = log /\ shape' = shape
  BY DEF parserVars
<1>4. Phase(mode, work', ret', bld', cur, ctl)
  BY <1>2, PhaseKept DEF Inv
<1>5. Held(bld', cur, ctl, work') /\ Keeps(bld, bld') /\ IsRow(work') /\ bld'.term = bld.term
  BY <1>2 DEF BuilderDone
<1>6. LogOK(log, bld')
  BY <1>5 DEF Inv, LogOK
<1>7. /\ ety \in Types \cup {NoType} /\ ScopesOK(scopes) /\ shape \in DOMAIN Shapes
      /\ ~ShortCircuitInWhile /\ stmts \in 0 .. MaxStatements
  BY DEF Inv
<1>8. ~ShortCircuitInWhile' /\ MaxStatements' = MaxStatements
  BY <1>3, <1>7 DEF ShortCircuitInWhile, MaxStatements
<1> QED
  BY <1>3, <1>4, <1>5, <1>6, <1>7, <1>8 DEF Inv

-----------------------------------------------------------------------------
(* The scopes and the log.                                                 *)

LEMMA LeastOf ==
  ASSUME NEW T, T \subseteq Nat, T # {}
  PROVE  \E x \in T : \A y \in T : x <= y
<1> DEFINE R == OpToRel(<, Nat)
<1>1. IsWellFoundedOn(R, Nat)
  BY NatLessThanWellFounded
<1> HIDE DEF R
<1>2. PICK x \in T : \A y \in T : <<y, x>> \notin R
  BY <1>1, WFMin
<1>3. \A y \in T : ~(y < x)
  BY <1>2 DEF R, OpToRel
<1> QED
  BY <1>3

LEMMA GreatestOf ==
  ASSUME NEW n \in Nat, NEW T, T \subseteq 1 .. n, T # {}
  PROVE  \E x \in T : \A y \in T : y <= x
<1> DEFINE S == {n - y : y \in T}
<1>1. S \subseteq Nat /\ S # {}
  <2>1. \A y \in T : n - y \in Nat
    OBVIOUS
  <2> QED
    BY <2>1
<1> HIDE DEF S
<1>2. PICK z \in S : \A y \in S : z <= y
  BY <1>1, LeastOf
<1>3. PICK x \in T : z = n - x
  BY <1>2 DEF S
<1>4. \A y \in T : n - y \in S
  BY DEF S
<1>5. \A y \in T : n - x <= n - y
  BY <1>2, <1>3, <1>4
<1> QED
  BY <1>5

\* A name that is found has a type.
LEMMA NamesHaveTypes ==
  ASSUME ScopesOK(scopes), NEW x \in Vars, ScopeOf(x) # 0
  PROVE  LookupVar(x) \in Types
<1> DEFINE binding == {i \in DOMAIN scopes : scopes[i][x] # NoType}
<1>1. IsRow(scopes) /\ \A k \in 1 .. Len(scopes) : scopes[k] \in [Vars -> Types \cup {NoType}]
  BY DEF ScopesOK, RowOf
<1>2. DOMAIN scopes = 1 .. Len(scopes) /\ Len(scopes) \in Nat
  BY <1>1 DEF IsRow
<1>3. binding # {} /\ binding \subseteq 1 .. Len(scopes)
  BY <1>2 DEF ScopeOf
<1>4. \A i \in binding : scopes[i][x] \in Types
  BY <1>1, <1>2
<1>5. ScopeOf(x) = CHOOSE i \in binding : \A j \in binding : j <= i
  BY <1>3 DEF ScopeOf
<1> HIDE DEF binding
<1>6. \E i \in binding : \A j \in binding : j <= i
  BY <1>2, <1>3, GreatestOf
<1>7. ScopeOf(x) \in binding
  BY <1>5, <1>6
<1> QED
  BY <1>4, <1>7 DEF LookupVar

LEMMA ScopePushed ==
  ASSUME ScopesOK(scopes), PushScope
  PROVE  ScopesOK(scopes')
<1>1. IsRow(scopes) /\ \A k \in 1 .. Len(scopes) : scopes[k] \in [Vars -> Types \cup {NoType}]
  BY DEF ScopesOK, RowOf
<1> PICK sc : sc = Append(scopes, EmptyScope)
  OBVIOUS
<1>2. /\ IsRow(sc) /\ Len(sc) = Len(scopes) + 1
      /\ \A k \in 1 .. Len(scopes) : sc[k] = scopes[k]
      /\ sc[Len(scopes) + 1] = EmptyScope
  BY <1>1, Back
<1>3. 1 .. Len(sc) = 1 .. Len(scopes) \cup {Len(scopes) + 1}
  BY <1>1, <1>2 DEF IsRow
<1>4. EmptyScope \in [Vars -> Types \cup {NoType}]
  BY DEF EmptyScope
<1>5. ScopesOK(sc)
  BY <1>1, <1>2, <1>3, <1>4 DEF ScopesOK, RowOf
<1>6. scopes' = sc
  BY DEF PushScope
<1> QED
  BY <1>5, <1>6

LEMMA ScopePopped ==
  ASSUME ScopesOK(scopes), PopScope
  PROVE  ScopesOK(scopes')
<1> DEFINE S == [Vars -> Types \cup {NoType}]
<1>1. IsRow(scopes) /\ \A k \in 1 .. Len(scopes) : scopes[k] \in S
  BY DEF ScopesOK, RowOf
<1>2. Len(scopes) \in Nat
  BY <1>1 DEF IsRow
<1>3. \A k \in 1 .. Len(scopes) - 1 : scopes[k] \in S
  BY <1>1, <1>2
<1>4. 1 \in Int /\ Len(scopes) - 1 \in Int
  BY <1>2
<1> HIDE DEF S
<1>5. SubSeq(scopes, 1, Len(scopes) - 1) \in Seq(S)
  BY <1>3, <1>4, SubSeqProperties
<1>6. scopes' \in Seq(S)
  BY <1>5 DEF PopScope
<1>7. RowOf(scopes', S)
  BY <1>6, RowIsSeq
<1> QED
  BY <1>7 DEF ScopesOK, S

\* Some scope is replaced, or none is when there is none to replace.
LEMMA ScopeChanged ==
  ASSUME NEW sc, ScopesOK(sc), NEW i, NEW o, i \in 1 .. Len(sc) => o \in [Vars -> Types \cup {NoType}],
         NEW sc2, sc2 = [sc EXCEPT ![i] = o]
  PROVE  ScopesOK(sc2)
<1> DEFINE n == Len(sc)
           S == [Vars -> Types \cup {NoType}]
<1>1. n \in Nat /\ DOMAIN sc = 1 .. n /\ (i \in 1 .. n => o \in S) /\ \A k \in 1 .. n : sc[k] \in S
  BY DEF ScopesOK, RowOf, IsRow
<1> HIDE DEF n, S
<1>2. \A k \in 1 .. n : sc2[k] \in S
  BY <1>1
<1>3. sc2 = [k \in 1 .. n |-> sc2[k]]
  BY <1>1
<1>4. IsRow(sc2) /\ Len(sc2) = n
  BY <1>1, <1>3, RowMade
<1> QED
  BY <1>2, <1>4 DEF ScopesOK, RowOf, S

LEMMA ScopeBinds ==
  ASSUME NEW sc, ScopesOK(sc), NEW i, NEW x \in Vars, NEW t \in Types \cup {NoType},
         NEW sc2, sc2 = [sc EXCEPT ![i][x] = t]
  PROVE  ScopesOK(sc2)
<1> DEFINE o == [sc[i] EXCEPT ![x] = t]
<1>1. i \in 1 .. Len(sc) => sc[i] \in [Vars -> Types \cup {NoType}]
  BY DEF ScopesOK, RowOf
<1>2. i \in 1 .. Len(sc) => o \in [Vars -> Types \cup {NoType}]
  BY <1>1
<1>3. sc2 = [sc EXCEPT ![i] = o]
  OBVIOUS
<1> HIDE DEF o
<1> QED
  BY <1>2, <1>3, ScopeChanged

-----------------------------------------------------------------------------
(* One log per block.                                                      *)

LEMMA LogSame ==
  ASSUME NEW l, NEW s, LogOK(l, s), NEW u, Len(u.term) = Len(s.term)
  PROVE  LogOK(l, u)
BY DEF LogOK

LEMMA LogWritten ==
  ASSUME NEW l, NEW s, LogOK(l, s), NEW u, Len(u.term) = Len(s.term), NEW b, NEW e,
         NEW l2, l2 = Logged(l, b, e)
  PROVE  LogOK(l2, u)
<1> DEFINE n == Len(l)
<1>1. n \in Nat /\ DOMAIN l = 1 .. n /\ n = Len(u.term)
  BY DEF LogOK, IsRow
<1> HIDE DEF n
<1>2. l2 = [k \in 1 .. n |-> l2[k]]
  BY <1>1 DEF Logged
<1>3. IsRow(l2) /\ Len(l2) = n
  BY <1>1, <1>2, RowMade
<1> QED
  BY <1>1, <1>3 DEF LogOK

LEMMA LogGrows ==
  ASSUME NEW l, NEW s, LogOK(l, s), NEW u, Len(u.term) = Len(s.term) + 1, NEW l2, NEW e,
         l2 = Append(l, e)
  PROVE  LogOK(l2, u)
BY Back DEF LogOK

LEMMA LogGrowsTwo ==
  ASSUME NEW l, NEW s, LogOK(l, s), NEW u, Len(u.term) = Len(s.term) + 2, NEW l2, NEW d, NEW e,
         l2 = l \o <<d, e>>
  PROVE  LogOK(l2, u)
<1>1. IsRow(<<d, e>>) /\ Len(<<d, e>>) = 2
  BY PairIs
<1>2. IsRow(l) /\ Len(l) = Len(s.term)
  BY DEF LogOK
<1>3. IsRow(l \o <<d, e>>) /\ Len(l \o <<d, e>>) = Len(l) + Len(<<d, e>>)
  BY <1>1, <1>2, Joined, Zenon
<1> QED
  BY <1>1, <1>2, <1>3 DEF LogOK

LEMMA LogGrowsThree ==
  ASSUME NEW l, NEW s, LogOK(l, s), NEW u, Len(u.term) = Len(s.term) + 3, NEW l2,
         NEW d, NEW e, NEW f, l2 = l \o <<d, e, f>>
  PROVE  LogOK(l2, u)
<1>1. IsRow(<<d, e, f>>) /\ Len(<<d, e, f>>) = 3
  BY DEF IsRow
<1>2. IsRow(l) /\ Len(l) = Len(s.term)
  BY DEF LogOK
<1>3. IsRow(l \o <<d, e, f>>) /\ Len(l \o <<d, e, f>>) = Len(l) + Len(<<d, e, f>>)
  BY <1>1, <1>2, Joined, Zenon
<1> QED
  BY <1>1, <1>2, <1>3 DEF LogOK

-----------------------------------------------------------------------------
(* The statements.                                                         *)

\* A step that leaves no call in progress, and the state it leaves.
RestNext == /\ shape' = shape /\ ety' \in Types \cup {NoType} /\ ScopesOK(scopes')
            /\ LogOK(log', bld') /\ stmts' \in 0 .. MaxStatements
Settles ==
  \/ mode' \in {"stmt"} /\ AtStmt(bld', cur', ctl', ret')
  \/ mode' \in {"operand"} /\ AtOperand(bld', cur', ctl', ret')
  \/ mode' \in {"value"} /\ HasValue(bld', cur', ctl', ret')
  \/ mode' \in Errors /\ Quiet(bld', cur', ctl') /\ ret' \in 0 .. Len(bld'.inst)
  \/ mode' \in {"done"} /\ Quiet(bld', cur', ctl') /\ ret' \in 0 .. Len(bld'.inst) /\ Len(ctl') = 0
Stepped == Inv' /\ Keeps(bld, bld')

LEMMA Arrives ==
  ASSUME Rest, RestNext, Held(bld', cur', ctl', work'), IsRow(work'),
         Phase(mode', work', ret', bld', cur', ctl')
  PROVE  Inv'
<1>1. /\ shape \in DOMAIN Shapes /\ "shortCircuitInWhile" \notin Shapes[shape].allows
  BY DEF Rest, RestOK
<1>2. shape' \in DOMAIN Shapes /\ ~ShortCircuitInWhile' /\ stmts' \in 0 .. MaxStatements'
  BY <1>1 DEF RestNext, ShortCircuitInWhile, MaxStatements
<1> QED
  BY <1>2 DEF RestNext, Inv

LEMMA Settling ==
  ASSUME Rest, RestNext, IsRow(work), Len(work) = 0, work' = work, Settles
  PROVE  Inv'
<1>1. IsRow(work') /\ Len(work') = 0
  OBVIOUS
<1>2. Held(bld', cur', ctl', work') /\ Phase(mode', work', ret', bld', cur', ctl')
  BY <1>1, Settled, Zenon DEF Settles
<1> QED
  BY <1>1, <1>2, Arrives

LEMMA AtRest ==
  ASSUME Inv, mode = "stmt", Idle
  PROVE  /\ Quiet(bld, cur, ctl) /\ Bodied(ctl) /\ ret \in 0 .. Len(bld.inst) /\ Rest
         /\ IsRow(work) /\ Len(work) = 0 /\ IsRow(ctl) /\ OnTop(ctl, Inner, Tail(ctl))
<1>1. AtStmt(bld, cur, ctl, ret) /\ Rest /\ Len(work) = 0
  BY StatementMode
<1>2. Quiet(bld, cur, ctl) /\ Bodied(ctl) /\ ret \in 0 .. Len(bld.inst)
  BY <1>1 DEF AtStmt
<1>3. IsRow(ctl) /\ Len(ctl) > 0
  BY <1>2 DEF Bodied
<1>4. OnTop(ctl, Inner, Tail(ctl))
  BY <1>3, Split DEF Inner
<1>5. IsRow(work)
  BY DEF Inv
<1> QED
  BY <1>1, <1>2, <1>3, <1>4, <1>5

LEMMA AtExpression ==
  ASSUME Inv, mode \in {"operand", "value"}
  PROVE  /\ Quiet(bld, cur, ctl) /\ Waiting(ctl, cur) /\ ret \in 0 .. Len(bld.inst) /\ Rest
         /\ bld.term[cur].op = "none" /\ cur \in BlocksOf(bld)
         /\ IsRow(work) /\ Len(work) = 0 /\ IsRow(ctl) /\ OnTop(ctl, Inner, Tail(ctl))
         /\ mode = "value" => ret \in ValuesOf(bld)
<1>1. /\ AtOperand(bld, cur, ctl, ret) /\ Rest /\ Len(work) = 0 /\ IsRow(work)
      /\ mode = "value" => HasValue(bld, cur, ctl, ret)
  BY ExpressionMode
<1>2. /\ Quiet(bld, cur, ctl) /\ Waiting(ctl, cur) /\ bld.term[cur].op = "none"
      /\ ret \in 0 .. Len(bld.inst)
      /\ mode = "value" => ret \in ValuesOf(bld)
  BY <1>1 DEF AtOperand, HasValue
<1>3. IsRow(ctl) /\ Len(ctl) > 0
  BY <1>2 DEF Waiting, IsRow
<1>4. OnTop(ctl, Inner, Tail(ctl))
  BY <1>3, Split DEF Inner
<1>5. cur \in BlocksOf(bld)
  BY <1>2 DEF Quiet
<1> QED
  BY <1>1, <1>2, <1>3, <1>4, <1>5

LEMMA SameKept ==
  ASSUME NEW s, NEW c, NEW q, Quiet(s, c, q)
  PROVE  Keeps(s, s)
<1>1. Core(s, s.sealed, {}) /\ s.sealed \subseteq BlocksOf(s) \ {}
  BY QuietFacts DEF Quiet
<1>2. Changes(s, s, {}, {}, {})
  BY <1>1, ChangesNone
<1> QED
  BY <1>1, <1>2, ChangesKeeps

\* The rest of the state is left as it was, but for the builder.
LEMMA RestStays ==
  ASSUME Rest, shape' = shape, UNCHANGED <<ety, scopes, stmts, log>>,
         Len(bld'.term) = Len(bld.term)
  PROVE  RestNext
<1>1. /\ ety \in Types \cup {NoType} /\ ScopesOK(scopes) /\ LogOK(log, bld)
      /\ stmts \in 0 .. MaxStatements
  BY DEF Rest, RestOK, MaxStatements
<1>2. LogOK(log', bld')
  BY <1>1, LogSame
<1> QED
  BY <1>1, <1>2 DEF RestNext

LEMMA RestParts ==
  ASSUME Rest
  PROVE  /\ ety \in Types \cup {NoType} /\ ScopesOK(scopes) /\ LogOK(log, bld)
         /\ stmts \in 0 .. MaxStatements /\ MaxStatements \in Nat /\ LocalVars \subseteq Vars
         /\ stmts < MaxStatements => stmts + 1 \in 0 .. MaxStatements
<1>1. /\ ety \in Types \cup {NoType} /\ ScopesOK(scopes) /\ LogOK(log, bld)
      /\ stmts \in 0 .. MaxStatements /\ shape \in DOMAIN Shapes
  BY DEF Rest, RestOK, MaxStatements
<1>2. MaxStatements \in Nat /\ LocalVars \subseteq Vars
  BY <1>1, ParserAssumption DEF MaxStatements, LocalVars
<1> QED
  BY <1>1, <1>2

LEMMA ErrorFound ==
  ASSUME Inv, NEW e \in Errors, Fail(e), shape' = shape,
         \/ mode = "stmt" /\ Idle
         \/ mode \in {"operand", "value"}
  PROVE  Stepped
<1>1. /\ Quiet(bld, cur, ctl) /\ ret \in 0 .. Len(bld.inst) /\ Rest /\ IsRow(work)
      /\ Len(work) = 0
  <2>1. CASE mode = "stmt" /\ Idle
    BY <2>1, AtRest
  <2>2. CASE mode \in {"operand", "value"}
    BY <2>2, AtExpression
  <2> QED
    BY <2>1, <2>2
<1>2. /\ mode' = e /\ bld' = bld /\ work' = work /\ ret' = ret /\ cur' = cur /\ ctl' = ctl
      /\ UNCHANGED <<ety, scopes, stmts, log>>
  BY DEF Fail
<1>3. RestNext
  BY <1>1, <1>2, RestStays
<1>4. Settles
  BY <1>1, <1>2 DEF Settles
<1>5. Inv'
  BY <1>1, <1>2, <1>3, <1>4, Settling
<1>6. Keeps(bld, bld')
  BY <1>1, <1>2, SameKept
<1> QED
  BY <1>5, <1>6 DEF Stepped

LEMMA ZeroValue ==
  ASSUME NEW s, NEW c, NEW q, Quiet(s, c, q)
  PROVE  0 \in 0 .. Len(s.inst)
<1>1. Len(s.inst) \in Nat
  BY QuietFacts
<1> QED
  BY <1>1

LEMMA BeginsStatement ==
  ASSUME Inv, shape' = shape, NEW k \in WaitingKinds \ {"while"}, NEW x \in Vars \cup {""},
         k \in {"let", "assign"} => x \in Vars, BeginStatement(k, x)
  PROVE  Stepped
<1>1. /\ mode = "stmt" /\ Idle /\ bld.term[cur].op = "none"
      /\ (k # "return" => stmts < MaxStatements)
      /\ ctl' = <<Open(k, x, 0, 0, 0)>> \o ctl
      /\ stmts' = IF k = "return" THEN stmts ELSE stmts + 1
      /\ mode' = "operand" /\ bld' = bld /\ work' = work /\ ret' = ret
      /\ ety' = ety /\ cur' = cur /\ scopes' = scopes /\ log' = log
  BY DEF BeginStatement, AtStatement, IsTerminated, builderVars, NoValue
<1>2. /\ Quiet(bld, cur, ctl) /\ Bodied(ctl) /\ ret \in 0 .. Len(bld.inst) /\ Rest
      /\ IsRow(work) /\ Len(work) = 0 /\ IsRow(ctl)
  BY <1>1, AtRest
<1>0. 0 \in 0 .. Len(bld.inst)
  BY <1>2, ZeroValue
<1> PICK o : o = Open(k, x, 0, 0, 0)
  OBVIOUS
<1>3. OnTop(ctl', o, ctl)
  BY <1>1, <1>2, Front
<1>4. o.k = k
  BY DEF Open
<1>5. Waiting(ctl', cur)
  BY <1>2, <1>3, <1>4, WaitPush
<1>6. Quiet(bld, cur, ctl')
  <2>1. k \notin {"name", "bin", "while"}
    BY DEF WaitingKinds
  <2>2. Quiet(bld, cur, <<Open(k, x, 0, 0, 0)>> \o ctl)
    BY <1>2, <1>0, <2>1, QuietPlain
  <2> QED
    BY <1>1, <2>2
<1>7. AtOperand(bld', cur', ctl', ret')
  BY <1>1, <1>2, <1>5, <1>6 DEF AtOperand
<1>8. RestNext
  BY <1>1, <1>2, RestParts DEF RestNext
<1>9. Inv'
  BY <1>1, <1>2, <1>7, <1>8, Settling DEF Settles
<1>10. Keeps(bld, bld')
  BY <1>1, <1>2, SameKept
<1> QED
  BY <1>9, <1>10 DEF Stepped

LEMMA BeginsWhileLoop ==
  ASSUME Inv, shape' = shape, BeginWhile
  PROVE  Stepped /\ Led(bld, bld')
<1> PICK h, o, u : WhileBegun(bld, cur, u, h, o)
  BY DEF WhileBegun
<1>1. /\ mode = "stmt" /\ Idle /\ bld.term[cur].op = "none" /\ stmts < MaxStatements
      /\ stmts' = stmts + 1 /\ mode' = "operand" /\ work' = work /\ ret' = ret
      /\ ety' = ety /\ scopes' = scopes /\ log' = Append(log, <<>>)
  BY DEF BeginWhile, AtStatement, IsTerminated
<1>2. /\ Quiet(bld, cur, ctl) /\ Bodied(ctl) /\ ret \in 0 .. Len(bld.inst) /\ Rest
      /\ IsRow(work) /\ Len(work) = 0 /\ IsRow(ctl)
  BY <1>1, AtRest
<1>3. /\ Quiet(u, h, <<o>> \o ctl) /\ Keeps(bld, u) /\ Led(bld, u)
      /\ Len(u.term) = h /\ u.term[h].op = "none" /\ u.inst = bld.inst
      /\ o.k = "while" /\ o.b = h
  BY <1>1, <1>2, BeginsWhile
<1>4. Len(NewBlock(bld).term) = Len(bld.term) + 1 /\ h = Len(bld.term) + 1
  <2>1. Core(bld, bld.sealed, {})
    BY <1>2 DEF Quiet
  <2>2. AddsBlock(bld, NewBlock(bld))
    BY <2>1, NewBlockAdds
  <2> QED
    BY <2>2 DEF AddsBlock, Appended, WhileBegun
<1>5. bld' = u /\ cur' = h /\ ctl' = <<o>> \o ctl
  <2>1. /\ bld' = Terminate(NewBlock(bld), cur, Jump(Len(NewBlock(bld).term)))
        /\ cur' = Len(NewBlock(bld).term)
        /\ ctl' = <<Open("while", "", Len(NewBlock(bld).term), 0, NoValue)>> \o ctl
    BY DEF BeginWhile, LastBlock
  <2> QED
    BY <1>4, <2>1, Zenon DEF WhileBegun
<1>6. OnTop(<<o>> \o ctl, o, ctl)
  BY <1>2, Front
<1>7. Waiting(<<o>> \o ctl, h)
  <2>1. o.k \in WaitingKinds
    BY <1>3 DEF WaitingKinds
  <2> QED
    BY <1>2, <1>3, <1>6, <2>1, WaitPush
<1>8. AtOperand(bld', cur', ctl', ret')
  BY <1>1, <1>2, <1>3, <1>5, <1>7 DEF AtOperand
<1>9. LogOK(log', bld')
  <2>1. Len(u.term) = Len(bld.term) + 1 /\ LogOK(log, bld)
    BY <1>2, <1>3, <1>4, RestParts
  <2>2. LogOK(log', u)
    BY <1>1, <2>1, LogGrows
  <2> QED
    BY <1>5, <2>2
<1>10. RestNext
  BY <1>1, <1>2, <1>9, RestParts DEF RestNext
<1>11. Inv'
  BY <1>1, <1>2, <1>8, <1>10, Settling DEF Settles
<1> QED
  BY <1>3, <1>5, <1>11 DEF Stepped

\* A construct that owns no block is closed.
LEMMA ConstructDone ==
  ASSUME NEW s, NEW c, NEW q, Quiet(s, c, q), Waiting(q, c), NEW o, NEW r, OnTop(q, o, r),
         o.k \in {"let", "assign", "return", "expr"}
  PROVE  Quiet(s, c, r) /\ Bodied(r) /\ (o.k \in {"let", "assign"} => o.x \in Vars)
<1>1. Kept(o) = 0 /\ Unsealed(o) = 0
  BY DEF Kept, Unsealed
<1>2. EntryOK(o, s, c, s.sealed) /\ Quiet(s, c, r)
  BY <1>1, QuietPop
<1>3. o.k \notin OperandKinds
  BY DEF OperandKinds
<1>4. Bodied(r)
  BY <1>3, WaitTop
<1>5. o.k \in {"let", "assign"} => o.x \in Vars
  BY <1>2 DEF EntryOK
<1> QED
  BY <1>2, <1>4, <1>5

LEMMA FinishesExpr ==
  ASSUME Inv, shape' = shape, ExprStatement
  PROVE  Stepped
<1>1. /\ mode = "value" /\ Inner.k = "expr" /\ mode' = "stmt" /\ ctl' = Tail(ctl)
      /\ bld' = bld /\ work' = work /\ ret' = ret /\ cur' = cur
      /\ UNCHANGED <<ety, scopes, stmts, log>>
  BY DEF ExprStatement, AtValue, NextStatement, builderVars
<1>2. /\ Quiet(bld, cur, ctl) /\ Waiting(ctl, cur) /\ ret \in 0 .. Len(bld.inst) /\ Rest
      /\ IsRow(work) /\ Len(work) = 0 /\ OnTop(ctl, Inner, Tail(ctl))
  BY <1>1, AtExpression
<1>3. Quiet(bld, cur, Tail(ctl)) /\ Bodied(Tail(ctl))
  BY <1>1, <1>2, ConstructDone
<1>4. AtStmt(bld', cur', ctl', ret')
  BY <1>1, <1>2, <1>3 DEF AtStmt
<1>5. RestNext
  BY <1>1, <1>2, RestStays
<1>6. Inv'
  BY <1>1, <1>2, <1>4, <1>5, Settling DEF Settles
<1>7. Keeps(bld, bld')
  BY <1>1, <1>2, SameKept
<1> QED
  BY <1>6, <1>7 DEF Stepped

\* let and assign: the value the expression left is bound in the current block.
LEMMA BindsName ==
  ASSUME NEW s, NEW c, NEW q, Quiet(s, c, q), NEW x \in Vars, NEW v \in ValuesOf(s),
         NEW u, u \in {Write(s, x, c, v)}
  PROVE  /\ Quiet(u, c, q) /\ Keeps(s, u) /\ Len(u.term) = Len(s.term) /\ u.inst = s.inst
<1>1. Core(s, s.sealed, {}) /\ c \in BlocksOf(s)
  BY DEF Quiet
<1>2. Binds(s, u, x, c, v)
  BY <1>1, WriteBinds
<1>3. Core(u, s.sealed, {}) /\ Changes(s, u, {c}, {}, {})
  BY <1>1, <1>2, CoreBinds, BindsChanges
<1>4. u.sealed = s.sealed /\ u.term = s.term /\ u.inst = s.inst
  BY <1>2 DEF Binds
<1>5. Quiet(u, c, q) /\ Keeps(s, u)
  BY <1>3, <1>4, QuietChange
<1> QED
  BY <1>4, <1>5

LEMMA FinishesLet ==
  ASSUME Inv, shape' = shape, FinishLet
  PROVE  Stepped
<1>1. /\ mode = "value" /\ Inner.k = "let" /\ mode' = "stmt" /\ ctl' = Tail(ctl)
      /\ bld' \in {Write(bld, Inner.x, cur, ret)} /\ work' = work /\ ret' = ret /\ cur' = cur
      /\ ety' = ety /\ stmts' = stmts
  BY DEF FinishLet, AtValue, NextStatement
<1>2. /\ Quiet(bld, cur, ctl) /\ Waiting(ctl, cur) /\ ret \in 0 .. Len(bld.inst) /\ Rest
      /\ IsRow(work) /\ Len(work) = 0 /\ OnTop(ctl, Inner, Tail(ctl)) /\ ret \in ValuesOf(bld)
  BY <1>1, AtExpression
<1>3. Quiet(bld, cur, Tail(ctl)) /\ Bodied(Tail(ctl)) /\ Inner.x \in Vars
  BY <1>1, <1>2, ConstructDone
<1>4. /\ Quiet(bld', cur, Tail(ctl)) /\ Keeps(bld, bld') /\ Len(bld'.term) = Len(bld.term)
      /\ bld'.inst = bld.inst
  BY <1>1, <1>2, <1>3, BindsName
<1>5. AtStmt(bld', cur', ctl', ret')
  BY <1>1, <1>2, <1>3, <1>4 DEF AtStmt
<1>6. ScopesOK(scopes')
  <2>1. ScopesOK(scopes) /\ scopes' = [scopes EXCEPT ![Len(scopes)][Inner.x] = ety]
    BY <1>2, RestParts DEF FinishLet
  <2>2. ety \in Types \cup {NoType}
    BY <1>2, RestParts
  <2> QED
    BY <1>3, <2>1, <2>2, ScopeBinds
<1>7. LogOK(log', bld')
  <2>1. LogOK(log, bld) /\ log' = Logged(log, cur, Wrote(Inner.x, Len(scopes), ret))
    BY <1>2, RestParts DEF FinishLet
  <2> QED
    BY <1>4, <2>1, LogWritten
<1>8. RestNext
  BY <1>1, <1>2, <1>6, <1>7, RestParts DEF RestNext
<1>9. Inv'
  BY <1>1, <1>2, <1>5, <1>8, Settling DEF Settles
<1> QED
  BY <1>4, <1>9 DEF Stepped

LEMMA FinishesAssign ==
  ASSUME Inv, shape' = shape, FinishAssign
  PROVE  Stepped
<1>1. /\ mode = "value" /\ Inner.k = "assign" /\ mode' = "stmt" /\ ctl' = Tail(ctl)
      /\ bld' \in {Write(bld, Inner.x, cur, ret)} /\ work' = work /\ ret' = ret /\ cur' = cur
      /\ ety' = ety /\ stmts' = stmts /\ scopes' = scopes
  BY DEF FinishAssign, AtValue, NextStatement
<1>2. /\ Quiet(bld, cur, ctl) /\ Waiting(ctl, cur) /\ ret \in 0 .. Len(bld.inst) /\ Rest
      /\ IsRow(work) /\ Len(work) = 0 /\ OnTop(ctl, Inner, Tail(ctl)) /\ ret \in ValuesOf(bld)
  BY <1>1, AtExpression
<1>3. Quiet(bld, cur, Tail(ctl)) /\ Bodied(Tail(ctl)) /\ Inner.x \in Vars
  BY <1>1, <1>2, ConstructDone
<1>4. /\ Quiet(bld', cur, Tail(ctl)) /\ Keeps(bld, bld') /\ Len(bld'.term) = Len(bld.term)
      /\ bld'.inst = bld.inst
  BY <1>1, <1>2, <1>3, BindsName
<1>5. AtStmt(bld', cur', ctl', ret')
  BY <1>1, <1>2, <1>3, <1>4 DEF AtStmt
<1>7. LogOK(log', bld')
  <2>1. LogOK(log, bld) /\ log' = Logged(log, cur, Wrote(Inner.x, ScopeOf(Inner.x), ret))
    BY <1>2, RestParts DEF FinishAssign
  <2> QED
    BY <1>4, <2>1, LogWritten
<1>8. RestNext
  BY <1>1, <1>2, <1>7, RestParts DEF RestNext
<1>9. Inv'
  BY <1>1, <1>2, <1>5, <1>8, Settling DEF Settles
<1> QED
  BY <1>4, <1>9 DEF Stepped

LEMMA FinishesReturn ==
  ASSUME Inv, shape' = shape, FinishReturn
  PROVE  Stepped
<1> PICK u : u \in {Terminate(bld, cur, Return(ret))}
  OBVIOUS
<1>1. /\ mode = "value" /\ Inner.k = "return" /\ mode' = "stmt" /\ ctl' = Tail(ctl)
      /\ bld' = u /\ work' = work /\ ret' = ret /\ cur' = cur
      /\ UNCHANGED <<ety, scopes, stmts, log>>
  BY DEF FinishReturn, AtValue, NextStatement
<1>2. /\ Quiet(bld, cur, ctl) /\ Waiting(ctl, cur) /\ ret \in 0 .. Len(bld.inst) /\ Rest
      /\ IsRow(work) /\ Len(work) = 0 /\ OnTop(ctl, Inner, Tail(ctl)) /\ ret \in ValuesOf(bld)
      /\ bld.term[cur].op = "none" /\ cur \in BlocksOf(bld)
  BY <1>1, AtExpression
<1>3. Quiet(bld, cur, Tail(ctl)) /\ Bodied(Tail(ctl))
  BY <1>1, <1>2, ConstructDone
<1>4. /\ Core(u, bld.sealed, {}) /\ Changes(bld, u, {cur}, {}, {})
      /\ Ends(bld, u, cur, Return(ret))
  <2>1. Core(bld, bld.sealed, {}) /\ cur \in {cur}
    BY <1>2 DEF Quiet
  <2> QED
    BY <1>2, <2>1, ReturnStep
<1>5. u.sealed = bld.sealed /\ Len(u.term) = Len(bld.term) /\ u.inst = bld.inst
  BY <1>4 DEF Ends
<1>6. Quiet(u, cur, Tail(ctl)) /\ Keeps(bld, u)
  BY <1>3, <1>4, <1>5, QuietChange
<1>7. AtStmt(bld', cur', ctl', ret')
  BY <1>1, <1>2, <1>3, <1>5, <1>6 DEF AtStmt
<1>8. RestNext
  BY <1>1, <1>2, <1>5, RestStays
<1>9. Inv'
  BY <1>1, <1>2, <1>7, <1>8, Settling DEF Settles
<1> QED
  BY <1>1, <1>6, <1>9 DEF Stepped

-----------------------------------------------------------------------------
(* The conditions of if and while, and the ends of bodies.                 *)

\* What IfCondition and WhileCondition have in common.
OpensTwo(u, t, e, o2) ==
  /\ TwoWay(bld, cur, ret, u, t, e) /\ BodyOpened(Inner, cur, e, o2)
  /\ bld' = u /\ cur' = t /\ ctl' = <<o2>> \o Tail(ctl)
BodyEntered ==
  /\ mode = "value" /\ mode' = "stmt" /\ PushScope
  /\ log' = log \o << <<Taken(ret)>>, <<NotTaken(ret)>> >>
  /\ work' = work /\ ret' = ret /\ ety' = ety /\ stmts' = stmts /\ shape' = shape

LEMMA EntersBody ==
  ASSUME Inv, BodyEntered, NEW u, NEW t, NEW e, NEW o2, OpensTwo(u, t, e, o2)
  PROVE  Stepped /\ Led(bld, bld')
<1>1. /\ mode = "value" /\ mode' = "stmt" /\ PushScope
      /\ work' = work /\ ret' = ret /\ ety' = ety /\ stmts' = stmts /\ shape' = shape
      /\ bld' = u /\ cur' = t /\ ctl' = <<o2>> \o Tail(ctl)
  BY DEF BodyEntered, OpensTwo
<1>2. /\ Quiet(bld, cur, ctl) /\ Waiting(ctl, cur) /\ ret \in 0 .. Len(bld.inst) /\ Rest
      /\ IsRow(work) /\ Len(work) = 0 /\ OnTop(ctl, Inner, Tail(ctl)) /\ ret \in ValuesOf(bld)
      /\ bld.term[cur].op = "none"
  BY <1>1, AtExpression
<1>3. TwoWay(bld, cur, ret, u, t, e) /\ BodyOpened(Inner, cur, e, o2)
  BY DEF OpensTwo
<1>4. /\ Quiet(u, t, <<o2>> \o Tail(ctl)) /\ Keeps(bld, u) /\ Led(bld, u)
      /\ Len(u.term) = Len(bld.term) + 2 /\ u.inst = bld.inst /\ o2.k \in {"then", "loop"}
  BY <1>2, <1>3, OpensBody
<1>5. Bodied(Tail(ctl)) /\ IsRow(Tail(ctl))
  <2>1. Inner.k \notin OperandKinds
    BY <1>3 DEF BodyOpened, OperandKinds
  <2>2. Bodied(Tail(ctl))
    BY <1>2, <2>1, WaitTop
  <2> QED
    BY <2>2 DEF Bodied
<1>6. Bodied(<<o2>> \o Tail(ctl))
  <2>1. OnTop(<<o2>> \o Tail(ctl), o2, Tail(ctl))
    BY <1>5, Front
  <2>2. o2.k \in BodyKinds \ {"fn"}
    BY <1>4 DEF BodyKinds, Bodies
  <2> QED
    BY <1>5, <2>1, <2>2, BodiedPush
<1>7. AtStmt(bld', cur', ctl', ret')
  BY <1>1, <1>2, <1>4, <1>6 DEF AtStmt
<1>8. LogOK(log', bld')
  <2>1. LogOK(log, bld)
    BY <1>2, RestParts
  <2>2. LogOK(log \o << <<Taken(ret)>>, <<NotTaken(ret)>> >>, u)
    BY <1>4, <2>1, LogGrowsTwo
  <2> QED
    BY <1>1, <2>2 DEF BodyEntered
<1>9. ScopesOK(scopes')
  BY <1>1, <1>2, RestParts, ScopePushed
<1>10. RestNext
  BY <1>1, <1>2, <1>8, <1>9, RestParts DEF RestNext
<1>11. Inv'
  BY <1>1, <1>2, <1>7, <1>10, Settling DEF Settles
<1> QED
  BY <1>1, <1>4, <1>11 DEF Stepped

LEMMA EntersThen ==
  ASSUME Inv, shape' = shape, IfCondition
  PROVE  Stepped /\ Led(bld, bld')
<1> PICK t : t \in {Len(bld.term) + 1}
  OBVIOUS
<1> PICK e : e \in {Len(bld.term) + 2}
  OBVIOUS
<1> PICK o2 : o2 \in {Open("then", "", e, 0, NoValue)}
  OBVIOUS
<1>1. OpensTwo(bld', t, e, o2)
  BY DEF IfCondition, AtValue, LastBlock, OpensTwo, TwoWay, BodyOpened
<1>2. BodyEntered
  BY DEF IfCondition, AtValue, BodyEntered
<1> QED
  BY <1>1, <1>2, EntersBody

LEMMA LoopOpens ==
  ASSUME Inv, WhileCondition, NEW t, t \in {Len(bld.term) + 1}, NEW e, e \in {Len(bld.term) + 2},
         NEW o2, o2 \in {Open("loop", "", cur, e, NoValue)}
  PROVE  OpensTwo(bld', t, e, o2)
<1>1. mode = "value" /\ Inner.k = "while"
  BY DEF WhileCondition, AtValue
<1>2. cur = Inner.b
  <2>1. Waiting(ctl, cur) /\ OnTop(ctl, Inner, Tail(ctl))
    BY <1>1, AtExpression
  <2>2. Inner.k \notin OperandKinds
    BY <1>1 DEF OperandKinds
  <2> QED
    BY <1>1, <2>1, <2>2, WaitTop
<1>3. TwoWay(bld, cur, ret, bld', t, e)
  <2>1. bld' = SealFresh(Terminate(NewBlock(NewBlock(bld)), Inner.b,
                                   Branch(ret, Len(bld.term) + 1, Len(bld.term) + 2)),
                         {Len(bld.term) + 1, Len(bld.term) + 2})
    BY DEF WhileCondition, LastBlock
  <2> QED
    BY <1>2, <2>1 DEF TwoWay
<1>4. cur' = t /\ ctl' = <<o2>> \o Tail(ctl)
  <2>1. /\ cur' = Len(bld.term) + 1
        /\ ctl' = <<Open("loop", "", Inner.b, Len(bld.term) + 2, NoValue)>> \o Tail(ctl)
    BY DEF WhileCondition, LastBlock
  <2> QED
    BY <1>2, <2>1
<1>5. BodyOpened(Inner, cur, e, o2)
  BY <1>1, <1>2 DEF BodyOpened
<1> QED
  BY <1>3, <1>4, <1>5 DEF OpensTwo

LEMMA EntersLoop ==
  ASSUME Inv, shape' = shape, WhileCondition
  PROVE  Stepped /\ Led(bld, bld')
<1> PICK t : t \in {Len(bld.term) + 1}
  OBVIOUS
<1> PICK e : e \in {Len(bld.term) + 2}
  OBVIOUS
<1> PICK o2 : o2 \in {Open("loop", "", cur, e, NoValue)}
  OBVIOUS
<1>1. OpensTwo(bld', t, e, o2)
  BY LoopOpens
<1>2. BodyEntered
  BY DEF WhileCondition, AtValue, BodyEntered
<1> QED
  BY <1>1, <1>2, EntersBody

\* What the three ends of an if have in common.
ArmsClosed(a, b) ==
  /\ mode = "stmt" /\ Idle /\ Arms(Inner, cur, a, b) /\ CloseIf(a, b)
  /\ mode' = "stmt" /\ ctl' = Tail(ctl)
  /\ work' = work /\ ret' = ret /\ ety' = ety /\ stmts' = stmts /\ shape' = shape

LEMMA ClosesArms ==
  ASSUME Inv, NEW a, NEW b, ArmsClosed(a, b), ScopesOK(scopes')
  PROVE  Stepped /\ Led(bld, bld')
<1>1. /\ mode = "stmt" /\ Idle /\ Arms(Inner, cur, a, b) /\ CloseIf(a, b)
      /\ mode' = "stmt" /\ ctl' = Tail(ctl)
      /\ work' = work /\ ret' = ret /\ ety' = ety /\ stmts' = stmts /\ shape' = shape
  BY DEF ArmsClosed
<1>2. /\ Quiet(bld, cur, ctl) /\ Bodied(ctl) /\ ret \in 0 .. Len(bld.inst) /\ Rest
      /\ IsRow(work) /\ Len(work) = 0 /\ OnTop(ctl, Inner, Tail(ctl))
  BY <1>1, AtRest
<1>3. IfClosed(bld, a, b, bld', cur')
  BY <1>1 DEF CloseIf, IfClosed, IsTerminated, LastBlock
<1>4. /\ Quiet(bld', cur', Tail(ctl)) /\ Keeps(bld, bld') /\ Led(bld, bld')
      /\ bld'.inst = bld.inst
      /\ bld.term[a].op # "none" /\ bld.term[b].op # "none" => bld' = bld
      /\ bld.term[a].op = "none" \/ bld.term[b].op = "none" => Len(bld'.term) = Len(bld.term) + 1
  BY <1>1, <1>2, <1>3, ClosesIf
<1>5. Bodied(Tail(ctl))
  <2>1. Inner.k # "fn"
    BY <1>1 DEF Arms
  <2> QED
    BY <1>2, <2>1, BodiedPop
<1>6. AtStmt(bld', cur', ctl', ret')
  BY <1>1, <1>2, <1>4, <1>5 DEF AtStmt
<1>7. LogOK(log', bld')
  <2>1. LogOK(log, bld)
    BY <1>2, RestParts
  <2>2. CASE bld.term[a].op # "none" /\ bld.term[b].op # "none"
    <3>1. log' = log /\ bld' = bld
      BY <1>1, <2>2 DEF CloseIf, IsTerminated
    <3> QED
      BY <2>1, <3>1
  <2>3. CASE ~(bld.term[a].op # "none" /\ bld.term[b].op # "none")
    <3>1. log' = Append(log, <<>>)
      BY <1>1, <2>3 DEF CloseIf, IsTerminated
    <3>2. Len(bld'.term) = Len(bld.term) + 1
      BY <1>4, <2>3
    <3> QED
      BY <2>1, <3>1, <3>2, LogGrows
  <2> QED
    BY <2>2, <2>3
<1>8. RestNext
  BY <1>1, <1>2, <1>7, RestParts DEF RestNext
<1>9. Inv'
  BY <1>1, <1>2, <1>6, <1>8, Settling DEF Settles
<1> QED
  BY <1>4, <1>9 DEF Stepped

LEMMA ClosesIfs ==
  ASSUME Inv, shape' = shape, EndThenNoElse \/ EndElse \/ EndElseIf
  PROVE  Stepped /\ Led(bld, bld')
<1>0. ScopesOK(scopes)
  BY DEF Inv
<1>1. CASE EndThenNoElse
  <2>1. ArmsClosed(cur, Inner.b)
    BY <1>1 DEF EndThenNoElse, AtBodyEnd, NextStatement, ArmsClosed, Arms
  <2>2. ScopesOK(scopes')
    BY <1>0, <1>1, ScopePopped DEF EndThenNoElse
  <2> QED
    BY <2>1, <2>2, ClosesArms
<1>2. CASE EndElse
  <2>1. ArmsClosed(Inner.b, cur)
    BY <1>2 DEF EndElse, AtBodyEnd, NextStatement, ArmsClosed, Arms
  <2>2. ScopesOK(scopes')
    BY <1>0, <1>2, ScopePopped DEF EndElse
  <2> QED
    BY <2>1, <2>2, ClosesArms
<1>3. CASE EndElseIf
  <2>1. ArmsClosed(Inner.b, cur)
    BY <1>3 DEF EndElseIf, AtBodyEnd, NextStatement, ArmsClosed, Arms
  <2>2. ScopesOK(scopes')
    BY <1>0, <1>3 DEF EndElseIf
  <2> QED
    BY <2>1, <2>2, ClosesArms
<1> QED
  BY <1>1, <1>2, <1>3

LEMMA EntersElse ==
  ASSUME Inv, shape' = shape, EndThenElse
  PROVE  Stepped
<1> PICK o2 : o2 \in {Open("else", "", cur, 0, NoValue)}
  OBVIOUS
<1>0. ArmTurned("else", cur, o2)
  BY DEF ArmTurned
<1>1. /\ mode = "stmt" /\ Idle /\ Inner.k = "then" /\ cur' = Inner.b
      /\ ctl' = <<o2>> \o Tail(ctl) /\ scopes' = [scopes EXCEPT ![Len(scopes)] = EmptyScope]
      /\ bld' = bld /\ work' = work /\ ret' = ret /\ mode' = "stmt" /\ ety' = ety
      /\ stmts' = stmts /\ log' = log
  BY DEF EndThenElse, AtBodyEnd, ArmTurned, builderVars
<1>2. /\ Quiet(bld, cur, ctl) /\ Bodied(ctl) /\ ret \in 0 .. Len(bld.inst) /\ Rest
      /\ IsRow(work) /\ Len(work) = 0 /\ OnTop(ctl, Inner, Tail(ctl))
  BY <1>1, AtRest
<1>3. /\ Quiet(bld, Inner.b, <<o2>> \o Tail(ctl)) /\ Keeps(bld, bld) /\ o2.k \in {"else", "elseif"}
  BY <1>0, <1>1, <1>2, TurnsArm
<1>4. Bodied(<<o2>> \o Tail(ctl))
  <2>1. Bodied(Tail(ctl))
    BY <1>1, <1>2, BodiedPop
  <2>2. OnTop(<<o2>> \o Tail(ctl), o2, Tail(ctl))
    BY <2>1, Front DEF Bodied
  <2>3. o2.k \in BodyKinds \ {"fn"}
    BY <1>3 DEF BodyKinds, Bodies
  <2> QED
    BY <2>1, <2>2, <2>3, BodiedPush
<1>5. AtStmt(bld', cur', ctl', ret')
  BY <1>1, <1>2, <1>3, <1>4 DEF AtStmt
<1>6. ScopesOK(scopes')
  <2>1. EmptyScope \in [Vars -> Types \cup {NoType}]
    BY DEF EmptyScope
  <2> QED
    BY <1>1, <1>2, <2>1, RestParts, ScopeChanged
<1>7. RestNext
  BY <1>1, <1>2, <1>6, RestParts DEF RestNext
<1>8. Inv'
  BY <1>1, <1>2, <1>5, <1>7, Settling DEF Settles
<1> QED
  BY <1>1, <1>3, <1>8 DEF Stepped

LEMMA OneRowOnTop ==
  ASSUME NEW q, NEW p, NEW o, NEW r, OnTop(q, o, r), OnTop(p, o, r)
  PROVE  q = p
<1>1. /\ 1 .. Len(q) = {1} \cup {k + 1 : k \in 1 .. Len(r)} /\ Len(q) = Len(p)
      /\ q[1] = p[1] /\ \A k \in 1 .. Len(r) : q[k + 1] = p[k + 1]
  BY OnTopSplits
<1>2. \A k \in 1 .. Len(q) : q[k] = p[k]
  BY <1>1
<1>3. IsRow(q) /\ IsRow(p)
  BY DEF OnTop
<1> QED
  BY <1>1, <1>2, <1>3, RowsEqual

LEMMA EntersElseIf ==
  ASSUME Inv, shape' = shape, EndThenElseIf
  PROVE  Stepped
<1> PICK o2 : o2 \in {Open("elseif", "", cur, 0, NoValue)}
  OBVIOUS
<1> PICK o3 : o3 \in {Open("if", "", 0, 0, 0)}
  OBVIOUS
<1> PICK mid : mid \in {<<o2>> \o Tail(ctl)}
  OBVIOUS
<1>0. ArmTurned("elseif", cur, o2)
  BY DEF ArmTurned
<1>1. /\ mode = "stmt" /\ Idle /\ Inner.k = "then" /\ cur' = Inner.b
      /\ ctl' = <<o3, o2>> \o Tail(ctl) /\ PopScope
      /\ bld' = bld /\ work' = work /\ ret' = ret /\ mode' = "operand" /\ ety' = ety
      /\ stmts < MaxStatements /\ stmts' = stmts + 1 /\ log' = log
  BY DEF EndThenElseIf, AtBodyEnd, builderVars, NoValue
<1>2. /\ Quiet(bld, cur, ctl) /\ Bodied(ctl) /\ ret \in 0 .. Len(bld.inst) /\ Rest
      /\ IsRow(work) /\ Len(work) = 0 /\ OnTop(ctl, Inner, Tail(ctl))
  BY <1>1, AtRest
<1>3. /\ Quiet(bld, Inner.b, mid) /\ Keeps(bld, bld) /\ o2.k \in {"else", "elseif"}
      /\ bld.term[Inner.b].op = "none"
  <2>1. Quiet(bld, cur, ctl) /\ OnTop(ctl, Inner, Tail(ctl)) /\ Inner.k \in {"then"}
    BY <1>1, <1>2
  <2>2. /\ Quiet(bld, Inner.b, <<o2>> \o Tail(ctl)) /\ Keeps(bld, bld)
        /\ o2.k \in {"else", "elseif"} /\ bld.term[Inner.b].op = "none"
    BY <1>0, <2>1, TurnsArm
  <2> QED
    BY <2>2
<1>4. Bodied(mid) /\ OnTop(mid, o2, Tail(ctl)) /\ IsRow(Tail(ctl))
  <2>1. Bodied(Tail(ctl))
    BY <1>1, <1>2, BodiedPop
  <2>2. OnTop(mid, o2, Tail(ctl))
    BY <2>1, Front DEF Bodied
  <2>3. o2.k \in BodyKinds \ {"fn"}
    BY <1>3 DEF BodyKinds, Bodies
  <2> QED
    BY <2>1, <2>2, <2>3, BodiedPush DEF Bodied
<1>5. OnTop(ctl', o3, mid)
  <2>1. PICK m : OnTop(m, o2, Tail(ctl)) /\ OnTop(<<o3, o2>> \o Tail(ctl), o3, m)
    BY <1>4, TwoCalls
  <2>2. m = mid
    BY <1>4, <2>1, OneRowOnTop
  <2> QED
    BY <1>1, <2>1, <2>2
<1>6. Quiet(bld, Inner.b, <<o3>> \o mid)
  <2>1. Quiet(bld, Inner.b, <<Open("if", "", 0, 0, 0)>> \o mid)
    <3>1. 0 \in 0 .. Len(bld.inst)
      BY <1>2, ZeroValue
    <3>2. "if" \in WaitingKinds
      BY DEF WaitingKinds
    <3> QED
      BY <1>3, <3>1, <3>2, QuietPlain
  <2> QED
    BY <2>1
<1>7. ctl' = <<o3>> \o mid
  <2>1. OnTop(<<o3>> \o mid, o3, mid)
    BY <1>4, Front DEF Bodied
  <2> QED
    BY <1>5, <2>1, OneRowOnTop
<1>8. Waiting(ctl', Inner.b)
  <2>0. o3.k = "if"
    <3>1. Open("if", "", 0, 0, 0).k = "if"
      BY DEF Open
    <3> QED
      BY <3>1
  <2>1. o3.k \in WaitingKinds /\ o3.k # "while"
    BY <2>0 DEF WaitingKinds
  <2> QED
    BY <1>4, <1>5, <2>1, WaitPush
<1>9. AtOperand(bld', cur', ctl', ret')
  BY <1>1, <1>2, <1>3, <1>6, <1>7, <1>8 DEF AtOperand
<1>10. ScopesOK(scopes')
  BY <1>1, <1>2, RestParts, ScopePopped
<1>11. RestNext
  BY <1>1, <1>2, <1>10, RestParts DEF RestNext
<1>12. Inv'
  BY <1>1, <1>2, <1>9, <1>11, Settling DEF Settles
<1> QED
  BY <1>1, <1>3, <1>12 DEF Stepped

LEMMA EndsLoop ==
  ASSUME Inv, shape' = shape, EndLoop
  PROVE  Stepped
<1>1. /\ mode = "stmt" /\ Idle /\ Inner.k \in {"loop"} /\ cur' = Inner.c /\ ctl' = Tail(ctl)
      /\ PopScope /\ ret' = ret /\ mode' = "stmt"
      /\ ety' = ety /\ stmts' = stmts /\ log' = log
  BY DEF EndLoop, AtBodyEnd, NextStatement
<1>2. /\ Quiet(bld, cur, ctl) /\ Bodied(ctl) /\ ret \in 0 .. Len(bld.inst) /\ Rest
      /\ OnTop(ctl, Inner, Tail(ctl))
  BY <1>1, AtRest
<1>3. LoopClosed(bld, cur, Inner.b, bld', work')
  BY DEF EndLoop, CallSeal, LoopClosed, IsTerminated
<1>4. /\ Held(bld', Inner.c, Tail(ctl), work') /\ Keeps(bld, bld')
      /\ Len(bld'.term) = Len(bld.term) /\ bld'.inst = bld.inst
      /\ IsRow(work') /\ Len(work') = 1 /\ work'[1].op = "seal"
  <2>1. Quiet(bld, cur, ctl) /\ OnTop(ctl, Inner, Tail(ctl)) /\ Inner.k \in {"loop"}
    BY <1>1, <1>2
  <2> QED
    <3>1. LoopLeft(bld, bld', Inner.c, Tail(ctl), work')
      BY <1>3, <2>1, LoopCloses
    <3> QED
      BY <3>1 DEF LoopLeft
<1>5. Bodied(Tail(ctl))
  <2>1. Inner.k # "fn"
    BY <1>1
  <2> QED
    BY <1>2, <2>1, BodiedPop
<1>6. Phase("stmt", work', ret, bld', Inner.c, Tail(ctl))
  <2>1. ret \in 0 .. Len(bld'.inst) /\ work'[1].op \notin {"write", "take"}
    BY <1>2, <1>4
  <2> QED
    BY <1>5, <2>1 DEF Phase, ParserModes
<1>7. LogOK(log', bld') /\ ScopesOK(scopes')
  BY <1>1, <1>2, <1>4, RestParts, LogSame, ScopePopped
<1>8. RestNext
  BY <1>1, <1>2, <1>7, RestParts DEF RestNext
<1>9. Inv'
  <2>1. Held(bld', cur', ctl', work') /\ Phase(mode', work', ret', bld', cur', ctl')
    BY <1>1, <1>4, <1>6
  <2> QED
    BY <1>2, <1>4, <1>8, <2>1, Arrives
<1> QED
  BY <1>4, <1>9 DEF Stepped

LEMMA EndsFunction ==
  ASSUME Inv, shape' = shape, EndFunction
  PROVE  Stepped
<1>1. /\ mode = "stmt" /\ Idle /\ Inner.k = "fn" /\ mode' = "done" /\ ctl' = <<>> /\ PopScope
      /\ bld' = bld /\ work' = work /\ ret' = ret /\ ety' = ety /\ cur' = cur
      /\ stmts' = stmts /\ log' = log
  BY DEF EndFunction, AtBodyEnd, builderVars
<1>2. /\ Quiet(bld, cur, ctl) /\ Bodied(ctl) /\ ret \in 0 .. Len(bld.inst) /\ Rest
      /\ IsRow(work) /\ Len(work) = 0 /\ OnTop(ctl, Inner, Tail(ctl))
  BY <1>1, AtRest
<1>3. Len(Tail(ctl)) = 0 /\ IsRow(Tail(ctl))
  BY <1>1, <1>2, BodiedPop DEF OnTop
<1>4. ctl' = Tail(ctl) /\ Len(ctl') = 0
  <2>1. IsRow(<<>>) /\ Len(<<>>) = 0
    BY EmptyRow
  <2>2. \A k \in 1 .. 0 : FALSE
    OBVIOUS
  <2>3. Tail(ctl) = <<>>
    BY <1>3, <2>1, <2>2, RowsEqual
  <2> QED
    BY <1>1, <1>3, <2>3
<1>5. Quiet(bld, cur, Tail(ctl))
  <2>1. Kept(Inner) = 0 /\ Unsealed(Inner) = 0
    BY <1>1 DEF Kept, Unsealed
  <2> QED
    BY <1>2, <2>1, QuietPop
<1>6. Settles
  BY <1>1, <1>2, <1>4, <1>5 DEF Settles
<1>7. ScopesOK(scopes')
  BY <1>1, <1>2, RestParts, ScopePopped
<1>8. RestNext
  BY <1>1, <1>2, <1>7, RestParts DEF RestNext
<1>9. Inv'
  BY <1>1, <1>2, <1>6, <1>8, Settling
<1>10. Keeps(bld, bld')
  BY <1>1, <1>2, SameKept
<1> QED
  BY <1>9, <1>10 DEF Stepped

-----------------------------------------------------------------------------
(* The expressions.                                                        *)

ValueMade(s, u, c, q) ==
  /\ Quiet(u, c, q) /\ Keeps(s, u) /\ Len(u.term) = Len(s.term) /\ u.term[c].op = "none"
  /\ Len(s.inst) + 1 \in ValuesOf(u)

LEMMA EmitsValue ==
  ASSUME NEW s, NEW c, NEW q, Quiet(s, c, q), s.term[c].op = "none",
         NEW kind \in InstKinds \ {"phi"}, NEW ty \in Types, NEW args, RowOf(args, ValuesOf(s)),
         NEW u, u \in {Emit(s, c, kind, ty, args, <<>>)}
  PROVE  ValueMade(s, u, c, q)
<1>1. Core(s, s.sealed, {}) /\ c \in BlocksOf(s)
  BY DEF Quiet
<1>2. /\ Core(u, s.sealed, {}) /\ Changes(s, u, {c}, {}, {})
      /\ AddsInst(s, u, Instruction(c, kind, ty, args, <<>>))
  BY <1>1, EmitStep
<1>3. u.sealed = s.sealed /\ u.term = s.term /\ Len(u.inst) = Len(s.inst) + 1
  BY <1>2 DEF AddsInst, Appended
<1>4. Quiet(u, c, q) /\ Keeps(s, u)
  BY <1>2, <1>3, QuietChange
<1>5. Len(s.inst) \in Nat
  BY QuietFacts
<1>6. Len(s.inst) + 1 \in ValuesOf(u)
  BY <1>3, <1>5 DEF ValuesOf
<1> QED
  BY <1>3, <1>4, <1>6 DEF ValueMade

\* The value of an expression that makes one instruction.
Evaluated(q, ty) ==
  /\ mode \in {"operand", "value"} /\ mode' = "value" /\ ret' = Len(bld.inst) + 1 /\ ety' = ty
  /\ work' = work /\ cur' = cur /\ scopes' = scopes /\ stmts' = stmts /\ log' = log
  /\ ctl' = q /\ shape' = shape

LEMMA Evaluates ==
  ASSUME Inv, NEW q, NEW ty \in Types, Evaluated(q, ty), ValueMade(bld, bld', cur, q),
         Waiting(q, cur)
  PROVE  Stepped
<1>1. /\ mode \in {"operand", "value"} /\ mode' = "value" /\ ret' = Len(bld.inst) + 1 /\ ety' = ty
      /\ work' = work /\ cur' = cur /\ scopes' = scopes /\ stmts' = stmts /\ log' = log
      /\ ctl' = q /\ shape' = shape
  BY DEF Evaluated
<1>2. Rest /\ IsRow(work) /\ Len(work) = 0
  BY <1>1, AtExpression
<1>3. /\ Quiet(bld', cur, q) /\ Keeps(bld, bld') /\ Len(bld'.term) = Len(bld.term)
      /\ bld'.term[cur].op = "none" /\ Len(bld.inst) + 1 \in ValuesOf(bld')
  BY DEF ValueMade
<1>4. HasValue(bld', cur', ctl', ret')
  <2>1. ret' \in ValuesOf(bld')
    BY <1>1, <1>3
  <2>2. Len(bld'.inst) \in Nat
    BY <1>3, QuietFacts
  <2>3. 1 .. Len(bld'.inst) \subseteq 0 .. Len(bld'.inst)
    BY <2>2
  <2>4. ret' \in 0 .. Len(bld'.inst)
    BY <2>1, <2>3 DEF ValuesOf
  <2> QED
    BY <1>1, <1>3, <2>1, <2>4 DEF HasValue, AtOperand
<1>5. LogOK(log', bld')
  BY <1>1, <1>2, <1>3, RestParts, LogSame
<1>6. RestNext
  BY <1>1, <1>2, <1>5, RestParts DEF RestNext
<1>7. Inv'
  BY <1>1, <1>2, <1>4, <1>6, Settling DEF Settles
<1> QED
  BY <1>3, <1>7 DEF Stepped

LEMMA ReadsLiteral ==
  ASSUME Inv, shape' = shape, NEW ty \in Types, Literal(ty)
  PROVE  Stepped
<1>1. /\ mode = "operand" /\ Evaluated(ctl, ty)
      /\ bld' \in {Emit(bld, cur, "constant", ty, <<>>, <<>>)}
  BY DEF Literal, HaveValue, Evaluated
<1>2. Quiet(bld, cur, ctl) /\ Waiting(ctl, cur) /\ bld.term[cur].op = "none"
  BY <1>1, AtExpression
<1>3. ValueMade(bld, bld', cur, ctl)
  <2>1. "constant" \in InstKinds \ {"phi"}
    BY DEF InstKinds, Computed
  <2>2. RowOf(<<>>, ValuesOf(bld))
    BY EmptyRow
  <2> QED
    BY <1>1, <1>2, <2>1, <2>2, EmitsValue
<1> QED
  BY <1>1, <1>2, <1>3, Evaluates

LEMMA OneValue ==
  ASSUME NEW v, NEW S, v \in S
  PROVE  RowOf(<<v>>, S)
BY DEF RowOf, IsRow

LEMMA AppliesUnary ==
  ASSUME Inv, shape' = shape, NEW ty \in Types, Unary(ty)
  PROVE  Stepped
<1>1. /\ mode = "value" /\ Evaluated(ctl, ty)
      /\ bld' \in {Emit(bld, cur, "unary", ty, <<ret>>, <<>>)}
  BY DEF Unary, HaveValue, Evaluated
<1>2. /\ Quiet(bld, cur, ctl) /\ Waiting(ctl, cur) /\ bld.term[cur].op = "none"
      /\ ret \in ValuesOf(bld)
  BY <1>1, AtExpression
<1>3. ValueMade(bld, bld', cur, ctl)
  <2>1. "unary" \in InstKinds \ {"phi"}
    BY DEF InstKinds, Computed
  <2>2. RowOf(<<ret>>, ValuesOf(bld))
    BY <1>2, OneValue
  <2> QED
    BY <1>1, <1>2, <2>1, <2>2, EmitsValue
<1> QED
  BY <1>1, <1>2, <1>3, Evaluates

LEMMA AppliesBinary ==
  ASSUME Inv, shape' = shape, NEW ty \in Types, BinaryRight(ty)
  PROVE  Stepped
<1> PICK kind : kind \in {IF ty = "i64" THEN "arithmetic" ELSE "comparison"}
  OBVIOUS
<1>1. /\ mode = "value" /\ Evaluated(Tail(ctl), ty) /\ Inner.k = "bin"
      /\ bld' \in {Emit(bld, cur, kind, ty, <<Inner.v, ret>>, <<>>)}
  BY DEF BinaryRight, AtValue, HaveValue, Evaluated
<1>2. /\ Quiet(bld, cur, ctl) /\ Waiting(ctl, cur) /\ bld.term[cur].op = "none"
      /\ ret \in ValuesOf(bld) /\ OnTop(ctl, Inner, Tail(ctl))
  BY <1>1, AtExpression
<1>3. Quiet(bld, cur, Tail(ctl)) /\ EntryOK(Inner, bld, cur, bld.sealed)
  <2>1. Kept(Inner) = 0 /\ Unsealed(Inner) = 0
    BY <1>1 DEF Kept, Unsealed
  <2> QED
    BY <1>2, <2>1, QuietPop
<1>4. Waiting(Tail(ctl), cur)
  <2>1. Inner.k \in OperandKinds
    BY <1>1 DEF OperandKinds
  <2> QED
    BY <1>2, <2>1, OperandTop
<1>5. Inner.v \in ValuesOf(bld)
  <2>1. Inner.k \in OperandKinds
    BY <1>1 DEF OperandKinds
  <2>2. Inner.v # 0 /\ Inner.v \in 0 .. Len(bld.inst)
    BY <1>3, <2>1 DEF EntryOK, EntryShape
  <2>3. Len(bld.inst) \in Nat
    BY <1>2, QuietFacts
  <2> QED
    BY <2>2, <2>3 DEF ValuesOf
<1>6. ValueMade(bld, bld', cur, Tail(ctl))
  <2>1. kind \in InstKinds \ {"phi"}
    BY DEF InstKinds, Computed
  <2>2. RowOf(<<Inner.v, ret>>, ValuesOf(bld))
    BY <1>2, <1>5, PairIs
  <2> QED
    BY <1>1, <1>2, <1>3, <2>1, <2>2, EmitsValue
<1> QED
  BY <1>1, <1>4, <1>6, Evaluates

ReadStarted(s, c, q, wk) ==
  /\ Held(s, c, q, wk) /\ IsRow(wk) /\ Len(wk) \in {1} /\ Sealing(wk) = {}
  /\ wk[1].op \in {"read"}

LEMMA StartsRead ==
  ASSUME NEW s, NEW c, NEW q, Quiet(s, c, q), NEW x \in Vars, NEW ty \in Types,
         NEW wk, wk \in {<<ReadFrame(x, c, ty)>>}
  PROVE  ReadStarted(s, c, q, wk)
<1> PICK f : f \in {ReadFrame(x, c, ty)}
  OBVIOUS
<1>1. OnTop(wk, f, <<>>)
  <2>1. OnTop(<<f>>, f, <<>>)
    BY OneCall
  <2> QED
    BY <2>1
<1>2. CallShape(f, "read", x, c, ty, 0, <<>>)
  <2>1. IsCall(f, "read", x, c, ty, 0, <<>>)
    BY DEF IsCall, ReadFrame, NoValue
  <2> QED
    BY <2>1, CallIs
<1>3. f.op = "read" /\ f.x = x /\ f.phi = 0 /\ f.rest = <<>>
  BY <1>2 DEF CallShape
<1>4. Core(s, s.sealed, {}) /\ c \in BlocksOf(s) /\ Stacked(q, s, c, s.sealed)
  BY DEF Quiet
<1>5. Busy(wk) = {} /\ Sealing(wk) = {}
  <2>1. f.op \in CallKinds /\ Len(f.rest) = 0 /\ f.phi \in Nat
    BY <1>3, EmptyRow DEF CallKinds
  <2>2. SealedBy(f) = {} /\ HeldBy(f) = {}
    BY <1>3, <2>1, CallHolds
  <2>3. Busy(<<>>) = {} /\ Sealing(<<>>) = {}
    BY EmptyRow, BusyNone
  <2>4. Busy(wk) = HeldBy(f) \cup Busy(<<>>) /\ Sealing(wk) = SealedBy(f) \cup Sealing(<<>>)
    BY <1>1, BusyOnTop
  <2> QED
    BY <2>2, <2>3, <2>4
<1>6. Shut(s, wk) = s.sealed
  BY <1>5 DEF Shut
<1>7. FramesOK(wk, s, c, s.sealed)
  <2>1. CallReady("read", x, c, ty, 0, <<>>, s, c, s.sealed)
    <3>1. 0 \in 0 .. Len(s.inst)
      BY ZeroValue
    <3>2. RowOf(<<>>, ValuesOf(s))
      BY EmptyRow
    <3> QED
      BY <1>4, <3>1, <3>2 DEF CallReady, CallKinds
  <2>2. FrameOK(f, s, c, s.sealed)
    BY <1>2, <2>1, CallOK
  <2>3. Under(<<>>, f.x, s, c, s.sealed)
    BY EmptyRow, FramesNone
  <2>4. f.op \in CallKinds
    BY <1>3 DEF CallKinds
  <2> QED
    BY <1>1, <2>2, <2>3, <2>4, FramePush DEF Under
<1>8. Held(s, c, q, wk)
  BY <1>4, <1>5, <1>6, <1>7 DEF Held
<1>9. IsRow(wk) /\ Len(wk) = 1 /\ wk[1].op = "read"
  BY <1>1, <1>3, EmptyRow DEF OnTop
<1> QED
  BY <1>5, <1>8, <1>9 DEF ReadStarted

LEMMA ReadsName ==
  ASSUME Inv, shape' = shape, NEW x \in Vars, VarRef(x)
  PROVE  Stepped
<1> PICK o : o \in {Open("name", x, 0, 0, 0)}
  OBVIOUS
<1>1. /\ mode = "operand" /\ ScopeOf(x) # 0 /\ work' \in {<<ReadFrame(x, cur, LookupVar(x))>>}
      /\ ety' = LookupVar(x) /\ mode' = "reading" /\ ctl' = <<o>> \o ctl
      /\ bld' = bld /\ ret' = ret /\ cur' = cur /\ scopes' = scopes /\ stmts' = stmts /\ log' = log
  BY DEF VarRef, NoValue
<1>2. /\ Quiet(bld, cur, ctl) /\ Waiting(ctl, cur) /\ ret \in 0 .. Len(bld.inst) /\ Rest
      /\ bld.term[cur].op = "none" /\ IsRow(ctl)
  BY <1>1, AtExpression
<1>3. LookupVar(x) \in Types
  BY <1>1, <1>2, NamesHaveTypes, RestParts
<1>4. Quiet(bld, cur, <<o>> \o ctl)
  <2>1. 0 \in 0 .. Len(bld.inst)
    BY <1>2, ZeroValue
  <2>2. Quiet(bld, cur, <<Open("name", x, 0, 0, 0)>> \o ctl)
    BY <1>2, <2>1, QuietPlain
  <2> QED
    BY <2>2
<1>5. ReadStarted(bld, cur, <<o>> \o ctl, work')
  BY <1>1, <1>3, <1>4, StartsRead
<1>6. /\ Held(bld, cur, <<o>> \o ctl, work') /\ IsRow(work') /\ Len(work') \in {1}
      /\ Sealing(work') = {} /\ work'[1].op \in {"read"}
  BY <1>5 DEF ReadStarted
<1>7. OnTop(<<o>> \o ctl, o, ctl) /\ o.k = "name"
  <2>1. Open("name", x, 0, 0, 0).k = "name"
    BY DEF Open
  <2> QED
    BY <1>2, <2>1, Front
<1>8. Phase("reading", work', ret, bld, cur, <<o>> \o ctl)
  <2>1. \E p, r : OnTop(<<o>> \o ctl, p, r) /\ p.k = "name" /\ Waiting(r, cur)
    BY <1>2, <1>7
  <2>2. ~(Len(work') = 0) /\ work'[1].op \notin {"write", "take"}
    <3>1. \A n : n \in {1} => ~(n = 0)
      OBVIOUS
    <3>2. \A op : op \in {"read"} => op \notin {"write", "take"}
      OBVIOUS
    <3> QED
      BY <1>6, <3>1, <3>2
  <2> QED
    BY <1>2, <1>6, <2>1, <2>2 DEF Phase, ParserModes
<1>9. RestNext
  BY <1>1, <1>2, <1>3, RestParts DEF RestNext
<1>10. Inv'
  <2>1. Held(bld', cur', ctl', work') /\ Phase(mode', work', ret', bld', cur', ctl')
    BY <1>1, <1>6, <1>8
  <2> QED
    BY <1>2, <1>6, <1>9, <2>1, Arrives
<1>11. Keeps(bld, bld')
  BY <1>1, <1>2, SameKept
<1> QED
  BY <1>10, <1>11 DEF Stepped

LEMMA AtReading ==
  ASSUME Inv, mode = "reading", Idle
  PROVE  /\ Quiet(bld, cur, ctl) /\ OnTop(ctl, Inner, Tail(ctl)) /\ Inner.k = "name"
         /\ Waiting(Tail(ctl), cur) /\ bld.term[cur].op = "none" /\ ret \in 0 .. Len(bld.inst)
         /\ ret \in ValuesOf(bld) /\ Rest /\ IsRow(work) /\ Len(work) = 0
<1>1. Held(bld, cur, ctl, work) /\ IsRow(work) /\ Phase(mode, work, ret, bld, cur, ctl)
  BY DEF Inv
<1>2. Len(work) = 0
  BY WorkEmpty
<1>3. Quiet(bld, cur, ctl)
  BY <1>1, <1>2, HeldQuiet
<1>4. /\ \E o, r : OnTop(ctl, o, r) /\ o.k = "name" /\ Waiting(r, cur)
      /\ bld.term[cur].op = "none" /\ ret \in 0 .. Len(bld.inst) /\ ret # 0
  BY <1>1, <1>2 DEF Phase
<1>5. OnTop(ctl, Inner, Tail(ctl)) /\ Inner.k = "name" /\ Waiting(Tail(ctl), cur)
  <2> PICK o, r : OnTop(ctl, o, r) /\ o.k = "name" /\ Waiting(r, cur)
    BY <1>4
  <2>1. Head(ctl) = o /\ Tail(ctl) = r
    BY TopIs
  <2> QED
    BY <2>1 DEF Inner
<1>6. ret \in ValuesOf(bld)
  <2>1. Len(bld.inst) \in Nat
    BY <1>3, QuietFacts
  <2> QED
    BY <1>4, <2>1 DEF ValuesOf
<1>7. Rest
  BY DEF Inv, Rest, RestOK, MaxStatements, ShortCircuitInWhile
<1> QED
  BY <1>1, <1>2, <1>3, <1>4, <1>5, <1>6, <1>7

LEMMA ReturnsName ==
  ASSUME Inv, shape' = shape, VarRefReturns
  PROVE  Stepped
<1>1. /\ mode = "reading" /\ Idle /\ mode' = "value" /\ ctl' = Tail(ctl)
      /\ log' = Logged(log, cur, ReadAs(Inner.x, ScopeOf(Inner.x), ret))
      /\ bld' = bld /\ work' = work /\ ret' = ret /\ ety' = ety /\ cur' = cur
      /\ scopes' = scopes /\ stmts' = stmts
  BY DEF VarRefReturns, builderVars
<1>2. /\ Quiet(bld, cur, ctl) /\ OnTop(ctl, Inner, Tail(ctl)) /\ Inner.k = "name"
      /\ Waiting(Tail(ctl), cur) /\ bld.term[cur].op = "none" /\ ret \in 0 .. Len(bld.inst)
      /\ ret \in ValuesOf(bld) /\ Rest /\ IsRow(work) /\ Len(work) = 0
  BY <1>1, AtReading
<1>3. Quiet(bld, cur, Tail(ctl))
  <2>1. Kept(Inner) = 0 /\ Unsealed(Inner) = 0
    BY <1>2 DEF Kept, Unsealed
  <2> QED
    BY <1>2, <2>1, QuietPop
<1>4. HasValue(bld', cur', ctl', ret')
  BY <1>1, <1>2, <1>3 DEF HasValue, AtOperand
<1>5. LogOK(log', bld')
  BY <1>1, <1>2, RestParts, LogWritten
<1>6. RestNext
  BY <1>1, <1>2, <1>5, RestParts DEF RestNext
<1>7. Inv'
  BY <1>1, <1>2, <1>4, <1>6, Settling DEF Settles
<1>8. Keeps(bld, bld')
  BY <1>1, <1>2, SameKept
<1> QED
  BY <1>7, <1>8 DEF Stepped

LEMMA ValueNotZero ==
  ASSUME NEW s, NEW c, NEW q, Quiet(s, c, q), NEW v \in ValuesOf(s)
  PROVE  v # 0
<1>1. Len(s.inst) \in Nat
  BY QuietFacts
<1> QED
  BY <1>1 DEF ValuesOf

LEMMA HoldsLeft ==
  ASSUME Inv, shape' = shape, BinaryLeft
  PROVE  Stepped
<1> PICK o : o \in {Open("bin", "", 0, 0, ret)}
  OBVIOUS
<1>1. /\ mode = "value" /\ mode' = "operand" /\ ctl' = <<o>> \o ctl
      /\ bld' = bld /\ work' = work /\ ret' = ret /\ ety' = ety /\ cur' = cur
      /\ scopes' = scopes /\ stmts' = stmts /\ log' = log
  BY DEF BinaryLeft, builderVars
<1>2. /\ Quiet(bld, cur, ctl) /\ Waiting(ctl, cur) /\ ret \in 0 .. Len(bld.inst) /\ Rest
      /\ bld.term[cur].op = "none" /\ IsRow(ctl) /\ IsRow(work) /\ Len(work) = 0
      /\ ret \in ValuesOf(bld)
  BY <1>1, AtExpression
<1>3. Quiet(bld, cur, <<o>> \o ctl)
  <2>1. ret # 0
    BY <1>2, ValueNotZero
  <2>2. Quiet(bld, cur, <<Open("bin", "", 0, 0, ret)>> \o ctl)
    BY <1>2, <2>1, QuietPlain
  <2> QED
    BY <2>2
<1>4. Waiting(<<o>> \o ctl, cur)
  <2>1. Open("bin", "", 0, 0, ret).k = "bin"
    BY DEF Open
  <2>2. o.k = "bin" /\ o.k \in OperandKinds
    BY <2>1 DEF OperandKinds
  <2>3. OnTop(<<o>> \o ctl, o, ctl)
    BY <1>2, Front
  <2> QED
    BY <1>2, <2>2, <2>3, OperandPush
<1>5. AtOperand(bld', cur', ctl', ret')
  BY <1>1, <1>2, <1>3, <1>4 DEF AtOperand
<1>6. RestNext
  BY <1>1, <1>2, RestParts DEF RestNext
<1>7. Inv'
  BY <1>1, <1>2, <1>5, <1>6, Settling DEF Settles
<1>8. Keeps(bld, bld')
  BY <1>1, <1>2, SameKept
<1> QED
  BY <1>7, <1>8 DEF Stepped

\* and / or in an expression that is no while condition.
LEMMA BoolIsType ==
  ASSUME Rest, ety = "bool"
  PROVE  "bool" \in Types
BY RestParts DEF NoType

LEMMA OutsideWhile ==
  ASSUME Inv, IsRow(ctl), InWhileCondition => ShortCircuitInWhile
  PROVE  NotInWhile(ctl)
<1>1. ~InWhileCondition
  BY DEF Inv
<1>2. DOMAIN ctl = 1 .. Len(ctl)
  BY DEF IsRow
<1> QED
  BY <1>1, <1>2 DEF InWhileCondition, NotInWhile

LEMMA StillValue ==
  ASSUME NEW s, NEW c, NEW q, Quiet(s, c, q), NEW v \in 0 .. Len(s.inst),
         NEW u, Len(u.inst) = Len(s.inst) + 1
  PROVE  v \in 0 .. Len(u.inst)
<1>1. Len(s.inst) \in Nat
  BY QuietFacts
<1> QED
  BY <1>1

LEMMA StartsShort ==
  ASSUME Inv, shape' = shape, NEW k \in {"and", "or"}, ShortCircuit(k)
  PROVE  Stepped /\ Led(bld, bld')
<1> PICK h : h \in {Len(bld.term) + 1}
  OBVIOUS
<1> PICK r : r \in {Len(bld.term) + 2}
  OBVIOUS
<1> PICK j : j \in {Len(bld.term) + 3}
  OBVIOUS
<1>m. PICK l : ShortMade(bld, cur, ret, bld', k, h, r, j, l) /\ ctl' = <<Open(k, "", h, j, l)>> \o ctl
  BY DEF ShortCircuit, LastBlock, LastValue, ShortMade
<1> PICK o2 : o2 \in {Open(k, "", h, j, l)}
  OBVIOUS
<1>1. /\ mode = "value" /\ ety = "bool" /\ mode' = "operand" /\ cur' = r /\ ctl' = <<o2>> \o ctl
      /\ work' = work /\ ret' = ret /\ ety' = ety /\ scopes' = scopes /\ stmts' = stmts
      /\ InWhileCondition => ShortCircuitInWhile
  BY <1>m DEF ShortCircuit, LastBlock
<1>2. /\ Quiet(bld, cur, ctl) /\ Waiting(ctl, cur) /\ ret \in 0 .. Len(bld.inst) /\ Rest
      /\ bld.term[cur].op = "none" /\ IsRow(ctl) /\ IsRow(work) /\ Len(work) = 0
      /\ ret \in ValuesOf(bld)
  BY <1>1, AtExpression
<1>3. "bool" \in Types
  BY <1>1, <1>2, BoolIsType
<1>4. ShortOpened(k, h, j, l, o2)
  BY DEF ShortOpened
<1>b. ShortBegun(bld, bld', ctl, r, o2)
  <2>1. ShortMade(bld, cur, ret, bld', k, h, r, j, l)
    BY <1>m
  <2>2. Quiet(bld, cur, ctl) /\ bld.term[cur].op = "none" /\ ret \in ValuesOf(bld)
    BY <1>2
  <2> QED
    BY <1>3, <1>4, <2>1, <2>2, ShortBegins
<1>5. /\ Quiet(bld', r, <<o2>> \o ctl) /\ Keeps(bld, bld') /\ Led(bld, bld')
      /\ bld'.term[r].op = "none"
      /\ Len(bld'.term) = Len(bld.term) + 3 /\ Len(bld'.inst) = Len(bld.inst) + 1
      /\ o2.k \in {"and", "or"}
  BY <1>b DEF ShortBegun
<1>6. Waiting(<<o2>> \o ctl, r)
  <2>1. NotInWhile(ctl)
    BY <1>1, <1>2, OutsideWhile
  <2>2. OnTop(<<o2>> \o ctl, o2, ctl)
    BY <1>2, Front
  <2>3. o2.k \in OperandKinds
    BY <1>5 DEF OperandKinds
  <2> QED
    BY <1>2, <2>1, <2>2, <2>3, OperandPush
<1>7. AtOperand(bld', cur', ctl', ret')
  <2>2. ret \in 0 .. Len(bld'.inst)
    BY <1>2, <1>5, StillValue
  <2> QED
    BY <1>1, <1>5, <1>6, <2>2 DEF AtOperand
<1>8. LogOK(log', bld')
  <2>1. LogOK(log, bld)
    BY <1>2, RestParts
  <2>2. \E d, e, f : log' = log \o <<d, e, f>>
    BY DEF ShortCircuit
  <2> QED
    BY <1>5, <2>1, <2>2, LogGrowsThree
<1>9. RestNext
  BY <1>1, <1>2, <1>8, RestParts DEF RestNext
<1>10. Inv'
  BY <1>1, <1>2, <1>7, <1>9, Settling DEF Settles
<1> QED
  BY <1>5, <1>10 DEF Stepped

LEMMA FinishesShort ==
  ASSUME Inv, shape' = shape, ShortCircuitEnd
  PROVE  Stepped
<1>1. /\ mode = "value" /\ Inner.k \in {"and", "or"} /\ ety = "bool" /\ mode' = "value"
      /\ ret' = Len(bld.inst) + 1 /\ ety' = "bool" /\ cur' = Inner.c /\ ctl' = Tail(ctl)
      /\ work' = work /\ scopes' = scopes /\ stmts' = stmts
  BY DEF ShortCircuitEnd, HaveValue
<1>2. /\ Quiet(bld, cur, ctl) /\ Waiting(ctl, cur) /\ ret \in 0 .. Len(bld.inst) /\ Rest
      /\ bld.term[cur].op = "none" /\ IsRow(ctl) /\ IsRow(work) /\ Len(work) = 0
      /\ ret \in ValuesOf(bld) /\ OnTop(ctl, Inner, Tail(ctl))
  BY <1>1, AtExpression
<1>3. "bool" \in Types
  BY <1>1, <1>2, BoolIsType
<1>4. ShortEnded(bld, cur, ret, Inner, bld')
  BY DEF ShortCircuitEnd, ShortEnded
<1>5. /\ Quiet(bld', Inner.c, Tail(ctl)) /\ Keeps(bld, bld') /\ bld'.term[Inner.c].op = "none"
      /\ Len(bld'.term) = Len(bld.term) /\ Len(bld'.inst) = Len(bld.inst) + 1
  BY <1>1, <1>2, <1>3, <1>4, EndsShort
<1>6. Waiting(Tail(ctl), Inner.c)
  <2>1. Inner.k \in OperandKinds /\ Inner.k # "bin"
    BY <1>1 DEF OperandKinds
  <2> QED
    BY <1>2, <2>1, OperandTop
<1>7. HasValue(bld', cur', ctl', ret')
  <2>1. Len(bld.inst) \in Nat
    BY <1>2, QuietFacts
  <2>2. Len(bld.inst) + 1 \in 1 .. Len(bld'.inst) /\ Len(bld.inst) + 1 \in 0 .. Len(bld'.inst)
    BY <1>5, <2>1
  <2> QED
    BY <1>1, <1>5, <1>6, <2>2 DEF HasValue, AtOperand, ValuesOf
<1>8. LogOK(log', bld')
  <2>1. LogOK(log, bld)
    BY <1>2, RestParts
  <2>2. log' = Logged(log, Inner.c, Combined(Inner.k, Inner.b, Len(bld.inst) + 1, ret))
    BY DEF ShortCircuitEnd
  <2> QED
    BY <1>5, <2>1, <2>2, LogWritten
<1>9. RestNext
  BY <1>1, <1>2, <1>3, <1>8, RestParts DEF RestNext
<1>10. Inv'
  BY <1>1, <1>2, <1>7, <1>9, Settling DEF Settles
<1> QED
  BY <1>5, <1>10 DEF Stepped

-----------------------------------------------------------------------------
(* Every step of the parser.                                               *)

LEMMA ParserErrs ==
  ASSUME Inv, shape' = shape,
         \/ UnreachableCode \/ AssignUndefined \/ TypeMismatch
         \/ \E x \in LocalVars : VarRefUndefined(x)
  PROVE  Stepped
<1>1. CASE UnreachableCode
  <2>1. mode = "stmt" /\ Idle /\ Fail("UnreachableCode") /\ "UnreachableCode" \in Errors
    BY <1>1 DEF UnreachableCode, AtStatement, Errors
  <2> QED
    BY <2>1, ErrorFound
<1>2. CASE AssignUndefined
  <2>1. /\ mode \in {"operand", "value"} /\ Fail("UndefinedVariable")
        /\ "UndefinedVariable" \in Errors
    BY <1>2 DEF AssignUndefined, AtValue, Errors
  <2> QED
    BY <2>1, ErrorFound
<1>3. CASE TypeMismatch
  <2>1. mode \in {"operand", "value"} /\ Fail("TypeMismatch") /\ "TypeMismatch" \in Errors
    BY <1>3 DEF TypeMismatch, Errors
  <2> QED
    BY <2>1, ErrorFound
<1>4. CASE \E x \in LocalVars : VarRefUndefined(x)
  <2>1. /\ mode \in {"operand", "value"} /\ Fail("UndefinedVariable")
        /\ "UndefinedVariable" \in Errors
    BY <1>4 DEF VarRefUndefined, Errors
  <2> QED
    BY <2>1, ErrorFound
<1> QED
  BY <1>1, <1>2, <1>3, <1>4

LEMMA StatementSteps ==
  ASSUME Inv, shape' = shape, Statement
  PROVE  Stepped
<1>0. LocalVars \subseteq Vars /\ LocalVars \cup {""} \subseteq Vars \cup {""}
  BY ParserAssumption DEF Inv, LocalVars
<1>1. CASE \E k \in {"expr", "return", "if"} : BeginStatement(k, "")
  <2> PICK k \in {"expr", "return", "if"} : BeginStatement(k, "")
    BY <1>1
  <2>1. k \in WaitingKinds \ {"while"} /\ k \notin {"let", "assign"} /\ "" \in Vars \cup {""}
    BY DEF WaitingKinds
  <2> QED
    BY <2>1, BeginsStatement
<1>2. CASE \E k \in {"let", "assign"}, x \in LocalVars : BeginStatement(k, x)
  <2> PICK k \in {"let", "assign"}, x \in LocalVars : BeginStatement(k, x)
    BY <1>2
  <2>1. k \in WaitingKinds \ {"while"} /\ x \in Vars /\ x \in Vars \cup {""}
    BY <1>0 DEF WaitingKinds
  <2> QED
    BY <2>1, BeginsStatement
<1>3. CASE BeginWhile
  BY <1>3, BeginsWhileLoop
<1>4. CASE UnreachableCode \/ AssignUndefined
  BY <1>4, ParserErrs
<1>5. CASE ExprStatement
  BY <1>5, FinishesExpr
<1>6. CASE FinishLet
  BY <1>6, FinishesLet
<1>7. CASE FinishAssign
  BY <1>7, FinishesAssign
<1>8. CASE FinishReturn
  BY <1>8, FinishesReturn
<1>9. CASE IfCondition
  BY <1>9, EntersThen
<1>10. CASE EndThenNoElse \/ EndElse \/ EndElseIf
  BY <1>10, ClosesIfs
<1>11. CASE EndThenElse
  BY <1>11, EntersElse
<1>12. CASE EndThenElseIf
  BY <1>12, EntersElseIf
<1>13. CASE WhileCondition
  BY <1>13, EntersLoop
<1>14. CASE EndLoop
  BY <1>14, EndsLoop
<1>15. CASE EndFunction
  BY <1>15, EndsFunction
<1> QED
  BY <1>1, <1>2, <1>3, <1>4, <1>5, <1>6, <1>7, <1>8, <1>9, <1>10, <1>11, <1>12, <1>13, <1>14,
     <1>15 DEF Statement

LEMMA ExpressionSteps ==
  ASSUME Inv, shape' = shape, Expression
  PROVE  Stepped
<1>0. LocalVars \subseteq Vars /\ LiteralTypes \subseteq Types
  BY ParserAssumption DEF Inv, LocalVars, LiteralTypes
<1>1. CASE \E ty \in LiteralTypes : Literal(ty)
  BY <1>0, <1>1, ReadsLiteral
<1>2. CASE \E ty \in Types : Unary(ty) \/ BinaryRight(ty)
  BY <1>2, AppliesUnary, AppliesBinary
<1>3. CASE \E x \in LocalVars : VarRef(x)
  BY <1>0, <1>3, ReadsName
<1>4. CASE TypeMismatch \/ \E x \in LocalVars : VarRefUndefined(x)
  BY <1>4, ParserErrs
<1>5. CASE VarRefReturns
  BY <1>5, ReturnsName
<1>6. CASE BinaryLeft
  BY <1>6, HoldsLeft
<1>7. CASE \E k \in {"and", "or"} : ShortCircuit(k)
  BY <1>7, StartsShort
<1>8. CASE ShortCircuitEnd
  BY <1>8, FinishesShort
<1> QED
  BY <1>1, <1>2, <1>3, <1>4, <1>5, <1>6, <1>7, <1>8 DEF Expression

LEMMA InvStep ==
  ASSUME Inv, [Next]_vars
  PROVE  Stepped
<1>1. CASE (Statement \/ Expression \/ RunBuilder) /\ UNCHANGED shape
  <2>1. CASE RunBuilder
    BY <2>1, BuilderRuns DEF RunBuilder, Stepped
  <2> QED
    BY <1>1, <2>1, StatementSteps, ExpressionSteps
<1>2. CASE UNCHANGED vars
  <2>1. /\ bld' = bld /\ work' = work /\ ret' = ret /\ mode' = mode /\ ety' = ety /\ cur' = cur
        /\ scopes' = scopes /\ ctl' = ctl /\ stmts' = stmts /\ log' = log /\ shape' = shape
    BY <1>2 DEF vars, builderVars, parserVars
  <2>2. Inv'
    BY <2>1 DEF Inv, MaxStatements, ShortCircuitInWhile
  <2>3. Core(bld, Shut(bld, work), Busy(work)) /\ bld.sealed \subseteq Shut(bld, work)
    BY DEF Inv, Held, Shut
  <2>4. Changes(bld, bld, {}, {}, {})
    BY <2>3, ChangesNone
  <2>5. bld.sealed \subseteq BlocksOf(bld) \ {}
    BY <2>3 DEF Core
  <2> QED
    BY <2>1, <2>2, <2>4, <2>5, ChangesKeeps DEF Stepped
<1> QED
  BY <1>1, <1>2 DEF Next, ParseStep, Stop

-----------------------------------------------------------------------------
(* The initial states.                                                     *)

ParamsOK(p) == IsRow(p) /\ \A i \in 1 .. Len(p) : p[i].name \in Vars /\ p[i].ty \in Types

LEMMA ParamsKnown ==
  ASSUME shape \in DOMAIN Shapes
  PROVE  ParamsOK(Params)
<1>1. Params \in Seq([name : LocalVars, ty : Types]) /\ LocalVars \subseteq Vars
  BY ParserAssumption DEF Params, LocalVars
<1>2. RowOf(Params, [name : LocalVars, ty : Types])
  BY <1>1, RowIsSeq
<1> QED
  BY <1>1, <1>2 DEF RowOf, ParamsOK

NoRow == <<>>
ParamBinding(p) == [x \in Vars |-> IF \E i \in DOMAIN p : p[i].name = x
                                   THEN CHOOSE i \in DOMAIN p : p[i].name = x ELSE NoValue]
Starts(s, p) ==
  /\ IsRecord(s)
  /\ s.inst = [i \in DOMAIN p |-> Instruction(1, "param", p[i].ty, <<>>, <<>>)]
  /\ s.term = <<NoTerm>> /\ s.preds = <<NoRow>> /\ s.defs = <<ParamBinding(p)>>
  /\ s.sealed = {1} /\ s.pending = <<NoRow>>

LEMMA BuilderStarts ==
  ASSUME NEW p
  PROVE  Starts(NewBuilder(p), p)
BY DEF Starts, NewBuilder, IsRecord, Instruction, NoRow, ParamBinding

LEMMA ParamInsts ==
  ASSUME NEW p, ParamsOK(p), NEW s, Starts(s, p)
  PROVE  /\ InstsOK(s.inst, 1) /\ Len(s.inst) = Len(p) /\ Len(p) \in Nat
         /\ \A v \in 1 .. Len(s.inst) : s.inst[v].kind = "param"
<1>1. Len(p) \in Nat /\ DOMAIN p = 1 .. Len(p)
  BY DEF ParamsOK, IsRow
<1>2. PICK n \in Nat : n = Len(p)
  BY <1>1
<1>3. PICK q : q = s.inst
  OBVIOUS
<1>4. q = [i \in 1 .. n |-> Instruction(1, "param", p[i].ty, <<>>, <<>>)]
  BY <1>1, <1>2, <1>3 DEF Starts
<1>5. q = [i \in 1 .. n |-> q[i]]
  BY <1>4
<1>6. IsRow(q) /\ Len(q) = n
  BY <1>5, RowMade
<1>7. ASSUME NEW v \in 1 .. n PROVE InstOK(q[v], 1, n) /\ q[v].kind = "param"
  <2>1. PICK i : i = Instruction(1, "param", p[v].ty, <<>>, <<>>)
    OBVIOUS
  <2>2. q[v] = i
    BY <1>4, <2>1
  <2>3. /\ i = Instruction(i.block, i.kind, i.ty, i.args, i.from)
        /\ i.block = 1 /\ i.kind = "param" /\ i.ty = p[v].ty /\ i.args = <<>> /\ i.from = <<>>
    BY <2>1 DEF Instruction
  <2>4. p[v].ty \in Types
    BY <1>2 DEF ParamsOK
  <2>5. RowOf(i.args, 1 .. n) /\ RowOf(i.from, 1 .. 1)
    BY <2>3, EmptyRow
  <2>6. i.block \in 1 .. 1 /\ i.kind \in InstKinds /\ i.ty \in Types
    BY <2>3, <2>4 DEF InstKinds
  <2> QED
    BY <2>2, <2>3, <2>5, <2>6 DEF InstOK, Instruction
<1> QED
  BY <1>1, <1>2, <1>3, <1>6, <1>7 DEF InstsOK

LEMMA ZeroInside ==
  ASSUME NEW n \in Nat
  PROVE  0 \in 0 .. n
OBVIOUS

LEMMA ParamDefs ==
  ASSUME NEW p, Len(p) \in Nat, DOMAIN p = 1 .. Len(p)
  PROVE  ParamBinding(p) \in [Vars -> 0 .. Len(p)]
<1> SUFFICES ASSUME NEW x \in Vars
             PROVE  (IF \E i \in DOMAIN p : p[i].name = x
                     THEN CHOOSE i \in DOMAIN p : p[i].name = x ELSE NoValue) \in 0 .. Len(p)
  BY DEF ParamBinding
<1>1. CASE \E i \in DOMAIN p : p[i].name = x
  <2>1. (CHOOSE i \in DOMAIN p : p[i].name = x) \in DOMAIN p
    BY <1>1
  <2>2. \A k \in 1 .. Len(p) : k \in 0 .. Len(p)
    OBVIOUS
  <2> QED
    BY <1>1, <2>1, <2>2
<1>2. CASE ~ \E i \in DOMAIN p : p[i].name = x
  <2>1. NoValue \in 0 .. Len(p)
    BY DEF NoValue
  <2> QED
    BY <1>2, <2>1
<1> QED
  BY <1>1, <1>2

\* The entry block alone, sealed, with the parameters.
LEMMA CoreStarts ==
  ASSUME NEW p, ParamsOK(p), NEW s, Starts(s, p)
  PROVE  Core(s, {1}, {}) /\ Len(s.term) = 1 /\ s.sealed = {1}
<1>1. /\ InstsOK(s.inst, 1) /\ Len(s.inst) = Len(p) /\ Len(p) \in Nat
      /\ \A v \in 1 .. Len(s.inst) : s.inst[v].kind = "param"
  BY ParamInsts
<1>2. /\ IsRecord(s) /\ s.sealed = {1}
      /\ IsRow(s.term) /\ Len(s.term) = 1 /\ s.term[1] = NoTerm /\ DOMAIN s.term = {1}
      /\ IsRow(s.preds) /\ Len(s.preds) = 1 /\ s.preds[1] = NoRow
      /\ IsRow(s.defs) /\ Len(s.defs) = 1 /\ s.defs[1] = ParamBinding(p)
      /\ IsRow(s.pending) /\ Len(s.pending) = 1 /\ s.pending[1] = NoRow
  BY OneRow DEF Starts
<1>3. IsRow(NoRow) /\ Len(NoRow) = 0 /\ \A S : RowOf(NoRow, S)
  BY EmptyRow DEF NoRow
<1>4. \A b \in 1 .. 1 : b = 1
  OBVIOUS
<1>5. \A v \in 1 .. Len(s.inst) : s.inst[v].kind # "phi"
  BY <1>1
<1>6. TermsOK(s.term, Len(s.inst))
  <2>1. TermOK(NoTerm, 1, Len(s.inst))
    BY <1>1, NoTargets
  <2> QED
    BY <1>2, <1>4, <2>1 DEF TermsOK
<1>7. DefsOK(s.defs, 1, Len(s.inst))
  <2>1. DOMAIN p = 1 .. Len(p)
    BY DEF ParamsOK, IsRow
  <2>2. s.defs[1] \in [Vars -> 0 .. Len(s.inst)]
    BY <1>1, <1>2, <2>1, ParamDefs
  <2> QED
    BY <1>2, <1>4, <2>2 DEF DefsOK
<1>8. PendingOK(s.pending, 1, Len(s.inst))
  BY <1>2, <1>3, <1>4 DEF PendingOK
<1>9. Agrees(s.term, s.preds)
  <2>1. Predecessors(s.term, 1) = {}
    BY <1>2, NoTargets DEF Predecessors
  <2>2. Lists(NoRow, {})
    BY <1>3 DEF Lists
  <2> QED
    BY <1>2, <1>4, <2>1, <2>2 DEF Agrees
<1>10. Forks(s.term, s.preds, {1}, s.inst)
  <2>1. \A c : ~ForkTarget(s.term, c)
    BY <1>2, <1>4, NoTargets DEF ForkTarget
  <2> QED
    BY <2>1 DEF Forks
<1>11. Parks(s.inst, s.defs, s.pending, {1})
  BY <1>2, <1>3, <1>4 DEF Parks
<1>12. PhisKnown(s.inst, s.preds, s.pending, {1}, {})
  BY <1>5 DEF PhisKnown, IsPhi
<1>13. {1} \subseteq BlocksOf(s)
  BY <1>2 DEF BlocksOf
<1> QED
  BY <1>1, <1>2, <1>6, <1>7, <1>8, <1>9, <1>10, <1>11, <1>12, <1>13 DEF Core

\* The construct a body is parsed in.
LEMMA BodyStarts ==
  ASSUME NEW s, NEW shut, BlocksOf(s) \subseteq shut, Len(s.term) \in Nat, Len(s.inst) \in Nat
  PROVE  /\ Stacked(<<Open("fn", "", 0, 0, NoValue)>>, s, 1, shut)
         /\ Bodied(<<Open("fn", "", 0, 0, NoValue)>>)
<1>1. PICK o : o \in {Open("fn", "", 0, 0, NoValue)}
  OBVIOUS
<1>2. /\ Open("fn", "", 0, 0, NoValue).k = "fn" /\ Open("fn", "", 0, 0, NoValue).x = ""
      /\ Open("fn", "", 0, 0, NoValue).b = 0 /\ Open("fn", "", 0, 0, NoValue).c = 0
      /\ Open("fn", "", 0, 0, NoValue).v = 0
  BY DEF Open, NoValue
<1>3. o.k = "fn" /\ o.x = "" /\ o.b = 0 /\ o.c = 0 /\ o.v = 0 /\ o = Open(o.k, o.x, o.b, o.c, o.v)
  BY <1>1, <1>2 DEF NoValue
<1>4. Kept(o) = 0 /\ Unsealed(o) = 0
  BY <1>3 DEF Kept, Unsealed
<1>5. 0 \in 0 .. Len(s.term) /\ 0 \in 0 .. Len(s.inst)
  BY ZeroInside
<1>6. EntryOK(o, s, 1, shut)
  <2>1. EntryShape(o, Len(s.term), Len(s.inst))
    BY <1>3, <1>5 DEF EntryShape, EntryKinds, BodyKinds, Bodies
  <2>2. o.k \notin {"then", "else", "elseif", "while", "loop", "and", "or", "let", "assign", "name"}
        /\ o.k \notin OperandKinds /\ Kept(o) # 1
    <3>1. o.k \notin OperandKinds
      BY <1>3 DEF OperandKinds
    <3>2. o.k \notin {"then", "else", "elseif", "while", "loop", "and", "or", "let", "assign", "name"}
      BY <1>3
    <3>3. Kept(o) # 1
      BY <1>4
    <3> QED
      BY <3>1, <3>2, <3>3
  <2> QED
    BY <1>4, <2>1, <2>2 DEF EntryOK
<1>7. Below(<<>>, o, s, 1, shut)
  <2>1. IsRow(<<>>) /\ Len(<<>>) = 0
    BY EmptyRow
  <2>2. \A k \in 1 .. Len(<<>>) : FALSE
    BY <2>1
  <2>3. \A b \in BlocksOf(s) : b \in shut
    OBVIOUS
  <2> QED
    BY <2>1, <2>2, <2>3 DEF Below
<1>8. PICK q : q \in {<<o>>}
  OBVIOUS
<1>9. OnTop(q, o, <<>>) /\ IsRow(q) /\ Len(q) = 1 /\ q[1] = o
  BY <1>8, OneCall, OneRow
<1>10. Stacked(q, s, 1, shut)
  BY <1>6, <1>7, <1>9, PushStack
<1>11. Bodied(q)
  <2>1. \A i \in 1 .. Len(q) : i = 1 /\ i = Len(q)
    BY <1>9
  <2>2. \A i \in 1 .. Len(q) : BodyAt(q, i)
    <3>1. q[1].k = "fn"
      BY <1>3, <1>9
    <3>2. \A i \in 1 .. Len(q) : q[i].k \in BodyKinds /\ q[i].k = "fn" /\ i = Len(q)
      BY <2>1, <3>1 DEF BodyKinds, Bodies
    <3> QED
      BY <3>2 DEF BodyAt
  <2>3. Len(q) > 0
    BY <1>9
  <2> QED
    BY <2>2, <2>3, <1>9, Zenon DEF Bodied
<1> QED
  BY <1>1, <1>8, <1>10, <1>11

LEMMA ScopesStart ==
  ASSUME NEW p, ParamsOK(p)
  PROVE  ScopesOK(<<ParamScope(p), EmptyScope>>)
<1>1. ParamScope(p) \in [Vars -> Types \cup {NoType}]
  <2> SUFFICES ASSUME NEW x \in Vars
               PROVE  (IF \E i \in DOMAIN p : p[i].name = x
                       THEN p[CHOOSE i \in DOMAIN p : p[i].name = x].ty
                       ELSE NoType) \in Types \cup {NoType}
    BY DEF ParamScope
  <2>1. DOMAIN p = 1 .. Len(p) /\ \A i \in 1 .. Len(p) : p[i].ty \in Types
    BY DEF ParamsOK, IsRow
  <2>2. CASE \E i \in DOMAIN p : p[i].name = x
    <3>1. (CHOOSE i \in DOMAIN p : p[i].name = x) \in DOMAIN p
      BY <2>2
    <3> QED
      BY <2>1, <2>2, <3>1
  <2> QED
    BY <2>2
<1>2. EmptyScope \in [Vars -> Types \cup {NoType}]
  BY DEF EmptyScope
<1>3. <<ParamScope(p), EmptyScope>> \in Seq([Vars -> Types \cup {NoType}])
  BY <1>1, <1>2
<1> QED
  BY <1>3, RowIsSeq DEF ScopesOK

\* The function shape starts in the invariant.
LEMMA InitInv ==
  ASSUME Init, ~ShortCircuitInWhile
  PROVE  Inv
<1>0. shape \in DOMAIN Shapes /\ bld = NewBuilder(Params) /\ scopes = <<ParamScope(Params), EmptyScope>>
  BY DEF Init
<1>1. ParamsOK(Params)
  BY <1>0, ParamsKnown
<1>2. Starts(bld, Params)
  BY <1>0, BuilderStarts
<1>3. Core(bld, {1}, {}) /\ bld.sealed = {1} /\ Len(bld.term) = 1
  BY <1>1, <1>2, CoreStarts
<1>4. BlocksOf(bld) = {1} /\ Len(bld.term) \in Nat /\ Len(bld.inst) \in Nat
  BY <1>3, CoreLens DEF BlocksOf
<1>5. /\ cur = 1 /\ stmts = 0 /\ mode \in {"stmt"} /\ ety \in {NoType}
      /\ ret \in 0 .. Len(bld.inst)
  BY <1>4, ZeroInside DEF Init, NoValue
<1>6. Stacked(ctl, bld, 1, {1}) /\ Bodied(ctl)
  <2>1. ctl = <<Open("fn", "", 0, 0, NoValue)>>
    BY DEF Init
  <2> QED
    BY <1>4, <2>1, BodyStarts
<1>7. IsRow(work) /\ Len(work) = 0
  BY EmptyRow DEF Init
<1>8. Quiet(bld, cur, ctl)
  BY <1>3, <1>4, <1>5, <1>6 DEF Quiet
<1>9. AtStmt(bld, cur, ctl, ret)
  BY <1>5, <1>6, <1>8 DEF AtStmt
<1>10. Held(bld, cur, ctl, work) /\ Phase(mode, work, ret, bld, cur, ctl)
  BY <1>5, <1>7, <1>9, Settled
<1>11. ScopesOK(scopes)
  BY <1>0, <1>1, ScopesStart
<1>12. LogOK(log, bld)
  <2>1. PICK e : log = <<e>>
    BY DEF Init
  <2>2. IsRow(log) /\ Len(log) = Len(bld.term)
    BY <1>3, <2>1, OneRow
  <2> QED
    BY <2>2 DEF LogOK
<1>13. stmts \in 0 .. MaxStatements
  <2>1. MaxStatements \in Nat
    BY <1>0, ParserAssumption DEF MaxStatements
  <2> QED
    BY <1>5, <2>1, ZeroInside
<1> QED
  BY <1>0, <1>5, <1>7, <1>10, <1>11, <1>12, <1>13 DEF Inv

\* In every state of every parse: what is proved below is read off Inv.
LEMMA Invariant == Spec /\ ~ShortCircuitInWhile => []Inv
<1>1. Init /\ ~ShortCircuitInWhile => Inv
  BY InitInv
<1>2. Inv /\ [Next]_vars => Inv'
  BY InvStep DEF Stepped
<1> QED
  BY <1>1, <1>2, PTL DEF Spec

-----------------------------------------------------------------------------
(* Edges and predecessors.                                                 *)

LEMMA PredecessorsCounted ==
  ASSUME NEW term, NEW m, TermsOK(term, m), NEW b, NEW r, Lists(r, Predecessors(term, b))
  PROVE  {r[k] : k \in DOMAIN r} = Predecessors(term, b) /\ PredecessorCount(term, b) = Len(r)
<1> DEFINE n == Len(r)
           U == UNION {{<<p, k>> : k \in EdgesTo(term[p], b)} : p \in DOMAIN term}
           Slot(p) == CHOOSE k \in EdgesTo(term[p], b) : TRUE
           F == [i \in 1 .. n |-> <<r[i], Slot(r[i])>>]
<1>1. /\ n \in Nat /\ DOMAIN r = 1 .. n
      /\ \A p : p \in Predecessors(term, b) <=> \E k \in 1 .. n : r[k] = p
      /\ \A j, k \in 1 .. n : r[j] = r[k] => j = k
  BY DEF Lists, IsRow
<1>2. {r[k] : k \in DOMAIN r} = Predecessors(term, b)
  BY <1>1
<1>3. \A p \in Predecessors(term, b) : p \in DOMAIN term /\ Slot(p) \in EdgesTo(term[p], b)
  <2> SUFFICES ASSUME NEW p \in Predecessors(term, b)
               PROVE  p \in DOMAIN term /\ Slot(p) \in EdgesTo(term[p], b)
    OBVIOUS
  <2>1. p \in DOMAIN term /\ \E k \in DOMAIN term[p].to : term[p].to[k] = b
    BY DEF Predecessors, Successors
  <2>2. \E k : k \in EdgesTo(term[p], b)
    BY <2>1 DEF EdgesTo
  <2> QED
    BY <2>1, <2>2
<1>4. \A p \in DOMAIN term : \A k \in EdgesTo(term[p], b) :
        p \in Predecessors(term, b) /\ k = Slot(p)
  <2> SUFFICES ASSUME NEW p \in DOMAIN term, NEW k \in EdgesTo(term[p], b)
               PROVE  p \in Predecessors(term, b) /\ k = Slot(p)
    OBVIOUS
  <2>1. k \in DOMAIN term[p].to /\ term[p].to[k] = b
    BY DEF EdgesTo
  <2>2. p \in Predecessors(term, b)
    BY <2>1 DEF Predecessors, Successors
  <2>3. Slot(p) \in DOMAIN term[p].to /\ term[p].to[Slot(p)] = b
    BY <1>3, <2>2 DEF EdgesTo
  <2>4. DOMAIN term[p].to = 1 .. Len(term[p].to)
    BY DEF TermsOK, TermOK, RowOf, IsRow
  <2>5. \A i, j \in 1 .. Len(term[p].to) : term[p].to[i] = term[p].to[j] => i = j
    BY DEF TermsOK, TermOK, IsRow
  <2> QED
    BY <2>1, <2>2, <2>3, <2>4, <2>5
<1> HIDE DEF n, Slot
<1>5. F \in Bijection(1 .. n, U)
  <2>1. \A i \in 1 .. n : r[i] \in Predecessors(term, b)
    BY <1>1
  <2>2. F \in [1 .. n -> U]
    <3>1. ASSUME NEW i \in 1 .. n PROVE <<r[i], Slot(r[i])>> \in U
      BY <1>3, <2>1
    <3> QED
      BY <3>1
  <2>3. ASSUME NEW u \in U PROVE \E i \in 1 .. n : F[i] = u
    <3>1. PICK p \in DOMAIN term : \E k \in EdgesTo(term[p], b) : u = <<p, k>>
      BY <2>3
    <3>2. u = <<p, Slot(p)>> /\ p \in Predecessors(term, b)
      BY <1>4, <3>1
    <3>3. PICK i \in 1 .. n : r[i] = p
      BY <1>1, <3>2
    <3>4. F[i] = u
      BY <3>2, <3>3
    <3> QED
      BY <3>4
  <2>4. \A i, j \in 1 .. n : F[i] = F[j] => i = j
    BY <1>1
  <2> HIDE DEF F, U
  <2>5. F \in Injection(1 .. n, U) /\ F \in Surjection(1 .. n, U)
    BY <2>2, <2>3, <2>4, Fun_IsInj, Fun_IsSurj
  <2> QED
    BY <2>5, Fun_IsBij
<1>6. Cardinality(U) = n
  <2> HIDE DEF U, F
  <2>1. ExistsBijection(1 .. n, U)
    BY <1>5 DEF ExistsBijection
  <2> QED
    BY <1>1, <2>1, FS_CountingElements
<1> QED
  BY <1>2, <1>6 DEF PredecessorCount, n

LEMMA CoreInv ==
  ASSUME Inv
  PROVE  /\ Core(bld, Shut(bld, work), Busy(work)) /\ IsRow(work)
         /\ Blocks = 1 .. Len(bld.term) /\ Values = 1 .. Len(bld.inst)
<1>1. Core(bld, Shut(bld, work), Busy(work)) /\ IsRow(work)
  BY DEF Inv, Held
<1>2. IsRow(bld.term) /\ IsRow(bld.inst)
  BY <1>1, CoreLens
<1> QED
  BY <1>1, <1>2 DEF Blocks, Values, IsRow

LEMMA InvEdges ==
  ASSUME Inv
  PROVE  EdgesAgree
<1>1. /\ Core(bld, Shut(bld, work), Busy(work)) /\ Blocks = 1 .. Len(bld.term)
  BY CoreInv
<1>2. TermsOK(bld.term, Len(bld.inst)) /\ Agrees(bld.term, bld.preds)
  BY <1>1 DEF Core
<1>3. ASSUME NEW b \in Blocks PROVE Lists(bld.preds[b], Predecessors(bld.term, b))
  BY <1>1, <1>2 DEF Agrees
<1> QED
  BY <1>2, <1>3, PredecessorsCounted DEF EdgesAgree

\* Whatever the body, what terminate has pushed on preds is at every step what
\* the terminators say: each block lists its predecessors, each edge once.
THEOREM EdgesAlwaysAgree == Spec /\ ~ShortCircuitInWhile => []EdgesAgree
BY Invariant, InvEdges, PTL

LEMMA InvForks ==
  ASSUME Inv
  PROVE  BranchesReachNoJoin(bld)
<1>1. Core(bld, Shut(bld, work), Busy(work)) /\ Blocks = 1 .. Len(bld.term)
      /\ Values = 1 .. Len(bld.inst)
  BY CoreInv
<1>2. /\ TermsOK(bld.term, Len(bld.inst)) /\ Agrees(bld.term, bld.preds)
      /\ Forks(bld.term, bld.preds, Shut(bld, work), bld.inst)
  BY <1>1 DEF Core
<1> SUFFICES ASSUME NEW b \in DOMAIN bld.term, bld.term[b].op = "branch",
                    NEW s \in Successors(bld.term[b])
             PROVE  PredecessorCount(bld.term, s) = 1 /\ PhisOf(bld.inst, s) = {}
  BY DEF BranchesReachNoJoin
<1>3. b \in 1 .. Len(bld.term) /\ ForkTarget(bld.term, s)
  BY <1>1 DEF Blocks, ForkTarget
<1>4. Len(bld.preds[s]) = 1 /\ PhiFree(bld.inst, s)
  BY <1>2, <1>3 DEF Forks
<1>5. s \in 1 .. Len(bld.term)
  BY <1>2, <1>3, SuccessorsKnown
<1>6. Lists(bld.preds[s], Predecessors(bld.term, s))
  BY <1>2, <1>5 DEF Agrees
<1>7. PredecessorCount(bld.term, s) = 1
  BY <1>2, <1>4, <1>6, PredecessorsCounted
<1>8. PhisOf(bld.inst, s) = {}
  BY <1>1, <1>4 DEF PhiFree, PhisOf, DefinedIn, Values
<1> QED
  BY <1>7, <1>8

\* Whatever the body, a branch of the function handed on leads to blocks with
\* one predecessor and no phi: lower may emit the copies of an edge before the
\* conditional jump, because a branch's edges have none.
THEOREM NoBranchLeadsToAJoin == Spec /\ ~ShortCircuitInWhile => []NoCriticalEdge
<1>1. Inv => NoCriticalEdge
  BY InvForks DEF NoCriticalEdge
<1> QED
  BY <1>1, Invariant, PTL

-----------------------------------------------------------------------------
(* What no step undoes.                                                    *)

LEMMA NextKeeps ==
  ASSUME Inv, [Next]_vars
  PROVE  /\ \A b \in bld.sealed : bld'.preds[b] = bld.preds[b]
         /\ \A b \in Ended : bld'.term[b] = bld.term[b]
         /\ \A v \in DOMAIN bld'.inst \ Values :
              bld'.inst[v].block \in Ended => bld'.inst[v].kind = "phi"
<1>1. Inv' /\ Keeps(bld, bld')
  BY InvStep DEF Stepped
<1>2. BlocksOf(bld) = Blocks /\ ValuesOf(bld) = Values
  BY CoreInv DEF BlocksOf, ValuesOf
<1>3. DOMAIN bld'.inst = ValuesOf(bld')
  <2>1. Core(bld', Shut(bld', work'), Busy(work'))
    BY <1>1 DEF Inv, Held
  <2>2. IsRow(bld'.inst)
    BY <2>1, CoreLens
  <2> QED
    BY <2>2 DEF IsRow, ValuesOf
<1>4. \A b : b \in Ended <=> b \in BlocksOf(bld) /\ bld.term[b].op # "none"
  BY <1>2 DEF Ended, IsTerminated
<1> QED
  BY <1>1, <1>2, <1>3, <1>4 DEF Keeps

\* Whatever the body, the parser never adds an edge to a block it has sealed:
\* the phis seal_block completes stay complete.
THEOREM SealedBlocksGetNoEdge == Spec /\ ~ShortCircuitInWhile => SealedPredecessorsStay
<1>1. Inv /\ [Next]_vars => [\A b \in bld.sealed : bld'.preds[b] = bld.preds[b]]_vars
  BY NextKeeps
<1> QED
  BY <1>1, Invariant, PTL DEF SealedPredecessorsStay, Spec

\* Whatever the body, a block that has its terminator keeps it, and the only
\* instructions that still enter it are the phis of later variable reads.
THEOREM EndedBlocksAreLeftAlone == Spec /\ ~ShortCircuitInWhile => EndedBlocksStay
<1>1. Inv /\ [Next]_vars =>
        [/\ \A b \in Ended : bld'.term[b] = bld.term[b]
         /\ \A v \in DOMAIN bld'.inst \ Values :
              bld'.inst[v].block \in Ended => bld'.inst[v].kind = "phi"]_vars
  BY NextKeeps
<1> QED
  BY <1>1, Invariant, PTL DEF EndedBlocksStay, Spec

-----------------------------------------------------------------------------
(* The phis.                                                               *)

LEMMA InvParked ==
  ASSUME Inv
  PROVE  NoParkedPhiLeft
<1>1. Core(bld, Shut(bld, work), Busy(work)) /\ IsRow(work)
  BY CoreInv
<1>2. Parks(bld.inst, bld.defs, bld.pending, Shut(bld, work))
      /\ Shut(bld, work) \subseteq BlocksOf(bld)
  BY <1>1 DEF Core
<1>3. ASSUME NEW b \in Shut(bld, work) PROVE bld.pending[b] = <<>>
  <2>1. Len(bld.pending[b]) = 0
    BY <1>2 DEF Parks
  <2>2. IsRow(bld.pending[b])
    BY <1>1, <1>2, CoreLens
  <2> QED
    BY <2>1, <2>2, EmptyRow, RowsEqual
<1>4. bld.sealed \subseteq Shut(bld, work)
  BY DEF Shut
<1>5. ASSUME NEW i \in DOMAIN work, work[i].op = "seal" PROVE work[i].b \in Shut(bld, work)
  <2>1. i \in 1 .. Len(work)
    BY <1>1 DEF IsRow
  <2>2. FrameOK(work[i], bld, cur, Shut(bld, work))
    BY <2>1 DEF Inv, Held, FramesOK
  <2> QED
    BY <1>5, <2>2 DEF FrameOK
<1> QED
  BY <1>3, <1>4, <1>5 DEF NoParkedPhiLeft

\* Whatever the body, no read in the middle of seal_block parks a phi in the
\* block being sealed, and a sealed block has none left over.
THEOREM NoPhiStaysParked == Spec /\ ~ShortCircuitInWhile => []NoParkedPhiLeft
BY InvParked, Invariant, PTL

\* When the body is finished, every block is sealed.
LEMMA AllSealed ==
  ASSUME Inv, Accepted
  PROVE  Quiet(bld, cur, ctl) /\ BlocksOf(bld) \subseteq bld.sealed
<1>1. Held(bld, cur, ctl, work) /\ IsRow(work) /\ Phase(mode, work, ret, bld, cur, ctl)
  BY DEF Inv
<1>2. Len(work) = 0 /\ Len(ctl) = 0
  BY <1>1 DEF Phase, Accepted
<1>3. Quiet(bld, cur, ctl)
  BY <1>1, <1>2, HeldQuiet
<1>4. ASSUME NEW b \in BlocksOf(bld) PROVE b \in bld.sealed
  <2>1. b \in bld.sealed \/ b = Unsealed(Nothing) \/ \E i \in 1 .. Len(ctl) : Unsealed(ctl[i]) = b
    BY <1>3 DEF Quiet, Stacked, Below
  <2>2. b # 0
    BY DEF BlocksOf
  <2>3. ~ \E i \in 1 .. Len(ctl) : TRUE
    BY <1>2
  <2> QED
    BY <2>1, <2>2, <2>3, NothingOwned
<1> QED
  BY <1>3, <1>4

LEMMA InvCovers ==
  ASSUME Inv
  PROVE  PhisCoverPredecessors
<1> SUFFICES ASSUME Accepted, NEW v \in Values, bld.inst[v].kind = "phi"
             PROVE  /\ bld.inst[v].from = bld.preds[bld.inst[v].block]
                    /\ Len(bld.inst[v].args) = Len(bld.inst[v].from)
                    /\ \A p \in Predecessors(bld.term, bld.inst[v].block) :
                         PhiCovers(bld.inst[v], p)
  BY DEF PhisCoverPredecessors
<1>1. Core(bld, bld.sealed, {}) /\ BlocksOf(bld) \subseteq bld.sealed
  BY AllSealed DEF Quiet
<1>2. /\ Agrees(bld.term, bld.preds) /\ Parks(bld.inst, bld.defs, bld.pending, bld.sealed)
      /\ PhisKnown(bld.inst, bld.preds, bld.pending, bld.sealed, {})
      /\ InstsOK(bld.inst, Len(bld.term))
  BY <1>1 DEF Core
<1>3. IsPhi(bld.inst, v)
  BY CoreInv DEF IsPhi
<1>4. ~IsParked(v, bld.pending)
  <2>1. \A b \in 1 .. Len(bld.pending) : Len(bld.pending[b]) = 0
    BY <1>1, <1>2, CoreLens DEF Parks, BlocksOf
  <2>2. \A b \in 1 .. Len(bld.pending) : 1 .. Len(bld.pending[b]) = {}
    BY <2>1
  <2> QED
    BY <2>2 DEF IsParked
<1>5. Complete(bld.inst[v], bld.preds, bld.sealed)
  BY <1>2, <1>3, <1>4 DEF PhisKnown
<1>6. /\ bld.inst[v].from = bld.preds[bld.inst[v].block]
      /\ Len(bld.inst[v].args) = Len(bld.inst[v].from)
  BY <1>5 DEF Complete
<1>7. bld.inst[v].block \in 1 .. Len(bld.term)
  BY <1>2, <1>3 DEF InstsOK, InstOK, IsPhi
<1>8. Lists(bld.inst[v].from, Predecessors(bld.term, bld.inst[v].block))
  BY <1>2, <1>6, <1>7 DEF Agrees
<1>9. ASSUME NEW p \in Predecessors(bld.term, bld.inst[v].block) PROVE PhiCovers(bld.inst[v], p)
  <2>1. PICK f : f = bld.inst[v].from
    OBVIOUS
  <2>2. /\ Len(f) \in Nat /\ DOMAIN f = 1 .. Len(f)
        /\ \A j, k \in 1 .. Len(f) : f[j] = f[k] => j = k
    BY <1>8, <2>1 DEF Lists, IsRow
  <2>3. PICK k \in 1 .. Len(f) : f[k] = p
    BY <1>8, <1>9, <2>1 DEF Lists
  <2>4. \A j \in 1 .. k - 1 : j \in 1 .. Len(f) /\ j # k
    BY <2>2
  <2>5. k \in FirstFrom(bld.inst[v], p)
    BY <2>1, <2>2, <2>3, <2>4 DEF FirstFrom
  <2> QED
    BY <2>5 DEF PhiCovers
<1> QED
  BY <1>6, <1>9

\* Whatever the body, each phi of the function handed on has one operand per
\* edge into its block, in the order of preds: the interpreter and the code
\* generator find the one they look up.
THEOREM EveryEdgeHasAnOperand == Spec /\ ~ShortCircuitInWhile => []PhisCoverPredecessors
BY InvCovers, Invariant, PTL

-----------------------------------------------------------------------------
(* The types.                                                              *)

LEMMA InstIs ==
  ASSUME NEW i, NEW n, NEW m, InstOK(i, n, m)
  PROVE  i \in [block : 1 .. n, kind : InstKinds, ty : Types,
                args : Seq(1 .. m), from : Seq(1 .. n)]
<1>1. i = [block |-> i.block, kind |-> i.kind, ty |-> i.ty, args |-> i.args, from |-> i.from]
  BY DEF InstOK
<1>2. i.args \in Seq(1 .. m) /\ i.from \in Seq(1 .. n)
  BY RowIsSeq DEF InstOK
<1>3. i.block \in 1 .. n /\ i.kind \in InstKinds /\ i.ty \in Types
  BY DEF InstOK
<1> QED
  BY <1>1, <1>2, <1>3

LEMMA TermIs ==
  ASSUME NEW t, NEW n, NEW m, TermOK(t, n, m)
  PROVE  t \in [op : {"none", "jump", "branch", "return"}, arg : 0 .. m, to : Seq(1 .. n)]
<1>1. t = [op |-> t.op, arg |-> t.arg, to |-> t.to]
  BY DEF TermOK
<1>2. t.to \in Seq(1 .. n)
  BY RowIsSeq DEF TermOK
<1>3. t.op \in {"none", "jump", "branch", "return"} /\ t.arg \in 0 .. m
  BY DEF TermOK
<1> QED
  BY <1>1, <1>2, <1>3

LEMMA FrameIs ==
  ASSUME NEW f, NEW n, NEW m, FrameShape(f, n, m)
  PROVE  f \in [op : {"read", "write", "ask", "take", "seal"}, x : Vars \cup {""}, b : 1 .. n,
                ty : Types \cup {""}, phi : 0 .. m, got : Seq(1 .. m),
                rest : Seq([x : Vars, phi : 1 .. m])]
<1>1. f = [op |-> f.op, x |-> f.x, b |-> f.b, ty |-> f.ty, phi |-> f.phi, got |-> f.got,
           rest |-> f.rest]
  BY DEF FrameShape, Frame
<1>2. f.got \in Seq(1 .. m) /\ f.rest \in Seq([x : Vars, phi : 1 .. m])
  BY RowIsSeq DEF FrameShape
<1>3. /\ f.op \in {"read", "write", "ask", "take", "seal"} /\ f.x \in Vars \cup {""}
      /\ f.b \in 1 .. n /\ f.ty \in Types \cup {""} /\ f.phi \in 0 .. m
  BY DEF FrameShape
<1> QED
  BY <1>1, <1>2, <1>3

OpenKinds == Bodies \cup {"if", "elseif", "while", "let", "assign", "return",
                          "expr", "name", "bin", "and", "or"}

LEMMA EntryIs ==
  ASSUME NEW o, NEW n, NEW m, EntryShape(o, n, m)
  PROVE  o \in [k : OpenKinds, x : Vars \cup {""}, b : 0 .. n, c : 0 .. n, v : 0 .. m]
<1>1. o = [k |-> o.k, x |-> o.x, b |-> o.b, c |-> o.c, v |-> o.v]
  BY DEF EntryShape, Open
<1>2. EntryKinds = OpenKinds
  BY DEF EntryKinds, OpenKinds, BodyKinds, WaitingKinds, OperandKinds
<1>3. o.k \in EntryKinds /\ o.x \in Vars \cup {""} /\ o.b \in 0 .. n /\ o.c \in 0 .. n /\ o.v \in 0 .. m
  BY DEF EntryShape
<1> QED
  BY <1>1, <1>2, <1>3

LEMMA WithZero ==
  ASSUME NEW n \in Nat
  PROVE  0 .. n = 1 .. n \cup {0}
OBVIOUS

LEMMA RowInSeq ==
  ASSUME NEW r, NEW S, IsRow(r), \A k \in 1 .. Len(r) : r[k] \in S
  PROVE  r \in Seq(S)
BY RowIsSeq DEF RowOf

LEMMA RowMaps ==
  ASSUME NEW r, NEW S, NEW n, IsRow(r), Len(r) = n, \A k \in 1 .. n : r[k] \in S
  PROVE  r \in [1 .. n -> S]
BY DEF IsRow

LEMMA CoreTypes ==
  ASSUME NEW s, NEW shut, NEW busy, Core(s, shut, busy)
  PROVE  LET n == Len(s.term)
             m == Len(s.inst)
         IN  /\ s.inst \in Seq([block : 1 .. n, kind : InstKinds, ty : Types,
                                args : Seq(1 .. m), from : Seq(1 .. n)])
             /\ s.term \in Seq([op : {"none", "jump", "branch", "return"},
                                arg : 0 .. m, to : Seq(1 .. n)])
             /\ s.preds \in [1 .. n -> Seq(1 .. n)]
             /\ s.defs \in [1 .. n -> [Vars -> 0 .. m]]
             /\ s.sealed \subseteq 1 .. n
             /\ s.pending \in [1 .. n -> Seq([x : Vars, phi : 1 .. m])]
<1> DEFINE n == Len(s.term)
           m == Len(s.inst)
<1>1. /\ IsRow(s.term) /\ IsRow(s.inst) /\ IsRow(s.preds) /\ IsRow(s.defs) /\ IsRow(s.pending)
      /\ Len(s.preds) = n /\ Len(s.defs) = n /\ Len(s.pending) = n
      /\ \A b \in 1 .. n : IsRow(s.preds[b]) /\ IsRow(s.pending[b])
  BY CoreLens DEF BlocksOf
<1>2. /\ TermsOK(s.term, m) /\ InstsOK(s.inst, n) /\ DefsOK(s.defs, n, m)
      /\ PendingOK(s.pending, n, m) /\ Agrees(s.term, s.preds)
      /\ s.sealed \subseteq 1 .. n
  BY DEF Core, BlocksOf
<1>3. s.inst \in Seq([block : 1 .. n, kind : InstKinds, ty : Types,
                      args : Seq(1 .. m), from : Seq(1 .. n)])
  BY <1>1, <1>2, InstIs, RowInSeq DEF InstsOK
<1>4. s.term \in Seq([op : {"none", "jump", "branch", "return"}, arg : 0 .. m, to : Seq(1 .. n)])
  BY <1>1, <1>2, TermIs, RowInSeq DEF TermsOK
<1>5. s.preds \in [1 .. n -> Seq(1 .. n)]
  <2>1. ASSUME NEW b \in 1 .. n PROVE s.preds[b] \in Seq(1 .. n)
    <3>1. Lists(s.preds[b], Predecessors(s.term, b))
      BY <1>2 DEF Agrees
    <3>2. Predecessors(s.term, b) \subseteq 1 .. n
      BY <1>1 DEF Predecessors, IsRow
    <3>3. \A k \in 1 .. Len(s.preds[b]) : s.preds[b][k] \in 1 .. n
      BY <3>1, <3>2 DEF Lists
    <3> QED
      BY <1>1, <3>3, RowInSeq
  <2> QED
    BY <1>1, <2>1, RowMaps
<1>6. s.defs \in [1 .. n -> [Vars -> 0 .. m]]
  BY <1>1, <1>2, RowMaps DEF DefsOK
<1>7. s.pending \in [1 .. n -> Seq([x : Vars, phi : 1 .. m])]
  <2>1. \A b \in 1 .. n : s.pending[b] \in Seq([x : Vars, phi : 1 .. m])
    BY <1>2, RowIsSeq DEF PendingOK
  <2> QED
    BY <1>1, <2>1, RowMaps
<1> QED
  BY <1>2, <1>3, <1>4, <1>5, <1>6, <1>7

LEMMA InvTypes ==
  ASSUME Inv
  PROVE  TypeOK
<1>1. /\ Core(bld, Shut(bld, work), Busy(work)) /\ IsRow(work)
      /\ Blocks = 1 .. Len(bld.term) /\ Values = 1 .. Len(bld.inst)
  BY CoreInv
<1>2. Len(bld.term) \in Nat /\ Len(bld.inst) \in Nat
  BY <1>1, CoreLens
<1>3. Blocks \cup {0} = 0 .. Len(bld.term) /\ Values \cup {NoValue} = 0 .. Len(bld.inst)
  BY <1>1, <1>2, WithZero DEF NoValue
<1>4. /\ Held(bld, cur, ctl, work) /\ Phase(mode, work, ret, bld, cur, ctl)
      /\ ety \in Types \cup {NoType} /\ ScopesOK(scopes) /\ LogOK(log, bld)
      /\ stmts \in 0 .. MaxStatements
  BY DEF Inv
<1>5. ret \in Values \cup {NoValue}
  BY <1>3, <1>4 DEF Phase
<1>6. mode \in {"stmt", "operand", "reading", "value", "done"} \cup Errors
  BY <1>4 DEF Phase, ParserModes
<1>7. cur \in Blocks
  BY <1>1, <1>4 DEF Held, BlocksOf
<1>8. scopes \in Seq([Vars -> Types \cup {NoType}])
  BY <1>4, RowIsSeq DEF ScopesOK
<1>9. ctl \in Seq([k : OpenKinds, x : Vars \cup {""}, b : Blocks \cup {0}, c : Blocks \cup {0},
                   v : Values \cup {NoValue}])
  <2>1. Stacked(ctl, bld, cur, Shut(bld, work))
    BY <1>4 DEF Held
  <2>2. IsRow(ctl) /\ \A i \in 1 .. Len(ctl) : EntryShape(ctl[i], Len(bld.term), Len(bld.inst))
    BY <2>1 DEF Stacked, Below, EntryOK
  <2>3. \A i \in 1 .. Len(ctl) : ctl[i] \in [k : OpenKinds, x : Vars \cup {""}, b : Blocks \cup {0},
                                             c : Blocks \cup {0}, v : Values \cup {NoValue}]
    BY <1>3, <2>2, EntryIs
  <2> QED
    BY <2>2, <2>3, RowInSeq
<1>10. work \in Seq([op : {"read", "write", "ask", "take", "seal"}, x : Vars \cup {""}, b : Blocks,
                     ty : Types \cup {""}, phi : Values \cup {NoValue}, got : Seq(Values),
                     rest : Seq([x : Vars, phi : Values])])
  <2>1. \A i \in 1 .. Len(work) : FrameShape(work[i], Len(bld.term), Len(bld.inst))
    BY <1>4 DEF Held, FramesOK, FrameOK
  <2>2. \A i \in 1 .. Len(work) :
          work[i] \in [op : {"read", "write", "ask", "take", "seal"}, x : Vars \cup {""}, b : Blocks,
                       ty : Types \cup {""}, phi : Values \cup {NoValue}, got : Seq(Values),
                       rest : Seq([x : Vars, phi : Values])]
    BY <1>1, <1>3, <2>1, FrameIs
  <2> QED
    BY <1>1, <2>2, RowInSeq
<1>11. BuilderTypeOK
  BY <1>1, <1>3, <1>5, <1>10, CoreTypes DEF BuilderTypeOK
<1>12. Len(log) = LastBlock(bld)
  BY <1>4 DEF LogOK, LastBlock
<1> QED
  BY <1>4, <1>5, <1>6, <1>7, <1>8, <1>9, <1>11, <1>12 DEF TypeOK, OpenKinds

\* Whatever the body, the builder's fields name only blocks and values that
\* exist, and so do the calls and constructs in progress.
THEOREM ParserTypes == Spec /\ ~ShortCircuitInWhile => []TypeOK
BY InvTypes, Invariant, PTL

-----------------------------------------------------------------------------
(* Recursion over the naturals, for sets and functions.                    *)

LEMMA Induct ==
  ASSUME NEW T, 0 \in T, \A n \in Nat : n \in T => n + 1 \in T
  PROVE  Nat \subseteq T
<1> DEFINE R == OpToRel(<, Nat)
<1>1. IsWellFoundedOn(R, Nat)
  BY NatLessThanWellFounded
<1> SUFFICES ASSUME Nat \ T # {} PROVE FALSE
  OBVIOUS
<1>2. IsWellFoundedOn(R, Nat) /\ Nat \ T \subseteq Nat
  BY <1>1
<1> HIDE DEF R
<1>3. PICK n \in Nat \ T : \A m \in Nat \ T : <<m, n>> \notin R
  BY <1>2, WFMin
<1>4. \A m \in Nat \ T : ~(m < n)
  BY <1>3 DEF R, OpToRel
<1>5. n - 1 \in Nat /\ n - 1 < n /\ n = (n - 1) + 1
  BY <1>3
<1> QED
  BY <1>3, <1>4, <1>5

\* A function f that is right up to n.
RightUpTo(S, a, h, n, f) ==
  f \in [Nat -> S] /\ f[0] = a /\ \A k \in 1 .. n : f[k] = h[f[k - 1]]

LEMMA RightSomewhere ==
  ASSUME NEW S, NEW a \in S, NEW h \in [S -> S]
  PROVE  \A n \in Nat : \E f : RightUpTo(S, a, h, n, f)
<1> DEFINE T == {n \in Nat : \E f : RightUpTo(S, a, h, n, f)}
<1>1. 0 \in T
  <2>1. RightUpTo(S, a, h, 0, [n \in Nat |-> a])
    BY DEF RightUpTo
  <2> QED
    BY <2>1
<1>2. ASSUME NEW n \in Nat, n \in T PROVE n + 1 \in T
  <2>1. PICK f : RightUpTo(S, a, h, n, f)
    BY <1>2
  <2> DEFINE g == [f EXCEPT ![n + 1] = h[f[n]]]
  <2>2. f \in [Nat -> S] /\ f[0] = a /\ \A k \in 1 .. n : f[k] = h[f[k - 1]]
    BY <2>1 DEF RightUpTo
  <2>3. g \in [Nat -> S] /\ g[n + 1] = h[f[n]] /\ \A k \in Nat : k # n + 1 => g[k] = f[k]
    BY <2>2
  <2> HIDE DEF g
  <2>4. g[0] = a
    BY <2>2, <2>3
  <2>5. ASSUME NEW k \in 1 .. n + 1 PROVE g[k] = h[g[k - 1]]
    <3>1. k \in Nat /\ k - 1 \in Nat /\ k - 1 # n + 1 /\ (k = n + 1 => k - 1 = n)
      BY <2>5
    <3>2. g[k - 1] = f[k - 1]
      BY <2>3, <3>1
    <3>3. CASE k = n + 1
      BY <2>3, <3>1, <3>2, <3>3
    <3>4. CASE k # n + 1
      <4>1. k \in 1 .. n
        BY <2>5, <3>4
      <4> QED
        BY <2>2, <2>3, <3>1, <3>2, <3>4, <4>1
    <3> QED
      BY <3>3, <3>4
  <2>6. RightUpTo(S, a, h, n + 1, g)
    BY <2>3, <2>4, <2>5 DEF RightUpTo
  <2> QED
    BY <2>6
<1> HIDE DEF T
<1>3. Nat \subseteq T
  BY <1>1, <1>2, Induct
<1> QED
  BY <1>3 DEF T

LEMMA RightAgree ==
  ASSUME NEW S, NEW a \in S, NEW h \in [S -> S]
  PROVE  \A k \in Nat : \A m, n \in Nat : \A f, g :
           k <= m /\ k <= n /\ RightUpTo(S, a, h, m, f) /\ RightUpTo(S, a, h, n, g) => f[k] = g[k]
<1> DEFINE T == {k \in Nat : \A m, n \in Nat : \A f, g :
                   k <= m /\ k <= n /\ RightUpTo(S, a, h, m, f) /\ RightUpTo(S, a, h, n, g)
                     => f[k] = g[k]}
<1>1. 0 \in T
  BY DEF RightUpTo
<1>2. ASSUME NEW k \in Nat, k \in T PROVE k + 1 \in T
  <2> SUFFICES ASSUME NEW m \in Nat, NEW n \in Nat, NEW f, NEW g, k + 1 <= m, k + 1 <= n,
                      RightUpTo(S, a, h, m, f), RightUpTo(S, a, h, n, g)
               PROVE  f[k + 1] = g[k + 1]
    OBVIOUS
  <2>1. k <= m /\ k <= n /\ k + 1 \in 1 .. m /\ k + 1 \in 1 .. n /\ (k + 1) - 1 = k
    OBVIOUS
  <2>2. f[k] = g[k]
    BY <1>2, <2>1
  <2>3. f[k + 1] = h[f[k]] /\ g[k + 1] = h[g[k]]
    BY <2>1 DEF RightUpTo
  <2> QED
    BY <2>2, <2>3
<1> HIDE DEF T
<1>3. Nat \subseteq T
  BY <1>1, <1>2, Induct
<1> QED
  BY <1>3 DEF T

\* Recursion from a by steps of h is defined.
LEMMA Recursion ==
  ASSUME NEW S, NEW a \in S, NEW h \in [S -> S]
  PROVE  \E r \in [Nat -> S] : r = [n \in Nat |-> IF n = 0 THEN a ELSE h[r[n - 1]]]
<1> DEFINE c == [n \in Nat |-> CHOOSE f : RightUpTo(S, a, h, n, f)]
           r == [n \in Nat |-> c[n][n]]
<1>1. \A n \in Nat : RightUpTo(S, a, h, n, c[n])
  BY RightSomewhere
<1> HIDE DEF c
<1>2. r \in [Nat -> S]
  BY <1>1 DEF RightUpTo
<1>3. ASSUME NEW n \in Nat PROVE r[n] = IF n = 0 THEN a ELSE h[r[n - 1]]
  <2>1. CASE n = 0
    BY <1>1, <2>1 DEF RightUpTo
  <2>2. CASE n # 0
    <3>1. n - 1 \in Nat /\ n - 1 <= n /\ n - 1 <= n - 1 /\ n \in 1 .. n
      BY <2>2
    <3>2. c[n][n] = h[c[n][n - 1]]
      BY <1>1, <3>1 DEF RightUpTo
    <3>3. c[n][n - 1] = c[n - 1][n - 1]
      BY <1>1, <3>1, RightAgree
    <3> QED
      BY <2>2, <3>1, <3>2, <3>3
  <2> QED
    BY <2>1, <2>2
<1> HIDE DEF r
<1>4. r = [n \in Nat |-> IF n = 0 THEN a ELSE h[r[n - 1]]]
  BY <1>2, <1>3
<1> QED
  BY <1>2, <1>4

-----------------------------------------------------------------------------
(* Every block is reached.                                                 *)

\* An edge leads to each block but the entry from an earlier one.
Rooted(s) == \A b \in BlocksOf(s) \ {1} : \E p \in 1 .. b - 1 : b \in Successors(s.term[p])

LEMMA RootedKept ==
  ASSUME NEW s, NEW shut, NEW busy, Core(s, shut, busy), Rooted(s), NEW u, Keeps(s, u), Led(s, u)
  PROVE  Rooted(u)
<1> SUFFICES ASSUME NEW b \in BlocksOf(u) \ {1}
             PROVE  \E p \in 1 .. b - 1 : b \in Successors(u.term[p])
  BY DEF Rooted
<1>1. CASE b \in BlocksOf(s)
  <2>1. PICK p \in 1 .. b - 1 : b \in Successors(s.term[p])
    BY <1>1 DEF Rooted
  <2>2. p \in BlocksOf(s)
    <3>1. Len(s.term) \in Nat /\ b \in 1 .. Len(s.term)
      BY <1>1, CoreLens DEF BlocksOf
    <3>2. p \in 1 .. Len(s.term)
      BY <3>1
    <3> QED
      BY <3>2 DEF BlocksOf
  <2>3. TermOK(s.term[p], Len(s.term), Len(s.inst))
    BY <2>2 DEF Core, TermsOK, BlocksOf
  <2>4. u.term[p] = s.term[p]
    BY <2>1, <2>2, <2>3, TargetsEnd DEF Keeps
  <2> QED
    BY <2>1, <2>4
<1>2. CASE b \notin BlocksOf(s)
  BY <1>2 DEF Led
<1> QED
  BY <1>1, <1>2

\* A step that logs nothing for a new block makes none.
LEMMA NothingNew ==
  ASSUME Inv, Inv', NEW b, NEW e, log' = log \/ log' = Logged(log, b, e)
  PROVE  Led(bld, bld')
<1>1. IsRow(log) /\ Len(log) = Len(bld.term) /\ Len(log') = Len(bld'.term)
  BY DEF Inv, LogOK
<1>2. Len(log') = Len(log)
  <2>1. CASE log' = Logged(log, b, e)
    <3>1. LogOK(log, bld)
      BY DEF Inv
    <3>2. LogOK(log', bld)
      BY <2>1, <3>1, LogWritten
    <3> QED
      BY <1>1, <3>2 DEF LogOK
  <2> QED
    BY <2>1
<1>3. BlocksOf(bld') = BlocksOf(bld)
  BY <1>1, <1>2 DEF BlocksOf
<1> QED
  BY <1>3 DEF Led

LEMMA StepLeads ==
  ASSUME Inv, [Next]_vars
  PROVE  Led(bld, bld')
<1>1. Inv'
  BY InvStep DEF Stepped
<1>2. ASSUME \/ log' = log
             \/ \E b, e : log' = Logged(log, b, e)
      PROVE  Led(bld, bld')
  BY <1>1, <1>2, NothingNew
<1>3. CASE Statement /\ shape' = shape
  <2>1. CASE \E k, x : BeginStatement(k, x)
    BY <1>2, <2>1 DEF BeginStatement
  <2>2. CASE BeginWhile
    BY <1>3, <2>2, BeginsWhileLoop
  <2>3. CASE \/ UnreachableCode \/ AssignUndefined \/ ExprStatement \/ FinishReturn
             \/ EndThenElse \/ EndThenElseIf \/ EndLoop \/ EndFunction
    <3>1. log' = log
      BY <2>3 DEF UnreachableCode, AssignUndefined, Fail, ExprStatement, FinishReturn,
                  EndThenElse, EndThenElseIf, EndLoop, EndFunction
    <3> QED
      BY <1>2, <3>1
  <2>4. CASE FinishLet \/ FinishAssign
    BY <1>2, <2>4 DEF FinishLet, FinishAssign
  <2>5. CASE IfCondition
    BY <1>3, <2>5, EntersThen
  <2>6. CASE EndThenNoElse \/ EndElse \/ EndElseIf
    BY <1>3, <2>6, ClosesIfs
  <2>7. CASE WhileCondition
    BY <1>3, <2>7, EntersLoop
  <2> QED
    BY <1>3, <2>1, <2>2, <2>3, <2>4, <2>5, <2>6, <2>7 DEF Statement
<1>4. CASE Expression /\ shape' = shape
  <2>1. CASE \/ \E ty \in Types : Unary(ty) \/ BinaryRight(ty)
             \/ \E ty \in LiteralTypes : Literal(ty)
             \/ \E x \in LocalVars : VarRef(x) \/ VarRefUndefined(x)
             \/ TypeMismatch \/ BinaryLeft
    <3>1. log' = log
      BY <2>1 DEF Unary, BinaryRight, Literal, VarRef, VarRefUndefined, TypeMismatch, BinaryLeft,
                  Fail
    <3> QED
      BY <1>2, <3>1
  <2>2. CASE VarRefReturns
    BY <1>2, <2>2 DEF VarRefReturns
  <2>3. CASE \E k \in {"and", "or"} : ShortCircuit(k)
    BY <1>4, <2>3, StartsShort
  <2>4. CASE ShortCircuitEnd
    BY <1>2, <2>4 DEF ShortCircuitEnd
  <2> QED
    BY <1>4, <2>1, <2>2, <2>3, <2>4 DEF Expression
<1>5. CASE RunBuilder \/ UNCHANGED vars
  <2>1. log' = log
    BY <1>5 DEF RunBuilder, vars, parserVars
  <2> QED
    BY <1>2, <2>1
<1> QED
  BY <1>3, <1>4, <1>5 DEF Next, ParseStep, Stop

LEMMA AlwaysRooted == Spec /\ ~ShortCircuitInWhile => []Rooted(bld)
<1>1. Init => Rooted(bld)
  <2> SUFFICES ASSUME Init PROVE Rooted(bld)
    OBVIOUS
  <2>1. shape \in DOMAIN Shapes /\ bld = NewBuilder(Params)
    BY DEF Init
  <2>2. Len(bld.term) = 1
    BY <2>1, BuilderStarts, ParamsKnown, CoreStarts
  <2>3. BlocksOf(bld) \ {1} = {}
    BY <2>2 DEF BlocksOf
  <2> QED
    BY <2>3 DEF Rooted
<1>2. Inv /\ Rooted(bld) /\ [Next]_vars => Rooted(bld)'
  <2> SUFFICES ASSUME Inv, Rooted(bld), [Next]_vars PROVE Rooted(bld')
    OBVIOUS
  <2>1. Core(bld, Shut(bld, work), Busy(work))
    BY CoreInv
  <2>2. Keeps(bld, bld')
    BY InvStep DEF Stepped
  <2>3. Led(bld, bld')
    BY StepLeads
  <2> QED
    BY <2>1, <2>2, <2>3, RootedKept
<1> QED
  BY <1>1, <1>2, Invariant, PTL DEF Spec

\* What a search from the entry finds in n rounds.
Searched(g, q) ==
  /\ q[0] = {1}
  /\ \A n \in Nat : q[n + 1] = q[n] \cup UNION {Successors(g.term[b]) : b \in q[n]}

LEMMA Trimmed ==
  ASSUME NEW U, NEW B, \A c \in U : c \in B, 0 \notin B
  PROVE  U \ {0} \in SUBSET B /\ U \ {0} = U
<1>1. 0 \notin U
  OBVIOUS
<1>2. U \ {0} = U
  BY <1>1
<1> QED
  BY <1>2

LEMMA SearchIsDefined ==
  ASSUME NEW g, NEW B, 1 \in B, 0 \notin B, \A b \in B : Successors(g.term[b]) \subseteq B
  PROVE  \E q \in [Nat -> SUBSET B] : Searched(g, q) /\ ReachableAvoiding(g, 0) = q[Len(g.term)]
<1> DEFINE Grown(q) == [n \in Nat |->
             IF n = 0 THEN {1} \ {0}
             ELSE LET seen == q[n - 1]
                  IN  seen \cup ((UNION {Successors(g.term[b]) : b \in seen}) \ {0})]
           More(X) == (UNION {Successors(g.term[b]) : b \in X}) \ {0}
           q == CHOOSE q : q = Grown(q)
<1>1. ReachableAvoiding(g, 0) = q[Len(g.term)]
  BY DEF ReachableAvoiding
<1>2. \A X \in SUBSET B : More(X) \in SUBSET B /\ More(X) = UNION {Successors(g.term[b]) : b \in X}
  <2> SUFFICES ASSUME NEW X \in SUBSET B
               PROVE  More(X) \in SUBSET B /\ More(X) = UNION {Successors(g.term[b]) : b \in X}
    OBVIOUS
  <2> PICK U : U = UNION {Successors(g.term[b]) : b \in X}
    OBVIOUS
  <2>1. ASSUME NEW c \in U PROVE c \in B
    <3>1. PICK b \in X : c \in Successors(g.term[b])
      OBVIOUS
    <3> QED
      BY <3>1
  <2>2. U \ {0} \in SUBSET B /\ U \ {0} = U
    BY <2>1, Trimmed
  <2>3. More(X) = U \ {0}
    OBVIOUS
  <2> QED
    BY <2>2, <2>3
<1>3. PICK S, a, h : S = SUBSET B /\ a = {1} \ {0} /\ h = [X \in S |-> X \cup More(X)]
  OBVIOUS
<1>4. PICK r \in [Nat -> S] : r = [n \in Nat |-> IF n = 0 THEN a ELSE h[r[n - 1]]]
  <2>1. a \in S
    BY <1>3
  <2>2. h \in [S -> S]
    BY <1>2, <1>3
  <2> QED
    BY <2>1, <2>2, Recursion
<1>5. r = Grown(r)
  <2>1. \A X \in S : h[X] = X \cup More(X)
    BY <1>3
  <2> HIDE DEF More
  <2>2. ASSUME NEW n \in Nat, n # 0 PROVE h[r[n - 1]] = r[n - 1] \cup More(r[n - 1])
    <3>1. n - 1 \in Nat
      BY <2>2
    <3>2. r[n - 1] \in S
      BY <1>4, <3>1
    <3> QED
      BY <2>1, <3>2
  <2>3. r = [n \in Nat |-> IF n = 0 THEN a ELSE r[n - 1] \cup More(r[n - 1])]
    BY <1>4, <2>2
  <2> QED
    BY <1>3, <2>3 DEF More
<1>6. q = Grown(q)
  <2> HIDE DEF Grown
  <2> QED
    BY <1>5, Zenon
<1> HIDE DEF q
<1>7. q[0] = {1} \ {0}
  <2>1. q[0] = Grown(q)[0] /\ 0 \in Nat
    BY <1>6, Zenon
  <2> HIDE <1>6
  <2> QED
    BY <2>1, Zenon
<1>8. ASSUME NEW n \in Nat PROVE q[n + 1] = q[n] \cup More(q[n])
  <2>1. n + 1 \in Nat /\ n + 1 # 0 /\ (n + 1) - 1 = n
    OBVIOUS
  <2>2. q[n + 1] = Grown(q)[n + 1]
    BY <1>6, Zenon
  <2>3. Grown(q)[n + 1] = q[(n + 1) - 1] \cup More(q[(n + 1) - 1])
    BY <2>1, Zenon
  <2> QED
    BY <2>1, <2>2, <2>3, Zenon
<1> HIDE DEF Grown, More
<1> DEFINE T == {n \in Nat : q[n] \in SUBSET B}
<1>9. 0 \in T
  BY <1>7
<1>10. ASSUME NEW n \in Nat, n \in T PROVE n + 1 \in T
  BY <1>2, <1>8, <1>10
<1> HIDE DEF T
<1>11. Nat \subseteq T
  BY <1>9, <1>10, Induct
<1>12. \A n \in Nat : q[n] \in SUBSET B
  BY <1>11 DEF T
<1>13. q \in [Nat -> SUBSET B]
  <2>1. \E X : q = [n \in Nat |-> X[n]]
    BY <1>6, Zenon DEF Grown
  <2> QED
    BY <1>12, <2>1
<1>14. Searched(g, q)
  <2>1. q[0] = {1}
    BY <1>7
  <2>2. \A n \in Nat : q[n + 1] = q[n] \cup UNION {Successors(g.term[b]) : b \in q[n]}
    BY <1>2, <1>8, <1>12
  <2> QED
    BY <2>1, <2>2 DEF Searched
<1> QED
  BY <1>1, <1>13, <1>14

\* After n rounds the first n + 1 blocks are found.
LEMMA SearchFindsAll ==
  ASSUME NEW g, NEW shut, NEW busy, Core(g, shut, busy), Rooted(g), Len(g.term) # 0
  PROVE  ReachableAvoiding(g, 0) = BlocksOf(g)
<1>1. PICK N : N = Len(g.term) /\ N \in Nat /\ N # 0 /\ BlocksOf(g) = 1 .. N
  BY CoreLens DEF BlocksOf
<1>2. \A b \in BlocksOf(g) : Successors(g.term[b]) \subseteq BlocksOf(g)
  BY SuccessorsKnown DEF Core, BlocksOf
<1>3. 1 \in BlocksOf(g) /\ 0 \notin BlocksOf(g)
  BY <1>1
<1>4. PICK q \in [Nat -> SUBSET BlocksOf(g)] : Searched(g, q) /\ ReachableAvoiding(g, 0) = q[N]
  BY <1>1, <1>2, <1>3, SearchIsDefined
<1>5. /\ q[0] = {1}
      /\ \A n \in Nat : q[n + 1] = q[n] \cup UNION {Successors(g.term[b]) : b \in q[n]}
  BY <1>4 DEF Searched
<1> DEFINE T == {n \in Nat : \A b \in 1 .. N : b <= n + 1 => b \in q[n]}
<1>6. 0 \in T
  BY <1>5
<1>7. ASSUME NEW n \in Nat, n \in T PROVE n + 1 \in T
  <2> SUFFICES ASSUME NEW b \in 1 .. N, b <= n + 2 PROVE b \in q[n + 1]
    OBVIOUS
  <2>1. CASE b <= n + 1
    BY <1>5, <1>7, <2>1
  <2>2. CASE b = n + 2
    <3>1. PICK p \in 1 .. b - 1 : b \in Successors(g.term[p])
      BY <1>1, <2>2 DEF Rooted
    <3>2. p \in 1 .. N /\ p <= n + 1
      BY <1>1, <2>2
    <3>3. p \in q[n]
      BY <1>7, <3>2
    <3>4. b \in UNION {Successors(g.term[d]) : d \in q[n]}
      BY <3>1, <3>3
    <3> QED
      BY <1>5, <3>4
  <2> QED
    BY <2>1, <2>2
<1> HIDE DEF T
<1>8. Nat \subseteq T
  BY <1>6, <1>7, Induct
<1>9. \A b \in 1 .. N : b \in q[N]
  BY <1>1, <1>8 DEF T
<1>10. q[N] \subseteq BlocksOf(g)
  BY <1>1, <1>4
<1> QED
  BY <1>1, <1>4, <1>9, <1>10

\* Whatever the body, every block of the function handed on can be reached from
\* the entry: no join is made for two arms that have both ended.
THEOREM EveryBlockIsReached == Spec /\ ~ShortCircuitInWhile => []NoDeadBlock
<1>1. Inv /\ Rooted(bld) => NoDeadBlock
  <2> SUFFICES ASSUME Inv, Rooted(bld) PROVE ReachableAvoiding(bld, 0) = Blocks
    BY DEF NoDeadBlock
  <2>1. Core(bld, Shut(bld, work), Busy(work)) /\ Blocks = 1 .. Len(bld.term)
    BY CoreInv
  <2>2. Len(bld.term) # 0
    <3>1. cur \in BlocksOf(bld)
      BY DEF Inv, Held
    <3>2. PICK n : n = Len(bld.term) /\ cur \in 1 .. n
      BY <3>1 DEF BlocksOf
    <3>3. n # 0
      BY <3>2
    <3> QED
      BY <3>2, <3>3
  <2> QED
    BY <2>1, <2>2, SearchFindsAll DEF BlocksOf
<1> QED
  BY <1>1, AlwaysRooted, Invariant, PTL

Fits(I, O, t) ==
  Fit(Shadowing, RetType, bld, cur, ctl, scopes, mode, work, ret, ety, I, O, t)
\* The builder has made a step.
RunsOn(I, O, t) ==
  /\ RunLeft(Shadowing, RetType, bld, bld', cur, work', I, O, t)
  /\ Answers(Shadowing, bld', mode, work', ret', t)

ReadyNow(I, O, t, op) ==
  RunReady(Shadowing, RetType, bld, cur, work, Top, Tail(work), I, O, t) /\ Top.op \in {op}
LEMMA RunningReady ==
  ASSUME Inv, NEW I, NEW O, NEW t, Fits(I, O, t), NEW op, Running(op)
  PROVE  ReadyNow(I, O, t, op)
<1>1. TopCall(work, Top, Tail(work), op) /\ Held(bld, cur, ctl, work)
  BY RunningTop
<1> QED
  BY <1>1, Readies DEF Fits, ReadyNow

LEMMA LocalRuns ==
  ASSUME Inv, NEW I, NEW O, NEW t, Fits(I, O, t), ReadLocal
  PROVE  RunsOn(I, O, t)
<1>1. /\ Running("read") /\ bld.defs[Top.b][Top.x] # NoValue /\ ret' \in {bld.defs[Top.b][Top.x]}
      /\ work' = Tail(work) /\ bld' = bld
  BY DEF ReadLocal, BindingOf
<1>2. ReadyNow(I, O, t, "read")
  BY <1>1, RunningReady
<1>3. /\ RunLeft(Shadowing, RetType, bld, bld, cur, Tail(work), I, O, t)
      /\ HasKind(Shadowing, bld, ret', t)
  BY <1>1, <1>2, LocalFits DEF ReadyNow
<1> QED
  BY <1>1, <1>3 DEF RunsOn, Answers

LEMMA EmptyRuns ==
  ASSUME Inv, NEW I, NEW O, NEW t, Fits(I, O, t), ReadEmptyPhi
  PROVE  RunsOn(I, O, t)
<1>1. Running("read") /\ bld.defs[Top.b][Top.x] = NoValue /\ work' = Tail(work)
      /\ EmptyPhi(bld, Top, bld', ret')
  BY DEF ReadEmptyPhi, EmptyPhi, BindingOf, LastValue
<1>2. ReadyNow(I, O, t, "read")
  BY <1>1, RunningReady
<1>3. /\ RunLeft(Shadowing, RetType, bld, bld', cur, Tail(work), I, O, t)
      /\ HasKind(Shadowing, bld', ret', t)
  BY <1>1, <1>2, EmptyFits DEF ReadyNow
<1> QED
  BY <1>1, <1>3 DEF RunsOn, Answers

LEMMA OneRuns ==
  ASSUME Inv, NEW I, NEW O, NEW t, Fits(I, O, t), ReadOnePredecessor
  PROVE  RunsOn(I, O, t)
<1>1. /\ Running("read") /\ Len(bld.preds[Top.b]) = 1 /\ bld' = bld
      /\ bld.defs[Top.b][Top.x] = NoValue
      /\ AsksPredecessor(bld, Top, Tail(work), work')
  BY DEF ReadOnePredecessor, SealedRead, AsksPredecessor, BindingOf
<1>2. ReadyNow(I, O, t, "read")
  BY <1>1, RunningReady
<1>3. RunLeft(Shadowing, RetType, bld, bld, cur, work', I, O, t)
  BY <1>1, <1>2, OneFits DEF ReadyNow
<1>4. Asked(work')
  BY <1>1, <1>2, OneAsked DEF ReadyNow
<1> QED
  BY <1>1, <1>3, <1>4, AskedAnswers DEF RunsOn

LEMMA MergeRuns ==
  ASSUME Inv, NEW I, NEW O, NEW t, Fits(I, O, t), ReadMerge
  PROVE  RunsOn(I, O, t)
<1>1. Running("read") /\ bld.defs[Top.b][Top.x] = NoValue
      /\ MergeRead(bld, Top, Tail(work), bld', work')
  BY DEF ReadMerge, SealedRead, MergeRead, LastValue, BindingOf
<1>2. ReadyNow(I, O, t, "read")
  BY <1>1, RunningReady
<1>3. RunLeft(Shadowing, RetType, bld, bld', cur, work', I, O, t)
  BY <1>1, <1>2, MergeFits DEF ReadyNow
<1>4. Asked(work')
  BY <1>1, <1>2, MergeAsked DEF ReadyNow
<1> QED
  BY <1>3, <1>4, AskedAnswers DEF RunsOn

\* What the call on top waits for has been returned.
LEMMA Returned ==
  ASSUME Inv, NEW I, NEW O, NEW t, Fits(I, O, t), NEW op \in {"write", "take"}, Running(op)
  PROVE  HasKind(Shadowing, bld, ret, t)
<1>1. TopCall(work, Top, Tail(work), op) /\ Len(work) > 0
  BY RunningTop
<1>2. work[1].op \in {"write", "take"}
  BY <1>1 DEF TopCall, OnTop
<1>3. ReturnFits(Shadowing, bld, mode, work, ret, ety, t)
  BY DEF Fits, Fit, Fitting
<1> QED
  BY <1>1, <1>2, <1>3 DEF ReturnFits

LEMMA WriteRuns ==
  ASSUME Inv, NEW I, NEW O, NEW t, Fits(I, O, t), WriteBack
  PROVE  RunsOn(I, O, t)
<1>1. /\ Running("write") /\ bld' \in {Write(bld, Top.x, Top.b, ret)} /\ work' = Tail(work)
      /\ ret' = ret
  BY DEF WriteBack
<1>2. ReadyNow(I, O, t, "write") /\ HasKind(Shadowing, bld, ret, t)
  BY <1>1, RunningReady, Returned
<1>3. /\ RunLeft(Shadowing, RetType, bld, bld', cur, Tail(work), I, O, t)
      /\ HasKind(Shadowing, bld', ret, t)
  BY <1>1, <1>2, WriteFits DEF ReadyNow
<1> QED
  BY <1>1, <1>3 DEF RunsOn, Answers

LEMMA AskRuns ==
  ASSUME Inv, NEW I, NEW O, NEW t, Fits(I, O, t), AskOperand
  PROVE  RunsOn(I, O, t)
<1>1. Running("ask") /\ Len(Top.got) < Len(bld.preds[Top.b]) /\ bld' = bld
      /\ AsksNext(bld, Top, Tail(work), work')
  BY DEF AskOperand, AsksNext
<1>2. ReadyNow(I, O, t, "ask")
  BY <1>1, RunningReady
<1>3. RunLeft(Shadowing, RetType, bld, bld, cur, work', I, O, t)
  BY <1>1, <1>2, AskFits DEF ReadyNow
<1>4. Asked(work')
  BY <1>1, <1>2, OperandAsked DEF ReadyNow
<1> QED
  BY <1>1, <1>3, <1>4, AskedAnswers DEF RunsOn

LEMMA TakeRuns ==
  ASSUME Inv, NEW I, NEW O, NEW t, Fits(I, O, t), TakeOperand
  PROVE  RunsOn(I, O, t)
<1>1. Running("take") /\ bld' = bld /\ TakesNext(Top, Tail(work), ret, work')
  BY DEF TakeOperand, TakesNext
<1>2. ReadyNow(I, O, t, "take") /\ HasKind(Shadowing, bld, ret, t)
  BY <1>1, RunningReady, Returned
<1>3. RunLeft(Shadowing, RetType, bld, bld, cur, work', I, O, t)
  BY <1>1, <1>2, TakeFits DEF ReadyNow
<1>4. Asked(work')
  BY <1>1, <1>2, TakeAsked DEF ReadyNow
<1> QED
  BY <1>1, <1>3, <1>4, AskedAnswers DEF RunsOn

LEMMA FillRuns ==
  ASSUME Inv, NEW I, NEW O, NEW t, Fits(I, O, t), FillPhi
  PROVE  RunsOn(I, O, t)
<1>1. Running("ask") /\ ret' \in {Top.phi} /\ work' = Tail(work) /\ FillsNow(bld, Top, bld')
  BY DEF FillPhi, FillsNow
<1>2. ReadyNow(I, O, t, "ask")
  BY <1>1, RunningReady
<1>3. /\ RunLeft(Shadowing, RetType, bld, bld', cur, Tail(work), I, O, t)
      /\ HasKind(Shadowing, bld', Top.phi, t)
  BY <1>1, <1>2, FillFits DEF ReadyNow
<1>4. HasKind(Shadowing, bld', ret', t)
  BY <1>1, <1>3
<1> QED
  BY <1>1, <1>3, <1>4 DEF RunsOn, Answers

SealNow == /\ SealTop(bld, cur, work, Top, Tail(work)) /\ mode \in {"stmt"}
           /\ IsRow(Tail(work)) /\ IsRow(Top.rest)
LEMMA SealingNow ==
  ASSUME Inv, Running("seal")
  PROVE  SealNow
<1>1. TopCall(work, Top, Tail(work), "seal") /\ Held(bld, cur, ctl, work)
  BY RunningTop
<1>2. SealTop(bld, cur, work, Top, Tail(work))
  BY <1>1, HeldSeal DEF TopCall
<1>3. Sealing(work) # {} /\ IsRow(Tail(work)) /\ IsRow(Top.rest)
  BY <1>2 DEF SealTop, RowOf
<1>4. mode \notin {"stmt"} => Sealing(work) = {}
  BY DEF Inv, Phase
<1> QED
  BY <1>2, <1>3, <1>4 DEF SealNow

LEMMA SealRuns ==
  ASSUME Inv, NEW I, NEW O, NEW t, Fits(I, O, t), SealNext
  PROVE  \E T : RunsOn(I, O, T)
<1>1. Running("seal") /\ bld' = bld /\ SealsOne(bld, Top, Tail(work), work')
  BY DEF SealNext, SealsOne
<1>2. ReadyNow(I, O, t, "seal") /\ SealNow
  BY <1>1, RunningReady, SealingNow
<1>3. Len(Top.rest) > 0
  BY <1>1, SealRest DEF SealNext
<1>4. \E T : RunLeft(Shadowing, RetType, bld, bld, cur, work', I, O, T)
  BY <1>1, <1>2, <1>3, SealFits DEF ReadyNow, SealNow
<1>5. PICK T : RunLeft(Shadowing, RetType, bld, bld, cur, work', I, O, T)
  BY <1>4
<1>6. Asked(work')
  BY <1>1, <1>2, <1>3, SealAsked DEF SealNow
<1>7. RunsOn(I, O, T)
  BY <1>1, <1>5, <1>6, AskedAnswers DEF RunsOn
<1> QED
  BY <1>7

LEMMA SealedRuns ==
  ASSUME Inv, NEW I, NEW O, NEW t, Fits(I, O, t), SealDone
  PROVE  RunsOn(I, O, t)
<1>1. Running("seal") /\ bld' \in {SealFresh(bld, {Top.b})} /\ work' = Tail(work)
  BY DEF SealDone
<1>2. ReadyNow(I, O, t, "seal") /\ SealNow
  BY <1>1, RunningReady, SealingNow
<1>3. RunLeft(Shadowing, RetType, bld, bld', cur, Tail(work), I, O, t)
  BY <1>1, <1>2, DoneFits DEF ReadyNow, SealNow
<1>4. Len(work') = 0
  BY <1>1, <1>2 DEF SealNow, SealTop
<1>5. mode \notin {"reading"}
  BY <1>2 DEF SealNow
<1> QED
  BY <1>1, <1>3, <1>4, <1>5 DEF RunsOn, Answers

LEMMA BuilderFits ==
  ASSUME Inv, NEW I, NEW O, NEW t, Fits(I, O, t), BuilderStep, UNCHANGED parserVars
  PROVE  \E T : Fits(I, O, T)'
<1>1. \E T : RunsOn(I, O, T) /\ (mode \notin {"stmt"} => T = t)
  <2>1. CASE SealNext
    <3>1. \E T : RunsOn(I, O, T)
      BY <2>1, SealRuns
    <3>2. Running("seal")
      BY <2>1 DEF SealNext
    <3>3. mode \in {"stmt"}
      BY <3>2, SealingNow DEF SealNow
    <3> QED
      BY <3>1, <3>3
  <2>2. CASE ~SealNext
    <3>1. RunsOn(I, O, t)
      BY <2>2, LocalRuns, EmptyRuns, OneRuns, MergeRuns, WriteRuns, AskRuns, TakeRuns, FillRuns,
         SealedRuns DEF BuilderStep
    <3> QED
      BY <3>1
  <2> QED
    BY <2>1, <2>2
<1>2. PICK T : RunsOn(I, O, T) /\ (mode \notin {"stmt"} => T = t)
  BY <1>1
<1>3. /\ Held(bld, cur, ctl, work) /\ Phase(mode, work, ret, bld, cur, ctl) /\ Len(work) > 0
  <2>1. Ran
    BY LocalRan, EmptyPhiRan, PredecessorRan, MergeRan, WriteRan, AskRan, TakeRan, FillRan,
       SealNextRan, SealDoneRan DEF BuilderStep
  <2> QED
    BY <2>1 DEF Inv, Ran
<1>4. Fit(Shadowing, RetType, bld', cur, ctl, scopes, mode, work', ret', ety, I, O, T)
  BY <1>2, <1>3, RunMoves DEF RunsOn, Fits
<1>5. /\ mode' = mode /\ ety' = ety /\ cur' = cur /\ scopes' = scopes /\ ctl' = ctl
      /\ Shadowing' = Shadowing /\ RetType' = RetType
  BY DEF parserVars, Shadowing, RetType
<1>6. Fits(I, O, T)'
  BY <1>4, <1>5 DEF Fits
<1> QED
  BY <1>6

-----------------------------------------------------------------------------
(* The steps of the parser, from the tables I and O to others.             *)

FitsNow == \E I, O, t : Fits(I, O, t)
Here(I, O) == Typed(Shadowing, RetType, bld, cur, ctl, scopes, I, O)
Valued == mode \in {"value"} => HasKind(Shadowing, bld, ret, Kind(Shadowing, ety))

LEMMA Lands ==
  ASSUME shape' = shape, NEW I, NEW O,
         Typed(Shadowing, RetType, bld', cur', ctl', scopes', I, O),
         Len(work') \in {0}, mode' \notin {"reading"},
         mode' \in {"value"} => HasKind(Shadowing, bld', ret', Kind(Shadowing, ety'))
  PROVE  FitsNow'
<1> PICK t : t \in {NoType}
  OBVIOUS
<1>1. Shadowing' = Shadowing /\ RetType' = RetType
  BY DEF Shadowing, RetType
<1>2. FramesFit(Shadowing, bld', I, O, work', t)
  <2>1. \A i : i \notin 1 .. Len(work')
    BY SMT
  <2> QED
    BY <2>1 DEF FramesFit
<1>3. ReturnFits(Shadowing, bld', mode', work', ret', ety', t)
  <2>1. ~(Len(work') > 0)
    BY SMT
  <2> QED
    BY <2>1 DEF ReturnFits
<1>4. Fits(I, O, t)'
  BY <1>1, <1>2, <1>3 DEF Fits, Fit, Fitting
<1> QED
  BY <1>4 DEF FitsNow

LEMMA FitsHere ==
  ASSUME FitsNow
  PROVE  \E I, O : Here(I, O) /\ Valued
<1> PICK I, O, t : Fits(I, O, t)
  BY DEF FitsNow
<1>1. Here(I, O) /\ ReturnFits(Shadowing, bld, mode, work, ret, ety, t)
  BY DEF Fits, Fit, Fitting, Here
<1>2. Valued
  BY <1>1 DEF ReturnFits, Valued
<1> QED
  BY <1>1, <1>2

\* The construct on top makes the step.
LEMMA ExprOn ==
  ASSUME Inv, mode \in {"operand", "value"}, NEW I, NEW O, Here(I, O)
  PROVE  StepOn(Shadowing, RetType, bld, cur, ctl, scopes, I, O, Inner, Tail(ctl))
<1>1. Quiet(bld, cur, ctl) /\ Waiting(ctl, cur) /\ OnTop(ctl, Inner, Tail(ctl)) /\ Rest
  BY AtExpression
<1>2. \A i \in 1 .. Len(Tail(ctl)) : AnchoredAt(Tail(ctl)[i], cur)
  BY <1>1, WaitingAnchored, TailAnchored
<1>3. ScopesOK(scopes)
  BY <1>1, RestParts
<1> QED
  BY <1>1, <1>2, <1>3 DEF StepOn, Here

LEMMA ExprHere ==
  ASSUME Inv, mode \in {"operand", "value"}, NEW I, NEW O, Here(I, O), Kept(Inner) = 0
  PROVE  StepHere(Shadowing, RetType, bld, cur, ctl, scopes, I, O, Inner, Tail(ctl))
<1>1. StepOn(Shadowing, RetType, bld, cur, ctl, scopes, I, O, Inner, Tail(ctl))
  BY ExprOn
<1>2. IsRow(scopes)
  BY <1>1 DEF StepOn, ScopesOK, RowOf
<1> QED
  BY <1>1, <1>2 DEF StepOn, StepHere

LEMMA RestOn ==
  ASSUME Inv, mode = "stmt", Idle, NEW I, NEW O, Here(I, O)
  PROVE  StepOn(Shadowing, RetType, bld, cur, ctl, scopes, I, O, Inner, Tail(ctl))
<1>1. Quiet(bld, cur, ctl) /\ Bodied(ctl) /\ OnTop(ctl, Inner, Tail(ctl)) /\ Rest
  BY AtRest
<1>2. \A i \in 1 .. Len(Tail(ctl)) : AnchoredAt(Tail(ctl)[i], cur)
  BY <1>1, BodiedAnchored, TailAnchored
<1>3. ScopesOK(scopes)
  BY <1>1, RestParts
<1> QED
  BY <1>1, <1>2, <1>3 DEF StepOn, Here

\* The scope a name is found in binds it.
LEMMA ScopeFound ==
  ASSUME ScopesOK(scopes), NEW x \in Vars
  PROVE  /\ ScopeOf(x) # 0 => ScopeOf(x) \in 1 .. Len(scopes) /\ LookupVar(x) # NoType
                              /\ LookupVar(x) \in Types
         /\ \A i \in 1 .. Len(scopes) : scopes[i][x] # NoType => ScopeOf(x) # 0 /\ i <= ScopeOf(x)
<1> DEFINE binding == {i \in DOMAIN scopes : scopes[i][x] # NoType}
<1>1. IsRow(scopes) /\ \A k \in 1 .. Len(scopes) : scopes[k] \in [Vars -> Types \cup {NoType}]
  BY DEF ScopesOK, RowOf
<1>2. DOMAIN scopes = 1 .. Len(scopes) /\ Len(scopes) \in Nat
  BY <1>1 DEF IsRow
<1>3. binding \subseteq 1 .. Len(scopes) /\ (ScopeOf(x) # 0 => binding # {})
  BY <1>2 DEF ScopeOf
<1>4. \A i \in binding : scopes[i][x] \in Types /\ scopes[i][x] # NoType
  BY <1>1, <1>2
<1>5. binding # {} => ScopeOf(x) = CHOOSE i \in binding : \A j \in binding : j <= i
  BY DEF ScopeOf
<1>a. \A i \in 1 .. Len(scopes) : scopes[i][x] # NoType => i \in binding
  BY <1>2
<1> HIDE DEF binding
<1>6. binding # {} => \E i \in binding : \A j \in binding : j <= i
  BY <1>2, <1>3, GreatestOf
<1>7. binding # {} => ScopeOf(x) \in binding /\ \A j \in binding : j <= ScopeOf(x)
  BY <1>5, <1>6
<1>8. binding # {} => ScopeOf(x) # 0
  BY <1>2, <1>3, <1>7, SMT
<1> QED
  BY <1>3, <1>4, <1>7, <1>8, <1>a DEF LookupVar

\* A name that a let may bind is bound in no outer scope.
LEMMA LetMayBind ==
  ASSUME ScopesOK(scopes), NEW x \in Vars, ScopeOf(x) \in {0, Len(scopes)},
         NoShadow(Shadowing, scopes), ~Shadowing
  PROVE  \A j \in 1 .. Len(scopes) : j # Len(scopes) => scopes[j][x] = NoType
<1>1. /\ ScopeOf(x) # 0 => ScopeOf(x) \in 1 .. Len(scopes) /\ scopes[ScopeOf(x)][x] # NoType
      /\ \A i \in 1 .. Len(scopes) : scopes[i][x] # NoType => ScopeOf(x) # 0
  BY ScopeFound DEF LookupVar
<1>2. \A i, j \in 1 .. Len(scopes) : scopes[i][x] # NoType /\ scopes[j][x] # NoType => i = j
  BY DEF NoShadow
<1> QED
  BY <1>1, <1>2

-----------------------------------------------------------------------------
(* The statements.                                                         *)

NoCall == work' = work /\ Len(work) = 0
LEMMA StillNoCall ==
  ASSUME NoCall
  PROVE  Len(work') \in {0}
BY DEF NoCall

LEMMA OpenIs ==
  ASSUME NEW k, NEW x, NEW b, NEW c, NEW v, NEW o, o \in {Open(k, x, b, c, v)}
  PROVE  o.k \in {k} /\ o.x \in {x} /\ o.b \in {b} /\ o.c \in {c} /\ o.v \in {v}
BY DEF Open

Plainly(o, k, x, v) == o \in {Open(k, x, 0, 0, v)} /\ o.k \in {k} /\ o.x \in {x} /\ o.v \in {v}
LEMMA OpenPlain ==
  ASSUME NEW k, NEW x, NEW v
  PROVE  \E o : Plainly(o, k, x, v)
<1> PICK o : o \in {Open(k, x, 0, 0, v)}
  OBVIOUS
<1>1. o.k \in {k} /\ o.x \in {x} /\ o.v \in {v}
  BY OpenIs
<1> QED
  BY <1>1 DEF Plainly

LEMMA TopBody ==
  ASSUME NEW q, NEW o, NEW r, OnTop(q, o, r), o.k \in Bodies, NEW p
  PROVE  LetOK(p, q)
<1>1. Len(r) \in Nat /\ Len(q) = Len(r) + 1 /\ q[1] = o
  BY OnTopSplits
<1>2. Len(q) > 0
  BY <1>1, SMT
<1> QED
  BY <1>1, <1>2 DEF LetOK

LEMMA BeginFits ==
  ASSUME Inv, shape' = shape, FitsNow, NEW k \in WaitingKinds \ {"while"}, NEW x \in Vars \cup {""},
         k \in {"let", "assign"} => x \in Vars, BeginStatement(k, x)
  PROVE  FitsNow'
<1> PICK I, O : Here(I, O) /\ Valued
  BY FitsHere
<1> PICK o : Plainly(o, k, x, 0)
  BY OpenPlain
<1>1. /\ mode = "stmt" /\ Idle /\ Inner.k \in Bodies /\ mode' = "operand" /\ ctl' = <<o>> \o ctl
      /\ bld' = bld /\ work' = work /\ cur' = cur /\ scopes' = scopes
      /\ k = "let" /\ ~Shadowing => ScopeOf(x) \in {0, Len(scopes)}
  BY DEF BeginStatement, AtStatement, NoValue, builderVars, Plainly
<1>2. Quiet(bld, cur, ctl) /\ Len(work) = 0 /\ IsRow(ctl) /\ OnTop(ctl, Inner, Tail(ctl)) /\ Rest
  BY <1>1, AtRest
<1>3. ScopesOK(scopes) /\ Len(scopes) \in Nat
  BY <1>2, RestParts, ScopeCount
<1>4. OnTop(<<o>> \o ctl, o, ctl)
  BY <1>2, Front
<1>5. o.k \in {k} /\ o.x \in {x}
  BY DEF Plainly
<1>6. o.k \in PlainKinds /\ o.k \notin {"bin"}
  BY <1>5 DEF PlainKinds, WaitingKinds
<1>7. o.k \in {"let"} => LetOK(o, ctl) /\ LetFree(Shadowing, scopes, o, Len(scopes))
  <2>1. LetOK(o, ctl)
    BY <1>1, <1>2, TopBody
  <2>2. ASSUME o.k \in {"let"}, ~Shadowing
        PROVE  \A j \in 1 .. Len(scopes) : j # Len(scopes) => scopes[j][o.x] = NoType
    <3>1. k = "let" /\ x \in Vars /\ o.x = x
      BY <1>5, <2>2
    <3>2. ScopeOf(x) \in {0, Len(scopes)}
      BY <1>1, <2>2, <3>1
    <3>3. NoShadow(Shadowing, scopes)
      BY DEF Here, Typed
    <3> QED
      BY <1>3, <2>2, <3>1, <3>2, <3>3, LetMayBind
  <2> QED
    BY <2>1, <2>2 DEF LetFree
<1>8. Typed(Shadowing, RetType, bld, cur, <<o>> \o ctl, scopes, I, O)
  <2>1. Typed(Shadowing, RetType, bld, cur, ctl, scopes, I, O)
    BY DEF Here
  <2> QED
    BY <1>3, <1>4, <1>6, <1>7, <2>1, PushTyped
<1>9. Typed(Shadowing, RetType, bld', cur', ctl', scopes', I, O)
  BY <1>1, <1>8
<1>10. Len(work') \in {0} /\ mode' \notin {"reading", "value"}
  BY <1>1, <1>2
<1> QED
  BY <1>9, <1>10, Lands

LEMMA WhileFits ==
  ASSUME Inv, shape' = shape, FitsNow, BeginWhile
  PROVE  FitsNow'
<1> PICK I, O : Here(I, O) /\ Valued
  BY FitsHere
<1> PICK h, o, u : WhileBegun(bld, cur, u, h, o)
  BY DEF WhileBegun
<1>1. /\ mode = "stmt" /\ Idle /\ bld.term[cur].op = "none" /\ mode' = "operand"
      /\ work' = work /\ scopes' = scopes
  BY DEF BeginWhile, AtStatement, IsTerminated
<1>2. Quiet(bld, cur, ctl) /\ Bodied(ctl) /\ Len(work) = 0 /\ IsRow(ctl) /\ Rest
  BY <1>1, AtRest
<1>3. ScopesOK(scopes)
  BY <1>2, RestParts
<1>4. Len(NewBlock(bld).term) = Len(bld.term) + 1 /\ h = Len(bld.term) + 1
  <2>1. Core(bld, bld.sealed, {})
    BY <1>2 DEF Quiet
  <2>2. AddsBlock(bld, NewBlock(bld))
    BY <2>1, NewBlockAdds
  <2> QED
    BY <2>2 DEF AddsBlock, Appended, WhileBegun
<1>5. bld' = u /\ cur' = h /\ ctl' = <<o>> \o ctl
  <2>1. /\ bld' = Terminate(NewBlock(bld), cur, Jump(Len(NewBlock(bld).term)))
        /\ cur' = Len(NewBlock(bld).term)
        /\ ctl' = <<Open("while", "", Len(NewBlock(bld).term), 0, NoValue)>> \o ctl
    BY DEF BeginWhile, LastBlock
  <2> QED
    BY <1>4, <2>1, Zenon DEF WhileBegun
<1>6. OnTop(<<o>> \o ctl, o, ctl)
  BY <1>2, Front
<1>7. \E I2, O2 : Typed(Shadowing, RetType, u, h, <<o>> \o ctl, scopes, I2, O2)
  <2>1. Typed(Shadowing, RetType, bld, cur, ctl, scopes, I, O)
    BY DEF Here
  <2> QED
    BY <1>1, <1>2, <1>3, <1>6, <2>1, WhileTyped
<1> PICK I2, O2 : Typed(Shadowing, RetType, u, h, <<o>> \o ctl, scopes, I2, O2)
  BY <1>7
<1>9. Typed(Shadowing, RetType, bld', cur', ctl', scopes', I2, O2)
  BY <1>1, <1>5
<1>10. Len(work') \in {0} /\ mode' \notin {"reading", "value"}
  BY <1>1, <1>2
<1> QED
  BY <1>9, <1>10, Lands

\* An error changes nothing but the mode.
LEMMA FailFits ==
  ASSUME Inv, shape' = shape, FitsNow, NEW e \in Errors, Fail(e),
         (mode = "stmt" /\ Idle) \/ mode \in {"operand", "value"}
  PROVE  FitsNow'
<1> PICK I, O : Here(I, O) /\ Valued
  BY FitsHere
<1>1. mode' = e /\ UNCHANGED <<bld, work, ret, ety, cur, scopes, ctl, stmts, log>>
  BY DEF Fail
<1>2. Len(work) = 0
  BY AtRest, AtExpression
<1>3. Typed(Shadowing, RetType, bld', cur', ctl', scopes', I, O)
  BY <1>1 DEF Here
<1>4. mode' \notin {"reading", "value"}
  BY <1>1 DEF Errors
<1>5. Len(work') \in {0}
  BY <1>1, <1>2
<1> QED
  BY <1>3, <1>4, <1>5, Lands

-----------------------------------------------------------------------------
(* The ends of the statements.                                             *)

LEMMA ExprFits ==
  ASSUME Inv, shape' = shape, FitsNow, ExprStatement
  PROVE  FitsNow'
<1> PICK I, O : Here(I, O) /\ Valued
  BY FitsHere
<1>1. /\ mode = "value" /\ Inner.k = "expr" /\ mode' = "stmt" /\ ctl' = Tail(ctl)
      /\ bld' = bld /\ work' = work /\ cur' = cur /\ scopes' = scopes
  BY DEF ExprStatement, AtValue, NextStatement, builderVars
<1>2. Len(work) = 0
  BY <1>1, AtExpression
<1>3. Kept(Inner) = 0 /\ Inner.k \notin Bodies
  BY <1>1, NoKept DEF Bodies
<1>4. StepHere(Shadowing, RetType, bld, cur, ctl, scopes, I, O, Inner, Tail(ctl))
  BY <1>1, <1>3, ExprHere
<1>5. StepMakes(bld, bld, cur, O, O) /\ Told(Shadowing, RetType, bld, cur, scopes, I, O)
  BY NothingMade, TypedParts DEF Here
<1>6. Typed(Shadowing, RetType, bld, cur, Tail(ctl), scopes, I, O)
  BY <1>3, <1>4, <1>5, PopTyped
<1>7. Typed(Shadowing, RetType, bld', cur', ctl', scopes', I, O)
  BY <1>1, <1>6
<1>8. Len(work') \in {0} /\ mode' \notin {"reading", "value"}
  BY <1>1, <1>2
<1> QED
  BY <1>7, <1>8, Lands

\* The value of an expression is bound to the name its construct keeps.
LEMMA BindsValue ==
  ASSUME Inv, mode = "value", Valued, Inner.x \in Vars, NEW u, u \in {Write(bld, Inner.x, cur, ret)}
  PROVE  ValueBound(Shadowing, bld, cur, u, Inner.x, ret, ety)
<1>1. Quiet(bld, cur, ctl) /\ bld.term[cur].op = "none" /\ cur \in BlocksOf(bld) /\ Rest
  BY AtExpression
<1>2. ety \in Types \cup {NoType}
  BY <1>1, RestParts
<1>3. HasKind(Shadowing, bld, ret, Kind(Shadowing, ety))
  BY DEF Valued
<1>4. Core(bld, bld.sealed, {})
  BY <1>1 DEF Quiet
<1>5. Binds(bld, u, Inner.x, cur, ret)
  BY <1>1, <1>4, WriteBinds
<1> QED
  BY <1>1, <1>2, <1>3, <1>5 DEF ValueBound

LEMMA LetFits ==
  ASSUME Inv, shape' = shape, FitsNow, FinishLet
  PROVE  FitsNow'
<1> PICK I, O : Here(I, O) /\ Valued
  BY FitsHere
<1>1. /\ mode = "value" /\ Inner.k = "let" /\ mode' = "stmt" /\ ctl' = Tail(ctl)
      /\ bld' \in {Write(bld, Inner.x, cur, ret)} /\ work' = work /\ cur' = cur
  BY DEF FinishLet, AtValue, NextStatement
<1>2. Len(work) = 0 /\ Quiet(bld, cur, ctl) /\ Waiting(ctl, cur) /\ OnTop(ctl, Inner, Tail(ctl))
  BY <1>1, AtExpression
<1>3. Bodied(Tail(ctl)) /\ Inner.x \in Vars
  BY <1>1, <1>2, ConstructDone
<1>4. Kept(Inner) = 0
  BY <1>1, NoKept
<1>5. StepHere(Shadowing, RetType, bld, cur, ctl, scopes, I, O, Inner, Tail(ctl))
  BY <1>1, <1>4, ExprHere
<1>6. ValueBound(Shadowing, bld, cur, bld', Inner.x, ret, ety)
  BY <1>1, <1>3, BindsValue
<1>7. BoundIn(scopes, scopes', Inner.x, ety)
  BY DEF FinishLet, BoundIn
<1>8. \E O2 : Typed(Shadowing, RetType, bld', cur, Tail(ctl), scopes', I, O2)
  BY <1>1, <1>3, <1>5, <1>6, <1>7, LetTyped
<1> PICK O2 : Typed(Shadowing, RetType, bld', cur, Tail(ctl), scopes', I, O2)
  BY <1>8
<1>9. Typed(Shadowing, RetType, bld', cur', ctl', scopes', I, O2)
  BY <1>1
<1>10. Len(work') \in {0} /\ mode' \notin {"reading", "value"}
  BY <1>1, <1>2
<1> QED
  BY <1>9, <1>10, Lands

LEMMA AssignFits ==
  ASSUME Inv, shape' = shape, FitsNow, FinishAssign
  PROVE  FitsNow'
<1> PICK I, O : Here(I, O) /\ Valued
  BY FitsHere
<1>1. /\ mode = "value" /\ Inner.k = "assign" /\ mode' = "stmt" /\ ctl' = Tail(ctl)
      /\ bld' \in {Write(bld, Inner.x, cur, ret)} /\ work' = work /\ cur' = cur
      /\ scopes' = scopes /\ ScopeOf(Inner.x) # 0 /\ LookupVar(Inner.x) = ety
  BY DEF FinishAssign, AtValue, NextStatement
<1>2. /\ Len(work) = 0 /\ Quiet(bld, cur, ctl) /\ Waiting(ctl, cur) /\ OnTop(ctl, Inner, Tail(ctl))
      /\ Rest
  BY <1>1, AtExpression
<1>3. Inner.x \in Vars /\ ScopesOK(scopes)
  BY <1>1, <1>2, ConstructDone, RestParts
<1>4. Kept(Inner) = 0
  BY <1>1, NoKept
<1>5. StepHere(Shadowing, RetType, bld, cur, ctl, scopes, I, O, Inner, Tail(ctl))
  BY <1>1, <1>4, ExprHere
<1>6. ValueBound(Shadowing, bld, cur, bld', Inner.x, ret, ety)
  BY <1>1, <1>3, BindsValue
<1>7. PICK i : i \in {ScopeOf(Inner.x)}
  OBVIOUS
<1>8. i \in 1 .. Len(scopes) /\ scopes[i][Inner.x] = ety /\ ety # NoType
  BY <1>1, <1>3, <1>7, ScopeFound DEF LookupVar
<1>9. \E O2 : Typed(Shadowing, RetType, bld', cur, Tail(ctl), scopes, I, O2)
  BY <1>1, <1>5, <1>6, <1>8, AssignTyped
<1> PICK O2 : Typed(Shadowing, RetType, bld', cur, Tail(ctl), scopes, I, O2)
  BY <1>9
<1>10. Typed(Shadowing, RetType, bld', cur', ctl', scopes', I, O2)
  BY <1>1
<1>11. Len(work') \in {0} /\ mode' \notin {"reading", "value"}
  BY <1>1, <1>2
<1> QED
  BY <1>10, <1>11, Lands

LEMMA ReturnFitsThere ==
  ASSUME Inv, shape' = shape, FitsNow, FinishReturn
  PROVE  FitsNow'
<1> PICK I, O : Here(I, O) /\ Valued
  BY FitsHere
<1> PICK u, t : u \in {Terminate(bld, cur, Return(ret))} /\ t \in {Return(ret)}
  OBVIOUS
<1>1. /\ mode = "value" /\ Inner.k = "return" /\ mode' = "stmt" /\ ctl' = Tail(ctl)
      /\ bld' = u /\ work' = work /\ cur' = cur /\ scopes' = scopes /\ ety = RetType
  BY DEF FinishReturn, AtValue, NextStatement
<1>2. /\ Len(work) = 0 /\ Quiet(bld, cur, ctl) /\ ret \in ValuesOf(bld)
      /\ bld.term[cur].op = "none" /\ cur \in BlocksOf(bld)
  BY <1>1, AtExpression
<1>3. Kept(Inner) = 0
  BY <1>1, NoKept
<1>4. StepHere(Shadowing, RetType, bld, cur, ctl, scopes, I, O, Inner, Tail(ctl))
  BY <1>1, <1>3, ExprHere
<1>5. HasKind(Shadowing, bld, ret, Kind(Shadowing, RetType))
  BY <1>1 DEF Valued
<1>6. Core(bld, bld.sealed, {}) /\ cur \in {cur} /\ Len(bld.term) \in Nat /\ Len(bld.inst) \in Nat
  <2>1. Core(bld, bld.sealed, {})
    BY <1>2 DEF Quiet
  <2> QED
    BY <2>1, CoreLens
<1>7. Ends(bld, u, cur, t)
  BY <1>2, <1>6, ReturnStep
<1>8. t.op \in {"return"} /\ t.arg = ret /\ Successors(t) = {}
  <2>1. ret \in 1 .. Len(bld.inst)
    BY <1>2 DEF ValuesOf
  <2>2. Successors(Return(ret)) = {} /\ Return(ret).op = "return"
    BY <1>6, <2>1, ReturnOK
  <2>3. Return(ret).arg = ret
    BY DEF Return
  <2> QED
    BY <2>2, <2>3
<1>9. Typed(Shadowing, RetType, u, cur, Tail(ctl), scopes, I, O)
  <2>1. Inner.k \in {"return"}
    BY <1>1
  <2> QED
    BY <1>4, <1>5, <1>7, <1>8, <2>1, ReturnTyped
<1>10. Typed(Shadowing, RetType, bld', cur', ctl', scopes', I, O)
  BY <1>1, <1>9
<1>11. Len(work') \in {0} /\ mode' \notin {"reading", "value"}
  BY <1>1, <1>2
<1> QED
  BY <1>10, <1>11, Lands

-----------------------------------------------------------------------------
(* The conditions of if and while, and the ends of bodies.                 *)

LEMMA BodyFits ==
  ASSUME Inv, FitsNow, BodyEntered, NEW u, NEW t, NEW e, NEW o2, OpensTwo(u, t, e, o2),
         ety = "bool"
  PROVE  FitsNow'
<1> PICK I, O : Here(I, O) /\ Valued
  BY FitsHere
<1>1. /\ mode = "value" /\ mode' = "stmt" /\ work' = work /\ shape' = shape
      /\ bld' = u /\ cur' = t /\ ctl' = <<o2>> \o Tail(ctl) /\ PushScope
  BY DEF BodyEntered, OpensTwo
<1>2. /\ Len(work) = 0 /\ OnTop(ctl, Inner, Tail(ctl)) /\ bld.term[cur].op = "none"
  BY <1>1, AtExpression
<1>3. TwoWay(bld, cur, ret, u, t, e) /\ BodyOpened(Inner, cur, e, o2)
  BY DEF OpensTwo
<1>4. Kept(Inner) = 0
  <2>1. Inner.k \in {"if", "while"}
    BY <1>3, BodyKeeps
  <2> QED
    BY <2>1, NoKept
<1>5. StepHere(Shadowing, RetType, bld, cur, ctl, scopes, I, O, Inner, Tail(ctl))
  BY <1>1, <1>4, ExprHere
<1>6. HasKind(Shadowing, bld, ret, Kind(Shadowing, "bool"))
  BY <1>1 DEF Valued
<1>7. OnTop(<<o2>> \o Tail(ctl), o2, Tail(ctl))
  <2>1. IsRow(Tail(ctl))
    BY <1>2 DEF OnTop
  <2> QED
    BY <2>1, Front
<1>8. Pushed(scopes, scopes')
  BY <1>1 DEF PushScope, Pushed
<1>9. \E I2, O2 : Typed(Shadowing, RetType, u, t, <<o2>> \o Tail(ctl), scopes', I2, O2)
  BY <1>2, <1>3, <1>5, <1>6, <1>7, <1>8, BodyTyped
<1> PICK I2, O2 : Typed(Shadowing, RetType, u, t, <<o2>> \o Tail(ctl), scopes', I2, O2)
  BY <1>9
<1>10. Typed(Shadowing, RetType, bld', cur', ctl', scopes', I2, O2)
  BY <1>1
<1>11. Len(work') \in {0} /\ mode' \notin {"reading", "value"}
  BY <1>1, <1>2
<1> QED
  BY <1>1, <1>10, <1>11, Lands

LEMMA ThenFits ==
  ASSUME Inv, shape' = shape, FitsNow, IfCondition
  PROVE  FitsNow'
<1> PICK t : t \in {Len(bld.term) + 1}
  OBVIOUS
<1> PICK e : e \in {Len(bld.term) + 2}
  OBVIOUS
<1> PICK o2 : o2 \in {Open("then", "", e, 0, NoValue)}
  OBVIOUS
<1>1. OpensTwo(bld', t, e, o2)
  BY DEF IfCondition, AtValue, LastBlock, OpensTwo, TwoWay, BodyOpened
<1>2. BodyEntered /\ ety = "bool"
  BY DEF IfCondition, AtValue, BodyEntered
<1> QED
  BY <1>1, <1>2, BodyFits

LEMMA LoopBodyFits ==
  ASSUME Inv, shape' = shape, FitsNow, WhileCondition
  PROVE  FitsNow'
<1> PICK t : t \in {Len(bld.term) + 1}
  OBVIOUS
<1> PICK e : e \in {Len(bld.term) + 2}
  OBVIOUS
<1> PICK o2 : o2 \in {Open("loop", "", cur, e, NoValue)}
  OBVIOUS
<1>1. OpensTwo(bld', t, e, o2)
  BY LoopOpens
<1>2. BodyEntered /\ ety = "bool"
  BY DEF WhileCondition, AtValue, BodyEntered
<1> QED
  BY <1>1, <1>2, BodyFits

LEMMA ArmsFit ==
  ASSUME Inv, FitsNow, NEW a, NEW b, ArmsClosed(a, b), ScopesAfter(Inner, scopes, scopes')
  PROVE  FitsNow'
<1> PICK I, O : Here(I, O) /\ Valued
  BY FitsHere
<1>1. /\ mode = "stmt" /\ Idle /\ Arms(Inner, cur, a, b) /\ CloseIf(a, b)
      /\ mode' = "stmt" /\ ctl' = Tail(ctl) /\ work' = work /\ shape' = shape
  BY DEF ArmsClosed
<1>2. Len(work) = 0
  BY <1>1, AtRest
<1>3. IfClosed(bld, a, b, bld', cur')
  BY <1>1 DEF CloseIf, IfClosed, IsTerminated, LastBlock
<1>4. StepOn(Shadowing, RetType, bld, cur, ctl, scopes, I, O, Inner, Tail(ctl))
  BY <1>1, RestOn
<1>5. \E I2, O2 : Typed(Shadowing, RetType, bld', cur', Tail(ctl), scopes', I2, O2)
  BY <1>1, <1>3, <1>4, IfTyped
<1> PICK I2, O2 : Typed(Shadowing, RetType, bld', cur', Tail(ctl), scopes', I2, O2)
  BY <1>5
<1>6. Typed(Shadowing, RetType, bld', cur', ctl', scopes', I2, O2)
  BY <1>1
<1>7. Len(work') \in {0} /\ mode' \notin {"reading", "value"}
  BY <1>1, <1>2
<1> QED
  BY <1>1, <1>6, <1>7, Lands

LEMMA IfsFit ==
  ASSUME Inv, shape' = shape, FitsNow, EndThenNoElse \/ EndElse \/ EndElseIf
  PROVE  FitsNow'
<1>1. CASE EndThenNoElse
  <2>1. ArmsClosed(cur, Inner.b)
    BY <1>1 DEF EndThenNoElse, AtBodyEnd, NextStatement, ArmsClosed, Arms
  <2>2. ScopesAfter(Inner, scopes, scopes')
    BY <1>1 DEF EndThenNoElse, AtBodyEnd, ScopesAfter, PopScope, Popped, Bodies
  <2> QED
    BY <2>1, <2>2, ArmsFit
<1>2. CASE EndElse
  <2>1. ArmsClosed(Inner.b, cur)
    BY <1>2 DEF EndElse, AtBodyEnd, NextStatement, ArmsClosed, Arms
  <2>2. ScopesAfter(Inner, scopes, scopes')
    BY <1>2 DEF EndElse, AtBodyEnd, ScopesAfter, PopScope, Popped, Bodies
  <2> QED
    BY <2>1, <2>2, ArmsFit
<1>3. CASE EndElseIf
  <2>1. ArmsClosed(Inner.b, cur)
    BY <1>3 DEF EndElseIf, AtBodyEnd, NextStatement, ArmsClosed, Arms
  <2>2. ScopesAfter(Inner, scopes, scopes')
    BY <1>3 DEF EndElseIf, AtBodyEnd, ScopesAfter, Bodies
  <2> QED
    BY <2>1, <2>2, ArmsFit
<1> QED
  BY <1>1, <1>2, <1>3

LEMMA TurnedKind ==
  ASSUME NEW k, NEW c, NEW o2, ArmTurned(k, c, o2)
  PROVE  o2.k \in {k}
<1>1. Open(k, "", c, 0, NoValue).k = k
  BY DEF Open
<1> QED
  BY <1>1 DEF ArmTurned

\* A body that is about to be left.
LEMMA ElseFits ==
  ASSUME Inv, shape' = shape, FitsNow, EndThenElse
  PROVE  FitsNow'
<1> PICK I, O : Here(I, O) /\ Valued
  BY FitsHere
<1> PICK o2 : o2 \in {Open("else", "", cur, 0, NoValue)}
  OBVIOUS
<1>0. ArmTurned("else", cur, o2)
  BY DEF ArmTurned
<1>1. /\ mode = "stmt" /\ Idle /\ Inner.k = "then" /\ cur' = Inner.b
      /\ ctl' = <<o2>> \o Tail(ctl) /\ bld' = bld /\ work' = work /\ mode' = "stmt"
      /\ Cleared(scopes, scopes')
  BY DEF EndThenElse, AtBodyEnd, ArmTurned, builderVars, Cleared
<1>2. Len(work) = 0 /\ OnTop(ctl, Inner, Tail(ctl))
  BY <1>1, AtRest
<1>3. StepOn(Shadowing, RetType, bld, cur, ctl, scopes, I, O, Inner, Tail(ctl))
  BY <1>1, RestOn
<1>4. ArmScopes(o2, scopes, scopes')
  <2>1. o2.k \in {"else"}
    BY <1>0, TurnedKind
  <2> QED
    BY <1>1, <2>1 DEF ArmScopes
<1>5. OnTop(<<o2>> \o Tail(ctl), o2, Tail(ctl))
  <2>1. IsRow(Tail(ctl))
    BY <1>2 DEF OnTop
  <2> QED
    BY <2>1, Front
<1>6. \E I2, O2 : Typed(Shadowing, RetType, bld, Inner.b, <<o2>> \o Tail(ctl), scopes', I2, O2)
  <2>1. Inner.k \in {"then"}
    BY <1>1
  <2> QED
    BY <1>0, <1>3, <1>4, <1>5, <2>1, ElseTyped
<1> PICK I2, O2 : Typed(Shadowing, RetType, bld, Inner.b, <<o2>> \o Tail(ctl), scopes', I2, O2)
  BY <1>6
<1>7. Typed(Shadowing, RetType, bld', cur', ctl', scopes', I2, O2)
  BY <1>1
<1>8. Len(work') \in {0} /\ mode' \notin {"reading", "value"}
  BY <1>1, <1>2
<1> QED
  BY <1>7, <1>8, Lands

LEMMA ElseIfFits ==
  ASSUME Inv, shape' = shape, FitsNow, EndThenElseIf
  PROVE  FitsNow'
<1> PICK I, O : Here(I, O) /\ Valued
  BY FitsHere
<1> PICK o2 : o2 \in {Open("elseif", "", cur, 0, NoValue)}
  OBVIOUS
<1> PICK o3 : Plainly(o3, "if", "", 0)
  BY OpenPlain
<1>0. ArmTurned("elseif", cur, o2)
  BY DEF ArmTurned
<1>1. /\ mode = "stmt" /\ Idle /\ Inner.k = "then" /\ cur' = Inner.b
      /\ ctl' = <<o3, o2>> \o Tail(ctl) /\ Popped(scopes, scopes')
      /\ bld' = bld /\ work' = work /\ mode' = "operand"
  BY DEF EndThenElseIf, AtBodyEnd, builderVars, NoValue, Plainly, PopScope, Popped
<1>2. Len(work) = 0 /\ OnTop(ctl, Inner, Tail(ctl)) /\ Rest
  BY <1>1, AtRest
<1>3. StepOn(Shadowing, RetType, bld, cur, ctl, scopes, I, O, Inner, Tail(ctl))
  BY <1>1, RestOn
<1>4. ArmScopes(o2, scopes, scopes')
  <2>1. o2.k \in {"elseif"}
    BY <1>0, TurnedKind
  <2> QED
    BY <1>1, <2>1 DEF ArmScopes
<1>5. IsRow(Tail(ctl))
  BY <1>2 DEF OnTop
<1>6. PICK mid : OnTop(mid, o2, Tail(ctl)) /\ OnTop(<<o3, o2>> \o Tail(ctl), o3, mid)
  BY <1>5, TwoCalls
<1>7. \E I2, O2 : Typed(Shadowing, RetType, bld, Inner.b, mid, scopes', I2, O2)
  <2>1. Inner.k \in {"then"}
    BY <1>1
  <2> QED
    BY <1>0, <1>3, <1>4, <1>6, <2>1, ElseTyped
<1> PICK I2, O2 : Typed(Shadowing, RetType, bld, Inner.b, mid, scopes', I2, O2)
  BY <1>7
<1>8. OnTop(ctl', o3, mid) /\ o3.k \in {"if"}
  BY <1>1, <1>6 DEF Plainly
<1>9. ScopesOK(scopes')
  BY <1>1, <1>2, RestParts, ScopePopped DEF PopScope, Popped
<1>10. Typed(Shadowing, RetType, bld, Inner.b, ctl', scopes', I2, O2)
  <2>1. Len(scopes') \in Nat
    BY <1>9, ScopeCount
  <2>2. o3.k \in PlainKinds /\ o3.k \notin {"let", "bin"}
    BY <1>8 DEF PlainKinds
  <2> QED
    BY <1>8, <2>1, <2>2, PushTyped
<1>11. Typed(Shadowing, RetType, bld', cur', ctl', scopes', I2, O2)
  BY <1>1, <1>10
<1>12. Len(work') \in {0} /\ mode' \notin {"reading", "value"}
  BY <1>1, <1>2
<1> QED
  BY <1>11, <1>12, Lands

LEMMA LoopEndFits ==
  ASSUME Inv, shape' = shape, FitsNow, EndLoop
  PROVE  FitsNow'
<1> PICK I, O : Here(I, O) /\ Valued
  BY FitsHere
<1>1. /\ mode = "stmt" /\ Idle /\ Inner.k \in {"loop"} /\ cur' = Inner.c /\ ctl' = Tail(ctl)
      /\ PopScope /\ mode' = "stmt"
  BY DEF EndLoop, AtBodyEnd, NextStatement
<1>2. Quiet(bld, cur, ctl) /\ OnTop(ctl, Inner, Tail(ctl))
  BY <1>1, AtRest
<1>3. LoopClosed(bld, cur, Inner.b, bld', work')
  BY DEF EndLoop, CallSeal, LoopClosed, IsTerminated
<1>4. StepOn(Shadowing, RetType, bld, cur, ctl, scopes, I, O, Inner, Tail(ctl))
  BY <1>1, RestOn
<1>5. Popped(scopes, scopes')
  BY <1>1 DEF PopScope, Popped
<1>6. \E I2, O2 : LoopOver(Shadowing, RetType, bld', Inner.c, Tail(ctl), scopes', work', I2, O2)
  BY <1>1, <1>3, <1>4, <1>5, LoopTyped
<1> PICK I2, O2 : LoopOver(Shadowing, RetType, bld', Inner.c, Tail(ctl), scopes', work', I2, O2)
  BY <1>6
<1>7. LoopLeft(bld, bld', Inner.c, Tail(ctl), work')
  BY <1>1, <1>2, <1>3, LoopCloses
<1>8. work'[1].op \notin {"write", "take"}
  BY <1>7 DEF LoopLeft
<1> PICK t : t \in {NoType}
  OBVIOUS
<1>9. Typed(Shadowing, RetType, bld', cur', ctl', scopes', I2, O2)
  BY <1>1 DEF LoopOver
<1>10. FramesFit(Shadowing, bld', I2, O2, work', t)
  BY DEF LoopOver
<1>11. ReturnFits(Shadowing, bld', mode', work', ret', ety', t)
  BY <1>1, <1>8 DEF ReturnFits
<1>12. Shadowing' = Shadowing /\ RetType' = RetType
  BY DEF Shadowing, RetType
<1>13. Fits(I2, O2, t)'
  BY <1>9, <1>10, <1>11, <1>12 DEF Fits, Fit, Fitting
<1> QED
  BY <1>13 DEF FitsNow

LEMMA EndFits ==
  ASSUME Inv, shape' = shape, FitsNow, EndFunction
  PROVE  FitsNow'
<1> PICK I, O : Here(I, O) /\ Valued
  BY FitsHere
<1>1. /\ mode = "stmt" /\ Idle /\ Inner.k = "fn" /\ mode' = "done" /\ ctl' = <<>> /\ PopScope
      /\ bld' = bld /\ work' = work /\ cur' = cur
  BY DEF EndFunction, AtBodyEnd, builderVars
<1>2. Len(work) = 0 /\ OnTop(ctl, Inner, Tail(ctl)) /\ Bodied(ctl)
  BY <1>1, AtRest
<1>3. Len(Tail(ctl)) = 0 /\ IsRow(Tail(ctl))
  BY <1>1, <1>2, BodiedPop DEF OnTop
<1>4. ctl' = Tail(ctl)
  <2>1. IsRow(<<>>) /\ Len(<<>>) = 0
    BY EmptyRow
  <2>2. \A k \in 1 .. 0 : FALSE
    OBVIOUS
  <2>3. Tail(ctl) = <<>>
    BY <1>3, <2>1, <2>2, RowsEqual
  <2> QED
    BY <1>1, <2>3
<1>5. StepOn(Shadowing, RetType, bld, cur, ctl, scopes, I, O, Inner, Tail(ctl))
  BY <1>1, RestOn
<1>6. Popped(scopes, scopes')
  BY <1>1 DEF PopScope, Popped
<1>7. Typed(Shadowing, RetType, bld, cur, Tail(ctl), scopes', I, O)
  <2>1. Inner.k \in {"fn"}
    BY <1>1
  <2> QED
    BY <1>3, <1>5, <1>6, <2>1, EndTyped
<1>8. Typed(Shadowing, RetType, bld', cur', ctl', scopes', I, O)
  BY <1>1, <1>4, <1>7
<1>9. Len(work') \in {0} /\ mode' \notin {"reading", "value"}
  BY <1>1, <1>2
<1> QED
  BY <1>8, <1>9, Lands

-----------------------------------------------------------------------------
(* The expressions.                                                        *)

LEMMA EvalFits ==
  ASSUME Inv, NEW q, NEW ty, Evaluated(q, ty), NEW I, NEW O,
         Typed(Shadowing, RetType, bld', cur, q, scopes, I, O),
         HasKind(Shadowing, bld', Len(bld.inst) + 1, Kind(Shadowing, ty))
  PROVE  FitsNow'
<1>1. /\ mode \in {"operand", "value"} /\ mode' = "value" /\ ret' = Len(bld.inst) + 1 /\ ety' = ty
      /\ work' = work /\ cur' = cur /\ scopes' = scopes /\ ctl' = q /\ shape' = shape
  BY DEF Evaluated
<1>2. Len(work) = 0
  BY <1>1, AtExpression
<1>3. Typed(Shadowing, RetType, bld', cur', ctl', scopes', I, O)
  BY <1>1
<1>4. HasKind(Shadowing, bld', ret', Kind(Shadowing, ety'))
  BY <1>1
<1>5. Len(work') \in {0} /\ mode' \notin {"reading"}
  BY <1>1, <1>2
<1> QED
  BY <1>1, <1>3, <1>4, <1>5, Lands

LEMMA InstFields ==
  ASSUME NEW b, NEW kind, NEW ty, NEW args, NEW from, NEW i, i \in {Instruction(b, kind, ty, args, from)}
  PROVE  i.kind \in {kind} /\ i.ty \in {ty} /\ i.args \in {args}
BY DEF Instruction

\* The instruction an expression makes.
LEMMA EmitsInst ==
  ASSUME NEW s, NEW c, NEW q, Quiet(s, c, q), s.term[c].op = "none",
         NEW kind \in InstKinds \ {"phi"}, NEW ty \in Types, NEW args, RowOf(args, ValuesOf(s)),
         NEW u, u \in {Emit(s, c, kind, ty, args, <<>>)}, NEW i,
         i \in {Instruction(c, kind, ty, args, <<>>)}
  PROVE  AddsInst(s, u, i)
<1>1. Core(s, s.sealed, {}) /\ c \in BlocksOf(s)
  BY DEF Quiet
<1>2. AddsInst(s, u, Instruction(c, kind, ty, args, <<>>))
  BY <1>1, EmitStep
<1> QED
  BY <1>2

LEMMA LiteralFits ==
  ASSUME Inv, shape' = shape, FitsNow, NEW ty \in Types, Literal(ty)
  PROVE  FitsNow'
<1> PICK I, O : Here(I, O) /\ Valued
  BY FitsHere
<1> PICK i : i \in {Instruction(cur, "constant", ty, <<>>, <<>>)}
  OBVIOUS
<1>1. /\ mode = "operand" /\ Evaluated(ctl, ty)
      /\ bld' \in {Emit(bld, cur, "constant", ty, <<>>, <<>>)}
  BY DEF Literal, HaveValue, Evaluated
<1>2. Quiet(bld, cur, ctl) /\ Waiting(ctl, cur) /\ bld.term[cur].op = "none"
  BY <1>1, AtExpression
<1>3. AddsInst(bld, bld', i)
  <2>1. "constant" \in InstKinds \ {"phi"}
    BY DEF InstKinds, Computed
  <2>2. RowOf(<<>>, ValuesOf(bld))
    BY EmptyRow
  <2> QED
    BY <1>1, <1>2, <2>1, <2>2, EmitsInst
<1>4. i.kind \in {"constant"} /\ i.ty \in {ty}
  BY InstFields
<1>5. InstSound(Shadowing, bld, i)
  BY <1>4 DEF InstSound
<1>6. /\ Typed(Shadowing, RetType, bld', cur, ctl, scopes, I, O)
      /\ HasKind(Shadowing, bld', Len(bld.inst) + 1, Kind(Shadowing, i.ty))
  BY <1>2, <1>3, <1>5, ValueTyped DEF Here, ValueAdded
<1>7. HasKind(Shadowing, bld', Len(bld.inst) + 1, Kind(Shadowing, ty))
  BY <1>4, <1>6
<1> QED
  BY <1>1, <1>6, <1>7, EvalFits

LEMMA UnaryFits ==
  ASSUME Inv, shape' = shape, FitsNow, NEW ty \in Types, Unary(ty)
  PROVE  FitsNow'
<1> PICK I, O : Here(I, O) /\ Valued
  BY FitsHere
<1> PICK i : i \in {Instruction(cur, "unary", ty, <<ret>>, <<>>)}
  OBVIOUS
<1>1. /\ mode = "value" /\ Evaluated(ctl, ty) /\ ety = ty
      /\ bld' \in {Emit(bld, cur, "unary", ty, <<ret>>, <<>>)}
  BY DEF Unary, HaveValue, Evaluated
<1>2. /\ Quiet(bld, cur, ctl) /\ Waiting(ctl, cur) /\ bld.term[cur].op = "none"
      /\ ret \in ValuesOf(bld)
  BY <1>1, AtExpression
<1>3. AddsInst(bld, bld', i)
  <2>1. "unary" \in InstKinds \ {"phi"}
    BY DEF InstKinds, Computed
  <2>2. RowOf(<<ret>>, ValuesOf(bld))
    BY <1>2, OneValue
  <2> QED
    BY <1>1, <1>2, <2>1, <2>2, EmitsInst
<1>4. i.kind \in {"unary"} /\ i.ty \in {ty} /\ i.args \in {<<ret>>}
  BY InstFields
<1>5. ArgsAre(Shadowing, bld, i, Kind(Shadowing, ty))
  <2>1. HasKind(Shadowing, bld, ret, Kind(Shadowing, ty))
    BY <1>1 DEF Valued
  <2>2. RowOf(i.args, {ret})
    BY <1>4, OneValue
  <2>3. \A k \in 1 .. Len(i.args) : i.args[k] = ret
    BY <2>2 DEF RowOf
  <2> QED
    BY <2>1, <2>3 DEF ArgsAre
<1>6. InstSound(Shadowing, bld, i)
  BY <1>4, <1>5 DEF InstSound
<1>7. /\ Typed(Shadowing, RetType, bld', cur, ctl, scopes, I, O)
      /\ HasKind(Shadowing, bld', Len(bld.inst) + 1, Kind(Shadowing, i.ty))
  BY <1>2, <1>3, <1>6, ValueTyped DEF Here, ValueAdded
<1>8. HasKind(Shadowing, bld', Len(bld.inst) + 1, Kind(Shadowing, ty))
  BY <1>4, <1>7
<1> QED
  BY <1>1, <1>7, <1>8, EvalFits

LEMMA BinaryFits ==
  ASSUME Inv, shape' = shape, FitsNow, NEW ty \in Types, BinaryRight(ty)
  PROVE  FitsNow'
<1> PICK I, O : Here(I, O) /\ Valued
  BY FitsHere
<1> PICK kind : kind \in {IF ty = "i64" THEN "arithmetic" ELSE "comparison"}
  OBVIOUS
<1> PICK i : i \in {Instruction(cur, kind, ty, <<Inner.v, ret>>, <<>>)}
  OBVIOUS
<1>1. /\ mode = "value" /\ Evaluated(Tail(ctl), ty) /\ Inner.k = "bin" /\ ety = "i64"
      /\ bld' \in {Emit(bld, cur, kind, ty, <<Inner.v, ret>>, <<>>)}
  BY DEF BinaryRight, AtValue, HaveValue, Evaluated
<1>2. /\ Quiet(bld, cur, ctl) /\ Waiting(ctl, cur) /\ bld.term[cur].op = "none"
      /\ ret \in ValuesOf(bld) /\ OnTop(ctl, Inner, Tail(ctl))
  BY <1>1, AtExpression
<1>3. HasKind(Shadowing, bld, Inner.v, Kind(Shadowing, "i64"))
  <2>1. Inner.k \in {"bin"}
    BY <1>1
  <2> QED
    BY <1>2, <2>1, LeftOperand DEF Here
<1>4. HasKind(Shadowing, bld, ret, Kind(Shadowing, "i64"))
  BY <1>1 DEF Valued
<1>5. Inner.v \in ValuesOf(bld)
  BY <1>3 DEF HasKind
<1>6. AddsInst(bld, bld', i)
  <2>1. kind \in InstKinds \ {"phi"}
    BY DEF InstKinds, Computed
  <2>2. RowOf(<<Inner.v, ret>>, ValuesOf(bld))
    BY <1>2, <1>5, PairIs
  <2> QED
    BY <1>1, <1>2, <2>1, <2>2, EmitsInst
<1>7. i.kind \in {kind} /\ i.ty \in {ty} /\ i.args \in {<<Inner.v, ret>>}
  BY InstFields
<1>8. ArgsAre(Shadowing, bld, i, Kind(Shadowing, "i64"))
  <2>1. RowOf(i.args, {Inner.v, ret})
    BY <1>7, PairIs
  <2>2. \A k \in 1 .. Len(i.args) : i.args[k] = Inner.v \/ i.args[k] = ret
    BY <2>1 DEF RowOf
  <2> QED
    BY <1>3, <1>4, <2>2 DEF ArgsAre
<1>9. InstSound(Shadowing, bld, i)
  <2>1. (kind = "arithmetic" /\ ty = "i64") \/ (kind = "comparison" /\ ty = "bool")
    BY ParserAssumption
  <2> QED
    BY <1>7, <1>8, <2>1 DEF InstSound
<1>10. /\ Typed(Shadowing, RetType, bld', cur, Tail(ctl), scopes, I, O)
       /\ HasKind(Shadowing, bld', Len(bld.inst) + 1, Kind(Shadowing, i.ty))
  <2>1. Kept(Inner) = 0 /\ Inner.k \in {"bin"}
    BY <1>1, NoKept
  <2>2. StepHere(Shadowing, RetType, bld, cur, ctl, scopes, I, O, Inner, Tail(ctl))
    BY <1>1, <2>1, ExprHere
  <2>3. ValueAdded(Shadowing, bld, bld', i)
    BY <1>6, <1>9 DEF ValueAdded
  <2> QED
    BY <2>1, <2>2, <2>3, BinaryTyped
<1>11. HasKind(Shadowing, bld', Len(bld.inst) + 1, Kind(Shadowing, ty))
  BY <1>7, <1>10
<1> QED
  BY <1>1, <1>10, <1>11, EvalFits

-----------------------------------------------------------------------------
(* Names, and the operators of two operands.                               *)

LEMMA HoldsLeftFits ==
  ASSUME Inv, shape' = shape, FitsNow, BinaryLeft
  PROVE  FitsNow'
<1> PICK I, O : Here(I, O) /\ Valued
  BY FitsHere
<1> PICK o : Plainly(o, "bin", "", ret)
  BY OpenPlain
<1>1. /\ mode = "value" /\ ety = "i64" /\ mode' = "operand" /\ ctl' = <<o>> \o ctl
      /\ bld' = bld /\ work' = work /\ cur' = cur /\ scopes' = scopes
  BY DEF BinaryLeft, builderVars, Plainly
<1>2. Len(work) = 0 /\ IsRow(ctl) /\ Rest
  BY <1>1, AtExpression
<1>3. ScopesOK(scopes) /\ Len(scopes) \in Nat
  BY <1>2, RestParts, ScopeCount
<1>4. OnTop(<<o>> \o ctl, o, ctl)
  BY <1>2, Front
<1>5. o.k \in {"bin"} /\ o.v \in {ret}
  BY DEF Plainly
<1>6. o.k \in PlainKinds /\ o.k \notin {"let"}
  BY <1>5 DEF PlainKinds
<1>7. HasKind(Shadowing, bld, o.v, Kind(Shadowing, "i64"))
  BY <1>1, <1>5 DEF Valued
<1>8. Typed(Shadowing, RetType, bld, cur, <<o>> \o ctl, scopes, I, O)
  <2>1. Typed(Shadowing, RetType, bld, cur, ctl, scopes, I, O)
    BY DEF Here
  <2> QED
    BY <1>3, <1>4, <1>6, <1>7, <2>1, PushTyped
<1>9. Typed(Shadowing, RetType, bld', cur', ctl', scopes', I, O)
  BY <1>1, <1>8
<1>10. Len(work') \in {0} /\ mode' \notin {"reading", "value"}
  BY <1>1, <1>2
<1> QED
  BY <1>9, <1>10, Lands

\* A call of read_variable has the type its name is declared with.
LEMMA ReadFits ==
  ASSUME NEW x, NEW c, NEW ty, NEW f, NEW s, NEW I, NEW O, NEW t, Kind(f, ty) = t, <<x, t>> \in O[c],
         NEW wk, wk \in {<<ReadFrame(x, c, ty)>>}
  PROVE  FramesFit(f, s, I, O, wk, t) /\ Len(wk) \in {1} /\ wk[1].op \in {"read"}
<1> PICK fr : fr \in {ReadFrame(x, c, ty)}
  OBVIOUS
<1>1. fr.op \in {"read"} /\ fr.ty = ty /\ fr.x = x /\ fr.b = c
  BY DEF ReadFrame, Frame
<1>2. FrameFits(f, s, I, O, fr, t)
  BY <1>1 DEF FrameFits
<1>3. wk \in {<<fr>>}
  OBVIOUS
<1>4. RowOf(wk, {fr}) /\ Len(wk) \in {1}
  <2>1. RowOf(<<fr>>, {fr})
    BY OneValue
  <2>2. Len(<<fr>>) \in {1}
    OBVIOUS
  <2> QED
    BY <1>3, <2>1, <2>2
<1>5. \A i \in 1 .. Len(wk) : wk[i] = fr
  BY <1>4 DEF RowOf
<1>6. 1 \in 1 .. Len(wk)
  BY <1>4
<1> QED
  BY <1>1, <1>2, <1>4, <1>5, <1>6 DEF FramesFit

\* A name that is looked up is known in the current block.
LEMMA NameKnown ==
  ASSUME Inv, mode = "operand", NEW I, NEW O, Here(I, O), NEW x \in Vars, ScopeOf(x) # 0
  PROVE  <<x, Kind(Shadowing, LookupVar(x))>> \in O[cur]
<1>1. bld.term[cur].op = "none" /\ Rest
  BY AtExpression
<1>2. ScopesOK(scopes)
  BY <1>1, RestParts
<1> PICK i : i \in {ScopeOf(x)}
  OBVIOUS
<1>3. i \in 1 .. Len(scopes) /\ scopes[i][x] # NoType /\ scopes[i][x] = LookupVar(x)
  BY <1>2, ScopeFound DEF LookupVar
<1>4. Shadowing \in BOOLEAN /\ NamesIn(Shadowing, scopes, Len(scopes)) \subseteq O[cur]
  BY <1>1 DEF Here, Typed
<1>5. <<x, Kind(Shadowing, scopes[i][x])>> \in NamesIn(Shadowing, scopes, Len(scopes))
  BY <1>2, <1>3, <1>4, NamesLookup
<1> QED
  BY <1>3, <1>4, <1>5

LEMMA NameFits ==
  ASSUME Inv, shape' = shape, FitsNow, NEW x \in Vars, VarRef(x)
  PROVE  FitsNow'
<1> PICK I, O : Here(I, O) /\ Valued
  BY FitsHere
<1> PICK o : Plainly(o, "name", x, 0)
  BY OpenPlain
<1> PICK t : t \in {Kind(Shadowing, LookupVar(x))}
  OBVIOUS
<1>1. /\ mode = "operand" /\ ScopeOf(x) # 0 /\ work' \in {<<ReadFrame(x, cur, LookupVar(x))>>}
      /\ ety' = LookupVar(x) /\ mode' = "reading" /\ ctl' = <<o>> \o ctl
      /\ bld' = bld /\ cur' = cur /\ scopes' = scopes
  BY DEF VarRef, NoValue, Plainly
<1>2. IsRow(ctl) /\ Rest
  BY <1>1, AtExpression
<1>3. ScopesOK(scopes) /\ Len(scopes) \in Nat
  BY <1>2, RestParts, ScopeCount
<1>4. OnTop(<<o>> \o ctl, o, ctl)
  BY <1>2, Front
<1>5. o.k \in PlainKinds /\ o.k \notin {"let", "bin"}
  BY DEF Plainly, PlainKinds
<1>6. Typed(Shadowing, RetType, bld, cur, <<o>> \o ctl, scopes, I, O)
  <2>1. Typed(Shadowing, RetType, bld, cur, ctl, scopes, I, O)
    BY DEF Here
  <2> QED
    BY <1>3, <1>4, <1>5, <2>1, PushTyped
<1>7. <<x, t>> \in O[cur]
  BY <1>1, NameKnown
<1>8. FramesFit(Shadowing, bld, I, O, work', t) /\ Len(work') \in {1} /\ work'[1].op \in {"read"}
  BY <1>1, <1>7, ReadFits
<1>9. ReturnFits(Shadowing, bld', mode', work', ret', ety', t)
  <2>1. work'[1].op \notin {"write", "take"} /\ ~(Len(work') = 0)
    BY <1>8
  <2>2. t = Kind(Shadowing, ety')
    BY <1>1
  <2>3. mode' \notin {"value"}
    BY <1>1
  <2> QED
    BY <2>1, <2>2, <2>3 DEF ReturnFits
<1>10. Shadowing' = Shadowing /\ RetType' = RetType
  BY DEF Shadowing, RetType
<1>11. Fits(I, O, t)'
  <2>1. Typed(Shadowing, RetType, bld', cur', ctl', scopes', I, O)
    BY <1>1, <1>6
  <2>2. FramesFit(Shadowing, bld', I, O, work', t)
    BY <1>1, <1>8
  <2> QED
    BY <1>9, <1>10, <2>1, <2>2 DEF Fits, Fit, Fitting
<1> QED
  BY <1>11 DEF FitsNow

LEMMA NameReturnsFits ==
  ASSUME Inv, shape' = shape, FitsNow, VarRefReturns
  PROVE  FitsNow'
<1> PICK I, O, t : Fits(I, O, t)
  BY DEF FitsNow
<1>1. /\ mode = "reading" /\ Idle /\ mode' = "value" /\ ctl' = Tail(ctl)
      /\ bld' = bld /\ work' = work /\ ret' = ret /\ ety' = ety /\ cur' = cur
      /\ scopes' = scopes
  BY DEF VarRefReturns, builderVars
<1>2. /\ Quiet(bld, cur, ctl) /\ OnTop(ctl, Inner, Tail(ctl)) /\ Inner.k = "name"
      /\ Waiting(Tail(ctl), cur) /\ Rest /\ Len(work) = 0
  BY <1>1, AtReading
<1>3. /\ Typed(Shadowing, RetType, bld, cur, ctl, scopes, I, O)
      /\ ReturnFits(Shadowing, bld, mode, work, ret, ety, t)
  BY DEF Fits, Fit, Fitting
<1>4. HasKind(Shadowing, bld, ret, Kind(Shadowing, ety))
  <2>1. mode \in {"reading"}
    BY <1>1
  <2> QED
    BY <1>2, <1>3, <2>1 DEF ReturnFits
<1>5. Kept(Inner) = 0 /\ Inner.k \notin Bodies
  BY <1>2, NoKept DEF Bodies
<1>6. StepHere(Shadowing, RetType, bld, cur, ctl, scopes, I, O, Inner, Tail(ctl))
  <2>1. \A i \in 1 .. Len(Tail(ctl)) : AnchoredAt(Tail(ctl)[i], cur)
    BY <1>2, WaitingAnchored
  <2>2. ScopesOK(scopes) /\ IsRow(scopes)
    BY <1>2, RestParts DEF ScopesOK, RowOf
  <2> QED
    BY <1>2, <1>3, <1>5, <2>1, <2>2 DEF StepHere
<1>7. StepMakes(bld, bld, cur, O, O) /\ Told(Shadowing, RetType, bld, cur, scopes, I, O)
  BY <1>3, NothingMade, TypedParts
<1>8. Typed(Shadowing, RetType, bld, cur, Tail(ctl), scopes, I, O)
  BY <1>5, <1>6, <1>7, PopTyped
<1>9. Typed(Shadowing, RetType, bld', cur', ctl', scopes', I, O)
  BY <1>1, <1>8
<1>10. Len(work') \in {0} /\ mode' \notin {"reading"}
  BY <1>1, <1>2
<1>11. HasKind(Shadowing, bld', ret', Kind(Shadowing, ety'))
  BY <1>1, <1>4
<1> QED
  BY <1>9, <1>10, <1>11, Lands

LEMMA ShortFits ==
  ASSUME Inv, shape' = shape, FitsNow, NEW k \in {"and", "or"}, ShortCircuit(k)
  PROVE  FitsNow'
<1> PICK I, O : Here(I, O) /\ Valued
  BY FitsHere
<1> PICK h : h \in {Len(bld.term) + 1}
  OBVIOUS
<1> PICK r : r \in {Len(bld.term) + 2}
  OBVIOUS
<1> PICK j : j \in {Len(bld.term) + 3}
  OBVIOUS
<1>m. PICK l : ShortMade(bld, cur, ret, bld', k, h, r, j, l) /\ ctl' = <<Open(k, "", h, j, l)>> \o ctl
  BY DEF ShortCircuit, LastBlock, LastValue, ShortMade
<1> PICK o2 : o2 \in {Open(k, "", h, j, l)}
  OBVIOUS
<1>1. /\ mode = "value" /\ ety = "bool" /\ mode' = "operand" /\ cur' = r /\ ctl' = <<o2>> \o ctl
      /\ work' = work /\ scopes' = scopes
  BY <1>m DEF ShortCircuit, LastBlock
<1>2. /\ Quiet(bld, cur, ctl) /\ Waiting(ctl, cur) /\ Rest
      /\ bld.term[cur].op = "none" /\ IsRow(ctl) /\ Len(work) = 0
  BY <1>1, AtExpression
<1>3. "bool" \in Types /\ ScopesOK(scopes)
  BY <1>1, <1>2, BoolIsType, RestParts
<1>4. ShortOpened(k, h, j, l, o2)
  BY DEF ShortOpened
<1>5. OnTop(<<o2>> \o ctl, o2, ctl)
  BY <1>2, Front
<1>6. HasKind(Shadowing, bld, ret, Kind(Shadowing, "bool"))
  BY <1>1 DEF Valued
<1>7. \E I2, O2 : Typed(Shadowing, RetType, bld', r, <<o2>> \o ctl, scopes, I2, O2)
  <2>1. ShortMade(bld, cur, ret, bld', k, h, r, j, l)
    BY <1>m
  <2>2. Typed(Shadowing, RetType, bld, cur, ctl, scopes, I, O)
    BY DEF Here
  <2>3. Quiet(bld, cur, ctl) /\ Waiting(ctl, cur) /\ bld.term[cur].op = "none"
    BY <1>2
  <2> QED
    BY <1>3, <1>4, <1>5, <1>6, <2>1, <2>2, <2>3, ShortTyped
<1> PICK I2, O2 : Typed(Shadowing, RetType, bld', r, <<o2>> \o ctl, scopes, I2, O2)
  BY <1>7
<1>8. Typed(Shadowing, RetType, bld', cur', ctl', scopes', I2, O2)
  BY <1>1
<1>9. Len(work') \in {0} /\ mode' \notin {"reading", "value"}
  BY <1>1, <1>2
<1> QED
  BY <1>8, <1>9, Lands

LEMMA ShortEndFits ==
  ASSUME Inv, shape' = shape, FitsNow, ShortCircuitEnd
  PROVE  FitsNow'
<1> PICK I, O : Here(I, O) /\ Valued
  BY FitsHere
<1>1. /\ mode = "value" /\ Inner.k \in {"and", "or"} /\ ety = "bool" /\ mode' = "value"
      /\ ret' = Len(bld.inst) + 1 /\ ety' = "bool" /\ cur' = Inner.c /\ ctl' = Tail(ctl)
      /\ work' = work /\ scopes' = scopes
  BY DEF ShortCircuitEnd, HaveValue
<1>2. bld.term[cur].op = "none" /\ Len(work) = 0 /\ Rest
  BY <1>1, AtExpression
<1>3. "bool" \in Types
  BY <1>1, <1>2, BoolIsType
<1>4. ShortEnded(bld, cur, ret, Inner, bld')
  BY DEF ShortCircuitEnd, ShortEnded
<1>5. StepOn(Shadowing, RetType, bld, cur, ctl, scopes, I, O, Inner, Tail(ctl))
  BY <1>1, ExprOn
<1>6. HasKind(Shadowing, bld, ret, Kind(Shadowing, "bool"))
  BY <1>1 DEF Valued
<1>7. \E I2, O2 : ShortOver(Shadowing, RetType, bld, bld', Inner.c, Tail(ctl), scopes, I2, O2)
  <2>1. Inner.k \in {"and", "or"} /\ bld.term[cur].op = "none"
    BY <1>1, <1>2
  <2> QED
    BY <1>3, <1>4, <1>5, <1>6, <2>1, JoinTyped
<1> PICK I2, O2 : ShortOver(Shadowing, RetType, bld, bld', Inner.c, Tail(ctl), scopes, I2, O2)
  BY <1>7
<1>8. /\ Typed(Shadowing, RetType, bld', Inner.c, Tail(ctl), scopes, I2, O2)
      /\ HasKind(Shadowing, bld', Len(bld.inst) + 1, Kind(Shadowing, "bool"))
  BY DEF ShortOver
<1>9. Typed(Shadowing, RetType, bld', cur', ctl', scopes', I2, O2)
  BY <1>1, <1>8
<1>10. HasKind(Shadowing, bld', ret', Kind(Shadowing, ety'))
  BY <1>1, <1>8
<1>11. Len(work') \in {0} /\ mode' \notin {"reading"}
  BY <1>1, <1>2
<1> QED
  BY <1>9, <1>10, <1>11, Lands

-----------------------------------------------------------------------------
(* Every step of the parser.                                               *)

LEMMA ErrsFit ==
  ASSUME Inv, shape' = shape, FitsNow,
         \/ UnreachableCode \/ AssignUndefined \/ TypeMismatch
         \/ \E x \in LocalVars : VarRefUndefined(x)
  PROVE  FitsNow'
<1>1. CASE UnreachableCode
  <2>1. mode = "stmt" /\ Idle /\ Fail("UnreachableCode") /\ "UnreachableCode" \in Errors
    BY <1>1 DEF UnreachableCode, AtStatement, Errors
  <2> QED
    BY <2>1, FailFits
<1>2. CASE AssignUndefined
  <2>1. /\ mode \in {"operand", "value"} /\ Fail("UndefinedVariable")
        /\ "UndefinedVariable" \in Errors
    BY <1>2 DEF AssignUndefined, AtValue, Errors
  <2> QED
    BY <2>1, FailFits
<1>3. CASE TypeMismatch
  <2>1. mode \in {"operand", "value"} /\ Fail("TypeMismatch") /\ "TypeMismatch" \in Errors
    BY <1>3 DEF TypeMismatch, Errors
  <2> QED
    BY <2>1, FailFits
<1>4. CASE \E x \in LocalVars : VarRefUndefined(x)
  <2>1. /\ mode \in {"operand", "value"} /\ Fail("UndefinedVariable")
        /\ "UndefinedVariable" \in Errors
    BY <1>4 DEF VarRefUndefined, Errors
  <2> QED
    BY <2>1, FailFits
<1> QED
  BY <1>1, <1>2, <1>3, <1>4

LEMMA StatementsFit ==
  ASSUME Inv, shape' = shape, FitsNow, Statement
  PROVE  FitsNow'
<1>0. LocalVars \subseteq Vars
  BY ParserAssumption DEF Inv, LocalVars
<1>1. CASE \E k \in {"expr", "return", "if"} : BeginStatement(k, "")
  <2> PICK k \in {"expr", "return", "if"} : BeginStatement(k, "")
    BY <1>1
  <2>1. k \in WaitingKinds \ {"while"} /\ k \notin {"let", "assign"} /\ "" \in Vars \cup {""}
    BY DEF WaitingKinds
  <2> QED
    BY <2>1, BeginFits
<1>2. CASE \E k \in {"let", "assign"}, x \in LocalVars : BeginStatement(k, x)
  <2> PICK k \in {"let", "assign"}, x \in LocalVars : BeginStatement(k, x)
    BY <1>2
  <2>1. k \in WaitingKinds \ {"while"} /\ x \in Vars /\ x \in Vars \cup {""}
    BY <1>0 DEF WaitingKinds
  <2> QED
    BY <2>1, BeginFits
<1>3. CASE BeginWhile
  BY <1>3, WhileFits
<1>4. CASE UnreachableCode \/ AssignUndefined
  BY <1>4, ErrsFit
<1>5. CASE ExprStatement
  BY <1>5, ExprFits
<1>6. CASE FinishLet
  BY <1>6, LetFits
<1>7. CASE FinishAssign
  BY <1>7, AssignFits
<1>8. CASE FinishReturn
  BY <1>8, ReturnFitsThere
<1>9. CASE IfCondition
  BY <1>9, ThenFits
<1>10. CASE EndThenNoElse \/ EndElse \/ EndElseIf
  BY <1>10, IfsFit
<1>11. CASE EndThenElse
  BY <1>11, ElseFits
<1>12. CASE EndThenElseIf
  BY <1>12, ElseIfFits
<1>13. CASE WhileCondition
  BY <1>13, LoopBodyFits
<1>14. CASE EndLoop
  BY <1>14, LoopEndFits
<1>15. CASE EndFunction
  BY <1>15, EndFits
<1> QED
  BY <1>1, <1>2, <1>3, <1>4, <1>5, <1>6, <1>7, <1>8, <1>9, <1>10, <1>11, <1>12, <1>13, <1>14,
     <1>15 DEF Statement

LEMMA ExpressionsFit ==
  ASSUME Inv, shape' = shape, FitsNow, Expression
  PROVE  FitsNow'
<1>0. LocalVars \subseteq Vars /\ LiteralTypes \subseteq Types
  BY ParserAssumption DEF Inv, LocalVars, LiteralTypes
<1>1. CASE \E ty \in LiteralTypes : Literal(ty)
  BY <1>0, <1>1, LiteralFits
<1>2. CASE \E ty \in Types : Unary(ty) \/ BinaryRight(ty)
  BY <1>2, UnaryFits, BinaryFits
<1>3. CASE \E x \in LocalVars : VarRef(x)
  BY <1>0, <1>3, NameFits
<1>4. CASE TypeMismatch \/ \E x \in LocalVars : VarRefUndefined(x)
  BY <1>4, ErrsFit
<1>5. CASE VarRefReturns
  BY <1>5, NameReturnsFits
<1>6. CASE BinaryLeft
  BY <1>6, HoldsLeftFits
<1>7. CASE \E k \in {"and", "or"} : ShortCircuit(k)
  BY <1>7, ShortFits
<1>8. CASE ShortCircuitEnd
  BY <1>8, ShortEndFits
<1> QED
  BY <1>1, <1>2, <1>3, <1>4, <1>5, <1>6, <1>7, <1>8 DEF Expression

LEMMA FitsStep ==
  ASSUME Inv, FitsNow, [Next]_vars
  PROVE  FitsNow'
<1>1. CASE (Statement \/ Expression \/ RunBuilder) /\ UNCHANGED shape
  <2>1. CASE RunBuilder
    <3> PICK I, O, t : Fits(I, O, t)
      BY DEF FitsNow
    <3>1. \E T : Fits(I, O, T)'
      BY <2>1, BuilderFits DEF RunBuilder
    <3> QED
      BY <3>1 DEF FitsNow
  <2> QED
    BY <1>1, <2>1, StatementsFit, ExpressionsFit
<1>2. CASE UNCHANGED vars
  <2> PICK I, O, t : Fits(I, O, t)
    BY DEF FitsNow
  <2>1. /\ bld' = bld /\ work' = work /\ ret' = ret /\ mode' = mode /\ ety' = ety /\ cur' = cur
        /\ scopes' = scopes /\ ctl' = ctl /\ shape' = shape
    BY <1>2 DEF vars, builderVars, parserVars
  <2>2. Shadowing' = Shadowing /\ RetType' = RetType
    BY <2>1 DEF Shadowing, RetType
  <2>3. Fits(I, O, t)'
    BY <2>1, <2>2 DEF Fits
  <2> QED
    BY <2>3 DEF FitsNow
<1> QED
  BY <1>1, <1>2 DEF Next, ParseStep, Stop

\* A body that is done has ended, unless it may end without returning.
BodyEnded == Accepted => MissingReturn \/ bld.term[cur].op # "none"

\* Only the end of a body makes a parse done, and nothing follows it.
LEMMA DoneOnce ==
  ASSUME Inv, [Next]_vars, Accepted'
  PROVE  (EndFunction /\ shape' = shape) \/ UNCHANGED vars
<1>1. mode' = "done"
  BY DEF Accepted
<1>2. CASE Statement /\ shape' = shape
  <2>1. ASSUME \E k, x : BeginStatement(k, x) PROVE FALSE
    BY <1>1, <2>1 DEF BeginStatement
  <2>2. ASSUME BeginWhile \/ ExprStatement \/ FinishLet \/ FinishAssign \/ FinishReturn
        PROVE  FALSE
    BY <1>1, <2>2 DEF BeginWhile, ExprStatement, FinishLet, FinishAssign, FinishReturn,
                      NextStatement
  <2>3. ASSUME UnreachableCode \/ AssignUndefined PROVE FALSE
    BY <1>1, <2>3 DEF UnreachableCode, AssignUndefined, Fail
  <2>4. ASSUME \/ IfCondition \/ EndThenNoElse \/ EndElse \/ EndElseIf \/ WhileCondition
               \/ EndLoop \/ EndThenElseIf
        PROVE  FALSE
    BY <1>1, <2>4 DEF IfCondition, EndThenNoElse, EndElse, EndElseIf, WhileCondition, EndLoop,
                      EndThenElseIf, NextStatement
  <2>5. ASSUME EndThenElse PROVE FALSE
    BY <1>1, <2>5 DEF EndThenElse, AtBodyEnd
  <2> QED
    BY <1>2, <2>1, <2>2, <2>3, <2>4, <2>5 DEF Statement
<1>3. ASSUME Expression PROVE FALSE
  <2>1. ASSUME \/ \E ty \in Types : Unary(ty) \/ BinaryRight(ty)
               \/ \E ty \in LiteralTypes : Literal(ty)
               \/ \E x \in LocalVars : VarRef(x) \/ VarRefUndefined(x)
               \/ TypeMismatch \/ BinaryLeft \/ VarRefReturns
        PROVE  FALSE
    BY <1>1, <2>1 DEF Unary, BinaryRight, Literal, VarRef, VarRefUndefined, TypeMismatch,
                      BinaryLeft, VarRefReturns, HaveValue, Fail
  <2>2. ASSUME (\E k \in {"and", "or"} : ShortCircuit(k)) \/ ShortCircuitEnd PROVE FALSE
    BY <1>1, <2>2 DEF ShortCircuit, ShortCircuitEnd, HaveValue
  <2> QED
    BY <1>3, <2>1, <2>2 DEF Expression
<1>4. ASSUME RunBuilder PROVE FALSE
  <2>1. Ran /\ mode' = mode
    <3>1. mode' = mode /\ BuilderStep
      BY <1>4 DEF RunBuilder, parserVars
    <3>2. CASE ReadLocal
      BY <3>1, <3>2, LocalRan
    <3>3. CASE ReadEmptyPhi
      BY <3>1, <3>3, EmptyPhiRan
    <3>4. CASE ReadOnePredecessor
      BY <3>1, <3>4, PredecessorRan
    <3>5. CASE ReadMerge
      BY <3>1, <3>5, MergeRan
    <3>6. CASE WriteBack
      BY <3>1, <3>6, WriteRan
    <3>7. CASE AskOperand \/ TakeOperand
      BY <3>1, <3>7, AskRan, TakeRan
    <3>8. CASE FillPhi
      BY <3>1, <3>8, FillRan
    <3>9. CASE SealNext \/ SealDone
      BY <3>1, <3>9, SealNextRan, SealDoneRan
    <3> QED
      BY <3>1, <3>2, <3>3, <3>4, <3>5, <3>6, <3>7, <3>8, <3>9 DEF BuilderStep
  <2>2. Phase(mode, work, ret, bld, cur, ctl)
    BY DEF Inv
  <2>3. Len(work) = 0
    BY <1>1, <2>1, <2>2 DEF Phase
  <2>4. Len(work) > 0
    BY <2>1 DEF Ran
  <2> QED
    BY <2>3, <2>4
<1> QED
  BY <1>2, <1>3, <1>4 DEF Next, ParseStep, Stop

LEMMA EndedStep ==
  ASSUME Inv, BodyEnded, [Next]_vars
  PROVE  BodyEnded'
<1> SUFFICES ASSUME Accepted'
             PROVE  MissingReturn' \/ bld'.term[cur'].op # "none"
  BY DEF BodyEnded
<1>1. CASE EndFunction /\ shape' = shape
  <2>1. MissingReturn' = MissingReturn
    BY <1>1 DEF MissingReturn
  <2>2. bld' = bld /\ cur' = cur /\ (MissingReturn \/ bld.term[cur].op # "none")
    BY <1>1 DEF EndFunction, IsTerminated, builderVars
  <2> QED
    BY <2>1, <2>2
<1>2. CASE UNCHANGED vars
  <2>1. bld' = bld /\ cur' = cur /\ mode' = mode /\ shape' = shape
    BY <1>2 DEF vars, builderVars, parserVars
  <2>2. MissingReturn' = MissingReturn
    BY <2>1 DEF MissingReturn
  <2> QED
    BY <2>1, <2>2 DEF BodyEnded, Accepted
<1> QED
  BY <1>1, <1>2, DoneOnce

-----------------------------------------------------------------------------
(* The initial states.                                                     *)

\* The scopes a body starts in.
StartScopes(p, sc) ==
  /\ ScopesOK(sc) /\ Len(sc) \in {2} /\ sc[1] = ParamScope(p) /\ sc[2] = EmptyScope

LEMMA StartScoped ==
  ASSUME NEW p, ParamsOK(p), NEW sc, sc \in {<<ParamScope(p), EmptyScope>>}
  PROVE  StartScopes(p, sc)
<1> PICK a, b : a \in {ParamScope(p)} /\ b \in {EmptyScope}
  OBVIOUS
<1>1. Len(<<a, b>>) \in {2} /\ <<a, b>>[1] = a /\ <<a, b>>[2] = b
  OBVIOUS
<1>2. ScopesOK(sc)
  BY ScopesStart
<1>3. sc = <<a, b>>
  OBVIOUS
<1> QED
  BY <1>1, <1>2, <1>3 DEF StartScopes

LEMMA StartShadows ==
  ASSUME NEW f, NEW p, NEW sc, StartScopes(p, sc)
  PROVE  NoShadow(f, sc)
<1>n. PICK n : n \in {2} /\ n = Len(sc)
  BY DEF StartScopes
<1>1. \A i \in 1 .. Len(sc) : i = 1 \/ i = 2
  <2>1. \A i \in 1 .. 2 : i = 1 \/ i = 2
    OBVIOUS
  <2>2. \A i \in 1 .. n : i = 1 \/ i = 2
    BY <1>n, <2>1
  <2> QED
    BY <1>n, <2>2
<1>2. \A x \in Vars : sc[2][x] = NoType
  BY DEF StartScopes, EmptyScope
<1> QED
  BY <1>1, <1>2 DEF NoShadow

\* The parameters are bound in the entry block.
LEMMA ParamBound ==
  ASSUME NEW f, NEW p, ParamsOK(p), NEW sc, StartScopes(p, sc), NEW s, Starts(s, p),
         NEW a \in NamesIn(f, sc, 2)
  PROVE  s.defs[1][a[1]] # NoValue /\ HasKind(f, s, s.defs[1][a[1]], a[2])
<1> PICK x : x = a[1]
  OBVIOUS
<1>1. a \in Pairs /\ \E i \in 1 .. 2 : sc[i][x] # NoType /\ a[2] = Kind(f, sc[i][x])
  BY DEF NamesIn
<1>2. x \in Vars
  BY <1>1 DEF Pairs
<1>3. sc[2][x] = NoType
  BY <1>2 DEF StartScopes, EmptyScope
<1>4. sc[1][x] # NoType /\ a[2] = Kind(f, sc[1][x])
  <2>1. \A i \in 1 .. 2 : i = 1 \/ i = 2
    OBVIOUS
  <2> QED
    BY <1>1, <1>3, <2>1
<1> PICK v : v = CHOOSE i \in DOMAIN p : p[i].name = x
  OBVIOUS
<1>5. (\E i \in DOMAIN p : p[i].name = x) /\ sc[1][x] = p[v].ty
  BY <1>2, <1>4 DEF StartScopes, ParamScope
<1>6. v \in DOMAIN p
  BY <1>5
<1>7. s.defs[1][x] = v
  <2>1. s.defs[1] = ParamBinding(p)
    BY OneRow DEF Starts
  <2> QED
    BY <1>2, <1>5, <2>1 DEF ParamBinding
<1>8. Len(p) \in Nat /\ DOMAIN p = 1 .. Len(p) /\ Len(s.inst) = Len(p)
  BY ParamInsts DEF ParamsOK, IsRow
<1>9. v \in ValuesOf(s) /\ v # 0
  <2>1. v \in 1 .. Len(p) /\ v \in 1 .. Len(s.inst)
    BY <1>6, <1>8
  <2>2. \A n \in Nat : \A k \in 1 .. n : k # 0
    OBVIOUS
  <2> QED
    BY <1>8, <2>1, <2>2 DEF ValuesOf
<1>10. s.inst[v].ty = p[v].ty
  <2>1. s.inst[v] = Instruction(1, "param", p[v].ty, <<>>, <<>>)
    BY <1>6 DEF Starts
  <2> QED
    BY <2>1 DEF Instruction
<1> QED
  BY <1>4, <1>5, <1>7, <1>9, <1>10 DEF HasKind, NoValue

LEMMA EntryOnly ==
  ASSUME NEW p, ParamsOK(p), NEW s, Starts(s, p)
  PROVE  BlocksOf(s) \in {{1}}
<1>1. Len(s.term) = 1
  BY CoreStarts
<1> QED
  BY <1>1 DEF BlocksOf

\* In the entry block the parameters are known, and nothing elsewhere.
StartTables(f, sc, I, O) ==
  /\ I \in {[b \in Nat |-> {}]}
  /\ O \in {[b \in Nat |-> IF b = 1 THEN NamesIn(f, sc, 2) ELSE {}]}

LEMMA StartKnown ==
  ASSUME NEW f \in BOOLEAN, NEW p, ParamsOK(p), NEW sc, StartScopes(p, sc), NEW s, Starts(s, p),
         NEW I, NEW O, StartTables(f, sc, I, O)
  PROVE  Known(f, s, I, O) /\ O[1] = NamesIn(f, sc, 2)
<1>n. PICK N : N = NamesIn(f, sc, 2)
  OBVIOUS
<1>1. N \subseteq Pairs /\ OneEach(N)
  <2>1. NoShadow(f, sc)
    BY StartShadows
  <2>2. Len(sc) \in Nat /\ 2 \in 0 .. Len(sc)
    BY DEF StartScopes
  <2>3. OneEach(NamesIn(f, sc, 2))
    BY <2>1, <2>2, NamesOne
  <2>4. NamesIn(f, sc, 2) \subseteq Pairs
    BY DEF NamesIn
  <2> QED
    BY <1>n, <2>3, <2>4
<1>2. BlocksOf(s) = {1}
  BY EntryOnly
<1>3. /\ I = [b \in Nat |-> {}] /\ O = [b \in Nat |-> IF b = 1 THEN N ELSE {}]
  BY <1>n DEF StartTables
<1>4. O[1] = N /\ I[1] = {} /\ \A b \in Nat : I[b] = {} /\ (b # 1 => O[b] = {})
  BY <1>3
<1>5. I \in [Nat -> SUBSET Pairs] /\ O \in [Nat -> SUBSET Pairs]
  BY <1>1, <1>3
<1>6. Tables(s, I, O)
  BY <1>2, <1>4, <1>5 DEF Tables
<1>7. BoundAs(f, s, I, O, 1)
  <2>1. \A a \in N : s.defs[1][a[1]] # NoValue /\ HasKind(f, s, s.defs[1][a[1]], a[2])
    BY <1>n, ParamBound
  <2> QED
    BY <1>4, <2>1 DEF BoundAs
<1>8. Len(s.preds[1]) = 0 /\ Len(s.pending[1]) = 0
  <2>1. s.preds[1] = NoRow /\ s.pending[1] = NoRow
    BY OneRow DEF Starts
  <2>2. Len(NoRow) = 0
    BY EmptyRow DEF NoRow
  <2> QED
    BY <2>1, <2>2
<1>9. FromAll(s, I, O, 1) /\ ParkedIn(f, s, I, 1)
  BY <1>8 DEF FromAll, ParkedIn
<1> QED
  BY <1>1, <1>2, <1>4, <1>6, <1>7, <1>9, <1>n DEF Known

LEMMA StartSound ==
  ASSUME NEW f, NEW p, ParamsOK(p), NEW s, Starts(s, p), NEW rt
  PROVE  Sound(f, s, rt) /\ s.term[1].op = "none"
<1>1. \A v \in 1 .. Len(s.inst) : s.inst[v].kind = "param"
  BY ParamInsts
<1>2. \A v \in ValuesOf(s) : InstSound(f, s, s.inst[v])
  BY <1>1 DEF InstSound, ValuesOf
<1>3. s.term[1] = NoTerm /\ Len(s.term) = 1
  BY OneRow DEF Starts
<1>4. NoTerm.op = "none"
  BY DEF NoTerm
<1>5. \A b \in BlocksOf(s) : b = 1
  BY <1>3 DEF BlocksOf
<1>6. \A b \in BlocksOf(s) : TermSound(f, s, s.term[b], rt)
  BY <1>3, <1>4, <1>5 DEF TermSound
<1> QED
  BY <1>2, <1>3, <1>4, <1>6 DEF Sound

\* The construct the body is parsed in.
LEMMA StartNested ==
  ASSUME NEW f, NEW s, NEW I, NEW O, NEW p, NEW sc, StartScopes(p, sc), NEW q, NEW o,
         OnTop(q, o, <<>>), o.k \in {"fn"}
  PROVE  Nested(f, s, I, O, q, sc, Len(sc)) /\ LetPlaced(q)
<1>1. IsRow(<<>>) /\ Len(<<>>) = 0
  BY EmptyRow
<1> PICK r : r \in {<<>>}
  OBVIOUS
<1>2. IsRow(r) /\ Len(r) = 0 /\ OnTop(q, o, r)
  BY <1>1
<1>3. Nested(f, s, I, O, r, sc, 1)
  BY <1>2, NestedNone
<1>4. Len(sc) = Inside(o, 1)
  BY DEF StartScopes, Inside, Bodies
<1>5. EntryKnows(f, s, I, O, o, NamesIn(f, sc, 1)) /\ LetFree(f, sc, o, 1)
  BY DEF EntryKnows, LetFree
<1>6. TopKnows(f, s, I, O, o, r, sc, Len(sc), 1)
  BY <1>3, <1>4, <1>5 DEF TopKnows
<1>7. Nested(f, s, I, O, q, sc, Len(sc))
  BY <1>2, <1>6, NestedPush
<1>8. LetPlaced(r) /\ LetOK(o, r)
  <2>1. \A i : i \notin 1 .. Len(r)
    BY <1>2
  <2> QED
    BY <2>1 DEF LetPlaced, LetOK
<1>9. LetPlaced(q)
  BY <1>2, <1>8, LetPush
<1> QED
  BY <1>7, <1>9

\* The first statement of a body is parsed in the entry block.
LEMMA StartTyped ==
  ASSUME NEW f \in BOOLEAN, NEW rt, NEW p, ParamsOK(p), NEW s, Starts(s, p), NEW sc,
         StartScopes(p, sc), NEW q, NEW o, OnTop(q, o, <<>>), o.k \in {"fn"},
         NEW I, NEW O, StartTables(f, sc, I, O), NEW c, c \in {1}
  PROVE  Typed(f, rt, s, c, q, sc, I, O)
<1>1. Known(f, s, I, O) /\ O[1] = NamesIn(f, sc, 2)
  BY StartKnown
<1>2. Sound(f, s, rt)
  BY StartSound
<1>3. NoShadow(f, sc)
  BY StartShadows
<1>4. Nested(f, s, I, O, q, sc, Len(sc)) /\ LetPlaced(q)
  BY StartNested
<1>5. ClosedOver(s, c, {}, q)
  <2>1. BlocksOf(s) \in {{1}}
    BY EntryOnly
  <2>2. \A b \in BlocksOf(s) : b = c
    BY <2>1
  <2> QED
    BY <2>2 DEF ClosedOver
<1>6. NamesIn(f, sc, Len(sc)) \subseteq O[c]
  <2>1. c = 1 /\ Len(sc) = 2
    BY DEF StartScopes
  <2> QED
    BY <1>1, <2>1
<1> QED
  BY <1>1, <1>2, <1>3, <1>4, <1>5, <1>6 DEF Typed

\* No call is in progress, and nothing was returned.
LEMMA StartFitting ==
  ASSUME NEW f, NEW s, NEW I, NEW O, NEW md, md \in {"stmt"}, NEW wk, wk \in {<<>>}, NEW v, NEW e, NEW t
  PROVE  Fitting(f, s, I, O, md, wk, v, e, t)
<1>1. Len(wk) \in {0}
  OBVIOUS
<1>2. FramesFit(f, s, I, O, wk, t)
  <2>1. \A i : i \notin 1 .. Len(wk)
    BY <1>1, SMT
  <2> QED
    BY <2>1 DEF FramesFit
<1>3. ReturnFits(f, s, md, wk, v, e, t)
  <2>1. ~(Len(wk) > 0)
    BY <1>1, SMT
  <2>2. md \notin {"reading", "value"}
    OBVIOUS
  <2> QED
    BY <2>1, <2>2 DEF ReturnFits
<1> QED
  BY <1>2, <1>3 DEF Fitting

LEMMA StartTablesExist ==
  ASSUME NEW f, NEW sc
  PROVE  \E I, O : StartTables(f, sc, I, O)
<1>1. PICK I : I \in {[b \in Nat |-> {}]}
  OBVIOUS
<1>2. PICK O : O \in {[b \in Nat |-> IF b = 1 THEN NamesIn(f, sc, 2) ELSE {}]}
  OBVIOUS
<1>3. StartTables(f, sc, I, O)
  BY <1>1, <1>2 DEF StartTables
<1> QED
  BY <1>3

LEMMA OnlyCall ==
  ASSUME NEW o
  PROVE  \A q \in {<<o>>} : OnTop(q, o, <<>>)
<1>1. OnTop(<<o>>, o, <<>>)
  BY OneCall
<1> QED
  BY <1>1

LEMMA StartCall ==
  ASSUME NEW k, NEW x, NEW q, q \in {<<Open(k, x, 0, 0, NoValue)>>}
  PROVE  \E o : OnTop(q, o, <<>>) /\ o.k \in {k}
<1>1. PICK o : o \in {Open(k, x, 0, 0, NoValue)}
  OBVIOUS
<1>2. q \in {<<o>>}
  BY <1>1
<1>3. \A r \in {<<o>>} : OnTop(r, o, <<>>)
  BY OnlyCall
<1>4. o.k \in {k}
  BY <1>1, OpenIs
<1> QED
  BY <1>2, <1>3, <1>4

LEMMA InitFits ==
  ASSUME Init
  PROVE  FitsNow /\ BodyEnded
<1>1. /\ shape \in DOMAIN Shapes /\ bld = NewBuilder(Params) /\ cur \in {1} /\ mode \in {"stmt"}
      /\ scopes \in {<<ParamScope(Params), EmptyScope>>} /\ ctl \in {<<Open("fn", "", 0, 0, NoValue)>>}
      /\ work \in {<<>>}
  BY DEF Init
<1>2. Shadowing \in BOOLEAN
  BY DEF Shadowing
<1>3. ParamsOK(Params)
  BY <1>1, ParamsKnown
<1>4. Starts(bld, Params)
  BY <1>1, BuilderStarts
<1>5. StartScopes(Params, scopes)
  BY <1>1, <1>3, StartScoped
<1>6. PICK I, O : StartTables(Shadowing, scopes, I, O)
  BY StartTablesExist
<1>7. PICK x : ctl \in {<<Open("fn", x, 0, 0, NoValue)>>}
  BY <1>1, Zenon
<1>8. PICK o : OnTop(ctl, o, <<>>) /\ o.k \in {"fn"}
  BY <1>7, StartCall, Zenon
<1>9. Typed(Shadowing, RetType, bld, cur, ctl, scopes, I, O)
  BY <1>1, <1>2, <1>3, <1>4, <1>5, <1>6, <1>8, StartTyped
<1>10. Fitting(Shadowing, bld, I, O, mode, work, ret, ety, NoType)
  BY <1>1, StartFitting
<1>11. Fits(I, O, NoType)
  BY <1>9, <1>10 DEF Fits, Fit
<1>12. BodyEnded
  BY <1>1 DEF BodyEnded, Accepted
<1> QED
  BY <1>11, <1>12 DEF FitsNow

\* What every reachable state satisfies: some description of the bindings fits it.
LEMMA AlwaysFits == Spec /\ ~ShortCircuitInWhile => [](FitsNow /\ BodyEnded)
<1>1. Init => FitsNow /\ BodyEnded
  BY InitFits
<1>2. Inv /\ (FitsNow /\ BodyEnded) /\ [Next]_vars => (FitsNow /\ BodyEnded)'
  BY FitsStep, EndedStep
<1> QED
  BY <1>1, <1>2, Invariant, PTL DEF Spec

-----------------------------------------------------------------------------
(* Reads find a definition.                                                *)

\* A block that expects something on entry has a predecessor.
LEMMA Awaited ==
  ASSUME NEW s, NEW shut, NEW busy, Core(s, shut, busy), Rooted(s), NEW I, NEW O, Tables(s, I, O),
         NEW b \in BlocksOf(s), I[b] # {}
  PROVE  s.preds[b] # <<>>
<1>1. b # 1
  BY DEF Tables
<1>2. PICK p \in 1 .. b - 1 : b \in Successors(s.term[p])
  BY <1>1 DEF Rooted
<1>3. p \in DOMAIN s.term /\ b \in 1 .. Len(s.term)
  <2>1. PICK n \in Nat : n = Len(s.term) /\ DOMAIN s.term = 1 .. n /\ b \in 1 .. n
    BY CoreLens DEF IsRow, BlocksOf
  <2>2. p \in 1 .. n
    BY <2>1
  <2> QED
    BY <2>1, <2>2
<1>4. p \in Predecessors(s.term, b)
  BY <1>2, <1>3 DEF Predecessors
<1>5. Lists(s.preds[b], Predecessors(s.term, b))
  BY <1>3 DEF Core, Agrees
<1>6. \E k \in 1 .. Len(s.preds[b]) : TRUE
  BY <1>4, <1>5 DEF Lists
<1>7. ~ \E k \in 1 .. Len(<<>>) : TRUE
  BY EmptyRow
<1> QED
  BY <1>6, <1>7

LEMMA FitsFind ==
  ASSUME Inv, FitsNow, Rooted(bld)
  PROVE  ReadsFindADefinition
<1> SUFFICES ASSUME SealedRead PROVE bld.preds[Top.b] # <<>>
  BY DEF ReadsFindADefinition
<1>1. PICK I, O, t : Fits(I, O, t)
  BY DEF FitsNow
<1>2. Running("read") /\ bld.defs[Top.b][Top.x] = NoValue
  BY DEF SealedRead, BindingOf
<1>3. ReadyNow(I, O, t, "read")
  BY <1>1, <1>2, RunningReady
<1>4. Reading(Shadowing, bld, cur, Top, I, O, t)
  BY <1>3, ReadKnows DEF ReadyNow
<1>5. <<Top.x, t>> \in I[Top.b]
  BY <1>2, <1>4, BoundHere
<1>6. Tables(bld, I, O)
  BY <1>1 DEF Fits, Fit, Typed, Known
<1>7. Core(bld, Shut(bld, work), Busy(work))
  BY CoreInv
<1>8. Top.b \in BlocksOf(bld)
  BY <1>4 DEF Reading
<1> QED
  BY <1>5, <1>6, <1>7, <1>8, Awaited

\* A variable that is read has a definition on every path to the read: a read
\* that reaches a sealed block without a binding has predecessors to go on to,
\* whatever the body.
THEOREM EveryReadIsAnswered == Spec /\ ~ShortCircuitInWhile => []ReadsFindADefinition
<1>1. Inv /\ (FitsNow /\ BodyEnded) /\ Rooted(bld) => ReadsFindADefinition
  BY FitsFind
<1> QED
  BY <1>1, Invariant, AlwaysFits, AlwaysRooted, PTL

-----------------------------------------------------------------------------
(* What the validator asks of a function.                                  *)

PhisMatch(s) ==
  \A v \in 1 .. Len(s.inst) : s.inst[v].kind = "phi" =>
    /\ Len(s.inst[v].args) = PredecessorCount(s.term, s.inst[v].block)
    /\ \A k \in 1 .. Len(s.inst[v].from) :
         s.inst[v].from[k] \in Predecessors(s.term, s.inst[v].block)
Complies(s, r) ==
  /\ TermsOK(s.term, Len(s.inst)) /\ InstsOK(s.inst, Len(s.term)) /\ Sound(FALSE, s, r)
  /\ \A b \in 1 .. Len(s.term) : s.term[b].op # "none"
  /\ PhisMatch(s)

LEMMA OperandComplies ==
  ASSUME NEW s, IsRow(s.inst), NEW v, NEW t, HasKind(FALSE, s, v, t)
  PROVE  OperandErrors(s.inst, v, t) = {}
<1>1. v \in DOMAIN s.inst /\ s.inst[v].ty = t
  BY DEF HasKind, Kind, ValuesOf, IsRow
<1> QED
  BY <1>1 DEF OperandErrors

Operands(s, i, t) == UNION {OperandErrors(s.inst, i.args[k], t) : k \in DOMAIN i.args} = {}
LEMMA OperandsComply ==
  ASSUME NEW s, IsRow(s.inst), NEW i, IsRow(i.args), NEW t, ArgsAre(FALSE, s, i, t)
  PROVE  Operands(s, i, t)
<1>1. DOMAIN i.args = 1 .. Len(i.args)
  BY DEF IsRow
<1>2. ASSUME NEW k \in DOMAIN i.args PROVE OperandErrors(s.inst, i.args[k], t) = {}
  <2>1. HasKind(FALSE, s, i.args[k], t)
    BY <1>1 DEF ArgsAre
  <2> QED
    BY <2>1, OperandComplies
<1> QED
  BY <1>2 DEF Operands

LEMMA InstComplies ==
  ASSUME NEW s, NEW r, Complies(s, r), NEW v \in DOMAIN s.inst
  PROVE  InstructionErrors(s, v) = {}
<1>i. PICK i : i = s.inst[v]
  OBVIOUS
<1>1. IsRow(s.inst) /\ v \in 1 .. Len(s.inst)
  BY DEF Complies, InstsOK, IsRow
<1>2. InstOK(i, Len(s.term), Len(s.inst)) /\ InstSound(FALSE, s, i)
  BY <1>i, <1>1 DEF Complies, InstsOK, Sound, ValuesOf
<1>3. IsRow(i.args) /\ IsRow(i.from) /\ \A k \in 1 .. Len(i.args) : i.args[k] \in 1 .. Len(s.inst)
  BY <1>2 DEF InstOK, RowOf
<1>4. Kind(FALSE, i.ty) = i.ty /\ Kind(FALSE, "i64") = "i64"
  BY DEF Kind
<1>5. CASE i.kind = "phi"
  <2>1. /\ Len(i.args) = PredecessorCount(s.term, i.block)
        /\ \A k \in 1 .. Len(i.from) : i.from[k] \in Predecessors(s.term, i.block)
    BY <1>i, <1>1, <1>5 DEF Complies, PhisMatch
  <2>2. DOMAIN i.from = 1 .. Len(i.from)
    BY <1>3 DEF IsRow
  <2>3. ArgsAre(FALSE, s, i, i.ty)
    BY <1>2, <1>4, <1>5 DEF InstSound
  <2>4. UNION {OperandErrors(s.inst, i.args[k], i.ty) : k \in DOMAIN i.args} = {}
    <3>1. Operands(s, i, i.ty)
      BY <1>1, <1>3, <2>3, OperandsComply
    <3> QED
      BY <3>1 DEF Operands
  <2>5. PhiErrors(s, v) = {}
    BY <1>i, <2>1, <2>2, <2>4 DEF PhiErrors
  <2> QED
    BY <1>i, <1>5, <2>5 DEF InstructionErrors
<1>6. CASE i.kind \in {"true", "false"}
  BY <1>i, <1>2, <1>6 DEF InstructionErrors, InstSound
<1>7. CASE i.kind \in {"unary", "arithmetic", "comparison"}
  <2>1. PICK wanted, result :
          /\ wanted = (IF i.kind = "unary" THEN i.ty ELSE "i64")
          /\ result = CASE i.kind = "unary"      -> i.ty
                        [] i.kind = "arithmetic" -> "i64"
                        [] i.kind = "comparison" -> "bool"
    OBVIOUS
  <2>2. ArgsAre(FALSE, s, i, wanted)
    BY <1>2, <1>4, <1>7, <2>1 DEF InstSound
  <2>3. i.ty = result
    BY <1>2, <1>7, <2>1 DEF InstSound
  <2>4. UNION {OperandErrors(s.inst, i.args[k], wanted) : k \in DOMAIN i.args} = {}
    <3>1. Operands(s, i, wanted)
      BY <1>1, <1>3, <2>2, OperandsComply
    <3> QED
      BY <3>1 DEF Operands
  <2>5. OperatorErrors(s.inst, i) = {}
    BY <2>1, <2>3, <2>4 DEF OperatorErrors
  <2> QED
    BY <1>i, <1>7, <2>5 DEF InstructionErrors
<1>8. CASE i.kind \notin {"phi", "true", "false", "unary", "arithmetic", "comparison"}
  <2>1. \A k \in DOMAIN i.args : i.args[k] \in DOMAIN s.inst
    BY <1>1, <1>3 DEF IsRow
  <2> QED
    BY <1>i, <1>8, <2>1 DEF InstructionErrors
<1> QED
  BY <1>5, <1>6, <1>7, <1>8

LEMMA TermComplies ==
  ASSUME NEW s, NEW r, Complies(s, r), NEW b \in DOMAIN s.term
  PROVE  TerminatorErrors(s, b, r) = {}
<1> PICK t : t = s.term[b]
  OBVIOUS
<1>1. IsRow(s.inst) /\ b \in 1 .. Len(s.term) /\ DOMAIN s.term = 1 .. Len(s.term)
  BY DEF Complies, InstsOK, TermsOK, IsRow
<1>2. TermOK(t, Len(s.term), Len(s.inst)) /\ TermSound(FALSE, s, t, r) /\ t.op # "none"
  BY <1>1 DEF Complies, TermsOK, Sound, BlocksOf
<1>3. Successors(t) \subseteq DOMAIN s.term
  BY <1>1, <1>2 DEF TermOK, RowOf, IsRow, Successors
<1>4. Kind(FALSE, r) = r /\ Kind(FALSE, "bool") = "bool"
  BY DEF Kind
<1>5. t.op = "return" => OperandErrors(s.inst, t.arg, r) = {}
  BY <1>1, <1>2, <1>4, OperandComplies DEF TermSound
<1>6. t.op = "branch" => OperandErrors(s.inst, t.arg, "bool") = {}
  BY <1>1, <1>2, <1>4, OperandComplies DEF TermSound
<1> QED
  BY <1>2, <1>3, <1>5, <1>6 DEF TerminatorErrors

LEMMA CompliesIsValid ==
  ASSUME NEW s, NEW r, Complies(s, r)
  PROVE  ValidationErrors(s, r) = {}
<1>1. \A v \in DOMAIN s.inst : InstructionErrors(s, v) = {}
  BY InstComplies
<1>2. \A b \in DOMAIN s.term : TerminatorErrors(s, b, r) = {}
  BY TermComplies
<1> QED
  BY <1>1, <1>2 DEF ValidationErrors

-----------------------------------------------------------------------------
(* What the parser accepts, complies.                                      *)

LEMMA AcceptedPhis ==
  ASSUME Inv, Accepted
  PROVE  PhisMatch(bld)
<1>1. Core(bld, Shut(bld, work), Busy(work)) /\ Blocks = 1 .. Len(bld.term) /\ Values = 1 .. Len(bld.inst)
  BY CoreInv
<1>2. InstsOK(bld.inst, Len(bld.term)) /\ Agrees(bld.term, bld.preds)
  BY <1>1 DEF Core
<1>3. EdgesAgree /\ PhisCoverPredecessors
  BY InvEdges, InvCovers
<1> SUFFICES ASSUME NEW v \in 1 .. Len(bld.inst), bld.inst[v].kind = "phi"
             PROVE  /\ Len(bld.inst[v].args) = PredecessorCount(bld.term, bld.inst[v].block)
                    /\ \A k \in 1 .. Len(bld.inst[v].from) :
                         bld.inst[v].from[k] \in Predecessors(bld.term, bld.inst[v].block)
  BY DEF PhisMatch
<1> PICK b, fr : b = bld.inst[v].block /\ fr = bld.inst[v].from
  OBVIOUS
<1>4. b \in 1 .. Len(bld.term)
  BY <1>2 DEF InstsOK, InstOK
<1>5. fr = bld.preds[b] /\ Len(bld.inst[v].args) = Len(fr)
  BY <1>1, <1>3 DEF PhisCoverPredecessors
<1>6. PredecessorCount(bld.term, b) = Len(bld.preds[b])
  BY <1>1, <1>3, <1>4 DEF EdgesAgree
<1>7. Lists(bld.preds[b], Predecessors(bld.term, b))
  BY <1>2, <1>4 DEF Agrees
<1>8. \A k \in 1 .. Len(fr) : fr[k] \in Predecessors(bld.term, b)
  BY <1>5, <1>7 DEF Lists
<1> QED
  BY <1>5, <1>6, <1>8

LEMMA AcceptedEnds ==
  ASSUME Inv, Accepted, FitsNow, BodyEnded, ~MissingReturn
  PROVE  \A b \in 1 .. Len(bld.term) : bld.term[b].op # "none"
<1>1. Len(ctl) \in {0}
  BY DEF Inv, Phase, Accepted
<1>2. ClosedOver(bld, cur, {}, ctl)
  <2>1. PICK I, O, t : Fits(I, O, t)
    BY DEF FitsNow
  <2> QED
    BY <2>1 DEF Fits, Fit, Typed
<1>3. ~ \E i \in 1 .. Len(ctl) : TRUE
  BY <1>1, SMT
<1>4. bld.term[cur].op # "none"
  BY DEF BodyEnded
<1> QED
  BY <1>2, <1>3, <1>4 DEF ClosedOver, BlocksOf

LEMMA FitsIsValid ==
  ASSUME Inv, FitsNow, BodyEnded, ~Shadowing, ~MissingReturn
  PROVE  AcceptedIsValid
<1> SUFFICES ASSUME Accepted PROVE ValidationErrors(bld, RetType) = {}
  BY DEF AcceptedIsValid
<1>1. TermsOK(bld.term, Len(bld.inst)) /\ InstsOK(bld.inst, Len(bld.term))
  BY CoreInv DEF Core
<1>2. Sound(FALSE, bld, RetType)
  <2>1. Shadowing = FALSE
    BY DEF Shadowing
  <2>2. PICK I, O, t : Fits(I, O, t)
    BY DEF FitsNow
  <2>3. Sound(Shadowing, bld, RetType)
    BY <2>2 DEF Fits, Fit, Typed
  <2> QED
    BY <2>1, <2>3
<1>3. PhisMatch(bld) /\ \A b \in 1 .. Len(bld.term) : bld.term[b].op # "none"
  BY AcceptedPhis, AcceptedEnds
<1>4. Complies(bld, RetType)
  BY <1>1, <1>2, <1>3 DEF Complies
<1> QED
  BY <1>4, CompliesIsValid

\* What the parser accepts, the validator accepts, of bodies that use none of
\* the three features in which the code falls short: and / or in a while
\* condition, a let that shadows a name, a path without return.
THEOREM AcceptedFunctionsAreValid ==
  Spec /\ ~ShortCircuitInWhile /\ ~Shadowing /\ ~MissingReturn => []AcceptedIsValid
<1>1. Inv /\ (FitsNow /\ BodyEnded) /\ (~Shadowing /\ ~MissingReturn) => AcceptedIsValid
  BY FitsIsValid
<1>2. (~Shadowing /\ ~MissingReturn) /\ [Next]_vars => (~Shadowing /\ ~MissingReturn)'
  <2>1. [Next]_vars => shape' = shape
    BY DEF Next, ParseStep, Stop, vars, parserVars
  <2> QED
    BY <2>1 DEF Shadowing, MissingReturn
<1>3. Spec /\ (~Shadowing /\ ~MissingReturn) => [](~Shadowing /\ ~MissingReturn)
  BY <1>2, PTL DEF Spec
<1> QED
  BY <1>1, <1>3, Invariant, AlwaysFits, PTL
=============================================================================
