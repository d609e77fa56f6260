--------------------------- MODULE BindingProofs ----------------------------
(***************************************************************************)
(* What the bindings of the SSA builder stand for, for every function      *)
(* body: lemmas about one step of the builder or of the parser, for any    *)
(* record.                                                                 *)
(*                                                                         *)
(* Two tables describe a function under construction.  O[b] says which     *)
(* variables are known at the end of block b, as pairs of a name and its   *)
(* type; I[b] which of them the block expects from its predecessors.  They *)
(* fit (Known) when a variable of O[b] is bound in b to a value of its     *)
(* type or expected by b, when every predecessor knows what a block        *)
(* expects, and when the entry block expects nothing.  The scopes of the   *)
(* parser name only what the current block knows, and a construct that is  *)
(* open knows on entry what its blocks will expect (Nested).  Typed is all *)
(* of that with the types of the operands so far (Sound), and each part of *)
(* this module takes one group of steps through it: names and scopes,      *)
(* statements, conditions and the blocks they lead to, loops, and / or,    *)
(* and then the calls of read_variable and seal_block (FramesFit).         *)
(*                                                                         *)
(* A let that shadows a name makes the builder read the variable of the    *)
(* outer scope, of another type perhaps: under Shadowing every type counts *)
(* as the same (Kind), and what remains says that there is a value.        *)
(***************************************************************************)
EXTENDS BuilderProofs

-----------------------------------------------------------------------------
(* How a step of the parser extends the record.  E holds the edges it      *)
(* adds, V the values it branches on.                                      *)

OldEdge(s, p, b) == b \in BlocksOf(s) /\ \E j \in 1 .. Len(s.preds[b]) : s.preds[b][j] = p
TermFrom(s, t, b, V) == \/ b \in BlocksOf(s) /\ t = s.term[b]
                        \/ t.op \in {"none", "jump"}
                        \/ t.op \in {"branch"} /\ t.arg \in V
Flows(s, u, E, V) ==
  /\ Grows(Len(s.term), Len(u.term)) /\ Grows(Len(s.inst), Len(u.inst))
  /\ \A v \in ValuesOf(s) : u.inst[v] = s.inst[v]
  /\ \A v \in ValuesOf(u) \ ValuesOf(s) :
       u.inst[v].kind \in {"true", "false"} /\ u.inst[v].ty = "bool"
  /\ \A b \in BlocksOf(s) : u.defs[b] = s.defs[b]
  /\ \A b \in BlocksOf(u) \ BlocksOf(s) : \A x \in Vars : u.defs[b][x] = NoValue
  /\ \A b \in BlocksOf(s) : u.pending[b] = s.pending[b] \/ Len(u.pending[b]) = 0
  /\ \A b \in BlocksOf(u) \ BlocksOf(s) : Len(u.pending[b]) = 0
  /\ \A b \in BlocksOf(u) : \A k \in 1 .. Len(u.preds[b]) :
       <<u.preds[b][k], b>> \in E \/ OldEdge(s, u.preds[b][k], b)
  /\ \A b \in BlocksOf(u) : TermFrom(s, u.term[b], b, V)

LEMMA GrowsTrans ==
  ASSUME NEW s, NEW t, NEW u, Grows(Len(s.term), Len(t.term)), Grows(Len(t.term), Len(u.term)),
         Grows(Len(s.inst), Len(t.inst)), Grows(Len(t.inst), Len(u.inst))
  PROVE  /\ BlocksOf(s) \subseteq BlocksOf(t) /\ BlocksOf(t) \subseteq BlocksOf(u)
         /\ ValuesOf(s) \subseteq ValuesOf(t) /\ ValuesOf(t) \subseteq ValuesOf(u)
         /\ Grows(Len(s.term), Len(u.term)) /\ Grows(Len(s.inst), Len(u.inst))
<1>1. \A k, m, n : Grows(k, m) /\ Grows(m, n) => Grows(k, n)
  BY DEF Grows
<1>2. \A m, n : Grows(m, n) => 1 .. m \subseteq 1 .. n
  BY DEF Grows
<1> QED
  BY <1>1, <1>2, Zenon DEF BlocksOf, ValuesOf

LEMMA FlowsTrans ==
  ASSUME NEW s, NEW t, NEW u, NEW E, NEW V, Flows(s, t, E, V), Flows(t, u, E, V)
  PROVE  Flows(s, u, E, V)
<1>1. /\ BlocksOf(s) \subseteq BlocksOf(t) /\ BlocksOf(t) \subseteq BlocksOf(u)
      /\ ValuesOf(s) \subseteq ValuesOf(t) /\ ValuesOf(t) \subseteq ValuesOf(u)
      /\ Grows(Len(s.term), Len(u.term)) /\ Grows(Len(s.inst), Len(u.inst))
  <2>1. /\ Grows(Len(s.term), Len(t.term)) /\ Grows(Len(t.term), Len(u.term))
        /\ Grows(Len(s.inst), Len(t.inst)) /\ Grows(Len(t.inst), Len(u.inst))
    BY DEF Flows
  <2> QED
    BY <2>1, GrowsTrans
<1>2. /\ \A v \in ValuesOf(s) : u.inst[v] = s.inst[v]
      /\ \A v \in ValuesOf(u) \ ValuesOf(s) :
           u.inst[v].kind \in {"true", "false"} /\ u.inst[v].ty = "bool"
  BY <1>1 DEF Flows
<1>3. /\ \A b \in BlocksOf(s) : u.defs[b] = s.defs[b]
      /\ \A b \in BlocksOf(u) \ BlocksOf(s) : \A x \in Vars : u.defs[b][x] = NoValue
  BY <1>1 DEF Flows
<1>4. /\ \A b \in BlocksOf(s) : u.pending[b] = s.pending[b] \/ Len(u.pending[b]) = 0
      /\ \A b \in BlocksOf(u) \ BlocksOf(s) : Len(u.pending[b]) = 0
  BY <1>1 DEF Flows
<1>5. ASSUME NEW b \in BlocksOf(u), NEW k \in 1 .. Len(u.preds[b])
      PROVE  <<u.preds[b][k], b>> \in E \/ OldEdge(s, u.preds[b][k], b)
  <2> PICK p : p = u.preds[b][k]
    OBVIOUS
  <2>1. <<p, b>> \in E \/ OldEdge(t, p, b)
    BY <1>5 DEF Flows
  <2>2. CASE OldEdge(t, p, b)
    BY <2>2, SMTT(60) DEF Flows, OldEdge
  <2> QED
    BY <2>1, <2>2
<1>6. ASSUME NEW b \in BlocksOf(u) PROVE TermFrom(s, u.term[b], b, V)
  <2>1. TermFrom(t, u.term[b], b, V)
    BY DEF Flows
  <2>2. b \in BlocksOf(t) => TermFrom(s, t.term[b], b, V)
    BY DEF Flows
  <2> QED
    BY <2>1, <2>2 DEF TermFrom
<1> QED
  BY <1>1, <1>2, <1>3, <1>4, <1>5, <1>6 DEF Flows

LEMMA AllOld ==
  ASSUME NEW s, NEW b \in BlocksOf(s), NEW k \in 1 .. Len(s.preds[b])
  PROVE  OldEdge(s, s.preds[b][k], b)
BY DEF OldEdge

LEMMA NothingFlows ==
  ASSUME NEW s, Shaped(s), NEW E, NEW V
  PROVE  Flows(s, s, E, V)
<1>1. Len(s.term) \in Nat /\ Len(s.inst) \in Nat
  BY DEF Shaped
<1> QED
  BY <1>1, AllOld DEF Flows, Grows, TermFrom

LEMMA NewBlockFlows ==
  ASSUME NEW s, Shaped(s), NEW E, NEW V
  PROVE  Shaped(NewBlock(s)) /\ Flows(s, NewBlock(s), E, V) /\ Len(NewBlock(s).term) = Len(s.term) + 1
         /\ NewBlock(s).inst = s.inst
<1> PICK u : u = NewBlock(s)
  OBVIOUS
<1>1. AddsBlock(s, u)
  BY ShapedNewBlockAdds
<1>2. /\ Len(s.term) \in Nat /\ Len(s.inst) \in Nat /\ Len(s.preds) = Len(s.term)
      /\ Len(s.defs) = Len(s.term) /\ Len(s.pending) = Len(s.term) /\ IsRow(s.inst)
      /\ \A b \in BlocksOf(s) : IsRow(s.preds[b]) /\ IsRow(s.pending[b])
  BY DEF Shaped
<1> PICK n : n = Len(s.term)
  OBVIOUS
<1>3. /\ IsRecord(u) /\ u.inst = s.inst
      /\ IsRow(u.term) /\ IsRow(u.preds) /\ IsRow(u.defs) /\ IsRow(u.pending)
      /\ Len(u.term) = n + 1 /\ Len(u.preds) = n + 1 /\ Len(u.defs) = n + 1
      /\ Len(u.pending) = n + 1
      /\ u.term[n + 1] = NoTerm /\ u.preds[n + 1] = <<>> /\ u.defs[n + 1] = NoDefs
      /\ u.pending[n + 1] = <<>>
      /\ \A b \in 1 .. n : /\ u.term[b] = s.term[b] /\ u.preds[b] = s.preds[b]
                           /\ u.defs[b] = s.defs[b] /\ u.pending[b] = s.pending[b]
  BY <1>1, <1>2 DEF AddsBlock, Appended
<1>4. BlocksOf(s) = 1 .. n /\ BlocksOf(u) = 1 .. n + 1 /\ 1 .. n + 1 = 1 .. n \cup {n + 1}
      /\ n \in Nat /\ n + 1 \notin 1 .. n
  BY <1>2, <1>3 DEF BlocksOf
<1>5. Shaped(u)
  <2>1. \A b \in BlocksOf(u) : IsRow(u.preds[b]) /\ IsRow(u.pending[b])
    BY <1>2, <1>3, <1>4, EmptyRow
  <2> QED
    BY <1>2, <1>3, <1>4, <2>1 DEF Shaped
<1>6. Flows(s, u, E, V)
  <2>1. Grows(Len(s.term), Len(u.term)) /\ Grows(Len(s.inst), Len(u.inst))
    BY <1>2, <1>3, <1>4 DEF Grows
  <2>2. \A b \in BlocksOf(u) \ BlocksOf(s) :
          /\ Len(u.pending[b]) = 0 /\ \A x \in Vars : u.defs[b][x] = NoValue
          /\ u.term[b].op \in {"none", "jump"} /\ Len(u.preds[b]) = 0
    BY <1>3, <1>4, EmptyRow DEF NoDefs, NoTerm
  <2>3. \A b \in BlocksOf(u) : \A k \in 1 .. Len(u.preds[b]) : OldEdge(s, u.preds[b][k], b)
    <3> SUFFICES ASSUME NEW b \in BlocksOf(u), NEW k \in 1 .. Len(u.preds[b])
                 PROVE  OldEdge(s, u.preds[b][k], b)
      OBVIOUS
    <3>1. b \in BlocksOf(s)
      BY <2>2
    <3> QED
      BY <1>3, <1>4, <3>1, AllOld
  <2>4. \A b \in BlocksOf(u) : TermFrom(s, u.term[b], b, V)
    BY <1>3, <1>4, <2>2 DEF TermFrom
  <2>5. \A v \in ValuesOf(u) : v \in ValuesOf(s)
    BY <1>3 DEF ValuesOf
  <2> QED
    BY <1>3, <1>4, <2>1, <2>2, <2>3, <2>4, <2>5 DEF Flows
<1> QED
  BY <1>3, <1>5, <1>6

LEMMA TerminateFlows ==
  ASSUME NEW s, Shaped(s), NEW b \in BlocksOf(s), NEW t, TermOK(t, Len(s.term), Len(s.inst)),
         NEW E, \A c \in Successors(t) : <<b, c>> \in E, NEW V,
         t.op \in {"jump"} \/ (t.op \in {"branch"} /\ t.arg \in V)
  PROVE  Shaped(Terminate(s, b, t)) /\ Flows(s, Terminate(s, b, t), E, V)
         /\ Len(Terminate(s, b, t).term) = Len(s.term) /\ Terminate(s, b, t).inst = s.inst
<1> PICK u : u = Terminate(s, b, t)
  OBVIOUS
<1>1. Ends(s, u, b, t)
  BY ShapedTerminateEnds
<1>2. /\ Len(s.term) \in Nat /\ Len(s.inst) \in Nat /\ Len(s.preds) = Len(s.term)
      /\ Len(s.defs) = Len(s.term) /\ Len(s.pending) = Len(s.term) /\ IsRow(s.inst)
      /\ \A c \in BlocksOf(s) : IsRow(s.preds[c]) /\ IsRow(s.pending[c])
      /\ IsRow(s.defs) /\ IsRow(s.pending)
  BY DEF Shaped
<1>3. /\ IsRecord(u) /\ u.inst = s.inst /\ u.defs = s.defs /\ u.pending = s.pending
      /\ Len(u.term) = Len(s.term) /\ Len(u.preds) = Len(s.preds) /\ u.term[b] = t
      /\ IsRow(u.term) /\ IsRow(u.preds)
      /\ \A c \in BlocksOf(s) \ {b} : u.term[c] = s.term[c]
  BY <1>1 DEF Ends
<1>4. BlocksOf(u) = BlocksOf(s) /\ ValuesOf(u) = ValuesOf(s)
  BY <1>3 DEF BlocksOf, ValuesOf
<1>5. ASSUME NEW c \in BlocksOf(s)
      PROVE  /\ IsRow(u.preds[c])
             /\ \A k \in 1 .. Len(u.preds[c]) :
                  <<u.preds[c][k], c>> \in E \/ OldEdge(s, u.preds[c][k], c)
  <2>1. CASE c \in Successors(t)
    <3>1. Appended(u.preds[c], s.preds[c], b)
      BY <1>1, <2>1 DEF Ends
    <3> PICK q, r : q = u.preds[c] /\ r = s.preds[c]
      OBVIOUS
    <3>2. /\ IsRow(q) /\ Len(q) = Len(r) + 1 /\ q[Len(r) + 1] = b /\ Len(r) \in Nat
          /\ \A k \in 1 .. Len(r) : q[k] = r[k]
      BY <3>1 DEF Appended, IsRow
    <3>3. ASSUME NEW k \in 1 .. Len(q) PROVE <<q[k], c>> \in E \/ OldEdge(s, q[k], c)
      <4>1. k = Len(r) + 1 \/ k \in 1 .. Len(r)
        BY <3>2
      <4>2. CASE k = Len(r) + 1
        BY <2>1, <3>2, <4>2
      <4>3. CASE k \in 1 .. Len(r)
        BY <3>2, <4>3, AllOld
      <4> QED
        BY <4>1, <4>2, <4>3
    <3> QED
      BY <3>2, <3>3
  <2>2. CASE c \notin Successors(t)
    <3>1. u.preds[c] = s.preds[c]
      BY <1>1, <2>2 DEF Ends
    <3> QED
      BY <1>2, <3>1, AllOld
  <2> QED
    BY <2>1, <2>2
<1>6. Shaped(u)
  BY <1>2, <1>3, <1>4, <1>5 DEF Shaped
<1>7. \A c \in BlocksOf(u) : TermFrom(s, u.term[c], c, V)
  BY <1>3, <1>4 DEF TermFrom
<1>8. Grows(Len(s.term), Len(u.term)) /\ Grows(Len(s.inst), Len(u.inst))
  BY <1>2, <1>3 DEF Grows
<1>9. Flows(s, u, E, V)
  BY <1>3, <1>4, <1>5, <1>7, <1>8 DEF Flows
<1> QED
  BY <1>3, <1>6, <1>9

LEMMA SealFlows ==
  ASSUME NEW s, Shaped(s), NEW bs, NEW E, NEW V
  PROVE  Shaped(SealFresh(s, bs)) /\ Flows(s, SealFresh(s, bs), E, V)
         /\ Len(SealFresh(s, bs).term) = Len(s.term) /\ SealFresh(s, bs).inst = s.inst
<1> PICK u : u = SealFresh(s, bs)
  OBVIOUS
<1>1. u = [inst |-> s.inst, term |-> s.term, preds |-> s.preds, defs |-> s.defs,
           sealed |-> s.sealed \cup bs, pending |-> s.pending]
  BY DEF SealFresh, Shaped, IsRecord
<1>2. /\ IsRecord(u) /\ u.inst = s.inst /\ u.term = s.term /\ u.preds = s.preds
      /\ u.defs = s.defs /\ u.pending = s.pending
  BY <1>1 DEF IsRecord
<1>3. Shaped(u)
  BY <1>2 DEF Shaped, BlocksOf
<1>4. Flows(s, s, E, V)
  BY NothingFlows
<1>5. Flows(s, u, E, V)
  BY <1>2, <1>4 DEF Flows, BlocksOf, ValuesOf
<1> QED
  BY <1>2, <1>3, <1>5

LEMMA EmitFlows ==
  ASSUME NEW s, Shaped(s), NEW b, NEW k \in {"true", "false"}, NEW E, NEW V
  PROVE  /\ Shaped(Emit(s, b, k, "bool", <<>>, <<>>))
         /\ Flows(s, Emit(s, b, k, "bool", <<>>, <<>>), E, V)
         /\ Emit(s, b, k, "bool", <<>>, <<>>).term = s.term
         /\ Len(Emit(s, b, k, "bool", <<>>, <<>>).inst) = Len(s.inst) + 1
         /\ Emit(s, b, k, "bool", <<>>, <<>>).inst[Len(s.inst) + 1].ty = "bool"
<1> PICK u : u = Emit(s, b, k, "bool", <<>>, <<>>)
  OBVIOUS
<1> PICK i : i = Instruction(b, k, "bool", <<>>, <<>>)
  OBVIOUS
<1>1. AddsInst(s, u, i)
  BY ShapedEmitAdds
<1>2. /\ IsRecord(u) /\ u.term = s.term /\ u.preds = s.preds /\ u.defs = s.defs
      /\ u.pending = s.pending /\ IsRow(u.inst) /\ Len(u.inst) = Len(s.inst) + 1
      /\ u.inst[Len(s.inst) + 1] = i /\ \A v \in 1 .. Len(s.inst) : u.inst[v] = s.inst[v]
  BY <1>1 DEF AddsInst, Appended
<1>3. i.kind = k /\ i.ty = "bool"
  BY DEF Instruction
<1>4. Len(s.term) \in Nat /\ Len(s.inst) \in Nat
  BY DEF Shaped
<1>5. Shaped(u)
  BY <1>2, <1>4 DEF Shaped, BlocksOf
<1>6. \A v \in ValuesOf(u) \ ValuesOf(s) : v = Len(s.inst) + 1
  BY <1>2, <1>4 DEF ValuesOf
<1>7. Grows(Len(s.inst), Len(u.inst))
  BY <1>2, <1>4 DEF Grows
<1>8. \A v \in ValuesOf(s) : u.inst[v] = s.inst[v]
  BY <1>2 DEF ValuesOf
<1>9. Flows(s, s, E, V)
  BY NothingFlows
<1>10. Flows(s, u, E, V)
  BY <1>2, <1>3, <1>6, <1>7, <1>8, <1>9 DEF Flows, BlocksOf
<1> QED
  BY <1>2, <1>3, <1>5, <1>10

LEMMA ForgetFlows ==
  ASSUME NEW s, Shaped(s), NEW b \in BlocksOf(s), NEW E, NEW V
  PROVE  LET u == [s EXCEPT !.pending[b] = <<>>]
         IN  Shaped(u) /\ Flows(s, u, E, V) /\ u.inst = s.inst /\ u.term = s.term
             /\ u.preds = s.preds
<1> PICK u : u = [s EXCEPT !.pending[b] = <<>>]
  OBVIOUS
<1>1. ChangesPending(s, u, b, <<>>)
  BY ShapedPendingChanges
<1>2. /\ IsRecord(u) /\ u.inst = s.inst /\ u.term = s.term /\ u.preds = s.preds
      /\ u.defs = s.defs /\ IsRow(u.pending) /\ Len(u.pending) = Len(s.pending)
      /\ \A c \in BlocksOf(s) \ {b} : u.pending[c] = s.pending[c]
      /\ u.pending[b] = <<>>
  BY <1>1 DEF ChangesPending
<1>3. \A c \in BlocksOf(s) : u.pending[c] = s.pending[c] \/ Len(u.pending[c]) = 0
  BY <1>2, EmptyRow
<1>4. \A c \in BlocksOf(s) : IsRow(u.pending[c])
  BY <1>2, EmptyRow DEF Shaped
<1>5. Shaped(u)
  BY <1>2, <1>4 DEF Shaped, BlocksOf
<1>6. Flows(s, s, E, V)
  BY NothingFlows
<1>7. Flows(s, u, E, V)
  BY <1>2, <1>3, <1>6 DEF Flows, BlocksOf, ValuesOf
<1> QED
  BY <1>2, <1>5, <1>7

-----------------------------------------------------------------------------
(* What the names stand for.  I[b] holds the names, with their types, that *)
(* every path into block b has bound, O[b] those known at its end.  With   *)
(* f the types are not followed: a let that shadows leaks them.            *)

Kind(f, t) == IF f THEN NoType ELSE t
Pairs == Vars \X (Types \cup {NoType})
HasKind(f, s, v, t) == v \in ValuesOf(s) /\ Kind(f, s.inst[v].ty) = t

BoundAs(f, s, I, O, b) ==
  \A p \in O[b] : IF s.defs[b][p[1]] = NoValue THEN p \in I[b]
                  ELSE HasKind(f, s, s.defs[b][p[1]], p[2])
OneEach(S) == \A p, q \in S : p[1] = q[1] => p = q
FromAll(s, I, O, b) == \A k \in 1 .. Len(s.preds[b]) : I[b] \subseteq O[s.preds[b][k]]
ParkedPair(f, s, p) == <<p.x, Kind(f, s.inst[p.phi].ty)>>
ParkedIn(f, s, I, b) == \A k \in 1 .. Len(s.pending[b]) : ParkedPair(f, s, s.pending[b][k]) \in I[b]
Tables(s, I, O) ==
  /\ I \in [Nat -> SUBSET Pairs] /\ O \in [Nat -> SUBSET Pairs] /\ I[1] = {}
  /\ \A b \in Nat \ BlocksOf(s) : I[b] = {} /\ O[b] = {}
Known(f, s, I, O) ==
  /\ Tables(s, I, O)
  /\ \A b \in BlocksOf(s) : /\ BoundAs(f, s, I, O, b) /\ OneEach(O[b])
                            /\ FromAll(s, I, O, b) /\ ParkedIn(f, s, I, b)

\* Instructions and terminators have operands of the types they ask for.
ArgsAre(f, s, i, t) == \A k \in 1 .. Len(i.args) : HasKind(f, s, i.args[k], t)
InstSound(f, s, i) ==
  /\ i.kind \in {"phi", "unary"} => ArgsAre(f, s, i, Kind(f, i.ty))
  /\ i.kind \in {"true", "false", "comparison"} => i.ty = "bool"
  /\ i.kind \in {"arithmetic"} => i.ty = "i64"
  /\ i.kind \in {"arithmetic", "comparison"} => ArgsAre(f, s, i, Kind(f, "i64"))
TermSound(f, s, t, r) ==
  /\ t.op \in {"branch"} => HasKind(f, s, t.arg, Kind(f, "bool"))
  /\ t.op \in {"return"} => HasKind(f, s, t.arg, Kind(f, r))
Sound(f, s, r) ==
  /\ \A v \in ValuesOf(s) : InstSound(f, s, s.inst[v])
  /\ \A b \in BlocksOf(s) : TermSound(f, s, s.term[b], r)

\* u has the values of s, with their types.
KeepsTypes(s, u) == /\ ValuesOf(s) \subseteq ValuesOf(u)
                    /\ \A v \in ValuesOf(s) : u.inst[v].ty = s.inst[v].ty

LEMMA KindKept ==
  ASSUME NEW f, NEW s, NEW u, KeepsTypes(s, u), NEW v, NEW t, HasKind(f, s, v, t)
  PROVE  HasKind(f, u, v, t)
BY DEF KeepsTypes, HasKind

LEMMA InstSoundKept ==
  ASSUME NEW f, NEW s, NEW u, KeepsTypes(s, u), NEW i, InstSound(f, s, i)
  PROVE  InstSound(f, u, i)
<1>1. \A t : ArgsAre(f, s, i, t) => ArgsAre(f, u, i, t)
  BY KindKept DEF ArgsAre
<1> QED
  BY <1>1 DEF InstSound

LEMMA TermSoundKept ==
  ASSUME NEW f, NEW s, NEW u, KeepsTypes(s, u), NEW t, NEW r, TermSound(f, s, t, r)
  PROVE  TermSound(f, u, t, r)
BY KindKept DEF TermSound

LEMMA FlowsKeepsTypes ==
  ASSUME NEW s, NEW u, NEW E, NEW V, Flows(s, u, E, V)
  PROVE  KeepsTypes(s, u) /\ BlocksOf(s) \subseteq BlocksOf(u)
<1>1. Grows(Len(s.term), Len(u.term)) /\ Grows(Len(s.inst), Len(u.inst))
      /\ \A v \in ValuesOf(s) : u.inst[v] = s.inst[v]
  BY DEF Flows
<1>2. \A m, n : Grows(m, n) => 1 .. m \subseteq 1 .. n
  BY DEF Grows
<1>3. ValuesOf(s) \subseteq ValuesOf(u) /\ BlocksOf(s) \subseteq BlocksOf(u)
  BY <1>1, <1>2 DEF ValuesOf, BlocksOf
<1> QED
  BY <1>1, <1>3 DEF KeepsTypes

LEMMA SoundFlows ==
  ASSUME NEW f, NEW s, NEW u, NEW E, NEW V, Flows(s, u, E, V), NEW r, Sound(f, s, r),
         \A v \in V : HasKind(f, s, v, Kind(f, "bool")) \/ HasKind(f, u, v, Kind(f, "bool"))
  PROVE  Sound(f, u, r)
<1>1. KeepsTypes(s, u)
  BY FlowsKeepsTypes
<1>2. ASSUME NEW v \in ValuesOf(u) PROVE InstSound(f, u, u.inst[v])
  <2>1. CASE v \in ValuesOf(s)
    <3>1. u.inst[v] = s.inst[v] /\ InstSound(f, s, s.inst[v])
      BY <2>1 DEF Flows, Sound
    <3> QED
      BY <1>1, <3>1, InstSoundKept
  <2>2. CASE v \notin ValuesOf(s)
    <3>1. u.inst[v].kind \in {"true", "false"} /\ u.inst[v].ty = "bool"
      BY <2>2 DEF Flows
    <3> QED
      BY <3>1 DEF InstSound
  <2> QED
    BY <2>1, <2>2
<1>3. ASSUME NEW b \in BlocksOf(u) PROVE TermSound(f, u, u.term[b], r)
  <2>1. TermFrom(s, u.term[b], b, V)
    BY DEF Flows
  <2>2. CASE b \in BlocksOf(s) /\ u.term[b] = s.term[b]
    BY <1>1, <2>2, TermSoundKept DEF Sound
  <2>3. CASE u.term[b].op \in {"none", "jump"}
    BY <2>3 DEF TermSound
  <2>4. CASE u.term[b].op \in {"branch"} /\ u.term[b].arg \in V
    <3>1. HasKind(f, u, u.term[b].arg, Kind(f, "bool"))
      BY <1>1, <2>4, KindKept
    <3> QED
      BY <2>4, <3>1 DEF TermSound
  <2> QED
    BY <2>1, <2>2, <2>3, <2>4 DEF TermFrom
<1> QED
  BY <1>2, <1>3 DEF Sound

\* An edge that is added brings what its target counts on.
LEMMA KnownFlows ==
  ASSUME NEW f, NEW s, NEW u, NEW E, NEW V, Flows(s, u, E, V), NEW I, NEW O, Known(f, s, I, O),
         \A b \in Nat : \A p : <<p, b>> \in E => I[b] \subseteq O[p],
         \A b \in BlocksOf(s) : \A k \in 1 .. Len(s.pending[b]) : s.pending[b][k].phi \in ValuesOf(s)
  PROVE  Known(f, u, I, O)
<1>1. KeepsTypes(s, u) /\ BlocksOf(s) \subseteq BlocksOf(u) /\ BlocksOf(u) \subseteq Nat
  BY FlowsKeepsTypes DEF BlocksOf
<1>2. Tables(u, I, O)
  BY <1>1 DEF Known, Tables
<1>3. ASSUME NEW b \in BlocksOf(u), b \notin BlocksOf(s)
      PROVE  I[b] = {} /\ O[b] = {} /\ Len(u.pending[b]) = 0
  BY <1>1, <1>3 DEF Known, Tables, Flows
<1>4. ASSUME NEW b \in BlocksOf(u)
      PROVE  BoundAs(f, u, I, O, b)
  <2>1. CASE b \in BlocksOf(s)
    <3>1. u.defs[b] = s.defs[b] /\ BoundAs(f, s, I, O, b)
      BY <2>1 DEF Flows, Known
    <3> QED
      BY <1>1, <3>1, KindKept DEF BoundAs
  <2>2. CASE b \notin BlocksOf(s)
    BY <1>3, <2>2 DEF BoundAs
  <2> QED
    BY <2>1, <2>2
<1>5. ASSUME NEW b \in BlocksOf(u) PROVE OneEach(O[b])
  BY <1>3 DEF Known, OneEach
<1>6. ASSUME NEW b \in BlocksOf(u) PROVE FromAll(u, I, O, b)
  <2> SUFFICES ASSUME NEW k \in 1 .. Len(u.preds[b]) PROVE I[b] \subseteq O[u.preds[b][k]]
    BY DEF FromAll
  <2>1. <<u.preds[b][k], b>> \in E \/ OldEdge(s, u.preds[b][k], b)
    BY DEF Flows
  <2>2. CASE OldEdge(s, u.preds[b][k], b)
    BY <2>2 DEF OldEdge, Known, FromAll
  <2> QED
    BY <1>1, <2>1, <2>2
<1>7. ASSUME NEW b \in BlocksOf(u) PROVE ParkedIn(f, u, I, b)
  <2>1. CASE Len(u.pending[b]) = 0
    BY <2>1 DEF ParkedIn
  <2>2. CASE b \in BlocksOf(s) /\ u.pending[b] = s.pending[b]
    <3>1. \A k \in 1 .. Len(s.pending[b]) :
            ParkedPair(f, u, s.pending[b][k]) = ParkedPair(f, s, s.pending[b][k])
      BY <1>1, <2>2 DEF ParkedPair, KeepsTypes
    <3> QED
      BY <2>2, <3>1 DEF ParkedIn, Known
  <2> QED
    BY <1>3, <2>1, <2>2 DEF Flows
<1> QED
  BY <1>2, <1>4, <1>5, <1>6, <1>7 DEF Known

\* Parsing goes on in a block whose predecessors all know the names N.
Untouched(s, I, O, b) ==
  b # 1 /\ I[b] = {} /\ O[b] = {} /\ \A x \in Vars : s.defs[b][x] = NoValue
Brings(s, O, b, N) == \A k \in 1 .. Len(s.preds[b]) : N \subseteq O[s.preds[b][k]]

LEMMA TableSet ==
  ASSUME NEW I \in [Nat -> SUBSET Pairs], NEW e \in Nat, NEW N, N \subseteq Pairs,
         NEW J, J = [I EXCEPT ![e] = N]
  PROVE  /\ J \in [Nat -> SUBSET Pairs] /\ J[e] = N
         /\ \A b \in Nat : b # e => J[b] = I[b]
OBVIOUS

\* The tables when block e is entered, knowing the names N.
Enters(I, O, e, N, I2, O2) == I2 = [I EXCEPT ![e] = N] /\ O2 = [O EXCEPT ![e] = N]
MayEnter(u, I, O, e, N) ==
  /\ e \in BlocksOf(u) /\ e # 1 /\ Untouched(u, I, O, e) /\ N \subseteq Pairs /\ OneEach(N)
  /\ Brings(u, O, e, N)
LEMMA Enter ==
  ASSUME NEW f, NEW s, NEW I, NEW O, Known(f, s, I, O), Shaped(s),
         NEW e, NEW N, MayEnter(s, I, O, e, N),
         \A b \in BlocksOf(s) : \A k \in 1 .. Len(s.preds[b]) : s.preds[b][k] \in Nat,
         NEW I2, NEW O2, Enters(I, O, e, N, I2, O2)
  PROVE  /\ Known(f, s, I2, O2) /\ O2[e] = N
         /\ \A b \in Nat : O[b] \subseteq O2[b] /\ (b # e => I2[b] = I[b] /\ O2[b] = O[b])
<1>. /\ e \in BlocksOf(s) /\ e # 1 /\ Untouched(s, I, O, e) /\ N \subseteq Pairs /\ OneEach(N)
     /\ Brings(s, O, e, N) /\ I2 = [I EXCEPT ![e] = N] /\ O2 = [O EXCEPT ![e] = N]
  BY DEF MayEnter, Enters
<1>1. /\ I \in [Nat -> SUBSET Pairs] /\ O \in [Nat -> SUBSET Pairs] /\ I[1] = {}
      /\ \A b \in Nat \ BlocksOf(s) : I[b] = {} /\ O[b] = {}
  BY DEF Known, Tables
<1>2. BlocksOf(s) \subseteq Nat /\ e \in Nat /\ 1 \in Nat
  BY DEF BlocksOf
<1>3. /\ I2 \in [Nat -> SUBSET Pairs] /\ I2[e] = N /\ \A b \in Nat : b # e => I2[b] = I[b]
      /\ O2 \in [Nat -> SUBSET Pairs] /\ O2[e] = N /\ \A b \in Nat : b # e => O2[b] = O[b]
  BY <1>1, <1>2, TableSet
<1>4. I[e] = {} /\ O[e] = {} /\ \A x \in Vars : s.defs[e][x] = NoValue
  BY DEF Untouched
<1>5. \A b \in Nat : O[b] \subseteq O2[b]
  BY <1>3, <1>4
<1>6. Tables(s, I2, O2)
  BY <1>1, <1>2, <1>3 DEF Tables
<1>7. ASSUME NEW b \in BlocksOf(s), b # e
      PROVE  /\ BoundAs(f, s, I2, O2, b) /\ OneEach(O2[b])
             /\ FromAll(s, I2, O2, b) /\ ParkedIn(f, s, I2, b)
  <2>1. I2[b] = I[b] /\ O2[b] = O[b]
    BY <1>2, <1>3, <1>7
  <2>2. /\ BoundAs(f, s, I, O, b) /\ OneEach(O[b]) /\ FromAll(s, I, O, b) /\ ParkedIn(f, s, I, b)
    BY DEF Known
  <2>3. FromAll(s, I2, O2, b)
    BY <1>5, <2>1, <2>2 DEF FromAll
  <2> QED
    BY <2>1, <2>2, <2>3 DEF BoundAs, ParkedIn
<1>8. /\ BoundAs(f, s, I2, O2, e) /\ OneEach(O2[e])
      /\ FromAll(s, I2, O2, e) /\ ParkedIn(f, s, I2, e)
  <2>1. BoundAs(f, s, I2, O2, e)
    <3>1. \A p \in N : p[1] \in Vars
      BY DEF Pairs
    <3> QED
      BY <1>3, <1>4, <3>1 DEF BoundAs
  <2>2. FromAll(s, I2, O2, e)
    BY <1>3, <1>5 DEF FromAll, Brings
  <2>3. ParkedIn(f, s, I2, e)
    <3>1. ParkedIn(f, s, I, e)
      BY DEF Known
    <3> QED
      BY <1>4, <3>1 DEF ParkedIn
  <2> QED
    BY <1>3, <2>1, <2>2, <2>3
<1>9. Known(f, s, I2, O2)
  BY <1>6, <1>7, <1>8 DEF Known
<1> QED
  BY <1>3, <1>5, <1>9

\* A block that has not ended is nobody's predecessor.
LEMMA OpenNoEdge ==
  ASSUME NEW s, NEW shut, NEW busy, Core(s, shut, busy), NEW b \in BlocksOf(s),
         NEW k \in 1 .. Len(s.preds[b])
  PROVE  s.preds[b][k] \in BlocksOf(s) /\ s.term[s.preds[b][k]].op # "none"
         /\ b \in Successors(s.term[s.preds[b][k]])
<1>1. s.preds[b][k] \in Predecessors(s.term, b)
  BY DEF Core, Agrees, Lists, BlocksOf
<1>2. TermsOK(s.term, Len(s.inst))
  BY DEF Core
<1> PICK p : p = s.preds[b][k]
  OBVIOUS
<1>3. p \in DOMAIN s.term /\ b \in Successors(s.term[p])
  BY <1>1 DEF Predecessors
<1>4. DOMAIN s.term = 1 .. Len(s.term)
  BY <1>2 DEF TermsOK, IsRow
<1>5. p \in BlocksOf(s) /\ TermOK(s.term[p], Len(s.term), Len(s.inst))
  BY <1>2, <1>3, <1>4 DEF TermsOK, BlocksOf
<1> QED
  BY <1>3, <1>5, TargetsEnd

\* A name is bound to a value of the right type in a block that has not ended.
Rebound(S, x, t) == {p \in S : p[1] # x} \cup {<<x, t>>}

LEMMA ReboundOne ==
  ASSUME NEW S, S \subseteq Pairs, OneEach(S), NEW x, NEW t, <<x, t>> \in Pairs
  PROVE  OneEach(Rebound(S, x, t)) /\ Rebound(S, x, t) \subseteq Pairs
<1> PICK z : z = <<x, t>> /\ z \in Pairs /\ z[1] = x
  OBVIOUS
<1>1. Rebound(S, x, t) = {p \in S : p[1] # x} \cup {z}
  BY DEF Rebound
<1> QED
  BY <1>1 DEF OneEach

\* A value is bound to a name: from the names N to the names N2.
Rebinds(f, s, c, u, x, v, t, O, O2) ==
  /\ Core(s, s.sealed, {}) /\ c \in BlocksOf(s) /\ s.term[c].op = "none" /\ x \in Vars
  /\ HasKind(f, s, v, t) /\ <<x, t>> \in Pairs /\ Binds(s, u, x, c, v)
  /\ O2 = [O EXCEPT ![c] = Rebound(O[c], x, t)]
ReboundAt(f, u, c, x, t, I, O, O2) ==
  /\ Known(f, u, I, O2) /\ O2[c] = Rebound(O[c], x, t)
  /\ \A b \in Nat : b # c => O2[b] = O[b]
LEMMA BindKnown ==
  ASSUME NEW f, NEW s, NEW c, NEW u, NEW x, NEW v, NEW t, NEW I, NEW O, Known(f, s, I, O), NEW O2,
         Rebinds(f, s, c, u, x, v, t, O, O2)
  PROVE  ReboundAt(f, u, c, x, t, I, O, O2)
<1> /\ Core(s, s.sealed, {}) /\ c \in BlocksOf(s) /\ s.term[c].op = "none" /\ x \in Vars
    /\ HasKind(f, s, v, t) /\ <<x, t>> \in Pairs /\ Binds(s, u, x, c, v)
    /\ O2 = [O EXCEPT ![c] = Rebound(O[c], x, t)]
  BY DEF Rebinds
<1>1. /\ I \in [Nat -> SUBSET Pairs] /\ O \in [Nat -> SUBSET Pairs] /\ I[1] = {}
      /\ \A b \in Nat \ BlocksOf(s) : I[b] = {} /\ O[b] = {}
  BY DEF Known, Tables
<1>2. BlocksOf(s) \subseteq Nat /\ c \in Nat
  BY DEF BlocksOf
<1>3. OneEach(O[c]) /\ O[c] \subseteq Pairs
  BY <1>1, <1>2 DEF Known
<1>4. /\ O2 \in [Nat -> SUBSET Pairs] /\ O2[c] = Rebound(O[c], x, t)
      /\ \A b \in Nat : b # c => O2[b] = O[b]
      /\ OneEach(O2[c])
  <2>1. Rebound(O[c], x, t) \subseteq Pairs /\ OneEach(Rebound(O[c], x, t))
    BY <1>3, ReboundOne
  <2>2. /\ O2 \in [Nat -> SUBSET Pairs] /\ O2[c] = Rebound(O[c], x, t)
        /\ \A b \in Nat : b # c => O2[b] = O[b]
    BY <1>1, <1>2, <2>1, TableSet
  <2> QED
    BY <2>1, <2>2
<1>5. /\ u.inst = s.inst /\ u.term = s.term /\ u.preds = s.preds /\ u.pending = s.pending
      /\ \A b \in BlocksOf(s) : b # c => u.defs[b] = s.defs[b]
      /\ u.defs[c] = [s.defs[c] EXCEPT ![x] = v]
  BY DEF Binds
<1>6. BlocksOf(u) = BlocksOf(s) /\ ValuesOf(u) = ValuesOf(s)
  BY <1>5 DEF BlocksOf, ValuesOf
<1>7. Tables(u, I, O2)
  BY <1>1, <1>2, <1>4, <1>6 DEF Tables
<1>8. \A w, k : HasKind(f, s, w, k) => HasKind(f, u, w, k)
  BY <1>5, <1>6 DEF HasKind
<1>9. ASSUME NEW b \in BlocksOf(s)
      PROVE  /\ BoundAs(f, s, I, O, b) /\ OneEach(O[b]) /\ FromAll(s, I, O, b)
             /\ ParkedIn(f, s, I, b)
  BY DEF Known
<1>10. ASSUME NEW b \in BlocksOf(u)
       PROVE  FromAll(u, I, O2, b) /\ ParkedIn(f, u, I, b) /\ OneEach(O2[b])
  <2>1. \A k \in 1 .. Len(u.preds[b]) : u.preds[b][k] \in Nat /\ u.preds[b][k] # c
    BY <1>2, <1>5, <1>6, OpenNoEdge
  <2>2. FromAll(u, I, O2, b)
    BY <1>4, <1>5, <1>6, <1>9, <2>1 DEF FromAll
  <2>3. ParkedIn(f, u, I, b)
    BY <1>5, <1>6, <1>9 DEF ParkedIn, ParkedPair
  <2> QED
    BY <1>2, <1>4, <1>6, <1>9, <2>2, <2>3
<1>11. ASSUME NEW b \in BlocksOf(u) PROVE BoundAs(f, u, I, O2, b)
  <2>1. CASE b # c
    <3>1. O2[b] = O[b] /\ u.defs[b] = s.defs[b] /\ BoundAs(f, s, I, O, b)
      BY <1>2, <1>4, <1>5, <1>6, <1>9, <2>1
    <3> QED
      BY <1>8, <3>1 DEF BoundAs
  <2>2. CASE b = c
    <3> SUFFICES ASSUME NEW p \in O2[c]
                 PROVE  IF u.defs[c][p[1]] = NoValue THEN p \in I[c]
                        ELSE HasKind(f, u, u.defs[c][p[1]], p[2])
      BY <2>2 DEF BoundAs
    <3>0. s.defs[c] \in [Vars -> 0 .. Len(s.inst)] /\ p[1] \in Vars
      <4>1. s.defs[c] \in [Vars -> 0 .. Len(s.inst)]
        BY DEF Core, DefsOK, BlocksOf
      <4>2. p \in Pairs
        BY <1>2, <1>4
      <4> QED
        BY <4>1, <4>2 DEF Pairs
    <3>1. CASE p[1] = x
      <4>1. p = <<x, t>>
        BY <1>4, <3>1 DEF Rebound
      <4>2. u.defs[c][x] = v /\ p[2] = t /\ v # NoValue
        <5>1. v # NoValue
          BY DEF HasKind, ValuesOf, NoValue
        <5> QED
          BY <1>5, <3>0, <4>1, <5>1
      <4> QED
        BY <1>8, <3>1, <4>2
    <3>2. CASE p[1] # x
      <4>1. p \in O[c]
        BY <1>4, <3>2 DEF Rebound
      <4>2. u.defs[c][p[1]] = s.defs[c][p[1]]
        BY <1>5, <3>0, <3>2
      <4>3. IF s.defs[c][p[1]] = NoValue THEN p \in I[c]
            ELSE HasKind(f, s, s.defs[c][p[1]], p[2])
        BY <1>9, <4>1 DEF BoundAs
      <4> QED
        BY <1>8, <4>2, <4>3
    <3> QED
      BY <3>1, <3>2
  <2> QED
    BY <2>1, <2>2
<1>12. Known(f, u, I, O2)
  BY <1>7, <1>10, <1>11 DEF Known
<1> QED
  BY <1>4, <1>12 DEF ReboundAt

Parkable(s) == \A b \in BlocksOf(s) : \A k \in 1 .. Len(s.pending[b]) :
                 s.pending[b][k].phi \in ValuesOf(s)
LEMMA CoreParkable ==
  ASSUME NEW s, NEW shut, NEW busy, Core(s, shut, busy)
  PROVE  Parkable(s) /\ Shaped(s)
<1>1. Shaped(s)
  BY CoreShaped
<1>2. Parkable(s)
  BY DEF Parkable, Core, PendingOK, RowOf, BlocksOf, ValuesOf
<1> QED
  BY <1>1, <1>2

\* A value is added.
LEMMA AddKnown ==
  ASSUME NEW f, NEW s, NEW I, NEW O, Known(f, s, I, O), Shaped(s), Parkable(s),
         NEW r, Sound(f, s, r), NEW i, NEW u, AddsInst(s, u, i),
         InstSound(f, s, i)
  PROVE  /\ Known(f, u, I, O) /\ Sound(f, u, r) /\ KeepsTypes(s, u)
         /\ Len(s.inst) + 1 \in ValuesOf(u) /\ u.inst[Len(s.inst) + 1] = i
<1>1. /\ u.term = s.term /\ u.preds = s.preds /\ u.defs = s.defs /\ u.pending = s.pending
      /\ Len(u.inst) = Len(s.inst) + 1 /\ u.inst[Len(s.inst) + 1] = i
      /\ \A v \in 1 .. Len(s.inst) : u.inst[v] = s.inst[v]
  BY DEF AddsInst, Appended
<1>2. Len(s.inst) \in Nat
  BY DEF Shaped
<1>3. ValuesOf(u) = ValuesOf(s) \cup {Len(s.inst) + 1} /\ BlocksOf(u) = BlocksOf(s)
  BY <1>1, <1>2 DEF ValuesOf, BlocksOf
<1>4. KeepsTypes(s, u)
  BY <1>1, <1>3 DEF KeepsTypes, ValuesOf
<1>5. ASSUME NEW v \in ValuesOf(u) PROVE InstSound(f, u, u.inst[v])
  <2>1. CASE v \in ValuesOf(s)
    <3>1. u.inst[v] = s.inst[v] /\ InstSound(f, s, s.inst[v])
      BY <1>1, <2>1 DEF Sound, ValuesOf
    <3> QED
      BY <1>4, <3>1, InstSoundKept
  <2>2. CASE v = Len(s.inst) + 1
    <3>1. InstSound(f, u, i)
      BY <1>4, InstSoundKept
    <3> QED
      BY <1>1, <2>2, <3>1
  <2> QED
    BY <1>3, <2>1, <2>2
<1>6. \A b \in BlocksOf(u) : TermSound(f, u, u.term[b], r)
  <2>1. \A b \in BlocksOf(s) : TermSound(f, s, s.term[b], r)
    BY DEF Sound
  <2> QED
    BY <1>1, <1>3, <1>4, <2>1, TermSoundKept
<1>7. Sound(f, u, r)
  BY <1>5, <1>6 DEF Sound
<1>8. ASSUME NEW b \in BlocksOf(s)
      PROVE  /\ BoundAs(f, u, I, O, b) /\ OneEach(O[b]) /\ FromAll(u, I, O, b)
             /\ ParkedIn(f, u, I, b)
  <2>1. /\ BoundAs(f, s, I, O, b) /\ OneEach(O[b]) /\ FromAll(s, I, O, b)
        /\ ParkedIn(f, s, I, b)
    BY DEF Known
  <2>2. BoundAs(f, u, I, O, b)
    BY <1>1, <1>4, <2>1, KindKept DEF BoundAs
  <2>3. \A k \in 1 .. Len(s.pending[b]) : s.pending[b][k].phi \in ValuesOf(s)
    BY DEF Parkable
  <2>4. ParkedIn(f, u, I, b)
    BY <1>1, <1>4, <2>1, <2>3 DEF ParkedIn, ParkedPair, KeepsTypes
  <2> QED
    BY <1>1, <2>1, <2>2, <2>4 DEF FromAll
<1>9. Known(f, u, I, O)
  BY <1>1, <1>3, <1>8 DEF Known, Tables
<1> QED
  BY <1>1, <1>3, <1>4, <1>7, <1>9

-----------------------------------------------------------------------------
(* The names in scope.                                                     *)

\* The names the first n scopes bind, with their types.
NamesIn(f, sc, n) ==
  {p \in Pairs : \E i \in 1 .. n : sc[i][p[1]] # NoType /\ p[2] = Kind(f, sc[i][p[1]])}
NoShadow(f, sc) ==
  f \/ \A x \in Vars : \A i, j \in 1 .. Len(sc) : sc[i][x] # NoType /\ sc[j][x] # NoType => i = j
SameScopes(sc, sc2, n) == \A i \in 1 .. n : sc2[i] = sc[i]

LEMMA NamesGrow ==
  ASSUME NEW f, NEW sc, NEW m \in Nat, NEW n \in Nat, m <= n
  PROVE  NamesIn(f, sc, m) \subseteq NamesIn(f, sc, n) /\ NamesIn(f, sc, n) \subseteq Pairs
<1>1. 1 .. m \subseteq 1 .. n
  OBVIOUS
<1> QED
  BY <1>1 DEF NamesIn

LEMMA NamesSame ==
  ASSUME NEW f, NEW sc, NEW sc2, NEW n \in Nat, SameScopes(sc, sc2, n)
  PROVE  NamesIn(f, sc2, n) = NamesIn(f, sc, n)
BY DEF NamesIn, SameScopes

LEMMA NamesOne ==
  ASSUME NEW f \in BOOLEAN, NEW sc, NoShadow(f, sc), Len(sc) \in Nat, NEW n \in 0 .. Len(sc)
  PROVE  OneEach(NamesIn(f, sc, n))
<1> SUFFICES ASSUME NEW p \in NamesIn(f, sc, n), NEW q \in NamesIn(f, sc, n), p[1] = q[1]
             PROVE  p = q
  BY DEF OneEach
<1>1. p \in Pairs /\ q \in Pairs
  BY DEF NamesIn
<1>2. PICK i \in 1 .. n : sc[i][p[1]] # NoType /\ p[2] = Kind(f, sc[i][p[1]])
  BY DEF NamesIn
<1>3. PICK j \in 1 .. n : sc[j][q[1]] # NoType /\ q[2] = Kind(f, sc[j][q[1]])
  BY DEF NamesIn
<1>4. p[2] = q[2]
  <2>1. CASE f
    BY <1>2, <1>3, <2>1 DEF Kind
  <2>2. CASE ~f
    <3>1. i \in 1 .. Len(sc) /\ j \in 1 .. Len(sc) /\ p[1] \in Vars
      BY <1>1 DEF Pairs
    <3>2. i = j
      BY <1>2, <1>3, <2>2, <3>1 DEF NoShadow
    <3> QED
      BY <1>2, <1>3, <3>2
  <2> QED
    BY <2>1, <2>2
<1> QED
  BY <1>1, <1>4 DEF Pairs

\* A name that is looked up is in scope.
LEMMA NamesLookup ==
  ASSUME NEW f \in BOOLEAN, NEW sc, ScopesOK(sc), NEW i \in 1 .. Len(sc), NEW x \in Vars,
         sc[i][x] # NoType
  PROVE  <<x, Kind(f, sc[i][x])>> \in NamesIn(f, sc, Len(sc)) /\ sc[i][x] \in Types
<1>1. sc[i] \in [Vars -> Types \cup {NoType}]
  BY DEF ScopesOK, RowOf
<1>2. sc[i][x] \in Types \cup {NoType}
  BY <1>1
<1>3. <<x, Kind(f, sc[i][x])>> \in Pairs
  BY <1>2 DEF Pairs, Kind
<1> PICK p : p = <<x, Kind(f, sc[i][x])>>
  OBVIOUS
<1>4. p[1] = x /\ p[2] = Kind(f, sc[i][x])
  OBVIOUS
<1> QED
  BY <1>2, <1>3, <1>4 DEF NamesIn

\* A scope that is empty adds none.
LEMMA NamesEmpty ==
  ASSUME NEW f, NEW sc, NEW n \in Nat, sc[n + 1] = EmptyScope
  PROVE  NamesIn(f, sc, n + 1) = NamesIn(f, sc, n)
<1>1. \A i \in 1 .. n + 1 : i \in 1 .. n \/ i = n + 1
  OBVIOUS
<1>2. 1 .. n \subseteq 1 .. n + 1
  OBVIOUS
<1>3. \A p \in Pairs : sc[n + 1][p[1]] = NoType
  BY DEF Pairs, EmptyScope
<1> QED
  BY <1>1, <1>2, <1>3 DEF NamesIn

-----------------------------------------------------------------------------
(* What an open construct counts on.                                       *)

\* N are the names in scope where the construct o begins.
EntryKnows(f, s, I, O, o, N) ==
  /\ o.k \in {"then"} => Untouched(s, I, O, o.b) /\ Brings(s, O, o.b, N)
  /\ o.k \in {"else", "elseif"} => s.term[o.b].op # "none" \/ N \subseteq O[o.b]
  /\ o.k \in {"while", "loop"} => I[o.b] \subseteq N
  /\ o.k \in {"loop"} => Untouched(s, I, O, o.c) /\ Brings(s, O, o.c, N)
  /\ o.k \in {"and", "or"} =>
       Untouched(s, I, O, o.c) /\ N \subseteq O[o.b] /\ HasKind(f, s, o.v, Kind(f, "bool"))
  /\ o.k \in {"bin"} => HasKind(f, s, o.v, Kind(f, "i64"))
\* A let with l scopes open does not reuse a name of an outer one.
LetFree(f, sc, o, l) ==
  o.k \in {"let"} => f \/ \A j \in 1 .. l : j # l => sc[j][o.x] = NoType

\* How many scopes are open inside o when l are around it.
Inside(o, l) == IF o.k \in Bodies THEN l + 1 ELSE l
\* lv lists for each open construct how many scopes are around it, n are open
\* inside the first.
Levels(lv, q, n) ==
  /\ IsRow(lv) /\ Len(lv) = Len(q) /\ n \in Nat /\ IsRow(q)
  /\ \A i \in 1 .. Len(q) : lv[i] \in Nat /\ lv[i] <= n
  /\ \A i, j \in 1 .. Len(q) : i <= j => lv[j] <= lv[i]
  /\ Len(q) > 0 => n = Inside(q[1], lv[1])
  /\ \A i \in 1 .. Len(q) : i + 1 \in 1 .. Len(q) => lv[i] = Inside(q[i + 1], lv[i + 1])
Holding(f, s, I, O, q, sc, n, lv) ==
  /\ Levels(lv, q, n)
  /\ \A i \in 1 .. Len(q) : /\ EntryKnows(f, s, I, O, q[i], NamesIn(f, sc, lv[i]))
                            /\ LetFree(f, sc, q[i], lv[i])
Nested(f, s, I, O, q, sc, n) == \E lv : Holding(f, s, I, O, q, sc, n, lv)

LEMMA NestedNone ==
  ASSUME NEW f, NEW s, NEW I, NEW O, NEW sc, NEW n \in Nat, NEW q, IsRow(q), Len(q) = 0
  PROVE  Nested(f, s, I, O, q, sc, n)
<1>1. Levels(q, q, n)
  BY DEF Levels
<1>2. Holding(f, s, I, O, q, sc, n, q)
  BY <1>1 DEF Holding
<1> QED
  BY <1>2 DEF Nested

TopKnows(f, s, I, O, o, r, sc, n, l) ==
  /\ l \in Nat /\ n = Inside(o, l) /\ EntryKnows(f, s, I, O, o, NamesIn(f, sc, l))
  /\ LetFree(f, sc, o, l) /\ Nested(f, s, I, O, r, sc, l)
LEMMA NestedPop ==
  ASSUME NEW f, NEW s, NEW I, NEW O, NEW q, NEW o, NEW r, OnTop(q, o, r), NEW sc, NEW n,
         Nested(f, s, I, O, q, sc, n)
  PROVE  \E l : TopKnows(f, s, I, O, o, r, sc, n, l)
<1>1. PICK lv : Holding(f, s, I, O, q, sc, n, lv)
  BY DEF Nested
<1>2. Levels(lv, q, n)
  BY <1>1 DEF Holding
<1>3. /\ 1 .. Len(q) = {1} \cup {k + 1 : k \in 1 .. Len(r)}
      /\ Len(r) \in Nat /\ Len(q) = Len(r) + 1 /\ q[1] = o
      /\ \A k \in 1 .. Len(r) : q[k + 1] = r[k] /\ k + 1 \in 1 .. Len(q) /\ k + 1 # 1
  BY OnTopSplits
<1> PICK l : l = lv[1]
  OBVIOUS
<1> PICK m : m = Len(r)
  OBVIOUS
<1> DEFINE w == [k \in 1 .. m |-> lv[k + 1]]
<1>4. IsRow(w) /\ Len(w) = m /\ \A k \in 1 .. m : w[k] = lv[k + 1]
  <2>1. w = [k \in 1 .. m |-> w[k]]
    OBVIOUS
  <2>2. m \in Nat
    BY <1>3
  <2> HIDE DEF w
  <2>3. IsRow(w) /\ Len(w) = m
    BY <2>1, <2>2, RowMade
  <2> QED
    BY <2>3 DEF w
<1> HIDE DEF w
<1>5. 1 \in 1 .. Len(q) /\ Len(q) > 0
  BY <1>3
<1>6. l \in Nat /\ n = Inside(o, l) /\ n \in Nat
  BY <1>2, <1>3, <1>5 DEF Levels
<1>7. Levels(w, r, l)
  <2>1. \A k \in 1 .. m : w[k] \in Nat /\ w[k] <= l
    <3> SUFFICES ASSUME NEW k \in 1 .. m PROVE w[k] \in Nat /\ w[k] <= l
      OBVIOUS
    <3>1. 1 <= k + 1 /\ k + 1 \in 1 .. Len(q)
      BY <1>3
    <3> QED
      BY <1>2, <1>4, <1>5, <3>1 DEF Levels
  <2>2. \A i, j \in 1 .. m : i <= j => w[j] <= w[i]
    <3> SUFFICES ASSUME NEW i \in 1 .. m, NEW j \in 1 .. m, i <= j PROVE w[j] <= w[i]
      OBVIOUS
    <3>1. i + 1 <= j + 1 /\ i + 1 \in 1 .. Len(q) /\ j + 1 \in 1 .. Len(q)
      BY <1>3
    <3> QED
      BY <1>2, <1>4, <3>1 DEF Levels
  <2>3. m > 0 => l = Inside(r[1], w[1])
    <3> SUFFICES ASSUME m > 0 PROVE l = Inside(r[1], w[1])
      OBVIOUS
    <3>1. 1 \in 1 .. m /\ 1 + 1 \in 1 .. Len(q)
      BY <1>3
    <3> QED
      BY <1>2, <1>3, <1>4, <1>5, <3>1 DEF Levels
  <2>4. \A i \in 1 .. m : i + 1 \in 1 .. m => w[i] = Inside(r[i + 1], w[i + 1])
    <3> SUFFICES ASSUME NEW i \in 1 .. m, i + 1 \in 1 .. m
                 PROVE  w[i] = Inside(r[i + 1], w[i + 1])
      OBVIOUS
    <3>1. i + 1 \in 1 .. Len(q) /\ (i + 1) + 1 \in 1 .. Len(q)
      BY <1>3
    <3> QED
      BY <1>2, <1>3, <1>4, <3>1 DEF Levels
  <2> QED
    BY <1>4, <1>6, <2>1, <2>2, <2>3, <2>4 DEF Levels, OnTop
<1>8. \A k \in 1 .. m : /\ EntryKnows(f, s, I, O, r[k], NamesIn(f, sc, w[k]))
                        /\ LetFree(f, sc, r[k], w[k])
  BY <1>1, <1>3, <1>4 DEF Holding
<1>9. Nested(f, s, I, O, r, sc, l)
  BY <1>7, <1>8 DEF Nested, Holding
<1>10. EntryKnows(f, s, I, O, o, NamesIn(f, sc, l)) /\ LetFree(f, sc, o, l)
  BY <1>1, <1>3, <1>5 DEF Holding
<1> QED
  BY <1>6, <1>9, <1>10 DEF TopKnows

LEMMA NestedPush ==
  ASSUME NEW f, NEW s, NEW I, NEW O, NEW q, NEW o, NEW r, OnTop(q, o, r), NEW sc, NEW n, NEW l,
         TopKnows(f, s, I, O, o, r, sc, n, l)
  PROVE  Nested(f, s, I, O, q, sc, n) /\ n \in Nat
<1>1. /\ l \in Nat /\ n = Inside(o, l) /\ EntryKnows(f, s, I, O, o, NamesIn(f, sc, l))
      /\ LetFree(f, sc, o, l)
  BY DEF TopKnows
<1>2. PICK w : Holding(f, s, I, O, r, sc, l, w)
  BY DEF TopKnows, Nested
<1>3. Levels(w, r, l)
  BY <1>2 DEF Holding
<1>4. /\ 1 .. Len(q) = {1} \cup {k + 1 : k \in 1 .. Len(r)}
      /\ Len(r) \in Nat /\ Len(q) = Len(r) + 1 /\ q[1] = o
      /\ \A k \in 1 .. Len(r) : q[k + 1] = r[k] /\ k + 1 \in 1 .. Len(q) /\ k + 1 # 1
  BY OnTopSplits
<1>5. OnTop(<<l>> \o w, l, w)
  BY <1>3, Front DEF Levels
<1> PICK lv : lv = <<l>> \o w
  OBVIOUS
<1> PICK m : m = Len(r)
  OBVIOUS
<1>6. /\ IsRow(lv) /\ Len(lv) = Len(q) /\ lv[1] = l /\ \A k \in 1 .. m : lv[k + 1] = w[k]
  BY <1>3, <1>4, <1>5 DEF OnTop, Levels
<1>7. n \in Nat /\ l <= n
  BY <1>1 DEF Inside
<1>8. ASSUME NEW i \in 1 .. Len(q)
      PROVE  i = 1 \/ (i - 1 \in 1 .. m /\ (i - 1) + 1 = i /\ lv[i] = w[i - 1] /\ q[i] = r[i - 1])
  <2>1. i = 1 \/ (i - 1 \in 1 .. m /\ (i - 1) + 1 = i)
    BY <1>4
  <2>2. CASE i - 1 \in 1 .. m /\ (i - 1) + 1 = i
    <3> PICK k : k = i - 1
      OBVIOUS
    <3>1. k \in 1 .. m /\ i = k + 1
      BY <2>2
    <3>2. lv[k + 1] = w[k] /\ q[k + 1] = r[k]
      BY <1>4, <1>6, <3>1
    <3> QED
      BY <2>2, <3>1, <3>2
  <2> QED
    BY <2>1, <2>2
<1>9. \A k \in 1 .. m : w[k] \in Nat /\ w[k] <= l
  BY <1>3 DEF Levels
<1>10. Levels(lv, q, n)
  <2>1. \A i \in 1 .. Len(q) : lv[i] \in Nat /\ lv[i] <= l
    <3> SUFFICES ASSUME NEW i \in 1 .. Len(q) PROVE lv[i] \in Nat /\ lv[i] <= l
      OBVIOUS
    <3>1. CASE i = 1
      BY <1>1, <1>6, <3>1
    <3>2. CASE i - 1 \in 1 .. m /\ lv[i] = w[i - 1]
      BY <1>9, <3>2
    <3> QED
      BY <1>8, <3>1, <3>2
  <2>2. \A i \in 1 .. Len(q) : lv[i] <= n
    <3>1. \A a, b, c \in Nat : a <= b /\ b <= c => a <= c
      OBVIOUS
    <3> QED
      BY <1>1, <1>7, <2>1, <3>1, Zenon
  <2>3. ASSUME NEW i \in 1 .. Len(q), NEW j \in 1 .. Len(q), i <= j PROVE lv[j] <= lv[i]
    <3>1. CASE i = 1
      BY <1>6, <2>1, <3>1
    <3>2. CASE i # 1
      <4>1. j # 1 /\ i - 1 <= j - 1
        BY <1>4, <2>3, <3>2
      <4>2. i - 1 \in 1 .. m /\ j - 1 \in 1 .. m /\ lv[i] = w[i - 1] /\ lv[j] = w[j - 1]
        BY <1>8, <3>2, <4>1
      <4>3. \A a, b \in 1 .. m : a <= b => w[b] <= w[a]
        BY <1>3 DEF Levels
      <4> QED
        BY <4>1, <4>2, <4>3
    <3> QED
      BY <3>1, <3>2
  <2>4. ASSUME NEW i \in 1 .. Len(q), i + 1 \in 1 .. Len(q)
        PROVE  lv[i] = Inside(q[i + 1], lv[i + 1])
    <3>1. i \in 1 .. m /\ q[i + 1] = r[i] /\ lv[i + 1] = w[i]
      BY <1>4, <1>6, <2>4
    <3>2. CASE i = 1
      <4>1. m > 0
        BY <1>4, <3>1
      <4>2. l = Inside(r[1], w[1])
        BY <1>3, <4>1 DEF Levels
      <4> QED
        BY <1>6, <3>1, <3>2, <4>2
    <3>3. CASE i # 1
      <4>1. i - 1 \in 1 .. m /\ (i - 1) + 1 = i /\ lv[i] = w[i - 1]
        BY <1>8, <3>3
      <4> PICK k : k = i - 1
        OBVIOUS
      <4>2. k \in 1 .. m /\ k + 1 \in 1 .. m /\ i = k + 1
        BY <3>1, <4>1
      <4>3. w[k] = Inside(r[k + 1], w[k + 1])
        BY <1>3, <4>2 DEF Levels
      <4> QED
        BY <3>1, <4>1, <4>2, <4>3
    <3> QED
      BY <3>2, <3>3
  <2>5. Len(q) > 0 => n = Inside(q[1], lv[1])
    BY <1>1, <1>4, <1>6
  <2>6. IsRow(q)
    BY DEF OnTop
  <2>7. \A i, j \in 1 .. Len(q) : i <= j => lv[j] <= lv[i]
    BY <2>3
  <2>8. \A i \in 1 .. Len(q) : i + 1 \in 1 .. Len(q) => lv[i] = Inside(q[i + 1], lv[i + 1])
    BY <2>4
  <2> QED
    BY <1>6, <1>7, <2>1, <2>2, <2>5, <2>6, <2>7, <2>8 DEF Levels
<1>11. \A i \in 1 .. Len(q) : /\ EntryKnows(f, s, I, O, q[i], NamesIn(f, sc, lv[i]))
                              /\ LetFree(f, sc, q[i], lv[i])
  <2> SUFFICES ASSUME NEW i \in 1 .. Len(q)
               PROVE  /\ EntryKnows(f, s, I, O, q[i], NamesIn(f, sc, lv[i]))
                      /\ LetFree(f, sc, q[i], lv[i])
    OBVIOUS
  <2>1. CASE i = 1
    BY <1>1, <1>4, <1>6, <2>1
  <2>2. CASE i - 1 \in 1 .. m /\ lv[i] = w[i - 1] /\ q[i] = r[i - 1]
    BY <1>2, <2>2 DEF Holding
  <2> QED
    BY <1>8, <2>1, <2>2
<1> QED
  BY <1>7, <1>10, <1>11 DEF Nested, Holding

-----------------------------------------------------------------------------
(* A step made in block c by a construct that keeps block d leaves what    *)
(* the other constructs count on.                                          *)

Nearby(s, u, I, O, I2, O2, c, d) ==
  /\ KeepsTypes(s, u) /\ BlocksOf(s) \subseteq BlocksOf(u)
  /\ \A b \in BlocksOf(s) : s.term[b].op # "none" => u.term[b].op # "none"
  /\ \A b \in Nat : O[b] \subseteq O2[b] \/ (b = c /\ s.term[b].op = "none")
  /\ \A b \in BlocksOf(s) : s.term[b].op # "none" \/ b = c \/ b = d \/
        (/\ I2[b] = I[b] /\ O2[b] = O[b] /\ u.defs[b] = s.defs[b]
         /\ \A k \in 1 .. Len(u.preds[b]) : OldEdge(s, u.preds[b][k], b))
  /\ \A b \in BlocksOf(s) : s.term[b].op # "none" \/ b = c => I2[b] = I[b]
Spared(p, d) == Kept(p) # 0 => Kept(p) # d
AnchoredAt(p, c) == p.k \in {"while"} => p.b = c

LEMMA EntryBlocks ==
  ASSUME NEW p, NEW s, NEW c, NEW shut, EntryOK(p, s, c, shut), Len(s.term) \in Nat
  PROVE  /\ p.k \in {"then"} => Kept(p) = p.b
         /\ p.k \in {"loop", "and", "or"} => Kept(p) = p.c
         /\ p.k \in {"else", "elseif"} => p.b \in BlocksOf(s) /\ p.b # c /\ Kept(p) = p.b
         /\ p.k \in {"then", "loop", "and", "or"} =>
              Kept(p) \in BlocksOf(s) /\ Kept(p) # c /\ s.term[Kept(p)].op = "none"
         /\ p.k \in {"while", "loop"} => p.b \in BlocksOf(s)
         /\ p.k \in {"loop"} => s.term[p.b].op # "none"
         /\ p.k \in {"and", "or"} => Len(s.preds[p.c]) = 1 /\ s.preds[p.c][1] = p.b
         /\ p.k \in {"and", "or", "bin"} => p.v # 0
<1>1. /\ p.b \in 0 .. Len(s.term) /\ p.c \in 0 .. Len(s.term) /\ Kept(p) # c
      /\ p.k \in {"then", "else", "elseif", "while", "loop", "and", "or"} => p.b # 0
      /\ p.k \in {"loop", "and", "or"} => p.c # 0
  BY DEF EntryOK, EntryShape
<1>2. /\ p.k \in {"then", "else", "elseif", "while", "loop", "and", "or"} => p.b \in BlocksOf(s)
      /\ p.k \in {"loop", "and", "or"} => p.c \in BlocksOf(s)
  BY <1>1 DEF BlocksOf
<1>3. /\ p.k \in {"then", "else", "elseif"} => Kept(p) = p.b
      /\ p.k \in {"loop", "and", "or"} => Kept(p) = p.c
  BY DEF Kept
<1>4. /\ p.k \in {"then", "loop", "and", "or"} => s.term[Kept(p)].op = "none"
      /\ p.k \in {"loop"} => s.term[p.b].op # "none"
      /\ p.k \in {"and", "or"} => Len(s.preds[p.c]) = 1 /\ s.preds[p.c][1] = p.b
      /\ p.k \in {"and", "or", "bin"} => p.v # 0
  BY DEF EntryOK, OperandKinds
<1> QED
  BY <1>1, <1>2, <1>3, <1>4

LEMMA BringsStill ==
  ASSUME NEW s, NEW shut, NEW busy, Core(s, shut, busy), NEW u, NEW I, NEW O, NEW I2, NEW O2,
         NEW c, NEW d, Nearby(s, u, I, O, I2, O2, c, d), NEW b \in BlocksOf(s),
         s.term[b].op = "none", b # c, b # d, NEW N, Brings(s, O, b, N)
  PROVE  Brings(u, O2, b, N)
<1> SUFFICES ASSUME NEW k \in 1 .. Len(u.preds[b]) PROVE N \subseteq O2[u.preds[b][k]]
  BY DEF Brings
<1> PICK p : p = u.preds[b][k]
  OBVIOUS
<1>1. OldEdge(s, p, b)
  BY DEF Nearby
<1>2. PICK j \in 1 .. Len(s.preds[b]) : s.preds[b][j] = p
  BY <1>1 DEF OldEdge
<1>3. N \subseteq O[p]
  BY <1>2 DEF Brings
<1>4. p \in BlocksOf(s) /\ s.term[p].op # "none"
  BY <1>2, OpenNoEdge
<1>5. p \in Nat
  BY <1>4 DEF BlocksOf
<1>6. O[p] \subseteq O2[p]
  BY <1>4, <1>5 DEF Nearby
<1> QED
  BY <1>3, <1>6

LEMMA UntouchedStill ==
  ASSUME NEW s, NEW u, NEW I, NEW O, NEW I2, NEW O2,
         NEW c, NEW d, Nearby(s, u, I, O, I2, O2, c, d), NEW b \in BlocksOf(s),
         s.term[b].op = "none", b # c, b # d, Untouched(s, I, O, b)
  PROVE  Untouched(u, I2, O2, b)
BY DEF Nearby, Untouched

LEMMA EntryStill ==
  ASSUME NEW f, NEW s, NEW shut, NEW busy, Core(s, shut, busy), NEW u, NEW I, NEW O, NEW I2, NEW O2,
         NEW c, NEW d, Nearby(s, u, I, O, I2, O2, c, d), NEW p, EntryOK(p, s, c, shut),
         Spared(p, d), AnchoredAt(p, c), NEW N, EntryKnows(f, s, I, O, p, N)
  PROVE  EntryKnows(f, u, I2, O2, p, N)
<1>1. Len(s.term) \in Nat
  BY CoreLens
<1>2. /\ p.k \in {"then"} => Kept(p) = p.b
      /\ p.k \in {"loop", "and", "or"} => Kept(p) = p.c
      /\ p.k \in {"else", "elseif"} => p.b \in BlocksOf(s) /\ p.b # c /\ Kept(p) = p.b
      /\ p.k \in {"then", "loop", "and", "or"} =>
           Kept(p) \in BlocksOf(s) /\ Kept(p) # c /\ s.term[Kept(p)].op = "none"
      /\ p.k \in {"while", "loop"} => p.b \in BlocksOf(s)
      /\ p.k \in {"loop"} => s.term[p.b].op # "none"
      /\ p.k \in {"and", "or"} => Len(s.preds[p.c]) = 1 /\ s.preds[p.c][1] = p.b
  BY <1>1, EntryBlocks
<1>3. 0 \notin BlocksOf(s)
  BY DEF BlocksOf
<1>4. p.k \in {"then"} => Untouched(u, I2, O2, p.b) /\ Brings(u, O2, p.b, N)
  <2> SUFFICES ASSUME p.k \in {"then"} PROVE Untouched(u, I2, O2, p.b) /\ Brings(u, O2, p.b, N)
    OBVIOUS
  <2>1. p.b \in BlocksOf(s) /\ p.b # c /\ s.term[p.b].op = "none" /\ p.b # d
    BY <1>2, <1>3 DEF Spared
  <2>2. Untouched(s, I, O, p.b) /\ Brings(s, O, p.b, N)
    BY DEF EntryKnows
  <2> QED
    BY <2>1, <2>2, BringsStill, UntouchedStill
<1>5. p.k \in {"else", "elseif"} => u.term[p.b].op # "none" \/ N \subseteq O2[p.b]
  <2> SUFFICES ASSUME p.k \in {"else", "elseif"} PROVE u.term[p.b].op # "none" \/ N \subseteq O2[p.b]
    OBVIOUS
  <2>1. p.b \in BlocksOf(s) /\ p.b # c /\ p.b # d /\ p.b \in Nat
    BY <1>2, <1>3 DEF Spared, BlocksOf
  <2>2. s.term[p.b].op # "none" \/ N \subseteq O[p.b]
    BY DEF EntryKnows
  <2> QED
    BY <2>1, <2>2 DEF Nearby
<1>6. p.k \in {"while", "loop"} => I2[p.b] \subseteq N
  <2> SUFFICES ASSUME p.k \in {"while", "loop"} PROVE I2[p.b] \subseteq N
    OBVIOUS
  <2>1. p.b \in BlocksOf(s) /\ (s.term[p.b].op # "none" \/ p.b = c)
    BY <1>2 DEF AnchoredAt
  <2>2. I2[p.b] = I[p.b]
    BY <2>1 DEF Nearby
  <2> QED
    BY <2>2 DEF EntryKnows
<1>7. p.k \in {"loop"} => Untouched(u, I2, O2, p.c) /\ Brings(u, O2, p.c, N)
  <2> SUFFICES ASSUME p.k \in {"loop"} PROVE Untouched(u, I2, O2, p.c) /\ Brings(u, O2, p.c, N)
    OBVIOUS
  <2>1. p.c \in BlocksOf(s) /\ p.c # c /\ s.term[p.c].op = "none" /\ p.c # d
    BY <1>2, <1>3 DEF Spared
  <2>2. Untouched(s, I, O, p.c) /\ Brings(s, O, p.c, N)
    BY DEF EntryKnows
  <2> QED
    BY <2>1, <2>2, BringsStill, UntouchedStill
<1>8. p.k \in {"and", "or"} =>
        Untouched(u, I2, O2, p.c) /\ N \subseteq O2[p.b] /\ HasKind(f, u, p.v, Kind(f, "bool"))
  <2> SUFFICES ASSUME p.k \in {"and", "or"}
               PROVE  Untouched(u, I2, O2, p.c) /\ N \subseteq O2[p.b]
                      /\ HasKind(f, u, p.v, Kind(f, "bool"))
    OBVIOUS
  <2>1. p.c \in BlocksOf(s) /\ p.c # c /\ s.term[p.c].op = "none" /\ p.c # d
    BY <1>2, <1>3 DEF Spared
  <2>2. Untouched(s, I, O, p.c) /\ N \subseteq O[p.b] /\ HasKind(f, s, p.v, Kind(f, "bool"))
    BY DEF EntryKnows
  <2>3. Untouched(u, I2, O2, p.c)
    BY <2>1, <2>2, UntouchedStill
  <2>4. 1 \in 1 .. Len(s.preds[p.c]) /\ s.preds[p.c][1] = p.b
    BY <1>2
  <2>5. p.b \in BlocksOf(s) /\ s.term[p.b].op # "none"
    BY <2>1, <2>4, OpenNoEdge
  <2>6. p.b \in Nat
    BY <2>5 DEF BlocksOf
  <2>7. O[p.b] \subseteq O2[p.b] /\ KeepsTypes(s, u)
    BY <2>5, <2>6 DEF Nearby
  <2>8. HasKind(f, u, p.v, Kind(f, "bool"))
    BY <2>2, <2>7, KindKept
  <2> QED
    BY <2>2, <2>3, <2>7, <2>8
<1>9. p.k \in {"bin"} => HasKind(f, u, p.v, Kind(f, "i64"))
  <2>1. KeepsTypes(s, u)
    BY DEF Nearby
  <2> QED
    BY <2>1, KindKept DEF EntryKnows
<1> QED
  BY <1>4, <1>5, <1>6, <1>7, <1>8, <1>9 DEF EntryKnows

\* The scopes around the constructs r, l of them, are left alone, but for the
\* one a body that is first in r has opened.
ScopesBelow(sc, sc2, r, l) ==
  \/ SameScopes(sc, sc2, l)
  \/ Len(r) > 0 /\ r[1].k \in Bodies /\ \A i \in 1 .. l : i # l => sc2[i] = sc[i]
AllSpared(r, c, d) == \A i \in 1 .. Len(r) : Spared(r[i], d) /\ AnchoredAt(r[i], c)
AllOK(r, s, c, shut) == \A i \in 1 .. Len(r) : EntryOK(r[i], s, c, shut)

LEMMA NestedStep ==
  ASSUME NEW f, NEW s, NEW shut, NEW busy, Core(s, shut, busy), NEW u, NEW I, NEW O, NEW I2, NEW O2,
         NEW c, NEW d, Nearby(s, u, I, O, I2, O2, c, d), NEW r, AllOK(r, s, c, shut),
         AllSpared(r, c, d), NEW sc, NEW sc2, NEW l, ScopesBelow(sc, sc2, r, l),
         Nested(f, s, I, O, r, sc, l)
  PROVE  Nested(f, u, I2, O2, r, sc2, l)
<1>1. PICK lv : Holding(f, s, I, O, r, sc, l, lv)
  BY DEF Nested
<1>2. Levels(lv, r, l)
  BY <1>1 DEF Holding
<1>3. ASSUME NEW i \in 1 .. Len(r)
      PROVE  lv[i] \in Nat /\ SameScopes(sc, sc2, lv[i])
  <2>1. lv[i] \in Nat /\ lv[i] <= l /\ l \in Nat
    BY <1>2 DEF Levels
  <2>2. CASE SameScopes(sc, sc2, l)
    <3>1. 1 .. lv[i] \subseteq 1 .. l
      BY <2>1
    <3> QED
      BY <2>1, <2>2, <3>1 DEF SameScopes
  <2>3. CASE Len(r) > 0 /\ r[1].k \in Bodies /\ \A j \in 1 .. l : j # l => sc2[j] = sc[j]
    <3>1. l = lv[1] + 1
      BY <1>2, <2>3 DEF Levels, Inside
    <3>2. 1 \in 1 .. Len(r) /\ 1 <= i
      BY <1>2, <2>3 DEF Levels, IsRow
    <3>3. lv[i] <= lv[1] /\ lv[1] \in Nat
      BY <1>2, <3>2 DEF Levels
    <3>4. \A m, n, k \in Nat : k = n + 1 /\ m <= n => \A j \in 1 .. m : j \in 1 .. k /\ j # k
      OBVIOUS
    <3>5. \A j \in 1 .. lv[i] : j \in 1 .. l /\ j # l
      BY <2>1, <3>1, <3>3, <3>4
    <3> QED
      BY <2>1, <2>3, <3>5 DEF SameScopes
  <2> QED
    BY <2>2, <2>3 DEF ScopesBelow
<1>4. ASSUME NEW i \in 1 .. Len(r)
      PROVE  /\ EntryKnows(f, u, I2, O2, r[i], NamesIn(f, sc2, lv[i]))
             /\ LetFree(f, sc2, r[i], lv[i])
  <2>1. EntryKnows(f, s, I, O, r[i], NamesIn(f, sc, lv[i])) /\ LetFree(f, sc, r[i], lv[i])
    BY <1>1 DEF Holding
  <2>2. EntryOK(r[i], s, c, shut) /\ Spared(r[i], d) /\ AnchoredAt(r[i], c)
    BY DEF AllOK, AllSpared
  <2>3. EntryKnows(f, u, I2, O2, r[i], NamesIn(f, sc, lv[i]))
    BY <2>1, <2>2, EntryStill
  <2>4. NamesIn(f, sc2, lv[i]) = NamesIn(f, sc, lv[i])
    BY <1>3, NamesSame
  <2>5. LetFree(f, sc2, r[i], lv[i])
    BY <1>3, <2>1 DEF LetFree, SameScopes
  <2> QED
    BY <2>3, <2>4, <2>5
<1> QED
  BY <1>2, <1>4 DEF Nested, Holding

-----------------------------------------------------------------------------
(* The edges each construct adds.                                          *)

LEMMA JumpFlows ==
  ASSUME NEW s, Shaped(s), NEW a \in BlocksOf(s), NEW h \in BlocksOf(s), NEW E, <<a, h>> \in E, NEW V,
         NEW u, u = Terminate(s, a, Jump(h))
  PROVE  /\ Shaped(u) /\ Flows(s, u, E, V) /\ Len(u.term) = Len(s.term) /\ u.inst = s.inst
         /\ \A b \in BlocksOf(s) \ {a} : u.term[b] = s.term[b]
<1>1. Len(s.term) \in Nat /\ Len(s.inst) \in Nat
  BY DEF Shaped
<1> PICK n, m : n = Len(s.term) /\ m = Len(s.inst)
  OBVIOUS
<1>2. TermOK(Jump(h), n, m) /\ Successors(Jump(h)) = {h} /\ Jump(h).op = "jump"
  <2>1. n \in Nat /\ m \in Nat /\ h \in 1 .. n
    BY <1>1 DEF BlocksOf
  <2> QED
    BY <2>1, JumpOK
<1> PICK t : t = Jump(h)
  OBVIOUS
<1>3. TermOK(t, Len(s.term), Len(s.inst)) /\ (\A c \in Successors(t) : <<a, c>> \in E)
      /\ t.op \in {"jump"}
  BY <1>2
<1>4. /\ Shaped(Terminate(s, a, t)) /\ Flows(s, Terminate(s, a, t), E, V)
      /\ Len(Terminate(s, a, t).term) = Len(s.term) /\ Terminate(s, a, t).inst = s.inst
  BY <1>3, TerminateFlows
<1>5. Ends(s, Terminate(s, a, t), a, t)
  BY <1>3, ShapedTerminateEnds
<1>6. \A b \in BlocksOf(s) \ {a} : Terminate(s, a, t).term[b] = s.term[b]
  BY <1>5 DEF Ends
<1> QED
  BY <1>4, <1>6

LEMMA BranchFlows ==
  ASSUME NEW s, Shaped(s), NEW c \in BlocksOf(s), NEW v \in ValuesOf(s), NEW t \in BlocksOf(s),
         NEW e \in BlocksOf(s), t # e, NEW E, <<c, t>> \in E, <<c, e>> \in E, NEW V, v \in V,
         NEW u, u = Terminate(s, c, Branch(v, t, e))
  PROVE  /\ Shaped(u) /\ Flows(s, u, E, V) /\ Len(u.term) = Len(s.term) /\ u.inst = s.inst
<1>1. Len(s.term) \in Nat /\ Len(s.inst) \in Nat
  BY DEF Shaped
<1> PICK n, m : n = Len(s.term) /\ m = Len(s.inst)
  OBVIOUS
<1>2. TermOK(Branch(v, t, e), n, m) /\ Successors(Branch(v, t, e)) = {t, e}
      /\ Branch(v, t, e).op = "branch"
  <2>1. n \in Nat /\ m \in Nat /\ t \in 1 .. n /\ e \in 1 .. n /\ v \in 1 .. m
    BY <1>1 DEF BlocksOf, ValuesOf
  <2> QED
    BY <2>1, BranchOK
<1>3. Branch(v, t, e).arg = v
  BY DEF Branch
<1> PICK b : b = Branch(v, t, e)
  OBVIOUS
<1>4. TermOK(b, Len(s.term), Len(s.inst)) /\ (\A d \in Successors(b) : <<c, d>> \in E)
      /\ b.op \in {"branch"} /\ b.arg \in V
  BY <1>2, <1>3
<1>5. /\ Shaped(Terminate(s, c, b)) /\ Flows(s, Terminate(s, c, b), E, V)
      /\ Len(Terminate(s, c, b).term) = Len(s.term) /\ Terminate(s, c, b).inst = s.inst
  BY <1>4, TerminateFlows
<1> QED
  BY <1>5

MaybeFlowed(s, u, a, E, V) ==
  /\ Shaped(u) /\ Flows(s, u, E, V) /\ Len(u.term) = Len(s.term) /\ u.inst = s.inst
  /\ \A b \in BlocksOf(s) \ {a} : u.term[b] = s.term[b]
LEMMA MaybeFlows ==
  ASSUME NEW s, Shaped(s), NEW a \in BlocksOf(s), NEW h \in BlocksOf(s), NEW E, NEW V,
         s.term[a].op = "none" => <<a, h>> \in E, NEW u, MaybeJumps(s, u, a, h)
  PROVE  MaybeFlowed(s, u, a, E, V)
<1>1. CASE s.term[a].op # "none"
  <2>1. u = s
    BY <1>1 DEF MaybeJumps
  <2> QED
    BY <2>1, NothingFlows DEF MaybeFlowed
<1>2. CASE s.term[a].op = "none"
  <2>1. u = Terminate(s, a, Jump(h)) /\ <<a, h>> \in E
    BY <1>2 DEF MaybeJumps
  <2> QED
    BY <2>1, JumpFlows DEF MaybeFlowed
<1> QED
  BY <1>1, <1>2

LEMMA BlockFlows ==
  ASSUME NEW s, Shaped(s), NEW E, NEW V, NEW u, u = NewBlock(s)
  PROVE  /\ Shaped(u) /\ Flows(s, u, E, V) /\ Len(u.term) = Len(s.term) + 1 /\ u.inst = s.inst
         /\ BlocksOf(u) = BlocksOf(s) \cup {Len(s.term) + 1} /\ Len(s.term) + 1 \notin BlocksOf(s)
         /\ \A b \in BlocksOf(s) : u.term[b] = s.term[b]
<1>1. /\ Shaped(u) /\ Flows(s, u, E, V) /\ Len(u.term) = Len(s.term) + 1 /\ u.inst = s.inst
  BY NewBlockFlows
<1>2. Len(s.term) \in Nat
  BY DEF Shaped
<1>3. BlocksOf(u) = BlocksOf(s) \cup {Len(s.term) + 1} /\ Len(s.term) + 1 \notin BlocksOf(s)
  BY <1>1, <1>2 DEF BlocksOf
<1>4. AddsBlock(s, NewBlock(s))
  BY ShapedNewBlockAdds
<1>5. \A b \in BlocksOf(s) : u.term[b] = s.term[b]
  BY <1>4 DEF AddsBlock, Appended, BlocksOf
<1> QED
  BY <1>1, <1>3, <1>5

\* The edges of each construct.
WhileEdges(c, h) == {<<c, h>>}
LEMMA WhileFlows ==
  ASSUME NEW s, Shaped(s), NEW c \in BlocksOf(s), NEW u, NEW h, NEW o, WhileBegun(s, c, u, h, o)
  PROVE  Shaped(u) /\ Flows(s, u, WhileEdges(c, h), {}) /\ h \notin BlocksOf(s) /\ h \in BlocksOf(u)
         /\ BlocksOf(u) = BlocksOf(s) \cup {h}
<1> PICK d : d = NewBlock(s)
  OBVIOUS
<1> PICK E, V : E = WhileEdges(c, h) /\ V = {}
  OBVIOUS
<1>1. h = Len(s.term) + 1 /\ u = Terminate(d, c, Jump(h))
  BY DEF WhileBegun
<1>2. /\ Shaped(d) /\ Flows(s, d, E, V) /\ BlocksOf(d) = BlocksOf(s) \cup {h}
      /\ h \notin BlocksOf(s)
  BY <1>1, BlockFlows
<1>3. <<c, h>> \in E /\ c \in BlocksOf(d) /\ h \in BlocksOf(d)
  BY <1>2 DEF WhileEdges
<1>6. u = Terminate(d, c, Jump(h)) /\ Shaped(d)
  BY <1>1, <1>2
<1>4. Shaped(u) /\ Flows(d, u, E, V) /\ Len(u.term) = Len(d.term)
  BY <1>3, <1>6, JumpFlows
<1>5. Flows(s, u, E, V)
  BY <1>2, <1>4, FlowsTrans
<1> QED
  BY <1>2, <1>4, <1>5 DEF BlocksOf

TwoEdges(c, t, e) == {<<c, t>>, <<c, e>>}
LEMMA TwoWayFlows ==
  ASSUME NEW s, Shaped(s), NEW c \in BlocksOf(s), NEW v \in ValuesOf(s), NEW u, NEW t, NEW e,
         TwoWay(s, c, v, u, t, e)
  PROVE  Shaped(u) /\ Flows(s, u, TwoEdges(c, t, e), {v}) /\ t \notin BlocksOf(s) /\ e \notin BlocksOf(s)
         /\ t # e /\ BlocksOf(u) = BlocksOf(s) \cup {t, e}
<1> PICK d1 : d1 = NewBlock(s)
  OBVIOUS
<1> PICK d2 : d2 = NewBlock(d1)
  OBVIOUS
<1> PICK w : w = Terminate(d2, c, Branch(v, t, e))
  OBVIOUS
<1> PICK E : E = TwoEdges(c, t, e)
  OBVIOUS
<1>1. t = Len(s.term) + 1 /\ e = Len(s.term) + 2 /\ u = SealFresh(w, {t, e})
  BY DEF TwoWay
<1>2. Len(s.term) \in Nat
  BY DEF Shaped
<1>3. /\ Shaped(d1) /\ Flows(s, d1, E, {v}) /\ d1.inst = s.inst /\ Len(d1.term) = t
      /\ BlocksOf(d1) = BlocksOf(s) \cup {t} /\ t \notin BlocksOf(s)
  BY <1>1, BlockFlows
<1>4. /\ Shaped(d2) /\ Flows(d1, d2, E, {v}) /\ d2.inst = d1.inst
      /\ BlocksOf(d2) = BlocksOf(d1) \cup {t + 1} /\ t + 1 \notin BlocksOf(d1)
  BY <1>3, BlockFlows
<1>5. e = t + 1
  BY <1>1, <1>2
<1>6. /\ c \in BlocksOf(d2) /\ t \in BlocksOf(d2) /\ e \in BlocksOf(d2) /\ t # e
      /\ v \in ValuesOf(d2) /\ BlocksOf(d2) = BlocksOf(s) \cup {t, e} /\ e \notin BlocksOf(s)
  BY <1>3, <1>4, <1>5 DEF ValuesOf
<1>7. <<c, t>> \in E /\ <<c, e>> \in E /\ v \in {v}
  BY DEF TwoEdges
<1>8. /\ Shaped(w) /\ Flows(d2, w, E, {v}) /\ Len(w.term) = Len(d2.term) /\ w.inst = d2.inst
  BY <1>4, <1>6, <1>7, BranchFlows
<1>9. Shaped(u) /\ Flows(w, u, E, {v}) /\ Len(u.term) = Len(w.term)
  BY <1>1, <1>8, SealFlows
<1>10. Flows(s, u, E, {v})
  BY <1>3, <1>4, <1>8, <1>9, FlowsTrans
<1>11. BlocksOf(u) = BlocksOf(d2)
  BY <1>8, <1>9 DEF BlocksOf
<1> QED
  BY <1>3, <1>6, <1>9, <1>10, <1>11

\* Only the arms that have not ended lead to the join.
ArmEdges(s, a, b, j) == {<<p, j>> : p \in {q \in {a, b} : s.term[q].op = "none"}}
LEMMA IfFlows ==
  ASSUME NEW s, Shaped(s), NEW a \in BlocksOf(s), NEW b \in BlocksOf(s), a # b, NEW u, NEW j,
         NEW s1, NEW w1, NEW w2, JoinMade(s, a, b, u, j, s1, w1, w2)
  PROVE  /\ Shaped(u) /\ Flows(s, u, ArmEdges(s, a, b, j), {})
         /\ j \notin BlocksOf(s) /\ BlocksOf(u) = BlocksOf(s) \cup {j}
<1> PICK E, V : E = ArmEdges(s, a, b, j) /\ V = {}
  OBVIOUS
<1>1. /\ j = Len(s.term) + 1 /\ s1 = NewBlock(s) /\ MaybeJumps(s1, w1, a, j)
      /\ MaybeJumps(w1, w2, b, j) /\ u = SealFresh(w2, {j})
  BY DEF JoinMade, NewBlockMade
<1>2. /\ Shaped(s1) /\ Flows(s, s1, E, V) /\ BlocksOf(s1) = BlocksOf(s) \cup {j}
      /\ j \notin BlocksOf(s) /\ \A c \in BlocksOf(s) : s1.term[c] = s.term[c]
  BY <1>1, BlockFlows
<1>3. s1.term[a].op = "none" => <<a, j>> \in E
  BY <1>2 DEF ArmEdges
<1>4. /\ Shaped(w1) /\ Flows(s1, w1, E, V) /\ Len(w1.term) = Len(s1.term)
      /\ \A c \in BlocksOf(s1) \ {a} : w1.term[c] = s1.term[c]
  <2>1. MaybeJumps(s1, w1, a, j) /\ Shaped(s1) /\ a \in BlocksOf(s1) /\ j \in BlocksOf(s1)
    BY <1>1, <1>2
  <2>2. MaybeFlowed(s1, w1, a, E, V)
    BY <1>3, <2>1, MaybeFlows
  <2> QED
    BY <2>2 DEF MaybeFlowed
<1>5. BlocksOf(w1) = BlocksOf(s1) /\ w1.term[b] = s.term[b]
  BY <1>2, <1>4 DEF BlocksOf
<1>6. w1.term[b].op = "none" => <<b, j>> \in E
  BY <1>5 DEF ArmEdges
<1>7. Shaped(w2) /\ Flows(w1, w2, E, V) /\ Len(w2.term) = Len(w1.term)
  <2>1. MaybeJumps(w1, w2, b, j) /\ Shaped(w1) /\ b \in BlocksOf(w1) /\ j \in BlocksOf(w1)
    BY <1>1, <1>2, <1>4, <1>5
  <2>2. MaybeFlowed(w1, w2, b, E, V)
    BY <1>6, <2>1, MaybeFlows
  <2> QED
    BY <2>2 DEF MaybeFlowed
<1>8. Shaped(u) /\ Flows(w2, u, E, V) /\ Len(u.term) = Len(w2.term)
  BY <1>1, <1>7, SealFlows
<1>9. Flows(s, u, E, V)
  BY <1>2, <1>4, <1>7, <1>8, FlowsTrans
<1>10. BlocksOf(u) = BlocksOf(s1)
  BY <1>4, <1>7, <1>8 DEF BlocksOf
<1> QED
  BY <1>2, <1>8, <1>9, <1>10

BackEdges(s, c, h) == {<<p, h>> : p \in {q \in {c} : s.term[q].op = "none"}}
LEMMA LoopFlows ==
  ASSUME NEW s, Shaped(s), NEW c \in BlocksOf(s), NEW h \in BlocksOf(s), NEW u, NEW wk,
         LoopClosed(s, c, h, u, wk)
  PROVE  /\ Shaped(u) /\ Flows(s, u, BackEdges(s, c, h), {}) /\ BlocksOf(u) = BlocksOf(s)
         /\ wk = <<SealFrame(h, s.pending[h])>> /\ u.inst = s.inst
<1> PICK E, V : E = BackEdges(s, c, h) /\ V = {}
  OBVIOUS
<1> PICK w : w = IF s.term[c].op # "none" THEN s ELSE Terminate(s, c, Jump(h))
  OBVIOUS
<1>1. u = [w EXCEPT !.pending[h] = <<>>] /\ wk = <<SealFrame(h, w.pending[h])>>
  BY DEF LoopClosed
<1>2. MaybeJumps(s, w, c, h)
  BY DEF MaybeJumps
<1>3. s.term[c].op = "none" => <<c, h>> \in E
  BY DEF BackEdges
<1>4. Shaped(w) /\ Flows(s, w, E, V) /\ Len(w.term) = Len(s.term) /\ w.inst = s.inst
  BY <1>2, <1>3, MaybeFlows, ZenonT(60) DEF MaybeFlowed
<1>5. BlocksOf(w) = BlocksOf(s)
  BY <1>4 DEF BlocksOf
<1>6. w.pending[h] = s.pending[h]
  <2>1. CASE s.term[c].op # "none"
    BY <1>2, <2>1 DEF MaybeJumps
  <2>2. CASE s.term[c].op = "none"
    BY <1>2, <2>2 DEF MaybeJumps, Terminate, Shaped, IsRecord
  <2> QED
    BY <2>1, <2>2
<1>7. Shaped(u) /\ Flows(w, u, E, V) /\ u.inst = w.inst /\ u.term = w.term
  BY <1>1, <1>4, <1>5, ForgetFlows
<1>8. Flows(s, u, E, V)
  BY <1>4, <1>7, FlowsTrans
<1> QED
  BY <1>1, <1>4, <1>5, <1>6, <1>7, <1>8 DEF BlocksOf

ThreeEdges(c, h, r, j) == {<<c, h>>, <<c, r>>, <<h, j>>}
ShortFlowed(s, c, v, u, h, r, j, l) ==
  /\ Shaped(u) /\ Flows(s, u, ThreeEdges(c, h, r, j), {v})
  /\ h \notin BlocksOf(s) /\ r \notin BlocksOf(s) /\ j \notin BlocksOf(s)
  /\ h # r /\ h # j /\ r # j /\ BlocksOf(u) = BlocksOf(s) \cup {h, r, j}
  /\ l \in ValuesOf(u) /\ u.inst[l].ty = "bool"
LEMMA ShortFlows ==
  ASSUME NEW s, Shaped(s), NEW c \in BlocksOf(s), NEW v \in ValuesOf(s), NEW u, NEW k,
         NEW h, NEW r, NEW j, NEW l, NEW d, NEW w, NEW e, ShortParts(s, c, v, u, k, h, r, j, l, d, w, e)
  PROVE  ShortFlowed(s, c, v, u, h, r, j, l)
<1> PICK E, V : E = ThreeEdges(c, h, r, j) /\ V = {v}
  OBVIOUS
<1>1. /\ h = Len(s.term) + 1 /\ r = Len(s.term) + 2 /\ j = Len(s.term) + 3
      /\ d = NewBlock(NewBlock(NewBlock(s)))
  BY DEF ShortParts, ThreeNew
<1>2. Len(s.term) \in Nat
  BY DEF Shaped
<1>3. r = h + 1 /\ j = r + 1 /\ h # r /\ h # j /\ r # j
  BY <1>1, <1>2
<1> PICK d1 : d1 = NewBlock(s)
  OBVIOUS
<1> PICK d2 : d2 = NewBlock(d1)
  OBVIOUS
<1>4. /\ Shaped(d1) /\ Flows(s, d1, E, V) /\ d1.inst = s.inst /\ Len(d1.term) = h
      /\ BlocksOf(d1) = BlocksOf(s) \cup {h} /\ h \notin BlocksOf(s)
  BY <1>1, BlockFlows
<1>5. /\ Shaped(d2) /\ Flows(d1, d2, E, V) /\ d2.inst = d1.inst /\ Len(d2.term) = r
      /\ BlocksOf(d2) = BlocksOf(d1) \cup {r} /\ r \notin BlocksOf(d1)
  BY <1>3, <1>4, BlockFlows
<1>6. /\ Shaped(d) /\ Flows(d2, d, E, V) /\ d.inst = d2.inst
      /\ BlocksOf(d) = BlocksOf(d2) \cup {j} /\ j \notin BlocksOf(d2)
  BY <1>1, <1>3, <1>5, BlockFlows, ZenonT(60)
<1>7. /\ c \in BlocksOf(d) /\ h \in BlocksOf(d) /\ r \in BlocksOf(d) /\ j \in BlocksOf(d)
      /\ v \in ValuesOf(d) /\ BlocksOf(d) = BlocksOf(s) \cup {h, r, j}
      /\ r \notin BlocksOf(s) /\ j \notin BlocksOf(s)
  BY <1>4, <1>5, <1>6 DEF ValuesOf
<1>8. <<c, h>> \in E /\ <<c, r>> \in E /\ <<h, j>> \in E /\ v \in V
  BY DEF ThreeEdges
<1>9. /\ Shaped(w) /\ Flows(d, w, E, V) /\ Len(w.term) = Len(d.term) /\ w.inst = d.inst
  <2>1. \E t, x : /\ w = SealFresh(Terminate(d, c, Branch(v, t, x)), {h, r})
                  /\ (t = h /\ x = r) \/ (t = r /\ x = h)
    BY DEF ShortParts, ForkMade
  <2>2. PICK t, x : /\ w = SealFresh(Terminate(d, c, Branch(v, t, x)), {h, r})
                    /\ (t = h /\ x = r) \/ (t = r /\ x = h)
    BY <2>1
  <2>3. t \in BlocksOf(d) /\ x \in BlocksOf(d) /\ t # x /\ <<c, t>> \in E /\ <<c, x>> \in E
    BY <1>3, <1>7, <1>8, <2>2
  <2> PICK y : y = Terminate(d, c, Branch(v, t, x))
    OBVIOUS
  <2>4. /\ Shaped(y) /\ Flows(d, y, E, V) /\ Len(y.term) = Len(d.term) /\ y.inst = d.inst
    BY <1>6, <1>7, <1>8, <2>3, BranchFlows
  <2>5. w = SealFresh(y, {h, r})
    BY <2>2
  <2>6. Shaped(w) /\ Flows(y, w, E, V) /\ Len(w.term) = Len(y.term) /\ w.inst = y.inst
    BY <2>4, <2>5, SealFlows
  <2>7. Flows(d, w, E, V)
    BY <2>4, <2>6, FlowsTrans
  <2> QED
    BY <2>4, <2>6, <2>7
<1>10. /\ Shaped(e) /\ Flows(w, e, E, V) /\ e.term = w.term /\ Len(e.inst) = Len(w.inst) + 1
       /\ e.inst[Len(w.inst) + 1].ty = "bool"
  <2>1. e = Emit(w, h, IF k = "or" THEN "true" ELSE "false", "bool", <<>>, <<>>)
    BY DEF ShortParts, ConstantMade
  <2>2. \E q \in {"true", "false"} : e = Emit(w, h, q, "bool", <<>>, <<>>)
    BY <2>1
  <2>3. PICK q \in {"true", "false"} : e = Emit(w, h, q, "bool", <<>>, <<>>)
    BY <2>2
  <2>4. LET y == Emit(w, h, q, "bool", <<>>, <<>>)
        IN  /\ Shaped(y) /\ Flows(w, y, E, V) /\ y.term = w.term /\ Len(y.inst) = Len(w.inst) + 1
            /\ y.inst[Len(w.inst) + 1].ty = "bool"
    BY <1>9, EmitFlows
  <2> QED
    BY <2>3, <2>4
<1>11. h \in BlocksOf(e) /\ j \in BlocksOf(e)
  BY <1>7, <1>9, <1>10 DEF BlocksOf
<1>12. u = Terminate(e, h, Jump(j)) /\ l = Len(e.inst)
  BY DEF ShortParts
<1>13. /\ Shaped(u) /\ Flows(e, u, E, V) /\ Len(u.term) = Len(e.term) /\ u.inst = e.inst
  BY <1>8, <1>10, <1>11, <1>12, JumpFlows
<1>14. Flows(s, u, E, V)
  BY <1>4, <1>5, <1>6, <1>9, <1>10, <1>13, FlowsTrans
<1>15. BlocksOf(u) = BlocksOf(d)
  BY <1>9, <1>10, <1>13 DEF BlocksOf
<1>16. Len(w.inst) \in Nat
  BY <1>9 DEF Shaped
<1>17. l \in ValuesOf(u) /\ u.inst[l].ty = "bool"
  BY <1>10, <1>12, <1>13, <1>16 DEF ValuesOf
<1> QED
  BY <1>3, <1>4, <1>7, <1>13, <1>14, <1>15, <1>17 DEF ShortFlowed

\* The jump to the join of and / or.
ShortJoined(s, c, j, u) == u = SealFresh(Terminate(s, c, Jump(j)), {j})
LEMMA JoinFlows ==
  ASSUME NEW s, Shaped(s), NEW c \in BlocksOf(s), NEW j \in BlocksOf(s), NEW u,
         ShortJoined(s, c, j, u)
  PROVE  /\ Shaped(u) /\ Flows(s, u, WhileEdges(c, j), {}) /\ BlocksOf(u) = BlocksOf(s)
         /\ u.inst = s.inst
<1> PICK E, V : E = WhileEdges(c, j) /\ V = {}
  OBVIOUS
<1> PICK w : w = Terminate(s, c, Jump(j))
  OBVIOUS
<1>1. <<c, j>> \in E
  BY DEF WhileEdges
<1>2. /\ Shaped(w) /\ Flows(s, w, E, V) /\ Len(w.term) = Len(s.term) /\ w.inst = s.inst
  BY <1>1, JumpFlows
<1>3. u = SealFresh(w, {j})
  BY DEF ShortJoined
<1>4. Shaped(u) /\ Flows(w, u, E, V) /\ Len(u.term) = Len(w.term) /\ u.inst = w.inst
  BY <1>2, <1>3, SealFlows
<1>5. Flows(s, u, E, V)
  BY <1>2, <1>4, FlowsTrans
<1> QED
  BY <1>2, <1>4, <1>5 DEF BlocksOf

-----------------------------------------------------------------------------
(* Everything that is known about the names, between two calls.            *)
\* A block that has not ended is the current one or is kept for later.
ClosedOver(s, c, K, r) ==
  \A b \in BlocksOf(s) : s.term[b].op = "none" =>
    b = c \/ b \in K \/ \E i \in 1 .. Len(r) : Kept(r[i]) = b
\* A let stands in a body of its own scope.
LetPlaced(q) == \A i \in 1 .. Len(q) : q[i].k \in {"let"} =>
                  i + 1 \in 1 .. Len(q) /\ q[i + 1].k \in Bodies
Typed(f, rt, s, c, q, sc, I, O) ==
  /\ f \in BOOLEAN /\ Known(f, s, I, O) /\ Sound(f, s, rt) /\ NoShadow(f, sc) /\ LetPlaced(q)
  /\ Nested(f, s, I, O, q, sc, Len(sc)) /\ ClosedOver(s, c, {}, q)
  /\ s.term[c].op = "none" => NamesIn(f, sc, Len(sc)) \subseteq O[c]
\* The calls in progress read variables of type t.
FrameFits(f, s, I, O, fr, t) ==
  /\ fr.op \in {"read"} => Kind(f, fr.ty) = t /\ <<fr.x, t>> \in O[fr.b]
  /\ fr.op \in {"write"} => <<fr.x, t>> \in O[fr.b]
  /\ fr.op \in {"ask", "take"} =>
       /\ Kind(f, fr.ty) = t /\ Kind(f, s.inst[fr.phi].ty) = t /\ <<fr.x, t>> \in I[fr.b]
       /\ \A k \in 1 .. Len(fr.got) : HasKind(f, s, fr.got[k], t)
  /\ fr.op \in {"seal"} => \A k \in 1 .. Len(fr.rest) : ParkedPair(f, s, fr.rest[k]) \in I[fr.b]
FramesFit(f, s, I, O, wk, t) == \A i \in 1 .. Len(wk) : FrameFits(f, s, I, O, wk[i], t)
\* What was returned, or is about to be.
ReturnFits(f, s, md, wk, v, e, t) ==
  /\ Len(wk) > 0 /\ wk[1].op \in {"write", "take"} => HasKind(f, s, v, t)
  /\ md \in {"reading"} => t = Kind(f, e)
  /\ md \in {"reading"} /\ Len(wk) = 0 => HasKind(f, s, v, t)
  /\ md \in {"value"} => HasKind(f, s, v, Kind(f, e))
Fitting(f, s, I, O, md, wk, v, e, t) ==
  FramesFit(f, s, I, O, wk, t) /\ ReturnFits(f, s, md, wk, v, e, t)

-----------------------------------------------------------------------------
(* What the constructs below the one that makes a step keep.               *)
TablesKept(s, I, O, I2, O2, c, d) ==
  /\ \A b \in Nat : O[b] \subseteq O2[b]
  /\ \A b \in BlocksOf(s) : \/ I2[b] = I[b] /\ O2[b] = O[b]
                            \/ b = d /\ s.term[b].op = "none" /\ b # c
\* The edges that are added lead to new blocks, or to c or d.
EdgesAside(s, E, c, d) ==
  \A b \in BlocksOf(s) : s.term[b].op # "none" \/ b = c \/ b = d \/ \A p : <<p, b>> \notin E
LEMMA NearbyFlows ==
  ASSUME NEW s, NEW u, NEW E, NEW V, Flows(s, u, E, V), Keeps(s, u), NEW I, NEW O, NEW I2, NEW O2,
         NEW c, NEW d, TablesKept(s, I, O, I2, O2, c, d), EdgesAside(s, E, c, d)
  PROVE  Nearby(s, u, I, O, I2, O2, c, d)
<1>1. KeepsTypes(s, u) /\ BlocksOf(s) \subseteq BlocksOf(u)
  BY FlowsKeepsTypes
<1>2. \A b \in BlocksOf(s) : s.term[b].op # "none" => u.term[b].op # "none"
  BY DEF Keeps
<1>3. ASSUME NEW b \in BlocksOf(s), ~ (s.term[b].op # "none" \/ b = c \/ b = d)
      PROVE  /\ I2[b] = I[b] /\ O2[b] = O[b] /\ u.defs[b] = s.defs[b]
             /\ \A k \in 1 .. Len(u.preds[b]) : OldEdge(s, u.preds[b][k], b)
  <2>1. I2[b] = I[b] /\ O2[b] = O[b]
    BY <1>3 DEF TablesKept
  <2>2. u.defs[b] = s.defs[b]
    BY DEF Flows
  <2>3. \A p : <<p, b>> \notin E
    BY <1>3 DEF EdgesAside
  <2>4. \A k \in 1 .. Len(u.preds[b]) : <<u.preds[b][k], b>> \in E \/ OldEdge(s, u.preds[b][k], b)
    BY <1>1 DEF Flows
  <2> QED
    BY <2>1, <2>2, <2>3, <2>4
<1>4. \A b \in BlocksOf(s) : s.term[b].op # "none" \/ b = c => I2[b] = I[b]
  BY DEF TablesKept
<1>5. \A b \in Nat : O[b] \subseteq O2[b]
  BY DEF TablesKept
<1>6. \A b \in BlocksOf(s) : s.term[b].op # "none" \/ b = c \/ b = d \/
        (/\ I2[b] = I[b] /\ O2[b] = O[b] /\ u.defs[b] = s.defs[b]
         /\ \A k \in 1 .. Len(u.preds[b]) : OldEdge(s, u.preds[b][k], b))
  BY <1>3
<1> QED
  BY <1>1, <1>2, <1>4, <1>5, <1>6 DEF Nearby

LEMMA AllOldEdges ==
  ASSUME NEW s, NEW u, u.preds = s.preds
  PROVE  \A b \in BlocksOf(s) : \A k \in 1 .. Len(u.preds[b]) : OldEdge(s, u.preds[b][k], b)
BY AllOld

\* Nothing happens to the record but what keeps its blocks and values.
LEMMA NearbyStill ==
  ASSUME NEW s, NEW u, KeepsTypes(s, u), u.term = s.term, u.preds = s.preds, NEW c,
         \A b \in BlocksOf(s) \ {c} : u.defs[b] = s.defs[b],
         NEW I, NEW O, NEW O2, \A b \in Nat : b # c => O2[b] = O[b],
         s.term[c].op = "none" \/ O2 = O, BlocksOf(s) \subseteq Nat, NEW d
  PROVE  Nearby(s, u, I, O, I, O2, c, d)
<1>1. BlocksOf(u) = BlocksOf(s)
  BY DEF BlocksOf
<1>2. \A b \in BlocksOf(s) : \A k \in 1 .. Len(u.preds[b]) : OldEdge(s, u.preds[b][k], b)
  BY AllOldEdges
<1>3. \A b \in Nat : O[b] \subseteq O2[b] \/ (b = c /\ s.term[b].op = "none")
  OBVIOUS
<1> QED
  BY <1>1, <1>2, <1>3 DEF Nearby

\* A value is added to what a step has made.
LEMMA NearbyAdds ==
  ASSUME NEW s, NEW w, NEW I, NEW O, NEW I2, NEW O2, NEW c, NEW d,
         Nearby(s, w, I, O, I2, O2, c, d), NEW u, KeepsTypes(w, u), u.term = w.term,
         u.preds = w.preds, u.defs = w.defs
  PROVE  Nearby(s, u, I, O, I2, O2, c, d)
<1>1. KeepsTypes(s, u)
  BY DEF Nearby, KeepsTypes
<1>2. BlocksOf(u) = BlocksOf(w)
  BY DEF BlocksOf
<1> QED
  BY <1>1, <1>2 DEF Nearby

\* The current block ends in a return.
LEMMA NearbyEnds ==
  ASSUME NEW s, Shaped(s), NEW u, NEW c, NEW t, Ends(s, u, c, t), t.op # "none", Successors(t) = {},
         NEW I, NEW O, NEW d
  PROVE  Nearby(s, u, I, O, I, O, c, d)
<1>1. KeepsTypes(s, u) /\ BlocksOf(u) = BlocksOf(s)
  BY DEF Ends, KeepsTypes, ValuesOf, BlocksOf
<1>2. \A b \in BlocksOf(s) : u.preds[b] = s.preds[b] /\ u.defs[b] = s.defs[b]
  BY DEF Ends
<1>3. \A b \in BlocksOf(s) : \A k \in 1 .. Len(u.preds[b]) : OldEdge(s, u.preds[b][k], b)
  BY <1>2, AllOld
<1>4. \A b \in BlocksOf(s) : s.term[b].op # "none" => u.term[b].op # "none"
  BY DEF Ends
<1> QED
  BY <1>1, <1>2, <1>3, <1>4 DEF Nearby

-----------------------------------------------------------------------------
(* The constructs below.                                                   *)
\* What NestedPop and NestedStep say together: the construct o that makes the
\* step had l scopes around it, and the others still hold.
Carried(f, s, u, I, O, I2, O2, o, r, sc, n, l) ==
  /\ l \in Nat /\ n = Inside(o, l) /\ EntryKnows(f, s, I, O, o, NamesIn(f, sc, l))
  /\ LetFree(f, sc, o, l)
  /\ \A sc2 : ScopesBelow(sc, sc2, r, l) => Nested(f, u, I2, O2, r, sc2, l)
LEMMA Carries ==
  ASSUME NEW f, NEW s, NEW shut, NEW busy, Core(s, shut, busy), NEW u, NEW I, NEW O, NEW I2, NEW O2,
         NEW c, NEW d, Nearby(s, u, I, O, I2, O2, c, d), NEW q, NEW o, NEW r, OnTop(q, o, r),
         AllOK(r, s, c, shut), AllSpared(r, c, d), NEW sc, NEW n, Nested(f, s, I, O, q, sc, n)
  PROVE  \E l : Carried(f, s, u, I, O, I2, O2, o, r, sc, n, l)
<1>1. PICK l : TopKnows(f, s, I, O, o, r, sc, n, l)
  BY NestedPop
<1>2. Nested(f, s, I, O, r, sc, l)
  BY <1>1 DEF TopKnows
<1>3. ASSUME NEW sc2, ScopesBelow(sc, sc2, r, l)
      PROVE  Nested(f, u, I2, O2, r, sc2, l)
  BY <1>2, <1>3, NestedStep
<1>4. Carried(f, s, u, I, O, I2, O2, o, r, sc, n, l)
  BY <1>1, <1>3 DEF Carried, TopKnows
<1> QED
  BY <1>4

\* The constructs below o do not keep its block, and none is a while.
LEMMA BelowSpared ==
  ASSUME NEW r, NEW o, NEW s, NEW c, NEW shut, Below(r, o, s, c, shut),
         \A i \in 1 .. Len(r) : AnchoredAt(r[i], c)
  PROVE  AllOK(r, s, c, shut) /\ AllSpared(r, c, Kept(o))
<1>1. \A i \in 1 .. Len(r) : EntryOK(r[i], s, c, shut) /\ Apart(o, r[i])
  BY DEF Below
<1>2. \A i \in 1 .. Len(r) : Spared(r[i], Kept(o))
  BY <1>1 DEF Spared, Apart
<1> QED
  BY <1>1, <1>2 DEF AllOK, AllSpared

LEMMA BodiedAnchored ==
  ASSUME NEW r, NEW c, Bodied(r) \/ Len(r) = 0
  PROVE  \A i \in 1 .. Len(r) : AnchoredAt(r[i], c)
<1>1. \A i \in 1 .. Len(r) : r[i].k \in BodyKinds
  <2>1. CASE Bodied(r)
    BY <2>1 DEF Bodied, BodyAt
  <2>2. CASE Len(r) = 0
    BY <2>2
  <2> QED
    BY <2>1, <2>2
<1>2. "while" \notin BodyKinds
  BY DEF BodyKinds, Bodies
<1> QED
  BY <1>1, <1>2 DEF AnchoredAt

LEMMA WaitingAnchored ==
  ASSUME NEW q, NEW c, Waiting(q, c)
  PROVE  \A i \in 1 .. Len(q) : AnchoredAt(q[i], c)
<1>1. PICK w \in 1 .. Len(q) : WaitsAt(q, c, w)
  BY DEF Waiting
<1>2. "while" \notin BodyKinds /\ "while" \notin OperandKinds
  BY DEF BodyKinds, Bodies, OperandKinds
<1>3. Len(q) \in Nat
  BY DEF Waiting, IsRow
<1>4. ASSUME NEW i \in 1 .. Len(q), q[i].k \in {"while"}
      PROVE  q[i].b = c
  <2>1. CASE i < w
    BY <1>1, <1>2, <1>4, <2>1 DEF WaitsAt
  <2>2. CASE i > w
    BY <1>1, <1>2, <1>4, <2>2 DEF WaitsAt, BodyAt
  <2>3. CASE i = w
    BY <1>1, <1>4, <2>3 DEF WaitsAt
  <2> QED
    BY <1>3, <2>1, <2>2, <2>3
<1> QED
  BY <1>4 DEF AnchoredAt

LEMMA TailAnchored ==
  ASSUME NEW q, NEW o, NEW r, OnTop(q, o, r), NEW c, \A i \in 1 .. Len(q) : AnchoredAt(q[i], c)
  PROVE  \A i \in 1 .. Len(r) : AnchoredAt(r[i], c)
BY OnTopSplits

-----------------------------------------------------------------------------
(* The blocks a step makes.                                                *)
LEMMA BringsNew ==
  ASSUME NEW s, NEW u, NEW E, NEW V, Flows(s, u, E, V), NEW e \in BlocksOf(u), e \notin BlocksOf(s),
         NEW O, NEW N, \A p : <<p, e>> \in E => N \subseteq O[p]
  PROVE  Brings(u, O, e, N)
<1>1. ASSUME NEW k \in 1 .. Len(u.preds[e])
      PROVE  <<u.preds[e][k], e>> \in E
  <2>1. <<u.preds[e][k], e>> \in E \/ OldEdge(s, u.preds[e][k], e)
    BY DEF Flows
  <2> QED
    BY <2>1 DEF OldEdge
<1> QED
  BY <1>1 DEF Brings

LEMMA UntouchedNew ==
  ASSUME NEW f, NEW s, NEW u, NEW E, NEW V, Flows(s, u, E, V), NEW e \in BlocksOf(u),
         e \notin BlocksOf(s), NEW I, NEW O, Tables(s, I, O), 1 \in BlocksOf(s)
  PROVE  Untouched(u, I, O, e)
<1>1. e \in Nat \ BlocksOf(s)
  BY DEF BlocksOf
<1>2. I[e] = {} /\ O[e] = {}
  BY <1>1 DEF Tables
<1>3. \A x \in Vars : u.defs[e][x] = NoValue
  BY DEF Flows
<1> QED
  BY <1>2, <1>3 DEF Untouched

\* The tables of blocks that are there already.
LEMMA UntouchedFlows ==
  ASSUME NEW s, NEW u, NEW E, NEW V, Flows(s, u, E, V), NEW e \in BlocksOf(s), NEW I, NEW O,
         Untouched(s, I, O, e)
  PROVE  Untouched(u, I, O, e)
BY DEF Untouched, Flows

LEMMA BringsFlows ==
  ASSUME NEW s, NEW u, NEW E, NEW V, Flows(s, u, E, V), NEW e \in BlocksOf(s), NEW O, NEW N,
         Brings(s, O, e, N), \A p : <<p, e>> \in E => N \subseteq O[p]
  PROVE  Brings(u, O, e, N)
<1>1. BlocksOf(s) \subseteq BlocksOf(u)
  BY FlowsKeepsTypes
<1>2. \A k \in 1 .. Len(u.preds[e]) : <<u.preds[e][k], e>> \in E \/ OldEdge(s, u.preds[e][k], e)
  BY <1>1 DEF Flows
<1>3. ASSUME NEW k \in 1 .. Len(u.preds[e])
      PROVE  N \subseteq O[u.preds[e][k]]
  <2>1. CASE <<u.preds[e][k], e>> \in E
    BY <2>1
  <2>2. CASE OldEdge(s, u.preds[e][k], e)
    BY <2>2 DEF OldEdge, Brings
  <2> QED
    BY <1>2, <2>1, <2>2
<1> QED
  BY <1>3 DEF Brings

LEMMA ParkableFlows ==
  ASSUME NEW s, NEW u, NEW E, NEW V, Flows(s, u, E, V), Parkable(s)
  PROVE  Parkable(u)
<1>1. ValuesOf(s) \subseteq ValuesOf(u)
  BY FlowsKeepsTypes DEF KeepsTypes
<1>2. ASSUME NEW b \in BlocksOf(u), NEW k \in 1 .. Len(u.pending[b])
      PROVE  u.pending[b][k].phi \in ValuesOf(u)
  <2>1. b \notin BlocksOf(s) => Len(u.pending[b]) = 0
    BY DEF Flows
  <2>2. b \in BlocksOf(s) => u.pending[b] = s.pending[b] \/ Len(u.pending[b]) = 0
    BY DEF Flows
  <2>3. Len(u.pending[b]) # 0
    BY <1>2
  <2>4. b \in BlocksOf(s) /\ u.pending[b] = s.pending[b]
    BY <2>1, <2>2, <2>3
  <2> QED
    BY <1>1, <1>2, <2>4 DEF Parkable
<1> QED
  BY <1>2 DEF Parkable

-----------------------------------------------------------------------------
(* The blocks that have not ended.                                         *)
LEMMA ClosedTop ==
  ASSUME NEW s, NEW c, NEW q, NEW o, NEW r, OnTop(q, o, r)
  PROVE  ClosedOver(s, c, {}, q) <=> ClosedOver(s, c, {Kept(o)}, r)
<1>1. /\ 1 .. Len(q) = {1} \cup {k + 1 : k \in 1 .. Len(r)}
      /\ q[1] = o /\ \A k \in 1 .. Len(r) : q[k + 1] = r[k] /\ k + 1 \in 1 .. Len(q)
  BY OnTopSplits
<1>2. ASSUME NEW b
      PROVE  (\E i \in 1 .. Len(q) : Kept(q[i]) = b)
             <=> b \in {Kept(o)} \/ \E i \in 1 .. Len(r) : Kept(r[i]) = b
  <2>1. ASSUME NEW i \in 1 .. Len(q), Kept(q[i]) = b
        PROVE  b \in {Kept(o)} \/ \E k \in 1 .. Len(r) : Kept(r[k]) = b
    <3>1. CASE i = 1
      BY <1>1, <2>1, <3>1
    <3>2. CASE i # 1
      <4>1. PICK k \in 1 .. Len(r) : i = k + 1
        BY <1>1, <3>2
      <4> QED
        BY <1>1, <2>1, <4>1
    <3> QED
      BY <3>1, <3>2
  <2>2. Kept(o) = b => \E i \in 1 .. Len(q) : Kept(q[i]) = b
    BY <1>1
  <2>3. ASSUME NEW k \in 1 .. Len(r), Kept(r[k]) = b
        PROVE  \E i \in 1 .. Len(q) : Kept(q[i]) = b
    BY <1>1, <2>3
  <2> QED
    BY <2>1, <2>2, <2>3
<1> QED
  BY <1>2 DEF ClosedOver

LEMMA ClosedStep ==
  ASSUME NEW s, NEW c, NEW K, NEW r, ClosedOver(s, c, K, r), NEW u, NEW c2, NEW K2,
         \A b \in BlocksOf(u) : u.term[b].op = "none" =>
           \/ b = c2 \/ b \in K2
           \/ b \in BlocksOf(s) /\ s.term[b].op = "none" /\ b # c /\ b \notin K
  PROVE  ClosedOver(u, c2, K2, r)
BY DEF ClosedOver

\* Nothing new is open, but for the block a step goes on in.
LEMMA ClosedSame ==
  ASSUME NEW s, NEW c, NEW q, ClosedOver(s, c, {}, q), NEW u, u.term = s.term
  PROVE  ClosedOver(u, c, {}, q)
BY DEF ClosedOver, BlocksOf

-----------------------------------------------------------------------------
(* How the scopes change.                                                  *)
Pushed(sc, sc2) == sc2 = Append(sc, EmptyScope)
Popped(sc, sc2) == sc2 = SubSeq(sc, 1, Len(sc) - 1)
Cleared(sc, sc2) == sc2 = [sc EXCEPT ![Len(sc)] = EmptyScope]
BoundIn(sc, sc2, x, t) == sc2 = [sc EXCEPT ![Len(sc)][x] = t]
\* sc2 has n of the scopes of sc, and no others that bind a name.
OuterScopes(f, sc, sc2, n) ==
  /\ Len(sc2) = n /\ SameScopes(sc, sc2, n) /\ NoShadow(f, sc2)
  /\ NamesIn(f, sc2, n) = NamesIn(f, sc, n)
LEMMA PushScopes ==
  ASSUME NEW f, NEW sc, ScopesOK(sc), NoShadow(f, sc), NEW sc2, Pushed(sc, sc2)
  PROVE  /\ Len(sc2) = Len(sc) + 1 /\ SameScopes(sc, sc2, Len(sc)) /\ NoShadow(f, sc2)
         /\ NamesIn(f, sc2, Len(sc)) = NamesIn(f, sc, Len(sc))
         /\ NamesIn(f, sc2, Len(sc) + 1) = NamesIn(f, sc, Len(sc))
<1>1. IsRow(sc) /\ Len(sc) \in Nat
  BY DEF ScopesOK, RowOf, IsRow
<1> PICK e : e = EmptyScope
  OBVIOUS
<1>2. /\ Len(sc2) = Len(sc) + 1 /\ \A k \in 1 .. Len(sc) : sc2[k] = sc[k]
      /\ sc2[Len(sc) + 1] = e
  BY <1>1, Back DEF Pushed
<1>3. SameScopes(sc, sc2, Len(sc))
  BY <1>2 DEF SameScopes
<1>4. NamesIn(f, sc2, Len(sc)) = NamesIn(f, sc, Len(sc))
  BY <1>1, <1>3, NamesSame
<1>5. NamesIn(f, sc2, Len(sc) + 1) = NamesIn(f, sc2, Len(sc))
  BY <1>1, <1>2, NamesEmpty
<1>6. \A x \in Vars : e[x] = NoType
  BY DEF EmptyScope
<1>7. ASSUME NEW x \in Vars, NEW i \in 1 .. Len(sc2), sc2[i][x] # NoType
      PROVE  i \in 1 .. Len(sc) /\ sc[i][x] # NoType
  <2>1. i # Len(sc) + 1
    BY <1>2, <1>6, <1>7
  <2> QED
    BY <1>1, <1>2, <1>7, <2>1
<1>8. NoShadow(f, sc2)
  BY <1>7 DEF NoShadow
<1> QED
  BY <1>2, <1>3, <1>4, <1>5, <1>8

LEMMA PopScopes ==
  ASSUME NEW f, NEW sc, ScopesOK(sc), NoShadow(f, sc), NEW n \in Nat, Len(sc) = n + 1,
         NEW sc2, Popped(sc, sc2)
  PROVE  OuterScopes(f, sc, sc2, n)
<1>1. Len(sc2) = n /\ \A k \in 1 .. n : sc2[k] = sc[k]
  <2>1. Len(sc) - 1 = n
    OBVIOUS
  <2>2. sc2 = SubSeq(sc, 1, n)
    BY <2>1 DEF Popped
  <2>3. sc \in Seq([Vars -> Types \cup {NoType}])
    BY RowIsSeq DEF ScopesOK
  <2> QED
    BY <2>2, <2>3
<1>2. SameScopes(sc, sc2, n)
  BY <1>1 DEF SameScopes
<1>3. NamesIn(f, sc2, n) = NamesIn(f, sc, n)
  BY <1>2, NamesSame
<1>4. NoShadow(f, sc2)
  BY <1>1 DEF NoShadow
<1> QED
  BY <1>1, <1>2, <1>3, <1>4 DEF OuterScopes

LEMMA ClearScope ==
  ASSUME NEW f, NEW sc, ScopesOK(sc), NoShadow(f, sc), NEW n \in Nat, Len(sc) = n + 1,
         NEW sc2, Cleared(sc, sc2)
  PROVE  /\ Len(sc2) = n + 1 /\ SameScopes(sc, sc2, n) /\ NoShadow(f, sc2)
         /\ NamesIn(f, sc2, n) = NamesIn(f, sc, n) /\ NamesIn(f, sc2, n + 1) = NamesIn(f, sc, n)
<1>1. IsRow(sc) /\ n + 1 \in 1 .. Len(sc)
  BY DEF ScopesOK, RowOf
<1> PICK e : e = EmptyScope
  OBVIOUS
<1>2. sc2 = [sc EXCEPT ![n + 1] = e]
  BY DEF Cleared
<1>3. /\ Len(sc2) = Len(sc) /\ sc2[n + 1] = e
      /\ \A k \in 1 .. Len(sc) \ {n + 1} : sc2[k] = sc[k]
  BY <1>1, <1>2, RowExcept
<1>4. SameScopes(sc, sc2, n)
  BY <1>3 DEF SameScopes
<1>5. NamesIn(f, sc2, n) = NamesIn(f, sc, n)
  BY <1>4, NamesSame
<1>6. NamesIn(f, sc2, n + 1) = NamesIn(f, sc2, n)
  BY <1>3, NamesEmpty
<1>7. \A x \in Vars : e[x] = NoType
  BY DEF EmptyScope
<1>8. ASSUME NEW x \in Vars, NEW i \in 1 .. Len(sc2), sc2[i][x] # NoType
      PROVE  i \in 1 .. Len(sc) /\ sc[i][x] # NoType
  BY <1>3, <1>7, <1>8
<1>9. NoShadow(f, sc2)
  BY <1>8 DEF NoShadow
<1> QED
  BY <1>3, <1>4, <1>5, <1>6, <1>9

LEMMA BindScope ==
  ASSUME NEW f \in BOOLEAN, NEW sc, ScopesOK(sc), NoShadow(f, sc), Len(sc) # 0, NEW x \in Vars,
         f \/ \A j \in 1 .. Len(sc) : j # Len(sc) => sc[j][x] = NoType,
         NEW t, NEW sc2, BoundIn(sc, sc2, x, t)
  PROVE  /\ Len(sc2) = Len(sc) /\ NoShadow(f, sc2)
         /\ \A i \in 1 .. Len(sc) : i # Len(sc) => sc2[i] = sc[i]
         /\ \A p \in NamesIn(f, sc2, Len(sc)) :
              p = <<x, Kind(f, t)>> \/ (p[1] # x /\ p \in NamesIn(f, sc, Len(sc)))
<1> PICK n : n = Len(sc)
  OBVIOUS
<1>1. IsRow(sc) /\ n \in 1 .. Len(sc) /\ n = Len(sc)
  BY DEF ScopesOK, RowOf, IsRow
<1>2. sc2 = [sc EXCEPT ![n] = [sc[n] EXCEPT ![x] = t]]
  BY <1>1 DEF BoundIn
<1>3. /\ Len(sc2) = n /\ sc2[n] = [sc[n] EXCEPT ![x] = t]
      /\ \A k \in 1 .. n \ {n} : sc2[k] = sc[k]
  BY <1>1, <1>2, RowExcept
<1>4. sc[n] \in [Vars -> Types \cup {NoType}]
  BY <1>1 DEF ScopesOK, RowOf
<1>5. sc2[n][x] = t /\ \A y \in Vars \ {x} : sc2[n][y] = sc[n][y]
  BY <1>3, <1>4
<1>6. \A i \in 1 .. n : \A y \in Vars : y # x => sc2[i][y] = sc[i][y]
  BY <1>3, <1>5
<1>7. f \/ \A i \in 1 .. n : i # n => sc2[i][x] = NoType
  BY <1>1, <1>3
<1>8. NoShadow(f, sc2)
  <2>1. CASE f
    BY <2>1 DEF NoShadow
  <2>2. CASE ~f
    <3>1. ASSUME NEW y \in Vars, NEW i \in 1 .. n, NEW j \in 1 .. n, sc2[i][y] # NoType, sc2[j][y] # NoType
          PROVE  i = j
      <4>1. CASE y = x
        BY <1>7, <2>2, <3>1, <4>1
      <4>2. CASE y # x
        <5>1. sc[i][y] # NoType /\ sc[j][y] # NoType
          BY <1>6, <3>1, <4>2
        <5> QED
          BY <1>1, <2>2, <5>1 DEF NoShadow
      <4> QED
        BY <4>1, <4>2
    <3> QED
      BY <1>3, <3>1 DEF NoShadow
  <2> QED
    BY <2>1, <2>2
<1>9. ASSUME NEW p \in NamesIn(f, sc2, n)
      PROVE  p = <<x, Kind(f, t)>> \/ (p[1] # x /\ p \in NamesIn(f, sc, n))
  <2>1. p \in Pairs
    BY DEF NamesIn
  <2>2. PICK i \in 1 .. n : sc2[i][p[1]] # NoType /\ p[2] = Kind(f, sc2[i][p[1]])
    BY DEF NamesIn
  <2>3. p[1] \in Vars /\ p = <<p[1], p[2]>>
    BY <2>1 DEF Pairs
  <2>4. CASE p[1] # x
    <3>1. sc2[i][p[1]] = sc[i][p[1]]
      BY <1>6, <2>3, <2>4
    <3> QED
      BY <2>1, <2>2, <2>4, <3>1 DEF NamesIn
  <2>5. CASE p[1] = x
    <3>1. p[2] = Kind(f, t)
      <4>1. CASE f
        BY <2>2, <4>1 DEF Kind
      <4>2. CASE ~f
        <5>1. i = n
          BY <1>7, <2>2, <2>5, <4>2
        <5> QED
          BY <1>5, <2>2, <2>5, <5>1
      <4> QED
        BY <4>1, <4>2
    <3> QED
      BY <2>3, <2>5, <3>1
  <2> QED
    BY <2>4, <2>5
<1> QED
  BY <1>1, <1>3, <1>8, <1>9

-----------------------------------------------------------------------------
(* How a step's effects come together.                                     *)
LetOK(o, r) == o.k \in {"let"} => Len(r) > 0 /\ r[1].k \in Bodies
LEMMA LetPop ==
  ASSUME NEW q, NEW o, NEW r, OnTop(q, o, r), LetPlaced(q)
  PROVE  LetPlaced(r) /\ LetOK(o, r)
<1>1. /\ Len(r) \in Nat /\ Len(q) = Len(r) + 1 /\ q[1] = o
      /\ \A k \in 1 .. Len(r) : q[k + 1] = r[k] /\ k + 1 \in 1 .. Len(q)
  BY OnTopSplits
<1>2. ASSUME NEW i \in 1 .. Len(r), r[i].k \in {"let"}
      PROVE  i + 1 \in 1 .. Len(r) /\ r[i + 1].k \in Bodies
  <2>1. q[i + 1].k \in {"let"} /\ i + 1 \in 1 .. Len(q)
    BY <1>1, <1>2
  <2>2. (i + 1) + 1 \in 1 .. Len(q) /\ q[(i + 1) + 1].k \in Bodies
    BY <2>1 DEF LetPlaced
  <2>3. i + 1 \in 1 .. Len(r)
    BY <1>1, <2>2
  <2> QED
    BY <1>1, <2>2, <2>3
<1>3. LetOK(o, r)
  <2>1. SUFFICES ASSUME o.k \in {"let"} PROVE Len(r) > 0 /\ r[1].k \in Bodies
    BY DEF LetOK
  <2>2. 1 \in 1 .. Len(q)
    BY <1>1
  <2>3. 1 + 1 \in 1 .. Len(q) /\ q[1 + 1].k \in Bodies
    BY <1>1, <2>1, <2>2 DEF LetPlaced
  <2>4. 1 \in 1 .. Len(r)
    BY <1>1, <2>3
  <2> QED
    BY <1>1, <2>3, <2>4
<1> QED
  BY <1>2, <1>3 DEF LetPlaced

LEMMA LetPush ==
  ASSUME NEW q, NEW o, NEW r, OnTop(q, o, r), LetPlaced(r), LetOK(o, r)
  PROVE  LetPlaced(q)
<1>1. /\ Len(r) \in Nat /\ Len(q) = Len(r) + 1 /\ q[1] = o
      /\ 1 .. Len(q) = {1} \cup {k + 1 : k \in 1 .. Len(r)}
      /\ \A k \in 1 .. Len(r) : q[k + 1] = r[k] /\ k + 1 \in 1 .. Len(q)
  BY OnTopSplits
<1>2. ASSUME NEW i \in 1 .. Len(q), q[i].k \in {"let"}
      PROVE  i + 1 \in 1 .. Len(q) /\ q[i + 1].k \in Bodies
  <2>1. CASE i = 1
    <3>1. Len(r) > 0 /\ r[1].k \in Bodies
      BY <1>1, <1>2, <2>1 DEF LetOK
    <3>2. 1 \in 1 .. Len(r)
      BY <1>1, <3>1
    <3> QED
      BY <1>1, <2>1, <3>1, <3>2
  <2>2. CASE i # 1
    <3>1. PICK k \in 1 .. Len(r) : i = k + 1
      BY <1>1, <2>2
    <3>2. r[k].k \in {"let"}
      BY <1>1, <1>2, <3>1
    <3>3. k + 1 \in 1 .. Len(r) /\ r[k + 1].k \in Bodies
      BY <3>2 DEF LetPlaced
    <3>4. q[(k + 1) + 1] = r[k + 1] /\ (k + 1) + 1 \in 1 .. Len(q)
      BY <1>1, <3>3
    <3> QED
      BY <3>1, <3>3, <3>4
  <2> QED
    BY <2>1, <2>2
<1> QED
  BY <1>2 DEF LetPlaced

\* The construct that makes the step has l scopes around it.
LEMMA Popping ==
  ASSUME NEW f, NEW rt, NEW s, NEW c, NEW q, NEW sc, NEW I, NEW O,
         Typed(f, rt, s, c, q, sc, I, O), NEW o, NEW r, OnTop(q, o, r),
         NEW shut, NEW busy, Core(s, shut, busy), Below(r, o, s, c, shut),
         \A i \in 1 .. Len(r) : AnchoredAt(r[i], c),
         NEW u, NEW I2, NEW O2, Nearby(s, u, I, O, I2, O2, c, Kept(o))
  PROVE  \E l : Carried(f, s, u, I, O, I2, O2, o, r, sc, Len(sc), l)
<1>1. AllOK(r, s, c, shut) /\ AllSpared(r, c, Kept(o))
  BY BelowSpared
<1>2. Nested(f, s, I, O, q, sc, Len(sc))
  BY DEF Typed
<1> QED
  BY <1>1, <1>2, Carries

\* What is known of the record and of the current block.
Told(f, rt, s, c, sc, I, O) ==
  /\ f \in BOOLEAN /\ Known(f, s, I, O) /\ Sound(f, s, rt) /\ NoShadow(f, sc)
  /\ s.term[c].op = "none" => NamesIn(f, sc, Len(sc)) \subseteq O[c]
LEMMA TypedParts ==
  ASSUME NEW f, NEW rt, NEW s, NEW c, NEW q, NEW sc, NEW I, NEW O,
         Typed(f, rt, s, c, q, sc, I, O)
  PROVE  /\ Told(f, rt, s, c, sc, I, O) /\ LetPlaced(q) /\ ClosedOver(s, c, {}, q)
         /\ Nested(f, s, I, O, q, sc, Len(sc))
BY DEF Typed, Told

\* o2 takes the place of o.
LEMMA PutOn ==
  ASSUME NEW f, NEW rt, NEW s, NEW u, NEW I, NEW O, NEW I2, NEW O2, NEW o, NEW r, NEW sc, NEW n,
         NEW l, Carried(f, s, u, I, O, I2, O2, o, r, sc, n, l), LetPlaced(r),
         NEW c2, NEW sc2, Told(f, rt, u, c2, sc2, I2, O2), ScopesBelow(sc, sc2, r, l),
         NEW q2, NEW o2, OnTop(q2, o2, r), o2.k \notin {"let"}, Len(sc2) = Inside(o2, l),
         EntryKnows(f, u, I2, O2, o2, NamesIn(f, sc2, l)), ClosedOver(u, c2, {Kept(o2)}, r)
  PROVE  Typed(f, rt, u, c2, q2, sc2, I2, O2)
<1>1. Nested(f, u, I2, O2, r, sc2, l) /\ l \in Nat
  BY DEF Carried
<1>2. LetFree(f, sc2, o2, l)
  BY DEF LetFree
<1>3. TopKnows(f, u, I2, O2, o2, r, sc2, Len(sc2), l)
  BY <1>1, <1>2 DEF TopKnows
<1>4. Nested(f, u, I2, O2, q2, sc2, Len(sc2))
  BY <1>3, NestedPush
<1>5. ClosedOver(u, c2, {}, q2)
  BY ClosedTop
<1>6. LetPlaced(q2)
  BY LetPush DEF LetOK
<1> QED
  BY <1>4, <1>5, <1>6 DEF Typed, Told

\* o is closed.
LEMMA LeaveOff ==
  ASSUME NEW f, NEW rt, NEW s, NEW u, NEW I, NEW O, NEW I2, NEW O2, NEW o, NEW r, NEW sc, NEW n,
         NEW l, Carried(f, s, u, I, O, I2, O2, o, r, sc, n, l), LetPlaced(r),
         NEW c2, NEW sc2, Told(f, rt, u, c2, sc2, I2, O2), ScopesBelow(sc, sc2, r, l),
         Len(sc2) = l, ClosedOver(u, c2, {}, r)
  PROVE  Typed(f, rt, u, c2, r, sc2, I2, O2)
<1>1. Nested(f, u, I2, O2, r, sc2, l)
  BY DEF Carried
<1> QED
  BY <1>1 DEF Typed, Told

\* The constructs stay as they are.
LEMMA StayOn ==
  ASSUME NEW f, NEW rt, NEW s, NEW c, NEW q, NEW sc, NEW I, NEW O,
         Typed(f, rt, s, c, q, sc, I, O), NEW shut, NEW busy, Core(s, shut, busy),
         Stacked(q, s, c, shut), \A i \in 1 .. Len(q) : AnchoredAt(q[i], c),
         NEW u, NEW I2, NEW O2, Nearby(s, u, I, O, I2, O2, c, 0)
  PROVE  Nested(f, u, I2, O2, q, sc, Len(sc))
<1>1. Below(q, Nothing, s, c, shut)
  BY DEF Stacked
<1>2. Kept(Nothing) = 0
  BY NothingOwned
<1>3. AllOK(q, s, c, shut) /\ AllSpared(q, c, Kept(Nothing))
  BY <1>1, BelowSpared
<1>4. AllSpared(q, c, 0)
  BY <1>2, <1>3
<1>5. Nested(f, s, I, O, q, sc, Len(sc))
  BY DEF Typed
<1>6. ScopesBelow(sc, sc, q, Len(sc))
  BY DEF ScopesBelow, SameScopes
<1> QED
  BY <1>3, <1>4, <1>5, <1>6, NestedStep

\* o2 is opened on top of the others.
LEMMA AddOn ==
  ASSUME NEW f, NEW rt, NEW u, NEW I2, NEW O2, NEW r, NEW sc, NEW c2,
         Nested(f, u, I2, O2, r, sc, Len(sc)), LetPlaced(r), Len(sc) \in Nat,
         Told(f, rt, u, c2, sc, I2, O2),
         NEW q2, NEW o2, OnTop(q2, o2, r), o2.k \notin Bodies, LetOK(o2, r),
         EntryKnows(f, u, I2, O2, o2, NamesIn(f, sc, Len(sc))), LetFree(f, sc, o2, Len(sc)),
         ClosedOver(u, c2, {Kept(o2)}, r)
  PROVE  Typed(f, rt, u, c2, q2, sc, I2, O2)
<1>1. Inside(o2, Len(sc)) = Len(sc)
  BY DEF Inside
<1>2. TopKnows(f, u, I2, O2, o2, r, sc, Len(sc), Len(sc))
  BY <1>1 DEF TopKnows
<1>3. Nested(f, u, I2, O2, q2, sc, Len(sc))
  BY <1>2, NestedPush
<1>4. ClosedOver(u, c2, {}, q2)
  BY ClosedTop
<1>5. LetPlaced(q2)
  BY LetPush
<1> QED
  BY <1>3, <1>4, <1>5 DEF Typed, Told

-----------------------------------------------------------------------------
(* The steps that make no block.                                           *)
LEMMA SoundSame ==
  ASSUME NEW f, NEW s, NEW u, u.inst = s.inst, Len(u.term) = Len(s.term), NEW rt, Sound(f, s, rt),
         \A b \in BlocksOf(s) : u.term[b] = s.term[b] \/ TermSound(f, s, u.term[b], rt)
  PROVE  Sound(f, u, rt) /\ KeepsTypes(s, u)
<1>1. KeepsTypes(s, u) /\ ValuesOf(u) = ValuesOf(s) /\ BlocksOf(u) = BlocksOf(s)
  BY DEF KeepsTypes, ValuesOf, BlocksOf
<1>2. \A v \in ValuesOf(u) : InstSound(f, u, u.inst[v])
  BY <1>1, InstSoundKept DEF Sound
<1>3. \A b \in BlocksOf(u) : TermSound(f, s, u.term[b], rt)
  BY <1>1 DEF Sound
<1>4. \A b \in BlocksOf(u) : TermSound(f, u, u.term[b], rt)
  BY <1>1, <1>3, TermSoundKept
<1> QED
  BY <1>1, <1>2, <1>4 DEF Sound

LEMMA KnownSame ==
  ASSUME NEW f, NEW s, NEW u, u.inst = s.inst, Len(u.term) = Len(s.term), u.preds = s.preds,
         u.defs = s.defs, u.pending = s.pending, NEW I, NEW O, Known(f, s, I, O)
  PROVE  Known(f, u, I, O)
<1>1. BlocksOf(u) = BlocksOf(s) /\ ValuesOf(u) = ValuesOf(s)
  BY DEF BlocksOf, ValuesOf
<1>2. Tables(u, I, O)
  BY <1>1 DEF Known, Tables
<1>3. \A b \in BlocksOf(s) : BoundAs(f, s, I, O, b) <=> BoundAs(f, u, I, O, b)
  BY <1>1 DEF BoundAs, HasKind
<1>4. \A b \in BlocksOf(s) : FromAll(s, I, O, b) <=> FromAll(u, I, O, b)
  BY DEF FromAll
<1>5. \A b \in BlocksOf(s) : ParkedIn(f, s, I, b) <=> ParkedIn(f, u, I, b)
  BY DEF ParkedIn, ParkedPair
<1> QED
  BY <1>1, <1>2, <1>3, <1>4, <1>5 DEF Known

LEMMA QuietNat ==
  ASSUME NEW s, NEW c, NEW q, Quiet(s, c, q)
  PROVE  BlocksOf(s) \subseteq Nat /\ c \in BlocksOf(s) /\ Core(s, s.sealed, {}) /\ Shaped(s)
         /\ Parkable(s) /\ c \in Nat
<1>1. Core(s, s.sealed, {}) /\ c \in BlocksOf(s)
  BY DEF Quiet
<1> QED
  BY <1>1, CoreParkable DEF BlocksOf

LEMMA NoKept ==
  ASSUME NEW o, o.k \notin {"then", "else", "elseif", "loop", "and", "or"}
  PROVE  Kept(o) = 0
BY DEF Kept

\* A construct without a block of its own.
LEMMA ClosedPlain ==
  ASSUME NEW s, NEW c, NEW q, NEW o, NEW r, OnTop(q, o, r), Kept(o) = 0
  PROVE  ClosedOver(s, c, {}, q) <=> ClosedOver(s, c, {}, r)
<1>1. ClosedOver(s, c, {}, q) <=> ClosedOver(s, c, {0}, r)
  BY ClosedTop
<1>2. 0 \notin BlocksOf(s)
  BY DEF BlocksOf
<1> QED
  BY <1>1, <1>2 DEF ClosedOver

\* A step in the current block that does not use o's block.
StepHere(f, rt, s, c, q, sc, I, O, o, r) ==
  /\ Typed(f, rt, s, c, q, sc, I, O) /\ Quiet(s, c, q) /\ OnTop(q, o, r) /\ Kept(o) = 0
  /\ (\A i \in 1 .. Len(r) : AnchoredAt(r[i], c)) /\ IsRow(sc) /\ ScopesOK(sc)
\* What it changes, and what that leaves the others.
StepMakes(s, u, c, O, O2) ==
  /\ KeepsTypes(s, u) /\ u.term = s.term /\ u.preds = s.preds
  /\ \A b \in BlocksOf(s) \ {c} : u.defs[b] = s.defs[b]
  /\ \A b \in Nat : b # c => O2[b] = O[b]
  /\ s.term[c].op = "none" \/ O2 = O
StepLeaves(f, s, c, u, I, O, O2, o, r, sc) ==
  /\ \E l : Carried(f, s, u, I, O, I, O2, o, r, sc, Len(sc), l)
  /\ ClosedOver(u, c, {}, r) /\ LetPlaced(r) /\ LetOK(o, r)
LEMMA StepCarries ==
  ASSUME NEW f, NEW rt, NEW s, NEW c, NEW q, NEW sc, NEW I, NEW O, NEW o, NEW r,
         StepHere(f, rt, s, c, q, sc, I, O, o, r),
         NEW u, NEW O2, StepMakes(s, u, c, O, O2)
  PROVE  StepLeaves(f, s, c, u, I, O, O2, o, r, sc)
<1>1. /\ Typed(f, rt, s, c, q, sc, I, O) /\ OnTop(q, o, r) /\ Kept(o) = 0
      /\ \A i \in 1 .. Len(r) : AnchoredAt(r[i], c)
  BY DEF StepHere
<1>2. QuietBelow(r, o, s, c) /\ BlocksOf(s) \subseteq Nat
  BY <1>1, QuietPop, QuietNat DEF StepHere
<1>3. Core(s, s.sealed, {}) /\ Below(r, o, s, c, s.sealed)
  BY <1>2 DEF QuietBelow
<1>4. Nearby(s, u, I, O, I, O2, c, Kept(o))
  BY <1>2, NearbyStill DEF StepMakes
<1>5. \E l : Carried(f, s, u, I, O, I, O2, o, r, sc, Len(sc), l)
  BY <1>1, <1>3, <1>4, Popping
<1>6. LetPlaced(q) /\ ClosedOver(s, c, {}, q)
  BY <1>1, TypedParts
<1>7. ClosedOver(s, c, {}, r)
  BY <1>1, <1>6, ClosedPlain
<1>8. ClosedOver(u, c, {}, r)
  BY <1>7, ClosedSame DEF StepMakes
<1>9. LetPlaced(r) /\ LetOK(o, r)
  BY <1>1, <1>6, LetPop
<1> QED
  BY <1>5, <1>8, <1>9 DEF StepLeaves

NamesBecome(f, sc, sc2, x, t) ==
  /\ NoShadow(f, sc2)
  /\ \A p \in NamesIn(f, sc2, Len(sc2)) :
       p = <<x, t>> \/ (p[1] # x /\ p \in NamesIn(f, sc, Len(sc)))
LEMMA BindTold ==
  ASSUME NEW f, NEW rt, NEW s, NEW c, NEW sc, NEW I, NEW O, Told(f, rt, s, c, sc, I, O),
         NEW u, NEW x, NEW v, NEW t, NEW O2, Rebinds(f, s, c, u, x, v, t, O, O2),
         NEW sc2, NamesBecome(f, sc, sc2, x, t)
  PROVE  Told(f, rt, u, c, sc2, I, O2) /\ StepMakes(s, u, c, O, O2)
<1>1. Known(f, s, I, O) /\ Sound(f, s, rt) /\ f \in BOOLEAN
  BY DEF Told
<1>2. s.term[c].op = "none" /\ Binds(s, u, x, c, v)
  BY DEF Rebinds
<1>3. ReboundAt(f, u, c, x, t, I, O, O2)
  BY <1>1, BindKnown
<1>4. /\ u.inst = s.inst /\ u.term = s.term /\ u.preds = s.preds
      /\ \A b \in BlocksOf(s) \ {c} : u.defs[b] = s.defs[b]
  BY <1>2 DEF Binds
<1>5. Sound(f, u, rt) /\ KeepsTypes(s, u)
  BY <1>1, <1>4, SoundSame
<1>6. StepMakes(s, u, c, O, O2)
  BY <1>2, <1>3, <1>4, <1>5 DEF StepMakes, ReboundAt
<1>7. NamesIn(f, sc, Len(sc)) \subseteq O[c]
  BY <1>2 DEF Told
<1>8. NamesIn(f, sc2, Len(sc2)) \subseteq O2[c]
  BY <1>3, <1>7 DEF Rebound, ReboundAt, NamesBecome
<1> QED
  BY <1>1, <1>3, <1>5, <1>6, <1>8 DEF Told, ReboundAt, NamesBecome

LEMMA KindPair ==
  ASSUME NEW f, NEW x \in Vars, NEW t \in Types \cup {NoType}
  PROVE  <<x, Kind(f, t)>> \in Pairs
BY DEF Kind, Pairs

\* The value bound in the current block has the type ty.
ValueBound(f, s, c, u, x, v, ty) ==
  /\ s.term[c].op = "none" /\ x \in Vars /\ ty \in Types \cup {NoType}
  /\ HasKind(f, s, v, Kind(f, ty)) /\ Binds(s, u, x, c, v)
LEMMA BindRebinds ==
  ASSUME NEW f, NEW s, NEW c, NEW q, Quiet(s, c, q), NEW u, NEW x, NEW v, NEW ty,
         ValueBound(f, s, c, u, x, v, ty), NEW O, NEW O2,
         O2 = [O EXCEPT ![c] = Rebound(O[c], x, Kind(f, ty))]
  PROVE  Rebinds(f, s, c, u, x, v, Kind(f, ty), O, O2)
<1>1. Core(s, s.sealed, {}) /\ c \in BlocksOf(s)
  BY QuietNat
<1>2. <<x, Kind(f, ty)>> \in Pairs
  BY KindPair DEF ValueBound
<1> QED
  BY <1>1, <1>2 DEF Rebinds, ValueBound

LEMMA LetTyped ==
  ASSUME NEW f, NEW rt, NEW s, NEW c, NEW q, NEW sc, NEW I, NEW O, NEW o, NEW r,
         StepHere(f, rt, s, c, q, sc, I, O, o, r), o.k \in {"let"}, Bodied(r),
         NEW v, NEW ty, NEW u, ValueBound(f, s, c, u, o.x, v, ty),
         NEW sc2, BoundIn(sc, sc2, o.x, ty)
  PROVE  \E O2 : Typed(f, rt, u, c, r, sc2, I, O2)
<1>t. PICK t : t = Kind(f, ty)
  OBVIOUS
<1>x. PICK x : x = o.x
  OBVIOUS
<1>o. PICK O2 : O2 = [O EXCEPT ![c] = Rebound(O[c], x, t)]
  OBVIOUS
<1>1. /\ Typed(f, rt, s, c, q, sc, I, O) /\ Quiet(s, c, q) /\ OnTop(q, o, r) /\ ScopesOK(sc)
  BY DEF StepHere
<1>2. Told(f, rt, s, c, sc, I, O)
  BY <1>1, TypedParts
<1>3. f \in BOOLEAN /\ NoShadow(f, sc)
  BY <1>2 DEF Told
<1>4. x \in Vars
  BY <1>x DEF ValueBound
<1>5. Rebinds(f, s, c, u, x, v, t, O, O2)
  BY <1>1, <1>t, <1>x, <1>o, BindRebinds
<1>6. ~f => \A j \in 1 .. Len(sc) : j # Len(sc) => sc[j][x] = NoType
  <2>1. PICK l : TopKnows(f, s, I, O, o, r, sc, Len(sc), l)
    BY <1>1, TypedParts, NestedPop
  <2>2. Len(sc) = Inside(o, l) /\ LetFree(f, sc, o, l)
    BY <2>1 DEF TopKnows
  <2>3. Inside(o, l) = l
    BY DEF Bodies, Inside
  <2> QED
    BY <1>x, <2>2, <2>3 DEF LetFree
<1>7. LetOK(o, r)
  BY <1>1, TypedParts, LetPop
<1>8. Len(r) > 0 /\ r[1].k \in Bodies
  BY <1>7 DEF LetOK
<1>9. Len(sc) # 0
  <2>1. PICK l : TopKnows(f, s, I, O, o, r, sc, Len(sc), l)
    BY <1>1, TypedParts, NestedPop
  <2>2. Len(sc) = Inside(o, l) /\ Nested(f, s, I, O, r, sc, l)
    BY <2>1 DEF TopKnows
  <2>3. Inside(o, l) = l
    BY DEF Bodies, Inside
  <2>4. OnTop(r, Head(r), Tail(r))
    BY <1>8, Split DEF Bodied
  <2>5. PICK m : TopKnows(f, s, I, O, Head(r), Tail(r), sc, l, m)
    BY <2>2, <2>4, NestedPop
  <2>6. m \in Nat /\ l = Inside(Head(r), m) /\ Head(r) = r[1]
    BY <2>4, <2>5 DEF TopKnows, OnTop
  <2>7. l = m + 1
    BY <1>8, <2>6 DEF Inside
  <2> QED
    BY <2>2, <2>3, <2>6, <2>7
<1>10. BoundIn(sc, sc2, x, ty)
  BY <1>x
<1>11. /\ Len(sc2) = Len(sc) /\ NoShadow(f, sc2)
       /\ \A i \in 1 .. Len(sc) : i # Len(sc) => sc2[i] = sc[i]
       /\ \A p \in NamesIn(f, sc2, Len(sc)) :
            p = <<x, Kind(f, ty)>> \/ (p[1] # x /\ p \in NamesIn(f, sc, Len(sc)))
  BY <1>1, <1>3, <1>4, <1>6, <1>9, <1>10, BindScope
<1>12. NamesBecome(f, sc, sc2, x, t)
  BY <1>11, <1>t DEF NamesBecome
<1>13. Told(f, rt, u, c, sc2, I, O2) /\ StepMakes(s, u, c, O, O2)
  BY <1>2, <1>5, <1>12, BindTold
<1>14. StepLeaves(f, s, c, u, I, O, O2, o, r, sc)
  BY <1>13, StepCarries
<1>15. PICK l : Carried(f, s, u, I, O, I, O2, o, r, sc, Len(sc), l)
  BY <1>14 DEF StepLeaves
<1>16. ClosedOver(u, c, {}, r) /\ LetPlaced(r)
  BY <1>14 DEF StepLeaves
<1>17. Len(sc2) = l /\ ScopesBelow(sc, sc2, r, l)
  <2>1. Len(sc) = Inside(o, l)
    BY <1>15 DEF Carried
  <2>2. Inside(o, l) = l
    BY DEF Bodies, Inside
  <2> QED
    BY <2>1, <2>2, <1>8, <1>11 DEF ScopesBelow
<1>18. Typed(f, rt, u, c, r, sc2, I, O2)
  BY <1>13, <1>15, <1>16, <1>17, LeaveOff
<1> QED
  BY <1>18

-----------------------------------------------------------------------------
(* Assignments, returns and values.                                        *)
\* A construct that opens no scope is closed.
LEMMA PopTyped ==
  ASSUME NEW f, NEW rt, NEW s, NEW c, NEW q, NEW sc, NEW I, NEW O, NEW o, NEW r,
         StepHere(f, rt, s, c, q, sc, I, O, o, r), o.k \notin Bodies,
         NEW u, NEW O2, StepMakes(s, u, c, O, O2), Told(f, rt, u, c, sc, I, O2)
  PROVE  Typed(f, rt, u, c, r, sc, I, O2)
<1>1. StepLeaves(f, s, c, u, I, O, O2, o, r, sc)
  BY StepCarries
<1>2. PICK l : Carried(f, s, u, I, O, I, O2, o, r, sc, Len(sc), l)
  BY <1>1 DEF StepLeaves
<1>3. ClosedOver(u, c, {}, r) /\ LetPlaced(r)
  BY <1>1 DEF StepLeaves
<1>4. Len(sc) = l
  BY <1>2 DEF Carried, Inside
<1>5. ScopesBelow(sc, sc, r, l)
  BY DEF ScopesBelow, SameScopes
<1> QED
  BY <1>2, <1>3, <1>4, <1>5, LeaveOff

LEMMA NothingMade ==
  ASSUME NEW s, NEW c, NEW O
  PROVE  StepMakes(s, s, c, O, O)
BY DEF StepMakes, KeepsTypes

LEMMA AssignTyped ==
  ASSUME NEW f, NEW rt, NEW s, NEW c, NEW q, NEW sc, NEW I, NEW O, NEW o, NEW r,
         StepHere(f, rt, s, c, q, sc, I, O, o, r), o.k \in {"assign"},
         NEW v, NEW ty, NEW u, ValueBound(f, s, c, u, o.x, v, ty),
         NEW i \in 1 .. Len(sc), sc[i][o.x] = ty, ty # NoType
  PROVE  \E O2 : Typed(f, rt, u, c, r, sc, I, O2)
<1>t. PICK t : t = Kind(f, ty)
  OBVIOUS
<1>x. PICK x : x = o.x
  OBVIOUS
<1>o. PICK O2 : O2 = [O EXCEPT ![c] = Rebound(O[c], x, t)]
  OBVIOUS
<1>1. /\ Typed(f, rt, s, c, q, sc, I, O) /\ Quiet(s, c, q) /\ OnTop(q, o, r) /\ ScopesOK(sc)
  BY DEF StepHere
<1>2. Told(f, rt, s, c, sc, I, O)
  BY <1>1, TypedParts
<1>3. f \in BOOLEAN /\ NoShadow(f, sc)
  BY <1>2 DEF Told
<1>4. x \in Vars
  BY <1>x DEF ValueBound
<1>5. Rebinds(f, s, c, u, x, v, t, O, O2)
  BY <1>1, <1>t, <1>x, <1>o, BindRebinds
<1>6. <<x, t>> \in NamesIn(f, sc, Len(sc))
  BY <1>1, <1>3, <1>4, <1>t, <1>x, NamesLookup
<1>7. Len(sc) \in Nat
  BY <1>1 DEF ScopesOK, IsRow
<1>8. OneEach(NamesIn(f, sc, Len(sc)))
  BY <1>3, <1>7, NamesOne
<1>9. NamesBecome(f, sc, sc, x, t)
  BY <1>3, <1>6, <1>8 DEF NamesBecome, OneEach
<1>10. Told(f, rt, u, c, sc, I, O2) /\ StepMakes(s, u, c, O, O2)
  BY <1>2, <1>5, <1>9, BindTold
<1>11. o.k \notin Bodies
  BY DEF Bodies
<1> QED
  BY <1>10, <1>11, PopTyped

\* The current block ends in a return of a value of the return type.
LEMMA ReturnTyped ==
  ASSUME NEW f, NEW rt, NEW s, NEW c, NEW q, NEW sc, NEW I, NEW O, NEW o, NEW r,
         StepHere(f, rt, s, c, q, sc, I, O, o, r), o.k \in {"return"},
         NEW v, HasKind(f, s, v, Kind(f, rt)), NEW u, NEW t, Ends(s, u, c, t),
         t.op \in {"return"}, t.arg = v, Successors(t) = {}
  PROVE  Typed(f, rt, u, c, r, sc, I, O)
<1>1. /\ Typed(f, rt, s, c, q, sc, I, O) /\ Quiet(s, c, q) /\ OnTop(q, o, r) /\ ScopesOK(sc)
      /\ Kept(o) = 0 /\ \A i \in 1 .. Len(r) : AnchoredAt(r[i], c)
  BY DEF StepHere
<1>2. Told(f, rt, s, c, sc, I, O) /\ LetPlaced(q) /\ ClosedOver(s, c, {}, q)
  BY <1>1, TypedParts
<1>3. Core(s, s.sealed, {}) /\ c \in BlocksOf(s) /\ Shaped(s)
  BY <1>1, QuietNat
<1>4. Below(r, o, s, c, s.sealed)
  BY <1>1, QuietPop DEF QuietBelow
<1>5. Nearby(s, u, I, O, I, O, c, Kept(o))
  BY <1>3, NearbyEnds
<1>6. PICK l : Carried(f, s, u, I, O, I, O, o, r, sc, Len(sc), l)
  BY <1>1, <1>3, <1>4, <1>5, Popping
<1>7. o.k \notin Bodies
  BY DEF Bodies
<1>8. Len(sc) = l /\ ScopesBelow(sc, sc, r, l)
  BY <1>6, <1>7 DEF Carried, Inside, ScopesBelow, SameScopes
<1>9. /\ u.inst = s.inst /\ Len(u.term) = Len(s.term) /\ u.defs = s.defs /\ u.pending = s.pending
      /\ u.term[c] = t /\ \A b \in BlocksOf(s) \ {c} : u.term[b] = s.term[b]
  BY DEF Ends
<1>10. u.preds = s.preds
  <2>1. IsRow(u.preds) /\ IsRow(s.preds) /\ Len(u.preds) = Len(s.preds) /\ Len(s.preds) = Len(s.term)
    BY <1>3 DEF Ends, Shaped
  <2>2. \A k \in 1 .. Len(s.preds) : u.preds[k] = s.preds[k]
    BY <2>1 DEF Ends, BlocksOf
  <2> QED
    BY <2>1, <2>2, RowsEqual
<1>11. TermSound(f, s, t, rt)
  BY DEF TermSound
<1>12. Sound(f, u, rt)
  <2>1. Sound(f, s, rt)
    BY <1>2 DEF Told
  <2>2. \A b \in BlocksOf(s) : u.term[b] = s.term[b] \/ TermSound(f, s, u.term[b], rt)
    BY <1>9, <1>11
  <2> QED
    BY <1>9, <2>1, <2>2, SoundSame
<1>13. Known(f, u, I, O)
  BY <1>2, <1>9, <1>10, KnownSame DEF Told
<1>14. Told(f, rt, u, c, sc, I, O)
  <2>1. u.term[c].op # "none"
    BY <1>9
  <2> QED
    BY <1>2, <1>12, <1>13, <2>1 DEF Told
<1>15. ClosedOver(u, c, {}, r)
  <2>1. ClosedOver(s, c, {}, r)
    BY <1>1, <1>2, ClosedPlain
  <2>2. BlocksOf(u) = BlocksOf(s)
    BY <1>9 DEF BlocksOf
  <2> QED
    BY <1>9, <2>1, <2>2 DEF ClosedOver
<1>16. LetPlaced(r)
  BY <1>1, <1>2, LetPop
<1> QED
  BY <1>6, <1>8, <1>14, <1>15, <1>16, LeaveOff

-----------------------------------------------------------------------------
\* A value is made.
ValueAdded(f, s, u, i) == AddsInst(s, u, i) /\ InstSound(f, s, i)
LEMMA AddTold ==
  ASSUME NEW f, NEW rt, NEW s, NEW c, NEW q, Quiet(s, c, q), NEW sc, NEW I, NEW O,
         Told(f, rt, s, c, sc, I, O), NEW u, NEW i, ValueAdded(f, s, u, i)
  PROVE  /\ Told(f, rt, u, c, sc, I, O) /\ StepMakes(s, u, c, O, O)
         /\ HasKind(f, u, Len(s.inst) + 1, Kind(f, i.ty))
<1>1. Known(f, s, I, O) /\ Sound(f, s, rt)
  BY DEF Told
<1>2. Shaped(s) /\ Parkable(s)
  BY QuietNat
<1>3. AddsInst(s, u, i) /\ InstSound(f, s, i)
  BY DEF ValueAdded
<1>4. /\ Known(f, u, I, O) /\ Sound(f, u, rt) /\ KeepsTypes(s, u)
      /\ Len(s.inst) + 1 \in ValuesOf(u) /\ u.inst[Len(s.inst) + 1] = i
  BY <1>1, <1>2, <1>3, AddKnown
<1>5. u.term = s.term /\ u.preds = s.preds /\ u.defs = s.defs
  BY <1>3 DEF AddsInst
<1>6. StepMakes(s, u, c, O, O)
  BY <1>4, <1>5 DEF StepMakes
<1>7. HasKind(f, u, Len(s.inst) + 1, Kind(f, i.ty))
  BY <1>4 DEF HasKind
<1> QED
  BY <1>4, <1>5, <1>6, <1>7 DEF Told

LEMMA ValueTyped ==
  ASSUME NEW f, NEW rt, NEW s, NEW c, NEW q, Quiet(s, c, q), Waiting(q, c), NEW sc, NEW I, NEW O,
         Typed(f, rt, s, c, q, sc, I, O), NEW u, NEW i, ValueAdded(f, s, u, i)
  PROVE  /\ Typed(f, rt, u, c, q, sc, I, O)
         /\ HasKind(f, u, Len(s.inst) + 1, Kind(f, i.ty))
<1>1. Told(f, rt, s, c, sc, I, O) /\ LetPlaced(q) /\ ClosedOver(s, c, {}, q)
  BY TypedParts
<1>2. /\ Told(f, rt, u, c, sc, I, O) /\ StepMakes(s, u, c, O, O)
      /\ HasKind(f, u, Len(s.inst) + 1, Kind(f, i.ty))
  BY <1>1, AddTold
<1>3. Core(s, s.sealed, {}) /\ BlocksOf(s) \subseteq Nat /\ Stacked(q, s, c, s.sealed)
  BY QuietNat DEF Quiet
<1>4. Nearby(s, u, I, O, I, O, c, 0)
  BY <1>2, <1>3, NearbyStill DEF StepMakes
<1>5. \A k \in 1 .. Len(q) : AnchoredAt(q[k], c)
  BY WaitingAnchored
<1>6. Nested(f, u, I, O, q, sc, Len(sc))
  BY <1>3, <1>4, <1>5, StayOn
<1>7. ClosedOver(u, c, {}, q)
  BY <1>1, <1>2, ClosedSame DEF StepMakes
<1>8. Typed(f, rt, u, c, q, sc, I, O)
  BY <1>1, <1>2, <1>6, <1>7 DEF Told, Typed
<1> QED
  BY <1>2, <1>8

\* Both operands of an operator of two are known: its construct is closed.
LEMMA BinaryTyped ==
  ASSUME NEW f, NEW rt, NEW s, NEW c, NEW q, NEW sc, NEW I, NEW O, NEW o, NEW r,
         StepHere(f, rt, s, c, q, sc, I, O, o, r), o.k \in {"bin"},
         NEW u, NEW i, ValueAdded(f, s, u, i)
  PROVE  /\ Typed(f, rt, u, c, r, sc, I, O)
         /\ HasKind(f, u, Len(s.inst) + 1, Kind(f, i.ty))
<1>1. Typed(f, rt, s, c, q, sc, I, O) /\ Quiet(s, c, q)
  BY DEF StepHere
<1>2. Told(f, rt, s, c, sc, I, O)
  BY <1>1, TypedParts
<1>3. /\ Told(f, rt, u, c, sc, I, O) /\ StepMakes(s, u, c, O, O)
      /\ HasKind(f, u, Len(s.inst) + 1, Kind(f, i.ty))
  BY <1>1, <1>2, AddTold
<1>4. o.k \notin Bodies
  BY DEF Bodies
<1> QED
  BY <1>3, <1>4, PopTyped

\* The left operand, kept by the construct, is an i64.
LEMMA LeftOperand ==
  ASSUME NEW f, NEW rt, NEW s, NEW c, NEW q, NEW sc, NEW I, NEW O, NEW o, NEW r,
         Typed(f, rt, s, c, q, sc, I, O), OnTop(q, o, r), o.k \in {"bin"}
  PROVE  HasKind(f, s, o.v, Kind(f, "i64"))
<1>1. PICK l : TopKnows(f, s, I, O, o, r, sc, Len(sc), l)
  BY TypedParts, NestedPop
<1> QED
  BY <1>1 DEF TopKnows, EntryKnows

-----------------------------------------------------------------------------
\* A construct without a block of its own is opened.
PlainKinds == {"if", "let", "assign", "return", "expr", "name", "bin"}
LEMMA PushTyped ==
  ASSUME NEW f, NEW rt, NEW s, NEW c, NEW r, NEW sc, NEW I, NEW O,
         Typed(f, rt, s, c, r, sc, I, O), Len(sc) \in Nat, NEW q, NEW o, OnTop(q, o, r),
         o.k \in PlainKinds, o.k \in {"let"} => LetOK(o, r) /\ LetFree(f, sc, o, Len(sc)),
         o.k \in {"bin"} => HasKind(f, s, o.v, Kind(f, "i64"))
  PROVE  Typed(f, rt, s, c, q, sc, I, O)
<1>1. /\ Told(f, rt, s, c, sc, I, O) /\ LetPlaced(r) /\ ClosedOver(s, c, {}, r)
      /\ Nested(f, s, I, O, r, sc, Len(sc))
  BY TypedParts
<1>2. Kept(o) = 0 /\ o.k \notin Bodies
  BY DEF PlainKinds, Kept, Bodies
<1>3. ClosedOver(s, c, {Kept(o)}, r)
  BY <1>1 DEF ClosedOver
<1>4. LetOK(o, r) /\ LetFree(f, sc, o, Len(sc))
  BY DEF LetOK, LetFree
<1>5. EntryKnows(f, s, I, O, o, NamesIn(f, sc, Len(sc)))
  BY DEF EntryKnows, PlainKinds
<1> QED
  BY <1>1, <1>2, <1>3, <1>4, <1>5, AddOn

-----------------------------------------------------------------------------
(* The tables when a block is entered.                                     *)
LEMMA CanEnter ==
  ASSUME NEW I, NEW O, NEW e, NEW N
  PROVE  \E I2, O2 : Enters(I, O, e, N, I2, O2)
BY DEF Enters

\* Block e knows the names N, the others what they knew.
Entered(e, N, I, O, I2, O2) ==
  /\ I2[e] = N /\ O2[e] = N
  /\ \A b \in Nat : O[b] \subseteq O2[b] /\ (b # e => I2[b] = I[b] /\ O2[b] = O[b])
LEMMA EnterKnown ==
  ASSUME NEW f, NEW u, NEW I, NEW O, Known(f, u, I, O), NEW shut, NEW busy, Core(u, shut, busy),
         NEW e, NEW N, MayEnter(u, I, O, e, N), NEW I2, NEW O2, Enters(I, O, e, N, I2, O2)
  PROVE  Known(f, u, I2, O2) /\ Entered(e, N, I, O, I2, O2)
<1>1. Shaped(u)
  BY CoreShaped
<1>2. \A b \in BlocksOf(u) : \A k \in 1 .. Len(u.preds[b]) : u.preds[b][k] \in Nat
  <2>1. \A b \in BlocksOf(u) : \A k \in 1 .. Len(u.preds[b]) : u.preds[b][k] \in BlocksOf(u)
    BY OpenNoEdge
  <2>2. BlocksOf(u) \subseteq Nat
    BY DEF BlocksOf
  <2> QED
    BY <2>1, <2>2
<1>3. e \in BlocksOf(u) /\ I2 = [I EXCEPT ![e] = N] /\ N \subseteq Pairs
  BY DEF MayEnter, Enters
<1>4. /\ Known(f, u, I2, O2) /\ O2[e] = N
      /\ \A b \in Nat : O[b] \subseteq O2[b] /\ (b # e => I2[b] = I[b] /\ O2[b] = O[b])
  BY <1>1, <1>2, Enter
<1>5. I2[e] = N
  <2>1. I \in [Nat -> SUBSET Pairs] /\ e \in Nat
    BY <1>3 DEF Known, Tables, BlocksOf
  <2> QED
    BY <1>3, <2>1
<1> QED
  BY <1>4, <1>5 DEF Entered

KnownThere(f, u, e, N, I, O, I2, O2) == Known(f, u, I2, O2) /\ Entered(e, N, I, O, I2, O2)
LEMMA EnterNow ==
  ASSUME NEW f, NEW u, NEW I, NEW O, Known(f, u, I, O), Core(u, u.sealed, {}),
         NEW e, NEW N, MayEnter(u, I, O, e, N)
  PROVE  \E I2, O2 : KnownThere(f, u, e, N, I, O, I2, O2)
<1>1. PICK I2, O2 : Enters(I, O, e, N, I2, O2)
  BY CanEnter
<1>2. Known(f, u, I2, O2) /\ Entered(e, N, I, O, I2, O2)
  BY <1>1, EnterKnown, ZenonT(60)
<1> QED
  BY <1>2 DEF KnownThere

\* The edges of a step bring what their targets count on: those that lead to
\* blocks that are new need not.
EdgesBring(s, E, I, O) == \A b \in BlocksOf(s) : \A p : <<p, b>> \in E => I[b] \subseteq O[p]
LEMMA FlowsKnown ==
  ASSUME NEW f, NEW s, NEW u, NEW E, NEW V, Flows(s, u, E, V), NEW I, NEW O, Known(f, s, I, O),
         EdgesBring(s, E, I, O), Parkable(s)
  PROVE  Known(f, u, I, O)
<1>1. \A b \in Nat : \A p : <<p, b>> \in E => I[b] \subseteq O[p]
  BY DEF EdgesBring, Known, Tables
<1>2. \A b \in BlocksOf(s) : \A k \in 1 .. Len(s.pending[b]) : s.pending[b][k].phi \in ValuesOf(s)
  BY DEF Parkable
<1> QED
  BY <1>1, <1>2, KnownFlows

\* What a block that is entered leaves of the tables.
LEMMA NewLeaves ==
  ASSUME NEW s, NEW I, NEW O, NEW e, NEW N, NEW I2, NEW O2, Entered(e, N, I, O, I2, O2),
         e \notin BlocksOf(s), BlocksOf(s) \subseteq Nat, NEW c, NEW d
  PROVE  TablesKept(s, I, O, I2, O2, c, d)
BY DEF Entered, TablesKept

LEMMA KeptLeaves ==
  ASSUME NEW s, NEW I, NEW O, NEW e, NEW N, NEW I2, NEW O2, Entered(e, N, I, O, I2, O2),
         BlocksOf(s) \subseteq Nat, NEW c, e # c, s.term[e].op = "none"
  PROVE  TablesKept(s, I, O, I2, O2, c, e)
BY DEF Entered, TablesKept

\* Twice.
LEMMA LeavesTwice ==
  ASSUME NEW s, NEW I, NEW O, NEW I1, NEW O1, NEW I2, NEW O2, NEW c, NEW d,
         TablesKept(s, I, O, I1, O1, c, d), TablesKept(s, I1, O1, I2, O2, c, d)
  PROVE  TablesKept(s, I, O, I2, O2, c, d)
BY DEF TablesKept

LEMMA LeavesNone ==
  ASSUME NEW s, NEW I, NEW O, NEW c, NEW d
  PROVE  TablesKept(s, I, O, I, O, c, d)
BY DEF TablesKept

-----------------------------------------------------------------------------
(* The blocks that are open after a step.                                  *)
LEMMA StepEnds ==
  ASSUME NEW s, Core(s, s.sealed, {}), NEW u, NEW shut, NEW busy, Core(u, shut, busy), NEW c,
         NEW E, NEW T, NEW P, Changes(s, u, E, T, P), E \subseteq {c} \cup New(s), Led(s, u),
         NEW h, h = Len(s.term) + 1, h \in BlocksOf(u)
  PROVE  u.term[c].op # "none"
<1>1. Len(s.term) \in Nat /\ h \notin BlocksOf(s) /\ 1 .. h - 1 = BlocksOf(s)
  BY CoreLens DEF BlocksOf
<1>2. PICK p \in 1 .. h - 1 : h \in Successors(u.term[p])
  BY <1>1 DEF Led
<1>3. p \in BlocksOf(s)
  BY <1>1, <1>2
<1>4. Successors(s.term[p]) \subseteq BlocksOf(s)
  BY <1>3, SuccessorsKnown DEF Core, BlocksOf
<1>5. u.term[p] # s.term[p]
  BY <1>1, <1>2, <1>4
<1>6. p \in E
  BY <1>3, <1>5 DEF Changes
<1>7. p \notin New(s)
  BY <1>1, <1>3 DEF New, BlocksOf
<1>8. p = c
  BY <1>6, <1>7
<1>9. p \in BlocksOf(u)
  BY <1>1, <1>3 DEF Changes, Grows, BlocksOf
<1>10. TermOK(u.term[p], Len(u.term), Len(u.inst))
  BY <1>9 DEF Core, TermsOK, BlocksOf
<1>11. u.term[p].op = "none" => Len(u.term[p].to) = 0
  BY <1>10 DEF TermOK
<1>12. Len(u.term[p].to) = 0 => Successors(u.term[p]) = {}
  BY <1>10 DEF TermOK, RowOf, IsRow, Successors
<1> QED
  BY <1>2, <1>8, <1>11, <1>12

\* The open blocks are new ones, B, or were open and are not c.
OpenAfter(s, u, c, B) ==
  \A b \in BlocksOf(u) : u.term[b].op = "none" =>
    b \in B \/ (b \in BlocksOf(s) /\ s.term[b].op = "none" /\ b # c)
LEMMA OpenStep ==
  ASSUME NEW s, NEW u, Keeps(s, u), NEW B, BlocksOf(u) = BlocksOf(s) \cup B,
         NEW c, u.term[c].op # "none"
  PROVE  OpenAfter(s, u, c, B)
BY DEF OpenAfter, Keeps

\* The construct that held K has gone, c2 is current and K2 are kept.
LEMMA ClosedAfter ==
  ASSUME NEW s, NEW u, NEW c, NEW B, OpenAfter(s, u, c, B), NEW K, NEW r, ClosedOver(s, c, K, r),
         NEW c2, NEW K2, K \subseteq K2 \cup {c2}, B \subseteq K2 \cup {c2}
  PROVE  ClosedOver(u, c2, K2, r)
BY DEF ClosedOver, OpenAfter

-----------------------------------------------------------------------------
(* The constructs that make blocks.                                        *)
LEMMA ScopeCount ==
  ASSUME NEW sc, ScopesOK(sc)
  PROVE  Len(sc) \in Nat
BY DEF ScopesOK, RowOf, IsRow

LEMMA NamesTold ==
  ASSUME NEW f, NEW rt, NEW s, NEW c, NEW sc, NEW I, NEW O, Told(f, rt, s, c, sc, I, O),
         ScopesOK(sc), NEW n \in 0 .. Len(sc)
  PROVE  /\ NamesIn(f, sc, n) \subseteq Pairs /\ OneEach(NamesIn(f, sc, n))
         /\ s.term[c].op = "none" => NamesIn(f, sc, n) \subseteq O[c]
<1>1. Len(sc) \in Nat /\ n \in Nat /\ n <= Len(sc)
  BY ScopeCount
<1>2. f \in BOOLEAN /\ NoShadow(f, sc) /\ (s.term[c].op = "none" => NamesIn(f, sc, Len(sc)) \subseteq O[c])
  BY DEF Told
<1>3. OneEach(NamesIn(f, sc, n))
  BY <1>1, <1>2, NamesOne
<1>4. NamesIn(f, sc, n) \subseteq NamesIn(f, sc, Len(sc)) /\ NamesIn(f, sc, n) \subseteq Pairs
  BY <1>1, NamesGrow
<1> QED
  BY <1>2, <1>3, <1>4

LEMMA NewEnters ==
  ASSUME NEW f, NEW s, NEW u, NEW E, NEW V, Flows(s, u, E, V), NEW I, NEW O, Known(f, s, I, O),
         NEW c \in BlocksOf(s), NEW e \in BlocksOf(u), e \notin BlocksOf(s),
         NEW N, N \subseteq Pairs, OneEach(N), \A p : <<p, e>> \in E => N \subseteq O[p]
  PROVE  MayEnter(u, I, O, e, N)
<1>1. Tables(s, I, O)
  BY DEF Known
<1>2. Untouched(u, I, O, e)
  <2>1. 1 \in BlocksOf(s)
    BY DEF BlocksOf, Flows, Grows
  <2> QED
    BY <1>1, <2>1, UntouchedNew
<1>3. Brings(u, O, e, N)
  BY BringsNew
<1>4. e # 1
  BY DEF BlocksOf, Flows, Grows
<1> QED
  BY <1>2, <1>3, <1>4 DEF MayEnter

\* The new header of a while.
LEMMA WhileEnded ==
  ASSUME NEW s, Core(s, s.sealed, {}), NEW c \in BlocksOf(s), s.term[c].op = "none",
         NEW u, NEW h, NEW o, WhileBegun(s, c, u, h, o)
  PROVE  u.term[c].op # "none"
<1>1. PICK w : w = NewBlock(s)
  OBVIOUS
<1>2. Core(w, s.sealed, {}) /\ Extends(s, w) /\ Fresh(w, s.sealed, h)
  BY <1>1, NewBlockStep DEF WhileBegun
<1>3. c \in BlocksOf(w) /\ w.term[c].op = "none" /\ h \in BlocksOf(w)
  BY <1>2, CoreLens DEF Extends, Fresh, BlocksOf
<1>4. TermOK(Jump(h), Len(w.term), Len(w.inst)) /\ Jump(h).op = "jump"
  BY <1>2, <1>3, CoreLens, JumpOK DEF BlocksOf
<1>5. Ends(w, Terminate(w, c, Jump(h)), c, Jump(h))
  BY <1>2, <1>3, <1>4, TerminateEnds
<1> QED
  BY <1>1, <1>4, <1>5 DEF WhileBegun, Ends

LEMMA WhileTyped ==
  ASSUME NEW f, NEW rt, NEW s, NEW c, NEW q, NEW sc, NEW I, NEW O,
         Typed(f, rt, s, c, q, sc, I, O), Quiet(s, c, q), Bodied(q), ScopesOK(sc),
         s.term[c].op = "none", NEW u, NEW h, NEW o, WhileBegun(s, c, u, h, o),
         NEW q2, OnTop(q2, o, q)
  PROVE  \E I2, O2 : Typed(f, rt, u, h, q2, sc, I2, O2)
<1>n. PICK N : N = NamesIn(f, sc, Len(sc))
  OBVIOUS
<1>e. PICK E, V : E = WhileEdges(c, h) /\ V = {}
  OBVIOUS
<1>1. /\ Told(f, rt, s, c, sc, I, O) /\ LetPlaced(q) /\ ClosedOver(s, c, {}, q)
      /\ Nested(f, s, I, O, q, sc, Len(sc))
  BY TypedParts
<1>2. BlocksOf(s) \subseteq Nat /\ c \in BlocksOf(s) /\ Core(s, s.sealed, {}) /\ Shaped(s) /\ Parkable(s)
  BY QuietNat
<1>3. Quiet(u, h, <<o>> \o q) /\ Keeps(s, u) /\ u.term[h].op = "none" /\ o.k = "while" /\ o.b = h
  BY BeginsWhile
<1>4. Core(u, u.sealed, {})
  BY <1>3, QuietNat
<1>5. /\ Flows(s, u, E, V) /\ h \notin BlocksOf(s) /\ h \in BlocksOf(u)
      /\ BlocksOf(u) = BlocksOf(s) \cup {h}
  BY <1>2, <1>e, WhileFlows
<1>6. Len(sc) \in Nat
  BY ScopeCount
<1>7. N \subseteq Pairs /\ OneEach(N) /\ N \subseteq O[c]
  <2>1. Len(sc) \in 0 .. Len(sc)
    BY <1>6
  <2> QED
    BY <1>1, <1>n, <2>1, NamesTold
<1>8. Known(f, s, I, O) /\ Sound(f, s, rt) /\ f \in BOOLEAN /\ NoShadow(f, sc)
  BY <1>1 DEF Told
<1>9. \A p, b : <<p, b>> \in E => p = c /\ b = h
  BY <1>e DEF WhileEdges
<1>10. MayEnter(u, I, O, h, N)
  BY <1>2, <1>5, <1>7, <1>8, <1>9, NewEnters
<1>11. EdgesBring(s, E, I, O)
  BY <1>5, <1>9 DEF EdgesBring
<1>12. Known(f, u, I, O)
  BY <1>2, <1>5, <1>8, <1>11, FlowsKnown
<1>13. PICK I2, O2 : KnownThere(f, u, h, N, I, O, I2, O2)
  BY <1>4, <1>10, <1>12, EnterNow
<1>14. Known(f, u, I2, O2) /\ Entered(h, N, I, O, I2, O2)
  BY <1>13 DEF KnownThere
<1>15. Sound(f, u, rt)
  <2>1. \A w \in V : HasKind(f, s, w, Kind(f, "bool")) \/ HasKind(f, u, w, Kind(f, "bool"))
    BY <1>e
  <2> QED
    BY <1>5, <1>8, <2>1, SoundFlows
<1>16. Told(f, rt, u, h, sc, I2, O2)
  BY <1>8, <1>14, <1>15, <1>n DEF Told, Entered
<1>17. Nearby(s, u, I, O, I2, O2, c, 0)
  <2>1. TablesKept(s, I, O, I2, O2, c, 0)
    BY <1>2, <1>5, <1>14, NewLeaves
  <2>2. EdgesAside(s, E, c, 0)
    BY <1>5, <1>9 DEF EdgesAside
  <2> QED
    BY <1>3, <1>5, <2>1, <2>2, NearbyFlows
<1>18. Nested(f, u, I2, O2, q, sc, Len(sc))
  <2>1. Stacked(q, s, c, s.sealed)
    BY DEF Quiet
  <2>2. \A i \in 1 .. Len(q) : AnchoredAt(q[i], c)
    BY BodiedAnchored
  <2> QED
    BY <1>2, <1>17, <2>1, <2>2, StayOn
<1>19. Kept(o) = 0 /\ o.k \notin Bodies /\ LetOK(o, q) /\ LetFree(f, sc, o, Len(sc))
  BY <1>3 DEF Kept, Bodies, LetOK, LetFree
<1>20. ClosedOver(u, h, {Kept(o)}, q)
  <2>1. u.term[c].op # "none"
    BY <1>2, WhileEnded
  <2>2. OpenAfter(s, u, c, {h})
    BY <1>3, <1>5, <2>1, OpenStep
  <2> QED
    BY <1>1, <2>2, ClosedAfter
<1>21. EntryKnows(f, u, I2, O2, o, NamesIn(f, sc, Len(sc)))
  BY <1>3, <1>14, <1>n DEF EntryKnows, Entered
<1>22. Typed(f, rt, u, h, q2, sc, I2, O2)
  BY <1>1, <1>6, <1>16, <1>18, <1>19, <1>20, <1>21, AddOn
<1> QED
  BY <1>22

-----------------------------------------------------------------------------
(* The bodies of if and while.                                             *)
\* The condition branches: parsing goes on in t, e is entered later.
TwoMade(f, rt, s, c, u, t, e, sc2, I, O, I2, O2, N) ==
  /\ Told(f, rt, u, t, sc2, I2, O2) /\ Nearby(s, u, I, O, I2, O2, c, 0)
  /\ Untouched(u, I2, O2, e) /\ Brings(u, O2, e, N) /\ I2[c] = I[c]
TwoFlowed(s, c, v, u, t, e) ==
  /\ Flows(s, u, TwoEdges(c, t, e), {v}) /\ t \notin BlocksOf(s) /\ e \notin BlocksOf(s) /\ t # e
  /\ BlocksOf(u) = BlocksOf(s) \cup {t, e}
LEMMA TwoWayFlowed ==
  ASSUME NEW s, Shaped(s), NEW c \in BlocksOf(s), NEW v \in ValuesOf(s), NEW u, NEW t, NEW e,
         TwoWay(s, c, v, u, t, e)
  PROVE  TwoFlowed(s, c, v, u, t, e)
BY TwoWayFlows DEF TwoFlowed

\* The construct o2 takes the place of o.
LoopFrom(o, c, e, o2) == o2.b = c /\ o2.c = e /\ o.k \in {"while"} /\ o.b = c
LEMMA BodyKeeps ==
  ASSUME NEW o, NEW c, NEW e, NEW o2, BodyOpened(o, c, e, o2)
  PROVE  /\ o2.k \in {"then", "loop"} /\ Kept(o2) = e /\ o.k \in {"if", "while"}
         /\ o2.k \in {"then"} => o2.b = e
         /\ o2.k \in {"loop"} => LoopFrom(o, c, e, o2)
<1>1. CASE o.k = "if" /\ o2 = Open("then", "", e, 0, NoValue)
  <2>1. o2.k = "then" /\ o2.b = e
    BY <1>1 DEF Open
  <2> QED
    BY <1>1, <2>1 DEF Kept
<1>2. CASE o.k = "while" /\ o.b = c /\ o2 = Open("loop", "", c, e, NoValue)
  <2>1. o2.k = "loop" /\ o2.b = c /\ o2.c = e
    BY <1>2 DEF Open
  <2> QED
    BY <1>2, <2>1 DEF Kept, LoopFrom
<1> QED
  BY <1>1, <1>2 DEF BodyOpened

LEMMA TwoTold ==
  ASSUME NEW f, NEW rt, NEW s, NEW c, NEW q, NEW sc, NEW I, NEW O,
         Told(f, rt, s, c, sc, I, O), Quiet(s, c, q), ScopesOK(sc),
         s.term[c].op = "none", NEW v, HasKind(f, s, v, Kind(f, "bool")),
         NEW u, NEW t, NEW e, TwoWay(s, c, v, u, t, e), Keeps(s, u), Core(u, u.sealed, {}),
         NEW sc2, Pushed(sc, sc2), NEW N, N = NamesIn(f, sc, Len(sc))
  PROVE  \E I2, O2 : TwoMade(f, rt, s, c, u, t, e, sc2, I, O, I2, O2, N)
<1>e. PICK E, V : E = TwoEdges(c, t, e) /\ V = {v}
  OBVIOUS
<1>2. BlocksOf(s) \subseteq Nat /\ c \in BlocksOf(s) /\ Core(s, s.sealed, {}) /\ Shaped(s) /\ Parkable(s)
      /\ c \in Nat
  BY QuietNat
<1>3. v \in ValuesOf(s)
  BY DEF HasKind
<1>5. /\ Flows(s, u, E, V) /\ t \notin BlocksOf(s) /\ e \notin BlocksOf(s) /\ t # e
      /\ BlocksOf(u) = BlocksOf(s) \cup {t, e}
  <2>1. TwoFlowed(s, c, v, u, t, e)
    BY <1>2, <1>3, TwoWayFlowed, ZenonT(60)
  <2> QED
    BY <1>e, <2>1 DEF TwoFlowed
<1>6. Len(sc) \in Nat
  BY ScopeCount
<1>7. N \subseteq Pairs /\ OneEach(N) /\ N \subseteq O[c]
  <2>1. Len(sc) \in 0 .. Len(sc)
    BY <1>6
  <2> QED
    BY <2>1, NamesTold
<1>8. Known(f, s, I, O) /\ Sound(f, s, rt) /\ f \in BOOLEAN /\ NoShadow(f, sc)
  BY DEF Told
<1>9. \A p, b : <<p, b>> \in E => p = c /\ b \in {t, e}
  BY <1>e DEF TwoEdges
<1>10. MayEnter(u, I, O, t, N)
  <2>1. t \in BlocksOf(u)
    BY <1>5
  <2>2. \A p : <<p, t>> \in E => N \subseteq O[p]
    BY <1>7, <1>9
  <2> QED
    BY <1>2, <1>5, <1>7, <1>8, <2>1, <2>2, NewEnters
<1>11. EdgesBring(s, E, I, O)
  BY <1>5, <1>9 DEF EdgesBring
<1>12. Known(f, u, I, O)
  BY <1>2, <1>5, <1>8, <1>11, FlowsKnown
<1>13. PICK I2, O2 : KnownThere(f, u, t, N, I, O, I2, O2)
  BY <1>10, <1>12, EnterNow
<1>14. Known(f, u, I2, O2) /\ Entered(t, N, I, O, I2, O2)
  BY <1>13 DEF KnownThere
<1>15. Sound(f, u, rt)
  <2>1. \A w \in V : HasKind(f, s, w, Kind(f, "bool")) \/ HasKind(f, u, w, Kind(f, "bool"))
    BY <1>e
  <2> QED
    BY <1>5, <1>8, <2>1, SoundFlows
<1>16. Told(f, rt, u, t, sc2, I2, O2)
  <2>1. NoShadow(f, sc2) /\ NamesIn(f, sc2, Len(sc2)) = N
    BY <1>6, <1>8, PushScopes
  <2> QED
    BY <1>8, <1>14, <1>15, <2>1 DEF Told, Entered
<1>17. Nearby(s, u, I, O, I2, O2, c, 0)
  <2>1. TablesKept(s, I, O, I2, O2, c, 0)
    BY <1>2, <1>5, <1>14, NewLeaves
  <2>2. EdgesAside(s, E, c, 0)
    BY <1>5, <1>9 DEF EdgesAside
  <2> QED
    BY <1>5, <2>1, <2>2, NearbyFlows
<1>18. e \in Nat /\ c # t
  BY <1>2, <1>5 DEF BlocksOf, TwoWay
<1>19. Untouched(u, I2, O2, e)
  <2>1. Tables(s, I, O)
    BY <1>8 DEF Known
  <2>3. 1 \in BlocksOf(s)
    BY <1>2, <1>5 DEF BlocksOf, Flows, Grows
  <2>2. Untouched(u, I, O, e)
    BY <1>5, <2>1, <2>3, UntouchedNew
  <2> QED
    BY <1>5, <1>14, <1>18, <2>2 DEF Untouched, Entered
<1>20. Brings(u, O2, e, N)
  <2>1. O2[c] = O[c]
    BY <1>2, <1>14, <1>18 DEF Entered
  <2>2. \A p : <<p, e>> \in E => N \subseteq O2[p]
    BY <1>7, <1>9, <2>1
  <2>3. e \in BlocksOf(u)
    BY <1>5
  <2> QED
    BY <1>5, <2>2, <2>3, BringsNew
<1>21. I2[c] = I[c]
  BY <1>2, <1>14, <1>18 DEF Entered
<1>22. TwoMade(f, rt, s, c, u, t, e, sc2, I, O, I2, O2, N)
  BY <1>16, <1>17, <1>19, <1>20, <1>21 DEF TwoMade
<1> QED
  BY <1>22

LEMMA BodyTyped ==
  ASSUME NEW f, NEW rt, NEW s, NEW c, NEW q, NEW sc, NEW I, NEW O, NEW o, NEW r,
         StepHere(f, rt, s, c, q, sc, I, O, o, r),
         s.term[c].op = "none", NEW v, HasKind(f, s, v, Kind(f, "bool")),
         NEW u, NEW t, NEW e, TwoWay(s, c, v, u, t, e), NEW o2, BodyOpened(o, c, e, o2),
         NEW sc2, Pushed(sc, sc2), NEW q2, OnTop(q2, o2, r)
  PROVE  \E I2, O2 : Typed(f, rt, u, t, q2, sc2, I2, O2)
<1>n. PICK N : N = NamesIn(f, sc, Len(sc))
  OBVIOUS
<1>1. /\ Typed(f, rt, s, c, q, sc, I, O) /\ Quiet(s, c, q) /\ OnTop(q, o, r) /\ ScopesOK(sc)
      /\ Kept(o) = 0 /\ \A i \in 1 .. Len(r) : AnchoredAt(r[i], c)
  BY DEF StepHere
<1>2. /\ Told(f, rt, s, c, sc, I, O) /\ LetPlaced(q) /\ ClosedOver(s, c, {}, q)
  BY <1>1, TypedParts
<1>3. c \in BlocksOf(s) /\ Core(s, s.sealed, {}) /\ Shaped(s) /\ v \in ValuesOf(s)
  BY <1>1, QuietNat DEF HasKind
<1>4. Quiet(u, t, <<o2>> \o r) /\ Keeps(s, u)
  BY <1>1, <1>3, OpensBody
<1>5. Core(u, u.sealed, {})
  BY <1>4, QuietNat
<1>6. PICK I2, O2 : TwoMade(f, rt, s, c, u, t, e, sc2, I, O, I2, O2, N)
  BY <1>1, <1>2, <1>4, <1>5, <1>n, TwoTold, ZenonT(60)
<1>7. /\ Told(f, rt, u, t, sc2, I2, O2) /\ Nearby(s, u, I, O, I2, O2, c, Kept(o))
      /\ Untouched(u, I2, O2, e) /\ Brings(u, O2, e, N) /\ I2[c] = I[c]
  BY <1>1, <1>6 DEF TwoMade
<1>8. Below(r, o, s, c, s.sealed)
  BY <1>1, QuietPop DEF QuietBelow
<1>9. PICK l : Carried(f, s, u, I, O, I2, O2, o, r, sc, Len(sc), l)
  BY <1>1, <1>3, <1>7, <1>8, Popping
<1>10. o.k \in {"if", "while"} /\ o.k \notin Bodies
  BY DEF BodyOpened, Bodies
<1>11. Len(sc) = l /\ l \in Nat /\ EntryKnows(f, s, I, O, o, N)
  BY <1>9, <1>10, <1>n DEF Carried, Inside
<1>12. /\ Len(sc2) = Len(sc) + 1 /\ SameScopes(sc, sc2, Len(sc)) /\ NamesIn(f, sc2, Len(sc)) = N
  BY <1>1, <1>2, <1>n, PushScopes DEF Told
<1>13. ScopesBelow(sc, sc2, r, l)
  BY <1>11, <1>12 DEF ScopesBelow
<1>14. /\ o2.k \in {"then", "loop"} /\ Kept(o2) = e
       /\ o2.k \in {"then"} => o2.b = e
       /\ o2.k \in {"loop"} => o2.b = c /\ o2.c = e /\ o.k \in {"while"} /\ o.b = c
  BY BodyKeeps DEF LoopFrom
<1>15. EntryKnows(f, u, I2, O2, o2, N)
  BY <1>7, <1>11, <1>14 DEF EntryKnows
<1>16. Len(sc2) = Inside(o2, l) /\ o2.k \notin {"let"}
  BY <1>11, <1>12, <1>14 DEF Inside, Bodies
<1>17. ClosedOver(u, t, {Kept(o2)}, r)
  <2>1. ClosedOver(s, c, {}, r)
    BY <1>1, <1>2, ClosedPlain
  <2>2. u.term[c].op # "none" /\ BlocksOf(u) = BlocksOf(s) \cup {t, e}
    <3>1. Forked(s, c, u, t, e)
      BY <1>3, TwoWayForks, ZenonT(60)
    <3> QED
      BY <3>1 DEF Forked
  <2>3. OpenAfter(s, u, c, {t, e})
    BY <1>4, <2>2, OpenStep
  <2>4. ClosedOver(u, t, {e}, r)
    BY <2>1, <2>3, ClosedAfter
  <2> QED
    BY <1>14, <2>4
<1>18. LetPlaced(r)
  BY <1>1, <1>2, LetPop
<1>19. EntryKnows(f, u, I2, O2, o2, NamesIn(f, sc2, l))
  BY <1>11, <1>12, <1>15
<1>20. Typed(f, rt, u, t, q2, sc2, I2, O2)
  BY <1>7, <1>9, <1>13, <1>16, <1>17, <1>18, <1>19, PutOn
<1> QED
  BY <1>20

-----------------------------------------------------------------------------
(* The ends of an if.                                                      *)
\* A step of the construct o, which is on top, in the current block.
StepOn(f, rt, s, c, q, sc, I, O, o, r) ==
  /\ Typed(f, rt, s, c, q, sc, I, O) /\ Quiet(s, c, q) /\ OnTop(q, o, r)
  /\ (\A i \in 1 .. Len(r) : AnchoredAt(r[i], c)) /\ ScopesOK(sc)
LEMMA InsideOne ==
  ASSUME NEW o, NEW l \in Nat, NEW m \in Nat, Inside(o, l) = Inside(o, m)
  PROVE  l = m
BY DEF Inside

\* The names N around an if are known where its arms end.
ArmsKnow(f, s, c, o, I, O, I1, O1, N, a, b) ==
  /\ Known(f, s, I1, O1) /\ TablesKept(s, I, O, I1, O1, c, Kept(o))
  /\ \A p \in {a, b} : s.term[p].op = "none" => N \subseteq O1[p]
LEMMA ThenKnows ==
  ASSUME NEW f, NEW rt, NEW s, NEW c, NEW q, NEW sc, NEW I, NEW O, NEW o, NEW r,
         StepOn(f, rt, s, c, q, sc, I, O, o, r), o.k \in {"then"},
         NEW a, NEW b, Arms(o, c, a, b), NEW N, N \subseteq Pairs, OneEach(N),
         s.term[c].op = "none" => N \subseteq O[c], EntryKnows(f, s, I, O, o, N)
  PROVE  \E I1, O1 : ArmsKnow(f, s, c, o, I, O, I1, O1, N, a, b)
<1>1. Quiet(s, c, q) /\ OnTop(q, o, r) /\ Typed(f, rt, s, c, q, sc, I, O)
  BY DEF StepOn
<1>2. BlocksOf(s) \subseteq Nat /\ c \in BlocksOf(s) /\ Core(s, s.sealed, {}) /\ c \in Nat
  BY <1>1, QuietNat
<1>3. EntryOK(o, s, c, s.sealed) /\ Len(s.term) \in Nat
  BY <1>1, QuietPop, QuietFacts
<1>4. Kept(o) = o.b /\ Kept(o) \in BlocksOf(s) /\ Kept(o) # c /\ s.term[Kept(o)].op = "none"
  BY <1>3, EntryBlocks
<1>e. PICK e : e = Kept(o)
  OBVIOUS
<1>5. /\ e = o.b /\ e \in BlocksOf(s) /\ e # c /\ s.term[e].op = "none" /\ e \in Nat
  BY <1>2, <1>4, <1>e
<1>6. Known(f, s, I, O)
  BY <1>1 DEF Typed
<1>7. Untouched(s, I, O, e) /\ Brings(s, O, e, N)
  BY <1>5 DEF EntryKnows
<1>8. MayEnter(s, I, O, e, N)
  BY <1>5, <1>7 DEF MayEnter, Untouched
<1>9. PICK I1, O1 : KnownThere(f, s, e, N, I, O, I1, O1)
  BY <1>2, <1>6, <1>8, EnterNow
<1>10. Known(f, s, I1, O1) /\ Entered(e, N, I, O, I1, O1)
  BY <1>9 DEF KnownThere
<1>11. TablesKept(s, I, O, I1, O1, c, Kept(o))
  BY <1>2, <1>5, <1>10, <1>e, KeptLeaves
<1>12. \A p \in {a, b} : p = c \/ p = e
  BY <1>5 DEF Arms
<1>13. N \subseteq O1[e] /\ (s.term[c].op = "none" => N \subseteq O1[c])
  BY <1>2, <1>10 DEF Entered
<1>14. \A p \in {a, b} : s.term[p].op = "none" => N \subseteq O1[p]
  BY <1>12, <1>13
<1>15. ArmsKnow(f, s, c, o, I, O, I1, O1, N, a, b)
  BY <1>10, <1>11, <1>14 DEF ArmsKnow
<1> QED
  BY <1>15

LEMMA ArmsReady ==
  ASSUME NEW f, NEW rt, NEW s, NEW c, NEW q, NEW sc, NEW I, NEW O, NEW o, NEW r,
         StepOn(f, rt, s, c, q, sc, I, O, o, r),
         NEW a, NEW b, Arms(o, c, a, b), NEW N, N \subseteq Pairs, OneEach(N),
         s.term[c].op = "none" => N \subseteq O[c], EntryKnows(f, s, I, O, o, N)
  PROVE  \E I1, O1 : ArmsKnow(f, s, c, o, I, O, I1, O1, N, a, b)
<1>1. CASE o.k \in {"then"}
  BY <1>1, ThenKnows
<1>2. CASE o.k \in {"else", "elseif"}
  <2>1. s.term[o.b].op # "none" \/ N \subseteq O[o.b]
    BY <1>2 DEF EntryKnows
  <2>2. \A p \in {a, b} : p = c \/ p = o.b
    BY DEF Arms
  <2>3. \A p \in {a, b} : s.term[p].op = "none" => N \subseteq O[p]
    BY <2>1, <2>2
  <2>4. Known(f, s, I, O)
    BY DEF StepOn, Typed
  <2>5. TablesKept(s, I, O, I, O, c, Kept(o))
    BY LeavesNone
  <2>6. ArmsKnow(f, s, c, o, I, O, I, O, N, a, b)
    BY <2>3, <2>4, <2>5 DEF ArmsKnow
  <2> QED
    BY <2>6
<1> QED
  BY <1>1, <1>2 DEF Arms

\* Both arms have ended once they have met.
LEMMA JoinEnds ==
  ASSUME NEW s, Core(s, s.sealed, {}), NEW a \in BlocksOf(s), NEW b \in BlocksOf(s), a # b,
         NEW u, NEW j, NEW s1, NEW w1, NEW w2, JoinMade(s, a, b, u, j, s1, w1, w2)
  PROVE  u.term[a].op # "none" /\ u.term[b].op # "none"
<1>1. NewBlockMade(s, s1, j) /\ MaybeJumps(s1, w1, a, j) /\ MaybeJumps(w1, w2, b, j)
      /\ u = SealFresh(w2, {j})
  BY DEF JoinMade
<1>2. /\ BlocksOf(s1) = BlocksOf(s) \cup {j} /\ Core(s1, s.sealed, {}) /\ Fresh(s1, s.sealed, j)
      /\ j \notin BlocksOf(s)
  BY <1>1, NewBlocks
<1>3. JumpReady(s1, s.sealed, a, j)
  BY <1>2 DEF JumpReady, Fresh
<1>4. Jumped(s1, s.sealed, w1, a, j)
  BY <1>1, <1>3, JumpMaybe
<1>5. BlocksOf(w1) = BlocksOf(s1) /\ Core(w1, s.sealed, {}) /\ w1.term[a].op # "none"
  BY <1>4 DEF Jumped, BlocksOf
<1>6. JumpReady(w1, s.sealed, b, j)
  BY <1>2, <1>3, <1>5 DEF JumpReady
<1>7. Jumped(w1, s.sealed, w2, b, j)
  BY <1>1, <1>6, JumpMaybe
<1>8. w2.term[b].op # "none" /\ w2.term[a] = w1.term[a]
  BY <1>2, <1>5, <1>7 DEF Jumped
<1>9. u.term = w2.term
  <2>1. IsRecord(w2)
    BY <1>7 DEF Jumped, Core
  <2> QED
    BY <1>1, <2>1 DEF SealFresh, IsRecord
<1> QED
  BY <1>5, <1>8, <1>9

\* The step of the construct o from s to u, in c, leaves the others what they
\* need, and c2 is the block that comes next.
Passed(f, rt, s, u, c, o, c2, sc2, I, O, I2, O2) ==
  Told(f, rt, u, c2, sc2, I2, O2) /\ Nearby(s, u, I, O, I2, O2, c, Kept(o))
\* The scopes after o has been closed: n of them.
Around(f, sc2, N) == NoShadow(f, sc2) /\ NamesIn(f, sc2, Len(sc2)) = N
LEMMA JoinTold ==
  ASSUME NEW f \in BOOLEAN, NEW rt, NEW s, NEW c, NEW o, NEW I, NEW O, NEW I1, NEW O1,
         NEW N, N \subseteq Pairs, OneEach(N), NEW a \in BlocksOf(s), NEW b \in BlocksOf(s), a # b,
         ArmsKnow(f, s, c, o, I, O, I1, O1, N, a, b), Core(s, s.sealed, {}),
         Sound(f, s, rt), NEW u, NEW j, NEW s1, NEW w1, NEW w2, JoinMade(s, a, b, u, j, s1, w1, w2),
         Keeps(s, u), Core(u, u.sealed, {}), NEW sc2, Around(f, sc2, N)
  PROVE  \E I2, O2 : Passed(f, rt, s, u, c, o, j, sc2, I, O, I2, O2)
<1>e. PICK E, V : E = ArmEdges(s, a, b, j) /\ V = {}
  OBVIOUS
<1>1. Shaped(s) /\ Parkable(s) /\ BlocksOf(s) \subseteq Nat
  BY CoreParkable DEF BlocksOf
<1>2. Flows(s, u, E, V) /\ j \notin BlocksOf(s) /\ BlocksOf(u) = BlocksOf(s) \cup {j}
  BY <1>1, <1>e, IfFlows
<1>3. /\ Known(f, s, I1, O1) /\ TablesKept(s, I, O, I1, O1, c, Kept(o))
      /\ \A p \in {a, b} : s.term[p].op = "none" => N \subseteq O1[p]
  BY DEF ArmsKnow
<1>4. \A p, d : <<p, d>> \in E => d = j /\ N \subseteq O1[p]
  BY <1>3, <1>e DEF ArmEdges
<1>5. MayEnter(u, I1, O1, j, N)
  <2>1. j \in BlocksOf(u)
    BY <1>2
  <2>2. \A p : <<p, j>> \in E => N \subseteq O1[p]
    BY <1>4
  <2> QED
    BY <1>2, <1>3, <2>1, <2>2, NewEnters
<1>6. EdgesBring(s, E, I1, O1)
  BY <1>2, <1>4 DEF EdgesBring
<1>7. Known(f, u, I1, O1)
  BY <1>1, <1>2, <1>3, <1>6, FlowsKnown
<1>8. PICK I2, O2 : KnownThere(f, u, j, N, I1, O1, I2, O2)
  BY <1>5, <1>7, EnterNow
<1>9. Known(f, u, I2, O2) /\ Entered(j, N, I1, O1, I2, O2)
  BY <1>8 DEF KnownThere
<1>10. Sound(f, u, rt)
  <2>1. \A w \in V : HasKind(f, s, w, Kind(f, "bool")) \/ HasKind(f, u, w, Kind(f, "bool"))
    BY <1>e
  <2> QED
    BY <1>2, <2>1, SoundFlows
<1>11. Told(f, rt, u, j, sc2, I2, O2)
  BY <1>9, <1>10 DEF Told, Around, Entered
<1>12. TablesKept(s, I1, O1, I2, O2, c, Kept(o))
  BY <1>1, <1>2, <1>9, NewLeaves
<1>13. TablesKept(s, I, O, I2, O2, c, Kept(o))
  BY <1>3, <1>12, LeavesTwice
<1>14. EdgesAside(s, E, c, Kept(o))
  BY <1>2, <1>4 DEF EdgesAside
<1>15. Nearby(s, u, I, O, I2, O2, c, Kept(o))
  BY <1>2, <1>13, <1>14, NearbyFlows
<1>16. Passed(f, rt, s, u, c, o, j, sc2, I, O, I2, O2)
  BY <1>11, <1>15 DEF Passed
<1> QED
  BY <1>16

\* No join: both arms have ended.
LEMMA NoJoinTold ==
  ASSUME NEW f \in BOOLEAN, NEW rt, NEW s, NEW c, NEW o, NEW I, NEW O, NEW I1, NEW O1,
         NEW N, NEW a, NEW b, s.term[a].op # "none",
         ArmsKnow(f, s, c, o, I, O, I1, O1, N, a, b), Core(s, s.sealed, {}),
         Sound(f, s, rt), Keeps(s, s), NEW sc2, Around(f, sc2, N)
  PROVE  Passed(f, rt, s, s, c, o, a, sc2, I, O, I1, O1)
<1>e. PICK E, V : E = {} /\ V = {}
  OBVIOUS
<1>1. Flows(s, s, E, V)
  BY CoreShaped, NothingFlows
<1>2. Known(f, s, I1, O1) /\ TablesKept(s, I, O, I1, O1, c, Kept(o))
  BY DEF ArmsKnow
<1>3. EdgesAside(s, E, c, Kept(o))
  BY <1>e DEF EdgesAside
<1>4. Nearby(s, s, I, O, I1, O1, c, Kept(o))
  BY <1>1, <1>2, <1>3, NearbyFlows
<1> QED
  BY <1>2, <1>4 DEF Passed, Told, Around

\* The scope a body has opened is closed with it.
ScopesAfter(o, sc, sc2) ==
  (o.k \in Bodies /\ Popped(sc, sc2)) \/ (o.k \notin Bodies /\ sc2 \in {sc})
LEMMA ScopesLeft ==
  ASSUME NEW f, NEW sc, ScopesOK(sc), NoShadow(f, sc), NEW o, NEW l \in Nat,
         Len(sc) = Inside(o, l), NEW sc2, ScopesAfter(o, sc, sc2)
  PROVE  OuterScopes(f, sc, sc2, l)
<1>1. CASE o.k \in Bodies /\ Popped(sc, sc2)
  <2>1. Len(sc) = l + 1
    BY <1>1 DEF Inside
  <2> QED
    BY <1>1, <2>1, PopScopes
<1>2. CASE o.k \notin Bodies /\ sc2 \in {sc}
  <2>1. Len(sc) = l /\ sc2 = sc
    BY <1>2 DEF Inside
  <2> QED
    BY <2>1 DEF OuterScopes, SameScopes
<1> QED
  BY <1>1, <1>2 DEF ScopesAfter

\* Which scopes are around the construct on top.
LEMMA TopScopes ==
  ASSUME NEW f, NEW rt, NEW s, NEW c, NEW q, NEW sc, NEW I, NEW O, NEW o, NEW r,
         StepOn(f, rt, s, c, q, sc, I, O, o, r)
  PROVE  \E l : /\ l \in Nat /\ Len(sc) = Inside(o, l) /\ l \in 0 .. Len(sc)
                /\ EntryKnows(f, s, I, O, o, NamesIn(f, sc, l)) /\ LetFree(f, sc, o, l)
<1>1. OnTop(q, o, r) /\ Typed(f, rt, s, c, q, sc, I, O)
  BY DEF StepOn
<1>2. Nested(f, s, I, O, q, sc, Len(sc))
  BY <1>1, TypedParts
<1>3. PICK l : TopKnows(f, s, I, O, o, r, sc, Len(sc), l)
  BY <1>1, <1>2, NestedPop
<1>4. /\ l \in Nat /\ Len(sc) = Inside(o, l) /\ EntryKnows(f, s, I, O, o, NamesIn(f, sc, l))
      /\ LetFree(f, sc, o, l)
  BY <1>3 DEF TopKnows
<1>5. l \in 0 .. Len(sc)
  BY <1>4 DEF Inside
<1> QED
  BY <1>4, <1>5

LEMMA ArmsPassed ==
  ASSUME NEW f, NEW rt, NEW s, NEW c, NEW q, NEW sc, NEW I, NEW O, NEW o, NEW r,
         StepOn(f, rt, s, c, q, sc, I, O, o, r),
         NEW a, NEW b, Arms(o, c, a, b), NEW u, NEW j, IfClosed(s, a, b, u, j),
         NEW l \in 0 .. Len(sc), EntryKnows(f, s, I, O, o, NamesIn(f, sc, l)),
         NEW sc2, Around(f, sc2, NamesIn(f, sc, l)), Keeps(s, u), Core(u, u.sealed, {})
  PROVE  \E I2, O2 : Passed(f, rt, s, u, c, o, j, sc2, I, O, I2, O2)
<1>n. PICK N : N = NamesIn(f, sc, l)
  OBVIOUS
<1>1. Quiet(s, c, q) /\ OnTop(q, o, r) /\ Typed(f, rt, s, c, q, sc, I, O) /\ ScopesOK(sc)
  BY DEF StepOn
<1>2. /\ BlocksOf(s) \subseteq Nat /\ c \in BlocksOf(s) /\ Core(s, s.sealed, {}) /\ c \in Nat
      /\ EntryOK(o, s, c, s.sealed) /\ Len(s.term) \in Nat
  BY <1>1, QuietNat, QuietPop, QuietFacts
<1>3. Told(f, rt, s, c, sc, I, O)
  BY <1>1, TypedParts
<1>4. N \subseteq Pairs /\ OneEach(N) /\ (s.term[c].op = "none" => N \subseteq O[c])
  BY <1>1, <1>3, <1>n, NamesTold
<1>5. EntryKnows(f, s, I, O, o, N) /\ Around(f, sc2, N)
  BY <1>n
<1>6. PICK I1, O1 : ArmsKnow(f, s, c, o, I, O, I1, O1, N, a, b)
  BY <1>4, <1>5, ArmsReady
<1>7. a \in BlocksOf(s) /\ b \in BlocksOf(s) /\ a # b
  <2>1. o.b \in BlocksOf(s) /\ o.b # c
    BY <1>2, EntryBlocks DEF Arms
  <2> QED
    BY <1>2, <2>1 DEF Arms
<1>8. f \in BOOLEAN /\ Sound(f, s, rt)
  BY <1>3 DEF Told
<1>9. CASE s.term[a].op = "none" \/ s.term[b].op = "none"
  <2>1. PICK s1, w1, w2 : JoinMade(s, a, b, u, j, s1, w1, w2)
    BY <1>2, <1>7, <1>9, IfJoins
  <2> QED
    BY <1>2, <1>4, <1>5, <1>6, <1>7, <1>8, <2>1, JoinTold, ZenonT(60)
<1>10. CASE s.term[a].op # "none" /\ s.term[b].op # "none"
  <2>1. j = a /\ u = s
    BY <1>10 DEF IfClosed
  <2>2. Keeps(s, s)
    BY <2>1
  <2>3. Passed(f, rt, s, s, c, o, a, sc2, I, O, I1, O1)
    BY <1>2, <1>5, <1>6, <1>8, <1>10, <2>2, NoJoinTold, ZenonT(60)
  <2> QED
    BY <2>1, <2>3
<1> QED
  BY <1>9, <1>10

\* What is open when the arms have met.
LEMMA MetClosed ==
  ASSUME NEW s, Core(s, s.sealed, {}), NEW c, NEW o, NEW r, ClosedOver(s, c, {Kept(o)}, r),
         NEW a \in BlocksOf(s), NEW b \in BlocksOf(s), a # b, Arms(o, c, a, b), 
         NEW u, Keeps(s, u), NEW j, IfClosed(s, a, b, u, j)
  PROVE  ClosedOver(u, j, {}, r)
<1>k. PICK k : k = Kept(o)
  OBVIOUS
<1>1. {a, b} = {c, k}
  BY <1>k DEF Arms, Kept
<1>2. CASE s.term[a].op = "none" \/ s.term[b].op = "none"
  <2>1. PICK s1, w1, w2 : JoinMade(s, a, b, u, j, s1, w1, w2)
    BY <1>2, IfJoins
  <2>2. u.term[a].op # "none" /\ u.term[b].op # "none"
    BY <2>1, JoinEnds
  <2>5. Core(s, s.sealed, {}) /\ a \in BlocksOf(s) /\ b \in BlocksOf(s) /\ a # b
    OBVIOUS
  <2>6. JoinDone(s, a, b, u, j)
    BY <1>2, <2>1, <2>5, JoinKeepsCore, ZenonT(60)
  <2>3. BlocksOf(u) = BlocksOf(s) \cup {j}
    BY <2>6 DEF JoinDone
  <2>4. \A d \in BlocksOf(u) : u.term[d].op = "none" =>
           \/ d = j \/ d \in {}
           \/ d \in BlocksOf(s) /\ s.term[d].op = "none" /\ d # c /\ d \notin {Kept(o)}
    BY <1>1, <1>k, <2>2, <2>3 DEF Keeps
  <2> QED
    BY <2>4, ClosedStep
<1>3. CASE s.term[a].op # "none" /\ s.term[b].op # "none"
  <2>1. u = s
    BY <1>3 DEF IfClosed
  <2>4. \A d \in BlocksOf(u) : u.term[d].op = "none" =>
           \/ d = j \/ d \in {}
           \/ d \in BlocksOf(s) /\ s.term[d].op = "none" /\ d # c /\ d \notin {Kept(o)}
    BY <1>1, <1>3, <1>k, <2>1
  <2> QED
    BY <2>4, ClosedStep
<1> QED
  BY <1>2, <1>3

LEMMA IfTyped ==
  ASSUME NEW f, NEW rt, NEW s, NEW c, NEW q, NEW sc, NEW I, NEW O, NEW o, NEW r,
         StepOn(f, rt, s, c, q, sc, I, O, o, r),
         NEW a, NEW b, Arms(o, c, a, b), NEW u, NEW j, IfClosed(s, a, b, u, j),
         NEW sc2, ScopesAfter(o, sc, sc2)
  PROVE  \E I2, O2 : Typed(f, rt, u, j, r, sc2, I2, O2)
<1>1. /\ Quiet(s, c, q) /\ OnTop(q, o, r) /\ Typed(f, rt, s, c, q, sc, I, O) /\ ScopesOK(sc)
      /\ \A i \in 1 .. Len(r) : AnchoredAt(r[i], c)
  BY DEF StepOn
<1>2. Quiet(u, j, r) /\ Keeps(s, u)
  BY <1>1, ClosesIf
<1>3. Core(u, u.sealed, {}) /\ Core(s, s.sealed, {})
  BY <1>1, <1>2, QuietNat
<1>4. PICK l : /\ l \in Nat /\ Len(sc) = Inside(o, l) /\ l \in 0 .. Len(sc)
               /\ EntryKnows(f, s, I, O, o, NamesIn(f, sc, l)) /\ LetFree(f, sc, o, l)
  BY TopScopes
<1>5. Told(f, rt, s, c, sc, I, O) /\ LetPlaced(q) /\ ClosedOver(s, c, {}, q)
  BY <1>1, TypedParts
<1>6. NoShadow(f, sc)
  BY <1>5 DEF Told
<1>7. OuterScopes(f, sc, sc2, l)
  BY <1>1, <1>4, <1>6, ScopesLeft
<1>8. /\ Len(sc2) = l /\ SameScopes(sc, sc2, l) /\ Around(f, sc2, NamesIn(f, sc, l))
  BY <1>7 DEF OuterScopes, Around
<1>9. PICK I2, O2 : Passed(f, rt, s, u, c, o, j, sc2, I, O, I2, O2)
  BY <1>2, <1>3, <1>4, <1>8, ArmsPassed
<1>10. Told(f, rt, u, j, sc2, I2, O2) /\ Nearby(s, u, I, O, I2, O2, c, Kept(o))
  BY <1>9 DEF Passed
<1>11. Below(r, o, s, c, s.sealed) /\ EntryOK(o, s, c, s.sealed)
  BY <1>1, QuietPop DEF QuietBelow
<1>12. PICK m : Carried(f, s, u, I, O, I2, O2, o, r, sc, Len(sc), m)
  BY <1>1, <1>3, <1>10, <1>11, Popping
<1>13. m = l
  <2>1. m \in Nat /\ Len(sc) = Inside(o, m)
    BY <1>12 DEF Carried
  <2> QED
    BY <1>4, <2>1, InsideOne
<1>14. ScopesBelow(sc, sc2, r, m) /\ Len(sc2) = m
  BY <1>8, <1>13 DEF ScopesBelow
<1>15. a \in BlocksOf(s) /\ b \in BlocksOf(s) /\ a # b
  <2>1. c \in BlocksOf(s) /\ Len(s.term) \in Nat
    BY <1>1, QuietNat, QuietFacts
  <2>2. o.b \in BlocksOf(s) /\ o.b # c
    BY <1>11, <2>1, EntryBlocks DEF Arms
  <2> QED
    BY <2>1, <2>2 DEF Arms
<1>16. ClosedOver(u, j, {}, r)
  <2>1. ClosedOver(s, c, {Kept(o)}, r)
    BY <1>1, <1>5, ClosedTop
  <2> QED
    BY <1>2, <1>3, <1>15, <2>1, MetClosed
<1>17. LetPlaced(r)
  BY <1>1, <1>5, LetPop
<1>18. Typed(f, rt, u, j, r, sc2, I2, O2)
  BY <1>10, <1>12, <1>14, <1>16, <1>17, LeaveOff
<1> QED
  BY <1>18

-----------------------------------------------------------------------------
(* The other arm of an if.                                                 *)
\* The scopes in the other arm: the names are those around the if.
TurnScopes(f, sc, sc2, o2, l) ==
  /\ Len(sc2) = Inside(o2, l) /\ SameScopes(sc, sc2, l) /\ NoShadow(f, sc2)
  /\ NamesIn(f, sc2, l) = NamesIn(f, sc, l) /\ NamesIn(f, sc2, Len(sc2)) = NamesIn(f, sc, l)
ArmScopes(o2, sc, sc2) ==
  (o2.k \in {"else"} /\ Cleared(sc, sc2)) \/ (o2.k \in {"elseif"} /\ Popped(sc, sc2))
LEMMA ArmScoped ==
  ASSUME NEW f, NEW sc, ScopesOK(sc), NoShadow(f, sc), NEW o, o.k \in {"then"}, NEW l \in Nat,
         Len(sc) = Inside(o, l), NEW o2, NEW sc2, ArmScopes(o2, sc, sc2)
  PROVE  TurnScopes(f, sc, sc2, o2, l)
<1>1. Len(sc) = l + 1
  BY DEF Inside, Bodies
<1>2. CASE o2.k \in {"else"} /\ Cleared(sc, sc2)
  <2>1. /\ Len(sc2) = l + 1 /\ SameScopes(sc, sc2, l) /\ NoShadow(f, sc2)
        /\ NamesIn(f, sc2, l) = NamesIn(f, sc, l) /\ NamesIn(f, sc2, l + 1) = NamesIn(f, sc, l)
    BY <1>1, <1>2, ClearScope
  <2>2. Inside(o2, l) = l + 1
    BY <1>2 DEF Inside, Bodies
  <2> QED
    BY <2>1, <2>2 DEF TurnScopes
<1>3. CASE o2.k \in {"elseif"} /\ Popped(sc, sc2)
  <2>1. OuterScopes(f, sc, sc2, l)
    BY <1>1, <1>3, PopScopes
  <2>2. Inside(o2, l) = l
    BY <1>3 DEF Inside, Bodies
  <2> QED
    BY <2>1, <2>2 DEF TurnScopes, OuterScopes
<1> QED
  BY <1>2, <1>3 DEF ArmScopes

\* A block e that is there already comes next.
LEMMA TurnPassed ==
  ASSUME NEW f \in BOOLEAN, NEW rt, NEW s, NEW c, NEW o, NEW I, NEW O, NEW I1, NEW O1,
         NEW N, NEW a, NEW b, ArmsKnow(f, s, c, o, I, O, I1, O1, N, a, b), Core(s, s.sealed, {}),
         Sound(f, s, rt), Keeps(s, s), NEW sc2, Around(f, sc2, N)
  PROVE  Passed(f, rt, s, s, c, o, b, sc2, I, O, I1, O1)
<1>e. PICK E, V : E = {} /\ V = {}
  OBVIOUS
<1>1. Flows(s, s, E, V)
  BY CoreShaped, NothingFlows
<1>2. Known(f, s, I1, O1) /\ TablesKept(s, I, O, I1, O1, c, Kept(o))
      /\ (s.term[b].op = "none" => N \subseteq O1[b])
  BY DEF ArmsKnow
<1>3. EdgesAside(s, E, c, Kept(o))
  BY <1>e DEF EdgesAside
<1>4. Nearby(s, s, I, O, I1, O1, c, Kept(o))
  BY <1>1, <1>2, <1>3, NearbyFlows
<1> QED
  BY <1>2, <1>4 DEF Passed, Told, Around

\* What the tables say in the other arm.
Turned(f, rt, s, c, o, sc2, I, O, I2, O2, N) ==
  /\ Passed(f, rt, s, s, c, o, o.b, sc2, I, O, I2, O2)
  /\ s.term[c].op = "none" => N \subseteq O2[c]
LEMMA TurnsTold ==
  ASSUME NEW f, NEW rt, NEW s, NEW c, NEW q, NEW sc, NEW I, NEW O, NEW o, NEW r,
         StepOn(f, rt, s, c, q, sc, I, O, o, r), o.k \in {"then"},
         NEW l \in 0 .. Len(sc), EntryKnows(f, s, I, O, o, NamesIn(f, sc, l)),
         NEW sc2, Around(f, sc2, NamesIn(f, sc, l)), Keeps(s, s)
  PROVE  \E I2, O2 : Turned(f, rt, s, c, o, sc2, I, O, I2, O2, NamesIn(f, sc, l))
<1>n. PICK N : N = NamesIn(f, sc, l)
  OBVIOUS
<1>1. Quiet(s, c, q) /\ OnTop(q, o, r) /\ Typed(f, rt, s, c, q, sc, I, O) /\ ScopesOK(sc)
  BY DEF StepOn
<1>2. Core(s, s.sealed, {})
  BY <1>1, QuietNat
<1>3. Told(f, rt, s, c, sc, I, O)
  BY <1>1, TypedParts
<1>4. N \subseteq Pairs /\ OneEach(N) /\ (s.term[c].op = "none" => N \subseteq O[c])
  BY <1>1, <1>3, <1>n, NamesTold
<1>5. EntryKnows(f, s, I, O, o, N) /\ Around(f, sc2, N)
  BY <1>n
<1>6. Arms(o, c, c, o.b)
  BY DEF Arms
<1>7. PICK I1, O1 : ArmsKnow(f, s, c, o, I, O, I1, O1, N, c, o.b)
  BY <1>4, <1>5, <1>6, ThenKnows
<1>8. f \in BOOLEAN /\ Sound(f, s, rt)
  BY <1>3 DEF Told
<1>9. Passed(f, rt, s, s, c, o, o.b, sc2, I, O, I1, O1)
  BY <1>2, <1>5, <1>7, <1>8, TurnPassed
<1>10. s.term[c].op = "none" => N \subseteq O1[c]
  BY <1>7 DEF ArmsKnow
<1>11. Turned(f, rt, s, c, o, sc2, I, O, I1, O1, N)
  BY <1>9, <1>10 DEF Turned
<1> QED
  BY <1>11, <1>n

LEMMA ElseTyped ==
  ASSUME NEW f, NEW rt, NEW s, NEW c, NEW q, NEW sc, NEW I, NEW O, NEW o, NEW r,
         StepOn(f, rt, s, c, q, sc, I, O, o, r), o.k \in {"then"},
         NEW k, NEW o2, ArmTurned(k, c, o2), NEW sc2, ArmScopes(o2, sc, sc2),
         NEW q2, OnTop(q2, o2, r)
  PROVE  \E I2, O2 : Typed(f, rt, s, o.b, q2, sc2, I2, O2)
<1>1. /\ Quiet(s, c, q) /\ OnTop(q, o, r) /\ Typed(f, rt, s, c, q, sc, I, O) /\ ScopesOK(sc)
      /\ \A i \in 1 .. Len(r) : AnchoredAt(r[i], c)
  BY DEF StepOn
<1>2. Keeps(s, s)
  BY <1>1, TurnsArm
<1>3. Core(s, s.sealed, {})
  BY <1>1, QuietNat
<1>4. PICK l : /\ l \in Nat /\ Len(sc) = Inside(o, l) /\ l \in 0 .. Len(sc)
               /\ EntryKnows(f, s, I, O, o, NamesIn(f, sc, l)) /\ LetFree(f, sc, o, l)
  BY TopScopes
<1>5. Told(f, rt, s, c, sc, I, O) /\ LetPlaced(q) /\ ClosedOver(s, c, {}, q)
  BY <1>1, TypedParts
<1>6. NoShadow(f, sc)
  BY <1>5 DEF Told
<1>7. TurnScopes(f, sc, sc2, o2, l)
  BY <1>1, <1>4, <1>6, ArmScoped
<1>8. /\ Len(sc2) = Inside(o2, l) /\ SameScopes(sc, sc2, l) /\ Around(f, sc2, NamesIn(f, sc, l))
      /\ NamesIn(f, sc2, l) = NamesIn(f, sc, l)
  BY <1>7 DEF TurnScopes, Around
<1>9. PICK I2, O2 : Turned(f, rt, s, c, o, sc2, I, O, I2, O2, NamesIn(f, sc, l))
  BY <1>2, <1>4, <1>8, TurnsTold
<1>10. /\ Told(f, rt, s, o.b, sc2, I2, O2) /\ Nearby(s, s, I, O, I2, O2, c, Kept(o))
       /\ s.term[c].op = "none" => NamesIn(f, sc, l) \subseteq O2[c]
  BY <1>9 DEF Turned, Passed
<1>11. Below(r, o, s, c, s.sealed) /\ EntryOK(o, s, c, s.sealed)
  BY <1>1, QuietPop DEF QuietBelow
<1>12. PICK m : Carried(f, s, s, I, O, I2, O2, o, r, sc, Len(sc), m)
  BY <1>1, <1>3, <1>10, <1>11, Popping
<1>13. m = l
  <2>1. m \in Nat /\ Len(sc) = Inside(o, m)
    BY <1>12 DEF Carried
  <2> QED
    BY <1>4, <2>1, InsideOne
<1>14. ScopesBelow(sc, sc2, r, m) /\ Len(sc2) = Inside(o2, m)
  BY <1>8, <1>13 DEF ScopesBelow
<1>15. o2.k \in {"else", "elseif"} /\ o2.b = c /\ Kept(o2) = c
  BY DEF ArmTurned, Open, Kept
<1>16. EntryKnows(f, s, I2, O2, o2, NamesIn(f, sc2, m))
  <2>1. s.term[o2.b].op # "none" \/ NamesIn(f, sc2, m) \subseteq O2[o2.b]
    BY <1>8, <1>10, <1>13, <1>15
  <2> QED
    BY <1>15, <2>1 DEF EntryKnows
<1>17. ClosedOver(s, o.b, {Kept(o2)}, r)
  <2>1. ClosedOver(s, c, {Kept(o)}, r)
    BY <1>1, <1>5, ClosedTop
  <2>2. Kept(o) = o.b
    BY DEF Kept
  <2> QED
    BY <1>15, <2>1, <2>2 DEF ClosedOver
<1>18. LetPlaced(r) /\ o2.k \notin {"let"}
  BY <1>1, <1>5, <1>15, LetPop
<1>19. Typed(f, rt, s, o.b, q2, sc2, I2, O2)
  BY <1>10, <1>12, <1>14, <1>16, <1>17, <1>18, PutOn
<1> QED
  BY <1>19

-----------------------------------------------------------------------------
(* The end of a loop's body.                                               *)
\* The block in which the loop's body ends has ended, and no other.
LoopEnded(s, u, c) ==
  /\ u.term[c].op # "none" /\ BlocksOf(u) = BlocksOf(s)
  /\ \A b \in BlocksOf(s) \ {c} : u.term[b] = s.term[b]
LEMMA LoopEnds ==
  ASSUME NEW s, NEW c, NEW q, Quiet(s, c, q), NEW o, NEW r, OnTop(q, o, r), o.k \in {"loop"},
         NEW u, NEW wk, LoopClosed(s, c, o.b, u, wk)
  PROVE  LoopEnded(s, u, c)
<1>1. /\ Core(s, s.sealed, {}) /\ c \in BlocksOf(s) /\ EntryOK(o, s, c, s.sealed)
      /\ Len(s.term) \in Nat
  BY QuietPop, QuietFacts DEF Quiet
<1>2. o.b \in BlocksOf(s) /\ o.b \notin s.sealed
  <2>1. o.b \in BlocksOf(s) /\ Unsealed(o) = o.b /\ o.b # 0
    BY <1>1, EntryBlocks DEF Unsealed, BlocksOf
  <2>2. Unsealed(o) # 0 => Unsealed(o) \notin s.sealed
    BY <1>1 DEF EntryOK
  <2> QED
    BY <2>1, <2>2
<1>4. PICK w : MaybeJumps(s, w, c, o.b) /\ TakesPhis(w, u, o.b, wk)
  BY DEF LoopClosed, MaybeJumps, TakesPhis
<1>5. Jumped(s, s.sealed, w, c, o.b)
  <2>1. s.term[o.b].op # "none"
    BY <1>1, EntryBlocks
  <2>2. JumpReady(s, s.sealed, c, o.b)
    BY <1>1, <1>2, <2>1 DEF JumpReady
  <2> QED
    BY <1>4, <2>2, JumpMaybe
<1>6. /\ Len(w.term) = Len(s.term) /\ w.term[c].op # "none"
      /\ \A b \in BlocksOf(s) \ {c} : w.term[b] = s.term[b]
  BY <1>5 DEF Jumped
<1>7. u.term = w.term
  BY <1>4, PendingChanges DEF TakesPhis, ChangesPending
<1> QED
  BY <1>6, <1>7 DEF BlocksOf, LoopEnded

\* What the blocks of a loop are.
LoopBlocks(s, c, h, e) ==
  /\ h \in BlocksOf(s) /\ e \in BlocksOf(s) /\ h # e /\ e # c
  /\ s.term[h].op # "none" /\ s.term[e].op = "none"
LEMMA LoopHas ==
  ASSUME NEW s, NEW c, NEW o, NEW shut, EntryOK(o, s, c, shut), Len(s.term) \in Nat,
         o.k \in {"loop"}
  PROVE  LoopBlocks(s, c, o.b, o.c) /\ Kept(o) = o.c
<1>1. /\ Kept(o) = o.c /\ Kept(o) \in BlocksOf(s) /\ Kept(o) # c /\ s.term[Kept(o)].op = "none"
      /\ o.b \in BlocksOf(s) /\ s.term[o.b].op # "none"
  BY EntryBlocks
<1> QED
  BY <1>1 DEF LoopBlocks

\* The exit, which parsing goes on in, knows the names around the loop.
ExitKnows(f, s, u, c, e, N, I, O, I2, O2) ==
  /\ Known(f, u, I2, O2) /\ O2[e] = N /\ TablesKept(s, I, O, I2, O2, c, e)
  /\ \A b \in Nat : b # e => I2[b] = I[b]
LEMMA LoopExits ==
  ASSUME NEW f, NEW s, NEW c \in BlocksOf(s), NEW I, NEW O, Known(f, s, I, O), Core(s, s.sealed, {}),
         NEW h, NEW e, LoopBlocks(s, c, h, e), NEW N, N \subseteq Pairs, OneEach(N),
         s.term[c].op = "none" => N \subseteq O[c], I[h] \subseteq N,
         Untouched(s, I, O, e), Brings(s, O, e, N),
         NEW u, NEW wk, LoopClosed(s, c, h, u, wk), NEW shut, NEW busy, Core(u, shut, busy)
  PROVE  /\ \E I2, O2 : ExitKnows(f, s, u, c, e, N, I, O, I2, O2)
         /\ Flows(s, u, BackEdges(s, c, h), {})
<1>e. PICK E, V : E = BackEdges(s, c, h) /\ V = {}
  OBVIOUS
<1>1. Shaped(s) /\ Parkable(s) /\ BlocksOf(s) \subseteq Nat
  BY CoreParkable, CoreLens DEF BlocksOf
<1>2. /\ h \in BlocksOf(s) /\ e \in BlocksOf(s) /\ h # e /\ e # c
      /\ s.term[h].op # "none" /\ s.term[e].op = "none"
  BY DEF LoopBlocks
<1>3. Flows(s, u, E, V) /\ BlocksOf(u) = BlocksOf(s)
  BY <1>1, <1>2, <1>e, LoopFlows
<1>4. \A p, b : <<p, b>> \in E => p = c /\ b = h /\ s.term[c].op = "none"
  BY <1>e DEF BackEdges
<1>5. EdgesBring(s, E, I, O)
  BY <1>4 DEF EdgesBring
<1>6. Known(f, u, I, O)
  BY <1>1, <1>3, <1>5, FlowsKnown
<1>7. Untouched(u, I, O, e)
  BY <1>2, <1>3, UntouchedFlows
<1>8. Brings(u, O, e, N)
  <2>1. \A p : <<p, e>> \in E => N \subseteq O[p]
    BY <1>2, <1>4
  <2> QED
    BY <1>2, <1>3, <2>1, BringsFlows
<1>9. MayEnter(u, I, O, e, N)
  BY <1>2, <1>3, <1>7, <1>8 DEF MayEnter, Untouched
<1>10. PICK I2, O2 : Enters(I, O, e, N, I2, O2)
  BY CanEnter
<1>11. Known(f, u, I2, O2) /\ Entered(e, N, I, O, I2, O2)
  BY <1>6, <1>9, <1>10, EnterKnown
<1>12. TablesKept(s, I, O, I2, O2, c, e)
  BY <1>1, <1>2, <1>11, KeptLeaves
<1>13. ExitKnows(f, s, u, c, e, N, I, O, I2, O2)
  BY <1>11, <1>12 DEF ExitKnows, Entered
<1> QED
  BY <1>3, <1>13, <1>e

\* The phis parked in the header wait for names it counts on.
LEMMA LoopSeals ==
  ASSUME NEW f, NEW s, NEW c, NEW q, Quiet(s, c, q), NEW I, NEW O, Known(f, s, I, O),
         NEW h, NEW e, LoopBlocks(s, c, h, e), NEW u, NEW wk, LoopClosed(s, c, h, u, wk),
         NEW I2, NEW O2, \A b \in Nat : b # e => I2[b] = I[b], NEW t
  PROVE  FramesFit(f, u, I2, O2, wk, t)
<1>1. Shaped(s) /\ c \in BlocksOf(s) /\ BlocksOf(s) \subseteq Nat
  BY QuietNat
<1>2. h \in BlocksOf(s) /\ h # e
  BY DEF LoopBlocks
<1>3. wk = <<SealFrame(h, s.pending[h])>> /\ u.inst = s.inst
  BY <1>1, <1>2, LoopFlows
<1>p. PICK w : w = s.pending[h]
  OBVIOUS
<1>4. PICK g : IsSeal(g, h, w) /\ wk = <<g>>
  BY <1>3, <1>p DEF IsSeal
<1>5. g.op \in {"seal"} /\ g.b = h /\ g.rest = w
  <2>1. SealShape(g, h, w)
    BY <1>4, SealFrameIs
  <2> QED
    BY <2>1 DEF SealShape
<1>6. \A k \in 1 .. Len(w) : ParkedPair(f, s, w[k]) \in I[h]
  BY <1>2, <1>p DEF Known, ParkedIn
<1>7. \A k \in 1 .. Len(w) : ParkedPair(f, u, w[k]) \in I2[h]
  BY <1>1, <1>2, <1>3, <1>6 DEF ParkedPair
<1>8. FrameFits(f, u, I2, O2, g, t)
  BY <1>5, <1>7 DEF FrameFits
<1>9. Len(wk) = 1 /\ wk[1] = g
  BY <1>4
<1> QED
  BY <1>8, <1>9 DEF FramesFit

LoopOver(f, rt, u, e, r, sc2, wk, I2, O2) ==
  Typed(f, rt, u, e, r, sc2, I2, O2) /\ \A t : FramesFit(f, u, I2, O2, wk, t)
LEMMA LoopTyped ==
  ASSUME NEW f, NEW rt, NEW s, NEW c, NEW q, NEW sc, NEW I, NEW O, NEW o, NEW r,
         StepOn(f, rt, s, c, q, sc, I, O, o, r), o.k \in {"loop"},
         NEW u, NEW wk, LoopClosed(s, c, o.b, u, wk), NEW sc2, Popped(sc, sc2)
  PROVE  \E I2, O2 : LoopOver(f, rt, u, o.c, r, sc2, wk, I2, O2)
<1>1. /\ Quiet(s, c, q) /\ OnTop(q, o, r) /\ Typed(f, rt, s, c, q, sc, I, O) /\ ScopesOK(sc)
      /\ \A i \in 1 .. Len(r) : AnchoredAt(r[i], c)
  BY DEF StepOn
<1>h. PICK h, e : h = o.b /\ e = o.c
  OBVIOUS
<1>2. Keeps(s, u) /\ Core(u, Shut(u, wk), Busy(wk))
  <2>1. LoopLeft(s, u, o.c, r, wk)
    BY <1>1, LoopCloses
  <2> QED
    BY <2>1 DEF LoopLeft, Held
<1>3. Core(s, s.sealed, {}) /\ c \in BlocksOf(s) /\ BlocksOf(s) \subseteq Nat
  BY <1>1, QuietNat
<1>4. PICK l : /\ l \in Nat /\ Len(sc) = Inside(o, l) /\ l \in 0 .. Len(sc)
               /\ EntryKnows(f, s, I, O, o, NamesIn(f, sc, l)) /\ LetFree(f, sc, o, l)
  BY TopScopes
<1>5. Told(f, rt, s, c, sc, I, O) /\ LetPlaced(q) /\ ClosedOver(s, c, {}, q)
  BY <1>1, TypedParts
<1>6. NoShadow(f, sc) /\ f \in BOOLEAN /\ Known(f, s, I, O) /\ Sound(f, s, rt)
  BY <1>5 DEF Told
<1>n. PICK N : N = NamesIn(f, sc, l)
  OBVIOUS
<1>7. /\ Len(sc2) = l /\ SameScopes(sc, sc2, l) /\ NoShadow(f, sc2)
      /\ NamesIn(f, sc2, Len(sc2)) = N
  <2>1. ScopesAfter(o, sc, sc2)
    BY DEF ScopesAfter, Bodies
  <2>2. OuterScopes(f, sc, sc2, l)
    BY <1>1, <1>4, <1>6, <2>1, ScopesLeft
  <2> QED
    BY <1>n, <2>2 DEF OuterScopes
<1>8. N \subseteq Pairs /\ OneEach(N) /\ (s.term[c].op = "none" => N \subseteq O[c])
  BY <1>1, <1>4, <1>5, <1>n, NamesTold
<1>9. I[h] \subseteq N /\ Untouched(s, I, O, e) /\ Brings(s, O, e, N)
  BY <1>4, <1>h, <1>n DEF EntryKnows
<1>10. Below(r, o, s, c, s.sealed) /\ EntryOK(o, s, c, s.sealed) /\ Len(s.term) \in Nat
  BY <1>1, QuietPop, QuietFacts DEF QuietBelow
<1>11. LoopBlocks(s, c, h, e) /\ Kept(o) = e
  BY <1>10, <1>h, LoopHas
<1>12. LoopClosed(s, c, h, u, wk)
  BY <1>h
<1>13. /\ \E I2, O2 : ExitKnows(f, s, u, c, e, N, I, O, I2, O2)
       /\ Flows(s, u, BackEdges(s, c, h), {})
  BY <1>2, <1>3, <1>6, <1>8, <1>9, <1>11, <1>12, LoopExits, ZenonT(60)
<1>14. PICK I2, O2 : ExitKnows(f, s, u, c, e, N, I, O, I2, O2)
  BY <1>13
<1>15. /\ Known(f, u, I2, O2) /\ O2[e] = N /\ TablesKept(s, I, O, I2, O2, c, e)
       /\ \A b \in Nat : b # e => I2[b] = I[b]
  BY <1>14 DEF ExitKnows
<1>16. Nearby(s, u, I, O, I2, O2, c, Kept(o))
  <2>1. \A p, b : <<p, b>> \in BackEdges(s, c, h) => b = h
    BY DEF BackEdges
  <2>2. s.term[h].op # "none"
    BY <1>11 DEF LoopBlocks
  <2>3. EdgesAside(s, BackEdges(s, c, h), c, e)
    BY <2>1, <2>2 DEF EdgesAside
  <2>4. Nearby(s, u, I, O, I2, O2, c, e)
    BY <1>2, <1>13, <1>15, <2>3, NearbyFlows
  <2> QED
    BY <1>11, <2>4
<1>17. Sound(f, u, rt)
  <2>1. PICK V : V = {}
    OBVIOUS
  <2>2. \A v \in V : HasKind(f, s, v, Kind(f, "bool")) \/ HasKind(f, u, v, Kind(f, "bool"))
    BY <2>1
  <2>3. Flows(s, u, BackEdges(s, c, h), V)
    BY <1>13, <2>1
  <2> QED
    BY <1>6, <2>2, <2>3, SoundFlows
<1>18. Told(f, rt, u, e, sc2, I2, O2)
  BY <1>6, <1>7, <1>15, <1>17 DEF Told
<1>19. PICK m : Carried(f, s, u, I, O, I2, O2, o, r, sc, Len(sc), m)
  BY <1>1, <1>3, <1>10, <1>16, Popping
<1>20. m = l
  <2>1. m \in Nat /\ Len(sc) = Inside(o, m)
    BY <1>19 DEF Carried
  <2> QED
    BY <1>4, <2>1, InsideOne
<1>21. ScopesBelow(sc, sc2, r, m) /\ Len(sc2) = m
  BY <1>7, <1>20 DEF ScopesBelow
<1>22. ClosedOver(u, e, {}, r)
  <2>1. ClosedOver(s, c, {e}, r)
    <3>1. ClosedOver(s, c, {Kept(o)}, r)
      BY <1>1, <1>5, ClosedTop
    <3> QED
      BY <1>11, <3>1
  <2>2. /\ u.term[c].op # "none" /\ BlocksOf(u) = BlocksOf(s)
        /\ \A b \in BlocksOf(s) \ {c} : u.term[b] = s.term[b]
    <3>1. LoopEnded(s, u, c)
      BY <1>1, LoopEnds
    <3> QED
      BY <3>1 DEF LoopEnded
  <2>3. \A d \in BlocksOf(u) : u.term[d].op = "none" =>
           \/ d = e \/ d \in {}
           \/ d \in BlocksOf(s) /\ s.term[d].op = "none" /\ d # c /\ d \notin {e}
    BY <2>2
  <2> QED
    BY <2>1, <2>3, ClosedStep
<1>23. LetPlaced(r)
  BY <1>1, <1>5, LetPop
<1>24. Typed(f, rt, u, e, r, sc2, I2, O2)
  BY <1>18, <1>19, <1>21, <1>22, <1>23, LeaveOff
<1>25. \A t : FramesFit(f, u, I2, O2, wk, t)
  BY <1>1, <1>6, <1>11, <1>12, <1>15, LoopSeals
<1>26. LoopOver(f, rt, u, e, r, sc2, wk, I2, O2)
  BY <1>24, <1>25 DEF LoopOver
<1> QED
  BY <1>26, <1>h

-----------------------------------------------------------------------------
(* The end of the body.                                                    *)
LEMMA EndTyped ==
  ASSUME NEW f, NEW rt, NEW s, NEW c, NEW q, NEW sc, NEW I, NEW O, NEW o, NEW r,
         StepOn(f, rt, s, c, q, sc, I, O, o, r), o.k \in {"fn"}, Len(r) = 0,
         NEW sc2, Popped(sc, sc2)
  PROVE  Typed(f, rt, s, c, r, sc2, I, O)
<1>1. /\ OnTop(q, o, r) /\ Typed(f, rt, s, c, q, sc, I, O) /\ ScopesOK(sc)
  BY DEF StepOn
<1>2. Told(f, rt, s, c, sc, I, O) /\ ClosedOver(s, c, {}, q)
  BY <1>1, TypedParts
<1>3. NoShadow(f, sc) /\ f \in BOOLEAN /\ Known(f, s, I, O) /\ Sound(f, s, rt)
      /\ (s.term[c].op = "none" => NamesIn(f, sc, Len(sc)) \subseteq O[c])
  BY <1>2 DEF Told
<1>4. PICK l : l \in Nat /\ Len(sc) = Inside(o, l)
  BY TopScopes
<1>5. Len(sc) = l + 1
  BY <1>4 DEF Inside, Bodies
<1>6. OuterScopes(f, sc, sc2, l)
  BY <1>1, <1>3, <1>4, <1>5, PopScopes
<1>7. NoShadow(f, sc2) /\ NamesIn(f, sc2, Len(sc2)) = NamesIn(f, sc, l) /\ Len(sc2) = l
  BY <1>6 DEF OuterScopes
<1>8. NamesIn(f, sc, l) \subseteq NamesIn(f, sc, Len(sc))
  BY <1>4, <1>5, NamesGrow
<1>9. IsRow(r)
  BY <1>1 DEF OnTop
<1>10. Nested(f, s, I, O, r, sc2, Len(sc2))
  BY <1>4, <1>7, <1>9, NestedNone
<1>11. ClosedOver(s, c, {}, r)
  <2>1. Kept(o) = 0
    BY DEF Kept
  <2> QED
    BY <1>1, <1>2, <2>1, ClosedPlain
<1>12. LetPlaced(r)
  BY DEF LetPlaced
<1>13. s.term[c].op = "none" => NamesIn(f, sc2, Len(sc2)) \subseteq O[c]
  BY <1>3, <1>7, <1>8
<1> QED
  BY <1>3, <1>7, <1>10, <1>11, <1>12, <1>13 DEF Typed

-----------------------------------------------------------------------------
(* The right operand of and / or.                                          *)
ShortGone(s, c, v, u, h, r, j, l) ==
  /\ ShortFlowed(s, c, v, u, h, r, j, l) /\ Keeps(s, u) /\ Core(u, u.sealed, {})
  /\ u.term[c].op # "none" /\ u.term[h].op # "none"
LEMMA ShortGoes ==
  ASSUME NEW s, NEW c, NEW q, Quiet(s, c, q), s.term[c].op = "none",
         NEW v \in ValuesOf(s), "bool" \in Types, NEW u, NEW k, NEW h, NEW r, NEW j, NEW l,
         ShortMade(s, c, v, u, k, h, r, j, l), NEW o2, ShortOpened(k, h, j, l, o2)
  PROVE  ShortGone(s, c, v, u, h, r, j, l)
<1>1. /\ c \in BlocksOf(s) /\ Core(s, s.sealed, {}) /\ Shaped(s)
  BY QuietNat
<1>2. PICK d, w, e : ShortParts(s, c, v, u, k, h, r, j, l, d, w, e)
  BY ShortSteps
<1>3. ShortFlowed(s, c, v, u, h, r, j, l)
  BY <1>1, <1>2, ShortFlows
<1>4. Keeps(s, u)
  <2>1. ShortBegun(s, u, q, r, o2)
    BY ShortBegins
  <2> QED
    BY <2>1 DEF ShortBegun
<1>5. ShortDone(s, c, u, h, r, j, l)
  BY <1>1, ShortCore
<1>6. /\ Core(u, u.sealed, {}) /\ Changes(s, u, {c, h}, {h, r, j}, {}) /\ Led(s, u)
      /\ h \in New(s) /\ h \in BlocksOf(u) /\ j \in BlocksOf(u)
      /\ Len(u.preds[j]) = 1 /\ u.preds[j][1] = h
  BY <1>5 DEF ShortDone
<1>7. u.term[c].op # "none"
  <2>1. PICK E, T, P : E = {c, h} /\ T = {h, r, j} /\ P = {}
    OBVIOUS
  <2>2. Changes(s, u, E, T, P) /\ E \subseteq {c} \cup New(s)
    BY <1>6, <2>1
  <2>3. h = Len(s.term) + 1
    BY <1>2 DEF ShortParts, ThreeNew
  <2> QED
    BY <1>1, <1>6, <2>2, <2>3, StepEnds
<1>8. u.term[h].op # "none"
  <2>1. 1 \in 1 .. Len(u.preds[j])
    BY <1>6
  <2>2. u.term[u.preds[j][1]].op # "none"
    BY <1>6, <2>1, OpenNoEdge
  <2> QED
    BY <1>6, <2>2
<1> QED
  BY <1>3, <1>4, <1>6, <1>7, <1>8 DEF ShortGone

\* The names are known in the two new blocks that follow the branch.
ShortTables(f, rt, s, c, u, h, r, j, sc, N, I, O, I2, O2) ==
  /\ Told(f, rt, u, r, sc, I2, O2) /\ Nearby(s, u, I, O, I2, O2, c, 0)
  /\ Untouched(u, I2, O2, j) /\ N \subseteq O2[h]
LEMMA ShortTold ==
  ASSUME NEW f, NEW rt, NEW s, NEW c, NEW q, NEW sc, NEW I, NEW O,
         Told(f, rt, s, c, sc, I, O), Quiet(s, c, q), ScopesOK(sc),
         s.term[c].op = "none", NEW v, HasKind(f, s, v, Kind(f, "bool")),
         NEW u, NEW h, NEW r, NEW j, NEW l, ShortGone(s, c, v, u, h, r, j, l),
         NEW N, N = NamesIn(f, sc, Len(sc))
  PROVE  \E I2, O2 : ShortTables(f, rt, s, c, u, h, r, j, sc, N, I, O, I2, O2)
<1>e. PICK E, V : E = ThreeEdges(c, h, r, j) /\ V = {v}
  OBVIOUS
<1>2. BlocksOf(s) \subseteq Nat /\ c \in BlocksOf(s) /\ Core(s, s.sealed, {}) /\ Shaped(s) /\ Parkable(s)
      /\ c \in Nat
  BY QuietNat
<1>3. Core(u, u.sealed, {}) /\ Keeps(s, u)
  BY DEF ShortGone
<1>5. /\ Flows(s, u, E, V) /\ h \notin BlocksOf(s) /\ r \notin BlocksOf(s) /\ j \notin BlocksOf(s)
      /\ h # r /\ h # j /\ r # j /\ BlocksOf(u) = BlocksOf(s) \cup {h, r, j}
  BY <1>e DEF ShortGone, ShortFlowed
<1>6. Len(sc) \in Nat
  BY ScopeCount
<1>7. N \subseteq Pairs /\ OneEach(N) /\ N \subseteq O[c]
  <2>1. Len(sc) \in 0 .. Len(sc)
    BY <1>6
  <2> QED
    BY <2>1, NamesTold
<1>8. Known(f, s, I, O) /\ Sound(f, s, rt) /\ f \in BOOLEAN /\ NoShadow(f, sc)
  BY DEF Told
<1>9. \A p, b : <<p, b>> \in E => (p = c /\ b \in {h, r}) \/ (p = h /\ b = j)
  BY <1>e DEF ThreeEdges
<1>10. MayEnter(u, I, O, h, N) /\ MayEnter(u, I, O, r, N)
  <2>1. h \in BlocksOf(u) /\ r \in BlocksOf(u)
    BY <1>5
  <2>2. \A p : <<p, h>> \in E => N \subseteq O[p]
    BY <1>5, <1>7, <1>9
  <2>3. \A p : <<p, r>> \in E => N \subseteq O[p]
    BY <1>5, <1>7, <1>9
  <2>4. MayEnter(u, I, O, h, N)
    BY <1>2, <1>5, <1>7, <1>8, <2>1, <2>2, NewEnters
  <2> QED
    BY <1>2, <1>5, <1>7, <1>8, <2>1, <2>3, <2>4, NewEnters
<1>11. EdgesBring(s, E, I, O)
  BY <1>5, <1>9 DEF EdgesBring
<1>12. Known(f, u, I, O)
  BY <1>2, <1>5, <1>8, <1>11, FlowsKnown
<1>13. PICK I1, O1 : KnownThere(f, u, h, N, I, O, I1, O1)
  BY <1>3, <1>10, <1>12, EnterNow
<1>14. Known(f, u, I1, O1) /\ Entered(h, N, I, O, I1, O1)
  BY <1>13 DEF KnownThere
<1>15. h \in Nat /\ r \in Nat /\ j \in Nat
  BY <1>3, <1>5, CoreLens DEF BlocksOf
<1>16. MayEnter(u, I1, O1, r, N)
  <2>1. Untouched(u, I1, O1, r)
    BY <1>5, <1>10, <1>14, <1>15 DEF MayEnter, Untouched, Entered
  <2>2. Brings(u, O1, r, N)
    <3>1. N \subseteq O1[c]
      BY <1>2, <1>7, <1>14 DEF Entered
    <3>2. \A p : <<p, r>> \in E => N \subseteq O1[p]
      BY <1>5, <1>9, <3>1
    <3>3. r \in BlocksOf(u)
      BY <1>5
    <3> QED
      BY <1>5, <3>2, <3>3, BringsNew
  <2> QED
    BY <1>10, <2>1, <2>2 DEF MayEnter
<1>17. PICK I2, O2 : KnownThere(f, u, r, N, I1, O1, I2, O2)
  BY <1>3, <1>14, <1>16, EnterNow
<1>18. Known(f, u, I2, O2) /\ Entered(r, N, I1, O1, I2, O2)
  BY <1>17 DEF KnownThere
<1>19. Sound(f, u, rt)
  <2>1. \A w \in V : HasKind(f, s, w, Kind(f, "bool")) \/ HasKind(f, u, w, Kind(f, "bool"))
    BY <1>e
  <2> QED
    BY <1>5, <1>8, <2>1, SoundFlows
<1>20. Told(f, rt, u, r, sc, I2, O2)
  BY <1>8, <1>18, <1>19 DEF Told, Entered
<1>21. Nearby(s, u, I, O, I2, O2, c, 0)
  <2>1. TablesKept(s, I, O, I1, O1, c, 0)
    BY <1>2, <1>5, <1>14, NewLeaves
  <2>2. TablesKept(s, I1, O1, I2, O2, c, 0)
    BY <1>2, <1>5, <1>18, NewLeaves
  <2>3. TablesKept(s, I, O, I2, O2, c, 0)
    BY <2>1, <2>2, LeavesTwice
  <2>4. EdgesAside(s, E, c, 0)
    BY <1>5, <1>9 DEF EdgesAside
  <2> QED
    BY <1>3, <1>5, <2>3, <2>4, NearbyFlows
<1>22. Untouched(u, I2, O2, j)
  <2>1. Tables(s, I, O)
    BY <1>8 DEF Known
  <2>2. 1 \in BlocksOf(s)
    BY <1>2, <1>5 DEF BlocksOf, Flows, Grows
  <2>3. j \in BlocksOf(u)
    BY <1>5
  <2>4. Untouched(u, I, O, j)
    BY <1>5, <2>1, <2>2, <2>3, UntouchedNew
  <2>5. I2[j] = I[j] /\ O2[j] = O[j]
    BY <1>5, <1>14, <1>15, <1>18 DEF Entered
  <2> QED
    BY <2>4, <2>5 DEF Untouched
<1>23. N \subseteq O2[h]
  BY <1>14, <1>15, <1>18 DEF Entered
<1>24. ShortTables(f, rt, s, c, u, h, r, j, sc, N, I, O, I2, O2)
  BY <1>20, <1>21, <1>22, <1>23 DEF ShortTables
<1> QED
  BY <1>24

LEMMA ShortTyped ==
  ASSUME NEW f, NEW rt, NEW s, NEW c, NEW q, NEW sc, NEW I, NEW O,
         Typed(f, rt, s, c, q, sc, I, O), Quiet(s, c, q), Waiting(q, c), ScopesOK(sc),
         s.term[c].op = "none", NEW v, HasKind(f, s, v, Kind(f, "bool")), "bool" \in Types,
         NEW u, NEW k, NEW h, NEW r, NEW j, NEW l, ShortMade(s, c, v, u, k, h, r, j, l),
         NEW o2, ShortOpened(k, h, j, l, o2), NEW q2, OnTop(q2, o2, q)
  PROVE  \E I2, O2 : Typed(f, rt, u, r, q2, sc, I2, O2)
<1>1. Told(f, rt, s, c, sc, I, O) /\ LetPlaced(q) /\ ClosedOver(s, c, {}, q)
  BY TypedParts
<1>2. ShortGone(s, c, v, u, h, r, j, l)
  BY ShortGoes DEF HasKind
<1>n. PICK N : N = NamesIn(f, sc, Len(sc))
  OBVIOUS
<1>3. PICK I2, O2 : ShortTables(f, rt, s, c, u, h, r, j, sc, N, I, O, I2, O2)
  BY <1>1, <1>2, <1>n, ShortTold, ZenonT(60)
<1>4. /\ Told(f, rt, u, r, sc, I2, O2) /\ Nearby(s, u, I, O, I2, O2, c, 0)
      /\ Untouched(u, I2, O2, j) /\ N \subseteq O2[h]
  BY <1>3 DEF ShortTables
<1>5. Nested(f, u, I2, O2, q, sc, Len(sc))
  <2>1. Stacked(q, s, c, s.sealed)
    BY DEF Quiet
  <2>2. \A i \in 1 .. Len(q) : AnchoredAt(q[i], c)
    BY WaitingAnchored
  <2>3. Core(s, s.sealed, {})
    BY QuietNat
  <2> QED
    BY <1>4, <2>1, <2>2, <2>3, StayOn
<1>6. o2.k \in {"and", "or"} /\ o2.b = h /\ o2.c = j /\ o2.v = l
  BY DEF ShortOpened, Open
<1>7. Kept(o2) = j /\ o2.k \notin Bodies /\ LetOK(o2, q) /\ LetFree(f, sc, o2, Len(sc))
  BY <1>6 DEF Kept, Bodies, LetOK, LetFree
<1>8. ClosedOver(u, r, {Kept(o2)}, q)
  <2>1. /\ BlocksOf(u) = BlocksOf(s) \cup {h, r, j} /\ Keeps(s, u)
        /\ u.term[c].op # "none" /\ u.term[h].op # "none"
    BY <1>2 DEF ShortGone, ShortFlowed
  <2>2. \A d \in BlocksOf(u) : u.term[d].op = "none" =>
           \/ d = r \/ d \in {Kept(o2)}
           \/ d \in BlocksOf(s) /\ s.term[d].op = "none" /\ d # c /\ d \notin {}
    BY <1>7, <2>1 DEF Keeps
  <2> QED
    BY <1>1, <2>2, ClosedStep
<1>9. EntryKnows(f, u, I2, O2, o2, NamesIn(f, sc, Len(sc)))
  <2>1. HasKind(f, u, l, Kind(f, "bool"))
    BY <1>2 DEF ShortGone, ShortFlowed, HasKind
  <2> QED
    BY <1>4, <1>6, <1>n, <2>1 DEF EntryKnows
<1>10. Len(sc) \in Nat
  BY ScopeCount
<1>11. Typed(f, rt, u, r, q2, sc, I2, O2)
  BY <1>1, <1>4, <1>5, <1>7, <1>8, <1>9, <1>10, AddOn
<1> QED
  BY <1>11

-----------------------------------------------------------------------------
(* The end of and / or.                                                    *)
ShortPhi(o, c, v) == Instruction(o.c, "phi", "bool", <<o.v, v>>, <<o.b, c>>)
\* d is the record with the join sealed, u the one with its phi.
JoinStep(s, c, o, v, d, u) ==
  /\ ShortJoined(s, c, o.c, d) /\ AddsInst(d, u, ShortPhi(o, c, v))
  /\ u.term[c].op # "none" /\ \A b \in BlocksOf(s) \ {c} : u.term[b] = s.term[b]
LEMMA JoinSteps ==
  ASSUME NEW s, Core(s, s.sealed, {}), NEW c \in BlocksOf(s), s.term[c].op = "none", NEW o,
         o.c \in BlocksOf(s), o.c \notin s.sealed, NEW v, NEW u, ShortEnded(s, c, v, o, u)
  PROVE  \E d : JoinStep(s, c, o, v, d, u)
<1>1. PICK w, d : w = Terminate(s, c, Jump(o.c)) /\ d = SealFresh(w, {o.c})
  OBVIOUS
<1>2. ShortJoined(s, c, o.c, d)
  BY <1>1 DEF ShortJoined
<1>3. /\ Core(w, s.sealed, {}) /\ Ends(s, w, c, Jump(o.c))
  <2>1. PICK E, T : E = {c} /\ T = {o.c}
    OBVIOUS
  <2>2. c \in E /\ o.c \in T
    BY <2>1
  <2> QED
    BY <1>1, <2>2, JumpStep
<1>4. d.term = w.term
  <2>1. IsRecord(w)
    BY <1>3 DEF Core
  <2> QED
    BY <1>1, <2>1 DEF SealFresh, IsRecord
<1>5. Shaped(d)
  BY <1>2, CoreParkable, JoinFlows
<1>6. AddsInst(d, u, ShortPhi(o, c, v))
  <2>1. PICK args, from : args = <<o.v, v>> /\ from = <<o.b, c>>
    OBVIOUS
  <2>2. u = Emit(d, o.c, "phi", "bool", args, from)
    BY <1>1, <2>1 DEF ShortEnded
  <2>3. AddsInst(d, u, Instruction(o.c, "phi", "bool", args, from))
    BY <1>5, <2>2, ShapedEmitAdds
  <2> QED
    BY <2>1, <2>3 DEF ShortPhi
<1>7. u.term = w.term
  BY <1>4, <1>6 DEF AddsInst
<1>8. u.term[c].op # "none" /\ \A b \in BlocksOf(s) \ {c} : u.term[b] = s.term[b]
  BY <1>3, <1>7 DEF Ends, Jump, BlocksOf
<1>9. JoinStep(s, c, o, v, d, u)
  BY <1>2, <1>6, <1>8 DEF JoinStep
<1> QED
  BY <1>9

\* What an open and / or says of its blocks.
OpShape(s, c, o) ==
  /\ o.c \in BlocksOf(s) /\ o.c # c /\ s.term[o.c].op = "none" /\ o.c \notin s.sealed
  /\ Len(s.preds[o.c]) = 1 /\ s.preds[o.c][1] = o.b /\ Kept(o) = o.c
LEMMA OpShapes ==
  ASSUME NEW s, NEW c, NEW o, EntryOK(o, s, c, s.sealed), Len(s.term) \in Nat, o.k \in {"and", "or"}
  PROVE  OpShape(s, c, o)
<1>1. /\ Kept(o) = o.c /\ Kept(o) \in BlocksOf(s) /\ Kept(o) # c /\ s.term[Kept(o)].op = "none"
      /\ Len(s.preds[o.c]) = 1 /\ s.preds[o.c][1] = o.b
  BY EntryBlocks
<1>2. o.c # 0 /\ Unsealed(o) = o.c
  BY <1>1 DEF BlocksOf, Unsealed
<1>3. o.c \notin s.sealed
  BY <1>2 DEF EntryOK
<1> QED
  BY <1>1, <1>3 DEF OpShape

\* The phi of the two operands.
PhiKnown(f, rt, u, n, I, O) ==
  Known(f, u, I, O) /\ Sound(f, u, rt) /\ HasKind(f, u, n, Kind(f, "bool"))
PhiMade(f, rt, s, c, o, d, u, I, O) ==
  /\ PhiKnown(f, rt, u, Len(s.inst) + 1, I, O) /\ KeepsTypes(d, u)
  /\ Flows(s, d, WhileEdges(c, o.c), {})
  /\ BlocksOf(u) = BlocksOf(s) /\ ValuesOf(d) = ValuesOf(s)
LEMMA PhiKnows ==
  ASSUME NEW f, NEW rt, NEW s, NEW c \in BlocksOf(s), NEW I, NEW O, Known(f, s, I, O), Sound(f, s, rt),
         Core(s, s.sealed, {}), NEW o, OpShape(s, c, o), HasKind(f, s, o.v, Kind(f, "bool")),
         Untouched(s, I, O, o.c), NEW v, HasKind(f, s, v, Kind(f, "bool")),
         NEW d, NEW u, JoinStep(s, c, o, v, d, u)
  PROVE  PhiMade(f, rt, s, c, o, d, u, I, O)
<1>e. PICK E, V : E = WhileEdges(c, o.c) /\ V = {}
  OBVIOUS
<1>1. Shaped(s) /\ Parkable(s)
  BY CoreParkable
<1>2. o.c \in BlocksOf(s)
  BY DEF OpShape
<1>i. PICK i : i = ShortPhi(o, c, v)
  OBVIOUS
<1>3. ShortJoined(s, c, o.c, d) /\ AddsInst(d, u, i)
  BY <1>i DEF JoinStep
<1>4. Shaped(d) /\ Flows(s, d, E, V) /\ BlocksOf(d) = BlocksOf(s) /\ d.inst = s.inst
  BY <1>1, <1>2, <1>3, <1>e, JoinFlows
<1>5. EdgesBring(s, E, I, O)
  BY <1>e DEF EdgesBring, WhileEdges, Untouched
<1>6. Known(f, d, I, O) /\ Parkable(d)
  BY <1>1, <1>4, <1>5, FlowsKnown, ParkableFlows
<1>7. Sound(f, d, rt)
  <2>1. \A w \in V : HasKind(f, s, w, Kind(f, "bool")) \/ HasKind(f, d, w, Kind(f, "bool"))
    BY <1>e
  <2> QED
    BY <1>4, <2>1, SoundFlows
<1>8. /\ i.ty = "bool" /\ i.kind = "phi" /\ Len(i.args) = 2
      /\ i.args[1] = o.v /\ i.args[2] = v
  <2>1. PICK args, from : args = <<o.v, v>> /\ from = <<o.b, c>>
    OBVIOUS
  <2>2. Len(args) = 2 /\ args[1] = o.v /\ args[2] = v
    BY <2>1, PairIs
  <2>3. i = Instruction(o.c, "phi", "bool", args, from)
    BY <1>i, <2>1 DEF ShortPhi
  <2> QED
    BY <2>2, <2>3 DEF Instruction
<1>9. InstSound(f, d, i)
  <2>1. HasKind(f, d, o.v, Kind(f, "bool")) /\ HasKind(f, d, v, Kind(f, "bool"))
    BY <1>4 DEF HasKind, ValuesOf
  <2>2. ArgsAre(f, d, i, Kind(f, i.ty))
    <3>1. \A k \in 1 .. 2 : k = 1 \/ k = 2
      OBVIOUS
    <3> QED
      BY <1>8, <2>1, <3>1 DEF ArgsAre
  <2> QED
    BY <1>8, <2>2 DEF InstSound
<1>10. /\ Known(f, u, I, O) /\ Sound(f, u, rt) /\ KeepsTypes(d, u)
       /\ Len(d.inst) + 1 \in ValuesOf(u) /\ u.inst[Len(d.inst) + 1] = i
  BY <1>3, <1>4, <1>6, <1>7, <1>9, AddKnown
<1>11. HasKind(f, u, Len(s.inst) + 1, Kind(f, "bool"))
  BY <1>4, <1>8, <1>10 DEF HasKind
<1>12. BlocksOf(u) = BlocksOf(s) /\ ValuesOf(d) = ValuesOf(s)
  BY <1>3, <1>4 DEF AddsInst, BlocksOf, ValuesOf
<1>13. PhiKnown(f, rt, u, Len(s.inst) + 1, I, O)
  BY <1>10, <1>11 DEF PhiKnown
<1> QED
  BY <1>4, <1>10, <1>12, <1>13, <1>e DEF PhiMade

\* The join knows the names around the operator.
JoinKnows(f, s, u, c, j, n, N, I, O, I2, O2) ==
  /\ Known(f, u, I2, O2) /\ O2[j] = N /\ Nearby(s, u, I, O, I2, O2, c, j)
LEMMA JoinKnown ==
  ASSUME NEW f, NEW rt, NEW s, NEW c \in BlocksOf(s), s.term[c].op = "none",
         NEW I, NEW O, Known(f, s, I, O), Core(s, s.sealed, {}), NEW o, OpShape(s, c, o),
         NEW N, N \subseteq Pairs, OneEach(N), N \subseteq O[c], N \subseteq O[o.b],
         Untouched(s, I, O, o.c), NEW v, NEW d, NEW u, JoinStep(s, c, o, v, d, u),
         Keeps(s, u), Core(u, u.sealed, {}), KeepsTypes(d, u),
         Flows(s, d, WhileEdges(c, o.c), {}), Known(f, u, I, O), NEW n
  PROVE  \E I2, O2 : JoinKnows(f, s, u, c, o.c, n, N, I, O, I2, O2)
<1>e. PICK E, V, j : E = WhileEdges(c, o.c) /\ V = {} /\ j = o.c
  OBVIOUS
<1>1. /\ j \in BlocksOf(s) /\ j # c /\ s.term[j].op = "none" /\ Len(s.preds[j]) = 1
      /\ s.preds[j][1] = o.b /\ Untouched(s, I, O, j)
  BY <1>e DEF OpShape
<1>2. Flows(s, d, E, V) /\ Shaped(s) /\ BlocksOf(s) \subseteq Nat
  BY <1>e, CoreParkable, CoreLens DEF BlocksOf
<1>3. AddsInst(d, u, ShortPhi(o, c, v)) /\ ShortJoined(s, c, j, d)
  BY <1>e DEF JoinStep
<1>4. u.term = d.term /\ u.preds = d.preds /\ u.defs = d.defs
  BY <1>3 DEF AddsInst
<1>5. BlocksOf(d) = BlocksOf(s) /\ ValuesOf(d) = ValuesOf(s)
  BY <1>1, <1>2, <1>3, JoinFlows DEF ValuesOf
<1>6. Keeps(s, d)
  <2>1. \A b \in s.sealed : d.preds[b] = s.preds[b]
    BY <1>4 DEF Keeps
  <2>2. \A b \in BlocksOf(s) : s.term[b].op # "none" => d.term[b] = s.term[b]
    BY <1>4 DEF Keeps
  <2> QED
    BY <1>5, <2>1, <2>2 DEF Keeps
<1>7. Untouched(u, I, O, j)
  <2>1. Untouched(d, I, O, j)
    BY <1>1, <1>2, UntouchedFlows
  <2> QED
    BY <1>4, <2>1 DEF Untouched
<1>8. Brings(u, O, j, N)
  <2>1. Brings(s, O, j, N)
    BY <1>1 DEF Brings
  <2>2. \A p : <<p, j>> \in E => N \subseteq O[p]
    BY <1>e DEF WhileEdges
  <2>3. Brings(d, O, j, N)
    BY <1>1, <1>2, <2>1, <2>2, BringsFlows
  <2> QED
    BY <1>4, <2>3 DEF Brings
<1>9. MayEnter(u, I, O, j, N)
  <2>1. j \in BlocksOf(u)
    BY <1>1, <1>4, <1>5 DEF BlocksOf
  <2> QED
    BY <1>7, <1>8, <2>1 DEF MayEnter, Untouched
<1>10. PICK I2, O2 : KnownThere(f, u, j, N, I, O, I2, O2)
  BY <1>9, EnterNow
<1>11. Known(f, u, I2, O2) /\ Entered(j, N, I, O, I2, O2)
  BY <1>10 DEF KnownThere
<1>12. TablesKept(s, I, O, I2, O2, c, j)
  BY <1>1, <1>2, <1>11, KeptLeaves
<1>13. EdgesAside(s, E, c, j)
  BY <1>e DEF EdgesAside, WhileEdges
<1>14. Nearby(s, d, I, O, I2, O2, c, j)
  BY <1>2, <1>6, <1>12, <1>13, NearbyFlows
<1>15. Nearby(s, u, I, O, I2, O2, c, j)
  BY <1>4, <1>14, NearbyAdds
<1>16. JoinKnows(f, s, u, c, j, n, N, I, O, I2, O2)
  BY <1>11, <1>15 DEF JoinKnows, Entered
<1> QED
  BY <1>16, <1>e

ShortOver(f, rt, s, u, j, r, sc, I2, O2) ==
  Typed(f, rt, u, j, r, sc, I2, O2) /\ HasKind(f, u, Len(s.inst) + 1, Kind(f, "bool"))
LEMMA JoinTyped ==
  ASSUME NEW f, NEW rt, NEW s, NEW c, NEW q, NEW sc, NEW I, NEW O, NEW o, NEW r,
         StepOn(f, rt, s, c, q, sc, I, O, o, r), o.k \in {"and", "or"}, s.term[c].op = "none",
         "bool" \in Types, NEW v, HasKind(f, s, v, Kind(f, "bool")),
         NEW u, ShortEnded(s, c, v, o, u)
  PROVE  \E I2, O2 : ShortOver(f, rt, s, u, o.c, r, sc, I2, O2)
<1>1. /\ Quiet(s, c, q) /\ OnTop(q, o, r) /\ Typed(f, rt, s, c, q, sc, I, O) /\ ScopesOK(sc)
      /\ \A i \in 1 .. Len(r) : AnchoredAt(r[i], c)
  BY DEF StepOn
<1>2. Quiet(u, o.c, r) /\ Keeps(s, u)
  BY <1>1, EndsShort DEF HasKind
<1>3. Core(u, u.sealed, {}) /\ Core(s, s.sealed, {}) /\ c \in BlocksOf(s)
  BY <1>1, <1>2, QuietNat
<1>4. PICK l : /\ l \in Nat /\ Len(sc) = Inside(o, l) /\ l \in 0 .. Len(sc)
               /\ EntryKnows(f, s, I, O, o, NamesIn(f, sc, l)) /\ LetFree(f, sc, o, l)
  BY TopScopes
<1>5. Told(f, rt, s, c, sc, I, O) /\ LetPlaced(q) /\ ClosedOver(s, c, {}, q)
  BY <1>1, TypedParts
<1>6. NoShadow(f, sc) /\ f \in BOOLEAN /\ Known(f, s, I, O) /\ Sound(f, s, rt)
  BY <1>5 DEF Told
<1>7. Len(sc) = l
  BY <1>4 DEF Inside, Bodies
<1>n. PICK N : N = NamesIn(f, sc, Len(sc))
  OBVIOUS
<1>8. N \subseteq Pairs /\ OneEach(N) /\ N \subseteq O[c]
  BY <1>1, <1>4, <1>5, <1>7, <1>n, NamesTold
<1>9. Untouched(s, I, O, o.c) /\ N \subseteq O[o.b] /\ HasKind(f, s, o.v, Kind(f, "bool"))
  BY <1>4, <1>7, <1>n DEF EntryKnows
<1>10. Below(r, o, s, c, s.sealed) /\ EntryOK(o, s, c, s.sealed) /\ Len(s.term) \in Nat
  BY <1>1, QuietPop, QuietFacts DEF QuietBelow
<1>11. OpShape(s, c, o)
  BY <1>10, OpShapes
<1>12. PICK d : JoinStep(s, c, o, v, d, u)
  <2>1. o.c \in BlocksOf(s) /\ o.c \notin s.sealed
    BY <1>11 DEF OpShape
  <2> QED
    BY <1>3, <2>1, JoinSteps
<1>13. /\ PhiKnown(f, rt, u, Len(s.inst) + 1, I, O) /\ KeepsTypes(d, u)
       /\ Flows(s, d, WhileEdges(c, o.c), {})
       /\ BlocksOf(u) = BlocksOf(s) /\ ValuesOf(d) = ValuesOf(s)
  <2>1. PhiMade(f, rt, s, c, o, d, u, I, O)
    BY <1>3, <1>6, <1>9, <1>11, <1>12, PhiKnows, ZenonT(60)
  <2> QED
    BY <2>1 DEF PhiMade
<1>14. Known(f, u, I, O) /\ Sound(f, u, rt) /\ HasKind(f, u, Len(s.inst) + 1, Kind(f, "bool"))
  BY <1>13 DEF PhiKnown
<1>15. PICK I2, O2 : JoinKnows(f, s, u, c, o.c, 0, N, I, O, I2, O2)
  BY <1>2, <1>3, <1>6, <1>8, <1>9, <1>11, <1>12, <1>13, <1>14, JoinKnown, ZenonT(60)
<1>16. Known(f, u, I2, O2) /\ O2[o.c] = N /\ Nearby(s, u, I, O, I2, O2, c, o.c)
  BY <1>15 DEF JoinKnows
<1>17. Told(f, rt, u, o.c, sc, I2, O2)
  BY <1>6, <1>14, <1>16, <1>n DEF Told
<1>18. PICK m : Carried(f, s, u, I, O, I2, O2, o, r, sc, Len(sc), m)
  <2>1. Kept(o) = o.c
    BY <1>11 DEF OpShape
  <2> QED
    BY <1>1, <1>3, <1>10, <1>16, <2>1, Popping
<1>19. m = l
  <2>1. m \in Nat /\ Len(sc) = Inside(o, m)
    BY <1>18 DEF Carried
  <2> QED
    BY <1>4, <2>1, InsideOne
<1>20. ScopesBelow(sc, sc, r, m) /\ Len(sc) = m
  BY <1>7, <1>19 DEF ScopesBelow, SameScopes
<1>21. ClosedOver(u, o.c, {}, r)
  <2>1. ClosedOver(s, c, {o.c}, r)
    <3>1. ClosedOver(s, c, {Kept(o)}, r) /\ Kept(o) = o.c
      BY <1>1, <1>5, <1>11, ClosedTop DEF OpShape
    <3> QED
      BY <3>1
  <2>2. /\ u.term[c].op # "none" /\ \A b \in BlocksOf(s) \ {c} : u.term[b] = s.term[b]
    BY <1>12 DEF JoinStep
  <2>3. \A b \in BlocksOf(u) : u.term[b].op = "none" =>
           \/ b = o.c \/ b \in {}
           \/ b \in BlocksOf(s) /\ s.term[b].op = "none" /\ b # c /\ b \notin {o.c}
    BY <1>13, <2>2
  <2> QED
    BY <2>1, <2>3, ClosedStep
<1>22. LetPlaced(r)
  BY <1>1, <1>5, LetPop
<1>23. Typed(f, rt, u, o.c, r, sc, I2, O2)
  BY <1>17, <1>18, <1>20, <1>21, <1>22, LeaveOff
<1>24. ShortOver(f, rt, s, u, o.c, r, sc, I2, O2)
  BY <1>14, <1>23 DEF ShortOver
<1> QED
  BY <1>24

-----------------------------------------------------------------------------
(* The builder runs: the tables stay as they are.                          *)
Runs(s, u, c) ==
  /\ KeepsTypes(s, u) /\ u.term = s.term /\ u.preds = s.preds
  /\ \A b \in BlocksOf(s) : s.term[b].op # "none" \/ b = c \/ u.defs[b] = s.defs[b]
LEMMA RunsNearby ==
  ASSUME NEW s, NEW u, NEW c, Runs(s, u, c), NEW I, NEW O
  PROVE  Nearby(s, u, I, O, I, O, c, 0)
<1>1. KeepsTypes(s, u) /\ u.term = s.term
  BY DEF Runs
<1>2. \A b \in BlocksOf(s) : \A k \in 1 .. Len(u.preds[b]) : OldEdge(s, u.preds[b][k], b)
  <2>1. u.preds = s.preds
    BY DEF Runs
  <2> QED
    BY <2>1, AllOldEdges
<1>3. BlocksOf(u) = BlocksOf(s)
  BY <1>1 DEF BlocksOf
<1>4. \A b \in BlocksOf(s) : s.term[b].op # "none" \/ b = c \/ u.defs[b] = s.defs[b]
  BY DEF Runs
<1> QED
  BY <1>1, <1>2, <1>3, <1>4 DEF Nearby

LEMMA RunsTyped ==
  ASSUME NEW f, NEW rt, NEW s, NEW shut, NEW busy, Core(s, shut, busy), NEW c, NEW q,
         Stacked(q, s, c, shut), \A i \in 1 .. Len(q) : AnchoredAt(q[i], c), NEW sc, NEW I, NEW O,
         Typed(f, rt, s, c, q, sc, I, O), NEW u, Runs(s, u, c), Known(f, u, I, O), Sound(f, u, rt)
  PROVE  Typed(f, rt, u, c, q, sc, I, O)
<1>1. Nearby(s, u, I, O, I, O, c, 0)
  BY RunsNearby
<1>2. AllOK(q, s, c, shut)
  BY DEF AllOK, Stacked, Below
<1>3. AllSpared(q, c, 0)
  BY DEF AllSpared, Spared
<1>4. ScopesBelow(sc, sc, q, Len(sc))
  BY DEF ScopesBelow, SameScopes
<1>5. Nested(f, s, I, O, q, sc, Len(sc))
  BY DEF Typed
<1>6. Nested(f, u, I, O, q, sc, Len(sc))
  BY <1>1, <1>2, <1>3, <1>4, <1>5, NestedStep
<1>7. u.term = s.term
  BY DEF Runs
<1>8. ClosedOver(u, c, {}, q)
  BY <1>7, ClosedSame DEF Typed
<1> QED
  BY <1>6, <1>7, <1>8 DEF Typed

-----------------------------------------------------------------------------
(* The calls in progress.                                                  *)
LEMMA FrameFitsKept ==
  ASSUME NEW f, NEW s, NEW u, KeepsTypes(s, u), NEW fr, NEW c, NEW shut, FrameOK(fr, s, c, shut),
         NEW I, NEW O, NEW t, FrameFits(f, s, I, O, fr, t)
  PROVE  FrameFits(f, u, I, O, fr, t)
<1>1. fr.op \in {"ask", "take"} => /\ fr.phi \in ValuesOf(s)
                                   /\ \A k \in 1 .. Len(fr.got) : HasKind(f, u, fr.got[k], t)
  <2>1. fr.op \in {"ask", "take"} => fr.phi \in ValuesOf(s)
    BY DEF FrameOK, IsPhi, ValuesOf
  <2> QED
    BY <2>1, KindKept DEF FrameFits
<1>2. \A v \in ValuesOf(s) : u.inst[v].ty = s.inst[v].ty
  BY DEF KeepsTypes
<1>3. fr.op \in {"seal"} => \A k \in 1 .. Len(fr.rest) : ParkedPair(f, u, fr.rest[k]) \in I[fr.b]
  <2>1. SUFFICES ASSUME fr.op \in {"seal"}, NEW k \in 1 .. Len(fr.rest)
                 PROVE  ParkedPair(f, u, fr.rest[k]) \in I[fr.b]
    OBVIOUS
  <2>2. fr.rest[k].phi \in ValuesOf(s)
    BY <2>1 DEF FrameOK, ParkedAt, IsPhi, ValuesOf
  <2> QED
    BY <1>2, <2>1, <2>2 DEF FrameFits, ParkedPair
<1> QED
  BY <1>1, <1>2, <1>3 DEF FrameFits

LEMMA FramesFitKept ==
  ASSUME NEW f, NEW s, NEW u, KeepsTypes(s, u), NEW r, NEW c, NEW shut,
         \A i \in 1 .. Len(r) : FrameOK(r[i], s, c, shut),
         NEW I, NEW O, NEW t, FramesFit(f, s, I, O, r, t)
  PROVE  FramesFit(f, u, I, O, r, t)
BY FrameFitsKept DEF FramesFit

LEMMA FramesFitTop ==
  ASSUME NEW f, NEW s, NEW I, NEW O, NEW t, NEW q, NEW fr, NEW r, OnTop(q, fr, r)
  PROVE  FramesFit(f, s, I, O, q, t) <=> FrameFits(f, s, I, O, fr, t) /\ FramesFit(f, s, I, O, r, t)
<1>1. /\ 1 .. Len(q) = {1} \cup {k + 1 : k \in 1 .. Len(r)} /\ q[1] = fr
      /\ \A k \in 1 .. Len(r) : q[k + 1] = r[k]
  BY OnTopSplits
<1>2. ASSUME FramesFit(f, s, I, O, q, t)
      PROVE  FrameFits(f, s, I, O, fr, t) /\ FramesFit(f, s, I, O, r, t)
  BY <1>1, <1>2 DEF FramesFit
<1>3. ASSUME FrameFits(f, s, I, O, fr, t), FramesFit(f, s, I, O, r, t)
      PROVE  FramesFit(f, s, I, O, q, t)
  BY <1>1, <1>3 DEF FramesFit
<1> QED
  BY <1>2, <1>3

LEMMA FramesFitTwo ==
  ASSUME NEW f, NEW s, NEW I, NEW O, NEW t, NEW g, NEW h, NEW r, IsRow(r),
         FrameFits(f, s, I, O, g, t), FrameFits(f, s, I, O, h, t), FramesFit(f, s, I, O, r, t),
         NEW q, TwoOnTop(q, g, h, r)
  PROVE  FramesFit(f, s, I, O, q, t)
<1>1. PICK mid : OnTop(mid, h, r) /\ OnTop(<<g, h>> \o r, g, mid)
  BY TwoCalls
<1>2. OnTop(q, g, mid)
  BY <1>1 DEF TwoOnTop
<1>3. FramesFit(f, s, I, O, mid, t)
  BY <1>1, FramesFitTop
<1> QED
  BY <1>2, <1>3, FramesFitTop

\* The call fr is on top of the calls r.
RunReady(f, rt, s, c, wk, fr, r, I, O, t) ==
  /\ Known(f, s, I, O) /\ Sound(f, s, rt) /\ Core(s, Shut(s, wk), Busy(wk))
  /\ OnTop(wk, fr, r) /\ FramesOK(wk, s, c, Shut(s, wk)) /\ FramesFit(f, s, I, O, wk, t)
\* What is left when it has made its step, to a record u.
RunLeft(f, rt, s, u, c, r, I, O, t) ==
  Runs(s, u, c) /\ Known(f, u, I, O) /\ Sound(f, u, rt) /\ FramesFit(f, u, I, O, r, t)
RunTop(f, s, c, wk, fr, r, I, O, t) ==
  /\ FrameFits(f, s, I, O, fr, t) /\ FramesFit(f, s, I, O, r, t) /\ IsRow(r)
  /\ FrameOK(fr, s, c, Shut(s, wk)) /\ (\A i \in 1 .. Len(r) : FrameOK(r[i], s, c, Shut(s, wk)))
  /\ Shaped(s) /\ Parkable(s) /\ fr.b \in BlocksOf(s) /\ (fr.b = c \/ s.term[fr.b].op # "none")
LEMMA RunTops ==
  ASSUME NEW f, NEW rt, NEW s, NEW c, NEW wk, NEW fr, NEW r, NEW I, NEW O, NEW t,
         RunReady(f, rt, s, c, wk, fr, r, I, O, t)
  PROVE  RunTop(f, s, c, wk, fr, r, I, O, t)
<1>1. FrameFits(f, s, I, O, fr, t) /\ FramesFit(f, s, I, O, r, t)
  BY FramesFitTop DEF RunReady
<1>2. \A i \in 1 .. Len(wk) : FrameOK(wk[i], s, c, Shut(s, wk))
  BY DEF RunReady, FramesOK
<1>3. /\ 1 .. Len(wk) = {1} \cup {k + 1 : k \in 1 .. Len(r)} /\ wk[1] = fr
      /\ \A k \in 1 .. Len(r) : wk[k + 1] = r[k]
  BY OnTopSplits DEF RunReady
<1>4. /\ FrameOK(fr, s, c, Shut(s, wk))
      /\ \A i \in 1 .. Len(r) : FrameOK(r[i], s, c, Shut(s, wk))
  BY <1>2, <1>3
<1>5. Shaped(s) /\ Parkable(s)
  BY CoreParkable DEF RunReady
<1>6. fr.b \in BlocksOf(s) /\ (fr.b = c \/ s.term[fr.b].op # "none")
  BY <1>4 DEF FrameOK, FrameShape, BlocksOf
<1>7. IsRow(r)
  BY DEF RunReady, OnTop
<1> QED
  BY <1>1, <1>4, <1>5, <1>6, <1>7 DEF RunTop

LEMMA RunsSame ==
  ASSUME NEW s, NEW c
  PROVE  Runs(s, s, c)
BY DEF Runs, KeepsTypes
LEMMA RunsTrans ==
  ASSUME NEW s, NEW u, NEW w, NEW c, Runs(s, u, c), Runs(u, w, c)
  PROVE  Runs(s, w, c)
<1>1. BlocksOf(u) = BlocksOf(s)
  BY DEF Runs, BlocksOf
<1>2. KeepsTypes(s, w)
  BY DEF Runs, KeepsTypes
<1> QED
  BY <1>1, <1>2 DEF Runs

-----------------------------------------------------------------------------
(* What a step of the builder does to the record.                          *)
Bindable(s) == \A b \in BlocksOf(s) : DOMAIN s.defs[b] = Vars
LEMMA CoreBindable ==
  ASSUME NEW s, NEW shut, NEW busy, Core(s, shut, busy)
  PROVE  Bindable(s)
BY DEF Core, DefsOK, Bindable, BlocksOf

\* A name that is read is bound to a value of the type it is known with.
BoundTo(f, s, u, c, rt, I, O) ==
  Runs(s, u, c) /\ Known(f, u, I, O) /\ Sound(f, u, rt) /\ u.inst = s.inst
LEMMA ReadBinds ==
  ASSUME NEW f, NEW rt, NEW s, NEW I, NEW O, Known(f, s, I, O), Sound(f, s, rt), Bindable(s),
         NEW b \in BlocksOf(s), NEW c, b = c \/ s.term[b].op # "none", NEW x \in Vars, NEW v, NEW t,
         HasKind(f, s, v, t), <<x, t>> \in O[b], NEW u, Binds(s, u, x, b, v)
  PROVE  BoundTo(f, s, u, c, rt, I, O)
<1>1. /\ u.inst = s.inst /\ u.term = s.term /\ u.preds = s.preds /\ u.pending = s.pending
      /\ \A a \in BlocksOf(s) : a # b => u.defs[a] = s.defs[a]
      /\ u.defs[b] = [s.defs[b] EXCEPT ![x] = v]
  BY DEF Binds
<1>2. BlocksOf(u) = BlocksOf(s) /\ ValuesOf(u) = ValuesOf(s)
  BY <1>1 DEF BlocksOf, ValuesOf
<1>3. \A w, k : HasKind(f, s, w, k) <=> HasKind(f, u, w, k)
  BY <1>1, <1>2 DEF HasKind
<1>4. KeepsTypes(s, u)
  BY <1>1, <1>2 DEF KeepsTypes
<1>5. Sound(f, u, rt)
  <2>1. \A w \in ValuesOf(s) : InstSound(f, u, s.inst[w])
    BY <1>4, InstSoundKept DEF Sound
  <2>2. \A a \in BlocksOf(s) : TermSound(f, u, s.term[a], rt)
    BY <1>4, TermSoundKept DEF Sound
  <2> QED
    BY <1>1, <1>2, <2>1, <2>2 DEF Sound
<1>6. Runs(s, u, c)
  BY <1>1, <1>4 DEF Runs
<1>7. ASSUME NEW a \in BlocksOf(s)
      PROVE  /\ BoundAs(f, s, I, O, a) /\ OneEach(O[a]) /\ FromAll(s, I, O, a)
             /\ ParkedIn(f, s, I, a)
  BY DEF Known
<1>8. ASSUME NEW a \in BlocksOf(s) PROVE BoundAs(f, u, I, O, a)
  <2>1. CASE a # b
    BY <1>1, <1>3, <1>7, <2>1 DEF BoundAs
  <2>2. CASE a = b
    <3> SUFFICES ASSUME NEW p \in O[b]
                 PROVE  IF u.defs[b][p[1]] = NoValue THEN p \in I[b]
                        ELSE HasKind(f, u, u.defs[b][p[1]], p[2])
      BY <2>2 DEF BoundAs
    <3>0. DOMAIN s.defs[b] = Vars
      BY DEF Bindable
    <3>1. CASE p[1] = x
      <4>1. p = <<x, t>>
        BY <1>7, <2>2, <3>1 DEF OneEach
      <4>2. v # NoValue
        BY DEF HasKind, ValuesOf, NoValue
      <4>3. u.defs[b][x] = v
        BY <1>1, <3>0
      <4>4. u.defs[b][p[1]] = v /\ p[2] = t
        BY <3>1, <4>1, <4>3
      <4> QED
        BY <1>3, <4>2, <4>4
    <3>2. CASE p[1] # x
      <4>1. BoundAs(f, s, I, O, b)
        BY <1>7
      <4>2. p[1] \in Vars
        BY DEF Known, Tables, Pairs, BlocksOf
      <4>3. u.defs[b][p[1]] = s.defs[b][p[1]]
        BY <1>1, <3>0, <3>2, <4>2
      <4> QED
        BY <1>3, <4>1, <4>3 DEF BoundAs
    <3> QED
      BY <3>1, <3>2
  <2> QED
    BY <2>1, <2>2
<1>9. Known(f, u, I, O)
  <2>1. Tables(u, I, O)
    BY <1>2 DEF Known, Tables
  <2>2. \A a \in BlocksOf(u) : FromAll(u, I, O, a) /\ ParkedIn(f, u, I, a) /\ OneEach(O[a])
    BY <1>1, <1>2, <1>7 DEF FromAll, ParkedIn, ParkedPair
  <2> QED
    BY <1>2, <1>8, <2>1, <2>2 DEF Known
<1> QED
  BY <1>1, <1>5, <1>6, <1>9 DEF BoundTo

\* The record is changed where nothing is said of it.
LEMMA SameBound ==
  ASSUME NEW f, NEW rt, NEW s, NEW I, NEW O, Known(f, s, I, O), Sound(f, s, rt), NEW u, NEW c,
         u.inst = s.inst, u.term = s.term, u.preds = s.preds, u.defs = s.defs,
         \A b \in BlocksOf(s) : ParkedIn(f, u, I, b)
  PROVE  BoundTo(f, s, u, c, rt, I, O)
<1>1. BlocksOf(u) = BlocksOf(s) /\ ValuesOf(u) = ValuesOf(s)
  BY DEF BlocksOf, ValuesOf
<1>2. KeepsTypes(s, u)
  BY <1>1 DEF KeepsTypes
<1>3. Runs(s, u, c)
  BY <1>2 DEF Runs
<1>4. Sound(f, u, rt)
  <2>1. \A w \in ValuesOf(s) : InstSound(f, u, s.inst[w])
    BY <1>2, InstSoundKept DEF Sound
  <2>2. \A a \in BlocksOf(s) : TermSound(f, u, s.term[a], rt)
    BY <1>2, TermSoundKept DEF Sound
  <2> QED
    BY <1>1, <2>1, <2>2 DEF Sound
<1>5. Known(f, u, I, O)
  <2>1. Tables(u, I, O)
    BY <1>1 DEF Known, Tables
  <2>2. \A a \in BlocksOf(s) : BoundAs(f, u, I, O, a)
    BY <1>2, KindKept DEF Known, BoundAs
  <2>3. \A a \in BlocksOf(s) : OneEach(O[a]) /\ FromAll(u, I, O, a)
    BY DEF Known, FromAll
  <2> QED
    BY <1>1, <2>1, <2>2, <2>3 DEF Known
<1> QED
  BY <1>3, <1>4, <1>5 DEF BoundTo

-----------------------------------------------------------------------------
(* A phi without operands.                                                 *)
LEMMA ShapedAdds ==
  ASSUME NEW s, Shaped(s), Bindable(s), NEW u, NEW i, AddsInst(s, u, i)
  PROVE  Shaped(u) /\ Bindable(u)
<1>1. /\ IsRecord(u) /\ u.term = s.term /\ u.preds = s.preds /\ u.defs = s.defs
      /\ u.pending = s.pending /\ IsRow(u.inst)
  BY DEF AddsInst, Appended
<1>2. Len(u.inst) \in Nat
  BY <1>1 DEF IsRow
<1> QED
  BY <1>1, <1>2 DEF Shaped, Bindable, BlocksOf

LEMMA ShapedBinds ==
  ASSUME NEW s, Shaped(s), NEW u, NEW x, NEW b, NEW v, Binds(s, u, x, b, v)
  PROVE  Shaped(u)
<1>1. /\ IsRecord(u) /\ u.inst = s.inst /\ u.term = s.term /\ u.preds = s.preds
      /\ u.pending = s.pending /\ IsRow(u.defs) /\ Len(u.defs) = Len(s.defs)
  BY DEF Binds
<1> QED
  BY <1>1 DEF Shaped, BlocksOf

PhiRun(f, rt, s, w, c, I, O, v, t) ==
  /\ Runs(s, w, c) /\ Known(f, w, I, O) /\ Sound(f, w, rt) /\ HasKind(f, w, v, t)
  /\ w.pending = s.pending /\ Shaped(w)
LEMMA PhiRuns ==
  ASSUME NEW f, NEW rt, NEW s, NEW I, NEW O, Known(f, s, I, O), Sound(f, s, rt), Shaped(s),
         Parkable(s), Bindable(s), NEW fr, fr.b \in BlocksOf(s), fr.x \in Vars, NEW c,
         fr.b = c \/ s.term[fr.b].op # "none", NEW t, <<fr.x, t>> \in O[fr.b],
         Kind(f, fr.ty) = t, NEW w, NEW v, BoundPhi(s, fr, w, v)
  PROVE  PhiRun(f, rt, s, w, c, I, O, v, t)
<1>1. PICK i : i = Instruction(fr.b, "phi", fr.ty, <<>>, <<>>)
  OBVIOUS
<1>2. i.kind = "phi" /\ i.ty = fr.ty /\ Len(i.args) = 0
  BY <1>1, EmptyRow DEF Instruction
<1>3. PICK e : e = Emit(s, fr.b, "phi", fr.ty, <<>>, <<>>)
  OBVIOUS
<1>4. AddsInst(s, e, i)
  BY <1>1, <1>3, ShapedEmitAdds
<1>5. Shaped(e) /\ Bindable(e)
  BY <1>4, ShapedAdds
<1>6. InstSound(f, s, i)
  BY <1>2 DEF InstSound, ArgsAre
<1>7. /\ Known(f, e, I, O) /\ Sound(f, e, rt) /\ KeepsTypes(s, e)
      /\ Len(s.inst) + 1 \in ValuesOf(e) /\ e.inst[Len(s.inst) + 1] = i
  BY <1>4, <1>6, AddKnown
<1>8. e.term = s.term /\ e.preds = s.preds /\ e.defs = s.defs /\ e.pending = s.pending
      /\ Len(e.inst) = Len(s.inst) + 1
  BY <1>4 DEF AddsInst, Appended
<1>9. w = Write(e, fr.x, fr.b, v) /\ v = Len(e.inst)
  BY <1>3 DEF BoundPhi
<1>10. HasKind(f, e, v, t)
  BY <1>2, <1>7, <1>8, <1>9 DEF HasKind
<1>11. fr.b \in BlocksOf(e) /\ (fr.b = c \/ e.term[fr.b].op # "none")
  BY <1>8 DEF BlocksOf
<1>12. Binds(e, w, fr.x, fr.b, v)
  BY <1>5, <1>9, <1>11, ShapedWriteBinds
<1>13. BoundTo(f, e, w, c, rt, I, O)
  BY <1>5, <1>7, <1>10, <1>11, <1>12, ReadBinds
<1>14. Runs(s, e, c)
  BY <1>7, <1>8 DEF Runs
<1>15. Runs(s, w, c)
  BY <1>13, <1>14, RunsTrans DEF BoundTo
<1>16. HasKind(f, w, v, t)
  BY <1>10, <1>13 DEF BoundTo, HasKind, ValuesOf
<1>17. w.pending = s.pending
  BY <1>8, <1>12 DEF Binds
<1>18. Shaped(w)
  BY <1>5, <1>12, ShapedBinds
<1> QED
  BY <1>13, <1>15, <1>16, <1>17, <1>18 DEF PhiRun, BoundTo

\* The phi is parked.
LEMMA ParkRuns ==
  ASSUME NEW f, NEW rt, NEW s, NEW I, NEW O, NEW c, NEW fr, NEW w, NEW v, NEW t,
         PhiRun(f, rt, s, w, c, I, O, v, t), fr.b \in BlocksOf(s),
         <<fr.x, t>> \in I[fr.b], NEW u, ParksPhi(s, fr, w, u, v)
  PROVE  BoundTo(f, w, u, c, rt, I, O)
<1>1. /\ Known(f, w, I, O) /\ Sound(f, w, rt) /\ HasKind(f, w, v, t) /\ w.term = s.term
      /\ Shaped(w)
  BY DEF PhiRun, Runs
<1>2. fr.b \in BlocksOf(w)
  BY <1>1 DEF BlocksOf
<1>3. ASSUME NEW r, ChangesPending(w, u, fr.b, r),
             \A k \in 1 .. Len(r) : \/ k \in 1 .. Len(w.pending[fr.b]) /\ r[k] = w.pending[fr.b][k]
                                    \/ r[k].x = fr.x /\ r[k].phi = v
      PROVE  BoundTo(f, w, u, c, rt, I, O)
  <2>1. /\ u.inst = w.inst /\ u.term = w.term /\ u.preds = w.preds /\ u.defs = w.defs
        /\ \A a \in BlocksOf(w) : a # fr.b => u.pending[a] = w.pending[a]
        /\ u.pending[fr.b] = r
    BY <1>3 DEF ChangesPending
  <2>2. \A a \in BlocksOf(w) : ParkedIn(f, w, I, a)
    BY <1>1 DEF Known
  <2>3. ASSUME NEW a \in BlocksOf(w) PROVE ParkedIn(f, u, I, a)
    <3>1. CASE a # fr.b
      BY <2>1, <2>2, <3>1 DEF ParkedIn, ParkedPair
    <3>2. CASE a = fr.b
      <4>1. SUFFICES ASSUME NEW k \in 1 .. Len(r) PROVE ParkedPair(f, u, r[k]) \in I[fr.b]
        BY <2>1, <3>2 DEF ParkedIn
      <4>2. CASE k \in 1 .. Len(w.pending[fr.b]) /\ r[k] = w.pending[fr.b][k]
        <5>1. ParkedPair(f, w, r[k]) \in I[fr.b]
          BY <1>2, <2>2, <4>2 DEF ParkedIn
        <5> QED
          BY <2>1, <5>1 DEF ParkedPair
      <4>3. CASE r[k].x = fr.x /\ r[k].phi = v
        BY <1>1, <2>1, <4>3 DEF ParkedPair, HasKind
      <4> QED
        BY <1>3, <4>2, <4>3
    <3> QED
      BY <3>1, <3>2
  <2> QED
    BY <1>1, <2>1, <2>3, SameBound
<1>4. IsRow(w.pending[fr.b])
  BY <1>1, <1>2 DEF Shaped
<1>5. CASE fr.b \in s.sealed
  <2>1. PICK r : r = w.pending[fr.b] \o <<>>
    OBVIOUS
  <2>2. u = [w EXCEPT !.pending[fr.b] = r]
    BY <1>5, <2>1 DEF ParksPhi
  <2>3. ChangesPending(w, u, fr.b, r)
    BY <1>1, <1>2, <2>2, ShapedPendingChanges
  <2>4. r = w.pending[fr.b]
    BY <1>4, <2>1, EmptyRow, JoinedNone
  <2> QED
    BY <1>3, <2>3, <2>4
<1>6. CASE fr.b \notin s.sealed
  <2>1. PICK p : Parked(p, fr.x, v) /\ u = [w EXCEPT !.pending[fr.b] = @ \o <<p>>]
    BY <1>6 DEF ParksPhi
  <2>2. PICK r : r = w.pending[fr.b] \o <<p>>
    OBVIOUS
  <2>3. u = [w EXCEPT !.pending[fr.b] = r]
    BY <2>1, <2>2
  <2>4. ChangesPending(w, u, fr.b, r)
    BY <1>1, <1>2, <2>3, ShapedPendingChanges
  <2>5. p.x = fr.x /\ p.phi = v
    BY <2>1 DEF Parked
  <2>6. /\ IsRow(<<p>>) /\ Len(<<p>>) = 1 /\ <<p>>[1] = p
    BY OneRow
  <2>7. ASSUME NEW k \in 1 .. Len(r)
        PROVE  \/ k \in 1 .. Len(w.pending[fr.b]) /\ r[k] = w.pending[fr.b][k]
               \/ r[k].x = fr.x /\ r[k].phi = v
    <3>1. /\ Len(r) = Len(w.pending[fr.b]) + 1 /\ Len(w.pending[fr.b]) \in Nat
          /\ \A j \in 1 .. Len(w.pending[fr.b]) : r[j] = w.pending[fr.b][j]
          /\ r[Len(w.pending[fr.b]) + 1] = p
      <4>1. Len(r) = Len(w.pending[fr.b]) + 1 /\ Len(w.pending[fr.b]) \in Nat
            /\ \A j \in 1 .. Len(w.pending[fr.b]) : r[j] = w.pending[fr.b][j]
        BY <1>4, <2>2, <2>6, Joined DEF IsRow
      <4>2. \A j \in 1 .. 1 : r[Len(w.pending[fr.b]) + j] = <<p>>[j]
        BY <1>4, <2>2, <2>6, Joined
      <4> QED
        BY <2>6, <4>1, <4>2
    <3> QED
      BY <2>5, <3>1, SMTT(60)
  <2> QED
    BY <1>3, <2>4, <2>7
<1> QED
  BY <1>5, <1>6

-----------------------------------------------------------------------------
(* The calls of read_variable.                                             *)
LEMMA LeftOver ==
  ASSUME NEW f, NEW rt, NEW s, NEW c, NEW wk, NEW fr, NEW r, NEW I, NEW O, NEW t,
         RunTop(f, s, c, wk, fr, r, I, O, t), NEW u, Runs(s, u, c), Known(f, u, I, O), Sound(f, u, rt)
  PROVE  RunLeft(f, rt, s, u, c, r, I, O, t)
<1>1. KeepsTypes(s, u)
  BY DEF Runs
<1>2. FramesFit(f, u, I, O, r, t)
  BY <1>1, FramesFitKept DEF RunTop
<1> QED
  BY <1>2 DEF RunLeft
LEMMA StayOver ==
  ASSUME NEW f, NEW rt, NEW s, NEW c, NEW wk, NEW fr, NEW r, NEW I, NEW O, NEW t,
         RunReady(f, rt, s, c, wk, fr, r, I, O, t), NEW q, FramesFit(f, s, I, O, q, t)
  PROVE  RunLeft(f, rt, s, s, c, q, I, O, t)
BY RunsSame DEF RunLeft, RunReady

\* What a call of read_variable knows.
Reading(f, s, c, fr, I, O, t) ==
  /\ fr.b \in BlocksOf(s) /\ fr.x \in Vars /\ (fr.b = c \/ s.term[fr.b].op # "none")
  /\ <<fr.x, t>> \in O[fr.b] /\ BoundAs(f, s, I, O, fr.b) /\ FromAll(s, I, O, fr.b)
LEMMA ReadKnows ==
  ASSUME NEW f, NEW rt, NEW s, NEW c, NEW wk, NEW fr, NEW r, NEW I, NEW O, NEW t,
         RunReady(f, rt, s, c, wk, fr, r, I, O, t), fr.op \in {"read", "write"}
  PROVE  Reading(f, s, c, fr, I, O, t) /\ (fr.op \in {"read"} => Kind(f, fr.ty) = t)
<1>1. RunTop(f, s, c, wk, fr, r, I, O, t)
  BY RunTops
<1>2. /\ FrameFits(f, s, I, O, fr, t) /\ FrameOK(fr, s, c, Shut(s, wk))
      /\ fr.b \in BlocksOf(s) /\ (fr.b = c \/ s.term[fr.b].op # "none")
  BY <1>1 DEF RunTop
<1>3. fr.x \in Vars
  BY <1>2 DEF FrameOK
<1>4. <<fr.x, t>> \in O[fr.b] /\ (fr.op \in {"read"} => Kind(f, fr.ty) = t)
  BY <1>2 DEF FrameFits
<1>5. BoundAs(f, s, I, O, fr.b) /\ FromAll(s, I, O, fr.b)
  BY <1>2 DEF RunReady, Known
<1> QED
  BY <1>2, <1>3, <1>4, <1>5 DEF Reading

LEMMA BoundHere ==
  ASSUME NEW f, NEW s, NEW c, NEW fr, NEW I, NEW O, NEW t, Reading(f, s, c, fr, I, O, t)
  PROVE  IF s.defs[fr.b][fr.x] = NoValue THEN <<fr.x, t>> \in I[fr.b]
         ELSE HasKind(f, s, s.defs[fr.b][fr.x], t)
<1>1. PICK p : p = <<fr.x, t>>
  OBVIOUS
<1>2. p \in O[fr.b] /\ p[1] = fr.x /\ p[2] = t /\ BoundAs(f, s, I, O, fr.b)
  BY <1>1 DEF Reading
<1> QED
  BY <1>1, <1>2 DEF BoundAs

LEMMA LocalFits ==
  ASSUME NEW f, NEW rt, NEW s, NEW c, NEW wk, NEW fr, NEW r, NEW I, NEW O, NEW t,
         RunReady(f, rt, s, c, wk, fr, r, I, O, t), fr.op \in {"read"},
         NEW v \in {s.defs[fr.b][fr.x]}, v # NoValue
  PROVE  RunLeft(f, rt, s, s, c, r, I, O, t) /\ HasKind(f, s, v, t)
<1>1. Reading(f, s, c, fr, I, O, t)
  BY ReadKnows
<1>2. HasKind(f, s, v, t)
  BY <1>1, BoundHere
<1>3. FramesFit(f, s, I, O, r, t)
  BY RunTops DEF RunTop
<1> QED
  BY <1>2, <1>3, StayOver

LEMMA PhiOfRead ==
  ASSUME NEW f, NEW rt, NEW s, NEW c, NEW wk, NEW fr, NEW r, NEW I, NEW O, NEW t,
         RunReady(f, rt, s, c, wk, fr, r, I, O, t), fr.op \in {"read"},
         NEW w, NEW v, BoundPhi(s, fr, w, v)
  PROVE  PhiRun(f, rt, s, w, c, I, O, v, t)
<1>1. Reading(f, s, c, fr, I, O, t) /\ Kind(f, fr.ty) = t
  BY ReadKnows
<1>2. RunTop(f, s, c, wk, fr, r, I, O, t)
  BY RunTops
<1>3. Shaped(s) /\ Parkable(s) /\ Bindable(s) /\ Known(f, s, I, O) /\ Sound(f, s, rt)
  BY <1>2, CoreBindable DEF RunTop, RunReady
<1>4. /\ fr.b \in BlocksOf(s) /\ fr.x \in Vars /\ (fr.b = c \/ s.term[fr.b].op # "none")
      /\ <<fr.x, t>> \in O[fr.b]
  BY <1>1 DEF Reading
<1> QED
  BY <1>1, <1>3, <1>4, PhiRuns

LEMMA EmptyFits ==
  ASSUME NEW f, NEW rt, NEW s, NEW c, NEW wk, NEW fr, NEW r, NEW I, NEW O, NEW t,
         RunReady(f, rt, s, c, wk, fr, r, I, O, t), fr.op \in {"read"},
         s.defs[fr.b][fr.x] = NoValue, NEW u, NEW v, EmptyPhi(s, fr, u, v)
  PROVE  RunLeft(f, rt, s, u, c, r, I, O, t) /\ HasKind(f, u, v, t)
<1>1. PICK w : BoundPhi(s, fr, w, v) /\ ParksPhi(s, fr, w, u, v)
  BY EmptyPhiParts
<1>2. PhiRun(f, rt, s, w, c, I, O, v, t)
  BY <1>1, PhiOfRead
<1>3. Reading(f, s, c, fr, I, O, t) /\ RunTop(f, s, c, wk, fr, r, I, O, t)
  BY ReadKnows, RunTops
<1>4. <<fr.x, t>> \in I[fr.b] /\ fr.b \in BlocksOf(s)
  BY <1>3, BoundHere DEF Reading
<1>5. BoundTo(f, w, u, c, rt, I, O)
  BY <1>1, <1>2, <1>4, ParkRuns
<1>6. Runs(s, u, c)
  <2>1. Runs(s, w, c) /\ Runs(w, u, c)
    BY <1>2, <1>5 DEF BoundTo, PhiRun
  <2> QED
    BY <2>1, RunsTrans
<1>7. HasKind(f, u, v, t)
  BY <1>2, <1>5 DEF BoundTo, PhiRun, HasKind, ValuesOf
<1>8. Known(f, u, I, O) /\ Sound(f, u, rt)
  BY <1>5 DEF BoundTo
<1>9. RunLeft(f, rt, s, u, c, r, I, O, t)
  BY <1>3, <1>6, <1>8, LeftOver
<1> QED
  BY <1>7, <1>9

LEMMA CallFields ==
  ASSUME NEW g, NEW op, NEW x, NEW b, NEW ty, NEW phi, NEW got, IsCall(g, op, x, b, ty, phi, got)
  PROVE  /\ g.op \in {op} /\ g.x \in {x} /\ g.b \in {b} /\ g.ty \in {ty} /\ g.phi \in {phi}
         /\ g.got \in {got}
<1>1. CallShape(g, op, x, b, ty, phi, got)
  BY CallIs
<1> QED
  BY <1>1 DEF CallShape

LEMMA OneFits ==
  ASSUME NEW f, NEW rt, NEW s, NEW c, NEW wk, NEW fr, NEW r, NEW I, NEW O, NEW t,
         RunReady(f, rt, s, c, wk, fr, r, I, O, t), fr.op \in {"read"},
         s.defs[fr.b][fr.x] = NoValue, Len(s.preds[fr.b]) = 1,
         NEW wk2, AsksPredecessor(s, fr, r, wk2)
  PROVE  RunLeft(f, rt, s, s, c, wk2, I, O, t)
<1>1. Reading(f, s, c, fr, I, O, t) /\ RunTop(f, s, c, wk, fr, r, I, O, t) /\ Kind(f, fr.ty) = t
  BY ReadKnows, RunTops
<1>2. <<fr.x, t>> \in I[fr.b] /\ <<fr.x, t>> \in O[fr.b]
  BY <1>1, BoundHere DEF Reading
<1>3. PICK p : p = s.preds[fr.b][1]
  OBVIOUS
<1>4. <<fr.x, t>> \in O[p]
  BY <1>1, <1>2, <1>3 DEF Reading, FromAll
<1>5. PICK g, h : /\ IsCall(g, "read", fr.x, p, fr.ty, 0, <<>>) /\ IsCall(h, "write", fr.x, fr.b, "", 0, <<>>)
                  /\ TwoOnTop(wk2, g, h, r)
  BY <1>3 DEF AsksPredecessor, ReadFrame, WriteFrame, IsCall, TwoOnTop, NoValue
<1>6. FrameFits(f, s, I, O, g, t)
  <2>1. g.op = "read" /\ g.x = fr.x /\ g.b = p /\ g.ty = fr.ty
    BY <1>5, CallFields, ZenonT(60)
  <2> QED
    BY <1>1, <1>4, <2>1 DEF FrameFits
<1>7. FrameFits(f, s, I, O, h, t)
  <2>1. h.op = "write" /\ h.x = fr.x /\ h.b = fr.b
    BY <1>5, CallFields
  <2> QED
    BY <1>2, <2>1 DEF FrameFits
<1>8. FramesFit(f, s, I, O, wk2, t)
  <2>1. IsRow(r) /\ FramesFit(f, s, I, O, r, t)
    BY <1>1 DEF RunTop
  <2> QED
    BY <1>5, <1>6, <1>7, <2>1, FramesFitTwo
<1> QED
  BY <1>8, StayOver

LEMMA MergeFits ==
  ASSUME NEW f, NEW rt, NEW s, NEW c, NEW wk, NEW fr, NEW r, NEW I, NEW O, NEW t,
         RunReady(f, rt, s, c, wk, fr, r, I, O, t), fr.op \in {"read"},
         s.defs[fr.b][fr.x] = NoValue, NEW u, NEW wk2, MergeRead(s, fr, r, u, wk2)
  PROVE  RunLeft(f, rt, s, u, c, wk2, I, O, t)
<1>1. Reading(f, s, c, fr, I, O, t) /\ RunTop(f, s, c, wk, fr, r, I, O, t) /\ Kind(f, fr.ty) = t
  BY ReadKnows, RunTops
<1>2. <<fr.x, t>> \in I[fr.b] /\ <<fr.x, t>> \in O[fr.b]
  BY <1>1, BoundHere DEF Reading
<1>3. PICK v, g, h : MergeCalls(s, fr, r, u, wk2, v, g, h)
  BY MergeParts
<1>4. /\ IsCall(g, "ask", fr.x, fr.b, fr.ty, v, <<>>) /\ IsCall(h, "write", fr.x, fr.b, "", 0, <<>>)
      /\ BoundPhi(s, fr, u, v) /\ TwoOnTop(wk2, g, h, r)
  BY <1>3 DEF MergeCalls
<1>5. PhiRun(f, rt, s, u, c, I, O, v, t)
  BY <1>4, PhiOfRead
<1>6. /\ Runs(s, u, c) /\ Known(f, u, I, O) /\ Sound(f, u, rt) /\ HasKind(f, u, v, t)
  BY <1>5 DEF PhiRun
<1>7. RunLeft(f, rt, s, u, c, r, I, O, t)
  BY <1>1, <1>6, LeftOver
<1>8. FrameFits(f, u, I, O, g, t)
  <2>1. g.op = "ask" /\ g.x = fr.x /\ g.b = fr.b /\ g.ty = fr.ty /\ g.phi = v /\ Len(g.got) = 0
    BY <1>4, CallFields, EmptyRow, ZenonT(60)
  <2>2. Kind(f, u.inst[v].ty) = t
    BY <1>6 DEF HasKind
  <2> QED
    BY <1>1, <1>2, <2>1, <2>2 DEF FrameFits
<1>9. FrameFits(f, u, I, O, h, t)
  <2>1. h.op = "write" /\ h.x = fr.x /\ h.b = fr.b
    BY <1>4, CallFields
  <2> QED
    BY <1>2, <2>1 DEF FrameFits
<1>10. FramesFit(f, u, I, O, wk2, t)
  <2>1. IsRow(r) /\ FramesFit(f, u, I, O, r, t)
    BY <1>1, <1>7 DEF RunTop, RunLeft
  <2> QED
    BY <1>4, <1>8, <1>9, <2>1, FramesFitTwo
<1> QED
  BY <1>6, <1>10 DEF RunLeft

LEMMA WriteFits ==
  ASSUME NEW f, NEW rt, NEW s, NEW c, NEW wk, NEW fr, NEW r, NEW I, NEW O, NEW t,
         RunReady(f, rt, s, c, wk, fr, r, I, O, t), fr.op \in {"write"},
         NEW v, HasKind(f, s, v, t), NEW u, u \in {Write(s, fr.x, fr.b, v)}
  PROVE  RunLeft(f, rt, s, u, c, r, I, O, t) /\ HasKind(f, u, v, t)
<1>1. Reading(f, s, c, fr, I, O, t) /\ RunTop(f, s, c, wk, fr, r, I, O, t)
  BY ReadKnows, RunTops
<1>2. /\ fr.b \in BlocksOf(s) /\ fr.x \in Vars /\ (fr.b = c \/ s.term[fr.b].op # "none")
      /\ <<fr.x, t>> \in O[fr.b]
  BY <1>1 DEF Reading
<1>3. Shaped(s) /\ Bindable(s) /\ Known(f, s, I, O) /\ Sound(f, s, rt)
  BY <1>1, CoreBindable DEF RunTop, RunReady
<1>4. Binds(s, u, fr.x, fr.b, v)
  BY <1>2, <1>3, ShapedWriteBinds
<1>5. BoundTo(f, s, u, c, rt, I, O)
  BY <1>2, <1>3, <1>4, ReadBinds
<1>6. /\ Runs(s, u, c) /\ Known(f, u, I, O) /\ Sound(f, u, rt) /\ u.inst = s.inst
  BY <1>5 DEF BoundTo
<1>7. RunLeft(f, rt, s, u, c, r, I, O, t)
  BY <1>1, <1>6, LeftOver
<1> QED
  BY <1>6, <1>7 DEF HasKind, ValuesOf

-----------------------------------------------------------------------------
(* The calls of add_phi_operands and seal_block.                           *)
Asking(f, s, fr, I, O, t) ==
  /\ Kind(f, fr.ty) = t /\ Kind(f, s.inst[fr.phi].ty) = t /\ <<fr.x, t>> \in I[fr.b]
  /\ \A k \in 1 .. Len(fr.got) : HasKind(f, s, fr.got[k], t)
  /\ fr.b \in BlocksOf(s) /\ FromAll(s, I, O, fr.b) /\ IsPhi(s.inst, fr.phi)
  /\ s.inst[fr.phi].block = fr.b /\ IsRow(fr.got)
LEMMA AskKnows ==
  ASSUME NEW f, NEW rt, NEW s, NEW c, NEW wk, NEW fr, NEW r, NEW I, NEW O, NEW t,
         RunReady(f, rt, s, c, wk, fr, r, I, O, t), fr.op \in {"ask", "take"}
  PROVE  Asking(f, s, fr, I, O, t)
<1>1. /\ FrameFits(f, s, I, O, fr, t) /\ FrameOK(fr, s, c, Shut(s, wk)) /\ fr.b \in BlocksOf(s)
  BY RunTops DEF RunTop
<1>2. /\ Kind(f, fr.ty) = t /\ Kind(f, s.inst[fr.phi].ty) = t /\ <<fr.x, t>> \in I[fr.b]
      /\ \A k \in 1 .. Len(fr.got) : HasKind(f, s, fr.got[k], t)
  BY <1>1 DEF FrameFits
<1>3. IsPhi(s.inst, fr.phi) /\ s.inst[fr.phi].block = fr.b /\ IsRow(fr.got)
  BY <1>1 DEF FrameOK, FrameShape, RowOf
<1>4. FromAll(s, I, O, fr.b)
  BY <1>1 DEF RunReady, Known
<1> QED
  BY <1>1, <1>2, <1>3, <1>4 DEF Asking

\* A call that asks for, or waits for, an operand of the same phi.
LEMMA SameCallFits ==
  ASSUME NEW f, NEW s, NEW fr, NEW I, NEW O, NEW t, Asking(f, s, fr, I, O, t), NEW g,
         g.op \in {"ask", "take"}, g.x \in {fr.x}, g.b \in {fr.b}, g.ty \in {fr.ty},
         g.phi \in {fr.phi}, \A k \in 1 .. Len(g.got) : HasKind(f, s, g.got[k], t)
  PROVE  FrameFits(f, s, I, O, g, t)
<1>1. g.x = fr.x /\ g.b = fr.b /\ g.ty = fr.ty /\ g.phi = fr.phi
  OBVIOUS
<1>2. g.op \notin {"read"} /\ g.op \notin {"write"} /\ g.op \notin {"seal"}
  OBVIOUS
<1> QED
  BY <1>1, <1>2 DEF FrameFits, Asking

LEMMA AskFits ==
  ASSUME NEW f, NEW rt, NEW s, NEW c, NEW wk, NEW fr, NEW r, NEW I, NEW O, NEW t,
         RunReady(f, rt, s, c, wk, fr, r, I, O, t), fr.op \in {"ask"},
         Len(fr.got) < Len(s.preds[fr.b]), NEW wk2, AsksNext(s, fr, r, wk2)
  PROVE  RunLeft(f, rt, s, s, c, wk2, I, O, t)
<1>1. Asking(f, s, fr, I, O, t) /\ RunTop(f, s, c, wk, fr, r, I, O, t)
  BY AskKnows, RunTops
<1>2. /\ Kind(f, fr.ty) = t /\ <<fr.x, t>> \in I[fr.b] /\ FromAll(s, I, O, fr.b) /\ IsRow(fr.got)
      /\ \A k \in 1 .. Len(fr.got) : HasKind(f, s, fr.got[k], t)
  BY <1>1 DEF Asking
<1>3. PICK p : p \in {s.preds[fr.b][Len(fr.got) + 1]}
  OBVIOUS
<1>4. <<fr.x, t>> \in O[p]
  <2>1. Len(fr.got) + 1 \in 1 .. Len(s.preds[fr.b])
    <3>1. Len(fr.got) \in Nat /\ IsRow(s.preds[fr.b])
      BY <1>1, <1>2 DEF IsRow, RunTop, Shaped
    <3>2. Len(s.preds[fr.b]) \in Nat
      BY <3>1 DEF IsRow
    <3> QED
      BY <3>1, <3>2
  <2> QED
    BY <1>2, <1>3, <2>1 DEF FromAll
<1>5. PICK g, h : AskCalls(fr, r, wk2, p, g, h)
  BY <1>3, AskParts
<1>6. /\ IsCall(g, "read", fr.x, p, fr.ty, 0, <<>>)
      /\ IsCall(h, "take", fr.x, fr.b, fr.ty, fr.phi, fr.got) /\ TwoOnTop(wk2, g, h, r)
  BY <1>5 DEF AskCalls
<1>7. FrameFits(f, s, I, O, g, t)
  <2>1. g.op = "read" /\ g.x = fr.x /\ g.b = p /\ g.ty = fr.ty
    BY <1>6, CallFields
  <2> QED
    BY <1>2, <1>4, <2>1 DEF FrameFits
<1>8. FrameFits(f, s, I, O, h, t)
  <2>1. /\ h.op \in {"ask", "take"} /\ h.x \in {fr.x} /\ h.b \in {fr.b} /\ h.ty \in {fr.ty}
        /\ h.phi \in {fr.phi} /\ h.got \in {fr.got}
    BY <1>6, CallFields
  <2>2. \A k \in 1 .. Len(h.got) : HasKind(f, s, h.got[k], t)
    BY <1>2, <2>1
  <2> QED
    BY <1>1, <2>1, <2>2, SameCallFits
<1>9. FramesFit(f, s, I, O, wk2, t)
  <2>1. IsRow(r) /\ FramesFit(f, s, I, O, r, t)
    BY <1>1 DEF RunTop
  <2> QED
    BY <1>6, <1>7, <1>8, <2>1, FramesFitTwo
<1> QED
  BY <1>9, StayOver

LEMMA TakeFits ==
  ASSUME NEW f, NEW rt, NEW s, NEW c, NEW wk, NEW fr, NEW r, NEW I, NEW O, NEW t,
         RunReady(f, rt, s, c, wk, fr, r, I, O, t), fr.op \in {"take"},
         NEW v, HasKind(f, s, v, t), NEW wk2, TakesNext(fr, r, v, wk2)
  PROVE  RunLeft(f, rt, s, s, c, wk2, I, O, t)
<1>1. Asking(f, s, fr, I, O, t) /\ RunTop(f, s, c, wk, fr, r, I, O, t)
  BY AskKnows, RunTops
<1>2. PICK got : got \in {Append(fr.got, v)}
  OBVIOUS
<1>3. PICK g : TakeCall(fr, r, wk2, got, g)
  BY <1>1, <1>2, TakeParts DEF RunTop
<1>4. IsCall(g, "ask", fr.x, fr.b, fr.ty, fr.phi, got) /\ OnTop(wk2, g, r)
  BY <1>3 DEF TakeCall
<1>5. \A k \in 1 .. Len(got) : HasKind(f, s, got[k], t)
  <2>1. IsRow(fr.got) /\ \A k \in 1 .. Len(fr.got) : HasKind(f, s, fr.got[k], t)
    BY <1>1 DEF Asking
  <2>2. /\ Len(got) = Len(fr.got) + 1 /\ (\A k \in 1 .. Len(fr.got) : got[k] = fr.got[k])
        /\ got[Len(fr.got) + 1] = v
    BY <1>2, <2>1, Back
  <2>3. Len(fr.got) \in Nat
    BY <2>1 DEF IsRow
  <2>4. \A k \in 1 .. Len(got) : k \in 1 .. Len(fr.got) \/ k = Len(fr.got) + 1
    BY <2>2, <2>3
  <2> QED
    BY <2>1, <2>2, <2>4
<1>6. FrameFits(f, s, I, O, g, t)
  <2>1. /\ g.op \in {"ask", "take"} /\ g.x \in {fr.x} /\ g.b \in {fr.b} /\ g.ty \in {fr.ty}
        /\ g.phi \in {fr.phi} /\ g.got \in {got}
    BY <1>4, CallFields
  <2>2. \A k \in 1 .. Len(g.got) : HasKind(f, s, g.got[k], t)
    BY <1>5, <2>1
  <2> QED
    BY <1>1, <2>1, <2>2, SameCallFits
<1>7. FramesFit(f, s, I, O, wk2, t)
  <2>1. FramesFit(f, s, I, O, r, t)
    BY <1>1 DEF RunTop
  <2> QED
    BY <1>4, <1>6, <2>1, FramesFitTop
<1> QED
  BY <1>7, StayOver

\* The operands of a phi are filled in.
LEMMA FilledKnown ==
  ASSUME NEW f, NEW rt, NEW s, NEW I, NEW O, Known(f, s, I, O), Sound(f, s, rt), Parkable(s),
         NEW v \in ValuesOf(s), NEW got, NEW u, Fills(s, u, v, got), s.inst[v].kind = "phi",
         \A k \in 1 .. Len(got) : HasKind(f, s, got[k], Kind(f, s.inst[v].ty)), NEW c
  PROVE  Runs(s, u, c) /\ Known(f, u, I, O) /\ Sound(f, u, rt)
<1>1. /\ u.term = s.term /\ u.preds = s.preds /\ u.defs = s.defs /\ u.pending = s.pending
      /\ Len(u.inst) = Len(s.inst) /\ \A w \in ValuesOf(s) : w # v => u.inst[w] = s.inst[w]
  BY DEF Fills
<1>2. BlocksOf(u) = BlocksOf(s) /\ ValuesOf(u) = ValuesOf(s)
  BY <1>1 DEF BlocksOf, ValuesOf
<1>3. u.inst[v].ty = s.inst[v].ty /\ u.inst[v].kind = s.inst[v].kind /\ u.inst[v].args = got
  BY DEF Fills, Instruction
<1>4. KeepsTypes(s, u)
  BY <1>1, <1>2, <1>3 DEF KeepsTypes
<1>5. Runs(s, u, c)
  BY <1>1, <1>4 DEF Runs
<1>6. ASSUME NEW w \in ValuesOf(s) PROVE InstSound(f, u, u.inst[w])
  <2>1. CASE w # v
    BY <1>1, <1>4, <2>1, InstSoundKept DEF Sound
  <2>2. CASE w = v
    <3>1. \A k \in 1 .. Len(got) : HasKind(f, u, got[k], Kind(f, s.inst[v].ty))
      BY <1>4, KindKept
    <3>2. ArgsAre(f, u, u.inst[v], Kind(f, u.inst[v].ty))
      BY <1>3, <3>1 DEF ArgsAre
    <3> QED
      BY <1>3, <2>2, <3>2 DEF InstSound
  <2> QED
    BY <2>1, <2>2
<1>7. \A a \in BlocksOf(s) : TermSound(f, u, s.term[a], rt)
  BY <1>4, TermSoundKept DEF Sound
<1>8. Sound(f, u, rt)
  BY <1>1, <1>2, <1>6, <1>7 DEF Sound
<1>9. Known(f, u, I, O)
  <2>1. Tables(u, I, O)
    BY <1>2 DEF Known, Tables
  <2>2. \A a \in BlocksOf(s) : BoundAs(f, u, I, O, a)
    BY <1>1, <1>4, KindKept DEF Known, BoundAs
  <2>3. \A a \in BlocksOf(s) : OneEach(O[a]) /\ FromAll(u, I, O, a)
    BY <1>1 DEF Known, FromAll
  <2>4. ASSUME NEW a \in BlocksOf(s) PROVE ParkedIn(f, u, I, a)
    <3>1. PICK q : q = s.pending[a]
      OBVIOUS
    <3>2. \A k \in 1 .. Len(q) : ParkedPair(f, s, q[k]) \in I[a] /\ q[k].phi \in ValuesOf(s)
      BY <3>1 DEF Known, ParkedIn, Parkable
    <3>3. \A k \in 1 .. Len(q) : ParkedPair(f, u, q[k]) = ParkedPair(f, s, q[k])
      BY <1>4, <3>2 DEF ParkedPair, KeepsTypes
    <3>4. u.pending[a] = q
      BY <1>1, <3>1
    <3> QED
      BY <3>2, <3>3, <3>4 DEF ParkedIn
  <2> QED
    BY <1>2, <2>1, <2>2, <2>3, <2>4 DEF Known
<1> QED
  BY <1>5, <1>8, <1>9

LEMMA FillFits ==
  ASSUME NEW f, NEW rt, NEW s, NEW c, NEW wk, NEW fr, NEW r, NEW I, NEW O, NEW t,
         RunReady(f, rt, s, c, wk, fr, r, I, O, t), fr.op \in {"ask"}, NEW u, FillsNow(s, fr, u)
  PROVE  RunLeft(f, rt, s, u, c, r, I, O, t) /\ HasKind(f, u, fr.phi, t)
<1>1. Asking(f, s, fr, I, O, t) /\ RunTop(f, s, c, wk, fr, r, I, O, t)
  BY AskKnows, RunTops
<1>2. /\ Kind(f, s.inst[fr.phi].ty) = t /\ (\A k \in 1 .. Len(fr.got) : HasKind(f, s, fr.got[k], t))
      /\ IsPhi(s.inst, fr.phi) /\ s.inst[fr.phi].block = fr.b
  BY <1>1 DEF Asking
<1>3. fr.phi \in ValuesOf(s) /\ s.inst[fr.phi].kind = "phi"
  BY <1>2 DEF IsPhi, ValuesOf
<1>4. Core(s, Shut(s, wk), Busy(wk)) /\ Known(f, s, I, O) /\ Sound(f, s, rt) /\ Parkable(s)
  BY <1>1 DEF RunReady, RunTop
<1>5. Fills(s, u, fr.phi, fr.got)
  BY <1>2, <1>3, <1>4, PhiFills DEF FillsNow
<1>6. Runs(s, u, c) /\ Known(f, u, I, O) /\ Sound(f, u, rt)
  BY <1>2, <1>3, <1>4, <1>5, FilledKnown
<1>7. HasKind(f, u, fr.phi, t)
  BY <1>2, <1>3, <1>6 DEF HasKind, Runs, KeepsTypes
<1> QED
  BY <1>1, <1>6, <1>7, LeftOver

\* seal_block fills in the phis parked in its block, each with its own type.
LEMMA SealFits ==
  ASSUME NEW f, NEW rt, NEW s, NEW c, NEW wk, NEW fr, NEW r, NEW I, NEW O, NEW t,
         RunReady(f, rt, s, c, wk, fr, r, I, O, t), fr.op \in {"seal"},
         SealTop(s, c, wk, fr, r), Len(fr.rest) > 0, NEW wk2, SealsOne(s, fr, r, wk2)
  PROVE  \E T : RunLeft(f, rt, s, s, c, wk2, I, O, T)
<1>1. RunTop(f, s, c, wk, fr, r, I, O, t)
  BY RunTops
<1>2. FrameFits(f, s, I, O, fr, t)
  BY <1>1 DEF RunTop
<1>3. \A k \in 1 .. Len(fr.rest) : ParkedPair(f, s, fr.rest[k]) \in I[fr.b]
  BY <1>2 DEF FrameFits
<1>4. IsRow(fr.rest) /\ IsRow(r) /\ Len(r) = 0
  BY DEF SealTop, RowOf
<1>5. PICK p, rest, g, h : OnTop(fr.rest, p, rest) /\ SealCalls(s, fr, r, wk2, p, rest, g, h)
  BY <1>4, SealParts
<1>6. /\ IsCall(g, "ask", p.x, fr.b, s.inst[p.phi].ty, p.phi, <<>>) /\ IsSeal(h, fr.b, rest)
      /\ TwoOnTop(wk2, g, h, r)
  BY <1>5 DEF SealCalls
<1>7. PICK T : T \in {Kind(f, s.inst[p.phi].ty)}
  OBVIOUS
<1>8. ParkedPair(f, s, p) \in I[fr.b]
  BY <1>3, <1>5 DEF OnTop
<1>9. <<p.x, T>> \in I[fr.b]
  BY <1>7, <1>8 DEF ParkedPair
<1>10. FrameFits(f, s, I, O, g, T)
  <2>1. /\ g.op \in {"ask"} /\ g.x \in {p.x} /\ g.b \in {fr.b} /\ g.ty \in {s.inst[p.phi].ty}
        /\ g.phi \in {p.phi} /\ g.got \in {<<>>}
    BY <1>6, CallFields
  <2>2. Len(g.got) = 0
    BY <2>1, EmptyRow
  <2> QED
    BY <1>7, <1>9, <2>1, <2>2 DEF FrameFits
<1>11. FrameFits(f, s, I, O, h, T)
  <2>1. SealShape(h, fr.b, rest)
    BY <1>6, SealFrameIs
  <2>2. h.op \in {"seal"} /\ h.b = fr.b /\ h.rest = rest
    BY <2>1 DEF SealShape
  <2>3. \A k \in 1 .. Len(rest) : ParkedPair(f, s, rest[k]) \in I[fr.b]
    <3>1. \A k \in 1 .. Len(rest) : k + 1 \in 1 .. Len(fr.rest) /\ rest[k] = fr.rest[k + 1]
      BY <1>4, <1>5 DEF OnTop, IsRow
    <3> QED
      BY <1>3, <3>1
  <2> QED
    BY <2>2, <2>3 DEF FrameFits
<1>12. FramesFit(f, s, I, O, r, T)
  BY <1>4 DEF FramesFit
<1>13. FramesFit(f, s, I, O, wk2, T)
  BY <1>4, <1>6, <1>10, <1>11, <1>12, FramesFitTwo
<1>14. Known(f, s, I, O) /\ Sound(f, s, rt) /\ Runs(s, s, c)
  BY RunsSame DEF RunReady
<1>15. RunLeft(f, rt, s, s, c, wk2, I, O, T)
  BY <1>13, <1>14 DEF RunLeft
<1> QED
  BY <1>15

\* The block is sealed.
LEMMA DoneFits ==
  ASSUME NEW f, NEW rt, NEW s, NEW c, NEW wk, NEW fr, NEW r, NEW I, NEW O, NEW t,
         RunReady(f, rt, s, c, wk, fr, r, I, O, t), fr.op \in {"seal"},
         SealTop(s, c, wk, fr, r), NEW u, u \in {SealFresh(s, {fr.b})}
  PROVE  RunLeft(f, rt, s, u, c, r, I, O, t)
<1>1. RunTop(f, s, c, wk, fr, r, I, O, t)
  BY RunTops
<1>2. Known(f, s, I, O) /\ Sound(f, s, rt)
  BY DEF RunReady
<1>3. /\ u.inst = s.inst /\ u.term = s.term /\ u.preds = s.preds /\ u.defs = s.defs
      /\ u.pending = s.pending
  <2>1. PICK shut, busy : Core(s, shut, busy) /\ fr.b \in shut
    BY DEF RunReady, SealTop
  <2>2. PICK bs \in SUBSET shut : u = SealFresh(s, bs)
    BY <2>1
  <2>3. /\ SealFresh(s, bs).inst = s.inst /\ SealFresh(s, bs).term = s.term
        /\ SealFresh(s, bs).preds = s.preds /\ SealFresh(s, bs).defs = s.defs
        /\ SealFresh(s, bs).pending = s.pending
    BY <2>1, CoreSeal, SMT
  <2> QED
    BY <2>2, <2>3
<1>4. \A b \in BlocksOf(s) : ParkedIn(f, u, I, b)
  <2>1. \A b \in BlocksOf(s) : ParkedIn(f, s, I, b)
    BY <1>2 DEF Known
  <2> QED
    BY <1>3, <2>1 DEF ParkedIn, ParkedPair
<1>5. BoundTo(f, s, u, c, rt, I, O)
  BY <1>2, <1>3, <1>4, SameBound
<1>6. Runs(s, u, c) /\ Known(f, u, I, O) /\ Sound(f, u, rt)
  BY <1>5 DEF BoundTo
<1> QED
  BY <1>1, <1>6, LeftOver

-----------------------------------------------------------------------------
(* A step of the builder.                                                  *)
\* What is known of the names and of the calls in progress.
Fit(f, rt, s, c, q, sc, md, wk, v, e, I, O, t) ==
  Typed(f, rt, s, c, q, sc, I, O) /\ Fitting(f, s, I, O, md, wk, v, e, t)

LEMMA Readies ==
  ASSUME NEW f, NEW rt, NEW s, NEW c, NEW q, NEW sc, NEW md, NEW wk, NEW v, NEW e, NEW I, NEW O,
         NEW t, Fit(f, rt, s, c, q, sc, md, wk, v, e, I, O, t), Held(s, c, q, wk),
         NEW fr, NEW r, NEW op, TopCall(wk, fr, r, op)
  PROVE  RunReady(f, rt, s, c, wk, fr, r, I, O, t) /\ fr.op \in {op}
BY DEF Fit, Typed, Fitting, Held, TopCall, RunReady

\* The constructs in progress while the builder runs keep no block but the current one.
LEMMA RunAnchored ==
  ASSUME NEW md, NEW wk, NEW v, NEW s, NEW c, NEW q, Phase(md, wk, v, s, c, q), Len(wk) > 0
  PROVE  \A i \in 1 .. Len(q) : AnchoredAt(q[i], c)
<1>1. /\ md \in {"stmt", "reading"} /\ (md \in {"stmt"} => Bodied(q))
      /\ md \in {"reading"} => \E o, r : OnTop(q, o, r) /\ o.k = "name" /\ Waiting(r, c)
  BY DEF Phase
<1>2. CASE md \in {"stmt"}
  BY <1>1, <1>2, BodiedAnchored
<1>3. CASE md \in {"reading"}
  <2>m. PICK o, r : OnTop(q, o, r) /\ o.k = "name" /\ Waiting(r, c)
    BY <1>1, <1>3
  <2>1. \A i \in 1 .. Len(r) : AnchoredAt(r[i], c)
    BY <2>m, WaitingAnchored
  <2>2. AnchoredAt(o, c)
    BY <2>m DEF AnchoredAt
  <2>3. \A i \in 1 .. Len(q) : i = 1 \/ (i - 1 \in 1 .. Len(r) /\ q[i] = r[i - 1])
    <3>1. /\ Len(r) \in Nat /\ Len(q) = Len(r) + 1
          /\ \A k \in 1 .. Len(r) : q[k + 1] = r[k]
      BY <2>m DEF OnTop, IsRow
    <3>2. ASSUME NEW i \in 1 .. Len(q), i # 1 PROVE i - 1 \in 1 .. Len(r) /\ q[i] = r[i - 1]
      <4>1. i - 1 \in 1 .. Len(r) /\ (i - 1) + 1 = i
        BY <3>1, <3>2
      <4> QED
        BY <3>1, <4>1
    <3> QED
      BY <3>2
  <2>4. q[1] = o
    BY <2>m DEF OnTop
  <2> QED
    BY <2>1, <2>2, <2>3, <2>4
<1> QED
  BY <1>1, <1>2, <1>3

Answers(f, u, md, wk2, v2, t) ==
  /\ Len(wk2) > 0 /\ wk2[1].op \in {"write", "take"} => HasKind(f, u, v2, t)
  /\ Len(wk2) = 0 /\ md \in {"reading"} => HasKind(f, u, v2, t)
LEMMA RunMoves ==
  ASSUME NEW f, NEW rt, NEW s, NEW c, NEW q, NEW sc, NEW md, NEW wk, NEW v, NEW e, NEW I, NEW O,
         NEW t, Fit(f, rt, s, c, q, sc, md, wk, v, e, I, O, t), Held(s, c, q, wk),
         Phase(md, wk, v, s, c, q), Len(wk) > 0, NEW u, NEW wk2, NEW v2, NEW T,
         RunLeft(f, rt, s, u, c, wk2, I, O, T), md \notin {"stmt"} => T = t,
         Answers(f, u, md, wk2, v2, T)
  PROVE  Fit(f, rt, u, c, q, sc, md, wk2, v2, e, I, O, T)
<1>1. /\ Runs(s, u, c) /\ Known(f, u, I, O) /\ Sound(f, u, rt) /\ FramesFit(f, u, I, O, wk2, T)
  BY DEF RunLeft
<1>2. Core(s, Shut(s, wk), Busy(wk)) /\ Stacked(q, s, c, Shut(s, wk))
  BY DEF Held
<1>3. \A i \in 1 .. Len(q) : AnchoredAt(q[i], c)
  BY RunAnchored
<1>4. Typed(f, rt, s, c, q, sc, I, O) /\ Fitting(f, s, I, O, md, wk, v, e, t)
  BY DEF Fit
<1>5. Typed(f, rt, u, c, q, sc, I, O)
  BY <1>1, <1>2, <1>3, <1>4, RunsTyped
<1>6. md \in {"stmt", "reading"}
  BY DEF Phase
<1>7. md \in {"reading"} => t = Kind(f, e)
  BY <1>4 DEF Fitting, ReturnFits
<1>8. md \in {"reading"} => T = Kind(f, e)
  BY <1>7
<1>9. md \in {"reading"} /\ Len(wk2) = 0 => HasKind(f, u, v2, T)
  BY DEF Answers
<1>10. Len(wk2) > 0 /\ wk2[1].op \in {"write", "take"} => HasKind(f, u, v2, T)
  BY DEF Answers
<1>11. md \notin {"value"}
  BY <1>6
<1>12. ReturnFits(f, u, md, wk2, v2, e, T)
  BY <1>8, <1>9, <1>10, <1>11 DEF ReturnFits
<1> QED
  BY <1>1, <1>5, <1>12 DEF Fit, Fitting

\* A call that is pushed does not wait for a value.
Asked(wk2) == Len(wk2) > 0 /\ wk2[1].op \in {"read", "ask"}
LEMMA AskedAnswers ==
  ASSUME NEW wk2, Asked(wk2), NEW f, NEW u, NEW md, NEW v2, NEW t
  PROVE  Answers(f, u, md, wk2, v2, t)
<1>1. Len(wk2) # 0 /\ wk2[1].op \notin {"write", "take"}
  BY DEF Asked
<1> QED
  BY <1>1 DEF Answers
LEMMA TwoAsked ==
  ASSUME NEW wk2, NEW g, NEW h, NEW r, IsRow(r), TwoOnTop(wk2, g, h, r), g.op \in {"read", "ask"}
  PROVE  Asked(wk2)
<1>1. PICK mid : OnTop(<<g, h>> \o r, g, mid)
  BY TwoCalls
<1>2. PICK q : q = <<g, h>> \o r
  OBVIOUS
<1>3. OnTop(q, g, mid)
  BY <1>1, <1>2
<1>4. Len(q) > 0 /\ q[1] = g
  BY <1>3 DEF OnTop, IsRow
<1>5. wk2 = q
  BY <1>2 DEF TwoOnTop
<1> QED
  BY <1>4, <1>5 DEF Asked
LEMMA ReadyRest ==
  ASSUME NEW f, NEW rt, NEW s, NEW c, NEW wk, NEW fr, NEW r, NEW I, NEW O, NEW t,
         RunReady(f, rt, s, c, wk, fr, r, I, O, t)
  PROVE  IsRow(r)
BY DEF RunReady, OnTop
LEMMA OneAsked ==
  ASSUME NEW f, NEW rt, NEW s, NEW c, NEW wk, NEW fr, NEW r, NEW I, NEW O, NEW t,
         RunReady(f, rt, s, c, wk, fr, r, I, O, t), NEW wk2, AsksPredecessor(s, fr, r, wk2)
  PROVE  Asked(wk2)
<1>1. PICK g, h : g = ReadFrame(fr.x, s.preds[fr.b][1], fr.ty) /\ h = WriteFrame(fr.x, fr.b)
  OBVIOUS
<1>2. TwoOnTop(wk2, g, h, r)
  BY <1>1 DEF AsksPredecessor, TwoOnTop
<1>3. g.op = "read"
  BY <1>1 DEF ReadFrame, Frame
<1> QED
  BY <1>2, <1>3, ReadyRest, TwoAsked
LEMMA MergeAsked ==
  ASSUME NEW f, NEW rt, NEW s, NEW c, NEW wk, NEW fr, NEW r, NEW I, NEW O, NEW t,
         RunReady(f, rt, s, c, wk, fr, r, I, O, t), NEW u, NEW wk2, MergeRead(s, fr, r, u, wk2)
  PROVE  Asked(wk2)
<1>1. PICK v, g, h : MergeCalls(s, fr, r, u, wk2, v, g, h)
  BY MergeParts
<1>2. IsCall(g, "ask", fr.x, fr.b, fr.ty, v, <<>>) /\ TwoOnTop(wk2, g, h, r)
  BY <1>1 DEF MergeCalls
<1>3. g.op \in {"ask"}
  BY <1>2, CallFields
<1> QED
  BY <1>2, <1>3, ReadyRest, TwoAsked
LEMMA OperandAsked ==
  ASSUME NEW f, NEW rt, NEW s, NEW c, NEW wk, NEW fr, NEW r, NEW I, NEW O, NEW t,
         RunReady(f, rt, s, c, wk, fr, r, I, O, t), NEW wk2, AsksNext(s, fr, r, wk2)
  PROVE  Asked(wk2)
<1>1. PICK p : p \in {s.preds[fr.b][Len(fr.got) + 1]}
  OBVIOUS
<1>2. PICK g, h : AskCalls(fr, r, wk2, p, g, h)
  BY <1>1, AskParts
<1>3. IsCall(g, "read", fr.x, p, fr.ty, 0, <<>>) /\ TwoOnTop(wk2, g, h, r)
  BY <1>2 DEF AskCalls
<1>4. g.op \in {"read"}
  BY <1>3, CallFields
<1> QED
  BY <1>3, <1>4, ReadyRest, TwoAsked
LEMMA TakeAsked ==
  ASSUME NEW f, NEW rt, NEW s, NEW c, NEW wk, NEW fr, NEW r, NEW I, NEW O, NEW t,
         RunReady(f, rt, s, c, wk, fr, r, I, O, t), NEW v, NEW wk2, TakesNext(fr, r, v, wk2)
  PROVE  Asked(wk2)
<1>1. PICK got : got \in {Append(fr.got, v)}
  OBVIOUS
<1>2. PICK g : TakeCall(fr, r, wk2, got, g)
  BY <1>1, ReadyRest, TakeParts
<1>3. IsCall(g, "ask", fr.x, fr.b, fr.ty, fr.phi, got) /\ OnTop(wk2, g, r)
  BY <1>2 DEF TakeCall
<1>4. g.op \in {"ask"}
  BY <1>3, CallFields
<1>5. Len(wk2) > 0 /\ wk2[1] = g
  BY <1>3 DEF OnTop, IsRow
<1> QED
  BY <1>4, <1>5 DEF Asked
LEMMA SealAsked ==
  ASSUME NEW s, NEW fr, NEW r, IsRow(r), IsRow(fr.rest), Len(fr.rest) > 0,
         NEW wk2, SealsOne(s, fr, r, wk2)
  PROVE  Asked(wk2)
<1>1. PICK p, rest, g, h : OnTop(fr.rest, p, rest) /\ SealCalls(s, fr, r, wk2, p, rest, g, h)
  BY SealParts
<1>2. IsCall(g, "ask", p.x, fr.b, s.inst[p.phi].ty, p.phi, <<>>) /\ TwoOnTop(wk2, g, h, r)
  BY <1>1 DEF SealCalls
<1>3. g.op \in {"ask"}
  BY <1>2, CallFields
<1> QED
  BY <1>2, <1>3, TwoAsked
=============================================================================
