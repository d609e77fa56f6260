--------------------------- MODULE BuilderProofs ----------------------------
(***************************************************************************)
(* Lemmas about the SSA builder and about how the function parser uses it, *)
(* for every function body.  The builder's record is described by          *)
(* predicates on its fields (Core), and each method by what it keeps of    *)
(* them, for any record; the parser's call stack by what an open construct *)
(* still owes (EntryOK, Stacked); the builder's own by what a call in      *)
(* progress relies on (FrameOK, FramesOK).  Inv puts them together, and    *)
(* the last part takes the builder's calls through one step each.  Nothing *)
(* here speaks of a behaviour: ParserProofs does.                          *)
(***************************************************************************)
EXTENDS ParserProps, FunctionTheorems, FiniteSetTheorems, SequenceTheorems, TLAPS

-----------------------------------------------------------------------------
(* Rows: sequences of anything.                                            *)

IsRow(r) == Len(r) \in Nat /\ r = [k \in 1 .. Len(r) |-> r[k]]
RowOf(r, S) == IsRow(r) /\ \A k \in 1 .. Len(r) : r[k] \in S

\* q is r with o in front.
OnTop(q, o, r) == /\ IsRow(r) /\ IsRow(q) /\ Len(q) = Len(r) + 1
                  /\ q[1] = o /\ \A k \in 1 .. Len(r) : q[k + 1] = r[k]

LEMMA RowIsSeq ==
  ASSUME NEW S, NEW r
  PROVE  RowOf(r, S) <=> r \in Seq(S)
<1>1. ASSUME RowOf(r, S) PROVE r \in Seq(S)
  BY <1>1 DEF RowOf, IsRow
<1>2. ASSUME r \in Seq(S) PROVE RowOf(r, S)
  BY <1>2, LenProperties DEF RowOf, IsRow
<1> QED
  BY <1>1, <1>2

LEMMA RowMade ==
  ASSUME NEW n \in Nat, NEW q, q = [k \in 1 .. n |-> q[k]]
  PROVE  IsRow(q) /\ Len(q) = n
<1> DEFINE S == {q[k] : k \in 1 .. n}
<1>1. q \in [1 .. n -> S]
  OBVIOUS
<1> HIDE DEF S
<1>2. q \in Seq(S) /\ Len(q) = n
  BY <1>1
<1> QED
  BY <1>2 DEF IsRow

LEMMA RowExcept ==
  ASSUME NEW r, IsRow(r), NEW i \in 1 .. Len(r), NEW o, NEW q, q = [r EXCEPT ![i] = o]
  PROVE  /\ IsRow(q) /\ Len(q) = Len(r) /\ q[i] = o
         /\ \A k \in 1 .. Len(r) \ {i} : q[k] = r[k]
<1> DEFINE n == Len(r)
<1>1. n \in Nat /\ DOMAIN r = 1 .. n /\ i \in 1 .. n
  BY DEF IsRow
<1> HIDE DEF n
<1>2. q[i] = o /\ \A k \in 1 .. n \ {i} : q[k] = r[k]
  BY <1>1
<1>3. q = [k \in 1 .. n |-> q[k]]
  BY <1>1
<1>4. IsRow(q) /\ Len(q) = n
  BY <1>1, <1>3, RowMade
<1> QED
  BY <1>2, <1>4 DEF n

LEMMA Joined ==
  ASSUME NEW s, NEW t, IsRow(s), IsRow(t)
  PROVE  /\ IsRow(s \o t) /\ Len(s \o t) = Len(s) + Len(t)
         /\ \A k \in 1 .. Len(s) : (s \o t)[k] = s[k]
         /\ \A k \in 1 .. Len(t) : (s \o t)[Len(s) + k] = t[k]
<1> DEFINE m == Len(s)
           n == Len(t)
           S == {s[k] : k \in 1 .. m} \cup {t[k] : k \in 1 .. n}
<1>1. m \in Nat /\ s = [k \in 1 .. m |-> s[k]] /\ n \in Nat /\ t = [k \in 1 .. n |-> t[k]]
  BY DEF IsRow
<1>2. s \in [1 .. m -> S] /\ t \in [1 .. n -> S]
  BY <1>1
<1> HIDE DEF S, m, n
<1>3. s \in Seq(S) /\ Len(s) = m /\ t \in Seq(S) /\ Len(t) = n
  BY <1>1, <1>2
<1>4. /\ s \o t \in Seq(S) /\ Len(s \o t) = m + n
      /\ \A k \in 1 .. m + n : (s \o t)[k] = IF k <= m THEN s[k] ELSE t[k - m]
  BY <1>3, ConcatProperties
<1>5. s \o t = [k \in 1 .. Len(s \o t) |-> (s \o t)[k]]
  BY <1>4, LenProperties
<1>6. \A k \in 1 .. m : (s \o t)[k] = s[k]
  BY <1>1, <1>4
<1>7. \A k \in 1 .. n : (s \o t)[m + k] = t[k]
  <2> SUFFICES ASSUME NEW k \in 1 .. n PROVE (s \o t)[m + k] = t[k]
    OBVIOUS
  <2>1. m + k \in 1 .. m + n /\ ~(m + k <= m) /\ (m + k) - m = k
    BY <1>1
  <2> QED
    BY <1>4, <2>1
<1> QED
  BY <1>1, <1>4, <1>5, <1>6, <1>7 DEF IsRow, m, n

LEMMA Front ==
  ASSUME NEW o, NEW r, IsRow(r)
  PROVE  OnTop(<<o>> \o r, o, r)
<1> PICK f, q : f = <<o>> /\ q = f \o r
  OBVIOUS
<1>1. IsRow(f) /\ Len(f) = 1 /\ f[1] = o
  BY DEF IsRow
<1>2. /\ IsRow(q) /\ Len(q) = Len(f) + Len(r)
      /\ \A k \in 1 .. Len(f) : q[k] = f[k]
      /\ \A k \in 1 .. Len(r) : q[Len(f) + k] = r[k]
  BY <1>1, Joined
<1>3. Len(r) \in Nat /\ 1 \in 1 .. 1
  BY DEF IsRow
<1>4. Len(q) = Len(r) + 1
  BY <1>1, <1>2, <1>3
<1>5. \A k \in 1 .. Len(r) : q[k + 1] = r[k]
  BY <1>1, <1>2, <1>3
<1>6. q[1] = o
  BY <1>1, <1>2, <1>3, Zenon
<1>7. OnTop(q, o, r)
  BY <1>2, <1>4, <1>5, <1>6 DEF OnTop
<1> QED
  BY <1>7

LEMMA Back ==
  ASSUME NEW r, IsRow(r), NEW o
  PROVE  /\ IsRow(Append(r, o)) /\ Len(Append(r, o)) = Len(r) + 1
         /\ \A k \in 1 .. Len(r) : Append(r, o)[k] = r[k]
         /\ Append(r, o)[Len(r) + 1] = o
<1> DEFINE n == Len(r)
           S == {r[k] : k \in 1 .. n} \cup {o}
<1>1. n \in Nat /\ r = [k \in 1 .. n |-> r[k]]
  BY DEF IsRow
<1>2. r \in [1 .. n -> S] /\ o \in S
  BY <1>1
<1> HIDE DEF S, n
<1>3. r \in Seq(S) /\ Len(r) = n
  BY <1>1, <1>2
<1>4. /\ Append(r, o) \in Seq(S) /\ Len(Append(r, o)) = n + 1
      /\ \A k \in 1 .. n : Append(r, o)[k] = r[k]
      /\ Append(r, o)[n + 1] = o
  BY <1>2, <1>3, AppendProperties
<1>5. IsRow(Append(r, o))
  BY <1>4, LenProperties DEF IsRow
<1> QED
  BY <1>4, <1>5 DEF n

LEMMA Split ==
  ASSUME NEW r, IsRow(r), Len(r) > 0
  PROVE  OnTop(r, Head(r), Tail(r))
<1> DEFINE n == Len(r)
           S == {r[k] : k \in 1 .. n}
<1>1. n \in Nat /\ n > 0 /\ r = [k \in 1 .. n |-> r[k]]
  BY DEF IsRow
<1>2. r \in [1 .. n -> S]
  BY <1>1
<1> HIDE DEF S, n
<1>3. r \in Seq(S) /\ Len(r) = n /\ r # <<>>
  BY <1>1, <1>2
<1> PICK t : t = Tail(r)
  OBVIOUS
<1>4. /\ t \in Seq(S) /\ Len(t) = n - 1 /\ Head(r) = r[1]
      /\ \A k \in 1 .. n - 1 : t[k] = r[k + 1]
  BY <1>1, <1>3, HeadTailProperties
<1>5. IsRow(t)
  BY <1>4, LenProperties DEF IsRow
<1>6. OnTop(r, Head(r), t)
  <2>1. n - 1 \in Nat /\ n = (n - 1) + 1
    BY <1>1
  <2> QED
    BY <1>4, <1>5, <2>1 DEF OnTop, n
<1> QED
  BY <1>6

-----------------------------------------------------------------------------
(* The builder's record.                                                   *)

IsRecord(s) == s = [inst |-> s.inst, term |-> s.term, preds |-> s.preds, defs |-> s.defs,
                    sealed |-> s.sealed, pending |-> s.pending]
BlocksOf(s) == 1 .. Len(s.term)
ValuesOf(s) == 1 .. Len(s.inst)

\* Every name is one of n blocks or of m values; a branch has two targets.
TermOK(t, n, m) ==
  /\ t = [op |-> t.op, arg |-> t.arg, to |-> t.to]
  /\ t.op \in {"none", "jump", "branch", "return"}
  /\ t.arg \in 0 .. m
  /\ RowOf(t.to, 1 .. n)
  /\ \A j, k \in 1 .. Len(t.to) : t.to[j] = t.to[k] => j = k
  /\ t.op = "none" => Len(t.to) = 0
InstOK(i, n, m) ==
  /\ i = [block |-> i.block, kind |-> i.kind, ty |-> i.ty, args |-> i.args, from |-> i.from]
  /\ i.block \in 1 .. n /\ i.kind \in InstKinds /\ i.ty \in Types
  /\ RowOf(i.args, 1 .. m) /\ RowOf(i.from, 1 .. n)

TermsOK(term, m) == IsRow(term) /\ \A b \in 1 .. Len(term) : TermOK(term[b], Len(term), m)
InstsOK(inst, n) == IsRow(inst) /\ \A v \in 1 .. Len(inst) : InstOK(inst[v], n, Len(inst))
DefsOK(defs, n, m) == /\ IsRow(defs) /\ Len(defs) = n
                      /\ \A b \in 1 .. n : defs[b] \in [Vars -> 0 .. m]
PendingOK(pending, n, m) == /\ IsRow(pending) /\ Len(pending) = n
                            /\ \A b \in 1 .. n : RowOf(pending[b], [x : Vars, phi : 1 .. m])

\* r lists S, each element once.
Lists(r, S) == /\ IsRow(r)
               /\ \A p : p \in S <=> \E k \in 1 .. Len(r) : r[k] = p
               /\ \A j, k \in 1 .. Len(r) : r[j] = r[k] => j = k
Agrees(term, preds) ==
  /\ IsRow(preds) /\ Len(preds) = Len(term)
  /\ \A b \in 1 .. Len(term) : Lists(preds[b], Predecessors(term, b))

\* A block a branch leads to has no other predecessor, no phi, and is shut:
\* sealed, or being sealed.
PhiFree(inst, c) == \A v \in 1 .. Len(inst) : inst[v].kind = "phi" => inst[v].block # c
ForkTarget(term, c) == \E b \in 1 .. Len(term) : term[b].op = "branch" /\ c \in Successors(term[b])
Forks(term, preds, shut, inst) ==
  \A c : ForkTarget(term, c) => c \in shut /\ Len(preds[c]) = 1 /\ PhiFree(inst, c)

\* Only an open block has phis parked, each the binding of its variable or not
\* but a binding there is.
IsPhi(inst, v) == v \in 1 .. Len(inst) /\ inst[v].kind = "phi"
ParkedAt(p, b, inst, defs) ==
  /\ p.x \in Vars /\ defs[b][p.x] # NoValue /\ IsPhi(inst, p.phi) /\ inst[p.phi].block = b
Parks(inst, defs, pending, shut) ==
  /\ \A b \in shut : Len(pending[b]) = 0
  /\ \A b \in 1 .. Len(pending) : \A k \in 1 .. Len(pending[b]) :
       ParkedAt(pending[b][k], b, inst, defs)

\* A phi has its operands, or they are being read, or it is parked.
Complete(i, preds, shut) ==
  i.block \in shut /\ i.from = preds[i.block] /\ Len(i.args) = Len(i.from)
IsParked(v, pending) ==
  \E b \in 1 .. Len(pending) : \E k \in 1 .. Len(pending[b]) : pending[b][k].phi = v
PhisKnown(inst, preds, pending, shut, busy) ==
  \A v : IsPhi(inst, v) =>
    Complete(inst[v], preds, shut) \/ v \in busy \/ IsParked(v, pending)

Core(s, shut, busy) ==
  /\ IsRecord(s) /\ s.sealed \subseteq shut /\ shut \subseteq BlocksOf(s)
  /\ TermsOK(s.term, Len(s.inst)) /\ InstsOK(s.inst, Len(s.term))
  /\ DefsOK(s.defs, Len(s.term), Len(s.inst)) /\ PendingOK(s.pending, Len(s.term), Len(s.inst))
  /\ Agrees(s.term, s.preds)
  /\ Forks(s.term, s.preds, shut, s.inst)
  /\ Parks(s.inst, s.defs, s.pending, shut)
  /\ PhisKnown(s.inst, s.preds, s.pending, shut, busy)

-----------------------------------------------------------------------------
(* More blocks and more values leave everything well named.                *)

LEMMA TermsGrow ==
  ASSUME NEW t, NEW n \in Nat, NEW m \in Nat, NEW n2 \in Nat, NEW m2 \in Nat,
         n <= n2, m <= m2, TermOK(t, n, m)
  PROVE  TermOK(t, n2, m2)
<1>1. 0 .. m \subseteq 0 .. m2 /\ 1 .. n \subseteq 1 .. n2
  OBVIOUS
<1> QED
  BY <1>1 DEF TermOK, RowOf

LEMMA InstsGrow ==
  ASSUME NEW i, NEW n \in Nat, NEW m \in Nat, NEW n2 \in Nat, NEW m2 \in Nat,
         n <= n2, m <= m2, InstOK(i, n, m)
  PROVE  InstOK(i, n2, m2)
<1>1. 1 .. m \subseteq 1 .. m2 /\ 1 .. n \subseteq 1 .. n2
  OBVIOUS
<1> QED
  BY <1>1 DEF InstOK, RowOf

LEMMA DefsGrow ==
  ASSUME NEW defs, NEW n, NEW m \in Nat, NEW m2 \in Nat, m <= m2, DefsOK(defs, n, m)
  PROVE  DefsOK(defs, n, m2)
<1>1. 0 .. m \subseteq 0 .. m2
  OBVIOUS
<1> QED
  BY <1>1 DEF DefsOK

LEMMA PendingGrows ==
  ASSUME NEW pending, NEW n, NEW m \in Nat, NEW m2 \in Nat, m <= m2, PendingOK(pending, n, m)
  PROVE  PendingOK(pending, n, m2)
<1>1. [x : Vars, phi : 1 .. m] \subseteq [x : Vars, phi : 1 .. m2]
  OBVIOUS
<1> QED
  BY <1>1 DEF PendingOK, RowOf

LEMMA SuccessorsKnown ==
  ASSUME NEW term, NEW m, TermsOK(term, m), NEW b \in 1 .. Len(term)
  PROVE  Successors(term[b]) \subseteq 1 .. Len(term)
<1>1. RowOf(term[b].to, 1 .. Len(term))
  BY DEF TermsOK, TermOK
<1> QED
  BY <1>1 DEF RowOf, IsRow, Successors

LEMMA CoreLens ==
  ASSUME NEW s, NEW shut, NEW busy, Core(s, shut, busy)
  PROVE  /\ Len(s.term) \in Nat /\ Len(s.inst) \in Nat
         /\ Len(s.preds) = Len(s.term) /\ Len(s.defs) = Len(s.term)
         /\ Len(s.pending) = Len(s.term)
         /\ IsRow(s.term) /\ IsRow(s.inst) /\ IsRow(s.preds) /\ IsRow(s.defs) /\ IsRow(s.pending)
         /\ \A b \in BlocksOf(s) : IsRow(s.preds[b]) /\ IsRow(s.pending[b])
BY DEF Core, TermsOK, InstsOK, DefsOK, PendingOK, Agrees, IsRow, BlocksOf, Lists, RowOf

\* As little of it as the methods need.
Shaped(s) ==
  /\ IsRecord(s) /\ Len(s.term) \in Nat /\ Len(s.inst) \in Nat
  /\ IsRow(s.term) /\ IsRow(s.inst) /\ IsRow(s.preds) /\ IsRow(s.defs) /\ IsRow(s.pending)
  /\ Len(s.preds) = Len(s.term) /\ Len(s.defs) = Len(s.term) /\ Len(s.pending) = Len(s.term)
  /\ \A b \in BlocksOf(s) : IsRow(s.preds[b]) /\ IsRow(s.pending[b])

LEMMA CoreShaped ==
  ASSUME NEW s, NEW shut, NEW busy, Core(s, shut, busy)
  PROVE  Shaped(s)
BY CoreLens DEF Core, Shaped

-----------------------------------------------------------------------------
(* new_block.                                                              *)

\* q is r with o behind.
Appended(q, r, o) == /\ IsRow(r) /\ IsRow(q) /\ Len(q) = Len(r) + 1
                     /\ q[Len(r) + 1] = o /\ \A k \in 1 .. Len(r) : q[k] = r[k]
AddsBlock(s, u) ==
  /\ IsRecord(u) /\ u.inst = s.inst /\ u.sealed = s.sealed
  /\ Appended(u.term, s.term, NoTerm) /\ Appended(u.preds, s.preds, <<>>)
  /\ Appended(u.defs, s.defs, NoDefs) /\ Appended(u.pending, s.pending, <<>>)

LEMMA ShapedNewBlockAdds ==
  ASSUME NEW s, Shaped(s)
  PROVE  AddsBlock(s, NewBlock(s))
<1> PICK u : u = NewBlock(s)
  OBVIOUS
<1>1. IsRow(s.term) /\ IsRow(s.preds) /\ IsRow(s.defs) /\ IsRow(s.pending)
  BY DEF Shaped
<1>2. u = [inst |-> s.inst, term |-> Append(s.term, NoTerm), preds |-> Append(s.preds, <<>>),
           defs |-> Append(s.defs, NoDefs), sealed |-> s.sealed,
           pending |-> Append(s.pending, <<>>)]
  BY DEF NewBlock, Shaped, IsRecord
<1>3. \A r, o : IsRow(r) => Appended(Append(r, o), r, o)
  BY Back DEF Appended
<1>4. AddsBlock(s, u)
  BY <1>1, <1>2, <1>3 DEF AddsBlock, IsRecord
<1> QED
  BY <1>4

LEMMA NewBlockAdds ==
  ASSUME NEW s, NEW shut, NEW busy, Core(s, shut, busy)
  PROVE  AddsBlock(s, NewBlock(s))
BY CoreShaped, ShapedNewBlockAdds

LEMMA EmptyRow == IsRow(<<>>) /\ Len(<<>>) = 0 /\ \A S : RowOf(<<>>, S)
BY DEF IsRow, RowOf

LEMMA NoTargets == Successors(NoTerm) = {} /\ \A n, m \in Nat : TermOK(NoTerm, n, m)
BY EmptyRow DEF Successors, NoTerm, TermOK, RowOf, NoValue

\* The new block is open, has no predecessors and nothing in it.
LEMMA CoreNewBlock ==
  ASSUME NEW s, NEW shut, NEW busy, Core(s, shut, busy), NEW u, AddsBlock(s, u)
  PROVE  Core(u, shut, busy)
<1> DEFINE n == Len(s.term)
<1>0. /\ TermsOK(s.term, Len(s.inst)) /\ InstsOK(s.inst, n)
      /\ DefsOK(s.defs, n, Len(s.inst)) /\ PendingOK(s.pending, n, Len(s.inst))
      /\ Parks(s.inst, s.defs, s.pending, shut)
  BY DEF Core
<1>1. /\ n \in Nat /\ Len(s.inst) \in Nat /\ Len(s.preds) = n /\ Len(s.defs) = n
      /\ Len(s.pending) = n
  BY CoreLens
<1>2. /\ Len(u.term) = n + 1 /\ u.term[n + 1] = NoTerm /\ \A b \in 1 .. n : u.term[b] = s.term[b]
      /\ IsRow(u.term)
  BY DEF AddsBlock, Appended
<1>3. /\ Len(u.preds) = n + 1 /\ u.preds[n + 1] = <<>> /\ \A b \in 1 .. n : u.preds[b] = s.preds[b]
      /\ IsRow(u.preds)
  BY <1>1 DEF AddsBlock, Appended
<1>4. /\ Len(u.defs) = n + 1 /\ u.defs[n + 1] = NoDefs /\ \A b \in 1 .. n : u.defs[b] = s.defs[b]
      /\ IsRow(u.defs)
  BY <1>1 DEF AddsBlock, Appended
<1>5. /\ Len(u.pending) = n + 1 /\ u.pending[n + 1] = <<>>
      /\ \A b \in 1 .. n : u.pending[b] = s.pending[b]
      /\ IsRow(u.pending)
  BY <1>1 DEF AddsBlock, Appended
<1>6. IsRecord(u) /\ u.inst = s.inst /\ u.sealed = s.sealed
  BY DEF AddsBlock
<1>7. 1 .. n + 1 = 1 .. n \cup {n + 1} /\ n + 1 \in Nat
  BY <1>1
<1>8. TermsOK(u.term, Len(u.inst))
  <2>1. ASSUME NEW b \in 1 .. n PROVE TermOK(u.term[b], n + 1, Len(s.inst))
    BY <1>1, <1>2, TermsGrow DEF Core, TermsOK
  <2>2. TermOK(u.term[n + 1], n + 1, Len(s.inst))
    BY <1>1, <1>2, <1>7, NoTargets
  <2> QED
    BY <1>2, <1>6, <1>7, <2>1, <2>2 DEF TermsOK
<1>9. InstsOK(u.inst, Len(u.term))
  BY <1>1, <1>2, <1>6, <1>7, InstsGrow DEF Core, InstsOK
<1>10. DefsOK(u.defs, Len(u.term), Len(u.inst))
  <2>1. NoDefs \in [Vars -> 0 .. Len(s.inst)]
    BY <1>1 DEF NoDefs, NoValue
  <2>2. \A b \in 1 .. n : s.defs[b] \in [Vars -> 0 .. Len(s.inst)]
    BY <1>0 DEF DefsOK
  <2>3. \A b \in 1 .. n + 1 : u.defs[b] \in [Vars -> 0 .. Len(s.inst)]
    BY <1>4, <1>7, <2>1, <2>2
  <2> QED
    BY <1>2, <1>4, <1>6, <2>3 DEF DefsOK
<1>11. PendingOK(u.pending, Len(u.term), Len(u.inst))
  <2>1. \A b \in 1 .. n : RowOf(s.pending[b], [x : Vars, phi : 1 .. Len(s.inst)])
    BY <1>0 DEF PendingOK
  <2>2. \A b \in 1 .. n + 1 : RowOf(u.pending[b], [x : Vars, phi : 1 .. Len(s.inst)])
    BY <1>5, <1>7, <2>1, EmptyRow
  <2>3. IsRow(u.pending) /\ Len(u.pending) = n + 1 /\ Len(u.term) = n + 1
    BY <1>2, <1>5, Zenon
  <2>4. Len(u.inst) = Len(s.inst)
    BY <1>6
  <2> QED
    BY <2>2, <2>3, <2>4, Zenon DEF PendingOK
<1>12. /\ \A b \in 1 .. n : Successors(u.term[b]) = Successors(s.term[b])
       /\ Successors(u.term[n + 1]) = {}
  BY <1>2, NoTargets
<1>a. \A b \in 1 .. n : Successors(s.term[b]) \subseteq 1 .. n
  BY <1>0, SuccessorsKnown
<1>b. DOMAIN u.term = 1 .. n + 1 /\ DOMAIN s.term = 1 .. n
  BY <1>2, CoreLens DEF IsRow
<1>13. Agrees(u.term, u.preds)
  <2>1. \A b \in 1 .. n : Predecessors(u.term, b) = Predecessors(s.term, b)
    BY <1>7, <1>12, <1>b DEF Predecessors
  <2>2. Predecessors(u.term, n + 1) = {}
    <3>1. \A b \in 1 .. n : n + 1 \notin Successors(s.term[b])
      <4>1. n + 1 \notin 1 .. n
        BY <1>1
      <4> QED
        BY <1>a, <4>1, Zenon
    <3>2. \A b \in 1 .. n + 1 : n + 1 \notin Successors(u.term[b])
      BY <1>7, <1>12, <3>1
    <3> QED
      BY <1>b, <3>2 DEF Predecessors
  <2>3. Lists(<<>>, {})
    BY EmptyRow DEF Lists
  <2>4. \A b \in 1 .. n : Lists(u.preds[b], Predecessors(u.term, b))
    BY <1>3, <2>1 DEF Core, Agrees
  <2> QED
    BY <1>2, <1>3, <1>7, <2>2, <2>3, <2>4 DEF Agrees
<1>14. \A c : ForkTarget(u.term, c) => ForkTarget(s.term, c) /\ c \in 1 .. n
  BY <1>2, <1>7, <1>12, <1>a DEF ForkTarget
<1>15. Forks(u.term, u.preds, shut, u.inst)
  BY <1>3, <1>6, <1>14 DEF Forks, Core
<1>16. Parks(u.inst, u.defs, u.pending, shut)
  <2>1. shut \subseteq 1 .. n
    BY DEF Core, BlocksOf
  <2>2. \A b \in shut : Len(u.pending[b]) = 0
    BY <1>5, <2>1 DEF Core, Parks
  <2>3. ASSUME NEW b \in 1 .. n, NEW k \in 1 .. Len(u.pending[b])
        PROVE  ParkedAt(u.pending[b][k], b, u.inst, u.defs)
    <3>1. u.pending[b] = s.pending[b] /\ u.defs[b] = s.defs[b] /\ b \in 1 .. Len(s.pending)
      BY <1>1, <1>4, <1>5
    <3>2. ParkedAt(s.pending[b][k], b, s.inst, s.defs)
      BY <1>0, <3>1 DEF Parks
    <3> QED
      BY <1>6, <3>1, <3>2 DEF ParkedAt
  <2>4. 1 .. Len(u.pending[n + 1]) = {}
    BY <1>5, EmptyRow
  <2> QED
    BY <1>5, <1>7, <2>2, <2>3, <2>4 DEF Parks
<1>17. PhisKnown(u.inst, u.preds, u.pending, shut, busy)
  <2> SUFFICES ASSUME NEW v, IsPhi(u.inst, v)
               PROVE  \/ Complete(u.inst[v], u.preds, shut) \/ v \in busy
                      \/ IsParked(v, u.pending)
    BY DEF PhisKnown
  <2>1. Complete(s.inst[v], s.preds, shut) \/ v \in busy \/ IsParked(v, s.pending)
    BY <1>6 DEF Core, PhisKnown
  <2>2. shut \subseteq 1 .. n
    BY DEF Core, BlocksOf
  <2>3. Complete(s.inst[v], s.preds, shut) => Complete(u.inst[v], u.preds, shut)
    BY <1>3, <1>6, <2>2 DEF Complete
  <2>4. IsParked(v, s.pending) => IsParked(v, u.pending)
    BY <1>1, <1>5, <1>7 DEF IsParked
  <2> QED
    BY <2>1, <2>3, <2>4
<1>18. u.sealed \subseteq shut /\ shut \subseteq BlocksOf(u)
  BY <1>1, <1>2, <1>6 DEF Core, BlocksOf
<1> QED
  BY <1>6, <1>8, <1>9, <1>10, <1>11, <1>13, <1>15, <1>16, <1>17, <1>18 DEF Core

-----------------------------------------------------------------------------
(* terminate.                                                              *)

\* u is s with block b ended by t: every block t leads to gets b as its last
\* predecessor.
Ends(s, u, b, t) ==
  /\ IsRecord(u) /\ u.inst = s.inst /\ u.defs = s.defs /\ u.sealed = s.sealed
  /\ u.pending = s.pending
  /\ IsRow(u.term) /\ Len(u.term) = Len(s.term) /\ u.term[b] = t
  /\ \A c \in BlocksOf(s) \ {b} : u.term[c] = s.term[c]
  /\ IsRow(u.preds) /\ Len(u.preds) = Len(s.preds)
  /\ \A c \in BlocksOf(s) \cap Successors(t) : Appended(u.preds[c], s.preds[c], b)
  /\ \A c \in BlocksOf(s) \ Successors(t) : u.preds[c] = s.preds[c]

LEMMA RowsEqual ==
  ASSUME NEW q, NEW r, IsRow(q), IsRow(r), Len(q) = Len(r), \A k \in 1 .. Len(r) : q[k] = r[k]
  PROVE  q = r
BY DEF IsRow

LEMMA JoinedNone ==
  ASSUME NEW p, NEW i, IsRow(p), IsRow(i), Len(i) = 0
  PROVE  p \o i = p
<1>0. PICK q : q = p \o i
  OBVIOUS
<1>1. /\ IsRow(q) /\ Len(q) = Len(p) + Len(i)
      /\ \A k \in 1 .. Len(p) : q[k] = p[k]
  BY <1>0, Joined
<1>2. Len(q) = Len(p)
  BY <1>1 DEF IsRow
<1> QED
  BY <1>0, <1>1, <1>2, RowsEqual

\* q is p with i behind.
Joins(q, p, i) == /\ IsRow(q) /\ Len(q) = Len(p) + Len(i)
                  /\ \A k \in 1 .. Len(p) : q[k] = p[k]
                  /\ \A k \in 1 .. Len(i) : q[Len(p) + k] = i[k]

LEMMA JoinedJoins ==
  ASSUME NEW p, NEW i, IsRow(p), IsRow(i)
  PROVE  Joins(p \o i, p, i)
BY Joined DEF Joins

LEMMA JoinsOne ==
  ASSUME NEW q, NEW p, NEW i, NEW b, IsRow(p), Joins(q, p, i), Len(i) = 1, i[1] = b
  PROVE  Appended(q, p, b)
<1>1. 1 \in 1 .. Len(i) /\ Len(q) = Len(p) + 1
  BY DEF Joins
<1>2. q[Len(p) + 1] = b
  BY <1>1 DEF Joins
<1> QED
  BY <1>1, <1>2 DEF Appended, Joins

LEMMA EdgesOnce ==
  ASSUME NEW t, NEW n, NEW m, TermOK(t, n, m), NEW c
  PROVE  Cardinality(EdgesTo(t, c)) = IF c \in Successors(t) THEN 1 ELSE 0
<1>1. DOMAIN t.to = 1 .. Len(t.to)
  BY DEF TermOK, RowOf, IsRow
<1>2. CASE c \in Successors(t)
  <2>1. PICK k \in DOMAIN t.to : t.to[k] = c
    BY <1>2 DEF Successors
  <2>2. EdgesTo(t, c) = {k}
    BY <1>1, <2>1 DEF EdgesTo, TermOK
  <2> QED
    BY <1>2, <2>2, FS_Singleton
<1>3. CASE c \notin Successors(t)
  <2>1. EdgesTo(t, c) = {}
    BY <1>3 DEF Successors, EdgesTo
  <2> QED
    BY <1>3, <2>1, FS_EmptySet
<1> QED
  BY <1>2, <1>3

LEMMA ShapedTerminateEnds ==
  ASSUME NEW s, Shaped(s), NEW b \in BlocksOf(s), NEW t,
         TermOK(t, Len(s.term), Len(s.inst))
  PROVE  Ends(s, Terminate(s, b, t), b, t)
<1>0. PICK u : u = Terminate(s, b, t)
  OBVIOUS
<1> DEFINE into(c) == [k \in 1 .. Cardinality(EdgesTo(t, c)) |-> b]
<1>1. /\ IsRow(s.term) /\ IsRow(s.preds) /\ Len(s.preds) = Len(s.term)
      /\ \A c \in BlocksOf(s) : IsRow(s.preds[c])
  BY DEF Shaped
<1>2. u = [inst |-> s.inst, term |-> [s.term EXCEPT ![b] = t],
           preds |-> [c \in DOMAIN s.preds |-> s.preds[c] \o into(c)],
           defs |-> s.defs, sealed |-> s.sealed, pending |-> s.pending]
  BY <1>0 DEF Terminate, Shaped, IsRecord
<1> HIDE DEF into
<1>3. IsRecord(u) /\ u.inst = s.inst /\ u.defs = s.defs /\ u.sealed = s.sealed
      /\ u.pending = s.pending
  BY <1>2 DEF IsRecord
<1>4. /\ IsRow(u.term) /\ Len(u.term) = Len(s.term) /\ u.term[b] = t
      /\ \A c \in BlocksOf(s) \ {b} : u.term[c] = s.term[c]
  <2>1. u.term = [s.term EXCEPT ![b] = t] /\ b \in 1 .. Len(s.term)
    BY <1>2 DEF BlocksOf
  <2>2. /\ IsRow(u.term) /\ Len(u.term) = Len(s.term) /\ u.term[b] = t
        /\ \A c \in 1 .. Len(s.term) \ {b} : u.term[c] = s.term[c]
    <3>1. IsRow(s.term) /\ b \in 1 .. Len(s.term)
      BY <1>1, <2>1
    <3> QED
      BY <2>1, <3>1, RowExcept
  <2> QED
    BY <2>2 DEF BlocksOf
<1>5. /\ IsRow(u.preds) /\ Len(u.preds) = Len(s.preds)
      /\ \A c \in BlocksOf(s) : u.preds[c] = s.preds[c] \o into(c)
  <2>1. DOMAIN s.preds = BlocksOf(s) /\ BlocksOf(s) = 1 .. Len(s.preds) /\ Len(s.preds) \in Nat
    BY <1>1 DEF IsRow, BlocksOf
  <2>2. u.preds = [c \in BlocksOf(s) |-> s.preds[c] \o into(c)]
    BY <1>2, <2>1, Zenon
  <2>3. \A c \in BlocksOf(s) : u.preds[c] = s.preds[c] \o into(c)
    BY <2>2
  <2>4. u.preds = [c \in 1 .. Len(s.preds) |-> u.preds[c]]
    BY <2>1, <2>2
  <2> QED
    BY <2>1, <2>3, <2>4, RowMade
<1>6. \A c : /\ IsRow(into(c))
             /\ c \in Successors(t) => Len(into(c)) = 1 /\ into(c)[1] = b
             /\ c \notin Successors(t) => Len(into(c)) = 0
  <2> TAKE c
  <2>1. CASE c \in Successors(t)
    <3>1. into(c) = [k \in 1 .. 1 |-> b]
      BY <2>1, EdgesOnce DEF into
    <3> QED
      BY <2>1, <3>1 DEF IsRow
  <2>2. CASE c \notin Successors(t)
    <3>1. into(c) = [k \in 1 .. 0 |-> b]
      BY <2>2, EdgesOnce DEF into
    <3> QED
      BY <2>2, <3>1 DEF IsRow
  <2> QED
    BY <2>1, <2>2
<1>7. ASSUME NEW c \in BlocksOf(s), c \in Successors(t)
      PROVE  Appended(u.preds[c], s.preds[c], b)
  <2>1. IsRow(s.preds[c]) /\ IsRow(into(c)) /\ Len(into(c)) = 1 /\ into(c)[1] = b
    BY <1>1, <1>6, <1>7
  <2>2. Joins(s.preds[c] \o into(c), s.preds[c], into(c))
    BY <2>1, JoinedJoins
  <2>3. Appended(s.preds[c] \o into(c), s.preds[c], b)
    BY <2>1, <2>2, JoinsOne
  <2> QED
    BY <1>5, <2>3, Zenon
<1>8. ASSUME NEW c \in BlocksOf(s), c \notin Successors(t)
      PROVE  u.preds[c] = s.preds[c]
  <2>1. IsRow(s.preds[c]) /\ IsRow(into(c)) /\ Len(into(c)) = 0
    BY <1>1, <1>6, <1>8
  <2>2. s.preds[c] \o into(c) = s.preds[c]
    BY <2>1, JoinedNone
  <2> QED
    BY <1>5, <2>2, Zenon
<1>9. Ends(s, u, b, t)
  BY <1>3, <1>4, <1>5, <1>7, <1>8 DEF Ends
<1> QED
  BY <1>0, <1>9

LEMMA TerminateEnds ==
  ASSUME NEW s, NEW shut, NEW busy, Core(s, shut, busy), NEW b \in BlocksOf(s), NEW t,
         TermOK(t, Len(s.term), Len(s.inst))
  PROVE  Ends(s, Terminate(s, b, t), b, t)
BY CoreShaped, ShapedTerminateEnds

LEMMA ListsOneMore ==
  ASSUME NEW r, NEW q, NEW S, NEW b, Lists(r, S), b \notin S, Appended(q, r, b)
  PROVE  Lists(q, S \cup {b})
<1> DEFINE n == Len(r)
<1>1. /\ n \in Nat /\ IsRow(q) /\ Len(q) = n + 1 /\ q[n + 1] = b
      /\ \A k \in 1 .. n : q[k] = r[k]
  BY DEF Lists, Appended, IsRow
<1>2. 1 .. n + 1 = 1 .. n \cup {n + 1} /\ n + 1 \notin 1 .. n
  BY <1>1
<1>3. \A p : p \in S <=> \E k \in 1 .. n : q[k] = p
  BY <1>1 DEF Lists
<1>4. \A p : p \in S \cup {b} <=> \E k \in 1 .. n + 1 : q[k] = p
  BY <1>1, <1>2, <1>3
<1>5. ASSUME NEW j \in 1 .. n + 1, NEW k \in 1 .. n + 1, q[j] = q[k] PROVE j = k
  <2>1. CASE j \in 1 .. n /\ k \in 1 .. n
    BY <1>1, <1>5, <2>1 DEF Lists
  <2>2. \A i \in 1 .. n : q[i] # b
    BY <1>3
  <2> QED
    BY <1>1, <1>2, <1>5, <2>1, <2>2
<1> QED
  BY <1>1, <1>4, <1>5 DEF Lists

\* b is none of the predecessors there were, so it is listed once.
LEMMA EndsAgrees ==
  ASSUME NEW s, NEW u, NEW b \in BlocksOf(s), NEW t, NEW m, Ends(s, u, b, t),
         TermsOK(s.term, m), Agrees(s.term, s.preds), s.term[b].op = "none"
  PROVE  Agrees(u.term, u.preds)
<1> DEFINE n == Len(s.term)
<1>1. Successors(s.term[b]) = {}
  <2>1. IsRow(s.term[b].to) /\ Len(s.term[b].to) = 0
    BY DEF TermsOK, TermOK, RowOf, BlocksOf
  <2>2. DOMAIN s.term[b].to = 1 .. 0
    BY <2>1 DEF IsRow
  <2> QED
    BY <2>2 DEF Successors
<1>2. DOMAIN s.term = 1 .. n /\ DOMAIN u.term = 1 .. n /\ n \in Nat /\ b \in 1 .. n
  BY DEF TermsOK, IsRow, Ends, BlocksOf
<1>3. \A c \in 1 .. n : \A p \in 1 .. n \ {b} :
        p \in Predecessors(u.term, c) <=> p \in Predecessors(s.term, c)
  BY <1>2 DEF Ends, Predecessors, BlocksOf
<1>4. \A c \in 1 .. n : b \notin Predecessors(s.term, c)
  BY <1>1 DEF Predecessors
<1>5. \A c \in 1 .. n : b \in Predecessors(u.term, c) <=> c \in Successors(t)
  BY <1>2 DEF Ends, Predecessors
<1>6. \A c \in 1 .. n : Predecessors(u.term, c) \subseteq 1 .. n /\ Predecessors(s.term, c) \subseteq 1 .. n
  BY <1>2 DEF Predecessors
<1>7. ASSUME NEW c \in 1 .. n, c \in Successors(t)
      PROVE  Lists(u.preds[c], Predecessors(u.term, c))
  <2>1. Predecessors(u.term, c) = Predecessors(s.term, c) \cup {b}
    BY <1>3, <1>5, <1>6, <1>7, <1>2
  <2>2. Appended(u.preds[c], s.preds[c], b)
    BY <1>7 DEF Ends, BlocksOf
  <2>3. Lists(s.preds[c], Predecessors(s.term, c))
    BY DEF Agrees
  <2>4. b \notin Predecessors(s.term, c)
    BY <1>4
  <2> QED
    BY <2>1, <2>2, <2>3, <2>4, ListsOneMore
<1>8. ASSUME NEW c \in 1 .. n, c \notin Successors(t)
      PROVE  Lists(u.preds[c], Predecessors(u.term, c))
  <2>0. \A p \in 1 .. n : p \in Predecessors(u.term, c) <=> p \in Predecessors(s.term, c)
    BY <1>3, <1>4, <1>5, <1>8
  <2>1. Predecessors(u.term, c) = Predecessors(s.term, c)
    BY <1>6, <2>0
  <2>2. u.preds[c] = s.preds[c]
    BY <1>8 DEF Ends, BlocksOf
  <2> QED
    BY <2>1, <2>2 DEF Agrees
<1>9. IsRow(u.preds) /\ Len(u.preds) = Len(u.term) /\ Len(u.term) = n
  BY DEF Ends, Agrees
<1> QED
  BY <1>7, <1>8, <1>9 DEF Agrees

\* The targets are open, so no phi's operands are missing one; those of a
\* branch are shut with it.
LEMMA CoreEnds ==
  ASSUME NEW s, NEW shut, NEW busy, Core(s, shut, busy), NEW b \in BlocksOf(s),
         s.term[b].op = "none", NEW t, TermOK(t, Len(s.term), Len(s.inst)), t.op # "none",
         NEW u, Ends(s, u, b, t), Successors(t) \cap shut = {},
         t.op = "branch" => \A c \in Successors(t) : Len(s.preds[c]) = 0 /\ PhiFree(s.inst, c),
         NEW shut2, shut \subseteq shut2, shut2 \subseteq BlocksOf(s),
         \A c \in shut2 : Len(s.pending[c]) = 0,
         t.op = "branch" => Successors(t) \subseteq shut2
  PROVE  Core(u, shut2, busy)
<1> DEFINE n == Len(s.term)
<1>0. /\ TermsOK(s.term, Len(s.inst)) /\ InstsOK(s.inst, n)
      /\ DefsOK(s.defs, n, Len(s.inst)) /\ PendingOK(s.pending, n, Len(s.inst))
      /\ Agrees(s.term, s.preds) /\ Forks(s.term, s.preds, shut, s.inst)
      /\ Parks(s.inst, s.defs, s.pending, shut)
      /\ PhisKnown(s.inst, s.preds, s.pending, shut, busy)
      /\ s.sealed \subseteq shut /\ shut \subseteq 1 .. n
  BY DEF Core, BlocksOf
<1>1. /\ n \in Nat /\ Len(s.inst) \in Nat /\ IsRow(s.preds) /\ Len(s.preds) = n
      /\ BlocksOf(s) = 1 .. n
  BY CoreLens DEF BlocksOf
<1>2. /\ IsRecord(u) /\ u.inst = s.inst /\ u.defs = s.defs /\ u.sealed = s.sealed
      /\ u.pending = s.pending /\ IsRow(u.term) /\ Len(u.term) = n
  BY DEF Ends
<1>3. /\ u.term[b] = t /\ \A c \in 1 .. n \ {b} : u.term[c] = s.term[c]
  BY <1>1 DEF Ends
<1>4. \A c \in 1 .. n \ Successors(t) : u.preds[c] = s.preds[c]
  BY <1>1 DEF Ends
<1>5. TermsOK(u.term, Len(u.inst))
  BY <1>0, <1>2, <1>3 DEF TermsOK
<1>6. Agrees(u.term, u.preds)
  BY <1>0, EndsAgrees
<1>7. \A c \in shut : u.preds[c] = s.preds[c] /\ c \in 1 .. n
  BY <1>0, <1>4
<1>8. Forks(u.term, u.preds, shut2, u.inst)
  <2> SUFFICES ASSUME NEW c, ForkTarget(u.term, c)
               PROVE  c \in shut2 /\ Len(u.preds[c]) = 1 /\ PhiFree(s.inst, c)
    BY <1>2 DEF Forks
  <2>1. CASE ForkTarget(s.term, c)
    <3>1. c \in shut /\ Len(s.preds[c]) = 1 /\ PhiFree(s.inst, c)
      BY <1>0, <2>1 DEF Forks
    <3> QED
      BY <1>7, <3>1
  <2>2. CASE ~ForkTarget(s.term, c)
    <3>1. t.op = "branch" /\ c \in Successors(t)
      BY <1>2, <1>3, <2>2 DEF ForkTarget
    <3>2. c \in shut2 /\ c \in BlocksOf(s) /\ Len(s.preds[c]) = 0 /\ PhiFree(s.inst, c)
      BY <3>1
    <3>3. Appended(u.preds[c], s.preds[c], b)
      BY <3>1, <3>2 DEF Ends
    <3> QED
      BY <3>2, <3>3 DEF Appended
  <2> QED
    BY <2>1, <2>2
<1>9. Parks(u.inst, u.defs, u.pending, shut2)
  BY <1>0, <1>2 DEF Parks
<1>10. PhisKnown(u.inst, u.preds, u.pending, shut2, busy)
  <2>1. \A i : Complete(i, s.preds, shut) => Complete(i, u.preds, shut2)
    BY <1>7 DEF Complete
  <2> QED
    BY <1>0, <1>2, <2>1 DEF PhisKnown
<1>11. u.sealed \subseteq shut2 /\ shut2 \subseteq BlocksOf(u)
  BY <1>0, <1>1, <1>2 DEF BlocksOf
<1> QED
  BY <1>0, <1>2, <1>5, <1>6, <1>8, <1>9, <1>10, <1>11 DEF Core

-----------------------------------------------------------------------------
(* Sealing.                                                                *)

LEMMA CoreSeal ==
  ASSUME NEW s, NEW shut, NEW busy, Core(s, shut, busy), NEW bs \in SUBSET shut
  PROVE  /\ Core(SealFresh(s, bs), shut, busy)
         /\ SealFresh(s, bs).sealed = s.sealed \cup bs
         /\ SealFresh(s, bs).inst = s.inst /\ SealFresh(s, bs).term = s.term
         /\ SealFresh(s, bs).preds = s.preds /\ SealFresh(s, bs).defs = s.defs
         /\ SealFresh(s, bs).pending = s.pending
<1>0. PICK u : u = SealFresh(s, bs)
  OBVIOUS
<1>1. u = [inst |-> s.inst, term |-> s.term, preds |-> s.preds, defs |-> s.defs,
           sealed |-> s.sealed \cup bs, pending |-> s.pending]
  BY <1>0 DEF SealFresh, Core, IsRecord
<1>2. /\ u.inst = s.inst /\ u.term = s.term /\ u.preds = s.preds /\ u.defs = s.defs
      /\ u.sealed = s.sealed \cup bs /\ u.pending = s.pending /\ IsRecord(u)
  BY <1>1 DEF IsRecord
<1>3. Core(u, shut, busy)
  BY <1>2 DEF Core, BlocksOf
<1> QED
  BY <1>0, <1>2, <1>3

\* A block with nothing parked may count as shut.
LEMMA CoreShut ==
  ASSUME NEW s, NEW shut, NEW busy, Core(s, shut, busy), NEW bs \in SUBSET BlocksOf(s),
         \A b \in bs : Len(s.pending[b]) = 0
  PROVE  Core(s, shut \cup bs, busy)
<1>1. Forks(s.term, s.preds, shut \cup bs, s.inst)
  BY DEF Core, Forks
<1>2. Parks(s.inst, s.defs, s.pending, shut \cup bs)
  BY DEF Core, Parks
<1>3. PhisKnown(s.inst, s.preds, s.pending, shut \cup bs, busy)
  BY DEF Core, PhisKnown, Complete
<1> QED
  BY <1>1, <1>2, <1>3 DEF Core

LEMMA CoreBusier ==
  ASSUME NEW s, NEW shut, NEW busy, Core(s, shut, busy), NEW busy2, busy \subseteq busy2
  PROVE  Core(s, shut, busy2)
BY DEF Core, PhisKnown

-----------------------------------------------------------------------------
(* Instructions and bindings.                                              *)

AddsInst(s, u, i) ==
  /\ IsRecord(u) /\ u.term = s.term /\ u.preds = s.preds /\ u.defs = s.defs
  /\ u.sealed = s.sealed /\ u.pending = s.pending /\ Appended(u.inst, s.inst, i)

Instruction(b, kind, ty, args, from) ==
  [block |-> b, kind |-> kind, ty |-> ty, args |-> args, from |-> from]

LEMMA ShapedEmitAdds ==
  ASSUME NEW s, Shaped(s),
         NEW b, NEW kind, NEW ty, NEW args, NEW from
  PROVE  AddsInst(s, Emit(s, b, kind, ty, args, from), Instruction(b, kind, ty, args, from))
<1> DEFINE i == Instruction(b, kind, ty, args, from)
<1>0. PICK u : u = Emit(s, b, kind, ty, args, from)
  OBVIOUS
<1>1. u = [inst |-> Append(s.inst, i), term |-> s.term, preds |-> s.preds, defs |-> s.defs,
           sealed |-> s.sealed, pending |-> s.pending]
  BY <1>0 DEF Emit, Shaped, IsRecord, Instruction
<1> HIDE DEF i
<1>2. IsRow(s.inst)
  BY DEF Shaped
<1>3. Appended(Append(s.inst, i), s.inst, i)
  BY <1>2, Back DEF Appended
<1>4. AddsInst(s, u, i)
  BY <1>1, <1>3 DEF AddsInst, IsRecord
<1> QED
  BY <1>0, <1>4 DEF i

LEMMA EmitAdds ==
  ASSUME NEW s, NEW shut, NEW busy, Core(s, shut, busy),
         NEW b, NEW kind, NEW ty, NEW args, NEW from
  PROVE  AddsInst(s, Emit(s, b, kind, ty, args, from), Instruction(b, kind, ty, args, from))
BY CoreShaped, ShapedEmitAdds

\* A new phi has its operands or is busy, and is in no branch's target.
LEMMA CoreEmit ==
  ASSUME NEW s, NEW shut, NEW busy, Core(s, shut, busy), NEW i, NEW u, AddsInst(s, u, i),
         InstOK(i, Len(s.term), Len(s.inst) + 1),
         i.kind = "phi" => /\ ~ForkTarget(s.term, i.block)
                           /\ Complete(i, s.preds, shut) \/ Len(s.inst) + 1 \in busy
  PROVE  Core(u, shut, busy)
<1> DEFINE n == Len(s.term)
           m == Len(s.inst)
<1>0. /\ TermsOK(s.term, m) /\ InstsOK(s.inst, n)
      /\ DefsOK(s.defs, n, m) /\ PendingOK(s.pending, n, m)
      /\ Agrees(s.term, s.preds) /\ Forks(s.term, s.preds, shut, s.inst)
      /\ Parks(s.inst, s.defs, s.pending, shut)
      /\ PhisKnown(s.inst, s.preds, s.pending, shut, busy)
      /\ s.sealed \subseteq shut /\ shut \subseteq BlocksOf(s)
  BY DEF Core
<1>1. n \in Nat /\ m \in Nat /\ m + 1 \in Nat /\ 1 .. m + 1 = 1 .. m \cup {m + 1} /\ m <= m + 1
  BY CoreLens
<1>2. /\ IsRecord(u) /\ u.term = s.term /\ u.preds = s.preds /\ u.defs = s.defs
      /\ u.sealed = s.sealed /\ u.pending = s.pending
  BY DEF AddsInst
<1>3. /\ IsRow(u.inst) /\ Len(u.inst) = m + 1 /\ u.inst[m + 1] = i
      /\ \A v \in 1 .. m : u.inst[v] = s.inst[v]
  BY DEF AddsInst, Appended
<1>4. TermsOK(u.term, Len(u.inst))
  <2>1. \A b \in 1 .. n : TermOK(s.term[b], n, m + 1)
    BY <1>0, <1>1, TermsGrow DEF TermsOK
  <2> QED
    BY <1>0, <1>2, <1>3, <2>1 DEF TermsOK
<1>5. InstsOK(u.inst, Len(u.term))
  <2>1. \A v \in 1 .. m : InstOK(u.inst[v], n, m + 1)
    BY <1>0, <1>1, <1>3, InstsGrow DEF InstsOK
  <2>2. \A v \in 1 .. m + 1 : InstOK(u.inst[v], n, m + 1)
    BY <1>1, <1>3, <2>1
  <2> QED
    BY <1>2, <1>3, <2>2 DEF InstsOK
<1>6. DefsOK(u.defs, Len(u.term), Len(u.inst)) /\ PendingOK(u.pending, Len(u.term), Len(u.inst))
  BY <1>0, <1>1, <1>2, <1>3, DefsGrow, PendingGrows
<1>7. \A v : IsPhi(u.inst, v) <=> (IsPhi(s.inst, v) \/ (v = m + 1 /\ i.kind = "phi"))
  BY <1>1, <1>3 DEF IsPhi
<1>8. \A v : IsPhi(s.inst, v) => u.inst[v] = s.inst[v]
  BY <1>3 DEF IsPhi
<1>9. Forks(u.term, u.preds, shut, u.inst)
  <2> SUFFICES ASSUME NEW c, ForkTarget(s.term, c) PROVE PhiFree(u.inst, c)
    BY <1>0, <1>2 DEF Forks
  <2>1. PhiFree(s.inst, c)
    BY <1>0 DEF Forks
  <2>2. \A v \in 1 .. m : u.inst[v].kind = "phi" => u.inst[v].block # c
    BY <1>3, <2>1 DEF PhiFree
  <2>3. i.kind = "phi" => i.block # c
    OBVIOUS
  <2> QED
    BY <1>1, <1>3, <2>2, <2>3 DEF PhiFree
<1>10. Parks(u.inst, u.defs, u.pending, shut)
  <2>1. \A p, b : ParkedAt(p, b, s.inst, s.defs) => ParkedAt(p, b, u.inst, u.defs)
    BY <1>2, <1>7, <1>8 DEF ParkedAt
  <2> QED
    BY <1>0, <1>2, <2>1 DEF Parks
<1>11. PhisKnown(u.inst, u.preds, u.pending, shut, busy)
  <2> SUFFICES ASSUME NEW v, IsPhi(u.inst, v)
               PROVE  \/ Complete(u.inst[v], s.preds, shut) \/ v \in busy
                      \/ IsParked(v, s.pending)
    BY <1>2 DEF PhisKnown
  <2>1. CASE IsPhi(s.inst, v)
    BY <1>0, <1>8, <2>1 DEF PhisKnown
  <2>2. CASE v = m + 1 /\ i.kind = "phi"
    BY <1>3, <2>2
  <2> QED
    BY <1>7, <2>1, <2>2
<1> QED
  BY <1>0, <1>2, <1>4, <1>5, <1>6, <1>9, <1>10, <1>11 DEF Core, BlocksOf

Binds(s, u, x, b, v) ==
  /\ IsRecord(u) /\ u.inst = s.inst /\ u.term = s.term /\ u.preds = s.preds
  /\ u.sealed = s.sealed /\ u.pending = s.pending
  /\ IsRow(u.defs) /\ Len(u.defs) = Len(s.defs)
  /\ \A c \in BlocksOf(s) \ {b} : u.defs[c] = s.defs[c]
  /\ u.defs[b] = [s.defs[b] EXCEPT ![x] = v]

LEMMA ShapedWriteBinds ==
  ASSUME NEW s, Shaped(s), NEW b \in BlocksOf(s), NEW x, NEW v
  PROVE  Binds(s, Write(s, x, b, v), x, b, v)
<1>0. PICK u : u = Write(s, x, b, v)
  OBVIOUS
<1>1. /\ IsRow(s.defs) /\ Len(s.defs) = Len(s.term) /\ Len(s.term) \in Nat
      /\ b \in 1 .. Len(s.defs)
  BY DEF Shaped, BlocksOf
<1>2. u = [inst |-> s.inst, term |-> s.term, preds |-> s.preds,
           defs |-> [s.defs EXCEPT ![b] = [s.defs[b] EXCEPT ![x] = v]],
           sealed |-> s.sealed, pending |-> s.pending]
  BY <1>0 DEF Write, Shaped, IsRecord
<1> DEFINE o == [s.defs[b] EXCEPT ![x] = v]
<1> HIDE DEF o
<1>3. /\ IsRecord(u) /\ u.inst = s.inst /\ u.term = s.term /\ u.preds = s.preds
      /\ u.sealed = s.sealed /\ u.pending = s.pending
      /\ u.defs = [s.defs EXCEPT ![b] = o]
  BY <1>2 DEF IsRecord, o
<1>4. /\ IsRow(u.defs) /\ Len(u.defs) = Len(s.defs) /\ u.defs[b] = o
      /\ \A c \in 1 .. Len(s.defs) \ {b} : u.defs[c] = s.defs[c]
  BY <1>1, <1>3, RowExcept
<1>5. Binds(s, u, x, b, v)
  BY <1>1, <1>3, <1>4 DEF Binds, BlocksOf, o
<1> QED
  BY <1>0, <1>5

LEMMA WriteBinds ==
  ASSUME NEW s, NEW shut, NEW busy, Core(s, shut, busy), NEW b \in BlocksOf(s), NEW x, NEW v
  PROVE  Binds(s, Write(s, x, b, v), x, b, v)
BY CoreShaped, ShapedWriteBinds

LEMMA CoreBinds ==
  ASSUME NEW s, NEW shut, NEW busy, Core(s, shut, busy), NEW b \in BlocksOf(s), NEW x \in Vars,
         NEW v \in ValuesOf(s), NEW u, Binds(s, u, x, b, v)
  PROVE  Core(u, shut, busy)
<1>1. /\ Len(s.term) \in Nat /\ Len(s.inst) \in Nat /\ Len(s.defs) = Len(s.term)
      /\ b \in 1 .. Len(s.term) /\ v \in 0 .. Len(s.inst) /\ v # 0
  BY CoreLens DEF BlocksOf, ValuesOf
<1>2. /\ IsRecord(u) /\ u.inst = s.inst /\ u.term = s.term /\ u.preds = s.preds
      /\ u.sealed = s.sealed /\ u.pending = s.pending
  BY DEF Binds
<1>3. \A c \in 1 .. Len(s.term) : s.defs[c] \in [Vars -> 0 .. Len(s.inst)]
  BY DEF Core, DefsOK
<1>4. \A c \in 1 .. Len(s.term) :
        /\ u.defs[c] \in [Vars -> 0 .. Len(s.inst)]
        /\ \A y \in Vars : s.defs[c][y] # NoValue => u.defs[c][y] # NoValue
  <2> TAKE c \in 1 .. Len(s.term)
  <2>1. CASE c = b
    BY <1>1, <1>3, <2>1 DEF Binds, NoValue
  <2>2. CASE c # b
    BY <1>3, <2>2 DEF Binds, BlocksOf
  <2> QED
    BY <2>1, <2>2
<1>5. DefsOK(u.defs, Len(u.term), Len(u.inst))
  BY <1>1, <1>2, <1>4 DEF DefsOK, Binds
<1>6. Parks(u.inst, u.defs, u.pending, shut)
  <2>1. Len(s.pending) = Len(s.term)
    BY CoreLens
  <2>2. \A c \in 1 .. Len(s.pending) : \A p :
          ParkedAt(p, c, s.inst, s.defs) => ParkedAt(p, c, u.inst, u.defs)
    BY <1>2, <1>4, <2>1 DEF ParkedAt
  <2> QED
    BY <1>2, <2>2 DEF Parks, Core
<1> QED
  BY <1>2, <1>5, <1>6 DEF Core, BlocksOf

-----------------------------------------------------------------------------
(* The phis that are parked, taken back and filled in.                     *)

ChangesPending(s, u, b, r) ==
  /\ IsRecord(u) /\ u.inst = s.inst /\ u.term = s.term /\ u.preds = s.preds
  /\ u.defs = s.defs /\ u.sealed = s.sealed
  /\ IsRow(u.pending) /\ Len(u.pending) = Len(s.pending)
  /\ \A c \in BlocksOf(s) \ {b} : u.pending[c] = s.pending[c]
  /\ u.pending[b] = r

LEMMA ShapedPendingChanges ==
  ASSUME NEW s, Shaped(s), NEW b \in BlocksOf(s), NEW r
  PROVE  ChangesPending(s, [s EXCEPT !.pending[b] = r], b, r)
<1>0. PICK u : u = [s EXCEPT !.pending[b] = r]
  OBVIOUS
<1>1. /\ IsRow(s.pending) /\ Len(s.pending) = Len(s.term) /\ b \in 1 .. Len(s.pending)
  BY DEF Shaped, BlocksOf
<1>2. u = [inst |-> s.inst, term |-> s.term, preds |-> s.preds, defs |-> s.defs,
           sealed |-> s.sealed, pending |-> [s.pending EXCEPT ![b] = r]]
  BY <1>0 DEF Shaped, IsRecord
<1>3. /\ IsRecord(u) /\ u.inst = s.inst /\ u.term = s.term /\ u.preds = s.preds
      /\ u.defs = s.defs /\ u.sealed = s.sealed
      /\ u.pending = [s.pending EXCEPT ![b] = r]
  BY <1>2 DEF IsRecord
<1>4. /\ IsRow(u.pending) /\ Len(u.pending) = Len(s.pending) /\ u.pending[b] = r
      /\ \A c \in 1 .. Len(s.pending) \ {b} : u.pending[c] = s.pending[c]
  BY <1>1, <1>3, RowExcept
<1>5. ChangesPending(s, u, b, r)
  BY <1>1, <1>3, <1>4 DEF ChangesPending, BlocksOf
<1> QED
  BY <1>0, <1>5

LEMMA PendingChanges ==
  ASSUME NEW s, NEW shut, NEW busy, Core(s, shut, busy), NEW b \in BlocksOf(s), NEW r
  PROVE  ChangesPending(s, [s EXCEPT !.pending[b] = r], b, r)
BY CoreShaped, ShapedPendingChanges

LEMMA CorePark ==
  ASSUME NEW s, NEW shut, NEW busy, Core(s, shut, busy), NEW b \in BlocksOf(s), b \notin shut,
         NEW p \in [x : Vars, phi : ValuesOf(s)], ParkedAt(p, b, s.inst, s.defs),
         NEW r, Appended(r, s.pending[b], p), NEW u, ChangesPending(s, u, b, r),
         NEW busy2, busy \subseteq busy2 \cup {p.phi}
  PROVE  Core(u, shut, busy2)
<1> DEFINE n == Len(s.term)
           m == Len(s.inst)
           l == Len(s.pending[b])
<1>0. /\ PendingOK(s.pending, n, m) /\ Parks(s.inst, s.defs, s.pending, shut)
      /\ PhisKnown(s.inst, s.preds, s.pending, shut, busy)
      /\ shut \subseteq 1 .. n
  BY DEF Core, BlocksOf
<1>1. /\ n \in Nat /\ m \in Nat /\ Len(s.pending) = n /\ b \in 1 .. n /\ BlocksOf(s) = 1 .. n
      /\ IsRow(s.pending[b]) /\ ValuesOf(s) = 1 .. m
  BY CoreLens DEF BlocksOf, ValuesOf
<1>2. /\ IsRecord(u) /\ u.inst = s.inst /\ u.term = s.term /\ u.preds = s.preds
      /\ u.defs = s.defs /\ u.sealed = s.sealed
  BY DEF ChangesPending
<1>3. /\ IsRow(u.pending) /\ Len(u.pending) = n
      /\ \A c \in 1 .. n \ {b} : u.pending[c] = s.pending[c]
  BY <1>1 DEF ChangesPending
<1>4. /\ l \in Nat /\ IsRow(u.pending[b]) /\ Len(u.pending[b]) = l + 1 /\ u.pending[b][l + 1] = p
      /\ \A k \in 1 .. l : u.pending[b][k] = s.pending[b][k]
  BY <1>1 DEF ChangesPending, Appended, IsRow
<1>5. 1 .. l + 1 = 1 .. l \cup {l + 1}
  BY <1>4
<1>6. PendingOK(u.pending, n, m)
  <2>1. ASSUME NEW k \in 1 .. l + 1 PROVE u.pending[b][k] \in [x : Vars, phi : 1 .. m]
    BY <1>0, <1>1, <1>4, <1>5 DEF PendingOK, RowOf
  <2>2. RowOf(u.pending[b], [x : Vars, phi : 1 .. m])
    BY <1>4, <2>1 DEF RowOf
  <2> QED
    BY <1>0, <1>3, <2>2 DEF PendingOK
<1>7. Parks(s.inst, s.defs, u.pending, shut)
  <2>1. \A c \in shut : Len(u.pending[c]) = 0
    BY <1>0, <1>3 DEF Parks
  <2>2. ASSUME NEW c \in 1 .. n, NEW k \in 1 .. Len(u.pending[c])
        PROVE  ParkedAt(u.pending[c][k], c, s.inst, s.defs)
    <3>1. CASE c # b
      BY <1>0, <1>1, <1>3, <3>1 DEF Parks
    <3>2. CASE c = b /\ k \in 1 .. l
      BY <1>0, <1>1, <1>4, <3>2 DEF Parks
    <3>3. CASE c = b /\ k = l + 1
      BY <1>4, <3>3
    <3>4. c = b => k \in 1 .. l + 1
      BY <1>4
    <3>5. c = b => k \in 1 .. l \/ k = l + 1
      BY <1>5, <3>4
    <3> QED
      BY <3>1, <3>2, <3>3, <3>5
  <2> QED
    BY <1>3, <2>1, <2>2 DEF Parks
<1>8. PhisKnown(s.inst, s.preds, u.pending, shut, busy2)
  <2> SUFFICES ASSUME NEW v, IsPhi(s.inst, v)
               PROVE  \/ Complete(s.inst[v], s.preds, shut) \/ v \in busy2
                      \/ IsParked(v, u.pending)
    BY DEF PhisKnown
  <2>1. \/ Complete(s.inst[v], s.preds, shut) \/ v \in busy \/ IsParked(v, s.pending)
    BY <1>0 DEF PhisKnown
  <2>2. IsParked(p.phi, u.pending)
    BY <1>1, <1>3, <1>4, <1>5 DEF IsParked
  <2>3. ASSUME IsParked(v, s.pending) PROVE IsParked(v, u.pending)
    <3>1. PICK c \in 1 .. n : \E k \in 1 .. Len(s.pending[c]) : s.pending[c][k].phi = v
      BY <1>1, <2>3 DEF IsParked
    <3>2. CASE c # b
      BY <1>3, <3>1, <3>2 DEF IsParked
    <3>3. CASE c = b
      <4>1. PICK k \in 1 .. l : s.pending[b][k].phi = v
        BY <3>1, <3>3
      <4>2. k \in 1 .. Len(u.pending[b]) /\ u.pending[b][k].phi = v
        BY <1>4, <1>5, <4>1
      <4> QED
        BY <1>1, <1>3, <4>2 DEF IsParked
    <3> QED
      BY <3>2, <3>3
  <2> QED
    BY <2>1, <2>2, <2>3
<1> QED
  BY <1>2, <1>6, <1>7, <1>8 DEF Core, BlocksOf

\* seal_block takes the parked phis, and is busy with them.
LEMMA CoreTake ==
  ASSUME NEW s, NEW shut, NEW busy, Core(s, shut, busy), NEW b \in BlocksOf(s),
         NEW u, ChangesPending(s, u, b, <<>>), NEW busy2, busy \subseteq busy2,
         \A k \in 1 .. Len(s.pending[b]) : s.pending[b][k].phi \in busy2
  PROVE  Core(u, shut \cup {b}, busy2)
<1> DEFINE n == Len(s.term)
           m == Len(s.inst)
<1>0. /\ PendingOK(s.pending, n, m) /\ Parks(s.inst, s.defs, s.pending, shut)
      /\ Forks(s.term, s.preds, shut, s.inst)
      /\ PhisKnown(s.inst, s.preds, s.pending, shut, busy)
      /\ shut \subseteq 1 .. n
  BY DEF Core, BlocksOf
<1>1. /\ n \in Nat /\ m \in Nat /\ Len(s.pending) = n /\ b \in 1 .. n /\ BlocksOf(s) = 1 .. n
  BY CoreLens DEF BlocksOf, ValuesOf
<1>2. /\ IsRecord(u) /\ u.inst = s.inst /\ u.term = s.term /\ u.preds = s.preds
      /\ u.defs = s.defs /\ u.sealed = s.sealed
  BY DEF ChangesPending
<1>3. /\ IsRow(u.pending) /\ Len(u.pending) = n /\ u.pending[b] = <<>>
      /\ \A c \in 1 .. n \ {b} : u.pending[c] = s.pending[c]
  BY <1>1 DEF ChangesPending
<1>4. PendingOK(u.pending, n, m)
  <2>1. \A c \in 1 .. n : RowOf(u.pending[c], [x : Vars, phi : 1 .. m])
    BY <1>0, <1>3, EmptyRow DEF PendingOK
  <2> QED
    BY <1>3, <2>1 DEF PendingOK
<1>5. Parks(s.inst, s.defs, u.pending, shut \cup {b})
  <2>1. \A c \in shut \cup {b} : Len(u.pending[c]) = 0
    BY <1>0, <1>3, EmptyRow DEF Parks
  <2>2. 1 .. Len(u.pending[b]) = {}
    BY <1>3, EmptyRow
  <2>3. \A c \in 1 .. n : \A k \in 1 .. Len(u.pending[c]) : ParkedAt(u.pending[c][k], c, s.inst, s.defs)
    BY <1>0, <1>1, <1>3, <2>2 DEF Parks
  <2> QED
    BY <1>3, <2>1, <2>3 DEF Parks
<1>6. PhisKnown(s.inst, s.preds, u.pending, shut \cup {b}, busy2)
  <2> SUFFICES ASSUME NEW v, IsPhi(s.inst, v)
               PROVE  \/ Complete(s.inst[v], s.preds, shut \cup {b}) \/ v \in busy2
                      \/ IsParked(v, u.pending)
    BY DEF PhisKnown
  <2>1. \/ Complete(s.inst[v], s.preds, shut) \/ v \in busy \/ IsParked(v, s.pending)
    BY <1>0 DEF PhisKnown
  <2>2. Complete(s.inst[v], s.preds, shut) => Complete(s.inst[v], s.preds, shut \cup {b})
    BY DEF Complete
  <2>3. ASSUME IsParked(v, s.pending) PROVE IsParked(v, u.pending) \/ v \in busy2
    <3>1. PICK c \in 1 .. n : \E k \in 1 .. Len(s.pending[c]) : s.pending[c][k].phi = v
      BY <1>1, <2>3 DEF IsParked
    <3> QED
      BY <1>3, <3>1 DEF IsParked
  <2> QED
    BY <2>1, <2>2, <2>3
<1>7. Forks(s.term, s.preds, shut \cup {b}, s.inst)
  BY <1>0 DEF Forks
<1> QED
  BY <1>1, <1>2, <1>4, <1>5, <1>6, <1>7 DEF Core, BlocksOf

Fills(s, u, v, got) ==
  /\ IsRecord(u) /\ u.term = s.term /\ u.preds = s.preds /\ u.defs = s.defs
  /\ u.sealed = s.sealed /\ u.pending = s.pending
  /\ IsRow(u.inst) /\ Len(u.inst) = Len(s.inst)
  /\ \A w \in ValuesOf(s) \ {v} : u.inst[w] = s.inst[w]
  /\ u.inst[v] = Instruction(s.inst[v].block, s.inst[v].kind, s.inst[v].ty, got,
                             s.preds[s.inst[v].block])

LEMMA Refilled ==
  ASSUME NEW o, NEW n, NEW m, InstOK(o, n, m), NEW got, NEW f
  PROVE  [o EXCEPT !.args = got, !.from = f] = Instruction(o.block, o.kind, o.ty, got, f)
<1>1. o = [block |-> o.block, kind |-> o.kind, ty |-> o.ty, args |-> o.args, from |-> o.from]
  BY DEF InstOK
<1>2. PICK b, k, t, a, r : o = [block |-> b, kind |-> k, ty |-> t, args |-> a, from |-> r]
  BY <1>1
<1>3. o.block = b /\ o.kind = k /\ o.ty = t
  BY <1>2
<1>4. PICK p : p = [o EXCEPT !.args = got]
  OBVIOUS
<1>5. p = [block |-> b, kind |-> k, ty |-> t, args |-> got, from |-> r]
  BY <1>2, <1>4
<1>6. [p EXCEPT !.from = f] = [block |-> b, kind |-> k, ty |-> t, args |-> got, from |-> f]
  BY <1>5
<1>7. [o EXCEPT !.args = got, !.from = f] = [p EXCEPT !.from = f]
  BY <1>4
<1> QED
  BY <1>3, <1>6, <1>7, Zenon DEF Instruction

LEMMA PhiFills ==
  ASSUME NEW s, NEW shut, NEW busy, Core(s, shut, busy), NEW v \in ValuesOf(s), NEW got, NEW f
  PROVE  LET u == [s EXCEPT !.inst[v].args = got, !.inst[v].from = f]
         IN  f = s.preds[s.inst[v].block] => Fills(s, u, v, got)
<1>0. PICK u : u = [s EXCEPT !.inst[v].args = got, !.inst[v].from = f]
  OBVIOUS
<1>a. IsRow(s.inst) /\ v \in 1 .. Len(s.inst)
  BY CoreLens DEF ValuesOf
<1>1. IsRow(s.inst) /\ v \in 1 .. Len(s.inst) /\ DOMAIN s.inst = 1 .. Len(s.inst)
  BY <1>a DEF IsRow
<1> DEFINE i == [s.inst[v] EXCEPT !.args = got, !.from = f]
<1>2. u = [inst |-> [s.inst EXCEPT ![v] = i], term |-> s.term, preds |-> s.preds,
           defs |-> s.defs, sealed |-> s.sealed, pending |-> s.pending]
  BY <1>0, <1>1 DEF Core, IsRecord
<1>3. i = Instruction(s.inst[v].block, s.inst[v].kind, s.inst[v].ty, got, f)
  <2>1. InstOK(s.inst[v], Len(s.term), Len(s.inst))
    BY <1>1 DEF Core, InstsOK
  <2> QED
    BY <2>1, Refilled
<1> HIDE DEF i
<1>4. /\ IsRecord(u) /\ u.term = s.term /\ u.preds = s.preds /\ u.defs = s.defs
      /\ u.sealed = s.sealed /\ u.pending = s.pending /\ u.inst = [s.inst EXCEPT ![v] = i]
  BY <1>2 DEF IsRecord
<1>5. /\ IsRow(u.inst) /\ Len(u.inst) = Len(s.inst) /\ u.inst[v] = i
      /\ \A w \in 1 .. Len(s.inst) \ {v} : u.inst[w] = s.inst[w]
  <2>1. v \in 1 .. Len(s.inst) /\ u.inst = [s.inst EXCEPT ![v] = i]
    BY <1>1, <1>4, Zenon
  <2> QED
    BY <1>1, <2>1, RowExcept
<1>6. f = s.preds[s.inst[v].block] => Fills(s, u, v, got)
  BY <1>3, <1>4, <1>5 DEF Fills, ValuesOf
<1> QED
  BY <1>0, <1>6

LEMMA CoreFill ==
  ASSUME NEW s, NEW shut, NEW busy, Core(s, shut, busy), NEW v, IsPhi(s.inst, v),
         s.inst[v].block \in shut, NEW got, RowOf(got, ValuesOf(s)),
         Len(got) = Len(s.preds[s.inst[v].block]),
         NEW u, Fills(s, u, v, got), NEW busy2, busy \subseteq busy2 \cup {v}
  PROVE  Core(u, shut, busy2)
<1> DEFINE n == Len(s.term)
           m == Len(s.inst)
           b == s.inst[v].block
<1>0. /\ TermsOK(s.term, m) /\ InstsOK(s.inst, n)
      /\ DefsOK(s.defs, n, m) /\ PendingOK(s.pending, n, m)
      /\ Agrees(s.term, s.preds) /\ Forks(s.term, s.preds, shut, s.inst)
      /\ Parks(s.inst, s.defs, s.pending, shut)
      /\ PhisKnown(s.inst, s.preds, s.pending, shut, busy)
      /\ s.sealed \subseteq shut /\ shut \subseteq 1 .. n
  BY DEF Core, BlocksOf
<1>1. n \in Nat /\ m \in Nat /\ v \in 1 .. m /\ b \in 1 .. n /\ BlocksOf(s) = 1 .. n /\ ValuesOf(s) = 1 .. m
  BY <1>0, CoreLens DEF BlocksOf, IsPhi, ValuesOf
<1>2. /\ IsRecord(u) /\ u.term = s.term /\ u.preds = s.preds /\ u.defs = s.defs
      /\ u.sealed = s.sealed /\ u.pending = s.pending
  BY DEF Fills
<1>3. /\ IsRow(u.inst) /\ Len(u.inst) = m
      /\ \A w \in 1 .. m \ {v} : u.inst[w] = s.inst[w]
      /\ u.inst[v] = Instruction(b, s.inst[v].kind, s.inst[v].ty, got, s.preds[b])
  BY <1>1 DEF Fills
<1>4. /\ u.inst[v].block = b /\ u.inst[v].kind = s.inst[v].kind /\ u.inst[v].from = s.preds[b]
      /\ u.inst[v].args = got /\ u.inst[v].ty = s.inst[v].ty
  BY <1>3 DEF Instruction
<1>5. \A w \in 1 .. m : u.inst[w].block = s.inst[w].block /\ u.inst[w].kind = s.inst[w].kind
  BY <1>3, <1>4
<1>6. \A w : IsPhi(u.inst, w) <=> IsPhi(s.inst, w)
  BY <1>3, <1>5 DEF IsPhi
<1>7. InstsOK(u.inst, n)
  <2>1. RowOf(s.preds[b], 1 .. n)
    <3>1. Lists(s.preds[b], Predecessors(s.term, b)) /\ DOMAIN s.term = 1 .. n
      BY <1>0, <1>1 DEF Agrees, TermsOK, IsRow
    <3>2. Predecessors(s.term, b) \subseteq 1 .. n
      BY <3>1 DEF Predecessors
    <3> QED
      BY <3>1, <3>2 DEF Lists, RowOf
  <2>2. InstOK(u.inst[v], n, m)
    <3>1. InstOK(s.inst[v], n, m)
      BY <1>0, <1>1 DEF InstsOK
    <3> QED
      BY <1>1, <1>3, <1>4, <2>1, <3>1 DEF InstOK, Instruction
  <2> QED
    BY <1>0, <1>3, <2>2 DEF InstsOK
<1>8. Forks(s.term, s.preds, shut, u.inst)
  BY <1>0, <1>3, <1>5 DEF Forks, PhiFree
<1>9. Parks(u.inst, s.defs, s.pending, shut)
  <2>1. \A p, c : ParkedAt(p, c, s.inst, s.defs) => ParkedAt(p, c, u.inst, s.defs)
    BY <1>5, <1>6 DEF ParkedAt, IsPhi
  <2> QED
    BY <1>0, <2>1 DEF Parks
<1>10. PhisKnown(u.inst, s.preds, s.pending, shut, busy2)
  <2> SUFFICES ASSUME NEW w, IsPhi(u.inst, w)
               PROVE  \/ Complete(u.inst[w], s.preds, shut) \/ w \in busy2
                      \/ IsParked(w, s.pending)
    BY DEF PhisKnown
  <2>1. CASE w = v
    BY <1>4, <2>1 DEF Complete
  <2>2. CASE w # v
    <3>1. IsPhi(s.inst, w) /\ u.inst[w] = s.inst[w]
      BY <1>3, <1>6, <2>2 DEF IsPhi
    <3> QED
      BY <1>0, <2>2, <3>1 DEF PhisKnown
  <2> QED
    BY <2>1, <2>2
<1> QED
  BY <1>0, <1>1, <1>2, <1>3, <1>7, <1>8, <1>9, <1>10 DEF Core, BlocksOf

-----------------------------------------------------------------------------
(* What a step leaves of the record it starts from: only blocks of E that  *)
(* have not ended may end, only blocks of T gain predecessors, and only    *)
(* those of P have other phis parked.                                      *)

Grows(m, n) == m \in Nat /\ n \in Nat /\ m <= n
Changes(s, u, E, T, P) ==
  /\ Grows(Len(s.term), Len(u.term)) /\ Grows(Len(s.inst), Len(u.inst))
  /\ s.sealed \subseteq u.sealed
  /\ \A b \in BlocksOf(s) : (b \in E /\ s.term[b].op = "none") \/ u.term[b] = s.term[b]
  /\ \A b \in BlocksOf(s) \ T : u.preds[b] = s.preds[b]
  /\ \A b \in BlocksOf(s) \ P : u.pending[b] = s.pending[b]
  /\ \A b \in BlocksOf(s) : \A x \in Vars : s.defs[b][x] # NoValue => u.defs[b][x] # NoValue
  /\ \A v \in ValuesOf(s) : u.inst[v].kind = s.inst[v].kind /\ u.inst[v].block = s.inst[v].block
  /\ \A v \in ValuesOf(u) \ ValuesOf(s) :
       u.inst[v].block \in BlocksOf(s) /\ s.term[u.inst[v].block].op # "none"
         => u.inst[v].kind = "phi"

LEMMA ChangesTrans ==
  ASSUME NEW s, NEW t, NEW u, NEW E, NEW T, NEW P,
         Changes(s, t, E, T, P), Changes(t, u, E, T, P)
  PROVE  Changes(s, u, E, T, P)
<1>1. /\ BlocksOf(s) \subseteq BlocksOf(t) /\ BlocksOf(t) \subseteq BlocksOf(u)
      /\ ValuesOf(s) \subseteq ValuesOf(t) /\ ValuesOf(t) \subseteq ValuesOf(u)
      /\ Grows(Len(s.term), Len(u.term)) /\ Grows(Len(s.inst), Len(u.inst))
  <2>1. /\ Grows(Len(s.term), Len(t.term)) /\ Grows(Len(s.inst), Len(t.inst))
        /\ Grows(Len(t.term), Len(u.term)) /\ Grows(Len(t.inst), Len(u.inst))
    BY DEF Changes
  <2>2. \A k, m, n : Grows(k, m) /\ Grows(m, n) => Grows(k, n)
    BY DEF Grows
  <2>3. \A m, n : Grows(m, n) => 1 .. m \subseteq 1 .. n
    BY DEF Grows
  <2> QED
    BY <2>1, <2>2, <2>3, Zenon DEF BlocksOf, ValuesOf
<1>2. \A b \in BlocksOf(s) : (b \in E /\ s.term[b].op = "none") \/ u.term[b] = s.term[b]
  BY <1>1 DEF Changes
<1>3. \A b \in BlocksOf(s) \ T : u.preds[b] = s.preds[b]
  BY <1>1 DEF Changes
<1>4. \A b \in BlocksOf(s) \ P : u.pending[b] = s.pending[b]
  BY <1>1 DEF Changes
<1>5. \A b \in BlocksOf(s) : \A x \in Vars : s.defs[b][x] # NoValue => u.defs[b][x] # NoValue
  BY <1>1 DEF Changes
<1>6. \A v \in ValuesOf(s) : u.inst[v].kind = s.inst[v].kind /\ u.inst[v].block = s.inst[v].block
  BY <1>1 DEF Changes
<1>7. ASSUME NEW v \in ValuesOf(u) \ ValuesOf(s), u.inst[v].block \in BlocksOf(s),
             s.term[u.inst[v].block].op # "none"
      PROVE  u.inst[v].kind = "phi"
  <2>1. CASE v \in ValuesOf(t)
    BY <1>7, <2>1 DEF Changes
  <2>2. CASE v \notin ValuesOf(t)
    <3>1. u.inst[v].block \in BlocksOf(t) /\ t.term[u.inst[v].block].op # "none"
      BY <1>1, <1>7 DEF Changes
    <3> QED
      BY <2>2, <3>1 DEF Changes
  <2> QED
    BY <2>1, <2>2
<1>8. s.sealed \subseteq u.sealed
  BY DEF Changes
<1> QED
  BY <1>1, <1>2, <1>3, <1>4, <1>5, <1>6, <1>7, <1>8 DEF Changes

LEMMA ChangesNone ==
  ASSUME NEW s, NEW shut, NEW busy, Core(s, shut, busy), NEW E, NEW T, NEW P
  PROVE  Changes(s, s, E, T, P)
<1>1. Len(s.term) \in Nat /\ Len(s.inst) \in Nat
  BY CoreLens
<1> QED
  BY <1>1 DEF Changes, Grows

LEMMA NewBlockChanges ==
  ASSUME NEW s, NEW shut, NEW busy, Core(s, shut, busy), NEW u, AddsBlock(s, u),
         NEW E, NEW T, NEW P
  PROVE  Changes(s, u, E, T, P)
<1> DEFINE n == Len(s.term)
<1>1. n \in Nat /\ Len(s.inst) \in Nat /\ Len(s.preds) = n /\ Len(s.defs) = n /\ Len(s.pending) = n
  BY CoreLens
<1>2. /\ Len(u.term) = n + 1 /\ u.inst = s.inst /\ u.sealed = s.sealed
      /\ \A b \in 1 .. n : u.term[b] = s.term[b]
      /\ \A b \in 1 .. n : u.preds[b] = s.preds[b]
      /\ \A b \in 1 .. n : u.defs[b] = s.defs[b]
      /\ \A b \in 1 .. n : u.pending[b] = s.pending[b]
  BY <1>1 DEF AddsBlock, Appended
<1>3. Grows(Len(s.term), Len(u.term)) /\ Grows(Len(s.inst), Len(u.inst))
  BY <1>1, <1>2 DEF Grows
<1> QED
  BY <1>2, <1>3 DEF Changes, BlocksOf, ValuesOf

LEMMA EndsChanges ==
  ASSUME NEW s, NEW shut, NEW busy, Core(s, shut, busy), NEW b, NEW t, NEW u, Ends(s, u, b, t),
         s.term[b].op = "none", NEW E, b \in E, NEW T, Successors(t) \subseteq T, NEW P
  PROVE  Changes(s, u, E, T, P)
<1>1. Len(s.term) \in Nat /\ Len(s.inst) \in Nat
  BY CoreLens
<1>2. Grows(Len(s.term), Len(u.term)) /\ Grows(Len(s.inst), Len(u.inst))
  BY <1>1 DEF Grows, Ends
<1> QED
  BY <1>2 DEF Changes, Ends, ValuesOf

SetsSealed(s, u, bs) ==
  /\ u.inst = s.inst /\ u.term = s.term /\ u.preds = s.preds /\ u.defs = s.defs
  /\ u.sealed = s.sealed \cup bs /\ u.pending = s.pending

LEMMA SealChanges ==
  ASSUME NEW s, NEW shut, NEW busy, Core(s, shut, busy), NEW bs, NEW u, SetsSealed(s, u, bs),
         NEW E, NEW T, NEW P
  PROVE  Changes(s, u, E, T, P)
<1>1. Len(s.term) \in Nat /\ Len(s.inst) \in Nat
  BY CoreLens
<1> QED
  BY <1>1 DEF Changes, SetsSealed, Grows, ValuesOf

LEMMA EmitChanges ==
  ASSUME NEW s, NEW shut, NEW busy, Core(s, shut, busy), NEW i, NEW u, AddsInst(s, u, i),
         i.kind = "phi" \/ s.term[i.block].op = "none" \/ i.block \notin BlocksOf(s),
         NEW E, NEW T, NEW P
  PROVE  Changes(s, u, E, T, P)
<1> DEFINE m == Len(s.inst)
<1>1. Len(s.term) \in Nat /\ m \in Nat
  BY CoreLens
<1>2. /\ Len(u.inst) = m + 1 /\ u.inst[m + 1] = i /\ \A v \in 1 .. m : u.inst[v] = s.inst[v]
      /\ u.term = s.term /\ u.preds = s.preds /\ u.defs = s.defs
      /\ u.sealed = s.sealed /\ u.pending = s.pending
  BY DEF AddsInst, Appended
<1>3. Grows(Len(s.term), Len(u.term)) /\ Grows(Len(s.inst), Len(u.inst))
  BY <1>1, <1>2 DEF Grows
<1>4. ValuesOf(s) = 1 .. m /\ ValuesOf(u) \ ValuesOf(s) = {m + 1}
  BY <1>1, <1>2 DEF ValuesOf
<1>5. \A v \in ValuesOf(s) : u.inst[v].kind = s.inst[v].kind /\ u.inst[v].block = s.inst[v].block
  BY <1>2, <1>4
<1>6. \A v \in ValuesOf(u) \ ValuesOf(s) :
        u.inst[v].block \in BlocksOf(s) /\ s.term[u.inst[v].block].op # "none"
          => u.inst[v].kind = "phi"
  BY <1>2, <1>4
<1> QED
  BY <1>2, <1>3, <1>5, <1>6 DEF Changes

LEMMA BindsChanges ==
  ASSUME NEW s, NEW shut, NEW busy, Core(s, shut, busy), NEW b \in BlocksOf(s), NEW x,
         NEW v \in ValuesOf(s), NEW u, Binds(s, u, x, b, v), NEW E, NEW T, NEW P
  PROVE  Changes(s, u, E, T, P)
<1>1. Len(s.term) \in Nat /\ Len(s.inst) \in Nat /\ v # NoValue
  BY CoreLens DEF ValuesOf, NoValue
<1>2. \A c \in BlocksOf(s) : s.defs[c] \in [Vars -> 0 .. Len(s.inst)]
  BY DEF Core, DefsOK, BlocksOf
<1>3. \A c \in BlocksOf(s) : \A y \in Vars : s.defs[c][y] # NoValue => u.defs[c][y] # NoValue
  <2> TAKE c \in BlocksOf(s)
  <2>1. CASE c = b
    BY <1>1, <1>2, <2>1 DEF Binds
  <2>2. CASE c # b
    BY <2>2 DEF Binds
  <2> QED
    BY <2>1, <2>2
<1>4. Grows(Len(s.term), Len(u.term)) /\ Grows(Len(s.inst), Len(u.inst))
  BY <1>1 DEF Grows, Binds
<1>5. /\ u.inst = s.inst /\ u.term = s.term /\ u.preds = s.preds
      /\ u.sealed = s.sealed /\ u.pending = s.pending
  BY DEF Binds
<1> QED
  BY <1>3, <1>4, <1>5 DEF Changes, ValuesOf

LEMMA PendingIsChanged ==
  ASSUME NEW s, NEW shut, NEW busy, Core(s, shut, busy), NEW b, NEW r, NEW u,
         ChangesPending(s, u, b, r), NEW E, NEW T, NEW P, b \in P
  PROVE  Changes(s, u, E, T, P)
<1>1. Len(s.term) \in Nat /\ Len(s.inst) \in Nat
  BY CoreLens
<1>2. Grows(Len(s.term), Len(u.term)) /\ Grows(Len(s.inst), Len(u.inst))
  BY <1>1 DEF Grows, ChangesPending
<1> QED
  BY <1>2 DEF Changes, ChangesPending, ValuesOf

LEMMA FillChanges ==
  ASSUME NEW s, NEW shut, NEW busy, Core(s, shut, busy), NEW v, NEW got, NEW u,
         Fills(s, u, v, got), NEW E, NEW T, NEW P
  PROVE  Changes(s, u, E, T, P)
<1>1. Len(s.term) \in Nat /\ Len(s.inst) \in Nat
  BY CoreLens
<1>2. Grows(Len(s.term), Len(u.term)) /\ Grows(Len(s.inst), Len(u.inst))
  BY <1>1 DEF Grows, Fills
<1>3. u.inst[v].block = s.inst[v].block /\ u.inst[v].kind = s.inst[v].kind
  BY DEF Fills, Instruction
<1>4. \A w \in ValuesOf(s) :
        u.inst[w].kind = s.inst[w].kind /\ u.inst[w].block = s.inst[w].block
  BY <1>3 DEF Fills
<1>5. ValuesOf(u) = ValuesOf(s) /\ u.term = s.term /\ u.preds = s.preds /\ u.defs = s.defs
      /\ u.sealed = s.sealed /\ u.pending = s.pending
  BY DEF Fills, ValuesOf
<1> QED
  BY <1>2, <1>4, <1>5 DEF Changes

-----------------------------------------------------------------------------
(* The open constructs.                                                    *)

WaitingKinds == {"if", "while", "let", "assign", "return", "expr"}
OperandKinds == {"bin", "and", "or"}
BodyKinds    == Bodies \cup {"elseif"}
EntryKinds   == WaitingKinds \cup OperandKinds \cup BodyKinds \cup {"name"}

\* The block an open construct will continue in or jump from, and the one it
\* will seal; 0 for none.
Kept(o) == IF o.k \in {"then", "else", "elseif"} THEN o.b
           ELSE IF o.k \in {"loop", "and", "or"} THEN o.c ELSE 0
Unsealed(o) == IF o.k \in {"while", "loop"} THEN o.b
               ELSE IF o.k \in {"and", "or"} THEN o.c ELSE 0
Apart(o, p) == /\ Kept(o) # 0 => Kept(o) # Kept(p)
               /\ Unsealed(o) # 0 => Unsealed(o) # Unsealed(p)

EntryShape(o, n, m) ==
  /\ o = Open(o.k, o.x, o.b, o.c, o.v)
  /\ o.k \in EntryKinds /\ o.x \in Vars \cup {""}
  /\ o.b \in 0 .. n /\ o.c \in 0 .. n /\ o.v \in 0 .. m
EntryOK(o, s, c, shut) ==
  /\ EntryShape(o, Len(s.term), Len(s.inst))
  /\ o.k \in {"then", "else", "elseif", "while", "loop", "and", "or"} => o.b # 0
  /\ o.k \in {"loop", "and", "or"} => o.c # 0
  /\ o.k \in OperandKinds => o.v # 0
  /\ o.k \in {"let", "assign", "name"} => o.x \in Vars
  /\ Kept(o) # c
  /\ o.k \in {"then", "loop", "and", "or"} => s.term[Kept(o)].op = "none"
  /\ Unsealed(o) # 0 => Unsealed(o) \notin shut
  /\ o.k = "loop" => s.term[o.b].op # "none"
  /\ o.k \in {"and", "or"} =>
       Len(s.preds[o.c]) = 1 /\ s.preds[o.c][1] = o.b /\ Len(s.pending[o.c]) = 0

\* The constructs r under an open construct o, or under none that matters.
Below(r, o, s, c, shut) ==
  /\ IsRow(r)
  /\ \A i \in 1 .. Len(r) : EntryOK(r[i], s, c, shut) /\ Apart(o, r[i])
  /\ \A i, j \in 1 .. Len(r) : i # j => Apart(r[i], r[j])
  /\ \A b \in BlocksOf(s) :
       b \in shut \/ b = Unsealed(o) \/ \E i \in 1 .. Len(r) : Unsealed(r[i]) = b
Nothing == Open("expr", "", 0, 0, NoValue)
Stacked(q, s, c, shut) == Below(q, Nothing, s, c, shut)

LEMMA NothingOwned == Kept(Nothing) = 0 /\ Unsealed(Nothing) = 0
BY DEF Nothing, Open, Kept, Unsealed

LEMMA OwnedBlocks ==
  ASSUME NEW o, NEW n, NEW m, EntryShape(o, n, m), n \in Nat
  PROVE  o.b \in 0 .. n /\ o.c \in 0 .. n /\ Kept(o) \in 0 .. n /\ Unsealed(o) \in 0 .. n
<1>1. o.b \in 0 .. n /\ o.c \in 0 .. n
  BY DEF EntryShape
<1> QED
  BY <1>1 DEF Kept, Unsealed

LEMMA OnTopSplits ==
  ASSUME NEW q, NEW o, NEW r, OnTop(q, o, r)
  PROVE  /\ 1 .. Len(q) = {1} \cup {k + 1 : k \in 1 .. Len(r)}
         /\ Len(r) \in Nat /\ Len(q) = Len(r) + 1 /\ q[1] = o
         /\ \A k \in 1 .. Len(r) : q[k + 1] = r[k] /\ k + 1 \in 1 .. Len(q) /\ k + 1 # 1
<1>1. Len(r) \in Nat /\ Len(q) = Len(r) + 1
  BY DEF OnTop, IsRow
<1>2. ASSUME NEW i \in 1 .. Len(q), i # 1 PROVE \E k \in 1 .. Len(r) : i = k + 1
  <2>1. i - 1 \in 1 .. Len(r) /\ i = (i - 1) + 1
    BY <1>1, <1>2
  <2> QED
    BY <2>1
<1>3. \A k \in 1 .. Len(r) : k + 1 \in 1 .. Len(q) /\ k + 1 # 1
  BY <1>1
<1>4. 1 \in 1 .. Len(q)
  BY <1>1
<1> QED
  BY <1>1, <1>2, <1>3, <1>4 DEF OnTop

LEMMA PopStack ==
  ASSUME NEW q, NEW o, NEW r, OnTop(q, o, r), NEW s, NEW c, NEW shut, Stacked(q, s, c, shut)
  PROVE  Below(r, o, s, c, shut) /\ EntryOK(o, s, c, shut)
<1>1. /\ \A i \in 1 .. Len(q) : EntryOK(q[i], s, c, shut)
      /\ \A i, j \in 1 .. Len(q) : i # j => Apart(q[i], q[j])
      /\ \A b \in BlocksOf(s) :
           b \in shut \/ b = 0 \/ \E i \in 1 .. Len(q) : Unsealed(q[i]) = b
  BY NothingOwned DEF Stacked, Below
<1>2. /\ 1 .. Len(q) = {1} \cup {k + 1 : k \in 1 .. Len(r)}
      /\ Len(r) \in Nat /\ q[1] = o
      /\ \A k \in 1 .. Len(r) : q[k + 1] = r[k] /\ k + 1 \in 1 .. Len(q) /\ k + 1 # 1
  BY OnTopSplits
<1>3. EntryOK(o, s, c, shut)
  BY <1>1, <1>2
<1>4. \A k \in 1 .. Len(r) : EntryOK(r[k], s, c, shut) /\ Apart(o, r[k])
  BY <1>1, <1>2
<1>5. \A i, j \in 1 .. Len(r) : i # j => Apart(r[i], r[j])
  <2> TAKE i, j \in 1 .. Len(r)
  <2>1. i # j => i + 1 # j + 1
    BY <1>2
  <2> QED
    BY <1>1, <1>2, <2>1
<1>6. ASSUME NEW b \in BlocksOf(s), b \notin shut, b # Unsealed(o)
      PROVE  \E i \in 1 .. Len(r) : Unsealed(r[i]) = b
  <2>1. b # 0
    BY DEF BlocksOf
  <2>2. PICK i \in 1 .. Len(q) : Unsealed(q[i]) = b
    BY <1>1, <1>6, <2>1
  <2> QED
    BY <1>2, <1>6, <2>2
<1>7. IsRow(r)
  BY DEF OnTop
<1> QED
  BY <1>3, <1>4, <1>5, <1>6, <1>7 DEF Below

LEMMA ApartSymmetric == \A o, p : Apart(o, p) => Apart(p, o)
BY DEF Apart

LEMMA PushStack ==
  ASSUME NEW q, NEW o, NEW r, OnTop(q, o, r), NEW s, NEW c, NEW shut,
         Below(r, o, s, c, shut), EntryOK(o, s, c, shut)
  PROVE  Stacked(q, s, c, shut)
<1>1. /\ \A i \in 1 .. Len(r) : EntryOK(r[i], s, c, shut) /\ Apart(o, r[i]) /\ Apart(r[i], o)
      /\ \A i, j \in 1 .. Len(r) : i # j => Apart(r[i], r[j])
      /\ \A b \in BlocksOf(s) :
           b \in shut \/ b = Unsealed(o) \/ \E i \in 1 .. Len(r) : Unsealed(r[i]) = b
  BY ApartSymmetric DEF Below
<1>2. /\ 1 .. Len(q) = {1} \cup {k + 1 : k \in 1 .. Len(r)}
      /\ Len(r) \in Nat /\ q[1] = o
      /\ \A k \in 1 .. Len(r) : q[k + 1] = r[k] /\ k + 1 \in 1 .. Len(q) /\ k + 1 # 1
  BY OnTopSplits
<1>3. \A i \in 1 .. Len(q) : EntryOK(q[i], s, c, shut)
  BY <1>1, <1>2
<1>4. ASSUME NEW i \in 1 .. Len(q), NEW j \in 1 .. Len(q), i # j PROVE Apart(q[i], q[j])
  <2>1. CASE i = 1
    <3>1. PICK l \in 1 .. Len(r) : j = l + 1
      BY <1>2, <1>4, <2>1
    <3>2. q[i] = o /\ q[j] = r[l]
      BY <1>2, <2>1, <3>1
    <3> QED
      BY <1>1, <3>2
  <2>2. CASE j = 1
    <3>1. PICK k \in 1 .. Len(r) : i = k + 1
      BY <1>2, <1>4, <2>2
    <3>2. q[i] = r[k] /\ q[j] = o
      BY <1>2, <2>2, <3>1
    <3> QED
      BY <1>1, <3>2
  <2>3. CASE i # 1 /\ j # 1
    <3>1. PICK k \in 1 .. Len(r) : i = k + 1
      BY <1>2, <2>3
    <3>2. PICK l \in 1 .. Len(r) : j = l + 1
      BY <1>2, <2>3
    <3>3. k # l /\ q[i] = r[k] /\ q[j] = r[l]
      BY <1>2, <1>4, <3>1, <3>2
    <3> QED
      BY <1>1, <3>3
  <2> QED
    BY <2>1, <2>2, <2>3
<1>5. \A i \in 1 .. Len(q) : Apart(Nothing, q[i])
  BY NothingOwned DEF Apart
<1>6. \A b \in BlocksOf(s) : b \in shut \/ \E i \in 1 .. Len(q) : Unsealed(q[i]) = b
  <2> SUFFICES ASSUME NEW b \in BlocksOf(s), b \notin shut
               PROVE  \E i \in 1 .. Len(q) : Unsealed(q[i]) = b
    OBVIOUS
  <2>1. CASE b = Unsealed(o)
    BY <1>2, <2>1
  <2>2. CASE b # Unsealed(o)
    <3>1. PICK i \in 1 .. Len(r) : Unsealed(r[i]) = b
      BY <1>1, <2>2
    <3> QED
      BY <1>2, <3>1
  <2> QED
    BY <2>1, <2>2
<1>7. IsRow(q)
  BY DEF OnTop
<1> QED
  BY <1>3, <1>4, <1>5, <1>6, <1>7 DEF Stacked, Below

\* What a step may do without disturbing the constructs under the one that
\* makes it: o is the construct before the step, o2 after it.
New(s) == {b \in Nat : b > Len(s.term)}
Owned(s, u, E, T, P, c, c2, shut, shut2, o, o2) ==
  /\ Changes(s, u, E, T, P) /\ shut \subseteq shut2 /\ c2 # 0
  /\ E \cup {c2} \subseteq {c, Kept(o)} \cup New(s)
  /\ T \subseteq {Unsealed(o)} \cup New(s)
  /\ \A b \in P : b \in {c, Unsealed(o)} \cup New(s) \/ s.term[b].op # "none"
  /\ shut2 \subseteq shut \cup {Unsealed(o)} \cup New(s)
  /\ Kept(o2) \in {0, c, Kept(o)} \cup New(s)
  /\ Unsealed(o2) \in {0, Unsealed(o)} \cup New(s)
  /\ BlocksOf(u) \subseteq BlocksOf(s) \cup shut2 \cup {Unsealed(o2)}
  /\ Unsealed(o) \in shut2 \cup {0, Unsealed(o2)}

LEMMA EntryKept ==
  ASSUME NEW p, NEW o, NEW s, NEW u, NEW E, NEW T, NEW P, NEW c, NEW c2, NEW shut, NEW shut2,
         NEW o2, Owned(s, u, E, T, P, c, c2, shut, shut2, o, o2),
         EntryOK(p, s, c, shut), Apart(o, p)
  PROVE  EntryOK(p, u, c2, shut2) /\ Apart(o2, p)
<1> DEFINE n == Len(s.term)
           m == Len(s.inst)
           n2 == Len(u.term)
           m2 == Len(u.inst)
<1>1. /\ n \in Nat /\ m \in Nat /\ n2 \in Nat /\ m2 \in Nat /\ n <= n2 /\ m <= m2
      /\ Changes(s, u, E, T, P)
  BY DEF Owned, Changes, Grows
<1>2. /\ EntryShape(p, n, m) /\ Kept(p) \in 0 .. n /\ Unsealed(p) \in 0 .. n
      /\ p.b \in 0 .. n /\ p.c \in 0 .. n
  BY <1>1, OwnedBlocks DEF EntryOK
<1>3. EntryShape(p, n2, m2)
  <2>1. 0 .. n \subseteq 0 .. n2 /\ 0 .. m \subseteq 0 .. m2
    BY <1>1
  <2> QED
    BY <1>2, <2>1 DEF EntryShape
<1>4. Kept(p) \notin New(s) /\ Unsealed(p) \notin New(s) /\ 0 \notin New(s)
  BY <1>1, <1>2 DEF New
<1>5. Kept(p) # c /\ Kept(p) # c2
  <2>1. Kept(p) # c
    BY DEF EntryOK
  <2>2. Kept(p) # 0 => Kept(p) # Kept(o)
    BY DEF Apart
  <2> QED
    BY <1>4, <2>1, <2>2 DEF Owned
<1>6. Kept(p) # 0 => Kept(p) \notin E
  <2>2. Kept(p) # 0 => Kept(p) # Kept(o)
    BY DEF Apart
  <2> QED
    BY <1>4, <1>5, <2>2 DEF Owned
<1>7. Unsealed(p) # 0 => Unsealed(p) # Unsealed(o)
  BY DEF Apart
<1>8. Unsealed(p) # 0 => Unsealed(p) \notin T /\ Unsealed(p) \notin shut2
  BY <1>4, <1>7 DEF Owned, EntryOK
<1>9. Apart(o2, p)
  <2>1. Kept(o2) # 0 => Kept(o2) # Kept(p)
    <3>1. Kept(o) # 0 => Kept(o) # Kept(p)
      BY DEF Apart
    <3> QED
      BY <1>4, <1>5, <3>1 DEF Owned
  <2>2. Unsealed(o2) # 0 => Unsealed(o2) # Unsealed(p)
    BY <1>4, <1>7 DEF Owned
  <2> QED
    BY <2>1, <2>2 DEF Apart
<1>10. p.k \in {"then", "loop", "and", "or"} => u.term[Kept(p)].op = "none"
  <2> SUFFICES ASSUME p.k \in {"then", "loop", "and", "or"} PROVE u.term[Kept(p)].op = "none"
    OBVIOUS
  <2>1. s.term[Kept(p)].op = "none" /\ Kept(p) # 0
    BY DEF EntryOK, Kept
  <2>2. Kept(p) \in BlocksOf(s)
    BY <1>1, <1>2, <2>1 DEF BlocksOf
  <2> QED
    BY <1>1, <1>6, <2>1, <2>2 DEF Changes
<1>11. p.k = "loop" => u.term[p.b].op # "none"
  <2> SUFFICES ASSUME p.k = "loop" PROVE u.term[p.b].op # "none"
    OBVIOUS
  <2>1. s.term[p.b].op # "none" /\ p.b # 0
    BY DEF EntryOK
  <2>2. p.b \in BlocksOf(s)
    BY <1>1, <1>2, <2>1 DEF BlocksOf
  <2> QED
    BY <1>1, <2>1, <2>2 DEF Changes
<1>12. p.k \in {"and", "or"} =>
         Len(u.preds[p.c]) = 1 /\ u.preds[p.c][1] = p.b /\ Len(u.pending[p.c]) = 0
  <2> SUFFICES ASSUME p.k \in {"and", "or"}
               PROVE  Len(u.preds[p.c]) = 1 /\ u.preds[p.c][1] = p.b /\ Len(u.pending[p.c]) = 0
    OBVIOUS
  <2>1. Kept(p) = p.c /\ Unsealed(p) = p.c /\ p.c # 0
    BY DEF EntryOK, Kept, Unsealed
  <2>2. p.c \in BlocksOf(s) /\ s.term[p.c].op = "none"
    BY <1>1, <1>2, <2>1 DEF BlocksOf, EntryOK
  <2>3. p.c \notin P
    BY <1>4, <1>5, <1>7, <2>1, <2>2 DEF Owned
  <2>4. p.c \notin T
    BY <1>8, <2>1
  <2>5. u.preds[p.c] = s.preds[p.c] /\ u.pending[p.c] = s.pending[p.c]
    BY <1>1, <2>2, <2>3, <2>4 DEF Changes
  <2> QED
    BY <2>5 DEF EntryOK
<1> QED
  BY <1>3, <1>5, <1>8, <1>9, <1>10, <1>11, <1>12 DEF EntryOK

LEMMA BelowStep ==
  ASSUME NEW r, NEW o, NEW s, NEW u, NEW E, NEW T, NEW P, NEW c, NEW c2, NEW shut, NEW shut2,
         NEW o2, Owned(s, u, E, T, P, c, c2, shut, shut2, o, o2), Below(r, o, s, c, shut)
  PROVE  Below(r, o2, u, c2, shut2)
<1>1. \A i \in 1 .. Len(r) : EntryOK(r[i], u, c2, shut2) /\ Apart(o2, r[i])
  BY EntryKept DEF Below
<1>2. ASSUME NEW b \in BlocksOf(u), b \notin shut2, b # Unsealed(o2)
      PROVE  \E i \in 1 .. Len(r) : Unsealed(r[i]) = b
  <2>1. b \in BlocksOf(s) /\ b \notin shut /\ b # 0
    BY <1>2 DEF Owned, BlocksOf
  <2>2. b # Unsealed(o)
    BY <1>2, <2>1 DEF Owned
  <2> QED
    BY <2>1, <2>2 DEF Below
<1> QED
  BY <1>1, <1>2 DEF Below

-----------------------------------------------------------------------------
(* How constructs nest: bodies, then at most one construct whose           *)
(* expression is being parsed, then the operators in that expression.      *)

BodyAt(q, i) == q[i].k \in BodyKinds /\ (q[i].k = "fn" <=> i = Len(q))
Bodied(q) == IsRow(q) /\ Len(q) > 0 /\ \A i \in 1 .. Len(q) : BodyAt(q, i)
WaitsAt(q, c, w) ==
  /\ q[w].k \in WaitingKinds
  /\ \A j \in 1 .. Len(q) : j < w => q[j].k \in OperandKinds
  /\ \A j \in 1 .. Len(q) : j > w => BodyAt(q, j)
  /\ q[w].k = "while" =>
       c = q[w].b /\ \A j \in 1 .. Len(q) : j < w => q[j].k = "bin"
Waiting(q, c) == IsRow(q) /\ \E w \in 1 .. Len(q) : w < Len(q) /\ WaitsAt(q, c, w)

LEMMA TopIs ==
  ASSUME NEW q, NEW o, NEW r, OnTop(q, o, r)
  PROVE  Head(q) = o /\ Tail(q) = r
<1>1. IsRow(q) /\ IsRow(r) /\ Len(r) \in Nat /\ Len(q) = Len(r) + 1
  BY DEF OnTop, IsRow
<1>2. OnTop(q, Head(q), Tail(q))
  BY <1>1, Split
<1> PICK h, t : h = Head(q) /\ t = Tail(q)
  OBVIOUS
<1>3. OnTop(q, h, t)
  BY <1>2
<1>4. h = o /\ IsRow(t) /\ Len(t) = Len(r)
  BY <1>1, <1>3 DEF OnTop, IsRow
<1>5. \A k \in 1 .. Len(r) : t[k] = r[k]
  BY <1>3, <1>4 DEF OnTop
<1>6. t = r
  BY <1>1, <1>4, <1>5, RowsEqual
<1> QED
  BY <1>4, <1>6

LEMMA BodyAbove ==
  ASSUME NEW q, NEW o, NEW r, OnTop(q, o, r)
  PROVE  \A k \in 1 .. Len(r) : BodyAt(q, k + 1) <=> BodyAt(r, k)
BY OnTopSplits DEF BodyAt

LEMMA BodiedPush ==
  ASSUME NEW q, NEW o, NEW r, OnTop(q, o, r), Bodied(r), o.k \in BodyKinds \ {"fn"}
  PROVE  Bodied(q)
<1>1. BodyAt(q, 1)
  BY OnTopSplits DEF BodyAt, Bodied
<1>2. \A i \in 1 .. Len(q) : BodyAt(q, i)
  BY <1>1, OnTopSplits, BodyAbove DEF Bodied
<1>3. Len(q) > 0 /\ IsRow(q)
  BY OnTopSplits DEF OnTop
<1> QED
  BY <1>2, <1>3 DEF Bodied

LEMMA BodiedPop ==
  ASSUME NEW q, NEW o, NEW r, OnTop(q, o, r), Bodied(q)
  PROVE  o.k \in BodyKinds /\ (IF o.k = "fn" THEN Len(r) = 0 ELSE Bodied(r))
<1>1. /\ Len(r) \in Nat /\ Len(q) = Len(r) + 1 /\ 1 \in 1 .. Len(q) /\ q[1] = o
      /\ \A k \in 1 .. Len(r) : k + 1 \in 1 .. Len(q)
  BY OnTopSplits
<1>2. o.k \in BodyKinds /\ (o.k = "fn" <=> 1 = Len(q))
  BY <1>1 DEF Bodied, BodyAt
<1>3. \A k \in 1 .. Len(r) : BodyAt(r, k)
  BY <1>1, BodyAbove DEF Bodied
<1>4. o.k # "fn" => Len(r) > 0
  BY <1>1, <1>2
<1>5. o.k = "fn" => Len(r) = 0
  BY <1>1, <1>2
<1>6. IsRow(r)
  BY DEF OnTop
<1> QED
  BY <1>2, <1>3, <1>4, <1>5, <1>6 DEF Bodied

LEMMA WaitPush ==
  ASSUME NEW q, NEW o, NEW r, OnTop(q, o, r), Bodied(r), o.k \in WaitingKinds,
         NEW c, o.k = "while" => c = o.b
  PROVE  Waiting(q, c)
<1>1. /\ 1 .. Len(q) = {1} \cup {k + 1 : k \in 1 .. Len(r)}
      /\ Len(r) \in Nat /\ Len(r) > 0 /\ Len(q) = Len(r) + 1 /\ 1 \in 1 .. Len(q) /\ q[1] = o
  BY OnTopSplits DEF Bodied
<1>2. \A j \in 1 .. Len(q) : j > 1 => BodyAt(q, j)
  BY <1>1, BodyAbove DEF Bodied
<1>3. \A j \in 1 .. Len(q) : ~(j < 1)
  BY <1>1
<1>4. WaitsAt(q, c, 1)
  BY <1>1, <1>2, <1>3 DEF WaitsAt
<1>5. IsRow(q) /\ 1 < Len(q)
  BY <1>1 DEF OnTop
<1> QED
  BY <1>1, <1>4, <1>5 DEF Waiting

LEMMA WaitTop ==
  ASSUME NEW q, NEW o, NEW r, OnTop(q, o, r), NEW c, Waiting(q, c), o.k \notin OperandKinds
  PROVE  Bodied(r) /\ o.k \in WaitingKinds /\ (o.k = "while" => c = o.b)
<1>1. PICK w \in 1 .. Len(q) : w < Len(q) /\ WaitsAt(q, c, w)
  BY DEF Waiting
<1>2. /\ Len(r) \in Nat /\ Len(q) = Len(r) + 1 /\ 1 \in 1 .. Len(q) /\ q[1] = o
      /\ \A k \in 1 .. Len(r) : k + 1 \in 1 .. Len(q) /\ k + 1 > 1
  BY OnTopSplits
<1>3. ~(1 < w)
  BY <1>1, <1>2 DEF WaitsAt
<1>4. w = 1
  BY <1>2, <1>3
<1>5. \A k \in 1 .. Len(r) : BodyAt(q, k + 1)
  BY <1>1, <1>2, <1>4 DEF WaitsAt
<1>6. Len(r) > 0
  BY <1>1, <1>2, <1>4
<1>7. Bodied(r)
  BY <1>5, <1>6, BodyAbove DEF Bodied, OnTop
<1> QED
  BY <1>1, <1>2, <1>4, <1>7 DEF WaitsAt

NotInWhile(q) == \A w \in 1 .. Len(q) :
                   q[w].k = "while" => \E j \in 1 .. w : q[j].k \in Bodies

LEMMA OperandPush ==
  ASSUME NEW q, NEW o, NEW r, OnTop(q, o, r), NEW c, NEW c2, Waiting(r, c),
         o.k \in OperandKinds, (o.k = "bin" /\ c2 = c) \/ NotInWhile(r)
  PROVE  Waiting(q, c2)
<1>1. PICK w \in 1 .. Len(r) : w < Len(r) /\ WaitsAt(r, c, w)
  BY DEF Waiting
<1>2. /\ 1 .. Len(q) = {1} \cup {k + 1 : k \in 1 .. Len(r)}
      /\ Len(r) \in Nat /\ Len(q) = Len(r) + 1 /\ q[1] = o
      /\ \A k \in 1 .. Len(r) : q[k + 1] = r[k] /\ k + 1 \in 1 .. Len(q)
  BY OnTopSplits
<1>3. \A k \in 1 .. Len(r) : (k + 1 < w + 1 <=> k < w) /\ (k + 1 > w + 1 <=> k > w)
  BY <1>1, <1>2
<1>4. \A j \in 1 .. Len(q) : j < w + 1 => q[j].k \in OperandKinds
  BY <1>1, <1>2, <1>3 DEF WaitsAt
<1>5. \A j \in 1 .. Len(q) : j > w + 1 => BodyAt(q, j)
  <2>1. ~(1 > w + 1)
    BY <1>1, <1>2
  <2> QED
    BY <1>1, <1>2, <1>3, <2>1, BodyAbove DEF WaitsAt
<1>6. ASSUME q[w + 1].k = "while"
      PROVE  c2 = q[w + 1].b /\ \A j \in 1 .. Len(q) : j < w + 1 => q[j].k = "bin"
  <2>1. r[w].k = "while"
    BY <1>1, <1>2, <1>6
  <2>2. ~NotInWhile(r)
    <3>1. \A j \in 1 .. w : r[j].k \notin Bodies
      <4>1. \A j \in 1 .. w : j \in 1 .. Len(r) /\ (j < w \/ j = w)
        BY <1>1, <1>2
      <4> QED
        BY <1>1, <2>1, <4>1 DEF WaitsAt, OperandKinds, Bodies
    <3> QED
      BY <2>1, <3>1 DEF NotInWhile
  <2>3. o.k = "bin" /\ c2 = c
    BY <2>2
  <2>4. c = q[w + 1].b /\ \A k \in 1 .. Len(r) : k < w => r[k].k = "bin"
    BY <1>1, <1>2, <2>1 DEF WaitsAt
  <2>5. ASSUME NEW j \in 1 .. Len(q), j < w + 1 PROVE q[j].k = "bin"
    <3>1. CASE j = 1
      BY <1>2, <2>3, <3>1, Zenon
    <3>2. CASE j # 1
      <4>1. PICK k \in 1 .. Len(r) : j = k + 1
        BY <1>2, <3>2
      <4> QED
        BY <1>2, <1>3, <2>4, <2>5, <4>1
    <3> QED
      BY <3>1, <3>2
  <2> QED
    BY <2>3, <2>4, <2>5
<1>7. WaitsAt(q, c2, w + 1)
  <2>1. q[w + 1].k \in WaitingKinds
    BY <1>1, <1>2 DEF WaitsAt
  <2> QED
    BY <1>4, <1>5, <1>6, <2>1 DEF WaitsAt
<1>8. w + 1 \in 1 .. Len(q) /\ w + 1 < Len(q)
  BY <1>1, <1>2
<1> QED
  BY <1>7, <1>8 DEF Waiting, OnTop

LEMMA OperandTop ==
  ASSUME NEW q, NEW o, NEW r, OnTop(q, o, r), NEW c, NEW c2, Waiting(q, c),
         o.k \in OperandKinds, o.k = "bin" => c2 = c
  PROVE  Waiting(r, c2)
<1>1. PICK v \in 1 .. Len(q) : v < Len(q) /\ WaitsAt(q, c, v)
  BY DEF Waiting
<1>2. /\ 1 .. Len(q) = {1} \cup {k + 1 : k \in 1 .. Len(r)}
      /\ Len(r) \in Nat /\ Len(q) = Len(r) + 1 /\ q[1] = o /\ 1 \in 1 .. Len(q)
      /\ \A k \in 1 .. Len(r) : q[k + 1] = r[k] /\ k + 1 \in 1 .. Len(q)
  BY OnTopSplits
<1>3. v # 1
  BY <1>1, <1>2 DEF WaitsAt, OperandKinds, WaitingKinds
<1>4. PICK w \in 1 .. Len(r) : v = w + 1
  BY <1>2, <1>3
<1>5. \A k \in 1 .. Len(r) : (k + 1 < v <=> k < w) /\ (k + 1 > v <=> k > w)
  BY <1>2, <1>4
<1>6. 1 < v /\ w < Len(r)
  BY <1>1, <1>2, <1>4
<1>7. \A j \in 1 .. Len(r) : j < w => r[j].k \in OperandKinds
  BY <1>1, <1>2, <1>5 DEF WaitsAt
<1>8. \A j \in 1 .. Len(r) : j > w => BodyAt(r, j)
  BY <1>1, <1>2, <1>5, BodyAbove DEF WaitsAt
<1>9. r[w] = q[v]
  BY <1>2, <1>4
<1>10. r[w].k = "while" => c2 = r[w].b /\ \A j \in 1 .. Len(r) : j < w => r[j].k = "bin"
  BY <1>1, <1>2, <1>5, <1>6, <1>9 DEF WaitsAt
<1>11. WaitsAt(r, c2, w)
  BY <1>1, <1>7, <1>8, <1>9, <1>10 DEF WaitsAt
<1> QED
  BY <1>6, <1>11 DEF Waiting, OnTop

-----------------------------------------------------------------------------
(* What the parser asks of the builder.                                    *)

Fresh(s, shut, b) ==
  /\ b \in BlocksOf(s) /\ b \notin shut /\ s.term[b].op = "none"
  /\ Len(s.preds[b]) = 0 /\ Len(s.pending[b]) = 0 /\ PhiFree(s.inst, b)

\* s and u agree on everything but what new_block adds.
Extends(s, u) ==
  /\ Len(u.term) = Len(s.term) + 1 /\ u.inst = s.inst /\ u.sealed = s.sealed
  /\ \A b \in BlocksOf(s) : /\ u.term[b] = s.term[b] /\ u.preds[b] = s.preds[b]
                            /\ u.pending[b] = s.pending[b]

LEMMA NewBlockStep ==
  ASSUME NEW s, NEW shut, NEW busy, Core(s, shut, busy), NEW E, NEW T, NEW P
  PROVE  /\ Core(NewBlock(s), shut, busy) /\ Changes(s, NewBlock(s), E, T, P)
         /\ Extends(s, NewBlock(s)) /\ Fresh(NewBlock(s), shut, Len(s.term) + 1)
         /\ \A b : Fresh(s, shut, b) => Fresh(NewBlock(s), shut, b)
<1>0. PICK u : u = NewBlock(s)
  OBVIOUS
<1> DEFINE n == Len(s.term)
<1>1. AddsBlock(s, u)
  BY <1>0, NewBlockAdds
<1>2. Core(u, shut, busy) /\ Changes(s, u, E, T, P)
  BY <1>1, CoreNewBlock, NewBlockChanges
<1>3. /\ n \in Nat /\ Len(s.preds) = n /\ Len(s.pending) = n
  BY CoreLens
<1>4. /\ Len(u.term) = n + 1 /\ u.inst = s.inst /\ u.sealed = s.sealed
      /\ u.term[n + 1] = NoTerm /\ u.preds[n + 1] = <<>> /\ u.pending[n + 1] = <<>>
      /\ \A b \in 1 .. n : u.term[b] = s.term[b]
      /\ \A b \in 1 .. n : u.preds[b] = s.preds[b]
      /\ \A b \in 1 .. n : u.pending[b] = s.pending[b]
  BY <1>1, <1>3 DEF AddsBlock, Appended
<1>5. Extends(s, u)
  BY <1>4 DEF Extends, BlocksOf
<1>6. Fresh(u, shut, n + 1)
  <2>1. n + 1 \in BlocksOf(u) /\ n + 1 \notin 1 .. n
    BY <1>3, <1>4 DEF BlocksOf
  <2>2. n + 1 \notin shut
    BY <2>1 DEF Core, BlocksOf
  <2>3. PhiFree(u.inst, n + 1)
    <3>1. \A v \in 1 .. Len(s.inst) : s.inst[v].block \in 1 .. n
      BY DEF Core, InstsOK, InstOK
    <3> QED
      BY <1>4, <2>1, <3>1 DEF PhiFree
  <2>4. u.term[n + 1].op = "none" /\ Len(u.preds[n + 1]) = 0 /\ Len(u.pending[n + 1]) = 0
    BY <1>4, EmptyRow DEF NoTerm
  <2> QED
    BY <2>1, <2>2, <2>3, <2>4 DEF Fresh
<1>7. ASSUME NEW b, Fresh(s, shut, b) PROVE Fresh(u, shut, b)
  <2>1. b \in 1 .. n /\ b \in 1 .. n + 1
    BY <1>3, <1>7 DEF Fresh, BlocksOf
  <2> QED
    BY <1>4, <1>7, <2>1 DEF Fresh, BlocksOf
<1> QED
  BY <1>0, <1>2, <1>5, <1>6, <1>7

LEMMA JumpOK ==
  ASSUME NEW n \in Nat, NEW m \in Nat, NEW h \in 1 .. n
  PROVE  /\ TermOK(Jump(h), n, m) /\ Successors(Jump(h)) = {h} /\ Jump(h).op = "jump"
<1> DEFINE r == <<h>>
<1>1. IsRow(r) /\ Len(r) = 1 /\ r[1] = h /\ DOMAIN r = 1 .. 1
  BY DEF IsRow
<1> HIDE DEF r
<1>2. RowOf(r, 1 .. n) /\ \A j, k \in 1 .. Len(r) : r[j] = r[k] => j = k
  BY <1>1 DEF RowOf
<1>3. /\ Jump(h) = [op |-> "jump", arg |-> 0, to |-> r]
  BY DEF Jump, NoValue, r
<1>4. {r[k] : k \in DOMAIN r} = {h}
  BY <1>1
<1>5. Jump(h).op = "jump" /\ Jump(h).arg = 0 /\ Jump(h).to = r
  BY <1>3
<1>6. Successors(Jump(h)) = {h}
  BY <1>4, <1>5 DEF Successors
<1>7. 0 \in 0 .. m
  OBVIOUS
<1> QED
  BY <1>2, <1>3, <1>5, <1>6, <1>7 DEF TermOK

LEMMA BranchOK ==
  ASSUME NEW n \in Nat, NEW m \in Nat, NEW t \in 1 .. n, NEW e \in 1 .. n, t # e,
         NEW v \in 1 .. m
  PROVE  /\ TermOK(Branch(v, t, e), n, m) /\ Successors(Branch(v, t, e)) = {t, e}
         /\ Branch(v, t, e).op = "branch"
<1> DEFINE r == <<t, e>>
<1>1. IsRow(r) /\ Len(r) = 2 /\ r[1] = t /\ r[2] = e /\ DOMAIN r = 1 .. 2
  BY DEF IsRow
<1> HIDE DEF r
<1>2. RowOf(r, 1 .. n) /\ \A j, k \in 1 .. Len(r) : r[j] = r[k] => j = k
  BY <1>1 DEF RowOf
<1>3. /\ Branch(v, t, e) = [op |-> "branch", arg |-> v, to |-> r] /\ v \in 0 .. m
  BY DEF Branch, r
<1>4. {r[k] : k \in DOMAIN r} = {t, e}
  BY <1>1
<1> PICK f : f = Branch(v, t, e)
  OBVIOUS
<1>5. f = [op |-> "branch", arg |-> v, to |-> r] /\ v \in 0 .. m
  BY <1>3
<1>6. TermOK(f, n, m)
  BY <1>2, <1>5 DEF TermOK
<1>7. Successors(f) = {t, e} /\ f.op = "branch"
  BY <1>4, <1>5 DEF Successors
<1> QED
  BY <1>6, <1>7

LEMMA ReturnOK ==
  ASSUME NEW n \in Nat, NEW m \in Nat, NEW v \in 1 .. m
  PROVE  /\ TermOK(Return(v), n, m) /\ Successors(Return(v)) = {} /\ Return(v).op = "return"
<1>1. Return(v) = [op |-> "return", arg |-> v, to |-> <<>>] /\ v \in 0 .. m
  BY DEF Return
<1>2. RowOf(<<>>, 1 .. n) /\ Len(<<>>) = 0 /\ DOMAIN <<>> = {}
  BY EmptyRow
<1> QED
  BY <1>1, <1>2 DEF TermOK, Successors

LEMMA JumpStep ==
  ASSUME NEW s, NEW shut, NEW busy, Core(s, shut, busy), NEW b \in BlocksOf(s),
         s.term[b].op = "none", NEW h \in BlocksOf(s), h \notin shut,
         NEW E, b \in E, NEW T, h \in T, NEW P
  PROVE  /\ Core(Terminate(s, b, Jump(h)), shut, busy)
         /\ Changes(s, Terminate(s, b, Jump(h)), E, T, P)
         /\ Ends(s, Terminate(s, b, Jump(h)), b, Jump(h))
         /\ Appended(Terminate(s, b, Jump(h)).preds[h], s.preds[h], b)
<1>0. PICK u, t : u = Terminate(s, b, t) /\ t = Jump(h)
  OBVIOUS
<1>1. Len(s.term) \in Nat /\ Len(s.inst) \in Nat
  BY CoreLens
<1>2. TermOK(t, Len(s.term), Len(s.inst)) /\ Successors(t) = {h} /\ t.op = "jump"
  BY <1>0, <1>1, JumpOK DEF BlocksOf
<1>3. Ends(s, u, b, t)
  BY <1>0, <1>2, TerminateEnds
<1>4. Changes(s, u, E, T, P)
  BY <1>2, <1>3, EndsChanges
<1>5. Core(u, shut, busy)
  <2>1. /\ \A c \in shut : Len(s.pending[c]) = 0
        /\ shut \subseteq BlocksOf(s)
    BY DEF Core, Parks
  <2>2. Successors(t) \cap shut = {} /\ t.op # "none" /\ t.op # "branch"
    BY <1>2
  <2> QED
    BY <1>2, <1>3, <2>1, <2>2, CoreEnds
<1>6. Appended(u.preds[h], s.preds[h], b)
  BY <1>2, <1>3 DEF Ends
<1> QED
  BY <1>0, <1>3, <1>4, <1>5, <1>6

LEMMA ReturnStep ==
  ASSUME NEW s, NEW shut, NEW busy, Core(s, shut, busy), NEW b \in BlocksOf(s),
         s.term[b].op = "none", NEW v \in ValuesOf(s), NEW E, b \in E, NEW T, NEW P
  PROVE  /\ Core(Terminate(s, b, Return(v)), shut, busy)
         /\ Changes(s, Terminate(s, b, Return(v)), E, T, P)
         /\ Ends(s, Terminate(s, b, Return(v)), b, Return(v))
<1>0. PICK u, t : u = Terminate(s, b, t) /\ t = Return(v)
  OBVIOUS
<1>1. Len(s.term) \in Nat /\ Len(s.inst) \in Nat
  BY CoreLens
<1>2. TermOK(t, Len(s.term), Len(s.inst)) /\ Successors(t) = {} /\ t.op = "return"
  BY <1>0, <1>1, ReturnOK DEF ValuesOf
<1>3. Ends(s, u, b, t)
  BY <1>0, <1>2, TerminateEnds
<1>4. Changes(s, u, E, T, P)
  BY <1>2, <1>3, EndsChanges
<1>5. Core(u, shut, busy)
  <2>1. /\ \A c \in shut : Len(s.pending[c]) = 0
        /\ shut \subseteq BlocksOf(s)
    BY DEF Core, Parks
  <2>2. Successors(t) \cap shut = {} /\ t.op # "none" /\ t.op # "branch"
    BY <1>2
  <2> QED
    BY <1>2, <1>3, <2>1, <2>2, CoreEnds
<1> QED
  BY <1>0, <1>3, <1>4, <1>5

ForkMade(s, u, b, v, t, e, bs) ==
  bs = {t, e} /\ u = SealFresh(Terminate(s, b, Branch(v, t, e)), bs)

\* The two targets are new and are sealed at once.
ForkReady(s, shut, busy, b, v, t, e) ==
  /\ Core(s, shut, busy) /\ b \in BlocksOf(s) /\ s.term[b].op = "none" /\ v \in ValuesOf(s)
  /\ Fresh(s, shut, t) /\ Fresh(s, shut, e) /\ t # e /\ t # b /\ e # b
ForkDone(s, shut, busy, b, u, t, e, bs) ==
  /\ Core(u, shut \cup bs, busy)
  /\ \A E, T, P : b \in E /\ bs \subseteq T => Changes(s, u, E, T, P)
  /\ Len(u.term) = Len(s.term) /\ u.sealed = s.sealed \cup bs /\ u.inst = s.inst
  /\ u.term[t].op = "none" /\ u.term[e].op = "none" /\ u.term[b].op # "none"
  /\ Successors(u.term[b]) = bs /\ u.pending = s.pending
  /\ \A c \in BlocksOf(s) \ {t, e} : u.preds[c] = s.preds[c]
  /\ \A c \in BlocksOf(s) \ {b} : u.term[c] = s.term[c]

LEMMA ForkStep ==
  ASSUME NEW s, NEW shut, NEW busy, NEW b, NEW v, NEW t, NEW e,
         ForkReady(s, shut, busy, b, v, t, e), NEW bs, NEW u, ForkMade(s, u, b, v, t, e, bs)
  PROVE  ForkDone(s, shut, busy, b, u, t, e, bs)
<1>r. /\ Core(s, shut, busy) /\ b \in BlocksOf(s) /\ s.term[b].op = "none" /\ v \in ValuesOf(s)
      /\ Fresh(s, shut, t) /\ Fresh(s, shut, e) /\ t # e /\ t # b /\ e # b
  BY DEF ForkReady
<1>0. PICK w, f : /\ f = Branch(v, t, e) /\ w = Terminate(s, b, f) /\ u = SealFresh(w, bs)
                  /\ bs = {t, e}
  BY DEF ForkMade
<1>1. Len(s.term) \in Nat /\ Len(s.inst) \in Nat
  BY <1>r, CoreLens
<1>2. TermOK(f, Len(s.term), Len(s.inst)) /\ Successors(f) = bs /\ f.op = "branch"
  <2>1. v \in 1 .. Len(s.inst) /\ t \in 1 .. Len(s.term) /\ e \in 1 .. Len(s.term) /\ t # e
    BY <1>r DEF BlocksOf, ValuesOf, Fresh
  <2>2. TermOK(Branch(v, t, e), Len(s.term), Len(s.inst)) /\ Successors(Branch(v, t, e)) = {t, e}
        /\ Branch(v, t, e).op = "branch"
    BY <1>1, <2>1, BranchOK
  <2> QED
    BY <1>0, <2>2, Zenon
<1>3. Ends(s, w, b, f)
  BY <1>r, <1>0, <1>2, TerminateEnds
<1>5. Core(w, shut \cup bs, busy)
  <2>1. /\ \A c \in shut : Len(s.pending[c]) = 0
        /\ shut \subseteq BlocksOf(s)
    BY <1>r DEF Core, Parks
  <2>2. Successors(f) \cap shut = {} /\ f.op # "none"
    BY <1>r, <1>0, <1>2 DEF Fresh
  <2>3. \A c \in Successors(f) : Len(s.preds[c]) = 0 /\ PhiFree(s.inst, c)
    BY <1>r, <1>0, <1>2 DEF Fresh
  <2>4. \A c \in shut \cup bs : Len(s.pending[c]) = 0
    BY <1>r, <1>0, <2>1 DEF Fresh
  <2>5. shut \subseteq shut \cup bs /\ shut \cup bs \subseteq BlocksOf(s) /\ Successors(f) \subseteq shut \cup bs
    BY <1>r, <1>0, <1>2, <2>1 DEF Fresh
  <2> QED
    BY <1>r, <1>2, <1>3, <2>2, <2>3, <2>4, <2>5, CoreEnds
<1>6. bs \in SUBSET (shut \cup bs)
  OBVIOUS
<1>7. Core(u, shut \cup bs, busy) /\ SetsSealed(w, u, bs)
  BY <1>r, <1>0, <1>5, <1>6, CoreSeal DEF SetsSealed
<1>9. ASSUME NEW E, NEW T, NEW P, b \in E, bs \subseteq T PROVE Changes(s, u, E, T, P)
  <2>1. Successors(f) \subseteq T
    BY <1>r, <1>2, <1>9
  <2>2. Changes(s, w, E, T, P)
    BY <1>r, <1>3, <1>9, <2>1, EndsChanges
  <2>3. Changes(w, u, E, T, P)
    BY <1>r, <1>5, <1>7, SealChanges
  <2> QED
    BY <1>r, <2>2, <2>3, ChangesTrans
<1>10. /\ Len(u.term) = Len(s.term) /\ u.sealed = s.sealed \cup bs /\ u.inst = s.inst
       /\ u.pending = s.pending
       /\ \A c \in BlocksOf(s) \ {t, e} : u.preds[c] = s.preds[c]
       /\ \A c \in BlocksOf(s) \ {b} : u.term[c] = s.term[c]
       /\ u.term[b] = f
  <2>1. /\ Len(w.term) = Len(s.term) /\ w.sealed = s.sealed /\ w.inst = s.inst
        /\ w.pending = s.pending /\ w.term[b] = f
        /\ \A c \in BlocksOf(s) \ {b} : w.term[c] = s.term[c]
        /\ \A c \in BlocksOf(s) \ Successors(f) : w.preds[c] = s.preds[c]
    BY <1>3 DEF Ends
  <2>2. /\ u.term = w.term /\ u.inst = w.inst /\ u.pending = w.pending /\ u.preds = w.preds
        /\ u.sealed = w.sealed \cup bs
    BY <1>7 DEF SetsSealed
  <2>3. \A c \in BlocksOf(s) \ {t, e} : c \notin Successors(f)
    BY <1>0, <1>2, Zenon
  <2> QED
    BY <2>1, <2>2, <2>3
<1>11. u.term[t].op = "none" /\ u.term[e].op = "none" /\ u.term[b].op # "none"
  BY <1>r, <1>2, <1>10 DEF Fresh
<1>12. Successors(u.term[b]) = bs
  BY <1>2, <1>10
<1> QED
  BY <1>7, <1>9, <1>10, <1>11, <1>12 DEF ForkDone

\* An instruction that is no phi, in a block that has not ended.
LEMMA EmitStep ==
  ASSUME NEW s, NEW shut, NEW busy, Core(s, shut, busy), NEW b \in BlocksOf(s),
         s.term[b].op = "none", NEW kind \in InstKinds \ {"phi"}, NEW ty \in Types,
         NEW args, RowOf(args, ValuesOf(s)), NEW E, NEW T, NEW P
  PROVE  LET u == Emit(s, b, kind, ty, args, <<>>)
         IN  /\ Core(u, shut, busy) /\ Changes(s, u, E, T, P)
             /\ AddsInst(s, u, Instruction(b, kind, ty, args, <<>>))
<1>0. PICK u, i : u = Emit(s, b, kind, ty, args, <<>>) /\ i = Instruction(b, kind, ty, args, <<>>)
  OBVIOUS
<1>1. AddsInst(s, u, i)
  BY <1>0, EmitAdds
<1>2. InstOK(i, Len(s.term), Len(s.inst) + 1) /\ i.kind # "phi" /\ i.block = b
  <2>1. RowOf(<<>>, 1 .. Len(s.term))
    BY EmptyRow
  <2>2. RowOf(args, 1 .. Len(s.inst) + 1)
    <3>1. 1 .. Len(s.inst) \subseteq 1 .. Len(s.inst) + 1
      BY CoreLens
    <3> QED
      BY <3>1 DEF RowOf, ValuesOf
  <2> QED
    BY <1>0, <2>1, <2>2 DEF InstOK, Instruction, BlocksOf
<1>3. Core(u, shut, busy)
  BY <1>1, <1>2, CoreEmit
<1>4. Changes(s, u, E, T, P)
  BY <1>1, <1>2, EmitChanges
<1> QED
  BY <1>0, <1>1, <1>3, <1>4

-----------------------------------------------------------------------------
(* The builder's calls in progress.                                        *)

FrameShape(f, n, m) ==
  /\ f = Frame(f.op, f.x, f.b, f.ty, f.phi, f.got, f.rest)
  /\ f.op \in {"read", "write", "ask", "take", "seal"}
  /\ f.x \in Vars \cup {""} /\ f.b \in 1 .. n /\ f.ty \in Types \cup {""}
  /\ f.phi \in 0 .. m /\ RowOf(f.got, 1 .. m) /\ RowOf(f.rest, [x : Vars, phi : 1 .. m])
FrameOK(f, s, c, shut) ==
  /\ FrameShape(f, Len(s.term), Len(s.inst))
  /\ f.b = c \/ s.term[f.b].op # "none"
  /\ f.op # "seal" => f.x \in Vars /\ Len(f.rest) = 0
  /\ f.op \in {"read", "ask", "take"} => f.ty \in Types
  /\ f.op \in {"ask", "take"} =>
       /\ IsPhi(s.inst, f.phi) /\ s.inst[f.phi].block = f.b /\ f.b \in shut
       /\ Len(f.got) <= Len(s.preds[f.b])
       /\ f.op = "take" => Len(f.got) < Len(s.preds[f.b])
  /\ f.op = "seal" =>
       /\ f.b \in shut
       /\ \A k \in 1 .. Len(f.rest) : ParkedAt(f.rest[k], f.b, s.inst, s.defs)

CallKinds == {"read", "write", "ask", "take"}

\* A block that is being sealed is bound to every variable still read for it.
SealsLast(r, s) ==
  \A i \in 1 .. Len(r) : r[i].op = "seal" =>
    i = Len(r) /\ \A j \in 1 .. Len(r) : j < i => s.defs[r[i].b][r[j].x] # NoValue
SealsBound(r, x, s) ==
  \A i \in 1 .. Len(r) : r[i].op = "seal" => s.defs[r[i].b][x] # NoValue
FramesOK(r, s, c, shut) ==
  IsRow(r) /\ (\A i \in 1 .. Len(r) : FrameOK(r[i], s, c, shut)) /\ SealsLast(r, s)
\* The calls under one that reads x.
Under(r, x, s, c, shut) == FramesOK(r, s, c, shut) /\ SealsBound(r, x, s)

LEMMA FramePop ==
  ASSUME NEW q, NEW f, NEW r, OnTop(q, f, r), NEW s, NEW c, NEW shut, FramesOK(q, s, c, shut)
  PROVE  /\ FrameOK(f, s, c, shut)
         /\ IF f.op = "seal" THEN Len(r) = 0 ELSE Under(r, f.x, s, c, shut)
<1>1. /\ Len(r) \in Nat /\ Len(q) = Len(r) + 1 /\ 1 \in 1 .. Len(q) /\ q[1] = f
      /\ \A k \in 1 .. Len(r) : q[k + 1] = r[k] /\ k + 1 \in 1 .. Len(q)
  BY OnTopSplits
<1>2. FrameOK(f, s, c, shut)
  BY <1>1 DEF FramesOK
<1>3. f.op = "seal" => Len(r) = 0
  BY <1>1 DEF FramesOK, SealsLast
<1>4. SealsLast(r, s)
  <2> SUFFICES ASSUME NEW i \in 1 .. Len(r), r[i].op = "seal"
               PROVE  i = Len(r) /\ \A j \in 1 .. Len(r) : j < i => s.defs[r[i].b][r[j].x] # NoValue
    BY DEF SealsLast
  <2>1. /\ i + 1 = Len(q)
        /\ \A j \in 1 .. Len(q) : j < i + 1 => s.defs[r[i].b][q[j].x] # NoValue
    BY <1>1 DEF FramesOK, SealsLast
  <2>2. i = Len(r)
    BY <1>1, <2>1
  <2>3. \A j \in 1 .. Len(r) : j < i => j + 1 < i + 1
    BY <1>1
  <2> QED
    BY <1>1, <2>1, <2>2, <2>3
<1>5. SealsBound(r, f.x, s)
  <2> SUFFICES ASSUME NEW i \in 1 .. Len(r), r[i].op = "seal" PROVE s.defs[r[i].b][f.x] # NoValue
    BY DEF SealsBound
  <2>1. \A j \in 1 .. Len(q) : j < i + 1 => s.defs[r[i].b][q[j].x] # NoValue
    BY <1>1 DEF FramesOK, SealsLast
  <2>2. 1 < i + 1
    BY <1>1
  <2> QED
    BY <1>1, <2>1, <2>2
<1>6. FramesOK(r, s, c, shut)
  BY <1>1, <1>4 DEF FramesOK, OnTop
<1> QED
  BY <1>2, <1>3, <1>5, <1>6 DEF Under

LEMMA FramePush ==
  ASSUME NEW q, NEW f, NEW r, OnTop(q, f, r), NEW s, NEW c, NEW shut,
         Under(r, f.x, s, c, shut), FrameOK(f, s, c, shut), f.op \in CallKinds
  PROVE  Under(q, f.x, s, c, shut)
<1>1. /\ 1 .. Len(q) = {1} \cup {k + 1 : k \in 1 .. Len(r)}
      /\ Len(r) \in Nat /\ Len(q) = Len(r) + 1 /\ q[1] = f
      /\ \A k \in 1 .. Len(r) : q[k + 1] = r[k] /\ k + 1 \in 1 .. Len(q)
  BY OnTopSplits
<1>2. \A i \in 1 .. Len(q) : FrameOK(q[i], s, c, shut)
  BY <1>1 DEF Under, FramesOK
<1>3. SealsLast(q, s)
  <2> SUFFICES ASSUME NEW i \in 1 .. Len(q), q[i].op = "seal"
               PROVE  i = Len(q) /\ \A j \in 1 .. Len(q) : j < i => s.defs[q[i].b][q[j].x] # NoValue
    BY DEF SealsLast
  <2>1. PICK k \in 1 .. Len(r) : i = k + 1
    BY <1>1 DEF CallKinds
  <2>2. r[k].op = "seal" /\ q[i] = r[k]
    BY <1>1, <2>1
  <2>3. /\ k = Len(r) /\ \A j \in 1 .. Len(r) : j < k => s.defs[r[k].b][r[j].x] # NoValue
        /\ s.defs[r[k].b][f.x] # NoValue
    BY <2>2 DEF Under, FramesOK, SealsLast, SealsBound
  <2>4. ASSUME NEW j \in 1 .. Len(q), j < i PROVE s.defs[r[k].b][q[j].x] # NoValue
    <3>1. CASE j = 1
      BY <1>1, <2>3, <3>1, Zenon
    <3>2. CASE j # 1
      <4>1. PICK l \in 1 .. Len(r) : j = l + 1
        BY <1>1, <3>2
      <4>2. l < k /\ q[j] = r[l]
        BY <1>1, <2>1, <2>4, <4>1
      <4> QED
        BY <2>3, <4>2
    <3> QED
      BY <3>1, <3>2
  <2> QED
    BY <1>1, <2>1, <2>2, <2>3, <2>4
<1>4. SealsBound(q, f.x, s)
  <2> SUFFICES ASSUME NEW i \in 1 .. Len(q), q[i].op = "seal" PROVE s.defs[q[i].b][f.x] # NoValue
    BY DEF SealsBound
  <2>1. PICK k \in 1 .. Len(r) : i = k + 1
    BY <1>1 DEF CallKinds
  <2>2. q[i] = r[k]
    BY <1>1, <2>1
  <2> QED
    BY <2>2 DEF Under, SealsBound
<1> QED
  BY <1>2, <1>3, <1>4 DEF Under, FramesOK, OnTop

LEMMA FramesNone == \A r, s, c, shut, x : IsRow(r) /\ Len(r) = 0 => Under(r, x, s, c, shut)
<1>1. \A r : IsRow(r) /\ Len(r) = 0 => 1 .. Len(r) = {}
  OBVIOUS
<1> QED
  BY <1>1 DEF Under, FramesOK, SealsLast, SealsBound

LEMMA SealPush ==
  ASSUME NEW q, NEW f, NEW r, OnTop(q, f, r), Len(r) \in {0}, NEW s, NEW c, NEW shut,
         FrameOK(f, s, c, shut)
  PROVE  /\ FramesOK(q, s, c, shut)
         /\ \A x : s.defs[f.b][x] # NoValue => Under(q, x, s, c, shut)
<1>1. Len(q) = Len(r) + 1 /\ q[1] = f
  BY DEF OnTop
<1>a. 1 .. Len(q) = {1} /\ Len(q) = 1
  BY <1>1
<1> QED
  BY <1>1, <1>a DEF Under, FramesOK, SealsLast, SealsBound, OnTop

LEMMA FrameKept ==
  ASSUME NEW f, NEW s, NEW c, NEW shut, FrameOK(f, s, c, shut), NEW u, NEW P,
         Changes(s, u, {}, {}, P), NEW shut2, shut \subseteq shut2
  PROVE  FrameOK(f, u, c, shut2)
<1> DEFINE n == Len(s.term)
           m == Len(s.inst)
<1>1. /\ n \in Nat /\ m \in Nat /\ Len(u.term) \in Nat /\ Len(u.inst) \in Nat
      /\ n <= Len(u.term) /\ m <= Len(u.inst)
      /\ \A b \in 1 .. n : u.term[b] = s.term[b] /\ u.preds[b] = s.preds[b]
      /\ \A b \in 1 .. n : \A x \in Vars : s.defs[b][x] # NoValue => u.defs[b][x] # NoValue
      /\ \A v \in 1 .. m : u.inst[v].kind = s.inst[v].kind /\ u.inst[v].block = s.inst[v].block
  BY DEF Changes, Grows, BlocksOf, ValuesOf
<1>2. /\ 1 .. n \subseteq 1 .. Len(u.term) /\ 1 .. m \subseteq 1 .. Len(u.inst)
      /\ 0 .. m \subseteq 0 .. Len(u.inst)
      /\ [x : Vars, phi : 1 .. m] \subseteq [x : Vars, phi : 1 .. Len(u.inst)]
  BY <1>1
<1>3. FrameShape(f, n, m) /\ f.b \in 1 .. n
  BY DEF FrameOK, FrameShape
<1>4. FrameShape(f, Len(u.term), Len(u.inst))
  BY <1>2, <1>3 DEF FrameShape, RowOf
<1>5. u.term[f.b] = s.term[f.b] /\ u.preds[f.b] = s.preds[f.b]
  BY <1>1, <1>3
<1>6. \A v : IsPhi(s.inst, v) => IsPhi(u.inst, v) /\ u.inst[v].block = s.inst[v].block
  BY <1>1, <1>2 DEF IsPhi
<1>7. \A p : ParkedAt(p, f.b, s.inst, s.defs) => ParkedAt(p, f.b, u.inst, u.defs)
  BY <1>1, <1>3, <1>6 DEF ParkedAt
<1> QED
  BY <1>4, <1>5, <1>6, <1>7 DEF FrameOK

LEMMA UnderKept ==
  ASSUME NEW r, NEW x \in Vars, NEW s, NEW c, NEW shut, Under(r, x, s, c, shut), NEW u, NEW P,
         Changes(s, u, {}, {}, P), NEW shut2, shut \subseteq shut2
  PROVE  Under(r, x, u, c, shut2)
<1>1. \A i \in 1 .. Len(r) : FrameOK(r[i], s, c, shut) /\ FrameOK(r[i], u, c, shut2)
  BY FrameKept DEF Under, FramesOK
<1>2. \A b \in 1 .. Len(s.term) : \A y \in Vars : s.defs[b][y] # NoValue => u.defs[b][y] # NoValue
  BY DEF Changes, BlocksOf
<1>3. \A i \in 1 .. Len(r) : r[i].b \in 1 .. Len(s.term) /\ (r[i].op # "seal" => r[i].x \in Vars)
  BY <1>1 DEF FrameOK, FrameShape
<1>4. SealsBound(r, x, u)
  BY <1>2, <1>3 DEF Under, SealsBound
<1>5. SealsLast(r, u)
  <2> SUFFICES ASSUME NEW i \in 1 .. Len(r), r[i].op = "seal"
               PROVE  i = Len(r) /\ \A j \in 1 .. Len(r) : j < i => u.defs[r[i].b][r[j].x] # NoValue
    BY DEF SealsLast
  <2>1. i = Len(r) /\ \A j \in 1 .. Len(r) : j < i => s.defs[r[i].b][r[j].x] # NoValue
    BY DEF Under, FramesOK, SealsLast
  <2>2. \A j \in 1 .. Len(r) : j < i => r[j].op # "seal"
    <3>1. \A j \in 1 .. Len(r) : r[j].op = "seal" => j = Len(r)
      BY DEF Under, FramesOK, SealsLast
    <3>2. \A j \in 1 .. Len(r) : j < i => j # Len(r)
      BY <2>1
    <3> QED
      BY <3>1, <3>2
  <2> QED
    BY <1>2, <1>3, <2>1, <2>2
<1> QED
  BY <1>1, <1>4, <1>5 DEF Under, FramesOK

\* The phis whose operands are being read, and the block being sealed.
Holds(f, v) == \/ f.op \in {"ask", "take"} /\ f.phi = v
               \/ \E k \in 1 .. Len(f.rest) : f.rest[k].phi = v
HeldBy(f) == {v \in Nat : Holds(f, v)}
SealedBy(f) == {b \in Nat : f.op = "seal" /\ f.b = b}
Busy(q) == UNION {HeldBy(q[i]) : i \in 1 .. Len(q)}
Sealing(q) == UNION {SealedBy(q[i]) : i \in 1 .. Len(q)}
Shut(s, q) == s.sealed \cup Sealing(q)

LEMMA BusyOnTop ==
  ASSUME NEW q, NEW f, NEW r, OnTop(q, f, r)
  PROVE  Busy(q) = HeldBy(f) \cup Busy(r) /\ Sealing(q) = SealedBy(f) \cup Sealing(r)
<1>1. /\ 1 .. Len(q) = {1} \cup {k + 1 : k \in 1 .. Len(r)}
      /\ q[1] = f /\ \A k \in 1 .. Len(r) : q[k + 1] = r[k]
  BY OnTopSplits
<1>2. {HeldBy(q[i]) : i \in 1 .. Len(q)} = {HeldBy(f)} \cup {HeldBy(r[k]) : k \in 1 .. Len(r)}
  BY <1>1
<1>3. {SealedBy(q[i]) : i \in 1 .. Len(q)} = {SealedBy(f)} \cup {SealedBy(r[k]) : k \in 1 .. Len(r)}
  BY <1>1
<1> QED
  BY <1>2, <1>3 DEF Busy, Sealing

LEMMA BusyNone ==
  ASSUME NEW q, IsRow(q), Len(q) = 0
  PROVE  Busy(q) = {} /\ Sealing(q) = {}
<1>1. 1 .. Len(q) = {}
  OBVIOUS
<1> QED
  BY <1>1 DEF Busy, Sealing

-----------------------------------------------------------------------------
(* The whole state, between two calls into the builder.                    *)

Quiet(s, c, q) == /\ Core(s, s.sealed, {}) /\ c \in BlocksOf(s)
                  /\ Stacked(q, s, c, s.sealed)
QuietBelow(r, o, s, c) == /\ Core(s, s.sealed, {}) /\ c \in BlocksOf(s)
                          /\ Below(r, o, s, c, s.sealed)

\* What no step of the parser undoes.
Keeps(s, u) ==
  /\ \A b \in s.sealed : u.preds[b] = s.preds[b]
  /\ \A b \in BlocksOf(s) : s.term[b].op # "none" => u.term[b] = s.term[b]
  /\ \A v \in ValuesOf(u) \ ValuesOf(s) :
       u.inst[v].block \in BlocksOf(s) /\ s.term[u.inst[v].block].op # "none"
         => u.inst[v].kind = "phi"

LEMMA ChangesKeeps ==
  ASSUME NEW s, NEW u, NEW E, NEW T, NEW P, Changes(s, u, E, T, P),
         s.sealed \subseteq BlocksOf(s) \ T
  PROVE  Keeps(s, u)
<1>1. \A b \in s.sealed : u.preds[b] = s.preds[b]
  BY DEF Changes
<1>2. \A b \in BlocksOf(s) : s.term[b].op # "none" => u.term[b] = s.term[b]
  BY DEF Changes
<1>3. \A v \in ValuesOf(u) \ ValuesOf(s) :
        u.inst[v].block \in BlocksOf(s) /\ s.term[u.inst[v].block].op # "none"
          => u.inst[v].kind = "phi"
  BY DEF Changes
<1> QED
  BY <1>1, <1>2, <1>3 DEF Keeps

LEMMA QuietFacts ==
  ASSUME NEW s, NEW c, NEW q, Quiet(s, c, q)
  PROVE  /\ Len(s.term) \in Nat /\ Len(s.inst) \in Nat /\ c \in 1 .. Len(s.term)
         /\ c # 0 /\ 0 \in 0 .. Len(s.term)
         /\ s.sealed \subseteq BlocksOf(s) /\ IsRow(q) /\ QuietBelow(q, Nothing, s, c)
<1>1. Core(s, s.sealed, {})
  BY DEF Quiet
<1>2. Len(s.term) \in Nat /\ Len(s.inst) \in Nat /\ s.sealed \subseteq BlocksOf(s)
  BY <1>1, CoreLens DEF Core
<1>3. c \in 1 .. Len(s.term)
  BY DEF Quiet, BlocksOf
<1>4. c # 0 /\ 0 \in 0 .. Len(s.term)
  BY <1>2, <1>3
<1> QED
  BY <1>2, <1>3, <1>4 DEF Quiet, QuietBelow, Stacked, Below

LEMMA QuietPop ==
  ASSUME NEW s, NEW c, NEW q, Quiet(s, c, q), NEW o, NEW r, OnTop(q, o, r)
  PROVE  /\ QuietBelow(r, o, s, c) /\ EntryOK(o, s, c, s.sealed)
         /\ Kept(o) = 0 /\ Unsealed(o) = 0 => Quiet(s, c, r)
<1>1. Stacked(q, s, c, s.sealed)
  BY DEF Quiet
<1>2. Below(r, o, s, c, s.sealed) /\ EntryOK(o, s, c, s.sealed)
  BY <1>1, PopStack
<1>3. ASSUME Kept(o) = 0, Unsealed(o) = 0 PROVE Below(r, Nothing, s, c, s.sealed)
  <2>1. \A i \in 1 .. Len(r) : Apart(Nothing, r[i])
    BY NothingOwned DEF Apart
  <2>2. Unsealed(Nothing) = Unsealed(o)
    BY <1>3, NothingOwned
  <2> QED
    BY <1>2, <2>1, <2>2 DEF Below
<1> QED
  BY <1>2, <1>3 DEF Quiet, QuietBelow, Stacked

LEMMA QuietPush ==
  ASSUME NEW s, NEW c, NEW r, NEW o, QuietBelow(r, o, s, c), EntryOK(o, s, c, s.sealed),
         NEW q, OnTop(q, o, r)
  PROVE  Quiet(s, c, q)
BY PushStack DEF Quiet, QuietBelow

\* A construct without blocks of its own.
LEMMA QuietPlain ==
  ASSUME NEW s, NEW c, NEW q, Quiet(s, c, q), NEW k \in WaitingKinds \cup {"name", "bin"},
         k # "while", NEW x \in Vars \cup {""}, k \in {"let", "assign", "name"} => x \in Vars,
         NEW v \in 0 .. Len(s.inst), k = "bin" => v # 0
  PROVE  Quiet(s, c, <<Open(k, x, 0, 0, v)>> \o q)
<1>0. PICK o : o = Open(k, x, 0, 0, v)
  OBVIOUS
<1>1. o.k = k /\ o.x = x /\ o.b = 0 /\ o.c = 0 /\ o.v = v /\ o = Open(o.k, o.x, o.b, o.c, o.v)
  BY <1>0 DEF Open
<1>2. c # 0 /\ 0 \in 0 .. Len(s.term) /\ IsRow(q)
  BY QuietFacts
<1>3. Kept(o) = 0 /\ Unsealed(o) = 0
  BY <1>1 DEF Kept, Unsealed, WaitingKinds
<1>4. EntryShape(o, Len(s.term), Len(s.inst))
  <2>1. k \in EntryKinds
    BY Zenon DEF EntryKinds, OperandKinds
  <2> QED
    BY <1>1, <1>2, <2>1 DEF EntryShape
<1>5. EntryOK(o, s, c, s.sealed)
  <2>1. o.k \notin {"then", "else", "elseif", "while", "loop", "and", "or"}
    BY <1>1 DEF WaitingKinds
  <2>2. o.k \in OperandKinds => o.v # 0
    BY <1>1, <2>1 DEF OperandKinds
  <2>3. o.k \in {"let", "assign", "name"} => o.x \in Vars
    BY <1>1
  <2>4. Kept(o) # c
    BY <1>2, <1>3, Zenon
  <2> QED
    BY <1>3, <1>4, <2>1, <2>2, <2>3, <2>4 DEF EntryOK
<1>6. OnTop(<<o>> \o q, o, q)
  BY <1>2, Front
<1>7. QuietBelow(q, o, s, c)
  <2>1. \A i \in 1 .. Len(q) : Apart(o, q[i])
    BY <1>3 DEF Apart
  <2>2. Unsealed(Nothing) = Unsealed(o)
    BY <1>3, NothingOwned
  <2>3. QuietBelow(q, Nothing, s, c)
    BY QuietFacts
  <2> QED
    BY <2>1, <2>2, <2>3 DEF QuietBelow, Below
<1> QED
  BY <1>0, <1>5, <1>6, <1>7, QuietPush

\* The step from s to u, where the construct o becomes o2 and c2 the block.
LEMMA QuietStep ==
  ASSUME NEW s, NEW c, NEW r, NEW o, QuietBelow(r, o, s, c), NEW u, Core(u, u.sealed, {}),
         NEW c2 \in BlocksOf(u), NEW o2, NEW E, NEW T,
         Owned(s, u, E, T, {}, c, c2, s.sealed, u.sealed, o, o2),
         Unsealed(o) # 0 => Unsealed(o) \notin s.sealed
  PROVE  QuietBelow(r, o2, u, c2) /\ Keeps(s, u)
<1>1. Below(r, o2, u, c2, u.sealed)
  BY BelowStep DEF QuietBelow
<1>2. s.sealed \subseteq BlocksOf(s) \ T
  <2>1. s.sealed \subseteq BlocksOf(s)
    BY DEF QuietBelow, Core
  <2>2. \A b \in BlocksOf(s) : b \notin New(s) /\ b # 0
    BY DEF New, BlocksOf
  <2> QED
    BY <2>1, <2>2 DEF Owned
<1>3. Keeps(s, u)
  BY <1>2, ChangesKeeps DEF Owned
<1> QED
  BY <1>1, <1>3 DEF QuietBelow

\* A step that adds no block and leaves the constructs and the block alone.
LEMMA QuietChange ==
  ASSUME NEW s, NEW c, NEW q, Quiet(s, c, q), NEW u, Core(u, s.sealed, {}),
         u.sealed = s.sealed, Len(u.term) = Len(s.term), Changes(s, u, {c}, {}, {})
  PROVE  Quiet(u, c, q) /\ Keeps(s, u)
<1>1. QuietBelow(q, Nothing, s, c) /\ c \in 1 .. Len(s.term)
  BY QuietFacts
<1>2. Owned(s, u, {c}, {}, {}, c, c, s.sealed, u.sealed, Nothing, Nothing)
  BY <1>1, NothingOwned DEF Owned, BlocksOf
<1>3. Core(u, u.sealed, {}) /\ c \in BlocksOf(u)
  BY <1>1 DEF BlocksOf
<1>4. QuietBelow(q, Nothing, u, c) /\ Keeps(s, u)
  BY <1>1, <1>2, <1>3, NothingOwned, QuietStep
<1> QED
  BY <1>4 DEF Quiet, QuietBelow, Stacked

-----------------------------------------------------------------------------
(* The constructs that make blocks.                                        *)

\* An edge leads from an earlier block to each block a step makes.
Led(s, u) ==
  \A b \in BlocksOf(u) \ BlocksOf(s) : \E p \in 1 .. b - 1 : b \in Successors(u.term[p])

LEMMA LeadsTo ==
  ASSUME NEW s, NEW u, NEW B, BlocksOf(u) = BlocksOf(s) \cup B, B \subseteq New(s),
         \A b \in B : \E p \in BlocksOf(s) : b \in Successors(u.term[p])
  PROVE  Led(s, u)
<1> SUFFICES ASSUME NEW b \in B
             PROVE  \E p \in 1 .. b - 1 : b \in Successors(u.term[p])
  BY DEF Led
<1>1. PICK p \in BlocksOf(s) : b \in Successors(u.term[p])
  OBVIOUS
<1>2. b \in Nat /\ b > Len(s.term) /\ p \in 1 .. Len(s.term)
  BY DEF New, BlocksOf
<1>3. p \in 1 .. b - 1
  <2>1. p \in Nat /\ 1 <= p /\ p <= Len(s.term)
    BY <1>2
  <2>2. CASE Len(s.term) \in Int
    BY <1>2, <2>1, <2>2
  <2> QED
    BY <1>2, <2>1, <2>2
<1> QED
  BY <1>1, <1>3

NewBlockMade(s, u, h) == h = Len(s.term) + 1 /\ u = NewBlock(s)

LEMMA NewBlocks ==
  ASSUME NEW s, NEW shut, Core(s, shut, {}), NEW u, NEW h, NewBlockMade(s, u, h)
  PROVE  /\ h \in New(s) /\ h \notin New(u) /\ New(u) \subseteq New(s) /\ h \notin BlocksOf(s)
         /\ BlocksOf(u) = BlocksOf(s) \cup {h} /\ Len(u.term) = h
         /\ Core(u, shut, {}) /\ Fresh(u, shut, h)
         /\ \A b : Fresh(s, shut, b) => Fresh(u, shut, b)
         /\ u.sealed = s.sealed /\ u.inst = s.inst
         /\ \A b \in BlocksOf(s) : u.term[b] = s.term[b] /\ u.preds[b] = s.preds[b]
         /\ \A E, T, P : Changes(s, u, E, T, P)
<1>0. h = Len(s.term) + 1 /\ u = NewBlock(s)
  BY DEF NewBlockMade
<1>1. Len(s.term) \in Nat
  BY CoreLens
<1>2. /\ Core(u, shut, {}) /\ Fresh(u, shut, h) /\ Extends(s, u)
      /\ \A b : Fresh(s, shut, b) => Fresh(u, shut, b)
      /\ \A E, T, P : Changes(s, u, E, T, P)
  BY <1>0, NewBlockStep
<1>3. Len(u.term) = h /\ u.sealed = s.sealed /\ u.inst = s.inst
  BY <1>0, <1>2 DEF Extends
<1>4. BlocksOf(u) = BlocksOf(s) \cup {h}
  BY <1>0, <1>1, <1>3 DEF BlocksOf
<1>5. h \in New(s) /\ h \notin New(u) /\ New(u) \subseteq New(s) /\ h \notin BlocksOf(s)
  BY <1>0, <1>1, <1>3 DEF New, BlocksOf
<1>6. \A b \in BlocksOf(s) : u.term[b] = s.term[b] /\ u.preds[b] = s.preds[b]
  BY <1>2 DEF Extends
<1> QED
  BY <1>2, <1>3, <1>4, <1>5, <1>6

\* Two new blocks, t and e, that the current block branches to on v.
TwoWay(s, c, v, u, t, e) ==
  /\ t = Len(s.term) + 1 /\ e = Len(s.term) + 2
  /\ u = SealFresh(Terminate(NewBlock(NewBlock(s)), c, Branch(v, t, e)), {t, e})
Forked(s, c, u, t, e) ==
  /\ Core(u, u.sealed, {}) /\ Changes(s, u, {c}, {t, e}, {})
  /\ Len(u.term) = e /\ BlocksOf(u) = BlocksOf(s) \cup {t, e}
  /\ t \in New(s) /\ e \in New(s) /\ t # e
  /\ u.sealed = s.sealed \cup {t, e} /\ u.inst = s.inst
  /\ u.term[t].op = "none" /\ u.term[e].op = "none" /\ u.term[c].op # "none"
  /\ Led(s, u)

LEMMA TwoWayForks ==
  ASSUME NEW s, NEW c \in BlocksOf(s), Core(s, s.sealed, {}), s.term[c].op = "none",
         NEW v \in ValuesOf(s), NEW u, NEW t, NEW e, TwoWay(s, c, v, u, t, e)
  PROVE  Forked(s, c, u, t, e)
<1>0. PICK s1, s2, bs :
        NewBlockMade(s, s1, t) /\ NewBlockMade(s1, s2, e) /\ ForkMade(s2, u, c, v, t, e, bs)
  <2>1. PICK s1, s2 : s1 = NewBlock(s) /\ s2 = NewBlock(s1)
    OBVIOUS
  <2>2. NewBlockMade(s, s1, t)
    BY <2>1 DEF NewBlockMade, TwoWay
  <2>3. Len(s.term) \in Nat /\ Len(s1.term) = Len(s.term) + 1
    BY <2>2, CoreLens, NewBlocks DEF TwoWay
  <2>4. NewBlockMade(s1, s2, e)
    BY <2>1, <2>3 DEF NewBlockMade, TwoWay
  <2>5. ForkMade(s2, u, c, v, t, e, {t, e})
    BY <2>1 DEF ForkMade, TwoWay
  <2> QED
    BY <2>2, <2>4, <2>5
<1>1. /\ t \in New(s) /\ t \notin New(s1) /\ New(s1) \subseteq New(s) /\ t \notin BlocksOf(s)
      /\ BlocksOf(s1) = BlocksOf(s) \cup {t}
      /\ Core(s1, s.sealed, {}) /\ Fresh(s1, s.sealed, t)
      /\ s1.sealed = s.sealed /\ s1.inst = s.inst
      /\ \A b \in BlocksOf(s) : s1.term[b] = s.term[b]
      /\ \A E, T, P : Changes(s, s1, E, T, P)
  BY <1>0, NewBlocks
<1>2. /\ e \in New(s1) /\ e \notin BlocksOf(s1) /\ BlocksOf(s2) = BlocksOf(s1) \cup {e}
      /\ Len(s2.term) = e
      /\ Core(s2, s.sealed, {}) /\ Fresh(s2, s.sealed, e) /\ Fresh(s2, s.sealed, t)
      /\ s2.sealed = s1.sealed /\ s2.inst = s1.inst
      /\ \A b \in BlocksOf(s1) : s2.term[b] = s1.term[b]
      /\ \A E, T, P : Changes(s1, s2, E, T, P)
  BY <1>0, <1>1, NewBlocks
<1>3. /\ e \in New(s) /\ t # e /\ c # t /\ c # e /\ c \in BlocksOf(s2)
      /\ s2.term[c].op = "none" /\ v \in ValuesOf(s2)
  BY <1>1, <1>2 DEF ValuesOf
<1>4. bs = {t, e}
  BY <1>0 DEF ForkMade
<1>5. /\ Core(u, s.sealed \cup bs, {}) /\ Changes(s2, u, {c}, bs, {})
      /\ Len(u.term) = Len(s2.term) /\ u.sealed = s2.sealed \cup bs /\ u.inst = s2.inst
      /\ u.term[t].op = "none" /\ u.term[e].op = "none" /\ u.term[c].op # "none"
      /\ Successors(u.term[c]) = bs
  <2>1. ForkReady(s2, s.sealed, {}, c, v, t, e)
    BY <1>2, <1>3 DEF ForkReady
  <2>2. ForkDone(s2, s.sealed, {}, c, u, t, e, bs)
    BY <1>0, <2>1, ForkStep
  <2> QED
    BY <2>2 DEF ForkDone
<1>6. Changes(s, u, {c}, bs, {})
  BY <1>1, <1>2, <1>5, ChangesTrans
<1>7. BlocksOf(u) = BlocksOf(s) \cup {t, e}
  BY <1>1, <1>2, <1>5 DEF BlocksOf
<1>8. Core(u, u.sealed, {}) /\ u.sealed = s.sealed \cup {t, e} /\ u.inst = s.inst
  BY <1>1, <1>2, <1>4, <1>5
<1>9. Led(s, u)
  <2>1. \A b \in {t, e} : \E p \in BlocksOf(s) : b \in Successors(u.term[p])
    BY <1>4, <1>5
  <2>2. {t, e} \subseteq New(s)
    BY <1>1, <1>3
  <2> QED
    BY <1>7, <2>1, <2>2, LeadsTo
<1> QED
  BY <1>1, <1>2, <1>3, <1>4, <1>5, <1>6, <1>7, <1>8, <1>9 DEF Forked

\* parse_while: from s to u, with the header h and the construct o.
WhileBegun(s, c, u, h, o) ==
  /\ h = Len(s.term) + 1 /\ u = Terminate(NewBlock(s), c, Jump(h))
  /\ o = Open("while", "", h, 0, NoValue)

LEMMA BeginsWhile ==
  ASSUME NEW s, NEW c, NEW q, Quiet(s, c, q), s.term[c].op = "none",
         NEW u, NEW h, NEW o, WhileBegun(s, c, u, h, o)
  PROVE  /\ Quiet(u, h, <<o>> \o q) /\ Keeps(s, u) /\ Led(s, u)
         /\ Len(u.term) = h /\ u.term[h].op = "none" /\ u.inst = s.inst
         /\ o.k = "while" /\ o.b = h
<1>1. /\ Core(s, s.sealed, {}) /\ c \in BlocksOf(s) /\ QuietBelow(q, Nothing, s, c) /\ IsRow(q)
  BY QuietFacts DEF Quiet
<1>2. PICK s1 : NewBlockMade(s, s1, h) /\ u = Terminate(s1, c, Jump(h))
  BY DEF WhileBegun, NewBlockMade
<1>3. /\ h \in New(s) /\ BlocksOf(s1) = BlocksOf(s) \cup {h} /\ Len(s1.term) = h
      /\ Core(s1, s.sealed, {}) /\ Fresh(s1, s.sealed, h)
      /\ s1.sealed = s.sealed /\ s1.inst = s.inst
      /\ \A b \in BlocksOf(s) : s1.term[b] = s.term[b]
      /\ \A E, T, P : Changes(s, s1, E, T, P)
  BY <1>1, <1>2, NewBlocks
<1>4. c \in BlocksOf(s1) /\ s1.term[c].op = "none" /\ h \in BlocksOf(s1) /\ h \notin s.sealed
  BY <1>1, <1>3 DEF Fresh
<1>5. /\ Core(u, s.sealed, {}) /\ Changes(s1, u, {c}, {h}, {}) /\ Ends(s1, u, c, Jump(h))
  BY <1>2, <1>3, <1>4, JumpStep
<1>6. Changes(s, u, {c}, {h}, {})
  BY <1>3, <1>5, ChangesTrans
<1>7. c # h /\ h # 0
  BY <1>1, <1>3 DEF New, BlocksOf
<1>8. /\ Len(u.term) = h /\ u.sealed = s.sealed /\ u.inst = s.inst /\ u.term[h].op = "none"
      /\ BlocksOf(u) = BlocksOf(s) \cup {h}
  BY <1>3, <1>4, <1>5, <1>7 DEF Ends, Fresh, BlocksOf
<1>9. /\ o.k = "while" /\ o.x = "" /\ o.b = h /\ o.c = 0 /\ o.v = 0
      /\ o = Open(o.k, o.x, o.b, o.c, o.v)
  BY DEF Open, NoValue, WhileBegun
<1>a. Kept(o) = 0 /\ Unsealed(o) = h
  BY <1>9 DEF Kept, Unsealed
<1>10. Owned(s, u, {c}, {h}, {}, c, h, s.sealed, u.sealed, Nothing, o)
  BY <1>3, <1>6, <1>7, <1>8, <1>a, NothingOwned DEF Owned
<1>11. h \in BlocksOf(u) /\ Core(u, u.sealed, {})
  BY <1>5, <1>8
<1>12. QuietBelow(q, o, u, h) /\ Keeps(s, u)
  BY <1>1, <1>10, <1>11, NothingOwned, QuietStep
<1>13. EntryOK(o, u, h, u.sealed)
  <2>1. EntryShape(o, Len(u.term), Len(u.inst))
    <3>1. h \in 0 .. Len(u.term) /\ 0 \in 0 .. Len(u.term) /\ 0 \in 0 .. Len(u.inst)
      <4>1. Len(u.term) \in Nat /\ Len(u.inst) \in Nat /\ h \in 1 .. Len(u.term)
        BY <1>11, CoreLens DEF BlocksOf
      <4> QED
        BY <4>1
    <3>2. "while" \in EntryKinds
      BY DEF EntryKinds, WaitingKinds
    <3> QED
      BY <1>9, <3>1, <3>2 DEF EntryShape
  <2>2. h \notin u.sealed
    BY <1>4, <1>8
  <2> QED
    BY <1>7, <1>9, <1>a, <2>1, <2>2 DEF EntryOK, OperandKinds
<1>14. OnTop(<<o>> \o q, o, q)
  BY <1>1, Front
<1>15. Quiet(u, h, <<o>> \o q)
  BY <1>12, <1>13, <1>14, QuietPush
<1>16. Led(s, u)
  <2>1. u.term[c] = Jump(h)
    BY <1>5 DEF Ends
  <2>2. h \in Successors(Jump(h))
    <3>1. Len(u.term) \in Nat /\ Len(u.inst) \in Nat /\ h \in 1 .. Len(u.term)
      BY <1>11, CoreLens DEF BlocksOf
    <3> QED
      BY <3>1, JumpOK
  <2>3. \A b \in {h} : \E p \in BlocksOf(s) : b \in Successors(u.term[p])
    BY <1>1, <2>1, <2>2
  <2>4. {h} \subseteq New(s)
    BY <1>3
  <2> QED
    BY <1>8, <2>3, <2>4, LeadsTo, ZenonT(60)
<1> QED
  BY <1>8, <1>9, <1>12, <1>15, <1>16

\* The condition of an if or a while has been parsed: from s to u, o becomes o2.
BodyOpened(o, c, e, o2) ==
  \/ o.k = "if" /\ o2 = Open("then", "", e, 0, NoValue)
  \/ o.k = "while" /\ o.b = c /\ o2 = Open("loop", "", c, e, NoValue)

LEMMA BodyOwns ==
  ASSUME NEW o, NEW c, NEW e, NEW o2, BodyOpened(o, c, e, o2)
  PROVE  /\ Kept(o) = 0 /\ Kept(o2) = e /\ Unsealed(o2) = Unsealed(o) /\ Unsealed(o) \in {0, c}
         /\ o2 = Open(o2.k, o2.x, o2.b, o2.c, o2.v) /\ o2.k \in {"then", "loop"}
         /\ o2.x = "" /\ o2.b \in {c, e} /\ o2.c \in {0, e} /\ o2.v = 0
         /\ o2.k = "loop" => o2.b = c /\ o2.c = e /\ Unsealed(o) = c
<1>1. CASE o.k = "if" /\ o2 = Open("then", "", e, 0, NoValue)
  <2>1. o2.k = "then" /\ o2.x = "" /\ o2.b = e /\ o2.c = 0 /\ o2.v = 0
    BY <1>1 DEF Open, NoValue
  <2>2. o2 = Open(o2.k, o2.x, o2.b, o2.c, o2.v)
    BY <1>1 DEF Open, NoValue
  <2>3. Kept(o) = 0 /\ Unsealed(o) = 0 /\ Kept(o2) = e /\ Unsealed(o2) = 0
    BY <1>1, <2>1 DEF Kept, Unsealed
  <2> QED
    BY <2>1, <2>2, <2>3
<1>2. CASE o.k = "while" /\ o.b = c /\ o2 = Open("loop", "", c, e, NoValue)
  <2>1. o2.k = "loop" /\ o2.x = "" /\ o2.b = c /\ o2.c = e /\ o2.v = 0
    BY <1>2 DEF Open, NoValue
  <2>2. o2 = Open(o2.k, o2.x, o2.b, o2.c, o2.v)
    BY <1>2 DEF Open, NoValue
  <2>3. Kept(o) = 0 /\ Unsealed(o) = c /\ Kept(o2) = e /\ Unsealed(o2) = c
    BY <1>2, <2>1 DEF Kept, Unsealed
  <2> QED
    BY <2>1, <2>2, <2>3
<1> QED
  BY <1>1, <1>2 DEF BodyOpened

LEMMA OpensBody ==
  ASSUME NEW s, NEW c, NEW q, Quiet(s, c, q), NEW o, NEW r, OnTop(q, o, r),
         s.term[c].op = "none", NEW v \in ValuesOf(s), NEW u, NEW t, NEW e,
         TwoWay(s, c, v, u, t, e), NEW o2, BodyOpened(o, c, e, o2)
  PROVE  /\ Quiet(u, t, <<o2>> \o r) /\ Keeps(s, u) /\ Led(s, u)
         /\ Len(u.term) = Len(s.term) + 2 /\ u.inst = s.inst /\ o2.k \in {"then", "loop"}
<1>1. /\ Core(s, s.sealed, {}) /\ c \in BlocksOf(s) /\ QuietBelow(r, o, s, c)
      /\ EntryOK(o, s, c, s.sealed)
  BY QuietPop DEF Quiet
<1>2. Forked(s, c, u, t, e)
  BY <1>1, TwoWayForks
<1>3. /\ Core(u, u.sealed, {}) /\ Changes(s, u, {c}, {t, e}, {})
      /\ Len(u.term) = e /\ BlocksOf(u) = BlocksOf(s) \cup {t, e}
      /\ t \in New(s) /\ e \in New(s) /\ t # e
      /\ u.sealed = s.sealed \cup {t, e} /\ u.inst = s.inst
      /\ u.term[t].op = "none" /\ u.term[e].op = "none" /\ u.term[c].op # "none"
      /\ Led(s, u)
  BY <1>2 DEF Forked
<1>4. /\ Kept(o) = 0 /\ Kept(o2) = e /\ Unsealed(o2) = Unsealed(o) /\ Unsealed(o) \in {0, c}
      /\ o2 = Open(o2.k, o2.x, o2.b, o2.c, o2.v) /\ o2.k \in {"then", "loop"}
      /\ o2.x = "" /\ o2.b \in {c, e} /\ o2.c \in {0, e} /\ o2.v = 0
      /\ o2.k = "loop" => o2.b = c /\ o2.c = e /\ Unsealed(o) = c
  BY BodyOwns
<1>5. /\ t # 0 /\ e # 0 /\ c # 0 /\ c # t /\ c # e
      /\ BlocksOf(s) = 1 .. Len(s.term) /\ Len(s.term) \in Nat
  BY <1>1, <1>3, CoreLens DEF New, BlocksOf
<1>6. Owned(s, u, {c}, {t, e}, {}, c, t, s.sealed, u.sealed, o, o2)
  <2>1. BlocksOf(u) \subseteq BlocksOf(s) \cup u.sealed \cup {Unsealed(o2)}
    BY <1>3
  <2> QED
    BY <1>3, <1>4, <1>5, <2>1 DEF Owned
<1>7. Unsealed(o) # 0 => Unsealed(o) \notin s.sealed
  BY <1>1 DEF EntryOK
<1>8. QuietBelow(r, o2, u, t) /\ Keeps(s, u)
  BY <1>1, <1>3, <1>6, <1>7, QuietStep
<1>9. EntryOK(o2, u, t, u.sealed)
  <2>1. EntryShape(o2, Len(u.term), Len(u.inst))
    <3>1. {0, c, e} \subseteq 0 .. Len(u.term) /\ 0 \in 0 .. Len(u.inst)
      <4>1. Len(u.term) \in Nat /\ Len(u.inst) \in Nat /\ c \in 1 .. Len(u.term) /\ e \in 1 .. Len(u.term)
        BY <1>1, <1>3, CoreLens DEF BlocksOf
      <4> QED
        BY <4>1
    <3>2. o2.k \in EntryKinds
      BY <1>4 DEF EntryKinds, BodyKinds, Bodies
    <3> QED
      BY <1>4, <3>1, <3>2 DEF EntryShape
  <2>2. Unsealed(o2) # 0 => Unsealed(o2) \notin u.sealed
    BY <1>3, <1>4, <1>5, <1>7
  <2>3. /\ o2.b # 0 /\ Kept(o2) # t /\ u.term[Kept(o2)].op = "none"
        /\ o2.k = "loop" => o2.c # 0 /\ u.term[o2.b].op # "none"
    BY <1>3, <1>4, <1>5
  <2>4. o2.k \notin OperandKinds /\ o2.k \notin {"let", "assign", "name"} /\ o2.k \notin {"and", "or"}
    BY <1>4 DEF OperandKinds
  <2> QED
    BY <1>4, <2>1, <2>2, <2>3, <2>4 DEF EntryOK
<1>10. IsRow(r)
  BY DEF OnTop
<1>11. OnTop(<<o2>> \o r, o2, r)
  BY <1>10, Front
<1>12. Quiet(u, t, <<o2>> \o r)
  BY <1>8, <1>9, <1>11, QuietPush
<1>13. Len(u.term) = Len(s.term) + 2
  BY <1>3 DEF TwoWay
<1> QED
  BY <1>3, <1>4, <1>8, <1>12, <1>13

\* A jump to h from block a, unless a has ended.
JumpReady(s, shut, a, h) == /\ Core(s, shut, {}) /\ a \in BlocksOf(s) /\ h \in BlocksOf(s)
                            /\ h \notin shut
MaybeJumps(s, u, a, h) ==
  u = IF s.term[a].op # "none" THEN s ELSE Terminate(s, a, Jump(h))
Jumped(s, shut, u, a, h) ==
  /\ Core(u, shut, {}) /\ \A E, T, P : a \in E /\ h \in T => Changes(s, u, E, T, P)
  /\ Len(u.term) = Len(s.term) /\ u.inst = s.inst /\ u.sealed = s.sealed /\ u.pending = s.pending
  /\ u.defs = s.defs
  /\ u.term[a].op # "none" /\ \A b \in BlocksOf(s) \ {a} : u.term[b] = s.term[b]
  /\ s.term[a].op = "none" => h \in Successors(u.term[a])

LEMMA JumpMaybe ==
  ASSUME NEW s, NEW shut, NEW a, NEW h, JumpReady(s, shut, a, h), NEW u, MaybeJumps(s, u, a, h)
  PROVE  Jumped(s, shut, u, a, h)
<1>0. Core(s, shut, {}) /\ a \in BlocksOf(s) /\ h \in BlocksOf(s) /\ h \notin shut
  BY DEF JumpReady
<1>1. CASE s.term[a].op # "none"
  <2>1. u \in {s}
    BY <1>1 DEF MaybeJumps
  <2>2. \A E, T, P : Changes(s, s, E, T, P)
    BY <1>0, ChangesNone
  <2>3. Jumped(s, shut, s, a, h)
    BY <1>0, <1>1, <2>2 DEF Jumped
  <2> QED
    BY <2>1, <2>3
<1>2. CASE s.term[a].op = "none"
  <2>1. u \in {Terminate(s, a, Jump(h))}
    BY <1>2 DEF MaybeJumps
  <2>2. /\ Core(u, shut, {}) /\ Ends(s, u, a, Jump(h))
    <3>1. a \in {a} /\ h \in {h}
      OBVIOUS
    <3>2. /\ Core(Terminate(s, a, Jump(h)), shut, {}) /\ Ends(s, Terminate(s, a, Jump(h)), a, Jump(h))
      BY <1>0, <1>2, <3>1, JumpStep
    <3> QED
      BY <2>1, <3>2
  <2>3. ASSUME NEW E, NEW T, NEW P, a \in E, h \in T PROVE Changes(s, u, E, T, P)
    <3>1. Changes(s, Terminate(s, a, Jump(h)), E, T, P)
      BY <1>0, <1>2, <2>3, JumpStep
    <3> QED
      BY <2>1, <3>1
  <2>4. Jump(h).op = "jump"
    BY DEF Jump
  <2>5. u.term[a].op # "none"
    BY <2>2, <2>4 DEF Ends
  <2>6. /\ Len(u.term) = Len(s.term) /\ u.inst = s.inst /\ u.sealed = s.sealed
        /\ u.pending = s.pending /\ u.defs = s.defs
        /\ \A b \in BlocksOf(s) \ {a} : u.term[b] = s.term[b]
    BY <2>2 DEF Ends
  <2>7. h \in Successors(u.term[a])
    <3>1. Len(s.term) \in Nat /\ Len(s.inst) \in Nat /\ h \in 1 .. Len(s.term)
      BY <1>0, CoreLens DEF BlocksOf
    <3>2. h \in Successors(Jump(h))
      BY <3>1, JumpOK
    <3>3. u.term[a] = Jump(h)
      BY <2>2 DEF Ends
    <3> QED
      BY <3>2, <3>3
  <2> QED
    BY <2>2, <2>3, <2>5, <2>6, <2>7 DEF Jumped
<1> QED
  BY <1>1, <1>2

\* The blocks a and b the two arms of an if end in, one of them the current
\* block, the other kept by the construct o.
Arms(o, c, a, b) == /\ o.k \in {"then", "else", "elseif"}
                    /\ (a = c /\ b = o.b) \/ (a = o.b /\ b = c)
IfClosed(s, a, b, u, j) ==
  LET s1 == NewBlock(s)
      join == Len(s1.term)
      w1 == IF s.term[a].op # "none" THEN s1 ELSE Terminate(s1, a, Jump(join))
      w2 == IF s.term[b].op # "none" THEN w1 ELSE Terminate(w1, b, Jump(join))
  IN  IF s.term[a].op # "none" /\ s.term[b].op # "none"
      THEN j = a /\ u = s
      ELSE u = SealFresh(w2, {join}) /\ j = join

\* The three steps of an if that has a join.
JoinMade(s, a, b, u, j, s1, w1, w2) ==
  /\ NewBlockMade(s, s1, j) /\ MaybeJumps(s1, w1, a, j) /\ MaybeJumps(w1, w2, b, j)
  /\ u = SealFresh(w2, {j})

LEMMA IfJoins ==
  ASSUME NEW s, NEW shut, Core(s, shut, {}), NEW a \in BlocksOf(s), NEW b \in BlocksOf(s), a # b,
         s.term[a].op = "none" \/ s.term[b].op = "none", NEW u, NEW j, IfClosed(s, a, b, u, j)
  PROVE  \E s1, w1, w2 : JoinMade(s, a, b, u, j, s1, w1, w2)
<1>1. PICK s1 : s1 = NewBlock(s)
  OBVIOUS
<1>2. NewBlockMade(s, s1, Len(s1.term))
  BY <1>1, NewBlockStep DEF NewBlockMade, Extends
<1>3. /\ \A d \in BlocksOf(s) : s1.term[d] = s.term[d]
      /\ Core(s1, shut, {}) /\ BlocksOf(s1) = BlocksOf(s) \cup {Len(s1.term)}
      /\ Fresh(s1, shut, Len(s1.term))
  BY <1>2, NewBlocks
<1>4. PICK w1 : w1 = IF s.term[a].op # "none" THEN s1 ELSE Terminate(s1, a, Jump(Len(s1.term)))
  OBVIOUS
<1>5. PICK w2 : w2 = IF s.term[b].op # "none" THEN w1 ELSE Terminate(w1, b, Jump(Len(s1.term)))
  OBVIOUS
<1>6. j = Len(s1.term) /\ u = SealFresh(w2, {j})
  BY <1>1, <1>4, <1>5 DEF IfClosed
<1>7. MaybeJumps(s1, w1, a, j)
  BY <1>3, <1>4, <1>6 DEF MaybeJumps
<1>8. Jumped(s1, shut, w1, a, j)
  <2>1. JumpReady(s1, shut, a, j)
    BY <1>3, <1>6 DEF JumpReady, Fresh
  <2> QED
    BY <1>7, <2>1, JumpMaybe
<1>9. w1.term[b] = s.term[b]
  BY <1>3, <1>8 DEF Jumped
<1>10. MaybeJumps(w1, w2, b, j)
  BY <1>5, <1>6, <1>9 DEF MaybeJumps
<1> QED
  BY <1>2, <1>6, <1>7, <1>10 DEF JoinMade

JoinDone(s, a, b, u, j) ==
  /\ Core(u, u.sealed, {}) /\ Changes(s, u, {a, b}, {j}, {})
  /\ j \in New(s) /\ BlocksOf(u) = BlocksOf(s) \cup {j} /\ u.sealed = s.sealed \cup {j}
  /\ Len(u.term) = j /\ u.inst = s.inst /\ Led(s, u)

LEMMA JoinKeepsCore ==
  ASSUME NEW s, Core(s, s.sealed, {}), NEW a \in BlocksOf(s), NEW b \in BlocksOf(s), a # b,
         s.term[a].op = "none" \/ s.term[b].op = "none",
         NEW u, NEW j, NEW s1, NEW w1, NEW w2, JoinMade(s, a, b, u, j, s1, w1, w2)
  PROVE  JoinDone(s, a, b, u, j)
<1>0. /\ NewBlockMade(s, s1, j) /\ MaybeJumps(s1, w1, a, j) /\ MaybeJumps(w1, w2, b, j)
      /\ u = SealFresh(w2, {j})
  BY DEF JoinMade
<1>1. /\ j \in New(s) /\ BlocksOf(s1) = BlocksOf(s) \cup {j} /\ Len(s1.term) = j
      /\ Core(s1, s.sealed, {}) /\ Fresh(s1, s.sealed, j)
      /\ s1.sealed = s.sealed /\ s1.inst = s.inst
      /\ \A E, T, P : Changes(s, s1, E, T, P)
  BY <1>0, NewBlocks
<1>2. JumpReady(s1, s.sealed, a, j)
  BY <1>1 DEF JumpReady, Fresh
<1>3. Jumped(s1, s.sealed, w1, a, j)
  BY <1>0, <1>2, JumpMaybe
<1>4. /\ Core(w1, s.sealed, {}) /\ Changes(s1, w1, {a, b}, {j}, {}) /\ Len(w1.term) = Len(s1.term)
      /\ w1.inst = s1.inst /\ w1.sealed = s1.sealed /\ w1.pending = s1.pending
  BY <1>3 DEF Jumped
<1>5. JumpReady(w1, s.sealed, b, j)
  BY <1>1, <1>4 DEF JumpReady, Fresh, BlocksOf
<1>6. Jumped(w1, s.sealed, w2, b, j)
  BY <1>0, <1>5, JumpMaybe
<1>7. /\ Core(w2, s.sealed, {}) /\ Changes(w1, w2, {a, b}, {j}, {}) /\ Len(w2.term) = Len(w1.term)
      /\ w2.inst = w1.inst /\ w2.sealed = w1.sealed /\ w2.pending = w1.pending
  BY <1>6 DEF Jumped
<1>8. Core(w2, s.sealed \cup {j}, {})
  <2>1. Len(s1.pending[j]) = 0
    BY <1>1 DEF Fresh
  <2>2. {j} \in SUBSET BlocksOf(w2) /\ \A d \in {j} : Len(w2.pending[d]) = 0
    BY <1>1, <1>4, <1>7, <2>1 DEF BlocksOf
  <2> QED
    BY <1>7, <2>2, CoreShut
<1>9. Core(u, s.sealed \cup {j}, {}) /\ SetsSealed(w2, u, {j})
  <2>1. {j} \in SUBSET (s.sealed \cup {j})
    OBVIOUS
  <2> QED
    BY <1>0, <1>8, <2>1, CoreSeal DEF SetsSealed
<1>10. Changes(w2, u, {a, b}, {j}, {})
  BY <1>8, <1>9, SealChanges
<1>11. Changes(s, u, {a, b}, {j}, {})
  <2>1. Changes(s, s1, {a, b}, {j}, {})
    BY <1>1
  <2>2. Changes(s, w1, {a, b}, {j}, {})
    BY <1>4, <2>1, ChangesTrans
  <2>3. Changes(s, w2, {a, b}, {j}, {})
    BY <1>7, <2>2, ChangesTrans
  <2> QED
    BY <1>10, <2>3, ChangesTrans
<1>12. u.sealed = s.sealed \cup {j} /\ u.inst = s.inst /\ Len(u.term) = j
  BY <1>1, <1>4, <1>7, <1>9 DEF SetsSealed
<1>13. BlocksOf(u) = BlocksOf(s) \cup {j}
  BY <1>1, <1>12 DEF BlocksOf
<1>14. Core(u, u.sealed, {})
  BY <1>9, <1>12
<1>15. j \in Successors(u.term[a]) \/ j \in Successors(u.term[b])
  <2>1. a \in BlocksOf(s1) /\ b \in BlocksOf(s1) \ {a}
        /\ s1.term[a] = s.term[a] /\ s1.term[b] = s.term[b]
    BY <1>0, <1>1, NewBlocks
  <2>2. a \in BlocksOf(w1) \ {b} /\ w1.term[b] = s1.term[b]
    BY <1>3, <1>4, <2>1 DEF Jumped, BlocksOf
  <2>3. s1.term[a].op = "none" => j \in Successors(w1.term[a])
    BY <1>3 DEF Jumped
  <2>4. w2.term[a] = w1.term[a] /\ (w1.term[b].op = "none" => j \in Successors(w2.term[b]))
    BY <1>6, <2>2 DEF Jumped
  <2>5. u.term = w2.term
    BY <1>9 DEF SetsSealed
  <2> QED
    BY <2>1, <2>2, <2>3, <2>4, <2>5
<1>16. Led(s, u)
  <2>1. \A d \in {j} : \E p \in BlocksOf(s) : d \in Successors(u.term[p])
    BY <1>15
  <2>2. {j} \subseteq New(s)
    BY <1>1
  <2> QED
    BY <1>13, <2>1, <2>2, LeadsTo
<1> QED
  BY <1>1, <1>11, <1>12, <1>13, <1>14, <1>16 DEF JoinDone

LEMMA ClosesIf ==
  ASSUME NEW s, NEW c, NEW q, Quiet(s, c, q), NEW o, NEW r, OnTop(q, o, r),
         NEW a, NEW b, Arms(o, c, a, b), NEW u, NEW j, IfClosed(s, a, b, u, j)
  PROVE  /\ Quiet(u, j, r) /\ Keeps(s, u) /\ Led(s, u) /\ u.inst = s.inst
         /\ s.term[a].op # "none" /\ s.term[b].op # "none" => u = s
         /\ s.term[a].op = "none" \/ s.term[b].op = "none" => Len(u.term) = Len(s.term) + 1
<1>1. /\ Core(s, s.sealed, {}) /\ c \in BlocksOf(s) /\ QuietBelow(r, o, s, c)
      /\ EntryOK(o, s, c, s.sealed)
  BY QuietPop DEF Quiet
<1>2. Kept(o) = o.b /\ Unsealed(o) = 0 /\ {a, b} = {c, Kept(o)}
  BY DEF Arms, Kept, Unsealed
<1>3. a # b /\ a \in BlocksOf(s) /\ b \in BlocksOf(s)
  <2>1. o.b # 0 /\ Kept(o) # c /\ o.b \in 0 .. Len(s.term)
    BY <1>1 DEF EntryOK, EntryShape, Arms
  <2>2. Len(s.term) \in Nat
    BY <1>1, CoreLens
  <2>3. o.b \in BlocksOf(s)
    BY <2>1, <2>2 DEF BlocksOf
  <2> QED
    BY <1>1, <1>2, <2>1, <2>3 DEF Arms
<1>4. CASE s.term[a].op # "none" /\ s.term[b].op # "none"
  <2>1. j \in {a} /\ u \in {s}
    BY <1>4 DEF IfClosed
  <2>2. Changes(s, s, {}, {}, {})
    BY <1>1, ChangesNone
  <2>3. a # 0 /\ a \in {c, Kept(o)}
    <3>1. Len(s.term) \in Nat
      BY <1>1, CoreLens
    <3> QED
      BY <1>2, <1>3, <3>1 DEF BlocksOf
  <2>4. Owned(s, s, {}, {}, {}, c, a, s.sealed, s.sealed, o, Nothing)
    BY <1>2, <2>2, <2>3, NothingOwned DEF Owned
  <2>5. QuietBelow(r, Nothing, s, a) /\ Keeps(s, s)
    BY <1>1, <1>2, <1>3, <2>4, QuietStep
  <2>6. Quiet(s, a, r)
    BY <2>5 DEF Quiet, QuietBelow, Stacked
  <2>7. Led(s, s)
    BY DEF Led
  <2> QED
    BY <1>4, <2>1, <2>5, <2>6, <2>7
<1>5. CASE s.term[a].op = "none" \/ s.term[b].op = "none"
  <2>1. PICK s1, w1, w2 : JoinMade(s, a, b, u, j, s1, w1, w2)
    BY <1>1, <1>3, <1>5, IfJoins
  <2>2. JoinDone(s, a, b, u, j)
    BY <1>1, <1>3, <1>5, <2>1, JoinKeepsCore
  <2>3. /\ Core(u, u.sealed, {}) /\ Changes(s, u, {a, b}, {j}, {})
        /\ j \in New(s) /\ BlocksOf(u) = BlocksOf(s) \cup {j} /\ u.sealed = s.sealed \cup {j}
        /\ Len(u.term) = j /\ u.inst = s.inst /\ Led(s, u)
    BY <2>2 DEF JoinDone
  <2>4. j # 0 /\ j \in BlocksOf(u)
    BY <2>3 DEF New
  <2>5. Owned(s, u, {a, b}, {j}, {}, c, j, s.sealed, u.sealed, o, Nothing)
    BY <1>2, <2>3, <2>4, NothingOwned DEF Owned
  <2>6. QuietBelow(r, Nothing, u, j) /\ Keeps(s, u)
    BY <1>1, <1>2, <2>3, <2>4, <2>5, QuietStep
  <2>7. Quiet(u, j, r)
    BY <2>6 DEF Quiet, QuietBelow, Stacked
  <2>8. Len(u.term) = Len(s.term) + 1
    BY <2>1, <2>3, NewBlockStep DEF JoinMade, NewBlockMade
  <2> QED
    BY <1>5, <2>3, <2>6, <2>7, <2>8
<1> QED
  BY <1>4, <1>5

\* The else arm begins: the block the then arm ended in is kept instead.
ArmTurned(k, c, o2) == k \in {"else", "elseif"} /\ o2 = Open(k, "", c, 0, NoValue)

LEMMA TurnsArm ==
  ASSUME NEW s, NEW c, NEW q, Quiet(s, c, q), NEW o, NEW r, OnTop(q, o, r), o.k \in {"then"},
         NEW k, NEW o2, ArmTurned(k, c, o2)
  PROVE  /\ Quiet(s, o.b, <<o2>> \o r) /\ s.term[o.b].op = "none" /\ Keeps(s, s)
         /\ o2.k \in {"else", "elseif"}
<1>1. /\ Core(s, s.sealed, {}) /\ c \in BlocksOf(s) /\ QuietBelow(r, o, s, c)
      /\ EntryOK(o, s, c, s.sealed) /\ Len(s.term) \in Nat /\ Len(s.inst) \in Nat
      /\ BlocksOf(s) = 1 .. Len(s.term)
  BY QuietPop, QuietFacts DEF Quiet, BlocksOf
<1>2. Kept(o) = o.b /\ Unsealed(o) = 0
  BY DEF Kept, Unsealed
<1>3. /\ o2.k \in {"else", "elseif"} /\ o2.x = "" /\ o2.b = c /\ o2.c = 0 /\ o2.v = 0
      /\ o2 = Open(o2.k, o2.x, o2.b, o2.c, o2.v)
  BY DEF ArmTurned, Open, NoValue
<1>4. Kept(o2) = c /\ Unsealed(o2) = 0
  BY <1>3 DEF Kept, Unsealed
<1>5. o.b \in BlocksOf(s) /\ o.b # c /\ s.term[o.b].op = "none" /\ o.b # 0
  <2>1. o.b # 0 /\ Kept(o) # c /\ o.b \in 0 .. Len(s.term) /\ s.term[Kept(o)].op = "none"
    BY <1>1 DEF EntryOK, EntryShape
  <2> QED
    BY <1>1, <1>2, <2>1
<1>6. Changes(s, s, {}, {}, {})
  BY <1>1, ChangesNone
<1>7. Owned(s, s, {}, {}, {}, c, o.b, s.sealed, s.sealed, o, o2)
  BY <1>2, <1>4, <1>5, <1>6 DEF Owned
<1>8. QuietBelow(r, o2, s, o.b) /\ Keeps(s, s)
  BY <1>1, <1>2, <1>5, <1>7, QuietStep
<1>9. EntryOK(o2, s, o.b, s.sealed)
  <2>1. EntryShape(o2, Len(s.term), Len(s.inst))
    <3>1. {0, c} \subseteq 0 .. Len(s.term) /\ 0 \in 0 .. Len(s.inst)
      BY <1>1
    <3>2. o2.k \in EntryKinds
      BY <1>3 DEF EntryKinds, BodyKinds, Bodies
    <3> QED
      BY <1>3, <3>1, <3>2 DEF EntryShape
  <2>2. c # 0
    BY <1>1
  <2>3. /\ o2.k \notin OperandKinds /\ o2.k \notin {"let", "assign", "name"}
        /\ o2.k \notin {"loop", "and", "or"} /\ o2.k \notin {"then", "loop", "and", "or"}
    BY <1>3 DEF OperandKinds
  <2> QED
    BY <1>3, <1>4, <1>5, <2>1, <2>2, <2>3 DEF EntryOK
<1>10. OnTop(<<o2>> \o r, o2, r)
  BY Front DEF OnTop
<1>11. Quiet(s, o.b, <<o2>> \o r)
  BY <1>8, <1>9, <1>10, QuietPush
<1> QED
  BY <1>3, <1>5, <1>8, <1>11

\* The state while the builder may be busy.
Held(s, c, q, wk) ==
  /\ Core(s, Shut(s, wk), Busy(wk)) /\ c \in BlocksOf(s)
  /\ Stacked(q, s, c, Shut(s, wk)) /\ FramesOK(wk, s, c, Shut(s, wk))

LEMMA HeldQuiet ==
  ASSUME NEW s, NEW c, NEW q, NEW wk, IsRow(wk), Len(wk) = 0
  PROVE  Held(s, c, q, wk) <=> Quiet(s, c, q)
<1>1. Busy(wk) = {} /\ Shut(s, wk) = s.sealed
  BY BusyNone DEF Shut
<1>2. FramesOK(wk, s, c, s.sealed)
  BY FramesNone DEF Under
<1> QED
  BY <1>1, <1>2 DEF Held, Quiet

\* The back edge of a while, and the call that seals its header.
LoopClosed(s, c, h, u, wk) ==
  LET w == IF s.term[c].op # "none" THEN s ELSE Terminate(s, c, Jump(h))
  IN  u = [w EXCEPT !.pending[h] = <<>>] /\ wk = <<SealFrame(h, w.pending[h])>>

IsSeal(f, b, rest) == f = SealFrame(b, rest)
SealShape(f, b, rest) ==
  /\ f = Frame(f.op, f.x, f.b, f.ty, f.phi, f.got, f.rest)
  /\ f.op = "seal" /\ f.x = "" /\ f.b = b /\ f.ty = "" /\ f.phi = 0 /\ f.got = <<>>
  /\ f.rest = rest

LEMMA SealFrameIs ==
  ASSUME NEW b, NEW rest, NEW f, IsSeal(f, b, rest)
  PROVE  SealShape(f, b, rest)
BY DEF SealShape, IsSeal, SealFrame, Frame, NoValue

LEMMA OneCall ==
  ASSUME NEW f
  PROVE  OnTop(<<f>>, f, <<>>)
<1>1. IsRow(<<f>>) /\ IsRow(<<>>) /\ Len(<<f>>) = 1 /\ Len(<<>>) = 0
  BY DEF IsRow
<1>2. <<f>>[1] = f
  OBVIOUS
<1>3. \A k \in 1 .. 0 : FALSE
  OBVIOUS
<1> QED
  BY <1>1, <1>2, <1>3 DEF OnTop

\* Taking the incomplete phis of a block that is to be sealed.
TakesPhis(s, u, h, wk) ==
  u = [s EXCEPT !.pending[h] = <<>>] /\ wk = <<SealFrame(h, s.pending[h])>>
PhisTaken(s, shut, u, c, h, wk) ==
  /\ Core(u, shut \cup {h}, Busy(wk)) /\ Sealing(wk) = {h}
  /\ \A E, T : Changes(s, u, E, T, {h})
  /\ u.sealed = s.sealed /\ Len(u.term) = Len(s.term) /\ u.inst = s.inst /\ u.term = s.term
  /\ FramesOK(wk, u, c, shut \cup {h}) /\ IsRow(wk) /\ Len(wk) = 1 /\ wk[1].op = "seal"

LEMMA TakesPending ==
  ASSUME NEW s, NEW shut, Core(s, shut, {}), NEW h \in BlocksOf(s), NEW c,
         h = c \/ s.term[h].op # "none", NEW u, NEW wk, TakesPhis(s, u, h, wk)
  PROVE  PhisTaken(s, shut, u, c, h, wk)
<1>1. PICK f : IsSeal(f, h, s.pending[h]) /\ wk = <<f>>
  BY DEF TakesPhis, IsSeal
<1>2. /\ f = Frame(f.op, f.x, f.b, f.ty, f.phi, f.got, f.rest)
      /\ f.op = "seal" /\ f.x = "" /\ f.b = h /\ f.ty = "" /\ f.phi = 0 /\ f.got = <<>>
      /\ f.rest = s.pending[h]
  <2>1. SealShape(f, h, s.pending[h])
    BY <1>1, SealFrameIs
  <2> QED
    BY <2>1 DEF SealShape
<1>3. OnTop(wk, f, <<>>)
  BY <1>1, OneCall
<1>4. ChangesPending(s, u, h, <<>>)
  BY PendingChanges DEF TakesPhis
<1>5. /\ u.inst = s.inst /\ u.term = s.term /\ u.defs = s.defs /\ u.sealed = s.sealed
      /\ u.preds = s.preds
  BY <1>4 DEF ChangesPending
<1>6. Busy(wk) = HeldBy(f) /\ Sealing(wk) = {h}
  <2>1. Busy(<<>>) = {} /\ Sealing(<<>>) = {}
    BY EmptyRow, BusyNone
  <2>2. Busy(wk) = HeldBy(f) \cup Busy(<<>>) /\ Sealing(wk) = SealedBy(f) \cup Sealing(<<>>)
    BY <1>3, BusyOnTop
  <2>3. h \in Nat
    BY CoreLens DEF BlocksOf
  <2>4. SealedBy(f) = {h}
    BY <1>2, <2>3 DEF SealedBy
  <2> QED
    BY <2>1, <2>2, <2>4
<1>7. RowOf(s.pending[h], [x : Vars, phi : ValuesOf(s)])
  BY DEF Core, PendingOK, BlocksOf, ValuesOf
<1>8. \A k \in 1 .. Len(s.pending[h]) : s.pending[h][k].phi \in Busy(wk)
  <2> TAKE k \in 1 .. Len(s.pending[h])
  <2>1. s.pending[h][k] \in [x : Vars, phi : ValuesOf(s)]
    BY <1>7 DEF RowOf
  <2>2. s.pending[h][k].phi \in Nat
    BY <2>1, CoreLens DEF ValuesOf
  <2>3. Holds(f, s.pending[h][k].phi)
    BY <1>2 DEF Holds
  <2> QED
    BY <1>6, <2>2, <2>3 DEF HeldBy
<1>9. Core(u, shut \cup {h}, Busy(wk))
  BY <1>4, <1>8, CoreTake
<1>10. \A E, T : Changes(s, u, E, T, {h})
  <2>1. h \in {h}
    OBVIOUS
  <2> QED
    BY <1>4, <2>1, PendingIsChanged
<1>11. FrameOK(f, u, c, shut \cup {h})
  <2>1. FrameShape(f, Len(u.term), Len(u.inst))
    <3>1. h \in 1 .. Len(u.term) /\ 0 \in 0 .. Len(u.inst)
      <4>1. Len(s.inst) \in Nat
        BY CoreLens
      <4> QED
        BY <1>5, <4>1 DEF BlocksOf
    <3>2. RowOf(<<>>, 1 .. Len(u.inst))
      BY EmptyRow
    <3>3. RowOf(f.rest, [x : Vars, phi : 1 .. Len(u.inst)])
      BY <1>2, <1>5, <1>7 DEF ValuesOf
    <3>4. RowOf(f.got, 1 .. Len(u.inst))
      BY <1>2, <3>2
    <3> QED
      BY <1>2, <3>1, <3>3, <3>4 DEF FrameShape
  <2>2. \A k \in 1 .. Len(f.rest) : ParkedAt(f.rest[k], f.b, u.inst, u.defs)
    <3>1. Parks(s.inst, s.defs, s.pending, shut) /\ h \in 1 .. Len(s.pending)
      BY CoreLens DEF Core, BlocksOf
    <3> QED
      BY <1>2, <1>5, <3>1 DEF Parks
  <2>3. f.b = c \/ u.term[f.b].op # "none"
    BY <1>2, <1>5
  <2> QED
    BY <1>2, <2>1, <2>2, <2>3 DEF FrameOK
<1>12. FramesOK(wk, u, c, shut \cup {h})
  <2>1. Len(<<>>) \in {0}
    BY EmptyRow
  <2> QED
    BY <1>3, <1>11, <2>1, SealPush
<1>13. IsRow(wk) /\ Len(wk) = 1 /\ wk[1].op = "seal"
  <2>1. IsRow(wk) /\ Len(wk) = 1 /\ wk[1] = f
    BY <1>3, EmptyRow DEF OnTop
  <2> QED
    BY <1>2, <2>1
<1> QED
  BY <1>5, <1>6, <1>9, <1>10, <1>12, <1>13 DEF PhisTaken

LoopLeft(s, u, c, r, wk) ==
  /\ Held(u, c, r, wk) /\ Keeps(s, u)
  /\ u.term[c].op = "none" /\ Len(u.term) = Len(s.term) /\ u.inst = s.inst
  /\ IsRow(wk) /\ Len(wk) = 1 /\ wk[1].op = "seal"

LEMMA LoopCloses ==
  ASSUME NEW s, NEW c, NEW q, Quiet(s, c, q), NEW o, NEW r, OnTop(q, o, r), o.k \in {"loop"},
         NEW u, NEW wk, LoopClosed(s, c, o.b, u, wk)
  PROVE  LoopLeft(s, u, o.c, r, wk)
<1>1. /\ Core(s, s.sealed, {}) /\ c \in BlocksOf(s) /\ QuietBelow(r, o, s, c)
      /\ EntryOK(o, s, c, s.sealed) /\ Len(s.term) \in Nat
      /\ BlocksOf(s) = 1 .. Len(s.term) /\ s.sealed \subseteq BlocksOf(s)
  BY QuietPop, QuietFacts DEF Quiet, BlocksOf
<1>2. Kept(o) = o.c /\ Unsealed(o) = o.b
  BY DEF Kept, Unsealed
<1>3. /\ o.b \in BlocksOf(s) /\ o.c \in BlocksOf(s) /\ o.c # c /\ s.term[o.c].op = "none"
      /\ o.b \notin s.sealed /\ s.term[o.b].op # "none" /\ o.c # 0 /\ o.b # o.c
  <2>1. /\ o.b # 0 /\ o.c # 0 /\ Kept(o) # c /\ o.b \in 0 .. Len(s.term) /\ o.c \in 0 .. Len(s.term)
        /\ s.term[Kept(o)].op = "none" /\ (Unsealed(o) # 0 => Unsealed(o) \notin s.sealed)
        /\ s.term[o.b].op # "none"
    BY <1>1 DEF EntryOK, EntryShape
  <2> QED
    BY <1>1, <1>2, <2>1
<1>4. PICK w : MaybeJumps(s, w, c, o.b) /\ TakesPhis(w, u, o.b, wk)
  BY DEF LoopClosed, MaybeJumps, TakesPhis
<1>5. Jumped(s, s.sealed, w, c, o.b)
  <2>1. JumpReady(s, s.sealed, c, o.b)
    BY <1>1, <1>3 DEF JumpReady
  <2> QED
    BY <1>4, <2>1, JumpMaybe
<1>6. /\ Core(w, s.sealed, {}) /\ Changes(s, w, {c}, {o.b}, {o.b}) /\ Len(w.term) = Len(s.term)
      /\ w.inst = s.inst /\ w.sealed = s.sealed
      /\ w.term[c].op # "none" /\ \A b \in BlocksOf(s) \ {c} : w.term[b] = s.term[b]
  BY <1>5 DEF Jumped
<1>7. w.term[o.c].op = "none" /\ w.term[o.b].op # "none" /\ o.b \in BlocksOf(w)
  BY <1>3, <1>6 DEF BlocksOf
<1>8. PhisTaken(w, s.sealed, u, o.c, o.b, wk)
  BY <1>4, <1>6, <1>7, TakesPending
<1>9. /\ Core(u, s.sealed \cup {o.b}, Busy(wk)) /\ Sealing(wk) = {o.b}
      /\ Changes(w, u, {c}, {o.b}, {o.b})
      /\ u.sealed = w.sealed /\ Len(u.term) = Len(w.term) /\ u.inst = w.inst /\ u.term = w.term
      /\ FramesOK(wk, u, o.c, s.sealed \cup {o.b}) /\ IsRow(wk) /\ Len(wk) = 1 /\ wk[1].op = "seal"
  BY <1>8 DEF PhisTaken
<1>10. Changes(s, u, {c}, {o.b}, {o.b})
  BY <1>6, <1>9, ChangesTrans
<1>11. Shut(u, wk) = s.sealed \cup {o.b} /\ BlocksOf(u) = BlocksOf(s)
  BY <1>6, <1>9 DEF Shut, BlocksOf
<1>12. Owned(s, u, {c}, {o.b}, {o.b}, c, o.c, s.sealed, s.sealed \cup {o.b}, o, Nothing)
  BY <1>2, <1>3, <1>10, <1>11, NothingOwned DEF Owned
<1>13. Below(r, Nothing, u, o.c, s.sealed \cup {o.b})
  BY <1>1, <1>12, BelowStep DEF QuietBelow
<1>14. Held(u, o.c, r, wk)
  BY <1>3, <1>9, <1>11, <1>13 DEF Held, Stacked
<1>15. Keeps(s, u)
  <2>1. s.sealed \subseteq BlocksOf(s) \ {o.b}
    BY <1>1, <1>3
  <2> QED
    BY <1>10, <2>1, ChangesKeeps
<1>16. u.term[o.c].op = "none" /\ Len(u.term) = Len(s.term) /\ u.inst = s.inst
  BY <1>6, <1>7, <1>9
<1>17. IsRow(wk) /\ Len(wk) = 1 /\ wk[1].op = "seal"
  BY <1>9
<1> QED
  BY <1>14, <1>15, <1>16, <1>17 DEF LoopLeft

\* The three new blocks of and / or: the constant's, the right operand's and
\* the join.  d, t and e are the record, and the branch's targets in order.
ThreeNew(s, d, h, r, j) ==
  /\ h = Len(s.term) + 1 /\ r = Len(s.term) + 2 /\ j = Len(s.term) + 3
  /\ d = NewBlock(NewBlock(NewBlock(s)))
ThreeFresh(s, d, h, r, j) ==
  /\ Core(d, s.sealed, {}) /\ d.sealed = s.sealed /\ d.inst = s.inst /\ Len(d.term) = j
  /\ Fresh(d, s.sealed, h) /\ Fresh(d, s.sealed, r) /\ Fresh(d, s.sealed, j)
  /\ h \in New(s) /\ r \in New(s) /\ j \in New(s) /\ h # r /\ h # j /\ r # j
  /\ BlocksOf(d) = BlocksOf(s) \cup {h, r, j}
  /\ \A b \in BlocksOf(s) : d.term[b] = s.term[b]
  /\ \A E, T, P : Changes(s, d, E, T, P)

LEMMA ThreeBlocks ==
  ASSUME NEW s, Core(s, s.sealed, {}), NEW d, NEW h, NEW r, NEW j, ThreeNew(s, d, h, r, j)
  PROVE  ThreeFresh(s, d, h, r, j)
<1>0. PICK s1, s2 : NewBlockMade(s, s1, h) /\ NewBlockMade(s1, s2, r) /\ NewBlockMade(s2, d, j)
  <2>1. PICK s1, s2 : s1 = NewBlock(s) /\ s2 = NewBlock(s1)
    OBVIOUS
  <2>2. NewBlockMade(s, s1, h)
    BY <2>1 DEF NewBlockMade, ThreeNew
  <2>3. Len(s.term) \in Nat /\ Len(s1.term) = Len(s.term) + 1 /\ Core(s1, s.sealed, {})
    BY <2>2, CoreLens, NewBlocks DEF ThreeNew
  <2>4. NewBlockMade(s1, s2, r)
    BY <2>1, <2>3 DEF NewBlockMade, ThreeNew
  <2>5. Len(s2.term) = Len(s.term) + 2
    BY <2>3, <2>4, NewBlocks DEF ThreeNew
  <2>6. NewBlockMade(s2, d, j)
    BY <2>1, <2>3, <2>5 DEF NewBlockMade, ThreeNew
  <2> QED
    BY <2>2, <2>4, <2>6
<1>1. /\ h \in New(s) /\ h \notin New(s1) /\ New(s1) \subseteq New(s)
      /\ BlocksOf(s1) = BlocksOf(s) \cup {h}
      /\ Core(s1, s.sealed, {}) /\ Fresh(s1, s.sealed, h)
      /\ s1.sealed = s.sealed /\ s1.inst = s.inst
      /\ \A b \in BlocksOf(s) : s1.term[b] = s.term[b]
      /\ \A E, T, P : Changes(s, s1, E, T, P)
  BY <1>0, NewBlocks
<1>2. /\ r \in New(s1) /\ r \notin New(s2) /\ New(s2) \subseteq New(s1)
      /\ BlocksOf(s2) = BlocksOf(s1) \cup {r}
      /\ Core(s2, s.sealed, {}) /\ Fresh(s2, s.sealed, r) /\ Fresh(s2, s.sealed, h)
      /\ s2.sealed = s1.sealed /\ s2.inst = s1.inst
      /\ \A b \in BlocksOf(s1) : s2.term[b] = s1.term[b]
      /\ \A E, T, P : Changes(s1, s2, E, T, P)
  BY <1>0, <1>1, NewBlocks
<1>3. /\ j \in New(s2) /\ BlocksOf(d) = BlocksOf(s2) \cup {j} /\ Len(d.term) = j
      /\ Core(d, s.sealed, {}) /\ Fresh(d, s.sealed, r) /\ Fresh(d, s.sealed, h)
      /\ Fresh(d, s.sealed, j) /\ d.sealed = s2.sealed /\ d.inst = s2.inst
      /\ \A b \in BlocksOf(s2) : d.term[b] = s2.term[b]
      /\ \A E, T, P : Changes(s2, d, E, T, P)
  BY <1>0, <1>2, NewBlocks
<1>4. \A E, T, P : Changes(s, d, E, T, P)
  <2> TAKE E, T, P
  <2>1. Changes(s, s1, E, T, P) /\ Changes(s1, s2, E, T, P) /\ Changes(s2, d, E, T, P)
    BY <1>1, <1>2, <1>3
  <2>2. Changes(s, s2, E, T, P)
    BY <2>1, ChangesTrans
  <2> QED
    BY <2>1, <2>2, ChangesTrans
<1>5. \A b \in BlocksOf(s) : d.term[b] = s.term[b]
  BY <1>1, <1>2, <1>3
<1>6. BlocksOf(d) = BlocksOf(s) \cup {h, r, j}
  BY <1>1, <1>2, <1>3
<1>7. /\ h \in New(s) /\ r \in New(s) /\ j \in New(s) /\ h # r /\ h # j /\ r # j
  BY <1>1, <1>2, <1>3
<1>8. d.sealed = s.sealed /\ d.inst = s.inst
  BY <1>1, <1>2, <1>3
<1> QED
  BY <1>3, <1>4, <1>5, <1>6, <1>7, <1>8 DEF ThreeFresh

\* The branch to h and r, the constant in h, and the jump from h to j.
ShortMade(s, c, v, u, k, h, r, j, l) ==
  LET d    == NewBlock(NewBlock(NewBlock(s)))
      test == IF k = "or" THEN Branch(v, h, r) ELSE Branch(v, r, h)
      w    == SealFresh(Terminate(d, c, test), {h, r})
      e    == Emit(w, h, IF k = "or" THEN "true" ELSE "false", "bool", <<>>, <<>>)
  IN  /\ h = Len(s.term) + 1 /\ r = Len(s.term) + 2 /\ j = Len(s.term) + 3
      /\ u = Terminate(e, h, Jump(j)) /\ l = Len(e.inst)
ConstantMade(w, e, h, k) ==
  e = Emit(w, h, IF k = "or" THEN "true" ELSE "false", "bool", <<>>, <<>>)

ShortParts(s, c, v, u, k, h, r, j, l, d, w, e) ==
  /\ ThreeNew(s, d, h, r, j)
  /\ ForkMade(d, w, c, v, h, r, {h, r}) \/ ForkMade(d, w, c, v, r, h, {h, r})
  /\ ConstantMade(w, e, h, k) /\ u = Terminate(e, h, Jump(j)) /\ l = Len(e.inst)

LEMMA ShortSteps ==
  ASSUME NEW s, NEW c, NEW v, NEW u, NEW k, NEW h, NEW r, NEW j, NEW l, ShortMade(s, c, v, u, k, h, r, j, l)
  PROVE  \E d, w, e : ShortParts(s, c, v, u, k, h, r, j, l, d, w, e)
<1>1. PICK d : d = NewBlock(NewBlock(NewBlock(s)))
  OBVIOUS
<1>2. PICK w : w = SealFresh(Terminate(d, c, IF k = "or" THEN Branch(v, h, r) ELSE Branch(v, r, h)), {h, r})
  OBVIOUS
<1>3. PICK e : ConstantMade(w, e, h, k)
  BY DEF ConstantMade
<1>4. ThreeNew(s, d, h, r, j)
  BY <1>1 DEF ThreeNew, ShortMade
<1>5. ForkMade(d, w, c, v, h, r, {h, r}) \/ ForkMade(d, w, c, v, r, h, {h, r})
  <2>1. {h, r} = {r, h}
    OBVIOUS
  <2>2. CASE k = "or"
    BY <1>2, <2>2 DEF ForkMade
  <2>3. CASE k # "or"
    BY <1>2, <2>1, <2>3 DEF ForkMade
  <2> QED
    BY <2>2, <2>3
<1>6. u = Terminate(e, h, Jump(j)) /\ l = Len(e.inst)
  BY <1>1, <1>2, <1>3 DEF ShortMade, ConstantMade
<1>7. ShortParts(s, c, v, u, k, h, r, j, l, d, w, e)
  BY <1>3, <1>4, <1>5, <1>6 DEF ShortParts
<1> QED
  BY <1>7

ShortDone(s, c, u, h, r, j, l) ==
  /\ Core(u, u.sealed, {}) /\ Changes(s, u, {c, h}, {h, r, j}, {})
  /\ h \in New(s) /\ r \in New(s) /\ j \in New(s) /\ h # r /\ h # j /\ r # j
  /\ BlocksOf(u) = BlocksOf(s) \cup {h, r, j} /\ u.sealed = s.sealed \cup {h, r}
  /\ Len(u.term) = j /\ Len(u.inst) = Len(s.inst) + 1 /\ l = Len(s.inst) + 1
  /\ u.term[r].op = "none" /\ u.term[j].op = "none"
  /\ Len(u.preds[j]) = 1 /\ u.preds[j][1] = h /\ Len(u.pending[j]) = 0
  /\ Led(s, u)

LEMMA ForkedEither ==
  ASSUME NEW d, NEW shut, NEW c, NEW w, NEW v, NEW t, NEW e, NEW bs,
         ForkReady(d, shut, {}, c, v, t, e),
         ForkMade(d, w, c, v, t, e, bs) \/ ForkMade(d, w, c, v, e, t, bs)
  PROVE  ForkDone(d, shut, {}, c, w, t, e, bs)
<1>1. ForkReady(d, shut, {}, c, v, e, t)
  BY DEF ForkReady
<1>2. ForkDone(d, shut, {}, c, w, t, e, bs) \/ ForkDone(d, shut, {}, c, w, e, t, bs)
  BY <1>1, ForkStep
<1>3. {t, e} = {e, t}
  OBVIOUS
<1>4. ForkDone(d, shut, {}, c, w, e, t, bs) => ForkDone(d, shut, {}, c, w, t, e, bs)
  BY <1>3 DEF ForkDone
<1> QED
  BY <1>2, <1>4

LEMMA ShortCore ==
  ASSUME NEW s, Core(s, s.sealed, {}), NEW c \in BlocksOf(s), s.term[c].op = "none",
         NEW v \in ValuesOf(s), "bool" \in Types, NEW u, NEW k, NEW h, NEW r, NEW j, NEW l,
         ShortMade(s, c, v, u, k, h, r, j, l)
  PROVE  ShortDone(s, c, u, h, r, j, l)
<1>p. PICK d, w, e : ShortParts(s, c, v, u, k, h, r, j, l, d, w, e)
  BY ShortSteps
<1>0. /\ ThreeNew(s, d, h, r, j)
      /\ ForkMade(d, w, c, v, h, r, {h, r}) \/ ForkMade(d, w, c, v, r, h, {h, r})
      /\ ConstantMade(w, e, h, k) /\ u = Terminate(e, h, Jump(j)) /\ l = Len(e.inst)
  BY <1>p DEF ShortParts
<1>1. /\ Core(d, s.sealed, {}) /\ d.sealed = s.sealed /\ d.inst = s.inst /\ Len(d.term) = j
      /\ Fresh(d, s.sealed, h) /\ Fresh(d, s.sealed, r) /\ Fresh(d, s.sealed, j)
      /\ h \in New(s) /\ r \in New(s) /\ j \in New(s) /\ h # r /\ h # j /\ r # j
      /\ BlocksOf(d) = BlocksOf(s) \cup {h, r, j}
      /\ \A b \in BlocksOf(s) : d.term[b] = s.term[b]
      /\ \A E, T, P : Changes(s, d, E, T, P)
  BY <1>0, ThreeBlocks DEF ThreeFresh
<1>2. c # h /\ c # r /\ c # j
  BY <1>1 DEF New, BlocksOf
<1>3. ForkReady(d, s.sealed, {}, c, v, h, r)
  <2>1. v \in ValuesOf(d)
    BY <1>1 DEF ValuesOf
  <2>2. d.term[c].op = "none" /\ c \in BlocksOf(d)
    BY <1>1
  <2> QED
    BY <1>1, <1>2, <2>1, <2>2 DEF ForkReady
<1>4. ForkDone(d, s.sealed, {}, c, w, h, r, {h, r})
  BY <1>0, <1>3, ForkedEither
<1>5. /\ Core(w, s.sealed \cup {h, r}, {}) /\ Changes(d, w, {c, h}, {h, r, j}, {})
      /\ Len(w.term) = Len(d.term) /\ w.sealed = d.sealed \cup {h, r} /\ w.inst = d.inst
      /\ w.term[h].op = "none" /\ w.term[r].op = "none" /\ w.pending = d.pending
      /\ w.preds[j] = d.preds[j] /\ w.term[j] = d.term[j]
      /\ Successors(w.term[c]) = {h, r}
  <2>1. j \in BlocksOf(d) \ {h, r} /\ j \in BlocksOf(d) \ {c}
    BY <1>1, <1>2
  <2>2. c \in {c, h} /\ {h, r} \subseteq {h, r, j}
    OBVIOUS
  <2> QED
    BY <1>4, <2>1, <2>2 DEF ForkDone
<1>6. PICK kind \in InstKinds \ {"phi"} : e = Emit(w, h, kind, "bool", <<>>, <<>>)
  <2>1. "true" \in InstKinds \ {"phi"} /\ "false" \in InstKinds \ {"phi"}
    BY DEF InstKinds
  <2> QED
    BY <1>0, <2>1 DEF ConstantMade
<1>7. /\ Core(e, s.sealed \cup {h, r}, {}) /\ Changes(w, e, {c, h}, {h, r, j}, {})
      /\ AddsInst(w, e, Instruction(h, kind, "bool", <<>>, <<>>))
  <2>1. h \in BlocksOf(w) /\ w.term[h].op = "none" /\ RowOf(<<>>, ValuesOf(w))
    BY <1>1, <1>5, EmptyRow DEF BlocksOf
  <2> QED
    BY <1>5, <1>6, <2>1, EmitStep
<1>8. /\ e.term = w.term /\ e.preds = w.preds /\ e.sealed = w.sealed /\ e.pending = w.pending
      /\ Len(e.inst) = Len(w.inst) + 1
  BY <1>7 DEF AddsInst, Appended
<1>9. j \notin s.sealed \cup {h, r} /\ h \in BlocksOf(e) /\ j \in BlocksOf(e)
      /\ e.term[h].op = "none" /\ e.term[j].op = "none"
      /\ Len(e.preds[j]) = 0 /\ Len(e.pending[j]) = 0
  BY <1>1, <1>5, <1>8 DEF Fresh, BlocksOf
<1>10. /\ Core(u, s.sealed \cup {h, r}, {}) /\ Changes(e, u, {c, h}, {h, r, j}, {})
       /\ Ends(e, u, h, Jump(j)) /\ Appended(u.preds[j], e.preds[j], h)
  <2>1. h \in {c, h} /\ j \in {h, r, j}
    OBVIOUS
  <2> QED
    BY <1>0, <1>7, <1>9, <2>1, JumpStep
<1>11. /\ u.inst = e.inst /\ u.sealed = e.sealed /\ u.pending = e.pending
       /\ Len(u.term) = Len(e.term) /\ \A b \in BlocksOf(e) \ {h} : u.term[b] = e.term[b]
  BY <1>10 DEF Ends
<1>12. Changes(s, u, {c, h}, {h, r, j}, {})
  <2>1. Changes(s, d, {c, h}, {h, r, j}, {})
    BY <1>1
  <2>2. Changes(s, w, {c, h}, {h, r, j}, {})
    BY <1>5, <2>1, ChangesTrans
  <2>3. Changes(s, e, {c, h}, {h, r, j}, {})
    BY <1>7, <2>2, ChangesTrans
  <2> QED
    BY <1>10, <2>3, ChangesTrans
<1>13. Len(u.preds[j]) = 1 /\ u.preds[j][1] = h
  BY <1>9, <1>10 DEF Appended
<1>14. u.term[r].op = "none" /\ u.term[j].op = "none" /\ Len(u.pending[j]) = 0
  <2>1. r \in BlocksOf(e) \ {h} /\ j \in BlocksOf(e) \ {h}
    BY <1>1, <1>5, <1>8 DEF BlocksOf
  <2> QED
    BY <1>5, <1>8, <1>9, <1>11, <2>1
<1>15. /\ Len(u.term) = j /\ Len(u.inst) = Len(s.inst) + 1 /\ u.sealed = s.sealed \cup {h, r}
       /\ l = Len(s.inst) + 1
  BY <1>0, <1>1, <1>5, <1>8, <1>11
<1>16. BlocksOf(u) = BlocksOf(s) \cup {h, r, j}
  BY <1>1, <1>15 DEF BlocksOf
<1>17. Core(u, u.sealed, {})
  BY <1>10, <1>15
<1>18. Led(s, u)
  <2>1. c \in BlocksOf(e) \ {h}
    BY <1>1, <1>2, <1>5, <1>8 DEF BlocksOf
  <2>2. Successors(u.term[c]) = {h, r}
    BY <1>5, <1>8, <1>11, <2>1
  <2>3. c \in 1 .. h - 1 /\ c \in 1 .. r - 1 /\ h \in 1 .. j - 1
    <3>1. h = Len(s.term) + 1 /\ r = Len(s.term) + 2 /\ j = Len(s.term) + 3
      BY <1>0 DEF ThreeNew
    <3>2. Len(s.term) \in Nat /\ c \in 1 .. Len(s.term)
      BY CoreLens DEF BlocksOf
    <3> QED
      BY <3>1, <3>2
  <2>4. j \in Successors(u.term[h])
    <3>1. u.term[h] = Jump(j)
      BY <1>10 DEF Ends
    <3>2. Len(u.term) \in Nat /\ Len(u.inst) \in Nat /\ j \in 1 .. Len(u.term)
      BY <1>15, <1>16, <1>17, CoreLens DEF BlocksOf
    <3>3. j \in Successors(Jump(j))
      BY <3>2, JumpOK
    <3> QED
      BY <3>1, <3>3
  <2>5. BlocksOf(u) \ BlocksOf(s) \subseteq {h, r, j}
    BY <1>16
  <2> QED
    BY <2>2, <2>3, <2>4, <2>5 DEF Led
<1> QED
  BY <1>1, <1>12, <1>13, <1>14, <1>15, <1>16, <1>17, <1>18 DEF ShortDone

ShortOpened(k, h, j, l, o2) ==
  k \in {"and", "or"} /\ o2 = Open(k, "", h, j, l)

LEMMA BeginsShort ==
  ASSUME NEW s, NEW c, NEW q, Quiet(s, c, q), s.term[c].op = "none",
         NEW v \in ValuesOf(s), "bool" \in Types, NEW u, NEW k, NEW h, NEW r, NEW j, NEW l,
         ShortMade(s, c, v, u, k, h, r, j, l), NEW o2, ShortOpened(k, h, j, l, o2)
  PROVE  /\ Quiet(u, r, <<o2>> \o q) /\ Keeps(s, u) /\ Led(s, u) /\ u.term[r].op = "none"
         /\ Len(u.term) = Len(s.term) + 3 /\ Len(u.inst) = Len(s.inst) + 1
         /\ o2.k \in {"and", "or"}
<1>1. /\ Core(s, s.sealed, {}) /\ c \in BlocksOf(s) /\ QuietBelow(q, Nothing, s, c) /\ IsRow(q)
      /\ Len(s.term) \in Nat /\ Len(s.inst) \in Nat /\ s.sealed \subseteq BlocksOf(s)
  BY QuietFacts DEF Quiet
<1>2. ShortDone(s, c, u, h, r, j, l)
  BY <1>1, ShortCore
<1>3. /\ Core(u, u.sealed, {}) /\ Changes(s, u, {c, h}, {h, r, j}, {})
      /\ h \in New(s) /\ r \in New(s) /\ j \in New(s) /\ h # r /\ h # j /\ r # j
      /\ BlocksOf(u) = BlocksOf(s) \cup {h, r, j} /\ u.sealed = s.sealed \cup {h, r}
      /\ Len(u.term) = j /\ Len(u.inst) = Len(s.inst) + 1 /\ l = Len(s.inst) + 1
      /\ u.term[r].op = "none" /\ u.term[j].op = "none"
      /\ Len(u.preds[j]) = 1 /\ u.preds[j][1] = h /\ Len(u.pending[j]) = 0 /\ Led(s, u)
  BY <1>2 DEF ShortDone
<1>4. /\ o2.k \in {"and", "or"} /\ o2.x = "" /\ o2.b = h /\ o2.c = j /\ o2.v = l
      /\ o2 = Open(o2.k, o2.x, o2.b, o2.c, o2.v)
  BY DEF ShortOpened, Open
<1>5. Kept(o2) = j /\ Unsealed(o2) = j
  BY <1>4 DEF Kept, Unsealed
<1>6. h # 0 /\ r # 0 /\ j # 0 /\ j \notin s.sealed
  BY <1>1, <1>3 DEF New, BlocksOf
<1>7. Owned(s, u, {c, h}, {h, r, j}, {}, c, r, s.sealed, u.sealed, Nothing, o2)
  <2>1. BlocksOf(u) \subseteq BlocksOf(s) \cup u.sealed \cup {Unsealed(o2)}
    BY <1>3, <1>5
  <2> QED
    BY <1>3, <1>5, <1>6, <2>1, NothingOwned DEF Owned
<1>8. QuietBelow(q, o2, u, r) /\ Keeps(s, u)
  <2>1. r \in BlocksOf(u)
    BY <1>3
  <2> QED
    BY <1>1, <1>3, <1>7, <2>1, NothingOwned, QuietStep
<1>9. EntryOK(o2, u, r, u.sealed)
  <2>1. EntryShape(o2, Len(u.term), Len(u.inst))
    <3>1. h \in 0 .. Len(u.term) /\ j \in 0 .. Len(u.term) /\ l \in 0 .. Len(u.inst)
      <4>1. Len(u.term) \in Nat /\ h \in 1 .. Len(u.term) /\ j \in 1 .. Len(u.term)
        BY <1>3, CoreLens DEF BlocksOf
      <4> QED
        BY <1>1, <1>3, <4>1
    <3>2. o2.k \in EntryKinds
      BY <1>4 DEF EntryKinds, OperandKinds
    <3> QED
      BY <1>4, <3>1, <3>2 DEF EntryShape
  <2>2. l # 0 /\ j # r /\ j \notin u.sealed
    BY <1>1, <1>3, <1>6
  <2>3. o2.k \notin {"let", "assign", "name"} /\ o2.k \notin {"loop"}
    BY <1>4
  <2> QED
    BY <1>3, <1>4, <1>5, <1>6, <2>1, <2>2, <2>3 DEF EntryOK
<1>10. OnTop(<<o2>> \o q, o2, q)
  BY <1>1, Front
<1>11. Quiet(u, r, <<o2>> \o q)
  BY <1>8, <1>9, <1>10, QuietPush
<1>12. Len(u.term) = Len(s.term) + 3
  BY <1>3 DEF ShortMade
<1> QED
  BY <1>3, <1>4, <1>8, <1>11, <1>12

\* The join of and / or, and its phi.
ShortEnded(s, c, v, o, u) ==
  u = Emit(SealFresh(Terminate(s, c, Jump(o.c)), {o.c}), o.c, "phi", "bool",
           <<o.v, v>>, <<o.b, c>>)

LEMMA PairIs ==
  ASSUME NEW a, NEW b
  PROVE  /\ IsRow(<<a, b>>) /\ Len(<<a, b>>) = 2 /\ <<a, b>>[1] = a /\ <<a, b>>[2] = b
         /\ \A S : a \in S /\ b \in S => RowOf(<<a, b>>, S)
<1> DEFINE p == <<a, b>>
<1>1. Len(p) = 2 /\ p[1] = a /\ p[2] = b /\ p = [k \in 1 .. 2 |-> p[k]]
  OBVIOUS
<1> HIDE DEF p
<1>2. IsRow(p) /\ \A S : a \in S /\ b \in S => RowOf(p, S)
  BY <1>1 DEF IsRow, RowOf
<1> QED
  BY <1>1, <1>2 DEF p

LEMMA EndsShort ==
  ASSUME NEW s, NEW c, NEW q, Quiet(s, c, q), s.term[c].op = "none", NEW o, NEW r, OnTop(q, o, r),
         o.k \in {"and", "or"}, NEW v \in ValuesOf(s), "bool" \in Types, NEW u,
         ShortEnded(s, c, v, o, u)
  PROVE  /\ Quiet(u, o.c, r) /\ Keeps(s, u) /\ u.term[o.c].op = "none"
         /\ Len(u.term) = Len(s.term) /\ Len(u.inst) = Len(s.inst) + 1
<1>1. /\ Core(s, s.sealed, {}) /\ c \in BlocksOf(s) /\ QuietBelow(r, o, s, c)
      /\ EntryOK(o, s, c, s.sealed) /\ Len(s.term) \in Nat /\ Len(s.inst) \in Nat
      /\ BlocksOf(s) = 1 .. Len(s.term) /\ s.sealed \subseteq BlocksOf(s)
  BY QuietPop, QuietFacts DEF Quiet, BlocksOf
<1>2. Kept(o) = o.c /\ Unsealed(o) = o.c /\ o.k \in OperandKinds
  BY DEF Kept, Unsealed, OperandKinds
<1>3. /\ o.b \in BlocksOf(s) /\ o.c \in BlocksOf(s) /\ o.c # c /\ s.term[o.c].op = "none"
      /\ o.c \notin s.sealed /\ o.c # 0 /\ o.v \in ValuesOf(s)
      /\ Len(s.preds[o.c]) = 1 /\ s.preds[o.c][1] = o.b /\ Len(s.pending[o.c]) = 0
  <2>1. /\ o.b # 0 /\ o.c # 0 /\ o.v # 0 /\ Kept(o) # c /\ o.b \in 0 .. Len(s.term)
        /\ o.c \in 0 .. Len(s.term) /\ o.v \in 0 .. Len(s.inst)
        /\ s.term[Kept(o)].op = "none" /\ (Unsealed(o) # 0 => Unsealed(o) \notin s.sealed)
        /\ Len(s.preds[o.c]) = 1 /\ s.preds[o.c][1] = o.b /\ Len(s.pending[o.c]) = 0
    BY <1>1, <1>2 DEF EntryOK, EntryShape
  <2> QED
    BY <1>1, <1>2, <2>1 DEF ValuesOf
<1>4. PICK w, d : w = Terminate(s, c, Jump(o.c)) /\ d = SealFresh(w, {o.c})
  OBVIOUS
<1>5. PICK from, args : from = <<o.b, c>> /\ args = <<o.v, v>>
  OBVIOUS
<1>6. /\ Core(w, s.sealed, {}) /\ Changes(s, w, {c}, {o.c}, {})
      /\ Ends(s, w, c, Jump(o.c)) /\ Appended(w.preds[o.c], s.preds[o.c], c)
  <2>1. c \in {c} /\ o.c \in {o.c}
    OBVIOUS
  <2> QED
    BY <1>1, <1>3, <1>4, <2>1, JumpStep
<1>7. /\ w.inst = s.inst /\ w.sealed = s.sealed /\ w.pending = s.pending
      /\ Len(w.term) = Len(s.term) /\ w.term[o.c] = s.term[o.c]
  BY <1>3, <1>6 DEF Ends
<1>8. Core(w, s.sealed \cup {o.c}, {})
  <2>1. {o.c} \in SUBSET BlocksOf(w) /\ \A b \in {o.c} : Len(w.pending[b]) = 0
    BY <1>1, <1>3, <1>7 DEF BlocksOf
  <2> QED
    BY <1>6, <2>1, CoreShut
<1>9. Core(d, s.sealed \cup {o.c}, {}) /\ SetsSealed(w, d, {o.c})
  <2>1. {o.c} \in SUBSET (s.sealed \cup {o.c})
    OBVIOUS
  <2> QED
    BY <1>4, <1>8, <2>1, CoreSeal DEF SetsSealed
<1>10. Changes(w, d, {c}, {o.c}, {})
  BY <1>8, <1>9, SealChanges
<1>11. /\ d.inst = s.inst /\ d.sealed = s.sealed \cup {o.c} /\ Len(d.term) = Len(s.term)
       /\ d.term = w.term /\ d.preds = w.preds
  BY <1>7, <1>9 DEF SetsSealed
<1>12. AddsInst(d, u, Instruction(o.c, "phi", "bool", args, from))
  <2>1. u = Emit(d, o.c, "phi", "bool", args, from)
    BY <1>4, <1>5 DEF ShortEnded
  <2> QED
    BY <1>9, <2>1, EmitAdds
<1>13. /\ Len(args) = 2 /\ Len(from) = 2 /\ from[1] = o.b /\ from[2] = c /\ IsRow(from)
       /\ RowOf(args, 1 .. Len(s.inst) + 1) /\ RowOf(from, 1 .. Len(s.term))
  <2>1. o.v \in 1 .. Len(s.inst) + 1 /\ v \in 1 .. Len(s.inst) + 1
    BY <1>1, <1>3 DEF ValuesOf
  <2>2. o.b \in 1 .. Len(s.term) /\ c \in 1 .. Len(s.term)
    BY <1>1, <1>3
  <2> QED
    BY <1>5, <2>1, <2>2, PairIs
<1>14. from = d.preds[o.c]
  <2>1. /\ Len(w.preds[o.c]) = 2 /\ IsRow(w.preds[o.c])
        /\ w.preds[o.c][1] = o.b /\ w.preds[o.c][2] = c
    BY <1>3, <1>6 DEF Appended
  <2>2. \A k \in 1 .. 2 : from[k] = w.preds[o.c][k]
    <3>1. \A k \in 1 .. 2 : k = 1 \/ k = 2
      OBVIOUS
    <3> QED
      BY <1>13, <2>1, <3>1
  <2>3. from = w.preds[o.c]
    BY <1>13, <2>1, <2>2, RowsEqual
  <2> QED
    BY <1>11, <2>3
<1>15. Core(u, s.sealed \cup {o.c}, {}) /\ Changes(d, u, {c}, {o.c}, {})
  <2>1. PICK i : i = Instruction(o.c, "phi", "bool", args, from)
    OBVIOUS
  <2>2. /\ i.block = o.c /\ i.kind = "phi" /\ i.ty = "bool" /\ i.args = args /\ i.from = from
        /\ i = [block |-> i.block, kind |-> i.kind, ty |-> i.ty, args |-> i.args, from |-> i.from]
    BY <2>1 DEF Instruction
  <2>3. InstOK(i, Len(d.term), Len(d.inst) + 1)
    <3>1. "phi" \in InstKinds
      BY DEF InstKinds
    <3>2. o.c \in 1 .. Len(s.term)
      BY <1>1, <1>3
    <3> QED
      BY <1>11, <1>13, <2>2, <3>1, <3>2 DEF InstOK
  <2>4. ~ForkTarget(d.term, i.block)
    <3>1. Forks(d.term, d.preds, s.sealed \cup {o.c}, d.inst)
      BY <1>9 DEF Core
    <3>2. Len(d.preds[o.c]) = 2
      BY <1>13, <1>14
    <3>3. ForkTarget(d.term, o.c) => Len(d.preds[o.c]) = 1
      BY <3>1 DEF Forks
    <3> QED
      BY <2>2, <3>2, <3>3
  <2>5. Complete(i, d.preds, s.sealed \cup {o.c})
    <3>1. o.c \in s.sealed \cup {o.c}
      OBVIOUS
    <3> QED
      BY <1>13, <1>14, <2>2, <3>1 DEF Complete
  <2>6. AddsInst(d, u, i)
    BY <1>12, <2>1
  <2> QED
    BY <1>9, <2>2, <2>3, <2>4, <2>5, <2>6, CoreEmit, EmitChanges
<1>16. /\ u.term = d.term /\ u.sealed = d.sealed /\ Len(u.inst) = Len(d.inst) + 1
  BY <1>12 DEF AddsInst, Appended
<1>17. Changes(s, u, {c}, {o.c}, {})
  BY <1>6, <1>10, <1>15, ChangesTrans
<1>18. /\ BlocksOf(u) = BlocksOf(s) /\ u.sealed = s.sealed \cup {o.c} /\ u.term[o.c].op = "none"
       /\ Len(u.term) = Len(s.term) /\ Len(u.inst) = Len(s.inst) + 1
  BY <1>3, <1>7, <1>11, <1>16 DEF BlocksOf
<1>19. Owned(s, u, {c}, {o.c}, {}, c, o.c, s.sealed, u.sealed, o, Nothing)
  BY <1>2, <1>3, <1>17, <1>18, NothingOwned DEF Owned
<1>20. QuietBelow(r, Nothing, u, o.c) /\ Keeps(s, u)
  <2>1. Core(u, u.sealed, {}) /\ o.c \in BlocksOf(u)
    BY <1>3, <1>15, <1>18
  <2> QED
    BY <1>1, <1>2, <1>3, <1>19, <2>1, QuietStep
<1>21. Quiet(u, o.c, r)
  BY <1>20 DEF Quiet, QuietBelow, Stacked
<1> QED
  BY <1>18, <1>20, <1>21

-----------------------------------------------------------------------------
(* The builder's own steps.                                                *)

\* f is one of the four calls.
IsCall(f, op, x, b, ty, phi, got) == f = Frame(op, x, b, ty, phi, got, <<>>)
CallShape(f, op, x, b, ty, phi, got) ==
  /\ f = Frame(f.op, f.x, f.b, f.ty, f.phi, f.got, f.rest)
  /\ f.op = op /\ f.x = x /\ f.b = b /\ f.ty = ty /\ f.phi = phi /\ f.got = got
  /\ f.rest = <<>>

LEMMA CallIs ==
  ASSUME NEW f, NEW op, NEW x, NEW b, NEW ty, NEW phi, NEW got, IsCall(f, op, x, b, ty, phi, got)
  PROVE  CallShape(f, op, x, b, ty, phi, got)
BY DEF IsCall, CallShape, Frame

\* What makes such a call legal.
CallReady(op, x, b, ty, phi, got, s, c, shut) ==
  /\ op \in CallKinds /\ x \in Vars /\ b \in BlocksOf(s) /\ ty \in Types \cup {""}
  /\ op # "write" => ty \in Types
  /\ b = c \/ s.term[b].op # "none"
  /\ phi \in 0 .. Len(s.inst) /\ RowOf(got, ValuesOf(s))
  /\ op \in {"ask", "take"} =>
       /\ IsPhi(s.inst, phi) /\ s.inst[phi].block = b /\ b \in shut
       /\ Len(got) <= Len(s.preds[b])
       /\ op = "take" => Len(got) < Len(s.preds[b])

LEMMA CallOK ==
  ASSUME NEW f, NEW op, NEW x, NEW b, NEW ty, NEW phi, NEW got, CallShape(f, op, x, b, ty, phi, got),
         NEW s, NEW c, NEW shut, CallReady(op, x, b, ty, phi, got, s, c, shut)
  PROVE  FrameOK(f, s, c, shut)
<1>0. /\ f = Frame(f.op, f.x, f.b, f.ty, f.phi, f.got, f.rest)
      /\ f.op = op /\ f.x = x /\ f.b = b /\ f.ty = ty /\ f.phi = phi /\ f.got = got
      /\ f.rest = <<>>
  BY DEF CallShape
<1>1. /\ op \in CallKinds /\ x \in Vars /\ b \in BlocksOf(s) /\ ty \in Types \cup {""}
      /\ op # "write" => ty \in Types
      /\ b = c \/ s.term[b].op # "none"
      /\ phi \in 0 .. Len(s.inst) /\ RowOf(got, ValuesOf(s))
      /\ op \in {"ask", "take"} =>
           /\ IsPhi(s.inst, phi) /\ s.inst[phi].block = b /\ b \in shut
           /\ Len(got) <= Len(s.preds[b])
           /\ op = "take" => Len(got) < Len(s.preds[b])
  BY DEF CallReady
<1>2. f.op \in {"read", "write", "ask", "take"}
  BY <1>0, <1>1 DEF CallKinds
<1>3. RowOf(f.rest, [x : Vars, phi : 1 .. Len(s.inst)]) /\ Len(f.rest) = 0
  BY <1>0, EmptyRow
<1>4. RowOf(f.got, 1 .. Len(s.inst)) /\ f.b \in 1 .. Len(s.term)
  BY <1>0, <1>1 DEF ValuesOf, BlocksOf
<1>5. FrameShape(f, Len(s.term), Len(s.inst))
  <2>1. f.x \in Vars \cup {""} /\ f.ty \in Types \cup {""} /\ f.phi \in 0 .. Len(s.inst)
    BY <1>0, <1>1
  <2> QED
    BY <1>0, <1>2, <1>3, <1>4, <2>1 DEF FrameShape
<1>6. /\ f.op # "seal" => f.x \in Vars /\ Len(f.rest) = 0
      /\ f.op \in {"read", "ask", "take"} => f.ty \in Types
      /\ f.op # "seal"
  BY <1>0, <1>1, <1>2, <1>3
<1>7. f.op \in {"ask", "take"} =>
       /\ IsPhi(s.inst, f.phi) /\ s.inst[f.phi].block = f.b /\ f.b \in shut
       /\ Len(f.got) <= Len(s.preds[f.b])
       /\ f.op = "take" => Len(f.got) < Len(s.preds[f.b])
  BY <1>0, <1>1
<1>8. f.b = c \/ s.term[f.b].op # "none"
  BY <1>0, <1>1
<1> QED
  BY <1>5, <1>6, <1>7, <1>8 DEF FrameOK

\* What the calls hold: the phi whose operands they read.
LEMMA CallHolds ==
  ASSUME NEW f, f.op \in CallKinds, Len(f.rest) = 0, f.phi \in Nat
  PROVE  /\ SealedBy(f) = {}
         /\ f.op \in {"read", "write"} => HeldBy(f) = {}
         /\ f.op \in {"ask", "take"} => HeldBy(f) = {f.phi}
<1>1. 1 .. Len(f.rest) = {}
  OBVIOUS
<1>2. f.op # "seal"
  BY DEF CallKinds
<1>3. SealedBy(f) = {}
  BY <1>2 DEF SealedBy
<1>4. f.op \in {"read", "write"} => \A v : ~Holds(f, v)
  BY <1>1 DEF Holds
<1>5. f.op \in {"ask", "take"} => \A v : Holds(f, v) <=> v = f.phi
  BY <1>1 DEF Holds
<1> QED
  BY <1>3, <1>4, <1>5 DEF HeldBy

\* Two calls on top of r.
LEMMA TwoCalls ==
  ASSUME NEW f, NEW g, NEW r, IsRow(r)
  PROVE  \E mid : OnTop(mid, g, r) /\ OnTop(<<f, g>> \o r, f, mid)
<1>1. PICK mid : mid = <<g>> \o r
  OBVIOUS
<1>2. OnTop(mid, g, r)
  BY <1>1, Front
<1>3. PICK p, q : p = <<f, g>> /\ q = p \o r
  OBVIOUS
<1>4. IsRow(p) /\ Len(p) = 2 /\ p[1] = f /\ p[2] = g
  BY <1>3, PairIs
<1>5. /\ IsRow(q) /\ Len(q) = 2 + Len(r) /\ q[1] = p[1] /\ q[2] = p[2]
      /\ \A k \in 1 .. Len(r) : q[2 + k] = r[k]
  <2>1. /\ IsRow(q) /\ Len(q) = Len(p) + Len(r)
        /\ \A k \in 1 .. Len(p) : q[k] = p[k]
        /\ \A k \in 1 .. Len(r) : q[Len(p) + k] = r[k]
    <3>1. q = p \o r
      BY <1>3
    <3>2. /\ IsRow(p \o r) /\ Len(p \o r) = Len(p) + Len(r)
          /\ \A k \in 1 .. Len(p) : (p \o r)[k] = p[k]
          /\ \A k \in 1 .. Len(r) : (p \o r)[Len(p) + k] = r[k]
      <4>1. IsRow(p) /\ IsRow(r)
        BY <1>4
      <4> QED
        BY <4>1, Joined
    <3> QED
      BY <3>1, <3>2, Zenon
  <2>2. 1 \in 1 .. 2 /\ 2 \in 1 .. 2
    OBVIOUS
  <2> QED
    BY <1>4, <2>1, <2>2
<1>6. /\ IsRow(mid) /\ Len(mid) = Len(r) + 1 /\ Len(r) \in Nat /\ mid[1] = g
      /\ \A k \in 1 .. Len(r) : mid[k + 1] = r[k]
  BY <1>2 DEF OnTop, IsRow
<1>7. \A k \in 1 .. Len(mid) : q[k + 1] = mid[k]
  <2> TAKE k \in 1 .. Len(mid)
  <2>1. CASE k = 1
    <3>1. q[1 + 1] = q[2]
      OBVIOUS
    <3> QED
      BY <1>4, <1>5, <1>6, <2>1, <3>1
  <2>2. CASE k # 1
    <3>1. PICK l \in 1 .. Len(r) : k = l + 1
      <4>1. k - 1 \in 1 .. Len(r) /\ k = (k - 1) + 1
        BY <1>6, <2>2
      <4> QED
        BY <4>1
    <3>2. k + 1 = 2 + l
      BY <1>6, <3>1
    <3>3. q[2 + l] = r[l] /\ mid[l + 1] = r[l]
      BY <1>5, <1>6, <3>1
    <3> QED
      BY <3>1, <3>2, <3>3
  <2> QED
    BY <2>1, <2>2
<1>8. Len(q) = Len(mid) + 1
  BY <1>5, <1>6
<1>9. OnTop(q, f, mid)
  BY <1>4, <1>5, <1>6, <1>7, <1>8 DEF OnTop
<1> QED
  BY <1>2, <1>3, <1>9

LEMMA PredecessorEnded ==
  ASSUME NEW s, NEW shut, NEW busy, Core(s, shut, busy), NEW b \in BlocksOf(s),
         NEW k \in 1 .. Len(s.preds[b])
  PROVE  s.preds[b][k] \in BlocksOf(s) /\ s.term[s.preds[b][k]].op # "none"
<1>1. Lists(s.preds[b], Predecessors(s.term, b)) /\ TermsOK(s.term, Len(s.inst))
  BY DEF Core, Agrees, BlocksOf
<1> PICK p : p = s.preds[b][k]
  OBVIOUS
<1>2. p \in Predecessors(s.term, b)
  BY <1>1 DEF Lists
<1>3. p \in 1 .. Len(s.term) /\ b \in Successors(s.term[p])
  BY <1>1, <1>2 DEF Predecessors, TermsOK, IsRow
<1>4. TermOK(s.term[p], Len(s.term), Len(s.inst))
  BY <1>1, <1>3 DEF TermsOK
<1>5. RowOf(s.term[p].to, 1 .. Len(s.term)) /\ (s.term[p].op = "none" => Len(s.term[p].to) = 0)
  BY <1>4 DEF TermOK
<1>6. DOMAIN s.term[p].to = 1 .. Len(s.term[p].to)
  BY <1>5 DEF RowOf, IsRow
<1>7. s.term[p].op # "none"
  <2>1. PICK l, i : l = Len(s.term[p].to) /\ i \in 1 .. l
    BY <1>3, <1>6 DEF Successors
  <2>2. Len(s.term[p].to) # 0
    BY <2>1
  <2> QED
    BY <1>5, <2>2
<1> QED
  BY <1>3, <1>7 DEF BlocksOf

\* A call f on top of the calls r.
TopIsCall(s, c, wk, f, r) ==
  /\ FrameOK(f, s, c, Shut(s, wk)) /\ Under(r, f.x, s, c, Shut(s, wk)) /\ IsRow(r)
  /\ Shut(s, r) = Shut(s, wk) /\ Sealing(r) = Sealing(wk)
  /\ f.op \in {"read", "write"} => Busy(wk) = Busy(r)
  /\ f.op \in {"ask", "take"} => Busy(wk) = {f.phi} \cup Busy(r)
  /\ f.x \in Vars /\ f.b \in BlocksOf(s) /\ (f.b = c \/ s.term[f.b].op # "none")
  /\ f.phi \in 0 .. Len(s.inst) /\ RowOf(f.got, ValuesOf(s)) /\ f.ty \in Types \cup {""}
  /\ Core(s, Shut(s, wk), Busy(wk)) /\ Len(s.inst) \in Nat

LEMMA HeldTop ==
  ASSUME NEW s, NEW c, NEW q, NEW wk, Held(s, c, q, wk), NEW f, NEW r, OnTop(wk, f, r),
         f.op \in CallKinds
  PROVE  TopIsCall(s, c, wk, f, r)
<1>1. FrameOK(f, s, c, Shut(s, wk)) /\ f.op # "seal"
  BY FramePop DEF Held, CallKinds
<1>2. Under(r, f.x, s, c, Shut(s, wk))
  BY <1>1, FramePop DEF Held
<1>3. /\ f.x \in Vars /\ Len(f.rest) = 0 /\ (f.b = c \/ s.term[f.b].op # "none")
      /\ FrameShape(f, Len(s.term), Len(s.inst))
  BY <1>1 DEF FrameOK
<1>4. f.phi \in 0 .. Len(s.inst) /\ f.b \in 1 .. Len(s.term) /\ RowOf(f.got, 1 .. Len(s.inst))
      /\ f.ty \in Types \cup {""}
  BY <1>3 DEF FrameShape
<1>5. Len(s.inst) \in Nat
  BY CoreLens DEF Held
<1>6. f.phi \in Nat
  <2>1. f.phi \in 0 .. Len(s.inst)
    BY <1>4
  <2> QED
    BY <1>5, <2>1
<1>7. /\ SealedBy(f) = {} /\ (f.op \in {"read", "write"} => HeldBy(f) = {})
      /\ (f.op \in {"ask", "take"} => HeldBy(f) = {f.phi})
  BY <1>3, <1>6, CallHolds
<1>8. Busy(wk) = HeldBy(f) \cup Busy(r) /\ Sealing(wk) = SealedBy(f) \cup Sealing(r)
  BY BusyOnTop
<1>9. Sealing(wk) = Sealing(r)
  BY <1>7, <1>8
<1>10. Shut(s, r) = Shut(s, wk)
  BY <1>9 DEF Shut
<1>11. IsRow(r)
  BY DEF OnTop
<1>12. Core(s, Shut(s, wk), Busy(wk))
  BY DEF Held
<1> QED
  BY <1>1, <1>2, <1>3, <1>4, <1>5, <1>7, <1>8, <1>9, <1>10, <1>11, <1>12
     DEF BlocksOf, ValuesOf, TopIsCall

\* What a step of the builder leaves: the calls wk2 and the value rt2.
BuilderDone(s, c, q, wk, u, wk2, rt2) ==
  /\ Held(u, c, q, wk2) /\ Keeps(s, u) /\ u.term = s.term
  /\ IsRow(wk2) /\ Sealing(wk2) \subseteq Sealing(wk)
  /\ rt2 \in 0 .. Len(u.inst)
  /\ Len(wk2) > 0 /\ wk2[1].op \in {"write", "take"} => rt2 # 0
  /\ Len(wk2) = 0 => rt2 # 0 \/ Sealing(wk) # {}

\* Everything under the calls is kept by a step that ends no block, adds no
\* edge and parks a phi only in the current block or in one that has ended.
LEMMA HeldStep ==
  ASSUME NEW s, NEW c, NEW q, NEW wk, Held(s, c, q, wk), NEW u, NEW P, Changes(s, u, {}, {}, P),
         \A b \in P : b = c \/ s.term[b].op # "none", u.term = s.term,
         NEW wk2, Shut(u, wk2) = Shut(s, wk)
  PROVE  c \in BlocksOf(u) /\ Stacked(q, u, c, Shut(u, wk2)) /\ Keeps(s, u)
<1>1. /\ c \in BlocksOf(s) /\ Below(q, Nothing, s, c, Shut(s, wk)) /\ Len(s.term) \in Nat
      /\ s.sealed \subseteq BlocksOf(s)
  <2>1. Core(s, Shut(s, wk), Busy(wk))
    BY DEF Held
  <2>2. s.sealed \subseteq BlocksOf(s) /\ Len(s.term) \in Nat
    BY <2>1, CoreLens DEF Core
  <2> QED
    BY <2>2 DEF Held, Stacked
<1>2. BlocksOf(u) = BlocksOf(s) /\ c # 0
  BY <1>1 DEF BlocksOf
<1>3. Owned(s, u, {}, {}, P, c, c, Shut(s, wk), Shut(s, wk), Nothing, Nothing)
  BY <1>2, NothingOwned DEF Owned
<1>4. Below(q, Nothing, u, c, Shut(s, wk))
  BY <1>1, <1>3, BelowStep
<1>5. Keeps(s, u)
  <2>1. s.sealed \subseteq BlocksOf(s) \ {}
    BY <1>1
  <2> QED
    BY <2>1, ChangesKeeps
<1> QED
  BY <1>1, <1>2, <1>4, <1>5 DEF Stacked

\* A block a call finds unbound is not the one being sealed.
LEMMA UnboundOpen ==
  ASSUME NEW r, NEW x, NEW s, NEW c, NEW shut, Under(r, x, s, c, shut), NEW b,
         s.defs[b][x] = NoValue
  PROVE  b \notin Sealing(r)
<1> SUFFICES ASSUME b \in Sealing(r) PROVE FALSE
  OBVIOUS
<1>1. PICK i \in 1 .. Len(r) : b \in SealedBy(r[i])
  BY DEF Sealing
<1>2. r[i].op = "seal" /\ r[i].b = b
  BY <1>1 DEF SealedBy
<1> QED
  BY <1>2 DEF Under, SealsBound

LEMMA ReadsLocal ==
  ASSUME NEW s, NEW c, NEW q, NEW wk, Held(s, c, q, wk), NEW f, NEW r, OnTop(wk, f, r),
         f.op \in {"read"}, NEW v \in {s.defs[f.b][f.x]}, v # NoValue
  PROVE  BuilderDone(s, c, q, wk, s, r, v)
<1>1. /\ Under(r, f.x, s, c, Shut(s, wk)) /\ IsRow(r)
      /\ Shut(s, r) = Shut(s, wk) /\ Sealing(r) = Sealing(wk) /\ Busy(wk) = Busy(r)
      /\ f.x \in Vars /\ f.b \in BlocksOf(s)
  <2>1. f.op \in CallKinds
    BY DEF CallKinds
  <2>2. TopIsCall(s, c, wk, f, r)
    BY <2>1, HeldTop
  <2> QED
    BY <2>2 DEF TopIsCall
<1>2. Core(s, Shut(s, wk), Busy(wk))
  BY DEF Held
<1>3. Changes(s, s, {}, {}, {})
  BY <1>2, ChangesNone
<1>4. c \in BlocksOf(s) /\ Stacked(q, s, c, Shut(s, r)) /\ Keeps(s, s)
  <2>1. \A b \in {} : b = c \/ s.term[b].op # "none"
    OBVIOUS
  <2> QED
    BY <1>1, <1>3, <2>1, HeldStep
<1>5. Held(s, c, q, r)
  BY <1>1, <1>2, <1>4 DEF Held, Under
<1>6. v \in 0 .. Len(s.inst)
  <2>1. s.defs[f.b] \in [Vars -> 0 .. Len(s.inst)]
    BY <1>1, <1>2 DEF Core, DefsOK, BlocksOf
  <2> QED
    BY <1>1, <2>1
<1> QED
  BY <1>1, <1>4, <1>5, <1>6 DEF BuilderDone, NoValue

\* read_variable goes on in the only predecessor.
AsksPredecessor(s, f, r, wk2) ==
  wk2 = <<ReadFrame(f.x, s.preds[f.b][1], f.ty), WriteFrame(f.x, f.b)>> \o r

LEMMA ReadsPredecessor ==
  ASSUME NEW s, NEW c, NEW q, NEW wk, Held(s, c, q, wk), NEW f, NEW r, OnTop(wk, f, r),
         f.op \in {"read"}, Len(s.preds[f.b]) = 1, NEW wk2, AsksPredecessor(s, f, r, wk2),
         NEW rt \in 0 .. Len(s.inst)
  PROVE  BuilderDone(s, c, q, wk, s, wk2, rt)
<1>1. /\ Under(r, f.x, s, c, Shut(s, wk)) /\ IsRow(r) /\ FrameOK(f, s, c, Shut(s, wk))
      /\ Shut(s, r) = Shut(s, wk) /\ Sealing(r) = Sealing(wk) /\ Busy(wk) = Busy(r)
      /\ f.x \in Vars /\ f.b \in BlocksOf(s) /\ (f.b = c \/ s.term[f.b].op # "none")
  <2>1. f.op \in CallKinds
    BY DEF CallKinds
  <2>2. TopIsCall(s, c, wk, f, r)
    BY <2>1, HeldTop
  <2> QED
    BY <2>2 DEF TopIsCall
<1>2. Core(s, Shut(s, wk), Busy(wk)) /\ Len(s.inst) \in Nat
  BY CoreLens DEF Held
<1>3. PICK p : /\ p \in {s.preds[f.b][1]} /\ p \in BlocksOf(s) /\ s.term[p].op # "none"
  <2>1. 1 \in 1 .. Len(s.preds[f.b])
    OBVIOUS
  <2> QED
    BY <1>1, <1>2, <2>1, PredecessorEnded
<1>4. PICK g, h : /\ IsCall(g, "read", f.x, p, f.ty, 0, <<>>)
                  /\ IsCall(h, "write", f.x, f.b, "", 0, <<>>) /\ wk2 = <<g, h>> \o r
  BY <1>3 DEF AsksPredecessor, ReadFrame, WriteFrame, IsCall, NoValue
<1>5. /\ CallShape(g, "read", f.x, p, f.ty, 0, <<>>)
      /\ CallShape(h, "write", f.x, f.b, "", 0, <<>>)
  BY <1>4, CallIs
<1>6. f.ty \in Types
  BY <1>1 DEF FrameOK
<1>7. 0 \in 0 .. Len(s.inst) /\ RowOf(<<>>, ValuesOf(s))
  BY <1>2, EmptyRow
<1>8. FrameOK(g, s, c, Shut(s, wk)) /\ FrameOK(h, s, c, Shut(s, wk))
  <2>1. CallReady("read", f.x, p, f.ty, 0, <<>>, s, c, Shut(s, wk))
    BY <1>1, <1>3, <1>6, <1>7 DEF CallReady, CallKinds
  <2>2. CallReady("write", f.x, f.b, "", 0, <<>>, s, c, Shut(s, wk))
    BY <1>1, <1>7 DEF CallReady, CallKinds
  <2> QED
    BY <1>5, <2>1, <2>2, CallOK
<1>9. /\ g.op = "read" /\ h.op = "write" /\ g.x = f.x /\ h.x = f.x
      /\ g.phi = 0 /\ h.phi = 0 /\ Len(g.rest) = 0 /\ Len(h.rest) = 0
  BY <1>5, EmptyRow DEF CallShape
<1>10. PICK mid : OnTop(mid, h, r) /\ OnTop(wk2, g, mid)
  BY <1>1, <1>4, TwoCalls
<1>11. Under(mid, f.x, s, c, Shut(s, wk)) /\ Under(wk2, f.x, s, c, Shut(s, wk))
  <2>1. Under(mid, h.x, s, c, Shut(s, wk))
    BY <1>1, <1>8, <1>9, <1>10, FramePush DEF CallKinds
  <2>2. Under(wk2, g.x, s, c, Shut(s, wk))
    BY <1>8, <1>9, <1>10, <2>1, FramePush DEF CallKinds
  <2> QED
    BY <1>9, <2>1, <2>2
<1>12. Busy(wk2) = Busy(wk) /\ Sealing(wk2) = Sealing(wk)
  <2>1. HeldBy(g) = {} /\ HeldBy(h) = {} /\ SealedBy(g) = {} /\ SealedBy(h) = {}
    BY <1>9, CallHolds DEF CallKinds
  <2>2. /\ Busy(wk2) = HeldBy(g) \cup Busy(mid) /\ Sealing(wk2) = SealedBy(g) \cup Sealing(mid)
        /\ Busy(mid) = HeldBy(h) \cup Busy(r) /\ Sealing(mid) = SealedBy(h) \cup Sealing(r)
    BY <1>10, BusyOnTop
  <2> QED
    BY <1>1, <2>1, <2>2
<1>13. Shut(s, wk2) = Shut(s, wk)
  BY <1>12 DEF Shut
<1>14. Changes(s, s, {}, {}, {})
  BY <1>2, ChangesNone
<1>15. c \in BlocksOf(s) /\ Stacked(q, s, c, Shut(s, wk2)) /\ Keeps(s, s)
  <2>1. \A b \in {} : b = c \/ s.term[b].op # "none"
    OBVIOUS
  <2> QED
    BY <1>13, <1>14, <2>1, HeldStep
<1>16. Held(s, c, q, wk2)
  BY <1>2, <1>11, <1>12, <1>13, <1>15 DEF Held, Under
<1>17. IsRow(wk2) /\ Len(wk2) > 0 /\ wk2[1].op = "read"
  <2>1. IsRow(wk2) /\ IsRow(mid) /\ Len(wk2) = Len(mid) + 1 /\ wk2[1] = g
    BY <1>10 DEF OnTop
  <2> QED
    BY <1>9, <2>1 DEF IsRow
<1> QED
  BY <1>12, <1>15, <1>16, <1>17 DEF BuilderDone

-----------------------------------------------------------------------------
(* The builder's calls, one step at a time.                                  *)

\* What every step of the builder does: it ends no block, adds no edge, and
\* parks a phi only in the current block or in one that has ended.
Advances(s, c, u, P) ==
  /\ Changes(s, u, {}, {}, P) /\ \A b \in P : b = c \/ s.term[b].op # "none"
  /\ u.term = s.term /\ u.sealed = s.sealed

LEMMA Continues ==
  ASSUME NEW s, NEW c, NEW q, NEW wk, Held(s, c, q, wk), NEW u, NEW P, Advances(s, c, u, P),
         NEW wk2, FramesOK(wk2, u, c, Shut(s, wk)), Sealing(wk2) = Sealing(wk),
         Core(u, Shut(s, wk), Busy(wk2)), NEW rt \in 0 .. Len(u.inst),
         Len(wk2) = 0 \/ wk2[1].op \in {"write", "take"} => rt # 0
  PROVE  BuilderDone(s, c, q, wk, u, wk2, rt)
<1>1. /\ Changes(s, u, {}, {}, P) /\ \A b \in P : b = c \/ s.term[b].op # "none"
      /\ u.term = s.term /\ u.sealed = s.sealed
  BY DEF Advances
<1>2. Shut(u, wk2) = Shut(s, wk)
  BY <1>1 DEF Shut
<1>3. c \in BlocksOf(u) /\ Stacked(q, u, c, Shut(u, wk2)) /\ Keeps(s, u)
  BY <1>1, <1>2, HeldStep
<1>4. Held(u, c, q, wk2)
  BY <1>2, <1>3 DEF Held
<1>5. IsRow(wk2)
  BY DEF FramesOK
<1> QED
  BY <1>1, <1>3, <1>4, <1>5 DEF BuilderDone

LEMMA CallerKept ==
  ASSUME NEW s, NEW c, NEW wk, NEW f, NEW r, TopIsCall(s, c, wk, f, r),
         NEW u, NEW P, Advances(s, c, u, P)
  PROVE  Under(r, f.x, u, c, Shut(s, wk))
<1>1. Under(r, f.x, s, c, Shut(s, wk)) /\ f.x \in Vars
  BY DEF TopIsCall
<1>2. Changes(s, u, {}, {}, P)
  BY DEF Advances
<1> QED
  BY <1>1, <1>2, UnderKept

\* A call g for the same variable on top of the calls r.
LEMMA PushCall ==
  ASSUME NEW r, NEW x, NEW u, NEW c, NEW shut, Under(r, x, u, c, shut), NEW g,
         FrameOK(g, u, c, shut), g.op \in CallKinds, g.x = x, g.phi \in Nat,
         NEW mid, OnTop(mid, g, r)
  PROVE  /\ Under(mid, x, u, c, shut) /\ Sealing(mid) = Sealing(r)
         /\ g.op \in {"read", "write"} => Busy(mid) = Busy(r)
         /\ g.op \in {"ask", "take"} => Busy(mid) = {g.phi} \cup Busy(r)
         /\ Len(mid) > 0 /\ mid[1] = g
<1>1. Len(g.rest) = 0
  <2>1. g.op # "seal"
    BY DEF CallKinds
  <2> QED
    BY <2>1 DEF FrameOK
<1>2. /\ SealedBy(g) = {} /\ (g.op \in {"read", "write"} => HeldBy(g) = {})
      /\ (g.op \in {"ask", "take"} => HeldBy(g) = {g.phi})
  BY <1>1, CallHolds
<1>3. Busy(mid) = HeldBy(g) \cup Busy(r) /\ Sealing(mid) = SealedBy(g) \cup Sealing(r)
  BY BusyOnTop
<1>4. Under(mid, g.x, u, c, shut)
  BY FramePush
<1>5. Len(mid) > 0 /\ mid[1] = g
  BY DEF OnTop, IsRow
<1> QED
  BY <1>2, <1>3, <1>4, <1>5

\* A phi without operands in f.b, bound to f.x there: from s to w, with value v.
BoundPhi(s, f, w, v) ==
  LET e == Emit(s, f.b, "phi", f.ty, <<>>, <<>>)
  IN  w = Write(e, f.x, f.b, Len(e.inst)) /\ v = Len(e.inst)
PhiReady(s, c, wk, f, r, v, busy) ==
  /\ TopIsCall(s, c, wk, f, r) /\ f.op \in {"read"} /\ ~ForkTarget(s.term, f.b)
  /\ Busy(wk) \subseteq busy
  /\ v \in busy \/ (f.b \in Shut(s, wk) /\ Len(s.preds[f.b]) = 0)
PhiBound(s, wk, f, w, v, busy) ==
  /\ Core(w, Shut(s, wk), busy) /\ Changes(s, w, {}, {}, {f.b})
  /\ w.term = s.term /\ w.sealed = s.sealed /\ w.preds = s.preds /\ w.pending = s.pending
  /\ IsPhi(w.inst, v) /\ w.inst[v].block = f.b /\ w.defs[f.b][f.x] # NoValue
  /\ v \in ValuesOf(w) /\ v # 0

LEMMA BindsPhi ==
  ASSUME NEW s, NEW c, NEW wk, NEW f, NEW r, NEW v, NEW busy, PhiReady(s, c, wk, f, r, v, busy),
         NEW w, BoundPhi(s, f, w, v)
  PROVE  PhiBound(s, wk, f, w, v, busy)
<1>0. /\ TopIsCall(s, c, wk, f, r) /\ f.op \in {"read"} /\ ~ForkTarget(s.term, f.b)
      /\ Busy(wk) \subseteq busy
      /\ v \in busy \/ (f.b \in Shut(s, wk) /\ Len(s.preds[f.b]) = 0)
  BY DEF PhiReady
<1>1. /\ FrameOK(f, s, c, Shut(s, wk)) /\ f.x \in Vars /\ f.b \in BlocksOf(s)
      /\ Core(s, Shut(s, wk), Busy(wk)) /\ Len(s.inst) \in Nat
  BY <1>0 DEF TopIsCall
<1>2. f.ty \in Types
  BY <1>0, <1>1 DEF FrameOK
<1> DEFINE shut == Shut(s, wk)
<1>3. Core(s, shut, busy)
  BY <1>0, <1>1, CoreBusier
<1> HIDE DEF shut
<1>4. PICK i : i = Instruction(f.b, "phi", f.ty, <<>>, <<>>)
  OBVIOUS
<1>5. /\ i = Instruction(i.block, i.kind, i.ty, i.args, i.from)
      /\ i.block = f.b /\ i.kind = "phi" /\ i.ty = f.ty /\ i.args = <<>> /\ i.from = <<>>
  BY <1>4 DEF Instruction
<1>6. PICK e : e = Emit(s, f.b, "phi", f.ty, <<>>, <<>>)
  OBVIOUS
<1>7. AddsInst(s, e, i)
  BY <1>3, <1>4, <1>6, EmitAdds
<1>8. Len(e.inst) = Len(s.inst) + 1 /\ e.inst[Len(s.inst) + 1] = i
  BY <1>7 DEF AddsInst, Appended
<1>9. w = Write(e, f.x, f.b, v) /\ v = Len(s.inst) + 1
  BY <1>6, <1>8 DEF BoundPhi
<1>10. InstOK(i, Len(s.term), Len(s.inst) + 1)
  <2>1. i.block \in 1 .. Len(s.term) /\ i.kind \in InstKinds /\ i.ty \in Types
    BY <1>1, <1>2, <1>5 DEF BlocksOf, InstKinds
  <2>2. RowOf(i.args, 1 .. Len(s.inst) + 1) /\ RowOf(i.from, 1 .. Len(s.term))
    BY <1>5, EmptyRow
  <2> QED
    BY <1>5, <2>1, <2>2 DEF InstOK, Instruction
<1>11. Complete(i, s.preds, shut) \/ Len(s.inst) + 1 \in busy
  <2>1. CASE v \in busy
    BY <1>9, <2>1
  <2>2. CASE f.b \in shut /\ Len(s.preds[f.b]) = 0
    <3>1. IsRow(s.preds[f.b])
      BY <1>1, CoreLens
    <3>2. s.preds[f.b] = <<>>
      BY <2>2, <3>1, EmptyRow, RowsEqual
    <3> QED
      BY <1>5, <2>2, <3>2 DEF Complete
  <2> QED
    BY <1>0, <2>1, <2>2 DEF shut
<1>12. Core(e, shut, busy)
  <2>1. ~ForkTarget(s.term, i.block)
    BY <1>0, <1>5
  <2> QED
    BY <1>3, <1>7, <1>10, <1>11, <2>1, CoreEmit
<1>13. Changes(s, e, {}, {}, {f.b})
  BY <1>3, <1>5, <1>7, EmitChanges
<1>14. /\ e.term = s.term /\ e.sealed = s.sealed /\ e.preds = s.preds /\ e.pending = s.pending
       /\ f.b \in BlocksOf(e) /\ v \in ValuesOf(e) /\ v # 0
  <2>1. e.term = s.term /\ e.sealed = s.sealed /\ e.preds = s.preds /\ e.pending = s.pending
    BY <1>7 DEF AddsInst
  <2>2. v \in 1 .. Len(e.inst) /\ v # 0
    BY <1>1, <1>8, <1>9
  <2> QED
    BY <1>1, <2>1, <2>2 DEF BlocksOf, ValuesOf
<1>15. Binds(e, w, f.x, f.b, v)
  BY <1>9, <1>12, <1>14, WriteBinds
<1>16. Core(w, shut, busy) /\ Changes(e, w, {}, {}, {f.b})
  BY <1>1, <1>12, <1>14, <1>15, CoreBinds, BindsChanges
<1>17. Changes(s, w, {}, {}, {f.b})
  BY <1>13, <1>16, ChangesTrans
<1>18. /\ w.term = e.term /\ w.sealed = e.sealed /\ w.preds = e.preds /\ w.pending = e.pending
       /\ w.inst = e.inst
  BY <1>15 DEF Binds
<1>19. w.defs[f.b][f.x] # NoValue
  <2>1. w.defs[f.b] = [e.defs[f.b] EXCEPT ![f.x] = v]
    BY <1>15 DEF Binds
  <2>2. f.x \in DOMAIN e.defs[f.b]
    <3>1. DefsOK(e.defs, Len(e.term), Len(e.inst))
      BY <1>12 DEF Core
    <3> QED
      BY <1>1, <1>14, <3>1 DEF DefsOK, BlocksOf
  <2> QED
    BY <1>14, <2>1, <2>2 DEF NoValue
<1>20. IsPhi(w.inst, v) /\ w.inst[v].block = f.b /\ v \in ValuesOf(w)
  <2>1. e.inst[v] = i
    BY <1>8, <1>9
  <2>2. w.inst[v].kind = "phi" /\ w.inst[v].block = f.b
    BY <1>5, <1>18, <2>1
  <2> QED
    BY <1>14, <1>18, <2>2 DEF IsPhi, ValuesOf
<1> QED
  BY <1>14, <1>16, <1>17, <1>18, <1>19, <1>20 DEF PhiBound, shut

\* What a call that returns v to the calls r leaves.
LEMMA Returns ==
  ASSUME NEW s, NEW c, NEW q, NEW wk, Held(s, c, q, wk), NEW f, NEW r, OnTop(wk, f, r),
         TopIsCall(s, c, wk, f, r), NEW u, NEW P, Advances(s, c, u, P),
         Core(u, Shut(s, wk), Busy(r)), NEW v \in 0 .. Len(u.inst), v # 0
  PROVE  BuilderDone(s, c, q, wk, u, r, v)
<1>1. Under(r, f.x, u, c, Shut(s, wk))
  BY CallerKept
<1>2. Sealing(r) = Sealing(wk)
  BY DEF TopIsCall
<1> QED
  BY <1>1, <1>2, Continues DEF Under

\* read_variable in a block that is open, or sealed without predecessors.
EmptyPhi(s, f, u, v) ==
  LET e == Emit(s, f.b, "phi", f.ty, <<>>, <<>>)
      parked == IF f.b \in s.sealed THEN <<>> ELSE <<[x |-> f.x, phi |-> Len(e.inst)]>>
  IN  /\ u = [Write(e, f.x, f.b, Len(e.inst)) EXCEPT !.pending[f.b] = @ \o parked]
      /\ v = Len(e.inst)
Parked(p, x, v) == p = [x |-> x, phi |-> v]
ParksPhi(s, f, w, u, v) ==
  IF f.b \in s.sealed THEN u = [w EXCEPT !.pending[f.b] = @ \o <<>>]
  ELSE \E p : Parked(p, f.x, v) /\ u = [w EXCEPT !.pending[f.b] = @ \o <<p>>]

LEMMA EmptyPhiParts ==
  ASSUME NEW s, NEW f, NEW u, NEW v, EmptyPhi(s, f, u, v)
  PROVE  \E w : BoundPhi(s, f, w, v) /\ ParksPhi(s, f, w, u, v)
<1> DEFINE e == Emit(s, f.b, "phi", f.ty, <<>>, <<>>)
           w == Write(e, f.x, f.b, Len(e.inst))
<1>1. BoundPhi(s, f, w, v)
  BY DEF BoundPhi, EmptyPhi
<1>2. v = Len(e.inst)
  BY DEF EmptyPhi
<1>3. u = [w EXCEPT !.pending[f.b] =
             @ \o (IF f.b \in s.sealed THEN <<>> ELSE <<[x |-> f.x, phi |-> v]>>)]
  BY <1>2 DEF EmptyPhi
<1> HIDE DEF w, e
<1>4. ParksPhi(s, f, w, u, v)
  <2>1. CASE f.b \in s.sealed
    BY <1>3, <2>1 DEF ParksPhi
  <2>2. CASE f.b \notin s.sealed
    <3>1. PICK p : Parked(p, f.x, v)
      BY DEF Parked
    <3>2. u = [w EXCEPT !.pending[f.b] = @ \o <<p>>]
      BY <1>3, <2>2, <3>1 DEF Parked
    <3> QED
      BY <2>2, <3>1, <3>2 DEF ParksPhi
  <2> QED
    BY <2>1, <2>2
<1> QED
  BY <1>1, <1>4

LEMMA NothingParked ==
  ASSUME NEW s, NEW shut, NEW busy, Core(s, shut, busy), NEW b \in BlocksOf(s)
  PROVE  [s EXCEPT !.pending[b] = @ \o <<>>] = s
<1>1. PICK r : r = s.pending[b] \o <<>>
  OBVIOUS
<1>2. IsRow(s.pending[b]) /\ IsRow(s.pending) /\ b \in 1 .. Len(s.pending) /\ IsRecord(s)
  BY CoreLens DEF Core, BlocksOf
<1>3. r = s.pending[b]
  BY <1>1, <1>2, EmptyRow, JoinedNone
<1>4. PICK d : d = [s.pending EXCEPT ![b] = r]
  OBVIOUS
<1>5. d = s.pending
  BY <1>2, <1>3, <1>4 DEF IsRow
<1>6. [s EXCEPT !.pending = d] = s
  BY <1>2, <1>5 DEF IsRecord
<1>7. [s EXCEPT !.pending[b] = @ \o <<>>] = [s EXCEPT !.pending = d]
  BY <1>1, <1>2, <1>4 DEF IsRecord
<1> QED
  BY <1>6, <1>7

\* The phi v parked in block b for x: from w to u.
ParkReady(w, shut, busy, b, x, v) ==
  /\ Core(w, shut, busy \cup {v}) /\ b \in BlocksOf(w) /\ b \notin shut /\ x \in Vars
  /\ w.defs[b][x] # NoValue /\ IsPhi(w.inst, v) /\ w.inst[v].block = b
ParkDone(w, shut, busy, b, u) ==
  /\ Core(u, shut, busy) /\ Changes(w, u, {}, {}, {b})
  /\ u.term = w.term /\ u.sealed = w.sealed /\ u.inst = w.inst

LEMMA ParksOne ==
  ASSUME NEW shut, NEW v, NEW busy, NEW w, NEW b, NEW x, ParkReady(w, shut, busy, b, x, v),
         NEW p, Parked(p, x, v), NEW u, u = [w EXCEPT !.pending[b] = @ \o <<p>>]
  PROVE  ParkDone(w, shut, busy, b, u)
<1>0. /\ Core(w, shut, busy \cup {v}) /\ b \in BlocksOf(w) /\ b \notin shut /\ x \in Vars
      /\ w.defs[b][x] # NoValue /\ IsPhi(w.inst, v) /\ w.inst[v].block = b
  BY DEF ParkReady
<1>1. PICK r : r = w.pending[b] \o <<p>>
  OBVIOUS
<1>2. p.x = x /\ p.phi = v /\ p \in [x : Vars, phi : ValuesOf(w)]
  BY <1>0 DEF Parked, IsPhi, ValuesOf
<1>3. IsRow(w.pending[b])
  BY <1>0, CoreLens
<1>4. IsRow(<<p>>) /\ Len(<<p>>) = 1 /\ <<p>>[1] = p
  BY DEF IsRow
<1>5. Appended(r, w.pending[b], p)
  <2>1. Joins(r, w.pending[b], <<p>>)
    BY <1>1, <1>3, <1>4, JoinedJoins
  <2> QED
    BY <1>3, <1>4, <2>1, JoinsOne
<1>6. ChangesPending(w, u, b, r)
  <2>1. u = [w EXCEPT !.pending[b] = r]
    BY <1>1
  <2> QED
    BY <1>0, <2>1, PendingChanges
<1>7. ParkedAt(p, b, w.inst, w.defs)
  BY <1>0, <1>2 DEF ParkedAt
<1>8. Core(u, shut, busy)
  <2>1. busy \cup {v} \subseteq busy \cup {p.phi}
    BY <1>2
  <2> QED
    BY <1>0, <1>2, <1>5, <1>6, <1>7, <2>1, CorePark
<1>9. Changes(w, u, {}, {}, {b})
  BY <1>0, <1>6, PendingIsChanged
<1> QED
  BY <1>6, <1>8, <1>9 DEF ChangesPending, ParkDone

LEMMA ReadsEmptyPhi ==
  ASSUME NEW s, NEW c, NEW q, NEW wk, Held(s, c, q, wk), NEW f, NEW r, OnTop(wk, f, r),
         f.op \in {"read"}, s.defs[f.b][f.x] = NoValue,
         f.b \notin s.sealed \/ Len(s.preds[f.b]) = 0, NEW u, NEW v, EmptyPhi(s, f, u, v)
  PROVE  BuilderDone(s, c, q, wk, u, r, v)
<1>1. f.op \in CallKinds
  BY DEF CallKinds
<1>2. TopIsCall(s, c, wk, f, r)
  BY <1>1, HeldTop
<1>3. /\ Under(r, f.x, s, c, Shut(s, wk)) /\ Sealing(r) = Sealing(wk) /\ Busy(wk) = Busy(r)
      /\ f.x \in Vars /\ f.b \in BlocksOf(s) /\ (f.b = c \/ s.term[f.b].op # "none")
      /\ Core(s, Shut(s, wk), Busy(wk))
  BY <1>2 DEF TopIsCall
<1>4. f.b \notin Sealing(wk)
  BY <1>3, UnboundOpen
<1>5. f.b \in Shut(s, wk) <=> f.b \in s.sealed
  BY <1>4 DEF Shut
<1>6. PICK w : BoundPhi(s, f, w, v) /\ ParksPhi(s, f, w, u, v)
  BY EmptyPhiParts
<1>7. ~ForkTarget(s.term, f.b)
  <2>1. Forks(s.term, s.preds, Shut(s, wk), s.inst)
    BY <1>3 DEF Core
  <2>2. ForkTarget(s.term, f.b) => f.b \in Shut(s, wk) /\ Len(s.preds[f.b]) = 1
    BY <2>1 DEF Forks
  <2>3. ~(Len(s.preds[f.b]) = 1 /\ Len(s.preds[f.b]) = 0)
    OBVIOUS
  <2> QED
    BY <1>5, <2>2, <2>3
<1>8. /\ Core(u, Shut(s, wk), Busy(wk)) /\ Changes(s, u, {}, {}, {f.b})
      /\ u.term = s.term /\ u.sealed = s.sealed /\ v \in 0 .. Len(u.inst) /\ v # 0
  <2>1. CASE f.b \in s.sealed
    <3>1. PhiReady(s, c, wk, f, r, v, Busy(wk))
      BY <1>2, <1>5, <1>7, <2>1 DEF PhiReady
    <3>2. PhiBound(s, wk, f, w, v, Busy(wk))
      BY <1>6, <3>1, BindsPhi
    <3>3. /\ Core(w, Shut(s, wk), Busy(wk)) /\ Changes(s, w, {}, {}, {f.b})
          /\ w.term = s.term /\ w.sealed = s.sealed /\ v \in 1 .. Len(w.inst) /\ v # 0
      BY <3>2 DEF PhiBound, ValuesOf
    <3>4. w = u
      <4>1. u = [w EXCEPT !.pending[f.b] = @ \o <<>>]
        BY <1>6, <2>1 DEF ParksPhi
      <4>2. f.b \in BlocksOf(w)
        BY <1>3, <3>3 DEF BlocksOf
      <4> QED
        BY <3>3, <4>1, <4>2, NothingParked
    <3>5. v \in 0 .. Len(w.inst)
      BY <3>3
    <3> QED
      BY <3>3, <3>4, <3>5
  <2>2. CASE f.b \notin s.sealed
    <3>1. PhiReady(s, c, wk, f, r, v, Busy(wk) \cup {v})
      <4>1. Busy(wk) \subseteq Busy(wk) \cup {v} /\ v \in Busy(wk) \cup {v}
        OBVIOUS
      <4> QED
        BY <1>2, <1>7, <4>1 DEF PhiReady
    <3>2. PhiBound(s, wk, f, w, v, Busy(wk) \cup {v})
      BY <1>6, <3>1, BindsPhi
    <3>3. /\ Core(w, Shut(s, wk), Busy(wk) \cup {v}) /\ Changes(s, w, {}, {}, {f.b})
          /\ w.term = s.term /\ w.sealed = s.sealed /\ v \in 1 .. Len(w.inst) /\ v # 0
          /\ IsPhi(w.inst, v) /\ w.inst[v].block = f.b /\ w.defs[f.b][f.x] # NoValue
      BY <3>2 DEF PhiBound, ValuesOf
    <3>4. PICK p : Parked(p, f.x, v) /\ u = [w EXCEPT !.pending[f.b] = @ \o <<p>>]
      BY <1>6, <2>2 DEF ParksPhi
    <3>5. f.b \in BlocksOf(w)
      BY <1>3, <3>3 DEF BlocksOf
    <3>6. /\ Core(u, Shut(s, wk), Busy(wk)) /\ Changes(w, u, {}, {}, {f.b})
          /\ u.term = w.term /\ u.sealed = w.sealed /\ u.inst = w.inst
      <4>1. ParkReady(w, Shut(s, wk), Busy(wk), f.b, f.x, v)
        BY <1>3, <1>5, <2>2, <3>3, <3>5 DEF ParkReady
      <4>2. ParkDone(w, Shut(s, wk), Busy(wk), f.b, u)
        BY <3>4, <4>1, ParksOne
      <4> QED
        BY <4>2 DEF ParkDone
    <3>7. Changes(s, u, {}, {}, {f.b})
      BY <3>3, <3>6, ChangesTrans
    <3>8. v \in 0 .. Len(w.inst)
      BY <3>3
    <3> QED
      BY <3>3, <3>6, <3>7, <3>8
  <2> QED
    BY <2>1, <2>2
<1>9. Advances(s, c, u, {f.b})
  BY <1>3, <1>8 DEF Advances
<1> QED
  BY <1>2, <1>3, <1>8, <1>9, Returns

\* Two calls on top of the calls r: one that runs, and one that waits for it.
Calls(g, op, x, phi) == g.op = op /\ g.x = x /\ g.phi = phi /\ phi \in Nat
HeldAs(op, phi) == IF op \in {"ask", "take"} THEN {phi} ELSE {}
TwoReady(u, c, shut, g, op, x, phi, h, op2, phi2, r) ==
  /\ Calls(g, op, x, phi) /\ Calls(h, op2, x, phi2)
  /\ op \in {"read", "ask"} /\ op2 \in {"write", "take"}
  /\ FrameOK(g, u, c, shut) /\ FrameOK(h, u, c, shut)
  /\ Core(u, shut, HeldAs(op, phi) \cup (HeldAs(op2, phi2) \cup Busy(r)))

TwoOnTop(wk2, g, h, r) == wk2 = <<g, h>> \o r

LEMMA CallsTwo ==
  ASSUME NEW s, NEW c, NEW q, NEW wk, Held(s, c, q, wk), NEW f, NEW r, OnTop(wk, f, r),
         TopIsCall(s, c, wk, f, r), NEW u, NEW P, Advances(s, c, u, P),
         NEW g, NEW op, NEW phi, NEW h, NEW op2, NEW phi2,
         TwoReady(u, c, Shut(s, wk), g, op, f.x, phi, h, op2, phi2, r),
         NEW wk2, TwoOnTop(wk2, g, h, r), NEW rt \in 0 .. Len(u.inst)
  PROVE  BuilderDone(s, c, q, wk, u, wk2, rt)
<1>1. Under(r, f.x, u, c, Shut(s, wk)) /\ IsRow(r)
  BY CallerKept DEF TopIsCall
<1>2. Sealing(r) = Sealing(wk)
  BY DEF TopIsCall
<1>3. PICK mid : OnTop(mid, h, r) /\ OnTop(wk2, g, mid)
  BY <1>1, TwoCalls DEF TwoOnTop
<1>4. /\ Calls(g, op, f.x, phi) /\ Calls(h, op2, f.x, phi2)
      /\ op \in {"read", "ask"} /\ op2 \in {"write", "take"}
      /\ FrameOK(g, u, c, Shut(s, wk)) /\ FrameOK(h, u, c, Shut(s, wk))
      /\ Core(u, Shut(s, wk), HeldAs(op, phi) \cup (HeldAs(op2, phi2) \cup Busy(r)))
  BY DEF TwoReady
<1>5. /\ h.op \in CallKinds /\ h.x = f.x /\ h.phi \in Nat /\ h.op = op2 /\ h.phi = phi2
      /\ g.op \in CallKinds /\ g.x = f.x /\ g.phi \in Nat /\ g.op = op /\ g.phi = phi
  BY <1>4 DEF Calls, CallKinds
<1>6. /\ Under(mid, f.x, u, c, Shut(s, wk)) /\ Sealing(mid) = Sealing(r)
      /\ Busy(mid) = HeldAs(op2, phi2) \cup Busy(r)
  <2>1. /\ Under(mid, f.x, u, c, Shut(s, wk)) /\ Sealing(mid) = Sealing(r)
        /\ h.op \in {"read", "write"} => Busy(mid) = Busy(r)
        /\ h.op \in {"ask", "take"} => Busy(mid) = {h.phi} \cup Busy(r)
    BY <1>1, <1>3, <1>4, <1>5, PushCall
  <2> QED
    BY <1>4, <1>5, <2>1 DEF HeldAs
<1>7. /\ Under(wk2, f.x, u, c, Shut(s, wk)) /\ Sealing(wk2) = Sealing(mid)
      /\ Busy(wk2) = HeldAs(op, phi) \cup Busy(mid)
      /\ Len(wk2) > 0 /\ wk2[1] = g
  <2>1. /\ Under(wk2, f.x, u, c, Shut(s, wk)) /\ Sealing(wk2) = Sealing(mid)
        /\ g.op \in {"read", "write"} => Busy(wk2) = Busy(mid)
        /\ g.op \in {"ask", "take"} => Busy(wk2) = {g.phi} \cup Busy(mid)
        /\ Len(wk2) > 0 /\ wk2[1] = g
    BY <1>3, <1>4, <1>5, <1>6, PushCall
  <2> QED
    BY <1>4, <1>5, <2>1 DEF HeldAs
<1>8. Core(u, Shut(s, wk), Busy(wk2))
  BY <1>4, <1>6, <1>7
<1>9. FramesOK(wk2, u, c, Shut(s, wk)) /\ Sealing(wk2) = Sealing(wk)
  BY <1>2, <1>6, <1>7 DEF Under
<1>10. ~(Len(wk2) = 0 \/ wk2[1].op \in {"write", "take"})
  BY <1>4, <1>5, <1>7
<1> QED
  BY <1>8, <1>9, <1>10, Continues

\* read_variable in a sealed block with several predecessors.
MergeRead(s, f, r, u, wk2) ==
  LET e == Emit(s, f.b, "phi", f.ty, <<>>, <<>>)
  IN  /\ u = Write(e, f.x, f.b, Len(e.inst))
      /\ wk2 = <<AskFrame(f.x, f.b, f.ty, Len(e.inst), <<>>), WriteFrame(f.x, f.b)>> \o r
MergeCalls(s, f, r, u, wk2, v, g, h) ==
  /\ IsCall(g, "ask", f.x, f.b, f.ty, v, <<>>) /\ IsCall(h, "write", f.x, f.b, "", 0, <<>>)
  /\ BoundPhi(s, f, u, v) /\ TwoOnTop(wk2, g, h, r)

LEMMA MergeParts ==
  ASSUME NEW s, NEW f, NEW r, NEW u, NEW wk2, MergeRead(s, f, r, u, wk2)
  PROVE  \E v, g, h : MergeCalls(s, f, r, u, wk2, v, g, h)
<1> DEFINE e == Emit(s, f.b, "phi", f.ty, <<>>, <<>>)
<1>1. BoundPhi(s, f, u, Len(e.inst))
  BY DEF BoundPhi, MergeRead
<1>2. wk2 = <<AskFrame(f.x, f.b, f.ty, Len(e.inst), <<>>), WriteFrame(f.x, f.b)>> \o r
  BY DEF MergeRead
<1>3. PICK v : v = Len(e.inst)
  OBVIOUS
<1> HIDE DEF e
<1>4. PICK g, h : g = AskFrame(f.x, f.b, f.ty, v, <<>>) /\ h = WriteFrame(f.x, f.b)
  OBVIOUS
<1>5. IsCall(g, "ask", f.x, f.b, f.ty, v, <<>>) /\ IsCall(h, "write", f.x, f.b, "", 0, <<>>)
  BY <1>4 DEF IsCall, AskFrame, WriteFrame, NoValue
<1>6. BoundPhi(s, f, u, v) /\ TwoOnTop(wk2, g, h, r)
  BY <1>1, <1>2, <1>3, <1>4 DEF TwoOnTop
<1> QED
  BY <1>5, <1>6 DEF MergeCalls

LEMMA ReadsMerge ==
  ASSUME NEW s, NEW c, NEW q, NEW wk, Held(s, c, q, wk), NEW f, NEW r, OnTop(wk, f, r),
         f.op \in {"read"}, f.b \in s.sealed, Len(s.preds[f.b]) \notin {1},
         NEW u, NEW wk2, MergeRead(s, f, r, u, wk2), NEW rt \in 0 .. Len(s.inst)
  PROVE  BuilderDone(s, c, q, wk, u, wk2, rt)
<1>1. f.op \in CallKinds
  BY DEF CallKinds
<1>2. TopIsCall(s, c, wk, f, r)
  BY <1>1, HeldTop
<1>3. /\ Under(r, f.x, s, c, Shut(s, wk)) /\ Sealing(r) = Sealing(wk) /\ Busy(wk) = Busy(r)
      /\ f.x \in Vars /\ f.b \in BlocksOf(s) /\ (f.b = c \/ s.term[f.b].op # "none")
      /\ Core(s, Shut(s, wk), Busy(wk)) /\ FrameOK(f, s, c, Shut(s, wk)) /\ Len(s.inst) \in Nat
  BY <1>2 DEF TopIsCall
<1>4. f.ty \in Types
  BY <1>3 DEF FrameOK
<1>a. PICK v, g, h : MergeCalls(s, f, r, u, wk2, v, g, h)
  BY MergeParts
<1>5. BoundPhi(s, f, u, v) /\ TwoOnTop(wk2, g, h, r)
  BY <1>a DEF MergeCalls
<1>6. ~ForkTarget(s.term, f.b)
  <2>1. Forks(s.term, s.preds, Shut(s, wk), s.inst)
    BY <1>3 DEF Core
  <2>2. ForkTarget(s.term, f.b) => Len(s.preds[f.b]) = 1
    BY <2>1 DEF Forks
  <2> QED
    BY <2>2
<1>7. PhiReady(s, c, wk, f, r, v, Busy(wk) \cup {v})
  <2>1. Busy(wk) \subseteq Busy(wk) \cup {v} /\ v \in Busy(wk) \cup {v}
    OBVIOUS
  <2> QED
    BY <1>2, <1>6, <2>1 DEF PhiReady
<1>8. PhiBound(s, wk, f, u, v, Busy(wk) \cup {v})
  BY <1>5, <1>7, BindsPhi
<1>9. /\ Core(u, Shut(s, wk), Busy(wk) \cup {v}) /\ Changes(s, u, {}, {}, {f.b})
      /\ u.term = s.term /\ u.sealed = s.sealed /\ v \in ValuesOf(u) /\ v # 0
      /\ IsPhi(u.inst, v) /\ u.inst[v].block = f.b /\ u.preds = s.preds
  BY <1>8 DEF PhiBound
<1>10. Advances(s, c, u, {f.b})
  BY <1>3, <1>9 DEF Advances
<1>11. /\ CallShape(g, "ask", f.x, f.b, f.ty, v, <<>>)
       /\ CallShape(h, "write", f.x, f.b, "", 0, <<>>)
  BY <1>a, CallIs DEF MergeCalls
<1>12. Len(u.inst) \in Nat /\ v \in 0 .. Len(u.inst) /\ 0 \in 0 .. Len(u.inst) /\ v \in Nat
  <2>1. Len(u.inst) \in Nat
    BY <1>9, CoreLens
  <2>2. v \in 1 .. Len(u.inst)
    BY <1>9 DEF ValuesOf
  <2> QED
    BY <2>1, <2>2
<1>13. /\ RowOf(<<>>, ValuesOf(u)) /\ Len(<<>>) <= Len(s.preds[f.b]) /\ f.b \in BlocksOf(u)
       /\ (f.b = c \/ u.term[f.b].op # "none")
  <2>1. IsRow(s.preds[f.b])
    BY <1>3, CoreLens
  <2>2. Len(<<>>) <= Len(s.preds[f.b])
    BY EmptyRow
  <2> QED
    BY <1>3, <1>9, <2>2, EmptyRow DEF BlocksOf
<1>14. CallReady("ask", f.x, f.b, f.ty, v, <<>>, u, c, Shut(s, wk))
  <2>1. f.b \in Shut(s, wk)
    BY DEF Shut
  <2> QED
    BY <1>3, <1>4, <1>9, <1>12, <1>13, <2>1 DEF CallReady, CallKinds
<1>15. CallReady("write", f.x, f.b, "", 0, <<>>, u, c, Shut(s, wk))
  BY <1>3, <1>12, <1>13 DEF CallReady, CallKinds
<1>16. FrameOK(g, u, c, Shut(s, wk)) /\ FrameOK(h, u, c, Shut(s, wk))
  BY <1>11, <1>14, <1>15, CallOK
<1>17. TwoReady(u, c, Shut(s, wk), g, "ask", f.x, v, h, "write", 0, r)
  <2>1. Calls(g, "ask", f.x, v) /\ Calls(h, "write", f.x, 0)
    BY <1>11, <1>12 DEF Calls, CallShape
  <2>2. HeldAs("ask", v) \cup (HeldAs("write", 0) \cup Busy(r)) = Busy(wk) \cup {v}
    BY <1>3 DEF HeldAs
  <2> QED
    BY <1>9, <1>16, <2>1, <2>2 DEF TwoReady
<1>18. rt \in 0 .. Len(u.inst)
  BY <1>3, <1>9 DEF Changes, Grows
<1> QED
  BY <1>2, <1>5, <1>10, <1>17, <1>18, CallsTwo

\* The write at the end of read_variable_recursive.
LEMMA WritesBack ==
  ASSUME NEW s, NEW c, NEW q, NEW wk, Held(s, c, q, wk), NEW f, NEW r, OnTop(wk, f, r),
         f.op \in {"write"}, NEW rt \in 0 .. Len(s.inst), rt # 0,
         NEW u, u \in {Write(s, f.x, f.b, rt)}
  PROVE  BuilderDone(s, c, q, wk, u, r, rt)
<1>1. f.op \in CallKinds
  BY DEF CallKinds
<1>2. TopIsCall(s, c, wk, f, r)
  BY <1>1, HeldTop
<1>3. /\ Busy(wk) = Busy(r) /\ f.x \in Vars /\ f.b \in BlocksOf(s)
      /\ Core(s, Shut(s, wk), Busy(wk)) /\ Len(s.inst) \in Nat
  BY <1>2 DEF TopIsCall
<1>4. rt \in ValuesOf(s)
  <2>1. rt \in 1 .. Len(s.inst)
    BY <1>3
  <2> QED
    BY <2>1 DEF ValuesOf
<1>5. Binds(s, u, f.x, f.b, rt)
  BY <1>3, WriteBinds
<1>6. Core(u, Shut(s, wk), Busy(r)) /\ Changes(s, u, {}, {}, {})
  BY <1>3, <1>4, <1>5, CoreBinds, BindsChanges
<1>7. u.term = s.term /\ u.sealed = s.sealed /\ u.inst = s.inst
  BY <1>5 DEF Binds
<1>8. Advances(s, c, u, {})
  BY <1>6, <1>7 DEF Advances
<1>9. rt \in 0 .. Len(u.inst)
  BY <1>7
<1> QED
  BY <1>2, <1>6, <1>8, <1>9, Returns

\* add_phi_operands reads its next predecessor.
AsksNext(s, f, r, wk2) ==
  wk2 = <<ReadFrame(f.x, s.preds[f.b][Len(f.got) + 1], f.ty),
          TakeFrame(f.x, f.b, f.ty, f.phi, f.got)>> \o r
AskCalls(f, r, wk2, p, g, h) ==
  /\ IsCall(g, "read", f.x, p, f.ty, 0, <<>>) /\ IsCall(h, "take", f.x, f.b, f.ty, f.phi, f.got)
  /\ TwoOnTop(wk2, g, h, r)

LEMMA AskParts ==
  ASSUME NEW s, NEW f, NEW r, NEW wk2, AsksNext(s, f, r, wk2), NEW p,
         p \in {s.preds[f.b][Len(f.got) + 1]}
  PROVE  \E g, h : AskCalls(f, r, wk2, p, g, h)
<1>1. wk2 = <<ReadFrame(f.x, p, f.ty), TakeFrame(f.x, f.b, f.ty, f.phi, f.got)>> \o r
  BY DEF AsksNext
<1>2. PICK g, h : g = ReadFrame(f.x, p, f.ty) /\ h = TakeFrame(f.x, f.b, f.ty, f.phi, f.got)
  OBVIOUS
<1>3. IsCall(g, "read", f.x, p, f.ty, 0, <<>>) /\ IsCall(h, "take", f.x, f.b, f.ty, f.phi, f.got)
  BY <1>2 DEF IsCall, ReadFrame, TakeFrame, NoValue
<1>4. TwoOnTop(wk2, g, h, r)
  BY <1>1, <1>2 DEF TwoOnTop
<1> QED
  BY <1>3, <1>4 DEF AskCalls

\* What a call that reads a phi's operands knows.
ReadsOperands(s, c, wk, f, r) ==
  /\ f.x \in Vars /\ f.b \in BlocksOf(s) /\ (f.b = c \/ s.term[f.b].op # "none")
  /\ Core(s, Shut(s, wk), Busy(wk)) /\ f.ty \in Types /\ Len(s.inst) \in Nat
  /\ IsPhi(s.inst, f.phi) /\ s.inst[f.phi].block = f.b /\ f.b \in Shut(s, wk)
  /\ f.phi \in 0 .. Len(s.inst) /\ f.phi \in Nat /\ f.phi # 0
  /\ RowOf(f.got, ValuesOf(s)) /\ Len(f.got) \in Nat /\ Len(s.preds[f.b]) \in Nat
  /\ Len(f.got) <= Len(s.preds[f.b])
  /\ f.op \in {"take"} => Len(f.got) < Len(s.preds[f.b])
  /\ Busy(wk) = {f.phi} \cup Busy(r) /\ Sealing(r) = Sealing(wk)

LEMMA OperandCall ==
  ASSUME NEW s, NEW c, NEW wk, NEW f, NEW r, TopIsCall(s, c, wk, f, r), f.op \in {"ask", "take"}
  PROVE  ReadsOperands(s, c, wk, f, r)
<1>1. /\ f.x \in Vars /\ f.b \in BlocksOf(s) /\ (f.b = c \/ s.term[f.b].op # "none")
      /\ Core(s, Shut(s, wk), Busy(wk)) /\ Len(s.inst) \in Nat /\ FrameOK(f, s, c, Shut(s, wk))
      /\ f.phi \in 0 .. Len(s.inst) /\ RowOf(f.got, ValuesOf(s))
      /\ Busy(wk) = {f.phi} \cup Busy(r) /\ Sealing(r) = Sealing(wk)
  BY DEF TopIsCall
<1>2. /\ f.ty \in Types /\ IsPhi(s.inst, f.phi) /\ s.inst[f.phi].block = f.b
      /\ f.b \in Shut(s, wk) /\ Len(f.got) <= Len(s.preds[f.b])
      /\ f.op \in {"take"} => Len(f.got) < Len(s.preds[f.b])
  BY <1>1 DEF FrameOK
<1>3. Len(f.got) \in Nat
  BY <1>1 DEF RowOf, IsRow
<1>4. Len(s.preds[f.b]) \in Nat
  BY <1>1, CoreLens DEF IsRow
<1>5. f.phi \in Nat /\ f.phi # 0
  <2>1. f.phi \in 1 .. Len(s.inst)
    BY <1>2 DEF IsPhi
  <2> QED
    BY <1>1, <2>1
<1> QED
  BY <1>1, <1>2, <1>3, <1>4, <1>5 DEF ReadsOperands

LEMMA AsksOperand ==
  ASSUME NEW s, NEW c, NEW q, NEW wk, Held(s, c, q, wk), NEW f, NEW r, OnTop(wk, f, r),
         f.op \in {"ask"}, Len(f.got) < Len(s.preds[f.b]),
         NEW wk2, AsksNext(s, f, r, wk2), NEW rt \in 0 .. Len(s.inst)
  PROVE  BuilderDone(s, c, q, wk, s, wk2, rt)
<1>1. f.op \in CallKinds /\ f.op \in {"ask", "take"}
  BY DEF CallKinds
<1>2. TopIsCall(s, c, wk, f, r)
  BY <1>1, HeldTop
<1>3. ReadsOperands(s, c, wk, f, r)
  BY <1>1, <1>2, OperandCall
<1>4. /\ f.x \in Vars /\ f.b \in BlocksOf(s) /\ (f.b = c \/ s.term[f.b].op # "none")
      /\ Core(s, Shut(s, wk), Busy(wk)) /\ f.ty \in Types /\ Len(s.inst) \in Nat
      /\ IsPhi(s.inst, f.phi) /\ s.inst[f.phi].block = f.b /\ f.b \in Shut(s, wk)
      /\ f.phi \in 0 .. Len(s.inst) /\ f.phi \in Nat
      /\ RowOf(f.got, ValuesOf(s)) /\ Len(f.got) \in Nat /\ Len(s.preds[f.b]) \in Nat
      /\ Busy(wk) = {f.phi} \cup Busy(r)
  BY <1>3 DEF ReadsOperands
<1>5. PICK p : /\ p \in {s.preds[f.b][Len(f.got) + 1]}
               /\ p \in BlocksOf(s) /\ s.term[p].op # "none"
  <2>1. Len(f.got) + 1 \in 1 .. Len(s.preds[f.b])
    BY <1>4
  <2> QED
    BY <1>4, <2>1, PredecessorEnded
<1>6. PICK g, h : AskCalls(f, r, wk2, p, g, h)
  BY <1>5, AskParts
<1>7. /\ CallShape(g, "read", f.x, p, f.ty, 0, <<>>)
      /\ CallShape(h, "take", f.x, f.b, f.ty, f.phi, f.got) /\ TwoOnTop(wk2, g, h, r)
  BY <1>6, CallIs DEF AskCalls
<1>8. CallReady("read", f.x, p, f.ty, 0, <<>>, s, c, Shut(s, wk))
  <2>1. 0 \in 0 .. Len(s.inst) /\ RowOf(<<>>, ValuesOf(s))
    BY <1>4, EmptyRow
  <2> QED
    BY <1>4, <1>5, <2>1 DEF CallReady, CallKinds
<1>9. CallReady("take", f.x, f.b, f.ty, f.phi, f.got, s, c, Shut(s, wk))
  <2>1. Len(f.got) <= Len(s.preds[f.b])
    BY <1>4
  <2> QED
    BY <1>4, <2>1 DEF CallReady, CallKinds
<1>10. FrameOK(g, s, c, Shut(s, wk)) /\ FrameOK(h, s, c, Shut(s, wk))
  BY <1>7, <1>8, <1>9, CallOK
<1>11. TwoReady(s, c, Shut(s, wk), g, "read", f.x, 0, h, "take", f.phi, r)
  <2>1. Calls(g, "read", f.x, 0) /\ Calls(h, "take", f.x, f.phi)
    BY <1>4, <1>7 DEF Calls, CallShape
  <2>2. HeldAs("read", 0) \cup (HeldAs("take", f.phi) \cup Busy(r)) = Busy(wk)
    BY <1>4 DEF HeldAs
  <2> QED
    BY <1>4, <1>10, <2>1, <2>2 DEF TwoReady
<1>12. Advances(s, c, s, {})
  BY <1>4, ChangesNone DEF Advances
<1> QED
  BY <1>2, <1>7, <1>11, <1>12, CallsTwo

\* The read has returned: its value is the next operand.
TakesNext(f, r, rt, wk2) ==
  wk2 = <<AskFrame(f.x, f.b, f.ty, f.phi, Append(f.got, rt))>> \o r
TakeCall(f, r, wk2, got, g) ==
  IsCall(g, "ask", f.x, f.b, f.ty, f.phi, got) /\ OnTop(wk2, g, r)

LEMMA TakeParts ==
  ASSUME NEW f, NEW r, IsRow(r), NEW rt, NEW wk2, TakesNext(f, r, rt, wk2),
         NEW got, got \in {Append(f.got, rt)}
  PROVE  \E g : TakeCall(f, r, wk2, got, g)
<1>1. PICK g : g = AskFrame(f.x, f.b, f.ty, f.phi, got)
  OBVIOUS
<1>2. IsCall(g, "ask", f.x, f.b, f.ty, f.phi, got)
  BY <1>1 DEF IsCall, AskFrame
<1>3. wk2 = <<g>> \o r
  BY <1>1 DEF TakesNext
<1>4. OnTop(wk2, g, r)
  BY <1>3, Front
<1> QED
  BY <1>2, <1>4 DEF TakeCall

LEMMA TakesOperand ==
  ASSUME NEW s, NEW c, NEW q, NEW wk, Held(s, c, q, wk), NEW f, NEW r, OnTop(wk, f, r),
         f.op \in {"take"}, NEW rt \in 0 .. Len(s.inst), rt # 0,
         NEW wk2, TakesNext(f, r, rt, wk2)
  PROVE  BuilderDone(s, c, q, wk, s, wk2, rt)
<1>1. f.op \in CallKinds /\ f.op \in {"ask", "take"}
  BY DEF CallKinds
<1>2. TopIsCall(s, c, wk, f, r)
  BY <1>1, HeldTop
<1>3. ReadsOperands(s, c, wk, f, r)
  BY <1>1, <1>2, OperandCall
<1>4. /\ f.x \in Vars /\ f.b \in BlocksOf(s) /\ (f.b = c \/ s.term[f.b].op # "none")
      /\ Core(s, Shut(s, wk), Busy(wk)) /\ f.ty \in Types /\ Len(s.inst) \in Nat
      /\ IsPhi(s.inst, f.phi) /\ s.inst[f.phi].block = f.b /\ f.b \in Shut(s, wk)
      /\ f.phi \in 0 .. Len(s.inst) /\ f.phi \in Nat
      /\ RowOf(f.got, ValuesOf(s)) /\ Len(f.got) \in Nat /\ Len(s.preds[f.b]) \in Nat
      /\ Len(f.got) < Len(s.preds[f.b])
      /\ Busy(wk) = {f.phi} \cup Busy(r) /\ Sealing(r) = Sealing(wk)
  BY <1>3 DEF ReadsOperands
<1>5. IsRow(r)
  BY DEF OnTop
<1>6. PICK got : got \in {Append(f.got, rt)}
  OBVIOUS
<1>7. PICK g : TakeCall(f, r, wk2, got, g)
  BY <1>5, <1>6, TakeParts
<1>8. CallShape(g, "ask", f.x, f.b, f.ty, f.phi, got) /\ OnTop(wk2, g, r)
  BY <1>7, CallIs DEF TakeCall
<1>9. RowOf(got, ValuesOf(s)) /\ Len(got) = Len(f.got) + 1
  <2>1. IsRow(f.got) /\ \A k \in 1 .. Len(f.got) : f.got[k] \in ValuesOf(s)
    BY <1>4 DEF RowOf
  <2>2. /\ IsRow(got) /\ Len(got) = Len(f.got) + 1
        /\ \A k \in 1 .. Len(f.got) : got[k] = f.got[k]
        /\ got[Len(f.got) + 1] = rt
    <3>1. Appended(Append(f.got, rt), f.got, rt)
      BY <2>1, Back DEF Appended
    <3>2. Appended(got, f.got, rt)
      BY <1>6, <3>1
    <3> QED
      BY <3>2 DEF Appended
  <2>3. rt \in ValuesOf(s)
    <3>1. rt \in 1 .. Len(s.inst)
      BY <1>4
    <3> QED
      BY <3>1 DEF ValuesOf
  <2>4. \A k \in 1 .. Len(got) : k \in 1 .. Len(f.got) \/ k = Len(f.got) + 1
    BY <1>4, <2>2
  <2>5. \A k \in 1 .. Len(got) : got[k] \in ValuesOf(s)
    BY <2>1, <2>2, <2>3, <2>4
  <2> QED
    BY <2>2, <2>5 DEF RowOf
<1>10. CallReady("ask", f.x, f.b, f.ty, f.phi, got, s, c, Shut(s, wk))
  <2>1. Len(got) <= Len(s.preds[f.b])
    BY <1>4, <1>9
  <2> QED
    BY <1>4, <1>9, <2>1 DEF CallReady, CallKinds
<1>11. FrameOK(g, s, c, Shut(s, wk))
  BY <1>8, <1>10, CallOK
<1>12. Advances(s, c, s, {})
  BY <1>4, ChangesNone DEF Advances
<1>13. Under(r, f.x, s, c, Shut(s, wk))
  BY <1>2 DEF TopIsCall
<1>14. g.op = "ask" /\ g.x = f.x /\ g.phi = f.phi
  BY <1>8 DEF CallShape
<1>15. /\ Under(wk2, f.x, s, c, Shut(s, wk)) /\ Sealing(wk2) = Sealing(r)
       /\ Busy(wk2) = {f.phi} \cup Busy(r) /\ Len(wk2) > 0 /\ wk2[1] = g
  <2>1. g.op \in CallKinds /\ g.phi \in Nat /\ g.op \in {"ask", "take"}
    BY <1>4, <1>14 DEF CallKinds
  <2> QED
    BY <1>8, <1>11, <1>13, <1>14, <2>1, PushCall
<1>16. FramesOK(wk2, s, c, Shut(s, wk)) /\ Sealing(wk2) = Sealing(wk)
  BY <1>4, <1>15 DEF Under
<1>17. Core(s, Shut(s, wk), Busy(wk2))
  BY <1>4, <1>15
<1> QED
  BY <1>12, <1>16, <1>17, Continues

\* All operands are known.
FillsNow(s, f, u) ==
  u = [s EXCEPT !.inst[f.phi].args = f.got, !.inst[f.phi].from = s.preds[f.b]]

LEMMA FillsPhi ==
  ASSUME NEW s, NEW c, NEW q, NEW wk, Held(s, c, q, wk), NEW f, NEW r, OnTop(wk, f, r),
         f.op \in {"ask"}, Len(f.got) = Len(s.preds[f.b]),
         NEW u, FillsNow(s, f, u), NEW v \in {f.phi}
  PROVE  BuilderDone(s, c, q, wk, u, r, v)
<1>1. f.op \in CallKinds /\ f.op \in {"ask", "take"}
  BY DEF CallKinds
<1>2. TopIsCall(s, c, wk, f, r)
  BY <1>1, HeldTop
<1>3. ReadsOperands(s, c, wk, f, r)
  BY <1>1, <1>2, OperandCall
<1>4. /\ Core(s, Shut(s, wk), Busy(wk)) /\ IsPhi(s.inst, f.phi) /\ s.inst[f.phi].block = f.b
      /\ f.b \in Shut(s, wk) /\ f.phi \in 0 .. Len(s.inst) /\ f.phi # 0
      /\ RowOf(f.got, ValuesOf(s)) /\ Busy(wk) = {f.phi} \cup Busy(r)
  BY <1>3 DEF ReadsOperands
<1>5. f.phi \in ValuesOf(s)
  BY <1>4 DEF IsPhi, ValuesOf
<1>6. Fills(s, u, f.phi, f.got)
  BY <1>4, <1>5, PhiFills DEF FillsNow
<1>7. Core(u, Shut(s, wk), Busy(r))
  <2>1. Busy(wk) \subseteq Busy(r) \cup {f.phi}
    BY <1>4
  <2>2. Len(f.got) = Len(s.preds[s.inst[f.phi].block]) /\ s.inst[f.phi].block \in Shut(s, wk)
    BY <1>4
  <2> QED
    BY <1>4, <1>6, <2>1, <2>2, CoreFill
<1>8. Changes(s, u, {}, {}, {}) /\ u.term = s.term /\ u.sealed = s.sealed
      /\ Len(u.inst) = Len(s.inst)
  BY <1>4, <1>6, FillChanges DEF Fills
<1>9. Advances(s, c, u, {})
  BY <1>8 DEF Advances
<1>10. v \in 0 .. Len(u.inst) /\ v # 0
  BY <1>4, <1>8
<1> QED
  BY <1>2, <1>7, <1>9, <1>10, Returns

\* seal_block goes on with the next incomplete phi.
SealsOne(s, f, r, wk2) ==
  LET p == Head(f.rest)
  IN  wk2 = <<AskFrame(p.x, f.b, s.inst[p.phi].ty, p.phi, <<>>), SealFrame(f.b, Tail(f.rest))>> \o r
SealCalls(s, f, r, wk2, p, rest, g, h) ==
  /\ IsCall(g, "ask", p.x, f.b, s.inst[p.phi].ty, p.phi, <<>>) /\ IsSeal(h, f.b, rest)
  /\ TwoOnTop(wk2, g, h, r)

LEMMA SealParts ==
  ASSUME NEW s, NEW f, NEW r, NEW wk2, SealsOne(s, f, r, wk2), IsRow(f.rest), Len(f.rest) > 0
  PROVE  \E p, rest, g, h : OnTop(f.rest, p, rest) /\ SealCalls(s, f, r, wk2, p, rest, g, h)
<1>1. PICK p, rest : p = Head(f.rest) /\ rest = Tail(f.rest)
  OBVIOUS
<1>2. OnTop(f.rest, p, rest)
  BY <1>1, Split
<1>3. PICK g, h : /\ g = AskFrame(p.x, f.b, s.inst[p.phi].ty, p.phi, <<>>)
                  /\ h = SealFrame(f.b, rest)
  OBVIOUS
<1>4. TwoOnTop(wk2, g, h, r)
  BY <1>1, <1>3 DEF SealsOne, TwoOnTop
<1>5. IsCall(g, "ask", p.x, f.b, s.inst[p.phi].ty, p.phi, <<>>) /\ IsSeal(h, f.b, rest)
  BY <1>3 DEF IsCall, AskFrame, IsSeal
<1> QED
  BY <1>2, <1>4, <1>5 DEF SealCalls

\* The call that seals a block, on top of no other.
SealTop(s, c, wk, f, r) ==
  /\ Len(r) = 0 /\ IsRow(r) /\ FrameOK(f, s, c, Shut(s, wk))
  /\ f.b \in BlocksOf(s) /\ (f.b = c \/ s.term[f.b].op # "none") /\ f.b \in Shut(s, wk)
  /\ RowOf(f.rest, [x : Vars, phi : 1 .. Len(s.inst)])
  /\ \A k \in 1 .. Len(f.rest) : ParkedAt(f.rest[k], f.b, s.inst, s.defs)
  /\ Core(s, Shut(s, wk), Busy(wk)) /\ Len(s.inst) \in Nat
  /\ Busy(wk) = HeldBy(f) /\ Sealing(wk) = {f.b}

LEMMA HeldSeal ==
  ASSUME NEW s, NEW c, NEW q, NEW wk, Held(s, c, q, wk), NEW f, NEW r, OnTop(wk, f, r),
         f.op \in {"seal"}
  PROVE  SealTop(s, c, wk, f, r)
<1>1. FramesOK(wk, s, c, Shut(s, wk)) /\ Core(s, Shut(s, wk), Busy(wk))
  BY DEF Held
<1>2. FrameOK(f, s, c, Shut(s, wk)) /\ Len(r) = 0
  BY <1>1, FramePop
<1>3. /\ (f.b = c \/ s.term[f.b].op # "none") /\ f.b \in Shut(s, wk)
      /\ \A k \in 1 .. Len(f.rest) : ParkedAt(f.rest[k], f.b, s.inst, s.defs)
      /\ FrameShape(f, Len(s.term), Len(s.inst))
  BY <1>2 DEF FrameOK
<1>4. f.b \in 1 .. Len(s.term) /\ RowOf(f.rest, [x : Vars, phi : 1 .. Len(s.inst)])
  BY <1>3 DEF FrameShape
<1>5. IsRow(r)
  BY DEF OnTop
<1>6. Len(s.inst) \in Nat /\ Len(s.term) \in Nat
  BY <1>1, CoreLens
<1>7. Busy(wk) = HeldBy(f) /\ Sealing(wk) = {f.b}
  <2>1. Busy(wk) = HeldBy(f) \cup Busy(r) /\ Sealing(wk) = SealedBy(f) \cup Sealing(r)
    BY BusyOnTop
  <2>2. Busy(r) = {} /\ Sealing(r) = {}
    BY <1>2, <1>5, BusyNone
  <2>3. SealedBy(f) = {f.b}
    <3>1. f.b \in Nat
      BY <1>4, <1>6
    <3> QED
      BY <3>1 DEF SealedBy
  <2> QED
    BY <2>1, <2>2, <2>3
<1> QED
  BY <1>1, <1>2, <1>3, <1>4, <1>5, <1>6, <1>7 DEF SealTop, BlocksOf

LEMMA SealsDone ==
  ASSUME NEW s, NEW c, NEW q, NEW wk, Held(s, c, q, wk), NEW f, NEW r, OnTop(wk, f, r),
         f.op \in {"seal"}, Len(f.rest) = 0, NEW u, u \in {SealFresh(s, {f.b})},
         NEW rt \in 0 .. Len(s.inst)
  PROVE  BuilderDone(s, c, q, wk, u, r, rt)
<1>1. SealTop(s, c, wk, f, r)
  BY HeldSeal
<1>2. /\ Len(r) = 0 /\ IsRow(r) /\ f.b \in Shut(s, wk) /\ Core(s, Shut(s, wk), Busy(wk))
      /\ Busy(wk) = HeldBy(f) /\ Sealing(wk) = {f.b} /\ FrameOK(f, s, c, Shut(s, wk))
  BY <1>1 DEF SealTop
<1>3. Busy(wk) = {}
  <2>1. f.op \notin {"ask", "take"} /\ 1 .. Len(f.rest) = {}
    OBVIOUS
  <2>2. \A v : ~Holds(f, v)
    BY <2>1 DEF Holds
  <2> QED
    BY <1>2, <2>2 DEF HeldBy
<1>4. Busy(r) = {} /\ Sealing(r) = {}
  BY <1>2, BusyNone
<1>5. /\ Core(u, Shut(s, wk), Busy(r))
      /\ u.sealed = s.sealed \cup {f.b} /\ u.inst = s.inst /\ u.term = s.term
      /\ u.preds = s.preds /\ u.defs = s.defs /\ u.pending = s.pending
  <2>1. {f.b} \in SUBSET Shut(s, wk)
    BY <1>2
  <2> QED
    BY <1>2, <1>3, <1>4, <2>1, CoreSeal
<1>6. Changes(s, u, {}, {}, {})
  <2>1. SetsSealed(s, u, {f.b})
    BY <1>5 DEF SetsSealed
  <2> QED
    BY <1>2, <2>1, SealChanges
<1>7. Shut(u, r) = Shut(s, wk)
  BY <1>2, <1>4, <1>5 DEF Shut
<1>8. c \in BlocksOf(u) /\ Stacked(q, u, c, Shut(u, r)) /\ Keeps(s, u)
  <2>1. \A b \in {} : b = c \/ s.term[b].op # "none"
    OBVIOUS
  <2> QED
    BY <1>5, <1>6, <1>7, <2>1, HeldStep
<1>9. FramesOK(r, u, c, Shut(u, r))
  BY <1>2, FramesNone DEF Under
<1>10. Held(u, c, q, r)
  BY <1>5, <1>7, <1>8, <1>9 DEF Held
<1>11. rt \in 0 .. Len(u.inst) /\ Sealing(wk) # {} /\ ~(Len(r) > 0)
  BY <1>2, <1>5
<1> QED
  BY <1>2, <1>4, <1>5, <1>8, <1>10, <1>11 DEF BuilderDone

\* Which phis the two calls hold between them.
LEMMA RestHolds ==
  ASSUME NEW f, NEW p, NEW rest, OnTop(f.rest, p, rest), f.op \in {"seal"},
         NEW h, NEW b, SealShape(h, b, rest), NEW v
  PROVE  Holds(f, v) <=> p.phi = v \/ Holds(h, v)
<1>1. /\ 1 .. Len(f.rest) = {1} \cup {k + 1 : k \in 1 .. Len(rest)}
      /\ f.rest[1] = p /\ \A k \in 1 .. Len(rest) : f.rest[k + 1] = rest[k]
  BY OnTopSplits
<1>2. h.rest = rest /\ h.op = "seal"
  BY DEF SealShape
<1>3. Holds(f, v) <=> \E k \in 1 .. Len(f.rest) : f.rest[k].phi = v
  BY DEF Holds
<1>4. Holds(h, v) <=> \E k \in 1 .. Len(rest) : rest[k].phi = v
  BY <1>2 DEF Holds
<1>5. (\E k \in 1 .. Len(f.rest) : f.rest[k].phi = v)
        <=> (p.phi = v \/ \E k \in 1 .. Len(rest) : rest[k].phi = v)
  <2>1. ASSUME NEW k \in 1 .. Len(f.rest), f.rest[k].phi = v
        PROVE  p.phi = v \/ \E j \in 1 .. Len(rest) : rest[j].phi = v
    BY <1>1, <2>1
  <2>2. ASSUME p.phi = v PROVE \E k \in 1 .. Len(f.rest) : f.rest[k].phi = v
    BY <1>1, <2>2
  <2>3. ASSUME NEW j \in 1 .. Len(rest), rest[j].phi = v
        PROVE  \E k \in 1 .. Len(f.rest) : f.rest[k].phi = v
    BY <1>1, <2>3
  <2> QED
    BY <2>1, <2>2, <2>3
<1> QED
  BY <1>3, <1>4, <1>5

LEMMA SealsNext ==
  ASSUME NEW s, NEW c, NEW q, NEW wk, Held(s, c, q, wk), NEW f, NEW r, OnTop(wk, f, r),
         f.op \in {"seal"}, Len(f.rest) > 0, NEW wk2, SealsOne(s, f, r, wk2),
         NEW rt \in 0 .. Len(s.inst)
  PROVE  BuilderDone(s, c, q, wk, s, wk2, rt)
<1>1. SealTop(s, c, wk, f, r)
  BY HeldSeal
<1>2. /\ Len(r) = 0 /\ IsRow(r) /\ f.b \in BlocksOf(s) /\ f.b \in Shut(s, wk)
      /\ (f.b = c \/ s.term[f.b].op # "none")
      /\ Core(s, Shut(s, wk), Busy(wk)) /\ Len(s.inst) \in Nat
      /\ Busy(wk) = HeldBy(f) /\ Sealing(wk) = {f.b}
  BY <1>1 DEF SealTop
<1>3. /\ RowOf(f.rest, [x : Vars, phi : 1 .. Len(s.inst)])
      /\ \A k \in 1 .. Len(f.rest) : ParkedAt(f.rest[k], f.b, s.inst, s.defs)
  BY <1>1 DEF SealTop
<1>4. PICK p, rest, g, h : OnTop(f.rest, p, rest) /\ SealCalls(s, f, r, wk2, p, rest, g, h)
  BY <1>3, SealParts DEF RowOf
<1>5. /\ CallShape(g, "ask", p.x, f.b, s.inst[p.phi].ty, p.phi, <<>>)
      /\ SealShape(h, f.b, rest) /\ TwoOnTop(wk2, g, h, r)
  BY <1>4, CallIs, SealFrameIs DEF SealCalls
<1>6. /\ 1 .. Len(f.rest) = {1} \cup {k + 1 : k \in 1 .. Len(rest)}
      /\ f.rest[1] = p /\ IsRow(rest)
      /\ \A k \in 1 .. Len(rest) : f.rest[k + 1] = rest[k] /\ k + 1 \in 1 .. Len(f.rest)
  <2>1. OnTop(f.rest, p, rest)
    BY <1>4
  <2>2. IsRow(rest)
    BY <2>1 DEF OnTop
  <2> QED
    BY <2>1, <2>2, OnTopSplits
<1>7. ParkedAt(p, f.b, s.inst, s.defs) /\ p.phi \in 1 .. Len(s.inst)
  <2>1. 1 \in 1 .. Len(f.rest)
    BY <1>6
  <2> QED
    BY <1>3, <1>6, <2>1 DEF RowOf
<1>8. p.x \in Vars /\ s.defs[f.b][p.x] # NoValue /\ IsPhi(s.inst, p.phi)
      /\ s.inst[p.phi].block = f.b
  BY <1>7 DEF ParkedAt
<1>9. /\ RowOf(rest, [x : Vars, phi : 1 .. Len(s.inst)])
      /\ \A k \in 1 .. Len(rest) : ParkedAt(rest[k], f.b, s.inst, s.defs)
  <2>1. \A k \in 1 .. Len(rest) : rest[k] \in [x : Vars, phi : 1 .. Len(s.inst)]
    BY <1>3, <1>6 DEF RowOf
  <2>2. \A k \in 1 .. Len(rest) : ParkedAt(rest[k], f.b, s.inst, s.defs)
    BY <1>3, <1>6
  <2> QED
    BY <1>6, <2>1, <2>2 DEF RowOf
<1>10. FrameOK(h, s, c, Shut(s, wk))
  <2>1. /\ h = Frame(h.op, h.x, h.b, h.ty, h.phi, h.got, h.rest)
        /\ h.op = "seal" /\ h.x = "" /\ h.b = f.b /\ h.ty = "" /\ h.phi = 0 /\ h.got = <<>>
        /\ h.rest = rest
    BY <1>5 DEF SealShape
  <2>2. FrameShape(h, Len(s.term), Len(s.inst))
    <3>1. h.op \in {"read", "write", "ask", "take", "seal"} /\ h.x \in Vars \cup {""}
      BY <2>1
    <3>2. h.b \in 1 .. Len(s.term) /\ h.ty \in Types \cup {""} /\ h.phi \in 0 .. Len(s.inst)
      <4>1. f.b \in 1 .. Len(s.term) /\ 0 \in 0 .. Len(s.inst)
        BY <1>2 DEF BlocksOf
      <4> QED
        BY <2>1, <4>1
    <3>3. RowOf(h.got, 1 .. Len(s.inst)) /\ RowOf(h.rest, [x : Vars, phi : 1 .. Len(s.inst)])
      BY <1>9, <2>1, EmptyRow
    <3> QED
      BY <2>1, <3>1, <3>2, <3>3 DEF FrameShape
  <2>3. h.b = c \/ s.term[h.b].op # "none"
    BY <1>2, <2>1
  <2>4. h.b \in Shut(s, wk) /\ \A k \in 1 .. Len(h.rest) : ParkedAt(h.rest[k], h.b, s.inst, s.defs)
    BY <1>2, <1>9, <2>1
  <2>5. h.op = "seal"
    BY <2>1
  <2> QED
    BY <2>2, <2>3, <2>4, <2>5 DEF FrameOK
<1>11. FrameOK(g, s, c, Shut(s, wk))
  <2>1. s.inst[p.phi].ty \in Types
    <3>1. InstsOK(s.inst, Len(s.term))
      BY <1>2 DEF Core
    <3> QED
      BY <1>7, <3>1 DEF InstsOK, InstOK
  <2>2. /\ p.phi \in 0 .. Len(s.inst) /\ RowOf(<<>>, ValuesOf(s))
        /\ Len(<<>>) <= Len(s.preds[f.b])
    <3>1. Len(s.preds[f.b]) \in Nat
      BY <1>2, CoreLens DEF IsRow
    <3> QED
      BY <1>2, <1>7, <3>1, EmptyRow
  <2>3. CallReady("ask", p.x, f.b, s.inst[p.phi].ty, p.phi, <<>>, s, c, Shut(s, wk))
    BY <1>2, <1>8, <2>1, <2>2 DEF CallReady, CallKinds
  <2> QED
    BY <1>5, <2>3, CallOK
<1>12. g.op = "ask" /\ g.x = p.x /\ g.phi = p.phi
  BY <1>5 DEF CallShape
<1>13. h.op = "seal" /\ h.b = f.b
  BY <1>5 DEF SealShape
<1>14. PICK mid : OnTop(mid, h, r) /\ OnTop(wk2, g, mid)
  BY <1>2, <1>5, TwoCalls DEF TwoOnTop
<1>15. Under(mid, p.x, s, c, Shut(s, wk))
  BY <1>2, <1>8, <1>10, <1>13, <1>14, SealPush
<1>16. Sealing(mid) = {f.b} /\ Busy(mid) = HeldBy(h)
  <2>2. Busy(mid) = HeldBy(h) \cup Busy(r) /\ Sealing(mid) = SealedBy(h) \cup Sealing(r)
    BY <1>14, BusyOnTop
  <2>3. Busy(r) = {} /\ Sealing(r) = {}
    BY <1>2, BusyNone
  <2>4. SealedBy(h) = {f.b}
    <3>1. f.b \in Nat
      BY <1>2, CoreLens DEF BlocksOf
    <3> QED
      BY <1>13, <3>1 DEF SealedBy
  <2> QED
    BY <2>2, <2>3, <2>4
<1>17. /\ Under(wk2, p.x, s, c, Shut(s, wk)) /\ Sealing(wk2) = Sealing(mid)
       /\ Busy(wk2) = {p.phi} \cup Busy(mid) /\ Len(wk2) > 0 /\ wk2[1] = g
  <2>1. g.op \in CallKinds /\ g.phi \in Nat /\ g.op \in {"ask", "take"}
    BY <1>2, <1>7, <1>12 DEF CallKinds
  <2> QED
    BY <1>11, <1>12, <1>14, <1>15, <2>1, PushCall
<1>18. Core(s, Shut(s, wk), Busy(wk2))
  <2>1. HeldBy(f) \subseteq {p.phi} \cup HeldBy(h)
    <3>1. \A v : Holds(f, v) => p.phi = v \/ Holds(h, v)
      BY <1>4, <1>5, RestHolds
    <3> QED
      BY <3>1 DEF HeldBy
  <2> QED
    BY <1>2, <1>16, <1>17, <2>1, CoreBusier
<1>19. Advances(s, c, s, {})
  BY <1>2, ChangesNone DEF Advances
<1>20. FramesOK(wk2, s, c, Shut(s, wk)) /\ Sealing(wk2) = Sealing(wk)
  BY <1>2, <1>16, <1>17 DEF Under
<1>21. ~(Len(wk2) = 0 \/ wk2[1].op \in {"write", "take"})
  BY <1>12, <1>17
<1> QED
  BY <1>18, <1>19, <1>20, <1>21, Continues

-----------------------------------------------------------------------------
(* The invariant.                                                          *)

ParserModes == {"stmt", "operand", "reading", "value", "done"} \cup Errors

\* What the parser is doing, and what it may rely on.
Phase(md, wk, rt, s, c, q) ==
  /\ md \in ParserModes /\ rt \in 0 .. Len(s.inst)
  /\ md \in {"stmt"} => Bodied(q)
  /\ md \in {"operand", "value"} => Waiting(q, c)
  /\ md \in {"reading"} => \E o, r : OnTop(q, o, r) /\ o.k = "name" /\ Waiting(r, c)
  /\ md \in {"operand", "value", "reading"} => s.term[c].op = "none"
  /\ md \notin {"stmt", "reading"} => Len(wk) = 0
  /\ md \notin {"stmt"} => Sealing(wk) = {}
  /\ md \in {"value"} => rt # 0
  /\ md \in {"reading"} /\ Len(wk) = 0 => rt # 0
  /\ Len(wk) > 0 /\ wk[1].op \in {"write", "take"} => rt # 0
  /\ md \in {"done"} => Len(q) = 0

ScopesOK(sc) == RowOf(sc, [Vars -> Types \cup {NoType}])
LogOK(l, s) == IsRow(l) /\ Len(l) = Len(s.term)

Inv ==
  /\ Held(bld, cur, ctl, work) /\ IsRow(work)
  /\ Phase(mode, work, ret, bld, cur, ctl)
  /\ ety \in Types \cup {NoType} /\ ScopesOK(scopes) /\ LogOK(log, bld)
  /\ shape \in DOMAIN Shapes /\ ~ShortCircuitInWhile
  /\ stmts \in 0 .. MaxStatements

\* The state between two calls into the builder, seen from each mode.
AtStmt(s, c, q, rt) == Quiet(s, c, q) /\ Bodied(q) /\ rt \in 0 .. Len(s.inst)
AtOperand(s, c, q, rt) ==
  Quiet(s, c, q) /\ Waiting(q, c) /\ s.term[c].op = "none" /\ rt \in 0 .. Len(s.inst)
HasValue(s, c, q, rt) == AtOperand(s, c, q, rt) /\ rt \in ValuesOf(s)

\* The rest of the state.
RestOK(sh, e, sc, l, s, n) ==
  /\ e \in Types \cup {NoType} /\ ScopesOK(sc) /\ LogOK(l, s)
  /\ sh \in DOMAIN Shapes /\ "shortCircuitInWhile" \notin Shapes[sh].allows
  /\ n \in 0 .. Shapes[sh].maxStatements
Rest == RestOK(shape, ety, scopes, log, bld, stmts)

LEMMA WorkEmpty ==
  ASSUME Inv
  PROVE  Idle <=> Len(work) = 0
BY EmptyRow, RowsEqual DEF Inv, Idle

LEMMA StatementMode ==
  ASSUME Inv, mode = "stmt", Idle
  PROVE  AtStmt(bld, cur, ctl, ret) /\ Rest /\ Len(work) = 0
<1>1. Len(work) = 0
  BY WorkEmpty
<1>2. Held(bld, cur, ctl, work) /\ IsRow(work) /\ Phase(mode, work, ret, bld, cur, ctl)
  BY DEF Inv
<1>3. Quiet(bld, cur, ctl)
  BY <1>1, <1>2, HeldQuiet
<1>4. Bodied(ctl) /\ ret \in 0 .. Len(bld.inst)
  BY <1>2 DEF Phase
<1>5. Rest
  BY DEF Inv, Rest, RestOK, MaxStatements, ShortCircuitInWhile
<1> QED
  BY <1>1, <1>3, <1>4, <1>5 DEF AtStmt

LEMMA ExpressionMode ==
  ASSUME Inv, mode \in {"operand", "value"}
  PROVE  /\ AtOperand(bld, cur, ctl, ret) /\ Rest /\ Len(work) = 0 /\ IsRow(work)
         /\ mode = "value" => HasValue(bld, cur, ctl, ret)
<1>1. Held(bld, cur, ctl, work) /\ IsRow(work) /\ Phase(mode, work, ret, bld, cur, ctl)
  BY DEF Inv
<1>2. /\ Len(work) = 0 /\ Waiting(ctl, cur) /\ bld.term[cur].op = "none"
      /\ ret \in 0 .. Len(bld.inst)
      /\ mode = "value" => ret # 0
  BY <1>1 DEF Phase
<1>3. Quiet(bld, cur, ctl)
  BY <1>1, <1>2, HeldQuiet
<1>4. AtOperand(bld, cur, ctl, ret)
  BY <1>2, <1>3 DEF AtOperand
<1>5. mode = "value" => ret \in ValuesOf(bld)
  <2>1. Len(bld.inst) \in Nat
    BY <1>3, QuietFacts
  <2>2. ret # 0 => ret \in 1 .. Len(bld.inst)
    BY <1>2, <2>1
  <2> QED
    BY <1>2, <2>2 DEF ValuesOf
<1>6. Rest
  BY DEF Inv, Rest, RestOK, MaxStatements, ShortCircuitInWhile
<1> QED
  BY <1>1, <1>2, <1>4, <1>5, <1>6 DEF HasValue

\* The state a step with no call into the builder leaves.
LEMMA Settled ==
  ASSUME NEW s, NEW c, NEW q, NEW md, NEW wk, NEW rt, IsRow(wk), Len(wk) = 0,
         \/ md \in {"stmt"} /\ AtStmt(s, c, q, rt)
         \/ md \in {"operand"} /\ AtOperand(s, c, q, rt)
         \/ md \in {"value"} /\ HasValue(s, c, q, rt)
         \/ md \in Errors /\ Quiet(s, c, q) /\ rt \in 0 .. Len(s.inst)
         \/ md \in {"done"} /\ Quiet(s, c, q) /\ rt \in 0 .. Len(s.inst) /\ Len(q) = 0
  PROVE  Held(s, c, q, wk) /\ IsRow(wk) /\ Phase(md, wk, rt, s, c, q)
<1>1. Sealing(wk) = {} /\ ~(Len(wk) > 0)
  BY BusyNone
<1>2. Quiet(s, c, q) => Held(s, c, q, wk)
  BY HeldQuiet
<1>3. CASE md \in {"stmt"} /\ AtStmt(s, c, q, rt)
  <2>1. Quiet(s, c, q) /\ Bodied(q) /\ rt \in 0 .. Len(s.inst)
    BY <1>3 DEF AtStmt
  <2> QED
    BY <1>1, <1>2, <1>3, <2>1 DEF Phase, ParserModes
<1>4. CASE md \in {"operand"} /\ AtOperand(s, c, q, rt)
  <2>1. Quiet(s, c, q) /\ Waiting(q, c) /\ s.term[c].op = "none" /\ rt \in 0 .. Len(s.inst)
    BY <1>4 DEF AtOperand
  <2> QED
    BY <1>1, <1>2, <1>4, <2>1 DEF Phase, ParserModes
<1>5. CASE md \in {"value"} /\ HasValue(s, c, q, rt)
  <2>1. /\ Quiet(s, c, q) /\ Waiting(q, c) /\ s.term[c].op = "none" /\ rt \in 0 .. Len(s.inst)
        /\ rt \in 1 .. Len(s.inst)
    BY <1>5 DEF HasValue, AtOperand, ValuesOf
  <2>2. rt # 0
    <3>1. Len(s.inst) \in Nat
      BY <2>1, QuietFacts
    <3> QED
      BY <2>1, <3>1
  <2> QED
    BY <1>1, <1>2, <1>5, <2>1, <2>2 DEF Phase, ParserModes
<1>6. CASE md \in Errors /\ Quiet(s, c, q) /\ rt \in 0 .. Len(s.inst)
  <2>1. md \in ParserModes /\ md \notin {"stmt", "operand", "value", "reading", "done"}
    BY <1>6 DEF ParserModes, Errors
  <2> QED
    BY <1>1, <1>2, <1>6, <2>1 DEF Phase
<1>7. CASE md \in {"done"} /\ Quiet(s, c, q) /\ rt \in 0 .. Len(s.inst) /\ Len(q) = 0
  BY <1>1, <1>2, <1>7 DEF Phase, ParserModes
<1> QED
  BY <1>3, <1>4, <1>5, <1>6, <1>7

-----------------------------------------------------------------------------
(* Odds and ends both of the following modules need.                         *)

LEMMA TargetsEnd ==
  ASSUME NEW t, NEW n, NEW m, TermOK(t, n, m), NEW b \in Successors(t)
  PROVE  t.op # "none"
<1>1. RowOf(t.to, 1 .. n) /\ (t.op = "none" => Len(t.to) = 0)
  BY DEF TermOK
<1>2. DOMAIN t.to = 1 .. Len(t.to)
  BY <1>1 DEF RowOf, IsRow
<1>3. PICK k, l : l = Len(t.to) /\ k \in 1 .. l
  BY <1>2 DEF Successors
<1>4. Len(t.to) # 0
  BY <1>3
<1> QED
  BY <1>1, <1>4

\* A call is on top.
TopCall(wk, f, r, op) == OnTop(wk, f, r) /\ f.op \in {op}

ShortBegun(s, u, q, r, o2) ==
  /\ Quiet(u, r, <<o2>> \o q) /\ Keeps(s, u) /\ Led(s, u) /\ u.term[r].op = "none"
  /\ Len(u.term) = Len(s.term) + 3 /\ Len(u.inst) = Len(s.inst) + 1
  /\ o2.k \in {"and", "or"}

LEMMA ShortBegins ==
  ASSUME NEW s, NEW c, NEW q, Quiet(s, c, q), s.term[c].op = "none",
         NEW v \in ValuesOf(s), "bool" \in Types, NEW u, NEW k, NEW h, NEW r, NEW j, NEW l,
         ShortMade(s, c, v, u, k, h, r, j, l), NEW o2, ShortOpened(k, h, j, l, o2)
  PROVE  ShortBegun(s, u, q, r, o2)
BY BeginsShort DEF ShortBegun

LEMMA OneRow ==
  ASSUME NEW o
  PROVE  IsRow(<<o>>) /\ Len(<<o>>) = 1 /\ <<o>>[1] = o /\ DOMAIN <<o>> = {1}
BY DEF IsRow
=============================================================================
