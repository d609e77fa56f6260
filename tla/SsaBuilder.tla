----------------------------- MODULE SsaBuilder -----------------------------
(***************************************************************************)
(* SsaBuilder of crates/parser/src/ssa_builder.rs: the incremental SSA     *)
(* construction of Braun et al. that the parser drives while it reads      *)
(* tokens.                                                                 *)
(*                                                                         *)
(* The struct is the record bld.  new_block, emit, terminate and           *)
(* write_variable call nothing else and are functions on that record.      *)
(* read_variable and seal_block recurse through each other, so their       *)
(* activation records are explicit: work is the call stack, its head the   *)
(* running call, and ret the value the last call to finish returned.  One  *)
(* action is one stretch of code between two of those calls.               *)
(***************************************************************************)
EXTENDS Ir

CONSTANTS
  Vars,     \* the variable names of the source
  Types     \* ir::Type

VARIABLES
  bld,      \* the struct
  work,     \* the calls in progress, innermost first
  ret       \* what the last finished call returned

builderVars == <<bld, work, ret>>

NoDefs == [x \in Vars |-> NoValue]

-----------------------------------------------------------------------------
(* The methods that only update the struct.                                *)

\* Mutant of NewBuilder: value ids of parameters start one too high.
NewBuilderOffByOne(params) ==
  [inst    |-> [i \in DOMAIN params |->
                  [block |-> 1, kind |-> "param", ty |-> params[i].ty,
                   args |-> <<>>, from |-> <<>>]],
   term    |-> <<NoTerm>>,
   preds   |-> << <<>> >>,
   defs    |-> <<[x \in Vars |-> Len(params) + 1]>>,
   sealed  |-> {1},
   pending |-> << <<>> >>]

\* Mutant of NewBuilder: the entry block does not bind the parameters.
NewBuilderUnbound(params) ==
  [inst    |-> [i \in DOMAIN params |->
                  [block |-> 1, kind |-> "param", ty |-> params[i].ty,
                   args |-> <<>>, from |-> <<>>]],
   term    |-> <<NoTerm>>,
   preds   |-> << <<>> >>,
   defs    |-> <<NoDefs>>,
   sealed  |-> {1},
   pending |-> << <<>> >>]

\* SsaBuilder::new: the parameters are the first values, bound in the entry
\* block, which is sealed.
NewBuilder(params) ==
  [inst    |-> [i \in DOMAIN params |->
                  [block |-> 1, kind |-> "param", ty |-> params[i].ty,
                   args |-> <<>>, from |-> <<>>]],
   term    |-> <<NoTerm>>,
   preds   |-> << <<>> >>,
   defs    |-> <<[x \in Vars |->
                    IF \E i \in DOMAIN params : params[i].name = x
                    THEN CHOOSE i \in DOMAIN params : params[i].name = x
                    ELSE NoValue]>>,
   sealed  |-> {1},
   pending |-> << <<>> >>]

LastBlock(s) == Len(s.term)
LastValue(s) == Len(s.inst)
IsTerminated(s, b) == s.term[b].op # "none"

NewBlock(s) ==
  [s EXCEPT !.term    = Append(@, NoTerm),
            !.preds   = Append(@, <<>>),
            !.defs    = Append(@, NoDefs),
            !.pending = Append(@, <<>>)]

\* emit and emit_phi: the new value is LastValue of the result.
Emit(s, b, kind, ty, args, from) ==
  [s EXCEPT !.inst = Append(@, [block |-> b, kind |-> kind, ty |-> ty,
                                args |-> args, from |-> from])]

\* Mutant of Terminate: the edge of a branch's second target is forgotten.
TerminateFirstEdgeOnly(s, b, t) ==
  [s EXCEPT !.term[b] = t,
            !.preds   = [c \in DOMAIN @ |->
                           IF t.to # <<>> /\ t.to[1] = c
                           THEN Append(@[c], b) ELSE @[c]]]

\* terminate: one push on preds for every successor, then the terminator is
\* stored over whatever the block had.
Terminate(s, b, t) ==
  [s EXCEPT !.term[b] = t,
            !.preds   = [c \in DOMAIN @ |->
                           @[c] \o [k \in 1 .. Cardinality(EdgesTo(t, c)) |-> b]]]

\* write_variable
Write(s, x, b, v) == [s EXCEPT !.defs[b][x] = v]

\* seal_block on blocks nothing has been read from yet: no phi is parked
\* there, so sealing only records it (NoParkedPhiLeft says the premise holds).
SealFresh(s, bs) == [s EXCEPT !.sealed = @ \cup bs]

-----------------------------------------------------------------------------
(* The calls in progress.                                                  *)

Frame(op, x, b, ty, phi, got, rest) ==
  [op |-> op, x |-> x, b |-> b, ty |-> ty, phi |-> phi, got |-> got, rest |-> rest]

\* read_variable(x, b, ty), about to run
ReadFrame(x, b, ty) == Frame("read", x, b, ty, NoValue, <<>>, <<>>)
\* read_variable_recursive waiting for its value, to write it back
WriteFrame(x, b) == Frame("write", x, b, "", NoValue, <<>>, <<>>)
\* add_phi_operands about to read its next predecessor ("ask"), or waiting
\* for that read to return ("take"); got holds the operands read so far
AskFrame(x, b, ty, phi, got)  == Frame("ask", x, b, ty, phi, got, <<>>)
TakeFrame(x, b, ty, phi, got) == Frame("take", x, b, ty, phi, got, <<>>)
\* seal_block(b) with the incomplete phis it has not resolved yet
SealFrame(b, rest) == Frame("seal", "", b, "", NoValue, <<>>, rest)

Running(op) == work # <<>> /\ Head(work).op = op
Top == Head(work)

BindingOf(x, b) == bld.defs[b][x]

-----------------------------------------------------------------------------
(* read_variable and read_variable_recursive.                              *)

\* The block has a definition of its own.
ReadLocal ==
  /\ Running("read")
  /\ BindingOf(Top.x, Top.b) # NoValue
  /\ ret' = BindingOf(Top.x, Top.b)
  /\ work' = Tail(work)
  /\ UNCHANGED bld

\* Mutant of ReadEmptyPhi: the phi is never recorded as incomplete.
ReadEmptyPhiNotParked ==
  /\ Running("read")
  /\ BindingOf(Top.x, Top.b) = NoValue
  /\ Top.b \notin bld.sealed \/ bld.preds[Top.b] = <<>>
  /\ LET s == Emit(bld, Top.b, "phi", Top.ty, <<>>, <<>>)
     IN  /\ bld' = Write(s, Top.x, Top.b, LastValue(s))
         /\ ret' = LastValue(s)
  /\ work' = Tail(work)

\* The two reads answered by a phi without operands: in a block that is not
\* sealed it is parked for seal_block; in a sealed block without predecessors
\* (the arm for [], which the code does not expect to reach) it stays empty.
ReadEmptyPhi ==
  /\ Running("read")
  /\ BindingOf(Top.x, Top.b) = NoValue
  /\ Top.b \notin bld.sealed \/ bld.preds[Top.b] = <<>>
  /\ LET s == Emit(bld, Top.b, "phi", Top.ty, <<>>, <<>>)
         v == LastValue(s)
         parked == IF Top.b \in bld.sealed THEN <<>> ELSE <<[x |-> Top.x, phi |-> v]>>
     IN  /\ bld' = [Write(s, Top.x, Top.b, v) EXCEPT !.pending[Top.b] = @ \o parked]
         /\ ret' = v
  /\ work' = Tail(work)

SealedRead == /\ Running("read")
              /\ BindingOf(Top.x, Top.b) = NoValue
              /\ Top.b \in bld.sealed

\* One predecessor: whatever it holds, cached here when the call returns.
ReadOnePredecessor ==
  /\ SealedRead
  /\ Len(bld.preds[Top.b]) = 1
  /\ work' = <<ReadFrame(Top.x, bld.preds[Top.b][1], Top.ty), WriteFrame(Top.x, Top.b)>>
               \o Tail(work)
  /\ UNCHANGED <<bld, ret>>

\* Mutant of ReadMerge: the phi is bound only after its operands are read.
ReadMergeBindLate ==
  /\ SealedRead
  /\ Len(bld.preds[Top.b]) > 1
  /\ LET s == Emit(bld, Top.b, "phi", Top.ty, <<>>, <<>>)
     IN  /\ bld' = s
         /\ work' = <<AskFrame(Top.x, Top.b, Top.ty, LastValue(s), <<>>), WriteFrame(Top.x, Top.b)>>
                      \o Tail(work)
  /\ UNCHANGED ret

\* Several predecessors: a phi, bound before its operands are read.
ReadMerge ==
  /\ SealedRead
  /\ Len(bld.preds[Top.b]) > 1
  /\ LET s == Emit(bld, Top.b, "phi", Top.ty, <<>>, <<>>)
         v == LastValue(s)
     IN  /\ bld' = Write(s, Top.x, Top.b, v)
         /\ work' = <<AskFrame(Top.x, Top.b, Top.ty, v, <<>>), WriteFrame(Top.x, Top.b)>>
                      \o Tail(work)
  /\ UNCHANGED ret

\* The write_variable at the end of read_variable_recursive.
WriteBack ==
  /\ Running("write")
  /\ bld' = Write(bld, Top.x, Top.b, ret)
  /\ work' = Tail(work)
  /\ UNCHANGED ret

-----------------------------------------------------------------------------
(* add_phi_operands and seal_block.                                        *)

AskOperand ==
  /\ Running("ask")
  /\ Len(Top.got) < Len(bld.preds[Top.b])
  /\ work' = <<ReadFrame(Top.x, bld.preds[Top.b][Len(Top.got) + 1], Top.ty),
               TakeFrame(Top.x, Top.b, Top.ty, Top.phi, Top.got)>> \o Tail(work)
  /\ UNCHANGED <<bld, ret>>

TakeOperand ==
  /\ Running("take")
  /\ work' = <<AskFrame(Top.x, Top.b, Top.ty, Top.phi, Append(Top.got, ret))>> \o Tail(work)
  /\ UNCHANGED <<bld, ret>>

FillPhi ==
  /\ Running("ask")
  /\ Len(Top.got) = Len(bld.preds[Top.b])
  /\ bld' = [bld EXCEPT !.inst[Top.phi].args = Top.got,
                        !.inst[Top.phi].from = bld.preds[Top.b]]
  /\ ret' = Top.phi
  /\ work' = Tail(work)

\* Mutant of CallSeal: the incomplete phis are read, not taken.
CallSealKeepsPending(s, b) ==
  /\ bld' = s
  /\ work' = <<SealFrame(b, s.pending[b])>>

\* seal_block takes the block's incomplete phis before it resolves any.
CallSeal(s, b) ==
  /\ bld' = [s EXCEPT !.pending[b] = <<>>]
  /\ work' = <<SealFrame(b, s.pending[b])>>

\* Mutant of SealNext: the incomplete phi resolved is not taken off the list.
SealNextSameAgain ==
  /\ Running("seal")
  /\ Top.rest # <<>>
  /\ LET p == Head(Top.rest)
     IN  work' = <<AskFrame(p.x, Top.b, bld.inst[p.phi].ty, p.phi, <<>>)>> \o work
  /\ UNCHANGED <<bld, ret>>

SealNext ==
  /\ Running("seal")
  /\ Top.rest # <<>>
  /\ LET p == Head(Top.rest)
     IN  work' = <<AskFrame(p.x, Top.b, bld.inst[p.phi].ty, p.phi, <<>>),
                   SealFrame(Top.b, Tail(Top.rest))>> \o Tail(work)
  /\ UNCHANGED <<bld, ret>>

SealDone ==
  /\ Running("seal")
  /\ Top.rest = <<>>
  /\ bld' = SealFresh(bld, {Top.b})
  /\ work' = Tail(work)
  /\ UNCHANGED ret

BuilderStep ==
  \/ ReadLocal \/ ReadEmptyPhi \/ ReadOnePredecessor
  \/ ReadMerge \/ WriteBack \/ AskOperand \/ TakeOperand \/ FillPhi
  \/ SealNext \/ SealDone

-----------------------------------------------------------------------------
Blocks == DOMAIN bld.term
Values == DOMAIN bld.inst

\* The shape of the struct and of the activation records.
BuilderTypeOK ==
  /\ bld.inst \in Seq([block : Blocks, kind : InstKinds, ty : Types,
                       args : Seq(Values), from : Seq(Blocks)])
  /\ bld.term \in Seq([op : {"none", "jump", "branch", "return"},
                       arg : Values \cup {NoValue}, to : Seq(Blocks)])
  /\ bld.preds \in [Blocks -> Seq(Blocks)]
  /\ bld.defs \in [Blocks -> [Vars -> Values \cup {NoValue}]]
  /\ bld.sealed \subseteq Blocks
  /\ bld.pending \in [Blocks -> Seq([x : Vars, phi : Values])]
  /\ ret \in Values \cup {NoValue}
  /\ work \in Seq([op : {"read", "write", "ask", "take", "seal"},
                   x : Vars \cup {""}, b : Blocks, ty : Types \cup {""},
                   phi : Values \cup {NoValue}, got : Seq(Values),
                   rest : Seq([x : Vars, phi : Values])])
=============================================================================
