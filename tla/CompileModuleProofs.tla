------------------------- MODULE CompileModuleProofs -------------------------
(***************************************************************************)
(* What compile_module establishes for every module, register file, region *)
(* size and stack base.  The inductive invariant says where in owned the   *)
(* code of each function lowered so far lies, and that each block resolved *)
(* so far leads to where its pending terminator meant.                     *)
(***************************************************************************)
EXTENDS CompileModule, SequenceTheorems, WellFoundedInduction, TLAPS

Names == {module[i].name : i \in DOMAIN module}
Terms == UNION {{module[i].code[k] : k \in DOMAIN module[i].code} : i \in DOMAIN module}
Pendings == [owner : Names, term : Terms]
ProgramBlocks == [owner : Names \cup {"init"}, op : Ops,
                  at : {t.at : t \in Terms} \cup {<<>>}, to : Nat]

\* The index in the finished program of the first block of function f.
Base(f) == IF phase = "compiled" THEN functionEntry[f] ELSE functionEntry[f] + 1

-----------------------------------------------------------------------------
(* The parts of the inductive invariant.                                   *)

TypesHold ==
  /\ module \in Modules
  /\ CompileTypeOK
  /\ owned \in Seq(Pendings)
  /\ blocks \in Seq(ProgramBlocks)

\* How far each phase has come; the functions lowered are those with a region.
Progress ==
  /\ Len(regions) <= Len(module)
  /\ phase \in {"check", "TooManyFunctions"} => regions = <<>>
  /\ phase = "check" => owned = <<>> /\ functionEntry = <<>> /\ turn = 1
  /\ phase \in {"check", "lower"} => blocks = <<>>
  /\ phase = "lower" => turn = Len(regions) + 1
  /\ phase \in {"resolve", "compiled"} => Len(regions) = Len(module)
  /\ phase = "resolve" => Len(blocks) = turn - 1 /\ turn <= Len(owned) + 1
  /\ phase = "compiled" => Len(blocks) = Len(owned) + 1

LaidOut ==
  /\ phase \notin {"check", "TooManyFunctions"} => Len(module) * RegionBytes <= StackBase
  /\ \A i \in DOMAIN regions :
       /\ regions[i].base = (i - 1) * RegionBytes
       /\ regions[i].end  = (i - 1) * RegionBytes + RegionBytes

FewParameters ==
  /\ phase \notin {"check", "TooManyFunctions"} => reserved = LargestArity % ByteRange
  /\ \A i \in DOMAIN regions : Len(module[i].params) <= NumGpRegs

\* The code of function i lies in owned from its entry on.
Placed(i) ==
  LET f == module[i]
  IN  /\ Base(f.name) \in Nat \ {0}
      /\ Base(f.name) - 1 + Len(f.code) <= Len(owned)
      /\ localIndices[f.name] = f.local
      /\ \A k \in DOMAIN f.code :
           owned[Base(f.name) - 1 + k] = [owner |-> f.name, term |-> f.code[k]]

OfFunction(p, i) == p.owner = module[i].name
                    /\ \E k \in DOMAIN module[i].code : p.term = module[i].code[k]

\* Pending block n is one of the code of function i, in its place.
InFunction(n, i) ==
  \E k \in DOMAIN module[i].code :
    /\ n = Base(module[i].name) - 1 + k
    /\ owned[n] = [owner |-> module[i].name, term |-> module[i].code[k]]

Linked ==
  /\ DOMAIN functionEntry = {module[i].name : i \in DOMAIN regions}
  /\ \A i \in DOMAIN regions : Placed(i)
  /\ \A n \in DOMAIN owned : \E i \in DOMAIN regions : InFunction(n, i)

\* Block b is what the pending block p becomes.
Resolves(b, p) ==
  /\ b.owner = p.owner /\ b.op = p.term.op /\ b.at = p.term.at
  /\ p.term.op \in {"jmp", "jz"} => b.to = Base(p.owner) + localIndices[p.owner][p.term.to]
  /\ p.term.op = "call" => /\ p.term.callee \in DOMAIN functionEntry
                           /\ b.to = Base(p.term.callee)

Resolved ==
  /\ phase = "resolve" => \A n \in DOMAIN blocks : Resolves(blocks[n], owned[n])
  /\ phase = "compiled" =>
       /\ \A n \in DOMAIN owned : Resolves(blocks[n + 1], owned[n])
       /\ module # <<>> => blocks[1].to = functionEntry[module[1].name]
       /\ module = <<>> => blocks[1].to = 1
       /\ blocks[1].op = "jmp" /\ blocks[1].at = <<>>

IInv == TypesHold /\ Progress /\ LaidOut /\ FewParameters /\ Linked /\ Resolved

-----------------------------------------------------------------------------
(* Facts about the module and about numbers.                               *)

\* Code of c blocks from number base on, the numbers counted from 0, within len.
Within(base, c, len) == base \in Nat \ {0} /\ c \in Nat /\ len \in Nat /\ base - 1 + c <= len

LEMMA Shift ==
  ASSUME NEW base, NEW c, NEW len, Within(base, c, len), NEW k \in 1 .. c
  PROVE  /\ base - 1 + k \in 1 .. len /\ base - 1 + k + 1 = base + k
         /\ base + k - 1 \in 1 .. len /\ base + k - 1 = base - 1 + k
BY DEF Within

LEMMA ModuleFacts ==
  ASSUME module \in Modules
  PROVE  /\ Len(module) \in Nat
         /\ DOMAIN module = 1 .. Len(module)
         /\ \A i, j \in DOMAIN module : module[i].name = module[j].name => i = j
BY ModulesAssumption DEF NamesDistinct

LEMMA FunctionFacts ==
  ASSUME module \in Modules, NEW i \in DOMAIN module
  PROVE  /\ Len(module[i].params) \in Nat
         /\ Len(module[i].code) \in Nat \ {0}
         /\ DOMAIN module[i].code = 1 .. Len(module[i].code)
         /\ module[i].local \in [DOMAIN module[i].local -> 0 .. Len(module[i].code) - 1]
         /\ \A k \in DOMAIN module[i].code :
              /\ module[i].code[k].op \in Ops
              /\ module[i].code[k].op \in {"jmp", "jz"} =>
                   module[i].code[k].to \in DOMAIN module[i].local
<1> DEFINE f == module[i]
<1>1. IsLowered(f) /\ Len(f.params) \in Nat
  BY ModulesAssumption
<1>2. f.local[1] \in 0 .. Len(f.code) - 1
  BY <1>1 DEF IsLowered
<1>3. Len(f.code) # 0
  BY <1>1, <1>2 DEF IsLowered
<1> QED
  BY <1>1, <1>3 DEF IsLowered

LEMMA LeastNatural ==
  ASSUME NEW T, T \subseteq Nat, T # {}
  PROVE  \E x \in T : \A y \in T : x <= y
<1> DEFINE R == OpToRel(<, Nat)
<1>1. IsWellFoundedOn(R, Nat)
  BY NatLessThanWellFounded
<1> HIDE DEF R
<1>2. PICK x \in T : \A y \in T : <<y, x>> \notin R
  BY <1>1, WFMin
<1>3. \A y \in T : ~(y < x)
  BY <1>2 DEF R, OpToRel
<1> QED
  BY <1>3

\* Regions neither overlap nor pass the end of the last one.
LEMMA Multiples ==
  ASSUME NEW a \in Nat, NEW b \in Nat, a <= b
  PROVE  a * RegionBytes <= b * RegionBytes /\ a * RegionBytes \in Nat
<1>1. RegionBytes \in Nat
  BY LayoutAssumption
<1> QED
  BY <1>1

LEMMA LargestArityIsLargest ==
  ASSUME module \in Modules
  PROVE  /\ LargestArity \in Nat
         /\ LargestArity = 0 \/ \E i \in DOMAIN module : LargestArity = Len(module[i].params)
         /\ \A i \in DOMAIN module : Len(module[i].params) <= LargestArity
<1> DEFINE arity(i) == Len(module[i].params)
           UpTo(n) == {0} \cup {arity(i) : i \in 1 .. n}
           Largest(n) == \E a \in UpTo(n) : \A c \in UpTo(n) : c <= a
           T == {n \in 0 .. Len(module) : ~Largest(n)}
<1>1. Len(module) \in Nat /\ DOMAIN module = 1 .. Len(module)
  BY ModuleFacts
<1>2. \A i \in DOMAIN module : arity(i) \in Nat
  BY FunctionFacts
<1>3. T = {}
  <2>a. T \subseteq Nat /\ \A n \in 0 .. Len(module) : n \notin T <=> Largest(n)
    BY <1>1
  <2>b. T \subseteq 0 .. Len(module)
    OBVIOUS
  <2> HIDE DEF T, Largest
  <2> SUFFICES ASSUME T # {} PROVE FALSE
    OBVIOUS
  <2>1. PICK n \in T : \A k \in T : n <= k
    BY <2>a, LeastNatural
  <2>2. n # 0
    <3>1. Largest(0)
      BY DEF Largest
    <3> QED
      BY <1>1, <2>a, <3>1
  <2>3. n - 1 \in 0 .. Len(module) /\ n \in DOMAIN module /\ n \in Nat
    BY <1>1, <2>a, <2>b, <2>2
  <2>c. n - 1 \notin T
    BY <2>1, <2>3
  <2>d. Largest(n - 1)
    BY <2>a, <2>3, <2>c
  <2>4. PICK a \in UpTo(n - 1) : \A c \in UpTo(n - 1) : c <= a
    BY <2>d DEF Largest
  <2>5. UpTo(n) = UpTo(n - 1) \cup {arity(n)}
    BY <1>1, <2>3
  <2>6. a \in Nat /\ arity(n) \in Nat
    BY <1>1, <1>2, <2>3
  <2>7. ASSUME arity(n) <= a PROVE \A c \in UpTo(n) : c <= a
    BY <2>4, <2>5, <2>7
  <2>8. ASSUME a <= arity(n) PROVE \A c \in UpTo(n) : c <= arity(n)
    <3>1. \A c \in UpTo(n - 1) : c \in Nat
      BY <1>1, <1>2, <2>3
    <3> QED
      BY <2>4, <2>5, <2>6, <2>8, <3>1
  <2>9. a \in UpTo(n) /\ arity(n) \in UpTo(n) /\ (arity(n) <= a \/ a <= arity(n))
    BY <2>5, <2>4, <2>6
  <2> HIDE DEF UpTo, arity
  <2>10. Largest(n)
    BY <2>7, <2>8, <2>9 DEF Largest
  <2> QED
    BY <2>a, <2>b, <2>10
<1>4. Largest(Len(module))
  <2>1. Len(module) \in 0 .. Len(module)
    BY <1>1
  <2>2. Len(module) \notin T
    BY <1>3
  <2> HIDE DEF Largest
  <2> QED
    BY <2>1, <2>2
<1>5. UpTo(Len(module)) = Arities
  BY <1>1 DEF Arities
<1>6. LargestArity \in Arities /\ \A c \in Arities : c <= LargestArity
  BY <1>4, <1>5 DEF LargestArity
<1> QED
  BY <1>2, <1>6 DEF Arities

-----------------------------------------------------------------------------
(* The initial states.                                                     *)

LEMMA InitIInv ==
  ASSUME CompileInit
  PROVE  IInv
<1> USE DEF CompileInit
<1>1. Len(module) \in Nat
  BY ModuleFacts
<1>2. TypesHold
  BY LayoutAssumption, EmptySeq DEF TypesHold, CompileTypeOK
<1>3. Progress
  BY <1>1, EmptySeq DEF Progress
<1>4. LaidOut /\ FewParameters /\ Resolved
  BY DEF LaidOut, FewParameters, Resolved
<1>5. Linked
  BY DEF Linked
<1> QED
  BY <1>2, <1>3, <1>4, <1>5 DEF IInv

-----------------------------------------------------------------------------
(* Each action keeps the invariant.                                        *)

LEMMA SetsFixed ==
  ASSUME UNCHANGED module
  PROVE  /\ Pendings' = Pendings /\ ProgramBlocks' = ProgramBlocks
         /\ LargestArity' = LargestArity
BY DEF Pendings, ProgramBlocks, Names, Terms, LargestArity, Arities

\* What has been lowered stays where it is, when the table of entries changes
\* at most to count the block in front.
LEMMA LinkedMoves ==
  ASSUME Linked, UNCHANGED <<module, regions, owned, localIndices>>,
         DOMAIN functionEntry' = DOMAIN functionEntry,
         \A f \in DOMAIN functionEntry : Base(f)' = Base(f)
  PROVE  Linked'
<1>1. \A i \in DOMAIN regions : Base(module[i].name)' = Base(module[i].name)
  BY DEF Linked
<1>2. \A i \in DOMAIN regions : Placed(i)'
  BY <1>1 DEF Linked, Placed
<1>3. \A n \in DOMAIN owned : \E i \in DOMAIN regions : InFunction(n, i)'
  <2> SUFFICES ASSUME NEW n \in DOMAIN owned
               PROVE  \E i \in DOMAIN regions : InFunction(n, i)'
    OBVIOUS
  <2>1. PICK i \in DOMAIN regions : InFunction(n, i)
    BY DEF Linked
  <2>2. InFunction(n, i)'
    BY <1>1, <2>1 DEF InFunction
  <2> QED
    BY <2>2
<1> QED
  BY <1>2, <1>3 DEF Linked

LEMMA LinkedStays ==
  ASSUME Linked, phase # "compiled", phase' # "compiled",
         UNCHANGED <<module, regions, owned, functionEntry, localIndices>>
  PROVE  Linked'
BY LinkedMoves DEF Base

\* An error changes nothing but the phase.
LEMMA ErrorKeepsIInv ==
  ASSUME IInv, phase \in {"lower", "resolve"}, phase' \in CompileErrors \ {"TooManyFunctions"},
         UNCHANGED <<module, turn, reserved, regions, owned, functionEntry, localIndices, blocks>>
  PROVE  IInv'
<1> USE DEF IInv, CompileErrors
<1>1. TypesHold'
  <2>1. CompileTypeOK'
    BY DEF TypesHold, CompileTypeOK
  <2> QED
    BY <2>1, SetsFixed DEF TypesHold
<1>2. Progress'
  BY DEF Progress
<1>3. LaidOut'
  BY DEF LaidOut
<1>4. FewParameters'
  BY SetsFixed DEF FewParameters
<1>5. Linked'
  BY LinkedStays
<1>6. Resolved'
  BY DEF Resolved
<1> QED
  BY <1>1, <1>2, <1>3, <1>4, <1>5, <1>6

LEMMA CheckLayoutKeepsIInv ==
  ASSUME IInv, CheckLayout
  PROVE  IInv'
<1> USE DEF IInv, CheckLayout
<1>1. module \in Modules /\ Len(module) \in Nat
  BY ModuleFacts DEF TypesHold
<1>2. LargestArity % ByteRange \in 0 .. ByteRange - 1
  BY <1>1, LargestArityIsLargest, LayoutAssumption
<1>3. TypesHold'
  <2>1. CompileTypeOK'
    BY <1>2 DEF TypesHold, CompileTypeOK, CompileErrors
  <2> QED
    BY <2>1, SetsFixed DEF TypesHold
<1>4. Progress'
  BY <1>1 DEF Progress
<1>5. LaidOut'
  BY <1>1, LayoutAssumption DEF LaidOut, Progress
<1>6. FewParameters'
  BY SetsFixed DEF FewParameters
<1>7. Linked' /\ Resolved'
  BY DEF Linked, Placed, Base, InFunction, Progress, Resolved
<1> QED
  BY <1>3, <1>4, <1>5, <1>6, <1>7

\* A finite function from 1 on is a sequence.
LEMMA SequenceOf ==
  ASSUME NEW S, NEW n \in Nat, NEW f \in [1 .. n -> S]
  PROVE  f \in Seq(S) /\ Len(f) = n
OBVIOUS

LEMMA LowerFunctionKeepsIInv ==
  ASSUME IInv, LowerFunction
  PROVE  IInv'
<1> USE DEF IInv
<1> PICK i : i = turn
  OBVIOUS
<1> DEFINE f == module[i]
           new == [k \in DOMAIN f.code |-> [owner |-> f.name, term |-> f.code[k]]]
<1>1. /\ phase = "lower" /\ phase' = "lower" /\ i \in DOMAIN module
      /\ Len(f.params) <= NumGpRegs
      /\ regions' = Append(regions, [base |-> (i - 1) * RegionBytes,
                                     end  |-> (i - 1) * RegionBytes + RegionBytes])
      /\ functionEntry' = Put(functionEntry, f.name, Len(owned))
      /\ owned' = owned \o new
      /\ localIndices' = Put(localIndices, f.name, f.local)
      /\ turn' = turn + 1
      /\ UNCHANGED <<module, reserved, blocks>>
  BY DEF LowerFunction, Current
<1>a. module' = module
  BY <1>1
<1>2. /\ module \in Modules /\ CompileTypeOK /\ owned \in Seq(Pendings)
      /\ DOMAIN module = 1 .. Len(module) /\ Len(module) \in Nat
      /\ \A j, k \in DOMAIN module : module[j].name = module[k].name => j = k
  BY ModuleFacts DEF TypesHold
<1>3. /\ Len(f.code) \in Nat \ {0} /\ DOMAIN f.code = 1 .. Len(f.code)
  BY <1>1, <1>2, FunctionFacts
<1>4. /\ regions \in Seq([base : Nat, end : Nat]) /\ Len(regions) \in Nat
      /\ DOMAIN regions = 1 .. Len(regions) /\ Len(regions) <= Len(module)
      /\ i = Len(regions) + 1
  BY <1>1, <1>2, LenProperties DEF CompileTypeOK, Progress
<1>5. new \in Seq(Pendings) /\ Len(new) = Len(f.code)
  <2>1. f.name \in Names /\ \A k \in DOMAIN f.code : f.code[k] \in Terms
    BY <1>1 DEF Names, Terms
  <2>2. new \in [1 .. Len(f.code) -> Pendings]
    BY <1>3, <2>1 DEF Pendings
  <2> QED
    BY <1>3, <2>2, SequenceOf
<1>6. /\ Len(owned) \in Nat /\ owned' \in Seq(Pendings)
      /\ Len(owned') = Len(owned) + Len(f.code)
      /\ \A n \in 1 .. Len(owned) : owned'[n] = owned[n]
      /\ \A k \in 1 .. Len(f.code) : owned'[Len(owned) + k] = new[k]
  <2> HIDE DEF new
  <2>1. Len(owned) \in Nat
    BY <1>2, LenProperties
  <2>2. \A n \in 1 .. Len(owned) + Len(new) :
          owned'[n] = IF n <= Len(owned) THEN owned[n] ELSE new[n - Len(owned)]
    BY <1>1, <1>2, <1>5, ConcatProperties
  <2>3. \A k \in 1 .. Len(f.code) : owned'[Len(owned) + k] = new[k]
    <3> TAKE k \in 1 .. Len(f.code)
    <3>1. /\ Len(owned) + k \in 1 .. Len(owned) + Len(new) /\ ~(Len(owned) + k <= Len(owned))
          /\ (Len(owned) + k) - Len(owned) = k
      BY <1>3, <1>5, <2>1
    <3> QED
      BY <2>2, <3>1
  <2>4. \A n \in 1 .. Len(owned) : owned'[n] = owned[n]
    BY <1>3, <1>5, <2>1, <2>2
  <2>5. owned' = owned \o new /\ owned \in Seq(Pendings)
    BY <1>1, <1>2
  <2>6. owned' \in Seq(Pendings) /\ Len(owned') = Len(owned) + Len(f.code)
    <3>1. owned \o new \in Seq(Pendings)
      BY <1>5, <2>5
    <3>2. Len(owned \o new) = Len(owned) + Len(new)
      BY <1>5, <2>5, ConcatProperties, Zenon
    <3> QED
      BY <1>5, <2>5, <3>1, <3>2
  <2> QED
    BY <2>1, <2>3, <2>4, <2>6
<1>7. /\ regions' \in Seq([base : Nat, end : Nat]) /\ Len(regions') = i
      /\ DOMAIN regions' = 1 .. i
      /\ \A j \in DOMAIN regions : regions'[j] = regions[j]
      /\ regions'[i] = [base |-> (i - 1) * RegionBytes,
                        end  |-> (i - 1) * RegionBytes + RegionBytes]
  <2> DEFINE r == [base |-> (i - 1) * RegionBytes,
                   end  |-> (i - 1) * RegionBytes + RegionBytes]
  <2>1. (i - 1) * RegionBytes \in Nat /\ RegionBytes \in Nat
    BY <1>4, Multiples, LayoutAssumption
  <2>2. r \in [base : Nat, end : Nat]
    BY <2>1
  <2> HIDE DEF r
  <2> QED
    BY <1>1, <1>4, <2>2, AppendProperties, LenProperties DEF r
<1>8. /\ DOMAIN functionEntry' = DOMAIN functionEntry \cup {f.name}
      /\ DOMAIN localIndices' = DOMAIN localIndices \cup {f.name}
      /\ functionEntry'[f.name] = Len(owned) /\ localIndices'[f.name] = f.local
      /\ \A g \in DOMAIN functionEntry \ {f.name} : functionEntry'[g] = functionEntry[g]
      /\ \A g \in DOMAIN localIndices \ {f.name} : localIndices'[g] = localIndices[g]
  BY <1>1 DEF Put
<1>9. TypesHold'
  <2>1. CompileTypeOK'
    <3>1. \A g \in DOMAIN functionEntry' : functionEntry'[g] \in Nat
      BY <1>2, <1>6, <1>8 DEF CompileTypeOK
    <3>2. DOMAIN functionEntry' = DOMAIN localIndices'
      BY <1>2, <1>8 DEF CompileTypeOK
    <3>3. turn' \in Nat \ {0} /\ Len(owned') \in Nat /\ Len(blocks') \in Nat
      BY <1>1, <1>2, <1>3, <1>6 DEF CompileTypeOK
    <3>4. reserved' \in 0 .. ByteRange - 1 /\ phase' = "lower"
      BY <1>1, <1>2 DEF CompileTypeOK
    <3> QED
      BY <1>7, <3>1, <3>2, <3>3, <3>4 DEF CompileTypeOK
  <2> QED
    BY <1>1, <1>6, <2>1, SetsFixed DEF TypesHold
<1>10. Progress'
  BY <1>1, <1>2, <1>4, <1>7 DEF Progress
<1>11. LaidOut'
  <2>1. \A j \in DOMAIN regions' : /\ regions'[j].base = (j - 1) * RegionBytes
                                   /\ regions'[j].end = (j - 1) * RegionBytes + RegionBytes
    <3> TAKE j \in DOMAIN regions'
    <3>1. CASE j \in DOMAIN regions
      BY <1>7, <3>1 DEF LaidOut
    <3>2. CASE j = i
      BY <1>7, <3>2
    <3> QED
      BY <1>4, <1>7, <3>1, <3>2
  <2> QED
    BY <1>1, <2>1 DEF LaidOut
<1>12. FewParameters'
  BY <1>1, <1>4, <1>7, SetsFixed DEF FewParameters
<1>13. Linked'
  <2>1. DOMAIN functionEntry' = {module'[j].name : j \in DOMAIN regions'}
    <3>1. DOMAIN regions' = DOMAIN regions \cup {i}
      BY <1>4, <1>7
    <3>2. DOMAIN functionEntry = {module[j].name : j \in DOMAIN regions}
      BY DEF Linked
    <3>3. DOMAIN functionEntry' = {module[j].name : j \in DOMAIN regions} \cup {module[i].name}
      BY <1>8, <3>2, Zenon
    <3>4. @ = {module[j].name : j \in DOMAIN regions \cup {i}}
      OBVIOUS
    <3>5. module' = module
      BY <1>1
    <3> QED
      BY <3>1, <3>3, <3>4, <3>5, Zenon
  <2>2. ASSUME NEW j \in DOMAIN regions'
        PROVE  Placed(j)'
    <3>1. CASE j = i
      <4>1. Base(f.name)' - 1 = Len(owned) /\ Base(f.name)' \in Nat \ {0}
        BY <1>1, <1>6, <1>8 DEF Base
      <4>2. \A k \in DOMAIN f.code : new[k] = [owner |-> f.name, term |-> f.code[k]]
        OBVIOUS
      <4>3. \A k \in DOMAIN f.code : owned'[Len(owned) + k] = [owner |-> f.name, term |-> f.code[k]]
        BY <1>3, <1>6, <4>2
      <4>4. Len(owned) + Len(f.code) <= Len(owned') /\ localIndices'[f.name] = f.local
        BY <1>3, <1>6, <1>8
      <4> HIDE DEF new
      <4> QED
        BY <1>a, <3>1, <4>1, <4>3, <4>4 DEF Placed
    <3>2. CASE j \in DOMAIN regions
      <4> DEFINE g == module[j]
      <4>1. Placed(j)
        BY <3>2 DEF Linked
      <4>2. j # i /\ j \in DOMAIN module /\ g.name # f.name
        BY <1>1, <1>2, <1>4, <3>2
      <4>3. g.name \in DOMAIN functionEntry /\ g.name \in DOMAIN localIndices
        BY <1>2, <3>2 DEF Linked, CompileTypeOK
      <4>4. Base(g.name)' = Base(g.name) /\ localIndices'[g.name] = localIndices[g.name]
        BY <1>1, <1>8, <4>2, <4>3 DEF Base
      <4>5. DOMAIN g.code = 1 .. Len(g.code) /\ Len(g.code) \in Nat
        BY <1>2, <4>2, FunctionFacts
      <4>6. \A k \in DOMAIN g.code : Base(g.name) - 1 + k \in 1 .. Len(owned)
        <5>1. Within(Base(g.name), Len(g.code), Len(owned))
          BY <1>6, <4>1, <4>5, Zenon DEF Placed, Within
        <5> QED
          BY <4>5, <5>1, Shift, Zenon
      <4> HIDE DEF new
      <4>7. \A k \in DOMAIN g.code : owned'[Base(g.name) - 1 + k] = owned[Base(g.name) - 1 + k]
        <5>1. \A n \in 1 .. Len(owned) : owned'[n] = owned[n]
          BY <1>6, Zenon
        <5> QED
          BY <4>6, <5>1, Zenon
      <4>8. Base(g.name) - 1 + Len(g.code) <= Len(owned')
        <5>1. Base(g.name) \in Nat /\ Base(g.name) - 1 + Len(g.code) <= Len(owned)
          BY <4>1 DEF Placed
        <5>2. Len(owned) \in Nat /\ Len(f.code) \in Nat /\ Len(owned') = Len(owned) + Len(f.code)
          BY <1>3, <1>6
        <5> HIDE DEF g, f
        <5> QED
          BY <4>5, <5>1, <5>2
      <4> QED
        BY <1>1, <4>1, <4>4, <4>7, <4>8 DEF Placed
    <3> QED
      BY <1>4, <1>7, <3>1, <3>2
  <2>3. ASSUME NEW n \in DOMAIN owned'
        PROVE  \E j \in DOMAIN regions' : InFunction(n, j)'
    <3>0. DOMAIN owned' = 1 .. Len(owned) + Len(f.code)
      BY <1>6, LenProperties
    <3>1. CASE n <= Len(owned)
      <4>1. n \in DOMAIN owned /\ owned'[n] = owned[n]
        BY <1>2, <1>6, <3>0, <3>1, LenProperties
      <4>2. PICK j \in DOMAIN regions : InFunction(n, j)
        BY <4>1 DEF Linked
      <4>3. j # i /\ j \in DOMAIN module /\ module[j].name # f.name
        <5>1. j # i /\ j \in DOMAIN module /\ i \in DOMAIN module
          BY <1>1, <1>2, <1>4, SMTT(60)
        <5> QED
          BY <1>2, <5>1, Zenon
      <4>4. module[j].name \in DOMAIN functionEntry
        BY <1>2, <4>2 DEF Linked
      <4>5. Base(module[j].name)' = Base(module[j].name)
        BY <1>1, <1>8, <4>3, <4>4 DEF Base
      <4>6. InFunction(n, j)'
        BY <1>a, <4>1, <4>2, <4>5 DEF InFunction
      <4> QED
        BY <1>4, <1>7, <4>6
    <3>2. CASE ~(n <= Len(owned))
      <4> DEFINE k == n - Len(owned)
      <4>1. k \in 1 .. Len(f.code) /\ n = Len(owned) + k
        BY <1>3, <1>6, <3>0, <3>2
      <4>2. owned'[n] = [owner |-> f.name, term |-> f.code[k]]
        BY <1>3, <1>6, <4>1
      <4> HIDE DEF new, k
      <4>3. i \in DOMAIN regions'
        BY <1>4, <1>7
      <4>4. Base(f.name)' - 1 = Len(owned) /\ k \in DOMAIN f.code
        BY <1>1, <1>2, <1>3, <1>8, <4>1 DEF Base
      <4>5. InFunction(n, i)'
        BY <1>a, <4>1, <4>2, <4>4 DEF InFunction
      <4> QED
        BY <4>3, <4>5
    <3> QED
      BY <3>1, <3>2
  <2> QED
    BY <2>1, <2>2, <2>3 DEF Linked
<1>14. Resolved'
  BY <1>1 DEF Resolved
<1> QED
  BY <1>9, <1>10, <1>11, <1>12, <1>13, <1>14

LEMMA BeginResolvingKeepsIInv ==
  ASSUME IInv, BeginResolving
  PROVE  IInv'
<1> USE DEF IInv, BeginResolving
<1>1. /\ Len(module) \in Nat /\ DOMAIN module = 1 .. Len(module)
      /\ Len(regions) \in Nat /\ Len(owned) \in Nat
  BY ModuleFacts, LenProperties DEF TypesHold, CompileTypeOK
<1>2. Len(regions) = Len(module)
  BY <1>1 DEF Progress
<1>3. TypesHold'
  <2>1. CompileTypeOK'
    BY DEF TypesHold, CompileTypeOK
  <2> QED
    BY <2>1, SetsFixed DEF TypesHold
<1>4. Progress'
  BY <1>1, <1>2, EmptySeq DEF Progress
<1>5. LaidOut' /\ FewParameters'
  BY SetsFixed DEF LaidOut, FewParameters
<1>6. Linked'
  BY LinkedStays
<1>7. Resolved'
  BY DEF Resolved, Progress
<1> QED
  BY <1>3, <1>4, <1>5, <1>6, <1>7

\* A block is added that is what its pending block must become.
LEMMA AddBlockKeepsIInv ==
  ASSUME IInv, phase = "resolve", turn \in DOMAIN owned, NEW target \in Nat, AddBlock(target),
         Resolves([owner |-> owned[turn].owner, op |-> owned[turn].term.op,
                   to |-> target, at |-> owned[turn].term.at], owned[turn])
  PROVE  IInv'
<1> USE DEF IInv
<1> DEFINE p == owned[turn]
           b == [owner |-> p.owner, op |-> p.term.op, to |-> target, at |-> p.term.at]
<1>1. /\ blocks' = Append(blocks, b) /\ turn' = turn + 1
      /\ UNCHANGED <<module, phase, reserved, regions, owned, functionEntry, localIndices>>
  BY DEF AddBlock
<1>2. module \in Modules /\ CompileTypeOK
  BY DEF TypesHold
<1>3. PICK i \in DOMAIN regions : OfFunction(p, i)
  BY DEF Linked, InFunction, OfFunction
<1>4. i \in DOMAIN module
  BY <1>2, LenProperties, ModuleFacts DEF Progress, CompileTypeOK
<1>5. PICK k \in DOMAIN module[i].code : p.owner = module[i].name /\ p.term = module[i].code[k]
  BY <1>3 DEF OfFunction
<1>6. b \in ProgramBlocks
  <2>1. p.owner \in Names /\ p.term \in Terms
    BY <1>4, <1>5 DEF Names, Terms
  <2>2. p.term.op \in Ops
    BY <1>2, <1>4, <1>5, FunctionFacts
  <2> QED
    BY <2>1, <2>2 DEF ProgramBlocks
<1> HIDE DEF b
<1>7. blocks \in Seq(ProgramBlocks) /\ Len(blocks) \in Nat /\ Len(blocks) = turn - 1
  BY LenProperties DEF TypesHold, Progress
<1>8. /\ blocks' \in Seq(ProgramBlocks) /\ Len(blocks') = turn
      /\ \A n \in 1 .. turn - 1 : blocks'[n] = blocks[n]
      /\ blocks'[turn] = b
  <2>1. /\ Append(blocks, b) \in Seq(ProgramBlocks)
        /\ Len(Append(blocks, b)) = Len(blocks) + 1
        /\ \A n \in 1 .. Len(blocks) : Append(blocks, b)[n] = blocks[n]
        /\ Append(blocks, b)[Len(blocks) + 1] = b
    BY <1>6, <1>7, AppendProperties
  <2>2. Len(blocks) + 1 = turn /\ Len(blocks) = turn - 1
    BY <1>2, <1>7 DEF CompileTypeOK
  <2> QED
    BY <1>1, <2>1, <2>2
<1>9. TypesHold'
  <2>1. CompileTypeOK'
    BY <1>1, <1>2, <1>8 DEF CompileTypeOK
  <2> QED
    BY <1>1, <1>8, <2>1, SetsFixed DEF TypesHold
<1>10. Progress'
  <2>1. turn \in Nat /\ Len(owned) \in Nat /\ turn <= Len(owned)
    BY <1>2, LenProperties DEF TypesHold, CompileTypeOK
  <2> QED
    BY <1>1, <1>8, <2>1 DEF Progress
<1>11. LaidOut' /\ FewParameters'
  BY <1>1, SetsFixed DEF LaidOut, FewParameters
<1>12. Linked'
  BY <1>1, LinkedStays
<1>13. Resolved'
  <2> SUFFICES ASSUME NEW n \in DOMAIN blocks'
               PROVE  Resolves(blocks[n], owned[n])'
    BY <1>1 DEF Resolved
  <2>1. n \in 1 .. turn - 1 \/ n = turn
    BY <1>2, <1>8, LenProperties DEF CompileTypeOK
  <2>2. CASE n = turn
    BY <1>1, <1>8, <2>2 DEF Resolves, Base, b
  <2>3. CASE n \in 1 .. turn - 1
    <3>1. Resolves(blocks[n], owned[n])
      BY <1>7, <2>3, LenProperties DEF Resolved
    <3> QED
      BY <1>1, <1>8, <2>3, <3>1 DEF Resolves, Base
  <2> QED
    BY <2>1, <2>2, <2>3
<1> QED
  BY <1>9, <1>10, <1>11, <1>12, <1>13

\* Where the pending block that the loop has reached comes from.
LEMMA PendingFacts ==
  ASSUME IInv, phase = "resolve", NEW n \in DOMAIN owned
  PROVE  \E i \in DOMAIN module :
           /\ i \in DOMAIN regions /\ owned[n].owner = module[i].name
           /\ functionEntry[module[i].name] \in Nat
           /\ localIndices[module[i].name] = module[i].local
           /\ \E k \in DOMAIN module[i].code : owned[n].term = module[i].code[k]
<1> USE DEF IInv
<1>1. PICK i \in DOMAIN regions : OfFunction(owned[n], i)
  BY DEF Linked, InFunction, OfFunction
<1>2. i \in DOMAIN module
  BY LenProperties, ModuleFacts DEF Progress, TypesHold, CompileTypeOK
<1>3. module[i].name \in DOMAIN functionEntry
  BY DEF Linked
<1>4. functionEntry[module[i].name] \in Nat
  BY <1>3 DEF TypesHold, CompileTypeOK
<1>5. localIndices[module[i].name] = module[i].local
  BY DEF Linked, Placed
<1> QED
  BY <1>1, <1>2, <1>4, <1>5 DEF OfFunction

LEMMA ResolveJumpKeepsIInv ==
  ASSUME IInv, ResolveJump
  PROVE  IInv'
<1> DEFINE p == owned[turn]
           target == 1 + functionEntry[p.owner] + localIndices[p.owner][p.term.to]
<1>1. phase = "resolve" /\ turn \in DOMAIN owned /\ p.term.op \in {"jmp", "jz"} /\ AddBlock(target)
  BY DEF ResolveJump, AtPending
<1>2. PICK i \in DOMAIN module :
        /\ p.owner = module[i].name
        /\ functionEntry[module[i].name] \in Nat
        /\ localIndices[module[i].name] = module[i].local
        /\ \E k \in DOMAIN module[i].code : p.term = module[i].code[k]
  BY <1>1, PendingFacts
<1>3. module \in Modules
  BY DEF IInv, TypesHold
<1>4. /\ p.term.to \in DOMAIN module[i].local
      /\ module[i].local \in [DOMAIN module[i].local -> 0 .. Len(module[i].code) - 1]
  BY <1>1, <1>2, <1>3, FunctionFacts
<1>5. localIndices[p.owner][p.term.to] \in Nat /\ functionEntry[p.owner] \in Nat
  BY <1>2, <1>3, <1>4, FunctionFacts
<1>6. target \in Nat /\ target = Base(p.owner) + localIndices[p.owner][p.term.to]
  BY <1>1, <1>5 DEF Base
<1> DEFINE b == [owner |-> p.owner, op |-> p.term.op, to |-> target, at |-> p.term.at]
<1>7. Resolves(b, p)
  BY <1>1, <1>6 DEF Resolves
<1> HIDE DEF target
<1> QED
  BY <1>1, <1>6, <1>7, AddBlockKeepsIInv

LEMMA ResolveCallKeepsIInv ==
  ASSUME IInv, ResolveCall
  PROVE  IInv'
<1> DEFINE p == owned[turn]
           target == 1 + functionEntry[p.term.callee]
<1>1. /\ phase = "resolve" /\ turn \in DOMAIN owned /\ p.term.op = "call"
      /\ p.term.callee \in DOMAIN functionEntry /\ AddBlock(target)
  BY DEF ResolveCall, AtPending
<1>2. functionEntry[p.term.callee] \in Nat
  BY <1>1 DEF IInv, TypesHold, CompileTypeOK
<1>3. target \in Nat /\ target = Base(p.term.callee)
  BY <1>1, <1>2 DEF Base
<1> DEFINE b == [owner |-> p.owner, op |-> p.term.op, to |-> target, at |-> p.term.at]
<1>4. Resolves(b, p)
  BY <1>1, <1>3 DEF Resolves
<1> HIDE DEF target
<1> QED
  BY <1>1, <1>3, <1>4, AddBlockKeepsIInv

LEMMA ResolveReturnKeepsIInv ==
  ASSUME IInv, ResolveReturn
  PROVE  IInv'
<1> DEFINE p == owned[turn]
           b == [owner |-> p.owner, op |-> p.term.op, to |-> 0, at |-> p.term.at]
<1>1. phase = "resolve" /\ turn \in DOMAIN owned /\ p.term.op = "ret" /\ AddBlock(0)
  BY DEF ResolveReturn, AtPending
<1>2. Resolves(b, p)
  BY <1>1 DEF Resolves
<1> QED
  BY <1>1, <1>2, AddBlockKeepsIInv

LEMMA PrependInitKeepsIInv ==
  ASSUME IInv, PrependInit
  PROVE  IInv'
<1> USE DEF IInv
<1> DEFINE init == [owner |-> "init", op |-> "jmp", at |-> <<>>,
                    to |-> IF module = <<>> THEN 1 ELSE functionEntry'[module[1].name]]
<1>1. /\ phase = "resolve" /\ turn \notin DOMAIN owned /\ phase' = "compiled"
      /\ functionEntry' = [f \in DOMAIN functionEntry |-> functionEntry[f] + 1]
      /\ blocks' = <<init>> \o blocks
      /\ UNCHANGED <<module, turn, reserved, regions, owned, localIndices>>
  BY DEF PrependInit
<1>2. /\ module \in Modules /\ CompileTypeOK
      /\ Len(module) \in Nat /\ DOMAIN module = 1 .. Len(module)
      /\ Len(regions) = Len(module) /\ DOMAIN regions = DOMAIN module
  BY <1>1, ModuleFacts, LenProperties DEF TypesHold, Progress, CompileTypeOK
<1>3. /\ blocks \in Seq(ProgramBlocks) /\ Len(blocks) \in Nat
      /\ Len(owned) \in Nat /\ DOMAIN owned = 1 .. Len(owned)
      /\ Len(blocks) = Len(owned)
  BY <1>1, <1>2, LenProperties DEF TypesHold, Progress, CompileTypeOK
<1>4. /\ DOMAIN functionEntry' = DOMAIN functionEntry
      /\ \A f \in DOMAIN functionEntry : functionEntry'[f] = functionEntry[f] + 1
                                         /\ functionEntry'[f] \in Nat
  BY <1>1, <1>2 DEF CompileTypeOK
<1>5. init \in ProgramBlocks
  <2>1. CASE module = <<>>
    BY <2>1 DEF ProgramBlocks, Ops
  <2>2. CASE module # <<>>
    <3>1. Len(module) # 0
      <4>1. CASE Len(module) = 0
        BY <1>2, <2>2, <4>1, ModulesAssumption
      <4> QED
        BY <4>1
    <3>2. module[1].name \in DOMAIN functionEntry
      BY <1>2, <3>1 DEF Linked
    <3> QED
      BY <1>4, <2>2, <3>2 DEF ProgramBlocks, Ops
  <2> QED
    BY <2>1, <2>2
<1>6. /\ blocks' \in Seq(ProgramBlocks) /\ Len(blocks') = Len(blocks) + 1
      /\ blocks'[1] = init
      /\ \A n \in 1 .. Len(blocks) : blocks'[n + 1] = blocks[n]
  <2> HIDE DEF init
  <2>1. <<init>> \in Seq(ProgramBlocks) /\ Len(<<init>>) = 1 /\ <<init>>[1] = init
    BY <1>5
  <2>2. /\ <<init>> \o blocks \in Seq(ProgramBlocks)
        /\ Len(<<init>> \o blocks) = 1 + Len(blocks)
        /\ \A n \in 1 .. 1 + Len(blocks) :
             (<<init>> \o blocks)[n] = IF n <= 1 THEN <<init>>[n] ELSE blocks[n - 1]
    BY <1>3, <2>1, ConcatProperties
  <2>3. \A n \in 1 .. Len(blocks) : n + 1 \in 1 .. 1 + Len(blocks) /\ ~(n + 1 <= 1)
                                    /\ (n + 1) - 1 = n
    BY <1>3
  <2> QED
    BY <1>1, <1>3, <2>1, <2>2, <2>3
<1>7. TypesHold'
  <2>1. CompileTypeOK'
    BY <1>1, <1>2, <1>3, <1>4, <1>6 DEF CompileTypeOK
  <2> QED
    BY <1>1, <1>6, <2>1, SetsFixed DEF TypesHold
<1>8. Progress'
  BY <1>1, <1>2, <1>3, <1>6 DEF Progress
<1>9. LaidOut' /\ FewParameters'
  BY <1>1, SetsFixed DEF LaidOut, FewParameters
<1>10. \A f \in DOMAIN functionEntry : Base(f)' = Base(f)
  BY <1>1, <1>4 DEF Base
<1>11. Linked'
  BY <1>1, <1>4, <1>10, LinkedMoves
<1>12. Resolved'
  <2>1. ASSUME NEW n \in DOMAIN owned
        PROVE  Resolves(blocks[n + 1], owned[n])'
    <3>1. Resolves(blocks[n], owned[n]) /\ blocks'[n + 1] = blocks[n]
      BY <1>1, <1>3, <1>6, LenProperties DEF Resolved
    <3>2. owned[n].owner \in DOMAIN functionEntry
      BY <1>1, <1>2, PendingFacts DEF Linked
    <3>3. Base(owned[n].owner)' = Base(owned[n].owner)
      BY <1>1, <1>10, <3>2
    <3>4. owned[n].term.callee \in DOMAIN functionEntry =>
            Base(owned[n].term.callee)' = Base(owned[n].term.callee)
      BY <1>1, <1>10
    <3> QED
      BY <1>1, <1>4, <3>1, <3>3, <3>4 DEF Resolves
  <2>2. module # <<>> => blocks'[1].to = functionEntry'[module[1].name]
    BY <1>6
  <2>3. blocks'[1].op = "jmp" /\ blocks'[1].at = <<>>
    BY <1>6
  <2>4. module = <<>> => blocks'[1].to = 1
    BY <1>6
  <2> QED
    BY <1>1, <2>1, <2>2, <2>3, <2>4 DEF Resolved
<1> QED
  BY <1>7, <1>8, <1>9, <1>11, <1>12

LEMMA StepKeepsIInv ==
  ASSUME IInv, [CompileStep]_compileVars
  PROVE  IInv'
<1>1. CASE CheckLayout
  BY <1>1, CheckLayoutKeepsIInv
<1>2. CASE LowerFunction
  BY <1>2, LowerFunctionKeepsIInv
<1>3. CASE CannotLower
  BY <1>3, ErrorKeepsIInv DEF CannotLower, CompileErrors
<1>4. CASE BeginResolving
  BY <1>4, BeginResolvingKeepsIInv
<1>5. CASE ResolveJump
  BY <1>5, ResolveJumpKeepsIInv
<1>6. CASE ResolveCall
  BY <1>6, ResolveCallKeepsIInv
<1>7. CASE ResolveReturn
  BY <1>7, ResolveReturnKeepsIInv
<1>8. CASE UnknownCallee
  BY <1>8, ErrorKeepsIInv DEF UnknownCallee, AtPending, CompileErrors
<1>9. CASE PrependInit
  BY <1>9, PrependInitKeepsIInv
<1>10. CASE UNCHANGED compileVars
  <2>1. UNCHANGED <<module, phase, turn, reserved, regions, owned, functionEntry,
                    localIndices, blocks>>
    BY <1>10 DEF compileVars
  <2>2. TypesHold'
    <3>1. CompileTypeOK'
      BY <2>1 DEF IInv, TypesHold, CompileTypeOK
    <3> QED
      BY <2>1, <3>1, SetsFixed DEF IInv, TypesHold
  <2>3. Progress' /\ LaidOut' /\ FewParameters'
    BY <2>1, SetsFixed DEF IInv, Progress, LaidOut, FewParameters
  <2>4. Linked'
    BY <2>1, LinkedMoves DEF IInv, Base
  <2>5. Resolved'
    BY <2>1 DEF IInv, Resolved, Resolves, Base
  <2> QED
    BY <2>2, <2>3, <2>4, <2>5 DEF IInv
<1> QED
  BY <1>1, <1>2, <1>3, <1>4, <1>5, <1>6, <1>7, <1>8, <1>9, <1>10 DEF CompileStep

\* The inductive invariant holds in every state of every compilation.
THEOREM Inductive == CompileSpec => []IInv
<1>1. CompileInit => IInv
  BY InitIInv
<1>2. IInv /\ [CompileStep]_compileVars => IInv'
  BY StepKeepsIInv
<1> QED
  BY <1>1, <1>2, PTL DEF CompileSpec

-----------------------------------------------------------------------------
(* What it implies.                                                        *)

LEMMA RegionsAreApart ==
  ASSUME IInv
  PROVE  RegionsApart
<1> USE DEF IInv
<1>1. /\ Len(regions) \in Nat /\ DOMAIN regions = 1 .. Len(regions)
      /\ Len(module) \in Nat /\ Len(regions) <= Len(module)
      /\ RegionBytes \in Nat /\ StackBase \in Nat
  BY LenProperties, ModuleFacts, LayoutAssumption DEF TypesHold, CompileTypeOK, Progress
<1>2. \A i \in DOMAIN regions : /\ regions[i].base = (i - 1) * RegionBytes
                                /\ regions[i].end = i * RegionBytes
  <2> TAKE i \in DOMAIN regions
  <2>1. i \in Nat
    BY <1>1
  <2>2. (i - 1) * RegionBytes + RegionBytes = i * RegionBytes
    BY <1>1, <2>1
  <2> QED
    BY <2>2 DEF LaidOut
<1>3. ASSUME NEW i \in DOMAIN regions, NEW j \in DOMAIN regions, i < j
      PROVE  regions[i].end <= regions[j].base
  <2>1. i \in Nat /\ j - 1 \in Nat /\ i <= j - 1
    BY <1>1, <1>3
  <2>2. i * RegionBytes <= (j - 1) * RegionBytes
    BY <2>1, Multiples
  <2> QED
    BY <1>2, <2>2
<1>4. ASSUME NEW i \in DOMAIN regions
      PROVE  regions[i].end <= StackBase
  <2>1. i \in Nat /\ i <= Len(module) /\ regions # <<>>
    BY <1>1
  <2>2. Len(module) * RegionBytes <= StackBase
    BY <2>1 DEF LaidOut, Progress
  <2>3. i * RegionBytes <= Len(module) * RegionBytes
    BY <1>1, <2>1, Multiples
  <2>4. i * RegionBytes \in Nat /\ Len(module) * RegionBytes \in Nat
    BY <1>1, <2>1, Multiples
  <2> QED
    BY <1>1, <1>2, <2>2, <2>3, <2>4
<1> QED
  BY <1>3, <1>4 DEF RegionsApart

LEMMA ArgumentsFit ==
  ASSUME IInv
  PROVE  ArgumentsFitReserved
<1> SUFFICES ASSUME phase \in {"resolve", "compiled"}, NEW i \in DOMAIN module
             PROVE  Len(module[i].params) <= reserved
  BY DEF ArgumentsFitReserved
<1>1. module \in Modules /\ regions \in Seq([base : Nat, end : Nat])
  BY DEF IInv, TypesHold, CompileTypeOK
<1>2. DOMAIN regions = DOMAIN module
  BY <1>1, LenProperties, ModuleFacts DEF IInv, Progress
<1>3. \A j \in DOMAIN module : Len(module[j].params) <= NumGpRegs
  BY <1>2 DEF IInv, FewParameters
<1>4. LargestArity \in Nat /\ LargestArity <= NumGpRegs
  BY <1>1, <1>3, LargestArityIsLargest, LayoutAssumption
<1>5. reserved = LargestArity
  <2>1. LargestArity % ByteRange = LargestArity
    BY <1>4, LayoutAssumption
  <2> QED
    BY <2>1 DEF IInv, FewParameters
<1> QED
  BY <1>1, <1>5, LargestArityIsLargest

\* In a compiled program block Base + k, from 0 on, is made from the k-th
\* pending block of its function, counted from 0.
LEMMA BlockOfFunction ==
  ASSUME IInv, phase = "compiled", NEW i \in DOMAIN module, NEW k \in DOMAIN module[i].code
  PROVE  /\ functionEntry[module[i].name] \in Nat \ {0}
         /\ localIndices[module[i].name] = module[i].local
         /\ blocks[functionEntry[module[i].name] + k].owner = module[i].name
         /\ blocks[functionEntry[module[i].name] + k].at = module[i].code[k].at
<1> DEFINE f == module[i]
           e == functionEntry[f.name]
           n == e - 1 + k
<1>1. module \in Modules /\ regions \in Seq([base : Nat, end : Nat]) /\ owned \in Seq(Pendings)
  BY DEF IInv, TypesHold, CompileTypeOK
<1>2. i \in DOMAIN regions
  BY <1>1, LenProperties, ModuleFacts DEF IInv, Progress
<1>3. Placed(i) /\ Base(f.name) = e
  BY <1>2 DEF IInv, Linked, Base
<1>4. k \in 1 .. Len(f.code) /\ Len(f.code) \in Nat
  BY <1>1, FunctionFacts
<1>5. e \in Nat \ {0} /\ e - 1 + Len(f.code) <= Len(owned) /\ localIndices[f.name] = f.local
  BY <1>3 DEF Placed
<1>6. owned[n] = [owner |-> f.name, term |-> f.code[k]]
  BY <1>3 DEF Placed
<1>7. n \in DOMAIN owned /\ n + 1 = e + k
  <2>1. Len(owned) \in Nat /\ DOMAIN owned = 1 .. Len(owned)
    BY <1>1, LenProperties
  <2>2. Within(e, Len(f.code), Len(owned))
    BY <1>4, <1>5, <2>1, Zenon DEF Within
  <2> HIDE DEF e, f
  <2>3. e - 1 + k \in 1 .. Len(owned) /\ e - 1 + k + 1 = e + k
    BY <1>4, <2>2, Shift, Zenon
  <2> QED
    BY <2>1, <2>3, Zenon
<1>8. Resolves(blocks[n + 1], owned[n])
  BY <1>7 DEF IInv, Resolved
<1> HIDE DEF n
<1>9. blocks[n + 1].owner = f.name /\ blocks[n + 1].at = f.code[k].at
  BY <1>6, <1>8 DEF Resolves
<1> QED
  BY <1>5, <1>7, <1>9

LEMMA TargetsDoLand ==
  ASSUME IInv
  PROVE  TargetsLand
<1> SUFFICES ASSUME phase = "compiled"
             PROVE  /\ \A i \in DOMAIN module : FirstOf(module[i], functionEntry[module[i].name])
                    /\ module # <<>> => FirstOf(module[1], blocks[1].to)
                    /\ \A n \in DOMAIN owned : \A i \in DOMAIN module :
                         LET b == blocks[n + 1]
                             term == owned[n].term
                         IN  /\ b.op = "call" /\ term.callee = module[i].name =>
                                  FirstOf(module[i], b.to)
                             /\ b.op \in {"jmp", "jz"} /\ b.owner = module[i].name =>
                                  /\ blocks[b.to + 1].owner = b.owner
                                  /\ blocks[b.to + 1].at =
                                       module[i].code[module[i].local[term.to] + 1].at
  BY DEF TargetsLand
<1>1. module \in Modules
  BY DEF IInv, TypesHold
<1>2. ASSUME NEW i \in DOMAIN module
      PROVE  FirstOf(module[i], functionEntry[module[i].name])
  <2>1. 1 \in DOMAIN module[i].code
    BY <1>1, FunctionFacts
  <2> QED
    BY <2>1, BlockOfFunction DEF FirstOf
<1>3. module # <<>> => FirstOf(module[1], blocks[1].to)
  <2> SUFFICES ASSUME module # <<>> PROVE FirstOf(module[1], blocks[1].to)
    OBVIOUS
  <2>1. 1 \in DOMAIN module
    BY <1>1, ModulesAssumption
  <2>2. blocks[1].to = functionEntry[module[1].name]
    BY DEF IInv, Resolved
  <2> QED
    BY <1>2, <2>1, <2>2
<1>4. ASSUME NEW n \in DOMAIN owned, NEW i \in DOMAIN module
      PROVE  LET b == blocks[n + 1]
                 term == owned[n].term
             IN  /\ b.op = "call" /\ term.callee = module[i].name => FirstOf(module[i], b.to)
                 /\ b.op \in {"jmp", "jz"} /\ b.owner = module[i].name =>
                      /\ blocks[b.to + 1].owner = b.owner
                      /\ blocks[b.to + 1].at =
                           module[i].code[module[i].local[term.to] + 1].at
  <2> DEFINE b == blocks[n + 1]
             term == owned[n].term
             f == module[i]
  <2>1. Resolves(b, owned[n])
    BY DEF IInv, Resolved
  <2>2. ASSUME b.op = "call", term.callee = f.name
        PROVE  FirstOf(f, b.to)
    <3>1. b.to = functionEntry[f.name]
      BY <2>1, <2>2 DEF Resolves, Base
    <3> QED
      BY <1>2, <3>1
  <2>3. ASSUME b.op \in {"jmp", "jz"}, b.owner = f.name
        PROVE  /\ blocks[b.to + 1].owner = b.owner
               /\ blocks[b.to + 1].at = f.code[f.local[term.to] + 1].at
    <3>1. PICK j \in DOMAIN regions : OfFunction(owned[n], j)
      BY DEF IInv, Linked, InFunction, OfFunction
    <3>2. j \in DOMAIN module /\ j = i
      <4>1. j \in DOMAIN module
        BY <1>1, LenProperties, ModuleFacts DEF IInv, TypesHold, CompileTypeOK, Progress
      <4>2. module[j].name = module[i].name
        BY <2>1, <2>3, <3>1 DEF Resolves, OfFunction
      <4> QED
        BY <1>1, <4>1, <4>2, ModuleFacts
    <3>3. PICK k \in DOMAIN f.code : term = f.code[k]
      BY <3>1, <3>2 DEF OfFunction
    <3>4. term.op \in {"jmp", "jz"} /\ owned[n].owner = f.name
      BY <2>1, <2>3 DEF Resolves
    <3>5. term.to \in DOMAIN f.local /\ f.local[term.to] \in 0 .. Len(f.code) - 1
      BY <1>1, <3>3, <3>4, FunctionFacts
    <3>6. f.local[term.to] + 1 \in DOMAIN f.code
      BY <1>1, <3>5, FunctionFacts
    <3> DEFINE at == f.local[term.to] + 1
    <3>7. /\ functionEntry[f.name] \in Nat /\ localIndices[f.name] = f.local
          /\ blocks[functionEntry[f.name] + at].owner = f.name
          /\ blocks[functionEntry[f.name] + at].at = f.code[at].at
      BY <3>6, BlockOfFunction
    <3>8. b.to = functionEntry[f.name] + f.local[term.to]
      BY <2>1, <3>4, <3>7 DEF Resolves, Base
    <3>9. b.to + 1 = functionEntry[f.name] + at
      BY <3>5, <3>7, <3>8
    <3> HIDE DEF at
    <3>10. /\ blocks[b.to + 1].owner = f.name
           /\ blocks[b.to + 1].at = f.code[at].at
      BY <3>7, <3>9
    <3> QED
      BY <2>3, <3>10 DEF at
  <2> QED
    BY <2>2, <2>3
<1> QED
  BY <1>2, <1>3, <1>4

-----------------------------------------------------------------------------
(* The theorems: of every compilation of every module.                     *)

\* The tables of compile_module stay tables of what they should hold.
THEOREM CompileTypeCorrect == CompileSpec => []CompileTypeOK
<1>1. IInv => CompileTypeOK
  BY DEF IInv, TypesHold
<1> QED
  BY <1>1, Inductive, PTL

\* "So the two can never collide": no function's region meets another's or
\* reaches the call stack, however many functions, however large a region.
THEOREM RegionsNeverCollide == CompileSpec => []RegionsApart
<1>1. IInv => RegionsApart
  BY RegionsAreApart
<1> QED
  BY <1>1, Inductive, PTL

\* The cast of the largest parameter count to a u8 loses nothing in a module
\* that gets past register allocation.
THEOREM ReservedRegistersSuffice == CompileSpec => []ArgumentsFitReserved
<1>1. IInv => ArgumentsFitReserved
  BY ArgumentsFit
<1> QED
  BY <1>1, Inductive, PTL

\* Two passes and a prepended block later, every jump, call and entry of a
\* compiled program leads to the block it was meant for.
THEOREM EveryTargetLands == CompileSpec => []TargetsLand
<1>1. IInv => TargetsLand
  BY TargetsDoLand
<1> QED
  BY <1>1, Inductive, PTL
=============================================================================
