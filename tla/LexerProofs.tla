---------------------------- MODULE LexerProofs ----------------------------
(***************************************************************************)
(* What lex establishes for every source over the alphabet.  At the head   *)
(* of its loop no comment is open: if two slashes begin one behind the     *)
(* position, its line has ended there or at the position, or the text has. *)
(* Each token is the longest at its place: what was read of a word or a    *)
(* number is one run of characters, ended by one that does not belong.     *)
(***************************************************************************)
EXTENDS Lexer, SequenceTheorems, NaturalsInduction, WellFoundedInduction, TLAPS

Kinds == {"int", "if", "ident", "one", "two", "Eof"}
TokenRecords == [kind : Kinds, start : Nat, end : Nat]

TypesHold ==
  /\ text \in Seq(Characters)
  /\ pos \in 1 .. Len(text) + 1
  /\ tokens \in Seq(TokenRecords)

TokensBehind == \A i \in DOMAIN tokens : tokens[i].end <= pos

\* Two slashes at q, and where the text has a line feed between q and p.
SlashesAt(q) == q < Len(text) /\ text[q] = "/" /\ text[q + 1] = "/"
LineEnds(q, p) == \E r \in q .. p : r <= Len(text) /\ text[r] = "newline"

NoCommentOpen ==
  \A q \in 1 .. pos - 1 : SlashesAt(q) => LineEnds(q, pos) \/ pos = Len(text) + 1

IInv == TypesHold /\ TokensBehind /\ NoCommentOpen /\ EveryCharacterOnce

-----------------------------------------------------------------------------
(* Facts about one text.                                                   *)

LEMMA LeastNatural ==
  ASSUME NEW T, T \subseteq Nat, T # {}
  PROVE  \E x \in T : \A y \in T : x <= y
<1> DEFINE R == OpToRel(<, Nat)
<1>1. IsWellFoundedOn(R, Nat)
  BY NatLessThanWellFounded
<1> HIDE DEF R
<1>2. PICK x \in T : \A y \in T : <<y, x>> \notin R
  BY <1>1, WFMin
<1>3. \A y \in T : ~(y < x)
  BY <1>2 DEF R, OpToRel
<1> QED
  BY <1>3

LEMMA TextFacts ==
  ASSUME TypesHold
  PROVE  /\ Len(text) \in Nat /\ DOMAIN text = 1 .. Len(text)
         /\ \A p \in 1 .. Len(text) : text[p] \in Characters
BY ElementOfSeq, LenProperties DEF TypesHold

\* A run ends, at the latest behind the last character.
LEMMA RunEnds ==
  ASSUME TypesHold, NEW chars \in SUBSET Characters, NEW p \in 1 .. Len(text) + 1
  PROVE  /\ RunEnd(p, chars) \in p .. Len(text) + 1
         /\ \A q \in p .. RunEnd(p, chars) - 1 : text[q] \in chars
         /\ Character(RunEnd(p, chars)) \notin chars
<1> DEFINE T == {e \in p .. Len(text) + 1 : Character(e) \notin chars}
           Good(e) == /\ \A q \in p .. e - 1 : text[q] \in chars
                      /\ Character(e) \notin chars
<1>1. Len(text) \in Nat /\ DOMAIN text = 1 .. Len(text)
  BY TextFacts
<1>2. Character(Len(text) + 1) = "end"
  BY <1>1 DEF Character
<1>3. "end" \notin chars
  BY DEF Characters, Letters, Digits, Spaces, Singles, Starts
<1>4. Len(text) + 1 \in T /\ T \subseteq Nat
  BY <1>1, <1>2, <1>3
<1>5. PICK e \in T : \A y \in T : e <= y
  BY <1>4, LeastNatural
<1>6. \A q \in p .. e - 1 : text[q] \in chars
  <2> SUFFICES ASSUME NEW q \in p .. e - 1 PROVE text[q] \in chars
    OBVIOUS
  <2>1. e \in Nat /\ e \in p .. Len(text) + 1
    BY <1>1, <1>5
  <2>2. q \in p .. Len(text) + 1 /\ ~(e <= q) /\ q \in DOMAIN text
    BY <1>1, <2>1
  <2>3. q \notin T
    BY <1>5, <2>2
  <2>4. Character(q) \in chars
    BY <2>2, <2>3
  <2> QED
    BY <2>2, <2>4 DEF Character
<1>7. e \in p .. Len(text) + 1 /\ Good(e)
  BY <1>5, <1>6
<1>8. RunEnd(p, chars) = CHOOSE x \in p .. Len(text) + 1 : Good(x)
  BY DEF RunEnd
<1> HIDE DEF Good
<1>9. RunEnd(p, chars) \in p .. Len(text) + 1 /\ Good(RunEnd(p, chars))
  BY <1>7, <1>8
<1> QED
  BY <1>9 DEF Good

\* What is at the position when a step looks for given characters.
LEMMA CharacterHere ==
  ASSUME TypesHold, NEW chars \in SUBSET Characters, At(chars)
  PROVE  pos \in 1 .. Len(text) /\ text[pos] \in chars /\ Character(pos) = text[pos]
<1>1. Len(text) \in Nat /\ DOMAIN text = 1 .. Len(text) /\ pos \in 1 .. Len(text) + 1
  BY TextFacts DEF TypesHold
<1>2. Character(pos) \in chars
  BY DEF At
<1>3. pos \in DOMAIN text
  <2> SUFFICES ASSUME pos \notin DOMAIN text PROVE FALSE
    OBVIOUS
  <2>1. Character(pos) = "end"
    BY DEF Character
  <2> QED
    BY <1>2, <2>1 DEF Characters, Letters, Digits, Spaces, Singles, Starts
<1> QED
  BY <1>1, <1>2, <1>3 DEF Character

\* A run that begins with one of its characters is not empty.
LEMMA RunNotEmpty ==
  ASSUME TypesHold, NEW chars \in SUBSET Characters, At(chars),
         NEW more \in SUBSET Characters, chars \subseteq more
  PROVE  /\ RunEnd(pos, more) \in pos + 1 .. Len(text) + 1
         /\ \A q \in pos .. RunEnd(pos, more) - 1 : text[q] \in more
<1>1. /\ pos \in 1 .. Len(text) + 1 /\ Len(text) \in Nat
      /\ Character(pos) \in more
  BY CharacterHere, TextFacts DEF TypesHold
<1>2. /\ RunEnd(pos, more) \in pos .. Len(text) + 1
      /\ \A q \in pos .. RunEnd(pos, more) - 1 : text[q] \in more
      /\ Character(RunEnd(pos, more)) \notin more
  BY <1>1, RunEnds
<1>3. RunEnd(pos, more) # pos
  BY <1>1, <1>2
<1> QED
  BY <1>1, <1>2, <1>3

-----------------------------------------------------------------------------
(* What each kind of step keeps.                                           *)

LEMMA InitHolds == LexInit => IInv
<1> SUFFICES ASSUME LexInit PROVE IInv
  OBVIOUS
<1>1. text \in Seq(Characters) /\ pos = 1 /\ tokens = <<>>
  BY TextsAssumption DEF LexInit
<1>2. Len(text) \in Nat
  BY <1>1, LenProperties
<1>3. TypesHold
  BY <1>1, <1>2 DEF TypesHold
<1>4. TokensBehind
  BY <1>1 DEF TokensBehind
<1>5. NoCommentOpen
  BY <1>1 DEF NoCommentOpen
<1>6. EveryCharacterOnce
  BY <1>1, <1>2 DEF EveryCharacterOnce
<1> QED
  BY <1>3, <1>4, <1>5, <1>6 DEF IInv

\* The tokens and where they lie, after one more.
LEMMA Appended ==
  ASSUME IInv, NEW kind \in Kinds, NEW end \in pos .. Len(text) + 1,
         tokens' = Append(tokens, [kind |-> kind, start |-> pos, end |-> end]),
         pos' = end, UNCHANGED text
  PROVE  /\ TypesHold' /\ TokensBehind'
         /\ \A p \in 1 .. pos - 1 :
              {i \in DOMAIN tokens' : Covers(tokens'[i], p)}
                = {i \in DOMAIN tokens : Covers(tokens[i], p)}
         /\ \A p \in pos .. end - 1 :
              {i \in DOMAIN tokens' : Covers(tokens'[i], p)} = {Len(tokens) + 1}
<1> DEFINE token == [kind |-> kind, start |-> pos, end |-> end]
<1>1. /\ Len(text) \in Nat /\ pos \in 1 .. Len(text) + 1
      /\ tokens \in Seq(TokenRecords) /\ text \in Seq(Characters)
  BY TextFacts DEF IInv, TypesHold
<1>2. token \in TokenRecords
  BY <1>1 DEF TokenRecords
<1>3. /\ tokens' \in Seq(TokenRecords)
      /\ Len(tokens') = Len(tokens) + 1
      /\ \A i \in 1 .. Len(tokens) : tokens'[i] = tokens[i]
      /\ tokens'[Len(tokens) + 1] = token
  BY <1>1, <1>2, AppendProperties
<1>4. /\ Len(tokens) \in Nat
      /\ DOMAIN tokens = 1 .. Len(tokens)
      /\ DOMAIN tokens' = 1 .. Len(tokens) + 1
  BY <1>1, <1>3, LenProperties
<1>5. \A i \in 1 .. Len(tokens) : tokens[i] \in TokenRecords /\ tokens[i].end <= pos
  BY <1>1, <1>4, ElementOfSeq DEF IInv, TokensBehind
<1>6. \A i \in 1 .. Len(tokens) : tokens[i].end \in Nat /\ tokens[i].start \in Nat
  BY <1>5 DEF TokenRecords
<1>7. token.start = pos /\ token.end = end
  OBVIOUS
<1> HIDE DEF token
<1>8. TypesHold'
  BY <1>1, <1>3 DEF TypesHold
<1>9. TokensBehind'
  <2> SUFFICES ASSUME NEW i \in DOMAIN tokens' PROVE tokens'[i].end <= pos'
    BY DEF TokensBehind
  <2>1. CASE i = Len(tokens) + 1
    BY <1>1, <1>3, <1>7, <2>1
  <2>2. CASE i \in 1 .. Len(tokens)
    <3>1. tokens'[i].end = tokens[i].end /\ tokens[i].end <= pos /\ tokens[i].end \in Nat
      BY <1>3, <1>5, <1>6, <2>2
    <3> QED
      BY <1>1, <3>1
  <2> QED
    BY <1>4, <2>1, <2>2
<1>10. ASSUME NEW p \in 1 .. pos - 1
       PROVE  {i \in DOMAIN tokens' : Covers(tokens'[i], p)}
                = {i \in DOMAIN tokens : Covers(tokens[i], p)}
  <2>1. ~Covers(tokens'[Len(tokens) + 1], p)
    BY <1>1, <1>3, <1>7 DEF Covers
  <2>2. \A i \in 1 .. Len(tokens) : Covers(tokens'[i], p) = Covers(tokens[i], p)
    BY <1>3
  <2> QED
    BY <1>4, <2>1, <2>2
<1>11. ASSUME NEW p \in pos .. end - 1
       PROVE  {i \in DOMAIN tokens' : Covers(tokens'[i], p)} = {Len(tokens) + 1}
  <2>1. Covers(tokens'[Len(tokens) + 1], p)
    BY <1>1, <1>3, <1>7 DEF Covers
  <2>2. ASSUME NEW i \in 1 .. Len(tokens) PROVE ~Covers(tokens'[i], p)
    <3>1. tokens'[i] = tokens[i] /\ tokens[i].end \in Nat /\ tokens[i].end <= pos
      BY <1>3, <1>5, <1>6
    <3> QED
      BY <1>1, <3>1 DEF Covers
  <2> QED
    BY <1>4, <2>1, <2>2
<1> QED
  BY <1>8, <1>9, <1>10, <1>11

\* A token none of whose characters is white space or begins a comment.
LEMMA TokenKeeps ==
  ASSUME IInv, NEW kind \in Kinds, NEW end \in pos + 1 .. Len(text) + 1,
         Add(kind, end),
         \A p \in pos .. end - 1 : text[p] \notin Spaces /\ ~SlashesAt(p)
  PROVE  IInv'
<1>1. /\ Len(text) \in Nat /\ pos \in 1 .. Len(text) /\ end \in Nat
      /\ pos' = end /\ text' = text
  BY TextFacts DEF IInv, TypesHold, Add
<1>2. /\ TypesHold' /\ TokensBehind'
      /\ \A p \in 1 .. pos - 1 :
           {i \in DOMAIN tokens' : Covers(tokens'[i], p)}
             = {i \in DOMAIN tokens : Covers(tokens[i], p)}
      /\ \A p \in pos .. end - 1 :
           {i \in DOMAIN tokens' : Covers(tokens'[i], p)} = {Len(tokens) + 1}
  BY <1>1, Appended DEF Add
<1>3. \A q \in 1 .. end - 1 : SlashesAt(q) => q < pos /\ LineEnds(q, pos)
  <2> SUFFICES ASSUME NEW q \in 1 .. end - 1, SlashesAt(q)
               PROVE  q < pos /\ LineEnds(q, pos)
    OBVIOUS
  <2>1. q \in 1 .. pos - 1
    BY <1>1
  <2> QED
    BY <1>1, <2>1 DEF IInv, NoCommentOpen
<1>4. NoCommentOpen'
  <2> SUFFICES ASSUME NEW q \in 1 .. end - 1, SlashesAt(q)
               PROVE  LineEnds(q, end)
    BY <1>1 DEF NoCommentOpen, SlashesAt, LineEnds
  <2> QED
    BY <1>1, <1>3 DEF LineEnds
<1>5. ASSUME NEW p \in pos .. end - 1 PROVE ~InComment(p)
  <2> SUFFICES ASSUME NEW q \in 1 .. p, SlashesAt(q),
                      "newline" \notin {text[r] : r \in q .. p}
               PROVE  FALSE
    BY DEF InComment, SlashesAt
  <2>1. q < pos /\ LineEnds(q, pos)
    BY <1>1, <1>3
  <2>2. PICK r \in q .. pos : text[r] = "newline"
    BY <2>1 DEF LineEnds
  <2>3. r \in q .. p
    BY <1>1, <2>2
  <2> QED
    BY <2>2, <2>3
<1>6. EveryCharacterOnce'
  <2>1. \A p : InComment(p)' <=> InComment(p)
    BY <1>1 DEF InComment
  <2>2. ASSUME NEW p \in 1 .. end - 1
        PROVE  LET covering == {i \in DOMAIN tokens' : Covers(tokens'[i], p)}
               IN  IF text[p] \in Spaces \/ InComment(p) THEN covering = {}
                   ELSE \E i \in DOMAIN tokens' : covering = {i}
    <3>1. CASE p \in 1 .. pos - 1
      <4> DEFINE before == {i \in DOMAIN tokens : Covers(tokens[i], p)}
                 after  == {i \in DOMAIN tokens' : Covers(tokens'[i], p)}
      <4>1. IF text[p] \in Spaces \/ InComment(p) THEN before = {}
            ELSE \E i \in DOMAIN tokens : before = {i}
        BY <3>1 DEF IInv, EveryCharacterOnce
      <4>2. after = before
        BY <1>2, <3>1
      <4>3. \A i : after = {i} => i \in DOMAIN tokens'
        OBVIOUS
      <4> HIDE DEF before, after
      <4>4. IF text[p] \in Spaces \/ InComment(p) THEN after = {}
            ELSE \E i \in DOMAIN tokens' : after = {i}
        BY <4>1, <4>2, <4>3
      <4> QED
        BY <4>4 DEF after
    <3>2. CASE p \in pos .. end - 1
      <4> DEFINE after == {i \in DOMAIN tokens' : Covers(tokens'[i], p)}
      <4>1. text[p] \notin Spaces /\ ~InComment(p)
        BY <1>5, <3>2
      <4>2. after = {Len(tokens) + 1}
        BY <1>2, <3>2
      <4>3. Len(tokens) + 1 \in DOMAIN tokens'
        BY <4>2
      <4> QED
        BY <4>1, <4>2, <4>3
    <3> QED
      BY <1>1, <3>1, <3>2
  <2>3. pos' <= Len(text') + 1
    BY <1>1
  <2> QED
    BY <1>1, <2>1, <2>2, <2>3 DEF EveryCharacterOnce, Covers
<1> QED
  BY <1>2, <1>4, <1>6 DEF IInv

\* Characters stepped over, each of them white space or in a comment.
LEMMA SkipKeeps ==
  ASSUME IInv, NEW end \in pos + 1 .. Len(text) + 1, SkipTo(end),
         \A p \in pos .. end - 1 : text[p] \in Spaces \/ InComment(p),
         NoCommentOpen'
  PROVE  IInv'
<1>1. /\ Len(text) \in Nat /\ pos \in 1 .. Len(text) /\ end \in Nat
      /\ pos' = end /\ text' = text /\ tokens' = tokens
      /\ tokens \in Seq(TokenRecords) /\ text \in Seq(Characters)
  BY TextFacts DEF IInv, TypesHold, SkipTo
<1>2. TypesHold'
  BY <1>1 DEF TypesHold
<1>3. \A i \in DOMAIN tokens : tokens[i].end <= pos /\ tokens[i].end \in Nat
  <2> SUFFICES ASSUME NEW i \in DOMAIN tokens
               PROVE  tokens[i].end <= pos /\ tokens[i].end \in Nat
    OBVIOUS
  <2>1. tokens[i] \in TokenRecords
    BY <1>1, ElementOfSeq, LenProperties
  <2> QED
    BY <2>1 DEF IInv, TokensBehind, TokenRecords
<1>4. TokensBehind'
  <2> SUFFICES ASSUME NEW i \in DOMAIN tokens PROVE tokens[i].end <= end
    BY <1>1 DEF TokensBehind
  <2>1. tokens[i].end <= pos /\ tokens[i].end \in Nat
    BY <1>3
  <2> QED
    BY <1>1, <2>1
<1>5. EveryCharacterOnce'
  <2>1. \A p : InComment(p)' <=> InComment(p)
    BY <1>1 DEF InComment
  <2>2. ASSUME NEW p \in 1 .. end - 1
        PROVE  LET covering == {i \in DOMAIN tokens : Covers(tokens[i], p)}
               IN  IF text[p] \in Spaces \/ InComment(p) THEN covering = {}
                   ELSE \E i \in DOMAIN tokens : covering = {i}
    <3>1. CASE p \in 1 .. pos - 1
      BY <3>1 DEF IInv, EveryCharacterOnce
    <3>2. CASE p \in pos .. end - 1
      <4>1. ASSUME NEW i \in DOMAIN tokens PROVE ~Covers(tokens[i], p)
        <5>1. tokens[i].end <= pos /\ tokens[i].end \in Nat
          BY <1>3
        <5> QED
          BY <1>1, <3>2, <5>1 DEF Covers
      <4>2. {i \in DOMAIN tokens : Covers(tokens[i], p)} = {}
        BY <4>1
      <4>3. text[p] \in Spaces \/ InComment(p)
        BY <3>2
      <4> QED
        BY <4>2, <4>3
    <3> QED
      BY <1>1, <3>1, <3>2
  <2>3. pos' <= Len(text') + 1
    BY <1>1
  <2> QED
    BY <1>1, <2>1, <2>2, <2>3 DEF EveryCharacterOnce, Covers
<1> QED
  BY <1>2, <1>4, <1>5 DEF IInv

-----------------------------------------------------------------------------
(* The actions.                                                            *)

LEMMA WhitespaceKeeps == IInv /\ Whitespace => IInv'
<1> SUFFICES ASSUME IInv, Whitespace PROVE IInv'
  OBVIOUS
<1>1. /\ pos \in 1 .. Len(text) /\ text[pos] \in Spaces /\ Len(text) \in Nat
      /\ SkipTo(pos + 1) /\ pos' = pos + 1 /\ text' = text
  BY CharacterHere, TextFacts DEF IInv, Whitespace, SkipTo, Characters
<1>2. NoCommentOpen'
  <2> SUFFICES ASSUME NEW q \in 1 .. pos, SlashesAt(q)
               PROVE  LineEnds(q, pos + 1) \/ pos + 1 = Len(text) + 1
    BY <1>1 DEF NoCommentOpen, SlashesAt, LineEnds
  <2>1. q # pos
    BY <1>1 DEF SlashesAt, Spaces
  <2>2. LineEnds(q, pos)
    BY <1>1, <2>1 DEF IInv, NoCommentOpen
  <2> QED
    BY <1>1, <2>2 DEF LineEnds
<1> QED
  BY <1>1, <1>2, SkipKeeps

LEMMA CommentKeeps == IInv /\ Comment => IInv'
<1> SUFFICES ASSUME IInv, Comment PROVE IInv'
  OBVIOUS
<1> DEFINE line == Characters \ {"newline"}
           end  == RunEnd(pos, line)
<1>1. /\ pos \in 1 .. Len(text) /\ text[pos] = "/" /\ Len(text) \in Nat
      /\ DOMAIN text = 1 .. Len(text)
      /\ \A p \in 1 .. Len(text) : text[p] \in Characters
  BY CharacterHere, TextFacts DEF IInv, Comment, StartsComment, Characters
<1>2. SkipTo(end) /\ pos' = end /\ text' = text
  BY DEF Comment, SkipTo
<1>3. SlashesAt(pos)
  <2>1. Character(pos + 1) = "/"
    BY DEF Comment, StartsComment
  <2>2. pos + 1 \in DOMAIN text
    BY <2>1 DEF Character
  <2> QED
    BY <1>1, <2>1, <2>2 DEF Character, SlashesAt
<1>4. /\ end \in pos + 1 .. Len(text) + 1
      /\ \A p \in pos .. end - 1 : text[p] \in line
  <2>1. {"/"} \subseteq line /\ line \in SUBSET Characters
    BY DEF Characters
  <2>2. At({"/"}) /\ {"/"} \in SUBSET Characters
    BY DEF Comment, StartsComment, Characters
  <2> QED
    BY <2>1, <2>2, RunNotEmpty DEF IInv
<1>5. Character(end) \notin line
  BY <1>1, RunEnds DEF IInv
<1> HIDE DEF end
<1>6. \A p \in pos .. end - 1 : InComment(p)
  <2> SUFFICES ASSUME NEW p \in pos .. end - 1 PROVE InComment(p)
    OBVIOUS
  <2>1. pos \in 1 .. p
    BY <1>1, <1>4
  <2>2. "newline" \notin {text[r] : r \in pos .. p}
    BY <1>1, <1>4
  <2> QED
    BY <1>3, <2>1, <2>2 DEF InComment, SlashesAt
<1>7. NoCommentOpen'
  <2> SUFFICES ASSUME NEW q \in 1 .. end - 1, end # Len(text) + 1
               PROVE  LineEnds(q, end)
    BY <1>2 DEF NoCommentOpen, SlashesAt, LineEnds
  <2>1. end \in DOMAIN text /\ end \in q .. end
    BY <1>1, <1>4
  <2>2. text[end] = "newline"
    BY <1>1, <1>5, <2>1 DEF Character
  <2> QED
    BY <1>1, <2>1, <2>2 DEF LineEnds
<1> QED
  BY <1>2, <1>4, <1>6, <1>7, SkipKeeps

\* Digits, and letters with the digits behind them, are no slashes.
LEMMA RunKeeps ==
  ASSUME IInv, NEW first, first \in {Letters, Digits}, At(first),
         NEW more, more \in {Digits, Letters \cup Digits}, first \subseteq more,
         NEW kind \in Kinds, Add(kind, RunEnd(pos, more))
  PROVE  IInv'
<1> DEFINE end == RunEnd(pos, more)
<1>1. first \in SUBSET Characters /\ more \in SUBSET Characters
  BY DEF Characters
<1>2. end \in pos + 1 .. Len(text) + 1 /\ \A p \in pos .. end - 1 : text[p] \in more
  BY <1>1, RunNotEmpty DEF IInv
<1>3. \A c \in more : c \notin Spaces /\ c # "/"
  BY DEF Letters, Digits, Spaces
<1>4. \A p \in pos .. end - 1 : text[p] \notin Spaces /\ ~SlashesAt(p)
  BY <1>2, <1>3 DEF SlashesAt
<1> QED
  BY <1>2, <1>4, TokenKeeps

LEMMA RefuseKeeps == IInv /\ UNCHANGED <<text, pos, tokens>> => IInv'
<1> SUFFICES ASSUME IInv, UNCHANGED <<text, pos, tokens>> PROVE IInv'
  OBVIOUS
<1>1. TypesHold' /\ TokensBehind'
  BY DEF IInv, TypesHold, TokensBehind
<1>2. NoCommentOpen'
  BY DEF IInv, NoCommentOpen, SlashesAt, LineEnds
<1>3. EveryCharacterOnce'
  BY DEF IInv, EveryCharacterOnce, Covers, InComment
<1> QED
  BY <1>1, <1>2, <1>3 DEF IInv

LEMMA NumberKeeps == IInv /\ Number => IInv'
<1> SUFFICES ASSUME IInv, Number PROVE IInv'
  OBVIOUS
<1>1. CASE Add("int", RunEnd(pos, Digits))
  <2>1. \E kind \in Kinds : Add(kind, RunEnd(pos, Digits))
    BY <1>1 DEF Kinds
  <2>2. At(Digits)
    BY DEF Number
  <2> QED
    BY <2>1, <2>2, RunKeeps
<1>2. CASE Refuse("IntegerOverflow")
  BY <1>2, RefuseKeeps DEF Refuse
<1> QED
  BY <1>1, <1>2 DEF Number

LEMMA WordKeeps == IInv /\ Word => IInv'
<1> SUFFICES ASSUME IInv, Word PROVE IInv'
  OBVIOUS
<1> DEFINE end == RunEnd(pos, Letters \cup Digits)
<1>1. Keyword(Spell(pos, end)) \in Kinds
  BY DEF Keyword, Kinds
<1>2. At(Letters) /\ Add(Keyword(Spell(pos, end)), end)
  BY DEF Word
<1> HIDE DEF end
<1>3. \E kind \in Kinds : Add(kind, end)
  BY <1>1, <1>2
<1> QED
  BY <1>2, <1>3, RunKeeps DEF end

\* One character, neither white space nor the first of two slashes.
LEMMA OneKeeps ==
  ASSUME IInv, NEW chars \in SUBSET Characters, At(chars), Add("one", pos + 1),
         chars \cap Spaces = {}, ~SlashesAt(pos)
  PROVE  IInv'
<1>1. pos \in 1 .. Len(text) /\ text[pos] \in chars /\ Len(text) \in Nat
  BY CharacterHere, TextFacts DEF IInv
<1> DEFINE end == pos + 1
<1>2. end \in pos + 1 .. Len(text) + 1
  BY <1>1
<1>3. \A p \in pos .. end - 1 : text[p] \notin Spaces /\ ~SlashesAt(p)
  BY <1>1
<1>4. PICK kind \in Kinds : Add(kind, end)
  BY DEF Kinds
<1> HIDE DEF end
<1> QED
  BY <1>2, <1>3, <1>4, TokenKeeps

LEMMA SingleKeeps == IInv /\ (Single \/ FirstOnly) => IInv'
<1> SUFFICES ASSUME IInv, NEW chars, chars \in {Singles, Starts \ {"!"}},
                    At(chars), Add("one", pos + 1)
             PROVE  IInv'
  BY DEF Single, FirstOnly
<1>1. chars \in SUBSET Characters /\ chars \cap Spaces = {} /\ "/" \notin chars
  BY DEF Characters, Singles, Starts, Spaces
<1>2. text[pos] \in chars
  BY <1>1, CharacterHere DEF IInv
<1>3. ~SlashesAt(pos)
  BY <1>1, <1>2 DEF SlashesAt
<1> QED
  BY <1>1, <1>3, OneKeeps

LEMMA SlashKeeps == IInv /\ Slash => IInv'
<1> SUFFICES ASSUME IInv, Slash PROVE IInv'
  OBVIOUS
<1>1. {"/"} \in SUBSET Characters /\ {"/"} \cap Spaces = {}
  BY DEF Characters, Spaces
<1>2. At({"/"}) /\ Add("one", pos + 1) /\ Character(pos + 1) # "/"
  BY DEF Slash, StartsComment
<1>3. /\ pos \in 1 .. Len(text) /\ Len(text) \in Nat
      /\ DOMAIN text = 1 .. Len(text)
  BY <1>1, <1>2, CharacterHere, TextFacts DEF IInv
<1>4. ~SlashesAt(pos)
  BY <1>2, <1>3 DEF SlashesAt, Character
<1> QED
  BY <1>1, <1>2, <1>4, OneKeeps

LEMMA DoubleKeeps == IInv /\ Double => IInv'
<1> SUFFICES ASSUME IInv, Double PROVE IInv'
  OBVIOUS
<1>1. Starts \in SUBSET Characters
  BY DEF Characters
<1>2. At(Starts) /\ Character(pos + 1) = Follows[text[pos]] /\ Add("two", pos + 2)
  BY DEF Double, Pairs
<1>3. /\ pos \in 1 .. Len(text) /\ text[pos] \in Starts
      /\ Len(text) \in Nat /\ DOMAIN text = 1 .. Len(text)
  BY <1>1, <1>2, CharacterHere, TextFacts DEF IInv
<1>4. Follows[text[pos]] \in {">", "="}
  BY <1>3 DEF Follows
<1>5. pos + 1 \in DOMAIN text
  BY <1>2, <1>4 DEF Character
<1>6. text[pos + 1] \in {">", "="}
  BY <1>2, <1>4, <1>5 DEF Character
<1> DEFINE end == pos + 2
<1>7. \A p \in pos .. end - 1 : text[p] \notin Spaces /\ ~SlashesAt(p)
  <2> SUFFICES ASSUME NEW p \in pos .. end - 1
               PROVE  text[p] \notin Spaces /\ ~SlashesAt(p)
    OBVIOUS
  <2>1. p = pos \/ p = pos + 1
    BY <1>3
  <2>2. text[p] \in Starts \cup {">", "="}
    BY <1>3, <1>6, <2>1
  <2> QED
    BY <2>2 DEF Starts, Spaces, SlashesAt
<1>8. end \in pos + 1 .. Len(text) + 1
  BY <1>3, <1>5
<1>9. PICK kind \in Kinds : Add(kind, end)
  BY <1>2 DEF Kinds
<1> HIDE DEF end
<1> QED
  BY <1>7, <1>8, <1>9, TokenKeeps

\* The mark at the end of the tokens covers nothing.
LEMMA EndKeeps == IInv /\ EndOfInput => IInv'
<1> SUFFICES ASSUME IInv, EndOfInput PROVE IInv'
  OBVIOUS
<1>1. /\ pos \in 1 .. Len(text) + 1 /\ Len(text) \in Nat
      /\ pos' = pos /\ text' = text
      /\ tokens' = Append(tokens, [kind |-> "Eof", start |-> pos, end |-> pos])
  BY TextFacts DEF IInv, TypesHold, EndOfInput
<1>2. /\ TypesHold' /\ TokensBehind'
      /\ \A p \in 1 .. pos - 1 :
           {i \in DOMAIN tokens' : Covers(tokens'[i], p)}
             = {i \in DOMAIN tokens : Covers(tokens[i], p)}
  <2>1. PICK kind \in Kinds :
          tokens' = Append(tokens, [kind |-> kind, start |-> pos, end |-> pos])
    BY <1>1 DEF Kinds
  <2>2. pos \in pos .. Len(text) + 1
    BY <1>1
  <2> QED
    BY <1>1, <2>1, <2>2, Appended
<1>3. NoCommentOpen'
  BY <1>1 DEF IInv, NoCommentOpen, SlashesAt, LineEnds
<1>4. EveryCharacterOnce'
  <2>1. \A p : InComment(p)' <=> InComment(p)
    BY <1>1 DEF InComment
  <2>2. ASSUME NEW p \in 1 .. pos - 1
        PROVE  LET covering == {i \in DOMAIN tokens' : Covers(tokens'[i], p)}
               IN  IF text[p] \in Spaces \/ InComment(p) THEN covering = {}
                   ELSE \E i \in DOMAIN tokens' : covering = {i}
    <3> DEFINE before == {i \in DOMAIN tokens : Covers(tokens[i], p)}
               after  == {i \in DOMAIN tokens' : Covers(tokens'[i], p)}
    <3>1. IF text[p] \in Spaces \/ InComment(p) THEN before = {}
          ELSE \E i \in DOMAIN tokens : before = {i}
      BY DEF IInv, EveryCharacterOnce
    <3>2. after = before
      BY <1>2
    <3>3. \A i : after = {i} => i \in DOMAIN tokens'
      OBVIOUS
    <3> HIDE DEF before, after
    <3>4. IF text[p] \in Spaces \/ InComment(p) THEN after = {}
          ELSE \E i \in DOMAIN tokens' : after = {i}
      BY <3>1, <3>2, <3>3
    <3> QED
      BY <3>4 DEF after
  <2>3. pos' <= Len(text') + 1
    BY <1>1
  <2> QED
    BY <1>1, <2>1, <2>2, <2>3 DEF EveryCharacterOnce, Covers
<1> QED
  BY <1>2, <1>3, <1>4 DEF IInv

-----------------------------------------------------------------------------
\* The head of the loop: types, tokens behind the position, no comment open
\* and every character so far accounted for.
THEOREM LexerInvariance == LexSpec => []IInv
<1>1. LexInit => IInv
  BY InitHolds
<1>2. IInv /\ [LexNext]_lexVars => IInv'
  <2> SUFFICES ASSUME IInv, [LexNext]_lexVars PROVE IInv'
    OBVIOUS
  <2>1. CASE Whitespace \/ Comment
    BY <2>1, WhitespaceKeeps, CommentKeeps
  <2>2. CASE Number \/ Word \/ Single \/ Double \/ FirstOnly \/ Slash
    BY <2>2, NumberKeeps, WordKeeps, SingleKeeps, DoubleKeeps, SlashKeeps
  <2>3. CASE LoneBang \/ UnexpectedChar
    BY <2>3, RefuseKeeps DEF LoneBang, UnexpectedChar, Refuse
  <2>4. CASE EndOfInput
    BY <2>4, EndKeeps
  <2>5. CASE UNCHANGED lexVars
    BY <2>5, RefuseKeeps DEF lexVars
  <2> QED
    BY <2>1, <2>2, <2>3, <2>4, <2>5 DEF LexNext, LexStep, LexStop
<1> QED
  BY <1>1, <1>2, PTL DEF LexSpec

\* Whatever the source, lex loses none of its characters and reads none twice.
THEOREM NoCharacterLost == LexSpec => []EveryCharacterOnce
<1>1. IInv => EveryCharacterOnce
  BY DEF IInv
<1> QED
  BY <1>1, LexerInvariance, PTL
-----------------------------------------------------------------------------
(* Tokens are the longest there are.                                       *)

Longest(p, end) == /\ Lexeme(Spell(p, end))
                   /\ end <= Len(text) => ~Lexeme(Spell(p, end + 1))

LEMMA SpellFacts ==
  ASSUME TypesHold, NEW p \in 1 .. Len(text) + 1, NEW q \in p .. Len(text) + 1
  PROVE  /\ Spell(p, q) \in Seq(Characters) /\ Len(Spell(p, q)) = q - p
         /\ \A i \in 1 .. q - p : Spell(p, q)[i] = text[p + i - 1]
<1>1. text \in Seq(Characters) /\ Len(text) \in Nat
  BY TextFacts DEF TypesHold
<1> PICK n : n = q - 1
  OBVIOUS
<1>2. n \in Int /\ p \in Int /\ n - p + 1 = q - p /\ \A i \in p .. n : text[i] \in Characters
  BY <1>1, TextFacts
<1>3. /\ SubSeq(text, p, n) \in Seq(Characters) 
      /\ Len(SubSeq(text, p, n)) = IF p <= n THEN n - p + 1 ELSE 0
      /\ \A i \in 1 .. n - p + 1 : SubSeq(text, p, n)[i] = text[p + i - 1]
  BY <1>2, SubSeqProperties
<1>4. ~(p <= n) => q - p = 0
  BY <1>1
<1> QED
  BY <1>2, <1>3, <1>4 DEF Spell

LEMMA SpellHere ==
  ASSUME TypesHold, pos \in 1 .. Len(text), NEW end \in pos + 1 .. Len(text) + 1
  PROVE  /\ Spell(pos, end) \in Seq(Characters) /\ Len(Spell(pos, end)) = end - pos
         /\ \A i \in 1 .. end - pos : Spell(pos, end)[i] = text[pos + i - 1]
         /\ end <= Len(text) =>
              /\ Spell(pos, end + 1) \in Seq(Characters)
              /\ Len(Spell(pos, end + 1)) = end + 1 - pos
              /\ \A i \in 1 .. end + 1 - pos : Spell(pos, end + 1)[i] = text[pos + i - 1]
<1>1. /\ Len(text) \in Nat /\ pos \in 1 .. Len(text) + 1 /\ end \in pos .. Len(text) + 1
      /\ end <= Len(text) => end + 1 \in pos .. Len(text) + 1
  BY TextFacts
<1>2. /\ Spell(pos, end) \in Seq(Characters) /\ Len(Spell(pos, end)) = end - pos
      /\ \A i \in 1 .. end - pos : Spell(pos, end)[i] = text[pos + i - 1]
  BY <1>1, SpellFacts
<1>3. ASSUME end <= Len(text)
      PROVE  /\ Spell(pos, end + 1) \in Seq(Characters)
             /\ Len(Spell(pos, end + 1)) = end + 1 - pos
             /\ \A i \in 1 .. end + 1 - pos : Spell(pos, end + 1)[i] = text[pos + i - 1]
  <2>1. \A q \in pos .. Len(text) + 1 :
          /\ Spell(pos, q) \in Seq(Characters) /\ Len(Spell(pos, q)) = q - pos
          /\ \A i \in 1 .. q - pos : Spell(pos, q)[i] = text[pos + i - 1]
    BY <1>1, SpellFacts
  <2>2. end + 1 \in pos .. Len(text) + 1
    BY <1>1, <1>3
  <2> DEFINE q == end + 1
  <2>3. q \in pos .. Len(text) + 1
    BY <2>2
  <2> HIDE DEF q
  <2>4. /\ Spell(pos, q) \in Seq(Characters) /\ Len(Spell(pos, q)) = q - pos
        /\ \A i \in 1 .. q - pos : Spell(pos, q)[i] = text[pos + i - 1]
    BY <2>1, <2>3, Zenon
  <2> USE DEF q
  <2> QED
    BY <2>4
<1> QED
  BY <1>2, <1>3

\* What is too long to be a token.
LEMMA NoLexeme ==
  ASSUME NEW s \in Seq(Characters), Len(s) > 1,
         s[1] \in Digits => \E i \in 1 .. Len(s) : s[i] \notin Digits,
         s[1] \in Letters => \E i \in 1 .. Len(s) : s[i] \notin Letters \cup Digits,
         s[1] \in Starts => Len(s) # 2 \/ s[2] # Follows[s[1]]
  PROVE  ~Lexeme(s)
<1>1. Len(s) \in Nat /\ DOMAIN s = 1 .. Len(s) /\ 1 \in 1 .. Len(s)
  BY LenProperties
<1> QED
  BY <1>1 DEF Lexeme

\* A number and a word go on as long as their characters do.
LEMMA RunLongest ==
  ASSUME TypesHold, NEW first, NEW more, At(first),
         \/ first = Digits /\ more = Digits
         \/ first = Letters /\ more = Letters \cup Digits
  PROVE  RunEnd(pos, more) \in pos + 1 .. Len(text) + 1 /\ Longest(pos, RunEnd(pos, more))
<1> DEFINE end == RunEnd(pos, more)
<1>1. first \in SUBSET Characters /\ more \in SUBSET Characters /\ first \subseteq more
  BY DEF Characters
<1>2. /\ pos \in 1 .. Len(text) /\ text[pos] \in first /\ Len(text) \in Nat
      /\ DOMAIN text = 1 .. Len(text)
  BY <1>1, CharacterHere, TextFacts
<1>3. end \in pos + 1 .. Len(text) + 1 /\ \A p \in pos .. end - 1 : text[p] \in more
  BY <1>1, RunNotEmpty
<1>4. Character(end) \notin more
  BY <1>1, <1>2, RunEnds
<1> HIDE DEF end
<1>5. Lexeme(Spell(pos, end))
  <2> PICK s : s = Spell(pos, end)
    OBVIOUS
  <2>1. /\ s \in Seq(Characters) /\ Len(s) = end - pos
        /\ \A i \in 1 .. end - pos : s[i] = text[pos + i - 1]
    BY <1>2, <1>3, SpellHere
  <2>2. \A i \in 1 .. Len(s) : s[i] \in more
    <3>1. \A i \in 1 .. end - pos : pos + i - 1 \in pos .. end - 1
      BY <1>2, <1>3
    <3> QED
      BY <1>3, <2>1, <3>1
  <2>3. s[1] \in first /\ Len(s) > 0
    <3>1. 1 \in 1 .. end - pos /\ pos + 1 - 1 = pos /\ end - pos > 0
      BY <1>2, <1>3
    <3> QED
      BY <1>2, <2>1, <3>1
  <2>4. DOMAIN s = 1 .. Len(s) /\ s # <<>>
    BY <2>1, <2>3, LenProperties, EmptySeq
  <2> QED
    BY <2>2, <2>3, <2>4 DEF Lexeme
<1>6. ASSUME end <= Len(text) PROVE ~Lexeme(Spell(pos, end + 1))
  <2> PICK s : s = Spell(pos, end + 1)
    OBVIOUS
  <2>1. /\ s \in Seq(Characters) /\ Len(s) = end + 1 - pos
        /\ \A i \in 1 .. end + 1 - pos : s[i] = text[pos + i - 1]
    BY <1>2, <1>3, <1>6, SpellHere
  <2>2. text[end] \notin more
    BY <1>2, <1>3, <1>4, <1>6 DEF Character
  <2>3. s[1] \in first /\ Len(s) > 1
    <3>1. 1 \in 1 .. end + 1 - pos /\ pos + 1 - 1 = pos /\ end + 1 - pos > 1
      BY <1>2, <1>3
    <3> QED
      BY <1>2, <2>1, <3>1
  <2>4. Len(s) \in 1 .. Len(s) /\ s[Len(s)] \notin more
    <3> PICK i : i = end + 1 - pos
      OBVIOUS
    <3>1. i \in 1 .. end + 1 - pos /\ pos + i - 1 = end
      BY <1>2, <1>3
    <3> QED
      BY <2>1, <2>2, <3>1
  <2>5. s[1] \notin Starts /\ (s[1] \in Digits => more = Digits)
    BY <2>3 DEF Digits, Letters, Starts
  <2>6. s[1] \in Digits \cup Letters /\ Digits \subseteq more
    BY <2>3
  <2>7. s[1] \in Letters => more = Letters \cup Digits
    BY <2>3 DEF Digits, Letters
  <2> QED
    BY <2>1, <2>3, <2>4, <2>5, <2>7, NoLexeme
<1> QED
  BY <1>3, <1>5, <1>6 DEF Longest, end

\* A token of one character.
LEMMA OneLongest ==
  ASSUME TypesHold, NEW chars \in SUBSET Characters, At(chars),
         chars \subseteq Singles \cup {"-", "=", "<", ">", "/"},
         text[pos] \in Starts => ~Pairs
  PROVE  pos + 1 \in pos + 1 .. Len(text) + 1 /\ Longest(pos, pos + 1)
<1>1. /\ pos \in 1 .. Len(text) /\ text[pos] \in chars /\ Len(text) \in Nat
      /\ DOMAIN text = 1 .. Len(text) /\ Character(pos) = text[pos] /\ status = "lexing"
  BY CharacterHere, TextFacts DEF At
<1> PICK end : end = pos + 1
  OBVIOUS
<1>2. end \in pos + 1 .. Len(text) + 1
  BY <1>1
<1>3. Lexeme(Spell(pos, end))
  <2> PICK s : s = Spell(pos, end)
    OBVIOUS
  <2>1. end - pos = 1 /\ 1 \in 1 .. end - pos /\ pos + 1 - 1 = pos
    BY <1>1
  <2>2. s \in Seq(Characters) /\ Len(s) = 1 /\ s[1] = text[pos]
    <3>1. /\ s \in Seq(Characters) /\ Len(s) = end - pos
          /\ \A i \in 1 .. end - pos : s[i] = text[pos + i - 1]
      BY <1>1, <1>2, SpellHere
    <3> QED
      BY <2>1, <3>1
  <2>3. s # <<>>
    BY <2>2, EmptySeq
  <2> QED
    BY <1>1, <2>2, <2>3 DEF Lexeme
<1>4. ASSUME end <= Len(text) PROVE ~Lexeme(Spell(pos, end + 1))
  <2> PICK s : s = Spell(pos, end + 1)
    OBVIOUS
  <2>1. /\ end + 1 - pos = 2 /\ pos + 1 - 1 = pos /\ pos + 2 - 1 = pos + 1
        /\ 1 \in 1 .. end + 1 - pos /\ 2 \in 1 .. end + 1 - pos
    BY <1>1
  <2>2. s \in Seq(Characters) /\ Len(s) = 2 /\ s[1] = text[pos] /\ s[2] = text[pos + 1]
    <3>1. /\ s \in Seq(Characters) /\ Len(s) = end + 1 - pos
          /\ \A i \in 1 .. end + 1 - pos : s[i] = text[pos + i - 1]
      BY <1>1, <1>2, <1>4, SpellHere
    <3> QED
      BY <2>1, <3>1
  <2>3. s[1] \notin Digits /\ s[1] \notin Letters
    BY <1>1, <2>2 DEF Digits, Letters, Singles
  <2>4. s[1] \in Starts => s[2] # Follows[s[1]]
    <3>1. Character(pos + 1) = text[pos + 1]
      BY <1>1, <1>4 DEF Character
    <3>2. text[pos] \in Starts => At(Starts)
      BY <1>1 DEF At
    <3> QED
      BY <2>2, <3>1, <3>2 DEF Pairs
  <2> QED
    BY <2>2, <2>3, <2>4, NoLexeme
<1> QED
  BY <1>2, <1>3, <1>4 DEF Longest

LEMMA DoubleLongest ==
  ASSUME TypesHold, Pairs
  PROVE  pos + 2 \in pos + 1 .. Len(text) + 1 /\ Longest(pos, pos + 2)
<1>1. Starts \in SUBSET Characters /\ At(Starts) /\ Character(pos + 1) = Follows[text[pos]]
  BY DEF Characters, Pairs
<1>2. /\ pos \in 1 .. Len(text) /\ text[pos] \in Starts
      /\ Len(text) \in Nat /\ DOMAIN text = 1 .. Len(text)
  BY <1>1, CharacterHere, TextFacts
<1>3. Follows[text[pos]] # "end"
  BY <1>2 DEF Follows
<1>4. pos + 1 \in DOMAIN text /\ text[pos + 1] = Follows[text[pos]]
  BY <1>1, <1>3 DEF Character
<1> PICK end : end = pos + 2
  OBVIOUS
<1>5. end \in pos + 1 .. Len(text) + 1
  BY <1>2, <1>4
<1>6. Lexeme(Spell(pos, end))
  <2> PICK s : s = Spell(pos, end)
    OBVIOUS
  <2>1. /\ end - pos = 2 /\ pos + 1 - 1 = pos /\ pos + 2 - 1 = pos + 1
        /\ 1 \in 1 .. end - pos /\ 2 \in 1 .. end - pos
    BY <1>2
  <2>2. s \in Seq(Characters) /\ Len(s) = 2 /\ s[1] = text[pos] /\ s[2] = text[pos + 1]
    <3>1. /\ s \in Seq(Characters) /\ Len(s) = end - pos
          /\ \A i \in 1 .. end - pos : s[i] = text[pos + i - 1]
      BY <1>2, <1>5, SpellHere
    <3> QED
      BY <2>1, <3>1
  <2>3. s # <<>>
    BY <2>2, EmptySeq
  <2> QED
    BY <1>2, <1>4, <2>2, <2>3 DEF Lexeme
<1>7. ASSUME end <= Len(text) PROVE ~Lexeme(Spell(pos, end + 1))
  <2> PICK s : s = Spell(pos, end + 1)
    OBVIOUS
  <2>1. end + 1 - pos = 3 /\ pos + 1 - 1 = pos /\ 1 \in 1 .. end + 1 - pos
    BY <1>2
  <2>2. s \in Seq(Characters) /\ Len(s) = 3 /\ s[1] = text[pos]
    <3>1. /\ s \in Seq(Characters) /\ Len(s) = end + 1 - pos
          /\ \A i \in 1 .. end + 1 - pos : s[i] = text[pos + i - 1]
      BY <1>2, <1>5, <1>7, SpellHere
    <3> QED
      BY <2>1, <3>1
  <2>3. s[1] \notin Digits /\ s[1] \notin Letters
    BY <1>2, <2>2 DEF Digits, Letters, Starts
  <2> QED
    BY <2>2, <2>3, NoLexeme
<1> QED
  BY <1>5, <1>6, <1>7 DEF Longest

\* One token more.
LEMMA TokenMore ==
  ASSUME TypesHold, LongestMatch, UNCHANGED text, NEW t \in TokenRecords,
         tokens' = Append(tokens, t), t.kind = "Eof" \/ Longest(t.start, t.end)
  PROVE  LongestMatch'
<1>1. /\ tokens' \in Seq(TokenRecords) /\ Len(tokens') = Len(tokens) + 1
      /\ \A i \in 1 .. Len(tokens) : tokens'[i] = tokens[i]
      /\ tokens'[Len(tokens) + 1] = t /\ tokens \in Seq(TokenRecords)
  BY AppendProperties DEF TypesHold
<1>2. /\ Len(tokens) \in Nat /\ DOMAIN tokens = 1 .. Len(tokens)
      /\ DOMAIN tokens' = 1 .. Len(tokens) + 1
  BY <1>1, LenProperties
<1> SUFFICES ASSUME NEW i \in DOMAIN tokens'
             PROVE  tokens'[i].kind = "Eof" \/ Longest(tokens'[i].start, tokens'[i].end)
  BY DEF LongestMatch, Longest, Spell
<1>3. CASE i = Len(tokens) + 1
  BY <1>1, <1>3
<1>4. CASE i \in 1 .. Len(tokens)
  BY <1>1, <1>2, <1>4 DEF LongestMatch, Longest
<1> QED
  BY <1>2, <1>3, <1>4

LEMMA LongestAdded ==
  ASSUME TypesHold, LongestMatch, NEW kind \in Kinds, NEW end \in pos + 1 .. Len(text) + 1,
         Add(kind, end), Longest(pos, end)
  PROVE  LongestMatch'
<1> PICK t : t = [kind |-> kind, start |-> pos, end |-> end]
  OBVIOUS
<1>1. pos \in Nat /\ end \in Nat
  BY TextFacts DEF TypesHold
<1>2. t \in TokenRecords /\ t.start = pos /\ t.end = end
  BY <1>1 DEF TokenRecords
<1>3. UNCHANGED text /\ tokens' = Append(tokens, t)
  BY DEF Add
<1> QED
  BY <1>2, <1>3, TokenMore, Zenon

\* One step of lex.
LEMMA LongestStep ==
  ASSUME TypesHold, LongestMatch, [LexNext]_lexVars
  PROVE  LongestMatch'
<1>1. CASE UNCHANGED <<text, tokens>>
  BY <1>1 DEF LongestMatch, Spell
<1>2. CASE Number
  <2>1. CASE Add("int", RunEnd(pos, Digits))
    <3>1. "int" \in Kinds /\ At(Digits)
      BY <1>2 DEF Kinds, Number
    <3> PICK end : end = RunEnd(pos, Digits)
      OBVIOUS
    <3>2. end \in pos + 1 .. Len(text) + 1 /\ Longest(pos, end)
      BY <3>1, RunLongest
    <3> QED
      BY <2>1, <3>1, <3>2, LongestAdded
  <2> QED
    BY <1>1, <1>2, <2>1 DEF Number, Refuse
<1>3. CASE Word
  <2> PICK end : end = RunEnd(pos, Letters \cup Digits)
    OBVIOUS
  <2> PICK kind : kind = Keyword(Spell(pos, end))
    OBVIOUS
  <2>1. kind \in Kinds
    BY DEF Kinds, Keyword
  <2>2. At(Letters) /\ Add(kind, end)
    BY <1>3 DEF Word
  <2>3. end \in pos + 1 .. Len(text) + 1 /\ Longest(pos, end)
    BY <2>2, RunLongest
  <2> QED
    BY <2>1, <2>2, <2>3, LongestAdded
<1>4. CASE Single \/ FirstOnly \/ Slash
  <2>1. PICK chars : /\ At(chars) /\ Add("one", pos + 1)
                     /\ \/ chars = Singles
                        \/ chars = Starts \ {"!"} /\ ~Pairs
                        \/ chars = {"/"}
    BY <1>4 DEF Single, FirstOnly, Slash
  <2>2. chars \in SUBSET Characters /\ chars \subseteq Singles \cup {"-", "=", "<", ">", "/"}
    BY <2>1 DEF Characters, Starts
  <2>3. text[pos] \in chars
    BY <2>1, <2>2, CharacterHere
  <2>4. text[pos] \in Starts => ~Pairs
    BY <2>1, <2>3 DEF Singles, Starts
  <2>5. pos + 1 \in pos + 1 .. Len(text) + 1 /\ Longest(pos, pos + 1)
    BY <2>1, <2>2, <2>4, OneLongest
  <2>6. "one" \in Kinds
    BY DEF Kinds
  <2> QED
    BY <2>1, <2>5, <2>6, LongestAdded
<1>5. CASE Double
  <2>1. pos + 2 \in pos + 1 .. Len(text) + 1 /\ Longest(pos, pos + 2)
    BY <1>5, DoubleLongest DEF Double
  <2>2. "two" \in Kinds /\ Add("two", pos + 2)
    BY <1>5 DEF Kinds, Double
  <2> QED
    BY <2>1, <2>2, LongestAdded
<1>6. CASE EndOfInput
  <2> PICK t : t = [kind |-> "Eof", start |-> pos, end |-> pos]
    OBVIOUS
  <2>1. pos \in Nat
    BY TextFacts DEF TypesHold
  <2>2. t \in TokenRecords /\ t.kind = "Eof"
    BY <2>1 DEF TokenRecords, Kinds
  <2>3. UNCHANGED text /\ tokens' = Append(tokens, t)
    BY <1>6 DEF EndOfInput
  <2> QED
    BY <2>2, <2>3, TokenMore, Zenon
<1>7. CASE Whitespace \/ Comment \/ LoneBang \/ UnexpectedChar \/ LexStop
  BY <1>1, <1>7 DEF Whitespace, Comment, LoneBang, UnexpectedChar, LexStop, Refuse, SkipTo,
                    lexVars
<1>8. CASE UNCHANGED lexVars
  BY <1>1, <1>8 DEF lexVars
<1> QED
  BY <1>2, <1>3, <1>4, <1>5, <1>6, <1>7, <1>8 DEF LexNext, LexStep

\* Whatever the source, every token is one of the language, and would not be one
\* with the next character: lex takes two characters where it could take one.
THEOREM TokensAreLongest == LexSpec => []LongestMatch
<1>1. LexInit => LongestMatch
  <2>1. DOMAIN <<>> = {}
    OBVIOUS
  <2> QED
    BY <2>1 DEF LexInit, LongestMatch
<1>2. TypesHold /\ LongestMatch /\ [LexNext]_lexVars => LongestMatch'
  BY LongestStep
<1>3. IInv => TypesHold
  BY DEF IInv
<1> QED
  BY <1>1, <1>2, <1>3, LexerInvariance, PTL DEF LexSpec
=============================================================================
