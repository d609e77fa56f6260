------------------------------- MODULE Lexer -------------------------------
(***************************************************************************)
(* lex of crates/lexer/src/lib.rs: one action per turn of its loop over    *)
(* the bytes of a source.  A byte is a character of the small alphabet     *)
(* below; where the code has many that it treats alike there is one or two *)
(* of them: letters, digits, operators of one character.  The keyword      *)
(* table has one entry and an integer its largest value MaxInt.            *)
(***************************************************************************)
EXTENDS Naturals, Sequences

CONSTANTS
  Texts,    \* the sources
  MaxInt    \* i64::MAX

Letters == {"i", "f"}
Digits  == {"0", "9"}
Spaces  == {"space", "newline"}
Singles == {"+", "("}           \* a token by themselves, whatever follows
Starts  == {"-", "=", "!", "<", ">"} \* the first character of a token of two
Characters == Letters \cup Digits \cup Spaces \cup Singles \cup Starts \cup {"/", "other"}

ASSUME TextsAssumption == Texts \subseteq Seq(Characters)
ASSUME MaxIntAssumption == MaxInt \in Nat

VARIABLES
  text,
  pos,      \* from 1
  tokens,   \* [kind, start, end]: the characters start .. end - 1
  status    \* "lexing", "lexed" or an error

lexVars == <<text, pos, tokens, status>>

LexErrors == {"UnexpectedChar", "IntegerOverflow", "LoneBang"}

Character(p) == IF p \in DOMAIN text THEN text[p] ELSE "end"
At(chars) == status = "lexing" /\ Character(pos) \in chars

\* Where the characters from p on stop being of the given ones.
RunEnd(p, chars) ==
  CHOOSE e \in p .. Len(text) + 1 : /\ \A q \in p .. e - 1 : text[q] \in chars
                                    /\ Character(e) \notin chars

Spell(p, q) == SubSeq(text, p, q - 1)
Keyword(word) == IF word = <<"i", "f">> THEN "if" ELSE "ident"
Parsed(digits) ==
  LET value[n \in 0 .. Len(digits)] ==
        IF n = 0 THEN 0 ELSE 10 * value[n - 1] + (IF digits[n] = "9" THEN 9 ELSE 0)
  IN  value[Len(digits)]

Add(kind, end) ==
  /\ tokens' = Append(tokens, [kind |-> kind, start |-> pos, end |-> end])
  /\ pos' = end
  /\ UNCHANGED <<text, status>>
Refuse(error) == status' = error /\ UNCHANGED <<text, pos, tokens>>
SkipTo(p) == pos' = p /\ UNCHANGED <<text, tokens, status>>

-----------------------------------------------------------------------------
LexInit == text \in Texts /\ pos = 1 /\ tokens = <<>> /\ status = "lexing"

\* Mutant of Whitespace: a line feed is white space, but not one to step over.
WhitespaceInLine == At(Spaces) /\ SkipTo(IF text[pos] = "newline" THEN pos ELSE pos + 1)

Whitespace == At(Spaces) /\ SkipTo(pos + 1)

StartsComment == At({"/"}) /\ Character(pos + 1) = "/"

\* Mutants of Comment: it ends at the first white space; it takes the end of
\* its line along, be there one or not.
CommentToSpace  == StartsComment /\ SkipTo(RunEnd(pos, Characters \ Spaces))
CommentWithLine == StartsComment /\ SkipTo(RunEnd(pos, Characters \ {"newline"}) + 1)

\* Up to the end of the line, which the next turn skips.
Comment == StartsComment /\ SkipTo(RunEnd(pos, Characters \ {"newline"}))

Number ==
  /\ At(Digits)
  /\ LET end == RunEnd(pos, Digits)
     IN  IF Parsed(Spell(pos, end)) <= MaxInt THEN Add("int", end) ELSE Refuse("IntegerOverflow")

\* Mutant of Word: letters only.
WordOfLetters ==
  /\ At(Letters)
  /\ LET end == RunEnd(pos, Letters) IN Add(Keyword(Spell(pos, end)), end)

Word ==
  /\ At(Letters)
  /\ LET end == RunEnd(pos, Letters \cup Digits) IN Add(Keyword(Spell(pos, end)), end)

Single == At(Singles) /\ Add("one", pos + 1)

\* The characters that make a token of two with the one after them.
Follows == [c \in Starts |-> IF c = "-" THEN ">" ELSE "="]
Pairs == At(Starts) /\ Character(pos + 1) = Follows[text[pos]]

Double    == Pairs /\ Add("two", pos + 2)
FirstOnly == At(Starts \ {"!"}) /\ ~Pairs /\ Add("one", pos + 1)
LoneBang  == At({"!"}) /\ ~Pairs /\ Refuse("LoneBang")
Slash     == At({"/"}) /\ ~StartsComment /\ Add("one", pos + 1)

UnexpectedChar == At({"other"}) /\ Refuse("UnexpectedChar")

EndOfInput ==
  /\ At({"end"})
  /\ tokens' = Append(tokens, [kind |-> "Eof", start |-> pos, end |-> pos])
  /\ status' = "lexed"
  /\ UNCHANGED <<text, pos>>

LexStep ==
  \/ Whitespace \/ Comment \/ Number \/ Word
  \/ Single \/ Double \/ FirstOnly \/ Slash
  \/ LoneBang \/ UnexpectedChar \/ EndOfInput
LexStop == status # "lexing" /\ UNCHANGED lexVars
LexNext == LexStep \/ LexStop
LexSpec == LexInit /\ [][LexNext]_lexVars /\ WF_lexVars(LexStep)

-----------------------------------------------------------------------------
\* What the language counts as a token: the tests' examples, by spelling.
Lexeme(s) ==
  /\ s # <<>>
  /\ \/ \A i \in DOMAIN s : s[i] \in Digits
     \/ s[1] \in Letters /\ \A i \in DOMAIN s : s[i] \in Letters \cup Digits
     \/ Len(s) = 1 /\ s[1] \in Singles \cup {"-", "=", "<", ">", "/"}
     \/ Len(s) = 2 /\ s[1] \in Starts /\ s[2] = Follows[s[1]]

Covers(t, p) == p \in t.start .. t.end - 1
InComment(p) ==
  \E q \in 1 .. p :
    /\ q < Len(text) /\ text[q] = "/" /\ text[q + 1] = "/"
    /\ "newline" \notin {text[r] : r \in q .. p}

\* Nothing the programmer wrote is lost and nothing is read twice: behind the
\* position, a character outside comments and white space is in one token, and
\* one inside them in none.  What ends a token or a comment starts the next,
\* and the end of the text is never passed.
EveryCharacterOnce ==
  /\ pos <= Len(text) + 1
  /\ \A p \in 1 .. pos - 1 :
       LET covering == {i \in DOMAIN tokens : Covers(tokens[i], p)}
       IN  IF text[p] \in Spaces \/ InComment(p) THEN covering = {}
           ELSE \E i \in DOMAIN tokens : covering = {i}

\* Tokens are the longest there are: each spells a token of the language, and
\* with the next character no longer one, so that == is not two =, -> not a
\* minus, i9 not a keyword's start and 90 not two numbers.
LongestMatch ==
  \A i \in DOMAIN tokens :
    LET t == tokens[i]
    IN  t.kind = "Eof" \/
        /\ Lexeme(Spell(t.start, t.end))
        /\ t.end <= Len(text) => ~Lexeme(Spell(t.start, t.end + 1))

\* lex ends on every source: no turn leaves the position where it was.
LexEnds == <>(status # "lexing")
=============================================================================
