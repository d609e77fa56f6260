------------------------------ MODULE MCLexer ------------------------------
(***************************************************************************)
(* Every source of up to ShortLength characters, and every longer one, up  *)
(* to LongLength, over the characters that meet in comments and in tokens  *)
(* of two characters.  98 is the largest integer: 99 is the first that     *)
(* does not fit.                                                           *)
(***************************************************************************)
EXTENDS Lexer

ShortLength == 4
LongLength  == 5
LongAlphabet == {"/", "newline", "-", ">", "=", "9", "f"}

ShortTexts == UNION {[1 .. n -> Characters] : n \in 0 .. ShortLength}
LongTexts  == UNION {[1 .. n -> LongAlphabet] : n \in ShortLength + 1 .. LongLength}
AllTexts   == ShortTexts \cup LongTexts
=============================================================================
