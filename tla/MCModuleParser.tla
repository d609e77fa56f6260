--------------------------- MODULE MCModuleParser ---------------------------
(***************************************************************************)
(* Sources for the module parser: a few programs, and everything that is   *)
(* one token away from one of them.                                        *)
(***************************************************************************)
EXTENDS ModuleParser, SequencesExt

ParserNames == {"f", "g", "x"}

\* fn name(params) -> ret { body }
Function(name, params, ret, body) ==
  <<"fn", name, "(">> \o params \o <<")", "->", ret, "LBrace">> \o body \o <<"RBrace">>

Forward == Function("f", <<>>, "i64",
             <<"return", "g", "(", "int", "Comma", "true", ")", "Semicolon">>)
           \o Function("g", <<"x", ":", "i64", "Comma", "f", ":", "bool">>, "i64",
                       <<"return", "x", "Semicolon">>)
Nested  == Function("f", <<>>, "i64",
             <<"if", "f", "(", ")", "<", "int", "LBrace", "return", "int", "Semicolon", "RBrace",
               "else", "if", "true", "LBrace", "RBrace",
               "else", "LBrace", "int", "Semicolon", "RBrace", "return", "int", "Semicolon">>)
Loops   == Function("f", <<>>, "bool",
             <<"let", "x", "=", "not", "true", "or", "-", "int", "<", "int", "*", "int", "Semicolon",
               "while", "x", "and", "true", "LBrace", "x", "=", "false", "Semicolon", "RBrace",
               "return", "(", "x", ")", "Semicolon">>)

Seeds == {Forward, Nested, Loops}

\* The edits: a token left out, put in or replaced, two neighbours swapped.
Alphabet == {"fn", "f", "g", "int", "true", "LBrace", "RBrace", "(", ")", "Semicolon", "Comma",
             "=", "else"}
Edits(s) ==
  {RemoveAt(s, k) : k \in DOMAIN s}
  \cup {InsertAt(s, k, t) : k \in 1 .. Len(s) + 1, t \in Alphabet}
  \cup {ReplaceAt(s, k, t) : k \in DOMAIN s, t \in Alphabet}
  \cup {[s EXCEPT ![k] = s[k + 1], ![k + 1] = s[k]] : k \in 1 .. Len(s) - 1}

SmallSources == {Append(s, "Eof") : s \in {<<>>} \cup Seeds \cup UNION {Edits(s) : s \in Seeds}}
=============================================================================
