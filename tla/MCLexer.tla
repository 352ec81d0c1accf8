------------------------------ MODULE MCLexer -------------------------------
(***************************************************************************)
(* Lexer on all short texts over a few characters, one or two of each kind *)
(* that the scanner tells apart.                                           *)
(***************************************************************************)
EXTENDS Lexer

CONSTANT MaxLen  (* bounds the length of a text                            *)

MCSpace == {" ", "\n", "\r"}

(* The characters of the texts.                                            *)
Alphabet == {"i", "f", "1", "\n", "/", "*", "=", "!", "'", "#"}

Texts(A) == UNION {[1..n -> A] : n \in 0..MaxLen}

(* And longer texts that begin with a comment.                             *)
MCBuf == Texts(Alphabet) \cup {<<"/", "*">> \o s : s \in Texts({"i", "\n", "*", "/"})}

(* Of the keywords the two that are short.                                 *)
MCKeywords ==
  [w \in {<<"i", "f">>, <<"a", "s">>} |-> IF w = <<"i", "f">> THEN "T_IF" ELSE "T_AS"]
=============================================================================
