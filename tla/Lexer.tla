------------------------------- MODULE Lexer --------------------------------
(***************************************************************************)
(* The lexer of src/lexer.c: lex_analyze turns the text of a program into  *)
(* tokens.  One step is one turn of one of its loops.                      *)
(*                                                                         *)
(* A character is a string of length one.  Of the position of a token only *)
(* the start is kept, and where its text starts, which the code forgets.   *)
(***************************************************************************)
EXTENDS Integers, Sequences, FiniteSets

CONSTANTS
  Buf,       (* the texts that may be read                                 *)
  Letter,    (* isalpha                                                    *)
  Digit,     (* isdigit                                                    *)
  Space,     (* isspace: line breaks and others                            *)
  Other,     (* characters that start no token                             *)
  Keywords,  (* the table keywords: words |-> types of token               *)
  NDEBUG     (* is the build one without assertions                        *)

(* The tables chartokens and multichar_tokens.                             *)
BinaryChar == {"+", "-", "/", "*", "%", "<", ">"}
Bracket    == {"(", ")", "{", "}", "[", "]"}
CharToken  == BinaryChar \cup Bracket \cup {";", "=", ",", "."}
TypeOfChar(c) ==
  CASE c \in BinaryChar -> "T_BINARY_OPERATOR"
    [] c = ";" -> "T_SEMICOLON"
    [] c = "=" -> "T_ASSIGNMENT"
    [] c = "," -> "T_COMMA"
    [] c = "." -> "T_PERIOD"
    [] c = "(" -> "T_PAREN_OPEN"
    [] c = ")" -> "T_PAREN_CLOSE"
    [] c = "{" -> "T_BLOCK_BRACE_OPEN"
    [] c = "}" -> "T_BLOCK_BRACE_CLOSE"
    [] c = "[" -> "T_SQUARE_BRACE_OPEN"
    [] c = "]" -> "T_SQUARE_BRACE_CLOSE"
Multichar == { <<"=", "=", "=">>, <<"!", "=", "=">>, <<"=", "=">>, <<"!", "=">>,
               <<">", "=">>, <<"<", "=">> }

Quote     == {"\"", "'"}
LineBreak == {"\n", "\r"}
NUL       == "\\0"
Char      == Letter \cup Digit \cup Space \cup CharToken \cup Quote \cup {"!", "_"} \cup Other

KeywordType == {"T_VAR", "T_CONST", "T_FUNCTION", "T_ARRAY", "T_IMPORT", "T_IF", "T_ELSE",
                "T_LOOP", "T_AS"}
TokenType   == KeywordType \cup {TypeOfChar(c) : c \in CharToken}
                 \cup {"T_IDENTIFIER", "T_INT_LIT", "T_STRING", "T_EOF"}

ASSUME BufAssumption == Buf \subseteq Seq(Char)
(* The kinds of characters that the scanner tells apart have no character  *)
(* in common.                                                              *)
Kinds == <<Letter, Digit, Space, CharToken, Quote, {"!", "_"}, Other>>
ASSUME CharAssumption ==
  /\ LineBreak \subseteq Space
  /\ \A i, j \in 1..7 : i # j => Kinds[i] \cap Kinds[j] = {}
ASSUME KeywordsAssumption ==
  /\ NDEBUG \in BOOLEAN
  /\ Keywords \in [DOMAIN Keywords -> KeywordType]

VARIABLES
  buf, index, current_line, current_column,
  mode,          (* the loop that is going on: "analyze" is lex_analyze's  *)
  start,         (* where the token in progress starts                     *)
  column_start,  (* and its column                                         *)
  tokens,
  status         (* "running", "done", "syntax_error", "aborted"           *)

vars == <<buf, index, current_line, current_column, mode, start, column_start, tokens, status>>

Init ==
  /\ buf \in Buf
  /\ index = 0
  /\ current_line = 1
  /\ current_column = 1
  /\ mode = "analyze"
  /\ start = 0
  /\ column_start = 1
  /\ tokens = <<>>
  /\ status = "running"

-----------------------------------------------------------------------------
lex_has_value == index < Len(buf)
At(k) == buf[k + 1]
lex_char == At(index)

(* Does the text go on with these characters?                              *)
Follows(w) ==
  /\ index + Len(w) <= Len(buf)
  /\ \A k \in 1..Len(w) : At(index + k - 1) = w[k]

(* The position after a character.  Mutant: a line break leaves the column. *)
Line(line, c)         == IF c \in LineBreak THEN line + 1 ELSE line
ColumnKept(column, c) == column + 1
Column(column, c)     == IF c \in LineBreak THEN 1 ELSE column + 1

(* lex_char_forward.                                                       *)
Forward ==
  /\ index' = index + 1
  /\ current_line' = Line(current_line, lex_char)
  /\ current_column' = Column(current_column, lex_char)
  /\ UNCHANGED buf

(* Several characters that break no line.                                  *)
Skip(n) ==
  /\ index' = index + n
  /\ current_column' = current_column + n
  /\ UNCHANGED <<buf, current_line>>

(* lex_tokens_array_push: the line is the one the token ends on.           *)
Push(type, value) ==
  tokens' = Append(tokens, [type |-> type, value |-> value, from |-> start,
                            line_start |-> current_line, column_start |-> column_start])
PushNow(type, value) ==
  tokens' = Append(tokens, [type |-> type, value |-> value, from |-> index,
                            line_start |-> current_line, column_start |-> current_column])

(* The text from the start of the token in progress.                       *)
Text(from) == SubSeq(buf, from + 1, index)

In(m) == status = "running" /\ mode = m

Stop(how) ==
  /\ status' = how
  /\ UNCHANGED <<buf, index, current_line, current_column, mode, start, column_start, tokens>>

SyntaxError == Stop("syntax_error")

Enter(m) ==
  /\ mode' = m
  /\ start' = index
  /\ column_start' = current_column
  /\ UNCHANGED <<tokens, status>>

Stay  == UNCHANGED <<mode, start, column_start, tokens, status>>
Leave == mode' = "analyze" /\ UNCHANGED <<start, column_start, status>>

-----------------------------------------------------------------------------
LineComment ==
  /\ In("analyze")
  /\ Follows(<<"/", "/">>)
  /\ Enter("line_comment")
  /\ UNCHANGED <<buf, index, current_line, current_column>>

InLineComment ==
  /\ In("line_comment")
  /\ \/ /\ lex_has_value
        /\ lex_char # "\n"
        /\ Forward
        /\ Stay
     \/ /\ ~lex_has_value \/ Follows(<<"\n">>)
        /\ Leave
        /\ UNCHANGED <<buf, index, current_line, current_column, tokens>>

(* Mutant: of the opening of the comment only the slash is read.           *)
CommentSlash ==
  /\ In("analyze")
  /\ Follows(<<"/", "*">>)
  /\ Skip(1)
  /\ Enter("comment")

Comment ==
  /\ In("analyze")
  /\ Follows(<<"/", "*">>)
  /\ Skip(2)
  /\ Enter("comment")

(* The characters that a read may give: the text ends with a null byte,    *)
(* and nobody knows what comes after that.                                 *)
Read(k) == IF k < Len(buf) THEN {At(k)} ELSE IF k = Len(buf) THEN {NUL} ELSE Char

(* The test for a comment that is not closed.  It asks for two characters  *)
(* after the loop has ended for want of them.                              *)
Unterminated ==
  IF index + 1 < Len(buf) THEN At(index) # "*" /\ At(index + 1) # "/" ELSE FALSE

(* The assertion of lex_char_forward, when it is called n times.  Mutant:  *)
(* it passes at the end of the text.                                       *)
AssertedAtEnd(n) == index <= Len(buf) \/ NDEBUG
Asserted(n)      == index + n <= Len(buf) \/ NDEBUG

InComment ==
  /\ In("comment")
  /\ \/ /\ index + 1 < Len(buf)
        /\ ~Follows(<<"*", "/">>)
        /\ Forward
        /\ Stay
     \/ /\ index + 1 >= Len(buf) \/ Follows(<<"*", "/">>)
        /\ IF Unterminated THEN SyntaxError
           ELSE \/ ~Asserted(2) /\ Stop("aborted")
                \/ /\ Asserted(2)
                   /\ index' = index + 2
                   /\ \E c \in Read(index), d \in Read(index + 1) :
                        /\ current_line' = Line(Line(current_line, c), d)
                        /\ current_column' = Column(Column(current_column, c), d)
                   /\ Leave
                   /\ UNCHANGED <<buf, tokens>>

(* Mutant: the blank is not read.                                          *)
WhiteSpaceKept ==
  /\ In("analyze")
  /\ lex_has_value
  /\ lex_char \in Space
  /\ UNCHANGED vars

WhiteSpace ==
  /\ In("analyze")
  /\ lex_has_value
  /\ lex_char \in Space
  /\ Forward
  /\ Stay

(* Mutant: any operator that follows.                                      *)
AnyMultichar(w) ==
  /\ In("analyze")
  /\ Follows(w)
  /\ Skip(Len(w))
  /\ PushNow("T_BINARY_OPERATOR", w)
  /\ UNCHANGED <<mode, start, column_start, status>>

(* The longest operator that follows.                                      *)
lex_multichar_operators(w) ==
  /\ In("analyze")
  /\ Follows(w)
  /\ \A v \in Multichar : Follows(v) => Len(v) <= Len(w)
  /\ Skip(Len(w))
  /\ PushNow("T_BINARY_OPERATOR", w)
  /\ UNCHANGED <<mode, start, column_start, status>>

lex_push_char_token ==
  /\ In("analyze")
  /\ lex_has_value
  /\ lex_char \in CharToken
  /\ ~Follows(<<"/", "/">>) /\ ~Follows(<<"/", "*">>)
  /\ \A w \in Multichar : ~Follows(w)
  /\ Skip(1)
  /\ PushNow(TypeOfChar(lex_char), <<lex_char>>)
  /\ UNCHANGED <<mode, start, column_start, status>>

lex_string ==
  /\ In("analyze")
  /\ lex_has_value
  /\ lex_char \in Quote
  /\ Skip(1)
  /\ Enter("string")

InString ==
  /\ In("string")
  /\ \/ /\ lex_has_value
        /\ lex_char # At(start)
        /\ Forward
        /\ Stay
     \/ /\ lex_has_value
        /\ lex_char = At(start)
        /\ Push("T_STRING", Text(start + 1))
        /\ Skip(1)
        /\ Leave
     \/ ~lex_has_value /\ SyntaxError

lex_number ==
  /\ In("analyze")
  /\ lex_has_value
  /\ lex_char \in Digit
  /\ Enter("number")
  /\ UNCHANGED <<buf, index, current_line, current_column>>

InNumber ==
  /\ In("number")
  /\ IF lex_has_value /\ lex_char \in Digit
     THEN Skip(1) /\ Stay
     ELSE /\ Push("T_INT_LIT", Text(start))
          /\ Leave
          /\ UNCHANGED <<buf, index, current_line, current_column>>

lex_identifier_or_keyword ==
  /\ In("analyze")
  /\ lex_has_value
  /\ lex_char \in Letter \cup {"_"}
  /\ Enter("identifier")
  /\ UNCHANGED <<buf, index, current_line, current_column>>

WordChar == Letter \cup Digit \cup {"_"}

convert_str_to_token(word) ==
  IF word \in DOMAIN Keywords THEN Keywords[word] ELSE "T_IDENTIFIER"

InIdentifier ==
  /\ In("identifier")
  /\ IF lex_has_value /\ lex_char \in WordChar
     THEN Skip(1) /\ Stay
     ELSE /\ Push(convert_str_to_token(Text(start)), Text(start))
          /\ Leave
          /\ UNCHANGED <<buf, index, current_line, current_column>>

UnknownToken ==
  /\ In("analyze")
  /\ lex_has_value
  /\ lex_char \in Other \cup {"!"}
  /\ \A w \in Multichar : ~Follows(w)
  /\ SyntaxError

(* Mutant: the end of the text is not marked.                              *)
EndOfFileSilent ==
  /\ In("analyze")
  /\ ~lex_has_value
  /\ status' = "done"
  /\ UNCHANGED <<buf, index, current_line, current_column, mode, start, column_start, tokens>>

EndOfFile ==
  /\ In("analyze")
  /\ ~lex_has_value
  /\ PushNow("T_EOF", <<>>)
  /\ status' = "done"
  /\ UNCHANGED <<buf, index, current_line, current_column, mode, start, column_start>>

Step ==
  \/ LineComment \/ InLineComment
  \/ Comment \/ InComment
  \/ WhiteSpace
  \/ \E w \in Multichar : lex_multichar_operators(w)
  \/ lex_push_char_token
  \/ lex_string \/ InString
  \/ lex_number \/ InNumber
  \/ lex_identifier_or_keyword \/ InIdentifier
  \/ UnknownToken
  \/ EndOfFile

Terminated == status # "running" /\ UNCHANGED vars

Next == Step \/ Terminated

Spec == Init /\ [][Next]_vars

(* The process is sequential and nothing in it waits.                      *)
FairSpec == Spec /\ WF_vars(Step)

-----------------------------------------------------------------------------
Token == [type : TokenType, value : Seq(Char), from : Nat, line_start : Nat, column_start : Nat]

(* The lexer's state, and that it reads past the end of the text only in   *)
(* the build without assertions, and then at most two characters.          *)
TypeOK ==
  /\ buf \in Seq(Char)
  /\ index \in Nat /\ index <= Len(buf) + 2
  /\ ~NDEBUG => index <= Len(buf)
  /\ current_line \in Nat
  /\ current_column \in Nat
  /\ mode \in {"analyze", "line_comment", "comment", "string", "number", "identifier"}
  /\ start \in Nat
  /\ column_start \in Nat
  /\ tokens \in Seq(Token)
  /\ status \in {"running", "done", "syntax_error", "aborted"}

(* What the parser relies on: the sequence of tokens ends with T_EOF,      *)
(* which is nowhere else in it, exactly when lex_analyze returns.          *)
EofLast ==
  /\ status = "done" => tokens # <<>> /\ tokens[Len(tokens)].type = "T_EOF"
  /\ \A i \in 1..Len(tokens) :
       tokens[i].type = "T_EOF" => i = Len(tokens) /\ status = "done"

(* The number of the line and of the column at a place of the text,        *)
(* counted from the text alone.                                            *)
Breaks(k)   == {i \in 1..k : buf[i] \in LineBreak}
LineAt(k)   == 1 + Cardinality(Breaks(k))
ColumnAt(k) == CHOOSE n \in 1..k + 1 : \/ n = k + 1 /\ Breaks(k) = {}
                                       \/ k + 1 - n \in Breaks(k) /\ \A i \in Breaks(k) : i <= k + 1 - n

(* Where the text of a token ends.                                         *)
End(t) == t.from + Len(t.value) + (IF t.type = "T_STRING" THEN 2 ELSE 0)

(* The position that error messages give for a token is that of its first  *)
(* character, but for strings over several lines, which have the line they *)
(* end on; the counters agree with the text after every character.         *)
Positions ==
  \A i \in 1..Len(tokens) :
    LET t == tokens[i]
    IN  t.from <= Len(buf) =>
          /\ t.line_start = LineAt(End(t))
          /\ t.column_start = ColumnAt(t.from)

(* Where the next token starts after a place of the text: blanks and       *)
(* comments are skipped, and a comment that is not closed has no end.      *)
Closes(k)  == {j \in k + 2..Len(buf) - 2 : At(j) = "*" /\ At(j + 1) = "/"}
NewLine(k) == {j \in k..Len(buf) - 1 : At(j) = "\n"}
Least(S)   == CHOOSE m \in S : \A n \in S : m <= n
Opens(k, c) == k + 1 < Len(buf) /\ At(k) = "/" /\ At(k + 1) = c
NextStart ==
  LET skip[k \in 0..Len(buf)] ==
        IF k = Len(buf) THEN k
        ELSE IF Opens(k, "/") THEN skip[Least(NewLine(k) \cup {Len(buf)})]
        ELSE IF Opens(k, "*") THEN IF Closes(k) = {} THEN Len(buf) ELSE skip[Least(Closes(k)) + 2]
        ELSE IF At(k) \in Space THEN skip[k + 1]
        ELSE k
  IN  skip

(* Nothing of the text is lost or read twice: between two tokens there are *)
(* only blanks and comments, as the text alone says.                       *)
Gaps ==
  \A i \in 1..Len(tokens) :
    tokens[i].from <= Len(buf) =>
      tokens[i].from = NextStart[IF i = 1 THEN 0 ELSE End(tokens[i - 1])]

(* A token is the text it stands on, and it is the longest: a word or a    *)
(* number does not go on, no longer operator begins where it begins.       *)
Longest ==
  \A i \in 1..Len(tokens) :
    LET t == tokens[i]
        rest == SubSeq(buf, End(t) + 1, Len(buf))
        more(S) == rest # <<>> /\ rest[1] \in S
    IN  t.type \notin {"T_STRING", "T_EOF"} =>
          /\ t.value = SubSeq(buf, t.from + 1, End(t))
          /\ t.type \in KeywordType \cup {"T_IDENTIFIER"} => ~more(WordChar)
          /\ t.type = "T_INT_LIT" => ~more(Digit)
          /\ t.type \in {"T_BINARY_OPERATOR", "T_ASSIGNMENT"} =>
               \A w \in Multichar :
                 Len(w) > Len(t.value) /\ t.from + Len(w) <= Len(buf)
                   => SubSeq(buf, t.from + 1, t.from + Len(w)) # w

(* The lexer ends, at the end of the text or with an error.                *)
Ends == <>(status # "running")

(* A comment that the text does not close is an error: lex_analyze has     *)
(* syntax_error("unterminated comment") for it.                            *)
CommentsClosed ==
  [][mode = "comment" /\ ~Follows(<<"*", "/">>) /\ index + 1 >= Len(buf)
       => status' = "syntax_error"]_vars
=============================================================================
