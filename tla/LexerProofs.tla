---------------------------- MODULE LexerProofs -----------------------------
(***************************************************************************)
(* Proofs about Lexer, for every text, every table of keywords and both    *)
(* builds: the state has its type, the lexer stays inside the text as far  *)
(* as the assertions go, and the tokens end with the only T_EOF.           *)
(***************************************************************************)
EXTENDS Lexer, SequenceTheorems, FiniteSetTheorems, WellFoundedInduction, TLAPS

(* Inside every loop but the outer one the lexer is inside the text, and   *)
(* the token in progress starts before.                                    *)
Inside ==
  mode # "analyze" =>
    /\ index <= Len(buf)
    /\ start <= index
    /\ mode = "string" => start < index

Inv == TypeOK /\ EofLast /\ Inside

(* A token that is not T_EOF can be pushed while the lexer runs.           *)
LEMMA PushKeeps ==
  ASSUME tokens \in Seq(Token), EofLast, status = "running",
         NEW t \in Token, t.type # "T_EOF",
         tokens' = Append(tokens, t), status' = "running"
  PROVE  tokens' \in Seq(Token) /\ EofLast'
<1>1. /\ tokens' \in Seq(Token)
      /\ Len(tokens') = Len(tokens) + 1
      /\ \A i \in 1..Len(tokens) : tokens'[i] = tokens[i]
      /\ tokens'[Len(tokens) + 1] = t
  OBVIOUS
<1>2. ASSUME NEW i \in 1..Len(tokens')
      PROVE  tokens'[i].type # "T_EOF"
  <2>1. CASE i = Len(tokens) + 1
    BY <2>1, <1>1
  <2>2. CASE i # Len(tokens) + 1
    <3>1. i \in 1..Len(tokens)
      BY <2>2, <1>1
    <3> QED BY <3>1, <1>1 DEF EofLast
  <2> QED BY <2>1, <2>2
<1> QED BY <1>1, <1>2 DEF EofLast

(* Steps that push nothing and do not end the lexer keep EofLast.          *)
LEMMA QuietKeeps ==
  ASSUME EofLast, status = "running", tokens' = tokens, status' # "done"
  PROVE  EofLast'
BY DEF EofLast

LEMMA CharTypes ==
  /\ \A c \in CharToken : TypeOfChar(c) \in TokenType /\ TypeOfChar(c) # "T_EOF"
  /\ CharToken \subseteq Char
  /\ "T_BINARY_OPERATOR" \in TokenType
<1>1. \A c \in CharToken : TypeOfChar(c) \in TokenType
  BY DEF TokenType
<1>2. \A c \in CharToken : TypeOfChar(c) # "T_EOF"
  BY DEF TypeOfChar, CharToken, BinaryChar, Bracket
<1>3. "+" \in CharToken /\ TypeOfChar("+") = "T_BINARY_OPERATOR"
  BY DEF TypeOfChar, CharToken, BinaryChar, Bracket
<1> QED BY <1>1, <1>2, <1>3 DEF Char

LEMMA OperatorTypes ==
  \A w \in Multichar : w \in Seq(Char) /\ Len(w) \in {2, 3}
<1>1. {"=", "!", ">", "<"} \subseteq Char
  BY DEF Char, CharToken, BinaryChar
<1>2. \A a, b \in Char : <<a, b>> \in Seq(Char) /\ Len(<<a, b>>) \in {2, 3}
  OBVIOUS
<1>3. \A a, b, c \in Char : <<a, b, c>> \in Seq(Char) /\ Len(<<a, b, c>>) \in {2, 3}
  OBVIOUS
<1>4. "=" \in Char /\ "!" \in Char /\ ">" \in Char /\ "<" \in Char
  BY <1>1
<1> QED BY <1>2, <1>3, <1>4, Zenon DEF Multichar

LEMMA TextType ==
  ASSUME TypeOK, NEW k \in Nat, k <= index, index <= Len(buf)
  PROVE  Text(k) \in Seq(Char)
<1>1. CASE k + 1 <= index
  BY <1>1, SubSeqProperties DEF Text, TypeOK
<1>2. CASE k = index
  BY <1>2, SubSeqProperties DEF Text, TypeOK
<1> QED BY <1>1, <1>2 DEF TypeOK

-----------------------------------------------------------------------------
LEMMA InitOK == Init => Inv
<1> SUFFICES ASSUME Init PROVE Inv
  OBVIOUS
<1>1. buf \in Seq(Char) /\ Len(buf) \in Nat
  BY BufAssumption DEF Init
<1> QED BY <1>1 DEF Init, Inv, TypeOK, EofLast, Inside

(* A character of the text is read: what every loop relies on.             *)
LEMMA Reading ==
  ASSUME TypeOK, lex_has_value, Forward
  PROVE  /\ index' = index + 1 /\ index' \in Nat /\ index' <= Len(buf') /\ buf' = buf
         /\ current_line' \in Nat /\ current_column' \in Nat
BY DEF TypeOK, lex_has_value, Forward, Line, Column

LEMMA Skipping ==
  ASSUME TypeOK, NEW n \in Nat, index + n <= Len(buf), Skip(n)
  PROVE  /\ index' = index + n /\ index' \in Nat /\ index' <= Len(buf') /\ buf' = buf
         /\ current_line' \in Nat /\ current_column' \in Nat
BY DEF TypeOK, Skip

LEMMA StepOK == Inv /\ [Next]_vars => Inv'
<1> SUFFICES ASSUME Inv, [Next]_vars PROVE Inv'
  OBVIOUS
<1> USE DEF Inv
<1>len. Len(buf) \in Nat
  BY DEF TypeOK
<1>stop. ASSUME status = "running", NEW how \in {"syntax_error", "aborted"}, Stop(how) PROVE Inv'
  <2>1. EofLast'
    BY <1>stop, QuietKeeps DEF Stop
  <2> QED BY <1>stop, <2>1 DEF Stop, TypeOK, Inside
<1>stay. ASSUME status = "running", lex_has_value, Forward, Stay PROVE Inv'
  <2>1. EofLast'
    BY <1>stay, QuietKeeps DEF Stay
  <2> QED BY <1>stay, <2>1, Reading DEF Stay, TypeOK, Inside
<1>1. CASE LineComment
  <2>1. EofLast'
    BY <1>1, QuietKeeps DEF LineComment, In, Enter
  <2> QED BY <1>1, <2>1, <1>len DEF LineComment, In, Enter, TypeOK, Inside, Follows
<1>2. CASE InLineComment
  <2>1. CASE lex_has_value /\ Forward /\ Stay
    BY <1>2, <2>1, <1>stay DEF InLineComment, In
  <2>2. CASE Leave /\ UNCHANGED <<buf, index, current_line, current_column, tokens>>
    <3>1. EofLast'
      BY <1>2, <2>2, QuietKeeps DEF InLineComment, In, Leave
    <3> QED BY <2>2, <3>1 DEF Leave, TypeOK, Inside
  <2> QED BY <1>2, <2>1, <2>2 DEF InLineComment
<1>3. CASE Comment
  <2>1. EofLast'
    BY <1>3, QuietKeeps DEF Comment, In, Enter
  <2>2. index + 2 <= Len(buf) /\ Skip(2)
    BY <1>3 DEF Comment, Follows
  <2> QED BY <1>3, <2>1, <2>2, Skipping DEF Comment, Enter, TypeOK, Inside
<1>4. CASE InComment
  <2>1. CASE index + 1 < Len(buf) /\ Forward /\ Stay
    <3>1. lex_has_value
      BY <2>1, <1>len DEF lex_has_value, TypeOK
    <3> QED BY <1>4, <2>1, <3>1, <1>stay DEF InComment, In
  <2>2. CASE SyntaxError \/ Stop("aborted")
    BY <1>4, <2>2, <1>stop DEF InComment, In, SyntaxError
  <2>3. CASE /\ Asserted(2)
             /\ index' = index + 2
             /\ \E c \in Read(index), d \in Read(index + 1) :
                  /\ current_line' = Line(Line(current_line, c), d)
                  /\ current_column' = Column(Column(current_column, c), d)
             /\ Leave
             /\ UNCHANGED <<buf, tokens>>
    <3>1. EofLast'
      BY <1>4, <2>3, QuietKeeps DEF InComment, In, Leave
    <3>2. index <= Len(buf)
      BY <1>4 DEF InComment, In, Inside
    <3>3. index' <= Len(buf') + 2 /\ (~NDEBUG => index' <= Len(buf')) /\ index' \in Nat
      BY <2>3, <3>2, <1>len DEF Asserted, TypeOK
    <3>4. current_line' \in Nat /\ current_column' \in Nat
      BY <2>3 DEF Line, Column, TypeOK
    <3> QED BY <2>3, <3>1, <3>3, <3>4 DEF Leave, TypeOK, Inside
  <2> QED BY <1>4, <2>1, <2>2, <2>3 DEF InComment
<1>5. CASE WhiteSpace
  BY <1>5, <1>stay DEF WhiteSpace, In
<1>6. ASSUME NEW w \in Multichar, lex_multichar_operators(w) PROVE Inv'
  <2>1. Len(w) \in Nat /\ w \in Seq(Char) /\ index + Len(w) <= Len(buf) /\ Skip(Len(w))
    BY <1>6, OperatorTypes DEF lex_multichar_operators, Follows
  <2>2. [type |-> "T_BINARY_OPERATOR", value |-> w, from |-> index,
         line_start |-> current_line, column_start |-> current_column] \in Token
    BY <2>1, CharTypes DEF Token, TypeOK
  <2>3. tokens' \in Seq(Token) /\ EofLast'
    BY <1>6, <2>2, PushKeeps DEF lex_multichar_operators, PushNow, In, TypeOK
  <2> QED BY <1>6, <2>1, <2>3, Skipping DEF lex_multichar_operators, TypeOK, Inside, In
<1>7. CASE lex_push_char_token
  <2>1. 1 \in Nat /\ index + 1 <= Len(buf) /\ Skip(1)
    BY <1>7, <1>len DEF lex_push_char_token, lex_has_value, TypeOK
  <2>2. lex_char \in CharToken /\ <<lex_char>> \in Seq(Char)
    BY <1>7, CharTypes DEF lex_push_char_token
  <2>3. [type |-> TypeOfChar(lex_char), value |-> <<lex_char>>, from |-> index,
         line_start |-> current_line, column_start |-> current_column] \in Token
    BY <2>2, CharTypes DEF Token, TypeOK
  <2>4. tokens' \in Seq(Token) /\ EofLast'
    BY <1>7, <2>2, <2>3, PushKeeps, CharTypes DEF lex_push_char_token, PushNow, In, TypeOK
  <2> QED BY <1>7, <2>1, <2>4, Skipping DEF lex_push_char_token, TypeOK, Inside, In
<1>8. CASE lex_string
  <2>1. 1 \in Nat /\ index + 1 <= Len(buf) /\ Skip(1)
    BY <1>8, <1>len DEF lex_string, lex_has_value, TypeOK
  <2>2. EofLast'
    BY <1>8, QuietKeeps DEF lex_string, In, Enter
  <2> QED BY <1>8, <2>1, <2>2, Skipping DEF lex_string, Enter, TypeOK, Inside
<1>9. CASE InString
  <2>1. CASE lex_has_value /\ Forward /\ Stay
    BY <1>9, <2>1, <1>stay DEF InString, In
  <2>2. CASE lex_has_value /\ Push("T_STRING", Text(start + 1)) /\ Skip(1) /\ Leave
    <3>1. index \in Nat /\ 1 \in Nat /\ index + 1 <= Len(buf) /\ start + 1 \in Nat /\ start + 1 <= index
      BY <1>9, <2>2, <1>len DEF InString, In, lex_has_value, Inside, TypeOK
    <3>2. Text(start + 1) \in Seq(Char)
      BY <3>1, TextType, <1>len
    <3>3. [type |-> "T_STRING", value |-> Text(start + 1), from |-> start,
           line_start |-> current_line, column_start |-> column_start] \in Token
      BY <3>2 DEF Token, TokenType, TypeOK
    <3>4. tokens' \in Seq(Token) /\ EofLast'
      BY <1>9, <2>2, <3>3, PushKeeps DEF InString, Push, Leave, In, TypeOK
    <3> QED BY <2>2, <3>1, <3>4, Skipping DEF Leave, TypeOK, Inside
  <2>3. CASE SyntaxError
    BY <1>9, <2>3, <1>stop DEF InString, In, SyntaxError
  <2> QED BY <1>9, <2>1, <2>2, <2>3 DEF InString
<1>10. CASE lex_number
  <2>1. EofLast'
    BY <1>10, QuietKeeps DEF lex_number, In, Enter
  <2> QED BY <1>10, <2>1, <1>len DEF lex_number, In, Enter, TypeOK, Inside, lex_has_value
<1>word. ASSUME status = "running", mode # "analyze",
                NEW type \in TokenType, type # "T_EOF",
                Push(type, Text(start)), Leave,
                UNCHANGED <<buf, index, current_line, current_column>>
         PROVE  Inv'
  <2>1. Text(start) \in Seq(Char)
    BY <1>word, TextType DEF Inside, TypeOK
  <2>2. [type |-> type, value |-> Text(start), from |-> start,
         line_start |-> current_line, column_start |-> column_start] \in Token
    BY <2>1 DEF Token, TypeOK
  <2>3. tokens' \in Seq(Token) /\ EofLast'
    BY <1>word, <2>2, PushKeeps DEF Push, Leave, TypeOK
  <2> QED BY <1>word, <2>3 DEF Leave, TypeOK, Inside
<1>on. ASSUME status = "running", lex_has_value, Skip(1), Stay PROVE Inv'
  <2>1. 1 \in Nat /\ index + 1 <= Len(buf)
    BY <1>on, <1>len DEF lex_has_value, TypeOK
  <2>2. EofLast'
    BY <1>on, QuietKeeps DEF Stay
  <2> QED BY <1>on, <2>1, <2>2, Skipping DEF Stay, TypeOK, Inside
<1>11. CASE InNumber
  <2>1. CASE lex_has_value /\ lex_char \in Digit
    BY <1>11, <2>1, <1>on DEF InNumber, In
  <2>2. CASE ~(lex_has_value /\ lex_char \in Digit)
    <3>1. "T_INT_LIT" \in TokenType
      BY DEF TokenType
    <3> QED BY <1>11, <2>2, <3>1, <1>word DEF InNumber, In
  <2> QED BY <2>1, <2>2
<1>12. CASE lex_identifier_or_keyword
  <2>1. EofLast'
    BY <1>12, QuietKeeps DEF lex_identifier_or_keyword, In, Enter
  <2>2. /\ In("analyze") /\ lex_has_value /\ Enter("identifier")
        /\ UNCHANGED <<buf, index, current_line, current_column>>
    BY <1>12, Zenon DEF lex_identifier_or_keyword
  <2> QED BY <2>1, <2>2, <1>len DEF In, Enter, TypeOK, Inside, lex_has_value
<1>13. CASE InIdentifier
  <2>1. CASE lex_has_value /\ lex_char \in WordChar
    BY <1>13, <2>1, <1>on DEF InIdentifier, In
  <2>2. CASE ~(lex_has_value /\ lex_char \in WordChar)
    <3>1. convert_str_to_token(Text(start)) \in KeywordType \cup {"T_IDENTIFIER"}
      BY KeywordsAssumption DEF convert_str_to_token
    <3>2. KeywordType \cup {"T_IDENTIFIER"} \subseteq TokenType /\ "T_EOF" \notin KeywordType
      BY DEF TokenType, KeywordType
    <3>3. /\ convert_str_to_token(Text(start)) \in TokenType
          /\ convert_str_to_token(Text(start)) # "T_EOF"
      BY <3>1, <3>2
    <3>4. /\ status = "running" /\ mode # "analyze"
          /\ Push(convert_str_to_token(Text(start)), Text(start))
          /\ Leave
          /\ UNCHANGED <<buf, index, current_line, current_column>>
      BY <1>13, <2>2 DEF InIdentifier, In
    <3> QED BY <3>3, <3>4, <1>word
  <2> QED BY <2>1, <2>2
<1>14. CASE UnknownToken
  BY <1>14, <1>stop DEF UnknownToken, In, SyntaxError
<1>15. CASE EndOfFile
  <2>1. [type |-> "T_EOF", value |-> <<>>, from |-> index,
         line_start |-> current_line, column_start |-> current_column] \in Token
    BY DEF Token, TokenType, TypeOK
  <2>2. PICK t \in Token : t.type = "T_EOF" /\ tokens' = Append(tokens, t)
    BY <1>15, <2>1 DEF EndOfFile, PushNow
  <2>3. /\ tokens' \in Seq(Token)
        /\ Len(tokens') = Len(tokens) + 1
        /\ \A i \in 1..Len(tokens) : tokens'[i] = tokens[i]
        /\ tokens'[Len(tokens) + 1] = t
        /\ Len(tokens) \in Nat
    BY <2>2 DEF TypeOK
  <2>4. status = "running" /\ status' = "done"
    BY <1>15 DEF EndOfFile, In
  <2>5. EofLast'
    BY <2>2, <2>3, <2>4 DEF EofLast
  <2> QED BY <1>15, <2>3, <2>4, <2>5 DEF EndOfFile, TypeOK, Inside, In
<1>16. CASE UNCHANGED vars
  BY <1>16 DEF vars, TypeOK, EofLast, Inside
<1> QED
  BY <1>1, <1>2, <1>3, <1>4, <1>5, <1>6, <1>7, <1>8, <1>9, <1>10, <1>11, <1>12, <1>13, <1>14,
     <1>15, <1>16 DEF Next, Step, Terminated

THEOREM Invariance == Spec => []Inv
<1> QED BY InitOK, StepOK, PTL DEF Spec

(* Every variable of the lexer has its type, and lex_char_forward leaves   *)
(* the text only when its assertion is compiled out, by two characters at  *)
(* most.                                                                   *)
THEOREM TypeCorrect == Spec => []TypeOK
<1>1. Inv => TypeOK
  BY DEF Inv
<1> QED BY <1>1, Invariance, PTL

(* The tokens that lex_analyze returns end with T_EOF and hold it nowhere  *)
(* else: what parser_is_eof and parser_expect rely on.                     *)
THEOREM EndsWithEof == Spec => []EofLast
<1>1. Inv => EofLast
  BY DEF Inv
<1> QED BY <1>1, Invariance, PTL

-----------------------------------------------------------------------------
(* The token that a step pushes.                                           *)
Operator(w) == [type |-> "T_BINARY_OPERATOR", value |-> w, from |-> index,
                line_start |-> current_line, column_start |-> current_column]
Sign        == [type |-> TypeOfChar(lex_char), value |-> <<lex_char>>, from |-> index,
                line_start |-> current_line, column_start |-> current_column]
Quoted      == [type |-> "T_STRING", value |-> Text(start + 1), from |-> start,
                line_start |-> current_line, column_start |-> column_start]
Number      == [type |-> "T_INT_LIT", value |-> Text(start), from |-> start,
                line_start |-> current_line, column_start |-> column_start]
Word        == [type |-> convert_str_to_token(Text(start)), value |-> Text(start),
                from |-> start, line_start |-> current_line, column_start |-> column_start]
Eof         == [type |-> "T_EOF", value |-> <<>>, from |-> index,
                line_start |-> current_line, column_start |-> current_column]

Pushed(t) ==
  \/ \E w \in Multichar : lex_multichar_operators(w) /\ t = Operator(w)
  \/ lex_push_char_token /\ t = Sign
  \/ InString /\ lex_has_value /\ lex_char = At(start) /\ Skip(1) /\ Leave /\ t = Quoted
  \/ InNumber /\ ~(lex_has_value /\ lex_char \in Digit) /\ Leave /\ t = Number
  \/ InIdentifier /\ ~(lex_has_value /\ lex_char \in WordChar) /\ Leave /\ t = Word
  \/ EndOfFile /\ t = Eof

(* A step leaves the text alone, and pushes one token or none.             *)
LEMMA StepPushes ==
  ASSUME Inv, [Next]_vars
  PROVE  /\ buf' = buf
         /\ tokens' = tokens \/ \E t : Pushed(t) /\ tokens' = Append(tokens, t)
<1>1. CASE LineComment
  BY <1>1 DEF LineComment, Enter
<1>2. CASE InLineComment
  BY <1>2 DEF InLineComment, Forward, Stay
<1>3. CASE Comment
  BY <1>3 DEF Comment, Enter, Skip
<1>4. CASE InComment
  BY <1>4 DEF InComment, Forward, Stay, SyntaxError, Stop
<1>5. CASE WhiteSpace
  BY <1>5 DEF WhiteSpace, Forward, Stay
<1>6. ASSUME NEW w \in Multichar, lex_multichar_operators(w)
      PROVE  buf' = buf /\ \E t : Pushed(t) /\ tokens' = Append(tokens, t)
  <2>1. buf' = buf /\ tokens' = Append(tokens, Operator(w))
    BY <1>6 DEF lex_multichar_operators, Skip, PushNow, Operator
  <2>2. Pushed(Operator(w))
    BY <1>6 DEF Pushed
  <2> QED BY <2>1, <2>2
<1>7. CASE lex_push_char_token
  <2>1. buf' = buf /\ tokens' = Append(tokens, Sign)
    BY <1>7 DEF lex_push_char_token, Skip, PushNow, Sign
  <2>2. Pushed(Sign)
    BY <1>7 DEF Pushed
  <2> QED BY <2>1, <2>2
<1>8. CASE lex_string
  BY <1>8 DEF lex_string, Enter, Skip
<1>9. CASE InString
  <2>1. CASE lex_has_value /\ lex_char = At(start) /\ Push("T_STRING", Text(start + 1))
             /\ Skip(1) /\ Leave
    <3>1. buf' = buf /\ tokens' = Append(tokens, Quoted)
      BY <2>1 DEF Skip, Push, Quoted
    <3>2. Pushed(Quoted)
      BY <1>9, <2>1 DEF Pushed
    <3> QED BY <3>1, <3>2
  <2> QED BY <1>9, <2>1 DEF InString, Forward, Stay, SyntaxError, Stop
<1>10. CASE lex_number
  BY <1>10 DEF lex_number, Enter
<1>11. CASE InNumber
  <2>1. CASE lex_has_value /\ lex_char \in Digit
    BY <1>11, <2>1 DEF InNumber, Skip, Stay
  <2>2. CASE ~(lex_has_value /\ lex_char \in Digit)
    <3>1. buf' = buf /\ tokens' = Append(tokens, Number) /\ Leave
      BY <1>11, <2>2 DEF InNumber, Push, Number
    <3>2. Pushed(Number)
      BY <1>11, <2>2, <3>1 DEF Pushed
    <3> QED BY <3>1, <3>2
  <2> QED BY <2>1, <2>2
<1>12. CASE lex_identifier_or_keyword
  BY <1>12 DEF lex_identifier_or_keyword, Enter
<1>13. CASE InIdentifier
  <2>1. CASE lex_has_value /\ lex_char \in WordChar
    BY <1>13, <2>1 DEF InIdentifier, Skip, Stay
  <2>2. CASE ~(lex_has_value /\ lex_char \in WordChar)
    <3>1. buf' = buf /\ tokens' = Append(tokens, Word) /\ Leave
      BY <1>13, <2>2 DEF InIdentifier, Push, Word
    <3>2. Pushed(Word)
      BY <1>13, <2>2, <3>1 DEF Pushed
    <3> QED BY <3>1, <3>2
  <2> QED BY <2>1, <2>2
<1>14. CASE UnknownToken
  BY <1>14 DEF UnknownToken, SyntaxError, Stop
<1>15. CASE EndOfFile
  <2>1. buf' = buf /\ tokens' = Append(tokens, Eof)
    BY <1>15 DEF EndOfFile, PushNow, Eof
  <2>2. Pushed(Eof)
    BY <1>15 DEF Pushed
  <2> QED BY <2>1, <2>2
<1>16. CASE UNCHANGED vars
  BY <1>16 DEF vars
<1> QED
  BY <1>1, <1>2, <1>3, <1>4, <1>5, <1>6, <1>7, <1>8, <1>9, <1>10, <1>11, <1>12, <1>13, <1>14,
     <1>15, <1>16 DEF Next, Step, Terminated

(* What follows in the text, said of the text.                             *)
LEMMA FollowsIs ==
  ASSUME TypeOK, NEW w \in Seq(Char), index + Len(w) <= Len(buf)
  PROVE  Follows(w) <=> SubSeq(buf, index + 1, index + Len(w)) = w
<1> DEFINE m == index + 1
           n == index + Len(w)
<1>1. index \in Nat /\ Len(w) \in Nat /\ Len(buf) \in Nat /\ buf \in Seq(Char)
  BY DEF TypeOK
<1>2. m \in Int /\ n \in Int /\ n - m + 1 = Len(w) /\ \A i \in m..n : buf[i] \in Char
  BY <1>1
<1>3. \A k \in 1..Len(w) : At(index + k - 1) = buf[m + k - 1]
  BY <1>1 DEF At
<1>4. (Len(w) = 0 => ~(m <= n)) /\ (Len(w) # 0 => m <= n)
  BY <1>1
<1> HIDE DEF m, n
<1>5. /\ SubSeq(buf, m, n) \in Seq(Char)
      /\ Len(SubSeq(buf, m, n)) = Len(w)
      /\ \A k \in 1..Len(w) : SubSeq(buf, m, n)[k] = buf[m + k - 1]
  BY <1>1, <1>2, <1>4, SubSeqProperties
<1>6. (SubSeq(buf, m, n) = w) <=> \A k \in 1..Len(w) : buf[m + k - 1] = w[k]
  <2>1. ASSUME \A k \in 1..Len(w) : buf[m + k - 1] = w[k]
        PROVE  SubSeq(buf, m, n) = w
    BY <1>5, <2>1, SeqEqual
  <2> QED BY <1>5, <2>1
<1> QED BY <1>3, <1>6 DEF Follows, m, n

(* What Longest says of one token.                                         *)
Rest(t)        == SubSeq(buf, End(t) + 1, Len(buf))
GoesOn(t, S)   == Rest(t) # <<>> /\ Rest(t)[1] \in S
LongerAt(t, w) == /\ Len(w) > Len(t.value) /\ t.from + Len(w) <= Len(buf)
                  /\ SubSeq(buf, t.from + 1, t.from + Len(w)) = w
LongestToken(t) ==
  t.type \notin {"T_STRING", "T_EOF"} =>
    /\ t.value = SubSeq(buf, t.from + 1, End(t))
    /\ t.type \in KeywordType \cup {"T_IDENTIFIER"} => ~GoesOn(t, WordChar)
    /\ t.type = "T_INT_LIT" => ~GoesOn(t, Digit)
    /\ t.type \in {"T_BINARY_OPERATOR", "T_ASSIGNMENT"} => \A w \in Multichar : ~LongerAt(t, w)

LEMMA LongestIs == Longest <=> \A i \in 1..Len(tokens) : LongestToken(tokens[i])
BY DEF Longest, LongestToken, LongerAt, GoesOn, Rest

LEMMA SignTypes ==
  \A c \in CharToken : TypeOfChar(c) \notin KeywordType \cup {"T_IDENTIFIER", "T_INT_LIT", "T_STRING"}
BY DEF TypeOfChar, CharToken, BinaryChar, Bracket, KeywordType

(* A token of the outer loop: no longer operator follows where it starts.  *)
LEMMA OuterLongest ==
  ASSUME TypeOK, NEW t, t.from = index, t.value \in Seq(Char), Follows(t.value),
         t.type \notin KeywordType \cup {"T_IDENTIFIER", "T_INT_LIT", "T_STRING"},
         \A w \in Multichar : Follows(w) => Len(w) <= Len(t.value)
  PROVE  LongestToken(t)
<1>1. index \in Nat /\ Len(t.value) \in Nat /\ Len(buf) \in Nat
  BY DEF TypeOK
<1>2. End(t) = index + Len(t.value)
  <2>1. (IF t.type = "T_STRING" THEN 2 ELSE 0) = 0
    OBVIOUS
  <2>2. End(t) = index + Len(t.value) + 0
    BY <2>1, Zenon DEF End
  <2> QED BY <1>1, <2>2
<1>3. index + Len(t.value) <= Len(buf)
  BY DEF Follows
<1>4. t.value = SubSeq(buf, t.from + 1, End(t))
  BY <1>2, <1>3, FollowsIs
<1>5. ASSUME NEW w \in Multichar, LongerAt(t, w) PROVE FALSE
  <2>1. w \in Seq(Char) /\ Len(w) \in Nat
    BY OperatorTypes
  <2>2. /\ Len(w) > Len(t.value)
        /\ index + Len(w) <= Len(buf)
        /\ SubSeq(buf, index + 1, index + Len(w)) = w
    BY <1>5 DEF LongerAt
  <2>3. Follows(w)
    BY <2>1, <2>2, FollowsIs
  <2>4. Len(w) <= Len(t.value)
    BY <2>3
  <2> QED BY <1>1, <2>1, <2>2, <2>4
<1> QED BY <1>4, <1>5 DEF LongestToken

(* A word or a number ends where the next character does not go on with it.*)
LEMMA InnerLongest ==
  ASSUME Inv, mode # "analyze", NEW t, t.from = start, t.value = Text(start), NEW S,
         ~(lex_has_value /\ lex_char \in S), t.type \notin {"T_STRING", "T_BINARY_OPERATOR", "T_ASSIGNMENT"}
  PROVE  t.value = SubSeq(buf, t.from + 1, End(t)) /\ ~GoesOn(t, S)
<1>1. /\ index \in Nat /\ start \in Nat /\ Len(buf) \in Nat /\ buf \in Seq(Char)
      /\ start <= index /\ index <= Len(buf)
  BY DEF Inv, TypeOK, Inside
<1> DEFINE m == start + 1
<1>2. m \in Int /\ index \in Int /\ (\A i \in m..index : buf[i] \in Char)
  BY <1>1
<1>3. Len(Text(start)) = IF m <= index THEN index - m + 1 ELSE 0
  BY <1>2, SubSeqProperties DEF Text
<1>4. Len(Text(start)) = index - start
  BY <1>1, <1>3
<1>5. End(t) = index
  BY <1>1, <1>4 DEF End
<1>6. t.value = SubSeq(buf, t.from + 1, End(t))
  BY <1>5 DEF Text
<1>7. CASE index < Len(buf)
  <2> DEFINE k == index + 1
             l == Len(buf)
  <2>1. /\ k \in Int /\ l \in Int /\ (\A i \in k..l : buf[i] \in Char)
        /\ 1 \in 1..l - k + 1 /\ k + 1 - 1 = index + 1
    BY <1>1, <1>7
  <2>2. Rest(t) = SubSeq(buf, k, l)
    BY <1>5 DEF Rest
  <2> HIDE DEF k, l
  <2>3. Rest(t)[1] = buf[k + 1 - 1]
    BY <2>1, <2>2, SubSeqProperties
  <2>4. Rest(t)[1] = lex_char
    BY <2>1, <2>3 DEF lex_char, At
  <2> QED BY <1>6, <1>7, <2>4 DEF lex_has_value, GoesOn
<1>8. CASE ~(index < Len(buf))
  <2>1. index + 1 \in Int /\ Len(buf) \in Int /\ Len(buf) < index + 1
    BY <1>1, <1>8
  <2>2. Rest(t) = <<>>
    BY <1>5, <2>1, SubSeqEmpty DEF Rest
  <2> QED BY <1>6, <2>2 DEF GoesOn
<1> QED BY <1>7, <1>8

LEMMA PushedLongest ==
  ASSUME Inv, NEW t, Pushed(t)
  PROVE  LongestToken(t)
<1>0. TypeOK
  BY DEF Inv
<1>1. ASSUME NEW w \in Multichar, lex_multichar_operators(w), t = Operator(w)
      PROVE  LongestToken(t)
  <2>1. w \in Seq(Char) /\ Follows(w) /\ \A v \in Multichar : Follows(v) => Len(v) <= Len(w)
    BY <1>1, OperatorTypes DEF lex_multichar_operators
  <2>2. t.from = index /\ t.value = w /\ t.type = "T_BINARY_OPERATOR"
    BY <1>1 DEF Operator
  <2>3. t.type \notin KeywordType \cup {"T_IDENTIFIER", "T_INT_LIT", "T_STRING"}
    BY <2>2 DEF KeywordType
  <2> QED BY <1>0, <2>1, <2>2, <2>3, OuterLongest
<1>2. CASE lex_push_char_token /\ t = Sign
  <2>1. lex_char \in CharToken /\ lex_has_value /\ \A v \in Multichar : ~Follows(v)
    BY <1>2 DEF lex_push_char_token
  <2>2. t.from = index /\ t.value = <<lex_char>> /\ t.type = TypeOfChar(lex_char)
    BY <1>2 DEF Sign
  <2>3. t.value \in Seq(Char)
    BY <2>1, <2>2, CharTypes
  <2>4. index \in Nat /\ Len(buf) \in Nat
    BY <1>0 DEF TypeOK
  <2>5. Len(t.value) = 1 /\ t.value[1] = At(index + 1 - 1)
    BY <2>2, <2>4 DEF lex_char
  <2>6. Follows(t.value)
    BY <2>1, <2>4, <2>5 DEF Follows, lex_has_value
  <2>7. t.type \notin KeywordType \cup {"T_IDENTIFIER", "T_INT_LIT", "T_STRING"}
    BY <2>1, <2>2, SignTypes
  <2> QED BY <1>0, <2>1, <2>2, <2>3, <2>6, <2>7, OuterLongest
<1>3. CASE t = Quoted \/ t = Eof
  <2>1. t.type \in {"T_STRING", "T_EOF"}
    BY <1>3 DEF Quoted, Eof
  <2> QED BY <2>1 DEF LongestToken
<1>4. CASE InNumber /\ ~(lex_has_value /\ lex_char \in Digit) /\ t = Number
  <2>1. t.from = start /\ t.value = Text(start) /\ t.type = "T_INT_LIT"
    BY <1>4 DEF Number
  <2>2. mode # "analyze"
    BY <1>4 DEF InNumber, In
  <2>3. t.type \notin KeywordType \cup {"T_IDENTIFIER"}
    BY <2>1 DEF KeywordType
  <2>4. t.value = SubSeq(buf, t.from + 1, End(t)) /\ ~GoesOn(t, Digit)
    BY <1>4, <2>1, <2>2, InnerLongest
  <2> QED BY <2>1, <2>3, <2>4 DEF LongestToken
<1>5. CASE InIdentifier /\ ~(lex_has_value /\ lex_char \in WordChar) /\ t = Word
  <2>1. /\ t.from = start /\ t.value = Text(start)
        /\ t.type = convert_str_to_token(Text(start))
    BY <1>5 DEF Word
  <2>2. mode # "analyze"
    BY <1>5 DEF InIdentifier, In
  <2>3. t.type \in KeywordType \cup {"T_IDENTIFIER"}
    BY <2>1, KeywordsAssumption DEF convert_str_to_token
  <2>4. t.type \notin {"T_STRING", "T_BINARY_OPERATOR", "T_ASSIGNMENT", "T_INT_LIT"}
    BY <2>3 DEF KeywordType
  <2>5. t.value = SubSeq(buf, t.from + 1, End(t)) /\ ~GoesOn(t, WordChar)
    BY <1>5, <2>1, <2>2, <2>4, InnerLongest
  <2> QED BY <2>4, <2>5 DEF LongestToken
<1> QED BY <1>1, <1>2, <1>3, <1>4, <1>5 DEF Pushed

LEMMA LongestStays == Inv /\ Longest /\ [Next]_vars => Longest'
<1> SUFFICES ASSUME Inv, Longest, [Next]_vars PROVE Longest'
  OBVIOUS
<1>1. buf' = buf
  BY StepPushes
<1>2. \A t : LongestToken(t)' <=> LongestToken(t)
  BY <1>1 DEF LongestToken, LongerAt, GoesOn, Rest, End
<1>3. Longest' <=> \A i \in 1..Len(tokens') : LongestToken(tokens'[i])
  BY <1>1 DEF Longest, LongestToken, LongerAt, GoesOn, Rest, End
<1>4. \A i \in 1..Len(tokens) : LongestToken(tokens[i])
  BY LongestIs
<1>5. CASE tokens' = tokens
  BY <1>3, <1>4, <1>5
<1>6. ASSUME NEW t, Pushed(t), tokens' = Append(tokens, t) PROVE Longest'
  <2>1. tokens \in Seq(Token) /\ Len(tokens) \in Nat
    BY DEF Inv, TypeOK
  <2>2. LongestToken(t)
    BY <1>6, PushedLongest
  <2>3. ASSUME NEW i \in 1..Len(tokens') PROVE LongestToken(tokens'[i])
    <3>1. CASE i \in 1..Len(tokens)
      <4>1. tokens'[i] = tokens[i]
        BY <1>6, <2>1, <3>1
      <4> QED BY <1>4, <3>1, <4>1
    <3>2. CASE i \notin 1..Len(tokens)
      <4>1. tokens'[i] = t
        BY <1>6, <2>1, <3>2
      <4> QED BY <2>2, <4>1
    <3> QED BY <3>1, <3>2
  <2> QED BY <1>3, <2>3
<1> QED BY <1>5, <1>6, StepPushes

(* A token is the text that it stands on and the longest that starts       *)
(* there, whatever the text: lex_number and lex_identifier_or_keyword stop *)
(* where their character class does, and lex_analyze tries the operators   *)
(* of several characters before those of one.                              *)
THEOREM TakesTheLongest == Spec => []Longest
<1>1. Init => Longest
  BY DEF Init, Longest
<1> QED BY <1>1, InitOK, StepOK, LongestStays, PTL DEF Spec

-----------------------------------------------------------------------------
(* No character of a token, quotes included, breaks a line.                *)
InLine == Letter \cup Digit \cup CharToken \cup Quote \cup {"!", "_"}

LEMMA NoBreakInLine == \A c \in InLine : c \notin LineBreak
<1>1. /\ Space \cap Letter = {} /\ Space \cap Digit = {} /\ Space \cap CharToken = {}
      /\ Space \cap Quote = {} /\ Space \cap {"!", "_"} = {}
  <2>1. /\ Kinds[1] = Letter /\ Kinds[2] = Digit /\ Kinds[3] = Space /\ Kinds[4] = CharToken
        /\ Kinds[5] = Quote /\ Kinds[6] = {"!", "_"}
    BY DEF Kinds
  <2>2. \A j \in 1..7 : 3 # j => Kinds[3] \cap Kinds[j] = {}
    BY CharAssumption
  <2>3. /\ Kinds[3] \cap Kinds[1] = {} /\ Kinds[3] \cap Kinds[2] = {}
        /\ Kinds[3] \cap Kinds[4] = {} /\ Kinds[3] \cap Kinds[5] = {}
        /\ Kinds[3] \cap Kinds[6] = {}
    <3>1. 1 \in 1..7 /\ 2 \in 1..7 /\ 4 \in 1..7 /\ 5 \in 1..7 /\ 6 \in 1..7
      OBVIOUS
    <3>2. 3 # 1 /\ 3 # 2 /\ 3 # 4 /\ 3 # 5 /\ 3 # 6
      OBVIOUS
    <3> QED BY <2>2, <3>1, <3>2, Zenon
  <2> QED BY <2>1, <2>3, Zenon
<1>2. LineBreak \subseteq Space
  BY CharAssumption
<1> QED BY <1>1, <1>2 DEF InLine

LEMMA OperatorsInLine == \A w \in Multichar : \A k \in 1..Len(w) : w[k] \in InLine
<1>1. "=" \in InLine /\ "!" \in InLine /\ ">" \in InLine /\ "<" \in InLine
  BY DEF InLine, CharToken, BinaryChar
<1>2. \A a, b \in InLine : \A k \in 1..Len(<<a, b>>) : <<a, b>>[k] \in InLine
  OBVIOUS
<1>3. \A a, b, c \in InLine : \A k \in 1..Len(<<a, b, c>>) : <<a, b, c>>[k] \in InLine
  OBVIOUS
<1> QED BY <1>1, <1>2, <1>3, Zenon DEF Multichar

(* A column is that of a place of the text, said without a choice.         *)
IsColumn(k, n) ==
  /\ n \in 1..k + 1
  /\ \/ n = k + 1 /\ Breaks(k) = {}
     \/ k + 1 - n \in Breaks(k) /\ \A i \in Breaks(k) : i <= k + 1 - n

LEMMA ColumnIs ==
  ASSUME NEW k \in Nat, NEW n, IsColumn(k, n)
  PROVE  ColumnAt(k) = n
<1>1. \A m : IsColumn(k, m) => m = n
  <2>1. Breaks(k) \subseteq Int
    BY DEF Breaks
  <2> TAKE m
  <2> HAVE IsColumn(k, m)
  <2>2. m \in Int /\ n \in Int
    BY DEF IsColumn
  <2>3. CASE Breaks(k) = {}
    BY <2>3 DEF IsColumn
  <2>4. CASE Breaks(k) # {}
    <3>1. k + 1 - m <= k + 1 - n /\ k + 1 - n <= k + 1 - m
      BY <2>4 DEF IsColumn
    <3> QED BY <2>2, <3>1
  <2> QED BY <2>3, <2>4
<1>2. ColumnAt(k) = CHOOSE m : IsColumn(k, m)
  BY DEF ColumnAt, IsColumn
<1> QED BY <1>1, <1>2

LEMMA BreaksFinite ==
  ASSUME NEW k \in Nat
  PROVE  /\ IsFiniteSet(Breaks(k)) /\ Cardinality(Breaks(k)) \in Nat
         /\ Breaks(k) \subseteq 1..k
<1>1. Breaks(k) \in SUBSET (1..k)
  BY DEF Breaks
<1>2. IsFiniteSet(1..k)
  BY FS_Interval
<1>3. IsFiniteSet(Breaks(k))
  BY <1>1, <1>2, FS_Subset
<1> QED BY <1>1, <1>3, FS_CardinalityType

(* After characters that break no line the line is the same.               *)
LEMMA SameLine ==
  ASSUME NEW k \in Nat, NEW n \in Nat, \A j \in k..k + n - 1 : At(j) \notin LineBreak
  PROVE  /\ Breaks(k + n) = Breaks(k)
         /\ LineAt(k + n) = LineAt(k)
         /\ \A c : IsColumn(k, c) => IsColumn(k + n, c + n)
<1>1. ASSUME NEW i \in Int, k < i, i <= k + n PROVE buf[i] \notin LineBreak
  <2>1. i - 1 \in k..k + n - 1 /\ i - 1 + 1 = i
    BY <1>1
  <2> QED BY <2>1 DEF At
<1>2. Breaks(k + n) = Breaks(k)
  BY <1>1 DEF Breaks
<1>3. ASSUME NEW c, IsColumn(k, c) PROVE IsColumn(k + n, c + n)
  <2>1. c \in Int /\ c + n \in 1..k + n + 1
    BY <1>3 DEF IsColumn
  <2>2. k + n + 1 - (c + n) = k + 1 - c /\ (c = k + 1 => c + n = k + n + 1)
    BY <2>1
  <2> HIDE DEF Breaks
  <2> QED BY <1>2, <1>3, <2>1, <2>2 DEF IsColumn
<1> QED BY <1>2, <1>3 DEF LineAt

(* After a character the counters of lex_char_forward are right again.     *)
LEMMA NextPlace ==
  ASSUME NEW k \in Nat, NEW c, IsColumn(k, c)
  PROVE  /\ LineAt(k + 1) = Line(LineAt(k), At(k))
         /\ IsColumn(k + 1, Column(c, At(k)))
<1>1. CASE At(k) \notin LineBreak
  <2>1. \A j \in k..k + 1 - 1 : At(j) \notin LineBreak
    BY <1>1
  <2> QED BY <1>1, <2>1, SameLine DEF Line, Column
<1>2. CASE At(k) \in LineBreak
  <2>1. Breaks(k + 1) = Breaks(k) \cup {k + 1}
    BY <1>2 DEF Breaks, At
  <2>2. IsFiniteSet(Breaks(k)) /\ k + 1 \notin Breaks(k) /\ Cardinality(Breaks(k)) \in Nat
    BY BreaksFinite
  <2>3. Cardinality(Breaks(k) \cup {k + 1}) = Cardinality(Breaks(k)) + 1
    BY <2>2, FS_AddElement
  <2>4. LineAt(k + 1) = LineAt(k) + 1
    <3> DEFINE x == Cardinality(Breaks(k))
               y == Cardinality(Breaks(k + 1))
    <3>1. y = x + 1 /\ x \in Nat
      BY <2>1, <2>2, <2>3, Zenon
    <3>2. LineAt(k + 1) = 1 + y /\ LineAt(k) = 1 + x
      BY DEF LineAt
    <3> HIDE DEF x, y
    <3> QED BY <3>1, <3>2
  <2>5. IsColumn(k + 1, 1)
    <3>1. k + 1 + 1 - 1 = k + 1 /\ 1 \in 1..k + 1 + 1
      OBVIOUS
    <3>2. k + 1 \in Breaks(k + 1) /\ \A i \in Breaks(k + 1) : i <= k + 1
      BY <2>1, BreaksFinite
    <3> QED BY <3>1, <3>2 DEF IsColumn
  <2> QED BY <1>2, <2>4, <2>5 DEF Line, Column
<1> QED BY <1>1, <1>2

(* The counters are those of the place that the lexer has reached, and     *)
(* column_start is the column of the place where the token starts.         *)
Here      == index <= Len(buf) => current_line = LineAt(index) /\ IsColumn(index, current_column)
Begun     == mode # "analyze" => IsColumn(start, column_start)
OpenQuote == mode = "string" => At(start) \in Quote
Counted   == Here /\ Begun /\ OpenQuote

LEMMA HereAfter ==
  ASSUME buf' = buf
  PROVE  /\ Here' <=> (index' <= Len(buf)
                         => current_line' = LineAt(index') /\ IsColumn(index', current_column'))
         /\ Begun' <=> (mode' # "analyze" => IsColumn(start', column_start'))
         /\ OpenQuote' <=> (mode' = "string" => At(start') \in Quote)
BY DEF Here, Begun, OpenQuote, LineAt, IsColumn, Breaks, At

LEMMA ForwardHere ==
  ASSUME Inv, Here, lex_has_value, Forward
  PROVE  Here'
<1>1. index \in Nat /\ index <= Len(buf)
  BY DEF Inv, TypeOK, lex_has_value
<1>2. current_line = LineAt(index) /\ IsColumn(index, current_column)
  BY <1>1 DEF Here
<1>3. /\ buf' = buf /\ index' = index + 1
      /\ current_line' = Line(current_line, At(index))
      /\ current_column' = Column(current_column, At(index))
  BY DEF Forward, lex_char
<1>4. /\ LineAt(index + 1) = Line(LineAt(index), At(index))
      /\ IsColumn(index + 1, Column(current_column, At(index)))
  BY <1>1, <1>2, NextPlace
<1> QED BY <1>2, <1>3, <1>4, HereAfter

LEMMA SkipHere ==
  ASSUME Inv, Here, NEW n \in Nat, index + n <= Len(buf), Skip(n),
         \A j \in index..index + n - 1 : At(j) \in InLine
  PROVE  Here' /\ LineAt(index + n) = LineAt(index)
<1>1. index \in Nat /\ Len(buf) \in Nat
  BY DEF Inv, TypeOK
<1>2. current_line = LineAt(index) /\ IsColumn(index, current_column)
  BY <1>1 DEF Here
<1>3. /\ buf' = buf /\ index' = index + n
      /\ current_line' = current_line
      /\ current_column' = current_column + n
  BY DEF Skip
<1>4. \A j \in index..index + n - 1 : At(j) \notin LineBreak
  BY NoBreakInLine
<1>5. LineAt(index + n) = LineAt(index) /\ IsColumn(index + n, current_column + n)
  BY <1>1, <1>2, <1>4, SameLine
<1> QED BY <1>2, <1>3, <1>5, HereAfter

LEMMA OneHere ==
  ASSUME Inv, Here, lex_has_value, Skip(1), lex_char \in InLine
  PROVE  Here' /\ LineAt(index + 1) = LineAt(index)
<1>1. /\ index + 1 <= Len(buf) /\ \A j \in index..index + 1 - 1 : At(j) \in InLine
  BY DEF Inv, TypeOK, lex_has_value, lex_char
<1> QED BY <1>1, SkipHere

LEMMA FollowedHere ==
  ASSUME Inv, Here, NEW w, Len(w) \in Nat, Follows(w), Skip(Len(w)),
         \A k \in 1..Len(w) : w[k] \in InLine
  PROVE  Here' /\ LineAt(index + Len(w)) = LineAt(index)
<1>1. index \in Nat /\ Len(buf) \in Nat
  BY DEF Inv, TypeOK
<1>2. index + Len(w) <= Len(buf) /\ \A k \in 1..Len(w) : At(index + k - 1) = w[k]
  BY DEF Follows
<1>3. ASSUME NEW j \in index..index + Len(w) - 1 PROVE At(j) \in InLine
  <2> DEFINE k == j - index + 1
  <2>1. k \in 1..Len(w) /\ index + k - 1 = j
    BY <1>1
  <2> HIDE DEF k
  <2>2. At(index + k - 1) \in InLine
    BY <1>2, <2>1
  <2> QED BY <2>1, <2>2
<1> QED BY <1>2, <1>3, SkipHere

(* The end of a comment, read inside the text, is its last two characters. *)
LEMMA ClosedHere ==
  ASSUME Inv, Here, mode = "comment", buf' = buf, index' = index + 2,
         NEW c \in Read(index), NEW d \in Read(index + 1),
         current_line' = Line(Line(current_line, c), d),
         current_column' = Column(Column(current_column, c), d)
  PROVE  Here'
<1>1. index \in Nat /\ Len(buf) \in Nat /\ index <= Len(buf)
  BY DEF Inv, TypeOK, Inside
<1>2. SUFFICES ASSUME index + 2 <= Len(buf)
               PROVE  current_line' = LineAt(index') /\ IsColumn(index', current_column')
  BY HereAfter
<1>3. c = At(index) /\ d = At(index + 1)
  BY <1>1, <1>2 DEF Read
<1>4. current_line = LineAt(index) /\ IsColumn(index, current_column)
  BY <1>1 DEF Here
<1>5. /\ LineAt(index + 1) = Line(LineAt(index), c)
      /\ IsColumn(index + 1, Column(current_column, c))
  BY <1>1, <1>3, <1>4, NextPlace
<1>6. /\ LineAt(index + 1 + 1) = Line(LineAt(index + 1), d)
      /\ IsColumn(index + 1 + 1, Column(Column(current_column, c), d))
  BY <1>1, <1>3, <1>5, NextPlace
<1>7. index' = index + 1 + 1
  BY <1>1
<1> QED BY <1>4, <1>5, <1>6, <1>7

LEMMA QuietHere ==
  ASSUME Here, UNCHANGED <<buf, index, current_line, current_column>>
  PROVE  Here'
<1>1. buf' = buf /\ index' = index /\ current_line' = current_line /\ current_column' = current_column
  OBVIOUS
<1> QED BY <1>1, HereAfter DEF Here

LEMMA HereStays ==
  ASSUME Inv, Counted, [Next]_vars
  PROVE  Here'
<1> USE DEF Counted
<1>1. CASE LineComment
  BY <1>1, QuietHere DEF LineComment
<1>2. CASE InLineComment
  BY <1>2, ForwardHere, QuietHere DEF InLineComment
<1>3. CASE Comment
  <2> DEFINE w == <<"/", "*">>
  <2>1. Len(w) = 2 /\ Follows(w) /\ Skip(2)
    BY <1>3 DEF Comment
  <2>2. "/" \in InLine /\ "*" \in InLine
    BY DEF InLine, CharToken, BinaryChar
  <2>3. \A k \in 1..Len(w) : w[k] \in InLine
    BY <2>2
  <2>4. Len(w) \in Nat /\ Skip(Len(w)) /\ Follows(w)
    BY <2>1
  <2> HIDE DEF w
  <2> QED BY <2>3, <2>4, FollowedHere
<1>4. CASE InComment
  <2>1. mode = "comment"
    BY <1>4 DEF InComment, In
  <2>2. CASE index + 1 < Len(buf) /\ Forward
    <3>1. lex_has_value
      BY <2>2 DEF lex_has_value, Inv, TypeOK
    <3> QED BY <2>2, <3>1, ForwardHere
  <2>3. CASE SyntaxError \/ Stop("aborted")
    BY <2>3, QuietHere DEF SyntaxError, Stop
  <2>4. CASE /\ index' = index + 2
             /\ \E c \in Read(index), d \in Read(index + 1) :
                  /\ current_line' = Line(Line(current_line, c), d)
                  /\ current_column' = Column(Column(current_column, c), d)
             /\ buf' = buf
    BY <2>1, <2>4, ClosedHere
  <2> QED BY <1>4, <2>2, <2>3, <2>4 DEF InComment
<1>5. CASE WhiteSpace
  BY <1>5, ForwardHere DEF WhiteSpace
<1>6. ASSUME NEW w \in Multichar, lex_multichar_operators(w) PROVE Here'
  BY <1>6, OperatorTypes, OperatorsInLine, FollowedHere DEF lex_multichar_operators
<1>7. CASE lex_push_char_token
  <2>1. lex_has_value /\ Skip(1) /\ lex_char \in InLine
    BY <1>7 DEF lex_push_char_token, InLine
  <2> QED BY <2>1, OneHere
<1>8. CASE lex_string
  <2>1. lex_has_value /\ Skip(1) /\ lex_char \in InLine
    BY <1>8 DEF lex_string, InLine
  <2> QED BY <2>1, OneHere
<1>9. CASE InString
  <2>1. CASE lex_has_value /\ Forward
    BY <2>1, ForwardHere
  <2>2. CASE lex_has_value /\ lex_char = At(start) /\ Skip(1)
    <3>1. lex_char \in InLine
      BY <1>9, <2>2 DEF InString, In, OpenQuote, InLine
    <3> QED BY <2>2, <3>1, OneHere
  <2>3. CASE SyntaxError
    BY <2>3, QuietHere DEF SyntaxError, Stop
  <2> QED BY <1>9, <2>1, <2>2, <2>3 DEF InString
<1>10. CASE lex_number
  BY <1>10, QuietHere DEF lex_number
<1>11. CASE InNumber
  <2>1. CASE lex_has_value /\ lex_char \in Digit
    <3>1. lex_char \in InLine /\ Skip(1)
      BY <1>11, <2>1 DEF InNumber, InLine
    <3> QED BY <2>1, <3>1, OneHere
  <2>2. CASE ~(lex_has_value /\ lex_char \in Digit)
    BY <1>11, <2>2, QuietHere DEF InNumber
  <2> QED BY <2>1, <2>2
<1>12. CASE lex_identifier_or_keyword
  BY <1>12, QuietHere DEF lex_identifier_or_keyword
<1>13. CASE InIdentifier
  <2>1. CASE lex_has_value /\ lex_char \in WordChar
    <3>1. lex_char \in InLine /\ Skip(1)
      BY <1>13, <2>1 DEF InIdentifier, InLine, WordChar
    <3> QED BY <2>1, <3>1, OneHere
  <2>2. CASE ~(lex_has_value /\ lex_char \in WordChar)
    BY <1>13, <2>2, QuietHere DEF InIdentifier
  <2> QED BY <2>1, <2>2
<1>14. CASE UnknownToken
  BY <1>14, QuietHere DEF UnknownToken, SyntaxError, Stop
<1>15. CASE EndOfFile
  BY <1>15, QuietHere DEF EndOfFile
<1>16. CASE UNCHANGED vars
  BY <1>16, QuietHere DEF vars
<1> QED
  BY <1>1, <1>2, <1>3, <1>4, <1>5, <1>6, <1>7, <1>8, <1>9, <1>10, <1>11, <1>12, <1>13, <1>14,
     <1>15, <1>16 DEF Next, Step, Terminated

LEMMA BegunStays ==
  ASSUME Inv, Counted, [Next]_vars
  PROVE  Begun' /\ OpenQuote'
<1> USE DEF Counted
<1>0. buf' = buf
  BY StepPushes
<1>enter. ASSUME NEW m, Enter(m), index <= Len(buf), m = "string" => At(index) \in Quote
          PROVE  Begun' /\ OpenQuote'
  <2>1. IsColumn(index, current_column)
    BY <1>enter DEF Here
  <2> QED BY <1>0, <1>enter, <2>1, HereAfter DEF Enter
<1>leave. ASSUME Leave PROVE Begun' /\ OpenQuote'
  BY <1>0, <1>leave, HereAfter DEF Leave
<1>stay. ASSUME UNCHANGED <<mode, start, column_start>> PROVE Begun' /\ OpenQuote'
  <2>1. mode' = mode /\ start' = start /\ column_start' = column_start
    BY <1>stay
  <2> QED BY <1>0, <2>1, HereAfter DEF Begun, OpenQuote
<1>value. lex_has_value => index <= Len(buf)
  BY DEF lex_has_value, Inv, TypeOK
<1>follows. ASSUME NEW w, Len(w) \in Nat, Follows(w) PROVE index <= Len(buf)
  <2>1. index \in Nat /\ Len(buf) \in Nat
    BY DEF Inv, TypeOK
  <2> QED BY <1>follows, <2>1 DEF Follows
<1>1. CASE LineComment
  <2>1. Enter("line_comment") /\ Follows(<<"/", "/">>) /\ Len(<<"/", "/">>) \in Nat
    BY <1>1 DEF LineComment
  <2> QED BY <2>1, <1>enter, <1>follows
<1>2. CASE InLineComment
  BY <1>2, <1>stay, <1>leave DEF InLineComment, Stay
<1>3. CASE Comment
  <2>1. Enter("comment") /\ Follows(<<"/", "*">>) /\ Len(<<"/", "*">>) \in Nat
    BY <1>3 DEF Comment
  <2> QED BY <2>1, <1>enter, <1>follows
<1>4. CASE InComment
  BY <1>4, <1>stay, <1>leave DEF InComment, Stay, SyntaxError, Stop
<1>5. CASE WhiteSpace
  BY <1>5, <1>stay DEF WhiteSpace, Stay
<1>6. ASSUME NEW w \in Multichar, lex_multichar_operators(w) PROVE Begun' /\ OpenQuote'
  BY <1>6, <1>stay DEF lex_multichar_operators
<1>7. CASE lex_push_char_token
  BY <1>7, <1>stay DEF lex_push_char_token
<1>8. CASE lex_string
  <2>1. Enter("string") /\ lex_has_value /\ At(index) \in Quote
    BY <1>8 DEF lex_string, lex_char
  <2> QED BY <2>1, <1>enter, <1>value
<1>9. CASE InString
  BY <1>9, <1>stay, <1>leave DEF InString, Stay, SyntaxError, Stop
<1>10. CASE lex_number
  BY <1>10, <1>enter, <1>value DEF lex_number
<1>11. CASE InNumber
  BY <1>11, <1>stay, <1>leave DEF InNumber, Stay
<1>12. CASE lex_identifier_or_keyword
  BY <1>12, <1>enter, <1>value DEF lex_identifier_or_keyword
<1>13. CASE InIdentifier
  BY <1>13, <1>stay, <1>leave DEF InIdentifier, Stay
<1>14. CASE UnknownToken
  BY <1>14, <1>stay DEF UnknownToken, SyntaxError, Stop
<1>15. CASE EndOfFile
  BY <1>15, <1>stay DEF EndOfFile
<1>16. CASE UNCHANGED vars
  BY <1>16, <1>stay DEF vars
<1> QED
  BY <1>1, <1>2, <1>3, <1>4, <1>5, <1>6, <1>7, <1>8, <1>9, <1>10, <1>11, <1>12, <1>13, <1>14,
     <1>15, <1>16 DEF Next, Step, Terminated

(* What Positions says of one token.                                       *)
Placed(t) ==
  t.from <= Len(buf) => t.line_start = LineAt(End(t)) /\ t.column_start = ColumnAt(t.from)

LEMMA TextLength ==
  ASSUME Inv, NEW k \in Nat, k <= index, index <= Len(buf)
  PROVE  Len(Text(k)) = index - k
<1> DEFINE m == k + 1
           n == index
<1>1. /\ index \in Nat /\ m \in Int /\ n \in Int
      /\ (\A i \in m..n : buf[i] \in Char)
      /\ (IF m <= n THEN n - m + 1 ELSE 0) = index - k
  BY DEF Inv, TypeOK
<1>2. Text(k) = SubSeq(buf, m, n)
  BY DEF Text
<1> HIDE DEF m, n
<1>3. Len(SubSeq(buf, m, n)) = IF m <= n THEN n - m + 1 ELSE 0
  BY <1>1, SubSeqProperties
<1> QED BY <1>1, <1>2, <1>3

LEMMA PushedPlaced ==
  ASSUME Inv, Counted, NEW t, Pushed(t)
  PROVE  Placed(t)
<1> USE DEF Counted
<1>0. index \in Nat /\ start \in Nat /\ Len(buf) \in Nat
  BY DEF Inv, TypeOK
<1>1. ASSUME NEW w \in Multichar, lex_multichar_operators(w), t = Operator(w)
      PROVE  Placed(t)
  <2>1. /\ t.from = index /\ t.value = w /\ t.type = "T_BINARY_OPERATOR"
        /\ t.line_start = current_line /\ t.column_start = current_column
    BY <1>1 DEF Operator
  <2>2. LineAt(index + Len(w)) = LineAt(index) /\ Len(w) \in Nat /\ index + Len(w) <= Len(buf)
    BY <1>1, OperatorTypes, OperatorsInLine, FollowedHere DEF lex_multichar_operators, Follows
  <2>3. End(t) = index + Len(w)
    <3>1. End(t) = index + Len(w) + 0
      BY <2>1 DEF End
    <3> QED BY <1>0, <2>2, <3>1
  <2>4. index <= Len(buf)
    BY <1>0, <2>2
  <2> QED BY <1>0, <2>1, <2>2, <2>3, <2>4, ColumnIs DEF Placed, Here
<1>2. CASE lex_push_char_token /\ t = Sign
  <2>1. /\ t.from = index /\ t.value = <<lex_char>> /\ t.type = TypeOfChar(lex_char)
        /\ t.line_start = current_line /\ t.column_start = current_column
    BY <1>2 DEF Sign
  <2>2. lex_has_value /\ Skip(1) /\ lex_char \in InLine /\ lex_char \in CharToken
    BY <1>2 DEF lex_push_char_token, InLine
  <2>3. LineAt(index + 1) = LineAt(index)
    BY <2>2, OneHere
  <2>4. t.type # "T_STRING"
    BY <2>1, <2>2, SignTypes
  <2>5. End(t) = index + 1
    <3>1. Len(t.value) = 1 /\ (IF t.type = "T_STRING" THEN 2 ELSE 0) = 0
      BY <2>1, <2>4
    <3>2. End(t) = index + 1 + 0
      BY <2>1, <3>1, Zenon DEF End
    <3> QED BY <1>0, <3>2
  <2>6. index <= Len(buf)
    BY <1>0, <2>2 DEF lex_has_value
  <2> QED BY <1>0, <2>1, <2>3, <2>5, <2>6, ColumnIs DEF Placed, Here
<1>3. CASE InString /\ lex_has_value /\ lex_char = At(start) /\ Skip(1) /\ t = Quoted
  <2>1. /\ t.from = start /\ t.value = Text(start + 1) /\ t.type = "T_STRING"
        /\ t.line_start = current_line /\ t.column_start = column_start
    BY <1>3 DEF Quoted
  <2>2. mode = "string" /\ lex_char \in InLine
    BY <1>3 DEF InString, In, OpenQuote, InLine
  <2>3. LineAt(index + 1) = LineAt(index)
    BY <1>3, <2>2, OneHere
  <2>4. start < index /\ index <= Len(buf)
    BY <2>2 DEF Inv, Inside
  <2>5. Len(t.value) = index - (start + 1)
    <3>1. start + 1 \in Nat /\ start + 1 <= index
      BY <1>0, <2>4
    <3> QED BY <2>1, <2>4, <3>1, TextLength
  <2>6. End(t) = index + 1
    <3>1. End(t) = start + (index - (start + 1)) + 2
      BY <2>1, <2>5 DEF End
    <3> QED BY <1>0, <3>1
  <2>7. IsColumn(start, column_start)
    BY <2>2 DEF Begun
  <2> QED BY <1>0, <2>1, <2>3, <2>4, <2>6, <2>7, ColumnIs DEF Placed, Here
<1>word. ASSUME mode # "analyze", t.from = start, t.value = Text(start), t.type # "T_STRING",
                t.line_start = current_line, t.column_start = column_start
         PROVE  Placed(t)
  <2>1. start <= index /\ index <= Len(buf) /\ IsColumn(start, column_start)
    BY <1>word DEF Inv, Inside, Begun
  <2>2. Len(t.value) = index - start
    BY <1>0, <1>word, <2>1, TextLength
  <2>3. End(t) = index
    <3>1. (IF t.type = "T_STRING" THEN 2 ELSE 0) = 0
      BY <1>word
    <3>2. End(t) = start + (index - start) + 0
      BY <1>word, <2>2, <3>1, Zenon DEF End
    <3> QED BY <1>0, <3>2
  <2> QED BY <1>0, <1>word, <2>1, <2>3, ColumnIs DEF Placed, Here
<1>4. CASE InNumber /\ t = Number
  <2>1. mode # "analyze"
    BY <1>4 DEF InNumber, In
  <2> QED BY <1>4, <2>1, <1>word DEF Number
<1>5. CASE InIdentifier /\ t = Word
  <2>1. mode # "analyze"
    BY <1>5 DEF InIdentifier, In
  <2>2. convert_str_to_token(Text(start)) # "T_STRING"
    BY KeywordsAssumption DEF convert_str_to_token, KeywordType
  <2> QED BY <1>5, <2>1, <2>2, <1>word DEF Word
<1>6. CASE t = Eof
  <2>1. /\ t.from = index /\ t.value = <<>> /\ t.type = "T_EOF"
        /\ t.line_start = current_line /\ t.column_start = current_column
    BY <1>6 DEF Eof
  <2>2. End(t) = index
    <3>1. End(t) = index + 0 + 0
      BY <2>1 DEF End
    <3> QED BY <1>0, <3>1
  <2> QED BY <1>0, <2>1, <2>2, ColumnIs DEF Placed, Here
<1> QED BY <1>1, <1>2, <1>3, <1>4, <1>5, <1>6 DEF Pushed

LEMMA PositionsStay == Inv /\ Counted /\ Positions /\ [Next]_vars => Positions'
<1> SUFFICES ASSUME Inv, Counted, Positions, [Next]_vars PROVE Positions'
  OBVIOUS
<1>1. buf' = buf
  BY StepPushes
<1>2. Positions' <=> \A i \in 1..Len(tokens') : Placed(tokens'[i])
  BY <1>1 DEF Positions, Placed, LineAt, ColumnAt, Breaks, End
<1>3. \A i \in 1..Len(tokens) : Placed(tokens[i])
  BY DEF Positions, Placed
<1>4. CASE tokens' = tokens
  BY <1>2, <1>3, <1>4
<1>5. ASSUME NEW t, Pushed(t), tokens' = Append(tokens, t) PROVE Positions'
  <2>1. tokens \in Seq(Token) /\ Len(tokens) \in Nat
    BY DEF Inv, TypeOK
  <2>2. Placed(t)
    BY <1>5, PushedPlaced
  <2>3. ASSUME NEW i \in 1..Len(tokens') PROVE Placed(tokens'[i])
    <3>1. CASE i \in 1..Len(tokens)
      <4>1. tokens'[i] = tokens[i]
        BY <1>5, <2>1, <3>1
      <4> QED BY <1>3, <3>1, <4>1
    <3>2. CASE i \notin 1..Len(tokens)
      <4>1. tokens'[i] = t
        BY <1>5, <2>1, <3>2
      <4> QED BY <2>2, <4>1
    <3> QED BY <3>1, <3>2
  <2> QED BY <1>2, <2>3
<1> QED BY <1>4, <1>5, StepPushes

LEMMA InitCounted == Init => Counted /\ Positions
<1> SUFFICES ASSUME Init PROVE Counted /\ Positions
  OBVIOUS
<1>1. Breaks(0) = {}
  BY DEF Breaks
<1>2. LineAt(0) = 1
  BY <1>1, FS_EmptySet DEF LineAt
<1>3. IsColumn(0, 1)
  BY <1>1 DEF IsColumn
<1> QED BY <1>2, <1>3 DEF Init, Counted, Here, Begun, OpenQuote, Positions

(* The position of every token is right: its column is the one its first   *)
(* character has in the text and its line the one its last character is    *)
(* on.  lex_char_forward counts line breaks one by one, and the loops that *)
(* add to the column alone pass only over characters that break no line.   *)
THEOREM PositionsAgree == Spec => []Positions
<1>1. Inv /\ Counted /\ [Next]_vars => Counted'
  BY HereStays, BegunStays DEF Counted
<1> QED BY <1>1, InitOK, StepOK, InitCounted, PositionsStay, PTL DEF Spec

-----------------------------------------------------------------------------
(* A set of natural numbers that is not empty has a least element.         *)
LEMMA LeastNat ==
  ASSUME NEW T, T \subseteq Nat, T # {}
  PROVE  Least(T) \in T /\ \A y \in T : Least(T) <= y
<1> DEFINE R == StrictSubsetOrdering(Nat)
           F == FiniteSubsetsOf(Nat)
           U == {1..t : t \in T}
<1>1. IsWellFoundedOn(R, F)
  BY FS_StrictSubsetOrderingWellFounded
<1>2. U \subseteq F
  <2>1. ASSUME NEW t \in T PROVE 1..t \in F
    <3>1. IsFiniteSet(1..t)
      BY FS_Interval
    <3> QED BY <3>1 DEF FiniteSubsetsOf
  <2> QED BY <2>1
<1>3. U # {}
  OBVIOUS
<1> HIDE DEF R, F, U
<1>4. \E x \in U : \A y \in U : ~(<<y, x>> \in R)
  BY <1>1, <1>2, <1>3, WFMin
<1>5. PICK x \in T : \A y \in T : ~(<<1..y, 1..x>> \in R)
  BY <1>4 DEF U
<1>6. ASSUME NEW y \in T, y < x PROVE FALSE
  <2>1. x \in Nat /\ y \in Nat
    OBVIOUS
  <2>2. 1..y \subseteq 1..x /\ x \in 1..x /\ x \notin 1..y /\ 1..y \subseteq Nat /\ 1..x \subseteq Nat
    BY <1>6, <2>1
  <2>3. <<1..y, 1..x>> \in R
    BY <2>2 DEF R, StrictSubsetOrdering
  <2> QED BY <2>3, <1>5
<1>7. x \in T /\ \A y \in T : x <= y
  BY <1>6
<1> QED BY <1>7 DEF Least

(* One step of NextStart, and the place a comment is left at.              *)
LineEnd(k) == Least(NewLine(k) \cup {Len(buf)})
After(k, skip) ==
  IF k = Len(buf) THEN k
  ELSE IF Opens(k, "/") THEN skip[LineEnd(k)]
  ELSE IF Opens(k, "*") THEN IF Closes(k) = {} THEN Len(buf) ELSE skip[Least(Closes(k)) + 2]
  ELSE IF At(k) \in Space THEN skip[k + 1]
  ELSE k

LEMMA LineEndIs ==
  ASSUME Len(buf) \in Nat, NEW k \in 0..Len(buf), Opens(k, "/")
  PROVE  /\ LineEnd(k) \in k + 1..Len(buf)
         /\ LineEnd(k) = Len(buf) \/ At(LineEnd(k)) = "\n"
         /\ \A j \in k..LineEnd(k) - 1 : At(j) # "\n"
<1> DEFINE S == NewLine(k) \cup {Len(buf)}
<1>1. S \subseteq Nat /\ S # {}
  BY DEF NewLine
<1>2. LineEnd(k) \in S /\ \A y \in S : LineEnd(k) <= y
  BY <1>1, LeastNat DEF LineEnd
<1>3. k < Len(buf) /\ At(k) # "\n"
  BY DEF Opens
<1>4. LineEnd(k) \in k + 1..Len(buf)
  BY <1>2, <1>3 DEF NewLine
<1>5. ASSUME NEW j \in k..LineEnd(k) - 1, At(j) = "\n" PROVE FALSE
  <2>1. j \in NewLine(k) /\ j < LineEnd(k)
    BY <1>4, <1>5 DEF NewLine
  <2> QED BY <1>2, <1>4, <2>1
<1> QED BY <1>2, <1>4, <1>5 DEF NewLine

LEMMA CloseIs ==
  ASSUME Len(buf) \in Nat, NEW k \in 0..Len(buf), Closes(k) # {}
  PROVE  Least(Closes(k)) \in Closes(k) /\ \A j \in Closes(k) : Least(Closes(k)) <= j
<1>1. Closes(k) \subseteq Nat
  BY DEF Closes
<1> QED BY <1>1, LeastNat

(* The step looks only forwards, so that there is a function that takes it *)
(* everywhere.                                                             *)
LEMMA LooksForwards ==
  ASSUME Len(buf) \in Nat, NEW k \in 0..Len(buf), NEW f, NEW g,
         \A j \in k + 1..Len(buf) : f[j] = g[j]
  PROVE  After(k, f) = After(k, g)
<1>1. CASE k = Len(buf)
  BY <1>1 DEF After
<1>2. CASE k # Len(buf) /\ Opens(k, "/")
  <2>1. f[LineEnd(k)] = g[LineEnd(k)]
    BY <1>2, LineEndIs
  <2> QED BY <1>2, <2>1 DEF After
<1>3. CASE k # Len(buf) /\ ~Opens(k, "/") /\ Opens(k, "*")
  <2>1. CASE Closes(k) = {}
    BY <1>3, <2>1 DEF After
  <2>2. CASE Closes(k) # {}
    <3>1. Least(Closes(k)) + 2 \in k + 1..Len(buf)
      BY <2>2, CloseIs DEF Closes
    <3>2. f[Least(Closes(k)) + 2] = g[Least(Closes(k)) + 2]
      BY <3>1
    <3> QED BY <1>3, <2>2, <3>2 DEF After
  <2> QED BY <2>1, <2>2
<1>4. CASE k # Len(buf) /\ ~Opens(k, "/") /\ ~Opens(k, "*")
  <2>1. f[k + 1] = g[k + 1]
    BY <1>4
  <2> QED BY <1>4, <2>1 DEF After
<1> QED BY <1>1, <1>2, <1>3, <1>4

LEMMA NextStartIs ==
  ASSUME Len(buf) \in Nat
  PROVE  \A k \in 0..Len(buf) : NextStart[k] = After(k, NextStart)
<1> DEFINE D == 0..Len(buf)
           T == {n \in D : \E f : \A k \in n..Len(buf) : f[k] = After(k, f)}
<1>1. Len(buf) \in T
  <2> DEFINE f == [k \in D |-> k]
  <2>1. \A k \in Len(buf)..Len(buf) : f[k] = After(k, f)
    BY DEF After
  <2> QED BY <2>1
<1>2. T \subseteq Nat /\ T # {}
  BY <1>1
<1>3. ASSUME NEW n \in T, n # 0 PROVE n - 1 \in T
  <2>1. PICK f : \A k \in n..Len(buf) : f[k] = After(k, f)
    OBVIOUS
  <2> DEFINE m == n - 1
             g == [k \in D |-> IF k = m THEN After(m, f) ELSE f[k]]
  <2>2. m \in D /\ n \in D /\ n = m + 1
    BY <1>3
  <2>3. \A j \in m + 1..Len(buf) : g[j] = f[j]
    BY <2>2
  <2>4. g[m] = After(m, f)
    BY <2>2
  <2> HIDE DEF g
  <2>5. ASSUME NEW k \in m..Len(buf) PROVE g[k] = After(k, g)
    <3>1. k \in D /\ \A j \in k + 1..Len(buf) : g[j] = f[j]
      BY <2>2, <2>3
    <3>2. After(k, g) = After(k, f)
      BY <3>1, LooksForwards
    <3>3. g[k] = After(k, f)
      <4>1. CASE k = m
        BY <2>4, <4>1
      <4>2. CASE k # m
        <5>1. k \in n..Len(buf) /\ k \in m + 1..Len(buf)
          BY <2>2, <4>2
        <5> QED BY <2>1, <2>3, <5>1
      <4> QED BY <4>1, <4>2
    <3> QED BY <3>2, <3>3
  <2> QED BY <2>2, <2>5
<1>4. 0 \in T
  <2>1. Least(T) \in T /\ \A y \in T : Least(T) <= y
    BY <1>2, LeastNat
  <2>2. CASE Least(T) # 0
    <3>1. Least(T) - 1 \in T /\ Least(T) \in Nat
      BY <1>2, <1>3, <2>1, <2>2
    <3> HIDE DEF T
    <3> QED BY <2>1, <3>1
  <2> QED BY <2>1, <2>2
<1>5. PICK f : \A k \in D : f[k] = After(k, f)
  BY <1>4
<1> DEFINE h == [k \in D |-> f[k]]
<1>6. ASSUME NEW k \in D PROVE h[k] = After(k, h)
  <2>1. \A j \in k + 1..Len(buf) : h[j] = f[j]
    OBVIOUS
  <2> HIDE DEF h
  <2>2. After(k, h) = After(k, f)
    BY <2>1, LooksForwards
  <2> QED BY <1>5, <2>2 DEF h
<1>7. h = [k \in D |-> After(k, h)]
  <2>1. DOMAIN h = D /\ h = [k \in D |-> h[k]]
    OBVIOUS
  <2> HIDE DEF h
  <2> QED BY <1>6, <2>1
<1> HIDE DEF h
<1>8. NextStart = CHOOSE skip : skip = [k \in D |-> After(k, skip)]
  BY DEF NextStart, After, LineEnd
<1>9. NextStart = [k \in D |-> After(k, NextStart)]
  BY <1>7, <1>8
<1> QED BY <1>9

(* What NextStart gives, case by case.                                     *)
LEMMA NotSpace ==
  /\ \A c \in InLine : c \notin Space
  /\ "/" \notin Space /\ "*" \notin Space
<1>1. /\ Space \cap Letter = {} /\ Space \cap Digit = {} /\ Space \cap CharToken = {}
      /\ Space \cap Quote = {} /\ Space \cap {"!", "_"} = {}
  <2>1. /\ Kinds[1] = Letter /\ Kinds[2] = Digit /\ Kinds[3] = Space /\ Kinds[4] = CharToken
        /\ Kinds[5] = Quote /\ Kinds[6] = {"!", "_"}
    BY DEF Kinds
  <2>2. \A j \in 1..7 : 3 # j => Kinds[3] \cap Kinds[j] = {}
    BY CharAssumption
  <2>3. /\ Kinds[3] \cap Kinds[1] = {} /\ Kinds[3] \cap Kinds[2] = {}
        /\ Kinds[3] \cap Kinds[4] = {} /\ Kinds[3] \cap Kinds[5] = {}
        /\ Kinds[3] \cap Kinds[6] = {}
    <3>1. 1 \in 1..7 /\ 2 \in 1..7 /\ 4 \in 1..7 /\ 5 \in 1..7 /\ 6 \in 1..7
      OBVIOUS
    <3>2. 3 # 1 /\ 3 # 2 /\ 3 # 4 /\ 3 # 5 /\ 3 # 6
      OBVIOUS
    <3> QED BY <2>2, <3>1, <3>2, Zenon
  <2> QED BY <2>1, <2>3, Zenon
<1>2. "/" \in CharToken /\ "*" \in CharToken
  BY DEF CharToken, BinaryChar
<1> QED BY <1>1, <1>2 DEF InLine

LEMMA NextOfSpace ==
  ASSUME Len(buf) \in Nat, NEW k \in Nat, k < Len(buf), At(k) \in Space
  PROVE  NextStart[k] = NextStart[k + 1]
<1>1. ~Opens(k, "/") /\ ~Opens(k, "*")
  BY NotSpace DEF Opens
<1>2. After(k, NextStart) = NextStart[k + 1]
  BY <1>1 DEF After
<1> QED BY <1>2, NextStartIs

LEMMA NextIsSelf ==
  ASSUME Len(buf) \in Nat, NEW k \in Nat, k < Len(buf), At(k) \in InLine,
         ~Opens(k, "/"), ~Opens(k, "*")
  PROVE  NextStart[k] = k
<1>1. At(k) \notin Space
  BY NotSpace
<1>2. After(k, NextStart) = k
  BY <1>1 DEF After
<1> QED BY <1>2, NextStartIs

LEMMA NextOfEnd ==
  ASSUME Len(buf) \in Nat
  PROVE  NextStart[Len(buf)] = Len(buf)
<1>1. After(Len(buf), NextStart) = Len(buf)
  BY DEF After
<1> QED BY <1>1, NextStartIs

LEMMA NextOfLineComment ==
  ASSUME Len(buf) \in Nat, NEW k \in Nat, Opens(k, "/"), NEW i \in k..Len(buf),
         i = Len(buf) \/ At(i) = "\n", \A j \in k..i - 1 : At(j) # "\n"
  PROVE  NextStart[k] = NextStart[i]
<1>1. k \in 0..Len(buf) /\ k # Len(buf)
  BY DEF Opens
<1>2. /\ LineEnd(k) \in k + 1..Len(buf)
      /\ LineEnd(k) = Len(buf) \/ At(LineEnd(k)) = "\n"
      /\ \A j \in k..LineEnd(k) - 1 : At(j) # "\n"
  BY <1>1, LineEndIs
<1>3. ~(LineEnd(k) < i)
  <2>1. SUFFICES ASSUME LineEnd(k) < i PROVE FALSE
    OBVIOUS
  <2>2. LineEnd(k) \in k..i - 1 /\ LineEnd(k) # Len(buf)
    BY <1>2, <2>1
  <2> QED BY <1>2, <2>2
<1>4. ~(i < LineEnd(k))
  <2>1. SUFFICES ASSUME i < LineEnd(k) PROVE FALSE
    OBVIOUS
  <2>2. i \in k..LineEnd(k) - 1 /\ i # Len(buf)
    BY <1>2, <2>1
  <2> QED BY <1>2, <2>2
<1>5. LineEnd(k) = i
  BY <1>2, <1>3, <1>4
<1>6. After(k, NextStart) = NextStart[i]
  BY <1>1, <1>5 DEF After
<1> QED BY <1>1, <1>6, NextStartIs

LEMMA NextOfComment ==
  ASSUME Len(buf) \in Nat, NEW k \in Nat, Opens(k, "*"), NEW i \in k + 2..Len(buf) - 2,
         At(i) = "*", At(i + 1) = "/",
         \A j \in k + 2..i - 1 : ~(At(j) = "*" /\ At(j + 1) = "/")
  PROVE  NextStart[k] = NextStart[i + 2]
<1>1. k \in 0..Len(buf) /\ k # Len(buf) /\ ~Opens(k, "/")
  BY DEF Opens
<1>2. i \in Closes(k)
  BY DEF Closes
<1>3. Least(Closes(k)) \in Closes(k) /\ Least(Closes(k)) <= i
  BY <1>1, <1>2, CloseIs
<1>4. ~(Least(Closes(k)) < i)
  <2>1. SUFFICES ASSUME Least(Closes(k)) < i PROVE FALSE
    OBVIOUS
  <2> DEFINE l == Least(Closes(k))
  <2>2. l \in k + 2..i - 1 /\ At(l) = "*" /\ At(l + 1) = "/"
    BY <1>3, <2>1 DEF Closes
  <2> HIDE DEF l
  <2> QED BY <2>2
<1>5. Least(Closes(k)) = i
  BY <1>3, <1>4 DEF Closes
<1>6. After(k, NextStart) = NextStart[i + 2]
  BY <1>1, <1>2, <1>5 DEF After
<1> QED BY <1>1, <1>6, NextStartIs

(* The text up to the lexer: blanks and comments since the last token, as  *)
(* far as the loop that is going on has read.                              *)
Last        == IF tokens = <<>> THEN 0 ELSE End(tokens[Len(tokens)])
Blank       == mode = "analyze" /\ index <= Len(buf) => NextStart[index] = NextStart[Last]
InToken     == mode \in {"string", "number", "identifier"} => start = NextStart[Last]
LineOpen    == mode = "line_comment" =>
                 /\ Opens(start, "/") /\ NextStart[start] = NextStart[Last]
                 /\ \A j \in start..index - 1 : At(j) # "\n"
CommentOpen == mode = "comment" =>
                 /\ Opens(start, "*") /\ NextStart[start] = NextStart[Last]
                 /\ start + 2 <= index
                 /\ \A j \in start + 2..index - 1 : ~(At(j) = "*" /\ At(j + 1) = "/")
Between == Blank /\ InToken /\ LineOpen /\ CommentOpen

(* NextStart depends on the text alone.                                    *)
NextStartOf(b) ==
  LET at(k) == b[k + 1]
      opens(k, c) == k + 1 < Len(b) /\ at(k) = "/" /\ at(k + 1) = c
      closes(k) == {j \in k + 2..Len(b) - 2 : at(j) = "*" /\ at(j + 1) = "/"}
      newline(k) == {j \in k..Len(b) - 1 : at(j) = "\n"}
      skip[k \in 0..Len(b)] ==
        IF k = Len(b) THEN k
        ELSE IF opens(k, "/") THEN skip[Least(newline(k) \cup {Len(b)})]
        ELSE IF opens(k, "*") THEN IF closes(k) = {} THEN Len(b) ELSE skip[Least(closes(k)) + 2]
        ELSE IF at(k) \in Space THEN skip[k + 1]
        ELSE k
  IN  skip

LEMMA NextStartKept ==
  ASSUME buf' = buf
  PROVE  NextStart' = NextStart
<1>1. NextStart = NextStartOf(buf)
  BY Zenon DEF NextStart, NextStartOf, Opens, Closes, NewLine, At
<1>2. NextStart' = NextStartOf(buf')
  BY Zenon DEF NextStart, NextStartOf, Opens, Closes, NewLine, At, Least
<1> QED BY <1>1, <1>2, Zenon

LEMMA BetweenAfter ==
  ASSUME buf' = buf
  PROVE  /\ Blank' <=> (mode' = "analyze" /\ index' <= Len(buf)
                          => NextStart[index'] = NextStart[Last'])
         /\ InToken' <=> (mode' \in {"string", "number", "identifier"}
                            => start' = NextStart[Last'])
         /\ LineOpen' <=> (mode' = "line_comment" =>
              /\ Opens(start', "/") /\ NextStart[start'] = NextStart[Last']
              /\ \A j \in start'..index' - 1 : At(j) # "\n")
         /\ CommentOpen' <=> (mode' = "comment" =>
              /\ Opens(start', "*") /\ NextStart[start'] = NextStart[Last']
              /\ start' + 2 <= index'
              /\ \A j \in start' + 2..index' - 1 : ~(At(j) = "*" /\ At(j + 1) = "/"))
<1>1. NextStart' = NextStart
  BY NextStartKept
<1>2. \A j : At(j)' = At(j)
  BY DEF At
<1>3. /\ Opens(start, "/")' <=> Opens(start', "/")
      /\ Opens(start, "*")' <=> Opens(start', "*")
  BY DEF Opens, At
<1>4. Blank' <=> (mode' = "analyze" /\ index' <= Len(buf) => NextStart[index'] = NextStart[Last'])
  BY <1>1 DEF Blank
<1>5. InToken' <=> (mode' \in {"string", "number", "identifier"} => start' = NextStart[Last'])
  BY <1>1 DEF InToken
<1>6. LineOpen' <=> (mode' = "line_comment" =>
              /\ Opens(start', "/") /\ NextStart[start'] = NextStart[Last']
              /\ \A j \in start'..index' - 1 : At(j) # "\n")
  BY <1>1, <1>2, <1>3 DEF LineOpen
<1>7. CommentOpen' <=> (mode' = "comment" =>
              /\ Opens(start', "*") /\ NextStart[start'] = NextStart[Last']
              /\ start' + 2 <= index'
              /\ \A j \in start' + 2..index' - 1 : ~(At(j) = "*" /\ At(j + 1) = "/"))
  BY <1>1, <1>2, <1>3 DEF CommentOpen
<1> QED BY <1>4, <1>5, <1>6, <1>7

LEMMA LastKept ==
  ASSUME tokens' = tokens
  PROVE  Last' = Last
BY DEF Last, End

(* In the outer loop a token that starts here is the next one.             *)
LEMMA StartsHere ==
  ASSUME Inv, Blank, In("analyze"), lex_has_value, lex_char \in InLine,
         ~Follows(<<"/", "/">>), ~Follows(<<"/", "*">>)
  PROVE  index = NextStart[Last]
<1>1. index \in Nat /\ Len(buf) \in Nat /\ index < Len(buf) /\ index <= Len(buf)
  BY DEF Inv, TypeOK, lex_has_value
<1>2. ASSUME NEW c, Opens(index, c) PROVE Follows(<<"/", c>>)
  <2>1. /\ Len(<<"/", c>>) = 2 /\ <<"/", c>>[1] = "/" /\ <<"/", c>>[2] = c
        /\ index + 1 - 1 = index /\ index + 2 - 1 = index + 1
    BY <1>1
  <2>2. index + 2 <= Len(buf) /\ At(index) = "/" /\ At(index + 1) = c
    BY <1>1, <1>2 DEF Opens
  <2> QED BY <2>1, <2>2 DEF Follows
<1>3. NextStart[index] = index
  BY <1>1, <1>2, NextIsSelf DEF lex_char
<1> QED BY <1>1, <1>3 DEF Blank, In

LEMMA OpensAre ==
  ASSUME Inv, NEW c, Follows(<<"/", c>>)
  PROVE  Opens(index, c) /\ index + 2 <= Len(buf)
<1>1. index \in Nat /\ Len(buf) \in Nat
  BY DEF Inv, TypeOK
<1>2. /\ Len(<<"/", c>>) = 2 /\ <<"/", c>>[1] = "/" /\ <<"/", c>>[2] = c
      /\ index + 1 - 1 = index /\ index + 2 - 1 = index + 1
  BY <1>1
<1>3. index + 2 <= Len(buf) /\ \A k \in 1..2 : At(index + k - 1) = <<"/", c>>[k]
  BY <1>2 DEF Follows
<1>4. At(index) = "/" /\ At(index + 1) = c
  BY <1>2, <1>3
<1> QED BY <1>1, <1>3, <1>4 DEF Opens

(* Not in a slash: no comment begins with a quote, a digit or a letter, or *)
(* with an operator of several characters.                                 *)
LEMMA NoCommentHere ==
  ASSUME Inv, lex_char # "/"
  PROVE  ~Follows(<<"/", "/">>) /\ ~Follows(<<"/", "*">>)
BY OpensAre DEF Opens, lex_char

LEMMA NoSlash ==
  /\ "/" \notin Letter \cup Digit \cup Quote \cup {"_"}
  /\ \A w \in Multichar : w[1] # "/" /\ Len(w) \in {2, 3}
<1>1. /\ CharToken \cap Letter = {} /\ CharToken \cap Digit = {}
  <2>1. Kinds[1] = Letter /\ Kinds[2] = Digit /\ Kinds[4] = CharToken
    BY DEF Kinds
  <2>2. \A j \in 1..7 : 4 # j => Kinds[4] \cap Kinds[j] = {}
    BY CharAssumption
  <2>3. Kinds[4] \cap Kinds[1] = {} /\ Kinds[4] \cap Kinds[2] = {}
    <3>1. 1 \in 1..7 /\ 2 \in 1..7 /\ 4 # 1 /\ 4 # 2
      OBVIOUS
    <3> QED BY <2>2, <3>1, Zenon
  <2> QED BY <2>1, <2>3, Zenon
<1>2. "/" \in CharToken /\ "/" \notin Quote \cup {"_"}
  BY DEF CharToken, BinaryChar, Quote
<1>3. \A w \in Multichar : w[1] # "/" /\ Len(w) \in {2, 3}
  BY DEF Multichar
<1> QED BY <1>1, <1>2, <1>3

(* The token that is pushed is the next of the text, and the lexer stands  *)
(* where it ends.                                                          *)
LEMMA PushedNext ==
  ASSUME Inv, Between, NEW t, Pushed(t)
  PROVE  t.from <= Len(buf) => t.from = NextStart[Last]
<1> USE DEF Between
<1>0. index \in Nat /\ Len(buf) \in Nat
  BY DEF Inv, TypeOK
<1>1. ASSUME NEW w \in Multichar, lex_multichar_operators(w), t = Operator(w)
      PROVE  t.from = NextStart[Last]
  <2>1. t.from = index
    BY <1>1 DEF Operator
  <2>2. In("analyze") /\ Follows(w) /\ w[1] # "/" /\ Len(w) \in {2, 3} /\ w[1] \in InLine
    BY <1>1, NoSlash, OperatorsInLine DEF lex_multichar_operators
  <2>3. index + Len(w) <= Len(buf) /\ At(index + 1 - 1) = w[1]
    BY <2>2 DEF Follows
  <2>4. lex_has_value /\ lex_char = w[1]
    BY <1>0, <2>2, <2>3 DEF lex_has_value, lex_char
  <2> QED BY <2>1, <2>2, <2>4, NoCommentHere, StartsHere
<1>2. CASE lex_push_char_token /\ t = Sign
  <2>1. /\ In("analyze") /\ lex_has_value /\ lex_char \in InLine
        /\ ~Follows(<<"/", "/">>) /\ ~Follows(<<"/", "*">>)
    BY <1>2 DEF lex_push_char_token, InLine
  <2> QED BY <1>2, <2>1, StartsHere DEF Sign
<1>3. CASE (InString /\ t = Quoted) \/ (InNumber /\ t = Number) \/ (InIdentifier /\ t = Word)
  <2>1. mode \in {"string", "number", "identifier"}
    BY <1>3 DEF InString, InNumber, InIdentifier, In
  <2>2. t.from = start
    BY <1>3 DEF Quoted, Number, Word
  <2> QED BY <2>1, <2>2 DEF InToken
<1>4. CASE EndOfFile /\ t = Eof
  <2>1. t.from = index /\ mode = "analyze" /\ ~(index < Len(buf))
    BY <1>4 DEF Eof, EndOfFile, In, lex_has_value
  <2>2. SUFFICES ASSUME index <= Len(buf) PROVE index = NextStart[Last]
    BY <2>1
  <2>3. index = Len(buf)
    BY <1>0, <2>1, <2>2
  <2>4. NextStart[index] = NextStart[Last]
    BY <2>1, <2>2 DEF Blank
  <2> QED BY <1>0, <2>3, <2>4, NextOfEnd
<1> QED BY <1>1, <1>2, <1>3, <1>4 DEF Pushed

LEMMA PushedEnd ==
  ASSUME Inv, NEW t, Pushed(t)
  PROVE  End(t) = index' /\ mode' = "analyze" /\ buf' = buf
<1>0. index \in Nat /\ start \in Nat /\ Len(buf) \in Nat
  BY DEF Inv, TypeOK
<1>1. ASSUME NEW w \in Multichar, lex_multichar_operators(w), t = Operator(w)
      PROVE  End(t) = index' /\ mode' = "analyze" /\ buf' = buf
  <2>1. t.from = index /\ t.value = w /\ t.type = "T_BINARY_OPERATOR"
    BY <1>1 DEF Operator
  <2>2. mode' = "analyze" /\ index' = index + Len(w) /\ Len(w) \in Nat /\ buf' = buf
    BY <1>1, OperatorTypes DEF lex_multichar_operators, Skip, In
  <2>3. End(t) = index + Len(w) + 0
    BY <2>1 DEF End
  <2> QED BY <1>0, <2>2, <2>3
<1>2. CASE lex_push_char_token /\ t = Sign
  <2>1. t.from = index /\ t.value = <<lex_char>> /\ t.type = TypeOfChar(lex_char)
    BY <1>2 DEF Sign
  <2>2. lex_char \in CharToken /\ mode' = "analyze" /\ index' = index + 1 /\ buf' = buf
    BY <1>2 DEF lex_push_char_token, Skip, In
  <2>3. t.type # "T_STRING"
    BY <2>1, <2>2, SignTypes
  <2>4. Len(t.value) = 1 /\ (IF t.type = "T_STRING" THEN 2 ELSE 0) = 0
    BY <2>1, <2>3
  <2>5. End(t) = index + 1 + 0
    BY <2>1, <2>4, Zenon DEF End
  <2> QED BY <1>0, <2>2, <2>5
<1>3. CASE InString /\ Skip(1) /\ Leave /\ t = Quoted
  <2>1. t.from = start /\ t.value = Text(start + 1) /\ t.type = "T_STRING"
    BY <1>3 DEF Quoted
  <2>2. start < index /\ index <= Len(buf)
    BY <1>3 DEF InString, In, Inv, Inside
  <2>3. Len(t.value) = index - (start + 1)
    <3>1. start + 1 \in Nat /\ start + 1 <= index
      BY <1>0, <2>2
    <3> QED BY <2>1, <2>2, <3>1, TextLength
  <2>4. End(t) = start + (index - (start + 1)) + 2
    BY <2>1, <2>3 DEF End
  <2>5. mode' = "analyze" /\ index' = index + 1 /\ buf' = buf
    BY <1>3 DEF Skip, Leave
  <2> QED BY <1>0, <2>4, <2>5
<1>word. ASSUME mode # "analyze", t.from = start, t.value = Text(start), t.type # "T_STRING",
                Leave, index' = index, buf' = buf
         PROVE  End(t) = index' /\ mode' = "analyze" /\ buf' = buf
  <2>1. start <= index /\ index <= Len(buf)
    BY <1>word DEF Inv, Inside
  <2>2. Len(t.value) = index - start
    BY <1>0, <1>word, <2>1, TextLength
  <2>3. (IF t.type = "T_STRING" THEN 2 ELSE 0) = 0
    BY <1>word
  <2>4. End(t) = start + (index - start) + 0
    BY <1>word, <2>2, <2>3, Zenon DEF End
  <2>5. mode' = "analyze"
    BY <1>word DEF Leave
  <2> QED BY <1>0, <1>word, <2>4, <2>5
<1>4. CASE InNumber /\ ~(lex_has_value /\ lex_char \in Digit) /\ Leave /\ t = Number
  <2>1. mode # "analyze" /\ index' = index /\ buf' = buf
    BY <1>4 DEF InNumber, In
  <2> QED BY <1>4, <2>1, <1>word DEF Number
<1>5. CASE InIdentifier /\ ~(lex_has_value /\ lex_char \in WordChar) /\ Leave /\ t = Word
  <2>1. mode # "analyze" /\ index' = index /\ buf' = buf
    BY <1>5 DEF InIdentifier, In
  <2>2. convert_str_to_token(Text(start)) # "T_STRING"
    BY KeywordsAssumption DEF convert_str_to_token, KeywordType
  <2> QED BY <1>5, <2>1, <2>2, <1>word DEF Word
<1>6. CASE EndOfFile /\ t = Eof
  <2>1. t.from = index /\ t.value = <<>> /\ t.type = "T_EOF"
    BY <1>6 DEF Eof
  <2>2. End(t) = index + 0 + 0
    BY <2>1 DEF End
  <2>3. mode' = "analyze" /\ index' = index /\ buf' = buf
    BY <1>6 DEF EndOfFile, In
  <2> QED BY <1>0, <2>2, <2>3
<1> QED BY <1>1, <1>2, <1>3, <1>4, <1>5, <1>6 DEF Pushed

LEMMA BetweenPushed ==
  ASSUME Inv, NEW t, Pushed(t), tokens' = Append(tokens, t)
  PROVE  Between'
<1>1. End(t) = index' /\ mode' = "analyze" /\ buf' = buf
  BY PushedEnd
<1>2. Last' = End(t)
  <2>1. tokens \in Seq(Token) /\ Len(tokens) \in Nat
    BY DEF Inv, TypeOK
  <2>2. tokens' # <<>> /\ tokens'[Len(tokens')] = t
    BY <2>1
  <2> QED BY <2>2 DEF Last, End
<1> QED BY <1>1, <1>2, BetweenAfter DEF Between

(* A token or a comment begins here.                                       *)
LEMMA BetweenStart ==
  ASSUME buf' = buf, tokens' = tokens, start' = index, index \in Nat,
         \/ mode' \in {"string", "number", "identifier"} /\ index = NextStart[Last]
         \/ /\ mode' = "line_comment" /\ index' = index
            /\ Opens(index, "/") /\ NextStart[index] = NextStart[Last]
         \/ /\ mode' = "comment" /\ index' = index + 2
            /\ Opens(index, "*") /\ NextStart[index] = NextStart[Last]
  PROVE  Between'
<1>1. Last' = Last
  BY LastKept
<1> QED BY <1>1, BetweenAfter DEF Between

LEMMA BetweenSame ==
  ASSUME Between, UNCHANGED <<buf, index, mode, start, tokens>>
  PROVE  Between'
<1>1. buf' = buf /\ index' = index /\ mode' = mode /\ start' = start /\ tokens' = tokens
  OBVIOUS
<1>2. Last' = Last
  BY <1>1, LastKept
<1> QED BY <1>1, <1>2, BetweenAfter DEF Between, Blank, InToken, LineOpen, CommentOpen

LEMMA BetweenStays ==
  ASSUME Inv, Between, Step, tokens' = tokens
  PROVE  Between'
<1> USE DEF Between
<1>0. index \in Nat /\ Len(buf) \in Nat /\ start \in Nat /\ tokens \in Seq(Token)
  BY DEF Inv, TypeOK
<1>k. Last' = Last
  BY LastKept
<1>value. lex_has_value => index <= Len(buf)
  BY <1>0 DEF lex_has_value
<1>inner. ASSUME buf' = buf, start' = start, mode' = mode,
                 mode \in {"string", "number", "identifier"}
          PROVE  Between'
  BY <1>k, <1>inner, BetweenAfter DEF InToken
<1>1. CASE LineComment
  <2>1. /\ Follows(<<"/", "/">>) /\ mode = "analyze" /\ mode' = "line_comment"
        /\ start' = index /\ index' = index /\ buf' = buf
    BY <1>1 DEF LineComment, In, Enter
  <2>2. Opens(index, "/") /\ index <= Len(buf)
    BY <1>0, <2>1, OpensAre
  <2>3. NextStart[index] = NextStart[Last]
    BY <2>1, <2>2 DEF Blank
  <2> QED BY <1>0, <2>1, <2>2, <2>3, BetweenStart
<1>2. CASE InLineComment
  <2>0. mode = "line_comment" /\ start <= index /\ index <= Len(buf)
    BY <1>2 DEF InLineComment, In, Inv, Inside
  <2>1. CASE lex_char # "\n" /\ Forward /\ Stay
    <3>1. index' = index + 1 /\ buf' = buf /\ mode' = mode /\ start' = start /\ At(index) # "\n"
      BY <2>1 DEF Forward, Stay, lex_char
    <3>2. \A j \in start..index' - 1 : At(j) # "\n"
      BY <1>0, <2>0, <3>1 DEF LineOpen
    <3> QED BY <1>k, <2>0, <3>1, <3>2, BetweenAfter DEF LineOpen
  <2>2. CASE /\ ~lex_has_value \/ Follows(<<"\n">>)
             /\ Leave /\ buf' = buf /\ index' = index
    <3>1. index = Len(buf) \/ At(index) = "\n"
      <4>1. CASE ~lex_has_value
        BY <1>0, <2>0, <4>1 DEF lex_has_value
      <4>2. CASE Follows(<<"\n">>)
        <5>1. Len(<<"\n">>) = 1 /\ <<"\n">>[1] = "\n" /\ index + 1 - 1 = index
          BY <1>0
        <5> QED BY <4>2, <5>1 DEF Follows
      <4> QED BY <2>2, <4>1, <4>2
    <3>2. index \in start..Len(buf) /\ Opens(start, "/") /\ NextStart[start] = NextStart[Last]
      BY <1>0, <2>0 DEF LineOpen
    <3>3. NextStart[start] = NextStart[index]
      BY <1>0, <2>0, <3>1, <3>2, NextOfLineComment DEF LineOpen
    <3> QED BY <1>k, <2>2, <3>2, <3>3, BetweenAfter DEF Leave
  <2> QED BY <1>2, <2>1, <2>2 DEF InLineComment
<1>3. CASE Comment
  <2>1. /\ Follows(<<"/", "*">>) /\ mode = "analyze" /\ mode' = "comment"
        /\ start' = index /\ index' = index + 2 /\ buf' = buf
    BY <1>3 DEF Comment, In, Enter, Skip
  <2>2. Opens(index, "*") /\ index <= Len(buf)
    BY <1>0, <2>1, OpensAre
  <2>3. NextStart[index] = NextStart[Last]
    BY <2>1, <2>2 DEF Blank
  <2> QED BY <1>0, <2>1, <2>2, <2>3, BetweenStart
<1>4. CASE InComment
  <2>0. mode = "comment" /\ start <= index /\ index <= Len(buf)
    BY <1>4 DEF InComment, In, Inv, Inside
  <2>f. index + 1 < Len(buf) /\ At(index) = "*" /\ At(index + 1) = "/" <=> Follows(<<"*", "/">>)
    <3>1. /\ Len(<<"*", "/">>) = 2 /\ <<"*", "/">>[1] = "*" /\ <<"*", "/">>[2] = "/"
          /\ index + 1 - 1 = index /\ index + 2 - 1 = index + 1
          /\ 1 \in 1..2 /\ 2 \in 1..2 /\ \A k \in 1..2 : k = 1 \/ k = 2
          /\ (index + 2 <= Len(buf) <=> index + 1 < Len(buf))
      BY <1>0
    <3>2. Follows(<<"*", "/">>) <=> /\ index + 2 <= Len(buf)
                                    /\ \A k \in 1..2 : At(index + k - 1) = <<"*", "/">>[k]
      BY <3>1 DEF Follows
    <3> QED BY <3>1, <3>2
  <2>1. CASE index + 1 < Len(buf) /\ ~Follows(<<"*", "/">>) /\ Forward /\ Stay
    <3>1. /\ index' = index + 1 /\ buf' = buf /\ mode' = mode /\ start' = start
          /\ ~(At(index) = "*" /\ At(index + 1) = "/")
      BY <2>1, <2>f DEF Forward, Stay
    <3>2. \A j \in start + 2..index' - 1 : ~(At(j) = "*" /\ At(j + 1) = "/")
      BY <1>0, <2>0, <3>1 DEF CommentOpen
    <3>3. start' + 2 <= index'
      BY <1>0, <2>0, <3>1 DEF CommentOpen
    <3> QED BY <1>k, <2>0, <3>1, <3>2, <3>3, BetweenAfter DEF CommentOpen
  <2>2. CASE SyntaxError \/ Stop("aborted")
    BY <2>2, BetweenSame DEF SyntaxError, Stop
  <2>3. CASE /\ index + 1 >= Len(buf) \/ Follows(<<"*", "/">>)
             /\ index' = index + 2 /\ Leave /\ buf' = buf
    <3>1. mode' = "analyze"
      BY <2>3 DEF Leave
    <3>2. ASSUME index' <= Len(buf) PROVE NextStart[index'] = NextStart[Last]
      <4>1. index + 1 < Len(buf) /\ At(index) = "*" /\ At(index + 1) = "/"
        BY <1>0, <2>3, <2>f, <3>2
      <4>2. /\ index \in start + 2..Len(buf) - 2 /\ Opens(start, "*")
            /\ NextStart[start] = NextStart[Last]
        BY <1>0, <2>0, <2>3, <3>2 DEF CommentOpen
      <4>3. \A j \in start + 2..index - 1 : ~(At(j) = "*" /\ At(j + 1) = "/")
        BY <2>0 DEF CommentOpen
      <4>4. NextStart[start] = NextStart[index + 2]
        BY <1>0, <4>1, <4>2, <4>3, NextOfComment
      <4> QED BY <2>3, <4>2, <4>4
    <3> QED BY <1>k, <2>3, <3>1, <3>2, BetweenAfter
  <2> QED BY <1>4, <2>1, <2>2, <2>3 DEF InComment
<1>5. CASE WhiteSpace
  <2>1. /\ mode = "analyze" /\ index < Len(buf) /\ At(index) \in Space
        /\ index' = index + 1 /\ buf' = buf /\ mode' = mode
    BY <1>5 DEF WhiteSpace, In, Forward, Stay, lex_has_value, lex_char
  <2>2. NextStart[index] = NextStart[index + 1]
    BY <1>0, <2>1, NextOfSpace
  <2>3. NextStart[index] = NextStart[Last]
    BY <1>0, <2>1 DEF Blank
  <2> QED BY <1>k, <2>1, <2>2, <2>3, BetweenAfter
<1>start. ASSUME In("analyze"), lex_has_value, lex_char \in Letter \cup Digit \cup Quote \cup {"_"},
                 NEW m \in {"string", "number", "identifier"}, Enter(m), buf' = buf
          PROVE  Between'
  <2>1. lex_char # "/" /\ lex_char \in InLine
    BY <1>start, NoSlash DEF InLine
  <2>2. index = NextStart[Last]
    BY <1>start, <2>1, NoCommentHere, StartsHere
  <2>3. mode' = m /\ start' = index
    BY <1>start DEF Enter
  <2> QED BY <1>0, <1>start, <2>2, <2>3, BetweenStart
<1>push. ASSUME NEW t, tokens' = Append(tokens, t) PROVE FALSE
  <2>1. Len(tokens') = Len(tokens) + 1 /\ Len(tokens) \in Nat
    BY <1>0, <1>push
  <2> QED BY <2>1
<1>6. ASSUME NEW w \in Multichar, lex_multichar_operators(w) PROVE FALSE
  BY <1>6, <1>push DEF lex_multichar_operators, PushNow
<1>7. CASE lex_push_char_token
  BY <1>7, <1>push DEF lex_push_char_token, PushNow
<1>8. CASE lex_string
  BY <1>8, <1>start DEF lex_string, Skip
<1>9. CASE InString
  <2>1. CASE Forward /\ Stay
    BY <1>9, <2>1, <1>inner DEF InString, In, Forward, Stay
  <2>2. CASE Push("T_STRING", Text(start + 1))
    BY <2>2, <1>push DEF Push
  <2>3. CASE SyntaxError
    BY <2>3, BetweenSame DEF SyntaxError, Stop
  <2> QED BY <1>9, <2>1, <2>2, <2>3 DEF InString
<1>10. CASE lex_number
  BY <1>10, <1>start DEF lex_number
<1>11. CASE InNumber
  <2>1. CASE lex_has_value /\ lex_char \in Digit
    BY <1>11, <2>1, <1>inner DEF InNumber, In, Skip, Stay
  <2>2. CASE ~(lex_has_value /\ lex_char \in Digit)
    BY <1>11, <2>2, <1>push DEF InNumber, Push
  <2> QED BY <2>1, <2>2
<1>12. CASE lex_identifier_or_keyword
  BY <1>12, <1>start DEF lex_identifier_or_keyword
<1>13. CASE InIdentifier
  <2>1. CASE lex_has_value /\ lex_char \in WordChar
    BY <1>13, <2>1, <1>inner DEF InIdentifier, In, Skip, Stay
  <2>2. CASE ~(lex_has_value /\ lex_char \in WordChar)
    BY <1>13, <2>2, <1>push DEF InIdentifier, Push
  <2> QED BY <2>1, <2>2
<1>14. CASE UnknownToken
  BY <1>14, BetweenSame DEF UnknownToken, SyntaxError, Stop
<1>15. CASE EndOfFile
  BY <1>15, <1>push DEF EndOfFile, PushNow
<1> QED
  BY <1>1, <1>2, <1>3, <1>4, <1>5, <1>6, <1>7, <1>8, <1>9, <1>10, <1>11, <1>12, <1>13, <1>14,
     <1>15 DEF Step

LEMMA GapsStay == Inv /\ Between /\ Gaps /\ [Next]_vars => Between' /\ Gaps'
<1> SUFFICES ASSUME Inv, Between, Gaps, [Next]_vars PROVE Between' /\ Gaps'
  OBVIOUS
<1>0. tokens \in Seq(Token) /\ Len(tokens) \in Nat
  BY DEF Inv, TypeOK
<1>1. buf' = buf /\ NextStart' = NextStart
  BY StepPushes, NextStartKept
<1> DEFINE Before(s, i) == IF i = 1 THEN 0 ELSE End(s[i - 1])
<1>2. Gaps' <=> \A i \in 1..Len(tokens') :
                  tokens'[i].from <= Len(buf) => tokens'[i].from = NextStart[Before(tokens', i)]
  BY <1>1 DEF Gaps, End
<1>3. Gaps <=> \A i \in 1..Len(tokens) :
                 tokens[i].from <= Len(buf) => tokens[i].from = NextStart[Before(tokens, i)]
  BY DEF Gaps
<1>4. CASE tokens' = tokens
  <2>1. Gaps'
    BY <1>2, <1>3, <1>4
  <2>2. CASE Step
    BY <1>4, <2>1, <2>2, BetweenStays
  <2>3. CASE UNCHANGED vars
    BY <2>1, <2>3, BetweenSame DEF vars
  <2> QED BY <2>2, <2>3 DEF Next, Terminated
<1>5. ASSUME NEW t, Pushed(t), tokens' = Append(tokens, t) PROVE Between' /\ Gaps'
  <2>1. Between'
    BY <1>5, BetweenPushed
  <2>2. t.from <= Len(buf) => t.from = NextStart[Last]
    BY <1>5, PushedNext
  <2>3. /\ Len(tokens') = Len(tokens) + 1
        /\ \A i \in 1..Len(tokens) : tokens'[i] = tokens[i]
        /\ tokens'[Len(tokens) + 1] = t
    BY <1>0, <1>5
  <2>4. Last = Before(tokens', Len(tokens) + 1)
    <3>1. CASE tokens = <<>>
      <4>1. Len(tokens) + 1 = 1
        BY <3>1
      <4> QED BY <3>1, <4>1 DEF Last
    <3>2. CASE tokens # <<>>
      <4>1. Len(tokens) + 1 # 1 /\ Len(tokens) + 1 - 1 = Len(tokens) /\ Len(tokens) \in 1..Len(tokens)
        BY <1>0, <3>2
      <4>2. tokens'[Len(tokens) + 1 - 1] = tokens[Len(tokens)]
        BY <2>3, <4>1
      <4> QED BY <3>2, <4>1, <4>2 DEF Last
    <3> QED BY <3>1, <3>2
  <2>5. \A i \in 1..Len(tokens) : Before(tokens', i) = Before(tokens, i)
    <3> TAKE i \in 1..Len(tokens)
    <3>1. CASE i = 1
      BY <3>1
    <3>2. CASE i # 1
      <4>1. i - 1 \in 1..Len(tokens)
        BY <1>0, <3>2
      <4>2. tokens'[i - 1] = tokens[i - 1]
        BY <2>3, <4>1
      <4> QED BY <3>2, <4>2
    <3> QED BY <3>1, <3>2
  <2> HIDE DEF Before
  <2>6. ASSUME NEW i \in 1..Len(tokens'), tokens'[i].from <= Len(buf)
        PROVE  tokens'[i].from = NextStart[Before(tokens', i)]
    <3>1. CASE i \in 1..Len(tokens)
      BY <1>3, <2>3, <2>5, <2>6, <3>1
    <3>2. CASE i \notin 1..Len(tokens)
      <4>1. i = Len(tokens) + 1
        BY <1>0, <2>3, <3>2
      <4> QED BY <2>2, <2>3, <2>4, <2>6, <4>1
    <3> QED BY <3>1, <3>2
  <2> QED BY <1>2, <2>1, <2>6
<1> QED BY <1>4, <1>5, StepPushes

(* Nothing of the text is lost and nothing read twice: every token starts  *)
(* where NextStart, which knows the text alone, says that the one before   *)
(* is followed.  The loops of comments stop at the first closing, and no   *)
(* branch of lex_analyze moves on without a token, a blank or a comment.   *)
THEOREM NothingLost == Spec => []Gaps
<1>1. Init => Between /\ Gaps
  <2>1. Init => Between
    BY DEF Init, Between, Blank, InToken, LineOpen, CommentOpen, Last
  <2>2. Init => Gaps
    BY DEF Init, Gaps
  <2> QED BY <2>1, <2>2
<1> QED BY <1>1, InitOK, StepOK, GapsStay, PTL DEF Spec
=============================================================================
