---------------------------- MODULE ParserProofs ----------------------------
(***************************************************************************)
(* Proofs about Parser, for every sequence of tokens that ends with its    *)
(* only T_EOF: no function reads past the end, and the assertions of the   *)
(* parser hold.                                                            *)
(***************************************************************************)
EXTENDS Parser, SequenceTheorems, TLAPS

(* What may be pending anywhere: everything but parser_parse_var_decl,     *)
(* which reads a token without a look at its type.                         *)
Plainly ==
  {"expect", "build", "root", "stmts", "stmt", "semicolons", "fn_decl", "block", "if", "else", "loop",
   "loop_count", "loop_as", "loop_name", "elements", "next_element", "params", "next_param",
   "array_lit", "var_value", "expr", "comparison", "additive", "multiplicative", "comparison_rest",
   "additive_rest", "multiplicative_rest", "binexp_inner", "call_expr", "args", "comma", "primary"}
NodeType ==
  {"NODE_ROOT", "NODE_BLOCK", "NODE_IF_STMT", "NODE_LOOP_STMT", "NODE_ARRAY_LIT", "NODE_FN_DECL",
   "NODE_VAR_DECL", "NODE_ASSIGNMENT", "NODE_EXPR_CALL"}
PlainItem == [do : Plainly, arg : TokenType \cup NodeType \cup {"none"}]

(* parser_parse_var_decl is at most the next thing to do, and the token it *)
(* reads is then one of the two it asserts.                                *)
VarDeclNext ==
  \/ todo \in Seq(PlainItem)
  \/ /\ todo # <<>>
     /\ Head(todo).do = "var_decl"
     /\ Tail(todo) \in Seq(PlainItem)
     /\ parser_at.type \in {"T_VAR", "T_CONST"}

Inv == tokens \in Tokens /\ InRange /\ VarDeclNext

LEMMA Items ==
  /\ \A f \in Plainly : Call(f) \in PlainItem
  /\ \A t \in TokenType : Expect(t) \in PlainItem
  /\ \A t \in NodeType : Build(t) \in PlainItem
<1>1. "expect" \in Plainly /\ "build" \in Plainly
  BY DEF Plainly
<1> QED BY <1>1 DEF Call, Expect, Build, PlainItem

LEMMA Short ==
  ASSUME NEW S
  PROVE  /\ \A a \in S : <<a>> \in Seq(S)
         /\ \A a, b \in S : <<a, b>> \in Seq(S)
         /\ \A a, b, c \in S : <<a, b, c>> \in Seq(S)
         /\ \A a, b, c, d \in S : <<a, b, c, d>> \in Seq(S)
         /\ \A a, b, c, d, e \in S : <<a, b, c, d, e>> \in Seq(S)
         /\ \A a, b, c, d, e, f, g \in S : <<a, b, c, d, e, f, g>> \in Seq(S)
         /\ \A a, b, c, d, e, f, g, h, i \in S : <<a, b, c, d, e, f, g, h, i>> \in Seq(S)
OBVIOUS

(* Head and tail of a sequence with three more entries in front.           *)
LEMMA Prefixed ==
  ASSUME NEW S, NEW a, NEW b \in S, NEW c \in S, NEW s \in Seq(S)
  PROVE  LET r == <<a, b, c>> \o s
         IN  r # <<>> /\ Head(r) = a /\ Tail(r) \in Seq(S)
<1> DEFINE r == <<a, b, c>> \o s
           S2 == S \cup {a}
<1>1. <<a, b, c>> \in Seq(S2) /\ s \in Seq(S2)
  OBVIOUS
<1>2. /\ r \in Seq(S2) /\ Len(r) = 3 + Len(s)
      /\ r[1] = a /\ r[2] = b /\ r[3] = c
      /\ \A i \in 1..Len(s) : r[3 + i] = s[i]
  BY <1>1
<1>3. /\ <<b, c>> \o s \in Seq(S) /\ <<b, c>> \o s \in Seq(S2)
      /\ Len(<<b, c>> \o s) = 2 + Len(s)
      /\ \A i \in 1..2 + Len(s) : (<<b, c>> \o s)[i] = r[i + 1]
  BY <1>1, <1>2
<1>4. Tail(r) \in Seq(S)
  <2>1. /\ Tail(r) \in Seq(S2)
        /\ Len(Tail(r)) = 2 + Len(s)
        /\ \A i \in 1..2 + Len(s) : Tail(r)[i] = r[i + 1]
    BY <1>2
  <2>2. Tail(r) = <<b, c>> \o s
    BY <1>3, <2>1, SeqEqual
  <2> QED BY <1>3, <2>2
<1>5. r # <<>> /\ Head(r) = a
  BY <1>2
<1> QED BY <1>4, <1>5

(* Every function but parser_parse_var_decl finds plain items and leaves   *)
(* plain items.                                                            *)
LEMMA Plain ==
  ASSUME VarDeclNext, NEW f \in Plainly, Doing(f)
  PROVE  /\ todo \in Seq(PlainItem)
         /\ Tail(todo) \in Seq(PlainItem)
         /\ \A items \in Seq(PlainItem) : items \o Tail(todo) \in Seq(PlainItem)
<1>1. f # "var_decl"
  BY DEF Plainly
<1>2. todo \in Seq(PlainItem) /\ todo # <<>>
  BY <1>1 DEF VarDeclNext, Doing
<1> QED BY <1>2

(* A token that is read is not the last one.                               *)
LEMMA NotLast ==
  ASSUME tokens \in Tokens, InRange, parser_at.type # "T_EOF"
  PROVE  index + 1 < Len(tokens)
BY TokensAssumption DEF InRange, parser_at

LEMMA InitOK == Init => Inv
<1> SUFFICES ASSUME Init PROVE Inv
  OBVIOUS
<1>1. InRange
  BY TokensAssumption DEF Init, InRange
<1>2. Call("root") \in PlainItem /\ Build("NODE_ROOT") \in PlainItem
  BY Items DEF Plainly, NodeType
<1>3. todo \in Seq(PlainItem)
  BY <1>2, Short DEF Init
<1> QED BY <1>1, <1>3 DEF Init, Inv, VarDeclNext

-----------------------------------------------------------------------------
(* The three kinds of steps of a function other than parser_parse_var_decl *)
(* as far as the invariant goes: it reads nothing, it reads a token that   *)
(* is not T_EOF, it reports an error.                                      *)
LEMMA Quiet ==
  ASSUME Inv, Same, todo' \in Seq(PlainItem)
  PROVE  Inv'
BY DEF Inv, Same, InRange, VarDeclNext

LEMMA Reads ==
  ASSUME Inv, ret_forward, parser_at.type # "T_EOF", todo' \in Seq(PlainItem)
  PROVE  Inv'
<1>1. index + 1 < Len(tokens)
  BY NotLast DEF Inv
<1> QED BY <1>1 DEF Inv, ret_forward, InRange, VarDeclNext

LEMMA Fails ==
  ASSUME Inv, Error
  PROVE  Inv'
BY DEF Inv, Error, InRange, VarDeclNext, parser_at

LEMMA StepOK == Inv /\ [Next]_vars => Inv'
<1> SUFFICES ASSUME Inv, [Next]_vars PROVE Inv'
  OBVIOUS
<1>inv. tokens \in Tokens /\ InRange /\ VarDeclNext
  BY DEF Inv
(* The items that the functions put on the stack are plain.                *)
<1>go. ASSUME NEW f \in Plainly, Doing(f), NEW items \in Seq(PlainItem), Go(items), Same
       PROVE  Inv'
  BY <1>go, <1>inv, Plain, Quiet DEF Go
<1>ret. ASSUME NEW f \in Plainly, Doing(f), Return, Same
        PROVE  Inv'
  BY <1>ret, <1>inv, Plain, Quiet DEF Return
<1>1. CASE parser_expect
  <2>1. "expect" \in Plainly /\ Doing("expect")
    BY <1>1 DEF parser_expect, Plainly
  <2>2. CASE ~parser_is_eof /\ ret_forward /\ Return
    <3>1. parser_at.type # "T_EOF"
      BY <2>2 DEF parser_is_eof, At
    <3> QED BY <2>1, <2>2, <3>1, <1>inv, Plain, Reads DEF Return
  <2>3. CASE Error
    BY <2>3, Fails
  <2> QED BY <1>1, <2>2, <2>3 DEF parser_expect
<1>2. CASE BuildNode
  BY <1>2, <1>ret DEF BuildNode, Plainly
<1>3. CASE parser_create_ast_node
  <2>1. <<Call("stmt"), Call("root")>> \in Seq(PlainItem) /\ "root" \in Plainly
    BY Items, Short DEF Plainly
  <2> QED BY <1>3, <2>1, <1>go, <1>ret DEF parser_create_ast_node
<1>4. CASE Statements
  <2>1. <<Call("stmt"), Call("stmts")>> \in Seq(PlainItem) /\ "stmts" \in Plainly
    BY Items, Short DEF Plainly
  <2> QED BY <1>4, <2>1, <1>go, <1>ret DEF Statements
<1>5. CASE parser_parse_block
  <2>1. "block" \in Plainly
    BY DEF Plainly
  <2>2. <<Expect("T_BLOCK_BRACE_OPEN"), Call("stmts"), Expect("T_BLOCK_BRACE_CLOSE"),
        Build("NODE_BLOCK")>>
          \in Seq(PlainItem)
    BY Items, Short DEF Plainly, TokenType, NodeType
  <2> QED BY <1>5, <2>1, <2>2, <1>go, <1>ret DEF parser_parse_block
<1>6. CASE parser_parse_if
  <2>1. "if" \in Plainly
    BY DEF Plainly
  <2>2. <<Expect("T_IF"), Expect("T_PAREN_OPEN"), Call("expr"), Expect("T_PAREN_CLOSE"),
        Call("stmt"), Call("else"), Build("NODE_IF_STMT")>>
          \in Seq(PlainItem)
    BY Items, Short DEF Plainly, TokenType, NodeType
  <2> QED BY <1>6, <2>1, <2>2, <1>go, <1>ret DEF parser_parse_if
<1>7. CASE Else
  <2>1. "else" \in Plainly
    BY DEF Plainly
  <2>2. <<Expect("T_ELSE"), Call("stmt")>>
          \in Seq(PlainItem)
    BY Items, Short DEF Plainly, TokenType, NodeType
  <2> QED BY <1>7, <2>1, <2>2, <1>go, <1>ret DEF Else
<1>8. CASE parser_parse_loop_stmt
  <2>1. "loop" \in Plainly
    BY DEF Plainly
  <2>2. <<Expect("T_LOOP"), Call("loop_count"), Call("loop_name"), Call("stmt"),
        Build("NODE_LOOP_STMT")>>
          \in Seq(PlainItem)
    BY Items, Short DEF Plainly, TokenType, NodeType
  <2> QED BY <1>8, <2>1, <2>2, <1>go, <1>ret DEF parser_parse_loop_stmt
<1>9. CASE LoopCount
  <2>1. "loop_count" \in Plainly
    BY DEF Plainly
  <2>2. <<Expect("T_PAREN_OPEN"), Call("expr"), Call("loop_as"), Expect("T_PAREN_CLOSE")>>
          \in Seq(PlainItem)
    BY Items, Short DEF Plainly, TokenType, NodeType
  <2> QED BY <1>9, <2>1, <2>2, <1>go, <1>ret DEF LoopCount
<1>10. CASE LoopAs
  <2>1. "loop_as" \in Plainly
    BY DEF Plainly
  <2>2. <<Expect("T_AS"), Expect("T_IDENTIFIER")>>
          \in Seq(PlainItem)
    BY Items, Short DEF Plainly, TokenType, NodeType
  <2> QED BY <1>10, <2>1, <2>2, <1>go, <1>ret DEF LoopAs
<1>11. CASE parser_parse_array_lit
  <2>1. "array_lit" \in Plainly
    BY DEF Plainly
  <2>2. <<Call("comparison")>>
          \in Seq(PlainItem)
    BY Items, Short DEF Plainly, TokenType, NodeType
  <2>3. <<Expect("T_ARRAY"), Expect("T_SQUARE_BRACE_OPEN"), Call("elements"),
        Expect("T_SQUARE_BRACE_CLOSE"), Build("NODE_ARRAY_LIT")>>
          \in Seq(PlainItem)
    BY Items, Short DEF Plainly, TokenType, NodeType
  <2> QED BY <1>11, <2>1, <2>2, <2>3, <1>go, <1>ret DEF parser_parse_array_lit
<1>12. CASE parser_parse_fn_decl
  <2>1. "fn_decl" \in Plainly
    BY DEF Plainly
  <2>2. <<Expect("T_FUNCTION"), Expect("T_IDENTIFIER"), Expect("T_PAREN_OPEN"),
        Call("params"), Expect("T_PAREN_CLOSE"), Expect("T_BLOCK_BRACE_OPEN"),
        Call("stmts"), Expect("T_BLOCK_BRACE_CLOSE"), Build("NODE_FN_DECL")>>
          \in Seq(PlainItem)
    BY Items, Short DEF Plainly, TokenType, NodeType
  <2> QED BY <1>12, <2>1, <2>2, <1>go, <1>ret DEF parser_parse_fn_decl
<1>13. CASE parser_parse_assignment_expr
  <2>1. "expr" \in Plainly
    BY DEF Plainly
  <2>2. <<Call("array_lit")>>
          \in Seq(PlainItem)
    BY Items, Short DEF Plainly, TokenType, NodeType
  <2>3. <<Expect("T_IDENTIFIER"), Expect("T_ASSIGNMENT"), Call("expr"),
        Build("NODE_ASSIGNMENT")>>
          \in Seq(PlainItem)
    BY Items, Short DEF Plainly, TokenType, NodeType
  <2> QED BY <1>13, <2>1, <2>2, <2>3, <1>go, <1>ret DEF parser_parse_assignment_expr
<1>14. CASE parser_parse_call_expr
  <2>1. "call_expr" \in Plainly
    BY DEF Plainly
  <2>2. <<Call("primary")>>
          \in Seq(PlainItem)
    BY Items, Short DEF Plainly, TokenType, NodeType
  <2>3. <<Expect("T_IDENTIFIER"), Expect("T_PAREN_OPEN"), Call("args"),
        Expect("T_PAREN_CLOSE"), Build("NODE_EXPR_CALL")>>
          \in Seq(PlainItem)
    BY Items, Short DEF Plainly, TokenType, NodeType
  <2> QED BY <1>14, <2>1, <2>2, <2>3, <1>go, <1>ret DEF parser_parse_call_expr
<1>15. CASE parser_parse_binexp_inner
  <2>1. "binexp_inner" \in Plainly
    BY DEF Plainly
  <2> QED BY <1>15, <2>1, <1>go, <1>ret DEF parser_parse_binexp_inner
<1>16. CASE VarValue
  <2>1. "var_value" \in Plainly
    BY DEF Plainly
  <2>2. <<Expect("T_ASSIGNMENT"), Call("expr")>> \in Seq(PlainItem)
    BY Items, Short DEF Plainly, TokenType
  <2> QED BY <1>16, <2>1, <2>2, <1>go, <1>ret, Fails DEF VarValue
<1>17. CASE Semicolons
  <2>1. "semicolons" \in Plainly /\ Doing("semicolons")
    BY <1>17 DEF Plainly, Semicolons
  <2>2. CASE At("T_SEMICOLON") /\ ret_forward /\ UNCHANGED todo
    <3>1. parser_at.type # "T_EOF"
      BY <2>2 DEF At
    <3> QED BY <2>1, <2>2, <3>1, <1>inv, Plain, Reads
  <2>3. CASE Same /\ Return
    BY <2>1, <2>3, <1>ret
  <2> QED BY <1>17, <2>2, <2>3 DEF Semicolons
<1>18. CASE LoopName
  <2>1. "loop_name" \in Plainly /\ Doing("loop_name") /\ Return
    BY <1>18 DEF Plainly, LoopName
  <2>2. CASE At("T_IDENTIFIER") /\ ret_forward
    <3>1. parser_at.type # "T_EOF"
      BY <2>2 DEF At
    <3> QED BY <2>1, <2>2, <3>1, <1>inv, Plain, Reads DEF Return
  <2>3. CASE Same
    BY <2>1, <2>3, <1>ret
  <2> QED BY <1>18, <2>2, <2>3 DEF LoopName
<1>19. ASSUME NEW list \in {"elements", "params"}, List(list) PROVE Inv'
  <2>1. /\ list \in Plainly /\ ListNext(list) \in Plainly
        /\ ListItem(list) \in PlainItem
    BY Items DEF Plainly, ListNext, ListItem, TokenType
  <2>2. /\ Call(ListNext(list)) \in PlainItem
        /\ Expect("T_COMMA") \in PlainItem /\ Call(list) \in PlainItem
    BY <2>1, Items DEF TokenType
  <2>3. /\ <<ListItem(list), Call(ListNext(list))>> \in Seq(PlainItem)
        /\ <<Expect("T_COMMA"), Call(list)>> \in Seq(PlainItem)
    BY <2>1, <2>2, Short
  <2> QED BY <1>19, <2>1, <2>3, <1>go, <1>ret DEF List
<1>20. ASSUME NEW level \in Level, parser_parse_binexp(level) PROVE Inv'
  <2>1. level \in Plainly /\ Operand(level) \in Plainly /\ Rest(level) \in Plainly
    BY DEF Level, Plainly, Operand, Rest
  <2>2. <<Call(Operand(level)), Call(Rest(level))>> \in Seq(PlainItem)
    BY <2>1, Items, Short
  <2> QED BY <1>20, <2>1, <2>2, <1>go DEF parser_parse_binexp
<1>21. ASSUME NEW level \in Level, BinexpRest(level) PROVE Inv'
  <2>1. /\ RightOperand(level) \in Plainly /\ Rest(level) \in Plainly
        /\ "binexp_inner" \in Plainly /\ "T_BINARY_OPERATOR" \in TokenType
    BY DEF Level, Plainly, Operand, RightOperand, Rest, TokenType
  <2>2. <<Expect("T_BINARY_OPERATOR"), Call(RightOperand(level)), Call("binexp_inner"),
          Call(Rest(level))>> \in Seq(PlainItem)
    BY <2>1, Items, Short
  <2> QED BY <1>21, <2>1, <2>2, <1>go, <1>ret DEF BinexpRest
<1>22. CASE Arguments
  <2>1. CASE Doing("args") /\ Same
    <3>1. "args" \in Plainly /\ <<Call("expr"), Call("comma"), Call("args")>> \in Seq(PlainItem)
      BY Items, Short DEF Plainly
    <3>2. Return \/ Go(<<Call("expr"), Call("comma"), Call("args")>>)
      BY <1>22, <2>1 DEF Arguments, Doing
    <3> QED BY <2>1, <3>1, <3>2, <1>go, <1>ret
  <2>2. CASE Doing("comma") /\ Return /\ At("T_COMMA") /\ ret_forward
    <3>1. "comma" \in Plainly /\ parser_at.type # "T_EOF"
      BY <2>2 DEF At, Plainly
    <3> QED BY <2>2, <3>1, <1>inv, Plain, Reads DEF Return
  <2>3. CASE Doing("comma") /\ Return /\ Same
    BY <2>3, <1>ret DEF Plainly
  <2> QED BY <1>22, <2>1, <2>2, <2>3 DEF Arguments
<1>23. CASE parser_parse_primary_expr
  <2>1. "primary" \in Plainly /\ Doing("primary")
    BY <1>23 DEF parser_parse_primary_expr, Plainly
  <2>2. CASE parser_at.type \in DOMAIN NodeOfToken /\ ret_forward /\ Return
    <3>1. parser_at.type # "T_EOF"
      BY <2>2 DEF NodeOfToken
    <3> QED BY <2>1, <2>2, <3>1, <1>inv, Plain, Reads DEF Return
  <2>3. CASE At("T_PAREN_OPEN") /\ ret_forward /\ Go(<<Call("expr"), Expect("T_PAREN_CLOSE")>>)
    <3>1. parser_at.type # "T_EOF"
      BY <2>3 DEF At
    <3>2. <<Call("expr"), Expect("T_PAREN_CLOSE")>> \in Seq(PlainItem)
      BY Items, Short DEF Plainly, TokenType
    <3> QED BY <2>1, <2>3, <3>1, <3>2, <1>inv, Plain, Reads DEF Go
  <2>4. CASE Error
    BY <2>4, Fails
  <2> QED BY <1>23, <2>2, <2>3, <2>4 DEF parser_parse_primary_expr
<1>24. CASE parser_parse_stmt
  <2>1. "stmt" \in Plainly /\ Doing("stmt") /\ Same
    BY <1>24 DEF parser_parse_stmt, Plainly
  <2>2. CASE parser_at.type \in {"T_VAR", "T_CONST"}
    <3>2. Tail(todo) \in Seq(PlainItem)
      BY <2>1, <1>inv, Plain
    <3>3. Go(<<Call("var_decl"), Expect("T_SEMICOLON"), Call("semicolons")>>)
      BY <1>24, <2>2 DEF parser_parse_stmt, At
    <3>4. todo' = <<Call("var_decl"), Expect("T_SEMICOLON"), Call("semicolons")>> \o Tail(todo)
      BY <3>3 DEF Go
    <3>5. Expect("T_SEMICOLON") \in PlainItem /\ Call("semicolons") \in PlainItem
      BY Items DEF Plainly, TokenType
    <3>6. todo' # <<>> /\ Head(todo') = Call("var_decl") /\ Tail(todo') \in Seq(PlainItem)
      BY <3>2, <3>4, <3>5, Prefixed
    <3>7. parser_at' = parser_at
      BY <2>1 DEF Same, parser_at
    <3>8. VarDeclNext'
      BY <3>6, <3>7, <2>2 DEF VarDeclNext, Call
    <3> QED BY <2>1, <3>8, <1>inv DEF Inv, Same, InRange
  <2>3. CASE parser_at.type \notin {"T_VAR", "T_CONST"}
    <3>1. /\ <<Call("fn_decl"), Call("semicolons")>> \in Seq(PlainItem)
          /\ <<Call("block"), Call("semicolons")>> \in Seq(PlainItem)
          /\ <<Call("if"), Call("semicolons")>> \in Seq(PlainItem)
          /\ <<Call("loop"), Call("semicolons")>> \in Seq(PlainItem)
          /\ <<Call("expr"), Expect("T_SEMICOLON"), Call("semicolons")>> \in Seq(PlainItem)
      BY Items, Short DEF Plainly, TokenType
    <3>2. PICK items \in Seq(PlainItem) : Go(items)
      BY <1>24, <2>3, <3>1 DEF parser_parse_stmt, At
    <3> QED BY <2>1, <3>2, <1>go
  <2> QED BY <2>2, <2>3
<1>25. CASE parser_parse_var_decl
  <2>1. /\ Doing("var_decl")
        /\ ret_forward
        /\ Go(<<Expect("T_IDENTIFIER"), Call("var_value"), Build("NODE_VAR_DECL")>>)
    BY <1>25 DEF parser_parse_var_decl
  <2>2. todo # <<>> /\ Head(todo).do = "var_decl"
    BY <2>1 DEF Doing
  <2>3. Tail(todo) \in Seq(PlainItem) /\ parser_at.type \in {"T_VAR", "T_CONST"}
    <3>1. CASE todo \in Seq(PlainItem)
      <4>1. Head(todo) \in PlainItem
        BY <3>1, <2>2
      <4> QED BY <4>1, <2>2 DEF PlainItem, Plainly
    <3> QED BY <3>1, <1>inv DEF VarDeclNext
  <2>4. <<Expect("T_IDENTIFIER"), Call("var_value"), Build("NODE_VAR_DECL")>> \in Seq(PlainItem)
    BY Items, Short DEF Plainly, TokenType, NodeType
  <2>5. todo' \in Seq(PlainItem)
    BY <2>1, <2>3, <2>4 DEF Go
  <2> QED BY <2>1, <2>3, <2>5, Reads
<1>26. CASE Finish
  <2>1. parser_at' = parser_at
    BY <1>26 DEF Finish, parser_at
  <2> QED BY <1>26, <2>1, <1>inv DEF Finish, Inv, InRange, VarDeclNext
<1>27. CASE UNCHANGED vars
  BY <1>27, <1>inv DEF vars, Inv, InRange, VarDeclNext, parser_at
<1> QED
  BY <1>1, <1>2, <1>3, <1>4, <1>5, <1>6, <1>7, <1>8, <1>9, <1>10, <1>11, <1>12, <1>13,
     <1>14, <1>15, <1>16, <1>17, <1>18, <1>19, <1>20, <1>21, <1>22, <1>23, <1>24, <1>25,
     <1>26, <1>27 DEF Next, Step, Terminated

THEOREM Invariance == Spec => []Inv
<1> QED BY InitOK, StepOK, PTL DEF Spec

(* parser_at and parser_ret_forward never fail their assertion: on every   *)
(* sequence of tokens that lex_analyze can return, whole or broken, the    *)
(* parser stops before it has consumed T_EOF.                              *)
THEOREM StaysInRange == Spec => []InRange
<1>1. Inv => InRange
  BY DEF Inv
<1> QED BY <1>1, Invariance, PTL
=============================================================================
