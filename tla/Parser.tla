------------------------------- MODULE Parser -------------------------------
(***************************************************************************)
(* The parser of src/parser.c, a recursive descent.  Its C stack is made   *)
(* explicit: todo holds what the functions that have not returned have     *)
(* still to do, the innermost first.  One step is one call, or one turn of *)
(* a loop, of one parser function.                                         *)
(*                                                                         *)
(* A node of the syntax tree has the nodes and tokens it was made of, in   *)
(* the order of the text; a token is named by its place.                   *)
(***************************************************************************)
EXTENDS Integers, Sequences

CONSTANT Tokens  (* the sequences of tokens that may be parsed             *)

TokenType == {"T_VAR", "T_CONST", "T_FUNCTION", "T_ARRAY", "T_IMPORT", "T_IF", "T_ELSE", "T_LOOP",
              "T_AS", "T_IDENTIFIER", "T_INT_LIT", "T_STRING", "T_BINARY_OPERATOR", "T_SEMICOLON",
              "T_ASSIGNMENT", "T_COMMA", "T_PERIOD", "T_PAREN_OPEN", "T_PAREN_CLOSE",
              "T_BLOCK_BRACE_OPEN", "T_BLOCK_BRACE_CLOSE", "T_SQUARE_BRACE_OPEN",
              "T_SQUARE_BRACE_CLOSE", "T_EOF"}

(* What lex_analyze leaves: the last token is T_EOF, and no other is.      *)
ASSUME TokensAssumption ==
  \A s \in Tokens :
    /\ s \in Seq([type : TokenType, value : STRING])
    /\ Len(s) > 0
    /\ \A i \in 1..Len(s) : s[i].type = "T_EOF" <=> i = Len(s)

VARIABLES
  tokens, index,
  todo,    (* what the functions in progress have still to do              *)
  nodes,   (* what they have collected: a sequence for each node in the    *)
           (* making, the innermost last                                   *)
  status   (* "running", "done", "error"                                   *)

vars == <<tokens, index, todo, nodes, status>>

(* Entries of todo: a function, or the rest of one; parser_expect; the     *)
(* end of a node.                                                          *)
Call(f)      == [do |-> f, arg |-> "none"]
Expect(type) == [do |-> "expect", arg |-> type]
Build(type)  == [do |-> "build", arg |-> type]

Init ==
  /\ tokens \in Tokens
  /\ index = 0
  /\ todo = <<Call("root"), Build("NODE_ROOT")>>
  /\ nodes = <<<<>>, <<>>>>
  /\ status = "running"

-----------------------------------------------------------------------------
parser_at     == tokens[index + 1]
At(type)      == parser_at.type = type
parser_is_eof == index >= Len(tokens) \/ At("T_EOF")

(* A token is read.                                                        *)
ret_forward == index' = index + 1 /\ UNCHANGED <<tokens, status>>
Same        == UNCHANGED <<tokens, index, status>>

Error == status' = "error" /\ UNCHANGED <<tokens, index, todo, nodes>>

Doing(f) == status = "running" /\ todo # <<>> /\ Head(todo).do = f

Go(items) == todo' = items \o Tail(todo)
Return    == todo' = Tail(todo)

Leaf(type) == [type |-> type, at |-> index + 1, kids |-> <<>>]
Node(type, kids) == [type |-> type, at |-> 0, kids |-> kids]

Inner       == nodes[Len(nodes)]
Outer       == SubSeq(nodes, 1, Len(nodes) - 1)
SetInner(s) == nodes' = Append(Outer, s)
Keep(node)  == SetInner(Append(Inner, node))
Open        == nodes' = Append(nodes, <<>>)

(* Of the tokens that are expected these go into the tree.                 *)
Kept == {"T_IDENTIFIER", "T_BINARY_OPERATOR"}

-----------------------------------------------------------------------------
(* Mutant: the error is reported and the parser goes on.                   *)
ExpectAnything ==
  /\ Doing("expect")
  /\ ret_forward
  /\ Return
  /\ UNCHANGED nodes

parser_expect ==
  /\ Doing("expect")
  /\ LET type == Head(todo).arg
     IN  \/ /\ ~parser_is_eof /\ At(type)
            /\ ret_forward
            /\ Return
            /\ IF type \in Kept THEN Keep(Leaf(type)) ELSE UNCHANGED nodes
         \/ parser_is_eof /\ Error
         \/ ~parser_is_eof /\ ~At(type) /\ Error

(* A node is complete and goes to the one around it.                       *)
BuildNode ==
  /\ Doing("build")
  /\ nodes' = LET around == nodes[Len(nodes) - 1]
                  node   == Node(Head(todo).arg, Inner)
              IN  Append(SubSeq(nodes, 1, Len(nodes) - 2), Append(around, node))
  /\ Return
  /\ Same

(* The loops over statements of parser_create_ast_node, and of blocks and  *)
(* function bodies, which a closing brace ends.                            *)
parser_create_ast_node ==
  /\ Doing("root")
  /\ IF parser_is_eof THEN Return ELSE Go(<<Call("stmt"), Call("root")>>)
  /\ Same /\ UNCHANGED nodes

Statements ==
  /\ Doing("stmts")
  /\ IF parser_is_eof \/ At("T_BLOCK_BRACE_CLOSE") THEN Return
     ELSE Go(<<Call("stmt"), Call("stmts")>>)
  /\ Same /\ UNCHANGED nodes

parser_parse_stmt ==
  /\ Doing("stmt")
  /\ Go(CASE parser_at.type \in {"T_VAR", "T_CONST"} ->
               <<Call("var_decl"), Expect("T_SEMICOLON"), Call("semicolons")>>
          [] At("T_FUNCTION")         -> <<Call("fn_decl"), Call("semicolons")>>
          [] At("T_BLOCK_BRACE_OPEN") -> <<Call("block"), Call("semicolons")>>
          [] At("T_IF")               -> <<Call("if"), Call("semicolons")>>
          [] At("T_LOOP")             -> <<Call("loop"), Call("semicolons")>>
          [] OTHER -> <<Call("expr"), Expect("T_SEMICOLON"), Call("semicolons")>>)
  /\ Same /\ UNCHANGED nodes

Semicolons ==
  /\ Doing("semicolons")
  /\ \/ At("T_SEMICOLON") /\ ret_forward /\ UNCHANGED todo
     \/ ~At("T_SEMICOLON") /\ Same /\ Return
  /\ UNCHANGED nodes

parser_parse_block ==
  /\ Doing("block")
  /\ Open
  /\ Go(<<Expect("T_BLOCK_BRACE_OPEN"), Call("stmts"), Expect("T_BLOCK_BRACE_CLOSE"),
          Build("NODE_BLOCK")>>)
  /\ Same

-----------------------------------------------------------------------------
parser_parse_if ==
  /\ Doing("if")
  /\ Open
  /\ Go(<<Expect("T_IF"), Expect("T_PAREN_OPEN"), Call("expr"), Expect("T_PAREN_CLOSE"),
          Call("stmt"), Call("else"), Build("NODE_IF_STMT")>>)
  /\ Same

(* Mutant: the else is left to the outermost if.                           *)
ElseOutermost ==
  /\ Doing("else")
  /\ IF At("T_ELSE") /\ \A i \in 2..Len(todo) : todo[i].do # "else"
     THEN Go(<<Expect("T_ELSE"), Call("stmt")>>) ELSE Return
  /\ Same /\ UNCHANGED nodes

Else ==
  /\ Doing("else")
  /\ IF At("T_ELSE") THEN Go(<<Expect("T_ELSE"), Call("stmt")>>) ELSE Return
  /\ Same /\ UNCHANGED nodes

parser_parse_loop_stmt ==
  /\ Doing("loop")
  /\ Open
  /\ Go(<<Expect("T_LOOP"), Call("loop_count"), Call("loop_name"), Call("stmt"),
          Build("NODE_LOOP_STMT")>>)
  /\ Same

LoopCount ==
  /\ Doing("loop_count")
  /\ IF At("T_PAREN_OPEN")
     THEN Go(<<Expect("T_PAREN_OPEN"), Call("expr"), Call("loop_as"), Expect("T_PAREN_CLOSE")>>)
     ELSE Return
  /\ Same /\ UNCHANGED nodes

LoopAs ==
  /\ Doing("loop_as")
  /\ IF At("T_PAREN_CLOSE") THEN Return ELSE Go(<<Expect("T_AS"), Expect("T_IDENTIFIER")>>)
  /\ Same /\ UNCHANGED nodes

(* An identifier here is the name of the variable, and replaces the one    *)
(* that as has given.                                                      *)
LoopName ==
  /\ Doing("loop_name")
  /\ \/ /\ At("T_IDENTIFIER")
        /\ ret_forward
        /\ SetInner(Append(SelectSeq(Inner, LAMBDA n : n.type # "T_IDENTIFIER"),
                           Leaf("T_IDENTIFIER")))
     \/ ~At("T_IDENTIFIER") /\ Same /\ UNCHANGED nodes
  /\ Return

-----------------------------------------------------------------------------
(* The elements of an array literal and the parameters of a function: the  *)
(* closing bracket or a comma follows each of them.                        *)
ListEnd(list)  == IF list = "elements" THEN "T_SQUARE_BRACE_CLOSE" ELSE "T_PAREN_CLOSE"
ListItem(list) == IF list = "elements" THEN Call("expr") ELSE Expect("T_IDENTIFIER")
ListNext(list) == IF list = "elements" THEN "next_element" ELSE "next_param"

List(list) ==
  /\ \/ /\ Doing(list)
        /\ IF parser_is_eof \/ At(ListEnd(list)) THEN Return
           ELSE Go(<<ListItem(list), Call(ListNext(list))>>)
     \/ /\ Doing(ListNext(list))
        /\ IF At(ListEnd(list)) THEN Return ELSE Go(<<Expect("T_COMMA"), Call(list)>>)
  /\ Same /\ UNCHANGED nodes

parser_parse_array_lit ==
  /\ Doing("array_lit")
  /\ \/ /\ ~At("T_ARRAY")
        /\ Go(<<Call("comparison")>>)
        /\ UNCHANGED nodes
     \/ /\ At("T_ARRAY")
        /\ Open
        /\ Go(<<Expect("T_ARRAY"), Expect("T_SQUARE_BRACE_OPEN"), Call("elements"),
                Expect("T_SQUARE_BRACE_CLOSE"), Build("NODE_ARRAY_LIT")>>)
  /\ Same

parser_parse_fn_decl ==
  /\ Doing("fn_decl")
  /\ Open
  /\ Go(<<Expect("T_FUNCTION"), Expect("T_IDENTIFIER"), Expect("T_PAREN_OPEN"), Call("params"),
          Expect("T_PAREN_CLOSE"), Expect("T_BLOCK_BRACE_OPEN"), Call("stmts"),
          Expect("T_BLOCK_BRACE_CLOSE"), Build("NODE_FN_DECL")>>)
  /\ Same

(* The keyword goes into the tree: it says whether the name is constant.   *)
parser_parse_var_decl ==
  /\ Doing("var_decl")
  /\ ret_forward
  /\ nodes' = Append(nodes, <<Leaf(parser_at.type)>>)
  /\ Go(<<Expect("T_IDENTIFIER"), Call("var_value"), Build("NODE_VAR_DECL")>>)

VarValue ==
  /\ Doing("var_value")
  /\ \/ /\ ~At("T_SEMICOLON")
        /\ Go(<<Expect("T_ASSIGNMENT"), Call("expr")>>)
        /\ Same /\ UNCHANGED nodes
     \/ At("T_SEMICOLON") /\ Inner[1].type # "T_CONST" /\ Return /\ Same /\ UNCHANGED nodes
     \/ At("T_SEMICOLON") /\ Inner[1].type = "T_CONST" /\ Error

-----------------------------------------------------------------------------
(* parser_parse_expr is parser_parse_assignment_expr.                      *)
parser_parse_assignment_expr ==
  /\ Doing("expr")
  /\ LET isAssignment == /\ ~parser_is_eof
                         /\ index + 1 < Len(tokens)
                         /\ tokens[index + 2].type = "T_ASSIGNMENT"
     IN  \/ /\ isAssignment
            /\ Open
            /\ Go(<<Expect("T_IDENTIFIER"), Expect("T_ASSIGNMENT"), Call("expr"),
                    Build("NODE_ASSIGNMENT")>>)
         \/ ~isAssignment /\ Go(<<Call("array_lit")>>) /\ UNCHANGED nodes
  /\ Same

(* The three levels of binary operators.  The rest of a level is its loop. *)
Level == {"comparison", "additive", "multiplicative"}
Operators(level) ==
  CASE level = "comparison"     -> {">", "<", ">=", "<=", "==", "===", "!=", "!=="}
    [] level = "additive"       -> {"+", "-"}
    [] level = "multiplicative" -> {"*", "/", "%"}
Operand(level) ==
  CASE level = "comparison"     -> "additive"
    [] level = "additive"       -> "multiplicative"
    [] level = "multiplicative" -> "call_expr"
Rest(level) ==
  CASE level = "comparison"     -> "comparison_rest"
    [] level = "additive"       -> "additive_rest"
    [] level = "multiplicative" -> "multiplicative_rest"

parser_parse_binexp(level) ==
  /\ Doing(level)
  /\ Open
  /\ Go(<<Call(Operand(level)), Call(Rest(level))>>)
  /\ Same

RightOperand(level) == Operand(level)

(* The operator and its right operand are read, or the node is what has    *)
(* been read so far.                                                       *)
BinexpRest(level) ==
  /\ Doing(Rest(level))
  /\ LET goesOn == /\ ~parser_is_eof
                   /\ At("T_BINARY_OPERATOR")
                   /\ parser_at.value \in Operators(level)
     IN  \/ /\ goesOn
            /\ Go(<<Expect("T_BINARY_OPERATOR"), Call(RightOperand(level)), Call("binexp_inner"),
                    Call(Rest(level))>>)
            /\ UNCHANGED nodes
         \/ /\ ~goesOn
            /\ nodes' = Append(SubSeq(nodes, 1, Len(nodes) - 2), nodes[Len(nodes) - 1] \o Inner)
            /\ Return
  /\ Same

(* Mutant: the operands are swapped.                                       *)
InnerSwapped ==
  /\ Doing("binexp_inner")
  /\ SetInner(<<Node("NODE_BINARY_EXPR", <<Inner[3], Inner[2], Inner[1]>>)>>)
  /\ Return
  /\ Same

parser_parse_binexp_inner ==
  /\ Doing("binexp_inner")
  /\ SetInner(<<Node("NODE_BINARY_EXPR", Inner)>>)
  /\ Return
  /\ Same

parser_parse_call_expr ==
  /\ Doing("call_expr")
  /\ LET isCall == /\ Len(tokens) > index + 2
                   /\ At("T_IDENTIFIER")
                   /\ tokens[index + 2].type = "T_PAREN_OPEN"
     IN  \/ /\ isCall
            /\ Open
            /\ Go(<<Expect("T_IDENTIFIER"), Expect("T_PAREN_OPEN"), Call("args"),
                    Expect("T_PAREN_CLOSE"), Build("NODE_EXPR_CALL")>>)
         \/ ~isCall /\ Go(<<Call("primary")>>) /\ UNCHANGED nodes
  /\ Same

(* A comma may follow an argument, and need not.                           *)
Arguments ==
  /\ \/ /\ Doing("args")
        /\ Same
        /\ IF parser_is_eof \/ At("T_PAREN_CLOSE") THEN Return
           ELSE Go(<<Call("expr"), Call("comma"), Call("args")>>)
     \/ /\ Doing("comma")
        /\ IF At("T_COMMA") THEN ret_forward ELSE Same
        /\ Return
  /\ UNCHANGED nodes

NodeOfToken ==
  [t \in {"T_IDENTIFIER", "T_INT_LIT", "T_STRING"} |->
     CASE t = "T_IDENTIFIER" -> "NODE_IDENTIFIER"
       [] t = "T_INT_LIT"    -> "NODE_INT_LIT"
       [] t = "T_STRING"     -> "NODE_STRING"]

(* Mutant: the error is reported and the function returns.                 *)
PrimaryGoesOn ==
  /\ Doing("primary")
  /\ \/ /\ parser_at.type \in DOMAIN NodeOfToken
        /\ ret_forward
        /\ Keep(Leaf(NodeOfToken[parser_at.type]))
        /\ Return
     \/ /\ parser_at.type \notin DOMAIN NodeOfToken
        /\ Return /\ Same /\ UNCHANGED nodes

parser_parse_primary_expr ==
  /\ Doing("primary")
  /\ \/ /\ parser_at.type \in DOMAIN NodeOfToken
        /\ ret_forward
        /\ Keep(Leaf(NodeOfToken[parser_at.type]))
        /\ Return
     \/ /\ At("T_PAREN_OPEN")
        /\ ret_forward
        /\ Go(<<Call("expr"), Expect("T_PAREN_CLOSE")>>)
        /\ UNCHANGED nodes
     \/ /\ parser_at.type \notin DOMAIN NodeOfToken \cup {"T_PAREN_OPEN"}
        /\ Error

-----------------------------------------------------------------------------
Finish ==
  /\ status = "running"
  /\ todo = <<>>
  /\ status' = "done"
  /\ UNCHANGED <<tokens, index, todo, nodes>>

Step ==
  \/ parser_expect \/ BuildNode
  \/ parser_create_ast_node \/ Statements \/ parser_parse_stmt \/ Semicolons
  \/ parser_parse_block
  \/ parser_parse_if \/ Else
  \/ parser_parse_loop_stmt \/ LoopCount \/ LoopAs \/ LoopName
  \/ \E list \in {"elements", "params"} : List(list)
  \/ parser_parse_array_lit
  \/ parser_parse_fn_decl
  \/ parser_parse_var_decl \/ VarValue
  \/ parser_parse_assignment_expr
  \/ \E level \in Level : parser_parse_binexp(level) \/ BinexpRest(level)
  \/ parser_parse_binexp_inner
  \/ parser_parse_call_expr \/ Arguments
  \/ parser_parse_primary_expr
  \/ Finish

Terminated == status # "running" /\ UNCHANGED vars

Next == Step \/ Terminated

Spec == Init /\ [][Next]_vars

(* The process is sequential and nothing in it waits.                      *)
FairSpec == Spec /\ WF_vars(Step)

-----------------------------------------------------------------------------
(* No function reads past the last token, which parser_at asserts: T_EOF   *)
(* is never consumed.                                                      *)
InRange == index \in Nat /\ index < Len(tokens)

(* The parser ends, with a tree or with an error.                          *)
Ends == <>(status # "running")
=============================================================================
