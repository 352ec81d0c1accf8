------------------------------ MODULE MCParser ------------------------------
(***************************************************************************)
(* Parser on programs derived from a small grammar, whole and with one     *)
(* token missing, and what their syntax trees should be.                   *)
(***************************************************************************)
EXTENDS Parser, FiniteSets, SequencesExt

Tree == INSTANCE Ast

CONSTANTS
  Ops,       (* the operators of the expressions                           *)
  MaxDepth   (* bounds the nesting of statements                           *)

T(type) == [type |-> type, value |-> type]
Op(o)   == [type |-> "T_BINARY_OPERATOR", value |-> o]

x      == T("T_IDENTIFIER")
open   == T("T_PAREN_OPEN")
close  == T("T_PAREN_CLOSE")
comma  == T("T_COMMA")
semi   == T("T_SEMICOLON")
assign == T("T_ASSIGNMENT")
lbrace == T("T_BLOCK_BRACE_OPEN")
rbrace == T("T_BLOCK_BRACE_CLOSE")

(* Chains of operands and operators, some operands in brackets.            *)
Atoms   == {<<x>>, <<T("T_INT_LIT")>>}
Join(A, B) == {a \o <<Op(o)>> \o b : a \in A, o \in Ops, b \in B}
Bracket(A) == {<<open>> \o a \o <<close>> : a \in A}
Pairs   == Join({<<x>>}, {<<x>>})
Terms   == {<<x>>} \cup Pairs \cup Bracket(Pairs)
Chains  == Join(Terms, Terms) \cup Join(Pairs, Pairs)
Calls   == {<<x, open, close>>, <<x, open, x, comma, x, close>>, <<x, open, x, x, close>>}
             \cup {<<x, open>> \o p \o <<close>> : p \in Pairs}
Arrays  == {<<T("T_ARRAY"), T("T_SQUARE_BRACE_OPEN")>> \o e \o <<T("T_SQUARE_BRACE_CLOSE")>> :
              e \in {<<>>, <<x>>, <<x, comma, x>>, <<x, comma>>}}
Exprs   == Atoms \cup {<<T("T_STRING")>>} \cup Chains \cup Calls \cup Bracket(Calls) \cup Arrays
             \cup Join(Calls, {<<x>>})
             \cup {<<x, assign>> \o e : e \in Atoms \cup Pairs \cup Calls \cup {<<x, assign, x>>}}

Simple  == {<<x, semi>>, <<x, semi, semi>>, <<x, open, close, semi>>}
Decls   == {<<T("T_VAR"), x, semi>>, <<T("T_CONST"), x, semi>>}
             \cup {<<T(k), x, assign>> \o e \o <<semi>> : k \in {"T_VAR", "T_CONST"}, e \in Atoms \cup Pairs}

Heads   == {<<T("T_LOOP")>>, <<T("T_LOOP"), x>>, <<T("T_LOOP"), open, x, close>>,
            <<T("T_LOOP"), open, x, T("T_AS"), x, close>>,
            <<T("T_LOOP"), open, x, T("T_AS"), x, close, x>>,
            <<T("T_IF"), open, x, close>>}
Funs    == {<<T("T_FUNCTION"), x, open>> \o p \o <<close, lbrace>> :
              p \in {<<>>, <<x>>, <<x, comma, x>>}}

(* Blocks, functions and declarations in the body of a function.           *)
Bodies  == {<<lbrace, rbrace>>, <<lbrace, x, semi, rbrace>>, <<lbrace, lbrace, rbrace, rbrace>>}
             \cup {d \o <<lbrace>> \o d \o <<rbrace>> : d \in {<<T("T_CONST"), x, assign, x, semi>>}}
             \cup {f \o <<lbrace, x, semi, rbrace, rbrace>> : f \in Funs}

Nested[n \in 0..MaxDepth] ==
  IF n = 0 THEN Simple
  ELSE LET S == Nested[n - 1]
       IN  S \cup {h \o s : h \in Heads, s \in S}
             \cup {<<T("T_IF"), open, x, close>> \o s \o <<T("T_ELSE")>> \o r : s \in S, r \in Simple}
             \cup {<<lbrace>> \o s \o <<rbrace>> : s \in S}
             \cup {f \o s \o <<rbrace>> : f \in Funs, s \in Simple \cup Bodies}
             \cup {<<lbrace, rbrace>>}

Whole == {e \o <<semi>> : e \in Exprs} \cup Decls \cup Nested[MaxDepth]
           \cup {s \o r : s, r \in Simple \cup Decls}

MCTokens ==
  LET broken == UNION {{RemoveAt(p, i) : i \in 1..Len(p)} : p \in Whole}
  IN  {p \o <<T("T_EOF")>> : p \in Whole \cup broken}

-----------------------------------------------------------------------------
(* The tokens of a tree, in the order of the tree.                         *)
RECURSIVE Leaves(_)
Leaves(n) ==
  IF n.at > 0 THEN <<n.at>>
  ELSE FlattenSeq([i \in DOMAIN n.kids |-> Leaves(n.kids[i])])

RECURSIVE Subtrees(_)
Subtrees(n) == {n} \cup UNION {Subtrees(n.kids[i]) : i \in DOMAIN n.kids}

Root == nodes[1][1]

(* The tokens that mean something by themselves.  The name that as gives   *)
(* to the variable of a loop means nothing when another name follows.      *)
Meaningful(i) ==
  /\ tokens[i].type \in {"T_IDENTIFIER", "T_INT_LIT", "T_STRING", "T_BINARY_OPERATOR",
                         "T_VAR", "T_CONST"}
  /\ ~(/\ i > 1 /\ tokens[i - 1].type = "T_AS"
       /\ i + 2 <= Len(tokens) /\ tokens[i + 2].type = "T_IDENTIFIER")

(* Nothing that the program says is lost, doubled or moved in the tree.    *)
Complete ==
  status = "done" =>
    /\ nodes = <<<<Root>>>>
    /\ Leaves(Root) = SelectSeq([i \in 1..Len(tokens) |-> i], Meaningful)

(* How many brackets are open before a token.                              *)
Opening == {"T_PAREN_OPEN", "T_SQUARE_BRACE_OPEN", "T_BLOCK_BRACE_OPEN"}
Closing == {"T_PAREN_CLOSE", "T_SQUARE_BRACE_CLOSE", "T_BLOCK_BRACE_CLOSE"}
Depth(i) ==
  Cardinality({j \in 1..i - 1 : tokens[j].type \in Opening})
    - Cardinality({j \in 1..i - 1 : tokens[j].type \in Closing})

Strength(i) ==
  CASE tokens[i].value \in {"*", "/", "%"} -> 3
    [] tokens[i].value \in {"+", "-"} -> 2
    [] OTHER -> 1

(* The operators outside brackets in the operand of the operator at k.     *)
Rivals(operand, k) ==
  {i \in ToSet(Leaves(operand)) : tokens[i].type = "T_BINARY_OPERATOR" /\ Depth(i) = Depth(k)}

(* Multiplication binds stronger than addition and addition stronger than  *)
(* comparison, operators of one level group to the left, and brackets      *)
(* override both: what the nesting of the three binexp loops is for.       *)
Loosest ==
  status = "done" =>
    \A b \in {n \in Subtrees(Root) : n.type = "NODE_BINARY_EXPR"} :
      LET k == b.kids[2].at
      IN  /\ \A i \in Rivals(b.kids[1], k) : Strength(i) >= Strength(k)
          /\ \A i \in Rivals(b.kids[3], k) : Strength(i) > Strength(k)
          /\ \A i \in ToSet(Leaves(b)) : Depth(i) >= Depth(k)

(* An else belongs to the nearest if: the statement before it does not end *)
(* with an if that could have taken it.                                    *)
RECURSIVE EndsWithIf(_)
EndsWithIf(n) ==
  \/ n.type = "NODE_IF_STMT" /\ (Len(n.kids) = 2 \/ EndsWithIf(n.kids[3]))
  \/ n.type = "NODE_LOOP_STMT" /\ EndsWithIf(Last(n.kids))
NearestElse ==
  status = "done" =>
    \A n \in Subtrees(Root) :
      n.type = "NODE_IF_STMT" /\ Len(n.kids) = 3 => ~EndsWithIf(n.kids[2])

(* The tree groups operators and statements the way they are meant.        *)
Grouped == Loosest /\ NearestElse

-----------------------------------------------------------------------------
(* The memory of the tree, when process_file frees it.                     *)
Program == Tree!Placed(Root, <<>>)

(* A function that was returned by another, or put into an array, has      *)
(* bodies copied from the tree.  When it is freed, and then the tree, no   *)
(* memory is freed twice, unless there is a block with statements in the   *)
(* body: its statements are in the copy and in the tree.                   *)
CopiesFreed ==
  status = "done" =>
    \A fn \in {n \in Subtrees(Program) : n.type = "NODE_FN_DECL"} :
      LET body == Tree!Body(fn)
          own  == Tree!val_copy_deep(Tree!eval_fn_decl(body))
          shared == \E i \in DOMAIN body : \E n \in Subtrees(body[i]) :
                      n.type = "NODE_BLOCK" /\ n.kids # <<>>
      IN  (\A i \in DOMAIN body : Tree!Copyable(body[i])) =>
            (IsInjective(Tree!val_free_force_no_root(own) \o Tree!parser_ast_free_inner(Program)) <=> ~shared)
=============================================================================
