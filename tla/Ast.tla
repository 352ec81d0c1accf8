-------------------------------- MODULE Ast ---------------------------------
(***************************************************************************)
(* Who owns the memory of a syntax tree: parser_ast_deep_copy and          *)
(* parser_ast_free_inner of src/parser.c, on the trees that Parser makes.  *)
(*                                                                         *)
(* Every node has a cell: what was allocated for it alone.  The cell of a  *)
(* node of the program is its place in the tree; the cell of a copy is the *)
(* cell it was copied from, with 0 in front.  The statements of a block    *)
(* are in an array, which is a cell of its own.                            *)
(***************************************************************************)
EXTENDS Integers, SequencesExt

RECURSIVE Placed(_, _)
Placed(n, place) ==
  [type |-> n.type, at |-> n.at, cell |-> place, array |-> Append(place, 0),
   kids |-> [i \in DOMAIN n.kids |-> Placed(n.kids[i], Append(place, i))]]

(* A keyword and an operator are fields of the node they belong to.        *)
Field == {"T_VAR", "T_CONST", "T_BINARY_OPERATOR"}

(* What parser_ast_deep_copy knows; it ends the process for anything else. *)
Known == {"NODE_ROOT", "NODE_IDENTIFIER", "NODE_STRING", "NODE_INT_LIT", "NODE_BINARY_EXPR",
          "NODE_ASSIGNMENT", "NODE_EXPR_CALL", "NODE_VAR_DECL", "NODE_FN_DECL", "NODE_BLOCK",
          "T_IDENTIFIER"} \cup Field

RECURSIVE Copyable(_)
Copyable(n) ==
  /\ n.type \in Known
  /\ n.type # "NODE_BLOCK" => \A i \in DOMAIN n.kids : Copyable(n.kids[i])

(* Mutant: a block is copied like everything else.                         *)
RECURSIVE parser_ast_deep_copyBlocks(_)
parser_ast_deep_copyBlocks(n) ==
  [n EXCEPT !.type = IF @ = "T_CONST" THEN "T_VAR" ELSE @,
            !.cell = <<0>> \o @, !.array = <<0>> \o @,
            !.kids = [i \in DOMAIN @ |-> parser_ast_deep_copyBlocks(@[i])]]

(* A block shares its statements with the copy.  is_const is not copied.   *)
RECURSIVE parser_ast_deep_copy(_)
parser_ast_deep_copy(n) ==
  IF n.type = "NODE_BLOCK" THEN [n EXCEPT !.cell = <<0>> \o @]
  ELSE [n EXCEPT !.type = IF @ = "T_CONST" THEN "T_VAR" ELSE @,
                 !.cell = <<0>> \o @, !.array = <<0>> \o @,
                 !.kids = [i \in DOMAIN @ |-> parser_ast_deep_copy(@[i])]]

(* The cells that are freed, in this order.                                *)
RECURSIVE parser_ast_free_inner(_)
parser_ast_free_inner(n) ==
  FlattenSeq([i \in DOMAIN n.kids |-> parser_ast_free_inner(n.kids[i])])
    \o (IF n.type = "NODE_BLOCK" /\ n.kids # <<>> THEN <<n.array>> ELSE <<>>)
    \o (IF n.type \in Field THEN <<>> ELSE <<n.cell>>)

-----------------------------------------------------------------------------
(* The body of a function: what follows its name and its parameters.       *)
Body(fn) == SelectSeq(fn.kids, LAMBDA n : n.type # "T_IDENTIFIER")

(* eval_fn_decl copies the statements of the body, and val_copy_deep of    *)
(* the function copies the copies; val_free_force_no_root frees those.     *)
eval_fn_decl(body)      == [i \in DOMAIN body |-> parser_ast_deep_copy(body[i])]
val_copy_deep(body)     == [i \in DOMAIN body |-> parser_ast_deep_copy(body[i])]
val_free_force_no_root(body) == FlattenSeq([i \in DOMAIN body |-> parser_ast_free_inner(body[i])])
=============================================================================
