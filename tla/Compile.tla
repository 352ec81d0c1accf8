------------------------------ MODULE Compile -------------------------------
(***************************************************************************)
(* The compiler of src/compile.c, src/compile-x86_64.c and src/asm.c.      *)
(* Code is the sequence of nodes that asm_print prints: pushing a node to  *)
(* an array is appending it, pushing an array is appending its children.   *)
(*                                                                         *)
(* A program is a sequence of statements.  What the compiler supports is a *)
(* call of println with literals; everything else is a statement of kind   *)
(* "other", or an argument of type "other".                                *)
(***************************************************************************)
EXTENDS Integers, SequencesExt

(* The operands of an instruction.                                         *)
Operand(type, val)      == [type |-> type, val |-> val, offset |-> 0]
IMM64(imm)              == Operand("immediate", imm)
REGISTER_X64(reg)       == Operand("register", reg)
REGISTER_OFFSET(n, reg) == [Operand("offset_register", reg) EXCEPT !.offset = n]
IDENTIFIER(id)          == Operand("identifier", id)
IMM_LBL(lbl)            == Operand("label", lbl)

(* An instruction, a label or a directive.                                 *)
Node(inst, ops) == <<[inst |-> inst, ops |-> ops]>>

RDI == REGISTER_X64("rdi")
RAX == REGISTER_X64("rax")
RBP == REGISTER_X64("rbp")
RSP == REGISTER_X64("rsp")

(* The registers of the first six arguments of a call.                     *)
ArgRegister == <<"rdi", "rsi", "rdx", "rcx", "r8", "r9">>

-----------------------------------------------------------------------------
(* A literal becomes a value of the run-time library, in rax; a string has *)
(* the label .DL<lbl>.                                                     *)
x86_64_compile_expr(arg, lbl) ==
  IF arg.type = "int"
  THEN Node("mov", <<IMM64(arg.val), RDI>>)
         \o Node("call", <<IDENTIFIER("libblaze_val_create_intval")>>)
  ELSE Node("mov", <<IMM_LBL(lbl), RDI>>)
         \o Node("call", <<IDENTIFIER("libblaze_val_create_strval")>>)

(* lbl_count goes up with every string.                                    *)
IsString(arg)    == arg.type = "string"
Strings(args)    == FlattenSeq([i \in DOMAIN args |-> IF IsString(args[i]) THEN <<args[i]>> ELSE <<>>])
Before(args, i)  == Len(Strings(SubSeq(args, 1, i - 1)))

(* println is variadic: the number of arguments is the first argument.     *)
x86_64_compile_call_expr_args(args, lbl) ==
  Node("mov", <<IMM64(Len(args)), RDI>>) \o Node("push", <<RDI>>)
    \o FlattenSeq([i \in DOMAIN args |->
         x86_64_compile_expr(args[i], lbl + Before(args, i)) \o Node("push", <<RAX>>)])

(* Mutant: the arguments are read from the other end.                      *)
x86_64_compile_call_expr_args_loadReversed(argc) ==
  FlattenSeq([i \in 1..(IF argc <= 6 THEN argc ELSE 6) |->
    Node("mov", <<REGISTER_OFFSET(IF i = 1 THEN -8 ELSE -8 * (argc + 2 - i), "rbp"),
                  REGISTER_X64(ArgRegister[i])>>)])

(* What was pushed is below the frame pointer.  The seventh argument and   *)
(* the ones after it stay where they are.                                  *)
x86_64_compile_call_expr_args_load(argc) ==
  FlattenSeq([i \in 1..(IF argc <= 6 THEN argc ELSE 6) |->
    Node("mov", <<REGISTER_OFFSET(-8 * i, "rbp"), REGISTER_X64(ArgRegister[i])>>)])

(* Mutant: the count that was pushed first stays on the stack.             *)
x86_64_compile_call_expr_free_valuesNoCount(argc) ==
  FlattenSeq([i \in 1..argc |-> Node("pop", <<RDI>>)
                                  \o Node("call", <<IDENTIFIER("libblaze_val_free")>>)])

x86_64_compile_call_expr_free_values(argc) ==
  FlattenSeq([i \in 1..argc |-> Node("pop", <<RDI>>)
                                  \o Node("call", <<IDENTIFIER("libblaze_val_free")>>)])
    \o Node("add", <<IMM64(8), RSP>>)

(* What has no register stays on the stack, and is taken off twice.        *)
x86_64_compile_call_expr(args, lbl) ==
  x86_64_compile_call_expr_args(args, lbl)
    \o x86_64_compile_call_expr_args_load(Len(args) + 1)
    \o Node("call", <<IDENTIFIER("libblaze_fn_println")>>)
    \o x86_64_compile_call_expr_free_values(Len(args))
    \o (IF Len(args) > 5 THEN Node("add", <<IMM64(8 * (Len(args) - 5)), RSP>>) ELSE <<>>)

x86_64_compile_root_start ==
  Node("globl", <<IDENTIFIER("_start")>>) \o Node("label", <<IDENTIFIER("_start")>>)
    \o Node("call", <<IDENTIFIER("main")>>)
    \o Node("mov", <<IMM64(0), RDI>>) \o Node("call", <<IDENTIFIER("exit")>>)

x86_64_setup_frame   == Node("push", <<RBP>>) \o Node("mov", <<RSP, RBP>>)
x86_64_restore_frame == Node("pop", <<RBP>>)

(* The arguments of all statements, in the order they are compiled.        *)
AllArgs(prog) == FlattenSeq([i \in DOMAIN prog |-> prog[i].args])

x86_64_compile_root(prog) ==
  x86_64_compile_root_start
    \o Node("label", <<IDENTIFIER("main")>>) \o x86_64_setup_frame
    \o FlattenSeq([i \in DOMAIN prog |->
         x86_64_compile_call_expr(prog[i].args, Len(Strings(AllArgs(SubSeq(prog, 1, i - 1)))))])
    \o x86_64_restore_frame \o Node("ret", <<>>)

(* A program is refused by fatal_error, and one with long calls by the     *)
(* assertion of x86_64_compile_call_expr in the build that has it.         *)
Supported(prog, debug) ==
  \A i \in DOMAIN prog :
    /\ prog[i].kind = "call"
    /\ debug => Len(prog[i].args) < 3
    /\ prog[i].fn = "println"
    /\ \A k \in DOMAIN prog[i].args : prog[i].args[k].type \in {"int", "string"}

-----------------------------------------------------------------------------
(* Mutant: quotes in the string are left alone.                            *)
QuotedBare(string) == <<"quote">> \o string \o <<"quote">>

(* The text of a string is a sequence of characters: "quote", "backslash", *)
(* and others.  The compiler puts it in quotes, and a backslash before     *)
(* every quote in it.                                                      *)
Quoted(string) ==
  <<"quote">>
    \o FlattenSeq([i \in DOMAIN string |-> IF string[i] = "quote" THEN <<"backslash", "quote">>
                                           ELSE <<string[i]>>])
    \o <<"quote">>

(* What asm_data_push has collected for asm_print_header: the entries of   *)
(* .data, each with its label.                                             *)
asm_data(prog) ==
  LET strings == Strings(AllArgs(prog))
  IN  [i \in DOMAIN strings |-> [label |-> i - 1, param |-> Quoted(strings[i].val)]]

(* compile, on a program it supports.                                      *)
compilation_context(prog) == [code |-> x86_64_compile_root(prog), data |-> asm_data(prog)]
compilation_context_create == [code |-> <<>>, data |-> <<>>]

-----------------------------------------------------------------------------
(* The strings made for a string literal: the label, which its data entry  *)
(* keeps, the copy of the label in the instruction, the word "string" and  *)
(* the text.  Identifiers are copies too, each freed with its operand.     *)
MadeStrings(c) == {"label", "copy", "directive", "param"} \X (0..Len(c.data) - 1)

(* The labels in the instructions, in their order.                         *)
LoadsLabel(node) == node.inst = "mov" /\ node.ops[1].type = "label"
Labels(code) ==
  FlattenSeq([i \in DOMAIN code |-> IF LoadsLabel(code[i]) THEN <<code[i].ops[1].val>> ELSE <<>>])

(* Mutant: the label in the instruction is the one of the data entry.      *)
asm_node_free_innerShared(c) == [i \in DOMAIN Labels(c.code) |-> <<"label", Labels(c.code)[i]>>]

(* What the two free, in this order.                                       *)
asm_node_free_inner(c) == [i \in DOMAIN Labels(c.code) |-> <<"copy", Labels(c.code)[i]>>]

asm_data_free(c) ==
  FlattenSeq([i \in DOMAIN c.data |-> LET lbl == c.data[i].label
                                      IN  <<<<"label", lbl>>, <<"param", lbl>>, <<"directive", lbl>>>>])

-----------------------------------------------------------------------------
(* How as reads the operand of .string: a backslash and the character      *)
(* after it are one character, and a quote ends it.                        *)
ReadChar(r, c) ==
  CASE r.state = "text" /\ c = "quote"     -> [r EXCEPT !.state = "end"]
    [] r.state = "text" /\ c = "backslash" -> [r EXCEPT !.state = "escape"]
    [] r.state = "text" /\ c \notin {"quote", "backslash"} -> [r EXCEPT !.chars = Append(@, c)]
    [] r.state = "escape" ->
         [state |-> "text",
          chars |-> Append(r.chars, IF c \in {"quote", "backslash"} THEN c ELSE "control")]
    [] r.state \in {"end", "error"} -> [r EXCEPT !.state = "error"]
ReadString(param) == FoldLeft(ReadChar, [state |-> "text", chars |-> <<>>], Tail(param))

(* as takes the text if the labels differ and every string ends.           *)
Assembles(c) ==
  /\ \A i, k \in DOMAIN c.data : c.data[i].label = c.data[k].label => i = k
  /\ \A i \in DOMAIN c.data : ReadString(c.data[i].param).state = "end"
=============================================================================
