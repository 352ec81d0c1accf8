----------------------------- MODULE MCBlazeVM ------------------------------
(***************************************************************************)
(* BlazeVM on files made of whole instructions, unknown bytes and first    *)
(* lines, some of them cut short.  Words have one byte or two.             *)
(***************************************************************************)
EXTENDS BlazeVM

CONSTANTS
  MaxPieces,   (* bounds the pieces of a file                              *)
  Immediates   (* the low bytes that programs load into r1                 *)

MCModulus == 256 ^ QwordSize
LittleEndian(s) == IF QwordSize = 1 THEN s[1] ELSE s[1] + 256 * s[2]

(* The immediate operand with the low byte k and the high byte h.          *)
Imm(k, h) == IF QwordSize = 1 THEN <<k>> ELSE <<k, h>>

(* Some instructions write to %ip and to %is; a word loaded into r0        *)
(* selects a system call, one loaded into r1 is its argument.              *)
Piece ==
  { <<OP_NO_OP>>, <<OP_HLT>>, <<OP_SYSCALL>>, <<OP_STACK_DMP>>,
    <<OP_MOV_IR, R0>> \o Imm(SYS_PRINT, 0), <<OP_MOV_IR, R0>> \o Imm(1, 1), <<OP_MOV_IR, IP>> \o Imm(1, 1),
    <<OP_MOV_IR, REG_COUNT>> \o Imm(1, 0), <<OP_ADD_RR, IS, R1>>, <<OP_ADD_RR, R0, R1>>, <<OP_ADD_RR, R1, REG_COUNT>>,
    <<OP_PUSH_R_B, R1>>, <<OP_POP_R_B, IS>>, <<OP_POP_R_B, R1>>, <<OPCODE_COUNT>> }
  \cup {<<OP_MOV_IR, R1>> \o Imm(k, h) : k \in Immediates, h \in {0, 1}}

Body[n \in 0..MaxPieces] ==
  IF n = 0 THEN {<<>>} ELSE Body[n - 1] \cup {b \o p : b \in Body[n - 1], p \in Piece}

Shebang == {<<35, 33>>, <<35, 33, 10>>, <<35, 33, 1, 13>>, <<35, 33, 1>>}

MCFile ==
  LET whole == Body[MaxPieces]
  IN  whole \cup {SubSeq(b, 1, Len(b) - 1) : b \in whole \ {<<>>}}
            \cup {s \o p : s \in Shebang, p \in Piece \cup {<<>>}}
=============================================================================
