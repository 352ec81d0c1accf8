------------------------------ MODULE BlazeVM -------------------------------
(***************************************************************************)
(* The virtual machine blazevm: process_file of src/blazevm.c loads a      *)
(* file, lists it (src/disassemble.c) and runs it (src/bytecode.c,         *)
(* src/opcode.c, src/register.c, src/stack.c).                             *)
(*                                                                         *)
(* Addresses are numbers: bytecode->bytes is at Base, and the instruction  *)
(* pointer is an ordinary register that holds an address.  An immediate    *)
(* operand has QwordSize bytes, and a register holds one of Modulus words. *)
(* What is printed is left out, except for the addresses of the listing.   *)
(***************************************************************************)
EXTENDS Integers, Sequences, FiniteSets

CONSTANTS
  File,       (* the contents of the files that may be run                 *)
  Base,       (* the address of bytecode->bytes                            *)
  QwordSize,  (* sizeof (uint64_t), 8 in the code                          *)
  Modulus,    (* 2^64 in the code                                          *)
  memcpy(_),  (* the word that QwordSize bytes make                        *)
  StepLimit,  (* the run is given up in this iteration, 1000 in the code   *)
  StackSize   (* STACK_SIZE, 4096 in the code                              *)

Byte == 0..255
Word == 0..(Modulus - 1)

ASSUME FileAssumption == File \subseteq Seq(Byte)

ASSUME SizeAssumption ==
  /\ QwordSize \in Nat \ {0}
  /\ StepLimit \in Nat \ {0}
  /\ StackSize \in Nat
  /\ StepLimit <= StackSize + 1

(* The buffer, with an instruction's length to spare, is in memory.        *)
ASSUME BaseAssumption ==
  /\ Base \in Nat \ {0}
  /\ Modulus \in Nat
  /\ 256 <= Modulus
  /\ \A file \in File : Base + Len(file) + QwordSize + 2 < Modulus

ASSUME MemcpyAssumption == \A s \in [1..QwordSize -> Byte] : memcpy(s) \in Word

(* The tables of opcode.h, opcode.c and register.h.                        *)
OP_NO_OP     == 0
OP_HLT       == 1
OP_MOV_IR    == 2
OP_ADD_RR    == 3
OP_SYSCALL   == 4
OP_REGDUMP   == 5
OP_PUSH_R_B  == 6
OP_POP_R_B   == 7
OP_STACK_DMP == 8
OPCODE_COUNT == 9

R0 == 0
R1 == 1
IP == 10
IS == 11
REG_COUNT == 12

SYS_EXIT  == 0
SYS_DUMP  == {1, 2}
SYS_PRINT == 3

Register == 0..(REG_COUNT - 1)
is_valid_register_id(id) == id < REG_COUNT

(* Mutant: the tables forget the operands of pushb and popb.               *)
RegisterOperandsForgotten(op) ==
  CASE op = OP_ADD_RR -> 2
    [] op = OP_MOV_IR -> 1
    [] OTHER -> 0

(* How many register operands of one byte, and how many bytes of immediate *)
(* operand, follow an opcode.                                              *)
RegisterOperands(op) ==
  CASE op = OP_ADD_RR -> 2
    [] op \in {OP_MOV_IR, OP_PUSH_R_B, OP_POP_R_B} -> 1
    [] OTHER -> 0
ImmediateSize(op) == IF op = OP_MOV_IR THEN QwordSize ELSE 0
opcode_get_size(op) == 1 + RegisterOperands(op) + ImmediateSize(op)

VARIABLES
  build,           (* "debug", or "release": without assertions            *)
  bytes,           (* the program                                          *)
  listing,         (* the offsets of the instructions listed so far        *)
  next,            (* the offset that the listing has come to              *)
  registers,
  stack,           (* the bytes below stack.index                          *)
  stack_size,
  i,               (* the iterations of the loop in bytecode_exec          *)
  bytecode_error,
  bytecode_exit_code,
  status           (* "listing", "running", and how the process ended      *)

vars == <<build, bytes, listing, next, registers, stack, stack_size, i,
          bytecode_error, bytecode_exit_code, status>>

End == {"halted", "failed", "fatal", "aborted"}

-----------------------------------------------------------------------------
(* A first line that starts with #! is dropped, line break included.       *)
HasShebang(file) == IF Len(file) > 2 THEN file[1] = 35 /\ file[2] = 33 ELSE FALSE
FirstLine(file) == {k \in 1..Len(file) : \A l \in 1..(k - 1) : file[l] \notin {10, 13}}
bytecode_init_from_filebuf(file) ==
  IF HasShebang(file) THEN SubSeq(file, Cardinality(FirstLine(file)) + 1, Len(file)) ELSE file

Init ==
  /\ build \in {"debug", "release"}
  /\ \E file \in File : bytes = bytecode_init_from_filebuf(file)
  /\ listing = <<>>
  /\ next = 0
  /\ registers = [r \in Register |-> 0]
  /\ stack = <<>>
  /\ stack_size = StackSize
  /\ i = 0
  /\ bytecode_error = "none"
  /\ bytecode_exit_code = 0
  /\ status = "listing"

(* The byte at an offset.                                                  *)
ByteAt(o) == bytes[o + 1]

-----------------------------------------------------------------------------
(* Mutant: the listing prints a register without looking its name up.      *)
ListableAnyRegister(o) ==
  /\ ByteAt(o) < OPCODE_COUNT
  /\ o + opcode_get_size(ByteAt(o)) <= Len(bytes)

(* What the assertions of disassemble and of the functions it calls        *)
(* demand: a known opcode, operands inside the program, known registers.   *)
Listable(o) ==
  LET op == ByteAt(o)
  IN  /\ op < OPCODE_COUNT
      /\ o + opcode_get_size(op) <= Len(bytes)
      /\ \A k \in 1..RegisterOperands(op) : is_valid_register_id(ByteAt(o + k))

(* Mutant: an instruction that cannot be listed is tried again.            *)
disassembleAgain ==
  /\ status = "listing"
  /\ next < Len(bytes)
  /\ \/ /\ Listable(next)
        /\ listing' = Append(listing, next)
        /\ next' = next + opcode_get_size(ByteAt(next))
     \/ /\ ~Listable(next)
        /\ UNCHANGED <<listing, next>>
  /\ UNCHANGED <<build, bytes, registers, stack, stack_size, i, bytecode_error, bytecode_exit_code, status>>

(* One instruction of the listing.  Without assertions, what cannot be     *)
(* listed is looked up outside the tables: the process may crash, or the   *)
(* listing goes on.                                                        *)
disassemble ==
  /\ status = "listing"
  /\ next < Len(bytes)
  /\ \/ /\ Listable(next) \/ build = "release"
        /\ listing' = Append(listing, next)
        /\ next' = next + opcode_get_size(ByteAt(next))
        /\ UNCHANGED status
     \/ /\ ~Listable(next)
        /\ status' = "aborted"
        /\ UNCHANGED <<listing, next>>
  /\ UNCHANGED <<build, bytes, registers, stack, stack_size, i, bytecode_error, bytecode_exit_code>>

(* The end of the listing, and bytecode_exec up to its loop.               *)
bytecode_exec ==
  /\ status = "listing"
  /\ next >= Len(bytes)
  /\ registers' = [registers EXCEPT ![IP] = Base, ![IS] = Base]
  /\ status' = "running"
  /\ UNCHANGED <<build, bytes, listing, next, stack, stack_size, i, bytecode_error, bytecode_exit_code>>

-----------------------------------------------------------------------------
(* An iteration of the loop: the iterations are counted, and the loop has  *)
(* not come to its limit.                                                  *)
Iterates ==
  /\ status = "running"
  /\ registers[IP] # 0
  /\ i + 1 < StepLimit
  /\ i' = i + 1
  /\ UNCHANGED <<build, bytes, listing, next>>

Offset == registers[IP] - Base

At(op) ==
  /\ Iterates
  /\ Offset < Len(bytes)
  /\ ByteAt(Offset) = op

LoopExhausted ==
  /\ status = "running"
  /\ i + 1 >= StepLimit
  /\ i' = i + 1
  /\ status' = "fatal"
  /\ UNCHANGED <<build, bytes, listing, next, registers, stack, stack_size, bytecode_error, bytecode_exit_code>>

OutOfRange ==
  /\ Iterates
  /\ Offset >= Len(bytes)
  /\ bytecode_error' = "range"
  /\ status' = "failed"
  /\ UNCHANGED <<registers, stack, stack_size, bytecode_exit_code>>

hlt ==
  /\ At(OP_HLT)
  /\ status' = "halted"
  /\ UNCHANGED <<registers, stack, stack_size, bytecode_error, bytecode_exit_code>>

(* Mutant: what the handler wrote to %ip is honoured.                      *)
ResumeJumps(regs, size) ==
  /\ registers' = [regs EXCEPT ![IP] = @ + size]
  /\ UNCHANGED <<bytecode_error, status>>

(* The handler has returned the address of the next instruction, or NULL,  *)
(* which means the next byte.  Whatever it wrote to %ip is lost.           *)
Resume(regs, size) ==
  /\ registers' = [regs EXCEPT ![IP] = registers[IP] + size]
  /\ UNCHANGED <<bytecode_error, status>>

Fail(error) ==
  /\ bytecode_error' = error
  /\ status' = "failed"
  /\ UNCHANGED <<registers, stack, stack_size, bytecode_exit_code>>

(* fatal_error, and an assertion that fails.                               *)
Stop(how) ==
  /\ status' = how
  /\ UNCHANGED <<registers, stack, stack_size, bytecode_error, bytecode_exit_code>>

(* The values that a read of the byte at an offset may give.               *)
Read(o) == IF o < Len(bytes) THEN {ByteAt(o)} ELSE Byte

(* instruction_exec finds no handler: a no-op, or no opcode at all.        *)
NoHandler(op) ==
  /\ At(op)
  /\ op = OP_NO_OP \/ op >= OPCODE_COUNT
  /\ IF op >= OPCODE_COUNT THEN Fail("opcode")
     ELSE Resume(registers, 1) /\ UNCHANGED <<stack, stack_size, bytecode_exit_code>>

(* Mutant: the stack grows one byte too early.                             *)
stack_check_reallocEarly == IF Len(stack) + 1 >= stack_size THEN stack_size + 50 ELSE stack_size

stack_check_realloc == IF Len(stack) >= stack_size THEN stack_size + 50 ELSE stack_size
LowByte(w) == w % 256

push_r_b ==
  /\ At(OP_PUSH_R_B)
  /\ \E reg_id \in Read(Offset + 1) :
       IF ~is_valid_register_id(reg_id) THEN Fail("register")
       ELSE /\ stack_size' = stack_check_realloc
            /\ stack' = Append(stack, LowByte(registers[reg_id]))
            /\ Resume(registers, 2)
            /\ UNCHANGED bytecode_exit_code

pop_r_b ==
  /\ At(OP_POP_R_B)
  /\ \E reg_id \in Read(Offset + 1) :
       IF ~is_valid_register_id(reg_id) THEN Fail("register")
       ELSE \/ stack = <<>> /\ Stop("fatal")
            \/ /\ stack # <<>>
               /\ stack' = SubSeq(stack, 1, Len(stack) - 1)
               /\ Resume([registers EXCEPT ![reg_id] = stack[Len(stack)]], 2)
               /\ UNCHANGED <<stack_size, bytecode_exit_code>>

(* Mutant: the address is that of the register operand.                    *)
AddressOfRegister == (registers[IP] + 1 - registers[IS]) % Modulus

(* bytecode_get_qword, at an address relative to %is: what its assertion   *)
(* lets through, and what a read may give.  A read outside the program may *)
(* also end the process.                                                   *)
Address == (registers[IP] + 2 - registers[IS]) % Modulus
InRange(addr) == (addr + QwordSize - 1) % Modulus < Len(bytes)
Inside(addr) == addr + QwordSize <= Len(bytes)
ReadQword(addr) ==
  IF Inside(addr) THEN {memcpy([k \in 1..QwordSize |-> ByteAt(addr + k - 1)])} ELSE Word

mov_ir ==
  /\ At(OP_MOV_IR)
  /\ \E reg_id \in Read(Offset + 1) :
       IF ~is_valid_register_id(reg_id) THEN Fail("register")
       ELSE \/ ~Inside(Address) /\ Stop("aborted")
            \/ /\ InRange(Address) \/ build = "release"
               /\ \E w \in ReadQword(Address) :
                    Resume([registers EXCEPT ![reg_id] = w], 2 + QwordSize)
               /\ UNCHANGED <<stack, stack_size, bytecode_exit_code>>

Sum(x, y) == (x + y) % Modulus

add_rr ==
  /\ At(OP_ADD_RR)
  /\ \E reg1_id \in Read(Offset + 1), reg2_id \in Read(Offset + 2) :
       IF ~is_valid_register_id(reg1_id) \/ ~is_valid_register_id(reg2_id) THEN Fail("register")
       ELSE /\ Resume([registers EXCEPT ![reg1_id] = Sum(@, registers[reg2_id])], 3)
            /\ UNCHANGED <<stack, stack_size, bytecode_exit_code>>

(* regdump and stackdmp only print.                                        *)
Dump(op) ==
  /\ At(op)
  /\ Resume(registers, 1)
  /\ UNCHANGED <<stack, stack_size, bytecode_exit_code>>

(* SYS_EXIT sets the exit code of the process, and the run goes on.  Of    *)
(* the values printed, a string (type 2) is read at an address the program *)
(* made up: the process may not survive it.                                *)
syscall ==
  /\ At(OP_SYSCALL)
  /\ \/ /\ registers[R0] = SYS_EXIT
        /\ bytecode_exit_code' = registers[R1] % 256
        /\ Resume(registers, 1)
        /\ UNCHANGED <<stack, stack_size>>
     \/ /\ registers[R0] \in SYS_DUMP \/ (registers[R0] = SYS_PRINT /\ registers[R1] <= 3)
        /\ Resume(registers, 1)
        /\ UNCHANGED <<stack, stack_size, bytecode_exit_code>>
     \/ registers[R0] = SYS_PRINT /\ registers[R1] = 2 /\ Stop("aborted")
     \/ registers[R0] = SYS_PRINT /\ registers[R1] > 3 /\ Fail("value type")
     \/ registers[R0] > SYS_PRINT /\ Fail("syscall")

Terminated == status \in End /\ UNCHANGED vars

Step ==
  \/ disassemble
  \/ bytecode_exec
  \/ LoopExhausted
  \/ OutOfRange
  \/ \E op \in Byte : NoHandler(op)
  \/ hlt
  \/ push_r_b
  \/ pop_r_b
  \/ mov_ir
  \/ add_rr
  \/ \E op \in {OP_REGDUMP, OP_STACK_DMP} : Dump(op)
  \/ syscall

Next == Step \/ Terminated

Spec == Init /\ [][Next]_vars

(* The process is sequential and nothing in it waits.                      *)
FairSpec == Spec /\ WF_vars(Step)

-----------------------------------------------------------------------------
(* Properties.                                                             *)
Error == {"none", "range", "opcode", "register", "value type", "syscall"}

TypeOK ==
  /\ build \in {"debug", "release"}
  /\ bytes \in Seq(Byte)
  /\ listing \in Seq(Nat)
  /\ next \in Nat
  /\ registers \in [Register -> Word]
  /\ stack \in Seq(Byte)
  /\ stack_size \in Nat
  /\ i \in 0..StepLimit
  /\ bytecode_error \in Error
  /\ bytecode_exit_code \in Byte
  /\ status \in {"listing", "running"} \cup End

(* The program runs the instructions that were listed, one after the       *)
(* other: no program can jump, or run the bytes of an operand, although it *)
(* can write to %ip.                                                       *)
FollowsListing ==
  status = "running" => Offset = IF i < Len(listing) THEN listing[i + 1] ELSE next

(* With assertions the listing is a verifier: a program that was listed    *)
(* does not fail for an unknown opcode or register, and no handler reads   *)
(* its operands past the end of the program.                               *)
Verified ==
  build # "release" =>
    /\ bytecode_error \notin {"opcode", "register"}
    /\ status = "running" /\ Offset < Len(bytes) =>
         Offset + opcode_get_size(ByteAt(Offset)) <= Len(bytes)

(* A program halts at the first hlt of its listing, and runs off its end   *)
(* only if there is none.                                                  *)
HaltsAtFirst ==
  LET IsHlt(k) == ByteAt(listing[k]) = OP_HLT
  IN  /\ status = "halted" => i <= Len(listing) /\ IsHlt(i) /\ \A k \in 1..(i - 1) : ~IsHlt(k)
      /\ bytecode_error = "range" => \A k \in 1..Len(listing) : ~IsHlt(k)

(* The limit on the iterations keeps the stack inside the block that       *)
(* execution_init allocated: it never grows.                               *)
StackFits == stack_size = StackSize /\ Len(stack) <= stack_size

(* A program whose instructions do not write to %is loads the immediate    *)
(* operands it was listed with.                                            *)
KeepsIS ==
  \A k \in 1..Len(listing) :
    ByteAt(listing[k]) \in {OP_MOV_IR, OP_ADD_RR, OP_POP_R_B} /\ listing[k] + 1 < Len(bytes) =>
      ByteAt(listing[k] + 1) # IS
LoadsImmediate ==
  status = "running" /\ KeepsIS /\ Offset + 2 + QwordSize <= Len(bytes) =>
    (ByteAt(Offset) = OP_MOV_IR =>
       /\ InRange(Address)
       /\ ReadQword(Address) = {memcpy([k \in 1..QwordSize |-> ByteAt(Offset + k + 1)])})

(* bytecode_get_qword asserts that the address is in range: what its       *)
(* assertion lets through is inside the program.                           *)
AssertedInside ==
  status = "running" /\ Offset < Len(bytes) =>
    (ByteAt(Offset) = OP_MOV_IR /\ InRange(Address) => Inside(Address))

(* Every run ends.                                                         *)
Ends == <>(status \in End)
=============================================================================
