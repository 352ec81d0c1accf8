--------------------------- MODULE BlazeVMProofs ----------------------------
(***************************************************************************)
(* Proofs about BlazeVM, for every program, every size of a word and every *)
(* limit.                                                                  *)
(***************************************************************************)
EXTENDS BlazeVM, FiniteSetTheorems, TLAPS

(* The program fits into memory.                                           *)
BufferInv == Base + Len(bytes) + QwordSize + 2 < Modulus

(* The listing covers the program up to next, instruction by instruction.  *)
SizeAt(o) == opcode_get_size(ByteAt(o))
ListInv ==
  /\ next <= Len(bytes) + QwordSize + 1
  /\ build # "release" => next <= Len(bytes)
  /\ listing = <<>> => next = 0
  /\ listing # <<>> => listing[1] = 0 /\ next = listing[Len(listing)] + SizeAt(listing[Len(listing)])
  /\ \A k \in 1..(Len(listing) - 1) : listing[k + 1] = listing[k] + SizeAt(listing[k])
  /\ \A k \in 1..Len(listing) : listing[k] < Len(bytes) /\ (build = "release" \/ Listable(listing[k]))

(* While the program runs, the whole of it is listed, i instructions of it *)
(* have been run, none of them a hlt, and the stack holds at most one byte *)
(* for each of them.                                                       *)
RunInv ==
  /\ status = "listing" => i = 0
  /\ status \in {"listing", "running"} => i < StepLimit /\ bytecode_error = "none"
  /\ status = "running" =>
       /\ next >= Len(bytes)
       /\ i <= Len(listing)
       /\ \A k \in 1..i : ByteAt(listing[k]) # OP_HLT
       /\ KeepsIS /\ Offset < Len(bytes) => registers[IS] = Base
  /\ Len(stack) <= i

Inv ==
  /\ TypeOK
  /\ BufferInv
  /\ ListInv
  /\ RunInv
  /\ FollowsListing
  /\ Verified
  /\ HaltsAtFirst
  /\ StackFits

-----------------------------------------------------------------------------
(* The instruction sizes of the tables.                                    *)
LEMMA Sizes ==
  ASSUME NEW op \in Byte
  PROVE  /\ RegisterOperands(op) \in 0..2
         /\ opcode_get_size(op) \in 1..(QwordSize + 2)
         /\ opcode_get_size(op) = 1 + RegisterOperands(op) + ImmediateSize(op)
         /\ op = OP_MOV_IR => RegisterOperands(op) = 1 /\ opcode_get_size(op) = 2 + QwordSize
         /\ op = OP_ADD_RR => RegisterOperands(op) = 2 /\ opcode_get_size(op) = 3
         /\ op \in {OP_PUSH_R_B, OP_POP_R_B} => RegisterOperands(op) = 1 /\ opcode_get_size(op) = 2
         /\ op \in {OP_NO_OP, OP_SYSCALL, OP_REGDUMP, OP_STACK_DMP} => opcode_get_size(op) = 1
  BY SizeAssumption DEF Byte, RegisterOperands, ImmediateSize, opcode_get_size, OP_MOV_IR,
     OP_ADD_RR, OP_PUSH_R_B, OP_POP_R_B, OP_NO_OP, OP_SYSCALL, OP_REGDUMP, OP_STACK_DMP

(* A byte inside the program is a byte.                                    *)
LEMMA ByteType ==
  ASSUME TypeOK, NEW o \in Nat, o < Len(bytes)
  PROVE  ByteAt(o) \in Byte
  BY DEF TypeOK, ByteAt

(* A register holds a word.                                                *)
LEMMA RegisterType ==
  ASSUME TypeOK
  PROVE  /\ {R0, R1, IP, IS} \subseteq Register
         /\ Word \subseteq Nat
         /\ \A r \in Register : registers[r] \in Word
         /\ registers[IP] \in Nat
         /\ registers[IS] \in Nat
  <1>1. {R0, R1, IP, IS} \subseteq Register
    BY DEF Register, REG_COUNT, R0, R1, IP, IS
  <1>2. Word \subseteq Nat
    BY BaseAssumption DEF Word
  <1>3. \A r \in Register : registers[r] \in Word
    BY DEF TypeOK
  <1> QED
    BY <1>1, <1>2, <1>3

(* What an iteration finds at the instruction pointer: an instruction of   *)
(* the listing, with its operands inside the program.                      *)
LEMMA Listed ==
  ASSUME Inv, status = "running", Offset < Len(bytes)
  PROVE  /\ i < Len(listing)
         /\ Offset \in Nat
         /\ Offset = listing[i + 1]
         /\ build = "release" \/ Listable(Offset)
         /\ ByteAt(Offset) \in Byte
         /\ Offset + SizeAt(Offset) \in Nat
         /\ Offset + SizeAt(Offset) <= next
  <1>1. /\ i \in Nat /\ Len(listing) \in Nat /\ Len(bytes) \in Nat /\ listing \in Seq(Nat)
        /\ next \in Nat
    BY SizeAssumption DEF Inv, TypeOK
  <1>2. i < Len(listing) /\ Offset = listing[i + 1]
    BY <1>1 DEF Inv, RunInv, FollowsListing
  <1>3. i + 1 \in 1..Len(listing) /\ listing[i + 1] \in Nat
    BY <1>1, <1>2
  <1>4. build = "release" \/ Listable(Offset)
    BY <1>2, <1>3 DEF Inv, ListInv
  <1>5. ByteAt(Offset) \in Byte
    BY <1>2, <1>3, ByteType DEF Inv
  <1>6. SizeAt(Offset) \in Nat
    BY <1>5, Sizes, SizeAssumption DEF SizeAt
  <1>7. Offset + SizeAt(Offset) <= next
    <2>1. CASE i + 1 = Len(listing)
      BY <2>1, <1>1, <1>2, <1>3, <1>6 DEF Inv, ListInv, TypeOK
    <2>2. CASE i + 1 # Len(listing)
      <3>1. i + 1 \in 1..(Len(listing) - 1) /\ (i + 1) + 1 \in 1..Len(listing)
        BY <2>2, <1>1, <1>2
      <3>2. listing[(i + 1) + 1] = Offset + SizeAt(Offset) /\ listing[(i + 1) + 1] < Len(bytes)
        BY <3>1, <1>2 DEF Inv, ListInv
      <3> QED
        BY <3>2, <1>1, <1>2, <1>3, <1>6 DEF Inv, RunInv, TypeOK
    <2> QED
      BY <2>1, <2>2
  <1> QED
    BY <1>2, <1>3, <1>4, <1>5, <1>6, <1>7

(* A step to the next instruction keeps the run on the listing.            *)
LEMMA Advance ==
  ASSUME Inv, Iterates, Offset < Len(bytes), ByteAt(Offset) # OP_HLT,
         registers' \in [Register -> Word], status' = "running", bytecode_error' = "none",
         registers'[IP] = registers[IP] + SizeAt(Offset),
         KeepsIS /\ Offset + SizeAt(Offset) < Len(bytes) => registers'[IS] = Base,
         Len(stack') <= i + 1
  PROVE  RunInv' /\ FollowsListing' /\ Verified' /\ ListInv' /\ BufferInv' /\ HaltsAtFirst'
  <1>1. /\ i \in Nat /\ Len(listing) \in Nat /\ Len(bytes) \in Nat /\ listing \in Seq(Nat)
        /\ Base \in Nat /\ StepLimit \in Nat /\ registers[IP] \in Nat /\ status = "running"
    BY SizeAssumption, BaseAssumption, RegisterType DEF Inv, TypeOK, Iterates
  <1>2. /\ i < Len(listing) /\ Offset \in Nat /\ Offset = listing[i + 1] /\ ByteAt(Offset) \in Byte
        /\ next \in Nat
    BY <1>1, Listed DEF Inv, TypeOK
  <1>3. build' = build /\ bytes' = bytes /\ listing' = listing /\ next' = next /\ i' = i + 1 /\ i + 1 < StepLimit
    BY DEF Iterates
  <1>4. SizeAt(Offset) \in Nat \ {0} /\ Offset' = Offset + SizeAt(Offset)
    <2>1. opcode_get_size(ByteAt(Offset)) \in 1..(QwordSize + 2)
      BY <1>2, Sizes
    <2>2. SizeAt(Offset) \in 1..(QwordSize + 2)
      BY <2>1 DEF SizeAt
    <2> DEFINE n == SizeAt(Offset)
    <2> HIDE DEF n
    <2>3. n \in Nat \ {0}
      BY <2>2, SizeAssumption DEF n
    <2>4. Offset' = Offset + n
      BY <1>1, <2>3 DEF Offset, n
    <2> QED
      BY <2>3, <2>4 DEF n
  <1>5. ListInv' /\ BufferInv'
    BY <1>3 DEF Inv, ListInv, BufferInv, SizeAt, ByteAt, Listable
  <1>6. RunInv'
    <2>1. \A k \in 1..(i + 1) : ByteAt(listing[k]) # OP_HLT
      BY <1>1, <1>2 DEF Inv, RunInv
    <2>2. KeepsIS' <=> KeepsIS
      BY <1>3 DEF KeepsIS, ByteAt
    <2>3. (\A k \in 1..i : ByteAt(listing[k]) # OP_HLT)'
      BY <2>1, <1>3 DEF ByteAt
    <2>4. next' >= Len(bytes') /\ i' <= Len(listing') /\ i' < StepLimit /\ Len(stack') <= i'
      BY <1>1, <1>2, <1>3 DEF Inv, RunInv
    <2>5. KeepsIS' /\ Offset' < Len(bytes') => registers'[IS] = Base
      BY <2>2, <1>3, <1>4
    <2> QED
      BY <2>3, <2>4, <2>5 DEF RunInv
  <1>7. FollowsListing'
    <2>1. CASE i + 1 < Len(listing)
      <3>1. i + 1 \in 1..(Len(listing) - 1)
        BY <2>1, <1>1
      <3>2. listing[(i + 1) + 1] = listing[i + 1] + SizeAt(listing[i + 1])
        BY <3>1 DEF Inv, ListInv
      <3> QED
        BY <3>2, <2>1, <1>1, <1>2, <1>3, <1>4 DEF FollowsListing
    <2>2. CASE ~(i + 1 < Len(listing))
      <3>1. i + 1 = Len(listing) /\ listing # <<>>
        BY <2>2, <1>1, <1>2
      <3>2. next = listing[Len(listing)] + SizeAt(listing[Len(listing)])
        BY <3>1, <1>1 DEF Inv, ListInv
      <3> QED
        BY <3>1, <3>2, <1>1, <1>2, <1>3, <1>4 DEF FollowsListing
    <2> QED
      BY <2>1, <2>2
  <1>8. Verified'
    <2>1. SUFFICES ASSUME Offset' < Len(bytes), build # "release"
                   PROVE  Offset' + SizeAt(Offset') <= Len(bytes)
      BY <1>3 DEF Verified, SizeAt, ByteAt
    <2>2. i + 1 < Len(listing) /\ Offset' = listing[(i + 1) + 1]
      BY <2>1, <1>1, <1>2, <1>3, <1>7 DEF FollowsListing, Inv, RunInv
    <2>3. (i + 1) + 1 \in 1..Len(listing)
      BY <2>2, <1>1
    <2>4. Listable(Offset')
      BY <2>1, <2>2, <2>3 DEF Inv, ListInv
    <2> QED
      BY <2>4 DEF Listable, SizeAt
  <1>9. HaltsAtFirst'
    BY DEF HaltsAtFirst
  <1> QED
    BY <1>5, <1>6, <1>7, <1>8, <1>9

(* A step that ends the run keeps the invariant, if it tells the truth     *)
(* about how the run ended.                                                *)
LEMMA Ending ==
  ASSUME Inv, status = "running", i' = i + 1, UNCHANGED <<build, bytes, listing, next, registers, stack,
         stack_size, bytecode_exit_code>>,
         status' \in End, bytecode_error' \in Error, HaltsAtFirst',
         bytecode_error' \in {"opcode", "register"} => build = "release"
  PROVE  Inv'
  <1>1. i \in Nat /\ i < StepLimit /\ StepLimit \in Nat /\ Len(stack) \in Nat
    BY SizeAssumption DEF Inv, TypeOK, RunInv
  <1>2. TypeOK'
    BY <1>1 DEF Inv, TypeOK
  <1>3. ListInv' /\ BufferInv'
    BY DEF Inv, ListInv, BufferInv, SizeAt, ByteAt, Listable
  <1>4. status' \notin {"listing", "running"}
    BY DEF End
  <1>5. RunInv' /\ FollowsListing' /\ Verified'
    BY <1>1, <1>4 DEF Inv, RunInv, FollowsListing, Verified
  <1>6. StackFits'
    BY DEF Inv, StackFits
  <1> QED
    BY <1>2, <1>3, <1>5, <1>6 DEF Inv

(* A step that goes on keeps the invariant, if the registers and the stack *)
(* keep their types, %is changes only where it is named, and the handler   *)
(* skips as many bytes as the listing did.                                 *)
LEMMA GoingOn ==
  ASSUME Inv, Iterates, Offset < Len(bytes), ByteAt(Offset) # OP_HLT,
         NEW regs \in [Register -> Word], Resume(regs, SizeAt(Offset)),
         KeepsIS /\ Offset + SizeAt(Offset) < Len(bytes) => regs[IS] = registers[IS],
         stack' \in Seq(Byte), Len(stack') <= i + 1, stack_size' = stack_size,
         bytecode_exit_code' \in Byte
  PROVE  Inv'
  <1>1. /\ i \in Nat /\ StepLimit \in Nat /\ Len(bytes) \in Nat /\ Len(stack') \in Nat
        /\ Base \in Nat /\ Modulus \in Nat /\ StackSize \in Nat /\ QwordSize \in Nat
        /\ StepLimit <= StackSize + 1 /\ status = "running" /\ bytecode_error = "none"
    BY SizeAssumption, BaseAssumption DEF Inv, TypeOK, Iterates, RunInv
  <1>2. Offset \in Nat /\ ByteAt(Offset) \in Byte
    BY <1>1, Listed
  <1>3. SizeAt(Offset) \in Nat /\ SizeAt(Offset) <= QwordSize + 2
    BY <1>1, <1>2, Sizes DEF SizeAt
  <1>4. registers[IP] + SizeAt(Offset) \in Word
    <2>1. registers[IP] \in Nat
      BY RegisterType DEF Inv
    <2>2. Offset = registers[IP] - Base /\ Base + Len(bytes) + QwordSize + 2 < Modulus
      BY DEF Offset, Inv, BufferInv
    <2>3. registers[IP] + SizeAt(Offset) < Modulus
      BY <2>1, <2>2, <1>1, <1>2, <1>3
    <2> QED
      BY <2>1, <2>3, <1>1, <1>3 DEF Word
  <1>5. /\ registers' \in [Register -> Word] /\ registers'[IP] = registers[IP] + SizeAt(Offset)
        /\ registers'[IS] = regs[IS]
    BY <1>4, RegisterType DEF Inv, Resume, IP, IS
  <1>6. KeepsIS /\ Offset + SizeAt(Offset) < Len(bytes) => registers'[IS] = Base
    BY <1>1, <1>5 DEF Inv, RunInv
  <1>7. status' = "running" /\ bytecode_error' = "none"
    BY <1>1 DEF Resume
  <1>8. RunInv' /\ FollowsListing' /\ Verified' /\ ListInv' /\ BufferInv' /\ HaltsAtFirst'
    BY <1>5, <1>6, <1>7, Advance
  <1>9. TypeOK'
    BY <1>1, <1>5, <1>7 DEF Inv, TypeOK, Iterates, Error, End
  <1>10. StackFits'
    BY <1>1 DEF Inv, StackFits, Iterates
  <1> QED
    BY <1>8, <1>9, <1>10 DEF Inv

(* The operands of the instruction at the instruction pointer.  With       *)
(* assertions a read gives the name of a register; without, it does so if  *)
(* another instruction follows, and otherwise it may give any byte.        *)
LEMMA Operand ==
  ASSUME Inv, Iterates, Offset < Len(bytes), NEW k \in 1..RegisterOperands(ByteAt(Offset)),
         NEW r \in Read(Offset + k)
  PROVE  /\ is_valid_register_id(r) => r \in Register
         /\ build # "release" => is_valid_register_id(r)
         /\ Offset + SizeAt(Offset) < Len(bytes) => r = ByteAt(Offset + k)
  <1>1. /\ Offset \in Nat /\ Len(bytes) \in Nat /\ ByteAt(Offset) \in Byte
        /\ build = "release" \/ Listable(Offset)
        /\ ImmediateSize(ByteAt(Offset)) \in Nat
    BY Listed, SizeAssumption DEF Inv, TypeOK, Iterates, ImmediateSize
  <1>2. /\ RegisterOperands(ByteAt(Offset)) \in 0..2
        /\ SizeAt(Offset) = 1 + RegisterOperands(ByteAt(Offset)) + ImmediateSize(ByteAt(Offset))
    BY <1>1, Sizes DEF SizeAt
  <1>3. Offset + k \in Nat /\ Offset + k < Offset + SizeAt(Offset)
    BY <1>1, <1>2
  <1>4. Offset + k < Len(bytes) => r = ByteAt(Offset + k) /\ ByteAt(Offset + k) \in Byte
    BY <1>3, ByteType DEF Read, Inv
  <1>5. r \in Byte
    BY <1>4 DEF Read
  <1>6. is_valid_register_id(r) => r \in Register
    <2>1. \A b \in Byte : is_valid_register_id(b) => b \in Register
      BY DEF is_valid_register_id, Register, REG_COUNT, Byte
    <2> QED
      BY <1>5, <2>1
  <1>7. ASSUME build # "release"
        PROVE  is_valid_register_id(r)
    <2>1. Offset + SizeAt(Offset) <= Len(bytes) /\ is_valid_register_id(ByteAt(Offset + k))
      BY <1>1, <1>7 DEF Listable, SizeAt
    <2> QED
      BY <2>1, <1>1, <1>2, <1>3, <1>4
  <1>8. Offset + SizeAt(Offset) < Len(bytes) => r = ByteAt(Offset + k)
    BY <1>1, <1>2, <1>3, <1>4
  <1> QED
    BY <1>6, <1>7, <1>8

-----------------------------------------------------------------------------
(* The program that is loaded is no longer than its file.                  *)
LEMMA Loaded ==
  ASSUME NEW file \in File
  PROVE  LET b == bytecode_init_from_filebuf(file)
         IN  b \in Seq(Byte) /\ Len(b) <= Len(file)
  <1>1. file \in Seq(Byte) /\ Len(file) \in Nat
    BY FileAssumption
  <1>2. CASE ~HasShebang(file)
    BY <1>1, <1>2 DEF bytecode_init_from_filebuf
  <1>3. CASE HasShebang(file)
    <2> DEFINE n == Cardinality(FirstLine(file))
    <2>1. FirstLine(file) \subseteq 1..Len(file)
      BY DEF FirstLine
    <2>2. IsFiniteSet(1..Len(file)) /\ Cardinality(1..Len(file)) = Len(file)
      BY <1>1, FS_Interval
    <2>3. n \in Nat /\ n <= Len(file)
      BY <1>1, <2>1, <2>2, FS_Subset, FS_CardinalityType
    <2>4. bytecode_init_from_filebuf(file) = SubSeq(file, n + 1, Len(file))
      BY <1>3 DEF bytecode_init_from_filebuf
    <2> QED
      BY <1>1, <2>3, <2>4
  <1> QED
    BY <1>2, <1>3

LEMMA InitInv ==
  ASSUME Init
  PROVE  Inv
  <1>1. PICK file \in File : bytes = bytecode_init_from_filebuf(file)
    BY DEF Init
  <1>2. bytes \in Seq(Byte) /\ Len(bytes) <= Len(file) /\ Len(bytes) \in Nat /\ Len(file) \in Nat
    BY <1>1, Loaded, FileAssumption
  <1>3. TypeOK
    BY <1>2, SizeAssumption, BaseAssumption DEF Init, TypeOK, Byte, Word, Error, End
  <1>4. BufferInv
    BY <1>2, SizeAssumption, BaseAssumption DEF BufferInv
  <1>5. ListInv
    BY <1>2, SizeAssumption DEF Init, ListInv
  <1>6. RunInv
    BY SizeAssumption DEF Init, RunInv
  <1>7. FollowsListing /\ Verified /\ HaltsAtFirst
    BY DEF Init, FollowsListing, Verified, HaltsAtFirst
  <1>8. StackFits
    BY SizeAssumption DEF Init, StackFits
  <1> QED
    BY <1>3, <1>4, <1>5, <1>6, <1>7, <1>8 DEF Inv

(* One lemma per action.                                                   *)
LEMMA disassembleInv ==
  ASSUME Inv, disassemble
  PROVE  Inv'
  <1>1. /\ i \in Nat /\ Len(listing) \in Nat /\ Len(bytes) \in Nat /\ listing \in Seq(Nat)
        /\ next \in Nat /\ status = "listing" /\ next < Len(bytes) /\ bytecode_error = "none"
        /\ build' = build /\ bytes' = bytes
    BY SizeAssumption DEF Inv, TypeOK, disassemble, RunInv
  <1>2. CASE (Listable(next) \/ build = "release") /\ listing' = Append(listing, next)
               /\ next' = next + opcode_get_size(ByteAt(next)) /\ status' = status
    <2>1. ByteAt(next) \in Byte
      BY <1>1, ByteType DEF Inv
    <2>2. /\ opcode_get_size(ByteAt(next)) \in Nat \ {0} /\ QwordSize \in Nat
          /\ opcode_get_size(ByteAt(next)) <= QwordSize + 2
      BY <2>1, Sizes, SizeAssumption
    <2>3. TypeOK'
      BY <1>1, <1>2, <2>2 DEF Inv, TypeOK, disassemble
    <2>4. next' <= Len(bytes) + QwordSize + 1 /\ (build # "release" => next' <= Len(bytes))
      BY <1>1, <1>2, <2>2 DEF Listable
    <2>5. /\ Len(listing') = Len(listing) + 1
          /\ listing'[Len(listing) + 1] = next
          /\ \A k \in 1..Len(listing) : listing'[k] = listing[k]
      BY <1>1, <1>2
    <2>7. ListInv'
      <3>1. next' = listing'[Len(listing')] + SizeAt(listing'[Len(listing')]) /\ listing' # <<>>
        BY <1>1, <1>2, <2>5 DEF SizeAt
      <3>2. listing'[1] = 0
        BY <1>1, <2>5 DEF Inv, ListInv
      <3>3. ASSUME NEW k \in 1..(Len(listing') - 1)
            PROVE  listing'[k + 1] = listing'[k] + SizeAt(listing'[k])
        <4>1. CASE k = Len(listing)
          BY <4>1, <1>1, <2>5 DEF Inv, ListInv
        <4>2. CASE k # Len(listing)
          <5>1. k \in 1..(Len(listing) - 1) /\ k + 1 \in 1..Len(listing) /\ k \in 1..Len(listing)
            BY <4>2, <1>1, <2>5
          <5> QED
            BY <5>1, <2>5 DEF Inv, ListInv
        <4> QED
          BY <4>1, <4>2
      <3>4. ASSUME NEW k \in 1..Len(listing')
            PROVE  listing'[k] < Len(bytes) /\ (build = "release" \/ Listable(listing'[k]))
        <4>1. CASE k = Len(listing) + 1
          BY <4>1, <1>1, <1>2, <2>5
        <4>2. CASE k # Len(listing) + 1
          <5>1. k \in 1..Len(listing)
            BY <4>2, <1>1, <2>5
          <5> QED
            BY <5>1, <1>1, <2>5 DEF Inv, ListInv
        <4> QED
          BY <4>1, <4>2
      <3> QED
        BY <1>1, <2>4, <3>1, <3>2, <3>3, <3>4 DEF ListInv, SizeAt, ByteAt, Listable
    <2>8. RunInv' /\ BufferInv' /\ StackFits'
      BY <1>1, <1>2 DEF Inv, RunInv, BufferInv, StackFits, disassemble
    <2>9. FollowsListing' /\ Verified' /\ HaltsAtFirst'
      BY <1>1, <1>2 DEF FollowsListing, Verified, HaltsAtFirst, disassemble
    <2> QED
      BY <2>3, <2>7, <2>8, <2>9 DEF Inv
  <1>3. CASE status' = "aborted" /\ UNCHANGED <<listing, next>>
    <2>1. TypeOK' /\ BufferInv' /\ StackFits'
      BY <1>3 DEF Inv, TypeOK, BufferInv, StackFits, disassemble, End
    <2>2. ListInv'
      BY <1>1, <1>3 DEF Inv, ListInv, SizeAt, ByteAt, Listable
    <2>3. RunInv' /\ FollowsListing' /\ Verified' /\ HaltsAtFirst'
      BY <1>1, <1>3 DEF Inv, RunInv, FollowsListing, Verified, HaltsAtFirst, disassemble
    <2> QED
      BY <2>1, <2>2, <2>3 DEF Inv
  <1> QED
    BY <1>2, <1>3 DEF disassemble

LEMMA bytecode_execInv ==
  ASSUME Inv, bytecode_exec
  PROVE  Inv'
  <1>1. /\ i = 0 /\ Len(listing) \in Nat /\ Len(bytes) \in Nat /\ listing \in Seq(Nat)
        /\ Base \in Nat /\ next >= Len(bytes) /\ bytecode_error = "none" /\ Base \in Word
        /\ next \in Nat
    BY SizeAssumption, BaseAssumption DEF Inv, TypeOK, bytecode_exec, RunInv, ListInv, BufferInv, Word
  <1>2. /\ registers' \in [Register -> Word] /\ registers'[IP] = Base /\ registers'[IS] = Base
    BY <1>1, RegisterType DEF Inv, TypeOK, bytecode_exec, IP, IS
  <1>3. /\ UNCHANGED <<build, bytes, listing, next, stack, stack_size, i, bytecode_error, bytecode_exit_code>>
        /\ status' = "running"
    BY DEF bytecode_exec
  <1>4. TypeOK' /\ BufferInv' /\ StackFits'
    BY <1>2, <1>3 DEF Inv, TypeOK, BufferInv, StackFits
  <1>5. ListInv'
    BY <1>3 DEF Inv, ListInv, SizeAt, ByteAt, Listable
  <1>6. RunInv'
    BY <1>1, <1>2, <1>3 DEF Inv, RunInv, bytecode_exec
  <1>7. FollowsListing'
    <2>1. Offset' = 0
      BY <1>1, <1>2 DEF Offset
    <2>2. IF 0 < Len(listing) THEN listing[1] = 0 ELSE next = 0
      BY <1>1 DEF Inv, ListInv
    <2> QED
      BY <2>1, <2>2, <1>1, <1>3 DEF FollowsListing
  <1>8. Verified'
    <2>1. SUFFICES ASSUME Offset' < Len(bytes), build # "release"
                   PROVE  Offset' + SizeAt(Offset') <= Len(bytes)
      BY <1>1, <1>3 DEF Verified, SizeAt, ByteAt
    <2>2. 1 \in 1..Len(listing) /\ Offset' = listing[1]
      BY <2>1, <1>1, <1>3, <1>7 DEF FollowsListing
    <2>3. Listable(Offset')
      BY <2>1, <2>2 DEF Inv, ListInv
    <2> QED
      BY <2>3 DEF Listable, SizeAt
  <1>9. HaltsAtFirst'
    BY <1>1, <1>3 DEF HaltsAtFirst
  <1> QED
    BY <1>4, <1>5, <1>6, <1>7, <1>8, <1>9 DEF Inv

LEMMA LoopExhaustedInv ==
  ASSUME Inv, LoopExhausted
  PROVE  Inv'
  <1>1. status = "running" /\ status' = "fatal" /\ i' = i + 1 /\ bytecode_error' = "none"
    BY DEF LoopExhausted, Inv, RunInv
  <1>2. HaltsAtFirst'
    BY <1>1 DEF HaltsAtFirst
  <1> QED
    BY <1>1, <1>2, Ending DEF LoopExhausted, End, Error

LEMMA OutOfRangeInv ==
  ASSUME Inv, OutOfRange
  PROVE  Inv'
  <1>1. /\ status = "running" /\ status' = "failed" /\ i' = i + 1 /\ bytecode_error' = "range"
        /\ UNCHANGED <<build, bytes, listing, next, registers, stack, stack_size, bytecode_exit_code>>
    BY DEF OutOfRange, Iterates
  <1>2. i \in Nat /\ Len(listing) \in Nat /\ Len(bytes) \in Nat
    BY SizeAssumption DEF Inv, TypeOK
  <1>3. i = Len(listing)
    <2>1. SUFFICES ASSUME i # Len(listing) PROVE FALSE
      OBVIOUS
    <2>2. i < Len(listing) /\ i + 1 \in 1..Len(listing) /\ listing[i + 1] \in Nat
      BY <2>1, <1>1, <1>2 DEF Inv, RunInv, TypeOK
    <2>3. listing[i + 1] < Len(bytes) /\ Offset = listing[i + 1]
      BY <2>2, <1>1 DEF Inv, ListInv, FollowsListing
    <2> QED
      BY <2>2, <2>3, <1>2 DEF OutOfRange
  <1>4. HaltsAtFirst'
    BY <1>1, <1>3 DEF HaltsAtFirst, Inv, RunInv, ByteAt
  <1> QED
    BY <1>1, <1>4, Ending DEF End, Error

LEMMA hltInv ==
  ASSUME Inv, hlt
  PROVE  Inv'
  <1>1. /\ status = "running" /\ status' = "halted" /\ i' = i + 1 /\ bytecode_error' = "none"
        /\ UNCHANGED <<build, bytes, listing, next, registers, stack, stack_size, bytecode_exit_code>>
        /\ Offset < Len(bytes) /\ ByteAt(Offset) = OP_HLT
    BY DEF hlt, At, Iterates, Inv, RunInv
  <1>2. /\ i \in Nat /\ Len(listing) \in Nat /\ i < Len(listing) /\ Offset = listing[i + 1]
    BY <1>1, Listed, SizeAssumption DEF Inv, TypeOK
  <1>3. \A k \in 1..((i + 1) - 1) : ByteAt(listing[k]) # OP_HLT
    BY <1>1, <1>2 DEF Inv, RunInv
  <1>4. HaltsAtFirst'
    BY <1>1, <1>2, <1>3 DEF HaltsAtFirst, ByteAt
  <1> QED
    BY <1>1, <1>4, Ending DEF End, Error

(* A handler that ends the run.                                            *)
LEMMA StopInv ==
  ASSUME Inv, Iterates, NEW how \in {"fatal", "aborted"}, Stop(how)
  PROVE  Inv'
  <1>1. /\ status = "running" /\ status' = how /\ i' = i + 1 /\ bytecode_error' = "none"
        /\ UNCHANGED <<build, bytes, listing, next, registers, stack, stack_size, bytecode_exit_code>>
    BY DEF Stop, Iterates, Inv, RunInv
  <1>2. HaltsAtFirst'
    BY <1>1 DEF HaltsAtFirst
  <1> QED
    BY <1>1, <1>2, Ending DEF End, Error

LEMMA FailInv ==
  ASSUME Inv, Iterates, NEW error \in {"opcode", "register", "value type", "syscall"}, Fail(error),
         error \in {"opcode", "register"} => build = "release"
  PROVE  Inv'
  <1>1. /\ status = "running" /\ status' = "failed" /\ i' = i + 1 /\ bytecode_error' = error
        /\ UNCHANGED <<build, bytes, listing, next, registers, stack, stack_size, bytecode_exit_code>>
    BY DEF Fail, Iterates
  <1>2. HaltsAtFirst'
    BY <1>1 DEF HaltsAtFirst
  <1> QED
    BY <1>1, <1>2, Ending DEF End, Error

(* Instructions of one byte that leave registers and stack alone.          *)
LEMMA PlainInv ==
  ASSUME Inv, NEW op \in {OP_NO_OP, OP_SYSCALL, OP_REGDUMP, OP_STACK_DMP}, At(op),
         Resume(registers, 1), UNCHANGED <<stack, stack_size>>, bytecode_exit_code' \in Byte
  PROVE  Inv'
  <1>1. Iterates /\ Offset < Len(bytes) /\ ByteAt(Offset) = op
    BY DEF At
  <1>2. ByteAt(Offset) # OP_HLT /\ op \in Byte
    BY <1>1 DEF OP_HLT, OP_NO_OP, OP_SYSCALL, OP_REGDUMP, OP_STACK_DMP, Byte
  <1>3. SizeAt(Offset) = 1
    BY <1>1, <1>2, Sizes DEF SizeAt
  <1>4. registers \in [Register -> Word] /\ stack' \in Seq(Byte)
    BY DEF Inv, TypeOK
  <1>5. Len(stack') <= i + 1
    BY SizeAssumption DEF Inv, TypeOK, RunInv
  <1>6. Resume(registers, SizeAt(Offset))
    BY <1>3
  <1> QED
    BY <1>1, <1>2, <1>4, <1>5, <1>6, GoingOn

LEMMA NoHandlerInv ==
  ASSUME Inv, NEW op \in Byte, NoHandler(op)
  PROVE  Inv'
  <1>1. /\ At(op) /\ Iterates /\ status = "running" /\ Offset < Len(bytes) /\ ByteAt(Offset) = op
    BY DEF NoHandler, At, Iterates
  <1>2. CASE op >= OPCODE_COUNT
    <2>1. Fail("opcode")
      BY <1>2 DEF NoHandler
    <2>2. build = "release"
      BY <1>1, <1>2, Listed DEF Listable, OPCODE_COUNT, Byte
    <2> QED
      BY <1>1, <2>1, <2>2, FailInv
  <1>3. CASE ~(op >= OPCODE_COUNT)
    <2>1. op = OP_NO_OP /\ Resume(registers, 1) /\ UNCHANGED <<stack, stack_size, bytecode_exit_code>>
      BY <1>3 DEF NoHandler
    <2>2. bytecode_exit_code' \in Byte
      BY <2>1 DEF Inv, TypeOK
    <2> QED
      BY <1>1, <2>1, <2>2, PlainInv
  <1> QED
    BY <1>2, <1>3

LEMMA DumpInv ==
  ASSUME Inv, NEW op \in {OP_REGDUMP, OP_STACK_DMP}, Dump(op)
  PROVE  Inv'
  <1>1. bytecode_exit_code' \in Byte
    BY DEF Inv, TypeOK, Dump
  <1> QED
    BY <1>1, PlainInv DEF Dump

LEMMA syscallInv ==
  ASSUME Inv, syscall
  PROVE  Inv'
  <1>1. At(OP_SYSCALL) /\ Iterates
    BY DEF syscall, At
  <1>2. CASE /\ bytecode_exit_code' = registers[R1] % 256
             /\ Resume(registers, 1)
             /\ UNCHANGED <<stack, stack_size>>
    <2>1. registers[R1] \in Nat
      BY RegisterType DEF Inv
    <2>2. bytecode_exit_code' \in Byte
      BY <1>2, <2>1 DEF Byte
    <2> QED
      BY <1>1, <1>2, <2>2, PlainInv
  <1>3. CASE Resume(registers, 1) /\ UNCHANGED <<stack, stack_size, bytecode_exit_code>>
    <2>1. bytecode_exit_code' \in Byte
      BY <1>3 DEF Inv, TypeOK
    <2> QED
      BY <1>1, <1>3, <2>1, PlainInv
  <1>4. CASE Stop("aborted")
    BY <1>1, <1>4, StopInv
  <1>5. CASE Fail("value type") \/ Fail("syscall")
    BY <1>1, <1>5, FailInv
  <1> QED
    BY <1>2, <1>3, <1>4, <1>5 DEF syscall

(* The register that an instruction writes: %is only if the program names  *)
(* it, or if no further instruction will be run.                           *)
LEMMA Target ==
  ASSUME Inv, Iterates, Offset < Len(bytes), NEW r \in Read(Offset + 1),
         ByteAt(Offset) \in {OP_MOV_IR, OP_ADD_RR, OP_PUSH_R_B, OP_POP_R_B}
  PROVE  /\ is_valid_register_id(r) => r \in Register
         /\ build # "release" => is_valid_register_id(r)
         /\ ByteAt(Offset) # OP_HLT
         /\ /\ ByteAt(Offset) # OP_PUSH_R_B
            /\ KeepsIS
            /\ Offset + SizeAt(Offset) < Len(bytes)
            => r # IS
  <1>1. /\ i < Len(listing) /\ Offset = listing[i + 1] /\ ByteAt(Offset) \in Byte
        /\ i \in Nat /\ Len(listing) \in Nat /\ Offset \in Nat /\ Len(bytes) \in Nat
        /\ QwordSize \in Nat
    BY Listed, SizeAssumption DEF Iterates, Inv, TypeOK
  <1>2. 1 \in 1..RegisterOperands(ByteAt(Offset)) /\ SizeAt(Offset) \in Nat /\ 2 <= SizeAt(Offset)
    BY <1>1, Sizes DEF SizeAt
  <1>3. /\ is_valid_register_id(r) => r \in Register
        /\ build # "release" => is_valid_register_id(r)
        /\ Offset + SizeAt(Offset) < Len(bytes) => r = ByteAt(Offset + 1)
    BY <1>2, Operand
  <1>4. ByteAt(Offset) # OP_HLT
    BY DEF OP_MOV_IR, OP_ADD_RR, OP_PUSH_R_B, OP_POP_R_B, OP_HLT
  <1>5. ASSUME ByteAt(Offset) # OP_PUSH_R_B, KeepsIS, Offset + SizeAt(Offset) < Len(bytes)
        PROVE  r # IS
    <2>1. i + 1 \in 1..Len(listing) /\ listing[i + 1] + 1 < Len(bytes)
      BY <1>1, <1>2, <1>5
    <2>2. ByteAt(listing[i + 1]) \in {OP_MOV_IR, OP_ADD_RR, OP_POP_R_B}
      BY <1>1, <1>5
    <2> QED
      BY <1>1, <1>3, <1>5, <2>1, <2>2 DEF KeepsIS
  <1> QED
    BY <1>3, <1>4, <1>5

LEMMA push_r_bInv ==
  ASSUME Inv, push_r_b
  PROVE  Inv'
  <1>1. Iterates /\ Offset < Len(bytes) /\ ByteAt(Offset) = OP_PUSH_R_B
    BY DEF push_r_b, At
  <1>2. PICK reg_id \in Read(Offset + 1) :
          IF ~is_valid_register_id(reg_id) THEN Fail("register")
          ELSE /\ stack_size' = stack_check_realloc
               /\ stack' = Append(stack, LowByte(registers[reg_id]))
               /\ Resume(registers, 2)
               /\ UNCHANGED bytecode_exit_code
    BY DEF push_r_b
  <1>3. /\ is_valid_register_id(reg_id) => reg_id \in Register
        /\ build # "release" => is_valid_register_id(reg_id)
        /\ ByteAt(Offset) # OP_HLT
    BY <1>1, Target
  <1>4. CASE ~is_valid_register_id(reg_id)
    BY <1>1, <1>2, <1>3, <1>4, FailInv
  <1>5. CASE is_valid_register_id(reg_id)
    <2>1. SizeAt(Offset) = 2
      BY <1>1, Sizes DEF SizeAt, OP_PUSH_R_B, Byte
    <2>2. LowByte(registers[reg_id]) \in Byte
      <3>1. registers[reg_id] \in Nat
        BY <1>3, <1>5, RegisterType DEF Inv
      <3> QED
        BY <3>1 DEF LowByte, Byte
    <2>3. stack' \in Seq(Byte) /\ Len(stack') = Len(stack) + 1 /\ Len(stack) \in Nat
      <3>1. stack \in Seq(Byte) /\ stack' = Append(stack, LowByte(registers[reg_id]))
        BY <1>2, <1>5 DEF Inv, TypeOK
      <3> QED
        BY <2>2, <3>1
    <2>4. /\ Len(stack) <= i /\ i + 1 < StepLimit /\ StepLimit <= StackSize + 1
          /\ stack_size = StackSize /\ i \in Nat /\ StepLimit \in Nat /\ StackSize \in Nat
      BY <1>1, SizeAssumption DEF Inv, TypeOK, RunInv, StackFits, Iterates
    <2>5. stack_size' = stack_size /\ Len(stack') <= i + 1
      BY <1>2, <1>5, <2>3, <2>4 DEF stack_check_realloc
    <2>6. registers \in [Register -> Word] /\ bytecode_exit_code' \in Byte
      BY <1>2, <1>5 DEF Inv, TypeOK
    <2> QED
      BY <1>1, <1>2, <1>3, <1>5, <2>1, <2>3, <2>5, <2>6, GoingOn
  <1> QED
    BY <1>4, <1>5

LEMMA pop_r_bInv ==
  ASSUME Inv, pop_r_b
  PROVE  Inv'
  <1> DEFINE regs(r) == [registers EXCEPT ![r] = stack[Len(stack)]]
  <1>1. Iterates /\ Offset < Len(bytes) /\ ByteAt(Offset) = OP_POP_R_B
    BY DEF pop_r_b, At
  <1>2. PICK reg_id \in Read(Offset + 1) :
          IF ~is_valid_register_id(reg_id) THEN Fail("register")
          ELSE \/ stack = <<>> /\ Stop("fatal")
               \/ /\ stack # <<>>
                  /\ stack' = SubSeq(stack, 1, Len(stack) - 1)
                  /\ Resume(regs(reg_id), 2)
                  /\ UNCHANGED <<stack_size, bytecode_exit_code>>
    BY DEF pop_r_b
  <1>3. /\ is_valid_register_id(reg_id) => reg_id \in Register
        /\ build # "release" => is_valid_register_id(reg_id)
        /\ ByteAt(Offset) # OP_HLT
        /\ KeepsIS /\ Offset + SizeAt(Offset) < Len(bytes) => reg_id # IS
    BY <1>1, Target DEF OP_POP_R_B, OP_PUSH_R_B
  <1>4. CASE ~is_valid_register_id(reg_id)
    BY <1>1, <1>2, <1>3, <1>4, FailInv
  <1>5. CASE is_valid_register_id(reg_id) /\ Stop("fatal")
    BY <1>1, <1>5, StopInv
  <1>6. CASE /\ is_valid_register_id(reg_id)
             /\ stack # <<>>
             /\ stack' = SubSeq(stack, 1, Len(stack) - 1)
             /\ Resume(regs(reg_id), 2)
             /\ UNCHANGED <<stack_size, bytecode_exit_code>>
    <2>1. SizeAt(Offset) = 2
      BY <1>1, Sizes DEF SizeAt, OP_POP_R_B, Byte
    <2>2. stack[Len(stack)] \in Byte /\ stack' \in Seq(Byte) /\ Len(stack') <= Len(stack)
      BY <1>6 DEF Inv, TypeOK
    <2>3. Byte \subseteq Word
      BY BaseAssumption DEF Byte, Word
    <2>4. /\ regs(reg_id) \in [Register -> Word]
          /\ KeepsIS /\ Offset + SizeAt(Offset) < Len(bytes) => regs(reg_id)[IS] = registers[IS]
      BY <1>3, <1>6, <2>2, <2>3, RegisterType DEF Inv, TypeOK
    <2>5. Len(stack') <= i + 1 /\ bytecode_exit_code' \in Byte
      BY <1>6, <2>2, SizeAssumption DEF Inv, TypeOK, RunInv
    <2> HIDE DEF regs
    <2> QED
      BY <1>1, <1>3, <1>6, <2>1, <2>2, <2>4, <2>5, GoingOn
  <1> QED
    BY <1>2, <1>4, <1>5, <1>6

LEMMA mov_irInv ==
  ASSUME Inv, mov_ir
  PROVE  Inv'
  <1> DEFINE regs(r, w) == [registers EXCEPT ![r] = w]
  <1>1. Iterates /\ Offset < Len(bytes) /\ ByteAt(Offset) = OP_MOV_IR
    BY DEF mov_ir, At
  <1>2. PICK reg_id \in Read(Offset + 1) :
          IF ~is_valid_register_id(reg_id) THEN Fail("register")
          ELSE \/ ~Inside(Address) /\ Stop("aborted")
               \/ /\ InRange(Address) \/ build = "release"
                  /\ \E w \in ReadQword(Address) : Resume(regs(reg_id, w), 2 + QwordSize)
                  /\ UNCHANGED <<stack, stack_size, bytecode_exit_code>>
    BY DEF mov_ir
  <1>3. /\ is_valid_register_id(reg_id) => reg_id \in Register
        /\ build # "release" => is_valid_register_id(reg_id)
        /\ ByteAt(Offset) # OP_HLT
        /\ KeepsIS /\ Offset + SizeAt(Offset) < Len(bytes) => reg_id # IS
    BY <1>1, Target DEF OP_MOV_IR, OP_PUSH_R_B
  <1>4. CASE ~is_valid_register_id(reg_id)
    BY <1>1, <1>2, <1>3, <1>4, FailInv
  <1>5. CASE is_valid_register_id(reg_id) /\ Stop("aborted")
    BY <1>1, <1>5, StopInv
  <1>6. ASSUME NEW w \in ReadQword(Address), Resume(regs(reg_id, w), 2 + QwordSize),
               UNCHANGED <<stack, stack_size, bytecode_exit_code>>, is_valid_register_id(reg_id)
        PROVE  Inv'
    <2>1. SizeAt(Offset) = 2 + QwordSize
      BY <1>1, Sizes DEF SizeAt, OP_MOV_IR, Byte
    <2>2. w \in Word
      <3>1. CASE Inside(Address)
        <4>1. Address \in Nat
          BY RegisterType, BaseAssumption DEF Inv, Address
        <4>2. \A k \in 1..QwordSize : Address + k - 1 \in Nat /\ Address + k - 1 < Len(bytes)
          BY <3>1, <4>1, SizeAssumption DEF Inside, Inv, TypeOK
        <4>3. \A k \in 1..QwordSize : ByteAt(Address + k - 1) \in Byte
          BY <4>2, ByteType DEF Inv
        <4>4. [k \in 1..QwordSize |-> ByteAt(Address + k - 1)] \in [1..QwordSize -> Byte]
          BY <4>3
        <4> QED
          BY <3>1, <4>4, <1>6, MemcpyAssumption DEF ReadQword
      <3>2. CASE ~Inside(Address)
        BY <3>2, <1>6 DEF ReadQword
      <3> QED
        BY <3>1, <3>2
    <2>3. /\ regs(reg_id, w) \in [Register -> Word]
          /\ KeepsIS /\ Offset + SizeAt(Offset) < Len(bytes) => regs(reg_id, w)[IS] = registers[IS]
      BY <1>3, <1>6, <2>2, RegisterType DEF Inv, TypeOK
    <2>4. /\ stack' \in Seq(Byte) /\ Len(stack') <= i + 1 /\ bytecode_exit_code' \in Byte
      BY <1>6, SizeAssumption DEF Inv, TypeOK, RunInv
    <2> HIDE DEF regs
    <2> QED
      BY <1>1, <1>3, <1>6, <2>1, <2>3, <2>4, GoingOn
  <1> QED
    BY <1>2, <1>4, <1>5, <1>6

LEMMA add_rrInv ==
  ASSUME Inv, add_rr
  PROVE  Inv'
  <1> DEFINE regs(r, q) == [registers EXCEPT ![r] = Sum(@, registers[q])]
  <1>1. Iterates /\ Offset < Len(bytes) /\ ByteAt(Offset) = OP_ADD_RR
    BY DEF add_rr, At
  <1>2. PICK reg1_id \in Read(Offset + 1), reg2_id \in Read(Offset + 2) :
          IF ~is_valid_register_id(reg1_id) \/ ~is_valid_register_id(reg2_id) THEN Fail("register")
          ELSE /\ Resume(regs(reg1_id, reg2_id), 3)
               /\ UNCHANGED <<stack, stack_size, bytecode_exit_code>>
    BY DEF add_rr
  <1>3. /\ is_valid_register_id(reg1_id) => reg1_id \in Register
        /\ build # "release" => is_valid_register_id(reg1_id)
        /\ ByteAt(Offset) # OP_HLT
        /\ KeepsIS /\ Offset + SizeAt(Offset) < Len(bytes) => reg1_id # IS
    BY <1>1, Target DEF OP_ADD_RR, OP_PUSH_R_B
  <1>4. 2 \in 1..RegisterOperands(ByteAt(Offset)) /\ SizeAt(Offset) = 3
    BY <1>1, Sizes DEF SizeAt, OP_ADD_RR, Byte
  <1>5. /\ is_valid_register_id(reg2_id) => reg2_id \in Register
        /\ build # "release" => is_valid_register_id(reg2_id)
    BY <1>1, <1>4, Operand
  <1>6. CASE ~is_valid_register_id(reg1_id) \/ ~is_valid_register_id(reg2_id)
    BY <1>1, <1>2, <1>3, <1>5, <1>6, FailInv
  <1>7. CASE is_valid_register_id(reg1_id) /\ is_valid_register_id(reg2_id)
    <2>1. Resume(regs(reg1_id, reg2_id), 3) /\ UNCHANGED <<stack, stack_size, bytecode_exit_code>>
      BY <1>2, <1>7
    <2>2. Sum(registers[reg1_id], registers[reg2_id]) \in Word
      <3>1. registers[reg1_id] \in Nat /\ registers[reg2_id] \in Nat /\ Modulus \in Nat \ {0}
        BY <1>3, <1>5, <1>7, RegisterType, BaseAssumption DEF Inv
      <3> QED
        BY <3>1 DEF Sum, Word
    <2>3. /\ regs(reg1_id, reg2_id) \in [Register -> Word]
          /\ KeepsIS /\ Offset + SizeAt(Offset) < Len(bytes) =>
               regs(reg1_id, reg2_id)[IS] = registers[IS]
      BY <1>3, <1>7, <2>2, RegisterType DEF Inv, TypeOK
    <2>4. stack' \in Seq(Byte) /\ Len(stack') <= i + 1 /\ bytecode_exit_code' \in Byte
      BY <2>1, SizeAssumption DEF Inv, TypeOK, RunInv
    <2> HIDE DEF regs
    <2> QED
      BY <1>1, <1>3, <1>4, <2>1, <2>3, <2>4, GoingOn
  <1> QED
    BY <1>6, <1>7

-----------------------------------------------------------------------------
LEMMA NextInv ==
  ASSUME Inv, [Next]_vars
  PROVE  Inv'
  <1>1. CASE UNCHANGED vars
    BY <1>1 DEF vars, Inv, TypeOK, BufferInv, ListInv, RunInv, FollowsListing, Verified,
       HaltsAtFirst, StackFits, KeepsIS, SizeAt, ByteAt, Listable, Offset
  <1>2. CASE Step
    BY <1>2, disassembleInv, bytecode_execInv, LoopExhaustedInv, OutOfRangeInv, NoHandlerInv,
       hltInv, push_r_bInv, pop_r_bInv, mov_irInv, add_rrInv, DumpInv, syscallInv DEF Step
  <1> QED
    BY <1>1, <1>2 DEF Next, Terminated

(* Every part of the invariant holds throughout.                           *)
THEOREM Invariance == Spec => []Inv
  <1>1. Init => Inv
    BY InitInv
  <1>2. Inv /\ [Next]_vars => Inv'
    BY NextInv
  <1> QED
    BY <1>1, <1>2, PTL DEF Spec

(* Every variable of the machine keeps its type: words stay in range, the  *)
(* iterations within their limit.                                          *)
THEOREM TypeCorrect == Spec => []TypeOK
  <1>1. Inv => TypeOK
    BY DEF Inv
  <1> QED
    BY <1>1, Invariance, PTL

(* Whatever the program, bytecode_exec runs the instructions that          *)
(* disassemble listed, in their order.                                     *)
THEOREM RunsTheListing == Spec => []FollowsListing
  <1>1. Inv => FollowsListing
    BY DEF Inv
  <1> QED
    BY <1>1, Invariance, PTL

(* In the builds with assertions the listing verifies the program: none of *)
(* the errors about opcodes and registers can happen any more, and every   *)
(* handler finds its operands inside the program.                          *)
THEOREM ListingVerifies == Spec => []Verified
  <1>1. Inv => Verified
    BY DEF Inv
  <1> QED
    BY <1>1, Invariance, PTL

(* opcode_handler_hlt ends the program at the first hlt of its listing,    *)
(* and only a program without one runs off its end.                        *)
THEOREM HaltsThere == Spec => []HaltsAtFirst
  <1>1. Inv => HaltsAtFirst
    BY DEF Inv
  <1> QED
    BY <1>1, Invariance, PTL

(* The stack stays inside the block it was created with, whatever the      *)
(* program pushes.                                                         *)
THEOREM StackBounded == Spec => []StackFits
  <1>1. Inv => StackFits
    BY DEF Inv
  <1> QED
    BY <1>1, Invariance, PTL

(* mov loads the operand that the listing shows, in every program that     *)
(* keeps its hands off %is.                                                *)
THEOREM Immediates == Spec => []LoadsImmediate
  <1>1. ASSUME Inv PROVE LoadsImmediate
    <2>1. SUFFICES ASSUME status = "running", KeepsIS, Offset + 2 + QwordSize <= Len(bytes),
                          ByteAt(Offset) = OP_MOV_IR
                   PROVE  /\ InRange(Address)
                          /\ ReadQword(Address) =
                               {memcpy([k \in 1..QwordSize |-> ByteAt(Offset + k + 1)])}
      BY DEF LoadsImmediate
    <2>2. /\ Offset \in Int /\ Offset < Len(bytes) /\ Len(bytes) \in Nat /\ QwordSize \in Nat
      BY <1>1, <2>1, RegisterType, SizeAssumption, BaseAssumption DEF Inv, TypeOK, Offset
    <2>3. Offset \in Nat
      BY <1>1, <2>1, <2>2, Listed
    <2>4. registers[IS] = Base /\ registers[IP] \in Nat
      BY <1>1, <2>1, <2>2, RegisterType DEF Inv, RunInv
    <2>5. /\ Base \in Nat /\ Modulus \in Nat /\ QwordSize \in Nat \ {0} /\ Len(bytes) \in Nat
          /\ Base + Len(bytes) + QwordSize + 2 < Modulus
      BY <1>1, BaseAssumption, SizeAssumption DEF Inv, TypeOK, BufferInv
    <2>6. Address = Offset + 2
      <3>1. registers[IP] + 2 - registers[IS] = Offset + 2
        BY <2>4, <2>5 DEF Offset
      <3>2. Offset + 2 \in 0..(Modulus - 1)
        BY <2>1, <2>2, <2>3, <2>5
      <3>3. \A a \in 0..(Modulus - 1) : a % Modulus = a
        BY <2>5
      <3> QED
        BY <3>1, <3>2, <3>3 DEF Address
    <2>7. Inside(Address)
      BY <2>1, <2>2, <2>3, <2>6 DEF Inside
    <2>8. InRange(Address)
      <3>1. Address + QwordSize - 1 \in 0..(Modulus - 1) /\ Address + QwordSize - 1 < Len(bytes)
        BY <2>1, <2>2, <2>3, <2>5, <2>6
      <3>2. (Address + QwordSize - 1) % Modulus = Address + QwordSize - 1
        BY <3>1, <2>5
      <3> QED
        BY <3>1, <3>2 DEF InRange
    <2>9. [k \in 1..QwordSize |-> ByteAt(Address + k - 1)] =
            [k \in 1..QwordSize |-> ByteAt(Offset + k + 1)]
      <3>1. \A k \in 1..QwordSize : Address + k - 1 = Offset + k + 1
        BY <2>2, <2>5, <2>6
      <3> QED
        BY <3>1
    <2> QED
      BY <2>7, <2>8, <2>9 DEF ReadQword
  <1> QED
    BY <1>1, Invariance, PTL
=============================================================================
