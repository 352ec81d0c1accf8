------------------------------- MODULE Native -------------------------------
(***************************************************************************)
(* A compiled program at work: the driver, and then the executable it made *)
(* on an x86-64 processor with the run-time library of lib/value.c and     *)
(* lib/print.c.                                                            *)
(*                                                                         *)
(* Memory is the stack, by address; a word carries the kind of thing it is *)
(* (a number, a label of the data section, a pointer to a value, a return  *)
(* address, an address of the stack), and "junk" is any word of which the  *)
(* program knows nothing.  Using a word as what it is not, or a value that *)
(* has been freed, is undefined: the program has crashed.                  *)
(***************************************************************************)
EXTENDS Blazec, FiniteSets

VARIABLES
  tty,      (* is the standard output a terminal                           *)
  rip,      (* the next instruction, a place in asm.code                   *)
  reg, mem, (* registers and stack                                         *)
  heap,     (* the values made by the library and not freed                *)
  made,     (* how many it has made                                        *)
  written,  (* what has been written to the standard output                *)
  stdio,    (* what printf has put into its buffer                         *)
  run       (* "no", "running", "exited", "crashed"                        *)

cpu  == <<tty, rip, reg, mem, heap, made, written, stdio, run>>
vars == <<driver, cpu>>

Word(kind, n) == [kind |-> kind, n |-> n]
Junk          == Word("junk", 0)

Reg == {"rax", "rbp", "rsp"} \cup ToSet(ArgRegister)

(* Above the first address are the arguments of the process.               *)
NativeInit ==
  /\ Init
  /\ tty \in BOOLEAN
  /\ rip = 0
  /\ reg = [r \in Reg |-> IF r = "rsp" THEN Word("stack", 0) ELSE Junk]
  /\ mem = <<>>
  /\ heap = <<>>
  /\ made = 0
  /\ written = <<>>
  /\ stdio = <<>>
  /\ run = "no"

-----------------------------------------------------------------------------
Label(id) == CHOOSE i \in DOMAIN asm.code :
               asm.code[i].inst = "label" /\ asm.code[i].ops[1].val = id

(* There is an executable, and nothing of it is missing.                   *)
Executable ==
  status = "success" /\ context.mode = "GEN_LINK_EXEC" /\ files[Target] = Content("exe", TRUE)

Start ==
  /\ run = "no"
  /\ Executable
  /\ run' = "running"
  /\ rip' = Label("_start")
  /\ UNCHANGED <<driver, tty, reg, mem, heap, made, written, stdio>>

Inst    == asm.code[rip]
Op(i)   == Inst.ops[i]
Doing(inst) == run = "running" /\ Inst.inst = inst

Load(word) == IF word.kind = "stack" /\ word.n \in DOMAIN mem THEN mem[word.n] ELSE Junk
Below(word, n) == [word EXCEPT !.n = @ + n]

Source(op) ==
  CASE op.type = "immediate" -> Word("number", op.val)
    [] op.type = "label"     -> Word("label", op.val)
    [] op.type = "register"  -> reg[op.val]
    [] op.type = "offset_register" -> Load(Below(reg[op.val], op.offset))

Crash == run' = "crashed" /\ UNCHANGED <<driver, tty, rip, reg, mem, heap, made, written, stdio>>

(* The stack, with one word more.                                          *)
Pushed(word) ==
  LET top == reg["rsp"].n - 8
  IN  [a \in DOMAIN mem \cup {top} |-> IF a = top THEN word ELSE mem[a]]

label ==
  /\ Doing("label")
  /\ rip' = rip + 1
  /\ UNCHANGED <<driver, tty, reg, mem, heap, made, written, stdio, run>>

mov ==
  /\ Doing("mov")
  /\ reg' = [reg EXCEPT ![Op(2).val] = Source(Op(1))]
  /\ rip' = rip + 1
  /\ UNCHANGED <<driver, tty, mem, heap, made, written, stdio, run>>

add ==
  /\ Doing("add")
  /\ reg' = [reg EXCEPT ![Op(2).val] = Below(@, Op(1).val)]
  /\ rip' = rip + 1
  /\ UNCHANGED <<driver, tty, mem, heap, made, written, stdio, run>>

push ==
  /\ Doing("push")
  /\ mem' = Pushed(Source(Op(1)))
  /\ reg' = [reg EXCEPT !["rsp"] = Below(@, -8)]
  /\ rip' = rip + 1
  /\ UNCHANGED <<driver, tty, heap, made, written, stdio, run>>

pop ==
  /\ Doing("pop")
  /\ reg' = [reg EXCEPT ![Op(1).val] = Load(reg["rsp"]), !["rsp"] = Below(@, 8)]
  /\ rip' = rip + 1
  /\ UNCHANGED <<driver, tty, mem, heap, made, written, stdio, run>>

ret ==
  /\ Doing("ret")
  /\ LET word == Load(reg["rsp"])
     IN  \/ /\ word.kind = "return"
            /\ rip' = word.n
            /\ reg' = [reg EXCEPT !["rsp"] = Below(@, 8)]
            /\ UNCHANGED <<driver, tty, mem, heap, made, written, stdio, run>>
         \/ word.kind # "return" /\ Crash

call_main ==
  /\ Doing("call") /\ Op(1).val = "main"
  /\ mem' = Pushed(Word("return", rip + 1))
  /\ reg' = [reg EXCEPT !["rsp"] = Below(@, -8)]
  /\ rip' = Label("main")
  /\ UNCHANGED <<driver, tty, heap, made, written, stdio, run>>

-----------------------------------------------------------------------------
(* The library.  A function leaves rsp and rbp as they were, its result in *)
(* rax and anything in the other registers and below the stack.            *)
Calls(id) == Doing("call") /\ Op(1).val = id

Returns(rax) ==
  /\ reg' = [r \in Reg |-> IF r = "rax" THEN rax ELSE IF r \in {"rsp", "rbp"} THEN reg[r] ELSE Junk]
  /\ mem' = [a \in {b \in DOMAIN mem : b >= reg["rsp"].n} |-> mem[a]]
  /\ rip' = rip + 1

NewValue(value) ==
  /\ heap' = [i \in DOMAIN heap \cup {made + 1} |-> IF i = made + 1 THEN value ELSE heap[i]]
  /\ made' = made + 1
  /\ Returns(Word("value", made + 1))
  /\ UNCHANGED <<driver, tty, written, stdio, run>>

libblaze_val_create_intval ==
  /\ Calls("libblaze_val_create_intval")
  /\ NewValue([type |-> "int", val |-> reg["rdi"].n])

(* strdup of the string at the label, as the assembler has read it.        *)
libblaze_val_create_strval ==
  /\ Calls("libblaze_val_create_strval")
  /\ LET at == CHOOSE i \in DOMAIN asm.data : asm.data[i].label = reg["rdi"].n
     IN  NewValue([type |-> "string", val |-> ReadString(asm.data[at].param).chars])

(* What println prints: strings, blanks and the last newline with write,   *)
(* everything else with printf, which has a buffer.                        *)
Item(how, what) == [how |-> how, what |-> what, number |-> 0, chars |-> <<>>]
Printed(value) ==
  IF value.type = "string" THEN <<[Item("write", "string") EXCEPT !.chars = value.val]>>
  ELSE <<[Item("printf", "number") EXCEPT !.number = value.val], Item("printf", "newline")>>

println(values) ==
  FlattenSeq([i \in DOMAIN values |->
                Printed(values[i]) \o (IF i # Len(values) THEN <<Item("write", "blank")>> ELSE <<>>)])
    \o (IF \A i \in DOMAIN values : values[i].type = "string" THEN <<Item("write", "newline")>> ELSE <<>>)

(* A terminal gets the buffer with every newline that goes through it.     *)
Sent(items, how) ==
  FlattenSeq([i \in DOMAIN items |-> IF items[i].how = how THEN <<items[i]>> ELSE <<>>])
Write(items) ==
  IF tty THEN written' = written \o items /\ UNCHANGED stdio
  ELSE /\ written' = written \o Sent(items, "write")
       /\ stdio' = stdio \o Sent(items, "printf")

(* The i-th word after the count: five in registers, the rest on the stack. *)
va_arg(i) == IF i <= 5 THEN reg[ArgRegister[i + 1]] ELSE Load(Below(reg["rsp"], 8 * (i - 6)))

libblaze_fn_println ==
  /\ Calls("libblaze_fn_println")
  /\ LET argc == reg["rdi"]
         good == /\ argc.kind = "number"
                 /\ \A i \in 1..argc.n : va_arg(i).kind = "value" /\ va_arg(i).n \in DOMAIN heap
     IN  \/ /\ good
            /\ Write(println([i \in 1..argc.n |-> heap[va_arg(i).n]]))
            /\ Returns(Junk)
            /\ UNCHANGED <<driver, tty, heap, made, run>>
         \/ ~good /\ Crash

libblaze_val_free ==
  /\ Calls("libblaze_val_free")
  /\ LET val == reg["rdi"]
         good == val.kind = "value" /\ val.n \in DOMAIN heap
     IN  \/ /\ good
            /\ heap' = [i \in DOMAIN heap \ {val.n} |-> heap[i]]
            /\ Returns(Junk)
            /\ UNCHANGED <<driver, tty, made, written, stdio, run>>
         \/ ~good /\ Crash

(* exit of the C library writes what is in the buffer.                     *)
exit ==
  /\ Calls("exit")
  /\ written' = written \o stdio
  /\ stdio' = <<>>
  /\ run' = "exited"
  /\ UNCHANGED <<driver, tty, rip, reg, mem, heap, made>>

Step ==
  \/ Start \/ label \/ mov \/ add \/ push \/ pop \/ ret \/ call_main
  \/ libblaze_val_create_intval \/ libblaze_val_create_strval
  \/ libblaze_fn_println \/ libblaze_val_free \/ exit

Over ==
  /\ status # "running"
  /\ run \in {"exited", "crashed"} \/ (run = "no" /\ ~Executable)

Stutter == Over /\ UNCHANGED vars

NativeNext ==
  \/ Parent /\ UNCHANGED cpu
  \/ Tool /\ UNCHANGED cpu
  \/ Step
  \/ Stutter

(* The driver, the tools and the program go on: nothing in them waits for  *)
(* anything but each other's end.                                          *)
NativeSpec ==
  /\ NativeInit /\ [][NativeNext]_vars
  /\ WF_vars(Parent /\ UNCHANGED cpu)
  /\ WF_vars(Tool /\ UNCHANGED cpu)
  /\ WF_vars(Step)

-----------------------------------------------------------------------------
(* Properties of the composition.                                          *)
Short == \A i \in DOMAIN job.prog : Len(job.prog[i].args) <= 5
Plain == ~Backslash(job.prog)

(* What the source says is printed, by the println of the interpreter: the *)
(* arguments on one line.                                                  *)
Value(arg) == IF arg.type = "string" THEN [what |-> "string", number |-> 0, chars |-> arg.val]
              ELSE [what |-> "number", number |-> arg.val, chars |-> <<>>]
Sign(what) == [what |-> what, number |-> 0, chars |-> <<>>]

Line(args) ==
  FlattenSeq([i \in DOMAIN args |->
                <<Value(args[i])>> \o (IF i # Len(args) THEN <<Sign("blank")>> ELSE <<>>)])
    \o <<Sign("newline")>>
Meaning == FlattenSeq([i \in DOMAIN job.prog |-> Line(job.prog[i].args)])

(* The part of some output that is of certain kinds, however it was sent.  *)
Bare(item) == [what |-> item.what, number |-> item.number, chars |-> item.chars]
Kept(items, kinds) ==
  FlattenSeq([i \in DOMAIN items |-> IF items[i].what \in kinds THEN <<Bare(items[i])>> ELSE <<>>])
Same(kinds) == Kept(written, kinds) = Kept(Meaning, kinds)
All == {"string", "number", "blank", "newline"}

NoneEmpty   == \A i \in DOMAIN job.prog : job.prog[i].args # <<>>
OnlyStrings == /\ NoneEmpty
               /\ \A i \in DOMAIN job.prog : \A k \in DOMAIN job.prog[i].args :
                    job.prog[i].args[k].type = "string"

(* A program without backslashes in its strings prints its arguments, all  *)
(* of them and each once: the strings in order and the numbers in order,   *)
(* on a terminal both in the order of the source.  If it prints nothing    *)
(* but strings, blanks and newlines are where the source has them.         *)
PrintsProgram ==
  (run = "exited" /\ Plain) =>
    /\ Same({"string"}) /\ Same({"number"})
    /\ tty => Same({"string", "number"})
    /\ OnlyStrings => Same(All)


(* main returns to its caller with the stack and the frame as they were    *)
(* if no call has more than five arguments, and never otherwise.           *)
ReturnsIffShort ==
  /\ run = "crashed" => ~Short
  /\ run = "exited" => Short /\ reg["rsp"] = Word("stack", 0) /\ reg["rbp"] = Junk

(* Between two statements every value made has been freed: what the stack  *)
(* holds is what the statement in progress has pushed.                     *)
ValuesFreed ==
  /\ run = "exited" => heap = <<>>
  /\ run = "running" /\ Short =>
       DOMAIN heap \subseteq {mem[a].n : a \in {b \in DOMAIN mem : mem[b].kind = "value"}}
                               \cup {reg[r].n : r \in {q \in Reg : reg[q].kind = "value"}}

(* The calls of a program take off the stack what they put there.          *)
Balanced == ReturnsIffShort /\ ValuesFreed

(* blazec ends, whatever fails, and so does the program it makes.          *)
Ends == <>Over
=============================================================================
