# BlazeScript in TLA+

This directory holds TLA+ models of BlazeScript, the TLC configurations that
check them on small instances, and proofs, checked by TLAPS, of theorems about
them.  Every definition that stands for code names its lines in
`PROJECT.json` ("map").  Paths below are relative to the repository: `src/` is
its source directory, `lib/` its library.

## The system

BlazeScript is a small scripting language written in C.  Three programs share
the code:

* `blaze` runs a program: `process_file` (`src/blaze.c`) reads the file, calls
  the lexer, the parser and the evaluator one after the other, and frees what
  they made.  There is one thread; an error anywhere ends the process.
* `blazevm` loads a file of byte code, lists it and executes it.
* `blazec` translates a program to assembly and runs the system's assembler
  and linker.

| Component | State | Operations | Used by |
|---|---|---|---|
| lexer (`src/lexer.c`) | text, index, line and column, tokens | `lex_analyze` | parser (tokens) |
| parser (`src/parser.c`) | tokens, index; the C stack; the tree | one function per construct, `parser_ast_deep_copy`, free | evaluator, compiler |
| evaluator (`src/eval.c`) | the C stack; pointers to scopes and into their tables | one function per node | everything below |
| scopes (`src/scope.c`) | a tree of scopes with parent pointers, a table and a mode each | create, declare, assign, resolve, free | evaluator |
| valmap (`src/valmap.c`) | an open-addressing table that grows | three kinds of set, get, free | scopes |
| heap values (`src/valalloc.c`, `src/datatype.c`) | a table of slots with a free list; string buffers | allocate, copy, free | evaluator, valmap |
| byte-code machine (`src/blazevm.c`, `bytecode.c`, `opcode.c`, `disassemble.c`, `register.c`, `stack.c`) | program, registers, stack | list, one handler per opcode, system calls | - |
| native compiler (`src/blazec.c`, `compile*.c`, `asm.c`, `arch.c`) | options, trees of instructions and data, temporary files, child processes | one function per node; write, assemble, link, free | - |
| run-time library of compiled programs (`lib/value.c`, `lib/print.c`, `lib/x86_64`) | the values a program has made | create, print, free | compiled programs |
| built-in functions (`lib/lib.c`, `lib/print.c`) | - | print, exit, arrays | evaluator |
| map, vector, files, messages, logging | - | - | all |

Only `blazec` runs beside other processes, the assembler and the linker, and only
it leaves files; everything else is one thread of calls.  What is hard here is
sequences of legal calls: who owns a value that was copied, which pointers
survive the growth of a table, in which scope a name is bound when calls nest,
whether a loop without a bound ends, what happens at the end of a text, of
a token sequence or of a program, and what `blazec` leaves behind when one of the
many calls it does not check has failed.  `PROJECT.json` lists these hazards, each at
its line and with the properties that speak about it.

What makes each component correct:

* lexer: nothing of the text is lost, tokens are the longest possible and have
  the right position, the last token and only the last is `T_EOF`.
* parser: it stays inside the tokens, ends, and its tree says what the tokens
  say, with the intended precedence, grouping and pairing of `else`.
* valmap: it behaves as a dictionary, also across a reallocation, and no probe
  runs in circles.
* scopes, evaluator, heap values: no use of a freed scope, of a freed string
  or of a pointer into a table that has moved; a slot is on the free list once;
  parameters and constants keep their values.
* byte-code machine: it executes the instructions it has listed, stays inside
  the program and its stack, and ends.
* values: the comparisons and conditions do not contradict each other.
* native compiler: status 0 means a complete output file, and no other file or
  process stays, unless `wait`, `unlink` or a write has failed, which the code does not
  notice; the source survives; the program prints the strings and the numbers of its source
  in order (newlines are another matter, see Findings), and leaves the stack and the heap as it found them.

## Modules

| Module | Models | Extends / instances |
|---|---|---|
| `Dictionary` | what valmap promises: an abstract specification | |
| `Valmap` | `src/valmap.c`, one step per turn of a loop | refines `Dictionary` |
| `ValAlloc` | `src/valalloc.c`, values of `src/datatype.c`: operators | |
| `Scope` | `src/scope.c`: operators on the sequence of scopes | `ValAlloc` |
| `Values` | the operators and conditions of `src/eval.c`, on values | |
| `Eval` | `src/eval.c`, `array_filter` of `lib/lib.c`, the end of `process_file` | `Scope`, `Values` |
| `BlazeVM` | the whole of `blazevm`'s `process_file` | |
| `Lexer` | `src/lexer.c` | |
| `Parser` | the parser functions of `src/parser.c` | |
| `Ast` | copying and freeing of trees, `src/parser.c` | used on `Parser`'s trees by `MCParser` |
| `Compile` | `src/compile-x86_64.c`, `src/compile.c`, `src/asm.c`: operators | |
| `Blazec` | `src/blazec.c` with files, options and the processes `as` and `ld` | `Compile` |
| `Native` | the compiled program, `lib/value.c` and `lib/print.c` on a processor | `Blazec` |
| `MCValmap`, `MCEval`, `MCBlazeVM`, `MCLexer`, `MCParser`, `MCNative` | instances for TLC | the module named |
| `ValmapProofs`, `BlazeVMProofs`, `LexerProofs`, `ParserProofs` | theorems | the module named |
| `ScopeProofs` | theorems about the operators of `Scope` and `ValAlloc` | `Scope` |
| `EvalProofs` | theorems about `Values` and `Eval` | `Eval`, `ScopeProofs` |
| `HeapProofs` | theorems about the heap values of `Eval` | `EvalProofs` |
| `BlazecProofs` | theorems about `Blazec` and `Native` | `Native` |

**Valmap.**  A set or a get is an action that starts a probe; every turn of the
probe loop, and every entry that `valmap_realloc` moves, is an action.  `pc`
says which loop is running.  Keys, values and the hash are constants; `hash_key`
stands for hash and mask, and the capacity need not be a power of two (it never
is in the code).  `MaxCapacity` bounds the growth.

**Scope and ValAlloc** are operators, because their C functions run to their end
without calling back.  A scope number stands for an address and is not used
again after `scope_free`, so that a stale pointer is seen to be stale.  The table
of a scope is a function, as `Dictionary` allows, plus its capacity, since a
pointer into the table is valid until the capacity changes.

**Eval** runs all programs at once: which statement or expression comes next is
a choice of the model.  A frame is a C activation with the locals that live
across the evaluation of a child node.  The programs are those in which

* a call passes, on the way to the scope that binds the function, no scope of a
  block or loop (`SteadyCalls`), and a heap value is not bound to a second name
  (`CopyHeapVals`).  Without the first, or with the second, the code is wrong:
  the runs `eval_unsteady` and `eval_copies` show it;
* functions are not passed around as values, except directly to `array_filter`, have
  at most one parameter, and have a last statement;
* `array_filter` gets an array literal of integers, and not a function that is running
  (that call would bind its parameter in the scope of the call in progress);
* loops have a constant count; `if` and `loop` are not directly in a function
  body, where `eval_fn_decl` fails because the parser cannot copy them.

A run-time error and `exit()` end the process, and with it everything the properties
speak about.  So does a call that reads its function through a pointer into a table that has
moved (`CalleeLost`): what it reads is undefined, and the program is followed no further.  `array_filter` is a frame that binds, for each element, a copy of it in the scope of
the callback, runs the body and gives the callback a new scope; since the status
of the binding is ignored, it is the new scope that makes every element count.
Operators take two leaves; what they compute is `Values`.  `Literal` says which literals a program
uses; integers come from the counters of loops and the elements of arrays.

**Values** has a value as its type, its number and its text.  Integers are bounded by
`LLONG_MAX`; overflow, and comparing a string with a float, a function or an array
(`strcmp` of a null pointer), are outside what C defines and give no result.  Some
of what the laws leave open is deliberate: for values of different types neither `===` nor
`!==` holds, and any two functions, or any two arrays, are equal.

**BlazeVM** has the program as bytes, the registers as words modulo `Modulus`,
and the variable `build` for the two builds: with assertions (`src/Makefile.am:2`, also with
the address sanitizer) and without (`src/Makefile.am:5`).  `Base` is where the program
lies in memory.  What a read outside the program gives is a choice.

**Lexer** has one action for the start of each kind of token or comment and one
for each turn of its loop.  A character is itself; which characters are letters,
digits, blanks or unknown are constants.  A token remembers where its text starts
(`from`), which the code forgets and the properties need.

**Parser** makes the C stack explicit: `todo` is what the functions in progress
have still to do, `nodes` what they have collected.  A node has its parts in the
order of the text; a token is named by its place, which stands for the copy of
its text.  The three functions for binary operators are one action with the
level as parameter; the lists of array elements and of parameters are another.

**Ast** gives every node of such a tree the memory it owns, and copies and frees it as
`parser_ast_deep_copy` and `parser_ast_free_inner` do.  The copy of a block shares its statements with
the original; `CopiesFreed` says that this is the only case in which memory is freed twice.

**Compile** turns a program, a list of calls, into instructions and data entries; the
count and the arguments of a call are pushed, loaded into registers, and popped one by one to be
freed.  A string is a sequence of characters of which only the quote and the backslash matter.

**Blazec** is `main` with one action per system call.  A job says which calls may fail on its way (`failing`), and
`faults` remembers which have.  The code looks at the results of `fork`, of reading the source and at the status
that `wait` stores, and at no other, so that
a failing `fopen` or `mkstemp` leads to a crash, a short write to a short file, and a failing `unlink` to a
file that stays.  `wait` takes any child that has ended; when it fails (`SIGCHLD` may be inherited as
ignored), or takes a child that the process had before it became `blazec`, the driver goes on with the 0 it
has set, or with the code of that child, while its own child may still run.  The children, `as` and perhaps
`ld` beside it, open their input, open their output, write it and end
at their own pace, also after the driver; each can die at any point.  The branches for Windows are left out, and so is what
the debugging build prints (the tree, and `log_debug`), which with `-G` goes to the same stream as the assembly.

**Native** starts the executable when `blazec` has ended and it is complete.  Memory is the stack; a word
carries what it is (number, label, value, return address, stack address), so that
using it as something else is seen.  Strings, blanks and newlines of `println` are written
directly, numbers through the buffer of `printf`, which a terminal empties at every
newline and another file only at `exit`.  What the source says (`Meaning`) is defined apart from that, by what
the `println` of the interpreter (`lib/lib.c`) prints.

## Runs

| Run | Configuration | Shows |
|---|---|---|
| `valmap` | `MCValmap.cfg` | five keys in five slots that grow to ten: the table is searchable, counts right and keeps a vacant slot, in every intermediate state (`TableInv`); every operation returns; every step is a step of `Dictionary` or none |
| `eval` | `MCEval.cfg` | two families of programs.  One has a function with a parameter, which may call itself or be the callback of `array_filter`, a variable and two strings; the table of the program starts two names below the load at which it grows, and grows in the run: the scope of a callee lives until its call is over, and its table moves only when it is four fifths full (`CalleeKept`).  The other has nested blocks and loops that declare, concatenate and drop strings: the heap (`HeapSound`), the scopes, redeclaration, and the laws of the operators (`OperatorLaws`) on every value the programs make and on the ends of the types |
| `eval_unsteady`, `eval_copies`, `eval_growth` | `EvalUnsteady.cfg`, ... | violations, see Findings |
| `blazevm` | `MCBlazeVM.cfg` | programs of up to three instructions, some cut short, in both builds |
| `blazevm_assert` | `MCBlazeVMAssert.cfg` | a violation, see Findings |
| `lexer` | `MCLexer.cfg` | all texts of up to five characters over ten, and comments of up to seven |
| `lexer_comment` | `MCLexerComment.cfg` | a violation, see Findings |
| `parser` | `MCParser.cfg` | programs of a small grammar, each also with any one token missing; the trees, their grouping (`Grouped`) and their memory |
| `native` | `MCNative.cfg` | `blazec` with all command lines of up to two options, file names, and programs that it refuses, any system call and any tool failing: the output, the source, the temporary files, the processes and the reasons for a failure.  Then programs of one call and of two, compiled without failures and at work: the text printed (`PrintsProgram`), the stack and the heap (`Balanced`), the memory of the compiler |
| `native_println` | `MCPrintln.cfg` | a violation, see Findings |

Why the bounds are enough.  Valmap: five keys fill the table to the limit at which it
grows, collide, wrap around and are moved; the second growth would repeat the
first, and the theorems do not depend on the bounds.  Eval: a hazard needs
a function, a block and a second call, or a string with two owners, or one table at
its limit; the violating runs find each with the same bounds or smaller ones.
The tables have the real capacity of 20 and start with the real number of
predeclared names, except in `eval_growth` and `eval`, where the global scope
starts with 14 names for the same effect as five more declarations.  In `eval` the
other scopes start with 9, three more: they stay below the load of 16 at which a table of 20 grows, but reach
the load of 11 at which one that grows too early would have moved.
BlazeVM: `StepLimit` (1000 in the code) and `StackSize` (4096) are
small so that both limits are met; words have one byte, or two in `blazevm_assert`, so that they wrap
around; three instructions are enough to set up, write and use a register.
Lexer: five characters hold the longest operator with something on either side, a whole
comment, and a string over two lines.  Parser: two levels of nested statements
and chains of four operands of all three levels, with brackets.  Native: calls with up
to seven arguments (`MaxArgs`), since six registers hold the count and five of them; two calls in a
row, strings with quotes and backslashes.  Names are with and without `.bl`, with every mode
and every subset of failing system calls that one run of `blazec` can meet.  The command lines that meet failures have few programs,
and the programs at work no failures, because what fails does not depend on the program beyond its being accepted.

Fairness.  Liveness is checked under weak fairness of the
steps inside an operation (`Internal` in Valmap, `Step` elsewhere): the code is sequential and
waits for nothing, so a step that can be taken is taken.  Nothing is assumed
about callers.  In `Native` the driver, the tools and the program are weakly fair each:
the driver waits only for the end of a child, and `as` and `ld` end.  In `Lexer`, `Parser`, `BlazeVM` and `Eval` a finished process
stutters, so a deadlock would be a state the code cannot leave.

Each property has a mutant of the code it speaks about (`PROJECT.json`,
"mutants"): an operator beside the original that drops a guard, reads too little,
swaps operands and so on, under which TLC finds the property violated.

## Theorems

For every value of the constants that satisfies the assumptions of the module.

* `ValmapProofs`.  `TypeCorrect`, `TableSafe` (`TableInv`), `ProbesEnd` (no probe comes back to where it
  started).  The inductive invariant joins the
  type, `ChainInv` (the slots between a key's hash and its place are occupied),
  `UniqueInv`, `CountInv`, `RoomInv` (there is a vacant slot, in each phase of an
  operation with the margin the next phase needs) and `ProbeInv` (what the probe has passed is
  not what it looks for).  `ChainInv` alone is not inductive: a new entry keeps the chain only
  because the probe that found the vacant slot passed occupied ones, and the entry is
  new only because the probe did not meet the key.
  Assumed: hashes are inside the table, and the smallest table has five slots.
  `Refinement`: `Spec` implements `Dictionary`.  The
  dictionary is the union of the array and of what the reallocation has still to move; an operation
  takes effect when it returns.
* `BlazeVMProofs`.  `TypeCorrect`, `RunsTheListing`, `ListingVerifies`, `HaltsThere`, `StackBounded`,
  `Immediates`.  The invariant relates the
  list of instruction addresses that the disassembler has printed to the instruction pointer
  and adds that the listing is sound up to where it has come (`ListInv`: each address follows from the
  size of the instruction before, and in a build with assertions what is there has passed the
  disassembler's checks), and that none of the `i` instructions run so far is a `hlt` (`RunInv`).
* `LexerProofs`.  `TypeCorrect`, `EndsWithEof`, `TakesTheLongest`, `PositionsAgree`, `NothingLost`.  The
  invariant of the first two adds that every inner loop
  runs inside the text with the token started before; only the outer loop
  may be past the end, after an unclosed comment in the build without assertions.  `Counted`
  compares `current_line` and `current_column` with the line and column of `index` as the text
  has them, in each loop with the offset that this loop has fallen behind.  `Between` says that the
  text between the last token and the one in progress is blank or comment, by the recursive function
  `NextStart`, and what the loops have passed.  Assumed: the kinds of characters are disjoint (`Kinds`),
  as `isalpha`, `isdigit`, `isspace` and the cases of `lex_analyze` are.
* `ParserProofs`.  `StaysInRange`: no parser function reads past `T_EOF`, whatever the
  tokens.  All functions but one look at a token's type before they consume it;
  `parser_parse_var_decl` does not, and the invariant says that it is only ever the next
  thing to do, with `var` or `const` as the next token.  The
  assumption about the tokens is what `EndsWithEof` proves about the lexer.
* `BlazecProofs`.  `BlazecType`, `BlazecWrites`, `BlazecTidy`, `BlazecInputReady`, `BlazecKeepsSource`,
  `BlazecFailsForAReason`, `BlazecFreedOnce`: for
  every command line, every set of file names and every failing call.  None of them is inductive.  The
  invariant adds to the type: which places in the code go with which status (`RunsInv`)
  and with which mode (`ModeInv`); which temporary files exist at each place
  (`TempInv`); what has been made so far, and that it is whole unless a write was short
  (`MadeInv`); which child there is, and how its input, its state and the file it writes
  agree, as long as the driver has waited for it (`ChildInv`; when `wait` has failed, little is known of
the children, and the properties say less); and that without `-o` no file that is written is the source
  (`SourceInv`).  Assumed: the names of the temporary files are new, and the names made from
  an input name are file names.  `NativeImplementsDriver`: the
  composition with the compiled program is a driver too, so that `NativeWrites` follows.
  `BlazecWrites` adds where the driver is when a tool has failed (`NoticedInv`): at the `wait` for it, or past a fatal error.
  `BlazecFailsForAReason` needs a second invariant, `ReasonInv`: as long as nothing excuses a failure, the
  architecture is one that is supported, the text is that of the program given, and no tool has
  refused it.  That `as` takes the text is `StringsReadBack`: the quotes that
  `x86_64_compile_expr` adds are those that the assembler takes away, for strings of every length.
  `BlazecFreedOnce` needs `FreedInv`: after `compile`, what will be freed belongs to the program given, and
  nothing is freed before the end.  That each copy of a label has its entry of `.data` is `RootNumbered`: the
  labels that the instructions of a program load are 0, 1 and so on up to the number of its strings, each once
  and in order, for any number of calls and arguments; the code of a call around its arguments loads
  none (`QuietPieces`).
  `NativeBalanced` and `NativePrintsProgram` are about the compiled program at work, for programs of any
  length with calls of any number of arguments, and outputs of both kinds.  The properties speak of the end of the run, or of all values
  at once, and say nothing of where the program is; the invariant (`NativeInv`) does.  It cuts the code of a program
  at the points `ToCall`, `ToCount`, `ToArg`, ..., `ToReturn`.  At each it says what code is left
  (`Ahead`: the cut-off part of what `x86_64_compile_root` makes, which is also how the instruction that comes next is
  known), that the frame of `main` is whole (`Base`), that the words below it are
  the count and one value per argument made so far (`Pile`), that these values and no others are on the heap, and hold what the source says
  (`Values`), and that exactly the statements before have been printed (`Said`).  After a call with
  more than five arguments the stack pointer is too high, and another family of points
  (`LostCall`, ..., `LostReturn`) says by how much, and what kinds of words `println`
  can then meet where it looks for its count: a value, or a count of values that are not there.  So such a program can only crash,
  in a later call or at the last `ret`, and never exits.  Each point has a lemma for its
  step (`ToCallStep`, `ToMakeStep`, ..., `LostReturnStep`).  That what the assembler reads from `.data` is the string of the source is
  `StringAt`, from the numbering of the labels.
* `ScopeProofs` has no theorem of its own to name, but what each operator of `Scope` and `ValAlloc` makes:
  which scopes a search visits and that it ends (`ChainFacts`, `SearchFacts`), what a declaration, an
  assignment, a copy and a release of values change and what they leave alone.
* `EvalProofs`.  `ComparisonsOrder`, `EqualityConsistent`, `ConditionsAgree`: the laws of `OperatorLaws` for all
  integers and all texts.  The lemmas reduce each operator to the numbers or the texts it compares.
  `TypeCorrect`, `FreedWhenLeft`, `RedeclaredLater`, `OperatorsAgree` and `ConstantsKept` hold
  of every program that the module describes.  `ChainsLive`, `ParamsBound` and `CalleesStay` need `SteadyCalls`, without
  which the code is wrong (`eval_unsteady`).  `CalleesStay` says how far the pointer to the callee can be trusted:
  its table lives, and moves only when it is four fifths full; that it may move then is `eval_growth`.  The invariant
  `Base` has the types, that the blocks and loops whose scopes live are those being evaluated, in their
  order (`Nested`), that every frame works in a scope that one of these, a function or the program
  holds (`Held`), and where a loop is (`LoopsOK`).  `ConstantsKept` is an action property: every step either
  leaves a scope alone, frees it, or writes one name in it, and a name is written
  only where it is no constant or in the scope of a loop.  `Linked` adds that the chains of the scopes of functions and frames are live, and that the
  blocks and loops on a frame's chain are those of frames below it; it is where `SteadyCalls` is used, since a call
  moves the parent of the function's scope.  For `CalleesStay`: the scope that binds a callee is on the chain of the caller's scope, so that it is
  the program's, a function's, or one of a block or loop below in the stack, and lives (`Homes`); and
  its table is as large as when the call began or has been filled since (`Callees`), because
  no step removes a name and a capacity changes only when the table is four fifths full (`Fuller`).  `RunInv`
  adds for `ParamsBound`: a function has its scope to itself, which is empty while it does not run and
  in which nothing is evaluated then; every activation's parameter is bound to its own
  value; and so a function with a parameter is never active twice, since the second call ends the program
  when it binds the parameter again.
* `HeapProofs`.  `StringsStayLive` and `HeapStaysSound`, under the hypotheses of the runs that check them: calls are
  steady, and a heap value is not bound to a second name (`eval_copies` shows what happens otherwise).
  Neither property is inductive.  That no reachable string has been released says nothing about
  what the next `scope_free` will release, and that no live scope holds a free slot says nothing about two scopes that hold
  the same one.  `HeapInv` says who owns what.  A binding in a scope that will be freed owns its
  slot (`Owner`); the slot is in use for that value (`SlotsHeld`) and has no other owner (`OneOwner`).  A string
  that has an owner may also be the argument of a call, bound in the scope of a function, which is never
  freed; then the owner encloses that function (`Borrowed`).  A string that was released is only found in scopes from which a
  search meets a freed scope first (`OutOfReach`), and `Linked` of `EvalProofs` says that no code runs there.
  A value in flight, in the frame on top, has no owner if it is to be bound to a variable
  (`Unowned`), and if it is an argument, its owner encloses the caller (`Lent`); when the call begins, `Linked` says that what encloses the
  caller encloses the function.

The prover has no induction over data.  Where it was needed, the least natural number for which a
property fails (`LeastNat`, `UpTo`, from the well-foundedness of finite sets in the library) takes its place:
chains of scopes (`WalkExists`), the blank text before a token (`NextStartIs`), `FlattenSeq`
(`FlattenIs`, and from it `FlattenConcat`) and the assembler's reading of a string (`ReadingIs`).

Only model-checked:

* `Complete`, `Grouped` and `CopiesFreed`, recursive over trees of any depth;
* liveness, which TLAPS does not prove: `Ends` of each module and `CallReturns` of `Valmap`.

## Findings

Six runs are expected to end with a violation.

* `eval_unsteady` (`src/eval.c:345`): a function called in a block and again after
  it searches names through the freed scope of the block.
* `eval_copies` (`src/valmap.c:226`): a string bound to two names is released with the scope of
  the first.
* `eval_growth` (`src/eval.c:258`): a call keeps a pointer into a table which its arguments or
  its body can make grow.
* `blazevm_assert` (`src/bytecode.c:120`): the range assertion wraps around when the program has written to
  `%is`.
* `lexer_comment` (`src/lexer.c:364`): the error for a comment that is not closed
  cannot be reached.
* `native_println` (`lib/value.c:53`): the compiled `println(1, "a")` prints a newline after the number and none
  at the end; `tests/println.sh:25-31` and the interpreter (`lib/lib.c:28-55`) print one line.

Four more are stated in properties that hold, which say when the code goes wrong:

* a compiled program returns exactly if its calls have at most five arguments (`ReturnsIffShort`);
* the memory of a tree is freed twice exactly if a function shares a block with its copy (`CopiesFreed`);
* after status 0 a tool may have failed, and the output be missing, if `wait` has failed, since nobody looks at its result
  (`src/blazec.c:172-173`, `231-232`; `ZeroMeansWritten`);
* after status 0 a temporary file stays exactly if `unlink` has failed (`src/blazec.c:202`, `263`; `Tidy`).

## Not modelled

* the map, which nobody uses; the vector; messages and logging; the branches for Windows, i386 and macOS;
* the contents of arrays (`val_copy_deep` of an array gives an empty one), function values bound to other
  names, the built-in functions that read and print;
* the positions of nodes, the printing of trees; the structs of copied nodes, which are never freed;
* growth of the table of heap values (after 4095 values), and `val_alloc_tbl_global_free`,
  which runs at exit;
* the buffers of fixed size into which two messages are printed (`src/opcode.c:265`, `274`), where the model
  has an error that ends the program and nothing else; the alignment of the stack that the ABI asks for
  at a call (`src/compile-x86_64.c:123`, `133`), so that "never crashes" is meant apart from it; and the exit status
  that the leak sanitizer of debugging builds gives;
* what becomes of a program after a read of a table that has moved;
* what the compiled program cannot say: functions other than `println`, expressions other than literals.

## Plan

Done: the tables and scopes an interpreter stands on, the evaluator's use of them with
operators and `array_filter`, the byte-code machine, the front end with the memory of its trees, and the native
compiler down to the programs it makes.

1. `Eval`: function values and built-in functions bound twice; a table of heap
   values with a small capacity that grows; functions with several parameters; a callback that is
   already running.
2. `Front`: lexer and parser composed as `process_file` does, and `Parser` on real texts.
3. Proofs: that the entries of `nodes` match `todo` in `Parser`.
