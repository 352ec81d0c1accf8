------------------------------- MODULE Blazec -------------------------------
(***************************************************************************)
(* The compiler driver of src/blazec.c: its options, the file it compiles, *)
(* the temporary files, and the processes as and ld that it starts and     *)
(* waits for.  Any call to the system may fail; a failure the code does    *)
(* not look at has the effect it has (a null stream, a short file, a file  *)
(* that stays, a child that nobody has waited for).                        *)
(*                                                                         *)
(* A file is a name and what it holds.  A child process opens its input,   *)
(* writes its output and ends, at its own pace, and goes on when blazec    *)
(* has ended.  What the debugging build prints besides the program (the    *)
(* tree, log_debug) is left out.                                           *)
(***************************************************************************)
EXTENDS Compile

CONSTANTS
  Job,     (* what blazec can be asked to do: options, infile, program,    *)
           (* and the calls to the system, and the tools, that may fail    *)
  File,    (* names of files that a user gives, or that are made from them *)
  NoFile, TmpAsm, TmpObj, Stdout   (* no name; mkstemp's two; the stream   *)

Mode == {"GEN_ASM", "GEN_OBJ", "GEN_LINK_EXEC", "GEN_ASM_STDOUT"}
Arch == {"ARCH_ARM", "ARCH_AARCH64", "ARCH_I386", "ARCH_X86_64"}

(* Mutant: the name keeps its extension.                                   *)
blazec_determine_outfile_nameKept(infile, mode) == infile

(* The name without its directory: the parts before the extension, and the *)
(* extension.  Only .bl is replaced, anything else stays in the name.      *)
blazec_determine_outfile_name(infile, mode) ==
  LET ext == CASE mode = "GEN_LINK_EXEC"  -> "none"
               [] mode = "GEN_OBJ"        -> ".o"
               [] mode = "GEN_ASM"        -> ".s"
               [] mode = "GEN_ASM_STDOUT" -> ".out"
  IN  IF infile.ext # ".bl" /\ mode = "GEN_LINK_EXEC"
      THEN [stem |-> <<"a">>, ext |-> ".out"]
      ELSE [stem |-> IF infile.ext \in {".bl", "none"} THEN infile.stem
                     ELSE Append(infile.stem, infile.ext),
            ext |-> ext]

(* An option is the letter getopt_long returns and its argument.           *)
Option == [c : {"o"}, arg : File]
            \cup [c : {"a"}, arg : Arch \cup {"invalid"}]
            \cup [c : {"S", "G", "c", "x", "?", ":"}, arg : {NoFile}]

ASSUME NamesAssumption ==
  /\ {NoFile, TmpAsm, TmpObj, Stdout} \cap File = {}
  /\ NoFile \notin {TmpAsm, TmpObj, Stdout} /\ TmpAsm \notin {TmpObj, Stdout} /\ TmpObj # Stdout

(* What the parser makes of a program: the text of a string is a sequence  *)
(* of characters.                                                          *)
Argument  == [type : {"int", "other"}, val : Int] \cup [type : {"string"}, val : Seq(STRING)]
Statement == [kind : {"call", "other"}, fn : STRING, args : Seq(Argument)]

ASSUME JobAssumption ==
  \A j \in Job : /\ j.options \in Seq(Option)
                 /\ j.prog \in Seq(Statement)
                 /\ j.infile \in File \cup {NoFile}
                 /\ j.debug \in BOOLEAN
                 /\ j.infile # NoFile =>
                      \A m \in Mode : blazec_determine_outfile_name(j.infile, m) \in File

VARIABLES
  job,      (* the command line, the source text, the build                *)
  options,  (* the options that are still to be looked at                  *)
  context,  (* struct blazec_context                                       *)
  asm,      (* what the compiler has made                                  *)
  freed,    (* the strings of the compiler freed so far                    *)
  pc,       (* what the driver does next                                   *)
  files,    (* what every file holds                                       *)
  child,    (* the processes started and not waited for                    *)
  faults,   (* the calls to the system that have failed                    *)
  status    (* "running", or how the driver ended                          *)

driver == <<job, options, context, asm, freed, pc, files, child, faults, status>>

Name == File \cup {TmpAsm, TmpObj, Stdout}

(* What a file holds, and whether all of it arrived.                       *)
Content(kind, whole) == [kind |-> kind, whole |-> whole]
Contents == [kind : {"absent", "source", "empty", "asm", "obj", "exe"}, whole : BOOLEAN]
Absent == Content("absent", TRUE)

(* A tool is started at most once.                                         *)
Tools   == {"as", "ld"}
Process == [state : {"none", "forked", "reading", "writing", "exited"}, in : Name \cup {NoFile},
            out : Name \cup {NoFile}, read : Contents, code : {0, 1}]
NoChild == [state |-> "none", in |-> NoFile, out |-> NoFile, read |-> Absent, code |-> 0]

Init ==
  /\ job \in Job
  /\ options = job.options
  /\ context = [mode |-> "GEN_LINK_EXEC", arch |-> "unset", outfile |-> NoFile]
  /\ asm = compilation_context_create
  /\ freed = <<>>
  /\ pc = "options"
  /\ files = [f \in Name |-> IF f = job.infile THEN Content("source", TRUE) ELSE Absent]
  /\ child = [t \in Tools |-> NoChild]
  /\ faults = {}
  /\ status = "running"

-----------------------------------------------------------------------------
At(p)     == status = "running" /\ pc = p
Then(p)   == pc' = p /\ UNCHANGED status
Fault(f)  == f \in job.failing /\ faults' = faults \cup {f}
NoFault   == UNCHANGED faults
Idle      == UNCHANGED <<job, child>>

(* fatal_error and the other ways to end.                                  *)
End(code)   == status' = code /\ pc' = "end"
fatal_error == End("failure")

(* The file that the compilation is for.                                   *)
Target == IF context.mode = "GEN_ASM_STDOUT" THEN Stdout ELSE context.outfile

(* Mutant: an option is looked at again and again.                         *)
blazec_process_optionsAgain ==
  /\ At("options")
  /\ options # <<>>
  /\ UNCHANGED driver

(* One turn of the loop over the options.                                  *)
blazec_process_options ==
  /\ At("options")
  /\ options # <<>>
  /\ LET o == Head(options)
         set == [context EXCEPT
                   !.outfile = IF o.c = "o" THEN o.arg ELSE @,
                   !.arch    = IF o.c = "a" THEN o.arg ELSE @,
                   !.mode    = CASE o.c = "S" -> "GEN_ASM"
                                 [] o.c = "G" -> "GEN_ASM_STDOUT"
                                 [] o.c = "c" -> "GEN_OBJ"
                                 [] o.c = "x" -> "GEN_LINK_EXEC"
                                 [] OTHER     -> @]
         valid == o.c \notin {"?", ":"} /\ (o.c = "a" => o.arg # "invalid")
     IN  \/ valid /\ context' = set /\ options' = Tail(options) /\ UNCHANGED <<pc, status>>
         \/ ~valid /\ fatal_error /\ UNCHANGED <<context, options>>
  /\ Idle /\ NoFault /\ UNCHANGED <<asm, freed, files>>

(* main after the options: the input, the output, the architecture.        *)
main ==
  /\ At("options")
  /\ options = <<>>
  /\ \/ /\ job.infile # NoFile
        /\ context' = [context EXCEPT
             !.outfile = IF @ = NoFile THEN blazec_determine_outfile_name(job.infile, context.mode)
                         ELSE @,
             !.arch = IF @ = "unset" THEN "ARCH_X86_64" ELSE @]
        /\ Then("read")
     \/ job.infile = NoFile /\ fatal_error /\ UNCHANGED context
  /\ Idle /\ NoFault /\ UNCHANGED <<options, asm, freed, files>>

(* filebuf_init and filebuf_read, the lexer and the parser.                *)
ReadSource ==
  /\ At("read")
  /\ \/ job.syntax /\ NoFault /\ Then("compile")
     \/ ~job.syntax /\ NoFault /\ fatal_error
     \/ Fault("read") /\ fatal_error
  /\ Idle /\ UNCHANGED <<options, context, asm, freed, files>>

First == CASE context.mode = "GEN_ASM"        -> "open"
           [] context.mode = "GEN_OBJ"        -> "mkstemp_asm"
           [] context.mode = "GEN_LINK_EXEC"  -> "mkstemp_obj"
           [] context.mode = "GEN_ASM_STDOUT" -> "write"

compile ==
  /\ At("compile")
  /\ \/ /\ context.arch = "ARCH_X86_64"
        /\ Supported(job.prog, job.debug)
        /\ asm' = compilation_context(job.prog)
        /\ Then(First)
     \/ /\ ~(context.arch = "ARCH_X86_64" /\ Supported(job.prog, job.debug))
        /\ fatal_error
        /\ UNCHANGED asm
  /\ Idle /\ NoFault /\ UNCHANGED <<options, context, freed, files>>

-----------------------------------------------------------------------------
(* The file blazec_write_assembly writes to.                               *)
Dest == CASE context.mode = "GEN_ASM"        -> context.outfile
          [] context.mode = "GEN_ASM_STDOUT" -> Stdout
          [] OTHER                           -> TmpAsm

(* fopen of the output, mkstemp and fdopen of the temporary file: nobody   *)
(* looks at the result, and the first fprintf to a null stream crashes.    *)
Open(p, f, next) ==
  /\ At(p)
  /\ \/ files' = [files EXCEPT ![f] = Content("empty", TRUE)] /\ NoFault /\ Then(next)
     \/ UNCHANGED files /\ Fault(p) /\ End("crashed")
  /\ Idle /\ UNCHANGED <<options, context, asm, freed>>

OpenOutput  == Open("open", context.outfile, "write")
mkstemp_asm == Open("mkstemp_asm", TmpAsm, "write")

(* If mkstemp fails here its name is used all the same.                    *)
mkstemp_obj ==
  /\ At("mkstemp_obj")
  /\ \/ files' = [files EXCEPT ![TmpObj] = Content("empty", TRUE)] /\ NoFault
     \/ UNCHANGED files /\ Fault("mkstemp_obj")
  /\ Then("mkstemp_asm")
  /\ Idle /\ UNCHANGED <<options, context, asm, freed>>

(* Mutant: the stream of the temporary file is not closed.                 *)
blazec_write_assemblyUnclosed ==
  /\ At("write")
  /\ files' = IF Dest = TmpAsm THEN files ELSE [files EXCEPT ![Dest] = Content("asm", TRUE)]
  /\ Then(IF Dest = TmpAsm THEN "fork_as" ELSE "free")
  /\ Idle /\ NoFault /\ UNCHANGED <<options, context, asm, freed>>

(* asm_print_header, asm_print and fclose; a short write is not noticed.   *)
blazec_write_assembly ==
  /\ At("write")
  /\ \/ files' = [files EXCEPT ![Dest] = Content("asm", TRUE)] /\ NoFault
     \/ files' = [files EXCEPT ![Dest] = Content("asm", FALSE)] /\ Fault("write")
  /\ Then(IF Dest = TmpAsm THEN "fork_as" ELSE "free")
  /\ Idle /\ UNCHANGED <<options, context, asm, freed>>

Child(in, out) ==
  [state |-> "forked", in |-> in, out |-> out, read |-> Absent, code |-> 0]

fork(p, tool, in, out, next) ==
  /\ At(p)
  /\ \/ child' = [child EXCEPT ![tool] = Child(in, out)] /\ NoFault /\ Then(next)
     \/ UNCHANGED child /\ Fault(p) /\ fatal_error
  /\ UNCHANGED <<job, options, context, asm, freed, files>>

fork_as == fork("fork_as", "as", TmpAsm,
                IF context.mode = "GEN_OBJ" THEN context.outfile ELSE TmpObj, "wait_as")
fork_ld == fork("fork_ld", "ld", TmpObj, context.outfile, "wait_ld")

(* Mutant: the status of the child is not looked at.                       *)
wait_ldAnyCode ==
  /\ At("wait_ld")
  /\ child["ld"].state = "exited"
  /\ child' = [child EXCEPT !["ld"] = NoChild]
  /\ Then("unlink_obj")
  /\ NoFault /\ UNCHANGED <<job, options, context, asm, freed, files>>

(* One of the children that have ended is taken, whichever it is.  Nobody  *)
(* looks at the result: if wait fails (SIGCHLD is ignored) the code is the *)
(* 0 it was set to, and if the process had a child before it was blazec it *)
(* may be the code of that one.                                            *)
wait(p, next) ==
  /\ At(p)
  /\ \E code \in {0, 1} :
       /\ \/ \E t \in Tools : /\ child[t].state = "exited" /\ child[t].code = code
                              /\ child' = [child EXCEPT ![t] = NoChild]
                              /\ NoFault
          \/ UNCHANGED child /\ Fault("wait")
       /\ \/ code = 0 /\ Then(next)
          \/ code # 0 /\ fatal_error
  /\ UNCHANGED <<job, options, context, asm, freed, files>>

wait_as == wait("wait_as", "unlink_asm")
wait_ld == wait("wait_ld", "unlink_obj")

(* Mutant: the temporary file stays.                                       *)
unlink_asmNever ==
  /\ At("unlink_asm")
  /\ Then(IF context.mode = "GEN_OBJ" THEN "free" ELSE "fork_ld")
  /\ Idle /\ NoFault /\ UNCHANGED <<options, context, asm, freed, files>>

(* If it fails the file stays, and the driver goes on.                     *)
unlink(p, f, next) ==
  /\ At(p)
  /\ \/ files' = [files EXCEPT ![f] = Absent] /\ NoFault
     \/ UNCHANGED files /\ Fault(p)
  /\ Then(next)
  /\ Idle /\ UNCHANGED <<options, context, asm, freed>>

unlink_asm == unlink("unlink_asm", TmpAsm, IF context.mode = "GEN_OBJ" THEN "free" ELSE "fork_ld")
unlink_obj == unlink("unlink_obj", TmpObj, "free")

(* The end of blazec_compile_file, and of main.                            *)
compilation_context_destroy ==
  /\ At("free")
  /\ freed' = asm_node_free_inner(asm) \o asm_data_free(asm)
  /\ End("success")
  /\ Idle /\ NoFault /\ UNCHANGED <<options, context, asm, files>>

-----------------------------------------------------------------------------
(* A child.  A failing execlp, an error of the tool and a signal all give  *)
(* a status that is not 0.                                                 *)
Running(t, state) ==
  child[t].state = state /\ UNCHANGED <<job, options, context, asm, freed, pc, status>>

ChildFails(t) ==
  /\ child[t].state \in {"forked", "reading", "writing"}
  /\ Running(t, child[t].state)
  /\ child' = [child EXCEPT ![t].state = "exited", ![t].code = 1]
  /\ Fault(t)
  /\ \/ UNCHANGED files
     \/ child[t].state = "writing" /\ files' = [files EXCEPT ![child[t].out] = Absent]

ToolReads(t) ==
  /\ Running(t, "forked")
  /\ child' = [child EXCEPT ![t].state = "reading", ![t].read = files[child[t].in]]
  /\ NoFault /\ UNCHANGED files

(* A text that is wrong, or an input that is not there, is an error.       *)
Acceptable(t) ==
  \/ t = "as" /\ child[t].read.kind = "asm" /\ (child[t].read.whole => Assembles(asm))
  \/ t = "ld" /\ child[t].read.kind = "obj"

ToolRefuses(t) ==
  /\ Running(t, "reading")
  /\ ~Acceptable(t)
  /\ child' = [child EXCEPT ![t].state = "exited", ![t].code = 1]
  /\ NoFault /\ UNCHANGED files

ToolOpens(t) ==
  /\ Running(t, "reading")
  /\ Acceptable(t)
  /\ files' = [files EXCEPT ![child[t].out] = Content("empty", TRUE)]
  /\ child' = [child EXCEPT ![t].state = "writing"]
  /\ NoFault

(* Its output is as good as its input; a file removed meanwhile is gone.   *)
ToolWrites(t) ==
  /\ Running(t, "writing")
  /\ files' = IF files[child[t].out] = Absent THEN files
              ELSE [files EXCEPT ![child[t].out] =
                      Content(IF t = "as" THEN "obj" ELSE "exe", child[t].read.whole)]
  /\ child' = [child EXCEPT ![t].state = "exited", ![t].code = 0]
  /\ NoFault

Parent ==
  \/ blazec_process_options \/ main \/ ReadSource \/ compile
  \/ OpenOutput \/ mkstemp_asm \/ mkstemp_obj \/ blazec_write_assembly
  \/ fork_as \/ wait_as \/ unlink_asm
  \/ fork_ld \/ wait_ld \/ unlink_obj
  \/ compilation_context_destroy

Tool ==
  \E t \in Tools : ChildFails(t) \/ ToolReads(t) \/ ToolRefuses(t) \/ ToolOpens(t) \/ ToolWrites(t)

Next == Parent \/ Tool

Spec == Init /\ [][Next]_driver

-----------------------------------------------------------------------------
(* Properties.                                                             *)

(* Every variable has its type.                                            *)
TypeOK ==
  /\ job.infile \in File \cup {NoFile}
  /\ options \in Seq(Option)
  /\ context \in [mode : Mode, arch : Arch \cup {"unset"}, outfile : File \cup {NoFile}]
  /\ pc \in {"options", "read", "compile", "open", "mkstemp_asm", "mkstemp_obj", "write", "fork_as",
             "wait_as", "unlink_asm", "fork_ld", "wait_ld", "unlink_obj", "free", "end"}
  /\ files \in [Name -> Contents]
  /\ child \in [Tools -> Process]
  /\ status \in {"running", "success", "failure", "crashed"}

(* When blazec ends with 0 and wait has given the status of the child it   *)
(* was meant for, as and ld have not failed, as the messages "failed with  *)
(* exit code" promise; and if no write was short, the file it was asked    *)
(* for is there, complete, and of the kind that was asked for.             *)
Wanted == CASE context.mode = "GEN_OBJ" -> "obj"
            [] context.mode = "GEN_LINK_EXEC" -> "exe"
            [] OTHER -> "asm"
ZeroMeansWritten ==
  (status = "success" /\ "wait" \notin faults) =>
    /\ Tools \cap faults = {}
    /\ "write" \notin faults => files[Target] = Content(Wanted, TRUE)

Backslash(prog) ==
  \E i \in DOMAIN prog : \E k \in DOMAIN prog[i].args :
    prog[i].args[k].type = "string" /\ Contains(prog[i].args[k].val, "backslash")

(* What is left behind.  After status 0 a temporary file stays exactly if  *)
(* unlink has failed; a child is left only if wait has failed; and if      *)
(* nothing failed but the reading of the source, and as takes the strings, *)
(* no end leaves a file: not that of a wrong command line or program.      *)
Tidy ==
  /\ status = "success" => (files[TmpAsm] = Absent <=> "unlink_asm" \notin faults)
  /\ (status = "success" /\ "wait" \notin faults) =>
       (files[TmpObj] = Absent <=> "unlink_obj" \notin faults)
  /\ (status # "running" /\ "wait" \notin faults) => \A t \in Tools : child[t] = NoChild
  /\ (status # "running" /\ faults \subseteq {"read"} /\ ~Backslash(job.prog)) =>
       files[TmpAsm] = Absent /\ files[TmpObj] = Absent

(* as and ld never open a file that is still being written, or is gone,    *)
(* unless the driver has not waited.                                       *)
InputReady ==
  "wait" \notin faults =>
    \A t \in Tools : child[t].state \in {"reading", "writing"} =>
                        child[t].read.kind = (IF t = "as" THEN "asm" ELSE "obj")

(* A source file *.bl is overwritten only if -o names it.                  *)
Bl(f) == f # NoFile /\ f.ext = ".bl"
SourceKept ==
  (Bl(job.infile) /\ ~\E i \in DOMAIN job.options : job.options[i].c = "o") =>
    files[job.infile] = Content("source", TRUE)

(* blazec fails only for a reason: a wrong command line or program, a      *)
(* string that as does not take, or a call to the system that failed.      *)
Reasons ==
  \/ job.infile = NoFile \/ ~job.syntax \/ ~Supported(job.prog, job.debug)
  \/ \E i \in DOMAIN job.options : LET o == job.options[i]
       IN  o.c \in {"?", ":"} \/ (o.c = "a" /\ o.arg # "ARCH_X86_64")
  \/ Backslash(job.prog)
  \/ faults # {}
FailsForAReason == status \in {"failure", "crashed"} => Reasons

(* Every string the compiler makes is freed once, by the node or the data  *)
(* entry that owns it; the labels are in both.                             *)
FreedOnce ==
  /\ IsInjective(freed)
  /\ status = "success" => ToSet(freed) = MadeStrings(asm)
=============================================================================
