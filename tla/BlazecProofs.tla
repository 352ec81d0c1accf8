---------------------------- MODULE BlazecProofs ----------------------------
(***************************************************************************)
(* Proofs about the compiler driver, for every set of command lines, names *)
(* of files and programs, and for the driver as it runs in Native.         *)
(*                                                                         *)
(* Of what the compiler makes of a program the strings and the labels are  *)
(* looked into: FlattenSeq and FoldLeft are recursive, and what they make  *)
(* is proved from the sequence of their intermediate results.              *)
(*                                                                         *)
(* The last part follows the machine of Native through the code of any     *)
(* program: what is on its stack, in its registers and in the heap at each *)
(* point, and what it has printed.                                         *)
(***************************************************************************)
EXTENDS Native, FiniteSetTheorems, SequenceTheorems, WellFoundedInduction, TLAPS

(* What as makes, and from what; the same for ld.                          *)
AsOut == IF context.mode = "GEN_OBJ" THEN context.outfile ELSE TmpObj

(* A file of the right kind, and complete unless a write was short.        *)
Good(f, kind) ==
  /\ files[f].kind = kind
  /\ "write" \notin faults => files[f].whole = TRUE

(* No call of wait has failed, or has given the status of another child.   *)
Waited == "wait" \notin faults

(* The driver runs until it is at its end.                                 *)
RunsInv == status = "running" <=> pc # "end"

(* What the place of the driver says of its command line.                  *)
ModeInv ==
  /\ pc \notin {"options", "end"} \/ status = "success" => context.outfile \in File
  /\ pc = "open" => context.mode = "GEN_ASM"
  /\ pc \in {"mkstemp_asm", "fork_as", "wait_as", "unlink_asm"} =>
       context.mode \in {"GEN_OBJ", "GEN_LINK_EXEC"}
  /\ pc \in {"mkstemp_obj", "fork_ld", "wait_ld", "unlink_obj"} => context.mode = "GEN_LINK_EXEC"

(* Which temporary files are there, and which of them unlink has left.     *)
TempInv ==
  /\ pc \in {"options", "read", "compile", "open", "mkstemp_obj", "mkstemp_asm"} =>
       files[TmpAsm] = Absent
  /\ pc = "write" /\ context.mode \in {"GEN_ASM", "GEN_ASM_STDOUT"} => files[TmpAsm] = Absent
  /\ pc \in {"options", "read", "compile", "open", "mkstemp_obj"} => files[TmpObj] = Absent
  /\ pc \notin {"options", "end"} /\ context.mode # "GEN_LINK_EXEC" => files[TmpObj] = Absent
  /\ "unlink_asm" \in faults => pc \in {"fork_ld", "wait_ld", "unlink_obj", "free", "end"}
  /\ "unlink_obj" \in faults => pc \in {"free", "end"}
  /\ pc \in {"fork_ld", "wait_ld", "unlink_obj", "free"} \/ status = "success" =>
       (files[TmpAsm] = Absent <=> "unlink_asm" \notin faults)
  /\ (pc = "free" \/ status = "success") /\ Waited =>
       (files[TmpObj] = Absent <=> "unlink_obj" \notin faults)

(* What the files hold that have been made so far.                         *)
MadeInv ==
  /\ pc \in {"fork_as", "wait_as", "unlink_asm"} => Good(TmpAsm, "asm")
  /\ Waited =>
       /\ pc = "unlink_asm" => Good(AsOut, "obj")
       /\ pc \in {"fork_ld", "wait_ld", "unlink_obj"} => Good(TmpObj, "obj")
       /\ pc = "unlink_obj" => Good(context.outfile, "exe")
       /\ pc = "free" \/ status = "success" => Good(Target, Wanted)

(* Where a child may still run, what it reads and what it makes: nothing   *)
(* that it does later can reach the source or the assembly file.           *)
StartedInv ==
  /\ child["as"].state # "none" =>
       /\ pc \in {"wait_as", "unlink_asm", "fork_ld", "wait_ld", "unlink_obj", "free", "end"}
       /\ context.outfile \in File /\ context.mode \in {"GEN_OBJ", "GEN_LINK_EXEC"}
       /\ child["as"].in = TmpAsm /\ child["as"].out = AsOut
  /\ child["ld"].state # "none" =>
       /\ pc \in {"wait_ld", "unlink_obj", "free", "end"}
       /\ context.outfile \in File /\ context.mode = "GEN_LINK_EXEC"
       /\ child["ld"].in = TmpObj /\ child["ld"].out = context.outfile

(* A child that the driver waits for, what it has read and has made.       *)
ChildOf(t, in, out, kind) ==
  /\ child[t].state # "none"
  /\ child[t].state \in {"reading", "writing"} => child[t].read = files[in]
  /\ child[t].state = "writing" => files[out] # Absent
  /\ child[t].state = "exited" /\ child[t].code = 0 => Good(out, kind)

ChildInv ==
  Waited =>
    /\ pc = "wait_as" => ChildOf("as", TmpAsm, AsOut, "obj")
    /\ pc = "wait_ld" => ChildOf("ld", TmpObj, context.outfile, "exe")
    /\ pc # "wait_as" => child["as"] = NoChild
    /\ pc # "wait_ld" => child["ld"] = NoChild

(* Without -o the output is never a *.bl, and the source is as it was.     *)
NoO(opts) == \A i \in DOMAIN opts : opts[i].c # "o"
SourceInv ==
  (Bl(job.infile) /\ NoO(job.options)) =>
    /\ pc = "options" => NoO(options) /\ context.outfile = NoFile
    /\ context.outfile # job.infile
    /\ files[job.infile] = Content("source", TRUE)

IInv ==
  /\ TypeOK /\ job \in Job
  /\ RunsInv /\ ModeInv /\ TempInv /\ MadeInv /\ StartedInv /\ ChildInv /\ SourceInv

-----------------------------------------------------------------------------
(* The names of the files are different.                                   *)
LEMMA NamesDiffer ==
  /\ TmpAsm \notin File /\ TmpObj \notin File /\ Stdout \notin File /\ NoFile \notin File
  /\ TmpAsm # TmpObj /\ TmpAsm # Stdout /\ TmpObj # Stdout
  /\ NoFile \notin Name
  /\ TmpAsm \in Name /\ TmpObj \in Name /\ Stdout \in Name /\ File \subseteq Name
  BY NamesAssumption DEF Name

(* The name that main makes is one of File.                                *)
LEMMA OutfileName ==
  ASSUME NEW j \in Job, j.infile # NoFile, NEW m \in Mode
  PROVE  blazec_determine_outfile_name(j.infile, m) \in File
  BY JobAssumption

(* blazec_determine_outfile_name never ends in .bl.                        *)
LEMMA OutfileExt ==
  ASSUME NEW f, NEW m \in Mode
  PROVE  blazec_determine_outfile_name(f, m).ext # ".bl"
  BY DEF blazec_determine_outfile_name, Mode

(* The options that are left are options that were given.                  *)
LEMMA TailOptions ==
  ASSUME options \in Seq(Option), options # <<>>
  PROVE  /\ Head(options) \in Option
         /\ Tail(options) \in Seq(Option)
         /\ NoO(options) => Head(options).c # "o" /\ NoO(Tail(options))
  BY DEF NoO

(* Init satisfies the invariant.                                           *)
LEMMA InitIInv == Init => IInv
<1> SUFFICES ASSUME Init PROVE IInv
  OBVIOUS
<1> USE DEF Init
<1>1. job.options \in Seq(Option) /\ job.infile \in File \cup {NoFile}
  BY JobAssumption
<1>2. TypeOK
  BY <1>1, NamesDiffer DEF TypeOK, Content, Contents, Absent, NoChild, Process, Tools, Mode, Arch
<1>3. RunsInv /\ ModeInv /\ StartedInv /\ ChildInv /\ MadeInv
  BY DEF RunsInv, ModeInv, StartedInv, ChildInv, MadeInv, NoChild, Tools
<1>4. TempInv
  BY <1>1, NamesDiffer DEF TempInv
<1>5. SourceInv
  BY <1>1, NamesDiffer DEF SourceInv, Bl
<1> QED
  BY <1>2, <1>3, <1>4, <1>5 DEF IInv

-----------------------------------------------------------------------------
(* The alternatives by mode, one fact each.                                *)
LEMMA FirstIs ==
  /\ context.mode = "GEN_ASM" => First = "open"
  /\ context.mode = "GEN_OBJ" => First = "mkstemp_asm"
  /\ context.mode = "GEN_LINK_EXEC" => First = "mkstemp_obj"
  /\ context.mode = "GEN_ASM_STDOUT" => First = "write"
  BY Zenon DEF First

LEMMA DestIs ==
  /\ context.mode = "GEN_ASM" => Dest = context.outfile
  /\ context.mode = "GEN_ASM_STDOUT" => Dest = Stdout
  /\ context.mode \in {"GEN_OBJ", "GEN_LINK_EXEC"} => Dest = TmpAsm
  BY Zenon DEF Dest

LEMMA WantedIs ==
  /\ context.mode = "GEN_OBJ" => Wanted = "obj"
  /\ context.mode = "GEN_LINK_EXEC" => Wanted = "exe"
  /\ context.mode \in {"GEN_ASM", "GEN_ASM_STDOUT"} => Wanted = "asm"
  BY Zenon DEF Wanted

-----------------------------------------------------------------------------
(* A step of the driver before it has opened any file.                     *)
LEMMA OptionsStep == IInv /\ blazec_process_options => IInv'
<1> SUFFICES ASSUME IInv, blazec_process_options PROVE IInv'
  OBVIOUS
<1> DEFINE o == Head(options)
<1> USE DEF IInv
<1>1. /\ status = "running" /\ pc = "options" /\ options # <<>>
      /\ UNCHANGED <<job, child, faults, asm, freed, files>>
  BY DEF blazec_process_options, At, Idle, NoFault
<1>2. o \in Option /\ Tail(options) \in Seq(Option)
      /\ (NoO(options) => o.c # "o" /\ NoO(Tail(options)))
  BY <1>1, TailOptions DEF TypeOK
<1>3. CASE /\ o.c \notin {"?", ":"} /\ (o.c = "a" => o.arg # "invalid")
           /\ options' = Tail(options) /\ UNCHANGED <<pc, status>>
           /\ context' = [context EXCEPT
                !.outfile = IF o.c = "o" THEN o.arg ELSE @,
                !.arch    = IF o.c = "a" THEN o.arg ELSE @,
                !.mode    = CASE o.c = "S" -> "GEN_ASM"
                              [] o.c = "G" -> "GEN_ASM_STDOUT"
                              [] o.c = "c" -> "GEN_OBJ"
                              [] o.c = "x" -> "GEN_LINK_EXEC"
                              [] OTHER     -> @]
  <2> DEFINE m == CASE o.c = "S" -> "GEN_ASM"
                    [] o.c = "G" -> "GEN_ASM_STDOUT"
                    [] o.c = "c" -> "GEN_OBJ"
                    [] o.c = "x" -> "GEN_LINK_EXEC"
                    [] OTHER     -> context.mode
  <2>1. m \in Mode
    <3>1. context.mode \in Mode
      BY DEF TypeOK
    <3>2. CASE o.c \notin {"S", "G", "c", "x"}
      <4>1. m = context.mode
        BY <3>2, Zenon
      <4> QED
        BY <3>1, <4>1
    <3>3. CASE o.c = "S"
      <4>1. m = "GEN_ASM"
        BY <3>3, Zenon
      <4> QED
        BY <4>1 DEF Mode
    <3>4. CASE o.c = "G"
      <4>1. m = "GEN_ASM_STDOUT"
        BY <3>4, Zenon
      <4> QED
        BY <4>1 DEF Mode
    <3>5. CASE o.c = "c"
      <4>1. m = "GEN_OBJ"
        BY <3>5, Zenon
      <4> QED
        BY <4>1 DEF Mode
    <3>6. CASE o.c = "x"
      <4>1. m = "GEN_LINK_EXEC"
        BY <3>6, Zenon
      <4> QED
        BY <4>1 DEF Mode
    <3> QED
      BY <3>2, <3>3, <3>4, <3>5, <3>6
  <2>2. context' = [context EXCEPT !.outfile = IF o.c = "o" THEN o.arg ELSE @,
                                   !.arch = IF o.c = "a" THEN o.arg ELSE @, !.mode = m]
    BY <1>3, Zenon
  <2> HIDE DEF m
  <2>3. TypeOK'
    <3>1. o.c = "o" => o.arg \in File
      BY <1>2 DEF Option
    <3>2. o.c = "a" => o.arg \in Arch
      BY <1>2, <1>3 DEF Option
    <3>3. context \in [mode : Mode, arch : Arch \cup {"unset"}, outfile : File \cup {NoFile}]
      BY DEF TypeOK
    <3>4. context' \in [mode : Mode, arch : Arch \cup {"unset"}, outfile : File \cup {NoFile}]
      BY <2>1, <2>2, <3>1, <3>2, <3>3
    <3> QED
      BY <1>1, <1>2, <1>3, <3>4 DEF TypeOK
  <2>4. (RunsInv /\ ModeInv /\ TempInv /\ MadeInv /\ StartedInv /\ ChildInv)'
    BY <1>1, <1>3 DEF RunsInv, ModeInv, TempInv, MadeInv, StartedInv, ChildInv, Waited
  <2>5. SourceInv'
    BY <1>1, <1>2, <1>3, <2>2, NamesDiffer DEF SourceInv, TypeOK, Bl
  <2> QED
    BY <1>1, <2>3, <2>4, <2>5
<1>4. CASE fatal_error /\ UNCHANGED <<context, options>>
  <2> USE <1>1, <1>4 DEF fatal_error, End
  <2>1. TypeOK'
    BY DEF TypeOK
  <2>2. (RunsInv /\ ModeInv /\ TempInv /\ MadeInv /\ StartedInv /\ ChildInv)'
    BY DEF RunsInv, ModeInv, TempInv, MadeInv, StartedInv, ChildInv, Waited
  <2>3. SourceInv'
    BY DEF SourceInv
  <2> QED
    BY <2>1, <2>2, <2>3
<1> QED
  BY <1>3, <1>4 DEF blazec_process_options

LEMMA mainStep == IInv /\ main => IInv'
<1> SUFFICES ASSUME IInv, main PROVE IInv'
  OBVIOUS
<1> USE DEF IInv
<1>1. /\ status = "running" /\ pc = "options" /\ options = <<>>
      /\ UNCHANGED <<job, child, faults, options, asm, freed, files>>
  BY DEF main, At, Idle, NoFault
<1>2. CASE /\ job.infile # NoFile
           /\ context' = [context EXCEPT
                !.outfile = IF @ = NoFile THEN blazec_determine_outfile_name(job.infile, context.mode)
                            ELSE @,
                !.arch = IF @ = "unset" THEN "ARCH_X86_64" ELSE @]
           /\ pc' = "read" /\ UNCHANGED status
  <2> DEFINE name == blazec_determine_outfile_name(job.infile, context.mode)
  <2>1. name \in File /\ name.ext # ".bl"
    BY <1>2, OutfileName, OutfileExt DEF TypeOK
  <2> HIDE DEF name
  <2>2. TypeOK' /\ context.outfile' \in File
    <3>1. context \in [mode : Mode, arch : Arch \cup {"unset"}, outfile : File \cup {NoFile}]
      BY DEF TypeOK
    <3>2. context' = [context EXCEPT !.outfile = IF @ = NoFile THEN name ELSE @,
                                     !.arch = IF @ = "unset" THEN "ARCH_X86_64" ELSE @]
      BY <1>2 DEF name
    <3>3. /\ context' \in [mode : Mode, arch : Arch \cup {"unset"}, outfile : File \cup {NoFile}]
          /\ context.outfile' \in File
      BY <2>1, <3>1, <3>2 DEF Arch
    <3> QED
      BY <1>1, <1>2, <3>3 DEF TypeOK
  <2>3. (RunsInv /\ ModeInv /\ TempInv /\ MadeInv /\ StartedInv /\ ChildInv)'
    BY <1>1, <1>2, <2>2 DEF RunsInv, ModeInv, TempInv, MadeInv, StartedInv, ChildInv, Waited
  <2>4. SourceInv'
    <3> SUFFICES ASSUME Bl(job.infile), NoO(job.options)
                 PROVE  context'.outfile # job.infile /\ files[job.infile] = Content("source", TRUE)
      BY <1>1, <1>2 DEF SourceInv
    <3>1. context.outfile = NoFile /\ files[job.infile] = Content("source", TRUE)
      BY <1>1 DEF SourceInv
    <3>2. context'.outfile = name
      BY <1>2, <3>1 DEF TypeOK, name
    <3> QED
      BY <2>1, <3>1, <3>2 DEF Bl
  <2> QED
    BY <1>1, <2>2, <2>3, <2>4
<1>3. CASE fatal_error /\ UNCHANGED context
  <2> USE <1>1, <1>3 DEF fatal_error, End
  <2>1. TypeOK'
    BY DEF TypeOK
  <2>2. (RunsInv /\ ModeInv /\ TempInv /\ MadeInv /\ StartedInv /\ ChildInv)'
    BY DEF RunsInv, ModeInv, TempInv, MadeInv, StartedInv, ChildInv, Waited
  <2>3. SourceInv'
    BY DEF SourceInv
  <2> QED
    BY <2>1, <2>2, <2>3
<1> QED
  BY <1>2, <1>3 DEF main, Then

(* The child that is not there has its type.                               *)
LEMMA NoChildType == NoChild \in Process
  BY DEF NoChild, Process, Absent, Content, Contents

(* Any step that only ends the driver with a failure keeps the invariant,  *)
(* if it leaves no child that it should have waited for.                   *)
LEMMA FailStep ==
  ASSUME IInv, child' \in [Tools -> Process], \A t \in Tools : child'[t] \in {child[t], NoChild},
         Waited' => \A t \in Tools : child'[t] = NoChild,
         status' \in {"failure", "crashed"}, pc' = "end", UNCHANGED <<job, options, context, files>>
  PROVE  IInv'
<1> USE DEF IInv
<1>1. TypeOK'
  BY DEF TypeOK
<1>2. (RunsInv /\ ModeInv /\ TempInv /\ MadeInv)'
  BY DEF RunsInv, ModeInv, TempInv, MadeInv
<1>3. (StartedInv /\ ChildInv)'
  <2>1. /\ "as" \in Tools /\ "ld" \in Tools /\ NoChild.state = "none" /\ AsOut' = AsOut
    BY DEF Tools, NoChild, AsOut
  <2>2. /\ child["as"].state # "none" => child["as"].in = TmpAsm /\ child["as"].out = AsOut
        /\ child["ld"].state # "none" => child["ld"].in = TmpObj /\ child["ld"].out = context.outfile
        /\ \A t \in Tools : child[t].state # "none" =>
             context.outfile \in File /\ context.mode \in {"GEN_OBJ", "GEN_LINK_EXEC"}
        /\ child["ld"].state # "none" => context.mode = "GEN_LINK_EXEC"
    BY DEF StartedInv, Tools
  <2>3. \A t \in Tools : child'[t].state # "none" => child'[t] = child[t]
    BY <2>1
  <2> QED BY <2>1, <2>2, <2>3 DEF StartedInv, ChildInv
<1>4. SourceInv'
  BY DEF SourceInv
<1> QED
  BY <1>1, <1>2, <1>3, <1>4

(* While the driver waits for nobody it has no child, if it has waited.    *)
LEMMA FailAt ==
  ASSUME IInv, pc \notin {"wait_as", "wait_ld"}, UNCHANGED child, faults \subseteq faults',
         status' \in {"failure", "crashed"}, pc' = "end", UNCHANGED <<job, options, context, files>>
  PROVE  IInv'
<1>1. child' \in [Tools -> Process] /\ \A t \in Tools : child'[t] \in {child[t], NoChild}
  BY DEF IInv, TypeOK
<1>2. Waited' => \A t \in Tools : child'[t] = NoChild
  BY DEF IInv, ChildInv, Waited, Tools
<1> QED
  BY <1>1, <1>2, FailStep

LEMMA ReadStep == IInv /\ ReadSource => IInv'
<1> SUFFICES ASSUME IInv, ReadSource PROVE IInv'
  OBVIOUS
<1> USE DEF IInv
<1>1. /\ status = "running" /\ pc = "read"
      /\ UNCHANGED <<job, child, options, context, asm, freed, files>>
  BY DEF ReadSource, At, Idle
<1>2. CASE pc' = "compile" /\ UNCHANGED <<status, faults>>
  <2>1. TypeOK'
    BY <1>1, <1>2 DEF TypeOK
  <2>2. (RunsInv /\ ModeInv /\ TempInv /\ MadeInv /\ StartedInv /\ ChildInv)'
    BY <1>1, <1>2 DEF RunsInv, ModeInv, TempInv, MadeInv, StartedInv, ChildInv, Waited
  <2>3. SourceInv'
    BY <1>1, <1>2 DEF SourceInv
  <2> QED
    BY <1>1, <2>1, <2>2, <2>3
<1>3. CASE fatal_error
  <2>1. faults \subseteq faults'
    BY DEF ReadSource, NoFault, Fault
  <2> QED
    BY <1>1, <1>3, <2>1, FailAt DEF fatal_error, End
<1> QED
  BY <1>2, <1>3 DEF ReadSource, Then, NoFault

LEMMA compileStep == IInv /\ compile => IInv'
<1> SUFFICES ASSUME IInv, compile PROVE IInv'
  OBVIOUS
<1> USE DEF IInv
<1>1. /\ status = "running" /\ pc = "compile"
      /\ UNCHANGED <<job, child, faults, options, context, freed, files>>
  BY DEF compile, At, Idle, NoFault
<1>2. CASE pc' = First /\ UNCHANGED status
  <2>1. context.mode \in Mode
    BY DEF TypeOK
  <2>2. TypeOK'
    BY <1>1, <1>2, <2>1, FirstIs DEF TypeOK, Mode
  <2>3. (RunsInv /\ ModeInv)'
    BY <1>1, <1>2, <2>1, FirstIs DEF RunsInv, ModeInv, Mode
  <2>4. (TempInv /\ MadeInv /\ StartedInv /\ ChildInv)'
    BY <1>1, <1>2, <2>1, FirstIs DEF TempInv, MadeInv, StartedInv, ChildInv, Waited, Mode
  <2>5. SourceInv'
    BY <1>1, <1>2, <2>1, FirstIs DEF SourceInv, Mode
  <2> QED
    BY <1>1, <2>2, <2>3, <2>4, <2>5
<1>3. CASE fatal_error
  BY <1>1, <1>3, FailAt DEF fatal_error, End
<1> QED
  BY <1>2, <1>3 DEF compile, Then

-----------------------------------------------------------------------------
(* What a step that writes one file may leave alone.                       *)
LEMMA WriteFile ==
  ASSUME TypeOK, NEW f \in Name, NEW c \in Contents, files' = [files EXCEPT ![f] = c]
  PROVE  /\ files' \in [Name -> Contents]
         /\ files'[f] = c
         /\ \A g \in Name : g # f => files'[g] = files[g]
  BY DEF TypeOK

(* The source survives a step that writes another file.                    *)
LEMMA SourceStep ==
  ASSUME IInv, NEW f \in {context.outfile, TmpAsm, TmpObj, Stdout}, NEW c,
         files' = [files EXCEPT ![f] = c], UNCHANGED <<job, context>>, pc # "options", pc' # "options"
  PROVE  SourceInv'
<1> SUFFICES ASSUME Bl(job.infile), NoO(job.options)
             PROVE  context.outfile # job.infile /\ files'[job.infile] = Content("source", TRUE)
  BY DEF SourceInv
<1>1. job.infile \in File /\ job.infile # f /\ job.infile \in Name
  BY NamesDiffer DEF IInv, TypeOK, Bl, SourceInv
<1> QED
  BY <1>1 DEF IInv, TypeOK, SourceInv

LEMMA OpenOutputStep == IInv /\ OpenOutput => IInv'
<1> SUFFICES ASSUME IInv, OpenOutput PROVE IInv'
  OBVIOUS
<1> USE DEF IInv
<1>1. /\ status = "running" /\ pc = "open"
      /\ UNCHANGED <<job, child, options, context>>
  BY DEF OpenOutput, Open, At, Idle
<1>2. context.outfile \in File /\ context.outfile \in Name /\ context.mode = "GEN_ASM"
  BY <1>1, NamesDiffer DEF ModeInv
<1>3. CASE /\ files' = [files EXCEPT ![context.outfile] = Content("empty", TRUE)]
           /\ pc' = "write" /\ UNCHANGED <<status, faults>>
  <2>1. Content("empty", TRUE) \in Contents
    BY DEF Content, Contents
  <2>2. /\ files' \in [Name -> Contents]
        /\ files'[TmpAsm] = files[TmpAsm] /\ files'[TmpObj] = files[TmpObj]
    BY <1>2, <1>3, <2>1, WriteFile, NamesDiffer
  <2>3. TypeOK'
    BY <1>1, <1>3, <2>2 DEF TypeOK
  <2>4. (RunsInv /\ ModeInv /\ TempInv /\ MadeInv /\ StartedInv /\ ChildInv)'
    BY <1>1, <1>2, <1>3, <2>2 DEF RunsInv, ModeInv, TempInv, MadeInv, StartedInv, ChildInv, Waited, Absent
  <2>5. SourceInv'
    BY <1>1, <1>3, SourceStep
  <2> QED
    BY <1>1, <2>3, <2>4, <2>5
<1>4. CASE End("crashed") /\ UNCHANGED files /\ faults \subseteq faults'
  BY <1>1, <1>4, FailAt DEF End
<1> QED
  BY <1>3, <1>4 DEF OpenOutput, Open, Then, NoFault, Fault

LEMMA mkstemp_asmStep == IInv /\ mkstemp_asm => IInv'
<1> SUFFICES ASSUME IInv, mkstemp_asm PROVE IInv'
  OBVIOUS
<1> USE DEF IInv
<1>1. /\ status = "running" /\ pc = "mkstemp_asm"
      /\ UNCHANGED <<job, child, options, context>>
  BY DEF mkstemp_asm, Open, At, Idle
<1>2. context.mode \in {"GEN_OBJ", "GEN_LINK_EXEC"} /\ context.outfile \in File
  BY <1>1 DEF ModeInv
<1>3. CASE /\ files' = [files EXCEPT ![TmpAsm] = Content("empty", TRUE)]
           /\ pc' = "write" /\ UNCHANGED <<status, faults>>
  <2>1. Content("empty", TRUE) \in Contents
    BY DEF Content, Contents
  <2>2. files' \in [Name -> Contents] /\ files'[TmpObj] = files[TmpObj]
    BY <1>3, <2>1, WriteFile, NamesDiffer
  <2>3. TypeOK'
    BY <1>1, <1>3, <2>2 DEF TypeOK
  <2>4. (RunsInv /\ ModeInv /\ TempInv /\ MadeInv /\ StartedInv /\ ChildInv)'
    BY <1>1, <1>2, <1>3, <2>2 DEF RunsInv, ModeInv, TempInv, MadeInv, StartedInv, ChildInv, Waited, Absent
  <2>5. SourceInv'
    BY <1>1, <1>3, SourceStep
  <2> QED
    BY <1>1, <2>3, <2>4, <2>5
<1>4. CASE End("crashed") /\ UNCHANGED files /\ faults \subseteq faults'
  BY <1>1, <1>4, FailAt DEF End
<1> QED
  BY <1>3, <1>4 DEF mkstemp_asm, Open, Then, NoFault, Fault

LEMMA mkstemp_objStep == IInv /\ mkstemp_obj => IInv'
<1> SUFFICES ASSUME IInv, mkstemp_obj PROVE IInv'
  OBVIOUS
<1> USE DEF IInv
<1>1. /\ status = "running" /\ pc = "mkstemp_obj" /\ pc' = "mkstemp_asm"
      /\ UNCHANGED <<job, child, options, context, status>>
      /\ faults' \in {faults, faults \cup {"mkstemp_obj"}}
  BY DEF mkstemp_obj, At, Idle, Then, NoFault, Fault
<1>2. context.mode = "GEN_LINK_EXEC" /\ context.outfile \in File
  BY <1>1 DEF ModeInv
<1>3. files' \in [Name -> Contents] /\ files'[TmpAsm] = files[TmpAsm] /\ SourceInv'
  <2>1. CASE files' = [files EXCEPT ![TmpObj] = Content("empty", TRUE)]
    <3>1. Content("empty", TRUE) \in Contents
      BY DEF Content, Contents
    <3>2. SourceInv'
      BY <1>1, <2>1, SourceStep
    <3> QED
      BY <2>1, <3>1, <3>2, WriteFile, NamesDiffer
  <2>2. CASE UNCHANGED files
    BY <1>1, <2>2 DEF SourceInv, TypeOK
  <2> QED
    BY <2>1, <2>2 DEF mkstemp_obj
<1>4. TypeOK'
  BY <1>1, <1>3 DEF TypeOK
<1>5. (RunsInv /\ ModeInv /\ TempInv /\ MadeInv /\ StartedInv /\ ChildInv)'
  BY <1>1, <1>2, <1>3 DEF RunsInv, ModeInv, TempInv, MadeInv, StartedInv, ChildInv, Waited, Absent
<1> QED
  BY <1>1, <1>3, <1>4, <1>5

LEMMA WriteStep == IInv /\ blazec_write_assembly => IInv'
<1> SUFFICES ASSUME IInv, blazec_write_assembly PROVE IInv'
  OBVIOUS
<1> USE DEF IInv
<1>1. /\ status = "running" /\ pc = "write"
      /\ pc' = IF Dest = TmpAsm THEN "fork_as" ELSE "free"
      /\ UNCHANGED <<job, child, options, context, status>>
      /\ faults' \in {faults, faults \cup {"write"}}
  BY DEF blazec_write_assembly, At, Idle, Then, NoFault, Fault
<1>2. context.outfile \in File /\ context.mode \in Mode
  BY <1>1 DEF ModeInv, TypeOK
<1>3. Dest \in {context.outfile, TmpAsm, Stdout} /\ Dest \in Name
  BY <1>2, DestIs, NamesDiffer DEF Mode
<1>4. PICK w \in BOOLEAN : /\ files' = [files EXCEPT ![Dest] = Content("asm", w)]
                           /\ ("write" \notin faults' => w = TRUE)
  BY DEF blazec_write_assembly, Fault
<1>5. Content("asm", w) \in Contents
  BY DEF Content, Contents
<1>6. /\ files' \in [Name -> Contents]
      /\ files'[Dest] = Content("asm", w)
      /\ \A g \in Name : g # Dest => files'[g] = files[g]
  BY <1>3, <1>4, <1>5, WriteFile
<1>7. Good(Dest, "asm")'
  BY <1>1, <1>4, <1>6, DestIs DEF Good, Content, Dest
<1>8. TypeOK'
  BY <1>1, <1>6 DEF TypeOK
<1>9. SourceInv'
  BY <1>1, <1>3, <1>4, SourceStep
<1>10. CASE context.mode \in {"GEN_OBJ", "GEN_LINK_EXEC"}
  <2>1. Dest = TmpAsm /\ Dest' = TmpAsm /\ pc' = "fork_as"
    BY <1>1, <1>10, DestIs DEF Dest
  <2>2. Good(TmpAsm, "asm")'
    BY <1>7, <2>1 DEF Good
  <2> QED
    BY <1>1, <1>2, <1>6, <1>8, <1>9, <1>10, <2>1, <2>2, NamesDiffer
       DEF RunsInv, ModeInv, TempInv, MadeInv, StartedInv, ChildInv, Waited, Absent
<1>11. CASE context.mode \in {"GEN_ASM", "GEN_ASM_STDOUT"}
  <2>1. Dest = Target /\ Dest # TmpAsm /\ Dest # TmpObj /\ pc' = "free" /\ Wanted = "asm"
    BY <1>1, <1>2, <1>11, DestIs, WantedIs, NamesDiffer DEF Target
  <2>2. Wanted' = "asm" /\ Target' = Target
    BY <1>1, <1>11, <2>1 DEF Wanted, Target
  <2>3. Good(Target, Wanted)'
    BY <1>4, <1>6, <2>1, <2>2 DEF Good, Content
  <2>4. files'[TmpAsm] = Absent /\ files'[TmpObj] = Absent
    BY <1>1, <1>6, <1>11, <2>1, NamesDiffer DEF TempInv
  <2> QED
    BY <1>1, <1>2, <1>8, <1>9, <1>11, <2>1, <2>3, <2>4
       DEF RunsInv, ModeInv, TempInv, MadeInv, StartedInv, ChildInv, Waited, Absent
<1> QED
  BY <1>2, <1>10, <1>11 DEF Mode

-----------------------------------------------------------------------------
(* The child that fork makes has its type.                                 *)
LEMMA ChildType ==
  ASSUME NEW in \in Name, NEW out \in Name
  PROVE  Child(in, out) \in Process
  BY DEF Child, Process, Contents, Absent, Content

(* What a step does to the one process that it is about.                   *)
LEMMA OneChild ==
  ASSUME TypeOK, NEW t \in Tools, NEW c \in Process, child' = [child EXCEPT ![t] = c]
  PROVE  /\ child' \in [Tools -> Process]
         /\ child'[t] = c
         /\ \A u \in Tools : u # t => child'[u] = child[u]
  BY DEF TypeOK

LEMMA fork_asStep == IInv /\ fork_as => IInv'
<1> SUFFICES ASSUME IInv, fork_as PROVE IInv'
  OBVIOUS
<1> USE DEF IInv
<1>1. /\ status = "running" /\ pc = "fork_as"
      /\ UNCHANGED <<job, options, context, asm, freed, files>>
  BY DEF fork_as, fork, At
<1>2. context.mode \in {"GEN_OBJ", "GEN_LINK_EXEC"} /\ context.outfile \in File
  BY <1>1 DEF ModeInv
<1>3. CASE child' = [child EXCEPT !["as"] = Child(TmpAsm, AsOut)] /\ pc' = "wait_as"
           /\ UNCHANGED <<status, faults>>
  <2>1. AsOut \in Name /\ AsOut' = AsOut
    BY <1>1, <1>2, NamesDiffer DEF AsOut
  <2>2. Child(TmpAsm, AsOut) \in Process
    BY <2>1, ChildType, NamesDiffer
  <2>3. /\ child' \in [Tools -> Process]
        /\ child'["as"] = Child(TmpAsm, AsOut) /\ child'["ld"] = child["ld"]
    BY <1>3, <2>2, OneChild DEF Tools
  <2>4. TypeOK'
    BY <1>1, <1>3, <2>3 DEF TypeOK
  <2>5. (StartedInv /\ ChildInv)'
    BY <1>1, <1>2, <1>3, <2>1, <2>3 DEF StartedInv, ChildInv, ChildOf, Child, Waited
  <2>6. (RunsInv /\ ModeInv /\ TempInv)'
    BY <1>1, <1>2, <1>3 DEF RunsInv, ModeInv, TempInv
  <2>7. (MadeInv /\ SourceInv)'
    BY <1>1, <1>3 DEF MadeInv, SourceInv, Good
  <2> QED
    BY <1>1, <2>4, <2>5, <2>6, <2>7
<1>4. CASE UNCHANGED child /\ fatal_error /\ faults \subseteq faults'
  BY <1>1, <1>4, FailAt DEF fatal_error, End
<1> QED
  BY <1>3, <1>4 DEF fork_as, fork, Then, NoFault, Fault, AsOut

LEMMA fork_ldStep == IInv /\ fork_ld => IInv'
<1> SUFFICES ASSUME IInv, fork_ld PROVE IInv'
  OBVIOUS
<1> USE DEF IInv
<1>1. /\ status = "running" /\ pc = "fork_ld"
      /\ UNCHANGED <<job, options, context, asm, freed, files>>
  BY DEF fork_ld, fork, At
<1>2. context.mode = "GEN_LINK_EXEC" /\ context.outfile \in File
  BY <1>1 DEF ModeInv
<1>3. CASE child' = [child EXCEPT !["ld"] = Child(TmpObj, context.outfile)] /\ pc' = "wait_ld"
           /\ UNCHANGED <<status, faults>>
  <2>1. Child(TmpObj, context.outfile) \in Process
    BY <1>2, ChildType, NamesDiffer
  <2>2. /\ child' \in [Tools -> Process]
        /\ child'["ld"] = Child(TmpObj, context.outfile) /\ child'["as"] = child["as"]
    BY <1>3, <2>1, OneChild DEF Tools
  <2>3. TypeOK'
    BY <1>1, <1>3, <2>2 DEF TypeOK
  <2>4. AsOut' = AsOut
    BY <1>1 DEF AsOut
  <2>5. (StartedInv /\ ChildInv)'
    BY <1>1, <1>2, <1>3, <2>2, <2>4 DEF StartedInv, ChildInv, ChildOf, Child, Waited
  <2>6. (RunsInv /\ ModeInv /\ TempInv)'
    BY <1>1, <1>2, <1>3 DEF RunsInv, ModeInv, TempInv
  <2>7. (MadeInv /\ SourceInv)'
    BY <1>1, <1>3 DEF MadeInv, SourceInv, Good, Waited
  <2> QED
    BY <1>1, <2>3, <2>5, <2>6, <2>7
<1>4. CASE UNCHANGED child /\ fatal_error /\ faults \subseteq faults'
  BY <1>1, <1>4, FailAt DEF fatal_error, End
<1> QED
  BY <1>3, <1>4 DEF fork_ld, fork, Then, NoFault, Fault

(* What wait gives: the status of a child, or of nobody.                   *)
LEMMA WaitGives ==
  ASSUME IInv, NEW p, NEW next, wait(p, next)
  PROVE  /\ status = "running" /\ pc = p /\ UNCHANGED <<job, options, context, asm, freed, files>>
         /\ \/ pc' = next /\ UNCHANGED status
            \/ fatal_error
         /\ child' \in [Tools -> Process] /\ \A t \in Tools : child'[t] \in {child[t], NoChild}
         /\ \/ "wait" \in faults' /\ faults' = faults \cup {"wait"}
            \/ /\ UNCHANGED faults
               /\ \E t \in Tools : /\ child[t].state = "exited" /\ child'[t] = NoChild
                                   /\ \A u \in Tools : u # t => child'[u] = child[u]
                                   /\ ~fatal_error => child[t].code = 0
<1>1. PICK code \in {0, 1} :
        /\ \/ \E t \in Tools : /\ child[t].state = "exited" /\ child[t].code = code
                               /\ child' = [child EXCEPT ![t] = NoChild]
                               /\ NoFault
           \/ UNCHANGED child /\ Fault("wait")
        /\ \/ code = 0 /\ Then(next)
           \/ code # 0 /\ fatal_error
  BY DEF wait
<1>2. /\ status = "running" /\ pc = p /\ UNCHANGED <<job, options, context, asm, freed, files>>
  BY DEF wait, At
<1>3. (pc' = next /\ UNCHANGED status) \/ fatal_error
  BY <1>1 DEF Then
<1>4. CASE UNCHANGED child /\ Fault("wait")
  BY <1>2, <1>3, <1>4 DEF Fault, IInv, TypeOK
<1>5. ASSUME NEW t \in Tools, child[t].state = "exited", child[t].code = code,
             child' = [child EXCEPT ![t] = NoChild], NoFault
      PROVE  /\ child' \in [Tools -> Process] /\ \A u \in Tools : child'[u] \in {child[u], NoChild}
             /\ UNCHANGED faults
             /\ child'[t] = NoChild /\ \A u \in Tools : u # t => child'[u] = child[u]
             /\ ~fatal_error => child[t].code = 0
  <2>1. /\ child' \in [Tools -> Process] /\ child'[t] = NoChild
        /\ \A u \in Tools : u # t => child'[u] = child[u]
    BY <1>5, NoChildType, OneChild DEF IInv
  <2> QED
    BY <1>1, <1>5, <2>1 DEF NoFault
<1> QED
  BY <1>1, <1>2, <1>3, <1>4, <1>5

LEMMA wait_asStep == IInv /\ wait_as => IInv'
<1> SUFFICES ASSUME IInv, wait_as PROVE IInv'
  OBVIOUS
<1> USE DEF IInv
<1>1. wait("wait_as", "unlink_asm")
  BY DEF wait_as
<1>2. /\ status = "running" /\ pc = "wait_as" /\ UNCHANGED <<job, options, context, asm, freed, files>>
      /\ child' \in [Tools -> Process] /\ \A t \in Tools : child'[t] \in {child[t], NoChild}
      /\ faults' \in {faults, faults \cup {"wait"}}
  BY <1>1, WaitGives
<1>3. "as" \in Tools /\ "ld" \in Tools /\ NoChild.state = "none" /\ AsOut' = AsOut
  BY <1>2 DEF Tools, NoChild, AsOut
<1>4. ASSUME Waited'
      PROVE  /\ Waited /\ UNCHANGED faults /\ child["as"].state = "exited"
             /\ child'["as"] = NoChild /\ child'["ld"] = NoChild
             /\ ~fatal_error => child["as"].code = 0
  <2>1. Waited /\ UNCHANGED faults
    BY <1>2, <1>4 DEF Waited
  <2>2. child["ld"] = NoChild
    BY <1>2, <2>1 DEF ChildInv
  <2>3. PICK t \in Tools : /\ child[t].state = "exited" /\ child'[t] = NoChild
                           /\ \A u \in Tools : u # t => child'[u] = child[u]
                           /\ ~fatal_error => child[t].code = 0
    BY <1>1, <1>4, WaitGives DEF Waited
  <2>4. t = "as"
    BY <1>3, <2>2, <2>3 DEF Tools
  <2> QED
    BY <1>3, <2>1, <2>2, <2>3, <2>4
<1>5. CASE pc' = "unlink_asm" /\ UNCHANGED status
  <2>1. ~fatal_error
    BY <1>2, <1>5 DEF fatal_error, End
  <2>2. TypeOK'
    BY <1>2, <1>5 DEF TypeOK
  <2>3. Waited' => Waited /\ Good(AsOut, "obj") /\ UNCHANGED faults
    <3> SUFFICES ASSUME Waited' PROVE Waited /\ Good(AsOut, "obj") /\ UNCHANGED faults
      OBVIOUS
    <3>1. Waited /\ ChildOf("as", TmpAsm, AsOut, "obj")
      BY <1>2, <1>4 DEF ChildInv
    <3> QED
      BY <1>4, <2>1, <3>1 DEF ChildOf
  <2>4. MadeInv'
    <3>1. Good(TmpAsm, "asm")'
      BY <1>2 DEF MadeInv, Good
    <3>2. Waited' => Good(AsOut, "obj")'
      BY <1>2, <1>3, <2>3 DEF Good
    <3> QED
      BY <1>5, <1>2, <3>1, <3>2 DEF MadeInv, RunsInv
  <2>5. (RunsInv /\ ModeInv /\ TempInv /\ SourceInv)'
    BY <1>2, <1>5 DEF RunsInv, ModeInv, TempInv, SourceInv
  <2>6. (StartedInv /\ ChildInv)'
    BY <1>2, <1>3, <1>4, <1>5 DEF StartedInv, ChildInv
  <2> QED
    BY <1>2, <2>2, <2>4, <2>5, <2>6
<1>6. CASE fatal_error
  <2>1. Waited' => \A t \in Tools : child'[t] = NoChild
    BY <1>4 DEF Tools
  <2> QED
    BY <1>2, <1>6, <2>1, FailStep DEF fatal_error, End
<1> QED
  BY <1>1, <1>5, <1>6, WaitGives

LEMMA wait_ldStep == IInv /\ wait_ld => IInv'
<1> SUFFICES ASSUME IInv, wait_ld PROVE IInv'
  OBVIOUS
<1> USE DEF IInv
<1>1. wait("wait_ld", "unlink_obj")
  BY DEF wait_ld
<1>2. /\ status = "running" /\ pc = "wait_ld" /\ UNCHANGED <<job, options, context, asm, freed, files>>
      /\ child' \in [Tools -> Process] /\ \A t \in Tools : child'[t] \in {child[t], NoChild}
      /\ faults' \in {faults, faults \cup {"wait"}}
  BY <1>1, WaitGives
<1>3. "as" \in Tools /\ "ld" \in Tools /\ NoChild.state = "none" /\ AsOut' = AsOut
  BY <1>2 DEF Tools, NoChild, AsOut
<1>4. ASSUME Waited'
      PROVE  /\ Waited /\ UNCHANGED faults /\ child["ld"].state = "exited"
             /\ child'["as"] = NoChild /\ child'["ld"] = NoChild
             /\ ~fatal_error => child["ld"].code = 0
  <2>1. Waited /\ UNCHANGED faults
    BY <1>2, <1>4 DEF Waited
  <2>2. child["as"] = NoChild
    BY <1>2, <2>1 DEF ChildInv
  <2>3. PICK t \in Tools : /\ child[t].state = "exited" /\ child'[t] = NoChild
                           /\ \A u \in Tools : u # t => child'[u] = child[u]
                           /\ ~fatal_error => child[t].code = 0
    BY <1>1, <1>4, WaitGives DEF Waited
  <2>4. t = "ld"
    BY <1>3, <2>2, <2>3 DEF Tools
  <2> QED
    BY <1>3, <2>1, <2>2, <2>3, <2>4
<1>5. CASE pc' = "unlink_obj" /\ UNCHANGED status
  <2>1. ~fatal_error
    BY <1>2, <1>5 DEF fatal_error, End
  <2>2. TypeOK'
    BY <1>2, <1>5 DEF TypeOK
  <2>3. Waited' => Waited /\ Good(context.outfile, "exe") /\ Good(TmpObj, "obj") /\ UNCHANGED faults
    <3> SUFFICES ASSUME Waited'
                 PROVE  Waited /\ Good(context.outfile, "exe") /\ Good(TmpObj, "obj") /\ UNCHANGED faults
      OBVIOUS
    <3>1. Waited /\ ChildOf("ld", TmpObj, context.outfile, "exe") /\ Good(TmpObj, "obj")
      BY <1>2, <1>4 DEF ChildInv, MadeInv
    <3> QED
      BY <1>4, <2>1, <3>1 DEF ChildOf
  <2>4. MadeInv'
    <3>1. Waited' => (Good(context.outfile, "exe") /\ Good(TmpObj, "obj"))'
      BY <1>2, <2>3 DEF Good
    <3> QED
      BY <1>5, <1>2, <3>1 DEF MadeInv
  <2>5. (RunsInv /\ ModeInv /\ TempInv /\ SourceInv)'
    BY <1>2, <1>5 DEF RunsInv, ModeInv, TempInv, SourceInv
  <2>6. (StartedInv /\ ChildInv)'
    BY <1>2, <1>3, <1>4, <1>5 DEF StartedInv, ChildInv
  <2> QED
    BY <1>2, <2>2, <2>4, <2>5, <2>6
<1>6. CASE fatal_error
  <2>1. Waited' => \A t \in Tools : child'[t] = NoChild
    BY <1>4 DEF Tools
  <2> QED
    BY <1>2, <1>6, <2>1, FailStep DEF fatal_error, End
<1> QED
  BY <1>1, <1>5, <1>6, WaitGives

(* unlink removes the file, or leaves everything as it is.                 *)
LEMMA UnlinkGives ==
  ASSUME IInv, NEW p, NEW f \in {TmpAsm, TmpObj}, NEW next, unlink(p, f, next)
  PROVE  /\ status = "running" /\ pc = p /\ pc' = next
         /\ UNCHANGED <<job, options, context, child, status>>
         /\ files' \in [Name -> Contents] /\ \A g \in Name : g # f => files'[g] = files[g]
         /\ \/ UNCHANGED faults /\ files'[f] = Absent /\ files' = [files EXCEPT ![f] = Absent]
            \/ faults' = faults \cup {p} /\ UNCHANGED files
<1>1. Absent \in Contents /\ f \in Name
  BY NamesDiffer DEF Absent, Content, Contents
<1>2. CASE files' = [files EXCEPT ![f] = Absent] /\ NoFault
  <2>1. /\ files' \in [Name -> Contents] /\ files'[f] = Absent
        /\ \A g \in Name : g # f => files'[g] = files[g]
    BY <1>1, <1>2, WriteFile DEF IInv
  <2> QED
    BY <1>2, <2>1 DEF unlink, At, Then, Idle, NoFault
<1>3. CASE UNCHANGED files /\ Fault(p)
  BY <1>3 DEF unlink, At, Then, Idle, Fault, IInv, TypeOK
<1> QED
  BY <1>2, <1>3 DEF unlink

LEMMA unlink_asmStep == IInv /\ unlink_asm => IInv'
<1> SUFFICES ASSUME IInv, unlink_asm PROVE IInv'
  OBVIOUS
<1> USE DEF IInv
<1>1. /\ status = "running" /\ pc = "unlink_asm"
      /\ pc' = IF context.mode = "GEN_OBJ" THEN "free" ELSE "fork_ld"
      /\ UNCHANGED <<job, options, context, child, status>>
      /\ files' \in [Name -> Contents] /\ \A g \in Name : g # TmpAsm => files'[g] = files[g]
      /\ \/ UNCHANGED faults /\ files'[TmpAsm] = Absent /\ files' = [files EXCEPT ![TmpAsm] = Absent]
         \/ faults' = faults \cup {"unlink_asm"} /\ UNCHANGED files
  BY UnlinkGives DEF unlink_asm
<1>2. context.mode \in {"GEN_OBJ", "GEN_LINK_EXEC"} /\ context.outfile \in File
  BY <1>1 DEF ModeInv
<1>3. "write" \notin faults' <=> "write" \notin faults
  BY <1>1
<1>4. Waited' <=> Waited
  BY <1>1 DEF Waited
<1>5. TypeOK'
  BY <1>1, <1>2 DEF TypeOK
<1>6. SourceInv'
  <2>1. CASE files' = [files EXCEPT ![TmpAsm] = Absent]
    BY <1>1, <1>2, <2>1, SourceStep
  <2>2. CASE UNCHANGED files
    BY <1>1, <2>2 DEF SourceInv
  <2> QED
    BY <1>1, <2>1, <2>2
<1>7. AsOut \in Name /\ AsOut # TmpAsm /\ files'[AsOut] = files[AsOut] /\ AsOut' = AsOut
  BY <1>1, <1>2, NamesDiffer DEF AsOut
<1>8. MadeInv'
  <2>1. Waited' => Good(AsOut, "obj")
    BY <1>1, <1>4 DEF MadeInv
  <2>2. CASE context.mode = "GEN_OBJ"
    <3>1. Target' = AsOut /\ Wanted' = "obj"
      BY <1>1, <2>2 DEF Target, AsOut, Wanted
    <3> QED
      BY <1>1, <1>3, <1>7, <2>1, <2>2, <3>1 DEF MadeInv, Good
  <2>3. CASE context.mode = "GEN_LINK_EXEC"
    <3>1. AsOut = TmpObj
      BY <2>3 DEF AsOut
    <3> QED
      BY <1>1, <1>3, <1>7, <2>1, <2>3, <3>1 DEF MadeInv, Good
  <2> QED
    BY <1>2, <2>2, <2>3
<1>9. TempInv'
  <2>1. files[TmpAsm] # Absent
    BY <1>1 DEF MadeInv, Good, Absent, Content
  <2>2. files'[TmpObj] = files[TmpObj]
    BY <1>1, NamesDiffer
  <2>3. files'[TmpAsm] = Absent <=> "unlink_asm" \notin faults'
    BY <1>1, <2>1 DEF TempInv
  <2> QED
    BY <1>1, <1>2, <2>2, <2>3 DEF TempInv
<1>10. (RunsInv /\ ModeInv)'
  BY <1>1, <1>2 DEF RunsInv, ModeInv
<1>11. (StartedInv /\ ChildInv)'
  BY <1>1, <1>2, <1>4, <1>7 DEF StartedInv, ChildInv
<1> QED
  BY <1>1, <1>5, <1>6, <1>8, <1>9, <1>10, <1>11

LEMMA unlink_objStep == IInv /\ unlink_obj => IInv'
<1> SUFFICES ASSUME IInv, unlink_obj PROVE IInv'
  OBVIOUS
<1> USE DEF IInv
<1>1. /\ status = "running" /\ pc = "unlink_obj" /\ pc' = "free"
      /\ UNCHANGED <<job, options, context, child, status>>
      /\ files' \in [Name -> Contents] /\ \A g \in Name : g # TmpObj => files'[g] = files[g]
      /\ \/ UNCHANGED faults /\ files'[TmpObj] = Absent /\ files' = [files EXCEPT ![TmpObj] = Absent]
         \/ faults' = faults \cup {"unlink_obj"} /\ UNCHANGED files
  BY UnlinkGives DEF unlink_obj
<1>2. context.mode = "GEN_LINK_EXEC" /\ context.outfile \in File
  BY <1>1 DEF ModeInv
<1>3. "write" \notin faults' <=> "write" \notin faults
  BY <1>1
<1>4. Waited' <=> Waited
  BY <1>1 DEF Waited
<1>5. TypeOK'
  BY <1>1 DEF TypeOK
<1>6. SourceInv'
  <2>1. CASE files' = [files EXCEPT ![TmpObj] = Absent]
    BY <1>1, <2>1, SourceStep
  <2>2. CASE UNCHANGED files
    BY <1>1, <2>2 DEF SourceInv
  <2> QED
    BY <1>1, <2>1, <2>2
<1>7. files'[context.outfile] = files[context.outfile] /\ files'[TmpAsm] = files[TmpAsm]
  BY <1>1, <1>2, NamesDiffer
<1>8. Target' = context.outfile /\ Wanted' = "exe"
  BY <1>1, <1>2 DEF Target, Wanted
<1>9. MadeInv'
  <2>1. Waited' => Good(context.outfile, "exe")
    BY <1>1, <1>4 DEF MadeInv
  <2> QED
    BY <1>1, <1>3, <1>7, <1>8, <2>1 DEF MadeInv, Good
<1>10. TempInv'
  <2>1. Waited => files[TmpObj] # Absent
    BY <1>1 DEF MadeInv, Good, Absent, Content
  <2>2. Waited' => (files'[TmpObj] = Absent <=> "unlink_obj" \notin faults')
    BY <1>1, <1>4, <2>1 DEF TempInv
  <2>3. files'[TmpAsm] = Absent <=> "unlink_asm" \notin faults'
    BY <1>1, <1>7 DEF TempInv
  <2> QED
    BY <1>1, <1>2, <2>2, <2>3 DEF TempInv
<1>11. (RunsInv /\ ModeInv)'
  BY <1>1, <1>2 DEF RunsInv, ModeInv
<1>12. (StartedInv /\ ChildInv)'
  <2>1. AsOut' = AsOut
    BY <1>1 DEF AsOut
  <2> QED
    BY <1>1, <1>2, <1>4, <2>1 DEF StartedInv, ChildInv
<1> QED
  BY <1>1, <1>5, <1>6, <1>9, <1>10, <1>11, <1>12

LEMMA DestroyStep == IInv /\ compilation_context_destroy => IInv'
<1> SUFFICES ASSUME IInv, compilation_context_destroy PROVE IInv'
  OBVIOUS
<1> USE DEF IInv
<1>1. /\ status = "running" /\ pc = "free" /\ status' = "success" /\ pc' = "end"
      /\ UNCHANGED <<job, options, context, child, faults, files>>
  BY DEF compilation_context_destroy, At, Idle, NoFault, End
<1>2. TypeOK'
  BY <1>1 DEF TypeOK
<1>3. Target' = Target /\ Wanted' = Wanted
  BY <1>1 DEF Target, Wanted
<1>4. MadeInv'
  BY <1>1, <1>3 DEF MadeInv, Good, Waited
<1>5. (RunsInv /\ ModeInv /\ TempInv /\ SourceInv)'
  BY <1>1 DEF RunsInv, ModeInv, TempInv, SourceInv, Waited
<1>6. (StartedInv /\ ChildInv)'
  BY <1>1 DEF StartedInv, ChildInv, Waited, AsOut
<1> QED
  BY <1>1, <1>2, <1>4, <1>5, <1>6

-----------------------------------------------------------------------------
(* Where a child is and what it may reach.                                 *)
Kind(t)  == IF t = "as" THEN "obj" ELSE "exe"
Waits(t) == IF t = "as" THEN "wait_as" ELSE "wait_ld"

LEMMA ToolAt ==
  ASSUME IInv, NEW t \in Tools, child[t].state # "none"
  PROVE  /\ pc \in {"wait_as", "unlink_asm", "fork_ld", "wait_ld", "unlink_obj", "free", "end"}
         /\ context.outfile \in File /\ context.mode \in {"GEN_OBJ", "GEN_LINK_EXEC"}
         /\ child[t].in = (IF t = "as" THEN TmpAsm ELSE TmpObj)
         /\ child[t].out = (IF t = "as" THEN AsOut ELSE context.outfile)
         /\ child[t].in \in Name /\ child[t].out \in {context.outfile, TmpObj} /\ child[t].out \in Name
         /\ child[t].in # child[t].out /\ child[t].out # TmpAsm
         /\ context.mode # "GEN_LINK_EXEC" => child[t].out # TmpObj
         /\ Waited => pc = Waits(t) /\ ChildOf(t, child[t].in, child[t].out, Kind(t))
<1> USE DEF IInv
<1>1. CASE t = "as"
  <2>1. /\ pc \in {"wait_as", "unlink_asm", "fork_ld", "wait_ld", "unlink_obj", "free", "end"}
        /\ context.outfile \in File /\ context.mode \in {"GEN_OBJ", "GEN_LINK_EXEC"}
        /\ child["as"].in = TmpAsm /\ child["as"].out = AsOut
    BY <1>1 DEF StartedInv
  <2>2. Waited => pc = "wait_as" /\ ChildOf("as", TmpAsm, AsOut, "obj")
    BY <1>1 DEF ChildInv, NoChild
  <2> QED
    BY <1>1, <2>1, <2>2, NamesDiffer DEF AsOut, Kind, Waits
<1>2. CASE t = "ld"
  <2>1. /\ pc \in {"wait_ld", "unlink_obj", "free", "end"}
        /\ context.outfile \in File /\ context.mode = "GEN_LINK_EXEC"
        /\ child["ld"].in = TmpObj /\ child["ld"].out = context.outfile
    BY <1>2 DEF StartedInv
  <2>2. Waited => pc = "wait_ld" /\ ChildOf("ld", TmpObj, context.outfile, "exe")
    BY <1>2 DEF ChildInv, NoChild
  <2> QED
    BY <1>2, <2>1, <2>2, NamesDiffer DEF Kind, Waits
<1> QED
  BY <1>1, <1>2 DEF Tools

(* What a step of a child has to respect.                                  *)
LEMMA ToolKeeps ==
  ASSUME IInv, NEW t \in Tools, child[t].state # "none", UNCHANGED <<job, options, context, pc, status>>,
         NEW c \in Process, child' = [child EXCEPT ![t] = c],
         c.in = child[t].in, c.out = child[t].out, c.state # "none",
         \/ UNCHANGED files
         \/ \E d \in Contents : files' = [files EXCEPT ![child[t].out] = d],
         faults' \in {faults, faults \cup {t}},
         Waited => /\ c.state \in {"reading", "writing"} => c.read = files[child[t].in]
                   /\ c.state = "writing" => files'[child[t].out] # Absent
                   /\ c.state = "exited" /\ c.code = 0 => Good(child[t].out, Kind(t))'
  PROVE  IInv'
<1> USE DEF IInv
<1>a. /\ pc \in {"wait_as", "unlink_asm", "fork_ld", "wait_ld", "unlink_obj", "free", "end"}
      /\ context.outfile \in File /\ context.mode \in {"GEN_OBJ", "GEN_LINK_EXEC"}
      /\ child[t].in \in Name /\ child[t].out \in {context.outfile, TmpObj} /\ child[t].out \in Name
      /\ child[t].in # child[t].out /\ child[t].out # TmpAsm
      /\ context.mode # "GEN_LINK_EXEC" => child[t].out # TmpObj
      /\ Waited => pc = Waits(t)
  BY ToolAt
<1>b. /\ child' \in [Tools -> Process] /\ child'[t] = c
      /\ \A u \in Tools : u # t => child'[u] = child[u]
  BY OneChild
<1>c. /\ "write" \notin faults' <=> "write" \notin faults
      /\ "unlink_asm" \notin faults' <=> "unlink_asm" \notin faults
      /\ "unlink_obj" \notin faults' <=> "unlink_obj" \notin faults
      /\ Waited' <=> Waited
  BY DEF Tools, Waited
<1>1. /\ files' \in [Name -> Contents]
      /\ \A g \in Name : g # child[t].out => files'[g] = files[g]
  <2>1. CASE UNCHANGED files
    BY <2>1 DEF TypeOK
  <2>2. ASSUME NEW d \in Contents, files' = [files EXCEPT ![child[t].out] = d]
        PROVE  <1>1
    BY <1>a, <2>2, WriteFile
  <2> QED
    BY <2>1, <2>2
<1>2. files'[child[t].in] = files[child[t].in] /\ files'[TmpAsm] = files[TmpAsm]
  BY <1>1, <1>a, NamesDiffer
<1>3. TypeOK'
  BY <1>1, <1>b DEF TypeOK
<1>4. SourceInv'
  <2>1. CASE UNCHANGED files
    BY <1>a, <2>1 DEF SourceInv
  <2>2. ASSUME NEW d \in Contents, files' = [files EXCEPT ![child[t].out] = d]
        PROVE  SourceInv'
    BY <1>a, <2>2, SourceStep
  <2> QED
    BY <2>1, <2>2
<1>5. AsOut' = AsOut
  BY DEF AsOut
<1>6. StartedInv'
  BY <1>5, <1>a, <1>b DEF StartedInv, Tools
<1>7. ChildInv'
  <2> SUFFICES ASSUME Waited' PROVE ChildInv'
    BY DEF ChildInv
  <2>1. Waited /\ pc = Waits(t)
    BY <1>a, <1>c
  <2>2. (ChildOf(t, child[t].in, child[t].out, Kind(t)))'
    BY <1>2, <1>b, <2>1 DEF ChildOf, Kind, Good
  <2>3. child'[t].in = child[t].in /\ child'[t].out = child[t].out
    BY <1>b
  <2>4. child[t].in = (IF t = "as" THEN TmpAsm ELSE TmpObj)
        /\ child[t].out = (IF t = "as" THEN AsOut ELSE context.outfile)
    BY ToolAt
  <2>5. CASE t = "as"
    <3>1. child'["ld"] = NoChild
      BY <1>b, <2>1, <2>5 DEF ChildInv, Waits, Tools
    <3> QED
      BY <1>5, <2>1, <2>2, <2>3, <2>4, <2>5, <3>1 DEF ChildInv, Waits, Kind
  <2>6. CASE t = "ld"
    <3>1. child'["as"] = NoChild
      BY <1>b, <2>1, <2>6 DEF ChildInv, Waits, Tools
    <3> QED
      BY <2>1, <2>2, <2>3, <2>4, <2>6, <3>1 DEF ChildInv, Waits, Kind
  <2> QED
    BY <2>5, <2>6 DEF Tools
<1>8. (RunsInv /\ ModeInv)'
  BY DEF RunsInv, ModeInv
<1>9. TempInv'
  <2>1. context.mode # "GEN_LINK_EXEC" => files'[TmpObj] = files[TmpObj]
    BY <1>1, <1>a, NamesDiffer
  <2>2. Waited' => pc \notin {"free", "end"} /\ status # "success"
    BY <1>a, <1>c DEF Waits, RunsInv
  <2> QED
    BY <1>2, <1>a, <1>c, <2>1, <2>2 DEF TempInv
<1>10. MadeInv'
  <2>1. pc \in {"fork_as", "wait_as", "unlink_asm"} => Good(TmpAsm, "asm")'
    BY <1>2, <1>c DEF MadeInv, Good
  <2>2. Waited' => pc \in {"wait_as", "wait_ld"} /\ status # "success"
    BY <1>a, <1>c DEF Waits, RunsInv
  <2>3. ASSUME Waited', pc = "wait_ld" PROVE Good(TmpObj, "obj")'
    <3>1. t = "ld"
      BY <1>a, <1>c, <2>3 DEF Waits, Tools
    <3>2. files'[TmpObj] = files[TmpObj]
      BY <1>2, <3>1, ToolAt
    <3> QED
      BY <1>c, <2>3, <3>2 DEF MadeInv, Good
  <2> QED
    BY <2>1, <2>2, <2>3 DEF MadeInv
<1> QED
  BY <1>3, <1>4, <1>6, <1>7, <1>8, <1>9, <1>10

LEMMA ChildFailsStep ==
  ASSUME IInv, NEW t \in Tools, ChildFails(t)
  PROVE  IInv'
<1> DEFINE c == [child[t] EXCEPT !.state = "exited", !.code = 1]
<1>1. /\ child[t].state # "none" /\ child' = [child EXCEPT ![t] = c]
      /\ UNCHANGED <<job, options, context, pc, status>> /\ faults' = faults \cup {t}
      /\ \/ UNCHANGED files
         \/ files' = [files EXCEPT ![child[t].out] = Absent]
  BY DEF ChildFails, Running, Fault, IInv, TypeOK
<1>2. Absent \in Contents
  BY DEF Absent, Content, Contents
<1>3. /\ c \in Process /\ c.in = child[t].in /\ c.out = child[t].out
      /\ c.state = "exited" /\ c.code = 1
  <2>1. child[t] \in Process
    BY DEF IInv, TypeOK
  <2> QED
    BY <2>1 DEF Process
<1> HIDE DEF c
<1>4. \/ UNCHANGED files
      \/ \E d \in Contents : files' = [files EXCEPT ![child[t].out] = d]
  BY <1>1, <1>2, Zenon
<1>5. faults' \in {faults, faults \cup {t}} /\ c.state # "none" /\ c.state \notin {"reading", "writing"}
      /\ c.code # 0
  BY <1>1, <1>3
<1> QED
  BY <1>1, <1>3, <1>4, <1>5, ToolKeeps

LEMMA ToolReadsStep ==
  ASSUME IInv, NEW t \in Tools, ToolReads(t)
  PROVE  IInv'
<1> DEFINE c == [child[t] EXCEPT !.state = "reading", !.read = files[child[t].in]]
<1>1. /\ child[t].state = "forked" /\ child' = [child EXCEPT ![t] = c]
      /\ UNCHANGED <<job, options, context, pc, status, faults, files>>
  BY DEF ToolReads, Running, NoFault, IInv, TypeOK
<1>2. child[t].in \in Name
  BY <1>1, ToolAt
<1>3. /\ c \in Process /\ c.in = child[t].in /\ c.out = child[t].out
      /\ c.state = "reading" /\ c.read = files[child[t].in]
  <2>1. child[t] \in Process /\ files[child[t].in] \in Contents
    BY <1>2 DEF IInv, TypeOK
  <2> QED
    BY <2>1 DEF Process
<1> HIDE DEF c
<1> QED
  BY <1>1, <1>3, ToolKeeps

LEMMA ToolRefusesStep ==
  ASSUME IInv, NEW t \in Tools, ToolRefuses(t)
  PROVE  IInv'
<1> DEFINE c == [child[t] EXCEPT !.state = "exited", !.code = 1]
<1>1. /\ child[t].state = "reading" /\ child' = [child EXCEPT ![t] = c]
      /\ UNCHANGED <<job, options, context, pc, status, faults, files>>
  BY DEF ToolRefuses, Running, NoFault, IInv, TypeOK
<1>2. /\ c \in Process /\ c.in = child[t].in /\ c.out = child[t].out
      /\ c.state = "exited" /\ c.code = 1
  <2>1. child[t] \in Process
    BY DEF IInv, TypeOK
  <2> QED
    BY <2>1 DEF Process
<1> HIDE DEF c
<1>3. faults' \in {faults, faults \cup {t}} /\ c.state # "none" /\ c.state \notin {"reading", "writing"}
      /\ c.code # 0 /\ child[t].state # "none"
  BY <1>1, <1>2
<1> QED
  BY <1>1, <1>2, <1>3, ToolKeeps

LEMMA ToolOpensStep ==
  ASSUME IInv, NEW t \in Tools, ToolOpens(t)
  PROVE  IInv'
<1> DEFINE c == [child[t] EXCEPT !.state = "writing"]
           d == Content("empty", TRUE)
<1>1. /\ child[t].state = "reading" /\ child' = [child EXCEPT ![t] = c]
      /\ files' = [files EXCEPT ![child[t].out] = d]
      /\ UNCHANGED <<job, options, context, pc, status, faults>>
  BY DEF ToolOpens, Running, NoFault, IInv, TypeOK
<1>2. d \in Contents /\ d # Absent
  BY DEF Content, Contents, Absent
<1>3. Waited => child[t].read = files[child[t].in]
  BY <1>1, ToolAt DEF ChildOf
<1>4. /\ c \in Process /\ c.in = child[t].in /\ c.out = child[t].out
      /\ c.state = "writing" /\ c.read = child[t].read
  <2>1. child[t] \in Process
    BY DEF IInv, TypeOK
  <2> QED
    BY <2>1 DEF Process
<1> HIDE DEF c, d
<1>5. files'[child[t].out] = d
  BY <1>1, <1>2, ToolAt, WriteFile DEF IInv
<1> QED
  BY <1>1, <1>2, <1>3, <1>4, <1>5, ToolKeeps

LEMMA ToolWritesStep ==
  ASSUME IInv, NEW t \in Tools, ToolWrites(t)
  PROVE  IInv'
<1> DEFINE c == [child[t] EXCEPT !.state = "exited", !.code = 0]
           d == Content(Kind(t), child[t].read.whole)
<1>1. /\ child[t].state = "writing" /\ child' = [child EXCEPT ![t] = c]
      /\ files' = (IF files[child[t].out] = Absent THEN files ELSE [files EXCEPT ![child[t].out] = d])
      /\ UNCHANGED <<job, options, context, pc, status, faults>>
  BY DEF ToolWrites, Running, NoFault, Kind, IInv, TypeOK
<1>2. child[t] \in Process
  BY DEF IInv, TypeOK
<1>3. d \in Contents
  BY <1>2 DEF Content, Contents, Kind, Process
<1>4. /\ c \in Process /\ c.in = child[t].in /\ c.out = child[t].out
      /\ c.state = "exited"
  BY <1>2 DEF Process
<1>5. Waited => Good(child[t].out, Kind(t))'
  <2> SUFFICES ASSUME Waited PROVE Good(child[t].out, Kind(t))'
    OBVIOUS
  <2>1. /\ child[t].read = files[child[t].in] /\ child[t].out \in Name
        /\ files[child[t].out] # Absent
    BY <1>1, ToolAt DEF ChildOf
  <2>2. "write" \notin faults => files[child[t].in].whole = TRUE
    <3>1. pc = Waits(t) /\ child[t].in = (IF t = "as" THEN TmpAsm ELSE TmpObj)
      BY <1>1, ToolAt
    <3> QED
      BY <3>1 DEF IInv, MadeInv, Good, Waits, Tools
  <2>3. files'[child[t].out] = d
    BY <1>1, <1>3, <2>1, WriteFile DEF IInv
  <2>4. child'[t].out = child[t].out
    BY <1>1, <1>4, OneChild DEF IInv
  <2>5. d.kind = Kind(t) /\ d.whole = child[t].read.whole
    BY DEF Content
  <2> HIDE DEF d
  <2> QED
    BY <1>1, <2>1, <2>2, <2>3, <2>4, <2>5 DEF Good, Kind
<1> HIDE DEF c, d
<1>6. \/ UNCHANGED files
      \/ \E e \in Contents : files' = [files EXCEPT ![child[t].out] = e]
  BY <1>1, <1>3
<1> QED
  BY <1>1, <1>4, <1>5, <1>6, ToolKeeps


(* Every step of the driver and of its children keeps the invariant.       *)
LEMMA NextIInv == IInv /\ [Next]_driver => IInv'
<1> SUFFICES ASSUME IInv, [Next]_driver PROVE IInv'
  OBVIOUS
<1>1. CASE Parent
  BY <1>1, OptionsStep, mainStep, ReadStep, compileStep, OpenOutputStep, mkstemp_asmStep, mkstemp_objStep,
     WriteStep, fork_asStep, fork_ldStep, wait_asStep, wait_ldStep, unlink_asmStep, unlink_objStep,
     DestroyStep DEF Parent
<1>2. CASE Tool
  <2>1. PICK t \in Tools :
          ChildFails(t) \/ ToolReads(t) \/ ToolRefuses(t) \/ ToolOpens(t) \/ ToolWrites(t)
    BY <1>2 DEF Tool
  <2> QED
    BY <2>1, ChildFailsStep, ToolReadsStep, ToolRefusesStep, ToolOpensStep, ToolWritesStep
<1>3. CASE UNCHANGED driver
  <2>1. UNCHANGED <<job, options, context, pc, files, child, faults, status>>
    BY <1>3 DEF driver
  <2>2. TypeOK' /\ job' \in Job
    BY <2>1 DEF IInv, TypeOK
  <2>3. (RunsInv /\ ModeInv /\ TempInv /\ SourceInv)'
    BY <2>1 DEF IInv, RunsInv, ModeInv, TempInv, SourceInv, Waited
  <2>4. Target' = Target /\ Wanted' = Wanted /\ AsOut' = AsOut
    BY <2>1 DEF Target, Wanted, AsOut
  <2>5. (MadeInv /\ StartedInv /\ ChildInv)'
    BY <2>1, <2>4 DEF IInv, MadeInv, StartedInv, ChildInv, ChildOf, Good, Waited
  <2> QED
    BY <2>2, <2>3, <2>5 DEF IInv
<1> QED
  BY <1>1, <1>2, <1>3 DEF Next

(* The tools touch nothing but the files, themselves and the faults.       *)
LEMMA ToolLeaves ==
  ASSUME Tool
  PROVE  UNCHANGED <<job, options, context, asm, freed, pc, status>>
  BY Zenon DEF Tool, ChildFails, ToolReads, ToolRefuses, ToolOpens, ToolWrites, Running

(* The invariant holds in every state of the driver.                       *)
LEMMA DriverInv == Spec => []IInv
<1>1. Init => IInv
  BY InitIInv
<1>2. IInv /\ [Next]_driver => IInv'
  BY NextIInv
<1> QED
  BY <1>1, <1>2, PTL DEF Spec

-----------------------------------------------------------------------------
(* What the invariant says of the driver.                                  *)
LEMMA IInvZero ==
  ASSUME IInv, status = "success", "write" \notin faults, "wait" \notin faults
  PROVE  files[Target] = Content(Wanted, TRUE)
<1>1. files[Target].kind = Wanted /\ files[Target].whole = TRUE
  BY DEF IInv, MadeInv, Good, Waited
<1>2. Target \in Name
  BY NamesDiffer DEF IInv, ModeInv, Target
<1>3. files[Target] \in Contents
  BY <1>2 DEF IInv, TypeOK
<1> QED
  BY <1>1, <1>3 DEF Content, Contents

LEMMA IInvInputReady == IInv => InputReady
<1> SUFFICES ASSUME IInv, "wait" \notin faults, NEW t \in Tools, child[t].state \in {"reading", "writing"}
             PROVE  child[t].read.kind = IF t = "as" THEN "asm" ELSE "obj"
  BY DEF InputReady
<1>1. /\ child[t].read = files[child[t].in] /\ pc = Waits(t) /\ Waited
      /\ child[t].in = (IF t = "as" THEN TmpAsm ELSE TmpObj)
  BY ToolAt DEF ChildOf, Waited
<1> QED
  BY <1>1 DEF IInv, MadeInv, Good, Waits, Tools

LEMMA IInvSourceKept == IInv => SourceKept
  BY DEF IInv, SourceInv, SourceKept, NoO

(* Every variable of the driver keeps its type.                            *)
THEOREM BlazecType == Spec => []TypeOK
<1>1. IInv => TypeOK
  BY DEF IInv
<1> QED
  BY <1>1, DriverInv, PTL

(* Unless wait has failed, as and ld read only what is written and closed. *)
THEOREM BlazecInputReady == Spec => []InputReady
  BY IInvInputReady, DriverInv, PTL

(* Without -o no source file *.bl is ever overwritten.                     *)
THEOREM BlazecKeepsSource == Spec => []SourceKept
  BY IInvSourceKept, DriverInv, PTL

(* No failure of a tool goes unnoticed: where the driver is when one has   *)
(* failed.                                                                 *)
Noticed(t) ==
  t \in faults => \/ status = "failure"
                  \/ pc = Waits(t) /\ child[t].state = "exited" /\ child[t].code = 1
NoticedInv == Waited => \A t \in Tools : Noticed(t)

LEMMA ToolNoticed == IInv /\ NoticedInv /\ Tool => NoticedInv'
<1> SUFFICES ASSUME IInv, NoticedInv, Tool, Waited', NEW u \in Tools PROVE Noticed(u)'
  BY DEF NoticedInv
<1>1. PICK t \in Tools :
        ChildFails(t) \/ ToolReads(t) \/ ToolRefuses(t) \/ ToolOpens(t) \/ ToolWrites(t)
  BY DEF Tool
<1>2. UNCHANGED <<pc, status>> /\ child[t].state \in {"forked", "reading", "writing"}
  BY <1>1, ToolLeaves DEF ChildFails, ToolReads, ToolRefuses, ToolOpens, ToolWrites, Running
<1>3. \/ faults' = faults
      \/ /\ faults' = faults \cup {t}
         /\ child' = [child EXCEPT ![t].state = "exited", ![t].code = 1]
  BY <1>1 DEF ChildFails, ToolReads, ToolRefuses, ToolOpens, ToolWrites, NoFault, Fault
<1>4. child \in [Tools -> Process] /\ Waited /\ Noticed(u)
  BY <1>3 DEF Waited, IInv, TypeOK, NoticedInv
<1>5. u # t => child'[u] = child[u]
  BY <1>1, <1>4 DEF ChildFails, ToolReads, ToolRefuses, ToolOpens, ToolWrites, Running
<1>6. CASE u # t
  BY <1>2, <1>3, <1>4, <1>5, <1>6 DEF Noticed
<1>7. CASE u = t /\ faults' = faults
  BY <1>2, <1>4, <1>7 DEF Noticed
<1>8. CASE u = t /\ child' = [child EXCEPT ![t].state = "exited", ![t].code = 1]
  <2>1. pc = Waits(t)
    BY <1>2, <1>4, ToolAt
  <2>2. child'[t].state = "exited" /\ child'[t].code = 1
    BY <1>4, <1>8 DEF Process
  <2> QED
    BY <1>2, <1>8, <2>1, <2>2 DEF Noticed, Waits
<1> QED
  BY <1>3, <1>6, <1>7, <1>8

LEMMA WaitNoticed ==
  ASSUME IInv, NoticedInv, NEW p \in {"wait_as", "wait_ld"}, NEW next, wait(p, next)
  PROVE  NoticedInv'
<1> SUFFICES ASSUME Waited', NEW t \in Tools, t \in faults' PROVE status' = "failure"
  BY DEF NoticedInv, Noticed
<1>1. UNCHANGED faults /\ Waited /\ status = "running" /\ pc = p
  BY WaitGives DEF Waited
<1>2. PICK u \in Tools : child[u].state = "exited" /\ (~fatal_error => child[u].code = 0)
  BY <1>1, WaitGives DEF Waited
<1>3. pc = Waits(t) /\ child[t].code = 1
  BY <1>1 DEF NoticedInv, Noticed
<1>4. pc = Waits(u)
  BY <1>1, <1>2, ToolAt
<1>5. u = t
  BY <1>3, <1>4 DEF Waits, Tools
<1> QED
  BY <1>2, <1>3, <1>5 DEF fatal_error, End

LEMMA NextNoticed == IInv /\ NoticedInv /\ [Next]_driver => NoticedInv'
<1> SUFFICES ASSUME IInv, NoticedInv, [Next]_driver PROVE NoticedInv'
  OBVIOUS
<1>1. ASSUME status = "running", pc \notin {"wait_as", "wait_ld"},
             NEW f, f \notin Tools, faults' \in {faults, faults \cup {f}}
      PROVE  NoticedInv'
  BY <1>1 DEF NoticedInv, Noticed, Waited, Waits
<1>2. CASE blazec_process_options \/ main \/ compile \/ compilation_context_destroy
  <2>1. status = "running" /\ pc \notin {"wait_as", "wait_ld"} /\ faults' = faults
    BY <1>2 DEF blazec_process_options, main, compile, compilation_context_destroy, At, NoFault
  <2> QED
    BY <1>1, <2>1 DEF Tools
<1>3. CASE ReadSource \/ OpenOutput \/ mkstemp_asm \/ mkstemp_obj \/ blazec_write_assembly
  <2>1. /\ status = "running" /\ pc \notin {"wait_as", "wait_ld"}
        /\ \E f \in {"read", "open", "mkstemp_asm", "mkstemp_obj", "write"} : faults' \in {faults, faults \cup {f}}
    BY <1>3 DEF ReadSource, OpenOutput, mkstemp_asm, mkstemp_obj, blazec_write_assembly, Open, At, NoFault, Fault
  <2> QED
    BY <1>1, <2>1 DEF Tools
<1>4. CASE fork_as \/ fork_ld \/ unlink_asm \/ unlink_obj
  <2>1. /\ status = "running" /\ pc \notin {"wait_as", "wait_ld"}
        /\ \E f \in {"fork_as", "fork_ld", "unlink_asm", "unlink_obj"} : faults' \in {faults, faults \cup {f}}
    BY <1>4 DEF fork_as, fork_ld, unlink_asm, unlink_obj, fork, unlink, At, NoFault, Fault
  <2> QED
    BY <1>1, <2>1 DEF Tools
<1>5. CASE wait_as \/ wait_ld
  BY <1>5, WaitNoticed DEF wait_as, wait_ld
<1>6. CASE Tool
  BY <1>6, ToolNoticed
<1>7. CASE UNCHANGED driver
  BY <1>7 DEF driver, NoticedInv, Noticed, Waited
<1> QED
  BY <1>2, <1>3, <1>4, <1>5, <1>6, <1>7 DEF Next, Parent

(* When blazec ends with 0 and no wait has failed or taken another child,  *)
(* no tool has failed, and if no write was short, the file is complete,    *)
(* whatever else has failed.                                               *)
THEOREM BlazecWrites == Spec => []ZeroMeansWritten
<1>1. Init => NoticedInv
  BY DEF Init, NoticedInv, Noticed
<1>2. IInv /\ NoticedInv => ZeroMeansWritten
  <2> SUFFICES ASSUME IInv, NoticedInv, status = "success", Waited
               PROVE  /\ Tools \cap faults = {}
                      /\ "write" \notin faults => files[Target] = Content(Wanted, TRUE)
    BY DEF ZeroMeansWritten, Waited
  <2>1. Tools \cap faults = {}
    BY DEF IInv, RunsInv, NoticedInv, Noticed, Waits
  <2> QED
    BY <2>1, IInvZero DEF Waited
<1> QED
  BY <1>1, <1>2, NextNoticed, DriverInv, PTL DEF Spec

-----------------------------------------------------------------------------
(* A step of the compiled program leaves the driver as it is.              *)
LEMMA StepKeepsDriver == Step => UNCHANGED driver
<1> SUFFICES ASSUME Step PROVE UNCHANGED driver
  OBVIOUS
<1>1. CASE Start \/ label \/ mov \/ add \/ push \/ pop \/ call_main \/ exit
  BY <1>1 DEF Start, label, mov, add, push, pop, call_main, exit
<1>2. CASE ret
  BY <1>2 DEF ret, Crash
<1>3. CASE libblaze_val_create_intval \/ libblaze_val_create_strval
  BY <1>3 DEF libblaze_val_create_intval, libblaze_val_create_strval, NewValue
<1>4. CASE libblaze_fn_println
  BY <1>4 DEF libblaze_fn_println, Crash
<1>5. CASE libblaze_val_free
  BY <1>5 DEF libblaze_val_free, Crash
<1> QED
  BY <1>1, <1>2, <1>3, <1>4, <1>5 DEF Step

(* The driver that runs beside the program it compiles is the driver: what *)
(* is proved of the one holds of the other.                                *)
THEOREM NativeImplementsDriver == NativeSpec => Spec
<1>1. NativeInit => Init
  BY DEF NativeInit
<1>2. [NativeNext]_vars => [Next]_driver
  <2> SUFFICES ASSUME [NativeNext]_vars PROVE [Next]_driver
    OBVIOUS
  <2>1. CASE Parent \/ Tool
    BY <2>1 DEF Next
  <2>2. CASE Step
    BY <2>2, StepKeepsDriver
  <2>3. CASE Stutter \/ UNCHANGED vars
    BY <2>3 DEF Stutter, vars
  <2> QED
    BY <2>1, <2>2, <2>3 DEF NativeNext
<1> QED
  BY <1>1, <1>2, PTL DEF NativeSpec, Spec

-----------------------------------------------------------------------------
(* A property that holds of 0 and goes from a number to the next holds of  *)
(* every number.                                                           *)
LEMMA LeastNat ==
  ASSUME NEW T, T \subseteq Nat, T # {}
  PROVE  \E x \in T : \A y \in T : x <= y
<1> DEFINE R == StrictSubsetOrdering(Nat)
           F == FiniteSubsetsOf(Nat)
           U == {1..t : t \in T}
<1>1. IsWellFoundedOn(R, F)
  BY FS_StrictSubsetOrderingWellFounded
<1>2. U \subseteq F
  <2>1. ASSUME NEW t \in T PROVE 1..t \in F
    <3>1. IsFiniteSet(1..t)
      BY FS_Interval
    <3> QED BY <3>1 DEF FiniteSubsetsOf
  <2> QED BY <2>1
<1>3. U # {}
  OBVIOUS
<1> HIDE DEF R, F, U
<1>4. \E x \in U : \A y \in U : ~(<<y, x>> \in R)
  BY <1>1, <1>2, <1>3, WFMin
<1>5. PICK x \in T : \A y \in T : ~(<<1..y, 1..x>> \in R)
  BY <1>4 DEF U
<1>6. ASSUME NEW y \in T, y < x PROVE FALSE
  <2>1. x \in Nat /\ y \in Nat
    OBVIOUS
  <2>2. 1..y \subseteq 1..x /\ x \in 1..x /\ x \notin 1..y /\ 1..y \subseteq Nat /\ 1..x \subseteq Nat
    BY <1>6, <2>1
  <2>3. <<1..y, 1..x>> \in R
    BY <2>2 DEF R, StrictSubsetOrdering
  <2> QED BY <2>3, <1>5
<1> QED BY <1>6

LEMMA UpTo ==
  ASSUME NEW n \in Nat, NEW T, 0 \in T, \A k \in 1..n : k - 1 \in T => k \in T
  PROVE  \A k \in 0..n : k \in T
<1> DEFINE S == {k \in 0..n : k \notin T}
<1>1. SUFFICES ASSUME S # {} PROVE FALSE
  OBVIOUS
<1>2. PICK x \in S : \A y \in S : x <= y
  <2>1. S \subseteq Nat
    OBVIOUS
  <2> HIDE DEF S
  <2> QED BY <1>1, <2>1, LeastNat
<1>3. x \in 1..n /\ x \notin T /\ x - 1 \in 0..n
  OBVIOUS
<1>4. x - 1 \in T
  <2>1. x - 1 \notin S
    <3>1. ~(x <= x - 1)
      BY <1>3
    <3> QED BY <1>2, <3>1
  <2> QED BY <1>3, <2>1
<1> QED BY <1>3, <1>4

(* FlattenSeq adds its sequences one after the other.                      *)
Flat(f, s) == f = [i \in 1..Len(s) |-> IF i = 1 THEN s[i] ELSE f[i - 1] \o s[i]]

LEMMA FlattenIs ==
  ASSUME NEW s, Len(s) \in Nat \ {0}
  PROVE  \E f : Flat(f, s) /\ FlattenSeq(s) = f[Len(s)]
<1> DEFINE n == Len(s)
           D == 1..n
           Body(f, i) == IF i = 1 THEN s[i] ELSE f[i - 1] \o s[i]
           T == {k \in 0..n : \E f : \A i \in 1..k : f[i] = Body(f, i)}
<1>1. 0 \in T
  OBVIOUS
<1>2. ASSUME NEW k \in D, k - 1 \in T PROVE k \in T
  <2>1. PICK f : \A i \in 1..(k - 1) : f[i] = Body(f, i)
    BY <1>2
  <2> DEFINE g == [i \in D |-> IF i = k THEN Body(f, k) ELSE f[i]]
  <2>2. k \in Nat /\ k \in D /\ k <= n
    OBVIOUS
  <2>3. \A i \in 1..(k - 1) : g[i] = f[i]
    BY <2>2
  <2>4. g[k] = Body(f, k)
    BY <2>2
  <2> HIDE DEF g
  <2>5. ASSUME NEW i \in 1..k PROVE g[i] = Body(g, i)
    <3>1. CASE i = 1 /\ i = k
      BY <2>4, <3>1
    <3>2. CASE i = 1 /\ i # k
      <4>1. i \in 1..(k - 1)
        BY <2>2, <3>2
      <4> QED BY <2>1, <2>3, <3>2, <4>1
    <3>3. CASE i # 1 /\ i = k
      <4>1. i - 1 \in 1..(k - 1)
        BY <2>2, <3>3
      <4>2. g[i - 1] = f[i - 1]
        BY <2>3, <4>1
      <4> QED BY <2>4, <3>3, <4>2
    <3>4. CASE i # 1 /\ i # k
      <4>1. i \in 1..(k - 1) /\ i - 1 \in 1..(k - 1)
        BY <2>2, <3>4
      <4>2. g[i] = f[i] /\ g[i - 1] = f[i - 1] /\ f[i] = Body(f, i)
        BY <2>1, <2>3, <4>1
      <4> QED BY <3>4, <4>2
    <3> QED BY <3>1, <3>2, <3>3, <3>4
  <2> QED BY <2>2, <2>5
<1>3. n \in T
  <2> HIDE DEF T
  <2> QED BY <1>1, <1>2, UpTo
<1>4. PICK f : \A i \in D : f[i] = Body(f, i)
  BY <1>3
<1> DEFINE h == [i \in D |-> f[i]]
<1>5. h = [i \in D |-> Body(h, i)]
  <2>1. ASSUME NEW i \in D PROVE h[i] = Body(h, i)
    <3>1. CASE i = 1
      BY <1>4, <3>1
    <3>2. CASE i # 1
      <4>1. i - 1 \in D
        BY <3>2
      <4>2. h[i] = f[i] /\ h[i - 1] = f[i - 1] /\ f[i] = Body(f, i)
        BY <1>4, <4>1
      <4> QED BY <3>2, <4>2
    <3> QED BY <3>1, <3>2
  <2>2. h = [i \in D |-> h[i]]
    OBVIOUS
  <2> HIDE DEF h
  <2> QED BY <2>1, <2>2
<1> HIDE DEF h
<1> DEFINE c == CHOOSE fl : fl = [i \in D |-> Body(fl, i)]
<1>6. c = [i \in D |-> Body(c, i)]
  BY <1>5
<1>7. FlattenSeq(s) = c[n]
  BY DEF FlattenSeq
<1> HIDE DEF c
<1> QED BY <1>6, <1>7 DEF Flat

(* How as reads a text, character after character.                         *)
Unread == [state |-> "text", chars |-> <<>>]
Reads(r, t) == r[0] = Unread /\ \A k \in 1..Len(t) : r[k] = ReadChar(r[k - 1], t[k])

LEMMA ReadingIs ==
  ASSUME NEW t, Len(t) \in Nat, DOMAIN t = 1..Len(t)
  PROVE  \E r : Reads(r, t) /\ FoldLeft(ReadChar, Unread, t) = r[Len(t)]
<1> DEFINE n == Len(t)
           Body(f, s) == IF s = {} THEN Unread
                         ELSE ReadChar(f[s \ {Max(s)}], t[Max(s)])
           Q(k) == \E f : \A s \in SUBSET (1..k) : f[s] = Body(f, s)
           T == {k \in 0..n : Q(k)}
<1>m. ASSUME NEW k \in Nat, k # 0, NEW s \in SUBSET (1..k), k \in s PROVE Max(s) = k
  <2>1. \A x \in s : k >= x
    OBVIOUS
  <2>2. \A x \in s : (\A y \in s : x >= y) => x = k
    <3>1. ASSUME NEW x \in s, x >= k PROVE x = k
      BY <1>m, <3>1
    <3> QED BY <1>m, <3>1
  <2> QED BY <1>m, <2>1, <2>2 DEF Max
<1>1. 0 \in T
  <2> DEFINE f == [s \in {{}} |-> Unread]
  <2>1. SUBSET (1..0) = {{}}
    OBVIOUS
  <2>2. \A s \in SUBSET (1..0) : f[s] = Body(f, s)
    BY <2>1
  <2> HIDE DEF f
  <2>3. Q(0)
    BY <2>2, Zenon
  <2>4. 0 \in 0..n
    OBVIOUS
  <2> HIDE DEF Q, n
  <2> QED BY <2>3, <2>4
<1>2. ASSUME NEW k \in 1..n, k - 1 \in T PROVE k \in T
  <2>0. Q(k - 1)
    BY <1>2
  <2>1. PICK f : \A s \in SUBSET (1..(k - 1)) : f[s] = Body(f, s)
    BY <2>0
  <2> DEFINE g == [s \in SUBSET (1..k) |-> IF k \in s THEN ReadChar(f[s \ {k}], t[k]) ELSE f[s]]
  <2>2. \A s \in SUBSET (1..(k - 1)) : s \in SUBSET (1..k) /\ k \notin s /\ g[s] = f[s]
    <3>1. 1..(k - 1) \subseteq 1..k /\ k \notin 1..(k - 1)
      OBVIOUS
    <3> QED BY <3>1
  <2>3. \A s \in SUBSET (1..k) : k \in s => g[s] = ReadChar(f[s \ {k}], t[k])
    OBVIOUS
  <2> HIDE DEF g
  <2>4. ASSUME NEW s \in SUBSET (1..k) PROVE g[s] = Body(g, s)
    <3>1. CASE k \in s
      <4>1. Max(s) = k
        BY <1>m, <3>1
      <4>2. s \ {k} \in SUBSET (1..(k - 1))
        <5>1. \A x \in 1..k : x # k => x \in 1..(k - 1)
          OBVIOUS
        <5> QED BY <5>1
      <4>3. g[s \ {k}] = f[s \ {k}]
        BY <2>2, <4>2
      <4>4. g[s] = ReadChar(g[s \ {k}], t[k])
        BY <2>3, <3>1, <4>3
      <4> QED BY <3>1, <4>1, <4>4
    <3>2. CASE s = {}
      <4>1. s \in SUBSET (1..(k - 1))
        BY <3>2
      <4> QED BY <2>1, <2>2, <3>2, <4>1
    <3>3. CASE s # {} /\ k \notin s
      <4>1. s \in SUBSET (1..(k - 1))
        <5>1. \A x \in 1..k : x # k => x \in 1..(k - 1)
          OBVIOUS
        <5> QED BY <3>3, <5>1
      <4>2. s \ {Max(s)} \in SUBSET (1..(k - 1))
        BY <4>1
      <4>3. g[s] = f[s] /\ g[s \ {Max(s)}] = f[s \ {Max(s)}] /\ f[s] = Body(f, s)
        BY <2>1, <2>2, <4>1, <4>2
      <4> QED BY <3>3, <4>3
    <3> QED BY <3>1, <3>2, <3>3
  <2>5. Q(k)
    BY <2>4, Zenon
  <2>6. k \in 0..n
    OBVIOUS
  <2> HIDE DEF Q, n
  <2> QED BY <2>5, <2>6
<1>3. n \in T
  <2>1. n \in Nat /\ n \in 0..n
    OBVIOUS
  <2> HIDE DEF T, n
  <2> QED BY <1>1, <1>2, <2>1, UpTo
<1>4. PICK f : \A s \in SUBSET (1..n) : f[s] = Body(f, s)
  <2>1. Q(n)
    BY <1>3
  <2> QED BY <2>1
<1> DEFINE S == SUBSET (1..n)
           h == [s \in S |-> f[s]]
<1>5. h = [s \in S |-> Body(h, s)]
  <2>1. ASSUME NEW s \in S PROVE h[s] = Body(h, s)
    <3>1. s \ {Max(s)} \in S
      OBVIOUS
    <3>2. h[s] = f[s] /\ h[s \ {Max(s)}] = f[s \ {Max(s)}] /\ f[s] = Body(f, s)
      BY <1>4, <3>1
    <3> HIDE DEF h
    <3> QED BY <3>2
  <2>2. h = [s \in S |-> h[s]]
    OBVIOUS
  <2> HIDE DEF h
  <2> QED BY <2>1, <2>2
<1> HIDE DEF h
<1> DEFINE c == CHOOSE iter : iter = [s \in S |-> Body(iter, s)]
<1>6. c = [s \in S |-> Body(c, s)]
  BY <1>5
<1>7. FoldLeft(ReadChar, Unread, t) = c[1..n]
  BY DEF FoldLeft, MapThenFoldSet
<1> HIDE DEF c
<1> DEFINE r == [k \in 0..n |-> c[1..k]]
<1>8. r[0] = Unread
  <2>1. 1..0 = {} /\ {} \in S
    OBVIOUS
  <2> QED BY <1>6, <2>1
<1>9. ASSUME NEW k \in 1..n PROVE r[k] = ReadChar(r[k - 1], t[k])
  <2>1. 1..k \in S /\ 1..k # {} /\ k \in 1..k
    <3>1. k \in Nat /\ k # 0 /\ 1..k \subseteq 1..n /\ k \in 1..k
      OBVIOUS
    <3> QED BY <3>1
  <2>2. Max(1..k) = k
    BY <1>m, <2>1
  <2>3. (1..k) \ {k} = 1..(k - 1)
    OBVIOUS
  <2>4. c[1..k] = ReadChar(c[(1..k) \ {Max(1..k)}], t[Max(1..k)])
    BY <1>6, <2>1
  <2>5. r[k] = c[1..k] /\ r[k - 1] = c[1..(k - 1)]
    OBVIOUS
  <2> QED BY <2>2, <2>3, <2>4, <2>5
<1>10. r[n] = c[1..n]
  OBVIOUS
<1> HIDE DEF r
<1> QED BY <1>7, <1>8, <1>9, <1>10 DEF Reads

(* The characters that a string or the assembler makes.                    *)
Char == STRING \cup {"quote", "backslash", "control"}

LEMMA CharIs == "quote" \in Char /\ "backslash" \in Char /\ "control" \in Char
  BY DEF Char

ReadState == [state : {"text", "escape", "end", "error"}, chars : Seq(Char)]

LEMMA ReadCharIs ==
  ASSUME NEW r \in ReadState, NEW c \in Char
  PROVE  /\ ReadChar(r, c) \in ReadState
         /\ r.state = "text" /\ c = "quote" =>
              ReadChar(r, c).state = "end" /\ ReadChar(r, c).chars = r.chars
         /\ r.state = "text" /\ c = "backslash" =>
              ReadChar(r, c).state = "escape" /\ ReadChar(r, c).chars = r.chars
         /\ r.state = "text" /\ c \notin {"quote", "backslash"} =>
              ReadChar(r, c).state = "text" /\ ReadChar(r, c).chars = Append(r.chars, c)
         /\ r.state = "escape" /\ c = "quote" =>
              ReadChar(r, c).state = "text" /\ ReadChar(r, c).chars = Append(r.chars, c)
<1>0. r = [state |-> r.state, chars |-> r.chars] /\ r.chars \in Seq(Char)
      /\ r.state \in {"text", "escape", "end", "error"}
  BY DEF ReadState
<1>1. CASE r.state = "text" /\ c = "quote"
  <2>1. ReadChar(r, c) = [r EXCEPT !.state = "end"]
    BY <1>1 DEF ReadChar
  <2> QED BY <1>0, <1>1, <2>1 DEF ReadState
<1>2. CASE r.state = "text" /\ c = "backslash"
  <2>1. ReadChar(r, c) = [r EXCEPT !.state = "escape"]
    BY <1>2 DEF ReadChar
  <2> QED BY <1>0, <1>2, <2>1 DEF ReadState
<1>3. CASE r.state = "text" /\ c \notin {"quote", "backslash"}
  <2>1. ReadChar(r, c) = [r EXCEPT !.chars = Append(r.chars, c)]
    BY <1>3 DEF ReadChar
  <2>2. Append(r.chars, c) \in Seq(Char)
    BY <1>0
  <2> QED BY <1>0, <1>3, <2>1, <2>2 DEF ReadState
<1>4. CASE r.state = "escape"
  <2> DEFINE d == IF c \in {"quote", "backslash"} THEN c ELSE "control"
  <2>1. ReadChar(r, c) = [state |-> "text", chars |-> Append(r.chars, d)]
    BY <1>4 DEF ReadChar
  <2>2. d \in Char /\ (c = "quote" => d = c)
    BY CharIs
  <2> HIDE DEF d
  <2>3. Append(r.chars, d) \in Seq(Char)
    BY <1>0, <2>2
  <2> QED BY <1>0, <1>4, <2>1, <2>2, <2>3 DEF ReadState
<1>5. CASE r.state \in {"end", "error"}
  <2>1. ReadChar(r, c) = [r EXCEPT !.state = "error"]
    BY <1>5 DEF ReadChar
  <2> QED BY <1>0, <1>5, <2>1 DEF ReadState
<1> QED BY <1>0, <1>1, <1>2, <1>3, <1>4, <1>5

(* Where the second of two sequences is in their concatenation.            *)
LEMMA Second ==
  ASSUME NEW l \in Nat, NEW k \in Nat
  PROVE  \A j \in 1..k : \E m \in 1..l + k : m = l + j /\ ~(m <= l) /\ m - l = j
<1> SUFFICES ASSUME NEW j \in 1..k
             PROVE  \E m \in 1..l + k : m = l + j /\ ~(m <= l) /\ m - l = j
  OBVIOUS
<1>1. l + j \in 1..l + k /\ ~(l + j <= l) /\ l + j - l = j
  OBVIOUS
<1> WITNESS l + j \in 1..l + k
<1> QED BY <1>1

Extends(t, p)  == Len(p) <= Len(t) /\ \A j \in 1..Len(p) : t[j] = p[j]
ReadSoFar(q, s, i) ==
  /\ q \in ReadState
  /\ q.state = "text"
  /\ Len(q.chars) = i
  /\ \A j \in 1..i : q.chars[j] = s[j]

(* as reads a string that the compiler has put in quotes, and that has no  *)
(* backslash, back as it was, however many quotes are in it.               *)
THEOREM StringsReadBack ==
  ASSUME NEW s \in Seq(Char), ~Contains(s, "backslash")
  PROVE  ReadString(Quoted(s)).state = "end" /\ ReadString(Quoted(s)).chars = s
<1> DEFINE n == Len(s)
           Chunk(c) == IF c = "quote" THEN <<"backslash", "quote">> ELSE <<c>>
           chunks == [i \in DOMAIN s |-> Chunk(s[i])]
           body == FlattenSeq(chunks)
           t == body \o <<"quote">>
<1>0. /\ n \in Nat /\ DOMAIN s = 1..n
      /\ \A i \in 1..n : s[i] \in Char /\ s[i] # "backslash"
  BY DEF Contains
<1>1. \A c \in Char : Chunk(c) \in Seq(Char)
  BY CharIs
<1>2. chunks \in Seq(Seq(Char)) /\ Len(chunks) = n /\ \A i \in 1..n : chunks[i] = Chunk(s[i])
  <2>1. \A i \in 1..n : chunks[i] = Chunk(s[i]) /\ chunks[i] \in Seq(Char)
    BY <1>0, <1>1
  <2>2. chunks \in [1..n -> Seq(Char)]
    BY <1>0, <1>1
  <2> HIDE DEF chunks, Chunk
  <2>3. chunks \in Seq(Seq(Char))
    BY <1>0, <2>2, SeqDef
  <2>4. Len(chunks) = n
    BY <1>0, <2>2, <2>3, LenProperties
  <2> QED BY <2>1, <2>3, <2>4
<1> HIDE DEF chunks, n
<1>3. PICK f : /\ body = (IF n = 0 THEN <<>> ELSE f[n])
               /\ \A i \in 1..n : f[i] = IF i = 1 THEN chunks[i] ELSE f[i - 1] \o chunks[i]
  <2>1. CASE n = 0
    <3>1. body = <<>>
      BY <1>2, <2>1 DEF FlattenSeq
    <3> QED BY <2>1, <3>1
  <2>2. CASE n # 0
    <3>1. Len(chunks) \in Nat \ {0}
      BY <1>0, <1>2, <2>2
    <3>2. PICK f : Flat(f, chunks) /\ FlattenSeq(chunks) = f[Len(chunks)]
      BY <3>1, FlattenIs
    <3>3. \A i \in 1..n : f[i] = IF i = 1 THEN chunks[i] ELSE f[i - 1] \o chunks[i]
      BY <1>2, <3>2 DEF Flat
    <3>4. FlattenSeq(chunks) = (IF n = 0 THEN <<>> ELSE f[n])
      BY <1>2, <2>2, <3>2
    <3> QED BY <3>3, <3>4
  <2> QED BY <2>1, <2>2
<1> DEFINE P(i) ==
             i # 0 => /\ f[i] \in Seq(Char)
                      /\ \A r, u : Reads(r, u) /\ u \in Seq(Char) /\ Extends(u, f[i])
                                      => ReadSoFar(r[Len(f[i])], s, i)
           T == {i \in 0..n : P(i)}
<1>one. ASSUME NEW i \in 1..n, NEW q, ReadSoFar(q, s, i - 1), s[i] # "quote"
        PROVE  ReadSoFar(ReadChar(q, s[i]), s, i)
  <2>1. /\ s[i] \notin {"quote", "backslash"} /\ s[i] \in Char
        /\ q \in ReadState /\ q.state = "text" /\ Len(q.chars) = i - 1
        /\ \A j \in 1..(i - 1) : q.chars[j] = s[j]
    BY <1>0, <1>one DEF ReadSoFar
  <2>2. /\ ReadChar(q, s[i]).state = "text" /\ ReadChar(q, s[i]) \in ReadState
        /\ ReadChar(q, s[i]).chars = Append(q.chars, s[i])
    BY <2>1, ReadCharIs
  <2>3. q.chars \in Seq(Char)
    BY <2>1 DEF ReadState
  <2>4. /\ Len(Append(q.chars, s[i])) = i
        /\ \A j \in 1..i : Append(q.chars, s[i])[j] = s[j]
    BY <1>0, <2>1, <2>3
  <2> QED BY <2>2, <2>4 DEF ReadSoFar
<1>two. ASSUME NEW i \in 1..n, NEW q, ReadSoFar(q, s, i - 1), s[i] = "quote"
        PROVE  ReadSoFar(ReadChar(ReadChar(q, "backslash"), "quote"), s, i)
  <2>1. /\ q \in ReadState /\ q.state = "text" /\ Len(q.chars) = i - 1
        /\ \A j \in 1..(i - 1) : q.chars[j] = s[j]
    BY <1>two DEF ReadSoFar
  <2> DEFINE p == ReadChar(q, "backslash")
  <2>2. p \in ReadState /\ p.state = "escape" /\ p.chars = q.chars
    BY <2>1, ReadCharIs, CharIs
  <2> HIDE DEF p
  <2>3. /\ ReadChar(p, "quote").state = "text" /\ ReadChar(p, "quote") \in ReadState
        /\ ReadChar(p, "quote").chars = Append(q.chars, "quote")
    BY <2>2, ReadCharIs, CharIs
  <2>4. q.chars \in Seq(Char)
    BY <2>1 DEF ReadState
  <2>5. /\ Len(Append(q.chars, "quote")) = i
        /\ \A j \in 1..i : Append(q.chars, "quote")[j] = s[j]
    <3>1. Len(Append(q.chars, "quote")) = i /\ Append(q.chars, "quote")[i] = "quote"
      BY <2>1, <2>4, CharIs
    <3>2. \A j \in 1..(i - 1) : Append(q.chars, "quote")[j] = s[j]
      BY <2>1, <2>4, CharIs
    <3>3. \A j \in 1..i : j = i \/ j \in 1..(i - 1)
      OBVIOUS
    <3> QED BY <1>two, <3>1, <3>2, <3>3
  <2> QED BY <2>3, <2>5 DEF ReadSoFar, p
<1>4. ASSUME NEW r, NEW u \in Seq(Char), Reads(r, u), NEW i \in 1..n, NEW l \in Nat,
             l + Len(Chunk(s[i])) <= Len(u),
             \A j \in 1..Len(Chunk(s[i])) : u[l + j] = Chunk(s[i])[j],
             ReadSoFar(r[l], s, i - 1)
      PROVE  ReadSoFar(r[l + Len(Chunk(s[i]))], s, i)
  <2>0. Len(u) \in Nat
    OBVIOUS
  <2>1. CASE s[i] # "quote"
    <3>1. Len(Chunk(s[i])) = 1 /\ Chunk(s[i])[1] = s[i]
      BY <2>1
    <3> HIDE DEF Chunk
    <3>2. l + 1 \in 1..Len(u) /\ u[l + 1] = s[i] /\ l + 1 - 1 = l
      BY <1>4, <2>0, <3>1
    <3>3. r[l + 1] = ReadChar(r[l], s[i])
      BY <1>4, <3>2 DEF Reads
    <3> QED BY <1>4, <1>one, <2>1, <3>1, <3>3
  <2>2. CASE s[i] = "quote"
    <3>1. Len(Chunk(s[i])) = 2 /\ Chunk(s[i])[1] = "backslash" /\ Chunk(s[i])[2] = "quote"
      BY <2>2
    <3> HIDE DEF Chunk
    <3>2. /\ l + 1 \in 1..Len(u) /\ u[l + 1] = "backslash" /\ l + 1 - 1 = l
          /\ l + 2 \in 1..Len(u) /\ u[l + 2] = "quote" /\ l + 2 - 1 = l + 1
      BY <1>4, <2>0, <3>1
    <3>3. r[l + 1] = ReadChar(r[l], "backslash") /\ r[l + 2] = ReadChar(r[l + 1], "quote")
      BY <1>4, <3>2 DEF Reads
    <3> QED BY <1>4, <1>two, <2>2, <3>1, <3>3
  <2> QED BY <2>1, <2>2
<1>blank. ReadSoFar(Unread, s, 0)
  <2>1. Unread \in ReadState /\ Unread.state = "text" /\ Len(Unread.chars) = 0
    BY DEF Unread, ReadState
  <2> QED BY <2>1 DEF ReadSoFar
<1>type. \A i \in 1..n : Chunk(s[i]) \in Seq(Char) /\ Len(Chunk(s[i])) \in Nat
  BY <1>0, <1>1
<1> HIDE DEF Chunk
<1>5. ASSUME NEW i \in 1..n, P(i - 1) PROVE P(i)
  <2>1. CASE i = 1
    <3>1. f[i] = Chunk(s[i])
      BY <1>2, <1>3, <2>1
    <3>2. f[i] \in Seq(Char)
      BY <1>type, <3>1
    <3>3. ASSUME NEW r, NEW u \in Seq(Char), Reads(r, u), Extends(u, f[i])
          PROVE  ReadSoFar(r[Len(f[i])], s, i)
      <4>1. /\ 0 + Len(Chunk(s[i])) <= Len(u) /\ 0 + Len(Chunk(s[i])) = Len(f[i])
            /\ \A j \in 1..Len(Chunk(s[i])) : u[0 + j] = Chunk(s[i])[j]
        BY <1>type, <3>1, <3>3 DEF Extends
      <4>2. ReadSoFar(r[0], s, i - 1) /\ 0 \in Nat
        BY <1>blank, <2>1, <3>3 DEF Reads
      <4> QED BY <1>4, <3>3, <4>1, <4>2
    <3> QED BY <3>2, <3>3
  <2>2. CASE i # 1
    <3>1. f[i] = f[i - 1] \o Chunk(s[i]) /\ i - 1 # 0
      <4>1. i - 1 # 0
        BY <2>2
      <4>2. f[i] = IF i = 1 THEN chunks[i] ELSE f[i - 1] \o chunks[i]
        BY <1>3
      <4>3. chunks[i] = Chunk(s[i])
        BY <1>2
      <4> QED BY <2>2, <4>1, <4>2, <4>3
    <3>2. f[i - 1] \in Seq(Char)
      BY <1>5, <3>1
    <3> DEFINE l == Len(f[i - 1])
               k == Len(Chunk(s[i]))
    <3>3. /\ f[i] \in Seq(Char) /\ Len(f[i]) = l + k /\ l \in Nat /\ k \in Nat
          /\ \A j \in 1..l : f[i][j] = f[i - 1][j]
          /\ \A j \in 1..k : f[i][l + j] = Chunk(s[i])[j]
      <4>1. f[i - 1] \o Chunk(s[i]) \in Seq(Char) /\ l \in Nat /\ k \in Nat
        BY <1>type, <3>2
      <4>2. /\ Len(f[i - 1] \o Chunk(s[i])) = l + k
            /\ \A j \in 1..l + k : (f[i - 1] \o Chunk(s[i]))[j] =
                 IF j <= l THEN f[i - 1][j] ELSE Chunk(s[i])[j - l]
        BY <1>type, <3>2, ConcatProperties
      <4>l. l \in Nat /\ k \in Nat
        BY <4>1
      <4>r. f[i - 1] = f[i - 1] /\ Len(f[i - 1]) = l /\ Len(Chunk(s[i])) = k
        OBVIOUS
      <4> HIDE DEF l, k
      <4>3. \A j \in 1..l : j \in 1..l + k /\ j <= l
        BY <4>l
      <4>4. \A j \in 1..k : \E m \in 1..l + k : m = l + j /\ ~(m <= l) /\ m - l = j
        BY <4>l, Second
      <4>5. f[i] \in Seq(Char) /\ Len(f[i]) = l + k
        BY <3>1, <4>1, <4>2
      <4>6. \A j \in 1..l : f[i][j] = f[i - 1][j]
        BY <3>1, <4>2, <4>3
      <4>7. \A j \in 1..k : f[i][l + j] = Chunk(s[i])[j]
        <5> SUFFICES ASSUME NEW j \in 1..k PROVE f[i][l + j] = Chunk(s[i])[j]
          OBVIOUS
        <5>1. PICK m \in 1..l + k : m = l + j /\ ~(m <= l) /\ m - l = j
          BY <4>4
        <5>2. (f[i - 1] \o Chunk(s[i]))[m] = IF m <= l THEN f[i - 1][m] ELSE Chunk(s[i])[m - l]
          BY ONLY <4>2, <5>1, Zenon
        <5>3. (f[i - 1] \o Chunk(s[i]))[m] = Chunk(s[i])[j]
          BY ONLY <5>1, <5>2
        <5> QED BY <3>1, <5>1, <5>3
      <4> QED BY <4>l, <4>5, <4>6, <4>7
    <3>4. ASSUME NEW r, NEW u \in Seq(Char), Reads(r, u), Extends(u, f[i])
          PROVE  ReadSoFar(r[Len(f[i])], s, i)
      <4> HIDE DEF l, k
      <4>1. l + k <= Len(u) /\ Len(u) \in Nat /\ \A j \in 1..l + k : u[j] = f[i][j]
        BY <3>3, <3>4 DEF Extends
      <4>2. \A j \in 1..k : u[l + j] = Chunk(s[i])[j]
        <5>1. \A j \in 1..k : l + j \in 1..l + k
          BY <3>3
        <5> QED BY <3>3, <4>1, <5>1
      <4>3. Extends(u, f[i - 1])
        <5>1. l <= Len(u) /\ \A j \in 1..l : j \in 1..l + k
          BY <3>3, <4>1
        <5>2. \A j \in 1..l : u[j] = f[i - 1][j]
          BY <3>3, <4>1, <5>1
        <5> QED BY <5>1, <5>2 DEF Extends, l
      <4>4. ReadSoFar(r[l], s, i - 1)
        BY <1>5, <3>1, <3>4, <4>3 DEF l
      <4>5. ReadSoFar(r[l + k], s, i)
        BY <1>4, <3>3, <3>4, <4>1, <4>2, <4>4 DEF k
      <4> QED BY <3>3, <4>5
    <3> QED BY <3>3, <3>4
  <2> QED BY <2>1, <2>2
<1>6. P(n)
  <2>1. P(0) /\ 0 \in 0..n /\ n \in 0..n
    BY <1>0 DEF n
  <2>2. n \in Nat
    BY <1>0 DEF n
  <2> HIDE DEF P
  <2>3. 0 \in T /\ \A k \in 1..n : k - 1 \in T => k \in T
    BY <1>5, <2>1, <2>2
  <2>4. n \in T
    <3> HIDE DEF T
    <3> QED BY <2>1, <2>2, <2>3, UpTo
  <2> QED BY <2>4
<1>7. body \in Seq(Char)
  <2>1. CASE n = 0
    BY <1>3, <2>1
  <2>2. CASE n # 0
    BY <1>3, <1>6, <2>2
  <2> QED BY <2>1, <2>2
<1> HIDE DEF body
<1>8. /\ t \in Seq(Char) /\ Len(t) = Len(body) + 1 /\ t[Len(body) + 1] = "quote"
      /\ Len(body) \in Nat /\ \A j \in 1..Len(body) : t[j] = body[j]
  BY <1>7, CharIs
<1> HIDE DEF t
<1>9. PICK r : Reads(r, t) /\ FoldLeft(ReadChar, Unread, t) = r[Len(t)]
  <2>1. Len(t) \in Nat /\ DOMAIN t = 1..Len(t)
    BY <1>8
  <2> QED BY <2>1, ReadingIs
<1>10. ReadSoFar(r[Len(body)], s, n)
  <2>1. Extends(t, body)
    BY <1>8 DEF Extends
  <2>2. CASE n = 0
    <3>1. r[Len(body)] = Unread
      BY <1>3, <1>9, <2>2 DEF Reads
    <3> QED BY <1>blank, <2>2, <3>1
  <2>3. CASE n # 0
    BY <1>3, <1>6, <1>8, <1>9, <2>1, <2>3
  <2> QED BY <2>2, <2>3
<1>11. r[Len(t)] = ReadChar(r[Len(body)], "quote")
  <2>1. Len(t) \in 1..Len(t) /\ Len(t) - 1 = Len(body) /\ t[Len(t)] = "quote"
    BY <1>8
  <2> QED BY <1>9, <2>1 DEF Reads
<1>12. r[Len(t)].state = "end" /\ r[Len(t)].chars = r[Len(body)].chars
  BY <1>10, <1>11, ReadCharIs, CharIs DEF ReadSoFar
<1>13. r[Len(body)].chars = s
  <2>1. r[Len(body)].chars \in Seq(Char)
    BY <1>10 DEF ReadSoFar, ReadState
  <2>2. Len(r[Len(body)].chars) = Len(s) /\ \A i \in 1..Len(s) : r[Len(body)].chars[i] = s[i]
    BY <1>10 DEF ReadSoFar, n
  <2> QED BY <2>1, <2>2, SeqEqual
<1>14. Tail(Quoted(s)) = t
  <2>1. Quoted(s) = <<"quote">> \o body \o <<"quote">>
    BY DEF Quoted, body, chunks, Chunk
  <2>2. Tail(<<"quote">> \o body \o <<"quote">>) = body \o <<"quote">>
    BY <1>7, CharIs
  <2> QED BY <2>1, <2>2 DEF t
<1>15. ReadString(Quoted(s)) = r[Len(t)]
  BY <1>9, <1>14 DEF ReadString, Unread
<1> QED BY <1>12, <1>13, <1>15

(* What a sequence of sequences holds when it is flattened.                *)
LEMMA FlattenedIn ==
  ASSUME NEW S, NEW s \in Seq(Seq(S))
  PROVE  FlattenSeq(s) \in Seq(S)
<1> DEFINE n == Len(s)
<1>0. n \in Nat /\ \A i \in 1..n : s[i] \in Seq(S)
  OBVIOUS
<1>1. CASE n = 0
  <2>1. s = <<>>
    BY <1>1
  <2>2. FlattenSeq(s) = <<>>
    BY <2>1 DEF FlattenSeq
  <2> QED BY <2>2
<1>2. CASE n # 0
  <2>1. PICK f : Flat(f, s) /\ FlattenSeq(s) = f[n]
    BY <1>0, <1>2, FlattenIs
  <2>2. \A i \in 1..n : f[i] = IF i = 1 THEN s[i] ELSE f[i - 1] \o s[i]
    BY <2>1 DEF Flat
  <2> DEFINE T == {i \in 0..n : i # 0 => f[i] \in Seq(S)}
  <2>3. 0 \in T
    BY <1>0
  <2>4. ASSUME NEW i \in 1..n, i - 1 \in T PROVE i \in T
    <3>1. CASE i = 1
      <4>1. f[i] = s[i]
        BY <2>2, <3>1
      <4> QED BY <1>0, <4>1
    <3>2. CASE i # 1
      <4>0. f[i] = IF i = 1 THEN s[i] ELSE f[i - 1] \o s[i]
        BY <2>2
      <4>1. f[i] = f[i - 1] \o s[i] /\ i - 1 # 0
        <5>1. i - 1 # 0
          BY <3>2
        <5> QED BY <3>2, <4>0, <5>1
      <4>2. f[i - 1] \in Seq(S) /\ s[i] \in Seq(S)
        BY <1>0, <2>4, <4>1
      <4>3. f[i] \in Seq(S)
        BY <4>1, <4>2
      <4> QED BY <1>0, <4>3
    <3> QED BY <3>1, <3>2
  <2>5. n \in 0..n
    BY <1>0
  <2>6. n \in T
    <3> HIDE DEF T, n
    <3> QED BY <1>0, <2>3, <2>4, <2>5, UpTo
  <2> QED BY <1>2, <2>1, <2>6
<1> QED BY <1>1, <1>2

(* The arguments of a program.                                             *)
ArgsOf(prog) == {a \in Argument : \E i \in DOMAIN prog : \E k \in DOMAIN prog[i].args :
                                    a = prog[i].args[k]}

LEMMA StringsOf ==
  ASSUME NEW prog \in Seq(Statement)
  PROVE  Strings(AllArgs(prog)) \in Seq({a \in ArgsOf(prog) : IsString(a)})
<1> DEFINE A == ArgsOf(prog)
           B == {a \in A : IsString(a)}
<1>1. \A i \in 1..Len(prog) : prog[i].args \in Seq(A)
  <2> SUFFICES ASSUME NEW i \in 1..Len(prog) PROVE prog[i].args \in Seq(A)
    OBVIOUS
  <2>1. i \in DOMAIN prog /\ prog[i].args \in Seq(Argument)
    <3>1. prog[i] \in Statement /\ i \in DOMAIN prog
      OBVIOUS
    <3>2. \A x \in Statement : x.args \in Seq(Argument)
      BY DEF Statement
    <3> QED BY <3>1, <3>2
  <2>2. \A k \in 1..Len(prog[i].args) : prog[i].args[k] \in A
    BY <2>1 DEF ArgsOf
  <2> HIDE DEF A
  <2> QED BY <2>1, <2>2
<1>2. [i \in DOMAIN prog |-> prog[i].args] \in Seq(Seq(A))
  <2> HIDE DEF A
  <2>1. DOMAIN prog = 1..Len(prog) /\ Len(prog) \in Nat
    OBVIOUS
  <2>2. [i \in DOMAIN prog |-> prog[i].args] \in [1..Len(prog) -> Seq(A)]
    BY <1>1, <2>1
  <2> QED BY <2>1, <2>2, SeqDef
<1>3. AllArgs(prog) \in Seq(A)
  <2> HIDE DEF A
  <2> QED BY <1>2, FlattenedIn DEF AllArgs
<1> DEFINE args == AllArgs(prog)
<1> HIDE DEF A, args
<1>4. \A i \in 1..Len(args) : (IF IsString(args[i]) THEN <<args[i]>> ELSE <<>>) \in Seq(B)
  <2> SUFFICES ASSUME NEW i \in 1..Len(args)
               PROVE  (IF IsString(args[i]) THEN <<args[i]>> ELSE <<>>) \in Seq(B)
    OBVIOUS
  <2>1. args[i] \in A
    BY <1>3 DEF args
  <2>2. IsString(args[i]) => args[i] \in B
    BY <2>1
  <2> HIDE DEF B
  <2> QED BY <2>2
<1>5. [i \in DOMAIN args |-> IF IsString(args[i]) THEN <<args[i]>> ELSE <<>>] \in Seq(Seq(B))
  <2> HIDE DEF B
  <2>1. DOMAIN args = 1..Len(args) /\ Len(args) \in Nat
    BY <1>3 DEF args
  <2>2. [i \in DOMAIN args |-> IF IsString(args[i]) THEN <<args[i]>> ELSE <<>>] \in [1..Len(args) -> Seq(B)]
    BY <1>4, <2>1
  <2> QED BY <2>1, <2>2, SeqDef
<1>6. Strings(args) \in Seq(B)
  <2> HIDE DEF B
  <2> QED BY <1>5, FlattenedIn DEF Strings
<1> QED BY <1>6 DEF A, args

(* The text of a program without backslashes in its strings is one that as *)
(* takes.                                                                  *)
LEMMA AssemblesWell ==
  ASSUME NEW prog \in Seq(Statement), ~Backslash(prog)
  PROVE  Assembles(compilation_context(prog))
<1> DEFINE strings == Strings(AllArgs(prog))
           d == asm_data(prog)
<1>1. strings \in Seq({a \in ArgsOf(prog) : IsString(a)})
  BY StringsOf
<1> HIDE DEF strings
<1>2. d = [i \in DOMAIN strings |-> [label |-> i - 1, param |-> Quoted(strings[i].val)]]
  BY DEF asm_data, strings
<1> HIDE DEF d
<1>3. DOMAIN d = 1..Len(strings) /\ Len(strings) \in Nat
  BY <1>1, <1>2
<1>4. ASSUME NEW i \in 1..Len(strings)
      PROVE  d[i].label = i - 1 /\ ReadString(d[i].param).state = "end"
  <2>1. d[i] = [label |-> i - 1, param |-> Quoted(strings[i].val)]
    BY <1>2, <1>3
  <2>2. strings[i] \in ArgsOf(prog) /\ IsString(strings[i])
    BY <1>1
  <2>3. strings[i] \in Argument /\ strings[i].type = "string"
    BY <2>2 DEF ArgsOf, IsString
  <2>4. strings[i].val \in Seq(STRING)
    BY <2>3 DEF Argument
  <2>5. ~Contains(strings[i].val, "backslash")
    BY <2>2 DEF ArgsOf, IsString, Backslash
  <2> DEFINE v == strings[i].val
  <2>6. v \in Seq(Char)
    <3>1. STRING \subseteq Char
      BY DEF Char
    <3> HIDE DEF v
    <3>2. v \in Seq(STRING)
      BY <2>4 DEF v
    <3>3. Len(v) \in Nat /\ v \in [1..Len(v) -> STRING]
      BY <3>2
    <3>4. v \in [1..Len(v) -> Char]
      BY <3>1, <3>3
    <3> QED BY <3>3, <3>4, SeqDef
  <2> HIDE DEF v
  <2>7. ReadString(Quoted(v)).state = "end"
    BY <2>5, <2>6, StringsReadBack DEF v
  <2> QED BY <2>1, <2>7 DEF v
<1>5. \A i, k \in 1..Len(strings) : d[i].label = d[k].label => i = k
  <2> SUFFICES ASSUME NEW i \in 1..Len(strings), NEW k \in 1..Len(strings), d[i].label = d[k].label
               PROVE  i = k
    OBVIOUS
  <2>1. i - 1 = k - 1
    BY <1>4
  <2> QED BY <2>1
<1>6. compilation_context(prog).data = d
  BY DEF compilation_context, d
<1> QED BY <1>3, <1>4, <1>5, <1>6 DEF Assembles

-----------------------------------------------------------------------------
(* The options that are still to be looked at were given.                  *)
Left == \A i \in DOMAIN options : \E k \in DOMAIN job.options : options[i] = job.options[k]

(* What can leave a file behind: as that refuses, a call that fails after  *)
(* the source has been read.                                               *)
Trouble == Backslash(job.prog) \/ ~(faults \subseteq {"read"})

(* What holds of the driver as long as nothing excuses a failure.          *)
Innocent ==
  /\ pc = "options" => context.arch \in {"unset", "ARCH_X86_64"}
  /\ pc \in {"read", "compile"} => context.arch = "ARCH_X86_64"
  /\ status \notin {"failure", "crashed"}

(* And as long as nothing excuses a file that is left.                     *)
Unharmed ==
  /\ pc \notin {"options", "read", "compile", "end"} => asm = compilation_context(job.prog)
  /\ \A t \in Tools : child[t].state = "exited" => child[t].code = 0
  /\ status \in {"failure", "crashed"} => files[TmpAsm] = Absent /\ files[TmpObj] = Absent

ReasonInv == Left /\ (~Reasons => Innocent) /\ (~Trouble => Unharmed)

LEMMA InitReasonInv == Init => ReasonInv
<1> SUFFICES ASSUME Init PROVE ReasonInv
  OBVIOUS
<1> QED
  BY DEF Init, ReasonInv, Left, Innocent, Unharmed, NoChild

(* Without a reason every option is one that blazec takes.                 *)
LEMMA NoReason ==
  ASSUME ~Reasons
  PROVE  /\ job.infile # NoFile /\ job.syntax /\ Supported(job.prog, job.debug) /\ ~Backslash(job.prog)
         /\ faults = {} /\ ~Trouble
         /\ Left => \A i \in DOMAIN options :
                      options[i].c \notin {"?", ":"} /\ (options[i].c = "a" => options[i].arg = "ARCH_X86_64")
<1>1. \A k \in DOMAIN job.options :
        job.options[k].c \notin {"?", ":"} /\ (job.options[k].c = "a" => job.options[k].arg = "ARCH_X86_64")
  BY DEF Reasons
<1>2. ~Backslash(job.prog) /\ faults = {}
  BY DEF Reasons
<1> QED
  BY <1>1, <1>2 DEF Reasons, Left, Trouble

(* A step that keeps what was asked for and adds no fault.                 *)
LEMMA ReasonsStay ==
  ASSUME UNCHANGED job, faults \subseteq faults'
  PROVE  Reasons => Reasons'
  BY DEF Reasons

(* Before the driver opens a file nothing can be left.                     *)
LEMMA EarlyUnharmed ==
  ASSUME IInv, pc \in {"options", "read", "compile"}, UNCHANGED <<job, child, files>>,
         pc' \in {"options", "read", "compile", "end"} \/ asm' = compilation_context(job.prog)
  PROVE  Unharmed'
<1>1. \A t \in Tools : child[t].state = "none"
  BY DEF IInv, StartedInv, Tools
<1>2. files[TmpAsm] = Absent /\ files[TmpObj] = Absent
  BY DEF IInv, TempInv
<1>3. compilation_context(job.prog)' = compilation_context(job'.prog)
  OBVIOUS
<1> QED
  BY <1>1, <1>2 DEF Unharmed

LEMMA OptionsReason == IInv /\ ReasonInv /\ blazec_process_options => ReasonInv'
<1> SUFFICES ASSUME IInv, ReasonInv, blazec_process_options PROVE ReasonInv'
  OBVIOUS
<1> DEFINE o == Head(options)
<1>1. /\ status = "running" /\ pc = "options" /\ options # <<>>
      /\ UNCHANGED <<job, child, faults, asm, freed, files>>
  BY DEF blazec_process_options, At, Idle, NoFault
<1>2. options \in Seq(Option)
  BY DEF IInv, TypeOK
<1>3. /\ o = options[1] /\ 1 \in DOMAIN options
      /\ DOMAIN Tail(options) = 1..(Len(options) - 1)
      /\ \A i \in DOMAIN Tail(options) : Tail(options)[i] = options[i + 1] /\ i + 1 \in DOMAIN options
  BY <1>1, <1>2
<1>4. Reasons => Reasons'
  BY <1>1, ReasonsStay
<1>5. ~Reasons => /\ context.arch \in {"unset", "ARCH_X86_64"}
                  /\ o.c \notin {"?", ":"} /\ (o.c = "a" => o.arg = "ARCH_X86_64")
  BY <1>1, <1>3, NoReason DEF ReasonInv, Innocent
<1> HIDE DEF o
<1>6. CASE /\ options' = Tail(options) /\ UNCHANGED <<pc, status>>
           /\ context'.arch \in {context.arch, o.arg}
           /\ o.c # "a" => context'.arch = context.arch
  <2>1. Left'
    BY <1>1, <1>3, <1>6 DEF ReasonInv, Left
  <2>2. ASSUME ~Reasons PROVE Innocent'
    <3>1. context'.arch \in {"unset", "ARCH_X86_64"}
      BY <1>5, <1>6, <2>2
    <3>2. pc' = "options" /\ status' = "running"
      BY <1>1, <1>6
    <3> QED BY <3>1, <3>2 DEF Innocent
  <2>3. Unharmed'
    BY <1>1, <1>6, EarlyUnharmed
  <2> QED BY <1>4, <2>1, <2>2, <2>3 DEF ReasonInv
<1>7. CASE /\ o.c \in {"?", ":"} \/ (o.c = "a" /\ o.arg = "invalid")
           /\ fatal_error /\ UNCHANGED options
  <2>1. Reasons
    BY <1>5, <1>7
  <2>2. Left'
    BY <1>1, <1>7 DEF ReasonInv, Left
  <2>3. Unharmed'
    BY <1>1, <1>7, EarlyUnharmed DEF fatal_error, End
  <2> QED BY <1>4, <2>1, <2>2, <2>3 DEF ReasonInv
<1> QED
  <2>1. CASE ~(o.c \in {"?", ":"} \/ (o.c = "a" /\ o.arg = "invalid"))
    <3>1. /\ options' = Tail(options) /\ UNCHANGED <<pc, status>>
          /\ \E m : context' = [context EXCEPT
               !.outfile = IF o.c = "o" THEN o.arg ELSE @,
               !.arch    = IF o.c = "a" THEN o.arg ELSE @,
               !.mode    = m]
      BY <2>1, Zenon DEF blazec_process_options, o
    <3>2. context \in [mode : Mode, arch : Arch \cup {"unset"}, outfile : File \cup {NoFile}]
      BY DEF IInv, TypeOK
    <3>3. context'.arch = IF o.c = "a" THEN o.arg ELSE context.arch
      BY <3>1, <3>2
    <3> QED BY <1>6, <3>1, <3>3
  <2>2. CASE o.c \in {"?", ":"} \/ (o.c = "a" /\ o.arg = "invalid")
    <3>1. fatal_error /\ UNCHANGED options
      BY <2>2, Zenon DEF blazec_process_options, o
    <3> QED BY <1>7, <2>2, <3>1
  <2> QED BY <2>1, <2>2

LEMMA mainReason == IInv /\ ReasonInv /\ main => ReasonInv'
<1> SUFFICES ASSUME IInv, ReasonInv, main PROVE ReasonInv'
  OBVIOUS
<1>1. /\ status = "running" /\ pc = "options" /\ pc' \in {"read", "end"}
      /\ UNCHANGED <<job, child, faults, options, asm, freed, files>>
  BY DEF main, At, Idle, NoFault, Then, fatal_error, End
<1>2. Left' /\ (Reasons => Reasons')
  BY <1>1, ReasonsStay DEF ReasonInv, Left
<1>3. ASSUME ~Reasons PROVE Innocent'
  <2>1. /\ job.infile # NoFile
        /\ context' = [context EXCEPT
                !.outfile = IF @ = NoFile THEN blazec_determine_outfile_name(job.infile, context.mode)
                            ELSE @,
                !.arch = IF @ = "unset" THEN "ARCH_X86_64" ELSE @]
        /\ pc' = "read" /\ UNCHANGED status
    BY <1>3, NoReason DEF main, Then
  <2>2. context \in [mode : Mode, arch : Arch \cup {"unset"}, outfile : File \cup {NoFile}]
    BY DEF IInv, TypeOK
  <2>3. context.arch \in {"unset", "ARCH_X86_64"}
    BY <1>1, <1>3 DEF ReasonInv, Innocent
  <2>4. context'.arch = "ARCH_X86_64"
    BY <2>1, <2>2, <2>3
  <2> QED BY <1>1, <2>1, <2>4 DEF Innocent
<1>4. Unharmed'
  BY <1>1, EarlyUnharmed
<1> QED BY <1>2, <1>3, <1>4 DEF ReasonInv

LEMMA ReadReason == IInv /\ ReasonInv /\ ReadSource => ReasonInv'
<1> SUFFICES ASSUME IInv, ReasonInv, ReadSource PROVE ReasonInv'
  OBVIOUS
<1>1. /\ status = "running" /\ pc = "read" /\ pc' \in {"compile", "end"}
      /\ UNCHANGED <<job, child, options, context, asm, freed, files>>
      /\ faults \subseteq faults'
  BY DEF ReadSource, At, Idle, NoFault, Fault, Then, fatal_error, End
<1>2. Left' /\ (Reasons => Reasons')
  BY <1>1, ReasonsStay DEF ReasonInv, Left
<1>3. ASSUME ~Reasons' PROVE Innocent'
  <2>1. ~Reasons /\ faults' = {}
    BY <1>2, <1>3 DEF Reasons
  <2>2. pc' = "compile" /\ UNCHANGED status
    BY <2>1, NoReason DEF ReadSource, Fault, Then
  <2> QED BY <1>1, <2>1, <2>2 DEF ReasonInv, Innocent
<1>4. Unharmed'
  BY <1>1, EarlyUnharmed
<1> QED BY <1>2, <1>3, <1>4 DEF ReasonInv

LEMMA compileReason == IInv /\ ReasonInv /\ compile => ReasonInv'
<1> SUFFICES ASSUME IInv, ReasonInv, compile PROVE ReasonInv'
  OBVIOUS
<1>1. /\ status = "running" /\ pc = "compile"
      /\ UNCHANGED <<job, child, faults, options, context, freed, files>>
      /\ pc' = "end" \/ asm' = compilation_context(job.prog)
  BY DEF compile, At, Idle, NoFault, fatal_error, End
<1>2. Left' /\ (Reasons => Reasons')
  BY <1>1, ReasonsStay DEF ReasonInv, Left
<1>3. ASSUME ~Reasons PROVE Innocent'
  <2>1. context.arch = "ARCH_X86_64" /\ Supported(job.prog, job.debug)
    BY <1>1, <1>3, NoReason DEF ReasonInv, Innocent
  <2>2. pc' = First /\ UNCHANGED status
    BY <2>1 DEF compile, Then
  <2>3. context.mode \in Mode
    BY DEF IInv, TypeOK
  <2>4. First \in {"open", "mkstemp_asm", "mkstemp_obj", "write"}
    BY <2>3, FirstIs DEF Mode
  <2> HIDE DEF compile
  <2> QED BY <1>1, <2>2, <2>4 DEF Innocent
<1>4. Unharmed'
  BY <1>1, EarlyUnharmed
<1> QED BY <1>2, <1>3, <1>4 DEF ReasonInv

(* Every later step of the driver: it goes on if nothing has failed.       *)
LEMMA LaterReason ==
  ASSUME ReasonInv, UNCHANGED <<job, options, asm>>, faults \subseteq faults',
         pc \notin {"options", "read", "compile", "end"}, pc' \notin {"options", "read", "compile"},
         status \notin {"failure", "crashed"},
         ~Trouble /\ faults' \subseteq {"read"} =>
           /\ UNCHANGED status
              \/ status' = "success"
           /\ \A t \in Tools : child'[t].state = "exited" => child'[t].code = 0
  PROVE  ReasonInv'
<1>1. Left' /\ (Reasons => Reasons')
  BY ReasonsStay DEF ReasonInv, Left
<1>2. ~Trouble' => ~Trouble /\ faults' \subseteq {"read"}
  BY DEF Trouble
<1>3. ASSUME ~Reasons' PROVE Innocent'
  <2>1. ~Reasons /\ faults' = {}
    BY <1>1, <1>3 DEF Reasons
  <2>2. ~Trouble /\ faults' \subseteq {"read"}
    BY <2>1, NoReason
  <2> QED BY <2>2 DEF Innocent
<1>4. ASSUME ~Trouble' PROVE Unharmed'
  BY <1>2, <1>4 DEF ReasonInv, Unharmed
<1> QED BY <1>1, <1>3, <1>4 DEF ReasonInv

(* The children of a driver that nothing has troubled have not failed.     *)
LEMMA FineSoFar ==
  ASSUME ReasonInv
  PROVE  ~Trouble => \A t \in Tools : child[t].state = "exited" => child[t].code = 0
  BY DEF ReasonInv, Unharmed

LEMMA OpensReason ==
  ASSUME ReasonInv, OpenOutput \/ mkstemp_asm \/ mkstemp_obj \/ blazec_write_assembly
  PROVE  ReasonInv'
<1>1. ASSUME OpenOutput \/ mkstemp_asm PROVE ReasonInv'
  <2>1. /\ UNCHANGED <<job, options, asm, child>> /\ faults \subseteq faults'
        /\ pc \in {"open", "mkstemp_asm"} /\ pc' \in {"write", "end"} /\ status = "running"
        /\ UNCHANGED status \/ pc \in faults'
    BY <1>1 DEF OpenOutput, mkstemp_asm, Open, Idle, NoFault, Fault, At, Then, End
  <2> QED BY <2>1, FineSoFar, LaterReason
<1>2. ASSUME mkstemp_obj PROVE ReasonInv'
  <2>1. /\ UNCHANGED <<job, options, asm, child, status>> /\ faults \subseteq faults'
        /\ pc = "mkstemp_obj" /\ pc' = "mkstemp_asm" /\ status = "running"
    BY <1>2 DEF mkstemp_obj, Idle, NoFault, Fault, At, Then
  <2> QED BY <2>1, FineSoFar, LaterReason
<1>3. ASSUME blazec_write_assembly PROVE ReasonInv'
  <2>1. /\ UNCHANGED <<job, options, asm, child, status>> /\ faults \subseteq faults'
        /\ pc = "write" /\ pc' \in {"fork_as", "free"} /\ status = "running"
    BY <1>3 DEF blazec_write_assembly, Idle, NoFault, Fault, At, Then
  <2> QED BY <2>1, FineSoFar, LaterReason
<1> QED BY <1>1, <1>2, <1>3

LEMMA ForksReason ==
  ASSUME IInv, ReasonInv, fork_as \/ fork_ld
  PROVE  ReasonInv'
<1>1. /\ UNCHANGED <<job, options, asm>> /\ faults \subseteq faults' /\ status = "running"
      /\ pc \in {"fork_as", "fork_ld"} /\ pc' \in {"wait_as", "wait_ld", "end"}
      /\ \/ pc \in faults'
         \/ /\ UNCHANGED status
            /\ \E t \in Tools : \E in, out : child' = [child EXCEPT ![t] = Child(in, out)]
  BY DEF fork_as, fork_ld, fork, NoFault, Fault, At, Then, fatal_error, End, Tools
<1>2. ASSUME NEW t \in Tools, NEW in, NEW out, child' = [child EXCEPT ![t] = Child(in, out)],
             \A u \in Tools : child[u].state = "exited" => child[u].code = 0
      PROVE  \A u \in Tools : child'[u].state = "exited" => child'[u].code = 0
  <2>1. child \in [Tools -> Process]
    BY DEF IInv, TypeOK
  <2>2. \A u \in Tools : child'[u] = IF u = t THEN Child(in, out) ELSE child[u]
    BY <1>2, <2>1
  <2>3. Child(in, out).state = "forked"
    BY DEF Child
  <2> QED BY <1>2, <2>2, <2>3
<1> QED BY <1>1, <1>2, FineSoFar, LaterReason

LEMMA WaitsReason ==
  ASSUME IInv, ReasonInv, NEW p \in {"wait_as", "wait_ld"}, NEW next \in {"unlink_asm", "unlink_obj"},
         wait(p, next)
  PROVE  ReasonInv'
<1>1. /\ UNCHANGED <<job, options, asm>> /\ faults \subseteq faults' /\ status = "running"
      /\ pc = p /\ pc' \in {next, "end"}
  BY WaitGives DEF fatal_error, End
<1>2. ASSUME ~Trouble, faults' \subseteq {"read"}
      PROVE  UNCHANGED status /\ \A t \in Tools : child'[t].state = "exited" => child'[t].code = 0
  <2>1. \A t \in Tools : child[t].state = "exited" => child[t].code = 0
    BY <1>2, FineSoFar
  <2>2. "wait" \notin faults'
    BY <1>2
  <2>3. ~fatal_error
    <3>1. PICK code \in {0, 1} :
            /\ \/ \E t \in Tools : /\ child[t].state = "exited" /\ child[t].code = code
                                   /\ child' = [child EXCEPT ![t] = NoChild]
                                   /\ NoFault
               \/ UNCHANGED child /\ Fault("wait")
            /\ \/ code = 0 /\ Then(next)
               \/ code # 0 /\ fatal_error
      BY DEF wait
    <3>2. code = 0
      BY <2>1, <2>2, <3>1 DEF Fault
    <3>3. UNCHANGED status
      BY <3>1, <3>2 DEF Then
    <3> QED BY <1>1, <3>3 DEF fatal_error, End
  <2>4. UNCHANGED status
    BY <2>3, WaitGives
  <2>5. \A t \in Tools : child'[t] \in {child[t], NoChild}
    BY WaitGives
  <2> QED BY <2>1, <2>4, <2>5 DEF NoChild
<1> QED BY <1>1, <1>2, LaterReason

LEMMA LastReason ==
  ASSUME ReasonInv, unlink_asm \/ unlink_obj \/ compilation_context_destroy
  PROVE  ReasonInv'
<1>1. ASSUME unlink_asm \/ unlink_obj PROVE ReasonInv'
  <2>1. /\ UNCHANGED <<job, options, asm, child, status>> /\ faults \subseteq faults'
        /\ pc \in {"unlink_asm", "unlink_obj"} /\ pc' \in {"free", "fork_ld"} /\ status = "running"
    BY <1>1 DEF unlink_asm, unlink_obj, unlink, Idle, NoFault, Fault, At, Then
  <2> QED BY <2>1, FineSoFar, LaterReason
<1>2. ASSUME compilation_context_destroy PROVE ReasonInv'
  <2>1. /\ UNCHANGED <<job, options, asm, child, faults>> /\ status = "running"
        /\ pc = "free" /\ pc' = "end" /\ status' = "success"
    BY <1>2 DEF compilation_context_destroy, Idle, NoFault, At, End
  <2> QED BY <2>1, FineSoFar, LaterReason
<1> QED BY <1>1, <1>2

(* The tools refuse nothing that the compiler has made without a reason.   *)
LEMMA ToolReason ==
  ASSUME IInv, ReasonInv, NEW t \in Tools,
         ChildFails(t) \/ ToolReads(t) \/ ToolRefuses(t) \/ ToolOpens(t) \/ ToolWrites(t)
  PROVE  ReasonInv'
<1>1. /\ UNCHANGED <<job, options, asm, pc, status>> /\ faults \subseteq faults'
      /\ child[t].state # "none"
      /\ "wait" \in faults' => "wait" \in faults
  BY DEF ChildFails, ToolReads, ToolRefuses, ToolOpens, ToolWrites, Running, NoFault, Fault, Tools
<1>2. CASE "wait" \in faults
  <2>1. Reasons /\ Trouble
    BY <1>2 DEF Reasons, Trouble
  <2>2. Reasons' /\ Trouble' /\ Left'
    BY <1>1, <2>1, <1>2, ReasonsStay DEF Trouble, ReasonInv, Left
  <2> QED BY <2>2 DEF ReasonInv
<1>3. CASE "wait" \notin faults
  <2>1. pc = Waits(t) /\ pc \in {"wait_as", "wait_ld"} /\ status = "running"
    BY <1>1, <1>3, ToolAt DEF Waited, Waits, IInv, RunsInv
  <2>2. ASSUME ~Trouble, faults' \subseteq {"read"}
        PROVE  \A u \in Tools : child'[u].state = "exited" => child'[u].code = 0
    <3>1. ~ChildFails(t)
      BY <2>2 DEF ChildFails, Fault, Tools
    <3>2. ~ToolRefuses(t)
      <4> SUFFICES ASSUME ToolRefuses(t) PROVE FALSE
        OBVIOUS
      <4>1. child[t].state = "reading" /\ ~Acceptable(t)
        BY DEF ToolRefuses, Running
      <4>2. child[t].read.kind = IF t = "as" THEN "asm" ELSE "obj"
        BY <1>3, <4>1, IInvInputReady DEF InputReady
      <4>3. t = "as" /\ ~Assembles(asm)
        BY <4>1, <4>2 DEF Acceptable, Tools
      <4>4. asm = compilation_context(job.prog)
        BY <2>1, <2>2 DEF ReasonInv, Unharmed
      <4>5. job.prog \in Seq(Statement) /\ ~Backslash(job.prog)
        BY <2>2, JobAssumption DEF IInv, Trouble
      <4> QED BY <4>3, <4>4, <4>5, AssemblesWell
    <3>3. \A u \in Tools : u # t => child'[u] = child[u]
      BY DEF ChildFails, ToolReads, ToolRefuses, ToolOpens, ToolWrites, IInv, TypeOK
    <3>4. child[t] \in Process /\ child \in [Tools -> Process]
      BY DEF IInv, TypeOK
    <3>5. CASE ToolReads(t) \/ ToolOpens(t)
      <4>1. child'[t].state \in {"reading", "writing"}
        BY <3>4, <3>5 DEF ToolReads, ToolOpens, Process
      <4> QED BY <2>2, <3>3, <4>1, FineSoFar
    <3>6. CASE ToolWrites(t)
      <4>1. child'[t].code = 0
        BY <3>4, <3>6 DEF ToolWrites, Process
      <4> QED BY <2>2, <3>3, <4>1, FineSoFar
    <3> QED BY <3>1, <3>2, <3>5, <3>6
  <2> QED BY <1>1, <2>1, <2>2, LaterReason
<1> QED BY <1>2, <1>3

LEMMA NextReasonInv == IInv /\ ReasonInv /\ [Next]_driver => ReasonInv'
<1> SUFFICES ASSUME IInv, ReasonInv, [Next]_driver PROVE ReasonInv'
  OBVIOUS
<1>1. CASE Parent
  <2>1. CASE wait_as \/ wait_ld
    BY <2>1, WaitsReason DEF wait_as, wait_ld
  <2> QED
    BY <1>1, <2>1, OptionsReason, mainReason, ReadReason, compileReason, OpensReason, ForksReason,
       LastReason DEF Parent
<1>2. CASE Tool
  BY <1>2, ToolReason DEF Tool
<1>3. CASE UNCHANGED driver
  BY <1>3 DEF driver, ReasonInv, Left, Innocent, Unharmed, Reasons, Trouble
<1> QED
  BY <1>1, <1>2, <1>3 DEF Next

(* What is left, from both invariants.                                     *)
LEMMA ReasonTidy == IInv /\ ReasonInv => Tidy
<1> SUFFICES ASSUME IInv, ReasonInv PROVE Tidy
  OBVIOUS
<1>1. status = "success" =>
        /\ files[TmpAsm] = Absent <=> "unlink_asm" \notin faults
        /\ "wait" \notin faults => (files[TmpObj] = Absent <=> "unlink_obj" \notin faults)
  BY DEF IInv, TempInv, Waited
<1>2. (status # "running" /\ "wait" \notin faults) => \A t \in Tools : child[t] = NoChild
  BY DEF IInv, RunsInv, ChildInv, Waited, Tools
<1>3. (status # "running" /\ faults \subseteq {"read"} /\ ~Backslash(job.prog)) =>
        files[TmpAsm] = Absent /\ files[TmpObj] = Absent
  <2>1. status \in {"running", "success", "failure", "crashed"}
    BY DEF IInv, TypeOK
  <2> QED BY <1>1, <2>1 DEF ReasonInv, Unharmed, Trouble
<1> QED BY <1>1, <1>2, <1>3 DEF Tidy

(* blazec fails only for a reason: a wrong command line or program, a      *)
(* backslash in a string, or a call to the system that failed.  What it    *)
(* writes for any other program, as takes: the labels differ, and every    *)
(* string is read back with its quotes as the program has it.              *)
THEOREM BlazecFailsForAReason == Spec => []FailsForAReason
<1>1. ReasonInv => FailsForAReason
  BY DEF ReasonInv, Innocent, FailsForAReason
<1> QED
  BY <1>1, InitReasonInv, NextReasonInv, DriverInv, PTL DEF Spec

(* What is left behind: after status 0 a temporary file stays exactly if   *)
(* unlink has failed, no child is left unless wait has failed, and a wrong *)
(* command line or program leaves no file at any end.  The last needs what *)
(* as makes of the text: it refuses none that the compiler has written.    *)
THEOREM BlazecTidy == Spec => []Tidy
  BY ReasonTidy, InitReasonInv, NextReasonInv, DriverInv, PTL DEF Spec

(* The same of the composition: unless a write was short or wait did not   *)
(* give the status of the child it was meant for, success means a complete *)
(* executable, and the program that starts is the one that was compiled.   *)
THEOREM NativeWrites == NativeSpec => [](ZeroMeansWritten /\ SourceKept /\ Tidy)
  BY NativeImplementsDriver, BlazecWrites, BlazecKeepsSource, BlazecTidy, PTL

-----------------------------------------------------------------------------
(* How FlattenSeq goes with Append and with the concatenation.             *)
LEMMA PrefixIs ==
  ASSUME NEW S, NEW s \in Seq(S), NEW k \in 1..Len(s)
  PROVE  /\ SubSeq(s, 1, k) \in Seq(S) /\ SubSeq(s, 1, k - 1) \in Seq(S)
         /\ SubSeq(s, 1, k) = Append(SubSeq(s, 1, k - 1), s[k])
         /\ Len(SubSeq(s, 1, k)) = k /\ Len(SubSeq(s, 1, k - 1)) = k - 1
         /\ s[k] \in S
<1>1. Len(s) \in Nat /\ k \in Int /\ 1 <= k /\ k <= Len(s) /\ \A i \in 1..Len(s) : s[i] \in S
  OBVIOUS
<1> DEFINE a == SubSeq(s, 1, k)
           b == SubSeq(s, 1, k - 1)
           c == Append(b, s[k])
<1>2. a \in Seq(S) /\ Len(a) = k /\ \A i \in 1..k : a[i] = s[i]
  <2>1. \A i \in 1..k : s[i] \in S
    BY <1>1
  <2>2. /\ SubSeq(s, 1, k) \in Seq(S)
        /\ Len(SubSeq(s, 1, k)) = IF 1 <= k THEN k - 1 + 1 ELSE 0
        /\ \A i \in 1..(k - 1 + 1) : SubSeq(s, 1, k)[i] = s[1 + i - 1]
    BY <1>1, <2>1, SubSeqProperties
  <2>3. k - 1 + 1 = k /\ \A i \in 1..k : 1 + i - 1 = i
    BY <1>1
  <2> QED BY <1>1, <2>2, <2>3
<1>3. b \in Seq(S) /\ Len(b) = k - 1 /\ \A i \in 1..(k - 1) : b[i] = s[i]
  <2> DEFINE m == k - 1
  <2>0. m \in Int /\ 0 <= m /\ m <= Len(s)
    BY <1>1
  <2>1. \A i \in 1..m : s[i] \in S
    BY <1>1, <2>0
  <2> HIDE DEF m
  <2>2. /\ SubSeq(s, 1, m) \in Seq(S)
        /\ Len(SubSeq(s, 1, m)) = IF 1 <= m THEN m - 1 + 1 ELSE 0
        /\ \A i \in 1..(m - 1 + 1) : SubSeq(s, 1, m)[i] = s[1 + i - 1]
    BY <1>1, <2>0, <2>1, SubSeqProperties
  <2>3. m - 1 + 1 = m /\ (IF 1 <= m THEN m - 1 + 1 ELSE 0) = m /\ \A i \in 1..m : 1 + i - 1 = i
    BY <2>0
  <2>4. SubSeq(s, 1, m) \in Seq(S) /\ Len(SubSeq(s, 1, m)) = m /\ \A i \in 1..m : SubSeq(s, 1, m)[i] = s[i]
    BY <2>2, <2>3
  <2> QED BY <2>4 DEF m
<1> HIDE DEF a, b
<1>4. c \in Seq(S) /\ Len(c) = k /\ \A i \in 1..k : c[i] = s[i]
  <2>1. c \in Seq(S) /\ Len(c) = k /\ c[k] = s[k] /\ \A i \in 1..(k - 1) : c[i] = b[i]
    BY <1>1, <1>3
  <2>2. \A i \in 1..k : i = k \/ i \in 1..(k - 1)
    BY <1>1
  <2> HIDE DEF c
  <2> QED BY <1>3, <2>1, <2>2
<1> HIDE DEF c
<1>5. a = c
  <2>1. Len(a) = Len(c) /\ \A i \in 1..Len(a) : a[i] = c[i]
    BY <1>2, <1>4
  <2> QED BY <1>2, <1>4, <2>1, SeqEqual
<1> QED BY <1>1, <1>2, <1>3, <1>5 DEF a, b, c

LEMMA FlattenNone == FlattenSeq(<<>>) = <<>>
  BY DEF FlattenSeq

LEMMA FlattenAppend ==
  ASSUME NEW T, NEW s \in Seq(Seq(T)), NEW x \in Seq(T)
  PROVE  FlattenSeq(Append(s, x)) = FlattenSeq(s) \o x
<1> DEFINE n == Len(s)
           u == Append(s, x)
<1>1. /\ n \in Nat /\ u \in Seq(Seq(T)) /\ Len(u) = n + 1 /\ u[n + 1] = x
      /\ \A i \in 1..n : u[i] = s[i]
  OBVIOUS
<1> HIDE DEF u
<1>2. PICK f : Flat(f, u) /\ FlattenSeq(u) = f[Len(u)]
  BY <1>1, FlattenIs
<1>3. \A i \in 1..(n + 1) : f[i] = IF i = 1 THEN u[i] ELSE f[i - 1] \o u[i]
  BY <1>1, <1>2 DEF Flat
<1>4. CASE n = 0
  <2>1. s = <<>>
    BY <1>4
  <2>2. FlattenSeq(u) = x
    BY <1>1, <1>2, <1>3, <1>4
  <2>3. <<>> \o x = x
    OBVIOUS
  <2> QED BY <2>1, <2>2, <2>3, FlattenNone DEF u
<1>5. CASE n # 0
  <2>1. PICK g : Flat(g, s) /\ FlattenSeq(s) = g[n]
    BY <1>1, <1>5, FlattenIs
  <2>2. \A i \in 1..n : g[i] = IF i = 1 THEN s[i] ELSE g[i - 1] \o s[i]
    BY <2>1 DEF Flat
  <2> DEFINE W == {i \in 0..n : i # 0 => f[i] = g[i]}
  <2>3. 0 \in W /\ n \in 0..n
    BY <1>1
  <2>4. ASSUME NEW i \in 1..n, i - 1 \in W PROVE i \in W
    <3>0. i \in 1..(n + 1) /\ i \in 0..n
      BY <1>1
    <3>a. f[i] = IF i = 1 THEN u[i] ELSE f[i - 1] \o u[i]
      BY <1>3, <3>0
    <3>b. g[i] = IF i = 1 THEN s[i] ELSE g[i - 1] \o s[i]
      BY <2>2
    <3>c. u[i] = s[i]
      BY <1>1
    <3>1. CASE i = 1
      <4>1. f[i] = g[i]
        BY <3>1, <3>a, <3>b, <3>c
      <4> QED BY <3>0, <4>1
    <3>2. CASE i # 1
      <4>1. i - 1 # 0
        BY <3>2
      <4>2. f[i - 1] = g[i - 1]
        BY <2>4, <4>1
      <4>3. f[i] = g[i]
        BY <3>2, <3>a, <3>b, <3>c, <4>2
      <4> QED BY <3>0, <4>3
    <3> QED BY <3>1, <3>2
  <2>5. n \in W
    <3> HIDE DEF W, n
    <3> QED BY <1>1, <2>3, <2>4, UpTo
  <2>6. f[n] = g[n]
    BY <1>5, <2>5
  <2>7. f[n + 1] = IF n + 1 = 1 THEN u[n + 1] ELSE f[n + 1 - 1] \o u[n + 1]
    BY <1>1, <1>3
  <2>8. n + 1 # 1 /\ n + 1 - 1 = n
    BY <1>1, <1>5
  <2>9. f[n + 1] = f[n] \o x
    BY <1>1, <2>7, <2>8
  <2> QED BY <1>1, <1>2, <2>1, <2>6, <2>9 DEF u
<1> QED BY <1>4, <1>5

LEMMA FlattenConcat ==
  ASSUME NEW T, NEW s \in Seq(Seq(T)), NEW t \in Seq(Seq(T))
  PROVE  FlattenSeq(s \o t) = FlattenSeq(s) \o FlattenSeq(t)
<1> DEFINE n == Len(t)
           p(k) == SubSeq(t, 1, k)
           W == {k \in 0..n : FlattenSeq(s \o p(k)) = FlattenSeq(s) \o FlattenSeq(p(k))}
<1>0. n \in Nat /\ n \in 0..n
  OBVIOUS
<1>a. \A u, v, w \in Seq(T) : (u \o v) \o w = u \o (v \o w)
  BY ConcatAssociative
<1>1. 0 \in W
  <2>1. p(0) = <<>>
    OBVIOUS
  <2> HIDE DEF p
  <2>2. s \o <<>> = s /\ FlattenSeq(s) \in Seq(T)
    BY FlattenedIn
  <2>3. FlattenSeq(s) \o <<>> = FlattenSeq(s)
    BY <2>2
  <2>4. FlattenSeq(s \o p(0)) = FlattenSeq(s) \o FlattenSeq(p(0))
    BY <2>1, <2>2, <2>3, FlattenNone
  <2> QED BY <1>0, <2>4
<1>2. ASSUME NEW k \in 1..n, k - 1 \in W PROVE k \in W
  <2> DEFINE q == p(k - 1)
             x == t[k]
  <2>1. q \in Seq(Seq(T)) /\ x \in Seq(T) /\ p(k) = Append(q, x)
    BY PrefixIs
  <2>2. FlattenSeq(s \o q) = FlattenSeq(s) \o FlattenSeq(q)
    BY <1>2
  <2>k. k \in 0..n
    BY <1>0
  <2> HIDE DEF p, q, x
  <2>3. s \o Append(q, x) = Append(s \o q, x) /\ s \o q \in Seq(Seq(T))
    <3>1. /\ s \o Append(q, x) \in Seq(Seq(T)) /\ Append(s \o q, x) \in Seq(Seq(T)) /\ s \o q \in Seq(Seq(T))
          /\ Len(s \o Append(q, x)) = Len(Append(s \o q, x))
      BY <2>1
    <3>2. \A i \in 1..Len(s \o Append(q, x)) : (s \o Append(q, x))[i] = Append(s \o q, x)[i]
      BY <2>1
    <3> QED BY <3>1, <3>2, SeqEqual
  <2>4. FlattenSeq(s \o Append(q, x)) = FlattenSeq(s \o q) \o x
    BY <2>1, <2>3, FlattenAppend
  <2>5. FlattenSeq(Append(q, x)) = FlattenSeq(q) \o x
    BY <2>1, FlattenAppend
  <2>6. FlattenSeq(s) \in Seq(T) /\ FlattenSeq(q) \in Seq(T)
    BY <2>1, FlattenedIn
  <2>7. (FlattenSeq(s) \o FlattenSeq(q)) \o x = FlattenSeq(s) \o (FlattenSeq(q) \o x)
    <3> DEFINE a == FlattenSeq(s)
               b == FlattenSeq(q)
    <3>1. a \in Seq(T) /\ b \in Seq(T) /\ x \in Seq(T)
      BY <2>1, <2>6
    <3> HIDE DEF a, b
    <3>2. (a \o b) \o x = a \o (b \o x)
      BY ONLY <3>1, <1>a, Zenon
    <3> QED BY <3>2 DEF a, b
  <2>8. FlattenSeq(s \o p(k)) = FlattenSeq(s) \o FlattenSeq(p(k))
    BY <2>1, <2>2, <2>4, <2>5, <2>7
  <2> QED BY <2>k, <2>8
<1>3. n \in W
  <2> HIDE DEF W, n
  <2> QED BY <1>0, <1>1, <1>2, UpTo
<1>4. p(n) = t
  <2>1. p(n) \in Seq(Seq(T)) /\ Len(p(n)) = n /\ \A i \in 1..n : p(n)[i] = t[i]
    OBVIOUS
  <2> HIDE DEF p
  <2> QED BY <2>1, SeqEqual
<1> HIDE DEF p
<1> QED BY <1>3, <1>4

-----------------------------------------------------------------------------
(* A sequence made of what a function says of each element.                *)
Apply(h, s)   == [i \in DOMAIN s |-> h[s[i]]]
Maps(h, E, R) == h \in [E -> R]
Cat(s, t)     == s \o t

LEMMA ApplyIs ==
  ASSUME NEW E, NEW R, NEW h, Maps(h, E, R), NEW a \in Seq(E), NEW b \in Seq(E)
  PROVE  /\ Apply(h, a) \in Seq(R) /\ Apply(h, b) \in Seq(R)
         /\ Len(Apply(h, a)) = Len(a) /\ \A i \in 1..Len(a) : Apply(h, a)[i] = h[a[i]]
         /\ Apply(h, a \o b) = Apply(h, a) \o Apply(h, b)
<1>1. ASSUME NEW s \in Seq(E)
      PROVE  Apply(h, s) \in Seq(R) /\ Len(Apply(h, s)) = Len(s)
             /\ \A i \in 1..Len(s) : Apply(h, s)[i] = h[s[i]]
  <2>1. DOMAIN s = 1..Len(s) /\ Len(s) \in Nat /\ \A i \in 1..Len(s) : s[i] \in E
    OBVIOUS
  <2>2. Apply(h, s) \in [1..Len(s) -> R] /\ \A i \in 1..Len(s) : Apply(h, s)[i] = h[s[i]]
    BY <2>1 DEF Apply, Maps
  <2>3. Apply(h, s) \in Seq(R)
    BY <2>1, <2>2, SeqDef
  <2> QED BY <2>1, <2>2, <2>3, LenProperties
<1> DEFINE p == Apply(h, a)
           q == Apply(h, b)
           c == a \o b
           r == Apply(h, c)
<1>2. c \in Seq(E) /\ Len(c) = Len(a) + Len(b)
      /\ \A i \in 1..(Len(a) + Len(b)) : c[i] = IF i <= Len(a) THEN a[i] ELSE b[i - Len(a)]
  BY ConcatProperties
<1>3. /\ p \in Seq(R) /\ Len(p) = Len(a) /\ \A i \in 1..Len(a) : p[i] = h[a[i]]
      /\ q \in Seq(R) /\ Len(q) = Len(b) /\ \A i \in 1..Len(b) : q[i] = h[b[i]]
      /\ r \in Seq(R) /\ Len(r) = Len(c) /\ \A i \in 1..Len(c) : r[i] = h[c[i]]
  BY <1>1, <1>2
<1> HIDE DEF p, q, c, r
<1>4. p \o q \in Seq(R) /\ Len(p \o q) = Len(p) + Len(q)
      /\ \A i \in 1..(Len(p) + Len(q)) : (p \o q)[i] = IF i <= Len(p) THEN p[i] ELSE q[i - Len(p)]
  <2>1. p \in Seq(R) /\ q \in Seq(R)
    BY <1>3
  <2> QED BY ONLY <2>1, ConcatProperties
<1>5. Len(a) \in Nat /\ Len(b) \in Nat
  OBVIOUS
<1>6. ASSUME NEW i \in 1..(Len(a) + Len(b)) PROVE r[i] = (p \o q)[i]
  <2>1. r[i] = h[c[i]] /\ c[i] = (IF i <= Len(a) THEN a[i] ELSE b[i - Len(a)])
        /\ (p \o q)[i] = (IF i <= Len(a) THEN p[i] ELSE q[i - Len(a)])
    BY <1>2, <1>3, <1>4
  <2>2. CASE i <= Len(a)
    <3>1. i \in 1..Len(a)
      BY <1>5, <2>2
    <3> QED BY <1>3, <2>1, <2>2, <3>1
  <2>3. CASE ~(i <= Len(a))
    <3>1. i - Len(a) \in 1..Len(b)
      BY <1>5, <2>3
    <3> QED BY <1>3, <2>1, <2>3, <3>1
  <2> QED BY <2>2, <2>3
<1>7. r = p \o q
  <2>1. Len(r) = Len(p \o q) /\ Len(r) = Len(a) + Len(b)
    BY <1>2, <1>3, <1>4
  <2> QED BY <1>3, <1>4, <1>6, <2>1, SeqEqual
<1> QED BY <1>3, <1>7 DEF p, q, r, c

LEMMA GatherConcat ==
  ASSUME NEW E, NEW T, NEW h, Maps(h, E, Seq(T)), NEW a \in Seq(E), NEW b \in Seq(E)
  PROVE  /\ FlattenSeq(Apply(h, Cat(a, b))) = Cat(FlattenSeq(Apply(h, a)), FlattenSeq(Apply(h, b)))
         /\ FlattenSeq(Apply(h, a)) \in Seq(T)
<1> DEFINE p == Apply(h, a)
           q == Apply(h, b)
<1>1. p \in Seq(Seq(T)) /\ q \in Seq(Seq(T)) /\ Apply(h, a \o b) = p \o q
  BY ApplyIs
<1> HIDE DEF p, q
<1>2. FlattenSeq(p \o q) = FlattenSeq(p) \o FlattenSeq(q)
  BY <1>1, FlattenConcat
<1>3. FlattenSeq(p) \in Seq(T)
  BY <1>1, FlattenedIn
<1> QED BY <1>1, <1>2, <1>3 DEF p, q, Cat

LEMMA GatherOne ==
  ASSUME NEW E, NEW T, NEW h, Maps(h, E, Seq(T)), NEW e \in E
  PROVE  /\ FlattenSeq(Apply(h, <<e>>)) = h[e]
         /\ FlattenSeq(Apply(h, <<>>)) = <<>>
<1>1. Apply(h, <<>>) = <<>>
  <2>1. DOMAIN <<>> = {}
    OBVIOUS
  <2> QED BY <2>1 DEF Apply
<1> DEFINE p == Apply(h, <<e>>)
<1>2. p \in Seq(Seq(T)) /\ Len(p) = 1 /\ p[1] = h[e] /\ h[e] \in Seq(T)
  <2>1. <<e>> \in Seq(E) /\ Len(<<e>>) = 1 /\ <<e>>[1] = e /\ 1 \in 1..Len(<<e>>)
    OBVIOUS
  <2>2. p \in Seq(Seq(T)) /\ Len(p) = Len(<<e>>) /\ \A i \in 1..Len(<<e>>) : p[i] = h[<<e>>[i]]
    <3> DEFINE s == <<e>>
    <3>1. s \in Seq(E)
      BY <2>1
    <3> HIDE DEF s
    <3>2. Apply(h, s) \in Seq(Seq(T)) /\ Len(Apply(h, s)) = Len(s)
          /\ \A i \in 1..Len(s) : Apply(h, s)[i] = h[s[i]]
      BY <3>1, ApplyIs
    <3> QED BY <3>2 DEF s
  <2>3. h[e] \in Seq(T)
    BY DEF Maps
  <2> HIDE DEF p
  <2> QED BY <2>1, <2>2, <2>3
<1> HIDE DEF p
<1>3. PICK f : Flat(f, p) /\ FlattenSeq(p) = f[Len(p)]
  <2>1. Len(p) \in Nat \ {0}
    BY <1>2
  <2> QED BY <2>1, FlattenIs
<1>4. f[1] = p[1]
  BY <1>2, <1>3 DEF Flat
<1> QED BY <1>1, <1>2, <1>3, <1>4, FlattenNone DEF p

-----------------------------------------------------------------------------
(* The arguments and the strings of two parts of a program.                *)
LEMMA StringsConcat ==
  ASSUME NEW a \in Seq(Argument), NEW b \in Seq(Argument)
  PROVE  /\ Strings(a \o b) = Strings(a) \o Strings(b)
         /\ Strings(a) \in Seq(Argument) /\ Strings(b) \in Seq(Argument)
         /\ \A x \in Argument : Strings(<<x>>) = IF IsString(x) THEN <<x>> ELSE <<>>
         /\ Strings(<<>>) = <<>>
<1> DEFINE h == [x \in Argument |-> IF IsString(x) THEN <<x>> ELSE <<>>]
<1>1. Maps(h, Argument, Seq(Argument))
  <2>1. \A x \in Argument : <<x>> \in Seq(Argument) /\ <<>> \in Seq(Argument)
    OBVIOUS
  <2>2. \A x \in Argument : (IF IsString(x) THEN <<x>> ELSE <<>>) \in Seq(Argument)
    BY <2>1, Zenon
  <2> QED BY <2>2, Zenon DEF Maps
<1>2. ASSUME NEW s \in Seq(Argument) PROVE Strings(s) = FlattenSeq(Apply(h, s))
  <2>1. \A i \in DOMAIN s : s[i] \in Argument
    OBVIOUS
  <2>2. \A i \in DOMAIN s : h[s[i]] = IF IsString(s[i]) THEN <<s[i]>> ELSE <<>>
    BY <2>1, Zenon
  <2> HIDE DEF h
  <2>3. Apply(h, s) = [i \in DOMAIN s |-> IF IsString(s[i]) THEN <<s[i]>> ELSE <<>>]
    BY <2>2, Zenon DEF Apply
  <2> QED BY <2>3 DEF Strings
<1>3. ASSUME NEW x \in Argument PROVE Strings(<<x>>) = IF IsString(x) THEN <<x>> ELSE <<>>
  <2>1. h[x] = IF IsString(x) THEN <<x>> ELSE <<>>
    BY Zenon
  <2>2. <<x>> \in Seq(Argument)
    OBVIOUS
  <2> HIDE DEF h
  <2>3. FlattenSeq(Apply(h, <<x>>)) = h[x]
    BY <1>1, GatherOne
  <2> QED BY <1>2, <2>1, <2>2, <2>3
<1> HIDE DEF h
<1>4. a \o b \in Seq(Argument) /\ <<>> \in Seq(Argument)
  BY ConcatProperties
<1>5. /\ FlattenSeq(Apply(h, a \o b)) = FlattenSeq(Apply(h, a)) \o FlattenSeq(Apply(h, b))
      /\ FlattenSeq(Apply(h, a)) \in Seq(Argument) /\ FlattenSeq(Apply(h, b)) \in Seq(Argument)
  <2>0. FlattenSeq(Apply(h, Cat(a, b))) = Cat(FlattenSeq(Apply(h, a)), FlattenSeq(Apply(h, b)))
    BY <1>1, GatherConcat
  <2>1. FlattenSeq(Apply(h, a \o b)) = FlattenSeq(Apply(h, a)) \o FlattenSeq(Apply(h, b))
    BY <2>0, Zenon DEF Cat
  <2>2. FlattenSeq(Apply(h, a)) \in Seq(Argument)
    BY ONLY <1>1, a \in Seq(Argument), b \in Seq(Argument), GatherConcat
  <2>3. FlattenSeq(Apply(h, b)) \in Seq(Argument)
    BY ONLY <1>1, a \in Seq(Argument), b \in Seq(Argument), GatherConcat
  <2> QED BY <2>1, <2>2, <2>3
<1>6. Strings(<<>>) = <<>>
  BY FlattenNone DEF Strings
<1> QED BY <1>2, <1>3, <1>4, <1>5, <1>6

LEMMA AllArgsConcat ==
  ASSUME NEW a \in Seq(Statement), NEW x \in Statement
  PROVE  /\ AllArgs(Append(a, x)) = AllArgs(a) \o x.args
         /\ AllArgs(a) \in Seq(Argument) /\ x.args \in Seq(Argument)
         /\ AllArgs(<<>>) = <<>>
<1> DEFINE h == [s \in Statement |-> s.args]
<1>1. Maps(h, Statement, Seq(Argument)) /\ x.args \in Seq(Argument) /\ h[x] = x.args
  <2>1. \A s \in Statement : s.args \in Seq(Argument)
    BY DEF Statement
  <2>2. h \in [Statement -> Seq(Argument)] /\ h[x] = x.args
    BY <2>1
  <2> HIDE DEF h
  <2> QED BY <2>1, <2>2 DEF Maps
<1>2. ASSUME NEW s \in Seq(Statement) PROVE AllArgs(s) = FlattenSeq(Apply(h, s))
  <2>1. \A i \in DOMAIN s : s[i] \in Statement
    OBVIOUS
  <2>2. \A i \in DOMAIN s : h[s[i]] = s[i].args
    BY <2>1, Zenon
  <2> HIDE DEF h
  <2>3. Apply(h, s) = [i \in DOMAIN s |-> s[i].args]
    BY <2>2, Zenon DEF Apply
  <2> QED BY <2>3 DEF AllArgs
<1> HIDE DEF h
<1>3. /\ FlattenSeq(Apply(h, a \o <<x>>)) = FlattenSeq(Apply(h, a)) \o FlattenSeq(Apply(h, <<x>>))
      /\ FlattenSeq(Apply(h, a)) \in Seq(Argument)
      /\ FlattenSeq(Apply(h, <<x>>)) = x.args
  <2>1. <<x>> \in Seq(Statement)
    OBVIOUS
  <2>2. FlattenSeq(Apply(h, <<x>>)) = h[x]
    BY <1>1, GatherOne
  <2> DEFINE b == <<x>>
  <2>c. b \in Seq(Statement)
    BY <2>1
  <2> HIDE DEF b
  <2>0. FlattenSeq(Apply(h, Cat(a, b))) = Cat(FlattenSeq(Apply(h, a)), FlattenSeq(Apply(h, b)))
    BY <1>1, <2>c, GatherConcat
  <2>3. FlattenSeq(Apply(h, a \o b)) = FlattenSeq(Apply(h, a)) \o FlattenSeq(Apply(h, b))
    BY <2>0, Zenon DEF Cat
  <2>4. FlattenSeq(Apply(h, a)) \in Seq(Argument)
    BY ONLY <1>1, <2>c, a \in Seq(Statement), GatherConcat
  <2> QED BY <1>1, <2>2, <2>3, <2>4 DEF b
<1>4. Append(a, x) = a \o <<x>> /\ Append(a, x) \in Seq(Statement)
  BY AppendIsConcat
<1>5. AllArgs(<<>>) = <<>>
  BY FlattenNone DEF AllArgs
<1> QED BY <1>1, <1>2, <1>3, <1>4, <1>5

-----------------------------------------------------------------------------
(* The code of a program, of which only the labels that are loaded matter. *)
Identifiers == {"libblaze_val_create_intval", "libblaze_val_create_strval", "libblaze_val_free",
                "libblaze_fn_println", "_start", "main", "exit"}
Registers   == {"rdi", "rsi", "rdx", "rcx", "r8", "r9", "rax", "rbp", "rsp"}
Operands    == [type : {"immediate", "register", "offset_register", "identifier", "label"},
                val : Int \cup Registers \cup Identifiers, offset : Int]
Nodes       == {n \in [inst : {"mov", "call", "push", "pop", "add", "ret", "globl", "label"},
                       ops : Seq(Operands)] : n.inst = "mov" => n.ops # <<>>}
Vals        == Int \cup Registers \cup Identifiers
Quiet(code) == code \in Seq(Nodes) /\ Labels(code) = <<>>

LEMMA LabelsConcat ==
  ASSUME NEW a \in Seq(Nodes), NEW b \in Seq(Nodes)
  PROVE  /\ Labels(a \o b) = Labels(a) \o Labels(b)
         /\ Labels(a) \in Seq(Vals) /\ Labels(b) \in Seq(Vals)
<1> DEFINE h == [n \in Nodes |-> IF LoadsLabel(n) THEN <<n.ops[1].val>> ELSE <<>>]
<1>1. Maps(h, Nodes, Seq(Vals))
  <2>1. ASSUME NEW n \in Nodes
        PROVE  (IF LoadsLabel(n) THEN <<n.ops[1].val>> ELSE <<>>) \in Seq(Vals)
    <3>1. CASE LoadsLabel(n)
      <4>1. n.ops \in Seq(Operands) /\ n.ops # <<>>
        BY <3>1 DEF Nodes, LoadsLabel
      <4>2. n.ops[1] \in Operands
        BY <4>1
      <4>3. n.ops[1].val \in Vals
        BY <4>2 DEF Operands, Vals
      <4> QED BY <3>1, <4>3
    <3>2. CASE ~LoadsLabel(n)
      BY <3>2
    <3> QED BY <3>1, <3>2
  <2> QED BY <2>1, Zenon DEF Maps
<1>2. ASSUME NEW s \in Seq(Nodes) PROVE Labels(s) = FlattenSeq(Apply(h, s))
  <2>1. \A i \in DOMAIN s : s[i] \in Nodes
    OBVIOUS
  <2>2. \A i \in DOMAIN s : h[s[i]] = IF LoadsLabel(s[i]) THEN <<s[i].ops[1].val>> ELSE <<>>
    BY <2>1, Zenon
  <2> HIDE DEF h
  <2>3. Apply(h, s) = [i \in DOMAIN s |-> IF LoadsLabel(s[i]) THEN <<s[i].ops[1].val>> ELSE <<>>]
    BY <2>2, Zenon DEF Apply
  <2> QED BY <2>3 DEF Labels
<1> HIDE DEF h
<1>3. a \o b \in Seq(Nodes)
  BY ConcatProperties
<1>4. FlattenSeq(Apply(h, Cat(a, b))) = Cat(FlattenSeq(Apply(h, a)), FlattenSeq(Apply(h, b)))
  BY <1>1, GatherConcat
<1>5. FlattenSeq(Apply(h, a \o b)) = FlattenSeq(Apply(h, a)) \o FlattenSeq(Apply(h, b))
  BY <1>4, Zenon DEF Cat
<1>6. FlattenSeq(Apply(h, a)) \in Seq(Vals)
  BY ONLY <1>1, a \in Seq(Nodes), b \in Seq(Nodes), GatherConcat
<1>7. FlattenSeq(Apply(h, b)) \in Seq(Vals)
  BY ONLY <1>1, a \in Seq(Nodes), b \in Seq(Nodes), GatherConcat
<1> QED BY <1>2, <1>3, <1>5, <1>6, <1>7

LEMMA LabelsOne ==
  ASSUME NEW n \in Nodes
  PROVE  Labels(<<n>>) = IF LoadsLabel(n) THEN <<n.ops[1].val>> ELSE <<>>
<1> DEFINE s == <<n>>
           x == IF LoadsLabel(n) THEN <<n.ops[1].val>> ELSE <<>>
           t == [i \in DOMAIN s |-> IF LoadsLabel(s[i]) THEN <<s[i].ops[1].val>> ELSE <<>>]
<1>1. DOMAIN s = 1..1 /\ s[1] = n /\ DOMAIN t = 1..1
  OBVIOUS
<1>2. t[1] = x
  BY <1>1
<1> HIDE DEF x
<1>3. \A i \in 1..1 : t[i] = x
  BY <1>2
<1>4. t = [i \in 1..1 |-> x]
  <2> HIDE DEF s
  <2> DEFINE u == t
  <2>1. u = [i \in DOMAIN s |-> u[i]]
    BY Zenon
  <2>2. \A i \in DOMAIN s : u[i] = x
    BY <1>1, <1>3
  <2> HIDE DEF u
  <2>3. u = [i \in DOMAIN s |-> x]
    BY <2>1, <2>2, Zenon
  <2> QED BY <1>1, <2>3 DEF u
<1> HIDE DEF t
<1>5. Len(t) = 1 /\ t[1] = x
  BY <1>4
<1>6. PICK f : Flat(f, t) /\ FlattenSeq(t) = f[Len(t)]
  <2>1. Len(t) \in Nat \ {0}
    BY <1>5
  <2> QED BY <2>1, FlattenIs
<1>7. f[1] = t[1]
  BY <1>5, <1>6 DEF Flat
<1>8. FlattenSeq(t) = x
  BY <1>5, <1>6, <1>7
<1> QED BY <1>8 DEF Labels, t, s, x

(* Pieces of code that load no label.                                      *)
LEMMA QuietConcat ==
  ASSUME NEW a, NEW b, Quiet(a), Quiet(b)
  PROVE  Quiet(a \o b)
<1>1. a \in Seq(Nodes) /\ b \in Seq(Nodes) /\ Labels(a) = <<>> /\ Labels(b) = <<>>
  BY DEF Quiet
<1>2. a \o b \in Seq(Nodes)
  BY <1>1, ConcatProperties
<1>3. Labels(a \o b) = Labels(a) \o Labels(b)
  BY ONLY <1>1, LabelsConcat
<1>4. <<>> \o <<>> = <<>>
  OBVIOUS
<1> QED BY <1>1, <1>2, <1>3, <1>4 DEF Quiet

LEMMA QuietNode ==
  ASSUME NEW n \in Nodes, ~LoadsLabel(n)
  PROVE  Quiet(<<n>>)
<1>1. <<n>> \in Seq(Nodes)
  OBVIOUS
<1>2. Labels(<<n>>) = <<>>
  BY LabelsOne
<1> QED BY <1>1, <1>2 DEF Quiet

LEMMA QuietNone == Quiet(<<>>)
<1>1. Labels(<<>>) = <<>>
  <2>1. DOMAIN <<>> = {}
    OBVIOUS
  <2>2. [i \in DOMAIN <<>> |-> IF LoadsLabel(<<>>[i]) THEN <<<<>>[i].ops[1].val>> ELSE <<>>] = <<>>
    BY <2>1
  <2> QED BY <2>2, FlattenNone DEF Labels
<1> QED BY <1>1 DEF Quiet

LEMMA QuietFlatten ==
  ASSUME NEW s, NEW n \in Nat, s = [i \in 1..n |-> s[i]], \A i \in 1..n : Quiet(s[i])
  PROVE  Quiet(FlattenSeq(s))
<1>1. Len(s) = n
  BY LenProperties
<1>2. CASE n = 0
  <2>1. s = <<>>
    BY <1>2
  <2> QED BY <2>1, FlattenNone, QuietNone
<1>3. CASE n # 0
  <2>1. PICK f : Flat(f, s) /\ FlattenSeq(s) = f[n]
    BY <1>1, <1>3, FlattenIs
  <2>2. \A i \in 1..n : f[i] = IF i = 1 THEN s[i] ELSE f[i - 1] \o s[i]
    BY <1>1, <2>1 DEF Flat
  <2> DEFINE W == {i \in 0..n : i # 0 => Quiet(f[i])}
  <2>3. 0 \in W /\ n \in 0..n
    OBVIOUS
  <2>4. ASSUME NEW i \in 1..n, i - 1 \in W PROVE i \in W
    <3>0. i \in 0..n /\ f[i] = (IF i = 1 THEN s[i] ELSE f[i - 1] \o s[i]) /\ Quiet(s[i])
      BY <2>2
    <3>1. CASE i = 1
      BY <3>0, <3>1
    <3>2. CASE i # 1
      <4>1. i - 1 # 0
        BY <3>2
      <4>2. Quiet(f[i - 1])
        BY <2>4, <4>1
      <4>3. Quiet(f[i - 1] \o s[i])
        BY <3>0, <4>2, QuietConcat
      <4> QED BY <3>0, <3>2, <4>3
    <3> QED BY <3>1, <3>2
  <2>5. n \in W
    <3> HIDE DEF W
    <3> QED BY <2>3, <2>4, UpTo
  <2> QED BY <1>3, <2>1, <2>5
<1> QED BY <1>2, <1>3

(* The pieces of a call other than its arguments, and of main.             *)
LEMMA NodeIn ==
  ASSUME NEW i \in {"mov", "call", "push", "pop", "add", "ret", "globl", "label"},
         NEW ops \in Seq(Operands), i = "mov" => ops # <<>> /\ ops[1].type # "label"
  PROVE  Quiet(Node(i, ops))
<1> DEFINE n == [inst |-> i, ops |-> ops]
<1>1. n \in Nodes
  BY DEF Nodes
<1>2. ~LoadsLabel(n)
  BY DEF LoadsLabel
<1> HIDE DEF n
<1>3. Quiet(<<n>>)
  BY <1>1, <1>2, QuietNode
<1> QED BY <1>3 DEF n, Node

LEMMA OperandsIn ==
  /\ \A r \in Registers : REGISTER_X64(r) \in Operands /\ REGISTER_X64(r).type = "register"
  /\ \A r \in Registers, n \in Int : REGISTER_OFFSET(n, r) \in Operands
                                     /\ REGISTER_OFFSET(n, r).type = "offset_register"
  /\ \A n \in Int : IMM64(n) \in Operands /\ IMM64(n).type = "immediate"
  /\ \A n \in Int : IMM_LBL(n) \in Operands /\ IMM_LBL(n).type = "label"
  /\ \A d \in Identifiers : IDENTIFIER(d) \in Operands
  /\ RDI \in Operands /\ RAX \in Operands /\ RBP \in Operands /\ RSP \in Operands
  /\ RDI.type = "register" /\ RAX.type = "register" /\ RBP.type = "register" /\ RSP.type = "register"
<1> USE DEF Operands, Operand
<1>1. \A r \in Registers : REGISTER_X64(r) \in Operands /\ REGISTER_X64(r).type = "register"
  BY DEF REGISTER_X64
<1>2. \A r \in Registers, n \in Int : REGISTER_OFFSET(n, r) \in Operands
                                     /\ REGISTER_OFFSET(n, r).type = "offset_register"
  BY DEF REGISTER_OFFSET
<1>3. \A n \in Int : IMM64(n) \in Operands /\ IMM64(n).type = "immediate"
  BY DEF IMM64
<1>4. \A n \in Int : IMM_LBL(n) \in Operands /\ IMM_LBL(n).type = "label"
  BY DEF IMM_LBL
<1>5. \A d \in Identifiers : IDENTIFIER(d) \in Operands
  BY DEF IDENTIFIER
<1>6. {"rdi", "rax", "rbp", "rsp"} \subseteq Registers
  BY DEF Registers
<1> QED BY <1>1, <1>2, <1>3, <1>4, <1>5, <1>6 DEF RDI, RAX, RBP, RSP

LEMMA QuietNodes ==
  /\ \A d \in Identifiers : Quiet(Node("call", <<IDENTIFIER(d)>>))
  /\ \A d \in Identifiers : Quiet(Node("label", <<IDENTIFIER(d)>>))
                            /\ Quiet(Node("globl", <<IDENTIFIER(d)>>))
  /\ \A r \in Registers : Quiet(Node("push", <<REGISTER_X64(r)>>)) /\ Quiet(Node("pop", <<REGISTER_X64(r)>>))
  /\ \A n \in Int, o \in Operands : Quiet(Node("mov", <<IMM64(n), o>>)) /\ Quiet(Node("add", <<IMM64(n), o>>))
  /\ \A n \in Int, r, t \in Registers : Quiet(Node("mov", <<REGISTER_OFFSET(n, r), REGISTER_X64(t)>>))
  /\ \A r, t \in Registers : Quiet(Node("mov", <<REGISTER_X64(r), REGISTER_X64(t)>>))
  /\ Quiet(Node("ret", <<>>))
<1>1. ASSUME NEW a \in Operands
      PROVE  /\ Quiet(Node("call", <<a>>)) /\ Quiet(Node("label", <<a>>)) /\ Quiet(Node("globl", <<a>>))
             /\ Quiet(Node("push", <<a>>)) /\ Quiet(Node("pop", <<a>>))
  <2>1. <<a>> \in Seq(Operands)
    OBVIOUS
  <2> QED BY <2>1, NodeIn
<1>2. ASSUME NEW a \in Operands, NEW b \in Operands
      PROVE  /\ a.type # "label" => Quiet(Node("mov", <<a, b>>))
             /\ Quiet(Node("add", <<a, b>>))
  <2> DEFINE ops == <<a, b>>
  <2>1. ops \in Seq(Operands) /\ ops # <<>> /\ ops[1] = a
    OBVIOUS
  <2> HIDE DEF ops
  <2>2. Quiet(Node("add", ops)) /\ (a.type # "label" => Quiet(Node("mov", ops)))
    BY <2>1, NodeIn
  <2> QED BY <2>2 DEF ops
<1>3. Quiet(Node("ret", <<>>))
  <2>1. <<>> \in Seq(Operands)
    OBVIOUS
  <2> QED BY <2>1, NodeIn
<1>4. \A d \in Identifiers : IDENTIFIER(d) \in Operands
  BY OperandsIn
<1>5. \A r \in Registers : REGISTER_X64(r) \in Operands /\ REGISTER_X64(r).type # "label"
  BY OperandsIn
<1>6. \A n \in Int, r \in Registers : REGISTER_OFFSET(n, r) \in Operands /\ REGISTER_OFFSET(n, r).type # "label"
  BY OperandsIn
<1>7. \A n \in Int : IMM64(n) \in Operands /\ IMM64(n).type # "label"
  BY OperandsIn
<1> QED BY <1>1, <1>2, <1>3, <1>4, <1>5, <1>6, <1>7

LEMMA NamesIn ==
  /\ {"rdi", "rax", "rbp", "rsp"} \subseteq Registers
  /\ \A i \in 1..6 : ArgRegister[i] \in Registers
  /\ {"libblaze_val_create_intval", "libblaze_val_create_strval", "libblaze_val_free",
      "libblaze_fn_println", "_start", "main", "exit"} = Identifiers
<1>1. \A i \in 1..6 : ArgRegister[i] \in Registers
  BY DEF ArgRegister, Registers
<1> QED BY <1>1 DEF Registers, Identifiers

LEMMA QuietPieces ==
  /\ Quiet(x86_64_compile_root_start)
  /\ Quiet(x86_64_setup_frame) /\ Quiet(x86_64_restore_frame)
  /\ \A argc \in Nat : Quiet(x86_64_compile_call_expr_args_load(argc))
                       /\ Quiet(x86_64_compile_call_expr_free_values(argc))
<1>0. RDI \in Operands /\ RSP \in Operands /\ RDI = REGISTER_X64("rdi") /\ RBP = REGISTER_X64("rbp")
      /\ RSP = REGISTER_X64("rsp")
  BY OperandsIn DEF RDI, RBP, RSP
<1>1. Quiet(x86_64_compile_root_start)
  <2>1. /\ Quiet(Node("globl", <<IDENTIFIER("_start")>>)) /\ Quiet(Node("label", <<IDENTIFIER("_start")>>))
        /\ Quiet(Node("call", <<IDENTIFIER("main")>>)) /\ Quiet(Node("call", <<IDENTIFIER("exit")>>))
    BY QuietNodes, NamesIn
  <2>2. Quiet(Node("mov", <<IMM64(0), RDI>>))
    BY <1>0, QuietNodes
  <2> QED BY <2>1, <2>2, QuietConcat DEF x86_64_compile_root_start
<1>2. Quiet(x86_64_setup_frame) /\ Quiet(x86_64_restore_frame)
  <2>1. Quiet(Node("push", <<RBP>>)) /\ Quiet(Node("pop", <<RBP>>)) /\ Quiet(Node("mov", <<RSP, RBP>>))
    BY <1>0, QuietNodes, NamesIn
  <2> QED BY <2>1, QuietConcat DEF x86_64_setup_frame, x86_64_restore_frame
<1>3. ASSUME NEW argc \in Nat PROVE Quiet(x86_64_compile_call_expr_args_load(argc))
  <2> DEFINE n == IF argc <= 6 THEN argc ELSE 6
             P(i) == Node("mov", <<REGISTER_OFFSET(-8 * i, "rbp"), REGISTER_X64(ArgRegister[i])>>)
             s == [i \in 1..n |-> P(i)]
  <2>1. n \in Nat /\ \A i \in 1..n : i \in 1..6 /\ -8 * i \in Int
    OBVIOUS
  <2> HIDE DEF n
  <2>2. \A i \in 1..n : Quiet(P(i))
    BY <2>1, QuietNodes, NamesIn
  <2> HIDE DEF P
  <2>3. \A i \in 1..n : Quiet(s[i])
    BY <2>2
  <2>4. s = [i \in 1..n |-> s[i]]
    OBVIOUS
  <2> HIDE DEF s
  <2>5. Quiet(FlattenSeq(s))
    BY <2>1, <2>3, <2>4, QuietFlatten
  <2> QED BY <2>5 DEF x86_64_compile_call_expr_args_load, s, P, n
<1>4. ASSUME NEW argc \in Nat PROVE Quiet(x86_64_compile_call_expr_free_values(argc))
  <2> DEFINE c == Node("pop", <<RDI>>) \o Node("call", <<IDENTIFIER("libblaze_val_free")>>)
             s == [i \in 1..argc |-> c]
  <2>1. Quiet(c)
    <3>1. Quiet(Node("pop", <<RDI>>)) /\ Quiet(Node("call", <<IDENTIFIER("libblaze_val_free")>>))
      BY <1>0, QuietNodes, NamesIn
    <3> QED BY <3>1, QuietConcat
  <2> HIDE DEF c
  <2>2. \A i \in 1..argc : Quiet(s[i])
    BY <2>1
  <2>3. s = [i \in 1..argc |-> s[i]]
    OBVIOUS
  <2> HIDE DEF s
  <2>4. Quiet(FlattenSeq(s))
    BY <2>2, <2>3, QuietFlatten
  <2>5. Quiet(Node("add", <<IMM64(8), RSP>>))
    BY <1>0, QuietNodes
  <2>6. Quiet(FlattenSeq(s) \o Node("add", <<IMM64(8), RSP>>))
    BY <2>4, <2>5, QuietConcat
  <2> QED BY <2>6 DEF x86_64_compile_call_expr_free_values, s, c
<1> QED BY <1>1, <1>2, <1>3, <1>4

-----------------------------------------------------------------------------
(* The labels from a up to b, and code that loads exactly these, in order. *)
Upto(a, b)         == [j \in 1..(b - a) |-> a + j - 1]
Numbered(code, a, b) == code \in Seq(Nodes) /\ Labels(code) = Upto(a, b)

LEMMA UptoConcat ==
  ASSUME NEW a \in Int, NEW b \in Int, NEW c \in Int, a <= b, b <= c
  PROVE  /\ Upto(a, b) \o Upto(b, c) = Upto(a, c)
         /\ Upto(a, a) = <<>> /\ Upto(a, a + 1) = <<a>>
<1>0. ASSUME NEW d \in Int, NEW e \in Int, d <= e
      PROVE  /\ Upto(d, e) \in Seq(Int) /\ Len(Upto(d, e)) = e - d
             /\ \A i \in 1..(e - d) : Upto(d, e)[i] = d + i - 1
  <2> DEFINE u == Upto(d, e)
  <2>1. u = [j \in 1..(e - d) |-> d + j - 1] /\ e - d \in Nat
    BY <1>0 DEF Upto
  <2> HIDE DEF u
  <2>2. u \in [1..(e - d) -> Int]
    BY <2>1
  <2>3. u \in Seq(Int)
    BY <2>1, <2>2, SeqDef
  <2>4. Len(u) = e - d /\ \A i \in 1..(e - d) : u[i] = d + i - 1
    BY <2>1
  <2> QED BY <2>3, <2>4 DEF u
<1> DEFINE p == Upto(a, b)
           q == Upto(b, c)
           r == Upto(a, c)
<1>1. /\ p \in Seq(Int) /\ Len(p) = b - a /\ \A i \in 1..(b - a) : p[i] = a + i - 1
      /\ q \in Seq(Int) /\ Len(q) = c - b /\ \A i \in 1..(c - b) : q[i] = b + i - 1
      /\ r \in Seq(Int) /\ Len(r) = c - a /\ \A i \in 1..(c - a) : r[i] = a + i - 1
  <2>0. a <= c
    OBVIOUS
  <2>1. p \in Seq(Int) /\ Len(p) = b - a /\ \A i \in 1..(b - a) : p[i] = a + i - 1
    BY <1>0
  <2>2. q \in Seq(Int) /\ Len(q) = c - b /\ \A i \in 1..(c - b) : q[i] = b + i - 1
    BY <1>0
  <2>3. r \in Seq(Int) /\ Len(r) = c - a /\ \A i \in 1..(c - a) : r[i] = a + i - 1
    BY <1>0, <2>0
  <2> QED BY <2>1, <2>2, <2>3
<1> HIDE DEF p, q, r
<1>2. /\ p \o q \in Seq(Int) /\ Len(p \o q) = Len(p) + Len(q)
      /\ \A i \in 1..(Len(p) + Len(q)) : (p \o q)[i] = IF i <= Len(p) THEN p[i] ELSE q[i - Len(p)]
  <2>1. p \in Seq(Int) /\ q \in Seq(Int)
    BY <1>1
  <2> QED BY ONLY <2>1, ConcatProperties
<1>3. Len(p \o q) = Len(r) /\ Len(r) = c - a
  BY <1>1, <1>2
<1>4. ASSUME NEW i \in 1..(c - a) PROVE (p \o q)[i] = r[i]
  <2>1. i \in 1..(Len(p) + Len(q)) /\ r[i] = a + i - 1
    BY <1>1
  <2>2. (p \o q)[i] = IF i <= Len(p) THEN p[i] ELSE q[i - Len(p)]
    BY <1>2, <2>1
  <2>3. CASE i <= Len(p)
    BY <1>1, <2>1, <2>2, <2>3
  <2>4. CASE ~(i <= Len(p))
    <3>1. i - Len(p) \in 1..(c - b)
      BY <1>1, <2>4
    <3>2. q[i - Len(p)] = b + (i - Len(p)) - 1
      BY <1>1, <3>1
    <3>3. b + (i - Len(p)) - 1 = a + i - 1
      BY <1>1
    <3> QED BY <2>1, <2>2, <2>4, <3>2, <3>3
  <2> QED BY <2>3, <2>4
<1>5. p \o q = r
  BY <1>1, <1>2, <1>3, <1>4, SeqEqual
<1>6. Upto(a, a) = <<>>
  <2>1. 1..(a - a) = {}
    OBVIOUS
  <2> QED BY <2>1 DEF Upto
<1>7. Upto(a, a + 1) = <<a>>
  <2> DEFINE e == a + 1
             u == Upto(a, e)
  <2>2. e \in Int /\ a <= e /\ e - a = 1 /\ a + 1 - 1 = a
    OBVIOUS
  <2> HIDE DEF e
  <2>1. u \in Seq(Int) /\ Len(u) = e - a /\ \A i \in 1..(e - a) : u[i] = a + i - 1
    BY <1>0, <2>2
  <2> HIDE DEF u
  <2>3. <<a>> \in Seq(Int) /\ Len(<<a>>) = 1 /\ <<a>>[1] = a
    OBVIOUS
  <2>4. Len(u) = Len(<<a>>) /\ \A i \in 1..Len(u) : u[i] = <<a>>[i]
    BY <2>1, <2>2
  <2>5. u = <<a>>
    BY <2>1, <2>3, <2>4, SeqEqual
  <2> QED BY <2>5 DEF u, e
<1> QED BY <1>5, <1>6, <1>7 DEF p, q, r

LEMMA NumberedConcat ==
  ASSUME NEW a, NEW b, NEW i \in Int, NEW j \in Int, NEW k \in Int, i <= j, j <= k,
         Numbered(a, i, j), Numbered(b, j, k)
  PROVE  Numbered(a \o b, i, k)
<1>1. a \in Seq(Nodes) /\ b \in Seq(Nodes) /\ Labels(a) = Upto(i, j) /\ Labels(b) = Upto(j, k)
  BY DEF Numbered
<1>2. a \o b \in Seq(Nodes)
  BY <1>1, ConcatProperties
<1>3. Labels(a \o b) = Labels(a) \o Labels(b)
  BY ONLY <1>1, LabelsConcat
<1>4. Upto(i, j) \o Upto(j, k) = Upto(i, k)
  BY UptoConcat
<1> QED BY <1>1, <1>2, <1>3, <1>4 DEF Numbered

LEMMA NumberedQuiet ==
  ASSUME NEW c, NEW a \in Int
  PROVE  Quiet(c) <=> Numbered(c, a, a)
<1>1. Upto(a, a) = <<>>
  BY UptoConcat
<1> QED BY <1>1 DEF Numbered, Quiet

(* Pieces that go on numbering where the one before has stopped.           *)
LEMMA NumberedFlatten ==
  ASSUME NEW s, NEW n \in Nat, s = [i \in 1..n |-> s[i]], NEW c \in [0..n -> Int],
         \A i \in 1..n : c[i - 1] <= c[i] /\ Numbered(s[i], c[i - 1], c[i])
  PROVE  Numbered(FlattenSeq(s), c[0], c[n]) /\ c[0] <= c[n]
<1>1. Len(s) = n
  BY LenProperties
<1>2. CASE n = 0
  <2>1. s = <<>> /\ c[0] \in Int
    BY <1>2
  <2>2. Numbered(<<>>, c[0], c[0])
    BY <2>1, QuietNone, NumberedQuiet
  <2> QED BY <1>2, <2>1, <2>2, FlattenNone
<1>3. CASE n # 0
  <2>1. PICK f : Flat(f, s) /\ FlattenSeq(s) = f[n]
    BY <1>1, <1>3, FlattenIs
  <2>2. \A i \in 1..n : f[i] = IF i = 1 THEN s[i] ELSE f[i - 1] \o s[i]
    BY <1>1, <2>1 DEF Flat
  <2> DEFINE W == {i \in 0..n : c[0] <= c[i] /\ (i # 0 => Numbered(f[i], c[0], c[i]))}
  <2>3. 0 \in W /\ n \in 0..n
    OBVIOUS
  <2>4. ASSUME NEW i \in 1..n, i - 1 \in W PROVE i \in W
    <3>0. /\ i \in 0..n /\ f[i] = (IF i = 1 THEN s[i] ELSE f[i - 1] \o s[i])
          /\ Numbered(s[i], c[i - 1], c[i]) /\ c[i - 1] <= c[i]
          /\ i - 1 \in 0..n /\ c[0] \in Int /\ c[i - 1] \in Int /\ c[i] \in Int
      BY <2>2
    <3>a. c[0] <= c[i - 1] /\ (i - 1 # 0 => Numbered(f[i - 1], c[0], c[i - 1]))
      BY <2>4
    <3>b. c[0] <= c[i]
      BY <3>0, <3>a
    <3>1. CASE i = 1
      <4>1. Numbered(f[i], c[0], c[i])
        BY <3>0, <3>1
      <4> QED BY <3>0, <3>b, <4>1
    <3>2. CASE i # 1
      <4>1. i - 1 # 0
        BY <3>2
      <4>2. Numbered(f[i - 1], c[0], c[i - 1])
        BY <3>a, <4>1
      <4>3. Numbered(f[i - 1] \o s[i], c[0], c[i])
        BY <3>0, <3>a, <4>2, NumberedConcat
      <4>4. Numbered(f[i], c[0], c[i])
        BY <3>0, <3>2, <4>3
      <4> QED BY <3>0, <3>b, <4>4
    <3> QED BY <3>1, <3>2
  <2>5. n \in W
    <3> HIDE DEF W
    <3> QED BY <2>3, <2>4, UpTo
  <2> QED BY <1>3, <2>1, <2>5
<1> QED BY <1>2, <1>3

(* A literal loads its label if it is a string.                            *)
LEMMA ExprNumbered ==
  ASSUME NEW x \in Argument, x.type \in {"int", "string"}, NEW lbl \in Int
  PROVE  Numbered(x86_64_compile_expr(x, lbl), lbl, lbl + Len(Strings(<<x>>)))
<1>0. RDI \in Operands /\ RDI = REGISTER_X64("rdi")
  BY OperandsIn DEF RDI
<1>1. Strings(<<x>>) = IF IsString(x) THEN <<x>> ELSE <<>>
  <2>1. <<>> \in Seq(Argument)
    OBVIOUS
  <2> QED BY <2>1, StringsConcat
<1>2. CASE x.type = "int"
  <2>1. x.val \in Int
    BY <1>2 DEF Argument
  <2>2. Quiet(Node("mov", <<IMM64(x.val), RDI>>))
    BY <1>0, <2>1, QuietNodes
  <2>3. Quiet(Node("call", <<IDENTIFIER("libblaze_val_create_intval")>>))
    BY QuietNodes, NamesIn
  <2>4. Quiet(x86_64_compile_expr(x, lbl))
    <3>1. Quiet(Node("mov", <<IMM64(x.val), RDI>>) \o Node("call", <<IDENTIFIER("libblaze_val_create_intval")>>))
      BY <2>2, <2>3, QuietConcat
    <3> QED BY <1>2, <3>1, Zenon DEF x86_64_compile_expr
  <2>5. Strings(<<x>>) = <<>>
    BY <1>1, <1>2 DEF IsString
  <2>6. lbl + Len(Strings(<<x>>)) = lbl
    <3>1. Len(<<>>) = 0
      OBVIOUS
    <3> QED BY <2>5, <3>1
  <2>7. Numbered(x86_64_compile_expr(x, lbl), lbl, lbl)
    BY <2>4, NumberedQuiet
  <2> QED BY <2>6, <2>7
<1>3. CASE x.type = "string"
  <2> DEFINE ops == <<IMM_LBL(lbl), RDI>>
             n == [inst |-> "mov", ops |-> ops]
             k == Node("call", <<IDENTIFIER("libblaze_val_create_strval")>>)
  <2>1. IMM_LBL(lbl) \in Operands /\ IMM_LBL(lbl).type = "label" /\ IMM_LBL(lbl).val = lbl
    BY OperandsIn DEF IMM_LBL, Operand
  <2>2. ops \in Seq(Operands) /\ ops # <<>> /\ ops[1] = IMM_LBL(lbl)
    BY <1>0, <2>1
  <2> HIDE DEF ops
  <2>3. n \in Nodes /\ LoadsLabel(n) /\ n.ops[1].val = lbl
    BY <2>1, <2>2 DEF Nodes, LoadsLabel
  <2> HIDE DEF n
  <2>4. Labels(<<n>>) = <<lbl>> /\ <<n>> \in Seq(Nodes)
    <3>1. Labels(<<n>>) = IF LoadsLabel(n) THEN <<n.ops[1].val>> ELSE <<>>
      BY <2>3, LabelsOne
    <3> QED BY <2>3, <3>1
  <2>5. Upto(lbl, lbl + 1) = <<lbl>>
    BY UptoConcat
  <2>6. Numbered(<<n>>, lbl, lbl + 1)
    BY <2>4, <2>5 DEF Numbered
  <2>7. Quiet(k)
    BY QuietNodes, NamesIn
  <2> HIDE DEF k
  <2>8. Numbered(<<n>> \o k, lbl, lbl + 1)
    <3> DEFINE e == lbl + 1
    <3>1. e \in Int /\ lbl <= e /\ e <= e
      OBVIOUS
    <3> HIDE DEF e
    <3>2. Numbered(k, e, e)
      BY <2>7, <3>1, NumberedQuiet
    <3>3. Numbered(<<n>>, lbl, e)
      BY <2>6 DEF e
    <3>4. Numbered(<<n>> \o k, lbl, e)
      BY <3>1, <3>2, <3>3, NumberedConcat
    <3> QED BY <3>4 DEF e
  <2>9. x86_64_compile_expr(x, lbl) = <<n>> \o k
    <3>1. x.type # "int"
      BY <1>3
    <3> QED BY <3>1, Zenon DEF x86_64_compile_expr, n, k, ops, Node
  <2>10. Len(Strings(<<x>>)) = 1
    <3>1. Strings(<<x>>) = <<x>>
      BY <1>1, <1>3 DEF IsString
    <3> QED BY <3>1
  <2> QED BY <2>8, <2>9, <2>10
<1> QED BY <1>2, <1>3

(* The arguments load the labels of their strings, in order.               *)
LEMMA ArgsNumbered ==
  ASSUME NEW args \in Seq(Argument), \A i \in DOMAIN args : args[i].type \in {"int", "string"},
         NEW lbl \in Int
  PROVE  Numbered(x86_64_compile_call_expr_args(args, lbl), lbl, lbl + Len(Strings(args)))
         /\ Len(Strings(args)) \in Nat
<1> DEFINE n == Len(args)
           c == [i \in 0..n |-> lbl + Len(Strings(SubSeq(args, 1, i)))]
           P(i) == x86_64_compile_expr(args[i], lbl + Before(args, i)) \o Node("push", <<RAX>>)
           s == [i \in DOMAIN args |-> P(i)]
<1>0. /\ n \in Nat /\ DOMAIN args = 1..n
      /\ RDI \in Operands /\ RDI = REGISTER_X64("rdi") /\ RAX = REGISTER_X64("rax")
  BY OperandsIn DEF RDI, RAX
<1>1. ASSUME NEW i \in 0..n
      PROVE  SubSeq(args, 1, i) \in Seq(Argument) /\ Len(Strings(SubSeq(args, 1, i))) \in Nat
  <2>1. SubSeq(args, 1, i) \in Seq(Argument)
    OBVIOUS
  <2>2. Strings(SubSeq(args, 1, i)) \in Seq(Argument)
    BY <2>1, StringsConcat
  <2> QED BY <2>1, <2>2, LenProperties
<1>2. c \in [0..n -> Int] /\ c[0] = lbl /\ c[n] = lbl + Len(Strings(args))
  <2>1. SubSeq(args, 1, 0) = <<>>
    OBVIOUS
  <2>2. SubSeq(args, 1, n) = args
    <3> DEFINE a == SubSeq(args, 1, n)
    <3>1. a \in Seq(Argument) /\ Len(a) = n /\ \A i \in 1..n : a[i] = args[i]
      OBVIOUS
    <3> HIDE DEF a
    <3>2. a = args
      BY <3>1, SeqEqual
    <3> QED BY <3>2 DEF a
  <2>3. Strings(<<>>) = <<>> /\ Len(<<>>) = 0
    <3>1. <<>> \in Seq(Argument)
      OBVIOUS
    <3> QED BY <3>1, StringsConcat
  <2>4. 0 \in 0..n /\ n \in 0..n
    BY <1>0
  <2>5. \A i \in 0..n : lbl + Len(Strings(SubSeq(args, 1, i))) \in Int
    BY <1>1
  <2>6. c \in [0..n -> Int]
    BY <2>5
  <2>7. c[0] = lbl + Len(Strings(SubSeq(args, 1, 0))) /\ c[n] = lbl + Len(Strings(SubSeq(args, 1, n)))
    BY <2>4
  <2> HIDE DEF c, n
  <2>8. c[0] = lbl
    <3>1. Len(Strings(SubSeq(args, 1, 0))) = 0
      BY <2>1, <2>3, Zenon
    <3>2. c[0] = lbl + 0
      BY ONLY <2>7, <3>1, Zenon
    <3> QED BY <3>2
  <2> QED BY <2>2, <2>6, <2>7, <2>8
<1>3. ASSUME NEW i \in 1..n
      PROVE  c[i - 1] <= c[i] /\ Numbered(P(i), c[i - 1], c[i])
  <2> DEFINE a == SubSeq(args, 1, i - 1)
             x == args[i]
  <2>1. a \in Seq(Argument) /\ x \in Argument /\ SubSeq(args, 1, i) = Append(a, x)
    BY PrefixIs
  <2>2. x.type \in {"int", "string"} /\ i - 1 \in 0..n /\ i \in 0..n
    BY <1>0
  <2>3. c[i - 1] = lbl + Len(Strings(a)) /\ c[i] = lbl + Len(Strings(Append(a, x)))
    BY <2>1, <2>2
  <2>4. c[i - 1] = lbl + Before(args, i)
    BY <2>3 DEF Before
  <2> HIDE DEF a, x, c
  <2>5. Strings(Append(a, x)) = Strings(a) \o Strings(<<x>>) /\ Strings(a) \in Seq(Argument)
        /\ Strings(<<x>>) \in Seq(Argument)
    <3>1. Append(a, x) = a \o <<x>>
      BY <2>1, AppendIsConcat
    <3> DEFINE b == <<x>>
    <3>2. b \in Seq(Argument)
      BY <2>1
    <3> HIDE DEF b
    <3>3. Strings(a \o b) = Strings(a) \o Strings(b) /\ Strings(a) \in Seq(Argument)
          /\ Strings(b) \in Seq(Argument)
      BY <2>1, <3>2, StringsConcat
    <3> QED BY <3>1, <3>3 DEF b
  <2>6. Len(Strings(Append(a, x))) = Len(Strings(a)) + Len(Strings(<<x>>))
        /\ Len(Strings(a)) \in Nat /\ Len(Strings(<<x>>)) \in Nat
    <3> DEFINE p == Strings(a)
               q == Strings(<<x>>)
    <3>1. p \in Seq(Argument) /\ q \in Seq(Argument)
      BY <2>5
    <3> HIDE DEF p, q
    <3>2. Len(p \o q) = Len(p) + Len(q) /\ Len(p) \in Nat /\ Len(q) \in Nat
      BY <3>1, ConcatProperties
    <3> QED BY <2>5, <3>2 DEF p, q
  <2>7. c[i] = c[i - 1] + Len(Strings(<<x>>)) /\ c[i - 1] \in Int /\ c[i] \in Int /\ c[i - 1] <= c[i]
    BY <2>3, <2>6
  <2>8. Numbered(x86_64_compile_expr(x, c[i - 1]), c[i - 1], c[i])
    BY <2>1, <2>2, <2>7, ExprNumbered
  <2>9. Quiet(Node("push", <<RAX>>))
    BY <1>0, QuietNodes, NamesIn
  <2>10. Numbered(Node("push", <<RAX>>), c[i], c[i])
    BY <2>7, <2>9, NumberedQuiet
  <2>11. Numbered(x86_64_compile_expr(x, c[i - 1]) \o Node("push", <<RAX>>), c[i - 1], c[i])
    <3> DEFINE u == c[i - 1]
               v == c[i]
               e == x86_64_compile_expr(x, u)
               k == Node("push", <<RAX>>)
    <3>1. u \in Int /\ v \in Int /\ u <= v /\ v <= v /\ Numbered(e, u, v) /\ Numbered(k, v, v)
      BY <2>7, <2>8, <2>10
    <3> HIDE DEF u, v, e, k
    <3>2. Numbered(e \o k, u, v)
      BY <3>1, NumberedConcat
    <3> QED BY <3>2 DEF u, v, e, k
  <2> QED BY <2>4, <2>7, <2>11 DEF x
<1>4. \A i \in 1..n : s[i] = P(i)
  BY <1>0
<1>5. s = [i \in 1..n |-> s[i]]
  BY <1>0
<1> HIDE DEF c, P, s, n
<1>6. Numbered(FlattenSeq(s), c[0], c[n]) /\ c[0] <= c[n]
  <2>1. \A i \in 1..n : c[i - 1] <= c[i] /\ Numbered(s[i], c[i - 1], c[i])
    BY <1>3, <1>4
  <2> QED BY <1>0, <1>2, <1>5, <2>1, NumberedFlatten
<1>7. Quiet(Node("mov", <<IMM64(Len(args)), RDI>>) \o Node("push", <<RDI>>))
  <2>1. Quiet(Node("mov", <<IMM64(Len(args)), RDI>>)) /\ Quiet(Node("push", <<RDI>>))
    BY <1>0, QuietNodes, NamesIn
  <2> QED BY <2>1, QuietConcat
<1> DEFINE q == Node("mov", <<IMM64(Len(args)), RDI>>) \o Node("push", <<RDI>>)
<1>8. Numbered(q, lbl, lbl)
  BY <1>7, NumberedQuiet
<1> HIDE DEF q
<1>9. Numbered(q \o FlattenSeq(s), lbl, c[n])
  <2>1. c[n] \in Int /\ lbl <= lbl /\ lbl <= c[n] /\ Numbered(FlattenSeq(s), lbl, c[n])
    BY <1>0, <1>2, <1>6
  <2> QED BY <1>8, <2>1, NumberedConcat
<1>10. x86_64_compile_call_expr_args(args, lbl) = q \o FlattenSeq(s)
  BY Zenon DEF x86_64_compile_call_expr_args, q, s, P
<1>11. Len(Strings(args)) \in Nat
  BY StringsConcat, LenProperties
<1> QED BY <1>2, <1>9, <1>10, <1>11

LEMMA NumberedAround ==
  ASSUME NEW a, NEW b, NEW i \in Int, NEW j \in Int, i <= j
  PROVE  /\ Numbered(a, i, j) /\ Quiet(b) => Numbered(a \o b, i, j)
         /\ Quiet(a) /\ Numbered(b, i, j) => Numbered(a \o b, i, j)
<1>1. ASSUME Numbered(a, i, j), Quiet(b) PROVE Numbered(a \o b, i, j)
  <2>1. Numbered(b, j, j)
    BY <1>1, NumberedQuiet
  <2> QED BY <1>1, <2>1, NumberedConcat
<1>2. ASSUME Quiet(a), Numbered(b, i, j) PROVE Numbered(a \o b, i, j)
  <2>1. Numbered(a, i, i)
    BY <1>2, NumberedQuiet
  <2> QED BY <1>2, <2>1, NumberedConcat
<1> QED BY <1>1, <1>2

(* So does a call.                                                         *)
LEMMA CallNumbered ==
  ASSUME NEW args \in Seq(Argument), \A i \in DOMAIN args : args[i].type \in {"int", "string"},
         NEW lbl \in Int
  PROVE  Numbered(x86_64_compile_call_expr(args, lbl), lbl, lbl + Len(Strings(args)))
<1> DEFINE m == lbl + Len(Strings(args))
           a == x86_64_compile_call_expr_args(args, lbl)
           b == x86_64_compile_call_expr_args_load(Len(args) + 1)
           c == Node("call", <<IDENTIFIER("libblaze_fn_println")>>)
           d == x86_64_compile_call_expr_free_values(Len(args))
           e == IF Len(args) > 5 THEN Node("add", <<IMM64(8 * (Len(args) - 5)), RSP>>) ELSE <<>>
<1>1. Numbered(a, lbl, m) /\ m \in Int /\ lbl <= m
  <2>1. Numbered(x86_64_compile_call_expr_args(args, lbl), lbl, lbl + Len(Strings(args)))
        /\ Len(Strings(args)) \in Nat
    BY ArgsNumbered
  <2> QED BY <2>1
<1>2. Len(args) \in Nat /\ Len(args) + 1 \in Nat /\ 8 * (Len(args) - 5) \in Int
  OBVIOUS
<1>3. Quiet(b) /\ Quiet(d)
  BY <1>2, QuietPieces
<1>4. Quiet(c)
  BY QuietNodes, NamesIn
<1>5. Quiet(e)
  <2>1. RSP \in Operands
    BY OperandsIn
  <2>2. Quiet(Node("add", <<IMM64(8 * (Len(args) - 5)), RSP>>))
    BY <1>2, <2>1, QuietNodes
  <2> QED BY <2>2, QuietNone, Zenon
<1>6. x86_64_compile_call_expr(args, lbl) = a \o b \o c \o d \o e
  BY Zenon DEF x86_64_compile_call_expr
<1> HIDE DEF a, b, c, d, e, m
<1>7. Numbered(a \o b, lbl, m)
  BY <1>1, <1>3, NumberedAround
<1>8. Numbered(a \o b \o c, lbl, m)
  BY <1>1, <1>4, <1>7, NumberedAround
<1>9. Numbered(a \o b \o c \o d, lbl, m)
  BY <1>1, <1>3, <1>8, NumberedAround
<1>10. Numbered(a \o b \o c \o d \o e, lbl, m)
  BY <1>1, <1>5, <1>9, NumberedAround
<1> QED BY <1>6, <1>10 DEF m

(* So does a program: the labels that are loaded are the labels of .data,  *)
(* each once.                                                              *)
LEMMA RootNumbered ==
  ASSUME NEW prog \in Seq(Statement), NEW debug, Supported(prog, debug)
  PROVE  /\ Labels(x86_64_compile_root(prog)) = Upto(0, Len(Strings(AllArgs(prog))))
         /\ Len(Strings(AllArgs(prog))) \in Nat
<1> DEFINE n == Len(prog)
           c == [i \in 0..n |-> Len(Strings(AllArgs(SubSeq(prog, 1, i))))]
           P(i) == x86_64_compile_call_expr(prog[i].args, Len(Strings(AllArgs(SubSeq(prog, 1, i - 1)))))
           s == [i \in DOMAIN prog |-> P(i)]
<1>0. n \in Nat /\ DOMAIN prog = 1..n
  OBVIOUS
<1>a. ASSUME NEW q \in Seq(Statement)
      PROVE  AllArgs(q) \in Seq(Argument) /\ Len(Strings(AllArgs(q))) \in Nat
  <2>1. AllArgs(q) \in Seq(Argument)
    <3>1. CASE q = <<>>
      <4>1. [i \in DOMAIN q |-> q[i].args] = <<>>
        BY <3>1
      <4>2. AllArgs(q) = <<>>
        BY <4>1, FlattenNone, Zenon DEF AllArgs
      <4>3. <<>> \in Seq(Argument)
        OBVIOUS
      <4> QED BY <4>2, <4>3
    <3>2. CASE q # <<>>
      <4>1. q[1] \in Statement
        BY <3>2
      <4> QED BY <4>1, AllArgsConcat
    <3> QED BY <3>1, <3>2
  <2>2. Strings(AllArgs(q)) \in Seq(Argument)
    BY <2>1, StringsConcat
  <2> QED BY <2>1, <2>2, LenProperties
<1>1. /\ c \in [0..n -> Int] /\ c[0] = 0 /\ c[n] = Len(Strings(AllArgs(prog)))
      /\ Len(Strings(AllArgs(prog))) \in Nat
  <2>1. SubSeq(prog, 1, 0) = <<>>
    OBVIOUS
  <2>2. SubSeq(prog, 1, n) = prog
    <3> DEFINE a == SubSeq(prog, 1, n)
    <3>1. a \in Seq(Statement) /\ Len(a) = n /\ \A i \in 1..n : a[i] = prog[i]
      OBVIOUS
    <3> HIDE DEF a
    <3>2. a = prog
      BY <3>1, SeqEqual
    <3> QED BY <3>2 DEF a
  <2>3. Len(Strings(AllArgs(<<>>))) = 0
    <3>1. [i \in DOMAIN <<>> |-> <<>>[i].args] = <<>>
      OBVIOUS
    <3>2. AllArgs(<<>>) = <<>>
      BY <3>1, FlattenNone DEF AllArgs
    <3>3. <<>> \in Seq(Argument) /\ Len(<<>>) = 0
      OBVIOUS
    <3>4. Strings(<<>>) = <<>>
      BY <3>3, StringsConcat
    <3> QED BY <3>2, <3>3, <3>4
  <2>4. 0 \in 0..n /\ n \in 0..n
    BY <1>0
  <2>5. ASSUME NEW i \in 0..n PROVE Len(Strings(AllArgs(SubSeq(prog, 1, i)))) \in Int
    <3>1. SubSeq(prog, 1, i) \in Seq(Statement)
      OBVIOUS
    <3> QED BY <1>a, <3>1
  <2>6. c \in [0..n -> Int]
    BY <2>5
  <2>7. c[0] = Len(Strings(AllArgs(SubSeq(prog, 1, 0)))) /\ c[n] = Len(Strings(AllArgs(SubSeq(prog, 1, n))))
    BY <2>4
  <2>8. Len(Strings(AllArgs(prog))) \in Nat
    BY <1>a
  <2> HIDE DEF c, n
  <2>9. c[0] = 0
    BY <2>1, <2>3, <2>7, Zenon
  <2> QED BY <2>2, <2>6, <2>7, <2>8, <2>9
<1>2. ASSUME NEW i \in 1..n
      PROVE  c[i - 1] <= c[i] /\ Numbered(P(i), c[i - 1], c[i])
  <2> DEFINE a == SubSeq(prog, 1, i - 1)
             x == prog[i]
             args == x.args
  <2>1. a \in Seq(Statement) /\ x \in Statement /\ SubSeq(prog, 1, i) = Append(a, x)
    BY PrefixIs
  <2>2. (\A k \in DOMAIN args : args[k].type \in {"int", "string"}) /\ i - 1 \in 0..n /\ i \in 0..n
    BY <1>0 DEF Supported
  <2>3. c[i - 1] = Len(Strings(AllArgs(a))) /\ c[i] = Len(Strings(AllArgs(Append(a, x))))
    BY <2>1, <2>2
  <2>4. P(i) = x86_64_compile_call_expr(args, c[i - 1])
    BY <2>3, Zenon
  <2> HIDE DEF a, x, c
  <2>5. AllArgs(Append(a, x)) = AllArgs(a) \o args /\ AllArgs(a) \in Seq(Argument) /\ args \in Seq(Argument)
    BY <2>1, AllArgsConcat
  <2> HIDE DEF args
  <2>6. Len(Strings(AllArgs(Append(a, x)))) = Len(Strings(AllArgs(a))) + Len(Strings(args))
        /\ Len(Strings(AllArgs(a))) \in Nat /\ Len(Strings(args)) \in Nat
    <3> DEFINE u == AllArgs(a)
               p == Strings(u)
               q == Strings(args)
    <3>0. u \in Seq(Argument)
      BY <2>5
    <3> HIDE DEF u
    <3>1. Strings(u \o args) = p \o q /\ p \in Seq(Argument) /\ q \in Seq(Argument)
      BY <2>5, <3>0, StringsConcat
    <3> HIDE DEF p, q
    <3>2. Len(p \o q) = Len(p) + Len(q) /\ Len(p) \in Nat /\ Len(q) \in Nat
      BY <3>1, ConcatProperties
    <3>3. Len(Strings(u \o args)) = Len(p) + Len(q)
      BY <3>1, <3>2
    <3> QED BY <2>5, <3>2, <3>3 DEF u, p, q
  <2>7. c[i] = c[i - 1] + Len(Strings(args)) /\ c[i - 1] \in Int /\ c[i - 1] <= c[i]
    BY <2>3, <2>6
  <2>8. Numbered(x86_64_compile_call_expr(args, c[i - 1]), c[i - 1], c[i - 1] + Len(Strings(args)))
    BY <2>2, <2>5, <2>7, CallNumbered
  <2> QED BY <2>4, <2>7, <2>8
<1>3. \A i \in 1..n : s[i] = P(i)
  BY <1>0
<1>4. s = [i \in 1..n |-> s[i]]
  BY <1>0
<1> HIDE DEF c, P, s, n
<1>5. Numbered(FlattenSeq(s), 0, c[n]) /\ 0 <= c[n] /\ c[n] \in Int
  <2>1. \A i \in 1..n : c[i - 1] <= c[i] /\ Numbered(s[i], c[i - 1], c[i])
    BY <1>2, <1>3
  <2>2. Numbered(FlattenSeq(s), c[0], c[n]) /\ c[0] <= c[n]
    BY <1>0, <1>1, <1>4, <2>1, NumberedFlatten
  <2> QED BY <1>1, <2>2
<1> DEFINE g == x86_64_compile_root_start \o Node("label", <<IDENTIFIER("main")>>) \o x86_64_setup_frame
           t == x86_64_restore_frame
           r == Node("ret", <<>>)
<1>6. Quiet(g) /\ Quiet(t) /\ Quiet(r)
  <2>1. Quiet(x86_64_compile_root_start) /\ Quiet(x86_64_setup_frame) /\ Quiet(x86_64_restore_frame)
    BY QuietPieces
  <2>2. Quiet(Node("label", <<IDENTIFIER("main")>>)) /\ Quiet(Node("ret", <<>>))
    BY QuietNodes, NamesIn
  <2>3. Quiet(x86_64_compile_root_start \o Node("label", <<IDENTIFIER("main")>>))
    BY <2>1, <2>2, QuietConcat
  <2> QED BY <2>1, <2>2, <2>3, QuietConcat
<1>7. x86_64_compile_root(prog) = g \o FlattenSeq(s) \o t \o r
  BY Zenon DEF x86_64_compile_root, s, P
<1> HIDE DEF g, t, r
<1>8. Numbered(g \o FlattenSeq(s), 0, c[n])
  BY <1>5, <1>6, NumberedAround
<1>9. Numbered(g \o FlattenSeq(s) \o t, 0, c[n])
  BY <1>5, <1>6, <1>8, NumberedAround
<1>10. Numbered(g \o FlattenSeq(s) \o t \o r, 0, c[n])
  BY <1>5, <1>6, <1>9, NumberedAround
<1> QED BY <1>1, <1>7, <1>10 DEF Numbered

-----------------------------------------------------------------------------
(* What is freed: a sequence without repetitions, and what is in it.       *)
Kinds          == {"label", "copy", "directive", "param"}
Distinct(s, S) == s \in Seq(Kinds \X Int) /\ IsInjective(s) /\ ToSet(s) = S

LEMMA DistinctConcat ==
  ASSUME NEW a, NEW b, NEW S, NEW T, Distinct(a, S), Distinct(b, T), S \cap T = {}
  PROVE  Distinct(a \o b, S \cup T)
<1> DEFINE P == Kinds \X Int
           m == Len(a)
           n == Len(b)
           c == a \o b
<1>0. /\ a \in Seq(P) /\ b \in Seq(P) /\ m \in Nat /\ n \in Nat
      /\ DOMAIN a = 1..m /\ DOMAIN b = 1..n
      /\ \A i, k \in 1..m : a[i] = a[k] => i = k
      /\ \A i, k \in 1..n : b[i] = b[k] => i = k
      /\ S = {a[i] : i \in 1..m} /\ T = {b[i] : i \in 1..n}
  BY DEF Distinct, IsInjective, ToSet
<1> HIDE DEF P
<1>1. c \in Seq(P) /\ Len(c) = m + n /\ \A i \in 1..(m + n) : c[i] = IF i <= m THEN a[i] ELSE b[i - m]
  BY <1>0, ConcatProperties
<1> HIDE DEF c, m, n
<1>2. DOMAIN c = 1..(m + n)
  BY <1>1
<1>3. ASSUME NEW i \in 1..(m + n)
      PROVE  \/ i \in 1..m /\ c[i] = a[i] /\ c[i] \in S
             \/ i - m \in 1..n /\ c[i] = b[i - m] /\ c[i] \in T
  <2>1. CASE i <= m
    <3>1. i \in 1..m
      BY <1>0, <2>1
    <3> QED BY <1>0, <1>1, <2>1, <3>1
  <2>2. CASE ~(i <= m)
    <3>1. i - m \in 1..n
      BY <1>0, <2>2
    <3>2. c[i] = b[i - m]
      BY <1>1, <2>2
    <3> QED BY <1>0, <3>1, <3>2
  <2> QED BY <2>1, <2>2
<1>4. ASSUME NEW i \in 1..(m + n), NEW k \in 1..(m + n), c[i] = c[k] PROVE i = k
  <2>1. CASE i \in 1..m /\ c[i] = a[i] /\ c[i] \in S
    <3>1. k \in 1..m /\ c[k] = a[k]
      BY <1>3, <1>4, <2>1
    <3> QED BY <1>0, <1>4, <2>1, <3>1
  <2>2. CASE i - m \in 1..n /\ c[i] = b[i - m] /\ c[i] \in T
    <3>1. k - m \in 1..n /\ c[k] = b[k - m]
      BY <1>3, <1>4, <2>2
    <3>2. i - m = k - m
      BY <1>0, <1>4, <2>2, <3>1
    <3> QED BY <1>0, <3>2
  <2> QED BY <1>3, <2>1, <2>2
<1>5. ToSet(c) = S \cup T
  <2>0. ToSet(c) = {c[i] : i \in 1..(m + n)}
    BY <1>2 DEF ToSet
  <2>1. ToSet(c) \subseteq S \cup T
    BY <1>3, <2>0
  <2>2. ASSUME NEW x \in S PROVE x \in ToSet(c)
    <3>1. PICK i \in 1..m : x = a[i]
      BY <1>0
    <3>2. i \in 1..(m + n) /\ i <= m
      BY <1>0
    <3>3. c[i] = x
      BY <1>1, <3>1, <3>2
    <3> QED BY <2>0, <3>2, <3>3
  <2>3. ASSUME NEW x \in T PROVE x \in ToSet(c)
    <3>1. PICK i \in 1..n : x = b[i]
      BY <1>0
    <3> DEFINE k == m + i
    <3>2. k \in 1..(m + n) /\ ~(k <= m) /\ k - m = i
      BY <1>0
    <3> HIDE DEF k
    <3>3. c[k] = b[k - m]
      BY <1>1, <3>2
    <3> QED BY <2>0, <3>1, <3>2, <3>3
  <2> QED BY <2>1, <2>2, <2>3
<1>6. IsInjective(c)
  BY <1>2, <1>4 DEF IsInjective
<1> QED BY <1>1, <1>5, <1>6 DEF Distinct, P, c

(* The three strings of an entry of .data, and those of all entries.       *)
LEMMA EntryFreed ==
  ASSUME NEW l \in Int
  PROVE  Distinct(<<<<"label", l>>, <<"param", l>>, <<"directive", l>>>>,
                  {"label", "param", "directive"} \X {l})
<1> DEFINE x == <<"label", l>>
           y == <<"param", l>>
           z == <<"directive", l>>
           s == <<x, y, z>>
<1>1. x \in Kinds \X Int /\ y \in Kinds \X Int /\ z \in Kinds \X Int
      /\ x # y /\ y # z /\ x # z /\ {x, y, z} = {"label", "param", "directive"} \X {l}
  BY DEF Kinds
<1> HIDE DEF x, y, z
<1>2. s \in Seq(Kinds \X Int) /\ DOMAIN s = 1..3 /\ s[1] = x /\ s[2] = y /\ s[3] = z
  BY <1>1
<1> HIDE DEF s
<1>3. \A i \in 1..3 : i = 1 \/ i = 2 \/ i = 3
  OBVIOUS
<1>4. IsInjective(s)
  <2> SUFFICES ASSUME NEW i \in 1..3, NEW k \in 1..3, s[i] = s[k] PROVE i = k
    BY <1>2 DEF IsInjective
  <2> QED BY <1>1, <1>2, <1>3
<1>5. ToSet(s) = {x, y, z}
  <2>1. ToSet(s) = {s[i] : i \in 1..3}
    BY <1>2 DEF ToSet
  <2>2. 1 \in 1..3 /\ 2 \in 1..3 /\ 3 \in 1..3
    OBVIOUS
  <2> QED BY <1>2, <1>3, <2>1, <2>2
<1>6. Distinct(s, {"label", "param", "directive"} \X {l})
  BY <1>1, <1>2, <1>4, <1>5, Zenon DEF Distinct
<1> QED BY <1>6 DEF s, x, y, z

LEMMA DataFreed ==
  ASSUME NEW c, NEW n \in Nat, DOMAIN c.data = 1..n, \A i \in 1..n : c.data[i].label = i - 1
  PROVE  Distinct(asm_data_free(c), {"label", "param", "directive"} \X (0..(n - 1)))
<1> DEFINE D(k) == {"label", "param", "directive"} \X (0..(k - 1))
           E(l) == <<<<"label", l>>, <<"param", l>>, <<"directive", l>>>>
           s == [i \in 1..n |-> E(i - 1)]
           d == c.data
<1>1. asm_data_free(c) = FlattenSeq(s)
  <2>2. [i \in DOMAIN d |-> E(d[i].label)] = s
    <3>1. \A i \in 1..n : E(d[i].label) = E(i - 1)
      BY Zenon
    <3> HIDE DEF E
    <3> QED BY <3>1, Zenon
  <2>3. asm_data_free(c) = FlattenSeq([i \in DOMAIN d |-> E(d[i].label)])
    BY Zenon DEF asm_data_free
  <2> QED BY <2>2, <2>3
<1>2. ASSUME NEW i \in 1..n PROVE Distinct(s[i], {"label", "param", "directive"} \X {i - 1})
  <2>1. s[i] = E(i - 1) /\ i - 1 \in Int
    OBVIOUS
  <2>2. Distinct(E(i - 1), {"label", "param", "directive"} \X {i - 1})
    BY <2>1, EntryFreed
  <2> HIDE DEF E, s
  <2> QED BY <2>1, <2>2
<1>3. Len(s) = n
  OBVIOUS
<1> HIDE DEF s, E, d
<1>4. CASE n = 0
  <2>1. s = <<>>
    BY <1>4 DEF s
  <2>2. FlattenSeq(s) = <<>>
    BY <2>1, FlattenNone
  <2>3. D(n) = {}
    BY <1>4
  <2>4. Distinct(<<>>, {})
    BY DEF Distinct, IsInjective, ToSet
  <2> QED BY <1>1, <2>2, <2>3, <2>4
<1>5. CASE n # 0
  <2>1. PICK f : Flat(f, s) /\ FlattenSeq(s) = f[n]
    BY <1>3, <1>5, FlattenIs
  <2>2. \A i \in 1..n : f[i] = IF i = 1 THEN s[i] ELSE f[i - 1] \o s[i]
    BY <1>3, <2>1 DEF Flat
  <2> DEFINE W == {i \in 0..n : i # 0 => Distinct(f[i], D(i))}
  <2>3. 0 \in W /\ n \in 0..n
    OBVIOUS
  <2>4. ASSUME NEW i \in 1..n, i - 1 \in W PROVE i \in W
    <3>0. i \in 0..n /\ f[i] = (IF i = 1 THEN s[i] ELSE f[i - 1] \o s[i])
      BY <2>2
    <3>a. i - 1 # 0 => Distinct(f[i - 1], D(i - 1))
      BY <2>4
    <3>b. /\ D(i - 1) \cup ({"label", "param", "directive"} \X {i - 1}) = D(i)
          /\ D(i - 1) \cap ({"label", "param", "directive"} \X {i - 1}) = {}
          /\ i = 1 => D(i) = {"label", "param", "directive"} \X {i - 1}
      <4>1. 0..(i - 1 - 1) \cup {i - 1} = 0..(i - 1) /\ i - 1 \notin 0..(i - 1 - 1)
            /\ (i = 1 => 0..(i - 1) = {i - 1})
        OBVIOUS
      <4> QED BY <4>1
    <3> HIDE DEF D
    <3>1. CASE i = 1
      <4>1. Distinct(f[i], D(i))
        BY <1>2, <3>0, <3>1, <3>b
      <4> QED BY <3>0, <4>1
    <3>2. CASE i # 1
      <4>1. Distinct(f[i - 1], D(i - 1))
        BY <3>2, <3>a
      <4>2. Distinct(f[i - 1] \o s[i], D(i))
        <5> DEFINE G == D(i - 1)
                   H == {"label", "param", "directive"} \X {i - 1}
                   p == f[i - 1]
                   q == s[i]
        <5>1. Distinct(p, G) /\ Distinct(q, H) /\ G \cap H = {} /\ G \cup H = D(i)
          BY <1>2, <3>b, <4>1
        <5> HIDE DEF G, H, p, q
        <5>2. Distinct(p \o q, G \cup H)
          BY <5>1, DistinctConcat
        <5> QED BY <5>1, <5>2 DEF p, q
      <4>3. Distinct(f[i], D(i))
        BY <3>0, <3>2, <4>2
      <4> QED BY <3>0, <4>3
    <3> QED BY <3>1, <3>2
  <2>5. n \in W
    <3> HIDE DEF W
    <3> QED BY <2>3, <2>4, UpTo
  <2> QED BY <1>1, <1>5, <2>1, <2>5
<1> QED BY <1>4, <1>5

LEMMA AllFreed ==
  ASSUME NEW prog \in Seq(Statement), NEW debug, Supported(prog, debug), NEW c,
         c = compilation_context(prog)
  PROVE  Distinct(asm_node_free_inner(c) \o asm_data_free(c), MadeStrings(c))
<1> DEFINE strings == Strings(AllArgs(prog))
           n == Len(strings)
           labels == Labels(c.code)
           s == [i \in DOMAIN labels |-> <<"copy", labels[i]>>]
           S == {"copy"} \X (0..(n - 1))
           T == {"label", "param", "directive"} \X (0..(n - 1))
<1>1. labels = Upto(0, n) /\ n \in Nat
  BY RootNumbered DEF compilation_context
<1>2. DOMAIN c.data = 1..n /\ Len(c.data) = n /\ \A i \in 1..n : c.data[i].label = i - 1
  <2>1. strings \in Seq({a \in ArgsOf(prog) : IsString(a)})
    BY StringsOf
  <2>2. c.data = [i \in DOMAIN strings |-> [label |-> i - 1, param |-> Quoted(strings[i].val)]]
    BY DEF compilation_context, asm_data
  <2> HIDE DEF strings
  <2>3. DOMAIN strings = 1..n
    BY <2>1
  <2>4. DOMAIN c.data = 1..n
    BY <2>2, <2>3
  <2> QED BY <1>1, <2>2, <2>3, <2>4
<1>3. asm_node_free_inner(c) = s
  BY Zenon DEF asm_node_free_inner
<1> HIDE DEF strings, n, labels
<1>4. DOMAIN labels = 1..n /\ \A i \in 1..n : labels[i] = i - 1
  <2>1. n - 0 = n /\ \A i \in 1..n : 0 + i - 1 = i - 1
    BY <1>1
  <2>2. labels = [j \in 1..(n - 0) |-> 0 + j - 1]
    BY <1>1 DEF Upto
  <2>3. DOMAIN labels = 1..n
    BY <2>1, <2>2
  <2> QED BY <2>1, <2>2, <2>3
<1>5. DOMAIN s = 1..n /\ \A i \in 1..n : s[i] = <<"copy", i - 1>>
  BY <1>4
<1>6. Distinct(s, S)
  <2>1. s \in [1..n -> Kinds \X Int]
    <3>1. \A i \in 1..n : <<"copy", labels[i]>> \in Kinds \X Int
      BY <1>4 DEF Kinds
    <3> QED BY <1>4, <3>1
  <2>2. s \in Seq(Kinds \X Int)
    BY <1>1, <2>1, SeqDef
  <2> HIDE DEF s
  <2>3. IsInjective(s)
    <3> SUFFICES ASSUME NEW i \in 1..n, NEW k \in 1..n, s[i] = s[k] PROVE i = k
      BY <1>5 DEF IsInjective
    <3>1. <<"copy", i - 1>> = <<"copy", k - 1>>
      BY <1>5
    <3>2. i - 1 = k - 1
      BY <3>1
    <3> QED BY <1>1, <3>2
  <2>4. ToSet(s) = S
    <3>1. ToSet(s) = {s[i] : i \in 1..n}
      BY <1>5 DEF ToSet
    <3>2. ASSUME NEW i \in 1..n PROVE s[i] \in S
      <4> DEFINE l == i - 1
      <4>1. l \in 0..(n - 1) /\ s[i] = <<"copy", l>>
        BY <1>1, <1>5
      <4> HIDE DEF l
      <4> QED BY <4>1
    <3>3. ASSUME NEW x \in S PROVE x \in {s[i] : i \in 1..n}
      <4>1. PICK l \in 0..(n - 1) : x = <<"copy", l>>
        OBVIOUS
      <4> DEFINE k == l + 1
      <4>2. k \in 1..n /\ k - 1 = l
        BY <1>1
      <4> HIDE DEF k
      <4>3. s[k] = x
        BY <1>5, <4>1, <4>2
      <4> QED BY <4>2, <4>3
    <3> HIDE DEF S
    <3> QED BY <3>1, <3>2, <3>3
  <2> QED BY <2>2, <2>3, <2>4 DEF Distinct
<1>7. Distinct(asm_data_free(c), T)
  BY <1>1, <1>2, DataFreed
<1>8. S \cap T = {} /\ S \cup T = MadeStrings(c)
  <2>1. MadeStrings(c) = {"label", "copy", "directive", "param"} \X (0..(n - 1))
    BY <1>2 DEF MadeStrings
  <2> QED BY <2>1
<1> HIDE DEF s, S, T
<1>9. Distinct(s \o asm_data_free(c), S \cup T)
  BY <1>6, <1>7, <1>8, DistinctConcat
<1> QED BY <1>3, <1>8, <1>9

(* Nothing is freed before the end, and then everything the compiler made  *)
(* for this program.                                                       *)
FreedInv ==
  /\ pc \notin {"options", "read", "compile", "end"} =>
       asm = compilation_context(job.prog) /\ Supported(job.prog, job.debug)
  /\ IF status = "success" THEN Distinct(freed, MadeStrings(asm)) ELSE freed = <<>>

LEMMA InitFreedInv == Init => FreedInv
  BY DEF Init, FreedInv

(* A step that frees nothing, and does not end the driver well.            *)
LEMMA LaterFreed ==
  ASSUME FreedInv, UNCHANGED <<job, asm, freed>>, status' = "success" <=> status = "success",
         pc' \in {"options", "read", "compile", "end"} \/ pc \notin {"options", "read", "compile", "end"}
  PROVE  FreedInv'
  BY DEF FreedInv

LEMMA NextFreedInv == IInv /\ FreedInv /\ [Next]_driver => FreedInv'
<1> SUFFICES ASSUME IInv, FreedInv, [Next]_driver PROVE FreedInv'
  OBVIOUS
<1>1. CASE blazec_process_options \/ main \/ ReadSource
  <2>1. /\ UNCHANGED <<job, asm, freed>> /\ status = "running"
        /\ status' \in {"running", "failure", "crashed"}
        /\ pc' \in {"options", "read", "compile", "end"}
    BY <1>1 DEF blazec_process_options, main, ReadSource, At, Idle, NoFault, Fault, Then, fatal_error, End
  <2> QED BY <2>1, LaterFreed
<1>2. CASE compile
  <2>1. UNCHANGED <<job, freed>> /\ status = "running"
    BY <1>2 DEF compile, At, Idle
  <2>2. CASE Supported(job.prog, job.debug) /\ asm' = compilation_context(job.prog) /\ Then(First)
    BY <2>1, <2>2 DEF FreedInv, Then
  <2>3. CASE fatal_error /\ UNCHANGED asm
    BY <2>1, <2>3 DEF FreedInv, fatal_error, End
  <2> QED BY <1>2, <2>2, <2>3 DEF compile
<1>3. CASE OpenOutput \/ mkstemp_asm \/ mkstemp_obj \/ blazec_write_assembly
  <2>1. /\ UNCHANGED <<job, asm, freed>> /\ status = "running"
        /\ status' \in {"running", "failure", "crashed"}
        /\ pc \notin {"options", "read", "compile", "end"}
    BY <1>3 DEF OpenOutput, mkstemp_asm, mkstemp_obj, blazec_write_assembly, Open, At, Idle, NoFault,
                Fault, Then, fatal_error, End
  <2> QED BY <2>1, LaterFreed
<1>4. CASE fork_as \/ fork_ld \/ wait_as \/ wait_ld \/ unlink_asm \/ unlink_obj
  <2>1. /\ UNCHANGED <<job, asm, freed>> /\ status = "running"
        /\ status' \in {"running", "failure", "crashed"}
        /\ pc \notin {"options", "read", "compile", "end"}
    BY <1>4 DEF fork_as, fork_ld, wait_as, wait_ld, unlink_asm, unlink_obj, fork, wait, unlink, At, Idle,
                NoFault, Fault, Then, fatal_error, End
  <2> QED BY <2>1, LaterFreed
<1>5. CASE compilation_context_destroy
  <2>1. /\ UNCHANGED <<job, asm>> /\ pc = "free" /\ status' = "success" /\ pc' = "end"
        /\ freed' = asm_node_free_inner(asm) \o asm_data_free(asm)
    BY <1>5 DEF compilation_context_destroy, At, Idle, End
  <2>2. asm = compilation_context(job.prog) /\ Supported(job.prog, job.debug)
    BY <2>1 DEF FreedInv
  <2>3. job.prog \in Seq(Statement)
    BY JobAssumption DEF IInv
  <2>4. Distinct(freed', MadeStrings(asm))
    BY <2>1, <2>2, <2>3, AllFreed
  <2> QED BY <2>1, <2>4 DEF FreedInv
<1>6. CASE Tool
  <2>1. UNCHANGED <<job, asm, freed, pc, status>>
    BY <1>6, ToolLeaves
  <2> QED BY <2>1, LaterFreed
<1>7. CASE UNCHANGED driver
  BY <1>7, LaterFreed DEF driver
<1> QED
  BY <1>1, <1>2, <1>3, <1>4, <1>5, <1>6, <1>7 DEF Next, Parent

(* Every string the compiler makes is freed once, by the node or by the    *)
(* data entry that owns it, for every program: the labels that the         *)
(* instructions load are those of .data, each once and in order, so that   *)
(* every copy has its entry.                                               *)
THEOREM BlazecFreedOnce == Spec => []FreedOnce
<1>1. FreedInv => FreedOnce
  <2>1. IsInjective(<<>>)
    BY DEF IsInjective
  <2> QED BY <2>1 DEF FreedInv, FreedOnce, Distinct
<1> QED
  BY <1>1, InitFreedInv, NextFreedInv, DriverInv, PTL DEF Spec

-----------------------------------------------------------------------------
(* The machine that runs what blazec has made.  The code of a program is   *)
(* cut at the points between which its phases run: the call of statement i *)
(* with its count, its arguments, the loads of the registers, println, the *)
(* frees and the adjustment of the stack after a long call.                *)
Args(p, i) == p[i].args
Argc(p, i) == Len(p[i].args)
FirstLabel(p, i) == Len(Strings(AllArgs(SubSeq(p, 1, i - 1))))
LabelOf(p, i, k) == FirstLabel(p, i) + Before(Args(p, i), k)

CallsCode(p) == [i \in DOMAIN p |-> x86_64_compile_call_expr(Args(p, i), FirstLabel(p, i))]
ArgsCode(p, i) ==
  [k \in DOMAIN Args(p, i) |->
     x86_64_compile_expr(Args(p, i)[k], LabelOf(p, i, k)) \o Node("push", <<RAX>>)]
Loaded(p, i) == IF Argc(p, i) + 1 <= 6 THEN Argc(p, i) + 1 ELSE 6
LoadsCode(p, i) ==
  [l \in 1..Loaded(p, i) |->
     Node("mov", <<REGISTER_OFFSET(-8 * l, "rbp"), REGISTER_X64(ArgRegister[l])>>)]
FreesCode(p, i) ==
  [f \in 1..Argc(p, i) |-> Node("pop", <<RDI>>) \o Node("call", <<IDENTIFIER("libblaze_val_free")>>)]

(* The code that is left, from each of these points on.                    *)
FromCall(p, i) ==
  FlattenSeq(SubSeq(CallsCode(p), i, Len(p))) \o (x86_64_restore_frame \o Node("ret", <<>>))
FromLong(p, i) ==
  (IF Argc(p, i) > 5 THEN Node("add", <<IMM64(8 * (Argc(p, i) - 5)), RSP>>) ELSE <<>>)
    \o FromCall(p, i + 1)
FromFree(p, i, f) ==
  FlattenSeq(SubSeq(FreesCode(p, i), f, Argc(p, i)))
    \o (Node("add", <<IMM64(8), RSP>>) \o FromLong(p, i))
FromLoad(p, i, l) ==
  FlattenSeq(SubSeq(LoadsCode(p, i), l, Loaded(p, i)))
    \o (Node("call", <<IDENTIFIER("libblaze_fn_println")>>) \o FromFree(p, i, 1))
FromArg(p, i, k) ==
  FlattenSeq(SubSeq(ArgsCode(p, i), k, Argc(p, i))) \o FromLoad(p, i, 1)

(* The instructions of an argument.                                        *)
Operand1(p, i, k) ==
  IF Args(p, i)[k].type = "int" THEN IMM64(Args(p, i)[k].val) ELSE IMM_LBL(LabelOf(p, i, k))
Given(p, i, k) ==
  IF Args(p, i)[k].type = "int" THEN Word("number", Args(p, i)[k].val)
  ELSE Word("label", LabelOf(p, i, k))
Maker(p, i, k) ==
  IF Args(p, i)[k].type = "int" THEN "libblaze_val_create_intval" ELSE "libblaze_val_create_strval"

(* From the place rip on the code is d.                                    *)
Ahead(d) ==
  /\ rip \in Int /\ rip > 0
  /\ Len(asm.code) = rip - 1 + Len(d)
  /\ \A j \in DOMAIN d : asm.code[rip - 1 + j] = d[j]

-----------------------------------------------------------------------------
(* What the machine holds at each point.  Base is the frame of main; below *)
(* it a call piles up its count and a value for each argument made so far. *)
Holds(a, w) == a \in DOMAIN mem /\ mem[a] = w
Top(n)      == reg["rsp"] = Word("stack", n)

Base ==
  /\ Holds(-8, Word("return", 4)) /\ Holds(-16, Junk)
  /\ reg["rbp"] = Word("stack", -16)
  /\ \A a \in DOMAIN mem : a < 0

ShortBefore(p, i) == \A j \in 1..(i - 1) : Argc(p, j) <= 5
Pile(p, i, k, m) ==
  /\ Holds(-24, Word("number", Argc(p, i)))
  /\ \A j \in 1..k : Holds(-24 - 8 * j, Word("value", m + j))
  /\ Top(-24 - 8 * k)
Values(p, i, k, m) ==
  /\ DOMAIN heap = (m + 1)..(m + k)
  /\ Plain => \A j \in 1..k : heap[m + j] = Args(p, i)[j]

(* What has been printed after statement i.                                *)
Output(p, i) == FlattenSeq([j \in 1..i |-> println(Args(p, j))])
IsOut(items) ==
  IF tty THEN written = items /\ stdio = <<>>
  ELSE written = Sent(items, "write") /\ stdio = Sent(items, "printf")
Said(p, i) == Plain => IsOut(Output(p, i))

(* The registers that are loaded hold the values in order.                 *)
InRegisters(l, m) ==
  \A j \in 1..(l - 2) : reg[ArgRegister[j + 1]] = Word("value", m + j)

Within(p, i, m) == i \in 1..Len(p) /\ m \in Nat /\ Base /\ ShortBefore(p, i) /\ Said(p, i - 1)
After(p, i) ==
  /\ i \in 1..Len(p) /\ Base /\ ShortBefore(p, i)
  /\ Argc(p, i) <= 5 => Said(p, i)

(* The points, named for the instruction that comes next: statement i has  *)
(* k arguments to free or is at argument k, and m values were made before  *)
(* it.                                                                     *)
ToCall(p, i) ==
  /\ Ahead(FromCall(p, i)) /\ i \in 1..(Len(p) + 1)
  /\ Base /\ ShortBefore(p, i) /\ Said(p, i - 1)
  /\ Top(-16) /\ DOMAIN heap = {}
ToCount(p, i, m) ==
  /\ Ahead(Node("push", <<RDI>>) \o FromArg(p, i, 1)) /\ Within(p, i, m)
  /\ reg["rdi"] = Word("number", Argc(p, i))
  /\ Top(-16) /\ DOMAIN heap = {} /\ made = m
ToArg(p, i, k, m) ==
  /\ Ahead(FromArg(p, i, k)) /\ Within(p, i, m) /\ k \in 1..(Argc(p, i) + 1)
  /\ Pile(p, i, k - 1, m) /\ Values(p, i, k - 1, m) /\ made = m + k - 1
ToMake(p, i, k, m) ==
  /\ Ahead(Node("call", <<IDENTIFIER(Maker(p, i, k))>>) \o (Node("push", <<RAX>>) \o FromArg(p, i, k + 1)))
  /\ Within(p, i, m) /\ k \in 1..Argc(p, i)
  /\ Pile(p, i, k - 1, m) /\ Values(p, i, k - 1, m) /\ made = m + k - 1
  /\ reg["rdi"] = Given(p, i, k)
ToPush(p, i, k, m) ==
  /\ Ahead(Node("push", <<RAX>>) \o FromArg(p, i, k + 1))
  /\ Within(p, i, m) /\ k \in 1..Argc(p, i)
  /\ Pile(p, i, k - 1, m) /\ Values(p, i, k, m) /\ made = m + k
  /\ reg["rax"] = Word("value", m + k)
ToLoad(p, i, l, m) ==
  /\ Ahead(FromLoad(p, i, l)) /\ Within(p, i, m) /\ l \in 1..(Loaded(p, i) + 1)
  /\ Pile(p, i, Argc(p, i), m) /\ Values(p, i, Argc(p, i), m) /\ made = m + Argc(p, i)
  /\ l > 1 => reg["rdi"] = Word("number", Argc(p, i))
  /\ InRegisters(l, m)
ToFree(p, i, k, m) ==
  /\ Ahead(FromFree(p, i, Argc(p, i) + 1 - k)) /\ After(p, i) /\ m \in Nat /\ k \in 0..Argc(p, i)
  /\ Pile(p, i, k, m) /\ DOMAIN heap = (m + 1)..(m + k)
  /\ reg["rsi"] = Junk
ToDrop(p, i, k, m) ==
  /\ Ahead(Node("call", <<IDENTIFIER("libblaze_val_free")>>) \o FromFree(p, i, Argc(p, i) + 1 - k))
  /\ After(p, i) /\ m \in Nat /\ k \in 0..(Argc(p, i) - 1)
  /\ Pile(p, i, k, m) /\ DOMAIN heap = (m + 1)..(m + k + 1)
  /\ reg["rdi"] = Word("value", m + k + 1)
ToLong(p, i) ==
  /\ Ahead(FromLong(p, i)) /\ After(p, i)
  /\ Top(-16) /\ DOMAIN heap = {}
  /\ Argc(p, i) > 5 /\ Holds(-24, Word("number", Argc(p, i))) /\ reg["rsi"] = Junk
ToReturn(p) ==
  /\ Ahead(Node("ret", <<>>)) /\ ShortBefore(p, Len(p) + 1) /\ Said(p, Len(p))
  /\ Holds(-8, Word("return", 4)) /\ reg["rbp"] = Junk
  /\ Top(-8) /\ DOMAIN heap = {}
Returned(p, at) ==
  /\ rip = at /\ ShortBefore(p, Len(p) + 1) /\ Said(p, Len(p))
  /\ reg["rbp"] = Junk /\ Top(0) /\ DOMAIN heap = {}

(* Before the first call.                                                  *)
Starting(p) ==
  /\ DOMAIN heap = {} /\ made = 0 /\ Said(p, 0) /\ reg["rbp"] = Junk
  /\ \A a \in DOMAIN mem : a < 0
  /\ \/ rip \in {2, 3} /\ Top(0)
     \/ rip \in {6, 7} /\ Top(-8) /\ Holds(-8, Word("return", 4))
     \/ rip = 8 /\ Top(-16) /\ Holds(-8, Word("return", 4)) /\ Holds(-16, Junk)

(* After a call with more than five arguments main has given back more of  *)
(* the stack than it took, q words: what a call pushes does not lie where  *)
(* the loads look for it, and println finds a value where it expects the   *)
(* count, or a count of values that are not there.                         *)
StaleCount == -24 \in DOMAIN mem => (mem[-24].kind = "number" => mem[-24].n \in Nat \ {0})
NoCount    == -24 \in DOMAIN mem => mem[-24].kind = "value"

Shifted(p, i, q) ==
  /\ i \in 1..Len(p) /\ q \in Nat \ {0} /\ reg["rbp"] = Word("stack", -16)
Wrong(p, i, k) == IF k = 0 THEN StaleCount /\ reg["rsi"] = Junk ELSE NoCount

LostCall(p, i, q) ==
  /\ Ahead(FromCall(p, i)) /\ i \in 1..(Len(p) + 1) /\ q \in Nat \ {0}
  /\ reg["rbp"] = Word("stack", -16) /\ Top(-16 + 8 * q) /\ Wrong(p, i, 0)
  /\ \A a \in DOMAIN mem : a < 0
LostCount(p, i, q) ==
  /\ Ahead(Node("push", <<RDI>>) \o FromArg(p, i, 1)) /\ Shifted(p, i, q)
  /\ Top(-16 + 8 * q) /\ Wrong(p, i, 0)
LostArg(p, i, k, q) ==
  /\ Ahead(FromArg(p, i, k)) /\ Shifted(p, i, q) /\ k \in 1..(Argc(p, i) + 1)
  /\ Top(-16 + 8 * q - 8 * k) /\ Wrong(p, i, k - 1)
LostMake(p, i, k, q) ==
  /\ Ahead(Node("call", <<IDENTIFIER(Maker(p, i, k))>>) \o (Node("push", <<RAX>>) \o FromArg(p, i, k + 1)))
  /\ Shifted(p, i, q) /\ k \in 1..Argc(p, i)
  /\ Top(-16 + 8 * q - 8 * k) /\ Wrong(p, i, k - 1)
LostPush(p, i, k, q) ==
  /\ Ahead(Node("push", <<RAX>>) \o FromArg(p, i, k + 1))
  /\ Shifted(p, i, q) /\ k \in 1..Argc(p, i)
  /\ Top(-16 + 8 * q - 8 * k) /\ NoCount /\ reg["rax"].kind = "value"
LostLoad(p, i, l) ==
  /\ Ahead(FromLoad(p, i, l)) /\ i \in 1..Len(p) /\ l \in 1..(Loaded(p, i) + 1)
  /\ reg["rbp"] = Word("stack", -16) /\ Wrong(p, i, Argc(p, i))
  /\ l > 1 => \/ reg["rdi"].kind # "number"
              \/ Argc(p, i) = 0 /\ reg["rdi"].n \in Nat \ {0}
LostReturn(q) ==
  /\ Ahead(Node("ret", <<>>)) /\ q \in Nat \ {0} /\ Top(8 * q - 8)
  /\ \A a \in DOMAIN mem : a < 0

Fine(p) ==
  \/ Starting(p)
  \/ \E i \in 1..(Len(p) + 1) : ToCall(p, i)
  \/ \E i \in 1..Len(p), m \in Nat : ToCount(p, i, m)
  \/ \E i \in 1..Len(p), m \in Nat : \E k \in 1..(Argc(p, i) + 1) : ToArg(p, i, k, m)
  \/ \E i \in 1..Len(p), m \in Nat : \E l \in 1..(Loaded(p, i) + 1) : ToLoad(p, i, l, m)
  \/ \E i \in 1..Len(p), m \in Nat : \E k \in 1..Argc(p, i) : ToMake(p, i, k, m) \/ ToPush(p, i, k, m)
  \/ \E i \in 1..Len(p), m \in Nat : \E k \in 0..Argc(p, i) : ToFree(p, i, k, m) \/ ToDrop(p, i, k, m)
  \/ \E i \in 1..Len(p) : ToLong(p, i)
  \/ ToReturn(p)
  \/ \E at \in {4, 5} : Returned(p, at) /\ (at = 5 => reg["rdi"] = Word("number", 0))

Lost(p) ==
  /\ \E j \in 1..Len(p) : Argc(p, j) > 5
  /\ \/ \E i \in 1..(Len(p) + 1), q \in Nat : LostCall(p, i, q)
     \/ \E i \in 1..Len(p), q \in Nat : LostCount(p, i, q)
     \/ \E i \in 1..Len(p), q \in Nat : \E k \in 1..(Argc(p, i) + 1) : LostArg(p, i, k, q)
     \/ \E i \in 1..Len(p) : \E l \in 1..(Loaded(p, i) + 1) : LostLoad(p, i, l)
     \/ \E i \in 1..Len(p), q \in Nat : \E k \in 1..Argc(p, i) : LostMake(p, i, k, q) \/ LostPush(p, i, k, q)
     \/ \E q \in Nat : LostReturn(q)

(* What runs is the code of the program.                                   *)
Compiled == status = "success" => asm = compilation_context(job.prog) /\ Supported(job.prog, job.debug)

(* The machine as the system hands it over.                                *)
Unstarted ==
  /\ reg = [r \in Reg |-> IF r = "rsp" THEN Word("stack", 0) ELSE Junk]
  /\ mem = <<>> /\ heap = <<>> /\ made = 0 /\ written = <<>> /\ stdio = <<>>

(* A program is at one of the points, with what belongs there; if it has a *)
(* long call it may be past it, and then it cannot get back to _start.     *)
MachineInv ==
  /\ tty \in BOOLEAN /\ DOMAIN reg = Reg /\ made \in Nat
  /\ heap = [h \in DOMAIN heap |-> heap[h]]
  /\ run \in {"no", "running", "exited", "crashed"}
  /\ run = "no" => Unstarted
  /\ run # "no" => status = "success"
  /\ run = "running" => \E p \in {job.prog} : Fine(p) \/ Lost(p)
  /\ run = "crashed" => ~Short
  /\ run = "exited" => Short /\ Top(0) /\ reg["rbp"] = Junk /\ heap = <<>> /\ PrintsProgram

NativeInv == Compiled /\ MachineInv

-----------------------------------------------------------------------------
(* Sequences of pieces of code.                                            *)
LEMMA FlattenFrom ==
  ASSUME NEW T, NEW s \in Seq(Seq(T))
  PROVE  /\ FlattenSeq(SubSeq(s, 1, Len(s))) = FlattenSeq(s)
         /\ FlattenSeq(SubSeq(s, Len(s) + 1, Len(s))) = <<>>
         /\ \A k \in 1..Len(s) :
              FlattenSeq(SubSeq(s, k, Len(s))) = s[k] \o FlattenSeq(SubSeq(s, k + 1, Len(s)))
         /\ \A k \in 1..(Len(s) + 1) : FlattenSeq(SubSeq(s, k, Len(s))) \in Seq(T)
<1> DEFINE n == Len(s)
<1>0. n \in Nat
  OBVIOUS
<1>1. SubSeq(s, 1, n) = s
  BY SubSeqFull
<1>2. SubSeq(s, n + 1, n) = <<>>
  BY <1>0, SubSeqEmpty
<1>3. ASSUME NEW k \in 1..(n + 1) PROVE SubSeq(s, k, n) \in Seq(Seq(T))
  <2>1. \A i \in k..n : s[i] \in Seq(T)
    BY <1>0
  <2> QED BY <1>0, <2>1, SubSeqProperties
<1>4. ASSUME NEW k \in 1..n
      PROVE  FlattenSeq(SubSeq(s, k, n)) = s[k] \o FlattenSeq(SubSeq(s, k + 1, n))
  <2> DEFINE x == s[k]
             u == SubSeq(s, k + 1, n)
             none == <<>>
  <2>1. SubSeq(s, k, n) = <<x>> \o u
    BY <1>0, SubSeqRecursiveFirst
  <2>2. x \in Seq(T) /\ u \in Seq(Seq(T)) /\ <<x>> \in Seq(Seq(T)) /\ none \in Seq(Seq(T))
    BY <1>0, <1>3
  <2>3. Append(none, x) = <<x>> /\ none \o x = x
    BY <2>2
  <2>4. FlattenSeq(none) = none
    BY FlattenNone
  <2> HIDE DEF x, u, none
  <2>5. FlattenSeq(Append(none, x)) = FlattenSeq(none) \o x
    BY <2>2, FlattenAppend
  <2>6. FlattenSeq(<<x>>) = x
    BY <2>3, <2>4, <2>5
  <2> DEFINE v == <<x>>
  <2>7. v \in Seq(Seq(T))
    BY <2>2
  <2> HIDE DEF v
  <2>8. FlattenSeq(v \o u) = FlattenSeq(v) \o FlattenSeq(u)
    BY <2>2, <2>7, FlattenConcat
  <2> QED BY <2>1, <2>6, <2>8 DEF v, x, u
<1>5. \A k \in 1..(n + 1) : FlattenSeq(SubSeq(s, k, n)) \in Seq(T)
  BY <1>3, FlattenedIn
<1> QED BY <1>1, <1>2, <1>4, <1>5, FlattenNone DEF n

(* What an instruction of a statement is.                                  *)
Insts == {"mov", "call", "push", "pop", "add", "ret"}
Body  == [inst : Insts, ops : Seq(Operands)]

LEMMA BodyNode ==
  ASSUME NEW i \in Insts, NEW ops \in Seq(Operands)
  PROVE  Node(i, ops) \in Seq(Body)
<1> DEFINE n == [inst |-> i, ops |-> ops]
<1>1. n \in Body
  BY DEF Body
<1> HIDE DEF n
<1>2. <<n>> \in Seq(Body)
  BY <1>1
<1> QED BY <1>2 DEF Node, n

LEMMA BodyNodes ==
  /\ \A o \in Operands : /\ Node("push", <<o>>) \in Seq(Body) /\ Node("pop", <<o>>) \in Seq(Body)
                         /\ Node("call", <<o>>) \in Seq(Body)
  /\ \A o, t \in Operands : Node("mov", <<o, t>>) \in Seq(Body) /\ Node("add", <<o, t>>) \in Seq(Body)
  /\ Node("ret", <<>>) \in Seq(Body)
<1>1. "push" \in Insts /\ "pop" \in Insts /\ "call" \in Insts /\ "mov" \in Insts /\ "add" \in Insts
      /\ "ret" \in Insts
  BY DEF Insts
<1>2. \A o \in Operands : <<o>> \in Seq(Operands)
  OBVIOUS
<1>3. \A o, t \in Operands : <<o, t>> \in Seq(Operands)
  OBVIOUS
<1>4. <<>> \in Seq(Operands)
  OBVIOUS
<1> QED BY <1>1, <1>2, <1>3, <1>4, BodyNode

LEMMA CodeAssoc ==
  ASSUME NEW a \in Seq(Body), NEW b \in Seq(Body)
  PROVE  /\ a \o b \in Seq(Body)
         /\ \A c \in Seq(Body) : (a \o b) \o c = a \o (b \o c)
<1>1. a \o b \in Seq(Body)
  BY ConcatProperties
<1> QED BY <1>1, ConcatAssociative

-----------------------------------------------------------------------------
(* A program that is compiled.                                             *)
Program(p) ==
  /\ p \in Seq(Statement)
  /\ \A i \in DOMAIN p : \A k \in DOMAIN p[i].args : p[i].args[k].type \in {"int", "string"}

LEMMA ProgramIs ==
  ASSUME NEW p, Program(p), NEW i \in 1..Len(p)
  PROVE  /\ Args(p, i) \in Seq(Argument) /\ Argc(p, i) \in Nat /\ Len(Args(p, i)) = Argc(p, i)
         /\ DOMAIN Args(p, i) = 1..Argc(p, i)
         /\ FirstLabel(p, i) \in Nat
         /\ \A k \in 1..Argc(p, i) :
              /\ Args(p, i)[k] \in Argument
              /\ \/ Args(p, i)[k].type = "int" /\ Args(p, i)[k].val \in Int
                 \/ Args(p, i)[k].type = "string" /\ Args(p, i)[k].val \in Seq(STRING)
              /\ LabelOf(p, i, k) \in Nat
<1>1. p \in Seq(Statement) /\ p[i] \in Statement /\ i \in DOMAIN p
  BY DEF Program
<1>2. p[i].args \in Seq(Argument)
  BY <1>1 DEF Statement
<1> DEFINE args == p[i].args
<1>3. args \in Seq(Argument) /\ Len(args) \in Nat /\ DOMAIN args = 1..Len(args)
  BY <1>2
<1>4. \A k \in 1..Len(args) : args[k].type \in {"int", "string"} /\ args[k] \in Argument
  BY <1>1, <1>3 DEF Program
<1>5. \A x \in Argument : x.type \in {"int", "string"} =>
        \/ x.type = "int" /\ x.val \in Int
        \/ x.type = "string" /\ x.val \in Seq(STRING)
  BY DEF Argument
<1>6. FirstLabel(p, i) \in Nat
  <2> DEFINE q == SubSeq(p, 1, i - 1)
  <2>1. q \in Seq(Statement)
    BY <1>1, PrefixIs
  <2> HIDE DEF q
  <2>2. AllArgs(q) \in Seq(Argument)
    BY <1>1, <2>1, AllArgsConcat
  <2>3. Strings(AllArgs(q)) \in Seq(Argument)
    BY <2>2, StringsConcat
  <2>4. Len(Strings(AllArgs(q))) \in Nat
    BY <2>3
  <2> QED BY <2>4 DEF FirstLabel, q
<1>7. ASSUME NEW k \in 1..Len(args) PROVE LabelOf(p, i, k) \in Nat
  <2> DEFINE a == SubSeq(args, 1, k - 1)
  <2>1. a \in Seq(Argument)
    BY <1>3, PrefixIs
  <2> HIDE DEF a
  <2>2. Strings(a) \in Seq(Argument)
    BY <2>1, StringsConcat
  <2>3. Len(Strings(a)) \in Nat
    BY <2>2
  <2> QED BY <1>6, <2>3 DEF LabelOf, Before, Args, a
<1>8. \A k \in 1..Len(args) :
        /\ args[k] \in Argument
        /\ \/ args[k].type = "int" /\ args[k].val \in Int
           \/ args[k].type = "string" /\ args[k].val \in Seq(STRING)
        /\ LabelOf(p, i, k) \in Nat
  BY <1>4, <1>5, <1>7
<1> QED BY <1>3, <1>6, <1>8 DEF Args, Argc

LEMMA ArgCode ==
  ASSUME NEW p, Program(p), NEW i \in 1..Len(p), NEW k \in 1..Argc(p, i)
  PROVE  /\ ArgsCode(p, i)[k] = Node("mov", <<Operand1(p, i, k), RDI>>)
                                  \o (Node("call", <<IDENTIFIER(Maker(p, i, k))>>) \o Node("push", <<RAX>>))
         /\ ArgsCode(p, i)[k] \in Seq(Body)
         /\ Node("mov", <<Operand1(p, i, k), RDI>>) \in Seq(Body)
         /\ Node("call", <<IDENTIFIER(Maker(p, i, k))>>) \in Seq(Body)
         /\ Node("push", <<RAX>>) \in Seq(Body)
<1> DEFINE x == Args(p, i)[k]
           lbl == LabelOf(p, i, k)
           a == Node("mov", <<Operand1(p, i, k), RDI>>)
           b == Node("call", <<IDENTIFIER(Maker(p, i, k))>>)
           c == Node("push", <<RAX>>)
<1>1. /\ k \in DOMAIN Args(p, i) /\ lbl \in Int
      /\ (x.type = "int" /\ x.val \in Int) \/ x.type = "string"
  BY ProgramIs
<1>2. Operand1(p, i, k) \in Operands /\ Maker(p, i, k) \in Identifiers
  BY <1>1, OperandsIn, NamesIn DEF Operand1, Maker
<1>3. a \in Seq(Body) /\ b \in Seq(Body) /\ c \in Seq(Body)
  BY <1>2, OperandsIn, BodyNodes
<1>4. x86_64_compile_expr(x, lbl) = a \o b
  BY <1>1 DEF x86_64_compile_expr, Operand1, Maker
<1>5. ArgsCode(p, i)[k] = (a \o b) \o c
  <2> HIDE DEF a, b
  <2> QED BY <1>1, <1>4 DEF ArgsCode
<1> HIDE DEF a, b, c
<1>6. (a \o b) \o c = a \o (b \o c) /\ (a \o b) \o c \in Seq(Body)
  BY <1>3, CodeAssoc
<1> QED BY <1>3, <1>5, <1>6 DEF a, b, c

LEMMA LoadCode ==
  ASSUME NEW p, Program(p), NEW i \in 1..Len(p)
  PROVE  /\ Loaded(p, i) \in 1..6 /\ Loaded(p, i) <= Argc(p, i) + 1
         /\ \A l \in 1..Loaded(p, i) :
              /\ LoadsCode(p, i)[l] =
                   Node("mov", <<REGISTER_OFFSET(-8 * l, "rbp"), REGISTER_X64(ArgRegister[l])>>)
              /\ LoadsCode(p, i)[l] \in Seq(Body)
<1>1. Loaded(p, i) \in 1..6 /\ Loaded(p, i) <= Argc(p, i) + 1
  BY ProgramIs DEF Loaded
<1>2. ASSUME NEW l \in 1..Loaded(p, i)
      PROVE  Node("mov", <<REGISTER_OFFSET(-8 * l, "rbp"), REGISTER_X64(ArgRegister[l])>>) \in Seq(Body)
  <2>1. l \in 1..6 /\ -8 * l \in Int
    BY <1>1
  <2>2. REGISTER_OFFSET(-8 * l, "rbp") \in Operands /\ REGISTER_X64(ArgRegister[l]) \in Operands
    BY <2>1, OperandsIn, NamesIn
  <2> QED BY <2>2, BodyNodes
<1> QED BY <1>1, <1>2 DEF LoadsCode

LEMMA FreeCode ==
  ASSUME NEW p, Program(p), NEW i \in 1..Len(p), NEW f \in 1..Argc(p, i)
  PROVE  /\ FreesCode(p, i)[f] = Node("pop", <<RDI>>) \o Node("call", <<IDENTIFIER("libblaze_val_free")>>)
         /\ FreesCode(p, i)[f] \in Seq(Body)
         /\ Node("pop", <<RDI>>) \in Seq(Body)
         /\ Node("call", <<IDENTIFIER("libblaze_val_free")>>) \in Seq(Body)
<1>1. Node("pop", <<RDI>>) \in Seq(Body) /\ Node("call", <<IDENTIFIER("libblaze_val_free")>>) \in Seq(Body)
  BY OperandsIn, NamesIn, BodyNodes
<1>2. Node("pop", <<RDI>>) \o Node("call", <<IDENTIFIER("libblaze_val_free")>>) \in Seq(Body)
  BY <1>1, CodeAssoc
<1> QED BY <1>1, <1>2 DEF FreesCode

(* The pieces, as sequences.                                               *)
LEMMA PiecesIn ==
  ASSUME NEW p, Program(p), NEW i \in 1..Len(p)
  PROVE  /\ ArgsCode(p, i) \in Seq(Seq(Body)) /\ Len(ArgsCode(p, i)) = Argc(p, i)
         /\ LoadsCode(p, i) \in Seq(Seq(Body)) /\ Len(LoadsCode(p, i)) = Loaded(p, i)
         /\ FreesCode(p, i) \in Seq(Seq(Body)) /\ Len(FreesCode(p, i)) = Argc(p, i)
<1>0. Loaded(p, i) \in 1..6
  BY LoadCode
<1>1. Argc(p, i) \in Nat /\ Loaded(p, i) \in Nat /\ DOMAIN Args(p, i) = 1..Argc(p, i)
  BY <1>0, ProgramIs
<1>2. ASSUME NEW s, NEW n \in Nat, s = [j \in 1..n |-> s[j]], \A j \in 1..n : s[j] \in Seq(Body)
      PROVE  s \in Seq(Seq(Body)) /\ Len(s) = n
  <2>1. s \in [1..n -> Seq(Body)]
    BY <1>2
  <2> QED BY <2>1, SeqDef, LenProperties
<1>3. /\ ArgsCode(p, i) = [j \in 1..Argc(p, i) |-> ArgsCode(p, i)[j]]
      /\ LoadsCode(p, i) = [j \in 1..Loaded(p, i) |-> LoadsCode(p, i)[j]]
      /\ FreesCode(p, i) = [j \in 1..Argc(p, i) |-> FreesCode(p, i)[j]]
  BY <1>1 DEF ArgsCode, LoadsCode, FreesCode
<1>4. \A j \in 1..Argc(p, i) : ArgsCode(p, i)[j] \in Seq(Body) /\ FreesCode(p, i)[j] \in Seq(Body)
  BY ArgCode, FreeCode
<1>5. \A j \in 1..Loaded(p, i) : LoadsCode(p, i)[j] \in Seq(Body)
  BY LoadCode
<1>6. ArgsCode(p, i) \in Seq(Seq(Body)) /\ Len(ArgsCode(p, i)) = Argc(p, i)
  BY <1>1, <1>2, <1>3, <1>4
<1>7. LoadsCode(p, i) \in Seq(Seq(Body)) /\ Len(LoadsCode(p, i)) = Loaded(p, i)
  BY <1>1, <1>2, <1>3, <1>5
<1>8. FreesCode(p, i) \in Seq(Seq(Body)) /\ Len(FreesCode(p, i)) = Argc(p, i)
  BY <1>1, <1>2, <1>3, <1>4
<1> QED BY <1>6, <1>7, <1>8

(* A statement, in pieces.                                                 *)
Count(p, i)  == Node("mov", <<IMM64(Argc(p, i)), RDI>>)
PushCount    == Node("push", <<RDI>>)
CallPrintln  == Node("call", <<IDENTIFIER("libblaze_fn_println")>>)
DropCount    == Node("add", <<IMM64(8), RSP>>)
AddLong(p, i) == Node("add", <<IMM64(8 * (Argc(p, i) - 5)), RSP>>)
DropLong(p, i) == IF Argc(p, i) > 5 THEN AddLong(p, i) ELSE <<>>
Epilogue     == x86_64_restore_frame \o Node("ret", <<>>)

LEMMA SmallIn ==
  /\ PushCount \in Seq(Body) /\ CallPrintln \in Seq(Body) /\ DropCount \in Seq(Body)
  /\ x86_64_restore_frame \in Seq(Body) /\ Node("ret", <<>>) \in Seq(Body) /\ Epilogue \in Seq(Body)
  /\ \A p, i : Argc(p, i) \in Nat =>
       Count(p, i) \in Seq(Body) /\ AddLong(p, i) \in Seq(Body) /\ DropLong(p, i) \in Seq(Body)
<1>1. PushCount \in Seq(Body) /\ CallPrintln \in Seq(Body) /\ DropCount \in Seq(Body)
  BY OperandsIn, NamesIn, BodyNodes DEF PushCount, CallPrintln, DropCount
<1>2. x86_64_restore_frame \in Seq(Body) /\ Node("ret", <<>>) \in Seq(Body)
  BY OperandsIn, BodyNodes DEF x86_64_restore_frame
<1>3. Epilogue \in Seq(Body)
  BY <1>2, CodeAssoc DEF Epilogue
<1>4. ASSUME NEW p, NEW i, Argc(p, i) \in Nat
      PROVE  Count(p, i) \in Seq(Body) /\ AddLong(p, i) \in Seq(Body) /\ DropLong(p, i) \in Seq(Body)
  <2>1. IMM64(Argc(p, i)) \in Operands /\ IMM64(8 * (Argc(p, i) - 5)) \in Operands
    BY <1>4, OperandsIn
  <2>2. Count(p, i) \in Seq(Body) /\ AddLong(p, i) \in Seq(Body)
    BY <2>1, OperandsIn, BodyNodes DEF Count, AddLong
  <2>3. <<>> \in Seq(Body)
    OBVIOUS
  <2> QED BY <2>2, <2>3 DEF DropLong
<1> QED BY <1>1, <1>2, <1>3, <1>4

LEMMA CallCode ==
  ASSUME NEW p, Program(p), NEW i \in 1..Len(p)
  PROVE  /\ CallsCode(p)[i] =
              (((((Count(p, i) \o PushCount) \o FlattenSeq(ArgsCode(p, i))) \o FlattenSeq(LoadsCode(p, i)))
                 \o CallPrintln) \o (FlattenSeq(FreesCode(p, i)) \o DropCount)) \o DropLong(p, i)
         /\ CallsCode(p)[i] \in Seq(Body)
         /\ FlattenSeq(ArgsCode(p, i)) \in Seq(Body) /\ FlattenSeq(LoadsCode(p, i)) \in Seq(Body)
         /\ FlattenSeq(FreesCode(p, i)) \in Seq(Body)
<1> DEFINE args == Args(p, i)
           lbl == FirstLabel(p, i)
           X == FlattenSeq(ArgsCode(p, i))
           L == FlattenSeq(LoadsCode(p, i))
           F == FlattenSeq(FreesCode(p, i))
<1>0. i \in DOMAIN p
  BY DEF Program
<1>1. CallsCode(p)[i] = x86_64_compile_call_expr(args, lbl)
  BY <1>0 DEF CallsCode
<1>2. x86_64_compile_call_expr_args(args, lbl) = (Count(p, i) \o PushCount) \o X
  BY DEF x86_64_compile_call_expr_args, Count, PushCount, ArgsCode, LabelOf, Args, Argc
<1>3. x86_64_compile_call_expr_args_load(Len(args) + 1) = L
  BY DEF x86_64_compile_call_expr_args_load, LoadsCode, Loaded, Args, Argc
<1>4. x86_64_compile_call_expr_free_values(Len(args)) = F \o DropCount
  BY DEF x86_64_compile_call_expr_free_values, FreesCode, Args, Argc, DropCount
<1>5. Len(args) = Argc(p, i)
  BY DEF Args, Argc
<1>6. X \in Seq(Body) /\ L \in Seq(Body) /\ F \in Seq(Body)
  BY PiecesIn, FlattenedIn
<1> HIDE DEF X, L, F, args, lbl
<1>7. CallsCode(p)[i] =
        (((((Count(p, i) \o PushCount) \o X) \o L) \o CallPrintln) \o (F \o DropCount)) \o DropLong(p, i)
  BY <1>1, <1>2, <1>3, <1>4, <1>5 DEF x86_64_compile_call_expr, CallPrintln, DropLong, AddLong
<1>8. CallsCode(p)[i] \in Seq(Body)
  <2>1. Count(p, i) \in Seq(Body) /\ DropLong(p, i) \in Seq(Body)
    BY ProgramIs, SmallIn
  <2>2. Count(p, i) \o PushCount \in Seq(Body)
    BY <2>1, SmallIn, CodeAssoc
  <2>3. (Count(p, i) \o PushCount) \o X \in Seq(Body)
    BY <1>6, <2>2, CodeAssoc
  <2>4. ((Count(p, i) \o PushCount) \o X) \o L \in Seq(Body)
    BY <1>6, <2>3, CodeAssoc
  <2>5. (((Count(p, i) \o PushCount) \o X) \o L) \o CallPrintln \in Seq(Body)
    BY <2>4, SmallIn, CodeAssoc
  <2>6. F \o DropCount \in Seq(Body)
    BY <1>6, SmallIn, CodeAssoc
  <2>7. ((((Count(p, i) \o PushCount) \o X) \o L) \o CallPrintln) \o (F \o DropCount) \in Seq(Body)
    BY <2>5, <2>6, CodeAssoc
  <2> QED BY <1>7, <2>1, <2>7, CodeAssoc
<1> QED BY <1>6, <1>7, <1>8 DEF X, L, F

LEMMA CallsIn ==
  ASSUME NEW p, Program(p)
  PROVE  CallsCode(p) \in Seq(Seq(Body)) /\ Len(CallsCode(p)) = Len(p) /\ Len(p) \in Nat
<1>1. Len(p) \in Nat /\ DOMAIN p = 1..Len(p)
  BY DEF Program
<1>2. \A i \in 1..Len(p) : CallsCode(p)[i] \in Seq(Body)
  BY CallCode
<1>3. CallsCode(p) = [i \in 1..Len(p) |-> CallsCode(p)[i]]
  BY <1>1 DEF CallsCode
<1>4. CallsCode(p) \in [1..Len(p) -> Seq(Body)]
  BY <1>2, <1>3
<1> QED BY <1>1, <1>4, SeqDef, LenProperties

(* The rest of the code is code.                                           *)
LEMMA RestIn ==
  ASSUME NEW p, Program(p)
  PROVE  /\ \A i \in 1..(Len(p) + 1) : FromCall(p, i) \in Seq(Body)
         /\ \A i \in 1..Len(p) :
              /\ FromLong(p, i) \in Seq(Body)
              /\ \A f \in 1..(Argc(p, i) + 1) : FromFree(p, i, f) \in Seq(Body)
              /\ \A l \in 1..(Loaded(p, i) + 1) : FromLoad(p, i, l) \in Seq(Body)
              /\ \A k \in 1..(Argc(p, i) + 1) : FromArg(p, i, k) \in Seq(Body)
<1>0. Len(p) \in Nat
  BY CallsIn
<1>1. ASSUME NEW i \in 1..(Len(p) + 1) PROVE FromCall(p, i) \in Seq(Body)
  <2> DEFINE x == FlattenSeq(SubSeq(CallsCode(p), i, Len(p)))
  <2>1. x \in Seq(Body)
    BY CallsIn, FlattenFrom
  <2> HIDE DEF x
  <2>2. x \o Epilogue \in Seq(Body)
    BY <2>1, SmallIn, CodeAssoc
  <2> QED BY <2>2 DEF FromCall, x, Epilogue
<1>2. ASSUME NEW i \in 1..Len(p)
      PROVE  /\ FromLong(p, i) \in Seq(Body)
             /\ \A f \in 1..(Argc(p, i) + 1) : FromFree(p, i, f) \in Seq(Body)
             /\ \A l \in 1..(Loaded(p, i) + 1) : FromLoad(p, i, l) \in Seq(Body)
             /\ \A k \in 1..(Argc(p, i) + 1) : FromArg(p, i, k) \in Seq(Body)
  <2>0. Argc(p, i) \in Nat /\ DropLong(p, i) \in Seq(Body) /\ i + 1 \in 1..(Len(p) + 1)
    BY <1>0, ProgramIs, SmallIn
  <2>1. FromLong(p, i) \in Seq(Body)
    <3>1. FromCall(p, i + 1) \in Seq(Body)
      BY <1>1, <2>0
    <3>2. DropLong(p, i) \o FromCall(p, i + 1) \in Seq(Body)
      BY <2>0, <3>1, CodeAssoc
    <3> QED BY <3>2 DEF FromLong, DropLong, AddLong
  <2>2. ASSUME NEW f \in 1..(Argc(p, i) + 1) PROVE FromFree(p, i, f) \in Seq(Body)
    <3> DEFINE x == FlattenSeq(SubSeq(FreesCode(p, i), f, Argc(p, i)))
    <3>1. x \in Seq(Body)
      BY PiecesIn, FlattenFrom
    <3>2. DropCount \o FromLong(p, i) \in Seq(Body)
      BY <2>1, SmallIn, CodeAssoc
    <3> HIDE DEF x
    <3>3. x \o (DropCount \o FromLong(p, i)) \in Seq(Body)
      BY <3>1, <3>2, CodeAssoc
    <3> QED BY <3>3 DEF FromFree, x, DropCount
  <2>3. ASSUME NEW l \in 1..(Loaded(p, i) + 1) PROVE FromLoad(p, i, l) \in Seq(Body)
    <3> DEFINE x == FlattenSeq(SubSeq(LoadsCode(p, i), l, Loaded(p, i)))
    <3>1. x \in Seq(Body)
      BY PiecesIn, FlattenFrom
    <3>0. FromFree(p, i, 1) \in Seq(Body)
      BY <2>0, <2>2
    <3>2. CallPrintln \o FromFree(p, i, 1) \in Seq(Body)
      BY <3>0, SmallIn, CodeAssoc
    <3> HIDE DEF x
    <3>3. x \o (CallPrintln \o FromFree(p, i, 1)) \in Seq(Body)
      BY <3>1, <3>2, CodeAssoc
    <3> QED BY <3>3 DEF FromLoad, x, CallPrintln
  <2>4. ASSUME NEW k \in 1..(Argc(p, i) + 1) PROVE FromArg(p, i, k) \in Seq(Body)
    <3> DEFINE x == FlattenSeq(SubSeq(ArgsCode(p, i), k, Argc(p, i)))
    <3>1. x \in Seq(Body)
      BY PiecesIn, FlattenFrom
    <3>0. Loaded(p, i) \in 1..6
      BY LoadCode
    <3>2. FromLoad(p, i, 1) \in Seq(Body)
      BY <2>3, <3>0
    <3> HIDE DEF x
    <3>3. x \o FromLoad(p, i, 1) \in Seq(Body)
      BY <3>1, <3>2, CodeAssoc
    <3> QED BY <3>3 DEF FromArg, x
  <2> QED BY <2>1, <2>2, <2>3, <2>4
<1> QED BY <1>1, <1>2

-----------------------------------------------------------------------------
(* What comes first at every point, and what is ahead after it.            *)
LEMMA AlikeGrouped == \A a, b, c \in Seq(Body) : (a \o b) \o c = a \o (b \o c)
  BY CodeAssoc

LEMMA NothingBefore ==
  ASSUME NEW c \in Seq(Body)
  PROVE  <<>> \o c = c /\ c \o <<>> = c
  BY ConcatEmptySeq

LEMMA AtEnd ==
  ASSUME NEW p, Program(p)
  PROVE  FromCall(p, Len(p) + 1) = Node("pop", <<RBP>>) \o Node("ret", <<>>)
<1>1. FlattenSeq(SubSeq(CallsCode(p), Len(p) + 1, Len(p))) = <<>>
  BY CallsIn, FlattenFrom
<1>2. <<>> \o Epilogue = Epilogue
  BY SmallIn, NothingBefore
<1> QED BY <1>1, <1>2 DEF FromCall, Epilogue, x86_64_restore_frame

LEMMA AtArg ==
  ASSUME NEW p, Program(p), NEW i \in 1..Len(p)
  PROVE  /\ FromArg(p, i, Argc(p, i) + 1) = FromLoad(p, i, 1)
         /\ \A k \in 1..Argc(p, i) :
              FromArg(p, i, k) =
                Node("mov", <<Operand1(p, i, k), RDI>>)
                  \o (Node("call", <<IDENTIFIER(Maker(p, i, k))>>)
                        \o (Node("push", <<RAX>>) \o FromArg(p, i, k + 1)))
<1> DEFINE K == Argc(p, i)
           x(k) == FlattenSeq(SubSeq(ArgsCode(p, i), k, K))
           r == FromLoad(p, i, 1)
<1>0. K \in Nat /\ r \in Seq(Body)
  <2>1. Loaded(p, i) \in 1..6
    BY LoadCode
  <2> QED BY <2>1, ProgramIs, RestIn
<1>1. /\ x(K + 1) = <<>>
      /\ \A k \in 1..K : x(k) = ArgsCode(p, i)[k] \o x(k + 1)
      /\ \A k \in 1..(K + 1) : x(k) \in Seq(Body)
  <2> DEFINE s == ArgsCode(p, i)
  <2>1. s \in Seq(Seq(Body)) /\ K = Len(s)
    BY PiecesIn
  <2> HIDE DEF s
  <2>2. /\ FlattenSeq(SubSeq(s, K + 1, K)) = <<>>
        /\ \A k \in 1..K : FlattenSeq(SubSeq(s, k, K)) = s[k] \o FlattenSeq(SubSeq(s, k + 1, K))
        /\ \A k \in 1..(K + 1) : FlattenSeq(SubSeq(s, k, K)) \in Seq(Body)
    BY <2>1, FlattenFrom
  <2> QED BY <2>2 DEF s
<1>2. \A k : FromArg(p, i, k) = x(k) \o r
  BY DEF FromArg
<1> HIDE DEF x, r
<1>3. FromArg(p, i, K + 1) = r
  BY <1>0, <1>1, <1>2, NothingBefore
<1>4. ASSUME NEW k \in 1..K
      PROVE  FromArg(p, i, k) =
                Node("mov", <<Operand1(p, i, k), RDI>>)
                  \o (Node("call", <<IDENTIFIER(Maker(p, i, k))>>)
                        \o (Node("push", <<RAX>>) \o FromArg(p, i, k + 1)))
  <2> DEFINE a == Node("mov", <<Operand1(p, i, k), RDI>>)
             b == Node("call", <<IDENTIFIER(Maker(p, i, k))>>)
             c == Node("push", <<RAX>>)
             y == x(k + 1)
  <2>1. a \in Seq(Body) /\ b \in Seq(Body) /\ c \in Seq(Body) /\ ArgsCode(p, i)[k] = a \o (b \o c)
    BY ArgCode
  <2>2. y \in Seq(Body) /\ x(k) = ArgsCode(p, i)[k] \o y /\ FromArg(p, i, k + 1) = y \o r
    <3>1. k + 1 \in 1..(K + 1)
      BY <1>0
    <3> QED BY <3>1, <1>1, <1>2
  <2>3. FromArg(p, i, k) = ((a \o (b \o c)) \o y) \o r
    BY <1>2, <2>1, <2>2
  <2> HIDE DEF a, b, c, y
  <2>4. b \o c \in Seq(Body) /\ c \o y \in Seq(Body) /\ y \o r \in Seq(Body)
        /\ a \o (b \o c) \in Seq(Body)
    BY <1>0, <2>1, <2>2, CodeAssoc
  <2>5. ((a \o (b \o c)) \o y) \o r = (a \o (b \o c)) \o (y \o r)
    BY ONLY <1>0, <2>2, <2>4, AlikeGrouped, Zenon
  <2>6. (a \o (b \o c)) \o (y \o r) = a \o ((b \o c) \o (y \o r))
    BY ONLY <2>1, <2>4, AlikeGrouped, Zenon
  <2>7. (b \o c) \o (y \o r) = b \o (c \o (y \o r))
    BY ONLY <2>1, <2>4, AlikeGrouped, Zenon
  <2> QED BY <2>2, <2>3, <2>5, <2>6, <2>7 DEF a, b, c
<1> QED BY <1>3, <1>4 DEF r

LEMMA AtLoad ==
  ASSUME NEW p, Program(p), NEW i \in 1..Len(p)
  PROVE  /\ FromLoad(p, i, Loaded(p, i) + 1) = CallPrintln \o FromFree(p, i, 1)
         /\ \A l \in 1..Loaded(p, i) :
              FromLoad(p, i, l) =
                Node("mov", <<REGISTER_OFFSET(-8 * l, "rbp"), REGISTER_X64(ArgRegister[l])>>)
                  \o FromLoad(p, i, l + 1)
<1> DEFINE K == Loaded(p, i)
           x(k) == FlattenSeq(SubSeq(LoadsCode(p, i), k, K))
           r == CallPrintln \o FromFree(p, i, 1)
<1>0. K \in 1..6 /\ r \in Seq(Body)
  <2>1. Loaded(p, i) \in 1..6 /\ Argc(p, i) \in Nat
    BY LoadCode, ProgramIs
  <2>2. FromFree(p, i, 1) \in Seq(Body)
    BY <2>1, RestIn
  <2> QED BY <2>1, <2>2, SmallIn, CodeAssoc
<1>1. /\ x(K + 1) = <<>>
      /\ \A k \in 1..K : x(k) = LoadsCode(p, i)[k] \o x(k + 1)
      /\ \A k \in 1..(K + 1) : x(k) \in Seq(Body)
  <2> DEFINE s == LoadsCode(p, i)
  <2>1. s \in Seq(Seq(Body)) /\ K = Len(s)
    BY PiecesIn
  <2> HIDE DEF s
  <2>2. /\ FlattenSeq(SubSeq(s, K + 1, K)) = <<>>
        /\ \A k \in 1..K : FlattenSeq(SubSeq(s, k, K)) = s[k] \o FlattenSeq(SubSeq(s, k + 1, K))
        /\ \A k \in 1..(K + 1) : FlattenSeq(SubSeq(s, k, K)) \in Seq(Body)
    BY <2>1, FlattenFrom
  <2> QED BY <2>2 DEF s
<1>2. \A k : FromLoad(p, i, k) = x(k) \o r
  BY DEF FromLoad, CallPrintln
<1> HIDE DEF x, r
<1>3. FromLoad(p, i, K + 1) = r
  BY <1>0, <1>1, <1>2, NothingBefore
<1>4. ASSUME NEW k \in 1..K
      PROVE  FromLoad(p, i, k) = LoadsCode(p, i)[k] \o FromLoad(p, i, k + 1)
  <2>a. LoadsCode(p, i)[k] \in Seq(Body)
    BY LoadCode
  <2>1. k + 1 \in 1..(K + 1) /\ LoadsCode(p, i)[k] \in Seq(Body)
    BY <1>0, <2>a
  <2>2. FromLoad(p, i, k) = (LoadsCode(p, i)[k] \o x(k + 1)) \o r
    BY <1>1, <1>2
  <2>3. x(k + 1) \in Seq(Body) /\ FromLoad(p, i, k + 1) = x(k + 1) \o r
    BY <1>1, <1>2, <2>1
  <2>4. (LoadsCode(p, i)[k] \o x(k + 1)) \o r = LoadsCode(p, i)[k] \o (x(k + 1) \o r)
    BY ONLY <1>0, <2>1, <2>3, AlikeGrouped, Zenon
  <2> QED BY <2>2, <2>3, <2>4
<1>5. \A l \in 1..K : LoadsCode(p, i)[l] =
        Node("mov", <<REGISTER_OFFSET(-8 * l, "rbp"), REGISTER_X64(ArgRegister[l])>>)
  BY LoadCode
<1> QED BY <1>3, <1>4, <1>5 DEF r

LEMMA AtFree ==
  ASSUME NEW p, Program(p), NEW i \in 1..Len(p)
  PROVE  /\ FromFree(p, i, Argc(p, i) + 1) = DropCount \o FromLong(p, i)
         /\ \A f \in 1..Argc(p, i) :
              FromFree(p, i, f) =
                Node("pop", <<RDI>>)
                  \o (Node("call", <<IDENTIFIER("libblaze_val_free")>>) \o FromFree(p, i, f + 1))
<1> DEFINE K == Argc(p, i)
           x(k) == FlattenSeq(SubSeq(FreesCode(p, i), k, K))
           r == DropCount \o FromLong(p, i)
<1>0. K \in Nat /\ r \in Seq(Body)
  <2>1. FromLong(p, i) \in Seq(Body)
    BY RestIn
  <2> QED BY <2>1, ProgramIs, SmallIn, CodeAssoc
<1>1. /\ x(K + 1) = <<>>
      /\ \A k \in 1..K : x(k) = FreesCode(p, i)[k] \o x(k + 1)
      /\ \A k \in 1..(K + 1) : x(k) \in Seq(Body)
  <2> DEFINE s == FreesCode(p, i)
  <2>1. s \in Seq(Seq(Body)) /\ K = Len(s)
    BY PiecesIn
  <2> HIDE DEF s
  <2>2. /\ FlattenSeq(SubSeq(s, K + 1, K)) = <<>>
        /\ \A k \in 1..K : FlattenSeq(SubSeq(s, k, K)) = s[k] \o FlattenSeq(SubSeq(s, k + 1, K))
        /\ \A k \in 1..(K + 1) : FlattenSeq(SubSeq(s, k, K)) \in Seq(Body)
    BY <2>1, FlattenFrom
  <2> QED BY <2>2 DEF s
<1>2. \A k : FromFree(p, i, k) = x(k) \o r
  BY DEF FromFree, DropCount
<1> HIDE DEF x, r
<1>3. FromFree(p, i, K + 1) = r
  BY <1>0, <1>1, <1>2, NothingBefore
<1>4. ASSUME NEW k \in 1..K
      PROVE  FromFree(p, i, k) =
                Node("pop", <<RDI>>)
                  \o (Node("call", <<IDENTIFIER("libblaze_val_free")>>) \o FromFree(p, i, k + 1))
  <2> DEFINE a == Node("pop", <<RDI>>)
             b == Node("call", <<IDENTIFIER("libblaze_val_free")>>)
             y == x(k + 1)
  <2>1. a \in Seq(Body) /\ b \in Seq(Body) /\ FreesCode(p, i)[k] = a \o b
    BY FreeCode
  <2>2. y \in Seq(Body) /\ x(k) = FreesCode(p, i)[k] \o y /\ FromFree(p, i, k + 1) = y \o r
    <3>1. k + 1 \in 1..(K + 1)
      BY <1>0
    <3> QED BY <3>1, <1>1, <1>2
  <2>3. FromFree(p, i, k) = ((a \o b) \o y) \o r
    BY <1>2, <2>1, <2>2
  <2> HIDE DEF a, b, y
  <2>4. a \o b \in Seq(Body) /\ y \o r \in Seq(Body)
    BY <1>0, <2>1, <2>2, CodeAssoc
  <2>5. ((a \o b) \o y) \o r = (a \o b) \o (y \o r)
    BY ONLY <1>0, <2>2, <2>4, AlikeGrouped, Zenon
  <2>6. (a \o b) \o (y \o r) = a \o (b \o (y \o r))
    BY ONLY <2>1, <2>4, AlikeGrouped, Zenon
  <2> QED BY <2>2, <2>3, <2>5, <2>6 DEF a, b
<1> QED BY <1>3, <1>4 DEF r

LEMMA AtLong ==
  ASSUME NEW p, Program(p), NEW i \in 1..Len(p)
  PROVE  FromLong(p, i) = IF Argc(p, i) > 5 THEN AddLong(p, i) \o FromCall(p, i + 1)
                          ELSE FromCall(p, i + 1)
<1>1. i + 1 \in 1..(Len(p) + 1)
  BY CallsIn
<1>2. FromCall(p, i + 1) \in Seq(Body)
  BY <1>1, RestIn
<1>3. <<>> \o FromCall(p, i + 1) = FromCall(p, i + 1)
  BY <1>2, NothingBefore
<1> QED BY <1>3 DEF FromLong, AddLong

LEMMA AtCall ==
  ASSUME NEW p, Program(p), NEW i \in 1..Len(p)
  PROVE  FromCall(p, i) = Count(p, i) \o (PushCount \o FromArg(p, i, 1))
<1> DEFINE a == Count(p, i)
           b == PushCount
           X == FlattenSeq(ArgsCode(p, i))
           L == FlattenSeq(LoadsCode(p, i))
           C == CallPrintln
           F == FlattenSeq(FreesCode(p, i))
           D == DropCount
           G == DropLong(p, i)
           R == FromCall(p, i + 1)
<1>0. Argc(p, i) \in Nat /\ Loaded(p, i) \in Nat /\ i + 1 \in 1..(Len(p) + 1)
  <2>1. Loaded(p, i) \in 1..6
    BY LoadCode
  <2>2. Len(p) \in Nat
    BY CallsIn
  <2> QED BY <2>1, <2>2, ProgramIs
<1>1. /\ a \in Seq(Body) /\ b \in Seq(Body) /\ X \in Seq(Body) /\ L \in Seq(Body) /\ C \in Seq(Body)
      /\ F \in Seq(Body) /\ D \in Seq(Body) /\ G \in Seq(Body) /\ R \in Seq(Body)
  BY <1>0, CallCode, SmallIn, RestIn
<1>2. FromCall(p, i) = CallsCode(p)[i] \o R
  <2> DEFINE x(k) == FlattenSeq(SubSeq(CallsCode(p), k, Len(p)))
             e == Epilogue
  <2>1. x(i) = CallsCode(p)[i] \o x(i + 1) /\ x(i + 1) \in Seq(Body)
    <3> DEFINE s == CallsCode(p)
               n == Len(p)
    <3>1. s \in Seq(Seq(Body)) /\ n = Len(s) /\ i \in 1..n
      BY CallsIn
    <3> HIDE DEF s, n
    <3>2. /\ FlattenSeq(SubSeq(s, i, n)) = s[i] \o FlattenSeq(SubSeq(s, i + 1, n))
          /\ \A k \in 1..(n + 1) : FlattenSeq(SubSeq(s, k, n)) \in Seq(Body)
      BY <3>1, FlattenFrom
    <3>3. i + 1 \in 1..(n + 1)
      BY <1>0 DEF n
    <3> QED BY <3>2, <3>3 DEF s, n
  <2>2. \A k : FromCall(p, k) = x(k) \o e
    BY DEF FromCall, Epilogue
  <2>3. CallsCode(p)[i] \in Seq(Body) /\ e \in Seq(Body)
    BY CallCode, SmallIn
  <2> HIDE DEF x, e, R
  <2>4. (CallsCode(p)[i] \o x(i + 1)) \o e = CallsCode(p)[i] \o (x(i + 1) \o e)
    BY ONLY <2>1, <2>3, AlikeGrouped, Zenon
  <2> QED BY <2>1, <2>2, <2>4 DEF R
<1>3. CallsCode(p)[i] = (((((a \o b) \o X) \o L) \o C) \o (F \o D)) \o G
  BY CallCode
<1>4. FromFree(p, i, 1) = F \o (D \o (G \o R))
  BY <1>0, PiecesIn, FlattenFrom DEF FromFree, FromLong, DropLong, AddLong, DropCount
<1>5. FromLoad(p, i, 1) = L \o (C \o FromFree(p, i, 1))
  BY <1>0, PiecesIn, FlattenFrom DEF FromLoad, CallPrintln
<1>6. FromArg(p, i, 1) = X \o FromLoad(p, i, 1)
  BY <1>0, PiecesIn, FlattenFrom DEF FromArg
<1> HIDE DEF a, b, X, L, C, F, D, G, R
<1>7. FromCall(p, i) = ((((((a \o b) \o X) \o L) \o C) \o (F \o D)) \o G) \o R
  BY <1>2, <1>3
<1> DEFINE s1 == a \o b
           s2 == s1 \o X
           s3 == s2 \o L
           s4 == s3 \o C
           s5 == F \o D
           s6 == s4 \o s5
           t1 == G \o R
           t2 == D \o t1
           t3 == F \o t2
           t4 == C \o t3
           t5 == L \o t4
           t6 == X \o t5
<1>9. /\ s1 = a \o b /\ s2 = s1 \o X /\ s3 = s2 \o L /\ s4 = s3 \o C /\ s5 = F \o D /\ s6 = s4 \o s5
      /\ t1 = G \o R /\ t2 = D \o t1 /\ t3 = F \o t2 /\ t4 = C \o t3 /\ t5 = L \o t4 /\ t6 = X \o t5
  OBVIOUS
<1>f. FromCall(p, i) = (s6 \o G) \o R /\ FromArg(p, i, 1) = t6
  BY <1>4, <1>5, <1>6, <1>7
<1> HIDE DEF s1, s2, s3, s4, s5, s6, t1, t2, t3, t4, t5, t6
<1>s1. s1 \in Seq(Body) /\ s5 \in Seq(Body) /\ t1 \in Seq(Body)
  BY <1>1, <1>9, CodeAssoc
<1>t. t2 \in Seq(Body) /\ t3 \in Seq(Body) /\ t4 \in Seq(Body) /\ t5 \in Seq(Body) /\ t6 \in Seq(Body)
  <2>1. t2 \in Seq(Body)
    BY <1>1, <1>9, <1>s1, CodeAssoc
  <2>2. t3 \in Seq(Body)
    BY <1>1, <1>9, <2>1, CodeAssoc
  <2>3. t4 \in Seq(Body)
    BY <1>1, <1>9, <2>2, CodeAssoc
  <2>4. t5 \in Seq(Body)
    BY <1>1, <1>9, <2>3, CodeAssoc
  <2> QED BY <1>1, <1>9, <2>1, <2>2, <2>3, <2>4, CodeAssoc
<1>s. s2 \in Seq(Body) /\ s3 \in Seq(Body) /\ s4 \in Seq(Body) /\ s6 \in Seq(Body)
  <2>1. s2 \in Seq(Body)
    BY <1>1, <1>9, <1>s1, CodeAssoc
  <2>2. s3 \in Seq(Body)
    BY <1>1, <1>9, <2>1, CodeAssoc
  <2>3. s4 \in Seq(Body)
    BY <1>1, <1>9, <2>2, CodeAssoc
  <2> QED BY <1>1, <1>9, <1>s1, <2>1, <2>2, <2>3, CodeAssoc
<1>a1. (s6 \o G) \o R = s6 \o (G \o R)
  <2>1. s6 \in Seq(Body) /\ G \in Seq(Body) /\ R \in Seq(Body)
    BY <1>1, <1>s
  <2> QED BY ONLY <2>1, AlikeGrouped, Zenon
<1>a2. (s4 \o s5) \o t1 = s4 \o (s5 \o t1)
  <2>1. s4 \in Seq(Body) /\ s5 \in Seq(Body) /\ t1 \in Seq(Body)
    BY <1>s1, <1>s
  <2> QED BY ONLY <2>1, AlikeGrouped, Zenon
<1>a3. (F \o D) \o t1 = F \o (D \o t1)
  <2>1. F \in Seq(Body) /\ D \in Seq(Body) /\ t1 \in Seq(Body)
    BY <1>1, <1>s1
  <2> QED BY ONLY <2>1, AlikeGrouped, Zenon
<1>a4. (s3 \o C) \o t3 = s3 \o (C \o t3)
  <2>1. s3 \in Seq(Body) /\ C \in Seq(Body) /\ t3 \in Seq(Body)
    BY <1>1, <1>s, <1>t
  <2> QED BY ONLY <2>1, AlikeGrouped, Zenon
<1>a5. (s2 \o L) \o t4 = s2 \o (L \o t4)
  <2>1. s2 \in Seq(Body) /\ L \in Seq(Body) /\ t4 \in Seq(Body)
    BY <1>1, <1>s, <1>t
  <2> QED BY ONLY <2>1, AlikeGrouped, Zenon
<1>a6. (s1 \o X) \o t5 = s1 \o (X \o t5)
  <2>1. s1 \in Seq(Body) /\ X \in Seq(Body) /\ t5 \in Seq(Body)
    BY <1>1, <1>s1, <1>t
  <2> QED BY ONLY <2>1, AlikeGrouped, Zenon
<1>a7. (a \o b) \o t6 = a \o (b \o t6)
  <2>1. a \in Seq(Body) /\ b \in Seq(Body) /\ t6 \in Seq(Body)
    BY <1>1, <1>t
  <2> QED BY ONLY <2>1, AlikeGrouped, Zenon
<1>10. FromCall(p, i) = a \o (b \o t6)
  <2>1. FromCall(p, i) = s6 \o t1
    BY ONLY <1>f, <1>9, <1>a1
  <2>2. s6 \o t1 = s4 \o t3
    BY ONLY <1>9, <1>a2, <1>a3
  <2>3. s4 \o t3 = s2 \o t5
    BY ONLY <1>9, <1>a4, <1>a5
  <2>4. s2 \o t5 = a \o (b \o t6)
    BY ONLY <1>9, <1>a6, <1>a7
  <2> QED BY ONLY <2>1, <2>2, <2>3, <2>4
<1> QED BY <1>f, <1>10 DEF a, b

-----------------------------------------------------------------------------
(* The whole of the code: eight instructions, and then the statements.     *)
Instr(inst, ops) == [inst |-> inst, ops |-> ops]
Opening ==
  <<Instr("globl", <<IDENTIFIER("_start")>>), Instr("label", <<IDENTIFIER("_start")>>),
    Instr("call", <<IDENTIFIER("main")>>), Instr("mov", <<IMM64(0), RDI>>),
    Instr("call", <<IDENTIFIER("exit")>>), Instr("label", <<IDENTIFIER("main")>>),
    Instr("push", <<RBP>>), Instr("mov", <<RSP, RBP>>)>>

LEMMA RootCode ==
  ASSUME NEW p, Program(p), NEW c, c = x86_64_compile_root(p)
  PROVE  /\ Len(c) = 8 + Len(FromCall(p, 1)) /\ Len(FromCall(p, 1)) \in Nat
         /\ DOMAIN c = 1..Len(c)
         /\ \A j \in 1..8 : c[j] = Opening[j]
         /\ \A j \in 1..Len(FromCall(p, 1)) : c[8 + j] = FromCall(p, 1)[j] /\ c[8 + j].inst # "label"
<1> DEFINE T == [inst : Insts \cup {"globl", "label"}, ops : Seq(Operands)]
           r1 == Instr("globl", <<IDENTIFIER("_start")>>)
           r2 == Instr("label", <<IDENTIFIER("_start")>>)
           r3 == Instr("call", <<IDENTIFIER("main")>>)
           r4 == Instr("mov", <<IMM64(0), RDI>>)
           r5 == Instr("call", <<IDENTIFIER("exit")>>)
           r6 == Instr("label", <<IDENTIFIER("main")>>)
           r7 == Instr("push", <<RBP>>)
           r8 == Instr("mov", <<RSP, RBP>>)
           b == FromCall(p, 1)
           e == x86_64_restore_frame
           r == Node("ret", <<>>)
           x == FlattenSeq(CallsCode(p))
           u1 == <<r1>>
           u2 == u1 \o <<r2>>
           u3 == u2 \o <<r3>>
           u4 == u3 \o <<r4>>
           u5 == u4 \o <<r5>>
           u6 == u5 \o <<r6>>
           u7 == u6 \o <<r7>>
           h == u7 \o <<r8>>
<1>1. /\ r1 \in T /\ r2 \in T /\ r3 \in T /\ r4 \in T /\ r5 \in T /\ r6 \in T /\ r7 \in T /\ r8 \in T
  <2>1. \A o \in Operands : <<o>> \in Seq(Operands)
    OBVIOUS
  <2>2. \A o, t \in Operands : <<o, t>> \in Seq(Operands)
    OBVIOUS
  <2>3. /\ IDENTIFIER("_start") \in Operands /\ IDENTIFIER("main") \in Operands
        /\ IDENTIFIER("exit") \in Operands /\ IMM64(0) \in Operands
    BY OperandsIn, NamesIn
  <2>4. \A i \in Insts \cup {"globl", "label"}, o \in Seq(Operands) : Instr(i, o) \in T
    BY DEF Instr
  <2>5. "call" \in Insts /\ "mov" \in Insts /\ "push" \in Insts
    BY DEF Insts
  <2> HIDE DEF T
  <2> QED BY <2>1, <2>2, <2>3, <2>4, <2>5, OperandsIn
<1>2. Body \subseteq T
  BY DEF Body
<1>3. b \in Seq(Body) /\ x \in Seq(Body) /\ e \in Seq(Body) /\ r \in Seq(Body)
  <2>1. Len(p) \in Nat
    BY CallsIn
  <2>2. x \in Seq(Body)
    BY CallsIn, FlattenedIn
  <2> QED BY <2>1, <2>2, RestIn, SmallIn
<1>4. b = x \o (e \o r)
  <2>1. FlattenSeq(SubSeq(CallsCode(p), 1, Len(CallsCode(p)))) = x /\ Len(CallsCode(p)) = Len(p)
    BY CallsIn, FlattenFrom
  <2> QED BY <2>1 DEF FromCall
<1>5. x86_64_compile_root_start = (((<<r1>> \o <<r2>>) \o <<r3>>) \o <<r4>>) \o <<r5>>
  BY DEF x86_64_compile_root_start, Node, Instr
<1>6. x86_64_setup_frame = <<r7>> \o <<r8>> /\ Node("label", <<IDENTIFIER("main")>>) = <<r6>>
  BY DEF x86_64_setup_frame, Node, Instr
<1>7. c = (((((((((<<r1>> \o <<r2>>) \o <<r3>>) \o <<r4>>) \o <<r5>>) \o <<r6>>) \o (<<r7>> \o <<r8>>)) \o x)
             \o e) \o r)
  <2>1. x = FlattenSeq([i \in DOMAIN p |->
              x86_64_compile_call_expr(p[i].args, Len(Strings(AllArgs(SubSeq(p, 1, i - 1)))))])
    BY DEF CallsCode, Args, FirstLabel
  <2> HIDE DEF x, e, r, r1, r2, r3, r4, r5, r6, r7, r8
  <2> QED BY <1>5, <1>6, <2>1 DEF x86_64_compile_root, e, r
<1>8. /\ Opening[1] = r1 /\ Opening[2] = r2 /\ Opening[3] = r3 /\ Opening[4] = r4
      /\ Opening[5] = r5 /\ Opening[6] = r6 /\ Opening[7] = r7 /\ Opening[8] = r8
  <2>1. Opening = <<r1, r2, r3, r4, r5, r6, r7, r8>>
    BY DEF Opening
  <2> HIDE DEF r1, r2, r3, r4, r5, r6, r7, r8
  <2> QED BY <2>1
<1>9. /\ u2 = u1 \o <<r2>> /\ u3 = u2 \o <<r3>> /\ u4 = u3 \o <<r4>> /\ u5 = u4 \o <<r5>>
      /\ u6 = u5 \o <<r6>> /\ u7 = u6 \o <<r7>> /\ h = u7 \o <<r8>>
      /\ u1 \in Seq(T) /\ Len(u1) = 1 /\ u1[1] = r1
  <2> HIDE DEF r1, r2, r3, r4, r5, r6, r7, r8, T
  <2> QED BY <1>1
<1>c. c = (((u6 \o (<<r7>> \o <<r8>>)) \o x) \o e) \o r
  <2> HIDE DEF r1, r2, r3, r4, r5, r6, r7, r8
  <2> QED BY <1>7
<1> HIDE DEF r1, r2, r3, r4, r5, r6, r7, r8, T, b, e, r, x, u1, u2, u3, u4, u5, u6, u7, h
<1>a. ASSUME NEW s \in Seq(T), NEW y \in T, NEW w, w = s \o <<y>>
      PROVE  /\ w \in Seq(T) /\ Len(w) = Len(s) + 1
             /\ w[Len(s) + 1] = y
             /\ \A j \in 1..Len(s) : w[j] = s[j]
  <2>1. s \o <<y>> = Append(s, y)
    BY AppendIsConcat
  <2> QED BY <1>a, <2>1, AppendProperties
<1>b. u6 \in Seq(T) =>
        u6 \o (<<r7>> \o <<r8>>) = (u6 \o <<r7>>) \o <<r8>>
  <2> DEFINE u == <<r7>>
             v == <<r8>>
  <2>1. u \in Seq(T) /\ v \in Seq(T)
    BY <1>1
  <2> HIDE DEF u, v
  <2>3. u6 \in Seq(T) => (u6 \o u) \o v = u6 \o (u \o v)
    BY <2>1, ConcatAssociative
  <2> QED BY <2>3 DEF u, v
<1>u2. u2 \in Seq(T) /\ Len(u2) = 2 /\ u2[1] = r1 /\ u2[2] = r2
  <2>1. 1 \in 1..Len(u1) /\ Len(u1) + 1 = 2
    BY <1>9
  <2>2. u1 \in Seq(T) /\ r2 \in T /\ u2 = u1 \o <<r2>>
    BY <1>1, <1>9
  <2>3. /\ u2 \in Seq(T) /\ Len(u2) = Len(u1) + 1 /\ u2[Len(u1) + 1] = r2
        /\ \A j \in 1..Len(u1) : u2[j] = u1[j]
    BY ONLY <1>a, <2>2
  <2> QED BY ONLY <1>9, <2>1, <2>3
<1>u3. u3 \in Seq(T) /\ Len(u3) = 3
       /\ u3[1] = r1 /\ u3[2] = r2 /\ u3[3] = r3
  <2>1. 1 \in 1..Len(u2) /\ 2 \in 1..Len(u2)
        /\ Len(u2) + 1 = 3
    BY <1>u2
  <2>2. u2 \in Seq(T) /\ r3 \in T /\ u3 = u2 \o <<r3>>
    BY <1>u2, <1>1, <1>9
  <2>3. /\ u3 \in Seq(T) /\ Len(u3) = Len(u2) + 1 /\ u3[Len(u2) + 1] = r3
        /\ \A j \in 1..Len(u2) : u3[j] = u2[j]
    BY ONLY <1>a, <2>2
  <2> QED BY ONLY <1>u2, <1>9, <2>1, <2>3
<1>u4. u4 \in Seq(T) /\ Len(u4) = 4
       /\ u4[1] = r1 /\ u4[2] = r2 /\ u4[3] = r3 /\ u4[4] = r4
  <2>1. 1 \in 1..Len(u3) /\ 2 \in 1..Len(u3) /\ 3 \in 1..Len(u3)
        /\ Len(u3) + 1 = 4
    BY <1>u3
  <2>2. u3 \in Seq(T) /\ r4 \in T /\ u4 = u3 \o <<r4>>
    BY <1>u3, <1>1, <1>9
  <2>3. /\ u4 \in Seq(T) /\ Len(u4) = Len(u3) + 1 /\ u4[Len(u3) + 1] = r4
        /\ \A j \in 1..Len(u3) : u4[j] = u3[j]
    BY ONLY <1>a, <2>2
  <2> QED BY ONLY <1>u3, <1>9, <2>1, <2>3
<1>u5. u5 \in Seq(T) /\ Len(u5) = 5
       /\ u5[1] = r1 /\ u5[2] = r2 /\ u5[3] = r3 /\ u5[4] = r4 /\ u5[5] = r5
  <2>1. 1 \in 1..Len(u4) /\ 2 \in 1..Len(u4) /\ 3 \in 1..Len(u4) /\ 4 \in 1..Len(u4)
        /\ Len(u4) + 1 = 5
    BY <1>u4
  <2>2. u4 \in Seq(T) /\ r5 \in T /\ u5 = u4 \o <<r5>>
    BY <1>u4, <1>1, <1>9
  <2>3. /\ u5 \in Seq(T) /\ Len(u5) = Len(u4) + 1 /\ u5[Len(u4) + 1] = r5
        /\ \A j \in 1..Len(u4) : u5[j] = u4[j]
    BY ONLY <1>a, <2>2
  <2> QED BY ONLY <1>u4, <1>9, <2>1, <2>3
<1>u6. u6 \in Seq(T) /\ Len(u6) = 6
       /\ u6[1] = r1 /\ u6[2] = r2 /\ u6[3] = r3 /\ u6[4] = r4 /\ u6[5] = r5 /\ u6[6] = r6
  <2>1. 1 \in 1..Len(u5) /\ 2 \in 1..Len(u5) /\ 3 \in 1..Len(u5) /\ 4 \in 1..Len(u5) /\ 5 \in 1..Len(u5)
        /\ Len(u5) + 1 = 6
    BY <1>u5
  <2>2. u5 \in Seq(T) /\ r6 \in T /\ u6 = u5 \o <<r6>>
    BY <1>u5, <1>1, <1>9
  <2>3. /\ u6 \in Seq(T) /\ Len(u6) = Len(u5) + 1 /\ u6[Len(u5) + 1] = r6
        /\ \A j \in 1..Len(u5) : u6[j] = u5[j]
    BY ONLY <1>a, <2>2
  <2> QED BY ONLY <1>u5, <1>9, <2>1, <2>3
<1>u7. u7 \in Seq(T) /\ Len(u7) = 7
       /\ u7[1] = r1 /\ u7[2] = r2 /\ u7[3] = r3 /\ u7[4] = r4 /\ u7[5] = r5 /\ u7[6] = r6 /\ u7[7] = r7
  <2>1. 1 \in 1..Len(u6) /\ 2 \in 1..Len(u6) /\ 3 \in 1..Len(u6) /\ 4 \in 1..Len(u6) /\ 5 \in 1..Len(u6) /\ 6 \in 1..Len(u6)
        /\ Len(u6) + 1 = 7
    BY <1>u6
  <2>2. u6 \in Seq(T) /\ r7 \in T /\ u7 = u6 \o <<r7>>
    BY <1>u6, <1>1, <1>9
  <2>3. /\ u7 \in Seq(T) /\ Len(u7) = Len(u6) + 1 /\ u7[Len(u6) + 1] = r7
        /\ \A j \in 1..Len(u6) : u7[j] = u6[j]
    BY ONLY <1>a, <2>2
  <2> QED BY ONLY <1>u6, <1>9, <2>1, <2>3
<1>u8. h \in Seq(T) /\ Len(h) = 8
       /\ h[1] = r1 /\ h[2] = r2 /\ h[3] = r3 /\ h[4] = r4 /\ h[5] = r5 /\ h[6] = r6 /\ h[7] = r7 /\ h[8] = r8
  <2>1. 1 \in 1..Len(u7) /\ 2 \in 1..Len(u7) /\ 3 \in 1..Len(u7) /\ 4 \in 1..Len(u7) /\ 5 \in 1..Len(u7) /\ 6 \in 1..Len(u7) /\ 7 \in 1..Len(u7)
        /\ Len(u7) + 1 = 8
    BY <1>u7
  <2>2. u7 \in Seq(T) /\ r8 \in T /\ h = u7 \o <<r8>>
    BY <1>u7, <1>1, <1>9
  <2>3. /\ h \in Seq(T) /\ Len(h) = Len(u7) + 1 /\ h[Len(u7) + 1] = r8
        /\ \A j \in 1..Len(u7) : h[j] = u7[j]
    BY ONLY <1>a, <2>2
  <2> QED BY ONLY <1>u7, <1>9, <2>1, <2>3
<1>10. u6 \o (<<r7>> \o <<r8>>) = h
  BY <1>9, <1>b, <1>u6
<1>11. h \in Seq(T) /\ Len(h) = 8
  BY <1>u8
<1>12. x \in Seq(T) /\ e \in Seq(T) /\ r \in Seq(T) /\ b \in Seq(T)
  BY <1>2, <1>3
<1>13. c = h \o b
  <2>1. c = ((h \o x) \o e) \o r
    BY <1>c, <1>10
  <2>2. h \o x \in Seq(T) /\ e \o r \in Seq(T)
    BY <1>11, <1>12, ConcatProperties
  <2>a. \A u, v, w \in Seq(T) : (u \o v) \o w = u \o (v \o w)
    BY ConcatAssociative
  <2> DEFINE y == h \o x
  <2>b. y \in Seq(T)
    BY <2>2
  <2> HIDE DEF y
  <2>c. (y \o e) \o r = y \o (e \o r)
    BY ONLY <1>12, <2>b, <2>a, Zenon
  <2>3. ((h \o x) \o e) \o r = (h \o x) \o (e \o r)
    BY <2>c DEF y
  <2>4. (h \o x) \o (e \o r) = h \o (x \o (e \o r))
    BY ONLY <1>11, <1>12, <2>2, <2>a, Zenon
  <2> QED BY <1>4, <2>1, <2>3, <2>4
<1>14. /\ c \in Seq(T) /\ Len(c) = 8 + Len(b)
       /\ \A j \in 1..(8 + Len(b)) : c[j] = IF j <= 8 THEN h[j] ELSE b[j - 8]
  <2>1. /\ h \o b \in Seq(T) /\ Len(h \o b) = Len(h) + Len(b)
        /\ \A j \in 1..(Len(h) + Len(b)) : (h \o b)[j] = IF j <= Len(h) THEN h[j] ELSE b[j - Len(h)]
    BY ONLY <1>11, <1>12, ConcatProperties
  <2> QED BY <1>11, <1>13, <2>1
<1>15. Len(b) \in Nat /\ DOMAIN c = 1..Len(c)
  BY <1>12, <1>14
<1>16. \A j \in 1..8 : c[j] = Opening[j]
  <2>1. \A j \in 1..8 : c[j] = h[j]
    BY <1>14, <1>15
  <2>2. \A j \in 1..8 : j \in {1, 2, 3, 4, 5, 6, 7, 8}
    OBVIOUS
  <2> QED BY <1>8, <1>u8, <2>1, <2>2
<1>17. ASSUME NEW j \in 1..Len(b) PROVE c[8 + j] = b[j] /\ c[8 + j].inst # "label"
  <2>1. 8 + j \in 1..(8 + Len(b)) /\ ~(8 + j <= 8) /\ (8 + j) - 8 = j
    BY <1>15
  <2>2. c[8 + j] = b[j]
    BY <1>14, <2>1
  <2>3. b[j] \in Body
    BY <1>3
  <2>4. b[j].inst # "label"
    BY <2>3 DEF Body, Insts
  <2> QED BY <2>2, <2>4
<1> QED BY <1>14, <1>15, <1>16, <1>17 DEF b

(* Where the two labels are.                                               *)
LEMMA LabelsAt ==
  ASSUME NEW p, Program(p), asm.code = x86_64_compile_root(p)
  PROVE  Label("_start") = 2 /\ Label("main") = 6
<1> DEFINE c == asm.code
           n == Len(FromCall(p, 1))
<1>1. /\ Len(c) = 8 + n /\ n \in Nat /\ DOMAIN c = 1..Len(c)
      /\ \A j \in 1..8 : c[j] = Opening[j]
      /\ \A j \in 1..n : c[8 + j].inst # "label"
  BY RootCode
<1>2. /\ c[1].inst = "globl" /\ c[3].inst = "call" /\ c[4].inst = "mov" /\ c[5].inst = "call"
      /\ c[7].inst = "push" /\ c[8].inst = "mov"
      /\ c[2].inst = "label" /\ c[2].ops[1].val = "_start"
      /\ c[6].inst = "label" /\ c[6].ops[1].val = "main"
  BY <1>1 DEF Opening, Instr, IDENTIFIER, Operand
<1> HIDE DEF c, n
<1>3. \A i \in DOMAIN c : c[i].inst = "label" => i = 2 \/ i = 6
  <2> SUFFICES ASSUME NEW i \in DOMAIN c, c[i].inst = "label" PROVE i = 2 \/ i = 6
    OBVIOUS
  <2>1. CASE i > 8
    <3>1. i - 8 \in 1..n /\ 8 + (i - 8) = i
      BY <1>1, <2>1
    <3> QED BY <1>1, <3>1
  <2>2. CASE ~(i > 8)
    <3>1. i \in {1, 2, 3, 4, 5, 6, 7, 8}
      BY <1>1, <2>2
    <3> QED BY <1>2, <3>1
  <2> QED BY <2>1, <2>2
<1>4. 2 \in DOMAIN c /\ 6 \in DOMAIN c
  BY <1>1
<1>5. (CHOOSE i \in DOMAIN c : c[i].inst = "label" /\ c[i].ops[1].val = "_start") = 2
  BY <1>2, <1>3, <1>4
<1>6. (CHOOSE i \in DOMAIN c : c[i].inst = "label" /\ c[i].ops[1].val = "main") = 6
  BY <1>2, <1>3, <1>4
<1> QED BY <1>5, <1>6 DEF Label, c

(* The instruction that is ahead, and what is ahead after it.              *)
LEMMA AheadStep ==
  ASSUME NEW i, NEW ops, NEW d \in Seq(Body), Node(i, ops) \in Seq(Body), Ahead(Node(i, ops) \o d)
  PROVE  /\ Inst.inst = i /\ Inst.ops = ops /\ rip \in Int
         /\ rip' = rip + 1 /\ asm' = asm => Ahead(d)'
<1> DEFINE n == Node(i, ops)
           e == n \o d
<1>1. n \in Seq(Body) /\ Len(n) = 1 /\ n[1] = Instr(i, ops)
  BY DEF Node, Instr
<1> HIDE DEF n
<1>2. /\ e \in Seq(Body) /\ Len(e) = 1 + Len(d)
      /\ \A j \in 1..(1 + Len(d)) : e[j] = IF j <= 1 THEN n[j] ELSE d[j - 1]
  <2>1. d \in Seq(Body)
    OBVIOUS
  <2>2. /\ n \o d \in Seq(Body) /\ Len(n \o d) = Len(n) + Len(d)
        /\ \A j \in 1..(Len(n) + Len(d)) : (n \o d)[j] = IF j <= Len(n) THEN n[j] ELSE d[j - Len(n)]
    BY ONLY <1>1, <2>1, ConcatProperties
  <2> QED BY <1>1, <2>2
<1>3. Len(d) \in Nat /\ DOMAIN d = 1..Len(d) /\ DOMAIN e = 1..Len(e)
  BY <1>2
<1>4. e[1] = Instr(i, ops) /\ Len(e) = Len(d) + 1
  BY <1>1, <1>2, <1>3
<1>5. ASSUME NEW j \in 1..Len(d) PROVE e[j + 1] = d[j]
  <2>1. j + 1 \in 1..(1 + Len(d)) /\ ~(j + 1 <= 1) /\ (j + 1) - 1 = j
    BY <1>3
  <2> QED BY <1>2, <2>1
<1>6. Ahead(e)
  BY DEF n
<1> HIDE DEF e
<1>7. rip \in Int /\ rip > 0 /\ Len(asm.code) = rip - 1 + Len(e)
      /\ \A j \in DOMAIN e : asm.code[rip - 1 + j] = e[j]
  BY <1>6 DEF Ahead
<1>8. 1 \in DOMAIN e /\ rip - 1 + 1 = rip
  BY <1>3, <1>4, <1>7
<1>9. asm.code[rip] = Instr(i, ops)
  BY <1>4, <1>7, <1>8
<1>10. Inst.inst = i /\ Inst.ops = ops
  BY <1>9 DEF Inst, Instr
<1>11. ASSUME rip' = rip + 1, asm' = asm PROVE Ahead(d)'
  <2>1. rip' \in Int /\ rip' > 0 /\ Len(asm'.code) = rip' - 1 + Len(d)
    BY ONLY <1>3, <1>4, <1>7, <1>11
  <2>2. ASSUME NEW j \in DOMAIN d PROVE asm'.code[rip' - 1 + j] = d[j]
    <3>0. j \in 1..Len(d)
      BY <1>3
    <3>a. j + 1 \in DOMAIN e
      BY ONLY <1>3, <1>4, <3>0
    <3>b. rip - 1 + (j + 1) = rip' - 1 + j
      BY ONLY <1>3, <1>7, <1>11, <3>0
    <3>1. j + 1 \in DOMAIN e /\ rip - 1 + (j + 1) = rip' - 1 + j
      BY <3>a, <3>b
    <3>2. e[j + 1] = d[j]
      BY <1>3, <1>5
    <3> QED BY <1>7, <1>11, <3>1, <3>2
  <2> QED BY <2>1, <2>2 DEF Ahead
<1> QED BY <1>7, <1>10, <1>11

(* After the opening the statements are ahead.                             *)
LEMMA AheadAfterOpening ==
  ASSUME NEW p, Program(p), asm.code = x86_64_compile_root(p), rip = 9
  PROVE  Ahead(FromCall(p, 1))
<1>1. /\ Len(asm.code) = 8 + Len(FromCall(p, 1))
      /\ \A j \in 1..Len(FromCall(p, 1)) : asm.code[8 + j] = FromCall(p, 1)[j]
  BY RootCode
<1>2. DOMAIN FromCall(p, 1) = 1..Len(FromCall(p, 1)) /\ Len(FromCall(p, 1)) \in Nat
  <2>1. Len(p) \in Nat
    BY CallsIn
  <2>2. FromCall(p, 1) \in Seq(Body)
    BY <2>1, RestIn
  <2> QED BY <2>2
<1> QED BY <1>1, <1>2 DEF Ahead

-----------------------------------------------------------------------------
(* The instructions, one at a time.                                        *)
Onward  == UNCHANGED <<driver, tty, run>> /\ rip' = rip + 1 /\ DOMAIN reg' = Reg
Quietly == UNCHANGED <<heap, made, written, stdio>>

LEMMA Regs ==
  /\ "rax" \in Reg /\ "rbp" \in Reg /\ "rsp" \in Reg /\ "rdi" \in Reg /\ "rsi" \in Reg
  /\ ArgRegister[1] = "rdi" /\ ArgRegister[2] = "rsi"
  /\ \A j \in 1..6 : ArgRegister[j] \in Reg /\ ArgRegister[j] \notin {"rax", "rbp", "rsp"}
  /\ \A j, k \in 1..6 : ArgRegister[j] = ArgRegister[k] => j = k
  /\ \A j \in 2..6 : ArgRegister[j] # "rdi"
<1>1. /\ ArgRegister[1] = "rdi" /\ ArgRegister[2] = "rsi" /\ ArgRegister[3] = "rdx"
      /\ ArgRegister[4] = "rcx" /\ ArgRegister[5] = "r8" /\ ArgRegister[6] = "r9"
      /\ DOMAIN ArgRegister = 1..6
  BY DEF ArgRegister
<1>2. \A j \in 1..6 : j \in {1, 2, 3, 4, 5, 6}
  OBVIOUS
<1>3. \A j \in 1..6 : ArgRegister[j] \in ToSet(ArgRegister)
  <2> HIDE DEF ArgRegister
  <2> QED BY <1>1 DEF ToSet
<1>4. \A j \in 1..6 : ArgRegister[j] \in Reg
  BY <1>3 DEF Reg
<1>5. "rdi" \in Reg /\ "rsi" \in Reg
  BY <1>1, <1>4
<1>6. \A j, k \in 1..6 : ArgRegister[j] = ArgRegister[k] => j = k
  <2> HIDE DEF ArgRegister
  <2> QED BY <1>1, <1>2
<1>7. \A j \in 1..6 : ArgRegister[j] \notin {"rax", "rbp", "rsp"}
  <2> HIDE DEF ArgRegister
  <2> QED BY <1>1, <1>2
<1>8. \A j \in 2..6 : ArgRegister[j] # "rdi"
  <2>1. \A j \in 2..6 : j \in 1..6 /\ j # 1 /\ 1 \in 1..6
    OBVIOUS
  <2> QED BY <1>1, <1>6, <2>1
<1> QED BY <1>1, <1>4, <1>5, <1>6, <1>7, <1>8 DEF Reg

LEMMA Only ==
  ASSUME run = "running", Step
  PROVE  /\ Inst.inst = "label" => label
         /\ Inst.inst = "mov" => mov
         /\ Inst.inst = "add" => add
         /\ Inst.inst = "push" => push
         /\ Inst.inst = "pop" => pop
         /\ Inst.inst = "ret" => ret
         /\ Inst.inst = "call" =>
              /\ Op(1).val = "main" => call_main
              /\ Op(1).val = "libblaze_val_create_intval" => libblaze_val_create_intval
              /\ Op(1).val = "libblaze_val_create_strval" => libblaze_val_create_strval
              /\ Op(1).val = "libblaze_fn_println" => libblaze_fn_println
              /\ Op(1).val = "libblaze_val_free" => libblaze_val_free
              /\ Op(1).val = "exit" => exit
<1>1. ~Start
  BY DEF Start
<1>2. /\ label => Inst.inst = "label"
      /\ mov => Inst.inst = "mov"
      /\ add => Inst.inst = "add"
      /\ push => Inst.inst = "push"
      /\ pop => Inst.inst = "pop"
      /\ ret => Inst.inst = "ret"
  BY Zenon DEF label, mov, add, push, pop, ret, Doing
<1>3. /\ call_main => Inst.inst = "call" /\ Op(1).val = "main"
      /\ libblaze_val_create_intval => Inst.inst = "call" /\ Op(1).val = "libblaze_val_create_intval"
      /\ libblaze_val_create_strval => Inst.inst = "call" /\ Op(1).val = "libblaze_val_create_strval"
      /\ libblaze_fn_println => Inst.inst = "call" /\ Op(1).val = "libblaze_fn_println"
      /\ libblaze_val_free => Inst.inst = "call" /\ Op(1).val = "libblaze_val_free"
      /\ exit => Inst.inst = "call" /\ Op(1).val = "exit"
  BY Zenon DEF call_main, libblaze_val_create_intval, libblaze_val_create_strval, libblaze_fn_println,
               libblaze_val_free, exit, Calls, Doing
<1>4. \/ label \/ mov \/ add \/ push \/ pop \/ ret \/ call_main
      \/ libblaze_val_create_intval \/ libblaze_val_create_strval
      \/ libblaze_fn_println \/ libblaze_val_free \/ exit
  BY <1>1 DEF Step
<1> QED BY ONLY <1>2, <1>3, <1>4

LEMMA RegSet ==
  ASSUME DOMAIN reg = Reg, NEW r \in Reg, NEW w, reg' = [reg EXCEPT ![r] = w]
  PROVE  /\ DOMAIN reg' = Reg /\ reg'[r] = w
         /\ \A q \in Reg : q # r => reg'[q] = reg[q]
  OBVIOUS

LEMMA WordIs ==
  /\ \A kind, n : Word(kind, n).kind = kind /\ Word(kind, n).n = n
  /\ \A n \in Int, m \in Int : Below(Word("stack", n), m) = Word("stack", n + m)
  /\ \A kind, k, n, m : Word(kind, n) = Word(k, m) => kind = k /\ n = m
  BY DEF Word, Below

LEMMA OperandIs ==
  /\ \A n : IMM64(n).type = "immediate" /\ IMM64(n).val = n
  /\ \A n : IMM_LBL(n).type = "label" /\ IMM_LBL(n).val = n
  /\ \A r : REGISTER_X64(r).type = "register" /\ REGISTER_X64(r).val = r
  /\ \A n, r : /\ REGISTER_OFFSET(n, r).type = "offset_register" /\ REGISTER_OFFSET(n, r).val = r
               /\ REGISTER_OFFSET(n, r).offset = n
  /\ \A d : IDENTIFIER(d).val = d
  BY DEF IMM64, IMM_LBL, REGISTER_X64, REGISTER_OFFSET, IDENTIFIER, Operand

LEMMA SourceIs ==
  /\ \A n : Source(IMM64(n)) = Word("number", n)
  /\ \A n : Source(IMM_LBL(n)) = Word("label", n)
  /\ \A r : Source(REGISTER_X64(r)) = reg[r]
  /\ \A n, r : Source(REGISTER_OFFSET(n, r)) = Load(Below(reg[r], n))
<1> USE OperandIs
<1>1. \A n : Source(IMM64(n)) = Word("number", n)
  BY DEF Source
<1>2. \A n : Source(IMM_LBL(n)) = Word("label", n)
  BY DEF Source
<1>3. \A r : Source(REGISTER_X64(r)) = reg[r]
  BY DEF Source
<1>4. \A n, r : Source(REGISTER_OFFSET(n, r)) = Load(Below(reg[r], n))
  BY DEF Source
<1> QED BY <1>1, <1>2, <1>3, <1>4

LEMMA LoadIs ==
  ASSUME NEW t \in Int
  PROVE  /\ \A w : Holds(t, w) => Load(Word("stack", t)) = w
         /\ t \notin DOMAIN mem => Load(Word("stack", t)) = Junk
         /\ t \in DOMAIN mem => Load(Word("stack", t)) = mem[t]
<1>1. Word("stack", t).kind = "stack" /\ Word("stack", t).n = t
  BY WordIs
<1> QED BY <1>1 DEF Load, Holds

LEMMA movIs ==
  ASSUME run = "running", Step, DOMAIN reg = Reg, NEW src, NEW r \in Reg,
         Inst.inst = "mov", Inst.ops = <<src, REGISTER_X64(r)>>
  PROVE  /\ Onward /\ Quietly /\ mem' = mem
         /\ reg'[r] = Source(src)
         /\ \A q \in Reg : q # r => reg'[q] = reg[q]
<1>1. mov
  BY Only
<1>2. Op(1) = src /\ Op(2).val = r
  BY OperandIs DEF Op
<1>3. reg' = [reg EXCEPT ![r] = Source(src)]
  BY <1>1, <1>2 DEF mov
<1>4. UNCHANGED <<driver, tty, mem, heap, made, written, stdio, run>> /\ rip' = rip + 1
  BY <1>1 DEF mov
<1>5. DOMAIN reg' = Reg /\ reg'[r] = Source(src) /\ \A q \in Reg : q # r => reg'[q] = reg[q]
  BY <1>3
<1> QED BY <1>4, <1>5 DEF Onward, Quietly

LEMMA addIs ==
  ASSUME run = "running", Step, DOMAIN reg = Reg, NEW n \in Int, NEW t \in Int, Top(t),
         Inst.inst = "add", Inst.ops = <<IMM64(n), RSP>>
  PROVE  /\ Onward /\ Quietly /\ mem' = mem
         /\ Top(t + n)'
         /\ \A q \in Reg : q # "rsp" => reg'[q] = reg[q]
<1>1. add
  BY Only
<1>2. Op(1).val = n /\ Op(2).val = "rsp"
  BY OperandIs DEF Op, RSP
<1>3. reg' = [reg EXCEPT !["rsp"] = Below(reg["rsp"], n)]
  BY <1>1, <1>2 DEF add
<1>4. UNCHANGED <<driver, tty, mem, heap, made, written, stdio, run>> /\ rip' = rip + 1
  BY <1>1 DEF add
<1>5. Below(reg["rsp"], n) = Word("stack", t + n)
  BY WordIs DEF Top
<1>6. DOMAIN reg' = Reg /\ reg'["rsp"] = Word("stack", t + n) /\ \A q \in Reg : q # "rsp" => reg'[q] = reg[q]
  BY <1>3, <1>5, Regs
<1> QED BY <1>4, <1>6 DEF Onward, Quietly, Top

LEMMA PushedIs ==
  ASSUME NEW t \in Int, Top(t), NEW w, mem' = Pushed(w)
  PROVE  /\ DOMAIN mem' = DOMAIN mem \cup {t - 8}
         /\ t - 8 \in DOMAIN mem' /\ mem'[t - 8] = w
         /\ \A a \in DOMAIN mem : a # t - 8 => mem'[a] = mem[a]
<1>1. reg["rsp"].n = t
  BY WordIs DEF Top
<1>2. mem' = [a \in DOMAIN mem \cup {t - 8} |-> IF a = t - 8 THEN w ELSE mem[a]]
  BY <1>1 DEF Pushed
<1> QED BY <1>2

LEMMA pushIs ==
  ASSUME run = "running", Step, DOMAIN reg = Reg, NEW t \in Int, Top(t), NEW r \in Reg,
         Inst.inst = "push", Inst.ops = <<REGISTER_X64(r)>>
  PROVE  /\ Onward /\ Quietly
         /\ Top(t - 8)'
         /\ \A q \in Reg : q # "rsp" => reg'[q] = reg[q]
         /\ DOMAIN mem' = DOMAIN mem \cup {t - 8}
         /\ t - 8 \in DOMAIN mem' /\ mem'[t - 8] = reg[r]
         /\ \A a \in DOMAIN mem : a # t - 8 => mem'[a] = mem[a]
<1>1. push
  BY Only
<1>2. Op(1) = REGISTER_X64(r)
  BY DEF Op
<1>3. reg' = [reg EXCEPT !["rsp"] = Below(reg["rsp"], -8)] /\ mem' = Pushed(reg[r])
  BY <1>1, <1>2, SourceIs DEF push
<1>4. UNCHANGED <<driver, tty, heap, made, written, stdio, run>> /\ rip' = rip + 1
  BY <1>1 DEF push
<1>5. Below(reg["rsp"], -8) = Word("stack", t - 8)
  BY WordIs DEF Top
<1>6. DOMAIN reg' = Reg /\ reg'["rsp"] = Word("stack", t - 8) /\ \A q \in Reg : q # "rsp" => reg'[q] = reg[q]
  BY <1>3, <1>5, Regs
<1>7. /\ DOMAIN mem' = DOMAIN mem \cup {t - 8} /\ t - 8 \in DOMAIN mem' /\ mem'[t - 8] = reg[r]
      /\ \A a \in DOMAIN mem : a # t - 8 => mem'[a] = mem[a]
  BY <1>3, PushedIs
<1> QED BY <1>4, <1>6, <1>7 DEF Onward, Quietly, Top

LEMMA popIs ==
  ASSUME run = "running", Step, DOMAIN reg = Reg, NEW t \in Int, Top(t), NEW r \in Reg \ {"rsp"},
         Inst.inst = "pop", Inst.ops = <<REGISTER_X64(r)>>
  PROVE  /\ Onward /\ Quietly /\ mem' = mem
         /\ Top(t + 8)' /\ reg'[r] = Load(Word("stack", t))
         /\ \A q \in Reg : q # "rsp" /\ q # r => reg'[q] = reg[q]
<1>1. pop
  BY Only
<1>2. Op(1).val = r
  BY OperandIs DEF Op
<1>3. reg' = [reg EXCEPT ![r] = Load(reg["rsp"]), !["rsp"] = Below(reg["rsp"], 8)]
  BY <1>1, <1>2 DEF pop
<1>4. UNCHANGED <<driver, tty, mem, heap, made, written, stdio, run>> /\ rip' = rip + 1
  BY <1>1 DEF pop
<1>5. Below(reg["rsp"], 8) = Word("stack", t + 8)
  BY WordIs DEF Top
<1>6. /\ DOMAIN reg' = Reg /\ reg'["rsp"] = Word("stack", t + 8) /\ reg'[r] = Load(Word("stack", t))
      /\ \A q \in Reg : q # "rsp" /\ q # r => reg'[q] = reg[q]
  BY <1>3, <1>5, Regs DEF Top
<1> QED BY <1>4, <1>6 DEF Onward, Quietly, Top

LEMMA ReturnsIs ==
  ASSUME NEW t \in Int, Top(t), NEW x, Returns(x)
  PROVE  /\ DOMAIN reg' = Reg /\ reg'["rax"] = x /\ reg'["rsp"] = reg["rsp"] /\ reg'["rbp"] = reg["rbp"]
         /\ \A q \in Reg : q \notin {"rax", "rsp", "rbp"} => reg'[q] = Junk
         /\ DOMAIN mem' = {a \in DOMAIN mem : a >= t}
         /\ \A a \in DOMAIN mem' : mem'[a] = mem[a]
         /\ rip' = rip + 1
<1>1. reg["rsp"].n = t
  BY WordIs DEF Top
<1>2. mem' = [a \in {b \in DOMAIN mem : b >= t} |-> mem[a]]
  BY <1>1 DEF Returns
<1>3. reg' = [r \in Reg |-> IF r = "rax" THEN x ELSE IF r \in {"rsp", "rbp"} THEN reg[r] ELSE Junk]
  BY DEF Returns
<1> QED BY <1>2, <1>3, Regs DEF Returns

(* The calls.                                                              *)
LEMMA retIs ==
  ASSUME run = "running", Step, DOMAIN reg = Reg, NEW t \in Int, Top(t), Inst.inst = "ret"
  PROVE  \/ /\ Load(Word("stack", t)).kind = "return" /\ rip' = Load(Word("stack", t)).n
            /\ Top(t + 8)' /\ \A q \in Reg : q # "rsp" => reg'[q] = reg[q]
            /\ DOMAIN reg' = Reg /\ Quietly /\ UNCHANGED <<driver, tty, run, mem>>
         \/ Load(Word("stack", t)).kind # "return" /\ Crash
<1>1. ret
  BY Only
<1> DEFINE w == Load(reg["rsp"])
<1>2. w = Load(Word("stack", t))
  BY DEF Top
<1>3. \/ /\ w.kind = "return" /\ rip' = w.n /\ reg' = [reg EXCEPT !["rsp"] = Below(reg["rsp"], 8)]
         /\ UNCHANGED <<driver, tty, mem, heap, made, written, stdio, run>>
      \/ w.kind # "return" /\ Crash
  BY <1>1 DEF ret
<1> HIDE DEF w
<1>4. Below(reg["rsp"], 8) = Word("stack", t + 8)
  BY WordIs DEF Top
<1>5. CASE w.kind = "return" /\ rip' = w.n /\ reg' = [reg EXCEPT !["rsp"] = Below(reg["rsp"], 8)]
           /\ UNCHANGED <<driver, tty, mem, heap, made, written, stdio, run>>
  <2>1. /\ DOMAIN reg' = Reg /\ reg'["rsp"] = Word("stack", t + 8)
        /\ \A q \in Reg : q # "rsp" => reg'[q] = reg[q]
    BY <1>4, <1>5, Regs
  <2> QED BY <1>2, <1>5, <2>1 DEF Quietly, Top
<1> QED BY <1>2, <1>3, <1>5

LEMMA createIs ==
  ASSUME run = "running", Step, NEW m \in {"libblaze_val_create_intval", "libblaze_val_create_strval"},
         Inst.inst = "call", Inst.ops = <<IDENTIFIER(m)>>, made \in Nat
  PROVE  /\ UNCHANGED <<driver, tty, run, written, stdio>> /\ Returns(Word("value", made + 1))
         /\ made' = made + 1
         /\ DOMAIN heap' = DOMAIN heap \cup {made + 1}
         /\ \A h \in DOMAIN heap : h # made + 1 => heap'[h] = heap[h]
         /\ m = "libblaze_val_create_intval" => heap'[made + 1] = [type |-> "int", val |-> reg["rdi"].n]
         /\ m = "libblaze_val_create_strval" =>
              heap'[made + 1] =
                [type |-> "string",
                 val |-> ReadString(asm.data[CHOOSE i \in DOMAIN asm.data :
                                               asm.data[i].label = reg["rdi"].n].param).chars]
<1>0. Op(1).val = m
  BY OperandIs DEF Op
<1>1. ASSUME NEW v, NewValue(v)
      PROVE  /\ UNCHANGED <<driver, tty, run, written, stdio>> /\ Returns(Word("value", made + 1))
             /\ made' = made + 1
             /\ DOMAIN heap' = DOMAIN heap \cup {made + 1}
             /\ \A h \in DOMAIN heap : h # made + 1 => heap'[h] = heap[h]
             /\ heap'[made + 1] = v
  <2>1. heap' = [i \in DOMAIN heap \cup {made + 1} |-> IF i = made + 1 THEN v ELSE heap[i]]
    BY <1>1 DEF NewValue
  <2>2. UNCHANGED <<driver, tty, run, written, stdio>> /\ Returns(Word("value", made + 1)) /\ made' = made + 1
    BY <1>1 DEF NewValue
  <2>3. DOMAIN heap' = DOMAIN heap \cup {made + 1} /\ heap'[made + 1] = v
        /\ \A h \in DOMAIN heap : h # made + 1 => heap'[h] = heap[h]
    BY <2>1
  <2> QED BY <2>2, <2>3
<1>2. CASE m = "libblaze_val_create_intval"
  <2>1. NewValue([type |-> "int", val |-> reg["rdi"].n])
    BY <1>0, <1>2, Only DEF libblaze_val_create_intval
  <2> QED BY <1>1, <1>2, <2>1
<1>3. CASE m = "libblaze_val_create_strval"
  <2> DEFINE at == CHOOSE i \in DOMAIN asm.data : asm.data[i].label = reg["rdi"].n
             v == [type |-> "string", val |-> ReadString(asm.data[at].param).chars]
  <2>0. libblaze_val_create_strval
    BY <1>0, <1>3, Only
  <2>1. NewValue(v)
    BY <2>0, Zenon DEF libblaze_val_create_strval
  <2>2. v = [type |-> "string", val |-> ReadString(asm.data[at].param).chars]
    OBVIOUS
  <2> HIDE DEF v, at
  <2> QED BY <1>1, <1>3, <2>1, <2>2 DEF at
<1> QED BY <1>2, <1>3

Sound == /\ reg["rdi"].kind = "number"
         /\ \A i \in 1..reg["rdi"].n : va_arg(i).kind = "value" /\ va_arg(i).n \in DOMAIN heap

LEMMA printlnIs ==
  ASSUME run = "running", Step, Inst.inst = "call", Inst.ops = <<IDENTIFIER("libblaze_fn_println")>>
  PROVE  \/ /\ Sound
            /\ Write(println([i \in 1..reg["rdi"].n |-> heap[va_arg(i).n]]))
            /\ Returns(Junk) /\ UNCHANGED <<driver, tty, heap, made, run>>
         \/ ~Sound /\ Crash
<1>0. Op(1).val = "libblaze_fn_println"
  BY OperandIs DEF Op
<1>1. libblaze_fn_println
  BY <1>0, Only
<1> QED BY <1>1, Zenon DEF libblaze_fn_println, Sound

LEMMA freeIs ==
  ASSUME run = "running", Step, Inst.inst = "call", Inst.ops = <<IDENTIFIER("libblaze_val_free")>>,
         NEW h \in DOMAIN heap, reg["rdi"] = Word("value", h)
  PROVE  /\ DOMAIN heap' = DOMAIN heap \ {h} /\ Returns(Junk)
         /\ UNCHANGED <<driver, tty, made, written, stdio, run>>
<1>0. Op(1).val = "libblaze_val_free"
  BY OperandIs DEF Op
<1>1. libblaze_val_free
  BY <1>0, Only
<1>2. reg["rdi"].kind = "value" /\ reg["rdi"].n = h
  BY WordIs
<1>3. /\ heap' = [i \in DOMAIN heap \ {h} |-> heap[i]] /\ Returns(Junk)
      /\ UNCHANGED <<driver, tty, made, written, stdio, run>>
  BY <1>1, <1>2, Zenon DEF libblaze_val_free
<1> QED BY <1>3

LEMMA exitIs ==
  ASSUME run = "running", Step, Inst.inst = "call", Inst.ops = <<IDENTIFIER("exit")>>
  PROVE  /\ written' = written \o stdio /\ stdio' = <<>> /\ run' = "exited"
         /\ UNCHANGED <<driver, tty, rip, reg, mem, heap, made>>
<1>0. Op(1).val = "exit"
  BY OperandIs DEF Op
<1>1. exit
  BY <1>0, Only
<1> QED BY <1>1, Zenon DEF exit

-----------------------------------------------------------------------------
(* A call of main leaves the place after the call on the stack.            *)
LEMMA mainIs ==
  ASSUME run = "running", Step, DOMAIN reg = Reg, NEW t \in Int, Top(t),
         Inst.inst = "call", Inst.ops = <<IDENTIFIER("main")>>
  PROVE  /\ UNCHANGED <<driver, tty, run>> /\ Quietly
         /\ rip' = Label("main") /\ Top(t - 8)'
         /\ \A q \in Reg : q # "rsp" => reg'[q] = reg[q]
         /\ DOMAIN mem' = DOMAIN mem \cup {t - 8}
         /\ t - 8 \in DOMAIN mem' /\ mem'[t - 8] = Word("return", rip + 1)
         /\ \A a \in DOMAIN mem : a # t - 8 => mem'[a] = mem[a]
<1>1. Op(1).val = "main"
  <2>1. Op(1) = IDENTIFIER("main")
    BY DEF Op
  <2> QED BY <2>1, OperandIs
<1>2. call_main
  BY <1>1, Only
<1>3. /\ UNCHANGED <<driver, tty, run>> /\ Quietly /\ rip' = Label("main")
      /\ mem' = Pushed(Word("return", rip + 1))
      /\ reg' = [reg EXCEPT !["rsp"] = Below(reg["rsp"], -8)]
  BY <1>2 DEF call_main, Quietly
<1>4. Below(reg["rsp"], -8) = Word("stack", t - 8)
  <2>1. Below(Word("stack", t), -8) = Word("stack", t + (-8)) /\ t + (-8) = t - 8
    BY WordIs
  <2> QED BY <2>1 DEF Top
<1>5. /\ reg'["rsp"] = Word("stack", t - 8)
      /\ \A q \in Reg : q # "rsp" => reg'[q] = reg[q]
  BY <1>3, <1>4, Regs, RegSet
<1>6. /\ DOMAIN mem' = DOMAIN mem \cup {t - 8}
      /\ t - 8 \in DOMAIN mem' /\ mem'[t - 8] = Word("return", rip + 1)
      /\ \A a \in DOMAIN mem : a # t - 8 => mem'[a] = mem[a]
  BY <1>3, PushedIs
<1>7. Top(t - 8)'
  BY <1>5 DEF Top, Word
<1> QED BY <1>3, <1>5, <1>6, <1>7

-----------------------------------------------------------------------------
(* What is printed.                                                        *)
Items   == [how : {"write"}, what : {"string", "blank", "newline"}, number : Int, chars : Seq(STRING)]
             \cup [how : {"printf"}, what : {"number", "newline"}, number : Int, chars : Seq(STRING)]
Values0 == [type : {"int"}, val : Int] \cup [type : {"string"}, val : Seq(STRING)]

LEMMA PrintedIn ==
  ASSUME NEW v \in Values0
  PROVE  Printed(v) \in Seq(Items)
<1>1. <<>> \in Seq(STRING)
  OBVIOUS
<1>2. CASE v.type = "string"
  <2>1. v.val \in Seq(STRING)
    BY <1>2 DEF Values0
  <2>2. [Item("write", "string") EXCEPT !.chars = v.val] \in Items
    BY <1>1, <2>1 DEF Items, Item
  <2> QED BY <1>2, <2>2 DEF Printed
<1>3. CASE v.type # "string"
  <2>1. v.val \in Int
    BY <1>3 DEF Values0
  <2>2. [Item("printf", "number") EXCEPT !.number = v.val] =
          [how |-> "printf", what |-> "number", number |-> v.val, chars |-> <<>>]
    BY DEF Item
  <2>3. [how |-> "printf", what |-> "number", number |-> v.val, chars |-> <<>>] \in Items
    BY <1>1, <2>1 DEF Items
  <2>4. Item("printf", "newline") \in Items
    BY <1>1 DEF Items, Item
  <2> QED BY <1>3, <2>2, <2>3, <2>4 DEF Printed
<1> QED BY <1>2, <1>3

LEMMA printlnOf ==
  ASSUME NEW T, NEW s \in Seq(Values0), \A i \in DOMAIN s : Printed(s[i]) \in Seq(T),
         Item("write", "blank") \in T, Item("write", "newline") \in T
  PROVE  println(s) \in Seq(T)
<1> DEFINE e == [i \in DOMAIN s |->
                   Printed(s[i]) \o (IF i # Len(s) THEN <<Item("write", "blank")>> ELSE <<>>)]
           l == IF \A i \in DOMAIN s : s[i].type = "string" THEN <<Item("write", "newline")>> ELSE <<>>
<1>2. e \in Seq(Seq(T))
  <2>1. ASSUME NEW i \in DOMAIN s
        PROVE  Printed(s[i]) \o (IF i # Len(s) THEN <<Item("write", "blank")>> ELSE <<>>) \in Seq(T)
    <3> DEFINE b == IF i # Len(s) THEN <<Item("write", "blank")>> ELSE <<>>
    <3>1. Printed(s[i]) \in Seq(T)
      OBVIOUS
    <3>2. b \in Seq(T)
      OBVIOUS
    <3> HIDE DEF b
    <3>3. Printed(s[i]) \o b \in Seq(T)
      BY ONLY <3>1, <3>2, ConcatProperties
    <3> QED BY <3>3 DEF b
  <2>2. DOMAIN s = 1..Len(s) /\ Len(s) \in Nat
    OBVIOUS
  <2>3. e \in [1..Len(s) -> Seq(T)]
    BY <2>1, <2>2, Zenon
  <2> QED BY <2>2, <2>3, SeqDef
<1>3. l \in Seq(T)
  OBVIOUS
<1> HIDE DEF e, l
<1>4. FlattenSeq(e) \in Seq(T)
  BY <1>2, FlattenedIn
<1>5. FlattenSeq(e) \o l \in Seq(T)
  BY ONLY <1>3, <1>4, ConcatProperties
<1> QED BY <1>5 DEF println, e, l

LEMMA printlnIn ==
  ASSUME NEW s \in Seq(Values0)
  PROVE  println(s) \in Seq(Items)
<1>1. Item("write", "blank") \in Items /\ Item("write", "newline") \in Items
  <2>1. <<>> \in Seq(STRING)
    OBVIOUS
  <2> QED BY <2>1 DEF Items, Item
<1>2. \A i \in DOMAIN s : Printed(s[i]) \in Seq(Items)
  <2>1. \A i \in DOMAIN s : s[i] \in Values0
    OBVIOUS
  <2> QED BY <2>1, PrintedIn
<1> QED BY <1>1, <1>2, printlnOf

LEMMA SentConcat ==
  ASSUME NEW how
  PROVE  /\ \A a, b \in Seq(Items) : Sent(a \o b, how) = Sent(a, how) \o Sent(b, how)
         /\ \A a \in Seq(Items) : Sent(a, how) \in Seq(Items)
         /\ \A x \in Items : Sent(<<x>>, how) = IF x.how = how THEN <<x>> ELSE <<>>
         /\ Sent(<<>>, how) = <<>>
<1> DEFINE h == [x \in Items |-> IF x.how = how THEN <<x>> ELSE <<>>]
<1>1. Maps(h, Items, Seq(Items))
  <2>1. \A x \in Items : <<x>> \in Seq(Items) /\ <<>> \in Seq(Items)
    OBVIOUS
  <2>2. \A x \in Items : (IF x.how = how THEN <<x>> ELSE <<>>) \in Seq(Items)
    BY <2>1, Zenon
  <2> QED BY <2>2, Zenon DEF Maps
<1>2. ASSUME NEW s \in Seq(Items) PROVE Sent(s, how) = FlattenSeq(Apply(h, s))
  <2>1. \A i \in DOMAIN s : s[i] \in Items
    OBVIOUS
  <2>2. \A i \in DOMAIN s : h[s[i]] = IF s[i].how = how THEN <<s[i]>> ELSE <<>>
    BY <2>1, Zenon
  <2> HIDE DEF h
  <2>3. Apply(h, s) = [i \in DOMAIN s |-> IF s[i].how = how THEN <<s[i]>> ELSE <<>>]
    BY <2>2, Zenon DEF Apply
  <2> QED BY <2>3 DEF Sent
<1>3. ASSUME NEW x \in Items PROVE Sent(<<x>>, how) = IF x.how = how THEN <<x>> ELSE <<>>
  <2>1. h[x] = IF x.how = how THEN <<x>> ELSE <<>>
    BY Zenon
  <2>2. <<x>> \in Seq(Items)
    OBVIOUS
  <2> HIDE DEF h
  <2>3. FlattenSeq(Apply(h, <<x>>)) = h[x]
    BY <1>1, GatherOne
  <2> QED BY <1>2, <2>1, <2>2, <2>3
<1> HIDE DEF h
<1>4. ASSUME NEW a \in Seq(Items), NEW b \in Seq(Items)
      PROVE  Sent(a \o b, how) = Sent(a, how) \o Sent(b, how) /\ Sent(a, how) \in Seq(Items)
  <2>1. a \o b \in Seq(Items)
    BY ConcatProperties
  <2>2. FlattenSeq(Apply(h, Cat(a, b))) = Cat(FlattenSeq(Apply(h, a)), FlattenSeq(Apply(h, b)))
    BY <1>1, GatherConcat
  <2>3. FlattenSeq(Apply(h, a \o b)) = FlattenSeq(Apply(h, a)) \o FlattenSeq(Apply(h, b))
    BY <2>2, Zenon DEF Cat
  <2>4. FlattenSeq(Apply(h, a)) \in Seq(Items)
    BY ONLY <1>1, a \in Seq(Items), b \in Seq(Items), GatherConcat
  <2> QED BY <1>2, <2>1, <2>3, <2>4
<1>5. Sent(<<>>, how) = <<>>
  BY FlattenNone DEF Sent
<1>6. \A a \in Seq(Items) : Sent(a, how) \in Seq(Items)
  BY <1>4
<1>7. \A a, b \in Seq(Items) : Sent(a \o b, how) = Sent(a, how) \o Sent(b, how)
  BY <1>4
<1>8. \A x \in Items : Sent(<<x>>, how) = IF x.how = how THEN <<x>> ELSE <<>>
  BY <1>3, Zenon
<1> QED BY <1>5, <1>6, <1>7, <1>8, Zenon

(* What has been sorted out once is not sorted out further.                *)
LEMMA SentAgain ==
  ASSUME NEW s \in Seq(Items), NEW g, NEW how
  PROVE  Sent(Sent(s, g), how) = IF g = how THEN Sent(s, how) ELSE <<>>
<1> DEFINE Once(k) == Sent(Sent(SubSeq(s, 1, k), g), how)
                        = IF g = how THEN Sent(SubSeq(s, 1, k), how) ELSE <<>>
           G == {k \in 0..Len(s) : Once(k)}
<1>0. Len(s) \in Nat
  OBVIOUS
<1>1. 0 \in G
  <2>1. SubSeq(s, 1, 0) = <<>>
    OBVIOUS
  <2>2. Sent(<<>>, how) = <<>> /\ Sent(<<>>, g) = <<>>
    BY SentConcat
  <2>3. Once(0)
    BY <2>1, <2>2
  <2> QED BY <1>0, <2>3
<1>2. ASSUME NEW k \in 1..Len(s), k - 1 \in G PROVE k \in G
  <2> DEFINE a == SubSeq(s, 1, k - 1)
             x == s[k]
  <2>1. a \in Seq(Items) /\ x \in Items /\ SubSeq(s, 1, k) = Append(a, x)
    BY PrefixIs
  <2>2. Once(k - 1)
    BY <1>2
  <2>3. Sent(Sent(a, g), how) = IF g = how THEN Sent(a, how) ELSE <<>>
    BY <2>2
  <2> HIDE DEF a, x
  <2>4. Append(a, x) = a \o <<x>> /\ <<x>> \in Seq(Items)
    BY <2>1, AppendIsConcat
  <2>5. \A q : /\ Sent(a \o <<x>>, q) = Sent(a, q) \o Sent(<<x>>, q)
               /\ Sent(a, q) \in Seq(Items) /\ Sent(<<x>>, q) \in Seq(Items)
               /\ Sent(<<x>>, q) = IF x.how = q THEN <<x>> ELSE <<>>
    BY <2>1, <2>4, SentConcat
  <2>6. Sent(Sent(a, g) \o Sent(<<x>>, g), how) = Sent(Sent(a, g), how) \o Sent(Sent(<<x>>, g), how)
    <3>1. Sent(a, g) \in Seq(Items) /\ Sent(<<x>>, g) \in Seq(Items)
      BY <2>5
    <3>2. \A c, d \in Seq(Items) : Sent(c \o d, how) = Sent(c, how) \o Sent(d, how)
      BY SentConcat
    <3> QED BY ONLY <3>1, <3>2, Zenon
  <2>7. Sent(Sent(<<x>>, g), how) = IF g = how THEN Sent(<<x>>, how) ELSE <<>>
    <3>1. Sent(<<>>, how) = <<>>
      BY SentConcat
    <3>2. CASE x.how = g
      BY <2>5, <3>2
    <3>3. CASE x.how # g
      BY <2>5, <3>1, <3>3
    <3> QED BY <3>2, <3>3
  <2>8. Sent(Sent(Append(a, x), g), how) = IF g = how THEN Sent(Append(a, x), how) ELSE <<>>
    <3>1. CASE g = how
      BY <2>3, <2>4, <2>5, <2>6, <2>7, <3>1
    <3>2. CASE g # how
      <4>1. <<>> \o <<>> = <<>>
        OBVIOUS
      <4> QED BY <2>3, <2>4, <2>5, <2>6, <2>7, <3>2, <4>1
    <3> QED BY <3>1, <3>2
  <2>9. Once(k)
    BY <2>1, <2>8
  <2> QED BY <2>9
<1> HIDE DEF G
<1>3. \A k \in 0..Len(s) : k \in G
  BY <1>0, <1>1, <1>2, UpTo
<1>4. Len(s) \in G
  BY <1>0, <1>3
<1>5. Once(Len(s))
  BY <1>4 DEF G
<1>6. SubSeq(s, 1, Len(s)) = s
  OBVIOUS
<1> QED BY <1>5, <1>6

LEMMA ArrayIn ==
  ASSUME NEW T, NEW n \in Nat, NEW f \in [1..n -> T]
  PROVE  f \in Seq(T)
  BY SeqDef

(* The output of a program up to a statement.                              *)
LEMMA ArgsPrint ==
  ASSUME NEW p, Program(p), NEW i \in 1..Len(p)
  PROVE  Args(p, i) \in Seq(Values0) /\ println(Args(p, i)) \in Seq(Items)
<1>1. Args(p, i) \in Seq(Argument) /\ DOMAIN Args(p, i) = 1..Argc(p, i)
  BY ProgramIs
<1>2. ASSUME NEW k \in 1..Argc(p, i) PROVE Args(p, i)[k] \in Values0
  <2>1. /\ Args(p, i)[k] \in Argument
        /\ \/ Args(p, i)[k].type = "int" /\ Args(p, i)[k].val \in Int
           \/ Args(p, i)[k].type = "string" /\ Args(p, i)[k].val \in Seq(STRING)
    BY ProgramIs
  <2> DEFINE x == Args(p, i)[k]
  <2> HIDE DEF x
  <2>2. x \in Argument /\ (x.type = "int" \/ x.type = "string")
        /\ (x.type = "int" => x.val \in Int) /\ (x.type = "string" => x.val \in Seq(STRING))
    BY <2>1 DEF x
  <2>3. x = [type |-> x.type, val |-> x.val]
    BY <2>2 DEF Argument
  <2>4. x \in Values0
    BY <2>2, <2>3 DEF Values0
  <2> QED BY <2>4 DEF x
<1>3. Argc(p, i) = Len(Args(p, i)) /\ Argc(p, i) \in Nat
  BY ProgramIs
<1>4. Args(p, i) \in Seq(Values0)
  <2> DEFINE s == Args(p, i)
  <2>1. s \in Seq(Argument) /\ \A k \in 1..Len(s) : s[k] \in Values0
    BY <1>1, <1>2, <1>3
  <2> HIDE DEF s
  <2>2. s \in Seq(Values0)
    BY <2>1
  <2> QED BY <2>2 DEF s
<1> QED BY <1>4, printlnIn

LEMMA OutputIs ==
  ASSUME NEW p, Program(p)
  PROVE  /\ Output(p, 0) = <<>>
         /\ \A i \in 0..Len(p) : Output(p, i) \in Seq(Items)
         /\ \A i \in 1..Len(p) : Output(p, i) = Output(p, i - 1) \o println(Args(p, i))
<1> DEFINE e(i) == [j \in 1..i |-> println(Args(p, j))]
<1>0. Len(p) \in Nat
  BY DEF Program
<1>1. ASSUME NEW i \in 0..Len(p) PROVE e(i) \in Seq(Seq(Items))
  <2>1. \A j \in 1..i : println(Args(p, j)) \in Seq(Items)
    <3>1. \A j \in 1..i : j \in 1..Len(p)
      BY <1>0
    <3> QED BY <3>1, ArgsPrint
  <2>2. e(i) \in [1..i -> Seq(Items)]
    BY <2>1, Zenon
  <2> HIDE DEF e
  <2> QED BY <2>2, ArrayIn
<1>2. \A i \in 0..Len(p) : Output(p, i) \in Seq(Items)
  BY <1>1, FlattenedIn DEF Output
<1>3. Output(p, 0) = <<>>
  <2>1. e(0) = <<>>
    OBVIOUS
  <2> QED BY <2>1, FlattenNone DEF Output
<1>4. ASSUME NEW i \in 1..Len(p) PROVE Output(p, i) = Output(p, i - 1) \o println(Args(p, i))
  <2> DEFINE s == e(i - 1)
             x == println(Args(p, i))
             t == e(i)
  <2>0. i \in Nat /\ i - 1 \in 0..Len(p) /\ i \in 0..Len(p)
    BY <1>0
  <2>1. s \in Seq(Seq(Items)) /\ x \in Seq(Items) /\ t \in Seq(Seq(Items))
    BY <1>1, <2>0, ArgsPrint
  <2>2. /\ Len(s) = i - 1 /\ Len(t) = i /\ t[i] = x
        /\ \A j \in 1..(i - 1) : t[j] = s[j]
    <3>1. Len(s) = i - 1
      <4>1. DOMAIN s = 1..(i - 1)
        OBVIOUS
      <4> HIDE DEF s
      <4> QED BY <2>0, <2>1, <4>1
    <3>2. Len(t) = i
      <4>1. DOMAIN t = 1..i
        OBVIOUS
      <4> HIDE DEF t
      <4> QED BY <2>0, <2>1, <4>1
    <3>3. \A j \in 1..i : t[j] = println(Args(p, j))
      OBVIOUS
    <3>4. \A j \in 1..(i - 1) : s[j] = println(Args(p, j))
      OBVIOUS
    <3>5. i \in 1..i /\ \A j \in 1..(i - 1) : j \in 1..i
      BY <2>0
    <3> HIDE DEF s, t
    <3> QED BY <3>1, <3>2, <3>3, <3>4, <3>5
  <2>s. Output(p, i) = FlattenSeq(t) /\ Output(p, i - 1) = FlattenSeq(s)
    BY DEF Output
  <2> HIDE DEF s, x, t
  <2>3. t = Append(s, x)
    BY <2>0, <2>1, <2>2
  <2>4. FlattenSeq(Append(s, x)) = FlattenSeq(s) \o x
    BY <2>1, FlattenAppend
  <2> QED BY <2>s, <2>3, <2>4 DEF x
<1> QED BY <1>2, <1>3, <1>4

LEMMA QuietSaid ==
  ASSUME UNCHANGED <<job, tty, written, stdio>>, NEW p, NEW i, Said(p, i)
  PROVE  Said(p, i)'
  BY DEF Said, IsOut, Plain, Backslash, Output, Args

(* println adds what its arguments are to the output.                      *)
LEMMA SaidMore ==
  ASSUME NEW p, Program(p), NEW i \in 1..Len(p), Said(p, i - 1), UNCHANGED <<job, tty>>, NEW v,
         Plain => v = Args(p, i), Write(println(v)), tty \in BOOLEAN
  PROVE  Said(p, i)'
<1> SUFFICES ASSUME Plain' PROVE IsOut(Output(p, i))'
  BY DEF Said, Output, Args
<1>1. Plain
  BY DEF Plain, Backslash
<1> DEFINE a == Output(p, i - 1)
           b == println(Args(p, i))
           c == Output(p, i)
<1>2. IsOut(a) /\ Write(b)
  BY <1>1 DEF Said
<1>3. a \in Seq(Items) /\ b \in Seq(Items) /\ c = a \o b
  <2>1. i - 1 \in 0..Len(p)
    BY DEF Program
  <2>2. a \in Seq(Items)
    BY <2>1, OutputIs
  <2>3. b \in Seq(Items)
    BY ArgsPrint
  <2> QED BY <2>2, <2>3, OutputIs
<1>s. IsOut(Output(p, i))' <=> IF tty' THEN written' = c /\ stdio' = <<>>
                               ELSE written' = Sent(c, "write") /\ stdio' = Sent(c, "printf")
  BY DEF IsOut, Output, Args
<1> HIDE DEF a, b, c
<1>4. Sent(c, "write") = Sent(a, "write") \o Sent(b, "write")
      /\ Sent(c, "printf") = Sent(a, "printf") \o Sent(b, "printf")
  BY <1>3, SentConcat
<1>5. CASE tty
  BY <1>2, <1>3, <1>s, <1>5 DEF IsOut, Write
<1>6. CASE ~tty
  BY <1>2, <1>4, <1>s, <1>6 DEF IsOut, Write
<1> QED BY <1>5, <1>6

-----------------------------------------------------------------------------
(* Two functions on sequences that go from each to the next by the same    *)
(* piece are the same.                                                     *)
Together(F, G, T) ==
  /\ F[<<>>] = G[<<>>]
  /\ \A a \in Seq(T) : \A x \in T : /\ F[a \o <<x>>] = F[a] \o F[<<x>>]
                                   /\ G[a \o <<x>>] = G[a] \o G[<<x>>]
                                   /\ F[<<x>>] = G[<<x>>]

LEMMA Agree ==
  ASSUME NEW T, NEW F, NEW G, Together(F, G, T), NEW s \in Seq(T)
  PROVE  F[s] = G[s]
<1> USE DEF Together
<1> DEFINE Once(k) == F[SubSeq(s, 1, k)] = G[SubSeq(s, 1, k)]
           D == {k \in 0..Len(s) : Once(k)}
<1>0. Len(s) \in Nat
  OBVIOUS
<1>1. 0 \in D
  <2>1. SubSeq(s, 1, 0) = <<>>
    OBVIOUS
  <2>2. Once(0)
    BY <2>1
  <2> QED BY <1>0, <2>2
<1>2. ASSUME NEW k \in 1..Len(s), k - 1 \in D PROVE k \in D
  <2> DEFINE a == SubSeq(s, 1, k - 1)
             x == s[k]
  <2>1. a \in Seq(T) /\ x \in T /\ SubSeq(s, 1, k) = Append(a, x)
    BY PrefixIs
  <2>2. F[a] = G[a]
    BY <1>2
  <2> HIDE DEF a, x
  <2>3. Append(a, x) = a \o <<x>>
    BY <2>1, AppendIsConcat
  <2>4. F[a \o <<x>>] = G[a \o <<x>>]
    BY <2>1, <2>2
  <2>5. SubSeq(s, 1, k) = a \o <<x>>
    BY <2>1, <2>3
  <2>6. Once(k)
    BY <2>4, <2>5
  <2>7. k \in 0..Len(s)
    BY <1>0
  <2> QED BY <2>6, <2>7
<1> HIDE DEF D
<1>3. \A k \in 0..Len(s) : k \in D
  BY <1>0, <1>1, <1>2, UpTo
<1>5. Len(s) \in D
  BY <1>0, <1>3
<1>6. Once(Len(s))
  BY <1>5 DEF D
<1>4. SubSeq(s, 1, Len(s)) = s
  OBVIOUS
<1> QED BY <1>4, <1>6

(* What is kept of some output or of what the source says.                 *)
Bares  == [what : {"string", "number", "blank", "newline"}, number : Int, chars : Seq(STRING)]
Things == Items \cup Bares

LEMMA BareIs ==
  ASSUME NEW x \in Things
  PROVE  Bare(x) \in Bares
  BY DEF Things, Items, Bares, Bare

LEMMA KeptConcat ==
  ASSUME NEW K
  PROVE  /\ \A a, b \in Seq(Things) : Kept(a \o b, K) = Kept(a, K) \o Kept(b, K)
         /\ \A a \in Seq(Things) : Kept(a, K) \in Seq(Bares)
         /\ \A x \in Things : Kept(<<x>>, K) = IF x.what \in K THEN <<Bare(x)>> ELSE <<>>
         /\ Kept(<<>>, K) = <<>>
<1> DEFINE h == [x \in Things |-> IF x.what \in K THEN <<Bare(x)>> ELSE <<>>]
<1>1. Maps(h, Things, Seq(Bares))
  <2>1. \A x \in Things : <<Bare(x)>> \in Seq(Bares) /\ <<>> \in Seq(Bares)
    BY BareIs
  <2>2. \A x \in Things : (IF x.what \in K THEN <<Bare(x)>> ELSE <<>>) \in Seq(Bares)
    BY <2>1, Zenon
  <2> QED BY <2>2, Zenon DEF Maps
<1>2. ASSUME NEW s \in Seq(Things) PROVE Kept(s, K) = FlattenSeq(Apply(h, s))
  <2>1. \A i \in DOMAIN s : s[i] \in Things
    OBVIOUS
  <2>2. \A i \in DOMAIN s : h[s[i]] = IF s[i].what \in K THEN <<Bare(s[i])>> ELSE <<>>
    BY <2>1, Zenon
  <2> HIDE DEF h
  <2>3. Apply(h, s) = [i \in DOMAIN s |-> IF s[i].what \in K THEN <<Bare(s[i])>> ELSE <<>>]
    BY <2>2, Zenon DEF Apply
  <2> QED BY <2>3 DEF Kept
<1>3. ASSUME NEW x \in Things PROVE Kept(<<x>>, K) = IF x.what \in K THEN <<Bare(x)>> ELSE <<>>
  <2>1. h[x] = IF x.what \in K THEN <<Bare(x)>> ELSE <<>>
    BY Zenon
  <2>2. <<x>> \in Seq(Things)
    OBVIOUS
  <2> HIDE DEF h
  <2>3. FlattenSeq(Apply(h, <<x>>)) = h[x]
    BY <1>1, GatherOne
  <2> QED BY <1>2, <2>1, <2>2, <2>3
<1> HIDE DEF h
<1>4. ASSUME NEW a \in Seq(Things), NEW b \in Seq(Things)
      PROVE  Kept(a \o b, K) = Kept(a, K) \o Kept(b, K) /\ Kept(a, K) \in Seq(Bares)
  <2>1. a \o b \in Seq(Things)
    BY ConcatProperties
  <2>2. FlattenSeq(Apply(h, Cat(a, b))) = Cat(FlattenSeq(Apply(h, a)), FlattenSeq(Apply(h, b)))
    BY <1>1, GatherConcat
  <2>3. FlattenSeq(Apply(h, a \o b)) = FlattenSeq(Apply(h, a)) \o FlattenSeq(Apply(h, b))
    BY <2>2, Zenon DEF Cat
  <2>4. FlattenSeq(Apply(h, a)) \in Seq(Bares)
    BY ONLY <1>1, a \in Seq(Things), b \in Seq(Things), GatherConcat
  <2> QED BY <1>2, <2>1, <2>3, <2>4
<1>5. Kept(<<>>, K) = <<>>
  BY FlattenNone DEF Kept
<1>6. \A a \in Seq(Things) : Kept(a, K) \in Seq(Bares)
  BY <1>4
<1>7. \A a, b \in Seq(Things) : Kept(a \o b, K) = Kept(a, K) \o Kept(b, K)
  BY <1>4
<1>8. \A x \in Things : Kept(<<x>>, K) = IF x.what \in K THEN <<Bare(x)>> ELSE <<>>
  BY <1>3, Zenon
<1> QED BY <1>5, <1>6, <1>7, <1>8, Zenon

LEMMA OneKept ==
  ASSUME NEW K, NEW x \in Things
  PROVE  Kept(<<x>>, K) = IF x.what \in K THEN <<Bare(x)>> ELSE <<>>
  BY KeptConcat

(* The same of each piece, the same of the whole.                          *)
LEMMA SameKept ==
  ASSUME NEW K, NEW s \in Seq(Seq(Things)), NEW t \in Seq(Seq(Things)), Len(s) = Len(t),
         \A i \in 1..Len(s) : Kept(s[i], K) = Kept(t[i], K)
  PROVE  Kept(FlattenSeq(s), K) = Kept(FlattenSeq(t), K)
<1> DEFINE Once(k) == Kept(FlattenSeq(SubSeq(s, 1, k)), K) = Kept(FlattenSeq(SubSeq(t, 1, k)), K)
           D == {k \in 0..Len(s) : Once(k)}
<1>0. Len(s) \in Nat
  OBVIOUS
<1>1. 0 \in D
  <2>1. SubSeq(s, 1, 0) = <<>> /\ SubSeq(t, 1, 0) = <<>>
    OBVIOUS
  <2>2. Once(0)
    BY <2>1
  <2> QED BY <1>0, <2>2
<1>2. ASSUME NEW k \in 1..Len(s), k - 1 \in D PROVE k \in D
  <2> DEFINE a == SubSeq(s, 1, k - 1)
             b == SubSeq(t, 1, k - 1)
             x == s[k]
             y == t[k]
  <2>1. /\ a \in Seq(Seq(Things)) /\ x \in Seq(Things) /\ SubSeq(s, 1, k) = Append(a, x)
        /\ b \in Seq(Seq(Things)) /\ y \in Seq(Things) /\ SubSeq(t, 1, k) = Append(b, y)
    BY PrefixIs
  <2>2. Kept(FlattenSeq(a), K) = Kept(FlattenSeq(b), K) /\ Kept(x, K) = Kept(y, K)
    BY <1>2
  <2> HIDE DEF a, b, x, y
  <2>3. FlattenSeq(Append(a, x)) = FlattenSeq(a) \o x /\ FlattenSeq(Append(b, y)) = FlattenSeq(b) \o y
    BY <2>1, FlattenAppend
  <2>4. FlattenSeq(a) \in Seq(Things) /\ FlattenSeq(b) \in Seq(Things)
    BY <2>1, FlattenedIn
  <2>5. Kept(FlattenSeq(a) \o x, K) = Kept(FlattenSeq(a), K) \o Kept(x, K)
        /\ Kept(FlattenSeq(b) \o y, K) = Kept(FlattenSeq(b), K) \o Kept(y, K)
    BY <2>1, <2>4, KeptConcat
  <2>6. Once(k)
    BY <2>1, <2>2, <2>3, <2>5
  <2>7. k \in 0..Len(s)
    BY <1>0
  <2> QED BY <2>6, <2>7
<1> HIDE DEF D
<1>3. \A k \in 0..Len(s) : k \in D
  BY <1>0, <1>1, <1>2, UpTo
<1>5. Len(s) \in D
  BY <1>0, <1>3
<1>6. Once(Len(s))
  BY <1>5 DEF D
<1>4. SubSeq(s, 1, Len(s)) = s /\ SubSeq(t, 1, Len(s)) = t
  OBVIOUS
<1> QED BY <1>4, <1>6

(* All that is of the kinds K goes out in one way, or in the other.        *)
LEMMA KeptSent ==
  ASSUME NEW K, NEW how, NEW here \in BOOLEAN, NEW s \in Seq(Items),
         \A x \in Items : x.what \in K => (x.how = how <=> here)
  PROVE  Kept(Sent(s, how), K) = IF here THEN Kept(s, K) ELSE <<>>
<1> DEFINE F == [a \in Seq(Items) |-> Kept(Sent(a, how), K)]
           G == [a \in Seq(Items) |-> IF here THEN Kept(a, K) ELSE <<>>]
<1>t. Items \subseteq Things /\ Seq(Items) \subseteq Seq(Things)
  BY DEF Things
<1>f. \A a \in Seq(Items) : F[a] = Kept(Sent(a, how), K) /\ G[a] = IF here THEN Kept(a, K) ELSE <<>>
  BY Zenon
<1> HIDE DEF F, G
<1>1. F[<<>>] = G[<<>>]
  <2>1. <<>> \in Seq(Items) /\ Sent(<<>>, how) = <<>> /\ Kept(<<>>, K) = <<>>
    BY SentConcat, KeptConcat
  <2> QED BY <1>f, <2>1
<1>2. ASSUME NEW a \in Seq(Items), NEW x \in Items
      PROVE  F[a \o <<x>>] = F[a] \o F[<<x>>] /\ G[a \o <<x>>] = G[a] \o G[<<x>>] /\ F[<<x>>] = G[<<x>>]
  <2>0. <<x>> \in Seq(Items) /\ a \o <<x>> \in Seq(Items)
    BY ConcatProperties
  <2>1. /\ Sent(a \o <<x>>, how) = Sent(a, how) \o Sent(<<x>>, how)
        /\ Sent(a, how) \in Seq(Items) /\ Sent(<<x>>, how) \in Seq(Items)
        /\ Sent(<<x>>, how) = IF x.how = how THEN <<x>> ELSE <<>>
    BY <2>0, SentConcat
  <2>2. \A c, d \in Seq(Items) : Kept(c \o d, K) = Kept(c, K) \o Kept(d, K)
    BY <1>t, KeptConcat
  <2>3. Kept(<<x>>, K) = (IF x.what \in K THEN <<Bare(x)>> ELSE <<>>) /\ Kept(<<>>, K) = <<>>
    BY <1>t, KeptConcat
  <2>4. F[a \o <<x>>] = F[a] \o F[<<x>>]
    <3>1. Kept(Sent(a, how) \o Sent(<<x>>, how), K) = Kept(Sent(a, how), K) \o Kept(Sent(<<x>>, how), K)
      BY <2>1, <2>2
    <3>2. F[a \o <<x>>] = Kept(Sent(a \o <<x>>, how), K) /\ F[a] = Kept(Sent(a, how), K)
          /\ F[<<x>>] = Kept(Sent(<<x>>, how), K)
      BY <1>f, <2>0
    <3> QED BY <2>1, <3>1, <3>2
  <2>5. G[a \o <<x>>] = G[a] \o G[<<x>>]
    <3>1. <<>> \o <<>> = <<>>
      OBVIOUS
    <3> QED BY <1>f, <2>0, <2>2, <3>1
  <2>6. F[<<x>>] = G[<<x>>]
    <3>1. F[<<x>>] = Kept(Sent(<<x>>, how), K) /\ G[<<x>>] = IF here THEN Kept(<<x>>, K) ELSE <<>>
      BY <1>f, <2>0
    <3>2. CASE x.what \in K
      BY <2>1, <2>3, <3>1, <3>2
    <3>3. CASE x.what \notin K
      BY <2>1, <2>3, <3>1, <3>3
    <3> QED BY <3>2, <3>3
  <2> QED BY <2>4, <2>5, <2>6
<1>3. F[s] = G[s]
  <2>1. \A a \in Seq(Items) : \A x \in Items :
          /\ F[a \o <<x>>] = F[a] \o F[<<x>>]
          /\ G[a \o <<x>>] = G[a] \o G[<<x>>]
          /\ F[<<x>>] = G[<<x>>]
    BY <1>2
  <2>2. Together(F, G, Items)
    BY ONLY <1>1, <2>1 DEF Together
  <2> QED BY <2>2, Agree
<1> QED BY <1>3, <1>f

(* What is only written does not wait in the buffer.                       *)
Direct == {x \in Items : x.how = "write"}

LEMMA SentDirect ==
  ASSUME NEW s \in Seq(Direct)
  PROVE  Sent(s, "write") = s /\ Sent(s, "printf") = <<>>
<1>0. \A a \in Seq(Direct) : a \in Seq(Items)
  BY DEF Direct
<1>1. ASSUME NEW x \in Direct
      PROVE  Sent(<<x>>, "write") = <<x>> /\ Sent(<<x>>, "printf") = <<>>
  BY SentConcat DEF Direct
<1>2. ASSUME NEW a \in Seq(Direct), NEW x \in Direct, NEW how
      PROVE  Sent(a \o <<x>>, how) = Sent(a, how) \o Sent(<<x>>, how) /\ <<x>> \in Seq(Direct)
             /\ a \o <<x>> \in Seq(Direct)
  <2>1. <<x>> \in Seq(Direct) /\ a \o <<x>> \in Seq(Direct)
    OBVIOUS
  <2> QED BY <1>0, <2>1, SentConcat
<1>3. Sent(<<>>, "write") = <<>> /\ Sent(<<>>, "printf") = <<>> /\ <<>> \in Seq(Direct) /\ <<>> \o <<>> = <<>>
  BY SentConcat
<1>4. Sent(s, "write") = s
  <2> DEFINE F == [a \in Seq(Direct) |-> Sent(a, "write")]
             G == [a \in Seq(Direct) |-> a]
  <2>f. \A a \in Seq(Direct) : F[a] = Sent(a, "write") /\ G[a] = a
    OBVIOUS
  <2> HIDE DEF F, G
  <2>1. F[<<>>] = G[<<>>]
    BY <1>3, <2>f
  <2>2. ASSUME NEW a \in Seq(Direct), NEW x \in Direct
        PROVE  F[a \o <<x>>] = F[a] \o F[<<x>>] /\ G[a \o <<x>>] = G[a] \o G[<<x>>] /\ F[<<x>>] = G[<<x>>]
    <3>1. /\ Sent(a \o <<x>>, "write") = Sent(a, "write") \o Sent(<<x>>, "write")
          /\ <<x>> \in Seq(Direct) /\ a \o <<x>> \in Seq(Direct)
      BY <1>2
    <3> QED BY <1>1, <2>f, <3>1
  <2>3. F[s] = G[s]
    <3>1. \A a \in Seq(Direct) : \A x \in Direct :
            /\ F[a \o <<x>>] = F[a] \o F[<<x>>]
            /\ G[a \o <<x>>] = G[a] \o G[<<x>>]
            /\ F[<<x>>] = G[<<x>>]
      BY <2>2
    <3>2. Together(F, G, Direct)
      BY ONLY <2>1, <3>1 DEF Together
    <3> QED BY <3>2, Agree
  <2> QED BY <2>3, <2>f
<1>5. Sent(s, "printf") = <<>>
  <2> DEFINE F == [a \in Seq(Direct) |-> Sent(a, "printf")]
             G == [a \in Seq(Direct) |-> <<>>]
  <2>f. \A a \in Seq(Direct) : F[a] = Sent(a, "printf") /\ G[a] = <<>>
    OBVIOUS
  <2> HIDE DEF F, G
  <2>1. F[<<>>] = G[<<>>]
    BY <1>3, <2>f
  <2>2. ASSUME NEW a \in Seq(Direct), NEW x \in Direct
        PROVE  F[a \o <<x>>] = F[a] \o F[<<x>>] /\ G[a \o <<x>>] = G[a] \o G[<<x>>] /\ F[<<x>>] = G[<<x>>]
    <3>1. /\ Sent(a \o <<x>>, "printf") = Sent(a, "printf") \o Sent(<<x>>, "printf")
          /\ <<x>> \in Seq(Direct) /\ a \o <<x>> \in Seq(Direct)
      BY <1>2
    <3> QED BY <1>1, <1>3, <2>f, <3>1
  <2>3. F[s] = G[s]
    <3>1. \A a \in Seq(Direct) : \A x \in Direct :
            /\ F[a \o <<x>>] = F[a] \o F[<<x>>]
            /\ G[a \o <<x>>] = G[a] \o G[<<x>>]
            /\ F[<<x>>] = G[<<x>>]
      BY <2>2
    <3>2. Together(F, G, Direct)
      BY ONLY <2>1, <3>1 DEF Together
    <3> QED BY <3>2, Agree
  <2> QED BY <2>3, <2>f
<1> QED BY <1>4, <1>5

(* A value that println prints and what the source says of it.  They agree *)
(* in strings and numbers; for strings in everything.                      *)
LEMMA ValueKept ==
  ASSUME NEW K, NEW v \in Values0, K \subseteq {"string", "number"} \/ v.type = "string"
  PROVE  /\ Kept(Printed(v), K) = Kept(<<Value(v)>>, K)
         /\ Value(v) \in Bares
<1>e. <<>> \in Seq(STRING) /\ Items \subseteq Things /\ Bares \subseteq Things
  BY DEF Things
<1>1. CASE v.type = "string"
  <2> DEFINE x == [how |-> "write", what |-> "string", number |-> 0, chars |-> v.val]
             y == [what |-> "string", number |-> 0, chars |-> v.val]
  <2>1. v.val \in Seq(STRING)
    BY <1>1 DEF Values0
  <2>2. x \in Items /\ y \in Bares /\ Bare(x) = y /\ Bare(y) = y /\ x.what = "string" /\ y.what = "string"
    BY <2>1 DEF Items, Bares, Bare
  <2>3. Printed(v) = <<x>> /\ Value(v) = y
    BY <1>1 DEF Printed, Item, Value
  <2> HIDE DEF x, y
  <2>4. Kept(<<x>>, K) = Kept(<<y>>, K)
    BY <1>e, <2>2, OneKept
  <2> QED BY <2>2, <2>3, <2>4
<1>2. CASE v.type # "string"
  <2> DEFINE x == [how |-> "printf", what |-> "number", number |-> v.val, chars |-> <<>>]
             y == [what |-> "number", number |-> v.val, chars |-> <<>>]
             z == Item("printf", "newline")
  <2>1. v.val \in Int
    BY <1>2 DEF Values0
  <2>2. x \in Items /\ y \in Bares /\ Bare(x) = y /\ Bare(y) = y /\ x.what = "number" /\ y.what = "number"
    BY <1>e, <2>1 DEF Items, Bares, Bare
  <2>3. Printed(v) = <<x, z>> /\ Value(v) = y
    BY <1>2 DEF Printed, Item, Value
  <2>4. z \in Items /\ z.what = "newline"
    BY <1>e DEF Items, Item
  <2> HIDE DEF x, y, z
  <2>5. Kept(<<x>>, K) = Kept(<<y>>, K) /\ Kept(<<z>>, K) = <<>>
    <3>1. z.what \notin K
      BY <1>2, <2>4
    <3>2. Kept(<<x>>, K) = Kept(<<y>>, K)
      BY <1>e, <2>2, OneKept
    <3>3. Kept(<<z>>, K) = <<>>
      BY <1>e, <2>4, <3>1, OneKept
    <3> QED BY <3>2, <3>3
  <2>6. Kept(<<x>> \o <<z>>, K) = Kept(<<x>>, K) \o Kept(<<z>>, K) /\ Kept(<<x>>, K) \in Seq(Bares)
    <3>1. <<x>> \in Seq(Things) /\ <<z>> \in Seq(Things)
      BY <1>e, <2>2, <2>4
    <3> QED BY <3>1, KeptConcat
  <2>7. <<x, z>> = <<x>> \o <<z>>
    OBVIOUS
  <2>8. Kept(<<x>>, K) \o <<>> = Kept(<<x>>, K)
    BY <2>6
  <2> QED BY <2>2, <2>3, <2>5, <2>6, <2>7, <2>8
<1> QED BY <1>1, <1>2

(* A call of println and the line that the source says it is.              *)
LEMMA LineKept ==
  ASSUME NEW K, NEW s \in Seq(Values0),
         K \subseteq {"string", "number"} \/ \A i \in DOMAIN s : s[i].type = "string"
  PROVE  /\ Kept(println(s), K) = Kept(Line(s), K)
         /\ Line(s) \in Seq(Bares)
<1> DEFINE b(i) == IF i # Len(s) THEN <<Item("write", "blank")>> ELSE <<>>
           c(i) == IF i # Len(s) THEN <<Sign("blank")>> ELSE <<>>
           e == [i \in DOMAIN s |-> Printed(s[i]) \o b(i)]
           f == [i \in DOMAIN s |-> <<Value(s[i])>> \o c(i)]
           l == IF \A i \in DOMAIN s : s[i].type = "string" THEN <<Item("write", "newline")>> ELSE <<>>
           m == <<Sign("newline")>>
<1>0. Items \subseteq Things /\ Bares \subseteq Things /\ <<>> \in Seq(STRING)
  BY DEF Things
<1>1. ASSUME NEW w \in {"blank", "newline"}
      PROVE  /\ Item("write", w) \in Items /\ Sign(w) \in Bares
             /\ Kept(<<Item("write", w)>>, K) = Kept(<<Sign(w)>>, K)
             /\ K \subseteq {"string", "number"} => Kept(<<Sign(w)>>, K) = <<>>
  <2>1. Item("write", w) \in Items /\ Sign(w) \in Bares
    BY <1>0 DEF Items, Bares, Item, Sign
  <2>2. Bare(Item("write", w)) = Sign(w) /\ Bare(Sign(w)) = Sign(w) /\ Item("write", w).what = w /\ Sign(w).what = w
    BY DEF Bare, Item, Sign
  <2>3. Item("write", w) \in Things /\ Sign(w) \in Things
    BY <1>0, <2>1
  <2>4. Kept(<<Item("write", w)>>, K) = Kept(<<Sign(w)>>, K)
    BY <2>2, <2>3, OneKept
  <2>5. K \subseteq {"string", "number"} => Kept(<<Sign(w)>>, K) = <<>>
    <3>1. K \subseteq {"string", "number"} => Sign(w).what \notin K
      BY <2>2
    <3> QED BY <2>3, <3>1, OneKept
  <2> QED BY <2>1, <2>4, <2>5
<1>2. ASSUME NEW i \in DOMAIN s
      PROVE  /\ Printed(s[i]) \o b(i) \in Seq(Things)
             /\ <<Value(s[i])>> \o c(i) \in Seq(Bares)
             /\ Kept(Printed(s[i]) \o b(i), K) = Kept(<<Value(s[i])>> \o c(i), K)
  <2>1. s[i] \in Values0
    OBVIOUS
  <2>2. Printed(s[i]) \in Seq(Items) /\ Value(s[i]) \in Bares
        /\ Kept(Printed(s[i]), K) = Kept(<<Value(s[i])>>, K)
    BY <2>1, PrintedIn, ValueKept
  <2>3. b(i) \in Seq(Items) /\ c(i) \in Seq(Bares) /\ Kept(b(i), K) = Kept(c(i), K)
    BY <1>1
  <2> DEFINE x == Printed(s[i])
             y == <<Value(s[i])>>
             bb == b(i)
             cc == c(i)
  <2>4. /\ x \in Seq(Items) /\ y \in Seq(Bares) /\ bb \in Seq(Items) /\ cc \in Seq(Bares)
        /\ Kept(x, K) = Kept(y, K) /\ Kept(bb, K) = Kept(cc, K)
    BY <2>2, <2>3
  <2> HIDE DEF x, y, bb, cc
  <2>5. x \in Seq(Things) /\ y \in Seq(Things) /\ bb \in Seq(Things) /\ cc \in Seq(Things)
    BY <1>0, <2>4
  <2>6. x \o bb \in Seq(Things) /\ y \o cc \in Seq(Bares)
    BY <2>4, <2>5, ConcatProperties
  <2>7. Kept(x \o bb, K) = Kept(x, K) \o Kept(bb, K) /\ Kept(y \o cc, K) = Kept(y, K) \o Kept(cc, K)
    BY <2>5, KeptConcat
  <2> QED BY <2>4, <2>6, <2>7 DEF x, y, bb, cc
<1>3. /\ e \in Seq(Seq(Things)) /\ f \in Seq(Seq(Bares)) /\ f \in Seq(Seq(Things)) /\ Len(e) = Len(f)
      /\ \A i \in 1..Len(e) : Kept(e[i], K) = Kept(f[i], K)
  <2>1. DOMAIN s = 1..Len(s) /\ Len(s) \in Nat
    OBVIOUS
  <2>2. e \in [1..Len(s) -> Seq(Things)] /\ f \in [1..Len(s) -> Seq(Bares)]
    BY <1>2, <2>1, Zenon
  <2>3. \A i \in 1..Len(s) : Kept(e[i], K) = Kept(f[i], K)
    BY <1>2, <2>1, Zenon
  <2> HIDE DEF e, f
  <2>4. f \in [1..Len(s) -> Seq(Things)]
    <3>1. Seq(Bares) \subseteq Seq(Things)
      BY <1>0
    <3> QED BY <2>2, <3>1
  <2>5. e \in Seq(Seq(Things)) /\ f \in Seq(Seq(Bares)) /\ f \in Seq(Seq(Things))
    BY <2>1, <2>2, <2>4, ArrayIn
  <2>6. Len(e) = Len(s) /\ Len(f) = Len(s)
    BY <2>1, <2>2, <2>5
  <2> QED BY <2>3, <2>5, <2>6
<1>4. l \in Seq(Things) /\ m \in Seq(Bares) /\ m \in Seq(Things) /\ Kept(l, K) = Kept(m, K)
  <2>0. /\ Item("write", "newline") \in Items /\ Sign("newline") \in Bares
        /\ Kept(<<Item("write", "newline")>>, K) = Kept(<<Sign("newline")>>, K)
        /\ K \subseteq {"string", "number"} => Kept(<<Sign("newline")>>, K) = <<>>
    BY <1>1
  <2>m. m \in Seq(Bares) /\ m \in Seq(Things) /\ m = <<Sign("newline")>>
    BY <1>0, <2>0
  <2>1. CASE \A i \in DOMAIN s : s[i].type = "string"
    <3>1. l = <<Item("write", "newline")>>
      BY <2>1
    <3> HIDE DEF l, m
    <3> QED BY <1>0, <2>0, <2>m, <3>1
  <2>2. CASE ~\A i \in DOMAIN s : s[i].type = "string"
    <3>1. l = <<>> /\ K \subseteq {"string", "number"}
      BY <2>2
    <3>2. Kept(<<>>, K) = <<>>
      BY KeptConcat
    <3> HIDE DEF l, m
    <3> QED BY <2>0, <2>m, <3>1, <3>2
  <2> QED BY <2>1, <2>2
<1>5. println(s) = FlattenSeq(e) \o l /\ Line(s) = FlattenSeq(f) \o m
  BY DEF println, Line
<1> HIDE DEF e, f, l, m
<1>6. Kept(FlattenSeq(e), K) = Kept(FlattenSeq(f), K)
  BY <1>3, SameKept
<1>7. FlattenSeq(e) \in Seq(Things) /\ FlattenSeq(f) \in Seq(Bares) /\ FlattenSeq(f) \in Seq(Things)
  BY <1>3, FlattenedIn
<1>8. /\ Kept(FlattenSeq(e) \o l, K) = Kept(FlattenSeq(e), K) \o Kept(l, K)
      /\ Kept(FlattenSeq(f) \o m, K) = Kept(FlattenSeq(f), K) \o Kept(m, K)
  BY <1>4, <1>7, KeptConcat
<1>9. FlattenSeq(f) \o m \in Seq(Bares)
  BY ONLY <1>4, <1>7, ConcatProperties
<1> QED BY <1>4, <1>5, <1>6, <1>8, <1>9

(* What a whole program prints and what its source says.                   *)
LEMMA MeaningKept ==
  ASSUME NEW p, Program(p), p = job.prog, NEW K, K \subseteq {"string", "number"} \/ OnlyStrings
  PROVE  Kept(Output(p, Len(p)), K) = Kept(Meaning, K)
<1> DEFINE e == [i \in 1..Len(p) |-> println(Args(p, i))]
           f == [i \in 1..Len(p) |-> Line(Args(p, i))]
<1>0. DOMAIN p = 1..Len(p) /\ Len(p) \in Nat
  BY DEF Program
<1>t. Seq(Items) \subseteq Seq(Things) /\ Seq(Bares) \subseteq Seq(Things)
  BY DEF Things
<1>1. ASSUME NEW i \in 1..Len(p)
      PROVE  /\ println(Args(p, i)) \in Seq(Things) /\ Line(Args(p, i)) \in Seq(Things)
             /\ Kept(println(Args(p, i)), K) = Kept(Line(Args(p, i)), K)
  <2>1. Args(p, i) \in Seq(Values0) /\ println(Args(p, i)) \in Seq(Items)
    BY ArgsPrint
  <2>2. OnlyStrings => \A k \in DOMAIN Args(p, i) : Args(p, i)[k].type = "string"
    BY <1>0 DEF OnlyStrings, Args
  <2>3. Kept(println(Args(p, i)), K) = Kept(Line(Args(p, i)), K) /\ Line(Args(p, i)) \in Seq(Bares)
    BY <2>1, <2>2, LineKept
  <2> QED BY <1>t, <2>1, <2>3
<1>2. e \in [1..Len(p) -> Seq(Things)] /\ f \in [1..Len(p) -> Seq(Things)]
      /\ \A i \in 1..Len(p) : Kept(e[i], K) = Kept(f[i], K)
  BY <1>1, Zenon
<1>3. Output(p, Len(p)) = FlattenSeq(e)
  BY DEF Output
<1>4. Meaning = FlattenSeq(f)
  BY <1>0 DEF Meaning, Args
<1> HIDE DEF e, f
<1>5. e \in Seq(Seq(Things)) /\ f \in Seq(Seq(Things))
  BY <1>0, <1>2, ArrayIn
<1>6. Len(e) = Len(p) /\ Len(f) = Len(p)
  BY <1>0, <1>2, <1>5
<1> QED BY <1>2, <1>3, <1>4, <1>5, <1>6, SameKept

(* A program of strings writes everything at once.                         *)
LEMMA OutputDirect ==
  ASSUME NEW p, Program(p), p = job.prog, OnlyStrings
  PROVE  Output(p, Len(p)) \in Seq(Direct)
<1> DEFINE e == [i \in 1..Len(p) |-> println(Args(p, i))]
<1>0. DOMAIN p = 1..Len(p) /\ Len(p) \in Nat
  BY DEF Program
<1>1. ASSUME NEW i \in 1..Len(p) PROVE println(Args(p, i)) \in Seq(Direct)
  <2> DEFINE s == Args(p, i)
  <2>1. s \in Seq(Values0) /\ \A k \in DOMAIN s : s[k].type = "string"
    BY <1>0, ArgsPrint DEF OnlyStrings, Args
  <2> HIDE DEF s
  <2>2. Item("write", "blank") \in Direct /\ Item("write", "newline") \in Direct
    <3>1. <<>> \in Seq(STRING)
      OBVIOUS
    <3> QED BY <3>1 DEF Direct, Items, Item
  <2>3. ASSUME NEW k \in DOMAIN s PROVE Printed(s[k]) \in Seq(Direct)
    <3> DEFINE x == [how |-> "write", what |-> "string", number |-> 0, chars |-> s[k].val]
    <3>1. s[k] \in Values0 /\ s[k].type = "string"
      BY <2>1
    <3>2. s[k].val \in Seq(STRING)
      BY <3>1 DEF Values0
    <3>3. x \in Direct
      BY <3>2 DEF Direct, Items
    <3>4. Printed(s[k]) = <<x>>
      BY <3>1 DEF Printed, Item
    <3> HIDE DEF x
    <3> QED BY <3>3, <3>4
  <2>4. println(s) \in Seq(Direct)
    BY <2>1, <2>2, <2>3, printlnOf
  <2> QED BY <2>4 DEF s
<1>2. e \in [1..Len(p) -> Seq(Direct)]
  BY <1>1, Zenon
<1>3. Output(p, Len(p)) = FlattenSeq(e)
  BY DEF Output
<1> HIDE DEF e
<1>4. e \in Seq(Seq(Direct))
  BY <1>0, <1>2, ArrayIn
<1> QED BY <1>3, <1>4, FlattenedIn

(* exit writes what is left of it.                                         *)
LEMMA SaidAll ==
  ASSUME NEW p, Program(p), p = job.prog, Said(p, Len(p)), UNCHANGED <<job, tty>>, tty \in BOOLEAN,
         written' = written \o stdio, stdio' = <<>>
  PROVE  PrintsProgram'
<1> DEFINE c == Output(p, Len(p))
           u == Sent(c, "write")
           v == Sent(c, "printf")
<1>1. /\ Meaning' = Meaning /\ (Plain' <=> Plain) /\ (OnlyStrings' <=> OnlyStrings)
  BY DEF Meaning, Plain, Backslash, OnlyStrings, NoneEmpty
<1>2. ASSUME NEW K, Kept(written', K) = Kept(Meaning, K) PROVE Same(K)'
  BY <1>1, <1>2 DEF Same
<1> SUFFICES ASSUME Plain
             PROVE  /\ Kept(written', {"string"}) = Kept(Meaning, {"string"})
                    /\ Kept(written', {"number"}) = Kept(Meaning, {"number"})
                    /\ tty => Kept(written', {"string", "number"}) = Kept(Meaning, {"string", "number"})
                    /\ OnlyStrings => Kept(written', All) = Kept(Meaning, All)
  BY <1>1, <1>2 DEF PrintsProgram
<1>3. IsOut(c)
  BY DEF Said
<1>4. c \in Seq(Items)
  <2>1. Len(p) \in 0..Len(p)
    BY DEF Program
  <2> QED BY <2>1, OutputIs
<1>5. \A K : K \subseteq {"string", "number"} \/ OnlyStrings => Kept(c, K) = Kept(Meaning, K)
  BY MeaningKept
<1>6. OnlyStrings => u = c /\ v = <<>>
  BY OutputDirect, SentDirect
<1>7. /\ Kept(u, {"string"}) = Kept(c, {"string"}) /\ Kept(v, {"string"}) = <<>>
      /\ Kept(u, {"number"}) = <<>> /\ Kept(v, {"number"}) = Kept(c, {"number"})
  <2>1. \A x \in Items : /\ x.what = "string" => x.how = "write"
                         /\ x.what = "number" => x.how = "printf"
    BY DEF Items
  <2>2. /\ \A x \in Items : x.what \in {"string"} => (x.how = "write" <=> TRUE)
        /\ \A x \in Items : x.what \in {"string"} => (x.how = "printf" <=> FALSE)
        /\ \A x \in Items : x.what \in {"number"} => (x.how = "write" <=> FALSE)
        /\ \A x \in Items : x.what \in {"number"} => (x.how = "printf" <=> TRUE)
    BY <2>1
  <2> HIDE DEF c
  <2>3. Kept(u, {"string"}) = Kept(c, {"string"})
    BY <1>4, <2>2, KeptSent
  <2>4. Kept(v, {"string"}) = <<>>
    BY <1>4, <2>2, KeptSent
  <2>5. Kept(u, {"number"}) = <<>>
    BY <1>4, <2>2, KeptSent
  <2>6. Kept(v, {"number"}) = Kept(c, {"number"})
    BY <1>4, <2>2, KeptSent
  <2> QED BY <2>3, <2>4, <2>5, <2>6
<1>8. u \in Seq(Items) /\ v \in Seq(Items)
  BY <1>4, SentConcat
<1> DEFINE all == {"string", "number"}
<1>9. CASE tty
  <2>1. written' = c
    <3> HIDE DEF c
    <3> QED BY <1>3, <1>4, <1>9 DEF IsOut
  <2> HIDE DEF c
  <2> QED BY <1>5, <2>1
<1>10. CASE ~tty
  <2>1. written' = u \o v
    BY <1>3, <1>10 DEF IsOut
  <2> HIDE DEF c, u, v
  <2>2. \A K : Kept(u \o v, K) = Kept(u, K) \o Kept(v, K)
    <3>1. u \in Seq(Things) /\ v \in Seq(Things)
      BY <1>8 DEF Things
    <3> QED BY <3>1, KeptConcat
  <2>3. \A K : Kept(c, K) \in Seq(Bares)
    <3>1. c \in Seq(Things)
      BY <1>4 DEF Things
    <3> QED BY <3>1, KeptConcat
  <2>4. \A K : Kept(c, K) \o <<>> = Kept(c, K) /\ <<>> \o Kept(c, K) = Kept(c, K)
    BY <2>3
  <2>5. Kept(written', {"string"}) = Kept(Meaning, {"string"})
    BY <1>5, <1>7, <2>1, <2>2, <2>4
  <2>6. Kept(written', {"number"}) = Kept(Meaning, {"number"})
    BY <1>5, <1>7, <2>1, <2>2, <2>4
  <2>7. OnlyStrings => Kept(written', All) = Kept(Meaning, All)
    <3>1. OnlyStrings => written' = c
      BY <1>4, <1>6, <2>1
    <3> QED BY <1>5, <3>1
  <2> QED BY <1>10, <2>5, <2>6, <2>7
<1> QED BY <1>9, <1>10

-----------------------------------------------------------------------------
(* The string at a label.  What a sequence holds it holds as it grows.     *)
Grows(f, g, n, T) ==
  /\ n \in Nat
  /\ \A j \in 0..n : f[j] \in Seq(T)
  /\ \A j \in 1..n : g[j] \in Seq(T) /\ f[j] = f[j - 1] \o g[j]

LEMMA Growing ==
  ASSUME NEW T, NEW n, NEW f, NEW g, Grows(f, g, n, T), NEW j \in 0..n, NEW e \in 1..Len(f[j])
  PROVE  e \in 1..Len(f[n]) /\ f[n][e] = f[j][e]
<1>0. n \in Nat
  BY DEF Grows
<1> DEFINE G == {d \in 0..(n - j) : e \in 1..Len(f[j + d]) /\ f[j + d][e] = f[j][e]}
<1>1. 0 \in G
  <2>1. j + 0 = j /\ 0 \in 0..(n - j)
    BY <1>0
  <2> QED BY <2>1
<1>2. ASSUME NEW d \in 1..(n - j), d - 1 \in G PROVE d \in G
  <2> DEFINE a == f[j + (d - 1)]
             b == g[j + d]
             c == f[j + d]
  <2>1. j + d \in 1..n /\ j + (d - 1) \in 0..n /\ (j + d) - 1 = j + (d - 1)
    BY <1>0
  <2>2. a \in Seq(T) /\ b \in Seq(T) /\ c = a \o b
    BY <2>1 DEF Grows
  <2>3. e \in 1..Len(a) /\ a[e] = f[j][e]
    BY <1>2
  <2>4. e \in 1..Len(c) /\ c[e] = f[j][e]
    <3> HIDE DEF a, b, c
    <3> QED BY <2>2, <2>3
  <2>5. d \in 0..(n - j)
    BY <1>0
  <2> QED BY <2>4, <2>5
<1> HIDE DEF G
<1>3. n - j \in Nat
  BY <1>0
<1>4. \A d \in 0..(n - j) : d \in G
  BY <1>1, <1>2, <1>3, UpTo
<1>5. n - j \in G
  BY <1>3, <1>4
<1>6. j + (n - j) = n
  BY <1>0
<1> QED BY <1>5, <1>6 DEF G

LEMMA StringIn ==
  ASSUME NEW args \in Seq(Argument), NEW k \in 1..Len(args), args[k].type = "string"
  PROVE  Before(args, k) + 1 \in 1..Len(Strings(args)) /\ Strings(args)[Before(args, k) + 1] = args[k]
         /\ Before(args, k) \in Nat
<1> DEFINE n == Len(args)
           f == [j \in 0..n |-> Strings(SubSeq(args, 1, j))]
           g == [j \in 1..n |-> Strings(<<args[j]>>)]
<1>1. n \in Nat
  OBVIOUS
<1>2. ASSUME NEW j \in 1..n
      PROVE  /\ SubSeq(args, 1, j) \in Seq(Argument) /\ SubSeq(args, 1, j - 1) \in Seq(Argument)
             /\ <<args[j]>> \in Seq(Argument)
             /\ SubSeq(args, 1, j) = SubSeq(args, 1, j - 1) \o <<args[j]>>
  <2>1. /\ SubSeq(args, 1, j) \in Seq(Argument) /\ SubSeq(args, 1, j - 1) \in Seq(Argument)
        /\ SubSeq(args, 1, j) = Append(SubSeq(args, 1, j - 1), args[j]) /\ args[j] \in Argument
    BY PrefixIs
  <2> QED BY <2>1, AppendIsConcat
<1>3. \A j \in 0..n : f[j] \in Seq(Argument)
  <2>1. ASSUME NEW j \in 0..n PROVE SubSeq(args, 1, j) \in Seq(Argument)
    <3>1. CASE j = 0
      <4>1. SubSeq(args, 1, 0) = <<>>
        OBVIOUS
      <4> QED BY <3>1, <4>1
    <3>2. CASE j # 0
      <4>1. j \in 1..n
        BY <3>2
      <4> QED BY <1>2, <4>1
    <3> QED BY <3>1, <3>2
  <2> QED BY <2>1, StringsConcat
<1>4. \A j \in 1..n : g[j] \in Seq(Argument) /\ f[j] = f[j - 1] \o g[j]
  <2>1. ASSUME NEW j \in 1..n PROVE g[j] \in Seq(Argument) /\ f[j] = f[j - 1] \o g[j]
    <3> DEFINE a == SubSeq(args, 1, j - 1)
               b == <<args[j]>>
    <3>1. a \in Seq(Argument) /\ b \in Seq(Argument) /\ SubSeq(args, 1, j) = a \o b
      BY <1>2
    <3>2. f[j] = Strings(SubSeq(args, 1, j)) /\ f[j - 1] = Strings(a) /\ g[j] = Strings(b)
      <4>1. j \in 0..n /\ j - 1 \in 0..n
        OBVIOUS
      <4> QED BY <4>1
    <3> HIDE DEF a, b, f, g
    <3>3. Strings(a \o b) = Strings(a) \o Strings(b) /\ Strings(b) \in Seq(Argument)
      BY <3>1, StringsConcat
    <3> QED BY <3>1, <3>2, <3>3
  <2> QED BY <2>1
<1>5. f[k] = Append(f[k - 1], args[k]) /\ Before(args, k) = Len(f[k - 1])
  <2>1. g[k] = <<args[k]>>
    <3>1. args[k] \in Argument
      OBVIOUS
    <3> QED BY <3>1, StringsConcat DEF IsString
  <2>2. f[k] = f[k - 1] \o g[k] /\ f[k - 1] \in Seq(Argument)
    <3>1. k - 1 \in 0..n
      OBVIOUS
    <3> QED BY <1>3, <1>4, <3>1
  <2>3. Before(args, k) = Len(f[k - 1])
    <3>1. k - 1 \in 0..n
      OBVIOUS
    <3> QED BY <3>1 DEF Before
  <2> HIDE DEF f, g
  <2> QED BY <2>1, <2>2, <2>3, AppendIsConcat
<1>6. f[n] = Strings(args)
  <2>1. SubSeq(args, 1, Len(args)) = args /\ n \in 0..n
    OBVIOUS
  <2> QED BY <2>1
<1> DEFINE e == Before(args, k) + 1
<1>7. e \in 1..Len(f[k]) /\ f[k][e] = args[k] /\ Before(args, k) \in Nat
  <2>1. f[k - 1] \in Seq(Argument) /\ args[k] \in Argument
    <3>1. k - 1 \in 0..n
      OBVIOUS
    <3> QED BY <1>3, <3>1
  <2> HIDE DEF f
  <2> QED BY <1>5, <2>1
<1>8. k \in 0..n
  OBVIOUS
<1> HIDE DEF f, g, e, n
<1>9. e \in 1..Len(f[n]) /\ f[n][e] = f[k][e]
  <2>1. Grows(f, g, n, Argument)
    BY <1>1, <1>3, <1>4 DEF Grows
  <2>2. e \in 1..Len(f[k])
    BY <1>7
  <2> QED BY ONLY <2>1, <2>2, <1>8, Growing
<1> QED BY <1>6, <1>7, <1>9 DEF e

LEMMA StringHere ==
  ASSUME NEW p, Program(p), NEW i \in 1..Len(p), NEW k \in 1..Argc(p, i), Args(p, i)[k].type = "string"
  PROVE  /\ LabelOf(p, i, k) + 1 \in 1..Len(Strings(AllArgs(p)))
         /\ Strings(AllArgs(p))[LabelOf(p, i, k) + 1] = Args(p, i)[k]
<1> DEFINE n == Len(p)
           f == [j \in 0..n |-> Strings(AllArgs(SubSeq(p, 1, j)))]
           g == [j \in 1..n |-> Strings(Args(p, j))]
<1>1. n \in Nat /\ p \in Seq(Statement)
  BY DEF Program
<1>2. ASSUME NEW j \in 1..n
      PROVE  /\ AllArgs(SubSeq(p, 1, j)) = AllArgs(SubSeq(p, 1, j - 1)) \o Args(p, j)
             /\ AllArgs(SubSeq(p, 1, j - 1)) \in Seq(Argument) /\ Args(p, j) \in Seq(Argument)
             /\ AllArgs(SubSeq(p, 1, j)) \in Seq(Argument)
  <2>1. /\ SubSeq(p, 1, j - 1) \in Seq(Statement) /\ p[j] \in Statement
        /\ SubSeq(p, 1, j) = Append(SubSeq(p, 1, j - 1), p[j])
    BY <1>1, PrefixIs
  <2>2. /\ AllArgs(SubSeq(p, 1, j)) = AllArgs(SubSeq(p, 1, j - 1)) \o Args(p, j)
        /\ AllArgs(SubSeq(p, 1, j - 1)) \in Seq(Argument) /\ Args(p, j) \in Seq(Argument)
    BY <2>1, AllArgsConcat DEF Args
  <2> DEFINE a == AllArgs(SubSeq(p, 1, j - 1))
             b == Args(p, j)
  <2>3. a \in Seq(Argument) /\ b \in Seq(Argument) /\ AllArgs(SubSeq(p, 1, j)) = a \o b
    BY <2>2
  <2> HIDE DEF a, b
  <2>4. AllArgs(SubSeq(p, 1, j)) \in Seq(Argument)
    BY <2>3, ConcatProperties
  <2> QED BY <2>2, <2>4
<1>3. \A j \in 0..n : f[j] \in Seq(Argument)
  <2>1. ASSUME NEW j \in 0..n PROVE AllArgs(SubSeq(p, 1, j)) \in Seq(Argument)
    <3>1. CASE j = 0
      <4>1. SubSeq(p, 1, 0) = <<>>
        BY <1>1
      <4>2. AllArgs(<<>>) = <<>> /\ <<>> \in Seq(Argument)
        BY FlattenNone DEF AllArgs
      <4> QED BY <3>1, <4>1, <4>2
    <3>2. CASE j # 0
      <4>1. j \in 1..n
        BY <1>1, <3>2
      <4> QED BY <1>2, <4>1
    <3> QED BY <3>1, <3>2
  <2> QED BY <2>1, StringsConcat
<1>4. \A j \in 1..n : g[j] \in Seq(Argument) /\ f[j] = f[j - 1] \o g[j]
  <2>1. ASSUME NEW j \in 1..n PROVE g[j] \in Seq(Argument) /\ f[j] = f[j - 1] \o g[j]
    <3> DEFINE a == AllArgs(SubSeq(p, 1, j - 1))
               b == Args(p, j)
    <3>1. a \in Seq(Argument) /\ b \in Seq(Argument) /\ AllArgs(SubSeq(p, 1, j)) = a \o b
      BY <1>2
    <3>2. f[j] = Strings(AllArgs(SubSeq(p, 1, j))) /\ f[j - 1] = Strings(a) /\ g[j] = Strings(b)
      <4>1. j \in 0..n /\ j - 1 \in 0..n
        BY <1>1
      <4> QED BY <4>1
    <3> HIDE DEF a, b, f, g
    <3>3. Strings(a \o b) = Strings(a) \o Strings(b) /\ Strings(b) \in Seq(Argument)
      BY <3>1, StringsConcat
    <3> QED BY <3>1, <3>2, <3>3
  <2> QED BY <2>1
<1> DEFINE e == LabelOf(p, i, k) + 1
           d == Before(Args(p, i), k) + 1
<1>5. d \in 1..Len(g[i]) /\ g[i][d] = Args(p, i)[k] /\ d \in Int
  <2>1. Args(p, i) \in Seq(Argument) /\ Len(Args(p, i)) = Argc(p, i)
    BY ProgramIs
  <2>2. k \in 1..Len(Args(p, i))
    BY <2>1
  <2>3. d \in 1..Len(Strings(Args(p, i))) /\ Strings(Args(p, i))[d] = Args(p, i)[k] /\ d \in Int
    <3>1. Before(Args(p, i), k) + 1 \in 1..Len(Strings(Args(p, i)))
          /\ Strings(Args(p, i))[Before(Args(p, i), k) + 1] = Args(p, i)[k]
          /\ Before(Args(p, i), k) \in Nat
      BY <2>1, <2>2, StringIn
    <3> QED BY <3>1
  <2>4. g[i] = Strings(Args(p, i))
    OBVIOUS
  <2> HIDE DEF g, d
  <2> QED BY <2>3, <2>4
<1>6. e = Len(f[i - 1]) + d
  <2>1. i - 1 \in 0..n
    BY <1>1
  <2>2. FirstLabel(p, i) = Len(f[i - 1])
    BY <2>1 DEF FirstLabel
  <2>3. FirstLabel(p, i) \in Nat /\ Before(Args(p, i), k) \in Int
    BY <1>5, ProgramIs, StringIn
  <2> HIDE DEF f
  <2> QED BY <2>2, <2>3 DEF LabelOf
<1>7. e \in 1..Len(f[i]) /\ f[i][e] = Args(p, i)[k]
  <2>1. f[i - 1] \in Seq(Argument) /\ g[i] \in Seq(Argument) /\ f[i] = f[i - 1] \o g[i]
    <3>1. i - 1 \in 0..n
      BY <1>1
    <3> QED BY <1>3, <1>4, <3>1
  <2> DEFINE a == f[i - 1]
             b == g[i]
             c == f[i]
  <2>2. a \in Seq(Argument) /\ b \in Seq(Argument) /\ c = a \o b /\ d \in 1..Len(b)
        /\ b[d] = Args(p, i)[k] /\ e = Len(a) + d
    BY <1>5, <1>6, <2>1
  <2>3. e \in 1..Len(c) /\ c[e] = Args(p, i)[k]
    <3> HIDE DEF a, b, c, d, e, f, g
    <3> QED BY <2>2
  <2> QED BY <2>3
<1>8. f[n] = Strings(AllArgs(p))
  <2>1. SubSeq(p, 1, Len(p)) = p /\ n \in 0..n
    BY <1>1
  <2> QED BY <2>1
<1>9. i \in 0..n
  BY <1>1
<1> HIDE DEF f, g, e, d, n
<1>10. Grows(f, g, n, Argument)
  BY <1>1, <1>3, <1>4 DEF Grows
<1>11. e \in 1..Len(f[i])
  BY <1>7
<1>12. e \in 1..Len(f[n]) /\ f[n][e] = f[i][e]
  BY ONLY <1>9, <1>10, <1>11, Growing
<1> QED BY <1>7, <1>8, <1>12 DEF e

(* The string at the label of an argument is the argument, if the          *)
(* assembler reads it as it stands.                                        *)
ReadAt(l) == ReadString(asm.data[CHOOSE d \in DOMAIN asm.data : asm.data[d].label = l].param).chars

LEMMA StringAt ==
  ASSUME NEW p, Program(p), p = job.prog, asm.data = asm_data(p), Plain,
         NEW i \in 1..Len(p), NEW k \in 1..Argc(p, i), Args(p, i)[k].type = "string"
  PROVE  ReadAt(LabelOf(p, i, k)) = Args(p, i)[k].val
<1> SUFFICES ReadString(asm.data[CHOOSE d \in DOMAIN asm.data :
                                   asm.data[d].label = LabelOf(p, i, k)].param).chars = Args(p, i)[k].val
  BY Zenon DEF ReadAt
<1> DEFINE s == Strings(AllArgs(p))
           l == LabelOf(p, i, k)
           x == Args(p, i)[k]
<1>1. l + 1 \in 1..Len(s) /\ s[l + 1] = x
  BY StringHere
<1>2. l \in Nat /\ x.val \in Seq(STRING)
  BY ProgramIs
<1>3. s \in Seq(Argument)
  <2>1. AllArgs(p) \in Seq(Argument)
    <3> DEFINE h == [t \in DOMAIN p |-> p[t].args]
    <3>1. h \in [1..Len(p) -> Seq(Argument)] /\ Len(p) \in Nat
      <4>1. p \in Seq(Statement)
        BY DEF Program
      <4>2. Len(p) \in Nat /\ DOMAIN p = 1..Len(p) /\ \A t \in 1..Len(p) : p[t] \in Statement
        BY <4>1
      <4>3. \A t \in 1..Len(p) : p[t].args \in Seq(Argument)
        BY <4>2 DEF Statement
      <4> QED BY <4>2, <4>3
    <3> HIDE DEF h
    <3>2. h \in Seq(Seq(Argument))
      BY <3>1, ArrayIn
    <3>3. FlattenSeq(h) \in Seq(Argument)
      BY <3>2, FlattenedIn
    <3> QED BY <3>3 DEF h, AllArgs
  <2> QED BY <2>1, StringsConcat
<1>4. /\ DOMAIN asm.data = DOMAIN s
      /\ \A d \in DOMAIN asm.data : asm.data[d].label = d - 1 /\ asm.data[d].param = Quoted(s[d].val)
  BY DEF asm_data
<1> HIDE DEF s, l
<1>5. DOMAIN s = 1..Len(s) /\ Len(s) \in Nat
  BY <1>3
<1>6. (CHOOSE d \in DOMAIN asm.data : asm.data[d].label = l) = l + 1
  <2>1. l + 1 \in DOMAIN asm.data /\ asm.data[l + 1].label = l
    BY <1>1, <1>2, <1>4, <1>5
  <2>2. \A d \in DOMAIN asm.data : asm.data[d].label = l => d = l + 1
    BY <1>2, <1>4, <1>5
  <2> QED BY <2>1, <2>2
<1>7. asm.data[l + 1].param = Quoted(x.val)
  BY <1>1, <1>4, <1>5
<1>8. x.val \in Seq(Char) /\ ~Contains(x.val, "backslash")
  <2>1. x.val \in Seq(Char)
    BY <1>2 DEF Char
  <2>2. ~Contains(x.val, "backslash")
    <3>1. i \in DOMAIN job.prog /\ k \in DOMAIN job.prog[i].args
      <4>1. DOMAIN Args(p, i) = 1..Argc(p, i)
        BY ProgramIs
      <4>2. i \in DOMAIN p
        BY DEF Program
      <4> QED BY <4>1, <4>2 DEF Args
    <3> QED BY <3>1 DEF Plain, Backslash, Args
  <2> QED BY <2>1, <2>2
<1> HIDE DEF x
<1>9. ReadString(Quoted(x.val)).chars = x.val
  BY <1>8, StringsReadBack
<1> QED BY <1>6, <1>7, <1>9 DEF l, x

-----------------------------------------------------------------------------
(* A machine at work on the program p, and what every step of it keeps.    *)
Machine(p) ==
  /\ Program(p) /\ p = job.prog /\ asm = compilation_context(p)
  /\ run = "running" /\ DOMAIN reg = Reg /\ tty \in BOOLEAN /\ made \in Nat
Goes == UNCHANGED <<driver, tty, run>> /\ DOMAIN reg' = Reg /\ made' \in Nat

(* From the address t up the stack stays what it is.                       *)
Keeps(t) ==
  /\ \A a \in DOMAIN mem : a >= t => a \in DOMAIN mem' /\ mem'[a] = mem[a]
  /\ (\A a \in DOMAIN mem : a < 0) => \A a \in DOMAIN mem' : a < 0

LEMMA OnwardGoes ==
  ASSUME Onward, Quietly, made \in Nat
  PROVE  Goes /\ UNCHANGED <<asm, job, heap, made, written, stdio>>
  BY DEF Onward, Quietly, Goes, driver

LEMMA KeepsAll ==
  ASSUME mem' = mem, NEW t
  PROVE  Keeps(t)
  BY DEF Keeps

LEMMA KeepsPush ==
  ASSUME NEW t \in Int, t < 8, DOMAIN mem' = DOMAIN mem \cup {t - 8},
         \A a \in DOMAIN mem : a # t - 8 => mem'[a] = mem[a]
  PROVE  Keeps(t)
<1>1. ~(t - 8 >= t) /\ t - 8 < 0
  OBVIOUS
<1> QED BY <1>1 DEF Keeps

LEMMA KeepsReturns ==
  ASSUME NEW t \in Int, Top(t), NEW x, Returns(x)
  PROVE  Keeps(t)
  BY ReturnsIs DEF Keeps

LEMMA BaseKept ==
  ASSUME Base, NEW t \in Int, t <= -16, Keeps(t), reg'["rbp"] = reg["rbp"]
  PROVE  Base'
<1>1. -8 >= t /\ -16 >= t
  OBVIOUS
<1> QED BY <1>1 DEF Base, Holds, Keeps

LEMMA WithinKept ==
  ASSUME NEW p, NEW i, NEW m, Within(p, i, m), NEW t \in Int, t <= -16, Keeps(t),
         reg'["rbp"] = reg["rbp"], UNCHANGED <<job, tty, written, stdio>>
  PROVE  Within(p, i, m)'
<1>1. Base'
  BY BaseKept DEF Within
<1>2. Said(p, i - 1)'
  BY QuietSaid DEF Within
<1> QED BY <1>1, <1>2 DEF Within, ShortBefore, Argc

LEMMA AfterKept ==
  ASSUME NEW p, NEW i, After(p, i), NEW t \in Int, t <= -16, Keeps(t),
         reg'["rbp"] = reg["rbp"], UNCHANGED <<job, tty, written, stdio>>
  PROVE  After(p, i)'
<1>1. Base'
  BY BaseKept DEF After
<1>2. Argc(p, i) <= 5 => Said(p, i)'
  BY QuietSaid DEF After
<1> QED BY <1>1, <1>2 DEF After, ShortBefore, Argc

LEMMA PileKept ==
  ASSUME NEW p, NEW i, NEW k \in Nat, NEW m, Pile(p, i, k, m), Keeps(-24 - 8 * k)
  PROVE  /\ Holds(-24, Word("number", Argc(p, i)))'
         /\ \A j \in 1..k : Holds(-24 - 8 * j, Word("value", m + j))'
         /\ reg'["rsp"] = reg["rsp"] => Pile(p, i, k, m)'
<1>1. Holds(-24, Word("number", Argc(p, i)))'
  <2>1. -24 >= -24 - 8 * k
    OBVIOUS
  <2> QED BY <2>1 DEF Pile, Holds, Keeps, Word, Argc
<1>2. ASSUME NEW j \in 1..k PROVE Holds(-24 - 8 * j, Word("value", m + j))'
  <2>1. -24 - 8 * j >= -24 - 8 * k
    OBVIOUS
  <2> QED BY <2>1 DEF Pile, Holds, Keeps, Word
<1> QED BY <1>1, <1>2 DEF Pile, Top, Word

-----------------------------------------------------------------------------
(* From the start to the first statement.                                  *)
LEMMA OpeningIs ==
  ASSUME NEW p, Program(p), asm = compilation_context(p), rip \in 1..8
  PROVE  Inst = Opening[rip]
  BY RootCode DEF Inst, compilation_context

LEMMA StartingStep ==
  ASSUME NEW p, Machine(p), Starting(p), Step
  PROVE  Goes /\ (Starting(p)' \/ ToCall(p, 1)')
<1> USE DEF Machine
<1>1. CASE rip \in {2, 6} /\ Inst.inst = "label"
  <2>1. label
    BY <1>1, Only
  <2>2. rip' = rip + 1 /\ UNCHANGED <<driver, tty, reg, mem, heap, made, written, stdio, run>>
    BY <2>1 DEF label
  <2>3. job' = job /\ Goes
    BY <2>2 DEF Goes, driver
  <2>4. Said(p, 0)'
    BY <2>2, <2>3, QuietSaid DEF Starting
  <2>5. rip \in {2, 6}
    BY <1>1
  <2>6. CASE rip = 2
    <3>1. rip' = 3 /\ Top(0)
      BY <2>2, <2>6 DEF Starting
    <3> QED BY <2>2, <2>3, <2>4, <3>1 DEF Starting, Top, Word
  <2>7. CASE rip = 6
    <3>1. rip' = 7 /\ Top(-8) /\ Holds(-8, Word("return", 4))
      BY <2>2, <2>7 DEF Starting
    <3> QED BY <2>2, <2>3, <2>4, <3>1 DEF Starting, Top, Word, Holds
  <2> QED BY <2>5, <2>6, <2>7
<1>2. CASE rip = 3
  <2>1. Inst.inst = "call" /\ Inst.ops = <<IDENTIFIER("main")>>
    BY <1>2, OpeningIs DEF Opening, Instr
  <2>2. Top(0) /\ Said(p, 0) /\ reg["rbp"] = Junk /\ DOMAIN heap = {} /\ made = 0
        /\ \A a \in DOMAIN mem : a < 0
    BY <1>2 DEF Starting
  <2> DEFINE t == 0
  <2>t. t \in Int /\ Top(t) /\ t - 8 = -8
    BY <2>2
  <2> HIDE DEF t
  <2>3. /\ UNCHANGED <<driver, tty, run>> /\ Quietly
        /\ rip' = Label("main") /\ Top(t - 8)'
        /\ \A q \in Reg : q # "rsp" => reg'[q] = reg[q]
        /\ DOMAIN mem' = DOMAIN mem \cup {t - 8}
        /\ t - 8 \in DOMAIN mem' /\ mem'[t - 8] = Word("return", rip + 1)
    BY <2>1, <2>t, mainIs
  <2>4. DOMAIN reg' = Reg
    <3>1. call_main
      <4>1. Op(1).val = "main"
        BY <2>1, OperandIs DEF Op
      <4> QED BY <2>1, <4>1, Only
    <3> QED BY <3>1 DEF call_main
  <2>5. rip' = 6
    BY <2>3, LabelsAt DEF compilation_context
  <2>6. Goes /\ job' = job
    BY <2>3, <2>4 DEF Goes, Quietly, driver
  <2>7. Said(p, 0)'
    BY <2>2, <2>3, <2>6, QuietSaid DEF Quietly
  <2>8. t - 8 = -8 /\ rip + 1 = 4
    BY <1>2, <2>t
  <2>9. Holds(-8, Word("return", 4))'
    BY <2>3, <2>8 DEF Holds, Word
  <2>10. reg'["rbp"] = Junk
    BY <2>2, <2>3, Regs
  <2>11. \A a \in DOMAIN mem' : a < 0
    BY <2>2, <2>3, <2>8
  <2> QED BY <2>2, <2>3, <2>5, <2>6, <2>7, <2>8, <2>9, <2>10, <2>11 DEF Starting, Quietly
<1>3. CASE rip = 7
  <2>1. Inst.inst = "push" /\ Inst.ops = <<REGISTER_X64("rbp")>>
    BY <1>3, OpeningIs DEF Opening, Instr, RBP
  <2>2. Top(-8) /\ Said(p, 0) /\ reg["rbp"] = Junk /\ DOMAIN heap = {} /\ made = 0
        /\ Holds(-8, Word("return", 4)) /\ \A a \in DOMAIN mem : a < 0
    BY <1>3 DEF Starting
  <2>3. /\ Onward /\ Quietly
        /\ Top(-8 - 8)'
        /\ \A q \in Reg : q # "rsp" => reg'[q] = reg[q]
        /\ DOMAIN mem' = DOMAIN mem \cup {-8 - 8}
        /\ -8 - 8 \in DOMAIN mem' /\ mem'[-8 - 8] = reg["rbp"]
        /\ \A a \in DOMAIN mem : a # -8 - 8 => mem'[a] = mem[a]
    <3>1. -8 \in Int /\ "rbp" \in Reg
      BY Regs
    <3> QED BY <2>1, <2>2, <3>1, pushIs
  <2>4. Goes /\ UNCHANGED <<asm, job, heap, made, written, stdio>>
    BY <2>3, OnwardGoes
  <2>5. Said(p, 0)'
    BY <2>2, <2>3, <2>4, QuietSaid DEF Onward
  <2>6. rip' = 8
    BY <1>3, <2>3 DEF Onward
  <2>7. -8 - 8 = -16 /\ -8 # -16 /\ -16 < 0
    OBVIOUS
  <2>8. Holds(-8, Word("return", 4))' /\ Holds(-16, Junk)' /\ Top(-16)'
    BY <2>2, <2>3, <2>7 DEF Holds, Word, Junk
  <2>9. reg'["rbp"] = Junk
    BY <2>2, <2>3, Regs
  <2>10. \A a \in DOMAIN mem' : a < 0
    BY <2>2, <2>3, <2>7
  <2> QED BY <2>2, <2>4, <2>5, <2>6, <2>8, <2>9, <2>10 DEF Starting
<1>4. CASE rip = 8
  <2>1. Inst.inst = "mov" /\ Inst.ops = <<RSP, REGISTER_X64("rbp")>>
    BY <1>4, OpeningIs DEF Opening, Instr, RBP
  <2>2. Top(-16) /\ Said(p, 0) /\ DOMAIN heap = {}
        /\ Holds(-8, Word("return", 4)) /\ Holds(-16, Junk) /\ \A a \in DOMAIN mem : a < 0
    BY <1>4 DEF Starting
  <2>3. /\ Onward /\ Quietly /\ mem' = mem
        /\ reg'["rbp"] = Source(RSP)
        /\ \A q \in Reg : q # "rbp" => reg'[q] = reg[q]
    <3>1. "rbp" \in Reg
      BY Regs
    <3> QED BY <2>1, <3>1, movIs
  <2>4. Goes /\ UNCHANGED <<asm, job, heap, made, written, stdio>>
    BY <2>3, OnwardGoes
  <2>5. Said(p, 0)'
    BY <2>2, <2>3, <2>4, QuietSaid DEF Onward
  <2>6. reg'["rbp"] = Word("stack", -16)
    BY <2>2, <2>3, SourceIs DEF RSP, Top
  <2>7. reg'["rsp"] = reg["rsp"]
    BY <2>3, Regs
  <2>8. Base' /\ Top(-16)'
    BY <2>2, <2>3, <2>6, <2>7 DEF Base, Holds, Top, Word, Junk
  <2>9. rip' = 9 /\ asm'.code = x86_64_compile_root(p)
    BY <1>4, <2>3, <2>4 DEF Onward, compilation_context
  <2>10. Ahead(FromCall(p, 1))'
    <3> DEFINE c == asm'.code
               d == FromCall(p, 1)
    <3>1. Len(c) = 8 + Len(d) /\ Len(d) \in Nat /\ \A j \in 1..Len(d) : c[8 + j] = d[j]
      BY <2>9, RootCode
    <3>2. DOMAIN d = 1..Len(d)
      <4>1. 1 \in 1..(Len(p) + 1)
        BY CallsIn
      <4>2. d \in Seq(Body)
        BY <4>1, RestIn
      <4> HIDE DEF d
      <4> QED BY <4>2
    <3> HIDE DEF c, d
    <3>3. Ahead(d)' <=> /\ rip' \in Int /\ rip' > 0
                        /\ Len(c) = rip' - 1 + Len(d)
                        /\ \A j \in DOMAIN d : c[rip' - 1 + j] = d[j]
      BY DEF Ahead, c, d
    <3>4. Ahead(d)'
      BY <2>9, <3>1, <3>2, <3>3
    <3> QED BY <3>4 DEF d
  <2>11. 1 \in 1..(Len(p) + 1) /\ 1 - 1 = 0
    BY CallsIn
  <2>12. ShortBefore(p, 1)
    BY DEF ShortBefore
  <2>13. ToCall(p, 1)'
    BY <2>2, <2>4, <2>5, <2>8, <2>10, <2>11, <2>12 DEF ToCall, ShortBefore, Argc
  <2> QED BY <2>4, <2>13
<1>5. rip \in {2, 6} => Inst.inst = "label"
  BY OpeningIs DEF Opening, Instr
<1> QED BY <1>1, <1>2, <1>3, <1>4, <1>5 DEF Starting

-----------------------------------------------------------------------------
(* A call: the count.                                                      *)
LEMMA ToCallStep ==
  ASSUME NEW p, Machine(p), Step, NEW i \in 1..Len(p), ToCall(p, i), NEW m, m = made
  PROVE  Goes /\ ToCount(p, i, m)'
<1> USE DEF Machine
<1>1. /\ Ahead(Node("mov", <<IMM64(Argc(p, i)), RDI>>) \o (PushCount \o FromArg(p, i, 1)))
      /\ Node("mov", <<IMM64(Argc(p, i)), RDI>>) \in Seq(Body)
  <2>1. Argc(p, i) \in Nat
    BY ProgramIs
  <2> QED BY <2>1, AtCall, SmallIn DEF ToCall, Count
<1>2. PushCount \o FromArg(p, i, 1) \in Seq(Body)
  <2>1. 1 \in 1..(Argc(p, i) + 1)
    BY ProgramIs
  <2>2. FromArg(p, i, 1) \in Seq(Body)
    BY <2>1, RestIn
  <2> QED BY <2>2, SmallIn, CodeAssoc
<1>3. /\ Inst.inst = "mov" /\ Inst.ops = <<IMM64(Argc(p, i)), REGISTER_X64("rdi")>>
      /\ rip' = rip + 1 /\ asm' = asm => Ahead(PushCount \o FromArg(p, i, 1))'
  BY <1>1, <1>2, AheadStep DEF RDI
<1>4. /\ Onward /\ Quietly /\ mem' = mem
      /\ reg'["rdi"] = Source(IMM64(Argc(p, i)))
      /\ \A q \in Reg : q # "rdi" => reg'[q] = reg[q]
  <2>1. "rdi" \in Reg
    BY Regs
  <2> QED BY <1>3, <2>1, movIs
<1>5. Goes /\ UNCHANGED <<asm, job, heap, made, written, stdio>>
  BY <1>4, OnwardGoes
<1>6. reg'["rdi"] = Word("number", Argc(p, i))
  BY <1>4, SourceIs
<1>7. reg'["rsp"] = reg["rsp"] /\ reg'["rbp"] = reg["rbp"]
  BY <1>4, Regs
<1>8. Within(p, i, m)'
  <2>1. Within(p, i, m)
    BY DEF ToCall, Within
  <2>2. Keeps(-16) /\ UNCHANGED tty
    BY <1>4, KeepsAll DEF Onward
  <2>3. i \in 1..Len(p) /\ made' \in Nat /\ ShortBefore(p, i) /\ Base' /\ Said(p, i - 1)'
    BY <1>5, <1>7, <2>1, <2>2, BaseKept, QuietSaid DEF Within
  <2> QED BY <2>3 DEF Within, ShortBefore, Argc
<1>9. Ahead(PushCount \o FromArg(p, i, 1))'
  BY <1>3, <1>4, <1>5 DEF Onward
<1>10. Top(-16)' /\ DOMAIN heap' = {}
  BY <1>5, <1>7 DEF ToCall, Top, Word
<1> QED BY <1>5, <1>6, <1>8, <1>9, <1>10 DEF ToCount, PushCount, Argc, Word

LEMMA ToCountStep ==
  ASSUME NEW p, Machine(p), Step, NEW i, NEW m, ToCount(p, i, m)
  PROVE  Goes /\ ToArg(p, i, 1, m)'
<1> USE DEF Machine
<1>0. i \in 1..Len(p) /\ m \in Nat /\ Top(-16) /\ Within(p, i, m)
  BY DEF ToCount, Within
<1>1. Node("push", <<RDI>>) \in Seq(Body) /\ FromArg(p, i, 1) \in Seq(Body) /\ 1 \in 1..(Argc(p, i) + 1)
  <2>1. 1 \in 1..(Argc(p, i) + 1)
    BY <1>0, ProgramIs
  <2> QED BY <1>0, <2>1, RestIn, SmallIn DEF PushCount
<1>2. /\ Inst.inst = "push" /\ Inst.ops = <<REGISTER_X64("rdi")>>
      /\ rip' = rip + 1 /\ asm' = asm => Ahead(FromArg(p, i, 1))'
  BY <1>1, AheadStep DEF RDI, ToCount
<1> DEFINE t == -16
<1>t. t \in Int /\ Top(t) /\ t - 8 = -24 /\ t < 8 /\ t <= -16
  BY <1>0
<1> HIDE DEF t
<1>3. /\ Onward /\ Quietly
      /\ Top(t - 8)'
      /\ \A q \in Reg : q # "rsp" => reg'[q] = reg[q]
      /\ DOMAIN mem' = DOMAIN mem \cup {t - 8}
      /\ t - 8 \in DOMAIN mem' /\ mem'[t - 8] = reg["rdi"]
      /\ \A a \in DOMAIN mem : a # t - 8 => mem'[a] = mem[a]
  <2>1. "rdi" \in Reg
    BY Regs
  <2> QED BY <1>2, <1>t, <2>1, pushIs
<1>4. Goes /\ UNCHANGED <<asm, job, tty, heap, made, written, stdio>>
  BY <1>3, OnwardGoes DEF Onward
<1>5. Within(p, i, m)'
  <2>1. Keeps(t)
    BY <1>3, <1>t, KeepsPush
  <2>2. reg'["rbp"] = reg["rbp"]
    BY <1>3, Regs
  <2> QED BY <1>0, <1>4, <1>t, <2>1, <2>2, WithinKept
<1>6. Ahead(FromArg(p, i, 1))'
  BY <1>2, <1>3, <1>4 DEF Onward
<1>7. Pile(p, i, 0, m)'
  <2>1. Holds(-24, Word("number", Argc(p, i)))'
    BY <1>3, <1>t DEF ToCount, Holds, Argc, Word
  <2>2. Top(-24)' /\ -24 - 8 * 0 = -24
    BY <1>3, <1>t
  <2> QED BY <2>1, <2>2 DEF Pile, Argc
<1>8. Values(p, i, 0, m)' /\ made' = m + 1 - 1
  <2>1. DOMAIN heap' = {} /\ (m + 1)..(m + 0) = {} /\ made' = m /\ m + 1 - 1 = m
    BY <1>0, <1>4 DEF ToCount
  <2> QED BY <2>1 DEF Values
<1>9. 1 - 1 = 0
  OBVIOUS
<1> QED BY <1>1, <1>4, <1>5, <1>6, <1>7, <1>8, <1>9 DEF ToArg, Argc

LEMMA ValuesKept ==
  ASSUME NEW p, NEW i, NEW k, NEW m, Values(p, i, k, m), UNCHANGED <<job, heap>>
  PROVE  Values(p, i, k, m)'
  BY DEF Values, Plain, Backslash, Args

(* An argument.                                                            *)
LEMMA ArgPieces ==
  ASSUME NEW p, Program(p), NEW i \in 1..Len(p), NEW k \in 1..Argc(p, i)
  PROVE  /\ Node("mov", <<Operand1(p, i, k), RDI>>) \in Seq(Body)
         /\ Node("call", <<IDENTIFIER(Maker(p, i, k))>>) \in Seq(Body)
         /\ Node("push", <<RAX>>) \in Seq(Body)
         /\ FromArg(p, i, k + 1) \in Seq(Body)
         /\ Node("push", <<RAX>>) \o FromArg(p, i, k + 1) \in Seq(Body)
         /\ Node("call", <<IDENTIFIER(Maker(p, i, k))>>) \o (Node("push", <<RAX>>) \o FromArg(p, i, k + 1))
              \in Seq(Body)
         /\ k + 1 \in 1..(Argc(p, i) + 1) /\ Argc(p, i) \in Nat /\ k \in Nat /\ k > 0
         /\ k - 1 \in Nat
<1>0. Argc(p, i) \in Nat
  BY ProgramIs
<1>1. k + 1 \in 1..(Argc(p, i) + 1) /\ k \in Nat /\ k > 0 /\ k - 1 \in Nat
  BY <1>0
<1>2. FromArg(p, i, k + 1) \in Seq(Body)
  BY <1>1, RestIn
<1>3. /\ Node("mov", <<Operand1(p, i, k), RDI>>) \in Seq(Body)
      /\ Node("call", <<IDENTIFIER(Maker(p, i, k))>>) \in Seq(Body)
      /\ Node("push", <<RAX>>) \in Seq(Body)
  BY ArgCode
<1> DEFINE a == FromArg(p, i, k + 1)
           b == Node("push", <<RAX>>)
           c == Node("call", <<IDENTIFIER(Maker(p, i, k))>>)
<1>4. a \in Seq(Body) /\ b \in Seq(Body) /\ c \in Seq(Body)
  BY <1>2, <1>3
<1> HIDE DEF a, b, c
<1>5. b \o a \in Seq(Body)
  BY <1>4, CodeAssoc
<1>6. c \o (b \o a) \in Seq(Body)
  BY <1>4, <1>5, CodeAssoc
<1> QED BY <1>0, <1>1, <1>2, <1>3, <1>5, <1>6 DEF a, b, c

LEMMA GivenIs ==
  ASSUME NEW p, NEW i, NEW k
  PROVE  Source(Operand1(p, i, k)) = Given(p, i, k)
<1>1. CASE Args(p, i)[k].type = "int"
  BY <1>1, SourceIs DEF Operand1, Given
<1>2. CASE Args(p, i)[k].type # "int"
  BY <1>2, SourceIs DEF Operand1, Given
<1> QED BY <1>1, <1>2

LEMMA ToArgStep ==
  ASSUME NEW p, Machine(p), Step, NEW i, NEW k, NEW m, ToArg(p, i, k, m), k # Argc(p, i) + 1
  PROVE  Goes /\ ToMake(p, i, k, m)' /\ k \in 1..Argc(p, i)
<1> USE DEF Machine
<1>0. /\ i \in 1..Len(p) /\ m \in Nat /\ Within(p, i, m) /\ k \in 1..Argc(p, i)
      /\ Pile(p, i, k - 1, m) /\ Values(p, i, k - 1, m) /\ made = m + k - 1
  <2>1. i \in 1..Len(p)
    BY DEF ToArg, Within
  <2>2. Argc(p, i) \in Nat
    BY <2>1, ProgramIs
  <2> QED BY <2>1, <2>2 DEF ToArg, Within
<1> DEFINE rest == Node("call", <<IDENTIFIER(Maker(p, i, k))>>) \o (Node("push", <<RAX>>) \o FromArg(p, i, k + 1))
<1>1. Ahead(Node("mov", <<Operand1(p, i, k), RDI>>) \o rest)
  BY <1>0, AtArg DEF ToArg
<1>2. Node("mov", <<Operand1(p, i, k), RDI>>) \in Seq(Body) /\ rest \in Seq(Body) /\ k - 1 \in Nat
  BY <1>0, ArgPieces
<1> HIDE DEF rest
<1>3. /\ Inst.inst = "mov" /\ Inst.ops = <<Operand1(p, i, k), REGISTER_X64("rdi")>>
      /\ rip' = rip + 1 /\ asm' = asm => Ahead(rest)'
  BY <1>1, <1>2, AheadStep DEF RDI
<1>4. /\ Onward /\ Quietly /\ mem' = mem
      /\ reg'["rdi"] = Source(Operand1(p, i, k))
      /\ \A q \in Reg : q # "rdi" => reg'[q] = reg[q]
  <2>1. "rdi" \in Reg
    BY Regs
  <2> QED BY <1>3, <2>1, movIs
<1>5. Goes /\ UNCHANGED <<asm, job, tty, heap, made, written, stdio>>
  BY <1>4, OnwardGoes DEF Onward
<1>6. reg'["rdi"] = Given(p, i, k)
  BY <1>4, GivenIs
<1>7. reg'["rsp"] = reg["rsp"] /\ reg'["rbp"] = reg["rbp"]
  BY <1>4, Regs
<1>8. Within(p, i, m)'
  <2>1. Keeps(-16) /\ -16 <= -16 /\ -16 \in Int
    BY <1>4, KeepsAll
  <2> QED BY <1>0, <1>5, <1>7, <2>1, WithinKept
<1>9. Pile(p, i, k - 1, m)'
  <2>1. Keeps(-24 - 8 * (k - 1))
    BY <1>4, KeepsAll
  <2> QED BY <1>0, <1>2, <1>7, <2>1, PileKept
<1>10. Values(p, i, k - 1, m)'
  BY <1>0, <1>5, ValuesKept
<1>11. Ahead(rest)'
  BY <1>3, <1>4, <1>5 DEF Onward
<1> QED BY <1>0, <1>5, <1>6, <1>8, <1>9, <1>10, <1>11
        DEF ToMake, rest, Maker, FromArg, Args, Argc, Given, Word, FromLoad, LabelOf, FirstLabel

LEMMA ToPushStep ==
  ASSUME NEW p, Machine(p), Step, NEW i, NEW k, NEW m, ToPush(p, i, k, m)
  PROVE  Goes /\ ToArg(p, i, k + 1, m)' /\ k + 1 \in 1..(Argc(p, i) + 1)
<1> USE DEF Machine
<1>0. /\ i \in 1..Len(p) /\ m \in Nat /\ Within(p, i, m) /\ k \in 1..Argc(p, i)
      /\ Pile(p, i, k - 1, m) /\ Values(p, i, k, m) /\ made = m + k /\ reg["rax"] = Word("value", m + k)
  BY DEF ToPush, Within
<1>1. Node("push", <<RAX>>) \in Seq(Body) /\ FromArg(p, i, k + 1) \in Seq(Body)
      /\ k + 1 \in 1..(Argc(p, i) + 1) /\ k \in Nat /\ k - 1 \in Nat /\ k > 0
  BY <1>0, ArgPieces
<1>2. /\ Inst.inst = "push" /\ Inst.ops = <<REGISTER_X64("rax")>>
      /\ rip' = rip + 1 /\ asm' = asm => Ahead(FromArg(p, i, k + 1))'
  BY <1>1, AheadStep DEF RAX, ToPush
<1> DEFINE t == -24 - 8 * (k - 1)
<1>t. t \in Int /\ Top(t) /\ t - 8 = -24 - 8 * k /\ t < 8 /\ t <= -16
  BY <1>0, <1>1 DEF Pile
<1>u. Keeps(t) => Keeps(-24 - 8 * (k - 1))
  OBVIOUS
<1> HIDE DEF t
<1>3. /\ Onward /\ Quietly
      /\ Top(t - 8)'
      /\ \A q \in Reg : q # "rsp" => reg'[q] = reg[q]
      /\ DOMAIN mem' = DOMAIN mem \cup {t - 8}
      /\ t - 8 \in DOMAIN mem' /\ mem'[t - 8] = reg["rax"]
      /\ \A a \in DOMAIN mem : a # t - 8 => mem'[a] = mem[a]
  <2>1. "rax" \in Reg
    BY Regs
  <2> QED BY <1>2, <1>t, <2>1, pushIs
<1>4. Goes /\ UNCHANGED <<asm, job, tty, heap, made, written, stdio>>
  BY <1>3, OnwardGoes DEF Onward
<1>k. Keeps(t)
  BY <1>3, <1>t, KeepsPush
<1>5. Within(p, i, m)'
  <2>2. reg'["rbp"] = reg["rbp"]
    BY <1>3, Regs
  <2> QED BY <1>0, <1>4, <1>t, <1>k, <2>2, WithinKept
<1>6. Ahead(FromArg(p, i, k + 1))'
  BY <1>2, <1>3, <1>4 DEF Onward
<1>7. Pile(p, i, k, m)'
  <2>1. /\ Holds(-24, Word("number", Argc(p, i)))'
        /\ \A j \in 1..(k - 1) : Holds(-24 - 8 * j, Word("value", m + j))'
    BY <1>0, <1>1, <1>k, <1>u, PileKept
  <2>2. Holds(-24 - 8 * k, Word("value", m + k))'
    BY <1>0, <1>3, <1>t DEF Holds, Word
  <2>3. \A j \in 1..k : j \in 1..(k - 1) \/ j = k
    BY <1>1
  <2>4. \A j \in 1..k : Holds(-24 - 8 * j, Word("value", m + j))'
    BY <2>1, <2>2, <2>3
  <2>5. Top(-24 - 8 * k)'
    BY <1>3, <1>t
  <2> QED BY <2>1, <2>4, <2>5 DEF Pile
<1>8. Values(p, i, k, m)' /\ made' = m + (k + 1) - 1 /\ (k + 1) - 1 = k
  <2>1. m + (k + 1) - 1 = m + k /\ (k + 1) - 1 = k
    BY <1>0, <1>1
  <2> QED BY <1>0, <1>4, <2>1, ValuesKept
<1> QED BY <1>1, <1>4, <1>5, <1>6, <1>7, <1>8 DEF ToArg, Argc

LEMMA ToMakeStep ==
  ASSUME NEW p, Machine(p), Step, NEW i, NEW k, NEW m, ToMake(p, i, k, m)
  PROVE  Goes /\ ToPush(p, i, k, m)'
<1> USE DEF Machine
<1> DEFINE x    == Args(p, i)[k]
           rest == Node("push", <<RAX>>) \o FromArg(p, i, k + 1)
<1>0. /\ i \in 1..Len(p) /\ m \in Nat /\ Within(p, i, m) /\ k \in 1..Argc(p, i)
      /\ Pile(p, i, k - 1, m) /\ Values(p, i, k - 1, m) /\ made = m + k - 1
      /\ reg["rdi"] = Given(p, i, k)
  BY DEF ToMake, Within
<1>1. Node("call", <<IDENTIFIER(Maker(p, i, k))>>) \in Seq(Body) /\ rest \in Seq(Body)
      /\ k \in Nat /\ k - 1 \in Nat /\ k > 0
  BY <1>0, ArgPieces
<1>2. /\ Inst.inst = "call" /\ Inst.ops = <<IDENTIFIER(Maker(p, i, k))>>
      /\ rip' = rip + 1 /\ asm' = asm => Ahead(rest)'
  <2>1. Ahead(Node("call", <<IDENTIFIER(Maker(p, i, k))>>) \o rest)
    BY DEF ToMake
  <2> HIDE DEF rest
  <2> QED BY <1>1, <2>1, AheadStep
<1> DEFINE c == Maker(p, i, k)
<1>3. c \in {"libblaze_val_create_intval", "libblaze_val_create_strval"} /\ Inst.ops = <<IDENTIFIER(c)>>
  BY <1>2 DEF Maker
<1> HIDE DEF c
<1>4. /\ UNCHANGED <<driver, tty, run, written, stdio>> /\ Returns(Word("value", made + 1))
      /\ made' = made + 1
      /\ DOMAIN heap' = DOMAIN heap \cup {made + 1}
      /\ \A h \in DOMAIN heap : h # made + 1 => heap'[h] = heap[h]
      /\ c = "libblaze_val_create_intval" => heap'[made + 1] = [type |-> "int", val |-> reg["rdi"].n]
      /\ c = "libblaze_val_create_strval" =>
           heap'[made + 1] =
             [type |-> "string",
              val |-> ReadString(asm.data[CHOOSE d \in DOMAIN asm.data :
                                            asm.data[d].label = reg["rdi"].n].param).chars]
  BY <1>2, <1>3, createIs
<1>m. made + 1 = m + k /\ made' \in Nat
  <2>1. m \in Nat /\ made = m + k - 1 /\ made' = made + 1
    BY <1>0, <1>4
  <2> QED BY ONLY <1>1, <2>1
<1>5. /\ DOMAIN reg' = Reg /\ reg'["rax"] = Word("value", made + 1)
      /\ reg'["rsp"] = reg["rsp"] /\ reg'["rbp"] = reg["rbp"] /\ rip' = rip + 1
      /\ Keeps(-24 - 8 * (k - 1))
  <2> DEFINE t == -24 - 8 * (k - 1)
  <2>1. t \in Int /\ Top(t)
    BY <1>0, <1>1 DEF Pile
  <2> HIDE DEF t
  <2>2. /\ DOMAIN reg' = Reg /\ reg'["rax"] = Word("value", made + 1)
        /\ reg'["rsp"] = reg["rsp"] /\ reg'["rbp"] = reg["rbp"] /\ rip' = rip + 1 /\ Keeps(t)
    BY <1>4, <2>1, ReturnsIs, KeepsReturns
  <2> QED BY <2>2 DEF t
<1>6. Goes /\ UNCHANGED <<asm, job, tty, written, stdio>>
  BY <1>4, <1>5, <1>m DEF Goes, driver
<1>7. Within(p, i, m)'
  <2> DEFINE t == -24 - 8 * (k - 1)
  <2>1. t \in Int /\ t <= -16
    BY <1>1
  <2>2. Keeps(t)
    BY <1>5
  <2> HIDE DEF t
  <2> QED BY <1>0, <1>5, <1>6, <2>1, <2>2, WithinKept
<1>8. Pile(p, i, k - 1, m)'
  BY <1>0, <1>1, <1>5, PileKept
<1>9. Ahead(rest)'
  BY <1>2, <1>5, <1>6
<1>10. Plain => heap'[m + k] = x
  <2>1. CASE x.type = "int"
    <3>1. c = "libblaze_val_create_intval" /\ reg["rdi"].n = x.val
      <4>1. c = "libblaze_val_create_intval"
        BY <2>1 DEF c, Maker
      <4>2. reg["rdi"] = Word("number", x.val)
        BY <1>0, <2>1 DEF Given
      <4> QED BY <4>1, <4>2, WordIs
    <3>2. x = [type |-> "int", val |-> x.val]
      <4>1. x \in Argument
        BY <1>0, ProgramIs
      <4> HIDE DEF x
      <4> QED BY <2>1, <4>1 DEF Argument
    <3> QED BY <1>4, <1>m, <3>1, <3>2
  <2>2. CASE x.type # "int"
    <3>1. c = "libblaze_val_create_strval" /\ reg["rdi"].n = LabelOf(p, i, k)
      <4>1. c = "libblaze_val_create_strval"
        BY <2>2 DEF c, Maker
      <4>2. reg["rdi"] = Word("label", LabelOf(p, i, k))
        BY <1>0, <2>2 DEF Given
      <4> QED BY <4>1, <4>2, WordIs
    <3>2. x \in Argument /\ x.type = "string"
      BY <1>0, <2>2, ProgramIs
    <3>3. x = [type |-> "string", val |-> x.val]
      <4> HIDE DEF x
      <4> QED BY <3>2 DEF Argument
    <3>4. ASSUME Plain
          PROVE  ReadAt(LabelOf(p, i, k)) = x.val
      <4>1. asm.data = asm_data(p)
        BY DEF compilation_context
      <4>2. Program(p) /\ p = job.prog /\ i \in 1..Len(p) /\ k \in 1..Argc(p, i)
        BY <1>0
      <4> QED BY ONLY <3>2, <3>4, <4>1, <4>2, StringAt DEF x
    <3>5. ASSUME Plain
          PROVE  ReadString(asm.data[CHOOSE d \in DOMAIN asm.data :
                                       asm.data[d].label = LabelOf(p, i, k)].param).chars = x.val
      <4> HIDE DEF x
      <4> QED BY <3>4, <3>5, Zenon DEF ReadAt
    <3> QED BY <1>4, <1>m, <3>1, <3>3, <3>5
  <2> QED BY <2>1, <2>2
<1>11. Values(p, i, k, m)'
  <2>1. DOMAIN heap' = (m + 1)..(m + k)
    <3>1. DOMAIN heap = (m + 1)..(m + (k - 1))
      BY <1>0 DEF Values
    <3>2. DOMAIN heap' = DOMAIN heap \cup {m + k} /\ m \in Nat
      BY <1>0, <1>4, <1>m
    <3> QED BY ONLY <1>1, <3>1, <3>2
  <2>2. ASSUME Plain, NEW j \in 1..k PROVE heap'[m + j] = Args(p, i)[j]
    <3>1. CASE j = k
      BY <1>10, <2>2, <3>1
    <3>2. CASE j # k
      <4>1. j \in 1..(k - 1) /\ m + j # m + k /\ m + j \in (m + 1)..(m + (k - 1))
        BY <1>0, <1>1, <3>2
      <4>2. heap[m + j] = Args(p, i)[j] /\ m + j \in DOMAIN heap
        BY <1>0, <2>2, <4>1 DEF Values
      <4> QED BY <1>4, <1>m, <4>1, <4>2
    <3> QED BY <3>1, <3>2
  <2>3. Plain' <=> Plain
    BY <1>6 DEF Plain, Backslash
  <2> QED BY <2>1, <2>2, <2>3 DEF Values, Args
<1>12. made' = m + k /\ reg'["rax"] = Word("value", m + k)
  BY <1>4, <1>5, <1>m
<1> QED BY <1>0, <1>6, <1>7, <1>8, <1>9, <1>11, <1>12 DEF ToPush, rest, FromArg, Args, Argc, Word, FromLoad

(* The registers of the call of println.                                   *)
LEMMA ArgDone ==
  ASSUME NEW p, Machine(p), NEW i, NEW m, ToArg(p, i, Argc(p, i) + 1, m)
  PROVE  ToLoad(p, i, 1, m)
<1> USE DEF Machine
<1>0. i \in 1..Len(p) /\ m \in Nat
  BY DEF ToArg, Within
<1>1. Argc(p, i) \in Nat /\ Loaded(p, i) \in 1..6
  BY <1>0, ProgramIs, LoadCode
<1>2. Argc(p, i) + 1 - 1 = Argc(p, i) /\ m + (Argc(p, i) + 1) - 1 = m + Argc(p, i)
      /\ 1 \in 1..(Loaded(p, i) + 1)
  BY ONLY <1>0, <1>1
<1>3. FromArg(p, i, Argc(p, i) + 1) = FromLoad(p, i, 1)
  BY <1>0, AtArg
<1>4. InRegisters(1, m)
  BY DEF InRegisters
<1> DEFINE k == Argc(p, i) + 1
<1>5. /\ Ahead(FromArg(p, i, k)) /\ Within(p, i, m)
      /\ Pile(p, i, k - 1, m) /\ Values(p, i, k - 1, m) /\ made = m + k - 1
  BY DEF ToArg
<1>k. k = Argc(p, i) + 1 /\ FromArg(p, i, k) = FromLoad(p, i, 1)
  BY <1>3
<1> HIDE DEF k
<1>6. k - 1 = Argc(p, i) /\ m + k - 1 = m + Argc(p, i) /\ FromArg(p, i, k) = FromLoad(p, i, 1)
  <2>1. k - 1 = Argc(p, i) /\ m + k - 1 = m + Argc(p, i)
    <3>1. k = Argc(p, i) + 1
      BY <1>k
    <3> QED BY ONLY <1>0, <1>1, <3>1
  <2> QED BY <1>k, <2>1
<1>7. ~(1 > 1)
  OBVIOUS
<1> QED BY ONLY <1>2, <1>4, <1>5, <1>6, <1>7 DEF ToLoad

LEMMA LoadPieces ==
  ASSUME NEW p, Program(p), NEW i \in 1..Len(p), NEW l \in 1..Loaded(p, i)
  PROVE  /\ Node("mov", <<REGISTER_OFFSET(-8 * l, "rbp"), REGISTER_X64(ArgRegister[l])>>) \in Seq(Body)
         /\ FromLoad(p, i, l + 1) \in Seq(Body)
         /\ l + 1 \in 1..(Loaded(p, i) + 1) /\ l \in 1..6 /\ l \in Int /\ l <= Argc(p, i) + 1
         /\ Argc(p, i) \in Nat
<1>1. Loaded(p, i) \in 1..6 /\ Loaded(p, i) <= Argc(p, i) + 1 /\ Argc(p, i) \in Nat
  BY LoadCode, ProgramIs
<1>2. l + 1 \in 1..(Loaded(p, i) + 1) /\ l \in 1..6 /\ l \in Int /\ l <= Argc(p, i) + 1
  BY ONLY <1>1, l \in 1..Loaded(p, i)
<1>3. FromLoad(p, i, l + 1) \in Seq(Body)
  BY <1>2, RestIn
<1>4. Node("mov", <<REGISTER_OFFSET(-8 * l, "rbp"), REGISTER_X64(ArgRegister[l])>>) \in Seq(Body)
  <2>1. ArgRegister[l] \in Registers /\ -8 * l \in Int
    BY <1>2, NamesIn
  <2>2. REGISTER_OFFSET(-8 * l, "rbp") \in Operands /\ REGISTER_X64(ArgRegister[l]) \in Operands
    BY <2>1, NamesIn, OperandsIn
  <2> QED BY <2>2, BodyNodes
<1> QED BY <1>1, <1>2, <1>3, <1>4

LEMMA LoadStep ==
  ASSUME NEW p, Machine(p), Step, NEW i \in 1..Len(p), NEW l \in 1..Loaded(p, i),
         Ahead(FromLoad(p, i, l)), reg["rbp"] = Word("stack", -16)
  PROVE  /\ Onward /\ Quietly /\ mem' = mem /\ Ahead(FromLoad(p, i, l + 1))'
         /\ reg'[ArgRegister[l]] = Load(Word("stack", -16 - 8 * l))
         /\ \A q \in Reg : q # ArgRegister[l] => reg'[q] = reg[q]
<1> USE DEF Machine
<1> DEFINE src == REGISTER_OFFSET(-8 * l, "rbp")
           r   == ArgRegister[l]
<1>1. /\ Node("mov", <<src, REGISTER_X64(r)>>) \in Seq(Body) /\ FromLoad(p, i, l + 1) \in Seq(Body)
      /\ l \in 1..6 /\ l \in Int
  BY LoadPieces
<1>2. Ahead(Node("mov", <<src, REGISTER_X64(r)>>) \o FromLoad(p, i, l + 1))
  BY AtLoad
<1>3. r \in Reg
  BY <1>1, Regs
<1>4. Source(src) = Load(Word("stack", -16 - 8 * l))
  <2>1. Source(src) = Load(Below(reg["rbp"], -8 * l))
    BY SourceIs
  <2>2. Below(Word("stack", -16), -8 * l) = Word("stack", -16 + (-8 * l)) /\ -16 + (-8 * l) = -16 - 8 * l
    BY <1>1, WordIs
  <2> QED BY <2>1, <2>2
<1> HIDE DEF src, r
<1>5. /\ Inst.inst = "mov" /\ Inst.ops = <<src, REGISTER_X64(r)>>
      /\ rip' = rip + 1 /\ asm' = asm => Ahead(FromLoad(p, i, l + 1))'
  BY <1>1, <1>2, AheadStep
<1>6. /\ Onward /\ Quietly /\ mem' = mem /\ reg'[r] = Source(src)
      /\ \A q \in Reg : q # r => reg'[q] = reg[q]
  BY <1>3, <1>5, movIs
<1>7. Ahead(FromLoad(p, i, l + 1))'
  BY <1>5, <1>6 DEF Onward, driver
<1> QED BY <1>4, <1>6, <1>7 DEF r

LEMMA ToLoadStep ==
  ASSUME NEW p, Machine(p), Step, NEW i, NEW l, NEW m, ToLoad(p, i, l, m), l # Loaded(p, i) + 1
  PROVE  Goes /\ ToLoad(p, i, l + 1, m)' /\ l + 1 \in 1..(Loaded(p, i) + 1)
<1> USE DEF Machine
<1> DEFINE K == Argc(p, i)
<1>0. /\ i \in 1..Len(p) /\ m \in Nat /\ Within(p, i, m) /\ l \in 1..(Loaded(p, i) + 1)
      /\ Pile(p, i, K, m) /\ Values(p, i, K, m) /\ made = m + K
      /\ (l > 1 => reg["rdi"] = Word("number", K)) /\ InRegisters(l, m)
      /\ Ahead(FromLoad(p, i, l)) /\ reg["rbp"] = Word("stack", -16)
  BY DEF ToLoad, Within, Base
<1>1. l \in 1..Loaded(p, i)
  <2>1. Loaded(p, i) \in 1..6 /\ l \in 1..(Loaded(p, i) + 1)
    BY <1>0, LoadCode
  <2> QED BY ONLY <2>1, l # Loaded(p, i) + 1
<1>2. l + 1 \in 1..(Loaded(p, i) + 1) /\ l \in 1..6 /\ l \in Int /\ l <= K + 1 /\ K \in Nat
  BY <1>0, <1>1, LoadPieces
<1> HIDE DEF K
<1>3. /\ Onward /\ Quietly /\ mem' = mem /\ Ahead(FromLoad(p, i, l + 1))'
      /\ reg'[ArgRegister[l]] = Load(Word("stack", -16 - 8 * l))
      /\ \A q \in Reg : q # ArgRegister[l] => reg'[q] = reg[q]
  BY <1>0, <1>1, LoadStep
<1>4. Goes /\ UNCHANGED <<asm, job, tty, heap, made, written, stdio>>
  BY <1>3, OnwardGoes DEF Onward
<1>5. reg'["rsp"] = reg["rsp"] /\ reg'["rbp"] = reg["rbp"]
  BY <1>2, <1>3, Regs
<1>6. Within(p, i, m)'
  <2>1. Keeps(-16) /\ -16 <= -16 /\ -16 \in Int
    BY <1>3, KeepsAll
  <2> QED BY <1>0, <1>4, <1>5, <2>1, WithinKept
<1>7. Pile(p, i, K, m)'
  <2>1. Keeps(-24 - 8 * K)
    BY <1>3, KeepsAll
  <2> QED BY <1>0, <1>2, <1>5, <2>1, PileKept
<1>8. Values(p, i, K, m)'
  BY <1>0, <1>4, ValuesKept
<1>9. reg'["rdi"] = Word("number", K)
  <2>1. CASE l = 1
    <3>1. Holds(-24, Word("number", K)) /\ -16 - 8 * l = -24
      BY <1>0, <2>1 DEF Pile, K
    <3>2. -24 \in Int
      OBVIOUS
    <3>3. Load(Word("stack", -24)) = Word("number", K)
      BY <3>1, <3>2, LoadIs
    <3>4. ArgRegister[l] = "rdi"
      BY <2>1, Regs
    <3> QED BY <1>3, <3>1, <3>3, <3>4
  <2>2. CASE l # 1
    <3>1. l \in 2..6 /\ l > 1
      BY ONLY <1>2, <2>2
    <3>2. ArgRegister[l] # "rdi" /\ "rdi" \in Reg
      BY <3>1, Regs
    <3> QED BY <1>0, <1>3, <3>1, <3>2
  <2> QED BY <2>1, <2>2
<1>10. InRegisters(l + 1, m)'
  <2>1. ASSUME NEW j \in 1..(l - 1) PROVE reg'[ArgRegister[j + 1]] = Word("value", m + j)
    <3>1. CASE j = l - 1
      <4>1. j + 1 = l /\ -16 - 8 * l = -24 - 8 * j /\ j \in 1..K /\ -24 - 8 * j \in Int
        BY ONLY <1>2, <2>1, <3>1
      <4>2. Holds(-24 - 8 * j, Word("value", m + j))
        BY <1>0, <4>1 DEF Pile
      <4>3. Load(Word("stack", -24 - 8 * j)) = Word("value", m + j)
        BY <4>1, <4>2, LoadIs
      <4> QED BY <1>3, <4>1, <4>3
    <3>2. CASE j # l - 1
      <4>1. j \in 1..(l - 2) /\ j + 1 \in 1..6 /\ j + 1 # l
        BY ONLY <1>2, <2>1, <3>2
      <4>2. reg[ArgRegister[j + 1]] = Word("value", m + j)
        BY <1>0, <4>1 DEF InRegisters
      <4>3. ArgRegister[j + 1] # ArgRegister[l] /\ ArgRegister[j + 1] \in Reg
        BY <1>2, <4>1, Regs
      <4> QED BY <1>3, <4>2, <4>3
    <3> QED BY <3>1, <3>2
  <2>2. (l + 1) - 2 = l - 1
    BY <1>2
  <2> QED BY <2>1, <2>2 DEF InRegisters
<1>11. made' = m + K
  BY <1>0, <1>4
<1> QED BY <1>2, <1>3, <1>4, <1>6, <1>7, <1>8, <1>9, <1>10, <1>11 DEF ToLoad, K, Argc, Word, Loaded

(* println finds its arguments, in the registers and on the stack.         *)
LEMMA ArgumentsFound ==
  ASSUME NEW p, Machine(p), NEW i, NEW m, ToLoad(p, i, Loaded(p, i) + 1, m),
         NEW j \in 1..Argc(p, i)
  PROVE  /\ j <= 5 => va_arg(j) = Word("value", m + j)
         /\ \E s \in 1..Argc(p, i) : va_arg(j) = Word("value", m + s)
<1> USE DEF Machine
<1> DEFINE K == Argc(p, i)
           L == Loaded(p, i)
<1>0. i \in 1..Len(p) /\ m \in Nat /\ Pile(p, i, K, m) /\ InRegisters(L + 1, m)
  BY DEF ToLoad, Within
<1>1. K \in Nat /\ L = (IF K + 1 <= 6 THEN K + 1 ELSE 6)
  BY <1>0, ProgramIs DEF Loaded
<1>j. j \in 1..K
  OBVIOUS
<1> HIDE DEF K, L
<1>2. CASE j <= 5
  <2>1. j \in 1..((L + 1) - 2)
    <3>1. CASE K + 1 <= 6
      BY ONLY <1>1, <1>2, <1>j, <3>1
    <3>2. CASE ~(K + 1 <= 6)
      BY ONLY <1>1, <1>2, <1>j, <3>2
    <3> QED BY <3>1, <3>2
  <2>2. va_arg(j) = Word("value", m + j)
    BY <1>0, <1>2, <2>1 DEF InRegisters, va_arg
  <2> QED BY <1>2, <1>j, <2>2 DEF K
<1>3. CASE ~(j <= 5)
  <2> DEFINE s == K - j + 6
             t == -24 - 8 * K
  <2>1. s \in 1..K /\ t \in Int /\ 8 * (j - 6) \in Int /\ t + 8 * (j - 6) = -24 - 8 * s /\ -24 - 8 * s \in Int
    BY ONLY <1>1, <1>3, <1>j
  <2>2. reg["rsp"] = Word("stack", t) /\ Holds(-24 - 8 * s, Word("value", m + s))
    BY <1>0, <2>1 DEF Pile, Top
  <2> HIDE DEF s, t
  <2>3. Below(reg["rsp"], 8 * (j - 6)) = Word("stack", -24 - 8 * s)
    <3>1. Below(Word("stack", t), 8 * (j - 6)) = Word("stack", t + 8 * (j - 6))
      BY ONLY <2>1, WordIs
    <3> QED BY <2>1, <2>2, <3>1
  <2>4. Load(Word("stack", -24 - 8 * s)) = Word("value", m + s)
    BY <2>1, <2>2, LoadIs
  <2>5. va_arg(j) = Word("value", m + s)
    BY <1>3, <2>3, <2>4 DEF va_arg
  <2> QED BY <1>3, <2>1, <2>5 DEF K
<1> QED BY <1>2, <1>3

LEMMA PrintStep ==
  ASSUME NEW p, Machine(p), Step, NEW i, NEW m, ToLoad(p, i, Loaded(p, i) + 1, m)
  PROVE  Goes /\ ToFree(p, i, Argc(p, i), m)'
<1> USE DEF Machine
<1> DEFINE K == Argc(p, i)
<1>0. /\ i \in 1..Len(p) /\ m \in Nat /\ Within(p, i, m)
      /\ Pile(p, i, K, m) /\ Values(p, i, K, m)
      /\ Ahead(FromLoad(p, i, Loaded(p, i) + 1))
  BY DEF ToLoad, Within
<1>1. K \in Nat /\ Loaded(p, i) + 1 > 1
  <2>1. Loaded(p, i) \in 1..6
    BY <1>0, LoadCode
  <2> QED BY <1>0, <2>1, ProgramIs
<1>2. reg["rdi"] = Word("number", K)
  BY <1>1 DEF ToLoad
<1>3. CallPrintln \in Seq(Body) /\ FromFree(p, i, 1) \in Seq(Body)
  <2>1. 1 \in 1..(Argc(p, i) + 1)
    BY <1>1
  <2> QED BY <1>0, <2>1, RestIn, SmallIn
<1>4. /\ Inst.inst = "call" /\ Inst.ops = <<IDENTIFIER("libblaze_fn_println")>>
      /\ rip' = rip + 1 /\ asm' = asm => Ahead(FromFree(p, i, 1))'
  <2>1. Ahead(CallPrintln \o FromFree(p, i, 1))
    BY <1>0, AtLoad
  <2> QED BY <1>3, <2>1, AheadStep DEF CallPrintln
<1>5. \A j \in 1..K : /\ j <= 5 => va_arg(j) = Word("value", m + j)
                      /\ \E s \in 1..K : va_arg(j) = Word("value", m + s)
  BY ArgumentsFound
<1> HIDE DEF K
<1>6. Sound
  <2>1. reg["rdi"].kind = "number" /\ reg["rdi"].n = K
    BY ONLY <1>2, WordIs
  <2>2. ASSUME NEW j \in 1..K PROVE va_arg(j).kind = "value" /\ va_arg(j).n \in DOMAIN heap
    <3>1. PICK s \in 1..K : va_arg(j) = Word("value", m + s)
      BY <1>5
    <3>2. va_arg(j).kind = "value" /\ va_arg(j).n = m + s
      BY ONLY <3>1 DEF Word
    <3>3. m + s \in (m + 1)..(m + K)
      BY <1>0, <1>1
    <3> QED BY <1>0, <3>2, <3>3 DEF Values
  <2> QED BY <2>1, <2>2 DEF Sound
<1> DEFINE v == [j \in 1..reg["rdi"].n |-> heap[va_arg(j).n]]
<1>7. Write(println(v)) /\ Returns(Junk) /\ UNCHANGED <<driver, tty, heap, made, run>>
  BY <1>4, <1>6, printlnIs
<1>8. K <= 5 /\ Plain => v = Args(p, i)
  <2> SUFFICES ASSUME K <= 5, Plain PROVE v = Args(p, i)
    OBVIOUS
  <2>1. reg["rdi"].n = K
    BY ONLY <1>2, WordIs
  <2>2. ASSUME NEW j \in 1..K PROVE heap[va_arg(j).n] = Args(p, i)[j]
    <3>1. j <= 5
      BY <1>1
    <3>2. va_arg(j).n = m + j
      <4>1. va_arg(j) = Word("value", m + j)
        BY <1>5, <3>1
      <4> QED BY ONLY <4>1 DEF Word
    <3> QED BY <1>0, <3>2 DEF Values
  <2>3. Args(p, i) = [j \in 1..K |-> Args(p, i)[j]]
    <3>1. Args(p, i) \in Seq(Argument) /\ DOMAIN Args(p, i) = 1..K
      BY <1>0, ProgramIs DEF K
    <3> DEFINE a == Args(p, i)
    <3> HIDE DEF a
    <3>2. a \in Seq(Argument) => a = [j \in DOMAIN a |-> a[j]]
      OBVIOUS
    <3> QED BY <3>1, <3>2 DEF a
  <2>4. v = [j \in 1..K |-> Args(p, i)[j]]
    BY <2>1, <2>2
  <2> HIDE DEF v
  <2> QED BY <2>3, <2>4
<1> HIDE DEF v
<1>9. /\ DOMAIN reg' = Reg /\ reg'["rsi"] = Junk
      /\ reg'["rsp"] = reg["rsp"] /\ reg'["rbp"] = reg["rbp"] /\ rip' = rip + 1
      /\ Keeps(-24 - 8 * K)
  <2> DEFINE t == -24 - 8 * K
  <2>1. t \in Int /\ Top(t)
    BY <1>0, <1>1 DEF Pile
  <2> HIDE DEF t
  <2>2. /\ DOMAIN reg' = Reg /\ \A q \in Reg : q \notin {"rax", "rsp", "rbp"} => reg'[q] = Junk
        /\ reg'["rsp"] = reg["rsp"] /\ reg'["rbp"] = reg["rbp"] /\ rip' = rip + 1 /\ Keeps(t)
    BY <1>7, <2>1, ReturnsIs, KeepsReturns
  <2>3. "rsi" \in Reg /\ "rsi" \notin {"rax", "rsp", "rbp"}
    BY Regs
  <2> QED BY <2>2, <2>3 DEF t
<1>10. Goes /\ UNCHANGED <<asm, job, tty, heap>>
  BY <1>7, <1>9 DEF Goes, driver
<1>11. Ahead(FromFree(p, i, 1))'
  BY <1>4, <1>9, <1>10
<1>12. Base'
  <2> DEFINE t == -24 - 8 * K
  <2>1. t \in Int /\ t <= -16 /\ Keeps(t)
    BY <1>1, <1>9
  <2> HIDE DEF t
  <2> QED BY <1>0, <1>9, <2>1, BaseKept DEF Within
<1>13. K <= 5 => Said(p, i)'
  <2> SUFFICES ASSUME K <= 5 PROVE Said(p, i)'
    OBVIOUS
  <2>1. Said(p, i - 1) /\ (Plain => v = Args(p, i))
    BY <1>0, <1>8 DEF Within
  <2> QED BY <1>0, <1>7, <1>10, <2>1, SaidMore
<1>14. After(p, i)'
  BY <1>0, <1>12, <1>13 DEF After, Within, ShortBefore, Argc, K
<1>15. Pile(p, i, K, m)'
  BY <1>0, <1>1, <1>9, PileKept
<1>16. DOMAIN heap' = (m + 1)..(m + K)
  BY <1>0, <1>10 DEF Values
<1>17. K + 1 - K = 1 /\ K \in 0..K
  BY <1>1
<1> QED BY <1>0, <1>9, <1>10, <1>11, <1>14, <1>15, <1>16, <1>17 DEF ToFree, K, Argc, FromFree

(* The values are freed, the last one pushed first.                        *)
LEMMA FreePieces ==
  ASSUME NEW p, Program(p), NEW i \in 1..Len(p), NEW f \in 1..Argc(p, i)
  PROVE  /\ Node("pop", <<RDI>>) \in Seq(Body)
         /\ Node("call", <<IDENTIFIER("libblaze_val_free")>>) \in Seq(Body)
         /\ FromFree(p, i, f + 1) \in Seq(Body)
         /\ Node("call", <<IDENTIFIER("libblaze_val_free")>>) \o FromFree(p, i, f + 1) \in Seq(Body)
<1>1. f + 1 \in 1..(Argc(p, i) + 1)
  BY ProgramIs
<1> DEFINE a == FromFree(p, i, f + 1)
           b == Node("call", <<IDENTIFIER("libblaze_val_free")>>)
<1>2. a \in Seq(Body) /\ b \in Seq(Body) /\ Node("pop", <<RDI>>) \in Seq(Body)
  BY <1>1, RestIn, FreeCode
<1> HIDE DEF a, b
<1>3. b \o a \in Seq(Body)
  BY <1>2, CodeAssoc
<1> QED BY <1>2, <1>3 DEF a, b

LEMMA ToFreeStep ==
  ASSUME NEW p, Machine(p), Step, NEW i, NEW k, NEW m, ToFree(p, i, k, m), k # 0
  PROVE  Goes /\ ToDrop(p, i, k - 1, m)' /\ k - 1 \in 0..Argc(p, i)
<1> USE DEF Machine
<1> DEFINE K == Argc(p, i)
           f == K + 1 - k
           rest == Node("call", <<IDENTIFIER("libblaze_val_free")>>) \o FromFree(p, i, f + 1)
<1>0. /\ i \in 1..Len(p) /\ m \in Nat /\ k \in 0..K /\ After(p, i) /\ Pile(p, i, k, m)
      /\ DOMAIN heap = (m + 1)..(m + k) /\ Ahead(FromFree(p, i, f))
  BY DEF ToFree, After
<1>1. K \in Nat
  BY <1>0, ProgramIs
<1>2. k \in 1..K /\ k - 1 \in 0..(K - 1) /\ k - 1 \in 0..K /\ k \in Nat /\ k - 1 \in Nat
      /\ f \in 1..K /\ f + 1 = K + 1 - (k - 1)
  BY ONLY <1>0, <1>1, k # 0
<1>3. Node("pop", <<RDI>>) \in Seq(Body) /\ rest \in Seq(Body)
  BY <1>0, <1>2, FreePieces
<1>4. Ahead(Node("pop", <<RDI>>) \o rest)
  BY <1>0, <1>2, AtFree
<1> HIDE DEF rest, f, K
<1>5. /\ Inst.inst = "pop" /\ Inst.ops = <<REGISTER_X64("rdi")>>
      /\ rip' = rip + 1 /\ asm' = asm => Ahead(rest)'
  BY <1>3, <1>4, AheadStep DEF RDI
<1> DEFINE t == -24 - 8 * k
<1>t. t \in Int /\ Top(t) /\ t + 8 = -24 - 8 * (k - 1)
  BY <1>0, <1>2 DEF Pile
<1>u. Holds(t, Word("value", m + k))
  BY <1>0, <1>2 DEF Pile
<1> HIDE DEF t
<1>6. /\ Onward /\ Quietly /\ mem' = mem
      /\ Top(t + 8)' /\ reg'["rdi"] = Load(Word("stack", t))
      /\ \A q \in Reg : q # "rsp" /\ q # "rdi" => reg'[q] = reg[q]
  <2>1. "rdi" \in Reg \ {"rsp"}
    BY Regs
  <2> QED BY <1>5, <1>t, <2>1, popIs
<1>7. reg'["rdi"] = Word("value", m + k)
  BY <1>6, <1>t, <1>u, LoadIs
<1>8. Goes /\ UNCHANGED <<asm, job, tty, heap, made, written, stdio>>
  BY <1>6, OnwardGoes DEF Onward
<1>9. reg'["rbp"] = reg["rbp"]
  BY <1>6, Regs
<1>10. After(p, i)'
  <2>1. Keeps(-16) /\ -16 <= -16 /\ -16 \in Int
    BY <1>6, KeepsAll
  <2> QED BY <1>0, <1>8, <1>9, <2>1, AfterKept
<1>11. Pile(p, i, k - 1, m)'
  <2>1. /\ Holds(-24, Word("number", K))'
        /\ \A j \in 1..k : Holds(-24 - 8 * j, Word("value", m + j))'
    <3>1. Keeps(-24 - 8 * k)
      BY <1>6, KeepsAll
    <3> QED BY <1>0, <1>2, <3>1, PileKept DEF K
  <2>2. \A j \in 1..(k - 1) : j \in 1..k
    BY <1>2
  <2>3. Top(-24 - 8 * (k - 1))'
    BY <1>6, <1>t
  <2> QED BY <2>1, <2>2, <2>3 DEF Pile, K, Argc
<1>12. Ahead(rest)'
  BY <1>5, <1>6, <1>8 DEF Onward
<1>13. DOMAIN heap' = (m + 1)..(m + (k - 1) + 1) /\ m + (k - 1) + 1 = m + k
  BY <1>0, <1>2, <1>8
<1> QED BY <1>0, <1>2, <1>7, <1>8, <1>10, <1>11, <1>12, <1>13 DEF ToDrop, rest, K, Argc, FromFree, Word

LEMMA ToDropStep ==
  ASSUME NEW p, Machine(p), Step, NEW i, NEW k, NEW m, ToDrop(p, i, k, m)
  PROVE  Goes /\ ToFree(p, i, k, m)' /\ k \in 0..Argc(p, i)
<1> USE DEF Machine
<1> DEFINE K == Argc(p, i)
           f == K + 1 - k
           rest == FromFree(p, i, f)
<1>0. /\ i \in 1..Len(p) /\ m \in Nat /\ k \in 0..(K - 1) /\ After(p, i) /\ Pile(p, i, k, m)
      /\ DOMAIN heap = (m + 1)..(m + k + 1) /\ reg["rdi"] = Word("value", m + k + 1)
      /\ Ahead(Node("call", <<IDENTIFIER("libblaze_val_free")>>) \o rest)
  BY DEF ToDrop, After
<1>1. K \in Nat
  BY <1>0, ProgramIs
<1>2. k \in 0..K /\ k \in Nat /\ f \in 1..(K + 1) /\ 1 \in 1..K
  BY ONLY <1>0, <1>1
<1>3. Node("call", <<IDENTIFIER("libblaze_val_free")>>) \in Seq(Body) /\ rest \in Seq(Body)
  BY <1>0, <1>2, FreePieces, RestIn
<1> HIDE DEF rest, f, K
<1>4. /\ Inst.inst = "call" /\ Inst.ops = <<IDENTIFIER("libblaze_val_free")>>
      /\ rip' = rip + 1 /\ asm' = asm => Ahead(rest)'
  BY <1>0, <1>3, AheadStep
<1> DEFINE h == m + k + 1
<1>h. h \in DOMAIN heap /\ reg["rdi"] = Word("value", h)
  <2>1. h \in (m + 1)..(m + k + 1)
    BY <1>0, <1>2
  <2> QED BY <1>0, <2>1
<1>d. DOMAIN heap \ {h} = (m + 1)..(m + k)
  BY <1>0, <1>2
<1> HIDE DEF h
<1>5. /\ DOMAIN heap' = DOMAIN heap \ {h} /\ Returns(Junk)
      /\ UNCHANGED <<driver, tty, made, written, stdio, run>>
  BY <1>4, <1>h, freeIs
<1>6. /\ DOMAIN reg' = Reg /\ reg'["rsi"] = Junk
      /\ reg'["rsp"] = reg["rsp"] /\ reg'["rbp"] = reg["rbp"] /\ rip' = rip + 1
      /\ Keeps(-24 - 8 * k)
  <2> DEFINE t == -24 - 8 * k
  <2>1. t \in Int /\ Top(t)
    BY <1>0, <1>2 DEF Pile
  <2> HIDE DEF t
  <2>2. /\ DOMAIN reg' = Reg /\ \A q \in Reg : q \notin {"rax", "rsp", "rbp"} => reg'[q] = Junk
        /\ reg'["rsp"] = reg["rsp"] /\ reg'["rbp"] = reg["rbp"] /\ rip' = rip + 1 /\ Keeps(t)
    BY <1>5, <2>1, ReturnsIs, KeepsReturns
  <2>3. "rsi" \in Reg /\ "rsi" \notin {"rax", "rsp", "rbp"}
    BY Regs
  <2> QED BY <2>2, <2>3 DEF t
<1>7. Goes /\ UNCHANGED <<asm, job, tty, written, stdio>>
  BY <1>5, <1>6 DEF Goes, driver
<1>8. After(p, i)'
  <2> DEFINE t == -24 - 8 * k
  <2>1. t \in Int /\ t <= -16 /\ Keeps(t)
    BY <1>2, <1>6
  <2> HIDE DEF t
  <2> QED BY <1>0, <1>6, <1>7, <2>1, AfterKept
<1>9. Pile(p, i, k, m)'
  BY <1>0, <1>2, <1>6, PileKept
<1>10. Ahead(rest)'
  BY <1>4, <1>6, <1>7
<1> QED BY <1>0, <1>2, <1>5, <1>6, <1>7, <1>8, <1>9, <1>10, <1>d
        DEF ToFree, rest, f, K, Argc, FromFree

(* The count is taken off, and what did not fit into registers again.      *)
LEMMA LastFreeStep ==
  ASSUME NEW p, Machine(p), Step, NEW i, NEW m, ToFree(p, i, 0, m)
  PROVE  Goes /\ (ToLong(p, i)' \/ ToCall(p, i + 1)')
<1> USE DEF Machine
<1> DEFINE K == Argc(p, i)
           rest == FromLong(p, i)
<1>0. /\ i \in 1..Len(p) /\ m \in Nat /\ After(p, i) /\ Pile(p, i, 0, m)
      /\ DOMAIN heap = (m + 1)..(m + 0) /\ reg["rsi"] = Junk
  BY DEF ToFree, After
<1>1. K \in Nat /\ Len(p) \in Nat
  BY <1>0, ProgramIs, CallsIn
<1>2. Ahead(DropCount \o rest)
  <2>1. Argc(p, i) + 1 - 0 = Argc(p, i) + 1
    BY <1>1
  <2>2. Ahead(FromFree(p, i, Argc(p, i) + 1))
    BY <2>1 DEF ToFree
  <2> QED BY <1>0, <2>2, AtFree
<1>3. DropCount \in Seq(Body) /\ rest \in Seq(Body)
  BY <1>0, SmallIn, RestIn
<1> HIDE DEF rest
<1>4. /\ Inst.inst = "add" /\ Inst.ops = <<IMM64(8), RSP>>
      /\ rip' = rip + 1 /\ asm' = asm => Ahead(rest)'
  BY <1>2, <1>3, AheadStep DEF DropCount
<1> DEFINE t == -24
           n == 8
<1>t. t \in Int /\ Top(t) /\ n \in Int /\ t + n = -16 /\ Inst.ops = <<IMM64(n), RSP>>
  <2>1. -24 - 8 * 0 = -24
    OBVIOUS
  <2> QED BY <1>0, <1>4, <2>1 DEF Pile
<1> HIDE DEF t, n
<1>5. /\ Onward /\ Quietly /\ mem' = mem
      /\ Top(t + n)'
      /\ \A q \in Reg : q # "rsp" => reg'[q] = reg[q]
  BY <1>4, <1>t, addIs
<1>6. Goes /\ UNCHANGED <<asm, job, tty, heap, made, written, stdio>>
  BY <1>5, OnwardGoes DEF Onward
<1>7. reg'["rbp"] = reg["rbp"] /\ reg'["rsi"] = Junk /\ Top(-16)'
  BY <1>0, <1>5, <1>t, Regs
<1>8. After(p, i)'
  <2>1. Keeps(-16) /\ -16 <= -16 /\ -16 \in Int
    BY <1>5, KeepsAll
  <2> QED BY <1>0, <1>6, <1>7, <2>1, AfterKept
<1>9. Ahead(rest)'
  BY <1>4, <1>5, <1>6 DEF Onward
<1>10. DOMAIN heap' = {}
  <2>1. (m + 1)..(m + 0) = {}
    BY <1>0
  <2> QED BY <1>0, <1>6, <2>1
<1>11. CASE K > 5
  <2>1. Holds(-24, Word("number", K))'
    BY <1>0, <1>5 DEF Pile, Holds, K, Argc, Word
  <2> QED BY <1>6, <1>7, <1>8, <1>9, <1>10, <1>11, <2>1 DEF ToLong, K, Argc, rest, FromLong, Word
<1>12. CASE ~(K > 5)
  <2>1. K <= 5
    BY <1>1, <1>12
  <2>2. rest = FromCall(p, i + 1)
    BY <1>0, <1>12, AtLong DEF rest
  <2>3. Base' /\ Said(p, i)' /\ ShortBefore(p, i)
    BY <1>0, <1>8, <2>1 DEF After
  <2>4. ShortBefore(p, i + 1)
    <3>1. \A j \in 1..((i + 1) - 1) : j \in 1..(i - 1) \/ j = i
      BY <1>0
    <3> QED BY <2>1, <2>3, <3>1 DEF ShortBefore, K
  <2>5. i + 1 \in 1..(Len(p) + 1) /\ (i + 1) - 1 = i
    BY <1>0, <1>1
  <2>6. Ahead(FromCall(p, i + 1))'
    <3>1. FromCall(p, i + 1)' = FromCall(p, i + 1)
      BY DEF FromCall, CallsCode, Args, FirstLabel
    <3> QED BY <1>9, <2>2, <3>1
  <2> QED BY <1>6, <1>7, <1>10, <2>3, <2>4, <2>5, <2>6 DEF ToCall, ShortBefore, Argc
<1> QED BY <1>11, <1>12

LEMMA ToLongStep ==
  ASSUME NEW p, Machine(p), Step, NEW i, ToLong(p, i)
  PROVE  Goes /\ LostCall(p, i + 1, Argc(p, i) - 5)' /\ Argc(p, i) - 5 \in Nat \ {0}
         /\ i \in 1..Len(p) /\ Argc(p, i) > 5
<1> USE DEF Machine
<1> DEFINE K == Argc(p, i)
           q0 == K - 5
           rest == FromCall(p, i + 1)
<1>0. i \in 1..Len(p) /\ K > 5 /\ Top(-16) /\ Holds(-24, Word("number", K)) /\ reg["rsi"] = Junk
      /\ reg["rbp"] = Word("stack", -16) /\ \A a \in DOMAIN mem : a < 0
  BY DEF ToLong, After, Base
<1>1. K \in Nat /\ Len(p) \in Nat
  BY <1>0, ProgramIs, CallsIn
<1>2. AddLong(p, i) \in Seq(Body) /\ rest \in Seq(Body) /\ i + 1 \in 1..(Len(p) + 1)
  <2>1. i + 1 \in 1..(Len(p) + 1)
    BY <1>0, <1>1
  <2> QED BY <1>1, <2>1, RestIn, SmallIn
<1>3. Ahead(AddLong(p, i) \o rest)
  BY <1>0, AtLong DEF ToLong
<1> HIDE DEF rest
<1>4. /\ Inst.inst = "add" /\ Inst.ops = <<IMM64(8 * q0), RSP>>
      /\ rip' = rip + 1 /\ asm' = asm => Ahead(rest)'
  BY <1>2, <1>3, AheadStep DEF AddLong
<1> HIDE DEF K
<1>q. q0 \in Nat \ {0} /\ 8 * q0 \in Int /\ -16 \in Int
  BY ONLY <1>0, <1>1
<1> HIDE DEF q0
<1>5. /\ Onward /\ Quietly /\ mem' = mem
      /\ Top(-16 + 8 * q0)'
      /\ \A q \in Reg : q # "rsp" => reg'[q] = reg[q]
  <2> DEFINE t == -16
             n == 8 * q0
  <2>1. t \in Int /\ n \in Int /\ Top(t) /\ Inst.ops = <<IMM64(n), RSP>>
    BY <1>0, <1>4, <1>q
  <2> HIDE DEF t, n
  <2>2. /\ Onward /\ Quietly /\ mem' = mem
        /\ Top(t + n)'
        /\ \A q \in Reg : q # "rsp" => reg'[q] = reg[q]
    BY <1>4, <2>1, addIs
  <2> QED BY <2>2 DEF t, n
<1>6. Goes /\ UNCHANGED <<asm, job, tty, heap, made, written, stdio>>
  BY <1>5, OnwardGoes DEF Onward
<1>7. reg'["rbp"] = Word("stack", -16) /\ reg'["rsi"] = Junk
  BY <1>0, <1>5, Regs
<1>8. StaleCount'
  <2>1. mem[-24].kind = "number" /\ mem[-24].n = K
    <3>1. mem[-24] = Word("number", K)
      BY <1>0 DEF Holds
    <3> QED BY ONLY <3>1 DEF Word
  <2>2. K \in Nat \ {0}
    BY <1>0, <1>1
  <2> QED BY <1>5, <2>1, <2>2 DEF StaleCount
<1>9. Ahead(rest)'
  BY <1>4, <1>5, <1>6 DEF Onward
<1>10. Wrong(p, i + 1, 0)'
  BY <1>7, <1>8 DEF Wrong, Junk, Word
<1>11. LostCall(p, i + 1, q0)'
  BY <1>0, <1>2, <1>5, <1>7, <1>9, <1>10, <1>q DEF LostCall, rest, FromCall, Word
<1> QED BY <1>0, <1>6, <1>11, <1>q DEF q0, K

-----------------------------------------------------------------------------
(* The way out.                                                            *)
LEMMA RetIn == Node("pop", <<RBP>>) \in Seq(Body) /\ Node("ret", <<>>) \in Seq(Body) /\ <<>> \in Seq(Body)
  BY BodyNodes, OperandsIn

LEMMA EndStep ==
  ASSUME NEW p, Machine(p), Step, ToCall(p, Len(p) + 1)
  PROVE  Goes /\ ToReturn(p)'
<1> USE DEF Machine
<1> DEFINE rest == Node("ret", <<>>)
<1>0. /\ Base /\ ShortBefore(p, Len(p) + 1) /\ Said(p, Len(p)) /\ Top(-16) /\ DOMAIN heap = {}
      /\ Ahead(Node("pop", <<RBP>>) \o rest)
  <2>1. (Len(p) + 1) - 1 = Len(p)
    BY CallsIn
  <2> QED BY <2>1, AtEnd DEF ToCall
<1>1. rest \in Seq(Body) /\ Node("pop", <<RBP>>) \in Seq(Body)
  BY RetIn
<1> HIDE DEF rest
<1>2. /\ Inst.inst = "pop" /\ Inst.ops = <<REGISTER_X64("rbp")>>
      /\ rip' = rip + 1 /\ asm' = asm => Ahead(rest)'
  BY <1>0, <1>1, AheadStep DEF RBP
<1> DEFINE t == -16
<1>t. t \in Int /\ Top(t) /\ t + 8 = -8 /\ Holds(t, Junk)
  BY <1>0 DEF Base
<1> HIDE DEF t
<1>3. /\ Onward /\ Quietly /\ mem' = mem
      /\ Top(t + 8)' /\ reg'["rbp"] = Load(Word("stack", t))
  <2>1. "rbp" \in Reg \ {"rsp"}
    BY Regs
  <2> QED BY <1>2, <1>t, <2>1, popIs
<1>4. reg'["rbp"] = Junk
  BY <1>3, <1>t, LoadIs
<1>5. Goes /\ UNCHANGED <<asm, job, tty, heap, made, written, stdio>>
  BY <1>3, OnwardGoes DEF Onward
<1>6. Said(p, Len(p))'
  BY <1>0, <1>5, QuietSaid
<1>7. Ahead(rest)'
  BY <1>2, <1>3, <1>5 DEF Onward
<1>8. Holds(-8, Word("return", 4))'
  BY <1>0, <1>3 DEF Base, Holds, Word
<1>9. Top(-8)'
  BY <1>3, <1>t
<1> QED BY <1>0, <1>4, <1>5, <1>6, <1>7, <1>8, <1>9 DEF ToReturn, ShortBefore, Argc, rest, Junk, Word

LEMMA ReturnStep ==
  ASSUME NEW p, Machine(p), Step, ToReturn(p)
  PROVE  Goes /\ Returned(p, 4)'
<1> USE DEF Machine
<1> DEFINE t == -8
<1>0. /\ Ahead(Node("ret", <<>>)) /\ ShortBefore(p, Len(p) + 1) /\ Said(p, Len(p))
      /\ t \in Int /\ Top(t) /\ t + 8 = 0 /\ Holds(t, Word("return", 4))
      /\ reg["rbp"] = Junk /\ DOMAIN heap = {}
  BY DEF ToReturn
<1> HIDE DEF t
<1>1. Inst.inst = "ret"
  <2>1. Ahead(Node("ret", <<>>) \o <<>>)
    BY <1>0, RetIn, NothingBefore
  <2> QED BY <2>1, RetIn, AheadStep
<1>2. Load(Word("stack", t)).kind = "return" /\ Load(Word("stack", t)).n = 4
  <2>1. Load(Word("stack", t)) = Word("return", 4)
    BY <1>0, LoadIs
  <2> QED BY ONLY <2>1 DEF Word
<1>3. /\ rip' = 4
      /\ Top(t + 8)' /\ \A q \in Reg : q # "rsp" => reg'[q] = reg[q]
      /\ DOMAIN reg' = Reg /\ Quietly /\ UNCHANGED <<driver, tty, run, mem>>
  BY <1>0, <1>1, <1>2, retIs
<1>4. Goes /\ UNCHANGED <<job, tty, heap, written, stdio>>
  BY <1>3 DEF Goes, driver, Quietly
<1>5. Said(p, Len(p))' /\ reg'["rbp"] = Junk
  BY <1>0, <1>3, <1>4, QuietSaid, Regs
<1>6. Top(0)'
  BY <1>0, <1>3
<1> QED BY <1>0, <1>3, <1>4, <1>5, <1>6 DEF Returned, ShortBefore, Argc

LEMMA FourStep ==
  ASSUME NEW p, Machine(p), Step, Returned(p, 4)
  PROVE  Goes /\ Returned(p, 5)' /\ reg'["rdi"] = Word("number", 0)
<1> USE DEF Machine
<1>0. rip = 4 /\ Said(p, Len(p)) /\ reg["rbp"] = Junk /\ Top(0) /\ DOMAIN heap = {}
      /\ ShortBefore(p, Len(p) + 1)
  BY DEF Returned
<1>1. Inst.inst = "mov" /\ Inst.ops = <<IMM64(0), REGISTER_X64("rdi")>>
  BY <1>0, OpeningIs DEF Opening, Instr, RDI
<1>2. /\ Onward /\ Quietly /\ mem' = mem
      /\ reg'["rdi"] = Source(IMM64(0))
      /\ \A q \in Reg : q # "rdi" => reg'[q] = reg[q]
  <2>1. "rdi" \in Reg
    BY Regs
  <2> QED BY <1>1, <2>1, movIs
<1>3. Goes /\ UNCHANGED <<asm, job, tty, heap, made, written, stdio>>
  BY <1>2, OnwardGoes DEF Onward
<1>4. reg'["rdi"] = Word("number", 0)
  BY <1>2, SourceIs
<1>5. Said(p, Len(p))' /\ reg'["rbp"] = Junk /\ reg'["rsp"] = reg["rsp"]
  BY <1>0, <1>2, <1>3, QuietSaid, Regs
<1>6. rip' = 5
  BY <1>0, <1>2 DEF Onward
<1>7. Top(0)' /\ DOMAIN heap' = {}
  BY <1>0, <1>3, <1>5 DEF Top, Word
<1> QED BY <1>0, <1>3, <1>4, <1>5, <1>6, <1>7 DEF Returned, ShortBefore, Argc

LEMMA ExitStep ==
  ASSUME NEW p, Machine(p), Step, Returned(p, 5)
  PROVE  /\ UNCHANGED <<driver, tty, reg, mem, heap, made>> /\ run' = "exited"
         /\ Short /\ Top(0) /\ reg["rbp"] = Junk /\ DOMAIN heap = {} /\ PrintsProgram'
<1> USE DEF Machine
<1>0. rip = 5 /\ Said(p, Len(p)) /\ reg["rbp"] = Junk /\ Top(0) /\ DOMAIN heap = {}
      /\ ShortBefore(p, Len(p) + 1)
  BY DEF Returned
<1>1. Inst.inst = "call" /\ Inst.ops = <<IDENTIFIER("exit")>>
  BY <1>0, OpeningIs DEF Opening, Instr
<1>2. /\ written' = written \o stdio /\ stdio' = <<>> /\ run' = "exited"
      /\ UNCHANGED <<driver, tty, rip, reg, mem, heap, made>>
  BY <1>1, exitIs
<1>3. job' = job
  BY <1>2 DEF driver
<1>4. PrintsProgram'
  BY <1>0, <1>2, <1>3, SaidAll
<1>5. Short
  <2>1. (Len(p) + 1) - 1 = Len(p) /\ DOMAIN p = 1..Len(p)
    BY CallsIn DEF Program
  <2> QED BY <1>0, <2>1 DEF ShortBefore, Short, Argc
<1> QED BY <1>0, <1>2, <1>4, <1>5

-----------------------------------------------------------------------------
(* After a long call nothing is where the code looks for it.               *)
LEMMA WrongKept ==
  ASSUME NEW p, NEW i, NEW k, Wrong(p, i, k), reg'["rsi"] = reg["rsi"],
         -24 \in DOMAIN mem' => -24 \in DOMAIN mem /\ mem'[-24] = mem[-24]
  PROVE  Wrong(p, i, k)'
<1>1. CASE k = 0
  BY <1>1 DEF Wrong, StaleCount, Junk, Word
<1>2. CASE k # 0
  BY <1>2 DEF Wrong, NoCount
<1> QED BY <1>1, <1>2

LEMMA LostCallStep ==
  ASSUME NEW p, Machine(p), Step, NEW i \in 1..Len(p), NEW q, LostCall(p, i, q)
  PROVE  Goes /\ LostCount(p, i, q)' /\ q \in Nat
<1> USE DEF Machine
<1>1. /\ Ahead(Node("mov", <<IMM64(Argc(p, i)), RDI>>) \o (PushCount \o FromArg(p, i, 1)))
      /\ Node("mov", <<IMM64(Argc(p, i)), RDI>>) \in Seq(Body)
  <2>1. Argc(p, i) \in Nat
    BY ProgramIs
  <2> QED BY <2>1, AtCall, SmallIn DEF LostCall, Count
<1>2. PushCount \o FromArg(p, i, 1) \in Seq(Body)
  <2>1. 1 \in 1..(Argc(p, i) + 1)
    BY ProgramIs
  <2>2. FromArg(p, i, 1) \in Seq(Body)
    BY <2>1, RestIn
  <2> QED BY <2>2, SmallIn, CodeAssoc
<1>3. /\ Inst.inst = "mov" /\ Inst.ops = <<IMM64(Argc(p, i)), REGISTER_X64("rdi")>>
      /\ rip' = rip + 1 /\ asm' = asm => Ahead(PushCount \o FromArg(p, i, 1))'
  BY <1>1, <1>2, AheadStep DEF RDI
<1>4. /\ Onward /\ Quietly /\ mem' = mem
      /\ \A r \in Reg : r # "rdi" => reg'[r] = reg[r]
  <2>1. "rdi" \in Reg
    BY Regs
  <2> QED BY <1>3, <2>1, movIs
<1>5. Goes /\ UNCHANGED <<asm, job, heap, made, written, stdio>>
  BY <1>4, OnwardGoes
<1>6. reg'["rsp"] = reg["rsp"] /\ reg'["rbp"] = reg["rbp"] /\ reg'["rsi"] = reg["rsi"]
  BY <1>4, Regs
<1>7. Ahead(PushCount \o FromArg(p, i, 1))'
  BY <1>3, <1>4, <1>5 DEF Onward
<1>8. Wrong(p, i, 0)'
  BY <1>4, <1>6, WrongKept DEF LostCall
<1>9. Top(-16 + 8 * q)'
  BY <1>6 DEF LostCall, Top, Word
<1> QED BY <1>5, <1>6, <1>7, <1>8, <1>9 DEF LostCall, LostCount, Shifted, PushCount, Word

LEMMA LostCountStep ==
  ASSUME NEW p, Machine(p), Step, NEW i, NEW q, LostCount(p, i, q)
  PROVE  Goes /\ LostArg(p, i, 1, q)' /\ 1 \in 1..(Argc(p, i) + 1)
<1> USE DEF Machine
<1>0. i \in 1..Len(p) /\ q \in Nat \ {0} /\ Top(-16 + 8 * q) /\ reg["rbp"] = Word("stack", -16)
      /\ Wrong(p, i, 0)
  BY DEF LostCount, Shifted
<1>1. Node("push", <<RDI>>) \in Seq(Body) /\ FromArg(p, i, 1) \in Seq(Body) /\ 1 \in 1..(Argc(p, i) + 1)
  <2>1. 1 \in 1..(Argc(p, i) + 1)
    BY <1>0, ProgramIs
  <2> QED BY <1>0, <2>1, RestIn, SmallIn DEF PushCount
<1>2. /\ Inst.inst = "push" /\ Inst.ops = <<REGISTER_X64("rdi")>>
      /\ rip' = rip + 1 /\ asm' = asm => Ahead(FromArg(p, i, 1))'
  BY <1>1, AheadStep DEF RDI, LostCount
<1> DEFINE t == -16 + 8 * q
<1>t. t \in Int /\ Top(t) /\ t - 8 = -16 + 8 * q - 8 * 1 /\ t - 8 # -24
  BY <1>0
<1> HIDE DEF t
<1>3. /\ Onward /\ Quietly
      /\ Top(t - 8)'
      /\ \A r \in Reg : r # "rsp" => reg'[r] = reg[r]
      /\ DOMAIN mem' = DOMAIN mem \cup {t - 8}
      /\ \A a \in DOMAIN mem : a # t - 8 => mem'[a] = mem[a]
  <2>1. "rdi" \in Reg
    BY Regs
  <2> QED BY <1>2, <1>t, <2>1, pushIs
<1>4. Goes /\ UNCHANGED <<asm, job, heap, made, written, stdio>>
  BY <1>3, OnwardGoes
<1>5. reg'["rbp"] = reg["rbp"] /\ reg'["rsi"] = reg["rsi"]
  BY <1>3, Regs
<1>6. Wrong(p, i, 0)'
  BY <1>0, <1>3, <1>5, <1>t, WrongKept
<1>7. Ahead(FromArg(p, i, 1))'
  BY <1>2, <1>3, <1>4 DEF Onward
<1>8. 1 - 1 = 0
  OBVIOUS
<1>9. Top(-16 + 8 * q - 8 * 1)'
  BY <1>3, <1>t
<1> QED BY <1>0, <1>1, <1>4, <1>5, <1>6, <1>7, <1>8, <1>9 DEF LostArg, Shifted, Argc, Word

LEMMA LostArgStep ==
  ASSUME NEW p, Machine(p), Step, NEW i, NEW k, NEW q, LostArg(p, i, k, q), k # Argc(p, i) + 1
  PROVE  Goes /\ LostMake(p, i, k, q)' /\ k \in 1..Argc(p, i)
<1> USE DEF Machine
<1>0. i \in 1..Len(p) /\ k \in 1..Argc(p, i) /\ Shifted(p, i, q) /\ Wrong(p, i, k - 1)
      /\ Top(-16 + 8 * q - 8 * k)
  <2>1. i \in 1..Len(p)
    BY DEF LostArg, Shifted
  <2>2. Argc(p, i) \in Nat
    BY <2>1, ProgramIs
  <2> QED BY <2>1, <2>2 DEF LostArg
<1> DEFINE rest == Node("call", <<IDENTIFIER(Maker(p, i, k))>>) \o (Node("push", <<RAX>>) \o FromArg(p, i, k + 1))
<1>1. Ahead(Node("mov", <<Operand1(p, i, k), RDI>>) \o rest)
  BY <1>0, AtArg DEF LostArg
<1>2. Node("mov", <<Operand1(p, i, k), RDI>>) \in Seq(Body) /\ rest \in Seq(Body)
  BY <1>0, ArgPieces
<1> HIDE DEF rest
<1>3. /\ Inst.inst = "mov" /\ Inst.ops = <<Operand1(p, i, k), REGISTER_X64("rdi")>>
      /\ rip' = rip + 1 /\ asm' = asm => Ahead(rest)'
  BY <1>1, <1>2, AheadStep DEF RDI
<1>4. /\ Onward /\ Quietly /\ mem' = mem
      /\ \A r \in Reg : r # "rdi" => reg'[r] = reg[r]
  <2>1. "rdi" \in Reg
    BY Regs
  <2> QED BY <1>3, <2>1, movIs
<1>5. Goes /\ UNCHANGED <<asm, job, heap, made, written, stdio>>
  BY <1>4, OnwardGoes
<1>6. reg'["rsp"] = reg["rsp"] /\ reg'["rbp"] = reg["rbp"] /\ reg'["rsi"] = reg["rsi"]
  BY <1>4, Regs
<1>7. Wrong(p, i, k - 1)'
  BY <1>0, <1>4, <1>6, WrongKept
<1>8. Ahead(rest)'
  BY <1>3, <1>4, <1>5 DEF Onward
<1>9. Top(-16 + 8 * q - 8 * k)' /\ Shifted(p, i, q)'
  BY <1>0, <1>6 DEF Top, Shifted, Word
<1> QED BY <1>0, <1>5, <1>7, <1>8, <1>9
        DEF LostMake, rest, Maker, FromArg, Args, Argc, FromLoad, LabelOf, FirstLabel

LEMMA LostMakeStep ==
  ASSUME NEW p, Machine(p), Step, NEW i, NEW k, NEW q, LostMake(p, i, k, q)
  PROVE  Goes /\ LostPush(p, i, k, q)'
<1> USE DEF Machine
<1> DEFINE rest == Node("push", <<RAX>>) \o FromArg(p, i, k + 1)
<1>0. /\ i \in 1..Len(p) /\ k \in 1..Argc(p, i) /\ Shifted(p, i, q) /\ Wrong(p, i, k - 1)
      /\ Top(-16 + 8 * q - 8 * k) /\ q \in Nat \ {0}
  BY DEF LostMake, Shifted
<1>1. Node("call", <<IDENTIFIER(Maker(p, i, k))>>) \in Seq(Body) /\ rest \in Seq(Body)
      /\ k \in Nat /\ k - 1 \in Nat /\ k > 0
  BY <1>0, ArgPieces
<1>2. /\ Inst.inst = "call" /\ Inst.ops = <<IDENTIFIER(Maker(p, i, k))>>
      /\ rip' = rip + 1 /\ asm' = asm => Ahead(rest)'
  <2>1. Ahead(Node("call", <<IDENTIFIER(Maker(p, i, k))>>) \o rest)
    BY DEF LostMake
  <2> HIDE DEF rest
  <2> QED BY <1>1, <2>1, AheadStep
<1> DEFINE c == Maker(p, i, k)
<1>3. c \in {"libblaze_val_create_intval", "libblaze_val_create_strval"} /\ Inst.ops = <<IDENTIFIER(c)>>
  BY <1>2 DEF Maker
<1> HIDE DEF c, rest
<1>4. UNCHANGED <<driver, tty, run>> /\ Returns(Word("value", made + 1)) /\ made' = made + 1
  BY <1>2, <1>3, createIs
<1> DEFINE t == -16 + 8 * q - 8 * k
<1>t. t \in Int /\ Top(t) /\ (k = 1 => t >= -16)
  BY <1>0, <1>1
<1>s. t = -16 + 8 * q - 8 * k
  OBVIOUS
<1> HIDE DEF t
<1>5. /\ DOMAIN reg' = Reg /\ reg'["rax"] = Word("value", made + 1)
      /\ reg'["rsp"] = reg["rsp"] /\ reg'["rbp"] = reg["rbp"] /\ rip' = rip + 1
      /\ DOMAIN mem' = {a \in DOMAIN mem : a >= t} /\ \A a \in DOMAIN mem' : mem'[a] = mem[a]
  BY <1>4, <1>t, ReturnsIs
<1>6. Goes /\ asm' = asm
  BY <1>4, <1>5 DEF Goes, driver
<1>7. NoCount'
  <2>1. CASE k = 1
    <3>1. ~(-24 >= t)
      BY <1>t, <2>1
    <3> QED BY <1>5, <3>1 DEF NoCount
  <2>2. CASE k # 1
    <3>1. k - 1 # 0
      BY <1>1, <2>2
    <3>2. NoCount
      BY <1>0, <3>1 DEF Wrong
    <3> QED BY <1>5, <3>2 DEF NoCount
  <2> QED BY <2>1, <2>2
<1>8. Ahead(rest)'
  BY <1>2, <1>5, <1>6
<1>9. reg'["rax"].kind = "value"
  BY ONLY <1>5 DEF Word
<1>10. Top(-16 + 8 * q - 8 * k)' /\ Shifted(p, i, q)'
  BY <1>0, <1>5 DEF Top, Shifted, Word
<1> QED BY <1>0, <1>6, <1>7, <1>8, <1>9, <1>10 DEF LostPush, rest, FromArg, Args, Argc, FromLoad

LEMMA LostPushStep ==
  ASSUME NEW p, Machine(p), Step, NEW i, NEW k, NEW q \in Nat \ {0}, LostPush(p, i, k, q)
  PROVE  Goes /\ LostArg(p, i, k + 1, q)' /\ k + 1 \in 1..(Argc(p, i) + 1)
<1> USE DEF Machine
<1>0. /\ i \in 1..Len(p) /\ k \in 1..Argc(p, i) /\ Shifted(p, i, q) /\ NoCount
      /\ Top(-16 + 8 * q - 8 * k) /\ q \in Nat \ {0} /\ reg["rax"].kind = "value"
  BY DEF LostPush, Shifted
<1>1. Node("push", <<RAX>>) \in Seq(Body) /\ FromArg(p, i, k + 1) \in Seq(Body)
      /\ k + 1 \in 1..(Argc(p, i) + 1) /\ k \in Nat /\ k - 1 \in Nat /\ k > 0
  BY <1>0, ArgPieces
<1>2. /\ Inst.inst = "push" /\ Inst.ops = <<REGISTER_X64("rax")>>
      /\ rip' = rip + 1 /\ asm' = asm => Ahead(FromArg(p, i, k + 1))'
  BY <1>1, AheadStep DEF RAX, LostPush
<1> DEFINE t == -16 + 8 * q - 8 * k
<1>t. t \in Int /\ Top(t) /\ t - 8 = -16 + 8 * q - 8 * (k + 1)
  <2>1. t \in Int /\ t - 8 = -16 + 8 * q - 8 * (k + 1)
    BY ONLY <1>1, q \in Nat \ {0}
  <2> QED BY <1>0, <2>1
<1> HIDE DEF t
<1>3. /\ Onward /\ Quietly
      /\ Top(t - 8)'
      /\ \A r \in Reg : r # "rsp" => reg'[r] = reg[r]
      /\ DOMAIN mem' = DOMAIN mem \cup {t - 8}
      /\ mem'[t - 8] = reg["rax"]
      /\ \A a \in DOMAIN mem : a # t - 8 => mem'[a] = mem[a]
  <2>1. "rax" \in Reg
    BY Regs
  <2> QED BY <1>2, <1>t, <2>1, pushIs
<1>4. Goes /\ UNCHANGED <<asm, job, heap, made, written, stdio>>
  BY <1>3, OnwardGoes
<1>5. reg'["rbp"] = reg["rbp"]
  BY <1>3, Regs
<1>6. NoCount'
  <2>1. CASE t - 8 = -24
    BY <1>0, <1>3, <2>1 DEF NoCount
  <2>2. CASE t - 8 # -24
    BY <1>0, <1>3, <2>2 DEF NoCount
  <2> QED BY <2>1, <2>2
<1>7. Ahead(FromArg(p, i, k + 1))'
  BY <1>2, <1>3, <1>4 DEF Onward
<1>8. (k + 1) - 1 # 0
  BY <1>1
<1>9. Wrong(p, i, (k + 1) - 1)'
  BY <1>6, <1>8 DEF Wrong
<1>10. Top(-16 + 8 * q - 8 * (k + 1))' /\ Shifted(p, i, q)'
  BY <1>0, <1>3, <1>5, <1>t DEF Shifted, Word
<1> QED BY <1>1, <1>4, <1>7, <1>9, <1>10 DEF LostArg, Argc

LEMMA LostArgDone ==
  ASSUME NEW p, Machine(p), NEW i, NEW q, LostArg(p, i, Argc(p, i) + 1, q)
  PROVE  LostLoad(p, i, 1)
<1> USE DEF Machine
<1> DEFINE k == Argc(p, i) + 1
<1>0. i \in 1..Len(p) /\ reg["rbp"] = Word("stack", -16) /\ Wrong(p, i, k - 1) /\ Ahead(FromArg(p, i, k))
  BY DEF LostArg, Shifted
<1>1. Argc(p, i) \in Nat /\ Loaded(p, i) \in 1..6
  BY <1>0, ProgramIs, LoadCode
<1>2. k - 1 = Argc(p, i) /\ 1 \in 1..(Loaded(p, i) + 1)
  BY ONLY <1>1
<1>3. FromArg(p, i, k) = FromLoad(p, i, 1)
  BY <1>0, AtArg
<1> HIDE DEF k
<1>4. ~(1 > 1)
  OBVIOUS
<1> QED BY ONLY <1>0, <1>2, <1>3, <1>4 DEF LostLoad

LEMMA LostLoadStep ==
  ASSUME NEW p, Machine(p), Step, NEW i, NEW l, LostLoad(p, i, l), l # Loaded(p, i) + 1
  PROVE  Goes /\ LostLoad(p, i, l + 1)' /\ l + 1 \in 1..(Loaded(p, i) + 1)
<1> USE DEF Machine
<1> DEFINE K == Argc(p, i)
<1>0. /\ i \in 1..Len(p) /\ l \in 1..(Loaded(p, i) + 1) /\ Wrong(p, i, K)
      /\ (l > 1 => reg["rdi"].kind # "number" \/ (K = 0 /\ reg["rdi"].n \in Nat \ {0}))
      /\ Ahead(FromLoad(p, i, l)) /\ reg["rbp"] = Word("stack", -16)
  BY DEF LostLoad
<1>1. l \in 1..Loaded(p, i)
  <2>1. Loaded(p, i) \in 1..6 /\ l \in 1..(Loaded(p, i) + 1)
    BY <1>0, LoadCode
  <2> QED BY ONLY <2>1, l # Loaded(p, i) + 1
<1>2. l + 1 \in 1..(Loaded(p, i) + 1) /\ l \in 1..6 /\ l \in Int /\ K \in Nat
      /\ (K = 0 => l = 1)
  <2>1. l + 1 \in 1..(Loaded(p, i) + 1) /\ l \in 1..6 /\ l \in Int /\ K \in Nat /\ l <= K + 1
    BY <1>0, <1>1, LoadPieces
  <2> HIDE DEF K
  <2>2. K = 0 => l = 1
    BY ONLY <2>1
  <2> QED BY <2>1, <2>2
<1> HIDE DEF K
<1>3. /\ Onward /\ Quietly /\ mem' = mem /\ Ahead(FromLoad(p, i, l + 1))'
      /\ reg'[ArgRegister[l]] = Load(Word("stack", -16 - 8 * l))
      /\ \A r \in Reg : r # ArgRegister[l] => reg'[r] = reg[r]
  BY <1>0, <1>1, LoadStep
<1>4. Goes /\ UNCHANGED <<asm, job, heap, made, written, stdio>>
  BY <1>3, OnwardGoes
<1>5. reg'["rbp"] = reg["rbp"]
  BY <1>2, <1>3, Regs
<1>6. Wrong(p, i, K)'
  <2>1. CASE K = 0
    <3>1. ArgRegister[l] = "rdi" /\ "rsi" \in Reg /\ "rsi" # "rdi"
      BY <1>2, <2>1, Regs
    <3>2. reg'["rsi"] = reg["rsi"]
      BY <1>3, <3>1
    <3> QED BY <1>0, <1>3, <3>2, WrongKept
  <2>2. CASE K # 0
    BY <1>0, <1>3, <2>2 DEF Wrong, NoCount
  <2> QED BY <2>1, <2>2
<1>7. \/ reg'["rdi"].kind # "number"
      \/ K = 0 /\ reg'["rdi"].n \in Nat \ {0}
  <2>1. CASE l = 1
    <3>1. ArgRegister[l] = "rdi" /\ -16 - 8 * l = -24 /\ -24 \in Int
      BY <2>1, Regs
    <3>2. reg'["rdi"] = Load(Word("stack", -24))
      BY <1>3, <3>1
    <3>3. CASE -24 \in DOMAIN mem
      <4>1. reg'["rdi"] = mem[-24]
        BY <3>1, <3>2, <3>3, LoadIs
      <4>2. CASE K = 0
        BY <1>0, <3>3, <4>1, <4>2 DEF Wrong, StaleCount
      <4>3. CASE K # 0
        BY <1>0, <3>3, <4>1, <4>3 DEF Wrong, NoCount
      <4> QED BY <4>2, <4>3
    <3>4. CASE -24 \notin DOMAIN mem
      <4>1. reg'["rdi"] = Junk
        BY <3>1, <3>2, <3>4, LoadIs
      <4> QED BY ONLY <4>1 DEF Junk, Word
    <3> QED BY <3>3, <3>4
  <2>2. CASE l # 1
    <3>1. l \in 2..6 /\ l > 1
      BY ONLY <1>2, <2>2
    <3>2. ArgRegister[l] # "rdi" /\ "rdi" \in Reg
      BY <3>1, Regs
    <3>3. reg'["rdi"] = reg["rdi"]
      BY <1>3, <3>2
    <3> QED BY <1>0, <3>1, <3>3
  <2> QED BY <2>1, <2>2
<1> QED BY <1>0, <1>2, <1>3, <1>4, <1>5, <1>6, <1>7 DEF LostLoad, K, Argc, Loaded, Word

LEMMA LostPrintStep ==
  ASSUME NEW p, Machine(p), Step, NEW i, LostLoad(p, i, Loaded(p, i) + 1)
  PROVE  Crash
<1> USE DEF Machine
<1>0. /\ i \in 1..Len(p) /\ Wrong(p, i, Argc(p, i)) /\ Ahead(FromLoad(p, i, Loaded(p, i) + 1))
      /\ (Loaded(p, i) + 1 > 1 =>
            reg["rdi"].kind # "number" \/ (Argc(p, i) = 0 /\ reg["rdi"].n \in Nat \ {0}))
  BY DEF LostLoad
<1>1. Argc(p, i) \in Nat /\ Loaded(p, i) + 1 > 1
  <2>1. Loaded(p, i) \in 1..6
    BY <1>0, LoadCode
  <2> QED BY <1>0, <2>1, ProgramIs
<1>2. CallPrintln \in Seq(Body) /\ FromFree(p, i, 1) \in Seq(Body)
  <2>1. 1 \in 1..(Argc(p, i) + 1)
    BY <1>1
  <2> QED BY <1>0, <2>1, RestIn, SmallIn
<1>3. Inst.inst = "call" /\ Inst.ops = <<IDENTIFIER("libblaze_fn_println")>>
  <2>1. Ahead(CallPrintln \o FromFree(p, i, 1))
    BY <1>0, AtLoad
  <2> QED BY <1>2, <2>1, AheadStep DEF CallPrintln
<1>4. ~Sound
  <2>1. CASE reg["rdi"].kind # "number"
    BY <2>1 DEF Sound
  <2>2. CASE Argc(p, i) = 0 /\ reg["rdi"].n \in Nat \ {0}
    <3>1. 1 \in 1..reg["rdi"].n
      BY <2>2
    <3>2. va_arg(1) = Junk
      <4>1. reg["rsi"] = Junk
        BY <1>0, <2>2 DEF Wrong
      <4>2. va_arg(1) = reg[ArgRegister[1 + 1]] /\ 1 + 1 = 2
        BY DEF va_arg
      <4> QED BY <4>1, <4>2, Regs
    <3>3. va_arg(1).kind # "value"
      BY ONLY <3>2 DEF Junk, Word
    <3> QED BY <3>1, <3>3 DEF Sound
  <2> QED BY <1>0, <1>1, <2>1, <2>2
<1> QED BY <1>3, <1>4, printlnIs

LEMMA LostEndStep ==
  ASSUME NEW p, Machine(p), Step, NEW q, LostCall(p, Len(p) + 1, q)
  PROVE  Goes /\ LostReturn(q)' /\ q \in Nat
<1> USE DEF Machine
<1> DEFINE rest == Node("ret", <<>>)
<1>0. /\ q \in Nat \ {0} /\ Top(-16 + 8 * q) /\ (\A a \in DOMAIN mem : a < 0)
      /\ Ahead(Node("pop", <<RBP>>) \o rest)
  BY AtEnd DEF LostCall
<1>1. rest \in Seq(Body) /\ Node("pop", <<RBP>>) \in Seq(Body)
  BY RetIn
<1> HIDE DEF rest
<1>2. /\ Inst.inst = "pop" /\ Inst.ops = <<REGISTER_X64("rbp")>>
      /\ rip' = rip + 1 /\ asm' = asm => Ahead(rest)'
  BY <1>0, <1>1, AheadStep DEF RBP
<1> DEFINE t == -16 + 8 * q
<1>t. t \in Int /\ Top(t) /\ t + 8 = 8 * q - 8
  BY <1>0
<1> HIDE DEF t
<1>3. Onward /\ Quietly /\ mem' = mem /\ Top(t + 8)'
  <2>1. "rbp" \in Reg \ {"rsp"}
    BY Regs
  <2> QED BY <1>2, <1>t, <2>1, popIs
<1>4. Goes /\ UNCHANGED <<asm, job, heap, made, written, stdio>>
  BY <1>3, OnwardGoes
<1>5. Ahead(rest)'
  BY <1>2, <1>3, <1>4 DEF Onward
<1>6. Top(8 * q - 8)'
  BY <1>3, <1>t
<1> QED BY <1>0, <1>3, <1>4, <1>5, <1>6 DEF LostReturn, rest

LEMMA LostReturnStep ==
  ASSUME NEW p, Machine(p), Step, NEW q, LostReturn(q)
  PROVE  Crash
<1> USE DEF Machine
<1> DEFINE t == 8 * q - 8
<1>0. /\ Ahead(Node("ret", <<>>)) /\ t \in Int /\ t >= 0 /\ Top(t) /\ \A a \in DOMAIN mem : a < 0
  BY DEF LostReturn
<1> HIDE DEF t
<1>1. Inst.inst = "ret"
  <2>1. Ahead(Node("ret", <<>>) \o <<>>)
    BY <1>0, RetIn, NothingBefore
  <2> QED BY <2>1, RetIn, AheadStep
<1>2. Load(Word("stack", t)).kind # "return"
  <2>1. t \notin DOMAIN mem
    BY <1>0
  <2>2. Load(Word("stack", t)) = Junk
    BY <1>0, <2>1, LoadIs
  <2> QED BY ONLY <2>2 DEF Junk, Word
<1> QED BY <1>0, <1>1, <1>2, retIs

-----------------------------------------------------------------------------
(* One step of a program at work, wherever it is.                          *)
LEMMA FineNext ==
  ASSUME NEW p
  PROVE  /\ Starting(p)' => Fine(p)'
         /\ \A i \in 1..(Len(p) + 1) : ToCall(p, i)' => Fine(p)'
         /\ \A i \in 1..Len(p) : ToLong(p, i)' => Fine(p)'
         /\ \A i \in 1..Len(p), m \in Nat :
              /\ ToCount(p, i, m)' => Fine(p)'
              /\ \A k \in 1..(Argc(p, i) + 1) : ToArg(p, i, k, m)' => Fine(p)'
              /\ \A l \in 1..(Loaded(p, i) + 1) : ToLoad(p, i, l, m)' => Fine(p)'
              /\ \A k \in 1..Argc(p, i) : ToMake(p, i, k, m)' \/ ToPush(p, i, k, m)' => Fine(p)'
              /\ \A k \in 0..Argc(p, i) : ToFree(p, i, k, m)' \/ ToDrop(p, i, k, m)' => Fine(p)'
         /\ ToReturn(p)' => Fine(p)'
         /\ Returned(p, 4)' => Fine(p)'
         /\ Returned(p, 5)' /\ reg'["rdi"] = Word("number", 0) => Fine(p)'
<1>1. Starting(p)' => Fine(p)'
  BY DEF Fine
<1>2. \A i \in 1..(Len(p) + 1) : ToCall(p, i)' => Fine(p)'
  BY DEF Fine
<1>3. \A i \in 1..Len(p) : ToLong(p, i)' => Fine(p)'
  BY DEF Fine
<1>4. ASSUME NEW i \in 1..Len(p), NEW m \in Nat
      PROVE  /\ ToCount(p, i, m)' => Fine(p)'
             /\ \A k \in 1..(Argc(p, i) + 1) : ToArg(p, i, k, m)' => Fine(p)'
             /\ \A l \in 1..(Loaded(p, i) + 1) : ToLoad(p, i, l, m)' => Fine(p)'
             /\ \A k \in 1..Argc(p, i) : ToMake(p, i, k, m)' \/ ToPush(p, i, k, m)' => Fine(p)'
             /\ \A k \in 0..Argc(p, i) : ToFree(p, i, k, m)' \/ ToDrop(p, i, k, m)' => Fine(p)'
  <2>1. ToCount(p, i, m)' => Fine(p)'
    BY DEF Fine
  <2>2. \A k \in 1..(Argc(p, i) + 1) : ToArg(p, i, k, m)' => Fine(p)'
    BY DEF Fine, Argc
  <2>3. \A l \in 1..(Loaded(p, i) + 1) : ToLoad(p, i, l, m)' => Fine(p)'
    BY DEF Fine, Argc, Loaded
  <2>4. \A k \in 1..Argc(p, i) : ToMake(p, i, k, m)' \/ ToPush(p, i, k, m)' => Fine(p)'
    BY DEF Fine, Argc
  <2>5. \A k \in 0..Argc(p, i) : ToFree(p, i, k, m)' \/ ToDrop(p, i, k, m)' => Fine(p)'
    BY DEF Fine, Argc
  <2> QED BY <2>1, <2>2, <2>3, <2>4, <2>5
<1>5. ToReturn(p)' => Fine(p)'
  BY DEF Fine
<1>6. Returned(p, 4)' => Fine(p)'
  BY DEF Fine
<1>7. Returned(p, 5)' /\ reg'["rdi"] = Word("number", 0) => Fine(p)'
  BY DEF Fine, Word
<1> QED BY <1>1, <1>2, <1>3, <1>4, <1>5, <1>6, <1>7

Long(p) == \E j \in 1..Len(p) : Argc(p, j) > 5

LEMMA LostNext ==
  ASSUME NEW p, Long(p)
  PROVE  /\ \A i \in 1..(Len(p) + 1), q \in Nat : LostCall(p, i, q)' => Lost(p)'
         /\ \A i \in 1..Len(p), q \in Nat :
              /\ LostCount(p, i, q)' => Lost(p)'
              /\ \A k \in 1..(Argc(p, i) + 1) : LostArg(p, i, k, q)' => Lost(p)'
              /\ \A k \in 1..Argc(p, i) : LostMake(p, i, k, q)' \/ LostPush(p, i, k, q)' => Lost(p)'
         /\ \A i \in 1..Len(p) : \A l \in 1..(Loaded(p, i) + 1) : LostLoad(p, i, l)' => Lost(p)'
         /\ \A q \in Nat : LostReturn(q)' => Lost(p)'
<1>1. \A i \in 1..(Len(p) + 1), q \in Nat : LostCall(p, i, q)' => Lost(p)'
  BY DEF Lost, Long, Argc
<1>2. ASSUME NEW i \in 1..Len(p), NEW q \in Nat
      PROVE  /\ LostCount(p, i, q)' => Lost(p)'
             /\ \A k \in 1..(Argc(p, i) + 1) : LostArg(p, i, k, q)' => Lost(p)'
             /\ \A k \in 1..Argc(p, i) : LostMake(p, i, k, q)' \/ LostPush(p, i, k, q)' => Lost(p)'
  <2>1. LostCount(p, i, q)' => Lost(p)'
    BY DEF Lost, Long, Argc
  <2>2. \A k \in 1..(Argc(p, i) + 1) : LostArg(p, i, k, q)' => Lost(p)'
    BY DEF Lost, Long, Argc
  <2>3. \A k \in 1..Argc(p, i) : LostMake(p, i, k, q)' \/ LostPush(p, i, k, q)' => Lost(p)'
    BY DEF Lost, Long, Argc
  <2> QED BY <2>1, <2>2, <2>3
<1>3. \A i \in 1..Len(p) : \A l \in 1..(Loaded(p, i) + 1) : LostLoad(p, i, l)' => Lost(p)'
  BY DEF Lost, Long, Argc, Loaded
<1>4. \A q \in Nat : LostReturn(q)' => Lost(p)'
  BY DEF Lost, Long, Argc
<1> QED BY <1>1, <1>2, <1>3, <1>4

LEMMA LongIs ==
  ASSUME NEW p, Program(p), p = job.prog
  PROVE  Long(p) <=> ~Short
<1>1. DOMAIN p = 1..Len(p)
  BY DEF Program
<1>2. \A j \in 1..Len(p) : Argc(p, j) \in Nat
  BY ProgramIs
<1>3. \A j \in 1..Len(p) : Argc(p, j) = Len(p[j].args)
  BY DEF Argc
<1> QED BY <1>1, <1>2, <1>3 DEF Long, Short

Exits ==
  /\ UNCHANGED <<driver, tty, reg, mem, heap, made>> /\ run' = "exited"
  /\ Short /\ Top(0) /\ reg["rbp"] = Junk /\ DOMAIN heap = {} /\ PrintsProgram'

LEMMA FineStep ==
  ASSUME NEW p, Machine(p), Step, Fine(p)
  PROVE  (Goes /\ (Fine(p)' \/ Lost(p)')) \/ Exits
<1>0. Len(p) \in Nat /\ made \in Nat
  BY CallsIn DEF Machine
<1>1. CASE Starting(p)
  <2>1. Goes /\ (Starting(p)' \/ ToCall(p, 1)') /\ 1 \in 1..(Len(p) + 1)
    BY <1>0, <1>1, StartingStep
  <2> QED BY <2>1, FineNext
<1>2. ASSUME NEW i \in 1..(Len(p) + 1), ToCall(p, i)
      PROVE  (Goes /\ (Fine(p)' \/ Lost(p)')) \/ Exits
  <2>1. CASE i = Len(p) + 1
    <3>1. Goes /\ ToReturn(p)'
      BY <1>2, <2>1, EndStep
    <3> QED BY <3>1, FineNext
  <2>2. CASE i # Len(p) + 1
    <3>1. i \in 1..Len(p)
      BY <1>0, <2>2
    <3>2. PICK m \in Nat : m = made
      BY <1>0
    <3>3. Goes /\ ToCount(p, i, m)'
      BY <1>2, <3>1, <3>2, ToCallStep
    <3> QED BY <3>1, <3>3, FineNext
  <2> QED BY <2>1, <2>2
<1>3. ASSUME NEW i \in 1..Len(p), NEW m \in Nat, ToCount(p, i, m)
      PROVE  Goes /\ Fine(p)'
  <2>1. Goes /\ ToArg(p, i, 1, m)' /\ 1 \in 1..(Argc(p, i) + 1)
    <3>1. Argc(p, i) \in Nat
      BY ProgramIs DEF Machine
    <3> QED BY <1>3, <3>1, ToCountStep
  <2> QED BY <2>1, FineNext
<1>4. ASSUME NEW i \in 1..Len(p), NEW m \in Nat, NEW l \in 1..(Loaded(p, i) + 1), ToLoad(p, i, l, m)
      PROVE  Goes /\ Fine(p)'
  <2>1. CASE l = Loaded(p, i) + 1
    <3>1. Goes /\ ToFree(p, i, Argc(p, i), m)'
      BY <1>4, <2>1, PrintStep
    <3> DEFINE k == Argc(p, i)
    <3>2. k \in 0..Argc(p, i)
      BY ProgramIs DEF Machine
    <3>3. ToFree(p, i, k, m)'
      BY <3>1
    <3> HIDE DEF k
    <3> QED BY <3>1, <3>2, <3>3, FineNext
  <2>2. CASE l # Loaded(p, i) + 1
    <3>1. Goes /\ ToLoad(p, i, l + 1, m)' /\ l + 1 \in 1..(Loaded(p, i) + 1)
      BY <1>4, <2>2, ToLoadStep
    <3> QED BY <3>1, FineNext
  <2> QED BY <2>1, <2>2
<1>5. ASSUME NEW i \in 1..Len(p), NEW m \in Nat, NEW k \in 1..(Argc(p, i) + 1), ToArg(p, i, k, m)
      PROVE  Goes /\ Fine(p)'
  <2>1. CASE k = Argc(p, i) + 1
    <3>1. ToLoad(p, i, 1, m)
      BY <1>5, <2>1, ArgDone
    <3>2. 1 \in 1..(Loaded(p, i) + 1)
      BY LoadCode DEF Machine
    <3> QED BY <1>4, <3>1, <3>2
  <2>2. CASE k # Argc(p, i) + 1
    <3>1. Goes /\ ToMake(p, i, k, m)' /\ k \in 1..Argc(p, i)
      BY <1>5, <2>2, ToArgStep
    <3> QED BY <3>1, FineNext
  <2> QED BY <2>1, <2>2
<1>6. ASSUME NEW i \in 1..Len(p), NEW m \in Nat, NEW k \in 1..Argc(p, i), ToMake(p, i, k, m)
      PROVE  Goes /\ Fine(p)'
  <2>1. Goes /\ ToPush(p, i, k, m)'
    BY <1>6, ToMakeStep
  <2> QED BY <2>1, FineNext
<1>7. ASSUME NEW i \in 1..Len(p), NEW m \in Nat, NEW k \in 1..Argc(p, i), ToPush(p, i, k, m)
      PROVE  Goes /\ Fine(p)'
  <2>1. Goes /\ ToArg(p, i, k + 1, m)' /\ k + 1 \in 1..(Argc(p, i) + 1)
    BY <1>7, ToPushStep
  <2> QED BY <2>1, FineNext
<1>8. ASSUME NEW i \in 1..Len(p), NEW m \in Nat, NEW k \in 0..Argc(p, i), ToFree(p, i, k, m)
      PROVE  Goes /\ Fine(p)'
  <2>1. CASE k = 0
    <3>1. Goes /\ (ToLong(p, i)' \/ ToCall(p, i + 1)')
      BY <1>8, <2>1, LastFreeStep
    <3>2. i + 1 \in 1..(Len(p) + 1)
      BY <1>0
    <3> QED BY <3>1, <3>2, FineNext
  <2>2. CASE k # 0
    <3>1. Goes /\ ToDrop(p, i, k - 1, m)' /\ k - 1 \in 0..Argc(p, i)
      BY <1>8, <2>2, ToFreeStep
    <3> QED BY <3>1, FineNext
  <2> QED BY <2>1, <2>2
<1>9. ASSUME NEW i \in 1..Len(p), NEW m \in Nat, NEW k \in 0..Argc(p, i), ToDrop(p, i, k, m)
      PROVE  Goes /\ Fine(p)'
  <2>1. Goes /\ ToFree(p, i, k, m)'
    BY <1>9, ToDropStep
  <2> QED BY <2>1, FineNext
<1>10. ASSUME NEW i \in 1..Len(p), ToLong(p, i)
       PROVE  Goes /\ Lost(p)'
  <2> DEFINE q == Argc(p, i) - 5
             n == i + 1
  <2>1. Goes /\ LostCall(p, n, q)' /\ q \in Nat /\ Argc(p, i) > 5
    BY <1>10, ToLongStep
  <2>2. n \in 1..(Len(p) + 1)
    BY <1>0
  <2>3. Long(p)
    BY <2>1 DEF Long
  <2> HIDE DEF q, n
  <2> QED BY <2>1, <2>2, <2>3, LostNext
<1>11. CASE ToReturn(p)
  <2>1. Goes /\ Returned(p, 4)'
    BY <1>11, ReturnStep
  <2> QED BY <2>1, FineNext
<1>12. CASE Returned(p, 4)
  <2>1. Goes /\ Returned(p, 5)' /\ reg'["rdi"] = Word("number", 0)
    BY <1>12, FourStep
  <2> QED BY <2>1, FineNext
<1>13. CASE Returned(p, 5)
  <2>1. Exits
    BY <1>13, ExitStep DEF Exits
  <2> QED BY <2>1
<1> QED BY <1>1, <1>2, <1>3, <1>4, <1>5, <1>6, <1>7, <1>8, <1>9, <1>10, <1>11, <1>12, <1>13 DEF Fine

LEMMA LostStep ==
  ASSUME NEW p, Machine(p), Step, Lost(p)
  PROVE  (Goes /\ Lost(p)') \/ (Crash /\ ~Short)
<1>0. Len(p) \in Nat /\ Program(p) /\ p = job.prog
  BY CallsIn DEF Machine
<1>l. Long(p) /\ ~Short
  BY <1>0, LongIs DEF Lost, Long
<1>1. ASSUME NEW i \in 1..(Len(p) + 1), NEW q \in Nat, LostCall(p, i, q)
      PROVE  Goes /\ Lost(p)'
  <2>1. CASE i = Len(p) + 1
    <3>1. Goes /\ LostReturn(q)'
      BY <1>1, <2>1, LostEndStep
    <3> QED BY <1>l, <3>1, LostNext
  <2>2. CASE i # Len(p) + 1
    <3>1. i \in 1..Len(p)
      BY <1>0, <2>2
    <3>2. Goes /\ LostCount(p, i, q)'
      BY <1>1, <3>1, LostCallStep
    <3> QED BY <1>l, <3>1, <3>2, LostNext
  <2> QED BY <2>1, <2>2
<1>2. ASSUME NEW i \in 1..Len(p), NEW q \in Nat, LostCount(p, i, q)
      PROVE  Goes /\ Lost(p)'
  <2>1. Goes /\ LostArg(p, i, 1, q)' /\ 1 \in 1..(Argc(p, i) + 1)
    BY <1>2, LostCountStep
  <2> QED BY <1>l, <2>1, LostNext
<1>3. ASSUME NEW i \in 1..Len(p), NEW l \in 1..(Loaded(p, i) + 1), LostLoad(p, i, l)
      PROVE  (Goes /\ Lost(p)') \/ Crash
  <2>1. CASE l = Loaded(p, i) + 1
    BY <1>3, <2>1, LostPrintStep
  <2>2. CASE l # Loaded(p, i) + 1
    <3>1. Goes /\ LostLoad(p, i, l + 1)' /\ l + 1 \in 1..(Loaded(p, i) + 1)
      BY <1>3, <2>2, LostLoadStep
    <3> QED BY <1>l, <3>1, LostNext
  <2> QED BY <2>1, <2>2
<1>4. ASSUME NEW i \in 1..Len(p), NEW q \in Nat, NEW k \in 1..(Argc(p, i) + 1), LostArg(p, i, k, q)
      PROVE  (Goes /\ Lost(p)') \/ Crash
  <2>1. CASE k = Argc(p, i) + 1
    <3>1. LostLoad(p, i, 1)
      BY <1>4, <2>1, LostArgDone
    <3>2. 1 \in 1..(Loaded(p, i) + 1)
      BY <1>0, LoadCode
    <3> QED BY <1>3, <3>1, <3>2
  <2>2. CASE k # Argc(p, i) + 1
    <3>1. Goes /\ LostMake(p, i, k, q)' /\ k \in 1..Argc(p, i)
      BY <1>4, <2>2, LostArgStep
    <3> QED BY <1>l, <3>1, LostNext
  <2> QED BY <2>1, <2>2
<1>5. ASSUME NEW i \in 1..Len(p), NEW q \in Nat, NEW k \in 1..Argc(p, i), LostMake(p, i, k, q)
      PROVE  Goes /\ Lost(p)'
  <2>1. Goes /\ LostPush(p, i, k, q)'
    BY <1>5, LostMakeStep
  <2> QED BY <1>l, <2>1, LostNext
<1>6. ASSUME NEW i \in 1..Len(p), NEW q \in Nat, NEW k \in 1..Argc(p, i), LostPush(p, i, k, q)
      PROVE  Goes /\ Lost(p)'
  <2>1. q \in Nat \ {0}
    BY <1>6 DEF LostPush, Shifted
  <2>2. Goes /\ LostArg(p, i, k + 1, q)' /\ k + 1 \in 1..(Argc(p, i) + 1)
    BY <1>6, <2>1, LostPushStep
  <2> QED BY <1>l, <2>2, LostNext
<1>7. ASSUME NEW q \in Nat, LostReturn(q) PROVE Crash
  BY <1>7, LostReturnStep
<1> QED BY <1>l, <1>1, <1>2, <1>3, <1>4, <1>5, <1>6, <1>7 DEF Lost

-----------------------------------------------------------------------------
(* The driver under the machine.                                           *)
LEMMA DriverOver ==
  ASSUME status = "success"
  PROVE  ~Parent
  BY DEF Parent, blazec_process_options, main, ReadSource, compile, OpenOutput, mkstemp_asm, mkstemp_obj,
         Open, blazec_write_assembly, fork_as, fork_ld, fork, wait_as, wait_ld, wait, unlink_asm,
         unlink_obj, unlink, compilation_context_destroy, At

LEMMA CompiledKept ==
  ASSUME IInv, FreedInv, Compiled, Parent
  PROVE  Compiled'
<1>0. status # "success"
  BY DriverOver
<1> SUFFICES ASSUME status' = "success"
             PROVE  (asm = compilation_context(job.prog) /\ Supported(job.prog, job.debug))'
  BY DEF Compiled
<1>1. CASE compilation_context_destroy
  <2>1. pc = "free" /\ job' = job /\ asm' = asm
    BY <1>1 DEF compilation_context_destroy, At, Idle
  <2>2. asm = compilation_context(job.prog) /\ Supported(job.prog, job.debug)
    BY <2>1 DEF FreedInv
  <2> QED BY <2>1, <2>2
<1>2. ASSUME ~compilation_context_destroy PROVE FALSE
  <2>1. ~(blazec_process_options \/ main \/ ReadSource \/ compile)
    BY <1>0 DEF blazec_process_options, main, ReadSource, compile, Then, fatal_error, End, At
  <2>2. ~(OpenOutput \/ mkstemp_asm \/ mkstemp_obj \/ blazec_write_assembly)
    BY <1>0 DEF OpenOutput, mkstemp_asm, mkstemp_obj, Open, blazec_write_assembly, Then, fatal_error, End, At
  <2>3. ~(fork_as \/ fork_ld \/ wait_as \/ wait_ld \/ unlink_asm \/ unlink_obj)
    BY <1>0 DEF fork_as, fork_ld, fork, wait_as, wait_ld, wait, unlink_asm, unlink_obj, unlink, Then,
                fatal_error, End, At
  <2> QED BY <1>2, <2>1, <2>2, <2>3 DEF Parent
<1> QED BY <1>1, <1>2

(* The values are a function of their numbers.                             *)
LEMMA HeapKept ==
  ASSUME heap = [h \in DOMAIN heap |-> heap[h]], Step
  PROVE  (heap = [h \in DOMAIN heap |-> heap[h]])'
<1>1. CASE heap' = heap
  BY <1>1
<1>2. CASE libblaze_val_create_intval \/ libblaze_val_create_strval
  <2>1. PICK v : NewValue(v)
    BY <1>2 DEF libblaze_val_create_intval, libblaze_val_create_strval
  <2>2. heap' = [i \in DOMAIN heap \cup {made + 1} |-> IF i = made + 1 THEN v ELSE heap[i]]
    BY <2>1 DEF NewValue
  <2> QED BY <2>2
<1>3. CASE libblaze_val_free
  BY <1>1, <1>3 DEF libblaze_val_free, Crash
<1>4. CASE Start \/ label \/ mov \/ add \/ push \/ pop \/ ret \/ call_main \/ libblaze_fn_println \/ exit
  BY <1>1, <1>4 DEF Start, label, mov, add, push, pop, ret, call_main, libblaze_fn_println, exit, Crash
<1> QED BY <1>2, <1>3, <1>4 DEF Step

(* The first instruction.                                                  *)
LEMMA StartStep ==
  ASSUME NEW p, Program(p), p = job.prog, asm = compilation_context(p), Unstarted, Start
  PROVE  Starting(p)' /\ run' = "running" /\ UNCHANGED <<driver, tty, reg, made>>
<1>1. rip' = 2 /\ run' = "running" /\ UNCHANGED <<driver, tty, reg, mem, heap, made, written, stdio>>
  BY LabelsAt DEF Start, compilation_context
<1>2. /\ reg["rsp"] = Word("stack", 0) /\ reg["rbp"] = Junk
      /\ DOMAIN mem = {} /\ DOMAIN heap = {} /\ made = 0 /\ written = <<>> /\ stdio = <<>>
  BY Regs DEF Unstarted
<1>3. Said(p, 0)'
  <2>1. Said(p, 0)
    BY <1>2, OutputIs, SentConcat DEF Said, IsOut
  <2> QED BY <1>1, <2>1, QuietSaid DEF driver
<1> QED BY <1>1, <1>2, <1>3 DEF Starting, Top, Word, Junk

-----------------------------------------------------------------------------
(* The inductive invariant of the machine.                                 *)
LEMMA InitNativeInv == NativeInit => NativeInv
<1> SUFFICES ASSUME NativeInit PROVE NativeInv
  OBVIOUS
<1>1. Unstarted /\ run = "no" /\ status = "running" /\ tty \in BOOLEAN
  BY DEF NativeInit, Init, Unstarted
<1>2. DOMAIN reg = Reg /\ made \in Nat /\ heap = <<>>
  BY <1>1 DEF Unstarted
<1>3. heap = [h \in DOMAIN heap |-> heap[h]]
  BY <1>2
<1> QED BY <1>1, <1>2, <1>3 DEF NativeInv, Compiled, MachineInv

LEMMA StepNativeInv ==
  ASSUME IInv, NativeInv, Step
  PROVE  NativeInv'
<1>0. UNCHANGED driver
  BY StepKeepsDriver
<1>1. UNCHANGED <<job, asm, status>>
  BY <1>0 DEF driver
<1>2. Compiled'
  BY <1>1 DEF NativeInv, Compiled
<1>3. (heap = [h \in DOMAIN heap |-> heap[h]])'
  BY HeapKept DEF NativeInv, MachineInv
<1>4. status = "success" => asm = compilation_context(job.prog) /\ Program(job.prog)
  <2>1. job.prog \in Seq(Statement)
    BY JobAssumption DEF IInv
  <2> QED BY <2>1 DEF NativeInv, Compiled, Supported, Program
<1> DEFINE p == job.prog
<1>5. CASE Start
  <2>1. status = "success" /\ run = "no"
    BY <1>5 DEF Start, Executable
  <2>2. Unstarted
    BY <2>1 DEF NativeInv, MachineInv
  <2>3. PICK q : q = job.prog
    OBVIOUS
  <2>4. Starting(q)' /\ run' = "running" /\ UNCHANGED <<driver, tty, reg, made>>
    BY <1>4, <1>5, <2>1, <2>2, <2>3, StartStep
  <2>5. Fine(q)' /\ q \in {job'.prog}
    BY <1>1, <2>3, <2>4, FineNext
  <2>6. MachineInv'
    BY <1>1, <1>3, <2>1, <2>4, <2>5 DEF NativeInv, MachineInv
  <2> QED BY <1>2, <2>6 DEF NativeInv
<1>6. CASE ~Start
  <2>1. run = "running"
    BY <1>6 DEF Step, label, mov, add, push, pop, ret, call_main, libblaze_val_create_intval,
          libblaze_val_create_strval, libblaze_fn_println, libblaze_val_free, exit, Calls, Doing
  <2>2. PICK q : q = job.prog /\ (Fine(q) \/ Lost(q))
    BY <2>1 DEF NativeInv, MachineInv
  <2>3. status = "success" /\ Machine(q)
    BY <1>4, <2>1, <2>2 DEF NativeInv, MachineInv, Machine
  <2>4. CASE Goes /\ (Fine(q)' \/ Lost(q)')
    <3>1. q \in {job'.prog}
      BY <1>1, <2>2
    <3>2. MachineInv'
      BY <1>1, <1>3, <2>1, <2>3, <2>4, <3>1 DEF NativeInv, MachineInv, Goes
    <3> QED BY <1>2, <3>2 DEF NativeInv
  <2>5. CASE Exits
    <3>1. /\ UNCHANGED <<tty, reg, heap, made, job>> /\ run' = "exited"
          /\ Short /\ Top(0) /\ reg["rbp"] = Junk /\ DOMAIN heap = {} /\ PrintsProgram'
      BY <1>1, <2>5 DEF Exits
    <3>2. heap = <<>>
      <4>1. heap = [h \in {} |-> heap[h]]
        BY <3>1 DEF NativeInv, MachineInv
      <4> QED BY <4>1
    <3>3. Short' /\ Top(0)'
      BY <3>1 DEF Short, Top, Word
    <3>4. MachineInv'
      BY <1>1, <1>3, <2>3, <3>1, <3>2, <3>3 DEF NativeInv, MachineInv
    <3> QED BY <1>2, <3>4 DEF NativeInv
  <2>6. CASE Crash /\ ~Short
    <3>1. UNCHANGED <<tty, reg, heap, made, job>> /\ run' = "crashed"
      BY <1>1, <2>6 DEF Crash
    <3>2. ~Short'
      BY <2>6, <3>1 DEF Short
    <3>3. MachineInv'
      BY <1>1, <1>3, <2>3, <3>1, <3>2 DEF NativeInv, MachineInv
    <3> QED BY <1>2, <3>3 DEF NativeInv
  <2> QED BY <2>2, <2>3, <2>4, <2>5, <2>6, FineStep, LostStep
<1> QED BY <1>5, <1>6

(* Nothing changes.                                                        *)
LEMMA SameParts ==
  ASSUME UNCHANGED <<job, asm, status, cpu>>
  PROVE  /\ UNCHANGED <<job, asm, status, tty, rip, reg, mem, heap, made, written, stdio, run>>
         /\ \A d : Ahead(d) => Ahead(d)'
         /\ \A n : Top(n) => Top(n)'
         /\ \A a, w : Holds(a, w) => Holds(a, w)'
         /\ Base => Base'
         /\ \A p, i : Said(p, i) => Said(p, i)'
<1>1. UNCHANGED <<job, asm, status, tty, rip, reg, mem, heap, made, written, stdio, run>>
  BY DEF cpu
<1>2. \A d : Ahead(d) => Ahead(d)'
  BY <1>1 DEF Ahead
<1>3. (\A n : Top(n) => Top(n)') /\ (\A a, w : Holds(a, w) => Holds(a, w)')
  BY <1>1 DEF Top, Holds, Word
<1>4. Base => Base'
  BY <1>1 DEF Base, Holds, Word, Junk
<1>5. \A p, i : Said(p, i) => Said(p, i)'
  BY <1>1, QuietSaid
<1> QED BY <1>1, <1>2, <1>3, <1>4, <1>5

LEMMA SameFine ==
  ASSUME UNCHANGED <<job, asm, status, cpu>>, NEW p, Fine(p)
  PROVE  Fine(p)'
<1>0. UNCHANGED <<job, asm, status, tty, rip, reg, mem, heap, made, written, stdio, run>>
  BY SameParts
<1>1. ASSUME Starting(p) PROVE Fine(p)'
  BY <1>0, <1>1, SameParts, FineNext DEF Starting, Word, Junk
<1>2. ASSUME NEW i \in 1..(Len(p) + 1), ToCall(p, i) PROVE Fine(p)'
  BY <1>0, <1>2, SameParts, FineNext DEF ToCall, ShortBefore, Argc
<1>3. ASSUME NEW i \in 1..Len(p), NEW m \in Nat, ToCount(p, i, m) PROVE Fine(p)'
  <2>1. ToCount(p, i, m)'
    BY <1>0, <1>3, SameParts DEF ToCount, Within, After, Pile, Values, ShortBefore, Plain, Backslash, InRegisters
  <2> QED BY <2>1, FineNext
<1>4. ASSUME NEW i \in 1..Len(p), NEW m \in Nat, NEW k \in 1..(Argc(p, i) + 1), ToArg(p, i, k, m) PROVE Fine(p)'
  <2>1. ToArg(p, i, k, m)'
    BY <1>0, <1>4, SameParts DEF ToArg, Within, After, Pile, Values, ShortBefore, Plain, Backslash, InRegisters
  <2> QED BY <2>1, FineNext
<1>5. ASSUME NEW i \in 1..Len(p), NEW m \in Nat, NEW l \in 1..(Loaded(p, i) + 1), ToLoad(p, i, l, m) PROVE Fine(p)'
  <2>1. ToLoad(p, i, l, m)'
    BY <1>0, <1>5, SameParts DEF ToLoad, Within, After, Pile, Values, ShortBefore, Plain, Backslash, InRegisters
  <2> QED BY <2>1, FineNext
<1>6. ASSUME NEW i \in 1..Len(p), NEW m \in Nat, NEW k \in 1..Argc(p, i), ToMake(p, i, k, m) PROVE Fine(p)'
  <2>1. ToMake(p, i, k, m)'
    BY <1>0, <1>6, SameParts DEF ToMake, Within, After, Pile, Values, ShortBefore, Plain, Backslash, InRegisters
  <2> QED BY <2>1, FineNext
<1>7. ASSUME NEW i \in 1..Len(p), NEW m \in Nat, NEW k \in 1..Argc(p, i), ToPush(p, i, k, m) PROVE Fine(p)'
  <2>1. ToPush(p, i, k, m)'
    BY <1>0, <1>7, SameParts DEF ToPush, Within, After, Pile, Values, ShortBefore, Plain, Backslash, InRegisters
  <2> QED BY <2>1, FineNext
<1>8. ASSUME NEW i \in 1..Len(p), NEW m \in Nat, NEW k \in 0..Argc(p, i), ToFree(p, i, k, m) PROVE Fine(p)'
  <2>1. ToFree(p, i, k, m)'
    BY <1>0, <1>8, SameParts DEF ToFree, Within, After, Pile, Values, ShortBefore, Plain, Backslash, InRegisters
  <2> QED BY <2>1, FineNext
<1>9. ASSUME NEW i \in 1..Len(p), NEW m \in Nat, NEW k \in 0..Argc(p, i), ToDrop(p, i, k, m) PROVE Fine(p)'
  <2>1. ToDrop(p, i, k, m)'
    BY <1>0, <1>9, SameParts DEF ToDrop, Within, After, Pile, Values, ShortBefore, Plain, Backslash, InRegisters
  <2> QED BY <2>1, FineNext
<1>10. ASSUME NEW i \in 1..Len(p), ToLong(p, i) PROVE Fine(p)'
  <2>1. ToLong(p, i)'
    BY <1>0, <1>10, SameParts DEF ToLong, After, ShortBefore
  <2> QED BY <2>1, FineNext
<1>11. CASE ToReturn(p)
  <2>1. ToReturn(p)'
    BY <1>0, <1>11, SameParts DEF ToReturn, ShortBefore
  <2> QED BY <2>1, FineNext
<1>12. CASE \E at \in {4, 5} : Returned(p, at) /\ (at = 5 => reg["rdi"] = Word("number", 0))
  BY <1>0, <1>12, SameParts DEF Fine, Returned, ShortBefore
<1> QED BY <1>1, <1>2, <1>3, <1>4, <1>5, <1>6, <1>7, <1>8, <1>9, <1>10, <1>11, <1>12 DEF Fine

LEMMA SameLost ==
  ASSUME UNCHANGED <<job, asm, status, cpu>>, NEW p, Lost(p)
  PROVE  Lost(p)'
<1>0. UNCHANGED <<job, asm, status, tty, rip, reg, mem, heap, made, written, stdio, run>>
  BY SameParts
<1>l. Long(p)
  BY DEF Lost, Long
<1>1. ASSUME NEW i, NEW k, Wrong(p, i, k) PROVE Wrong(p, i, k)'
  BY <1>0, <1>1 DEF Wrong, StaleCount, NoCount, Junk
<1>2. ASSUME NEW i \in 1..(Len(p) + 1), NEW q \in Nat, LostCall(p, i, q) PROVE Lost(p)'
  <2>1. LostCall(p, i, q)'
    BY <1>0, <1>1, <1>2, SameParts DEF LostCall, Shifted, NoCount, Word
  <2> QED BY <1>l, <2>1, LostNext
<1>3. ASSUME NEW i \in 1..Len(p), NEW q \in Nat, LostCount(p, i, q) PROVE Lost(p)'
  <2>1. LostCount(p, i, q)'
    BY <1>0, <1>1, <1>3, SameParts DEF LostCount, Shifted, NoCount, Word
  <2> QED BY <1>l, <2>1, LostNext
<1>4. ASSUME NEW i \in 1..Len(p), NEW q \in Nat, NEW k \in 1..(Argc(p, i) + 1), LostArg(p, i, k, q) PROVE Lost(p)'
  <2>1. LostArg(p, i, k, q)'
    BY <1>0, <1>1, <1>4, SameParts DEF LostArg, Shifted, NoCount, Word
  <2> QED BY <1>l, <2>1, LostNext
<1>5. ASSUME NEW i \in 1..Len(p), NEW q \in Nat, NEW k \in 1..Argc(p, i), LostMake(p, i, k, q) PROVE Lost(p)'
  <2>1. LostMake(p, i, k, q)'
    BY <1>0, <1>1, <1>5, SameParts DEF LostMake, Shifted, NoCount, Word
  <2> QED BY <1>l, <2>1, LostNext
<1>6. ASSUME NEW i \in 1..Len(p), NEW q \in Nat, NEW k \in 1..Argc(p, i), LostPush(p, i, k, q) PROVE Lost(p)'
  <2>1. LostPush(p, i, k, q)'
    BY <1>0, <1>1, <1>6, SameParts DEF LostPush, Shifted, NoCount, Word
  <2> QED BY <1>l, <2>1, LostNext
<1>7. ASSUME NEW i \in 1..Len(p), NEW l \in 1..(Loaded(p, i) + 1), LostLoad(p, i, l) PROVE Lost(p)'
  <2>1. LostLoad(p, i, l)'
    BY <1>0, <1>1, <1>7, SameParts DEF LostLoad, Shifted, NoCount, Word
  <2> QED BY <1>l, <2>1, LostNext
<1>8. ASSUME NEW q \in Nat, LostReturn(q) PROVE Lost(p)'
  <2>1. LostReturn(q)'
    BY <1>0, <1>8, SameParts DEF LostReturn
  <2> QED BY <1>l, <2>1, LostNext
<1> QED BY <1>2, <1>3, <1>4, <1>5, <1>6, <1>7, <1>8 DEF Lost

LEMMA NextNativeInv == IInv /\ FreedInv /\ NativeInv /\ [NativeNext]_vars => NativeInv'
<1> SUFFICES ASSUME IInv, FreedInv, NativeInv, [NativeNext]_vars PROVE NativeInv'
  OBVIOUS
<1>1. CASE Parent /\ UNCHANGED cpu
  <2>1. Compiled' /\ status # "success"
    BY <1>1, CompiledKept, DriverOver DEF NativeInv
  <2>2. run = "no" /\ Unstarted
    BY <2>1 DEF NativeInv, MachineInv
  <2>3. UNCHANGED <<tty, reg, mem, heap, made, written, stdio, run>>
    BY <1>1 DEF cpu
  <2>4. Unstarted'
    BY <2>2, <2>3 DEF Unstarted
  <2>5. MachineInv'
    BY <2>2, <2>3, <2>4 DEF NativeInv, MachineInv
  <2> QED BY <2>1, <2>5 DEF NativeInv
<1>2. CASE Step
  BY <1>2, StepNativeInv
<1>3. CASE UNCHANGED <<job, asm, status, cpu>>
  <2>1. UNCHANGED <<job, asm, status, tty, reg, mem, heap, made, written, stdio, run>>
    BY <1>3, SameParts
  <2>2. Compiled' /\ (Unstarted => Unstarted') /\ (PrintsProgram => PrintsProgram') /\ (Short <=> Short')
    BY <2>1 DEF NativeInv, Compiled, Unstarted, PrintsProgram, Plain, Backslash, Meaning, Short, Same,
                OnlyStrings, NoneEmpty
  <2>3. run' = "running" => \E p \in {job'.prog} : Fine(p)' \/ Lost(p)'
    <3>1. ASSUME NEW p, p = job.prog, Fine(p) \/ Lost(p) PROVE p \in {job'.prog} /\ (Fine(p)' \/ Lost(p)')
      BY <1>3, <2>1, <3>1, SameFine, SameLost
    <3> QED BY <2>1, <3>1 DEF NativeInv, MachineInv
  <2>4. Top(0) => Top(0)'
    BY <2>1 DEF Top, Word
  <2>5. MachineInv'
    BY <2>1, <2>2, <2>3, <2>4 DEF NativeInv, MachineInv
  <2> QED BY <2>2, <2>5 DEF NativeInv
<1>4. CASE Tool /\ UNCHANGED cpu
  BY <1>3, <1>4, ToolLeaves
<1>5. CASE UNCHANGED vars
  BY <1>3, <1>5 DEF vars, driver
<1> QED BY <1>1, <1>2, <1>4, <1>5 DEF NativeNext, Stutter

-----------------------------------------------------------------------------
(* What the invariant says of the machine.                                 *)
Stacked    == {mem[a].n : a \in {b \in DOMAIN mem : mem[b].kind = "value"}}
Registered == {reg[r].n : r \in {q \in Reg : reg[q].kind = "value"}}

LEMMA PileStacked ==
  ASSUME NEW p, NEW i, NEW k \in Nat, NEW m \in Nat, Pile(p, i, k, m)
  PROVE  (m + 1)..(m + k) \subseteq Stacked
<1> SUFFICES ASSUME NEW h \in (m + 1)..(m + k) PROVE h \in Stacked
  OBVIOUS
<1> DEFINE j == h - m
           a == -24 - 8 * j
<1>1. j \in 1..k /\ m + j = h
  OBVIOUS
<1>2. Holds(a, Word("value", m + j))
  BY <1>1 DEF Pile
<1> HIDE DEF a
<1>3. a \in DOMAIN mem /\ mem[a].kind = "value" /\ mem[a].n = h
  BY <1>1, <1>2 DEF Holds, Word
<1> QED BY <1>3 DEF Stacked

LEMMA RegisterIs ==
  ASSUME NEW r \in Reg, NEW h, reg[r] = Word("value", h)
  PROVE  h \in Registered
<1>1. reg[r].kind = "value" /\ reg[r].n = h
  BY DEF Word
<1> QED BY <1>1 DEF Registered

LEMMA FineHeld ==
  ASSUME NEW p, Program(p), Fine(p)
  PROVE  DOMAIN heap \subseteq Stacked \cup Registered
<1>0. CASE DOMAIN heap = {}
  BY <1>0
<1>1. ASSUME NEW i, NEW k \in Nat, NEW m \in Nat, Pile(p, i, k, m),
             \/ DOMAIN heap = (m + 1)..(m + k)
             \/ DOMAIN heap = (m + 1)..(m + (k + 1)) /\ m + (k + 1) \in Registered
      PROVE  DOMAIN heap \subseteq Stacked \cup Registered
  <2>1. (m + 1)..(m + k) \subseteq Stacked
    BY <1>1, PileStacked
  <2>2. (m + 1)..(m + (k + 1)) = (m + 1)..(m + k) \cup {m + (k + 1)}
    OBVIOUS
  <2> QED BY <1>1, <2>1, <2>2
<1>2. \A i \in 1..Len(p) : Argc(p, i) \in Nat
  BY ProgramIs
<1>3. ASSUME NEW i \in 1..Len(p), NEW m \in Nat, NEW k \in 1..(Argc(p, i) + 1), ToArg(p, i, k, m)
      PROVE  DOMAIN heap \subseteq Stacked \cup Registered
  <2>1. k - 1 \in Nat
    BY <1>2
  <2> QED BY <1>1, <1>3, <2>1 DEF ToArg, Values
<1>4. ASSUME NEW i \in 1..Len(p), NEW m \in Nat, NEW l, ToLoad(p, i, l, m)
      PROVE  DOMAIN heap \subseteq Stacked \cup Registered
  BY <1>1, <1>2, <1>4 DEF ToLoad, Values
<1>5. ASSUME NEW i \in 1..Len(p), NEW m \in Nat, NEW k \in 1..Argc(p, i), ToMake(p, i, k, m)
      PROVE  DOMAIN heap \subseteq Stacked \cup Registered
  <2>1. k - 1 \in Nat
    BY <1>2
  <2> QED BY <1>1, <1>5, <2>1 DEF ToMake, Values
<1>6. ASSUME NEW i \in 1..Len(p), NEW m \in Nat, NEW k \in 1..Argc(p, i), ToPush(p, i, k, m)
      PROVE  DOMAIN heap \subseteq Stacked \cup Registered
  <2>1. k - 1 \in Nat /\ (k - 1) + 1 = k
    BY <1>2
  <2>2. m + k \in Registered
    BY <1>6, Regs, RegisterIs DEF ToPush
  <2> QED BY <1>1, <1>6, <2>1, <2>2 DEF ToPush, Values
<1>7. ASSUME NEW i \in 1..Len(p), NEW m \in Nat, NEW k \in 0..Argc(p, i), ToFree(p, i, k, m)
      PROVE  DOMAIN heap \subseteq Stacked \cup Registered
  <2>1. k \in Nat
    BY <1>2
  <2> QED BY <1>1, <1>7, <2>1 DEF ToFree
<1>8. ASSUME NEW i \in 1..Len(p), NEW m \in Nat, NEW k \in 0..Argc(p, i), ToDrop(p, i, k, m)
      PROVE  DOMAIN heap \subseteq Stacked \cup Registered
  <2>1. k \in Nat
    BY <1>2
  <2>2. m + (k + 1) = m + k + 1
    BY <2>1
  <2>3. m + k + 1 \in Registered
    BY <1>8, Regs, RegisterIs DEF ToDrop
  <2> QED BY <1>1, <1>8, <2>1, <2>2, <2>3 DEF ToDrop
<1>9. CASE \/ Starting(p) \/ ToReturn(p) \/ \E i : ToLong(p, i) \/ ToCall(p, i)
           \/ \E i, m : ToCount(p, i, m)
           \/ \E at : Returned(p, at)
  BY <1>0, <1>9 DEF Starting, ToReturn, ToLong, ToCall, ToCount, Returned
<1> QED BY <1>3, <1>4, <1>5, <1>6, <1>7, <1>8, <1>9 DEF Fine

LEMMA NativeInvBalanced == IInv /\ NativeInv => Balanced
<1> SUFFICES ASSUME IInv, NativeInv PROVE ReturnsIffShort /\ ValuesFreed
  BY DEF Balanced
<1>1. ReturnsIffShort
  BY DEF NativeInv, MachineInv, ReturnsIffShort, Top
<1>2. ASSUME run = "running", Short
      PROVE  DOMAIN heap \subseteq Stacked \cup Registered
  <2>1. PICK p : p = job.prog /\ (Fine(p) \/ Lost(p))
    BY <1>2 DEF NativeInv, MachineInv
  <2>2. Program(p)
    <3>1. job.prog \in Seq(Statement)
      BY JobAssumption DEF IInv
    <3> QED BY <1>2, <2>1, <3>1 DEF NativeInv, MachineInv, Compiled, Supported, Program
  <2>3. ~Lost(p)
    BY <1>2, <2>1, <2>2, LongIs DEF Lost, Long
  <2> QED BY <2>1, <2>2, <2>3, FineHeld
<1>3. ValuesFreed
  BY <1>2 DEF NativeInv, MachineInv, ValuesFreed, Stacked, Registered
<1> QED BY <1>1, <1>3

LEMMA NativeInvPrints == NativeInv => PrintsProgram
  BY DEF NativeInv, MachineInv, PrintsProgram

LEMMA MachineAlways == NativeSpec => [](IInv /\ NativeInv)
<1>1. NativeInit => IInv /\ FreedInv /\ NativeInv
  BY InitIInv, InitFreedInv, InitNativeInv DEF NativeInit
<1>2. IInv /\ FreedInv /\ NativeInv /\ [NativeNext]_vars => (IInv /\ FreedInv /\ NativeInv)'
  <2>1. [NativeNext]_vars => [Next]_driver
    BY StepKeepsDriver DEF NativeNext, Next, Stutter, vars
  <2> QED BY <2>1, NextIInv, NextFreedInv, NextNativeInv
<1> QED BY <1>1, <1>2, PTL DEF NativeSpec

(* A compiled program in which no call has more than five arguments never  *)
(* crashes; every value it has made is on its stack or in a register until *)
(* it is freed; and when it exits its stack and its frame are as it found  *)
(* them and no value is left.  A program with a longer call never exits:   *)
(* it gives back more of the stack than it took, and cannot find its way   *)
(* back to _start.                                                         *)
THEOREM NativeBalanced == NativeSpec => []Balanced
  BY MachineAlways, NativeInvBalanced, PTL

(* And when it exits, without a backslash in it, it has printed all of its *)
(* strings in order and all of its numbers in order, on a terminal both in *)
(* one order; a program of strings prints what the interpreter prints.     *)
THEOREM NativePrintsProgram == NativeSpec => []PrintsProgram
  BY MachineAlways, NativeInvPrints, PTL
=============================================================================
