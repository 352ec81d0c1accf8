------------------------------ MODULE MCNative ------------------------------
(***************************************************************************)
(* Native on small command lines and programs: every command line with a   *)
(* few programs and calls that fail, every program with none that does.    *)
(***************************************************************************)
EXTENDS Native

CONSTANT MaxArgs  (* the longest call                                      *)

N(n) == [type |-> "int", val |-> n]
S(s) == [type |-> "string", val |-> s]
Complex == [type |-> "other", val |-> 0]

Arg == {N(7), S(<<"a">>), S(<<"quote", "a">>)}

Call(fn, args) == [kind |-> "call", fn |-> fn, args |-> args]
Other          == [kind |-> "other", fn |-> "none", args |-> <<>>]

(* Calls of up to two arguments, and long ones of numbers and strings.     *)
Few   == UNION {[1..n -> Arg] : n \in 0..2}
Long  == {[i \in 1..n |-> IF i % 2 = p THEN N(i) ELSE S(<<"a">>)] : n \in 3..MaxArgs, p \in {0, 1}}
Prints(all) == {Call("println", args) : args \in all}

(* Programs that the compiler, or the assembler, does not take.            *)
Refused ==
  {<<Other>>, <<Call("f", <<>>)>>, <<Call("println", <<Complex>>)>>,
   <<Call("println", <<S(<<"backslash">>)>>)>>, <<Call("println", <<S(<<"backslash", "a">>)>>)>>,
   <<Call("println", <<S(<<"a">>)>>), Other>>}

Programs ==
  {<<>>} \cup Refused \cup {<<s>> : s \in Prints(Few \cup Long)}
    \cup {<<s, t>> : s \in Prints(Few \cup Long), t \in Prints(Few)}

F(stem, ext) == [stem |-> stem, ext |-> ext]
Bl1   == F(<<"p">>, ".bl")
NoExt == F(<<"p">>, "none")
Asm   == F(<<"p">>, ".s")
MCFile == {Bl1, NoExt, Asm, F(<<"a">>, ".out")}
            \cup {F(stem, ext) : stem \in {<<"p">>, <<"p", ".s">>}, ext \in {".o", ".s", ".out"}}

O(c, arg) == [c |-> c, arg |-> arg]
Letters   == {O(c, NoFile) : c \in {"S", "G", "c", "x", "?", ":"}}
Options   == Letters \cup {O("o", NoExt), O("o", Bl1), O("a", "ARCH_X86_64"), O("a", "ARCH_I386"),
                           O("a", "invalid")}
UpTo(n)   == UNION {[1..k -> Options] : k \in 0..n}

MCJob(o, f, syntax, prog, debug, failing) ==
  [options |-> o, infile |-> f, syntax |-> syntax, prog |-> prog, debug |-> debug,
   failing |-> failing]

Hello   == <<Call("println", <<S(<<"a">>), N(7)>>)>>
Failing == {"read", "open", "mkstemp_asm", "mkstemp_obj", "write", "fork_as", "fork_ld", "as", "ld",
            "wait", "unlink_asm", "unlink_obj"}

(* The empty program with every command line, others with short ones.      *)
CommandLines ==
  {MCJob(o, Bl1, TRUE, <<>>, FALSE, Failing) : o \in UpTo(2)}
    \cup {MCJob(o, f, TRUE, <<>>, FALSE, Failing) : o \in UpTo(1), f \in {NoExt, Asm, NoFile}}
    \cup {MCJob(o, Bl1, TRUE, Hello, FALSE, Failing) : o \in UpTo(1)}
    \cup {MCJob(<<>>, Bl1, TRUE, prog, debug, Failing) : prog \in Refused, debug \in BOOLEAN}
    \cup {MCJob(<<>>, Bl1, TRUE, <<Call("println", <<S(<<"quote">>)>>)>>, FALSE, Failing)}
    \cup {MCJob(<<O("c", NoFile)>>, Bl1, FALSE, Hello, TRUE, Failing)}

(* Every program, and nothing that fails.                                  *)
AllPrograms == {MCJob(<<>>, Bl1, TRUE, prog, debug, {}) : prog \in Programs, debug \in BOOLEAN}

Jobs == CommandLines \cup AllPrograms

(* A number before a string.                                               *)
OneLine == {MCJob(<<>>, Bl1, TRUE, <<Call("println", <<N(1), S(<<"a">>)>>)>>, FALSE, {})}
=============================================================================
