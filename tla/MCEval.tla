------------------------------- MODULE MCEval -------------------------------
(***************************************************************************)
(* Eval on two families of small programs, one with a function, the other  *)
(* with loops and operators: programs with all three have too many states. *)
(***************************************************************************)
EXTENDS Eval

VARIABLE family

MCInit == Init /\ family \in {"functions", "loops"}

MCNext ==
  /\ \/ Basics
     \/ family = "functions" /\ FunctionsAndCalls
     \/ family = "loops" /\ LoopsAndOperators
  /\ UNCHANGED family

MCSpec == MCInit /\ [][MCNext]_<<vars, family>>
=============================================================================
