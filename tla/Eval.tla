-------------------------------- MODULE Eval --------------------------------
(***************************************************************************)
(* The evaluator of src/eval.c, run by every program at once: what the     *)
(* next statement is, the model chooses.  Names, kinds of expression and   *)
(* sizes are bounded; conditions (eval_if_stmt) are choices.               *)
(*                                                                         *)
(* The C stack is a sequence of frames.  A frame keeps the C locals that   *)
(* outlive the evaluation of a child node: the scope pointer it evaluates  *)
(* with, the loop counter, and in a call the val_t pointer of the function *)
(* that scope_resolve_identifier returned.                                 *)
(***************************************************************************)
EXTENDS Scope, Values

CONSTANTS
  VarName,       (* names that programs declare with var and const         *)
  FnName,        (* names of functions                                     *)
  ParamName,     (* names of parameters                                    *)
  NoName,        (* no name: a null char pointer                           *)
  Literal,       (* the literals: null, and the string "1"                 *)
  SteadyCalls,   (* do programs make steady calls only (see Steady)        *)
  CopyHeapVals,  (* do they bind a heap value to a second name             *)
  LoopCount,     (* iteration counts of loops                              *)
  Operators,     (* the binary operators in expressions                    *)
  FilterCount,   (* lengths of the arrays that array_filter is called with *)
  MaxScopes, MaxFns, MaxStrs, MaxFrames   (* bounds                        *)

ASSUME EvalAssumption ==
  /\ {SteadyCalls, CopyHeapVals} \subseteq BOOLEAN
  /\ Literal \subseteq {"null", "string"}
  /\ LoopCount \cup FilterCount \cup {MaxScopes, MaxFns, MaxStrs, MaxFrames} \subseteq Nat
  /\ Operators \subseteq Comparison \cup {"+", "-", "*", "/", "%"}
  /\ {NoName, "null", "string"} \cap (VarName \cup FnName \cup ParamName) = {}

VARIABLES
  scopes,  (* every scope, see Scope                                       *)
  fns,     (* every user function: its scope and its parameter             *)
  tbl,     (* val_alloc_tbl, see ValAlloc                                  *)
  frames,  (* the C stack                                                  *)
  status   (* "running", "exited" after a runtime error, "done"            *)

vars == <<scopes, fns, tbl, frames, status>>

Global == 1
Name == VarName \cup FnName \cup ParamName

(* A leaf is null, a string or an identifier; integers come from the       *)
(* counters of loops.                                                      *)
Expr == Literal \cup Name

-----------------------------------------------------------------------------
Init ==
  /\ scopes = scope_create_global
  /\ fns = <<>>
  /\ tbl = val_alloc_tbl_init
  /\ frames = <<[kind |-> "root", scope |-> Global]>>
  /\ status = "running"

Top == frames[Len(frames)]
Push(f) == frames' = Append(frames, f)
SetTop(f) == [frames EXCEPT ![Len(frames)] = f]

(* The pointer a call keeps to its function, and what it points at.        *)
Callee(s, name) == [scope |-> s, name |-> name, capacity |-> scopes[s].capacity]
NoVal == Val("none", 0, 0)
PointsAt(callee) == scopes[callee.scope].vals[callee.name].value

(* The pointer is good while the scope lives and its array has not moved.  *)
ValidCallee(callee) ==
  scopes[callee.scope].live /\ scopes[callee.scope].capacity = callee.capacity

(* The scope in which the next node is evaluated.  A call reads            *)
(* val->fnval->scope again for every statement of the body.                *)
EvalScope ==
  CASE Top.kind = "call"   -> fns[PointsAt(Top.callee).ref].scope
    [] Top.kind = "filter" -> Top.new_scope
    [] OTHER               -> Top.scope

(* The next node is a statement, or an expression that the evaluation of a *)
(* declaration, an assignment or a call waits for.                         *)
AtStatement ==
  /\ status = "running"
  /\ \/ Top.kind \in {"root", "block"}
     \/ Top.kind = "loop" /\ Top.counter < Top.count
     \/ Top.kind = "call" /\ ValidCallee(Top.callee)
     \/ Top.kind = "filter" /\ Top.new_scope # 0

AtExpr ==
  /\ status = "running"
  /\ Top.kind \in {"var_decl", "assignment", "args"}
  /\ Top.val = NoVal

HasValue(kind) ==
  /\ status = "running"
  /\ Top.kind = kind
  /\ Top.val # NoVal

(* A search that meets a freed scope does not return.                      *)
CanSearch(s, name) == \A t \in Visited(scopes, s, name) : scopes[t].live

(* RUNTIME_ERROR, fatal_error and the built-in function exit() end the     *)
(* process, and what it still holds goes with it.                          *)
Exit ==
  /\ status' = "exited"
  /\ scopes' = <<>>
  /\ fns' = <<>>
  /\ tbl' = val_alloc_tbl_init
  /\ frames' = <<>>
RuntimeError == Exit

(* The value of an expression and the table of heap values after it; an    *)
(* identifier gives a copy of the val_t, a second owner of what it owns.   *)
Defined(e, s) == e \in Name => CanSearch(s, e) /\ scope_resolve_identifier(scopes, s, e) # 0
Missing(e, s) == e \in Name /\ CanSearch(s, e) /\ scope_resolve_identifier(scopes, s, e) = 0
EvalWith(t, e, s) ==
  CASE e = "string" -> NewString(t, <<49>>)
    [] e = "null"   -> [val |-> BLAZE_NULL, tbl |-> t]
    [] e \in Name   -> [val |-> scopes[scope_resolve_identifier(scopes, s, e)].vals[e].value, tbl |-> t]
Eval(e, s) == EvalWith(tbl, e, s)

(* Programs of the class: functions are declared and called, and are not   *)
(* passed around as values; the strings made are bounded.                  *)
InClass(e, s) ==
  /\ e \in Name => Eval(e, s).val.type # "VAL_FUNCTION"
  /\ e = "string" => Len(tbl.texts) < MaxStrs
Copyable(e, s) == CopyHeapVals \/ e \notin Name \/ Eval(e, s).val.self_ptr = 0

(* eval of a literal or an identifier.                                     *)
eval_leaf(e) ==
  /\ AtExpr
  /\ \/ /\ Defined(e, Top.scope)
        /\ InClass(e, Top.scope)
        /\ Top.kind # "args" => Copyable(e, Top.scope)
        /\ frames' = SetTop([Top EXCEPT !.val = Eval(e, Top.scope).val])
        /\ tbl' = Eval(e, Top.scope).tbl
        /\ UNCHANGED <<scopes, fns, status>>
     \/ Missing(e, Top.scope) /\ RuntimeError

(* What Values says about the val_t of the evaluator, and back.            *)
ValueOf(v, t) ==
  CASE v.type = "VAL_STRING" -> String(t.texts[v.ref])
    [] v.type = "VAL_INTEGER" -> Integer(v.ref)
    [] v.type = "VAL_BOOLEAN" -> Boolean(v.ref = 1)
    [] OTHER -> Other(v.type)

Made(result, t) ==
  IF result.type = "VAL_STRING" THEN NewString(t, result.text)
  ELSE [val |-> Val(result.type, 0, result.int), tbl |-> t]

(* eval_binexp of two leaves: the left one is evaluated first.  What it    *)
(* makes of them stays in the table of heap values.                        *)
BinaryExpr(operator, e, f) ==
  /\ AtExpr
  /\ LET s == Top.scope IN
     \/ /\ Defined(e, s) /\ InClass(e, s) /\ Defined(f, s) /\ InClass(f, s)
        /\ LET left   == EvalWith(tbl, e, s)
               right  == EvalWith(left.tbl, f, s)
               result == eval_binexp(operator, ValueOf(left.val, right.tbl), ValueOf(right.val, right.tbl))
               made   == Made(result.value, right.tbl)
           IN  \/ /\ result.how = "value"
                  /\ Len(made.tbl.texts) <= MaxStrs
                  /\ frames' = SetTop([Top EXCEPT !.val = made.val])
                  /\ tbl' = made.tbl
                  /\ UNCHANGED <<scopes, fns, status>>
               \/ result.how = "error" /\ RuntimeError
     \/ (Missing(e, s) \/ (Defined(e, s) /\ Missing(f, s))) /\ RuntimeError

-----------------------------------------------------------------------------
(* The copy of a function's body that eval_fn_decl makes has lost const,   *)
(* except inside the blocks of the body.                                   *)
eval_var_decl(name, is_const) ==
  /\ AtStatement
  /\ Len(frames) < MaxFrames
  /\ Push([kind |-> "var_decl", scope |-> EvalScope, name |-> name, val |-> NoVal,
           is_const |-> is_const /\ Top.kind \notin {"call", "filter"}])
  /\ UNCHANGED <<scopes, fns, tbl, status>>

(* Mutant: a loop's scope always takes redeclarations.                     *)
RedeclaresAlways(scope) == scope.mode = "SC_MODE_REUSE"

(* A loop body that runs again declares its variables again, in the scope  *)
(* of the first iteration.                                                 *)
Redeclares(scope) == scope.mode = "SC_MODE_REUSE" /\ scope.unique_id = scope.prev_unique_id

VarDeclEnds ==
  /\ HasValue("var_decl")
  /\ \/ /\ Redeclares(scopes[Top.scope])
        /\ scopes' = [scopes EXCEPT ![Top.scope] =
                        valmap_set_default(@, Top.name, Top.val, Top.is_const)]
        /\ frames' = Front(frames)
        /\ UNCHANGED <<fns, tbl, status>>
     \/ /\ ~Redeclares(scopes[Top.scope])
        /\ CanDeclare(scopes[Top.scope], Top.name)
        /\ scopes' = [scopes EXCEPT ![Top.scope] =
                        scope_declare_identifier(@, Top.name, Top.val, Top.is_const)]
        /\ frames' = Front(frames)
        /\ UNCHANGED <<fns, tbl, status>>
     \/ /\ ~Redeclares(scopes[Top.scope])
        /\ ~CanDeclare(scopes[Top.scope], Top.name)
        /\ RuntimeError

eval_assignment(name) ==
  /\ AtStatement
  /\ Len(frames) < MaxFrames
  /\ Push([kind |-> "assignment", scope |-> EvalScope, name |-> name, val |-> NoVal])
  /\ UNCHANGED <<scopes, fns, tbl, status>>

(* Mutant: constants are assignable.                                       *)
AssignableConst(home, name) == home # 0

Assignable(home, name) == IF home = 0 THEN FALSE ELSE ~scopes[home].vals[name].is_const

AssignmentEnds ==
  /\ HasValue("assignment")
  /\ CanSearch(Top.scope, Top.name)
  /\ LET home == scope_resolve_identifier(scopes, Top.scope, Top.name) IN
     \/ /\ Assignable(home, Top.name)
        /\ scopes' = scope_assign_identifier(scopes, Top.scope, Top.name, Top.val)
        /\ frames' = Front(frames)
        /\ UNCHANGED <<fns, tbl, status>>
     \/ ~Assignable(home, Top.name) /\ RuntimeError

(* The function's scope is a child of the declaring scope; nobody ever     *)
(* frees it.                                                               *)
eval_fn_decl(name, param) ==
  /\ AtStatement
  /\ Len(scopes) < MaxScopes
  /\ Len(fns) < MaxFns
  /\ LET s == EvalScope IN
     \/ /\ CanDeclare(scopes[s], name)
        /\ fns' = Append(fns, [scope |-> Len(scopes) + 1, param |-> param])
        /\ scopes' = scope_init([scopes EXCEPT ![s] = scope_declare_identifier(@, name,
                                   Val("VAL_FUNCTION", 0, Len(fns) + 1), TRUE)],
                                "function", s)
        /\ UNCHANGED <<tbl, frames, status>>
     \/ ~CanDeclare(scopes[s], name) /\ RuntimeError

-----------------------------------------------------------------------------
(* eval_block: a scope for the statements, freed at the end.               *)
eval_block ==
  /\ AtStatement
  /\ Len(scopes) < MaxScopes
  /\ Len(frames) < MaxFrames
  /\ scopes' = scope_init(scopes, "block", EvalScope)
  /\ Push([kind |-> "block", scope |-> Len(scopes) + 1])
  /\ UNCHANGED <<fns, tbl, status>>

(* Mutant: the scope is left and not freed.                                *)
FreeTopScopeLeaks ==
  /\ frames' = Front(frames)
  /\ UNCHANGED <<scopes, fns, tbl, status>>

FreeTopScope ==
  /\ scopes' = scope_free(scopes, Top.scope)
  /\ tbl' = scope_free_values(scopes[Top.scope], tbl)
  /\ frames' = Front(frames)
  /\ UNCHANGED <<fns, status>>

BlockEnds ==
  /\ status = "running"
  /\ Top.kind = "block"
  /\ FreeTopScope

(* eval_loop_stmt: one scope for all iterations.  A loop cannot be a       *)
(* statement of a function's body (only inside a block of it): eval_fn_decl *)
(* fails to copy it.                                                       *)
Counter(n) == Val("VAL_INTEGER", 0, n)

eval_loop_stmt(varname, count) ==
  /\ AtStatement
  /\ Top.kind \notin {"call", "filter"}
  /\ Len(scopes) < MaxScopes
  /\ Len(frames) < MaxFrames
  /\ LET fresh == [NewScope("loop", EvalScope) EXCEPT !.mode = "SC_MODE_REUSE", !.unique_id = 1]
     IN  scopes' = Append(scopes, IF varname = NoName THEN fresh
                                  ELSE scope_declare_identifier(fresh, varname, Counter(0), TRUE))
  /\ Push([kind |-> "loop", scope |-> Len(scopes) + 1,
           counter |-> 0, count |-> count, varname |-> varname])
  /\ UNCHANGED <<fns, tbl, status>>

(* The body has run: the bookkeeping after it, and before the next one.    *)
LoopAgain ==
  /\ status = "running"
  /\ Top.kind = "loop"
  /\ Top.counter < Top.count
  /\ LET n == Top.counter + 1
         reuse == [scopes[Top.scope] EXCEPT !.unique_id = n,
                                            !.prev_unique_id = IF n < Top.count THEN n ELSE @]
     IN  /\ scopes' = [scopes EXCEPT ![Top.scope] =
                         IF Top.varname = NoName THEN reuse
                         ELSE valmap_set_default(reuse, Top.varname, Counter(n), TRUE)]
         /\ frames' = SetTop([Top EXCEPT !.counter = n])
  /\ UNCHANGED <<fns, tbl, status>>

LoopEnds ==
  /\ status = "running"
  /\ Top.kind = "loop"
  /\ Top.counter = Top.count
  /\ FreeTopScope

-----------------------------------------------------------------------------
(* A call is steady if the search for the function passes no scope of a    *)
(* block or a loop on its way to the scope that binds it.                  *)
Steady(s, name) ==
  \A t \in Visited(scopes, s, name) \ {scope_resolve_identifier(scopes, s, name)} :
    scopes[t].kind = "function"

IsFunction(home, name) ==
  IF home = 0 THEN FALSE ELSE scopes[home].vals[name].value.type = "VAL_FUNCTION"

(* eval_expr_call up to the evaluation of the arguments.                   *)
eval_expr_call(name, argc) ==
  /\ AtStatement \/ AtExpr
  /\ Len(frames) < MaxFrames
  /\ LET s    == EvalScope
         home == scope_resolve_identifier(scopes, s, name)
     IN  /\ CanSearch(s, name)
         /\ \/ /\ IsFunction(home, name)
               /\ SteadyCalls => Steady(s, name)
               /\ Push([kind |-> "args", scope |-> s, callee |-> Callee(home, name),
                        argc |-> argc, val |-> IF argc = 0 THEN BLAZE_NULL ELSE NoVal])
               /\ UNCHANGED <<scopes, fns, tbl, status>>
            \/ ~IsFunction(home, name) /\ RuntimeError

(* Its middle: the arguments are bound in the function's own scope.        *)
CallBody ==
  /\ HasValue("args")
  /\ ValidCallee(Top.callee)
  /\ LET fn == fns[PointsAt(Top.callee).ref]
         call == [kind |-> "call", scope |-> Top.scope, callee |-> Top.callee, val |-> Top.val]
     IN  \/ /\ fn.param = NoName /\ Top.argc = 0
            /\ frames' = SetTop(call)
            /\ UNCHANGED <<scopes, fns, tbl, status>>
         \/ /\ fn.param # NoName /\ Top.argc = 1
            /\ CanDeclare(scopes[fn.scope], fn.param)
            /\ scopes' = [scopes EXCEPT ![fn.scope] =
                            scope_declare_identifier(@, fn.param, Top.val, TRUE)]
            /\ frames' = SetTop(call)
            /\ UNCHANGED <<fns, tbl, status>>
         \/ /\ fn.param # NoName /\ Top.argc = 1
            /\ ~CanDeclare(scopes[fn.scope], fn.param)
            /\ RuntimeError
         \/ /\ (fn.param = NoName) # (Top.argc = 0)
            /\ RuntimeError

(* Its end: the value e of the last statement is copied, and the function  *)
(* gets a new scope, a child of the scope of the caller.                   *)
Deliver(stack, val) ==
  LET below == stack[Len(stack)]
  IN  IF below.kind \in {"var_decl", "assignment", "args"}
      THEN [stack EXCEPT ![Len(stack)].val = val]
      ELSE stack

CallEnds(e) ==
  /\ AtStatement
  /\ Top.kind = "call"
  /\ Len(scopes) < MaxScopes
  /\ LET s == EvalScope IN
     \/ /\ Defined(e, s) /\ InClass(e, s)
        /\ LET ret  == Eval(e, s)
               copy == val_copy_deep(ret.val, ret.tbl)
           IN  /\ frames' = Deliver(Front(frames), copy.val)
               /\ tbl' = copy.tbl
        /\ scopes' = scope_init(scopes, "function", Top.scope)
        /\ fns' = [fns EXCEPT ![PointsAt(Top.callee).ref].scope = Len(scopes) + 1]
        /\ UNCHANGED status
     \/ Missing(e, s) /\ RuntimeError

-----------------------------------------------------------------------------
(* array_filter of an array literal of integers and a function.  A program *)
(* of the class does not pass a function that is running.                  *)
Element == Val("VAL_INTEGER", 0, 1)
eval_array_lit(n) == FoldLeft(LAMBDA t, i : val_copy_deep(Element, t).tbl, tbl, [i \in 1..n |-> i])

Activation(k) == frames[k].kind = "call" \/ (frames[k].kind = "filter" /\ frames[k].new_scope # 0)
FnOf(frame) == IF frame.kind = "call" THEN PointsAt(frame.callee).ref ELSE frame.fn

array_filter(name, n) ==
  /\ AtStatement \/ AtExpr
  /\ Len(frames) < MaxFrames
  /\ LET s    == EvalScope
         home == scope_resolve_identifier(scopes, s, name)
     IN  /\ CanSearch(s, name)
         /\ \/ /\ IsFunction(home, name)
               /\ SteadyCalls => Steady(s, name)
               /\ LET fn == scopes[home].vals[name].value.ref
                  IN  /\ \A k \in DOMAIN frames : Activation(k) => FnOf(frames[k]) # fn
                      /\ Push([kind |-> "filter", scope |-> s, fn |-> fn, left |-> n,
                               new_scope |-> 0, val |-> NoVal])
               /\ tbl' = eval_array_lit(n)
               /\ UNCHANGED <<scopes, fns, status>>
            \/ home = 0 /\ RuntimeError

(* array_filter_call_fn binds a copy of the element; if the name is bound  *)
(* already, nobody notices.                                                *)
FilterCall ==
  /\ status = "running"
  /\ Top.kind = "filter" /\ Top.new_scope = 0 /\ Top.left > 0
  /\ LET fn   == fns[Top.fn]
         test == val_copy_deep(Element, tbl)
     IN  /\ scopes' = IF fn.param = NoName THEN scopes
                      ELSE [scopes EXCEPT ![fn.scope] =
                              IF CanDeclare(@, fn.param)
                              THEN scope_declare_identifier(@, fn.param, test.val, TRUE)
                              ELSE valmap_check_realloc(@)]
         /\ frames' = SetTop([Top EXCEPT !.new_scope = fn.scope, !.val = test.val])
         /\ tbl' = test.tbl
  /\ UNCHANGED <<fns, status>>

(* Mutant: the scope is kept for the next element.                         *)
FilterCallEndsKept(e) ==
  /\ AtStatement
  /\ Top.kind = "filter"
  /\ frames' = SetTop([Top EXCEPT !.left = @ - 1, !.new_scope = 0, !.val = NoVal])
  /\ UNCHANGED <<scopes, fns, tbl, status>>

(* Its end, with the value e of the last statement.                        *)
FilterCallEnds(e) ==
  /\ AtStatement
  /\ Top.kind = "filter"
  /\ Len(scopes) < MaxScopes
  /\ LET s == EvalScope IN
     \/ /\ Defined(e, s) /\ InClass(e, s)
        /\ tbl' = Eval(e, s).tbl
        /\ scopes' = scope_init(scopes, "function", Top.scope)
        /\ fns' = [fns EXCEPT ![Top.fn].scope = Len(scopes) + 1]
        /\ frames' = SetTop([Top EXCEPT !.left = @ - 1, !.new_scope = 0, !.val = NoVal])
        /\ UNCHANGED status
     \/ Missing(e, s) /\ RuntimeError

FilterEnds ==
  /\ status = "running"
  /\ Top.kind = "filter" /\ Top.new_scope = 0 /\ Top.left = 0
  /\ frames' = Deliver(Front(frames), Val("VAL_ARRAY", 0, 0))
  /\ UNCHANGED <<scopes, fns, tbl, status>>

-----------------------------------------------------------------------------
(* The end of the program: process_file frees the global scope.            *)
ProgramEnds ==
  /\ status = "running"
  /\ Top.kind = "root"
  /\ status' = "done"
  /\ scopes' = scope_free(scopes, Global)
  /\ tbl' = scope_free_values(scopes[Global], tbl)
  /\ UNCHANGED <<fns, frames>>

BuiltinExit == (AtStatement \/ AtExpr) /\ Exit

(* The call reads its function where that has been.  What it reads there   *)
(* is undefined; the program is followed no further.                       *)
CalleeLost ==
  /\ status = "running"
  /\ Top.kind = "call" \/ (Top.kind = "args" /\ Top.val # NoVal)
  /\ ~ValidCallee(Top.callee)
  /\ Exit

Terminated == status # "running" /\ UNCHANGED vars

(* Declarations, blocks and the ends of a program.                         *)
Basics ==
  \/ \E name \in VarName, is_const \in BOOLEAN : eval_var_decl(name, is_const)
  \/ \E name \in Name : eval_assignment(name)
  \/ \E e \in Expr : eval_leaf(e)
  \/ VarDeclEnds \/ AssignmentEnds
  \/ eval_block \/ BlockEnds
  \/ ProgramEnds \/ BuiltinExit
  \/ Terminated

FunctionsAndCalls ==
  \/ \E name \in FnName, param \in ParamName \cup {NoName} : eval_fn_decl(name, param)
  \/ \E name \in FnName, argc \in {0, 1} : eval_expr_call(name, argc)
  \/ CallBody \/ CalleeLost
  \/ \E name \in FnName, n \in FilterCount : array_filter(name, n)
  \/ FilterCall \/ FilterEnds
  \/ \E e \in Expr : CallEnds(e) \/ FilterCallEnds(e)

LoopsAndOperators ==
  \/ \E name \in VarName \cup {NoName}, count \in LoopCount : eval_loop_stmt(name, count)
  \/ LoopAgain \/ LoopEnds
  \/ \E operator \in Operators, e, f \in Expr : BinaryExpr(operator, e, f)

Next == Basics \/ FunctionsAndCalls \/ LoopsAndOperators

Spec == Init /\ [][Next]_vars

-----------------------------------------------------------------------------
(* Properties.                                                             *)
Slots   == 1..Len(tbl.values)
Live(s) == scopes[s].live
Heap(s) == {n \in Names(scopes[s]) : scopes[s].vals[n].value.self_ptr # 0}

(* Every variable has its type; in particular a scope is created after its *)
(* parent.                                                                 *)
TypeOK ==
  /\ \A s \in DOMAIN scopes :
       /\ scopes[s].kind \in ScopeKind
       /\ scopes[s].parent \in 0..(s - 1)
       /\ Names(scopes[s]) \subseteq Name
  /\ \A f \in DOMAIN fns : fns[f].scope \in DOMAIN scopes /\ fns[f].param \in ParamName \cup {NoName}
  /\ Range(tbl.head) \subseteq Slots
  /\ tbl.freed \subseteq 1..Len(tbl.texts)
  /\ \A k \in DOMAIN frames : frames[k].scope \in DOMAIN scopes
  /\ status \in {"running", "exited", "done"}

(* Evaluation never holds a scope whose chain leads to freed memory:       *)
(* scope_resolve_identifier and scope_assign_identifier may walk all of it. *)
ChainLive ==
  (status = "running" /\ (Top.kind = "call" => ValidCallee(Top.callee))) =>
    \A s \in Chain(scopes, EvalScope) : Live(s)

(* The strings that the running code can reach have not been released:     *)
(* leaving a block or a loop releases only what nobody else uses.          *)
StringsLive ==
  (status = "running" /\ (Top.kind = "call" => ValidCallee(Top.callee))) =>
    \A s \in Chain(scopes, EvalScope) : \A n \in Heap(s) :
      scopes[s].vals[n].value.type = "VAL_STRING" => scopes[s].vals[n].value.ref \notin tbl.freed

(* eval_expr_call keeps a pointer into the table that binds the function   *)
(* while it evaluates the arguments and the body.  Whatever they do, the   *)
(* scope of that table lives until the call is over, and the table moves   *)
(* only once it is four fifths full.                                       *)
CalleeKept ==
  \A k \in DOMAIN frames : frames[k].kind \in {"args", "call"} =>
    LET callee == frames[k].callee
        home   == scopes[callee.scope]
    IN  /\ home.live
        /\ home.capacity = callee.capacity \/ 5 * Elements(home) >= 4 * callee.capacity

(* The pointer is good until the call is over, as the code takes for       *)
(* granted.                                                                *)
CalleeLive ==
  \A k \in DOMAIN frames : frames[k].kind \in {"args", "call"} => ValidCallee(frames[k].callee)

(* A slot is on the free list once, is empty, and no live scope will give  *)
(* it back again: otherwise val_alloc would hand it out twice.             *)
FreeListInv ==
  /\ IsInjective(tbl.head)
  /\ \A k \in Range(tbl.head) : tbl.values[k].type = "VAL_NULL"
  /\ \A s \in DOMAIN scopes : Live(s) /\ scopes[s].kind # "function" =>
       \A n \in Heap(s) : scopes[s].vals[n].value.self_ptr \notin Range(tbl.head)

(* Nothing the code can reach was given back, and nothing is given back    *)
(* twice.                                                                  *)
HeapSound == StringsLive /\ FreeListInv

(* The scopes of blocks and loops that live are those being evaluated.     *)
ScopesMatchFrames ==
  status = "running" =>
    {s \in DOMAIN scopes : Live(s) /\ scopes[s].kind \in {"block", "loop"}} =
      {frames[k].scope : k \in {i \in DOMAIN frames : frames[i].kind \in {"block", "loop"}}}

(* While a function runs, called or as the callback of array_filter, its   *)
(* parameter is bound to its argument or its element in the scope its      *)
(* statements are evaluated in, whatever it calls: a recursive call would  *)
(* share that scope, and ends the program instead; every element gets a    *)
(* scope of its own.                                                       *)
ParamInv ==
  status = "running" =>
  \A k \in DOMAIN frames :
    (Activation(k) /\ (frames[k].kind = "call" => ValidCallee(frames[k].callee))) =>
      LET fn == fns[FnOf(frames[k])]
          s  == IF frames[k].kind = "call" THEN fn.scope ELSE frames[k].new_scope
      IN  fn.param # NoName =>
            /\ fn.param \in Names(scopes[s])
            /\ scopes[s].vals[fn.param].value = frames[k].val

(* Declarations are repeated silently from the second iteration on, never  *)
(* in the first.                                                           *)
RedeclareInv ==
  \A k \in DOMAIN frames : frames[k].kind = "loop" /\ frames[k].counter < frames[k].count =>
    (Redeclares(scopes[frames[k].scope]) <=> frames[k].counter > 0)

(* Outside loop scopes a constant keeps its value as long as its scope.    *)
ConstKept ==
  [][\A s \in DOMAIN scopes : \A n \in Names(scopes[s]) :
       scopes[s].vals[n].is_const /\ scopes[s].kind # "loop" /\ status' # "exited" =>
         ~scopes'[s].live \/ scopes'[s].vals[n] = scopes[s].vals[n]]_vars

-----------------------------------------------------------------------------
(* Values of every type: at the ends of the long longs, texts that look    *)
(* like numbers, booleans and null, and the texts the program has made.    *)
Sample ==
  AllValues({LLONG_MIN, -1, 0, 1, LLONG_MAX},
            {<<>>, <<48>>, <<49>>, true, null, Decimal(-1)} \cup Range(tbl.texts))
Compares == AtStatement /\ Len(scopes) = 1

(* What the operators of eval.c say of the values of a program agrees: the *)
(* comparisons with one another, and a condition with !=.                  *)
OperatorLaws == Compares => Ordered(Sample) /\ EqualityLaws(Sample) /\ TruthLaw(Sample)
=============================================================================
