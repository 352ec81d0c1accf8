----------------------------- MODULE EvalProofs -----------------------------
(***************************************************************************)
(* The evaluator of src/eval.c, for all programs, of any size.             *)
(***************************************************************************)
EXTENDS Eval, ScopeProofs

-----------------------------------------------------------------------------
(* The laws of the comparison operators, for all values: all integers and  *)
(* all texts, not just the samples of the runs.                            *)

(* Every value of a program, the integers not limited to a width.          *)
Value == AllValues(Int, Seq(Nat))

IsString(v) == v.type = "VAL_STRING"

LEMMA ValueParts ==
  ASSUME NEW v \in Value
  PROVE  v.int \in Int /\ (v.type = "VAL_BOOLEAN" => v.int \in {0, 1})
BY DEF Value, AllValues, Integer, Boolean, String, Other, Opaque

LEMMA ToInt ==
  ASSUME NEW v \in Value
  PROVE  val_to_int(v) \in Int
BY ValueParts DEF val_to_int

(* A comparison of values that are no strings compares their numbers.      *)
LEMMA Compared ==
  ASSUME NEW l \in Value, NEW r \in Value, ~IsString(l), ~IsString(r)
  PROVE  /\ Holds("<", l, r) <=> val_to_int(l) < val_to_int(r)
         /\ Holds(">", l, r) <=> val_to_int(l) > val_to_int(r)
         /\ Holds("<=", l, r) <=> val_to_int(l) <= val_to_int(r)
         /\ Holds(">=", l, r) <=> val_to_int(l) >= val_to_int(r)
<1> DEFINE li == val_to_int(l)
           ri == val_to_int(r)
<1>1. li \in Int /\ ri \in Int
  BY ToInt
<1>2. eval_binexp_cmp_generic("<", l, r) = Gives(Boolean(li < ri))
  BY Zenon DEF eval_binexp_cmp_generic, IsString
<1>3. eval_binexp_cmp_generic(">", l, r) = Gives(Boolean(li > ri))
  BY Zenon DEF eval_binexp_cmp_generic, IsString
<1>4. eval_binexp_cmp_generic("<=", l, r) = Gives(Boolean(li <= ri))
  BY Zenon DEF eval_binexp_cmp_generic, IsString
<1>5. eval_binexp_cmp_generic(">=", l, r) = Gives(Boolean(li >= ri))
  BY Zenon DEF eval_binexp_cmp_generic, IsString
<1> QED
  BY <1>1, <1>2, <1>3, <1>4, <1>5 DEF Holds, eval_binexp, Comparison, Gives, Boolean

(* == and its relatives say the same of a pair, of strings or of others;   *)
(* what they call the same is symmetric.                                   *)
Same(l, r) ==
  IF IsString(l) \/ IsString(r) THEN val_stringify(l) = val_stringify(r)
  ELSE val_to_int(l) = val_to_int(r)

LEMMA EqualityDefined ==
  ASSUME NEW l \in Value, NEW r \in Value
  PROVE  IsValue("==", l, r) <=> (IsString(l) \/ IsString(r) => HasText(l) /\ HasText(r))
<1>1. eval_binexp("==", l, r) = eval_binexp_cmp_generic("==", l, r)
  BY DEF eval_binexp, Comparison
<1>2. CASE IsString(l) \/ IsString(r)
  BY <1>1, <1>2 DEF eval_binexp_cmp_generic, eval_binexp_string, IsString, IsValue, Gives, Unspecified
<1>3. CASE ~(IsString(l) \/ IsString(r))
  <2>1. PICK b : eval_binexp_cmp_generic("==", l, r) = Gives(b)
    BY <1>3, Zenon DEF eval_binexp_cmp_generic, IsString
  <2> QED
    BY <1>1, <1>3, <2>1 DEF IsValue, Gives
<1> QED
  BY <1>2, <1>3

LEMMA Equated ==
  ASSUME NEW l \in Value, NEW r \in Value, IsValue("==", l, r)
  PROVE  /\ Holds("==", l, r) <=> Same(l, r)
         /\ Holds("!=", l, r) <=> ~Same(l, r)
         /\ Holds("===", l, r) <=> Same(l, r) /\ l.type = r.type
         /\ Holds("!==", l, r) <=> ~Same(l, r) /\ l.type = r.type
<1>1. \A operator \in Comparison : eval_binexp(operator, l, r) = eval_binexp_cmp_generic(operator, l, r)
  BY DEF eval_binexp
<1>2. CASE IsString(l) \/ IsString(r)
  <2> DEFINE same == val_stringify(l) = val_stringify(r)
  <2>1. \A operator : eval_binexp_cmp_generic(operator, l, r) = eval_binexp_string(operator, l, r)
    BY <1>2 DEF eval_binexp_cmp_generic, IsString
  <2>2. HasText(l) /\ HasText(r)
    BY <1>2, EqualityDefined
  <2>3. eval_binexp_string("==", l, r) = Gives(Boolean(same))
    BY <2>2, Zenon DEF eval_binexp_string, Equality
  <2>4. eval_binexp_string("!=", l, r) = Gives(Boolean(~same))
    BY <2>2, Zenon DEF eval_binexp_string, Equality
  <2>5. eval_binexp_string("===", l, r) = Gives(Boolean(same /\ l.type = r.type))
    BY <2>2, Zenon DEF eval_binexp_string, Equality
  <2>6. eval_binexp_string("!==", l, r) = Gives(Boolean(~same /\ l.type = r.type))
    BY <2>2, Zenon DEF eval_binexp_string, Equality
  <2> QED
    BY <1>1, <1>2, <2>1, <2>3, <2>4, <2>5, <2>6 DEF Holds, Comparison, Same, Gives, Boolean
<1>3. CASE ~(IsString(l) \/ IsString(r))
  <2> DEFINE same == val_to_int(l) = val_to_int(r)
  <2>1. eval_binexp_cmp_generic("==", l, r) = Gives(Boolean(same))
    BY <1>3, Zenon DEF eval_binexp_cmp_generic, IsString, Equality
  <2>2. eval_binexp_cmp_generic("!=", l, r) = Gives(Boolean(~same))
    BY <1>3, Zenon DEF eval_binexp_cmp_generic, IsString, Equality
  <2>3. eval_binexp_cmp_generic("===", l, r) = Gives(Boolean(same /\ l.type = r.type))
    BY <1>3, Zenon DEF eval_binexp_cmp_generic, IsString, Equality
  <2>4. eval_binexp_cmp_generic("!==", l, r) = Gives(Boolean(~same /\ l.type = r.type))
    BY <1>3, Zenon DEF eval_binexp_cmp_generic, IsString, Equality
  <2> QED
    BY <1>1, <1>3, <2>1, <2>2, <2>3, <2>4 DEF Holds, Comparison, Same, Gives, Boolean
<1> QED
  BY <1>2, <1>3

-----------------------------------------------------------------------------
(* The comparisons of eval.c order all values that are no strings.         *)
THEOREM ComparisonsOrder == Ordered(Value)
<1> SUFFICES ASSUME NEW l \in Value, NEW r \in Value, ~IsString(l), ~IsString(r)
             PROVE  /\ Holds("==", l, r) <=> ~Holds("<", l, r) /\ ~Holds(">", l, r)
                    /\ ~(Holds("<", l, r) /\ Holds(">", l, r))
                    /\ Holds("<=", l, r) <=> ~Holds(">", l, r)
                    /\ Holds(">=", l, r) <=> ~Holds("<", l, r)
  BY DEF Ordered, IsString
<1>1. IsValue("==", l, r)
  BY EqualityDefined
<1>2. Holds("==", l, r) <=> val_to_int(l) = val_to_int(r)
  BY <1>1, Equated DEF Same
<1> QED
  BY <1>2, Compared, ToInt

(* Where == is defined it is symmetric, != is its opposite, === is         *)
(* stronger, and === or !== holds exactly between values of one type.      *)
THEOREM EqualityConsistent == EqualityLaws(Value)
<1> SUFFICES ASSUME NEW l \in Value, NEW r \in Value, IsValue("==", l, r)
             PROVE  /\ Holds("==", l, r) <=> Holds("==", r, l)
                    /\ Holds("!=", l, r) <=> ~Holds("==", l, r)
                    /\ Holds("===", l, r) => Holds("==", l, r)
                    /\ ~(Holds("===", l, r) /\ Holds("!==", l, r))
                    /\ Holds("===", l, r) \/ Holds("!==", l, r) <=> l.type = r.type
  BY DEF EqualityLaws
<1>1. IsValue("==", r, l)
  BY EqualityDefined
<1>2. Same(l, r) = Same(r, l)
  BY DEF Same
<1> QED
  BY <1>1, <1>2, Equated

(* A condition holds for a value exactly when it is a string or is not     *)
(* equal to 0.                                                             *)
THEOREM ConditionsAgree == TruthLaw(Value)
<1> SUFFICES ASSUME NEW v \in Value
             PROVE  val_is_truthy(v) <=> v.type = "VAL_STRING" \/ Holds("!=", v, Integer(0))
  BY DEF TruthLaw
<1>1. CASE IsString(v)
  BY <1>1 DEF IsString, val_is_truthy
<1>2. CASE ~IsString(v)
  <2>1. Integer(0) \in Value /\ ~IsString(Integer(0)) /\ val_to_int(Integer(0)) = 0
    BY DEF Value, AllValues, Integer, IsString, val_to_int
  <2>2. Holds("!=", v, Integer(0)) <=> val_to_int(v) # 0
    <3>1. IsValue("==", v, Integer(0))
      BY <1>2, <2>1, EqualityDefined
    <3> QED
      BY <1>2, <2>1, <3>1, Equated DEF Same
  <2>3. val_is_truthy(v) <=> val_to_int(v) # 0
    BY <1>2, ValueParts DEF val_is_truthy, val_to_int, Value, AllValues, Integer, Boolean, String,
       Other, Opaque, IsString
  <2> QED
    BY <1>2, <2>2, <2>3 DEF IsString
<1> QED
  BY <1>1, <1>2

-----------------------------------------------------------------------------
(* What every variable holds.                                              *)
Own     == {"block", "loop"}                   (* frames with a scope of their own *)
Waiting == {"var_decl", "assignment", "args"}  (* frames that wait for a value     *)

BindingOK(b, t, n) ==
  /\ b = Binding(b.value, b.is_const)
  /\ b.is_const \in BOOLEAN
  /\ ValueIn(b.value, t)
  /\ b.value.type = "VAL_FUNCTION" => b.is_const /\ b.value.ref \in 1..n

ScopeOK(sc, s, t, n) ==
  /\ ScopeShape(sc)
  /\ sc.kind \in ScopeKind
  /\ sc.kind = "global" <=> s = Global
  /\ sc.parent \in 0..(s - 1)
  /\ sc.live \in BOOLEAN
  /\ sc.mode = "SC_MODE_REUSE" => sc.kind = "loop"
  /\ Names(sc) \subseteq Name /\ IsFiniteSet(Names(sc))
  /\ ~sc.live => Names(sc) = {}
  /\ \A m \in Names(sc) : BindingOK(sc.vals[m], t, n)

FnOK(fn, ss) ==
  /\ fn = [scope |-> fn.scope, param |-> fn.param]
  /\ fn.scope \in 1..Len(ss) /\ ss[fn.scope].kind = "function"
  /\ fn.param \in ParamName \cup {NoName}

(* A scope that binds a name to a function.                                *)
BindsFn(sc, name) == name \in Names(sc) /\ sc.vals[name].value.type = "VAL_FUNCTION"

FrameShape(f) ==
  /\ f.kind \in {"root", "block", "loop", "var_decl", "assignment", "args", "call", "filter"}
  /\ f.kind = "loop" => f = [kind |-> "loop", scope |-> f.scope, counter |-> f.counter,
                             count |-> f.count, varname |-> f.varname]
  /\ f.kind = "var_decl" => f = [kind |-> "var_decl", scope |-> f.scope, name |-> f.name,
                                 val |-> f.val, is_const |-> f.is_const]
  /\ f.kind = "assignment" => f = [kind |-> "assignment", scope |-> f.scope, name |-> f.name, val |-> f.val]
  /\ f.kind = "args" => f = [kind |-> "args", scope |-> f.scope, callee |-> f.callee,
                             argc |-> f.argc, val |-> f.val]
  /\ f.kind = "filter" => f = [kind |-> "filter", scope |-> f.scope, fn |-> f.fn, left |-> f.left,
                               new_scope |-> f.new_scope, val |-> f.val]

FrameOK(f, ss, t, n) ==
  /\ FrameShape(f)
  /\ f.scope \in 1..Len(ss)
  /\ f.kind = "root" => f.scope = Global
  /\ f.kind \in Own => ss[f.scope].kind = f.kind
  /\ f.kind \in Waiting /\ f.val # NoVal => ValueIn(f.val, t) /\ f.val.type # "VAL_FUNCTION"
  /\ f.kind = "var_decl" => f.name \in VarName /\ f.is_const \in BOOLEAN
  /\ f.kind = "assignment" => f.name \in Name
  /\ f.kind = "loop" => f.count \in Nat /\ f.counter \in 0..f.count /\ f.varname \in VarName \cup {NoName}
  /\ f.kind = "filter" =>
       /\ f.fn \in 1..n /\ f.left \in Nat /\ f.new_scope \in 0..Len(ss)
       /\ f.new_scope # 0 => f.left > 0 /\ ss[f.new_scope].kind = "function"
  /\ f.kind \in {"args", "call"} =>
       /\ f.callee.scope \in 1..f.scope
       /\ ss[f.callee.scope].live => BindsFn(ss[f.callee.scope], f.callee.name)

(* Where a frame may be: the root is at the bottom, a value that waits and *)
(* array_filter between two calls are at the top, and a declaration in the *)
(* scope of a loop is a statement of it.                                   *)
Placed(stack, k, ss) ==
  /\ stack[k].kind = "root" <=> k = 1
  /\ stack[k].kind \in Waiting /\ k # Len(stack) => stack[k].val = NoVal
  /\ stack[k].kind = "filter" /\ k # Len(stack) => stack[k].new_scope # 0
  /\ stack[k].kind = "var_decl" /\ ss[stack[k].scope].kind = "loop" =>
       k > 1 /\ stack[k - 1].kind = "loop" /\ stack[k - 1].scope = stack[k].scope

ScopesOK == Sequence(scopes) /\ \A s \in 1..Len(scopes) : ScopeOK(scopes[s], s, tbl, Len(fns))
FnsOK    == Sequence(fns) /\ \A f \in 1..Len(fns) : FnOK(fns[f], scopes)
FramesOK == Sequence(frames) /\ \A k \in 1..Len(frames) :
              FrameOK(frames[k], scopes, tbl, Len(fns)) /\ Placed(frames, k, scopes)

(* The frames of blocks and loops have scopes younger than all the frames  *)
(* below.                                                                  *)
Nested ==
  \A j, k \in 1..Len(frames) :
    j < k /\ frames[k].kind \in Own => frames[j].scope < frames[k].scope

(* While the program runs, the scopes of blocks and loops are alive as     *)
(* long as their frames, and a frame evaluates in the scope of a function  *)
(* or of a block or loop it is in.                                         *)
Held ==
  /\ \A s \in 1..Len(scopes) : scopes[s].kind \notin Own => scopes[s].live
  /\ \A k \in 1..Len(frames) : frames[k].kind \in Own => scopes[frames[k].scope].live
  /\ \A s \in 1..Len(scopes) : scopes[s].kind \in Own /\ scopes[s].live =>
       \E k \in 1..Len(frames) : frames[k].kind \in Own /\ frames[k].scope = s
  /\ \A k \in 1..Len(frames) : scopes[frames[k].scope].kind \in Own =>
       \E j \in 1..k : frames[j].kind \in Own /\ frames[j].scope = frames[k].scope

(* How often a loop has run, its scope knows.                              *)
LoopOK(f, sc) ==
  /\ sc.mode = "SC_MODE_REUSE"
  /\ f.counter = 0 => sc.unique_id = 1 /\ sc.prev_unique_id = 0
  /\ 0 < f.counter /\ f.counter < f.count => sc.unique_id = f.counter /\ sc.prev_unique_id = f.counter

LoopsOK == \A k \in 1..Len(frames) : frames[k].kind = "loop" => LoopOK(frames[k], scopes[frames[k].scope])

Base ==
  /\ status \in {"running", "exited", "done"}
  /\ status = "running" => Len(frames) > 0 /\ Len(scopes) > 0 /\ Held
  /\ ScopesOK /\ FnsOK /\ FramesOK
  /\ TableOK(tbl)
  /\ Nested
  /\ LoopsOK

-----------------------------------------------------------------------------
(* What is all right stays so while tables, scopes and functions are added. *)
Longer(t, u) == Len(t.values) <= Len(u.values) /\ Len(t.texts) <= Len(u.texts)
Evolves(a, b) == Sequence(b) /\ SameTree(a, b)

LEMMA ValueLater ==
  ASSUME NEW t, TableOK(t), NEW u, TableOK(u), Longer(t, u), NEW v, ValueIn(v, t)
  PROVE  ValueIn(v, u)
  <1>1. /\ Len(t.values) \in Nat /\ Len(u.values) \in Nat /\ Len(t.texts) \in Nat /\ Len(u.texts) \in Nat
        /\ Len(t.values) <= Len(u.values) /\ Len(t.texts) <= Len(u.texts)
    BY TableLengths DEF Longer
  <1>2. v.self_ptr \in 0..Len(u.values)
    BY <1>1 DEF ValueIn
  <1>3. v.type = "VAL_STRING" => v.ref \in 1..Len(u.texts)
    BY <1>1 DEF ValueIn
  <1> QED
    BY <1>2, <1>3 DEF ValueIn

LEMMA ScopeLater ==
  ASSUME NEW t, TableOK(t), NEW u, TableOK(u), Longer(t, u), NEW n \in Nat, NEW m \in Nat, n <= m,
         NEW sc, NEW s, ScopeOK(sc, s, t, n)
  PROVE  ScopeOK(sc, s, u, m)
  <1>1. ASSUME NEW b, BindingOK(b, t, n) PROVE BindingOK(b, u, m)
    <2>1. ValueIn(b.value, u)
      BY <1>1, ValueLater DEF BindingOK
    <2>2. b.value.type = "VAL_FUNCTION" => b.is_const /\ b.value.ref \in 1..m
      BY <1>1 DEF BindingOK
    <2> QED
      BY <1>1, <2>1, <2>2 DEF BindingOK
  <1> QED
    BY <1>1 DEF ScopeOK

LEMMA FnLater ==
  ASSUME NEW a, Sequence(a), NEW b, Evolves(a, b), NEW fn, FnOK(fn, a)
  PROVE  FnOK(fn, b)
  <1>1. Len(a) \in Nat /\ Len(b) \in Nat /\ Len(a) <= Len(b)
    BY SequenceIs DEF Evolves, SameTree
  <1>2. fn.scope \in 1..Len(b) /\ b[fn.scope].kind = "function"
    BY <1>1 DEF FnOK, Evolves, SameTree
  <1> QED
    BY <1>2 DEF FnOK

(* A scope that lives still binds the functions it bound.                  *)
KeepsFns(a, b) ==
  b.live => a.live /\ \A n : BindsFn(a, n) => BindsFn(b, n)

LEMMA FrameLater ==
  ASSUME NEW t, TableOK(t), NEW u, TableOK(u), Longer(t, u), NEW n \in Nat, NEW m \in Nat, n <= m,
         NEW a, Sequence(a), NEW b, Evolves(a, b), NEW f, FrameOK(f, a, t, n),
         f.kind \in {"args", "call"} => KeepsFns(a[f.callee.scope], b[f.callee.scope])
  PROVE  FrameOK(f, b, u, m)
  <1>1. Len(a) \in Nat /\ Len(b) \in Nat /\ Len(a) <= Len(b)
    BY SequenceIs DEF Evolves, SameTree
  <1>2. f.scope \in 1..Len(b) /\ f.scope \in 1..Len(a)
    BY <1>1 DEF FrameOK
  <1>3. f.kind \in Own => b[f.scope].kind = f.kind
    BY <1>2 DEF FrameOK, Evolves, SameTree
  <1>4. f.kind \in Waiting /\ f.val # NoVal => ValueIn(f.val, u)
    BY ValueLater DEF FrameOK
  <1>5. f.kind = "filter" =>
          /\ f.fn \in 1..m /\ f.new_scope \in 0..Len(b)
          /\ f.new_scope # 0 => f.left > 0 /\ b[f.new_scope].kind = "function"
    <2>1. SUFFICES ASSUME f.kind = "filter"
                   PROVE  /\ f.fn \in 1..m /\ f.new_scope \in 0..Len(b)
                          /\ f.new_scope # 0 => f.left > 0 /\ b[f.new_scope].kind = "function"
      OBVIOUS
    <2>2. f.fn \in 1..n /\ f.new_scope \in 0..Len(a) /\ (f.new_scope # 0 => f.left > 0 /\ a[f.new_scope].kind = "function")
      BY <2>1 DEF FrameOK
    <2>3. f.fn \in 1..m /\ f.new_scope \in 0..Len(b)
      BY <1>1, <2>2
    <2>4. f.new_scope # 0 => f.new_scope \in 1..Len(a)
      BY <1>1, <2>2
    <2> QED
      BY <2>2, <2>3, <2>4 DEF Evolves, SameTree
  <1>6. f.kind \in {"args", "call"} /\ b[f.callee.scope].live => BindsFn(b[f.callee.scope], f.callee.name)
    BY DEF FrameOK, KeepsFns
  <1> QED
    BY <1>2, <1>3, <1>4, <1>5, <1>6 DEF FrameOK

LEMMA ScopeBound ==
  ASSUME NEW t, NEW n, NEW s, NEW a, ScopeOK(a, s, t, n), a.live, NEW b, NEW name \in Name, NEW binding,
         BoundIn(a, b, name, binding), BindingOK(binding, t, n)
  PROVE  ScopeOK(b, s, t, n)
  <1>1. Names(b) = Names(a) \cup {name} /\ IsFiniteSet(Names(b)) /\ Names(b) \subseteq Name
    BY FS_AddElement DEF BoundIn, ScopeOK
  <1>2. \A m \in Names(b) : BindingOK(b.vals[m], t, n)
    BY <1>1 DEF BoundIn, ScopeOK
  <1>3. /\ ScopeShape(b)
        /\ b.kind = a.kind /\ b.parent = a.parent /\ b.live = a.live /\ b.mode = a.mode
    BY DEF BoundIn, Like
  <1> QED
    BY <1>1, <1>2, <1>3 DEF ScopeOK

LEMMA ScopeLike ==
  ASSUME NEW t, NEW n, NEW s, NEW a, ScopeOK(a, s, t, n), NEW b, Like(a, b), b.vals = a.vals
  PROVE  ScopeOK(b, s, t, n)
  BY DEF ScopeOK, Like, Names

LEMMA NewScopeOK ==
  ASSUME NEW t, NEW n, NEW kind \in ScopeKind \ {"global"}, NEW s \in Nat \ {0, 1}, NEW parent \in 0..(s - 1)
  PROVE  ScopeOK(NewScope(kind, parent), s, t, n)
  <1>1. NewScope(kind, parent).live = TRUE
    BY DEF NewScope
  <1>2. Names(NewScope(kind, parent)) = {} /\ IsFiniteSet({})
    BY NewScopeIs, FS_EmptySet
  <1> DEFINE sc == NewScope(kind, parent)
  <1>3. ScopeShape(sc) /\ sc.kind = kind /\ sc.parent = parent /\ sc.mode = "SC_DEFAULT"
    BY DEF NewScope, ScopeShape
  <1> HIDE DEF sc
  <1> QED
    BY <1>1, <1>2, <1>3 DEF ScopeOK, Global, sc

-----------------------------------------------------------------------------
(* The stack after a step: the frames below the top m are the old ones.    *)
StackTo(m, f) ==
  /\ Sequence(frames') /\ Len(frames') = m
  /\ m \in 1..(Len(frames) + 1)
  /\ \A k \in 1..(m - 1) : frames'[k] = frames[k]
  /\ frames'[m] = f

LEMMA PushTo ==
  ASSUME Sequence(frames), NEW f, frames' = Append(frames, f)
  PROVE  StackTo(Len(frames) + 1, f)
  <1>1. Len(frames) \in Nat
    BY SequenceIs
  <1>2. /\ Sequence(frames')
        /\ Len(frames') = Len(frames) + 1
        /\ \A i \in 1..Len(frames) : frames'[i] = frames[i]
        /\ frames'[Len(frames) + 1] = f
    BY AppendIs
  <1> QED
    BY <1>1, <1>2 DEF StackTo

LEMMA TopTo ==
  ASSUME Sequence(frames), Len(frames) > 0, NEW f, frames' = SetTop(f)
  PROVE  StackTo(Len(frames), f)
  <1> DEFINE n == Len(frames)
             r == [frames EXCEPT ![n] = f]
  <1>1. n \in Nat /\ n \in 1..n
    BY SequenceIs
  <1>2. frames' = r
    BY DEF SetTop
  <1>3. Sequence(r) /\ Len(r) = n /\ r[n] = f /\ \A i \in 1..n : i # n => r[i] = frames[i]
    <2> HIDE DEF n
    <2>1. Sequence(r) /\ Len(r) = Len(frames) /\ r[n] = f /\ \A i \in 1..Len(frames) : i # n => r[i] = frames[i]
      BY <1>1, ReplaceIs DEF n
    <2> QED
      BY <2>1 DEF n
  <1> HIDE DEF r
  <1> QED
    BY <1>1, <1>2, <1>3 DEF StackTo

LEMMA StayTo ==
  ASSUME Sequence(frames), Len(frames) > 0, frames' = frames
  PROVE  StackTo(Len(frames), Top)
  <1>1. Len(frames) \in Nat
    BY SequenceIs
  <1> QED
    BY <1>1 DEF StackTo, Top

LEMMA PopTo ==
  ASSUME Sequence(frames), Len(frames) > 1, frames' = Front(frames)
  PROVE  StackTo(Len(frames) - 1, frames[Len(frames) - 1])
  <1>1. Len(frames) \in Nat /\ frames # <<>>
    BY SequenceIs, EmptyIs
  <1>2. /\ Sequence(frames')
        /\ Len(frames') = Len(frames) - 1
        /\ \A i \in 1..(Len(frames) - 1) : frames'[i] = frames[i]
    BY <1>1, FrontIs
  <1> QED
    BY <1>1, <1>2 DEF StackTo

Given(f, val) == IF f.kind \in Waiting THEN [f EXCEPT !.val = val] ELSE f

LEMMA DeliverTo ==
  ASSUME Sequence(frames), Len(frames) > 1, NEW val, frames' = Deliver(Front(frames), val)
  PROVE  StackTo(Len(frames) - 1, Given(frames[Len(frames) - 1], val))
  <1> DEFINE n == Len(frames) - 1
             s == Front(frames)
             below == s[n]
             g == Given(below, val)
             r == [s EXCEPT ![n] = g]
  <1>1. Len(frames) \in Nat /\ frames # <<>>
    BY SequenceIs, EmptyIs
  <1>2. Sequence(s) /\ Len(s) = n /\ \A i \in 1..n : s[i] = frames[i]
    BY <1>1, FrontIs
  <1>3. n \in Nat /\ n \in 1..n /\ n \in 1..(Len(frames) + 1) /\ (1..(n - 1)) \subseteq 1..n
        /\ \A i \in 1..(n - 1) : i # n
    BY <1>1
  <1> HIDE DEF n, s
  <1>4. Sequence(r) /\ Len(r) = n /\ r[n] = g /\ \A i \in 1..n : i # n => r[i] = s[i]
    <2> HIDE DEF g
    <2>0. Sequence(s) /\ n \in 1..Len(s)
      BY <1>2, <1>3
    <2>1. Sequence(r) /\ Len(r) = Len(s) /\ r[n] = g /\ \A i \in 1..Len(s) : i # n => r[i] = s[i]
      BY ONLY <2>0, ReplaceIs
    <2> QED
      BY <1>2, <2>1
  <1>5. frames' = IF below.kind \in Waiting THEN [s EXCEPT ![n].val = val] ELSE s
    BY <1>2 DEF Deliver, s, Waiting
  <1>6. below = frames[n]
    BY <1>2, <1>3
  <1>7. CASE below.kind \in Waiting
    <2>1. [s EXCEPT ![n].val = val] = r
      BY <1>7 DEF Given
    <2> HIDE DEF g, r
    <2>2. StackTo(n, g)
      BY <1>2, <1>3, <1>4, <1>5, <1>7, <2>1 DEF StackTo
    <2> QED
      BY <1>6, <2>2 DEF n, g
  <1>8. CASE below.kind \notin Waiting
    <2>1. g = below
      BY <1>8 DEF Given
    <2> HIDE DEF g, r, below
    <2>2. StackTo(n, below)
      BY <1>2, <1>3, <1>5, <1>8 DEF StackTo, below
    <2> QED
      BY <1>6, <2>1, <2>2 DEF n, g
  <1> QED
    BY <1>7, <1>8

-----------------------------------------------------------------------------
(* What an action keeps, from what it does to the stack and the scopes.    *)
LEMMA FramesStep ==
  ASSUME FramesOK, Len(frames) > 0, TableOK(tbl), TableOK(tbl'), Longer(tbl, tbl'),
         Len(fns) \in Nat, Len(fns') \in Nat, Len(fns) <= Len(fns'),
         Sequence(scopes), Evolves(scopes, scopes'),
         NEW m, NEW f, StackTo(m, f),
         \A k \in 1..Len(frames) : k < m /\ frames[k].kind \in {"args", "call"} =>
           KeepsFns(scopes[frames[k].callee.scope], scopes'[frames[k].callee.scope]),
         FrameOK(f, scopes', tbl', Len(fns')), Placed(frames', m, scopes'),
         m > Len(frames) => /\ Top.kind \in Waiting => Top.val = NoVal
                            /\ Top.kind = "filter" => Top.new_scope # 0
  PROVE  FramesOK'
  <1>1. Len(frames) \in Nat /\ m \in Nat /\ m >= 1 /\ m <= Len(frames) + 1 /\ Len(frames') = m
    BY SequenceIs DEF FramesOK, StackTo
  <1>2. SUFFICES ASSUME NEW k \in 1..m
                 PROVE  FrameOK(frames'[k], scopes', tbl', Len(fns')) /\ Placed(frames', k, scopes')
    BY <1>1 DEF FramesOK, StackTo
  <1>3. CASE k = m
    BY <1>3 DEF StackTo
  <1>4. CASE k # m
    <2>1. k \in 1..(m - 1) /\ k \in 1..Len(frames) /\ k < m /\ frames'[k] = frames[k] /\ k # Len(frames')
      BY <1>1, <1>4 DEF StackTo
    <2>2. FrameOK(frames'[k], scopes', tbl', Len(fns'))
      <3> DEFINE g == frames[k]
      <3>1. FrameOK(g, scopes, tbl, Len(fns))
        BY <2>1 DEF FramesOK
      <3>2. g.kind \in {"args", "call"} => KeepsFns(scopes[g.callee.scope], scopes'[g.callee.scope])
        BY <2>1
      <3>3. frames'[k] = g
        BY <2>1
      <3> HIDE DEF g
      <3>4. FrameOK(g, scopes', tbl', Len(fns'))
        BY <3>1, <3>2, FrameLater
      <3> QED
        BY <3>3, <3>4
    <2>3. Placed(frames, k, scopes) /\ frames[k].scope \in 1..Len(scopes)
      BY <2>1 DEF FramesOK, FrameOK
    <2>4. scopes'[frames[k].scope].kind = scopes[frames[k].scope].kind
      BY <2>3 DEF Evolves, SameTree
    <2>5. k > 1 => frames'[k - 1] = frames[k - 1]
      <3>1. k > 1 => k - 1 \in 1..(m - 1)
        BY <1>1, <2>1
      <3> QED
        BY <3>1 DEF StackTo
    <2>6. k = Len(frames) => /\ frames[k].kind \in Waiting => frames[k].val = NoVal
                             /\ frames[k].kind = "filter" => frames[k].new_scope # 0
      BY <1>1, <2>1 DEF Top
    <2>7. frames[k].kind \in Waiting => frames[k].val = NoVal
      BY <2>3, <2>6 DEF Placed
    <2>8. frames[k].kind = "filter" => frames[k].new_scope # 0
      BY <2>3, <2>6 DEF Placed
    <2>9. frames[k].kind = "var_decl" /\ scopes'[frames[k].scope].kind = "loop" =>
             k > 1 /\ frames'[k - 1].kind = "loop" /\ frames'[k - 1].scope = frames[k].scope
      BY <2>3, <2>4, <2>5 DEF Placed
    <2>10. Placed(frames', k, scopes')
      BY <2>1, <2>3, <2>7, <2>8, <2>9 DEF Placed
    <2> QED
      BY <2>2, <2>10
  <1> QED
    BY <1>3, <1>4

(* No block or loop begins or ends.                                        *)
LEMMA FramesStay ==
  ASSUME Base, status = "running", NEW m, NEW f, StackTo(m, f), Evolves(scopes, scopes'),
         m <= Len(frames) => f.scope = frames[m].scope /\ (f.kind \in Own <=> frames[m].kind \in Own),
         m > Len(frames) => /\ f.kind \notin Own
                            /\ f.scope \in 1..Len(scopes)
                            /\ scopes[f.scope].kind \in Own => f.scope = Top.scope,
         m < Len(frames) => m = Len(frames) - 1 /\ Top.kind \notin Own,
         \A s \in 1..Len(scopes) : scopes'[s].live <=> scopes[s].live,
         \A s \in 1..Len(scopes') : s > Len(scopes) => scopes'[s].live /\ scopes'[s].kind \notin Own
  PROVE  Nested' /\ Held'
  <1>1. /\ Len(frames) \in Nat /\ m \in Nat /\ m >= 1 /\ m <= Len(frames) + 1 /\ Len(frames') = m
        /\ Len(scopes) \in Nat /\ Len(scopes') \in Nat /\ Len(scopes) <= Len(scopes')
        /\ Len(frames) > 0
    BY SequenceIs DEF Base, FramesOK, ScopesOK, StackTo, Evolves, SameTree
  <1>2. \A k \in 1..Len(frames) : frames[k].scope \in 1..Len(scopes)
    BY DEF Base, FramesOK, FrameOK
  <1>3. ASSUME NEW k \in 1..m
        PROVE  /\ k <= Len(frames) => frames'[k].scope = frames[k].scope /\ (frames'[k].kind \in Own <=> frames[k].kind \in Own)
               /\ k > Len(frames) => k = m /\ frames'[k] = f
    <2>1. CASE k = m
      BY <1>1, <2>1 DEF StackTo
    <2>2. CASE k # m
      <3>1. k \in 1..(m - 1) /\ k <= Len(frames)
        BY <1>1, <2>2
      <3> QED
        BY <3>1, <1>1 DEF StackTo
    <2> QED
      BY <2>1, <2>2
  <1>4. Nested'
    <2>1. SUFFICES ASSUME NEW j \in 1..m, NEW k \in 1..m, j < k, frames'[k].kind \in Own
                   PROVE  frames'[j].scope < frames'[k].scope
      BY <1>1 DEF Nested
    <2>2. k <= Len(frames)
      BY <1>1, <1>3, <2>1
    <2>3. j \in 1..Len(frames) /\ k \in 1..Len(frames) /\ j <= Len(frames)
      BY <1>1, <2>1, <2>2
    <2>4. frames[k].kind \in Own /\ frames'[j].scope = frames[j].scope /\ frames'[k].scope = frames[k].scope
      BY <1>3, <2>1, <2>2, <2>3
    <2> QED
      BY <2>1, <2>3, <2>4 DEF Base, Nested
  <1>5. Held
    BY DEF Base
  <1>6. ASSUME NEW s \in 1..Len(scopes'), scopes'[s].kind \notin Own PROVE scopes'[s].live
    <2>1. CASE s \in 1..Len(scopes)
      BY <1>5, <1>6, <2>1 DEF Held, Evolves, SameTree
    <2>2. CASE s \notin 1..Len(scopes)
      BY <1>1, <2>2
    <2> QED
      BY <2>1, <2>2
  <1>7. ASSUME NEW k \in 1..m, frames'[k].kind \in Own PROVE scopes'[frames'[k].scope].live
    <2>1. k <= Len(frames) /\ k \in 1..Len(frames)
      BY <1>1, <1>3, <1>7
    <2>2. frames'[k].scope = frames[k].scope /\ frames[k].kind \in Own
      BY <1>3, <1>7, <2>1
    <2>3. scopes[frames[k].scope].live
      BY <1>5, <2>1, <2>2 DEF Held
    <2> QED
      BY <1>2, <2>1, <2>2, <2>3
  <1>8. ASSUME NEW s \in 1..Len(scopes'), scopes'[s].kind \in Own, scopes'[s].live
        PROVE  \E k \in 1..m : frames'[k].kind \in Own /\ frames'[k].scope = s
    <2>1. s \in 1..Len(scopes)
      BY <1>1, <1>8
    <2>2. scopes[s].kind \in Own /\ scopes[s].live
      BY <1>8, <2>1 DEF Evolves, SameTree
    <2>3. PICK k \in 1..Len(frames) : frames[k].kind \in Own /\ frames[k].scope = s
      BY <1>5, <2>1, <2>2 DEF Held
    <2>4. k \in 1..m
      BY <1>1, <2>3 DEF Top
    <2> QED
      BY <1>3, <2>3, <2>4
  <1>9. ASSUME NEW k \in 1..m, scopes'[frames'[k].scope].kind \in Own
        PROVE  \E j \in 1..k : frames'[j].kind \in Own /\ frames'[j].scope = frames'[k].scope
    <2>1. CASE k <= Len(frames)
      <3>1. k \in 1..Len(frames) /\ frames'[k].scope = frames[k].scope
        BY <1>1, <1>3, <2>1
      <3>2. scopes[frames[k].scope].kind \in Own
        BY <1>2, <1>9, <3>1 DEF Evolves, SameTree
      <3>3. PICK j \in 1..k : frames[j].kind \in Own /\ frames[j].scope = frames[k].scope
        BY <1>5, <3>1, <3>2 DEF Held
      <3>4. j \in 1..m /\ j <= Len(frames)
        BY <1>1, <2>1
      <3> QED
        BY <1>3, <3>1, <3>3, <3>4
    <2>2. CASE k > Len(frames)
      <3>1. k = m /\ frames'[k] = f /\ m > Len(frames)
        BY <1>1, <1>3, <2>2
      <3>2. scopes[f.scope].kind \in Own /\ f.scope = Top.scope
        BY <1>9, <3>1 DEF Evolves, SameTree
      <3>3. Len(frames) \in 1..Len(frames)
        BY <1>1
      <3>4. PICK j \in 1..Len(frames) : frames[j].kind \in Own /\ frames[j].scope = Top.scope
        BY <1>5, <3>2, <3>3 DEF Held, Top
      <3>5. j \in 1..m /\ j <= Len(frames) /\ j \in 1..k
        BY <1>1, <3>1
      <3> QED
        BY <1>3, <3>1, <3>2, <3>4, <3>5
    <2> QED
      BY <1>1, <2>1, <2>2
  <1>10. Held'
    BY <1>1, <1>6, <1>7, <1>8, <1>9 DEF Held
  <1> QED
    BY <1>4, <1>10

(* A block or loop begins, in a new scope.                                 *)
LEMMA FramesPush ==
  ASSUME Base, status = "running", NEW f, StackTo(Len(frames) + 1, f), Evolves(scopes, scopes'),
         f.kind \in Own, f.scope = Len(scopes) + 1, Len(scopes') = Len(scopes) + 1,
         scopes'[f.scope].live, scopes'[f.scope].kind = f.kind,
         \A s \in 1..Len(scopes) : scopes'[s].live <=> scopes[s].live
  PROVE  Nested' /\ Held'
  <1> DEFINE m == Len(frames) + 1
             new == Len(scopes) + 1
  <1>1. /\ Len(frames) \in Nat /\ Len(frames') = m
        /\ Len(scopes) \in Nat /\ Len(scopes') = new
    BY SequenceIs DEF Base, FramesOK, ScopesOK, StackTo
  <1>2. \A k \in 1..Len(frames) : frames[k].scope \in 1..Len(scopes)
    BY DEF Base, FramesOK, FrameOK
  <1>3. \A k \in 1..Len(frames) : frames'[k] = frames[k]
    BY <1>1 DEF StackTo
  <1>4. frames'[m] = f
    BY DEF StackTo
  <1>5. \A k \in 1..m : k = m \/ k \in 1..Len(frames)
    BY <1>1
  <1>6. \A s \in 1..new : s = new \/ s \in 1..Len(scopes)
    BY <1>1
  <1>7. m \in 1..m /\ (1..Len(frames)) \subseteq 1..m /\ new \in 1..new
    BY <1>1
  <1>8. Nested /\ Held
    BY DEF Base
  <1>9. Nested'
    <2>1. SUFFICES ASSUME NEW j \in 1..m, NEW k \in 1..m, j < k, frames'[k].kind \in Own
                   PROVE  frames'[j].scope < frames'[k].scope
      BY <1>1 DEF Nested
    <2>2. j \in 1..Len(frames)
      BY <1>1, <2>1
    <2>3. CASE k = m
      BY <1>1, <1>2, <1>3, <1>4, <2>2, <2>3
    <2>4. CASE k \in 1..Len(frames)
      BY <1>3, <1>8, <2>1, <2>2, <2>4 DEF Nested
    <2> QED
      BY <1>5, <2>3, <2>4
  <1>10. f.scope = new
    OBVIOUS
  <1> HIDE DEF new, m
  <1>11. ASSUME NEW s \in 1..new
         PROVE  /\ scopes'[s].kind \notin Own => scopes'[s].live
                /\ scopes'[s].kind \in Own /\ scopes'[s].live =>
                     \E k \in 1..m : frames'[k].kind \in Own /\ frames'[k].scope = s
    <2>1. CASE s = new
      BY <1>4, <1>7, <1>10, <2>1
    <2>2. CASE s \in 1..Len(scopes)
      <3>1. scopes'[s].kind = scopes[s].kind /\ (scopes'[s].live <=> scopes[s].live)
        BY <2>2 DEF Evolves, SameTree
      <3>2. scopes[s].kind \notin Own => scopes[s].live
        BY <1>8, <2>2 DEF Held
      <3>3. scopes[s].kind \in Own /\ scopes[s].live => \E k \in 1..Len(frames) : frames[k].kind \in Own /\ frames[k].scope = s
        BY <1>8, <2>2 DEF Held
      <3> QED
        BY <1>3, <1>7, <3>1, <3>2, <3>3
    <2> QED
      BY <1>6, <2>1, <2>2 DEF new
  <1>12. ASSUME NEW k \in 1..m
         PROVE  /\ frames'[k].kind \in Own => scopes'[frames'[k].scope].live
                /\ scopes'[frames'[k].scope].kind \in Own =>
                     \E j \in 1..k : frames'[j].kind \in Own /\ frames'[j].scope = frames'[k].scope
    <2>1. CASE k = m
      <3>1. m \in 1..m
        BY <1>1 DEF m
      <3> QED
        BY <1>4, <2>1, <3>1
    <2>2. CASE k \in 1..Len(frames)
      <3>1. frames[k].scope \in 1..Len(scopes) /\ frames'[k] = frames[k]
        BY <1>2, <1>3, <2>2
      <3>2. scopes'[frames[k].scope].kind = scopes[frames[k].scope].kind
        BY <3>1 DEF Evolves, SameTree
      <3>3. scopes'[frames[k].scope].live <=> scopes[frames[k].scope].live
        BY <3>1
      <3>4. \A j \in 1..k : j \in 1..Len(frames)
        BY <1>1, <2>2
      <3>5. frames[k].kind \in Own => scopes[frames[k].scope].live
        BY <1>8, <2>2 DEF Held
      <3>6. scopes[frames[k].scope].kind \in Own => \E j \in 1..k : frames[j].kind \in Own /\ frames[j].scope = frames[k].scope
        BY <1>8, <2>2 DEF Held
      <3> QED
        BY <1>3, <3>1, <3>2, <3>3, <3>4, <3>5, <3>6
    <2> QED
      BY <1>5, <2>1, <2>2 DEF m
  <1>13. Held'
    BY <1>1, <1>11, <1>12 DEF Held
  <1> QED
    BY <1>9, <1>13

(* A block or loop ends, and its scope with it.                            *)
LEMMA FramesPop ==
  ASSUME Base, status = "running", Top.kind \in Own,
         StackTo(Len(frames) - 1, frames[Len(frames) - 1]), Evolves(scopes, scopes'),
         Len(scopes') = Len(scopes), scopes'[Top.scope].live = FALSE,
         \A s \in 1..Len(scopes) : s # Top.scope => (scopes'[s].live <=> scopes[s].live)
  PROVE  /\ Nested' /\ Held'
         /\ \A k \in 1..Len(frames') : frames[k].scope < Top.scope
  <1> DEFINE m == Len(frames) - 1
  <1>1. /\ Len(frames) \in Nat /\ Len(frames') = m /\ m \in Nat
    BY SequenceIs DEF Base, FramesOK, StackTo
  <1>2. \A k \in 1..Len(frames) : frames[k].scope \in 1..Len(scopes)
    BY DEF Base, FramesOK, FrameOK
  <1>3. \A k \in 1..m : frames'[k] = frames[k]
    <2>1. \A k \in 1..m : k = m \/ k \in 1..(m - 1)
      BY <1>1
    <2> QED
      BY <2>1 DEF StackTo
  <1>4. Len(frames) \in 1..Len(frames) /\ \A k \in 1..m : k \in 1..Len(frames) /\ k < Len(frames)
    BY <1>1
  <1>5. \A k \in 1..Len(frames) : k = Len(frames) \/ k \in 1..m
    BY <1>1
  <1>6. Nested /\ Held
    BY DEF Base
  <1>7. \A k \in 1..m : frames[k].scope < Top.scope
    BY <1>4, <1>6 DEF Nested, Top
  <1>8. Top.scope \in 1..Len(scopes) /\ scopes[Top.scope].kind \in Own
    BY <1>4 DEF Base, FramesOK, FrameOK, Top
  <1>9. \A k \in 1..m : frames[k].scope # Top.scope
    BY <1>2, <1>4, <1>7, <1>8
  <1>10. Nested'
    BY <1>1, <1>3, <1>4, <1>6 DEF Nested
  <1> HIDE DEF m
  <1>11. ASSUME NEW s \in 1..Len(scopes)
         PROVE  /\ scopes'[s].kind \notin Own => scopes'[s].live
                /\ scopes'[s].kind \in Own /\ scopes'[s].live =>
                     \E k \in 1..m : frames'[k].kind \in Own /\ frames'[k].scope = s
    <2>1. scopes'[s].kind = scopes[s].kind
      BY DEF Evolves, SameTree
    <2>2. CASE s = Top.scope
      BY <1>8, <2>1, <2>2
    <2>3. CASE s # Top.scope
      <3>1. scopes'[s].live <=> scopes[s].live
        BY <2>3
      <3>2. scopes[s].kind \notin Own => scopes[s].live
        BY <1>6 DEF Held
      <3>3. ASSUME scopes[s].kind \in Own, scopes[s].live
            PROVE  \E k \in 1..m : frames'[k].kind \in Own /\ frames'[k].scope = s
        <4>1. PICK k \in 1..Len(frames) : frames[k].kind \in Own /\ frames[k].scope = s
          BY <1>6, <3>3 DEF Held
        <4>2. k \in 1..m
          BY <1>5, <2>3, <4>1 DEF Top, m
        <4> QED
          BY <1>3, <4>1, <4>2 DEF m
      <3> QED
        BY <2>1, <3>1, <3>2, <3>3
    <2> QED
      BY <2>2, <2>3
  <1>12. ASSUME NEW k \in 1..m
         PROVE  /\ frames'[k].kind \in Own => scopes'[frames'[k].scope].live
                /\ scopes'[frames'[k].scope].kind \in Own =>
                     \E j \in 1..k : frames'[j].kind \in Own /\ frames'[j].scope = frames'[k].scope
    <2>1. k \in 1..Len(frames) /\ frames[k].scope \in 1..Len(scopes) /\ frames'[k] = frames[k]
          /\ frames[k].scope # Top.scope
      BY <1>2, <1>3, <1>4, <1>9 DEF m
    <2>2. scopes'[frames[k].scope].kind = scopes[frames[k].scope].kind
          /\ (scopes'[frames[k].scope].live <=> scopes[frames[k].scope].live)
      BY <2>1 DEF Evolves, SameTree
    <2>3. \A j \in 1..k : j \in 1..m
      BY <1>1
    <2>4. frames[k].kind \in Own => scopes[frames[k].scope].live
      BY <1>6, <2>1 DEF Held
    <2>5. scopes[frames[k].scope].kind \in Own => \E j \in 1..k : frames[j].kind \in Own /\ frames[j].scope = frames[k].scope
      BY <1>6, <2>1 DEF Held
    <2> QED
      BY <1>3, <2>1, <2>2, <2>3, <2>4, <2>5 DEF m
  <1>13. Held'
    <2>1. Len(scopes') = Len(scopes) /\ Len(frames') = m
      BY <1>1
    <2> QED
      BY <1>11, <1>12, <2>1 DEF Held
  <1> QED
    BY <1>1, <1>7, <1>10, <1>13

SameLoop(a, b) == b.mode = a.mode /\ SameIds(a, b)

LEMMA LoopsStep ==
  ASSUME LoopsOK, Sequence(frames), NEW m, NEW f, StackTo(m, f),
         \A k \in 1..Len(frames) : k < m /\ frames[k].kind = "loop" =>
            SameLoop(scopes[frames[k].scope], scopes'[frames[k].scope]),
         f.kind = "loop" => LoopOK(f, scopes'[f.scope])
  PROVE  LoopsOK'
  <1>1. Len(frames) \in Nat /\ Len(frames') = m /\ m \in Nat /\ m <= Len(frames) + 1
    BY SequenceIs DEF StackTo
  <1>2. SUFFICES ASSUME NEW k \in 1..m, frames'[k].kind = "loop"
                 PROVE  LoopOK(frames'[k], scopes'[frames'[k].scope])
    BY <1>1 DEF LoopsOK
  <1>3. CASE k = m
    BY <1>2, <1>3 DEF StackTo
  <1>4. CASE k # m
    <2>1. k \in 1..(m - 1) /\ k \in 1..Len(frames) /\ k < m /\ frames'[k] = frames[k]
      BY <1>1, <1>4 DEF StackTo
    <2>2. LoopOK(frames[k], scopes[frames[k].scope]) /\ SameLoop(scopes[frames[k].scope], scopes'[frames[k].scope])
      BY <1>2, <2>1 DEF LoopsOK
    <2> QED
      BY <2>1, <2>2 DEF LoopOK, SameLoop, SameIds
  <1> QED
    BY <1>3, <1>4

LEMMA TopIs ==
  ASSUME Base, status = "running"
  PROVE  /\ Len(frames) \in Nat \ {0} /\ Len(scopes) \in Nat \ {0} /\ Len(fns) \in Nat
         /\ Sequence(frames) /\ Sequence(scopes) /\ Sequence(fns) /\ TableOK(tbl)
         /\ FrameOK(Top, scopes, tbl, Len(fns)) /\ Placed(frames, Len(frames), scopes)
         /\ Top.scope \in 1..Len(scopes)
         /\ scopes[Top.scope].live
         /\ Top.kind # "root" => Len(frames) > 1 /\ Len(frames) - 1 \in 1..Len(frames)
  <1>1. Len(frames) \in Nat \ {0} /\ Len(scopes) \in Nat \ {0} /\ Len(fns) \in Nat
    BY SequenceIs DEF Base, FramesOK, ScopesOK, FnsOK
  <1>2. Len(frames) \in 1..Len(frames)
    BY <1>1
  <1>3. FrameOK(Top, scopes, tbl, Len(fns)) /\ Placed(frames, Len(frames), scopes)
    BY <1>2 DEF Top, Base, FramesOK
  <1>4. Top.scope \in 1..Len(scopes)
    BY <1>3 DEF FrameOK
  <1>5. scopes[Top.scope].live
    <2>1. Held
      BY DEF Base
    <2>2. CASE scopes[Top.scope].kind \notin Own
      BY <1>4, <2>1, <2>2 DEF Held
    <2>3. CASE scopes[Top.scope].kind \in Own
      <3>1. PICK j \in 1..Len(frames) : frames[j].kind \in Own /\ frames[j].scope = Top.scope
        BY <1>2, <2>1, <2>3 DEF Held, Top
      <3> QED
        BY <2>1, <3>1 DEF Held
    <2> QED
      BY <2>2, <2>3
  <1>6. Top.kind # "root" => Len(frames) # 1
    BY <1>3 DEF Placed, Top
  <1>7. Len(frames) # 1 => Len(frames) > 1 /\ Len(frames) - 1 \in 1..Len(frames)
    <2>1. ASSUME NEW n \in Nat \ {0}, n # 1 PROVE n > 1 /\ n - 1 \in 1..n
      BY <2>1
    <2> QED
      BY <1>1, <2>1
  <1>8. Sequence(frames) /\ Sequence(scopes) /\ Sequence(fns) /\ TableOK(tbl)
    BY DEF Base, FramesOK, ScopesOK, FnsOK
  <1>9. Top.kind # "root" => Len(frames) > 1 /\ Len(frames) - 1 \in 1..Len(frames)
    BY <1>6, <1>7, Zenon
  <1> QED
    BY <1>1, <1>3, <1>4, <1>5, <1>8, <1>9, Zenon

(* Scopes bind names and are added, none dies.  Scope x, if it is not 0,   *)
(* is that of a loop: a variable takes the name of a function there.       *)
Moved(a, b, x) ==
  /\ Evolves(a, b)
  /\ \A s \in 1..Len(a) : (b[s].live <=> a[s].live) /\ b[s].mode = a[s].mode
  /\ \A s \in 1..Len(a) : s # x => KeepsFns(a[s], b[s]) /\ SameIds(a[s], b[s])
  /\ \A s \in 1..Len(b) : s > Len(a) => b[s].live /\ b[s].kind \notin Own

LEMMA StepOK ==
  ASSUME Base, status = "running", status' = "running",
         ScopesOK', FnsOK', TableOK(tbl'), Longer(tbl, tbl'), Len(fns) <= Len(fns'),
         NEW x, Moved(scopes, scopes', x),
         NEW m, NEW f, StackTo(m, f),
         x # 0 => m <= Len(frames) /\ frames[m].kind = "loop" /\ frames[m].scope = x,
         FrameOK(f, scopes', tbl', Len(fns')), Placed(frames', m, scopes'),
         f.kind = "loop" => LoopOK(f, scopes'[f.scope]),
         m <= Len(frames) => f.scope = frames[m].scope /\ (f.kind \in Own <=> frames[m].kind \in Own),
         m > Len(frames) => /\ f.kind \notin Own
                            /\ f.scope \in 1..Len(scopes)
                            /\ scopes[f.scope].kind \in Own => f.scope = Top.scope
                            /\ Top.kind \in Waiting => Top.val = NoVal
                            /\ Top.kind = "filter" => Top.new_scope # 0,
         m < Len(frames) => m = Len(frames) - 1 /\ Top.kind \notin Own
  PROVE  Base'
  <1>1. /\ Len(frames) \in Nat \ {0} /\ Len(scopes) \in Nat \ {0} /\ Len(fns) \in Nat
        /\ Sequence(frames) /\ Sequence(scopes)
    BY TopIs
  <1>2. /\ Len(fns') \in Nat /\ Len(scopes') \in Nat /\ Len(scopes) <= Len(scopes')
        /\ m \in Nat /\ m >= 1 /\ m <= Len(frames) + 1 /\ Len(frames') = m
    BY <1>1, SequenceIs DEF FnsOK, ScopesOK, StackTo, Moved, Evolves, SameTree
  <1>3. Evolves(scopes, scopes')
    BY DEF Moved
  <1>4. ASSUME NEW k \in 1..Len(frames), k < m
        PROVE  frames[k].scope \in 1..Len(scopes) /\ frames[k].scope # x
    <2>1. frames[k].scope \in 1..Len(scopes)
      BY DEF Base, FramesOK, FrameOK
    <2>2. x # 0 => frames[k].scope < x
      <3>1. x # 0 => m \in 1..Len(frames) /\ frames[m].kind \in Own
        BY <1>1, <1>2 DEF Own
      <3> QED
        BY <1>4, <3>1 DEF Base, Nested
    <2>3. frames[k].scope # 0
      BY <1>1, <2>1
    <2>4. x # 0 => frames[m].scope \in 1..Len(scopes)
      BY <1>1, <1>2 DEF Base, FramesOK, FrameOK
    <2> QED
      BY <1>1, <2>1, <2>2, <2>3, <2>4
  <1>5. ASSUME NEW k \in 1..Len(frames), k < m, frames[k].kind \in {"args", "call"}
        PROVE  KeepsFns(scopes[frames[k].callee.scope], scopes'[frames[k].callee.scope])
    <2>1. frames[k].callee.scope \in 1..frames[k].scope
      BY <1>5 DEF Base, FramesOK, FrameOK
    <2>2. x # 0 => frames[k].scope < x /\ x \in 1..Len(scopes)
      <3>1. x # 0 => m \in 1..Len(frames) /\ frames[m].kind \in Own
        BY <1>1, <1>2 DEF Own
      <3>2. x # 0 => frames[m].scope \in 1..Len(scopes)
        BY <3>1 DEF Base, FramesOK, FrameOK
      <3>3. x # 0 => frames[k].scope < frames[m].scope
        BY <1>5, <3>1 DEF Base, Nested
      <3> QED
        BY <3>2, <3>3
    <2>3. frames[k].callee.scope \in 1..Len(scopes) /\ frames[k].callee.scope # 0
      BY <1>1, <1>4, <1>5, <2>1
    <2>4. x # 0 => frames[k].callee.scope # x
      BY <1>1, <1>4, <1>5, <2>1, <2>2
    <2> QED
      BY <2>3, <2>4 DEF Moved
  <1>6. FramesOK'
    <2>1. FramesOK /\ Len(frames) > 0 /\ TableOK(tbl)
      BY <1>1 DEF Base
    <2>2. m > Len(frames) => /\ Top.kind \in Waiting => Top.val = NoVal
                             /\ Top.kind = "filter" => Top.new_scope # 0
      OBVIOUS
    <2> QED
      BY <1>1, <1>2, <1>3, <1>5, <2>1, <2>2, FramesStep
  <1>7. Nested' /\ Held'
    <2>1. \A s \in 1..Len(scopes) : scopes'[s].live <=> scopes[s].live
      BY DEF Moved
    <2>2. \A s \in 1..Len(scopes') : s > Len(scopes) => scopes'[s].live /\ scopes'[s].kind \notin Own
      BY DEF Moved
    <2> QED
      BY <1>3, <2>1, <2>2, FramesStay
  <1>8. LoopsOK'
    <2>1. LoopsOK
      BY DEF Base
    <2>2. ASSUME NEW k \in 1..Len(frames), k < m, frames[k].kind = "loop"
          PROVE  SameLoop(scopes[frames[k].scope], scopes'[frames[k].scope])
      BY <1>4, <2>2 DEF Moved, SameLoop
    <2> QED
      BY <1>1, <2>1, <2>2, LoopsStep
  <1>9. Len(frames') > 0 /\ Len(scopes') > 0
    BY <1>1, <1>2
  <1> QED
    BY <1>6, <1>7, <1>8, <1>9 DEF Base

(* The frame at the top changes.                                           *)
LEMMA TopStep ==
  ASSUME Base, status = "running", status' = "running",
         ScopesOK', FnsOK', TableOK(tbl'), Longer(tbl, tbl'), Len(fns) <= Len(fns'),
         NEW x, Moved(scopes, scopes', x), x # 0 => Top.kind = "loop" /\ Top.scope = x,
         NEW f, StackTo(Len(frames), f), FrameOK(f, scopes', tbl', Len(fns')), f.scope = Top.scope,
         f.kind = Top.kind \/ (f.kind = "call" /\ Top.kind = "args"),
         f.kind = "loop" => LoopOK(f, scopes'[f.scope])
  PROVE  Base'
  <1> DEFINE n == Len(frames)
  <1>1. /\ n \in Nat \ {0} /\ FrameOK(Top, scopes, tbl, Len(fns)) /\ Placed(frames, n, scopes)
        /\ Top.scope \in 1..Len(scopes)
    BY TopIs
  <1>2. frames[n] = Top /\ frames'[n] = f /\ Len(frames') = n
    BY DEF Top, StackTo
  <1>3. n > 1 => n - 1 \in 1..(n - 1)
    BY <1>1
  <1>4. n > 1 => frames'[n - 1] = frames[n - 1]
    BY <1>3 DEF StackTo
  <1>5. scopes'[f.scope].kind = scopes[Top.scope].kind
    BY <1>1 DEF Moved, Evolves, SameTree
  <1>6. ~(n > n) /\ ~(n < n) /\ n <= n
    BY <1>1
  <1> HIDE DEF n
  <1>7. f.kind = "root" <=> Top.kind = "root"
    BY <1>1
  <1>8. Placed(frames', n, scopes')
    BY <1>1, <1>2, <1>4, <1>5, <1>7 DEF Placed
  <1>9. f.kind \in Own <=> Top.kind \in Own
    BY DEF Own
  <1> QED
    BY <1>2, <1>6, <1>8, <1>9, StepOK DEF n

(* Where the next node is evaluated.                                       *)
LEMMA FnScopeIs ==
  ASSUME Base, status = "running", NEW r \in 1..Len(fns)
  PROVE  /\ FnOK(fns[r], scopes)
         /\ fns[r].scope \in 1..Len(scopes)
         /\ scopes[fns[r].scope].kind = "function" /\ scopes[fns[r].scope].live
  <1>1. FnOK(fns[r], scopes)
    BY DEF Base, FnsOK
  <1>2. fns[r].scope \in 1..Len(scopes) /\ scopes[fns[r].scope].kind = "function"
    BY <1>1 DEF FnOK
  <1>3. scopes[fns[r].scope].live
    BY <1>2 DEF Base, Held, Own
  <1> QED
    BY <1>1, <1>2, <1>3

LEMMA CalleeIs ==
  ASSUME Base, status = "running", NEW k \in 1..Len(frames), frames[k].kind \in {"args", "call"},
         ValidCallee(frames[k].callee)
  PROVE  /\ frames[k].callee.scope \in 1..Len(scopes)
         /\ PointsAt(frames[k].callee).ref \in 1..Len(fns)
  <1> DEFINE c == frames[k].callee
  <1>1. FrameOK(frames[k], scopes, tbl, Len(fns)) /\ Len(scopes) \in Nat
    BY SequenceIs DEF Base, FramesOK, ScopesOK
  <1>2. c.scope \in 1..frames[k].scope /\ frames[k].scope \in 1..Len(scopes)
    BY <1>1 DEF FrameOK
  <1>3. c.scope \in 1..Len(scopes)
    BY <1>1, <1>2
  <1>4. BindsFn(scopes[c.scope], c.name)
    BY <1>1 DEF FrameOK, ValidCallee
  <1> HIDE DEF c
  <1>5. ScopeOK(scopes[c.scope], c.scope, tbl, Len(fns))
    BY <1>3 DEF Base, ScopesOK
  <1>6. PointsAt(c).ref \in 1..Len(fns)
    BY <1>4, <1>5 DEF ScopeOK, BindsFn, BindingOK, PointsAt
  <1> QED
    BY <1>3, <1>6 DEF c

LEMMA EvalScopeIs ==
  ASSUME Base, AtStatement \/ AtExpr
  PROVE  /\ EvalScope \in 1..Len(scopes)
         /\ scopes[EvalScope].live
         /\ Top.kind \notin {"call", "filter"} => EvalScope = Top.scope
         /\ Top.kind \in {"call", "filter"} => scopes[EvalScope].kind = "function"
  <1>0. status = "running"
    BY DEF AtStatement, AtExpr
  <1>1. /\ Len(frames) \in Nat \ {0} /\ FrameOK(Top, scopes, tbl, Len(fns))
        /\ Top.scope \in 1..Len(scopes) /\ scopes[Top.scope].live
    BY <1>0, TopIs
  <1>2. Len(frames) \in 1..Len(frames)
    BY <1>1
  <1>3. CASE Top.kind \notin {"call", "filter"}
    BY <1>1, <1>3 DEF EvalScope
  <1>4. CASE Top.kind = "call"
    <2>1. ValidCallee(Top.callee)
      BY <1>4 DEF AtStatement, AtExpr
    <2>2. PointsAt(Top.callee).ref \in 1..Len(fns)
      BY <1>0, <1>2, <1>4, <2>1, CalleeIs DEF Top
    <2>3. EvalScope = fns[PointsAt(Top.callee).ref].scope
      BY <1>4 DEF EvalScope
    <2> QED
      BY <1>0, <1>4, <2>2, <2>3, FnScopeIs
  <1>5. CASE Top.kind = "filter"
    <2>1. Top.new_scope # 0
      BY <1>5 DEF AtStatement, AtExpr
    <2>2. EvalScope = Top.new_scope
      BY <1>5 DEF EvalScope
    <2>3. Top.new_scope \in 0..Len(scopes) /\ scopes[Top.new_scope].kind = "function"
      BY <1>1, <1>5, <2>1 DEF FrameOK
    <2>4. Len(scopes) \in Nat
      BY <1>0, TopIs
    <2>5. Top.new_scope \in 1..Len(scopes)
      BY <2>1, <2>3, <2>4
    <2>6. scopes[Top.new_scope].live
      BY <1>0, <2>3, <2>5 DEF Base, Held, Own
    <2> QED
      BY <1>5, <2>2, <2>3, <2>5, <2>6
  <1> QED
    BY <1>3, <1>4, <1>5

(* A frame is pushed.                                                      *)
LEMMA PushStep ==
  ASSUME Base, AtStatement \/ AtExpr, status' = "running",
         scopes' = scopes, fns' = fns, TableOK(tbl'), ScopesOK', Longer(tbl, tbl'),
         NEW f, frames' = Append(frames, f), FrameOK(f, scopes, tbl', Len(fns)),
         f.kind \notin Own \cup {"root"},
         f.scope = EvalScope, f.kind = "var_decl" => AtStatement
  PROVE  Base'
  <1> DEFINE n == Len(frames)
  <1>0. status = "running"
    BY DEF AtStatement, AtExpr
  <1>1. /\ n \in Nat \ {0} /\ FrameOK(Top, scopes, tbl, Len(fns)) /\ Placed(frames, n, scopes)
        /\ Top.scope \in 1..Len(scopes) /\ Sequence(frames) /\ Sequence(scopes) /\ Len(fns) \in Nat
        /\ Len(scopes) \in Nat
    BY <1>0, TopIs
  <1>2. StackTo(n + 1, f)
    BY <1>1, PushTo
  <1>3. /\ n + 1 > n /\ ~(n + 1 <= n) /\ ~(n + 1 < n) /\ n + 1 # 1 /\ n + 1 > 1 /\ (n + 1) - 1 = n
        /\ Len(fns) <= Len(fns') /\ n \in 1..((n + 1) - 1)
    BY <1>1
  <1>4. frames'[n + 1] = f /\ frames'[n] = Top /\ Len(frames') = n + 1
    BY <1>2, <1>3 DEF StackTo, Top
  <1>5. /\ Top.kind \in Waiting => Top.val = NoVal
        /\ Top.kind = "filter" => Top.new_scope # 0
    BY DEF AtStatement, AtExpr, Waiting
  <1>6. /\ EvalScope \in 1..Len(scopes)
        /\ Top.kind \notin {"call", "filter"} => EvalScope = Top.scope
        /\ Top.kind \in {"call", "filter"} => scopes[EvalScope].kind = "function"
    BY EvalScopeIs
  <1>7. ASSUME f.kind = "var_decl", scopes[f.scope].kind = "loop"
        PROVE  Top.kind = "loop" /\ Top.scope = f.scope
    <2>1. Top.kind \notin {"call", "filter"} /\ f.scope = Top.scope
      BY <1>6, <1>7
    <2>2. Top.kind \in {"root", "block", "loop"}
      BY <1>7, <2>1 DEF AtStatement
    <2>3. Top.kind = "root" => scopes[Top.scope].kind = "global"
      BY <1>1 DEF FrameOK, Base, ScopesOK, ScopeOK
    <2>4. Top.kind = "block" => scopes[Top.scope].kind = "block"
      BY <1>1 DEF FrameOK, Own
    <2> QED
      BY <1>7, <2>1, <2>2, <2>3, <2>4
  <1> HIDE DEF n
  <1>8. Placed(frames', n + 1, scopes')
    <2>1. (n + 1) - 1 = n
      BY <1>3
    <2> QED
      BY <1>3, <1>4, <1>7, <2>1 DEF Placed, Own
  <1>9. /\ Sequence(scopes') /\ Len(scopes) <= Len(scopes')
        /\ \A s \in 1..Len(scopes') : ~(s > Len(scopes))
    BY <1>1
  <1>10. Moved(scopes, scopes', 0)
    BY <1>9 DEF Moved, Evolves, SameTree, KeepsFns, SameIds
  <1>11. scopes[f.scope].kind \in Own => f.scope = Top.scope
    BY <1>6 DEF Own
  <1>12. FnsOK'
    BY DEF Base, FnsOK
  <1>13. FrameOK(f, scopes', tbl', Len(fns')) /\ f.kind # "loop" /\ f.kind \notin Own
    BY DEF Own
  <1> QED
    BY <1>0, <1>2, <1>3, <1>5, <1>6, <1>8, <1>10, <1>11, <1>12, <1>13, StepOK DEF n

(* A frame gets the value it waits for.                                    *)
LEMMA GivenOK ==
  ASSUME NEW below, NEW ss, NEW t, NEW n, FrameOK(below, ss, t, n), below.kind \in Waiting,
         NEW v, ValueIn(v, t), v.type # "VAL_FUNCTION"
  PROVE  LET f == [below EXCEPT !.val = v]
         IN  FrameOK(f, ss, t, n) /\ f.kind = below.kind /\ f.scope = below.scope
  <1> DEFINE f == [below EXCEPT !.val = v]
  <1>1. FrameShape(f) /\ f.kind = below.kind /\ f.scope = below.scope /\ f.val = v
        /\ (f.kind = "var_decl" => f.name = below.name /\ f.is_const = below.is_const)
        /\ (f.kind = "assignment" => f.name = below.name)
        /\ (f.kind = "args" => f.callee = below.callee)
    <2>1. FrameShape(below)
      BY DEF FrameOK
    <2>2. CASE below.kind = "var_decl"
      BY <2>1, <2>2 DEF FrameShape
    <2>3. CASE below.kind = "assignment"
      BY <2>1, <2>3 DEF FrameShape
    <2>4. CASE below.kind = "args"
      BY <2>1, <2>4 DEF FrameShape
    <2> QED
      BY <2>2, <2>3, <2>4 DEF Waiting
  <1> HIDE DEF f
  <1>2. f.kind \in {"var_decl", "assignment", "args"}
    BY <1>1 DEF Waiting
  <1>3. FrameOK(f, ss, t, n)
    BY <1>1, <1>2 DEF FrameOK, Waiting, Own
  <1> QED
    BY <1>1, <1>3 DEF f

(* The frame at the top is popped; the one below may get the value it      *)
(* waits for.                                                              *)
LEMMA PopStep ==
  ASSUME Base, status = "running", status' = "running", Top.kind \notin Own \cup {"root"},
         ScopesOK', FnsOK', TableOK(tbl'), Longer(tbl, tbl'), Len(fns) <= Len(fns'),
         NEW x, Moved(scopes, scopes', x),
         LET below == frames[Len(frames) - 1] IN
           /\ x # 0 => below.kind = "loop" /\ below.scope = x /\ SameIds(scopes[x], scopes'[x])
           /\ \/ StackTo(Len(frames) - 1, below)
              \/ \E v : /\ StackTo(Len(frames) - 1, Given(below, v))
                       /\ ValueIn(v, tbl') /\ v.type # "VAL_FUNCTION"
  PROVE  Base'
  <1> DEFINE n == Len(frames)
             m == n - 1
             below == frames[m]
  <1>1. /\ n \in Nat \ {0} /\ Sequence(scopes) /\ Len(fns) \in Nat /\ TableOK(tbl)
        /\ n > 1 /\ m \in 1..n
    BY TopIs
  <1>2. Len(fns') \in Nat
    BY SequenceIs DEF FnsOK
  <1>3. m # n /\ m <= n /\ ~(m > n) /\ m < n
    BY <1>1
  <1>4. FrameOK(below, scopes, tbl, Len(fns)) /\ Placed(frames, m, scopes)
    BY <1>1 DEF Base, FramesOK
  <1>5. below.scope \in 1..Len(scopes)
    BY <1>4 DEF FrameOK
  <1>6. Evolves(scopes, scopes')
    BY DEF Moved
  <1>7. FrameOK(below, scopes', tbl', Len(fns'))
    <2>1. ASSUME below.kind \in {"args", "call"}
          PROVE  KeepsFns(scopes[below.callee.scope], scopes'[below.callee.scope])
      <3>1. below.callee.scope \in 1..below.scope
        BY <1>4, <2>1 DEF FrameOK
      <3>2. below.callee.scope \in 1..Len(scopes)
        <4>1. Len(scopes) \in Nat
          BY TopIs
        <4> QED
          BY <1>5, <3>1, <4>1
      <3>3. x = 0
        BY <2>1
      <3> QED
        BY <3>2, <3>3 DEF Moved
    <2> HIDE DEF below
    <2> QED
      BY <1>1, <1>2, <1>4, <1>6, <2>1, FrameLater
  <1>8. PICK f : /\ StackTo(m, f)
                 /\ f = below \/ \E v : /\ f = Given(below, v)
                                       /\ ValueIn(v, tbl') /\ v.type # "VAL_FUNCTION"
    OBVIOUS
  <1> HIDE DEF n, m, below
  <1>9. /\ f.kind = below.kind /\ f.scope = below.scope /\ FrameOK(f, scopes', tbl', Len(fns'))
        /\ f.kind \notin Waiting => f = below
    <2>1. CASE f = below
      BY <1>7, <2>1
    <2>2. CASE f # below
      <3>1. PICK v : f = Given(below, v) /\ ValueIn(v, tbl') /\ v.type # "VAL_FUNCTION"
        BY <1>8, <2>2
      <3>2. below.kind \in Waiting /\ f = [below EXCEPT !.val = v]
        BY <2>2, <3>1 DEF Given
      <3> QED
        BY <1>7, <3>1, <3>2, GivenOK
    <2> QED
      BY <2>1, <2>2
  <1>10. Placed(frames', m, scopes')
    <2>1. frames'[m] = f /\ Len(frames') = m
      BY <1>8 DEF StackTo
    <2>2. m > 1 => frames'[m - 1] = frames[m - 1]
      <3>1. m > 1 => m - 1 \in 1..(m - 1)
        BY <1>1 DEF m
      <3> QED
        BY <1>8, <3>1 DEF StackTo
    <2>3. scopes'[below.scope].kind = scopes[below.scope].kind
      BY <1>5, <1>6 DEF Evolves, SameTree
    <2> QED
      BY <1>4, <1>9, <2>1, <2>2, <2>3 DEF Placed, below
  <1>11. f.kind = "loop" => LoopOK(f, scopes'[f.scope])
    <2>1. SUFFICES ASSUME f.kind = "loop" PROVE LoopOK(f, scopes'[f.scope])
      OBVIOUS
    <2>2. f = below
      BY <1>9, <2>1 DEF Waiting
    <2>3. LoopOK(below, scopes[below.scope])
      BY <1>1, <2>1, <2>2 DEF Base, LoopsOK, below, n
    <2>4. SameIds(scopes[below.scope], scopes'[below.scope]) /\ scopes'[below.scope].mode = scopes[below.scope].mode
      BY <1>5 DEF Moved, below, m, n
    <2> QED
      BY <2>2, <2>3, <2>4 DEF LoopOK, SameIds
  <1>12. /\ x # 0 => m <= Len(frames) /\ frames[m].kind = "loop" /\ frames[m].scope = x
         /\ m <= Len(frames) => f.scope = frames[m].scope /\ (f.kind \in Own <=> frames[m].kind \in Own)
    BY <1>3, <1>9 DEF below, m, n
  <1>13. m < Len(frames) => m = Len(frames) - 1 /\ Top.kind \notin Own
    BY <1>3 DEF m, n
  <1>14. ~(m > Len(frames)) /\ StackTo(m, f)
    BY <1>3, <1>8 DEF n
  <1> HIDE DEF StackTo
  <1> QED
    BY <1>9, <1>10, <1>11, <1>12, <1>13, <1>14, StepOK

-----------------------------------------------------------------------------
(* What eval makes.  The elements of an array literal are copied one by    *)
(* one.                                                                    *)
LEMMA MaxIs ==
  ASSUME NEW n \in Nat, NEW s \in SUBSET (1..n), s # {}
  PROVE  Max(s) \in s
  <1> DEFINE T == {n - x : x \in s}
  <1>1. T \subseteq Nat /\ T # {}
    <2>1. \A x \in 1..n : n - x \in Nat
      OBVIOUS
    <2>2. \A x \in s : n - x \in Nat
      BY <2>1
    <2> QED
      BY <2>2
  <1>2. PICK y \in T : \A z \in T : y <= z
    <2> HIDE DEF T
    <2> QED
      BY <1>1, LeastNat
  <1>3. PICK x \in s : y = n - x
    BY <1>2
  <1>4. \A z \in s : x >= z
    <2>1. SUFFICES ASSUME NEW z \in s PROVE x >= z
      OBVIOUS
    <2>2. n - x <= n - z
      BY <1>2, <1>3
    <2>3. x \in 1..n /\ z \in 1..n
      BY <1>3
    <2> QED
      BY <2>2, <2>3
  <1> QED
    BY <1>4 DEF Max

LEMMA ArrayLitIs ==
  ASSUME TableOK(tbl), NEW n \in Nat
  PROVE  Grown(tbl, eval_array_lit(n))
  <1> DEFINE S == 1..n
             t == tbl
             seq == [i \in 1..n |-> i]
             Pick(s) == Max(s)
             Body(w, s) == IF s = {} THEN t ELSE val_copy_deep(Element, w[s \ {Pick(s)}]).tbl
             F(w) == [s \in SUBSET S |-> Body(w, s)]
             iter == CHOOSE w : w = F(w)
             Upto(k) == {s \in SUBSET S : Cardinality(s) <= k}
             Bad == {k \in Nat : ~\E w : w = [s \in Upto(k) |-> Body(w, s)]}
  <1>1. eval_array_lit(n) = iter[S]
    <2>1. DOMAIN seq = S
      OBVIOUS
    <2> HIDE DEF S
    <2> QED
      BY <2>1 DEF eval_array_lit, FoldLeft, MapThenFoldSet
  <1>2. IsFiniteSet(S) /\ \A s \in SUBSET S : Cardinality(s) \in Nat /\ (s # {} => Pick(s) \in s)
    <2>1. IsFiniteSet(S)
      BY FS_Interval
    <2>2. ASSUME NEW s \in SUBSET S PROVE Cardinality(s) \in Nat
      <3> HIDE DEF S
      <3> QED
        BY <2>1, FS_Subset, FS_CardinalityType
    <2>3. ASSUME NEW s \in SUBSET S, s # {} PROVE Pick(s) \in s
      BY <2>3, MaxIs
    <2> QED
      BY <2>1, <2>2, <2>3
  <1>20. TableOK(t)
    OBVIOUS
  <1> HIDE DEF S, t
  <1>3. ASSUME NEW s \in SUBSET S, s # {}
        PROVE  /\ Pick(s) \in s
               /\ s \ {Pick(s)} \in SUBSET S
               /\ Cardinality(s) \in Nat \ {0}
               /\ Cardinality(s \ {Pick(s)}) = Cardinality(s) - 1
    BY <1>2, <1>3, SmallerSet
  <1> HIDE DEF Pick
  <1>4. ASSUME NEW k \in Nat, NEW v, NEW w, NEW s \in Upto(k),
               \A r \in SUBSET S : Cardinality(r) < k => w[r] = v[r]
        PROVE  Body(w, s) = Body(v, s)
    <2>1. CASE s = {}
      BY <2>1
    <2>2. CASE s # {}
      <3>1. w[s \ {Pick(s)}] = v[s \ {Pick(s)}]
        BY <1>3, <1>4, <2>2
      <3> QED
        BY <2>2, <3>1
    <2> QED
      BY <2>1, <2>2
  <1> HIDE DEF Body
  <1>5. Bad = {}
    <2>1. SUFFICES ASSUME Bad # {} PROVE FALSE
      OBVIOUS
    <2>2. PICK k \in Bad : \A j \in Bad : k <= j
      <3>1. Bad \subseteq Nat
        OBVIOUS
      <3> HIDE DEF Bad
      <3> QED
        BY <2>1, <3>1, LeastNat
    <2>3. k \in Nat /\ ~\E w : w = [s \in Upto(k) |-> Body(w, s)]
      BY <2>2
    <2>4. CASE k = 0
      <3> DEFINE w == [s \in Upto(0) |-> Body(<<>>, s)]
      <3>1. ASSUME NEW s \in Upto(0) PROVE Body(<<>>, s) = Body(w, s)
        <4>1. \A r \in SUBSET S : ~(Cardinality(r) < 0)
          BY <1>2
        <4> HIDE DEF w
        <4> QED
          BY <1>4, <4>1
      <3>2. w = [s \in Upto(0) |-> Body(w, s)]
        BY <3>1
      <3> HIDE DEF w
      <3> QED
        BY <2>3, <2>4, <3>2
    <2>5. CASE k # 0
      <3> DEFINE j == k - 1
      <3>0. j \in Nat /\ ~(k <= j)
        BY <2>3, <2>5
      <3>1. j \in Nat /\ j \notin Bad
        <4> HIDE DEF Bad, j
        <4> QED
          BY <2>2, <3>0
      <3>2. PICK v : v = [s \in Upto(k - 1) |-> Body(v, s)]
        <4> HIDE DEF Upto
        <4> QED
          BY <3>1
      <3> DEFINE w == [s \in Upto(k) |-> IF s \in Upto(k - 1) THEN v[s] ELSE Body(v, s)]
      <3>3. \A r \in SUBSET S : Cardinality(r) < k => r \in Upto(k - 1) /\ r \in Upto(k)
        BY <1>2, <2>3
      <3>4. \A r \in SUBSET S : Cardinality(r) < k => w[r] = v[r]
        BY <3>3
      <3>5. \A s \in Upto(k) : w[s] = Body(v, s)
        <4>1. \A s \in Upto(k - 1) : v[s] = Body(v, s)
          <5> HIDE DEF Upto
          <5> QED
            BY <3>2
        <4> QED
          BY <4>1
      <3>6. DOMAIN w = Upto(k) /\ w = [s \in Upto(k) |-> w[s]]
        OBVIOUS
      <3> HIDE DEF w
      <3>7. \A s \in Upto(k) : w[s] = Body(w, s)
        BY <1>4, <2>3, <3>4, <3>5
      <3>8. w = [s \in Upto(k) |-> Body(w, s)]
        <4> HIDE DEF Upto
        <4> QED
          BY <3>6, <3>7
      <3> QED
        BY <2>3, <3>8
    <2> QED
      BY <2>4, <2>5
  <1>6. PICK w : w = F(w)
    <2>1. Cardinality(S) \in Nat /\ Upto(Cardinality(S)) = SUBSET S
      BY <1>2, FS_Subset, FS_CardinalityType
    <2>2. \E w : w = [s \in Upto(Cardinality(S)) |-> Body(w, s)]
      BY <1>5, <2>1
    <2> HIDE DEF Upto
    <2> QED
      BY <2>1, <2>2
  <1>7. iter = F(iter)
    <2> HIDE DEF F
    <2> QED
      BY <1>6
  <1> HIDE DEF iter
  <1>8. \A s \in SUBSET S : iter[s] = Body(iter, s)
    BY <1>7
  <1> DEFINE Wrong == {k \in Nat : \E s \in SUBSET S : Cardinality(s) = k /\ ~Grown(t, iter[s])}
  <1>9. Wrong = {}
    <2>1. SUFFICES ASSUME Wrong # {} PROVE FALSE
      OBVIOUS
    <2>2. PICK k \in Wrong : \A j \in Wrong : k <= j
      <3>1. Wrong \subseteq Nat
        OBVIOUS
      <3> HIDE DEF Wrong
      <3> QED
        BY <2>1, <3>1, LeastNat
    <2>3. PICK s \in SUBSET S : Cardinality(s) = k /\ ~Grown(t, iter[s])
      BY <2>2
    <2>4. k \in Nat
      BY <2>2
    <2>5. CASE s = {}
      <3>1. iter[s] = t
        BY <1>8, <2>5 DEF Body
      <3> QED
        BY <1>20, <2>3, <3>1, GrownSelf
    <2>6. CASE s # {}
      <3> DEFINE x == Pick(s)
                 u == iter[s \ {x}]
      <3>1. x \in s /\ s \ {x} \in SUBSET S /\ Cardinality(s \ {x}) = k - 1 /\ k - 1 \in Nat
        BY <1>3, <2>3, <2>4, <2>6
      <3>2. Grown(t, u)
        <4>1. k - 1 \notin Wrong
          BY <2>2, <2>4
        <4> QED
          BY <3>1, <4>1
      <3>3. iter[s] = val_copy_deep(Element, u).tbl
        BY <1>8, <2>6 DEF Body
      <3> HIDE DEF u, x
      <3>4. TableOK(u) /\ ValueIn(Element, u) /\ Element.type # "VAL_FUNCTION"
        <4>1. TableOK(u)
          BY <3>2 DEF Grown
        <4> QED
          BY <4>1, TableLengths DEF ValueIn, Element, Val, ValueType
      <3>5. Grown(u, val_copy_deep(Element, u).tbl)
        BY <3>4, CopyDeepIs
      <3> QED
        BY <1>20, <2>3, <3>2, <3>3, <3>5, GrownTwice
    <2> QED
      BY <2>5, <2>6
  <1>10. Grown(t, iter[S])
    <2>1. S \in SUBSET S /\ Cardinality(S) \in Nat
      BY <1>2
    <2> QED
      BY <1>9, <2>1
  <1> QED
    BY <1>1, <1>10 DEF t

(* The texts that the operators make are texts.                            *)
DigitsStep(w, n) == IF n < 10 THEN <<48 + n>> ELSE Append(w[n \div 10], 48 + (n % 10))

LEMMA DigitsExist == \E f : f = [n \in Nat |-> DigitsStep(f, n)]
  <1> DEFINE P(k, w) == w = [n \in 0..k |-> DigitsStep(w, n)]
             Bad == {k \in Nat : ~\E w : P(k, w)}
  <1>1. ASSUME NEW n \in Nat, NEW v, NEW w, \A m \in 0..(n - 1) : v[m] = w[m]
        PROVE  DigitsStep(v, n) = DigitsStep(w, n)
    <2>1. CASE n < 10
      BY <2>1 DEF DigitsStep
    <2>2. CASE ~(n < 10)
      <3>1. n \div 10 \in 0..(n - 1)
        BY <2>2
      <3>2. v[n \div 10] = w[n \div 10]
        BY <1>1, <3>1
      <3> QED
        BY <2>2, <3>2 DEF DigitsStep
    <2> QED
      BY <2>1, <2>2
  <1>2. Bad = {}
    <2>1. SUFFICES ASSUME Bad # {} PROVE FALSE
      OBVIOUS
    <2>2. PICK k \in Bad : \A j \in Bad : k <= j
      <3>1. Bad \subseteq Nat
        OBVIOUS
      <3> HIDE DEF Bad
      <3> QED
        BY <2>1, <3>1, LeastNat
    <2>3. k \in Nat /\ ~\E w : P(k, w)
      BY <2>2
    <2>4. PICK v : \A n \in 0..(k - 1) : v[n] = DigitsStep(v, n)
      <3>1. CASE k = 0
        BY <3>1
      <3>2. CASE k # 0
        <4>1. k - 1 \in Nat /\ ~(k <= k - 1)
          BY <2>3, <3>2
        <4>2. k - 1 \notin Bad
          <5> HIDE DEF Bad
          <5> QED
            BY <2>2, <4>1
        <4>3. PICK v : P(k - 1, v)
          BY <4>1, <4>2
        <4> QED
          BY <4>3
      <3> QED
        BY <3>1, <3>2
    <2> DEFINE w == [n \in 0..k |-> IF n = k THEN DigitsStep(v, k) ELSE v[n]]
    <2>5. /\ \A n \in 0..(k - 1) : w[n] = v[n]
          /\ w[k] = DigitsStep(v, k)
          /\ w = [n \in 0..k |-> w[n]]
      BY <2>3
    <2> HIDE DEF w
    <2>6. ASSUME NEW n \in 0..k PROVE w[n] = DigitsStep(w, n)
      <3>0. n \in Nat /\ \A m \in 0..(n - 1) : m \in 0..(k - 1)
        BY <2>3
      <3>1. n \in Nat /\ \A m \in 0..(n - 1) : w[m] = v[m]
        BY <2>5, <3>0
      <3>2. DigitsStep(w, n) = DigitsStep(v, n)
        BY <1>1, <3>1
      <3>3. n = k \/ n \in 0..(k - 1)
        BY <2>3
      <3> QED
        BY <2>4, <2>5, <3>2, <3>3
    <2>7. P(k, w)
      BY <2>5, <2>6
    <2> QED
      BY <2>3, <2>7
  <1>3. ASSUME NEW j \in Nat, NEW v, P(j, v), NEW k \in Nat, NEW w, P(k, w), j <= k
        PROVE  \A n \in 0..j : v[n] = w[n]
    <2> DEFINE Differ == {n \in 0..j : v[n] # w[n]}
    <2>1. SUFFICES ASSUME Differ # {} PROVE FALSE
      OBVIOUS
    <2>2. PICK n \in Differ : \A m \in Differ : n <= m
      <3>1. Differ \subseteq Nat
        OBVIOUS
      <3> HIDE DEF Differ
      <3> QED
        BY <2>1, <3>1, LeastNat
    <2>3. n \in 0..j /\ n \in 0..k /\ n \in Nat
      BY <1>3, <2>2
    <2>4. \A m \in 0..(n - 1) : v[m] = w[m]
      BY <2>2, <2>3
    <2>5. v[n] = DigitsStep(v, n)
      BY <1>3, <2>3
    <2>6. w[n] = DigitsStep(w, n)
      BY <1>3, <2>3
    <2>7. DigitsStep(v, n) = DigitsStep(w, n)
      BY <1>1, <2>3, <2>4
    <2> QED
      BY <2>2, <2>5, <2>6, <2>7
  <1> DEFINE W(k) == CHOOSE w : P(k, w)
             f == [n \in Nat |-> W(n)[n]]
  <1>4. \A k \in Nat : P(k, W(k))
    <2>1. \A k \in Nat : \E w : P(k, w)
      BY <1>2
    <2> HIDE DEF P
    <2> QED
      BY <2>1
  <1>5. ASSUME NEW n \in Nat PROVE f[n] = DigitsStep(f, n)
    <2> HIDE DEF W
    <2>1. ASSUME NEW m \in 0..(n - 1) PROVE W(n)[m] = f[m]
      <3>1. m \in Nat /\ m <= n /\ m \in 0..m
        OBVIOUS
      <3>2. P(m, W(m)) /\ P(n, W(n))
        BY <1>4, <3>1
      <3> HIDE DEF P
      <3>3. W(m)[m] = W(n)[m]
        BY <1>3, <3>1, <3>2
      <3> QED
        BY <3>1, <3>3
    <2>2. W(n)[n] = DigitsStep(W(n), n)
      <3>1. P(n, W(n)) /\ n \in 0..n
        BY <1>4
      <3> QED
        BY <3>1
    <2>3. f[n] = W(n)[n]
      OBVIOUS
    <2> HIDE DEF f
    <2>4. DigitsStep(W(n), n) = DigitsStep(f, n)
      BY <1>1, <2>1
    <2> QED
      BY <2>2, <2>3, <2>4
  <1>6. f = [n \in Nat |-> f[n]]
    OBVIOUS
  <1> HIDE DEF f
  <1>7. f = [n \in Nat |-> DigitsStep(f, n)]
    BY <1>5, <1>6
  <1> QED
    BY <1>7

LEMMA DigitsIs ==
  ASSUME NEW n \in Nat
  PROVE  Digits[n] \in Seq(Nat)
  <1> DEFINE F(f) == [k \in Nat |-> DigitsStep(f, k)]
  <1>1. Digits = CHOOSE f : f = F(f)
    BY DEF Digits, DigitsStep
  <1>2. Digits = F(Digits)
    <2>1. \E f : f = F(f)
      BY DigitsExist
    <2> HIDE DEF F
    <2> QED
      BY <1>1, <2>1
  <1>3. \A k \in Nat : Digits[k] = DigitsStep(Digits, k)
    BY <1>2
  <1> DEFINE Bad == {k \in Nat : Digits[k] \notin Seq(Nat)}
  <1>4. SUFFICES ASSUME Bad # {} PROVE FALSE
    OBVIOUS
  <1>5. PICK k \in Bad : \A j \in Bad : k <= j
    <2>1. Bad \subseteq Nat
      OBVIOUS
    <2> HIDE DEF Bad
    <2> QED
      BY <1>4, <2>1, LeastNat
  <1>50. k \in Nat /\ Digits[k] \notin Seq(Nat)
    BY <1>5
  <1>6. CASE k < 10
    <2>1. Digits[k] = <<48 + k>>
      BY <1>3, <1>5, <1>6 DEF DigitsStep
    <2>2. 48 + k \in Nat
      BY <1>5
    <2>3. ASSUME NEW c \in Nat PROVE <<c>> \in Seq(Nat)
      OBVIOUS
    <2> QED
      BY <1>50, <2>1, <2>2, <2>3
  <1>7. CASE ~(k < 10)
    <2>1. Digits[k] = Append(Digits[k \div 10], 48 + (k % 10))
      BY <1>3, <1>5, <1>7 DEF DigitsStep
    <2>2. k \div 10 \in Nat /\ ~(k <= k \div 10) /\ 48 + (k % 10) \in Nat
      BY <1>5, <1>7
    <2>3. Digits[k \div 10] \in Seq(Nat)
      BY <1>5, <2>2
    <2>4. ASSUME NEW s \in Seq(Nat), NEW c \in Nat PROVE Append(s, c) \in Seq(Nat)
      OBVIOUS
    <2> QED
      BY <1>50, <2>1, <2>2, <2>3, <2>4
  <1> QED
    BY <1>6, <1>7

LEMMA StringifyIs ==
  ASSUME NEW v \in Value
  PROVE  val_stringify(v) \in Seq(Nat)
  <1>0. <<>> \in Seq(Nat)
    OBVIOUS
  <1>1. v.int \in Int /\ v.text \in Seq(Nat)
    <2>1. v.int \in Int
      BY ValueParts
    <2>2. CASE v.type = "VAL_STRING"
      <3>1. PICK s \in Seq(Nat) : v = String(s)
        BY <2>2 DEF Value, AllValues, Integer, Boolean, Other, Opaque
      <3> QED
        BY <2>1, <3>1 DEF String
    <2>3. CASE v.type # "VAL_STRING"
      <3>1. v.text = <<>>
        BY <2>3 DEF Value, AllValues, Integer, Boolean, String, Other, Opaque
      <3> QED
        BY <1>0, <2>1, <3>1
    <2> QED
      BY <2>2, <2>3
  <1>2. true \in Seq(Nat) /\ false \in Seq(Nat) /\ null \in Seq(Nat)
    BY DEF true, false, null
  <1>3. Decimal(v.int) \in Seq(Nat)
    <2>1. CASE v.int < 0
      <3>1. -v.int \in Nat
        BY <1>1, <2>1
      <3>2. Digits[-v.int] \in Seq(Nat)
        BY <3>1, DigitsIs
      <3>3. <<45>> \in Seq(Nat)
        OBVIOUS
      <3>4. ASSUME NEW a \in Seq(Nat), NEW b \in Seq(Nat) PROVE a \o b \in Seq(Nat)
        OBVIOUS
      <3> QED
        BY <2>1, <3>2, <3>3, <3>4 DEF Decimal
    <2>2. CASE ~(v.int < 0)
      <3>1. v.int \in Nat
        BY <1>1, <2>2
      <3> QED
        BY <2>2, <3>1, DigitsIs DEF Decimal
    <2> QED
      BY <2>1, <2>2
  <1>4. CASE v.type = "VAL_STRING"
    BY <1>1, <1>4 DEF val_stringify
  <1>5. CASE v.type = "VAL_INTEGER"
    BY <1>3, <1>5 DEF val_stringify
  <1>6. CASE v.type = "VAL_BOOLEAN"
    BY <1>2, <1>6, Zenon DEF val_stringify
  <1>7. CASE v.type \notin {"VAL_STRING", "VAL_INTEGER", "VAL_BOOLEAN"}
    BY <1>2, <1>7 DEF val_stringify
  <1> QED
    BY <1>4, <1>5, <1>6, <1>7

(* What an operator makes can be put into a val_t.                         *)
Makes == {"VAL_STRING", "VAL_BOOLEAN", "VAL_INTEGER", "VAL_FLOAT"}

LEMMA StringOpIs ==
  ASSUME NEW l \in Value, NEW r \in Value, NEW operator,
         eval_binexp_string(operator, l, r).how = "value"
  PROVE  LET v == eval_binexp_string(operator, l, r).value IN v \in Value /\ v.type \in Makes
  <1>1. CASE operator = "+"
    <2>1. eval_binexp_string(operator, l, r) = eval_concat(l, r)
      BY <1>1 DEF eval_binexp_string
    <2>2. HasText(l) /\ HasText(r)
      BY <2>1 DEF eval_concat, Fails
    <2> DEFINE s == val_stringify(l) \o val_stringify(r)
    <2>3. s \in Seq(Nat)
      <3>1. ASSUME NEW a \in Seq(Nat), NEW b \in Seq(Nat) PROVE a \o b \in Seq(Nat)
        OBVIOUS
      <3> QED
        BY <3>1, StringifyIs
    <2>4. eval_binexp_string(operator, l, r).value = String(s)
      BY <2>1, <2>2 DEF eval_concat, Gives
    <2> HIDE DEF s
    <2> QED
      BY <2>3, <2>4 DEF Value, AllValues, String, Makes
  <1>2. CASE operator # "+"
    <2>1. PICK b : eval_binexp_string(operator, l, r) = Gives(Boolean(b))
      <3>1. operator \in {"==", "===", "!=", "!=="}
        BY <1>2 DEF eval_binexp_string, Fails
      <3>2. HasText(l) /\ HasText(r)
        BY <1>2, <3>1 DEF eval_binexp_string, Unspecified
      <3> QED
        BY <1>2, <3>1, <3>2, Zenon DEF eval_binexp_string
    <2>2. Boolean(b) \in Value /\ Boolean(b).type = "VAL_BOOLEAN"
      <3>1. Boolean(b) = Boolean(TRUE) \/ Boolean(b) = Boolean(FALSE)
        BY DEF Boolean
      <3> QED
        BY <3>1 DEF Value, AllValues, Boolean
    <2> QED
      BY <2>1, <2>2 DEF Gives, Makes
  <1> QED
    BY <1>1, <1>2

LEMMA BinexpIs ==
  ASSUME NEW l \in Value, NEW r \in Value, NEW operator \in Operators,
         eval_binexp(operator, l, r).how = "value"
  PROVE  LET v == eval_binexp(operator, l, r).value IN v \in Value /\ v.type \in Makes
  <1> DEFINE result == eval_binexp(operator, l, r)
  <1>1. CASE operator \in Comparison
    <2>1. result = eval_binexp_cmp_generic(operator, l, r)
      BY <1>1 DEF eval_binexp
    <2>2. CASE l.type = "VAL_STRING" \/ r.type = "VAL_STRING"
      <3>1. result = eval_binexp_string(operator, l, r)
        BY <2>1, <2>2 DEF eval_binexp_cmp_generic
      <3> QED
        BY <3>1, StringOpIs
    <2>3. CASE ~(l.type = "VAL_STRING" \/ r.type = "VAL_STRING")
      <3>1. PICK b : result = Gives(Boolean(b))
        BY <2>1, <2>3, Zenon DEF eval_binexp_cmp_generic
      <3>2. Boolean(b) \in Value /\ Boolean(b).type = "VAL_BOOLEAN"
        <4>1. Boolean(b) = Boolean(TRUE) \/ Boolean(b) = Boolean(FALSE)
          BY DEF Boolean
        <4> QED
          BY <4>1 DEF Value, AllValues, Boolean
      <3> QED
        BY <3>1, <3>2 DEF Gives, Makes
    <2> QED
      BY <2>2, <2>3
  <1>2. CASE operator \notin Comparison
    <2>0. operator \in {"+", "-", "*", "/", "%"}
      BY <1>2, EvalAssumption
    <2>1. CASE l.type = "VAL_INTEGER" /\ r.type = "VAL_INTEGER"
      <3>1. result = eval_binexp_int(operator, l, r)
        BY <1>2, <2>1 DEF eval_binexp
      <3>2. l.int \in Int /\ r.int \in Int
        BY ValueParts
      <3>3. ASSUME NEW n \in Int PROVE Integer(n) \in Value /\ Integer(n).type = "VAL_INTEGER"
        BY DEF Integer, Value, AllValues
      <3>4. Other("VAL_FLOAT") \in Value /\ Other("VAL_FLOAT").type = "VAL_FLOAT"
        BY DEF Other, Opaque, Value, AllValues
      <3>5. ASSUME NEW n, InRange(n).how = "value"
            PROVE  InRange(n).value \in Value /\ InRange(n).value.type \in Makes
        <4>1. n \in Int /\ InRange(n) = Gives(Integer(n))
          BY <3>5, IntAssumption DEF InRange, Unspecified, LongLong, LLONG_MIN
        <4> QED
          BY <3>3, <4>1 DEF Gives, Makes
      <3>6. CASE operator \in {"+", "-", "*"}
        BY <3>1, <3>5, <3>6 DEF eval_binexp_int
      <3>7. CASE operator = "/"
        BY <3>1, <3>4, <3>7 DEF eval_binexp_int, Gives, Fails, Makes
      <3>8. CASE operator = "%"
        <4>1. r.int # 0
          BY <3>1, <3>8 DEF eval_binexp_int, Fails
        <4>2. Rem(l.int, r.int) \in Int
          BY <3>2, <4>1 DEF Rem, Abs
        <4>3. result = Gives(Integer(Rem(l.int, r.int)))
          BY <3>1, <3>8, <4>1 DEF eval_binexp_int, Unspecified
        <4> QED
          BY <3>3, <4>2, <4>3 DEF Gives, Makes
      <3> QED
        BY <2>0, <3>6, <3>7, <3>8
    <2>2. CASE ~(l.type = "VAL_INTEGER" /\ r.type = "VAL_INTEGER")
      <3>1. result = eval_binexp_string(operator, l, r)
        BY <1>2, <2>2 DEF eval_binexp, Fails
      <3> QED
        BY <3>1, StringOpIs
    <2> QED
      BY <2>1, <2>2
  <1> QED
    BY <1>1, <1>2

LEMMA ValueOfIs ==
  ASSUME NEW t, TableOK(t), NEW v, ValueIn(v, t)
  PROVE  ValueOf(v, t) \in Value
  <1>1. v.type \in ValueType /\ v.ref \in Int
    BY DEF ValueIn
  <1>2. CASE v.type = "VAL_STRING"
    <2>1. ValueOf(v, t) = String(t.texts[v.ref])
      BY <1>2 DEF ValueOf
    <2>2. v.ref \in 1..Len(t.texts) /\ t.texts \in Seq(Seq(Nat))
      BY <1>2 DEF ValueIn, TableOK
    <2>3. t.texts[v.ref] \in Seq(Nat)
      BY <2>2
    <2> QED
      BY <2>1, <2>3 DEF Value, AllValues
  <1>3. CASE v.type = "VAL_INTEGER"
    <2>1. ValueOf(v, t) = Integer(v.ref)
      BY <1>3 DEF ValueOf
    <2> QED
      BY <1>1, <2>1 DEF Value, AllValues
  <1>4. CASE v.type = "VAL_BOOLEAN"
    <2>1. ValueOf(v, t) = Boolean(v.ref = 1)
      BY <1>4 DEF ValueOf
    <2>2. (v.ref = 1) \in BOOLEAN
      OBVIOUS
    <2> QED
      BY <2>1, <2>2 DEF Value, AllValues
  <1>5. CASE v.type \in Opaque \cup {"VAL_NULL"}
    <2>1. ValueOf(v, t) = Other(v.type)
      BY <1>5 DEF ValueOf, Opaque
    <2> QED
      BY <1>5, <2>1 DEF Value, AllValues
  <1> QED
    BY <1>1, <1>2, <1>3, <1>4, <1>5 DEF ValueType, Opaque

LEMMA MadeOK ==
  ASSUME NEW t, TableOK(t), NEW result \in Value, result.type \in Makes
  PROVE  LET made == Made(result, t)
         IN  /\ Grown(t, made.tbl) /\ ValueIn(made.val, made.tbl) /\ made.val.type # "VAL_FUNCTION"
             /\ made.val.type = "VAL_STRING" => Fresh(t, made.tbl, made.val)
             /\ made.val.type # "VAL_STRING" => made.val.self_ptr = 0 /\ made.tbl = t
  <1>1. CASE result.type = "VAL_STRING"
    <2>1. PICK s \in Seq(Nat) : result = String(s)
      BY <1>1 DEF Value, AllValues, Integer, Boolean, Other, Opaque
    <2>2. Made(result, t) = NewString(t, s)
      BY <1>1, <2>1 DEF Made, String
    <2> QED
      BY <2>2, NewStringIs
  <1>2. CASE result.type # "VAL_STRING"
    <2>1. Made(result, t) = [val |-> Val(result.type, 0, result.int), tbl |-> t]
      BY <1>2 DEF Made
    <2>2. result.int \in Int
      BY ValueParts
    <2> DEFINE v == Val(result.type, 0, result.int)
    <2>3. v.type = result.type /\ v.self_ptr = 0 /\ v.ref \in Int /\ v = Val(v.type, v.self_ptr, v.ref)
      BY <2>2 DEF Val
    <2>4. 0 \in 0..Len(t.values)
      BY TableLengths
    <2> HIDE DEF v
    <2>5. ValueIn(v, t) /\ v.type # "VAL_FUNCTION" /\ v.type # "VAL_STRING"
      BY <1>2, <2>3, <2>4 DEF ValueIn, ValueType, Makes
    <2>6. Made(result, t).val = v /\ Made(result, t).tbl = t
      BY <2>1 DEF v
    <2> QED
      BY <2>3, <2>5, <2>6, GrownSelf
  <1> QED
    BY <1>1, <1>2

(* Where a search ends.                                                    *)
LEMMA ResolveIs ==
  ASSUME Base, NEW s \in 1..Len(scopes), NEW name, CanSearch(s, name),
         scope_resolve_identifier(scopes, s, name) # 0
  PROVE  LET home == scope_resolve_identifier(scopes, s, name)
         IN  /\ home \in 1..s /\ home \in 1..Len(scopes)
             /\ home \in Visited(scopes, s, name) /\ home \in Chain(scopes, s)
             /\ scopes[home].live /\ name \in Names(scopes[home])
             /\ BindingOK(scopes[home].vals[name], tbl, Len(fns))
  <1> DEFINE home == scope_resolve_identifier(scopes, s, name)
  <1>1. Tree(scopes) /\ Len(scopes) \in Nat /\ s \in 0..Len(scopes)
    <2>1. Sequence(scopes)
      BY DEF Base, ScopesOK
    <2>2. Len(scopes) \in Nat
      BY <2>1, SequenceIs
    <2> QED
      BY <2>1, <2>2 DEF Base, ScopesOK, ScopeOK, Tree
  <1>2. /\ Visited(scopes, s, name) \subseteq Chain(scopes, s)
        /\ home \in Visited(scopes, s, name)
        /\ scopes[home].live /\ name \in Names(scopes[home])
    BY <1>1, SearchFacts DEF CanSearch
  <1>3. Chain(scopes, s) \subseteq 1..s
    BY <1>1, ChainFacts
  <1> HIDE DEF home
  <1>4. home \in 1..s /\ home \in Chain(scopes, s)
    BY <1>2, <1>3
  <1>5. home \in 1..Len(scopes)
    BY <1>1, <1>4
  <1>6. BindingOK(scopes[home].vals[name], tbl, Len(fns))
    BY <1>2, <1>5 DEF Base, ScopesOK, ScopeOK
  <1> QED
    BY <1>2, <1>4, <1>5, <1>6 DEF home

(* The value of an expression, evaluated when the table has become t.      *)
LEMMA EvalIs ==
  ASSUME Base, NEW s \in 1..Len(scopes), NEW e \in Expr, Defined(e, s), NEW t, Grown(tbl, t),
         e \in Name => EvalWith(t, e, s).val.type # "VAL_FUNCTION"
  PROVE  LET r == EvalWith(t, e, s)
         IN  /\ Grown(t, r.tbl) /\ ValueIn(r.val, r.tbl) /\ r.val.type # "VAL_FUNCTION"
             /\ e = "string" => r.val.type = "VAL_STRING" /\ Fresh(t, r.tbl, r.val)
             /\ e = "null" => r.val = BLAZE_NULL /\ r.tbl = t
             /\ e \in Name => /\ r.tbl = t
                              /\ r.val = scopes[scope_resolve_identifier(scopes, s, e)].vals[e].value
  <1>1. e \in Name \/ (e \notin Name /\ e \in {"null", "string"})
    BY EvalAssumption DEF Expr, Name
  <1>2. TableOK(tbl) /\ TableOK(t) /\ Grown(t, t)
    BY GrownSelf DEF Grown, Base
  <1>3. e \in Name => e \notin {"null", "string"}
    BY EvalAssumption DEF Name
  <1>4. CASE e = "string"
    <2>1. EvalWith(t, e, s) = NewString(t, <<49>>)
      BY <1>3, <1>4 DEF EvalWith
    <2>2. <<49>> \in Seq(Nat)
      OBVIOUS
    <2> QED
      BY <1>2, <1>3, <1>4, <2>1, <2>2, NewStringIs
  <1>5. CASE e = "null"
    <2>1. EvalWith(t, e, s) = [val |-> BLAZE_NULL, tbl |-> t]
      BY <1>3, <1>5 DEF EvalWith
    <2>2. ValueIn(BLAZE_NULL, t) /\ BLAZE_NULL.type # "VAL_FUNCTION"
      BY <1>2, TableLengths DEF ValueIn, BLAZE_NULL, Val, ValueType
    <2> QED
      BY <1>2, <1>3, <1>5, <2>1, <2>2
  <1>6. CASE e \in Name
    <2> DEFINE b == scopes[scope_resolve_identifier(scopes, s, e)].vals[e]
    <2>1. EvalWith(t, e, s).val = b.value /\ EvalWith(t, e, s).tbl = t
      BY <1>3, <1>6 DEF EvalWith
    <2>2. CanSearch(s, e) /\ scope_resolve_identifier(scopes, s, e) # 0
      BY <1>6 DEF Defined
    <2>3. BindingOK(b, tbl, Len(fns))
      BY <2>2, ResolveIs
    <2> HIDE DEF b
    <2>4. ValueIn(b.value, t)
      BY <1>2, <2>3, ValueLater DEF Grown, Longer, BindingOK
    <2>5. b.value.type # "VAL_FUNCTION"
      BY <1>6, <2>1
    <2> QED
      BY <1>2, <1>3, <1>6, <2>1, <2>4, <2>5 DEF b
  <1> QED
    BY <1>1, <1>4, <1>5, <1>6

(* In the next two, the value of an expression now.                        *)
LEMMA EvalNow ==
  ASSUME Base, NEW s \in 1..Len(scopes), NEW e \in Expr, Defined(e, s), InClass(e, s)
  PROVE  LET r == Eval(e, s)
         IN  /\ Grown(tbl, r.tbl) /\ ValueIn(r.val, r.tbl) /\ r.val.type # "VAL_FUNCTION"
             /\ e = "string" => r.val.type = "VAL_STRING" /\ Fresh(tbl, r.tbl, r.val)
             /\ e = "null" => r.val = BLAZE_NULL /\ r.tbl = tbl
             /\ e \in Name => /\ r.tbl = tbl
                              /\ r.val = scopes[scope_resolve_identifier(scopes, s, e)].vals[e].value
  <1>1. Grown(tbl, tbl)
    BY GrownSelf DEF Base
  <1>2. e \in Name => EvalWith(tbl, e, s).val.type # "VAL_FUNCTION"
    BY DEF InClass, Eval
  <1> QED
    BY <1>1, <1>2, EvalIs DEF Eval

-----------------------------------------------------------------------------
(* The scopes after a step: scope by scope, s was a and is b.              *)
Kept(a, b) ==
  /\ b.kind = a.kind /\ b.parent = a.parent /\ (b.live <=> a.live) /\ b.mode = a.mode
Steadfast(a, b) == KeepsFns(a, b) /\ SameIds(a, b)

Settled(x) ==
  /\ ScopesOK' /\ FnsOK'
  /\ TableOK(tbl') /\ Longer(tbl, tbl') /\ Len(fns) <= Len(fns')
  /\ Moved(scopes, scopes', x)

LEMMA GrownLonger ==
  ASSUME NEW t, NEW u, Grown(t, u)
  PROVE  TableOK(u) /\ Longer(t, u)
  BY DEF Grown, Longer

LEMMA ScopesStep ==
  ASSUME Base, Grown(tbl, tbl'), NEW x, Sequence(scopes'), Len(scopes) <= Len(scopes'),
         Sequence(fns'), Len(fns) <= Len(fns'), \A f \in 1..Len(fns') : FnOK(fns'[f], scopes'),
         \A s \in 1..Len(scopes) : ScopeOK(scopes'[s], s, tbl', Len(fns')) /\ Kept(scopes[s], scopes'[s]),
         \A s \in 1..Len(scopes) : s # x => Steadfast(scopes[s], scopes'[s]),
         \A s \in 1..Len(scopes') : s > Len(scopes) =>
            ScopeOK(scopes'[s], s, tbl', Len(fns')) /\ scopes'[s].live /\ scopes'[s].kind \notin Own
  PROVE  Settled(x)
  <1>1. Len(scopes) \in Nat /\ Len(scopes') \in Nat
    BY SequenceIs DEF Base, ScopesOK
  <1>2. \A s \in 1..Len(scopes') : s \in 1..Len(scopes) \/ s > Len(scopes)
    BY <1>1
  <1>3. ScopesOK'
    BY <1>2 DEF ScopesOK
  <1>4. Moved(scopes, scopes', x)
    BY DEF Moved, Evolves, SameTree, Kept, Steadfast
  <1>5. FnsOK'
    BY DEF FnsOK
  <1> QED
    BY <1>3, <1>4, <1>5, GrownLonger DEF Settled

LEMMA ScopesLater ==
  ASSUME Base, Grown(tbl, tbl'), Sequence(fns'), Len(fns) <= Len(fns')
  PROVE  \A s \in 1..Len(scopes) : ScopeOK(scopes[s], s, tbl', Len(fns'))
  <1>1. Len(fns) \in Nat /\ Len(fns') \in Nat
    BY SequenceIs DEF Base, FnsOK
  <1>2. TableOK(tbl) /\ TableOK(tbl') /\ Longer(tbl, tbl')
    BY GrownLonger DEF Base
  <1> SUFFICES ASSUME NEW s \in 1..Len(scopes) PROVE ScopeOK(scopes[s], s, tbl', Len(fns'))
    OBVIOUS
  <1>3. ScopeOK(scopes[s], s, tbl, Len(fns))
    BY DEF Base, ScopesOK
  <1> DEFINE sc == scopes[s]
  <1>4. ScopeOK(sc, s, tbl, Len(fns))
    BY <1>3
  <1> HIDE DEF sc
  <1>5. ScopeOK(sc, s, tbl', Len(fns'))
    BY <1>1, <1>2, <1>4, ScopeLater
  <1> QED
    BY <1>5 DEF sc

(* No scope changes.                                                       *)
LEMMA SameScopes ==
  ASSUME Base, Grown(tbl, tbl'), scopes' = scopes, fns' = fns
  PROVE  Settled(0)
  <1>1. Sequence(scopes) /\ Sequence(fns) /\ Len(scopes) \in Nat /\ Len(fns) \in Nat
    BY SequenceIs DEF Base, ScopesOK, FnsOK
  <1>2. \A s \in 1..Len(scopes) : ScopeOK(scopes[s], s, tbl', Len(fns'))
    BY <1>1, ScopesLater
  <1>3. \A f \in 1..Len(fns') : FnOK(fns'[f], scopes')
    BY DEF Base, FnsOK
  <1>4. \A s \in 1..Len(scopes) : Kept(scopes[s], scopes'[s]) /\ Steadfast(scopes[s], scopes'[s])
    BY DEF Kept, Steadfast, KeepsFns, SameIds
  <1>5. Len(scopes) <= Len(scopes') /\ Len(fns) <= Len(fns') /\ \A s \in 1..Len(scopes') : ~(s > Len(scopes))
    BY <1>1
  <1> QED
    BY <1>1, <1>2, <1>3, <1>4, <1>5, ScopesStep

(* One scope binds a name; if it is not x, no function loses its name.     *)
LEMMA BindsKept ==
  ASSUME NEW a, NEW b, NEW s \in 1..Len(a), NEW name, NEW binding, Binds(a, b, s, name, binding),
         NEW x, x = s \/ (BindsFn(a[s], name) => binding.value.type = "VAL_FUNCTION")
  PROVE  \A r \in 1..Len(a) : Kept(a[r], b[r]) /\ (r # x => Steadfast(a[r], b[r]))
  <1> SUFFICES ASSUME NEW r \in 1..Len(a) PROVE Kept(a[r], b[r]) /\ (r # x => Steadfast(a[r], b[r]))
    OBVIOUS
  <1>1. CASE r # s
    <2>1. Like(a[r], b[r]) /\ SameIds(a[r], b[r]) /\ b[r].vals = a[r].vals
      BY <1>1 DEF Binds
    <2> QED
      BY <2>1 DEF Like, Kept, Steadfast, KeepsFns, BindsFn, Names
  <1>2. CASE r = s
    <2>1. BoundIn(a[s], b[s], name, binding)
      BY DEF Binds
    <2>2. Kept(a[s], b[s]) /\ SameIds(a[s], b[s]) /\ (b[s].live <=> a[s].live)
      BY <2>1 DEF BoundIn, Like, Kept
    <2>3. ASSUME s # x, NEW n, BindsFn(a[s], n) PROVE BindsFn(b[s], n)
      BY <2>1, <2>3 DEF BoundIn, BindsFn
    <2> QED
      BY <1>2, <2>2, <2>3 DEF Steadfast, KeepsFns
  <1> QED
    BY <1>1, <1>2

LEMMA BindsOK ==
  ASSUME Base, Grown(tbl, tbl'), Sequence(fns'), Len(fns) <= Len(fns'),
         NEW b, NEW s \in 1..Len(scopes), scopes[s].live, NEW name \in Name, NEW binding,
         BindingOK(binding, tbl', Len(fns')), Binds(scopes, b, s, name, binding)
  PROVE  \A r \in 1..Len(scopes) : ScopeOK(b[r], r, tbl', Len(fns'))
  <1> SUFFICES ASSUME NEW r \in 1..Len(scopes) PROVE ScopeOK(b[r], r, tbl', Len(fns'))
    OBVIOUS
  <1> DEFINE old == scopes[r]
             new == b[r]
  <1>1. ScopeOK(old, r, tbl', Len(fns'))
    BY ScopesLater
  <1>2. r # s => Like(old, new) /\ new.vals = old.vals
    BY DEF Binds
  <1>3. r = s => old.live /\ BoundIn(old, new, name, binding)
    BY DEF Binds
  <1> HIDE DEF old, new
  <1>4. ScopeOK(new, r, tbl', Len(fns'))
    BY <1>1, <1>2, <1>3, ScopeLike, ScopeBound
  <1> QED
    BY <1>4 DEF new

LEMMA BoundScopes ==
  ASSUME Base, Grown(tbl, tbl'), fns' = fns,
         NEW s \in 1..Len(scopes), scopes[s].live, NEW name \in Name, NEW binding,
         BindingOK(binding, tbl', Len(fns)), Binds(scopes, scopes', s, name, binding),
         NEW x, x = s \/ (BindsFn(scopes[s], name) => binding.value.type = "VAL_FUNCTION")
  PROVE  Settled(x)
  <1>1. Sequence(scopes) /\ Sequence(fns) /\ Len(scopes) \in Nat /\ Len(fns) \in Nat
    BY SequenceIs DEF Base, ScopesOK, FnsOK
  <1>2. Sequence(scopes') /\ Len(scopes') = Len(scopes)
    BY DEF Binds
  <1>3. Len(fns) <= Len(fns') /\ Sequence(fns')
    BY <1>1
  <1>4. \A r \in 1..Len(scopes) : ScopeOK(scopes'[r], r, tbl', Len(fns'))
    BY <1>3, BindsOK
  <1>5. \A r \in 1..Len(scopes) : Kept(scopes[r], scopes'[r]) /\ (r # x => Steadfast(scopes[r], scopes'[r]))
    BY BindsKept
  <1>6. Evolves(scopes, scopes')
    BY <1>1, <1>2, <1>5 DEF Evolves, SameTree, Kept
  <1>7. ASSUME NEW f \in 1..Len(fns') PROVE FnOK(fns'[f], scopes')
    <2>1. FnOK(fns[f], scopes)
      BY DEF Base, FnsOK
    <2> QED
      BY <1>1, <1>6, <2>1, FnLater
  <1>8. Len(scopes) <= Len(scopes') /\ \A r \in 1..Len(scopes') : ~(r > Len(scopes))
    BY <1>1, <1>2
  <1> QED
    BY <1>2, <1>3, <1>4, <1>5, <1>7, <1>8, ScopesStep

(* One scope is replaced.                                                  *)
LEMMA ReplacedScope ==
  ASSUME Base, Grown(tbl, tbl'), fns' = fns, NEW x \in 1..Len(scopes), NEW c,
         scopes' = [scopes EXCEPT ![x] = c], ScopeOK(c, x, tbl', Len(fns)), Kept(scopes[x], c),
         NEW y, y = x \/ Steadfast(scopes[x], c)
  PROVE  Settled(y)
  <1>1. Sequence(scopes) /\ Sequence(fns) /\ Len(scopes) \in Nat /\ Len(fns) \in Nat
    BY SequenceIs DEF Base, ScopesOK, FnsOK
  <1>2. /\ Sequence(scopes') /\ Len(scopes') = Len(scopes)
        /\ scopes'[x] = c /\ \A r \in 1..Len(scopes) : r # x => scopes'[r] = scopes[r]
    <2> DEFINE e == [scopes EXCEPT ![x] = c]
    <2>1. Sequence(e) /\ Len(e) = Len(scopes) /\ e[x] = c /\ \A r \in 1..Len(scopes) : r # x => e[r] = scopes[r]
      BY ONLY <1>1, x \in 1..Len(scopes), ReplaceIs
    <2>2. scopes' = e
      OBVIOUS
    <2> QED
      BY <2>1, <2>2, Zenon
  <1>3. Len(fns) <= Len(fns') /\ Sequence(fns')
    BY <1>1
  <1>4. \A r \in 1..Len(scopes) : ScopeOK(scopes'[r], r, tbl', Len(fns'))
    <2>1. \A r \in 1..Len(scopes) : ScopeOK(scopes[r], r, tbl', Len(fns'))
      BY <1>3, ScopesLater
    <2> QED
      BY <1>2, <2>1
  <1>5. ASSUME NEW r \in 1..Len(scopes)
        PROVE  Kept(scopes[r], scopes'[r]) /\ (r # y => Steadfast(scopes[r], scopes'[r]))
    <2>1. r = x => Kept(scopes[r], scopes'[r]) /\ (r # y => Steadfast(scopes[r], scopes'[r]))
      BY <1>2
    <2>2. r # x => Kept(scopes[r], scopes'[r]) /\ Steadfast(scopes[r], scopes'[r])
      BY <1>2 DEF Kept, Steadfast, KeepsFns, SameIds
    <2> QED
      BY <2>1, <2>2
  <1>6. Evolves(scopes, scopes')
    BY <1>1, <1>2, <1>5 DEF Evolves, SameTree, Kept
  <1>7. ASSUME NEW f \in 1..Len(fns') PROVE FnOK(fns'[f], scopes')
    <2>1. FnOK(fns[f], scopes)
      BY DEF Base, FnsOK
    <2> QED
      BY <1>1, <1>6, <2>1, FnLater
  <1>8. Len(scopes) <= Len(scopes') /\ \A r \in 1..Len(scopes') : ~(r > Len(scopes))
    BY <1>1, <1>2
  <1> QED
    BY <1>2, <1>3, <1>4, <1>5, <1>7, <1>8, ScopesStep

(* A function gets a new scope, after one scope may have bound a name.     *)
LEMMA AddedScope ==
  ASSUME Base, Grown(tbl, tbl'), NEW mid, Sequence(mid), Len(mid) = Len(scopes),
         NEW p \in 1..Len(scopes), scopes' = scope_init(mid, "function", p),
         Sequence(fns'), Len(fns) <= Len(fns'),
         \A f \in 1..Len(fns') : /\ fns'[f] = [scope |-> fns'[f].scope, param |-> fns'[f].param]
                                 /\ fns'[f].param \in ParamName \cup {NoName}
                                 /\ \/ f \in 1..Len(fns) /\ fns'[f].scope = fns[f].scope
                                    \/ fns'[f].scope = Len(scopes) + 1,
         \A s \in 1..Len(scopes) : /\ ScopeOK(mid[s], s, tbl', Len(fns'))
                                   /\ Kept(scopes[s], mid[s]) /\ Steadfast(scopes[s], mid[s])
  PROVE  /\ Settled(0)
         /\ Len(scopes') = Len(scopes) + 1
         /\ \A s \in 1..Len(scopes) : scopes'[s] = mid[s]
         /\ scopes'[Len(scopes) + 1] = NewScope("function", p)
  <1> DEFINE n == Len(scopes)
             new == NewScope("function", p)
  <1>1. Sequence(scopes) /\ n \in Nat
    BY SequenceIs DEF Base, ScopesOK
  <1>2. scopes' = Append(mid, new)
    BY DEF scope_init
  <1>3. /\ Sequence(scopes') /\ Len(scopes') = n + 1
        /\ \A s \in 1..n : scopes'[s] = mid[s]
        /\ scopes'[n + 1] = new
    <2> HIDE DEF new, n
    <2> DEFINE e == Append(mid, new)
    <2>1. /\ Sequence(e) /\ Len(e) = Len(mid) + 1
          /\ \A s \in 1..Len(mid) : e[s] = mid[s]
          /\ e[Len(mid) + 1] = new
      BY ONLY Sequence(mid), AppendIs
    <2> HIDE DEF e
    <2>2. scopes' = e
      BY <1>2 DEF e
    <2> QED
      BY <2>1, <2>2, Zenon DEF n
  <1>4. n + 1 \in Nat \ {0, 1} /\ p \in 0..((n + 1) - 1)
    BY <1>1
  <1>5. ScopeOK(new, n + 1, tbl', Len(fns'))
    <2>1. "function" \in ScopeKind \ {"global"}
      BY DEF ScopeKind
    <2> HIDE DEF n
    <2> QED
      BY <1>4, <2>1, NewScopeOK
  <1>6. new.kind = "function" /\ new.live
    BY DEF NewScope
  <1>7. \A s \in 1..Len(scopes') : s > n => s = n + 1
    BY <1>1, <1>3
  <1> HIDE DEF new
  <1>8. \A s \in 1..Len(scopes') : s > n =>
          ScopeOK(scopes'[s], s, tbl', Len(fns')) /\ scopes'[s].live /\ scopes'[s].kind \notin Own
    BY <1>3, <1>5, <1>6, <1>7 DEF Own
  <1>9. ASSUME NEW f \in 1..Len(fns') PROVE FnOK(fns'[f], scopes')
    <2>1. CASE f \in 1..Len(fns) /\ fns'[f].scope = fns[f].scope
      <3>1. fns[f].scope \in 1..n /\ scopes[fns[f].scope].kind = "function"
        BY <2>1 DEF Base, FnsOK, FnOK
      <3>2. mid[fns[f].scope].kind = "function"
        BY <3>1 DEF Kept
      <3>3. fns[f].scope \in 1..Len(scopes')
        BY <1>1, <1>3, <3>1
      <3> QED
        BY <1>3, <2>1, <3>1, <3>2, <3>3 DEF FnOK
    <2>2. CASE fns'[f].scope = n + 1
      <3>1. n + 1 \in 1..Len(scopes')
        BY <1>1, <1>3
      <3> QED
        BY <1>3, <1>6, <2>2, <3>1 DEF FnOK
    <2> QED
      BY <2>1, <2>2
  <1>10. n <= Len(scopes')
    BY <1>1, <1>3
  <1>11. \A s \in 1..n : ScopeOK(scopes'[s], s, tbl', Len(fns')) /\ Kept(scopes[s], scopes'[s]) /\ Steadfast(scopes[s], scopes'[s])
    BY <1>3
  <1> HIDE DEF n
  <1>12. Settled(0)
    <2>1. /\ \A s \in 1..Len(scopes) : ScopeOK(scopes'[s], s, tbl', Len(fns')) /\ Kept(scopes[s], scopes'[s])
          /\ \A s \in 1..Len(scopes) : s # 0 => Steadfast(scopes[s], scopes'[s])
      BY <1>11 DEF n
    <2>2. \A s \in 1..Len(scopes') : s > Len(scopes) =>
            ScopeOK(scopes'[s], s, tbl', Len(fns')) /\ scopes'[s].live /\ scopes'[s].kind \notin Own
      BY <1>8 DEF n
    <2> QED
      BY <1>3, <1>9, <1>10, <2>1, <2>2, ScopesStep DEF n
  <1> QED
    BY <1>3, <1>12 DEF n, new

-----------------------------------------------------------------------------
(* The actions, one by one.                                                *)
LEMMA ExitKeeps ==
  ASSUME Exit
  PROVE  Base'
  <1>1. /\ status' = "exited" /\ scopes' = <<>> /\ fns' = <<>> /\ frames' = <<>>
        /\ tbl' = val_alloc_tbl_init
    BY DEF Exit
  <1>2. Sequence(<<>>) /\ Len(<<>>) = 0
    BY EmptyIs
  <1>3. TableOK(val_alloc_tbl_init)
    BY <1>2 DEF TableOK, val_alloc_tbl_init, Free, Range
  <1>4. \A k \in 1..0 : FALSE
    OBVIOUS
  <1> QED
    BY <1>1, <1>2, <1>3, <1>4 DEF Base, ScopesOK, FnsOK, FramesOK, Nested, LoopsOK

LEMMA StutterKeeps ==
  ASSUME Base, UNCHANGED vars
  PROVE  Base'
  <1>1. scopes' = scopes /\ fns' = fns /\ tbl' = tbl /\ frames' = frames /\ status' = status
    BY DEF vars
  <1> QED
    BY <1>1 DEF Base, ScopesOK, FnsOK, FramesOK, Nested, LoopsOK, Held, Placed

(* The top frame is still all right when its value is set.                 *)
LEMMA TopLater ==
  ASSUME Base, status = "running", NEW x, Settled(x), Top.kind \in {"args", "call"} => x = 0
  PROVE  FrameOK(Top, scopes', tbl', Len(fns'))
  <1>1. /\ FrameOK(Top, scopes, tbl, Len(fns)) /\ TableOK(tbl) /\ Sequence(scopes)
        /\ Len(scopes) \in Nat /\ Len(fns) \in Nat /\ Top.scope \in 1..Len(scopes)
    BY TopIs
  <1>2. TableOK(tbl') /\ Longer(tbl, tbl') /\ Len(fns) <= Len(fns') /\ Len(fns') \in Nat /\ Evolves(scopes, scopes')
    BY SequenceIs DEF Settled, FnsOK, Moved
  <1>3. ASSUME Top.kind \in {"args", "call"}
        PROVE  KeepsFns(scopes[Top.callee.scope], scopes'[Top.callee.scope])
    <2>1. Top.callee.scope \in 1..Top.scope
      BY <1>1, <1>3 DEF FrameOK
    <2>2. Top.callee.scope \in 1..Len(scopes) /\ Top.callee.scope # 0
      BY <1>1, <2>1
    <2>3. Top.callee.scope # x
      BY <1>3, <2>2
    <2> QED
      BY <2>2, <2>3 DEF Settled, Moved
  <1> DEFINE f == Top
  <1>4. /\ FrameOK(f, scopes, tbl, Len(fns))
        /\ f.kind \in {"args", "call"} => KeepsFns(scopes[f.callee.scope], scopes'[f.callee.scope])
    BY <1>1, <1>3
  <1> HIDE DEF f
  <1>5. FrameOK(f, scopes', tbl', Len(fns'))
    BY <1>1, <1>2, <1>4, FrameLater
  <1> QED
    BY <1>5 DEF f

LEMMA SetValue ==
  ASSUME Base, AtExpr, NEW v, frames' = SetTop([Top EXCEPT !.val = v]), Grown(tbl, tbl'),
         ValueIn(v, tbl'), v.type # "VAL_FUNCTION", UNCHANGED <<scopes, fns, status>>
  PROVE  Base'
  <1>1. status = "running" /\ status' = "running" /\ Top.kind \in Waiting /\ Top.kind # "loop"
    BY DEF AtExpr, Waiting
  <1>2. Settled(0)
    BY SameScopes
  <1>3. FrameOK(Top, scopes', tbl', Len(fns'))
    BY <1>1, <1>2, TopLater
  <1> DEFINE f == [Top EXCEPT !.val = v]
  <1>4. FrameOK(f, scopes', tbl', Len(fns')) /\ f.kind = Top.kind /\ f.scope = Top.scope
    BY <1>1, <1>3, GivenOK
  <1>5. StackTo(Len(frames), f)
    BY <1>1, TopIs, TopTo
  <1> HIDE DEF f
  <1> QED
    BY <1>1, <1>2, <1>4, <1>5, TopStep DEF Settled

LEMMA LeafKeeps ==
  ASSUME Base, NEW e \in Expr, eval_leaf(e)
  PROVE  Base'
  <1>1. CASE Missing(e, Top.scope) /\ RuntimeError
    BY <1>1, ExitKeeps DEF RuntimeError
  <1>2. CASE ~(Missing(e, Top.scope) /\ RuntimeError)
    <2>1. /\ AtExpr /\ Defined(e, Top.scope) /\ InClass(e, Top.scope)
          /\ frames' = SetTop([Top EXCEPT !.val = Eval(e, Top.scope).val])
          /\ tbl' = Eval(e, Top.scope).tbl
          /\ UNCHANGED <<scopes, fns, status>>
      BY <1>2 DEF eval_leaf
    <2>2. Top.scope \in 1..Len(scopes)
      BY <2>1, TopIs DEF AtExpr
    <2>3. LET r == Eval(e, Top.scope)
          IN  Grown(tbl, r.tbl) /\ ValueIn(r.val, r.tbl) /\ r.val.type # "VAL_FUNCTION"
      BY <2>1, <2>2, EvalNow
    <2> QED
      BY <2>1, <2>3, SetValue
  <1> QED
    BY <1>1, <1>2

(* What eval_binexp makes of two leaves.                                   *)
LEMMA BinaryMakes ==
  ASSUME Base, NEW s \in 1..Len(scopes), NEW operator \in Operators, NEW e \in Expr, NEW f \in Expr,
         Defined(e, s), InClass(e, s), Defined(f, s), InClass(f, s)
  PROVE  LET left   == EvalWith(tbl, e, s)
             right  == EvalWith(left.tbl, f, s)
             result == eval_binexp(operator, ValueOf(left.val, right.tbl), ValueOf(right.val, right.tbl))
             made   == Made(result.value, right.tbl)
         IN  /\ Grown(tbl, left.tbl) /\ Grown(left.tbl, right.tbl) /\ Grown(tbl, right.tbl)
             /\ result.how = "value" =>
                  /\ Grown(tbl, made.tbl) /\ ValueIn(made.val, made.tbl) /\ made.val.type # "VAL_FUNCTION"
                  /\ made.val.type = "VAL_STRING" => Fresh(tbl, made.tbl, made.val)
                  /\ made.val.type # "VAL_STRING" => made.val.self_ptr = 0
  <1> DEFINE left   == EvalWith(tbl, e, s)
             right  == EvalWith(left.tbl, f, s)
             result == eval_binexp(operator, ValueOf(left.val, right.tbl), ValueOf(right.val, right.tbl))
             made   == Made(result.value, right.tbl)
  <1>1. TableOK(tbl) /\ Grown(tbl, left.tbl) /\ ValueIn(left.val, left.tbl)
    BY EvalNow DEF Eval, Base
  <1>2. f \in Name => EvalWith(left.tbl, f, s).val.type # "VAL_FUNCTION"
    <2>1. f \in Name => Eval(f, s).val.type # "VAL_FUNCTION"
      BY DEF InClass
    <2>2. ASSUME NEW t, f \in Name
          PROVE  EvalWith(t, f, s).val = scopes[scope_resolve_identifier(scopes, s, f)].vals[f].value
      <3>1. f # "string" /\ f # "null"
        BY <2>2, EvalAssumption DEF Name
      <3> QED
        BY <2>2, <3>1 DEF EvalWith
    <2> QED
      BY <2>1, <2>2 DEF Eval
  <1> HIDE DEF left
  <1>3. Grown(left.tbl, right.tbl) /\ ValueIn(right.val, right.tbl)
    BY <1>1, <1>2, EvalIs
  <1> HIDE DEF right
  <1>4. Grown(tbl, right.tbl) /\ TableOK(right.tbl) /\ TableOK(left.tbl)
    BY <1>1, <1>3, GrownTwice DEF Grown
  <1>5. ValueIn(left.val, right.tbl)
    BY <1>1, <1>3, <1>4, ValueLater, GrownLonger
  <1>6. ValueOf(left.val, right.tbl) \in Value /\ ValueOf(right.val, right.tbl) \in Value
    BY <1>3, <1>4, <1>5, ValueOfIs
  <1>7. ASSUME result.how = "value" PROVE result.value \in Value /\ result.value.type \in Makes
    BY <1>6, <1>7, BinexpIs
  <1> HIDE DEF result
  <1>8. ASSUME result.how = "value"
        PROVE  /\ Grown(right.tbl, made.tbl) /\ ValueIn(made.val, made.tbl) /\ made.val.type # "VAL_FUNCTION"
               /\ made.val.type = "VAL_STRING" => Fresh(right.tbl, made.tbl, made.val)
               /\ made.val.type # "VAL_STRING" => made.val.self_ptr = 0
    BY <1>4, <1>7, <1>8, MadeOK
  <1> HIDE DEF made
  <1>9. ASSUME result.how = "value"
        PROVE  /\ Grown(tbl, made.tbl)
               /\ made.val.type = "VAL_STRING" => Fresh(tbl, made.tbl, made.val)
    BY <1>1, <1>4, <1>8, <1>9, GrownTwice, FreshLater
  <1> QED
    BY <1>1, <1>3, <1>4, <1>8, <1>9 DEF left, right, result, made

LEMMA BinaryKeeps ==
  ASSUME Base, NEW operator \in Operators, NEW e \in Expr, NEW f \in Expr, BinaryExpr(operator, e, f)
  PROVE  Base'
  <1> DEFINE s      == Top.scope
             left   == EvalWith(tbl, e, s)
             right  == EvalWith(left.tbl, f, s)
             result == eval_binexp(operator, ValueOf(left.val, right.tbl), ValueOf(right.val, right.tbl))
             made   == Made(result.value, right.tbl)
  <1>1. CASE RuntimeError
    BY <1>1, ExitKeeps DEF RuntimeError
  <1>2. CASE ~RuntimeError
    <2>1. /\ AtExpr /\ Defined(e, s) /\ InClass(e, s) /\ Defined(f, s) /\ InClass(f, s)
          /\ result.how = "value"
          /\ frames' = SetTop([Top EXCEPT !.val = made.val])
          /\ tbl' = made.tbl
          /\ UNCHANGED <<scopes, fns, status>>
      BY <1>2 DEF BinaryExpr
    <2>2. s \in 1..Len(scopes)
      BY <2>1, TopIs DEF AtExpr
    <2>3. /\ Grown(tbl, left.tbl) /\ Grown(left.tbl, right.tbl) /\ Grown(tbl, right.tbl)
          /\ result.how = "value" =>
               /\ Grown(tbl, made.tbl) /\ ValueIn(made.val, made.tbl) /\ made.val.type # "VAL_FUNCTION"
               /\ made.val.type = "VAL_STRING" => Fresh(tbl, made.tbl, made.val)
               /\ made.val.type # "VAL_STRING" => made.val.self_ptr = 0
      <3>1. /\ Base /\ s \in 1..Len(scopes) /\ operator \in Operators /\ e \in Expr /\ f \in Expr
            /\ Defined(e, s) /\ InClass(e, s) /\ Defined(f, s) /\ InClass(f, s)
        BY <2>1, <2>2
      <3> HIDE DEF s
      <3> QED
        BY ONLY <3>1, BinaryMakes
    <2> HIDE DEF made
    <2> QED
      BY <2>1, <2>3, SetValue
  <1> QED
    BY <1>1, <1>2

LEMMA PushVarDecl ==
  ASSUME Base, NEW name \in VarName, NEW is_const \in BOOLEAN, eval_var_decl(name, is_const)
  PROVE  Base'
  <1> DEFINE const == is_const /\ Top.kind \notin {"call", "filter"}
             f == [kind |-> "var_decl", scope |-> EvalScope, name |-> name, val |-> NoVal, is_const |-> const]
  <1>1. AtStatement /\ frames' = Append(frames, f) /\ UNCHANGED <<scopes, fns, tbl, status>>
    BY DEF eval_var_decl, Push
  <1>2. const \in BOOLEAN
    OBVIOUS
  <1>3. EvalScope \in 1..Len(scopes)
    BY <1>1, EvalScopeIs
  <1> HIDE DEF const
  <1>4. /\ f.kind = "var_decl" /\ f.scope = EvalScope /\ f.name = name /\ f.val = NoVal /\ f.is_const = const
        /\ FrameShape(f)
    BY DEF FrameShape
  <1> HIDE DEF f
  <1>5. FrameOK(f, scopes, tbl', Len(fns))
    BY <1>1, <1>2, <1>3, <1>4 DEF FrameOK, Own
  <1>6. TableOK(tbl') /\ ScopesOK' /\ Longer(tbl, tbl')
    BY <1>1, SameScopes, GrownSelf DEF Settled, Base
  <1>7. status' = "running" /\ f.kind \notin Own \cup {"root"}
    BY <1>1, <1>4 DEF AtStatement, Own
  <1> QED
    BY <1>1, <1>4, <1>5, <1>6, <1>7, PushStep

LEMMA PushAssignment ==
  ASSUME Base, NEW name \in Name, eval_assignment(name)
  PROVE  Base'
  <1> DEFINE f == [kind |-> "assignment", scope |-> EvalScope, name |-> name, val |-> NoVal]
  <1>1. AtStatement /\ frames' = Append(frames, f) /\ UNCHANGED <<scopes, fns, tbl, status>>
    BY DEF eval_assignment, Push
  <1>3. EvalScope \in 1..Len(scopes)
    BY <1>1, EvalScopeIs
  <1>4. f.kind = "assignment" /\ f.scope = EvalScope /\ f.name = name /\ f.val = NoVal /\ FrameShape(f)
    BY DEF FrameShape
  <1> HIDE DEF f
  <1>5. FrameOK(f, scopes, tbl', Len(fns))
    BY <1>1, <1>3, <1>4 DEF FrameOK, Own
  <1>6. TableOK(tbl') /\ ScopesOK' /\ Longer(tbl, tbl')
    BY <1>1, SameScopes, GrownSelf DEF Settled, Base
  <1>7. status' = "running" /\ f.kind \notin Own \cup {"root"} /\ f.kind # "var_decl"
    BY <1>1, <1>4 DEF AtStatement, Own
  <1> QED
    BY <1>1, <1>4, <1>5, <1>6, <1>7, PushStep

(* A search for a function, from where the next node is evaluated.         *)
LEMMA FunctionIs ==
  ASSUME Base, AtStatement \/ AtExpr, NEW name, CanSearch(EvalScope, name),
         IsFunction(scope_resolve_identifier(scopes, EvalScope, name), name)
  PROVE  LET home == scope_resolve_identifier(scopes, EvalScope, name)
         IN  /\ home \in 1..EvalScope /\ home \in 1..Len(scopes)
             /\ home \in Visited(scopes, EvalScope, name) /\ home \in Chain(scopes, EvalScope)
             /\ scopes[home].live /\ BindsFn(scopes[home], name)
             /\ scopes[home].vals[name].value.ref \in 1..Len(fns)
  <1> DEFINE home == scope_resolve_identifier(scopes, EvalScope, name)
             s == EvalScope
  <1>1. home # 0 /\ scopes[home].vals[name].value.type = "VAL_FUNCTION"
    BY DEF IsFunction
  <1>2. s \in 1..Len(scopes) /\ CanSearch(s, name)
    BY EvalScopeIs
  <1> HIDE DEF s
  <1> DEFINE h == scope_resolve_identifier(scopes, s, name)
  <1>3. h = home
    BY DEF s
  <1>4. /\ h \in 1..s /\ h \in 1..Len(scopes)
        /\ h \in Visited(scopes, s, name) /\ h \in Chain(scopes, s)
        /\ scopes[h].live /\ name \in Names(scopes[h])
        /\ BindingOK(scopes[h].vals[name], tbl, Len(fns))
    BY <1>1, <1>2, <1>3, ResolveIs
  <1> HIDE DEF h, home
  <1>5. BindsFn(scopes[h], name) /\ scopes[h].vals[name].value.ref \in 1..Len(fns)
    BY <1>1, <1>3, <1>4 DEF BindsFn, BindingOK
  <1> QED
    BY <1>3, <1>4, <1>5 DEF home, s

LEMMA PushCall ==
  ASSUME Base, NEW name, NEW argc, eval_expr_call(name, argc)
  PROVE  Base'
  <1> DEFINE s    == EvalScope
             home == scope_resolve_identifier(scopes, s, name)
             f    == [kind |-> "args", scope |-> s, callee |-> Callee(home, name),
                      argc |-> argc, val |-> IF argc = 0 THEN BLAZE_NULL ELSE NoVal]
  <1>1. CASE RuntimeError
    BY <1>1, ExitKeeps DEF RuntimeError
  <1>2. CASE ~RuntimeError
    <2>1. /\ AtStatement \/ AtExpr
          /\ CanSearch(s, name) /\ IsFunction(home, name)
          /\ frames' = Append(frames, f) /\ UNCHANGED <<scopes, fns, tbl, status>>
      BY <1>2 DEF eval_expr_call, Push
    <2>2. s \in 1..Len(scopes)
      BY <2>1, EvalScopeIs
    <2>3. home \in 1..s /\ BindsFn(scopes[home], name)
      BY <2>1, FunctionIs
    <2> HIDE DEF s, home
    <2>4. /\ f.kind = "args" /\ f.scope = s /\ f.callee.scope = home /\ f.callee.name = name
          /\ f.val \in {BLAZE_NULL, NoVal} /\ FrameShape(f)
      BY DEF FrameShape, Callee
    <2> HIDE DEF f
    <2>5. ValueIn(BLAZE_NULL, tbl) /\ BLAZE_NULL.type # "VAL_FUNCTION"
      <3>1. TableOK(tbl)
        BY DEF Base
      <3> QED
        BY <3>1, TableLengths DEF ValueIn, BLAZE_NULL, Val, ValueType
    <2>6. f.val # NoVal => ValueIn(f.val, tbl) /\ f.val.type # "VAL_FUNCTION"
      BY <2>4, <2>5
    <2>7. FrameOK(f, scopes, tbl', Len(fns))
      BY <2>1, <2>2, <2>3, <2>4, <2>6 DEF FrameOK, Own
    <2>8. TableOK(tbl') /\ ScopesOK' /\ Longer(tbl, tbl')
      BY <2>1, SameScopes, GrownSelf DEF Settled, Base
    <2>9. status' = "running" /\ f.kind \notin Own \cup {"root"} /\ f.kind # "var_decl"
      BY <2>1, <2>4 DEF AtStatement, AtExpr, Own
    <2> QED
      BY <2>1, <2>4, <2>7, <2>8, <2>9, PushStep DEF s
  <1> QED
    BY <1>1, <1>2

LEMMA PushFilter ==
  ASSUME Base, NEW name, NEW n \in Nat, array_filter(name, n)
  PROVE  Base'
  <1> DEFINE s    == EvalScope
             home == scope_resolve_identifier(scopes, s, name)
             fn   == scopes[home].vals[name].value.ref
             f    == [kind |-> "filter", scope |-> s, fn |-> fn, left |-> n, new_scope |-> 0, val |-> NoVal]
  <1>1. CASE RuntimeError
    BY <1>1, ExitKeeps DEF RuntimeError
  <1>2. CASE ~RuntimeError
    <2>1. /\ AtStatement \/ AtExpr
          /\ CanSearch(s, name) /\ IsFunction(home, name)
          /\ frames' = Append(frames, f) /\ tbl' = eval_array_lit(n) /\ UNCHANGED <<scopes, fns, status>>
      BY <1>2 DEF array_filter, Push
    <2>2. s \in 1..Len(scopes)
      BY <2>1, EvalScopeIs
    <2>3. fn \in 1..Len(fns)
      BY <2>1, FunctionIs
    <2> HIDE DEF s, home, fn
    <2>4. /\ f.kind = "filter" /\ f.scope = s /\ f.fn = fn /\ f.left = n /\ f.new_scope = 0
          /\ FrameShape(f)
      BY DEF FrameShape
    <2> HIDE DEF f
    <2>5. Len(scopes) \in Nat
      BY SequenceIs DEF Base, ScopesOK
    <2>6. FrameOK(f, scopes, tbl', Len(fns))
      <3>1. 0 \in 0..Len(scopes)
        BY <2>5
      <3> QED
        BY <2>2, <2>3, <2>4, <3>1 DEF FrameOK, Own, Waiting
    <2>7. Grown(tbl, tbl')
      BY <2>1, ArrayLitIs DEF Base
    <2>8. TableOK(tbl') /\ ScopesOK' /\ Longer(tbl, tbl')
      BY <2>1, <2>7, SameScopes DEF Settled
    <2>9. status' = "running" /\ f.kind \notin Own \cup {"root"} /\ f.kind # "var_decl"
      BY <2>1, <2>4 DEF AtStatement, AtExpr, Own
    <2> QED
      BY <2>1, <2>4, <2>6, <2>8, <2>9, PushStep DEF s
  <1> QED
    BY <1>1, <1>2

(* A declaration binds its name in its scope; only in the scope of a loop  *)
(* may the name be bound already.                                          *)
LEMMA VarDeclBinds ==
  ASSUME Base, VarDeclEnds, ~RuntimeError
  PROVE  /\ status = "running" /\ Top.kind = "var_decl" /\ Top.val # NoVal
         /\ frames' = Front(frames) /\ UNCHANGED <<fns, tbl, status>>
         /\ Top.scope \in 1..Len(scopes) /\ scopes[Top.scope].live /\ Top.name \in Name
         /\ ValueIn(Top.val, tbl) /\ Top.val.type # "VAL_FUNCTION"
         /\ \E const \in BOOLEAN : Binds(scopes, scopes', Top.scope, Top.name, Binding(Top.val, const))
         /\ Top.name \in Names(scopes[Top.scope]) => scopes[Top.scope].kind = "loop"
  <1> DEFINE s  == Top.scope
             sc == scopes[s]
             name == Top.name
             redeclared == valmap_set_default(sc, name, Top.val, Top.is_const)
             declared == scope_declare_identifier(sc, name, Top.val, Top.is_const)
  <1>0. /\ status = "running" /\ Top.kind = "var_decl" /\ Top.val # NoVal
        /\ frames' = Front(frames) /\ UNCHANGED <<fns, tbl, status>>
    BY DEF VarDeclEnds, HasValue
  <1>1. /\ FrameOK(Top, scopes, tbl, Len(fns)) /\ s \in 1..Len(scopes) /\ sc.live /\ Sequence(scopes)
    BY <1>0, TopIs
  <1>2. /\ name \in Name /\ Top.is_const \in BOOLEAN
        /\ ValueIn(Top.val, tbl) /\ Top.val.type # "VAL_FUNCTION"
    BY <1>0, <1>1 DEF FrameOK, Waiting, Name
  <1>3. ScopeOK(sc, s, tbl, Len(fns)) /\ \A t \in 1..Len(scopes) : ScopeShape(scopes[t])
    BY <1>1 DEF Base, ScopesOK, ScopeOK
  <1> HIDE DEF sc
  <1>4. CASE Redeclares(sc)
    <2> DEFINE const == IF name \in Names(sc) THEN sc.vals[name].is_const ELSE Top.is_const
    <2>1. scopes' = [scopes EXCEPT ![s] = redeclared]
      BY <1>4 DEF VarDeclEnds, sc
    <2>2. BoundIn(sc, redeclared, name, Binding(Top.val, const))
      <3>1. name \in Names(sc) => sc.vals[name] = Binding(sc.vals[name].value, sc.vals[name].is_const)
        BY <1>3 DEF ScopeOK, BindingOK
      <3>2. ScopeShape(sc)
        BY <1>3 DEF ScopeOK
      <3> QED
        BY <3>1, <3>2, SetDefaultIs
    <2>3. const \in BOOLEAN
      BY <1>2, <1>3 DEF ScopeOK, BindingOK
    <2> HIDE DEF redeclared, const
    <2>4. Binds(scopes, scopes', s, name, Binding(Top.val, const))
      BY <1>1, <1>3, <2>1, <2>2, ReplaceScope DEF sc
    <2>5. sc.kind = "loop"
      BY <1>3, <1>4 DEF ScopeOK, Redeclares
    <2> QED
      BY <1>0, <1>1, <1>2, <2>3, <2>4, <2>5 DEF sc
  <1>5. CASE ~Redeclares(sc)
    <2>1. scopes' = [scopes EXCEPT ![s] = declared] /\ name \notin Names(sc)
      BY <1>5 DEF VarDeclEnds, sc, CanDeclare
    <2>2. BoundIn(sc, declared, name, Binding(Top.val, Top.is_const))
      BY <1>3, DeclareIs DEF ScopeOK
    <2> HIDE DEF declared
    <2>3. Binds(scopes, scopes', s, name, Binding(Top.val, Top.is_const))
      BY <1>1, <1>3, <2>1, <2>2, ReplaceScope DEF sc
    <2> QED
      BY <1>0, <1>1, <1>2, <2>1, <2>3 DEF sc
  <1> QED
    BY <1>4, <1>5

LEMMA VarDeclKeeps ==
  ASSUME Base, VarDeclEnds
  PROVE  Base'
  <1> DEFINE s == Top.scope
  <1>1. CASE RuntimeError
    BY <1>1, ExitKeeps DEF RuntimeError
  <1>2. CASE ~RuntimeError
    <2>1. /\ status = "running" /\ Top.kind = "var_decl"
          /\ frames' = Front(frames) /\ UNCHANGED <<fns, tbl, status>>
          /\ s \in 1..Len(scopes) /\ scopes[s].live /\ Top.name \in Name
          /\ ValueIn(Top.val, tbl) /\ Top.val.type # "VAL_FUNCTION"
          /\ Top.name \in Names(scopes[s]) => scopes[s].kind = "loop"
      BY <1>2, VarDeclBinds
    <2>2. PICK const \in BOOLEAN : Binds(scopes, scopes', s, Top.name, Binding(Top.val, const))
      BY <1>2, VarDeclBinds
    <2>3. /\ Placed(frames, Len(frames), scopes) /\ Len(frames) > 1 /\ Sequence(frames)
          /\ Sequence(scopes) /\ TableOK(tbl) /\ Top = frames[Len(frames)]
      BY <2>1, TopIs DEF Top
    <2>4. StackTo(Len(frames) - 1, frames[Len(frames) - 1])
      BY <2>1, <2>3, PopTo
    <2>5. Grown(tbl, tbl') /\ status' = "running" /\ Top.kind \notin Own \cup {"root"}
      BY <2>1, <2>3, GrownSelf DEF Own
    <2>6. BindingOK(Binding(Top.val, const), tbl', Len(fns))
      BY <2>1 DEF BindingOK, Binding
    <2> DEFINE binding == Binding(Top.val, const)
    <2> HIDE DEF binding
    <2>7. CASE scopes[s].kind = "loop"
      <3>1. Settled(s)
        BY <2>1, <2>2, <2>5, <2>6, BoundScopes DEF binding
      <3>2. SameIds(scopes[s], scopes'[s])
        BY <2>2 DEF Binds, BoundIn
      <3>3. frames[Len(frames) - 1].kind = "loop" /\ frames[Len(frames) - 1].scope = s
        BY <2>1, <2>3, <2>7 DEF Placed
      <3> QED
        BY <2>1, <2>4, <2>5, <3>1, <3>2, <3>3, PopStep DEF Settled
    <2>8. CASE scopes[s].kind # "loop"
      <3>1. ~BindsFn(scopes[s], Top.name)
        BY <2>1, <2>8 DEF BindsFn
      <3>2. Settled(0)
        BY <2>1, <2>2, <2>5, <2>6, <3>1, BoundScopes
      <3> QED
        BY <2>1, <2>4, <2>5, <3>2, PopStep DEF Settled
    <2> QED
      BY <2>7, <2>8
  <1> QED
    BY <1>1, <1>2

(* An assignment overwrites a variable that is no constant.                *)
LEMMA AssignmentBinds ==
  ASSUME Base, AssignmentEnds, ~RuntimeError
  PROVE  LET home == scope_resolve_identifier(scopes, Top.scope, Top.name)
         IN  /\ status = "running" /\ Top.kind = "assignment" /\ Top.val # NoVal
             /\ frames' = Front(frames) /\ UNCHANGED <<fns, tbl, status>>
             /\ Top.scope \in 1..Len(scopes) /\ Top.name \in Name
             /\ ValueIn(Top.val, tbl) /\ Top.val.type # "VAL_FUNCTION"
             /\ home \in 1..Len(scopes) /\ home \in Chain(scopes, Top.scope)
             /\ scopes[home].live /\ Top.name \in Names(scopes[home])
             /\ scopes[home].vals[Top.name].is_const = FALSE
             /\ Binds(scopes, scopes', home, Top.name, Binding(Top.val, FALSE))
  <1> DEFINE s    == Top.scope
             name == Top.name
             home == scope_resolve_identifier(scopes, s, name)
  <1>0. /\ status = "running" /\ Top.kind = "assignment" /\ Top.val # NoVal /\ CanSearch(s, name)
        /\ Assignable(home, name)
        /\ scopes' = scope_assign_identifier(scopes, s, name, Top.val)
        /\ frames' = Front(frames) /\ UNCHANGED <<fns, tbl, status>>
    BY DEF AssignmentEnds, HasValue
  <1>1. FrameOK(Top, scopes, tbl, Len(fns)) /\ s \in 1..Len(scopes) /\ Sequence(scopes)
    BY <1>0, TopIs
  <1>2. name \in Name /\ ValueIn(Top.val, tbl) /\ Top.val.type # "VAL_FUNCTION"
    BY <1>0, <1>1 DEF FrameOK, Waiting
  <1>3. home # 0 /\ ~scopes[home].vals[name].is_const
    BY <1>0 DEF Assignable
  <1> DEFINE val == Top.val
             b == scope_assign_identifier(scopes, s, name, val)
  <1>4. scopes' = b
    BY <1>0
  <1> HIDE DEF s, name
  <1>5. /\ home \in 1..Len(scopes) /\ home \in Visited(scopes, s, name) /\ home \in Chain(scopes, s)
        /\ scopes[home].live /\ name \in Names(scopes[home])
        /\ BindingOK(scopes[home].vals[name], tbl, Len(fns))
    BY <1>0, <1>1, <1>3, ResolveIs
  <1>6. Tree(scopes) /\ \A t \in 1..Len(scopes) : ScopeShape(scopes[t])
    BY <1>1 DEF Base, ScopesOK, ScopeOK, Tree
  <1>7. /\ scopes[home].vals[name] = Binding(scopes[home].vals[name].value, scopes[home].vals[name].is_const)
        /\ scopes[home].vals[name].is_const = FALSE
    BY <1>3, <1>5 DEF BindingOK
  <1>8. Binds(scopes, b, home, name, Binding(val, FALSE))
    <2> HIDE DEF val
    <2> DEFINE const == scopes[home].vals[name].is_const
    <2>1. Binds(scopes, b, home, name, Binding(val, const))
      BY <1>1, <1>5, <1>6, <1>7, AssignIs
    <2>2. const = FALSE
      BY <1>7
    <2> HIDE DEF const, b
    <2> QED
      BY <2>1, <2>2, Zenon
  <1> HIDE DEF b, home, val
  <1> QED
    BY <1>0, <1>1, <1>2, <1>4, <1>5, <1>7, <1>8, Zenon DEF home, s, name, val

LEMMA AssignmentKeeps ==
  ASSUME Base, AssignmentEnds
  PROVE  Base'
  <1> DEFINE home == scope_resolve_identifier(scopes, Top.scope, Top.name)
  <1>1. CASE RuntimeError
    BY <1>1, ExitKeeps DEF RuntimeError
  <1>2. CASE ~RuntimeError
    <2>1. /\ status = "running" /\ Top.kind = "assignment"
          /\ frames' = Front(frames) /\ UNCHANGED <<fns, tbl, status>> /\ Top.name \in Name
          /\ ValueIn(Top.val, tbl) /\ Top.val.type # "VAL_FUNCTION"
          /\ home \in 1..Len(scopes) /\ scopes[home].live /\ Top.name \in Names(scopes[home])
          /\ scopes[home].vals[Top.name].is_const = FALSE
          /\ Binds(scopes, scopes', home, Top.name, Binding(Top.val, FALSE))
      BY <1>2, AssignmentBinds
    <2>2. Len(frames) > 1 /\ Sequence(frames) /\ TableOK(tbl)
      BY <2>1, TopIs
    <2>3. StackTo(Len(frames) - 1, frames[Len(frames) - 1])
      BY <2>1, <2>2, PopTo
    <2>4. Grown(tbl, tbl') /\ status' = "running" /\ Top.kind \notin Own \cup {"root"}
      BY <2>1, <2>2, GrownSelf DEF Own
    <2>5. BindingOK(Binding(Top.val, FALSE), tbl', Len(fns))
      BY <2>1 DEF BindingOK, Binding
    <2> HIDE DEF home
    <2>6. ~BindsFn(scopes[home], Top.name)
      <3>1. BindingOK(scopes[home].vals[Top.name], tbl, Len(fns))
        BY <2>1 DEF Base, ScopesOK, ScopeOK
      <3> QED
        BY <2>1, <3>1 DEF BindsFn, BindingOK
    <2> DEFINE binding == Binding(Top.val, FALSE)
    <2>7. Binds(scopes, scopes', home, Top.name, binding) /\ BindingOK(binding, tbl', Len(fns))
      BY <2>1, <2>5
    <2> HIDE DEF binding
    <2>8. Settled(0)
      BY <2>1, <2>4, <2>6, <2>7, BoundScopes
    <2> QED
      BY <2>1, <2>3, <2>4, <2>8, PopStep DEF Settled
  <1> QED
    BY <1>1, <1>2

(* The top frame stays as it is.                                           *)
LEMMA StayStep ==
  ASSUME Base, status = "running", status' = "running", frames' = frames, Settled(0)
  PROVE  Base'
  <1>1. Sequence(frames) /\ Len(frames) \in Nat \ {0} /\ Len(frames) > 0 /\ Top.scope \in 1..Len(scopes)
    BY TopIs
  <1>2. StackTo(Len(frames), Top) /\ FrameOK(Top, scopes', tbl', Len(fns'))
    BY <1>1, StayTo, TopLater
  <1>3. Top.kind = "loop" => LoopOK(Top, scopes'[Top.scope])
    <2>1. Len(frames) \in 1..Len(frames)
      BY <1>1
    <2>2. Top.kind = "loop" => LoopOK(Top, scopes[Top.scope])
      BY <2>1 DEF Base, LoopsOK, Top
    <2>3. Top.scope # 0
      BY <1>1
    <2> QED
      BY <1>1, <2>2, <2>3 DEF Settled, Moved, SameIds, LoopOK
  <1> QED
    BY <1>2, <1>3, TopStep DEF Settled

(* A function is declared in the scope of the statement, where its name is *)
(* new, and gets a scope.                                                  *)
LEMMA FnDeclBinds ==
  ASSUME Base, NEW name \in FnName, NEW param \in ParamName \cup {NoName}, eval_fn_decl(name, param), ~RuntimeError
  PROVE  LET s   == EvalScope
             n   == Len(scopes)
             fn  == [scope |-> n + 1, param |-> param]
             binding == Binding(Val("VAL_FUNCTION", 0, Len(fns) + 1), TRUE)
         IN  /\ AtStatement /\ status = "running" /\ UNCHANGED <<tbl, frames, status>>
             /\ s \in 1..n /\ scopes[s].live /\ name \in Name /\ name \notin Names(scopes[s])
             /\ Sequence(fns') /\ Len(fns') = Len(fns) + 1 /\ fns'[Len(fns) + 1] = fn
             /\ \A f \in 1..Len(fns) : fns'[f] = fns[f]
             /\ \A f \in 1..Len(fns') : f \in 1..Len(fns) \/ f = Len(fns) + 1
             /\ \E mid : /\ Binds(scopes, mid, s, name, binding)
                         /\ scopes' = scope_init(mid, "function", s)
  <1> DEFINE s   == EvalScope
             n   == Len(scopes)
             val == Val("VAL_FUNCTION", 0, Len(fns) + 1)
             declared == scope_declare_identifier(scopes[s], name, val, TRUE)
             mid == [scopes EXCEPT ![s] = declared]
             fn  == [scope |-> n + 1, param |-> param]
             binding == Binding(val, TRUE)
  <1>1. /\ AtStatement /\ status = "running" /\ UNCHANGED <<tbl, frames, status>>
        /\ name \notin Names(scopes[s])
        /\ fns' = Append(fns, fn)
        /\ scopes' = scope_init(mid, "function", s)
    BY DEF eval_fn_decl, CanDeclare, AtStatement
  <1>2. s \in 1..n /\ scopes[s].live /\ name \in Name
    BY <1>1, EvalScopeIs DEF Name
  <1>3. /\ Sequence(scopes) /\ Sequence(fns) /\ Len(fns) \in Nat
        /\ \A t \in 1..n : ScopeShape(scopes[t])
    BY SequenceIs DEF Base, ScopesOK, ScopeOK, FnsOK
  <1>4. /\ Sequence(fns') /\ Len(fns') = Len(fns) + 1 /\ fns'[Len(fns) + 1] = fn
        /\ \A f \in 1..Len(fns) : fns'[f] = fns[f]
    <2> HIDE DEF fn
    <2> QED
      BY <1>1, <1>3, AppendIs
  <1>5. \A f \in 1..Len(fns') : f \in 1..Len(fns) \/ f = Len(fns) + 1
    BY <1>3, <1>4
  <1>6. BoundIn(scopes[s], declared, name, binding)
    BY <1>2, <1>3, DeclareIs
  <1> HIDE DEF declared, val, binding, fn
  <1>7. Binds(scopes, mid, s, name, binding)
    BY <1>2, <1>3, <1>6, ReplaceScope
  <1> HIDE DEF mid, s
  <1> QED
    BY <1>1, <1>2, <1>4, <1>5, <1>7, Zenon DEF s, binding, val, fn

LEMMA FnDeclKeeps ==
  ASSUME Base, NEW name \in FnName, NEW param \in ParamName \cup {NoName}, eval_fn_decl(name, param)
  PROVE  Base'
  <1> DEFINE s   == EvalScope
             n   == Len(scopes)
             val == Val("VAL_FUNCTION", 0, Len(fns) + 1)
             fn  == [scope |-> n + 1, param |-> param]
             binding == Binding(val, TRUE)
  <1>1. CASE RuntimeError
    BY <1>1, ExitKeeps DEF RuntimeError
  <1>2. CASE ~RuntimeError
    <2>1. /\ status = "running" /\ UNCHANGED <<tbl, frames, status>>
          /\ s \in 1..n /\ scopes[s].live /\ name \in Name /\ name \notin Names(scopes[s])
          /\ Sequence(fns') /\ Len(fns') = Len(fns) + 1 /\ fns'[Len(fns) + 1] = fn
          /\ \A f \in 1..Len(fns) : fns'[f] = fns[f]
          /\ \A f \in 1..Len(fns') : f \in 1..Len(fns) \/ f = Len(fns) + 1
      BY <1>2, FnDeclBinds
    <2>2. PICK mid : Binds(scopes, mid, s, name, binding) /\ scopes' = scope_init(mid, "function", s)
      BY <1>2, FnDeclBinds
    <2>3. Len(fns) \in Nat /\ n \in Nat /\ TableOK(tbl) /\ Len(fns) <= Len(fns') /\ Len(fns) + 1 \in 1..Len(fns')
      BY <2>1, SequenceIs DEF Base, ScopesOK, FnsOK
    <2>4. ASSUME NEW f \in 1..Len(fns')
          PROVE  /\ fns'[f] = [scope |-> fns'[f].scope, param |-> fns'[f].param]
                 /\ fns'[f].param \in ParamName \cup {NoName}
                 /\ (f \in 1..Len(fns) /\ fns'[f].scope = fns[f].scope) \/ fns'[f].scope = n + 1
      <3>1. CASE f \in 1..Len(fns)
        BY <2>1, <3>1 DEF Base, FnsOK, FnOK
      <3>2. CASE f = Len(fns) + 1
        BY <2>1, <3>2
      <3> QED
        BY <2>1, <3>1, <3>2
    <2>5. BindingOK(binding, tbl', Len(fns'))
      <3>1. 0 \in 0..Len(tbl.values)
        BY <2>3, TableLengths
      <3> QED
        BY <2>1, <2>3, <3>1 DEF BindingOK, Binding, ValueIn, Val, ValueType
    <2>6. Grown(tbl, tbl')
      BY <2>1, <2>3, GrownSelf
    <2> HIDE DEF val, binding, fn, s
    <2>7. \A r \in 1..Len(scopes) : ScopeOK(mid[r], r, tbl', Len(fns'))
      BY <2>1, <2>2, <2>3, <2>5, <2>6, BindsOK
    <2>8. ~BindsFn(scopes[s], name)
      BY <2>1 DEF BindsFn
    <2>9. \A r \in 1..Len(scopes) : Kept(scopes[r], mid[r]) /\ (r # 0 => Steadfast(scopes[r], mid[r]))
      BY <2>1, <2>2, <2>8, BindsKept
    <2>10. \A r \in 1..Len(scopes) : r # 0
      BY <2>3
    <2>11. Sequence(mid) /\ Len(mid) = Len(scopes)
      BY <2>2 DEF Binds
    <2>12. Settled(0)
      BY <2>1, <2>2, <2>3, <2>4, <2>6, <2>7, <2>9, <2>10, <2>11, AddedScope
    <2>13. status' = "running" /\ frames' = frames
      BY <2>1
    <2> QED
      BY <2>1, <2>12, <2>13, StayStep
  <1> QED
    BY <1>1, <1>2

(* A call binds its argument in the scope of the function, where no        *)
(* variable may have the name of the parameter.                            *)
LEMMA CallBodyBinds ==
  ASSUME Base, CallBody, ~RuntimeError
  PROVE  LET fn   == fns[PointsAt(Top.callee).ref]
             call == [kind |-> "call", scope |-> Top.scope, callee |-> Top.callee, val |-> Top.val]
         IN  /\ status = "running" /\ Top.kind = "args" /\ Top.val # NoVal /\ ValidCallee(Top.callee)
             /\ PointsAt(Top.callee).ref \in 1..Len(fns)
             /\ ValueIn(Top.val, tbl) /\ Top.val.type # "VAL_FUNCTION"
             /\ fn.scope \in 1..Len(scopes) /\ scopes[fn.scope].live /\ scopes[fn.scope].kind = "function"
             /\ frames' = SetTop(call) /\ UNCHANGED <<fns, tbl, status>>
             /\ \/ fn.param = NoName /\ scopes' = scopes
                \/ /\ fn.param # NoName /\ fn.param \in Name /\ fn.param \notin Names(scopes[fn.scope])
                   /\ Binds(scopes, scopes', fn.scope, fn.param, Binding(Top.val, TRUE))
  <1> DEFINE call == [kind |-> "call", scope |-> Top.scope, callee |-> Top.callee, val |-> Top.val]
             fn   == fns[PointsAt(Top.callee).ref]
             binding == Binding(Top.val, TRUE)
  <1>0. /\ status = "running" /\ Top.kind = "args" /\ Top.val # NoVal /\ ValidCallee(Top.callee)
        /\ frames' = SetTop(call) /\ UNCHANGED <<fns, tbl, status>>
        /\ \/ fn.param = NoName /\ scopes' = scopes
           \/ /\ fn.param # NoName /\ fn.param \notin Names(scopes[fn.scope])
              /\ scopes' = [scopes EXCEPT ![fn.scope] =
                              scope_declare_identifier(scopes[fn.scope], fn.param, Top.val, TRUE)]
    BY DEF CallBody, HasValue, CanDeclare
  <1>1. FrameOK(Top, scopes, tbl, Len(fns)) /\ Len(frames) \in Nat \ {0} /\ Sequence(scopes)
    BY <1>0, TopIs
  <1>2. PointsAt(Top.callee).ref \in 1..Len(fns)
    <2>1. Len(frames) \in 1..Len(frames) /\ frames[Len(frames)] = Top
      BY <1>1 DEF Top
    <2> QED
      BY <1>0, <2>1, CalleeIs
  <1>3. /\ fn.scope \in 1..Len(scopes) /\ scopes[fn.scope].live /\ scopes[fn.scope].kind = "function"
        /\ FnOK(fn, scopes)
    BY <1>0, <1>2, FnScopeIs
  <1>4. ValueIn(Top.val, tbl) /\ Top.val.type # "VAL_FUNCTION"
    BY <1>0, <1>1 DEF FrameOK, Waiting
  <1> HIDE DEF call
  <1>5. CASE fn.param = NoName
    BY <1>0, <1>2, <1>3, <1>4, <1>5 DEF call
  <1>6. CASE fn.param # NoName
    <2> DEFINE s == fn.scope
               name == fn.param
               declared == scope_declare_identifier(scopes[s], name, Top.val, TRUE)
    <2>1. scopes' = [scopes EXCEPT ![s] = declared] /\ name \notin Names(scopes[s])
      BY <1>0, <1>6
    <2>2. name \in Name /\ s \in 1..Len(scopes)
      BY <1>3, <1>6 DEF FnOK, Name
    <2> HIDE DEF s, name
    <2>3. \A t \in 1..Len(scopes) : ScopeShape(scopes[t])
      BY DEF Base, ScopesOK, ScopeOK
    <2>4. BoundIn(scopes[s], declared, name, binding)
      BY <2>2, <2>3, DeclareIs
    <2> HIDE DEF declared, binding
    <2>5. Binds(scopes, scopes', s, name, binding)
      BY <1>1, <2>1, <2>2, <2>3, <2>4, ReplaceScope
    <2> QED
      BY <1>0, <1>2, <1>3, <1>4, <1>6, <2>1, <2>2, <2>5 DEF s, name, binding, call
  <1> QED
    BY <1>5, <1>6

LEMMA CallBodyKeeps ==
  ASSUME Base, CallBody
  PROVE  Base'
  <1> DEFINE call == [kind |-> "call", scope |-> Top.scope, callee |-> Top.callee, val |-> Top.val]
             fn   == fns[PointsAt(Top.callee).ref]
             binding == Binding(Top.val, TRUE)
  <1>1. CASE RuntimeError
    BY <1>1, ExitKeeps DEF RuntimeError
  <1>2. CASE ~RuntimeError
    <2>1. /\ status = "running" /\ Top.kind = "args"
          /\ ValueIn(Top.val, tbl) /\ Top.val.type # "VAL_FUNCTION"
          /\ fn.scope \in 1..Len(scopes) /\ scopes[fn.scope].live
          /\ frames' = SetTop(call) /\ UNCHANGED <<fns, tbl, status>>
          /\ \/ fn.param = NoName /\ scopes' = scopes
             \/ /\ fn.param # NoName /\ fn.param \in Name /\ fn.param \notin Names(scopes[fn.scope])
                /\ Binds(scopes, scopes', fn.scope, fn.param, binding)
      BY <1>2, CallBodyBinds
    <2>2. /\ FrameOK(Top, scopes, tbl, Len(fns)) /\ Len(frames) > 0 /\ Sequence(frames) /\ TableOK(tbl)
      BY <2>1, TopIs
    <2>3. Grown(tbl, tbl')
      BY <2>1, <2>2, GrownSelf
    <2>4. Settled(0)
      <3>1. CASE scopes' = scopes
        BY <2>1, <2>3, <3>1, SameScopes
      <3>2. CASE scopes' # scopes
        <4>1. BindingOK(binding, tbl', Len(fns))
          BY <2>1 DEF BindingOK, Binding
        <4>2. ~BindsFn(scopes[fn.scope], fn.param)
          BY <2>1, <3>2 DEF BindsFn
        <4> HIDE DEF binding, fn
        <4> QED
          BY <2>1, <2>3, <3>2, <4>1, <4>2, BoundScopes
      <3> QED
        BY <3>1, <3>2
    <2>5. call.kind = "call" /\ call.scope = Top.scope /\ call.callee = Top.callee /\ FrameShape(call)
      BY DEF FrameShape
    <2> HIDE DEF call
    <2>6. StackTo(Len(frames), call)
      BY <2>1, <2>2, TopTo
    <2>7. FrameOK(Top, scopes', tbl', Len(fns'))
      BY <2>1, <2>4, TopLater
    <2>8. FrameOK(call, scopes', tbl', Len(fns'))
      BY <2>1, <2>5, <2>7 DEF FrameOK, Own, Waiting
    <2>9. status' = "running" /\ call.kind # "loop"
      BY <2>1, <2>5
    <2> QED
      BY <2>1, <2>4, <2>5, <2>6, <2>8, <2>9, TopStep DEF Settled
  <1> QED
    BY <1>1, <1>2

(* A function gets its new scope when a call of it ends.                   *)
LEMMA NewFnScope ==
  ASSUME Base, Grown(tbl, tbl'), NEW p \in 1..Len(scopes), scopes' = scope_init(scopes, "function", p),
         NEW r \in 1..Len(fns), fns' = [fns EXCEPT ![r].scope = Len(scopes) + 1]
  PROVE  Settled(0)
  <1> DEFINE e == [fns[r] EXCEPT !.scope = Len(scopes) + 1]
             g == [fns EXCEPT ![r] = e]
  <1>1. /\ Sequence(scopes) /\ Sequence(fns) /\ Len(fns) \in Nat /\ Len(scopes) \in Nat
    BY SequenceIs DEF Base, ScopesOK, FnsOK
  <1>2. fns' = g
    <2>1. \A q, x : [q EXCEPT ![r].scope = x] = [q EXCEPT ![r] = [q[r] EXCEPT !.scope = x]]
      OBVIOUS
    <2> QED
      BY <2>1
  <1>3. \A f \in 1..Len(fns) : FnOK(fns[f], scopes)
    BY DEF Base, FnsOK
  <1>4. e = [scope |-> e.scope, param |-> e.param] /\ e.param \in ParamName \cup {NoName} /\ e.scope = Len(scopes) + 1
    <2>1. fns[r] = [scope |-> fns[r].scope, param |-> fns[r].param] /\ fns[r].param \in ParamName \cup {NoName}
      BY <1>3 DEF FnOK
    <2> QED
      BY <2>1
  <1>5. Sequence(g) /\ Len(g) = Len(fns) /\ g[r] = e /\ \A f \in 1..Len(fns) : f # r => g[f] = fns[f]
    <2>1. Sequence(fns) /\ r \in 1..Len(fns)
      BY <1>1
    <2> HIDE DEF e
    <2> QED
      BY ONLY <2>1, ReplaceIs
  <1> HIDE DEF g, e
  <1>6. ASSUME NEW f \in 1..Len(fns')
        PROVE  /\ fns'[f] = [scope |-> fns'[f].scope, param |-> fns'[f].param]
               /\ fns'[f].param \in ParamName \cup {NoName}
               /\ (f \in 1..Len(fns) /\ fns'[f].scope = fns[f].scope) \/ fns'[f].scope = Len(scopes) + 1
    BY <1>2, <1>3, <1>4, <1>5 DEF FnOK
  <1>7. Sequence(fns') /\ Len(fns) <= Len(fns')
    <2>1. Len(fns) <= Len(g)
      BY ONLY <1>1, <1>5
    <2> QED
      BY ONLY <1>2, <1>5, <2>1
  <1>8. \A s \in 1..Len(scopes) : /\ ScopeOK(scopes[s], s, tbl', Len(fns'))
                                  /\ Kept(scopes[s], scopes[s]) /\ Steadfast(scopes[s], scopes[s])
    BY <1>7, ScopesLater DEF Kept, Steadfast, KeepsFns, SameIds
  <1> QED
    BY <1>1, <1>6, <1>7, <1>8, AddedScope

LEMMA CallEndsKeeps ==
  ASSUME Base, NEW e \in Expr, CallEnds(e)
  PROVE  Base'
  <1> DEFINE s    == EvalScope
             ret  == Eval(e, s)
             copy == val_copy_deep(ret.val, ret.tbl)
             r    == PointsAt(Top.callee).ref
  <1>0. AtStatement /\ status = "running" /\ Top.kind = "call" /\ ValidCallee(Top.callee)
    BY DEF CallEnds, AtStatement
  <1>1. CASE RuntimeError
    BY <1>1, ExitKeeps DEF RuntimeError
  <1>2. CASE ~RuntimeError
    <2>1. /\ Defined(e, s) /\ InClass(e, s)
          /\ frames' = Deliver(Front(frames), copy.val) /\ tbl' = copy.tbl
          /\ scopes' = scope_init(scopes, "function", Top.scope)
          /\ fns' = [fns EXCEPT ![r].scope = Len(scopes) + 1]
          /\ status' = status
      BY <1>2 DEF CallEnds
    <2>2. s \in 1..Len(scopes)
      BY <1>0, EvalScopeIs
    <2>3. Grown(tbl, ret.tbl) /\ ValueIn(ret.val, ret.tbl) /\ ret.val.type # "VAL_FUNCTION"
      <3> HIDE DEF s
      <3> QED
        BY <2>1, <2>2, EvalNow
    <2> HIDE DEF ret
    <2>4. Grown(ret.tbl, copy.tbl) /\ ValueIn(copy.val, copy.tbl) /\ copy.val.type # "VAL_FUNCTION"
      BY <2>3, CopyDeepIs DEF Grown
    <2> HIDE DEF copy
    <2>5. Grown(tbl, tbl') /\ ValueIn(copy.val, tbl')
      BY <2>1, <2>3, <2>4, GrownTwice DEF Base
    <2>6. /\ Top.scope \in 1..Len(scopes) /\ Len(frames) > 1 /\ Sequence(frames)
          /\ Top = frames[Len(frames)] /\ Len(frames) \in 1..Len(frames)
      BY <1>0, TopIs DEF Top
    <2>7. r \in 1..Len(fns)
      BY <1>0, <2>6, CalleeIs
    <2> HIDE DEF r
    <2>8. Settled(0)
      BY <2>1, <2>5, <2>6, <2>7, NewFnScope
    <2>9. StackTo(Len(frames) - 1, Given(frames[Len(frames) - 1], copy.val))
      BY <2>1, <2>6, DeliverTo
    <2>10. status' = "running" /\ Top.kind \notin Own \cup {"root"}
      BY <1>0, <2>1 DEF Own
    <2> QED
      BY <1>0, <2>4, <2>5, <2>8, <2>9, <2>10, PopStep DEF Settled
  <1> QED
    BY <1>1, <1>2

(* An element of the array.                                                *)
LEMMA ElementIs ==
  ASSUME NEW t, TableOK(t)
  PROVE  ValueIn(Element, t) /\ Element.type = "VAL_INTEGER"
  <1>1. Len(t.values) \in Nat
    BY TableLengths
  <1> QED
    BY <1>1 DEF Element, Val, ValueIn, ValueType

LEMMA FilterEndsKeeps ==
  ASSUME Base, FilterEnds
  PROVE  Base'
  <1> DEFINE v == Val("VAL_ARRAY", 0, 0)
  <1>1. /\ status = "running" /\ Top.kind = "filter"
        /\ frames' = Deliver(Front(frames), v) /\ UNCHANGED <<scopes, fns, tbl, status>>
    BY DEF FilterEnds
  <1>2. Len(frames) > 1 /\ Sequence(frames) /\ TableOK(tbl)
    BY <1>1, TopIs
  <1>3. ValueIn(v, tbl') /\ v.type # "VAL_FUNCTION"
    <2>1. Len(tbl.values) \in Nat
      BY <1>2, TableLengths
    <2> QED
      BY <1>1, <2>1 DEF Val, ValueIn, ValueType
  <1>4. Settled(0)
    BY <1>1, <1>2, GrownSelf, SameScopes
  <1> HIDE DEF v
  <1>5. StackTo(Len(frames) - 1, Given(frames[Len(frames) - 1], v))
    BY <1>1, <1>2, DeliverTo
  <1>6. status' = "running" /\ Top.kind \notin Own \cup {"root"}
    BY <1>1 DEF Own
  <1> QED
    BY <1>1, <1>3, <1>4, <1>5, <1>6, PopStep DEF Settled

FilterFrame(scope, fn, left, new_scope, val) ==
  [kind |-> "filter", scope |-> scope, fn |-> fn, left |-> left, new_scope |-> new_scope, val |-> val]

LEMMA FilterFrameIs ==
  ASSUME NEW scope, NEW fn, NEW left, NEW new_scope, NEW val,
         NEW f, f = FilterFrame(scope, fn, left, new_scope, val)
  PROVE  /\ f.kind = "filter" /\ f.scope = scope /\ f.fn = fn /\ f.left = left
         /\ f.new_scope = new_scope /\ f.val = val /\ FrameShape(f)
  BY DEF FrameShape, FilterFrame

LEMMA FilterFrameOf ==
  ASSUME NEW f, f.kind = "filter", FrameShape(f)
  PROVE  f = FilterFrame(f.scope, f.fn, f.left, f.new_scope, f.val)
  BY DEF FrameShape, FilterFrame

NextElement(f, left)        == [f EXCEPT !.left = left, !.new_scope = 0, !.val = NoVal]
Called(f, new_scope, val) == [f EXCEPT !.new_scope = new_scope, !.val = val]

LEMMA NextElementIs ==
  ASSUME NEW a, NEW b, NEW c, NEW d, NEW e, NEW f, f = FilterFrame(a, b, c, d, e), NEW left
  PROVE  NextElement(f, left) = FilterFrame(a, b, left, 0, NoVal)
  <1>1. [f EXCEPT !.left = left] = FilterFrame(a, b, left, d, e)
    BY DEF FilterFrame
  <1>2. [FilterFrame(a, b, left, d, e) EXCEPT !.new_scope = 0] = FilterFrame(a, b, left, 0, e)
    BY DEF FilterFrame
  <1>3. [FilterFrame(a, b, left, 0, e) EXCEPT !.val = NoVal] = FilterFrame(a, b, left, 0, NoVal)
    BY DEF FilterFrame
  <1>4. NextElement(f, left) = [[[f EXCEPT !.left = left] EXCEPT !.new_scope = 0] EXCEPT !.val = NoVal]
    BY DEF NextElement
  <1> QED
    BY <1>1, <1>2, <1>3, <1>4, Zenon

LEMMA CalledIs ==
  ASSUME NEW a, NEW b, NEW c, NEW d, NEW e, NEW f, f = FilterFrame(a, b, c, d, e), NEW new_scope, NEW val
  PROVE  Called(f, new_scope, val) = FilterFrame(a, b, c, new_scope, val)
  <1>1. [f EXCEPT !.new_scope = new_scope] = FilterFrame(a, b, c, new_scope, e)
    BY DEF FilterFrame
  <1>2. [FilterFrame(a, b, c, new_scope, e) EXCEPT !.val = val] = FilterFrame(a, b, c, new_scope, val)
    BY DEF FilterFrame
  <1>3. Called(f, new_scope, val) = [[f EXCEPT !.new_scope = new_scope] EXCEPT !.val = val]
    BY DEF Called
  <1> QED
    BY <1>1, <1>2, <1>3, Zenon

LEMMA FilterCallEndsKeeps ==
  ASSUME Base, NEW e \in Expr, FilterCallEnds(e)
  PROVE  Base'
  <1> DEFINE s == EvalScope
             f == [Top EXCEPT !.left = @ - 1, !.new_scope = 0, !.val = NoVal]
  <1>0. AtStatement /\ status = "running" /\ Top.kind = "filter" /\ Top.new_scope # 0
    BY DEF FilterCallEnds, AtStatement
  <1>1. CASE RuntimeError
    BY <1>1, ExitKeeps DEF RuntimeError
  <1>2. CASE ~RuntimeError
    <2>1. /\ Defined(e, s) /\ InClass(e, s) /\ tbl' = Eval(e, s).tbl
          /\ scopes' = scope_init(scopes, "function", Top.scope)
          /\ fns' = [fns EXCEPT ![Top.fn].scope = Len(scopes) + 1]
          /\ frames' = SetTop(f) /\ status' = status
      BY <1>2 DEF FilterCallEnds
    <2>2. s \in 1..Len(scopes)
      BY <1>0, EvalScopeIs
    <2>3. Grown(tbl, tbl')
      <3> HIDE DEF s
      <3> QED
        BY <2>1, <2>2, EvalNow
    <2>4. /\ Top.scope \in 1..Len(scopes) /\ Sequence(frames) /\ Len(frames) > 0
          /\ FrameOK(Top, scopes, tbl, Len(fns))
      BY <1>0, TopIs
    <2>5. Top.fn \in 1..Len(fns) /\ Top.left \in Nat /\ Top.left > 0
      BY <1>0, <2>4 DEF FrameOK
    <2>6. Settled(0)
      BY <2>1, <2>3, <2>4, <2>5, NewFnScope
    <2>7. FrameOK(Top, scopes', tbl', Len(fns'))
      BY <1>0, <2>6, TopLater
    <2>8. /\ f.kind = "filter" /\ f.scope = Top.scope /\ f.fn = Top.fn /\ f.left = Top.left - 1
          /\ f.new_scope = 0 /\ FrameShape(f)
      <3>1. f = FilterFrame(Top.scope, Top.fn, Top.left - 1, 0, NoVal)
        <4>1. Top = FilterFrame(Top.scope, Top.fn, Top.left, Top.new_scope, Top.val)
          BY <1>0, <2>4, FilterFrameOf DEF FrameOK
        <4>2. f = NextElement(Top, Top.left - 1)
          BY Zenon DEF NextElement
        <4> QED
          BY ONLY <4>1, <4>2, NextElementIs
      <3> HIDE DEF f
      <3> QED
        BY <3>1, FilterFrameIs
    <2> HIDE DEF f
    <2>9. f.left \in Nat
      BY <2>5, <2>8
    <2>10. FrameOK(f, scopes', tbl', Len(fns'))
      BY <1>0, <2>7, <2>8, <2>9 DEF FrameOK, Own, Waiting
    <2>11. StackTo(Len(frames), f)
      BY <2>1, <2>4, TopTo
    <2>12. status' = "running" /\ f.kind # "loop"
      BY <1>0, <2>1, <2>8
    <2> QED
      BY <1>0, <2>6, <2>8, <2>10, <2>11, <2>12, TopStep DEF Settled
  <1> QED
    BY <1>1, <1>2

(* array_filter_call_fn, before it evaluates the body.                     *)
LEMMA FilterBinds ==
  ASSUME Base, FilterCall, Grown(tbl, tbl'), NEW val, ValueIn(val, tbl'), val.type = "VAL_INTEGER",
         NEW s \in 1..Len(scopes), scopes[s].live, NEW name \in Name,
         scopes' = [scopes EXCEPT ![s] = IF CanDeclare(@, name)
                                         THEN scope_declare_identifier(@, name, val, TRUE)
                                         ELSE valmap_check_realloc(@)]
  PROVE  Settled(0)
  <1> DEFINE sc       == scopes[s]
             declared == scope_declare_identifier(sc, name, val, TRUE)
             grown    == valmap_check_realloc(sc)
             binding  == Binding(val, TRUE)
  <1>1. \A t \in 1..Len(scopes) : ScopeOK(scopes[t], t, tbl, Len(fns)) /\ ScopeShape(scopes[t])
    BY DEF Base, ScopesOK, ScopeOK
  <1>2. Sequence(scopes) /\ fns' = fns /\ Sequence(fns) /\ Len(fns) \in Nat
    BY SequenceIs DEF Base, ScopesOK, FnsOK, FilterCall
  <1>3. CASE CanDeclare(sc, name)
    <2>1. scopes' = [scopes EXCEPT ![s] = declared]
      BY <1>3
    <2>2. BoundIn(sc, declared, name, binding)
      BY <1>1, DeclareIs
    <2>3. BindingOK(binding, tbl', Len(fns))
      BY DEF BindingOK, Binding
    <2>4. ~BindsFn(scopes[s], name)
      BY <1>3 DEF BindsFn, CanDeclare
    <2> HIDE DEF declared, binding
    <2>5. s \in 1..Len(scopes) /\ scopes[s].live /\ name \in Name
      OBVIOUS
    <2>6. Binds(scopes, [scopes EXCEPT ![s] = declared], s, name, binding)
      BY ONLY <1>1, <1>2, <2>2, <2>5, ReplaceScope
    <2>7. Binds(scopes, scopes', s, name, binding)
      BY ONLY <2>1, <2>6
    <2> QED
      BY ONLY Base, Grown(tbl, tbl'), <1>2, <2>3, <2>4, <2>5, <2>7, BoundScopes
  <1>4. CASE ~CanDeclare(sc, name)
    <2>1. scopes' = [scopes EXCEPT ![s] = grown]
      BY <1>4
    <2>2. Like(sc, grown) /\ SameIds(sc, grown) /\ grown.vals = sc.vals
      BY <1>1, ReallocIs
    <2> HIDE DEF grown
    <2>3. ScopeOK(sc, s, tbl', Len(fns))
      <3>1. \A t \in 1..Len(scopes) : ScopeOK(scopes[t], t, tbl', Len(fns'))
        BY <1>2, ScopesLater
      <3> QED
        BY <1>2, <3>1
    <2>4. ScopeOK(grown, s, tbl', Len(fns))
      <3> HIDE DEF sc
      <3> QED
        BY <2>2, <2>3, ScopeLike
    <2>5. Kept(sc, grown) /\ Steadfast(sc, grown)
      BY <2>2 DEF Kept, Steadfast, KeepsFns, BindsFn, Like, Names
    <2> HIDE DEF sc
    <2>6. Kept(scopes[s], grown) /\ Steadfast(scopes[s], grown)
      BY <2>5 DEF sc
    <2> QED
      BY ONLY Base, Grown(tbl, tbl'), s \in 1..Len(scopes), <1>2, <2>1, <2>4, <2>6, ReplacedScope
  <1> QED
    BY <1>3, <1>4

LEMMA FilterCallKeeps ==
  ASSUME Base, FilterCall
  PROVE  Base'
  <1> DEFINE fn   == fns[Top.fn]
             test == val_copy_deep(Element, tbl)
             f    == [Top EXCEPT !.new_scope = fn.scope, !.val = test.val]
  <1>1. /\ status = "running" /\ Top.kind = "filter" /\ Top.new_scope = 0 /\ Top.left > 0
        /\ scopes' = IF fn.param = NoName THEN scopes
                     ELSE [scopes EXCEPT ![fn.scope] =
                             IF CanDeclare(@, fn.param)
                             THEN scope_declare_identifier(@, fn.param, test.val, TRUE)
                             ELSE valmap_check_realloc(@)]
        /\ frames' = SetTop(f) /\ tbl' = test.tbl /\ UNCHANGED <<fns, status>>
    BY DEF FilterCall
  <1>2. /\ FrameOK(Top, scopes, tbl, Len(fns)) /\ Sequence(frames) /\ Len(frames) > 0 /\ TableOK(tbl)
        /\ Len(scopes) \in Nat
    BY <1>1, TopIs
  <1>3. Top.fn \in 1..Len(fns) /\ FrameShape(Top) /\ Top.left \in Nat
    BY <1>1, <1>2 DEF FrameOK
  <1>4. /\ FnOK(fn, scopes) /\ fn.scope \in 1..Len(scopes)
        /\ scopes[fn.scope].kind = "function" /\ scopes[fn.scope].live
    BY <1>1, <1>3, FnScopeIs
  <1>5. Grown(tbl, test.tbl) /\ ValueIn(test.val, test.tbl) /\ test.val.type = "VAL_INTEGER"
    BY <1>2, ElementIs, CopyDeepIs
  <1>6. f = FilterFrame(Top.scope, Top.fn, Top.left, fn.scope, test.val)
    <2>1. Top = FilterFrame(Top.scope, Top.fn, Top.left, Top.new_scope, Top.val)
      BY <1>1, <1>3, FilterFrameOf
    <2>2. f = Called(Top, fn.scope, test.val)
      BY Zenon DEF Called
    <2> QED
      BY ONLY <2>1, <2>2, CalledIs
  <1> HIDE DEF test, f
  <1>7. /\ f.kind = "filter" /\ f.scope = Top.scope /\ f.fn = Top.fn /\ f.left = Top.left
        /\ f.new_scope = fn.scope /\ f.val = test.val /\ FrameShape(f)
    BY <1>6, FilterFrameIs
  <1> DEFINE s == fn.scope
             name == fn.param
  <1>8. name # NoName => name \in Name
    BY <1>4 DEF FnOK, Name
  <1> HIDE DEF fn
  <1>9. Settled(0)
    <2>1. CASE name = NoName
      BY <1>1, <1>5, <2>1, SameScopes
    <2>2. CASE name # NoName
      <3>1. scopes' = [scopes EXCEPT ![s] = IF CanDeclare(@, name)
                                            THEN scope_declare_identifier(@, name, test.val, TRUE)
                                            ELSE valmap_check_realloc(@)]
        BY <1>1, <2>2
      <3>2. name \in Name /\ s \in 1..Len(scopes) /\ scopes[s].live
        BY <1>4, <1>8, <2>2
      <3> HIDE DEF s, name
      <3> QED
        BY <1>1, <1>5, <3>1, <3>2, FilterBinds
    <2> QED
      BY <2>1, <2>2
  <1>10. /\ f.new_scope \in 0..Len(scopes') /\ f.fn \in 1..Len(fns') /\ scopes'[f.new_scope].kind = "function"
         /\ f.scope \in 1..Len(scopes')
    <2>1. Len(scopes) <= Len(scopes') /\ Len(scopes') \in Nat /\ scopes'[s].kind = scopes[s].kind
      BY <1>4, <1>9, SequenceIs DEF Settled, Moved, Evolves, SameTree
    <2>2. f.scope \in 1..Len(scopes)
      BY <1>1, <1>7, TopIs
    <2>3. f.new_scope \in 1..Len(scopes) /\ f.new_scope = s
      BY <1>4, <1>7
    <2>4. f.new_scope \in 0..Len(scopes') /\ f.scope \in 1..Len(scopes')
      BY ONLY <1>2, <2>1, <2>2, <2>3
    <2>5. f.fn \in 1..Len(fns')
      BY ONLY <1>1, <1>3, <1>7
    <2>6. scopes'[f.new_scope].kind = "function"
      BY ONLY <1>4, <2>1, <2>3
    <2> QED
      BY <2>4, <2>5, <2>6
  <1>11. FrameOK(f, scopes', tbl', Len(fns'))
    BY <1>1, <1>3, <1>7, <1>10 DEF FrameOK, Own, Waiting
  <1>12. StackTo(Len(frames), f)
    BY <1>1, <1>2, TopTo
  <1>13. status' = "running" /\ f.kind # "loop"
    BY <1>1, <1>7
  <1> QED
    BY <1>1, <1>7, <1>9, <1>11, <1>12, <1>13, TopStep DEF Settled

-----------------------------------------------------------------------------
(* A block or loop begins.                                                 *)
LEMMA OwnStep ==
  ASSUME Base, AtStatement, UNCHANGED <<fns, tbl, status>>,
         NEW sc, scopes' = Append(scopes, sc), ScopeOK(sc, Len(scopes) + 1, tbl, Len(fns)), sc.live,
         NEW f, frames' = Append(frames, f), f.kind \in Own, f.kind = sc.kind, f.scope = Len(scopes) + 1,
         FrameShape(f),
         f.kind = "loop" => /\ f.count \in Nat /\ f.counter \in 0..f.count /\ f.varname \in VarName \cup {NoName}
                            /\ LoopOK(f, sc)
  PROVE  Base'
  <1> DEFINE m == Len(frames) + 1
  <1>0. status = "running" /\ status' = "running"
    BY DEF AtStatement
  <1>1. /\ Len(frames) \in Nat \ {0} /\ Len(scopes) \in Nat \ {0} /\ Len(fns) \in Nat
        /\ Sequence(frames) /\ Sequence(scopes) /\ TableOK(tbl)
        /\ FrameOK(Top, scopes, tbl, Len(fns)) /\ Placed(frames, Len(frames), scopes)
    BY <1>0, TopIs
  <1>2. /\ Sequence(scopes') /\ Len(scopes') = Len(scopes) + 1
        /\ \A s \in 1..Len(scopes) : scopes'[s] = scopes[s]
        /\ scopes'[Len(scopes) + 1] = sc
    BY <1>1, AppendIs
  <1>3. StackTo(m, f) /\ m > Len(frames) /\ m # 1 /\ m > 1
    BY <1>1, PushTo
  <1>4. Evolves(scopes, scopes')
    BY <1>1, <1>2 DEF Evolves, SameTree
  <1>5. ScopesOK'
    <2>1. ASSUME NEW s \in 1..Len(scopes') PROVE ScopeOK(scopes'[s], s, tbl', Len(fns'))
      <3>1. CASE s \in 1..Len(scopes)
        BY <1>2, <3>1 DEF Base, ScopesOK
      <3>2. CASE s = Len(scopes) + 1
        BY <1>2, <3>2
      <3> QED
        BY <1>1, <1>2, <3>1, <3>2
    <2> QED
      BY <1>2, <2>1 DEF ScopesOK
  <1>6. FnsOK'
    <2>1. \A r \in 1..Len(fns) : FnOK(fns[r], scopes')
      BY <1>1, <1>4, FnLater DEF Base, FnsOK
    <2> QED
      BY <2>1 DEF Base, FnsOK
  <1>7. TableOK(tbl') /\ Longer(tbl, tbl')
    BY <1>1, TableLengths DEF Longer
  <1>8. FrameOK(f, scopes', tbl', Len(fns'))
    <2>1. f.scope \in 1..Len(scopes') /\ scopes'[f.scope].kind = f.kind
      BY <1>1, <1>2
    <2> QED
      BY <2>1 DEF FrameOK, Own, Waiting
  <1>9. frames'[m] = f /\ Len(frames') = m
    BY <1>3 DEF StackTo
  <1>10. /\ Top.kind \in Waiting => Top.val = NoVal
         /\ Top.kind = "filter" => Top.new_scope # 0
    BY DEF AtStatement, Waiting
  <1>11. m \in Nat /\ Len(fns') = Len(fns)
    BY <1>1
  <1> HIDE DEF m
  <1>12. Placed(frames', m, scopes')
    BY <1>3, <1>9 DEF Placed, Own, Waiting
  <1>13. FramesOK'
    <2>1. ASSUME NEW k \in 1..Len(frames), frames[k].kind \in {"args", "call"}
          PROVE  KeepsFns(scopes[frames[k].callee.scope], scopes'[frames[k].callee.scope])
      <3>1. frames[k].callee.scope \in 1..frames[k].scope /\ frames[k].scope \in 1..Len(scopes)
        BY <2>1 DEF Base, FramesOK, FrameOK
      <3>2. frames[k].callee.scope \in 1..Len(scopes)
        BY <1>1, <3>1
      <3> QED
        BY <1>2, <3>2 DEF KeepsFns
    <2>2. FramesOK /\ Len(frames) > 0
      BY <1>1 DEF Base
    <2>3. Len(fns') \in Nat /\ Len(fns) <= Len(fns')
      BY <1>1, <1>11
    <2> QED
      BY <1>1, <1>3, <1>4, <1>7, <1>8, <1>10, <1>12, <2>1, <2>2, <2>3, FramesStep
  <1>14. Nested' /\ Held'
    <2>1. StackTo(Len(frames) + 1, f)
      BY <1>3 DEF m
    <2>2. scopes'[f.scope].live /\ scopes'[f.scope].kind = f.kind
      BY <1>2
    <2>3. \A s \in 1..Len(scopes) : scopes'[s].live <=> scopes[s].live
      BY <1>2
    <2> QED
      BY <1>0, <1>2, <1>4, <2>1, <2>2, <2>3, FramesPush
  <1>15. LoopsOK'
    <2>1. ASSUME NEW k \in 1..Len(frames), frames[k].kind = "loop"
          PROVE  SameLoop(scopes[frames[k].scope], scopes'[frames[k].scope])
      <3>1. frames[k].scope \in 1..Len(scopes)
        BY DEF Base, FramesOK, FrameOK
      <3> QED
        BY <1>2, <3>1 DEF SameLoop, SameIds
    <2>2. LoopsOK
      BY DEF Base
    <2>3. f.kind = "loop" => LoopOK(f, scopes'[f.scope])
      BY <1>2
    <2> QED
      BY <1>1, <1>3, <2>1, <2>2, <2>3, LoopsStep
  <1>16. Len(frames') > 0 /\ Len(scopes') > 0
    BY <1>1, <1>2, <1>3, <1>9, <1>11
  <1> QED
    BY <1>0, <1>5, <1>6, <1>7, <1>13, <1>14, <1>15, <1>16 DEF Base

LEMMA BlockKeeps ==
  ASSUME Base, eval_block
  PROVE  Base'
  <1> DEFINE sc == NewScope("block", EvalScope)
             f  == [kind |-> "block", scope |-> Len(scopes) + 1]
  <1>1. /\ AtStatement /\ UNCHANGED <<fns, tbl, status>>
        /\ scopes' = Append(scopes, sc) /\ frames' = Append(frames, f)
    BY DEF eval_block, scope_init, Push
  <1>2. EvalScope \in 1..Len(scopes) /\ Len(scopes) \in Nat \ {0}
    BY <1>1, EvalScopeIs, TopIs DEF AtStatement
  <1>3. ScopeOK(sc, Len(scopes) + 1, tbl, Len(fns))
    <2>1. Len(scopes) + 1 \in Nat \ {0, 1} /\ EvalScope \in 0..((Len(scopes) + 1) - 1)
      BY <1>2
    <2>2. "block" \in ScopeKind \ {"global"}
      BY DEF ScopeKind
    <2> QED
      BY <2>1, <2>2, NewScopeOK
  <1>4. sc.live /\ sc.kind = "block"
    BY DEF NewScope
  <1>5. f.kind = "block" /\ f.scope = Len(scopes) + 1 /\ FrameShape(f) /\ f.kind \in Own /\ f.kind # "loop"
    BY DEF FrameShape, Own
  <1> HIDE DEF f, sc
  <1> QED
    BY <1>1, <1>3, <1>4, <1>5, OwnStep

FreshLoop(parent) == [NewScope("loop", parent) EXCEPT !.mode = "SC_MODE_REUSE", !.unique_id = 1]

LEMMA FreshLoopIs ==
  ASSUME NEW parent
  PROVE  LET sc == FreshLoop(parent)
         IN  /\ ScopeShape(sc) /\ sc.kind = "loop" /\ sc.parent = parent /\ sc.live /\ sc.mode = "SC_MODE_REUSE"
             /\ Names(sc) = {} /\ sc.unique_id = 1 /\ sc.prev_unique_id = 0
  <1> DEFINE new == NewScope("loop", parent)
             r(mode, id) == [kind |-> new.kind, parent |-> new.parent, live |-> new.live, vals |-> new.vals,
                             capacity |-> new.capacity, mode |-> mode, unique_id |-> id,
                             prev_unique_id |-> new.prev_unique_id]
  <1>1. new = r(new.mode, new.unique_id)
    BY NewScopeIs DEF ScopeShape
  <1>2. /\ new.kind = "loop" /\ new.parent = parent /\ new.live /\ new.prev_unique_id = 0
        /\ Names(new) = {}
    <2>1. Names(new) = {}
      BY NewScopeIs
    <2> QED
      BY <2>1 DEF NewScope
  <1>3. FreshLoop(parent) = [[new EXCEPT !.mode = "SC_MODE_REUSE"] EXCEPT !.unique_id = 1]
    BY DEF FreshLoop
  <1> HIDE DEF new
  <1>4. [new EXCEPT !.mode = "SC_MODE_REUSE"] = r("SC_MODE_REUSE", new.unique_id)
    BY <1>1
  <1>5. [r("SC_MODE_REUSE", new.unique_id) EXCEPT !.unique_id = 1] = r("SC_MODE_REUSE", 1)
    OBVIOUS
  <1>6. FreshLoop(parent) = r("SC_MODE_REUSE", 1)
    BY <1>3, <1>4, <1>5, Zenon
  <1>7. LET sc == r("SC_MODE_REUSE", 1)
        IN  /\ ScopeShape(sc) /\ sc.kind = "loop" /\ sc.parent = parent /\ sc.live /\ sc.mode = "SC_MODE_REUSE"
            /\ Names(sc) = {} /\ sc.unique_id = 1 /\ sc.prev_unique_id = 0
    BY <1>2 DEF ScopeShape, Names
  <1> QED
    BY <1>6, <1>7, Zenon

LEMMA CounterIs ==
  ASSUME NEW t, TableOK(t), NEW c \in Int
  PROVE  ValueIn(Counter(c), t) /\ Counter(c).type = "VAL_INTEGER"
  <1>1. Len(t.values) \in Nat
    BY TableLengths
  <1> QED
    BY <1>1 DEF Counter, Val, ValueIn, ValueType

LEMMA LoopKeeps ==
  ASSUME Base, NEW varname \in VarName \cup {NoName}, NEW count \in Nat, eval_loop_stmt(varname, count)
  PROVE  Base'
  <1> DEFINE fresh == FreshLoop(EvalScope)
             named == scope_declare_identifier(fresh, varname, Counter(0), TRUE)
             sc    == IF varname = NoName THEN fresh ELSE named
             f     == [kind |-> "loop", scope |-> Len(scopes) + 1, counter |-> 0, count |-> count,
                       varname |-> varname]
  <1>1. /\ AtStatement /\ UNCHANGED <<fns, tbl, status>>
        /\ scopes' = Append(scopes, sc) /\ frames' = Append(frames, f)
    BY DEF eval_loop_stmt, Push, FreshLoop
  <1>2. EvalScope \in 1..Len(scopes) /\ Len(scopes) \in Nat \ {0} /\ TableOK(tbl)
    BY <1>1, EvalScopeIs, TopIs DEF AtStatement
  <1>3. /\ ScopeShape(fresh) /\ fresh.kind = "loop" /\ fresh.parent = EvalScope /\ fresh.live
        /\ fresh.mode = "SC_MODE_REUSE" /\ Names(fresh) = {} /\ fresh.unique_id = 1 /\ fresh.prev_unique_id = 0
    BY FreshLoopIs
  <1> DEFINE s == Len(scopes) + 1
  <1>4. EvalScope \in 0..(s - 1) /\ s # Global
    BY <1>2 DEF Global
  <1>5. f.kind = "loop" /\ f.scope = s /\ FrameShape(f) /\ f.counter = 0 /\ f.count = count /\ f.varname = varname
    BY DEF FrameShape
  <1> HIDE DEF fresh, f, s
  <1>6. ScopeOK(fresh, s, tbl, Len(fns))
    <2>1. fresh.parent \in 0..(s - 1) /\ fresh.live \in BOOLEAN
      BY <1>3, <1>4
    <2>2. IsFiniteSet({})
      BY FS_EmptySet
    <2> QED
      BY <1>3, <1>4, <2>1, <2>2 DEF ScopeOK, ScopeKind
  <1>7. /\ ScopeOK(sc, s, tbl, Len(fns)) /\ sc.live /\ sc.kind = "loop" /\ sc.mode = "SC_MODE_REUSE"
        /\ sc.unique_id = 1 /\ sc.prev_unique_id = 0
    <2>1. CASE varname = NoName
      BY <1>3, <1>6, <2>1
    <2>2. CASE varname # NoName
      <3>1. BoundIn(fresh, named, varname, Binding(Counter(0), TRUE))
        BY <1>3, DeclareIs
      <3>2. varname \in Name
        BY <2>2 DEF Name
      <3>3. BindingOK(Binding(Counter(0), TRUE), tbl, Len(fns))
        BY <1>2, CounterIs DEF BindingOK, Binding
      <3> HIDE DEF named
      <3>4. ScopeOK(named, s, tbl, Len(fns))
        BY <1>3, <1>6, <3>1, <3>2, <3>3, ScopeBound
      <3>5. /\ named.live /\ named.kind = "loop" /\ named.mode = "SC_MODE_REUSE"
            /\ named.unique_id = 1 /\ named.prev_unique_id = 0
        BY <1>3, <3>1 DEF BoundIn, Like, SameIds
      <3> QED
        BY <2>2, <3>4, <3>5
    <2> QED
      BY <2>1, <2>2
  <1> HIDE DEF sc
  <1>8. LoopOK(f, sc)
    BY <1>5, <1>7 DEF LoopOK
  <1>9. f.kind \in Own /\ f.count \in Nat /\ f.counter \in 0..f.count /\ f.varname \in VarName \cup {NoName}
    BY <1>5 DEF Own
  <1> QED
    BY <1>1, <1>5, <1>7, <1>8, <1>9, OwnStep DEF s

-----------------------------------------------------------------------------
(* A scope is freed.                                                       *)
LEMMA FreedScopes ==
  ASSUME Base, NEW s \in 1..Len(scopes), scopes' = scope_free(scopes, s),
         tbl' = scope_free_values(scopes[s], tbl), fns' = fns
  PROVE  /\ ScopesOK' /\ FnsOK' /\ TableOK(tbl') /\ Longer(tbl, tbl')
         /\ Released(scopes[s], tbl, tbl', Names(scopes[s]))
         /\ Evolves(scopes, scopes') /\ Len(scopes') = Len(scopes) /\ scopes'[s].live = FALSE
         /\ \A t \in 1..Len(scopes) : t # s => scopes'[t] = scopes[t]
  <1> DEFINE sc == scopes[s]
             dead == scopes'[s]
  <1>1. /\ Sequence(scopes) /\ Len(scopes) \in Nat /\ TableOK(tbl) /\ Sequence(fns) /\ Len(fns) \in Nat
    BY SequenceIs DEF Base, ScopesOK, FnsOK
  <1>2. /\ Sequence(scopes') /\ Len(scopes') = Len(scopes)
        /\ \A t \in 1..Len(scopes) : t # s => scopes'[t] = scopes[t]
        /\ ScopeShape(dead) /\ dead.kind = sc.kind /\ dead.parent = sc.parent
        /\ dead.live = FALSE /\ dead.mode = "SC_DEFAULT" /\ Names(dead) = {}
    BY <1>1, FreeScopeIs
  <1>3. \A t \in 1..Len(scopes) : ScopeOK(scopes[t], t, tbl, Len(fns))
    BY DEF Base, ScopesOK
  <1>4. Released(sc, tbl, tbl', Names(sc))
    <2>1. IsFiniteSet(Names(sc)) /\ \A n \in Names(sc) : ValueIn(sc.vals[n].value, tbl)
      BY <1>3 DEF ScopeOK, BindingOK
    <2> HIDE DEF sc
    <2>2. tbl' = scope_free_values(sc, tbl)
      BY DEF sc
    <2> QED
      BY <1>1, <2>1, <2>2, FreeValuesIs
  <1>5. TableOK(tbl') /\ Longer(tbl, tbl')
    BY <1>1, <1>4, TableLengths DEF Released, Longer
  <1>6. Evolves(scopes, scopes')
    BY <1>1, <1>2 DEF Evolves, SameTree
  <1>7. ScopesOK'
    <2>1. ASSUME NEW t \in 1..Len(scopes) PROVE ScopeOK(scopes'[t], t, tbl', Len(fns'))
      <3>1. CASE t # s
        BY <1>1, <1>2, <1>3, <1>5, <3>1, ScopeLater
      <3>2. CASE t = s
        <4>1. dead.live \in BOOLEAN /\ IsFiniteSet({})
          BY <1>2, FS_EmptySet
        <4>2. ScopeOK(sc, s, tbl, Len(fns))
          BY <1>3
        <4> HIDE DEF dead, sc
        <4>3. ScopeOK(dead, s, tbl', Len(fns'))
          BY <1>2, <4>1, <4>2 DEF ScopeOK
        <4> QED
          BY <3>2, <4>3 DEF dead
      <3> QED
        BY <3>1, <3>2
    <2> QED
      BY <1>2, <2>1 DEF ScopesOK
  <1>8. FnsOK'
    <2>1. \A r \in 1..Len(fns) : FnOK(fns[r], scopes')
      BY <1>1, <1>6, FnLater DEF Base, FnsOK
    <2> QED
      BY <2>1 DEF Base, FnsOK
  <1> QED
    BY <1>2, <1>4, <1>5, <1>6, <1>7, <1>8

(* A block or loop ends.                                                   *)
LEMMA FreeTopKeeps ==
  ASSUME Base, status = "running", Top.kind \in Own, FreeTopScope
  PROVE  Base'
  <1> DEFINE m == Len(frames) - 1
             f == frames[m]
             s == Top.scope
  <1>1. /\ scopes' = scope_free(scopes, s) /\ tbl' = scope_free_values(scopes[s], tbl)
        /\ frames' = Front(frames) /\ UNCHANGED <<fns, status>>
    BY DEF FreeTopScope
  <1>2. /\ Len(frames) \in Nat \ {0} /\ Len(scopes) \in Nat \ {0} /\ Len(fns) \in Nat
        /\ Sequence(frames) /\ Sequence(scopes) /\ TableOK(tbl)
        /\ s \in 1..Len(scopes) /\ Len(frames) > 1
    BY TopIs DEF Own
  <1>3. /\ ScopesOK' /\ FnsOK' /\ TableOK(tbl') /\ Longer(tbl, tbl')
        /\ Evolves(scopes, scopes') /\ Len(scopes') = Len(scopes) /\ scopes'[s].live = FALSE
        /\ \A t \in 1..Len(scopes) : t # s => scopes'[t] = scopes[t]
    BY <1>1, <1>2, FreedScopes
  <1>4. StackTo(m, f)
    BY <1>1, <1>2, PopTo
  <1>5. /\ Nested' /\ Held'
        /\ \A k \in 1..Len(frames') : frames[k].scope < s
    BY <1>2, <1>3, <1>4, FramesPop
  <1>6. /\ m \in 1..Len(frames) /\ m < Len(frames) /\ ~(m > Len(frames)) /\ Len(frames') = m /\ frames'[m] = f
        /\ \A k \in 1..Len(frames) : k < m => k \in 1..m
        /\ m > 1 => m - 1 \in 1..(m - 1)
    BY <1>2, <1>4 DEF StackTo
  <1>7. m > 1 => frames'[m - 1] = frames[m - 1]
    BY <1>4, <1>6 DEF StackTo
  <1> HIDE DEF m
  <1>8. ASSUME NEW k \in 1..Len(frames), k \in 1..m
        PROVE  /\ frames[k].scope \in 1..Len(scopes) /\ scopes'[frames[k].scope] = scopes[frames[k].scope]
               /\ FrameOK(frames[k], scopes, tbl, Len(fns)) /\ Placed(frames, k, scopes)
    <2>1. FrameOK(frames[k], scopes, tbl, Len(fns)) /\ Placed(frames, k, scopes)
      BY DEF Base, FramesOK
    <2>2. frames[k].scope \in 1..Len(scopes)
      BY <2>1 DEF FrameOK
    <2>3. frames[k].scope # s
      BY <1>2, <1>5, <1>6, <1>8, <2>2
    <2> QED
      BY <1>3, <2>1, <2>2, <2>3
  <1>9. ASSUME NEW k \in 1..Len(frames), frames[k].kind \in {"args", "call"}
        PROVE  KeepsFns(scopes[frames[k].callee.scope], scopes'[frames[k].callee.scope])
    <2>1. frames[k].callee.scope \in 1..frames[k].scope /\ frames[k].scope \in 1..Len(scopes)
      BY <1>9 DEF Base, FramesOK, FrameOK
    <2>2. frames[k].callee.scope \in 1..Len(scopes)
      BY <1>2, <2>1
    <2> QED
      BY <1>3, <2>2 DEF KeepsFns
  <1>10. FramesOK'
    <2>1. FramesOK /\ Len(frames) > 0
      BY <1>2 DEF Base
    <2>2. Len(fns') \in Nat /\ Len(fns) <= Len(fns')
      BY <1>1, <1>2
    <2>3. m \in 1..m
      BY <1>6
    <2>4. f.kind \in {"args", "call"} => KeepsFns(scopes[f.callee.scope], scopes'[f.callee.scope])
      BY <1>6, <1>9
    <2>5. FrameOK(f, scopes, tbl, Len(fns)) /\ Placed(frames, m, scopes) /\ scopes'[f.scope] = scopes[f.scope]
      BY <1>6, <1>8, <2>3
    <2> HIDE DEF f
    <2>6. FrameOK(f, scopes', tbl', Len(fns'))
      BY <1>2, <1>3, <2>2, <2>4, <2>5, FrameLater
    <2>7. Placed(frames', m, scopes')
      BY <1>6, <1>7, <2>5 DEF Placed, f
    <2> QED
      BY <1>2, <1>3, <1>4, <1>6, <1>9, <2>1, <2>2, <2>6, <2>7, FramesStep
  <1>11. LoopsOK'
    <2>1. ASSUME NEW k \in 1..Len(frames), k < m, frames[k].kind = "loop"
          PROVE  SameLoop(scopes[frames[k].scope], scopes'[frames[k].scope])
      BY <1>6, <1>8, <2>1 DEF SameLoop, SameIds
    <2>2. LoopsOK
      BY DEF Base
    <2>3. m \in 1..m
      BY <1>6
    <2>4. f.kind = "loop" => LoopOK(f, scopes'[f.scope])
      BY <1>6, <1>8, <2>2, <2>3 DEF LoopsOK
    <2> QED
      BY <1>2, <1>4, <2>1, <2>2, <2>4, LoopsStep
  <1>12. Len(frames') > 0 /\ Len(scopes') > 0 /\ status' = "running"
    BY <1>1, <1>2, <1>3, <1>6
  <1> QED
    BY <1>3, <1>5, <1>10, <1>11, <1>12 DEF Base

LEMMA BlockEndsKeeps ==
  ASSUME Base, BlockEnds \/ LoopEnds
  PROVE  Base'
  BY FreeTopKeeps DEF BlockEnds, LoopEnds, Own

(* The program ends: only the root is on the stack.                        *)
LEMMA ProgramEndsKeeps ==
  ASSUME Base, ProgramEnds
  PROVE  Base'
  <1>1. /\ status = "running" /\ Top.kind = "root" /\ status' = "done"
        /\ scopes' = scope_free(scopes, Global) /\ tbl' = scope_free_values(scopes[Global], tbl)
        /\ UNCHANGED <<fns, frames>>
    BY DEF ProgramEnds
  <1>2. /\ Len(frames) \in Nat \ {0} /\ Len(scopes) \in Nat \ {0} /\ Len(fns) \in Nat
        /\ Sequence(frames) /\ Sequence(scopes) /\ TableOK(tbl)
        /\ FrameOK(Top, scopes, tbl, Len(fns)) /\ Placed(frames, Len(frames), scopes)
    BY <1>1, TopIs
  <1>3. Global \in 1..Len(scopes)
    BY <1>2 DEF Global
  <1>4. /\ ScopesOK' /\ FnsOK' /\ TableOK(tbl') /\ Longer(tbl, tbl')
        /\ Evolves(scopes, scopes')
    BY <1>1, <1>3, FreedScopes
  <1>5. Len(frames) = 1 /\ Top = frames[1]
    BY <1>1, <1>2 DEF Placed, Top
  <1>6. \A k \in 1..Len(frames) : k = 1
    BY <1>5
  <1>7. FrameOK(Top, scopes', tbl', Len(fns'))
    <2>1. Len(fns') \in Nat /\ Len(fns) <= Len(fns') /\ Top.kind \notin {"args", "call"}
      BY <1>1, <1>2
    <2> QED
      BY <1>2, <1>4, <2>1, FrameLater
  <1>8. Placed(frames', 1, scopes')
    BY <1>1, <1>2, <1>5 DEF Placed, Waiting
  <1>9. FramesOK'
    BY <1>1, <1>2, <1>5, <1>6, <1>7, <1>8 DEF FramesOK
  <1>10. Nested'
    <2>1. \A j, k \in 1..Len(frames') : ~(j < k)
      BY <1>1, <1>6
    <2> QED
      BY <2>1 DEF Nested
  <1>11. LoopsOK'
    BY <1>1, <1>5, <1>6 DEF LoopsOK
  <1> QED
    BY <1>1, <1>4, <1>9, <1>10, <1>11 DEF Base

(* The body of a loop runs once more.                                      *)
Reused(sc, n, p) == [sc EXCEPT !.unique_id = n, !.prev_unique_id = p]

LEMMA ReusedIs ==
  ASSUME NEW sc, ScopeShape(sc), NEW n, NEW p
  PROVE  /\ Like(sc, Reused(sc, n, p)) /\ Reused(sc, n, p).vals = sc.vals
         /\ Reused(sc, n, p).unique_id = n /\ Reused(sc, n, p).prev_unique_id = p
  <1> DEFINE r(id, prev) == [kind |-> sc.kind, parent |-> sc.parent, live |-> sc.live, vals |-> sc.vals,
                             capacity |-> sc.capacity, mode |-> sc.mode, unique_id |-> id,
                             prev_unique_id |-> prev]
  <1>1. sc = r(sc.unique_id, sc.prev_unique_id)
    BY DEF ScopeShape
  <1>2. [sc EXCEPT !.unique_id = n] = r(n, sc.prev_unique_id)
    BY <1>1
  <1>3. [r(n, sc.prev_unique_id) EXCEPT !.prev_unique_id = p] = r(n, p)
    OBVIOUS
  <1>4. Reused(sc, n, p) = [[sc EXCEPT !.unique_id = n] EXCEPT !.prev_unique_id = p]
    BY DEF Reused
  <1>5. Reused(sc, n, p) = r(n, p)
    BY <1>2, <1>3, <1>4, Zenon
  <1>6. /\ Like(sc, r(n, p)) /\ r(n, p).vals = sc.vals
        /\ r(n, p).unique_id = n /\ r(n, p).prev_unique_id = p
    BY DEF Like, ScopeShape
  <1> QED
    BY <1>5, <1>6, Zenon

LEMMA LoopAgainKeeps ==
  ASSUME Base, LoopAgain
  PROVE  Base'
  <1> DEFINE s     == Top.scope
             sc    == scopes[s]
             n     == Top.counter + 1
             p     == IF n < Top.count THEN n ELSE sc.prev_unique_id
             reuse == Reused(sc, n, p)
             named == valmap_set_default(reuse, Top.varname, Counter(n), TRUE)
             c     == IF Top.varname = NoName THEN reuse ELSE named
             f     == [Top EXCEPT !.counter = n]
  <1>1. /\ status = "running" /\ Top.kind = "loop" /\ Top.counter < Top.count
        /\ scopes' = [scopes EXCEPT ![s] = c] /\ frames' = SetTop(f) /\ UNCHANGED <<fns, tbl, status>>
    BY Zenon DEF LoopAgain, Reused
  <1>2. /\ Len(frames) \in Nat \ {0} /\ Len(scopes) \in Nat /\ Sequence(frames) /\ TableOK(tbl)
        /\ FrameOK(Top, scopes, tbl, Len(fns)) /\ s \in 1..Len(scopes) /\ sc.live
    BY <1>1, TopIs
  <1>3. /\ Top.count \in Nat /\ Top.counter \in 0..Top.count /\ Top.varname \in VarName \cup {NoName}
        /\ FrameShape(Top)
    BY <1>1, <1>2 DEF FrameOK
  <1>4. ScopeOK(sc, s, tbl, Len(fns)) /\ ScopeShape(sc)
    BY <1>2 DEF Base, ScopesOK, ScopeOK
  <1>5. n \in Nat /\ n > 0 /\ n \in 0..Top.count
    BY <1>1, <1>3
  <1>6. /\ f.kind = "loop" /\ f.scope = s /\ f.counter = n /\ f.count = Top.count /\ f.varname = Top.varname
        /\ FrameShape(f)
    <2>1. Top = [kind |-> "loop", scope |-> Top.scope, counter |-> Top.counter, count |-> Top.count,
                 varname |-> Top.varname]
      BY <1>1, <1>3 DEF FrameShape
    <2>2. f = [kind |-> "loop", scope |-> Top.scope, counter |-> n, count |-> Top.count,
               varname |-> Top.varname]
      <3> HIDE DEF n
      <3> QED
        BY <2>1
    <2> QED
      BY <2>2 DEF FrameShape
  <1>7. SetTop(f) = [frames EXCEPT ![Len(frames)] = f]
    BY DEF SetTop
  <1>8. LoopOK(Top, sc)
    BY <1>1, <1>2 DEF Base, LoopsOK, Top
  <1> HIDE DEF n, f
  <1>9. Like(sc, reuse) /\ reuse.vals = sc.vals /\ reuse.unique_id = n /\ reuse.prev_unique_id = p
    BY <1>4, ReusedIs
  <1>10. n < Top.count => p = n
    OBVIOUS
  <1> HIDE DEF p, reuse
  <1>11. ScopeOK(reuse, s, tbl, Len(fns)) /\ ScopeShape(reuse)
    <2> HIDE DEF sc
    <2> QED
      BY <1>4, <1>9, ScopeLike DEF Like
  <1>12. /\ ScopeOK(c, s, tbl, Len(fns)) /\ Kept(sc, c) /\ c.unique_id = n /\ c.prev_unique_id = p
    <2>1. CASE Top.varname = NoName
      BY <1>9, <1>11, <2>1 DEF Kept, Like
    <2>2. CASE Top.varname # NoName
      <3> DEFINE name == Top.varname
                 const == IF name \in Names(reuse) THEN reuse.vals[name].is_const ELSE TRUE
                 binding == Binding(Counter(n), const)
      <3>1. \A m \in Names(reuse) : BindingOK(reuse.vals[m], tbl, Len(fns))
        BY <1>11 DEF ScopeOK
      <3>2. BoundIn(reuse, named, name, binding)
        <4>1. name \in Names(reuse) => reuse.vals[name] = Binding(reuse.vals[name].value, reuse.vals[name].is_const)
          BY <3>1 DEF BindingOK
        <4> QED
          BY <1>11, <4>1, SetDefaultIs
      <3>3. const \in BOOLEAN
        BY <3>1 DEF BindingOK
      <3> HIDE DEF const
      <3>4. BindingOK(binding, tbl, Len(fns))
        <4>1. ValueIn(Counter(n), tbl) /\ Counter(n).type = "VAL_INTEGER"
          BY <1>2, <1>5, CounterIs
        <4> QED
          BY <3>3, <4>1 DEF BindingOK, Binding
      <3>5. name \in Name
        BY <1>3, <2>2 DEF Name
      <3>6. reuse.live
        BY <1>2, <1>9 DEF Like
      <3> HIDE DEF named, binding, name
      <3>7. ScopeOK(named, s, tbl, Len(fns))
        BY <1>11, <3>2, <3>4, <3>5, <3>6, ScopeBound
      <3>8. named.unique_id = n /\ named.prev_unique_id = p /\ Kept(sc, named)
        BY <1>9, <3>2 DEF BoundIn, SameIds, Like, Kept
      <3> QED
        BY <2>2, <3>7, <3>8
    <2> QED
      BY <2>1, <2>2
  <1> HIDE DEF c
  <1>13. Settled(s)
    <2>1. Grown(tbl, tbl') /\ fns' = fns
      BY <1>1, <1>2, GrownSelf
    <2>2. ScopeOK(c, s, tbl', Len(fns))
      BY <1>1, <1>12
    <2> HIDE DEF s
    <2>3. scopes' = [scopes EXCEPT ![s] = c] /\ Kept(scopes[s], c) /\ s \in 1..Len(scopes)
      BY <1>1, <1>2, <1>12
    <2> QED
      BY ONLY Base, <2>1, <2>2, <2>3, ReplacedScope
  <1>14. scopes'[s] = c
    <2>1. Sequence(scopes)
      BY <1>1, TopIs
    <2> HIDE DEF s
    <2>2. [scopes EXCEPT ![s] = c][s] = c
      BY ONLY <1>2, <2>1, ReplaceIs
    <2> QED
      BY <1>1, <2>2
  <1>15. LoopOK(f, scopes'[f.scope])
    <2>1. c.mode = "SC_MODE_REUSE"
      BY <1>8, <1>12 DEF Kept, LoopOK
    <2> QED
      BY <1>5, <1>6, <1>10, <1>12, <1>14, <2>1 DEF LoopOK
  <1>16. FrameOK(f, scopes', tbl', Len(fns'))
    <2>1. scopes[s].kind = "loop"
      BY <1>1, <1>2 DEF FrameOK, Own
    <2>2. scopes'[f.scope].kind = "loop" /\ f.scope \in 1..Len(scopes')
      BY <1>2, <1>6, <1>13, <2>1, SequenceIs DEF Settled, Moved, Evolves, SameTree
    <2> QED
      BY <1>3, <1>5, <1>6, <2>2 DEF FrameOK, Own, Waiting
  <1>17. StackTo(Len(frames), f)
    BY <1>1, <1>2, TopTo
  <1>18. status' = "running"
    BY <1>1
  <1> QED
    BY <1>1, <1>6, <1>13, <1>15, <1>16, <1>17, <1>18, TopStep DEF Settled

-----------------------------------------------------------------------------
LEMMA InitBase ==
  ASSUME Init
  PROVE  Base
  <1> DEFINE sc == NewScope("global", 0)
             root == [kind |-> "root", scope |-> Global]
  <1>1. /\ scopes = <<sc>> /\ fns = <<>> /\ tbl = val_alloc_tbl_init /\ frames = <<root>>
        /\ status = "running"
    BY DEF Init, scope_create_global
  <1>2. /\ sc.kind = "global" /\ sc.parent = 0 /\ sc.live /\ sc.mode = "SC_DEFAULT" /\ ScopeShape(sc)
    BY DEF NewScope, ScopeShape
  <1>3. Names(sc) = {} /\ IsFiniteSet({})
    BY NewScopeIs, FS_EmptySet
  <1>4. root.kind = "root" /\ root.scope = 1 /\ FrameShape(root)
    BY DEF FrameShape, Global
  <1> HIDE DEF sc, root
  <1>5. ScopeOK(sc, 1, tbl, Len(fns))
    <2>1. sc.parent \in 0..(1 - 1) /\ sc.live \in BOOLEAN
      BY <1>2
    <2> QED
      BY <1>2, <1>3, <2>1 DEF ScopeOK, Global, ScopeKind
  <1>6. Sequence(scopes) /\ Len(scopes) = 1 /\ scopes[1] = sc
    BY <1>1 DEF Sequence
  <1>7. Sequence(frames) /\ Len(frames) = 1 /\ frames[1] = root
    BY <1>1 DEF Sequence
  <1>8. ScopesOK
    BY <1>5, <1>6 DEF ScopesOK
  <1>9. FnsOK
    BY <1>1, EmptyIs DEF FnsOK
  <1>10. TableOK(tbl)
    BY <1>1, EmptyIs DEF TableOK, val_alloc_tbl_init, Free, Range
  <1>11. FramesOK
    <2>1. FrameOK(root, scopes, tbl, Len(fns)) /\ Placed(frames, 1, scopes)
      BY <1>4, <1>6, <1>7 DEF FrameOK, Placed, Global, Own, Waiting
    <2> QED
      BY <1>7, <2>1 DEF FramesOK
  <1>12. Nested /\ LoopsOK
    BY <1>4, <1>7 DEF Nested, LoopsOK, Own
  <1>13. Held
    BY <1>2, <1>4, <1>6, <1>7 DEF Held, Own
  <1> QED
    BY <1>1, <1>6, <1>7, <1>8, <1>9, <1>10, <1>11, <1>12, <1>13 DEF Base

LEMMA NextBase ==
  ASSUME Base, [Next]_vars
  PROVE  Base'
  <1>0. LoopCount \subseteq Nat /\ FilterCount \subseteq Nat
    BY EvalAssumption
  <1>1. CASE UNCHANGED vars
    BY <1>1, StutterKeeps
  <1>2. CASE \E name \in VarName, is_const \in BOOLEAN : eval_var_decl(name, is_const)
    BY <1>2, PushVarDecl
  <1>3. CASE \E name \in Name : eval_assignment(name)
    BY <1>3, PushAssignment
  <1>4. CASE \E e \in Expr : eval_leaf(e) \/ CallEnds(e) \/ FilterCallEnds(e)
    BY <1>4, LeafKeeps, CallEndsKeeps, FilterCallEndsKeeps
  <1>5. CASE \E name \in FnName, n \in FilterCount : array_filter(name, n)
    BY <1>0, <1>5, PushFilter
  <1>6. CASE FilterCall \/ FilterEnds
    BY <1>6, FilterCallKeeps, FilterEndsKeeps
  <1>7. CASE \E operator \in Operators, e, f \in Expr : BinaryExpr(operator, e, f)
    BY <1>7, BinaryKeeps
  <1>8. CASE \E name \in FnName, param \in ParamName \cup {NoName} : eval_fn_decl(name, param)
    BY <1>8, FnDeclKeeps
  <1>9. CASE \E name \in FnName, argc \in {0, 1} : eval_expr_call(name, argc)
    BY <1>9, PushCall
  <1>10. CASE \E name \in VarName \cup {NoName}, count \in LoopCount : eval_loop_stmt(name, count)
    BY <1>0, <1>10, LoopKeeps
  <1>11. CASE eval_block
    BY <1>11, BlockKeeps
  <1>12. CASE BlockEnds \/ LoopEnds
    BY <1>12, BlockEndsKeeps
  <1>13. CASE LoopAgain
    BY <1>13, LoopAgainKeeps
  <1>14. CASE VarDeclEnds
    BY <1>14, VarDeclKeeps
  <1>15. CASE AssignmentEnds
    BY <1>15, AssignmentKeeps
  <1>16. CASE CallBody
    BY <1>16, CallBodyKeeps
  <1>17. CASE ProgramEnds
    BY <1>17, ProgramEndsKeeps
  <1>18. CASE BuiltinExit \/ CalleeLost
    BY <1>18, ExitKeeps DEF BuiltinExit, CalleeLost
  <1>19. CASE Terminated
    BY <1>19, StutterKeeps DEF Terminated
  <1> QED
    BY <1>1, <1>2, <1>3, <1>4, <1>5, <1>6, <1>7, <1>8, <1>9, <1>10, <1>11, <1>12, <1>13, <1>14, <1>15,
       <1>16, <1>17, <1>18, <1>19 DEF Next, Basics, FunctionsAndCalls, LoopsAndOperators

LEMMA AlwaysBase == Spec => []Base
  BY InitBase, NextBase, PTL DEF Spec

-----------------------------------------------------------------------------
(* In every state of every program each variable has its type; in          *)
(* particular a scope is younger than its parent.                          *)
THEOREM TypeCorrect == Spec => []TypeOK
  <1>1. Base => TypeOK
    <2> SUFFICES ASSUME Base PROVE TypeOK
      OBVIOUS
    <2>1. DOMAIN scopes = 1..Len(scopes) /\ DOMAIN fns = 1..Len(fns) /\ DOMAIN frames = 1..Len(frames)
      BY SequenceIs DEF Base, ScopesOK, FnsOK, FramesOK
    <2>2. \A s \in DOMAIN scopes :
            scopes[s].kind \in ScopeKind /\ scopes[s].parent \in 0..(s - 1) /\ Names(scopes[s]) \subseteq Name
      BY <2>1 DEF Base, ScopesOK, ScopeOK
    <2>3. \A f \in DOMAIN fns : fns[f].scope \in DOMAIN scopes /\ fns[f].param \in ParamName \cup {NoName}
      BY <2>1 DEF Base, FnsOK, FnOK
    <2>4. Range(tbl.head) \subseteq Slots /\ tbl.freed \subseteq 1..Len(tbl.texts)
      BY DEF Base, TableOK, Free, Slots
    <2>5. \A k \in DOMAIN frames : frames[k].scope \in DOMAIN scopes
      BY <2>1 DEF Base, FramesOK, FrameOK
    <2> QED
      BY <2>2, <2>3, <2>4, <2>5 DEF TypeOK, Base
  <1> QED
    BY <1>1, AlwaysBase, PTL

(* The blocks and loops whose scopes live are those being evaluated:       *)
(* eval_block and eval_loop_stmt free what they made, once, on every path. *)
THEOREM FreedWhenLeft == Spec => []ScopesMatchFrames
  <1>1. Base => ScopesMatchFrames
    <2> SUFFICES ASSUME Base, status = "running"
                 PROVE  {s \in DOMAIN scopes : Live(s) /\ scopes[s].kind \in {"block", "loop"}} =
                          {frames[k].scope : k \in {i \in DOMAIN frames : frames[i].kind \in {"block", "loop"}}}
      BY DEF ScopesMatchFrames
    <2>1. DOMAIN scopes = 1..Len(scopes) /\ DOMAIN frames = 1..Len(frames)
      BY SequenceIs DEF Base, ScopesOK, FramesOK
    <2>2. ASSUME NEW s \in DOMAIN scopes, Live(s), scopes[s].kind \in Own
          PROVE  \E k \in DOMAIN frames : frames[k].kind \in Own /\ frames[k].scope = s
      BY <2>1, <2>2 DEF Base, Held, Live
    <2>3. ASSUME NEW k \in DOMAIN frames, frames[k].kind \in Own
          PROVE  /\ frames[k].scope \in DOMAIN scopes /\ Live(frames[k].scope)
                 /\ scopes[frames[k].scope].kind \in Own
      BY <2>1, <2>3 DEF Base, Held, Live, FramesOK, FrameOK
    <2> QED
      BY <2>2, <2>3 DEF Own
  <1> QED
    BY <1>1, AlwaysBase, PTL

(* eval_loop_stmt lets a body declare its variables again from the second  *)
(* iteration on and in no other: the scope's two ids agree exactly then.   *)
THEOREM RedeclaredLater == Spec => []RedeclareInv
  <1>1. Base => RedeclareInv
    <2> SUFFICES ASSUME Base, NEW k \in DOMAIN frames, frames[k].kind = "loop",
                        frames[k].counter < frames[k].count
                 PROVE  Redeclares(scopes[frames[k].scope]) <=> frames[k].counter > 0
      BY DEF RedeclareInv
    <2>1. k \in 1..Len(frames)
      BY SequenceIs DEF Base, FramesOK
    <2>2. LoopOK(frames[k], scopes[frames[k].scope]) /\ frames[k].counter \in 0..frames[k].count
          /\ frames[k].count \in Nat
      BY <2>1 DEF Base, LoopsOK, FramesOK, FrameOK
    <2> QED
      BY <2>2 DEF LoopOK, Redeclares
  <1> QED
    BY <1>1, AlwaysBase, PTL

(* What eval_binexp and val_is_truthy say of the values of a program       *)
(* agrees, whatever strings the program has made.                          *)
THEOREM OperatorsAgree == Spec => []OperatorLaws
  <1>1. Base => OperatorLaws
    <2> SUFFICES ASSUME Base PROVE Ordered(Sample) /\ EqualityLaws(Sample) /\ TruthLaw(Sample)
      BY DEF OperatorLaws
    <2>1. Range(tbl.texts) \subseteq Seq(Nat)
      BY DEF Base, TableOK, Range
    <2>2. Decimal(-1) \in Seq(Nat)
      <3>1. Integer(-1) \in Value
        BY DEF Value, AllValues
      <3>2. val_stringify(Integer(-1)) = Decimal(-1)
        BY DEF val_stringify, Integer
      <3> QED
        BY <3>1, <3>2, StringifyIs
    <2>3. <<>> \in Seq(Nat) /\ <<48>> \in Seq(Nat) /\ <<49>> \in Seq(Nat)
      OBVIOUS
    <2>4. true \in Seq(Nat) /\ null \in Seq(Nat)
      BY DEF true, null
    <2> DEFINE ints  == {LLONG_MIN, -1, 0, 1, LLONG_MAX}
               texts == {<<>>, <<48>>, <<49>>, true, null, Decimal(-1)} \cup Range(tbl.texts)
    <2>5. Sample \subseteq Value
      <3>1. LLONG_MIN \in Int /\ LLONG_MAX \in Int /\ -1 \in Int
        BY IntAssumption DEF LLONG_MIN
      <3>2. ints \subseteq Int
        BY <3>1
      <3>3. texts \subseteq Seq(Nat)
        BY <2>1, <2>2, <2>3, <2>4, Zenon
      <3>4. Sample = AllValues(ints, texts)
        BY DEF Sample
      <3> HIDE DEF ints, texts
      <3>5. AllValues(ints, texts) \subseteq Value
        BY <3>2, <3>3, Zenon DEF Value, AllValues
      <3> QED
        BY <3>4, <3>5
    <2>6. Ordered(Sample)
      BY <2>5, ComparisonsOrder DEF Ordered
    <2>7. EqualityLaws(Sample)
      BY <2>5, EqualityConsistent DEF EqualityLaws
    <2>8. TruthLaw(Sample)
      BY <2>5, ConditionsAgree DEF TruthLaw
    <2> QED
      BY <2>6, <2>7, <2>8
  <1> QED
    BY <1>1, AlwaysBase, PTL

-----------------------------------------------------------------------------
(* What a step writes: the scopes a become the scopes b, scope x binds the *)
(* name, and none if x is 0.  Only in the scope of a loop may a constant   *)
(* be overwritten.  A new scope binds nothing but the counter of a loop.   *)
FreshScope(sc) ==
  /\ sc.live /\ sc.capacity = DefaultSize
  /\ \A n \in Names(sc) : sc.vals[n].value.type = "VAL_INTEGER" /\ sc.vals[n].value.self_ptr = 0
  /\ sc.kind # "loop" => Names(sc) = {}

Written(a, b, x, name, binding) ==
  /\ Sequence(b) /\ Len(a) <= Len(b)
  /\ \A t \in 1..Len(a) : Like(a[t], b[t]) /\ (t # x => b[t].vals = a[t].vals)
  /\ x # 0 => /\ x \in 1..Len(a) /\ a[x].live
              /\ Names(b[x]) = Names(a[x]) \cup {name}
              /\ b[x].vals[name] = binding
              /\ \A n \in Names(a[x]) : n # name => b[x].vals[n] = a[x].vals[n]
              /\ name \in Names(a[x]) => a[x].kind = "loop" \/ a[x].vals[name].is_const = FALSE
  /\ \A t \in 1..Len(b) : t > Len(a) => FreshScope(b[t])

LEMMA WrittenSelf ==
  ASSUME Base, NEW name, NEW binding
  PROVE  Written(scopes, scopes, 0, name, binding)
  <1>1. Sequence(scopes) /\ Len(scopes) \in Nat
    BY SequenceIs DEF Base, ScopesOK
  <1>2. \A t \in 1..Len(scopes) : Like(scopes[t], scopes[t])
    BY LikeSelf DEF Base, ScopesOK, ScopeOK
  <1> QED
    BY <1>1, <1>2 DEF Written

LEMMA WrittenBinds ==
  ASSUME NEW a, NEW b, Sequence(a), NEW x \in 1..Len(a), a[x].live, NEW name, NEW binding,
         Binds(a, b, x, name, binding),
         name \in Names(a[x]) => a[x].kind = "loop" \/ a[x].vals[name].is_const = FALSE
  PROVE  Written(a, b, x, name, binding)
  <1>1. Len(a) \in Nat
    BY SequenceIs
  <1>2. Sequence(b) /\ Len(b) = Len(a) /\ BoundIn(a[x], b[x], name, binding)
    BY DEF Binds
  <1>3. ASSUME NEW t \in 1..Len(a) PROVE Like(a[t], b[t]) /\ (t # x => b[t].vals = a[t].vals)
    BY <1>2 DEF Binds, BoundIn
  <1>4. x # 0 /\ \A t \in 1..Len(b) : ~(t > Len(a))
    BY <1>1, <1>2
  <1>5. /\ Names(b[x]) = Names(a[x]) \cup {name} /\ b[x].vals[name] = binding
        /\ \A n \in Names(a[x]) : n # name => b[x].vals[n] = a[x].vals[n]
    BY <1>2 DEF BoundIn
  <1>6. Len(a) <= Len(b)
    BY <1>1, <1>2
  <1> QED
    BY <1>2, <1>3, <1>4, <1>5, <1>6 DEF Written

LEMMA WrittenAppend ==
  ASSUME NEW a, NEW mid, Len(mid) = Len(a), NEW x, NEW name, NEW binding, Written(a, mid, x, name, binding),
         NEW sc, FreshScope(sc), NEW b, b = Append(mid, sc)
  PROVE  Written(a, b, x, name, binding)
  <1>1. Sequence(mid) /\ Len(mid) \in Nat
    BY SequenceIs DEF Written
  <1>2. /\ Sequence(b) /\ Len(b) = Len(mid) + 1
        /\ \A t \in 1..Len(mid) : b[t] = mid[t]
        /\ b[Len(mid) + 1] = sc
    BY <1>1, AppendIs
  <1>3. \A t \in 1..Len(b) : t > Len(a) => FreshScope(b[t])
    BY <1>1, <1>2
  <1>4. Len(a) <= Len(b)
    BY <1>1, <1>2
  <1>5. \A t \in 1..Len(a) : b[t] = mid[t]
    BY <1>2
  <1> QED
    BY <1>2, <1>3, <1>4, <1>5 DEF Written

LEMMA FreshNewScope ==
  ASSUME NEW kind \in ScopeKind, NEW parent
  PROVE  FreshScope(NewScope(kind, parent))
  <1>1. Names(NewScope(kind, parent)) = {}
    BY NewScopeIs
  <1>2. NewScope(kind, parent).live /\ NewScope(kind, parent).capacity = DefaultSize
    BY DEF NewScope
  <1> QED
    BY <1>1, <1>2 DEF FreshScope

(* A step that kept the constants.                                         *)
ConstStep ==
  \A s \in DOMAIN scopes : \A n \in Names(scopes[s]) :
    scopes[s].vals[n].is_const /\ scopes[s].kind # "loop" /\ status' # "exited" =>
      ~scopes'[s].live \/ scopes'[s].vals[n] = scopes[s].vals[n]

LEMMA WrittenConst ==
  ASSUME Base, NEW x, NEW name, NEW binding, Written(scopes, scopes', x, name, binding)
  PROVE  ConstStep
  <1> SUFFICES ASSUME NEW s \in DOMAIN scopes, NEW n \in Names(scopes[s]), scopes[s].vals[n].is_const,
                      scopes[s].kind # "loop"
               PROVE  scopes'[s].vals[n] = scopes[s].vals[n]
    BY DEF ConstStep
  <1>1. s \in 1..Len(scopes) /\ s # 0
    <2>1. Len(scopes) \in Nat /\ DOMAIN scopes = 1..Len(scopes)
      BY SequenceIs DEF Base, ScopesOK
    <2> QED
      BY <2>1
  <1>2. CASE s # x
    BY <1>1, <1>2 DEF Written
  <1>3. CASE s = x
    <2>1. n # name
      BY <1>1, <1>3 DEF Written
    <2> QED
      BY <1>1, <1>3, <2>1 DEF Written
  <1> QED
    BY <1>2, <1>3

(* The steps that write, one by one.                                       *)
LEMMA VarDeclWrites ==
  ASSUME Base, VarDeclEnds, ~RuntimeError
  PROVE  \E const \in BOOLEAN : Written(scopes, scopes', Top.scope, Top.name, Binding(Top.val, const))
  <1>1. /\ Top.scope \in 1..Len(scopes) /\ scopes[Top.scope].live
        /\ Top.name \in Names(scopes[Top.scope]) => scopes[Top.scope].kind = "loop"
    BY VarDeclBinds
  <1>2. PICK const \in BOOLEAN : Binds(scopes, scopes', Top.scope, Top.name, Binding(Top.val, const))
    BY VarDeclBinds
  <1> DEFINE binding == Binding(Top.val, const)
             x == Top.scope
             name == Top.name
  <1>3. Sequence(scopes)
    BY DEF Base, ScopesOK
  <1> HIDE DEF binding, x, name
  <1>4. Written(scopes, scopes', x, name, binding)
    BY <1>1, <1>2, <1>3, WrittenBinds DEF binding, x, name
  <1> QED
    BY <1>4 DEF binding, x, name

LEMMA AssignmentWrites ==
  ASSUME Base, AssignmentEnds, ~RuntimeError
  PROVE  Written(scopes, scopes', scope_resolve_identifier(scopes, Top.scope, Top.name), Top.name,
                 Binding(Top.val, FALSE))
  <1> DEFINE x == scope_resolve_identifier(scopes, Top.scope, Top.name)
             name == Top.name
             binding == Binding(Top.val, FALSE)
  <1>1. /\ x \in 1..Len(scopes) /\ scopes[x].live /\ scopes[x].vals[name].is_const = FALSE
        /\ Binds(scopes, scopes', x, name, binding)
    BY AssignmentBinds
  <1>2. Sequence(scopes)
    BY DEF Base, ScopesOK
  <1> HIDE DEF x, name, binding
  <1>3. Written(scopes, scopes', x, name, binding)
    BY <1>1, <1>2, WrittenBinds
  <1> QED
    BY <1>3 DEF x, name, binding

LEMMA FnDeclWrites ==
  ASSUME Base, NEW name \in FnName, NEW param \in ParamName \cup {NoName}, eval_fn_decl(name, param), ~RuntimeError
  PROVE  /\ Written(scopes, scopes', EvalScope, name, Binding(Val("VAL_FUNCTION", 0, Len(fns) + 1), TRUE))
         /\ Len(scopes') = Len(scopes) + 1
         /\ scopes'[Len(scopes) + 1] = NewScope("function", EvalScope)
  <1> DEFINE x   == EvalScope
             binding == Binding(Val("VAL_FUNCTION", 0, Len(fns) + 1), TRUE)
             sc  == NewScope("function", x)
  <1>1. x \in 1..Len(scopes) /\ scopes[x].live /\ name \notin Names(scopes[x])
    BY FnDeclBinds
  <1>2. PICK mid : Binds(scopes, mid, x, name, binding) /\ scopes' = Append(mid, sc)
    BY FnDeclBinds DEF scope_init
  <1>3. Sequence(scopes) /\ FreshScope(sc)
    BY FreshNewScope DEF Base, ScopesOK, ScopeKind
  <1> HIDE DEF x, binding, sc
  <1>4. Written(scopes, mid, x, name, binding)
    BY <1>1, <1>2, <1>3, WrittenBinds
  <1>5. Sequence(mid) /\ Len(mid) = Len(scopes)
    BY <1>2 DEF Binds
  <1>6. Written(scopes, scopes', x, name, binding)
    BY <1>2, <1>3, <1>4, <1>5, WrittenAppend
  <1>7. Len(scopes') = Len(scopes) + 1 /\ scopes'[Len(scopes) + 1] = sc
    BY <1>2, <1>5, AppendIs
  <1> QED
    BY <1>6, <1>7 DEF x, binding, sc

LEMMA CallBodyWrites ==
  ASSUME Base, CallBody, ~RuntimeError
  PROVE  LET fn == fns[PointsAt(Top.callee).ref]
         IN  \/ fn.param = NoName /\ Written(scopes, scopes', 0, fn.param, Binding(Top.val, TRUE))
             \/ /\ fn.param # NoName /\ fn.param \notin Names(scopes[fn.scope])
                /\ Written(scopes, scopes', fn.scope, fn.param, Binding(Top.val, TRUE))
  <1> DEFINE fn == fns[PointsAt(Top.callee).ref]
             x == fn.scope
             name == fn.param
             binding == Binding(Top.val, TRUE)
  <1>1. /\ x \in 1..Len(scopes) /\ scopes[x].live
        /\ \/ name = NoName /\ scopes' = scopes
           \/ name # NoName /\ name \notin Names(scopes[x]) /\ Binds(scopes, scopes', x, name, binding)
    BY CallBodyBinds
  <1>2. Sequence(scopes)
    BY DEF Base, ScopesOK
  <1> HIDE DEF x, name, binding
  <1>3. CASE name = NoName
    <2>1. Written(scopes, scopes, 0, name, binding)
      BY WrittenSelf
    <2>2. scopes' = scopes
      BY <1>1, <1>3
    <2>3. Written(scopes, scopes', 0, name, binding)
      BY <2>1, <2>2
    <2> QED
      BY <1>3, <2>3 DEF x, name, binding
  <1>4. CASE name # NoName
    <2>1. Written(scopes, scopes', x, name, binding)
      BY <1>1, <1>2, <1>4, WrittenBinds
    <2> QED
      BY <1>1, <1>4, <2>1 DEF x, name, binding
  <1> QED
    BY <1>3, <1>4

LEMMA AppendWrites ==
  ASSUME Base, NEW sc, FreshScope(sc), scopes' = Append(scopes, sc), NEW name, NEW binding
  PROVE  /\ Written(scopes, scopes', 0, name, binding)
         /\ Len(scopes') = Len(scopes) + 1
         /\ scopes'[Len(scopes) + 1] = sc
         /\ \A s \in 1..Len(scopes) : scopes'[s] = scopes[s]
  <1>1. Sequence(scopes)
    BY DEF Base, ScopesOK
  <1>2. /\ Len(scopes') = Len(scopes) + 1 /\ scopes'[Len(scopes) + 1] = sc
        /\ \A s \in 1..Len(scopes) : scopes'[s] = scopes[s]
    BY <1>1, AppendIs
  <1>3. Written(scopes, scopes, 0, name, binding)
    BY WrittenSelf
  <1>4. Written(scopes, scopes', 0, name, binding)
    BY <1>3, WrittenAppend
  <1> QED
    BY <1>2, <1>4

LEMMA CallEndsWrites ==
  ASSUME Base, status = "running", NEW kind \in ScopeKind, NEW p, scopes' = scope_init(scopes, kind, p),
         NEW name, NEW binding
  PROVE  /\ Written(scopes, scopes', 0, name, binding)
         /\ Len(scopes') = Len(scopes) + 1
         /\ scopes'[Len(scopes) + 1] = NewScope(kind, p)
         /\ \A s \in 1..Len(scopes) : scopes'[s] = scopes[s]
  <1> DEFINE sc == NewScope(kind, p)
  <1>1. FreshScope(sc) /\ scopes' = Append(scopes, sc)
    BY FreshNewScope DEF scope_init
  <1> HIDE DEF sc
  <1>2. /\ Written(scopes, scopes', 0, name, binding)
        /\ Len(scopes') = Len(scopes) + 1
        /\ scopes'[Len(scopes) + 1] = sc
        /\ \A s \in 1..Len(scopes) : scopes'[s] = scopes[s]
    BY <1>1, AppendWrites
  <1> QED
    BY <1>2 DEF sc

LEMMA FilterCallWrites ==
  ASSUME Base, FilterCall
  PROVE  LET fn == fns[Top.fn]
             binding == Binding(val_copy_deep(Element, tbl).val, TRUE)
         IN  \/ /\ fn.param = NoName \/ fn.param \in Names(scopes[fn.scope])
                /\ Written(scopes, scopes', 0, fn.param, binding)
             \/ /\ fn.param # NoName /\ fn.param \notin Names(scopes[fn.scope])
                /\ Written(scopes, scopes', fn.scope, fn.param, binding)
  <1> DEFINE x    == fns[Top.fn].scope
             name == fns[Top.fn].param
             val  == val_copy_deep(Element, tbl).val
             sc   == scopes[x]
             binding == Binding(val, TRUE)
  <1>1. /\ status = "running" /\ Top.kind = "filter"
        /\ scopes' = IF name = NoName THEN scopes
                     ELSE [scopes EXCEPT ![x] = IF CanDeclare(@, name)
                                                THEN scope_declare_identifier(@, name, val, TRUE)
                                                ELSE valmap_check_realloc(@)]
    BY DEF FilterCall
  <1>2. Sequence(scopes) /\ Len(scopes) \in Nat /\ Top.fn \in 1..Len(fns)
    BY <1>1, TopIs DEF FrameOK
  <1>3. x \in 1..Len(scopes) /\ scopes[x].live
    BY <1>1, <1>2, FnScopeIs
  <1>4. \A t \in 1..Len(scopes) : ScopeShape(scopes[t])
    BY DEF Base, ScopesOK, ScopeOK
  <1> HIDE DEF x, name, val
  <1>5. CASE name = NoName
    <2>1. Written(scopes, scopes, 0, name, binding) /\ scopes' = scopes
      BY <1>1, <1>5, WrittenSelf
    <2> HIDE DEF binding
    <2>2. Written(scopes, scopes', 0, name, binding)
      BY <2>1
    <2> QED
      BY <1>5, <2>2 DEF x, name, val, binding
  <1>6. CASE name # NoName /\ name \notin Names(sc)
    <2> DEFINE declared == scope_declare_identifier(sc, name, val, TRUE)
    <2>1. scopes' = [scopes EXCEPT ![x] = declared]
      BY <1>1, <1>6 DEF CanDeclare
    <2>2. BoundIn(scopes[x], declared, name, binding)
      BY <1>3, <1>4, DeclareIs
    <2> HIDE DEF declared, binding, sc
    <2>3. Binds(scopes, [scopes EXCEPT ![x] = declared], x, name, binding)
      BY ONLY <1>2, <1>3, <1>4, <2>2, ReplaceScope
    <2>4. name \notin Names(scopes[x]) /\ Binds(scopes, scopes', x, name, binding)
      BY <1>6, <2>1, <2>3 DEF sc
    <2>5. Written(scopes, scopes', x, name, binding)
      BY ONLY <1>2, <1>3, <2>4, WrittenBinds
    <2> QED
      BY <1>6, <2>4, <2>5 DEF x, name, val, binding
  <1>7. CASE name # NoName /\ name \in Names(sc)
    <2> DEFINE grown == valmap_check_realloc(sc)
               e == [scopes EXCEPT ![x] = grown]
    <2>1. scopes' = e
      BY <1>1, <1>7 DEF CanDeclare
    <2>2. Like(sc, grown) /\ grown.vals = sc.vals
      BY <1>3, <1>4, ReallocIs
    <2> HIDE DEF grown, binding
    <2>3. Sequence(e) /\ Len(e) = Len(scopes) /\ e[x] = grown /\ \A r \in 1..Len(scopes) : r # x => e[r] = scopes[r]
      BY ONLY <1>2, <1>3, ReplaceIs
    <2> HIDE DEF e
    <2>4. \A t \in 1..Len(scopes) : Like(scopes[t], e[t]) /\ e[t].vals = scopes[t].vals
      <3>1. ASSUME NEW t \in 1..Len(scopes), t # x PROVE Like(scopes[t], e[t]) /\ e[t].vals = scopes[t].vals
        BY <1>4, <2>3, <3>1, LikeSelf
      <3> QED
        BY <2>2, <2>3, <3>1
    <2>5. Len(scopes) <= Len(e) /\ \A t \in 1..Len(e) : ~(t > Len(scopes))
      BY ONLY <1>2, <2>3
    <2>6. Written(scopes, scopes', 0, name, binding)
      BY ONLY <2>1, <2>3, <2>4, <2>5 DEF Written
    <2> QED
      BY <1>7, <2>6 DEF x, name, val, binding, sc
  <1> QED
    BY <1>5, <1>6, <1>7

LEMMA LoopWrites ==
  ASSUME Base, NEW varname \in VarName \cup {NoName}, NEW count \in Nat, eval_loop_stmt(varname, count)
  PROVE  \E sc : /\ FreshScope(sc) /\ sc.kind = "loop" /\ sc.parent = EvalScope
                 /\ scopes' = Append(scopes, sc)
  <1> DEFINE fresh == FreshLoop(EvalScope)
             named == scope_declare_identifier(fresh, varname, Counter(0), TRUE)
             sc    == IF varname = NoName THEN fresh ELSE named
  <1>1. AtStatement /\ scopes' = Append(scopes, sc)
    BY DEF eval_loop_stmt, FreshLoop
  <1>2. EvalScope \in 1..Len(scopes) /\ Len(scopes) \in Nat
    BY <1>1, EvalScopeIs, TopIs DEF AtStatement
  <1>3. /\ ScopeShape(fresh) /\ fresh.kind = "loop" /\ fresh.parent = EvalScope /\ fresh.live
        /\ Names(fresh) = {}
    BY FreshLoopIs
  <1>4. fresh.capacity = DefaultSize
    BY DEF FreshLoop, NewScope
  <1>5. Roomy(fresh)
    <2>1. fresh.parent # 0
      BY <1>2, <1>3
    <2>2. Cardinality(Names(fresh)) = 0
      BY <1>3, FS_EmptySet
    <2> HIDE DEF fresh
    <2> QED
      BY <1>4, <2>1, <2>2, PredeclaredAssumption DEF Roomy, Elements
  <1> HIDE DEF fresh
  <1>6. CASE varname = NoName
    <2>1. FreshScope(fresh)
      BY <1>3, <1>4 DEF FreshScope
    <2> QED
      BY <1>1, <1>3, <1>6, <2>1
  <1>7. CASE varname # NoName
    <2>1. BoundIn(fresh, named, varname, Binding(Counter(0), TRUE))
      BY <1>3, DeclareIs
    <2> HIDE DEF named
    <2>2. named.kind = "loop" /\ named.parent = EvalScope /\ named.live /\ named.capacity = DefaultSize
      BY <1>3, <1>4, <1>5, <2>1 DEF BoundIn, Like
    <2>3. Names(named) = {varname} /\ named.vals[varname].value = Counter(0)
      BY <1>3, <2>1 DEF BoundIn, Binding
    <2>4. Counter(0).type = "VAL_INTEGER" /\ Counter(0).self_ptr = 0
      BY DEF Counter, Val
    <2>5. FreshScope(named)
      BY <2>2, <2>3, <2>4 DEF FreshScope
    <2> QED
      BY <1>1, <1>7, <2>2, <2>5
  <1> QED
    BY <1>6, <1>7

LEMMA LoopAgainWrites ==
  ASSUME Base, LoopAgain
  PROVE  LET x == Top.scope
         IN  /\ x \in 1..Len(scopes) /\ scopes[x].kind = "loop"
             /\ \E y \in {0, x}, const \in BOOLEAN :
                  Written(scopes, scopes', y, Top.varname, Binding(Counter(Top.counter + 1), const))
  <1> DEFINE x     == Top.scope
             sc    == scopes[x]
             n     == Top.counter + 1
             p     == IF n < Top.count THEN n ELSE sc.prev_unique_id
             name  == Top.varname
             reuse == Reused(sc, n, p)
             named == valmap_set_default(reuse, name, Counter(n), TRUE)
             c     == IF name = NoName THEN reuse ELSE named
  <1>1. /\ status = "running" /\ Top.kind = "loop"
        /\ scopes' = [scopes EXCEPT ![x] = c]
    BY Zenon DEF LoopAgain, Reused
  <1>2. /\ Len(scopes) \in Nat /\ Sequence(scopes)
        /\ FrameOK(Top, scopes, tbl, Len(fns)) /\ x \in 1..Len(scopes) /\ sc.live
    BY <1>1, TopIs
  <1>3. sc.kind = "loop"
    BY <1>1, <1>2 DEF FrameOK, Own
  <1>4. ScopeOK(sc, x, tbl, Len(fns)) /\ ScopeShape(sc) /\ \A t \in 1..Len(scopes) : ScopeShape(scopes[t])
    BY <1>2 DEF Base, ScopesOK, ScopeOK
  <1> HIDE DEF n
  <1>5. Like(sc, reuse) /\ reuse.vals = sc.vals /\ ScopeShape(reuse)
    BY <1>4, ReusedIs DEF Like
  <1> HIDE DEF p, reuse
  <1> DEFINE e == [scopes EXCEPT ![x] = c]
  <1> HIDE DEF c, x
  <1>6. Sequence(e) /\ Len(e) = Len(scopes) /\ e[x] = c /\ \A r \in 1..Len(scopes) : r # x => e[r] = scopes[r]
    BY ONLY <1>2, ReplaceIs
  <1> HIDE DEF e
  <1>7. /\ Len(scopes) <= Len(scopes') /\ Sequence(scopes') /\ scopes'[x] = c
        /\ \A r \in 1..Len(scopes) : r # x => scopes'[r] = scopes[r]
        /\ \A t \in 1..Len(scopes') : ~(t > Len(scopes))
    BY <1>1, <1>2, <1>6 DEF e
  <1>8. ASSUME NEW t \in 1..Len(scopes), t # x
        PROVE  Like(scopes[t], scopes'[t]) /\ scopes'[t].vals = scopes[t].vals
    BY <1>4, <1>7, <1>8, LikeSelf
  <1>9. CASE name = NoName
    <2>1. Like(sc, scopes'[x]) /\ scopes'[x].vals = sc.vals
      BY <1>5, <1>7, <1>9 DEF c
    <2> DEFINE binding == Binding(Counter(n), TRUE)
    <2> HIDE DEF binding, name
    <2>2. \A t \in 1..Len(scopes) : Like(scopes[t], scopes'[t]) /\ scopes'[t].vals = scopes[t].vals
      BY <1>8, <2>1
    <2>3. Written(scopes, scopes', 0, name, binding)
      BY <1>7, <2>2 DEF Written
    <2>4. \E y \in {0, x}, const \in BOOLEAN : Written(scopes, scopes', y, name, Binding(Counter(n), const))
      BY <2>3, Zenon DEF binding
    <2> QED
      BY <1>2, <1>3, <2>4 DEF name, n, x
  <1>10. CASE name # NoName
    <2> DEFINE const == IF name \in Names(reuse) THEN reuse.vals[name].is_const ELSE TRUE
               binding == Binding(Counter(n), const)
    <2>1. \A m \in Names(reuse) : BindingOK(reuse.vals[m], tbl, Len(fns))
      BY <1>4, <1>5 DEF ScopeOK, Names
    <2>2. BoundIn(reuse, named, name, binding)
      <3>1. name \in Names(reuse) => reuse.vals[name] = Binding(reuse.vals[name].value, reuse.vals[name].is_const)
        BY <2>1 DEF BindingOK
      <3> QED
        BY <1>5, <3>1, SetDefaultIs
    <2>3. const \in BOOLEAN
      BY <2>1 DEF BindingOK
    <2>4. c = named
      BY <1>10 DEF c
    <2> HIDE DEF named, const
    <2>5. Names(reuse) = Names(sc) /\ reuse.vals = sc.vals
      BY <1>5 DEF Names
    <2>6. Like(sc, named)
      <3>1. Like(reuse, named)
        BY <2>2 DEF BoundIn
      <3>2. Roomy(sc) => Roomy(reuse)
        BY <1>5, <2>5 DEF Roomy, Like, Elements, Names
      <3> QED
        BY <1>5, <3>1, <3>2 DEF Like
    <2> HIDE DEF binding, name
    <2>7. /\ Names(scopes'[x]) = Names(scopes[x]) \cup {name}
          /\ scopes'[x].vals[name] = binding
          /\ \A m \in Names(scopes[x]) : m # name => scopes'[x].vals[m] = scopes[x].vals[m]
      BY <1>7, <2>2, <2>4, <2>5 DEF BoundIn
    <2>8. \A t \in 1..Len(scopes) : Like(scopes[t], scopes'[t]) /\ (t # x => scopes'[t].vals = scopes[t].vals)
      BY <1>7, <1>8, <2>4, <2>6
    <2>9. Written(scopes, scopes', x, name, binding)
      BY <1>2, <1>3, <1>7, <2>7, <2>8 DEF Written
    <2>10. \E y \in {0, x}, b \in BOOLEAN : Written(scopes, scopes', y, name, Binding(Counter(n), b))
      BY <2>3, <2>9 DEF binding
    <2> QED
      BY <1>2, <1>3, <2>10 DEF name, n, x
  <1> QED
    BY <1>9, <1>10

-----------------------------------------------------------------------------
(* What a step does to the scopes: it writes a binding or none, or frees a *)
(* scope, or ends the program.                                             *)
Writes == \E x, name, binding : Written(scopes, scopes', x, name, binding)

LEMMA QuietWrites ==
  ASSUME Base, scopes' = scopes
  PROVE  Writes
  <1>1. \A name, binding : Written(scopes, scopes, 0, name, binding)
    BY WrittenSelf
  <1> QED
    BY <1>1 DEF Writes

LEMMA AppendWritten ==
  ASSUME Base, NEW sc, FreshScope(sc), scopes' = Append(scopes, sc)
  PROVE  Writes
  BY AppendWrites DEF Writes

LEMMA NextWrites ==
  ASSUME Base, Next, ~RuntimeError, ~UNCHANGED vars
  PROVE  Writes \/ \E s \in 1..Len(scopes) : scopes' = scope_free(scopes, s)
  <1>0. LoopCount \subseteq Nat
    BY EvalAssumption
  <1>2. CASE \E name \in VarName, is_const \in BOOLEAN : eval_var_decl(name, is_const)
    BY <1>2, QuietWrites DEF eval_var_decl
  <1>3. CASE \E name \in Name : eval_assignment(name)
    BY <1>3, QuietWrites DEF eval_assignment
  <1>4. CASE \E e \in Expr : eval_leaf(e) \/ CallEnds(e) \/ FilterCallEnds(e)
    <2>1. "function" \in ScopeKind
      BY DEF ScopeKind
    <2>2. ASSUME NEW e \in Expr, eval_leaf(e) PROVE Writes
      BY <2>2, QuietWrites DEF eval_leaf
    <2>3. ASSUME NEW e \in Expr, CallEnds(e) \/ FilterCallEnds(e) PROVE Writes
      <3>1. scopes' = Append(scopes, NewScope("function", Top.scope))
        BY <2>3 DEF CallEnds, FilterCallEnds, scope_init
      <3> QED
        BY <2>1, <3>1, FreshNewScope, AppendWritten
    <2> QED
      BY <1>4, <2>2, <2>3
  <1>5. CASE \E name \in FnName, n \in FilterCount : array_filter(name, n)
    BY <1>5, QuietWrites DEF array_filter
  <1>6. CASE FilterCall
    BY <1>6, FilterCallWrites DEF Writes
  <1>7. CASE FilterEnds
    BY <1>7, QuietWrites DEF FilterEnds
  <1>8. CASE \E operator \in Operators, e, f \in Expr : BinaryExpr(operator, e, f)
    BY <1>8, QuietWrites DEF BinaryExpr
  <1>9. CASE \E name \in FnName, param \in ParamName \cup {NoName} : eval_fn_decl(name, param)
    BY <1>9, FnDeclWrites DEF Writes
  <1>10. CASE \E name \in FnName, argc \in {0, 1} : eval_expr_call(name, argc)
    BY <1>10, QuietWrites DEF eval_expr_call
  <1>11. CASE \E name \in VarName \cup {NoName}, count \in LoopCount : eval_loop_stmt(name, count)
    BY <1>0, <1>11, LoopWrites, AppendWritten
  <1>12. CASE eval_block
    <2>1. scopes' = Append(scopes, NewScope("block", EvalScope)) /\ "block" \in ScopeKind
      BY <1>12 DEF eval_block, scope_init, ScopeKind
    <2> QED
      BY <2>1, FreshNewScope, AppendWritten
  <1>13. CASE BlockEnds \/ LoopEnds
    <2>1. status = "running" /\ scopes' = scope_free(scopes, Top.scope)
      BY <1>13 DEF BlockEnds, LoopEnds, FreeTopScope
    <2>2. Top.scope \in 1..Len(scopes)
      BY <2>1, TopIs
    <2> QED
      BY <2>1, <2>2
  <1>14. CASE LoopAgain
    BY <1>14, LoopAgainWrites DEF Writes
  <1>15. CASE VarDeclEnds
    BY <1>15, VarDeclWrites DEF Writes
  <1>16. CASE AssignmentEnds
    BY <1>16, AssignmentWrites DEF Writes
  <1>17. CASE CallBody
    BY <1>17, CallBodyWrites DEF Writes
  <1>18. CASE ProgramEnds
    <2>1. status = "running" /\ scopes' = scope_free(scopes, Global)
      BY <1>18 DEF ProgramEnds
    <2>2. Global \in 1..Len(scopes)
      BY <2>1, TopIs DEF Global
    <2> QED
      BY <2>1, <2>2
  <1>19. CASE BuiltinExit \/ CalleeLost
    BY <1>19 DEF BuiltinExit, CalleeLost, RuntimeError
  <1>20. CASE Terminated
    BY <1>20 DEF Terminated
  <1> QED
    BY <1>2, <1>3, <1>4, <1>5, <1>6, <1>7, <1>8, <1>9, <1>10, <1>11, <1>12, <1>13, <1>14, <1>15,
       <1>16, <1>17, <1>18, <1>19, <1>20 DEF Next, Basics, FunctionsAndCalls, LoopsAndOperators

LEMMA FreedKeepsConst ==
  ASSUME Base, NEW s \in 1..Len(scopes), scopes' = scope_free(scopes, s)
  PROVE  ConstStep
  <1>1. Sequence(scopes) /\ DOMAIN scopes = 1..Len(scopes)
    BY SequenceIs DEF Base, ScopesOK
  <1>2. scopes'[s].live = FALSE /\ \A t \in 1..Len(scopes) : t # s => scopes'[t] = scopes[t]
    BY <1>1, FreeScopeIs
  <1> QED
    BY <1>1, <1>2 DEF ConstStep

LEMMA NextKeepsConst ==
  ASSUME Base, Next
  PROVE  ConstStep \/ UNCHANGED vars
  <1>1. CASE RuntimeError
    BY <1>1 DEF RuntimeError, Exit, ConstStep
  <1>2. CASE Writes
    BY <1>2, WrittenConst DEF Writes
  <1> QED
    BY <1>1, <1>2, NextWrites, FreedKeepsConst

(* A constant keeps its value, whatever the program does, as long as its   *)
(* scope lives: scope_assign_identifier refuses it and a declaration of    *)
(* its name fails, in every scope but that of a loop.                      *)
THEOREM ConstantsKept == Spec => ConstKept
  <1>1. Base /\ [Next]_vars => [ConstStep]_vars
    BY NextKeepsConst
  <1> QED
    BY <1>1, AlwaysBase, PTL DEF Spec, ConstKept, ConstStep

-----------------------------------------------------------------------------
(* The tables of scopes.  While its scope lives, a table gains bindings    *)
(* and loses none, and it stays where it is while it has room.             *)
Fuller(a, b) ==
  /\ Elements(a) \in Nat /\ Elements(b) \in Nat /\ Elements(a) <= Elements(b)
  /\ b.capacity = a.capacity \/ 5 * Elements(a) >= 4 * a.capacity

Capacities == \A s \in 1..Len(scopes) : scopes[s].capacity \in Nat

LEMMA NextFills ==
  ASSUME Base, Base', Capacities, Next
  PROVE  /\ Capacities'
         /\ status' = "running" =>
              \A s \in 1..Len(scopes) : s \in 1..Len(scopes') /\ (scopes'[s].live => Fuller(scopes[s], scopes'[s]))
  <1>0. Sequence(scopes) /\ Len(scopes) \in Nat /\ DefaultSize \in Nat
    BY SequenceIs, PredeclaredAssumption DEF Base, ScopesOK
  <1>1. ASSUME NEW a, NEW b, IsFiniteSet(Names(a)), IsFiniteSet(Names(b)), Names(a) \subseteq Names(b),
               b.parent = a.parent, b.capacity = a.capacity \/ 5 * Elements(a) >= 4 * a.capacity
        PROVE  Fuller(a, b)
    <2>1. /\ Cardinality(Names(a)) \in Nat /\ Cardinality(Names(b)) \in Nat
          /\ Cardinality(Names(a)) <= Cardinality(Names(b))
      BY <1>1, FS_Subset, FS_CardinalityType
    <2>2. GlobalPredeclared \in Nat /\ ChildPredeclared \in Nat
      BY PredeclaredAssumption
    <2>3. Elements(a) \in Nat /\ Elements(b) \in Nat /\ Elements(a) <= Elements(b)
      BY <1>1, <2>1, <2>2 DEF Elements
    <2> QED
      BY <1>1, <2>3 DEF Fuller
  <1>2. \A s \in 1..Len(scopes) : IsFiniteSet(Names(scopes[s]))
    BY DEF Base, ScopesOK, ScopeOK
  <1>3. \A s \in 1..Len(scopes') : IsFiniteSet(Names(scopes'[s]))
    BY DEF Base, ScopesOK, ScopeOK
  <1>4. CASE UNCHANGED vars
    BY <1>1, <1>2, <1>4 DEF vars, Capacities
  <1>5. CASE RuntimeError
    BY <1>5, EmptyIs DEF RuntimeError, Exit, Capacities
  <1>6. ASSUME NEW x, NEW name, NEW binding, Written(scopes, scopes', x, name, binding)
        PROVE  /\ Capacities'
               /\ \A s \in 1..Len(scopes) : s \in 1..Len(scopes') /\ Fuller(scopes[s], scopes'[s])
    <2>1. Sequence(scopes') /\ Len(scopes') \in Nat /\ Len(scopes) <= Len(scopes')
      BY <1>6, SequenceIs DEF Written
    <2>2. ASSUME NEW s \in 1..Len(scopes)
          PROVE  s \in 1..Len(scopes') /\ scopes'[s].capacity \in Nat /\ Fuller(scopes[s], scopes'[s])
      <3>1. s \in 1..Len(scopes')
        BY <1>0, <2>1
      <3>2. Like(scopes[s], scopes'[s]) /\ scopes[s].capacity \in Nat
        BY <1>6 DEF Written, Capacities
      <3>3. Names(scopes[s]) \subseteq Names(scopes'[s])
        <4>1. CASE s = x
          <5>1. x # 0
            BY <1>0, <4>1
          <5> QED
            BY <1>6, <4>1, <5>1 DEF Written
        <4>2. CASE s # x
          BY <1>6, <4>2 DEF Written, Names
        <4> QED
          BY <4>1, <4>2
      <3>4. /\ scopes'[s].parent = scopes[s].parent /\ scopes'[s].capacity \in Nat
            /\ scopes'[s].capacity = scopes[s].capacity \/ 5 * Elements(scopes[s]) >= 4 * scopes[s].capacity
        BY <3>2 DEF Like, Roomy
      <3> QED
        BY <1>1, <1>2, <1>3, <3>1, <3>3, <3>4
    <2>3. ASSUME NEW s \in 1..Len(scopes'), s \notin 1..Len(scopes) PROVE scopes'[s].capacity \in Nat
      <3>1. s > Len(scopes)
        BY <1>0, <2>1, <2>3
      <3> QED
        BY <1>0, <1>6, <3>1 DEF Written, FreshScope
    <2> QED
      BY <2>2, <2>3 DEF Capacities
  <1>7. ASSUME NEW x \in 1..Len(scopes), scopes' = scope_free(scopes, x)
        PROVE  /\ Capacities'
               /\ \A s \in 1..Len(scopes) :
                    s \in 1..Len(scopes') /\ (scopes'[s].live => Fuller(scopes[s], scopes'[s]))
    <2>1. /\ Len(scopes') = Len(scopes) /\ scopes'[x].capacity = DefaultSize /\ scopes'[x].live = FALSE
          /\ \A s \in 1..Len(scopes) : s # x => scopes'[s] = scopes[s]
      BY <1>0, <1>7, FreeScopeIs
    <2>2. ASSUME NEW s \in 1..Len(scopes), s # x PROVE Fuller(scopes[s], scopes'[s])
      BY <1>1, <1>2, <2>1, <2>2
    <2>3. ASSUME NEW s \in 1..Len(scopes') PROVE scopes'[s].capacity \in Nat
      BY <1>0, <2>1 DEF Capacities
    <2> QED
      BY <2>1, <2>2, <2>3 DEF Capacities
  <1> QED
    BY <1>4, <1>5, <1>6, <1>7, NextWrites DEF Writes, RuntimeError, Exit

LEMMA AlwaysCapacities == Spec => []Capacities
  <1>1. Init => Capacities
    <2>1. NewScope("global", 0).capacity \in Nat
      BY PredeclaredAssumption DEF NewScope
    <2> DEFINE sc == NewScope("global", 0)
    <2> HIDE DEF sc
    <2> QED
      BY <2>1 DEF Init, scope_create_global, Capacities, sc
  <1>2. Base /\ Base' /\ Capacities /\ [Next]_vars => Capacities'
    BY NextFills DEF vars, Capacities
  <1> QED
    BY <1>1, <1>2, AlwaysBase, PTL DEF Spec

-----------------------------------------------------------------------------
(* Steady calls.  Scope h binds function r to the name n.                  *)
FnAt(ss, h, n, r) ==
  h \in 1..Len(ss) /\ ss[h].live /\ BindsFn(ss[h], n) /\ ss[h].vals[n].value.ref = r

(* The scopes on the chain of s that may be freed, or never need be; those *)
(* of functions live for ever.  Scope s reaches h if they all lie beyond.  *)
Frees(ss, s) == {t \in Chain(ss, s) : ss[t].kind # "function"}
Reaches(ss, s, h) == h \in Chain(ss, s) /\ Frees(ss, s) \subseteq Chain(ss, h)

(* A function is bound once, in a scope that its own scope reaches.        *)
FnsLinked(ss, fs) ==
  \A r \in 1..Len(fs), h \in 1..Len(ss) : \A n : FnAt(ss, h, n, r) =>
    /\ Reaches(ss, fs[r].scope, h)
    /\ \A g, m : FnAt(ss, g, m, r) => g = h /\ m = n

(* A call reaches the scope that binds the function called; what a         *)
(* callback of array_filter can reach, its caller can.                     *)
FrameLinked(f, ss) ==
  /\ f.kind \in {"args", "call"} => Reaches(ss, f.scope, f.callee.scope)
  /\ f.kind = "filter" =>
       /\ \E h, n : FnAt(ss, h, n, f.fn) /\ Reaches(ss, f.scope, h)
       /\ f.new_scope # 0 => Frees(ss, f.new_scope) \subseteq Chain(ss, f.scope)

(* The blocks and loops whose scopes a frame reaches are below it.         *)
Above(stack, k, ss) ==
  \A t \in Chain(ss, stack[k].scope) : ss[t].kind \in Own =>
    \E j \in 1..k : stack[j].kind \in Own /\ stack[j].scope = t

Linked ==
  status = "running" =>
    /\ FnsLinked(scopes, fns)
    /\ \A k \in 1..Len(frames) : FrameLinked(frames[k], scopes) /\ Above(frames, k, scopes)

LEMMA TreeOf ==
  ASSUME Base
  PROVE  Tree(scopes) /\ Len(scopes) \in Nat
  BY SequenceIs DEF Base, ScopesOK, ScopeOK, Tree

LEMMA ChainLater ==
  ASSUME NEW a, NEW b, Tree(a), Tree(b), SameTree(a, b), NEW s \in 1..Len(a)
  PROVE  /\ Chain(b, s) = Chain(a, s)
         /\ Frees(b, s) = Frees(a, s)
         /\ \A h \in 1..Len(a) : Reaches(b, s, h) <=> Reaches(a, s, h)
         /\ Chain(a, s) \subseteq 1..Len(a) /\ Chain(a, s) \subseteq 1..s
  <1>0. Len(a) \in Nat /\ \A t \in 1..Len(a) : t \in 0..Len(a)
    BY SequenceIs DEF Tree
  <1>1. \A t \in 1..Len(a) : Chain(b, t) = Chain(a, t)
    BY <1>0, ChainSame
  <1>2. Chain(a, s) \subseteq 1..s
    BY <1>0, ChainFacts
  <1>3. Chain(a, s) \subseteq 1..Len(a)
    BY <1>0, <1>2
  <1>4. Frees(b, s) = Frees(a, s)
    BY <1>1, <1>3 DEF Frees, SameTree
  <1> QED
    BY <1>1, <1>2, <1>3, <1>4 DEF Reaches

(* A function's scope reaches what its parent reaches.                     *)
LEMMA ReachesOn ==
  ASSUME NEW ss, Tree(ss), NEW s \in 1..Len(ss), ss[s].kind = "function", ss[s].parent \in 1..Len(ss)
  PROVE  /\ Frees(ss, s) = Frees(ss, ss[s].parent)
         /\ Chain(ss, s) = {s} \cup Chain(ss, ss[s].parent)
         /\ \A h : Reaches(ss, ss[s].parent, h) => Reaches(ss, s, h)
  <1>1. Chain(ss, s) = {s} \cup Chain(ss, ss[s].parent)
    BY ChainStep
  <1>2. Frees(ss, s) = Frees(ss, ss[s].parent)
    BY <1>1 DEF Frees
  <1> QED
    BY <1>1, <1>2 DEF Reaches

LEMMA SteadyReaches ==
  ASSUME Base, NEW s \in 1..Len(scopes), NEW name, CanSearch(s, name), Steady(s, name),
         scope_resolve_identifier(scopes, s, name) # 0
  PROVE  Reaches(scopes, s, scope_resolve_identifier(scopes, s, name))
  <1> DEFINE home == scope_resolve_identifier(scopes, s, name)
  <1>1. Tree(scopes) /\ Len(scopes) \in Nat
    BY TreeOf
  <1>2. /\ Visited(scopes, s, name) \subseteq Chain(scopes, s)
        /\ home \in Visited(scopes, s, name)
        /\ Chain(scopes, s) \subseteq Visited(scopes, s, name) \cup Chain(scopes, home)
    BY <1>1, SearchFacts DEF CanSearch
  <1>3. home \in 1..Len(scopes)
    BY ResolveIs
  <1>4. home \in Chain(scopes, home)
    <2>1. home \in 0..Len(scopes) /\ home # 0
      BY <1>1, <1>3
    <2> QED
      BY <1>1, <2>1, ChainFacts
  <1>5. \A t \in Visited(scopes, s, name) \ {home} : scopes[t].kind = "function"
    BY DEF Steady
  <1> QED
    BY <1>2, <1>4, <1>5 DEF Reaches, Frees

(* The function of a call, while its pointer is good.                      *)
LEMMA CalleeAt ==
  ASSUME Base, status = "running", NEW k \in 1..Len(frames), frames[k].kind \in {"args", "call"},
         ValidCallee(frames[k].callee)
  PROVE  /\ FnAt(scopes, frames[k].callee.scope, frames[k].callee.name, PointsAt(frames[k].callee).ref)
         /\ PointsAt(frames[k].callee).ref \in 1..Len(fns)
  <1> DEFINE c == frames[k].callee
  <1>1. FrameOK(frames[k], scopes, tbl, Len(fns))
    BY DEF Base, FramesOK
  <1>2. c.scope \in 1..Len(scopes) /\ PointsAt(c).ref \in 1..Len(fns)
    BY CalleeIs
  <1>3. scopes[c.scope].live /\ BindsFn(scopes[c.scope], c.name)
    BY <1>1 DEF FrameOK, ValidCallee
  <1> QED
    BY <1>2, <1>3 DEF FnAt, PointsAt

(* Where the next node is evaluated, all blocks and loops it can reach are *)
(* being evaluated.                                                        *)
LEMMA EvalLinked ==
  ASSUME Base, Linked, AtStatement \/ AtExpr,
         NEW t \in Chain(scopes, EvalScope), scopes[t].kind \in Own
  PROVE  \E j \in 1..Len(frames) : frames[j].kind \in Own /\ frames[j].scope = t
  <1>0. status = "running"
    BY DEF AtStatement, AtExpr
  <1>1. /\ Len(frames) \in Nat \ {0} /\ Len(frames) \in 1..Len(frames) /\ Top = frames[Len(frames)]
        /\ FrameOK(Top, scopes, tbl, Len(fns)) /\ Top.scope \in 1..Len(scopes)
    BY <1>0, TopIs DEF Top
  <1>2. Tree(scopes) /\ Len(scopes) \in Nat /\ Top.scope \in 0..Len(scopes)
    BY <1>1, TreeOf
  <1>3. FrameLinked(Top, scopes) /\ Above(frames, Len(frames), scopes) /\ FnsLinked(scopes, fns)
    BY <1>0, <1>1 DEF Linked
  <1>4. t \in Chain(scopes, Top.scope) => \E j \in 1..Len(frames) : frames[j].kind \in Own /\ frames[j].scope = t
    BY <1>1, <1>3 DEF Above
  <1>5. scopes[t].kind # "function"
    BY DEF Own
  <1>6. CASE Top.kind \notin {"call", "filter"}
    BY <1>4, <1>6, EvalScopeIs
  <1>7. CASE Top.kind = "call"
    <2> DEFINE r == PointsAt(Top.callee).ref
               h == Top.callee.scope
    <2>1. ValidCallee(Top.callee)
      BY <1>7 DEF AtStatement, AtExpr
    <2>2. FnAt(scopes, h, Top.callee.name, r) /\ r \in 1..Len(fns)
      BY <1>0, <1>1, <1>7, <2>1, CalleeAt
    <2>3. EvalScope = fns[r].scope
      BY <1>7 DEF EvalScope
    <2> HIDE DEF r
    <2>4. Reaches(scopes, fns[r].scope, h) /\ Reaches(scopes, Top.scope, h)
      BY <1>3, <1>7, <2>2 DEF FnsLinked, FrameLinked, FnAt
    <2>5. t \in Chain(scopes, h)
      BY <1>5, <2>3, <2>4 DEF Reaches, Frees
    <2>6. Chain(scopes, h) \subseteq Chain(scopes, Top.scope)
      BY <1>2, <2>4, ChainFacts DEF Reaches
    <2> QED
      BY <1>4, <2>5, <2>6
  <1>8. CASE Top.kind = "filter"
    <2>1. Top.new_scope # 0 /\ EvalScope = Top.new_scope
      BY <1>8 DEF AtStatement, AtExpr, EvalScope
    <2>2. t \in Chain(scopes, Top.scope)
      BY <1>3, <1>5, <1>8, <2>1 DEF FrameLinked, Frees
    <2> QED
      BY <1>4, <2>2
  <1> QED
    BY <1>6, <1>7, <1>8

(* What a step does to the functions that names are bound to.              *)
KeepsFnAt(a, b, x) == \A h, n, r : FnAt(a, h, n, r) /\ h # x => FnAt(b, h, n, r)
NoNewFns(a, b)     == \A h, n, r : FnAt(b, h, n, r) => FnAt(a, h, n, r)

LEMMA SelfFns ==
  ASSUME scopes' = scopes
  PROVE  KeepsFnAt(scopes, scopes', 0) /\ NoNewFns(scopes, scopes')
  BY DEF KeepsFnAt, NoNewFns

LEMMA WrittenFns ==
  ASSUME Base, NEW x, NEW name, NEW binding, Written(scopes, scopes', x, name, binding),
         binding.value.type # "VAL_FUNCTION"
  PROVE  /\ NoNewFns(scopes, scopes') /\ KeepsFnAt(scopes, scopes', x)
         /\ x = 0 \/ scopes[x].kind # "loop" => KeepsFnAt(scopes, scopes', 0)
  <1>1. Len(scopes) \in Nat /\ Len(scopes') \in Nat /\ Len(scopes) <= Len(scopes')
    BY SequenceIs DEF Base, ScopesOK, Written
  <1>2. ASSUME NEW h, NEW n, NEW r, FnAt(scopes', h, n, r)
        PROVE  FnAt(scopes, h, n, r)
    <2>1. h \in 1..Len(scopes')
      BY <1>2 DEF FnAt
    <2>2. h \in 1..Len(scopes)
      <3>1. CASE h > Len(scopes)
        <4>1. FreshScope(scopes'[h])
          BY <2>1, <3>1 DEF Written
        <4>2. n \in Names(scopes'[h]) /\ scopes'[h].vals[n].value.type = "VAL_FUNCTION"
          BY <1>2 DEF FnAt, BindsFn
        <4> QED
          BY <4>1, <4>2 DEF FreshScope
      <3> QED
        BY <1>1, <2>1, <3>1
    <2>3. scopes[h].live
      BY <1>2, <2>2 DEF Written, Like, FnAt
    <2>4. h \in 1..Len(scopes) /\ h # x => scopes'[h].vals = scopes[h].vals
      BY DEF Written
    <2>5. CASE h # x
      BY <1>2, <2>2, <2>3, <2>4, <2>5 DEF FnAt, BindsFn, Names
    <2>6. CASE h = x
      <3>1. h # 0
        BY <2>2
      <3>2. n # name
        BY <1>2, <2>6, <3>1 DEF Written, FnAt, BindsFn
      <3>3. n \in Names(scopes[h]) /\ scopes'[h].vals[n] = scopes[h].vals[n]
        BY <1>2, <2>6, <3>1, <3>2 DEF Written, FnAt, BindsFn
      <3> QED
        BY <1>2, <2>2, <2>3, <3>3 DEF FnAt, BindsFn
    <2> QED
      BY <2>5, <2>6
  <1>3. ASSUME NEW h, NEW n, NEW r, FnAt(scopes, h, n, r), h # x \/ scopes[h].kind # "loop"
        PROVE  FnAt(scopes', h, n, r)
    <2>1. h \in 1..Len(scopes) /\ h \in 1..Len(scopes') /\ h # 0
      BY <1>1, <1>3 DEF FnAt
    <2>2. scopes'[h].live
      BY <1>3, <2>1 DEF Written, Like, FnAt
    <2>3. CASE h # x
      <3>1. scopes'[h].vals = scopes[h].vals
        BY <2>1, <2>3 DEF Written
      <3> QED
        BY <1>3, <2>1, <2>2, <3>1 DEF FnAt, BindsFn, Names
    <2>4. CASE h = x
      <3>1. BindingOK(scopes[h].vals[n], tbl, Len(fns))
        BY <1>3, <2>1 DEF Base, ScopesOK, ScopeOK, FnAt, BindsFn
      <3>2. scopes[h].vals[n].is_const = TRUE
        BY <1>3, <3>1 DEF BindingOK, FnAt, BindsFn
      <3>3. n # name
        BY <1>3, <2>1, <2>4, <3>2 DEF Written, FnAt, BindsFn
      <3>4. n \in Names(scopes'[h]) /\ scopes'[h].vals[n] = scopes[h].vals[n]
        BY <1>3, <2>1, <2>4, <3>3 DEF Written, FnAt, BindsFn
      <3> QED
        BY <1>3, <2>1, <2>2, <3>4 DEF FnAt, BindsFn
    <2> QED
      BY <2>3, <2>4
  <1> QED
    BY <1>2, <1>3 DEF NoNewFns, KeepsFnAt

LEMMA WrittenTree ==
  ASSUME Base, NEW x, NEW name, NEW binding, Written(scopes, scopes', x, name, binding)
  PROVE  SameTree(scopes, scopes')
  BY DEF Written, Like, SameTree

(* No function's scope changes, or it is one that reaches the binding.     *)
LEMMA FnsLinkedStep ==
  ASSUME Base, Base', FnsLinked(scopes, fns), SameTree(scopes, scopes'),
         \A h, n, r : FnAt(scopes', h, n, r) =>
           /\ FnAt(scopes, h, n, r)
           /\ fns'[r].scope = fns[r].scope \/ Reaches(scopes', fns'[r].scope, h)
  PROVE  FnsLinked(scopes', fns')
  <1>1. Tree(scopes) /\ Len(scopes) \in Nat
    BY TreeOf
  <1>2. Tree(scopes')
    BY SequenceIs DEF Base, ScopesOK, ScopeOK, Tree
  <1>3. ASSUME NEW h, NEW n, NEW r, FnAt(scopes', h, n, r)
        PROVE  /\ Reaches(scopes', fns'[r].scope, h)
               /\ \A g, m : FnAt(scopes', g, m, r) => g = h /\ m = n
    <2>1. FnAt(scopes, h, n, r) /\ h \in 1..Len(scopes)
      BY <1>3 DEF FnAt
    <2>2. r \in 1..Len(fns)
      <3>1. BindingOK(scopes[h].vals[n], tbl, Len(fns))
        BY <2>1 DEF Base, ScopesOK, ScopeOK, FnAt, BindsFn
      <3> QED
        BY <2>1, <3>1 DEF BindingOK, FnAt, BindsFn
    <2>3. /\ Reaches(scopes, fns[r].scope, h)
          /\ \A g, m : FnAt(scopes, g, m, r) => g = h /\ m = n
      BY <2>1, <2>2 DEF FnsLinked
    <2>4. fns[r].scope \in 1..Len(scopes)
      BY <2>2 DEF Base, FnsOK, FnOK
    <2>5. Reaches(scopes', fns[r].scope, h)
      BY <1>1, <1>2, <2>1, <2>3, <2>4, ChainLater
    <2> QED
      BY <1>3, <2>3, <2>5
  <1> QED
    BY <1>3 DEF FnsLinked

(* A frame that is like one of before, as far as calls go.                 *)
SameLink(g, f) ==
  /\ g.scope = f.scope
  /\ g.kind \in Own <=> f.kind \in Own
  /\ g.kind \in {"args", "call"} => f.kind \in {"args", "call"} /\ g.callee = f.callee
  /\ g.kind = "filter" => f.kind = "filter" /\ g.fn = f.fn /\ g.new_scope = f.new_scope

LEMMA FrameLinkedLater ==
  ASSUME Base, Base', SameTree(scopes, scopes'), NEW x, KeepsFnAt(scopes, scopes', x),
         NEW k \in 1..Len(frames), FrameLinked(frames[k], scopes), NEW g, SameLink(g, frames[k]),
         x # 0 /\ g.kind = "filter" => frames[k].scope < x
  PROVE  FrameLinked(g, scopes')
  <1> DEFINE f == frames[k]
  <1>1. Tree(scopes) /\ Len(scopes) \in Nat
    BY TreeOf
  <1>2. Tree(scopes')
    BY SequenceIs DEF Base, ScopesOK, ScopeOK, Tree
  <1>3. FrameOK(f, scopes, tbl, Len(fns)) /\ f.scope \in 1..Len(scopes)
    BY DEF Base, FramesOK, FrameOK
  <1>4. Chain(scopes, f.scope) \subseteq 1..Len(scopes) /\ Chain(scopes, f.scope) \subseteq 1..f.scope
        /\ Chain(scopes', f.scope) = Chain(scopes, f.scope)
    BY <1>1, <1>2, <1>3, ChainLater
  <1>5. \A h \in 1..Len(scopes) : Reaches(scopes', f.scope, h) <=> Reaches(scopes, f.scope, h)
    BY <1>1, <1>2, <1>3, ChainLater
  <1> HIDE DEF f
  <1>6. ASSUME g.kind \in {"args", "call"}
        PROVE  Reaches(scopes', g.scope, g.callee.scope)
    <2>1. Reaches(scopes, f.scope, f.callee.scope) /\ g.scope = f.scope /\ g.callee = f.callee
      BY <1>6 DEF SameLink, FrameLinked, f
    <2>2. f.callee.scope \in 1..Len(scopes)
      BY <1>4, <2>1 DEF Reaches
    <2> QED
      BY <1>5, <2>1, <2>2
  <1>7. ASSUME g.kind = "filter"
        PROVE  /\ \E h, n : FnAt(scopes', h, n, g.fn) /\ Reaches(scopes', g.scope, h)
               /\ g.new_scope # 0 => Frees(scopes', g.new_scope) \subseteq Chain(scopes', g.scope)
    <2>1. f.kind = "filter" /\ g.fn = f.fn /\ g.new_scope = f.new_scope /\ g.scope = f.scope
      BY <1>7 DEF SameLink, f
    <2>2. PICK h, n : FnAt(scopes, h, n, f.fn) /\ Reaches(scopes, f.scope, h)
      BY <2>1 DEF FrameLinked, f
    <2>3. h \in 1..Len(scopes) /\ h \in 1..f.scope
      BY <1>4, <2>2 DEF Reaches
    <2>4. h # x
      <3>1. x # 0 => f.scope < x
        BY <1>7 DEF f
      <3> QED
        BY <1>1, <1>3, <2>3, <3>1
    <2>5. FnAt(scopes', h, n, g.fn) /\ Reaches(scopes', g.scope, h)
      BY <1>5, <2>1, <2>2, <2>3, <2>4 DEF KeepsFnAt
    <2>6. f.new_scope # 0 => f.new_scope \in 1..Len(scopes)
      BY <1>1, <1>3, <2>1 DEF FrameOK
    <2>7. f.new_scope # 0 => Frees(scopes', f.new_scope) = Frees(scopes, f.new_scope)
      BY <1>1, <1>2, <2>6, ChainLater
    <2>8. f.new_scope # 0 => Frees(scopes, f.new_scope) \subseteq Chain(scopes, f.scope)
      BY <2>1 DEF FrameLinked, f
    <2>9. g.new_scope # 0 => Frees(scopes', g.new_scope) \subseteq Chain(scopes', g.scope)
      BY <1>4, <2>1, <2>7, <2>8
    <2> QED
      BY <2>5, <2>9
  <1> QED
    BY <1>6, <1>7 DEF FrameLinked

(* Frames linked before are linked after, and so is one that is new.       *)
LEMMA LinkedStep ==
  ASSUME Base, Base', Linked, status = "running", status' = "running",
         SameTree(scopes, scopes'), NEW x, KeepsFnAt(scopes, scopes', x), FnsLinked(scopes', fns'),
         NEW m, NEW f, StackTo(m, f),
         \A k \in 1..(m - 1) : x # 0 /\ frames[k].kind = "filter" => frames[k].scope < x,
         \/ m \in 1..Len(frames) /\ SameLink(f, frames[m]) /\ ~(x # 0 /\ f.kind = "filter")
         \/ /\ m \in 1..Len(frames) => f.scope = frames[m].scope /\ (f.kind \in Own <=> frames[m].kind \in Own)
            /\ m \notin 1..Len(frames) => Above(frames', m, scopes')
            /\ FrameLinked(f, scopes')
  PROVE  Linked'
  <1>1. Tree(scopes) /\ Len(scopes) \in Nat /\ Len(frames) \in Nat
    BY TreeOf, TopIs
  <1>2. Tree(scopes')
    BY SequenceIs DEF Base, ScopesOK, ScopeOK, Tree
  <1>3. m \in Nat /\ Len(frames') = m /\ frames'[m] = f /\ m >= 1 /\ m <= Len(frames) + 1
    BY <1>1 DEF StackTo
  <1>4. ASSUME NEW k \in 1..(m - 1)
        PROVE  /\ k \in 1..Len(frames) /\ frames'[k] = frames[k] /\ SameLink(frames'[k], frames[k])
               /\ FrameLinked(frames'[k], scopes')
    <2>1. k \in 1..Len(frames) /\ frames'[k] = frames[k]
      BY <1>1, <1>3 DEF StackTo
    <2>2. SameLink(frames'[k], frames[k])
      BY <2>1 DEF SameLink
    <2>3. x # 0 /\ frames'[k].kind = "filter" => frames[k].scope < x
      BY <2>1
    <2>4. FrameLinked(frames[k], scopes)
      BY <2>1 DEF Linked
    <2> DEFINE g == frames'[k]
    <2> HIDE DEF g
    <2>5. FrameLinked(g, scopes')
      BY <2>1, <2>2, <2>3, <2>4, FrameLinkedLater DEF g
    <2> QED
      BY <2>1, <2>2, <2>5 DEF g
  <1>5. FrameLinked(f, scopes')
    <2>1. CASE m \in 1..Len(frames) /\ SameLink(f, frames[m]) /\ ~(x # 0 /\ f.kind = "filter")
      <3>1. FrameLinked(frames[m], scopes)
        BY <2>1 DEF Linked
      <3> QED
        BY <2>1, <3>1, FrameLinkedLater
    <2> QED
      BY <2>1
  <1>6. ASSUME NEW k \in 1..m, k \in 1..Len(frames)
        PROVE  Above(frames', k, scopes')
    <2>1. \A j \in 1..k : /\ frames'[j].scope = frames[j].scope
                          /\ frames'[j].kind \in Own <=> frames[j].kind \in Own
      <3>1. ASSUME NEW j \in 1..k, j # m
            PROVE  frames'[j].scope = frames[j].scope /\ (frames'[j].kind \in Own <=> frames[j].kind \in Own)
        <4>1. j \in 1..(m - 1)
          BY <1>3, <3>1
        <4> QED
          BY <1>4, <4>1
      <3>2. m \in 1..k => /\ frames'[m].scope = frames[m].scope
                          /\ frames'[m].kind \in Own <=> frames[m].kind \in Own
        <4>1. m \in 1..k => m \in 1..Len(frames)
          BY <1>1, <1>3, <1>6
        <4> QED
          BY <1>3, <4>1 DEF SameLink
      <3> QED
        BY <3>1, <3>2
    <2>2. frames[k].scope \in 1..Len(scopes) /\ frames'[k].scope = frames[k].scope
      <3>1. k \in 1..k
        BY <1>6
      <3> QED
        BY <1>6, <2>1, <3>1 DEF Base, FramesOK, FrameOK
    <2>3. /\ Chain(scopes', frames[k].scope) = Chain(scopes, frames[k].scope)
          /\ Chain(scopes, frames[k].scope) \subseteq 1..Len(scopes)
      BY <1>1, <1>2, <2>2, ChainLater
    <2>4. \A t \in Chain(scopes, frames[k].scope) : scopes'[t].kind = scopes[t].kind
      BY <2>3 DEF SameTree
    <2>5. Above(frames, k, scopes)
      BY <1>6 DEF Linked
    <2> QED
      BY <2>1, <2>2, <2>3, <2>4, <2>5 DEF Above
  <1>7. ASSUME NEW k \in 1..Len(frames')
        PROVE  FrameLinked(frames'[k], scopes') /\ Above(frames', k, scopes')
    <2>1. k \in 1..m
      BY <1>3
    <2>2. CASE k \in 1..Len(frames)
      <3>1. k \in 1..(m - 1) \/ k = m
        BY <1>3, <2>1
      <3> QED
        BY <1>3, <1>4, <1>5, <1>6, <2>1, <2>2, <3>1
    <2>3. CASE k \notin 1..Len(frames)
      <3>1. k = m /\ m \notin 1..Len(frames)
        BY <1>1, <1>3, <2>1, <2>3
      <3>2. Above(frames', m, scopes')
        BY <3>1
      <3> QED
        BY <1>3, <1>5, <3>1, <3>2
    <2> QED
      BY <2>2, <2>3
  <1> QED
    BY <1>7 DEF Linked

(* The scopes and the functions stay as they are.                          *)
LEMMA SameLinked ==
  ASSUME Base, Base', Linked, status = "running", status' = "running", scopes' = scopes, fns' = fns
  PROVE  SameTree(scopes, scopes') /\ KeepsFnAt(scopes, scopes', 0) /\ FnsLinked(scopes', fns')
  <1>1. Len(scopes) \in Nat
    BY TreeOf
  <1>2. SameTree(scopes, scopes')
    BY <1>1 DEF SameTree
  <1> QED
    BY <1>2, SelfFns DEF Linked

(* A binding that is no function is written.                               *)
LEMMA WrittenLinked ==
  ASSUME Base, Base', Linked, status = "running", fns' = fns, NEW y, NEW name, NEW binding,
         Written(scopes, scopes', y, name, binding), binding.value.type # "VAL_FUNCTION",
         NEW x, y = 0 \/ x = y \/ scopes[y].kind # "loop"
  PROVE  SameTree(scopes, scopes') /\ KeepsFnAt(scopes, scopes', x) /\ FnsLinked(scopes', fns')
  <1>1. SameTree(scopes, scopes')
    BY WrittenTree
  <1>2. NoNewFns(scopes, scopes') /\ KeepsFnAt(scopes, scopes', y)
    BY WrittenFns
  <1>3. KeepsFnAt(scopes, scopes', x)
    <2>1. CASE x = y
      BY <1>2, <2>1
    <2>2. CASE y = 0 \/ scopes[y].kind # "loop"
      <3>1. KeepsFnAt(scopes, scopes', 0)
        BY <2>2, WrittenFns
      <3>2. \A h, n, r : FnAt(scopes, h, n, r) => h # 0
        BY TreeOf DEF FnAt
      <3> QED
        BY <3>1, <3>2 DEF KeepsFnAt
    <2> QED
      BY <2>1, <2>2
  <1>4. FnsLinked(scopes', fns')
    BY <1>1, <1>2, FnsLinkedStep DEF NoNewFns, Linked
  <1> QED
    BY <1>1, <1>3, <1>4

(* The stack alone changes.                                                *)
LEMMA QuietLinked ==
  ASSUME Base, Base', Linked, status = "running", status' = "running", scopes' = scopes, fns' = fns,
         NEW m, NEW f, StackTo(m, f), m \in 1..Len(frames), SameLink(f, frames[m])
  PROVE  Linked'
  <1>1. SameTree(scopes, scopes') /\ KeepsFnAt(scopes, scopes', 0) /\ FnsLinked(scopes', fns')
    BY SameLinked
  <1> QED
    BY <1>1, LinkedStep

LEMMA PushLinked ==
  ASSUME Base, Base', Linked, AtStatement \/ AtExpr, status' = "running", scopes' = scopes, fns' = fns,
         NEW f, frames' = Append(frames, f), f.scope = EvalScope, f.kind \notin Own, FrameLinked(f, scopes)
  PROVE  Linked'
  <1> DEFINE m == Len(frames) + 1
  <1>0. status = "running"
    BY DEF AtStatement, AtExpr
  <1>1. SameTree(scopes, scopes') /\ KeepsFnAt(scopes, scopes', 0) /\ FnsLinked(scopes', fns')
    BY <1>0, SameLinked
  <1>2. Sequence(frames) /\ Len(frames) \in Nat
    BY <1>0, TopIs
  <1>3. StackTo(m, f) /\ m \notin 1..Len(frames)
    BY <1>2, PushTo
  <1>4. Above(frames', m, scopes')
    <2>1. SUFFICES ASSUME NEW t \in Chain(scopes, EvalScope), scopes[t].kind \in Own
                   PROVE  \E j \in 1..m : frames'[j].kind \in Own /\ frames'[j].scope = t
      BY <1>3 DEF Above, StackTo
    <2>2. PICK j \in 1..Len(frames) : frames[j].kind \in Own /\ frames[j].scope = t
      BY <2>1, EvalLinked
    <2>3. j \in 1..m /\ j \in 1..(m - 1)
      BY <1>2
    <2>4. frames'[j] = frames[j]
      BY <1>3, <2>3 DEF StackTo
    <2> QED
      BY <2>2, <2>3, <2>4
  <1>5. FrameLinked(f, scopes')
    OBVIOUS
  <1> HIDE DEF m
  <1> QED
    BY <1>0, <1>1, <1>3, <1>4, <1>5, LinkedStep

LEMMA GivenLink ==
  ASSUME NEW f, FrameShape(f), NEW val
  PROVE  SameLink(Given(f, val), f)
  <1>1. CASE f.kind \notin Waiting
    BY <1>1 DEF Given, SameLink
  <1>2. CASE f.kind = "var_decl"
    <2>1. f = [kind |-> "var_decl", scope |-> f.scope, name |-> f.name, val |-> f.val, is_const |-> f.is_const]
      BY <1>2 DEF FrameShape
    <2>2. [f EXCEPT !.val = val].kind = "var_decl" /\ [f EXCEPT !.val = val].scope = f.scope
      BY <2>1
    <2> QED
      BY <1>2, <2>2 DEF Given, Waiting, SameLink, Own
  <1>3. CASE f.kind = "assignment"
    <2>1. f = [kind |-> "assignment", scope |-> f.scope, name |-> f.name, val |-> f.val]
      BY <1>3 DEF FrameShape
    <2>2. [f EXCEPT !.val = val].kind = "assignment" /\ [f EXCEPT !.val = val].scope = f.scope
      BY <2>1
    <2> QED
      BY <1>3, <2>2 DEF Given, Waiting, SameLink, Own
  <1>4. CASE f.kind = "args"
    <2>1. f = [kind |-> "args", scope |-> f.scope, callee |-> f.callee, argc |-> f.argc, val |-> f.val]
      BY <1>4 DEF FrameShape
    <2>2. [f EXCEPT !.val = val].kind = "args" /\ [f EXCEPT !.val = val].scope = f.scope
          /\ [f EXCEPT !.val = val].callee = f.callee
      BY <2>1
    <2> QED
      BY <1>4, <2>2 DEF Given, Waiting, SameLink, Own
  <1> QED
    BY <1>1, <1>2, <1>3, <1>4 DEF Waiting

(* A value for the frame that waits for it.                                *)
LEMMA ValueLinked ==
  ASSUME Base, Base', Linked, AtExpr, NEW v, frames' = SetTop([Top EXCEPT !.val = v]),
         UNCHANGED <<scopes, fns, status>>
  PROVE  Linked'
  <1> DEFINE f == Given(Top, v)
  <1>0. status = "running" /\ Top.kind \in Waiting
    BY DEF AtExpr, Waiting
  <1>1. /\ Len(frames) > 0 /\ Sequence(frames) /\ Top = frames[Len(frames)] /\ Len(frames) \in 1..Len(frames)
        /\ FrameShape(Top)
    BY <1>0, TopIs DEF Top, FrameOK
  <1>2. frames' = SetTop(f)
    BY <1>0 DEF Given
  <1>3. SameLink(f, Top)
    BY <1>1, GivenLink
  <1> HIDE DEF f
  <1>4. StackTo(Len(frames), f)
    BY <1>1, <1>2, TopTo
  <1> QED
    BY <1>0, <1>1, <1>3, <1>4, QuietLinked

LEMMA QuietSteps ==
  ASSUME Base, Base', Linked, status = "running"
  PROVE  /\ \A name \in VarName, is_const \in BOOLEAN : eval_var_decl(name, is_const) => Linked'
         /\ \A name \in Name : eval_assignment(name) => Linked'
         /\ \A e \in Expr : eval_leaf(e) => Linked'
         /\ \A operator \in Operators, e, f \in Expr : BinaryExpr(operator, e, f) => Linked'
         /\ FilterEnds => Linked'
  <1>0. RuntimeError => Linked'
    BY DEF RuntimeError, Exit, Linked
  <1>1. ASSUME NEW name \in VarName, NEW is_const \in BOOLEAN, eval_var_decl(name, is_const)
        PROVE  Linked'
    <2> DEFINE const == is_const /\ Top.kind \notin {"call", "filter"}
               f == [kind |-> "var_decl", scope |-> EvalScope, name |-> name, val |-> NoVal, is_const |-> const]
    <2>1. AtStatement /\ frames' = Append(frames, f) /\ UNCHANGED <<scopes, fns, tbl, status>>
      BY <1>1 DEF eval_var_decl, Push
    <2>2. f.kind = "var_decl" /\ f.scope = EvalScope
      OBVIOUS
    <2> HIDE DEF f
    <2>3. f.kind \notin Own /\ FrameLinked(f, scopes)
      BY <2>2 DEF Own, FrameLinked
    <2> QED
      BY <2>1, <2>2, <2>3, PushLinked
  <1>2. ASSUME NEW name \in Name, eval_assignment(name)
        PROVE  Linked'
    <2> DEFINE f == [kind |-> "assignment", scope |-> EvalScope, name |-> name, val |-> NoVal]
    <2>1. AtStatement /\ frames' = Append(frames, f) /\ UNCHANGED <<scopes, fns, tbl, status>>
      BY <1>2 DEF eval_assignment, Push
    <2>2. f.kind = "assignment" /\ f.scope = EvalScope
      OBVIOUS
    <2> HIDE DEF f
    <2>3. f.kind \notin Own /\ FrameLinked(f, scopes)
      BY <2>2 DEF Own, FrameLinked
    <2> QED
      BY <2>1, <2>2, <2>3, PushLinked
  <1>3. ASSUME NEW e \in Expr, eval_leaf(e)
        PROVE  Linked'
    <2>1. CASE ~RuntimeError
      <3> DEFINE v == Eval(e, Top.scope).val
      <3>1. AtExpr /\ frames' = SetTop([Top EXCEPT !.val = v]) /\ UNCHANGED <<scopes, fns, status>>
        BY <1>3, <2>1 DEF eval_leaf
      <3> HIDE DEF v
      <3> QED
        BY <3>1, ValueLinked
    <2> QED
      BY <1>0, <2>1
  <1>4. ASSUME NEW operator \in Operators, NEW e \in Expr, NEW f \in Expr, BinaryExpr(operator, e, f)
        PROVE  Linked'
    <2>1. CASE ~RuntimeError
      <3>1. AtExpr /\ UNCHANGED <<scopes, fns, status>> /\ \E v : frames' = SetTop([Top EXCEPT !.val = v])
        BY <1>4, <2>1 DEF BinaryExpr
      <3> QED
        BY <3>1, ValueLinked
    <2> QED
      BY <1>0, <2>1
  <1>5. ASSUME FilterEnds
        PROVE  Linked'
    <2> DEFINE v == Val("VAL_ARRAY", 0, 0)
               m == Len(frames) - 1
               f == Given(frames[m], v)
    <2>1. /\ Top.kind = "filter" /\ frames' = Deliver(Front(frames), v) /\ UNCHANGED <<scopes, fns, tbl, status>>
      BY <1>5 DEF FilterEnds
    <2>2. Len(frames) > 1 /\ Sequence(frames) /\ m \in 1..Len(frames)
      BY <2>1, TopIs
    <2> HIDE DEF v
    <2>3. StackTo(m, f)
      BY <2>1, <2>2, DeliverTo
    <2> HIDE DEF m
    <2>4. FrameShape(frames[m])
      BY <2>2 DEF Base, FramesOK, FrameOK
    <2>5. SameLink(f, frames[m])
      BY <2>4, GivenLink
    <2> HIDE DEF f
    <2> QED
      BY <2>1, <2>2, <2>3, <2>5, QuietLinked
  <1> QED
    BY <1>1, <1>2, <1>3, <1>4, <1>5

(* A call and array_filter find their function by a steady search.         *)
LEMMA SteadyPushes ==
  ASSUME Base, Base', Linked, SteadyCalls, status = "running"
  PROVE  /\ \A name, argc : eval_expr_call(name, argc) => Linked'
         /\ \A name, n : array_filter(name, n) => Linked'
  <1>0. RuntimeError => Linked'
    BY DEF RuntimeError, Exit, Linked
  <1>1. ASSUME NEW name, NEW argc, eval_expr_call(name, argc), ~RuntimeError
        PROVE  Linked'
    <2> DEFINE s    == EvalScope
               home == scope_resolve_identifier(scopes, s, name)
               f    == [kind |-> "args", scope |-> s, callee |-> Callee(home, name),
                        argc |-> argc, val |-> IF argc = 0 THEN BLAZE_NULL ELSE NoVal]
    <2>1. /\ AtStatement \/ AtExpr
          /\ CanSearch(s, name) /\ IsFunction(home, name) /\ Steady(s, name)
          /\ frames' = Append(frames, f) /\ UNCHANGED <<scopes, fns, tbl, status>>
      BY <1>1 DEF eval_expr_call, Push
    <2>2. s \in 1..Len(scopes)
      BY <2>1, EvalScopeIs
    <2>3. home # 0
      BY <2>1 DEF IsFunction
    <2> HIDE DEF s
    <2>4. Reaches(scopes, s, home) /\ home \in 1..Len(scopes)
      BY <2>1, <2>2, <2>3, SteadyReaches, ResolveIs
    <2> HIDE DEF home
    <2>5. f.kind = "args" /\ f.scope = s /\ f.callee.scope = home
      BY DEF Callee
    <2> HIDE DEF f
    <2>6. f.kind \notin Own /\ FrameLinked(f, scopes)
      BY <2>4, <2>5 DEF Own, FrameLinked
    <2> QED
      BY <2>1, <2>5, <2>6, PushLinked DEF s
  <1>2. ASSUME NEW name, NEW n, array_filter(name, n), ~RuntimeError
        PROVE  Linked'
    <2> DEFINE s    == EvalScope
               home == scope_resolve_identifier(scopes, s, name)
               fn   == scopes[home].vals[name].value.ref
               f    == [kind |-> "filter", scope |-> s, fn |-> fn, left |-> n, new_scope |-> 0, val |-> NoVal]
    <2>1. /\ AtStatement \/ AtExpr
          /\ CanSearch(s, name) /\ IsFunction(home, name) /\ Steady(s, name)
          /\ frames' = Append(frames, f) /\ UNCHANGED <<scopes, fns, status>>
      BY <1>2 DEF array_filter, Push
    <2>2. s \in 1..Len(scopes)
      BY <2>1, EvalScopeIs
    <2>3. home # 0 /\ home \in 1..Len(scopes) /\ scopes[home].live /\ BindsFn(scopes[home], name)
      BY <2>1, FunctionIs DEF IsFunction
    <2> HIDE DEF s
    <2>4. Reaches(scopes, s, home)
      BY <2>1, <2>2, <2>3, SteadyReaches
    <2> HIDE DEF home
    <2>5. FnAt(scopes, home, name, fn)
      BY <2>3 DEF FnAt
    <2> HIDE DEF fn
    <2>6. f.kind = "filter" /\ f.scope = s /\ f.fn = fn /\ f.new_scope = 0
      OBVIOUS
    <2> HIDE DEF f
    <2>7. f.kind \notin Own /\ FrameLinked(f, scopes)
      BY <2>4, <2>5, <2>6 DEF Own, FrameLinked
    <2> QED
      BY <2>1, <2>6, <2>7, PushLinked DEF s
  <1> QED
    BY <1>0, <1>1, <1>2

LEMMA VarDeclLinked ==
  ASSUME Base, Base', Linked, VarDeclEnds
  PROVE  Linked'
  <1>0. RuntimeError => Linked'
    BY DEF RuntimeError, Exit, Linked
  <1> SUFFICES ASSUME ~RuntimeError PROVE Linked'
    BY <1>0
  <1> DEFINE y == Top.scope
             n == Len(frames)
             m == n - 1
             x == IF scopes[y].kind = "loop" THEN y ELSE 0
             name == Top.name
  <1>1. /\ status = "running" /\ Top.kind = "var_decl" /\ Top.val.type # "VAL_FUNCTION"
        /\ frames' = Front(frames) /\ UNCHANGED <<fns, tbl, status>>
    BY VarDeclBinds
  <1>2. /\ n \in Nat /\ n > 1 /\ m \in 1..n /\ Sequence(frames) /\ n \in 1..n /\ Placed(frames, n, scopes)
        /\ y \in 1..Len(scopes) /\ Top = frames[n]
    BY <1>1, TopIs DEF Top
  <1>3. StackTo(m, frames[m])
    BY <1>1, <1>2, PopTo
  <1>4. PICK const \in BOOLEAN : Written(scopes, scopes', y, name, Binding(Top.val, const))
    BY VarDeclWrites
  <1> DEFINE binding == Binding(Top.val, const)
  <1>5. binding.value.type # "VAL_FUNCTION"
    BY <1>1 DEF Binding
  <1>6. scopes[y].kind = "loop" => frames[m].kind = "loop" /\ frames[m].scope = y
    BY <1>1, <1>2 DEF Placed
  <1>7. y = 0 \/ x = y \/ scopes[y].kind # "loop"
    OBVIOUS
  <1>8. \A k \in 1..(m - 1) : x # 0 /\ frames[k].kind = "filter" => frames[k].scope < x
    <2>1. SUFFICES ASSUME NEW k \in 1..(m - 1), scopes[y].kind = "loop" PROVE frames[k].scope < y
      BY <1>2
    <2>2. k \in 1..n /\ k < m /\ frames[m].kind \in Own
      BY <1>2, <1>6, <2>1 DEF Own
    <2> HIDE DEF m, n, y
    <2>3. frames[k].scope < frames[m].scope
      BY <1>2, <2>2 DEF Base, Nested, n
    <2> QED
      BY <1>6, <2>1, <2>3
  <1>9. ~(x # 0 /\ frames[m].kind = "filter")
    BY <1>6
  <1> HIDE DEF binding, x, y, name
  <1>10. SameTree(scopes, scopes') /\ KeepsFnAt(scopes, scopes', x) /\ FnsLinked(scopes', fns')
    BY <1>1, <1>4, <1>5, <1>7, WrittenLinked DEF binding
  <1>11. SameLink(frames[m], frames[m])
    BY DEF SameLink
  <1>12. m \in 1..Len(frames) /\ status' = "running"
    BY <1>1, <1>2
  <1> HIDE DEF m, n
  <1> QED
    BY <1>1, <1>3, <1>8, <1>9, <1>10, <1>11, <1>12, LinkedStep

(* What is assigned to is no constant, and thus no function.               *)
LEMMA AssignmentFns ==
  ASSUME Base, AssignmentEnds, ~RuntimeError
  PROVE  NoNewFns(scopes, scopes') /\ KeepsFnAt(scopes, scopes', 0)
  <1> DEFINE y == scope_resolve_identifier(scopes, Top.scope, Top.name)
             name == Top.name
             binding == Binding(Top.val, FALSE)
  <1>1. /\ Top.val.type # "VAL_FUNCTION"
        /\ y \in 1..Len(scopes) /\ scopes[y].live /\ name \in Names(scopes[y])
        /\ scopes[y].vals[name].is_const = FALSE
    BY AssignmentBinds
  <1>4. Written(scopes, scopes', y, name, binding)
    BY AssignmentWrites
  <1>5. binding.value.type # "VAL_FUNCTION"
    BY <1>1 DEF Binding
  <1> HIDE DEF y, name, binding
  <1>6. NoNewFns(scopes, scopes') /\ KeepsFnAt(scopes, scopes', y)
    BY <1>4, <1>5, WrittenFns
  <1>7. KeepsFnAt(scopes, scopes', 0)
    <2>1. SUFFICES ASSUME NEW h, NEW n, NEW r, FnAt(scopes, h, n, r), h = y
                   PROVE  FnAt(scopes', h, n, r)
      BY <1>6 DEF KeepsFnAt
    <2>2. BindingOK(scopes[y].vals[n], tbl, Len(fns))
      BY <2>1 DEF Base, ScopesOK, ScopeOK, FnAt, BindsFn
    <2>3. scopes[y].vals[n].is_const = TRUE
      BY <2>1, <2>2 DEF BindingOK, FnAt, BindsFn
    <2>4. n # name
      BY <1>1, <2>3
    <2>5. y # 0 /\ Len(scopes) \in Nat /\ Len(scopes') \in Nat
      BY <1>1, <1>4, SequenceIs DEF Written, Base, ScopesOK
    <2>6. n \in Names(scopes'[y]) /\ scopes'[y].vals[n] = scopes[y].vals[n]
      BY <1>4, <2>1, <2>4, <2>5 DEF Written, FnAt, BindsFn
    <2>7. scopes'[y].live /\ y \in 1..Len(scopes')
      BY <1>1, <1>4, <2>5 DEF Written, Like
    <2> QED
      BY <2>1, <2>6, <2>7 DEF FnAt, BindsFn
  <1> QED
    BY <1>6, <1>7

LEMMA AssignmentLinked ==
  ASSUME Base, Base', Linked, AssignmentEnds
  PROVE  Linked'
  <1>0. RuntimeError => Linked'
    BY DEF RuntimeError, Exit, Linked
  <1> SUFFICES ASSUME ~RuntimeError PROVE Linked'
    BY <1>0
  <1> DEFINE y == scope_resolve_identifier(scopes, Top.scope, Top.name)
             m == Len(frames) - 1
             name == Top.name
             binding == Binding(Top.val, FALSE)
  <1>1. /\ status = "running" /\ Top.kind = "assignment" /\ Top.val.type # "VAL_FUNCTION"
        /\ frames' = Front(frames) /\ UNCHANGED <<fns, tbl, status>>
        /\ y \in 1..Len(scopes) /\ scopes[y].live /\ name \in Names(scopes[y])
        /\ scopes[y].vals[name].is_const = FALSE
    BY AssignmentBinds
  <1>2. m \in 1..Len(frames) /\ Sequence(frames) /\ Len(frames) > 1
    BY <1>1, TopIs
  <1>3. StackTo(m, frames[m])
    BY <1>1, <1>2, PopTo
  <1>4. Written(scopes, scopes', y, name, binding)
    BY AssignmentWrites
  <1> HIDE DEF y, name, binding, m
  <1>6. NoNewFns(scopes, scopes') /\ KeepsFnAt(scopes, scopes', 0)
    BY AssignmentFns
  <1>8. SameTree(scopes, scopes')
    BY <1>4, WrittenTree
  <1>9. FnsLinked(scopes', fns')
    BY <1>1, <1>6, <1>8, FnsLinkedStep DEF NoNewFns, Linked
  <1>10. SameLink(frames[m], frames[m]) /\ status' = "running"
    BY <1>1 DEF SameLink
  <1> QED
    BY <1>1, <1>2, <1>3, <1>6, <1>8, <1>9, <1>10, LinkedStep

LEMMA CallBodyLinked ==
  ASSUME Base, Base', Linked, CallBody
  PROVE  Linked'
  <1>0. RuntimeError => Linked'
    BY DEF RuntimeError, Exit, Linked
  <1> SUFFICES ASSUME ~RuntimeError PROVE Linked'
    BY <1>0
  <1> DEFINE fn   == fns[PointsAt(Top.callee).ref]
             call == [kind |-> "call", scope |-> Top.scope, callee |-> Top.callee, val |-> Top.val]
             y    == fn.scope
             name == fn.param
             binding == Binding(Top.val, TRUE)
             m == Len(frames)
  <1>1. /\ status = "running" /\ Top.kind = "args" /\ Top.val.type # "VAL_FUNCTION"
        /\ scopes[y].kind = "function"
        /\ frames' = SetTop(call) /\ UNCHANGED <<fns, tbl, status>>
    BY CallBodyBinds
  <1>2. \/ Written(scopes, scopes', 0, name, binding)
        \/ Written(scopes, scopes', y, name, binding)
    BY CallBodyWrites
  <1>3. m \in 1..Len(frames) /\ Sequence(frames) /\ m > 0 /\ Top = frames[m]
    BY <1>1, TopIs DEF Top
  <1>4. SameLink(call, Top)
    BY <1>1 DEF SameLink, Own
  <1>5. binding.value.type # "VAL_FUNCTION"
    BY <1>1 DEF Binding
  <1> HIDE DEF call
  <1>6. StackTo(m, call)
    BY <1>1, <1>3, TopTo
  <1> HIDE DEF y, name, binding, m
  <1>7. SameTree(scopes, scopes') /\ KeepsFnAt(scopes, scopes', 0) /\ FnsLinked(scopes', fns')
    BY <1>1, <1>2, <1>5, WrittenLinked
  <1> QED
    BY <1>1, <1>3, <1>4, <1>6, <1>7, LinkedStep

(* What array_filter's callback reaches, array_filter does.                *)
LEMMA FilterLinked ==
  ASSUME Base, Base', Linked, status = "running", Top.kind = "filter",
         SameTree(scopes, scopes'), KeepsFnAt(scopes, scopes', 0),
         NEW f, f.kind = "filter", f.scope = Top.scope, f.fn = Top.fn,
         f.new_scope \in {0, fns[Top.fn].scope}
  PROVE  FrameLinked(f, scopes')
  <1> DEFINE p == Top.scope
             r == Top.fn
             s == fns[r].scope
  <1>1. /\ Len(frames) \in 1..Len(frames) /\ Top = frames[Len(frames)] /\ p \in 1..Len(scopes)
        /\ FrameOK(Top, scopes, tbl, Len(fns))
    BY TopIs DEF Top
  <1>2. r \in 1..Len(fns)
    BY <1>1 DEF FrameOK
  <1>3. s \in 1..Len(scopes)
    BY <1>2, FnScopeIs
  <1>4. FrameLinked(Top, scopes) /\ FnsLinked(scopes, fns)
    BY <1>1 DEF Linked
  <1>5. PICK h, n : FnAt(scopes, h, n, r) /\ Reaches(scopes, p, h)
    BY <1>4 DEF FrameLinked
  <1> HIDE DEF p, r, s
  <1>6. h \in 1..Len(scopes) /\ Reaches(scopes, s, h)
    BY <1>2, <1>4, <1>5 DEF FnsLinked, FnAt, s
  <1>7. Tree(scopes) /\ Len(scopes) \in Nat /\ p \in 0..Len(scopes) /\ h # 0
    BY <1>1, <1>6, TreeOf
  <1>8. Tree(scopes')
    BY SequenceIs DEF Base, ScopesOK, ScopeOK, Tree
  <1>9. Frees(scopes, s) \subseteq Chain(scopes, p)
    <2>1. Chain(scopes, h) \subseteq Chain(scopes, p)
      BY <1>5, <1>7, ChainFacts DEF Reaches
    <2> QED
      BY <1>6, <2>1 DEF Reaches
  <1>10. Frees(scopes', s) \subseteq Chain(scopes', p)
    <2>1. Frees(scopes', s) = Frees(scopes, s)
      BY <1>3, <1>7, <1>8, ChainLater
    <2>2. Chain(scopes', p) = Chain(scopes, p)
      BY <1>1, <1>7, <1>8, ChainLater
    <2> QED
      BY <1>9, <2>1, <2>2
  <1>11. FnAt(scopes', h, n, r) /\ Reaches(scopes', p, h)
    BY <1>1, <1>5, <1>6, <1>7, <1>8, ChainLater DEF KeepsFnAt
  <1>12. f.new_scope # 0 => f.new_scope = s
    BY DEF s, r
  <1>13. f.scope = p /\ f.fn = r
    BY DEF p, r
  <1> QED
    BY <1>10, <1>11, <1>12, <1>13 DEF FrameLinked

LEMMA FilterCallLinked ==
  ASSUME Base, Base', Linked, FilterCall
  PROVE  Linked'
  <1> DEFINE y    == fns[Top.fn].scope
             name == fns[Top.fn].param
             v    == val_copy_deep(Element, tbl).val
             binding == Binding(v, TRUE)
             f    == [Top EXCEPT !.new_scope = y, !.val = v]
             m    == Len(frames)
  <1>1. /\ status = "running" /\ Top.kind = "filter" /\ frames' = SetTop(f) /\ UNCHANGED <<fns, status>>
    BY DEF FilterCall
  <1>2. /\ m \in 1..Len(frames) /\ Sequence(frames) /\ m > 0 /\ Top = frames[m]
        /\ FrameOK(Top, scopes, tbl, Len(fns)) /\ TableOK(tbl)
    BY <1>1, TopIs DEF Top
  <1>3. /\ f.kind = "filter" /\ f.scope = Top.scope /\ f.fn = Top.fn /\ f.new_scope = y
    <2>1. f = FilterFrame(Top.scope, Top.fn, Top.left, y, v)
      <3>1. Top = FilterFrame(Top.scope, Top.fn, Top.left, Top.new_scope, Top.val)
        BY <1>1, <1>2, FilterFrameOf DEF FrameOK
      <3> HIDE DEF y, v
      <3>2. f = Called(Top, y, v)
        BY Zenon DEF Called
      <3> QED
        BY ONLY <3>1, <3>2, CalledIs
    <2> HIDE DEF f
    <2> QED
      BY <2>1, FilterFrameIs
  <1> HIDE DEF f
  <1>4. StackTo(m, f)
    BY <1>1, <1>2, TopTo
  <1>5. binding.value.type # "VAL_FUNCTION"
    <2>1. ValueIn(Element, tbl) /\ Element.type = "VAL_INTEGER"
      BY <1>2, ElementIs
    <2>2. v.type = "VAL_INTEGER"
      BY <1>2, <2>1, CopyDeepIs
    <2> HIDE DEF v
    <2> QED
      BY <2>2 DEF Binding
  <1>6. Top.fn \in 1..Len(fns) /\ scopes[y].kind = "function"
    <2>1. Top.fn \in 1..Len(fns)
      BY <1>1, <1>2 DEF FrameOK
    <2> QED
      BY <1>1, <2>1, FnScopeIs
  <1>7. \/ Written(scopes, scopes', 0, name, binding)
        \/ Written(scopes, scopes', y, name, binding)
    BY FilterCallWrites
  <1> HIDE DEF y, name, binding, v
  <1>8. SameTree(scopes, scopes') /\ KeepsFnAt(scopes, scopes', 0) /\ FnsLinked(scopes', fns')
    BY <1>1, <1>5, <1>6, <1>7, WrittenLinked
  <1>9. FrameLinked(f, scopes')
    BY <1>1, <1>3, <1>8, FilterLinked DEF y
  <1>10. f.scope = frames[m].scope /\ (f.kind \in Own <=> frames[m].kind \in Own)
    BY <1>1, <1>2, <1>3 DEF Own
  <1>11. status' = "running"
    BY <1>1
  <1> HIDE DEF m
  <1> QED
    BY <1>1, <1>2, <1>4, <1>8, <1>9, <1>10, <1>11, LinkedStep

LEMMA FnAtRange ==
  ASSUME Base, NEW h, NEW n, NEW r, FnAt(scopes, h, n, r)
  PROVE  r \in 1..Len(fns) /\ h \in 1..Len(scopes)
  <1>1. BindingOK(scopes[h].vals[n], tbl, Len(fns))
    BY DEF Base, ScopesOK, ScopeOK, FnAt, BindsFn
  <1> QED
    BY <1>1 DEF BindingOK, FnAt, BindsFn

(* A declaration binds a function that nothing was bound to before.        *)
LEMMA FnDeclFns ==
  ASSUME Base, NEW name \in FnName, NEW param \in ParamName \cup {NoName}, eval_fn_decl(name, param), ~RuntimeError
  PROVE  /\ KeepsFnAt(scopes, scopes', 0)
         /\ \A h, n, r : FnAt(scopes', h, n, r) =>
              \/ FnAt(scopes, h, n, r) /\ r \in 1..Len(fns)
              \/ h = EvalScope /\ n = name /\ r = Len(fns) + 1
  <1> DEFINE x == EvalScope
             q == Len(fns) + 1
             binding == Binding(Val("VAL_FUNCTION", 0, q), TRUE)
             k == Len(scopes) + 1
  <1>1. /\ Written(scopes, scopes', x, name, binding) /\ Len(scopes') = k /\ scopes'[k] = NewScope("function", x)
    BY FnDeclWrites
  <1>2. x \in 1..Len(scopes) /\ name \notin Names(scopes[x]) /\ scopes[x].live
    BY FnDeclBinds
  <1>3. Len(scopes) \in Nat /\ x # 0
    BY <1>2, TreeOf
  <1>4. Names(scopes'[k]) = {}
    <2>1. Names(NewScope("function", x)) = {}
      BY NewScopeIs
    <2> QED
      BY <1>1, <2>1
  <1>5. binding.value.ref = q
    BY DEF Binding, Val
  <1> HIDE DEF x, q, binding
  <1>6. /\ Names(scopes'[x]) = Names(scopes[x]) \cup {name}
        /\ scopes'[x].vals[name] = binding
        /\ \A n \in Names(scopes[x]) : n # name => scopes'[x].vals[n] = scopes[x].vals[n]
    BY <1>1, <1>3 DEF Written
  <1>7. \A t \in 1..Len(scopes) : /\ t \in 1..Len(scopes') /\ scopes'[t].live = scopes[t].live
                                  /\ t # x => scopes'[t].vals = scopes[t].vals
    BY <1>1, <1>3 DEF Written, Like
  <1>8. ASSUME NEW h, NEW n, NEW r, FnAt(scopes, h, n, r) PROVE FnAt(scopes', h, n, r)
    <2>1. h \in 1..Len(scopes) /\ scopes[h].live /\ BindsFn(scopes[h], n) /\ scopes[h].vals[n].value.ref = r
      BY <1>8 DEF FnAt
    <2>2. CASE h # x
      BY <1>7, <2>1, <2>2 DEF FnAt, BindsFn, Names
    <2>3. CASE h = x
      <3>1. n \in Names(scopes[x]) /\ n # name
        BY <1>2, <2>1, <2>3 DEF BindsFn, x
      <3> QED
        BY <1>6, <1>7, <2>1, <2>3, <3>1 DEF FnAt, BindsFn
    <2> QED
      BY <2>2, <2>3
  <1>9. ASSUME NEW h, NEW n, NEW r, FnAt(scopes', h, n, r)
        PROVE  FnAt(scopes, h, n, r) \/ (h = x /\ n = name /\ r = q)
    <2>1. /\ h \in 1..Len(scopes') /\ scopes'[h].live /\ BindsFn(scopes'[h], n) /\ scopes'[h].vals[n].value.ref = r
      BY <1>9 DEF FnAt
    <2>2. h # k
      BY <1>4, <2>1 DEF BindsFn
    <2>3. h \in 1..Len(scopes)
      BY <1>1, <1>3, <2>1, <2>2
    <2>4. CASE h # x
      BY <1>7, <2>1, <2>3, <2>4 DEF FnAt, BindsFn, Names
    <2>5. CASE h = x /\ n = name
      BY <1>5, <1>6, <2>1, <2>5
    <2>6. CASE h = x /\ n # name
      <3>1. n \in Names(scopes[x])
        BY <1>6, <2>1, <2>6 DEF BindsFn
      <3> QED
        BY <1>6, <1>7, <2>1, <2>3, <2>6, <3>1 DEF FnAt, BindsFn
    <2> QED
      BY <2>4, <2>5, <2>6
  <1> QED
    BY <1>8, <1>9, FnAtRange DEF KeepsFnAt, x, q

LEMMA FnDeclLinked ==
  ASSUME Base, Base', Linked, NEW name \in FnName, NEW param \in ParamName \cup {NoName}, eval_fn_decl(name, param)
  PROVE  Linked'
  <1>0. RuntimeError => Linked'
    BY DEF RuntimeError, Exit, Linked
  <1> SUFFICES ASSUME ~RuntimeError PROVE Linked'
    BY <1>0
  <1> DEFINE x == EvalScope
             q == Len(fns) + 1
             k == Len(scopes) + 1
             binding == Binding(Val("VAL_FUNCTION", 0, q), TRUE)
  <1>1. /\ AtStatement /\ status = "running" /\ UNCHANGED <<tbl, frames, status>>
        /\ x \in 1..Len(scopes)
        /\ fns'[q] = [scope |-> k, param |-> param] /\ Len(fns') = q
        /\ \A r \in 1..Len(fns) : fns'[r] = fns[r]
    BY FnDeclBinds
  <1>2. /\ Written(scopes, scopes', x, name, binding) /\ Len(scopes') = k
        /\ scopes'[k] = NewScope("function", x)
    BY FnDeclWrites
  <1> HIDE DEF binding
  <1>3. SameTree(scopes, scopes')
    BY <1>2, WrittenTree
  <1>4. /\ KeepsFnAt(scopes, scopes', 0)
        /\ \A h, n, r : FnAt(scopes', h, n, r) =>
             \/ FnAt(scopes, h, n, r) /\ r \in 1..Len(fns)
             \/ h = x /\ n = name /\ r = q
    BY FnDeclFns
  <1>5. Tree(scopes) /\ Len(scopes) \in Nat /\ Len(fns) \in Nat /\ x \in 0..Len(scopes) /\ x # 0
    BY <1>1, TreeOf, TopIs
  <1>6. Tree(scopes')
    BY SequenceIs DEF Base, ScopesOK, ScopeOK, Tree
  <1>7. scopes'[k].kind = "function" /\ scopes'[k].parent = x /\ k \in 1..Len(scopes') /\ x \in 1..Len(scopes')
    BY <1>1, <1>2, <1>5 DEF NewScope
  <1>8. fns'[q].scope = k /\ q \notin 1..Len(fns)
    BY <1>1, <1>5
  <1> HIDE DEF x, q, k
  <1>9. Reaches(scopes', k, x)
    <2>1. x \in 0..Len(scopes')
      BY <1>5, <1>7
    <2>2. x \in Chain(scopes', x)
      BY <1>5, <1>6, <2>1, ChainFacts
    <2>3. Reaches(scopes', x, x)
      BY <2>2 DEF Reaches, Frees
    <2> QED
      BY <1>6, <1>7, <2>3, ReachesOn
  <1>10. FnsLinked(scopes', fns')
    <2>1. ASSUME NEW h, NEW n, NEW r, FnAt(scopes', h, n, r)
          PROVE  /\ Reaches(scopes', fns'[r].scope, h)
                 /\ \A g, m : FnAt(scopes', g, m, r) => g = h /\ m = n
      <3>1. CASE r = q
        BY <1>4, <1>8, <1>9, <2>1, <3>1
      <3>2. CASE r # q
        <4>1. FnAt(scopes, h, n, r) /\ r \in 1..Len(fns)
          BY <1>4, <2>1, <3>2
        <4>2. h \in 1..Len(scopes)
          BY <4>1 DEF FnAt
        <4>3. /\ Reaches(scopes, fns[r].scope, h)
              /\ \A g, m : FnAt(scopes, g, m, r) => g = h /\ m = n
          BY <1>1, <4>1, <4>2 DEF Linked, FnsLinked
        <4>4. fns[r].scope \in 1..Len(scopes)
          BY <4>1 DEF Base, FnsOK, FnOK
        <4>5. Reaches(scopes', fns[r].scope, h)
          BY <1>3, <1>5, <1>6, <4>2, <4>3, <4>4, ChainLater
        <4>6. fns'[r].scope = fns[r].scope
          BY <1>1, <4>1
        <4> QED
          BY <1>4, <3>2, <4>3, <4>5, <4>6
      <3> QED
        BY <3>1, <3>2
    <2> QED
      BY <2>1 DEF FnsLinked
  <1>11. /\ StackTo(Len(frames), Top) /\ Len(frames) \in 1..Len(frames) /\ Top = frames[Len(frames)]
         /\ status' = "running"
    BY <1>1, TopIs, StayTo DEF Top
  <1> DEFINE m == Len(frames)
  <1>12. SameLink(frames[m], frames[m]) /\ m \in 1..Len(frames)
    BY <1>11 DEF SameLink
  <1>13. StackTo(m, frames[m]) /\ KeepsFnAt(scopes, scopes', 0) /\ status = "running"
    BY <1>1, <1>4, <1>11
  <1> HIDE DEF m
  <1> QED
    BY <1>3, <1>10, <1>11, <1>12, <1>13, LinkedStep

(* After a call the function has a new scope, a child of the caller's.     *)
LEMMA NewFnLinked ==
  ASSUME Base, Base', Linked, status = "running", NEW p \in 1..Len(scopes), NEW r \in 1..Len(fns),
         scopes' = scope_init(scopes, "function", p), fns' = [fns EXCEPT ![r].scope = Len(scopes) + 1],
         \E h, n : FnAt(scopes, h, n, r) /\ Reaches(scopes, p, h)
  PROVE  SameTree(scopes, scopes') /\ KeepsFnAt(scopes, scopes', 0) /\ FnsLinked(scopes', fns')
  <1> DEFINE k == Len(scopes) + 1
             binding == Binding(BLAZE_NULL, TRUE)
  <1>1. Tree(scopes) /\ Len(scopes) \in Nat /\ Sequence(fns) /\ DOMAIN fns = 1..Len(fns)
    BY TreeOf, SequenceIs DEF Base, FnsOK
  <1>2. Tree(scopes')
    BY SequenceIs DEF Base, ScopesOK, ScopeOK, Tree
  <1>3. binding.value.type # "VAL_FUNCTION" /\ "function" \in ScopeKind
    BY DEF Binding, BLAZE_NULL, Val, ScopeKind
  <1> HIDE DEF binding
  <1>4. /\ Written(scopes, scopes', 0, NoName, binding)
        /\ Len(scopes') = k /\ scopes'[k] = NewScope("function", p)
    BY <1>3, CallEndsWrites
  <1>5. SameTree(scopes, scopes')
    BY <1>4, WrittenTree
  <1>6. NoNewFns(scopes, scopes') /\ KeepsFnAt(scopes, scopes', 0)
    BY <1>3, <1>4, WrittenFns
  <1>7. fns'[r].scope = k /\ \A q \in 1..Len(fns) : q # r => fns'[q] = fns[q]
    <2>1. fns[r] = [scope |-> fns[r].scope, param |-> fns[r].param]
      BY DEF Base, FnsOK, FnOK
    <2>2. fns' = [fns EXCEPT ![r] = [fns[r] EXCEPT !.scope = k]]
      OBVIOUS
    <2>3. [fns[r] EXCEPT !.scope = k].scope = k
      BY <2>1
    <2> HIDE DEF k
    <2> QED
      BY <1>1, <2>2, <2>3
  <1>8. scopes'[k].kind = "function" /\ scopes'[k].parent = p /\ k \in 1..Len(scopes') /\ p \in 1..Len(scopes')
    BY <1>1, <1>4 DEF NewScope
  <1> HIDE DEF k
  <1>9. ASSUME NEW h, NEW n, NEW q, FnAt(scopes', h, n, q)
        PROVE  /\ FnAt(scopes, h, n, q)
               /\ fns'[q].scope = fns[q].scope \/ Reaches(scopes', fns'[q].scope, h)
    <2>1. FnAt(scopes, h, n, q) /\ q \in 1..Len(fns) /\ h \in 1..Len(scopes)
      BY <1>6, <1>9, FnAtRange DEF NoNewFns
    <2>2. CASE q = r
      <3>1. PICK h0, n0 : FnAt(scopes, h0, n0, r) /\ Reaches(scopes, p, h0)
        OBVIOUS
      <3>2. h0 = h
        BY <2>1, <2>2, <3>1 DEF Linked, FnsLinked
      <3>3. Reaches(scopes', p, h)
        BY <1>1, <1>2, <1>5, <2>1, <3>1, <3>2, ChainLater
      <3>4. Reaches(scopes', k, h)
        BY <1>2, <1>8, <3>3, ReachesOn
      <3> QED
        BY <1>7, <2>1, <2>2, <3>4
    <2>3. CASE q # r
      BY <1>7, <2>1, <2>3
    <2> QED
      BY <2>2, <2>3
  <1>10. FnsLinked(scopes', fns')
    BY <1>5, <1>9, FnsLinkedStep DEF Linked
  <1> QED
    BY <1>5, <1>6, <1>10

LEMMA CallEndsLinked ==
  ASSUME Base, Base', Linked, NEW e \in Expr, CallEnds(e)
  PROVE  Linked'
  <1>0. RuntimeError => Linked'
    BY DEF RuntimeError, Exit, Linked
  <1> SUFFICES ASSUME ~RuntimeError PROVE Linked'
    BY <1>0
  <1> DEFINE v == val_copy_deep(Eval(e, EvalScope).val, Eval(e, EvalScope).tbl).val
             r == PointsAt(Top.callee).ref
             p == Top.scope
             m == Len(frames) - 1
             f == Given(frames[m], v)
  <1>1. /\ AtStatement /\ status = "running" /\ Top.kind = "call" /\ ValidCallee(Top.callee)
        /\ frames' = Deliver(Front(frames), v)
        /\ scopes' = scope_init(scopes, "function", p)
        /\ fns' = [fns EXCEPT ![r].scope = Len(scopes) + 1]
        /\ status' = status
    BY DEF CallEnds, AtStatement
  <1>2. /\ p \in 1..Len(scopes) /\ Len(frames) > 1 /\ Sequence(frames) /\ m \in 1..Len(frames)
        /\ Top = frames[Len(frames)] /\ Len(frames) \in 1..Len(frames)
    BY <1>1, TopIs DEF Top
  <1>3. FnAt(scopes, Top.callee.scope, Top.callee.name, r) /\ r \in 1..Len(fns)
    BY <1>1, <1>2, CalleeAt
  <1>4. Reaches(scopes, p, Top.callee.scope)
    BY <1>1, <1>2 DEF Linked, FrameLinked
  <1> HIDE DEF v, r, p
  <1>5. SameTree(scopes, scopes') /\ KeepsFnAt(scopes, scopes', 0) /\ FnsLinked(scopes', fns')
    BY <1>1, <1>2, <1>3, <1>4, NewFnLinked
  <1>6. StackTo(m, f)
    BY <1>1, <1>2, DeliverTo
  <1> HIDE DEF m
  <1>7. FrameShape(frames[m])
    BY <1>2 DEF Base, FramesOK, FrameOK
  <1>8. SameLink(f, frames[m])
    BY <1>7, GivenLink
  <1> HIDE DEF f
  <1> QED
    BY <1>1, <1>2, <1>5, <1>6, <1>8, LinkedStep

LEMMA FilterCallEndsLinked ==
  ASSUME Base, Base', Linked, NEW e \in Expr, FilterCallEnds(e)
  PROVE  Linked'
  <1>0. RuntimeError => Linked'
    BY DEF RuntimeError, Exit, Linked
  <1> SUFFICES ASSUME ~RuntimeError PROVE Linked'
    BY <1>0
  <1> DEFINE r == Top.fn
             p == Top.scope
             m == Len(frames)
             f == [Top EXCEPT !.left = @ - 1, !.new_scope = 0, !.val = NoVal]
  <1>1. /\ status = "running" /\ Top.kind = "filter"
        /\ frames' = SetTop(f)
        /\ scopes' = scope_init(scopes, "function", p)
        /\ fns' = [fns EXCEPT ![r].scope = Len(scopes) + 1]
        /\ status' = status
    BY DEF FilterCallEnds, AtStatement
  <1>2. /\ p \in 1..Len(scopes) /\ Sequence(frames) /\ m > 0 /\ m \in 1..Len(frames) /\ Top = frames[m]
        /\ FrameOK(Top, scopes, tbl, Len(fns))
    BY <1>1, TopIs DEF Top
  <1>3. r \in 1..Len(fns)
    BY <1>1, <1>2 DEF FrameOK
  <1>4. \E h, n : FnAt(scopes, h, n, r) /\ Reaches(scopes, p, h)
    <2>1. FrameLinked(Top, scopes)
      BY <1>1, <1>2 DEF Linked
    <2> QED
      BY <1>1, <2>1 DEF FrameLinked
  <1>5. f.kind = "filter" /\ f.scope = p /\ f.fn = r /\ f.new_scope = 0
    <2>1. f = FilterFrame(Top.scope, Top.fn, Top.left - 1, 0, NoVal)
      <3>1. Top = FilterFrame(Top.scope, Top.fn, Top.left, Top.new_scope, Top.val)
        BY <1>1, <1>2, FilterFrameOf DEF FrameOK
      <3>2. f = NextElement(Top, Top.left - 1)
        BY Zenon DEF NextElement
      <3> QED
        BY ONLY <3>1, <3>2, NextElementIs
    <2> HIDE DEF f
    <2> QED
      BY <2>1, FilterFrameIs
  <1> HIDE DEF f
  <1>6. StackTo(m, f)
    BY <1>1, <1>2, TopTo
  <1> HIDE DEF m, p, r
  <1>7. SameTree(scopes, scopes') /\ KeepsFnAt(scopes, scopes', 0) /\ FnsLinked(scopes', fns')
    BY <1>1, <1>2, <1>3, <1>4, NewFnLinked
  <1>8. FrameLinked(f, scopes')
    BY <1>1, <1>5, <1>7, FilterLinked DEF p, r
  <1>9. f.scope = frames[m].scope /\ (f.kind \in Own <=> frames[m].kind \in Own)
    BY <1>1, <1>2, <1>5 DEF Own, p
  <1> QED
    BY <1>1, <1>2, <1>6, <1>7, <1>8, <1>9, LinkedStep

(* The scope of a block or a loop is a child of the scope it is in.        *)
LEMMA OwnLinked ==
  ASSUME Base, Base', Linked, AtStatement, UNCHANGED <<fns, status>>,
         NEW sc, FreshScope(sc), sc.parent = EvalScope, sc.kind \in Own, scopes' = Append(scopes, sc),
         NEW f, f.kind \in Own, f.scope = Len(scopes) + 1, frames' = Append(frames, f)
  PROVE  Linked'
  <1> DEFINE k == Len(scopes) + 1
             m == Len(frames) + 1
             binding == Binding(BLAZE_NULL, TRUE)
  <1>1. status = "running" /\ status' = "running"
    BY DEF AtStatement
  <1>2. Tree(scopes) /\ Len(scopes) \in Nat /\ Sequence(frames) /\ Len(frames) \in Nat
        /\ EvalScope \in 1..Len(scopes)
    BY <1>1, TreeOf, TopIs, EvalScopeIs
  <1>3. Tree(scopes')
    BY SequenceIs DEF Base, ScopesOK, ScopeOK, Tree
  <1>4. binding.value.type # "VAL_FUNCTION"
    BY DEF Binding, BLAZE_NULL, Val
  <1> HIDE DEF binding
  <1>5. /\ Written(scopes, scopes', 0, NoName, binding) /\ Len(scopes') = k /\ scopes'[k] = sc
        /\ \A s \in 1..Len(scopes) : scopes'[s] = scopes[s]
    BY AppendWrites
  <1>6. SameTree(scopes, scopes') /\ KeepsFnAt(scopes, scopes', 0) /\ FnsLinked(scopes', fns')
    BY <1>1, <1>4, <1>5, WrittenLinked
  <1>7. StackTo(m, f) /\ m \notin 1..Len(frames)
    BY <1>2, PushTo
  <1>8. Above(frames', m, scopes')
    <2>1. SUFFICES ASSUME NEW t \in Chain(scopes', k), scopes'[t].kind \in Own
                   PROVE  \E j \in 1..m : frames'[j].kind \in Own /\ frames'[j].scope = t
      BY <1>7 DEF Above, StackTo
    <2>2. k \in 1..Len(scopes') /\ m \in 1..m
      BY <1>2, <1>5
    <2>3. Chain(scopes', k) = {k} \cup Chain(scopes', EvalScope)
      <3>1. scopes'[k].parent = EvalScope
        BY <1>5
      <3> HIDE DEF k
      <3>2. Chain(scopes', k) = {k} \cup Chain(scopes', scopes'[k].parent)
        BY <1>3, <2>2, ChainStep
      <3> QED
        BY <3>1, <3>2, Zenon
    <2>4. Chain(scopes', EvalScope) = Chain(scopes, EvalScope) /\ Chain(scopes, EvalScope) \subseteq 1..Len(scopes)
      BY <1>2, <1>3, <1>6, ChainLater
    <2>5. CASE t = k
      BY <1>7, <2>2, <2>5 DEF StackTo
    <2>6. CASE t # k
      <3>1. t \in Chain(scopes, EvalScope) /\ t \in 1..Len(scopes)
        BY <2>1, <2>3, <2>4, <2>6
      <3>2. scopes[t].kind \in Own
        BY <1>5, <2>1, <3>1
      <3>3. PICK j \in 1..Len(frames) : frames[j].kind \in Own /\ frames[j].scope = t
        BY <3>1, <3>2, EvalLinked
      <3>4. j \in 1..m /\ j \in 1..(m - 1)
        BY <1>2
      <3>5. frames'[j] = frames[j]
        BY <1>7, <3>4 DEF StackTo
      <3> QED
        BY <3>3, <3>4, <3>5
    <2> QED
      BY <2>5, <2>6
  <1>9. FrameLinked(f, scopes')
    BY DEF FrameLinked, Own
  <1> HIDE DEF m
  <1> QED
    BY <1>1, <1>6, <1>7, <1>8, <1>9, LinkedStep

LEMMA BlockLinked ==
  ASSUME Base, Base', Linked, eval_block
  PROVE  Linked'
  <1> DEFINE sc == NewScope("block", EvalScope)
             f  == [kind |-> "block", scope |-> Len(scopes) + 1]
  <1>1. /\ AtStatement /\ UNCHANGED <<fns, status>>
        /\ scopes' = Append(scopes, sc) /\ frames' = Append(frames, f)
    BY DEF eval_block, scope_init, Push
  <1>2. FreshScope(sc)
    BY FreshNewScope DEF ScopeKind
  <1>3. sc.parent = EvalScope /\ sc.kind \in Own
    BY DEF NewScope, Own
  <1>4. f.kind \in Own /\ f.scope = Len(scopes) + 1
    BY DEF Own
  <1> HIDE DEF sc, f
  <1> QED
    BY <1>1, <1>2, <1>3, <1>4, OwnLinked

LEMMA LoopLinked ==
  ASSUME Base, Base', Linked, NEW varname \in VarName \cup {NoName}, NEW count \in Nat,
         eval_loop_stmt(varname, count)
  PROVE  Linked'
  <1> DEFINE f == [kind |-> "loop", scope |-> Len(scopes) + 1,
                   counter |-> 0, count |-> count, varname |-> varname]
  <1>1. AtStatement /\ UNCHANGED <<fns, status>> /\ frames' = Append(frames, f)
    BY DEF eval_loop_stmt, Push
  <1>2. PICK sc : FreshScope(sc) /\ sc.kind = "loop" /\ sc.parent = EvalScope /\ scopes' = Append(scopes, sc)
    BY LoopWrites
  <1>3. f.kind \in Own /\ f.scope = Len(scopes) + 1 /\ sc.kind \in Own
    BY <1>2 DEF Own
  <1> HIDE DEF f
  <1> QED
    BY <1>1, <1>2, <1>3, OwnLinked

LEMMA LoopAgainLinked ==
  ASSUME Base, Base', Linked, LoopAgain
  PROVE  Linked'
  <1> DEFINE x == Top.scope
             m == Len(frames)
             n == Top.counter + 1
             f == [Top EXCEPT !.counter = n]
             name == Top.varname
  <1>1. /\ status = "running" /\ status' = "running" /\ Top.kind = "loop" /\ fns' = fns
        /\ frames' = SetTop(f)
    BY DEF LoopAgain
  <1>2. /\ Sequence(frames) /\ m > 0 /\ m \in 1..Len(frames) /\ Top = frames[m]
        /\ FrameOK(Top, scopes, tbl, Len(fns)) /\ m \in Nat
    BY <1>1, TopIs DEF Top
  <1>3. f.kind = "loop" /\ f.scope = x
    <2>1. Top = [kind |-> "loop", scope |-> Top.scope, counter |-> Top.counter, count |-> Top.count,
                 varname |-> Top.varname]
      BY <1>1, <1>2 DEF FrameOK, FrameShape
    <2> QED
      BY <2>1
  <1>4. PICK y \in {0, x}, const \in BOOLEAN : Written(scopes, scopes', y, name, Binding(Counter(n), const))
    BY LoopAgainWrites
  <1> DEFINE binding == Binding(Counter(n), const)
  <1>5. binding.value.type # "VAL_FUNCTION"
    BY DEF Binding, Counter, Val
  <1> HIDE DEF f, binding
  <1>6. StackTo(m, f)
    BY <1>1, <1>2, TopTo
  <1>7. \A k \in 1..(m - 1) : frames[k].scope < x
    <2>1. SUFFICES ASSUME NEW k \in 1..(m - 1) PROVE frames[k].scope < x
      OBVIOUS
    <2>2. k \in 1..Len(frames) /\ k < m /\ frames[m].kind \in Own
      BY <1>1, <1>2 DEF Own
    <2> QED
      BY <1>2, <2>2 DEF Base, Nested
  <1>8. SameLink(f, frames[m])
    BY <1>1, <1>2, <1>3 DEF SameLink, Own
  <1> HIDE DEF m, x, n, name
  <1>9. SameTree(scopes, scopes') /\ KeepsFnAt(scopes, scopes', x) /\ FnsLinked(scopes', fns')
    BY <1>1, <1>4, <1>5, WrittenLinked DEF binding
  <1> QED
    BY <1>1, <1>2, <1>3, <1>6, <1>7, <1>8, <1>9, LinkedStep

(* A scope that is freed bound no function that a frame below may call.    *)
LEMMA FreeTopLinked ==
  ASSUME Base, Base', Linked, status = "running", Top.kind \in Own, FreeTopScope
  PROVE  Linked'
  <1> DEFINE m == Len(frames) - 1
             f == frames[m]
             x == Top.scope
  <1>1. /\ scopes' = scope_free(scopes, x) /\ tbl' = scope_free_values(scopes[x], tbl)
        /\ frames' = Front(frames) /\ UNCHANGED <<fns, status>>
    BY DEF FreeTopScope
  <1>2. Sequence(frames) /\ x \in 1..Len(scopes) /\ Len(frames) > 1 /\ m \in 1..Len(frames) /\ Len(scopes) \in Nat
    BY TopIs DEF Own
  <1>3. /\ Evolves(scopes, scopes') /\ Len(scopes') = Len(scopes) /\ scopes'[x].live = FALSE
        /\ \A t \in 1..Len(scopes) : t # x => scopes'[t] = scopes[t]
    BY <1>1, <1>2, FreedScopes
  <1>4. StackTo(m, f)
    BY <1>1, <1>2, PopTo
  <1>5. \A k \in 1..Len(frames') : frames[k].scope < x
    BY <1>2, <1>3, <1>4, FramesPop
  <1>6. \A k \in 1..m : frames[k].scope < x
    BY <1>4, <1>5 DEF StackTo
  <1> HIDE DEF m, x
  <1>7. KeepsFnAt(scopes, scopes', x) /\ NoNewFns(scopes, scopes')
    BY <1>3 DEF KeepsFnAt, NoNewFns, FnAt
  <1>8. SameTree(scopes, scopes')
    BY <1>3 DEF Evolves
  <1>9. FnsLinked(scopes', fns')
    BY <1>1, <1>7, <1>8, FnsLinkedStep DEF NoNewFns, Linked
  <1>10. m \in 1..m
    BY <1>2
  <1>11. FrameLinked(f, scopes')
    <2>1. SameLink(f, frames[m]) /\ FrameLinked(frames[m], scopes)
      BY <1>2 DEF SameLink, Linked
    <2>2. frames[m].scope < x
      BY <1>6, <1>10
    <2> HIDE DEF f
    <2> QED
      BY <1>2, <1>7, <1>8, <2>1, <2>2, FrameLinkedLater
  <1>12. \A k \in 1..(m - 1) : frames[k].scope < x
    BY <1>6, <1>10
  <1>13. f.scope = frames[m].scope /\ (f.kind \in Own <=> frames[m].kind \in Own) /\ status' = "running"
    BY <1>1
  <1> HIDE DEF f
  <1> QED
    BY <1>2, <1>4, <1>7, <1>8, <1>9, <1>11, <1>12, <1>13, LinkedStep

LEMMA InitLinked ==
  ASSUME Init
  PROVE  Linked
  <1> DEFINE root == [kind |-> "root", scope |-> Global]
             sc   == NewScope("global", 0)
  <1>1. scopes = <<sc>> /\ fns = <<>> /\ frames = <<root>>
    BY DEF Init, scope_create_global
  <1>2. root.kind = "root" /\ root.scope = 1
    BY DEF Global
  <1>3. sc.kind = "global" /\ sc.parent = 0
    BY DEF NewScope
  <1> HIDE DEF root, sc
  <1>4. Len(frames) = 1 /\ frames[1] = root /\ Len(fns) = 0 /\ Len(scopes) = 1 /\ scopes[1] = sc
    BY <1>1
  <1>5. Chain(scopes, 1) = {1}
    <2>1. Tree(scopes)
      BY InitBase, TreeOf
    <2>2. Chain(scopes, 0) = {} /\ Chain(scopes, 1) = {1} \cup Chain(scopes, scopes[1].parent)
      BY <1>4, <2>1, ChainStep
    <2> QED
      BY <1>3, <1>4, <2>2
  <1>6. FrameLinked(root, scopes) /\ Above(frames, 1, scopes)
    BY <1>2, <1>3, <1>4, <1>5 DEF FrameLinked, Above, Own
  <1>7. FnsLinked(scopes, fns)
    BY <1>4 DEF FnsLinked
  <1> QED
    BY <1>4, <1>6, <1>7 DEF Linked

LEMMA NextLinked ==
  ASSUME Base, Base', Linked, SteadyCalls, [Next]_vars
  PROVE  Linked'
  <1>0. LoopCount \subseteq Nat
    BY EvalAssumption
  <1>1. CASE UNCHANGED vars
    BY <1>1 DEF vars, Linked
  <1>2. CASE status # "running" /\ status' # "running"
    BY <1>2 DEF Linked
  <1>3. ASSUME Next, status = "running" PROVE Linked'
    <2>1. CASE \E name \in VarName, is_const \in BOOLEAN : eval_var_decl(name, is_const)
      BY <1>3, <2>1, QuietSteps
    <2>2. CASE \E name \in Name : eval_assignment(name)
      BY <1>3, <2>2, QuietSteps
    <2>3. CASE \E e \in Expr : eval_leaf(e) \/ CallEnds(e) \/ FilterCallEnds(e)
      BY <1>3, <2>3, QuietSteps, CallEndsLinked, FilterCallEndsLinked
    <2>4. CASE \E name \in FnName, n \in FilterCount : array_filter(name, n)
      BY <1>3, <2>4, SteadyPushes
    <2>5. CASE FilterCall \/ FilterEnds
      BY <1>3, <2>5, QuietSteps, FilterCallLinked
    <2>6. CASE \E operator \in Operators, e, f \in Expr : BinaryExpr(operator, e, f)
      BY <1>3, <2>6, QuietSteps
    <2>7. CASE \E name \in FnName, param \in ParamName \cup {NoName} : eval_fn_decl(name, param)
      BY <2>7, FnDeclLinked
    <2>8. CASE \E name \in FnName, argc \in {0, 1} : eval_expr_call(name, argc)
      BY <1>3, <2>8, SteadyPushes
    <2>9. CASE \E name \in VarName \cup {NoName}, count \in LoopCount : eval_loop_stmt(name, count)
      BY <1>0, <2>9, LoopLinked
    <2>10. CASE eval_block
      BY <2>10, BlockLinked
    <2>11. CASE BlockEnds \/ LoopEnds
      BY <1>3, <2>11, FreeTopLinked DEF BlockEnds, LoopEnds, Own
    <2>12. CASE LoopAgain
      BY <2>12, LoopAgainLinked
    <2>13. CASE VarDeclEnds
      BY <2>13, VarDeclLinked
    <2>14. CASE AssignmentEnds
      BY <2>14, AssignmentLinked
    <2>15. CASE CallBody
      BY <2>15, CallBodyLinked
    <2>16. CASE ProgramEnds
      BY <2>16 DEF ProgramEnds, Linked
    <2>17. CASE BuiltinExit \/ CalleeLost
      BY <2>17 DEF BuiltinExit, CalleeLost, Exit, Linked
    <2>18. CASE Terminated
      BY <1>3, <2>18 DEF Terminated
    <2> QED
      BY <1>3, <2>1, <2>2, <2>3, <2>4, <2>5, <2>6, <2>7, <2>8, <2>9, <2>10, <2>11, <2>12, <2>13, <2>14,
         <2>15, <2>16, <2>17, <2>18 DEF Next, Basics, FunctionsAndCalls, LoopsAndOperators
  <1>4. ASSUME Next, status # "running" PROVE status' # "running" \/ UNCHANGED vars
    BY <1>4
       DEF Next, Basics, FunctionsAndCalls, LoopsAndOperators,
       eval_var_decl, eval_assignment, eval_leaf, CallEnds, FilterCallEnds, array_filter,
       FilterCall, FilterEnds, BinaryExpr, eval_fn_decl, eval_expr_call, eval_loop_stmt, eval_block,
       BlockEnds, LoopEnds, LoopAgain, VarDeclEnds, AssignmentEnds, CallBody, ProgramEnds, BuiltinExit,
       CalleeLost, Terminated, AtStatement, AtExpr, HasValue
  <1> QED
    BY <1>1, <1>2, <1>3, <1>4

LEMMA AlwaysLinked ==
  ASSUME SteadyCalls
  PROVE  Spec => []Linked
  <1>1. Init => Linked
    BY InitLinked
  <1>2. Base /\ Base' /\ Linked /\ [Next]_vars => Linked'
    BY NextLinked
  <1> QED
    BY <1>1, <1>2, AlwaysBase, PTL DEF Spec

LEMMA LinkedLives ==
  ASSUME Base, Linked
  PROVE  ChainLive
  <1> SUFFICES ASSUME status = "running", Top.kind = "call" => ValidCallee(Top.callee),
                      NEW s \in Chain(scopes, EvalScope)
               PROVE  scopes[s].live
    BY DEF ChainLive, Live
  <1>1. /\ Len(frames) \in 1..Len(frames) /\ Top = frames[Len(frames)]
        /\ Top.scope \in 1..Len(scopes) /\ Tree(scopes) /\ Len(scopes) \in Nat /\ Held
    BY TopIs, TreeOf DEF Top, Base
  <1>2. scopes[s].kind \in Own => \E j \in 1..Len(frames) : frames[j].kind \in Own /\ frames[j].scope = s
    <2>1. CASE Top.kind \notin {"call", "filter"}
      <3>1. EvalScope = Top.scope
        BY <2>1 DEF EvalScope
      <3> QED
        BY <1>1, <3>1 DEF Linked, Above
    <2>2. CASE Top.kind = "call" \/ (Top.kind = "filter" /\ Top.new_scope # 0)
      <3>1. AtStatement
        BY <2>2 DEF AtStatement
      <3> QED
        BY <3>1, EvalLinked
    <2>3. CASE Top.kind = "filter" /\ Top.new_scope = 0
      <3>1. EvalScope = 0
        BY <2>3 DEF EvalScope
      <3>2. Chain(scopes, 0) = {}
        BY <1>1, ChainStep
      <3> QED
        BY <3>1, <3>2
    <2> QED
      BY <2>1, <2>2, <2>3
  <1>3. s \in 1..Len(scopes)
    <2>1. EvalScope \in 0..Len(scopes)
      <3>1. CASE Top.kind = "filter" /\ Top.new_scope = 0
        BY <1>1, <3>1 DEF EvalScope
      <3>2. CASE Top.kind = "call" \/ (Top.kind = "filter" /\ Top.new_scope # 0)
        <4>1. AtStatement
          BY <3>2 DEF AtStatement
        <4>2. EvalScope \in 1..Len(scopes)
          BY <4>1, EvalScopeIs
        <4> QED
          BY <4>2
      <3>3. CASE Top.kind \notin {"call", "filter"}
        <4>1. EvalScope = Top.scope
          BY <3>3 DEF EvalScope
        <4> QED
          BY <1>1, <4>1
      <3> QED
        BY <3>1, <3>2, <3>3
    <2> DEFINE e == EvalScope
    <2> HIDE DEF e
    <2>2. Chain(scopes, e) \subseteq 1..e /\ e \in 0..Len(scopes)
      BY <1>1, <2>1, ChainFacts DEF e
    <2>3. s \in 1..e
      BY <2>2 DEF e
    <2> QED
      BY <1>1, <2>2, <2>3
  <1> QED
    BY <1>1, <1>2, <1>3 DEF Held

(* Programs whose calls are steady never walk into freed memory: a search  *)
(* or an assignment may walk the whole chain of the scope it starts from,  *)
(* and all of that chain is alive.                                         *)
THEOREM ChainsLive ==
  ASSUME SteadyCalls
  PROVE  Spec => []ChainLive
  <1>3. Base /\ Linked => ChainLive
    BY LinkedLives
  <1> QED
    BY <1>3, AlwaysBase, AlwaysLinked, PTL

(* A program that has stopped has left every call.                         *)
Stopped == status # "running" => Len(frames) <= 1

LEMMA AlwaysStopped == Spec => []Stopped
  <1>1. Init => Stopped
    BY DEF Init, Stopped
  <1>2. ASSUME Base, Stopped, Next PROVE Stopped'
    <2>1. CASE status # "running"
      <3>1. UNCHANGED vars
        BY <1>2, <2>1
           DEF Next, Basics, FunctionsAndCalls, LoopsAndOperators,
           eval_var_decl, eval_assignment, eval_leaf, CallEnds, FilterCallEnds,
           array_filter, FilterCall, FilterEnds, BinaryExpr, eval_fn_decl, eval_expr_call, eval_loop_stmt,
           eval_block, BlockEnds, LoopEnds, LoopAgain, VarDeclEnds, AssignmentEnds, CallBody, ProgramEnds,
           BuiltinExit, CalleeLost, Terminated, AtStatement, AtExpr, HasValue
      <3> QED
        BY <1>2, <3>1 DEF Stopped, vars
    <2>2. CASE status = "running" /\ status' # "running"
      <3>1. Exit \/ ProgramEnds
        <4>1. SUFFICES ASSUME ~Exit, ~ProgramEnds PROVE status' = status
          BY <2>2
        <4>2. \A name \in VarName, is_const \in BOOLEAN : eval_var_decl(name, is_const) => status' = status
          BY DEF eval_var_decl
        <4>3. \A name \in Name : eval_assignment(name) => status' = status
          BY DEF eval_assignment
        <4>4. \A e \in Expr : eval_leaf(e) \/ CallEnds(e) \/ FilterCallEnds(e) => status' = status
          BY <4>1 DEF eval_leaf, CallEnds, FilterCallEnds, RuntimeError
        <4>5. \A name \in FnName, n \in FilterCount : array_filter(name, n) => status' = status
          BY <4>1 DEF array_filter, RuntimeError
        <4>6. FilterCall \/ FilterEnds \/ eval_block \/ BlockEnds \/ LoopAgain \/ LoopEnds => status' = status
          BY DEF FilterCall, FilterEnds, eval_block, BlockEnds, LoopAgain, LoopEnds, FreeTopScope
        <4>7. \A operator \in Operators, e, f \in Expr : BinaryExpr(operator, e, f) => status' = status
          BY <4>1 DEF BinaryExpr, RuntimeError
        <4>8. \A name \in FnName, param \in ParamName \cup {NoName} : eval_fn_decl(name, param) => status' = status
          BY <4>1 DEF eval_fn_decl, RuntimeError
        <4>9. \A name \in FnName, argc \in {0, 1} : eval_expr_call(name, argc) => status' = status
          BY <4>1 DEF eval_expr_call, RuntimeError
        <4>10. \A name \in VarName \cup {NoName}, count \in LoopCount :
                 eval_loop_stmt(name, count) => status' = status
          BY DEF eval_loop_stmt
        <4>11. VarDeclEnds \/ AssignmentEnds \/ CallBody => status' = status
          BY <4>1 DEF VarDeclEnds, AssignmentEnds, CallBody, RuntimeError
        <4>12. BuiltinExit \/ CalleeLost => FALSE
          BY <4>1 DEF BuiltinExit, CalleeLost
        <4>13. Terminated => status' = status
          BY DEF Terminated, vars
        <4> QED
          BY <1>2, <4>1, <4>2, <4>3, <4>4, <4>5, <4>6, <4>7, <4>8, <4>9, <4>10, <4>11, <4>12, <4>13
             DEF Next, Basics, FunctionsAndCalls, LoopsAndOperators
      <3>2. CASE Exit
        BY <3>2, EmptyIs DEF Exit, Stopped
      <3>3. CASE ProgramEnds
        <4>1. Top.kind = "root" /\ frames' = frames
          BY <3>3 DEF ProgramEnds
        <4>2. Placed(frames, Len(frames), scopes) /\ Len(frames) \in Nat
          BY <1>2, <2>2, TopIs
        <4>3. Len(frames) = 1
          BY <4>1, <4>2 DEF Placed, Top
        <4>4. Len(frames') = 1
          BY <4>1, <4>3
        <4> QED
          BY <4>4 DEF Stopped
      <3> QED
        BY <3>1, <3>2, <3>3
    <2> QED
      BY <2>1, <2>2 DEF Stopped
  <1>3. Base /\ Stopped /\ [Next]_vars => Stopped'
    BY <1>2 DEF vars, Stopped
  <1> QED
    BY <1>1, <1>3, AlwaysBase, PTL DEF Spec

-----------------------------------------------------------------------------
(* The pointers that calls keep.  Where the pointer of a frame is from: the *)
(* frame had it before, or it was just obtained.                           *)
CalleeFrom(k) ==
  frames'[k].kind \in {"args", "call"} =>
    \/ /\ k \in 1..Len(frames) /\ frames[k].kind \in {"args", "call"}
       /\ frames'[k].callee = frames[k].callee
    \/ /\ scopes' = scopes
       /\ frames'[k].callee.capacity = scopes[frames'[k].callee.scope].capacity

LEMMA CalleeFromTo ==
  ASSUME Len(frames) \in Nat, NEW m, NEW f, StackTo(m, f),
         f.kind \in {"args", "call"} => m \in 1..Len(frames) /\ SameLink(f, frames[m])
  PROVE  \A k \in 1..Len(frames') : CalleeFrom(k)
  <1>1. m \in Nat /\ Len(frames') = m /\ frames'[m] = f /\ m <= Len(frames) + 1
    BY DEF StackTo
  <1>2. CalleeFrom(m)
    BY <1>1 DEF CalleeFrom, SameLink
  <1>3. ASSUME NEW k \in 1..m, k # m PROVE CalleeFrom(k)
    <2>1. k \in 1..(m - 1) /\ k \in 1..Len(frames)
      BY <1>1, <1>3
    <2>2. frames'[k] = frames[k]
      BY <2>1 DEF StackTo
    <2> QED
      BY <2>1, <2>2 DEF CalleeFrom
  <1> QED
    BY <1>1, <1>2, <1>3

LEMMA CalleesFrom ==
  ASSUME Base, Next, status = "running", status' = "running"
  PROVE  \A k \in 1..Len(frames') : CalleeFrom(k)
  <1> DEFINE From == \A k \in 1..Len(frames') : CalleeFrom(k)
             n == Len(frames)
             below == frames[n - 1]
  <1> SUFFICES From
    OBVIOUS
  <1>1. /\ Sequence(frames) /\ n \in Nat /\ n > 0 /\ n \in 1..n /\ Top = frames[n] /\ FrameShape(Top)
        /\ Top.kind # "root" => n > 1 /\ n - 1 \in 1..n /\ FrameShape(below)
    <2>1. Sequence(frames) /\ n \in Nat \ {0} /\ Top = frames[n] /\ Placed(frames, n, scopes)
      BY TopIs DEF Top
    <2>2. n # 1 => n > 1 /\ n - 1 \in 1..n
      BY <2>1
    <2>3. \A k \in 1..n : FrameShape(frames[k])
      BY DEF Base, FramesOK, FrameOK
    <2> QED
      BY <2>1, <2>2, <2>3 DEF Placed
  <1>2. ~Exit /\ ~RuntimeError
    BY DEF Exit, RuntimeError
  <1>3. ASSUME NEW f, f.kind \notin {"args", "call"}, frames' = Append(frames, f) PROVE From
    <2>1. StackTo(n + 1, f)
      BY <1>1, <1>3, PushTo
    <2> QED
      BY <1>1, <1>3, <2>1, CalleeFromTo
  <1>4. ASSUME NEW f, f.kind \in {"args", "call"} => SameLink(f, Top), frames' = SetTop(f) PROVE From
    <2>1. StackTo(n, f)
      BY <1>1, <1>4, TopTo
    <2> QED
      BY <1>1, <1>4, <2>1, CalleeFromTo
  <1>5. ASSUME NEW v, AtExpr, frames' = SetTop([Top EXCEPT !.val = v]) PROVE From
    <2>1. Given(Top, v) = [Top EXCEPT !.val = v]
      BY <1>5 DEF Given, AtExpr, Waiting
    <2>2. SameLink(Given(Top, v), Top)
      BY <1>1, GivenLink
    <2> QED
      BY <1>4, <1>5, <2>1, <2>2
  <1>6. ASSUME Top.kind # "root", frames' = Front(frames) PROVE From
    <2>1. StackTo(n - 1, below) /\ SameLink(below, below)
      BY <1>1, <1>6, PopTo DEF SameLink
    <2> QED
      BY <1>1, <1>6, <2>1, CalleeFromTo
  <1>7. ASSUME NEW v, Top.kind # "root", frames' = Deliver(Front(frames), v) PROVE From
    <2>1. StackTo(n - 1, Given(below, v)) /\ SameLink(Given(below, v), below)
      BY <1>1, <1>7, DeliverTo, GivenLink
    <2> DEFINE g == Given(below, v)
    <2> HIDE DEF g
    <2>2. StackTo(n - 1, g) /\ (g.kind \in {"args", "call"} => n - 1 \in 1..n /\ SameLink(g, frames[n - 1]))
      BY <1>1, <1>7, <2>1 DEF g
    <2> QED
      BY <1>1, <2>2, CalleeFromTo
  <1>8. ASSUME frames' = frames PROVE From
    <2>1. StackTo(n, Top) /\ SameLink(Top, Top)
      BY <1>1, <1>8, StayTo DEF SameLink
    <2> QED
      BY <1>1, <2>1, CalleeFromTo
  <1> HIDE DEF From
  <1>9. CASE \/ \E name \in VarName, is_const \in BOOLEAN : eval_var_decl(name, is_const)
             \/ \E name \in Name : eval_assignment(name)
             \/ \E name \in FnName, c \in FilterCount : array_filter(name, c)
             \/ \E name \in VarName \cup {NoName}, count \in LoopCount : eval_loop_stmt(name, count)
             \/ eval_block
    <2>1. \E f : f.kind \notin {"args", "call"} /\ frames' = Append(frames, f)
      BY <1>2, <1>9 DEF eval_var_decl, eval_assignment, array_filter, eval_loop_stmt, eval_block, Push
    <2> QED
      BY <1>3, <2>1
  <1>10. CASE \/ \E e \in Expr : eval_leaf(e)
              \/ \E operator \in Operators, e, f \in Expr : BinaryExpr(operator, e, f)
    <2>1. AtExpr /\ \E v : frames' = SetTop([Top EXCEPT !.val = v])
      <3>1. ASSUME NEW e \in Expr, eval_leaf(e) PROVE AtExpr /\ \E v : frames' = SetTop([Top EXCEPT !.val = v])
        BY <1>2, <3>1 DEF eval_leaf
      <3>2. ASSUME NEW operator \in Operators, NEW e \in Expr, NEW f \in Expr, BinaryExpr(operator, e, f)
            PROVE AtExpr /\ \E v : frames' = SetTop([Top EXCEPT !.val = v])
        BY <1>2, <3>2 DEF BinaryExpr
      <3> QED
        BY <1>10, <3>1, <3>2
    <2> QED
      BY <1>5, <2>1
  <1>11. CASE FilterEnds \/ \E e \in Expr : CallEnds(e)
    <2>1. Top.kind # "root" /\ \E v : frames' = Deliver(Front(frames), v)
      BY <1>2, <1>11 DEF FilterEnds, CallEnds
    <2> QED
      BY <1>7, <2>1
  <1>12. CASE FilterCall \/ LoopAgain \/ \E e \in Expr : FilterCallEnds(e)
    <2>1. Top.kind \in {"filter", "loop"}
      BY <1>2, <1>12 DEF FilterCall, FilterCallEnds, LoopAgain
    <2>2. /\ Top.kind = "loop" => \A v : [Top EXCEPT !.counter = v].kind = "loop"
          /\ Top.kind = "filter" => \A l, s, v : [Top EXCEPT !.left = l, !.new_scope = s, !.val = v].kind = "filter"
          /\ Top.kind = "filter" => \A s, v : [Top EXCEPT !.new_scope = s, !.val = v].kind = "filter"
      <3>1. Top.kind = "loop" => Top = [kind |-> "loop", scope |-> Top.scope, counter |-> Top.counter,
                                        count |-> Top.count, varname |-> Top.varname]
        BY <1>1 DEF FrameShape
      <3>2. Top.kind = "filter" => Top = [kind |-> "filter", scope |-> Top.scope, fn |-> Top.fn, left |-> Top.left,
                                          new_scope |-> Top.new_scope, val |-> Top.val]
        BY <1>1 DEF FrameShape
      <3> QED
        BY <3>1, <3>2
    <2>3. \E f : f.kind \in {"filter", "loop"} /\ frames' = SetTop(f)
      <3>1. CASE FilterCall
        <4> DEFINE s == fns[Top.fn].scope
                   v == val_copy_deep(Element, tbl).val
                   f == [Top EXCEPT !.new_scope = s, !.val = v]
        <4>1. Top.kind = "filter" /\ frames' = SetTop(f)
          BY <3>1 DEF FilterCall
        <4> HIDE DEF s, v
        <4>2. f.kind = "filter"
          BY <2>2, <4>1
        <4> HIDE DEF f
        <4> QED
          BY <4>1, <4>2
      <3>2. CASE LoopAgain
        <4> DEFINE v == Top.counter + 1
                   f == [Top EXCEPT !.counter = v]
        <4>1. Top.kind = "loop" /\ frames' = SetTop(f)
          BY <3>2 DEF LoopAgain
        <4> HIDE DEF v
        <4>2. f.kind = "loop"
          BY <2>2, <4>1
        <4> HIDE DEF f
        <4> QED
          BY <4>1, <4>2
      <3>3. ASSUME NEW e \in Expr, FilterCallEnds(e)
            PROVE  \E f : f.kind \in {"filter", "loop"} /\ frames' = SetTop(f)
        <4> DEFINE l == Top.left - 1
                   v == NoVal
                   f == [Top EXCEPT !.left = @ - 1, !.new_scope = 0, !.val = v]
                   g == [Top EXCEPT !.left = l, !.new_scope = 0, !.val = v]
        <4>1. Top.kind = "filter" /\ frames' = SetTop(f)
          BY <1>2, <3>3 DEF FilterCallEnds
        <4>2. f = g
          OBVIOUS
        <4> HIDE DEF v, l
        <4>3. g.kind = "filter"
          BY <2>2, <4>1
        <4> HIDE DEF f, g
        <4> QED
          BY <4>1, <4>2, <4>3
      <3> QED
        BY <1>12, <3>1, <3>2, <3>3
    <2> QED
      BY <1>4, <2>3
  <1>13. CASE VarDeclEnds \/ AssignmentEnds \/ BlockEnds \/ LoopEnds
    <2>1. Top.kind # "root" /\ frames' = Front(frames)
      BY <1>2, <1>13 DEF VarDeclEnds, AssignmentEnds, BlockEnds, LoopEnds, FreeTopScope, HasValue
    <2> QED
      BY <1>6, <2>1
  <1>14. CASE \E name \in FnName, param \in ParamName \cup {NoName} : eval_fn_decl(name, param)
    BY <1>2, <1>8, <1>14 DEF eval_fn_decl
  <1>15. ASSUME NEW name \in FnName, NEW argc \in {0, 1}, eval_expr_call(name, argc) PROVE From
    <2> DEFINE home == scope_resolve_identifier(scopes, EvalScope, name)
               f == [kind |-> "args", scope |-> EvalScope, callee |-> Callee(home, name),
                     argc |-> argc, val |-> IF argc = 0 THEN BLAZE_NULL ELSE NoVal]
    <2>1. frames' = Append(frames, f) /\ scopes' = scopes
      BY <1>2, <1>15 DEF eval_expr_call, Push
    <2>2. f.callee.scope = home /\ f.callee.capacity = scopes[home].capacity
      BY DEF Callee
    <2> HIDE DEF f, home
    <2>3. Len(frames') = n + 1 /\ frames'[n + 1] = f /\ \A k \in 1..n : frames'[k] = frames[k]
      BY <1>1, <2>1, AppendIs
    <2>4. ASSUME NEW k \in 1..(n + 1) PROVE CalleeFrom(k)
      <3>1. CASE k = n + 1
        BY <2>1, <2>2, <2>3, <3>1 DEF CalleeFrom
      <3>2. CASE k # n + 1
        <4>1. k \in 1..n
          BY <1>1, <2>4, <3>2
        <4> QED
          BY <2>3, <4>1 DEF CalleeFrom
      <3> QED
        BY <3>1, <3>2
    <2> QED
      BY <2>3, <2>4 DEF From
  <1>16. CASE CallBody
    <2> DEFINE call == [kind |-> "call", scope |-> Top.scope, callee |-> Top.callee, val |-> Top.val]
    <2>1. Top.kind = "args" /\ frames' = SetTop(call)
      BY <1>2, <1>16 DEF CallBody, HasValue
    <2>2. SameLink(call, Top)
      BY <2>1 DEF SameLink, Own
    <2> HIDE DEF call
    <2> QED
      BY <1>4, <2>1, <2>2
  <1>17. ~ProgramEnds /\ ~BuiltinExit /\ ~CalleeLost
    BY <1>2 DEF ProgramEnds, BuiltinExit, CalleeLost
  <1>18. CASE Terminated
    BY <1>8, <1>18 DEF Terminated, vars
  <1>19. CASE \E e \in Expr : eval_leaf(e) \/ CallEnds(e) \/ FilterCallEnds(e)
    <2>1. \/ \E e \in Expr : eval_leaf(e)
          \/ \E e \in Expr : CallEnds(e)
          \/ \E e \in Expr : FilterCallEnds(e)
      BY <1>19
    <2> QED
      BY <1>10, <1>11, <1>12, <2>1
  <1>20. CASE \E name \in FnName, argc \in {0, 1} : eval_expr_call(name, argc)
    BY <1>15, <1>20
  <1> QED
    BY <1>9, <1>10, <1>11, <1>12, <1>13, <1>14, <1>16, <1>17, <1>18, <1>19, <1>20, Zenon
       DEF Next, Basics, FunctionsAndCalls, LoopsAndOperators

(* The scope that a call found its function in lives.                      *)
Homes ==
  \A k \in 1..Len(frames) : frames[k].kind \in {"args", "call"} =>
    status = "running" /\ frames[k].callee.scope \in 1..Len(scopes) /\ scopes[frames[k].callee.scope].live

LEMMA HomesLive ==
  ASSUME Base, Linked, Stopped
  PROVE  Homes
  <1> SUFFICES ASSUME NEW k \in 1..Len(frames), frames[k].kind \in {"args", "call"}
               PROVE  /\ status = "running" /\ frames[k].callee.scope \in 1..Len(scopes)
                      /\ scopes[frames[k].callee.scope].live
    BY DEF Homes
  <1> DEFINE f == frames[k]
             h == f.callee.scope
  <1>0. f.scope \in 1..Len(scopes) /\ Tree(scopes) /\ Len(scopes) \in Nat
    BY TreeOf DEF Base, FramesOK, FrameOK
  <1>1. f.scope \in 1..Len(scopes) /\ Tree(scopes) /\ Len(scopes) \in Nat /\ f.scope \in 0..Len(scopes)
    <2> HIDE DEF f
    <2> QED
      BY <1>0
  <1>2. Len(frames) \in Nat
    BY SequenceIs DEF Base, FramesOK
  <1>3. status = "running"
    <2>1. k # 1
      BY DEF Base, FramesOK, Placed
    <2> QED
      BY <1>2, <2>1 DEF Stopped
  <1>4. Reaches(scopes, f.scope, h) /\ Above(frames, k, scopes) /\ Held
    BY <1>3 DEF Linked, FrameLinked, Base
  <1>5. h \in 1..Len(scopes) /\ h \in Chain(scopes, f.scope)
    <2>1. h \in Chain(scopes, f.scope) /\ Chain(scopes, f.scope) \subseteq 1..f.scope
      BY <1>1, <1>4, ChainFacts DEF Reaches
    <2> HIDE DEF h, f
    <2> QED
      BY <1>1, <2>1
  <1>6. scopes[h].live
    <2>1. CASE scopes[h].kind \in Own
      <3>1. PICK j \in 1..k : frames[j].kind \in Own /\ frames[j].scope = h
        BY <1>4, <1>5, <2>1 DEF Above
      <3>2. j \in 1..Len(frames)
        BY <1>2
      <3> QED
        BY <1>4, <3>1, <3>2 DEF Held
    <2> QED
      BY <1>4, <1>5, <2>1 DEF Held
  <1> QED
    BY <1>3, <1>5, <1>6

(* The pointer of a frame is good, or the table is nearly full.            *)
GoodOrFull(callee, ss) ==
  /\ callee.capacity \in Nat
  /\ \/ ss[callee.scope].capacity = callee.capacity
     \/ 5 * Elements(ss[callee.scope]) >= 4 * callee.capacity

Callees ==
  \A k \in 1..Len(frames) : frames[k].kind \in {"args", "call"} => GoodOrFull(frames[k].callee, scopes)

LEMMA NextCallees ==
  ASSUME Base, Base', Homes, Homes', Capacities, Callees, Next
  PROVE  Callees'
  <1> SUFFICES ASSUME NEW k \in 1..Len(frames'), frames'[k].kind \in {"args", "call"}
               PROVE  GoodOrFull(frames'[k].callee, scopes')
    BY DEF Callees
  <1> DEFINE c == frames'[k].callee
  <1>1. status' = "running" /\ c.scope \in 1..Len(scopes') /\ scopes'[c.scope].live
    BY DEF Homes
  <1>2. CASE status = "running"
    <2>1. CalleeFrom(k)
      BY <1>1, <1>2, CalleesFrom
    <2>2. CASE /\ k \in 1..Len(frames) /\ frames[k].kind \in {"args", "call"}
               /\ c = frames[k].callee
      <3>1. GoodOrFull(c, scopes) /\ c.scope \in 1..Len(scopes)
        BY <2>2 DEF Callees, Homes
      <3> HIDE DEF c
      <3> DEFINE a == scopes[c.scope]
                 b == scopes'[c.scope]
      <3>2. Fuller(a, b)
        BY <1>1, <3>1, NextFills
      <3> HIDE DEF a, b
      <3>3. Elements(a) \in Nat /\ Elements(b) \in Nat /\ Elements(a) <= Elements(b) /\ c.capacity \in Nat
        BY <3>1, <3>2 DEF Fuller, GoodOrFull
      <3>4. b.capacity = c.capacity \/ 5 * Elements(a) >= 4 * c.capacity
        BY <3>1, <3>2 DEF Fuller, GoodOrFull, a
      <3>5. b.capacity = c.capacity \/ 5 * Elements(b) >= 4 * c.capacity
        BY <3>3, <3>4
      <3> QED
        BY <3>3, <3>5 DEF GoodOrFull, b, c
    <2>3. CASE scopes' = scopes /\ c.capacity = scopes[c.scope].capacity
      BY <1>1, <2>3 DEF GoodOrFull, Capacities
    <2> QED
      BY <2>1, <2>2, <2>3 DEF CalleeFrom
  <1>3. CASE status # "running"
    <2>1. UNCHANGED vars
      BY <1>1, <1>3
         DEF Next, Basics, FunctionsAndCalls, LoopsAndOperators,
         eval_var_decl, eval_assignment, eval_leaf, CallEnds, FilterCallEnds, array_filter,
         FilterCall, FilterEnds, BinaryExpr, eval_fn_decl, eval_expr_call, eval_loop_stmt, eval_block,
         BlockEnds, LoopEnds, LoopAgain, VarDeclEnds, AssignmentEnds, CallBody, ProgramEnds, BuiltinExit,
         CalleeLost, Terminated, AtStatement, AtExpr, HasValue
    <2> QED
      BY <1>1, <1>3, <2>1 DEF vars
  <1> QED
    BY <1>2, <1>3

LEMMA AlwaysCallees ==
  ASSUME SteadyCalls
  PROVE  Spec => []Callees
  <1>1. Init => Callees
    BY DEF Init, Callees
  <1>2. Base /\ Base' /\ Homes /\ Homes' /\ Capacities /\ Callees /\ [Next]_vars => Callees'
    <2>1. UNCHANGED vars /\ Callees => Callees'
      BY DEF vars, Callees, GoodOrFull
    <2> QED
      BY <2>1, NextCallees
  <1>3. Base /\ Linked /\ Stopped => Homes
    BY HomesLive
  <1> QED
    BY <1>1, <1>2, <1>3, AlwaysBase, AlwaysLinked, AlwaysStopped, AlwaysCapacities, PTL DEF Spec

(* The pointer that eval_expr_call keeps to its function dangles only      *)
(* because the table it points into grew: the scope of the table lives     *)
(* until the call is over, and the table grows only when it is four fifths *)
(* full.                                                                   *)
THEOREM CalleesStay ==
  ASSUME SteadyCalls
  PROVE  Spec => []CalleeKept
  <1>1. ASSUME Base, Linked, Stopped, Callees PROVE CalleeKept
    <2>1. DOMAIN frames = 1..Len(frames)
      BY <1>1, SequenceIs DEF Base, FramesOK
    <2> QED
      BY <1>1, <2>1, HomesLive DEF CalleeKept, Callees, Homes, GoodOrFull
  <1> QED
    BY <1>1, AlwaysBase, AlwaysLinked, AlwaysStopped, AlwaysCallees, PTL

-----------------------------------------------------------------------------
(* The functions that run.  A frame is an activation of function g: a call *)
(* whose pointer leads to g, or array_filter while its callback g runs.    *)
ActiveOf(f, ss, g) ==
  \/ f.kind = "call" /\ FnAt(ss, f.callee.scope, f.callee.name, g)
  \/ f.kind = "filter" /\ f.new_scope # 0 /\ f.fn = g

IsActive(g) == \E k \in 1..Len(frames) : ActiveOf(frames[k], scopes, g)

(* The parameter is bound, in the function's scope, to the activation's    *)
(* argument or element.                                                    *)
BoundTo(f, fn, ss) ==
  fn.param # NoName =>
    /\ f.kind = "filter" => f.new_scope = fn.scope
    /\ fn.param \in Names(ss[fn.scope])
    /\ ss[fn.scope].vals[fn.param] = Binding(f.val, TRUE)

(* Functions do not share scopes; what is bound there was bound by an      *)
(* activation; and only inside an activation is anything evaluated there.  *)
OwnScopes == \A g, h \in 1..Len(fns) : g # h => fns[g].scope # fns[h].scope
EmptyAtRest == \A g \in 1..Len(fns) : ~IsActive(g) => Names(scopes[fns[g].scope]) = {}
InsideOnly ==
  \A k \in 1..Len(frames), g \in 1..Len(fns) : frames[k].scope = fns[g].scope =>
    \E j \in 1..(k - 1) : ActiveOf(frames[j], scopes, g)
CallbackScope ==
  \A k \in 1..Len(frames), g \in 1..Len(fns) :
    frames[k].kind = "filter" /\ frames[k].new_scope = fns[g].scope => g = frames[k].fn

(* The parameter of every activation is bound, so that a function with a   *)
(* parameter has no second one, and array_filter's callback runs once.     *)
ParamBound ==
  \A k \in 1..Len(frames), g \in 1..Len(fns) :
    ActiveOf(frames[k], scopes, g) => BoundTo(frames[k], fns[g], scopes)
NotTwice ==
  \A j, k \in 1..Len(frames), g \in 1..Len(fns) :
    j # k /\ ActiveOf(frames[j], scopes, g) /\ ActiveOf(frames[k], scopes, g) => fns[g].param = NoName
CallbackOnce ==
  \A j, k \in 1..Len(frames) :
    j < k /\ frames[k].kind = "filter" => ~ActiveOf(frames[j], scopes, frames[k].fn)

RunInv ==
  status = "running" =>
    /\ OwnScopes /\ EmptyAtRest /\ InsideOnly /\ CallbackScope
    /\ ParamBound /\ NotTwice /\ CallbackOnce

(* While calls are steady the scope that binds the function of a call      *)
(* lives as long as the call.                                              *)
LEMMA CalleeBound ==
  ASSUME Base, Linked, status = "running", NEW k \in 1..Len(frames), frames[k].kind \in {"args", "call"}
  PROVE  /\ frames[k].callee.scope \in 1..frames[k].scope
         /\ \E r \in 1..Len(fns) : FnAt(scopes, frames[k].callee.scope, frames[k].callee.name, r)
  <1> DEFINE f == frames[k]
             h == f.callee.scope
  <1>1. /\ f.scope \in 1..Len(scopes) /\ Tree(scopes) /\ Len(scopes) \in Nat /\ f.scope \in 0..Len(scopes)
        /\ FrameOK(f, scopes, tbl, Len(fns))
    BY TreeOf DEF Base, FramesOK, FrameOK
  <1>2. Reaches(scopes, f.scope, h) /\ Above(frames, k, scopes) /\ Held
    BY DEF Linked, FrameLinked, Base
  <1>3. h \in 1..f.scope /\ h \in Chain(scopes, f.scope)
    BY <1>1, <1>2 DEF FrameOK, Reaches
  <1>4. h \in 1..Len(scopes)
    <2> HIDE DEF h, f
    <2> QED
      BY <1>1, <1>3
  <1>5. scopes[h].live
    <2>1. CASE scopes[h].kind \in Own
      <3>1. PICK j \in 1..k : frames[j].kind \in Own /\ frames[j].scope = h
        BY <1>2, <1>3, <2>1 DEF Above
      <3>2. j \in 1..Len(frames)
        BY SequenceIs DEF Base, FramesOK
      <3> QED
        BY <1>2, <3>1, <3>2 DEF Held
    <2> QED
      BY <1>2, <1>4, <2>1 DEF Held
  <1>6. BindsFn(scopes[h], f.callee.name)
    BY <1>1, <1>5 DEF FrameOK
  <1> DEFINE r == scopes[h].vals[f.callee.name].value.ref
  <1>7. FnAt(scopes, h, f.callee.name, r)
    BY <1>4, <1>5, <1>6 DEF FnAt
  <1>8. r \in 1..Len(fns)
    BY <1>7, FnAtRange
  <1> QED
    BY <1>3, <1>7, <1>8

LEMMA ActiveRange ==
  ASSUME Base, NEW k \in 1..Len(frames), NEW g, ActiveOf(frames[k], scopes, g)
  PROVE  g \in 1..Len(fns)
  BY FnAtRange DEF ActiveOf, Base, FramesOK, FrameOK

(* An activation stays one of the same function.                           *)
LEMMA ActiveLater ==
  ASSUME Base, Linked, status = "running", NEW x, KeepsFnAt(scopes, scopes', x), NEW k \in 1..Len(frames),
         frames[k].kind = "call" => frames[k].callee.scope # x
  PROVE  \A g : ActiveOf(frames[k], scopes', g) <=> ActiveOf(frames[k], scopes, g)
  <1>1. CASE frames[k].kind # "call"
    BY <1>1 DEF ActiveOf
  <1>2. CASE frames[k].kind = "call"
    <2> DEFINE h == frames[k].callee.scope
               n == frames[k].callee.name
    <2>1. PICK r : FnAt(scopes, h, n, r)
      BY <1>2, CalleeBound
    <2>2. FnAt(scopes', h, n, r)
      BY <1>2, <2>1 DEF KeepsFnAt
    <2>3. \A g : (FnAt(scopes, h, n, g) => g = r) /\ (FnAt(scopes', h, n, g) => g = r)
      BY <2>1, <2>2 DEF FnAt
    <2> HIDE DEF h, n
    <2>4. \A g : FnAt(scopes', h, n, g) <=> FnAt(scopes, h, n, g)
      BY <2>1, <2>2, <2>3
    <2> QED
      BY <1>2, <2>4 DEF ActiveOf, h, n
  <1> QED
    BY <1>1, <1>2

(* What is evaluated in a function's scope, the function runs.             *)
LEMMA EvalActive ==
  ASSUME Base, Linked, RunInv, AtStatement \/ AtExpr, NEW g \in 1..Len(fns), fns[g].scope = EvalScope
  PROVE  IsActive(g)
  <1>0. status = "running"
    BY DEF AtStatement, AtExpr
  <1>1. /\ Len(frames) \in Nat \ {0} /\ Len(frames) \in 1..Len(frames) /\ Top = frames[Len(frames)]
        /\ 1..(Len(frames) - 1) \subseteq 1..Len(frames)
    BY <1>0, TopIs DEF Top
  <1>2. CASE Top.kind \notin {"call", "filter"}
    <2>1. frames[Len(frames)].scope = fns[g].scope
      BY <1>1, <1>2 DEF EvalScope
    <2>2. \E j \in 1..(Len(frames) - 1) : ActiveOf(frames[j], scopes, g)
      BY <1>0, <1>1, <2>1 DEF RunInv, InsideOnly
    <2> QED
      BY <1>1, <2>2 DEF IsActive
  <1>3. CASE Top.kind = "call"
    <2> DEFINE r == PointsAt(Top.callee).ref
    <2>1. ValidCallee(Top.callee)
      BY <1>3 DEF AtStatement, AtExpr
    <2>2. FnAt(scopes, Top.callee.scope, Top.callee.name, r) /\ r \in 1..Len(fns)
      BY <1>0, <1>1, <1>3, <2>1, CalleeAt
    <2>3. EvalScope = fns[r].scope
      BY <1>3 DEF EvalScope
    <2> HIDE DEF r
    <2>4. r = g
      BY <1>0, <2>2, <2>3 DEF RunInv, OwnScopes
    <2> QED
      BY <1>1, <1>3, <2>2, <2>4 DEF IsActive, ActiveOf
  <1>4. CASE Top.kind = "filter"
    <2>1. Top.new_scope # 0 /\ EvalScope = Top.new_scope
      BY <1>4 DEF AtStatement, AtExpr, EvalScope
    <2>2. g = Top.fn
      BY <1>0, <1>1, <1>4, <2>1 DEF RunInv, CallbackScope
    <2> QED
      BY <1>1, <1>4, <2>1, <2>2 DEF IsActive, ActiveOf
  <1> QED
    BY <1>2, <1>3, <1>4

(* Names stay bound, and constants stay what they are.                     *)
KeptIn(a, b) ==
  \A n \in Names(a) : n \in Names(b) /\ (a.vals[n].is_const = TRUE => b.vals[n] = a.vals[n])

(* What a step does to the functions: function q, and no other, gets a     *)
(* scope that is new, or is declared.                                      *)
FnsMove(q) ==
  /\ \A g \in 1..Len(fns') : g # q => g \in 1..Len(fns) /\ fns'[g] = fns[g]
  /\ q \in 1..Len(fns') => fns'[q].scope > Len(scopes) /\ Names(scopes'[fns'[q].scope]) = {}
  /\ q \in 1..Len(fns) => fns'[q].param = fns[q].param

(* Only in the scope of a function that runs, or starts to run as r does,  *)
(* is a name bound.                                                        *)
BindsMove(q, r) ==
  \A g \in 1..Len(fns) : g # q =>
    /\ KeptIn(scopes[fns[g].scope], scopes'[fns[g].scope])
    /\ g # r /\ ~IsActive(g) => Names(scopes'[fns[g].scope]) \subseteq Names(scopes[fns[g].scope])

(* The frame f on top afterwards, at m: the one that was there, or one     *)
(* that is no activation, or one that starts to be an activation of r.     *)
SameFrame(m, f, x) ==
  m \in 1..Len(frames) /\ f = frames[m] /\ (f.kind = "call" => f.callee.scope # x)
Starts(m, f, q, r) ==
  /\ m \in 1..Len(frames) /\ q \notin 1..Len(fns') /\ r \in 1..Len(fns)
  /\ \A g : ~ActiveOf(frames[m], scopes, g) /\ (ActiveOf(f, scopes', g) <=> g = r)
  /\ f.kind = "filter" => f.fn = r /\ f.new_scope = fns[r].scope
  /\ BoundTo(f, fns[r], scopes')
  /\ fns[r].param # NoName => ~IsActive(r)
NoActivation(f) ==
  f.kind # "call" /\ (f.kind = "filter" => f.new_scope = 0)

TopMove(m, f, x, q, r) ==
  /\ \/ SameFrame(m, f, x) /\ r = 0
     \/ NoActivation(f) /\ r = 0
     \/ Starts(m, f, q, r)
  /\ m \in 1..Len(frames) =>
       /\ f.scope = frames[m].scope
       /\ f.kind = "filter" => frames[m].kind = "filter" /\ f.fn = frames[m].fn
  /\ m \notin 1..Len(frames) =>
       /\ \A g \in 1..Len(fns) : f.scope = fns[g].scope => IsActive(g)
       /\ f.kind = "filter" => ~IsActive(f.fn)
       /\ q \notin 1..Len(fns')

(* The activations that end are those of q, and then its scope is new.     *)
Ends(m, f, q) ==
  /\ \A k \in 1..Len(frames), g \in 1..Len(fns) :
       k >= m /\ ActiveOf(frames[k], scopes, g) => g = q \/ (k = m /\ f = frames[m])
  /\ q \in 1..Len(fns) => ActiveOf(Top, scopes, q) /\ (m < Len(frames) \/ NoActivation(f))

LEMMA RunStep ==
  ASSUME Base, Base', Linked, RunInv, status = "running", status' = "running",
         NEW x, KeepsFnAt(scopes, scopes', x), NEW m, NEW f, StackTo(m, f),
         \A k \in 1..Len(frames) : k < m /\ frames[k].kind = "call" => frames[k].callee.scope # x,
         NEW q, NEW r, FnsMove(q), Len(fns) <= Len(fns'), BindsMove(q, r), TopMove(m, f, x, q, r), Ends(m, f, q)
  PROVE  RunInv'
  <1>1. /\ Len(frames) \in Nat \ {0} /\ Len(scopes) \in Nat /\ Len(fns) \in Nat /\ Len(fns') \in Nat
        /\ m \in Nat /\ m >= 1 /\ m <= Len(frames) + 1 /\ Len(frames') = m /\ frames'[m] = f
        /\ Top = frames[Len(frames)] /\ Len(frames) \in 1..Len(frames)
    BY TopIs, SequenceIs DEF StackTo, Base, FnsOK, Top
  <1>2. /\ OwnScopes /\ EmptyAtRest /\ InsideOnly /\ CallbackScope /\ ParamBound /\ NotTwice /\ CallbackOnce
    BY DEF RunInv
  <1>3. ASSUME NEW k \in 1..Len(frames), k < m
        PROVE  /\ k \in 1..Len(frames') /\ frames'[k] = frames[k]
               /\ \A g : ActiveOf(frames'[k], scopes', g) <=> ActiveOf(frames[k], scopes, g)
    <2>1. k \in 1..(m - 1) /\ k \in 1..m
      BY <1>1, <1>3
    <2>2. frames'[k] = frames[k]
      BY <2>1 DEF StackTo
    <2>3. \A g : ActiveOf(frames[k], scopes', g) <=> ActiveOf(frames[k], scopes, g)
      BY <1>3, ActiveLater
    <2> QED
      BY <1>1, <2>1, <2>2, <2>3
  <1>4. SameFrame(m, f, x) =>
          /\ m \in 1..Len(frames) /\ f = frames[m]
          /\ \A g : ActiveOf(f, scopes', g) <=> ActiveOf(frames[m], scopes, g)
    BY ActiveLater DEF SameFrame
  <1>5. NoActivation(f) => \A g : ~ActiveOf(f, scopes', g)
    BY DEF NoActivation, ActiveOf
  <1>6. \A k \in 1..Len(frames) : \A g : ActiveOf(frames[k], scopes, g) => g \in 1..Len(fns)
    BY ActiveRange
  <1>7. \A g \in 1..Len(fns) : fns[g].scope \in 1..Len(scopes)
    BY DEF Base, FnsOK, FnOK
  <1>8. /\ \A k \in 1..Len(frames) : frames[k].scope \in 1..Len(scopes)
        /\ \A k \in 1..Len(frames) : frames[k].kind = "filter" => frames[k].new_scope \in 0..Len(scopes)
    BY DEF Base, FramesOK, FrameOK
  <1>9. q \in 1..Len(fns') => fns'[q].scope > Len(scopes)
    BY DEF FnsMove
  <1>10. \A g \in 1..Len(fns) : q # g => g \in 1..Len(fns') /\ fns'[g] = fns[g]
    BY <1>1 DEF FnsMove
  <1>11. \A g \in 1..Len(fns') : fns'[g].scope # 0
    <2>1. \A g \in 1..Len(fns') : fns'[g].scope \in 1..Len(scopes')
      BY DEF Base, FnsOK, FnOK
    <2> QED
      BY <2>1
  (* An activation after the step was one before, or starts with it.       *)
  <1>12. ASSUME NEW k \in 1..Len(frames'), NEW g, ActiveOf(frames'[k], scopes', g)
         PROVE  \/ k \in 1..Len(frames) /\ frames'[k] = frames[k] /\ ActiveOf(frames[k], scopes, g)
                   /\ (k < m \/ SameFrame(m, f, x))
                \/ k = m /\ Starts(m, f, q, r) /\ g = r
    <2>1. CASE k < m
      <3>1. k \in 1..Len(frames)
        BY <1>1, <2>1
      <3> QED
        BY <1>3, <1>12, <2>1, <3>1
    <2>2. CASE k = m
      BY <1>1, <1>4, <1>5, <1>12, <2>2 DEF TopMove, Starts
    <2> QED
      BY <1>1, <2>1, <2>2
  <1>13. ASSUME NEW k \in 1..Len(frames), NEW g, ActiveOf(frames[k], scopes, g), g # q
         PROVE  k \in 1..Len(frames') /\ frames'[k] = frames[k] /\ ActiveOf(frames'[k], scopes', g)
    <2>1. CASE k < m
      BY <1>3, <1>13, <2>1
    <2>2. CASE k >= m
      <3>1. k = m /\ f = frames[m]
        BY <1>6, <1>13, <2>2 DEF Ends
      <3>2. ~NoActivation(f)
        BY <1>13, <3>1 DEF NoActivation, ActiveOf
      <3>3. k \in 1..Len(frames') /\ frames'[k] = f
        BY <1>1, <3>1
      <3>4. SameFrame(m, f, x) => ActiveOf(f, scopes', g)
        BY <1>4, <1>13, <3>1
      <3>5. ~Starts(m, f, q, r)
        BY <1>13, <3>1 DEF Starts
      <3> QED
        BY <3>1, <3>2, <3>3, <3>4, <3>5 DEF TopMove
    <2> QED
      BY <1>1, <2>1, <2>2
  <1>14. OwnScopes'
    <2>1. SUFFICES ASSUME NEW g \in 1..Len(fns'), NEW h \in 1..Len(fns'), g # h PROVE fns'[g].scope # fns'[h].scope
      BY DEF OwnScopes
    <2>2. \A k \in 1..Len(fns') : k # q => k \in 1..Len(fns) /\ fns'[k] = fns[k]
      BY DEF FnsMove
    <2>3. CASE g # q /\ h # q
      BY <1>2, <2>1, <2>2, <2>3 DEF OwnScopes
    <2>4. CASE g = q
      <3>1. fns'[g].scope > Len(scopes) /\ fns'[h].scope \in 1..Len(scopes)
        BY <1>7, <1>9, <2>1, <2>2, <2>4
      <3> QED
        BY <1>1, <3>1
    <2>5. CASE h = q
      <3>1. fns'[h].scope > Len(scopes) /\ fns'[g].scope \in 1..Len(scopes)
        BY <1>7, <1>9, <2>1, <2>2, <2>5
      <3> QED
        BY <1>1, <3>1
    <2> QED
      BY <2>3, <2>4, <2>5
  <1>15. EmptyAtRest'
    <2>1. SUFFICES ASSUME NEW g \in 1..Len(fns'), \A k \in 1..Len(frames') : ~ActiveOf(frames'[k], scopes', g)
                   PROVE  Names(scopes'[fns'[g].scope]) = {}
      BY DEF EmptyAtRest, IsActive
    <2>2. CASE g = q
      BY <2>1, <2>2 DEF FnsMove
    <2>3. CASE g # q
      <3>1. g \in 1..Len(fns) /\ fns'[g] = fns[g]
        BY <2>3 DEF FnsMove
      <3>2. ~IsActive(g)
        BY <1>13, <2>1, <2>3 DEF IsActive
      <3>3. Names(scopes[fns[g].scope]) = {}
        BY <1>2, <3>1, <3>2 DEF EmptyAtRest
      <3>4. g # r
        <4>1. SUFFICES ASSUME g = r PROVE FALSE
          OBVIOUS
        <4>2. Starts(m, f, q, r)
          BY <1>1, <3>1, <4>1 DEF TopMove
        <4>3. ActiveOf(frames'[m], scopes', g) /\ m \in 1..Len(frames')
          BY <1>1, <4>1, <4>2 DEF Starts
        <4> QED
          BY <2>1, <4>3
      <3>5. Names(scopes'[fns[g].scope]) \subseteq Names(scopes[fns[g].scope])
        BY <2>3, <3>1, <3>2, <3>4 DEF BindsMove
      <3> QED
        BY <3>1, <3>3, <3>5
    <2> QED
      BY <2>2, <2>3
  <1>16. InsideOnly'
    <2>1. SUFFICES ASSUME NEW k \in 1..Len(frames'), NEW g \in 1..Len(fns'), frames'[k].scope = fns'[g].scope
                   PROVE  \E j \in 1..(k - 1) : ActiveOf(frames'[j], scopes', g)
      BY DEF InsideOnly
    <2>2. CASE k \in 1..Len(frames)
      <3>1. frames'[k].scope = frames[k].scope
        <4>1. CASE k < m
          BY <1>3, <2>2, <4>1
        <4>2. CASE k = m
          BY <1>1, <2>2, <4>2 DEF TopMove
        <4> QED
          BY <1>1, <4>1, <4>2
      <3>2. g # q
        <4> DEFINE s == fns'[g].scope
        <4>1. g = q => s > Len(scopes)
          BY <1>9
        <4>2. s \in 1..Len(scopes)
          BY <1>8, <2>1, <2>2, <3>1
        <4> HIDE DEF s
        <4> QED
          BY <1>1, <4>1, <4>2
      <3>3. g \in 1..Len(fns) /\ fns'[g] = fns[g]
        BY <3>2 DEF FnsMove
      <3>4. PICK j \in 1..(k - 1) : ActiveOf(frames[j], scopes, g)
        BY <1>2, <2>1, <2>2, <3>1, <3>3 DEF InsideOnly
      <3>5. j \in 1..Len(frames)
        BY <1>1, <2>2
      <3> QED
        BY <1>13, <3>2, <3>4, <3>5
    <2>3. CASE k \notin 1..Len(frames)
      <3>1. k = m /\ m \notin 1..Len(frames) /\ k - 1 = Len(frames)
        BY <1>1, <2>3
      <3>2. g # q
        BY <2>1, <3>1 DEF TopMove
      <3>3. g \in 1..Len(fns) /\ fns'[g] = fns[g]
        BY <3>2 DEF FnsMove
      <3>4. IsActive(g)
        BY <1>1, <2>1, <3>1, <3>3 DEF TopMove
      <3>5. PICK j \in 1..Len(frames) : ActiveOf(frames[j], scopes, g)
        BY <3>4 DEF IsActive
      <3> QED
        BY <1>13, <3>1, <3>2, <3>5
    <2> QED
      BY <2>2, <2>3
  <1>17. CallbackScope'
    <2>1. SUFFICES ASSUME NEW k \in 1..Len(frames'), NEW g \in 1..Len(fns'), frames'[k].kind = "filter",
                          frames'[k].new_scope = fns'[g].scope
                   PROVE  g = frames'[k].fn
      BY DEF CallbackScope
    <2>2. CASE k \in 1..Len(frames) /\ frames'[k] = frames[k]
      <3>1. g # q
        <4>1. frames[k].new_scope \in 0..Len(scopes) /\ frames[k].new_scope = fns'[g].scope
          BY <1>8, <2>1, <2>2
        <4>2. g = q => fns'[g].scope > Len(scopes)
          BY <1>9
        <4> DEFINE s == fns'[g].scope
        <4> HIDE DEF s
        <4>3. s \in 0..Len(scopes) => ~(s > Len(scopes))
          BY <1>1
        <4>4. s \in 0..Len(scopes)
          BY <4>1 DEF s
        <4>5. g = q => s > Len(scopes)
          BY <4>2 DEF s
        <4> QED
          BY <4>3, <4>4, <4>5
      <3>2. g \in 1..Len(fns) /\ fns'[g] = fns[g]
        BY <3>1 DEF FnsMove
      <3> QED
        BY <1>2, <2>1, <2>2, <3>2 DEF CallbackScope
    <2>3. CASE k = m /\ NoActivation(f)
      BY <1>1, <1>11, <2>1, <2>3 DEF NoActivation
    <2>4. CASE k = m /\ Starts(m, f, q, r)
      <3>1. f.fn = r /\ f.new_scope = fns[r].scope /\ r \in 1..Len(fns) /\ g # q
        BY <1>1, <2>1, <2>4 DEF Starts
      <3>2. g \in 1..Len(fns) /\ fns'[g] = fns[g]
        BY <3>1 DEF FnsMove
      <3> QED
        BY <1>1, <1>2, <2>1, <2>4, <3>1, <3>2 DEF OwnScopes
    <2>5. k < m => k \in 1..Len(frames) /\ frames'[k] = frames[k]
      <3>1. k < m => k \in 1..Len(frames)
        BY <1>1
      <3> QED
        BY <1>3, <3>1
    <2> QED
      BY <1>1, <2>2, <2>3, <2>4, <2>5 DEF TopMove, SameFrame
  (* Function q may still have activations: then it has no parameter.      *)
  <1>18. ASSUME NEW k \in 1..Len(frames'), ActiveOf(frames'[k], scopes', q)
         PROVE  q \in 1..Len(fns) /\ fns'[q].param = NoName
    <2>1. q \notin 1..Len(fns) => FALSE
      <3>1. SUFFICES ASSUME q \notin 1..Len(fns) PROVE FALSE
        OBVIOUS
      <3>2. ~Starts(m, f, q, r) \/ q # r
        BY <3>1 DEF Starts
      <3>3. k \in 1..Len(frames) /\ ActiveOf(frames[k], scopes, q)
        BY <1>12, <1>18, <3>2
      <3> QED
        BY <1>6, <3>1, <3>3
    <2>2. /\ q \in 1..Len(fns) /\ q \in 1..Len(fns')
      BY <1>1, <2>1
    <2>3. ActiveOf(Top, scopes, q) /\ (m < Len(frames) \/ NoActivation(f)) /\ fns'[q].param = fns[q].param
      BY <2>2 DEF Ends, FnsMove
    <2>4. ~Starts(m, f, q, r)
      BY <2>2 DEF Starts
    <2>5. k \in 1..Len(frames) /\ frames'[k] = frames[k] /\ ActiveOf(frames[k], scopes, q)
      BY <1>12, <1>18, <2>4
    <2>6. k # Len(frames)
      <3>1. SUFFICES ASSUME k = Len(frames), NoActivation(f) PROVE FALSE
        BY <1>1, <2>3
      <3>2. k = m \/ (k < m /\ m \notin 1..Len(frames))
        BY <1>1, <3>1
      <3>3. m \in 1..Len(frames)
        BY <2>2 DEF TopMove
      <3> QED
        BY <1>1, <1>5, <1>18, <3>1, <3>2, <3>3
    <2> QED
      BY <1>1, <1>2, <2>2, <2>3, <2>5, <2>6 DEF NotTwice
  <1>19. ParamBound'
    <2>1. SUFFICES ASSUME NEW k \in 1..Len(frames'), NEW g \in 1..Len(fns'), ActiveOf(frames'[k], scopes', g)
                   PROVE  BoundTo(frames'[k], fns'[g], scopes')
      BY DEF ParamBound
    <2>2. CASE g = q
      BY <1>18, <2>1, <2>2 DEF BoundTo
    <2>3. CASE g # q /\ k \in 1..Len(frames) /\ frames'[k] = frames[k] /\ ActiveOf(frames[k], scopes, g)
      <3>1. g \in 1..Len(fns) /\ fns'[g] = fns[g]
        BY <2>3 DEF FnsMove
      <3>2. BoundTo(frames[k], fns[g], scopes)
        BY <1>2, <2>3, <3>1 DEF ParamBound
      <3>3. KeptIn(scopes[fns[g].scope], scopes'[fns[g].scope])
        BY <2>3, <3>1 DEF BindsMove
      <3> DEFINE a == scopes[fns[g].scope]
                 b == scopes'[fns[g].scope]
                 n == fns[g].param
                 v == frames[k].val
      <3>4. n # NoName => n \in Names(a) /\ a.vals[n] = Binding(v, TRUE)
        BY <3>2 DEF BoundTo
      <3>5. Binding(v, TRUE).is_const = TRUE
        BY DEF Binding
      <3> HIDE DEF a, b, n, v
      <3>6. n # NoName => n \in Names(b) /\ b.vals[n] = Binding(v, TRUE)
        BY <3>3, <3>4, <3>5 DEF KeptIn, a, b
      <3> QED
        BY <2>3, <3>1, <3>2, <3>6 DEF BoundTo, a, b, n, v
    <2>4. CASE k = m /\ Starts(m, f, q, r) /\ g = r
      <3>1. g # q
        BY <2>1, <2>4 DEF Starts
      <3>2. fns'[g] = fns[r]
        BY <2>4, <3>1 DEF FnsMove
      <3>3. BoundTo(f, fns[r], scopes') /\ frames'[k] = f
        BY <1>1, <2>4 DEF Starts
      <3> QED
        BY <3>2, <3>3 DEF BoundTo
    <2>5. \/ k \in 1..Len(frames) /\ frames'[k] = frames[k] /\ ActiveOf(frames[k], scopes, g)
          \/ k = m /\ Starts(m, f, q, r) /\ g = r
      BY <1>12, <2>1
    <2> QED
      BY <2>2, <2>3, <2>4, <2>5, Zenon
  <1>20. NotTwice'
    <2>1. SUFFICES ASSUME NEW j \in 1..Len(frames'), NEW k \in 1..Len(frames'), NEW g \in 1..Len(fns'), j # k,
                          ActiveOf(frames'[j], scopes', g), ActiveOf(frames'[k], scopes', g)
                   PROVE  fns'[g].param = NoName
      BY DEF NotTwice
    <2>2. CASE g = q
      BY <1>18, <2>1, <2>2
    <2>3. CASE g # q
      <3>1. g \in 1..Len(fns) /\ fns'[g] = fns[g]
        BY <2>3 DEF FnsMove
      <3> DEFINE Old(i) == i \in 1..Len(frames) /\ ActiveOf(frames[i], scopes, g)
      <3>2. Old(j) \/ (j = m /\ Starts(m, f, q, r) /\ g = r)
        BY <1>12, <2>1
      <3>3. Old(k) \/ (k = m /\ Starts(m, f, q, r) /\ g = r)
        BY <1>12, <2>1
      <3>4. Old(j) \/ Old(k) => IsActive(g)
        BY DEF IsActive
      <3>5. CASE Old(j) /\ Old(k)
        BY <1>2, <2>1, <3>1, <3>5 DEF NotTwice
      <3>6. CASE Starts(m, f, q, r) /\ g = r /\ (Old(j) \/ Old(k))
        BY <3>1, <3>4, <3>6 DEF Starts
      <3> QED
        BY <2>1, <3>2, <3>3, <3>5, <3>6
    <2> QED
      BY <2>2, <2>3
  <1>21. CallbackOnce'
    <2>1. SUFFICES ASSUME NEW j \in 1..Len(frames'), NEW k \in 1..Len(frames'), j < k, frames'[k].kind = "filter",
                          ActiveOf(frames'[j], scopes', frames'[k].fn)
                   PROVE  FALSE
      BY DEF CallbackOnce
    <2> DEFINE g == frames'[k].fn
    <2>2. j < m /\ j \in 1..Len(frames)
      BY <1>1, <2>1
    <2> HIDE DEF g
    <2>3. ActiveOf(frames[j], scopes, g)
      BY <1>3, <2>1, <2>2 DEF g
    <2>4. CASE k \in 1..Len(frames)
      <3>1. frames[k].kind = "filter" /\ frames[k].fn = g
        <4>1. CASE k < m
          BY <1>3, <2>1, <2>4, <4>1 DEF g
        <4>2. CASE k = m
          BY <1>1, <2>1, <2>4, <4>2 DEF g, TopMove
        <4> QED
          BY <1>1, <4>1, <4>2
      <3> QED
        BY <1>2, <2>1, <2>2, <2>3, <2>4, <3>1 DEF CallbackOnce
    <2>5. CASE k \notin 1..Len(frames)
      <3>1. k = m /\ m \notin 1..Len(frames)
        BY <1>1, <2>5
      <3>2. f.kind = "filter" /\ f.fn = g
        BY <1>1, <2>1, <3>1 DEF g
      <3> QED
        BY <2>2, <2>3, <3>1, <3>2 DEF TopMove, IsActive
    <2> QED
      BY <2>4, <2>5
  <1> QED
    BY <1>14, <1>15, <1>16, <1>17, <1>19, <1>20, <1>21 DEF RunInv

(* What a step that writes one binding does to the scopes of functions.    *)
LEMMA WrittenKept ==
  ASSUME Base, status = "running", NEW y, NEW name, NEW binding, Written(scopes, scopes', y, name, binding),
         NEW q, NEW r,
         \/ y = 0 \/ scopes[y].kind # "function" \/ name \in Names(scopes[y])
         \/ \A g \in 1..Len(fns) : fns[g].scope = y => g = r \/ IsActive(g)
  PROVE  BindsMove(q, r)
  <1> SUFFICES ASSUME NEW g \in 1..Len(fns)
               PROVE  /\ KeptIn(scopes[fns[g].scope], scopes'[fns[g].scope])
                      /\ g # r /\ ~IsActive(g) => Names(scopes'[fns[g].scope]) \subseteq Names(scopes[fns[g].scope])
    BY DEF BindsMove
  <1> DEFINE s == fns[g].scope
  <1>1. s \in 1..Len(scopes) /\ scopes[s].kind = "function" /\ s # 0
    BY FnScopeIs
  <1> HIDE DEF s
  <1>2. CASE s # y
    <2>1. scopes'[s].vals = scopes[s].vals
      BY <1>1, <1>2 DEF Written
    <2> QED
      BY <2>1 DEF KeptIn, Names, s
  <1>3. CASE s = y
    <2>1. /\ Names(scopes'[s]) = Names(scopes[s]) \cup {name}
          /\ \A n \in Names(scopes[s]) : n # name => scopes'[s].vals[n] = scopes[s].vals[n]
          /\ name \in Names(scopes[s]) => scopes[s].vals[name].is_const = FALSE
      BY <1>1, <1>3 DEF Written
    <2>2. KeptIn(scopes[s], scopes'[s])
      BY <2>1 DEF KeptIn
    <2>3. g # r /\ ~IsActive(g) => name \in Names(scopes[s])
      BY <1>1, <1>3 DEF s
    <2> QED
      BY <2>1, <2>2, <2>3 DEF s
  <1> QED
    BY <1>2, <1>3

LEMMA SameKept ==
  ASSUME Base, status = "running", scopes' = scopes, NEW q, NEW r
  PROVE  BindsMove(q, r)
  <1>1. Written(scopes, scopes', 0, NoName, Binding(BLAZE_NULL, TRUE))
    BY WrittenSelf
  <1> QED
    BY <1>1, WrittenKept

LEMMA SameFnsMove ==
  ASSUME Base, fns' = fns
  PROVE  FnsMove(0) /\ Len(fns) <= Len(fns') /\ 0 \notin 1..Len(fns) /\ 0 \notin 1..Len(fns')
  <1>1. Len(fns) \in Nat
    BY SequenceIs DEF Base, FnsOK
  <1> QED
    BY <1>1 DEF FnsMove

LEMMA NotActive ==
  ASSUME NEW f, NoActivation(f), NEW ss, NEW g
  PROVE  ~ActiveOf(f, ss, g)
  BY DEF NoActivation, ActiveOf

(* The calls below a loop are not of functions bound in its scope.         *)
LEMMA BelowOwn ==
  ASSUME Base, NEW m \in 1..Len(frames), frames[m].kind \in Own,
         NEW k \in 1..Len(frames), k < m, frames[k].kind = "call"
  PROVE  frames[k].callee.scope # frames[m].scope
  <1>1. frames[k].scope < frames[m].scope
    BY DEF Base, Nested
  <1>2. frames[k].callee.scope \in 1..frames[k].scope /\ frames[k].scope \in 1..Len(scopes)
        /\ frames[m].scope \in 1..Len(scopes) /\ Len(scopes) \in Nat
    BY TreeOf DEF Base, FramesOK, FrameOK
  <1> QED
    BY <1>1, <1>2

(* A step that starts no activation and ends none.                         *)
LEMMA RunQuiet ==
  ASSUME Base, Base', Linked, RunInv, status = "running", status' = "running", fns' = fns,
         NEW x, KeepsFnAt(scopes, scopes', x), BindsMove(0, 0),
         NEW m \in 1..Len(frames), NEW f, StackTo(m, f),
         \A k \in 1..Len(frames) : k < m /\ frames[k].kind = "call" => frames[k].callee.scope # x,
         \A k \in 1..Len(frames) : k > m => NoActivation(frames[k]),
         \/ SameFrame(m, f, x)
         \/ /\ NoActivation(f) /\ NoActivation(frames[m]) /\ f.scope = frames[m].scope
            /\ f.kind = "filter" => frames[m].kind = "filter" /\ f.fn = frames[m].fn
  PROVE  RunInv'
  <1>1. FnsMove(0) /\ Len(fns) <= Len(fns') /\ 0 \notin 1..Len(fns)
    BY SameFnsMove
  <1>2. TopMove(m, f, x, 0, 0)
    BY DEF TopMove, SameFrame
  <1>3. Len(frames) \in Nat
    BY TopIs
  <1>4. ASSUME NEW k \in 1..Len(frames), k >= m, NEW g, ActiveOf(frames[k], scopes, g)
        PROVE  k = m /\ f = frames[m]
    <2>1. k = m
      BY <1>3, <1>4, NotActive
    <2> QED
      BY <1>4, <2>1, NotActive DEF SameFrame
  <1>5. Ends(m, f, 0)
    BY <1>1, <1>4 DEF Ends
  <1> QED
    BY <1>1, <1>2, <1>5, RunStep

(* A frame that is no activation is pushed.                                *)
LEMMA RunPush ==
  ASSUME Base, Base', Linked, RunInv, AtStatement \/ AtExpr, status' = "running", fns' = fns,
         KeepsFnAt(scopes, scopes', 0), BindsMove(0, 0),
         NEW f, frames' = Append(frames, f), NoActivation(f),
         f.scope = EvalScope \/ f.scope > Len(scopes), f.kind = "filter" => ~IsActive(f.fn)
  PROVE  RunInv'
  <1> DEFINE m == Len(frames) + 1
  <1>0. status = "running"
    BY DEF AtStatement, AtExpr
  <1>1. FnsMove(0) /\ Len(fns) <= Len(fns') /\ 0 \notin 1..Len(fns) /\ 0 \notin 1..Len(fns')
    BY SameFnsMove
  <1>2. Sequence(frames) /\ Len(frames) \in Nat /\ Len(scopes) \in Nat
    BY <1>0, TopIs
  <1>3. StackTo(m, f) /\ m \notin 1..Len(frames) /\ \A k \in 1..Len(frames) : ~(k >= m)
    BY <1>2, PushTo
  <1>4. \A k \in 1..Len(frames) : k < m /\ frames[k].kind = "call" => frames[k].callee.scope # 0
    <2>1. \A k \in 1..Len(frames) : frames[k].kind = "call" => frames[k].callee.scope \in 1..frames[k].scope
      BY DEF Base, FramesOK, FrameOK
    <2> QED
      BY <2>1
  <1>5. ASSUME NEW g \in 1..Len(fns), f.scope = fns[g].scope PROVE IsActive(g)
    <2>1. fns[g].scope \in 1..Len(scopes)
      BY DEF Base, FnsOK, FnOK
    <2>2. fns[g].scope = EvalScope
      BY <1>2, <1>5, <2>1
    <2> QED
      BY <2>2, EvalActive
  <1> HIDE DEF m
  <1>6. TopMove(m, f, 0, 0, 0)
    BY <1>1, <1>3, <1>5 DEF TopMove
  <1>7. Ends(m, f, 0)
    BY <1>1, <1>3 DEF Ends
  <1> QED
    BY <1>0, <1>1, <1>3, <1>4, <1>6, <1>7, RunStep

LEMMA SameRuns ==
  ASSUME Base, Base', Linked, RunInv, status = "running", status' = "running", fns' = fns, scopes' = scopes
  PROVE  KeepsFnAt(scopes, scopes', 0) /\ BindsMove(0, 0)
         /\ \A k \in 1..Len(frames) : frames[k].kind = "call" => frames[k].callee.scope # 0
  <1>1. \A k \in 1..Len(frames) : frames[k].kind = "call" => frames[k].callee.scope \in 1..frames[k].scope
    BY DEF Base, FramesOK, FrameOK
  <1>2. \A k \in 1..Len(frames) : frames[k].kind = "call" => frames[k].callee.scope # 0
    BY <1>1
  <1> QED
    BY <1>2, SelfFns, SameKept

(* The frame below a frame that ends gets a value, or stays.               *)
LEMMA GivenFrame ==
  ASSUME NEW f, FrameShape(f), NEW val
  PROVE  \/ Given(f, val) = f
         \/ /\ NoActivation(Given(f, val)) /\ NoActivation(f)
            /\ Given(f, val).kind # "filter" /\ Given(f, val).scope = f.scope
  <1>1. CASE f.kind \notin Waiting
    BY <1>1 DEF Given
  <1>2. CASE f.kind \in Waiting
    <2>1. SameLink(Given(f, val), f)
      BY GivenLink
    <2>2. Given(f, val).kind = f.kind
      <3>1. CASE f.kind = "var_decl"
        BY <3>1 DEF Given, FrameShape
      <3>2. CASE f.kind = "assignment"
        BY <3>2 DEF Given, FrameShape
      <3>3. CASE f.kind = "args"
        BY <3>3 DEF Given, FrameShape
      <3> QED
        BY <1>2, <3>1, <3>2, <3>3 DEF Waiting
    <2> DEFINE g == Given(f, val)
    <2> HIDE DEF g
    <2>3. g.kind = f.kind /\ g.scope = f.scope
      BY <2>1, <2>2 DEF SameLink, g
    <2> QED
      BY <1>2, <2>3 DEF Waiting, NoActivation, g
  <1> QED
    BY <1>1, <1>2

LEMMA ValueRuns ==
  ASSUME Base, Base', Linked, RunInv, AtExpr, NEW v, frames' = SetTop([Top EXCEPT !.val = v]),
         UNCHANGED <<scopes, fns, status>>
  PROVE  RunInv'
  <1> DEFINE f == Given(Top, v)
             m == Len(frames)
  <1>0. status = "running" /\ Top.kind \in Waiting
    BY DEF AtExpr, Waiting
  <1>1. /\ Len(frames) > 0 /\ Sequence(frames) /\ Top = frames[m] /\ m \in 1..Len(frames) /\ m \in Nat
        /\ FrameShape(Top)
    BY <1>0, TopIs DEF Top, FrameOK
  <1>2. frames' = SetTop(f)
    BY <1>0 DEF Given
  <1>3. \/ f = Top
        \/ NoActivation(f) /\ NoActivation(Top) /\ f.kind # "filter" /\ f.scope = Top.scope
    BY <1>1, GivenFrame
  <1> HIDE DEF f
  <1>4. StackTo(m, f)
    BY <1>1, <1>2, TopTo
  <1>5. KeepsFnAt(scopes, scopes', 0) /\ BindsMove(0, 0)
        /\ \A k \in 1..Len(frames) : frames[k].kind = "call" => frames[k].callee.scope # 0
    BY <1>0, SameRuns
  <1>6. \A k \in 1..Len(frames) : ~(k > m)
    BY <1>1
  <1> HIDE DEF m
  <1> QED
    BY <1>0, <1>1, <1>3, <1>4, <1>5, <1>6, RunQuiet DEF SameFrame

LEMMA QuietRuns ==
  ASSUME Base, Base', Linked, RunInv, status = "running"
  PROVE  /\ \A name \in VarName, is_const \in BOOLEAN : eval_var_decl(name, is_const) => RunInv'
         /\ \A name \in Name : eval_assignment(name) => RunInv'
         /\ \A e \in Expr : eval_leaf(e) => RunInv'
         /\ \A operator \in Operators, e, f \in Expr : BinaryExpr(operator, e, f) => RunInv'
         /\ FilterEnds => RunInv'
  <1>0. RuntimeError => RunInv'
    BY DEF RuntimeError, Exit, RunInv
  <1>1. ASSUME NEW name \in VarName, NEW is_const \in BOOLEAN, eval_var_decl(name, is_const)
        PROVE  RunInv'
    <2> DEFINE const == is_const /\ Top.kind \notin {"call", "filter"}
               f == [kind |-> "var_decl", scope |-> EvalScope, name |-> name, val |-> NoVal, is_const |-> const]
    <2>1. AtStatement /\ frames' = Append(frames, f) /\ UNCHANGED <<scopes, fns, tbl, status>>
      BY <1>1 DEF eval_var_decl, Push
    <2>2. f.kind = "var_decl" /\ f.scope = EvalScope
      OBVIOUS
    <2> HIDE DEF f
    <2>3. NoActivation(f) /\ f.kind # "filter"
      BY <2>2 DEF NoActivation
    <2> QED
      BY <2>1, <2>2, <2>3, SameRuns, RunPush
  <1>2. ASSUME NEW name \in Name, eval_assignment(name)
        PROVE  RunInv'
    <2> DEFINE f == [kind |-> "assignment", scope |-> EvalScope, name |-> name, val |-> NoVal]
    <2>1. AtStatement /\ frames' = Append(frames, f) /\ UNCHANGED <<scopes, fns, tbl, status>>
      BY <1>2 DEF eval_assignment, Push
    <2>2. f.kind = "assignment" /\ f.scope = EvalScope
      OBVIOUS
    <2> HIDE DEF f
    <2>3. NoActivation(f) /\ f.kind # "filter"
      BY <2>2 DEF NoActivation
    <2> QED
      BY <2>1, <2>2, <2>3, SameRuns, RunPush
  <1>3. ASSUME NEW e \in Expr, eval_leaf(e)
        PROVE  RunInv'
    <2>1. CASE ~RuntimeError
      <3> DEFINE v == Eval(e, Top.scope).val
      <3>1. AtExpr /\ frames' = SetTop([Top EXCEPT !.val = v]) /\ UNCHANGED <<scopes, fns, status>>
        BY <1>3, <2>1 DEF eval_leaf
      <3> HIDE DEF v
      <3> QED
        BY <3>1, ValueRuns
    <2> QED
      BY <1>0, <2>1
  <1>4. ASSUME NEW operator \in Operators, NEW e \in Expr, NEW f \in Expr, BinaryExpr(operator, e, f)
        PROVE  RunInv'
    <2>1. CASE ~RuntimeError
      <3>1. AtExpr /\ UNCHANGED <<scopes, fns, status>> /\ \E v : frames' = SetTop([Top EXCEPT !.val = v])
        BY <1>4, <2>1 DEF BinaryExpr
      <3> QED
        BY <3>1, ValueRuns
    <2> QED
      BY <1>0, <2>1
  <1>5. ASSUME FilterEnds
        PROVE  RunInv'
    <2> DEFINE v == Val("VAL_ARRAY", 0, 0)
               m == Len(frames) - 1
               f == Given(frames[m], v)
    <2>1. /\ Top.kind = "filter" /\ Top.new_scope = 0
          /\ frames' = Deliver(Front(frames), v) /\ UNCHANGED <<scopes, fns, tbl, status>>
      BY <1>5 DEF FilterEnds
    <2>2. Len(frames) > 1 /\ Sequence(frames) /\ m \in 1..Len(frames) /\ Len(frames) \in Nat
      BY <2>1, TopIs
    <2> HIDE DEF v
    <2>3. StackTo(m, f)
      BY <2>1, <2>2, DeliverTo
    <2>4. \A k \in 1..Len(frames) : k > m => NoActivation(frames[k])
      <3>1. \A k \in 1..Len(frames) : k > m => k = Len(frames)
        BY <2>2
      <3> QED
        BY <2>1, <3>1 DEF NoActivation, Top
    <2> HIDE DEF m
    <2>5. FrameShape(frames[m])
      BY <2>2 DEF Base, FramesOK, FrameOK
    <2>6. \/ f = frames[m]
          \/ NoActivation(f) /\ NoActivation(frames[m]) /\ f.kind # "filter" /\ f.scope = frames[m].scope
      BY <2>5, GivenFrame
    <2> HIDE DEF f
    <2>7. KeepsFnAt(scopes, scopes', 0) /\ BindsMove(0, 0)
          /\ \A k \in 1..Len(frames) : frames[k].kind = "call" => frames[k].callee.scope # 0
      BY <2>1, SameRuns
    <2>8. SameFrame(m, f, 0) \/ (/\ NoActivation(f) /\ NoActivation(frames[m]) /\ f.scope = frames[m].scope
                                 /\ f.kind = "filter" => frames[m].kind = "filter" /\ f.fn = frames[m].fn)
      BY <2>2, <2>6, <2>7 DEF SameFrame
    <2> QED
      BY <2>1, <2>2, <2>3, <2>4, <2>7, <2>8, RunQuiet
  <1> QED
    BY <1>1, <1>2, <1>3, <1>4, <1>5

(* A call that begins is no activation yet; array_filter begins with a     *)
(* function that does not run.                                             *)
LEMMA PushesRun ==
  ASSUME Base, Base', Linked, RunInv, status = "running"
  PROVE  /\ \A name, argc : eval_expr_call(name, argc) => RunInv'
         /\ \A name, n : array_filter(name, n) => RunInv'
  <1>0. RuntimeError => RunInv'
    BY DEF RuntimeError, Exit, RunInv
  <1>1. ASSUME NEW name, NEW argc, eval_expr_call(name, argc), ~RuntimeError
        PROVE  RunInv'
    <2> DEFINE s    == EvalScope
               home == scope_resolve_identifier(scopes, s, name)
               val  == IF argc = 0 THEN BLAZE_NULL ELSE NoVal
               f    == [kind |-> "args", scope |-> s, callee |-> Callee(home, name),
                        argc |-> argc, val |-> val]
    <2>1. /\ AtStatement \/ AtExpr
          /\ frames' = Append(frames, f) /\ UNCHANGED <<scopes, fns, tbl, status>>
      BY <1>1 DEF eval_expr_call, Push
    <2>2. f.kind = "args" /\ f.scope = EvalScope
      OBVIOUS
    <2> HIDE DEF f
    <2>3. NoActivation(f) /\ f.kind # "filter"
      BY <2>2 DEF NoActivation
    <2> QED
      BY <2>1, <2>2, <2>3, SameRuns, RunPush
  <1>2. ASSUME NEW name, NEW n, array_filter(name, n), ~RuntimeError
        PROVE  RunInv'
    <2> DEFINE s    == EvalScope
               home == scope_resolve_identifier(scopes, s, name)
               fn   == scopes[home].vals[name].value.ref
               f    == [kind |-> "filter", scope |-> s, fn |-> fn, left |-> n, new_scope |-> 0, val |-> NoVal]
    <2>1. /\ AtStatement \/ AtExpr
          /\ \A k \in DOMAIN frames : Activation(k) => FnOf(frames[k]) # fn
          /\ frames' = Append(frames, f) /\ UNCHANGED <<scopes, fns, status>>
      BY <1>2 DEF array_filter, Push
    <2>2. f.kind = "filter" /\ f.scope = EvalScope /\ f.fn = fn /\ f.new_scope = 0
      OBVIOUS
    <2> HIDE DEF f, fn
    <2>3. ~IsActive(fn)
      <3>1. SUFFICES ASSUME NEW k \in 1..Len(frames), ActiveOf(frames[k], scopes, fn) PROVE FALSE
        BY DEF IsActive
      <3>2. DOMAIN frames = 1..Len(frames)
        BY SequenceIs DEF Base, FramesOK
      <3>3. Activation(k)
        BY <3>1 DEF Activation, ActiveOf
      <3>4. FnOf(frames[k]) = fn
        BY <3>1 DEF FnOf, ActiveOf, FnAt, PointsAt
      <3> QED
        BY <2>1, <3>2, <3>3, <3>4
    <2>4. NoActivation(f)
      BY <2>2 DEF NoActivation
    <2> QED
      BY <2>1, <2>2, <2>3, <2>4, SameRuns, RunPush
  <1> QED
    BY <1>0, <1>1, <1>2

LEMMA VarDeclRuns ==
  ASSUME Base, Base', Linked, RunInv, VarDeclEnds
  PROVE  RunInv'
  <1>0. RuntimeError => RunInv'
    BY DEF RuntimeError, Exit, RunInv
  <1> SUFFICES ASSUME ~RuntimeError PROVE RunInv'
    BY <1>0
  <1> DEFINE y == Top.scope
             n == Len(frames)
             m == n - 1
             x == IF scopes[y].kind = "loop" THEN y ELSE 0
             name == Top.name
  <1>1. /\ status = "running" /\ Top.kind = "var_decl" /\ Top.val.type # "VAL_FUNCTION"
        /\ frames' = Front(frames) /\ UNCHANGED <<fns, tbl, status>>
    BY VarDeclBinds
  <1>2. /\ n \in Nat /\ n > 1 /\ m \in 1..n /\ Sequence(frames) /\ n \in 1..n /\ Placed(frames, n, scopes)
        /\ y \in 1..Len(scopes) /\ Top = frames[n]
    BY <1>1, TopIs DEF Top
  <1>3. StackTo(m, frames[m])
    BY <1>1, <1>2, PopTo
  <1>4. PICK const \in BOOLEAN : Written(scopes, scopes', y, name, Binding(Top.val, const))
    BY VarDeclWrites
  <1> DEFINE binding == Binding(Top.val, const)
  <1>5. binding.value.type # "VAL_FUNCTION"
    BY <1>1 DEF Binding
  <1>6. scopes[y].kind = "loop" => frames[m].kind = "loop" /\ frames[m].scope = y
    BY <1>1, <1>2 DEF Placed
  <1>7. \A k \in 1..Len(frames) : k > m => NoActivation(frames[k])
    <2>1. \A k \in 1..Len(frames) : k > m => k = n
      BY <1>2
    <2> QED
      BY <1>1, <1>2, <2>1 DEF NoActivation
  <1>8. \A k \in 1..Len(frames) : k <= m /\ frames[k].kind = "call" => frames[k].callee.scope # x
    <2>1. SUFFICES ASSUME NEW k \in 1..Len(frames), k <= m, frames[k].kind = "call"
                   PROVE  frames[k].callee.scope # x
      OBVIOUS
    <2>2. frames[k].callee.scope \in 1..frames[k].scope
      BY <2>1 DEF Base, FramesOK, FrameOK
    <2>3. CASE scopes[y].kind # "loop"
      BY <2>2, <2>3
    <2>4. CASE scopes[y].kind = "loop"
      <3>1. frames[m].kind \in Own /\ m \in 1..Len(frames) /\ k # m
        BY <1>2, <1>6, <2>1, <2>4 DEF Own
      <3>2. k < m
        BY <1>2, <2>1, <3>1
      <3> HIDE DEF m
      <3>3. frames[k].callee.scope # frames[m].scope
        BY <2>1, <3>1, <3>2, BelowOwn
      <3> QED
        BY <1>6, <2>4, <3>3
    <2> QED
      BY <2>3, <2>4
  <1>9. \A g \in 1..Len(fns) : fns[g].scope = y => IsActive(g)
    <2>1. SUFFICES ASSUME NEW g \in 1..Len(fns), fns[g].scope = y PROVE IsActive(g)
      OBVIOUS
    <2>2. InsideOnly
      BY <1>1 DEF RunInv
    <2>3. PICK j \in 1..(n - 1) : ActiveOf(frames[j], scopes, g)
      BY <1>2, <2>1, <2>2 DEF InsideOnly
    <2>4. j \in 1..Len(frames)
      BY <1>2
    <2> QED
      BY <2>3, <2>4 DEF IsActive
  <1>10. y = 0 \/ x = y \/ scopes[y].kind # "loop"
    OBVIOUS
  <1> HIDE DEF binding, x, y, name
  <1>11. KeepsFnAt(scopes, scopes', x)
    BY <1>1, <1>4, <1>5, <1>10, WrittenLinked DEF binding
  <1>12. BindsMove(0, 0)
    BY <1>1, <1>4, <1>9, WrittenKept
  <1>13. m \in 1..Len(frames) /\ status' = "running" /\ m <= m /\ \A k \in 1..Len(frames) : k < m => k <= m
    BY <1>1, <1>2
  <1> HIDE DEF m, n
  <1>14. SameFrame(m, frames[m], x)
    BY <1>8, <1>13 DEF SameFrame
  <1> QED
    BY <1>1, <1>3, <1>7, <1>8, <1>11, <1>12, <1>13, <1>14, RunQuiet

LEMMA AssignmentRuns ==
  ASSUME Base, Base', Linked, RunInv, AssignmentEnds
  PROVE  RunInv'
  <1>0. RuntimeError => RunInv'
    BY DEF RuntimeError, Exit, RunInv
  <1> SUFFICES ASSUME ~RuntimeError PROVE RunInv'
    BY <1>0
  <1> DEFINE y == scope_resolve_identifier(scopes, Top.scope, Top.name)
             m == Len(frames) - 1
             name == Top.name
             binding == Binding(Top.val, FALSE)
  <1>1. /\ status = "running" /\ Top.kind = "assignment"
        /\ frames' = Front(frames) /\ UNCHANGED <<fns, tbl, status>>
        /\ y \in 1..Len(scopes) /\ name \in Names(scopes[y])
    BY AssignmentBinds
  <1>2. m \in 1..Len(frames) /\ Sequence(frames) /\ Len(frames) > 1 /\ Len(frames) \in Nat
    BY <1>1, TopIs
  <1>3. StackTo(m, frames[m])
    BY <1>1, <1>2, PopTo
  <1>4. Written(scopes, scopes', y, name, binding)
    BY AssignmentWrites
  <1>5. \A k \in 1..Len(frames) : k > m => NoActivation(frames[k])
    <2>1. \A k \in 1..Len(frames) : k > m => k = Len(frames)
      BY <1>2
    <2> QED
      BY <1>1, <2>1 DEF NoActivation, Top
  <1>6. \A k \in 1..Len(frames) : frames[k].kind = "call" => frames[k].callee.scope # 0
    <2>1. \A k \in 1..Len(frames) : frames[k].kind = "call" => frames[k].callee.scope \in 1..frames[k].scope
      BY DEF Base, FramesOK, FrameOK
    <2> QED
      BY <2>1
  <1>7. KeepsFnAt(scopes, scopes', 0)
    BY AssignmentFns
  <1> HIDE DEF m, y, name, binding
  <1>8. BindsMove(0, 0)
    BY <1>1, <1>4, WrittenKept
  <1>9. SameFrame(m, frames[m], 0) /\ status' = "running"
    BY <1>1, <1>2, <1>6 DEF SameFrame
  <1> QED
    BY <1>1, <1>2, <1>3, <1>5, <1>6, <1>7, <1>8, <1>9, RunQuiet

LEMMA OwnRuns ==
  ASSUME Base, Base', Linked, RunInv, AtStatement, UNCHANGED <<fns, status>>,
         NEW sc, FreshScope(sc), scopes' = Append(scopes, sc),
         NEW f, f.kind \in Own, f.scope = Len(scopes) + 1, frames' = Append(frames, f)
  PROVE  RunInv'
  <1> DEFINE binding == Binding(BLAZE_NULL, TRUE)
  <1>1. status = "running" /\ status' = "running"
    BY DEF AtStatement
  <1>2. binding.value.type # "VAL_FUNCTION"
    BY DEF Binding, BLAZE_NULL, Val
  <1> HIDE DEF binding
  <1>3. Written(scopes, scopes', 0, NoName, binding)
    BY AppendWrites
  <1>4. KeepsFnAt(scopes, scopes', 0)
    BY <1>1, <1>2, <1>3, WrittenLinked
  <1>5. BindsMove(0, 0)
    BY <1>1, <1>3, WrittenKept
  <1>6. NoActivation(f) /\ f.kind # "filter"
    BY DEF NoActivation, Own
  <1>7. f.scope > Len(scopes)
    BY TreeOf
  <1> QED
    BY <1>1, <1>4, <1>5, <1>6, <1>7, RunPush

LEMMA BlockRuns ==
  ASSUME Base, Base', Linked, RunInv, eval_block
  PROVE  RunInv'
  <1> DEFINE sc == NewScope("block", EvalScope)
             f  == [kind |-> "block", scope |-> Len(scopes) + 1]
  <1>1. /\ AtStatement /\ UNCHANGED <<fns, status>>
        /\ scopes' = Append(scopes, sc) /\ frames' = Append(frames, f)
    BY DEF eval_block, scope_init, Push
  <1>2. FreshScope(sc)
    BY FreshNewScope DEF ScopeKind
  <1>3. f.kind \in Own /\ f.scope = Len(scopes) + 1
    BY DEF Own
  <1> HIDE DEF sc, f
  <1> QED
    BY <1>1, <1>2, <1>3, OwnRuns

LEMMA LoopRuns ==
  ASSUME Base, Base', Linked, RunInv, NEW varname \in VarName \cup {NoName}, NEW count \in Nat,
         eval_loop_stmt(varname, count)
  PROVE  RunInv'
  <1> DEFINE f == [kind |-> "loop", scope |-> Len(scopes) + 1,
                   counter |-> 0, count |-> count, varname |-> varname]
  <1>1. AtStatement /\ UNCHANGED <<fns, status>> /\ frames' = Append(frames, f)
    BY DEF eval_loop_stmt, Push
  <1>2. PICK sc : FreshScope(sc) /\ scopes' = Append(scopes, sc)
    BY LoopWrites
  <1>3. f.kind \in Own /\ f.scope = Len(scopes) + 1
    BY DEF Own
  <1> HIDE DEF f
  <1> QED
    BY <1>1, <1>2, <1>3, OwnRuns

LEMMA LoopAgainRuns ==
  ASSUME Base, Base', Linked, RunInv, LoopAgain
  PROVE  RunInv'
  <1> DEFINE x == Top.scope
             m == Len(frames)
             n == Top.counter + 1
             f == [Top EXCEPT !.counter = n]
             name == Top.varname
  <1>1. /\ status = "running" /\ status' = "running" /\ Top.kind = "loop" /\ fns' = fns
        /\ frames' = SetTop(f)
    BY DEF LoopAgain
  <1>2. /\ Sequence(frames) /\ m > 0 /\ m \in 1..Len(frames) /\ Top = frames[m]
        /\ FrameOK(Top, scopes, tbl, Len(fns)) /\ m \in Nat
    BY <1>1, TopIs DEF Top
  <1>3. f.kind = "loop" /\ f.scope = x
    <2>1. Top = [kind |-> "loop", scope |-> Top.scope, counter |-> Top.counter, count |-> Top.count,
                 varname |-> Top.varname]
      BY <1>1, <1>2 DEF FrameOK, FrameShape
    <2> QED
      BY <2>1
  <1>4. /\ scopes[x].kind = "loop"
        /\ \E y \in {0, x}, const \in BOOLEAN : Written(scopes, scopes', y, name, Binding(Counter(n), const))
    BY LoopAgainWrites
  <1>5. PICK y \in {0, x}, const \in BOOLEAN : Written(scopes, scopes', y, name, Binding(Counter(n), const))
    BY <1>4
  <1> DEFINE binding == Binding(Counter(n), const)
  <1>6. binding.value.type # "VAL_FUNCTION"
    BY DEF Binding, Counter, Val
  <1> HIDE DEF f, binding
  <1>7. StackTo(m, f)
    BY <1>1, <1>2, TopTo
  <1>8. \A k \in 1..Len(frames) : k < m /\ frames[k].kind = "call" => frames[k].callee.scope # x
    <2>1. frames[m].kind \in Own
      BY <1>1, <1>2 DEF Own
    <2> HIDE DEF m
    <2> QED
      BY <1>2, <2>1, BelowOwn
  <1>9. NoActivation(f) /\ NoActivation(frames[m]) /\ f.scope = frames[m].scope /\ f.kind # "filter"
    BY <1>1, <1>2, <1>3 DEF NoActivation
  <1>10. \A k \in 1..Len(frames) : ~(k > m)
    BY <1>2
  <1> HIDE DEF m, x, n, name
  <1>11. KeepsFnAt(scopes, scopes', x)
    BY <1>1, <1>5, <1>6, WrittenLinked DEF binding
  <1>12. BindsMove(0, 0)
    <2>1. y = 0 \/ scopes[y].kind # "function"
      BY <1>4
    <2> QED
      BY <1>1, <1>5, <2>1, WrittenKept
  <1> QED
    BY <1>1, <1>2, <1>7, <1>8, <1>9, <1>10, <1>11, <1>12, RunQuiet

LEMMA FreeTopRuns ==
  ASSUME Base, Base', Linked, RunInv, status = "running", Top.kind \in Own, FreeTopScope
  PROVE  RunInv'
  <1> DEFINE m == Len(frames) - 1
             f == frames[m]
             x == Top.scope
             n == Len(frames)
  <1>1. /\ scopes' = scope_free(scopes, x) /\ tbl' = scope_free_values(scopes[x], tbl)
        /\ frames' = Front(frames) /\ UNCHANGED <<fns, status>>
    BY DEF FreeTopScope
  <1>2. /\ Sequence(frames) /\ x \in 1..Len(scopes) /\ n > 1 /\ m \in 1..n /\ n \in Nat
        /\ n \in 1..n /\ Top = frames[n] /\ FrameOK(Top, scopes, tbl, Len(fns)) /\ m < n
    BY TopIs DEF Own, Top
  <1>3. /\ Evolves(scopes, scopes') /\ Len(scopes') = Len(scopes) /\ scopes'[x].live = FALSE
        /\ \A t \in 1..Len(scopes) : t # x => scopes'[t] = scopes[t]
    BY <1>1, <1>2, FreedScopes
  <1>4. StackTo(m, f)
    BY <1>1, <1>2, PopTo
  <1>5. \A k \in 1..Len(frames) : k < n /\ frames[k].kind = "call" => frames[k].callee.scope # x
    <2> HIDE DEF m, f
    <2>1. frames[n].kind \in Own
      BY <1>2
    <2> HIDE DEF n
    <2> QED
      BY <1>2, <2>1, BelowOwn DEF n
  <1>6. \A k \in 1..Len(frames) : k > m => NoActivation(frames[k])
    <2>1. \A k \in 1..Len(frames) : k > m => k = n
      BY <1>2
    <2> QED
      BY <1>2, <2>1 DEF NoActivation, Own
  <1>7. BindsMove(0, 0)
    <2>1. SUFFICES ASSUME NEW g \in 1..Len(fns) PROVE scopes'[fns[g].scope] = scopes[fns[g].scope]
      BY <2>1 DEF BindsMove, KeptIn
    <2>2. fns[g].scope \in 1..Len(scopes) /\ scopes[fns[g].scope].kind = "function"
      BY FnScopeIs
    <2>3. scopes[x].kind = Top.kind
      BY <1>2 DEF FrameOK
    <2>4. fns[g].scope # x
      BY <2>2, <2>3 DEF Own
    <2> QED
      BY <1>3, <2>2, <2>4
  <1>8. \A k \in 1..Len(frames) : k < m => k < n
    BY <1>2
  <1> HIDE DEF x
  <1>9. KeepsFnAt(scopes, scopes', x)
    BY <1>3 DEF KeepsFnAt, FnAt
  <1>10. SameFrame(m, f, x) /\ status' = "running"
    BY <1>1, <1>2, <1>5 DEF SameFrame
  <1> HIDE DEF m, f, n
  <1> QED
    BY <1>1, <1>2, <1>4, <1>5, <1>6, <1>7, <1>8, <1>9, <1>10, RunQuiet DEF n

(* A call of a function that runs already finds its parameter bound, and   *)
(* ends the program; so the function of a call that starts does not run,   *)
(* or has no parameter.                                                    *)
LEMMA CallBodyRuns ==
  ASSUME Base, Base', Linked, RunInv, CallBody
  PROVE  RunInv'
  <1>0. RuntimeError => RunInv'
    BY DEF RuntimeError, Exit, RunInv
  <1> SUFFICES ASSUME ~RuntimeError PROVE RunInv'
    BY <1>0
  <1> DEFINE r    == PointsAt(Top.callee).ref
             f    == [kind |-> "call", scope |-> Top.scope, callee |-> Top.callee, val |-> Top.val]
             y    == fns[r].scope
             name == fns[r].param
             binding == Binding(Top.val, TRUE)
             m == Len(frames)
  <1>1. /\ status = "running" /\ status' = "running" /\ Top.kind = "args" /\ Top.val.type # "VAL_FUNCTION"
        /\ frames' = SetTop(f) /\ fns' = fns
    BY CallBodyBinds
  <1>2. ValidCallee(Top.callee)
    BY DEF CallBody
  <1>3. /\ m \in 1..Len(frames) /\ Sequence(frames) /\ m > 0 /\ Top = frames[m] /\ m \in Nat
        /\ Len(scopes) \in Nat
    BY <1>1, TopIs DEF Top
  <1>4. FnAt(scopes, Top.callee.scope, Top.callee.name, r) /\ r \in 1..Len(fns)
    BY <1>1, <1>2, <1>3, CalleeAt
  <1>5. \/ name = NoName /\ Written(scopes, scopes', 0, name, binding)
        \/ name # NoName /\ name \notin Names(scopes[y]) /\ Written(scopes, scopes', y, name, binding)
    BY CallBodyWrites
  <1>6. y \in 1..Len(scopes) /\ scopes[y].kind = "function" /\ y # 0
    BY <1>1, <1>4, FnScopeIs
  <1>7. binding.value.type # "VAL_FUNCTION"
    BY <1>1 DEF Binding
  <1>8. f.kind = "call" /\ f.scope = Top.scope /\ f.callee = Top.callee /\ f.val = Top.val
    OBVIOUS
  <1> HIDE DEF f, r
  <1>9. StackTo(m, f)
    BY <1>1, <1>3, TopTo
  <1>10. KeepsFnAt(scopes, scopes', 0)
    <2> HIDE DEF binding, y, name
    <2> QED
      BY <1>1, <1>5, <1>6, <1>7, WrittenLinked
  <1>11. BindsMove(0, r)
    <2>1. \A g \in 1..Len(fns) : fns[g].scope = y => g = r \/ IsActive(g)
      BY <1>1, <1>4 DEF RunInv, OwnScopes
    <2> HIDE DEF binding, y, name
    <2> QED
      BY <1>1, <1>5, <2>1, WrittenKept
  <1>12. \A g : ~ActiveOf(frames[m], scopes, g) /\ (ActiveOf(f, scopes', g) <=> g = r)
    <2>1. FnAt(scopes', Top.callee.scope, Top.callee.name, r)
      <3>1. Top.callee.scope # 0
        BY <1>4 DEF FnAt
      <3> QED
        BY <1>4, <1>10, <3>1 DEF KeepsFnAt
    <2>2. \A g : FnAt(scopes', Top.callee.scope, Top.callee.name, g) <=> g = r
      BY <2>1 DEF FnAt
    <2>3. Top.kind = "args"
      BY <1>1
    <2>4. \A g : ~ActiveOf(Top, scopes, g)
      BY <2>3 DEF ActiveOf
    <2>5. \A g : ActiveOf(f, scopes', g) <=> g = r
      BY <1>8, <2>2 DEF ActiveOf
    <2> QED
      BY <1>3, <2>4, <2>5
  <1>13. BoundTo(f, fns[r], scopes')
    <2>1. name # NoName => name \in Names(scopes'[y]) /\ scopes'[y].vals[name] = binding
      <3> HIDE DEF binding, y, name
      <3> QED
        BY <1>5, <1>6 DEF Written
    <2> QED
      BY <1>8, <2>1 DEF BoundTo
  <1>14. fns[r].param # NoName => ~IsActive(r)
    <2>1. ParamBound
      BY <1>1 DEF RunInv
    <2> QED
      BY <1>4, <1>5, <2>1 DEF ParamBound, BoundTo, IsActive
  <1>15. FnsMove(0) /\ Len(fns) <= Len(fns') /\ 0 \notin 1..Len(fns) /\ 0 \notin 1..Len(fns')
    BY <1>1, SameFnsMove
  <1> HIDE DEF m
  <1>16. TopMove(m, f, 0, 0, r)
    <2>1. Starts(m, f, 0, r)
      BY <1>3, <1>4, <1>8, <1>12, <1>13, <1>14, <1>15 DEF Starts
    <2> QED
      BY <1>3, <1>8, <2>1 DEF TopMove
  <1>17. Ends(m, f, 0)
    <2>1. \A k \in 1..Len(frames) : k >= m => k = m
      BY <1>3 DEF m
    <2> QED
      BY <1>12, <1>15, <2>1 DEF Ends
  <1>18. \A k \in 1..Len(frames) : k < m /\ frames[k].kind = "call" => frames[k].callee.scope # 0
    <2>1. \A k \in 1..Len(frames) : frames[k].kind = "call" => frames[k].callee.scope \in 1..frames[k].scope
      BY DEF Base, FramesOK, FrameOK
    <2> QED
      BY <2>1
  <1> QED
    BY <1>1, <1>9, <1>10, <1>11, <1>15, <1>16, <1>17, <1>18, RunStep

(* array_filter calls its function when it does not run, with nothing      *)
(* bound in its scope: the element is bound there.                         *)
LEMMA FilterCallRuns ==
  ASSUME Base, Base', Linked, RunInv, FilterCall
  PROVE  RunInv'
  <1> DEFINE r    == Top.fn
             y    == fns[r].scope
             name == fns[r].param
             v    == val_copy_deep(Element, tbl).val
             binding == Binding(v, TRUE)
             f    == [Top EXCEPT !.new_scope = y, !.val = v]
             m    == Len(frames)
  <1>1. /\ status = "running" /\ status' = "running" /\ Top.kind = "filter" /\ Top.new_scope = 0
        /\ frames' = SetTop(f) /\ fns' = fns
    BY DEF FilterCall
  <1>2. /\ m \in 1..Len(frames) /\ Sequence(frames) /\ m > 0 /\ Top = frames[m] /\ m \in Nat
        /\ FrameOK(Top, scopes, tbl, Len(fns)) /\ TableOK(tbl)
    BY <1>1, TopIs DEF Top
  <1>3. f.kind = "filter" /\ f.scope = Top.scope /\ f.fn = r /\ f.new_scope = y /\ f.val = v
    <2>1. f = FilterFrame(Top.scope, Top.fn, Top.left, y, v)
      <3>1. Top = FilterFrame(Top.scope, Top.fn, Top.left, Top.new_scope, Top.val)
        BY <1>1, <1>2, FilterFrameOf DEF FrameOK
      <3> HIDE DEF y, v
      <3>2. f = Called(Top, y, v)
        BY Zenon DEF Called
      <3> QED
        BY ONLY <3>1, <3>2, CalledIs
    <2> HIDE DEF f
    <2> QED
      BY <2>1, FilterFrameIs
  <1> HIDE DEF f
  <1>4. StackTo(m, f)
    BY <1>1, <1>2, TopTo
  <1>5. binding.value.type # "VAL_FUNCTION"
    <2>1. ValueIn(Element, tbl) /\ Element.type = "VAL_INTEGER"
      BY <1>2, ElementIs
    <2>2. v.type = "VAL_INTEGER"
      BY <1>2, <2>1, CopyDeepIs
    <2> HIDE DEF v
    <2> QED
      BY <2>2 DEF Binding
  <1>6. r \in 1..Len(fns)
    BY <1>1, <1>2 DEF FrameOK
  <1>7. y \in 1..Len(scopes) /\ scopes[y].kind = "function" /\ y # 0
    BY <1>1, <1>6, FnScopeIs
  <1>8. ~IsActive(r)
    <2>1. SUFFICES ASSUME NEW j \in 1..Len(frames), ActiveOf(frames[j], scopes, r) PROVE FALSE
      BY DEF IsActive
    <2>2. j # m
      BY <1>1, <1>2, <2>1 DEF ActiveOf
    <2>3. j < m
      BY <1>2, <2>2
    <2> QED
      BY <1>1, <1>2, <2>1, <2>3 DEF RunInv, CallbackOnce
  <1>9. Names(scopes[y]) = {}
    BY <1>1, <1>6, <1>8 DEF RunInv, EmptyAtRest
  <1>10. \/ name = NoName /\ Written(scopes, scopes', 0, name, binding)
         \/ name # NoName /\ Written(scopes, scopes', y, name, binding)
    <2>1. \/ name = NoName \/ name \in Names(scopes[y])
          \/ name # NoName
      OBVIOUS
    <2>2. \/ (name = NoName \/ name \in Names(scopes[y])) /\ Written(scopes, scopes', 0, name, binding)
          \/ name # NoName /\ Written(scopes, scopes', y, name, binding)
      BY FilterCallWrites
    <2> HIDE DEF y, name, binding
    <2> QED
      BY <1>9, <2>2
  <1> HIDE DEF r
  <1>11. KeepsFnAt(scopes, scopes', 0)
    <2> HIDE DEF binding, y, name
    <2> QED
      BY <1>1, <1>5, <1>7, <1>10, WrittenLinked
  <1>12. BindsMove(0, r)
    <2>1. \A g \in 1..Len(fns) : fns[g].scope = y => g = r \/ IsActive(g)
      BY <1>1, <1>6 DEF RunInv, OwnScopes
    <2> HIDE DEF binding, y, name
    <2> QED
      BY <1>1, <1>10, <2>1, WrittenKept
  <1>13. \A g : ~ActiveOf(frames[m], scopes, g) /\ (ActiveOf(f, scopes', g) <=> g = r)
    <2>1. \A g : ~ActiveOf(Top, scopes, g)
      BY <1>1 DEF ActiveOf
    <2>2. \A g : ActiveOf(f, scopes', g) <=> g = r
      BY <1>3, <1>7 DEF ActiveOf
    <2> QED
      BY <1>2, <2>1, <2>2
  <1>14. BoundTo(f, fns[r], scopes')
    <2>1. name # NoName => name \in Names(scopes'[y]) /\ scopes'[y].vals[name] = binding
      <3> HIDE DEF binding, y, name
      <3> QED
        BY <1>7, <1>10 DEF Written
    <2> HIDE DEF v
    <2> QED
      BY <1>3, <2>1 DEF BoundTo
  <1>15. FnsMove(0) /\ Len(fns) <= Len(fns') /\ 0 \notin 1..Len(fns) /\ 0 \notin 1..Len(fns')
    BY <1>1, SameFnsMove
  <1>16. /\ f.scope = frames[m].scope
         /\ frames[m].kind = "filter" /\ f.fn = frames[m].fn
    BY <1>1, <1>2, <1>3 DEF r
  <1> HIDE DEF v
  <1>17. TopMove(m, f, 0, 0, r)
    <2>1. f.new_scope = fns[r].scope /\ f.fn = r
      BY <1>3
    <2> HIDE DEF m
    <2>2. Starts(m, f, 0, r)
      BY <1>2, <1>6, <1>8, <1>13, <1>14, <1>15, <2>1 DEF Starts
    <2> QED
      BY <1>2, <1>16, <2>2 DEF TopMove
  <1> HIDE DEF m
  <1>18. Ends(m, f, 0)
    <2>1. \A k \in 1..Len(frames) : k >= m => k = m
      BY <1>2 DEF m
    <2> QED
      BY <1>13, <1>15, <2>1 DEF Ends
  <1>19. \A k \in 1..Len(frames) : k < m /\ frames[k].kind = "call" => frames[k].callee.scope # 0
    <2>1. \A k \in 1..Len(frames) : frames[k].kind = "call" => frames[k].callee.scope \in 1..frames[k].scope
      BY DEF Base, FramesOK, FrameOK
    <2> QED
      BY <2>1
  <1> QED
    BY <1>1, <1>4, <1>11, <1>12, <1>15, <1>17, <1>18, <1>19, RunStep

LEMMA FnDeclRuns ==
  ASSUME Base, Base', Linked, RunInv, NEW name \in FnName, NEW param \in ParamName \cup {NoName},
         eval_fn_decl(name, param)
  PROVE  RunInv'
  <1>0. RuntimeError => RunInv'
    BY DEF RuntimeError, Exit, RunInv
  <1> SUFFICES ASSUME ~RuntimeError PROVE RunInv'
    BY <1>0
  <1> DEFINE y == EvalScope
             q == Len(fns) + 1
             s == Len(scopes) + 1
             m == Len(frames)
             binding == Binding(Val("VAL_FUNCTION", 0, q), TRUE)
  <1>1. /\ AtStatement /\ status = "running" /\ UNCHANGED <<tbl, frames, status>>
        /\ fns'[q] = [scope |-> s, param |-> param] /\ Len(fns') = q
        /\ \A g \in 1..Len(fns) : fns'[g] = fns[g]
    BY FnDeclBinds
  <1>2. Written(scopes, scopes', y, name, binding) /\ scopes'[s] = NewScope("function", y)
    BY FnDeclWrites
  <1>3. Len(scopes) \in Nat /\ Len(fns) \in Nat /\ m \in Nat /\ m \in 1..Len(frames) /\ Top = frames[m]
        /\ Sequence(frames) /\ m > 0
    BY <1>1, TopIs DEF Top
  <1>4. Names(scopes'[s]) = {}
    <2>1. Names(NewScope("function", y)) = {}
      BY NewScopeIs
    <2> QED
      BY <1>2, <2>1
  <1>5. /\ q \notin 1..Len(fns) /\ Len(fns) <= Len(fns') /\ s > Len(scopes)
        /\ \A g \in 1..Len(fns') : g # q => g \in 1..Len(fns)
    BY <1>1, <1>3
  <1>6. fns'[q].scope = s
    BY <1>1
  <1>7. KeepsFnAt(scopes, scopes', 0)
    BY FnDeclFns
  <1>8. \A g \in 1..Len(fns) : fns[g].scope = y => IsActive(g)
    BY <1>1, EvalActive
  <1>9. StackTo(m, frames[m])
    BY <1>1, <1>3, StayTo
  <1>10. \A k \in 1..Len(frames) : frames[k].kind = "call" => frames[k].callee.scope # 0
    <2>1. \A k \in 1..Len(frames) : frames[k].kind = "call" => frames[k].callee.scope \in 1..frames[k].scope
      BY DEF Base, FramesOK, FrameOK
    <2> QED
      BY <2>1
  <1>11. \A k \in 1..Len(frames) : k >= m => k = m
    BY <1>3
  <1> HIDE DEF y, s, q, m, binding
  <1>12. FnsMove(q)
    BY <1>1, <1>4, <1>5, <1>6 DEF FnsMove
  <1>13. BindsMove(q, 0)
    BY <1>1, <1>2, <1>8, WrittenKept
  <1>14. TopMove(m, frames[m], 0, q, 0)
    BY <1>3, <1>10 DEF TopMove, SameFrame
  <1>15. Ends(m, frames[m], q)
    BY <1>5, <1>11 DEF Ends
  <1>16. status' = "running"
    BY <1>1
  <1> QED
    BY <1>1, <1>5, <1>7, <1>9, <1>10, <1>12, <1>13, <1>14, <1>15, <1>16, RunStep

(* After a call its function has a new scope, with nothing in it.          *)
LEMMA NewFnMoves ==
  ASSUME Base, status = "running", NEW p, NEW q \in 1..Len(fns),
         scopes' = scope_init(scopes, "function", p), fns' = [fns EXCEPT ![q].scope = Len(scopes) + 1]
  PROVE  FnsMove(q) /\ BindsMove(q, 0) /\ Len(fns) <= Len(fns')
  <1> DEFINE s == Len(scopes) + 1
             binding == Binding(BLAZE_NULL, TRUE)
  <1>1. Len(scopes) \in Nat /\ Len(fns) \in Nat /\ Sequence(fns) /\ DOMAIN fns = 1..Len(fns)
    BY TreeOf, SequenceIs DEF Base, FnsOK
  <1>2. "function" \in ScopeKind
    BY DEF ScopeKind
  <1> HIDE DEF binding
  <1>3. Written(scopes, scopes', 0, NoName, binding) /\ scopes'[s] = NewScope("function", p)
    BY <1>2, CallEndsWrites
  <1>4. Names(scopes'[s]) = {}
    <2>1. Names(NewScope("function", p)) = {}
      BY NewScopeIs
    <2> QED
      BY <1>3, <2>1
  <1>5. fns[q] = [scope |-> fns[q].scope, param |-> fns[q].param]
    BY DEF Base, FnsOK, FnOK
  <1>6. fns' = [fns EXCEPT ![q] = [fns[q] EXCEPT !.scope = s]]
    OBVIOUS
  <1>7. [fns[q] EXCEPT !.scope = s].scope = s /\ [fns[q] EXCEPT !.scope = s].param = fns[q].param
    BY <1>5
  <1>8. s > Len(scopes)
    BY <1>1
  <1> HIDE DEF s
  <1>9. fns'[q].scope = s /\ fns'[q].param = fns[q].param
    BY <1>1, <1>6, <1>7
  <1>10. \A g \in 1..Len(fns) : g # q => fns'[g] = fns[g]
    BY <1>1, <1>6
  <1>11. Len(fns') = Len(fns)
    BY <1>1, <1>6
  <1>12. FnsMove(q)
    BY <1>4, <1>8, <1>9, <1>10, <1>11 DEF FnsMove
  <1>13. BindsMove(q, 0)
    BY <1>3, WrittenKept
  <1> QED
    BY <1>1, <1>11, <1>12, <1>13

LEMMA CallEndsRuns ==
  ASSUME Base, Base', Linked, RunInv, NEW e \in Expr, CallEnds(e)
  PROVE  RunInv'
  <1>0. RuntimeError => RunInv'
    BY DEF RuntimeError, Exit, RunInv
  <1> SUFFICES ASSUME ~RuntimeError PROVE RunInv'
    BY <1>0
  <1> DEFINE v == val_copy_deep(Eval(e, EvalScope).val, Eval(e, EvalScope).tbl).val
             q == PointsAt(Top.callee).ref
             p == Top.scope
             n == Len(frames)
             m == n - 1
             f == Given(frames[m], v)
  <1>1. /\ AtStatement /\ status = "running" /\ status' = "running" /\ Top.kind = "call"
        /\ ValidCallee(Top.callee)
        /\ frames' = Deliver(Front(frames), v)
        /\ scopes' = scope_init(scopes, "function", p)
        /\ fns' = [fns EXCEPT ![q].scope = Len(scopes) + 1]
    BY DEF CallEnds, AtStatement
  <1>2. /\ p \in 1..Len(scopes) /\ n > 1 /\ Sequence(frames) /\ m \in 1..n
        /\ Top = frames[n] /\ n \in 1..n /\ n \in Nat
    BY <1>1, TopIs DEF Top
  <1>3. FnAt(scopes, Top.callee.scope, Top.callee.name, q) /\ q \in 1..Len(fns)
    BY <1>1, <1>2, CalleeAt
  <1>4. Reaches(scopes, p, Top.callee.scope)
    BY <1>1, <1>2 DEF Linked, FrameLinked
  <1> HIDE DEF v, q, p
  <1>5. KeepsFnAt(scopes, scopes', 0)
    BY <1>1, <1>2, <1>3, <1>4, NewFnLinked
  <1>6. FnsMove(q) /\ BindsMove(q, 0) /\ Len(fns) <= Len(fns')
    BY <1>1, <1>3, NewFnMoves
  <1>7. StackTo(m, f)
    BY <1>1, <1>2, DeliverTo
  <1>8. \A k \in 1..Len(frames) : k >= m => k = m \/ k = n
    BY <1>2
  <1>9. m < n
    BY <1>2
  <1>10. \A g : ActiveOf(Top, scopes, g) <=> g = q
    BY <1>1, <1>3 DEF ActiveOf, FnAt
  <1>11. \A k \in 1..Len(frames) : frames[k].kind = "call" => frames[k].callee.scope # 0
    <2>1. \A k \in 1..Len(frames) : frames[k].kind = "call" => frames[k].callee.scope \in 1..frames[k].scope
      BY DEF Base, FramesOK, FrameOK
    <2> QED
      BY <2>1
  <1> HIDE DEF m
  <1>12. FrameShape(frames[m])
    BY <1>2 DEF Base, FramesOK, FrameOK
  <1>13. \/ f = frames[m]
         \/ NoActivation(f) /\ NoActivation(frames[m]) /\ f.kind # "filter" /\ f.scope = frames[m].scope
    BY <1>12, GivenFrame
  <1> HIDE DEF f
  <1>14. TopMove(m, f, 0, q, 0)
    BY <1>2, <1>11, <1>13 DEF TopMove, SameFrame
  <1>15. Ends(m, f, q)
    <2>1. ASSUME NEW k \in 1..Len(frames), NEW g \in 1..Len(fns), k >= m, ActiveOf(frames[k], scopes, g)
          PROVE  g = q \/ (k = m /\ f = frames[m])
      <3>1. CASE k = n
        BY <1>2, <1>10, <2>1, <3>1
      <3>2. CASE k = m
        BY <1>13, <2>1, <3>2, NotActive
      <3> QED
        BY <1>8, <2>1, <3>1, <3>2
    <2>2. ActiveOf(Top, scopes, q)
      BY <1>10
    <2> QED
      BY <1>9, <2>1, <2>2 DEF Ends, n
  <1> QED
    BY <1>1, <1>5, <1>6, <1>7, <1>11, <1>14, <1>15, RunStep

LEMMA FilterCallEndsRuns ==
  ASSUME Base, Base', Linked, RunInv, NEW e \in Expr, FilterCallEnds(e)
  PROVE  RunInv'
  <1>0. RuntimeError => RunInv'
    BY DEF RuntimeError, Exit, RunInv
  <1> SUFFICES ASSUME ~RuntimeError PROVE RunInv'
    BY <1>0
  <1> DEFINE q == Top.fn
             p == Top.scope
             m == Len(frames)
             f == [Top EXCEPT !.left = @ - 1, !.new_scope = 0, !.val = NoVal]
  <1>1. /\ status = "running" /\ status' = "running" /\ Top.kind = "filter" /\ Top.new_scope # 0
        /\ frames' = SetTop(f)
        /\ scopes' = scope_init(scopes, "function", p)
        /\ fns' = [fns EXCEPT ![q].scope = Len(scopes) + 1]
    BY DEF FilterCallEnds, AtStatement
  <1>2. /\ p \in 1..Len(scopes) /\ Sequence(frames) /\ m > 0 /\ m \in 1..Len(frames) /\ Top = frames[m]
        /\ FrameOK(Top, scopes, tbl, Len(fns)) /\ m \in Nat
    BY <1>1, TopIs DEF Top
  <1>3. q \in 1..Len(fns)
    BY <1>1, <1>2 DEF FrameOK
  <1>4. \E h, n : FnAt(scopes, h, n, q) /\ Reaches(scopes, p, h)
    <2>1. FrameLinked(Top, scopes)
      BY <1>1, <1>2 DEF Linked
    <2> QED
      BY <1>1, <2>1 DEF FrameLinked
  <1>5. f.kind = "filter" /\ f.scope = p /\ f.fn = q /\ f.new_scope = 0
    <2>1. f = FilterFrame(Top.scope, Top.fn, Top.left - 1, 0, NoVal)
      <3>1. Top = FilterFrame(Top.scope, Top.fn, Top.left, Top.new_scope, Top.val)
        BY <1>1, <1>2, FilterFrameOf DEF FrameOK
      <3>2. f = NextElement(Top, Top.left - 1)
        BY Zenon DEF NextElement
      <3> QED
        BY ONLY <3>1, <3>2, NextElementIs
    <2> HIDE DEF f
    <2> QED
      BY <2>1, FilterFrameIs
  <1> HIDE DEF f
  <1>6. StackTo(m, f)
    BY <1>1, <1>2, TopTo
  <1>7. NoActivation(f) /\ f.scope = frames[m].scope /\ frames[m].kind = "filter" /\ f.fn = frames[m].fn
    BY <1>1, <1>2, <1>5 DEF NoActivation
  <1>8. \A g : ActiveOf(Top, scopes, g) <=> g = q
    BY <1>1 DEF ActiveOf
  <1>9. \A k \in 1..Len(frames) : k >= m => k = m
    BY <1>2
  <1>10. \A k \in 1..Len(frames) : k < m /\ frames[k].kind = "call" => frames[k].callee.scope # 0
    <2>1. \A k \in 1..Len(frames) : frames[k].kind = "call" => frames[k].callee.scope \in 1..frames[k].scope
      BY DEF Base, FramesOK, FrameOK
    <2> QED
      BY <2>1
  <1> HIDE DEF m, p, q
  <1>11. KeepsFnAt(scopes, scopes', 0)
    BY <1>1, <1>2, <1>3, <1>4, NewFnLinked
  <1>12. FnsMove(q) /\ BindsMove(q, 0) /\ Len(fns) <= Len(fns')
    BY <1>1, <1>3, NewFnMoves
  <1>13. TopMove(m, f, 0, q, 0)
    BY <1>2, <1>7 DEF TopMove
  <1>14. Ends(m, f, q)
    BY <1>2, <1>7, <1>8, <1>9 DEF Ends
  <1> QED
    BY <1>1, <1>6, <1>10, <1>11, <1>12, <1>13, <1>14, RunStep

LEMMA InitRuns ==
  ASSUME Init
  PROVE  RunInv
  <1> DEFINE root == [kind |-> "root", scope |-> Global]
  <1>1. fns = <<>> /\ frames = <<root>>
    BY DEF Init
  <1>2. root.kind = "root"
    OBVIOUS
  <1> HIDE DEF root
  <1>3. Len(frames) = 1 /\ frames[1] = root /\ 1..Len(fns) = {}
    BY <1>1
  <1>4. frames[1].kind = "root"
    BY <1>2, <1>3
  <1>5. OwnScopes /\ EmptyAtRest /\ InsideOnly /\ CallbackScope /\ ParamBound /\ NotTwice
    BY <1>3 DEF OwnScopes, EmptyAtRest, InsideOnly, CallbackScope, ParamBound, NotTwice
  <1>6. CallbackOnce
    BY <1>3, <1>4 DEF CallbackOnce
  <1> QED
    BY <1>5, <1>6 DEF RunInv

LEMMA NextRuns ==
  ASSUME Base, Base', Linked, RunInv, [Next]_vars
  PROVE  RunInv'
  <1>0. LoopCount \subseteq Nat
    BY EvalAssumption
  <1>1. CASE UNCHANGED vars
    <2>1. scopes' = scopes /\ fns' = fns /\ frames' = frames /\ status' = status
      BY <1>1 DEF vars
    <2>2. CASE status # "running"
      BY <2>1, <2>2 DEF RunInv
    <2>3. CASE status = "running"
      <3>1. OwnScopes' /\ CallbackScope'
        BY <2>1, <2>3 DEF RunInv, OwnScopes, CallbackScope
      <3>2. EmptyAtRest' /\ InsideOnly'
        BY <2>1, <2>3 DEF RunInv, EmptyAtRest, IsActive, InsideOnly
      <3>3. ParamBound' /\ NotTwice' /\ CallbackOnce'
        BY <2>1, <2>3 DEF RunInv, ParamBound, NotTwice, CallbackOnce
      <3> QED
        BY <3>1, <3>2, <3>3 DEF RunInv
    <2> QED
      BY <2>2, <2>3
  <1>2. CASE status # "running" /\ status' # "running"
    BY <1>2 DEF RunInv
  <1>3. ASSUME Next, status = "running" PROVE RunInv'
    <2>1. CASE \E name \in VarName, is_const \in BOOLEAN : eval_var_decl(name, is_const)
      BY <1>3, <2>1, QuietRuns
    <2>2. CASE \E name \in Name : eval_assignment(name)
      BY <1>3, <2>2, QuietRuns
    <2>3. CASE \E e \in Expr : eval_leaf(e) \/ CallEnds(e) \/ FilterCallEnds(e)
      BY <1>3, <2>3, QuietRuns, CallEndsRuns, FilterCallEndsRuns
    <2>4. CASE \E name \in FnName, n \in FilterCount : array_filter(name, n)
      BY <1>3, <2>4, PushesRun
    <2>5. CASE FilterCall \/ FilterEnds
      BY <1>3, <2>5, QuietRuns, FilterCallRuns
    <2>6. CASE \E operator \in Operators, e, f \in Expr : BinaryExpr(operator, e, f)
      BY <1>3, <2>6, QuietRuns
    <2>7. CASE \E name \in FnName, param \in ParamName \cup {NoName} : eval_fn_decl(name, param)
      BY <2>7, FnDeclRuns
    <2>8. CASE \E name \in FnName, argc \in {0, 1} : eval_expr_call(name, argc)
      BY <1>3, <2>8, PushesRun
    <2>9. CASE \E name \in VarName \cup {NoName}, count \in LoopCount : eval_loop_stmt(name, count)
      BY <1>0, <2>9, LoopRuns
    <2>10. CASE eval_block
      BY <2>10, BlockRuns
    <2>11. CASE BlockEnds \/ LoopEnds
      BY <1>3, <2>11, FreeTopRuns DEF BlockEnds, LoopEnds, Own
    <2>12. CASE LoopAgain
      BY <2>12, LoopAgainRuns
    <2>13. CASE VarDeclEnds
      BY <2>13, VarDeclRuns
    <2>14. CASE AssignmentEnds
      BY <2>14, AssignmentRuns
    <2>15. CASE CallBody
      BY <2>15, CallBodyRuns
    <2>16. CASE ProgramEnds
      BY <2>16 DEF ProgramEnds, RunInv
    <2>17. CASE BuiltinExit \/ CalleeLost
      BY <2>17 DEF BuiltinExit, CalleeLost, Exit, RunInv
    <2>18. CASE Terminated
      BY <1>3, <2>18 DEF Terminated
    <2> QED
      BY <1>3, <2>1, <2>2, <2>3, <2>4, <2>5, <2>6, <2>7, <2>8, <2>9, <2>10, <2>11, <2>12, <2>13, <2>14,
         <2>15, <2>16, <2>17, <2>18 DEF Next, Basics, FunctionsAndCalls, LoopsAndOperators
  <1>4. ASSUME Next, status # "running" PROVE status' # "running" \/ UNCHANGED vars
    BY <1>4
       DEF Next, Basics, FunctionsAndCalls, LoopsAndOperators,
       eval_var_decl, eval_assignment, eval_leaf, CallEnds, FilterCallEnds, array_filter,
       FilterCall, FilterEnds, BinaryExpr, eval_fn_decl, eval_expr_call, eval_loop_stmt, eval_block,
       BlockEnds, LoopEnds, LoopAgain, VarDeclEnds, AssignmentEnds, CallBody, ProgramEnds, BuiltinExit,
       CalleeLost, Terminated, AtStatement, AtExpr, HasValue
  <1> QED
    BY <1>1, <1>2, <1>3, <1>4

LEMMA AlwaysRun ==
  ASSUME SteadyCalls
  PROVE  Spec => []RunInv
  <1>1. Init => RunInv
    BY InitRuns
  <1>2. Base /\ Base' /\ Linked /\ RunInv /\ [Next]_vars => RunInv'
    BY NextRuns
  <1> QED
    BY <1>1, <1>2, AlwaysBase, AlwaysLinked, PTL DEF Spec

(* Programs whose calls are steady: while a function runs, called or as    *)
(* the callback of array_filter, its parameter is bound to its argument or *)
(* its element, whatever it declares and calls.                            *)
THEOREM ParamsBound ==
  ASSUME SteadyCalls
  PROVE  Spec => []ParamInv
  <1>1. ASSUME Base, RunInv PROVE ParamInv
    <2> SUFFICES ASSUME status = "running", NEW k \in 1..Len(frames), Activation(k),
                        frames[k].kind = "call" => ValidCallee(frames[k].callee),
                        fns[FnOf(frames[k])].param # NoName
                 PROVE  LET fn == fns[FnOf(frames[k])]
                            s  == IF frames[k].kind = "call" THEN fn.scope ELSE frames[k].new_scope
                        IN  /\ fn.param \in Names(scopes[s])
                            /\ scopes[s].vals[fn.param].value = frames[k].val
      <3>1. DOMAIN frames = 1..Len(frames)
        BY <1>1, SequenceIs DEF Base, FramesOK
      <3> QED
        BY <3>1 DEF ParamInv
    <2> DEFINE g == FnOf(frames[k])
    <2>1. ActiveOf(frames[k], scopes, g)
      BY <1>1, CalleeAt DEF Activation, FnOf, ActiveOf
    <2>2. g \in 1..Len(fns)
      BY <1>1, <2>1, ActiveRange
    <2>3. frames[k].kind # "call" => frames[k].kind = "filter"
      BY DEF Activation
    <2> HIDE DEF g
    <2>4. BoundTo(frames[k], fns[g], scopes)
      BY <1>1, <2>1, <2>2 DEF RunInv, ParamBound
    <2>5. Binding(frames[k].val, TRUE).value = frames[k].val
      BY DEF Binding
    <2> DEFINE s == IF frames[k].kind = "call" THEN fns[g].scope ELSE frames[k].new_scope
    <2>6. s = fns[g].scope
      BY <2>3, <2>4 DEF BoundTo, g
    <2> HIDE DEF s
    <2>7. fns[g].param \in Names(scopes[s]) /\ scopes[s].vals[fns[g].param].value = frames[k].val
      BY <2>4, <2>5, <2>6 DEF BoundTo, g
    <2> QED
      BY <2>7 DEF g, s
  <1> QED
    BY <1>1, AlwaysBase, AlwaysRun, PTL
=============================================================================
