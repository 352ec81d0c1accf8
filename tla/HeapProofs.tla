----------------------------- MODULE HeapProofs -----------------------------
(***************************************************************************)
(* Who owns the heap values of src/valalloc.c while src/eval.c runs: no    *)
(* string that the running code can reach has been released, and nothing   *)
(* is given back twice, in programs of any size.                           *)
(***************************************************************************)
EXTENDS EvalProofs

-----------------------------------------------------------------------------
(* The invariant.                                                          *)
ValueAt(ss, s, n) == ss[s].vals[n].value

(* A scope that will be freed gives back the slots of what it binds; one   *)
(* of a function never does.                                               *)
Owner(ss, s, n) ==
  /\ s \in 1..Len(ss) /\ ss[s].kind # "function"
  /\ n \in Names(ss[s]) /\ ValueAt(ss, s, n).self_ptr # 0

HasString(ss, s, n) ==
  s \in 1..Len(ss) /\ n \in Names(ss[s]) /\ ValueAt(ss, s, n).type = "VAL_STRING"

(* The slot of the value is in use, and for this value.                    *)
Holding(t, v) ==
  /\ v.self_ptr \notin Free(t)
  /\ t.values[v.self_ptr].type = v.type
  /\ v.type = "VAL_STRING" => t.values[v.self_ptr].ref = v.ref

SlotsHeld(ss, t) == \A s, n : Owner(ss, s, n) => Holding(t, ValueAt(ss, s, n))

OneOwner(ss) ==
  \A s, n, r, m :
    /\ Owner(ss, s, n) /\ Owner(ss, r, m)
    /\ ValueAt(ss, s, n).self_ptr = ValueAt(ss, r, m).self_ptr
    => s = r /\ n = m

(* Another binding of a string that a scope owns is a parameter, in a      *)
(* function below that scope.                                              *)
Borrowed(ss) ==
  \A s, n, r, m :
    /\ Owner(ss, s, n) /\ HasString(ss, s, n) /\ HasString(ss, r, m)
    /\ ValueAt(ss, s, n).ref = ValueAt(ss, r, m).ref
    => (s = r /\ n = m) \/ (ss[r].kind = "function" /\ s \in Chain(ss, r))

(* What is left of a released string is out of reach: a search for it      *)
(* would meet the scope that was freed.                                    *)
OutOfReach(ss, t) ==
  \A r, m : HasString(ss, r, m) /\ ValueAt(ss, r, m).ref \in t.freed =>
    \E s \in Chain(ss, r) : ~ss[s].live

HeapOK(ss, t) ==
  /\ HeadOK(t)
  /\ SlotsHeld(ss, t) /\ OneOwner(ss) /\ Borrowed(ss) /\ OutOfReach(ss, t)

(* A value that waits to be bound: nobody else has it, or, as an argument, *)
(* its owner encloses the caller.                                          *)
Harmless(v) == v.self_ptr = 0 /\ v.type # "VAL_STRING"

Unowned(ss, t, v) ==
  /\ v.self_ptr # 0 =>
       Holding(t, v) /\ \A s, n : Owner(ss, s, n) => ValueAt(ss, s, n).self_ptr # v.self_ptr
  /\ v.type = "VAL_STRING" =>
       v.ref \notin t.freed /\ \A r, m : HasString(ss, r, m) => ValueAt(ss, r, m).ref # v.ref

Lent(ss, t, x, v) ==
  v.type = "VAL_STRING" =>
    /\ v.ref \notin t.freed
    /\ \A s, n : Owner(ss, s, n) /\ HasString(ss, s, n) /\ ValueAt(ss, s, n).ref = v.ref => s \in Chain(ss, x)

Pending(f, ss, t) ==
  /\ f.kind \in {"var_decl", "assignment"} => Unowned(ss, t, f.val)
  /\ f.kind = "args" => Lent(ss, t, f.scope, f.val)

HeapInv ==
  /\ HeapOK(scopes, tbl)
  /\ status = "running" => Pending(Top, scopes, tbl)

ValuesIn(ss, t) == \A s \in 1..Len(ss) : \A n \in Names(ss[s]) : ValueIn(ValueAt(ss, s, n), t)

-----------------------------------------------------------------------------
(* What can happen to the table and the scopes.                            *)
LEMMA OwnerIn ==
  ASSUME NEW ss, NEW t, TableOK(t), ValuesIn(ss, t), NEW s, NEW n
  PROVE  /\ Owner(ss, s, n) => ValueAt(ss, s, n).self_ptr \in 1..Len(t.values)
         /\ HasString(ss, s, n) => /\ ValueAt(ss, s, n).ref \in 1..Len(t.texts)
                                   /\ ValueAt(ss, s, n).self_ptr # 0
  BY TableLengths DEF ValuesIn, Owner, HasString, ValueIn

LEMMA HarmlessUnowned ==
  ASSUME NEW ss, NEW t, NEW v, Harmless(v)
  PROVE  Unowned(ss, t, v) /\ \A x : Lent(ss, t, x, v)
  BY DEF Harmless, Unowned, Lent

LEMMA UnownedLent ==
  ASSUME NEW ss, NEW t, NEW v, Unowned(ss, t, v)
  PROVE  \A x : Lent(ss, t, x, v)
  BY DEF Unowned, Lent

(* Values that are made do not disturb those that are there.               *)
LEMMA HeapGrows ==
  ASSUME NEW ss, NEW t, TableOK(t), ValuesIn(ss, t), HeapOK(ss, t), NEW u, Grown(t, u)
  PROVE  HeapOK(ss, u)
  <1>1. HeadOK(u)
    BY DEF HeapOK, Grown
  <1>2. SlotsHeld(ss, u)
    <2> SUFFICES ASSUME NEW s, NEW n, Owner(ss, s, n) PROVE Holding(u, ValueAt(ss, s, n))
      BY DEF SlotsHeld
    <2>1. ValueAt(ss, s, n).self_ptr \in 1..Len(t.values) /\ Holding(t, ValueAt(ss, s, n))
      BY OwnerIn DEF HeapOK, SlotsHeld
    <2> QED
      BY <2>1 DEF Holding, Grown
  <1>3. OneOwner(ss) /\ Borrowed(ss)
    BY DEF HeapOK
  <1>4. OutOfReach(ss, u)
    BY DEF HeapOK, OutOfReach, Grown
  <1> QED
    BY <1>1, <1>2, <1>3, <1>4 DEF HeapOK

(* A value just made belongs to nobody yet.                                *)
LEMMA FreshUnowned ==
  ASSUME NEW ss, NEW t, TableOK(t), ValuesIn(ss, t), HeapOK(ss, t), NEW u, Grown(t, u),
         NEW v, ValueIn(v, u), v.self_ptr # 0 => Fresh(t, u, v)
  PROVE  Unowned(ss, u, v)
  <1>1. HeadOK(t) /\ SlotsHeld(ss, t)
    BY DEF HeapOK
  <1>2. v.type = "VAL_STRING" => v.self_ptr # 0
    BY DEF ValueIn
  <1>3. ASSUME v.self_ptr # 0 PROVE Holding(u, v)
    BY <1>1, <1>3 DEF Fresh, Holding
  <1>4. ASSUME v.self_ptr # 0, NEW s, NEW n, Owner(ss, s, n) PROVE ValueAt(ss, s, n).self_ptr # v.self_ptr
    <2>1. ValueAt(ss, s, n).self_ptr \in 1..Len(t.values) /\ ValueAt(ss, s, n).self_ptr \notin Free(t)
      BY <1>1, <1>4, OwnerIn DEF SlotsHeld, Holding
    <2>2. v.self_ptr \in Free(t) \/ v.self_ptr > Len(t.values)
      BY <1>4 DEF Fresh
    <2>3. Len(t.values) \in Nat
      BY TableLengths
    <2> QED
      BY <2>1, <2>2, <2>3
  <1>5. ASSUME v.type = "VAL_STRING" PROVE v.ref > Len(t.texts) /\ Len(t.texts) \in Nat
    BY <1>2, <1>5, TableLengths DEF Fresh
  <1>6. ASSUME v.type = "VAL_STRING" PROVE v.ref \notin u.freed
    <2>1. u.freed \subseteq 1..Len(t.texts)
      BY DEF Grown, TableOK
    <2> QED
      BY <1>5, <1>6, <2>1
  <1>7. ASSUME v.type = "VAL_STRING", NEW r, NEW m, HasString(ss, r, m) PROVE ValueAt(ss, r, m).ref # v.ref
    <2>1. ValueAt(ss, r, m).ref \in 1..Len(t.texts)
      BY <1>7, OwnerIn
    <2> QED
      BY <1>5, <1>7, <2>1
  <1> QED
    BY <1>3, <1>4, <1>6, <1>7 DEF Unowned

(* A value may be bound in a scope if nobody has it, or if the scope is of *)
(* a function that borrows it.                                             *)
Fits(ss, t, x, v) ==
  \/ Unowned(ss, t, v)
  \/ ss[x].kind = "function" /\ Lent(ss, t, x, v)

(* What a step that writes one binding leaves of a binding.                *)
LEMMA WrittenAt ==
  ASSUME NEW a, NEW b, NEW x, NEW name, NEW binding, Written(a, b, x, name, binding), Sequence(a),
         NEW s \in 1..Len(b), NEW n \in Names(b[s])
  PROVE  \/ /\ s \in 1..Len(a) /\ n \in Names(a[s]) /\ ValueAt(b, s, n) = ValueAt(a, s, n)
            /\ b[s].kind = a[s].kind /\ ~(x # 0 /\ s = x /\ n = name)
         \/ x # 0 /\ s = x /\ n = name /\ ValueAt(b, s, n) = binding.value /\ b[s].kind = a[s].kind
         \/ ValueAt(b, s, n).self_ptr = 0 /\ ValueAt(b, s, n).type # "VAL_STRING"
  <1>1. Len(a) \in Nat /\ Len(b) \in Nat
    BY SequenceIs DEF Written
  <1>2. CASE s > Len(a)
    <2>1. FreshScope(b[s])
      BY <1>2 DEF Written
    <2> QED
      BY <2>1 DEF FreshScope, ValueAt
  <1>3. CASE s \in 1..Len(a) /\ s # x
    <2>1. Like(a[s], b[s]) /\ b[s].vals = a[s].vals
      BY <1>3 DEF Written
    <2> QED
      BY <1>3, <2>1 DEF Like, Names, ValueAt
  <1>4. CASE s \in 1..Len(a) /\ s = x
    <2>1. /\ x # 0 /\ Like(a[s], b[s]) /\ Names(b[x]) = Names(a[x]) \cup {name} /\ b[x].vals[name] = binding
          /\ \A m \in Names(a[x]) : m # name => b[x].vals[m] = a[x].vals[m]
      BY <1>1, <1>4 DEF Written
    <2>2. CASE n = name
      BY <1>4, <2>1, <2>2 DEF Like, ValueAt
    <2>3. CASE n # name
      BY <1>4, <2>1, <2>3 DEF Like, ValueAt
    <2> QED
      BY <2>2, <2>3
  <1> QED
    BY <1>1, <1>2, <1>3, <1>4

LEMMA HeapWritten ==
  ASSUME NEW t, TableOK(t), NEW a, NEW b, Tree(a), Tree(b), SameTree(a, b), ValuesIn(a, t), HeapOK(a, t),
         NEW x, NEW name, NEW binding, Written(a, b, x, name, binding),
         x # 0 => Fits(a, t, x, binding.value)
  PROVE  HeapOK(b, t)
  <1> DEFINE v == binding.value
             New(s, n) == x # 0 /\ s = x /\ n = name /\ ValueAt(b, s, n) = v /\ b[s].kind = a[s].kind
  <1>0. Sequence(a) /\ Len(a) \in Nat /\ Len(b) \in Nat
    BY SequenceIs DEF Tree
  <1>1. x # 0 => x \in 1..Len(a)
    BY DEF Written
  <1>2. ASSUME NEW s, NEW n, Owner(b, s, n)
        PROVE  \/ Owner(a, s, n) /\ ValueAt(b, s, n) = ValueAt(a, s, n) /\ ~New(s, n)
               \/ New(s, n) /\ a[x].kind # "function" /\ v.self_ptr # 0 /\ Unowned(a, t, v)
    BY <1>0, <1>2, WrittenAt DEF Owner, Fits
  <1>3. ASSUME NEW s, NEW n, HasString(b, s, n)
        PROVE  \/ HasString(a, s, n) /\ ValueAt(b, s, n) = ValueAt(a, s, n) /\ s \in 1..Len(a) /\ ~New(s, n)
               \/ New(s, n) /\ v.type = "VAL_STRING"
    BY <1>0, <1>3, WrittenAt DEF HasString
  <1>4. \A s \in 1..Len(a) : Chain(b, s) = Chain(a, s) /\ Chain(a, s) \subseteq 1..Len(a) /\ b[s].kind = a[s].kind
                             /\ b[s].live = a[s].live
    <2> SUFFICES ASSUME NEW s \in 1..Len(a)
                 PROVE  Chain(b, s) = Chain(a, s) /\ Chain(a, s) \subseteq 1..Len(a) /\ b[s].kind = a[s].kind
                        /\ b[s].live = a[s].live
      OBVIOUS
    <2>1. Chain(b, s) = Chain(a, s) /\ Chain(a, s) \subseteq 1..Len(a)
      BY ChainLater
    <2>2. Like(a[s], b[s])
      BY DEF Written
    <2> QED
      BY <2>1, <2>2 DEF Like
  <1>5. x # 0 => Fits(a, t, x, v)
    OBVIOUS
  <1>6. HeadOK(t)
    BY DEF HeapOK
  <1> HIDE DEF v, New
  <1>7. SlotsHeld(b, t)
    <2> SUFFICES ASSUME NEW s, NEW n, Owner(b, s, n) PROVE Holding(t, ValueAt(b, s, n))
      BY DEF SlotsHeld
    <2>1. CASE Owner(a, s, n) /\ ValueAt(b, s, n) = ValueAt(a, s, n)
      BY <2>1 DEF HeapOK, SlotsHeld
    <2>2. CASE New(s, n) /\ v.self_ptr # 0 /\ Unowned(a, t, v)
      BY <2>2 DEF Unowned, New
    <2> QED
      BY <1>2, <2>1, <2>2
  <1>8. OneOwner(b)
    <2> SUFFICES ASSUME NEW s, NEW n, NEW r, NEW m, Owner(b, s, n), Owner(b, r, m),
                        ValueAt(b, s, n).self_ptr = ValueAt(b, r, m).self_ptr
                 PROVE  s = r /\ n = m
      BY DEF OneOwner
    <2>1. CASE /\ Owner(a, s, n) /\ ValueAt(b, s, n) = ValueAt(a, s, n)
               /\ Owner(a, r, m) /\ ValueAt(b, r, m) = ValueAt(a, r, m)
      BY <2>1 DEF HeapOK, OneOwner
    <2>2. CASE New(s, n) /\ New(r, m)
      BY <2>2 DEF New
    <2>3. CASE /\ New(s, n) /\ v.self_ptr # 0 /\ Unowned(a, t, v)
               /\ Owner(a, r, m) /\ ValueAt(b, r, m) = ValueAt(a, r, m)
      BY <2>3 DEF New, Unowned
    <2>4. CASE /\ New(r, m) /\ v.self_ptr # 0 /\ Unowned(a, t, v)
               /\ Owner(a, s, n) /\ ValueAt(b, s, n) = ValueAt(a, s, n)
      BY <2>4 DEF New, Unowned
    <2> QED
      BY <1>2, <2>1, <2>2, <2>3, <2>4
  <1>9. Borrowed(b)
    <2> SUFFICES ASSUME NEW s, NEW n, NEW r, NEW m, Owner(b, s, n), HasString(b, s, n), HasString(b, r, m),
                        ValueAt(b, s, n).ref = ValueAt(b, r, m).ref
                 PROVE  (s = r /\ n = m) \/ (b[r].kind = "function" /\ s \in Chain(b, r))
      BY DEF Borrowed
    <2>1. CASE Owner(a, s, n) /\ ValueAt(b, s, n) = ValueAt(a, s, n) /\ ~New(s, n)
      <3>1. HasString(a, s, n)
        BY <1>3, <2>1
      <3>2. CASE HasString(a, r, m) /\ ValueAt(b, r, m) = ValueAt(a, r, m) /\ r \in 1..Len(a)
        <4>1. (s = r /\ n = m) \/ (a[r].kind = "function" /\ s \in Chain(a, r))
          BY <2>1, <3>1, <3>2 DEF HeapOK, Borrowed
        <4> QED
          BY <1>4, <3>2, <4>1
      <3>3. CASE New(r, m) /\ v.type = "VAL_STRING"
        <4>1. r = x /\ x # 0 /\ ValueAt(b, r, m) = v
          BY <3>3 DEF New
        <4>2. CASE Unowned(a, t, v)
          BY <2>1, <3>1, <3>3, <4>1, <4>2 DEF Unowned
        <4>3. CASE a[x].kind = "function" /\ Lent(a, t, x, v)
          <5>1. s \in Chain(a, x)
            BY <2>1, <3>1, <3>3, <4>1, <4>3 DEF Lent
          <5> QED
            BY <1>1, <1>4, <4>1, <4>3, <5>1
        <4> QED
          BY <1>5, <4>1, <4>2, <4>3 DEF Fits
      <3> QED
        BY <1>3, <3>2, <3>3
    <2>2. CASE New(s, n) /\ Unowned(a, t, v)
      <3>1. CASE HasString(a, r, m) /\ ValueAt(b, r, m) = ValueAt(a, r, m)
        <4>1. ValueAt(b, s, n) = v /\ v.type = "VAL_STRING"
          BY <2>2 DEF New, HasString
        <4> QED
          BY <2>2, <3>1, <4>1 DEF Unowned
      <3>2. CASE New(r, m)
        BY <2>2, <3>2 DEF New
      <3> QED
        BY <1>3, <3>1, <3>2
    <2> QED
      BY <1>2, <2>1, <2>2
  <1>10. OutOfReach(b, t)
    <2> SUFFICES ASSUME NEW r, NEW m, HasString(b, r, m), ValueAt(b, r, m).ref \in t.freed
                 PROVE  \E s \in Chain(b, r) : ~b[s].live
      BY DEF OutOfReach
    <2>1. CASE HasString(a, r, m) /\ ValueAt(b, r, m) = ValueAt(a, r, m) /\ r \in 1..Len(a)
      <3>1. PICK s \in Chain(a, r) : ~a[s].live
        BY <2>1 DEF HeapOK, OutOfReach
      <3> QED
        BY <1>4, <2>1, <3>1
    <2>2. CASE New(r, m) /\ v.type = "VAL_STRING"
      BY <1>5, <2>2 DEF New, Fits, Unowned, Lent
    <2> QED
      BY <1>3, <2>1, <2>2
  <1> QED
    BY <1>6, <1>7, <1>8, <1>9, <1>10 DEF HeapOK

(* scope_free gives back what the scope owns; who still has one of its     *)
(* strings is a function below it.                                         *)
LEMMA HeapFreed ==
  ASSUME NEW t, TableOK(t), NEW a, Tree(a), ValuesIn(a, t), HeapOK(a, t),
         NEW s \in 1..Len(a), a[s].kind # "function",
         NEW b, Tree(b), b = scope_free(a, s),
         NEW u, Released(a[s], t, u, Names(a[s]))
  PROVE  HeapOK(b, u)
  <1> DEFINE S == SlotsOf(a[s], Names(a[s]))
  <1>1. /\ Len(b) = Len(a) /\ \A r \in 1..Len(a) : r # s => b[r] = a[r]
        /\ b[s].kind = a[s].kind /\ b[s].parent = a[s].parent /\ b[s].live = FALSE /\ Names(b[s]) = {}
    BY FreeScopeIs DEF Tree
  <1>2. Len(a) \in Nat
    BY SequenceIs DEF Tree
  <1>3. SameTree(a, b)
    BY <1>1, <1>2 DEF SameTree
  <1>4. \A k \in S : \E n : Owner(a, s, n) /\ ValueAt(a, s, n).self_ptr = k
    BY DEF SlotsOf, Owner, ValueAt
  <1>5. SlotsDistinct(a[s], t)
    <2>1. S \cap Free(t) = {}
      BY <1>4 DEF HeapOK, SlotsHeld, Holding
    <2>2. ASSUME NEW m \in Names(a[s]), NEW n \in Names(a[s]), a[s].vals[m].value.self_ptr # 0,
                 a[s].vals[m].value.self_ptr = a[s].vals[n].value.self_ptr
          PROVE  m = n
      <3>1. Owner(a, s, m) /\ Owner(a, s, n) /\ ValueAt(a, s, m).self_ptr = ValueAt(a, s, n).self_ptr
        BY <2>2 DEF Owner, ValueAt
      <3> QED
        BY <3>1 DEF HeapOK, OneOwner
    <2> QED
      BY <2>1, <2>2 DEF SlotsDistinct
  <1>6. HeadOK(u)
    BY <1>5 DEF HeapOK, Released
  <1>7. /\ Free(u) = Free(t) \cup S /\ \A k \in 1..Len(t.values) : k \notin S => u.values[k] = t.values[k]
        /\ \A r \in u.freed : r \in t.freed \/ \E k \in S : t.values[k].type = "VAL_STRING" /\ t.values[k].ref = r
    BY DEF Released
  <1> HIDE DEF S
  <1>8. ASSUME NEW r, NEW n, Owner(b, r, n)
        PROVE  r # s /\ Owner(a, r, n) /\ ValueAt(b, r, n) = ValueAt(a, r, n)
    BY <1>1, <1>8 DEF Owner, ValueAt
  <1>9. ASSUME NEW r, NEW n, HasString(b, r, n)
        PROVE  r # s /\ r \in 1..Len(a) /\ HasString(a, r, n) /\ ValueAt(b, r, n) = ValueAt(a, r, n)
    BY <1>1, <1>9 DEF HasString, ValueAt
  <1>10. \A r \in 1..Len(a) : Chain(b, r) = Chain(a, r) /\ Chain(a, r) \subseteq 1..Len(a)
    BY <1>3, ChainLater
  <1>11. SlotsHeld(b, u)
    <2> SUFFICES ASSUME NEW r, NEW n, Owner(b, r, n) PROVE Holding(u, ValueAt(b, r, n))
      BY DEF SlotsHeld
    <2>1. r # s /\ Owner(a, r, n) /\ ValueAt(b, r, n) = ValueAt(a, r, n)
      BY <1>8
    <2>2. ValueAt(a, r, n).self_ptr \notin S
      BY <1>4, <2>1 DEF HeapOK, OneOwner
    <2>3. ValueAt(a, r, n).self_ptr \in 1..Len(t.values) /\ Holding(t, ValueAt(a, r, n))
      BY <2>1, OwnerIn DEF HeapOK, SlotsHeld
    <2> QED
      BY <1>7, <2>1, <2>2, <2>3 DEF Holding
  <1>12. OneOwner(b)
    BY <1>8 DEF HeapOK, OneOwner
  <1>13. Borrowed(b)
    <2> SUFFICES ASSUME NEW r, NEW n, NEW q, NEW m, Owner(b, r, n), HasString(b, r, n), HasString(b, q, m),
                        ValueAt(b, r, n).ref = ValueAt(b, q, m).ref
                 PROVE  (r = q /\ n = m) \/ (b[q].kind = "function" /\ r \in Chain(b, q))
      BY DEF Borrowed
    <2>1. Owner(a, r, n) /\ HasString(a, r, n) /\ HasString(a, q, m) /\ ValueAt(a, r, n).ref = ValueAt(a, q, m).ref
      BY <1>8, <1>9
    <2>2. (r = q /\ n = m) \/ (a[q].kind = "function" /\ r \in Chain(a, q))
      BY <2>1 DEF HeapOK, Borrowed
    <2> QED
      BY <1>1, <1>9, <1>10, <2>2
  <1>14. OutOfReach(b, u)
    <2> SUFFICES ASSUME NEW r, NEW m, HasString(b, r, m), ValueAt(b, r, m).ref \in u.freed
                 PROVE  \E c \in Chain(b, r) : ~b[c].live
      BY DEF OutOfReach
    <2>1. r # s /\ r \in 1..Len(a) /\ HasString(a, r, m) /\ ValueAt(b, r, m) = ValueAt(a, r, m)
      BY <1>9
    <2>2. CASE ValueAt(a, r, m).ref \in t.freed
      <3>1. PICK c \in Chain(a, r) : ~a[c].live
        BY <2>1, <2>2 DEF HeapOK, OutOfReach
      <3>2. ~b[c].live
        BY <1>1, <1>10, <2>1, <3>1
      <3> QED
        BY <1>10, <2>1, <3>1, <3>2
    <2>3. ASSUME NEW k \in S, t.values[k].type = "VAL_STRING", t.values[k].ref = ValueAt(a, r, m).ref
          PROVE  \E c \in Chain(b, r) : ~b[c].live
      <3>1. PICK n : Owner(a, s, n) /\ ValueAt(a, s, n).self_ptr = k
        BY <1>4
      <3>2. Holding(t, ValueAt(a, s, n))
        BY <3>1 DEF HeapOK, SlotsHeld
      <3>3. HasString(a, s, n) /\ ValueAt(a, s, n).ref = ValueAt(a, r, m).ref
        BY <2>3, <3>1, <3>2 DEF Holding, Owner, HasString
      <3>4. s \in Chain(a, r)
        BY <2>1, <3>1, <3>3 DEF HeapOK, Borrowed
      <3> QED
        BY <1>1, <1>10, <2>1, <3>4
    <2> QED
      BY <1>7, <2>1, <2>2, <2>3
  <1> QED
    BY <1>6, <1>11, <1>12, <1>13, <1>14 DEF HeapOK

-----------------------------------------------------------------------------
(* The table and the scopes of the program, and the frame on top.          *)
LEMMA HeapFacts ==
  ASSUME Base
  PROVE  Tree(scopes) /\ TableOK(tbl) /\ Grown(tbl, tbl) /\ ValuesIn(scopes, tbl)
  <1>1. ValuesIn(scopes, tbl)
    BY DEF Base, ScopesOK, ScopeOK, BindingOK, ValuesIn, ValueAt
  <1> QED
    BY <1>1, TreeOf, GrownSelf DEF Base

LEMMA HeapStays ==
  ASSUME Base, HeapInv, scopes' = scopes, Grown(tbl, tbl')
  PROVE  HeapOK(scopes', tbl')
  BY HeapFacts, HeapGrows DEF HeapInv

LEMMA HeapWrites ==
  ASSUME Base, Base', HeapInv, Grown(tbl, tbl'), NEW x, NEW name, NEW binding,
         Written(scopes, scopes', x, name, binding),
         x # 0 => Fits(scopes, tbl', x, binding.value)
  PROVE  HeapOK(scopes', tbl')
  <1>1. /\ Tree(scopes) /\ TableOK(tbl) /\ ValuesIn(scopes, tbl) /\ HeapOK(scopes, tbl)
    BY HeapFacts DEF HeapInv
  <1>2. HeapOK(scopes, tbl')
    BY <1>1, HeapGrows
  <1>3. TableOK(tbl') /\ Longer(tbl, tbl')
    BY GrownLonger
  <1>4. ValuesIn(scopes, tbl')
    BY <1>1, <1>3, ValueLater DEF ValuesIn
  <1>5. Tree(scopes')
    BY HeapFacts, TreeOf DEF Base, ScopesOK, ScopeOK, Tree
  <1>6. SameTree(scopes, scopes')
    BY WrittenTree
  <1> QED
    BY <1>1, <1>2, <1>3, <1>4, <1>5, <1>6, HeapWritten

LEMMA HeapFrees ==
  ASSUME Base, Base', HeapInv, NEW s \in 1..Len(scopes), scopes[s].kind # "function",
         scopes' = scope_free(scopes, s), tbl' = scope_free_values(scopes[s], tbl), fns' = fns
  PROVE  HeapOK(scopes', tbl')
  <1>1. /\ Tree(scopes) /\ TableOK(tbl) /\ ValuesIn(scopes, tbl) /\ HeapOK(scopes, tbl)
    BY HeapFacts DEF HeapInv
  <1>2. Released(scopes[s], tbl, tbl', Names(scopes[s]))
    BY FreedScopes
  <1>3. Tree(scopes')
    BY DEF Base, ScopesOK, ScopeOK, Tree
  <1> QED
    BY <1>1, <1>2, <1>3, HeapFreed

LEMMA HeapNow ==
  ASSUME HeapOK(scopes', tbl'), NEW m, NEW f, StackTo(m, f), Pending(f, scopes', tbl')
  PROVE  HeapInv'
  <1>1. Top' = f
    BY DEF Top, StackTo
  <1> QED
    BY <1>1 DEF HeapInv

(* A frame that waits for no value, or has none yet.                       *)
AtRest(f) == f.kind \in Waiting => Harmless(f.val)

LEMMA RestPending ==
  ASSUME NEW f, AtRest(f)
  PROVE  \A ss, t : Pending(f, ss, t)
  <1>1. f.kind \in {"var_decl", "assignment", "args"} => Harmless(f.val)
    BY DEF AtRest, Waiting
  <1>2. f.kind \in {"var_decl", "assignment"} => \A ss, t : Unowned(ss, t, f.val)
    BY <1>1, HarmlessUnowned
  <1>3. f.kind = "args" => \A ss, t, x : Lent(ss, t, x, f.val)
    BY <1>1, HarmlessUnowned
  <1> QED
    BY <1>2, <1>3 DEF Pending

LEMMA NothingIsHarmless == Harmless(NoVal) /\ Harmless(BLAZE_NULL)
  BY DEF Harmless, NoVal, BLAZE_NULL, Val

(* What the frame below does when the one on top is popped.                *)
LEMMA BelowAtRest ==
  ASSUME Base, status = "running", Top.kind # "root"
  PROVE  /\ Len(frames) > 1 /\ Sequence(frames) /\ Len(frames) - 1 \in 1..Len(frames)
         /\ AtRest(frames[Len(frames) - 1]) /\ FrameShape(frames[Len(frames) - 1])
  <1> DEFINE m == Len(frames) - 1
  <1>1. Len(frames) > 1 /\ Sequence(frames) /\ m \in 1..Len(frames) /\ Len(frames) \in Nat
    BY TopIs
  <1>2. m # Len(frames)
    BY <1>1
  <1> HIDE DEF m
  <1>3. frames[m].kind \in Waiting => frames[m].val = NoVal
    BY <1>1, <1>2 DEF Base, FramesOK, Placed
  <1>4. FrameShape(frames[m])
    BY <1>1 DEF Base, FramesOK, FrameOK
  <1> QED
    BY <1>1, <1>3, <1>4, NothingIsHarmless DEF AtRest, m

LEMMA GivenPending ==
  ASSUME NEW f, FrameShape(f), NEW ss, NEW t, NEW v,
         Unowned(ss, t, v) \/ (f.kind = "args" /\ Lent(ss, t, f.scope, v))
  PROVE  Pending(Given(f, v), ss, t)
  <1>1. CASE f.kind \in Waiting
    <2>1. Given(f, v).val = v /\ Given(f, v).kind = f.kind /\ Given(f, v).scope = f.scope
      <3>1. CASE f.kind = "var_decl"
        BY <1>1, <3>1 DEF FrameShape, Given
      <3>2. CASE f.kind = "assignment"
        BY <1>1, <3>2 DEF FrameShape, Given
      <3>3. CASE f.kind = "args"
        BY <1>1, <3>3 DEF FrameShape, Given
      <3> QED
        BY <1>1, <3>1, <3>2, <3>3 DEF Waiting
    <2> QED
      BY <2>1, UnownedLent DEF Pending
  <1>2. CASE f.kind \notin Waiting
    BY <1>2 DEF Given, Pending, Waiting
  <1> QED
    BY <1>1, <1>2

LEMMA HeapPops ==
  ASSUME Base, HeapOK(scopes', tbl'), status = "running", Top.kind # "root", frames' = Front(frames)
  PROVE  HeapInv'
  <1> DEFINE m == Len(frames) - 1
             f == frames[m]
  <1>1. Sequence(frames) /\ Len(frames) > 1 /\ AtRest(f)
    BY BelowAtRest
  <1>2. StackTo(m, f)
    BY <1>1, PopTo
  <1> HIDE DEF m, f
  <1> QED
    BY <1>1, <1>2, RestPending, HeapNow

LEMMA HeapDelivers ==
  ASSUME Base, HeapOK(scopes', tbl'), status = "running", Top.kind # "root", NEW v,
         frames' = Deliver(Front(frames), v), Unowned(scopes', tbl', v)
  PROVE  HeapInv'
  <1> DEFINE m == Len(frames) - 1
             f == frames[m]
  <1>1. Sequence(frames) /\ Len(frames) > 1 /\ FrameShape(f)
    BY BelowAtRest
  <1>2. StackTo(m, Given(f, v))
    BY <1>1, DeliverTo
  <1> HIDE DEF m, f
  <1> QED
    BY <1>1, <1>2, GivenPending, HeapNow

LEMMA HeapPushes ==
  ASSUME Base, HeapOK(scopes', tbl'), status = "running", NEW f, frames' = Append(frames, f), AtRest(f)
  PROVE  HeapInv'
  BY TopIs, PushTo, RestPending, HeapNow

LEMMA HeapTops ==
  ASSUME Base, HeapOK(scopes', tbl'), status = "running", NEW f, frames' = SetTop(f),
         Pending(f, scopes', tbl')
  PROVE  HeapInv'
  BY TopIs, TopTo, HeapNow

LEMMA ExitHeap ==
  ASSUME Exit
  PROVE  HeapInv'
  <1>1. scopes' = <<>> /\ tbl' = val_alloc_tbl_init /\ status' # "running"
    BY DEF Exit
  <1>2. \A s : s \notin 1..Len(scopes')
    BY <1>1
  <1>3. SlotsHeld(scopes', tbl') /\ OneOwner(scopes') /\ Borrowed(scopes') /\ OutOfReach(scopes', tbl')
    BY <1>2 DEF SlotsHeld, OneOwner, Borrowed, OutOfReach, Owner, HasString
  <1>4. tbl'.head = <<>>
    BY <1>1 DEF val_alloc_tbl_init
  <1>5. HeadOK(tbl')
    BY <1>4 DEF HeadOK, IsInjective, Free, Range
  <1> QED
    BY <1>1, <1>3, <1>5 DEF HeapInv, HeapOK

-----------------------------------------------------------------------------
(* One lemma for each action.                                              *)
LEMMA ValueHeap ==
  ASSUME Base, HeapOK(scopes', tbl'), AtExpr, NEW v, frames' = SetTop([Top EXCEPT !.val = v]),
         Unowned(scopes', tbl', v) \/ (Top.kind = "args" /\ Lent(scopes', tbl', Top.scope, v))
  PROVE  HeapInv'
  <1> DEFINE f == Given(Top, v)
  <1>0. status = "running" /\ Top.kind \in Waiting
    BY DEF AtExpr, Waiting
  <1>1. frames' = SetTop(f)
    BY <1>0 DEF Given
  <1>2. FrameShape(Top)
    BY <1>0, TopIs DEF FrameOK
  <1>3. Pending(f, scopes', tbl')
    BY <1>2, GivenPending
  <1> HIDE DEF f
  <1> QED
    BY <1>0, <1>1, <1>3, HeapTops

(* A string that the running code finds has not been released, and its     *)
(* owner encloses the code.                                                *)
LEMMA FoundLent ==
  ASSUME Base, Linked, HeapInv, status = "running", Top.kind = "call" => ValidCallee(Top.callee),
         NEW s \in 1..Len(scopes), s = EvalScope,
         NEW r \in Chain(scopes, s), NEW n \in Names(scopes[r])
  PROVE  Lent(scopes, tbl, s, ValueAt(scopes, r, n))
  <1> SUFFICES ASSUME ValueAt(scopes, r, n).type = "VAL_STRING"
               PROVE  /\ ValueAt(scopes, r, n).ref \notin tbl.freed
                      /\ \A q, m : /\ Owner(scopes, q, m) /\ HasString(scopes, q, m)
                                   /\ ValueAt(scopes, q, m).ref = ValueAt(scopes, r, n).ref
                                   => q \in Chain(scopes, s)
    BY DEF Lent
  <1>1. Tree(scopes) /\ Len(scopes) \in Nat
    BY TreeOf
  <1>2. Chain(scopes, s) \subseteq 1..s /\ Chain(scopes, r) \subseteq Chain(scopes, s)
    BY <1>1, ChainFacts
  <1>3. r \in 1..Len(scopes)
    BY <1>1, <1>2
  <1>4. HasString(scopes, r, n)
    BY <1>3 DEF HasString
  <1>5. \A t \in Chain(scopes, s) : scopes[t].live
    BY LinkedLives DEF ChainLive, Live
  <1>6. ValueAt(scopes, r, n).ref \notin tbl.freed
    BY <1>2, <1>4, <1>5 DEF HeapInv, HeapOK, OutOfReach
  <1>7. ASSUME NEW q, NEW m, Owner(scopes, q, m), HasString(scopes, q, m),
               ValueAt(scopes, q, m).ref = ValueAt(scopes, r, n).ref
        PROVE  q \in Chain(scopes, s)
    <2>1. q = r \/ q \in Chain(scopes, r)
      BY <1>4, <1>7 DEF HeapInv, HeapOK, Borrowed
    <2> QED
      BY <1>2, <2>1
  <1> QED
    BY <1>6, <1>7

LEMMA LeafHeap ==
  ASSUME Base, Base', Linked, HeapInv, ~CopyHeapVals, NEW e \in Expr, eval_leaf(e)
  PROVE  HeapInv'
  <1>1. CASE RuntimeError
    BY <1>1, ExitHeap DEF RuntimeError
  <1>2. CASE ~RuntimeError
    <2> DEFINE s == Top.scope
               v == Eval(e, s).val
               u == Eval(e, s).tbl
    <2>1. /\ AtExpr /\ Defined(e, s) /\ InClass(e, s) /\ (Top.kind # "args" => Copyable(e, s))
          /\ frames' = SetTop([Top EXCEPT !.val = v])
          /\ tbl' = u /\ UNCHANGED <<scopes, fns, status>>
      BY <1>2 DEF eval_leaf
    <2>2. s \in 1..Len(scopes) /\ status = "running" /\ Top.kind \in {"var_decl", "assignment", "args"}
      BY <2>1, TopIs DEF AtExpr
    <2>3. /\ Grown(tbl, u) /\ ValueIn(v, u)
          /\ e = "string" => Fresh(tbl, u, v)
          /\ e = "null" => v = BLAZE_NULL
          /\ e \in Name => u = tbl /\ v = ValueAt(scopes, scope_resolve_identifier(scopes, s, e), e)
      <3> HIDE DEF s
      <3> QED
        BY <2>1, <2>2, EvalNow DEF ValueAt
    <2>4. HeapOK(scopes', tbl')
      BY <2>1, <2>3, HeapStays
    <2>5. e = "string" \/ e = "null" \/ e \in Name
      BY EvalAssumption DEF Expr
    <2>6. Top.kind # "args" /\ e \in Name => v.self_ptr = 0
      BY <2>1 DEF Copyable
    <2>7. EvalScope = s
      BY <2>2 DEF EvalScope
    <2> HIDE DEF u, v
    <2>8. TableOK(tbl) /\ ValuesIn(scopes, tbl) /\ HeapOK(scopes, tbl)
      BY HeapFacts DEF HeapInv
    <2>9. CASE e = "string"
      <3>1. Unowned(scopes, u, v)
        BY <2>3, <2>8, <2>9, FreshUnowned
      <3> QED
        BY <2>1, <2>4, <3>1, ValueHeap
    <2>10. CASE e = "null"
      <3>1. Unowned(scopes', tbl', v)
        BY <2>3, <2>10, NothingIsHarmless, HarmlessUnowned
      <3> QED
        BY <2>1, <2>4, <3>1, ValueHeap
    <2>11. CASE e \in Name /\ Top.kind # "args"
      <3>1. Harmless(v)
        BY <2>3, <2>6, <2>11 DEF Harmless, ValueIn
      <3>2. Unowned(scopes', tbl', v)
        BY <3>1, HarmlessUnowned
      <3> QED
        BY <2>1, <2>4, <3>2, ValueHeap
    <2>12. CASE e \in Name /\ Top.kind = "args"
      <3> DEFINE r == scope_resolve_identifier(scopes, s, e)
      <3>1. CanSearch(s, e) /\ r # 0
        BY <2>1, <2>12 DEF Defined
      <3>2. r \in Chain(scopes, s) /\ e \in Names(scopes[r])
        <4> HIDE DEF s
        <4> QED
          BY <2>2, <3>1, ResolveIs
      <3>3. v = ValueAt(scopes, r, e)
        BY <2>3, <2>12
      <3> HIDE DEF r, s
      <3>4. Lent(scopes, tbl, s, v)
        BY <2>2, <2>7, <2>12, <3>2, <3>3, FoundLent
      <3>5. Lent(scopes', tbl', s, v)
        BY <2>1, <2>3, <2>12, <3>4
      <3> QED
        BY <2>1, <2>4, <2>12, <3>5, ValueHeap DEF s
    <2> QED
      BY <2>5, <2>9, <2>10, <2>11, <2>12
  <1> QED
    BY <1>1, <1>2

LEMMA BinaryHeap ==
  ASSUME Base, HeapInv, NEW operator \in Operators, NEW e \in Expr, NEW f \in Expr, BinaryExpr(operator, e, f)
  PROVE  HeapInv'
  <1> DEFINE s      == Top.scope
             left   == EvalWith(tbl, e, s)
             right  == EvalWith(left.tbl, f, s)
             result == eval_binexp(operator, ValueOf(left.val, right.tbl), ValueOf(right.val, right.tbl))
             made   == Made(result.value, right.tbl)
  <1>1. CASE RuntimeError
    BY <1>1, ExitHeap DEF RuntimeError
  <1>2. CASE ~RuntimeError
    <2>1. /\ AtExpr /\ Defined(e, s) /\ InClass(e, s) /\ Defined(f, s) /\ InClass(f, s)
          /\ result.how = "value"
          /\ frames' = SetTop([Top EXCEPT !.val = made.val])
          /\ tbl' = made.tbl
          /\ UNCHANGED <<scopes, fns, status>>
      BY <1>2 DEF BinaryExpr
    <2>2. s \in 1..Len(scopes)
      BY <2>1, TopIs DEF AtExpr
    <2>3. result.how = "value" =>
            /\ Grown(tbl, made.tbl) /\ ValueIn(made.val, made.tbl)
            /\ made.val.type = "VAL_STRING" => Fresh(tbl, made.tbl, made.val)
            /\ made.val.type # "VAL_STRING" => made.val.self_ptr = 0
      <3>1. /\ Base /\ s \in 1..Len(scopes) /\ operator \in Operators /\ e \in Expr /\ f \in Expr
            /\ Defined(e, s) /\ InClass(e, s) /\ Defined(f, s) /\ InClass(f, s)
        BY <2>1, <2>2
      <3> HIDE DEF s
      <3> QED
        BY ONLY <3>1, BinaryMakes
    <2> HIDE DEF made, result
    <2>4. HeapOK(scopes', tbl')
      BY <2>1, <2>3, HeapStays
    <2>5. TableOK(tbl) /\ ValuesIn(scopes, tbl) /\ HeapOK(scopes, tbl)
      BY HeapFacts DEF HeapInv
    <2>6. Unowned(scopes, made.tbl, made.val)
      BY <2>1, <2>3, <2>5, FreshUnowned
    <2> QED
      BY <2>1, <2>4, <2>6, ValueHeap
  <1> QED
    BY <1>1, <1>2

(* A value that nobody has is still nobody's when only scopes were added.  *)
LEMMA UnownedLater ==
  ASSUME NEW a, NEW b, NEW t, NEW v, Sequence(a), NEW name, NEW binding, Written(a, b, 0, name, binding),
         Unowned(a, t, v)
  PROVE  Unowned(b, t, v)
  <1>1. ASSUME NEW s \in 1..Len(b), NEW n \in Names(b[s])
        PROVE  \/ /\ s \in 1..Len(a) /\ n \in Names(a[s]) /\ ValueAt(b, s, n) = ValueAt(a, s, n)
                  /\ b[s].kind = a[s].kind
               \/ ValueAt(b, s, n).self_ptr = 0 /\ ValueAt(b, s, n).type # "VAL_STRING"
    BY <1>1, WrittenAt
  <1>2. \A s, n : Owner(b, s, n) => Owner(a, s, n) /\ ValueAt(b, s, n) = ValueAt(a, s, n)
    BY <1>1 DEF Owner
  <1>3. \A s, n : HasString(b, s, n) => HasString(a, s, n) /\ ValueAt(b, s, n) = ValueAt(a, s, n)
    BY <1>1 DEF HasString
  <1> QED
    BY <1>2, <1>3 DEF Unowned

LEMMA PushesHeap ==
  ASSUME Base, HeapInv, status = "running"
  PROVE  /\ \A name \in VarName, is_const \in BOOLEAN : eval_var_decl(name, is_const) => HeapInv'
         /\ \A name \in Name : eval_assignment(name) => HeapInv'
         /\ \A name, argc : eval_expr_call(name, argc) => HeapInv'
         /\ \A name, n : n \in Nat /\ array_filter(name, n) => HeapInv'
  <1>0. RuntimeError => HeapInv'
    BY ExitHeap DEF RuntimeError
  <1>1. ASSUME NEW name \in VarName, NEW is_const \in BOOLEAN, eval_var_decl(name, is_const)
        PROVE  HeapInv'
    <2> DEFINE const == is_const /\ Top.kind \notin {"call", "filter"}
               f == [kind |-> "var_decl", scope |-> EvalScope, name |-> name, val |-> NoVal, is_const |-> const]
    <2>1. frames' = Append(frames, f) /\ UNCHANGED <<scopes, fns, tbl, status>>
      BY <1>1 DEF eval_var_decl, Push
    <2>2. AtRest(f)
      BY NothingIsHarmless DEF AtRest
    <2> HIDE DEF f
    <2>3. HeapOK(scopes', tbl')
      BY <2>1 DEF HeapInv
    <2> QED
      BY <2>1, <2>2, <2>3, HeapPushes
  <1>2. ASSUME NEW name \in Name, eval_assignment(name)
        PROVE  HeapInv'
    <2> DEFINE f == [kind |-> "assignment", scope |-> EvalScope, name |-> name, val |-> NoVal]
    <2>1. frames' = Append(frames, f) /\ UNCHANGED <<scopes, fns, tbl, status>>
      BY <1>2 DEF eval_assignment, Push
    <2>2. AtRest(f)
      BY NothingIsHarmless DEF AtRest
    <2> HIDE DEF f
    <2>3. HeapOK(scopes', tbl')
      BY <2>1 DEF HeapInv
    <2> QED
      BY <2>1, <2>2, <2>3, HeapPushes
  <1>3. ASSUME NEW name, NEW argc, eval_expr_call(name, argc), ~RuntimeError
        PROVE  HeapInv'
    <2> DEFINE s    == EvalScope
               home == scope_resolve_identifier(scopes, s, name)
               f    == [kind |-> "args", scope |-> s, callee |-> Callee(home, name),
                        argc |-> argc, val |-> IF argc = 0 THEN BLAZE_NULL ELSE NoVal]
    <2>1. frames' = Append(frames, f) /\ UNCHANGED <<scopes, fns, tbl, status>>
      BY <1>3 DEF eval_expr_call, Push
    <2>2. f.val \in {BLAZE_NULL, NoVal}
      OBVIOUS
    <2> HIDE DEF f
    <2>3. AtRest(f)
      BY <2>2, NothingIsHarmless DEF AtRest
    <2>4. HeapOK(scopes', tbl')
      BY <2>1 DEF HeapInv
    <2> QED
      BY <2>1, <2>3, <2>4, HeapPushes
  <1>4. ASSUME NEW name, NEW n \in Nat, array_filter(name, n), ~RuntimeError
        PROVE  HeapInv'
    <2> DEFINE s    == EvalScope
               home == scope_resolve_identifier(scopes, s, name)
               fn   == scopes[home].vals[name].value.ref
               f    == [kind |-> "filter", scope |-> s, fn |-> fn, left |-> n, new_scope |-> 0, val |-> NoVal]
    <2>1. frames' = Append(frames, f) /\ tbl' = eval_array_lit(n) /\ UNCHANGED <<scopes, fns, status>>
      BY <1>4 DEF array_filter, Push
    <2>2. AtRest(f)
      BY NothingIsHarmless DEF AtRest
    <2> HIDE DEF f
    <2>3. Grown(tbl, tbl')
      BY <2>1, ArrayLitIs DEF Base
    <2>4. HeapOK(scopes', tbl')
      BY <2>1, <2>3, HeapStays
    <2> QED
      BY <2>1, <2>2, <2>4, HeapPushes
  <1> QED
    BY <1>0, <1>1, <1>2, <1>3, <1>4

LEMMA CallEndsHeap ==
  ASSUME Base, Base', HeapInv, NEW e \in Expr, CallEnds(e)
  PROVE  HeapInv'
  <1> DEFINE s    == EvalScope
             ret  == Eval(e, s)
             copy == val_copy_deep(ret.val, ret.tbl)
  <1>0. AtStatement /\ status = "running" /\ Top.kind = "call"
    BY DEF CallEnds, AtStatement
  <1>1. CASE RuntimeError
    BY <1>1, ExitHeap DEF RuntimeError
  <1>2. CASE ~RuntimeError
    <2>1. /\ Defined(e, s) /\ InClass(e, s)
          /\ frames' = Deliver(Front(frames), copy.val) /\ tbl' = copy.tbl
          /\ scopes' = scope_init(scopes, "function", Top.scope)
      BY <1>2 DEF CallEnds
    <2>2. s \in 1..Len(scopes)
      BY <1>0, EvalScopeIs
    <2>3. Grown(tbl, ret.tbl) /\ ValueIn(ret.val, ret.tbl) /\ ret.val.type # "VAL_FUNCTION"
      <3> HIDE DEF s
      <3> QED
        BY <2>1, <2>2, EvalNow
    <2> HIDE DEF ret
    <2>4. /\ Grown(ret.tbl, copy.tbl) /\ ValueIn(copy.val, copy.tbl)
          /\ copy.val.self_ptr # 0 => Fresh(ret.tbl, copy.tbl, copy.val)
      BY <2>3, CopyDeepIs DEF Grown
    <2> HIDE DEF copy
    <2>5. TableOK(tbl) /\ ValuesIn(scopes, tbl) /\ HeapOK(scopes, tbl) /\ TableOK(ret.tbl)
      BY <2>3, HeapFacts DEF HeapInv, Grown
    <2>6. Grown(tbl, copy.tbl) /\ (copy.val.self_ptr # 0 => Fresh(tbl, copy.tbl, copy.val))
      BY <2>3, <2>4, <2>5, GrownTwice, FreshLater
    <2>7. Unowned(scopes, copy.tbl, copy.val)
      BY <2>4, <2>5, <2>6, FreshUnowned
    <2>8. \A name, binding : Written(scopes, scopes', 0, name, binding)
      BY <1>0, <2>1, CallEndsWrites DEF ScopeKind
    <2>9. HeapOK(scopes', tbl')
      BY <2>1, <2>6, <2>8, HeapWrites
    <2>11. Unowned(scopes', tbl', copy.val)
      BY <2>1, <2>7, <2>8, HeapFacts, UnownedLater DEF Tree
    <2> QED
      BY <1>0, <2>1, <2>9, <2>11, HeapDelivers
  <1> QED
    BY <1>1, <1>2

LEMMA FilterEndsHeap ==
  ASSUME Base, HeapInv, FilterEnds
  PROVE  HeapInv'
  <1> DEFINE v == Val("VAL_ARRAY", 0, 0)
  <1>1. /\ status = "running" /\ Top.kind = "filter"
        /\ frames' = Deliver(Front(frames), v) /\ scopes' = scopes /\ tbl' = tbl
    BY DEF FilterEnds
  <1>2. Harmless(v)
    BY DEF Harmless, Val
  <1> HIDE DEF v
  <1>3. HeapOK(scopes', tbl')
    BY <1>1 DEF HeapInv
  <1> QED
    BY <1>1, <1>2, <1>3, HarmlessUnowned, HeapDelivers

LEMMA VarDeclHeap ==
  ASSUME Base, Base', HeapInv, VarDeclEnds
  PROVE  HeapInv'
  <1>1. CASE RuntimeError
    BY <1>1, ExitHeap DEF RuntimeError
  <1>2. CASE ~RuntimeError
    <2>1. /\ status = "running" /\ Top.kind = "var_decl"
          /\ frames' = Front(frames) /\ tbl' = tbl
      BY <1>2, VarDeclBinds
    <2>2. PICK const \in BOOLEAN : Written(scopes, scopes', Top.scope, Top.name, Binding(Top.val, const))
      BY <1>2, VarDeclWrites
    <2> DEFINE binding == Binding(Top.val, const)
    <2>3. binding.value = Top.val
      BY DEF Binding
    <2>4. Unowned(scopes, tbl', binding.value)
      BY <2>1, <2>3 DEF HeapInv, Pending
    <2> HIDE DEF binding
    <2>5. Grown(tbl, tbl') /\ Fits(scopes, tbl', Top.scope, binding.value)
      BY <2>1, <2>4, HeapFacts DEF Fits
    <2>6. HeapOK(scopes', tbl')
      BY <2>2, <2>5, HeapWrites DEF binding
    <2> QED
      BY <2>1, <2>6, HeapPops
  <1> QED
    BY <1>1, <1>2

LEMMA AssignmentHeap ==
  ASSUME Base, Base', HeapInv, AssignmentEnds
  PROVE  HeapInv'
  <1>1. CASE RuntimeError
    BY <1>1, ExitHeap DEF RuntimeError
  <1>2. CASE ~RuntimeError
    <2> DEFINE home    == scope_resolve_identifier(scopes, Top.scope, Top.name)
               binding == Binding(Top.val, FALSE)
    <2>1. /\ status = "running" /\ Top.kind = "assignment"
          /\ frames' = Front(frames) /\ tbl' = tbl
      BY <1>2, AssignmentBinds
    <2>2. Written(scopes, scopes', home, Top.name, binding)
      BY <1>2, AssignmentWrites
    <2>3. binding.value = Top.val
      BY DEF Binding
    <2>4. Unowned(scopes, tbl', binding.value)
      BY <2>1, <2>3 DEF HeapInv, Pending
    <2> HIDE DEF binding, home
    <2>5. Grown(tbl, tbl') /\ Fits(scopes, tbl', home, binding.value)
      BY <2>1, <2>4, HeapFacts DEF Fits
    <2>6. HeapOK(scopes', tbl')
      BY <2>2, <2>5, HeapWrites
    <2> QED
      BY <2>1, <2>6, HeapPops
  <1> QED
    BY <1>1, <1>2

(* An argument lent to the caller may be bound in the function's scope:    *)
(* everything that encloses the caller encloses it.                        *)
LEMMA ArgumentLent ==
  ASSUME Base, Linked, HeapInv, status = "running", Top.kind = "args", ValidCallee(Top.callee),
         NEW x, x = fns[PointsAt(Top.callee).ref].scope, x \in 1..Len(scopes)
  PROVE  Lent(scopes, tbl, x, Top.val)
  <1> DEFINE h == Top.callee.scope
             r == PointsAt(Top.callee).ref
  <1>1. Len(frames) \in 1..Len(frames) /\ Top = frames[Len(frames)] /\ Top.scope \in 1..Len(scopes)
    BY TopIs DEF Top
  <1>2. FnAt(scopes, h, Top.callee.name, r) /\ r \in 1..Len(fns)
    BY <1>1, CalleeAt
  <1>3. Reaches(scopes, Top.scope, h)
    BY <1>1 DEF Linked, FrameLinked
  <1>4. h \in 1..Len(scopes)
    BY <1>2 DEF FnAt
  <1> HIDE DEF h, r
  <1>5. Reaches(scopes, x, h)
    BY <1>2, <1>4 DEF Linked, FnsLinked, r
  <1>6. Frees(scopes, Top.scope) \subseteq Chain(scopes, x)
    <2>1. Tree(scopes)
      BY TreeOf
    <2>2. h \in Chain(scopes, x)
      BY <1>5 DEF Reaches
    <2>3. Chain(scopes, h) \subseteq Chain(scopes, x)
      BY <2>1, <2>2, ChainFacts
    <2> QED
      BY <1>3, <2>3 DEF Reaches
  <1>7. Lent(scopes, tbl, Top.scope, Top.val)
    BY DEF HeapInv, Pending
  <1>8. \A s, n : Owner(scopes, s, n) /\ s \in Chain(scopes, Top.scope) => s \in Frees(scopes, Top.scope)
    BY DEF Owner, Frees
  <1> QED
    BY <1>6, <1>7, <1>8 DEF Lent

LEMMA CallBodyHeap ==
  ASSUME Base, Base', Linked, HeapInv, CallBody
  PROVE  HeapInv'
  <1>1. CASE RuntimeError
    BY <1>1, ExitHeap DEF RuntimeError
  <1>2. CASE ~RuntimeError
    <2> DEFINE fn   == fns[PointsAt(Top.callee).ref]
               call == [kind |-> "call", scope |-> Top.scope, callee |-> Top.callee, val |-> Top.val]
               binding == Binding(Top.val, TRUE)
    <2>1. /\ status = "running" /\ Top.kind = "args" /\ ValidCallee(Top.callee)
          /\ fn.scope \in 1..Len(scopes) /\ scopes[fn.scope].kind = "function"
          /\ frames' = SetTop(call) /\ tbl' = tbl
      BY <1>2, CallBodyBinds
    <2>2. \E x \in {0, fn.scope} : Written(scopes, scopes', x, fn.param, binding)
      BY <1>2, CallBodyWrites
    <2>3. binding.value = Top.val
      BY DEF Binding
    <2>4. AtRest(call)
      BY DEF AtRest, Waiting
    <2>5. Lent(scopes, tbl, fn.scope, Top.val)
      BY <2>1, ArgumentLent
    <2> HIDE DEF fn, call, binding
    <2>6. Grown(tbl, tbl') /\ Fits(scopes, tbl', fn.scope, binding.value)
      BY <2>1, <2>3, <2>5, HeapFacts DEF Fits
    <2>7. HeapOK(scopes', tbl')
      BY <2>2, <2>6, HeapWrites
    <2> QED
      BY <2>1, <2>4, <2>7, RestPending, HeapTops
  <1> QED
    BY <1>1, <1>2

LEMMA FilterCallHeap ==
  ASSUME Base, Base', HeapInv, FilterCall
  PROVE  HeapInv'
  <1> DEFINE fn   == fns[Top.fn]
             test == val_copy_deep(Element, tbl)
             f    == [Top EXCEPT !.new_scope = fn.scope, !.val = test.val]
             binding == Binding(test.val, TRUE)
  <1>1. /\ status = "running" /\ Top.kind = "filter"
        /\ frames' = SetTop(f) /\ tbl' = test.tbl
    BY DEF FilterCall
  <1>2. FrameOK(Top, scopes, tbl, Len(fns)) /\ TableOK(tbl)
    BY <1>1, TopIs
  <1>3. Top.fn \in 1..Len(fns) /\ FrameShape(Top)
    BY <1>1, <1>2 DEF FrameOK
  <1>4. scopes[fn.scope].kind = "function"
    BY <1>1, <1>3, FnScopeIs
  <1>5. Grown(tbl, test.tbl) /\ test.val.type = "VAL_INTEGER"
    BY <1>2, ElementIs, CopyDeepIs
  <1>6. AtRest(f)
    <2>1. Top = FilterFrame(Top.scope, Top.fn, Top.left, Top.new_scope, Top.val)
      BY <1>1, <1>3, FilterFrameOf
    <2>2. f = Called(Top, fn.scope, test.val)
      BY Zenon DEF Called
    <2> HIDE DEF f, fn, test
    <2>3. f = FilterFrame(Top.scope, Top.fn, Top.left, fn.scope, test.val)
      BY ONLY <2>1, <2>2, CalledIs
    <2>4. f.kind = "filter"
      BY <2>3, FilterFrameIs
    <2> QED
      BY <2>4 DEF AtRest, Waiting
  <1>7. binding.value = test.val
    BY DEF Binding
  <1>8. \E x \in {0, fn.scope} : Written(scopes, scopes', x, fn.param, binding)
    BY FilterCallWrites
  <1> HIDE DEF f, fn, test, binding
  <1>9. Fits(scopes, tbl', fn.scope, binding.value)
    BY <1>4, <1>5, <1>7 DEF Fits, Lent
  <1>10. Grown(tbl, tbl')
    BY <1>1, <1>5
  <1>11. HeapOK(scopes', tbl')
    BY <1>8, <1>9, <1>10, HeapWrites
  <1> QED
    BY <1>1, <1>6, <1>11, RestPending, HeapTops

LEMMA FilterCallEndsHeap ==
  ASSUME Base, Base', HeapInv, NEW e \in Expr, FilterCallEnds(e)
  PROVE  HeapInv'
  <1> DEFINE s == EvalScope
             f == [Top EXCEPT !.left = @ - 1, !.new_scope = 0, !.val = NoVal]
  <1>0. AtStatement /\ status = "running" /\ Top.kind = "filter"
    BY DEF FilterCallEnds, AtStatement
  <1>1. CASE RuntimeError
    BY <1>1, ExitHeap DEF RuntimeError
  <1>2. CASE ~RuntimeError
    <2>1. /\ Defined(e, s) /\ InClass(e, s) /\ tbl' = Eval(e, s).tbl
          /\ scopes' = scope_init(scopes, "function", Top.scope)
          /\ frames' = SetTop(f)
      BY <1>2 DEF FilterCallEnds
    <2>2. s \in 1..Len(scopes)
      BY <1>0, EvalScopeIs
    <2>3. Grown(tbl, tbl')
      <3> HIDE DEF s
      <3> QED
        BY <2>1, <2>2, EvalNow
    <2>4. FrameShape(Top)
      BY <1>0, TopIs DEF FrameOK
    <2>5. AtRest(f)
      <3>1. Top = FilterFrame(Top.scope, Top.fn, Top.left, Top.new_scope, Top.val)
        BY <1>0, <2>4, FilterFrameOf
      <3>2. f = NextElement(Top, Top.left - 1)
        BY Zenon DEF NextElement
      <3> HIDE DEF f
      <3>3. f = FilterFrame(Top.scope, Top.fn, Top.left - 1, 0, NoVal)
        BY ONLY <3>1, <3>2, NextElementIs
      <3>4. f.kind = "filter"
        BY <3>3, FilterFrameIs
      <3> QED
        BY <3>4 DEF AtRest, Waiting
    <2> HIDE DEF f
    <2>6. \A name, binding : Written(scopes, scopes', 0, name, binding)
      BY <1>0, <2>1, CallEndsWrites DEF ScopeKind
    <2>7. HeapOK(scopes', tbl')
      BY <2>3, <2>6, HeapWrites
    <2> QED
      BY <1>0, <2>1, <2>5, <2>7, RestPending, HeapTops
  <1> QED
    BY <1>1, <1>2

LEMMA FnDeclHeap ==
  ASSUME Base, Base', HeapInv, NEW name \in FnName, NEW param \in ParamName \cup {NoName},
         eval_fn_decl(name, param)
  PROVE  HeapInv'
  <1>1. CASE RuntimeError
    BY <1>1, ExitHeap DEF RuntimeError
  <1>2. CASE ~RuntimeError
    <2> DEFINE s == EvalScope
               binding == Binding(Val("VAL_FUNCTION", 0, Len(fns) + 1), TRUE)
    <2>1. AtStatement /\ status = "running" /\ UNCHANGED <<tbl, frames, status>>
      BY <1>2, FnDeclBinds
    <2>2. Written(scopes, scopes', s, name, binding)
      BY <1>2, FnDeclWrites
    <2>3. Harmless(binding.value)
      BY DEF Binding, Harmless, Val
    <2> HIDE DEF s, binding
    <2>4. Grown(tbl, tbl') /\ Fits(scopes, tbl', s, binding.value)
      BY <2>1, <2>3, HeapFacts, HarmlessUnowned DEF Fits
    <2>5. HeapOK(scopes', tbl')
      BY <2>2, <2>4, HeapWrites
    <2>6. AtRest(Top)
      BY <2>1 DEF AtStatement, AtRest, Waiting
    <2>7. StackTo(Len(frames), Top)
      BY <2>1, TopIs, StayTo
    <2> QED
      BY <2>5, <2>6, <2>7, RestPending, HeapNow
  <1> QED
    BY <1>1, <1>2

(* A block and a loop add a scope that holds no heap value.                *)
LEMMA OwnHeap ==
  ASSUME Base, Base', HeapInv, status = "running", tbl' = tbl, NEW sc, FreshScope(sc), scopes' = Append(scopes, sc),
         NEW f, frames' = Append(frames, f), f.kind \notin Waiting
  PROVE  HeapInv'
  <1>1. \A name, binding : Written(scopes, scopes', 0, name, binding)
    BY AppendWrites
  <1>2. Grown(tbl, tbl')
    BY HeapFacts
  <1>3. HeapOK(scopes', tbl')
    BY <1>1, <1>2, HeapWrites
  <1> QED
    BY <1>3, HeapPushes DEF AtRest

LEMMA BlockHeap ==
  ASSUME Base, Base', HeapInv, eval_block
  PROVE  HeapInv'
  <1> DEFINE sc == NewScope("block", EvalScope)
             f  == [kind |-> "block", scope |-> Len(scopes) + 1]
  <1>1. status = "running" /\ tbl' = tbl /\ scopes' = Append(scopes, sc) /\ frames' = Append(frames, f)
    BY DEF eval_block, AtStatement, Push, scope_init
  <1>2. FreshScope(sc)
    BY FreshNewScope DEF ScopeKind
  <1>3. f.kind \notin Waiting
    BY DEF Waiting
  <1> HIDE DEF sc, f
  <1> QED
    BY <1>1, <1>2, <1>3, OwnHeap

LEMMA LoopHeap ==
  ASSUME Base, Base', HeapInv, NEW varname \in VarName \cup {NoName}, NEW count \in Nat,
         eval_loop_stmt(varname, count)
  PROVE  HeapInv'
  <1> DEFINE f == [kind |-> "loop", scope |-> Len(scopes) + 1, counter |-> 0, count |-> count, varname |-> varname]
  <1>1. status = "running" /\ tbl' = tbl /\ frames' = Append(frames, f)
    BY DEF eval_loop_stmt, AtStatement, Push
  <1>2. PICK sc : FreshScope(sc) /\ scopes' = Append(scopes, sc)
    BY LoopWrites
  <1>3. f.kind \notin Waiting
    BY DEF Waiting
  <1> HIDE DEF f
  <1> QED
    BY <1>1, <1>2, <1>3, OwnHeap

LEMMA LoopAgainHeap ==
  ASSUME Base, Base', HeapInv, LoopAgain
  PROVE  HeapInv'
  <1> DEFINE n == Top.counter + 1
             f == [Top EXCEPT !.counter = n]
  <1>1. status = "running" /\ Top.kind = "loop" /\ frames' = SetTop(f) /\ tbl' = tbl
    BY DEF LoopAgain
  <1>2. PICK y \in {0, Top.scope}, const \in BOOLEAN :
          Written(scopes, scopes', y, Top.varname, Binding(Counter(n), const))
    BY LoopAgainWrites
  <1> DEFINE binding == Binding(Counter(n), const)
  <1>3. Harmless(binding.value)
    BY DEF Binding, Counter, Harmless, Val
  <1>4. Written(scopes, scopes', y, Top.varname, binding)
    BY <1>2
  <1> HIDE DEF binding
  <1>5. Grown(tbl, tbl') /\ Fits(scopes, tbl', y, binding.value)
    BY <1>1, <1>3, HeapFacts, HarmlessUnowned DEF Fits
  <1>6. HeapOK(scopes', tbl')
    BY <1>4, <1>5, HeapWrites
  <1>7. FrameShape(Top)
    BY <1>1, TopIs DEF FrameOK
  <1>8. f.kind = "loop"
    BY <1>1, <1>7 DEF FrameShape
  <1>9. AtRest(f)
    BY <1>8 DEF AtRest, Waiting
  <1> HIDE DEF f
  <1> QED
    BY <1>1, <1>6, <1>9, RestPending, HeapTops

LEMMA FreeTopHeap ==
  ASSUME Base, Base', HeapInv, status = "running", Top.kind \in Own, FreeTopScope
  PROVE  HeapInv'
  <1>1. /\ scopes' = scope_free(scopes, Top.scope) /\ tbl' = scope_free_values(scopes[Top.scope], tbl)
        /\ frames' = Front(frames) /\ fns' = fns
    BY DEF FreeTopScope
  <1>2. Top.scope \in 1..Len(scopes) /\ scopes[Top.scope].kind = Top.kind
    BY TopIs DEF FrameOK
  <1>3. scopes[Top.scope].kind # "function" /\ Top.kind # "root"
    BY <1>2 DEF Own
  <1>4. HeapOK(scopes', tbl')
    BY <1>1, <1>2, <1>3, HeapFrees
  <1> QED
    BY <1>1, <1>3, <1>4, HeapPops

LEMMA ProgramEndsHeap ==
  ASSUME Base, Base', HeapInv, ProgramEnds
  PROVE  HeapInv'
  <1>1. /\ status = "running" /\ status' = "done" /\ fns' = fns
        /\ scopes' = scope_free(scopes, Global) /\ tbl' = scope_free_values(scopes[Global], tbl)
    BY DEF ProgramEnds
  <1>2. Global \in 1..Len(scopes)
    BY <1>1, TopIs DEF Global
  <1>3. scopes[Global].kind = "global"
    BY <1>2 DEF Base, ScopesOK, ScopeOK
  <1>4. HeapOK(scopes', tbl')
    BY <1>1, <1>2, <1>3, HeapFrees
  <1> QED
    BY <1>1, <1>4 DEF HeapInv

LEMMA InitHeap ==
  ASSUME Init
  PROVE  HeapInv
  <1> DEFINE sc   == NewScope("global", 0)
             root == [kind |-> "root", scope |-> Global]
  <1>1. scopes = <<sc>> /\ frames = <<root>> /\ tbl = val_alloc_tbl_init
    BY DEF Init, scope_create_global
  <1>2. Names(sc) = {} /\ root.kind = "root"
    BY NewScopeIs
  <1> HIDE DEF sc, root
  <1>3. \A s \in 1..Len(scopes) : Names(scopes[s]) = {}
    BY <1>1, <1>2
  <1>4. SlotsHeld(scopes, tbl) /\ OneOwner(scopes) /\ Borrowed(scopes) /\ OutOfReach(scopes, tbl)
    BY <1>3 DEF SlotsHeld, OneOwner, Borrowed, OutOfReach, Owner, HasString
  <1>5. tbl.head = <<>>
    BY <1>1 DEF val_alloc_tbl_init
  <1>6. HeadOK(tbl)
    BY <1>5 DEF HeadOK, IsInjective, Free, Range
  <1>7. Top = root
    BY <1>1 DEF Top
  <1> QED
    BY <1>2, <1>4, <1>6, <1>7 DEF HeapInv, HeapOK, Pending

-----------------------------------------------------------------------------
(* The invariant holds in every run.                                       *)
LEMMA NextHeap ==
  ASSUME Base, Base', Linked, HeapInv, ~CopyHeapVals, [Next]_vars
  PROVE  HeapInv'
  <1>0. LoopCount \subseteq Nat /\ FilterCount \subseteq Nat
    BY EvalAssumption
  <1>1. CASE UNCHANGED vars
    BY <1>1 DEF vars, HeapInv, Top
  <1>2. ASSUME Next, status = "running" PROVE HeapInv'
    <2>1. CASE \E name \in VarName, is_const \in BOOLEAN : eval_var_decl(name, is_const)
      BY <1>2, <2>1, PushesHeap
    <2>2. CASE \E name \in Name : eval_assignment(name)
      BY <1>2, <2>2, PushesHeap
    <2>3. CASE \E e \in Expr : eval_leaf(e) \/ CallEnds(e) \/ FilterCallEnds(e)
      BY <2>3, LeafHeap, CallEndsHeap, FilterCallEndsHeap
    <2>4. CASE \E name \in FnName, n \in FilterCount : array_filter(name, n)
      BY <1>0, <1>2, <2>4, PushesHeap
    <2>5. CASE FilterCall \/ FilterEnds
      BY <2>5, FilterCallHeap, FilterEndsHeap
    <2>6. CASE \E operator \in Operators, e, f \in Expr : BinaryExpr(operator, e, f)
      BY <2>6, BinaryHeap
    <2>7. CASE \E name \in FnName, param \in ParamName \cup {NoName} : eval_fn_decl(name, param)
      BY <2>7, FnDeclHeap
    <2>8. CASE \E name \in FnName, argc \in {0, 1} : eval_expr_call(name, argc)
      BY <1>2, <2>8, PushesHeap
    <2>9. CASE \E name \in VarName \cup {NoName}, count \in LoopCount : eval_loop_stmt(name, count)
      BY <1>0, <2>9, LoopHeap
    <2>10. CASE eval_block
      BY <2>10, BlockHeap
    <2>11. CASE BlockEnds \/ LoopEnds
      BY <1>2, <2>11, FreeTopHeap DEF BlockEnds, LoopEnds, Own
    <2>12. CASE LoopAgain
      BY <2>12, LoopAgainHeap
    <2>13. CASE VarDeclEnds
      BY <2>13, VarDeclHeap
    <2>14. CASE AssignmentEnds
      BY <2>14, AssignmentHeap
    <2>15. CASE CallBody
      BY <2>15, CallBodyHeap
    <2>16. CASE ProgramEnds
      BY <2>16, ProgramEndsHeap
    <2>17. CASE BuiltinExit \/ CalleeLost
      BY <2>17, ExitHeap DEF BuiltinExit, CalleeLost
    <2>18. CASE Terminated
      BY <1>2, <2>18 DEF Terminated
    <2> QED
      BY <1>2, <2>1, <2>2, <2>3, <2>4, <2>5, <2>6, <2>7, <2>8, <2>9, <2>10, <2>11, <2>12, <2>13, <2>14,
         <2>15, <2>16, <2>17, <2>18 DEF Next, Basics, FunctionsAndCalls, LoopsAndOperators
  <1>3. ASSUME Next, status # "running" PROVE UNCHANGED vars
    BY <1>3
       DEF Next, Basics, FunctionsAndCalls, LoopsAndOperators,
       eval_var_decl, eval_assignment, eval_leaf, CallEnds, FilterCallEnds, array_filter,
       FilterCall, FilterEnds, BinaryExpr, eval_fn_decl, eval_expr_call, eval_loop_stmt, eval_block,
       BlockEnds, LoopEnds, LoopAgain, VarDeclEnds, AssignmentEnds, CallBody, ProgramEnds, BuiltinExit,
       CalleeLost, Terminated, AtStatement, AtExpr, HasValue
  <1> QED
    BY <1>1, <1>2, <1>3

LEMMA AlwaysHeap ==
  ASSUME SteadyCalls, ~CopyHeapVals
  PROVE  Spec => []HeapInv
  <1>1. Init => HeapInv
    BY InitHeap
  <1>2. Base /\ Base' /\ Linked /\ HeapInv /\ [Next]_vars => HeapInv'
    BY NextHeap
  <1> QED
    BY <1>1, <1>2, AlwaysBase, AlwaysLinked, PTL DEF Spec

LEMMA EvalScopeRange ==
  ASSUME Base, status = "running", Top.kind = "call" => ValidCallee(Top.callee)
  PROVE  EvalScope \in 0..Len(scopes)
  <1>1. Top.scope \in 1..Len(scopes) /\ Len(scopes) \in Nat
    BY TopIs
  <1>2. CASE Top.kind = "filter" /\ Top.new_scope = 0
    BY <1>1, <1>2 DEF EvalScope
  <1>3. CASE Top.kind = "call" \/ (Top.kind = "filter" /\ Top.new_scope # 0)
    <2>1. AtStatement
      BY <1>3 DEF AtStatement
    <2>2. EvalScope \in 1..Len(scopes)
      BY <2>1, EvalScopeIs
    <2> QED
      BY <2>2
  <1>4. CASE Top.kind \notin {"call", "filter"}
    <2>1. EvalScope = Top.scope
      BY <1>4 DEF EvalScope
    <2> QED
      BY <1>1, <2>1
  <1> QED
    BY <1>2, <1>3, <1>4

LEMMA HeapStrings ==
  ASSUME Base, Linked, HeapInv
  PROVE  StringsLive
  <1> SUFFICES ASSUME status = "running", Top.kind = "call" => ValidCallee(Top.callee),
                      NEW s \in Chain(scopes, EvalScope), NEW n \in Names(scopes[s]),
                      scopes[s].vals[n].value.type = "VAL_STRING"
               PROVE  scopes[s].vals[n].value.ref \notin tbl.freed
    BY DEF StringsLive, Heap
  <1> DEFINE e == EvalScope
  <1>1. e \in 0..Len(scopes) /\ s \in Chain(scopes, e)
    BY EvalScopeRange
  <1>2. Tree(scopes)
    BY TreeOf
  <1> HIDE DEF e
  <1>3. e # 0
    BY <1>1, <1>2, ChainStep
  <1>4. e \in 1..Len(scopes)
    BY <1>1, <1>3
  <1>5. Lent(scopes, tbl, e, ValueAt(scopes, s, n))
    BY <1>1, <1>4, FoundLent DEF e
  <1> QED
    BY <1>5 DEF Lent, ValueAt

(* Programs whose calls are steady and that bind a heap value to one name: *)
(* when eval_block or eval_loop_stmt frees a scope, or a parameter is      *)
(* bound to a string of its caller, no string that the code running next   *)
(* can look up has been released.                                          *)
THEOREM StringsStayLive ==
  ASSUME SteadyCalls, ~CopyHeapVals
  PROVE  Spec => []StringsLive
  <1>1. Base /\ Linked /\ HeapInv => StringsLive
    BY HeapStrings
  <1> QED
    BY <1>1, AlwaysBase, AlwaysLinked, AlwaysHeap, PTL

LEMMA HeapFreeList ==
  ASSUME Base, HeapInv
  PROVE  FreeListInv
  <1>1. IsInjective(tbl.head) /\ \A k \in Range(tbl.head) : tbl.values[k].type = "VAL_NULL"
    BY DEF HeapInv, HeapOK, HeadOK, Free
  <1>2. DOMAIN scopes = 1..Len(scopes)
    BY SequenceIs DEF Base, ScopesOK
  <1>3. ASSUME NEW s \in DOMAIN scopes, scopes[s].kind # "function", NEW n \in Heap(s)
        PROVE  scopes[s].vals[n].value.self_ptr \notin Range(tbl.head)
    <2>1. Owner(scopes, s, n)
      BY <1>2, <1>3 DEF Owner, Heap, ValueAt
    <2> QED
      BY <2>1 DEF HeapInv, HeapOK, SlotsHeld, Holding, Free, ValueAt
  <1> QED
    BY <1>1, <1>3 DEF FreeListInv

(* The same programs: val_free_force never releases a string that the      *)
(* running code can look up, and never puts a slot on the free list twice, *)
(* so val_alloc never hands one slot out to two values.                    *)
THEOREM HeapStaysSound ==
  ASSUME SteadyCalls, ~CopyHeapVals
  PROVE  Spec => []HeapSound
  <1>1. Base /\ Linked /\ HeapInv => HeapSound
    BY HeapStrings, HeapFreeList DEF HeapSound
  <1> QED
    BY <1>1, AlwaysBase, AlwaysLinked, AlwaysHeap, PTL
=============================================================================
