------------------------------- MODULE Scope --------------------------------
(***************************************************************************)
(* The scopes of src/scope.c, as operators on the sequence of all scopes   *)
(* ever created, and on the table of heap values.  A scope number is the   *)
(* address of a scope; it is not used again after scope_free, so that a    *)
(* pointer kept too long is seen to dangle.  0 is the null pointer.        *)
(*                                                                         *)
(* The bindings of a scope are those of Dictionary, which Valmap is proved *)
(* to implement.  Of the table only its capacity is kept: a val_t pointer  *)
(* that scope_resolve_identifier returned points into the table's array,   *)
(* and dangles once the table has grown.                                   *)
(***************************************************************************)
EXTENDS ValAlloc, FiniteSetsExt, SequencesExt, TLC

CONSTANTS
  DefaultSize,       (* VALMAP_DEFAULT_SIZE, 20 in the code                *)
  GlobalPredeclared, (* true, false, null and the built-in functions: 9    *)
  ChildPredeclared   (* the built-in functions, again: 6                   *)

(* No table grows while its scope is set up.                               *)
ASSUME PredeclaredAssumption ==
  /\ {DefaultSize, GlobalPredeclared, ChildPredeclared} \subseteq Nat
  /\ 5 * GlobalPredeclared < 4 * DefaultSize
  /\ 5 * ChildPredeclared < 4 * DefaultSize

(* The kind says who made the scope; only the scopes of blocks and loops   *)
(* are ever freed before the program ends.                                 *)
ScopeKind == {"global", "block", "loop", "function"}

NewScope(kind, parent) ==
  [kind |-> kind, parent |-> parent, live |-> TRUE, vals |-> <<>>, capacity |-> DefaultSize,
   mode |-> "SC_DEFAULT", unique_id |-> 0, prev_unique_id |-> 0]

scope_create_global == <<NewScope("global", 0)>>

(* Mutant: a scope is its own parent.                                      *)
scope_initSelf(scopes, kind, parent) == Append(scopes, NewScope(kind, Len(scopes) + 1))

scope_init(scopes, kind, parent) == Append(scopes, NewScope(kind, parent))

Names(scope) == DOMAIN scope.vals

(* What the scope's table holds; only the global scope has no parent.      *)
Elements(scope) ==
  (IF scope.parent = 0 THEN GlobalPredeclared ELSE ChildPredeclared) + Cardinality(Names(scope))

(* Mutant: the table grows when it is half full.                           *)
valmap_check_reallocHalf(scope) ==
  IF 2 * Elements(scope) > scope.capacity THEN [scope EXCEPT !.capacity = 2 * @] ELSE scope

(* valmap_check_realloc, the first thing every set does.                   *)
valmap_check_realloc(scope) ==
  IF 5 * Elements(scope) >= 4 * scope.capacity THEN [scope EXCEPT !.capacity = 2 * @] ELSE scope

(* Bind a name that the scope has not bound.                               *)
Bind(scope, name, val, is_const) ==
  [scope EXCEPT !.vals =
     [n \in {name} \cup DOMAIN @ |->
        IF n = name THEN [value |-> val, is_const |-> is_const] ELSE @[n]]]

valmap_set_default(scope, name, val, is_const) ==
  LET grown == valmap_check_realloc(scope)
  IN  IF name \in Names(scope)
      THEN [grown EXCEPT !.vals[name].value = val]
      ELSE Bind(grown, name, val, is_const)

(* allow_redecl is false in every scope the code makes: a declaration is   *)
(* valmap_set_no_overwrite, and fails if the name is bound.                *)
CanDeclare(scope, name) == name \notin Names(scope)
scope_declare_identifier(scope, name, val, is_const) ==
  Bind(valmap_check_realloc(scope), name, val, is_const)

(* The scopes that a search for a name visits, from scope s outwards, up   *)
(* to the one that binds it, or all of them.  It cannot go past a scope    *)
(* that has been freed.                                                    *)
Visited(scopes, s, name) ==
  LET visit[t \in 0..Len(scopes)] ==
        CASE t = 0 -> {}
          [] t > 0 /\ (~scopes[t].live \/ name \in Names(scopes[t])) -> {t}
          [] OTHER -> {t} \cup visit[scopes[t].parent]
  IN  visit[s]

Chain(scopes, s) ==
  LET chain[t \in 0..Len(scopes)] == IF t = 0 THEN {} ELSE {t} \cup chain[scopes[t].parent]
  IN  chain[s]

(* The scope that binds the name, 0 if none does.  A scope is created      *)
(* after its parent: the last one visited has the smallest number.         *)
scope_resolve_identifier(scopes, s, name) ==
  LET last == Min(Visited(scopes, s, name))
  IN  IF scopes[last].live /\ name \in Names(scopes[last]) THEN last ELSE 0

(* valmap_set_no_create is tried in every scope visited, and every one of  *)
(* them may grow.                                                          *)
scope_assign_identifier(scopes, s, name, val) ==
  LET home    == scope_resolve_identifier(scopes, s, name)
      visited == Visited(scopes, s, name)
      grown   == [t \in DOMAIN scopes |->
                    IF t \in visited THEN valmap_check_realloc(scopes[t]) ELSE scopes[t]]
  IN  [grown EXCEPT ![home].vals[name].value = val]

(* Mutant: the scopes around it are freed too.                             *)
scope_freeChain(scopes, s) ==
  [t \in DOMAIN scopes |->
     IF t \in Chain(scopes, s) THEN [NewScope(scopes[t].kind, scopes[t].parent) EXCEPT !.live = FALSE]
     ELSE scopes[t]]

(* scope_free gives the scope's values back to the table of heap values.   *)
scope_free(scopes, s) ==
  [scopes EXCEPT ![s] = [NewScope(@.kind, @.parent) EXCEPT !.live = FALSE]]
scope_free_values(scope, tbl) ==
  FoldSet(LAMBDA name, t : FreeValue(scope.vals[name].value, t), tbl, Names(scope))
=============================================================================
