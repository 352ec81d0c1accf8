----------------------------- MODULE Dictionary -----------------------------
(***************************************************************************)
(* What a valmap promises to the interpreter, with no table in sight: a    *)
(* set of bindings with one binding per key, and four operations that take *)
(* effect in one step between the call and the return.                     *)
(***************************************************************************)
EXTENDS Integers

CONSTANTS
  Key,      (* identifiers                                                 *)
  Value,    (* values that a binding can hold                              *)
  NULL      (* the C null pointer: no key, no value                        *)

VARIABLES
  bindings, (* the bindings held, a set of [key, value, is_const]          *)
  call,     (* the operation in progress, NULL if there is none            *)
  status    (* what the operation that just returned has answered          *)

dictVars == <<bindings, call, status>>

Entry == [key : Key, value : Value, is_const : BOOLEAN]

(* The operations of valmap.h the interpreter uses.                        *)
SetOp == {"set_no_overwrite", "set_no_create", "set_default"}
SetCall == [op : SetOp, key : Key, value : Value, is_const : BOOLEAN]
GetCall == [op : {"get"}, key : Key]
Call == SetCall \cup GetCall

SetStatus == {"VAL_SET_OK", "VAL_SET_EXISTS", "VAL_SET_NOT_FOUND", "VAL_SET_IS_CONST"}

(* The binding of a key, as a set with at most one member.                 *)
Bound(k) == {b \in bindings : b.key = k}

DictInit ==
  /\ bindings = {}
  /\ call = NULL
  /\ status = NULL

Invoke(c) ==
  /\ call = NULL
  /\ call' = c
  /\ status' = NULL
  /\ UNCHANGED bindings

Return(s) ==
  /\ call' = NULL
  /\ status' = s

(* Nothing is bound to the key: it is bound now, unless the operation only *)
(* overwrites.                                                             *)
Create ==
  /\ call # NULL
  /\ call.op \in {"set_no_overwrite", "set_default"}
  /\ Bound(call.key) = {}
  /\ bindings' = bindings \cup {[key |-> call.key, value |-> call.value, is_const |-> call.is_const]}
  /\ Return("VAL_SET_OK")

(* The key is bound: only the value is replaced, is_const is what the      *)
(* declaration made it.  "set_default" does not look at is_const.          *)
Overwrite ==
  /\ call # NULL
  /\ \E b \in Bound(call.key) :
       /\ call.op = "set_default" \/ (call.op = "set_no_create" /\ ~b.is_const)
       /\ bindings' = (bindings \ {b}) \cup {[b EXCEPT !.value = call.value]}
       /\ Return("VAL_SET_OK")

Refuse ==
  /\ call # NULL
  /\ \/ /\ call.op = "set_no_overwrite"
        /\ Bound(call.key) # {}
        /\ Return("VAL_SET_EXISTS")
     \/ /\ call.op = "set_no_create"
        /\ Bound(call.key) = {}
        /\ Return("VAL_SET_NOT_FOUND")
     \/ /\ call.op = "set_no_create"
        /\ \E b \in Bound(call.key) : b.is_const
        /\ Return("VAL_SET_IS_CONST")
  /\ UNCHANGED bindings

Lookup ==
  /\ call # NULL
  /\ call.op = "get"
  /\ \/ Bound(call.key) = {} /\ Return(NULL)
     \/ \E b \in Bound(call.key) : Return(b.value)
  /\ UNCHANGED bindings

DictNext ==
  \/ \E c \in Call : Invoke(c)
  \/ Create
  \/ Overwrite
  \/ Refuse
  \/ Lookup

DictSpec == DictInit /\ [][DictNext]_dictVars
=============================================================================
