------------------------------ MODULE ValAlloc ------------------------------
(***************************************************************************)
(* The table of heap values of src/valalloc.c and the string buffers that  *)
(* the values in it own (src/datatype.c), as operators on a record         *)
(*   values : the slots of tbl->values in use or on the free list          *)
(*   head   : the free list, a sequence of slot numbers                    *)
(*   texts  : what each of the string buffers made so far was made with    *)
(*   freed  : the string buffers released with free                        *)
(* Slots and buffers are numbered from 1; 0 is the null pointer.           *)
(***************************************************************************)
EXTENDS Integers, Sequences, FiniteSets

(* A val_t: self_ptr is the slot it was made in, ref what it points at (a  *)
(* string buffer, a function) or its number.                               *)
Val(type, self, ref) == [type |-> type, self_ptr |-> self, ref |-> ref]

BLAZE_NULL == Val("VAL_NULL", 0, 0)

val_alloc_tbl_init == [values |-> <<>>, head |-> <<>>, texts |-> <<>>, freed |-> {}]

(* The slot that the next val_alloc hands out.                             *)
NextSlot(tbl) == IF tbl.head # <<>> THEN Head(tbl.head) ELSE Len(tbl.values) + 1

(* Mutant: the slot handed out stays on the free list.                     *)
val_create_heapKept(tbl, type, ref) ==
  LET content == [type |-> type, nofree |-> FALSE, ref |-> ref]
  IN  IF tbl.head # <<>>
      THEN [tbl EXCEPT !.values[Head(tbl.head)] = content]
      ELSE [tbl EXCEPT !.values = Append(@, content)]

(* val_alloc and what val_create_heap puts into the slot.                  *)
val_create_heap(tbl, type, ref) ==
  LET content == [type |-> type, nofree |-> FALSE, ref |-> ref]
  IN  IF tbl.head # <<>>
      THEN [tbl EXCEPT !.head = Tail(@), !.values[Head(tbl.head)] = content]
      ELSE [tbl EXCEPT !.values = Append(@, content)]

(* A string value in a new buffer: eval_string, val_copy_deep of one, and  *)
(* eval_concat.                                                            *)
NewString(tbl, text) ==
  [val |-> Val("VAL_STRING", NextSlot(tbl), Len(tbl.texts) + 1),
   tbl |-> [val_create_heap(tbl, "VAL_STRING", Len(tbl.texts) + 1) EXCEPT !.texts = Append(@, text)]]

(* Mutant: a copy that shares what the value owns.                         *)
val_copy_deepShallow(v, tbl) == [val |-> v, tbl |-> tbl]

(* The copy of an array is empty.                                          *)
val_copy_deep(v, tbl) ==
  CASE v.type = "VAL_NULL"    -> [val |-> BLAZE_NULL, tbl |-> tbl]
    [] v.type = "VAL_STRING"  -> NewString(tbl, tbl.texts[v.ref])
    [] v.type \in {"VAL_INTEGER", "VAL_BOOLEAN", "VAL_FLOAT"} ->
                                 [val |-> Val(v.type, NextSlot(tbl), v.ref),
                                  tbl |-> val_create_heap(tbl, v.type, v.ref)]
    [] v.type = "VAL_ARRAY"   -> [val |-> Val("VAL_ARRAY", NextSlot(tbl), 0),
                                  tbl |-> val_create_heap(tbl, "VAL_ARRAY", 0)]

(* The slot goes to the front of the free list whatever is in it; the      *)
(* buffer is released unless the slot was freed before (nofree).           *)
val_alloc_free(slot, tbl) ==
  LET content == tbl.values[slot]
      buffer  == IF content.type = "VAL_STRING" /\ ~content.nofree THEN {content.ref} ELSE {}
  IN  [tbl EXCEPT !.head = <<slot>> \o @,
                  !.freed = @ \cup buffer,
                  !.values[slot] = [type |-> "VAL_NULL", nofree |-> TRUE, ref |-> 0]]

(* What valmap_free does about one value of the table it frees.            *)
FreeValue(v, tbl) ==
  IF v.type # "VAL_NULL" /\ v.self_ptr # 0 THEN val_alloc_free(v.self_ptr, tbl) ELSE tbl
=============================================================================
