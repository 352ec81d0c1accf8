------------------------------- MODULE Valmap -------------------------------
(***************************************************************************)
(* The valmap of src/valmap.c: the open-addressing hash table in which     *)
(* every scope keeps its bindings.  One step of the model is one turn of a *)
(* loop of the C code, so that the table is seen in the middle of a probe  *)
(* and in the middle of a reallocation.                                    *)
(*                                                                         *)
(* A value is opaque here: what valmap_set_entry releases when it is asked *)
(* to (attempt_free) belongs to the model of the interpreter's heap.       *)
(***************************************************************************)
EXTENDS Integers, FiniteSets

CONSTANTS
  Key,            (* identifiers                                           *)
  Value,          (* values that a binding can hold                        *)
  NULL,           (* the C null pointer                                    *)
  DefaultSize,    (* VALMAP_DEFAULT_SIZE, 20 in the code                   *)
  MaxCapacity,    (* no array is larger: xcalloc ends the program first    *)
  hash_key(_, _)  (* capacity, key |-> the slot where the probe starts     *)

(* The load check of valmap_check_realloc keeps a slot vacant only in      *)
(* tables of at least 5 slots.  The hash is masked with capacity - 1.      *)
ASSUME SizeAssumption == DefaultSize \in Nat /\ DefaultSize >= 5
ASSUME BoundAssumption == MaxCapacity \in Nat /\ MaxCapacity >= DefaultSize
ASSUME HashAssumption ==
  \A c \in 1..MaxCapacity : \A k \in Key : hash_key(c, k) \in 0..(c - 1)

VARIABLES
  array,        (* the slots, a function on 0..capacity-1                  *)
  capacity,     (* valmap->capacity                                        *)
  elements,     (* valmap->elements                                        *)
  old_array,    (* valmap_realloc: the array being moved, else empty       *)
  old_capacity, (* valmap_realloc: its size, else 0                        *)
  old_i,        (* valmap_realloc: the loop counter                        *)
  index,        (* the probe's position in array, 0 when none is going on  *)
  pc,           (* where the operation in progress stands                  *)
  call,         (* the operation in progress, NULL if there is none        *)
  status        (* what the operation that just returned has answered      *)

vars == <<array, capacity, elements, old_array, old_capacity, old_i, index, pc, call, status>>

SetOp == {"set_no_overwrite", "set_no_create", "set_default"}
SetCall == [op : SetOp, key : Key, value : Value, is_const : BOOLEAN]
GetCall == [op : {"get"}, key : Key]
Call == SetCall \cup GetCall

ASSUME NullAssumption == NULL \notin Key \cup Value \cup Call

SetStatus == {"VAL_SET_OK", "VAL_SET_EXISTS", "VAL_SET_NOT_FOUND", "VAL_SET_IS_CONST"}

Entry == [key : Key, value : Value, is_const : BOOLEAN]

(* What xcalloc makes of a slot.                                           *)
Vacant == [key |-> NULL, value |-> NULL, is_const |-> FALSE]
Slot   == Entry \cup {Vacant}

NewArray(size) == [s \in 0..(size - 1) |-> Vacant]

(* pc: "probe" and "rehash" are the loop of valmap_set_entry, called by an *)
(* operation and by valmap_realloc; "realloc" is the loop of               *)
(* valmap_realloc; "get" is the loop of valmap_get.                        *)
Probing == {"probe", "rehash", "get"}

valmap_init ==
  /\ capacity = DefaultSize
  /\ array = NewArray(DefaultSize)
  /\ elements = 0
  /\ old_array = NewArray(0)
  /\ old_capacity = 0
  /\ old_i = 0
  /\ index = 0
  /\ pc = "idle"
  /\ call = NULL
  /\ status = NULL

(* elements * 1.25 >= capacity                                             *)
NeedsRealloc == 5 * elements >= 4 * capacity

(* Mutant: valmap_realloc moves the entries with the hash of the old       *)
(* capacity.                                                               *)
StartProbeOldSize(where, size, key) ==
  /\ pc' = where
  /\ index' = hash_key(IF where = "rehash" THEN old_capacity ELSE size, key)

(* The first step of a probe, of every caller.                             *)
StartProbe(where, size, key) ==
  /\ pc' = where
  /\ index' = hash_key(size, key)

(* valmap_set_no_overwrite, valmap_set_no_create and valmap_set_default    *)
(* begin alike: valmap_check_realloc, then valmap_set_entry.               *)
valmap_set(c) ==
  /\ pc = "idle"
  /\ call' = c
  /\ \/ /\ ~NeedsRealloc
        /\ StartProbe("probe", capacity, c.key)
        /\ UNCHANGED <<array, capacity, old_array, old_capacity, old_i>>
     \/ /\ NeedsRealloc
        /\ 2 * capacity <= MaxCapacity
        /\ array' = NewArray(2 * capacity)
        /\ capacity' = 2 * capacity
        /\ old_array' = array
        /\ old_capacity' = capacity
        /\ old_i' = 0
        /\ pc' = "realloc"
        /\ UNCHANGED index
  /\ status' = NULL
  /\ UNCHANGED elements

valmap_get(c) ==
  /\ pc = "idle"
  /\ call' = c
  /\ status' = NULL
  /\ StartProbe("get", capacity, c.key)
  /\ UNCHANGED <<array, capacity, elements, old_array, old_capacity, old_i>>

(* One turn of the loop of valmap_realloc, or its end.                     *)
valmap_realloc ==
  /\ pc = "realloc"
  /\ \/ /\ old_i < old_capacity
        /\ old_array[old_i].key # NULL
        /\ StartProbe("rehash", capacity, old_array[old_i].key)
        /\ UNCHANGED <<old_array, old_capacity, old_i>>
     \/ /\ old_i < old_capacity
        /\ old_array[old_i].key = NULL
        /\ old_i' = old_i + 1
        /\ UNCHANGED <<old_array, old_capacity, index, pc>>
     \/ /\ old_i = old_capacity
        /\ old_array' = NewArray(0)
        /\ old_capacity' = 0
        /\ old_i' = 0
        /\ StartProbe("probe", capacity, call.key)
  /\ UNCHANGED <<array, capacity, elements, call, status>>

(* The key a probe looks for.                                              *)
Sought == IF pc = "rehash" THEN old_array[old_i].key ELSE call.key

(* The entry that valmap_set_entry is called with.                         *)
Arg == IF pc = "rehash"
       THEN old_array[old_i]
       ELSE [key |-> call.key, value |-> call.value, is_const |-> call.is_const]

(* Does it have the mode and a result to report with?  valmap_realloc and  *)
(* valmap_set_default pass no result, which switches every refusal off.    *)
Refuses(op) == pc = "probe" /\ call.op = op

(* Mutants: no wrap-around; an index that stays at the end of the array.   *)
NextIndexNoWrap == index + 1
NextIndexStays  == IF index + 1 >= capacity THEN index ELSE index + 1

(* The wrap-around at the end of the array.                                *)
NextIndex == IF index + 1 >= capacity THEN 0 ELSE index + 1

(* Another key is in the slot.                                             *)
ProbeNext ==
  /\ pc \in Probing
  /\ array[index].key \notin {NULL, Sought}
  /\ index' = NextIndex
  /\ UNCHANGED <<array, capacity, elements, old_array, old_capacity, old_i, pc, call, status>>

(* valmap_set_entry returns, to the operation or to valmap_realloc.        *)
SetEntryReturns(s) ==
  /\ \/ /\ pc = "probe"
        /\ pc' = "idle"
        /\ call' = NULL
        /\ status' = s
        /\ UNCHANGED old_i
     \/ /\ pc = "rehash"
        /\ pc' = "realloc"
        /\ old_i' = old_i + 1
        /\ UNCHANGED <<call, status>>
  /\ index' = 0
  /\ UNCHANGED <<capacity, old_array, old_capacity>>

SetEntryRefuses(s) ==
  /\ SetEntryReturns(s)
  /\ UNCHANGED <<array, elements>>

(* Mutant: is_const is replaced too.                                       *)
SetEntryFoundConst ==
  /\ pc \in {"probe", "rehash"}
  /\ array[index].key = Sought
  /\ \/ /\ Refuses("set_no_overwrite")
        /\ SetEntryRefuses("VAL_SET_EXISTS")
     \/ /\ Refuses("set_no_create")
        /\ array[index].is_const
        /\ SetEntryRefuses("VAL_SET_IS_CONST")
     \/ /\ ~Refuses("set_no_overwrite")
        /\ ~(Refuses("set_no_create") /\ array[index].is_const)
        /\ array' = [array EXCEPT ![index] = Arg]
        /\ SetEntryReturns("VAL_SET_OK")
        /\ UNCHANGED elements

(* The key is in the slot: its value is replaced, is_const is left alone.  *)
SetEntryFound ==
  /\ pc \in {"probe", "rehash"}
  /\ array[index].key = Sought
  /\ \/ /\ Refuses("set_no_overwrite")
        /\ SetEntryRefuses("VAL_SET_EXISTS")
     \/ /\ Refuses("set_no_create")
        /\ array[index].is_const
        /\ SetEntryRefuses("VAL_SET_IS_CONST")
     \/ /\ ~Refuses("set_no_overwrite")
        /\ ~(Refuses("set_no_create") /\ array[index].is_const)
        /\ array' = [array EXCEPT ![index].value = Arg.value]
        /\ SetEntryReturns("VAL_SET_OK")
        /\ UNCHANGED elements

(* The slot is vacant: the key is in no slot.                              *)
SetEntryVacant ==
  /\ pc \in {"probe", "rehash"}
  /\ array[index].key = NULL
  /\ \/ /\ Refuses("set_no_create")
        /\ SetEntryRefuses("VAL_SET_NOT_FOUND")
     \/ /\ ~Refuses("set_no_create")
        /\ array' = [array EXCEPT ![index] = Arg]
        /\ elements' = IF pc = "probe" THEN elements + 1 ELSE elements
        /\ SetEntryReturns("VAL_SET_OK")

(* valmap_get ends at the key or at a vacant slot.                         *)
GetReturns ==
  /\ pc = "get"
  /\ array[index].key \in {NULL, call.key}
  /\ status' = array[index].value
  /\ call' = NULL
  /\ pc' = "idle"
  /\ index' = 0
  /\ UNCHANGED <<array, capacity, elements, old_array, old_capacity, old_i>>

(* The steps of an operation in progress: nothing else runs until it       *)
(* returns.                                                                *)
Internal ==
  \/ valmap_realloc
  \/ ProbeNext
  \/ SetEntryFound
  \/ SetEntryVacant
  \/ GetReturns

Next ==
  \/ \E c \in SetCall : valmap_set(c)
  \/ \E c \in GetCall : valmap_get(c)
  \/ Internal

Spec == valmap_init /\ [][Next]_vars

(* An operation that has begun goes on: the code is sequential.            *)
FairSpec == Spec /\ WF_vars(Internal)

-----------------------------------------------------------------------------
(* Properties.                                                             *)

(* Every variable has its type; array and old_array have as many slots as  *)
(* capacity and old_capacity say, and index never leaves the array.        *)
TypeOK ==
  /\ capacity \in DefaultSize..MaxCapacity
  /\ array \in [0..(capacity - 1) -> Slot]
  /\ elements \in Nat
  /\ old_capacity \in 0..MaxCapacity
  /\ old_array \in [0..(old_capacity - 1) -> Slot]
  /\ old_i \in 0..old_capacity
  /\ index \in 0..(capacity - 1)
  /\ pc \in {"idle", "realloc"} \cup Probing
  /\ call \in Call \cup {NULL}
  /\ call = NULL <=> pc = "idle"
  /\ pc = "get" <=> call \in GetCall
  /\ status \in SetStatus \cup Value \cup {NULL}

(* Slots that hold an entry, and slots of the old array that               *)
(* valmap_realloc has still to move.                                       *)
Occupied  == {s \in 0..(capacity - 1) : array[s].key # NULL}
Remaining == {s \in old_i..(old_capacity - 1) : old_array[s].key # NULL}

(* The slots a probe that starts at h visits before it reaches s.          *)
Path(h, s) == {p \in 0..(capacity - 1) :
                 IF h <= s THEN h <= p /\ p < s ELSE h <= p \/ p < s}

(* Open addressing finds an entry only if no vacant slot lies between the  *)
(* slot its key hashes to and the slot it is in: the loops of valmap_get   *)
(* and valmap_set_entry stop at the first vacant slot.  It must hold after *)
(* a reallocation, where the keys hash to other slots.                     *)
ChainInv ==
  \A s \in Occupied : Path(hash_key(capacity, array[s].key), s) \subseteq Occupied

(* A key is in one place only, also while valmap_realloc moves the entries *)
(* one by one from the old array to the new one.                           *)
UniqueInv ==
  /\ \A s, t \in Occupied : array[s].key = array[t].key => s = t
  /\ \A s, t \in Remaining : old_array[s].key = old_array[t].key => s = t
  /\ \A s \in Occupied, t \in Remaining : array[s].key # old_array[t].key

(* valmap->elements is the number of entries held, although valmap_realloc *)
(* inserts through the same valmap_set_entry that counts the new ones.     *)
CountInv == elements = Cardinality(Occupied) + Cardinality(Remaining)

(* The load check leaves a slot vacant, whatever the table holds: without  *)
(* one, the probe loops of valmap_get and valmap_set_entry have no end.    *)
RoomInv ==
  /\ elements < capacity
  /\ pc \in {"probe", "rehash", "realloc"} => 5 * elements < 4 * capacity

(* The slots a probe has passed hold other keys than the one it looks for. *)
ProbeInv ==
  pc \in Probing =>
    \A p \in Path(hash_key(capacity, Sought), index) : array[p].key \notin {NULL, Sought}

(* The table is sound in every state of every probe and of the growth.     *)
TableInv == ChainInv /\ UniqueInv /\ CountInv /\ RoomInv /\ ProbeInv

(* A probe never comes back to the slot it started from.                   *)
ProbeEnds ==
  [][(pc \in Probing /\ pc' = pc) => (index' # hash_key(capacity, Sought))]_vars

(* An operation, once called, returns.                                     *)
CallReturns == pc # "idle" ~> pc = "idle"

(* The table implements the dictionary.  An entry that valmap_realloc has  *)
(* still to move is bound; an operation takes effect when it returns.      *)
Entries == {array[s] : s \in Occupied} \cup {old_array[s] : s \in Remaining}

Dict == INSTANCE Dictionary WITH bindings <- Entries

(* Every step of the table is a step of the dictionary or leaves it as it  *)
(* is: valmap_get finds what was last set, is_const is respected and       *)
(* reported, and a reallocation loses, doubles and changes nothing.        *)
ImplementsDictionary == Dict!DictSpec
=============================================================================
