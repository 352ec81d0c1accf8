---------------------------- MODULE ValmapProofs ----------------------------
(***************************************************************************)
(* Proofs about Valmap, for every set of keys and values, every hash       *)
(* function and every capacity.                                            *)
(***************************************************************************)
EXTENDS Valmap, FiniteSetTheorems, TLAPS

(* What the operations know about where they stand: valmap_realloc has an  *)
(* old array exactly while it runs, and rehashes occupied slots only; it   *)
(* runs on behalf of a set.                                                *)
PhaseInv ==
  /\ pc \in {"idle", "probe", "get"} => old_capacity = 0
  /\ pc = "rehash" => old_i < old_capacity /\ old_array[old_i].key # NULL

(* The inductive invariant.                                                *)
Inv == TypeOK /\ PhaseInv /\ ChainInv /\ UniqueInv /\ CountInv /\ RoomInv /\ ProbeInv

-----------------------------------------------------------------------------
(* Types of what an operation reads.                                       *)
LEMMA SoughtType ==
  ASSUME TypeOK, PhaseInv, pc \in Probing
  PROVE  /\ Sought \in Key
         /\ hash_key(capacity, Sought) \in 0..(capacity - 1)
  <1>1. Sought \in Key
    <2>1. CASE pc = "rehash"
      BY <2>1 DEF TypeOK, PhaseInv, Sought, Slot, Entry, Vacant
    <2>2. CASE pc # "rehash"
      BY <2>2 DEF TypeOK, Sought, Probing, Call, SetCall, GetCall
    <2>3. QED BY <2>1, <2>2
  <1>2. capacity \in 1..MaxCapacity
    BY SizeAssumption, BoundAssumption DEF TypeOK
  <1>3. QED BY <1>1, <1>2, HashAssumption

LEMMA ArgType ==
  ASSUME TypeOK, PhaseInv, pc \in {"probe", "rehash"}
  PROVE  /\ Arg \in Entry
         /\ Arg.key = Sought
  <1>1. CASE pc = "rehash"
    BY <1>1, NullAssumption DEF TypeOK, PhaseInv, Sought, Arg, Slot, Entry, Vacant
  <1>2. CASE pc = "probe"
    <2>1. call \in SetCall
      BY <1>2 DEF TypeOK, Call
    <2>2. QED BY <1>2, <2>1 DEF Sought, Arg, SetCall, Entry
  <1>3. QED BY <1>1, <1>2

(* An occupied slot holds an entry; every entry hashes into the array.     *)
LEMMA OccupiedType ==
  ASSUME TypeOK, NEW s \in Occupied
  PROVE  /\ s \in 0..(capacity - 1)
         /\ array[s] \in Entry
         /\ array[s].key \in Key
         /\ hash_key(capacity, array[s].key) \in 0..(capacity - 1)
  <1>1. s \in 0..(capacity - 1) /\ array[s] \in Entry /\ array[s].key \in Key
    BY DEF TypeOK, Occupied, Slot, Entry, Vacant
  <1>2. capacity \in 1..MaxCapacity
    BY SizeAssumption, BoundAssumption DEF TypeOK
  <1>3. QED BY <1>1, <1>2, HashAssumption

LEMMA FiniteSlots ==
  ASSUME TypeOK
  PROVE  /\ IsFiniteSet(Occupied)
         /\ IsFiniteSet(Remaining)
         /\ Cardinality(Occupied) \in Nat
         /\ Cardinality(Remaining) \in Nat
         /\ Cardinality(0..(capacity - 1)) = capacity
  <1>1. IsFiniteSet(0..(capacity - 1)) /\ Cardinality(0..(capacity - 1)) = capacity
    BY FS_Interval, SizeAssumption DEF TypeOK
  <1>2. IsFiniteSet(old_i..(old_capacity - 1))
    BY FS_Interval DEF TypeOK
  <1>3. Occupied \subseteq 0..(capacity - 1) /\ Remaining \subseteq old_i..(old_capacity - 1)
    BY DEF Occupied, Remaining
  <1>4. IsFiniteSet(Occupied) /\ IsFiniteSet(Remaining)
    BY <1>1, <1>2, <1>3, FS_Subset
  <1>5. QED BY <1>1, <1>4, FS_CardinalityType

(* A table that counts fewer elements than it has slots has a vacant one.  *)
LEMMA VacantSlot ==
  ASSUME TypeOK, CountInv, RoomInv
  PROVE  Occupied # 0..(capacity - 1)
  BY FiniteSlots DEF CountInv, RoomInv, TypeOK

(* One turn of a probe adds the slot it leaves to the slots it has passed, *)
(* and it comes back to where it started only after all of them.           *)
LEMMA PathStep ==
  ASSUME TypeOK, NEW h \in 0..(capacity - 1)
  PROVE  /\ NextIndex \in 0..(capacity - 1)
         /\ NextIndex # h => Path(h, NextIndex) = Path(h, index) \cup {index}
         /\ NextIndex = h => Path(h, index) \cup {index} = 0..(capacity - 1)
         /\ Path(h, h) = {}
  <1>1. capacity \in Nat /\ capacity >= 5 /\ index \in 0..(capacity - 1)
    BY SizeAssumption, BoundAssumption DEF TypeOK
  <1>2. NextIndex \in 0..(capacity - 1)
    BY <1>1 DEF NextIndex
  <1>3. ASSUME NextIndex # h PROVE Path(h, NextIndex) = Path(h, index) \cup {index}
    BY <1>1, <1>2, <1>3 DEF Path, NextIndex
  <1>4. ASSUME NextIndex = h PROVE Path(h, index) \cup {index} = 0..(capacity - 1)
    BY <1>1, <1>2, <1>4 DEF Path, NextIndex
  <1>5. Path(h, h) = {}
    BY <1>1 DEF Path
  <1>6. QED BY <1>2, <1>3, <1>4, <1>5

(* A probe that meets a vacant slot has missed nothing.                    *)
LEMMA VacantMeansAbsent ==
  ASSUME TypeOK, PhaseInv, ChainInv, ProbeInv, pc \in Probing, array[index].key = NULL
  PROVE  \A s \in Occupied : array[s].key # Sought
  <1>1. SUFFICES ASSUME NEW s \in Occupied, array[s].key = Sought PROVE FALSE
    OBVIOUS
  <1> DEFINE h == hash_key(capacity, Sought)
  <1>2. h \in 0..(capacity - 1) /\ index \in 0..(capacity - 1) /\ s \in 0..(capacity - 1)
    BY SoughtType DEF TypeOK, Occupied
  <1>3. index \notin Occupied
    BY DEF Occupied
  <1>4. index \notin Path(h, s)
    BY <1>1, <1>3 DEF ChainInv
  <1>5. s \notin Path(h, index)
    BY <1>1 DEF ProbeInv
  <1>6. s # index
    BY <1>3
  <1>7. capacity \in Nat
    BY SizeAssumption, BoundAssumption DEF TypeOK
  <1> HIDE DEF h
  <1>8. QED BY <1>2, <1>4, <1>5, <1>6, <1>7 DEF Path

-----------------------------------------------------------------------------
(* The invariant holds at first and every step preserves it.               *)
LEMMA InitInv == valmap_init => Inv
  <1> SUFFICES ASSUME valmap_init PROVE Inv
    OBVIOUS
  <1> USE SizeAssumption, BoundAssumption DEF valmap_init
  <1>1. Occupied = {} /\ Remaining = {}
    BY DEF Occupied, Remaining, NewArray, Vacant
  <1>2. TypeOK
    <2>1. array \in [0..(capacity - 1) -> Slot] /\ old_array \in [0..(old_capacity - 1) -> Slot]
      BY DEF NewArray, Slot
    <2>2. NULL \notin GetCall
      BY NullAssumption DEF Call
    <2>3. QED BY <2>1, <2>2 DEF TypeOK
  <1>3. CountInv
    BY <1>1, FS_EmptySet DEF CountInv
  <1>4. QED
    BY <1>1, <1>2, <1>3 DEF Inv, PhaseInv, ChainInv, UniqueInv, RoomInv, ProbeInv, Probing

(* A probe that starts has passed nothing.                                 *)
LEMMA StartProbeInv ==
  ASSUME TypeOK', PhaseInv', (pc \in Probing)', index' = hash_key(capacity, Sought)'
  PROVE  ProbeInv'
  <1>1. (hash_key(capacity, Sought) \in 0..(capacity - 1))'
    BY SoughtType, PTL
  <1>2. Path(hash_key(capacity, Sought), hash_key(capacity, Sought))' = {}
    BY <1>1, SizeAssumption, BoundAssumption DEF Path, TypeOK
  <1>3. QED BY <1>2 DEF ProbeInv

LEMMA SetInv ==
  ASSUME Inv, NEW c \in SetCall, valmap_set(c)
  PROVE  Inv'
  <1> USE DEF Inv
  <1>1. c \in Call /\ c \notin GetCall /\ c # NULL /\ c.key \in Key
    BY NullAssumption DEF Call, SetCall, GetCall, SetOp
  <1>2. CASE ~NeedsRealloc
    <2>1. hash_key(capacity, c.key) \in 0..(capacity - 1)
      BY <1>1, HashAssumption, SizeAssumption, BoundAssumption DEF TypeOK
    <2> USE <1>2, <2>1 DEF valmap_set, StartProbe
    <2>2. TypeOK'
      BY <1>1 DEF TypeOK, Probing
    <2>3. PhaseInv'
      BY DEF PhaseInv
    <2>4. Occupied' = Occupied /\ Remaining' = Remaining
      BY DEF Occupied, Remaining
    <2>5. ChainInv' /\ UniqueInv' /\ CountInv'
      BY <2>4 DEF ChainInv, UniqueInv, CountInv, Path
    <2>6. RoomInv'
      BY DEF RoomInv, NeedsRealloc, TypeOK
    <2>7. ProbeInv'
      BY <2>2, <2>3, StartProbeInv DEF Sought, Probing
    <2>8. QED BY <2>2, <2>3, <2>5, <2>6, <2>7
  <1>3. CASE NeedsRealloc
    <2> USE <1>3, SizeAssumption, BoundAssumption DEF valmap_set
    <2>1. /\ capacity' = 2 * capacity /\ 2 * capacity <= MaxCapacity
          /\ array' = NewArray(2 * capacity)
          /\ old_array' = array /\ old_capacity' = capacity /\ old_i' = 0
          /\ pc = "idle" /\ pc' = "realloc" /\ call' = c /\ status' = NULL
          /\ UNCHANGED <<index, elements>>
      OBVIOUS
    <2>2. TypeOK'
      <3>1. array' \in [0..(capacity' - 1) -> Slot]
        BY <2>1 DEF NewArray, Slot
      <3>2. QED BY <1>1, <2>1, <3>1 DEF TypeOK
    <2>3. PhaseInv' /\ ProbeInv'
      BY <2>1 DEF PhaseInv, ProbeInv, Probing
    <2>4. Occupied' = {} /\ Remaining' = Occupied
      BY <2>1 DEF Occupied, Remaining, NewArray, Vacant
    <2>5. Remaining = {}
      BY <2>1 DEF Remaining, PhaseInv, TypeOK
    <2>6. ChainInv' /\ UniqueInv'
      BY <2>1, <2>4 DEF ChainInv, UniqueInv
    <2>7. CountInv'
      BY <2>1, <2>4, <2>5, FS_EmptySet, FiniteSlots DEF CountInv
    <2>8. RoomInv'
      BY <2>1 DEF RoomInv, TypeOK
    <2>9. QED BY <2>2, <2>3, <2>6, <2>7, <2>8
  <1>4. QED BY <1>2, <1>3

LEMMA GetInv ==
  ASSUME Inv, NEW c \in GetCall, valmap_get(c)
  PROVE  Inv'
  <1> USE DEF Inv, valmap_get, StartProbe
  <1>1. c \in Call /\ c # NULL /\ c.key \in Key
    BY NullAssumption DEF Call, GetCall
  <1>2. hash_key(capacity, c.key) \in 0..(capacity - 1)
    BY <1>1, HashAssumption, SizeAssumption, BoundAssumption DEF TypeOK
  <1>3. TypeOK'
    BY <1>1, <1>2 DEF TypeOK, Probing
  <1>4. PhaseInv'
    BY DEF PhaseInv
  <1>5. Occupied' = Occupied /\ Remaining' = Remaining
    BY DEF Occupied, Remaining
  <1>6. ChainInv' /\ UniqueInv' /\ CountInv' /\ RoomInv'
    BY <1>5 DEF ChainInv, UniqueInv, CountInv, Path, RoomInv
  <1>7. ProbeInv'
    BY <1>3, <1>4, StartProbeInv DEF Sought, Probing
  <1>8. QED BY <1>3, <1>4, <1>6, <1>7

(* valmap_realloc leaves the new array and what it counts alone.           *)
LEMMA ReallocInv ==
  ASSUME Inv, valmap_realloc
  PROVE  Inv'
  <1> USE DEF Inv
  <1>1. capacity \in 1..MaxCapacity
    BY SizeAssumption, BoundAssumption DEF TypeOK
  <1>2. pc = "realloc" /\ UNCHANGED <<array, capacity, elements, call, status>>
    BY DEF valmap_realloc
  <1>3. Occupied' = Occupied /\ ChainInv'
    BY <1>2 DEF Occupied, ChainInv, Path
  <1>4. RoomInv'
    BY <1>2 DEF RoomInv
  <1>5. call \in SetCall /\ call.key \in Key
    BY <1>2 DEF TypeOK, Call, SetCall
  <1>6. CASE old_i < old_capacity /\ old_array[old_i].key # NULL
    <2>1. UNCHANGED <<old_array, old_capacity, old_i>> /\ StartProbe("rehash", capacity, old_array[old_i].key)
      BY <1>6 DEF TypeOK, valmap_realloc
    <2>2. old_array[old_i].key \in Key
      BY <1>6 DEF TypeOK, Slot, Entry, Vacant
    <2>3. TypeOK'
      BY <1>1, <1>2, <2>1, <2>2, HashAssumption DEF TypeOK, StartProbe, Probing
    <2>4. PhaseInv'
      BY <1>6, <2>1 DEF PhaseInv, StartProbe
    <2>5. ProbeInv'
      BY <1>2, <2>1, <2>3, <2>4, StartProbeInv DEF Sought, Probing, StartProbe
    <2>6. Remaining' = Remaining
      BY <2>1 DEF Remaining
    <2>7. UniqueInv' /\ CountInv'
      BY <1>2, <1>3, <2>1, <2>6 DEF UniqueInv, CountInv
    <2>8. QED BY <1>3, <1>4, <2>3, <2>4, <2>5, <2>7
  <1>7. CASE old_i < old_capacity /\ old_array[old_i].key = NULL
    <2>1. UNCHANGED <<old_array, old_capacity, index, pc>> /\ old_i' = old_i + 1
      BY <1>7 DEF TypeOK, valmap_realloc
    <2>2. TypeOK'
      BY <1>2, <1>7, <2>1 DEF TypeOK
    <2>3. PhaseInv' /\ ProbeInv'
      BY <1>2, <2>1 DEF PhaseInv, ProbeInv, Probing
    <2>4. Remaining' = Remaining
      BY <1>7, <2>1 DEF Remaining, TypeOK
    <2>5. UniqueInv' /\ CountInv'
      BY <1>2, <1>3, <2>1, <2>4 DEF UniqueInv, CountInv
    <2>6. QED BY <1>3, <1>4, <2>2, <2>3, <2>5
  <1>8. CASE old_i = old_capacity
    <2>1. /\ old_array' = NewArray(0) /\ old_capacity' = 0 /\ old_i' = 0
          /\ StartProbe("probe", capacity, call.key)
      BY <1>8 DEF TypeOK, valmap_realloc
    <2>2. old_array' \in [0..(old_capacity' - 1) -> Slot]
      BY <2>1 DEF NewArray, Slot
    <2>3. TypeOK'
      <3>1. index' \in 0..(capacity' - 1)
        BY <1>1, <1>2, <1>5, <2>1, HashAssumption DEF StartProbe
      <3>2. pc' = "probe" /\ old_capacity' \in 0..MaxCapacity /\ old_i' \in 0..old_capacity'
        BY <2>1, BoundAssumption DEF StartProbe
      <3>3. QED BY <1>2, <2>2, <3>1, <3>2 DEF TypeOK, Probing
    <2>4. PhaseInv'
      BY <2>1 DEF PhaseInv, StartProbe
    <2>5. ProbeInv'
      BY <1>2, <2>1, <2>3, <2>4, StartProbeInv DEF Sought, Probing, StartProbe
    <2>6. Remaining = {} /\ Remaining' = {}
      BY <1>8, <2>1 DEF Remaining, TypeOK
    <2>7. UniqueInv' /\ CountInv'
      BY <1>2, <1>3, <2>6 DEF UniqueInv, CountInv
    <2>8. QED BY <1>3, <1>4, <2>3, <2>4, <2>5, <2>7
  <1>9. QED BY <1>6, <1>7, <1>8 DEF TypeOK

(* The slots passed and the slot left are occupied; if they were all, the  *)
(* probe would be back where it started.                                   *)
LEMMA ProbeNotHome ==
  ASSUME Inv, ProbeNext
  PROVE  NextIndex # hash_key(capacity, Sought)
  <1> USE DEF Inv
  <1> DEFINE h == hash_key(capacity, Sought)
  <1>1. h \in 0..(capacity - 1)
    BY SoughtType DEF ProbeNext
  <1>2. Path(h, index) \cup {index} \subseteq Occupied
    BY DEF ProbeNext, ProbeInv, Occupied, TypeOK, Path
  <1>3. Occupied \subseteq 0..(capacity - 1) /\ Occupied # 0..(capacity - 1)
    BY VacantSlot DEF Occupied
  <1> HIDE DEF h
  <1>4. QED BY <1>1, <1>2, <1>3, PathStep DEF h

LEMMA ProbeNextInv ==
  ASSUME Inv, ProbeNext
  PROVE  Inv'
  <1> USE DEF Inv
  <1> DEFINE h == hash_key(capacity, Sought)
  <1>1. /\ index' = NextIndex
        /\ UNCHANGED <<array, capacity, elements, old_array, old_capacity, old_i, pc, call, status>>
        /\ pc \in Probing
        /\ array[index].key \notin {NULL, Sought}
    BY DEF ProbeNext
  <1>2. h \in 0..(capacity - 1)
    BY <1>1, SoughtType
  <1>3. NextIndex \in 0..(capacity - 1)
    BY <1>2, PathStep
  <1>4. TypeOK'
    BY <1>1, <1>3 DEF TypeOK
  <1>5. Occupied' = Occupied /\ Remaining' = Remaining
    BY <1>1 DEF Occupied, Remaining
  <1>6. PhaseInv' /\ ChainInv' /\ UniqueInv' /\ CountInv' /\ RoomInv'
    BY <1>1, <1>5 DEF PhaseInv, ChainInv, UniqueInv, CountInv, RoomInv, Path
  <1>7. ProbeInv'
    <2>1. Path(h, NextIndex) = Path(h, index) \cup {index}
      BY <1>2, PathStep, ProbeNotHome
    <2>2. \A p \in Path(h, NextIndex) : array[p].key \notin {NULL, Sought}
      BY <1>1, <2>1 DEF ProbeInv
    <2>3. Sought' = Sought /\ hash_key(capacity, Sought)' = h
      BY <1>1 DEF Sought
    <2>4. Path(hash_key(capacity, Sought), index)' = Path(h, NextIndex)
      BY <1>1, <2>3 DEF Path
    <2>5. QED BY <1>1, <2>2, <2>3, <2>4 DEF ProbeInv
  <1>8. QED BY <1>4, <1>6, <1>7

(* What returning from valmap_set_entry does to the places that the        *)
(* operation keeps, whatever it did to the array.                          *)
LEMMA SetEntryReturnsType ==
  ASSUME Inv, NEW s \in SetStatus, pc \in {"probe", "rehash"}, SetEntryReturns(s),
         array' \in [0..(capacity - 1) -> Slot], elements' \in Nat
  PROVE  /\ TypeOK' /\ PhaseInv' /\ ProbeInv'
         /\ Remaining' = IF pc = "rehash" THEN Remaining \ {old_i} ELSE Remaining
  <1> USE DEF Inv
  <1>1. index' = 0 /\ UNCHANGED <<capacity, old_array, old_capacity>>
    BY DEF SetEntryReturns
  <1>2. capacity >= 5 /\ 0 \in 0..(capacity - 1)
    BY SizeAssumption, BoundAssumption DEF TypeOK
  <1>3. CASE pc = "probe"
    <2>1. pc' = "idle" /\ call' = NULL /\ status' = s /\ UNCHANGED old_i
      BY <1>3 DEF SetEntryReturns
    <2>2. NULL \notin GetCall
      BY NullAssumption DEF Call
    <2>3. TypeOK'
      BY <1>1, <1>2, <2>1, <2>2 DEF TypeOK
    <2>4. PhaseInv' /\ ProbeInv'
      BY <1>1, <1>3, <2>1 DEF PhaseInv, ProbeInv, Probing
    <2>5. Remaining' = Remaining
      BY <1>1, <2>1 DEF Remaining
    <2>6. QED BY <1>3, <2>3, <2>4, <2>5
  <1>4. CASE pc = "rehash"
    <2>1. pc' = "realloc" /\ old_i' = old_i + 1 /\ UNCHANGED <<call, status>>
      BY <1>4 DEF SetEntryReturns
    <2>2. old_i < old_capacity
      BY <1>4 DEF PhaseInv
    <2>3. TypeOK'
      BY <1>1, <1>2, <1>4, <2>1, <2>2 DEF TypeOK, Probing
    <2>4. PhaseInv' /\ ProbeInv'
      BY <2>1 DEF PhaseInv, ProbeInv, Probing
    <2>5. Remaining' = Remaining \ {old_i}
      BY <1>1, <2>1, <2>2 DEF Remaining, TypeOK
    <2>6. QED BY <1>4, <2>3, <2>4, <2>5
  <1>5. QED BY <1>3, <1>4

(* valmap_realloc never finds the key it moves in the new array.           *)
LEMMA RehashNeverFinds ==
  ASSUME Inv, SetEntryFound
  PROVE  pc = "probe" /\ index \in Occupied
  <1> USE DEF Inv
  <1>1. pc \in Probing /\ array[index].key = Sought
    BY DEF SetEntryFound, Probing
  <1>2. index \in Occupied
    BY <1>1, SoughtType, NullAssumption DEF Occupied, TypeOK
  <1>3. ASSUME pc = "rehash" PROVE FALSE
    <2>1. old_i \in Remaining /\ array[index].key = old_array[old_i].key
      BY <1>1, <1>3 DEF Remaining, PhaseInv, TypeOK, Sought
    <2>2. QED BY <1>2, <2>1 DEF UniqueInv
  <1>4. QED BY <1>2, <1>3 DEF SetEntryFound

(* A step that returns and leaves every slot's key alone.                  *)
LEMMA SameKeysInv ==
  ASSUME Inv, NEW s \in SetStatus, pc = "probe", SetEntryReturns(s),
         array' \in [0..(capacity - 1) -> Slot],
         \A p \in 0..(capacity - 1) : array'[p].key = array[p].key,
         UNCHANGED elements
  PROVE  Inv'
  <1> USE DEF Inv
  <1>1. TypeOK' /\ PhaseInv' /\ ProbeInv' /\ Remaining' = Remaining
    BY SetEntryReturnsType DEF TypeOK
  <1>2. UNCHANGED <<capacity, old_array, old_capacity>> /\ pc' = "idle"
    BY DEF SetEntryReturns
  <1>3. Occupied' = Occupied
    BY <1>2 DEF Occupied
  <1>4. ChainInv' /\ UniqueInv'
    BY <1>1, <1>2, <1>3 DEF ChainInv, UniqueInv, Path, Occupied
  <1>5. CountInv' /\ RoomInv'
    BY <1>1, <1>2, <1>3 DEF CountInv, RoomInv
  <1>6. QED BY <1>1, <1>4, <1>5

LEMMA FoundInv ==
  ASSUME Inv, SetEntryFound
  PROVE  Inv'
  <1> USE DEF Inv
  <1>1. pc = "probe" /\ index \in Occupied
    BY RehashNeverFinds
  <1>2. CASE UNCHANGED <<array, elements>>
    BY <1>1, <1>2, SameKeysInv DEF SetEntryFound, SetEntryRefuses, TypeOK, SetStatus
  <1>3. CASE /\ array' = [array EXCEPT ![index].value = Arg.value]
             /\ SetEntryReturns("VAL_SET_OK")
             /\ UNCHANGED elements
    <2>1. Arg \in Entry
      BY <1>1, ArgType
    <2>2. array[index] \in Entry
      BY <1>1, OccupiedType
    <2>3. [array[index] EXCEPT !.value = Arg.value] \in Entry
      BY <2>1, <2>2 DEF Entry
    <2>4. array' \in [0..(capacity - 1) -> Slot]
      BY <1>3, <2>3 DEF TypeOK, Slot
    <2>5. \A p \in 0..(capacity - 1) : array'[p].key = array[p].key
      BY <1>3, <2>2 DEF TypeOK, Entry
    <2>6. QED BY <1>1, <1>3, <2>4, <2>5, SameKeysInv DEF SetStatus
  <1>4. QED BY <1>2, <1>3 DEF SetEntryFound, SetEntryRefuses

(* A new entry goes to the end of its probe's path.                        *)
LEMMA InsertInv ==
  ASSUME Inv, pc \in {"probe", "rehash"}, array[index].key = NULL,
         array' = [array EXCEPT ![index] = Arg],
         elements' = IF pc = "probe" THEN elements + 1 ELSE elements,
         SetEntryReturns("VAL_SET_OK")
  PROVE  Inv'
  <1> USE DEF Inv
  <1> DEFINE h == hash_key(capacity, Sought)
  <1>1. Arg \in Entry /\ Arg.key = Sought /\ Sought \in Key /\ Sought # NULL
    BY ArgType, SoughtType, NullAssumption DEF Probing
  <1>2. index \in 0..(capacity - 1) /\ index \notin Occupied /\ elements \in Nat
    BY DEF TypeOK, Occupied
  <1>3. array' \in [0..(capacity - 1) -> Slot]
    BY <1>1 DEF TypeOK, Slot
  <1>4. /\ array'[index] = Arg
        /\ \A p \in 0..(capacity - 1) : p # index => array'[p] = array[p]
    BY <1>2 DEF TypeOK
  <1>5. /\ TypeOK' /\ PhaseInv' /\ ProbeInv'
        /\ Remaining' = IF pc = "rehash" THEN Remaining \ {old_i} ELSE Remaining
    <2>1. elements' \in Nat
      BY <1>2
    <2>2. "VAL_SET_OK" \in SetStatus
      BY DEF SetStatus
    <2>3. QED BY <1>3, <2>1, <2>2, SetEntryReturnsType
  <1>6. UNCHANGED <<capacity, old_array, old_capacity>> /\ pc' \in {"idle", "realloc"}
    BY DEF SetEntryReturns
  <1>7. Occupied' = Occupied \cup {index}
    BY <1>1, <1>2, <1>4, <1>6 DEF Occupied
  <1>8. \A t \in Occupied : array[t].key # Sought
    BY VacantMeansAbsent DEF Probing
  <1>9. ChainInv'
    <2>1. SUFFICES ASSUME NEW t \in Occupied'
                   PROVE  Path(hash_key(capacity, array'[t].key), t) \subseteq Occupied'
      BY <1>6 DEF ChainInv, Path
    <2>2. CASE t \in Occupied
      BY <1>2, <1>4, <1>7, <2>2 DEF ChainInv, Occupied
    <2>3. CASE t = index
      <3>1. \A p \in Path(h, index) : p \in 0..(capacity - 1) /\ array[p].key # NULL
        BY DEF ProbeInv, Probing, Path
      <3>2. array'[t].key = Sought
        BY <1>1, <1>4, <2>3
      <3>3. QED BY <1>7, <2>3, <3>1, <3>2 DEF Occupied
    <2>4. QED BY <1>7, <2>2, <2>3
  <1>10. UniqueInv'
    <2>1. \A t \in Occupied : t \in 0..(capacity - 1) /\ t # index
      BY <1>2 DEF Occupied
    <2>2. \A t, u \in Occupied' : array'[t].key = array'[u].key => t = u
      BY <1>1, <1>4, <1>7, <1>8, <2>1 DEF UniqueInv
    <2>3. Remaining' \subseteq Remaining
      BY <1>5
    <2>4. \A t, u \in Remaining' : old_array'[t].key = old_array'[u].key => t = u
      BY <1>6, <2>3 DEF UniqueInv
    <2>5. \A u \in Remaining' : old_array[u].key # Sought
      <3>1. CASE pc = "rehash"
        <4>1. old_i \in Remaining /\ Sought = old_array[old_i].key
          BY <3>1 DEF PhaseInv, Remaining, TypeOK, Sought
        <4>2. QED BY <1>5, <3>1, <4>1 DEF UniqueInv
      <3>2. CASE pc = "probe"
        <4>1. old_i..(old_capacity - 1) = {}
          BY <3>2 DEF PhaseInv, TypeOK
        <4>2. QED BY <1>5, <3>2, <4>1 DEF Remaining
      <3>3. QED BY <3>1, <3>2
    <2>6. \A t \in Occupied', u \in Remaining' : array'[t].key # old_array'[u].key
      BY <1>1, <1>4, <1>6, <1>7, <2>1, <2>3, <2>5 DEF UniqueInv
    <2>7. QED BY <2>2, <2>4, <2>6 DEF UniqueInv
  <1>11. CountInv'
    <2>1. Cardinality(Occupied') = Cardinality(Occupied) + 1
      BY <1>2, <1>7, FiniteSlots, FS_AddElement
    <2>2. CASE pc = "probe"
      BY <1>5, <2>1, <2>2, FiniteSlots DEF CountInv
    <2>3. CASE pc = "rehash"
      <3>1. old_i \in Remaining
        BY <2>3 DEF PhaseInv, Remaining, TypeOK
      <3>2. Cardinality(Remaining') = Cardinality(Remaining) - 1
        BY <1>5, <2>3, <3>1, FiniteSlots, FS_RemoveElement
      <3>3. QED BY <2>1, <2>3, <3>2, FiniteSlots DEF CountInv
    <2>4. QED BY <2>2, <2>3
  <1>12. RoomInv'
    <2>1. capacity \in Nat /\ capacity >= 5
      BY SizeAssumption, BoundAssumption DEF TypeOK
    <2>2. 5 * elements < 4 * capacity
      BY DEF RoomInv
    <2>3. CASE pc = "probe"
      BY <1>2, <1>6, <2>1, <2>2, <2>3 DEF RoomInv, SetEntryReturns
    <2>4. CASE pc = "rehash"
      BY <1>6, <2>2, <2>4 DEF RoomInv
    <2>5. QED BY <2>3, <2>4
  <1>13. QED BY <1>5, <1>9, <1>10, <1>11, <1>12

LEMMA VacantInv ==
  ASSUME Inv, SetEntryVacant
  PROVE  Inv'
  <1>1. CASE Refuses("set_no_create")
    BY <1>1, SameKeysInv DEF Inv, SetEntryVacant, SetEntryRefuses, Refuses, TypeOK, SetStatus
  <1>2. CASE ~Refuses("set_no_create")
    BY <1>2, InsertInv DEF SetEntryVacant
  <1>3. QED BY <1>1, <1>2

LEMMA GetReturnsInv ==
  ASSUME Inv, GetReturns
  PROVE  Inv'
  <1> USE DEF Inv
  <1>1. /\ pc = "get" /\ pc' = "idle" /\ call' = NULL /\ index' = 0 /\ status' = array[index].value
        /\ UNCHANGED <<array, capacity, elements, old_array, old_capacity, old_i>>
    BY DEF GetReturns
  <1>2. status' \in Value \cup {NULL}
    BY <1>1 DEF TypeOK, Slot, Entry, Vacant
  <1>3. capacity >= 5 /\ NULL \notin GetCall
    BY SizeAssumption, BoundAssumption, NullAssumption DEF TypeOK, Call
  <1>4. TypeOK'
    BY <1>1, <1>2, <1>3 DEF TypeOK
  <1>5. Occupied' = Occupied /\ Remaining' = Remaining
    BY <1>1 DEF Occupied, Remaining
  <1>6. PhaseInv' /\ ChainInv' /\ UniqueInv' /\ CountInv' /\ RoomInv' /\ ProbeInv'
    BY <1>1, <1>5 DEF PhaseInv, ChainInv, UniqueInv, CountInv, RoomInv, ProbeInv, Path, Probing
  <1>7. QED BY <1>4, <1>6

LEMMA NextInv == Inv /\ [Next]_vars => Inv'
  <1> SUFFICES ASSUME Inv, [Next]_vars PROVE Inv'
    OBVIOUS
  <1>1. CASE \E c \in SetCall : valmap_set(c)
    BY <1>1, SetInv
  <1>2. CASE \E c \in GetCall : valmap_get(c)
    BY <1>2, GetInv
  <1>3. CASE valmap_realloc
    BY <1>3, ReallocInv
  <1>4. CASE ProbeNext
    BY <1>4, ProbeNextInv
  <1>5. CASE SetEntryFound
    BY <1>5, FoundInv
  <1>6. CASE SetEntryVacant
    BY <1>6, VacantInv
  <1>7. CASE GetReturns
    BY <1>7, GetReturnsInv
  <1>8. CASE UNCHANGED vars
    <2> USE <1>8 DEF vars, Inv
    <2>1. Occupied' = Occupied /\ Remaining' = Remaining
      BY DEF Occupied, Remaining
    <2>2. TypeOK' /\ PhaseInv' /\ CountInv' /\ RoomInv'
      BY <2>1 DEF TypeOK, PhaseInv, CountInv, RoomInv
    <2>3. ChainInv' /\ UniqueInv'
      BY <2>1 DEF ChainInv, UniqueInv, Path
    <2>4. ProbeInv'
      BY DEF ProbeInv, Path, Sought
    <2>5. QED BY <2>2, <2>3, <2>4
  <1>9. QED
    BY <1>1, <1>2, <1>3, <1>4, <1>5, <1>6, <1>7, <1>8 DEF Next, Internal

(* The invariant holds in every state of the table.                        *)
THEOREM Invariance == Spec => []Inv
  BY InitInv, NextInv, PTL DEF Spec

(* Type correctness: in particular no probe of valmap_get or               *)
(* valmap_set_entry ever reads outside the array.                          *)
THEOREM TypeCorrect == Spec => []TypeOK
  BY Invariance, PTL DEF Inv

(* Every key is where a probe for it will find it, once only, the element  *)
(* count that decides on growth is exact, and a slot stays vacant, with    *)
(* any hash function and also while the table grows.                       *)
THEOREM TableSafe == Spec => []TableInv
  BY Invariance, PTL DEF Inv, TableInv

(* No probe passes a slot twice, so that the loops of valmap_get and       *)
(* valmap_set_entry end after at most capacity turns.                                                         *)
THEOREM ProbesEnd == Spec => ProbeEnds
  <1>1. Inv /\ [Next]_vars =>
          [(pc \in Probing /\ pc' = pc) => (index' # hash_key(capacity, Sought))]_vars
    <2> SUFFICES ASSUME Inv, Next, pc \in Probing, pc' = pc
                 PROVE  index' # hash_key(capacity, Sought)
      OBVIOUS
    <2>1. ProbeNext
      BY DEF Next, Internal, Probing, valmap_set, valmap_get, valmap_realloc, SetEntryFound,
             SetEntryVacant, SetEntryRefuses, SetEntryReturns, GetReturns
    <2>2. QED BY <2>1, ProbeNotHome DEF ProbeNext
  <1>2. QED BY <1>1, Invariance, PTL DEF Spec, ProbeEnds, Inv

-----------------------------------------------------------------------------
(* The table of Valmap implements Dictionary, for every set of keys and    *)
(* values, every hash function and every capacity.                         *)

(* Outside valmap_realloc the entries are those of the array.              *)
LEMMA EntriesOfArray ==
  ASSUME Inv, pc \in {"idle", "probe", "get"}
  PROVE  Remaining = {} /\ Entries = {array[s] : s \in Occupied}
  <1>1. old_i..(old_capacity - 1) = {}
    BY DEF Inv, PhaseInv, TypeOK
  <1>2. QED BY <1>1 DEF Remaining, Entries

(* What a probe that ends tells of the dictionary.                         *)
LEMMA FoundMeansBound ==
  ASSUME Inv, pc \in {"probe", "get"}, array[index].key = call.key
  PROVE  array[index] \in Dict!Bound(call.key) /\ array[index] \in Entry
  <1>1. index \in Occupied
    BY SoughtType, NullAssumption DEF Inv, TypeOK, Occupied, Sought, Probing
  <1>2. array[index] \in Entries
    BY <1>1, EntriesOfArray
  <1>3. QED BY <1>1, <1>2, OccupiedType DEF Dict!Bound, Inv

LEMMA VacantMeansUnbound ==
  ASSUME Inv, pc \in {"probe", "get"}, array[index].key = NULL
  PROVE  Dict!Bound(call.key) = {}
  <1>1. \A s \in Occupied : array[s].key # call.key
    BY VacantMeansAbsent DEF Inv, Probing, Sought
  <1>2. QED BY <1>1, EntriesOfArray DEF Dict!Bound

-----------------------------------------------------------------------------
LEMMA InitImplements == valmap_init => Dict!DictInit
  <1> SUFFICES ASSUME valmap_init PROVE Dict!DictInit
    OBVIOUS
  <1>1. Occupied = {} /\ Remaining = {}
    BY DEF valmap_init, Occupied, Remaining, NewArray, Vacant
  <1>2. QED BY <1>1 DEF valmap_init, Dict!DictInit, Entries

LEMMA InvokeImplements ==
  ASSUME Inv, NEW c \in Call, call = NULL, call' = c, status' = NULL, Entries' = Entries
  PROVE  Dict!DictNext
  <1>1. c \in Dict!Call
    BY DEF Call, SetCall, GetCall, SetOp, Dict!Call, Dict!SetCall, Dict!GetCall, Dict!SetOp
  <1>2. Dict!Invoke(c)
    BY DEF Dict!Invoke
  <1>3. QED BY <1>1, <1>2 DEF Dict!DictNext

LEMMA SetImplements ==
  ASSUME Inv, NEW c \in SetCall, valmap_set(c)
  PROVE  Dict!DictNext
  <1>1. c \in Call /\ call = NULL /\ call' = c /\ status' = NULL
    BY DEF Call, valmap_set, Inv, TypeOK
  <1>2. Entries' = Entries
    <2>1. CASE ~NeedsRealloc
      BY <2>1 DEF valmap_set, Entries, Occupied, Remaining
    <2>2. CASE NeedsRealloc
      <3>1. /\ array' = NewArray(2 * capacity) /\ capacity' = 2 * capacity
            /\ old_array' = array /\ old_capacity' = capacity /\ old_i' = 0
        BY <2>2 DEF valmap_set
      <3>2. Occupied' = {} /\ Remaining' = Occupied
        BY <3>1 DEF Occupied, Remaining, NewArray, Vacant
      <3>3. Entries' = {array[s] : s \in Occupied}
        BY <3>1, <3>2 DEF Entries
      <3>4. QED BY <3>3, EntriesOfArray DEF valmap_set
    <2>3. QED BY <2>1, <2>2
  <1>3. QED BY <1>1, <1>2, InvokeImplements

LEMMA GetImplements ==
  ASSUME Inv, NEW c \in GetCall, valmap_get(c)
  PROVE  Dict!DictNext
  <1>1. c \in Call /\ call = NULL /\ call' = c /\ status' = NULL
    BY DEF Call, valmap_get, Inv, TypeOK
  <1>2. Entries' = Entries
    BY DEF valmap_get, Entries, Occupied, Remaining
  <1>3. QED BY <1>1, <1>2, InvokeImplements

LEMMA ReallocImplements ==
  ASSUME Inv, valmap_realloc
  PROVE  UNCHANGED <<Entries, call, status>>
  <1>1. UNCHANGED <<array, capacity, call, status>>
    BY DEF valmap_realloc
  <1>2. Occupied' = Occupied
    BY <1>1 DEF Occupied
  <1>3. CASE UNCHANGED <<old_array, old_capacity, old_i>>
    BY <1>1, <1>2, <1>3 DEF Entries, Remaining
  <1>4. CASE /\ old_i < old_capacity /\ old_array[old_i].key = NULL
             /\ old_i' = old_i + 1 /\ UNCHANGED <<old_array, old_capacity>>
    <2>1. Remaining' = Remaining
      BY <1>4 DEF Remaining, Inv, TypeOK
    <2>2. QED BY <1>1, <1>2, <1>4, <2>1 DEF Entries
  <1>5. CASE old_i = old_capacity /\ old_capacity' = 0 /\ old_i' = 0
    <2>1. Remaining = {} /\ Remaining' = {}
      BY <1>5 DEF Remaining, Inv, TypeOK
    <2>2. QED BY <1>1, <1>2, <2>1 DEF Entries
  <1>6. QED BY <1>3, <1>4, <1>5 DEF valmap_realloc

LEMMA FoundImplements ==
  ASSUME Inv, Inv', SetEntryFound
  PROVE  Dict!DictNext
  <1> DEFINE b == array[index]
  <1>1. pc = "probe" /\ index \in Occupied /\ call \in SetCall /\ call # NULL
    BY RehashNeverFinds DEF Inv, TypeOK, Call
  <1>2. b.key = call.key
    BY <1>1 DEF SetEntryFound, Sought
  <1>3. b \in Dict!Bound(call.key) /\ b \in Entry
    BY <1>1, <1>2, FoundMeansBound
  <1>4. pc' = "idle" /\ call' = NULL /\ UNCHANGED <<capacity, old_array, old_capacity, old_i>>
    BY <1>1 DEF SetEntryFound, SetEntryRefuses, SetEntryReturns
  <1>5. UNCHANGED array => Entries' = Entries
    BY <1>4 DEF Entries, Occupied, Remaining
  <1>6. CASE Refuses("set_no_overwrite") /\ SetEntryRefuses("VAL_SET_EXISTS")
    BY <1>1, <1>3, <1>4, <1>5, <1>6
       DEF Dict!DictNext, Dict!Refuse, Dict!Return, Refuses, SetEntryRefuses, SetEntryReturns
  <1>7. CASE Refuses("set_no_create") /\ b.is_const /\ SetEntryRefuses("VAL_SET_IS_CONST")
    BY <1>1, <1>3, <1>4, <1>5, <1>7
       DEF Dict!DictNext, Dict!Refuse, Dict!Return, Refuses, SetEntryRefuses, SetEntryReturns
  <1>8. CASE /\ ~Refuses("set_no_overwrite")
             /\ ~(Refuses("set_no_create") /\ b.is_const)
             /\ array' = [array EXCEPT ![index].value = Arg.value]
             /\ SetEntryReturns("VAL_SET_OK")
    <2> DEFINE bNew == [b EXCEPT !.value = call.value]
    <2>1. call.op = "set_default" \/ (call.op = "set_no_create" /\ ~b.is_const)
      BY <1>1, <1>8 DEF Refuses, SetCall, SetOp
    <2>2. /\ array'[index] = bNew
          /\ \A s \in 0..(capacity - 1) : s # index => array'[s] = array[s]
      BY <1>1, <1>8 DEF Arg, Inv, TypeOK
    <2>3. Occupied' = Occupied
      <3>1. bNew.key = b.key
        BY <1>3 DEF Entry
      <3>2. QED BY <1>4, <2>2, <3>1 DEF Occupied
    <2>4. Entries = {array[s] : s \in Occupied} /\ Entries' = {array'[s] : s \in Occupied}
      <3>1. Remaining' = {}
        BY <1>1, <1>4, EntriesOfArray DEF Remaining
      <3>2. QED BY <1>1, <2>3, <3>1, EntriesOfArray DEF Entries
    <2>5. \A s \in Occupied : s # index => array[s] # b
      BY <1>1 DEF Inv, UniqueInv
    <2>6. \A s \in Occupied : s \in 0..(capacity - 1)
      BY DEF Occupied
    <2> HIDE DEF b, bNew
    <2>7. Entries' = (Entries \ {b}) \cup {bNew}
      BY <1>1, <2>2, <2>4, <2>5, <2>6 DEF b
    <2>8. Dict!Overwrite
      BY <1>1, <1>3, <1>4, <1>8, <2>1, <2>7 DEF Dict!Overwrite, Dict!Return, SetEntryReturns, bNew
    <2>9. QED BY <2>8 DEF Dict!DictNext
  <1>9. QED BY <1>6, <1>7, <1>8 DEF SetEntryFound

(* A vacant slot: the binding is new, or valmap_realloc moves an old one.  *)
LEMMA VacantImplements ==
  ASSUME Inv, SetEntryVacant
  PROVE  Dict!DictNext \/ UNCHANGED <<Entries, call, status>>
  <1>1. pc \in {"probe", "rehash"} /\ array[index].key = NULL
    BY DEF SetEntryVacant
  <1>2. CASE Refuses("set_no_create")
    <2>1. /\ pc = "probe" /\ call.op = "set_no_create" /\ call # NULL
          /\ call' = NULL /\ status' = "VAL_SET_NOT_FOUND"
          /\ UNCHANGED <<array, capacity, old_array, old_capacity, old_i>>
      BY <1>2 DEF SetEntryVacant, SetEntryRefuses, SetEntryReturns, Refuses, Inv, TypeOK
    <2>2. Entries' = Entries
      BY <2>1 DEF Entries, Occupied, Remaining
    <2>3. Dict!Bound(call.key) = {}
      BY <1>1, <2>1, VacantMeansUnbound
    <2>4. QED BY <2>1, <2>2, <2>3 DEF Dict!DictNext, Dict!Refuse, Dict!Return
  <1>3. CASE ~Refuses("set_no_create")
    <2>1. array' = [array EXCEPT ![index] = Arg] /\ SetEntryReturns("VAL_SET_OK")
      BY <1>3 DEF SetEntryVacant
    <2>2. index \in 0..(capacity - 1) /\ index \notin Occupied
      BY <1>1 DEF Inv, TypeOK, Occupied
    <2>3. /\ array'[index] = Arg
          /\ \A s \in 0..(capacity - 1) : s # index => array'[s] = array[s]
      BY <2>1, <2>2 DEF Inv, TypeOK
    <2>4. Arg.key # NULL
      BY <1>1, ArgType, NullAssumption DEF Inv, Entry
    <2>5. UNCHANGED <<capacity, old_array, old_capacity>>
      BY <2>1 DEF SetEntryReturns
    <2>6. Occupied' = Occupied \cup {index}
      BY <2>2, <2>3, <2>4, <2>5 DEF Occupied
    <2>7. \A s \in Occupied : array'[s] = array[s]
      BY <2>2, <2>3 DEF Occupied
    <2>8. CASE pc = "probe"
      <3>1. call \in SetCall /\ call # NULL /\ call' = NULL /\ status' = "VAL_SET_OK" /\ UNCHANGED old_i
        BY <2>1, <2>8 DEF SetEntryReturns, Inv, TypeOK, Call
      <3>2. Remaining = {} /\ Remaining' = {}
        BY <2>5, <2>8, <3>1, EntriesOfArray DEF Remaining
      <3>3. Entries' = Entries \cup {Arg}
        BY <2>3, <2>6, <2>7, <3>2 DEF Entries
      <3>4. Arg = [key |-> call.key, value |-> call.value, is_const |-> call.is_const]
        BY <2>8 DEF Arg
      <3>5. call.op \in {"set_no_overwrite", "set_default"}
        BY <1>3, <2>8, <3>1 DEF Refuses, SetCall, SetOp
      <3>6. Dict!Bound(call.key) = {}
        BY <1>1, <2>8, VacantMeansUnbound
      <3>7. QED BY <3>1, <3>3, <3>4, <3>5, <3>6 DEF Dict!DictNext, Dict!Create, Dict!Return
    <2>9. CASE pc = "rehash"
      <3>1. old_i' = old_i + 1 /\ UNCHANGED <<call, status>>
        BY <2>1, <2>9 DEF SetEntryReturns
      <3>2. Arg = old_array[old_i]
        BY <2>9 DEF Arg
      <3>3. Remaining = Remaining' \cup {old_i}
        BY <2>5, <2>9, <3>1 DEF Remaining, Inv, PhaseInv, TypeOK
      <3>4. Entries' = Entries
        BY <2>3, <2>5, <2>6, <2>7, <3>2, <3>3 DEF Entries
      <3>5. QED BY <3>1, <3>4
    <2>10. QED BY <1>1, <2>8, <2>9
  <1>4. QED BY <1>2, <1>3

LEMMA GetReturnsImplements ==
  ASSUME Inv, GetReturns
  PROVE  Dict!DictNext
  <1>1. /\ pc = "get" /\ call # NULL /\ call.op = "get"
        /\ call' = NULL /\ status' = array[index].value
        /\ UNCHANGED <<array, capacity, old_array, old_capacity, old_i>>
    BY DEF GetReturns, Inv, TypeOK, GetCall
  <1>2. Entries' = Entries
    BY <1>1 DEF Entries, Occupied, Remaining
  <1>3. CASE array[index].key = NULL
    <2>1. Dict!Bound(call.key) = {}
      BY <1>1, <1>3, VacantMeansUnbound
    <2>2. array[index].value = NULL
      BY <1>3, NullAssumption DEF Inv, TypeOK, Slot, Entry, Vacant
    <2>3. QED BY <1>1, <1>2, <2>1, <2>2 DEF Dict!DictNext, Dict!Lookup, Dict!Return
  <1>4. CASE array[index].key = call.key
    <2>1. array[index] \in Dict!Bound(call.key)
      BY <1>1, <1>4, FoundMeansBound
    <2>2. QED BY <1>1, <1>2, <2>1 DEF Dict!DictNext, Dict!Lookup, Dict!Return
  <1>5. QED BY <1>3, <1>4 DEF GetReturns

(* Every step of the table is a step of the dictionary or leaves it alone. *)
LEMMA NextImplements == Inv /\ Inv' /\ [Next]_vars => [Dict!DictNext]_(Dict!dictVars)
  <1> SUFFICES ASSUME Inv, Inv', [Next]_vars
               PROVE  Dict!DictNext \/ UNCHANGED <<Entries, call, status>>
    BY DEF Dict!dictVars
  <1>1. CASE \E c \in SetCall : valmap_set(c)
    BY <1>1, SetImplements
  <1>2. CASE \E c \in GetCall : valmap_get(c)
    BY <1>2, GetImplements
  <1>3. CASE valmap_realloc
    BY <1>3, ReallocImplements
  <1>4. CASE ProbeNext
    BY <1>4 DEF ProbeNext, Entries, Occupied, Remaining
  <1>5. CASE SetEntryFound
    BY <1>5, FoundImplements
  <1>6. CASE SetEntryVacant
    BY <1>6, VacantImplements
  <1>7. CASE GetReturns
    BY <1>7, GetReturnsImplements
  <1>8. CASE UNCHANGED vars
    BY <1>8 DEF vars, Entries, Occupied, Remaining
  <1>9. QED
    BY <1>1, <1>2, <1>3, <1>4, <1>5, <1>6, <1>7, <1>8 DEF Next, Internal

(* The hash table of src/valmap.c implements the dictionary: each set and  *)
(* get answers, and changes the bindings, as if there were no table.       *)
THEOREM Refinement == Spec => ImplementsDictionary
  BY InitImplements, NextImplements, Invariance, PTL
     DEF Spec, ImplementsDictionary, Dict!DictSpec
=============================================================================
