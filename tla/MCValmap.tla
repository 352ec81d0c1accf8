------------------------------ MODULE MCValmap ------------------------------
(***************************************************************************)
(* Valmap with five identifiers in a table of five slots that grows to     *)
(* ten.                                                                    *)
(***************************************************************************)
EXTENDS Valmap, Bitwise, TLC

CONSTANTS
  a, b, c, d, e,  (* identifiers *)
  v, w            (* values      *)

(* The FNV hash of a key is any 64-bit number; the low bits are what the   *)
(* mask lets through.  With capacity 5 the mask is 100 in binary and the   *)
(* keys start at slots 4, 4, 0, 4 and 0; with capacity 10 it is 1001, and  *)
(* they start at 8, 9, 1, 0 and 9: collisions move with the capacity, and  *)
(* probes wrap around in both.                                             *)
Fnv == a :> 12 @@ b :> 13 @@ c :> 3 @@ d :> 4 @@ e :> 9

(* hash & (capacity - 1), the capacity being no power of two.              *)
MCHashKey(size, key) == Fnv[key] & (size - 1)

(* Only a is ever given the second value, and e is no constant: one entry  *)
(* overwritten with another value tells a value kept from a value replaced. *)
MCSetCall == {x \in SetCall : (x.value = w => x.key = a) /\ (x.key = e => ~x.is_const)}

MCNext ==
  \/ \E x \in MCSetCall : valmap_set(x)
  \/ \E x \in GetCall : valmap_get(x)
  \/ Internal

MCSpec == valmap_init /\ [][MCNext]_vars /\ WF_vars(Internal)
=============================================================================
