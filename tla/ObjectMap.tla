------------------------------ MODULE ObjectMap ------------------------------
(***************************************************************************)
(* What the users of gtf/hashtable (the object tracker of test_state.c and *)
(* the function tracker) expect of it: a map from keys to values.  reply   *)
(* is the last operation, its key and what it returned.                    *)
(***************************************************************************)
CONSTANTS Keys, Values, ResetValue, NULL

VARIABLES map, reply

Init == map = [k \in Keys |-> NULL] /\ reply = NULL

(* objs_insert: only a key that is not in the table is inserted.           *)
insert(k, v) ==
  /\ map[k] = NULL
  /\ map' = [map EXCEPT ![k] = v]
  /\ reply' = <<"insert", k, v>>

(* objs_search *)
search(k) == reply' = <<"search", k, map[k]>> /\ UNCHANGED map

(* objs_remove *)
remove(k) ==
  /\ map' = [map EXCEPT ![k] = NULL]
  /\ reply' = <<"remove", k, map[k]>>

(* An insertion for which there is no memory.                              *)
refuse(k) == reply' = <<"insert", k, NULL>> /\ UNCHANGED map

(* hashtable_enumerate with hash_reset_objs_state.                         *)
reset ==
  /\ map' = [k \in Keys |-> IF map[k] = NULL THEN NULL ELSE ResetValue[map[k]]]
  /\ UNCHANGED reply

Next ==
  \/ \E k \in Keys, v \in Values : insert(k, v)
  \/ \E k \in Keys : search(k) \/ remove(k) \/ refuse(k)
  \/ reset

Spec == Init /\ [][Next]_<<map, reply>>
=============================================================================
