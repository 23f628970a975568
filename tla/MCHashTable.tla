----------------------------- MODULE MCHashTable -----------------------------
(***************************************************************************)
(* HashTable for TLC.  Keys are their own hash values: 0, 2 and 6 share a  *)
(* chain at size 2, 0 and 6 still do at size 3, 2 and 7 at size 5.         *)
(***************************************************************************)
EXTENDS HashTable

MCHash == [k \in Keys |-> k]
MCPrimes == <<2, 3, 5>>

(* All that hash_reset_objs_state tells apart.                             *)
MCValues == {"new", "old"}
MCResetValue == [v \in Values |-> "old"]
=============================================================================
