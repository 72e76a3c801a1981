----------------------------- MODULE MCHashTable -----------------------------
(* Four keys, two of which share a bucket in every array the table grows to. *)
EXTENDS HashTable, TLC

CONSTANTS K1, K2, K3, K4

MCKeys == {K1, K2, K3, K4}
MCHash == (K1 :> 1) @@ (K2 :> 9) @@ (K3 :> 3) @@ (K4 :> 6)
=============================================================================
