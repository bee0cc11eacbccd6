---------------------------- MODULE MCHashTable ----------------------------
(* Five values under three keys.  k1 and k3 have one hash, and k2 shares its
   bucket with them as long as there are no more than four. *)
EXTENDS HashTable, TLC

CONSTANTS k1, k2, k3, v1, v2, v3, v4, v5

MCKeyOf == v1 :> k1 @@ v2 :> k1 @@ v3 :> k2 @@ v4 :> k3 @@ v5 :> k2
MCHash == k1 :> 1 @@ k2 :> 5 @@ k3 :> 1
=============================================================================
