---------------------------- MODULE MCHashTable ----------------------------
(* HashTable on four keys that collide, wrap around the end of the array,   *)
(* and part when the capacity doubles from 4 to 8.                          *)
EXTENDS HashTable

CONSTANTS k1, k2, k3, k4

MCKeys == {k1, k2, k3, k4}
MCHash == [k \in MCKeys |-> CASE k = k1 -> 3 [] k = k2 -> 7 [] k = k3 -> 11 [] k = k4 -> 0]
=============================================================================
