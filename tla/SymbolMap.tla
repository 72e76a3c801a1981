------------------------------ MODULE SymbolMap ------------------------------
(***************************************************************************)
(* What the compiler expects of a symbol table: a finite map from names to *)
(* values.  The first value stored under a name stays until it is removed, *)
(* and a call that cannot allocate leaves the map as it was.               *)
(***************************************************************************)
CONSTANTS Keys, Values, NoValue

VARIABLES
  map,  \* the value stored under each key, or NoValue
  ret   \* what the last call returned

Put(k, v) == /\ v # NoValue /\ map[k] = NoValue
             /\ map' = [map EXCEPT ![k] = v]
             /\ ret' = TRUE
Refuse    == ret' = FALSE /\ UNCHANGED map
Get(k)    == ret' = map[k] /\ UNCHANGED map
Take(k)   == ret' = map[k] /\ map' = [map EXCEPT ![k] = NoValue]

Init == map = [k \in Keys |-> NoValue] /\ ret = NoValue
Next == Refuse \/ \E k \in Keys : Get(k) \/ Take(k) \/ \E v \in Values : Put(k, v)
Spec == Init /\ [][Next]_<<map, ret>>
=============================================================================
