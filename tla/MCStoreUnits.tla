----------------------------- MODULE MCStoreUnits -----------------------------
(***************************************************************************)
(* Instance of StoreUnits: one to three units in stock, two timetables of  *)
(* the first, and the more units the fewer things opened.                  *)
(***************************************************************************)
EXTENDS StoreUnits, TLC

CONSTANTS u1, u2, u3, c1, c2, r1, r2

MCUnitOf == c1 :> u1 @@ c2 :> u1

MCStarts == {[stock |-> {u1}, left |-> 5],
             [stock |-> {u1, u2}, left |-> 3],
             [stock |-> {u1, u2, u3}, left |-> 2]}

Swaps == Permutations({u2, u3}) \union Permutations({r1, r2})
           \union Permutations({c1, c2})
===============================================================================
