--------------------------- MODULE MCPurchaseOrders ---------------------------
(* Two lines of one order and one of another, all for one part code that     *)
(* two quotes price differently.                                             *)
EXTENDS PurchaseOrders, TLC

CONSTANTS o1, o2, q1, q2, c, i, j

MCOrderOf == 1 :> o1 @@ 2 :> o1 @@ 3 :> o2
MCLineCode == [l \in Lines |-> c]
MCCodeOf == [q \in Quotes |-> c]
MCItemOf == [q \in Quotes |-> i]
MCPriceOf == q1 :> 1 @@ q2 :> 2
MCTreeOf == [q \in Quotes |-> {i, j}]
===============================================================================
