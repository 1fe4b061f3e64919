--------------------------- MODULE MCRefreshQueue ---------------------------
(* Finite instances of RefreshQueue: one organization, and the refresh     *)
(* that m1 requests is forced.                                            *)
EXTENDS RefreshQueue

CONSTANTS m1, o1

OneOrg == [m \in Mutations |-> o1]
JustM1 == {m1}
=============================================================================
