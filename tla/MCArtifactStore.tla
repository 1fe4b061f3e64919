--------------------------- MODULE MCArtifactStore ---------------------------
(***************************************************************************)
(* Four artifacts of two targets: pi and pi2 replace each other on the    *)
(* first target, and pi2 is stored as one set with sheet; other holds the *)
(* same bytes as pi for the second target, sheet the same bytes as pi2.   *)
(***************************************************************************)
EXTENDS ArtifactStore, TLC

MCArtifacts == {"pi", "pi2", "sheet", "other"}

MCRequests == {<<"pi">>, <<"pi2", "sheet">>, <<"other">>}

MCTarget == [a \in MCArtifacts |-> IF a = "other" THEN "T2" ELSE "T1"]

MCPurpose == [a \in MCArtifacts |-> IF a = "sheet" THEN "xlsx" ELSE "pdf"]

MCContent == [a \in MCArtifacts |-> IF a \in {"pi", "other"} THEN "X" ELSE "Y"]

MCReplaced == [a \in MCArtifacts |-> {MCPurpose[a]}]

ClientSymmetry == Permutations(Clients)
==============================================================================
