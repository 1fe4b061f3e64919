---------------------------- MODULE MCRecruitment ----------------------------
(* Three posts and one job, with two candidates who have passed their *)
(* interviews or have not applied yet.                                *)
EXTENDS Recruitment, TLC

CONSTANTS p1, p2, p3, x, y, j1, a1, a2

MCCandidateOf == a1 :> x @@ a2 :> y
MCJobOf == a1 :> j1 @@ a2 :> j1
MCStarts == {[ready |-> {a1, a2}, left |-> 3], [ready |-> {}, left |-> 1]}

\* The posts are alike, and so are the two candidates with their applications.
Alike == {f @@ g : f \in Permutations(Posts),
                   g \in {a \in Permutations(People \union Applications) :
                            \A b \in Applications : /\ a[b] \in Applications
                                                    /\ a[CandidateOf[b]] = CandidateOf[a[b]]}}
===============================================================================
