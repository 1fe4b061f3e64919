----------------------------- MODULE MCEnquiries -----------------------------
(* Finite instances of Enquiries.                                         *)
EXTENDS Enquiries, TLC

\* Lines differ in nothing but their names.
Alike == Permutations(Lines)

\* An enquiry from its first line, and one whose lines are costed.
MCStarts == {[ready |-> {}, left |-> 2], [ready |-> Lines, left |-> 3]}
=============================================================================
