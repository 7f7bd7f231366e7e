--------------------------- MODULE MCContactBook ---------------------------
(* Instances of ContactBook: two org rows and a private one of luis, who     *)
(* files the confided meeting f1 and runs the merge m1; a colleague files    *)
(* the meeting f2 and runs m2; f3 is a lead of the colleague's.              *)
EXTENDS ContactBook, TLC

CONSTANTS c1, c2, c3, f1, f2, f3, m1, m2
RowSymmetry == Permutations(Contacts \ Private)
=============================================================================
