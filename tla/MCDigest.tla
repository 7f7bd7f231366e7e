------------------------------ MODULE MCDigest ------------------------------
(* Instances of Digest: three ticks a day (night, morning, afternoon).      *)
EXTENDS Digest, TLC

CONSTANTS ana, sofia, luis, eva, i1, i2, i3

MCRank == [u \in Users |-> CASE u = luis -> 1 [] u = ana -> 2 [] u = eva -> 3 [] OTHER -> 4]
MCOwner == [i \in Items |-> CASE i = i3 -> sofia [] i = i2 -> eva [] OTHER -> ana]
MCOffset == [u \in Users |-> IF u = sofia THEN 1 ELSE 0]
MCCreatedAt == [u \in Users |-> IF u = sofia THEN 1 ELSE 0]
=============================================================================
