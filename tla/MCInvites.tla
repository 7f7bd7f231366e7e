----------------------------- MODULE MCInvites -----------------------------
(* Instances of Invites: two approvals, two racing confirmations.           *)
EXTENDS Invites, TLC

CONSTANTS d1, k1, e1, e2, l1, l2, a1, a2, c1, c2

MCRequests == {{d1, k1}, {d1, Invented}}

InviteSymmetry ==
  Permutations(Events) \cup Permutations(Lists) \cup Permutations(Approvals)
    \cup Permutations(Confirmers)
=============================================================================
