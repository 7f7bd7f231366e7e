--------------------------- MODULE MCOAuthConsent ---------------------------
(* An instance of OAuthConsent: ana's work account, a colleague's, and one   *)
(* with ana's address outside the domain.                                   *)
EXTENDS OAuthConsent, TLC

CONSTANTS ana, w1, w2, s1, s2, b1, b2
MCAccounts == {[email |-> w1, hd |-> TRUE], [email |-> w2, hd |-> TRUE], [email |-> w1, hd |-> FALSE]}
ConsentSymmetry == Permutations(States) \cup Permutations(Callbacks)
=============================================================================
