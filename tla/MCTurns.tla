------------------------------ MODULE MCTurns ------------------------------
(* Instances of Turns: ana sends a photo m1 and a voice note m2; p12 is an    *)
(* album that carries both.                                                  *)
EXTENDS TurnsInbox

CONSTANTS ana, m1, m2, p1, p2, p12

MCFrom == [m \in Messages |-> ana]
MCKind == [m \in Messages |-> IF m = m1 THEN "image" ELSE "audio"]
MCCarries == [p \in Payloads |-> CASE p = p1 -> <<m1>> [] p = p2 -> <<m2>>
                                   [] p = p12 -> <<m1, m2>>]
=============================================================================
