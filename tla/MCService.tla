----------------------------- MODULE MCService -----------------------------
(* Instances of Service: t1 and t2 carry voice notes, t3 is text only; the   *)
(* app ships two files, the old release it replaces one.                   *)
EXTENDS Service

CONSTANTS t1, t2, t3, app, old
MCNotes == [t \in Turns |-> IF t = t3 THEN 0 ELSE 1]
MCShips == [s \in Starters |-> IF s = app THEN 2 ELSE 1]
=============================================================================
