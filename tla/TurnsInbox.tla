----------------------------- MODULE TurnsInbox -----------------------------
(***************************************************************************)
(* The turn queue implements Inbox: what waits is the bursts of the turns  *)
(* waiting for the lock, oldest first, then the burst still debouncing.    *)
(***************************************************************************)
EXTENDS Turns

WaitingTurns(u) == {t \in Turns : pc[t] = "waiting" /\ owner[t] = u}
RunningTurns(u) == {t \in Turns : pc[t] \in Running /\ owner[t] = u}

\* The members of W in order: there are Rank(W, t) of them up to t.
Rank(W, t) == Cardinality({s \in W : s <= t})
Ranked(W, i) == {t \in W : Rank(W, t) = i}
Nth(W, i) == CHOOSE t \in Turns : t \in Ranked(W, i)

\* The bursts of the turns in W, in order; one that gathers, if there is any.
Line(W, bursts) == [i \in 1..Cardinality(W) |-> bursts[Nth(W, i)]]
Gathering(u) == IF pending[u] = <<>> THEN <<>> ELSE <<pending[u]>>

waitingBar == [u \in Users |-> Line(WaitingTurns(u), batch) \o Gathering(u)]
servingBar == [u \in Users |-> IF RunningTurns(u) = {} THEN <<>>
                               ELSE batch[CHOOSE t \in RunningTurns(u) : TRUE]]

Abstract == INSTANCE Inbox WITH waiting <- waitingBar, serving <- servingBar

\* Submission order is kept, bursts are served whole and one at a time, and
\* nothing is dropped or invented between submit and the handler.
ImplementsInbox == Abstract!Spec
=============================================================================
