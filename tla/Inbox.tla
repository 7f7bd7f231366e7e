------------------------------- MODULE Inbox -------------------------------
(***************************************************************************)
(* What the turn queue promises each user, without timers, tasks or locks: *)
(* messages gather in bursts, bursts are served whole, in the order they   *)
(* were submitted and one at a time; a restart forgets the queue.  When a  *)
(* burst closes is left open.                                              *)
(***************************************************************************)
EXTENDS Naturals, Sequences

CONSTANTS Users, Messages

VARIABLES
  waiting,  \* [Users -> Seq(Seq(Messages))]: the bursts not yet served
  serving   \* [Users -> Seq(Messages)]: the burst being served, or <<>>

Init ==
  /\ waiting = [u \in Users |-> <<>>]
  /\ serving = [u \in Users |-> <<>>]

\* m joins the newest burst or begins one.
Enqueue(u, m) ==
  /\ \/ waiting' = [waiting EXCEPT ![u] = Append(@, <<m>>)]
     \/ /\ waiting[u] # <<>>
        /\ waiting' = [waiting EXCEPT ![u][Len(waiting[u])] = Append(@, m)]
  /\ UNCHANGED serving

Serve(u) ==
  /\ serving[u] = <<>> /\ waiting[u] # <<>>
  /\ serving' = [serving EXCEPT ![u] = Head(waiting[u])]
  /\ waiting' = [waiting EXCEPT ![u] = Tail(@)]

Finish(u) ==
  /\ serving[u] # <<>>
  /\ serving' = [serving EXCEPT ![u] = <<>>]
  /\ UNCHANGED waiting

Restart == waiting' = [u \in Users |-> <<>>] /\ serving' = [u \in Users |-> <<>>]

Next ==
  \/ \E u \in Users : Serve(u) \/ Finish(u) \/ \E m \in Messages : Enqueue(u, m)
  \/ Restart

vars == <<waiting, serving>>
Spec == Init /\ [][Next]_vars
=============================================================================
