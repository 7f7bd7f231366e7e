---------------------------- MODULE Connections ----------------------------
(***************************************************************************)
(* The connection pool of the app process (db/pool.get_pool, max_size 8)   *)
(* under concurrent turns: where handle_turn, _build_blocks, run_agent and *)
(* dispatch take a connection, what they wait for while they hold one, and *)
(* when they give it back.                                                 *)
(*                                                                         *)
(* The pool (psycopg_pool, external) serves waiters first come first       *)
(* served, and a wait that is not served ends with PoolTimeout (30 s).     *)
(* _record_transcription takes a second connection while _build_blocks     *)
(* holds the first, so turns can wait for one another.  A round of the     *)
(* agent loop has one tool call here.                                      *)
(***************************************************************************)
EXTENDS Naturals, Sequences, FiniteSets, SequencesExt

CONSTANTS
  Turns,    \* turns of different users (a user's own are serialised)
  Notes,    \* [Turns -> Nat]: voice notes in the burst
  Rounds,   \* bound: tool-calling rounds of the agent loop
  Size      \* max_size

ASSUME ConnectionsAssumption ==
  /\ IsFiniteSet(Turns)
  /\ Notes \in [Turns -> Nat] /\ Rounds \in Nat /\ Size \in Nat \ {0}

VARIABLES
  pc,     \* [Turns -> Wants \cup Places]
  notes,  \* [Turns -> Nat]: voice notes left
  rounds, \* [Turns -> Nat]: rounds left
  held,   \* [Turns -> Nat]: connections it holds
  queue   \* Seq(Turns): the pool's waiters, oldest first

vars == <<pc, notes, rounds, held, queue>>

\* Where a turn waits for a connection.
Wants == {"build", "metric", "history", "usage", "tool", "log", "sorry"}
Places == {"new", "fetch", "noted", "reading", "model", "counting", "decide",
           "working", "told", "send", "logging", "apology", "ended"}

\* Where it goes when it gets one, and when the wait raises: _build_blocks and
\* the history turn into an apology, a failed tool is told to the model, and
\* everything else swallows its exception.
Got(p) ==
  CASE p = "build" -> "fetch" [] p = "metric" -> "noted" [] p = "history" -> "reading"
    [] p = "usage" -> "counting" [] p = "tool" -> "working"
    [] p \in {"log", "sorry"} -> "logging"
Missed(p) ==
  CASE p \in {"build", "history"} -> "apology" [] p = "metric" -> "fetch"
    [] p = "usage" -> "decide" [] p = "tool" -> "told"
    [] p \in {"log", "sorry"} -> "ended"

\* The connections in use, by the turn that holds them.
Taken == {c \in Turns \X (1..Size) : c[2] <= held[c[1]]}
InUse == Cardinality(Taken)

TypeOK ==
  /\ pc \in [Turns -> Wants \cup Places]
  /\ notes \in [Turns -> Nat] /\ rounds \in [Turns -> Nat]
  /\ held \in [Turns -> 0..2]
  /\ queue \in Seq(Turns)

Init ==
  /\ pc = [t \in Turns |-> "new"]
  /\ notes = Notes
  /\ rounds = [t \in Turns |-> Rounds]
  /\ held = [t \in Turns |-> 0]
  /\ queue = <<>>

-----------------------------------------------------------------------------
(* The pool.                                                                *)

\* A connection is free, and t has waited longest.
Grant(t) ==
  /\ InUse < Size
  /\ queue # <<>> /\ t = Head(queue)
  /\ queue' = Tail(queue)
  /\ pc' = [pc EXCEPT ![t] = Got(@)]
  /\ held' = [held EXCEPT ![t] = @ + 1]
  /\ UNCHANGED <<notes, rounds>>

\* Mutant of Timeout: a turn that holds a connection waits for ever.
TimeoutOuter(t) ==
  /\ held[t] = 0 /\ InUse = Size
  /\ \E i \in DOMAIN queue : queue[i] = t /\ queue' = RemoveAt(queue, i)
  /\ pc' = [pc EXCEPT ![t] = Missed(@)]
  /\ UNCHANGED <<notes, rounds, held>>

\* PoolTimeout: the connections stayed in use.
Timeout(t) ==
  /\ InUse = Size
  /\ \E i \in DOMAIN queue : queue[i] = t /\ queue' = RemoveAt(queue, i)
  /\ pc' = [pc EXCEPT ![t] = Missed(@)]
  /\ UNCHANGED <<notes, rounds, held>>

Goto(t, place) ==
  /\ pc' = [pc EXCEPT ![t] = place]
  /\ queue' = IF place \in Wants THEN Append(queue, t) ELSE queue

-----------------------------------------------------------------------------
(* handle_turn.  A step that leaves a transaction gives its connection back *)
(* and only then waits for another.                                         *)

Release(t, place) ==
  /\ Goto(t, place)
  /\ held' = [held EXCEPT ![t] = @ - 1]

Begin(t) == pc[t] = "new" /\ Goto(t, "build") /\ UNCHANGED <<notes, rounds, held>>

\* _build_blocks, in its transaction: each voice note is downloaded,
\* transcribed or not, and then recorded on a connection of its own.
Transcribe(t) ==
  /\ pc[t] = "fetch" /\ notes[t] > 0
  /\ notes' = [notes EXCEPT ![t] = @ - 1]
  /\ Goto(t, "metric")
  /\ UNCHANGED <<rounds, held>>

Recorded(t) == pc[t] = "noted" /\ Release(t, "fetch") /\ UNCHANGED <<notes, rounds>>

\* Mutant of Built: history is read on a second connection.
BuiltNested(t) ==
  /\ pc[t] = "fetch" /\ notes[t] = 0
  /\ Goto(t, "history")
  /\ UNCHANGED <<notes, rounds, held>>

Built(t) ==
  /\ pc[t] = "fetch" /\ notes[t] = 0
  /\ Release(t, "history")
  /\ UNCHANGED <<notes, rounds>>

\* A statement of the transaction failed.
BuildFails(t) == pc[t] = "fetch" /\ Release(t, "apology") /\ UNCHANGED <<notes, rounds>>

\* messages.recent and build_system_prompt.
Read(t) ==
  /\ pc[t] = "reading"
  /\ Release(t, "model") \/ Release(t, "apology")
  /\ UNCHANGED <<notes, rounds>>

\* run_agent: the model answers or raises; usage.record; a tool or a text.
AskModel(t) ==
  /\ pc[t] = "model"
  /\ Goto(t, "usage") \/ Goto(t, "apology")
  /\ UNCHANGED <<notes, rounds, held>>

Counted(t) == pc[t] = "counting" /\ Release(t, "decide") /\ UNCHANGED <<notes, rounds>>

Decide(t) ==
  /\ pc[t] = "decide"
  /\ \/ Goto(t, "send") /\ UNCHANGED rounds
     \/ /\ rounds[t] > 0
        /\ rounds' = [rounds EXCEPT ![t] = @ - 1]
        /\ Goto(t, "tool")
  /\ UNCHANGED <<notes, held>>

\* A handler, the calendar's Google calls included, is done.
ToolDone(t) == pc[t] = "working" /\ Release(t, "told") /\ UNCHANGED <<notes, rounds>>

\* The model hears of it, unless the cap is reached.
Told(t) ==
  /\ pc[t] = "told"
  /\ Goto(t, IF rounds[t] > 0 THEN "model" ELSE "send")
  /\ UNCHANGED <<notes, rounds, held>>

\* send_text: accepted, rejected or raised.
SendReply(t) ==
  /\ pc[t] = "send"
  /\ Goto(t, "log") \/ Goto(t, "ended") \/ Goto(t, "apology")
  /\ UNCHANGED <<notes, rounds, held>>

\* _apologize.
Apologize(t) ==
  /\ pc[t] = "apology"
  /\ Goto(t, "sorry") \/ Goto(t, "ended")
  /\ UNCHANGED <<notes, rounds, held>>

LogReply(t) == pc[t] = "logging" /\ Release(t, "ended") /\ UNCHANGED <<notes, rounds>>

Work(t) ==
  \/ Begin(t) \/ Transcribe(t) \/ Recorded(t) \/ Built(t) \/ BuildFails(t)
  \/ Read(t) \/ AskModel(t) \/ Counted(t) \/ Decide(t) \/ ToolDone(t) \/ Told(t)
  \/ SendReply(t) \/ Apologize(t) \/ LogReply(t)

Step(t) == Work(t) \/ Grant(t) \/ Timeout(t)

Next == \E t \in Turns : Step(t)
Spec == Init /\ [][Next]_vars

-----------------------------------------------------------------------------
(* What the turns promise one another.                                      *)

Jammed == InUse = Size /\ \A t \in Turns : held[t] > 0 => pc[t] \in Wants

\* Turns can only block one another through voice notes, and it takes as many
\* voice-note bursts at once as there are connections.
OnlyVoiceNotesJam ==
  Jammed => Cardinality({t \in Turns : held[t] > 0 /\ Notes[t] > 0}) = Size

\* Every turn ends and gives everything back, a jam included: a metric that
\* cannot be recorded costs no one the turn.
EveryTurnEnds == <>(\A t \in Turns : pc[t] = "ended" /\ held[t] = 0)
=============================================================================
