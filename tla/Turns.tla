------------------------------- MODULE Turns -------------------------------
(***************************************************************************)
(* The inbound path of the assistant, from Meta's webhook call to the      *)
(* reply: the webhook handler (main.inbound with butler.receive), the      *)
(* per-user turn queue (core/turns.TurnQueue) and one agent turn           *)
(* (butler.handle_turn with _build_blocks and _apologize).                 *)
(*                                                                         *)
(* Three kinds of process interleave at the awaits of one event loop: the  *)
(* webhook requests, the debounce timers and the turn tasks.  The database *)
(* (row, assistant, active) survives a crash; pending, timers, locks,      *)
(* tasks and requests do not.                                              *)
(*                                                                         *)
(* Abstractions: a message is an opaque id; a reply is named by the turn   *)
(* that sent it; a history is the set of what it holds, and which rows of  *)
(* a longer thread recent's LIMIT leaves out is left open (the order by    *)
(* created_at, the start of a transaction); typing indicators leave no     *)
(* state.                                                                  *)
(***************************************************************************)
EXTENDS Integers, Sequences, FiniteSets, Functions

CONSTANTS
  Users,          \* the users of the roster
  Messages,       \* wa_msg_id of every message the users ever send
  From,           \* [Messages -> Users]
  Kind,           \* [Messages -> MessageKinds]
  Payloads,       \* webhook bodies Meta may deliver
  Carries,        \* [Payloads -> Seq(Messages)]: what parse_messages yields
  Leavers,        \* users whom an admin may deactivate
  Requests,       \* slots for webhook requests served at the same time
  HistoryLimit,   \* rows that messages.recent reads
  SerialDelivery, \* TRUE: Meta redelivers only after the previous attempt ended
  MaxDeliveries,  \* bound: attempts at delivering one payload
  MaxTurns,       \* bound: turns ever started
  MaxCrashes      \* bound: restarts of the app container

MessageKinds == {"text", "image", "audio"}

ASSUME TurnsAssumption ==
  /\ Users # {}
  /\ From \in [Messages -> Users]
  /\ Kind \in [Messages -> MessageKinds]
  /\ Carries \in [Payloads -> Seq(Messages)]
  /\ Leavers \subseteq Users
  /\ HistoryLimit \in Nat \ {0}
  /\ SerialDelivery \in BOOLEAN
  /\ MaxDeliveries \in Nat
  /\ MaxTurns \in Nat
  /\ MaxCrashes \in Nat

VARIABLES
  row,        \* [Messages -> RowStates]: the inbound row, keyed by wa_msg_id
  assistant,  \* set of Items: the assistant rows of the messages table
  active,     \* [Users -> BOOLEAN]: users.active
  delivered,  \* set of Items that reached a user's phone
  attempts,   \* [Payloads -> Nat]: deliveries Meta has made
  rpc,        \* [Requests -> RequestStates]: where a request is
  todo,       \* [Requests -> Seq(Messages)]: what its loop has left
  pending,    \* [Users -> Seq(Messages)]: TurnQueue._pending
  timer,      \* [Users -> BOOLEAN]: a live entry in TurnQueue._timers
  locked,     \* [Users -> BOOLEAN]: TurnQueue._locks
  started,    \* number of turn tasks created so far
  pc,         \* [Turns -> TurnStates]: where the turn task is
  owner,      \* [Turns -> Users]: the User captured by the timer
  batch,      \* [Turns -> Seq(Messages)]: the burst it runs
  noted,      \* [Turns -> SUBSET Messages]: blocks replaced by a failure note
  heard,      \* [Turns -> SUBSET Messages]: user rows of the history it read
  recalled,   \* [Turns -> SUBSET Items]: assistant rows of that history
  outcome,    \* [Turns -> Outcomes]: how the turn ended
  crashes     \* restarts so far

database == <<row, assistant, active>>
webhook  == <<attempts, rpc, todo>>
queue    == <<pending, timer, locked, started>>
tasks    == <<pc, owner, batch, noted, heard, recalled, outcome>>
vars     == <<database, delivered, webhook, queue, tasks, crashes>>

Turns == 1..MaxTurns
Items == Turns \X {"reply", "apology", "part"}   \* part: a reply cut short
RowStates     == {"absent", "received", "transcribed", "failed"}
RequestStates == {"idle", "check", "log", "submit"}
TurnStates    == {"unborn", "waiting", "build", "read", "agent", "send", "log",
                  "sorry", "logsorry", "ended"}
Outcomes      == {"none", "logged", "unlogged", "silent", "killed"}

Logged  == {m \in Messages : row[m] # "absent"}
Running == TurnStates \ {"unborn", "waiting", "ended"}   \* inside `async with lock`
Live(t) == pc[t] \notin {"unborn", "ended"}

TypeOK ==
  /\ row \in [Messages -> RowStates]
  /\ assistant \subseteq Items
  /\ active \in [Users -> BOOLEAN]
  /\ delivered \subseteq Items
  /\ attempts \in [Payloads -> Nat]
  /\ rpc \in [Requests -> RequestStates]
  /\ todo \in [Requests -> Seq(Messages)]
  /\ pending \in [Users -> Seq(Messages)]
  /\ timer \in [Users -> BOOLEAN]
  /\ locked \in [Users -> BOOLEAN]
  /\ started \in 0..MaxTurns
  /\ pc \in [Turns -> TurnStates]
  /\ owner \in [Turns -> Users]
  /\ batch \in [Turns -> Seq(Messages)]
  /\ noted \in [Turns -> SUBSET Messages]
  /\ heard \in [Turns -> SUBSET Messages]
  /\ recalled \in [Turns -> SUBSET Items]
  /\ outcome \in [Turns -> Outcomes]
  /\ crashes \in Nat

Init ==
  /\ row = [m \in Messages |-> "absent"]
  /\ assistant = {}
  /\ active = [u \in Users |-> TRUE]
  /\ delivered = {}
  /\ attempts = [p \in Payloads |-> 0]
  /\ rpc = [r \in Requests |-> "idle"]
  /\ todo = [r \in Requests |-> <<>>]
  /\ pending = [u \in Users |-> <<>>]
  /\ timer = [u \in Users |-> FALSE]
  /\ locked = [u \in Users |-> FALSE]
  /\ started = 0
  /\ pc = [t \in Turns |-> "unborn"]
  /\ owner = [t \in Turns |-> CHOOSE u \in Users : TRUE]
  /\ batch = [t \in Turns |-> <<>>]
  /\ noted = [t \in Turns |-> {}]
  /\ heard = [t \in Turns |-> {}]
  /\ recalled = [t \in Turns |-> {}]
  /\ outcome = [t \in Turns |-> "none"]
  /\ crashes = 0

-----------------------------------------------------------------------------
(* The webhook.  A request walks its messages; each gets one transaction.   *)

\* Meta (external) posts a payload: first delivery, retry or duplicate.
Deliver(r, p) ==
  /\ rpc[r] = "idle"
  /\ attempts[p] < MaxDeliveries
  /\ Carries[p] # <<>>
  /\ SerialDelivery =>
       \A s \in Requests : Range(todo[s]) \cap Range(Carries[p]) = {}
  /\ attempts' = [attempts EXCEPT ![p] = @ + 1]
  /\ rpc' = [rpc EXCEPT ![r] = "check"]
  /\ todo' = [todo EXCEPT ![r] = Carries[p]]
  /\ UNCHANGED <<database, delivered, queue, tasks, crashes>>

\* The loop moves to its next message, or the request answers 200.
Advance(r) ==
  /\ todo' = [todo EXCEPT ![r] = Tail(@)]
  /\ rpc' = [rpc EXCEPT ![r] = IF Tail(todo[r]) = <<>> THEN "idle" ELSE "check"]

\* Mutant of Check: no look at wa_msg_id.
CheckSenderOnly(r) ==
  /\ rpc[r] = "check"
  /\ \/ ~active[From[Head(todo[r])]] /\ Advance(r)
     \/ active[From[Head(todo[r])]] /\ rpc' = [rpc EXCEPT ![r] = "log"] /\ UNCHANGED todo
  /\ UNCHANGED <<database, delivered, attempts, queue, tasks, crashes>>

\* get_by_wa_id and `seen`: an unknown or inactive sender and an id already
\* logged are skipped; otherwise the transaction goes on to write.
Check(r) ==
  LET m == Head(todo[r])
      skip == ~active[From[m]] \/ m \in Logged IN
  /\ rpc[r] = "check"
  /\ \/ skip /\ Advance(r)
     \/ ~skip /\ rpc' = [rpc EXCEPT ![r] = "log"] /\ UNCHANGED todo
  /\ UNCHANGED <<database, delivered, attempts, queue, tasks, crashes>>

\* touch_inbound and messages.log commit.  The insert is ON CONFLICT DO
\* NOTHING, and receive returns True whether or not it inserted.
LogInbound(r) ==
  LET m == Head(todo[r]) IN
  /\ rpc[r] = "log"
  /\ row' = [row EXCEPT ![m] = IF @ = "absent" THEN "received" ELSE @]
  /\ rpc' = [rpc EXCEPT ![r] = "submit"]
  /\ UNCHANGED <<assistant, active, delivered, attempts, todo, queue, tasks, crashes>>

\* Mutant of Submit: no timer while a turn of the user runs.
SubmitUntimed(r) ==
  LET m == Head(todo[r]) IN
  /\ rpc[r] = "submit"
  /\ pending' = [pending EXCEPT ![From[m]] = Append(@, m)]
  /\ timer' = [timer EXCEPT ![From[m]] = @ \/ ~locked[From[m]]]
  /\ Advance(r)
  /\ UNCHANGED <<database, delivered, attempts, locked, started, tasks, crashes>>

\* TurnQueue.submit runs without an await: the message joins the burst and
\* the debounce timer is replaced by a fresh one.
Submit(r) ==
  LET m == Head(todo[r])
      u == From[m] IN
  /\ rpc[r] = "submit"
  /\ pending' = [pending EXCEPT ![u] = Append(@, m)]
  /\ timer' = [timer EXCEPT ![u] = TRUE]
  /\ Advance(r)
  /\ UNCHANGED <<database, delivered, attempts, locked, started, tasks, crashes>>

\* A database error before the commit: rollback, a 500, and Meta will retry.
RequestFails(r) ==
  /\ rpc[r] \in {"check", "log"}
  /\ rpc' = [rpc EXCEPT ![r] = "idle"]
  /\ todo' = [todo EXCEPT ![r] = <<>>]
  /\ UNCHANGED <<database, delivered, attempts, queue, tasks, crashes>>

\* `admin deactivate`, in a process of its own.
Deactivate(u) ==
  /\ u \in Leavers /\ active[u]
  /\ active' = [active EXCEPT ![u] = FALSE]
  /\ UNCHANGED <<row, assistant, delivered, webhook, queue, tasks, crashes>>

-----------------------------------------------------------------------------
(* The turn queue.                                                          *)

\* Mutant of Fire: the turn gets the newest message, not the burst.
FireNewestOnly(u) ==
  /\ timer[u] /\ started < MaxTurns
  /\ timer' = [timer EXCEPT ![u] = FALSE]
  /\ pending' = [pending EXCEPT ![u] = <<>>]
  /\ started' = started + 1
  /\ pc' = [pc EXCEPT ![started + 1] = "waiting"]
  /\ owner' = [owner EXCEPT ![started + 1] = u]
  /\ batch' = [batch EXCEPT ![started + 1] = <<pending[u][Len(pending[u])]>>]
  /\ UNCHANGED <<database, delivered, webhook, locked, noted, heard, recalled,
                 outcome, crashes>>

\* The sleep of the newest timer ends: the burst becomes a turn task, whose
\* first step joins the FIFO of the user's asyncio.Lock.  A cancelled timer
\* returns at its sleep, so only the newest one reaches this point.
Fire(u) ==
  LET t == started + 1 IN
  /\ timer[u]
  /\ timer' = [timer EXCEPT ![u] = FALSE]
  /\ pending' = [pending EXCEPT ![u] = <<>>]
  /\ \/ /\ pending[u] = <<>>
        /\ UNCHANGED <<started, tasks>>
     \/ /\ pending[u] # <<>>
        /\ started < MaxTurns
        /\ started' = t
        /\ pc' = [pc EXCEPT ![t] = "waiting"]
        /\ owner' = [owner EXCEPT ![t] = u]
        /\ batch' = [batch EXCEPT ![t] = pending[u]]
        /\ UNCHANGED <<noted, heard, recalled, outcome>>
  /\ UNCHANGED <<database, delivered, webhook, locked, crashes>>

\* Mutants of Acquire: no lock, and a lock without a queue.
AcquireUnlocked(t) ==
  /\ pc[t] = "waiting"
  /\ locked' = [locked EXCEPT ![owner[t]] = TRUE]
  /\ pc' = [pc EXCEPT ![t] = "build"]
  /\ UNCHANGED <<database, delivered, webhook, pending, timer, started, owner,
                 batch, noted, heard, recalled, outcome, crashes>>

AcquireUnordered(t) == ~locked[owner[t]] /\ AcquireUnlocked(t)

\* The lock is free and every earlier waiter has had it.  mark_read follows;
\* its outcome is ignored.
Acquire(t) ==
  /\ pc[t] = "waiting"
  /\ ~locked[owner[t]]
  /\ \A s \in Turns : pc[s] = "waiting" /\ owner[s] = owner[t] => t <= s
  /\ locked' = [locked EXCEPT ![owner[t]] = TRUE]
  /\ pc' = [pc EXCEPT ![t] = "build"]
  /\ UNCHANGED <<database, delivered, webhook, pending, timer, started, owner,
                 batch, noted, heard, recalled, outcome, crashes>>

\* Mutant of End: the lock is not released.
EndLocked(t, how) ==
  /\ pc' = [pc EXCEPT ![t] = "ended"]
  /\ outcome' = [outcome EXCEPT ![t] = how]
  /\ UNCHANGED <<pending, timer, locked, started, owner, batch, noted, heard, recalled>>

\* handle_turn returns: `async with` releases the lock, the locals are gone.
End(t, how) ==
  /\ pc' = [pc EXCEPT ![t] = "ended"]
  /\ outcome' = [outcome EXCEPT ![t] = how]
  /\ locked' = [locked EXCEPT ![owner[t]] = FALSE]
  /\ UNCHANGED <<pending, timer, started, owner, batch, noted, heard, recalled>>

Goto(t, where) ==
  /\ pc' = [pc EXCEPT ![t] = where]
  /\ UNCHANGED <<queue, owner, batch, outcome>>

-----------------------------------------------------------------------------
(* handle_turn.                                                             *)

Media(t) == {m \in Range(batch[t]) : Kind[m] # "text"}

\* Mutant of BuildBlocks: no set_content for what failed.
BuildBlocksUnamended(t) ==
  /\ pc[t] = "build"
  /\ \E bad \in SUBSET Media(t) : noted' = [noted EXCEPT ![t] = bad]
  /\ Goto(t, "read")
  /\ UNCHANGED <<database, delivered, webhook, heard, recalled, crashes>>

\* _build_blocks, one transaction: each photo or voice note is fetched or
\* becomes a note, in the blocks and in its inbound row alike; a voice note
\* that was transcribed gets its transcript.
BuildBlocks(t) ==
  /\ pc[t] = "build"
  /\ \E bad \in SUBSET Media(t) :
       /\ noted' = [noted EXCEPT ![t] = bad]
       /\ row' = [m \in Messages |->
                   IF m \in bad THEN "failed"
                   ELSE IF m \in Media(t) /\ Kind[m] = "audio" THEN "transcribed"
                   ELSE row[m]]
  /\ Goto(t, "read")
  /\ UNCHANGED <<assistant, active, delivered, webhook, heard, recalled, crashes>>

\* Any exception up to the reply: what this transaction wrote rolls back and
\* the turn apologises.
Break(t) ==
  /\ pc[t] \in {"build", "read", "agent"}
  /\ Goto(t, "sorry")
  /\ UNCHANGED <<database, delivered, webhook, noted, heard, recalled, crashes>>

\* messages.recent: this user's thread without the burst's own rows, or as many
\* rows of it as the limit lets through.
ReadHistory(t) ==
  LET said == {m \in Logged : From[m] = owner[t]} \ Range(batch[t])
      told == {i \in assistant : owner[i[1]] = owner[t]} IN
  /\ pc[t] = "read"
  /\ \E h \in SUBSET said, r \in SUBSET told :
       /\ IF Cardinality(said) + Cardinality(told) <= HistoryLimit
          THEN h = said /\ r = told
          ELSE Cardinality(h) + Cardinality(r) = HistoryLimit
       /\ heard' = [heard EXCEPT ![t] = h]
       /\ recalled' = [recalled EXCEPT ![t] = r]
  /\ Goto(t, "agent")
  /\ UNCHANGED <<database, delivered, webhook, noted, crashes>>

\* run_agent returns a non-empty text; what its tools wrote is committed.
RunAgent(t) ==
  /\ pc[t] = "agent"
  /\ Goto(t, "send")
  /\ UNCHANGED <<database, delivered, webhook, noted, heard, recalled, crashes>>

\* What arrived when send_text stops early: nothing, or the first chunks of a
\* reply longer than MAX_BODY.
CutShort(t) == {delivered, delivered \cup {<<t, "part">>}}

\* Mutant of SendReply: send_text goes on after a chunk that was rejected.
SendReplyUnchecked(t) ==
  /\ pc[t] = "send"
  /\ delivered' \in CutShort(t) \cup {delivered \cup {<<t, "reply">>}}
  /\ Goto(t, "log")
  /\ UNCHANGED <<database, webhook, noted, heard, recalled, crashes>>

\* send_text: every chunk is accepted; or one raises, the last one too after it
\* has reached Meta; or one is rejected and the others are not tried.
SendReply(t) ==
  /\ pc[t] = "send"
  /\ \/ delivered' = delivered \cup {<<t, "reply">>} /\ Goto(t, "log")
     \/ delivered' = delivered \cup {<<t, "reply">>} /\ Goto(t, "sorry")
     \/ delivered' \in CutShort(t) /\ Goto(t, "sorry")
     \/ delivered' \in CutShort(t) /\ End(t, "silent")
  /\ UNCHANGED <<database, webhook, noted, heard, recalled, crashes>>

\* Mutant of LogReply: the row lacks its role.
LogReplyBare(t) ==
  /\ pc[t] = "log"
  /\ assistant' = assistant \cup {<<t, "">>} /\ End(t, "logged")
  /\ UNCHANGED <<row, active, delivered, webhook, crashes>>

\* The assistant row is written only now; a failure here is swallowed.
LogReply(t) ==
  /\ pc[t] = "log"
  /\ \/ assistant' = assistant \cup {<<t, "reply">>} /\ End(t, "logged")
     \/ UNCHANGED assistant /\ End(t, "unlogged")
  /\ UNCHANGED <<row, active, delivered, webhook, crashes>>

\* _apologize: its own send has the same outcomes, and none is retried.
SendApology(t) ==
  /\ pc[t] = "sorry"
  /\ \/ delivered' = delivered \cup {<<t, "apology">>} /\ Goto(t, "logsorry")
     \/ delivered' = delivered \cup {<<t, "apology">>} /\ End(t, "unlogged")
     \/ UNCHANGED delivered /\ End(t, "silent")
  /\ UNCHANGED <<database, webhook, noted, heard, recalled, crashes>>

LogApology(t) ==
  /\ pc[t] = "logsorry"
  /\ \/ assistant' = assistant \cup {<<t, "apology">>} /\ End(t, "logged")
     \/ UNCHANGED assistant /\ End(t, "unlogged")
  /\ UNCHANGED <<row, active, delivered, webhook, crashes>>

\* The container restarts: every open transaction rolls back, and requests,
\* bursts, timers, locks and tasks are gone.
Crash ==
  /\ crashes < MaxCrashes
  /\ crashes' = crashes + 1
  /\ rpc' = [r \in Requests |-> "idle"]
  /\ todo' = [r \in Requests |-> <<>>]
  /\ pending' = [u \in Users |-> <<>>]
  /\ timer' = [u \in Users |-> FALSE]
  /\ locked' = [u \in Users |-> FALSE]
  /\ pc' = [t \in Turns |-> IF Live(t) THEN "ended" ELSE pc[t]]
  /\ outcome' = [t \in Turns |-> IF Live(t) THEN "killed" ELSE outcome[t]]
  /\ UNCHANGED <<database, delivered, attempts, started, owner, batch, noted,
                 heard, recalled>>

RequestStep(r) == Check(r) \/ LogInbound(r) \/ Submit(r)
HandleTurn(t) == \/ BuildBlocks(t) \/ ReadHistory(t) \/ RunAgent(t) \/ Break(t)
                 \/ SendReply(t) \/ LogReply(t) \/ SendApology(t) \/ LogApology(t)

Next ==
  \/ \E r \in Requests : \E p \in Payloads : Deliver(r, p)
  \/ \E r \in Requests : RequestStep(r) \/ RequestFails(r)
  \/ \E u \in Users : Deactivate(u) \/ Fire(u)
  \/ \E t \in Turns : Acquire(t) \/ HandleTurn(t)
  \/ Crash

Spec == Init /\ [][Next]_vars

\* The event loop runs every ready task, a sleep ends, an HTTP call times out
\* (httpx timeout=20) and a database statement returns or fails.
Fairness ==
  /\ \A r \in Requests : WF_vars(RequestStep(r))
  /\ \A u \in Users : WF_vars(Fire(u))
  /\ \A t \in Turns : WF_vars(Acquire(t)) /\ WF_vars(HandleTurn(t))

FairSpec == Spec /\ Fairness

-----------------------------------------------------------------------------
(* What the inbound path promises.                                          *)

\* Two turns of one user never run at once (TurnQueue._locks): no interleaved
\* tool calls, overlapping replies or racing writes.
MutualExclusion ==
  \A s, t \in Turns :
    pc[s] \in Running /\ pc[t] \in Running /\ owner[s] = owner[t] => s = t

\* A burst is waiting exactly while a timer will fire for it: no message is
\* stranded in _pending and no timer outlives its burst.
BurstHasTimer == \A u \in Users : pending[u] # <<>> <=> timer[u]

\* The places where a message is queued, running or done, from the commit of
\* its row on.
Claims(m) ==
  {<<"request", r>> : r \in {q \in Requests : rpc[q] = "submit" /\ Head(todo[q]) = m}}
  \cup {<<"pending", i>> : i \in {j \in DOMAIN pending[From[m]] : pending[From[m]][j] = m}}
  \cup UNION {{<<"turn", t, i>> : i \in {j \in DOMAIN batch[t] : batch[t][j] = m}} :
              t \in Turns}

\* receive's dedup: however often Meta delivers a message, across crashes too,
\* it is queued at most once and runs in at most one turn.
AtMostOnce == \A m \in Messages : \A a, b \in Claims(m) : a = b

\* Only what reached the user, to its last chunk, is recorded as said to her, be
\* it a reply or an apology (butler.py: "a logged-but-undelivered apology would
\* tell her history something she was never told").
LoggedWasDelivered == assistant \subseteq delivered

\* messages.recent filled up: what it left out, the turn does not know.
Full(t) == Cardinality(heard[t]) + Cardinality(recalled[t]) = HistoryLimit

\* When a turn has read its history every earlier turn of the thread is over;
\* and unless the history is full it holds the whole past: their messages are
\* heard, and the reply or apology that each managed to log is recalled (design
\* 5.1: "the second message sees the first one's reply in history").
SeesThePast ==
  \A s, t \in Turns :
    /\ s < t /\ owner[s] = owner[t] /\ pc[s] # "unborn"
    /\ pc[t] \in {"agent", "send", "log"}
    => /\ pc[s] = "ended"
       /\ ~Full(t) => /\ Range(batch[s]) \subseteq heard[t]
                      /\ outcome[s] = "logged" => \E i \in recalled[t] : i[1] = s

\* What the model was told about a photo or voice note is what the thread will
\* say of it later: a failure note in the blocks is one in the row, and no row
\* claims a failure the model did not hear of.
FailureIsVisible ==
  \A t \in Turns : Live(t) =>
    \A m \in Range(batch[t]) : m \in noted[t] <=> row[m] = "failed"

Settled(m) == \E t \in Turns : m \in Range(batch[t]) /\ pc[t] = "ended"

\* What is queued does not wait for ever, for its timer or for the lock: it gets
\* a turn and the turn ends, unless a restart forgets the queue first.
EveryMessageSettles ==
  \A m \in Messages : Claims(m) # {} ~> (Settled(m) \/ Claims(m) = {})
=============================================================================
