------------------------------- MODULE Digest -------------------------------
(***************************************************************************)
(* The morning digest job (jobs/digest.py): its 15-minute loop, the choice *)
(* of recipients by their local clock, and one transaction per recipient   *)
(* that reads the due items, composes, sends and only then records.        *)
(*                                                                         *)
(* The job runs in a container of its own, beside agent turns that file,   *)
(* snooze, close and reopen the items.  Leads and commitments are alike    *)
(* here: an item is listed from tick due[i] on (a lead's next_action_at; a *)
(* commitment's due_at less the two-day horizon) while it is open.         *)
(*                                                                         *)
(* Time is a global tick.  A local day has TicksPerDay ticks and 08:00 is  *)
(* its tick SendTick; Offset shifts a user's day (timezones; no DST).      *)
(***************************************************************************)
EXTENDS Integers, Sequences, FiniteSets

CONSTANTS
  Users,
  Rank,        \* [Users -> Nat]: list_users' order, by created_at and wa_id
  Items,       \* leads and commitments
  Owner,       \* [Items -> Users]
  Offset,      \* [Users -> Nat]: ticks a user's clock is ahead
  CreatedAt,   \* [Users -> Nat]: the tick an admin added the user
  BadRows,     \* users whose timezone does not parse
  Unreachable, \* users whose send always raises
  DarkCalendars, \* users whose calendar never loads (Google, a bad dateTime)
  BrokenReads, \* users one of whose calendar statements fails in the database
  Leavers,     \* users an admin may deactivate
  Faults,      \* subset of FaultKinds that may happen
  TicksPerDay, SendTick,
  MaxTick,     \* bound: last tick of the clock
  MaxSends,    \* bound: digests that reach one user
  MaxHappenings \* bound: edits of items by agent turns, and faults

FaultKinds == {"restart",     \* the jobs container restarts
               "lostAnswer",  \* a message reaches WhatsApp and its answer is lost
               "commit",      \* the recording transaction fails
               "slow"}        \* the clock moves while a run is in progress

ASSUME DigestAssumption ==
  /\ Rank \in [Users -> Nat] /\ \A u, v \in Users : Rank[u] = Rank[v] => u = v
  /\ Owner \in [Items -> Users]
  /\ Offset \in [Users -> Nat] /\ CreatedAt \in [Users -> Nat]
  /\ BadRows \subseteq Users /\ Unreachable \subseteq Users /\ Leavers \subseteq Users
  /\ DarkCalendars \subseteq Users /\ BrokenReads \subseteq Users
  /\ Faults \subseteq FaultKinds
  /\ TicksPerDay \in Nat \ {0} /\ SendTick \in 0..(TicksPerDay - 1)
  /\ MaxTick \in Nat /\ MaxSends \in Nat /\ MaxHappenings \in Nat

VARIABLES
  now,         \* the tick
  active,      \* [Users -> BOOLEAN]
  lastDigest,  \* [Users -> Days]: users.last_digest_on
  state,       \* [Items -> {"unfiled", "open", "closed"}]
  due,         \* [Items -> Nat]
  nudges,      \* [Items -> Nat]: nudge_count
  told,        \* [Items -> Nat]: digests that named it and arrived
  arrived,     \* [Users -> Seq(Arrival)]: the digests that reached her phone
  thread,      \* [Users -> SUBSET Nat]: those logged in the message thread
  happenings,  \* edits and faults so far
  pc,          \* where the job is
  chosen,      \* the tick at which this run chose its recipients
  left,        \* recipients left in this run, the current one among them
  listed,      \* items read for the current recipient
  today        \* the local date send_digest took

rows  == <<lastDigest, nudges, thread>>
items == <<state, due, happenings>>
ghost == <<told, arrived>>
job   == <<pc, chosen, left, listed, today>>
vars  == <<now, active, rows, items, ghost, job>>

NoDay == -1
Days == Int
\* When it arrived, the date it was written for, and when its run chose her.
Arrival == [at : Nat, day : Days, chosen : Nat]
LocalDay(u, t)  == (t + Offset[u]) \div TicksPerDay
LocalTick(u, t) == (t + Offset[u]) % TicksPerDay
Places == {"asleep", "select", "read", "compose", "doomed", "send", "record"}

TypeOK ==
  /\ now \in 0..MaxTick
  /\ active \in [Users -> BOOLEAN]
  /\ lastDigest \in [Users -> Days]
  /\ state \in [Items -> {"unfiled", "open", "closed"}]
  /\ due \in [Items -> Nat]
  /\ nudges \in [Items -> Nat] /\ told \in [Items -> Nat]
  /\ arrived \in [Users -> Seq(Arrival)]
  /\ thread \in [Users -> SUBSET Nat]
  /\ happenings \in Nat
  /\ pc \in Places /\ chosen \in 0..MaxTick
  /\ left \subseteq Users
  /\ listed \subseteq Items
  /\ today \in Days

Init ==
  /\ now = 0
  /\ active = [u \in Users |-> TRUE]
  /\ lastDigest = [u \in Users |-> NoDay]
  /\ state = [i \in Items |-> "unfiled"]
  /\ due = [i \in Items |-> 0]
  /\ nudges = [i \in Items |-> 0] /\ told = nudges
  /\ arrived = [u \in Users |-> <<>>]
  /\ thread = [u \in Users |-> {}]
  /\ happenings = 0
  /\ pc = "asleep" /\ chosen = 0 /\ left = {} /\ listed = {} /\ today = NoDay

-----------------------------------------------------------------------------
(* The world around the job: the clock, the admin, the agent turns.         *)

Tick ==
  /\ now < MaxTick
  /\ pc = "asleep" \/ "slow" \in Faults
  /\ now' = now + 1
  /\ UNCHANGED <<active, rows, items, ghost, job>>

Deactivate(u) ==
  /\ u \in Leavers /\ active[u]
  /\ active' = [active EXCEPT ![u] = FALSE]
  /\ UNCHANGED <<now, rows, items, ghost, job>>

\* A fault happens; the items stay as they are.
Fault(kind) ==
  /\ kind \in Faults /\ happenings < MaxHappenings
  /\ happenings' = happenings + 1
  /\ UNCHANGED <<state, due>>

Edit(i, newState, newDue) ==
  /\ happenings < MaxHappenings
  /\ happenings' = happenings + 1
  /\ state' = [state EXCEPT ![i] = newState]
  /\ due' = [due EXCEPT ![i] = newDue]
  /\ UNCHANGED <<now, active, rows, ghost, job>>

\* leads.create, meetings.save: a new item, due now.
File(i)   == state[i] = "unfiled" /\ Edit(i, "open", now)
\* leads.update with next_action_at, commitments.update with due_at.
Snooze(i) == state[i] = "open" /\ Edit(i, "open", now + 1)
\* commitments.complete; leads.update with a final status.
Close(i)  == state[i] = "open" /\ Edit(i, "closed", due[i])
\* commitments.update(reopen=True); leads.update back to an open status.
Reopen(i) == state[i] = "closed" /\ Edit(i, "open", due[i])

-----------------------------------------------------------------------------
(* The job.                                                                 *)

\* Mutants of Due: no stamp, no hour.
DueUnstamped(u) ==
  /\ u \notin BadRows /\ CreatedAt[u] <= now /\ active[u]
  /\ LocalTick(u, now) >= SendTick /\ LocalDay(u, CreatedAt[u]) # LocalDay(u, now)
DueAllDay(u) ==
  /\ u \notin BadRows /\ CreatedAt[u] <= now /\ active[u]
  /\ lastDigest[u] # LocalDay(u, now) /\ LocalDay(u, CreatedAt[u]) # LocalDay(u, now)

\* A NULL last_digest_on is no missed morning on the day the row was created.
Due(u) ==
  /\ u \notin BadRows
  /\ CreatedAt[u] <= now /\ active[u]
  /\ LocalTick(u, now) >= SendTick
  /\ lastDigest[u] # LocalDay(u, now)
  /\ lastDigest[u] = NoDay => LocalDay(u, CreatedAt[u]) # LocalDay(u, now)

Wake ==
  /\ pc = "asleep"
  /\ pc' = "select"
  /\ UNCHANGED <<now, active, rows, items, ghost, chosen, left, listed, today>>

\* Mutant of Select: one bad timezone raises out of due_users.
SelectRaises ==
  /\ pc = "select"
  /\ left' = IF BadRows = {} THEN {u \in Users : Due(u)} ELSE {}
  /\ pc' = IF left' = {} THEN "asleep" ELSE "read"
  /\ chosen' = IF left' = {} THEN 0 ELSE now
  /\ UNCHANGED <<now, active, rows, items, ghost, listed, today>>

\* due_users, in a transaction of its own.
Select ==
  /\ pc = "select"
  /\ left' = {u \in Users : Due(u)}
  /\ pc' = IF left' = {} THEN "asleep" ELSE "read"
  /\ chosen' = IF left' = {} THEN 0 ELSE now
  /\ UNCHANGED <<now, active, rows, items, ghost, listed, today>>

\* run_once's loop has come to u, and send_digest to this place.
At(u, place) == /\ pc = place
                /\ u \in left /\ \A v \in left : Rank[u] <= Rank[v]

\* send_digest is over for this recipient, with or without an exception.
NextRecipient(u) ==
  /\ left' = left \ {u}
  /\ pc' = IF left' = {} THEN "asleep" ELSE "read"
  /\ chosen' = IF left' = {} THEN 0 ELSE chosen
  /\ listed' = {} /\ today' = NoDay

DueItems(u) == {i \in Items : Owner[i] = u /\ state[i] = "open" /\ due[i] <= now}

\* Mutant of Read: calendar_section's guard ends at the Google call.
ReadUnguarded(u) ==
  /\ At(u, "read")
  /\ IF u \in DarkCalendars \/ DueItems(u) = {}
     THEN NextRecipient(u)
     ELSE /\ listed' = DueItems(u)
          /\ today' = LocalDay(u, now)
          /\ pc' = "compose"
          /\ UNCHANGED <<chosen, left>>
  /\ UNCHANGED <<now, active, rows, items, ghost>>

\* due_for, open_for, today's date and calendar_section, which may have
\* something to say (an overlap, a lapsed grant) when no item is due.  Its own
\* failures degrade to nothing; but after one of the database's the
\* transaction is aborted, and send_digest goes on in it.
Read(u) ==
  /\ At(u, "read")
  /\ \E calendarHasSomething \in IF u \in DarkCalendars \cup BrokenReads THEN {FALSE} ELSE BOOLEAN :
       IF DueItems(u) = {} /\ ~calendarHasSomething
       THEN NextRecipient(u)
       ELSE /\ listed' = DueItems(u)
            /\ today' = LocalDay(u, now)
            /\ pc' = IF u \in BrokenReads THEN "doomed" ELSE "compose"
            /\ UNCHANGED <<chosen, left>>
  /\ UNCHANGED <<now, active, rows, items, ghost>>

\* Composed for nothing: _within_window's statement raises.
Doomed(u) == At(u, "doomed") /\ NextRecipient(u) /\ UNCHANGED <<now, active, rows, items, ghost>>

Compose(u) ==
  /\ At(u, "compose")
  /\ pc' = "send"
  /\ UNCHANGED <<now, active, rows, items, ghost, chosen, left, listed, today>>

\* The digest reaches her phone.
Arrive(u) ==
  /\ At(u, "send") /\ u \notin Unreachable
  /\ Len(arrived[u]) < MaxSends
  /\ arrived' = [arrived EXCEPT ![u] = Append(@, [at |-> now, day |-> today, chosen |-> chosen])]
  /\ told' = [i \in Items |-> IF i \in listed THEN told[i] + 1 ELSE told[i]]
  /\ UNCHANGED <<now, active, rows>>

\* send_text inside the 24-hour window, send_template outside it: accepted.
SendAccepted(u) ==
  /\ Arrive(u)
  /\ pc' = "record"
  /\ UNCHANGED <<items, chosen, left, listed, today>>

\* It arrived, but the call raised: the transaction rolls back.
SendLost(u) == Fault("lostAnswer") /\ Arrive(u) /\ NextRecipient(u)

\* Mutant of Skip: a rejected send is recorded like any other.
SkipRecorded(u) ==
  /\ \E place \in {"read", "compose", "send"} : At(u, place)
  /\ nudges' = [i \in Items |-> IF i \in listed THEN nudges[i] + 1 ELSE nudges[i]]
  /\ lastDigest' = [lastDigest EXCEPT ![u] = today]
  /\ NextRecipient(u)
  /\ UNCHANGED <<now, active, thread, items, ghost>>

\* Nothing arrived: an empty or failed composition, a rejected or failed send,
\* a database error.  run_once's own guard moves to the next recipient.
Skip(u) ==
  /\ \E place \in {"read", "compose", "send"} : At(u, place)
  /\ NextRecipient(u)
  /\ UNCHANGED <<now, active, rows, items, ghost>>

\* Mutant of Record: it reads again what is due instead of marking the list.
RecordDueNow(u) ==
  /\ At(u, "record")
  /\ nudges' = [i \in Items |-> IF i \in DueItems(u) THEN nudges[i] + 1 ELSE nudges[i]]
  /\ thread' = [thread EXCEPT ![u] = @ \cup {Len(arrived[u])}]
  /\ lastDigest' = [lastDigest EXCEPT ![u] = today]
  /\ NextRecipient(u)
  /\ UNCHANGED <<now, active, items, ghost>>

\* mark_nudged for both kinds, the thread's row and last_digest_on, and the
\* commit that makes them one.
Record(u) ==
  /\ At(u, "record")
  /\ nudges' = [i \in Items |-> IF i \in listed THEN nudges[i] + 1 ELSE nudges[i]]
  /\ thread' = [thread EXCEPT ![u] = @ \cup {Len(arrived[u])}]
  /\ lastDigest' = [lastDigest EXCEPT ![u] = today]
  /\ NextRecipient(u)
  /\ UNCHANGED <<now, active, items, ghost>>

RecordFails(u) ==
  /\ At(u, "record") /\ Fault("commit")
  /\ NextRecipient(u)
  /\ UNCHANGED <<now, active, rows, ghost>>

\* main starts with a run at once.
Restart ==
  /\ Fault("restart")
  /\ pc # "select"
  /\ pc' = "select" /\ chosen' = 0 /\ left' = {} /\ listed' = {} /\ today' = NoDay
  /\ UNCHANGED <<now, active, rows, ghost>>

Recipient(u) == \/ Read(u) \/ Doomed(u) \/ Compose(u) \/ SendAccepted(u) \/ SendLost(u)
                \/ Skip(u) \/ Record(u) \/ RecordFails(u)
JobStep == Wake \/ Select \/ \E u \in Users : Recipient(u)

Next ==
  \/ Tick
  \/ \E u \in Users : Deactivate(u)
  \/ \E i \in Items : File(i) \/ Snooze(i) \/ Close(i) \/ Reopen(i)
  \/ JobStep
  \/ Restart

Spec == Init /\ [][Next]_vars

\* For whom every run ends without a digest.
Unservable == BadRows \cup Unreachable \cup BrokenReads

\* The loop never stops; and a call that is tried again and again to a user
\* who can be reached is answered at last (Anthropic, the database, WhatsApp).
Fairness ==
  /\ WF_vars(JobStep)
  /\ \A u \in Users \ Unservable :
       /\ SF_vars(Read(u)) /\ SF_vars(Compose(u))
       /\ SF_vars(SendAccepted(u)) /\ SF_vars(Record(u))

FairSpec == Spec /\ Fairness

-----------------------------------------------------------------------------
(* What the job promises.                                                   *)

\* "Nothing is recorded unless a send actually landed" (RUNBOOK): a nudge
\* count never runs ahead of the digests that arrived, whatever fails; and
\* while all of hers that arrived are recorded, it is their exact number,
\* whatever an agent turn did to the item between the read and the count.
NudgesAreExact ==
  \A i \in Items :
    /\ nudges[i] <= told[i]
    /\ thread[Owner[i]] = DOMAIN arrived[Owner[i]] => nudges[i] = told[i]

\* A day that is stamped had a digest, so no one misses a morning for a stamp
\* that stands for nothing, and a stamp is never of a day to come.
StampHasDigest ==
  \A u \in Users :
    /\ lastDigest[u] <= LocalDay(u, now)
    /\ lastDigest[u] # NoDay => \E k \in thread[u] : arrived[u][k].day = lastDigest[u]

\* A digest that is recorded is its day's last: whatever restarts, only one
\* that arrived and could not be recorded is sent again.
OnePerDayOnceRecorded ==
  \A u \in Users : \A j, k \in DOMAIN arrived[u] :
    j < k /\ arrived[u][j].day = arrived[u][k].day => j \notin thread[u]

\* One digest a day: "already sent today; a restart must not double-send".
OnePerDay ==
  \A u \in Users : \A j, k \in DOMAIN arrived[u] :
    arrived[u][j].day = arrived[u][k].day => j = k

\* A digest that arrives before 08:00 is of a run that chose its recipients
\* the day before and was overtaken by midnight; no other one is early.
EarlyOnlyPastMidnight ==
  \A u \in Users : \A k \in DOMAIN arrived[u] :
    LocalTick(u, arrived[u][k].at) < SendTick =>
      LocalDay(u, arrived[u][k].chosen) < LocalDay(u, arrived[u][k].at)

\* One user's bad row, failing send or failing calendar costs no one else a
\* digest, and a calendar that does not load costs herself none either: whoever
\* is due with work to hear of gets one, or is no longer owed it.  Not so when
\* a calendar statement fails in the database, or she cannot be served at all.
EveryoneIsServed ==
  \A u \in Users \ Unservable :
    (Due(u) /\ DueItems(u) # {}) ~> ~(Due(u) /\ DueItems(u) # {})
=============================================================================
