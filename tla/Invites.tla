------------------------------ MODULE Invites ------------------------------
(***************************************************************************)
(* The calendar tools (capabilities/calendar/tools.py), which write to     *)
(* Google and to the database under one transaction per tool call.         *)
(*                                                                         *)
(* create_event makes a bare event and then links it to a lead and a       *)
(* commitment.  The approval gate stands before the one call that reaches  *)
(* third parties: propose_invite stores the exact list                     *)
(* (db/pending_invites), confirm_invite takes an id, claims the row and    *)
(* patches the attendees in.                                               *)
(*                                                                         *)
(* A claim is visible to others at the commit; a second claim of the row   *)
(* waits for the first transaction and then sees what it left.  Google     *)
(* (external) replaces an event's attendees by the patched list and sends  *)
(* the invitations.  A statement that fails aborts its transaction, caught *)
(* or not: the COMMIT that follows is a rollback and raises nothing.       *)
(***************************************************************************)
EXTENDS Naturals, FiniteSets, FiniteSetsExt

CONSTANTS
  Leads, Commitments, \* the user's items, which an event may be linked to
  Requests,   \* the sets of ids that create_event may be asked to link
  Events,     \* ids of events a user may create
  Lists,      \* address lists, none of them empty
  Approvals,  \* ids of pending_invites rows
  Confirmers, \* confirm_invite calls that may be open at once
  Faults,     \* subset of FaultKinds
  MaxSends    \* bound: invitations sent for one approval

FaultKinds == {"lostAnswer", "crash", "grantRevoked"}

NoList == "nobody"
NoId == "no row"
Items == Leads \cup Commitments
Invented == "invented"   \* an id that is no row of hers, or not even a uuid
ASSUME InvitesAssumption ==
  /\ Faults \subseteq FaultKinds
  /\ NoList \notin Lists /\ NoId \notin Approvals \cup Events \cup Confirmers
  /\ Leads \cap Commitments = {} /\ Invented \notin Items
  /\ Requests \subseteq SUBSET (Items \cup {Invented})
  /\ MaxSends \in Nat

VARIABLES
  link,      \* [Items -> Events \cup {NoId}]: calendar_event_id, committed
  creating,  \* Events \cup {NoId}: the event of the open create_event call
  asked,     \* the ids it marked the event with (extendedProperties)
  left,      \* those it has yet to link
  linked,    \* the items it has linked, not committed
  told,      \* "nothing", "created" or "failed": what the last call answered,
             \* "lost" if Google's answer, the commit or the process was lost
  calendar,  \* [Events -> {"absent", "present", "deleted"}]
  guests,    \* [Events -> Lists \cup {NoList}]: attendees on the calendar
  approval,  \* [Approvals -> {"none", "open", "confirmed"}]: committed state
  stored,    \* [Approvals -> [event : Events, emails : Lists]], once created
  expired,   \* approvals whose expires_at has passed
  claimedBy, \* [Approvals -> Confirmers \cup {NoId}]: an uncommitted claim
  pc,        \* [Confirmers -> {"idle", "claim", "patch", "commit"}]
  target,    \* [Confirmers -> Approvals \cup {NoId}]: the pending_id argument
  stale,     \* [Confirmers -> SUBSET Approvals]: expired when it began (now())
  sends,     \* [Approvals -> Nat]: times its invitations went out
  undone,    \* [Approvals -> Nat]: of these, times the claim was rolled back
  unsent     \* approvals consumed by a confirmation that found no live grant

google == <<calendar, guests, sends>>
ghost  == <<undone, unsent>>
table  == <<approval, stored, expired>>
calls  == <<claimedBy, pc, target, stale>>
call   == <<creating, asked, left, linked, told>>
events == <<link, call>>
vars   == <<google, table, calls, ghost, events>>

TypeOK ==
  /\ link \in [Items -> Events \cup {NoId}]
  /\ creating \in Events \cup {NoId}
  /\ left \subseteq asked /\ asked \subseteq Items \cup {Invented}
  /\ linked \subseteq asked \cap Items
  /\ told \in {"nothing", "created", "failed", "lost"}
  /\ calendar \in [Events -> {"absent", "present", "deleted"}]
  /\ guests \in [Events -> Lists \cup {NoList}]
  /\ approval \in [Approvals -> {"none", "open", "confirmed"}]
  /\ stored \in [Approvals -> [event : Events \cup {NoId}, emails : Lists \cup {NoList}]]
  /\ \A a \in Approvals : approval[a] # "none" => stored[a] \in [event : Events, emails : Lists]
  /\ expired \subseteq Approvals
  /\ claimedBy \in [Approvals -> Confirmers \cup {NoId}]
  /\ pc \in [Confirmers -> {"idle", "claim", "patch", "commit"}]
  /\ target \in [Confirmers -> Approvals \cup {NoId}]
  /\ stale \in [Confirmers -> SUBSET Approvals]
  /\ sends \in [Approvals -> Nat] /\ undone \in [Approvals -> Nat]
  /\ unsent \subseteq Approvals

Init ==
  /\ link = [i \in Items |-> NoId]
  /\ creating = NoId /\ asked = {} /\ left = {} /\ linked = {}
  /\ told = "nothing"
  /\ calendar = [e \in Events |-> "absent"]
  /\ guests = [e \in Events |-> NoList]
  /\ approval = [a \in Approvals |-> "none"]
  /\ stored = [a \in Approvals |-> [event |-> NoId, emails |-> NoList]]
  /\ expired = {}
  /\ claimedBy = [a \in Approvals |-> NoId]
  /\ pc = [c \in Confirmers |-> "idle"]
  /\ target = [c \in Confirmers |-> NoId]
  /\ stale = [c \in Confirmers |-> {}]
  /\ sends = [a \in Approvals |-> 0] /\ undone = sends
  /\ unsent = {}

-----------------------------------------------------------------------------
(* create_event.  A user's tool calls run one at a time.                    *)

Idle == creating = NoId /\ \A c \in Confirmers : pc[c] = "idle"

\* The call is over: what it answered stays, its locals are gone.
Answer(what) ==
  /\ told' = what
  /\ creating' = NoId /\ asked' = {} /\ left' = {} /\ linked' = {}

\* Google accepts the event: bare, marked with the ids it is about.
Post(e) ==
  /\ Idle /\ calendar[e] = "absent"
  /\ calendar' = [calendar EXCEPT ![e] = "present"]
  /\ UNCHANGED <<guests, sends, table, calls, ghost, link>>

CreateEvent(e, ids) ==
  /\ Post(e)
  /\ creating' = e /\ asked' = ids /\ left' = ids /\ linked' = {}
  /\ told' = "nothing"

\* The event is there, but the call raised: the model is told that it failed.
CreateLost(e) == "lostAnswer" \in Faults /\ Post(e) /\ Answer("lost")

\* No event: an error status, or a grant that is gone.
CreateFails == Idle /\ Answer("failed") /\ UNCHANGED <<google, table, calls, ghost, link>>

\* set_calendar_event, the lead's before the commitment's; an id that matches
\* no row of the user's links nothing.
Link(i) ==
  /\ i \in left
  /\ i \in Commitments => left \cap Leads = {}
  /\ left' = left \ {i}
  /\ linked' = linked \cup ({i} \cap Items)
  /\ UNCHANGED <<link, creating, asked, told, google, table, calls, ghost>>

\* Mutants of LinkFails: what was linked before it stays, and it is not caught.
LinkFailsAlone ==
  /\ left # {} /\ left' = {}
  /\ UNCHANGED <<link, creating, asked, linked, told, google, table, calls, ghost>>

LinkFailsLoudly ==
  left # {} /\ Answer("failed") /\ UNCHANGED <<link, google, table, calls, ghost>>

\* A link raises, as an unparseable id does: the exception is swallowed and no
\* other link is tried, but the transaction is aborted.
LinkFails ==
  /\ left # {}
  /\ left' = {} /\ linked' = {}
  /\ UNCHANGED <<link, creating, asked, told, google, table, calls, ghost>>

\* The commit: the model hears the event's id, or that the tool failed.
Created ==
  /\ creating # NoId /\ left = {}
  /\ \/ /\ link' = [i \in Items |-> IF i \in linked THEN creating ELSE link[i]]
        /\ Answer("created")
     \/ UNCHANGED link /\ "lostAnswer" \in Faults /\ Answer("lost")
  /\ UNCHANGED <<google, table, calls, ghost>>

CreateCrash ==
  /\ "crash" \in Faults /\ creating # NoId
  /\ Answer("lost")
  /\ UNCHANGED <<link, google, table, calls, ghost>>

\* by_event_ids of leads and commitments: what the digest says a day is about.
by_event_ids(ids) == {i \in Items : link[i] \in ids}

-----------------------------------------------------------------------------
(* Around the gate.                                                         *)

\* cancel_event, or the user herself; Google keeps a cancelled event.
DeleteEvent(e) ==
  /\ calendar[e] = "present"
  /\ calendar' = [calendar EXCEPT ![e] = "deleted"]
  /\ UNCHANGED <<guests, sends, table, calls, ghost, events>>

\* propose_invite: get_event finds the event (deleted is gone), and the row
\* is written with the list that is read back.  Otherwise no row.
Propose(a, e, l) ==
  /\ approval[a] = "none"
  /\ calendar[e] = "present"
  /\ approval' = [approval EXCEPT ![a] = "open"]
  /\ stored' = [stored EXCEPT ![a] = [event |-> e, emails |-> l]]
  /\ UNCHANGED <<google, expired, calls, ghost, events>>

Expire(a) ==
  /\ approval[a] = "open" /\ a \notin expired
  /\ expired' = expired \cup {a}
  /\ UNCHANGED <<google, approval, stored, calls, ghost, events>>

-----------------------------------------------------------------------------
(* confirm_invite, in its transaction.                                      *)

\* The call is over, its argument and its snapshot are gone.
Return(c) ==
  /\ pc' = [pc EXCEPT ![c] = "idle"]
  /\ target' = [target EXCEPT ![c] = NoId]
  /\ stale' = [stale EXCEPT ![c] = {}]

Begin(c, a) ==
  /\ creating = NoId /\ pc[c] = "idle"
  /\ pc' = [pc EXCEPT ![c] = "claim"]
  /\ target' = [target EXCEPT ![c] = a]
  /\ stale' = [stale EXCEPT ![c] = expired]
  /\ UNCHANGED <<google, table, claimedBy, ghost, events>>

\* Mutant of Claim: a SELECT of the row, then an UPDATE by id.
ClaimAfterRead(c) ==
  LET a == target[c] IN
  /\ pc[c] = "claim" /\ approval[a] = "open" /\ a \notin stale[c]
  /\ claimedBy' = [claimedBy EXCEPT ![a] = c]
  /\ pc' = [pc EXCEPT ![c] = "patch"]
  /\ UNCHANGED <<google, table, target, stale, ghost, events>>

\* pending_invites.claim: one UPDATE whose condition is the state it leaves.
Claim(c) ==
  LET a == target[c] IN
  /\ pc[c] = "claim"
  /\ claimedBy[a] = NoId
  /\ IF approval[a] = "open" /\ a \notin stale[c]
     THEN /\ claimedBy' = [claimedBy EXCEPT ![a] = c]
          /\ pc' = [pc EXCEPT ![c] = "patch"]
          /\ UNCHANGED <<target, stale>>
     ELSE UNCHANGED claimedBy /\ Return(c)
  /\ UNCHANGED <<google, table, ghost, events>>

\* Mutant of Invited: the list comes from the model, not from the row.
InvitedAsTyped(a) ==
  /\ calendar[stored[a].event] = "present" /\ sends[a] < MaxSends
  /\ \E l \in Lists : guests' = [guests EXCEPT ![stored[a].event] = l]
  /\ sends' = [sends EXCEPT ![a] = @ + 1]
  /\ UNCHANGED calendar

\* Google accepts the patch of add_attendees.
Invited(a) ==
  /\ calendar[stored[a].event] = "present" /\ sends[a] < MaxSends
  /\ guests' = [guests EXCEPT ![stored[a].event] = stored[a].emails]
  /\ sends' = [sends EXCEPT ![a] = @ + 1]
  /\ UNCHANGED calendar

Rollback(c) ==
  /\ claimedBy' = [a \in Approvals |-> IF claimedBy[a] = c THEN NoId ELSE claimedBy[a]]
  /\ Return(c)
  /\ unsent' = {a \in unsent : claimedBy[a] # c}
  /\ UNCHANGED <<table, events>>

Patch(c) ==
  /\ pc[c] = "patch"
  /\ Invited(target[c])
  /\ pc' = [pc EXCEPT ![c] = "commit"]
  /\ UNCHANGED <<table, claimedBy, target, stale, ghost, events>>

\* The invitations went out and the call raised: dispatch rolls back.
PatchLost(c) ==
  /\ pc[c] = "patch" /\ "lostAnswer" \in Faults
  /\ Invited(target[c])
  /\ undone' = [undone EXCEPT ![target[c]] = @ + 1]
  /\ Rollback(c)

\* A 4xx, a 5xx or no connection: the exception rolls the claim back.
PatchFails(c) ==
  /\ pc[c] = "patch"
  /\ Rollback(c)
  /\ UNCHANGED <<google, undone>>

\* RevokedGrant is answered with a link, so the transaction commits the claim.
NoGrant(c) ==
  /\ pc[c] = "patch" /\ "grantRevoked" \in Faults
  /\ unsent' = unsent \cup {target[c]}
  /\ pc' = [pc EXCEPT ![c] = "commit"]
  /\ UNCHANGED <<google, table, claimedBy, target, stale, undone, events>>

Commit(c) ==
  LET a == target[c] IN
  /\ pc[c] = "commit"
  /\ approval' = [approval EXCEPT ![a] = "confirmed"]
  /\ claimedBy' = [claimedBy EXCEPT ![a] = NoId]
  /\ Return(c)
  /\ UNCHANGED <<google, stored, expired, ghost, events>>

Crash(c) ==
  /\ "crash" \in Faults /\ pc[c] # "idle"
  /\ Rollback(c)
  /\ undone' = IF pc[c] = "commit" /\ target[c] \notin unsent
               THEN [undone EXCEPT ![target[c]] = @ + 1] ELSE undone
  /\ UNCHANGED google

Confirm(c) == Claim(c) \/ Patch(c) \/ PatchLost(c) \/ PatchFails(c) \/ NoGrant(c) \/ Commit(c)

Create == \/ \E e \in Events : CreateLost(e) \/ \E ids \in Requests : CreateEvent(e, ids)
          \/ \E i \in left : Link(i)
          \/ CreateFails \/ LinkFails \/ Created \/ CreateCrash

Next ==
  \/ Create
  \/ \E e \in Events : DeleteEvent(e)
  \/ \E a \in Approvals : Expire(a) \/ \E e \in Events, l \in Lists : Propose(a, e, l)
  \/ \E c \in Confirmers : Confirm(c) \/ Crash(c) \/ \E a \in Approvals : Begin(c, a)

Spec == Init /\ [][Next]_vars

-----------------------------------------------------------------------------
(* What the tools promise.                                                  *)

\* Only what was linked to e before, or all that e is being made for.
Linked(e) == \/ by_event_ids({e})' \subseteq by_event_ids({e})
             \/ e = creating /\ by_event_ids({e})' = asked \cap Items
LinksMove == \A e \in Events : Linked(e)

\* "Both directions, written together" (create_event): the items the database
\* links to an event become, in one commit, all those the calendar says it was
\* made for, and no others; after that they can only be linked elsewhere.
LinksAgree == [][LinksMove]_vars

\* "A second identical meeting on a client's calendar is not" recoverable: a
\* call whose event is on the calendar never answers, of its own accord, that it
\* failed, which is what makes the model try again.
NotDenied == creating # NoId => told' # "failed"
MadeIsTold == [][NotDenied]_vars

GuestsMove == \A e \in Events : guests'[e] # guests[e] =>
  \E a \in Approvals : claimedBy[a] # NoId /\ stored[a] = [event |-> e, emails |-> guests'[e]]

\* Only the exact list of an approval that is claimed at that moment, for its
\* own event, ever becomes an event's guests.
InvitesAreApproved == [][GuestsMove]_vars

\* Single use, and nothing claimed that was not done: of the confirmations of
\* one approval, racing or repeated, one sends.  Leaving aside those that were
\* rolled back after the invitations had gone out, a used approval was sent
\* exactly once, unless it was used up without a live grant, and an open one
\* not at all (list_pending_invites: "by definition unsent").
SendsAreAccounted ==
  \A a \in Approvals : claimedBy[a] = NoId =>
    sends[a] = undone[a] + (IF approval[a] = "confirmed" /\ a \notin unsent THEN 1 ELSE 0)
=============================================================================
