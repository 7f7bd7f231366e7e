---------------------------- MODULE GoogleGrant ----------------------------
(***************************************************************************)
(* One developer's Google grant: the row of google_accounts, the calls     *)
(* that use it (core/google.access_token) from a calendar tool and from    *)
(* the digest, the digest's once-only notice that it lapsed, and the OAuth *)
(* callback's upsert that replaces it.                                     *)
(*                                                                         *)
(* Every call runs inside a transaction (READ COMMITTED) that stays open   *)
(* over its network calls.  An UPDATE of the row is visible to others only *)
(* at the commit and holds the row's lock until then: `lock` names the     *)
(* transaction that has updated it.  Grants are numbered in the order the  *)
(* user consented; Google (external) knows which are still valid.          *)
(***************************************************************************)
EXTENDS Naturals, FiniteSets

CONSTANTS
  MaxGrants,  \* bound: times the user consents
  MaxRuns,    \* bound: digest runs whose notice can arrive, per grant
  MaxCrashes, \* bound: restarts and exceptions that end a call
  LostAnswers \* TRUE: a notice may arrive and the call raise

ASSUME GrantAssumption ==
  /\ MaxGrants \in Nat /\ MaxRuns \in Nat /\ MaxCrashes \in Nat
  /\ LostAnswers \in BOOLEAN

Callers == {"tool", "digest"}
Grants == 1..MaxGrants
NoGrant == 0

VARIABLES
  token,     \* refresh_token of the row, NoGrant when there is no row
  revoked,   \* revoked_at is set
  notified,  \* revoked_notified_at is set
  lock,      \* the caller whose transaction has updated the row, or "none"
  consents,  \* grants Google has issued
  exchanged, \* a grant the callback holds and has not yet stored, or NoGrant
  crossed,   \* history: grants stored while a call was at work about an earlier one
  valid,     \* grants Google still honours
  pc,        \* [Callers -> Places]
  held,      \* [Callers -> grant]: the refresh token it read
  notices,   \* [Grants -> Nat]: notices that reached the user, by the grant that had lapsed
  undone,    \* [Grants -> Nat]: those whose transaction was rolled back
  crashes    \* so far

row  == <<token, revoked, notified>>
said == <<notices, undone, crashes>>
vars == <<row, lock, consents, exchanged, crossed, valid, pc, held, said>>

Places == {"idle", "asking", "refused", "revoking", "decide", "send", "stamp", "commit"}

TypeOK ==
  /\ token \in Grants \cup {NoGrant}
  /\ revoked \in BOOLEAN /\ notified \in BOOLEAN
  /\ lock \in Callers \cup {"none"}
  /\ consents \in 0..MaxGrants
  /\ exchanged \in Grants \cup {NoGrant}
  /\ crossed \subseteq Grants /\ valid \subseteq Grants
  /\ pc \in [Callers -> Places]
  /\ held \in [Callers -> Grants \cup {NoGrant}]
  /\ notices \in [Grants -> Nat] /\ undone \in [Grants -> Nat]
  /\ crashes \in 0..MaxCrashes

Init ==
  /\ token = NoGrant /\ revoked = FALSE /\ notified = FALSE
  /\ lock = "none"
  /\ consents = 0 /\ exchanged = NoGrant /\ crossed = {} /\ valid = {}
  /\ pc = [c \in Callers |-> "idle"]
  /\ held = [c \in Callers |-> NoGrant]
  /\ notices = [g \in Grants |-> 0] /\ undone = notices /\ crashes = 0

Goto(c, place) == pc' = [pc EXCEPT ![c] = place]
\* c has read the row and has yet to write, or to say, something about it.
AtWork(c) == pc[c] \in {"asking", "revoking", "send", "stamp"}
\* What the transaction of c sees of revoked_at: its own update, or the row's.
SeesRevoked(c) == revoked \/ (lock = c /\ pc[c] \in {"decide", "send", "stamp", "commit"})

-----------------------------------------------------------------------------
(* Google and the OAuth callback.                                           *)

\* The user consents and _exchange_code returns a refresh token.
Consent ==
  /\ consents < MaxGrants /\ exchanged = NoGrant
  /\ consents' = consents + 1
  /\ exchanged' = consents + 1
  /\ valid' = valid \cup {consents + 1}
  /\ UNCHANGED <<row, lock, crossed, pc, held, said>>

\* Mutant of Upsert: the conflict clause leaves revoked_notified_at.
UpsertKeepsNotified ==
  /\ exchanged # NoGrant /\ lock = "none"
  /\ token' = exchanged /\ revoked' = FALSE /\ exchanged' = NoGrant
  /\ crossed' = IF \E c \in Callers : AtWork(c) THEN crossed \cup {exchanged} ELSE crossed
  /\ UNCHANGED <<notified, lock, consents, valid, pc, held, said>>

\* google_accounts.upsert: waits for the row lock and replaces everything.
Upsert ==
  /\ exchanged # NoGrant /\ lock = "none"
  /\ token' = exchanged /\ revoked' = FALSE /\ notified' = FALSE
  /\ exchanged' = NoGrant
  /\ crossed' = IF \E c \in Callers : AtWork(c) THEN crossed \cup {exchanged} ELSE crossed
  /\ UNCHANGED <<lock, consents, valid, pc, held, said>>

\* The user disconnects the app in her Google account.
Disconnect ==
  /\ valid # {}
  /\ valid' = {}
  /\ UNCHANGED <<row, lock, consents, exchanged, crossed, pc, held, said>>

-----------------------------------------------------------------------------
(* access_token, from a calendar tool or from the digest.                   *)

Start(c) ==
  /\ pc[c] = "idle"
  /\ IF token = NoGrant \/ revoked
     THEN Goto(c, "refused") /\ UNCHANGED held
     ELSE Goto(c, "asking") /\ held' = [held EXCEPT ![c] = token]
  /\ UNCHANGED <<row, lock, consents, exchanged, crossed, valid, said>>

\* Mutant of Answer: whatever is not a 200 counts as invalid_grant.
AnswerAnyError(c) ==
  /\ pc[c] = "asking"
  /\ \/ Goto(c, "revoking")
     \/ Goto(c, IF c = "digest" THEN "commit" ELSE "idle")
  /\ UNCHANGED <<row, lock, consents, exchanged, crossed, valid, held, said>>

\* The token endpoint answers for the token that was read: an access token,
\* a transient failure (the tool's transaction ends, the digest goes on without
\* a calendar), or invalid_grant.
Answer(c) ==
  /\ pc[c] = "asking"
  /\ \/ held[c] \notin valid /\ Goto(c, "revoking")
     \/ Goto(c, IF c = "digest" THEN "commit" ELSE "idle")
  /\ UNCHANGED <<row, lock, consents, exchanged, crossed, valid, held, said>>

\* google_accounts.revoke, keyed by user_id alone; waits for the row lock.
Revoke(c) ==
  /\ pc[c] = "revoking" /\ lock = "none"
  /\ lock' = c
  /\ Goto(c, IF c = "digest" THEN "decide" ELSE "commit")
  /\ UNCHANGED <<row, consents, exchanged, crossed, valid, held, said>>

\* RevokedGrant without an update of its own: the tool offers a link, the
\* digest looks at the row.
Refused(c) ==
  /\ pc[c] = "refused"
  /\ Goto(c, IF c = "digest" THEN "decide" ELSE "idle")
  /\ UNCHANGED <<row, lock, consents, exchanged, crossed, valid, held, said>>

-----------------------------------------------------------------------------
(* The digest's notice (_today_shape, then the end of send_digest).         *)

\* Mutant of Decide: revoked_notified_at is not looked at.
DecideAgain ==
  /\ pc["digest"] = "decide"
  /\ Goto("digest", IF token # NoGrant /\ SeesRevoked("digest") THEN "send" ELSE "commit")
  /\ held' = [held EXCEPT !["digest"] = token]
  /\ UNCHANGED <<row, lock, consents, exchanged, crossed, valid, said>>

\* Announce iff the grant is revoked and that has not been said.
Decide ==
  /\ pc["digest"] = "decide"
  /\ Goto("digest", IF token # NoGrant /\ SeesRevoked("digest") /\ ~notified
                    THEN "send" ELSE "commit")
  /\ held' = [held EXCEPT !["digest"] = token]
  /\ UNCHANGED <<row, lock, consents, exchanged, crossed, valid, said>>

\* The message with the notice arrives; its answer may be lost, and then the
\* whole transaction rolls back.
SendNotice ==
  /\ pc["digest"] = "send" /\ notices[held["digest"]] < MaxRuns
  /\ notices' = [notices EXCEPT ![held["digest"]] = @ + 1]
  /\ UNCHANGED crashes
  /\ \/ Goto("digest", "stamp") /\ UNCHANGED <<lock, undone>>
     \/ /\ LostAnswers
        /\ Goto("digest", "idle")
        /\ undone' = [undone EXCEPT ![held["digest"]] = @ + 1]
        /\ lock' = IF lock = "digest" THEN "none" ELSE lock
  /\ UNCHANGED <<row, consents, exchanged, crossed, valid, held>>

\* Mutant of SendRejected: the return value is not looked at.
SendRejectedStamps ==
  /\ pc["digest"] = "send"
  /\ Goto("digest", "stamp")
  /\ UNCHANGED <<row, lock, consents, exchanged, crossed, valid, held, said>>

\* Rejected: send_digest returns False and the transaction commits.
SendRejected ==
  /\ pc["digest"] = "send"
  /\ Goto("digest", "commit")
  /\ UNCHANGED <<row, lock, consents, exchanged, crossed, valid, held, said>>

\* mark_revoked_notified, keyed by user_id alone; it needs the row lock.
\* Nothing but the commit follows.
Stamp ==
  /\ pc["digest"] = "stamp" /\ lock \in {"none", "digest"}
  /\ notified' = TRUE
  /\ revoked' = SeesRevoked("digest")
  /\ lock' = "none"
  /\ Goto("digest", "idle")
  /\ UNCHANGED <<token, consents, exchanged, crossed, valid, held, said>>

\* The transaction ends; an update of revoked_at becomes visible.
Commit(c) ==
  /\ pc[c] = "commit"
  /\ revoked' = SeesRevoked(c)
  /\ lock' = IF lock = c THEN "none" ELSE lock
  /\ Goto(c, "idle")
  /\ UNCHANGED <<token, notified, consents, exchanged, crossed, valid, held, said>>

\* The container of c restarts, or an exception reaches its transaction.
Abort(c) ==
  /\ crashes < MaxCrashes /\ crashes' = crashes + 1
  /\ pc[c] # "idle"
  /\ lock' = IF lock = c THEN "none" ELSE lock
  /\ undone' = IF pc[c] = "stamp" THEN [undone EXCEPT ![held[c]] = @ + 1] ELSE undone
  /\ Goto(c, "idle")
  /\ UNCHANGED <<row, consents, exchanged, crossed, valid, held, notices>>

Call(c) == Start(c) \/ Answer(c) \/ Revoke(c) \/ Refused(c) \/ Commit(c)
Notice == Decide \/ SendNotice \/ SendRejected \/ Stamp

Next ==
  \/ Consent \/ Upsert \/ Disconnect
  \/ \E c \in Callers : Call(c) \/ Abort(c)
  \/ Notice

Spec == Init /\ [][Next]_vars

\* The digest runs every day and its calls return; Google answers and WhatsApp
\* accepts the notice sooner or later.  A tool call ends too, and the callback.
Fairness ==
  /\ WF_vars(Upsert)
  /\ \A c \in Callers : WF_vars(Answer(c) \/ Revoke(c) \/ Refused(c) \/ Commit(c))
  /\ WF_vars(Start("digest")) /\ WF_vars(Notice)
  /\ SF_vars(Answer("digest") /\ pc'["digest"] = "revoking")
  /\ SF_vars(SendNotice)

FairSpec == Spec /\ Fairness

-----------------------------------------------------------------------------
(* What the grant's bookkeeping promises.                                   *)

\* A grant marked revoked is one Google no longer honours, whatever the tool
\* and the digest learn and in whichever order their updates commit: a failure
\* that is no revocation never disconnects her.  Only a grant that was stored
\* while a call about an earlier one was at work may be hit by what that call
\* learned (revoke names the user, not the grant).
RevokedIsDead == revoked /\ token \notin crossed => token \notin valid

\* The stamp stands for a notice that arrived, about the grant in the row, and
\* a rejected or lost send leaves none ("never told AND never asked again"):
\* but for a grant that was stored while the notice was in hand.
StampIsOfThisGrant ==
  notified /\ token \notin crossed => revoked /\ notices[token] > 0

\* "A reconnect has to start clean": no grant that Google honours is marked
\* revoked, nor silenced beforehand by a stamp.
ReconnectStartsClean == token \in valid => ~revoked /\ ~notified

\* "Said out loud ONCE": a lapsed grant is announced once, and again only for
\* each notice that arrived and could not be recorded.
AnnouncedOnce == \A g \in Grants : notices[g] <= 1 + undone[g]

\* A grant that Google has dropped is announced at last, through lost answers,
\* crashes and reconnects; unless the user reconnects first, or the grant was
\* stored while a notice about an earlier one was in hand, whose stamp then
\* silences it.
LapseIsAnnounced ==
  \A g \in Grants : (token = g /\ g \notin valid) ~>
    (notices[g] > 0 \/ token # g \/ g \in crossed)
=============================================================================
