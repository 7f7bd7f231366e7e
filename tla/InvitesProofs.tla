---------------------------- MODULE InvitesProofs ----------------------------
(***************************************************************************)
(* Theorems of Invites, for any items, events, lists, approvals, any       *)
(* number of confirmations at once, and any faults.                        *)
(*                                                                         *)
(* The argument for the gate: a claim and the confirmation that made it    *)
(* name each other and the row is still open (Claims), so what has been    *)
(* sent is known at every place of a confirmation (Accounts).  For the     *)
(* links: what a call has linked is all that it was asked and has behind   *)
(* it, or nothing, and no item was linked to its event before (Fresh).     *)
(***************************************************************************)
EXTENDS Invites, TLAPS

Holding == {"patch", "commit"}

\* A claim and its confirmation name each other.
Claims ==
  /\ \A a \in Approvals : claimedBy[a] # NoId =>
       /\ pc[claimedBy[a]] \in Holding /\ target[claimedBy[a]] = a
       /\ approval[a] = "open"
  /\ \A c \in Confirmers :
       /\ pc[c] # "idle" => target[c] \in Approvals
       /\ pc[c] \in Holding => claimedBy[target[c]] = c

\* What of an approval has been sent and stays, wherever its claim is.
Accounts ==
  /\ SendsAreAccounted
  /\ \A a \in Approvals : a \in unsent /\ claimedBy[a] = NoId => approval[a] = "confirmed"
  /\ \A c \in Confirmers :
       /\ pc[c] = "patch" => sends[target[c]] = undone[target[c]] /\ target[c] \notin unsent
       /\ pc[c] = "commit" => sends[target[c]] = undone[target[c]]
                                + (IF target[c] \in unsent THEN 0 ELSE 1)

\* No item is linked to an event that is being made or is yet to be.
Fresh ==
  /\ \A i \in Items : link[i] # NoId => link[i] # creating /\ calendar[link[i]] # "absent"
  /\ creating # NoId => calendar[creating] # "absent"
  /\ linked = (asked \ left) \cap Items \/ (left = {} /\ linked = {})
  /\ creating = NoId => left = {}

Gate == TypeOK /\ Claims /\ Accounts /\ Fresh

\* The initial state.
LEMMA GateInit == Init => Gate
<1> SUFFICES ASSUME Init PROVE Gate
  OBVIOUS
<1> USE InvitesAssumption DEF Init
<1>1. TypeOK
  BY DEF TypeOK, Items
<1>2. Claims /\ Fresh
  BY DEF Claims, Holding, Fresh
<1>3. Accounts
  BY DEF Accounts, SendsAreAccounted
<1> QED BY <1>1, <1>2, <1>3 DEF Gate

-----------------------------------------------------------------------------
(* Types.                                                                   *)

\* create_event keeps the types.
LEMMA CreateIsTyped == TypeOK /\ Create => TypeOK'
<1> SUFFICES ASSUME TypeOK, Create PROVE TypeOK'
  OBVIOUS
<1>1. UNCHANGED <<guests, sends, table, calls, ghost>>
  BY DEF Create, CreateEvent, CreateLost, Post, CreateFails, Link, LinkFails, Created,
         CreateCrash, google
<1>2. calendar' \in [Events -> {"absent", "present", "deleted"}]
  BY DEF Create, CreateEvent, CreateLost, Post, CreateFails, Link, LinkFails, Created,
         CreateCrash, google, TypeOK
<1>3. /\ creating' \in Events \cup {NoId} /\ asked' \subseteq Items \cup {Invented}
      /\ left' \subseteq asked' /\ linked' \subseteq asked' \cap Items
      /\ told' \in {"nothing", "created", "failed", "lost"}
  <2>1. ASSUME NEW e \in Events, NEW ids \in Requests, CreateEvent(e, ids) PROVE <1>3
    BY <2>1, InvitesAssumption DEF CreateEvent
  <2>2. CASE \E i \in left : Link(i)
    BY <2>2 DEF Link, TypeOK
  <2>3. CASE LinkFails
    BY <2>3 DEF LinkFails, TypeOK
  <2>4. CASE CreateFails \/ Created \/ CreateCrash \/ \E e \in Events : CreateLost(e)
    BY <2>4 DEF CreateFails, Created, CreateCrash, CreateLost, Answer, TypeOK
  <2> QED BY <2>1, <2>2, <2>3, <2>4 DEF Create
<1>4. link' \in [Items -> Events \cup {NoId}]
  <2>1. CASE Created
    BY <2>1 DEF Created, TypeOK
  <2>2. CASE ~Created
    BY <2>2 DEF Create, CreateEvent, CreateLost, Post, CreateFails, Link, LinkFails,
                CreateCrash, TypeOK
  <2> QED BY <2>1, <2>2
<1>5. UNCHANGED <<guests, sends, approval, stored, expired, claimedBy, pc, target, stale,
                  undone, unsent>>
  BY <1>1 DEF table, calls, ghost
<1> QED BY <1>2, <1>3, <1>4, <1>5 DEF TypeOK

\* The steps of a confirmation keep the types of the approvals.
LEMMA ConfirmIsTyped ==
  ASSUME TypeOK, Claims, NEW c \in Confirmers, Confirm(c) \/ Crash(c)
  PROVE  TypeOK'
<1>1. UNCHANGED events /\ UNCHANGED <<stored, expired, calendar>>
  BY DEF Confirm, Claim, Patch, PatchLost, PatchFails, NoGrant, Commit, Crash, Rollback,
         Invited, google, table
<1>2. pc[c] # "idle" /\ target[c] \in Approvals
  BY DEF Confirm, Claim, Patch, PatchLost, PatchFails, NoGrant, Commit, Crash, Claims
<1>3. /\ pc' \in [Confirmers -> {"idle", "claim", "patch", "commit"}]
      /\ target' \in [Confirmers -> Approvals \cup {NoId}]
      /\ stale' \in [Confirmers -> SUBSET Approvals]
  BY DEF Confirm, Claim, Patch, PatchLost, PatchFails, NoGrant, Commit, Crash, Rollback,
         Return, TypeOK
<1>4. claimedBy' \in [Approvals -> Confirmers \cup {NoId}]
  <2>1. CASE Claim(c)
    BY <2>1 DEF Claim, TypeOK
  <2>2. CASE Commit(c)
    BY <2>2 DEF Commit, TypeOK
  <2>3. CASE Patch(c) \/ NoGrant(c)
    BY <2>3 DEF Patch, NoGrant, TypeOK
  <2>4. CASE PatchLost(c) \/ PatchFails(c) \/ Crash(c)
    BY <2>4 DEF PatchLost, PatchFails, Crash, Rollback, TypeOK
  <2> QED BY <2>1, <2>2, <2>3, <2>4 DEF Confirm
<1>5. approval' \in [Approvals -> {"none", "open", "confirmed"}]
      /\ \A a \in Approvals : approval'[a] # "none" => approval[a] # "none" \/ a = target[c]
  BY DEF Confirm, Claim, Patch, PatchLost, PatchFails, NoGrant, Commit, Crash, Rollback,
         table, TypeOK
<1>6. pc[c] = "commit" => approval[target[c]] = "open"
  BY <1>2, InvitesAssumption DEF Claims, Holding
<1>7. \A a \in Approvals : approval'[a] # "none" => approval[a] # "none"
  BY <1>2, <1>6
     DEF Confirm, Claim, Patch, PatchLost, PatchFails, NoGrant, Commit, Crash, Rollback,
         table, TypeOK
<1>8. /\ sends' \in [Approvals -> Nat] /\ guests' \in [Events -> Lists \cup {NoList}]
  <2>1. CASE Patch(c) \/ PatchLost(c)
    <3>1. Invited(target[c]) /\ approval[target[c]] # "none"
      BY <2>1, <1>2, InvitesAssumption DEF Patch, PatchLost, Claims, Holding
    <3>2. stored[target[c]] \in [event : Events, emails : Lists]
      BY <1>2, <3>1 DEF TypeOK
    <3> QED BY <1>2, <3>1, <3>2 DEF Invited, TypeOK
  <2>2. CASE ~(Patch(c) \/ PatchLost(c))
    BY <2>2 DEF Confirm, Claim, PatchFails, NoGrant, Commit, Crash, google, TypeOK
  <2> QED BY <2>1, <2>2
<1>9. undone' \in [Approvals -> Nat] /\ unsent' \subseteq Approvals
  BY <1>2
     DEF Confirm, Claim, Patch, PatchLost, PatchFails, NoGrant, Commit, Crash, Rollback,
         ghost, TypeOK
<1> QED BY <1>1, <1>3, <1>4, <1>5, <1>7, <1>8, <1>9 DEF events, call, TypeOK

\* Every step keeps the types.
LEMMA TypedStep == TypeOK /\ Claims /\ [Next]_vars => TypeOK'
<1> SUFFICES ASSUME TypeOK, Claims, [Next]_vars PROVE TypeOK'
  OBVIOUS
<1>1. CASE UNCHANGED vars
  BY <1>1 DEF vars, google, table, calls, ghost, events, call, TypeOK
<1>2. CASE Create
  BY <1>2, CreateIsTyped
<1>3. ASSUME NEW e \in Events, DeleteEvent(e) PROVE TypeOK'
  BY <1>3 DEF DeleteEvent, table, calls, ghost, events, call, TypeOK
<1>4. ASSUME NEW a \in Approvals, Expire(a) PROVE TypeOK'
  BY <1>4 DEF Expire, google, calls, ghost, events, call, TypeOK
<1>5. ASSUME NEW a \in Approvals, NEW e \in Events, NEW l \in Lists, Propose(a, e, l)
      PROVE  TypeOK'
  BY <1>5 DEF Propose, google, calls, ghost, events, call, TypeOK
<1>6. ASSUME NEW c \in Confirmers, NEW a \in Approvals, Begin(c, a) PROVE TypeOK'
  <2>1. /\ pc' \in [Confirmers -> {"idle", "claim", "patch", "commit"}]
        /\ target' \in [Confirmers -> Approvals \cup {NoId}]
        /\ stale' \in [Confirmers -> SUBSET Approvals]
    BY <1>6 DEF Begin, TypeOK
  <2> QED BY <1>6, <2>1 DEF Begin, google, table, ghost, events, call, TypeOK
<1>7. ASSUME NEW c \in Confirmers, Confirm(c) \/ Crash(c) PROVE TypeOK'
  BY <1>7, ConfirmIsTyped
<1> QED BY <1>1, <1>2, <1>3, <1>4, <1>5, <1>6, <1>7 DEF Next

-----------------------------------------------------------------------------
(* The gate.                                                                *)

\* What neither moves a confirmation nor an approval that is open.
LEMMA GateQuiet ==
  ASSUME Claims, Accounts,
         UNCHANGED <<approval, claimedBy, pc, target, sends, undone, unsent>>
  PROVE  Claims' /\ Accounts'
  BY DEF Claims, Holding, Accounts, SendsAreAccounted

\* A proposal is open, and nobody has claimed it.
LEMMA ProposeKeeps ==
  ASSUME TypeOK, Claims, Accounts,
         NEW a \in Approvals, NEW e \in Events, NEW l \in Lists, Propose(a, e, l)
  PROVE  Claims' /\ Accounts'
<1>1. /\ UNCHANGED <<claimedBy, pc, target, sends, undone, unsent>>
      /\ approval[a] = "none" /\ approval'[a] = "open"
      /\ \A b \in Approvals \ {a} : approval'[b] = approval[b]
  BY DEF Propose, google, calls, ghost, TypeOK
<1>2. claimedBy[a] = NoId
  BY <1>1 DEF Claims
<1>3. Claims'
  BY <1>1, <1>2 DEF Claims, Holding
<1>4. Accounts'
  BY <1>1, <1>2 DEF Accounts, SendsAreAccounted
<1> QED BY <1>3, <1>4

\* A call that begins has claimed nothing.
LEMMA BeginKeeps ==
  ASSUME TypeOK, Claims, Accounts, NEW c \in Confirmers, NEW a \in Approvals, Begin(c, a)
  PROVE  Claims' /\ Accounts'
<1>1. /\ UNCHANGED <<approval, claimedBy, sends, undone, unsent>>
      /\ pc[c] = "idle" /\ pc'[c] = "claim" /\ target'[c] = a
      /\ \A d \in Confirmers \ {c} : pc'[d] = pc[d] /\ target'[d] = target[d]
  BY DEF Begin, google, table, ghost, TypeOK
<1>2. \A b \in Approvals : claimedBy[b] # c /\ claimedBy[b] \in Confirmers \cup {NoId}
  BY <1>1, InvitesAssumption DEF Claims, Holding, TypeOK
<1>3. Claims'
  BY <1>1, <1>2, InvitesAssumption DEF Claims, Holding
<1>4. Accounts'
  BY <1>1 DEF Accounts, SendsAreAccounted
<1> QED BY <1>3, <1>4

\* A claim takes an open approval that nobody holds, or nothing.
LEMMA ClaimKeeps ==
  ASSUME TypeOK, Claims, Accounts, NEW c \in Confirmers, Claim(c)
  PROVE  Claims' /\ Accounts'
<1> DEFINE a == target[c]
<1>1. /\ UNCHANGED <<approval, sends, undone, unsent>>
      /\ a \in Approvals /\ pc[c] = "claim" /\ claimedBy[a] = NoId
  BY DEF Claim, google, table, ghost, Claims
<1>2. \A b \in Approvals : claimedBy[b] # c /\ claimedBy[b] \in Confirmers \cup {NoId}
  BY <1>1, InvitesAssumption DEF Claims, Holding, TypeOK
<1>3. CASE approval[a] = "open" /\ a \notin stale[c]
  <2>1. /\ pc'[c] = "patch" /\ target' = target /\ claimedBy'[a] = c
        /\ \A d \in Confirmers \ {c} : pc'[d] = pc[d]
        /\ \A b \in Approvals \ {a} : claimedBy'[b] = claimedBy[b]
    BY <1>1, <1>3 DEF Claim, TypeOK
  <2>2. a \notin unsent /\ sends[a] = undone[a]
    <3>1. a \notin unsent
      BY <1>1, <1>3 DEF Accounts
    <3>2. undone[a] \in Nat
      BY <1>1 DEF TypeOK
    <3> QED BY <1>1, <1>3, <3>1, <3>2 DEF Accounts, SendsAreAccounted
  <2>3. Claims'
    <3>1. \A d \in Confirmers : pc[d] \in Holding => target[d] # a
      BY <1>1, InvitesAssumption DEF Claims
    <3> QED BY <1>1, <1>2, <1>3, <2>1, <3>1, InvitesAssumption DEF Claims, Holding
  <2>4. Accounts'
    BY <1>1, <2>1, <2>2, InvitesAssumption DEF Accounts, SendsAreAccounted
  <2> QED BY <2>3, <2>4
<1>4. CASE ~(approval[a] = "open" /\ a \notin stale[c])
  <2>1. /\ pc'[c] = "idle" /\ claimedBy' = claimedBy
        /\ \A d \in Confirmers \ {c} : pc'[d] = pc[d] /\ target'[d] = target[d]
    BY <1>1, <1>4 DEF Claim, Return, TypeOK
  <2>2. Claims'
    BY <1>1, <1>2, <2>1, InvitesAssumption DEF Claims, Holding
  <2>3. Accounts'
    BY <1>1, <2>1 DEF Accounts, SendsAreAccounted
  <2> QED BY <2>2, <2>3
<1> QED BY <1>3, <1>4

\* An answer of Google's that lets the call go on: sent, or no live grant.
LEMMA AnswerKeeps ==
  ASSUME TypeOK, Claims, Accounts, NEW c \in Confirmers, Patch(c) \/ NoGrant(c)
  PROVE  Claims' /\ Accounts'
<1> DEFINE a == target[c]
<1>1. /\ UNCHANGED <<approval, claimedBy, target, undone>>
      /\ pc[c] = "patch" /\ pc'[c] = "commit"
      /\ \A d \in Confirmers \ {c} : pc'[d] = pc[d]
  BY DEF Patch, NoGrant, table, ghost, TypeOK
<1>2. a \in Approvals /\ claimedBy[a] = c /\ sends[a] = undone[a] /\ a \notin unsent
      /\ sends[a] \in Nat
  BY <1>1 DEF Claims, Holding, Accounts, TypeOK
<1>3. /\ \A b \in Approvals \ {a} : sends'[b] = sends[b] /\ (b \in unsent' <=> b \in unsent)
      /\ sends'[a] = undone[a] + (IF a \in unsent' THEN 0 ELSE 1)
  <2>1. CASE Patch(c)
    BY <1>2, <2>1 DEF Patch, Invited, ghost, TypeOK
  <2>2. CASE NoGrant(c)
    BY <1>2, <2>2 DEF NoGrant, google, TypeOK
  <2> QED BY <2>1, <2>2
<1> HIDE DEF a
<1>4. Claims'
  <2>1. \A b \in Approvals : claimedBy[b] \in Confirmers \cup {NoId}
    BY DEF TypeOK
  <2> QED BY <1>1, <2>1 DEF Claims, Holding, a
<1>5. \A d \in Confirmers \ {c} : pc[d] \in Holding => target[d] # a /\ target[d] \in Approvals
  BY <1>2 DEF Claims, Holding
<1>6. Accounts'
  <2>1. SendsAreAccounted'
    BY <1>1, <1>2, <1>3, InvitesAssumption DEF Accounts, SendsAreAccounted
  <2>2. \A b \in Approvals : b \in unsent' /\ claimedBy[b] = NoId => approval[b] = "confirmed"
    BY <1>2, <1>3, InvitesAssumption DEF Accounts
  <2>3. \A d \in Confirmers :
          /\ pc'[d] = "patch" => sends'[target[d]] = undone[target[d]] /\ target[d] \notin unsent'
          /\ pc'[d] = "commit" => sends'[target[d]] = undone[target[d]]
                                    + (IF target[d] \in unsent' THEN 0 ELSE 1)
    BY <1>1, <1>3, <1>5 DEF Accounts, Holding, a
  <2> QED BY <1>1, <2>1, <2>2, <2>3 DEF Accounts
<1> QED BY <1>4, <1>6

\* A rollback frees what the call had claimed, and only a send that went out
\* before it counts as undone.
LEMMA RollbackKeeps ==
  ASSUME TypeOK, Claims, Accounts, NEW c \in Confirmers,
         PatchLost(c) \/ PatchFails(c) \/ Crash(c)
  PROVE  Claims' /\ Accounts'
<1> DEFINE a == target[c]
<1>1. /\ UNCHANGED approval /\ Rollback(c) /\ pc[c] # "idle" /\ a \in Approvals
      /\ pc'[c] = "idle" /\ claimedBy' = [b \in Approvals |-> IF claimedBy[b] = c THEN NoId ELSE claimedBy[b]]
      /\ unsent' = {b \in unsent : claimedBy[b] # c}
      /\ \A d \in Confirmers \ {c} : pc'[d] = pc[d] /\ target'[d] = target[d]
  BY DEF PatchLost, PatchFails, Crash, Rollback, Return, table, TypeOK, Claims
<1>2. /\ \A b \in Approvals : claimedBy[b] \in Confirmers \cup {NoId}
      /\ \A b \in Approvals : claimedBy[b] = c => b = a /\ pc[c] \in Holding /\ approval[b] = "open"
      /\ pc[c] \in Holding => claimedBy[a] = c
      /\ sends[a] \in Nat /\ undone[a] \in Nat
  BY <1>1, InvitesAssumption DEF Claims, TypeOK
<1>3. /\ \A b \in Approvals \ {a} : sends'[b] = sends[b] /\ undone'[b] = undone[b]
      /\ pc[c] \in Holding => sends'[a] = undone'[a] /\ undone'[a] \in Nat
      /\ pc[c] \notin Holding => sends'[a] = sends[a] /\ undone'[a] = undone[a]
  <2>1. pc[c] = "patch" => sends[a] = undone[a]
    BY DEF Accounts
  <2>2. pc[c] = "commit" => sends[a] = undone[a] + (IF a \in unsent THEN 0 ELSE 1)
    BY DEF Accounts
  <2>3. CASE PatchLost(c)
    <3>1. /\ pc[c] = "patch" /\ sends[a] = undone[a]
          /\ sends' = [sends EXCEPT ![a] = @ + 1] /\ undone' = [undone EXCEPT ![a] = @ + 1]
      BY <2>1, <2>3 DEF PatchLost, Invited
    <3> QED BY <1>1, <1>2, <3>1 DEF Holding, TypeOK
  <2>4. CASE PatchFails(c)
    BY <1>1, <1>2, <2>1, <2>4 DEF PatchFails, google, Holding, TypeOK
  <2>5. CASE Crash(c)
    BY <1>1, <1>2, <2>1, <2>2, <2>5 DEF Crash, google, Holding, TypeOK
  <2> QED BY <2>3, <2>4, <2>5
<1> HIDE DEF a
<1>4. Claims'
  <2>1. \A b \in Approvals : claimedBy'[b] # NoId => claimedBy[b] # c /\ claimedBy'[b] = claimedBy[b]
    BY <1>1
  <2>2. \A d \in Confirmers \ {c} : pc[d] \in Holding => claimedBy'[target[d]] = d
    BY <1>1, <1>2, InvitesAssumption DEF Claims, Holding
  <2> QED BY <1>1, <1>2, <2>1, <2>2 DEF Claims, Holding
<1>5. Accounts'
  <2>1. SendsAreAccounted'
    <3> SUFFICES ASSUME NEW b \in Approvals, claimedBy'[b] = NoId
                 PROVE  sends'[b] = undone'[b]
                          + (IF approval[b] = "confirmed" /\ b \notin unsent' THEN 1 ELSE 0)
      BY <1>1 DEF SendsAreAccounted
    <3>1. CASE claimedBy[b] = c
      BY <3>1, <1>1, <1>2, <1>3
    <3>2. CASE claimedBy[b] # c
      <4>1. claimedBy[b] = NoId /\ (b \in unsent' <=> b \in unsent)
        BY <3>2, <1>1
      <4>2. sends'[b] = sends[b] /\ undone'[b] = undone[b]
        BY <3>2, <1>2, <1>3
      <4> QED BY <4>1, <4>2 DEF Accounts, SendsAreAccounted
    <3> QED BY <3>1, <3>2
  <2>2. \A b \in Approvals : b \in unsent' /\ claimedBy'[b] = NoId => approval[b] = "confirmed"
    BY <1>1 DEF Accounts
  <2>3. \A d \in Confirmers \ {c} : pc[d] \in Holding =>
          /\ target[d] \in Approvals /\ claimedBy[target[d]] = d
          /\ target[d] = a => pc[c] \notin Holding
    BY <1>2 DEF Claims, Holding
  <2>4. \A d \in Confirmers :
          /\ pc'[d] = "patch" => sends'[target'[d]] = undone'[target'[d]] /\ target'[d] \notin unsent'
          /\ pc'[d] = "commit" => sends'[target'[d]] = undone'[target'[d]]
                                    + (IF target'[d] \in unsent' THEN 0 ELSE 1)
    <3> SUFFICES ASSUME NEW d \in Confirmers, pc'[d] \in Holding
                 PROVE  /\ pc'[d] = "patch" => sends'[target'[d]] = undone'[target'[d]]
                                               /\ target'[d] \notin unsent'
                        /\ pc'[d] = "commit" => sends'[target'[d]] = undone'[target'[d]]
                                                  + (IF target'[d] \in unsent' THEN 0 ELSE 1)
      BY DEF Holding
    <3>1. d # c /\ pc'[d] = pc[d] /\ target'[d] = target[d]
      BY <1>1 DEF Holding
    <3>2. /\ sends'[target[d]] = sends[target[d]] /\ undone'[target[d]] = undone[target[d]]
          /\ target[d] \in unsent' <=> target[d] \in unsent
      BY <1>1, <1>3, <2>3, <3>1
    <3> QED BY <3>1, <3>2 DEF Accounts
  <2> QED BY <1>1, <2>1, <2>2, <2>4 DEF Accounts
<1> QED BY <1>4, <1>5

\* The commit confirms what was claimed, sent or not.
LEMMA CommitKeeps ==
  ASSUME TypeOK, Claims, Accounts, NEW c \in Confirmers, Commit(c)
  PROVE  Claims' /\ Accounts'
<1> DEFINE a == target[c]
<1>1. /\ UNCHANGED <<sends, undone, unsent>>
      /\ pc[c] = "commit" /\ pc'[c] = "idle" /\ a \in Approvals /\ claimedBy[a] = c
      /\ approval'[a] = "confirmed" /\ claimedBy'[a] = NoId
      /\ \A b \in Approvals \ {a} : approval'[b] = approval[b] /\ claimedBy'[b] = claimedBy[b]
      /\ \A d \in Confirmers \ {c} : pc'[d] = pc[d] /\ target'[d] = target[d]
      /\ sends[a] = undone[a] + (IF a \in unsent THEN 0 ELSE 1)
  BY DEF Commit, Return, google, ghost, TypeOK, Claims, Holding, Accounts
<1>2. \A d \in Confirmers \ {c} : pc[d] \in Holding => target[d] # a /\ target[d] \in Approvals
  BY <1>1 DEF Claims, Holding
<1> HIDE DEF a
<1>3. Claims'
  <2>1. \A b \in Approvals : claimedBy[b] \in Confirmers \cup {NoId}
    BY DEF TypeOK
  <2>2. \A b \in Approvals \ {a} : claimedBy[b] # c
    BY <1>1, InvitesAssumption DEF Claims, a
  <2>3. \A b \in Approvals : claimedBy'[b] # NoId =>
          /\ pc'[claimedBy'[b]] \in Holding /\ target'[claimedBy'[b]] = b
          /\ approval'[b] = "open"
    BY <1>1, <2>1, <2>2 DEF Claims
  <2>4. \A d \in Confirmers : /\ pc'[d] # "idle" => target'[d] \in Approvals
                              /\ pc'[d] \in Holding => claimedBy'[target'[d]] = d
    BY <1>1, <1>2 DEF Claims, Holding
  <2> QED BY <2>3, <2>4 DEF Claims
<1>4. Accounts'
  <2>1. SendsAreAccounted'
    BY <1>1 DEF Accounts, SendsAreAccounted
  <2> QED BY <1>1, <1>2, <2>1 DEF Accounts, Holding
<1> QED BY <1>3, <1>4

-----------------------------------------------------------------------------
(* The links.                                                               *)

\* create_event links all that it was asked for or nothing, to a new event.
LEMMA CreateIsFresh ==
  ASSUME TypeOK, Fresh, Create
  PROVE  Fresh' /\ LinksMove
<1> USE InvitesAssumption
<1>1. link \in [Items -> Events \cup {NoId}] /\ linked \subseteq asked \cap Items
      /\ left \subseteq asked
  BY DEF TypeOK
<1>2. CASE ~Created
  <2>1. link' = link
    BY <1>2 DEF Create, CreateEvent, CreateLost, Post, CreateFails, Link, LinkFails, CreateCrash
  <2>2. LinksMove
    BY <2>1 DEF LinksMove, Linked, by_event_ids
  <2>3. ASSUME NEW e \in Events, Post(e), creating' \in {e, NoId}, linked' = {},
               left' = asked', creating' = NoId => left' = {}
        PROVE  Fresh'
    <3>1. calendar'[e] = "present" /\ calendar[e] = "absent"
          /\ \A d \in Events \ {e} : calendar'[d] = calendar[d]
      BY <2>3 DEF Post, TypeOK
    <3> QED BY <1>1, <2>1, <2>3, <3>1 DEF Fresh
  <2>4. ASSUME NEW e \in Events, CreateLost(e) \/ \E ids \in Requests : CreateEvent(e, ids)
        PROVE  Fresh'
    <3>1. /\ Post(e) /\ creating' \in {e, NoId} /\ linked' = {} /\ left' = asked'
          /\ creating' = NoId => left' = {}
      BY <2>4 DEF CreateLost, CreateEvent, Answer
    <3> QED BY <2>3, <3>1
  <2>5. CASE CreateFails \/ CreateCrash
    <3>1. calendar' = calendar /\ creating' = NoId /\ left' = {} /\ linked' = {}
      BY <2>5 DEF CreateFails, CreateCrash, Answer, google
    <3> QED BY <2>1, <2>2, <3>1 DEF Fresh
  <2>6. ASSUME NEW i \in left, Link(i) PROVE Fresh'
    <3>1. linked = (asked \ left) \cap Items /\ creating # NoId
      BY <2>6 DEF Fresh
    <3>2. linked' = (asked' \ left') \cap Items
      BY <1>1, <2>6, <3>1 DEF Link
    <3> QED BY <2>1, <2>6, <3>1, <3>2 DEF Link, google, Fresh
  <2>7. CASE LinkFails
    <3>1. calendar' = calendar /\ creating' = creating /\ left' = {} /\ linked' = {}
      BY <2>7 DEF LinkFails, google
    <3> QED BY <2>1, <2>2, <3>1 DEF Fresh
  <2> QED BY <1>2, <2>2, <2>4, <2>5, <2>6, <2>7 DEF Create
<1>3. CASE Created
  <2>1. /\ creating \in Events /\ calendar[creating] # "absent" /\ calendar' = calendar
        /\ creating' = NoId /\ asked' = {} /\ left' = {} /\ linked' = {}
    BY <1>3 DEF Created, Answer, google, Fresh, TypeOK
  <2>2. linked = asked \cap Items \/ linked = {}
    BY <1>3 DEF Created, Fresh
  <2>3. \A i \in Items : link'[i] = link[i] \/ (i \in linked /\ link'[i] = creating)
    BY <1>1, <1>3 DEF Created
  <2>4. \A i \in Items : link[i] # creating
    BY <2>1 DEF Fresh
  <2>5. Fresh'
    BY <1>1, <2>1, <2>3 DEF Fresh
  <2>6. ASSUME NEW e \in Events PROVE Linked(e)
    <3>1. CASE e # creating
      BY <2>3, <3>1 DEF Linked, by_event_ids
    <3>2. CASE e = creating /\ link' = link
      BY <3>2 DEF Linked, by_event_ids
    <3>3. CASE e = creating /\ link' # link
      <4>1. link' = [i \in Items |-> IF i \in linked THEN creating ELSE link[i]]
        BY <1>3, <3>3 DEF Created
      <4>2. by_event_ids({e})' = linked
        BY <1>1, <2>4, <3>3, <4>1 DEF by_event_ids
      <4>3. linked = asked \cap Items
        BY <2>2, <3>3, <4>1, <1>1
      <4> QED BY <3>3, <4>2, <4>3 DEF Linked
    <3> QED BY <3>1, <3>2, <3>3
  <2> QED BY <2>5, <2>6 DEF LinksMove
<1> QED BY <1>2, <1>3

\* No other step links anything.
LEMMA OthersAreFresh ==
  ASSUME TypeOK, Fresh, UNCHANGED events,
         \A e \in Events : calendar'[e] # calendar[e] => calendar'[e] # "absent"
  PROVE  Fresh' /\ LinksMove
<1>1. UNCHANGED <<link, creating, asked, left, linked>>
  BY DEF events, call
<1>2. LinksMove
  BY <1>1 DEF LinksMove, Linked, by_event_ids
<1>3. Fresh'
  BY <1>1 DEF Fresh, TypeOK
<1> QED BY <1>2, <1>3

-----------------------------------------------------------------------------
\* Every step keeps the invariant, and links no item but together with the
\* others that were asked for.
LEMMA GateStep == Gate /\ [Next]_vars => Gate' /\ LinksMove
<1> SUFFICES ASSUME Gate, [Next]_vars PROVE Gate' /\ LinksMove
  OBVIOUS
<1> USE DEF Gate
<1>1. TypeOK'
  BY TypedStep
<1>2. Claims' /\ Accounts'
  <2>1. CASE UNCHANGED vars \/ Create \/ (\E e \in Events : DeleteEvent(e))
             \/ (\E a \in Approvals : Expire(a))
    <3>1. UNCHANGED <<approval, claimedBy, pc, target, sends, undone, unsent>>
      BY <2>1
         DEF vars, google, table, calls, ghost, Create, CreateEvent, CreateLost, Post,
             CreateFails, Link, LinkFails, Created, CreateCrash, DeleteEvent, Expire
    <3> QED BY <3>1, GateQuiet
  <2>2. CASE \E a \in Approvals, e \in Events, l \in Lists : Propose(a, e, l)
    BY <2>2, ProposeKeeps
  <2>3. CASE \E c \in Confirmers, a \in Approvals : Begin(c, a)
    BY <2>3, BeginKeeps
  <2>4. CASE \E c \in Confirmers : Confirm(c) \/ Crash(c)
    BY <2>4, ClaimKeeps, AnswerKeeps, RollbackKeeps, CommitKeeps DEF Confirm
  <2> QED BY <2>1, <2>2, <2>3, <2>4 DEF Next
<1>3. Fresh' /\ LinksMove
  <2>1. CASE Create
    BY <2>1, CreateIsFresh
  <2>2. CASE ~Create
    <3>1. UNCHANGED events
      BY <2>2
         DEF Next, vars, DeleteEvent, Expire, Propose, Begin, Confirm, Claim, Patch, PatchLost,
             PatchFails, NoGrant, Commit, Crash, Rollback
    <3>2. \A e \in Events : calendar'[e] # calendar[e] => calendar'[e] # "absent"
      <4>1. CASE \E d \in Events : DeleteEvent(d)
        BY <4>1 DEF DeleteEvent, TypeOK
      <4>2. CASE ~(\E d \in Events : DeleteEvent(d))
        <5>1. calendar' = calendar
          BY <2>2, <4>2
             DEF Next, vars, google, Expire, Propose, Begin, Confirm, Claim, Patch, PatchLost,
                 PatchFails, NoGrant, Commit, Crash, Rollback, Invited
        <5> QED BY <5>1
      <4> QED BY <4>1, <4>2
    <3> QED BY <3>1, <3>2, OthersAreFresh
  <2> QED BY <2>1, <2>2
<1> QED BY <1>1, <1>2, <1>3

\* The guests of an event change to those of an approval claimed for it.
LEMMA GuestsStep == Gate /\ [Next]_vars => GuestsMove
<1> SUFFICES ASSUME Gate, [Next]_vars PROVE GuestsMove
  OBVIOUS
<1> USE DEF Gate
<1>1. ASSUME NEW c \in Confirmers, Patch(c) \/ PatchLost(c) PROVE GuestsMove
  <2> DEFINE a == target[c]
  <2>1. /\ pc[c] = "patch" /\ a \in Approvals /\ claimedBy[a] = c /\ c # NoId
        /\ guests' = [guests EXCEPT ![stored[a].event] = stored[a].emails]
    BY <1>1, InvitesAssumption DEF Patch, PatchLost, Invited, Claims, Holding
  <2>2. stored[a] \in [event : Events, emails : Lists]
    BY <2>1, InvitesAssumption DEF Claims, TypeOK
  <2>3. \A e \in Events : guests'[e] # guests[e] =>
          stored[a] = [event |-> e, emails |-> guests'[e]]
    BY <2>1, <2>2 DEF TypeOK
  <2> QED BY <2>1, <2>3 DEF GuestsMove
<1>2. CASE ~(\E c \in Confirmers : Patch(c) \/ PatchLost(c))
  <2>1. guests' = guests
    BY <1>2
       DEF Next, vars, google, Create, CreateEvent, CreateLost, Post, CreateFails, Link, LinkFails,
           Created, CreateCrash, DeleteEvent, Expire, Propose, Begin, Confirm, Claim, PatchFails,
           NoGrant, Commit, Crash
  <2> QED BY <2>1 DEF GuestsMove
<1> QED BY <1>1, <1>2

\* The invariant holds in every behaviour.
THEOREM GateHolds == Spec => []Gate
<1>1. Gate /\ [Next]_vars => Gate'
  BY GateStep
<1> QED BY GateInit, <1>1, PTL DEF Spec

\* Type correctness of the approvals, links and events.
THEOREM InvitesTypeCorrect == Spec => []TypeOK
<1>1. Gate => TypeOK
  BY DEF Gate
<1> QED BY GateHolds, <1>1, PTL

\* One confirmation of an approval sends, and a used approval was sent, but for
\* rollbacks after a send and grants that were gone (confirm_invite, claim).
THEOREM SentOnce == Spec => []SendsAreAccounted
<1>1. Gate => SendsAreAccounted
  BY DEF Gate, Accounts
<1> QED BY GateHolds, <1>1, PTL

\* Third parties are invited by an approved list only (confirm_invite,
\* add_attendees).
THEOREM GuestsAreApproved == Spec => InvitesAreApproved
<1>1. Gate /\ [Next]_vars => GuestsMove
  BY GuestsStep
<1> QED BY GateHolds, <1>1, PTL DEF Spec, InvitesAreApproved

\* The database and the calendar speak of the same items (create_event,
\* set_calendar_event).
THEOREM DirectionsAgree == Spec => LinksAgree
<1>1. Gate /\ [Next]_vars => LinksMove
  BY GateStep
<1> QED BY GateHolds, <1>1, PTL DEF Spec, LinksAgree

\* While an event is being made and linked, nothing has been answered.
Untold == creating # NoId => told = "nothing"

\* A call that has made an event never answers that it failed (create_event).
THEOREM MadeIsNotDenied == Spec => MadeIsTold
<1>1. Init => Untold
  BY DEF Init, Untold
<1>2. Untold /\ [Next]_vars => Untold' /\ [NotDenied]_vars
  <2> SUFFICES ASSUME Untold, [Next]_vars PROVE Untold' /\ NotDenied
    OBVIOUS
  <2>1. CASE Create
    BY <2>1 DEF Create, CreateEvent, CreateLost, Post, Idle, CreateFails, Link, LinkFails, Created,
                CreateCrash, Answer, Untold, NotDenied
  <2>2. CASE UNCHANGED events
    BY <2>2 DEF events, call, Untold, NotDenied
  <2>3. [Next]_vars => Create \/ UNCHANGED events
    BY DEF Next, DeleteEvent, Expire, Propose, Begin, Confirm, Claim, Patch, PatchLost, PatchFails,
           NoGrant, Commit, Crash, Rollback, vars
  <2> QED BY <2>1, <2>2, <2>3
<1> QED BY <1>1, <1>2, PTL DEF Spec, MadeIsTold
=============================================================================
