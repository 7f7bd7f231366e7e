------------------------- MODULE GoogleGrantProofs -------------------------
(***************************************************************************)
(* Theorems of GoogleGrant, for any number of consents, digest runs and    *)
(* crashes.                                                                *)
(*                                                                         *)
(* That a lapse is announced once holds whatever overlaps: until the stamp *)
(* is there, the notices of the grant in the row are all rolled back, but  *)
(* for one that the digest has in hand (Counted), and a grant that is      *)
(* stored has never been announced (Fresh).  What is written by user alone *)
(* is about the grant in the row unless that grant crossed a call that was *)
(* at work: every other call read the grant that it writes about (Steady,  *)
(* Told).                                                                  *)
(***************************************************************************)
EXTENDS GoogleGrant, TLAPS

Noting == {"send", "stamp"}
Reading == {"asking", "revoking"}

\* Only the digest decides and announces; a call that asks holds a grant.
Placed ==
  /\ pc["tool"] \notin {"decide"} \cup Noting
  /\ pc["digest"] \in Noting => held["digest"] \in 1..token

\* Grants to come, and the one at the callback, are newer than the row's.
Fresh ==
  /\ token <= consents /\ exchanged <= consents
  /\ exchanged # NoGrant => token < exchanged /\ notices[exchanged] = 0
  /\ \A g \in Grants : g > consents => notices[g] = 0

Counted ==
  LET h == held["digest"] IN
  /\ AnnouncedOnce
  /\ pc["digest"] = "send" => notices[h] <= undone[h]
  /\ token # NoGrant /\ ~notified /\ ~(pc["digest"] = "stamp" /\ h = token) =>
       notices[token] <= undone[token]

Sound == TypeOK /\ Placed /\ Fresh /\ Counted

\* No grant, no call.
LEMMA SoundInit == Init => Sound
<1> SUFFICES ASSUME Init PROVE Sound
  OBVIOUS
<1> USE GrantAssumption DEF Init, NoGrant, Grants
<1>1. TypeOK
  <2>1. /\ pc \in [Callers -> Places] /\ held \in [Callers -> Grants \cup {NoGrant}]
        /\ notices \in [Grants -> Nat] /\ undone \in [Grants -> Nat]
    BY DEF Places
  <2>2. consents \in 0..MaxGrants /\ crashes \in 0..MaxCrashes
    BY DEF GrantAssumption
  <2> QED BY <2>1, <2>2 DEF TypeOK
<1>2. Placed /\ Fresh
  BY DEF Placed, Noting, Fresh, Callers
<1>3. Counted
  BY DEF Counted, AnnouncedOnce, Callers
<1> QED BY <1>1, <1>2, <1>3 DEF Sound

-----------------------------------------------------------------------------
(* Once.                                                                    *)

\* Google and the callback.
LEMMA ConsentKeeps ==
  ASSUME Sound, Consent \/ Upsert \/ Disconnect
  PROVE  Sound'
<1> USE GrantAssumption DEF Sound, Grants, NoGrant
<1>1. CASE Consent
  <2>1. consents + 1 \in Grants
    BY <1>1 DEF Consent, TypeOK
  <2>2. TypeOK'
    BY <1>1, <2>1 DEF Consent, TypeOK, row, said
  <2>3. Placed' /\ Counted'
    BY <1>1 DEF Consent, Placed, Counted, AnnouncedOnce, row, said
  <2>4. Fresh'
    BY <1>1, <2>1 DEF Consent, Fresh, TypeOK, row, said
  <2> QED BY <2>2, <2>3, <2>4
<1>2. CASE Upsert
  <2>1. TypeOK'
    BY <1>2 DEF Upsert, TypeOK, said
  <2>4. Fresh'
    BY <1>2 DEF Upsert, TypeOK, Fresh, said
  <2>2. Placed'
    BY <1>2 DEF Upsert, TypeOK, Fresh, Placed, said, Noting
  <2>3. Counted'
    BY <1>2 DEF Upsert, TypeOK, Fresh, Placed, Counted, AnnouncedOnce, said, Noting
  <2> QED BY <2>1, <2>2, <2>3, <2>4
<1>3. CASE Disconnect
  BY <1>3 DEF Disconnect, TypeOK, Fresh, Placed, Counted, AnnouncedOnce, row, said
<1> QED BY <1>1, <1>2, <1>3

\* A call up to its end: nothing is announced and no grant changes.
LEMMA CallKeeps ==
  ASSUME Sound, NEW c \in Callers, Call(c)
  PROVE  Sound'
<1> USE GrantAssumption DEF Sound
<1>1. /\ UNCHANGED <<token, notified, consents, exchanged, crossed, valid, said>>
      /\ pc' \in [Callers -> Places] /\ pc'[c] \notin Noting /\ pc[c] \notin Noting
      /\ c = "tool" => pc'[c] # "decide"
      /\ \A b \in Callers \ {c} : pc'[b] = pc[b]
  BY DEF Call, Start, Answer, Revoke, Refused, Commit, Goto, row, TypeOK, Callers, Places, Noting
<1>2. /\ held' \in [Callers -> Grants \cup {NoGrant}]
      /\ \A b \in Callers \ {c} : held'[b] = held[b]
      /\ revoked' \in BOOLEAN /\ lock' \in Callers \cup {"none"}
  BY DEF Call, Start, Answer, Revoke, Refused, Commit, SeesRevoked, row, TypeOK
<1>3. TypeOK' /\ Fresh'
  BY <1>1, <1>2 DEF TypeOK, Fresh, said
<1>4. Placed' /\ Counted'
  <2>1. "digest" \in Callers /\ "tool" \in Callers
    BY DEF Callers
  <2>2. pc'["digest"] \in Noting => pc'["digest"] = pc["digest"] /\ held'["digest"] = held["digest"]
    BY <1>1, <1>2, <2>1
  <2>3. pc["digest"] \in Noting => pc'["digest"] = pc["digest"] /\ held'["digest"] = held["digest"]
    BY <1>1, <1>2, <2>1
  <2>4. pc'["tool"] \notin {"decide"} \cup Noting
    BY <1>1, <2>1 DEF Placed
  <2> QED BY <1>1, <2>2, <2>3, <2>4 DEF Placed, Counted, AnnouncedOnce, said, Noting
<1> QED BY <1>3, <1>4

\* The digest's notice.
LEMMA NoticeKeeps ==
  ASSUME Sound, Notice
  PROVE  Sound'
<1> USE GrantAssumption DEF Sound, Callers
<1> DEFINE h == held["digest"]
<1>1. CASE Decide
  <2>1. /\ held'["digest"] = token /\ held'["tool"] = held["tool"] /\ pc'["tool"] = pc["tool"]
        /\ pc["digest"] = "decide" /\ pc'["digest"] \in {"send", "commit"}
        /\ pc'["digest"] = "send" => token # NoGrant /\ ~notified
        /\ UNCHANGED <<row, lock, consents, exchanged, crossed, valid, said>>
    BY <1>1 DEF Decide, Goto, TypeOK, Places
  <2>2. TypeOK' /\ Fresh'
    BY <1>1, <2>1 DEF Decide, Goto, TypeOK, Places, Fresh, row, said
  <2>3. Placed'
    BY <2>1 DEF Placed, Noting, TypeOK, Grants, NoGrant, row
  <2>4. Counted'
    BY <2>1 DEF Counted, AnnouncedOnce, row, said
  <2> QED BY <2>2, <2>3, <2>4
<1>2. CASE SendNotice
  <2>1. h \in 1..token /\ h \in Grants
    BY <1>2 DEF SendNotice, Placed, Noting, TypeOK, Grants, NoGrant
  <2>2. /\ UNCHANGED <<row, consents, exchanged, crossed, valid, held, crashes>>
        /\ pc["digest"] = "send" /\ pc'["tool"] = pc["tool"]
        /\ \/ pc'["digest"] = "stamp" /\ UNCHANGED undone
           \/ pc'["digest"] = "idle" /\ undone' = [undone EXCEPT ![h] = @ + 1]
        /\ notices' = [notices EXCEPT ![h] = @ + 1]
    BY <1>2 DEF SendNotice, Goto, TypeOK
  <2>3. TypeOK'
    BY <1>2, <2>1 DEF SendNotice, Goto, TypeOK, Places, row
  <2>4. Placed' /\ Fresh'
    BY <2>1, <2>2 DEF Placed, Fresh, Noting, TypeOK, Grants, NoGrant, row
  <2>5. Counted'
    <3>1. notices[h] \in Nat /\ undone[h] \in Nat /\ notices[h] <= undone[h]
      BY <2>1, <2>2 DEF TypeOK, Counted
    <3>2. \A g \in Grants : /\ notices'[g] = IF g = h THEN notices[g] + 1 ELSE notices[g]
                            /\ undone'[g] \in {undone[g], IF g = h THEN undone[g] + 1 ELSE undone[g]}
      BY <2>1, <2>2 DEF TypeOK
    <3>3. pc'["digest"] = "idle" => undone'[h] = undone[h] + 1
      BY <2>1, <2>2 DEF TypeOK
    <3>4. AnnouncedOnce'
      BY <3>1, <3>2, <2>1 DEF AnnouncedOnce, Counted
    <3> QED BY <2>1, <2>2, <3>1, <3>2, <3>3, <3>4 DEF Counted, TypeOK, row
  <2> QED BY <2>3, <2>4, <2>5
<1>3. CASE SendRejected
  BY <1>3 DEF SendRejected, Goto, TypeOK, Places, Fresh, Placed, Noting, Counted, AnnouncedOnce,
              row, said
<1>4. CASE Stamp
  BY <1>4 DEF Stamp, SeesRevoked, Goto, TypeOK, Places, Fresh, Placed, Noting, Counted,
              AnnouncedOnce, said
<1> QED BY <1>1, <1>2, <1>3, <1>4 DEF Notice

\* A crash rolls a notice that arrived back.
LEMMA AbortKeeps ==
  ASSUME Sound, NEW c \in Callers, Abort(c)
  PROVE  Sound'
<1> USE GrantAssumption DEF Sound
<1>0. "digest" \in Callers /\ "tool" \in Callers /\ c \in {"digest", "tool"}
  BY DEF Callers
<1>1. /\ UNCHANGED <<row, consents, exchanged, crossed, valid, held, notices>>
      /\ pc'[c] = "idle" /\ \A b \in Callers \ {c} : pc'[b] = pc[b]
  BY DEF Abort, Goto, TypeOK
<1>2. CASE pc[c] # "stamp"
  <2>1. UNCHANGED undone
    BY <1>2 DEF Abort
  <2>2. TypeOK' /\ Fresh'
    <3>1. crashes' \in 0..MaxCrashes
      BY DEF Abort, TypeOK
    <3> QED BY <1>1, <2>1, <3>1 DEF Abort, Goto, TypeOK, Places, Fresh, row
  <2>3. /\ pc'["digest"] \in Noting => pc'["digest"] = pc["digest"]
        /\ pc["digest"] = "stamp" => pc'["digest"] = pc["digest"]
        /\ pc'["tool"] \notin {"decide"} \cup Noting
    BY <1>0, <1>1, <1>2 DEF Placed, Noting
  <2> QED BY <1>1, <2>1, <2>2, <2>3 DEF Placed, Noting, Counted, AnnouncedOnce, row
<1>3. CASE pc[c] = "stamp"
  <2> DEFINE h == held["digest"]
  <2>1. c = "digest" /\ h \in Grants
    BY <1>0, <1>3 DEF Placed, Noting, TypeOK, Grants, NoGrant
  <2>2. undone' = [undone EXCEPT ![h] = @ + 1]
    BY <1>3, <2>1 DEF Abort
  <2>3. TypeOK' /\ Fresh' /\ Placed'
    BY <1>0, <1>1, <2>1, <2>2 DEF Abort, Goto, TypeOK, Places, Fresh, Placed, Noting, row
  <2>4. \A g \in Grants : undone'[g] = IF g = h THEN undone[g] + 1 ELSE undone[g]
    BY <2>2 DEF TypeOK
  <2>5. AnnouncedOnce' /\ notices'[h] <= undone'[h]
    BY <1>1, <2>1, <2>4 DEF Counted, AnnouncedOnce, TypeOK
  <2>6. token # NoGrant => token \in Grants
    BY DEF TypeOK
  <2>7. Counted'
    BY <1>1, <1>3, <2>1, <2>4, <2>5, <2>6 DEF Counted, TypeOK, row
  <2> QED BY <2>3, <2>7
<1> QED BY <1>2, <1>3

\* Every step keeps the invariant.
LEMMA SoundStep == Sound /\ [Next]_vars => Sound'
<1>1. Sound /\ UNCHANGED vars => Sound'
  BY DEF Sound, vars, row, said, TypeOK, Placed, Fresh, Counted, AnnouncedOnce
<1> QED BY <1>1, ConsentKeeps, CallKeeps, NoticeKeeps, AbortKeeps DEF Next

\* Every variable keeps its type.
THEOREM GrantTypeCorrect == Spec => []TypeOK
<1>1. Sound => TypeOK
  BY DEF Sound
<1> QED BY SoundInit, SoundStep, <1>1, PTL DEF Spec

\* A lapse is announced once, and again only for each notice that could not be
\* recorded: even when the user reconnects during a call, as nothing here
\* assumes otherwise.
THEOREM LapsesAreSaidOnce == Spec => []AnnouncedOnce
<1>1. Sound => AnnouncedOnce
  BY DEF Sound, Counted
<1> QED BY SoundInit, SoundStep, <1>1, PTL DEF Spec

-----------------------------------------------------------------------------
(* A grant that crossed no call.                                            *)

\* An update in an open transaction is about the grant in the row, and that
\* grant is dead.
Steady ==
  /\ \A c \in Callers : lock = c => pc[c] \in {"decide", "commit"} \cup Noting
  /\ token \notin crossed => \A c \in Callers :
       /\ pc[c] \in Reading => held[c] = token
       /\ pc[c] = "revoking" \/ lock = c => token \notin valid
  /\ RevokedIsDead

\* A notice in hand is of the grant in the row, which is revoked.
Told ==
  /\ token \notin crossed =>
       /\ pc["digest"] \in Noting => held["digest"] = token /\ SeesRevoked("digest")
       /\ pc["digest"] = "stamp" => notices[token] > 0
  /\ StampIsOfThisGrant

Apart == Sound /\ Steady /\ Told

\* No grant, no call.
LEMMA ApartInit == Init => Apart
  BY SoundInit DEF Init, Apart, Steady, Told, Callers, Reading, Noting, NoGrant, RevokedIsDead,
     StampIsOfThisGrant

\* A grant is stored while no call is at work, or it has crossed one.
LEMMA ConsentApart ==
  ASSUME Apart, Consent \/ Upsert \/ Disconnect
  PROVE  Steady' /\ Told'
<1>1. CASE Consent
  <2>1. token \notin valid => token \notin valid'
    BY <1>1 DEF Consent, Apart, Sound, TypeOK, Fresh, Grants, NoGrant
  <2>2. UNCHANGED <<token, revoked, notified, lock, crossed, pc, held, notices>>
    BY <1>1 DEF Consent, row, said
  <2>3. Steady'
    BY <2>1, <2>2 DEF Apart, Steady, RevokedIsDead, Reading
  <2>4. Told'
    BY <2>2 DEF Apart, Told, SeesRevoked, StampIsOfThisGrant, Noting
  <2> QED BY <2>3, <2>4
<1>2. CASE Upsert
  <2>1. /\ lock = "none" /\ lock' = "none" /\ ~revoked' /\ ~notified'
        /\ UNCHANGED <<pc, held>>
    BY <1>2 DEF Upsert
  <2>2. ASSUME token' \notin crossed' PROVE \A c \in Callers : ~AtWork(c)
    BY <1>2, <2>2 DEF Upsert
  <2>3. \A c \in Callers : c # "none"
    BY DEF Callers
  <2>4. Steady'
    BY <2>1, <2>2, <2>3 DEF Steady, RevokedIsDead, Reading, AtWork
  <2>5. Told'
    BY <2>1, <2>2 DEF Told, StampIsOfThisGrant, Noting, AtWork, Callers
  <2> QED BY <2>4, <2>5
<1>3. CASE Disconnect
  BY <1>3 DEF Disconnect, Apart, Steady, Told, SeesRevoked, RevokedIsDead, StampIsOfThisGrant,
              row, said
<1> QED BY <1>1, <1>2, <1>3

\* A call before its end: it writes about the grant that it read.
LEMMA CallApart ==
  ASSUME Apart, NEW c \in Callers, Call(c)
  PROVE  Steady' /\ Told'
<1> USE DEF Apart, Sound
<1>0. "digest" \in Callers /\ "tool" \in Callers /\ c \in {"digest", "tool"}
  BY DEF Callers
<1>1. /\ UNCHANGED <<token, notified, consents, exchanged, crossed, valid, said>>
      /\ pc' \in [Callers -> Places] /\ pc'[c] \notin Noting /\ pc[c] \notin Noting
      /\ \A b \in Callers \ {c} : pc'[b] = pc[b] /\ held'[b] = held[b]
  BY DEF Call, Start, Answer, Revoke, Refused, Commit, Goto, row, TypeOK, Callers, Places, Noting,
         Steady
<1>2. token \notin crossed =>
        /\ pc'[c] \in Reading => held'[c] = token
        /\ pc'[c] = "revoking" => token \notin valid
  BY <1>1 DEF Call, Start, Answer, Revoke, Refused, Commit, Goto, row, TypeOK, Reading, Steady
<1>3. \A b \in Callers : lock' = b =>
        /\ pc'[b] \in {"decide", "commit"} \cup Noting
        /\ token \notin crossed => token \notin valid
  BY <1>0, <1>1 DEF Call, Start, Answer, Revoke, Refused, Commit, Goto, row, TypeOK, Steady, Noting,
                    Callers
<1>4. revoked' /\ token \notin crossed => token \notin valid
  BY <1>1 DEF Call, Start, Answer, Revoke, Refused, Commit, SeesRevoked, row, Steady, RevokedIsDead
<1>5. Steady'
  <2>1. ASSUME NEW b \in Callers, token \notin crossed
        PROVE  /\ pc'[b] \in Reading => held'[b] = token
               /\ pc'[b] = "revoking" => token \notin valid
    <3>1. CASE b = c
      BY <1>2, <2>1, <3>1
    <3>2. CASE b # c
      BY <1>1, <2>1, <3>2 DEF Steady
    <3> QED BY <3>1, <3>2
  <2>2. RevokedIsDead'
    BY <1>1, <1>4 DEF RevokedIsDead
  <2> QED BY <1>1, <1>3, <2>1, <2>2 DEF Steady
<1>6. revoked => revoked'
  BY DEF Call, Start, Answer, Revoke, Refused, Commit, SeesRevoked, row
<1>7. pc["digest"] \in Noting /\ SeesRevoked("digest") => SeesRevoked("digest")'
  BY <1>0, <1>1, <1>6 DEF Call, Start, Answer, Revoke, Refused, Commit, SeesRevoked, row, Noting
<1>8. Told'
  BY <1>0, <1>1, <1>6, <1>7 DEF Told, StampIsOfThisGrant, said, Noting
<1> QED BY <1>5, <1>8

\* The digest's notice is of the grant it looked at.
LEMMA NoticeApart ==
  ASSUME Apart, Notice
  PROVE  Steady' /\ Told'
<1> USE DEF Apart, Sound, Callers
<1>1. CASE Decide
  <2>1. /\ held'["digest"] = token /\ held'["tool"] = held["tool"] /\ pc'["tool"] = pc["tool"]
        /\ pc["digest"] = "decide" /\ pc'["digest"] \in {"send", "commit"}
        /\ pc'["digest"] = "send" => SeesRevoked("digest")
        /\ UNCHANGED <<row, lock, consents, exchanged, crossed, valid, said>>
    BY <1>1 DEF Decide, Goto, TypeOK, Places
  <2>2. Steady'
    BY <2>1 DEF Steady, Reading, Noting, RevokedIsDead, row
  <2>3. Told'
    BY <2>1 DEF Told, SeesRevoked, StampIsOfThisGrant, Noting, row, said
  <2> QED BY <2>2, <2>3
<1>2. CASE SendNotice
  <2> DEFINE h == held["digest"]
  <2>1. h \in Grants /\ (token \notin crossed => h = token)
    BY <1>2 DEF SendNotice, Placed, Noting, TypeOK, Grants, NoGrant, Told
  <2>2. /\ UNCHANGED <<row, consents, exchanged, crossed, valid, held>>
        /\ pc["digest"] = "send" /\ pc'["tool"] = pc["tool"]
        /\ \/ pc'["digest"] = "stamp" /\ UNCHANGED lock
           \/ pc'["digest"] = "idle" /\ lock' = IF lock = "digest" THEN "none" ELSE lock
        /\ notices' = [notices EXCEPT ![h] = @ + 1]
    BY <1>2, <2>1 DEF SendNotice, Goto, TypeOK
  <2>3. Steady'
    BY <2>2 DEF Steady, Reading, Noting, RevokedIsDead, row
  <2>4. notices'[h] > 0 /\ \A g \in Grants : notices[g] > 0 => notices'[g] > 0
    BY <2>1, <2>2 DEF TypeOK
  <2>5. token # NoGrant => token \in Grants
    BY DEF TypeOK
  <2>7. Told'
    BY <2>1, <2>2, <2>4, <2>5 DEF Told, SeesRevoked, StampIsOfThisGrant, Noting, row
  <2> QED BY <2>3, <2>7
<1>3. CASE SendRejected
  BY <1>3 DEF SendRejected, Goto, TypeOK, Places, Steady, Told, Reading, Noting, SeesRevoked,
              RevokedIsDead, StampIsOfThisGrant, row, said
<1>4. CASE Stamp
  <2>1. /\ pc["digest"] = "stamp" /\ pc'["digest"] = "idle" /\ pc'["tool"] = pc["tool"]
        /\ lock \in {"none", "digest"} /\ lock' = "none" /\ revoked' = SeesRevoked("digest")
        /\ UNCHANGED <<token, consents, exchanged, crossed, valid, held, said>>
    BY <1>4 DEF Stamp, Goto, TypeOK
  <2>2. token \notin crossed => revoked' /\ notices[token] > 0
    BY <2>1 DEF Told, Noting
  <2>3. revoked' /\ token \notin crossed => token \notin valid
    BY <2>1 DEF SeesRevoked, Steady, RevokedIsDead
  <2>4. Steady'
    BY <2>1, <2>3 DEF Steady, Reading, Noting, RevokedIsDead
  <2>5. Told'
    BY <2>1, <2>2 DEF Told, Noting, StampIsOfThisGrant, said
  <2> QED BY <2>4, <2>5
<1> QED BY <1>1, <1>2, <1>3, <1>4 DEF Notice

\* A crash lets the row as it was committed.
LEMMA AbortApart ==
  ASSUME Apart, NEW c \in Callers, Abort(c)
  PROVE  Steady' /\ Told'
<1>1. /\ UNCHANGED <<row, consents, exchanged, crossed, valid, held, notices>>
      /\ pc'[c] = "idle" /\ \A b \in Callers \ {c} : pc'[b] = pc[b]
      /\ lock' = IF lock = c THEN "none" ELSE lock
      /\ c \in {"tool", "digest"}
  BY DEF Abort, Goto, Apart, Sound, TypeOK, Callers
<1>2. Steady'
  BY <1>1 DEF Apart, Steady, Reading, Noting, RevokedIsDead, Callers, row
<1>3. Told'
  BY <1>1 DEF Apart, Told, SeesRevoked, Noting, StampIsOfThisGrant, Callers, row
<1> QED BY <1>2, <1>3

\* Every step keeps the invariant.
LEMMA ApartStep == Apart /\ [Next]_vars => Apart'
<1>1. Apart /\ UNCHANGED vars => Steady' /\ Told'
  BY DEF Apart, Steady, Told, SeesRevoked, RevokedIsDead, StampIsOfThisGrant, vars, row, said
<1>2. Apart => Sound
  BY DEF Apart
<1>3. Apart /\ [Next]_vars => Steady' /\ Told'
  BY <1>1, ConsentApart, CallApart, NoticeApart, AbortApart DEF Next
<1> QED BY <1>2, <1>3, SoundStep DEF Apart

\* However calls, reconnects and crashes interleave, a grant is marked revoked
\* while Google honours it only if it was stored while a call about an earlier
\* one was at work (google.access_token, google_accounts.revoke).
THEOREM RevocationsAreRight == Spec => []RevokedIsDead
<1>1. Apart => RevokedIsDead
  BY DEF Apart, Steady
<1> QED BY ApartInit, ApartStep, <1>1, PTL DEF Spec

\* And likewise for the stamp that silences the notice: it is of a notice that
\* arrived about that grant (send_digest, mark_revoked_notified).
THEOREM StampsAreOfTheGrant == Spec => []StampIsOfThisGrant
<1>1. Apart => StampIsOfThisGrant
  BY DEF Apart, Told
<1> QED BY ApartInit, ApartStep, <1>1, PTL DEF Spec
=============================================================================
