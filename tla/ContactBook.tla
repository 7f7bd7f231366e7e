---------------------------- MODULE ContactBook ----------------------------
(***************************************************************************)
(* The rows of one person in the shared contact book, and who can read     *)
(* what is filed about her: create_lead and save_meeting, each of which    *)
(* starts with get_or_create by name; set_meeting_visibility; and `admin   *)
(* merge-contacts` (contacts.merge), which folds a duplicate row into      *)
(* another and deletes it.                                                 *)
(*                                                                         *)
(* Each of them is one transaction (READ COMMITTED) of several statements; *)
(* what one writes is seen by others at its commit.  A record that names a *)
(* contact holds a share of the contact's row until its transaction ends,  *)
(* so the DELETE of that row waits for it; the foreign keys then cascade   *)
(* to what still names the row.  A statement that has to wait is taken to  *)
(* see what is committed when it goes on.  A meeting is with this one      *)
(* person, leaves a commitment, and something was learned of her           *)
(* (profile_update).                                                       *)
(***************************************************************************)
EXTENDS Naturals, FiniteSets

CONSTANTS
  Contacts,  \* ids of rows that carry this person's name
  Private,   \* those that only their owner sees; the others are org-visible
  Meetings,  \* calls of save_meeting
  Leads,     \* calls of create_lead
  Confided,  \* the filings whose `private` argument is true
  Reclassified, \* meetings that their owner may reclassify, any number of times
  Merges,    \* merge-contacts commands
  Hers,      \* filings by the owner of the private rows, and merges run --as her
  MaxFiled   \* bound: filings made

Filings == Meetings \cup Leads
Unfiled == "unfiled"
Lost == "lost"
NoContact == "no contact"

ASSUME ContactBookAssumption ==
  /\ Private \subseteq Contacts
  /\ Meetings \cap Leads = {} /\ Reclassified \subseteq Meetings
  /\ Confided \subseteq Filings /\ Hers \subseteq Filings \cup Merges
  /\ {Unfiled, Lost, NoContact} \cap Contacts = {}
  /\ Filings \cap Merges = {} /\ MaxFiled \in Nat

\* Where a filing names the contact: the row of the lead, or the meeting's
\* commitment; the meeting's link; the memory chunk; the profile.
Parts == {"row", "link", "chunk", "fact"}
Records == Filings \X Parts

VARIABLES
  alive,      \* committed rows
  dead,       \* rows whose deletion is committed
  at,         \* [Records -> Contacts \cup {Unfiled, Lost}]: committed
  visibility, \* [Filings -> Visibilities]: of the lead or the meeting
  derived,    \* [Filings -> Visibilities]: of the meeting's chunk and commitment
  onRecord,   \* filings whose owner has shown them to the company
  fpc,        \* [Filings -> FilingPlaces]
  chosen,     \* [Filings -> [Parts -> Contacts \cup {NoContact}]]
  mpc,        \* [Merges -> MergePlaces]
  pair,       \* [Merges -> [src, dst : Contacts \cup {NoContact}]]
  moved,      \* [Merges -> SUBSET Records]: repointed, uncommitted
  folded,     \* open merges that have updated their target's profile
  merged,     \* merges that reported True
  missed,     \* history, [Merges -> SUBSET Records]: came to its source too late
  bereft      \* history: merges whose target another one deleted while they were open

book == <<alive, dead, at>>
reads == <<visibility, derived, onRecord>>
filing == <<fpc, chosen>>
merging == <<mpc, pair, moved, folded, merged, bereft>>
vars == <<book, reads, filing, merging, missed>>

Visibilities == {Unfiled, "org", "private"}
FilingPlaces == {"new", "insert", "again", "derive", "commit", "done"}
OpenPlaces == {"leads", "commitments", "chunks", "links", "unlink", "fold", "delete", "commit"}
MergePlaces == OpenPlaces \cup {"idle", "done"}
OpenFiling(f) == fpc[f] \notin {"new", "done"}
OpenMerge(m) == mpc[m] \in OpenPlaces
\* visible(): o is a filing or a merge.
SeesRow(o, c) == c \notin Private \/ o \in Hers

\* Mutant of Written: what was learned in confidence is merged like the rest.
WrittenPublished(f) == IF f \in Leads THEN {"row"} ELSE Parts

\* What a filing writes.  A private meeting keeps what was learned in its own
\* raw_input and chunk (_private_profile_notes).
Written(f) == IF f \in Leads THEN {"row"}
              ELSE IF f \in Confided THEN Parts \ {"fact"} ELSE Parts

TypeOK ==
  /\ alive \subseteq Contacts /\ dead \subseteq Contacts
  /\ at \in [Records -> Contacts \cup {Unfiled, Lost}]
  /\ visibility \in [Filings -> Visibilities] /\ derived \in [Filings -> Visibilities]
  /\ onRecord \subseteq Filings
  /\ fpc \in [Filings -> FilingPlaces]
  /\ chosen \in [Filings -> [Parts -> Contacts \cup {NoContact}]]
  /\ mpc \in [Merges -> MergePlaces]
  /\ pair \in [Merges -> [src : Contacts \cup {NoContact}, dst : Contacts \cup {NoContact}]]
  /\ moved \in [Merges -> SUBSET Records] /\ missed \in [Merges -> SUBSET Records]
  /\ folded \subseteq Merges /\ merged \subseteq Merges /\ bereft \subseteq Merges

\* Some rows exist already, a private one among them if there is any.
Init ==
  /\ alive \in {s \in SUBSET Contacts : Private \subseteq s}
  /\ dead = {}
  /\ at = [x \in Records |-> Unfiled]
  /\ visibility = [f \in Filings |-> Unfiled] /\ derived = visibility
  /\ onRecord = {}
  /\ fpc = [f \in Filings |-> "new"]
  /\ chosen = [f \in Filings |-> [p \in Parts |-> NoContact]]
  /\ mpc = [m \in Merges |-> "idle"]
  /\ pair = [m \in Merges |-> [src |-> NoContact, dst |-> NoContact]]
  /\ moved = [m \in Merges |-> {}] /\ missed = moved
  /\ folded = {} /\ merged = {} /\ bereft = {}

-----------------------------------------------------------------------------
(* Filing.                                                                  *)

Close(f) == /\ fpc' = [fpc EXCEPT ![f] = "done"]
            /\ chosen' = [chosen EXCEPT ![f] = [p \in Parts |-> NoContact]]

\* A merge has deleted row c, uncommitted; or has folded another into it; or
\* holds a share of it by the records that it has pointed there.
Deleting(m, c) == mpc[m] = "commit" /\ pair[m].src = c
Folding(m, c) == m \in folded /\ pair[m].dst = c
Sharing(m, c) == pair[m].dst = c /\ \E x \in moved[m] : x[2] # "fact"

\* It has changed or deleted, uncommitted, some of the records xs.  A link that
\* it has copied is as it was until "unlink".
Changing(m, xs) ==
  \/ \E x \in moved[m] \cap xs : x[2] = "link" => mpc[m] # "unlink"
  \/ mpc[m] = "commit" /\ \E x \in xs : at[x] = pair[m].src

\* Merge m has executed the statement that takes x to its target.
Past(m, x) ==
  mpc[m] \in CASE x[2] = "fact" -> {"delete", "commit"}
               [] x[2] = "link" -> {"unlink", "fold", "delete", "commit"}
               [] x[2] = "chunk" -> OpenPlaces \ {"leads", "commitments", "chunks"}
               [] x[2] = "row" /\ x[1] \in Meetings -> OpenPlaces \ {"leads", "commitments"}
               [] OTHER -> OpenPlaces \ {"leads"}

\* A commit takes records to the source of a merge that is past them.
Overtake ==
  missed' = [m \in Merges |->
               IF OpenMerge(m)'
               THEN missed[m] \cup {x \in Records : /\ at'[x] # at[x] /\ at'[x] = pair[m].src
                                                    /\ Past(m, x)}
               ELSE {}]

\* get_or_create: a visible row of that name, or a new org row.  The order
\* by updated_at is left open.
GetOrCreate(f, c) ==
  /\ fpc[f] = "new" /\ Cardinality({g \in Filings : fpc[g] # "new"}) < MaxFiled
  /\ LET seen == {d \in alive : SeesRow(f, d)} IN
       IF seen # {} THEN c \in seen
       ELSE c \in Contacts \ (alive \cup dead \cup Private \cup {chosen[g]["row"] : g \in Filings})
  /\ chosen' = [chosen EXCEPT ![f]["row"] = c, ![f]["link"] = c]
  /\ fpc' = [fpc EXCEPT ![f] = "insert"]
  /\ UNCHANGED <<book, reads, merging, missed>>

\* leads.create's INSERT, or meetings.save's links and commitments.  It waits
\* for an uncommitted DELETE of the row and fails if the row is gone.
Insert(f) ==
  /\ fpc[f] = "insert"
  /\ chosen[f]["row"] \notin dead
  /\ \A m \in Merges : ~Deleting(m, chosen[f]["row"])
  /\ fpc' = [fpc EXCEPT ![f] = IF f \in Leads THEN "commit" ELSE "again"]
  /\ UNCHANGED <<book, reads, chosen, merging, missed>>

\* save_meeting looks the name up again for the chunk and the profile: its own
\* row is there to find, and so is one that was committed since.
GetOrCreateAgain(f, c) ==
  /\ fpc[f] = "again"
  /\ c \in {d \in alive : SeesRow(f, d)} \cup {chosen[f]["row"]}
  /\ chosen' = [chosen EXCEPT ![f]["chunk"] = c, ![f]["fact"] = c]
  /\ fpc' = [fpc EXCEPT ![f] = "derive"]
  /\ UNCHANGED <<book, reads, merging, missed>>

\* A filing has an uncommitted UPDATE of the profile of row c.
Learning(f, c) == fpc[f] = "commit" /\ "fact" \in Written(f) /\ chosen[f]["fact"] = c

\* merge_profile, which waits for who else is writing the row, and
\* index_meeting's INSERT, which fails if the row is gone.
Derive(f) ==
  LET c == chosen[f]["chunk"] IN
  /\ fpc[f] = "derive"
  /\ c \notin dead
  /\ \A m \in Merges : ~Deleting(m, c)
  /\ "fact" \in Written(f) => /\ \A m \in Merges : ~Folding(m, c)
                              /\ \A g \in Filings : ~Learning(g, c)
  /\ fpc' = [fpc EXCEPT ![f] = "commit"]
  /\ UNCHANGED <<book, reads, chosen, merging, missed>>

CommitFiling(f) ==
  LET v == IF f \in Confided THEN "private" ELSE "org" IN
  /\ fpc[f] = "commit"
  /\ at' = [x \in Records |->
              IF x[1] = f /\ x[2] \in Written(f) THEN chosen[f][x[2]] ELSE at[x]]
  /\ alive' = alive \cup ({chosen[f][p] : p \in Written(f)} \ dead)
  /\ visibility' = [visibility EXCEPT ![f] = v]
  /\ derived' = [derived EXCEPT ![f] = v]
  /\ onRecord' = IF v = "org" THEN onRecord \cup {f} ELSE onRecord
  /\ Close(f)
  /\ UNCHANGED <<dead, merging>>
  /\ Overtake

\* An error, a foreign key violation among them: rollback, and the user is told.
AbortFiling(f) ==
  /\ OpenFiling(f)
  /\ Close(f)
  /\ UNCHANGED <<book, reads, merging, missed>>

\* Mutant of Cascade: what was derived stays as it was.
CascadeNothing(f, v) == UNCHANGED derived

\* The trigger: the meeting's chunk and its commitment follow it.
Cascade(f, v) == derived' = [derived EXCEPT ![f] = v]

\* set_meeting_visibility by the meeting's owner (anyone else's call touches
\* no row); the trigger's UPDATEs wait for a merge that has
\* changed those rows.  It says nothing to a shared profile.
SetVisibility(f, v) ==
  /\ f \in Reclassified /\ visibility[f] \notin {Unfiled, v}
  /\ \A m \in Merges : ~Changing(m, {<<f, "row">>, <<f, "chunk">>})
  /\ visibility' = [visibility EXCEPT ![f] = v]
  /\ Cascade(f, v)
  /\ onRecord' = IF v = "org" THEN onRecord \cup {f} ELSE onRecord
  /\ UNCHANGED <<book, filing, merging, missed>>

-----------------------------------------------------------------------------
(* Merging: a statement at a time.                                          *)

\* A filing has an uncommitted record that names row c.
Naming(f, c) == \/ fpc[f] \in {"again", "derive", "commit"} /\ chosen[f]["row"] = c
                \/ fpc[f] = "commit" /\ chosen[f]["chunk"] = c
Beside(m) == Merges \ {m}

Finish(m) == /\ mpc' = [mpc EXCEPT ![m] = "done"]
             /\ moved' = [moved EXCEPT ![m] = {}]
             /\ pair' = [pair EXCEPT ![m] = [src |-> NoContact, dst |-> NoContact]]
             /\ folded' = folded \ {m}

Leave(m) == /\ Finish(m)
            /\ missed' = [missed EXCEPT ![m] = {}]
            /\ UNCHANGED <<book, reads, filing, merged, bereft>>

Open(m, s, d) ==
  /\ mpc' = [mpc EXCEPT ![m] = "leads"]
  /\ pair' = [pair EXCEPT ![m] = [src |-> s, dst |-> d]]
  /\ UNCHANGED <<book, reads, filing, moved, folded, merged, bereft, missed>>

\* Mutants of Check: visibility is not looked at; a row may be merged into
\* itself.
CheckExistsOnly(m, s, d) ==
  mpc[m] = "idle" /\ s # d /\ {s, d} \subseteq alive /\ Open(m, s, d)

CheckAnyPair(m, s, d) ==
  mpc[m] = "idle" /\ {s, d} \subseteq {c \in alive : SeesRow(m, c)} /\ Open(m, s, d)

\* Different rows, both of them visible to the acting user; or False.
Check(m, s, d) ==
  /\ mpc[m] = "idle"
  /\ IF s # d /\ {s, d} \subseteq {c \in alive : SeesRow(m, c)}
     THEN Open(m, s, d)
     ELSE Leave(m)

\* One statement: what is committed at the source now, of the records xs, names
\* the target.  The new key must exist.
Repoint(m, here, there, xs) ==
  /\ mpc[m] = here
  /\ xs # {} => /\ pair[m].dst \in alive
                /\ \A n \in Beside(m) : ~Deleting(n, pair[m].dst)
  /\ moved' = [moved EXCEPT ![m] = @ \cup xs]
  /\ mpc' = [mpc EXCEPT ![m] = there]
  /\ UNCHANGED <<book, reads, filing, pair, folded, merged, bereft, missed>>

AtSource(m, xs) == {x \in xs : at[x] = pair[m].src}

\* UPDATE ... SET contact_id waits for a merge that has changed those rows.
Update(m, here, there, xs) ==
  /\ \A n \in Beside(m) : ~Changing(n, AtSource(m, xs))
  /\ Repoint(m, here, there, AtSource(m, xs))

RepointLeads(m) == Update(m, "leads", "commitments", Leads \X {"row"})
RepointCommitments(m) == Update(m, "commitments", "chunks", Meetings \X {"row"})
RepointChunks(m) == Update(m, "chunks", "links", Meetings \X {"chunk"})

\* INSERT ... SELECT ... ON CONFLICT DO NOTHING waits for a merge that has
\* copied the same link to the same target.
CopyLinks(m) ==
  LET links == AtSource(m, Meetings \X {"link"}) IN
  /\ \A n \in Beside(m) : pair[n].dst = pair[m].dst => moved[n] \cap links = {}
  /\ Repoint(m, "links", "unlink", links)

\* DELETE of the source's links, those that were not copied among them.
Unlink(m) ==
  /\ mpc[m] = "unlink"
  /\ \A n \in Beside(m) : ~Changing(n, AtSource(m, Meetings \X {"link"}))
  /\ mpc' = [mpc EXCEPT ![m] = "fold"]
  /\ UNCHANGED <<book, reads, filing, pair, moved, folded, merged, bereft, missed>>

\* Mutant of Fold: the survivor's profile is kept, the other's forgotten.
FoldNothing(m) ==
  /\ mpc[m] = "fold"
  /\ mpc' = [mpc EXCEPT ![m] = "delete"]
  /\ UNCHANGED <<book, reads, filing, pair, moved, folded, merged, bereft, missed>>

\* UPDATE contacts dst ... FROM contacts src: it touches no row when either of
\* them is gone, and waits for who is writing the target (a share of it is no
\* obstacle).
Fold(m) ==
  LET src == pair[m].src
      dst == pair[m].dst
      both == {src, dst} \subseteq alive IN
  /\ mpc[m] = "fold"
  /\ both => /\ \A n \in Beside(m) : ~Folding(n, dst) /\ ~Deleting(n, dst)
             /\ \A f \in Filings : ~Learning(f, dst)
  /\ moved' = [moved EXCEPT ![m] = @ \cup IF both THEN AtSource(m, Meetings \X {"fact"}) ELSE {}]
  /\ folded' = IF both THEN folded \cup {m} ELSE folded
  /\ mpc' = [mpc EXCEPT ![m] = "delete"]
  /\ UNCHANGED <<book, reads, filing, pair, merged, bereft, missed>>

\* DELETE of the source waits for whoever writes it or holds a share of it, and
\* its cascade for who has changed what names it.
Delete(m) ==
  LET src == pair[m].src IN
  /\ mpc[m] = "delete"
  /\ src \in alive =>
       /\ \A f \in Filings : ~Naming(f, src)
       /\ \A n \in Beside(m) : /\ ~Deleting(n, src) /\ ~Folding(n, src) /\ ~Sharing(n, src)
                               /\ ~Changing(n, {x \in Records : x[2] # "fact" /\ at[x] = src})
  /\ mpc' = [mpc EXCEPT ![m] = "commit"]
  /\ UNCHANGED <<book, reads, filing, pair, moved, folded, merged, bereft, missed>>

\* What it repointed or copied names the target.  What else named the source
\* goes with it (leads, links and chunks cascade, a commitment loses its
\* contact, a fact is in the row).  Of a link that two merges have copied, the
\* first copy is followed.
CommitMerge(m) ==
  LET src == pair[m].src
      dst == pair[m].dst IN
  /\ mpc[m] = "commit"
  /\ at' = [x \in Records |-> IF x \in moved[m] /\ at[x] \in {src, Lost} THEN dst
                              ELSE IF at[x] = src THEN Lost ELSE at[x]]
  /\ alive' = alive \ {src} /\ dead' = dead \cup {src}
  /\ merged' = merged \cup {m}
  /\ bereft' = bereft \cup {n \in Beside(m) : OpenMerge(n) /\ pair[n].dst = src}
  /\ Finish(m)
  /\ UNCHANGED <<reads, filing>>
  /\ Overtake

\* An error, a broken cycle of waits or a foreign key violation among them.
AbortMerge(m) == OpenMerge(m) /\ Leave(m)

Filing(f) == \/ \E c \in Contacts : GetOrCreate(f, c) \/ GetOrCreateAgain(f, c)
             \/ Insert(f) \/ Derive(f) \/ CommitFiling(f) \/ AbortFiling(f)
             \/ \E v \in {"org", "private"} : SetVisibility(f, v)
Merging(m) == \/ \E s, d \in Contacts : Check(m, s, d)
              \/ RepointLeads(m) \/ RepointCommitments(m) \/ RepointChunks(m)
              \/ CopyLinks(m) \/ Unlink(m) \/ Fold(m) \/ Delete(m)
              \/ CommitMerge(m) \/ AbortMerge(m)

Next == (\E f \in Filings : Filing(f)) \/ (\E m \in Merges : Merging(m))
Spec == Init /\ [][Next]_vars

-----------------------------------------------------------------------------
(* What the contact book promises.                                          *)

LostCleanly ==
  \A x \in Records : at'[x] = Lost /\ at[x] # Lost =>
    \E m \in Merges : /\ mpc[m] = "commit" /\ pair[m].src = at[x]
                      /\ x \in missed[m] \/ (x[2] = "fact" /\ m \in bereft)

\* Work that was filed stays filed: merging duplicates moves everything
\* cleanly (contacts.merge's docstring).  A record can go with the deleted row
\* only if it was committed there after that merge's statement for its table,
\* and a fact also if the merge's target was gone before it could fold.
NothingLost == [][LostCleanly]_vars

\* A merge that reports True left the person a row: True is for two different
\* rows the user can see (contacts.merge's docstring).  Only when a merge whose
\* target another one deleted still reports True can they all be gone.
PersonSurvives == merged # {} => alive # {} \/ bereft \cap merged # {}

MovesInTheOpen ==
  \A x \in Records :
    at[x] # Unfiled /\ at'[x] # at[x] /\ {at[x], at'[x]} \cap Private # {} =>
      \E m \in Merges \cap Hers : mpc[m] = "commit" /\ mpc'[m] = "done"

\* What is filed on a private row is moved off it, or lost with it, and other
\* work is put on it, by nobody but its owner: "nobody can fold a colleague's
\* private contact into an org row -- which would publish its profile"
\* (contacts.merge's docstring).  The owner herself can.
ConfidenceKept == [][MovesInTheOpen]_vars

\* What was told in confidence reaches nobody else by any route, whoever files,
\* merges or reclassifies what around it: its chunk and its commitment can be
\* read while the meeting can ("a stale chunk stays searchable by the whole
\* company"), and a profile others see holds nothing of a meeting that its
\* owner has not, at some time, put on the record (lookup_contact, "exactly
\* what `private` exists to prevent").
InConfidence ==
  \A f \in Filings :
    /\ derived[f] = "org" => visibility[f] = "org"
    /\ at[<<f, "fact">>] \in Contacts \ Private => f \in onRecord
=============================================================================
