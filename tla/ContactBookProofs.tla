------------------------- MODULE ContactBookProofs -------------------------
(***************************************************************************)
(* Theorems of ContactBook about what others can read and about what is    *)
(* lost, for any rows, any filings and any number of merges at once.       *)
(*                                                                         *)
(* Confidence (Kept): nothing of a filing is anywhere before its commit    *)
(* (Unwritten), a fact enters a profile only with a meeting that is shown  *)
(* then (Shown), and a merge moves what it found on a row that its user    *)
(* sees, to such a row (Moving).                                           *)
(*                                                                         *)
(* Loss (Safe): what is filed is on a row that exists, for its DELETE      *)
(* waits for who names it (Held, Shares, Rows); and whatever names the     *)
(* source of a merge that is past its table is the merge's to move, or     *)
(* came too late (Gathering).                                              *)
(***************************************************************************)
EXTENDS ContactBook, TLAPS

\* Nor does anything ever hold what the filing does not write.
Unwritten ==
  \A f \in Filings, p \in Parts : fpc[f] # "done" \/ p \notin Written(f) => at[<<f, p>>] = Unfiled

Shown ==
  \A f \in Filings : /\ derived[f] = visibility[f]
                     /\ visibility[f] = "org" => f \in onRecord
                     /\ at[<<f, "fact">>] \in Contacts => f \in onRecord

Moves(m) ==
  /\ OpenMerge(m) => /\ {pair[m].src, pair[m].dst} \subseteq {c \in Contacts : SeesRow(m, c)}
                     /\ pair[m].src # pair[m].dst
  /\ ~OpenMerge(m) => moved[m] = {}
  /\ \A x \in moved[m] : at[x] # Unfiled /\ (x[2] = "fact" => x[1] \in onRecord)

Moving == \A m \in Merges : Moves(m)

\* An open filing knows the rows that it is about to write.
Named ==
  \A f \in Filings :
    /\ OpenFiling(f) => chosen[f]["row"] \in Contacts /\ chosen[f]["link"] = chosen[f]["row"]
    /\ fpc[f] \in {"derive", "commit"} /\ f \notin Leads =>
         chosen[f]["chunk"] \in Contacts /\ chosen[f]["fact"] = chosen[f]["chunk"]

Kept == TypeOK /\ Named /\ Unwritten /\ Shown /\ Moving

\* The initial state.
LEMMA KeptInit == Init => Kept
<1> SUFFICES ASSUME Init PROVE Kept
  OBVIOUS
<1> USE ContactBookAssumption DEF Init
<1>1. TypeOK
  BY DEF TypeOK, Visibilities, FilingPlaces, MergePlaces, Records
<1>2. \A x \in Records : at[x] = Unfiled
  OBVIOUS
<1>3. Named /\ Unwritten /\ Shown /\ Moving
  BY <1>2 DEF Named, Unwritten, Shown, Moving, Moves, OpenMerge, OpenPlaces, OpenFiling, Parts, Records, Unfiled
<1> QED BY <1>1, <1>3 DEF Kept

-----------------------------------------------------------------------------
(* Types.                                                                   *)

\* What a filing writes, it writes on rows.
LEMMA WritesOnRows ==
  ASSUME TypeOK, Named, NEW f \in Filings, CommitFiling(f)
  PROVE  \A p \in Written(f) : p \in Parts /\ chosen[f][p] \in Contacts
  BY DEF Named, CommitFiling, Written, Parts, OpenFiling

\* What a commit takes to a merge's source too late are records.
LEMMA OvertakeIsTyped ==
  ASSUME missed \in [Merges -> SUBSET Records], Overtake
  PROVE  missed' \in [Merges -> SUBSET Records]
  BY DEF Overtake

\* Filing keeps the types.
LEMMA FilingIsTyped ==
  ASSUME TypeOK, Named, NEW f \in Filings, Filing(f)
  PROVE  TypeOK' /\ Named' /\ UNCHANGED merging
<1> USE ContactBookAssumption
<1>1. ASSUME NEW c \in Contacts, GetOrCreate(f, c)
      PROVE  TypeOK' /\ Named' /\ UNCHANGED merging
  <2>1. /\ UNCHANGED <<alive, dead, at, visibility, derived, onRecord, merging, missed>>
        /\ fpc' \in [Filings -> FilingPlaces]
        /\ chosen' \in [Filings -> [Parts -> Contacts \cup {NoContact}]]
    BY <1>1 DEF GetOrCreate, book, reads, merging, TypeOK, FilingPlaces
  <2>2. /\ fpc'[f] = "insert" /\ chosen'[f]["row"] = c /\ chosen'[f]["link"] = c
        /\ \A g \in Filings \ {f} : fpc'[g] = fpc[g] /\ chosen'[g] = chosen[g]
    BY <1>1 DEF GetOrCreate, TypeOK, Parts
  <2>3. Named'
    BY <2>2 DEF Named, OpenFiling
  <2> QED BY <2>1, <2>3 DEF TypeOK, merging
<1>2. ASSUME NEW c \in Contacts, GetOrCreateAgain(f, c)
      PROVE  TypeOK' /\ Named' /\ UNCHANGED merging
  <2>1. /\ UNCHANGED <<alive, dead, at, visibility, derived, onRecord, merging, missed>>
        /\ UNCHANGED merging
        /\ fpc' \in [Filings -> FilingPlaces]
    BY <1>2 DEF GetOrCreateAgain, book, reads, merging, TypeOK, FilingPlaces
  <2>2. chosen[f] \in [Parts -> Contacts \cup {NoContact}]
    BY DEF TypeOK, merging
  <2>3. chosen' = [chosen EXCEPT ![f] = [@ EXCEPT !["chunk"] = c, !["fact"] = c]]
    BY <1>2, <2>2 DEF GetOrCreateAgain, TypeOK
  <2>4. chosen' \in [Filings -> [Parts -> Contacts \cup {NoContact}]]
    BY <2>2, <2>3 DEF TypeOK, merging
  <2>5. /\ fpc[f] = "again" /\ fpc'[f] = "derive"
        /\ chosen'[f]["row"] = chosen[f]["row"] /\ chosen'[f]["link"] = chosen[f]["link"]
        /\ chosen'[f]["chunk"] = c /\ chosen'[f]["fact"] = c
        /\ \A g \in Filings \ {f} : fpc'[g] = fpc[g] /\ chosen'[g] = chosen[g]
    <3>1. f \in DOMAIN chosen /\ f \in DOMAIN fpc
      BY DEF TypeOK
    <3>2. /\ chosen'[f] = [chosen[f] EXCEPT !["chunk"] = c, !["fact"] = c]
          /\ \A g \in Filings \ {f} : chosen'[g] = chosen[g]
      BY <2>3, <3>1, <2>4
    <3>3. /\ fpc[f] = "again" /\ fpc'[f] = "derive"
          /\ \A g \in Filings \ {f} : fpc'[g] = fpc[g]
      BY <1>2, <2>1, <3>1 DEF GetOrCreateAgain
    <3> QED BY <2>2, <3>2, <3>3 DEF Parts
  <2>6. Named'
    BY <2>5 DEF Named, Parts, OpenFiling
  <2> QED BY <2>1, <2>4, <2>6 DEF TypeOK, merging
<1>3. CASE Insert(f) \/ Derive(f)
  <2>1. /\ UNCHANGED <<alive, dead, at, visibility, derived, onRecord, merging, missed>>
        /\ UNCHANGED <<merging, chosen>>
        /\ fpc' \in [Filings -> FilingPlaces]
    BY <1>3 DEF Insert, Derive, book, reads, merging, TypeOK, FilingPlaces
  <2>2. /\ fpc[f] \in {"insert", "derive"} /\ fpc'[f] \in {"again", "commit"}
        /\ fpc[f] = "insert" /\ fpc'[f] = "commit" => f \in Leads
        /\ \A g \in Filings \ {f} : fpc'[g] = fpc[g]
    BY <1>3 DEF Insert, Derive, TypeOK
  <2>3. Named'
    BY <2>1, <2>2 DEF Named, OpenFiling
  <2> QED BY <2>1, <2>3 DEF TypeOK, merging
<1>4. CASE CommitFiling(f)
  <2>1. /\ UNCHANGED <<dead, merging>>
        /\ fpc' \in [Filings -> FilingPlaces]
        /\ chosen' \in [Filings -> [Parts -> Contacts \cup {NoContact}]]
        /\ visibility' \in [Filings -> Visibilities] /\ derived' \in [Filings -> Visibilities]
        /\ onRecord' \subseteq Filings
    BY <1>4 DEF CommitFiling, Close, merging, TypeOK, FilingPlaces, Visibilities
  <2>2. \A p \in Written(f) : p \in Parts /\ chosen[f][p] \in Contacts
    BY <1>4, WritesOnRows
  <2>5. alive' \subseteq Contacts
    BY <1>4, <2>2 DEF CommitFiling, TypeOK
  <2>6. at' \in [Records -> Contacts \cup {Unfiled, Lost}]
    <3>1. \A x \in Records : at[x] \in Contacts \cup {Unfiled, Lost}
      BY DEF TypeOK, merging
    <3> QED BY <1>4, <2>2, <3>1 DEF CommitFiling
  <2>7. missed' \in [Merges -> SUBSET Records]
    BY <1>4, OvertakeIsTyped DEF CommitFiling, TypeOK
  <2>3. fpc'[f] = "done" /\ \A g \in Filings \ {f} : fpc'[g] = fpc[g] /\ chosen'[g] = chosen[g]
    BY <1>4 DEF CommitFiling, Close, TypeOK
  <2>4. Named'
    BY <2>3 DEF Named, OpenFiling
  <2> QED BY <2>1, <2>5, <2>6, <2>7, <2>4 DEF TypeOK, merging
<1>5. CASE AbortFiling(f)
  <2>1. /\ UNCHANGED <<alive, dead, at, visibility, derived, onRecord, merging, missed>>
        /\ UNCHANGED merging
        /\ fpc' \in [Filings -> FilingPlaces]
        /\ chosen' \in [Filings -> [Parts -> Contacts \cup {NoContact}]]
    BY <1>5 DEF AbortFiling, Close, book, reads, merging, TypeOK, FilingPlaces
  <2>2. fpc'[f] = "done" /\ \A g \in Filings \ {f} : fpc'[g] = fpc[g] /\ chosen'[g] = chosen[g]
    BY <1>5 DEF AbortFiling, Close, TypeOK
  <2>3. Named'
    BY <2>2 DEF Named, OpenFiling
  <2> QED BY <2>1, <2>3 DEF TypeOK, merging
<1>6. ASSUME NEW v \in {"org", "private"}, SetVisibility(f, v)
      PROVE  TypeOK' /\ Named' /\ UNCHANGED merging
  <2>1. /\ UNCHANGED <<alive, dead, at, fpc, chosen, merging, missed>>
        /\ visibility' \in [Filings -> Visibilities] /\ derived' \in [Filings -> Visibilities]
        /\ onRecord' \subseteq Filings
    BY <1>6 DEF SetVisibility, Cascade, book, filing, merging, TypeOK, Visibilities
  <2> QED BY <2>1 DEF TypeOK, Named, OpenFiling, merging
<1> QED BY <1>1, <1>2, <1>3, <1>4, <1>5, <1>6 DEF Filing

\* A statement of a merge.
Statement(m) == \/ RepointLeads(m) \/ RepointCommitments(m) \/ RepointChunks(m)
                \/ CopyLinks(m) \/ Unlink(m) \/ Fold(m) \/ Delete(m)

\* A merge is past no table when it opens, and past all of them at its commit.
LEMMA PastPlaces ==
  ASSUME NEW m \in Merges, NEW x \in Records
  PROVE  /\ mpc[m] = "leads" => ~Past(m, x)
         /\ mpc[m] = "commit" => Past(m, x)
  BY DEF Past, OpenPlaces

\* A statement that changes what names the source changes nothing else that
\* can be seen, and gathers what is there of its table.
LEMMA RepointGathers ==
  ASSUME TypeOK, NEW m \in Merges, NEW xs \in SUBSET Records,
         NEW here \in OpenPlaces, NEW there \in OpenPlaces, Repoint(m, here, there, AtSource(m, xs))
  PROVE  /\ mpc[m] = here /\ mpc' = [mpc EXCEPT ![m] = there]
         /\ moved' = [moved EXCEPT ![m] = @ \cup AtSource(m, xs)]
         /\ moved' \in [Merges -> SUBSET Records]
         /\ moved'[m] = moved[m] \cup AtSource(m, xs)
         /\ AtSource(m, xs) # {} => /\ pair[m].dst \in alive
                                    /\ \A n \in Beside(m) : ~Deleting(n, pair[m].dst)
         /\ UNCHANGED <<folded, missed>> /\ UNCHANGED <<book, reads, filing, pair, merged, bereft>>
<1>1. AtSource(m, xs) \in SUBSET Records
  BY DEF AtSource
<1>2. moved \in [Merges -> SUBSET Records]
  BY DEF TypeOK
<1> HIDE DEF AtSource
<1> QED BY <1>1, <1>2 DEF Repoint

\* A statement of m that adds xs to what it has moved.
Gathers(m, xs) ==
  /\ moved' = [moved EXCEPT ![m] = @ \cup xs]
  /\ \A x \in xs : at[x] = pair[m].src
  /\ xs # {} => /\ pair[m].dst \in alive
                /\ \A n \in Beside(m) : ~Deleting(n, pair[m].dst)
  /\ \A x \in xs : x[2] = "fact" => m \in folded'
  /\ \A x \in Records :
       /\ at[x] = pair[m].src /\ Past(m, x)' /\ ~Past(m, x)
       /\ x[1] \in Leads => x[2] = "row"
       => x \in xs \/ (x[2] = "fact" /\ ~({pair[m].src, pair[m].dst} \subseteq alive))

\* Every statement leaves what is committed as it is, adds to what m has moved
\* only what is at its source, and all of that of the table that it passes
\* (a fold that touches no row, nothing).
LEMMA StatementGathers ==
  ASSUME TypeOK, NEW m \in Merges, Statement(m)
  PROVE  /\ UNCHANGED <<book, reads, filing, pair, merged, bereft, missed>>
         /\ OpenMerge(m) /\ mpc[m] # "commit"
         /\ \E p \in OpenPlaces : mpc' = [mpc EXCEPT ![m] = p]
         /\ \E xs \in SUBSET Records : Gathers(m, xs)
         /\ folded \subseteq folded' /\ folded' \subseteq folded \cup {m}
<1>1. \A x \in Records : x = <<x[1], x[2]>> /\ x[1] \in Filings /\ x[2] \in Parts
  BY DEF Records
<1>2. CASE RepointLeads(m)
  <2>1. Leads \X {"row"} \in SUBSET Records
    BY DEF Records, Parts, Filings
  <2>2. Repoint(m, "leads", "commitments", AtSource(m, Leads \X {"row"}))
    BY <1>2 DEF RepointLeads, Update
  <2>3. ASSUME NEW x \in Records, Past(m, x)', ~Past(m, x), x[1] \in Leads => x[2] = "row"
        PROVE  x \in Leads \X {"row"}
    <3>1. mpc[m] = "leads" /\ mpc'[m] = "commitments"
      BY <2>1, <2>2, RepointGathers DEF OpenPlaces, TypeOK
    <3> QED BY <1>1, <2>3, <3>1 DEF Past, OpenPlaces, Parts, Filings
  <2>4. /\ "leads" \in OpenPlaces /\ "commitments" \in OpenPlaces /\ "leads" # "commit"
        /\ AtSource(m, Leads \X {"row"}) \in SUBSET Records
        /\ \A x \in AtSource(m, Leads \X {"row"}) : at[x] = pair[m].src /\ x[2] = "row"
        /\ \A x \in Leads \X {"row"} : at[x] = pair[m].src => x \in AtSource(m, Leads \X {"row"})
    BY <2>1 DEF OpenPlaces, AtSource
  <2> HIDE DEF AtSource
  <2>5. /\ mpc[m] = "leads" /\ mpc' = [mpc EXCEPT ![m] = "commitments"]
        /\ UNCHANGED <<book, reads, filing, pair, merged, bereft, missed>> /\ UNCHANGED folded
    BY <2>1, <2>2, <2>4, RepointGathers
  <2>6. Gathers(m, AtSource(m, Leads \X {"row"}))
    BY <2>1, <2>2, <2>3, <2>4, RepointGathers DEF Gathers
  <2> QED BY <2>4, <2>5, <2>6 DEF OpenMerge
<1>3. CASE RepointCommitments(m)
  <2>1. Meetings \X {"row"} \in SUBSET Records
    BY DEF Records, Parts, Filings
  <2>2. Repoint(m, "commitments", "chunks", AtSource(m, Meetings \X {"row"}))
    BY <1>3 DEF RepointCommitments, Update
  <2>3. ASSUME NEW x \in Records, Past(m, x)', ~Past(m, x), x[1] \in Leads => x[2] = "row"
        PROVE  x \in Meetings \X {"row"}
    <3>1. mpc[m] = "commitments" /\ mpc'[m] = "chunks"
      BY <2>1, <2>2, RepointGathers DEF OpenPlaces, TypeOK
    <3> QED BY <1>1, <2>3, <3>1 DEF Past, OpenPlaces, Parts, Filings
  <2>4. /\ "commitments" \in OpenPlaces /\ "chunks" \in OpenPlaces /\ "commitments" # "commit"
        /\ AtSource(m, Meetings \X {"row"}) \in SUBSET Records
        /\ \A x \in AtSource(m, Meetings \X {"row"}) : at[x] = pair[m].src /\ x[2] = "row"
        /\ \A x \in Meetings \X {"row"} : at[x] = pair[m].src => x \in AtSource(m, Meetings \X {"row"})
    BY <2>1 DEF OpenPlaces, AtSource
  <2> HIDE DEF AtSource
  <2>5. /\ mpc[m] = "commitments" /\ mpc' = [mpc EXCEPT ![m] = "chunks"]
        /\ UNCHANGED <<book, reads, filing, pair, merged, bereft, missed>> /\ UNCHANGED folded
    BY <2>1, <2>2, <2>4, RepointGathers
  <2>6. Gathers(m, AtSource(m, Meetings \X {"row"}))
    BY <2>1, <2>2, <2>3, <2>4, RepointGathers DEF Gathers
  <2> QED BY <2>4, <2>5, <2>6 DEF OpenMerge
<1>4. CASE RepointChunks(m)
  <2>1. Meetings \X {"chunk"} \in SUBSET Records
    BY DEF Records, Parts, Filings
  <2>2. Repoint(m, "chunks", "links", AtSource(m, Meetings \X {"chunk"}))
    BY <1>4 DEF RepointChunks, Update
  <2>3. ASSUME NEW x \in Records, Past(m, x)', ~Past(m, x), x[1] \in Leads => x[2] = "row"
        PROVE  x \in Meetings \X {"chunk"}
    <3>1. mpc[m] = "chunks" /\ mpc'[m] = "links"
      BY <2>1, <2>2, RepointGathers DEF OpenPlaces, TypeOK
    <3> QED BY <1>1, <2>3, <3>1 DEF Past, OpenPlaces, Parts, Filings
  <2>4. /\ "chunks" \in OpenPlaces /\ "links" \in OpenPlaces /\ "chunks" # "commit"
        /\ AtSource(m, Meetings \X {"chunk"}) \in SUBSET Records
        /\ \A x \in AtSource(m, Meetings \X {"chunk"}) : at[x] = pair[m].src /\ x[2] = "chunk"
        /\ \A x \in Meetings \X {"chunk"} : at[x] = pair[m].src => x \in AtSource(m, Meetings \X {"chunk"})
    BY <2>1 DEF OpenPlaces, AtSource
  <2> HIDE DEF AtSource
  <2>5. /\ mpc[m] = "chunks" /\ mpc' = [mpc EXCEPT ![m] = "links"]
        /\ UNCHANGED <<book, reads, filing, pair, merged, bereft, missed>> /\ UNCHANGED folded
    BY <2>1, <2>2, <2>4, RepointGathers
  <2>6. Gathers(m, AtSource(m, Meetings \X {"chunk"}))
    BY <2>1, <2>2, <2>3, <2>4, RepointGathers DEF Gathers
  <2> QED BY <2>4, <2>5, <2>6 DEF OpenMerge
<1>5. CASE CopyLinks(m)
  <2>1. Meetings \X {"link"} \in SUBSET Records
    BY DEF Records, Parts, Filings
  <2>2. Repoint(m, "links", "unlink", AtSource(m, Meetings \X {"link"}))
    BY <1>5 DEF CopyLinks
  <2>3. ASSUME NEW x \in Records, Past(m, x)', ~Past(m, x), x[1] \in Leads => x[2] = "row"
        PROVE  x \in Meetings \X {"link"}
    <3>1. mpc[m] = "links" /\ mpc'[m] = "unlink"
      BY <2>1, <2>2, RepointGathers DEF OpenPlaces, TypeOK
    <3> QED BY <1>1, <2>3, <3>1 DEF Past, OpenPlaces, Parts, Filings
  <2>4. /\ "links" \in OpenPlaces /\ "unlink" \in OpenPlaces /\ "links" # "commit"
        /\ AtSource(m, Meetings \X {"link"}) \in SUBSET Records
        /\ \A x \in AtSource(m, Meetings \X {"link"}) : at[x] = pair[m].src /\ x[2] = "link"
        /\ \A x \in Meetings \X {"link"} : at[x] = pair[m].src => x \in AtSource(m, Meetings \X {"link"})
    BY <2>1 DEF OpenPlaces, AtSource
  <2> HIDE DEF AtSource
  <2>5. /\ mpc[m] = "links" /\ mpc' = [mpc EXCEPT ![m] = "unlink"]
        /\ UNCHANGED <<book, reads, filing, pair, merged, bereft, missed>> /\ UNCHANGED folded
    BY <2>1, <2>2, <2>4, RepointGathers
  <2>6. Gathers(m, AtSource(m, Meetings \X {"link"}))
    BY <2>1, <2>2, <2>3, <2>4, RepointGathers DEF Gathers
  <2> QED BY <2>4, <2>5, <2>6 DEF OpenMerge
<1>6. CASE Unlink(m) \/ Delete(m)
  <2>1. /\ mpc[m] \in {"unlink", "delete"}
        /\ mpc' = [mpc EXCEPT ![m] = IF mpc[m] = "unlink" THEN "fold" ELSE "commit"]
        /\ UNCHANGED <<book, reads, filing, pair, merged, bereft, missed>> /\ UNCHANGED <<moved, folded>>
    BY <1>6 DEF Unlink, Delete
  <2>2. \A x \in Records : Past(m, x)' => Past(m, x)
    BY <1>1, <2>1 DEF Past, OpenPlaces, TypeOK, Parts, Filings
  <2>3. \E p \in OpenPlaces : mpc' = [mpc EXCEPT ![m] = p]
    BY <2>1 DEF OpenPlaces
  <2>4. {} \in SUBSET Records /\ moved' = [moved EXCEPT ![m] = @ \cup {}]
    BY <2>1 DEF TypeOK
  <2>5. Gathers(m, {})
    BY <2>2, <2>4 DEF Gathers
  <2> QED BY <2>1, <2>3, <2>4, <2>5 DEF OpenMerge, OpenPlaces
<1>7. CASE Fold(m)
  <2> DEFINE both == {pair[m].src, pair[m].dst} \subseteq alive
             facts == AtSource(m, Meetings \X {"fact"})
             xs == IF both THEN facts ELSE {}
  <2>1. facts \in SUBSET Records
    BY DEF AtSource, Records, Parts, Filings
  <2>2. /\ \A x \in facts : at[x] = pair[m].src
        /\ \A x \in Records : at[x] = pair[m].src /\ x[2] = "fact" /\ x[1] \in Meetings => x \in facts
    BY <1>1 DEF AtSource
  <2>3. /\ mpc[m] = "fold" /\ mpc' = [mpc EXCEPT ![m] = "delete"]
        /\ both => \A n \in Beside(m) : ~Deleting(n, pair[m].dst)
        /\ moved' = [moved EXCEPT ![m] = @ \cup xs]
        /\ folded' = IF both THEN folded \cup {m} ELSE folded
        /\ UNCHANGED <<book, reads, filing, pair, merged, bereft, missed>>
    BY <1>7 DEF Fold
  <2>4. \A x \in Records : Past(m, x)' /\ ~Past(m, x) => x[2] = "fact"
    BY <1>1, <2>3 DEF Past, OpenPlaces, TypeOK, Parts, Filings
  <2>5. \A x \in Records : x[2] = "fact" /\ x[1] \notin Leads => x[1] \in Meetings
    BY <1>1 DEF Filings
  <2>6. "delete" \in OpenPlaces /\ "fold" \in OpenPlaces
    BY DEF OpenPlaces
  <2> HIDE DEF facts
  <2>7. xs \in SUBSET Records /\ folded \subseteq folded' /\ folded' \subseteq folded \cup {m}
    BY <2>1, <2>3
  <2>8. Gathers(m, xs)
    BY <2>2, <2>3, <2>4, <2>5 DEF Gathers
  <2> HIDE DEF xs
  <2> QED BY <2>3, <2>6, <2>7, <2>8 DEF OpenMerge
<1> QED BY <1>2, <1>3, <1>4, <1>5, <1>6, <1>7 DEF Statement

\* A merge opens, leaves, executes a statement or commits.
Opening(m, s, d) ==
  mpc[m] = "idle" /\ s # d /\ {s, d} \subseteq {c \in alive : SeesRow(m, c)} /\ Open(m, s, d)

LEMMA MergingCases ==
  ASSUME NEW m \in Merges, Merging(m)
  PROVE  \/ \E s, d \in Contacts : Opening(m, s, d)
         \/ Leave(m) \/ Statement(m) \/ CommitMerge(m)
  BY DEF Merging, Check, Opening, AbortMerge, Statement

\* A step of m leaves the other merges as they are.
LEMMA MergingLeavesOthers ==
  ASSUME TypeOK, NEW m \in Merges, Merging(m)
  PROVE  \A n \in Merges \ {m} : /\ mpc'[n] = mpc[n] /\ pair'[n] = pair[n] /\ moved'[n] = moved[n]
                                 /\ n \in folded' <=> n \in folded
<1>1. ASSUME NEW s \in Contacts, NEW d \in Contacts, Opening(m, s, d)
      PROVE  \A n \in Merges \ {m} : /\ mpc'[n] = mpc[n] /\ pair'[n] = pair[n] /\ moved'[n] = moved[n]
                                     /\ n \in folded' <=> n \in folded
  BY <1>1 DEF Opening, Open, TypeOK
<1>2. CASE Leave(m) \/ CommitMerge(m)
  BY <1>2 DEF Leave, CommitMerge, Finish, TypeOK
<1>3. CASE Statement(m)
  BY <1>3, StatementGathers DEF Gathers, TypeOK
<1> QED BY <1>1, <1>2, <1>3, MergingCases

\* Merging keeps the types.
LEMMA MergingIsTyped ==
  ASSUME TypeOK, Moving, NEW m \in Merges, Merging(m)
  PROVE  TypeOK' /\ UNCHANGED <<reads, filing>>
<1> USE ContactBookAssumption
<1>1. ASSUME NEW s \in Contacts, NEW d \in Contacts, Opening(m, s, d)
      PROVE  TypeOK' /\ UNCHANGED <<reads, filing>>
  BY <1>1 DEF Opening, Open, TypeOK, MergePlaces, OpenPlaces, book, reads, filing
<1>2. CASE Leave(m)
  BY <1>2 DEF Leave, Finish, TypeOK, MergePlaces, book, reads, filing
<1>3. CASE Statement(m)
  <2>1. PICK xs \in SUBSET Records : moved' = [moved EXCEPT ![m] = @ \cup xs]
    BY <1>3, StatementGathers DEF Gathers
  <2>2. moved' \in [Merges -> SUBSET Records]
    <3>1. moved \in [Merges -> SUBSET Records] /\ moved[m] \cup xs \in SUBSET Records
      BY DEF TypeOK
    <3> QED BY <2>1, <3>1
  <2>3. /\ mpc' \in [Merges -> MergePlaces] /\ folded' \subseteq Merges
        /\ UNCHANGED <<book, reads, filing, pair, merged, bereft, missed>>
    BY <1>3, StatementGathers DEF TypeOK, MergePlaces
  <2> QED BY <2>2, <2>3 DEF TypeOK, book, reads, filing
<1>4. CASE CommitMerge(m)
  <2>1. pair[m].src \in Contacts /\ pair[m].dst \in Contacts
    BY <1>4 DEF CommitMerge, Moving, Moves, OpenMerge, OpenPlaces
  <2>2. /\ alive' \subseteq Contacts /\ dead' \subseteq Contacts
        /\ at' \in [Records -> Contacts \cup {Unfiled, Lost}]
    BY <1>4, <2>1 DEF CommitMerge, TypeOK
  <2>3. /\ mpc' \in [Merges -> MergePlaces]
        /\ pair' \in [Merges -> [src : Contacts \cup {NoContact}, dst : Contacts \cup {NoContact}]]
        /\ moved' \in [Merges -> SUBSET Records] /\ folded' \subseteq Merges
        /\ merged' \subseteq Merges /\ bereft' \subseteq Merges
        /\ UNCHANGED <<reads, filing>>
    BY <1>4 DEF CommitMerge, Finish, Beside, TypeOK, MergePlaces
  <2>4. missed' \in [Merges -> SUBSET Records]
    BY <1>4, OvertakeIsTyped DEF CommitMerge, TypeOK
  <2> QED BY <2>2, <2>3, <2>4 DEF TypeOK, reads, filing
<1> QED BY <1>1, <1>2, <1>3, <1>4, MergingCases

-----------------------------------------------------------------------------
(* What each step does to what is filed.                                    *)

\* A filing changes where it itself is filed, and only from nowhere, to the
\* rows that it has chosen; its fact is filed with a meeting that the company
\* is shown.
LEMMA FilingWrites ==
  ASSUME Kept, NEW f \in Filings, Filing(f)
  PROVE  /\ \A x \in Records : at'[x] # at[x] =>
              /\ CommitFiling(f) /\ at[x] = Unfiled
              /\ x[1] = f /\ x[2] \in Written(f) /\ at'[x] = chosen[f][x[2]]
         /\ \A g \in Filings : at'[<<g, "fact">>] # at[<<g, "fact">>] => g \in onRecord'
<1>1. CASE CommitFiling(f)
  <2>1. \A x \in Records : /\ x = <<x[1], x[2]>> /\ x[1] \in Filings /\ x[2] \in Parts
                           /\ at'[x] # at[x] => x[1] = f /\ x[2] \in Written(f) /\ at'[x] = chosen[f][x[2]]
    BY <1>1 DEF CommitFiling, Records
  <2>2. \A p \in Parts : at[<<f, p>>] = Unfiled
    BY <1>1 DEF Kept, Unwritten, CommitFiling
  <2>3. "fact" \in Written(f) => f \in onRecord'
    BY <1>1 DEF CommitFiling, Written
  <2>4. \A g \in Filings : <<g, "fact">> \in Records
    BY DEF Parts, Records
  <2> QED BY <1>1, <2>1, <2>2, <2>3, <2>4
<1>2. CASE ~CommitFiling(f)
  BY <1>2 DEF Filing, GetOrCreate, GetOrCreateAgain, Insert, Derive, AbortFiling, SetVisibility, book
<1> QED BY <1>1, <1>2

\* A merge changes where a record is filed only at its commit: off its source,
\* to its target if it has moved it, both of which its user sees.
LEMMA MergingWrites ==
  ASSUME Kept, NEW m \in Merges, Merging(m)
  PROVE  \A x \in Records : at'[x] # at[x] =>
           /\ CommitMerge(m) /\ mpc'[m] = "done"
           /\ at[x] \in {pair[m].src, Lost} /\ at'[x] \in {pair[m].dst, Lost}
           /\ at'[x] = Lost => at[x] = pair[m].src /\ x \notin moved[m]
           /\ at'[x] # Lost => x \in moved[m]
           /\ {at[x], at'[x]} \cap Private # {} => m \in Hers
<1>1. CASE CommitMerge(m)
  <2>1. {pair[m].src, pair[m].dst} \subseteq {c \in Contacts : SeesRow(m, c)}
    BY <1>1 DEF Kept, Moving, Moves, OpenMerge, OpenPlaces, CommitMerge
  <2>2. Lost \notin Contacts /\ Private \subseteq Contacts
    BY ContactBookAssumption
  <2>3. \A x \in Records : at'[x] = IF x \in moved[m] /\ at[x] \in {pair[m].src, Lost} THEN pair[m].dst
                                    ELSE IF at[x] = pair[m].src THEN Lost ELSE at[x]
    BY <1>1 DEF CommitMerge
  <2>4. mpc'[m] = "done"
    BY <1>1 DEF CommitMerge, Finish, Kept, TypeOK
  <2> QED BY <1>1, <2>1, <2>2, <2>3, <2>4 DEF SeesRow
<1>2. CASE ~CommitMerge(m)
  BY <1>2, MergingCases, StatementGathers DEF Opening, Open, Leave, book, Kept
<1> QED BY <1>1, <1>2

-----------------------------------------------------------------------------
(* The invariant of confidence.                                             *)

\* Filing keeps it.
LEMMA FilingKeeps ==
  ASSUME Kept, NEW f \in Filings, Filing(f)
  PROVE  Kept'
<1>1. TypeOK' /\ Named' /\ UNCHANGED <<mpc, pair, moved>>
  BY FilingIsTyped DEF Kept, merging
<1>2. \A g \in Filings : fpc'[g] # "done" => fpc[g] # "done" /\ ~(g = f /\ CommitFiling(f))
  <2>1. \A g \in Filings : fpc'[g] # "done" => fpc[g] # "done"
    BY DEF Filing, GetOrCreate, GetOrCreateAgain, Insert, Derive, CommitFiling, AbortFiling, Close,
           SetVisibility, filing, Kept, TypeOK
  <2>2. CommitFiling(f) => fpc'[f] = "done"
    BY DEF CommitFiling, Close, Kept, TypeOK
  <2> QED BY <2>1, <2>2
<1>3. Unwritten'
  <2>1. \A g \in Filings, p \in Parts : <<g, p>> \in Records /\ <<g, p>>[1] = g /\ <<g, p>>[2] = p
    BY DEF Records
  <2> QED BY <1>2, <2>1, FilingWrites DEF Kept, Unwritten
<1>4. /\ \A g \in Filings : derived'[g] = visibility'[g] /\ (visibility'[g] = "org" => g \in onRecord')
      /\ onRecord \subseteq onRecord'
  <2>1. /\ visibility \in [Filings -> Visibilities] /\ derived \in [Filings -> Visibilities]
        /\ \A g \in Filings : derived[g] = visibility[g] /\ (visibility[g] = "org" => g \in onRecord)
    BY DEF Kept, Shown, TypeOK
  <2>2. \/ UNCHANGED <<visibility, derived, onRecord>>
        \/ \E v \in {"org", "private"} :
             /\ visibility' = [visibility EXCEPT ![f] = v] /\ derived' = [derived EXCEPT ![f] = v]
             /\ onRecord' = IF v = "org" THEN onRecord \cup {f} ELSE onRecord
    BY DEF Filing, GetOrCreate, GetOrCreateAgain, Insert, Derive, CommitFiling, AbortFiling, SetVisibility,
           Cascade, reads
  <2> QED BY <2>1, <2>2
<1>5. Shown'
  BY <1>4, FilingWrites DEF Kept, Shown
<1>6. Moving'
  <2>1. \A n \in Merges : \A x \in moved[n] : x \in Records /\ at'[x] = at[x]
    BY FilingWrites DEF Kept, Moving, Moves, TypeOK
  <2> QED BY <1>1, <1>4, <2>1 DEF Kept, Moving, Moves, OpenMerge
<1> QED BY <1>1, <1>3, <1>5, <1>6 DEF Kept

\* Merging keeps it.
LEMMA MergingKeeps ==
  ASSUME Kept, NEW m \in Merges, Merging(m)
  PROVE  Kept'
<1>1. TypeOK' /\ UNCHANGED <<visibility, derived, onRecord, fpc, chosen>>
  BY MergingIsTyped DEF Kept, reads, filing
<1>2. Named'
  BY <1>1 DEF Kept, Named, OpenFiling
<1>3. \A x \in Records : at[x] = Unfiled <=> at'[x] = Unfiled
  <2>1. CommitMerge(m) => pair[m].src \in Contacts /\ pair[m].dst \in Contacts
    BY DEF CommitMerge, Kept, Moving, Moves, OpenMerge, OpenPlaces
  <2> QED BY <2>1, MergingWrites, ContactBookAssumption DEF Unfiled, Lost
<1>4. Unwritten'
  <2>1. \A g \in Filings, p \in Parts : <<g, p>> \in Records
    BY DEF Records
  <2> QED BY <1>1, <1>3, <2>1 DEF Kept, Unwritten
<1>5. Shown'
  <2>1. ASSUME NEW f \in Filings, at'[<<f, "fact">>] \in Contacts, f \notin onRecord
        PROVE  FALSE
    <3>1. <<f, "fact">> \in Records
      BY DEF Parts, Records
    <3>2. <<f, "fact">> \in moved[m]
      BY <2>1, <3>1, MergingWrites, ContactBookAssumption DEF Kept, Shown
    <3> QED BY <2>1, <3>2 DEF Kept, Moving, Moves
  <2> QED BY <1>1, <2>1 DEF Kept, Shown
<1>6. ASSUME \E s, d \in Contacts : Opening(m, s, d) PROVE Moves(m)'
  <2>1. PICK s \in Contacts, d \in Contacts : Opening(m, s, d)
    BY <1>6
  <2>2. /\ pair'[m].src = s /\ pair'[m].dst = d /\ s # d /\ SeesRow(m, s) /\ SeesRow(m, d)
        /\ UNCHANGED <<at, moved>> /\ OpenMerge(m)' /\ ~OpenMerge(m)
    BY <2>1 DEF Opening, Open, book, OpenMerge, OpenPlaces, Kept, TypeOK
  <2> QED BY <1>1, <2>2 DEF Kept, Moving, Moves, SeesRow
<1>7. ASSUME Leave(m) \/ CommitMerge(m) PROVE Moves(m)'
  <2>1. moved'[m] = {} /\ ~OpenMerge(m)'
    BY <1>7 DEF Leave, CommitMerge, Finish, OpenMerge, OpenPlaces, Kept, TypeOK
  <2> QED BY <2>1 DEF Moves
<1>8. ASSUME Statement(m) PROVE Moves(m)'
  <2>1. PICK xs \in SUBSET Records : Gathers(m, xs)
    BY <1>8, StatementGathers DEF Kept
  <2>2. moved'[m] = moved[m] \cup xs /\ OpenMerge(m) /\ OpenMerge(m)' /\ UNCHANGED <<at, pair>>
    BY <1>8, <2>1, StatementGathers DEF Gathers, OpenMerge, Kept, TypeOK, book
  <2>3. ASSUME NEW x \in xs PROVE at[x] # Unfiled /\ (x[2] = "fact" => x[1] \in onRecord)
    <3>1. at[x] \in Contacts /\ x = <<x[1], x[2]>> /\ x[1] \in Filings
      BY <2>1, <2>2 DEF Gathers, Kept, Moving, Moves, Records
    <3> QED BY <3>1, ContactBookAssumption DEF Kept, Shown
  <2> QED BY <1>1, <2>2, <2>3 DEF Kept, Moving, Moves, SeesRow
<1>9. ASSUME NEW n \in Merges \ {m} PROVE Moves(n)'
  <2>1. mpc'[n] = mpc[n] /\ pair'[n] = pair[n] /\ moved'[n] = moved[n] /\ Moves(n)
    BY MergingLeavesOthers DEF Kept, Moving
  <2>2. moved[n] \subseteq Records
    BY DEF Kept, TypeOK
  <2> QED BY <1>1, <1>3, <2>1, <2>2 DEF Moves, OpenMerge, SeesRow
<1>10. Moving'
  <2>1. Moves(m)'
    BY <1>6, <1>7, <1>8, MergingCases
  <2> QED BY <1>9, <2>1 DEF Moving
<1> QED BY <1>1, <1>2, <1>4, <1>5, <1>10 DEF Kept

\* Every behaviour keeps it.
LEMMA BookIsKept == Spec => []Kept
<1>1. Kept /\ [Next]_vars => Kept'
  <2> SUFFICES ASSUME Kept, [Next]_vars PROVE Kept'
    OBVIOUS
  <2>1. CASE Next
    BY <2>1, FilingKeeps, MergingKeeps DEF Next
  <2>2. CASE UNCHANGED vars
    BY <2>2 DEF vars, book, reads, filing, merging, Kept, TypeOK, Named, Unwritten, Shown, Moving, Moves,
                OpenMerge, OpenFiling
  <2> QED BY <2>1, <2>2
<1> QED BY KeptInit, <1>1, PTL DEF Spec

\* The variables of the contact book hold what they are meant to.
THEOREM BookTypeCorrect == Spec => []TypeOK
<1>1. Kept => TypeOK
  BY DEF Kept
<1> QED BY BookIsKept, <1>1, PTL

\* What was told in confidence reaches nobody else, whoever files, merges or
\* reclassifies around it (save_meeting, the visibility trigger, merge).
THEOREM ConfidenceHolds == Spec => []InConfidence
<1>1. Kept => InConfidence
  BY DEF Kept, Shown, InConfidence
<1> QED BY BookIsKept, <1>1, PTL

\* Nobody but the owner of a private row, by a merge of her own, takes what is
\* filed there off it or puts other work on it (contacts.merge).
THEOREM PrivateRowsStay == Spec => ConfidenceKept
<1>1. Kept /\ [Next]_vars => [MovesInTheOpen]_vars
  <2> SUFFICES ASSUME Kept, Next PROVE MovesInTheOpen
    OBVIOUS
  <2>1. CASE \E f \in Filings : Filing(f)
    BY <2>1, FilingWrites DEF MovesInTheOpen
  <2>2. CASE \E m \in Merges : Merging(m)
    BY <2>2, MergingWrites DEF MovesInTheOpen, CommitMerge
  <2> QED BY <2>1, <2>2 DEF Next
<1> QED BY <1>1, BookIsKept, PTL DEF Spec, ConfidenceKept
-----------------------------------------------------------------------------
(* What is lost.                                                            *)

\* A lead names the contact once.
Brief == \A f \in Leads : fpc[f] \notin {"again", "derive"} /\ chosen[f]["chunk"] = NoContact

\* A row that an open filing names is neither deleted nor being deleted.
Held == \A f \in Filings, c \in Contacts :
          Naming(f, c) => c \notin dead /\ \A m \in Merges : ~Deleting(m, c)

\* Nor is one that a merge has pointed records to; a fact is moved by a fold.
Shares == \A m \in Merges :
            /\ moved[m] # {} => pair[m].dst \in alive /\ \A n \in Merges : ~Deleting(n, pair[m].dst)
            /\ \A x \in moved[m] : x[2] = "fact" => m \in folded

\* What is filed is on a row that exists; a merge knows rows that do, or did,
\* and who has lost its target is listed.
Knows(m) == OpenMerge(m) => /\ {pair[m].src, pair[m].dst} \subseteq alive \cup dead
                            /\ pair[m].dst \notin alive => m \in bereft

Rows == /\ \A x \in Records : at[x] \in Contacts => at[x] \in alive
        /\ \A m \in Merges : Knows(m)

\* What names the source of a merge that is past it is moved, or came too late.
Gathered(m) ==
  \A x \in Records : at[x] = pair[m].src /\ Past(m, x) =>
    x \in moved[m] \/ x \in missed[m] \/ (x[2] = "fact" /\ m \in bereft)

Gathering == \A m \in Merges : OpenMerge(m) => Gathered(m)

Safe == Kept /\ Brief /\ Held /\ Shares /\ Rows /\ Gathering /\ PersonSurvives

\* Deleting a row waits for who names it and for who has pointed records to it.
LEMMA DeleteWaits ==
  ASSUME Safe, NEW m \in Merges, Statement(m), NEW c \in Contacts, Deleting(m, c)'
  PROVE  /\ \A f \in Filings : ~Naming(f, c)
         /\ \A n \in Merges : moved[n] # {} => pair[n].dst # c
<1>1. Delete(m) /\ c = pair[m].src
  <2>1. mpc'[m] = "commit" /\ pair' = pair
    BY StatementGathers DEF Deleting, Safe, Kept
  <2> QED BY <2>1 DEF Statement, RepointLeads, RepointCommitments, RepointChunks, Update, CopyLinks, Repoint,
                      Unlink, Fold, Deleting, Safe, Kept, TypeOK
<1>2. c \in alive \cup dead /\ pair[m].dst # c
  BY <1>1 DEF Delete, Safe, Rows, Knows, Kept, Moving, Moves, OpenMerge, OpenPlaces
<1>3. \A f \in Filings : ~Naming(f, c)
  BY <1>1, <1>2 DEF Delete, Safe, Held
<1>4. ASSUME NEW n \in Merges, moved[n] # {}, pair[n].dst = c PROVE FALSE
  <2>1. n \in Beside(m) /\ c \in alive
    BY <1>2, <1>4 DEF Beside, Safe, Shares
  <2>2. ~Folding(n, c) /\ ~Sharing(n, c)
    BY <1>1, <2>1 DEF Delete
  <2> QED BY <1>4, <2>2 DEF Folding, Sharing, Safe, Shares
<1> QED BY <1>3, <1>4

\* A commit that takes a record to a merge's source too late is noticed.
LEMMA OvertakeIsNoticed ==
  ASSUME NEW m \in Merges, OpenMerge(m)', Gathered(m), Overtake,
         UNCHANGED <<mpc[m], pair[m], moved[m]>>, bereft \subseteq bereft'
  PROVE  Gathered(m)'
<1>1. missed'[m] = missed[m] \cup {x \in Records : at'[x] # at[x] /\ at'[x] = pair[m].src /\ Past(m, x)}
  BY DEF Overtake
<1>2. \A x \in Records : Past(m, x)' <=> Past(m, x)
  BY DEF Past
<1> QED BY <1>1, <1>2 DEF Gathered

-----------------------------------------------------------------------------
(* The invariant of loss.                                                   *)

\* Filing names rows that exist.
LEMMA FilingIsHeld ==
  ASSUME Safe, NEW f \in Filings, Filing(f)
  PROVE  Brief' /\ Held' /\ Rows'
<1>1. /\ UNCHANGED <<mpc, pair, moved, folded, merged, bereft, dead>>
      /\ alive \subseteq alive'
      /\ \A m \in Merges : OpenMerge(m)' = OpenMerge(m)
  <2>1. UNCHANGED dead /\ alive \subseteq alive'
    BY DEF Filing, GetOrCreate, GetOrCreateAgain, Insert, Derive, CommitFiling, AbortFiling, SetVisibility, book
  <2> QED BY <2>1, FilingIsTyped DEF Safe, Kept, merging, OpenMerge
<1>2. \A g \in Filings \ {f} : fpc'[g] = fpc[g] /\ chosen'[g] = chosen[g]
  BY DEF Filing, GetOrCreate, GetOrCreateAgain, Insert, Derive, CommitFiling, AbortFiling, Close,
         SetVisibility, filing, Safe, Kept, TypeOK
<1>3. chosen[f] \in [Parts -> Contacts \cup {NoContact}] /\ NoContact \notin Contacts
  BY ContactBookAssumption DEF Safe, Kept, TypeOK
<1>4. /\ f \in Leads => fpc'[f] \notin {"again", "derive"} /\ chosen'[f]["chunk"] = NoContact
      /\ \A c \in Contacts : Naming(f, c)' => c \notin dead /\ \A m \in Merges : ~Deleting(m, c)
  <2>1. CASE \E c \in Contacts : GetOrCreate(f, c) \/ GetOrCreateAgain(f, c)
    <3>1. PICK c \in Contacts : GetOrCreate(f, c) \/ GetOrCreateAgain(f, c)
      BY <2>1
    <3>2. CASE GetOrCreate(f, c)
      <4>1. fpc'[f] = "insert" /\ chosen'[f]["chunk"] = chosen[f]["chunk"]
        BY <3>2, <1>3 DEF GetOrCreate, Parts, Safe, Kept, TypeOK
      <4> QED BY <4>1 DEF Naming, Safe, Brief
    <3>3. CASE GetOrCreateAgain(f, c)
      <4>1. fpc[f] = "again" /\ fpc'[f] = "derive" /\ chosen'[f]["row"] = chosen[f]["row"]
        BY <3>3, <1>3 DEF GetOrCreateAgain, Parts, Safe, Kept, TypeOK
      <4> QED BY <4>1 DEF Naming, Safe, Brief, Held
    <3> QED BY <3>1, <3>2, <3>3
  <2>2. CASE Insert(f)
    <3>1. /\ fpc'[f] = (IF f \in Leads THEN "commit" ELSE "again") /\ chosen' = chosen
          /\ chosen[f]["row"] \notin dead /\ \A m \in Merges : ~Deleting(m, chosen[f]["row"])
      BY <2>2 DEF Insert, Safe, Kept, TypeOK
    <3> QED BY <1>3, <3>1 DEF Naming, Safe, Brief
  <2>3. CASE Derive(f)
    <3>1. /\ fpc[f] = "derive" /\ fpc'[f] = "commit" /\ chosen' = chosen
          /\ chosen[f]["chunk"] \notin dead /\ \A m \in Merges : ~Deleting(m, chosen[f]["chunk"])
      BY <2>3 DEF Derive, Safe, Kept, TypeOK
    <3> QED BY <3>1 DEF Naming, Safe, Brief, Held
  <2>4. CASE CommitFiling(f) \/ AbortFiling(f)
    <3>1. fpc'[f] = "done" /\ chosen'[f]["chunk"] = NoContact
      BY <2>4 DEF CommitFiling, AbortFiling, Close, Parts, Safe, Kept, TypeOK
    <3> QED BY <3>1 DEF Naming
  <2>5. CASE \E v \in {"org", "private"} : SetVisibility(f, v)
    <3>1. UNCHANGED <<fpc, chosen>>
      BY <2>5 DEF SetVisibility, filing
    <3> QED BY <3>1 DEF Naming, Safe, Brief, Held
  <2> QED BY <2>1, <2>2, <2>3, <2>4, <2>5 DEF Filing
<1>5. Brief'
  BY <1>2, <1>4 DEF Safe, Brief, Filings
<1>6. Held'
  <2>1. \A m \in Merges, c \in Contacts : Deleting(m, c)' <=> Deleting(m, c)
    BY <1>1 DEF Deleting
  <2>2. \A g \in Filings \ {f}, c \in Contacts : Naming(g, c)' <=> Naming(g, c)
    BY <1>2 DEF Naming
  <2> QED BY <1>1, <1>4, <2>1, <2>2 DEF Safe, Held
<1>7. \A x \in Records : at'[x] # at[x] => at'[x] \in alive'
  <2>1. ASSUME NEW x \in Records, at'[x] # at[x] PROVE at'[x] \in alive'
    <3>1. CommitFiling(f) /\ x[2] \in Written(f) /\ at'[x] = chosen[f][x[2]]
      BY <2>1, FilingWrites DEF Safe
    <3>2. at'[x] \in Contacts /\ Naming(f, at'[x])
      BY <3>1, WritesOnRows
         DEF Naming, CommitFiling, Written, Parts, Safe, Kept, Named, OpenFiling, Filings
    <3> QED BY <3>1, <3>2 DEF CommitFiling, Safe, Held
  <2> QED BY <2>1
<1>8. Rows'
  BY <1>1, <1>7 DEF Safe, Rows, Knows
<1> QED BY <1>5, <1>6, <1>8

\* Filing keeps the invariant: a merge that is past what was filed has missed it.
LEMMA FilingIsSafe ==
  ASSUME Safe, NEW f \in Filings, Filing(f)
  PROVE  Safe'
<1>1. Kept' /\ Brief' /\ Held' /\ Rows'
  BY FilingKeeps, FilingIsHeld DEF Safe
<1>2. UNCHANGED <<mpc, pair, moved, folded, merged, bereft>> /\ alive \subseteq alive'
  <2>1. alive \subseteq alive'
    BY DEF Filing, GetOrCreate, GetOrCreateAgain, Insert, Derive, CommitFiling, AbortFiling, SetVisibility, book
  <2> QED BY <2>1, FilingIsTyped DEF Safe, Kept, merging
<1>3. Shares'
  BY <1>2 DEF Safe, Shares, Deleting
<1>4. Gathering'
  <2>1. ASSUME NEW m \in Merges, OpenMerge(m)' PROVE Gathered(m)'
    <3>1. OpenMerge(m) /\ Gathered(m)
      BY <1>2, <2>1 DEF OpenMerge, Safe, Gathering
    <3>2. CASE CommitFiling(f)
      BY <1>2, <2>1, <3>1, <3>2, OvertakeIsNoticed DEF CommitFiling
    <3>3. CASE ~CommitFiling(f)
      <4>1. UNCHANGED <<at, missed>>
        BY <3>3 DEF Filing, GetOrCreate, GetOrCreateAgain, Insert, Derive, AbortFiling, SetVisibility, book
      <4>2. \A x \in Records : Past(m, x)' <=> Past(m, x)
        BY <1>2 DEF Past
      <4> QED BY <1>2, <3>1, <4>1, <4>2 DEF Gathered
    <3> QED BY <3>2, <3>3
  <2> QED BY <2>1 DEF Gathering
<1>5. PersonSurvives'
  BY <1>2 DEF Safe, PersonSurvives
<1> QED BY <1>1, <1>3, <1>4, <1>5 DEF Safe

\* Merging keeps the rows that are named.
LEMMA MergingIsHeld ==
  ASSUME Safe, NEW m \in Merges, Merging(m)
  PROVE  Brief' /\ Held' /\ Shares' /\ Rows'
<1>1. UNCHANGED <<fpc, chosen>> /\ Brief'
  BY MergingIsTyped DEF filing, Safe, Kept, Brief
<1>2. \A f \in Filings, c \in Contacts : Naming(f, c)' <=> Naming(f, c)
  BY <1>1 DEF Naming
<1>3. \A n \in Merges \ {m} : /\ mpc'[n] = mpc[n] /\ pair'[n] = pair[n] /\ moved'[n] = moved[n]
                              /\ n \in folded' <=> n \in folded
                              /\ OpenMerge(n)' = OpenMerge(n)
                              /\ \A c \in Contacts : Deleting(n, c)' <=> Deleting(n, c)
  BY MergingLeavesOthers DEF Safe, Kept, OpenMerge, Deleting
<1>4. \A n \in Merges : /\ moved[n] # {} => pair[n].dst \in Contacts
                        /\ OpenMerge(n) => pair[n].dst \in Contacts /\ pair[n].src # pair[n].dst
                                           /\ pair[n].src \in Contacts
  BY DEF Safe, Kept, Moving, Moves
<1>5. ASSUME NEW s \in Contacts, NEW d \in Contacts, Opening(m, s, d) PROVE Held' /\ Shares' /\ Rows'
  <2>1. /\ UNCHANGED <<alive, dead, at, moved, folded, bereft>>
        /\ mpc[m] = "idle" /\ mpc'[m] = "leads" /\ pair'[m].src = s /\ pair'[m].dst = d
        /\ s \in alive /\ d \in alive
    BY <1>5 DEF Opening, Open, book, Safe, Kept, TypeOK
  <2>2. moved[m] = {} /\ \A c \in Contacts : ~Deleting(m, c)'
    BY <2>1 DEF Safe, Kept, Moving, Moves, OpenMerge, OpenPlaces, Deleting
  <2>3. Held'
    BY <1>2, <1>3, <2>1, <2>2 DEF Safe, Held
  <2>4. Shares'
    BY <1>3, <1>4, <2>1, <2>2 DEF Safe, Shares
  <2> QED BY <1>3, <2>1, <2>3, <2>4 DEF Safe, Rows, Knows
<1>6. CASE Leave(m)
  <2>1. /\ UNCHANGED <<alive, dead, at, bereft>> /\ moved'[m] = {} /\ ~OpenMerge(m)'
        /\ \A c \in Contacts : ~Deleting(m, c)'
    BY <1>6 DEF Leave, Finish, book, OpenMerge, OpenPlaces, Deleting, Safe, Kept, TypeOK
  <2>2. Held'
    BY <1>2, <1>3, <2>1 DEF Safe, Held
  <2>3. Shares'
    BY <1>3, <1>4, <2>1 DEF Safe, Shares
  <2>4. \A n \in Merges : Knows(n)'
    BY <1>3, <2>1 DEF Safe, Rows, Knows
  <2> QED BY <1>1, <2>1, <2>2, <2>3, <2>4 DEF Safe, Rows
<1>7. CASE Statement(m)
  <2>1. PICK xs \in SUBSET Records : Gathers(m, xs)
    BY <1>7, StatementGathers DEF Safe, Kept
  <2>2. /\ UNCHANGED <<alive, dead, at, pair, bereft>> /\ OpenMerge(m) /\ OpenMerge(m)'
        /\ mpc[m] # "commit" /\ moved'[m] = moved[m] \cup xs /\ folded \subseteq folded'
    BY <1>7, <2>1, StatementGathers DEF Gathers, book, OpenMerge, Safe, Kept, TypeOK
  <2>3. Held'
    BY <1>2, <1>3, <1>7, <2>2, DeleteWaits DEF Safe, Held
  <2>4. ASSUME NEW n \in Merges, moved'[n] # {}
        PROVE  pair[n].dst \in alive /\ \A k \in Merges : ~Deleting(k, pair[n].dst)'
    <3>1. CASE moved[n] # {}
      <4>1. /\ pair[n].dst \in Contacts /\ pair[n].dst \in alive
            /\ \A k \in Merges : ~Deleting(k, pair[n].dst)
        BY <1>4, <3>1 DEF Safe, Shares
      <4>2. ~Deleting(m, pair[n].dst)'
        BY <1>7, <2>2, <3>1, <4>1, DeleteWaits
      <4> QED BY <1>3, <2>2, <4>1, <4>2
    <3>2. CASE moved[n] = {}
      <4>1. n = m /\ xs # {} /\ pair[m].src # pair[m].dst /\ pair[m].dst \in Contacts
        <5>1. n = m
          BY <1>3, <2>4, <3>2
        <5>2. xs # {}
          BY <2>2, <2>4, <3>2, <5>1
        <5> QED BY <1>4, <2>2, <5>1, <5>2
      <4>2. \A k \in Beside(m) : ~Deleting(k, pair[m].dst)'
        BY <1>3, <2>1, <2>2, <4>1 DEF Gathers, Beside
      <4>3. ~Deleting(m, pair[m].dst)'
        BY <2>2, <4>1 DEF Deleting
      <4> QED BY <2>1, <4>1, <4>2, <4>3 DEF Gathers, Beside
    <3> QED BY <3>1, <3>2
  <2>5. \A n \in Merges : \A x \in moved'[n] : x[2] = "fact" => n \in folded'
    BY <1>3, <2>1, <2>2 DEF Gathers, Safe, Shares
  <2>6. Shares'
    BY <2>2, <2>4, <2>5 DEF Shares
  <2>7. \A n \in Merges : Knows(n)'
    BY <1>3, <2>2 DEF Safe, Rows, Knows
  <2> QED BY <1>1, <2>2, <2>3, <2>6, <2>7 DEF Safe, Rows
<1>8. CASE CommitMerge(m)
  <2> DEFINE src == pair[m].src
             dst == pair[m].dst
  <2>1. /\ OpenMerge(m) /\ Deleting(m, src) /\ moved'[m] = {} /\ ~OpenMerge(m)'
        /\ alive' = alive \ {src} /\ dead' = dead \cup {src}
        /\ bereft' = bereft \cup {n \in Beside(m) : OpenMerge(n) /\ pair[n].dst = src}
        /\ \A c \in Contacts : ~Deleting(m, c)'
    BY <1>8 DEF CommitMerge, Finish, OpenMerge, OpenPlaces, Deleting, Safe, Kept, TypeOK
  <2>2. src \in Contacts /\ dst \in Contacts /\ src # dst
    BY <1>4, <2>1
  <2>3. Held'
    BY <1>2, <1>3, <2>1 DEF Safe, Held
  <2>4. Shares'
    BY <1>3, <1>4, <2>1 DEF Safe, Shares
  <2>5. ASSUME NEW x \in Records, at'[x] \in Contacts PROVE at'[x] \in alive'
    <3>1. CASE at'[x] = at[x]
      <4>1. at[x] # src
        BY <1>8, <2>2, <2>5, <3>1, ContactBookAssumption DEF CommitMerge
      <4> QED BY <2>1, <2>5, <3>1, <4>1 DEF Safe, Rows, Knows
    <3>2. CASE at'[x] # at[x]
      <4>1. at'[x] = dst /\ x \in moved[m]
        BY <2>5, <3>2, MergingWrites, ContactBookAssumption DEF Safe
      <4> QED BY <2>1, <2>2, <4>1 DEF Safe, Shares
    <3> QED BY <3>1, <3>2
  <2>6. ASSUME NEW n \in Merges PROVE Knows(n)'
    BY <1>3, <2>1 DEF Safe, Rows, Knows, Beside
  <2>7. Rows'
    BY <2>5, <2>6 DEF Rows
  <2> QED BY <1>1, <2>3, <2>4, <2>7
<1> QED BY <1>1, <1>5, <1>6, <1>7, <1>8, MergingCases

\* A merge gathers what is at its source.
LEMMA MergingGathers ==
  ASSUME Safe, NEW m \in Merges, Merging(m)
  PROVE  Gathering'
<1>1. \A n \in Merges \ {m} : /\ mpc'[n] = mpc[n] /\ pair'[n] = pair[n] /\ moved'[n] = moved[n]
                              /\ OpenMerge(n)' = OpenMerge(n)
                              /\ OpenMerge(n) => Gathered(n)
                              /\ \A x \in Records : Past(n, x)' <=> Past(n, x)
  BY MergingLeavesOthers DEF Safe, Kept, OpenMerge, Gathering, Past
<1>2. CASE CommitMerge(m)
  <2>1. ~OpenMerge(m)' /\ Overtake /\ bereft \subseteq bereft'
    BY <1>2 DEF CommitMerge, Finish, OpenMerge, OpenPlaces, Safe, Kept, TypeOK
  <2> QED BY <1>1, <2>1, OvertakeIsNoticed DEF Gathering
<1>3. CASE Leave(m)
  <2>1. ~OpenMerge(m)' /\ UNCHANGED <<at, bereft>> /\ \A n \in Merges \ {m} : missed'[n] = missed[n]
    BY <1>3 DEF Leave, Finish, book, OpenMerge, OpenPlaces, Safe, Kept, TypeOK
  <2> QED BY <1>1, <2>1 DEF Gathering, Gathered
<1>4. CASE \E s, d \in Contacts : Opening(m, s, d)
  <2>1. mpc'[m] = "leads" /\ UNCHANGED <<at, missed, bereft>>
    BY <1>4 DEF Opening, Open, book, Safe, Kept, TypeOK
  <2>2. \A x \in Records : ~Past(m, x)'
    BY <2>1 DEF Past, OpenPlaces
  <2> QED BY <1>1, <2>1, <2>2 DEF Gathering, Gathered
<1>5. CASE Statement(m)
  <2>1. PICK xs \in SUBSET Records : Gathers(m, xs)
    BY <1>5, StatementGathers DEF Safe, Kept
  <2>2. /\ UNCHANGED <<alive, at, pair, missed, bereft>> /\ OpenMerge(m)
        /\ moved'[m] = moved[m] \cup xs
    BY <1>5, <2>1, StatementGathers DEF Gathers, book, Safe, Kept, TypeOK
  <2>3. ASSUME NEW x \in Records, at[x] = pair[m].src, Past(m, x)'
        PROVE  x \in moved'[m] \/ x \in missed[m] \/ (x[2] = "fact" /\ m \in bereft)
    <3>1. pair[m].src \in Contacts /\ pair[m].src \in alive
      BY <2>2, <2>3 DEF Safe, Rows, Knows, Kept, Moving, Moves
    <3>2. x[1] \in Leads => x[2] = "row"
      <4>1. x = <<x[1], x[2]>> /\ x[1] \in Filings /\ x[2] \in Parts
        BY DEF Records
      <4> QED BY <2>3, <3>1, <4>1, ContactBookAssumption DEF Safe, Kept, Unwritten, Written
    <3>3. CASE Past(m, x)
      BY <2>2, <2>3, <3>3 DEF Safe, Gathering, Gathered
    <3>4. CASE ~Past(m, x)
      <4>1. x \in xs \/ (x[2] = "fact" /\ ~({pair[m].src, pair[m].dst} \subseteq alive))
        BY <2>1, <2>3, <3>2, <3>4 DEF Gathers
      <4> QED BY <2>2, <3>1, <4>1 DEF Safe, Rows, Knows
    <3> QED BY <3>3, <3>4
  <2>4. Gathered(m)'
    BY <2>2, <2>3 DEF Gathered
  <2> QED BY <1>1, <2>2, <2>4 DEF Gathering, Gathered
<1> QED BY <1>2, <1>3, <1>4, <1>5, MergingCases

\* Merging keeps the invariant, and leaves a row.
LEMMA MergingIsSafe ==
  ASSUME Safe, NEW m \in Merges, Merging(m)
  PROVE  Safe'
<1>1. PersonSurvives'
  <2>1. CASE CommitMerge(m)
    <3>1. /\ OpenMerge(m) /\ pair[m].src # pair[m].dst
          /\ alive' = alive \ {pair[m].src} /\ m \in merged' /\ bereft \subseteq bereft'
      BY <2>1 DEF CommitMerge, OpenMerge, OpenPlaces, Safe, Kept, Moving, Moves
    <3>2. pair[m].dst \in alive \/ m \in bereft
      BY <3>1 DEF Safe, Rows, Knows
    <3> QED BY <3>1, <3>2 DEF PersonSurvives
  <2>2. CASE ~CommitMerge(m)
    <3>1. UNCHANGED <<alive, merged, bereft>>
      BY <2>2, MergingCases, StatementGathers DEF Opening, Open, Leave, book, Safe, Kept
    <3> QED BY <3>1 DEF Safe, PersonSurvives
  <2> QED BY <2>1, <2>2
<1> QED BY <1>1, MergingKeeps, MergingIsHeld, MergingGathers DEF Safe

\* Every behaviour is safe.
LEMMA BookIsSafe == Spec => []Safe
<1>1. Init => Safe
  <2> SUFFICES ASSUME Init PROVE Safe
    OBVIOUS
  <2>1. /\ \A m \in Merges : ~OpenMerge(m) /\ moved[m] = {}
        /\ \A f \in Filings : fpc[f] = "new" /\ chosen[f]["chunk"] = NoContact
        /\ \A x \in Records : at[x] \notin Contacts
        /\ merged = {}
    BY ContactBookAssumption DEF Init, OpenMerge, OpenPlaces, Parts
  <2> QED BY <2>1, KeptInit
          DEF Safe, Brief, Held, Naming, Shares, Rows, Knows, Gathering, PersonSurvives, Filings
<1>2. Safe /\ [Next]_vars => Safe'
  <2> SUFFICES ASSUME Safe, [Next]_vars PROVE Safe'
    OBVIOUS
  <2>1. CASE Next
    BY <2>1, FilingIsSafe, MergingIsSafe DEF Next
  <2>2. CASE UNCHANGED vars
    <3>1. /\ UNCHANGED <<alive, dead, at, fpc, chosen, mpc, pair, moved, folded, merged, missed, bereft>>
          /\ UNCHANGED <<visibility, derived, onRecord>>
      BY <2>2 DEF vars, book, reads, filing, merging
    <3>2. Kept'
      BY <3>1 DEF Safe, Kept, TypeOK, Named, Unwritten, Shown, Moving, Moves, OpenMerge, OpenFiling
    <3>3. Brief' /\ Held' /\ Shares' /\ Rows' /\ PersonSurvives'
      BY <3>1 DEF Safe, Brief, Held, Naming, Deleting, Shares, Rows, Knows, OpenMerge, PersonSurvives
    <3>4. Gathering'
      BY <3>1 DEF Safe, Gathering, Gathered, OpenMerge, Past
    <3> QED BY <3>2, <3>3, <3>4 DEF Safe
  <2> QED BY <2>1, <2>2
<1> QED BY <1>1, <1>2, PTL DEF Spec

\* Merging duplicates loses no work but what is committed at the deleted row
\* after the merge's statement for its table, or, a fact, when the merge's
\* target is gone before it folds (contacts.merge: everything "moves cleanly").
THEOREM MergesLoseNothing == Spec => NothingLost
<1>1. Safe /\ [Next]_vars => [LostCleanly]_vars
  <2> SUFFICES ASSUME Safe, Next, NEW x \in Records, at'[x] = Lost, at[x] # Lost
               PROVE  \E m \in Merges : /\ mpc[m] = "commit" /\ pair[m].src = at[x]
                                        /\ x \in missed[m] \/ (x[2] = "fact" /\ m \in bereft)
    BY DEF LostCleanly
  <2>1. CASE \E f \in Filings : Filing(f)
    <3>1. PICK f \in Filings : Filing(f)
      BY <2>1
    <3>2. CommitFiling(f) /\ x[2] \in Written(f) /\ at'[x] = chosen[f][x[2]]
      BY <3>1, FilingWrites DEF Safe
    <3> QED BY <3>2, WritesOnRows, ContactBookAssumption DEF Safe, Kept
  <2>2. CASE \E m \in Merges : Merging(m)
    <3>1. PICK m \in Merges : Merging(m)
      BY <2>2
    <3>2. mpc[m] = "commit" /\ at[x] = pair[m].src /\ x \notin moved[m]
      BY <3>1, MergingWrites DEF Safe, CommitMerge
    <3>3. OpenMerge(m) /\ Past(m, x)
      BY <3>2, PastPlaces DEF OpenMerge, OpenPlaces
    <3> QED BY <3>2, <3>3 DEF Safe, Gathering, Gathered
  <2> QED BY <2>1, <2>2 DEF Next
<1> QED BY <1>1, BookIsSafe, PTL DEF Spec, NothingLost

\* A merge that reported True left the person a row, unless a merge whose target
\* another one had deleted reported True too (contacts.merge).
THEOREM MergesLeaveARow == Spec => []PersonSurvives
<1>1. Safe => PersonSurvives
  BY DEF Safe
<1> QED BY BookIsSafe, <1>1, PTL
=============================================================================
