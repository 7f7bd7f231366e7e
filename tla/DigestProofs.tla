---------------------------- MODULE DigestProofs ----------------------------
(***************************************************************************)
(* Theorems of Digest, for any users, timezones, items, faults and bounds, *)
(* and of WorkingDay, for any calendar and working day.                    *)
(*                                                                         *)
(* The argument: a run keeps, of everyone left in it, that her 08:00 had   *)
(* come when it chose her and that the day then was past her stamp         *)
(* (Awaited); the date it took and the items it read are of the one in     *)
(* hand, and between the send and the commit her last digest is the one    *)
(* that is not recorded yet (InHand).  So a digest that arrives is of a    *)
(* later day than any that was recorded (Recorded).                        *)
(*                                                                         *)
(* The calendar: sorted is a total order of places, the early break of     *)
(* overlaps loses nothing in a sorted day, and after each round of its     *)
(* loop free_minutes holds blocks that are apart and cover what was read   *)
(* (Merging).  Loops are unrolled by counting up to their last round.      *)
(***************************************************************************)
EXTENDS Digest, WorkingDay, FiniteSetTheorems, SequenceTheorems, WellFoundedInduction,
        TLAPS

Current(u) == u \in left /\ \A v \in left : Rank[u] <= Rank[v]

\* What is recorded has arrived, and the stamp is the latest of its days.
Recorded ==
  \A u \in Users : /\ thread[u] \subseteq DOMAIN arrived[u]
                   /\ \A j \in thread[u] : arrived[u][j].day <= lastDigest[u]

Awaited ==
  /\ chosen <= now
  /\ \A u \in left : /\ LocalTick(u, chosen) >= SendTick
                     /\ lastDigest[u] < LocalDay(u, chosen)

InHand ==
  \A u \in Users : Current(u) /\ pc \in {"compose", "doomed", "send", "record"} =>
    /\ LocalDay(u, chosen) <= today /\ today <= LocalDay(u, now)
    /\ \A i \in listed : Owner[i] = u

Unrecorded ==
  \A u \in Users : Current(u) /\ pc = "record" =>
    LET last == Len(arrived[u]) IN
    /\ last > 0 /\ arrived[u][last].day = today /\ last \notin thread[u]
    /\ \A i \in Items : Owner[i] = u =>
         /\ i \in listed => nudges[i] < told[i]
         /\ thread[u] = DOMAIN arrived[u] \ {last} =>
              told[i] = nudges[i] + (IF i \in listed THEN 1 ELSE 0)

History == /\ Recorded /\ StampHasDigest /\ OnePerDayOnceRecorded
           /\ EarlyOnlyPastMidnight /\ NudgesAreExact
Plan == Awaited /\ InHand /\ Unrecorded
Sound == TypeOK /\ History /\ Plan

-----------------------------------------------------------------------------
(* Local time.                                                              *)

\* Quotient and remainder.
LEMMA Euclid ==
  ASSUME NEW a \in Nat, NEW d \in Nat \ {0}
  PROVE  /\ a \div d \in Nat /\ a % d \in 0..(d - 1)
         /\ a = d * (a \div d) + (a % d)
  BY Z3

\* They grow with the dividend, the remainder within one quotient.
LEMMA DivMonotone ==
  ASSUME NEW a \in Nat, NEW b \in Nat, a <= b, NEW d \in Nat \ {0}
  PROVE  /\ a \div d <= b \div d
         /\ a \div d = b \div d => a % d <= b % d
<1> DEFINE p == a \div d
           q == b \div d
<1>1. p \in Nat /\ a = d * p + (a % d) /\ a % d \in 0..(d - 1)
  BY Euclid
<1>2. q \in Nat /\ b = d * q + (b % d) /\ b % d \in 0..(d - 1)
  BY Euclid
<1> HIDE DEF p, q
<1>3. ASSUME p > q PROVE FALSE
  <2>1. p - q - 1 \in Nat
    BY <1>1, <1>2, <1>3
  <2>2. d * (p - q - 1) \in Nat
    BY <2>1
  <2>3. d * p = d * q + d + d * (p - q - 1)
    BY <1>1, <1>2
  <2>4. d * p \in Nat /\ d * q \in Nat
    BY <1>1, <1>2
  <2> QED BY <1>1, <1>2, <2>2, <2>3, <2>4
<1>4. p = q => a % d <= b % d
  <2>1. d * q \in Nat
    BY <1>2
  <2> QED BY <1>1, <1>2, <2>1
<1>5. p <= q
  BY <1>1, <1>2, <1>3
<1> QED BY <1>4, <1>5 DEF p, q

\* Time passes on everybody's calendar in the same direction, and within a day
\* on her clock.
LEMMA LocalTime ==
  ASSUME NEW u \in Users, NEW s \in Nat, NEW t \in Nat, s <= t
  PROVE  /\ LocalDay(u, s) \in Nat /\ LocalDay(u, t) \in Nat
         /\ LocalDay(u, s) <= LocalDay(u, t)
         /\ LocalTick(u, s) \in Nat /\ LocalTick(u, t) \in Nat
         /\ LocalDay(u, s) = LocalDay(u, t) => LocalTick(u, s) <= LocalTick(u, t)
<1> DEFINE a == s + Offset[u]
           b == t + Offset[u]
<1>1. a \in Nat /\ b \in Nat /\ a <= b
  BY DigestAssumption
<1>2. TicksPerDay \in Nat \ {0}
  BY DigestAssumption
<1> HIDE DEF a, b
<1>3. /\ a \div TicksPerDay \in Nat /\ a % TicksPerDay \in Nat
      /\ b \div TicksPerDay \in Nat /\ b % TicksPerDay \in Nat
  BY <1>1, <1>2, Euclid
<1>4. /\ a \div TicksPerDay <= b \div TicksPerDay
      /\ a \div TicksPerDay = b \div TicksPerDay => a % TicksPerDay <= b % TicksPerDay
  BY <1>1, <1>2, DivMonotone
<1> QED BY <1>3, <1>4 DEF LocalDay, LocalTick, a, b

-----------------------------------------------------------------------------
(* Types.                                                                   *)

\* The initial state is sound.
LEMMA SoundInit == Init => Sound
<1> SUFFICES ASSUME Init PROVE Sound
  OBVIOUS
<1> USE DigestAssumption DEF Init
<1>1. TypeOK
  BY DEF TypeOK, Places, NoDay, Days
<1>2. \A u \in Users : LocalDay(u, 0) \in Nat
  BY LocalTime
<1>3. History
  BY <1>2 DEF History, Recorded, StampHasDigest, OnePerDayOnceRecorded,
              EarlyOnlyPastMidnight, NudgesAreExact, NoDay
<1>4. Plan
  BY DEF Plan, Awaited, InHand, Unrecorded
<1> QED BY <1>1, <1>3, <1>4 DEF Sound

\* The end of a recipient keeps the types of what the job holds.
LEMMA NextIsTyped ==
  ASSUME TypeOK, NEW u \in Users, NextRecipient(u)
  PROVE  /\ left' \subseteq left /\ left' \subseteq Users
         /\ pc' \in {"asleep", "read"} /\ pc' \in Places
         /\ chosen' \in 0..MaxTick /\ (left' # {} => chosen' = chosen)
         /\ listed' = {} /\ today' \in Days
  BY DigestAssumption DEF NextRecipient, TypeOK, Places, NoDay, Days

\* Every step keeps the types.
LEMMA TypedStep == TypeOK /\ [Next]_vars => TypeOK'
<1> SUFFICES ASSUME TypeOK, [Next]_vars PROVE TypeOK'
  OBVIOUS
<1> USE DigestAssumption
<1>1. CASE UNCHANGED vars
  BY <1>1 DEF vars, rows, items, ghost, job, TypeOK
<1>2. CASE Tick
  BY <1>2 DEF Tick, rows, items, ghost, job, TypeOK
<1>3. ASSUME NEW u \in Users, Deactivate(u) PROVE TypeOK'
  BY <1>3 DEF Deactivate, rows, items, ghost, job, TypeOK
<1>4. ASSUME NEW i \in Items, File(i) \/ Snooze(i) \/ Close(i) \/ Reopen(i) PROVE TypeOK'
  <2>1. PICK v \in {"unfiled", "open", "closed"}, d \in Nat : Edit(i, v, d)
    BY <1>4 DEF File, Snooze, Close, Reopen, TypeOK
  <2> QED BY <2>1 DEF Edit, rows, ghost, job, TypeOK
<1>5. CASE Wake \/ Select \/ Restart
  <2>1. /\ left' \subseteq Users /\ pc' \in Places /\ chosen' \in 0..MaxTick
        /\ listed' \subseteq Items /\ today' \in Days
    BY <1>5 DEF Wake, Select, Restart, TypeOK, Places, NoDay, Days
  <2> QED BY <1>5, <2>1 DEF Wake, Select, Restart, Fault, rows, items, ghost, TypeOK
<1>6. ASSUME NEW u \in Users, Read(u) PROVE TypeOK'
  <2>1. /\ left' \subseteq Users /\ pc' \in Places /\ chosen' \in 0..MaxTick
        /\ listed' \subseteq Items /\ today' \in Days
    <3>1. LocalDay(u, now) \in Days
      BY LocalTime DEF TypeOK, Days
    <3>2. CASE NextRecipient(u)
      BY <3>2, NextIsTyped
    <3>3. CASE ~NextRecipient(u)
      BY <1>6, <3>1, <3>3 DEF Read, DueItems, TypeOK, Places
    <3> QED BY <3>2, <3>3
  <2> QED BY <1>6, <2>1 DEF Read, rows, items, ghost, TypeOK
<1>7. ASSUME NEW u \in Users, Compose(u) PROVE TypeOK'
  BY <1>7 DEF Compose, rows, items, ghost, TypeOK, Places
<1>8. ASSUME NEW u \in Users, Doomed(u) \/ Skip(u) \/ RecordFails(u) PROVE TypeOK'
  BY <1>8, NextIsTyped, SMTT(30) DEF Doomed, Skip, RecordFails, Fault, rows, items, ghost, TypeOK
<1>9. ASSUME NEW u \in Users, Arrive(u), SendAccepted(u) \/ SendLost(u) PROVE TypeOK'
  <2>1. [at |-> now, day |-> today, chosen |-> chosen] \in Arrival
    BY DEF TypeOK, Arrival
  <2>2. arrived' \in [Users -> Seq(Arrival)]
    BY <1>9, <2>1 DEF Arrive, TypeOK
  <2>3. told' \in [Items -> Nat]
    BY <1>9, SMTT(30) DEF Arrive, TypeOK
  <2>4. /\ left' \subseteq Users /\ pc' \in Places /\ chosen' \in 0..MaxTick
        /\ listed' \subseteq Items /\ today' \in Days
    BY <1>9, NextIsTyped DEF SendAccepted, SendLost, TypeOK, Places
  <2>5. state' = state /\ due' = due /\ happenings' \in Nat
    BY <1>9 DEF SendAccepted, SendLost, Fault, items, TypeOK
  <2> QED BY <1>9, <2>2, <2>3, <2>4, <2>5 DEF Arrive, rows, TypeOK
<1>10. ASSUME NEW u \in Users, Record(u) PROVE TypeOK'
  <2>1. nudges' \in [Items -> Nat] /\ lastDigest' \in [Users -> Days]
    BY <1>10 DEF Record, TypeOK
  <2>2. Len(arrived[u]) \in Nat
    BY DEF TypeOK
  <2>3. thread' \in [Users -> SUBSET Nat]
    BY <1>10, <2>2 DEF Record, TypeOK
  <2> QED BY <1>10, <2>1, <2>3, NextIsTyped DEF Record, items, ghost, TypeOK
<1> QED BY <1>1, <1>2, <1>3, <1>4, <1>5, <1>6, <1>7, <1>8, <1>9, <1>10
       DEF Next, JobStep, Recipient, SendAccepted, SendLost

-----------------------------------------------------------------------------
(* What has arrived and what is recorded.                                   *)

\* A step that neither sends nor records keeps the history true.
LEMMA HistoryKept ==
  ASSUME TypeOK, TypeOK', History, now <= now', UNCHANGED <<rows, ghost>>
  PROVE  History'
<1>1. UNCHANGED <<lastDigest, nudges, thread, told, arrived>>
  BY DEF rows, ghost
<1>2. Recorded' /\ OnePerDayOnceRecorded' /\ EarlyOnlyPastMidnight' /\ NudgesAreExact'
  BY <1>1 DEF History, Recorded, OnePerDayOnceRecorded, EarlyOnlyPastMidnight, NudgesAreExact
<1>3. StampHasDigest'
  <2>1. \A u \in Users : LocalDay(u, now) <= LocalDay(u, now') /\ LocalDay(u, now) \in Nat
                         /\ LocalDay(u, now') \in Nat /\ lastDigest[u] \in Int
    <3>1. now \in Nat /\ now' \in Nat
      BY DigestAssumption DEF TypeOK
    <3>2. \A u \in Users : lastDigest[u] \in Int
      BY DEF TypeOK, Days
    <3> QED BY <3>1, <3>2, LocalTime
  <2> QED BY <1>1, <2>1 DEF History, StampHasDigest
<1> QED BY <1>2, <1>3 DEF History

\* A sequence with one more element.
LEMMA OneMore ==
  ASSUME NEW S, NEW s \in Seq(S), NEW e \in S
  PROVE  /\ Len(s) + 1 \in Nat \ {0} /\ Len(Append(s, e)) = Len(s) + 1
         /\ DOMAIN Append(s, e) = DOMAIN s \cup {Len(s) + 1}
         /\ Len(s) + 1 \notin DOMAIN s /\ \A j \in DOMAIN s : j < Len(s) + 1
         /\ Append(s, e)[Len(s) + 1] = e
         /\ \A j \in DOMAIN s : Append(s, e)[j] = s[j]
<1>1. Len(s) \in Nat /\ DOMAIN s = 1..Len(s)
  OBVIOUS
<1>2. Append(s, e) \in Seq(S) /\ Len(Append(s, e)) = Len(s) + 1
  OBVIOUS
<1>3. DOMAIN Append(s, e) = 1..(Len(s) + 1)
  BY <1>2
<1>4. \A j \in 1..Len(s) : Append(s, e)[j] = s[j]
  OBVIOUS
<1>5. Append(s, e)[Len(s) + 1] = e
  OBVIOUS
<1> QED BY <1>1, <1>2, <1>3, <1>4, <1>5

\* What Arrive adds is one digest at the end of hers, of the day in hand.
LEMMA Arrival1 ==
  ASSUME TypeOK, NEW u \in Users, Arrive(u)
  PROVE  LET new == Len(arrived[u]) + 1
         IN  /\ new \in Nat \ {0} /\ Len(arrived'[u]) = new
             /\ DOMAIN arrived'[u] = DOMAIN arrived[u] \cup {new}
             /\ new \notin DOMAIN arrived[u] /\ \A j \in DOMAIN arrived[u] : j < new
             /\ arrived'[u][new] = [at |-> now, day |-> today, chosen |-> chosen]
             /\ \A j \in DOMAIN arrived[u] : arrived'[u][j] = arrived[u][j]
             /\ \A v \in Users \ {u} : arrived'[v] = arrived[v]
<1>1. arrived[u] \in Seq(Arrival)
  BY DEF TypeOK
<1>2. arrived'[u] = Append(arrived[u], [at |-> now, day |-> today, chosen |-> chosen])
      /\ \A v \in Users \ {u} : arrived'[v] = arrived[v]
  BY DEF TypeOK, Arrive
<1>3. [at |-> now, day |-> today, chosen |-> chosen] \in Arrival
  BY DigestAssumption DEF TypeOK, Arrival
<1> QED BY <1>1, <1>2, <1>3, OneMore

\* A digest that arrives is of a later day than any recorded one, and is early
\* only past a midnight.
LEMMA ArriveKeeps ==
  ASSUME Sound, NEW u \in Users, Arrive(u)
  PROVE  History'
<1> USE DEF Sound
<1> DEFINE new == Len(arrived[u]) + 1
<1>1. /\ new \in Nat \ {0}
      /\ DOMAIN arrived'[u] = DOMAIN arrived[u] \cup {new}
      /\ new \notin DOMAIN arrived[u] /\ \A j \in DOMAIN arrived[u] : j < new
      /\ arrived'[u][new] = [at |-> now, day |-> today, chosen |-> chosen]
      /\ \A j \in DOMAIN arrived[u] : arrived'[u][j] = arrived[u][j]
      /\ \A v \in Users \ {u} : arrived'[v] = arrived[v]
  BY Arrival1
<1>2. /\ UNCHANGED <<lastDigest, nudges, thread, now>>
      /\ told' = [i \in Items |-> IF i \in listed THEN told[i] + 1 ELSE told[i]]
      /\ Current(u) /\ pc = "send"
  BY DEF Arrive, At, Current, rows
<1>3. /\ chosen \in Nat /\ now \in Nat /\ chosen <= now /\ today \in Int
      /\ lastDigest[u] < LocalDay(u, chosen) /\ LocalTick(u, chosen) >= SendTick
      /\ LocalDay(u, chosen) <= today /\ today <= LocalDay(u, now)
      /\ \A i \in listed : Owner[i] = u
  BY <1>2, DigestAssumption, SMTT(30) DEF TypeOK, Days, Plan, Awaited, InHand, Current
<1>4. /\ LocalDay(u, chosen) \in Nat /\ LocalDay(u, now) \in Nat
      /\ LocalDay(u, chosen) <= LocalDay(u, now)
      /\ LocalTick(u, chosen) \in Nat /\ LocalTick(u, now) \in Nat
      /\ LocalDay(u, chosen) = LocalDay(u, now) => LocalTick(u, chosen) <= LocalTick(u, now)
  BY <1>3, LocalTime
<1>5. /\ lastDigest \in [Users -> Int] /\ thread \in [Users -> SUBSET Nat]
      /\ \A v \in Users : \A j \in DOMAIN arrived[v] :
           arrived[v][j].day \in Int /\ j \in Nat
  <2>1. \A v \in Users : arrived[v] \in Seq(Arrival)
    BY DEF TypeOK
  <2>2. \A v \in Users : \A j \in DOMAIN arrived[v] : arrived[v][j] \in Arrival /\ j \in Nat
    BY <2>1
  <2> QED BY <2>2 DEF TypeOK, Arrival, Days
<1> HIDE DEF new
<1>6. Recorded'
  BY <1>1, <1>2 DEF History, Recorded
<1>7. StampHasDigest'
  BY <1>1, <1>2 DEF History, StampHasDigest, Recorded
<1>8. OnePerDayOnceRecorded'
  <2> SUFFICES ASSUME NEW v \in Users, NEW j \in DOMAIN arrived'[v], NEW k \in DOMAIN arrived'[v],
                      j < k, arrived'[v][j].day = arrived'[v][k].day, j \in thread[v]
               PROVE  FALSE
    BY <1>2 DEF OnePerDayOnceRecorded
  <2>1. CASE v # u
    BY <1>1, <2>1 DEF History, OnePerDayOnceRecorded
  <2>2. CASE v = u /\ k = new
    <3>1. j \in DOMAIN arrived[u] /\ arrived[u][j].day <= lastDigest[u]
      BY <2>2, <1>1 DEF History, Recorded
    <3>2. arrived[u][j].day = today
      BY <3>1, <2>2, <1>1
    <3> QED BY <3>1, <3>2, <1>3, <1>4, <1>5
  <2>3. CASE v = u /\ k # new
    <3>1. k \in DOMAIN arrived[u] /\ j \in DOMAIN arrived[u]
      BY <2>3, <1>1 DEF History, Recorded
    <3> QED BY <3>1, <2>3, <1>1 DEF History, OnePerDayOnceRecorded
  <2> QED BY <2>1, <2>2, <2>3
<1>9. EarlyOnlyPastMidnight'
  <2> SUFFICES ASSUME NEW v \in Users, NEW k \in DOMAIN arrived'[v],
                      LocalTick(v, arrived'[v][k].at) < SendTick
               PROVE  LocalDay(v, arrived'[v][k].chosen) < LocalDay(v, arrived'[v][k].at)
    BY DEF EarlyOnlyPastMidnight
  <2>1. CASE v = u /\ k = new
    <3>1. arrived'[v][k].at = now /\ arrived'[v][k].chosen = chosen
      BY <2>1, <1>1
    <3> QED BY <3>1, <2>1, <1>3, <1>4, DigestAssumption
  <2>2. CASE ~(v = u /\ k = new)
    <3>1. k \in DOMAIN arrived[v] /\ arrived'[v][k] = arrived[v][k]
      BY <2>2, <1>1
    <3> QED BY <3>1 DEF History, EarlyOnlyPastMidnight
  <2> QED BY <2>1, <2>2
<1>10. NudgesAreExact'
  <2> SUFFICES ASSUME NEW i \in Items
               PROVE  /\ nudges[i] <= told'[i]
                      /\ thread[Owner[i]] = DOMAIN arrived'[Owner[i]] => nudges[i] = told'[i]
    BY <1>2 DEF NudgesAreExact
  <2>1. nudges[i] \in Nat /\ told[i] \in Nat /\ nudges[i] <= told[i]
    BY DEF TypeOK, History, NudgesAreExact
  <2>2. nudges[i] <= told'[i]
    BY <1>2, <2>1
  <2>3. CASE Owner[i] = u
    <3>1. thread[u] # DOMAIN arrived'[u]
      BY <1>1 DEF History, Recorded
    <3> QED BY <2>2, <2>3, <3>1
  <2>4. CASE Owner[i] # u
    <3>1. told'[i] = told[i] /\ arrived'[Owner[i]] = arrived[Owner[i]]
      BY <2>4, <1>1, <1>2, <1>3, DigestAssumption
    <3> QED BY <2>2, <3>1 DEF History, NudgesAreExact
  <2> QED BY <2>3, <2>4
<1> QED BY <1>6, <1>7, <1>8, <1>9, <1>10 DEF History

\* Recording makes the last digest the recorded one of its day, and the counts
\* those that were told.
LEMMA RecordKeeps ==
  ASSUME Sound, NEW u \in Users, Record(u)
  PROVE  History'
<1> USE DEF Sound
<1> DEFINE last == Len(arrived[u])
<1>1. /\ UNCHANGED <<now, told, arrived>>
      /\ nudges' = [i \in Items |-> IF i \in listed THEN nudges[i] + 1 ELSE nudges[i]]
      /\ thread'[u] = thread[u] \cup {last} /\ lastDigest'[u] = today
      /\ \A v \in Users \ {u} : thread'[v] = thread[v] /\ lastDigest'[v] = lastDigest[v]
      /\ Current(u) /\ pc = "record"
  BY DEF Record, At, Current, ghost, TypeOK
<1>2. /\ last > 0 /\ arrived[u][last].day = today /\ last \notin thread[u]
      /\ LocalDay(u, chosen) <= today /\ today <= LocalDay(u, now)
      /\ lastDigest[u] < LocalDay(u, chosen)
      /\ \A i \in listed : Owner[i] = u
  BY <1>1 DEF Plan, Awaited, InHand, Unrecorded, Current
<1>3. \A i \in Items : Owner[i] = u =>
        /\ i \in listed => nudges[i] < told[i]
        /\ thread[u] = DOMAIN arrived[u] \ {last} =>
             told[i] = nudges[i] + (IF i \in listed THEN 1 ELSE 0)
  BY <1>1 DEF Plan, Unrecorded
<1>4. /\ chosen \in Nat /\ now \in Nat /\ LocalDay(u, chosen) \in Nat /\ LocalDay(u, now) \in Nat
      /\ today \in Int /\ lastDigest \in [Users -> Int] /\ thread \in [Users -> SUBSET Nat]
      /\ last \in Nat /\ DOMAIN arrived[u] = 1..last /\ last \in DOMAIN arrived[u]
  <2>1. arrived[u] \in Seq(Arrival)
    BY DEF TypeOK
  <2>2. chosen \in Nat /\ now \in Nat /\ chosen <= now
    BY DigestAssumption DEF TypeOK, Plan, Awaited
  <2>3. LocalDay(u, chosen) \in Nat /\ LocalDay(u, now) \in Nat
    BY <2>2, LocalTime
  <2> QED BY <2>1, <2>2, <2>3, <1>2 DEF TypeOK, Days
<1>5. \A j \in thread[u] : arrived[u][j].day \in Int /\ arrived[u][j].day < today
  <2>1. \A j \in thread[u] : arrived[u][j] \in Arrival /\ arrived[u][j].day <= lastDigest[u]
    BY DEF TypeOK, History, Recorded
  <2> QED BY <2>1, <1>2, <1>4, SMTT(30) DEF Arrival, Days
<1> HIDE DEF last
<1>6. Recorded'
  <2> SUFFICES ASSUME NEW v \in Users
               PROVE  /\ thread'[v] \subseteq DOMAIN arrived[v]
                      /\ \A j \in thread'[v] : arrived[v][j].day <= lastDigest'[v]
    BY <1>1 DEF Recorded
  <2>1. CASE v = u
    <3>1. \A j \in thread[u] : arrived[u][j].day <= today
      BY <1>4, <1>5
    <3>2. arrived[u][last].day <= today
      BY <1>2, <1>4
    <3> QED BY <2>1, <3>1, <3>2, <1>1, <1>4 DEF History, Recorded
  <2>2. CASE v # u
    BY <2>2, <1>1 DEF History, Recorded
  <2> QED BY <2>1, <2>2
<1>7. StampHasDigest'
  BY <1>1, <1>2, <1>4 DEF History, StampHasDigest
<1>8. OnePerDayOnceRecorded'
  <2> SUFFICES ASSUME NEW v \in Users, NEW j \in DOMAIN arrived[v], NEW k \in DOMAIN arrived[v],
                      j < k, arrived[v][j].day = arrived[v][k].day, j \in thread'[v]
               PROVE  FALSE
    BY <1>1 DEF OnePerDayOnceRecorded
  <2>1. j \in thread[v]
    BY <1>1, <1>4
  <2> QED BY <2>1 DEF History, OnePerDayOnceRecorded
<1>9. EarlyOnlyPastMidnight'
  BY <1>1 DEF History, EarlyOnlyPastMidnight
<1>10. NudgesAreExact'
  <2> SUFFICES ASSUME NEW i \in Items
               PROVE  /\ nudges'[i] <= told[i]
                      /\ thread'[Owner[i]] = DOMAIN arrived[Owner[i]] => nudges'[i] = told[i]
    BY <1>1 DEF NudgesAreExact
  <2>1. /\ nudges[i] \in Nat /\ told[i] \in Nat /\ nudges[i] <= told[i]
        /\ thread[Owner[i]] = DOMAIN arrived[Owner[i]] => nudges[i] = told[i]
    BY DEF TypeOK, History, NudgesAreExact
  <2>2. nudges'[i] = IF i \in listed THEN nudges[i] + 1 ELSE nudges[i]
    BY <1>1
  <2>3. CASE Owner[i] = u
    <3>1. nudges'[i] <= told[i]
      BY <1>3, <2>1, <2>2, <2>3
    <3>2. ASSUME thread'[u] = DOMAIN arrived[u] PROVE nudges'[i] = told[i]
      <4>1. thread[u] = DOMAIN arrived[u] \ {last}
        BY <3>2, <1>1, <1>2
      <4> QED BY <4>1, <1>3, <2>1, <2>2, <2>3
    <3> QED BY <2>3, <3>1, <3>2
  <2>4. CASE Owner[i] # u
    BY <2>1, <2>2, <2>4, <1>1, <1>2, DigestAssumption
  <2> QED BY <2>3, <2>4
<1> QED BY <1>6, <1>7, <1>8, <1>9, <1>10 DEF History

-----------------------------------------------------------------------------
(* What the job has in hand.                                                *)

\* There is one current recipient.
LEMMA OneCurrent ==
  ASSUME NEW u \in Users, NEW v \in Users, Current(u), Current(v)
  PROVE  u = v
<1>1. Rank[u] <= Rank[v] /\ Rank[v] <= Rank[u] /\ Rank[u] \in Nat /\ Rank[v] \in Nat
  BY DigestAssumption DEF Current
<1> QED BY <1>1, DigestAssumption

\* A recipient is over: of the others nothing has changed.
LEMMA NextKeepsPlan ==
  ASSUME TypeOK, Plan, NEW u \in Users, NextRecipient(u), now' = now,
         \A v \in Users \ {u} : lastDigest'[v] = lastDigest[v]
  PROVE  Plan'
<1>1. left' = left \ {u} /\ (left' # {} => chosen' = chosen) /\ (left' = {} => chosen' = 0)
  BY DEF NextRecipient
<1>2. Awaited'
  <2>1. chosen' <= now'
    BY <1>1, DigestAssumption DEF Plan, Awaited, TypeOK
  <2>2. ASSUME NEW v \in left'
        PROVE  LocalTick(v, chosen') >= SendTick /\ lastDigest'[v] < LocalDay(v, chosen')
    <3>1. v \in left /\ v \in Users \ {u} /\ chosen' = chosen
      BY <1>1, <2>2 DEF TypeOK
    <3> QED BY <3>1 DEF Plan, Awaited
  <2> QED BY <2>1, <2>2 DEF Awaited
<1>3. InHand' /\ Unrecorded'
  BY DEF NextRecipient, InHand, Unrecorded
<1> QED BY <1>2, <1>3 DEF Plan

\* Whatever the world does around the job, its plan holds.
LEMMA WorldKeepsPlan ==
  ASSUME TypeOK, TypeOK', Plan, now <= now', UNCHANGED <<rows, ghost, job>>
  PROVE  Plan'
<1>1. /\ UNCHANGED <<lastDigest, nudges, thread, told, arrived>>
      /\ UNCHANGED <<pc, chosen, left, listed, today>>
  BY DEF rows, ghost, job
<1>2. now \in Nat /\ now' \in Nat /\ chosen \in Nat /\ today \in Int
  BY DigestAssumption DEF TypeOK, Days
<1>3. Awaited'
  BY <1>1, <1>2 DEF Plan, Awaited
<1>4. InHand'
  <2>1. \A u \in Users : /\ LocalDay(u, now) <= LocalDay(u, now')
                         /\ LocalDay(u, now) \in Nat /\ LocalDay(u, now') \in Nat
    BY <1>2, LocalTime
  <2> QED BY <1>1, <1>2, <2>1 DEF Plan, InHand, Current
<1>5. Unrecorded'
  BY <1>1 DEF Plan, Unrecorded, Current
<1> QED BY <1>3, <1>4, <1>5 DEF Plan

\* Those that a run chooses are past their stamp and their 08:00.
LEMMA SelectPlans ==
  ASSUME TypeOK, History, Select
  PROVE  Plan'
<1>1. /\ UNCHANGED <<now, lastDigest>>
      /\ left' = {u \in Users : Due(u)} /\ pc' \in {"asleep", "read"}
      /\ chosen' = IF left' = {} THEN 0 ELSE now
  BY DEF Select, rows
<1>2. now \in Nat
  BY DigestAssumption DEF TypeOK
<1>3. Awaited'
  <2>1. chosen' <= now'
    BY <1>1, <1>2
  <2>2. ASSUME NEW u \in left'
        PROVE  LocalTick(u, chosen') >= SendTick /\ lastDigest'[u] < LocalDay(u, chosen')
    <3>1. /\ u \in Users /\ chosen' = now /\ lastDigest'[u] = lastDigest[u]
          /\ LocalTick(u, now) >= SendTick /\ lastDigest[u] # LocalDay(u, now)
      BY <1>1, <2>2 DEF Due
    <3>2. lastDigest[u] <= LocalDay(u, now)
      BY <3>1 DEF History, StampHasDigest
    <3>3. lastDigest[u] \in Int /\ LocalDay(u, now) \in Nat
      BY <3>1, <1>2, LocalTime DEF TypeOK, Days
    <3> QED BY <3>1, <3>2, <3>3
  <2> QED BY <2>1, <2>2 DEF Awaited
<1>4. InHand' /\ Unrecorded'
  BY <1>1 DEF InHand, Unrecorded
<1> QED BY <1>3, <1>4 DEF Plan

\* The date and the items that are read are of the recipient in hand.
LEMMA ReadPlans ==
  ASSUME TypeOK, Plan, NEW u \in Users, Read(u)
  PROVE  Plan'
<1>1. CASE NextRecipient(u)
  BY <1>1, NextKeepsPlan DEF Read, rows
<1>2. CASE ~NextRecipient(u)
  <2>1. /\ listed' = DueItems(u) /\ today' = LocalDay(u, now)
        /\ pc' \in {"compose", "doomed"} /\ Current(u)
        /\ UNCHANGED <<chosen, left, now, lastDigest>>
    BY <1>2 DEF Read, At, Current, rows
  <2>2. Awaited'
    BY <2>1 DEF Plan, Awaited
  <2>3. InHand'
    <3> SUFFICES ASSUME NEW v \in Users, Current(v)
                 PROVE  /\ LocalDay(v, chosen) <= today' /\ today' <= LocalDay(v, now)
                        /\ \A i \in DueItems(u) : Owner[i] = v
      BY <2>1 DEF InHand, Current
    <3>1. v = u
      BY <2>1, OneCurrent
    <3>2. /\ chosen \in Nat /\ now \in Nat /\ chosen <= now
      BY DigestAssumption DEF TypeOK, Plan, Awaited
    <3>3. LocalDay(u, chosen) <= LocalDay(u, now) /\ LocalDay(u, now) \in Nat
      BY <3>2, LocalTime
    <3> QED BY <3>1, <3>3, <2>1 DEF DueItems
  <2>4. Unrecorded'
    BY <2>1 DEF Unrecorded
  <2> QED BY <2>2, <2>3, <2>4 DEF Plan
<1> QED BY <1>1, <1>2

\* A digest that was accepted is the last of hers, and not recorded yet.
LEMMA AcceptedPlans ==
  ASSUME Sound, NEW u \in Users, SendAccepted(u)
  PROVE  Plan'
<1> USE DEF Sound
<1> DEFINE new == Len(arrived[u]) + 1
<1>1. /\ new \in Nat \ {0} /\ Len(arrived'[u]) = new
      /\ DOMAIN arrived'[u] = DOMAIN arrived[u] \cup {new}
      /\ new \notin DOMAIN arrived[u]
      /\ arrived'[u][new].day = today
  BY Arrival1 DEF SendAccepted
<1>2. /\ UNCHANGED <<lastDigest, nudges, thread, now, chosen, left, listed, today>>
      /\ told' = [i \in Items |-> IF i \in listed THEN told[i] + 1 ELSE told[i]]
      /\ Current(u) /\ pc = "send" /\ pc' = "record"
  BY DEF SendAccepted, Arrive, At, Current, rows
<1> HIDE DEF new
<1>3. Awaited'
  BY <1>2 DEF Plan, Awaited
<1>4. InHand'
  BY <1>2 DEF Plan, InHand, Current
<1>5. Unrecorded'
  <2> SUFFICES ASSUME NEW v \in Users, Current(v)
               PROVE  LET last == Len(arrived'[v]) IN
                      /\ last > 0 /\ arrived'[v][last].day = today /\ last \notin thread[v]
                      /\ \A i \in Items : Owner[i] = v =>
                           /\ i \in listed => nudges[i] < told'[i]
                           /\ thread[v] = DOMAIN arrived'[v] \ {last} =>
                                told'[i] = nudges[i] + (IF i \in listed THEN 1 ELSE 0)
    BY <1>2 DEF Unrecorded, Current
  <2>1. v = u
    BY <1>2, OneCurrent
  <2>2. new > 0 /\ new \notin thread[u]
    BY <1>1 DEF History, Recorded
  <2>3. ASSUME NEW i \in Items, Owner[i] = u
        PROVE  /\ i \in listed => nudges[i] < told'[i]
               /\ thread[u] = DOMAIN arrived'[u] \ {new} =>
                    told'[i] = nudges[i] + (IF i \in listed THEN 1 ELSE 0)
    <3>1. /\ nudges[i] \in Nat /\ told[i] \in Nat /\ nudges[i] <= told[i]
          /\ thread[u] = DOMAIN arrived[u] => nudges[i] = told[i]
      BY <2>3 DEF TypeOK, History, NudgesAreExact
    <3>2. told'[i] = IF i \in listed THEN told[i] + 1 ELSE told[i]
      BY <1>2
    <3>3. DOMAIN arrived'[u] \ {new} = DOMAIN arrived[u]
      BY <1>1
    <3> QED BY <3>1, <3>2, <3>3
  <2> QED BY <2>1, <2>2, <2>3, <1>1
<1> QED BY <1>3, <1>4, <1>5 DEF Plan

-----------------------------------------------------------------------------
\* Every step keeps the invariant.
LEMMA SoundStep == Sound /\ [Next]_vars => Sound'
<1> SUFFICES ASSUME Sound, [Next]_vars PROVE Sound'
  OBVIOUS
<1>1. TypeOK /\ TypeOK' /\ History /\ Plan
  BY TypedStep DEF Sound
<1>2. now \in Nat
  BY <1>1, DigestAssumption DEF TypeOK
<1>3. CASE UNCHANGED vars
  <2>1. now' = now /\ UNCHANGED <<rows, ghost, job>>
    BY <1>3 DEF vars
  <2> QED BY <1>1, <1>2, <2>1, HistoryKept, WorldKeepsPlan DEF Sound
<1>4. ASSUME Tick \/ (\E u \in Users : Deactivate(u))
             \/ (\E i \in Items : File(i) \/ Snooze(i) \/ Close(i) \/ Reopen(i))
      PROVE  Sound'
  <2>1. now <= now' /\ UNCHANGED <<rows, ghost, job>>
    BY <1>4, <1>2 DEF Tick, Deactivate, File, Snooze, Close, Reopen, Edit
  <2> QED BY <1>1, <2>1, HistoryKept, WorldKeepsPlan DEF Sound
<1>5. CASE Wake
  <2>1. now' = now /\ UNCHANGED <<rows, ghost, chosen, left>> /\ pc' = "select"
    BY <1>5 DEF Wake
  <2>2. Plan'
    BY <1>1, <2>1 DEF Plan, Awaited, InHand, Unrecorded, rows
  <2> QED BY <1>1, <1>2, <2>1, <2>2, HistoryKept DEF Sound
<1>6. CASE Select
  BY <1>1, <1>2, <1>6, HistoryKept, SelectPlans DEF Select, Sound
<1>7. CASE Restart
  <2>1. now' = now /\ UNCHANGED <<rows, ghost>> /\ chosen' = 0 /\ left' = {} /\ pc' = "select"
    BY <1>7 DEF Restart
  <2>2. Plan'
    BY <1>2, <2>1 DEF Plan, Awaited, InHand, Unrecorded
  <2> QED BY <1>1, <1>2, <2>1, <2>2, HistoryKept DEF Sound
<1>8. ASSUME NEW u \in Users, Read(u) PROVE Sound'
  <2>1. now' = now /\ UNCHANGED <<rows, ghost>>
    BY <1>8 DEF Read
  <2> QED BY <1>1, <1>2, <1>8, <2>1, HistoryKept, ReadPlans DEF Sound
<1>9. ASSUME NEW u \in Users, Compose(u) PROVE Sound'
  <2>1. /\ now' = now /\ UNCHANGED <<rows, ghost, chosen, left, listed, today>>
        /\ pc = "compose" /\ pc' = "send"
    BY <1>9 DEF Compose, At
  <2>2. Plan'
    BY <1>1, <2>1 DEF Plan, Awaited, InHand, Unrecorded, Current, rows
  <2> QED BY <1>1, <1>2, <2>1, <2>2, HistoryKept DEF Sound
<1>10. ASSUME NEW u \in Users, Doomed(u) \/ Skip(u) \/ RecordFails(u) PROVE Sound'
  <2>1. now' = now /\ UNCHANGED <<rows, ghost>> /\ NextRecipient(u)
    BY <1>10 DEF Doomed, Skip, RecordFails
  <2> QED BY <1>1, <1>2, <2>1, HistoryKept, NextKeepsPlan DEF Sound, rows
<1>11. ASSUME NEW u \in Users, SendAccepted(u) PROVE Sound'
  BY <1>1, <1>11, ArriveKeeps, AcceptedPlans DEF SendAccepted, Sound
<1>12. ASSUME NEW u \in Users, SendLost(u) PROVE Sound'
  <2>1. Arrive(u) /\ NextRecipient(u) /\ now' = now /\ lastDigest' = lastDigest
    BY <1>12 DEF SendLost, Arrive, rows
  <2> QED BY <1>1, <2>1, ArriveKeeps, NextKeepsPlan DEF Sound
<1>13. ASSUME NEW u \in Users, Record(u) PROVE Sound'
  <2>1. NextRecipient(u) /\ now' = now
        /\ \A v \in Users \ {u} : lastDigest'[v] = lastDigest[v]
    BY <1>1, <1>13 DEF Record, TypeOK
  <2> QED BY <1>1, <1>13, <2>1, RecordKeeps, NextKeepsPlan DEF Sound
<1> QED BY <1>3, <1>4, <1>5, <1>6, <1>7, <1>8, <1>9, <1>10, <1>11, <1>12, <1>13
       DEF Next, JobStep, Recipient

\* The invariant holds in every behaviour.
THEOREM DigestIsSound == Spec => []Sound
<1>1. Sound /\ [Next]_vars => Sound'
  BY SoundStep
<1> QED BY SoundInit, <1>1, PTL DEF Spec

\* The types (jobs/digest.py: due_users, send_digest, run_once).
THEOREM DigestTypeCorrect == Spec => []TypeOK
<1>1. Sound => TypeOK
  BY DEF Sound
<1> QED BY DigestIsSound, <1>1, PTL

\* Nudge counts never run ahead of the digests that arrived, and are exact
\* once all of a user's are recorded (send_digest).
THEOREM NudgesAreTold == Spec => []NudgesAreExact
<1>1. Sound => NudgesAreExact
  BY DEF Sound, History
<1> QED BY DigestIsSound, <1>1, PTL

\* A stamped day had a digest (send_digest, last_digest_on).
THEOREM StampsAreEarned == Spec => []StampHasDigest
<1>1. Sound => StampHasDigest
  BY DEF Sound, History
<1> QED BY DigestIsSound, <1>1, PTL

\* Only a digest that could not be recorded is sent again on its day
\* (due_users, send_digest).
THEOREM OnlyUnrecordedRepeat == Spec => []OnePerDayOnceRecorded
<1>1. Sound => OnePerDayOnceRecorded
  BY DEF Sound, History
<1> QED BY DigestIsSound, <1>1, PTL

\* Nothing arrives before 08:00 but what a midnight overtook (run_once).
THEOREM NoneIsEarly == Spec => []EarlyOnlyPastMidnight
<1>1. Sound => EarlyOnlyPastMidnight
  BY DEF Sound, History
<1> QED BY DigestIsSound, <1>1, PTL

-----------------------------------------------------------------------------
(* The calendar: the order of intervals.                                    *)

Interval == Int \X Int

\* A list of intervals whose positions need not be consecutive.
Listing(f) == /\ DOMAIN f \in SUBSET Nat /\ IsFiniteSet(DOMAIN f)
              /\ f \in [DOMAIN f -> Interval]

\* The order in which sorted places them.
NotAfter(f, i, j) == Earlier(f[i], f[j]) \/ (f[i] = f[j] /\ i <= j)

Ordered(s) == \A i, j \in DOMAIN s : i < j => Earlier(s[i], s[j]) \/ s[i] = s[j]

\* It is a total order.
LEMMA NotAfterIsTotal ==
  ASSUME NEW f, Listing(f)
  PROVE  /\ \A i \in DOMAIN f : NotAfter(f, i, i)
         /\ \A i, j \in DOMAIN f : NotAfter(f, i, j) \/ NotAfter(f, j, i)
         /\ \A i, j \in DOMAIN f : NotAfter(f, i, j) /\ NotAfter(f, j, i) => i = j
         /\ \A i, j, k \in DOMAIN f :
              NotAfter(f, i, j) /\ NotAfter(f, j, k) => NotAfter(f, i, k)
<1>1. \A i \in DOMAIN f : i \in Nat /\ f[i] \in Interval
  BY DEF Listing
<1>2. \A x \in Interval : x[1] \in Int /\ x[2] \in Int /\ x = <<x[1], x[2]>>
  BY DEF Interval
<1>3. \A x, y \in Interval : x = y <=> x[1] = y[1] /\ x[2] = y[2]
  BY <1>2
<1> HIDE DEF Interval
<1> QED BY <1>1, <1>2, <1>3 DEF NotAfter, Earlier

\* Places are numbers from one to as many as there are.
LEMMA PlaceType ==
  ASSUME NEW f, Listing(f)
  PROVE  /\ Cardinality(DOMAIN f) \in Nat
         /\ \A i \in DOMAIN f : Place(f, i) \in 1..Cardinality(DOMAIN f)
<1>1. Cardinality(DOMAIN f) \in Nat
  BY FS_CardinalityType DEF Listing
<1>2. ASSUME NEW i \in DOMAIN f PROVE Place(f, i) \in 1..Cardinality(DOMAIN f)
  <2> DEFINE S == {j \in DOMAIN f : NotAfter(f, j, i)}
  <2>1. i \in S
    BY NotAfterIsTotal
  <2>2. S \in SUBSET (DOMAIN f) /\ IsFiniteSet(DOMAIN f)
    BY DEF Listing
  <2>3. IsFiniteSet(S) /\ Cardinality(S) <= Cardinality(DOMAIN f)
    BY <2>2, FS_Subset
  <2>4. Cardinality(S) \in Nat /\ Cardinality(S) # 0
    BY <2>1, <2>3, FS_CardinalityType, FS_EmptySet
  <2>5. Place(f, i) = Cardinality(S)
    BY DEF Place, NotAfter
  <2> HIDE DEF S
  <2> QED BY <1>1, <2>3, <2>4, <2>5
<1> QED BY <1>1, <1>2

\* What comes before has the smaller place.
LEMMA PlacesDiffer ==
  ASSUME NEW f, Listing(f), NEW i \in DOMAIN f, NEW j \in DOMAIN f,
         NotAfter(f, i, j), i # j
  PROVE  Place(f, i) < Place(f, j)
<1> DEFINE S == {k \in DOMAIN f : NotAfter(f, k, i)}
           T == {k \in DOMAIN f : NotAfter(f, k, j)}
<1>1. S \in SUBSET T /\ j \in T /\ j \notin S
  BY NotAfterIsTotal
<1>2. IsFiniteSet(T)
  BY FS_Subset DEF Listing
<1>3. /\ IsFiniteSet(S) /\ Cardinality(S) <= Cardinality(T)
      /\ Cardinality(S) # Cardinality(T)
  BY <1>1, <1>2, FS_Subset
<1>4. Cardinality(S) \in Nat /\ Cardinality(T) \in Nat
  BY <1>2, <1>3, FS_CardinalityType
<1>5. Place(f, i) = Cardinality(S) /\ Place(f, j) = Cardinality(T)
  BY DEF Place, NotAfter
<1> HIDE DEF S, T
<1> QED BY <1>3, <1>4, <1>5

\* Every place is taken, by one.
LEMMA PlacesAreTaken ==
  ASSUME NEW f, Listing(f)
  PROVE  /\ \A k \in 1..Cardinality(DOMAIN f) : \E i \in DOMAIN f : Place(f, i) = k
         /\ \A i, j \in DOMAIN f : Place(f, i) = Place(f, j) => i = j
<1> DEFINE N == 1..Cardinality(DOMAIN f)
           place == [i \in DOMAIN f |-> Place(f, i)]
<1>1. place \in [DOMAIN f -> N]
  BY PlaceType
<1>2. ASSUME NEW i \in DOMAIN f, NEW j \in DOMAIN f, i # j
      PROVE  Place(f, i) # Place(f, j)
  <2>1. Place(f, i) < Place(f, j) \/ Place(f, j) < Place(f, i)
    BY <1>2, NotAfterIsTotal, PlacesDiffer
  <2>2. Place(f, i) \in Int /\ Place(f, j) \in Int
    BY PlaceType
  <2> QED BY <2>1, <2>2
<1>3. \A i, j \in DOMAIN f : place[i] = place[j] => i = j
  BY <1>2
<1> HIDE DEF place
<1>4. place \in Injection(DOMAIN f, N)
  BY <1>1, <1>3 DEF Injection, IsInjective
<1>5. IsFiniteSet(N) /\ Cardinality(N) = Cardinality(DOMAIN f)
  <2>1. Cardinality(DOMAIN f) \in Nat
    BY PlaceType
  <2> QED BY <2>1, FS_Interval
<1>6. place \in Surjection(DOMAIN f, N)
  BY <1>4, <1>5, FS_Injection
<1>7. \A k \in N : \E i \in DOMAIN f : Place(f, i) = k
  BY <1>6 DEF Surjection, place
<1> QED BY <1>2, <1>7

\* sorted puts what is in the list in order, and nothing else.
LEMMA Sorting ==
  ASSUME NEW f, Listing(f)
  PROVE  /\ sorted(f) \in Seq(Interval) /\ Ordered(sorted(f))
         /\ \A k \in DOMAIN sorted(f) : \E i \in DOMAIN f : sorted(f)[k] = f[i]
         /\ \A i \in DOMAIN f : \E k \in DOMAIN sorted(f) : sorted(f)[k] = f[i]
<1> DEFINE n == Cardinality(DOMAIN f)
           at(k) == CHOOSE i \in DOMAIN f : Place(f, i) = k
<1>1. n \in Nat
  BY PlaceType
<1>2. \A k \in 1..n : at(k) \in DOMAIN f /\ Place(f, at(k)) = k
  BY PlacesAreTaken
<1>3. \A i \in DOMAIN f : Place(f, i) \in 1..n /\ at(Place(f, i)) = i
  BY <1>2, PlaceType, PlacesAreTaken
<1>4. sorted(f) = [k \in 1..n |-> f[at(k)]]
  BY DEF sorted
<1> HIDE DEF n, at
<1>5. \A i \in DOMAIN f : f[i] \in Interval
  BY DEF Listing
<1>6. sorted(f) \in Seq(Interval) /\ DOMAIN sorted(f) = 1..n
  BY <1>1, <1>2, <1>4, <1>5
<1>7. ASSUME NEW k \in 1..n, NEW l \in 1..n, k < l
      PROVE  Earlier(sorted(f)[k], sorted(f)[l]) \/ sorted(f)[k] = sorted(f)[l]
  <2>1. ~ NotAfter(f, at(l), at(k)) \/ at(l) = at(k)
    BY <1>2, <1>7, PlacesDiffer
  <2>2. NotAfter(f, at(k), at(l))
    BY <1>2, <2>1, NotAfterIsTotal
  <2> QED BY <1>4, <2>2 DEF NotAfter
<1> QED BY <1>2, <1>3, <1>4, <1>6, <1>7 DEF Ordered

\* It leaves what is in order alone.
LEMMA SortedStays ==
  ASSUME NEW s \in Seq(Interval), Ordered(s)
  PROVE  sorted(s) = s
<1> DEFINE n == Len(s)
           at(k) == CHOOSE i \in DOMAIN s : Place(s, i) = k
<1>1. n \in Nat /\ DOMAIN s = 1..n /\ \A i \in 1..n : s[i] \in Interval
  OBVIOUS
<1>2. s = [k \in 1..n |-> s[k]]
  OBVIOUS
<1> HIDE DEF n
<1>3. IsFiniteSet(1..n) /\ Cardinality(1..n) = n
  BY <1>1, FS_Interval
<1>4. Listing(s)
  BY <1>1, <1>3, <1>2 DEF Listing
<1>5. \A i, j \in 1..n : NotAfter(s, j, i) <=> j <= i
  <2>1. \A i, j \in 1..n : j <= i => NotAfter(s, j, i)
    BY <1>1 DEF Ordered, NotAfter
  <2>2. \A i, j \in 1..n : NotAfter(s, j, i) /\ NotAfter(s, i, j) => i = j
    BY <1>1, <1>4, NotAfterIsTotal
  <2> QED BY <1>1, <2>1, <2>2
<1>6. \A i \in 1..n : Place(s, i) = i
  <2> SUFFICES ASSUME NEW i \in 1..n PROVE Place(s, i) = i
    OBVIOUS
  <2>1. {j \in DOMAIN s : NotAfter(s, j, i)} = 1..i
    BY <1>1, <1>5
  <2>2. Place(s, i) = Cardinality(1..i)
    BY <2>1 DEF Place, NotAfter
  <2> QED BY <1>1, <2>2, FS_Interval
<1>7. \A k \in 1..n : at(k) = k
  BY <1>1, <1>6
<1>8. sorted(s) = [k \in 1..n |-> s[at(k)]]
  BY <1>1, <1>3 DEF sorted
<1> HIDE DEF at
<1> QED BY <1>7, <1>8, <1>2

Sensible(s) == s \in Seq(Interval) /\ Ordered(s) /\ \A k \in DOMAIN s : s[k][1] <= s[k][2]

\* A day's busy intervals are in order, and none ends before it starts.
LEMMA BusyIsSensible ==
  ASSUME NEW evs \in Seq(Events)
  PROVE  Sensible(busy_intervals(evs))
<1> DEFINE f == [i \in Busy(evs) |-> <<evs[i].start, evs[i].end>>]
           n == Len(evs)
<1>1. n \in Nat /\ DOMAIN evs = 1..n /\ \A i \in 1..n : evs[i] \in Events
  OBVIOUS
<1>2. \A i \in 1..n : /\ evs[i].start \in Int /\ evs[i].end \in Int
                      /\ evs[i].start <= evs[i].end
  BY <1>1, WorkingDayAssumption DEF Events, Times
<1> HIDE DEF n
<1>3. Busy(evs) \in SUBSET (1..n)
  BY <1>1 DEF Busy
<1>4. DOMAIN f = Busy(evs) /\ \A i \in Busy(evs) : f[i] \in Interval /\ f[i][1] <= f[i][2]
  BY <1>2, <1>3 DEF Interval
<1>5. f \in [DOMAIN f -> Interval]
  BY <1>4
<1>6. busy_intervals(evs) = sorted(f)
  BY DEF busy_intervals
<1> HIDE DEF f
<1>7. IsFiniteSet(1..n) /\ 1..n \in SUBSET Nat
  BY <1>1, FS_Interval
<1>8. Listing(f)
  BY <1>3, <1>4, <1>5, <1>7, FS_Subset DEF Listing
<1> QED BY <1>4, <1>6, <1>8, Sorting DEF Sensible

\* The early break loses no pair and adds none.
LEMMA Collisions ==
  ASSUME NEW b, Sensible(b)
  PROVE  overlaps(b) = {p \in (DOMAIN b) \X (DOMAIN b) :
                          /\ p[1] < p[2]
                          /\ b[p[1]][1] < b[p[2]][2] /\ b[p[2]][1] < b[p[1]][2]}
<1> DEFINE n == Len(b)
<1>1. /\ n \in Nat /\ DOMAIN b = 1..n
      /\ \A i \in 1..n : b[i][1] \in Int /\ b[i][2] \in Int /\ b[i][1] <= b[i][2]
  BY DEF Sensible, Interval
<1>2. overlaps(b) = {p \in (1..n) \X (1..n) :
                       /\ p[1] < p[2]
                       /\ \A k \in (p[1] + 1)..p[2] : b[k][1] < b[p[1]][2]}
  <2>1. sorted(b) = b
    BY SortedStays DEF Sensible
  <2> QED BY <2>1 DEF overlaps
<1> HIDE DEF n
<1>3. \A i, j \in 1..n : i < j => /\ b[i][1] <= b[j][1]
                                  /\ b[i][1] = b[j][1] => b[i][2] <= b[j][2]
  <2>1. \A i, j \in 1..n : i < j => Earlier(b[i], b[j]) \/ b[i] = b[j]
    BY <1>1 DEF Sensible, Ordered
  <2>2. \A i, j \in 1..n : b[i] = b[j] => b[i][1] = b[j][1] /\ b[i][2] = b[j][2]
    OBVIOUS
  <2> QED BY <1>1, <2>1, <2>2 DEF Earlier
<1>4. ASSUME NEW i \in 1..n, NEW j \in 1..n, i < j
      PROVE  (\A k \in (i + 1)..j : b[k][1] < b[i][2])
               <=> (b[i][1] < b[j][2] /\ b[j][1] < b[i][2])
  <2>1. i \in Int /\ j \in Int /\ j \in (i + 1)..j
    BY <1>1, <1>4
  <2>2. b[j][1] < b[i][2] => b[i][1] < b[j][2]
    <3>1. /\ b[i][1] <= b[j][1]
          /\ b[i][1] = b[j][1] => b[i][2] <= b[j][2]
      BY <1>3, <1>4
    <3>2. /\ b[i][1] \in Int /\ b[i][2] \in Int
          /\ b[j][1] \in Int /\ b[j][2] \in Int /\ b[j][1] <= b[j][2]
      BY <1>1
    <3> QED BY <3>1, <3>2
  <2>3. ASSUME b[j][1] < b[i][2], NEW k \in (i + 1)..j
        PROVE  b[k][1] < b[i][2]
    <3>1. k \in 1..n /\ (k = j \/ k < j)
      BY <1>1
    <3>2. /\ b[i][2] \in Int /\ b[j][1] \in Int /\ b[k][1] \in Int
      BY <1>1, <3>1
    <3>3. b[k][1] <= b[j][1]
      BY <1>1, <1>3, <3>1
    <3> QED BY <2>3, <3>2, <3>3
  <2> QED BY <2>1, <2>2, <2>3
<1>5. ASSUME NEW p \in (1..n) \X (1..n), p[1] < p[2]
      PROVE  (\A k \in (p[1] + 1)..p[2] : b[k][1] < b[p[1]][2])
               <=> (b[p[1]][1] < b[p[2]][2] /\ b[p[2]][1] < b[p[1]][2])
  BY <1>4, <1>5
<1> QED BY <1>1, <1>2, <1>5

\* A calendar stays one, in the order in which it is listed.
THEOREM DayTypeCorrect == DaySpec => []DayTypeOK
<1>1. DayInit => DayTypeOK
  BY DEF DayInit, DayTypeOK
<1>2. DayTypeOK /\ [DayNext]_events => DayTypeOK'
  <2> SUFFICES ASSUME DayTypeOK, [DayNext]_events PROVE DayTypeOK'
    OBVIOUS
  <2>1. CASE UNCHANGED events
    BY <2>1 DEF DayTypeOK
  <2>2. ASSUME NEW e \in Events, Book(e) PROVE DayTypeOK'
    <3> DEFINE n == Len(events)
    <3>1. PICK k \in 1..(n + 1) :
            /\ \A i \in 1..(k - 1) : events[i].start <= e.start
            /\ \A i \in k..n : events[i].start >= e.start
            /\ events' = InsertAt(events, k, e)
      BY <2>2 DEF Book
    <3>2. n \in Nat /\ DOMAIN events = 1..n /\ events \in Seq(Events)
      BY DEF DayTypeOK
    <3>3. /\ events' \in Seq(Events) /\ DOMAIN events' = 1..(n + 1)
          /\ \A i \in 1..(n + 1) : events'[i] = IF i < k THEN events[i]
                                              ELSE IF i = k THEN e ELSE events[i - 1]
      <4> DEFINE l == SubSeq(events, 1, k - 1)
                 r == SubSeq(events, k, n)
      <4>1. events' = (l \o <<e>>) \o r
        BY <3>1 DEF InsertAt
      <4>2. k \in Nat /\ 1 <= k /\ k <= n + 1
        BY <3>2
      <4> HIDE DEF n
      <4>3. /\ l \in Seq(Events) /\ Len(l) = k - 1
            /\ \A i \in 1..(k - 1) : l[i] = events[i]
        BY <3>2, <4>2
      <4>4. /\ r \in Seq(Events) /\ Len(r) = n - k + 1
            /\ \A i \in 1..(n - k + 1) : r[i] = events[k + i - 1]
        BY <3>2, <4>2
      <4> HIDE DEF l, r
      <4>5. /\ events' \in Seq(Events) /\ Len(events') = n + 1
            /\ \A i \in 1..(n + 1) : events'[i] = IF i < k THEN l[i]
                    ELSE IF i = k THEN e ELSE r[i - k]
        <5> DEFINE h == l \o <<e>>
        <5>1. <<e>> \in Seq(Events) /\ Len(<<e>>) = 1 /\ <<e>>[1] = e
          OBVIOUS
        <5>2. /\ h \in Seq(Events) /\ Len(h) = Len(l) + Len(<<e>>)
              /\ \A i \in 1..(Len(l) + Len(<<e>>)) :
                   h[i] = IF i <= Len(l) THEN l[i] ELSE <<e>>[i - Len(l)]
          BY <4>3, <5>1, ConcatProperties
        <5>3. Len(h) = k /\ h[k] = e /\ \A i \in 1..(k - 1) : h[i] = l[i]
          BY <4>2, <4>3, <5>1, <5>2
        <5>4. events' = h \o r
          BY <4>1
        <5> HIDE DEF h
        <5>5. /\ events' \in Seq(Events) /\ Len(events') = Len(h) + Len(r)
              /\ \A i \in 1..(Len(h) + Len(r)) :
                   events'[i] = IF i <= Len(h) THEN h[i] ELSE r[i - Len(h)]
          <6>1. h \in Seq(Events) /\ r \in Seq(Events)
            BY <4>4, <5>2
          <6>2. /\ h \o r \in Seq(Events) /\ Len(h \o r) = Len(h) + Len(r)
                /\ \A i \in 1..(Len(h) + Len(r)) :
                     (h \o r)[i] = IF i <= Len(h) THEN h[i] ELSE r[i - Len(h)]
            BY <6>1, ConcatProperties
          <6> QED BY <5>4, <6>2
        <5>6. Len(h) + Len(r) = n + 1
          BY <3>2, <4>2, <4>4, <5>3
        <5>7. ASSUME NEW i \in 1..(n + 1)
              PROVE  events'[i] = IF i < k THEN l[i] ELSE IF i = k THEN e ELSE r[i - k]
          <6>1. events'[i] = IF i <= k THEN h[i] ELSE r[i - k]
            BY <5>3, <5>5, <5>6
          <6>2. i \in Nat /\ (i < k => i \in 1..(k - 1))
            BY <3>2, <4>2
          <6> QED BY <4>2, <5>3, <6>1, <6>2
        <5> QED BY <5>5, <5>6, <5>7
      <4>6. \A i \in 1..(n + 1) : i > k => r[i - k] = events[i - 1]
        <5> TAKE i \in 1..(n + 1)
        <5> HAVE i > k
        <5>1. i - k \in 1..(n - k + 1) /\ k + (i - k) - 1 = i - 1
          BY <3>2, <4>2
        <5> QED BY <4>4, <5>1
      <4>7. \A i \in 1..(n + 1) : i < k => l[i] = events[i]
        BY <3>2, <4>2, <4>3
      <4>8. \A i \in 1..(n + 1) : events'[i] = IF i < k THEN events[i]
                                     ELSE IF i = k THEN e ELSE events[i - 1]
        <5> TAKE i \in 1..(n + 1)
        <5>1. i < k \/ i = k \/ i > k
          BY <3>2, <4>2
        <5> QED BY <4>2, <4>5, <4>6, <4>7, <5>1
      <4>9. DOMAIN events' = 1..(n + 1)
        BY <4>5
      <4> QED BY <4>5, <4>8, <4>9
    <3> HIDE DEF n
    <3>4. \A i, j \in 1..n : i < j => events[i].start <= events[j].start
      BY <3>2 DEF DayTypeOK
    <3>5. e.start \in Int /\ \A i \in 1..n : events[i].start \in Int
      BY <3>2, WorkingDayAssumption DEF Events, Times
    <3>6. ASSUME NEW i \in 1..(n + 1), NEW j \in 1..(n + 1), i < j
          PROVE  events'[i].start <= events'[j].start
      <4>1. i \in Nat /\ j \in Nat /\ k \in Nat /\ i <= n
        BY <3>2, <3>6
      <4>2. CASE j < k
        <5>1. i \in 1..n /\ j \in 1..n /\ i < k
          BY <3>2, <3>6, <4>1, <4>2
        <5> QED BY <3>3, <3>4, <3>6, <4>2, <5>1
      <4>3. CASE j = k
        <5>1. i \in 1..(k - 1) /\ i < k
          BY <3>6, <4>1, <4>3
        <5> QED BY <3>1, <3>3, <4>1, <4>3, <5>1
      <4>4. CASE j > k /\ i < k
        <5>1. i \in 1..n /\ j - 1 \in 1..n /\ j - 1 \in k..n /\ i \in 1..(k - 1)
          BY <3>2, <4>1, <4>4
        <5>2. events[i].start <= e.start /\ e.start <= events[j - 1].start
          BY <3>1, <3>5, <5>1
        <5>3. events'[i] = events[i] /\ events'[j] = events[j - 1]
          BY <3>3, <4>1, <4>4
        <5> QED BY <3>5, <5>1, <5>2, <5>3
      <4>5. CASE j > k /\ i = k
        <5>1. j - 1 \in k..n
          BY <3>2, <4>1, <4>5
        <5>2. events'[i] = e /\ events'[j] = events[j - 1]
          BY <3>3, <4>1, <4>5
        <5>3. j - 1 \in 1..n
          BY <5>1, <4>1
        <5> QED BY <3>1, <3>5, <5>1, <5>2, <5>3
      <4>6. CASE j > k /\ i > k
        <5>1. i - 1 \in 1..n /\ j - 1 \in 1..n /\ i - 1 < j - 1
          BY <3>2, <3>6, <4>1, <4>6
        <5>2. events'[i] = events[i - 1] /\ events'[j] = events[j - 1]
          BY <3>3, <4>1, <4>6
        <5> QED BY <3>4, <5>1, <5>2
      <4> QED BY <4>1, <4>2, <4>3, <4>4, <4>5, <4>6
    <3> QED BY <3>3, <3>6 DEF DayTypeOK
  <2> QED BY <2>1, <2>2 DEF DayNext
<1> QED BY <1>1, <1>2, PTL DEF DaySpec

\* overlaps reports exactly the pairs that collide, on every calendar that
\* bookings lead to, of any length.
THEOREM OverlapsAreCollisions == DaySpec => []OverlapsAreExact
<1>1. DayTypeOK => OverlapsAreExact
  BY BusyIsSensible, Collisions DEF DayTypeOK, OverlapsAreExact
<1> QED BY <1>1, DayTypeCorrect, PTL

-----------------------------------------------------------------------------
(* Counting up, and loops.                                                  *)

\* A set that has zero and each successor has them all.
LEMMA CountingUp ==
  ASSUME NEW n \in Nat, NEW S, 0 \in S, \A k \in 0..(n - 1) : k \in S => k + 1 \in S
  PROVE  \A k \in 0..n : k \in S
<1> DEFINE T == {k \in 0..n : k \notin S}
<1> SUFFICES ASSUME T # {} PROVE FALSE
  OBVIOUS
<1>1. T \subseteq Nat
  OBVIOUS
<1>2. PICK x \in T : \A y \in T : ~ (<<y, x>> \in OpToRel(<, Nat))
  BY <1>1, NatLessThanWellFounded, WFMin
<1>3. x \in Nat /\ x # 0 /\ x <= n
  BY <1>1
<1>4. x - 1 \in 0..(n - 1) /\ x - 1 \notin S
  BY <1>3
<1>5. x - 1 \in T /\ <<x - 1, x>> \in OpToRel(<, Nat)
  BY <1>3, <1>4 DEF OpToRel
<1> QED BY <1>2, <1>5

Unrolls(n, V, a, step) ==
  \E f \in [0..n -> V] : f[0] = a /\ \A k \in 1..n : f[k] = step[<<k, f[k - 1]>>]

\* A loop of n rounds has a value after each of them.
LEMMA Loops ==
  ASSUME NEW n \in Nat, NEW V, NEW a \in V, NEW step \in [(1..n) \X V -> V]
  PROVE  Unrolls(n, V, a, step)
<1> DEFINE Runs(m, f) == /\ f \in [0..m -> V] /\ f[0] = a
                         /\ \A k \in 1..m : f[k] = step[<<k, f[k - 1]>>]
           S == {m \in 0..n : \E f \in [0..m -> V] : Runs(m, f)}
<1>1. 0 \in S
  <2> DEFINE f == [k \in 0..0 |-> a]
  <2>1. f \in [0..0 -> V] /\ f[0] = a /\ 1..0 = {}
    OBVIOUS
  <2>2. Runs(0, f)
    BY <2>1
  <2>3. 0 \in 0..n
    OBVIOUS
  <2> HIDE DEF f, Runs
  <2> QED BY <2>1, <2>2, <2>3
<1>2. ASSUME NEW m \in 0..(n - 1), m \in S PROVE m + 1 \in S
  <2>1. PICK f \in [0..m -> V] : Runs(m, f)
    BY <1>2
  <2>2. f[m] \in V /\ step[<<m + 1, f[m]>>] \in V
    OBVIOUS
  <2> DEFINE g == [k \in 0..(m + 1) |-> IF k = m + 1 THEN step[<<m + 1, f[m]>>] ELSE f[k]]
  <2>3. g \in [0..(m + 1) -> V]
    BY <2>2
  <2>4. g[0] = a
    BY <2>1
  <2>5. ASSUME NEW k \in 1..(m + 1) PROVE g[k] = step[<<k, g[k - 1]>>]
    <3>1. CASE k = m + 1
      <4>1. k \in 0..(m + 1) /\ k - 1 = m /\ m \in 0..(m + 1) /\ m # m + 1
        BY <3>1
      <4>2. g[k] = step[<<m + 1, f[m]>>] /\ g[k - 1] = f[m]
        BY <3>1, <4>1
      <4> HIDE DEF g
      <4> QED BY <3>1, <4>2
    <3>2. CASE k # m + 1
      <4>1. k \in 1..m /\ k - 1 \in 0..m
        BY <3>2
      <4>2. g[k] = f[k] /\ g[k - 1] = f[k - 1]
        BY <4>1
      <4> HIDE DEF g
      <4> QED BY <2>1, <4>1, <4>2
    <3> QED BY <3>1, <3>2
  <2> HIDE DEF g
  <2> QED BY <2>3, <2>4, <2>5
<1> HIDE DEF S
<1>3. n \in S
  BY <1>1, <1>2, CountingUp
<1> QED BY <1>3 DEF S, Unrolls

\* One round of the merge.
MergeRound(ordered, merged, k) ==
  LET c == Clipped(ordered[k])
  IN  IF c[1] < c[2] THEN Merge(merged, c) ELSE merged

\* A merge of intervals is one of intervals.
LEMMA MergeType ==
  ASSUME NEW m \in Seq(Interval), NEW c \in Interval
  PROVE  Merge(m, c) \in Seq(Interval)
<1>1. CASE m = <<>>
  BY <1>1 DEF Merge
<1>2. CASE m # <<>>
  <2>1. Last(m) \in Interval /\ Front(m) \in Seq(Interval)
    BY <1>2 DEF Last, Front
  <2>2. <<Last(m)[1], Larger(Last(m)[2], c[2])>> \in Interval /\ <<Last(m)[1], c[2]>> \in Interval
    BY <2>1 DEF Interval, Larger
  <2> QED BY <2>1, <2>2 DEF Merge
<1> QED BY <1>1, <1>2

\* An interval clipped to the working day is one.
LEMMA ClippedType ==
  ASSUME NEW c \in Interval
  PROVE  /\ Clipped(c) \in Interval
         /\ Clipped(c)[1] = Larger(c[1], WorkStart)
         /\ Clipped(c)[2] = Smaller(c[2], WorkEnd)
         /\ WorkStart \in Int /\ WorkEnd \in Int
<1>1. c[1] \in Int /\ c[2] \in Int
  BY DEF Interval
<1>2. WorkStart \in Int /\ WorkEnd \in Int
  BY WorkingDayAssumption
<1> QED BY <1>1, <1>2 DEF Interval, Clipped, Larger, Smaller

\* The loop of the merge, unrolled.
LEMMA MergedSteps ==
  ASSUME NEW s \in Seq(Interval)
  PROVE  /\ Merged(s) \in [0..Len(s) -> Seq(Interval)] /\ Merged(s)[0] = <<>>
         /\ \A k \in 1..Len(s) : Merged(s)[k] = MergeRound(s, Merged(s)[k - 1], k)
<1> DEFINE n == Len(s)
           V == Seq(Interval)
           step == [p \in (1..n) \X V |-> MergeRound(s, p[2], p[1])]
           Loop(f) == f = [k \in 0..n |-> IF k = 0 THEN <<>> ELSE MergeRound(s, f[k - 1], k)]
<1>1. n \in Nat /\ \A k \in 1..n : s[k] \in Interval
  OBVIOUS
<1>2. Merged(s) = CHOOSE f : Loop(f)
  BY DEF Merged, MergeRound
<1> HIDE DEF n, V
<1>3. ASSUME NEW k \in 1..n, NEW m \in V PROVE MergeRound(s, m, k) \in V
  BY <1>1, MergeType, ClippedType DEF MergeRound, V
<1>4. step \in [(1..n) \X V -> V]
  BY <1>3
<1>5. \A k \in 1..n : \A m \in V : step[<<k, m>>] = MergeRound(s, m, k)
  OBVIOUS
<1>6. <<>> \in V
  BY DEF V
<1> HIDE DEF step
<1>7. n \in Nat
  BY <1>1
<1>8. PICK f \in [0..n -> V] : f[0] = <<>> /\ \A k \in 1..n : f[k] = step[<<k, f[k - 1]>>]
  <2>1. Unrolls(n, V, <<>>, step)
    BY <1>4, <1>6, <1>7, Loops
  <2> QED BY <2>1 DEF Unrolls
<1>9. \A k \in 1..n : f[k - 1] \in V /\ f[k] = MergeRound(s, f[k - 1], k)
  <2> TAKE k \in 1..n
  <2>1. k - 1 \in 0..n
    BY <1>1
  <2> QED BY <1>8, <1>5, <2>1
<1>10. f = [k \in 0..n |-> IF k = 0 THEN <<>> ELSE MergeRound(s, f[k - 1], k)]
  <2>1. f = [k \in 0..n |-> f[k]] /\ f[0] = <<>>
    BY <1>8
  <2>2. \A k \in 0..n : k = 0 \/ k \in 1..n
    BY <1>1
  <2>3. \A k \in 0..n : f[k] = IF k = 0 THEN <<>> ELSE MergeRound(s, f[k - 1], k)
    BY <1>9, <2>1, <2>2
  <2> QED BY <2>1, <2>3
<1>11. Loop(Merged(s))
  BY <1>2, <1>10
<1> DEFINE M == Merged(s)
           S == {k \in 0..n : M[k] \in V}
<1>12. M = [k \in 0..n |-> IF k = 0 THEN <<>> ELSE MergeRound(s, M[k - 1], k)]
  BY <1>11
<1> HIDE DEF M
<1>13. M[0] = <<>> /\ \A k \in 1..n : M[k] = MergeRound(s, M[k - 1], k)
  BY <1>1, <1>12
<1>14. ASSUME NEW k \in 0..(n - 1), M[k] \in V PROVE M[k + 1] \in V
  <2>1. k + 1 \in 1..n /\ (k + 1) - 1 = k
    BY <1>1
  <2> QED BY <1>3, <1>13, <1>14, <2>1
<1>15. 0 \in S /\ \A k \in 0..(n - 1) : k \in S => k + 1 \in S
  BY <1>1, <1>6, <1>13, <1>14
<1>16. \A k \in 0..n : M[k] \in V
  <2> HIDE DEF S
  <2>1. \A k \in 0..n : k \in S
    BY <1>1, <1>15, CountingUp
  <2> QED BY <2>1 DEF S
<1>17. M \in [0..n -> V]
  BY <1>12, <1>16
<1> QED BY <1>13, <1>17 DEF M, n, V

\* The loop of the sum, unrolled.
LEMMA MinutesSteps ==
  ASSUME NEW b \in Seq(Interval)
  PROVE  /\ \A k \in 0..Len(b) : Minutes(b)[k] \in Int
         /\ Minutes(b)[0] = 0
         /\ \A k \in 1..Len(b) : Minutes(b)[k] = Minutes(b)[k - 1] + (b[k][2] - b[k][1])
<1> DEFINE n == Len(b)
           long(k) == b[k][2] - b[k][1]
           step == [p \in (1..n) \X Int |-> p[2] + long(p[1])]
           Loop(f) == f = [k \in 0..n |-> IF k = 0 THEN 0 ELSE f[k - 1] + long(k)]
           M == Minutes(b)
           S == {k \in 0..n : M[k] \in Int}
<1>1. n \in Nat /\ \A k \in 1..n : b[k] \in Interval
  OBVIOUS
<1>2. M = CHOOSE f : Loop(f)
  BY DEF Minutes
<1> HIDE DEF n
<1>3. \A k \in 1..n : long(k) \in Int
  BY <1>1 DEF Interval
<1> HIDE DEF long
<1>4. step \in [(1..n) \X Int -> Int]
  BY <1>3
<1>5. \A k \in 1..n : \A m \in Int : step[<<k, m>>] = m + long(k)
  OBVIOUS
<1> HIDE DEF step
<1>6. PICK f \in [0..n -> Int] : f[0] = 0 /\ \A k \in 1..n : f[k] = step[<<k, f[k - 1]>>]
  <2>1. n \in Nat
    BY <1>1
  <2> DEFINE V == Int
  <2>2. 0 \in V /\ step \in [(1..n) \X V -> V]
    BY <1>4
  <2> HIDE DEF V
  <2>3. Unrolls(n, V, 0, step)
    BY <2>1, <2>2, Loops
  <2> QED BY <2>3 DEF Unrolls, V
<1>7. \A k \in 1..n : f[k] = f[k - 1] + long(k)
  <2> TAKE k \in 1..n
  <2>1. k - 1 \in 0..n
    BY <1>1
  <2> QED BY <1>5, <1>6, <2>1
<1>8. f = [k \in 0..n |-> IF k = 0 THEN 0 ELSE f[k - 1] + long(k)]
  BY <1>1, <1>6, <1>7
<1>9. M = [k \in 0..n |-> IF k = 0 THEN 0 ELSE M[k - 1] + long(k)]
  BY <1>2, <1>8
<1> HIDE DEF M
<1>10. M[0] = 0 /\ \A k \in 1..n : M[k] = M[k - 1] + long(k)
  BY <1>1, <1>9
<1>11. ASSUME NEW k \in 0..(n - 1), M[k] \in Int PROVE M[k + 1] \in Int
  <2>1. k + 1 \in 1..n /\ (k + 1) - 1 = k
    BY <1>1
  <2>2. M[k + 1] = M[k] + long(k + 1) /\ long(k + 1) \in Int
    BY <1>3, <1>10, <2>1
  <2> QED BY <1>11, <2>2
<1>12. 0 \in S /\ \A k \in 0..(n - 1) : k \in S => k + 1 \in S
  BY <1>1, <1>10, <1>11
<1>13. \A k \in 0..n : M[k] \in Int
  <2> HIDE DEF S
  <2>1. \A k \in 0..n : k \in S
    BY <1>1, <1>12, CountingUp
  <2> QED BY <2>1 DEF S
<1> QED BY <1>10, <1>13 DEF M, n, long

-----------------------------------------------------------------------------
(* What is covered.                                                         *)

Window == WorkStart..(WorkEnd - 1)
Covers(c, t) == c[1] <= t /\ t < c[2]
Covered(s, k) == {t \in Window : \E i \in 1..k : Covers(s[i], t)}

Inside(c) == WorkStart <= c[1] /\ c[1] < c[2] /\ c[2] <= WorkEnd

\* Blocks of the working day, apart from one another.
Blocks(m) == /\ m \in Seq(Interval)
             /\ \A i \in DOMAIN m : Inside(m[i])
             /\ \A i, j \in DOMAIN m : i < j => m[i][2] < m[j][1]

\* The sum is the number of minutes that they cover.
LEMMA MinutesCount ==
  ASSUME NEW m, Blocks(m)
  PROVE  Minutes(m)[Len(m)] = Cardinality(Covered(m, Len(m)))
<1> DEFINE n == Len(m)
           S == {k \in 0..n : Minutes(m)[k] = Cardinality(Covered(m, k))}
<1>1. /\ n \in Nat /\ DOMAIN m = 1..n
      /\ \A i \in 1..n : m[i][1] \in Int /\ m[i][2] \in Int
  BY DEF Blocks, Interval
<1>2. /\ Minutes(m)[0] = 0
      /\ \A k \in 1..n : Minutes(m)[k] = Minutes(m)[k - 1] + (m[k][2] - m[k][1])
  BY MinutesSteps DEF Blocks
<1> HIDE DEF n
<1>3. WorkStart \in Int /\ WorkEnd \in Int /\ IsFiniteSet(Window)
  BY WorkingDayAssumption, FS_Interval DEF Window
<1>4. 0 \in S
  <2>1. Covered(m, 0) = {}
    BY DEF Covered
  <2>2. Minutes(m)[0] = Cardinality(Covered(m, 0))
    BY <1>2, <2>1, FS_EmptySet
  <2> QED BY <1>1, <2>2
<1>5. ASSUME NEW k \in 0..(n - 1), k \in S PROVE k + 1 \in S
  <2> DEFINE a == m[k + 1][1]
             z == m[k + 1][2]
             C == Covered(m, k)
  <2>1. k + 1 \in 1..n /\ (k + 1) - 1 = k /\ k \in Nat
    BY <1>1
  <2>2. a \in Int /\ z \in Int /\ WorkStart <= a /\ a < z /\ z <= WorkEnd
    BY <1>1, <2>1 DEF Blocks, Inside
  <2>3. Covered(m, k + 1) = C \cup (a..(z - 1))
    <3>1. \A t \in Window : t \in Int
      BY DEF Window
    <3>2. 1..(k + 1) = (1..k) \cup {k + 1}
      BY <2>1
    <3>3. \A t \in Int : Covers(m[k + 1], t) <=> t \in a..(z - 1)
      BY <2>2 DEF Covers
    <3>4. a..(z - 1) \subseteq Window
      BY <1>3, <2>2 DEF Window
    <3> HIDE DEF a, z
    <3> QED BY <3>1, <3>2, <3>3, <3>4 DEF Covered
  <2>4. C \cap (a..(z - 1)) = {}
    <3>1. \A i \in 1..k : m[i][2] < a /\ m[i][2] \in Int
      <4>1. \A i \in 1..k : i \in 1..n /\ i < k + 1
        BY <1>1, <2>1
      <4> QED BY <1>1, <2>1, <4>1 DEF Blocks
    <3>2. ASSUME NEW t \in C PROVE t < a /\ t \in Int
      <4>1. t \in Int
        BY DEF Covered, Window
      <4>2. PICK i \in 1..k : Covers(m[i], t)
        BY DEF Covered
      <4> QED BY <2>2, <3>1, <4>1, <4>2 DEF Covers
    <3> HIDE DEF C, a, z
    <3> QED BY <2>2, <3>2
  <2>5. IsFiniteSet(C) /\ Cardinality(C) \in Nat
    BY <1>3, FS_Subset, FS_CardinalityType DEF Covered
  <2>6. IsFiniteSet(a..(z - 1)) /\ Cardinality(a..(z - 1)) = z - a
    <3> HIDE DEF a, z
    <3>1. z - 1 \in Int /\ ~(a > z - 1) /\ (z - 1) - a + 1 = z - a
      BY <2>2
    <3> QED BY <2>2, <3>1, FS_Interval
  <2>7. Cardinality(C \cup (a..(z - 1))) = Cardinality(C) + (z - a)
    <3> HIDE DEF C, a, z
    <3>1. Cardinality(C \cup (a..(z - 1)))
            = Cardinality(C) + Cardinality(a..(z - 1)) - Cardinality(C \cap (a..(z - 1)))
      BY <2>5, <2>6, FS_Union
    <3>2. Cardinality(C \cap (a..(z - 1))) = 0
      BY <2>4, FS_EmptySet
    <3> QED BY <2>2, <2>5, <2>6, <3>1, <3>2
  <2>8. Minutes(m)[k + 1] = Minutes(m)[k] + (z - a)
    BY <1>2, <2>1
  <2>9. Minutes(m)[k] = Cardinality(C)
    BY <1>5
  <2> HIDE DEF C, a, z
  <2>10. Minutes(m)[k + 1] = Cardinality(Covered(m, k + 1))
    BY <2>3, <2>7, <2>8, <2>9
  <2> QED BY <1>1, <2>1, <2>10
<1>6. n \in S
  <2> HIDE DEF S
  <2>1. \A k \in 0..n : k \in S
    BY <1>1, <1>4, <1>5, CountingUp
  <2> QED BY <1>1, <2>1
<1> QED BY <1>6 DEF n

\* Merging an interval that starts no earlier than the last block covers its
\* minutes, and keeps the blocks apart.
LEMMA MergeCovers ==
  ASSUME NEW m, Blocks(m), NEW c \in Interval, Inside(c),
         m # <<>> => Last(m)[1] <= c[1]
  PROVE  LET q == Merge(m, c) IN
         /\ Blocks(q) /\ q # <<>> /\ Last(q)[1] <= c[1]
         /\ Covered(q, Len(q)) = {t \in Window : t \in Covered(m, Len(m)) \/ Covers(c, t)}
<1> DEFINE n == Len(m)
           q == Merge(m, c)
<1>1. /\ n \in Nat /\ DOMAIN m = 1..n /\ m \in Seq(Interval)
      /\ \A i \in 1..n : m[i] \in Interval /\ m[i][1] \in Int /\ m[i][2] \in Int
  BY DEF Blocks, Interval
<1>2. c[1] \in Int /\ c[2] \in Int /\ WorkStart \in Int /\ WorkEnd \in Int
  BY WorkingDayAssumption DEF Interval
<1>3. \A t \in Window : t \in Int
  BY DEF Window
<1>4. CASE m # <<>> /\ c[1] <= Last(m)[2]
  <2> DEFINE x == m[n][1]
             z == Larger(m[n][2], c[2])
  <2>1. n \in 1..n /\ Last(m) = m[n]
    BY <1>1, <1>4 DEF Last
  <2>2. q = Append(Front(m), <<x, z>>)
    BY <1>4, <2>1 DEF Merge
  <2>3. x \in Int /\ z \in Int /\ <<x, z>> \in Interval
    BY <1>1, <1>2, <2>1 DEF Interval, Larger
  <2>4. /\ q \in Seq(Interval) /\ Len(q) = n /\ q[n] = <<x, z>>
        /\ \A i \in 1..(n - 1) : q[i] = m[i]
    <3>1. /\ Front(m) \in Seq(Interval) /\ Len(Front(m)) = n - 1
          /\ \A i \in 1..(n - 1) : Front(m)[i] = m[i]
      BY <1>1, <2>1 DEF Front
    <3> HIDE DEF q, n, x, z
    <3> QED BY <1>1, <2>1, <2>2, <2>3, <3>1
  <2>5. /\ x <= c[1] /\ c[1] <= m[n][2] /\ Inside(m[n])
        /\ \A i \in 1..(n - 1) : i \in 1..n /\ m[i][2] < x
    <3>1. x <= c[1] /\ c[1] <= m[n][2]
      BY <1>4, <2>1
    <3>2. \A i \in 1..(n - 1) : i \in 1..n /\ i < n
      BY <1>1
    <3>3. Inside(m[n]) /\ \A i \in 1..n : i < n => m[i][2] < x
      BY <1>1, <2>1 DEF Blocks
    <3> HIDE DEF n, x
    <3> QED BY <3>1, <3>2, <3>3
  <2>6. WorkStart <= x /\ x < z /\ z <= WorkEnd
    BY <1>1, <1>2, <2>1, <2>5, SMTT(30) DEF Inside, Larger
  <2>7. \A t \in Int : x <= t /\ t < z <=> Covers(m[n], t) \/ Covers(c, t)
    BY <1>1, <1>2, <2>1, <2>5 DEF Covers, Larger
  <2> HIDE DEF q, n, x, z
  <2>8. /\ q[n][1] = x /\ q[n][2] = z /\ DOMAIN q = 1..n
        /\ \A i \in 1..n : i = n \/ i \in 1..(n - 1)
    BY <1>1, <2>4
  <2>9. Blocks(q)
    <3>1. ASSUME NEW i \in 1..n PROVE Inside(q[i])
      <4>1. CASE i = n
        BY <2>6, <2>8, <4>1 DEF Inside
      <4>2. CASE i \in 1..(n - 1)
        BY <1>1, <2>4, <4>2 DEF Blocks
      <4> QED BY <2>8, <4>1, <4>2
    <3>2. ASSUME NEW i \in 1..n, NEW j \in 1..n, i < j PROVE q[i][2] < q[j][1]
      <4>1. i \in 1..(n - 1)
        BY <1>1, <3>2
      <4>2. CASE j = n
        BY <2>4, <2>5, <2>8, <4>1, <4>2
      <4>3. CASE j \in 1..(n - 1)
        BY <1>1, <2>4, <3>2, <4>1, <4>3 DEF Blocks
      <4> QED BY <2>8, <4>2, <4>3
    <3> QED BY <2>4, <2>8, <3>1, <3>2 DEF Blocks
  <2>10. q # <<>> /\ Last(q)[1] <= c[1]
    BY <1>1, <2>1, <2>4, <2>5, <2>8 DEF Last
  <2>11. ASSUME NEW t \in Window
         PROVE  (\E i \in 1..n : Covers(q[i], t))
                  <=> (\E i \in 1..n : Covers(m[i], t)) \/ Covers(c, t)
    <3>1. Covers(q[n], t) <=> Covers(m[n], t) \/ Covers(c, t)
      BY <1>3, <2>7, <2>8 DEF Covers
    <3>2. \A i \in 1..(n - 1) : Covers(q[i], t) <=> Covers(m[i], t)
      BY <2>4
    <3> QED BY <2>1, <2>5, <2>8, <3>1, <3>2
  <2>12. Covered(q, n) = {t \in Window : t \in Covered(m, n) \/ Covers(c, t)}
    BY <2>11 DEF Covered
  <2> QED BY <2>4, <2>9, <2>10, <2>12 DEF q, n
<1>5. CASE ~(m # <<>> /\ c[1] <= Last(m)[2])
  <2>1. q = Append(m, c)
    BY <1>5 DEF Merge
  <2> HIDE DEF q, n
  <2>2. /\ q \in Seq(Interval) /\ Len(q) = n + 1 /\ q[n + 1] = c /\ q # <<>>
        /\ DOMAIN q = 1..(n + 1)
        /\ \A i \in 1..n : q[i] = m[i]
    BY <1>1, <2>1 DEF n
  <2>3. \A i \in 1..(n + 1) : i = n + 1 \/ i \in 1..n
    BY <1>1
  <2>4. \A i \in 1..n : m[i][2] < c[1]
    <3> SUFFICES ASSUME NEW i \in 1..n PROVE m[i][2] < c[1]
      OBVIOUS
    <3>1. n \in 1..n /\ m # <<>> /\ Last(m) = m[n]
      BY <1>1 DEF Last, n
    <3>2. m[n][2] < c[1] /\ Inside(m[n])
      BY <1>1, <1>2, <1>5, <3>1 DEF Blocks
    <3>3. i = n \/ m[i][2] < m[n][1]
      BY <1>1, <3>1 DEF Blocks
    <3>4. m[i][2] \in Int /\ m[n][1] \in Int /\ m[n][2] \in Int
      BY <1>1, <3>1
    <3> QED BY <1>2, <3>2, <3>3, <3>4 DEF Inside
  <2>5. Blocks(q)
    <3>1. ASSUME NEW i \in 1..(n + 1) PROVE Inside(q[i])
      BY <1>1, <2>2, <2>3 DEF Blocks
    <3>2. ASSUME NEW i \in 1..(n + 1), NEW j \in 1..(n + 1), i < j
          PROVE  q[i][2] < q[j][1]
      <4>1. i \in 1..n
        BY <1>1, <3>2
      <4>2. CASE j = n + 1
        BY <2>2, <2>4, <4>1, <4>2
      <4>3. CASE j \in 1..n
        BY <1>1, <2>2, <3>2, <4>1, <4>3 DEF Blocks
      <4> QED BY <2>3, <4>2, <4>3
    <3> QED BY <2>2, <3>1, <3>2 DEF Blocks
  <2>6. Last(q)[1] <= c[1]
    BY <1>2, <2>2 DEF Last
  <2>7. ASSUME NEW t \in Window
        PROVE  (\E i \in 1..(n + 1) : Covers(q[i], t))
                  <=> (\E i \in 1..n : Covers(m[i], t)) \/ Covers(c, t)
    <3>1. n + 1 \in 1..(n + 1) /\ \A i \in 1..n : i \in 1..(n + 1)
      BY <1>1
    <3> QED BY <2>2, <2>3, <3>1
  <2>8. Covered(q, n + 1) = {t \in Window : t \in Covered(m, n) \/ Covers(c, t)}
    BY <2>7 DEF Covered
  <2> QED BY <2>2, <2>5, <2>6, <2>8 DEF q, n
<1> QED BY <1>4, <1>5

\* After k intervals the blocks cover what these do, and the last of them
\* starts before any interval to come.
LEMMA Merging ==
  ASSUME NEW s, Sensible(s), NEW k \in 0..Len(s)
  PROVE  LET m == Merged(s)[k] IN
         /\ Blocks(m) /\ Covered(m, Len(m)) = Covered(s, k)
         /\ m # <<>> => \A j \in (k + 1)..Len(s) : Last(m)[1] <= Clipped(s[j])[1]
<1> DEFINE n == Len(s)
           M == Merged(s)
           Good(l) == /\ Blocks(M[l]) /\ Covered(M[l], Len(M[l])) = Covered(s, l)
                      /\ M[l] # <<>> => \A j \in (l + 1)..n : Last(M[l])[1] <= Clipped(s[j])[1]
           S == {l \in 0..n : Good(l)}
<1>1. n \in Nat /\ DOMAIN s = 1..n /\ \A i \in 1..n : s[i] \in Interval
  BY DEF Sensible
<1>2. /\ M[0] = <<>>
      /\ \A l \in 1..n : M[l] = MergeRound(s, M[l - 1], l)
  BY MergedSteps DEF Sensible
<1> HIDE DEF n, M
<1>3. \A i, j \in 1..n : i < j => Clipped(s[i])[1] <= Clipped(s[j])[1]
  <2> SUFFICES ASSUME NEW i \in 1..n, NEW j \in 1..n, i < j
               PROVE  Clipped(s[i])[1] <= Clipped(s[j])[1]
    OBVIOUS
  <2>1. Earlier(s[i], s[j]) \/ s[i] = s[j]
    BY <1>1 DEF Sensible, Ordered
  <2>2. s[i][1] \in Int /\ s[j][1] \in Int
    BY <1>1 DEF Interval
  <2>3. s[i][1] <= s[j][1]
    BY <2>1, <2>2 DEF Earlier
  <2>4. /\ Clipped(s[i])[1] = Larger(s[i][1], WorkStart)
        /\ Clipped(s[j])[1] = Larger(s[j][1], WorkStart) /\ WorkStart \in Int
    BY <1>1, ClippedType
  <2> QED BY <2>2, <2>3, <2>4 DEF Larger
<1>4. 0 \in S
  <2>1. Blocks(M[0])
    BY <1>2 DEF Blocks
  <2>2. Covered(M[0], Len(M[0])) = {} /\ Covered(s, 0) = {}
    BY <1>2 DEF Covered
  <2>3. Good(0)
    BY <1>2, <2>1, <2>2
  <2> HIDE DEF Good
  <2> QED BY <1>1, <2>3
<1>5. ASSUME NEW l \in 0..(n - 1), l \in S PROVE l + 1 \in S
  <2> DEFINE m == M[l]
             q == M[l + 1]
             c == Clipped(s[l + 1])
  <2>1. l + 1 \in 1..n /\ (l + 1) - 1 = l /\ l \in Nat /\ l + 1 \in (l + 1)..n
    BY <1>1
  <2>2. /\ c \in Interval /\ c[1] \in Int /\ c[2] \in Int
        /\ c[1] = Larger(s[l + 1][1], WorkStart) /\ c[2] = Smaller(s[l + 1][2], WorkEnd)
        /\ s[l + 1][1] \in Int /\ s[l + 1][2] \in Int
        /\ WorkStart \in Int /\ WorkEnd \in Int
    <3>1. s[l + 1] \in Interval
      BY <1>1, <2>1
    <3> QED BY <3>1, ClippedType DEF Interval
  <2>3. q = IF c[1] < c[2] THEN Merge(m, c) ELSE m
    BY <1>2, <2>1 DEF MergeRound
  <2>4. /\ Blocks(m) /\ Covered(m, Len(m)) = Covered(s, l)
        /\ m # <<>> => \A j \in (l + 1)..n : Last(m)[1] <= Clipped(s[j])[1]
    BY <1>5
  <2>5. Covered(s, l + 1) = {t \in Window : t \in Covered(s, l) \/ Covers(c, t)}
    <3>1. \A t \in Window : Covers(s[l + 1], t) <=> Covers(c, t)
      BY <2>2 DEF Window, Covers, Larger, Smaller
    <3>2. 1..(l + 1) = (1..l) \cup {l + 1}
      BY <2>1
    <3> HIDE DEF c
    <3> QED BY <3>1, <3>2 DEF Covered
  <2> HIDE DEF m, q, c, S
  <2>6. CASE c[1] < c[2]
    <3>1. Inside(c)
      BY <2>2, <2>6 DEF Inside, Larger, Smaller
    <3>2. m # <<>> => Last(m)[1] <= c[1]
      BY <2>1, <2>4 DEF c
    <3>3. /\ Blocks(q) /\ q # <<>> /\ Last(q)[1] <= c[1]
          /\ Covered(q, Len(q)) = {t \in Window : t \in Covered(m, Len(m)) \/ Covers(c, t)}
      BY <2>2, <2>3, <2>4, <2>6, <3>1, <3>2, MergeCovers
    <3>4. ASSUME NEW j \in ((l + 1) + 1)..n PROVE Last(q)[1] <= Clipped(s[j])[1]
      <4>1. j \in 1..n /\ l + 1 < j
        BY <1>1, <2>1
      <4>2. c[1] <= Clipped(s[j])[1]
        BY <1>3, <2>1, <4>1 DEF c
      <4>3. Clipped(s[j])[1] \in Int
        BY <1>1, <4>1, ClippedType DEF Interval
      <4>4. Last(q)[1] \in Int
        BY <3>3 DEF Blocks, Last, Interval
      <4> QED BY <2>2, <3>3, <4>2, <4>3, <4>4
    <3>5. Covered(q, Len(q)) = Covered(s, l + 1)
      BY <2>4, <2>5, <3>3
    <3>6. Good(l + 1)
      BY <3>3, <3>4, <3>5 DEF q
    <3> HIDE DEF Good
    <3> QED BY <1>1, <2>1, <3>6 DEF S
  <2>7. CASE ~(c[1] < c[2])
    <3>1. \A t \in Window : ~ Covers(c, t)
      BY <2>2, <2>7 DEF Covers, Window
    <3>2. Covered(s, l + 1) = Covered(s, l)
      BY <2>5, <3>1 DEF Covered
    <3>3. \A j \in ((l + 1) + 1)..n : j \in (l + 1)..n
      BY <1>1, <2>1
    <3> QED BY <1>1, <2>1, <2>3, <2>4, <2>7, <3>2, <3>3 DEF S, q
  <2> QED BY <2>6, <2>7
<1>6. \A l \in 0..n : l \in S
  <2> HIDE DEF S
  <2> QED BY <1>1, <1>4, <1>5, CountingUp
<1> QED BY <1>6 DEF n, M

\* The free minutes are those that nothing covers.
LEMMA FreeMinutes ==
  ASSUME NEW b, Sensible(b)
  PROVE  free_minutes(b) = Cardinality({t \in WorkStart..(WorkEnd - 1) :
                             \A i \in DOMAIN b : ~(b[i][1] <= t /\ t < b[i][2])})
<1> DEFINE n == Len(b)
           m == Merged(b)[n]
           C == Covered(b, n)
<1>1. n \in Nat /\ DOMAIN b = 1..n
  BY DEF Sensible
<1>2. sorted(b) = b
  BY SortedStays DEF Sensible
<1>3. free_minutes(b) = (WorkEnd - WorkStart) - Minutes(m)[Len(m)]
  BY <1>2 DEF free_minutes
<1>4. Blocks(m) /\ Covered(m, Len(m)) = C
  BY <1>1, Merging
<1>5. Minutes(m)[Len(m)] = Cardinality(C)
  <2> HIDE DEF m, C
  <2> QED BY <1>4, MinutesCount
<1>6. /\ WorkStart \in Int /\ WorkEnd \in Int /\ IsFiniteSet(Window)
      /\ Cardinality(Window) = WorkEnd - WorkStart
  <2>1. WorkStart \in Int /\ WorkEnd \in Int /\ WorkStart <= WorkEnd
    BY WorkingDayAssumption
  <2>2. WorkEnd - 1 \in Int /\ (WorkEnd - 1) - WorkStart + 1 = WorkEnd - WorkStart
        /\ (WorkStart > WorkEnd - 1 => WorkEnd - WorkStart = 0)
    BY <2>1
  <2> QED BY <2>1, <2>2, FS_Interval DEF Window
<1>7. C \subseteq Window /\ Window \cap C = C
  BY DEF Covered
<1>8. {t \in WorkStart..(WorkEnd - 1) : \A i \in DOMAIN b : ~(b[i][1] <= t /\ t < b[i][2])}
        = Window \ C
  <2> HIDE DEF n
  <2> QED BY <1>1 DEF Window, Covered, Covers
<1> HIDE DEF C, m
<1>9. Cardinality(Window \ C) = Cardinality(Window) - Cardinality(C)
  BY <1>6, <1>7, FS_Difference
<1> QED BY <1>3, <1>5, <1>6, <1>8, <1>9

\* free_minutes is the number of minutes of the working day that no busy event
\* covers: none is counted twice, none outside the day.
THEOREM FreeMinutesAreFree == DaySpec => []FreeIsUncovered
<1>1. DayTypeOK => FreeIsUncovered
  BY BusyIsSensible, FreeMinutes DEF DayTypeOK, FreeIsUncovered
<1> QED BY <1>1, DayTypeCorrect, PTL
=============================================================================
