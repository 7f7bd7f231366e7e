---------------------------- MODULE ServiceProofs ----------------------------
(***************************************************************************)
(* Theorems of Migrations, for any number of processes, any releases and   *)
(* any number of failures; of the start-up order of the app process; and   *)
(* of its pool, for any finite set of turns and any size.                  *)
(*                                                                         *)
(* The argument: the lock admits one process at a time (OneHolder), so     *)
(* what it read stays what is recorded (ReadIsCurrent), so its batch goes  *)
(* on where the schema ends (BatchFollows).  When it finds nothing pending *)
(* the batch ends at its newest file, so the app that serves has what it   *)
(* ships, and no later step takes from it (Ready).                         *)
(***************************************************************************)
EXTENDS Service, FiniteSetTheorems, SequenceTheorems, TLAPS

OneHolder == \A r, s \in Holders : r = s

RowsMatch == schema = UpTo(Len(schema)) /\ recorded = 1..Len(schema)

ReadIsCurrent == \A s \in Starters : phase[s] = "apply" => done[s] = recorded

\* A file after the schema's end, of the process's own release.
BatchFollows ==
  \A s \in Starters :
    /\ applied[s] = [i \in 1..Len(applied[s]) |-> Len(schema) + i]
    /\ Len(applied[s]) > 0 =>
         phase[s] = "apply" /\ Len(schema) + Len(applied[s]) <= Ships[s]

Sound == /\ MigrationTypeOK /\ OneHolder /\ RowsMatch /\ ReadIsCurrent
         /\ BatchFollows /\ ServesItsSchema

\* Nothing has been applied yet.
LEMMA SoundInit == MigrationInit => Sound
  BY MigrationsAssumption
     DEF MigrationInit, Sound, MigrationTypeOK, OneHolder, Holders, RowsMatch, UpTo,
         ReadIsCurrent, BatchFollows, ServesItsSchema, Phases

\* A batch that follows the schema continues it.
LEMMA Continues ==
  ASSUME NEW n \in Nat, NEW m \in Nat
  PROVE  UpTo(n) \o [i \in 1..m |-> n + i] = UpTo(n + m)
  BY DEF UpTo

\* What a batch that follows the schema covers.
LEMMA BatchRange ==
  ASSUME NEW n \in Nat, NEW m \in Nat
  PROVE  Range([i \in 1..m |-> n + i]) = (n + 1)..(n + m)
<1>1. ASSUME NEW x \in (n + 1)..(n + m) PROVE x \in Range([i \in 1..m |-> n + i])
  <2>1. x - n \in 1..m /\ n + (x - n) = x
    BY <1>1
  <2> QED BY <2>1 DEF Range
<1>2. ASSUME NEW x \in Range([i \in 1..m |-> n + i]) PROVE x \in (n + 1)..(n + m)
  BY <1>2 DEF Range
<1> QED BY <1>1, <1>2

-----------------------------------------------------------------------------
\* What the commit of a process that finds nothing pending leaves: nothing new,
\* or the whole of its release.
LEMMA CommitIsWhole ==
  ASSUME Sound, NEW s \in Starters, Commit(s)
  PROVE  /\ schema' = UpTo(Len(schema')) /\ recorded' = 1..Len(schema')
         /\ Len(schema') \in Nat /\ Len(schema') >= Len(schema)
         /\ Len(schema') >= Ships[s]
         /\ schema' # schema => Len(schema') = Ships[s] /\ Ships[s] > Len(schema)
<1> DEFINE n == Len(schema)
           m == Len(applied[s])
<1>1. /\ n \in Nat /\ m \in Nat /\ Ships[s] \in Nat
      /\ schema = UpTo(n) /\ recorded = 1..n /\ done[s] = 1..n
      /\ applied[s] = [i \in 1..m |-> n + i]
      /\ m > 0 => n + m <= Ships[s]
  BY MigrationsAssumption DEF Sound, MigrationTypeOK, RowsMatch, ReadIsCurrent, BatchFollows, Commit
<1>2. Range(applied[s]) = (n + 1)..(n + m)
  <2> HIDE DEF n, m
  <2> QED BY <1>1, BatchRange
<1>3. schema' = UpTo(n + m)
  <2>1. schema' = UpTo(n) \o [i \in 1..m |-> n + i]
    BY <1>1 DEF Commit
  <2> HIDE DEF n, m
  <2> QED BY <1>1, <2>1, Continues
<1>4. recorded' = 1..(n + m)
  <2>1. recorded' = (1..n) \cup ((n + 1)..(n + m))
    BY <1>1, <1>2 DEF Commit
  <2> HIDE DEF n, m
  <2> QED BY <1>1, <2>1
<1>5. Ships[s] <= n + m
  <2>1. (1..Ships[s]) \ ((1..n) \cup ((n + 1)..(n + m))) = {}
    BY <1>1, <1>2 DEF Commit, Pending
  <2> HIDE DEF n, m
  <2> QED BY <1>1, <2>1
<1>6. Len(schema') = n + m
  <2> HIDE DEF n, m
  <2> QED BY <1>1, <1>3 DEF UpTo
<1>7. schema' # schema => m > 0
  <2> HIDE DEF n, m
  <2> QED BY <1>1, <1>3
<1> HIDE DEF n, m
<1>8. n + m >= n /\ n + m \in Nat /\ (m > 0 => n + m = Ships[s] /\ Ships[s] > n)
  BY <1>1, <1>5
<1> QED BY <1>3, <1>4, <1>5, <1>6, <1>7, <1>8 DEF n

\* Every step of a start-up keeps the invariant.
LEMMA SoundStep == Sound /\ [MigrationNext]_migration => Sound'
<1> SUFFICES ASSUME Sound, [MigrationNext]_migration PROVE Sound'
  OBVIOUS
<1> USE MigrationsAssumption
<1>1. CASE UNCHANGED migration
  <2>1. UNCHANGED <<schema, recorded, phase, done, applied, failures>>
    BY <1>1 DEF migration
  <2>2. MigrationTypeOK' /\ RowsMatch' /\ ServesItsSchema' /\ ReadIsCurrent'
    BY <2>1 DEF Sound, MigrationTypeOK, RowsMatch, ServesItsSchema, ReadIsCurrent
  <2>3. OneHolder' /\ BatchFollows'
    BY <2>1 DEF Sound, OneHolder, Holders, BatchFollows
  <2> QED BY <2>2, <2>3 DEF Sound
<1>2. ASSUME NEW s \in Starters, Start(s) \/ CreateTable(s) \/ Lock(s) PROVE Sound'
  <2>1. /\ UNCHANGED <<schema, recorded, done, applied, failures>>
        /\ \/ phase[s] \in {"down", "create"}
              /\ phase' = [phase EXCEPT ![s] = IF phase[s] = "down" THEN "create" ELSE "lock"]
           \/ phase[s] = "lock" /\ Holders = {} /\ phase' = [phase EXCEPT ![s] = "read"]
    BY <1>2 DEF Start, CreateTable, Lock, Enter
  <2>2. MigrationTypeOK' /\ RowsMatch'
    BY <2>1 DEF Sound, MigrationTypeOK, Phases, RowsMatch
  <2>3. OneHolder' /\ ReadIsCurrent' /\ ServesItsSchema'
    BY <2>1 DEF Sound, MigrationTypeOK, OneHolder, Holders, ReadIsCurrent, ServesItsSchema
  <2>4. BatchFollows'
    <3>1. \A r \in Starters : phase[r] = "apply" => phase'[r] = "apply"
      BY <2>1 DEF Sound, MigrationTypeOK
    <3> QED BY <2>1, <3>1 DEF Sound, BatchFollows
  <2> QED BY <2>2, <2>3, <2>4 DEF Sound
<1>3. ASSUME NEW s \in Starters, ReadDone(s) PROVE Sound'
  BY <1>3 DEF ReadDone, Enter, Sound, MigrationTypeOK, Phases, OneHolder,
              Holders, RowsMatch, ReadIsCurrent, BatchFollows, ServesItsSchema
<1>4. ASSUME NEW s \in Starters, Apply(s) PROVE Sound'
  <2> DEFINE n == Len(schema)
             m == Len(applied[s])
  <2>1. /\ n \in Nat /\ m \in Nat /\ Ships[s] \in Nat /\ phase[s] = "apply"
        /\ done[s] = 1..n /\ applied[s] \in Seq(Nat)
        /\ applied[s] = [i \in 1..m |-> n + i]
    BY <1>4 DEF Apply, Sound, MigrationTypeOK, RowsMatch, ReadIsCurrent, BatchFollows
  <2>2. PICK f \in Pending(s) : IsNext(s, f) /\ applied' = [applied EXCEPT ![s] = Append(@, f)]
    BY <1>4 DEF Apply
  <2>3. Range(applied[s]) = (n + 1)..(n + m)
    <3> HIDE DEF n, m
    <3> QED BY <2>1, BatchRange
  <2>4. Pending(s) = (n + m + 1)..Ships[s]
    <3>1. Pending(s) = (1..Ships[s]) \ ((1..n) \cup ((n + 1)..(n + m)))
      BY <2>1, <2>3 DEF Pending
    <3> HIDE DEF n, m
    <3> QED BY <2>1, <3>1
  <2>5. f = n + (m + 1) /\ n + (m + 1) <= Ships[s]
    <3>1. f \in (n + m + 1)..Ships[s] /\ \A g \in (n + m + 1)..Ships[s] : f <= g
      BY <2>2, <2>4 DEF IsNext
    <3> HIDE DEF n, m
    <3>2. n + m + 1 \in (n + m + 1)..Ships[s]
      BY <2>1, <3>1
    <3> QED BY <2>1, <3>1, <3>2
  <2>6. applied'[s] = [i \in 1..(m + 1) |-> n + i] /\ Len(applied'[s]) = m + 1
    <3>1. applied'[s] = Append(applied[s], f)
      BY <2>2 DEF Sound, MigrationTypeOK
    <3> HIDE DEF n, m
    <3> QED BY <2>1, <2>5, <3>1
  <2>7. applied' \in [Starters -> Seq(Nat)] /\ \A r \in Starters : r # s => applied'[r] = applied[r]
    BY <2>1, <2>2, <2>5 DEF Sound, MigrationTypeOK
  <2>8. UNCHANGED <<schema, recorded, phase, done, failures>>
    BY <1>4 DEF Apply
  <2>9. BatchFollows'
    <3>1. ASSUME NEW r \in Starters, r # s
          PROVE  /\ applied'[r] = [i \in 1..Len(applied'[r]) |-> Len(schema') + i]
                 /\ Len(applied'[r]) > 0 =>
                      phase'[r] = "apply" /\ Len(schema') + Len(applied'[r]) <= Ships[r]
      BY <2>7, <2>8, <3>1 DEF Sound, BatchFollows
    <3>2. /\ applied'[s] = [i \in 1..Len(applied'[s]) |-> Len(schema') + i]
          /\ phase'[s] = "apply" /\ Len(schema') + Len(applied'[s]) <= Ships[s]
      BY <2>1, <2>5, <2>6, <2>8
    <3> QED BY <3>1, <3>2 DEF BatchFollows
  <2> QED BY <2>7, <2>8, <2>9 DEF Sound, MigrationTypeOK, OneHolder, Holders, RowsMatch, UpTo,
                                   ReadIsCurrent, ServesItsSchema
<1>5. ASSUME NEW s \in Starters, Commit(s) PROVE Sound'
  <2>1. /\ phase' = [phase EXCEPT ![s] = "up"] /\ done' = [done EXCEPT ![s] = {}]
        /\ applied' = [applied EXCEPT ![s] = <<>>] /\ failures' = failures /\ phase[s] = "apply"
    BY <1>5 DEF Commit, Enter, Forget
  <2>2. MigrationTypeOK'
    BY <1>5, <2>1, CommitIsWhole DEF Sound, MigrationTypeOK, Phases, UpTo
  <2>3. \A r \in Starters : r # s => phase[r] # "apply" /\ applied[r] = <<>>
    BY <2>1 DEF Sound, OneHolder, Holders, BatchFollows, MigrationTypeOK
  <2>4. OneHolder' /\ RowsMatch' /\ ReadIsCurrent'
    BY <1>5, <2>1, <2>3, CommitIsWhole
       DEF Sound, MigrationTypeOK, OneHolder, Holders, RowsMatch, ReadIsCurrent
  <2>5. BatchFollows'
    BY <2>1, <2>3 DEF Sound, MigrationTypeOK, BatchFollows
  <2>6. ServesItsSchema'
    BY <1>5, <2>1, CommitIsWhole DEF Sound, MigrationTypeOK, ServesItsSchema
  <2> QED BY <2>2, <2>4, <2>5, <2>6 DEF Sound
<1>6. ASSUME NEW s \in Starters, Fail(s) \/ Stop(s) PROVE Sound'
  <2>1. /\ phase' = [phase EXCEPT ![s] = "down"] /\ schema' = schema /\ recorded' = recorded
        /\ failures' = failures + 1
    BY <1>6 DEF Fail, Stop, Enter
  <2>2. done' = [done EXCEPT ![s] = {}] \/ done' = done
    BY <1>6 DEF Fail, Stop, Forget
  <2>3. applied' = [applied EXCEPT ![s] = <<>>]
    <3>1. CASE Fail(s)
      BY <3>1 DEF Fail, Forget
    <3>2. CASE Stop(s)
      <4>1. applied' = applied /\ phase[s] = "up"
        BY <3>2 DEF Stop
      <4>2. applied[s] = <<>>
        <5>1. applied[s] \in Seq(Nat) /\ ~(Len(applied[s]) > 0)
          BY <4>1 DEF Sound, MigrationTypeOK, BatchFollows
        <5> QED BY <5>1
      <4> QED BY <4>1, <4>2 DEF Sound, MigrationTypeOK
    <3> QED BY <1>6, <3>1, <3>2
  <2>4. MigrationTypeOK'
    <3>1. phase' \in [Starters -> Phases]
      BY <2>1 DEF Sound, MigrationTypeOK, Phases
    <3>2. done' \in [Starters -> SUBSET Nat]
      BY <2>2 DEF Sound, MigrationTypeOK
    <3>3. applied' \in [Starters -> Seq(Nat)]
      BY <2>3 DEF Sound, MigrationTypeOK
    <3>4. schema' \in Seq(Nat) /\ recorded' \subseteq Nat /\ failures' \in Nat
      BY <2>1 DEF Sound, MigrationTypeOK
    <3> QED BY <3>1, <3>2, <3>3, <3>4 DEF MigrationTypeOK
  <2>5. OneHolder' /\ RowsMatch' /\ ReadIsCurrent' /\ ServesItsSchema'
    BY <2>1, <2>2, <2>3 DEF Sound, MigrationTypeOK, OneHolder, Holders, RowsMatch,
                            ReadIsCurrent, ServesItsSchema
  <2>6. ASSUME NEW r \in Starters
        PROVE  /\ applied'[r] = [i \in 1..Len(applied'[r]) |-> Len(schema') + i]
               /\ Len(applied'[r]) > 0 =>
                    phase'[r] = "apply" /\ Len(schema') + Len(applied'[r]) <= Ships[r]
    <3>1. CASE r = s
      <4>1. applied'[r] = <<>> /\ Len(applied'[r]) = 0
        BY <2>3, <3>1 DEF Sound, MigrationTypeOK
      <4> QED BY <4>1
    <3>2. CASE r # s
      <4>1. applied'[r] = applied[r] /\ phase'[r] = phase[r]
        BY <2>1, <2>3, <3>2 DEF Sound, MigrationTypeOK
      <4> QED BY <2>1, <4>1 DEF Sound, BatchFollows
    <3> QED BY <3>1, <3>2
  <2> QED BY <2>4, <2>5, <2>6 DEF Sound, BatchFollows
<1> QED BY <1>1, <1>2, <1>3, <1>4, <1>5, <1>6 DEF MigrationNext, StartUp

\* The invariant holds in every behaviour.
LEMMA AlwaysSound == MigrationSpec => []Sound
  BY SoundInit, SoundStep, PTL DEF MigrationSpec

-----------------------------------------------------------------------------
\* Start-up (db/migrate.py) is type-correct.
THEOREM MigrationsTypeCorrect == MigrationSpec => []MigrationTypeOK
<1>1. Sound => MigrationTypeOK
  BY DEF Sound
<1> QED BY <1>1, AlwaysSound, PTL

\* A process serves (main.lifespan has yielded) only on a schema that holds every
\* file its release ships.
THEOREM ServingIsMigrated == MigrationSpec => []ServesItsSchema
<1>1. Sound => ServesItsSchema
  BY DEF Sound
<1> QED BY <1>1, AlwaysSound, PTL

\* run_migrations is all or nothing: each commit takes the schema to that of a
\* whole release, every file once and in order.
THEOREM MigrationsAreWhole == MigrationSpec => WholeReleases
<1>1. Sound /\ [MigrationNext]_migration => [MovesToRelease]_migration
  <2> SUFFICES ASSUME Sound, MigrationNext, schema' # schema
               PROVE  \E s \in Starters : schema' = UpTo(Ships[s]) /\ Ships[s] > Len(schema)
    BY DEF migration, MovesToRelease
  <2>1. PICK s \in Starters : Commit(s)
    BY DEF MigrationNext, StartUp, Start, CreateTable, Lock, ReadDone, Apply, Fail, Stop
  <2> QED BY <2>1, CommitIsWhole
<1> QED BY <1>1, AlwaysSound, PTL DEF MigrationSpec, WholeReleases

-----------------------------------------------------------------------------
(* The app process.                                                         *)

Ready == \A t \in Turns : pc[t] # "new" => Len(schema) >= Ships[App]

\* No step of start-up takes from the schema.
LEMMA SchemaGrows ==
  ASSUME Sound, NEW s \in Starters, StartUp(s) \/ Fail(s) \/ Stop(s)
  PROVE  Len(schema) \in Nat /\ Len(schema') \in Nat /\ Len(schema') >= Len(schema)
<1>1. Len(schema) \in Nat
  BY DEF Sound, MigrationTypeOK
<1>2. CASE Commit(s)
  BY <1>1, <1>2, CommitIsWhole
<1>3. CASE schema' = schema
  BY <1>1, <1>3
<1> QED BY <1>2, <1>3 DEF StartUp, Start, CreateTable, Lock, ReadDone, Apply, Fail, Stop

\* The app serves only after it has migrated, and nothing is undone after that.
THEOREM MigratedBeforeTurns == ServiceSpec => []TurnsFindTheirSchema
<1>1. ServiceInit => Sound /\ Ready
  BY SoundInit DEF ServiceInit, Init, Ready
<1>2. Sound /\ Ready /\ [ServiceNext]_service => (Sound /\ Ready)'
  <2> SUFFICES ASSUME Sound, Ready, [ServiceNext]_service PROVE Sound' /\ Ready'
    OBVIOUS
  <2> USE ServiceAssumption, MigrationsAssumption
  <2>1. CASE UNCHANGED service
    BY <2>1, SoundStep DEF service, vars, migration, Ready
  <2>2. ASSUME NEW t \in Turns, Serve(t) PROVE Sound' /\ Ready'
    <3>1. UNCHANGED migration /\ Len(schema) >= Ships[App]
      BY <2>2 DEF Serve, Sound, ServesItsSchema
    <3> QED BY <3>1, SoundStep DEF migration, Ready
  <2>3. ASSUME NEW s \in Starters, Migrate(s) \/ Exit(s) PROVE Sound' /\ Ready'
    <3>1. StartUp(s) \/ Fail(s) \/ Stop(s)
      BY <2>3 DEF Migrate, Exit
    <3>2. Sound'
      BY <3>1, SoundStep DEF MigrationNext
    <3>3. \A t \in Turns : pc'[t] # "new" => pc[t] # "new"
      BY <2>3 DEF Migrate, Exit, vars
    <3>4. Len(schema) >= Ships[App] => Len(schema') >= Ships[App]
      BY <3>1, SchemaGrows
    <3> QED BY <3>2, <3>3, <3>4 DEF Ready
  <2> QED BY <2>1, <2>2, <2>3 DEF ServiceNext
<1>3. Sound /\ Ready => TurnsFindTheirSchema
  BY DEF Sound, Ready, TurnsFindTheirSchema
<1> QED BY <1>1, <1>2, <1>3, PTL DEF ServiceSpec

\* With the pool, the turns and the exits of the app around it, start-up is
\* still the start-up of Migrations ...
THEOREM ServiceRefinesMigrations == ServiceSpec => MigrationSpec
<1>1. ServiceInit => MigrationInit
  BY DEF ServiceInit
<1>2. [ServiceNext]_service => [MigrationNext]_migration
  BY DEF ServiceNext, service, Serve, Migrate, Exit, MigrationNext
<1> QED BY <1>1, <1>2, PTL DEF ServiceSpec, MigrationSpec

\* ... so the commits that the running app meets are of whole releases too.
THEOREM ServiceMigratesWhole == ServiceSpec => WholeReleases
BY ServiceRefinesMigrations, MigrationsAreWhole, PTL

-----------------------------------------------------------------------------
(* The pool.                                                                *)
(*                                                                          *)
(* What a turn holds follows from where it is (Holds): only the record of a *)
(* transcription is waited for with a connection in hand.  So in a jam each *)
(* holder is at that place with one connection, and there are as many of    *)
(* them as connections.                                                     *)

InTransaction == {"fetch", "metric", "reading", "counting", "working", "logging"}
Holding(p) == IF p = "noted" THEN 2 ELSE IF p \in InTransaction THEN 1 ELSE 0

\* A transcription is recorded only for a burst that has a voice note.
Holds ==
  \A t \in Turns :
    /\ held[t] = Holding(pc[t])
    /\ notes[t] <= Notes[t]
    /\ pc[t] \in {"metric", "noted"} => Notes[t] > 0

\* The pool's waiters are the turns that want a connection, each once.
Waiters ==
  /\ IsInjective(queue)
  /\ \A t \in Turns : pc[t] \in Wants <=> t \in ToSet(queue)

Pooled == TypeOK /\ Holds /\ Waiters /\ InUse <= Size

\* Sequences of turns.
LEMMA JoinQueue ==
  ASSUME NEW q \in Seq(Turns), NEW t \in Turns, IsInjective(q), t \notin ToSet(q)
  PROVE  /\ Append(q, t) \in Seq(Turns) /\ IsInjective(Append(q, t))
         /\ ToSet(Append(q, t)) = ToSet(q) \cup {t}
<1>1. \A i \in 1..Len(q) : Append(q, t)[i] = q[i] /\ q[i] # t
  BY DEF ToSet
<1>2. Append(q, t)[Len(q) + 1] = t /\ DOMAIN Append(q, t) = 1..(Len(q) + 1)
  OBVIOUS
<1>3. DOMAIN q = 1..Len(q)
  OBVIOUS
<1> QED BY <1>1, <1>2, <1>3 DEF IsInjective, ToSet

\* The head leaves.
LEMMA ServeQueue ==
  ASSUME NEW q \in Seq(Turns), IsInjective(q), q # <<>>
  PROVE  /\ Tail(q) \in Seq(Turns) /\ IsInjective(Tail(q))
         /\ Head(q) \in ToSet(q) /\ ToSet(Tail(q)) = ToSet(q) \ {Head(q)}
<1>1. DOMAIN q = 1..Len(q) /\ Len(q) \in Nat /\ Len(q) >= 1 /\ Head(q) = q[1]
  OBVIOUS
<1>2. /\ DOMAIN Tail(q) = 1..(Len(q) - 1) /\ Tail(q) \in Seq(Turns)
      /\ \A i \in 1..(Len(q) - 1) : Tail(q)[i] = q[i + 1]
  BY <1>1
<1>3. IsInjective(Tail(q))
  BY <1>1, <1>2 DEF IsInjective
<1>4. ToSet(Tail(q)) = ToSet(q) \ {Head(q)}
  <2>1. ASSUME NEW x \in ToSet(q), x # Head(q) PROVE x \in ToSet(Tail(q))
    <3>1. PICK i \in 1..Len(q) : q[i] = x
      BY <1>1, <2>1 DEF ToSet
    <3>2. i - 1 \in 1..(Len(q) - 1) /\ (i - 1) + 1 = i
      BY <1>1, <2>1, <3>1
    <3> QED BY <1>2, <3>1, <3>2 DEF ToSet
  <2>2. ASSUME NEW x \in ToSet(Tail(q)) PROVE x \in ToSet(q) /\ x # Head(q)
    <3>1. PICK i \in 1..(Len(q) - 1) : q[i + 1] = x
      BY <1>2, <2>2 DEF ToSet
    <3>2. i + 1 \in 1..Len(q) /\ 1 \in 1..Len(q) /\ i + 1 # 1
      BY <1>1
    <3> QED BY <1>1, <3>1, <3>2 DEF ToSet, IsInjective
  <2> QED BY <2>1, <2>2
<1>5. Head(q) \in ToSet(q)
  BY <1>1 DEF ToSet
<1> QED BY <1>2, <1>3, <1>4, <1>5

\* Any of them leaves.
LEMMA LeaveQueue ==
  ASSUME NEW q \in Seq(Turns), IsInjective(q), NEW i \in DOMAIN q
  PROVE  /\ RemoveAt(q, i) \in Seq(Turns) /\ IsInjective(RemoveAt(q, i))
         /\ ToSet(RemoveAt(q, i)) = ToSet(q) \ {q[i]}
<1> DEFINE r == RemoveAt(q, i)
           n == Len(q)
<1>1. n \in Nat /\ DOMAIN q = 1..n /\ i \in 1..n
  OBVIOUS
<1>2. /\ r \in Seq(Turns) /\ Len(r) = n - 1
      /\ \A j \in 1..(n - 1) : r[j] = IF j < i THEN q[j] ELSE q[j + 1]
  <2> DEFINE a == SubSeq(q, 1, i - 1)
             b == SubSeq(q, i + 1, n)
  <2>1. /\ a \in Seq(Turns) /\ Len(a) = i - 1
        /\ \A j \in 1..(i - 1) : a[j] = q[j]
    BY <1>1
  <2>2. /\ b \in Seq(Turns) /\ Len(b) = n - i
        /\ \A j \in 1..(n - i) : b[j] = q[j + i]
    BY <1>1
  <2>3. r = a \o b
    BY DEF RemoveAt
  <2> HIDE DEF a, b, r, n
  <2>4. r \in Seq(Turns) /\ Len(r) = n - 1
    <3>1. r \in Seq(Turns) /\ Len(r) = Len(a) + Len(b)
      BY <2>1, <2>2, <2>3, ConcatProperties
    <3>2. (i - 1) + (n - i) = n - 1
      BY <1>1
    <3> QED BY <2>1, <2>2, <3>1, <3>2
  <2>5. ASSUME NEW j \in 1..(n - 1) PROVE r[j] = IF j < i THEN q[j] ELSE q[j + 1]
    <3>1. CASE j < i
      <4>1. j \in 1..(Len(a) + Len(b)) /\ j <= Len(a) /\ j \in 1..(i - 1)
        BY <1>1, <2>1, <2>2, <3>1
      <4>2. (a \o b)[j] = a[j]
        BY <2>1, <2>2, <4>1, ConcatProperties
      <4> QED BY <2>1, <2>3, <3>1, <4>1, <4>2
    <3>2. CASE ~(j < i)
      <4>1. j - (i - 1) \in 1..(n - i) /\ (j - (i - 1)) + i = j + 1
        BY <1>1, <3>2
      <4>2. j \in 1..(Len(a) + Len(b)) /\ ~(j <= Len(a)) /\ j - Len(a) = j - (i - 1)
        BY <1>1, <2>1, <2>2, <3>2
      <4>3. (a \o b)[j] = b[j - Len(a)]
        BY <2>1, <2>2, <4>2, ConcatProperties
      <4>4. (a \o b)[j] = b[j - (i - 1)]
        BY <4>2, <4>3
      <4> QED BY <2>2, <2>3, <3>2, <4>1, <4>4
    <3> QED BY <3>1, <3>2
  <2> QED BY <2>4, <2>5
<1>3. DOMAIN r = 1..(n - 1)
  BY <1>2
<1> HIDE DEF r, n
<1>4. IsInjective(r)
  <2> SUFFICES ASSUME NEW j \in 1..(n - 1), NEW k \in 1..(n - 1), r[j] = r[k] PROVE j = k
    BY <1>3 DEF IsInjective
  <2> DEFINE was(m) == IF m < i THEN m ELSE m + 1
  <2>1. was(j) \in 1..n /\ was(k) \in 1..n /\ r[j] = q[was(j)] /\ r[k] = q[was(k)]
    BY <1>1, <1>2
  <2>2. was(j) = was(k)
    BY <1>1, <2>1 DEF IsInjective
  <2> QED BY <1>1, <2>2
<1>5. ASSUME NEW x \in ToSet(q), x # q[i] PROVE x \in ToSet(r)
  <2>1. PICK j \in 1..n : q[j] = x /\ j # i
    BY <1>1, <1>5 DEF ToSet
  <2>2. CASE j < i
    <3>1. j \in 1..(n - 1)
      BY <1>1, <2>1, <2>2
    <3> QED BY <1>2, <1>3, <2>1, <2>2, <3>1 DEF ToSet
  <2>3. CASE j > i
    <3>1. j - 1 \in 1..(n - 1) /\ (j - 1) + 1 = j /\ ~(j - 1 < i)
      BY <1>1, <2>1, <2>3
    <3> QED BY <1>2, <1>3, <2>1, <3>1 DEF ToSet
  <2> QED BY <1>1, <2>1, <2>2, <2>3
<1>6. ASSUME NEW x \in ToSet(r) PROVE x \in ToSet(q) /\ x # q[i]
  <2>1. PICK j \in 1..(n - 1) : r[j] = x
    BY <1>3, <1>6 DEF ToSet
  <2>2. PICK k \in 1..n : q[k] = x /\ k # i
    <3>1. j \in 1..n /\ j + 1 \in 1..n /\ j \in Int
      BY <1>1
    <3> QED BY <1>1, <1>2, <2>1, <3>1
  <2> QED BY <1>1, <2>2 DEF ToSet, IsInjective
<1> QED BY <1>2, <1>4, <1>5, <1>6 DEF r

\* Connections in use.
LEMMA TakenIsFinite == IsFiniteSet(Taken) /\ InUse \in Nat
<1>1. IsFiniteSet(Turns \X (1..Size))
  <2>1. IsFiniteSet(1..Size)
    BY FS_Interval, ConnectionsAssumption
  <2> QED BY <2>1, FS_Product, ConnectionsAssumption
<1>2. Taken \in SUBSET (Turns \X (1..Size))
  BY DEF Taken
<1> QED BY <1>1, <1>2, FS_Subset, FS_CardinalityType DEF InUse

\* Membership in what h holds.
LEMMA TakenOnes ==
  ASSUME NEW h, NEW c
  PROVE  c \in {d \in Turns \X (1..Size) : d[2] <= h[d[1]]} <=>
           \E t \in Turns, i \in 1..Size : c = <<t, i>> /\ i <= h[t]
  OBVIOUS

\* One more connection, or no more than before.
LEMMA TakesOne ==
  ASSUME TypeOK, NEW t \in Turns, held' = [held EXCEPT ![t] = @ + 1]
  PROVE  InUse' \in Nat /\ InUse' <= InUse + 1
<1> DEFINE c == <<t, held[t] + 1>>
<1>1. Taken' \subseteq Taken \cup {c}
  <2>1. ASSUME NEW s \in Turns, NEW i \in 1..Size, i <= held'[s], ~(i <= held[s])
        PROVE  <<s, i>> = c
    <3>1. s = t
      BY <2>1 DEF TypeOK
    <3>2. held[t] \in Nat /\ held'[t] = held[t] + 1
      BY DEF TypeOK
    <3>3. i = held[t] + 1
      BY <2>1, <3>1, <3>2
    <3> QED BY <3>1, <3>3
  <2> SUFFICES ASSUME NEW d \in Taken', d \notin Taken PROVE d = c
    OBVIOUS
  <2>2. PICK s \in Turns, i \in 1..Size : d = <<s, i>> /\ i <= held'[s]
    BY TakenOnes DEF Taken
  <2>3. ~(i <= held[s])
    BY <2>2, TakenOnes DEF Taken
  <2> QED BY <2>1, <2>2, <2>3
<1>2. /\ IsFiniteSet(Taken \cup {c})
      /\ Cardinality(Taken \cup {c}) = IF c \in Taken THEN InUse ELSE InUse + 1
  BY TakenIsFinite, FS_AddElement DEF InUse
<1>3. IsFiniteSet(Taken') /\ InUse' <= Cardinality(Taken \cup {c})
  BY <1>1, <1>2, FS_Subset DEF InUse
<1>4. InUse' \in Nat
  BY <1>3, FS_CardinalityType DEF InUse
<1> HIDE DEF c
<1> QED BY <1>2, <1>3, <1>4, TakenIsFinite

\* Nothing more is taken.
LEMMA TakesNone ==
  ASSUME TypeOK, \A t \in Turns : held'[t] \in Nat /\ held'[t] <= held[t]
  PROVE  InUse' \in Nat /\ InUse' <= InUse
<1>1. Taken' \subseteq Taken
  <2> SUFFICES ASSUME NEW c \in Taken' PROVE c \in Taken
    OBVIOUS
  <2>1. PICK s \in Turns, i \in 1..Size : c = <<s, i>> /\ i <= held'[s]
    BY TakenOnes DEF Taken
  <2>2. held[s] \in 0..2 /\ held'[s] \in Nat /\ held'[s] <= held[s]
    BY DEF TypeOK
  <2>3. i <= held[s]
    BY <2>1, <2>2
  <2> QED BY <2>1, <2>3, TakenOnes DEF Taken
<1>2. IsFiniteSet(Taken') /\ InUse' <= InUse
  BY <1>1, TakenIsFinite, FS_Subset DEF InUse
<1> QED BY <1>2, FS_CardinalityType DEF InUse

\* The pool is free and no one waits.
LEMMA PooledInit == Init => Pooled
<1> SUFFICES ASSUME Init PROVE Pooled
  OBVIOUS
<1>1. TypeOK
  BY ConnectionsAssumption DEF Init, TypeOK, Places
<1>2. Holds
  BY ConnectionsAssumption DEF Init, Holds, Holding, InTransaction
<1>3. Waiters
  BY DEF Init, Waiters, IsInjective, ToSet, Wants
<1>4. Taken = {}
  BY DEF Init, Taken
<1>5. InUse <= Size
  BY <1>4, FS_EmptySet, ConnectionsAssumption DEF InUse
<1> QED BY <1>1, <1>2, <1>3, <1>5 DEF Pooled

\* A step of a turn with what it holds: it keeps or returns a connection, and
\* joins the waiters when it wants another.
Moves(t, place) ==
  /\ Goto(t, place)
  /\ held' = [held EXCEPT ![t] = Holding(place)]
  /\ Holding(place) <= held[t]
  /\ place \in {"metric", "noted"} => notes[t] > 0

LEMMA WorkMoves ==
  ASSUME Pooled, NEW t \in Turns, Work(t)
  PROVE  /\ pc[t] \notin Wants
         /\ \E place \in Wants \cup Places : Moves(t, place)
         /\ notes' \in [Turns -> Nat] /\ rounds' \in [Turns -> Nat]
         /\ \A s \in Turns : notes'[s] <= notes[s]
<1> TypeOK /\ Holds
  BY DEF Pooled
<1>0. held[t] = Holding(pc[t]) /\ held = [held EXCEPT ![t] = held[t]] /\ held[t] \in Nat
  BY DEF Holds, TypeOK
<1>1. ASSUME NEW place \in Wants \cup Places, Goto(t, place), UNCHANGED held,
             Holding(place) = held[t], place \in {"metric", "noted"} => notes[t] > 0
      PROVE  Moves(t, place)
  BY <1>0, <1>1 DEF Moves
<1>2. ASSUME NEW place \in Wants \cup Places, Release(t, place),
             Holding(place) = held[t] - 1, place \notin {"metric", "noted"}
      PROVE  Moves(t, place)
  <2>1. Holding(place) <= held[t]
    BY <1>0, <1>2
  <2> QED BY <1>2, <2>1 DEF Release, Moves
<1>3. (\E place \in Wants \cup Places : Moves(t, place)) /\ pc[t] \notin Wants
  <2> USE DEF Wants, Places, Holding, InTransaction
  <2>1. CASE Begin(t) \/ Transcribe(t)
    BY <1>0, <1>1, <2>1 DEF Begin, Transcribe
  <2>2. CASE Recorded(t) \/ Built(t) \/ BuildFails(t) \/ Read(t)
    BY <1>0, <1>2, <2>2 DEF Recorded, Built, BuildFails, Read
  <2>3. CASE AskModel(t) \/ Decide(t) \/ Told(t)
    BY <1>0, <1>1, <2>3 DEF AskModel, Decide, Told
  <2>4. CASE Counted(t) \/ ToolDone(t) \/ LogReply(t)
    BY <1>0, <1>2, <2>4 DEF Counted, ToolDone, LogReply
  <2>5. CASE SendReply(t) \/ Apologize(t)
    BY <1>0, <1>1, <2>5 DEF SendReply, Apologize
  <2> QED BY <2>1, <2>2, <2>3, <2>4, <2>5 DEF Work
<1>4. \/ UNCHANGED <<notes, rounds>>
      \/ notes[t] > 0 /\ notes' = [notes EXCEPT ![t] = @ - 1] /\ UNCHANGED rounds
      \/ rounds[t] > 0 /\ rounds' = [rounds EXCEPT ![t] = @ - 1] /\ UNCHANGED notes
  BY DEF Work, Begin, Transcribe, Recorded, Built, BuildFails, Read, AskModel, Counted, Decide,
         ToolDone, Told, SendReply, Apologize, LogReply
<1>5. /\ notes' \in [Turns -> Nat] /\ rounds' \in [Turns -> Nat]
      /\ \A s \in Turns : notes'[s] <= notes[s]
  <2>1. /\ notes \in [Turns -> Nat] /\ rounds \in [Turns -> Nat]
        /\ notes[t] \in Nat /\ rounds[t] \in Nat /\ \A s \in Turns : notes[s] \in Nat
    BY DEF TypeOK
  <2>2. CASE UNCHANGED <<notes, rounds>>
    BY <2>1, <2>2
  <2>3. CASE notes[t] > 0 /\ notes' = [notes EXCEPT ![t] = @ - 1] /\ UNCHANGED rounds
    BY <2>1, <2>3
  <2>4. CASE rounds[t] > 0 /\ rounds' = [rounds EXCEPT ![t] = @ - 1] /\ UNCHANGED notes
    BY <2>1, <2>4
  <2> QED BY <1>4, <2>2, <2>3, <2>4
<1> QED BY <1>3, <1>5

\* Every step of a turn keeps the invariant.
LEMMA PooledStep ==
  ASSUME Pooled, NEW t \in Turns, Step(t)
  PROVE  Pooled'
<1> USE ConnectionsAssumption
<1> TypeOK /\ Holds /\ Waiters /\ InUse <= Size
  BY DEF Pooled
<1>0. /\ InUse \in Nat /\ DOMAIN queue = 1..Len(queue)
      /\ \A s \in Turns : held[s] \in Nat /\ Holding(pc[s]) \in 0..2
      /\ "metric" \in Wants /\ "noted" \notin Wants
  <2>1. \A s \in Turns : held[s] \in 0..2
    BY DEF TypeOK
  <2>2. \A s \in Turns : held[s] \in Nat /\ Holding(pc[s]) \in 0..2
    BY <2>1 DEF Holding
  <2>3. DOMAIN queue = 1..Len(queue)
    BY DEF TypeOK
  <2> QED BY <2>2, <2>3, TakenIsFinite DEF Wants
<1>1. CASE Work(t)
  <2>0. PICK place \in Wants \cup Places : Moves(t, place)
    BY <1>1, WorkMoves
  <2>1. /\ Goto(t, place)
        /\ held' = [held EXCEPT ![t] = Holding(place)] /\ Holding(place) <= held[t]
        /\ place \in {"metric", "noted"} => notes[t] > 0
    BY <2>0 DEF Moves
  <2>2. /\ pc[t] \notin Wants
        /\ notes' \in [Turns -> Nat] /\ rounds' \in [Turns -> Nat]
        /\ \A s \in Turns : notes'[s] <= notes[s]
    BY <1>1, WorkMoves
  <2>3. pc' = [pc EXCEPT ![t] = place] /\ Holding(place) \in 0..2
    BY <2>1 DEF Goto, Holding
  <2>4. /\ queue' \in Seq(Turns) /\ IsInjective(queue')
        /\ ToSet(queue') = IF place \in Wants THEN ToSet(queue) \cup {t} ELSE ToSet(queue)
    BY <2>1, <2>2, JoinQueue DEF Goto, TypeOK, Waiters
  <2>5. TypeOK'
    BY <2>1, <2>2, <2>3, <2>4 DEF TypeOK
  <2>6. Holds'
    BY <2>1, <2>2, <2>3 DEF TypeOK, Holds
  <2>7. Waiters'
    BY <2>2, <2>3, <2>4 DEF TypeOK, Waiters
  <2>8. InUse' \in Nat /\ InUse' <= InUse
    BY <1>0, <2>1, <2>3, TakesNone DEF TypeOK
  <2>9. InUse' <= Size
    BY <1>0, <2>8
  <2> QED BY <2>5, <2>6, <2>7, <2>9 DEF Pooled
<1>2. CASE Grant(t)
  <2>1. /\ pc[t] \in Wants /\ queue # <<>> /\ t = Head(queue) /\ queue' = Tail(queue)
        /\ pc' = [pc EXCEPT ![t] = Got(pc[t])] /\ held' = [held EXCEPT ![t] = @ + 1]
        /\ UNCHANGED <<notes, rounds>> /\ InUse < Size
    BY <1>2, ServeQueue DEF Grant, Waiters, TypeOK
  <2>2. /\ queue' \in Seq(Turns) /\ IsInjective(queue') /\ ToSet(queue') = ToSet(queue) \ {t}
    BY <2>1, ServeQueue DEF TypeOK, Waiters
  <2>3. /\ Got(pc[t]) \in Places \ Wants /\ Holding(Got(pc[t])) = Holding(pc[t]) + 1
        /\ Got(pc[t]) # "metric"
        /\ Got(pc[t]) = "noted" => pc[t] = "metric"
    BY <2>1 DEF Got, Wants, Places, Holding, InTransaction
  <2>4. held'[t] = Holding(Got(pc[t])) /\ Holding(Got(pc[t])) \in 0..2
    <3>1. held[t] = Holding(pc[t]) /\ held'[t] = held[t] + 1
      BY <2>1 DEF TypeOK, Holds
    <3>2. Holding(Got(pc[t])) \in 0..2
      BY DEF Holding
    <3> QED BY <2>3, <3>1, <3>2
  <2>5. TypeOK'
    BY <2>1, <2>2, <2>3, <2>4 DEF TypeOK
  <2>6. Holds'
    BY <2>1, <2>3, <2>4 DEF TypeOK, Holds
  <2>7. Waiters'
    BY <2>1, <2>2, <2>3 DEF TypeOK, Waiters
  <2>8. InUse' \in Nat /\ InUse' <= InUse + 1
    BY <2>1, TakesOne
  <2>9. InUse' <= Size
    BY <1>0, <2>1, <2>8
  <2> QED BY <2>5, <2>6, <2>7, <2>9 DEF Pooled
<1>3. CASE Timeout(t)
  <2>1. PICK i \in DOMAIN queue : queue[i] = t /\ queue' = RemoveAt(queue, i)
    BY <1>3 DEF Timeout
  <2>2. /\ queue' \in Seq(Turns) /\ IsInjective(queue') /\ ToSet(queue') = ToSet(queue) \ {t}
    BY <2>1, LeaveQueue DEF TypeOK, Waiters
  <2>3. pc[t] \in Wants
    BY <2>1 DEF Waiters, ToSet
  <2>4. /\ pc' = [pc EXCEPT ![t] = Missed(pc[t])] /\ UNCHANGED <<notes, rounds, held>>
    BY <1>3 DEF Timeout
  <2>5. /\ Missed(pc[t]) \in Places \ Wants /\ Holding(Missed(pc[t])) = Holding(pc[t])
        /\ Missed(pc[t]) \notin {"metric", "noted"}
    BY <2>3 DEF Missed, Wants, Places, Holding, InTransaction
  <2>6. TypeOK' /\ Holds' /\ Waiters'
    BY <2>2, <2>4, <2>5 DEF TypeOK, Holds, Waiters
  <2>7. InUse' = InUse
    BY <2>4 DEF InUse, Taken
  <2> QED BY <2>6, <2>7 DEF Pooled
<1> QED BY <1>1, <1>2, <1>3 DEF Step

\* In a jam each holder waits to record a transcription, with one connection.
LEMMA JamIsOfNotes == Pooled => OnlyVoiceNotesJam
<1> DEFINE S == {t \in Turns : held[t] > 0 /\ Notes[t] > 0}
<1> SUFFICES ASSUME Pooled, Jammed PROVE Cardinality(S) = Size
  BY DEF OnlyVoiceNotesJam
<1>1. ASSUME NEW t \in Turns, held[t] > 0 PROVE held[t] = 1 /\ Notes[t] > 0
  <2>1. pc[t] \in Wants /\ held[t] = Holding(pc[t])
    BY <1>1 DEF Jammed, Pooled, Holds
  <2>2. pc[t] = "metric"
    BY <1>1, <2>1 DEF Holding, InTransaction, Wants
  <2> QED BY <2>1, <2>2 DEF Pooled, Holds, Holding, InTransaction
<1>2. \A t \in Turns : held[t] \in Nat
  BY DEF Pooled, TypeOK
<1>3. 1 \in 1..Size
  BY ConnectionsAssumption
<1>4. Taken = {<<t, 1>> : t \in S}
  BY <1>1, <1>2, <1>3 DEF Taken
<1>5. ExistsBijection(S, Taken)
  <2> DEFINE f == [t \in S |-> <<t, 1>>]
  <2>1. f \in Bijection(S, Taken)
    <3> HIDE DEF S
    <3> QED BY <1>4 DEF Bijection, Injection, Surjection, IsInjective
  <2> QED BY <2>1 DEF ExistsBijection
<1>6. IsFiniteSet(S)
  BY FS_Subset, ConnectionsAssumption
<1> HIDE DEF S
<1> QED BY <1>5, <1>6, FS_Bijection DEF Jammed, InUse

\* A restart takes every connection back.
LEMMA PooledExit ==
  ASSUME Pooled, NEW s \in Starters, Exit(s)
  PROVE  Pooled'
<1>1. CASE UNCHANGED vars
  BY <1>1 DEF vars, Pooled, TypeOK, Holds, Waiters, InUse, Taken
<1>2. CASE /\ pc' = [t \in Turns |-> IF pc[t] = "new" THEN "new" ELSE "ended"]
           /\ held' = [t \in Turns |-> 0] /\ queue' = <<>> /\ UNCHANGED <<notes, rounds>>
  <2>1. TypeOK' /\ Holds' /\ Waiters'
    BY <1>2 DEF Pooled, TypeOK, Places, Wants, Holds, Holding, InTransaction, Waiters, IsInjective,
                ToSet
  <2>2. InUse' \in Nat /\ InUse' <= InUse
    <3>1. TypeOK /\ \A t \in Turns : held'[t] = 0 /\ held[t] \in 0..2
      BY <1>2 DEF Pooled, TypeOK
    <3> QED BY <3>1, TakesNone
  <2>3. InUse \in Nat /\ InUse <= Size /\ Size \in Nat
    BY TakenIsFinite, ConnectionsAssumption DEF Pooled
  <2>4. InUse' <= Size
    BY <2>2, <2>3
  <2> QED BY <2>1, <2>4 DEF Pooled
<1> QED BY <1>1, <1>2 DEF Exit

\* The invariant holds as the app serves, migrates, fails and starts again.
LEMMA AlwaysPooled == ServiceSpec => []Pooled
<1>1. ServiceInit => Pooled
  BY PooledInit DEF ServiceInit
<1>2. Pooled /\ [ServiceNext]_service => Pooled'
  <2>1. Pooled /\ UNCHANGED vars => Pooled'
    BY DEF vars, Pooled, TypeOK, Holds, Waiters, InUse, Taken
  <2> QED BY <2>1, PooledStep, PooledExit DEF ServiceNext, Serve, Migrate, service
<1> QED BY <1>1, <1>2, PTL DEF ServiceSpec

\* The pool never hands out more than it has, its waiters are exactly the turns
\* that want a connection, each once, and the types hold: also as turns time out
\* and as the app dies under them.
THEOREM PoolIsConsistent == ServiceSpec => [](TypeOK /\ Waiters /\ InUse <= Size)
<1>1. Pooled => TypeOK /\ Waiters /\ InUse <= Size
  BY DEF Pooled
<1> QED BY <1>1, AlwaysPooled, PTL

\* When everyone waits on everyone, each is a burst with a voice note, and there
\* are as many of them as the pool has connections, however large it is.
THEOREM JamsNeedVoiceNotes == ServiceSpec => []OnlyVoiceNotesJam
<1> QED BY JamIsOfNotes, AlwaysPooled, PTL
=============================================================================
