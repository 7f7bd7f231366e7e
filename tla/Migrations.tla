----------------------------- MODULE Migrations -----------------------------
(***************************************************************************)
(* Start-up: run_migrations (db/migrate.py), which main.lifespan calls     *)
(* before the app serves.  Several processes may run it at once, of older  *)
(* and newer releases; any may fail or stop at any point and is started    *)
(* again (compose: restart unless-stopped).                                *)
(*                                                                         *)
(* A file is its place in filename order, and a release ships all files up *)
(* to its newest.  What a transaction did is visible at its commit; the    *)
(* advisory lock of a transaction is free when it commits or rolls back.   *)
(***************************************************************************)
EXTENDS Naturals, Sequences, FiniteSets, Functions

CONSTANTS
  Starters,    \* processes that call run_migrations
  Ships,       \* [Starters -> Nat]: the newest file of its release
  MaxFailures  \* bound: starts that fail and processes that stop

ASSUME MigrationsAssumption == Ships \in [Starters -> Nat] /\ MaxFailures \in Nat

VARIABLES
  schema,   \* Seq(Nat): the files whose effects are committed, in order
  recorded, \* set of Nat: the rows of schema_migrations
  phase,    \* [Starters -> Phases]
  done,     \* [Starters -> SUBSET Nat]: the rows it has read
  applied,  \* [Starters -> Seq(Nat)]: what its open transaction applied
  failures  \* failed starts and stops so far

migration == <<schema, recorded, phase, done, applied, failures>>

Phases  == {"down", "create", "lock", "read", "apply", "up"}
Holders == {s \in Starters : phase[s] \in {"read", "apply"}}   \* of the lock

MigrationInit ==
  /\ schema = <<>> /\ recorded = {}
  /\ phase = [s \in Starters |-> "down"]
  /\ done = [s \in Starters |-> {}]
  /\ applied = [s \in Starters |-> <<>>]
  /\ failures = 0

MigrationTypeOK ==
  /\ schema \in Seq(Nat) /\ recorded \subseteq Nat
  /\ phase \in [Starters -> Phases]
  /\ done \in [Starters -> SUBSET Nat] /\ applied \in [Starters -> Seq(Nat)]
  /\ failures \in Nat

Enter(s, p) == phase' = [phase EXCEPT ![s] = p]

Start(s) ==
  /\ phase[s] = "down" /\ Enter(s, "create")
  /\ UNCHANGED <<schema, recorded, done, applied, failures>>

\* CREATE TABLE IF NOT EXISTS schema_migrations, in a transaction of its own.
CreateTable(s) ==
  /\ phase[s] = "create" /\ Enter(s, "lock")
  /\ UNCHANGED <<schema, recorded, done, applied, failures>>

\* pg_advisory_xact_lock waits for the transaction that holds it.
Lock(s) ==
  /\ phase[s] = "lock" /\ Holders = {}
  /\ Enter(s, "read")
  /\ UNCHANGED <<schema, recorded, done, applied, failures>>

ReadDone(s) ==
  /\ phase[s] = "read" /\ Enter(s, "apply")
  /\ done' = [done EXCEPT ![s] = recorded]
  /\ UNCHANGED <<schema, recorded, applied, failures>>

\* The files yet to be applied, in filename order: the first of them is next.
Pending(s) == (1..Ships[s]) \ (done[s] \cup Range(applied[s]))
IsNext(s, f) == f \in Pending(s) /\ \A g \in Pending(s) : f <= g

\* Mutant of Apply: every file commits by itself.
ApplyCommitted(s) ==
  /\ phase[s] = "apply"
  /\ \E f \in Pending(s) :
       /\ IsNext(s, f)
       /\ applied' = [applied EXCEPT ![s] = Append(@, f)]
       /\ schema' = Append(schema, f) /\ recorded' = recorded \cup {f}
  /\ UNCHANGED <<phase, done, failures>>

\* The next pending file runs and its row is inserted.  A file that another
\* start-up has recorded since violates the primary key: see Fail.
Apply(s) ==
  /\ phase[s] = "apply"
  /\ \E f \in Pending(s) \ recorded :
       IsNext(s, f) /\ applied' = [applied EXCEPT ![s] = Append(@, f)]
  /\ UNCHANGED <<schema, recorded, phase, done, failures>>

\* The process is as it was before it started; its transaction is rolled back.
Forget(s) ==
  /\ done' = [done EXCEPT ![s] = {}]
  /\ applied' = [applied EXCEPT ![s] = <<>>]

\* One commit for the whole batch, and the app serves.
Commit(s) ==
  /\ phase[s] = "apply" /\ Pending(s) = {}
  /\ schema' = schema \o applied[s]
  /\ recorded' = recorded \cup Range(applied[s])
  /\ Enter(s, "up") /\ Forget(s)
  /\ UNCHANGED failures

Starting(s) == phase[s] \in {"create", "lock", "read", "apply"}

\* Mutant of Fail: the failure is logged and the app serves.
FailQuietly(s) ==
  /\ Starting(s) /\ failures < MaxFailures
  /\ failures' = failures + 1
  /\ Enter(s, "up") /\ Forget(s)
  /\ UNCHANGED <<schema, recorded>>

\* A statement fails or the process dies while it starts: the exception leaves
\* lifespan, so the app never serves.
Fail(s) ==
  /\ Starting(s) /\ failures < MaxFailures
  /\ failures' = failures + 1
  /\ Enter(s, "down") /\ Forget(s)
  /\ UNCHANGED <<schema, recorded>>

\* A running process is stopped, or dies.
Stop(s) ==
  /\ phase[s] = "up" /\ failures < MaxFailures
  /\ failures' = failures + 1
  /\ Enter(s, "down")
  /\ UNCHANGED <<schema, recorded, done, applied>>

StartUp(s) == Start(s) \/ CreateTable(s) \/ Lock(s) \/ ReadDone(s) \/ Apply(s) \/ Commit(s)

MigrationNext == \E s \in Starters : StartUp(s) \/ Fail(s) \/ Stop(s)
MigrationSpec == MigrationInit /\ [][MigrationNext]_migration

-----------------------------------------------------------------------------
(* What start-up promises.                                                  *)

\* The first n files, each once, in filename order.
UpTo(n) == [i \in 1..n |-> i]

\* The schema moves forward, to that of a release.
MovesToRelease ==
  schema' # schema => \E s \in Starters : /\ schema' = UpTo(Ships[s])
                                          /\ Ships[s] > Len(schema)

\* All or nothing ("nothing is left half-applied", run_migrations): each commit
\* takes the schema to that of some whole release, whoever starts at the same
\* time and wherever they fail.
WholeReleases == [][MovesToRelease]_migration

\* What serves finds the schema its release was written for.
ServesItsSchema == \A s \in Starters : phase[s] = "up" => Len(schema) >= Ships[s]
=============================================================================
