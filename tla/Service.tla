------------------------------ MODULE Service ------------------------------
(***************************************************************************)
(* The app process as a whole: main.lifespan opens the pool and migrates   *)
(* (Migrations), and only then do turns run on the pool's connections      *)
(* (Connections).  Another process of another release may migrate the same *)
(* database meanwhile.  When the app dies, the turns in flight die with    *)
(* it, and the server takes their connections back.                        *)
(***************************************************************************)
EXTENDS Connections, Migrations

CONSTANT App  \* the starter that serves
ASSUME ServiceAssumption == App \in Starters

service == <<vars, migration>>

ServiceInit == Init /\ MigrationInit

\* Mutant of Serve: the app answers while it still migrates.
ServeAtOnce(t) == phase[App] # "down" /\ Step(t) /\ UNCHANGED migration

\* lifespan has yielded: requests are served and turns run.
Serve(t) == phase[App] = "up" /\ Step(t) /\ UNCHANGED migration

Migrate(s) == (StartUp(s) \/ Fail(s)) /\ UNCHANGED vars

Exit(s) ==
  /\ Stop(s)
  /\ IF s = App
     THEN /\ pc' = [t \in Turns |-> IF pc[t] = "new" THEN "new" ELSE "ended"]
          /\ held' = [t \in Turns |-> 0]
          /\ queue' = <<>>
          /\ UNCHANGED <<notes, rounds>>
     ELSE UNCHANGED vars

ServiceNext ==
  \/ \E t \in Turns : Serve(t)
  \/ \E s \in Starters : Migrate(s) \/ Exit(s)

\* Docker starts a process again, and statements and network calls return.
ServiceSpec ==
  /\ ServiceInit /\ [][ServiceNext]_service
  /\ \A s \in Starters : WF_service(StartUp(s) /\ UNCHANGED vars)
  /\ \A t \in Turns : WF_service(Serve(t))

-----------------------------------------------------------------------------
\* No turn, not even one that has since been killed, ran on a schema older than
\* its code: lifespan migrates first, and what others do meanwhile never takes
\* anything away.
TurnsFindTheirSchema ==
  /\ ServesItsSchema
  /\ \A t \in Turns : pc[t] # "new" => Len(schema) >= Ships[App]
=============================================================================
