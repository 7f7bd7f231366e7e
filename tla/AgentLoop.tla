----------------------------- MODULE AgentLoop -----------------------------
(***************************************************************************)
(* One run of the agent loop (core/llm.run_agent): model calls and tool    *)
(* calls in turn until the model answers with text or the cap is reached.  *)
(* Registry.dispatch gives every tool call a transaction of its own.       *)
(*                                                                         *)
(* The model (external) may ask for any tool, one that exists or not, one  *)
(* the user may see or not, any number at a time and in any order.  This   *)
(* is what Turns takes as its one step RunAgent.                           *)
(***************************************************************************)
EXTENDS Naturals, Sequences, FiniteSets

CONSTANTS
  Names,        \* tool names a model may produce
  Registered,   \* those some capability has
  Visible,      \* those of a capability visible_to the user (today: all;
                \* allowed_roles and allowed_user_ids restrict one)
  MaxIterations,
  MaxCalls      \* bound: tool_use blocks of one response

ASSUME AgentLoopAssumption ==
  /\ Visible \subseteq Registered /\ Registered \subseteq Names
  /\ MaxIterations \in Nat \ {0} /\ MaxCalls \in Nat \ {0}

VARIABLES
  pc,         \* "ask", "tools", "done", "raised" or "killed"
  iteration,  \* of the for loop, from 0
  turns,      \* Seq(Message): what the loop has appended to `messages`
  calls,      \* Seq(Names): tool_use blocks of the last response
  results,    \* Seq(Verdicts): tool_result blocks gathered for them
  ran,        \* set of <<iteration, block, name>>: handlers that were entered
  committed,  \* those whose transaction committed
  recorded,   \* rows of model_calls with this turn_id
  reply       \* "none", "text" or "fallback"; "" would be an empty body

work == <<ran, committed>>
vars == <<pc, iteration, turns, calls, results, work, recorded, reply>>

Verdicts == {"ok", "failed", "hidden", "unknown"}
Ids == Nat \X Nat \X Names
Message == [role : {"assistant", "user"}, round : Nat, blocks : Seq(Names \cup Verdicts)]

TypeOK ==
  /\ pc \in {"ask", "tools", "done", "raised", "killed"}
  /\ iteration \in 0..MaxIterations
  /\ turns \in Seq(Message)
  /\ calls \in Seq(Names) /\ results \in Seq(Verdicts)
  /\ Len(results) <= Len(calls)
  /\ ran \subseteq Ids /\ committed \subseteq ran
  /\ recorded \in 0..MaxIterations
  /\ reply \in {"none", "text", "fallback"}

Init ==
  /\ pc = "ask" /\ iteration = 0
  /\ turns = <<>> /\ calls = <<>> /\ results = <<>>
  /\ ran = {} /\ committed = {}
  /\ recorded = 0 /\ reply = "none"

-----------------------------------------------------------------------------
(* The model call.                                                          *)

\* usage.record writes its row or logs its failure; the turn never notices.
RecordUsage == recorded' \in {recorded, recorded + 1}

\* A refusal, or text; a text that is empty or blank becomes the fallback.
Answer ==
  /\ pc = "ask"
  /\ RecordUsage
  /\ pc' = "done"
  /\ reply' \in {"text", "fallback"}
  /\ UNCHANGED <<iteration, turns, calls, results, work>>

\* stop_reason "tool_use": the response is appended whole.
UseTools(names) ==
  /\ pc = "ask" /\ names # <<>>
  /\ RecordUsage
  /\ pc' = "tools"
  /\ turns' = Append(turns, [role |-> "assistant", round |-> iteration, blocks |-> names])
  /\ calls' = names /\ results' = <<>>
  /\ UNCHANGED <<iteration, work, reply>>

\* messages.create raises: run_agent raises, handle_turn apologises.
ModelFails ==
  /\ pc = "ask"
  /\ pc' = "raised"
  /\ UNCHANGED <<iteration, turns, calls, results, work, recorded, reply>>

-----------------------------------------------------------------------------
(* Registry.dispatch, block by block.                                       *)

Block == Len(results) + 1
Name  == calls[Block]
Id    == <<iteration, Block, Name>>
InBlock == pc = "tools" /\ Len(results) < Len(calls)

Result(v) ==
  /\ results' = Append(results, v)
  /\ UNCHANGED <<pc, iteration, turns, calls, recorded, reply>>

\* A name nobody registered, and one this user must not see.
Refuse ==
  /\ InBlock /\ Name \notin Visible
  /\ Result(IF Name \in Registered THEN "hidden" ELSE "unknown")
  /\ UNCHANGED work

\* Mutant of Handle: the result is built before the commit, whose failure is
\* swallowed.
HandleBeforeCommit ==
  /\ InBlock /\ Name \in Visible
  /\ ran' = ran \cup {Id}
  /\ committed' \in {committed, committed \cup {Id}}
  /\ Result("ok")

\* The handler runs in its transaction: it commits and its result is told; it
\* raises and is rolled back; or the answer to its commit is lost.
Handle ==
  /\ InBlock /\ Name \in Visible
  /\ ran' = ran \cup {Id}
  /\ \/ committed' = committed \cup {Id} /\ Result("ok")
     \/ UNCHANGED committed /\ Result("failed")
     \/ committed' = committed \cup {Id} /\ Result("failed")

\* Mutants of Return: at the cap the run starts over, without end; a message per
\* result.
ReturnStartsOver ==
  /\ pc = "tools" /\ Len(results) = Len(calls)
  /\ pc' = "ask"
  /\ IF iteration + 1 < MaxIterations
     THEN /\ turns' = Append(turns, [role |-> "user", round |-> iteration, blocks |-> results])
          /\ iteration' = iteration + 1
     ELSE turns' = <<>> /\ iteration' = 0
  /\ UNCHANGED <<calls, results, work, recorded, reply>>

ReturnOneByOne ==
  /\ pc = "tools" /\ Len(results) = Len(calls)
  /\ turns' = turns \o [i \in DOMAIN results |->
                          [role |-> "user", round |-> iteration, blocks |-> <<results[i]>>]]
  /\ iteration' = iteration + 1
  /\ IF iteration + 1 < MaxIterations THEN pc' = "ask" /\ UNCHANGED reply
                                      ELSE pc' = "done" /\ reply' = "fallback"
  /\ UNCHANGED <<calls, results, work, recorded>>

\* All results go back in one user message; the cap ends the loop.
Return ==
  /\ pc = "tools" /\ Len(results) = Len(calls)
  /\ turns' = Append(turns, [role |-> "user", round |-> iteration, blocks |-> results])
  /\ iteration' = iteration + 1
  /\ IF iteration + 1 < MaxIterations THEN pc' = "ask" /\ UNCHANGED reply
                                      ELSE pc' = "done" /\ reply' = "fallback"
  /\ UNCHANGED <<calls, results, work, recorded>>

\* The app container goes down under the run.
Kill ==
  /\ pc \in {"ask", "tools"}
  /\ pc' = "killed"
  /\ UNCHANGED <<iteration, turns, calls, results, work, recorded, reply>>

Responses == UNION {[1..n -> Names] : n \in 1..MaxCalls}
AskModel == Answer \/ ModelFails \/ \E names \in Responses : UseTools(names)
Dispatch == Refuse \/ Handle

Next == AskModel \/ Dispatch \/ Return \/ Kill
Spec == Init /\ [][Next]_vars

\* The SDK's and the database's own timeouts bound every call.
FairSpec == Spec /\ WF_vars(AskModel \/ Dispatch \/ Return)

-----------------------------------------------------------------------------
(* What the loop promises.                                                  *)

\* What is sent to the model next is well formed: every assistant message is
\* followed by one user message with as many results as it has tool_use blocks
\* (run_agent: splitting them "violates the API contract").
ResultsArePaired ==
  pc = "ask" =>
    /\ Len(turns) = 2 * iteration
    /\ \A k \in 0..(iteration - 1) :
         /\ turns[2 * k + 1].role = "assistant" /\ turns[2 * k + 2].role = "user"
         /\ Len(turns[2 * k + 1].blocks) = Len(turns[2 * k + 2].blocks)

\* When the model is told that a tool succeeded, its work is committed and
\* stays so: "a failure two tool calls later cannot erase it" (handle_turn).
ToldIsDone ==
  /\ \A i \in DOMAIN results :
       pc = "tools" /\ results[i] = "ok" => <<iteration, i, calls[i]>> \in committed
  /\ \A k \in DOMAIN turns : turns[k].role = "user" =>
       \A i \in DOMAIN turns[k].blocks : turns[k].blocks[i] = "ok" =>
         \E id \in committed : id[1] = turns[k].round /\ id[2] = i

\* Every run ends: with a reply, with an exception or with the process.
EveryRunEnds == <>(pc \in {"done", "raised", "killed"})
=============================================================================
